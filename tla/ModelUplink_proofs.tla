-------------------------- MODULE ModelUplink_proofs --------------------------
(***************************************************************************)
(* The uplink carries whole models, in order and once, for files of any    *)
(* size, any window, reads and writes of any length and any faults.        *)
(***************************************************************************)
EXTENDS ModelUplink, FiniteSetTheorems, SequenceTheorems, TLAPS

-----------------------------------------------------------------------------
(* The invariant: what is on its way is one piece of a frame.  Only a file     *)
(* that came with its size field in one read may be left in front of it.       *)

\* A unit of a frame.
Unit == {u \in [model : Models, at : Nat] : u.at \in 1..(HeaderSize + Size[u.model])}

\* The units from+1 .. to of the frame of m.
Piece(m, from, to) == [i \in 1..(to - from) |-> [model |-> m, at |-> from + i]]

FrameSize(m) == HeaderSize + Size[m]

Transfer(m, to) == [headerReceived |-> TRUE, expectedSize |-> Size[m],
                    buffer |-> Piece(m, HeaderSize, to)]

PartOfSize(m, to) == [headerReceived |-> FALSE, expectedSize |-> 0, buffer |-> Piece(m, 0, to)]

\* The edge has written the frame of m up to q, and queued what it has sent.
Sending(m, q) ==
    /\ m \in Models /\ sent \in 0..Size[m]
    /\ q \in 0..(HeaderSize + sent)
    /\ queue = Piece(m, q, HeaderSize + sent)
    /\ IF inProgress THEN file = {m} /\ sent < Size[m] ELSE sent = Size[m]

\* No unit anywhere.
Idle == stream = << >> /\ queue = << >> /\ transfer = NoTransfer /\ ~inProgress

\* The centre has read the frame of m up to p.
Moving(m, p, q) ==
    /\ Sending(m, q)
    /\ p \in 0..q /\ stream = Piece(m, p, q)
    /\ \/ p < HeaderSize /\ transfer = PartOfSize(m, p)
       \/ p >= HeaderSize /\ transfer = Transfer(m, p)

\* The file of old is in the buffer and waits for a read that will be taken for
\* an overflow.
Stuck(old, m, q) ==
    /\ old \in Models /\ transfer = Transfer(old, FrameSize(old))
    /\ Sending(m, q)
    /\ stream = Piece(m, 0, q)

\* Until something fails, the centre has not read the whole frame, and accepts
\* the file.
Fit(m, p) == faults = 0 => p < FrameSize(m) /\ Size[m] <= MaxFileSize

\* The models on their way are those of w.
Mode(w) ==
    \/ w = << >> /\ Idle
    \/ \E m \in Models : \E p, q \in Nat : w = <<m>> /\ Moving(m, p, q) /\ Fit(m, p)
    \/ \E old, m \in Models : \E q \in Nat : w = <<old, m>> /\ Stuck(old, m, q) /\ faults > 0

Typed == /\ link \in {"up", "retrying", "down"} /\ file \in SUBSET Models
         /\ sent \in Nat /\ inProgress \in BOOLEAN /\ onWritten \in BOOLEAN
         /\ received \in Seq(Models)
         /\ sends \in 0..MaxSends /\ faults \in 0..MaxFaults

IInv == Typed /\ ConnectionKept /\ \E w \in Seq(Models) : Mode(w)

\* What a step may do to the models on their way and to those received.
PipeStep(w, v) ==
    \/ v = w /\ received' = received
    \/ \E m \in Models : v = Append(w, m) /\ received' = received
    \/ w # << >> /\ v = << >> /\ received' = received
    \/ \E m \in Models : w = <<m>> /\ v = << >> /\ received' = Append(received, m)

Goes(w) == Typed' /\ ConnectionKept' /\ \E v \in Seq(Models) : Mode(v)' /\ PipeStep(w, v)

-----------------------------------------------------------------------------
(* Pieces of frames. *)

LEMMA SizeFacts ==
    ASSUME NEW m \in Models
    PROVE  /\ Size[m] \in Nat \ {0} /\ HeaderSize \in Nat \ {0}
           /\ FrameSize(m) \in Nat /\ FrameSize(m) = HeaderSize + Size[m]
           /\ HeaderSize < FrameSize(m)
<1>1. Size[m] \in Nat \ {0} /\ HeaderSize \in Nat \ {0}
  BY SizesAssumption
<1> QED BY <1>1 DEF FrameSize

LEMMA PieceFacts ==
    ASSUME NEW m \in Models, NEW from \in Nat, NEW to \in from..FrameSize(m)
    PROVE  /\ Piece(m, from, to) \in Seq(Unit) /\ Len(Piece(m, from, to)) = to - from
           /\ DOMAIN Piece(m, from, to) = 1..(to - from)
           /\ \A i \in 1..(to - from) : Piece(m, from, to)[i] = [model |-> m, at |-> from + i]
           /\ Piece(m, from, to) = << >> <=> from = to
<1>1. to \in Nat /\ FrameSize(m) \in Nat /\ FrameSize(m) = HeaderSize + Size[m] /\ to - from \in Nat
  BY SizeFacts
<1>2. ASSUME NEW i \in 1..(to - from)
      PROVE  [model |-> m, at |-> from + i] \in Unit
  BY <1>1 DEF Unit
<1>3. /\ Piece(m, from, to) \in Seq(Unit) /\ Len(Piece(m, from, to)) = to - from
      /\ DOMAIN Piece(m, from, to) = 1..(to - from)
  BY <1>1, <1>2 DEF Piece
<1>4. \A i \in 1..(to - from) : Piece(m, from, to)[i] = [model |-> m, at |-> from + i]
  BY DEF Piece
<1>5. Piece(m, from, to) = << >> <=> from = to
  <2>1. \A S : \A s \in Seq(S) : s = << >> <=> Len(s) = 0
    OBVIOUS
  <2> QED BY <1>1, <1>3, <2>1
<1> QED BY <1>3, <1>4, <1>5

LEMMA PieceJoin ==
    ASSUME NEW m \in Models, NEW from \in Nat, NEW mid \in from..FrameSize(m),
           NEW to \in mid..FrameSize(m)
    PROVE  Piece(m, from, mid) \o Piece(m, mid, to) = Piece(m, from, to)
<1> DEFINE a == Piece(m, from, mid)
           b == Piece(m, mid, to)
           c == Piece(m, from, to)
<1>1. mid \in Nat /\ to \in Nat /\ FrameSize(m) \in Nat /\ to \in from..FrameSize(m)
  BY SizeFacts
<1>2. /\ a \in Seq(Unit) /\ Len(a) = mid - from
      /\ \A i \in 1..(mid - from) : a[i] = [model |-> m, at |-> from + i]
  BY <1>1, PieceFacts, ZenonT(60)
<1>3. /\ b \in Seq(Unit) /\ Len(b) = to - mid
      /\ \A i \in 1..(to - mid) : b[i] = [model |-> m, at |-> mid + i]
  BY <1>1, PieceFacts
<1>4. /\ c \in Seq(Unit) /\ Len(c) = to - from /\ DOMAIN c = 1..(to - from)
      /\ \A i \in 1..(to - from) : c[i] = [model |-> m, at |-> from + i]
  BY <1>1, PieceFacts, ZenonT(60)
<1> HIDE DEF a, b, c
<1>5. /\ a \o b \in Seq(Unit) /\ Len(a \o b) = to - from
      /\ \A i \in 1..(to - from) : (a \o b)[i] = IF i <= mid - from THEN a[i] ELSE b[i - (mid - from)]
  BY <1>1, <1>2, <1>3, SMTT(30)
<1>6. ASSUME NEW i \in 1..(to - from)
      PROVE  (a \o b)[i] = c[i]
  <2>1. CASE i <= mid - from
    <3>1. i \in 1..(mid - from)
      BY <1>1, <2>1
    <3> QED BY <1>2, <1>4, <1>5, <2>1, <3>1
  <2>2. CASE ~(i <= mid - from)
    <3>1. i - (mid - from) \in 1..(to - mid) /\ mid + (i - (mid - from)) = from + i
      BY <1>1, <2>2
    <3> QED BY <1>3, <1>4, <1>5, <2>2, <3>1
  <2> QED BY <2>1, <2>2
<1>7. \A S : \A s, t \in Seq(S) : Len(s) = Len(t) /\ (\A i \in 1..Len(s) : s[i] = t[i]) => s = t
  OBVIOUS
<1>8. a \o b = c
  BY <1>4, <1>5, <1>6, <1>7
<1> QED BY <1>8 DEF a, b, c

LEMMA PieceCut ==
    ASSUME NEW m \in Models, NEW from \in Nat, NEW to \in from..FrameSize(m),
           NEW n \in 0..(to - from)
    PROVE  /\ SubSeq(Piece(m, from, to), 1, n) = Piece(m, from, from + n)
           /\ SubSeq(Piece(m, from, to), n + 1, Len(Piece(m, from, to)))
                = Piece(m, from + n, to)
<1> DEFINE c == Piece(m, from, to)
           a == SubSeq(c, 1, n)
           b == SubSeq(c, n + 1, Len(c))
           x == Piece(m, from, from + n)
           y == Piece(m, from + n, to)
<1>1. /\ to \in Nat /\ FrameSize(m) \in Nat /\ to - from \in Nat /\ n \in Nat
      /\ from + n \in from..FrameSize(m) /\ from + n \in Nat /\ to \in (from + n)..FrameSize(m)
  BY SizeFacts
<1>2. /\ c \in Seq(Unit) /\ Len(c) = to - from /\ DOMAIN c = 1..(to - from)
      /\ \A i \in 1..(to - from) : c[i] = [model |-> m, at |-> from + i]
  BY <1>1, PieceFacts, ZenonT(60)
<1>3. /\ x \in Seq(Unit) /\ Len(x) = n
      /\ \A i \in 1..n : x[i] = [model |-> m, at |-> from + i]
  <2>1. (from + n) - from = n
    BY <1>1
  <2>2. /\ x \in Seq(Unit) /\ Len(x) = (from + n) - from
        /\ \A i \in 1..((from + n) - from) : x[i] = [model |-> m, at |-> from + i]
    BY <1>1, PieceFacts, ZenonT(60)
  <2> QED BY <2>1, <2>2
<1>4. /\ y \in Seq(Unit) /\ Len(y) = to - (from + n)
      /\ \A i \in 1..(to - (from + n)) : y[i] = [model |-> m, at |-> (from + n) + i]
  BY <1>1, PieceFacts
<1> HIDE DEF c, x, y
<1>5. a \in Seq(Unit) /\ Len(a) = n /\ \A i \in 1..n : a[i] = c[i]
  BY <1>1, <1>2
<1>6. /\ b \in Seq(Unit) /\ Len(b) = (to - from) - n
      /\ \A i \in 1..((to - from) - n) : b[i] = c[n + i]
  BY <1>1, <1>2
<1> HIDE DEF a, b
<1>7. \A S : \A s, t \in Seq(S) : Len(s) = Len(t) /\ (\A i \in 1..Len(s) : s[i] = t[i]) => s = t
  OBVIOUS
<1>8. a = x
  <2>1. \A i \in 1..n : i \in 1..(to - from)
    BY <1>1
  <2>2. \A i \in 1..n : a[i] = x[i]
    BY <1>2, <1>3, <1>5, <2>1
  <2> QED BY <1>3, <1>5, <1>7, <2>2
<1>9. b = y
  <2>1. to - (from + n) = (to - from) - n
    BY <1>1
  <2>2. \A i \in 1..((to - from) - n) : n + i \in 1..(to - from) /\ from + (n + i) = (from + n) + i
    BY <1>1
  <2>3. \A i \in 1..((to - from) - n) : b[i] = y[i]
    BY <1>2, <1>4, <1>6, <2>1, <2>2
  <2> QED BY <1>4, <1>6, <1>7, <2>1, <2>3
<1> QED BY <1>8, <1>9 DEF a, b, c, x, y

\* What the programs write and read are pieces.
LEMMA FramePieces ==
    ASSUME NEW m \in Models
    PROVE  /\ Frame(m) = Piece(m, 0, FrameSize(m)) /\ Len(Frame(m)) = FrameSize(m)
           /\ Header(m) = Piece(m, 0, HeaderSize)
           /\ FileBytes(m) = Piece(m, HeaderSize, FrameSize(m))
           /\ \A from \in 0..Size[m] : \A to \in from..Size[m] :
                 Chunks(m, from, to) = Piece(m, HeaderSize + from, HeaderSize + to)
<1>1. /\ Size[m] \in Nat \ {0} /\ HeaderSize \in Nat \ {0}
      /\ FrameSize(m) \in Nat /\ FrameSize(m) = HeaderSize + Size[m]
      /\ FrameSize(m) - 0 = FrameSize(m) /\ 0 \in Nat
      /\ HeaderSize \in 0..(FrameSize(m) - 0) /\ FrameSize(m) \in 0..FrameSize(m)
      /\ FrameSize(m) \in HeaderSize..FrameSize(m)
      /\ 0 + HeaderSize = HeaderSize
  BY SizeFacts
<1>2. Frame(m) = Piece(m, 0, FrameSize(m)) /\ Len(Frame(m)) = FrameSize(m)
  <2>1. \A i \in 1..FrameSize(m) : 0 + i = i
    BY <1>1
  <2>2. Frame(m) = Piece(m, 0, FrameSize(m))
    BY <1>1, <2>1 DEF Frame, Piece
  <2> QED BY <1>1, <2>2, PieceFacts
<1>3. /\ SubSeq(Piece(m, 0, FrameSize(m)), 1, HeaderSize) = Piece(m, 0, 0 + HeaderSize)
      /\ SubSeq(Piece(m, 0, FrameSize(m)), HeaderSize + 1, Len(Piece(m, 0, FrameSize(m))))
           = Piece(m, 0 + HeaderSize, FrameSize(m))
  BY <1>1, PieceCut
<1>4. /\ Header(m) = Piece(m, 0, HeaderSize)
      /\ FileBytes(m) = Piece(m, HeaderSize, FrameSize(m))
  BY <1>1, <1>2, <1>3 DEF Header, FileBytes
<1>5. ASSUME NEW from \in 0..Size[m], NEW to \in from..Size[m]
      PROVE  Chunks(m, from, to) = Piece(m, HeaderSize + from, HeaderSize + to)
  <2> DEFINE whole == Piece(m, HeaderSize, FrameSize(m))
             first == Piece(m, HeaderSize, HeaderSize + to)
  <2>1. /\ from \in Nat /\ to \in Nat /\ to <= Size[m] /\ from <= to
        /\ to \in 0..(FrameSize(m) - HeaderSize)
        /\ HeaderSize + to \in HeaderSize..FrameSize(m)
        /\ from \in 0..((HeaderSize + to) - HeaderSize)
        /\ (HeaderSize + to) - HeaderSize = to
    BY <1>1
  <2>2. SubSeq(whole, 1, to) = first
    BY <1>1, <2>1, PieceCut
  <2>3. SubSeq(first, from + 1, Len(first)) = Piece(m, HeaderSize + from, HeaderSize + to)
    BY <1>1, <2>1, PieceCut
  <2>4. Len(first) = to
    BY <1>1, <2>1, PieceFacts
  <2>5. whole \in Seq(Unit) /\ Len(whole) = Size[m]
    <3>1. FrameSize(m) - HeaderSize = Size[m] /\ HeaderSize \in Nat
      BY <1>1
    <3>2. /\ Piece(m, HeaderSize, FrameSize(m)) \in Seq(Unit)
          /\ Len(Piece(m, HeaderSize, FrameSize(m))) = FrameSize(m) - HeaderSize
      <4>1. \A to1 \in HeaderSize..FrameSize(m) :
               /\ Piece(m, HeaderSize, to1) \in Seq(Unit)
               /\ Len(Piece(m, HeaderSize, to1)) = to1 - HeaderSize
        BY <3>1, PieceFacts
      <4> QED BY <1>1, <4>1
    <3> QED BY <3>1, <3>2
  <2> HIDE DEF whole
  <2>6. SubSeq(whole, from + 1, to) = SubSeq(SubSeq(whole, 1, to), from + 1, to)
    BY <1>1, <2>1, <2>5
  <2> QED BY <1>4, <2>2, <2>3, <2>4, <2>6 DEF Chunks, whole
<1> QED BY <1>2, <1>4, <1>5

-----------------------------------------------------------------------------
(* The edge. *)

LEMMA PumpFacts ==
    ASSUME NEW m \in Models, NEW before \in 0..Size[m], NEW queued \in Int
    PROVE  AfterPump(m, before, queued) \in before..Size[m]
<1>1. Size[m] \in Nat /\ Window \in Nat /\ before \in Nat /\ before <= Size[m]
  BY SizeFacts, SizesAssumption
<1> DEFINE add == Larger(1, Window + 1 - queued)
<1>2. add \in Nat
  BY <1>1 DEF Larger
<1> HIDE DEF add
<1>3. Smaller(Size[m], before + add) \in before..Size[m]
  BY <1>1, <1>2 DEF Smaller
<1> QED BY <1>3 DEF AfterPump, add

LEMMA OnWrittenFacts ==
    ASSUME NEW m \in Models, sent \in 0..Size[m]
    PROVE  AfterOnWritten(m) \in sent..Size[m]
<1>1. Size[m] \in Nat /\ sent \in Nat /\ sent <= Size[m]
  BY SizeFacts
<1> QED BY <1>1 DEF AfterOnWritten, Smaller

\* Nothing of a frame is the initial transfer.
LEMMA EmptyPart == ASSUME NEW m \in Models PROVE PartOfSize(m, 0) = NoTransfer
<1>1. Piece(m, 0, 0) = << >>
  BY SizeFacts, PieceFacts
<1> QED BY <1>1 DEF PartOfSize, NoTransfer

LEMMA SendingFacts ==
    ASSUME NEW m \in Models, NEW q \in Nat, Sending(m, q)
    PROVE  /\ sent \in Nat /\ sent <= Size[m] /\ q <= HeaderSize + sent
           /\ HeaderSize + sent <= FrameSize(m) /\ HeaderSize + sent \in q..FrameSize(m)
           /\ q \in 0..FrameSize(m)
           /\ queue = Piece(m, q, HeaderSize + sent) /\ queue \in Seq(Unit)
           /\ Len(queue) = HeaderSize + sent - q
           /\ ~inProgress => sent = Size[m] /\ HeaderSize + sent = FrameSize(m)
<1>1. /\ Size[m] \in Nat /\ HeaderSize \in Nat /\ FrameSize(m) = HeaderSize + Size[m]
      /\ sent \in 0..Size[m] /\ q \in 0..(HeaderSize + sent)
      /\ queue = Piece(m, q, HeaderSize + sent)
      /\ ~inProgress => sent = Size[m]
  BY SizeFacts DEF Sending
<1>2. /\ sent \in Nat /\ sent <= Size[m] /\ q <= HeaderSize + sent
      /\ HeaderSize + sent <= FrameSize(m) /\ HeaderSize + sent \in q..FrameSize(m)
      /\ q \in 0..FrameSize(m)
      /\ ~inProgress => sent = Size[m] /\ HeaderSize + sent = FrameSize(m)
  BY <1>1
<1>3. queue \in Seq(Unit) /\ Len(queue) = HeaderSize + sent - q
  <2>1. \A to \in q..FrameSize(m) : Piece(m, q, to) \in Seq(Unit) /\ Len(Piece(m, q, to)) = to - q
    BY PieceFacts
  <2> QED BY <1>1, <1>2, <2>1
<1> QED BY <1>1, <1>2, <1>3

\* AbortTransfer leaves nothing on its way.
LEMMA AbortSteps ==
    ASSUME NEW w \in Seq(Models), AbortTransfer
    PROVE  /\ Mode(<< >>)' /\ << >> \in Seq(Models)
           /\ received' = received => PipeStep(w, << >>)
           /\ file' \in SUBSET Models /\ sent' \in Nat
           /\ inProgress' \in BOOLEAN /\ onWritten' \in BOOLEAN
<1>1. Idle'
  BY DEF AbortTransfer, Idle
<1>2. Mode(<< >>)'
  BY <1>1 DEF Mode
<1>3. received' = received => PipeStep(w, << >>)
  BY DEF PipeStep
<1>4. << >> \in Seq(Models)
  OBVIOUS
<1>5. /\ file' \in SUBSET Models /\ sent' \in Nat
      /\ inProgress' \in BOOLEAN /\ onWritten' \in BOOLEAN
  BY DEF AbortTransfer
<1> QED BY <1>2, <1>3, <1>4, <1>5

LEMMA FaultIfFacts ==
    ASSUME faults \in 0..MaxFaults, NEW bad \in BOOLEAN, NEW kind, FaultIf(bad, kind)
    PROVE  /\ faults' \in 0..MaxFaults /\ (faults' = 0 => faults = 0 /\ ~bad)
           /\ faults > 0 => faults' > 0
<1>1. MaxFaults \in Nat
  BY BoundsAssumption
<1> QED BY <1>1 DEF FaultIf, Fault

LEMMA SendModelSteps ==
    ASSUME Typed, ConnectionKept, NEW w \in Seq(Models), Mode(w),
           NEW m \in Models, SendModel(m)
    PROVE  Goes(w)
<1> DEFINE first == IF onWritten THEN 1 ELSE 0
           last  == AfterPump(m, first, first)
<1>1. /\ link = "up" /\ ~inProgress /\ queue = << >> /\ stream = << >>
      /\ sends < MaxSends /\ sends' = sends + 1 /\ received' = received
      /\ FaultIf(Unfit(m), "unfit")
  BY DEF SendModel
<1>2. /\ Size[m] \in Nat \ {0} /\ HeaderSize \in Nat \ {0} /\ FrameSize(m) = HeaderSize + Size[m]
      /\ FrameSize(m) \in Nat /\ HeaderSize < FrameSize(m)
      /\ MaxFileSize \in Nat /\ MaxSends \in Nat /\ MaxFaults \in Nat
  BY SizeFacts, SizesAssumption, BoundsAssumption
<1>3. /\ faults' \in 0..MaxFaults /\ (faults' = 0 => faults = 0 /\ ~Unfit(m))
      /\ faults > 0 => faults' > 0
  BY <1>1, FaultIfFacts DEF Typed, Unfit
<1>4. sends' \in 0..MaxSends /\ received' \in Seq(Models)
  BY <1>1, <1>2 DEF Typed
<1>5. CASE first = Size[m]
  <2>1. AbortTransfer /\ link' = "down"
    BY <1>5 DEF SendModel
  <2>2. faults' > 0
    BY <1>2, <1>3, <1>5 DEF Unfit
  <2>3. Typed'
    BY <1>3, <1>4, <2>1, AbortSteps DEF Typed
  <2>4. ConnectionKept'
    BY <2>2 DEF ConnectionKept
  <2> QED BY <1>1, <2>1, <2>3, <2>4, AbortSteps DEF Goes
<1>6. CASE first # Size[m]
  <2>1. /\ stream' = Header(m) /\ queue' = Chunks(m, 0, last) /\ file' = {m} /\ sent' = last
        /\ inProgress' = (last < Size[m]) /\ onWritten' = (onWritten /\ last < Size[m])
        /\ link' = link /\ transfer' = transfer
    BY <1>6 DEF SendModel
  <2>2. first \in 0..Size[m] /\ first \in Int
    BY <1>2
  <2> HIDE DEF first
  <2>3. last \in first..Size[m]
    BY <2>2, PumpFacts
  <2>4. last \in Nat /\ last \in 0..Size[m] /\ last <= Size[m]
    BY <1>2, <2>2, <2>3
  <2> HIDE DEF last
  <2>5. Typed'
    <3>1. link' \in {"up", "retrying", "down"} /\ file' \in SUBSET Models
      BY <2>1 DEF Typed
    <3>2. sent' \in Nat /\ inProgress' \in BOOLEAN /\ onWritten' \in BOOLEAN
      BY <2>1, <2>4
    <3> QED BY <1>3, <1>4, <3>1, <3>2 DEF Typed
  <2>6. ConnectionKept'
    BY <1>1, <2>1 DEF ConnectionKept
  <2>7. Sending(m, HeaderSize)'
    <3>1. queue' = Piece(m, HeaderSize, HeaderSize + last)
      <4>1. 0 \in 0..Size[m] /\ HeaderSize + 0 = HeaderSize
        BY <1>2
      <4>2. Chunks(m, 0, last) = Piece(m, HeaderSize + 0, HeaderSize + last)
        BY <2>4, <4>1, FramePieces
      <4> QED BY <2>1, <4>1, <4>2
    <3>2. HeaderSize \in 0..(HeaderSize + last)
      BY <1>2, <2>4
    <3>3. IF inProgress' THEN file' = {m} /\ sent' < Size[m] ELSE sent' = Size[m]
      <4>1. last < Size[m] => inProgress'
        BY <2>1
      <4>2. ~(last < Size[m]) => ~inProgress'
        BY <2>1
      <4>3. last < Size[m] \/ last = Size[m]
        BY <1>2, <2>4
      <4>4. file' = {m} /\ sent' = last
        BY <2>1
      <4> QED BY <4>1, <4>2, <4>3, <4>4
    <3> QED BY <2>1, <2>4, <3>1, <3>2, <3>3 DEF Sending
  <2>8. stream' = Piece(m, 0, HeaderSize)
    BY <2>1, FramePieces
  <2>9. CASE w = << >> /\ Idle
    <3>1. Moving(m, 0, HeaderSize)'
      <4>1. transfer' = PartOfSize(m, 0)
        BY <2>1, <2>9, EmptyPart DEF Idle
      <4> QED BY <1>2, <2>7, <2>8, <4>1 DEF Moving
    <3>2. Fit(m, 0)'
      BY <1>2, <1>3 DEF Fit, Unfit
    <3>3. 0 \in Nat /\ HeaderSize \in Nat
      BY <1>2
    <3>4. Mode(<<m>>)'
      BY <3>1, <3>2, <3>3 DEF Mode
    <3>5. <<m>> = Append(w, m) /\ <<m>> \in Seq(Models)
      BY <2>9
    <3>6. PipeStep(w, <<m>>)
      BY <1>1, <3>5 DEF PipeStep
    <3> QED BY <2>5, <2>6, <3>4, <3>5, <3>6 DEF Goes
  <2>10. CASE \E old \in Models : \E p, q \in Nat :
                 w = <<old>> /\ Moving(old, p, q) /\ Fit(old, p)
    <3>1. PICK old \in Models, p \in Nat, q \in Nat :
             w = <<old>> /\ Moving(old, p, q) /\ Fit(old, p)
      BY <2>10
    <3>2. /\ Sending(old, q) /\ p \in 0..q /\ stream = Piece(old, p, q)
          /\ \/ p < HeaderSize /\ transfer = PartOfSize(old, p)
             \/ p >= HeaderSize /\ transfer = Transfer(old, p)
      BY <3>1 DEF Moving
    <3>3. /\ sent \in Nat /\ HeaderSize + sent = FrameSize(old) /\ FrameSize(old) \in Nat
          /\ Len(queue) = HeaderSize + sent - q /\ q \in p..FrameSize(old)
          /\ HeaderSize < FrameSize(old)
      BY <1>1, <1>2, <3>2, SendingFacts, SizeFacts
    <3>4. q = FrameSize(old)
      BY <1>1, <1>2, <3>3
    <3>5. p = q
      BY <1>1, <3>2, <3>3, PieceFacts
    <3>6. transfer' = Transfer(old, FrameSize(old))
      BY <1>2, <2>1, <3>2, <3>3, <3>4, <3>5
    <3>7. faults' > 0
      BY <1>3, <3>1, <3>3, <3>4, <3>5 DEF Fit, Typed
    <3>8. Stuck(old, m, HeaderSize)'
      BY <2>7, <2>8, <3>6 DEF Stuck
    <3>9. Mode(<<old, m>>)'
      BY <1>2, <3>7, <3>8 DEF Mode
    <3>10. <<old, m>> = Append(w, m) /\ <<old, m>> \in Seq(Models)
      BY <3>1
    <3>11. PipeStep(w, <<old, m>>)
      BY <1>1, <3>10 DEF PipeStep
    <3> QED BY <2>5, <2>6, <3>9, <3>10, <3>11 DEF Goes
  <2>11. CASE \E old, m1 \in Models : \E q \in Nat :
                 w = <<old, m1>> /\ Stuck(old, m1, q) /\ faults > 0
    <3>1. PICK old \in Models, m1 \in Models, q \in Nat : Stuck(old, m1, q)
      BY <2>11
    <3>2. Sending(m1, q) /\ stream = Piece(m1, 0, q)
      BY <3>1 DEF Stuck
    <3>3. q \in 0..FrameSize(m1) /\ sent \in Nat /\ Len(queue) = HeaderSize + sent - q
      BY <3>2, SendingFacts
    <3>4. q = 0
      BY <1>1, <3>2, <3>3, PieceFacts
    <3> QED BY <1>1, <1>2, <3>3, <3>4
  <2> QED BY <2>9, <2>10, <2>11 DEF Mode
<1> QED BY <1>5, <1>6

\* The chunks that refill the buffer are the next of the file.
LEMMA SendingGoesOn ==
    ASSUME Typed, NEW m \in Models, NEW q \in Nat, Sending(m, q),
           NEW n \in 1..Len(queue), BytesWritten(n)
    PROVE  /\ Sending(m, q + n)' /\ q + n \in q..FrameSize(m)
           /\ SubSeq(queue, 1, n) = Piece(m, q, q + n)
           /\ file' \in SUBSET Models /\ sent' \in Nat
           /\ inProgress' \in BOOLEAN /\ onWritten' \in BOOLEAN
<1> DEFINE rest == SubSeq(queue, n + 1, Len(queue))
           s1 == AfterOnWritten(m)
           s2 == AfterPump(m, s1, Len(rest) + s1 - sent)
<1>1. /\ Size[m] \in Nat \ {0} /\ HeaderSize \in Nat \ {0} /\ FrameSize(m) = HeaderSize + Size[m]
      /\ FrameSize(m) \in Nat
  BY SizeFacts
<1>2. /\ sent \in Nat /\ sent <= Size[m] /\ q <= HeaderSize + sent
      /\ HeaderSize + sent <= FrameSize(m) /\ HeaderSize + sent \in q..FrameSize(m)
      /\ queue = Piece(m, q, HeaderSize + sent) /\ queue \in Seq(Unit)
      /\ Len(queue) = HeaderSize + sent - q
  BY SendingFacts
<1>3. n \in Nat /\ n >= 1 /\ n <= HeaderSize + sent - q /\ n \in 0..((HeaderSize + sent) - q)
  BY <1>1, <1>2
<1>4. q + n \in Nat /\ q + n <= HeaderSize + sent /\ q + n \in q..FrameSize(m)
  BY <1>1, <1>2, <1>3
<1>5. SubSeq(queue, 1, n) = Piece(m, q, q + n) /\ rest = Piece(m, q + n, HeaderSize + sent)
  <2>1. \A to \in q..FrameSize(m) : \A k \in 0..(to - q) :
           /\ SubSeq(Piece(m, q, to), 1, k) = Piece(m, q, q + k)
           /\ SubSeq(Piece(m, q, to), k + 1, Len(Piece(m, q, to))) = Piece(m, q + k, to)
    BY PieceCut
  <2> QED BY <1>2, <1>3, <2>1
<1>6. CASE ~inProgress
  <2>1. /\ queue' = rest /\ file' = file /\ sent' = sent
        /\ inProgress' = inProgress /\ onWritten' = onWritten
    BY <1>6 DEF BytesWritten
  <2>2. sent' = Size[m] /\ ~inProgress' /\ sent' \in 0..Size[m]
    BY <1>1, <1>6, <2>1 DEF Sending
  <2>3. q + n \in 0..(HeaderSize + sent')
    BY <1>1, <1>2, <1>4, <2>1
  <2>4. queue' = Piece(m, q + n, HeaderSize + sent')
    BY <1>5, <2>1
  <2>5. Sending(m, q + n)'
    BY <2>2, <2>3, <2>4 DEF Sending
  <2> QED BY <1>4, <1>5, <2>1, <2>5 DEF Typed
<1>7. CASE inProgress
  <2>1. file = {m} /\ sent < Size[m]
    BY <1>7 DEF Sending
  <2>2. /\ queue' = rest \o Chunks(m, sent, s2) /\ sent' = s2
        /\ file' = (IF s1 = Size[m] THEN {} ELSE file)
        /\ inProgress' = (s2 < Size[m]) /\ onWritten' = (onWritten /\ s2 < Size[m])
    BY <1>7, <2>1 DEF BytesWritten
  <2>3. Len(rest) = (HeaderSize + sent) - (q + n)
    <3>1. \A to \in (q + n)..FrameSize(m) : Len(Piece(m, q + n, to)) = to - (q + n)
      BY <1>4, PieceFacts
    <3>2. HeaderSize + sent \in (q + n)..FrameSize(m)
      BY <1>1, <1>2, <1>4
    <3> QED BY <1>5, <3>1, <3>2
  <2>4. s1 \in sent..Size[m]
    BY <1>1, <1>2, OnWrittenFacts
  <2> HIDE DEF s1
  <2>5. s1 \in Nat /\ s1 \in 0..Size[m] /\ s1 <= Size[m] /\ Len(rest) + s1 - sent \in Int
    BY <1>1, <1>2, <1>4, <2>3, <2>4
  <2>6. s2 \in s1..Size[m]
    BY <2>5, PumpFacts
  <2> HIDE DEF s2
  <2>7. /\ s2 \in Nat /\ s2 \in 0..Size[m] /\ s2 \in sent..Size[m] /\ s2 <= Size[m]
        /\ s1 <= s2 /\ sent \in 0..Size[m]
    BY <1>1, <1>2, <2>4, <2>5, <2>6
  <2>8. queue' = Piece(m, q + n, HeaderSize + s2)
    <3>1. Chunks(m, sent, s2) = Piece(m, HeaderSize + sent, HeaderSize + s2)
      BY <2>7, FramePieces
    <3>2. HeaderSize + sent \in (q + n)..FrameSize(m)
      BY <1>1, <1>2, <1>4
    <3>3. HeaderSize + s2 \in (HeaderSize + sent)..FrameSize(m)
      BY <1>1, <1>2, <2>7
    <3>4. Piece(m, q + n, HeaderSize + sent) \o Piece(m, HeaderSize + sent, HeaderSize + s2)
             = Piece(m, q + n, HeaderSize + s2)
      BY <1>4, <3>2, <3>3, PieceJoin
    <3> QED BY <1>5, <2>2, <3>1, <3>4
  <2>9. q + n \in 0..(HeaderSize + s2)
    BY <1>1, <1>2, <1>4, <2>7
  <2>10. IF inProgress' THEN file' = {m} /\ sent' < Size[m] ELSE sent' = Size[m]
    <3>1. s2 < Size[m] => inProgress'
      BY <2>2
    <3>2. ~(s2 < Size[m]) => ~inProgress'
      BY <2>2
    <3>3. s2 < Size[m] \/ s2 = Size[m]
      BY <1>1, <2>7
    <3>4. s2 < Size[m] => s1 # Size[m]
      BY <1>1, <2>5, <2>7
    <3>5. sent' = s2 /\ (s1 # Size[m] => file' = {m})
      BY <2>1, <2>2
    <3> QED BY <3>1, <3>2, <3>3, <3>4, <3>5
  <2>11. Sending(m, q + n)'
    BY <2>2, <2>7, <2>8, <2>9, <2>10 DEF Sending
  <2>12. file' \in SUBSET Models /\ sent' \in Nat
    BY <2>1, <2>2, <2>7
  <2>13. inProgress' \in BOOLEAN /\ onWritten' \in BOOLEAN
    BY <2>2
  <2> QED BY <1>4, <1>5, <2>11, <2>12, <2>13
<1> QED BY <1>6, <1>7

LEMMA BytesWrittenSteps ==
    ASSUME Typed, ConnectionKept, NEW w \in Seq(Models), Mode(w),
           NEW n \in 1..Len(queue), BytesWritten(n)
    PROVE  Goes(w)
<1>1. /\ link' = link /\ transfer' = transfer /\ received' = received
      /\ sends' = sends /\ faults' = faults /\ stream' = stream \o SubSeq(queue, 1, n)
  BY DEF BytesWritten
<1>2. ConnectionKept'
  BY <1>1 DEF ConnectionKept
<1>3. PipeStep(w, w)
  BY <1>1 DEF PipeStep
<1>4. CASE w = << >> /\ Idle
  BY <1>4 DEF Idle
<1>5. CASE \E m \in Models : \E p, q \in Nat : w = <<m>> /\ Moving(m, p, q) /\ Fit(m, p)
  <2>1. PICK m \in Models, p \in Nat, q \in Nat : w = <<m>> /\ Moving(m, p, q) /\ Fit(m, p)
    BY <1>5
  <2>2. /\ Sending(m, q) /\ p \in 0..q /\ stream = Piece(m, p, q)
        /\ \/ p < HeaderSize /\ transfer = PartOfSize(m, p)
           \/ p >= HeaderSize /\ transfer = Transfer(m, p)
    BY <2>1 DEF Moving
  <2>3. /\ Sending(m, q + n)' /\ q + n \in q..FrameSize(m)
        /\ SubSeq(queue, 1, n) = Piece(m, q, q + n)
        /\ file' \in SUBSET Models /\ sent' \in Nat
        /\ inProgress' \in BOOLEAN /\ onWritten' \in BOOLEAN
    BY <2>2, SendingGoesOn
  <2>4. Typed'
    BY <1>1, <2>3 DEF Typed
  <2>5. q \in p..FrameSize(m) /\ q + n \in Nat /\ p \in 0..(q + n)
    BY <2>2, <2>3, SizeFacts
  <2>6. stream' = Piece(m, p, q + n)
    BY <1>1, <2>2, <2>3, <2>5, PieceJoin
  <2>7. Moving(m, p, q + n)'
    BY <1>1, <2>2, <2>3, <2>5, <2>6 DEF Moving
  <2>8. Fit(m, p)'
    BY <1>1, <2>1 DEF Fit
  <2>9. Mode(w)'
    BY <2>1, <2>5, <2>7, <2>8 DEF Mode
  <2> QED BY <1>2, <1>3, <2>4, <2>9 DEF Goes
<1>6. CASE \E old, m \in Models : \E q \in Nat : w = <<old, m>> /\ Stuck(old, m, q) /\ faults > 0
  <2>1. PICK old \in Models, m \in Models, q \in Nat :
           w = <<old, m>> /\ Stuck(old, m, q) /\ faults > 0
    BY <1>6
  <2>2. /\ Sending(m, q) /\ stream = Piece(m, 0, q)
        /\ transfer = Transfer(old, FrameSize(old))
    BY <2>1 DEF Stuck
  <2>3. /\ Sending(m, q + n)' /\ q + n \in q..FrameSize(m)
        /\ SubSeq(queue, 1, n) = Piece(m, q, q + n)
        /\ file' \in SUBSET Models /\ sent' \in Nat
        /\ inProgress' \in BOOLEAN /\ onWritten' \in BOOLEAN
    BY <2>2, SendingGoesOn
  <2>4. Typed'
    BY <1>1, <2>3 DEF Typed
  <2>5. q \in 0..FrameSize(m) /\ q + n \in Nat
    BY <2>2, SendingFacts
  <2>6. stream' = Piece(m, 0, q + n)
    BY <1>1, <2>2, <2>3, <2>5, PieceJoin
  <2>7. Stuck(old, m, q + n)'
    BY <1>1, <2>2, <2>3, <2>6 DEF Stuck
  <2>8. Mode(w)'
    BY <1>1, <2>1, <2>5, <2>7 DEF Mode
  <2> QED BY <1>2, <1>3, <2>4, <2>8 DEF Goes
<1> QED BY <1>4, <1>5, <1>6 DEF Mode

-----------------------------------------------------------------------------
(* The centre. *)

\* What a read of n units finds when nothing is in front of the frame of m.
LEMMA MovingReads ==
    ASSUME NEW m \in Models, NEW p \in Nat, NEW q \in Nat, Moving(m, p, q),
           NEW n \in 1..Len(stream)
    PROVE  /\ n \in Nat \ {0} /\ p + n \in Nat /\ p + n <= q /\ q <= FrameSize(m)
           /\ SubSeq(stream, n + 1, Len(stream)) = Piece(m, p + n, q)
           /\ ~transfer.headerReceived =>
                 /\ p < HeaderSize /\ transfer = PartOfSize(m, p)
                 /\ Buffered(n) = Piece(m, 0, p + n)
                 /\ Len(Buffered(n)) = p + n
           /\ transfer.headerReceived =>
                 /\ p >= HeaderSize /\ transfer = Transfer(m, p)
                 /\ Buffered(n) = Piece(m, HeaderSize, p + n)
                 /\ Len(Buffered(n)) = p + n - HeaderSize
                 /\ transfer.expectedSize = Size[m]
           /\ Buffered(n)[1].model = m
<1>1. /\ Sending(m, q) /\ p \in 0..q /\ stream = Piece(m, p, q)
      /\ \/ p < HeaderSize /\ transfer = PartOfSize(m, p)
         \/ p >= HeaderSize /\ transfer = Transfer(m, p)
  BY DEF Moving
<1>2. /\ Size[m] \in Nat \ {0} /\ HeaderSize \in Nat \ {0} /\ FrameSize(m) = HeaderSize + Size[m]
      /\ FrameSize(m) \in Nat /\ q \in p..FrameSize(m) /\ q <= FrameSize(m)
  BY <1>1, SizeFacts, SendingFacts
<1>3. stream \in Seq(Unit) /\ Len(stream) = q - p
  BY <1>1, <1>2, PieceFacts, ZenonT(60)
<1>4. /\ n \in Nat \ {0} /\ p + n \in Nat /\ p + n <= q /\ n \in 0..(q - p)
      /\ p + n \in p..FrameSize(m) /\ p \in 0..FrameSize(m) /\ p + n \in 0..FrameSize(m)
  BY <1>2, <1>3
<1>5. /\ SubSeq(stream, 1, n) = Piece(m, p, p + n)
      /\ SubSeq(stream, n + 1, Len(stream)) = Piece(m, p + n, q)
  BY <1>1, <1>2, <1>4, PieceCut
<1>6. CASE p < HeaderSize /\ transfer = PartOfSize(m, p)
  <2>1. ~transfer.headerReceived /\ transfer.buffer = Piece(m, 0, p)
    BY <1>6 DEF PartOfSize
  <2>2. Piece(m, 0, p) \o Piece(m, p, p + n) = Piece(m, 0, p + n)
    BY <1>4, PieceJoin
  <2>3. Buffered(n) = Piece(m, 0, p + n)
    BY <1>5, <2>1, <2>2 DEF Buffered
  <2>4. \A to \in 0..FrameSize(m) :
           /\ Len(Piece(m, 0, to)) = to - 0
           /\ \A i \in 1..(to - 0) : Piece(m, 0, to)[i] = [model |-> m, at |-> 0 + i]
    BY PieceFacts
  <2>5. Len(Buffered(n)) = p + n
    BY <1>4, <2>3, <2>4
  <2>6. Buffered(n)[1].model = m
    <3>1. \A to \in 1..FrameSize(m) : Piece(m, 0, to)[1] = [model |-> m, at |-> 0 + 1]
      BY <1>2, <2>4
    <3>2. p + n \in 1..FrameSize(m)
      BY <1>2, <1>4
    <3> QED BY <2>3, <3>1, <3>2
  <2> QED BY <1>2, <1>4, <1>5, <1>6, <2>1, <2>3, <2>5, <2>6
<1>7. CASE p >= HeaderSize /\ transfer = Transfer(m, p)
  <2>1. /\ transfer.headerReceived /\ transfer.buffer = Piece(m, HeaderSize, p)
        /\ transfer.expectedSize = Size[m]
    BY <1>7 DEF Transfer
  <2>2. p \in HeaderSize..FrameSize(m) /\ p + n \in HeaderSize..FrameSize(m)
    BY <1>2, <1>4, <1>7
  <2>3. Piece(m, HeaderSize, p) \o Piece(m, p, p + n) = Piece(m, HeaderSize, p + n)
    BY <1>2, <1>4, <2>2, PieceJoin
  <2>4. Buffered(n) = Piece(m, HeaderSize, p + n)
    BY <1>5, <2>1, <2>3 DEF Buffered
  <2>5. \A to \in HeaderSize..FrameSize(m) :
           /\ Len(Piece(m, HeaderSize, to)) = to - HeaderSize
           /\ \A i \in 1..(to - HeaderSize) :
                 Piece(m, HeaderSize, to)[i] = [model |-> m, at |-> HeaderSize + i]
    BY <1>2, PieceFacts
  <2>6. Len(Buffered(n)) = p + n - HeaderSize
    <3>1. Len(Piece(m, HeaderSize, p + n)) = (p + n) - HeaderSize
      BY <2>2, <2>5
    <3> QED BY <1>2, <1>4, <2>4, <3>1
  <2>7. Buffered(n)[1].model = m
    <3>1. \A to \in (HeaderSize + 1)..FrameSize(m) :
             Piece(m, HeaderSize, to)[1] = [model |-> m, at |-> HeaderSize + 1]
      BY <1>2, <2>5
    <3>2. p + n \in (HeaderSize + 1)..FrameSize(m)
      BY <1>2, <1>4, <1>7
    <3> QED BY <2>4, <3>1, <3>2
  <2> QED BY <1>2, <1>4, <1>5, <1>7, <2>1, <2>4, <2>6, <2>7
<1> QED BY <1>1, <1>6, <1>7

\* With a whole file in front of it, every read overflows.
LEMMA StuckReads ==
    ASSUME NEW old \in Models, NEW m \in Models, NEW q \in Nat, Stuck(old, m, q),
           NEW n \in 1..Len(stream)
    PROVE  /\ transfer.headerReceived /\ transfer.expectedSize = Size[old]
           /\ Len(Buffered(n)) > Size[old] /\ ~AllReceived(Buffered(n))
<1>1. Sending(m, q) /\ stream = Piece(m, 0, q) /\ transfer = Transfer(old, FrameSize(old))
  BY DEF Stuck
<1>2. /\ Size[old] \in Nat \ {0} /\ HeaderSize \in Nat \ {0}
      /\ FrameSize(old) = HeaderSize + Size[old] /\ FrameSize(old) \in HeaderSize..FrameSize(old)
      /\ q \in 0..FrameSize(m)
  BY <1>1, SizeFacts, SendingFacts
<1>3. stream \in Seq(Unit) /\ Len(stream) = q
  <2>1. \A to \in 0..FrameSize(m) : Piece(m, 0, to) \in Seq(Unit) /\ Len(Piece(m, 0, to)) = to - 0
    BY PieceFacts
  <2> QED BY <1>1, <1>2, <2>1
<1>4. /\ transfer.headerReceived /\ transfer.expectedSize = Size[old]
      /\ transfer.buffer = Piece(old, HeaderSize, FrameSize(old))
  BY <1>1 DEF Transfer
<1>5. transfer.buffer \in Seq(Unit) /\ Len(transfer.buffer) = Size[old]
  <2>1. \A to \in HeaderSize..FrameSize(old) :
           /\ Piece(old, HeaderSize, to) \in Seq(Unit)
           /\ Len(Piece(old, HeaderSize, to)) = to - HeaderSize
    BY <1>2, PieceFacts, ZenonT(60)
  <2>2. FrameSize(old) - HeaderSize = Size[old]
    BY <1>2
  <2> QED BY <1>2, <1>4, <2>1, <2>2
<1>6. n \in Nat /\ n >= 1 /\ n <= Len(stream)
  BY <1>2, <1>3
<1>7. \A S : \A s \in Seq(S) : \A k \in 0..Len(s) :
         SubSeq(s, 1, k) \in Seq(S) /\ Len(SubSeq(s, 1, k)) = k
  OBVIOUS
<1>8. SubSeq(stream, 1, n) \in Seq(Unit) /\ Len(SubSeq(stream, 1, n)) = n
  BY <1>3, <1>6, <1>7
<1>9. \A S : \A s, t \in Seq(S) : Len(s \o t) = Len(s) + Len(t)
  OBVIOUS
<1>10. Len(Buffered(n)) = Size[old] + n
  BY <1>5, <1>8, <1>9 DEF Buffered
<1> QED BY <1>2, <1>4, <1>6, <1>10 DEF AllReceived

\* A read that leaves the rest of the frame on its way.
LEMMA ReadGoesOn ==
    ASSUME Typed, ConnectionKept, NEW m \in Models, NEW p \in Nat, NEW q \in Nat,
           Moving(m, p, q), NEW n \in 1..Len(stream), Reads(n), received' = received,
           faults' \in 0..MaxFaults, faults > 0 => faults' > 0, Fit(m, p + n)',
           \/ p + n < HeaderSize /\ transfer' = PartOfSize(m, p + n)
           \/ p + n >= HeaderSize /\ transfer' = Transfer(m, p + n)
    PROVE  Goes(<<m>>)
<1>1. /\ link' = link /\ sends' = sends /\ stream' = SubSeq(stream, n + 1, Len(stream))
      /\ file' = file /\ sent' = sent /\ inProgress' = inProgress /\ onWritten' = onWritten
      /\ queue' = queue
  BY DEF Reads, edgeVars
<1>2. Typed'
  BY <1>1 DEF Typed
<1>3. ConnectionKept'
  BY <1>1 DEF ConnectionKept
<1>4. p + n \in Nat /\ p + n <= q /\ stream' = Piece(m, p + n, q)
  BY <1>1, MovingReads
<1>5. Sending(m, q)'
  BY <1>1 DEF Moving, Sending
<1>6. Moving(m, p + n, q)'
  <2>1. p + n \in 0..q
    BY <1>4
  <2> QED BY <1>4, <1>5, <2>1 DEF Moving
<1>7. Mode(<<m>>)'
  BY <1>4, <1>6 DEF Mode
<1>8. PipeStep(<<m>>, <<m>>) /\ <<m>> \in Seq(Models)
  BY DEF PipeStep
<1> QED BY <1>2, <1>3, <1>7, <1>8 DEF Goes

\* The centre closes the connection after a fault.
LEMMA CloseSteps ==
    ASSUME Typed, NEW w \in Seq(Models), CloseConnection, sends' = sends,
           faults' \in 0..MaxFaults, faults' > 0, received' \in Seq(Models),
           PipeStep(w, << >>)
    PROVE  Goes(w)
<1>1. AbortTransfer /\ link' = "retrying"
  BY DEF CloseConnection
<1>2. Typed'
  BY <1>1, AbortSteps DEF Typed
<1>3. ConnectionKept'
  BY DEF ConnectionKept
<1> QED BY <1>1, <1>2, <1>3, AbortSteps DEF Goes

LEMMA FitFacts ==
    ASSUME Typed, NEW m \in Models, NEW p \in Nat, Fit(m, p)
    PROVE  p >= FrameSize(m) \/ Size[m] > MaxFileSize => faults > 0
<1>1. FrameSize(m) \in Nat /\ Size[m] \in Nat /\ MaxFileSize \in Nat /\ MaxFaults \in Nat
  BY SizeFacts, SizesAssumption, BoundsAssumption
<1> QED BY <1>1 DEF Fit, Typed

LEMMA ReadPartOfSizeSteps ==
    ASSUME Typed, ConnectionKept, NEW m \in Models, NEW p \in Nat, NEW q \in Nat,
           Moving(m, p, q), Fit(m, p), NEW n \in 1..Len(stream), ReadPartOfSize(n)
    PROVE  Goes(<<m>>)
<1>1. /\ ~transfer.headerReceived /\ Len(Buffered(n)) < HeaderSize
      /\ transfer' = [transfer EXCEPT !.buffer = Buffered(n)]
      /\ Reads(n) /\ received' = received /\ faults' = faults
  BY DEF ReadPartOfSize
<1>2. /\ n \in Nat \ {0} /\ p + n \in Nat /\ transfer = PartOfSize(m, p)
      /\ Buffered(n) = Piece(m, 0, p + n) /\ Len(Buffered(n)) = p + n
  BY <1>1, MovingReads
<1>3. /\ Size[m] \in Nat \ {0} /\ HeaderSize \in Nat \ {0} /\ FrameSize(m) = HeaderSize + Size[m]
  BY SizeFacts
<1>4. transfer' = PartOfSize(m, p + n)
  BY <1>1, <1>2 DEF PartOfSize
<1>5. Fit(m, p + n)'
  BY <1>1, <1>2, <1>3 DEF Fit
<1>6. faults' \in 0..MaxFaults /\ (faults > 0 => faults' > 0)
  BY <1>1 DEF Typed
<1> QED BY <1>1, <1>2, <1>4, <1>5, <1>6, ReadGoesOn

LEMMA ReadSizeSteps ==
    ASSUME Typed, ConnectionKept, NEW m \in Models, NEW p \in Nat, NEW q \in Nat,
           Moving(m, p, q), Fit(m, p), NEW n \in 1..Len(stream), ReadSize(n)
    PROVE  Goes(<<m>>)
<1>1. /\ ~transfer.headerReceived /\ Len(Buffered(n)) >= HeaderSize
      /\ FaultIf(WholeFrame(n), "whole")
      /\ Size[Buffered(n)[1].model] <= MaxFileSize
      /\ transfer' = [headerReceived |-> TRUE, expectedSize |-> Size[Buffered(n)[1].model],
                      buffer |-> SubSeq(Buffered(n), HeaderSize + 1, Len(Buffered(n)))]
      /\ Reads(n) /\ received' = received
  BY DEF ReadSize
<1>2. /\ n \in Nat \ {0} /\ p + n \in Nat /\ p + n <= q /\ q <= FrameSize(m)
      /\ Buffered(n) = Piece(m, 0, p + n) /\ Len(Buffered(n)) = p + n
      /\ Buffered(n)[1].model = m
  BY <1>1, MovingReads
<1>3. /\ Size[m] \in Nat \ {0} /\ HeaderSize \in Nat \ {0} /\ FrameSize(m) = HeaderSize + Size[m]
      /\ FrameSize(m) \in Nat
  BY SizeFacts
<1>4. transfer' = Transfer(m, p + n)
  <2>1. \A to \in 0..FrameSize(m) : \A k \in 0..(to - 0) :
           SubSeq(Piece(m, 0, to), k + 1, Len(Piece(m, 0, to))) = Piece(m, 0 + k, to)
    BY PieceCut
  <2>2. p + n \in 0..FrameSize(m) /\ HeaderSize \in 0..((p + n) - 0) /\ 0 + HeaderSize = HeaderSize
    BY <1>1, <1>2, <1>3
  <2>3. SubSeq(Piece(m, 0, p + n), HeaderSize + 1, Len(Piece(m, 0, p + n)))
           = Piece(m, HeaderSize, p + n)
    BY <2>1, <2>2
  <2> QED BY <1>1, <1>2, <2>3 DEF Transfer
<1>5. /\ faults' \in 0..MaxFaults /\ (faults' = 0 => faults = 0 /\ ~WholeFrame(n))
      /\ faults > 0 => faults' > 0
  <2>1. WholeFrame(n) \in BOOLEAN
    BY DEF WholeFrame
  <2>2. faults \in 0..MaxFaults
    BY DEF Typed
  <2> QED BY <1>1, <2>1, <2>2, FaultIfFacts
<1>6. Fit(m, p + n)'
  <2>1. Len(Frame(m)) = FrameSize(m)
    BY FramePieces
  <2>2. ~WholeFrame(n) => p + n < FrameSize(m)
    BY <1>2, <1>3, <2>1 DEF WholeFrame
  <2> QED BY <1>1, <1>2, <1>5, <2>2 DEF Fit
<1>7. p + n >= HeaderSize
  BY <1>1, <1>2
<1> QED BY <1>1, <1>2, <1>4, <1>5, <1>6, <1>7, ReadGoesOn

LEMMA RefuseSizeSteps ==
    ASSUME Typed, ConnectionKept, NEW m \in Models, NEW p \in Nat, NEW q \in Nat,
           Moving(m, p, q), Fit(m, p), NEW n \in 1..Len(stream), RefuseSize(n)
    PROVE  Goes(<<m>>)
<1>1. /\ Size[Buffered(n)[1].model] > MaxFileSize /\ CloseConnection
      /\ received' = received /\ sends' = sends /\ faults' = faults
  BY DEF RefuseSize
<1>2. Buffered(n)[1].model = m
  BY MovingReads
<1>3. faults' > 0 /\ faults' \in 0..MaxFaults /\ received' \in Seq(Models)
  BY <1>1, <1>2, FitFacts DEF Typed
<1>4. <<m>> \in Seq(Models) /\ PipeStep(<<m>>, << >>)
  BY <1>1 DEF PipeStep
<1> QED BY <1>1, <1>3, <1>4, CloseSteps

LEMMA ReadDataSteps ==
    ASSUME Typed, ConnectionKept, NEW m \in Models, NEW p \in Nat, NEW q \in Nat,
           Moving(m, p, q), Fit(m, p), NEW n \in 1..Len(stream), ReadData(n)
    PROVE  Goes(<<m>>)
<1>1. /\ transfer.headerReceived /\ ~AllReceived(Buffered(n))
      /\ Len(Buffered(n)) <= transfer.expectedSize
      /\ transfer' = [transfer EXCEPT !.buffer = Buffered(n)]
      /\ Reads(n) /\ received' = received /\ faults' = faults
  BY DEF ReadData
<1>2. /\ n \in Nat \ {0} /\ p + n \in Nat /\ p >= HeaderSize /\ transfer = Transfer(m, p)
      /\ Buffered(n) = Piece(m, HeaderSize, p + n)
      /\ Len(Buffered(n)) = (p + n) - HeaderSize /\ transfer.expectedSize = Size[m]
  <2>1. (p + n) - HeaderSize = p + n - HeaderSize
    BY SizeFacts, MovingReads
  <2> QED BY <1>1, <2>1, MovingReads
<1>3. /\ Size[m] \in Nat \ {0} /\ HeaderSize \in Nat \ {0} /\ FrameSize(m) = HeaderSize + Size[m]
  BY SizeFacts
<1>4. transfer' = Transfer(m, p + n)
  BY <1>1, <1>2 DEF Transfer
<1>5. p + n >= HeaderSize /\ p + n < FrameSize(m)
  BY <1>1, <1>2, <1>3 DEF AllReceived
<1>6. Fit(m, p + n)'
  BY <1>1, <1>5 DEF Fit
<1>7. faults' \in 0..MaxFaults /\ (faults > 0 => faults' > 0)
  BY <1>1 DEF Typed
<1> QED BY <1>1, <1>4, <1>5, <1>6, <1>7, ReadGoesOn

\* What is saved is the file as it was sent, and the last of it.
LEMMA SaveModelSteps ==
    ASSUME Typed, ConnectionKept, NEW m \in Models, NEW p \in Nat, NEW q \in Nat,
           Moving(m, p, q), Fit(m, p), NEW n \in 1..Len(stream), SaveModel(n)
    PROVE  Goes(<<m>>)
<1>1. transfer.headerReceived /\ AllReceived(Buffered(n))
  BY DEF SaveModel
<1>2. /\ n \in Nat \ {0} /\ p + n \in Nat /\ p + n <= q /\ q <= FrameSize(m)
      /\ Buffered(n) = Piece(m, HeaderSize, p + n)
      /\ Len(Buffered(n)) = (p + n) - HeaderSize /\ transfer.expectedSize = Size[m]
      /\ Buffered(n)[1].model = m
      /\ SubSeq(stream, n + 1, Len(stream)) = Piece(m, p + n, q)
  <2>1. (p + n) - HeaderSize = p + n - HeaderSize
    BY SizeFacts, MovingReads
  <2> QED BY <1>1, <2>1, MovingReads, SMTT(30)
<1>3. /\ Size[m] \in Nat \ {0} /\ HeaderSize \in Nat \ {0} /\ FrameSize(m) = HeaderSize + Size[m]
      /\ FrameSize(m) \in Nat
  BY SizeFacts
<1>4. p + n = FrameSize(m) /\ q = FrameSize(m)
  BY <1>1, <1>2, <1>3 DEF AllReceived
<1>5. FileOf(Buffered(n)) = m
  <2>1. Buffered(n) = FileBytes(m)
    BY <1>2, <1>4, FramePieces
  <2> QED BY <1>2, <2>1 DEF FileOf
<1>6. <<m>> \in Seq(Models) /\ << >> \in Seq(Models) /\ <<m>> # << >>
  OBVIOUS
<1>7. /\ received' = Append(received, m) => PipeStep(<<m>>, << >>)
      /\ received' = received => PipeStep(<<m>>, << >>)
      /\ Append(received, m) \in Seq(Models) /\ received \in Seq(Models)
  BY <1>6 DEF PipeStep, Typed
<1>8. ASSUME Reads(n), transfer' = NoTransfer, faults' \in 0..MaxFaults,
             faults > 0 => faults' > 0,
             received' = Append(received, m) \/ received' = received
      PROVE  Goes(<<m>>)
  <2>1. /\ link' = link /\ sends' = sends /\ stream' = SubSeq(stream, n + 1, Len(stream))
        /\ file' = file /\ sent' = sent /\ inProgress' = inProgress /\ onWritten' = onWritten
        /\ queue' = queue
    BY <1>8 DEF Reads, edgeVars
  <2>2. received' \in Seq(Models) /\ PipeStep(<<m>>, << >>)
    BY <1>7, <1>8
  <2>3. Typed'
    BY <1>8, <2>1, <2>2 DEF Typed
  <2>4. ConnectionKept'
    BY <1>8, <2>1 DEF ConnectionKept
  <2>5. Sending(m, q)
    BY DEF Moving
  <2>6. /\ sent \in Nat /\ sent <= Size[m] /\ q <= HeaderSize + sent
        /\ queue = Piece(m, q, HeaderSize + sent)
    BY <2>5, SendingFacts
  <2>7. sent = Size[m] /\ HeaderSize + sent = FrameSize(m)
    BY <1>3, <1>4, <2>6
  <2>8. ~inProgress
    BY <1>3, <2>5, <2>7 DEF Sending
  <2>9. Piece(m, FrameSize(m), FrameSize(m)) = << >>
    <3>1. FrameSize(m) \in FrameSize(m)..FrameSize(m)
      BY <1>3
    <3> QED BY <1>3, <3>1, PieceFacts
  <2>10. Idle'
    BY <1>2, <1>4, <1>8, <2>1, <2>6, <2>7, <2>8, <2>9 DEF Idle
  <2>11. Mode(<< >>)'
    BY <2>10 DEF Mode
  <2> QED BY <1>6, <2>2, <2>3, <2>4, <2>11 DEF Goes
<1>9. CASE received' = Append(received, FileOf(Buffered(n))) /\ transfer' = NoTransfer
           /\ Reads(n) /\ faults' = faults
  BY <1>5, <1>8, <1>9 DEF Typed
<1>10. CASE Fault("save") /\ transfer' = NoTransfer /\ Reads(n) /\ received' = received
  <2>1. faults' \in 0..MaxFaults /\ faults' > 0
    BY <1>10, BoundsAssumption DEF Fault, Typed
  <2> QED BY <1>8, <1>10, <2>1
<1>11. CASE Fault("freed") /\ received' = Append(received, FileOf(Buffered(n)))
            /\ CloseConnection /\ sends' = sends
  <2>1. faults' \in 0..MaxFaults /\ faults' > 0
    BY <1>11, BoundsAssumption DEF Fault, Typed
  <2> QED BY <1>5, <1>6, <1>7, <1>11, <2>1, CloseSteps
<1> QED BY <1>9, <1>10, <1>11 DEF SaveModel

LEMMA CenterReadsSteps ==
    ASSUME Typed, ConnectionKept, NEW w \in Seq(Models), Mode(w),
           NEW n \in 1..Len(stream), CenterReads(n)
    PROVE  Goes(w)
<1>1. CASE w = << >> /\ Idle
  BY <1>1 DEF Idle
<1>2. CASE \E m \in Models : \E p, q \in Nat : w = <<m>> /\ Moving(m, p, q) /\ Fit(m, p)
  <2>1. PICK m \in Models, p \in Nat, q \in Nat : w = <<m>> /\ Moving(m, p, q) /\ Fit(m, p)
    BY <1>2
  <2>2. CASE ReadPartOfSize(n)
    BY <2>1, <2>2, ReadPartOfSizeSteps
  <2>3. CASE ReadSize(n)
    BY <2>1, <2>3, ReadSizeSteps
  <2>4. CASE RefuseSize(n)
    BY <2>1, <2>4, RefuseSizeSteps
  <2>5. CASE ReadData(n)
    BY <2>1, <2>5, ReadDataSteps
  <2>6. ~Overflow(n)
    <3>1. /\ Size[m] \in Nat /\ HeaderSize \in Nat /\ FrameSize(m) = HeaderSize + Size[m]
      BY SizeFacts
    <3>2. transfer.headerReceived =>
             /\ n \in Nat /\ p + n <= FrameSize(m) /\ transfer.expectedSize = Size[m]
             /\ Len(Buffered(n)) = p + n - HeaderSize
      <4>1. Moving(m, p, q)
        BY <2>1
      <4>2. /\ n \in Nat \ {0} /\ p + n \in Nat /\ p + n <= q /\ q <= FrameSize(m)
            /\ transfer.headerReceived =>
                  Len(Buffered(n)) = p + n - HeaderSize /\ transfer.expectedSize = Size[m]
        BY <4>1, MovingReads
      <4> QED BY <3>1, <4>2
    <3> QED BY <3>1, <3>2 DEF Overflow
  <2>7. CASE SaveModel(n)
    BY <2>1, <2>7, SaveModelSteps
  <2> QED BY <2>2, <2>3, <2>4, <2>5, <2>6, <2>7 DEF CenterReads
<1>3. CASE \E old, m \in Models : \E q \in Nat : w = <<old, m>> /\ Stuck(old, m, q) /\ faults > 0
  <2>1. PICK old \in Models, m \in Models, q \in Nat :
           w = <<old, m>> /\ Stuck(old, m, q) /\ faults > 0
    BY <1>3
  <2>2. /\ transfer.headerReceived /\ transfer.expectedSize = Size[old]
        /\ Len(Buffered(n)) > Size[old] /\ ~AllReceived(Buffered(n))
    BY <2>1, StuckReads
  <2>3. Size[old] \in Nat
    BY SizeFacts
  <2>4. ~ReadPartOfSize(n) /\ ~ReadSize(n) /\ ~RefuseSize(n)
    BY <2>2 DEF ReadPartOfSize, ReadSize, RefuseSize
  <2>5. ~SaveModel(n)
    BY <2>2 DEF SaveModel
  <2>6. ~ReadData(n)
    <3>1. Len(Buffered(n)) \in Nat
      <4>1. transfer.buffer \in Seq(Unit) /\ stream \in Seq(Unit)
        <5>1. /\ FrameSize(old) \in Nat /\ HeaderSize \in Nat /\ q \in 0..FrameSize(m)
              /\ FrameSize(old) \in HeaderSize..FrameSize(old) /\ 0 \in Nat
          BY <2>1, SizeFacts, SendingFacts DEF Stuck
        <5>2. transfer.buffer = Piece(old, HeaderSize, FrameSize(old)) /\ stream = Piece(m, 0, q)
          BY <2>1 DEF Stuck, Transfer
        <5>3. Piece(old, HeaderSize, FrameSize(old)) \in Seq(Unit)
          BY <5>1, PieceFacts
        <5>4. Piece(m, 0, q) \in Seq(Unit)
          BY <5>1, PieceFacts
        <5> QED BY <5>2, <5>3, <5>4
      <4>2. \A S : \A s, t \in Seq(S) : \A k \in 1..Len(t) : Len(s \o SubSeq(t, 1, k)) \in Nat
        OBVIOUS
      <4> QED BY <4>1, <4>2 DEF Buffered
    <3> QED BY <2>2, <2>3, <3>1 DEF ReadData
  <2>7. CASE Overflow(n)
    <3>1. CloseConnection /\ received' = received /\ sends' = sends /\ faults' = faults
      BY <2>7 DEF Overflow
    <3>2. PipeStep(w, << >>)
      BY <2>1, <3>1 DEF PipeStep
    <3> QED BY <2>1, <3>1, <3>2, CloseSteps DEF Typed
  <2> QED BY <2>4, <2>5, <2>6, <2>7 DEF CenterReads
<1> QED BY <1>1, <1>2, <1>3 DEF Mode

-----------------------------------------------------------------------------
(* The connection, and the invariant. *)

LEMMA ConnectionLostSteps ==
    ASSUME Typed, ConnectionKept, NEW w \in Seq(Models), Mode(w),
           NEW closedByPeer \in BOOLEAN, ConnectionLost(closedByPeer)
    PROVE  Goes(w)
<1>1. /\ Fault("drop") /\ AbortTransfer /\ link' \in {"retrying", "down"}
      /\ received' = received /\ sends' = sends
  BY DEF ConnectionLost
<1>2. faults' \in 0..MaxFaults /\ faults' > 0
  BY <1>1, BoundsAssumption DEF Fault, Typed
<1>3. Typed'
  BY <1>1, <1>2, AbortSteps DEF Typed
<1>4. ConnectionKept'
  BY <1>2 DEF ConnectionKept
<1> QED BY <1>1, <1>3, <1>4, AbortSteps DEF Goes

\* Nothing but the link changes.
LEMMA SameUnitsSteps ==
    ASSUME Typed, NEW w \in Seq(Models), Mode(w), ConnectionKept',
           UNCHANGED <<edgeVars, stream, centerVars, sends, faults>>,
           link' \in {"up", "retrying", "down"}
    PROVE  Goes(w)
<1>1. /\ file' = file /\ sent' = sent /\ inProgress' = inProgress /\ onWritten' = onWritten
      /\ queue' = queue /\ stream' = stream /\ transfer' = transfer /\ received' = received
      /\ sends' = sends /\ faults' = faults
  BY DEF edgeVars, centerVars
<1>2. Typed'
  BY <1>1 DEF Typed
<1>3. Idle => Idle'
  BY <1>1 DEF Idle
<1>4. \A m \in Models : \A q \in Nat : Sending(m, q) => Sending(m, q)'
  BY <1>1 DEF Sending
<1>5. \A m \in Models : \A p, q \in Nat : Moving(m, p, q) /\ Fit(m, p) => (Moving(m, p, q) /\ Fit(m, p))'
  BY <1>1, <1>4 DEF Moving, Fit
<1>6. \A old, m \in Models : \A q \in Nat : Stuck(old, m, q) /\ faults > 0 => (Stuck(old, m, q) /\ faults > 0)'
  BY <1>1, <1>4 DEF Stuck
<1>7. Mode(w)'
  BY <1>3, <1>5, <1>6 DEF Mode
<1>8. PipeStep(w, w)
  BY <1>1 DEF PipeStep
<1> QED BY <1>2, <1>7, <1>8 DEF Goes

LEMMA ReconnectSteps ==
    ASSUME Typed, ConnectionKept, NEW w \in Seq(Models), Mode(w),
           NEW accepted \in BOOLEAN, Reconnect(accepted)
    PROVE  Goes(w)
<1>1. /\ link = "retrying" /\ link' \in {"up", "retrying", "down"}
      /\ UNCHANGED <<edgeVars, stream, centerVars, sends, faults>>
  BY DEF Reconnect
<1>2. ConnectionKept'
  BY <1>1 DEF ConnectionKept
<1> QED BY <1>1, <1>2, SameUnitsSteps

LEMMA UplinkSteps ==
    ASSUME Typed, ConnectionKept, NEW w \in Seq(Models), Mode(w), [Next]_vars
    PROVE  Goes(w)
<1>1. ASSUME NEW m \in Models, SendModel(m) PROVE Goes(w)
  BY <1>1, SendModelSteps
<1>2. ASSUME NEW n \in 1..Len(queue), BytesWritten(n) PROVE Goes(w)
  BY <1>2, BytesWrittenSteps
<1>3. ASSUME NEW n \in 1..Len(stream), CenterReads(n) PROVE Goes(w)
  BY <1>3, CenterReadsSteps
<1>4. ASSUME NEW closedByPeer \in BOOLEAN, ConnectionLost(closedByPeer) PROVE Goes(w)
  BY <1>4, ConnectionLostSteps
<1>5. ASSUME NEW accepted \in BOOLEAN, Reconnect(accepted) PROVE Goes(w)
  BY <1>5, ReconnectSteps
<1>6. CASE UNCHANGED vars
  <2>1. link' = link /\ faults' = faults /\ UNCHANGED <<edgeVars, stream, centerVars, sends, faults>>
    BY <1>6 DEF vars
  <2>2. ConnectionKept'
    BY <2>1 DEF ConnectionKept
  <2>3. link' \in {"up", "retrying", "down"}
    BY <2>1 DEF Typed
  <2> QED BY <2>1, <2>2, <2>3, SameUnitsSteps
<1> QED BY <1>1, <1>2, <1>3, <1>4, <1>5, <1>6 DEF Next

LEMMA UplinkStarts == Init => Typed /\ ConnectionKept /\ Mode(<< >>)
<1> SUFFICES ASSUME Init PROVE Typed /\ ConnectionKept /\ Mode(<< >>)
  OBVIOUS
<1>1. received \in Seq(Models) /\ 0 \in 0..MaxSends /\ 0 \in 0..MaxFaults
  BY BoundsAssumption DEF Init
<1>2. Typed
  BY <1>1 DEF Init, Typed
<1>3. ConnectionKept
  BY DEF Init, ConnectionKept
<1>4. Mode(<< >>)
  BY DEF Init, Mode, Idle
<1> QED BY <1>2, <1>3, <1>4

LEMMA UplinkInvariant == Spec => []IInv
<1>1. Init => IInv
  <2>1. << >> \in Seq(Models)
    OBVIOUS
  <2> QED BY <2>1, UplinkStarts DEF IInv
<1>2. ASSUME IInv, [Next]_vars PROVE IInv'
  <2>1. PICK w \in Seq(Models) : Mode(w)
    BY <1>2 DEF IInv
  <2>2. Goes(w)
    BY <1>2, <2>1, UplinkSteps DEF IInv
  <2> QED BY <2>2 DEF Goes, IInv
<1> QED BY <1>1, <1>2, PTL DEF Spec

\* Only units of frames are queued, sent and buffered.
LEMMA ModeUnits ==
    ASSUME NEW w, Mode(w)
    PROVE  /\ Units(queue) /\ Units(stream) /\ Units(transfer.buffer)
           /\ transfer.headerReceived \in BOOLEAN /\ transfer.expectedSize \in Nat
           /\ inProgress => file # {}
<1>1. \A u \in Seq(Unit) : Units(u)
  <2>1. ASSUME NEW s \in Seq(Unit), NEW i \in DOMAIN s
        PROVE  s[i].model \in Models /\ s[i].at \in 1..Len(Frame(s[i].model))
    <3>1. s[i] \in Unit
      BY <2>1
    <3>2. s[i].model \in Models /\ s[i].at \in 1..(HeaderSize + Size[s[i].model])
      BY <3>1 DEF Unit
    <3> QED BY <3>2, FramePieces, SizeFacts
  <2> QED BY <2>1 DEF Units
<1>2. Units(<< >>)
  BY DEF Units
<1>3. ASSUME NEW m \in Models, NEW q \in Nat, Sending(m, q)
      PROVE  queue \in Seq(Unit) /\ q \in 0..FrameSize(m) /\ (inProgress => file # {})
  BY <1>3, SendingFacts DEF Sending
<1>4. CASE Idle
  BY <1>2, <1>4 DEF Idle, NoTransfer
<1>5. ASSUME NEW m \in Models, NEW p \in Nat, NEW q \in Nat, Moving(m, p, q)
      PROVE  /\ Units(queue) /\ Units(stream) /\ Units(transfer.buffer)
             /\ transfer.headerReceived \in BOOLEAN /\ transfer.expectedSize \in Nat
             /\ inProgress => file # {}
  <2>1. /\ queue \in Seq(Unit) /\ q \in 0..FrameSize(m) /\ (inProgress => file # {})
        /\ p \in 0..q /\ stream = Piece(m, p, q)
    BY <1>3, <1>5 DEF Moving
  <2>2. /\ HeaderSize \in Nat /\ Size[m] \in Nat /\ FrameSize(m) \in Nat
        /\ q \in p..FrameSize(m) /\ p \in 0..FrameSize(m)
    BY <2>1, SizeFacts
  <2>3. stream \in Seq(Unit)
    BY <2>1, <2>2, PieceFacts
  <2>4. CASE p < HeaderSize /\ transfer = PartOfSize(m, p)
    <3>1. /\ transfer.buffer = Piece(m, 0, p) /\ transfer.headerReceived \in BOOLEAN
          /\ transfer.expectedSize \in Nat
      BY <2>4 DEF PartOfSize
    <3>2. transfer.buffer \in Seq(Unit)
      BY <2>2, <3>1, PieceFacts
    <3> QED BY <1>1, <2>1, <2>3, <3>1, <3>2
  <2>5. CASE p >= HeaderSize /\ transfer = Transfer(m, p)
    <3>1. /\ transfer.buffer = Piece(m, HeaderSize, p) /\ transfer.headerReceived = TRUE
          /\ transfer.expectedSize = Size[m]
      BY <2>5 DEF Transfer
    <3>2. p \in HeaderSize..FrameSize(m)
      BY <2>2, <2>5
    <3>3. transfer.buffer \in Seq(Unit)
      BY <2>2, <3>1, <3>2, PieceFacts
    <3> QED BY <1>1, <2>1, <2>2, <2>3, <3>1, <3>3
  <2> QED BY <1>5, <2>4, <2>5 DEF Moving
<1>6. ASSUME NEW old \in Models, NEW m \in Models, NEW q \in Nat, Stuck(old, m, q)
      PROVE  /\ Units(queue) /\ Units(stream) /\ Units(transfer.buffer)
             /\ transfer.headerReceived \in BOOLEAN /\ transfer.expectedSize \in Nat
             /\ inProgress => file # {}
  <2>1. /\ queue \in Seq(Unit) /\ q \in 0..FrameSize(m) /\ (inProgress => file # {})
        /\ stream = Piece(m, 0, q) /\ transfer = Transfer(old, FrameSize(old))
    BY <1>3, <1>6 DEF Stuck
  <2>2. /\ HeaderSize \in Nat /\ Size[old] \in Nat /\ FrameSize(old) \in HeaderSize..FrameSize(old)
        /\ 0 \in Nat
    BY SizeFacts
  <2>3. stream \in Seq(Unit)
    BY <2>1, <2>2, PieceFacts
  <2>4. /\ transfer.buffer = Piece(old, HeaderSize, FrameSize(old))
        /\ transfer.headerReceived = TRUE /\ transfer.expectedSize = Size[old]
    BY <2>1 DEF Transfer
  <2>5. transfer.buffer \in Seq(Unit)
    BY <2>2, <2>4, PieceFacts
  <2> QED BY <1>1, <2>1, <2>2, <2>3, <2>4, <2>5
<1> QED BY <1>4, <1>5, <1>6 DEF Mode

\* The variables of the uplink keep their types whatever is sent and however it
\* is cut, and every model that the centre announces is one that exists.
THEOREM UplinkTyped == Spec => []TypeOK
<1>1. IInv => TypeOK
  <2> SUFFICES ASSUME IInv PROVE TypeOK
    OBVIOUS
  <2>1. PICK w \in Seq(Models) : Mode(w)
    BY DEF IInv
  <2>2. ToSet(received) \subseteq Models \cup {"torn"}
    BY DEF IInv, Typed, ToSet
  <2> QED BY <2>1, <2>2, ModeUnits DEF IInv, Typed, TypeOK
<1> QED BY <1>1, UplinkInvariant, PTL

\* MyServer::processIncomingData never takes a well-formed stream for an
\* overflow: without a fault, sending models does not cost the connection.
THEOREM UplinkKeepsConnection == Spec => []ConnectionKept
<1>1. IInv => ConnectionKept
  BY DEF IInv
<1> QED BY <1>1, UplinkInvariant, PTL

-----------------------------------------------------------------------------
(* The models that are on their way are those whose last units are. *)

\* In what is left of a frame, only the last unit counts.
LEMMA RestOfFrame ==
    ASSUME NEW m \in Models, NEW from \in 0..HeaderSize,
           NEW s, s = Piece(m, from, FrameSize(m)), NEW k, k = FrameSize(m) - from
    PROVE  /\ k \in Nat \ {0} /\ s \in Seq(Unit) /\ Len(s) = k /\ DOMAIN s = 1..k
           /\ \A i \in 1..k : s[i].model = m /\ s[i].at = from + i
           /\ LastUnits(s) = {k}
<1>1. /\ Size[m] \in Nat \ {0} /\ HeaderSize \in Nat \ {0} /\ FrameSize(m) = HeaderSize + Size[m]
      /\ FrameSize(m) \in Nat /\ from \in Nat /\ from < FrameSize(m)
      /\ FrameSize(m) \in from..FrameSize(m) /\ k \in Nat \ {0}
  BY SizeFacts
<1>2. \A to \in from..FrameSize(m) :
         /\ Piece(m, from, to) \in Seq(Unit) /\ Len(Piece(m, from, to)) = to - from
         /\ DOMAIN Piece(m, from, to) = 1..(to - from)
         /\ \A i \in 1..(to - from) : Piece(m, from, to)[i] = [model |-> m, at |-> from + i]
  BY <1>1, PieceFacts
<1>3. /\ s \in Seq(Unit) /\ Len(s) = k /\ DOMAIN s = 1..k
      /\ \A i \in 1..k : s[i] = [model |-> m, at |-> from + i]
  BY <1>1, <1>2
<1>4. \A i \in 1..k : s[i].model = m /\ s[i].at = from + i
  BY <1>3
<1>5. \A i \in 1..k : from + i = HeaderSize + Size[m] <=> i = k
  BY <1>1
<1>6. \A i \in 1..k : s[i].at = HeaderSize + Size[s[i].model] <=> i = k
  BY <1>4, <1>5
<1>7. k \in 1..k
  BY <1>1
<1>8. LastUnits(s) = {k}
  BY <1>3, <1>6, <1>7 DEF LastUnits
<1> QED BY <1>1, <1>3, <1>4, <1>8

LEMMA OneModel ==
    ASSUME NEW m \in Models, NEW from \in 0..HeaderSize
    PROVE  ModelsEndingIn(Piece(m, from, FrameSize(m))) = <<m>>
<1>1. PICK s, k : s = Piece(m, from, FrameSize(m)) /\ k = FrameSize(m) - from
  OBVIOUS
<1>2. /\ k \in Nat \ {0} /\ LastUnits(s) = {k}
      /\ \A i \in 1..k : s[i].model = m
  BY <1>1, RestOfFrame
<1>3. s[k].model = m /\ k \in Nat
  BY <1>2
<1>4. Cardinality(LastUnits(s)) = 1
  BY <1>2, FS_Singleton
<1>5. {j \in LastUnits(s) : j <= k} = {k}
  BY <1>2, <1>3
<1>6. NthLast(s, 1) = k
  BY <1>2, <1>4, <1>5 DEF NthLast
<1>7. ModelsEndingIn(s) = [n \in 1..1 |-> m]
  <2>1. 1..1 = {1}
    OBVIOUS
  <2> QED BY <1>3, <1>4, <1>6, <2>1 DEF ModelsEndingIn
<1>8. [n \in 1..1 |-> m] = <<m>>
  OBVIOUS
<1> QED BY <1>1, <1>7, <1>8

LEMMA TwoModels ==
    ASSUME NEW old \in Models, NEW m \in Models
    PROVE  ModelsEndingIn(Piece(old, HeaderSize, FrameSize(old)) \o Piece(m, 0, FrameSize(m)))
              = <<old, m>>
<1>1. PICK a, b : a = Piece(old, HeaderSize, FrameSize(old)) /\ b = Piece(m, 0, FrameSize(m))
  OBVIOUS
<1>2. PICK k, f : k = FrameSize(old) - HeaderSize /\ f = FrameSize(m) - 0
  OBVIOUS
<1>3. 0 \in 0..HeaderSize /\ HeaderSize \in 0..HeaderSize
  BY SizeFacts
<1>4. /\ k \in Nat \ {0} /\ a \in Seq(Unit) /\ Len(a) = k /\ DOMAIN a = 1..k
      /\ \A i \in 1..k : a[i].model = old
      /\ LastUnits(a) = {k}
  BY <1>1, <1>2, <1>3, RestOfFrame
<1>5. /\ f \in Nat \ {0} /\ b \in Seq(Unit) /\ Len(b) = f /\ DOMAIN b = 1..f
       /\ \A i \in 1..f : b[i].model = m
       /\ LastUnits(b) = {f}
  BY <1>1, <1>2, <1>3, RestOfFrame
<1>6. PICK s, l : s = a \o b /\ l = k + f
  OBVIOUS
<1>7. /\ s \in Seq(Unit) /\ DOMAIN s = 1..l
      /\ \A i \in 1..k : s[i] = a[i]
      /\ \A i \in 1..f : s[k + i] = b[i]
  <2>1. \A S : \A u, v \in Seq(S) :
           /\ u \o v \in Seq(S) /\ Len(u \o v) = Len(u) + Len(v)
           /\ \A i \in 1..(Len(u) + Len(v)) :
                 (u \o v)[i] = IF i <= Len(u) THEN u[i] ELSE v[i - Len(u)]
    OBVIOUS
  <2>2. /\ s \in Seq(Unit) /\ Len(s) = l
        /\ \A i \in 1..(k + f) : s[i] = IF i <= k THEN a[i] ELSE b[i - k]
    <3>1. /\ a \o b \in Seq(Unit) /\ Len(a \o b) = Len(a) + Len(b)
          /\ \A i \in 1..(Len(a) + Len(b)) :
                (a \o b)[i] = IF i <= Len(a) THEN a[i] ELSE b[i - Len(a)]
      <4>1. a \in Seq(Unit) /\ b \in Seq(Unit)
        BY <1>4, <1>5
      <4> QED BY <2>1, <4>1
    <3>2. Len(a) = k /\ Len(b) = f
      BY <1>4, <1>5
    <3> QED BY <1>6, <3>1, <3>2
  <2>3. \A i \in 1..k : i \in 1..(k + f) /\ i <= k
    BY <1>4, <1>5
  <2>4. \A i \in 1..f : k + i \in 1..(k + f) /\ ~(k + i <= k) /\ (k + i) - k = i
    BY <1>4, <1>5
  <2>5. \A i \in 1..f : s[k + i] = b[i]
    BY <2>2, <2>4
  <2> QED BY <2>2, <2>3, <2>5
<1>8. k \in 1..l /\ l \in 1..l /\ k < l /\ l \in Nat
  BY <1>4, <1>5, <1>6
<1>9. LastUnits(s) = {k, l}
  <2>1. ASSUME NEW i \in 1..k PROVE i \in LastUnits(s) <=> i = k
    <3>1. i \in 1..l
      BY <1>4, <1>8
    <3>2. i \in LastUnits(s) <=> i \in LastUnits(a)
      BY <1>4, <1>7, <3>1 DEF LastUnits
    <3> QED BY <1>4, <3>2
  <2>2. ASSUME NEW i \in 1..f PROVE k + i \in LastUnits(s) <=> i = f
    <3>1. k + i \in 1..l
      BY <1>4, <1>5, <1>6
    <3>2. k + i \in LastUnits(s) <=> i \in LastUnits(b)
      BY <1>5, <1>7, <3>1 DEF LastUnits
    <3> QED BY <1>5, <3>2
  <2>3. ASSUME NEW i \in 1..l PROVE i \in LastUnits(s) <=> i = k \/ i = l
    <3>1. CASE i <= k
      BY <1>4, <1>8, <2>1, <3>1
    <3>2. CASE ~(i <= k)
      <4>1. i - k \in 1..f /\ k + (i - k) = i
        BY <1>4, <1>5, <1>6, <3>2
      <4>2. i \in LastUnits(s) <=> i - k = f
        BY <2>2, <4>1
      <4> QED BY <1>4, <1>5, <1>6, <3>2, <4>1, <4>2
    <3> QED BY <3>1, <3>2
  <2>4. LastUnits(s) \subseteq 1..l
    BY <1>7 DEF LastUnits
  <2> QED BY <1>8, <2>3, <2>4
<1>10. s[k].model = old /\ s[l].model = m
  <2>1. k \in 1..k /\ f \in 1..f
    BY <1>4, <1>5
  <2> QED BY <1>4, <1>5, <1>6, <1>7, <2>1
<1>11. k # l /\ k \in Nat /\ l \in Nat /\ k < l
  BY <1>4, <1>8
<1>12. Cardinality(LastUnits(s)) = 2
  <2>1. IsFiniteSet({k}) /\ Cardinality({k}) = 1
    BY FS_Singleton
  <2>2. {k, l} = {k} \cup {l} /\ l \notin {k}
    BY <1>11
  <2>3. Cardinality({k} \cup {l}) = Cardinality({k}) + 1
    BY <2>1, <2>2, FS_AddElement
  <2> QED BY <1>9, <2>1, <2>2, <2>3
<1>13. /\ {j \in LastUnits(s) : j <= k} = {k} /\ {j \in LastUnits(s) : j <= l} = LastUnits(s)
       /\ Cardinality({k}) = 1
  <2>1. Cardinality({k}) = 1
    BY FS_Singleton
  <2>2. {j \in LastUnits(s) : j <= k} = {k}
    BY <1>9, <1>11
  <2>3. {j \in LastUnits(s) : j <= l} = LastUnits(s)
    BY <1>9, <1>11
  <2> QED BY <2>1, <2>2, <2>3
<1>14. NthLast(s, 1) = k /\ NthLast(s, 2) = l
  <2>1. \A i \in LastUnits(s) : Cardinality({j \in LastUnits(s) : j <= i}) = 1 <=> i = k
    BY <1>9, <1>11, <1>12, <1>13
  <2>2. \A i \in LastUnits(s) : Cardinality({j \in LastUnits(s) : j <= i}) = 2 <=> i = l
    BY <1>9, <1>11, <1>12, <1>13
  <2> QED BY <1>9, <2>1, <2>2 DEF NthLast
<1>15. ModelsEndingIn(s) = [n \in 1..2 |-> IF n = 1 THEN old ELSE m]
  <2>1. \A n \in 1..2 : s[NthLast(s, n)].model = IF n = 1 THEN old ELSE m
    BY <1>10, <1>14
  <2> QED BY <1>12, <2>1 DEF ModelsEndingIn
<1>16. [n \in 1..2 |-> IF n = 1 THEN old ELSE m] = <<old, m>>
  OBVIOUS
<1> QED BY <1>1, <1>6, <1>15, <1>16

LEMMA UnwrittenPiece ==
    ASSUME NEW m \in Models, NEW q \in Nat, Sending(m, q)
    PROVE  Unwritten = Piece(m, HeaderSize + sent, FrameSize(m))
<1>1. /\ Size[m] \in Nat \ {0} /\ HeaderSize \in Nat \ {0} /\ FrameSize(m) = HeaderSize + Size[m]
      /\ FrameSize(m) \in Nat /\ FrameSize(m) \in FrameSize(m)..FrameSize(m)
  BY SizeFacts
<1>2. CASE inProgress
  <2>1. file = {m} /\ sent \in 0..Size[m] /\ Size[m] \in sent..Size[m]
    BY <1>1, <1>2 DEF Sending
  <2>2. Unwritten = Chunks(m, sent, Size[m])
    BY <1>2, <2>1 DEF Unwritten
  <2> QED BY <1>1, <2>1, <2>2, FramePieces
<1>3. CASE ~inProgress
  <2>1. Unwritten = << >> /\ HeaderSize + sent = FrameSize(m)
    BY <1>3, SendingFacts DEF Unwritten
  <2> QED BY <1>1, <2>1, PieceFacts
<1> QED BY <1>2, <1>3

LEMMA ModeIsWire == \A w : Mode(w) => OnTheWire = w
<1> SUFFICES ASSUME NEW w, Mode(w) PROVE OnTheWire = w
  OBVIOUS
<1>1. CASE w = << >> /\ Idle
  <2>1. transfer.buffer = << >> /\ stream = << >> /\ queue = << >> /\ Unwritten = << >>
    BY <1>1 DEF Idle, NoTransfer, Unwritten
  <2>2. << >> \o << >> = << >>
    OBVIOUS
  <2>3. LastUnits(<< >>) = {}
    BY DEF LastUnits
  <2>4. ModelsEndingIn(<< >>) = << >>
    <3>1. Cardinality(LastUnits(<< >>)) = 0
      BY <2>3, FS_EmptySet
    <3>2. 1..0 = {}
      OBVIOUS
    <3>3. ModelsEndingIn(<< >>) = [n \in {} |-> << >>[NthLast(<< >>, n)].model]
      BY <3>1, <3>2 DEF ModelsEndingIn
    <3> QED BY <3>3
  <2>5. OnTheWire = ModelsEndingIn(<< >>)
    BY <2>1, <2>2 DEF OnTheWire
  <2> QED BY <1>1, <2>4, <2>5
<1>2. ASSUME NEW m \in Models, NEW q \in Nat, Sending(m, q)
      PROVE  /\ queue = Piece(m, q, HeaderSize + sent)
             /\ Unwritten = Piece(m, HeaderSize + sent, FrameSize(m))
             /\ q \in Nat /\ q \in 0..FrameSize(m) /\ HeaderSize + sent \in q..FrameSize(m)
             /\ HeaderSize + sent \in Nat
             /\ FrameSize(m) \in (HeaderSize + sent)..FrameSize(m)
             /\ FrameSize(m) \in q..FrameSize(m) /\ FrameSize(m) \in Nat
  <2>1. /\ queue = Piece(m, q, HeaderSize + sent) /\ q \in 0..FrameSize(m)
        /\ HeaderSize + sent \in q..FrameSize(m) /\ sent \in Nat
    BY <1>2, SendingFacts
  <2>2. HeaderSize \in Nat /\ FrameSize(m) \in Nat
    BY SizeFacts
  <2> QED BY <1>2, <2>1, <2>2, UnwrittenPiece
<1>3. CASE \E m \in Models : \E p, q \in Nat : w = <<m>> /\ Moving(m, p, q) /\ Fit(m, p)
  <2>1. PICK m \in Models, p \in Nat, q \in Nat : w = <<m>> /\ Moving(m, p, q)
    BY <1>3
  <2>2. /\ Sending(m, q) /\ p \in 0..q /\ stream = Piece(m, p, q)
        /\ \/ p < HeaderSize /\ transfer = PartOfSize(m, p)
           \/ p >= HeaderSize /\ transfer = Transfer(m, p)
    BY <2>1 DEF Moving
  <2>3. /\ queue = Piece(m, q, HeaderSize + sent)
        /\ Unwritten = Piece(m, HeaderSize + sent, FrameSize(m))
        /\ q \in 0..FrameSize(m) /\ HeaderSize + sent \in q..FrameSize(m)
        /\ HeaderSize + sent \in Nat /\ FrameSize(m) \in Nat
        /\ FrameSize(m) \in (HeaderSize + sent)..FrameSize(m)
    BY <1>2, <2>2
  <2>4. PICK from \in 0..HeaderSize : transfer.buffer = Piece(m, from, p) /\ from <= p
    <3>1. 0 \in 0..HeaderSize /\ HeaderSize \in 0..HeaderSize /\ HeaderSize \in Nat
      BY SizeFacts
    <3> QED BY <2>2, <3>1 DEF PartOfSize, Transfer
  <2>5. /\ from \in Nat /\ p \in from..FrameSize(m) /\ q \in p..FrameSize(m)
        /\ q \in from..FrameSize(m) /\ HeaderSize + sent \in from..FrameSize(m)
    BY <2>2, <2>3, <2>4, SizeFacts
  <2>6. transfer.buffer \o stream = Piece(m, from, q)
    BY <2>2, <2>4, <2>5, PieceJoin
  <2>7. Piece(m, from, q) \o queue = Piece(m, from, HeaderSize + sent)
    BY <2>3, <2>5, PieceJoin
  <2>8. Piece(m, from, HeaderSize + sent) \o Unwritten = Piece(m, from, FrameSize(m))
    <3>1. \A mid \in from..FrameSize(m) : \A to \in mid..FrameSize(m) :
             Piece(m, from, mid) \o Piece(m, mid, to) = Piece(m, from, to)
      BY <2>5, PieceJoin
    <3> QED BY <2>3, <2>5, <3>1
  <2>9. OnTheWire = <<m>>
    BY <2>6, <2>7, <2>8, OneModel DEF OnTheWire
  <2> QED BY <2>1, <2>9
<1>4. CASE \E old, m \in Models : \E q \in Nat : w = <<old, m>> /\ Stuck(old, m, q) /\ faults > 0
  <2>1. PICK old \in Models, m \in Models, q \in Nat : w = <<old, m>> /\ Stuck(old, m, q)
    BY <1>4
  <2>2. /\ Sending(m, q) /\ stream = Piece(m, 0, q)
        /\ transfer.buffer = Piece(old, HeaderSize, FrameSize(old))
    BY <2>1 DEF Stuck, Transfer
  <2>3. /\ queue = Piece(m, q, HeaderSize + sent)
        /\ Unwritten = Piece(m, HeaderSize + sent, FrameSize(m))
        /\ q \in Nat /\ q \in 0..FrameSize(m) /\ HeaderSize + sent \in q..FrameSize(m)
        /\ HeaderSize + sent \in Nat /\ FrameSize(m) \in Nat
        /\ FrameSize(m) \in (HeaderSize + sent)..FrameSize(m)
    BY <1>2, <2>2
  <2> DEFINE a == Piece(old, HeaderSize, FrameSize(old))
             b == Piece(m, 0, q)
             c == Piece(m, q, HeaderSize + sent)
             d == Piece(m, HeaderSize + sent, FrameSize(m))
  <2>4. a \in Seq(Unit)
    <3>1. FrameSize(old) \in HeaderSize..FrameSize(old) /\ HeaderSize \in Nat
      BY SizeFacts
    <3> QED BY <3>1, PieceFacts
  <2>5. b \in Seq(Unit)
    BY <2>3, PieceFacts
  <2>6. c \in Seq(Unit)
    <3>1. \A to \in q..FrameSize(m) : Piece(m, q, to) \in Seq(Unit)
      BY PieceFacts
    <3> QED BY <2>3, <3>1
  <2>7. d \in Seq(Unit)
    <3>1. \A from \in Nat : FrameSize(m) \in from..FrameSize(m) =>
             Piece(m, from, FrameSize(m)) \in Seq(Unit)
      BY PieceFacts
    <3> QED BY <2>3, <3>1
  <2>8. b \o c = Piece(m, 0, HeaderSize + sent)
    <3>1. \A to \in q..FrameSize(m) : Piece(m, 0, q) \o Piece(m, q, to) = Piece(m, 0, to)
      BY <2>3, PieceJoin
    <3> QED BY <2>3, <3>1
  <2>9. Piece(m, 0, HeaderSize + sent) \o d = Piece(m, 0, FrameSize(m))
    <3>1. \A mid \in 0..FrameSize(m) : \A to \in mid..FrameSize(m) :
             Piece(m, 0, mid) \o Piece(m, mid, to) = Piece(m, 0, to)
      BY PieceJoin
    <3>2. HeaderSize + sent \in 0..FrameSize(m)
      BY <2>3
    <3> QED BY <2>3, <3>1, <3>2
  <2> HIDE DEF a, b, c, d
  <2>10. \A S : \A r, s, t \in Seq(S) : (r \o s) \o t = r \o (s \o t) /\ r \o s \in Seq(S)
    BY ConcatAssociative
  <2>11. ((a \o b) \o c) \o d = a \o ((b \o c) \o d)
    <3>1. (a \o b) \o c = a \o (b \o c) /\ b \o c \in Seq(Unit)
      BY <2>4, <2>5, <2>6, <2>10
    <3>2. (a \o (b \o c)) \o d = a \o ((b \o c) \o d)
      BY <2>4, <2>7, <2>10, <3>1, SMTT(30)
    <3> QED BY <3>1, <3>2
  <2>12. transfer.buffer = a /\ stream = b /\ queue = c /\ Unwritten = d
    BY <2>2, <2>3 DEF a, b, c, d
  <2>13. OnTheWire = ModelsEndingIn(a \o Piece(m, 0, FrameSize(m)))
    BY <2>8, <2>9, <2>11, <2>12 DEF OnTheWire
  <2>14. OnTheWire = <<old, m>>
    BY <2>13, TwoModels DEF a
  <2> QED BY <2>1, <2>14
<1> QED BY <1>1, <1>3, <1>4 DEF Mode

\* The uplink is a pipe: what the centre announces are the files the edge sent,
\* whole, in order and once, and nothing is lost but with the connection (or a
\* file that cannot be saved).
THEOREM UplinkIsPipe == Spec => ImplementsPipe
<1> DEFINE Known == \A w : Mode(w) => OnTheWire = w
           Step == Pipe!Next \/ UNCHANGED <<OnTheWire, received>>
<1>1. Init => Pipe!Init
  <2> SUFFICES ASSUME Init PROVE Pipe!Init
    OBVIOUS
  <2>1. OnTheWire = << >>
    BY UplinkStarts, ModeIsWire
  <2> QED BY <2>1 DEF Init, Pipe!Init
<1>2. Known
  BY ModeIsWire
<1>3. IInv /\ Known /\ Known' /\ [Next]_vars => Step
  <2> SUFFICES ASSUME IInv, Known, Known', [Next]_vars PROVE Step
    OBVIOUS
  <2>1. PICK w \in Seq(Models) : Mode(w)
    BY DEF IInv
  <2>2. Goes(w)
    BY <2>1, UplinkSteps DEF IInv
  <2>3. PICK v \in Seq(Models) : Mode(v)' /\ PipeStep(w, v)
    BY <2>2 DEF Goes
  <2>4. OnTheWire = w
    BY <2>1
  <2>5. OnTheWire' = v
    BY <2>3
  <2> HIDE DEF Known
  <2>6. CASE v = w /\ received' = received
    BY <2>4, <2>5, <2>6
  <2>7. CASE \E m \in Models : v = Append(w, m) /\ received' = received
    <3>1. Pipe!Send
      BY <2>4, <2>5, <2>7 DEF Pipe!Send
    <3> QED BY <3>1 DEF Pipe!Next
  <2>8. CASE w # << >> /\ v = << >> /\ received' = received
    <3>1. Pipe!Lose
      BY <2>4, <2>5, <2>8 DEF Pipe!Lose
    <3> QED BY <3>1 DEF Pipe!Next
  <2>9. CASE \E m \in Models : w = <<m>> /\ v = << >> /\ received' = Append(received, m)
    <3>1. PICK m \in Models : w = <<m>> /\ v = << >> /\ received' = Append(received, m)
      BY <2>9
    <3>2. /\ Len(<<m>>) = 1 /\ SubSeq(<<m>>, 1, 1) = <<m>> /\ SubSeq(<<m>>, 1 + 1, 1) = << >>
      <4>1. <<m>> \in Seq(Models) /\ Len(<<m>>) = 1
        OBVIOUS
      <4>2. \A s \in Seq(Models) : Len(s) = 1 =>
               SubSeq(s, 1, 1) = s /\ SubSeq(s, 1 + 1, 1) = << >>
        <5> SUFFICES ASSUME NEW s \in Seq(Models), Len(s) = 1
                     PROVE  SubSeq(s, 1, 1) = s /\ SubSeq(s, 1 + 1, 1) = << >>
          OBVIOUS
        <5>1. SubSeq(s, 1, Len(s)) = s
          BY SubSeqFull
        <5>2. SubSeq(s, 1 + 1, 1) = << >>
          BY SubSeqEmpty
        <5> QED BY <5>1, <5>2
      <4> QED BY <4>1, <4>2
    <3>3. received \o <<m>> = Append(received, m)
      BY DEF IInv, Typed
    <3>4. Pipe!Deliver(1)
      BY <2>4, <2>5, <3>1, <3>2, <3>3 DEF Pipe!Deliver, Pipe!Saved
    <3>5. 1 \in 1..Len(OnTheWire)
      BY <2>4, <3>1, <3>2
    <3> QED BY <3>4, <3>5 DEF Pipe!Next
  <2> QED BY <2>3, <2>6, <2>7, <2>8, <2>9 DEF PipeStep
<1> HIDE DEF Known, Step
<1>4. Spec => Pipe!Init /\ [][Step]_vars
  BY <1>1, <1>2, <1>3, UplinkInvariant, PTL DEF Spec
<1>5. Spec => Pipe!Init /\ [][Pipe!Next]_(Pipe!vars)
  <2>1. [Step]_vars => [Pipe!Next]_(Pipe!vars)
    <3>1. UNCHANGED vars => UNCHANGED <<OnTheWire, received>>
      BY DEF vars, edgeVars, centerVars, OnTheWire, Unwritten
    <3> QED BY <3>1 DEF Step, Pipe!vars
  <2> QED BY <1>4, <2>1, PTL
<1> QED BY <1>5 DEF ImplementsPipe, Pipe!Spec

=============================================================================
