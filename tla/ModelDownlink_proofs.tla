------------------------ MODULE ModelDownlink_proofs ------------------------
(***************************************************************************)
(* The downlink carries whole models, in order and once, for files of any  *)
(* size and reads of any length, as long as no connection is lost in the   *)
(* middle of a model; what the disk refuses is lost.                       *)
(*                                                                         *)
(* Both handleModelData and the models on the wire are recursive functions *)
(* over a byte string: what they compute is shown by induction over sets   *)
(* of numbers.                                                             *)
(***************************************************************************)
EXTENDS ModelDownlink, FiniteSetTheorems, SequenceTheorems, TLAPS

-----------------------------------------------------------------------------
(* Induction and recursive functions. *)

LEMMA SetInduction ==
    ASSUME NEW S, 0 \in S, \A i \in Nat : i \in S => i + 1 \in S,
           NEW n \in Nat
    PROVE  n \in S
<1> SUFFICES ASSUME n \notin S
             PROVE  FALSE
  OBVIOUS
<1> DEFINE Below == {x \in 0..n : \A y \in 0..x : y \in S}
           Succ == [x \in Below |-> x + 1]
<1>1. 0 \in Below
  OBVIOUS
<1>2. IsFiniteSet(Below)
  <2>1. IsFiniteSet(0..n)
    BY FS_Interval
  <2> QED BY <2>1, FS_Subset
<1>3. Succ \in [Below -> Below \ {0}]
  <2> SUFFICES ASSUME NEW x \in Below
               PROVE  x + 1 \in Below
    OBVIOUS
  <2>1. x \in Nat /\ x # n /\ x + 1 \in 0..n
    OBVIOUS
  <2>2. x + 1 \in S
    BY <2>1
  <2>3. \A y \in 0..(x + 1) : y \in 0..x \/ y = x + 1
    BY <2>1
  <2> QED BY <2>1, <2>2, <2>3
<1>4. /\ IsFiniteSet(Below \ {0})
      /\ Cardinality(Below \ {0}) < Cardinality(Below)
  <2>1. Cardinality(Below) \in Nat
    BY <1>2, FS_CardinalityType
  <2>2. /\ IsFiniteSet(Below \ {0})
        /\ Cardinality(Below \ {0}) = Cardinality(Below) - 1
    <3> HIDE DEF Below
    <3> QED BY <1>1, <1>2, FS_RemoveElement
  <2> HIDE DEF Below
  <2> QED BY <2>1, <2>2
<1> HIDE DEF Below, Succ
<1>5. \E x, y \in Below : x # y /\ Succ[x] = Succ[y]
  BY <1>2, <1>3, <1>4, FS_PigeonHole
<1> QED BY <1>5 DEF Succ, Below

\* Repeating a step n times: there is one record of it, and any other that
\* makes the same steps is the same.
Iterates(f, n, base, next) ==
    f[0] = base /\ \A i \in 1..n : f[i] = next[i][f[i - 1]]

LEMMA IterationExists ==
    ASSUME NEW D, NEW base \in D, NEW n \in Nat, NEW next \in [1..n -> [D -> D]]
    PROVE  \E f \in [0..n -> D] : Iterates(f, n, base, next)
<1> DEFINE S == {j \in Nat : j <= n => \E f \in [0..j -> D] : Iterates(f, j, base, next)}
<1>1. 0 \in S
  <2>1. [i \in 0..0 |-> base] \in [0..0 -> D]
    OBVIOUS
  <2>2. Iterates([i \in 0..0 |-> base], 0, base, next)
    BY DEF Iterates
  <2> QED BY <2>1, <2>2
<1>2. ASSUME NEW j \in Nat, j \in S
      PROVE  j + 1 \in S
  <2> SUFFICES ASSUME j + 1 <= n
               PROVE  \E f \in [0..(j + 1) -> D] : Iterates(f, j + 1, base, next)
    BY <1>2
  <2>1. PICK f \in [0..j -> D] : Iterates(f, j, base, next)
    BY <1>2
  <2> DEFINE h == [i \in 0..(j + 1) |-> IF i <= j THEN f[i] ELSE next[j + 1][f[j]]]
  <2>2. f[j] \in D /\ next[j + 1] \in [D -> D] /\ next[j + 1][f[j]] \in D
    <3>1. j \in 0..j /\ j + 1 \in 1..n
      OBVIOUS
    <3> QED BY <3>1
  <2>3. h \in [0..(j + 1) -> D]
    <3>1. ASSUME NEW i \in 0..(j + 1)
          PROVE  (IF i <= j THEN f[i] ELSE next[j + 1][f[j]]) \in D
      <4>1. i <= j => i \in 0..j
        OBVIOUS
      <4> QED BY <2>2, <4>1
    <3> QED BY <3>1
  <2>4. Iterates(h, j + 1, base, next)
    <3>1. h[0] = base
      BY <2>1 DEF Iterates
    <3>2. ASSUME NEW i \in 1..(j + 1)
          PROVE  h[i] = next[i][h[i - 1]]
      <4>1. h[i - 1] = f[i - 1]
        OBVIOUS
      <4>2. CASE i <= j
        <5>1. i \in 1..j /\ h[i] = f[i]
          BY <4>2
        <5> QED BY <2>1, <4>1, <5>1 DEF Iterates
      <4>3. CASE i = j + 1
        <5>1. i - 1 = j /\ h[i] = next[j + 1][f[j]]
          BY <4>3
        <5> QED BY <4>1, <4>3, <5>1
      <4> QED BY <4>2, <4>3
    <3> HIDE DEF h
    <3> QED BY <3>1, <3>2 DEF Iterates
  <2> HIDE DEF h
  <2> QED BY <2>3, <2>4
<1>3. n \in S
  <2> HIDE DEF S
  <2> QED BY <1>1, <1>2, SetInduction
<1> QED BY <1>3

-----------------------------------------------------------------------------
(* What handleModelData makes of one byte and of a read. *)

FrameSize(m) == HeaderSize + Size[m]

Bytes == {b \in [model : Models, at : Nat] : b.at \in 1..FrameSize(b.model)}

Files == Models \cup {"torn"}

Transfers == {t \in [headerReceived : BOOLEAN, expectedSize : Int, buffer : Seq(Bytes)] :
                ~t.headerReceived => t.buffer = << >>}

Readers == [header : Seq(Bytes), transfer : Transfers, received : Seq(Files)]

LEMMA SizeFacts ==
    ASSUME NEW m \in Models
    PROVE  /\ Size[m] \in Nat \ {0} /\ HeaderSize \in Nat \ {0}
           /\ FrameSize(m) \in Nat /\ FrameSize(m) = HeaderSize + Size[m]
           /\ HeaderSize < FrameSize(m)
<1>1. Size[m] \in Nat \ {0} /\ HeaderSize \in Nat \ {0}
  BY SizesAssumption
<1> QED BY <1>1 DEF FrameSize

LEMMA FirstByte ==
    ASSUME NEW s \in Seq(Bytes), NEW b \in Bytes
    PROVE  /\ Append(s, b) \in Seq(Bytes) /\ Append(s, b)[1] \in Bytes
           /\ Append(s, b)[1].model \in Models
<1>1. Append(s, b) \in Seq(Bytes) /\ Append(s, b)[1] \in Bytes
  OBVIOUS
<1> QED BY <1>1 DEF Bytes

\* What the disk makes of a file, or of several, one by one.
LEMMA SavedType ==
    ASSUME disk \in DiskStates, NEW f \in Files
    PROVE  Saved(f) \in Seq(Files)
<1>1. disk \in {"works", "full", "unwritable"}
  BY DiskAssumption
<1>2. "torn" \in Files
  BY DEF Files
<1>3. CASE disk = "works"
  BY <1>3 DEF Saved
<1>4. CASE disk = "full"
  BY <1>2, <1>4 DEF Saved
<1>5. CASE disk = "unwritable"
  BY <1>5 DEF Saved
<1> QED BY <1>1, <1>3, <1>4, <1>5

LEMMA ReadByteType ==
    ASSUME disk \in DiskStates, NEW st \in Readers, NEW b \in Bytes, NEW anything \in Int
    PROVE  ReadByte(st, b, anything) \in Readers
<1> DEFINE t == st.transfer
           field == Append(st.header, b)
           bytes == Append(t.buffer, b)
<1>1. /\ st.header \in Seq(Bytes) /\ t \in Transfers /\ st.received \in Seq(Files)
      /\ t.headerReceived \in BOOLEAN /\ t.expectedSize \in Int /\ t.buffer \in Seq(Bytes)
      /\ ~t.headerReceived => t.buffer = << >>
      /\ DOMAIN st = {"header", "transfer", "received"}
  BY DEF Readers, Transfers
<1>2. /\ field \in Seq(Bytes) /\ bytes \in Seq(Bytes)
      /\ field[1].model \in Models /\ bytes[1].model \in Models
  BY <1>1, FirstByte
<1>3. SizeIn(field, anything) \in Int
  BY <1>2, SizeFacts DEF SizeIn
<1>4. FileOf(bytes) \in Files
  BY <1>2 DEF FileOf, Files
<1>5. << >> \in Seq(Bytes) /\ NoTransfer \in Transfers
  BY DEF NoTransfer, Transfers
<1> DEFINE a == [st EXCEPT !.header = field]
           c == [st EXCEPT !.header = << >>, !.transfer.headerReceived = TRUE,
                           !.transfer.expectedSize = SizeIn(field, anything)]
           d == [st EXCEPT !.transfer.buffer = bytes]
           e == Complete(st, bytes)
<1>6. a \in Readers
  BY <1>1, <1>2 DEF Readers
<1>7. c \in Readers
  <2>1. [t EXCEPT !.headerReceived = TRUE, !.expectedSize = SizeIn(field, anything)] \in Transfers
    BY <1>1, <1>3 DEF Transfers
  <2>2. c = [st EXCEPT !.header = << >>,
                 !.transfer = [t EXCEPT !.headerReceived = TRUE,
                                        !.expectedSize = SizeIn(field, anything)]]
    BY <1>1 DEF Readers, Transfers
  <2> QED BY <1>1, <1>5, <2>1, <2>2 DEF Readers
<1>8. ASSUME t.headerReceived
      PROVE  d \in Readers
  <2>1. [t EXCEPT !.buffer = bytes] \in Transfers
    BY <1>1, <1>2, <1>8 DEF Transfers
  <2> QED BY <1>1, <2>1 DEF Readers
<1>9. e \in Readers
  <2>1. st.received \o Saved(FileOf(bytes)) \in Seq(Files)
    <3>1. Saved(FileOf(bytes)) \in Seq(Files)
      BY <1>4, SavedType
    <3> QED BY <1>1, <3>1
  <2> QED BY <1>1, <1>5, <2>1 DEF Readers, Complete
<1>10. \/ ReadByte(st, b, anything) \in {a, c, e, st}
       \/ t.headerReceived /\ ReadByte(st, b, anything) = d
  BY DEF ReadByte
<1> HIDE DEF a, c, d, e
<1> QED BY <1>6, <1>7, <1>8, <1>9, <1>10

\* A read is the bytes read one after the other.
LEMMA Reads ==
    ASSUME stream \in Seq(Bytes), reader \in Readers, disk \in DiskStates,
           NEW n \in 1..Len(stream), NEW anything \in Int
    PROVE  \E g \in [0..n -> Readers] :
              /\ AfterBytes(n, anything) = g[n]
              /\ g[0] = reader
              /\ \A i \in 1..n : g[i] = ReadByte(g[i - 1], stream[i], anything)
<1> DEFINE step(i) == [st \in Readers |-> ReadByte(st, stream[i], anything)]
           next == [i \in 1..n |-> step(i)]
<1>1. n \in Nat /\ \A i \in 1..n : stream[i] \in Bytes
  OBVIOUS
<1>2. next \in [1..n -> [Readers -> Readers]]
  <2>1. ASSUME NEW i \in 1..n
        PROVE  step(i) \in [Readers -> Readers]
    BY <1>1, ReadByteType
  <2> HIDE DEF step
  <2> QED BY <2>1
<1>3. PICK f \in [0..n -> Readers] : Iterates(f, n, reader, next)
  <2> HIDE DEF next
  <2> QED BY <1>1, <1>2, IterationExists
<1>4. f = [i \in 0..n |-> IF i = 0 THEN reader ELSE ReadByte(f[i - 1], stream[i], anything)]
  <2>1. f[0] = reader
    BY <1>3 DEF Iterates
  <2>2. ASSUME NEW i \in 0..n, i # 0
        PROVE  f[i] = ReadByte(f[i - 1], stream[i], anything)
    <3>1. i \in 1..n /\ i - 1 \in 0..n
      BY <1>1, <2>2
    <3>2. f[i] = next[i][f[i - 1]] /\ f[i - 1] \in Readers
      BY <1>3, <3>1 DEF Iterates
    <3>3. next[i] = step(i)
      BY <3>1
    <3> QED BY <3>2, <3>3
  <2>3. ASSUME NEW i \in 0..n
        PROVE  f[i] = IF i = 0 THEN reader ELSE ReadByte(f[i - 1], stream[i], anything)
    BY <2>1, <2>2
  <2> QED BY <2>3
<1>5. PICK g : /\ g = [i \in 0..n |-> IF i = 0 THEN reader ELSE ReadByte(g[i - 1], stream[i], anything)]
               /\ AfterBytes(n, anything) = g[n]
  BY <1>4 DEF AfterBytes
<1>6. /\ g[0] = reader
      /\ \A i \in 1..n : g[i] = ReadByte(g[i - 1], stream[i], anything)
  <2>1. \A i \in 0..n : g[i] = IF i = 0 THEN reader ELSE ReadByte(g[i - 1], stream[i], anything)
    BY <1>5
  <2>2. 0 \in 0..n /\ \A i \in 1..n : i \in 0..n /\ i # 0
    BY <1>1
  <2> QED BY <2>1, <2>2
<1>7. g \in [0..n -> Readers]
  <2> DEFINE S == {i \in Nat : i <= n => g[i] \in Readers}
  <2>1. 0 \in S
    BY <1>6
  <2>2. ASSUME NEW i \in Nat, i \in S
        PROVE  i + 1 \in S
    <3> SUFFICES ASSUME i + 1 <= n
                 PROVE  g[i + 1] \in Readers
      OBVIOUS
    <3>1. g[i] \in Readers /\ i + 1 \in 1..n /\ (i + 1) - 1 = i
      BY <1>1, <2>2
    <3>2. g[i + 1] = ReadByte(g[i], stream[i + 1], anything)
      BY <1>6, <3>1
    <3> QED BY <1>1, <3>1, <3>2, ReadByteType
  <2>3. \A i \in Nat : i \in S
    <3> HIDE DEF S
    <3> QED BY <2>1, <2>2, SetInduction
  <2>4. \A i \in 0..n : g[i] \in Readers
    BY <1>1, <2>3
  <2>5. g = [i \in 0..n |-> g[i]]
    BY <1>5
  <2> QED BY <2>4, <2>5
<1> QED BY <1>5, <1>6, <1>7

-----------------------------------------------------------------------------
(* The invariant.  What the socket holds is the rest of a frame and whole      *)
(* frames behind it; the edge has read that frame up to its first byte there.  *)

Byte(m, i) == [model |-> m, at |-> i]

\* The bytes from+1 .. to of the frame of m.
Piece(m, from, to) == [i \in 1..(to - from) |-> Byte(m, from + i)]

\* A byte continues the frame of the one before it, or starts the next frame.
Follows(a, b) == IF IsLastByte(a) THEN b.at = 1 ELSE b = Byte(a.model, a.at + 1)

Ordered(s) == /\ \A i \in 1..(Len(s) - 1) : Follows(s[i], s[i + 1])
              /\ s # << >> => IsLastByte(s[Len(s)])

Fresh(st) == st.header = << >> /\ st.transfer = NoTransfer

\* The frame of m has been read up to its byte p.
HasRead(st, m, p) ==
    IF p < HeaderSize
    THEN st.header = Piece(m, 0, p) /\ st.transfer = NoTransfer
    ELSE /\ st.header = << >>
         /\ st.transfer = [headerReceived |-> TRUE, expectedSize |-> Size[m],
                           buffer |-> Piece(m, HeaderSize, p)]

\* A reader of s that has taken its first i bytes.
InStep(st, s, i) == IF i < Len(s) THEN HasRead(st, s[i + 1].model, s[i + 1].at - 1)
                                  ELSE Fresh(st)

Typed == /\ link \in {"up", "retrying", "down"}
         /\ stream \in Seq(Bytes)
         /\ reader \in Readers
         /\ disk \in DiskStates
         /\ sends \in 0..MaxSends
         /\ drops \in 0..MaxDrops

WholeModels == Ordered(stream) /\ InStep(reader, stream, 0)

-----------------------------------------------------------------------------
(* Frames. *)

LEMMA PieceFacts ==
    ASSUME NEW m \in Models, NEW from \in Nat, NEW to \in from..FrameSize(m)
    PROVE  /\ Piece(m, from, to) \in Seq(Bytes) /\ Len(Piece(m, from, to)) = to - from
           /\ \A i \in 1..(to - from) : Piece(m, from, to)[i] = Byte(m, from + i)
           /\ from = to => Piece(m, from, to) = << >>
<1>1. to \in Nat /\ FrameSize(m) \in Nat /\ to - from \in Nat
  BY SizeFacts
<1>2. ASSUME NEW i \in 1..(to - from)
      PROVE  Byte(m, from + i) \in Bytes
  BY <1>1 DEF Bytes, Byte
<1>3. Piece(m, from, to) \in Seq(Bytes) /\ Len(Piece(m, from, to)) = to - from
  BY <1>1, <1>2 DEF Piece
<1>4. \A i \in 1..(to - from) : Piece(m, from, to)[i] = Byte(m, from + i)
  BY DEF Piece
<1>5. \A q \in Seq(Bytes) : Len(q) = 0 => q = << >>
  OBVIOUS
<1> QED BY <1>1, <1>3, <1>4, <1>5

LEMMA SameSeq ==
    ASSUME NEW T, NEW s \in Seq(T), NEW t \in Seq(T), Len(s) = Len(t),
           \A i \in 1..Len(s) : s[i] = t[i]
    PROVE  s = t
OBVIOUS

LEMMA TransferFields ==
    ASSUME NEW t \in Transfers
    PROVE  t = [headerReceived |-> t.headerReceived, expectedSize |-> t.expectedSize,
                buffer |-> t.buffer]
BY DEF Transfers

LEMMA PieceGrows ==
    ASSUME NEW m \in Models, NEW from \in Nat, NEW to \in from..(FrameSize(m) - 1)
    PROVE  /\ Byte(m, to + 1) \in Bytes
           /\ Append(Piece(m, from, to), Byte(m, to + 1)) = Piece(m, from, to + 1)
           /\ Piece(m, from, to) \in Seq(Bytes) /\ Len(Piece(m, from, to)) = to - from
           /\ Piece(m, from, to + 1) \in Seq(Bytes)
           /\ Len(Piece(m, from, to + 1)) = (to + 1) - from
           /\ Piece(m, from, to + 1)[1] = Byte(m, from + 1)
<1> DEFINE a == Piece(m, from, to)
           b == Byte(m, to + 1)
           c == Piece(m, from, to + 1)
<1>1. /\ to \in Nat /\ FrameSize(m) \in Nat /\ to \in from..FrameSize(m)
      /\ to + 1 \in from..FrameSize(m) /\ 1 \in 1..((to + 1) - from)
  BY SizeFacts
<1>2. b \in Bytes
  BY <1>1 DEF Bytes, Byte
<1>3. /\ a \in Seq(Bytes) /\ Len(a) = to - from
      /\ \A i \in 1..(to - from) : a[i] = Byte(m, from + i)
  BY <1>1, PieceFacts
<1>4. /\ c \in Seq(Bytes) /\ Len(c) = (to + 1) - from
      /\ \A i \in 1..((to + 1) - from) : c[i] = Byte(m, from + i)
  BY <1>1, PieceFacts
<1> HIDE DEF a, b, c
<1>5. /\ Append(a, b) \in Seq(Bytes) /\ Len(Append(a, b)) = (to - from) + 1
      /\ \A i \in 1..(to - from) : Append(a, b)[i] = a[i]
      /\ Append(a, b)[(to - from) + 1] = b
  BY <1>1, <1>2, <1>3
<1>6. ASSUME NEW i \in 1..Len(Append(a, b))
      PROVE  Append(a, b)[i] = c[i]
  <2>1. CASE i \in 1..(to - from)
    <3>1. i \in 1..((to + 1) - from)
      BY <1>1, <2>1
    <3> QED BY <1>3, <1>4, <1>5, <2>1, <3>1
  <2>2. CASE i \notin 1..(to - from)
    <3>1. i = (to - from) + 1 /\ from + i = to + 1 /\ i \in 1..((to + 1) - from)
      BY <1>1, <1>5, <2>2
    <3> QED BY <1>4, <1>5, <3>1 DEF b
  <2> QED BY <2>1, <2>2
<1>7. Len(Append(a, b)) = Len(c)
  BY <1>1, <1>4, <1>5
<1>8. Append(a, b) = c
  BY <1>4, <1>5, <1>6, <1>7, SameSeq
<1>9. c[1] = Byte(m, from + 1)
  BY <1>1, <1>4
<1> QED BY <1>2, <1>3, <1>4, <1>8, <1>9 DEF a, b, c

LEMMA FramePieces ==
    ASSUME NEW m \in Models
    PROVE  /\ Frame(m) = Piece(m, 0, FrameSize(m))
           /\ SubSeq(Frame(m), 1, HeaderSize) = Piece(m, 0, HeaderSize)
           /\ FileBytes(m) = Piece(m, HeaderSize, FrameSize(m))
<1> DEFINE F == Piece(m, 0, FrameSize(m))
           H == Piece(m, 0, HeaderSize)
           B == Piece(m, HeaderSize, FrameSize(m))
<1>1. /\ FrameSize(m) \in Nat /\ HeaderSize \in Nat \ {0} /\ HeaderSize < FrameSize(m)
      /\ FrameSize(m) - 0 = FrameSize(m) /\ HeaderSize - 0 = HeaderSize
      /\ \A i \in Nat : 0 + i = i
  BY SizeFacts
<1>2. Frame(m) = F
  <2>1. ASSUME NEW i \in 1..FrameSize(m)
        PROVE  Byte(m, 0 + i) = [model |-> m, at |-> i]
    <3>1. 0 + i = i
      BY <1>1
    <3> QED BY <3>1 DEF Byte
  <2> QED BY <1>1, <2>1 DEF Frame, Piece, FrameSize
<1>3. /\ F \in Seq(Bytes) /\ Len(F) = FrameSize(m)
      /\ \A i \in 1..FrameSize(m) : F[i] = Byte(m, 0 + i)
  <2>1. FrameSize(m) \in 0..FrameSize(m) /\ 0 \in Nat /\ FrameSize(m) - 0 = FrameSize(m)
    BY <1>1
  <2>2. /\ F \in Seq(Bytes) /\ Len(F) = FrameSize(m) - 0
        /\ \A i \in 1..(FrameSize(m) - 0) : F[i] = Byte(m, 0 + i)
    BY <2>1, PieceFacts
  <2> HIDE DEF F
  <2> QED BY <1>1, <2>1, <2>2
<1>4. /\ H \in Seq(Bytes) /\ Len(H) = HeaderSize
      /\ \A i \in 1..HeaderSize : H[i] = Byte(m, 0 + i)
  <2>1. HeaderSize \in 0..FrameSize(m) /\ 0 \in Nat /\ HeaderSize - 0 = HeaderSize
    BY <1>1
  <2>2. /\ H \in Seq(Bytes) /\ Len(H) = HeaderSize - 0
        /\ \A i \in 1..(HeaderSize - 0) : H[i] = Byte(m, 0 + i)
    BY <2>1, PieceFacts
  <2> HIDE DEF H
  <2> QED BY <1>1, <2>1, <2>2
<1>5. /\ B \in Seq(Bytes) /\ Len(B) = FrameSize(m) - HeaderSize
      /\ \A i \in 1..(FrameSize(m) - HeaderSize) : B[i] = Byte(m, HeaderSize + i)
  <2>1. FrameSize(m) \in HeaderSize..FrameSize(m) /\ HeaderSize \in Nat /\ FrameSize(m) - HeaderSize = FrameSize(m) - HeaderSize
    BY <1>1
  <2>2. /\ B \in Seq(Bytes) /\ Len(B) = FrameSize(m) - HeaderSize
        /\ \A i \in 1..(FrameSize(m) - HeaderSize) : B[i] = Byte(m, HeaderSize + i)
    BY <2>1, PieceFacts
  <2> HIDE DEF B
  <2> QED BY <1>1, <2>1, <2>2
<1> HIDE DEF F, H, B
<1>6. SubSeq(F, 1, HeaderSize) = H
  <2>1. /\ SubSeq(F, 1, HeaderSize) \in Seq(Bytes) /\ Len(SubSeq(F, 1, HeaderSize)) = HeaderSize
        /\ \A i \in 1..HeaderSize : SubSeq(F, 1, HeaderSize)[i] = F[i]
    BY <1>1, <1>3
  <2>2. \A i \in 1..HeaderSize : i \in 1..FrameSize(m)
    BY <1>1
  <2> QED BY <1>3, <1>4, <2>1, <2>2, SameSeq
<1>7. SubSeq(F, HeaderSize + 1, Len(F)) = B
  <2> DEFINE s == SubSeq(F, HeaderSize + 1, Len(F))
  <2>1. /\ s \in Seq(Bytes) /\ Len(s) = FrameSize(m) - HeaderSize
        /\ \A i \in 1..(FrameSize(m) - HeaderSize) : s[i] = F[HeaderSize + i]
    BY <1>1, <1>3
  <2> HIDE DEF s
  <2>2. \A i \in 1..(FrameSize(m) - HeaderSize) :
           HeaderSize + i \in 1..FrameSize(m) /\ 0 + (HeaderSize + i) = HeaderSize + i
    BY <1>1
  <2>3. \A i \in 1..(FrameSize(m) - HeaderSize) : s[i] = B[i]
    BY <1>3, <1>5, <2>1, <2>2
  <2> QED BY <1>5, <2>1, <2>3, SameSeq DEF s
<1> QED BY <1>2, <1>6, <1>7 DEF F, H, B, FileBytes

\* One byte more of a frame, in each of its parts.
LEMMA ReadNext ==
    ASSUME disk \in DiskStates,
           NEW st \in Readers, NEW m \in Models, NEW p \in 0..(FrameSize(m) - 1),
           NEW anything \in Int, HasRead(st, m, p)
    PROVE  IF p + 1 < FrameSize(m)
           THEN /\ HasRead(ReadByte(st, Byte(m, p + 1), anything), m, p + 1)
                /\ ReadByte(st, Byte(m, p + 1), anything).received = st.received
           ELSE /\ Fresh(ReadByte(st, Byte(m, p + 1), anything))
                /\ ReadByte(st, Byte(m, p + 1), anything).received = st.received \o Saved(m)
<1> DEFINE b == Byte(m, p + 1)
           t == st.transfer
           field == Append(st.header, b)
           bytes == Append(t.buffer, b)
           next == ReadByte(st, b, anything)
<1>1. /\ Size[m] \in Nat \ {0} /\ HeaderSize \in Nat \ {0} /\ FrameSize(m) \in Nat
      /\ FrameSize(m) = HeaderSize + Size[m] /\ HeaderSize < FrameSize(m) /\ p \in Nat
  BY SizeFacts
<1>2. /\ t.headerReceived \in BOOLEAN /\ t \in Transfers /\ next.transfer \in Transfers
      /\ DOMAIN st = {"header", "transfer", "received"}
      /\ DOMAIN t = {"headerReceived", "expectedSize", "buffer"}
  <2>1. b \in Bytes
    BY <1>1 DEF Byte, Bytes
  <2>2. next \in Readers
    BY <2>1, ReadByteType
  <2> HIDE DEF next
  <2> QED BY <2>2 DEF Readers, Transfers
<1>3. CASE p + 1 < HeaderSize
  <2>1. field = Piece(m, 0, p + 1) /\ Len(field) = p + 1
    <3>1. st.header = Piece(m, 0, p) /\ p \in 0..(FrameSize(m) - 1)
      BY <1>1, <1>3 DEF HasRead
    <3>2. (p + 1) - 0 = p + 1
      BY <1>1
    <3> QED BY <3>1, <3>2, PieceGrows, ZenonT(60)
  <2>2. ~t.headerReceived /\ t = NoTransfer
    BY <1>1, <1>3 DEF HasRead, NoTransfer
  <2>3. next = [st EXCEPT !.header = field]
    BY <1>1, <1>3, <2>1, <2>2 DEF ReadByte
  <2> HIDE DEF field
  <2>4. next.header = field /\ next.transfer = t /\ next.received = st.received
    BY <1>2, <2>3
  <2> HIDE DEF next
  <2>5. HasRead(next, m, p + 1) /\ p + 1 < FrameSize(m)
    BY <1>1, <1>3, <2>1, <2>2, <2>4 DEF HasRead
  <2> QED BY <2>4, <2>5 DEF next
<1>4. CASE p + 1 = HeaderSize
  <2>1. field = Piece(m, 0, HeaderSize) /\ Len(field) = HeaderSize /\ field[1] = Byte(m, 1)
    <3>1. st.header = Piece(m, 0, p) /\ p \in 0..(FrameSize(m) - 1) /\ 0 + 1 = 1
      BY <1>1, <1>4 DEF HasRead
    <3>2. (p + 1) - 0 = p + 1
      BY <1>1
    <3> QED BY <1>4, <3>1, <3>2, PieceGrows, ZenonT(60)
  <2>2. ~t.headerReceived /\ t = NoTransfer
    BY <1>1, <1>4 DEF HasRead, NoTransfer
  <2>3. SizeIn(field, anything) = Size[m]
    <3>1. field[1].model = m
      BY <2>1 DEF Byte
    <3> QED BY <2>1, <3>1, FramePieces DEF SizeIn
  <2>4. next = [st EXCEPT !.header = << >>, !.transfer.headerReceived = TRUE,
                          !.transfer.expectedSize = SizeIn(field, anything)]
    BY <1>1, <1>4, <2>1, <2>2 DEF ReadByte
  <2> HIDE DEF field
  <2>5. /\ next.header = << >> /\ next.received = st.received
        /\ next.transfer = [t EXCEPT !.headerReceived = TRUE, !.expectedSize = Size[m]]
    BY <1>2, <2>3, <2>4
  <2>6. next.transfer = [headerReceived |-> TRUE, expectedSize |-> Size[m], buffer |-> << >>]
    <3>1. /\ next.transfer.headerReceived = TRUE /\ next.transfer.expectedSize = Size[m]
          /\ next.transfer.buffer = << >>
      <4>1. t.buffer = << >>
        BY <2>2 DEF NoTransfer
      <4> QED BY <1>2, <2>5, <4>1
    <3> HIDE DEF next
    <3> QED BY <1>2, <3>1, TransferFields
  <2> HIDE DEF next
  <2>7. Piece(m, HeaderSize, HeaderSize) = << >>
    BY <1>1, PieceFacts
  <2>8. HasRead(next, m, p + 1) /\ p + 1 < FrameSize(m)
    <3>1. p + 1 < FrameSize(m) /\ ~(p + 1 < HeaderSize)
      BY <1>1, <1>4
    <3>2. Piece(m, HeaderSize, p + 1) = << >>
      BY <1>4, <2>7
    <3> QED BY <2>5, <2>6, <3>1, <3>2 DEF HasRead
  <2> QED BY <2>5, <2>8 DEF next
<1>5. CASE p >= HeaderSize
  <2>1. /\ st.header = << >>
        /\ t = [headerReceived |-> TRUE, expectedSize |-> Size[m],
                buffer |-> Piece(m, HeaderSize, p)]
    BY <1>1, <1>5 DEF HasRead
  <2>2. /\ bytes = Piece(m, HeaderSize, p + 1) /\ Len(bytes) = (p + 1) - HeaderSize
        /\ bytes[1] = Byte(m, HeaderSize + 1)
    <3>1. HeaderSize \in Nat /\ p \in HeaderSize..(FrameSize(m) - 1)
      BY <1>1, <1>5
    <3>2. /\ Append(Piece(m, HeaderSize, p), Byte(m, p + 1)) = Piece(m, HeaderSize, p + 1)
          /\ Len(Piece(m, HeaderSize, p + 1)) = (p + 1) - HeaderSize
          /\ Piece(m, HeaderSize, p + 1)[1] = Byte(m, HeaderSize + 1)
      BY <3>1, PieceGrows
    <3>3. t.buffer = Piece(m, HeaderSize, p)
      BY <2>1
    <3> QED BY <3>2, <3>3
  <2>3. CASE p + 1 < FrameSize(m)
    <3>1. Len(bytes) < Size[m] /\ t.headerReceived /\ t.expectedSize = Size[m]
      BY <1>1, <2>1, <2>2, <2>3
    <3>2. next = [st EXCEPT !.transfer.buffer = bytes]
      BY <3>1 DEF ReadByte
    <3> HIDE DEF bytes
    <3>3. /\ next.header = << >> /\ next.received = st.received
          /\ next.transfer = [t EXCEPT !.buffer = bytes]
      BY <1>2, <2>1, <3>2
    <3>4. next.transfer = [headerReceived |-> TRUE, expectedSize |-> Size[m], buffer |-> bytes]
      <4>1. /\ next.transfer.headerReceived = TRUE /\ next.transfer.expectedSize = Size[m]
            /\ next.transfer.buffer = bytes
        BY <1>2, <2>1, <3>3
      <4> HIDE DEF next
      <4> QED BY <1>2, <4>1, TransferFields
    <3> HIDE DEF next
    <3>5. HasRead(next, m, p + 1)
      BY <1>1, <1>5, <2>2, <3>3, <3>4 DEF HasRead
    <3> QED BY <2>3, <3>3, <3>5 DEF next
  <2>4. CASE p + 1 = FrameSize(m)
    <3>1. Len(bytes) = Size[m] /\ t.headerReceived /\ t.expectedSize = Size[m]
      BY <1>1, <2>1, <2>2, <2>4
    <3>2. bytes = FileBytes(m) /\ bytes[1].model = m
      BY <2>2, <2>4, FramePieces DEF Byte
    <3>3. FileOf(bytes) = m
      BY <3>2 DEF FileOf
    <3>4. next = Complete(st, bytes)
      BY <1>1, <3>1 DEF ReadByte
    <3> HIDE DEF bytes
    <3>5. /\ next.header = << >> /\ next.transfer = NoTransfer
          /\ next.received = st.received \o Saved(m)
      BY <1>2, <2>1, <3>3, <3>4 DEF Complete
    <3> HIDE DEF next
    <3> QED BY <2>4, <3>5 DEF next, Fresh
  <2> QED BY <1>1, <2>3, <2>4
<1> QED BY <1>1, <1>3, <1>4, <1>5

-----------------------------------------------------------------------------
(* The models whose last bytes are in a byte string. *)

EndsWith(ended, b) == IF IsLastByte(b) THEN Append(ended, b.model) ELSE ended

LEMMA Ending ==
    ASSUME NEW s \in Seq(Bytes)
    PROVE  \E e \in [0..Len(s) -> Seq(Models)] :
              /\ ModelsEndingIn(s) = e[Len(s)]
              /\ e[0] = << >>
              /\ \A i \in 1..Len(s) : e[i] = EndsWith(e[i - 1], s[i])
<1> DEFINE n == Len(s)
           step(i) == [x \in Seq(Models) |-> EndsWith(x, s[i])]
           next == [i \in 1..n |-> step(i)]
<1>1. n \in Nat /\ (\A i \in 1..n : s[i] \in Bytes) /\ << >> \in Seq(Models)
  OBVIOUS
<1>2. ASSUME NEW x \in Seq(Models), NEW b \in Bytes
      PROVE  EndsWith(x, b) \in Seq(Models)
  <2>1. b.model \in Models
    BY DEF Bytes
  <2> QED BY <2>1 DEF EndsWith
<1>3. next \in [1..n -> [Seq(Models) -> Seq(Models)]]
  <2>1. ASSUME NEW i \in 1..n
        PROVE  step(i) \in [Seq(Models) -> Seq(Models)]
    BY <1>1, <1>2
  <2> HIDE DEF step, n
  <2> QED BY <2>1
<1>4. PICK f \in [0..n -> Seq(Models)] : Iterates(f, n, << >>, next)
  <2> HIDE DEF next, n
  <2> QED BY <1>1, <1>3, IterationExists
<1> HIDE DEF n
<1>5. f = [i \in 0..n |-> IF i = 0 THEN << >>
                          ELSE IF IsLastByte(s[i]) THEN Append(f[i - 1], s[i].model)
                                                   ELSE f[i - 1]]
  <2>1. f[0] = << >>
    BY <1>4 DEF Iterates
  <2>2. ASSUME NEW i \in 0..n, i # 0
        PROVE  f[i] = EndsWith(f[i - 1], s[i])
    <3>1. i \in 1..n /\ i - 1 \in 0..n
      BY <1>1, <2>2
    <3>2. f[i] = next[i][f[i - 1]] /\ f[i - 1] \in Seq(Models)
      BY <1>4, <3>1 DEF Iterates
    <3>3. next[i] = step(i)
      BY <3>1
    <3> QED BY <3>2, <3>3
  <2>3. ASSUME NEW i \in 0..n
        PROVE  f[i] = IF i = 0 THEN << >>
                      ELSE IF IsLastByte(s[i]) THEN Append(f[i - 1], s[i].model)
                                               ELSE f[i - 1]
    BY <2>1, <2>2 DEF EndsWith
  <2> QED BY <2>3
<1>6. PICK g : /\ g = [i \in 0..n |-> IF i = 0 THEN << >>
                                      ELSE IF IsLastByte(s[i]) THEN Append(g[i - 1], s[i].model)
                                                               ELSE g[i - 1]]
               /\ ModelsEndingIn(s) = g[n]
  BY <1>5 DEF ModelsEndingIn, n
<1>7. /\ g[0] = << >>
      /\ \A i \in 1..n : g[i] = EndsWith(g[i - 1], s[i])
  <2>1. \A i \in 0..n : g[i] = IF i = 0 THEN << >>
                               ELSE IF IsLastByte(s[i]) THEN Append(g[i - 1], s[i].model)
                                                        ELSE g[i - 1]
    BY <1>6
  <2>2. 0 \in 0..n /\ \A i \in 1..n : i \in 0..n /\ i # 0
    BY <1>1
  <2> QED BY <2>1, <2>2 DEF EndsWith
<1>8. g \in [0..n -> Seq(Models)]
  <2> DEFINE S == {i \in Nat : i <= n => g[i] \in Seq(Models)}
  <2>1. 0 \in S
    BY <1>1, <1>7
  <2>2. ASSUME NEW i \in Nat, i \in S
        PROVE  i + 1 \in S
    <3> SUFFICES ASSUME i + 1 <= n
                 PROVE  g[i + 1] \in Seq(Models)
      OBVIOUS
    <3>1. g[i] \in Seq(Models) /\ i + 1 \in 1..n /\ (i + 1) - 1 = i
      BY <1>1, <2>2
    <3>2. g[i + 1] = EndsWith(g[i], s[i + 1])
      BY <1>7, <3>1
    <3> QED BY <1>1, <1>2, <3>1, <3>2
  <2>3. \A i \in Nat : i \in S
    <3> HIDE DEF S
    <3> QED BY <2>1, <2>2, SetInduction
  <2>4. \A i \in 0..n : g[i] \in Seq(Models)
    BY <1>1, <2>3
  <2>5. g = [i \in 0..n |-> g[i]]
    BY <1>6
  <2> QED BY <2>4, <2>5
<1> QED BY <1>6, <1>7, <1>8 DEF n

LEMMA EndingEmpty == ModelsEndingIn(<< >>) = << >>
<1>1. << >> \in Seq(Bytes) /\ Len(<< >>) = 0
  OBVIOUS
<1> QED BY <1>1, Ending

LEMMA EndingAppend ==
    ASSUME NEW s \in Seq(Bytes), NEW b \in Bytes
    PROVE  /\ ModelsEndingIn(s) \in Seq(Models)
           /\ ModelsEndingIn(Append(s, b)) = EndsWith(ModelsEndingIn(s), b)
<1> DEFINE t == Append(s, b)
           n == Len(s)
<1>1. /\ t \in Seq(Bytes) /\ n \in Nat /\ Len(t) = n + 1 /\ t[n + 1] = b
      /\ \A i \in 1..n : t[i] = s[i]
  OBVIOUS
<1>2. PICK e \in [0..Len(s) -> Seq(Models)] :
              /\ ModelsEndingIn(s) = e[Len(s)]
              /\ e[0] = << >>
              /\ \A i \in 1..Len(s) : e[i] = EndsWith(e[i - 1], s[i])
  BY Ending
<1> HIDE DEF t
<1>3. PICK f \in [0..Len(t) -> Seq(Models)] :
              /\ ModelsEndingIn(t) = f[Len(t)]
              /\ f[0] = << >>
              /\ \A i \in 1..Len(t) : f[i] = EndsWith(f[i - 1], t[i])
  BY <1>1, Ending
<1> HIDE DEF n
<1>4. e[n] = f[n]
  <2> DEFINE S == {i \in Nat : i <= n => e[i] = f[i]}
  <2>1. 0 \in S
    BY <1>2, <1>3
  <2>2. ASSUME NEW i \in Nat, i \in S
        PROVE  i + 1 \in S
    <3> SUFFICES ASSUME i + 1 <= n
                 PROVE  e[i + 1] = f[i + 1]
      OBVIOUS
    <3>1. e[i] = f[i] /\ i + 1 \in 1..n /\ i + 1 \in 1..(n + 1) /\ (i + 1) - 1 = i
      BY <1>1, <2>2
    <3>2. e[i + 1] = EndsWith(e[i], s[i + 1])
      BY <1>2, <3>1 DEF n
    <3>3. f[i + 1] = EndsWith(f[i], t[i + 1])
      BY <1>1, <1>3, <3>1
    <3> QED BY <1>1, <3>1, <3>2, <3>3
  <2>3. n \in S
    <3> HIDE DEF S
    <3> QED BY <1>1, <2>1, <2>2, SetInduction
  <2> QED BY <1>1, <2>3
<1>5. f[n + 1] = EndsWith(f[n], b)
  <2>1. n + 1 \in 1..(n + 1) /\ (n + 1) - 1 = n
    BY <1>1
  <2> QED BY <1>1, <1>3, <2>1
<1>6. ModelsEndingIn(s) \in Seq(Models)
  <2>1. n \in 0..n
    BY <1>1
  <2> QED BY <1>2, <2>1 DEF n
<1> QED BY <1>1, <1>2, <1>3, <1>4, <1>5, <1>6 DEF t, n

LEMMA TakeOneMore ==
    ASSUME NEW s \in Seq(Bytes), NEW i \in Nat, i + 1 \in 1..Len(s)
    PROVE  /\ SubSeq(s, 1, i) \in Seq(Bytes) /\ s[i + 1] \in Bytes
           /\ SubSeq(s, 1, i + 1) = Append(SubSeq(s, 1, i), s[i + 1])
<1> DEFINE a == SubSeq(s, 1, i)
           c == SubSeq(s, 1, i + 1)
           b == s[i + 1]
<1>1. /\ a \in Seq(Bytes) /\ Len(a) = i /\ \A k \in 1..i : a[k] = s[k]
      /\ c \in Seq(Bytes) /\ Len(c) = i + 1 /\ \A k \in 1..(i + 1) : c[k] = s[k]
      /\ b \in Bytes
  OBVIOUS
<1> HIDE DEF a, c
<1>2. /\ Append(a, b) \in Seq(Bytes) /\ Len(Append(a, b)) = i + 1
      /\ \A k \in 1..i : Append(a, b)[k] = a[k]
      /\ Append(a, b)[i + 1] = b
  BY <1>1
<1>3. ASSUME NEW k \in 1..(i + 1)
      PROVE  Append(a, b)[k] = c[k]
  <2>1. k \in 1..i \/ k = i + 1
    OBVIOUS
  <2> QED BY <1>1, <1>2, <2>1
<1> HIDE DEF b
<1>4. Append(a, b) = c
  BY <1>1, <1>2, <1>3, SameSeq
<1> QED BY <1>1, <1>4 DEF a, b, c

LEMMA EndingConcat ==
    ASSUME NEW s \in Seq(Bytes), NEW t \in Seq(Bytes)
    PROVE  /\ ModelsEndingIn(s) \in Seq(Models) /\ ModelsEndingIn(t) \in Seq(Models)
           /\ ModelsEndingIn(s \o t) = ModelsEndingIn(s) \o ModelsEndingIn(t)
<1> DEFINE u(j) == SubSeq(t, 1, j)
           S == {j \in Nat : j <= Len(t) =>
                    /\ ModelsEndingIn(u(j)) \in Seq(Models)
                    /\ ModelsEndingIn(s \o u(j)) = ModelsEndingIn(s) \o ModelsEndingIn(u(j))}
<1>1. ModelsEndingIn(s) \in Seq(Models)
  <2>1. PICK e \in [0..Len(s) -> Seq(Models)] : ModelsEndingIn(s) = e[Len(s)]
    BY Ending
  <2>2. Len(s) \in 0..Len(s)
    OBVIOUS
  <2> QED BY <2>1, <2>2
<1>2. 0 \in S
  <2>1. u(0) = << >> /\ s \o << >> = s
    OBVIOUS
  <2>2. ModelsEndingIn(s) \o << >> = ModelsEndingIn(s) /\ << >> \in Seq(Models)
    BY <1>1
  <2> HIDE DEF u
  <2> QED BY <2>1, <2>2, EndingEmpty
<1>3. ASSUME NEW j \in Nat, j \in S
      PROVE  j + 1 \in S
  <2> SUFFICES ASSUME j + 1 <= Len(t)
               PROVE  /\ ModelsEndingIn(u(j + 1)) \in Seq(Models)
                      /\ ModelsEndingIn(s \o u(j + 1))
                            = ModelsEndingIn(s) \o ModelsEndingIn(u(j + 1))
    OBVIOUS
  <2> DEFINE b == t[j + 1]
             x == ModelsEndingIn(s)
             y == ModelsEndingIn(u(j))
  <2>1. y \in Seq(Models) /\ ModelsEndingIn(s \o u(j)) = x \o y
    BY <1>3
  <2>2. u(j) \in Seq(Bytes) /\ b \in Bytes /\ u(j + 1) = Append(u(j), b)
    BY TakeOneMore
  <2> HIDE DEF u, b, S
  <2>3. s \o u(j) \in Seq(Bytes) /\ s \o u(j + 1) = Append(s \o u(j), b)
    <3>1. \A p, q \in Seq(Bytes) : p \o q \in Seq(Bytes) /\ p \o Append(q, b) = Append(p \o q, b)
      BY <2>2
    <3> QED BY <2>2, <3>1
  <2>4. ModelsEndingIn(u(j + 1)) = EndsWith(y, b)
    BY <2>2, EndingAppend
  <2>5. ModelsEndingIn(s \o u(j + 1)) = EndsWith(x \o y, b)
    BY <2>1, <2>2, <2>3, EndingAppend
  <2>6. b.model \in Models
    BY <2>2 DEF Bytes
  <2> HIDE DEF x, y
  <2>7. EndsWith(y, b) \in Seq(Models) /\ EndsWith(x \o y, b) = x \o EndsWith(y, b)
    <3>1. x \in Seq(Models)
      BY <1>1 DEF x
    <3>2. \A p, q \in Seq(Models) : /\ p \o q \in Seq(Models)
                                    /\ Append(q, b.model) \in Seq(Models)
                                    /\ p \o Append(q, b.model) = Append(p \o q, b.model)
      BY <2>6
    <3> QED BY <2>1, <3>1, <3>2 DEF EndsWith
  <2> QED BY <2>4, <2>5, <2>7 DEF x
<1>4. Len(t) \in S
  <2> HIDE DEF S
  <2>1. Len(t) \in Nat
    OBVIOUS
  <2> QED BY <1>2, <1>3, <2>1, SetInduction
<1>5. u(Len(t)) = t
  BY SubSeqFull
<1>6. /\ ModelsEndingIn(u(Len(t))) \in Seq(Models)
      /\ ModelsEndingIn(s \o u(Len(t))) = ModelsEndingIn(s) \o ModelsEndingIn(u(Len(t)))
  BY <1>4
<1> HIDE DEF u
<1> QED BY <1>1, <1>5, <1>6

LEMMA LastByte ==
    ASSUME NEW m \in Models, NEW i \in 1..FrameSize(m)
    PROVE  Byte(m, i) \in Bytes /\ Byte(m, i).model = m /\ Byte(m, i).at = i
           /\ (IsLastByte(Byte(m, i)) <=> i = FrameSize(m))
BY DEF Byte, Bytes, IsLastByte, FrameSize

\* A frame has one last byte.
LEMMA EndingFrame ==
    ASSUME NEW m \in Models
    PROVE  ModelsEndingIn(Frame(m)) = <<m>>
<1> DEFINE S == {p \in Nat : p < FrameSize(m) => ModelsEndingIn(Piece(m, 0, p)) = << >>}
<1>1. FrameSize(m) \in Nat \ {0}
  BY SizeFacts
<1>2. 0 \in S
  <2>1. Piece(m, 0, 0) = << >>
    BY <1>1, PieceFacts
  <2> QED BY <2>1, EndingEmpty
<1>3. ASSUME NEW p \in Nat, p < FrameSize(m), ModelsEndingIn(Piece(m, 0, p)) = << >>
      PROVE  ModelsEndingIn(Piece(m, 0, p + 1))
                = IF p + 1 = FrameSize(m) THEN <<m>> ELSE << >>
  <2>1. p \in 0..(FrameSize(m) - 1) /\ p + 1 \in 1..FrameSize(m)
    BY <1>1, <1>3
  <2>2. /\ Byte(m, p + 1) \in Bytes /\ Piece(m, 0, p) \in Seq(Bytes)
        /\ Append(Piece(m, 0, p), Byte(m, p + 1)) = Piece(m, 0, p + 1)
    BY <2>1, PieceGrows
  <2>3. ModelsEndingIn(Piece(m, 0, p + 1)) = EndsWith(<< >>, Byte(m, p + 1))
    BY <1>3, <2>2, EndingAppend
  <2>4. Append(<< >>, m) = <<m>>
    OBVIOUS
  <2> QED BY <2>1, <2>3, <2>4, LastByte DEF EndsWith
<1>4. ASSUME NEW p \in Nat, p \in S
      PROVE  p + 1 \in S
  BY <1>1, <1>3, <1>4
<1>5. FrameSize(m) - 1 \in S
  <2> HIDE DEF S
  <2> QED BY <1>1, <1>2, <1>4, SetInduction
<1>6. /\ ModelsEndingIn(Piece(m, 0, FrameSize(m) - 1)) = << >>
      /\ FrameSize(m) - 1 \in Nat /\ (FrameSize(m) - 1) + 1 = FrameSize(m)
  BY <1>1, <1>5
<1>7. ModelsEndingIn(Piece(m, 0, FrameSize(m))) = <<m>>
  <2>1. FrameSize(m) - 1 < FrameSize(m)
    BY <1>1
  <2>2. ModelsEndingIn(Piece(m, 0, (FrameSize(m) - 1) + 1)) = <<m>>
    BY <1>3, <1>6, <2>1
  <2> QED BY <1>6, <2>2
<1> QED BY <1>7, FramePieces

-----------------------------------------------------------------------------
(* Streams of whole frames, and a reader in step with them. *)

LEMMA FreshHasRead ==
    ASSUME NEW st, Fresh(st), NEW m \in Models
    PROVE  HasRead(st, m, 0)
<1>1. HeaderSize \in Nat \ {0} /\ 0 \in 0..FrameSize(m)
  BY SizeFacts
<1>2. Piece(m, 0, 0) = << >>
  BY <1>1, PieceFacts
<1> QED BY <1>1, <1>2 DEF Fresh, HasRead

LEMMA ByteIs ==
    ASSUME NEW b \in Bytes
    PROVE  /\ b.model \in Models /\ b.at \in 1..FrameSize(b.model)
           /\ b = Byte(b.model, b.at)
           /\ IsLastByte(b) <=> b.at = FrameSize(b.model)
BY DEF Bytes, Byte, IsLastByte, FrameSize

\* Saving models one after the other is saving them together.
LEMMA SavedEmpty ==
    ASSUME disk \in DiskStates
    PROVE  Pipe!Saved(<< >>) = << >>
<1>1. disk \in {"works", "full", "unwritable"}
  BY DiskAssumption
<1>2. [i \in 1..Len(<< >>) |-> "torn"] = << >>
  OBVIOUS
<1> QED BY <1>1, <1>2 DEF Pipe!Saved

LEMMA SavedAppend ==
    ASSUME disk \in DiskStates, NEW x \in Seq(Models), NEW m \in Models
    PROVE  /\ Pipe!Saved(x) \in Seq(Files) /\ Saved(m) \in Seq(Files)
           /\ Pipe!Saved(Append(x, m)) = Pipe!Saved(x) \o Saved(m)
<1> DEFINE torn(n) == [i \in 1..n |-> "torn"]
<1>1. disk \in {"works", "full", "unwritable"}
  BY DiskAssumption
<1>2. /\ Append(x, m) \in Seq(Models) /\ Len(Append(x, m)) = Len(x) + 1 /\ Len(x) \in Nat
      /\ Append(x, m) = x \o <<m>>
      /\ x \in Seq(Files) /\ m \in Files /\ "torn" \in Files
  BY DEF Files
<1>3. Saved(m) \in Seq(Files)
  BY <1>2, SavedType
<1>4. CASE disk = "works"
  BY <1>2, <1>3, <1>4 DEF Saved, Pipe!Saved
<1>5. CASE disk = "full"
  <2>1. /\ torn(Len(x)) \in Seq(Files) /\ Len(torn(Len(x))) = Len(x)
        /\ torn(Len(x) + 1) \in Seq(Files) /\ Len(torn(Len(x) + 1)) = Len(x) + 1
        /\ \A i \in 1..Len(x) : torn(Len(x))[i] = "torn"
        /\ \A i \in 1..(Len(x) + 1) : torn(Len(x) + 1)[i] = "torn"
    BY <1>2
  <2> HIDE DEF torn
  <2>2. /\ torn(Len(x)) \o <<"torn">> \in Seq(Files)
        /\ Len(torn(Len(x)) \o <<"torn">>) = Len(x) + 1
        /\ \A i \in 1..(Len(x) + 1) : (torn(Len(x)) \o <<"torn">>)[i] = "torn"
    BY <1>2, <2>1
  <2>3. torn(Len(x) + 1) = torn(Len(x)) \o <<"torn">>
    BY <1>2, <2>1, <2>2, SameSeq
  <2>4. Pipe!Saved(x) = torn(Len(x)) /\ Pipe!Saved(Append(x, m)) = torn(Len(x) + 1)
    BY <1>2, <1>5 DEF Pipe!Saved, torn
  <2>5. Saved(m) = <<"torn">>
    BY <1>5 DEF Saved
  <2> QED BY <1>3, <2>1, <2>3, <2>4, <2>5
<1>6. CASE disk = "unwritable"
  <2>1. Pipe!Saved(x) = << >> /\ Pipe!Saved(Append(x, m)) = << >> /\ Saved(m) = << >>
    BY <1>6 DEF Saved, Pipe!Saved
  <2> QED BY <2>1
<1> QED BY <1>1, <1>4, <1>5, <1>6

LEMMA ReadsInStep ==
    ASSUME stream \in Seq(Bytes), reader \in Readers, Ordered(stream),
           InStep(reader, stream, 0), disk \in DiskStates,
           NEW n \in 1..Len(stream), NEW anything \in Int
    PROVE  LET st == AfterBytes(n, anything)
           IN  /\ st \in Readers
               /\ InStep(st, stream, n)
               /\ st.received = received \o Pipe!Saved(ModelsEndingIn(SubSeq(stream, 1, n)))
<1> DEFINE s == stream
           taken(i) == ModelsEndingIn(SubSeq(s, 1, i))
           kept(i) == Pipe!Saved(taken(i))
<1>1. n \in Nat /\ Len(s) \in Nat /\ n <= Len(s)
  OBVIOUS
<1>2. PICK g \in [0..n -> Readers] :
              /\ AfterBytes(n, anything) = g[n]
              /\ g[0] = reader
              /\ \A i \in 1..n : g[i] = ReadByte(g[i - 1], s[i], anything)
  BY Reads
<1> DEFINE S == {i \in Nat : i <= n => /\ InStep(g[i], s, i)
                                       /\ g[i].received = received \o kept(i)}
<1>3. 0 \in S
  <2>1. SubSeq(s, 1, 0) = << >> /\ received \o << >> = received
    <3>1. received \in Seq(Files)
      BY DEF reader, Readers
    <3> QED BY <3>1
  <2>2. reader.received = received
    BY DEF reader
  <2>3. kept(0) = << >>
    BY <2>1, EndingEmpty, SavedEmpty
  <2> QED BY <1>2, <2>1, <2>2, <2>3
<1>4. ASSUME NEW i \in Nat, i \in S
      PROVE  i + 1 \in S
  <2> SUFFICES ASSUME i + 1 <= n
               PROVE  /\ InStep(g[i + 1], s, i + 1)
                      /\ g[i + 1].received = received \o kept(i + 1)
    OBVIOUS
  <2> DEFINE b == s[i + 1]
             m == b.model
             p == b.at - 1
             old == g[i]
             new == g[i + 1]
             c == s[(i + 1) + 1]
  <2>1. /\ InStep(old, s, i) /\ old.received = received \o kept(i)
        /\ i < Len(s) /\ i + 1 \in 1..n /\ i + 1 \in 1..Len(s) /\ (i + 1) - 1 = i
        /\ old \in Readers
    BY <1>1, <1>2, <1>4
  <2>2. b \in Bytes /\ new = ReadByte(old, b, anything)
    BY <1>2, <2>1
  <2>3. HasRead(old, m, p)
    BY <2>1 DEF InStep
  <2>4. i + 1 < Len(s) => c \in Bytes /\ Follows(b, c)
    <3>1. i + 1 < Len(s) => (i + 1) + 1 \in 1..Len(s) /\ i + 1 \in 1..(Len(s) - 1)
      BY <1>1, <2>1
    <3> QED BY <3>1 DEF Ordered
  <2>5. ~(i + 1 < Len(s)) => IsLastByte(b)
    <3>1. ~(i + 1 < Len(s)) => i + 1 = Len(s) /\ s # << >>
      BY <1>1, <2>1
    <3> QED BY <3>1 DEF Ordered
  <2>6. /\ SubSeq(s, 1, i) \in Seq(Bytes)
        /\ SubSeq(s, 1, i + 1) = Append(SubSeq(s, 1, i), b)
    BY <2>1, TakeOneMore
  <2>7. taken(i) \in Seq(Models) /\ taken(i + 1) = EndsWith(taken(i), b)
    BY <2>2, <2>6, EndingAppend
  <2> HIDE DEF s, taken, kept, b, old, new, c, S
  <2>8. /\ m \in Models /\ b.at \in 1..FrameSize(m) /\ b = Byte(m, b.at)
        /\ IsLastByte(b) <=> b.at = FrameSize(m)
    BY <2>2, ByteIs
  <2>9. p \in 0..(FrameSize(m) - 1) /\ p + 1 = b.at
    BY <2>8, SizeFacts
  <2>10. IF p + 1 < FrameSize(m)
         THEN HasRead(new, m, p + 1) /\ new.received = old.received
         ELSE Fresh(new) /\ new.received = old.received \o Saved(m)
    <3>1. b = Byte(m, p + 1)
      BY <2>8, <2>9
    <3> HIDE DEF m, p
    <3> QED BY <2>1, <2>2, <2>3, <2>8, <2>9, <3>1, ReadNext
  <2>11. CASE IsLastByte(b)
    <3>1. ~(p + 1 < FrameSize(m))
      BY <2>8, <2>9, <2>11, SizeFacts
    <3>2. Fresh(new) /\ new.received = old.received \o Saved(m)
      BY <2>10, <3>1
    <3>3. InStep(new, s, i + 1)
      <4>1. CASE i + 1 < Len(s)
        <5>1. c.at - 1 = 0 /\ c.model \in Models
          BY <2>4, <2>11, <4>1, ByteIs DEF Follows
        <5>2. HasRead(new, c.model, c.at - 1)
          BY <3>2, <5>1, FreshHasRead
        <5> QED BY <4>1, <5>2 DEF InStep, c
      <4>2. CASE ~(i + 1 < Len(s))
        BY <3>2, <4>2 DEF InStep
      <4> QED BY <4>1, <4>2
    <3>4. new.received = received \o kept(i + 1)
      <4>1. taken(i + 1) = Append(taken(i), m)
        BY <2>7, <2>11 DEF EndsWith, m
      <4>2. /\ kept(i) \in Seq(Files) /\ Saved(m) \in Seq(Files)
            /\ kept(i + 1) = kept(i) \o Saved(m)
        BY <2>7, <2>8, <4>1, SavedAppend DEF kept
      <4>3. received \in Seq(Files)
        BY DEF reader, Readers
      <4>4. (received \o kept(i)) \o Saved(m) = received \o (kept(i) \o Saved(m))
        <5>1. \A x, y, z \in Seq(Files) : (x \o y) \o z = x \o (y \o z)
          OBVIOUS
        <5> HIDE DEF m
        <5> QED BY <4>2, <4>3, <5>1
      <4>5. new.received = (received \o kept(i)) \o Saved(m)
        BY <2>1, <3>2
      <4> QED BY <4>2, <4>4, <4>5
    <3> QED BY <3>3, <3>4 DEF new, s, taken, kept
  <2>12. CASE ~IsLastByte(b)
    <3>1. p + 1 < FrameSize(m)
      BY <2>8, <2>9, <2>12, SizeFacts
    <3>2. HasRead(new, m, p + 1) /\ new.received = old.received
      BY <2>10, <3>1
    <3>3. InStep(new, s, i + 1)
      <4>1. i + 1 < Len(s)
        BY <2>5, <2>12
      <4>2. c = Byte(m, b.at + 1)
        BY <2>4, <2>12, <4>1 DEF Follows
      <4>3. c.model = m /\ c.at - 1 = p + 1
        <5>1. c.model = m /\ c.at = b.at + 1
          BY <4>2 DEF Byte
        <5> QED BY <2>8, <2>9, <5>1
      <4> QED BY <3>2, <4>1, <4>3 DEF InStep, c
    <3>4. new.received = received \o kept(i + 1)
      BY <2>1, <2>7, <2>12, <3>2 DEF EndsWith, kept
    <3> QED BY <3>3, <3>4 DEF new, s, taken, kept
  <2> QED BY <2>11, <2>12
<1>5. n \in S
  <2> HIDE DEF S
  <2> QED BY <1>1, <1>3, <1>4, SetInduction
<1>6. InStep(g[n], s, n) /\ g[n].received = received \o kept(n) /\ g[n] \in Readers
  BY <1>1, <1>2, <1>5
<1> QED BY <1>2, <1>6

LEMMA RestFacts ==
    ASSUME NEW s \in Seq(Bytes), NEW n \in 1..Len(s)
    PROVE  LET r == SubSeq(s, n + 1, Len(s))
           IN  /\ r \in Seq(Bytes) /\ Len(r) = Len(s) - n
               /\ \A i \in 1..Len(r) : r[i] = s[n + i]
OBVIOUS

LEMMA RestOrdered ==
    ASSUME NEW s \in Seq(Bytes), NEW n \in 1..Len(s), Ordered(s)
    PROVE  Ordered(SubSeq(s, n + 1, Len(s)))
<1> DEFINE r == SubSeq(s, n + 1, Len(s))
<1>1. /\ r \in Seq(Bytes) /\ Len(r) = Len(s) - n /\ Len(s) \in Nat
      /\ \A i \in 1..Len(r) : r[i] = s[n + i]
  BY RestFacts
<1> HIDE DEF r
<1>2. ASSUME NEW i \in 1..(Len(r) - 1)
      PROVE  Follows(r[i], r[i + 1])
  <2>1. /\ i \in 1..Len(r) /\ i + 1 \in 1..Len(r) /\ n + i \in 1..(Len(s) - 1)
        /\ n + (i + 1) = (n + i) + 1
    BY <1>1
  <2> QED BY <1>1, <2>1 DEF Ordered
<1>3. ASSUME r # << >>
      PROVE  IsLastByte(r[Len(r)])
  <2>1. Len(r) \in 1..Len(r) /\ n + Len(r) = Len(s) /\ s # << >>
    BY <1>1, <1>3
  <2> QED BY <1>1, <2>1 DEF Ordered
<1> QED BY <1>2, <1>3 DEF Ordered, r

LEMMA RestInStep ==
    ASSUME NEW s \in Seq(Bytes), NEW n \in 1..Len(s), NEW st, InStep(st, s, n)
    PROVE  InStep(st, SubSeq(s, n + 1, Len(s)), 0)
<1> DEFINE r == SubSeq(s, n + 1, Len(s))
<1>1. /\ r \in Seq(Bytes) /\ Len(r) = Len(s) - n /\ Len(s) \in Nat
      /\ \A i \in 1..Len(r) : r[i] = s[n + i]
  BY RestFacts
<1> HIDE DEF r
<1>2. CASE n < Len(s)
  <2>1. 0 < Len(r) /\ 0 + 1 \in 1..Len(r) /\ n + (0 + 1) = n + 1
    BY <1>1, <1>2
  <2>2. r[0 + 1] = s[n + 1]
    BY <1>1, <2>1
  <2> QED BY <1>2, <2>1, <2>2 DEF InStep, r
<1>3. CASE ~(n < Len(s))
  <2>1. ~(0 < Len(r))
    BY <1>1, <1>3
  <2> QED BY <1>3, <2>1 DEF InStep, r
<1> QED BY <1>2, <1>3

LEMMA FrameFacts ==
    ASSUME NEW m \in Models
    PROVE  /\ Frame(m) \in Seq(Bytes) /\ Len(Frame(m)) = FrameSize(m)
           /\ FrameSize(m) \in Nat \ {0}
           /\ \A i \in 1..FrameSize(m) : Frame(m)[i] = Byte(m, i)
<1>1. FrameSize(m) \in Nat \ {0} /\ FrameSize(m) \in 0..FrameSize(m)
      /\ FrameSize(m) - 0 = FrameSize(m)
  BY SizeFacts
<1>2. /\ Piece(m, 0, FrameSize(m)) \in Seq(Bytes)
      /\ Len(Piece(m, 0, FrameSize(m))) = FrameSize(m)
      /\ \A i \in 1..FrameSize(m) : Piece(m, 0, FrameSize(m))[i] = Byte(m, 0 + i)
  <2>1. /\ Piece(m, 0, FrameSize(m)) \in Seq(Bytes)
        /\ Len(Piece(m, 0, FrameSize(m))) = FrameSize(m) - 0
        /\ \A i \in 1..(FrameSize(m) - 0) : Piece(m, 0, FrameSize(m))[i] = Byte(m, 0 + i)
    BY <1>1, PieceFacts
  <2> QED BY <1>1, <2>1
<1>3. \A i \in 1..FrameSize(m) : 0 + i = i
  BY <1>1
<1> QED BY <1>1, <1>2, <1>3, FramePieces

LEMMA MoreOrdered ==
    ASSUME NEW s \in Seq(Bytes), Ordered(s), NEW m \in Models
    PROVE  Ordered(s \o Frame(m))
<1> DEFINE F == Frame(m)
           k == FrameSize(m)
           n == Len(s)
           u == s \o F
<1>1. /\ F \in Seq(Bytes) /\ Len(F) = k /\ k \in Nat \ {0}
      /\ \A i \in 1..k : F[i] = Byte(m, i)
  BY FrameFacts
<1> HIDE DEF F, k
<1>2. /\ n \in Nat /\ Len(u) = n + k /\ (\A i \in 1..n : u[i] = s[i])
      /\ \A i \in (n + 1)..(n + k) : u[i] = F[i - n]
  BY <1>1
<1> HIDE DEF n, u
<1>3. ASSUME NEW i \in 1..(Len(u) - 1)
      PROVE  Follows(u[i], u[i + 1])
  <2>1. CASE i < n
    <3>1. i \in 1..n /\ i + 1 \in 1..n /\ i \in 1..(n - 1)
      BY <1>1, <1>2, <2>1
    <3> QED BY <1>2, <3>1 DEF Ordered, n
  <2>2. CASE i = n
    <3>1. i \in 1..n /\ i + 1 \in (n + 1)..(n + k) /\ (i + 1) - n = 1 /\ 1 \in 1..k
      BY <1>1, <1>2, <2>2
    <3>2. u[i] = s[n] /\ u[i + 1] = Byte(m, 1)
      BY <1>1, <1>2, <2>2, <3>1
    <3>3. IsLastByte(s[n])
      <4>1. s # << >>
        BY <2>2, <3>1 DEF n
      <4> QED BY <4>1 DEF Ordered, n
    <3> QED BY <3>2, <3>3 DEF Follows, Byte
  <2>3. CASE i > n
    <3>1. /\ i \in (n + 1)..(n + k) /\ i + 1 \in (n + 1)..(n + k)
          /\ i - n \in 1..k /\ (i + 1) - n = (i - n) + 1 /\ (i - n) + 1 \in 1..k
      BY <1>1, <1>2, <2>3
    <3>2. u[i] = Byte(m, i - n) /\ u[i + 1] = Byte(m, (i - n) + 1)
      BY <1>1, <1>2, <3>1
    <3>3. ~IsLastByte(Byte(m, i - n)) /\ Byte(m, i - n).model = m /\ Byte(m, i - n).at = i - n
      BY <1>1, <3>1, LastByte DEF k
    <3> QED BY <3>2, <3>3 DEF Follows
  <2> QED BY <1>1, <1>2, <2>1, <2>2, <2>3
<1>4. IsLastByte(u[Len(u)])
  <2>1. Len(u) \in (n + 1)..(n + k) /\ Len(u) - n = k /\ k \in 1..k
    BY <1>1, <1>2
  <2>2. u[Len(u)] = Byte(m, k)
    BY <1>1, <1>2, <2>1
  <2> QED BY <2>1, <2>2, LastByte DEF k
<1> QED BY <1>3, <1>4 DEF Ordered, u, F

LEMMA MoreInStep ==
    ASSUME NEW s \in Seq(Bytes), NEW m \in Models, NEW st, InStep(st, s, 0)
    PROVE  InStep(st, s \o Frame(m), 0)
<1>1. /\ Frame(m) \in Seq(Bytes) /\ Len(Frame(m)) \in Nat \ {0}
      /\ Frame(m)[1] = Byte(m, 1)
  BY FrameFacts
<1>2. 0 < Len(s \o Frame(m)) /\ 0 + 1 = 1
      /\ (s \o Frame(m))[1] = IF 0 < Len(s) THEN s[1] ELSE Frame(m)[1]
  BY <1>1
<1>3. CASE 0 < Len(s)
  BY <1>2, <1>3 DEF InStep
<1>4. CASE ~(0 < Len(s))
  <2>1. HasRead(st, m, 0)
    BY <1>4, FreshHasRead DEF InStep
  <2>2. Byte(m, 1).model = m /\ Byte(m, 1).at - 1 = 0
    BY DEF Byte
  <2> QED BY <1>1, <1>2, <1>4, <2>1, <2>2 DEF InStep
<1> QED BY <1>3, <1>4

-----------------------------------------------------------------------------
(* What each action keeps. *)

LEMMA ReaderFields ==
    /\ reader \in Readers <=> /\ header \in Seq(Bytes) /\ transfer \in Transfers
                              /\ received \in Seq(Files)
    /\ reader.header = header /\ reader.transfer = transfer /\ reader.received = received
BY DEF reader, Readers

LEMMA InitTyped ==
    ASSUME Init
    PROVE  Typed
<1>1. NoTransfer \in Transfers
  <2>1. << >> \in Seq(Bytes)
    OBVIOUS
  <2> QED BY <2>1 DEF NoTransfer, Transfers
<1>2. << >> \in Seq(Bytes) /\ << >> \in Seq(Files)
  OBVIOUS
<1>3. reader \in Readers
  BY <1>1, <1>2, ReaderFields DEF Init
<1> QED BY <1>2, <1>3, BoundsAssumption, DiskAssumption DEF Init, Typed

LEMMA SendTyped ==
    ASSUME Typed, NEW m \in Models, SendModel(m)
    PROVE  Typed'
<1>1. stream' \in Seq(Bytes)
  <2>1. stream \o Frame(m) \in Seq(Bytes)
    BY FrameFacts DEF Typed
  <2> QED BY <2>1 DEF SendModel, Typed
<1>2. reader' = reader
  BY DEF SendModel, reader
<1> QED BY <1>1, <1>2, BoundsAssumption DEF SendModel, Typed

\* After a read the reader is what handleModelData left.
LEMMA ReadTyped ==
    ASSUME Typed, NEW n \in 1..Len(stream), EdgeReads(n)
    PROVE  /\ Typed'
           /\ \E anything \in Int : reader' = AfterBytes(n, anything)
<1>1. PICK anything \in Garbage :
          LET st == AfterBytes(n, anything)
          IN  /\ header' = st.header
              /\ transfer' = st.transfer
              /\ received' = st.received
  BY DEF EdgeReads
<1> DEFINE st == AfterBytes(n, anything)
<1>2. anything \in Int
  BY SizesAssumption
<1>3. st \in Readers
  <2>1. PICK g \in [0..n -> Readers] : AfterBytes(n, anything) = g[n]
    BY <1>2, Reads DEF Typed
  <2>2. n \in 0..n
    OBVIOUS
  <2> QED BY <2>1, <2>2
<1>4. header' = st.header /\ transfer' = st.transfer /\ received' = st.received
  BY <1>1
<1> HIDE DEF st
<1>5. reader' = st
  <2>1. st = [header |-> st.header, transfer |-> st.transfer, received |-> st.received]
    BY <1>3 DEF Readers
  <2> QED BY <1>4, <2>1 DEF reader
<1>6. stream' \in Seq(Bytes)
  <2>1. stream' = SubSeq(stream, n + 1, Len(stream))
    BY DEF EdgeReads
  <2> QED BY <2>1, RestFacts DEF Typed
<1>7. link' = link /\ disk' = disk /\ sends' = sends /\ drops' = drops
  BY DEF EdgeReads
<1> QED BY <1>2, <1>3, <1>5, <1>6, <1>7 DEF Typed, st

LEMMA LostTyped ==
    ASSUME Typed, NEW closedByCenter \in BOOLEAN, ConnectionLost(closedByCenter)
    PROVE  Typed'
<1>1. << >> \in Seq(Bytes)
  OBVIOUS
<1>2. reader' \in Readers
  BY <1>1, ReaderFields DEF ConnectionLost, Typed, reader, Readers
<1> QED BY <1>1, <1>2, BoundsAssumption DEF ConnectionLost, Typed

LEMMA RetryTyped ==
    ASSUME Typed, NEW accepted \in BOOLEAN, Reconnect(accepted)
    PROVE  Typed'
<1>1. reader' = reader
  BY DEF Reconnect, reader
<1> QED BY <1>1 DEF Reconnect, Typed

LEMMA DiskTyped ==
    ASSUME Typed, NEW state \in DiskStates, DiskChanges(state)
    PROVE  Typed'
<1>1. reader' = reader
  BY DEF DiskChanges, reader
<1> QED BY <1>1 DEF DiskChanges, Typed

LEMMA NextTyped ==
    ASSUME Typed, [Next]_vars
    PROVE  Typed'
<1>1. CASE UNCHANGED vars
  BY <1>1 DEF vars, Typed, reader
<1>2. CASE Next
  BY <1>2, SendTyped, ReadTyped, LostTyped, RetryTyped, DiskTyped DEF Next
<1> QED BY <1>1, <1>2

LEMMA TypedIsTypeOK ==
    ASSUME Typed
    PROVE  TypeOK
<1> DEFINE all == stream \o header \o transfer.buffer
<1>1. /\ header \in Seq(Bytes) /\ transfer \in Transfers /\ received \in Seq(Files)
      /\ stream \in Seq(Bytes)
  BY ReaderFields DEF Typed
<1>2. /\ transfer.headerReceived \in BOOLEAN /\ transfer.expectedSize \in Int
      /\ transfer.buffer \in Seq(Bytes)
      /\ ~transfer.headerReceived => transfer.buffer = << >>
  BY <1>1 DEF Transfers
<1>3. all \in Seq(Bytes)
  BY <1>1, <1>2
<1> HIDE DEF all
<1>4. ASSUME NEW b \in ToSet(all)
      PROVE  b.model \in Models /\ b.at \in 1..Len(Frame(b.model))
  <2>1. b \in Bytes
    BY <1>3, <1>4 DEF ToSet
  <2> QED BY <2>1, ByteIs, FrameFacts
<1>5. ToSet(received) \subseteq Models \cup {"torn"}
  BY <1>1 DEF ToSet, Files
<1> QED BY <1>2, <1>4, <1>5 DEF Typed, TypeOK, all

LEMMA InitWhole ==
    ASSUME Init
    PROVE  WholeModels
<1>1. Ordered(<< >>)
  BY DEF Ordered
<1>2. Fresh(reader)
  BY ReaderFields DEF Init, Fresh
<1>3. InStep(reader, << >>, 0)
  BY <1>2 DEF InStep
<1> QED BY <1>1, <1>3 DEF Init, WholeModels

\* What a step does to the models on the wire and to those received.
WireStep ==
    \/ OnTheWire' = OnTheWire /\ received' = received
    \/ \E m \in Models : OnTheWire' = Append(OnTheWire, m) /\ received' = received
    \/ OnTheWire # << >> /\ OnTheWire' = << >> /\ received' = received
    \/ \E n \in 1..Len(OnTheWire) :
          /\ received' = received \o Pipe!Saved(SubSeq(OnTheWire, 1, n))
          /\ OnTheWire' = SubSeq(OnTheWire, n + 1, Len(OnTheWire))

PipeStep ==
    \/ WireStep /\ disk' = disk
    \/ OnTheWire' = OnTheWire /\ received' = received /\ disk' \in DiskStates

LEMMA SendWhole ==
    ASSUME Typed, WholeModels, NEW m \in Models, SendModel(m)
    PROVE  WholeModels' /\ WireStep
<1>1. reader' = reader /\ received' = received
  BY DEF SendModel, reader
<1>2. CASE link = "up"
  <2>1. stream' = stream \o Frame(m)
    BY <1>2 DEF SendModel
  <2>2. Ordered(stream') /\ InStep(reader', stream', 0)
    BY <1>1, <2>1, MoreOrdered, MoreInStep DEF Typed, WholeModels
  <2>3. OnTheWire' = Append(OnTheWire, m)
    <3>1. /\ ModelsEndingIn(stream) \in Seq(Models)
          /\ ModelsEndingIn(stream \o Frame(m)) = ModelsEndingIn(stream) \o <<m>>
      BY FrameFacts, EndingConcat, EndingFrame DEF Typed
    <3>2. \A x \in Seq(Models) : x \o <<m>> = Append(x, m)
      OBVIOUS
    <3> QED BY <2>1, <3>1, <3>2 DEF OnTheWire
  <2> QED BY <1>1, <2>2, <2>3 DEF WholeModels, WireStep
<1>3. CASE link # "up"
  <2>1. stream' = stream
    BY <1>3 DEF SendModel
  <2> QED BY <1>1, <2>1 DEF WholeModels, WireStep, OnTheWire
<1> QED BY <1>2, <1>3

LEMMA ReadWhole ==
    ASSUME Typed, WholeModels, NEW n \in 1..Len(stream), EdgeReads(n)
    PROVE  WholeModels' /\ WireStep
<1> DEFINE front == SubSeq(stream, 1, n)
           rest == SubSeq(stream, n + 1, Len(stream))
           got == ModelsEndingIn(front)
           left == ModelsEndingIn(rest)
<1>1. PICK anything \in Int : reader' = AfterBytes(n, anything)
  BY ReadTyped
<1>2. stream' = rest
  BY DEF EdgeReads
<1>3. /\ InStep(reader', stream, n)
      /\ reader'.received = received \o Pipe!Saved(ModelsEndingIn(SubSeq(stream, 1, n)))
  BY <1>1, ReadsInStep DEF Typed, WholeModels
<1>4. received' = received \o Pipe!Saved(got)
  <2>1. reader'.received = received'
    BY DEF reader
  <2> QED BY <1>3, <2>1
<1>5. front \in Seq(Bytes) /\ rest \in Seq(Bytes) /\ front \o rest = stream
  BY DEF Typed
<1>6. Ordered(rest) /\ InStep(reader', rest, 0)
  BY <1>3, RestOrdered, RestInStep DEF Typed, WholeModels
<1> HIDE DEF front, rest
<1>7. got \in Seq(Models) /\ left \in Seq(Models) /\ ModelsEndingIn(stream) = got \o left
  BY <1>5, EndingConcat
<1> HIDE DEF got, left
<1>8. WholeModels'
  BY <1>2, <1>6 DEF WholeModels
<1>9. OnTheWire = got \o left /\ OnTheWire' = left
  BY <1>2, <1>7 DEF OnTheWire, left
<1>10. WireStep
  <2>1. CASE got = << >>
    <3>1. \A x \in Seq(Models) : << >> \o x = x
      OBVIOUS
    <3>2. OnTheWire' = OnTheWire
      BY <1>7, <1>9, <2>1, <3>1
    <3>3. Pipe!Saved(got) = << >>
      BY <2>1, SavedEmpty DEF Typed
    <3>4. received \in Seq(Files) /\ \A x \in Seq(Files) : x \o << >> = x
      BY ReaderFields DEF Typed
    <3>5. received' = received
      BY <1>4, <3>3, <3>4
    <3> QED BY <3>2, <3>5 DEF WireStep
  <2>2. CASE got # << >>
    <3>1. Len(got) \in 1..Len(got \o left)
      <4>1. Len(got) \in Nat /\ Len(left) \in Nat /\ Len(got \o left) = Len(got) + Len(left)
        BY <1>7
      <4>2. Len(got) # 0
        BY <1>7, <2>2
      <4> QED BY <4>1, <4>2
    <3>2. /\ SubSeq(got \o left, 1, Len(got)) = got
          /\ SubSeq(got \o left, Len(got) + 1, Len(got \o left)) = left
      BY <1>7
    <3> QED BY <1>4, <1>9, <3>1, <3>2 DEF WireStep
  <2> QED BY <2>1, <2>2
<1> QED BY <1>8, <1>10

LEMMA LostWhole ==
    ASSUME Typed, WholeModels, ~TornModels,
           NEW closedByCenter \in BOOLEAN, ConnectionLost(closedByCenter)
    PROVE  WholeModels' /\ WireStep
<1>1. stream' = << >> /\ header' = << >> /\ transfer' = transfer /\ received' = received
      /\ ~transfer.headerReceived
  BY DEF ConnectionLost
<1>2. transfer = NoTransfer
  BY <1>1, ReaderFields DEF WholeModels, InStep, HasRead, Fresh
<1>3. Fresh(reader')
  BY <1>1, <1>2 DEF Fresh, reader
<1>4. Ordered(<< >>) /\ InStep(reader', << >>, 0)
  BY <1>3 DEF Ordered, InStep
<1>5. OnTheWire' = << >>
  BY <1>1, EndingEmpty DEF OnTheWire
<1> QED BY <1>1, <1>4, <1>5 DEF WholeModels, WireStep

LEMMA RetryWhole ==
    ASSUME WholeModels, NEW accepted \in BOOLEAN, Reconnect(accepted)
    PROVE  WholeModels' /\ WireStep
BY DEF Reconnect, WholeModels, WireStep, OnTheWire, reader

LEMMA DiskWhole ==
    ASSUME WholeModels, NEW state \in DiskStates, DiskChanges(state)
    PROVE  WholeModels' /\ PipeStep
BY DEF DiskChanges, WholeModels, PipeStep, OnTheWire, reader

LEMMA NextWhole ==
    ASSUME Typed, WholeModels, ~TornModels, [Next]_vars
    PROVE  WholeModels' /\ PipeStep
<1>1. CASE UNCHANGED vars
  BY <1>1 DEF vars, WholeModels, PipeStep, WireStep, OnTheWire, reader
<1>2. ASSUME NEW m \in Models, SendModel(m)
      PROVE  WholeModels' /\ PipeStep
  BY <1>2, SendWhole DEF SendModel, PipeStep
<1>3. ASSUME NEW n \in 1..Len(stream), EdgeReads(n)
      PROVE  WholeModels' /\ PipeStep
  BY <1>3, ReadWhole DEF EdgeReads, PipeStep
<1>4. ASSUME NEW closedByCenter \in BOOLEAN, ConnectionLost(closedByCenter)
      PROVE  WholeModels' /\ PipeStep
  BY <1>4, LostWhole DEF ConnectionLost, PipeStep
<1>5. ASSUME NEW accepted \in BOOLEAN, Reconnect(accepted)
      PROVE  WholeModels' /\ PipeStep
  BY <1>5, RetryWhole DEF Reconnect, PipeStep
<1>6. CASE Next
  BY <1>2, <1>3, <1>4, <1>5, <1>6, DiskWhole DEF Next
<1> QED BY <1>1, <1>6

\* A disk that never fills up keeps every file that is received whole.
LEMMA OnlyWholeFiles ==
    ASSUME Typed, PipeStep, "full" \notin DiskStates, received \in Seq(Models)
    PROVE  (received \in Seq(Models))'
<1>1. OnTheWire \in Seq(Models)
  <2>1. Len(stream) \in 0..Len(stream)
    BY DEF Typed
  <2> QED BY <2>1, Ending DEF Typed, OnTheWire
<1>2. ASSUME NEW n \in 1..Len(OnTheWire)
      PROVE  received \o Pipe!Saved(SubSeq(OnTheWire, 1, n)) \in Seq(Models)
  <2>1. SubSeq(OnTheWire, 1, n) \in Seq(Models)
    BY <1>1
  <2>2. disk \in {"works", "unwritable"}
    BY DiskAssumption DEF Typed
  <2>3. Pipe!Saved(SubSeq(OnTheWire, 1, n)) \in {SubSeq(OnTheWire, 1, n), << >>}
    BY <2>2 DEF Pipe!Saved
  <2>4. << >> \in Seq(Models) /\ \A x, y \in Seq(Models) : x \o y \in Seq(Models)
    OBVIOUS
  <2>5. Pipe!Saved(SubSeq(OnTheWire, 1, n)) \in Seq(Models)
    BY <2>1, <2>3, <2>4
  <2> QED BY <2>4, <2>5
<1> QED BY <1>2 DEF PipeStep, WireStep

-----------------------------------------------------------------------------
(* The theorems. *)

\* Whatever is lost or misread, the socket, m_transfer and the list of files
\* keep their types, and no byte is buffered before its size is known.
THEOREM DownlinkTyped == Spec => []TypeOK
<1>1. Init => Typed
  BY InitTyped
<1>2. Typed /\ [Next]_vars => Typed'
  BY NextTyped
<1>3. Typed => TypeOK
  BY TypedIsTypeOK
<1> QED BY <1>1, <1>2, <1>3, PTL DEF Spec

\* As long as no connection is lost inside a model, what sendModel writes and
\* handleModelData cuts up again is a FIFO of whole models, lost with the
\* connection or by the disk alone, for every size of file and size field, every
\* way the bytes are read, and every number of models and lost connections.
THEOREM DownlinkIsPipe ==
    ASSUME ~TornModels
    PROVE  Spec => ImplementsPipe
<1>1. Init => Typed /\ WholeModels
  BY InitTyped, InitWhole
<1>2. Typed /\ WholeModels /\ [Next]_vars => (Typed /\ WholeModels)' /\ PipeStep
  BY NextTyped, NextWhole
<1>3. Init => Pipe!Init
  BY EndingEmpty DEF Init, Pipe!Init, OnTheWire
<1>4. PipeStep => [Pipe!Next]_(Pipe!vars)
  BY DEF PipeStep, WireStep, Pipe!Next, Pipe!Send, Pipe!Deliver, Pipe!Lose,
         Pipe!DiskChanges, Pipe!vars
<1> QED BY <1>1, <1>2, <1>3, <1>4, PTL DEF Spec, ImplementsPipe, Pipe!Spec

\* Then every file handed to the clients is one the centre sent, unless the disk
\* fills up: what write returns is not asked.
THEOREM ReceivedIntactHolds ==
    ASSUME ~TornModels, "torn" \notin Models, "full" \notin DiskStates
    PROVE  Spec => []ReceivedIntact
<1> DEFINE Inv == Typed /\ WholeModels /\ received \in Seq(Models)
<1>1. Init => Inv
  BY InitTyped, InitWhole DEF Init
<1>2. Inv /\ [Next]_vars => Inv'
  BY NextTyped, NextWhole, OnlyWholeFiles
<1>3. Inv => ReceivedIntact
  BY DEF ReceivedIntact, ToSet
<1> QED BY <1>1, <1>2, <1>3, PTL DEF Spec

=============================================================================
