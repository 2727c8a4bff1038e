------------------------ MODULE ModelExchange_proofs ------------------------
(***************************************************************************)
(* What a lost message, connection or write can do to models over MQTT,    *)
(* for any number of clients, chunks, models and faults.                   *)
(*                                                                         *)
(* A path is described by values: its messages w, what its reader holds,   *)
(* what came of it, what was lost.  Lemmas about values say what each step *)
(* makes of them; the actions then only change the values of one client.   *)
(***************************************************************************)
EXTENDS ModelExchange, Integers, FiniteSetTheorems, SequenceTheorems, TLAPS

\* The messages and the chunks of the first n models.
Msgs(n) == [model : 1..n, part : 0..Chunks]
Data(n) == [model : 1..n, part : 1..Chunks]

Connected(c) == {Edge, c} \subseteq online

\* A concatenation holds what its two parts hold.
LEMMA HoldsConcat ==
    ASSUME NEW T, NEW s \in Seq(T), NEW t \in Seq(T)
    PROVE  s \o t \in Seq(T) /\ ToSet(s \o t) = ToSet(s) \cup ToSet(t)
<1>1. /\ s \o t \in Seq(T)
      /\ DOMAIN s = 1..Len(s) /\ DOMAIN t = 1..Len(t)
      /\ Len(s) \in Nat /\ Len(t) \in Nat
      /\ DOMAIN (s \o t) = 1..(Len(s) + Len(t))
      /\ \A i \in 1..(Len(s) + Len(t)) :
            (s \o t)[i] = IF i <= Len(s) THEN s[i] ELSE t[i - Len(s)]
  OBVIOUS
<1>2. ASSUME NEW x \in ToSet(s)
      PROVE  x \in ToSet(s \o t)
  BY <1>1, <1>2 DEF ToSet
<1>3. ASSUME NEW x \in ToSet(t)
      PROVE  x \in ToSet(s \o t)
  <2>1. PICK k \in DOMAIN t : x = t[k]
    BY <1>3 DEF ToSet
  <2>2. k + Len(s) \in DOMAIN (s \o t) /\ (s \o t)[k + Len(s)] = x
    BY <1>1, <2>1
  <2> QED BY <2>2 DEF ToSet
<1>4. ASSUME NEW x \in ToSet(s \o t)
      PROVE  x \in ToSet(s) \cup ToSet(t)
  BY <1>1, <1>4 DEF ToSet
<1> QED BY <1>1, <1>2, <1>3, <1>4

-----------------------------------------------------------------------------
(* A path carries whole models one after the other. *)

\* What comes after a message on one path.
Follows(a, b) ==
    IF a.part = EndMarker
    THEN b.part = 1
    ELSE b.model = a.model /\ b.part = IF a.part = Chunks THEN EndMarker ELSE a.part + 1

Stream(w) == \A i \in DOMAIN w : i + 1 \in DOMAIN w => Follows(w[i], w[i + 1])

Complete(w) == w # << >> => w[Len(w)].part = EndMarker

\* The chunks of the model at the front that are not on the path any more.
Gone(w) == IF w = << >> THEN 0
           ELSE IF Head(w).part = EndMarker THEN Chunks ELSE Head(w).part - 1

\* Published models come in the order of their numbers.
Before(a, b) == \/ a.model < b.model
                \/ /\ a.model = b.model
                   /\ a.part # EndMarker
                   /\ b.part = EndMarker \/ a.part < b.part

Ordered(w) == \A i, j \in DOMAIN w : i < j => Before(w[i], w[j])

\* The models whose end marker is on the path.
Markers(w) == {msg.model : msg \in {m \in ToSet(w) : m.part = EndMarker}}

\* The oldest of n models that is not over.
Position(w, n) == IF w = << >> THEN n + 1 ELSE Head(w).model

Losses == [chunk : Nat, end : Nat, disk : Nat]

-----------------------------------------------------------------------------
(* From the edge to one client. *)

\* Chunks of model k in their order, of those g that are gone from the path.
Pure(data, k, g) ==
    /\ Len(data) <= g
    /\ \A i \in DOMAIN data : /\ data[i].model = k
                              /\ i <= data[i].part
                              /\ data[i].part + Len(data) <= g + i

\* Data that is not of the model at the front is too much to be taken for it,
\* unless many messages have been lost.
InHand(w, data, misses) ==
    \/ Pure(data, Head(w).model, Gone(w)) /\ Len(data) + misses >= Gone(w)
    \/ Len(data) + misses >= Chunks + 1 + Gone(w)

\* One more than what is saved or excused by a loss.
Excused(files, lossesOf) ==
    Len(files) + lossesOf.chunk + lossesOf.disk + 2 * lossesOf.end + 1

\* Wrong data will cost the model at the front as well, which is excused.
LittleLost(w, n, data, excused) ==
    /\ Position(w, n) <= excused
    /\ Len(data) # Gone(w) => Position(w, n) < excused

Down(connected, n, w, data, files, lossesOf) ==
    /\ w \in Seq(Msgs(n)) /\ Stream(w) /\ Ordered(w)
    /\ data \in Seq(Data(n)) /\ files \in Seq(Seq(Data(n))) /\ lossesOf \in Losses
    /\ connected => Complete(w) /\ Markers(w) = Position(w, n)..n
    /\ w # << >> \/ connected => InHand(w, data, lossesOf.chunk + lossesOf.end)
    /\ connected => LittleLost(w, n, data, Excused(files, lossesOf))

-----------------------------------------------------------------------------
(* From one client to the edge. *)

WholeOf(file, n) == \E m \in 1..n : file = FileOf(m)

FilesTyped(n, files) ==
    /\ files = [p \in DOMAIN files |-> files[p]]
    /\ DOMAIN files \subseteq 1..Chunks
    /\ \A p \in DOMAIN files : files[p] \in Data(n) /\ files[p].part = p

\* The chunk files are those of the model at the front, as far as it is gone.
OnFile(w, files, lossesOf) ==
    /\ lossesOf.chunk + lossesOf.end + lossesOf.disk = 0 => DOMAIN files = 1..Gone(w)
    /\ lossesOf.chunk + lossesOf.end + lossesOf.disk <= 1 =>
          \A p \in 1..Gone(w) : p \in DOMAIN files => files[p].model = Head(w).model
    /\ lossesOf.chunk + lossesOf.disk = 0 =>
          \A p \in 1..Gone(w) : p \in DOMAIN files /\ files[p].model = Head(w).model

Up(connected, n, w, files, model, announced, lossesOf) ==
    /\ w \in Seq(Msgs(n)) /\ Stream(w)
    /\ FilesTyped(n, files) /\ model \in Seq(Data(n)) /\ announced \in Seq(Seq(Data(n)))
    /\ lossesOf \in Losses
    /\ connected => Complete(w)
    /\ w # << >> \/ connected => OnFile(w, files, lossesOf)
    /\ lossesOf.chunk + lossesOf.disk = 0 => model = << >> \/ WholeOf(model, n)
    /\ lossesOf.chunk + lossesOf.end + lossesOf.disk <= 1 =>
          \A i \in DOMAIN announced : WholeOf(announced[i], n)

-----------------------------------------------------------------------------
Shapes ==
    /\ published \in 0..MaxPublished /\ faults \in 0..MaxFaults
    /\ online \subseteq Clients \cup {Edge}
    /\ wire = [c \in Clients |-> wire[c]]
    /\ receivedModelData = [c \in Clients |-> receivedModelData[c]]
    /\ saved = [c \in Clients |-> saved[c]] /\ lost = [c \in Clients |-> lost[c]]
    /\ upWire = [c \in Clients |-> upWire[c]]
    /\ chunkFiles = [c \in Clients |-> chunkFiles[c]]
    /\ modelFile = [c \in Clients |-> modelFile[c]] /\ filed = [c \in Clients |-> filed[c]]
    /\ lostUp = [c \in Clients |-> lostUp[c]]
    /\ training \in [Clients -> SUBSET (1..published)]
    /\ aggregate \in [Clients -> Seq(Data(published))]

Rounds == /\ ~roundOpen => /\ roundModels = {}
                           /\ \A c \in Clients : DOMAIN chunkFiles[c] = {}
          /\ roundModels \subseteq {c \in Clients : filed[c] # << >>}

Downs == \A c \in Clients :
            Down(Connected(c), published, wire[c], receivedModelData[c], saved[c], lost[c])

Ups == \A c \in Clients :
          Up(Connected(c), published, upWire[c], chunkFiles[c], modelFile[c], filed[c], lostUp[c])

IInv == Shapes /\ Rounds /\ Downs /\ Ups /\ AggregatesWholeModels

-----------------------------------------------------------------------------
(* Reading, cutting and extending a path. *)

LEMMA TailFacts ==
    ASSUME NEW T, NEW w \in Seq(T), w # << >>
    PROVE  /\ Head(w) = w[1] /\ Head(w) \in T /\ Tail(w) \in Seq(T)
           /\ DOMAIN w = 1..Len(w) /\ Len(w) \in Nat \ {0}
           /\ DOMAIN Tail(w) = 1..(Len(w) - 1) /\ Len(Tail(w)) = Len(w) - 1
           /\ \A i \in 1..(Len(w) - 1) : Tail(w)[i] = w[i + 1]
           /\ Tail(w) = << >> <=> Len(w) = 1
           /\ Tail(w) # << >> => Head(Tail(w)) = w[2]
<1>1. Head(w) = w[1] /\ Head(w) \in T /\ Tail(w) \in Seq(T)
  OBVIOUS
<1>2. DOMAIN w = 1..Len(w) /\ Len(w) \in Nat \ {0}
  OBVIOUS
<1>3. DOMAIN Tail(w) = 1..(Len(w) - 1) /\ Len(Tail(w)) = Len(w) - 1
  OBVIOUS
<1>4. \A i \in 1..(Len(w) - 1) : Tail(w)[i] = w[i + 1]
  OBVIOUS
<1>5. Tail(w) = << >> <=> Len(w) = 1
  <2>1. \A s \in Seq(T) : s = << >> <=> Len(s) = 0
    OBVIOUS
  <2>2. Tail(w) = << >> <=> Len(Tail(w)) = 0
    BY <1>1, <2>1
  <2> QED BY <1>2, <1>3, <2>2
<1>6. Tail(w) # << >> => Head(Tail(w)) = w[2]
  <2>1. Tail(w) # << >> => Len(w) - 1 >= 1
    BY <1>2, <1>3, <1>5
  <2>2. Head(Tail(w)) = Tail(w)[1]
    <3>1. \A s \in Seq(T) : Head(s) = s[1]
      OBVIOUS
    <3> QED BY <1>1, <3>1
  <2> QED BY <1>2, <1>4, <2>1, <2>2
<1> QED BY <1>1, <1>2, <1>3, <1>4, <1>5, <1>6

\* What is known of the front of a path, and of what is then at the front.
LEMMA FrontFacts ==
    ASSUME NEW n \in Nat, NEW w \in Seq(Msgs(n)), Stream(w), w # << >>
    PROVE  /\ Head(w) \in Msgs(n) /\ Tail(w) \in Seq(Msgs(n)) /\ Stream(Tail(w))
           /\ Complete(w) => Complete(Tail(w))
           /\ Head(w).part = EndMarker => Gone(w) = Chunks /\ Gone(Tail(w)) = 0
           /\ Head(w).part # EndMarker =>
                 /\ Head(w).part \in 1..Chunks /\ Gone(w) = Head(w).part - 1
                 /\ Complete(w) => Tail(w) # << >>
                 /\ Tail(w) # << >> => /\ Head(Tail(w)).model = Head(w).model
                                       /\ Gone(Tail(w)) = Head(w).part
<1> DEFINE t == Tail(w)
<1>1. /\ Head(w) = w[1] /\ Head(w) \in Msgs(n) /\ t \in Seq(Msgs(n))
      /\ DOMAIN w = 1..Len(w) /\ Len(w) \in Nat \ {0}
      /\ DOMAIN t = 1..(Len(w) - 1) /\ Len(t) = Len(w) - 1
      /\ \A i \in 1..(Len(w) - 1) : t[i] = w[i + 1]
      /\ t = << >> <=> Len(w) = 1
      /\ t # << >> => Head(t) = w[2]
  BY TailFacts
<1>2. Head(w).part \in 0..Chunks
  BY <1>1 DEF Msgs
<1> HIDE DEF t
<1>3. Stream(t)
  <2> SUFFICES ASSUME NEW i \in DOMAIN t, i + 1 \in DOMAIN t
               PROVE  Follows(t[i], t[i + 1])
    BY DEF Stream
  <2>1. i + 1 \in DOMAIN w /\ (i + 1) + 1 \in DOMAIN w
    BY <1>1
  <2>2. t[i] = w[i + 1] /\ t[i + 1] = w[(i + 1) + 1]
    BY <1>1
  <2> QED BY <2>1, <2>2 DEF Stream
<1>4. Complete(w) => Complete(t)
  BY <1>1 DEF Complete
<1>5. t # << >> => Follows(Head(w), Head(t)) /\ Head(t) \in Msgs(n)
  <2> SUFFICES ASSUME t # << >>
               PROVE  Follows(Head(w), Head(t)) /\ Head(t) \in Msgs(n)
    OBVIOUS
  <2>1. 1 \in DOMAIN w /\ 1 + 1 \in DOMAIN w
    BY <1>1
  <2>2. Follows(w[1], w[1 + 1])
    BY <2>1 DEF Stream
  <2>3. w[2] \in Msgs(n)
    BY <1>1, <2>1
  <2> QED BY <1>1, <2>2, <2>3
<1>6. CASE Head(w).part = EndMarker
  <2>1. Gone(w) = Chunks
    BY <1>6 DEF Gone
  <2>2. Gone(t) = 0
    BY <1>5, <1>6 DEF Gone, Follows, EndMarker
  <2> QED BY <1>1, <1>3, <1>4, <1>6, <2>1, <2>2 DEF t
<1>7. CASE Head(w).part # EndMarker
  <2>1. Head(w).part \in 1..Chunks /\ Gone(w) = Head(w).part - 1
    BY <1>2, <1>7 DEF Gone, EndMarker
  <2>2. Complete(w) => t # << >>
    BY <1>1, <1>7 DEF Complete
  <2>3. t # << >> => Head(t).model = Head(w).model /\ Gone(t) = Head(w).part
    <3> SUFFICES ASSUME t # << >>
                 PROVE  Head(t).model = Head(w).model /\ Gone(t) = Head(w).part
      OBVIOUS
    <3>1. /\ Head(t).model = Head(w).model
          /\ Head(t).part = IF Head(w).part = Chunks THEN EndMarker ELSE Head(w).part + 1
      BY <1>5, <1>7 DEF Follows
    <3> QED BY <2>1, <3>1 DEF Gone, EndMarker
  <2> QED BY <1>1, <1>3, <1>4, <1>7, <2>1, <2>2, <2>3 DEF t
<1> QED BY <1>6, <1>7

\* The messages of a model.
LEMMA MessagesFacts ==
    ASSUME NEW n \in Nat, NEW m \in 1..n
    PROVE  /\ Messages(m) \in Seq(Msgs(n)) /\ Len(Messages(m)) = Chunks + 1
           /\ Chunks \in Nat \ {0}
           /\ \A i \in 1..(Chunks + 1) :
                 Messages(m)[i] = [model |-> m, part |-> IF i = Chunks + 1 THEN EndMarker ELSE i]
<1>1. Chunks \in Nat \ {0}
  BY ChunksAssumption
<1>2. FileOf(m) \in Seq(Msgs(n)) /\ Len(FileOf(m)) = Chunks
  <2>1. \A i \in 1..Chunks : [model |-> m, part |-> i] \in Msgs(n)
    BY <1>1 DEF Msgs
  <2> QED BY <1>1, <2>1 DEF FileOf
<1>3. [model |-> m, part |-> EndMarker] \in Msgs(n)
  BY <1>1 DEF Msgs, EndMarker
<1>4. /\ Messages(m) \in Seq(Msgs(n)) /\ Len(Messages(m)) = Chunks + 1
      /\ \A i \in 1..(Chunks + 1) :
            Messages(m)[i] = IF i = Chunks + 1 THEN [model |-> m, part |-> EndMarker] ELSE FileOf(m)[i]
  BY <1>1, <1>2, <1>3 DEF Messages
<1>5. \A i \in 1..Chunks : FileOf(m)[i] = [model |-> m, part |-> i]
  BY DEF FileOf
<1>6. \A i \in 1..(Chunks + 1) :
         Messages(m)[i] = [model |-> m, part |-> IF i = Chunks + 1 THEN EndMarker ELSE i]
  <2> TAKE i \in 1..(Chunks + 1)
  <2>1. CASE i = Chunks + 1
    BY <1>4, <2>1
  <2>2. CASE i # Chunks + 1
    <3>1. i \in 1..Chunks
      BY <1>1, <2>2
    <3> QED BY <1>4, <1>5, <2>2, <3>1
  <2> QED BY <2>1, <2>2
<1> QED BY <1>1, <1>4, <1>6

LEMMA ConcatPlaces ==
    ASSUME NEW T, NEW s \in Seq(T), NEW t \in Seq(T)
    PROVE  /\ s \o t \in Seq(T) /\ Len(s \o t) = Len(s) + Len(t)
           /\ DOMAIN s = 1..Len(s) /\ DOMAIN t = 1..Len(t)
           /\ Len(s) \in Nat /\ Len(t) \in Nat
           /\ DOMAIN (s \o t) = 1..(Len(s) + Len(t))
           /\ \A i \in 1..(Len(s) + Len(t)) :
                 (s \o t)[i] = IF i <= Len(s) THEN s[i] ELSE t[i - Len(s)]
OBVIOUS

\* A model put behind what is on a path.
LEMMA ConcatFacts ==
    ASSUME NEW n \in Nat, NEW m \in 1..n, NEW w \in Seq(Msgs(n)), Stream(w), Complete(w)
    PROVE  LET v == w \o Messages(m)
           IN  /\ v \in Seq(Msgs(n)) /\ v # << >> /\ Stream(v) /\ Complete(v)
               /\ Gone(v) = Gone(w)
               /\ Head(v).model = IF w = << >> THEN m ELSE Head(w).model
<1> DEFINE t == Messages(m)
           v == w \o t
<1>1. /\ t \in Seq(Msgs(n)) /\ Len(t) = Chunks + 1 /\ Chunks \in Nat \ {0}
      /\ \A i \in 1..(Chunks + 1) :
            t[i] = [model |-> m, part |-> IF i = Chunks + 1 THEN EndMarker ELSE i]
  BY MessagesFacts
<1> HIDE DEF t
<1>2. /\ v \in Seq(Msgs(n)) /\ DOMAIN w = 1..Len(w) /\ Len(w) \in Nat
      /\ Len(v) = Len(w) + Chunks + 1 /\ DOMAIN v = 1..(Len(w) + Chunks + 1)
  <2>1. /\ v \in Seq(Msgs(n)) /\ DOMAIN w = 1..Len(w) /\ Len(w) \in Nat
        /\ Len(v) = Len(w) + Len(t) /\ DOMAIN v = 1..(Len(w) + Len(t))
    <3>1. \A x, y \in Seq(Msgs(n)) :
             /\ x \o y \in Seq(Msgs(n)) /\ Len(x \o y) = Len(x) + Len(y)
             /\ DOMAIN x = 1..Len(x) /\ DOMAIN y = 1..Len(y)
             /\ Len(x) \in Nat /\ Len(y) \in Nat
             /\ DOMAIN (x \o y) = 1..(Len(x) + Len(y))
             /\ \A i \in 1..(Len(x) + Len(y)) :
                   (x \o y)[i] = IF i <= Len(x) THEN x[i] ELSE y[i - Len(x)]
      BY ConcatPlaces
    <3> QED BY <3>1, <1>1
  <2> QED BY <1>1, <2>1
<1>3. /\ \A i \in 1..Len(w) : v[i] = w[i]
      /\ \A i \in 1..(Chunks + 1) : v[Len(w) + i] = t[i]
  <2>1. \A i \in 1..(Len(w) + Len(t)) : v[i] = IF i <= Len(w) THEN w[i] ELSE t[i - Len(w)]
    BY <1>1, ConcatPlaces
  <2>2. \A i \in 1..Len(w) : v[i] = w[i]
    BY <1>1, <1>2, <2>1
  <2>3. ASSUME NEW i \in 1..(Chunks + 1)
        PROVE  v[Len(w) + i] = t[i]
    <3>1. Len(w) + i \in 1..(Len(w) + Len(t)) /\ ~(Len(w) + i <= Len(w))
          /\ (Len(w) + i) - Len(w) = i
      BY <1>1, <1>2
    <3> QED BY <2>1, <3>1
  <2> QED BY <2>2, <2>3
<1> HIDE DEF v
<1>4. v # << >>
  BY <1>2, <1>1
<1>5. Complete(v)
  <2>1. v[Len(w) + (Chunks + 1)] = t[Chunks + 1] /\ t[Chunks + 1].part = EndMarker
    BY <1>1, <1>3
  <2> QED BY <1>1, <1>2, <2>1 DEF Complete
<1>6. Stream(v)
  <2> SUFFICES ASSUME NEW i \in DOMAIN v, i + 1 \in DOMAIN v
               PROVE  Follows(v[i], v[i + 1])
    BY DEF Stream
  <2>1. CASE i < Len(w)
    <3>1. i \in DOMAIN w /\ i + 1 \in DOMAIN w
      BY <1>2, <2>1
    <3> QED BY <1>2, <1>3, <3>1 DEF Stream
  <2>2. CASE i = Len(w)
    <3>1. w # << >> /\ i \in DOMAIN w
      BY <1>2, <2>2
    <3>2. v[i].part = EndMarker
      BY <1>2, <1>3, <2>2, <3>1 DEF Complete
    <3>3. 1 \in 1..(Chunks + 1) /\ 1 # Chunks + 1
      BY <1>1
    <3>4. v[i + 1] = t[1] /\ t[1].part = 1
      BY <1>1, <1>3, <2>2, <3>3
    <3> QED BY <3>2, <3>4 DEF Follows
  <2>3. CASE i > Len(w)
    <3> DEFINE j == i - Len(w)
    <3>1. j \in 1..Chunks /\ j + 1 \in 1..(Chunks + 1) /\ j \in 1..(Chunks + 1)
          /\ i = Len(w) + j /\ i + 1 = Len(w) + (j + 1)
      BY <1>1, <1>2, <2>3
    <3> HIDE DEF j
    <3>2. v[i] = t[j] /\ v[i + 1] = t[j + 1]
      BY <1>3, <3>1
    <3>3. t[j] = [model |-> m, part |-> j]
      BY <1>1, <3>1
    <3>4. t[j + 1] = [model |-> m, part |-> IF j = Chunks THEN EndMarker ELSE j + 1]
      BY <1>1, <3>1
    <3>5. t[j].model = m /\ t[j].part = j /\ j # EndMarker
      BY <3>1, <3>3 DEF EndMarker
    <3>6. t[j + 1].model = m /\ t[j + 1].part = IF j = Chunks THEN EndMarker ELSE j + 1
      BY <3>4
    <3> QED BY <3>2, <3>5, <3>6 DEF Follows
  <2> QED BY <1>2, <2>1, <2>2, <2>3
<1>7. CASE w = << >>
  <2>1. Len(w) = 0 /\ 1 \in 1..(Chunks + 1) /\ 1 # Chunks + 1
    BY <1>1, <1>7
  <2>2. Head(v) = v[1]
    BY <1>2, <1>4
  <2>3. v[1] = t[1]
    <3>1. v[0 + 1] = t[1]
      BY <1>3, <2>1
    <3> QED BY <3>1
  <2>4. t[1] = [model |-> m, part |-> 1]
    BY <1>1, <2>1
  <2>5. Head(v).model = m /\ Head(v).part = 1
    BY <2>2, <2>3, <2>4
  <2>6. Gone(v) = 0 /\ Gone(w) = 0
    BY <1>4, <1>7, <2>5 DEF Gone, EndMarker
  <2> QED BY <1>2, <1>4, <1>5, <1>6, <1>7, <2>5, <2>6 DEF v, t
<1>8. CASE w # << >>
  <2>1. Head(v) = v[1] /\ Head(w) = w[1] /\ 1 \in 1..Len(w)
    BY <1>2, <1>4, <1>8
  <2>2. Head(v) = Head(w)
    BY <1>3, <2>1
  <2>3. Gone(v) = Gone(w)
    BY <1>4, <1>8, <2>2 DEF Gone
  <2> QED BY <1>2, <1>4, <1>5, <1>6, <1>8, <2>2, <2>3 DEF v, t
<1> QED BY <1>7, <1>8

\* What is left of a path when the rest is cut off.
LEMMA PrefixFacts ==
    ASSUME NEW n \in Nat, NEW w \in Seq(Msgs(n)), Stream(w), NEW k \in Nat, k <= Len(w)
    PROVE  LET v == SubSeq(w, 1, k)
           IN  /\ v \in Seq(Msgs(n)) /\ Stream(v) /\ ToSet(v) \subseteq ToSet(w)
               /\ Ordered(w) => Ordered(v)
               /\ v # << >> => w # << >> /\ Head(v) = Head(w) /\ Gone(v) = Gone(w)
<1> DEFINE v == SubSeq(w, 1, k)
<1>1. v \in Seq(Msgs(n)) /\ Len(v) = k /\ DOMAIN v = 1..k /\ DOMAIN w = 1..Len(w)
      /\ Len(w) \in Nat
  OBVIOUS
<1>2. \A i \in 1..k : v[i] = w[i] /\ i \in DOMAIN w
  BY <1>1
<1> HIDE DEF v
<1>3. Stream(v)
  BY <1>1, <1>2 DEF Stream
<1>4. ToSet(v) \subseteq ToSet(w)
  BY <1>1, <1>2 DEF ToSet
<1>5. Ordered(w) => Ordered(v)
  BY <1>1, <1>2 DEF Ordered
<1>6. ASSUME v # << >>
      PROVE  w # << >> /\ Head(v) = Head(w) /\ Gone(v) = Gone(w)
  <2>1. Head(v) = v[1] /\ 1 \in 1..k
    BY <1>1, <1>6
  <2>2. w # << >> /\ Head(w) = w[1]
    BY <1>2, <2>1
  <2>3. Head(v) = Head(w)
    BY <1>2, <2>1, <2>2
  <2> QED BY <1>6, <2>2, <2>3 DEF Gone
<1> QED BY <1>1, <1>3, <1>4, <1>5, <1>6 DEF v

-----------------------------------------------------------------------------
(* End markers. *)

\* A marker taken from the front is that of the oldest model.
LEMMA MarkersTail ==
    ASSUME NEW n \in Nat, NEW w \in Seq(Msgs(n)), w # << >>, Ordered(w)
    PROVE  /\ Ordered(Tail(w)) /\ Markers(w) \subseteq 1..n
           /\ Markers(Tail(w)) = IF Head(w).part = EndMarker
                                 THEN Markers(w) \ {Head(w).model}
                                 ELSE Markers(w)
           /\ Head(w).part = EndMarker => Head(w).model \in Markers(w)
           /\ \A m \in Markers(w) : Head(w).model <= m
<1> DEFINE t == Tail(w)
<1>1. /\ Head(w) = w[1] /\ Head(w) \in Msgs(n) /\ t \in Seq(Msgs(n))
      /\ DOMAIN w = 1..Len(w) /\ Len(w) \in Nat \ {0}
      /\ DOMAIN t = 1..(Len(w) - 1) /\ Len(t) = Len(w) - 1
      /\ \A i \in 1..(Len(w) - 1) : t[i] = w[i + 1]
  BY TailFacts
<1> HIDE DEF t
<1>2. \A i \in DOMAIN w : w[i] \in Msgs(n) /\ w[i].model \in 1..n /\ w[i].part \in Nat
  <2>1. Chunks \in Nat
    BY ChunksAssumption
  <2>2. \A i \in DOMAIN w : w[i] \in Msgs(n)
    BY <1>1
  <2> QED BY <2>1, <2>2 DEF Msgs
<1>3. Ordered(t)
  <2> SUFFICES ASSUME NEW i \in DOMAIN t, NEW j \in DOMAIN t, i < j
               PROVE  Before(t[i], t[j])
    BY DEF Ordered
  <2>1. i + 1 \in DOMAIN w /\ j + 1 \in DOMAIN w /\ i + 1 < j + 1
    BY <1>1
  <2> QED BY <1>1, <2>1 DEF Ordered
<1>4. \A m : m \in Markers(w) <=> \E i \in DOMAIN w : w[i].part = EndMarker /\ w[i].model = m
  BY DEF Markers, ToSet
<1>5. \A m : m \in Markers(t) <=> \E i \in DOMAIN t : t[i].part = EndMarker /\ t[i].model = m
  BY DEF Markers, ToSet
<1>6. Markers(w) \subseteq 1..n
  BY <1>2, <1>4
<1>7. \A i \in DOMAIN w : i # 1 => Before(w[1], w[i])
  <2>1. \A i \in DOMAIN w : i # 1 => 1 \in DOMAIN w /\ 1 < i
    BY <1>1
  <2> QED BY <2>1 DEF Ordered
<1>8. \A i \in DOMAIN w : w[1].model <= w[i].model
  <2>1. 1 \in DOMAIN w
    BY <1>1
  <2> QED BY <1>2, <1>7, <2>1 DEF Before
<1>9. \A m \in Markers(w) : Head(w).model <= m
  BY <1>1, <1>4, <1>8
<1>10. ASSUME Head(w).part = EndMarker
       PROVE  Head(w).model \in Markers(w)
  <2>1. 1 \in DOMAIN w
    BY <1>1
  <2> QED BY <1>1, <1>4, <1>10, <2>1
<1>11. Markers(t) \subseteq Markers(w)
  <2> SUFFICES ASSUME NEW m, NEW i \in DOMAIN t, t[i].part = EndMarker, t[i].model = m
               PROVE  m \in Markers(w)
    BY <1>5
  <2>1. i + 1 \in DOMAIN w /\ w[i + 1] = t[i]
    BY <1>1
  <2> QED BY <1>4, <2>1
<1>12. ASSUME NEW m \in Markers(w), Head(w).part # EndMarker \/ m # Head(w).model
       PROVE  m \in Markers(t)
  <2>1. PICK i \in DOMAIN w : w[i].part = EndMarker /\ w[i].model = m
    BY <1>4
  <2>2. i # 1
    BY <1>1, <1>12, <2>1
  <2>3. i - 1 \in DOMAIN t /\ t[i - 1] = w[i]
    <3>1. i - 1 \in 1..(Len(w) - 1) /\ (i - 1) + 1 = i
      BY <1>1, <2>2
    <3> QED BY <1>1, <3>1
  <2> QED BY <1>5, <2>1, <2>3
<1>13. ASSUME Head(w).part = EndMarker
       PROVE  Head(w).model \notin Markers(t)
  <2> SUFFICES ASSUME NEW i \in DOMAIN t, t[i].part = EndMarker, t[i].model = Head(w).model
               PROVE  FALSE
    BY <1>5
  <2>1. i + 1 \in DOMAIN w /\ i + 1 # 1 /\ w[i + 1] = t[i]
    BY <1>1
  <2>2. Before(w[1], w[i + 1])
    BY <1>7, <2>1
  <2>3. w[1].model = w[i + 1].model /\ w[1].part = EndMarker /\ w[1].model \in Nat
    BY <1>1, <1>2, <1>13, <2>1
  <2> QED BY <2>2, <2>3 DEF Before
<1>14. Markers(t) = IF Head(w).part = EndMarker THEN Markers(w) \ {Head(w).model} ELSE Markers(w)
  BY <1>11, <1>12, <1>13
<1> QED BY <1>3, <1>6, <1>9, <1>10, <1>14 DEF t

\* A new model's marker joins the others.
LEMMA MarkersConcat ==
    ASSUME NEW n \in Nat, NEW w \in Seq(Msgs(n)), Ordered(w)
    PROVE  LET v == w \o Messages(n + 1)
           IN  Ordered(v) /\ Markers(v) = Markers(w) \cup {n + 1}
<1> DEFINE t == Messages(n + 1)
           v == w \o t
<1>1. /\ t \in Seq(Msgs(n + 1)) /\ Len(t) = Chunks + 1 /\ Chunks \in Nat \ {0}
      /\ \A i \in 1..(Chunks + 1) :
            t[i] = [model |-> n + 1, part |-> IF i = Chunks + 1 THEN EndMarker ELSE i]
  <2>1. n + 1 \in Nat /\ n + 1 \in 1..(n + 1)
    OBVIOUS
  <2> QED BY <2>1, MessagesFacts
<1> HIDE DEF t
<1>2. w \in Seq(Msgs(n + 1))
  <2>1. Msgs(n) \subseteq Msgs(n + 1)
    BY DEF Msgs
  <2> QED BY <2>1
<1>3. /\ v \in Seq(Msgs(n + 1)) /\ DOMAIN w = 1..Len(w) /\ Len(w) \in Nat
      /\ Len(v) = Len(w) + Len(t) /\ DOMAIN v = 1..(Len(w) + Len(t))
      /\ DOMAIN t = 1..(Chunks + 1)
      /\ \A i \in 1..(Len(w) + Len(t)) : v[i] = IF i <= Len(w) THEN w[i] ELSE t[i - Len(w)]
  <2>1. /\ v \in Seq(Msgs(n + 1)) /\ DOMAIN w = 1..Len(w) /\ Len(w) \in Nat
        /\ Len(v) = Len(w) + Len(t) /\ DOMAIN v = 1..(Len(w) + Len(t))
        /\ DOMAIN t = 1..Len(t)
        /\ \A i \in 1..(Len(w) + Len(t)) : v[i] = IF i <= Len(w) THEN w[i] ELSE t[i - Len(w)]
    <3>1. \A x, y \in Seq(Msgs(n + 1)) :
             /\ x \o y \in Seq(Msgs(n + 1)) /\ Len(x \o y) = Len(x) + Len(y)
             /\ DOMAIN x = 1..Len(x) /\ DOMAIN y = 1..Len(y)
             /\ Len(x) \in Nat /\ Len(y) \in Nat
             /\ DOMAIN (x \o y) = 1..(Len(x) + Len(y))
             /\ \A i \in 1..(Len(x) + Len(y)) :
                   (x \o y)[i] = IF i <= Len(x) THEN x[i] ELSE y[i - Len(x)]
      BY ConcatPlaces
    <3> QED BY <3>1, <1>1, <1>2
  <2> QED BY <1>1, <2>1
<1>4. \A i \in DOMAIN w : w[i].model \in 1..n
  <2>1. \A i \in DOMAIN w : w[i] \in Msgs(n)
    OBVIOUS
  <2> QED BY <2>1 DEF Msgs
<1> HIDE DEF v
<1>5. \A i \in DOMAIN t : t[i].model = n + 1 /\ t[i].part = IF i = Chunks + 1 THEN EndMarker ELSE i
  BY <1>1, <1>3
<1>6. Ordered(v)
  <2> SUFFICES ASSUME NEW i \in DOMAIN v, NEW j \in DOMAIN v, i < j
               PROVE  Before(v[i], v[j])
    BY DEF Ordered
  <2>1. CASE j <= Len(w)
    <3>1. i \in DOMAIN w /\ j \in DOMAIN w /\ v[i] = w[i] /\ v[j] = w[j]
      BY <1>1, <1>3, <2>1
    <3> QED BY <3>1 DEF Ordered
  <2>2. CASE i <= Len(w) /\ j > Len(w)
    <3>1. v[i] = w[i] /\ i \in DOMAIN w /\ v[j] = t[j - Len(w)] /\ j - Len(w) \in DOMAIN t
      BY <1>1, <1>3, <2>2
    <3>2. v[i].model \in 1..n /\ v[j].model = n + 1
      BY <1>4, <1>5, <3>1
    <3> QED BY <3>2 DEF Before
  <2>3. CASE i > Len(w)
    <3> DEFINE a == i - Len(w)
               b == j - Len(w)
    <3>1. v[i] = t[a] /\ v[j] = t[b] /\ a \in 1..(Chunks + 1) /\ b \in 1..(Chunks + 1) /\ a < b
      BY <1>1, <1>3, <2>3
    <3> HIDE DEF a, b
    <3>2. v[i].model = v[j].model /\ v[i].part = a /\ a # EndMarker
      BY <1>1, <1>3, <1>5, <3>1 DEF EndMarker
    <3>3. v[j].part = EndMarker \/ v[j].part = b
      BY <1>3, <1>5, <3>1
    <3> QED BY <3>1, <3>2, <3>3 DEF Before
  <2> QED BY <1>3, <2>1, <2>2, <2>3
<1>7. ToSet(v) = ToSet(w) \cup ToSet(t)
  BY <1>1, <1>2, HoldsConcat DEF v
<1>8. Markers(v) = Markers(w) \cup Markers(t)
  BY <1>7 DEF Markers
<1>9. Markers(t) = {n + 1}
  <2>1. Chunks + 1 \in DOMAIN t /\ t[Chunks + 1].part = EndMarker /\ t[Chunks + 1].model = n + 1
    BY <1>1, <1>3, <1>5
  <2>2. n + 1 \in Markers(t)
    BY <2>1 DEF Markers, ToSet
  <2>3. \A m \in Markers(t) : m = n + 1
    BY <1>5 DEF Markers, ToSet
  <2> QED BY <2>2, <2>3
<1> QED BY <1>6, <1>8, <1>9 DEF v, t

-----------------------------------------------------------------------------
(* Steps of the path to a client. *)

LEMMA Numbers ==
    ASSUME NEW T, NEW files \in Seq(T), NEW lo \in Losses
    PROVE  /\ lo.chunk \in Nat /\ lo.end \in Nat /\ lo.disk \in Nat
           /\ Len(files) \in Nat /\ Excused(files, lo) \in Nat
<1>1. lo.chunk \in Nat /\ lo.end \in Nat /\ lo.disk \in Nat
  BY DEF Losses
<1>2. Len(files) \in Nat
  OBVIOUS
<1> QED BY <1>1, <1>2 DEF Excused

\* One file more, or one more write that failed, is one more that is excused.
LEMMA OneMoreExcused ==
    ASSUME NEW T, NEW files \in Seq(T), NEW files1 \in Seq(T), NEW lo \in Losses,
           NEW lost1 \in Losses, lost1.chunk = lo.chunk, lost1.end = lo.end,
           \/ Len(files1) = Len(files) + 1 /\ lost1.disk = lo.disk
           \/ Len(files1) = Len(files) /\ lost1.disk = lo.disk + 1
    PROVE  Excused(files1, lost1) = Excused(files, lo) + 1
<1> DEFINE a == Len(files)
           b == lo.chunk
           d == lo.disk
           e == lo.end
<1>1. a \in Nat /\ b \in Nat /\ d \in Nat /\ e \in Nat
  BY Numbers
<1>2. Excused(files, lo) = a + b + d + 2 * e + 1
  BY DEF Excused
<1>3. CASE Len(files1) = a + 1 /\ lost1.disk = d
  <2>1. Excused(files1, lost1) = (a + 1) + b + d + 2 * e + 1
    BY <1>3 DEF Excused
  <2> HIDE DEF a, b, d, e
  <2>2. (a + 1) + b + d + 2 * e + 1 = (a + b + d + 2 * e + 1) + 1
    BY <1>1
  <2> QED BY <1>2, <2>1, <2>2
<1>4. CASE Len(files1) = a /\ lost1.disk = d + 1
  <2>1. Excused(files1, lost1) = a + b + (d + 1) + 2 * e + 1
    BY <1>4 DEF Excused
  <2> HIDE DEF a, b, d, e
  <2>2. a + b + (d + 1) + 2 * e + 1 = (a + b + d + 2 * e + 1) + 1
    BY <1>1
  <2> QED BY <1>2, <2>1, <2>2
<1> QED BY <1>3, <1>4

\* What is left on the path when its first message is gone.
LEMMA DownFront ==
    ASSUME NEW connected \in BOOLEAN, NEW n \in Nat, NEW w, NEW data, NEW files, NEW lo,
           Down(connected, n, w, data, files, lo), w # << >>
    PROVE  /\ Tail(w) \in Seq(Msgs(n)) /\ Stream(Tail(w)) /\ Ordered(Tail(w))
           /\ Head(w) \in Msgs(n) /\ Position(w, n) = Head(w).model
           /\ connected => /\ Complete(Tail(w))
                           /\ Markers(Tail(w)) = Position(Tail(w), n)..n
                           /\ Position(Tail(w), n) = IF Head(w).part = EndMarker
                                                     THEN Position(w, n) + 1
                                                     ELSE Position(w, n)
<1> DEFINE t == Tail(w)
           h == Head(w)
<1>1. w \in Seq(Msgs(n)) /\ Stream(w) /\ Ordered(w)
  BY DEF Down
<1>2. /\ h \in Msgs(n) /\ t \in Seq(Msgs(n)) /\ Stream(t)
      /\ Complete(w) => Complete(t)
      /\ h.part # EndMarker => /\ Complete(w) => t # << >>
                               /\ t # << >> => Head(t).model = h.model
  BY <1>1, FrontFacts
<1>3. /\ Ordered(t) /\ Markers(w) \subseteq 1..n
      /\ Markers(t) = IF h.part = EndMarker THEN Markers(w) \ {h.model} ELSE Markers(w)
  BY <1>1, MarkersTail
<1>4. Position(w, n) = h.model /\ h.model \in 1..n
  BY <1>2 DEF Position, Msgs
<1>5. t # << >> => Head(t) \in Msgs(n) /\ Head(t).model \in 1..n
  <2>1. t # << >> => Head(t) \in Msgs(n)
    BY <1>2
  <2> QED BY <2>1 DEF Msgs
<1>6. t # << >> => \A m \in Markers(t) : Head(t).model <= m
  BY <1>2, <1>3, MarkersTail
<1>7. t # << >> /\ h.part = EndMarker => h.model < Head(t).model
  <2> SUFFICES ASSUME t # << >>, h.part = EndMarker
               PROVE  h.model < Head(t).model
    OBVIOUS
  <2>1. Head(w) = w[1] /\ DOMAIN w = 1..Len(w) /\ Len(w) \in Nat \ {0}
        /\ (t = << >> <=> Len(w) = 1) /\ Head(t) = w[2]
    BY <1>1, TailFacts
  <2>2. 1 \in DOMAIN w /\ 2 \in DOMAIN w
    BY <2>1
  <2>3. Before(w[1], w[2])
    BY <1>1, <2>2 DEF Ordered
  <2> QED BY <2>1, <2>3 DEF Before
<1> HIDE DEF t, h
<1>8. ASSUME connected
      PROVE  /\ Complete(t) /\ Markers(t) = Position(t, n)..n
             /\ Position(t, n) = IF h.part = EndMarker THEN Position(w, n) + 1 ELSE Position(w, n)
  <2>1. Complete(t) /\ Markers(w) = h.model..n
    BY <1>2, <1>4, <1>8 DEF Down
  <2>2. CASE h.part # EndMarker
    <3>1. t # << >> /\ Head(t).model = h.model
      BY <1>2, <1>8, <2>2 DEF Down
    <3>2. Position(t, n) = Position(w, n)
      BY <1>4, <3>1 DEF Position
    <3> QED BY <1>3, <1>4, <2>1, <2>2, <3>2
  <2>3. CASE h.part = EndMarker
    <3>1. Markers(t) = (h.model + 1)..n
      BY <1>3, <1>4, <2>1, <2>3
    <3>2. CASE t = << >>
      <4>1. Markers(t) = {}
        BY <3>2, <1>2 DEF Markers, ToSet
      <4>2. h.model = n
        <5>1. ~(h.model + 1 <= n)
          <6>1. h.model + 1 <= n => h.model + 1 \in (h.model + 1)..n
            BY <1>4
          <6> QED BY <3>1, <4>1, <6>1
        <5> QED BY <1>4, <5>1
      <4> QED BY <1>4, <2>1, <2>3, <3>1, <3>2, <4>2 DEF Position
    <3>3. CASE t # << >>
      <4>1. Head(t).model \in 1..n /\ h.model < Head(t).model
        BY <1>5, <1>7, <2>3, <3>3
      <4>2. h.model + 1 \in Markers(t)
        BY <1>4, <3>1, <4>1
      <4>3. Head(t).model <= h.model + 1
        BY <1>6, <3>3, <4>2
      <4>4. Position(t, n) = h.model + 1
        BY <1>4, <3>3, <4>1, <4>3 DEF Position
      <4> QED BY <1>4, <2>1, <2>3, <3>1, <4>4
    <3> QED BY <3>2, <3>3
  <2> QED BY <2>2, <2>3
<1> QED BY <1>2, <1>3, <1>4, <1>8 DEF t, h

\* The client appends a chunk.
LEMMA DownTakesChunk ==
    ASSUME NEW connected \in BOOLEAN, NEW n \in Nat, NEW w, NEW data, NEW files, NEW lo,
           Down(connected, n, w, data, files, lo), w # << >>, Head(w).part # EndMarker
    PROVE  Down(connected, n, Tail(w), Append(data, Head(w)), files, lo)
<1> DEFINE t == Tail(w)
           h == Head(w)
           more == Append(data, h)
           misses == lo.chunk + lo.end
<1>1. /\ w \in Seq(Msgs(n)) /\ data \in Seq(Data(n)) /\ Stream(w) /\ lo \in Losses
      /\ files \in Seq(Seq(Data(n)))
  BY DEF Down
<1>2. /\ t \in Seq(Msgs(n)) /\ Stream(t) /\ Ordered(t) /\ h \in Msgs(n)
      /\ connected => /\ Complete(t) /\ Markers(t) = Position(t, n)..n
                      /\ Position(t, n) = Position(w, n)
  BY DownFront
<1>3. /\ h.part \in 1..Chunks /\ Gone(w) = h.part - 1 /\ Chunks \in Nat
      /\ connected => t # << >>
      /\ t # << >> => Head(t).model = h.model /\ Gone(t) = h.part
  <2>1. Chunks \in Nat
    BY ChunksAssumption
  <2>2. connected => Complete(w)
    BY DEF Down
  <2> QED BY <1>1, <2>1, <2>2, FrontFacts
<1>4. h \in Data(n) /\ misses \in Nat
  <2>1. h \in Data(n)
    BY <1>2, <1>3 DEF Msgs, Data
  <2> QED BY <1>1, <2>1, Numbers
<1> HIDE DEF t, h, misses
<1>5. /\ more \in Seq(Data(n)) /\ Len(more) = Len(data) + 1 /\ Len(data) \in Nat
      /\ \A i \in DOMAIN more : \/ i \in DOMAIN data /\ more[i] = data[i]
                                \/ i = Len(data) + 1 /\ more[i] = h
  BY <1>1, <1>4
<1>6. \A i \in DOMAIN data : data[i].part \in Nat /\ i \in Nat
  <2>1. \A i \in DOMAIN data : data[i] \in Data(n) /\ i \in Nat
    BY <1>1
  <2> QED BY <1>3, <2>1 DEF Data
<1> HIDE DEF more
<1>7. ASSUME t # << >> \/ connected
      PROVE  InHand(t, more, misses)
  <2>1. Head(t).model = h.model /\ Gone(t) = Gone(w) + 1 /\ Gone(t) = h.part
    BY <1>3, <1>7
  <2>2. InHand(w, data, misses)
    BY DEF Down, misses
  <2>3. CASE Pure(data, h.model, Gone(w)) /\ Len(data) + misses >= Gone(w)
    <3>1. Pure(more, h.model, Gone(t))
      <4>1. Len(more) <= Gone(t)
        BY <1>3, <1>5, <2>1, <2>3 DEF Pure
      <4>2. ASSUME NEW i \in DOMAIN more
            PROVE  /\ more[i].model = h.model /\ i <= more[i].part
                   /\ more[i].part + Len(more) <= Gone(t) + i
        <5>1. CASE i \in DOMAIN data /\ more[i] = data[i]
          <6>1. /\ data[i].model = h.model /\ i <= data[i].part
                /\ data[i].part + Len(data) <= Gone(w) + i
            BY <2>3, <5>1 DEF Pure
          <6> QED BY <1>3, <1>5, <1>6, <2>1, <5>1, <6>1
        <5>2. CASE i = Len(data) + 1 /\ more[i] = h
          BY <1>3, <1>5, <2>1, <2>3, <5>2 DEF Pure
        <5> QED BY <1>5, <4>2, <5>1, <5>2
      <4> QED BY <4>1, <4>2 DEF Pure
    <3> QED BY <1>3, <1>4, <1>5, <2>1, <2>3, <3>1 DEF InHand
  <2>4. CASE Len(data) + misses >= Chunks + 1 + Gone(w)
    BY <1>3, <1>4, <1>5, <2>1, <2>4 DEF InHand
  <2> QED BY <2>2, <2>3, <2>4 DEF InHand, h
<1>8. ASSUME connected
      PROVE  LittleLost(t, n, more, Excused(files, lo))
  <2>1. Gone(t) = Gone(w) + 1 /\ Position(t, n) = Position(w, n) /\ Gone(w) \in Nat
    BY <1>2, <1>3, <1>8
  <2>2. LittleLost(w, n, data, Excused(files, lo))
    BY <1>8 DEF Down
  <2> QED BY <1>5, <2>1, <2>2 DEF LittleLost
<1> QED BY <1>1, <1>2, <1>5, <1>7, <1>8 DEF Down, t, h, more, misses

\* A chunk is lost on its way.
LEMMA DownLosesChunk ==
    ASSUME NEW connected \in BOOLEAN, NEW n \in Nat, NEW w, NEW data, NEW files, NEW lo,
           Down(connected, n, w, data, files, lo), w # << >>, Head(w).part # EndMarker,
           NEW lost1 \in Losses, lost1.chunk = lo.chunk + 1, lost1.end = lo.end,
           lost1.disk = lo.disk
    PROVE  Down(connected, n, Tail(w), data, files, lost1)
<1> DEFINE t == Tail(w)
           h == Head(w)
           misses == lo.chunk + lo.end
<1>1. /\ w \in Seq(Msgs(n)) /\ data \in Seq(Data(n)) /\ Stream(w) /\ lo \in Losses
      /\ files \in Seq(Seq(Data(n)))
  BY DEF Down
<1>2. /\ t \in Seq(Msgs(n)) /\ Stream(t) /\ Ordered(t) /\ h \in Msgs(n)
      /\ Position(w, n) = h.model
      /\ connected => /\ Complete(t) /\ Markers(t) = Position(t, n)..n
                      /\ Position(t, n) = Position(w, n)
  BY DownFront
<1>3. /\ h.part \in 1..Chunks /\ Gone(w) = h.part - 1 /\ Chunks \in Nat
      /\ connected => t # << >>
      /\ t # << >> => Head(t).model = h.model /\ Gone(t) = h.part
  <2>1. Chunks \in Nat
    BY ChunksAssumption
  <2>2. connected => Complete(w)
    BY DEF Down
  <2> QED BY <1>1, <2>1, <2>2, FrontFacts
<1>4. /\ misses \in Nat /\ lost1.chunk + lost1.end = misses + 1
      /\ Len(data) \in Nat /\ Len(files) \in Nat
  <2>1. /\ lo.chunk \in Nat /\ lo.end \in Nat /\ lo.disk \in Nat
        /\ Len(files) \in Nat /\ Excused(files, lo) \in Nat
    BY <1>1, Numbers
  <2> QED BY <1>1, <2>1
<1>5. \A i \in DOMAIN data : data[i].part \in Nat /\ i \in Nat
  <2>1. \A i \in DOMAIN data : data[i] \in Data(n) /\ i \in Nat
    BY <1>1
  <2> QED BY <1>3, <2>1 DEF Data
<1> HIDE DEF t, h, misses
<1>6. ASSUME t # << >> \/ connected
      PROVE  InHand(t, data, misses + 1)
  <2>1. Head(t).model = h.model /\ Gone(t) = Gone(w) + 1 /\ Gone(w) \in Nat
    BY <1>3, <1>6
  <2>2. InHand(w, data, misses)
    BY DEF Down, misses
  <2>3. CASE Pure(data, h.model, Gone(w)) /\ Len(data) + misses >= Gone(w)
    <3>1. Pure(data, h.model, Gone(t))
      <4>1. Len(data) <= Gone(t)
        BY <1>4, <2>1, <2>3 DEF Pure
      <4>2. ASSUME NEW i \in DOMAIN data
            PROVE  /\ data[i].model = h.model /\ i <= data[i].part
                   /\ data[i].part + Len(data) <= Gone(t) + i
        <5>1. /\ data[i].model = h.model /\ i <= data[i].part
              /\ data[i].part + Len(data) <= Gone(w) + i
          BY <2>3 DEF Pure
        <5> QED BY <1>4, <1>5, <2>1, <5>1
      <4> QED BY <4>1, <4>2 DEF Pure
    <3> QED BY <1>4, <2>1, <2>3, <3>1 DEF InHand
  <2>4. CASE Len(data) + misses >= Chunks + 1 + Gone(w)
    BY <1>3, <1>4, <2>1, <2>4 DEF InHand
  <2> QED BY <2>2, <2>3, <2>4 DEF InHand, h
<1>7. ASSUME connected
      PROVE  LittleLost(t, n, data, Excused(files, lost1))
  <2>1. LittleLost(w, n, data, Excused(files, lo))
    BY <1>7 DEF Down
  <2>2. Excused(files, lost1) = Excused(files, lo) + 1 /\ Excused(files, lo) \in Nat
    <3>1. /\ lo.chunk \in Nat /\ lo.end \in Nat /\ lo.disk \in Nat
          /\ Len(files) \in Nat /\ Excused(files, lo) \in Nat
      BY <1>1, Numbers
    <3> QED BY <3>1 DEF Excused
  <2>3. Position(t, n) = Position(w, n) /\ Position(w, n) \in Nat
    BY <1>2, <1>7 DEF Msgs
  <2> QED BY <2>1, <2>2, <2>3 DEF LittleLost
<1> QED BY <1>1, <1>2, <1>4, <1>6, <1>7 DEF Down, t, h, misses

\* An end marker is taken: whatever becomes of the data, it is gone.  What the
\* client gains or is excused is given by files1 and lost1.
LEMMA DownTakesEnd ==
    ASSUME NEW connected \in BOOLEAN, NEW n \in Nat, NEW w, NEW data, NEW files, NEW lo,
           Down(connected, n, w, data, files, lo), w # << >>, Head(w).part = EndMarker,
           NEW files1 \in Seq(Seq(Data(n))), NEW lost1 \in Losses,
           Excused(files1, lost1) = Excused(files, lo) + IF Len(data) = Chunks THEN 1 ELSE 0
    PROVE  Down(connected, n, Tail(w), << >>, files1, lost1)
<1> DEFINE t == Tail(w)
           misses == lost1.chunk + lost1.end
<1>1. /\ w \in Seq(Msgs(n)) /\ data \in Seq(Data(n)) /\ Stream(w) /\ lo \in Losses
      /\ files \in Seq(Seq(Data(n)))
  BY DEF Down
<1>2. /\ t \in Seq(Msgs(n)) /\ Stream(t) /\ Ordered(t) /\ Head(w) \in Msgs(n)
      /\ Position(w, n) = Head(w).model
      /\ connected => /\ Complete(t) /\ Markers(t) = Position(t, n)..n
                      /\ Position(t, n) = Position(w, n) + 1
  BY DownFront
<1>3. Gone(w) = Chunks /\ Gone(t) = 0
  BY <1>1, FrontFacts
<1>4. << >> \in Seq(Data(n)) /\ Len(<< >>) = 0 /\ DOMAIN << >> = {}
  OBVIOUS
<1>5. misses \in Nat
  BY DEF Losses
<1> HIDE DEF t, misses
<1>6. InHand(t, << >>, misses)
  BY <1>3, <1>4, <1>5 DEF InHand, Pure
<1>7. ASSUME connected
      PROVE  LittleLost(t, n, << >>, Excused(files1, lost1))
  <2>1. LittleLost(w, n, data, Excused(files, lo))
    BY <1>7 DEF Down
  <2>2. Excused(files, lo) \in Nat /\ Position(w, n) \in Nat
    <3>1. Position(w, n) \in Nat
      BY <1>2 DEF Msgs
    <3> QED BY <1>1, <3>1, Numbers
  <2>3. Position(t, n) = Position(w, n) + 1
    BY <1>2, <1>7
  <2> QED BY <1>3, <1>4, <2>1, <2>2, <2>3 DEF LittleLost
<1> QED BY <1>1, <1>2, <1>4, <1>6, <1>7 DEF Down, t, misses

\* An end marker is lost: the data stays where the next model's will follow.
LEMMA DownLosesEnd ==
    ASSUME NEW connected \in BOOLEAN, NEW n \in Nat, NEW w, NEW data, NEW files, NEW lo,
           Down(connected, n, w, data, files, lo), w # << >>, Head(w).part = EndMarker,
           NEW lost1 \in Losses, lost1.chunk = lo.chunk, lost1.end = lo.end + 1,
           lost1.disk = lo.disk
    PROVE  Down(connected, n, Tail(w), data, files, lost1)
<1> DEFINE t == Tail(w)
           misses == lo.chunk + lo.end
<1>1. /\ w \in Seq(Msgs(n)) /\ data \in Seq(Data(n)) /\ Stream(w) /\ lo \in Losses
      /\ files \in Seq(Seq(Data(n)))
  BY DEF Down
<1>2. /\ t \in Seq(Msgs(n)) /\ Stream(t) /\ Ordered(t) /\ Head(w) \in Msgs(n)
      /\ Position(w, n) = Head(w).model
      /\ connected => /\ Complete(t) /\ Markers(t) = Position(t, n)..n
                      /\ Position(t, n) = Position(w, n) + 1
  BY DownFront
<1>3. Gone(w) = Chunks /\ Gone(t) = 0 /\ Chunks \in Nat
  BY <1>1, FrontFacts, ChunksAssumption
<1>4. /\ misses \in Nat /\ lost1.chunk + lost1.end = misses + 1
      /\ Len(data) \in Nat /\ Len(files) \in Nat
  <2>1. /\ lo.chunk \in Nat /\ lo.end \in Nat /\ lo.disk \in Nat
        /\ Len(files) \in Nat /\ Excused(files, lo) \in Nat
    BY <1>1, Numbers
  <2> QED BY <1>1, <2>1
<1>5. InHand(w, data, misses)
  BY DEF Down
<1> HIDE DEF t, misses
<1>6. InHand(t, data, misses + 1)
  BY <1>3, <1>4, <1>5 DEF InHand
<1>7. ASSUME connected
      PROVE  LittleLost(t, n, data, Excused(files, lost1))
  <2>1. LittleLost(w, n, data, Excused(files, lo))
    BY <1>7 DEF Down
  <2>2. Excused(files, lo) \in Nat /\ Position(w, n) \in Nat
    <3>1. Position(w, n) \in Nat
      BY <1>2 DEF Msgs
    <3> QED BY <1>1, <3>1, Numbers
  <2>3. Excused(files, lost1) = Excused(files, lo) + 2
    <3>1. /\ lo.chunk \in Nat /\ lo.end \in Nat /\ lo.disk \in Nat
          /\ Len(files) \in Nat /\ Excused(files, lo) \in Nat
      BY <1>1, Numbers
    <3>2. \A a, b, e, d \in Nat : a + b + d + 2 * (e + 1) + 1 = (a + b + d + 2 * e + 1) + 2
      OBVIOUS
    <3>3. Excused(files, lost1) = Len(files) + lo.chunk + lo.disk + 2 * (lo.end + 1) + 1
      BY DEF Excused
    <3>4. Excused(files, lo) = Len(files) + lo.chunk + lo.disk + 2 * lo.end + 1
      BY DEF Excused
    <3> QED BY <3>1, <3>2, <3>3, <3>4, SMTT(30)
  <2>4. Position(t, n) = Position(w, n) + 1
    BY <1>2, <1>7
  <2> QED BY <2>1, <2>2, <2>3, <2>4 DEF LittleLost
<1> QED BY <1>1, <1>2, <1>4, <1>6, <1>7 DEF Down, t, misses

\* Types only widen when a model is published.
LEMMA TypesWiden ==
    ASSUME NEW n \in Nat
    PROVE  /\ Msgs(n) \subseteq Msgs(n + 1) /\ Data(n) \subseteq Data(n + 1)
           /\ Seq(Msgs(n)) \subseteq Seq(Msgs(n + 1)) /\ Seq(Data(n)) \subseteq Seq(Data(n + 1))
           /\ Seq(Seq(Data(n))) \subseteq Seq(Seq(Data(n + 1)))
<1>1. Msgs(n) \subseteq Msgs(n + 1)
  BY DEF Msgs
<1>2. Data(n) \subseteq Data(n + 1)
  BY DEF Data
<1>3. \A S, T : S \subseteq T => Seq(S) \subseteq Seq(T)
  OBVIOUS
<1>4. Seq(Data(n)) \subseteq Seq(Data(n + 1))
  BY <1>2, <1>3
<1> QED BY <1>1, <1>2, <1>3, <1>4

\* The edge publishes while it and the client are connected.
LEMMA DownPublishes ==
    ASSUME NEW n \in Nat, NEW w, NEW data, NEW files, NEW lo,
           Down(TRUE, n, w, data, files, lo)
    PROVE  Down(TRUE, n + 1, w \o Messages(n + 1), data, files, lo)
<1> DEFINE v == w \o Messages(n + 1)
           misses == lo.chunk + lo.end
<1>1. /\ w \in Seq(Msgs(n)) /\ Stream(w) /\ Ordered(w) /\ Complete(w)
      /\ data \in Seq(Data(n)) /\ files \in Seq(Seq(Data(n))) /\ lo \in Losses
      /\ Markers(w) = Position(w, n)..n /\ InHand(w, data, misses)
      /\ LittleLost(w, n, data, Excused(files, lo))
  BY DEF Down
<1>2. w \in Seq(Msgs(n + 1)) /\ data \in Seq(Data(n + 1)) /\ files \in Seq(Seq(Data(n + 1)))
  BY <1>1, TypesWiden
<1>3. /\ v \in Seq(Msgs(n + 1)) /\ v # << >> /\ Stream(v) /\ Complete(v)
      /\ Gone(v) = Gone(w)
      /\ Head(v).model = IF w = << >> THEN n + 1 ELSE Head(w).model
  <2>1. n + 1 \in Nat /\ n + 1 \in 1..(n + 1)
    OBVIOUS
  <2> QED BY <1>1, <1>2, <2>1, ConcatFacts
<1>4. Ordered(v) /\ Markers(v) = Markers(w) \cup {n + 1}
  BY <1>1, MarkersConcat
<1> HIDE DEF v, misses
<1>5. Position(v, n + 1) = Position(w, n) /\ Position(w, n) \in 1..(n + 1)
  <2>1. w # << >> => Head(w) \in Msgs(n) /\ Head(w).model \in 1..n
    <3>1. w # << >> => Head(w) \in Msgs(n)
      BY <1>1
    <3> QED BY <3>1 DEF Msgs
  <2> QED BY <1>3, <2>1 DEF Position
<1>6. Markers(v) = Position(v, n + 1)..(n + 1)
  BY <1>1, <1>4, <1>5
<1>7. InHand(v, data, misses)
  <2>1. CASE w # << >>
    BY <1>1, <1>3, <2>1 DEF InHand
  <2>2. CASE w = << >>
    <3>1. Gone(w) = 0
      BY <2>2 DEF Gone
    <3>2. CASE Pure(data, Head(w).model, 0) /\ Len(data) + misses >= 0
      <4>1. Len(data) <= 0 /\ Len(data) \in Nat /\ DOMAIN data = 1..Len(data)
        BY <1>1, <3>2 DEF Pure
      <4>2. DOMAIN data = {}
        BY <4>1
      <4>3. Pure(data, Head(v).model, 0)
        BY <4>1, <4>2 DEF Pure
      <4> QED BY <1>3, <3>1, <3>2, <4>3 DEF InHand
    <3> QED BY <1>1, <1>3, <3>1, <3>2 DEF InHand
  <2> QED BY <2>1, <2>2
<1>8. LittleLost(v, n + 1, data, Excused(files, lo))
  BY <1>1, <1>3, <1>5 DEF LittleLost
<1> QED BY <1>1, <1>2, <1>3, <1>4, <1>6, <1>7, <1>8 DEF Down, v, misses

\* The edge publishes and the client gets nothing of it.
LEMMA DownMisses ==
    ASSUME NEW n \in Nat, NEW w, NEW data, NEW files, NEW lo,
           Down(FALSE, n, w, data, files, lo)
    PROVE  Down(FALSE, n + 1, w, data, files, lo)
BY TypesWiden DEF Down

\* The connection is lost, and with it messages from some place on.
LEMMA DownCut ==
    ASSUME NEW connected \in BOOLEAN, NEW n \in Nat, NEW w, NEW data, NEW files, NEW lo,
           Down(connected, n, w, data, files, lo), NEW k \in Nat, k <= Len(w)
    PROVE  Down(FALSE, n, SubSeq(w, 1, k), data, files, lo)
<1> DEFINE v == SubSeq(w, 1, k)
<1>1. /\ w \in Seq(Msgs(n)) /\ Stream(w) /\ Ordered(w)
      /\ data \in Seq(Data(n)) /\ files \in Seq(Seq(Data(n))) /\ lo \in Losses
      /\ w # << >> => InHand(w, data, lo.chunk + lo.end)
  BY DEF Down
<1>2. /\ v \in Seq(Msgs(n)) /\ Stream(v) /\ Ordered(v)
      /\ v # << >> => w # << >> /\ Head(v) = Head(w) /\ Gone(v) = Gone(w)
  BY <1>1, PrefixFacts
<1> HIDE DEF v
<1>3. v # << >> => InHand(v, data, lo.chunk + lo.end)
  BY <1>1, <1>2 DEF InHand
<1> QED BY <1>1, <1>2, <1>3 DEF Down, v

\* What a client saves after few losses is the model of the marker.
LEMMA SavedIsWhole ==
    ASSUME NEW connected \in BOOLEAN, NEW n \in Nat, NEW w, NEW data, NEW files, NEW lo,
           Down(connected, n, w, data, files, lo), w # << >>, Head(w).part = EndMarker,
           Len(data) = Chunks, lo.chunk + lo.end <= Chunks
    PROVE  Head(w).model \in 1..n /\ data = FileOf(Head(w).model)
<1> DEFINE k == Head(w).model
           misses == lo.chunk + lo.end
<1>1. /\ w \in Seq(Msgs(n)) /\ data \in Seq(Data(n)) /\ Stream(w) /\ lo \in Losses
      /\ files \in Seq(Seq(Data(n))) /\ InHand(w, data, misses)
  BY DEF Down
<1>2. Gone(w) = Chunks /\ Chunks \in Nat \ {0} /\ k \in 1..n
  <2>1. Gone(w) = Chunks /\ Head(w) \in Msgs(n)
    BY <1>1, FrontFacts
  <2> QED BY <2>1, ChunksAssumption DEF Msgs
<1>3. misses \in Nat /\ misses <= Chunks
  BY <1>1, Numbers
<1> HIDE DEF k, misses
<1>4. Pure(data, k, Chunks)
  BY <1>1, <1>2, <1>3 DEF InHand, k
<1>5. DOMAIN data = 1..Chunks /\ \A i \in 1..Chunks : data[i] \in Data(n)
  BY <1>1
<1>6. ASSUME NEW i \in 1..Chunks
      PROVE  data[i] = [model |-> k, part |-> i]
  <2>1. data[i].part \in 1..Chunks /\ data[i] = [model |-> data[i].model, part |-> data[i].part]
    BY <1>5 DEF Data
  <2>2. data[i].model = k /\ i <= data[i].part /\ data[i].part + Len(data) <= Chunks + i
    BY <1>4, <1>5 DEF Pure
  <2>3. data[i].part = i
    BY <1>2, <2>1, <2>2
  <2> QED BY <2>1, <2>2, <2>3
<1>7. data = [i \in 1..Chunks |-> data[i]]
  BY <1>1, <1>5
<1> QED BY <1>2, <1>6, <1>7 DEF FileOf, k

-----------------------------------------------------------------------------
(* Merging chunk files. *)

\* A finite set of numbers has an n-th element for each n up to its size.
LEMMA NthExists ==
    ASSUME NEW P \in SUBSET Nat, IsFiniteSet(P), NEW n \in 1..Cardinality(P)
    PROVE  \E p \in P : Cardinality({q \in P : q <= p}) = n
<1> DEFINE UpTo(p) == {q \in P : q <= p}
           f == [p \in P |-> Cardinality(UpTo(p))]
           image == {Cardinality(UpTo(p)) : p \in P}
<1>1. Cardinality(P) \in Nat
  BY FS_CardinalityType
<1>2. \A p \in P : IsFiniteSet(UpTo(p)) /\ Cardinality(UpTo(p)) \in 1..Cardinality(P)
  <2> TAKE p \in P
  <2>1. IsFiniteSet(UpTo(p)) /\ Cardinality(UpTo(p)) <= Cardinality(P)
    <3>1. UpTo(p) \in SUBSET P
      OBVIOUS
    <3> QED BY <3>1, FS_Subset
  <2>2. Cardinality(UpTo(p)) \in Nat
    BY <2>1, FS_CardinalityType
  <2>3. Cardinality(UpTo(p)) # 0
    <3>1. p \in UpTo(p)
      OBVIOUS
    <3> QED BY <2>1, <3>1, FS_EmptySet
  <2> QED BY <1>1, <2>1, <2>2, <2>3
<1>3. \A p, r \in P : Cardinality(UpTo(p)) = Cardinality(UpTo(r)) => p = r
  <2>1. ASSUME NEW p \in P, NEW r \in P, p < r
        PROVE  Cardinality(UpTo(p)) # Cardinality(UpTo(r))
    <3>1. UpTo(p) \in SUBSET UpTo(r) /\ r \in UpTo(r) /\ r \notin UpTo(p)
      <4>1. p \in Nat /\ r \in Nat /\ \A q \in P : q \in Nat
        OBVIOUS
      <4>2. \A q \in P : q <= p => q <= r
        BY <2>1, <4>1
      <4>3. ~(r <= p) /\ r <= r
        BY <2>1, <4>1
      <4> QED BY <4>2, <4>3
    <3> QED BY <1>2, <3>1, FS_Subset
  <2> QED BY <2>1
<1>4. IsFiniteSet(image) /\ Cardinality(image) = Cardinality(P)
  <2> HIDE DEF UpTo
  <2>1. f \in Bijection(P, image)
    BY <1>3 DEF Bijection, Injection, Surjection, IsInjective
  <2>2. ExistsBijection(P, image)
    BY <2>1 DEF ExistsBijection
  <2> QED BY <2>2, FS_Bijection
<1>5. image \in SUBSET (1..Cardinality(P))
  BY <1>2
<1>6. IsFiniteSet(1..Cardinality(P)) /\ Cardinality(1..Cardinality(P)) = Cardinality(P)
  BY <1>1, FS_Interval
<1>7. image = 1..Cardinality(P)
  BY <1>4, <1>5, <1>6, FS_Subset
<1> QED BY <1>7

LEMMA SameCardinality == \A S : Assembly!Cardinality(S) = Cardinality(S)
BY DEF Assembly!Cardinality, Cardinality

\* The merged file is made of chunk files; it has the right length only when
\* none is missing, and then it has them in their order.
LEMMA MergedFacts ==
    ASSUME NEW n \in Nat, NEW files, FilesTyped(n, files)
    PROVE  /\ Assembly!Merged(files) \in Seq(Data(n))
           /\ Len(Assembly!Merged(files)) = Chunks => DOMAIN files = 1..Chunks
           /\ \A k : /\ DOMAIN files = 1..Chunks
                     /\ \A p \in 1..Chunks : files[p].model = k
                     => Assembly!Merged(files) = FileOf(k)
<1> DEFINE P == DOMAIN files
           merged == Assembly!Merged(files)
<1>1. Chunks \in Nat /\ IsFiniteSet(1..Chunks) /\ Cardinality(1..Chunks) = Chunks
  BY ChunksAssumption, FS_Interval
<1>2. /\ P \in SUBSET (1..Chunks) /\ P \in SUBSET Nat /\ IsFiniteSet(P)
      /\ Cardinality(P) \in Nat
  <2>1. P \in SUBSET (1..Chunks)
    BY DEF FilesTyped
  <2>2. IsFiniteSet(P)
    BY <1>1, <2>1, FS_Subset
  <2> QED BY <1>1, <2>1, <2>2, FS_CardinalityType
<1>3. \A i \in 1..Cardinality(P) :
         /\ Assembly!NthPart(files, i) \in P
         /\ Cardinality({q \in P : q <= Assembly!NthPart(files, i)}) = i
  <2> TAKE i \in 1..Cardinality(P)
  <2>1. \E p \in P : Cardinality({q \in P : q <= p}) = i
    BY <1>2, NthExists
  <2>2. \E p \in P : Assembly!Cardinality({q \in P : q <= p}) = i
    BY <2>1, SameCardinality
  <2>3. /\ Assembly!NthPart(files, i) \in P
        /\ Assembly!Cardinality({q \in P : q <= Assembly!NthPart(files, i)}) = i
    BY <2>2 DEF Assembly!NthPart
  <2> QED BY <2>3, SameCardinality
<1>4. merged = [i \in 1..Cardinality(P) |-> files[Assembly!NthPart(files, i)]]
  BY SameCardinality DEF Assembly!Merged
<1> HIDE DEF merged
<1>5. merged \in Seq(Data(n)) /\ Len(merged) = Cardinality(P)
  <2>1. \A i \in 1..Cardinality(P) : files[Assembly!NthPart(files, i)] \in Data(n)
    BY <1>3 DEF FilesTyped
  <2> QED BY <1>2, <1>4, <2>1
<1>6. Len(merged) = Chunks => P = 1..Chunks
  BY <1>1, <1>2, <1>5, FS_Subset
<1>7. ASSUME NEW k, P = 1..Chunks, \A p \in 1..Chunks : files[p].model = k
      PROVE  merged = FileOf(k)
  <2>1. \A p \in 1..Chunks : files[p] = [model |-> k, part |-> p]
    <3> TAKE p \in 1..Chunks
    <3>1. files[p] \in Data(n) /\ files[p].part = p /\ files[p].model = k
      BY <1>7 DEF FilesTyped
    <3> QED BY <3>1 DEF Data
  <2>2. \A i \in 1..Chunks : Assembly!NthPart(files, i) = i
    <3> TAKE i \in 1..Chunks
    <3> DEFINE p == Assembly!NthPart(files, i)
    <3>1. p \in 1..Chunks /\ Cardinality({q \in P : q <= p}) = i
      BY <1>1, <1>3, <1>7
    <3> HIDE DEF p
    <3>2. {q \in P : q <= p} = 1..p
      BY <1>1, <1>7, <3>1
    <3>3. Cardinality(1..p) = p
      BY <1>1, <3>1, FS_Interval
    <3> QED BY <3>1, <3>2, <3>3 DEF p
  <2>3. merged = [i \in 1..Chunks |-> files[Assembly!NthPart(files, i)]]
    BY <1>1, <1>4, <1>7
  <2> QED BY <2>1, <2>2, <2>3 DEF FileOf
<1> QED BY <1>5, <1>6, <1>7 DEF merged

-----------------------------------------------------------------------------
(* Steps of the path to the edge. *)

\* The number of messages lost.
Total(lo) == lo.chunk + lo.end + lo.disk

\* A chunk is written to the file of its part.
LEMMA UpFilesChunk ==
    ASSUME NEW connected \in BOOLEAN, NEW n \in Nat, NEW w, NEW files, NEW model,
           NEW announced, NEW lo, Up(connected, n, w, files, model, announced, lo),
           w # << >>, Head(w).part # EndMarker
    PROVE  Up(connected, n, Tail(w), Assembly!WithChunk(files, Head(w)), model, announced, lo)
<1> DEFINE t == Tail(w)
           h == Head(w)
           more == Assembly!WithChunk(files, h)
<1>1. /\ w \in Seq(Msgs(n)) /\ Stream(w) /\ FilesTyped(n, files) /\ OnFile(w, files, lo)
      /\ connected => Complete(w)
  BY DEF Up
<1>2. /\ h \in Msgs(n) /\ t \in Seq(Msgs(n)) /\ Stream(t)
      /\ connected => Complete(t) /\ t # << >>
      /\ h.part \in 1..Chunks /\ Gone(w) = h.part - 1
      /\ t # << >> => Head(t).model = h.model /\ Gone(t) = h.part
  BY <1>1, FrontFacts
<1>3. h \in Data(n)
  BY <1>2 DEF Msgs, Data
<1> HIDE DEF t, h
<1>4. more = [p \in DOMAIN files \cup {h.part} |-> IF p = h.part THEN h ELSE files[p]]
  BY DEF Assembly!WithChunk
<1> HIDE DEF more
<1>5. DOMAIN more = DOMAIN files \cup {h.part}
  BY <1>4
<1>6. \A p \in DOMAIN more : more[p] = IF p = h.part THEN h ELSE files[p]
  BY <1>4
<1>7. FilesTyped(n, more)
  <2>1. more = [p \in DOMAIN more |-> more[p]]
    BY <1>4
  <2> QED BY <1>1, <1>2, <1>3, <1>5, <1>6, <2>1 DEF FilesTyped
<1>8. ASSUME t # << >>
      PROVE  OnFile(t, more, lo)
  <2>1. /\ Gone(t) = h.part /\ Gone(w) = h.part - 1 /\ h.part \in Nat \ {0}
        /\ Head(t).model = h.model
    BY <1>2, <1>8
  <2>2. 1..Gone(t) = 1..Gone(w) \cup {h.part}
    BY <2>1
  <2>3. h.part \in DOMAIN more /\ more[h.part].model = h.model
    BY <1>5, <1>6
  <2>4. \A p \in 1..Gone(w) : /\ p \in DOMAIN files <=> p \in DOMAIN more
                              /\ p \in DOMAIN files => more[p] = files[p]
    <3>1. \A p \in 1..Gone(w) : p # h.part
      BY <2>1
    <3> QED BY <1>5, <1>6, <3>1
  <2>5. Head(w).model = h.model
    BY DEF h
  <2> QED BY <1>1, <1>5, <2>1, <2>2, <2>3, <2>4, <2>5 DEF OnFile
<1> QED BY <1>1, <1>2, <1>7, <1>8 DEF Up, t, h, more

\* A message, or its effect, is lost.
LEMMA UpLoses ==
    ASSUME NEW connected \in BOOLEAN, NEW n \in Nat, NEW w, NEW files, NEW model,
           NEW announced, NEW lo, Up(connected, n, w, files, model, announced, lo),
           w # << >>,
           NEW lost1 \in Losses, lost1.chunk >= lo.chunk, lost1.disk >= lo.disk,
           Total(lost1) = Total(lo) + 1,
           Head(w).part # EndMarker => lost1.end = lo.end
    PROVE  Up(connected, n, Tail(w), files, model, announced, lost1)
<1> DEFINE t == Tail(w)
           h == Head(w)
<1>1. /\ w \in Seq(Msgs(n)) /\ Stream(w) /\ FilesTyped(n, files) /\ OnFile(w, files, lo)
      /\ connected => Complete(w)
      /\ lo \in Losses
  BY DEF Up
<1>2. /\ h \in Msgs(n) /\ t \in Seq(Msgs(n)) /\ Stream(t)
      /\ connected => Complete(t)
      /\ h.part = EndMarker => Gone(t) = 0
      /\ h.part # EndMarker =>
            /\ connected => t # << >>
            /\ h.part \in 1..Chunks /\ Gone(w) = h.part - 1
            /\ t # << >> => Head(t).model = h.model /\ Gone(t) = h.part
  BY <1>1, FrontFacts
<1>3. /\ lo.chunk \in Nat /\ lo.end \in Nat /\ lo.disk \in Nat
      /\ lost1.chunk \in Nat /\ lost1.end \in Nat /\ lost1.disk \in Nat
      /\ lost1.chunk + lost1.end + lost1.disk = lo.chunk + lo.end + lo.disk + 1
  BY <1>1 DEF Losses, Total
<1> HIDE DEF t, h
<1>4. ASSUME t # << >> \/ connected
      PROVE  OnFile(t, files, lost1)
  <2>1. lost1.chunk + lost1.end + lost1.disk # 0
    BY <1>3
  <2>2. CASE h.part = EndMarker
    <3>1. 1..Gone(t) = {}
      BY <1>2, <2>2
    <3> QED BY <2>1, <3>1 DEF OnFile
  <2>3. CASE h.part # EndMarker
    <3>1. lost1.chunk + lost1.disk # 0
      BY <1>3, <2>3 DEF h
    <3>2. /\ Gone(t) = h.part /\ Gone(w) = h.part - 1 /\ h.part \in Nat \ {0}
          /\ Head(t).model = h.model
      BY <1>2, <1>4, <2>3
    <3>3. ASSUME lost1.chunk + lost1.end + lost1.disk <= 1,
                 NEW p \in 1..Gone(t), p \in DOMAIN files
          PROVE  files[p].model = Head(t).model
      <4>1. lo.chunk + lo.end + lo.disk = 0
        BY <1>3, <3>3
      <4>2. p \in 1..Gone(w)
        BY <1>1, <3>3, <4>1 DEF OnFile
      <4> QED BY <1>1, <3>2, <3>3, <4>1, <4>2 DEF OnFile, h
    <3> QED BY <2>1, <3>1, <3>3 DEF OnFile
  <2> QED BY <2>2, <2>3
<1>5. /\ lost1.chunk + lost1.disk = 0 => lo.chunk + lo.disk = 0
      /\ lost1.chunk + lost1.end + lost1.disk <= 1 => lo.chunk + lo.end + lo.disk <= 1
  BY <1>3, SMTT(30)
<1> QED BY <1>1, <1>2, <1>4, <1>5 DEF Up, t, h

\* An end marker is taken and the chunk files are removed; model1 is then in
\* model.pt and announced1 has been announced.
LEMMA UpTakesEnd ==
    ASSUME NEW connected \in BOOLEAN, NEW n \in Nat, NEW w, NEW files, NEW model,
           NEW announced, NEW lo, Up(connected, n, w, files, model, announced, lo),
           w # << >>, Head(w).part = EndMarker,
           NEW model1 \in Seq(Data(n)), NEW announced1 \in Seq(Seq(Data(n))),
           NEW lost1 \in Losses,
           lost1.chunk + lost1.disk = 0 => model1 = << >> \/ WholeOf(model1, n),
           lost1.chunk + lost1.end + lost1.disk <= 1 =>
              \A i \in DOMAIN announced1 : WholeOf(announced1[i], n)
    PROVE  Up(connected, n, Tail(w), Assembly!NoFiles, model1, announced1, lost1)
<1> DEFINE t == Tail(w)
           none == Assembly!NoFiles
<1>1. w \in Seq(Msgs(n)) /\ Stream(w) /\ (connected => Complete(w))
  BY DEF Up
<1>2. t \in Seq(Msgs(n)) /\ Stream(t) /\ (connected => Complete(t)) /\ Gone(t) = 0
  BY <1>1, FrontFacts
<1>3. DOMAIN none = {} /\ none = [p \in DOMAIN none |-> none[p]]
  BY DEF Assembly!NoFiles
<1> HIDE DEF t, none
<1>4. FilesTyped(n, none)
  BY <1>3 DEF FilesTyped
<1>5. OnFile(t, none, lost1)
  <2>1. 1..Gone(t) = {}
    BY <1>2
  <2> QED BY <1>3, <2>1 DEF OnFile
<1> QED BY <1>2, <1>4, <1>5 DEF Up, t, none

\* What the merged file is when the end marker is taken.
LEMMA MergedWhole ==
    ASSUME NEW connected \in BOOLEAN, NEW n \in Nat, NEW w, NEW files, NEW model,
           NEW announced, NEW lo, Up(connected, n, w, files, model, announced, lo),
           w # << >>, Head(w).part = EndMarker
    PROVE  /\ Assembly!Merged(files) \in Seq(Data(n))
           /\ lo.chunk + lo.disk = 0 => WholeOf(Assembly!Merged(files), n)
           /\ Len(Assembly!Merged(files)) = Chunks /\ lo.chunk + lo.end + lo.disk <= 1 =>
                 WholeOf(Assembly!Merged(files), n)
<1> DEFINE merged == Assembly!Merged(files)
           k == Head(w).model
<1>1. /\ w \in Seq(Msgs(n)) /\ Stream(w) /\ FilesTyped(n, files) /\ OnFile(w, files, lo)
  BY DEF Up
<1>2. k \in 1..n /\ Gone(w) = Chunks
  <2>1. Head(w) \in Msgs(n) /\ Gone(w) = Chunks
    BY <1>1, FrontFacts
  <2> QED BY <2>1 DEF Msgs
<1>3. /\ merged \in Seq(Data(n))
      /\ Len(merged) = Chunks => DOMAIN files = 1..Chunks
      /\ (DOMAIN files = 1..Chunks /\ \A p \in 1..Chunks : files[p].model = k) =>
            merged = FileOf(k)
  BY <1>1, MergedFacts
<1> HIDE DEF merged, k
<1>4. ASSUME lo.chunk + lo.disk = 0
      PROVE  WholeOf(merged, n)
  <2>1. \A p \in 1..Chunks : p \in DOMAIN files /\ files[p].model = k
    BY <1>1, <1>2, <1>4 DEF OnFile, k
  <2>2. DOMAIN files = 1..Chunks
    BY <1>1, <2>1 DEF FilesTyped
  <2> QED BY <1>2, <1>3, <2>1, <2>2 DEF WholeOf
<1>5. ASSUME Len(merged) = Chunks, lo.chunk + lo.end + lo.disk <= 1
      PROVE  WholeOf(merged, n)
  <2>1. DOMAIN files = 1..Chunks
    BY <1>3, <1>5
  <2>2. \A p \in 1..Chunks : files[p].model = k
    BY <1>1, <1>2, <1>5, <2>1 DEF OnFile, k
  <2> QED BY <1>2, <1>3, <2>1, <2>2 DEF WholeOf
<1> QED BY <1>3, <1>4, <1>5 DEF merged

\* A connected client uploads a model.
LEMMA UpUploads ==
    ASSUME NEW n \in Nat, NEW w, NEW files, NEW model, NEW announced, NEW lo,
           Up(TRUE, n, w, files, model, announced, lo), NEW m \in 1..n
    PROVE  Up(TRUE, n, w \o Messages(m), files, model, announced, lo)
<1> DEFINE v == w \o Messages(m)
<1>1. w \in Seq(Msgs(n)) /\ Stream(w) /\ Complete(w) /\ OnFile(w, files, lo)
  BY DEF Up
<1>2. /\ v \in Seq(Msgs(n)) /\ v # << >> /\ Stream(v) /\ Complete(v) /\ Gone(v) = Gone(w)
      /\ w # << >> => Head(v).model = Head(w).model
  BY <1>1, ConcatFacts
<1> HIDE DEF v
<1>3. OnFile(v, files, lo)
  <2>1. CASE w # << >>
    BY <1>1, <1>2, <2>1 DEF OnFile
  <2>2. CASE w = << >>
    <3>1. Gone(w) = 0 /\ 1..Gone(v) = {} /\ 1..Gone(w) = {}
      BY <1>2, <2>2 DEF Gone
    <3> QED BY <1>1, <3>1 DEF OnFile
  <2> QED BY <2>1, <2>2
<1> QED BY <1>2, <1>3 DEF Up, v

\* One more model is published, which changes nothing on the path.
LEMMA UpPublished ==
    ASSUME NEW connected \in BOOLEAN, NEW n \in Nat, NEW w, NEW files, NEW model,
           NEW announced, NEW lo, Up(connected, n, w, files, model, announced, lo)
    PROVE  Up(connected, n + 1, w, files, model, announced, lo)
<1>1. \A file : WholeOf(file, n) => WholeOf(file, n + 1)
  BY DEF WholeOf
<1>2. FilesTyped(n + 1, files)
  BY TypesWiden DEF Up, FilesTyped
<1>3. w \in Seq(Msgs(n + 1)) /\ model \in Seq(Data(n + 1)) /\ announced \in Seq(Seq(Data(n + 1)))
  BY TypesWiden DEF Up
<1> QED BY <1>1, <1>2, <1>3 DEF Up

LEMMA UpCut ==
    ASSUME NEW connected \in BOOLEAN, NEW n \in Nat, NEW w, NEW files, NEW model,
           NEW announced, NEW lo, Up(connected, n, w, files, model, announced, lo),
           NEW k \in Nat, k <= Len(w)
    PROVE  Up(FALSE, n, SubSeq(w, 1, k), files, model, announced, lo)
<1> DEFINE v == SubSeq(w, 1, k)
<1>1. w \in Seq(Msgs(n)) /\ Stream(w) /\ (w # << >> => OnFile(w, files, lo))
  BY DEF Up
<1>2. /\ v \in Seq(Msgs(n)) /\ Stream(v)
      /\ v # << >> => w # << >> /\ Head(v) = Head(w) /\ Gone(v) = Gone(w)
  BY <1>1, PrefixFacts
<1> HIDE DEF v
<1>3. v # << >> => OnFile(v, files, lo)
  BY <1>1, <1>2 DEF OnFile
<1> QED BY <1>2, <1>3 DEF Up, v

\* The round timer finds nothing on the path.
LEMMA UpClosed ==
    ASSUME NEW connected \in BOOLEAN, NEW n \in Nat, NEW files, NEW model,
           NEW announced, NEW lo, Up(connected, n, << >>, files, model, announced, lo)
    PROVE  Up(connected, n, << >>, Assembly!NoFiles, << >>, announced, lo)
<1> DEFINE none == Assembly!NoFiles
<1>1. DOMAIN none = {} /\ none = [p \in DOMAIN none |-> none[p]]
  BY DEF Assembly!NoFiles
<1>2. Gone(<< >>) = 0 /\ 1..Gone(<< >>) = {}
  BY DEF Gone
<1> HIDE DEF none
<1>3. FilesTyped(n, none) /\ OnFile(<< >>, none, lo)
  BY <1>1, <1>2 DEF FilesTyped, OnFile
<1>4. << >> \in Seq(Data(n))
  OBVIOUS
<1> QED BY <1>3, <1>4 DEF Up, none

-----------------------------------------------------------------------------
(* Steps of the system change the values of one client. *)

LEMMA ConstantFacts ==
    /\ published \in 0..MaxPublished /\ faults \in 0..MaxFaults
    => published \in Nat /\ faults \in Nat /\ MaxPublished \in Nat /\ MaxFaults \in Nat
BY BoundsAssumption

LEMMA WholeMeans == \A file : Whole(file) <=> WholeOf(file, published)
BY DEF Whole, WholeOf

\* What has been aggregated stays what it is.
LEMMA AggregateKept ==
    ASSUME AggregatesWholeModels, aggregate' = aggregate,
           published \in Nat, published' \in {published, published + 1},
           \A c \in Clients : lostUp'[c].chunk + lostUp'[c].disk = 0 =>
                              lostUp[c].chunk + lostUp[c].disk = 0
    PROVE  AggregatesWholeModels'
<1>1. \A file : Whole(file) => Whole(file)'
  BY DEF Whole, FileOf
<1> QED BY <1>1 DEF AggregatesWholeModels

\* A step of the path to client c.
LEMMA DownStep ==
    ASSUME IInv, NEW c \in Clients, NEW w, NEW data, NEW files, NEW lo,
           UNCHANGED <<online, published, assemblyVars>>,
           training' \in [Clients -> SUBSET (1..published)], faults' \in 0..MaxFaults,
           wire' = [wire EXCEPT ![c] = w],
           receivedModelData' = [receivedModelData EXCEPT ![c] = data],
           saved' = [saved EXCEPT ![c] = files], lost' = [lost EXCEPT ![c] = lo],
           Down(Connected(c), published, w, data, files, lo)
    PROVE  IInv'
<1>1. /\ upWire' = upWire /\ roundOpen' = roundOpen /\ chunkFiles' = chunkFiles
      /\ modelFile' = modelFile /\ roundModels' = roundModels /\ filed' = filed
      /\ aggregate' = aggregate /\ lostUp' = lostUp
      /\ published' = published /\ online' = online
  BY DEF assemblyVars
<1>2. /\ wire = [d \in Clients |-> wire[d]]
      /\ receivedModelData = [d \in Clients |-> receivedModelData[d]]
      /\ saved = [d \in Clients |-> saved[d]] /\ lost = [d \in Clients |-> lost[d]]
  BY DEF IInv, Shapes
<1>3. /\ wire' = [d \in Clients |-> wire'[d]]
      /\ receivedModelData' = [d \in Clients |-> receivedModelData'[d]]
      /\ saved' = [d \in Clients |-> saved'[d]] /\ lost' = [d \in Clients |-> lost'[d]]
  BY <1>2
<1>4. Shapes'
  BY <1>1, <1>3 DEF IInv, Shapes, Data
<1>5. Rounds' /\ Ups'
  BY <1>1 DEF IInv, Rounds, Ups, Connected
<1>6. Downs'
  <2> SUFFICES ASSUME NEW d \in Clients
               PROVE  Down(Connected(d), published, wire'[d], receivedModelData'[d],
                           saved'[d], lost'[d])
    BY <1>1 DEF Downs, Connected
  <2>1. CASE d = c
    <3>1. wire'[c] = w /\ receivedModelData'[c] = data /\ saved'[c] = files /\ lost'[c] = lo
      BY <1>2
    <3> QED BY <2>1, <3>1
  <2>2. CASE d # c
    <3>1. /\ wire'[d] = wire[d] /\ receivedModelData'[d] = receivedModelData[d]
          /\ saved'[d] = saved[d] /\ lost'[d] = lost[d]
      BY <1>2, <2>2
    <3> QED BY <3>1 DEF IInv, Downs
  <2> QED BY <2>1, <2>2
<1>7. AggregatesWholeModels'
  BY <1>1, AggregateKept, ConstantFacts DEF IInv, Shapes
<1> QED BY <1>4, <1>5, <1>6, <1>7 DEF IInv

\* A step of the path from client c; what it means for the round is left open.
LEMMA UpStep ==
    ASSUME IInv, NEW c \in Clients, NEW w, NEW files, NEW model, NEW announced, NEW lo,
           UNCHANGED <<online, published, wire, receivedModelData, saved, lost>>,
           training' \in [Clients -> SUBSET (1..published)], faults' \in 0..MaxFaults,
           aggregate' \in [Clients -> Seq(Data(published))],
           upWire' = [upWire EXCEPT ![c] = w],
           chunkFiles' = [chunkFiles EXCEPT ![c] = files],
           modelFile' = [modelFile EXCEPT ![c] = model],
           filed' = [filed EXCEPT ![c] = announced], lostUp' = [lostUp EXCEPT ![c] = lo],
           Up(Connected(c), published, w, files, model, announced, lo)
    PROVE  Shapes' /\ Downs' /\ Ups'
<1>2. /\ upWire = [d \in Clients |-> upWire[d]] /\ chunkFiles = [d \in Clients |-> chunkFiles[d]]
      /\ modelFile = [d \in Clients |-> modelFile[d]] /\ filed = [d \in Clients |-> filed[d]]
      /\ lostUp = [d \in Clients |-> lostUp[d]]
  BY DEF IInv, Shapes
<1>3. /\ upWire' = [d \in Clients |-> upWire'[d]]
      /\ chunkFiles' = [d \in Clients |-> chunkFiles'[d]]
      /\ modelFile' = [d \in Clients |-> modelFile'[d]] /\ filed' = [d \in Clients |-> filed'[d]]
      /\ lostUp' = [d \in Clients |-> lostUp'[d]]
  BY <1>2
<1>4. Shapes'
  BY <1>3 DEF IInv, Shapes, Data
<1>5. Downs'
  BY DEF IInv, Downs, Connected
<1>6. Ups'
  <2> SUFFICES ASSUME NEW d \in Clients
               PROVE  Up(Connected(d), published, upWire'[d], chunkFiles'[d], modelFile'[d],
                         filed'[d], lostUp'[d])
    BY DEF Ups, Connected
  <2>1. CASE d = c
    <3>1. /\ upWire'[c] = w /\ chunkFiles'[c] = files /\ modelFile'[c] = model
          /\ filed'[c] = announced /\ lostUp'[c] = lo
      BY <1>2
    <3> QED BY <2>1, <3>1
  <2>2. CASE d # c
    <3>1. /\ upWire'[d] = upWire[d] /\ chunkFiles'[d] = chunkFiles[d]
          /\ modelFile'[d] = modelFile[d] /\ filed'[d] = filed[d] /\ lostUp'[d] = lostUp[d]
      BY <1>2, <2>2
    <3> QED BY <3>1 DEF IInv, Ups
  <2> QED BY <2>1, <2>2
<1> QED BY <1>4, <1>5, <1>6

-----------------------------------------------------------------------------
LEMMA ExchangeStarts == ExchangeInit => IInv
<1> SUFFICES ASSUME ExchangeInit
             PROVE  IInv
  OBVIOUS
<1>1. /\ online = Clients \cup {Edge} /\ published = 0 /\ faults = 0
      /\ wire = [c \in Clients |-> << >>] /\ receivedModelData = [c \in Clients |-> << >>]
      /\ saved = [c \in Clients |-> << >>] /\ lost = [c \in Clients |-> NoLosses]
      /\ upWire = [c \in Clients |-> << >>] /\ roundOpen = FALSE
      /\ chunkFiles = [c \in Clients |-> Assembly!NoFiles]
      /\ modelFile = [c \in Clients |-> << >>] /\ roundModels = {}
      /\ filed = [c \in Clients |-> << >>] /\ aggregate = [c \in Clients |-> << >>]
      /\ lostUp = [c \in Clients |-> NoLosses] /\ training = [c \in Clients |-> {}]
  BY DEF ExchangeInit, Init, Assembly!Init, Assembly!NoFile, Assembly!NoLosses, NoLosses
<1>2. NoLosses \in Losses /\ NoLosses.chunk = 0 /\ NoLosses.end = 0 /\ NoLosses.disk = 0
  BY DEF NoLosses, Losses
<1>3. \A T : << >> \in Seq(T)
  OBVIOUS
<1>4. DOMAIN Assembly!NoFiles = {} /\ Assembly!NoFiles = [p \in {} |-> Assembly!NoFiles[p]]
  BY DEF Assembly!NoFiles
<1>5. Stream(<< >>) /\ Ordered(<< >>) /\ Complete(<< >>) /\ Gone(<< >>) = 0
      /\ Markers(<< >>) = {}
  BY DEF Stream, Ordered, Complete, Gone, Markers, ToSet
<1>6. Shapes
  <2>1. published \in 0..MaxPublished /\ faults \in 0..MaxFaults
    BY <1>1, BoundsAssumption
  <2>2. aggregate \in [Clients -> Seq(Data(published))]
    BY <1>1, <1>3
  <2> QED BY <1>1, <2>1, <2>2 DEF Shapes
<1>7. Rounds
  BY <1>1, <1>4 DEF Rounds
<1>8. \A connected \in BOOLEAN : Down(connected, 0, << >>, << >>, << >>, NoLosses)
  <2>1. InHand(<< >>, << >>, 0)
    BY <1>5 DEF InHand, Pure
  <2>2. Excused(<< >>, NoLosses) = 1 /\ Position(<< >>, 0) = 1
    BY <1>2 DEF Excused, Position
  <2>3. LittleLost(<< >>, 0, << >>, Excused(<< >>, NoLosses))
    BY <1>5, <2>2 DEF LittleLost
  <2>4. 1..0 = {} /\ 0 + 0 = 0
    OBVIOUS
  <2> QED BY <1>2, <1>3, <1>5, <2>1, <2>2, <2>3, <2>4 DEF Down
<1>9. \A connected \in BOOLEAN :
         Up(connected, 0, << >>, Assembly!NoFiles, << >>, << >>, NoLosses)
  <2>1. FilesTyped(0, Assembly!NoFiles)
    BY <1>4 DEF FilesTyped
  <2>2. OnFile(<< >>, Assembly!NoFiles, NoLosses)
    BY <1>4, <1>5 DEF OnFile
  <2> QED BY <1>2, <1>3, <1>5, <2>1, <2>2 DEF Up
<1>10. \A c \in Clients : Connected(c) \in BOOLEAN
  BY DEF Connected
<1>11. Downs
  BY <1>1, <1>8, <1>10 DEF Downs
<1>12. Ups
  BY <1>1, <1>9, <1>10 DEF Ups
<1>13. AggregatesWholeModels
  BY <1>1 DEF AggregatesWholeModels
<1> QED BY <1>6, <1>7, <1>11, <1>12, <1>13 DEF IInv

LEMMA InFacts ==
    ASSUME IInv, NEW c \in Clients
    PROVE  /\ Connected(c) \in BOOLEAN /\ published \in Nat
           /\ Down(Connected(c), published, wire[c], receivedModelData[c], saved[c], lost[c])
           /\ Up(Connected(c), published, upWire[c], chunkFiles[c], modelFile[c], filed[c],
                 lostUp[c])
           /\ receivedModelData[c] \in Seq(Data(published)) /\ lost[c] \in Losses
           /\ saved[c] \in Seq(Seq(Data(published))) /\ lostUp[c] \in Losses
<1>1. published \in Nat
  BY ConstantFacts DEF IInv, Shapes
<1>2. /\ Down(Connected(c), published, wire[c], receivedModelData[c], saved[c], lost[c])
      /\ Up(Connected(c), published, upWire[c], chunkFiles[c], modelFile[c], filed[c],
            lostUp[c])
  BY DEF IInv, Downs, Ups
<1>3. Connected(c) \in BOOLEAN
  BY DEF Connected
<1> QED BY <1>1, <1>2, <1>3 DEF Down, Up

\* Replacing a client's value by itself changes nothing.
LEMMA SameValues ==
    ASSUME IInv, NEW c \in Clients
    PROVE  /\ wire = [wire EXCEPT ![c] = wire[c]]
           /\ receivedModelData = [receivedModelData EXCEPT ![c] = receivedModelData[c]]
           /\ saved = [saved EXCEPT ![c] = saved[c]]
           /\ lost = [lost EXCEPT ![c] = lost[c]]
           /\ upWire = [upWire EXCEPT ![c] = upWire[c]]
           /\ chunkFiles = [chunkFiles EXCEPT ![c] = chunkFiles[c]]
           /\ modelFile = [modelFile EXCEPT ![c] = modelFile[c]]
           /\ filed = [filed EXCEPT ![c] = filed[c]]
           /\ lostUp = [lostUp EXCEPT ![c] = lostUp[c]]
<1>1. /\ wire = [d \in Clients |-> wire[d]]
      /\ receivedModelData = [d \in Clients |-> receivedModelData[d]]
      /\ saved = [d \in Clients |-> saved[d]] /\ lost = [d \in Clients |-> lost[d]]
      /\ upWire = [d \in Clients |-> upWire[d]] /\ chunkFiles = [d \in Clients |-> chunkFiles[d]]
      /\ modelFile = [d \in Clients |-> modelFile[d]] /\ filed = [d \in Clients |-> filed[d]]
      /\ lostUp = [d \in Clients |-> lostUp[d]]
  BY DEF IInv, Shapes
<1>2. \A f : f = [d \in Clients |-> f[d]] => f = [f EXCEPT ![c] = f[c]]
  OBVIOUS
<1> QED BY <1>1, <1>2

\* Both counts of a kind of loss, as records.
LEMMA MoreLosses ==
    ASSUME NEW lo \in Losses
    PROVE  /\ [lo EXCEPT !["chunk"] = @ + 1] \in Losses
           /\ [lo EXCEPT !["chunk"] = @ + 1].chunk = lo.chunk + 1
           /\ [lo EXCEPT !["chunk"] = @ + 1].end = lo.end
           /\ [lo EXCEPT !["chunk"] = @ + 1].disk = lo.disk
           /\ [lo EXCEPT !["end"] = @ + 1] \in Losses
           /\ [lo EXCEPT !["end"] = @ + 1].chunk = lo.chunk
           /\ [lo EXCEPT !["end"] = @ + 1].end = lo.end + 1
           /\ [lo EXCEPT !["end"] = @ + 1].disk = lo.disk
           /\ [lo EXCEPT !.disk = @ + 1] \in Losses
           /\ [lo EXCEPT !.disk = @ + 1].chunk = lo.chunk
           /\ [lo EXCEPT !.disk = @ + 1].end = lo.end
           /\ [lo EXCEPT !.disk = @ + 1].disk = lo.disk + 1
BY DEF Losses

LEMMA Kinds ==
    \A msg : /\ KindOf(msg) = "end" <=> msg.part = EndMarker
             /\ KindOf(msg) = "chunk" <=> msg.part # EndMarker
             /\ Assembly!KindOf(msg) = KindOf(msg)
BY DEF KindOf, Assembly!KindOf, Assembly!EndMarker, EndMarker

LEMMA FaultCounts ==
    ASSUME IInv, NEW kind, Fault(kind)
    PROVE  faults' \in 0..MaxFaults
BY ConstantFacts DEF IInv, Shapes, Fault

-----------------------------------------------------------------------------
\* The client takes a chunk, or a marker after data of the wrong size.
LEMMA TakeSteps ==
    ASSUME IInv, NEW c \in Clients, ClientTakes(c)
    PROVE  IInv'
<1>1. /\ UNCHANGED <<online, published, assemblyVars>>
      /\ training' \in [Clients -> SUBSET (1..published)] /\ faults' \in 0..MaxFaults
      /\ wire[c] # << >> /\ wire' = [wire EXCEPT ![c] = Tail(wire[c])]
  BY DEF ClientTakes, ReceiveChunk, DropModel, TakeEnd, Take, IInv, Shapes
<1>2. saved' = [saved EXCEPT ![c] = saved[c]] /\ lost' = [lost EXCEPT ![c] = lost[c]]
  BY SameValues DEF ClientTakes, ReceiveChunk, DropModel
<1>3. CASE ReceiveChunk(c)
  <2> DEFINE data == Append(receivedModelData[c], Head(wire[c]))
  <2>1. /\ receivedModelData' = [receivedModelData EXCEPT ![c] = data]
        /\ Head(wire[c]).part # EndMarker
    BY <1>3, Kinds DEF ReceiveChunk
  <2>2. Down(Connected(c), published, Tail(wire[c]), data, saved[c], lost[c])
    BY <1>1, <2>1, InFacts, DownTakesChunk
  <2> HIDE DEF data
  <2> QED BY <1>1, <1>2, <2>1, <2>2, DownStep
<1>4. CASE DropModel(c)
  <2>1. /\ receivedModelData' = [receivedModelData EXCEPT ![c] = << >>]
        /\ Head(wire[c]).part = EndMarker /\ Len(receivedModelData[c]) # Chunks
    BY <1>4, Kinds DEF DropModel, TakeEnd
  <2>2. Excused(saved[c], lost[c]) = Excused(saved[c], lost[c]) + 0
    BY InFacts, Numbers
  <2>3. Down(Connected(c), published, Tail(wire[c]), << >>, saved[c], lost[c])
    BY <1>1, <2>1, <2>2, InFacts, DownTakesEnd
  <2> QED BY <1>1, <1>2, <2>1, <2>3, DownStep
<1> QED BY <1>3, <1>4 DEF ClientTakes

\* A model is saved and, if none is running, its training started.
LEMMA SaveSteps ==
    ASSUME IInv, NEW c \in Clients, ClientSaves(c)
    PROVE  IInv'
<1> DEFINE files == Append(saved[c], receivedModelData[c])
<1>1. /\ UNCHANGED <<online, published, assemblyVars>> /\ faults' \in 0..MaxFaults
      /\ wire[c] # << >> /\ wire' = [wire EXCEPT ![c] = Tail(wire[c])]
      /\ receivedModelData' = [receivedModelData EXCEPT ![c] = << >>]
      /\ Head(wire[c]).part = EndMarker /\ Len(receivedModelData[c]) = Chunks
      /\ saved' = [saved EXCEPT ![c] = files] /\ lost' = lost
  BY Kinds DEF ClientSaves, SaveModel, TakeEnd, Take, IInv, Shapes
<1>2. lost' = [lost EXCEPT ![c] = lost[c]]
  BY <1>1, SameValues
<1>3. receivedModelData[c][1].model \in 1..published
  <2>1. 1 \in 1..Len(receivedModelData[c])
    BY <1>1, ChunksAssumption
  <2>2. receivedModelData[c][1] \in Data(published)
    BY <2>1, InFacts
  <2> QED BY <2>2 DEF Data
<1>4. training' \in [Clients -> SUBSET (1..published)]
  BY <1>3 DEF ClientSaves, IInv, Shapes
<1>5. files \in Seq(Seq(Data(published))) /\ Len(files) = Len(saved[c]) + 1
  BY InFacts
<1>6. Excused(files, lost[c]) = Excused(saved[c], lost[c]) + 1
  BY <1>5, InFacts, OneMoreExcused
<1> HIDE DEF files
<1>7. Down(Connected(c), published, Tail(wire[c]), << >>, files, lost[c])
  BY <1>1, <1>5, <1>6, InFacts, DownTakesEnd
<1> QED BY <1>1, <1>2, <1>4, <1>7, DownStep

LEMMA SaveFailureSteps ==
    ASSUME IInv, NEW c \in Clients, ClientFailsToSave(c)
    PROVE  IInv'
<1> DEFINE lo == [lost[c] EXCEPT !.disk = @ + 1]
<1>1. /\ UNCHANGED <<online, published, assemblyVars>>
      /\ training' \in [Clients -> SUBSET (1..published)]
      /\ wire[c] # << >> /\ wire' = [wire EXCEPT ![c] = Tail(wire[c])]
      /\ receivedModelData' = [receivedModelData EXCEPT ![c] = << >>]
      /\ Head(wire[c]).part = EndMarker /\ Len(receivedModelData[c]) = Chunks
      /\ saved' = saved /\ lost' = [lost EXCEPT ![c] = lo]
  BY Kinds DEF ClientFailsToSave, FailToSave, TakeEnd, Take, IInv, Shapes
<1>2. saved' = [saved EXCEPT ![c] = saved[c]]
  BY <1>1, SameValues
<1>3. faults' \in 0..MaxFaults
  BY FaultCounts DEF ClientFailsToSave
<1>4. /\ lo \in Losses /\ lo.chunk = lost[c].chunk /\ lo.end = lost[c].end
      /\ lo.disk = lost[c].disk + 1
  BY InFacts, MoreLosses
<1>5. Excused(saved[c], lo) = Excused(saved[c], lost[c]) + 1
  <2> HIDE DEF lo
  <2> QED BY <1>4, InFacts, OneMoreExcused, SMTT(30)
<1> HIDE DEF lo
<1>6. saved[c] \in Seq(Seq(Data(published)))
  BY InFacts
<1>7. Down(Connected(c), published, Tail(wire[c]), << >>, saved[c], lo)
  BY <1>1, <1>4, <1>5, <1>6, InFacts, DownTakesEnd
<1> QED BY <1>1, <1>2, <1>3, <1>7, DownStep

LEMMA DownlinkLossSteps ==
    ASSUME IInv, NEW c \in Clients, DownlinkLoses(c)
    PROVE  IInv'
<1> DEFINE kind == KindOf(Head(wire[c]))
           lo == [lost[c] EXCEPT ![kind] = @ + 1]
<1>1. /\ UNCHANGED <<online, published, assemblyVars>>
      /\ training' \in [Clients -> SUBSET (1..published)]
      /\ wire[c] # << >> /\ wire' = [wire EXCEPT ![c] = Tail(wire[c])]
      /\ receivedModelData' = receivedModelData
      /\ saved' = saved /\ lost' = [lost EXCEPT ![c] = lo]
  BY DEF DownlinkLoses, LoseMessage, IInv, Shapes
<1>2. /\ saved' = [saved EXCEPT ![c] = saved[c]]
      /\ receivedModelData' = [receivedModelData EXCEPT ![c] = receivedModelData[c]]
  BY <1>1, SameValues
<1>3. faults' \in 0..MaxFaults
  BY FaultCounts DEF DownlinkLoses
<1>4. Down(Connected(c), published, Tail(wire[c]), receivedModelData[c], saved[c], lo)
  <2>1. CASE kind = "chunk"
    <3>1. /\ lo \in Losses /\ lo.chunk = lost[c].chunk + 1 /\ lo.end = lost[c].end
          /\ lo.disk = lost[c].disk
      BY <2>1, InFacts, MoreLosses
    <3>2. Head(wire[c]).part # EndMarker
      BY <2>1, Kinds
    <3> HIDE DEF lo
    <3> QED BY <1>1, <3>1, <3>2, InFacts, DownLosesChunk
  <2>2. CASE kind = "end"
    <3>1. /\ lo \in Losses /\ lo.chunk = lost[c].chunk /\ lo.end = lost[c].end + 1
          /\ lo.disk = lost[c].disk
      BY <2>2, InFacts, MoreLosses
    <3>2. Head(wire[c]).part = EndMarker
      BY <2>2, Kinds
    <3> HIDE DEF lo
    <3> QED BY <1>1, <3>1, <3>2, InFacts, DownLosesEnd
  <2> QED BY <2>1, <2>2 DEF KindOf
<1> HIDE DEF lo
<1> QED BY <1>1, <1>2, <1>3, <1>4, DownStep

\* A model is published: to whoever is connected, and only in number otherwise.
LEMMA PublishSteps ==
    ASSUME IInv, EdgePublishes
    PROVE  IInv'
<1>1. /\ published' = published + 1 /\ published < MaxPublished /\ online' = online
      /\ receivedModelData' = receivedModelData /\ saved' = saved /\ lost' = lost
      /\ training' = training /\ faults' = faults
      /\ upWire' = upWire /\ roundOpen' = roundOpen /\ chunkFiles' = chunkFiles
      /\ modelFile' = modelFile /\ roundModels' = roundModels /\ filed' = filed
      /\ aggregate' = aggregate /\ lostUp' = lostUp
  BY DEF EdgePublishes, PublishModel, assemblyVars
<1>2. published \in Nat
  BY ConstantFacts DEF IInv, Shapes
<1>3. \A c \in Clients : wire'[c] = IF Connected(c) THEN wire[c] \o Messages(published + 1)
                                                    ELSE wire[c]
  BY <1>1 DEF EdgePublishes, PublishModel, Connected
<1>4. Shapes'
  <2>1. published' \in 0..MaxPublished /\ faults' \in 0..MaxFaults
    BY <1>1, <1>2, ConstantFacts DEF IInv, Shapes
  <2>2. wire' = [c \in Clients |-> wire'[c]]
    BY DEF EdgePublishes, PublishModel
  <2>3. training' \in [Clients -> SUBSET (1..published')]
    <3>1. 1..published \subseteq 1..(published + 1)
      BY <1>2
    <3> QED BY <1>1, <3>1 DEF IInv, Shapes
  <2>4. aggregate' \in [Clients -> Seq(Data(published'))]
    BY <1>1, <1>2, TypesWiden DEF IInv, Shapes
  <2> QED BY <1>1, <2>1, <2>2, <2>3, <2>4 DEF IInv, Shapes, Data
<1>5. Rounds'
  BY <1>1 DEF IInv, Rounds
<1>6. Downs'
  <2> SUFFICES ASSUME NEW c \in Clients
               PROVE  Down(Connected(c), published + 1, wire'[c], receivedModelData[c],
                           saved[c], lost[c])
    BY <1>1 DEF Downs, Connected
  <2>1. Down(Connected(c), published, wire[c], receivedModelData[c], saved[c], lost[c])
    BY InFacts
  <2>2. CASE Connected(c)
    <3>1. Connected(c) = TRUE
      BY <2>2 DEF Connected
    <3>2. Down(TRUE, published, wire[c], receivedModelData[c], saved[c], lost[c])
      BY <2>1, <3>1
    <3>3. Down(TRUE, published + 1, wire[c] \o Messages(published + 1), receivedModelData[c],
               saved[c], lost[c])
      BY <1>2, <3>2, DownPublishes
    <3> QED BY <1>3, <3>1, <3>3
  <2>3. CASE ~Connected(c)
    <3>1. Connected(c) = FALSE
      BY <2>3 DEF Connected
    <3>2. Down(FALSE, published, wire[c], receivedModelData[c], saved[c], lost[c])
      BY <2>1, <3>1
    <3>3. Down(FALSE, published + 1, wire[c], receivedModelData[c], saved[c], lost[c])
      BY <1>2, <3>2, DownMisses
    <3> QED BY <1>3, <3>1, <3>3
  <2> QED BY <2>2, <2>3
<1>7. Ups'
  <2> SUFFICES ASSUME NEW c \in Clients
               PROVE  Up(Connected(c), published + 1, upWire[c], chunkFiles[c], modelFile[c],
                         filed[c], lostUp[c])
    BY <1>1 DEF Ups, Connected
  <2> QED BY InFacts, UpPublished
<1>8. AggregatesWholeModels'
  BY <1>1, <1>2, AggregateKept DEF IInv
<1> QED BY <1>4, <1>5, <1>6, <1>7, <1>8 DEF IInv

LEMMA UploadSteps ==
    ASSUME IInv, NEW c \in Clients, ClientUploads(c)
    PROVE  IInv'
<1>1. PICK m \in training[c] : Assembly!UploadModel(c, m)
  BY DEF ClientUploads
<1> DEFINE w == IF Connected(c) THEN upWire[c] \o Messages(m) ELSE upWire[c]
<1>2. /\ UNCHANGED <<published, wire, receivedModelData, saved, lost>> /\ online' = online
      /\ aggregate' \in [Clients -> Seq(Data(published))]
      /\ upWire' = [upWire EXCEPT ![c] = w]
      /\ faults' \in 0..MaxFaults /\ training' \in [Clients -> SUBSET (1..published)]
  <2>1. Assembly!Messages(m) = Messages(m)
    BY DEF Assembly!Messages, Messages, Assembly!FileOf, FileOf, Assembly!EndMarker, EndMarker
  <2>2. upWire' = [upWire EXCEPT ![c] = w]
    BY <1>1, <2>1 DEF Assembly!UploadModel, Connected
  <2>3. faults' \in 0..MaxFaults /\ training' \in [Clients -> SUBSET (1..published)]
    BY DEF ClientUploads, IInv, Shapes
  <2>4. aggregate' = aggregate /\ online' = online
    BY <1>1 DEF Assembly!UploadModel, Assembly!roundVars
  <2> QED BY <2>2, <2>3, <2>4 DEF ClientUploads, IInv, Shapes
<1>3. /\ roundOpen' = roundOpen /\ chunkFiles' = chunkFiles /\ modelFile' = modelFile
      /\ roundModels' = roundModels /\ filed' = filed /\ aggregate' = aggregate
      /\ lostUp' = lostUp
  BY <1>1 DEF Assembly!UploadModel, Assembly!roundVars, Assembly!filesVars
<1>4. /\ chunkFiles' = [chunkFiles EXCEPT ![c] = chunkFiles[c]]
      /\ modelFile' = [modelFile EXCEPT ![c] = modelFile[c]]
      /\ filed' = [filed EXCEPT ![c] = filed[c]] /\ lostUp' = [lostUp EXCEPT ![c] = lostUp[c]]
  BY <1>3, SameValues
<1>5. m \in 1..published
  <2>1. training[c] \in SUBSET (1..published)
    BY DEF IInv, Shapes
  <2> QED BY <2>1
<1>6. Up(Connected(c), published, w, chunkFiles[c], modelFile[c], filed[c], lostUp[c])
  <2>1. /\ Up(Connected(c), published, upWire[c], chunkFiles[c], modelFile[c], filed[c],
              lostUp[c])
        /\ published \in Nat /\ Connected(c) \in BOOLEAN
    BY InFacts
  <2>2. CASE Connected(c) = TRUE
    <3>1. Up(TRUE, published, upWire[c], chunkFiles[c], modelFile[c], filed[c], lostUp[c])
      BY <2>1, <2>2
    <3>2. Up(TRUE, published, upWire[c] \o Messages(m), chunkFiles[c], modelFile[c], filed[c],
             lostUp[c])
      BY <1>5, <2>1, <3>1, UpUploads
    <3> QED BY <2>2, <3>2
  <2>3. CASE Connected(c) = FALSE
    BY <2>1, <2>3
  <2> QED BY <2>1, <2>2, <2>3
<1> HIDE DEF w
<1>7. Shapes' /\ Downs' /\ Ups'
  BY <1>2, <1>4, <1>6, UpStep
<1>8. Rounds'
  BY <1>3 DEF IInv, Rounds
<1>9. AggregatesWholeModels'
  BY <1>2, <1>3, InFacts, AggregateKept DEF IInv
<1> QED BY <1>7, <1>8, <1>9 DEF IInv

LEMMA GiveUpSteps ==
    ASSUME IInv, NEW c \in Clients, ClientGivesUp(c)
    PROVE  IInv'
<1>1. /\ UNCHANGED <<online, published, wire, receivedModelData, saved, lost, assemblyVars>>
      /\ training' \in [Clients -> SUBSET (1..published)]
  BY DEF ClientGivesUp, broadcastVars, IInv, Shapes
<1>2. faults' \in 0..MaxFaults
  BY FaultCounts DEF ClientGivesUp
<1>3. /\ wire' = [wire EXCEPT ![c] = wire[c]] /\ saved' = [saved EXCEPT ![c] = saved[c]]
      /\ receivedModelData' = [receivedModelData EXCEPT ![c] = receivedModelData[c]]
      /\ lost' = [lost EXCEPT ![c] = lost[c]]
  BY <1>1, SameValues
<1>4. UNCHANGED <<online, published, assemblyVars>>
  BY <1>1
<1> QED BY <1>2, <1>3, <1>4, DownStep, InFacts, <1>1

\* As long as no loss is forgotten.
LEMMA LossesStay ==
    ASSUME IInv, NEW c \in Clients, published' = published, aggregate' = aggregate,
           NEW lo \in Losses, lo.chunk >= lostUp[c].chunk, lo.disk >= lostUp[c].disk,
           lostUp' = [lostUp EXCEPT ![c] = lo]
    PROVE  AggregatesWholeModels'
<1>1. lostUp[c].chunk \in Nat /\ lostUp[c].disk \in Nat /\ lo.chunk \in Nat /\ lo.disk \in Nat
  BY InFacts, Numbers DEF Losses
<1>2. lo.chunk + lo.disk = 0 => lostUp[c].chunk + lostUp[c].disk = 0
  BY <1>1
<1>3. \A d \in Clients : lostUp'[d] = IF d = c THEN lo ELSE lostUp[d]
  <2>1. lostUp = [d \in Clients |-> lostUp[d]]
    BY DEF IInv, Shapes
  <2> QED BY <2>1
<1>4. \A d \in Clients : lostUp'[d].chunk + lostUp'[d].disk = 0 =>
                         lostUp[d].chunk + lostUp[d].disk = 0
  BY <1>2, <1>3
<1> QED BY <1>4, InFacts, AggregateKept DEF IInv

LEMMA UplinkLossSteps ==
    ASSUME IInv, NEW c \in Clients, UplinkLoses(c)
    PROVE  IInv'
<1> DEFINE kind == KindOf(Head(upWire[c]))
           lo == [lostUp[c] EXCEPT ![kind] = @ + 1]
<1>1. /\ UNCHANGED <<online, published, wire, receivedModelData, saved, lost>>
      /\ training' \in [Clients -> SUBSET (1..published)]
      /\ aggregate' \in [Clients -> Seq(Data(published))]
      /\ upWire[c] # << >> /\ upWire' = [upWire EXCEPT ![c] = Tail(upWire[c])]
      /\ lostUp' = [lostUp EXCEPT ![c] = lo]
  BY Kinds DEF UplinkLoses, Assembly!LoseUpload, Assembly!roundVars, IInv, Shapes
<1>2. /\ roundOpen' = roundOpen /\ chunkFiles' = chunkFiles /\ modelFile' = modelFile
      /\ roundModels' = roundModels /\ filed' = filed /\ aggregate' = aggregate
  BY DEF UplinkLoses, Assembly!LoseUpload, Assembly!roundVars, Assembly!filesVars
<1>3. /\ chunkFiles' = [chunkFiles EXCEPT ![c] = chunkFiles[c]]
      /\ modelFile' = [modelFile EXCEPT ![c] = modelFile[c]]
      /\ filed' = [filed EXCEPT ![c] = filed[c]]
  BY <1>2, SameValues
<1>4. faults' \in 0..MaxFaults
  BY FaultCounts DEF UplinkLoses
<1>5. /\ lo \in Losses /\ lo.chunk >= lostUp[c].chunk /\ lo.disk >= lostUp[c].disk
      /\ Total(lo) = Total(lostUp[c]) + 1
      /\ Head(upWire[c]).part # EndMarker => lo.end = lostUp[c].end
  <2>1. lostUp[c] \in Losses
    BY InFacts
  <2>2. lostUp[c].chunk \in Nat /\ lostUp[c].end \in Nat /\ lostUp[c].disk \in Nat
    BY <2>1 DEF Losses
  <2>3. CASE kind = "chunk"
    <3>1. /\ lo \in Losses /\ lo.chunk = lostUp[c].chunk + 1 /\ lo.end = lostUp[c].end
          /\ lo.disk = lostUp[c].disk
      BY <2>1, <2>3, MoreLosses
    <3> HIDE DEF lo
    <3> QED BY <2>2, <3>1 DEF Total
  <2>4. CASE kind = "end"
    <3>1. /\ lo \in Losses /\ lo.chunk = lostUp[c].chunk /\ lo.end = lostUp[c].end + 1
          /\ lo.disk = lostUp[c].disk
      BY <2>1, <2>4, MoreLosses
    <3>2. Head(upWire[c]).part = EndMarker
      BY <2>4, Kinds
    <3> HIDE DEF lo
    <3> QED BY <2>2, <3>1, <3>2 DEF Total
  <2> QED BY <2>3, <2>4 DEF KindOf
<1> HIDE DEF lo
<1>6. Up(Connected(c), published, Tail(upWire[c]), chunkFiles[c], modelFile[c], filed[c], lo)
  BY <1>1, <1>5, InFacts, UpLoses
<1>7. Shapes' /\ Downs' /\ Ups'
  BY <1>1, <1>3, <1>4, <1>6, UpStep
<1>8. Rounds'
  BY <1>2 DEF IInv, Rounds
<1>9. AggregatesWholeModels'
  BY <1>1, <1>2, <1>5, InFacts, LossesStay DEF IInv
<1> QED BY <1>7, <1>8, <1>9 DEF IInv

-----------------------------------------------------------------------------
(* The edge takes a message. *)

LEMMA EdgeFilesChunk ==
    ASSUME IInv, NEW c \in Clients, Assembly!FileChunk(c),
           UNCHANGED <<published, wire, receivedModelData, saved, lost, training, faults>>
    PROVE  IInv'
<1> DEFINE files == Assembly!WithChunk(chunkFiles[c], Head(upWire[c]))
<1>1. /\ UNCHANGED <<online, published, wire, receivedModelData, saved, lost>>
      /\ upWire[c] # << >> /\ Head(upWire[c]).part # EndMarker
      /\ upWire' = [upWire EXCEPT ![c] = Tail(upWire[c])]
      /\ chunkFiles' = [chunkFiles EXCEPT ![c] = files]
  BY Kinds DEF Assembly!FileChunk, Assembly!Take
<1>2. /\ modelFile' = modelFile /\ roundModels' = roundModels /\ filed' = filed
      /\ aggregate' = aggregate /\ lostUp' = lostUp /\ roundOpen' = TRUE
  BY DEF Assembly!FileChunk, Assembly!Take
<1>3. /\ modelFile' = [modelFile EXCEPT ![c] = modelFile[c]]
      /\ filed' = [filed EXCEPT ![c] = filed[c]] /\ lostUp' = [lostUp EXCEPT ![c] = lostUp[c]]
  BY <1>2, SameValues
<1>4. /\ training' \in [Clients -> SUBSET (1..published)] /\ faults' \in 0..MaxFaults
      /\ aggregate' \in [Clients -> Seq(Data(published))]
  BY <1>2 DEF IInv, Shapes
<1>5. Up(Connected(c), published, Tail(upWire[c]), files, modelFile[c], filed[c], lostUp[c])
  BY <1>1, InFacts, UpFilesChunk
<1> HIDE DEF files
<1>6. Shapes' /\ Downs' /\ Ups'
  BY <1>1, <1>3, <1>4, <1>5, UpStep
<1>7. Rounds'
  BY <1>2 DEF IInv, Rounds
<1>8. AggregatesWholeModels'
  BY <1>1, <1>2, InFacts, AggregateKept DEF IInv
<1> QED BY <1>6, <1>7, <1>8 DEF IInv

\* What every way of taking an end marker has in common.
LEMMA EndTaken ==
    ASSUME IInv, NEW c \in Clients, Assembly!TakeEnd(c)
    PROVE  /\ online' = online /\ roundOpen' = TRUE
           /\ upWire[c] # << >> /\ Head(upWire[c]).part = EndMarker
           /\ upWire' = [upWire EXCEPT ![c] = Tail(upWire[c])]
           /\ chunkFiles' = [chunkFiles EXCEPT ![c] = Assembly!NoFiles]
           /\ modelFile' = [modelFile EXCEPT ![c] = Assembly!Merged(chunkFiles[c])]
           /\ modelFile'[c] = Assembly!Merged(chunkFiles[c])
           /\ \A d \in Clients \ {c} : modelFile'[d] = modelFile[d]
           /\ Assembly!Merged(chunkFiles[c]) \in Seq(Data(published))
<1>1. upWire[c] # << >> /\ Head(upWire[c]).part = EndMarker
  BY Kinds DEF Assembly!TakeEnd, Assembly!Take
<1>2. Assembly!Merged(chunkFiles[c]) \in Seq(Data(published))
  BY <1>1, InFacts, MergedWhole
<1>3. modelFile' = [modelFile EXCEPT ![c] = Assembly!Merged(chunkFiles[c])]
  BY DEF Assembly!TakeEnd, Assembly!WriteModel
<1>4. modelFile = [d \in Clients |-> modelFile[d]]
  BY DEF IInv, Shapes
<1>5. /\ online' = online /\ roundOpen' = TRUE
      /\ upWire' = [upWire EXCEPT ![c] = Tail(upWire[c])]
      /\ chunkFiles' = [chunkFiles EXCEPT ![c] = Assembly!NoFiles]
  BY DEF Assembly!TakeEnd, Assembly!Take, Assembly!WriteModel, Assembly!RemoveChunks
<1>6. /\ modelFile'[c] = Assembly!Merged(chunkFiles[c])
      /\ \A d \in Clients \ {c} : modelFile'[d] = modelFile[d]
  BY <1>3, <1>4
<1> QED BY <1>1, <1>2, <1>3, <1>5, <1>6

\* The path of client c when the merged file is kept, whatever is announced.
LEMMA EndKept ==
    ASSUME IInv, NEW c \in Clients, Assembly!TakeEnd(c),
           NEW announced,
           \/ announced = filed[c]
           \/ /\ announced = Append(filed[c], modelFile'[c])
              /\ Assembly!SizeMatches(c)
    PROVE  Up(Connected(c), published, Tail(upWire[c]), Assembly!NoFiles,
              Assembly!Merged(chunkFiles[c]), announced, lostUp[c])
<1> DEFINE merged == Assembly!Merged(chunkFiles[c])
<1>1. /\ upWire[c] # << >> /\ Head(upWire[c]).part = EndMarker
      /\ modelFile'[c] = merged /\ merged \in Seq(Data(published))
  BY EndTaken
<1>2. /\ Connected(c) \in BOOLEAN /\ published \in Nat /\ lostUp[c] \in Losses
      /\ Up(Connected(c), published, upWire[c], chunkFiles[c], modelFile[c], filed[c], lostUp[c])
  BY InFacts
<1>3. /\ lostUp[c].chunk + lostUp[c].disk = 0 => WholeOf(merged, published)
      /\ Len(merged) = Chunks /\ lostUp[c].chunk + lostUp[c].end + lostUp[c].disk <= 1 =>
            WholeOf(merged, published)
  BY <1>1, <1>2, MergedWhole
<1>4. /\ filed[c] \in Seq(Seq(Data(published)))
      /\ lostUp[c].chunk + lostUp[c].end + lostUp[c].disk <= 1 =>
            \A i \in DOMAIN filed[c] : WholeOf(filed[c][i], published)
  BY <1>2 DEF Up
<1>5. Assembly!SizeMatches(c) => Len(merged) = Chunks
  BY DEF Assembly!SizeMatches
<1> HIDE DEF merged
<1>6. /\ announced \in Seq(Seq(Data(published)))
      /\ lostUp[c].chunk + lostUp[c].end + lostUp[c].disk <= 1 =>
            \A i \in DOMAIN announced : WholeOf(announced[i], published)
  <2>1. CASE announced = filed[c]
    BY <1>4, <2>1
  <2>2. CASE announced = Append(filed[c], modelFile'[c]) /\ Assembly!SizeMatches(c)
    <3>1. announced = Append(filed[c], merged)
      BY <1>1, <2>2
    <3>2. \A S : \A s \in Seq(S), e \in S :
             /\ Append(s, e) \in Seq(S)
             /\ \A i \in DOMAIN Append(s, e) : \/ i \in DOMAIN s /\ Append(s, e)[i] = s[i]
                                               \/ Append(s, e)[i] = e
      OBVIOUS
    <3>3. /\ announced \in Seq(Seq(Data(published)))
          /\ \A i \in DOMAIN announced :
                \/ i \in DOMAIN filed[c] /\ announced[i] = filed[c][i]
                \/ announced[i] = merged
      BY <1>1, <1>4, <3>1, <3>2
    <3>4. Len(merged) = Chunks
      BY <1>5, <2>2
    <3> QED BY <1>3, <1>4, <3>3, <3>4
  <2> QED BY <2>1, <2>2
<1> QED BY <1>1, <1>2, <1>3, <1>6, UpTakesEnd DEF merged

\* The models of the round are whole if the last aggregation has read them just now.
LEMMA AggregateIsOfModels ==
    ASSUME Ups', aggregate' = modelFile', published' = published
    PROVE  AggregatesWholeModels'
<1> SUFFICES ASSUME \A d \in Clients : lostUp'[d].chunk + lostUp'[d].disk = 0,
                    NEW d \in Clients, aggregate'[d] # << >>
             PROVE  \E m \in 1..published' : aggregate'[d] = FileOf(m)
  BY DEF AggregatesWholeModels, Whole, FileOf
<1>1. Up(Connected(d), published, upWire[d], chunkFiles[d], modelFile[d], filed[d], lostUp[d])'
  BY DEF Ups
<1>2. modelFile'[d] = << >> \/ WholeOf(modelFile'[d], published')
  BY <1>1 DEF Up
<1> QED BY <1>2 DEF WholeOf

\* The edge takes an end marker: what it announces and what it tells the
\* aggregator is of one file.
LEMMA EdgeMerges ==
    ASSUME IInv, NEW c \in Clients,
           \/ Assembly!MismatchedModel(c) \/ Assembly!HoldModel(c)
           \/ Assembly!Aggregate(c) \/ Assembly!AggregationFails(c),
           UNCHANGED <<published, wire, receivedModelData, saved, lost, training>>,
           faults' \in 0..MaxFaults
    PROVE  IInv'
<1> DEFINE merged == Assembly!Merged(chunkFiles[c])
<1>1. Assembly!TakeEnd(c)
  BY DEF Assembly!MismatchedModel, Assembly!HoldModel, Assembly!Aggregate,
         Assembly!AggregationFails, Assembly!AnnounceModel
<1>2. PICK announced :
        /\ filed' = [filed EXCEPT ![c] = announced]
        /\ \/ announced = filed[c]
           \/ announced = Append(filed[c], modelFile'[c]) /\ Assembly!SizeMatches(c)
  <2>1. CASE Assembly!MismatchedModel(c)
    <3>1. filed' = filed
      BY <2>1 DEF Assembly!MismatchedModel
    <3>2. filed' = [filed EXCEPT ![c] = filed[c]]
      BY <3>1, SameValues
    <3> QED BY <3>2
  <2>2. CASE Assembly!AnnounceModel(c)
    BY <2>2 DEF Assembly!AnnounceModel
  <2> QED BY <2>1, <2>2 DEF Assembly!HoldModel, Assembly!Aggregate, Assembly!AggregationFails
<1>3. /\ upWire' = [upWire EXCEPT ![c] = Tail(upWire[c])]
      /\ chunkFiles' = [chunkFiles EXCEPT ![c] = Assembly!NoFiles]
      /\ modelFile' = [modelFile EXCEPT ![c] = merged]
      /\ merged \in Seq(Data(published))
      /\ UNCHANGED <<online, published, wire, receivedModelData, saved, lost>>
  BY <1>1, EndTaken
<1>4. lostUp' = lostUp /\ roundOpen' = TRUE
  BY <1>1, EndTaken DEF Assembly!MismatchedModel, Assembly!HoldModel, Assembly!Aggregate,
                        Assembly!AggregationFails, Assembly!AnnounceModel
<1>5. lostUp' = [lostUp EXCEPT ![c] = lostUp[c]]
  BY <1>4, SameValues
<1>6. Up(Connected(c), published, Tail(upWire[c]), Assembly!NoFiles, merged, announced, lostUp[c])
  BY <1>1, <1>2, EndKept
<1>7. aggregate' = aggregate \/ aggregate' = modelFile'
  BY DEF Assembly!MismatchedModel, Assembly!HoldModel, Assembly!Aggregate,
         Assembly!AggregationFails
<1>8. aggregate' \in [Clients -> Seq(Data(published))]
  <2>1. aggregate \in [Clients -> Seq(Data(published))]
    BY DEF IInv, Shapes
  <2>2. modelFile \in [Clients -> Seq(Data(published))]
    <3>1. \A d \in Clients : modelFile[d] \in Seq(Data(published))
      BY InFacts DEF Up
    <3>2. modelFile = [d \in Clients |-> modelFile[d]]
      BY DEF IInv, Shapes
    <3> QED BY <3>1, <3>2
  <2> HIDE DEF merged
  <2>3. modelFile' \in [Clients -> Seq(Data(published))]
    BY <1>3, <2>2
  <2> QED BY <1>7, <2>1, <2>3
<1>9. training' \in [Clients -> SUBSET (1..published)]
  BY DEF IInv, Shapes
<1> HIDE DEF merged
<1>10. Shapes' /\ Downs' /\ Ups'
  BY <1>2, <1>3, <1>5, <1>6, <1>8, <1>9, UpStep
<1>11. Rounds'
  <2>1. ASSUME NEW d \in Clients, d \in roundModels'
        PROVE  filed'[d] # << >>
    <3>1. filed = [e \in Clients |-> filed[e]] /\ filed[c] \in Seq(Seq(Data(published)))
      BY InFacts DEF IInv, Shapes, Up
    <3>2. CASE Assembly!MismatchedModel(c)
      <4>1. roundModels' = roundModels /\ filed' = filed
        BY <3>2 DEF Assembly!MismatchedModel
      <4> QED BY <2>1, <4>1 DEF IInv, Rounds
    <3>3. CASE Assembly!AnnounceModel(c)
      <4>1. filed' = [filed EXCEPT ![c] = Append(filed[c], modelFile'[c])]
        BY <3>3 DEF Assembly!AnnounceModel
      <4>2. filed'[c] # << >>
        <5>1. filed'[c] = Append(filed[c], modelFile'[c])
          BY <3>1, <4>1
        <5>2. \A S : \A s \in Seq(S) : \A e : Append(s, e) # << >>
          OBVIOUS
        <5> QED BY <3>1, <5>1, <5>2
      <4>3. CASE d = c
        BY <4>2, <4>3
      <4>4. CASE d # c
        <5>1. filed'[d] = filed[d]
          BY <3>1, <4>1, <4>4
        <5>2. d \in roundModels
          BY <2>1, <4>4 DEF Assembly!MismatchedModel, Assembly!HoldModel,
                            Assembly!Aggregate, Assembly!AggregationFails
        <5> QED BY <5>1, <5>2 DEF IInv, Rounds
      <4> QED BY <4>3, <4>4
    <3> QED BY <3>2, <3>3 DEF Assembly!HoldModel, Assembly!Aggregate,
                              Assembly!AggregationFails
  <2>2. roundModels' \subseteq Clients
    BY DEF Assembly!MismatchedModel, Assembly!HoldModel, Assembly!Aggregate,
           Assembly!AggregationFails, IInv, Rounds
  <2> QED BY <1>4, <2>1, <2>2 DEF Rounds
<1>12. AggregatesWholeModels'
  <2>1. CASE aggregate' = aggregate
    BY <1>3, <1>4, <2>1, InFacts, AggregateKept DEF IInv
  <2>2. CASE aggregate' = modelFile'
    BY <1>3, <1>10, <2>2, AggregateIsOfModels
  <2> QED BY <1>7, <2>1, <2>2
<1> QED BY <1>10, <1>11, <1>12 DEF IInv

LEMMA EdgeTakeSteps ==
    ASSUME IInv, NEW c \in Clients, EdgeTakes(c)
    PROVE  IInv'
<1>1. UNCHANGED <<published, wire, receivedModelData, saved, lost, training, faults>>
  BY DEF EdgeTakes
<1>2. CASE Assembly!FileChunk(c)
  BY <1>1, <1>2, EdgeFilesChunk
<1>3. CASE Assembly!MismatchedModel(c) \/ Assembly!HoldModel(c) \/ Assembly!Aggregate(c)
  <2>1. faults' \in 0..MaxFaults
    BY <1>1 DEF IInv, Shapes
  <2>2. UNCHANGED <<published, wire, receivedModelData, saved, lost, training>>
    BY <1>1
  <2> QED BY <1>3, <2>1, <2>2, EdgeMerges
<1> QED BY <1>2, <1>3 DEF EdgeTakes

\* A chunk or a model that cannot be written is a loss like any other.
LEMMA EdgeLosesOnDisk ==
    ASSUME IInv, NEW c \in Clients, Assembly!FailToFile(c) \/ Assembly!FailToSave(c),
           UNCHANGED <<published, wire, receivedModelData, saved, lost, training>>,
           faults' \in 0..MaxFaults
    PROVE  IInv'
<1> DEFINE lo == [lostUp[c] EXCEPT !.disk = @ + 1]
<1>1. /\ UNCHANGED <<online, published, wire, receivedModelData, saved, lost>>
      /\ upWire[c] # << >> /\ upWire' = [upWire EXCEPT ![c] = Tail(upWire[c])]
      /\ lostUp' = [lostUp EXCEPT ![c] = lo]
  BY DEF Assembly!FailToFile, Assembly!FailToSave, Assembly!Take
<1>2. /\ lo \in Losses /\ lo.chunk = lostUp[c].chunk /\ lo.end = lostUp[c].end
      /\ lo.disk = lostUp[c].disk + 1
  BY InFacts, MoreLosses
<1> HIDE DEF lo
<1>3. /\ lo.chunk >= lostUp[c].chunk /\ lo.disk >= lostUp[c].disk
      /\ Total(lo) = Total(lostUp[c]) + 1 /\ lo.chunk + lo.disk # 0
      /\ lo.chunk + lo.end + lo.disk <= 1 =>
            lostUp[c].chunk + lostUp[c].end + lostUp[c].disk <= 1
  <2>1. lostUp[c].chunk \in Nat /\ lostUp[c].end \in Nat /\ lostUp[c].disk \in Nat
    BY InFacts DEF Losses
  <2> QED BY <1>2, <2>1 DEF Total
<1>4. /\ roundModels' = roundModels /\ filed' = filed /\ aggregate' = aggregate
      /\ roundOpen' = TRUE
  BY DEF Assembly!FailToFile, Assembly!FailToSave, Assembly!Take
<1>5. /\ training' \in [Clients -> SUBSET (1..published)]
      /\ aggregate' \in [Clients -> Seq(Data(published))]
      /\ filed' = [filed EXCEPT ![c] = filed[c]]
  BY <1>4, SameValues DEF IInv, Shapes
<1>6. Rounds'
  BY <1>4 DEF IInv, Rounds
<1>7. AggregatesWholeModels'
  BY <1>1, <1>2, <1>3, <1>4, InFacts, LossesStay DEF IInv
<1>8. CASE Assembly!FailToFile(c)
  <2>1. chunkFiles' = chunkFiles /\ modelFile' = modelFile
    BY <1>8 DEF Assembly!FailToFile
  <2>2. /\ chunkFiles' = [chunkFiles EXCEPT ![c] = chunkFiles[c]]
        /\ modelFile' = [modelFile EXCEPT ![c] = modelFile[c]]
    BY <2>1, SameValues
  <2>3. Up(Connected(c), published, Tail(upWire[c]), chunkFiles[c], modelFile[c], filed[c], lo)
    BY <1>1, <1>2, <1>3, InFacts, UpLoses
  <2>4. Shapes' /\ Downs' /\ Ups'
    BY <1>1, <1>5, <2>2, <2>3, UpStep
  <2> QED BY <1>6, <1>7, <2>4 DEF IInv
<1>9. CASE Assembly!FailToSave(c)
  <2>1. Head(upWire[c]).part = EndMarker
    BY <1>9, Kinds DEF Assembly!FailToSave
  <2>2. chunkFiles' = [chunkFiles EXCEPT ![c] = Assembly!NoFiles]
    BY <1>9 DEF Assembly!FailToSave, Assembly!WriteModel, Assembly!RemoveChunks
  <2>3. PICK model \in Seq(Data(published)) : modelFile' = [modelFile EXCEPT ![c] = model]
    <3>1. CASE modelFile' = modelFile
      <4>1. modelFile' = [modelFile EXCEPT ![c] = modelFile[c]]
        BY <3>1, SameValues
      <4>2. modelFile[c] \in Seq(Data(published))
        BY InFacts DEF Up
      <4> QED BY <4>1, <4>2
    <3>2. CASE Assembly!WriteModel(c)
      <4>1. modelFile' = [modelFile EXCEPT ![c] = Assembly!Merged(chunkFiles[c])]
        BY <3>2 DEF Assembly!WriteModel
      <4>2. Assembly!Merged(chunkFiles[c]) \in Seq(Data(published))
        BY <1>1, <2>1, InFacts, MergedWhole
      <4> QED BY <4>1, <4>2
    <3> QED BY <1>9, <3>1, <3>2 DEF Assembly!FailToSave
  <2>4. /\ filed[c] \in Seq(Seq(Data(published)))
        /\ lo.chunk + lo.end + lo.disk <= 1 =>
              \A i \in DOMAIN filed[c] : WholeOf(filed[c][i], published)
    BY <1>3, InFacts DEF Up
  <2>5. Up(Connected(c), published, Tail(upWire[c]), Assembly!NoFiles, model, filed[c], lo)
    BY <1>1, <1>2, <1>3, <2>1, <2>4, InFacts, UpTakesEnd
  <2>6. Shapes' /\ Downs' /\ Ups'
    BY <1>1, <1>5, <2>2, <2>3, <2>5, UpStep
  <2> QED BY <1>6, <1>7, <2>6 DEF IInv
<1> QED BY <1>8, <1>9

LEMMA EdgeFailureSteps ==
    ASSUME IInv, NEW c \in Clients, EdgeFails(c)
    PROVE  IInv'
<1>1. /\ UNCHANGED <<published, wire, receivedModelData, saved, lost, training>>
      /\ faults' \in 0..MaxFaults
  BY FaultCounts DEF EdgeFails
<1>2. CASE Assembly!FailToFile(c) \/ Assembly!FailToSave(c)
  BY <1>1, <1>2, EdgeLosesOnDisk
<1>3. CASE Assembly!AggregationFails(c)
  BY <1>1, <1>3, EdgeMerges
<1> QED BY <1>2, <1>3 DEF EdgeFails

LEMMA RoundTimerSteps ==
    ASSUME IInv, RoundTimerExpires
    PROVE  IInv'
<1>1. /\ \A c \in Clients : upWire[c] = << >>
      /\ roundOpen' = FALSE /\ roundModels' = {}
      /\ chunkFiles' = [c \in Clients |-> Assembly!NoFiles]
      /\ modelFile' = [c \in Clients |-> << >>]
      /\ online' = online /\ upWire' = upWire /\ filed' = filed /\ aggregate' = aggregate
      /\ lostUp' = lostUp
  BY DEF RoundTimerExpires, Assembly!RoundTimerExpires, Assembly!NoFile
<1>2. /\ published' = published /\ wire' = wire /\ receivedModelData' = receivedModelData
      /\ saved' = saved /\ lost' = lost /\ training' = training
  BY DEF RoundTimerExpires
<1>3. faults' \in 0..MaxFaults
  BY FaultCounts DEF RoundTimerExpires
<1>4. Shapes'
  BY <1>1, <1>2, <1>3 DEF IInv, Shapes, Data
<1>5. Rounds'
  <2>1. DOMAIN Assembly!NoFiles = {}
    BY DEF Assembly!NoFiles
  <2> QED BY <1>1, <2>1 DEF Rounds
<1>6. Downs'
  BY <1>1, <1>2 DEF IInv, Downs, Connected
<1>7. Ups'
  <2> SUFFICES ASSUME NEW c \in Clients
               PROVE  Up(Connected(c), published, << >>, Assembly!NoFiles, << >>, filed[c],
                         lostUp[c])
    BY <1>1, <1>2 DEF Ups, Connected
  <2>1. Up(Connected(c), published, << >>, chunkFiles[c], modelFile[c], filed[c], lostUp[c])
    BY <1>1, InFacts
  <2> QED BY <2>1, InFacts, UpClosed
<1>8. AggregatesWholeModels'
  BY <1>1, <1>2, ConstantFacts, AggregateKept DEF IInv, Shapes
<1> QED BY <1>4, <1>5, <1>6, <1>7, <1>8 DEF IInv

\* A connection is lost: paths of which it was a part lose what is behind some
\* message, and are not of a connected client any more.
LEMMA CutSteps ==
    ASSUME IInv, NEW p \in Clients \cup {Edge}, ConnectionLost(p)
    PROVE  IInv'
<1>1. PICK kept, keptUp \in [Clients -> 0..(Chunks + 1)] :
        /\ \A c \in Clients : kept[c] <= Len(wire[c]) /\ keptUp[c] <= Len(upWire[c])
        /\ Disconnect(p, kept)
        /\ upWire' = [c \in Clients |-> IF p \in {Edge, c}
                                        THEN SubSeq(upWire[c], 1, keptUp[c])
                                        ELSE upWire[c]]
  BY DEF ConnectionLost
<1>2. /\ online' = online \ {p}
      /\ wire' = [c \in Clients |-> IF p \in {Edge, c} THEN SubSeq(wire[c], 1, kept[c])
                                                       ELSE wire[c]]
      /\ published' = published /\ receivedModelData' = receivedModelData /\ saved' = saved
      /\ lost' = lost
  BY <1>1 DEF Disconnect
<1>3. /\ training' = training /\ roundOpen' = roundOpen /\ chunkFiles' = chunkFiles
      /\ modelFile' = modelFile /\ roundModels' = roundModels /\ filed' = filed
      /\ aggregate' = aggregate /\ lostUp' = lostUp
  BY DEF ConnectionLost
<1>4. faults' \in 0..MaxFaults
  BY FaultCounts DEF ConnectionLost
<1>5. Shapes'
  <2>1. wire' = [c \in Clients |-> wire'[c]] /\ upWire' = [c \in Clients |-> upWire'[c]]
    BY <1>1, <1>2
  <2>2. online' \subseteq Clients \cup {Edge}
    BY <1>2 DEF IInv, Shapes
  <2> QED BY <1>2, <1>3, <1>4, <2>1, <2>2 DEF IInv, Shapes, Data
<1>6. Rounds'
  BY <1>3 DEF IInv, Rounds
<1>7. \A c \in Clients : kept[c] \in Nat /\ keptUp[c] \in Nat
  <2>1. \A i \in 0..(Chunks + 1) : i \in Nat
    BY ChunksAssumption
  <2> QED BY <2>1
<1>8. ASSUME NEW c \in Clients
      PROVE  /\ Down(Connected(c)', published, wire'[c], receivedModelData[c], saved[c], lost[c])
             /\ Up(Connected(c)', published, upWire'[c], chunkFiles[c], modelFile[c], filed[c],
                   lostUp[c])
  <2>1. /\ Down(Connected(c), published, wire[c], receivedModelData[c], saved[c], lost[c])
        /\ Up(Connected(c), published, upWire[c], chunkFiles[c], modelFile[c], filed[c],
              lostUp[c])
        /\ Connected(c) \in BOOLEAN /\ published \in Nat
    BY InFacts
  <2>2. CASE p \in {Edge, c}
    <3>1. Connected(c)' = FALSE
      BY <1>2, <2>2 DEF Connected
    <3>2. wire'[c] = SubSeq(wire[c], 1, kept[c]) /\ upWire'[c] = SubSeq(upWire[c], 1, keptUp[c])
      BY <1>1, <1>2, <2>2
    <3>3. Down(FALSE, published, SubSeq(wire[c], 1, kept[c]), receivedModelData[c], saved[c],
               lost[c])
      BY <1>1, <1>7, <2>1, DownCut
    <3>4. Up(FALSE, published, SubSeq(upWire[c], 1, keptUp[c]), chunkFiles[c], modelFile[c],
             filed[c], lostUp[c])
      BY <1>1, <1>7, <2>1, UpCut
    <3> QED BY <3>1, <3>2, <3>3, <3>4
  <2>3. CASE p \notin {Edge, c}
    <3>1. Connected(c)' = Connected(c)
      BY <1>2, <2>3 DEF Connected
    <3>2. wire'[c] = wire[c] /\ upWire'[c] = upWire[c]
      BY <1>1, <1>2, <2>3
    <3> QED BY <2>1, <3>1, <3>2
  <2> QED BY <2>2, <2>3
<1>9. Downs'
  BY <1>2, <1>8 DEF Downs
<1>10. Ups'
  BY <1>2, <1>3, <1>8 DEF Ups
<1>11. AggregatesWholeModels'
  BY <1>2, <1>3, ConstantFacts, AggregateKept DEF IInv, Shapes
<1> QED BY <1>5, <1>6, <1>9, <1>10, <1>11 DEF IInv

-----------------------------------------------------------------------------
(* The invariant. *)

LEMMA ExchangeSteps == IInv /\ [Next]_vars => IInv'
<1> SUFFICES ASSUME IInv, [Next]_vars
             PROVE  IInv'
  OBVIOUS
<1>1. CASE UNCHANGED vars
  <2>1. /\ online' = online /\ published' = published /\ wire' = wire
        /\ receivedModelData' = receivedModelData /\ saved' = saved /\ lost' = lost
        /\ training' = training /\ upWire' = upWire /\ roundOpen' = roundOpen
        /\ chunkFiles' = chunkFiles /\ modelFile' = modelFile /\ roundModels' = roundModels
        /\ filed' = filed /\ aggregate' = aggregate /\ lostUp' = lostUp /\ faults' = faults
    BY <1>1 DEF vars, broadcastVars
  <2>2. Shapes' /\ Rounds'
    BY <2>1 DEF IInv, Shapes, Rounds, Data
  <2>3. Downs' /\ Ups'
    BY <2>1 DEF IInv, Downs, Ups, Connected
  <2>4. AggregatesWholeModels'
    BY <2>1, ConstantFacts, AggregateKept DEF IInv, Shapes
  <2> QED BY <2>2, <2>3, <2>4 DEF IInv
<1>2. CASE EdgePublishes
  BY <1>2, PublishSteps
<1>3. CASE RoundTimerExpires
  BY <1>3, RoundTimerSteps
<1>4. ASSUME NEW c \in Clients,
             \/ ClientTakes(c) \/ ClientSaves(c) \/ ClientFailsToSave(c) \/ ClientUploads(c)
             \/ ClientGivesUp(c) \/ EdgeTakes(c) \/ EdgeFails(c) \/ DownlinkLoses(c)
             \/ UplinkLoses(c)
      PROVE  IInv'
  BY <1>4, TakeSteps, SaveSteps, SaveFailureSteps, UploadSteps, GiveUpSteps, EdgeTakeSteps,
     EdgeFailureSteps, DownlinkLossSteps, UplinkLossSteps
<1>5. ASSUME NEW p \in Clients \cup {Edge}, ConnectionLost(p)
      PROVE  IInv'
  BY <1>5, CutSteps
<1> QED BY <1>1, <1>2, <1>3, <1>4, <1>5 DEF Next

LEMMA ExchangeInvariant == Spec => []IInv
<1> QED BY ExchangeStarts, ExchangeSteps, PTL DEF Spec

\* The types of the two paths, and that the files and the models of a round are
\* gone with the round.
THEOREM ExchangeTyped == Spec => []TypeOK
<1>1. IInv => TypeOK
  <2> SUFFICES ASSUME IInv
               PROVE  TypeOK
    OBVIOUS
  <2>1. Data(published) \subseteq Parts
    BY ConstantFacts DEF IInv, Shapes, Data, Parts
  <2>2. \A T, s : s \in Seq(T) => ToSet(s) \subseteq T
    BY DEF ToSet
  <2>3. ASSUME NEW c \in Clients
        PROVE  /\ ToSet(receivedModelData[c]) \subseteq Parts
               /\ ToSet(modelFile[c]) \subseteq Parts
               /\ \A p \in DOMAIN chunkFiles[c] : /\ chunkFiles[c][p] \in Parts
                                                  /\ chunkFiles[c][p].part = p
               /\ training[c] \subseteq 1..published
    <3>1. receivedModelData[c] \in Seq(Data(published))
      BY InFacts
    <3>2. modelFile[c] \in Seq(Data(published)) /\ FilesTyped(published, chunkFiles[c])
      BY InFacts DEF Up
    <3>3. training[c] \subseteq 1..published
      BY DEF IInv, Shapes
    <3>4. \A p \in DOMAIN chunkFiles[c] : /\ chunkFiles[c][p] \in Data(published)
                                          /\ chunkFiles[c][p].part = p
      BY <3>2 DEF FilesTyped
    <3>5. /\ ToSet(receivedModelData[c]) \subseteq Data(published)
          /\ ToSet(modelFile[c]) \subseteq Data(published)
      BY <2>2, <3>1, <3>2
    <3> QED BY <2>1, <3>3, <3>4, <3>5
  <2> QED BY <2>3 DEF IInv, Shapes, Rounds, TypeOK
<1> QED BY <1>1, ExchangeInvariant, PTL

\* A lost chunk costs a connected client one model and a lost end marker two,
\* however the losses fall together: a marker is lost and the next model, spoilt
\* by the chunks before it, is thrown away with its own.
THEOREM LossesAreCheap == Spec => []LossesCostLittle
<1>1. IInv => LossesCostLittle
  <2> SUFFICES ASSUME IInv, NEW c \in Clients, Connected(c)
               PROVE  Len(saved[c]) + Cardinality(OnTheWire(c))
                          + lost[c].chunk + lost[c].disk + 2 * lost[c].end >= published
    BY DEF LossesCostLittle, Connected
  <2> DEFINE position == Position(wire[c], published)
             total == Len(saved[c]) + lost[c].chunk + lost[c].disk + 2 * lost[c].end
  <2>1. /\ published \in Nat /\ Len(saved[c]) \in Nat /\ lost[c].chunk \in Nat
        /\ lost[c].disk \in Nat /\ lost[c].end \in Nat
    BY InFacts, Numbers
  <2>2. OnTheWire(c) = position..published /\ position <= total + 1
    BY InFacts DEF Down, LittleLost, Excused, OnTheWire, Markers
  <2>3. position \in 1..(published + 1)
    <3>1. wire[c] # << >> => Head(wire[c]) \in Msgs(published)
      BY InFacts, FrontFacts DEF Down
    <3> QED BY <2>1, <3>1 DEF Position, Msgs
  <2> HIDE DEF position
  <2>4. Cardinality(OnTheWire(c)) = (published + 1) - position
    <3>1. position \in Int /\ published \in Int
      BY <2>1, <2>3
    <3>2. Cardinality(position..published) = IF position > published THEN 0
                                             ELSE published - position + 1
      BY <3>1, FS_Interval
    <3>3. position > published => position = published + 1
      BY <2>1, <2>3
    <3> QED BY <2>1, <2>2, <2>3, <3>1, <3>2, <3>3
  <2> DEFINE files == Len(saved[c])
             chunks == lost[c].chunk
             disk == lost[c].disk
             markers == 2 * lost[c].end
             coming == Cardinality(OnTheWire(c))
  <2>5. /\ files \in Nat /\ chunks \in Nat /\ disk \in Nat /\ markers \in Nat
        /\ position <= files + chunks + disk + markers + 1
        /\ coming = (published + 1) - position
    BY <2>1, <2>2, <2>4
  <2> HIDE DEF files, chunks, disk, markers, coming
  <2>6. files + coming + chunks + disk + markers >= published
    BY <2>1, <2>3, <2>5
  <2> QED BY <2>6 DEF files, chunks, disk, markers, coming
<1> QED BY <1>1, ExchangeInvariant, PTL

\* With one message of a client lost at most, whatever the edge announces is a
\* model as it was trained: one hole in a file never goes unnoticed.
THEOREM AnnouncedModelsAreWhole == Spec => []EdgeTakesWholeModels
<1>1. IInv => EdgeTakesWholeModels
  BY InFacts, WholeMeans DEF Up, EdgeTakesWholeModels
<1> QED BY <1>1, ExchangeInvariant, PTL

\* Lost end markers alone never put together a file of two models: what the
\* aggregation reads is whole unless a chunk is missing.
THEOREM AggregatedModelsAreWhole == Spec => []AggregatesWholeModels
<1>1. IInv => AggregatesWholeModels
  BY DEF IInv
<1> QED BY <1>1, ExchangeInvariant, PTL

-----------------------------------------------------------------------------
(* To each client the broadcast is a pipe that loses models alone. *)

Carries(c) == \/ Downlink(c)!Next
              \/ UNCHANGED <<published, OnTheWire(c), Received(c)>>

\* A file is not made whole by a model published after it was saved.
LEMMA NoLaterModel ==
    ASSUME NEW n \in Nat, NEW file \in Seq(Data(n))
    PROVE  WholeOf(file, n + 1) <=> WholeOf(file, n)
<1>1. file # FileOf(n + 1)
  <2> SUFFICES ASSUME file = FileOf(n + 1)
               PROVE  FALSE
    OBVIOUS
  <2>1. 1 \in 1..Chunks
    BY ChunksAssumption
  <2>2. FileOf(n + 1)[1].model = n + 1 /\ 1 \in DOMAIN FileOf(n + 1)
    BY <2>1 DEF FileOf
  <2>3. file[1] \in Data(n)
    BY <2>2
  <2> QED BY <2>2, <2>3 DEF Data
<1>2. 1..(n + 1) = 1..n \cup {n + 1}
  OBVIOUS
<1> QED BY <1>1, <1>2 DEF WholeOf

LEMMA ReceivedKept ==
    ASSUME IInv, NEW c \in Clients, saved'[c] = saved[c],
           published' \in {published, published + 1}
    PROVE  Received(c)' = Received(c)
<1>1. published \in Nat /\ saved[c] \in Seq(Seq(Data(published)))
  BY InFacts
<1>2. ASSUME NEW i \in DOMAIN saved[c]
      PROVE  WholeOf(saved[c][i], published') <=> WholeOf(saved[c][i], published)
  <2>1. saved[c][i] \in Seq(Data(published))
    BY <1>1
  <2> QED BY <1>1, <2>1, NoLaterModel
<1>3. Received(c) = [i \in DOMAIN saved[c] |->
                        IF WholeOf(saved[c][i], published) THEN saved[c][i][1].model ELSE 0]
  BY DEF Received, Whole, WholeOf
<1>4. Received(c)' = [i \in DOMAIN saved'[c] |->
                        IF WholeOf(saved'[c][i], published') THEN saved'[c][i][1].model ELSE 0]
  BY DEF Received, Whole, WholeOf, FileOf
<1> QED BY <1>2, <1>3, <1>4

\* Nothing happens on the path to c.
LEMMA QuietPath ==
    ASSUME IInv, NEW c \in Clients, published' = published, saved'[c] = saved[c],
           Markers(wire'[c]) = Markers(wire[c])
    PROVE  Carries(c)
<1>1. Received(c)' = Received(c)
  BY ReceivedKept
<1>2. OnTheWire(c)' = OnTheWire(c)
  BY DEF OnTheWire, Markers
<1> QED BY <1>1, <1>2 DEF Carries

\* Only some of the models on the way to c are left.
LEMMA LosingPath ==
    ASSUME IInv, NEW c \in Clients, published' = published, saved'[c] = saved[c],
           Markers(wire'[c]) \subseteq Markers(wire[c])
    PROVE  Carries(c)
<1>1. Received(c)' = Received(c)
  BY ReceivedKept
<1>2. OnTheWire(c)' \subseteq OnTheWire(c)
  BY DEF OnTheWire, Markers
<1>3. Downlink(c)!Lose
  BY <1>1, <1>2 DEF Downlink!Lose
<1> QED BY <1>3 DEF Carries, Downlink!Next

\* A step of the path to another client.
LEMMA OtherPath ==
    ASSUME IInv, NEW c \in Clients, NEW d \in Clients, c # d, published' = published,
           NEW w, NEW files,
           wire' = [wire EXCEPT ![d] = w], saved' = [saved EXCEPT ![d] = files]
    PROVE  Carries(c)
<1>1. wire'[c] = wire[c] /\ saved'[c] = saved[c]
  <2>1. wire = [e \in Clients |-> wire[e]] /\ saved = [e \in Clients |-> saved[e]]
    BY DEF IInv, Shapes
  <2> QED BY <2>1
<1> QED BY <1>1, QuietPath

LEMMA FrontOfPath ==
    ASSUME IInv, NEW c \in Clients, wire[c] # << >>
    PROVE  /\ Markers(Tail(wire[c])) = IF Head(wire[c]).part = EndMarker
                                       THEN Markers(wire[c]) \ {Head(wire[c]).model}
                                       ELSE Markers(wire[c])
           /\ Head(wire[c]).part = EndMarker => Head(wire[c]).model \in Markers(wire[c])
           /\ \A m \in Markers(wire[c]) : Head(wire[c]).model <= m
BY InFacts, MarkersTail DEF Down

\* A message for client d is at an end, and nothing is saved.
LEMMA DroppingPath ==
    ASSUME IInv, NEW c \in Clients, NEW d \in Clients, wire[d] # << >>,
           published' = published, wire' = [wire EXCEPT ![d] = Tail(wire[d])],
           saved' = saved
    PROVE  Carries(c)
<1>1. CASE c # d
  <2>1. saved' = [saved EXCEPT ![d] = saved[d]]
    BY SameValues
  <2> QED BY <1>1, <2>1, OtherPath
<1>2. CASE c = d
  <2>1. wire'[c] = Tail(wire[c])
    <3>1. wire = [e \in Clients |-> wire[e]]
      BY DEF IInv, Shapes
    <3> QED BY <1>2, <3>1
  <2>2. Markers(wire'[c]) \subseteq Markers(wire[c])
    BY <1>2, <2>1, FrontOfPath
  <2> QED BY <2>2, LosingPath
<1> QED BY <1>1, <1>2

\* A model is saved.  This is where the losses count: they are too few for the
\* data to be of another model.
LEMMA SavingPath ==
    ASSUME IInv, NEW c \in Clients, NEW d \in Clients, SaveModel(d),
           lost[c].chunk + lost[c].end <= Chunks
    PROVE  Carries(c)
<1>1. /\ wire[d] # << >> /\ Head(wire[d]).part = EndMarker
      /\ wire' = [wire EXCEPT ![d] = Tail(wire[d])] /\ published' = published
      /\ Len(receivedModelData[d]) = Chunks
      /\ saved' = [saved EXCEPT ![d] = Append(saved[d], receivedModelData[d])]
  BY Kinds DEF SaveModel, TakeEnd, Take
<1>2. CASE c # d
  BY <1>1, <1>2, OtherPath
<1>3. CASE c = d
  <2> DEFINE m == Head(wire[c]).model
             n == Len(saved[c])
  <2>1. m \in 1..published /\ receivedModelData[c] = FileOf(m)
    BY <1>1, <1>3, InFacts, SavedIsWhole
  <2>2. wire'[c] = Tail(wire[c]) /\ saved'[c] = Append(saved[c], FileOf(m))
    <3>1. wire = [e \in Clients |-> wire[e]] /\ saved = [e \in Clients |-> saved[e]]
      BY DEF IInv, Shapes
    <3> QED BY <1>1, <1>3, <2>1, <3>1
  <2>3. /\ OnTheWire(c)' = OnTheWire(c) \ {m} /\ m \in OnTheWire(c)
        /\ \A other \in OnTheWire(c) : m <= other
    BY <1>1, <1>3, <2>2, FrontOfPath DEF OnTheWire, Markers
  <2>4. /\ saved[c] \in Seq(Seq(Data(published))) /\ published \in Nat /\ n \in Nat
        /\ DOMAIN saved[c] = 1..n
    BY InFacts
  <2>5. FileOf(m)[1].model = m /\ WholeOf(FileOf(m), published)
    BY <2>1, ChunksAssumption DEF FileOf, WholeOf
  <2> HIDE DEF m, n
  <2>6. /\ DOMAIN saved'[c] = 1..(n + 1) /\ saved'[c][n + 1] = FileOf(m)
        /\ \A i \in 1..n : saved'[c][i] = saved[c][i]
    <3>1. \A T : \A s \in Seq(T) : \A e :
             /\ DOMAIN Append(s, e) = 1..(Len(s) + 1) /\ Append(s, e)[Len(s) + 1] = e
             /\ \A i \in 1..Len(s) : Append(s, e)[i] = s[i]
      OBVIOUS
    <3> QED BY <2>2, <2>4, <3>1 DEF n
  <2>7. /\ Received(c) = [i \in 1..n |->
              IF WholeOf(saved[c][i], published) THEN saved[c][i][1].model ELSE 0]
        /\ Received(c)' = [i \in 1..(n + 1) |->
              IF WholeOf(saved'[c][i], published) THEN saved'[c][i][1].model ELSE 0]
    <3>1. Received(c) = [i \in DOMAIN saved[c] |->
              IF WholeOf(saved[c][i], published) THEN saved[c][i][1].model ELSE 0]
      BY DEF Received, Whole, WholeOf
    <3>2. Received(c)' = [i \in DOMAIN saved'[c] |->
              IF WholeOf(saved'[c][i], published') THEN saved'[c][i][1].model ELSE 0]
      BY DEF Received, Whole, WholeOf, FileOf
    <3> QED BY <1>1, <2>4, <2>6, <3>1, <3>2
  <2>8. Received(c)' = Append(Received(c), m)
    <3> DEFINE v(i) == IF WholeOf(saved[c][i], published) THEN saved[c][i][1].model ELSE 0
               r == [i \in 1..n |-> v(i)]
    <3>1. Received(c)' = [i \in 1..(n + 1) |-> IF i <= n THEN v(i) ELSE m]
      <4>1. ASSUME NEW i \in 1..(n + 1)
            PROVE  (IF WholeOf(saved'[c][i], published) THEN saved'[c][i][1].model ELSE 0)
                   = IF i <= n THEN v(i) ELSE m
        <5>1. CASE i = n + 1
          BY <2>4, <2>5, <2>6, <5>1
        <5>2. CASE i # n + 1
          <6>1. i \in 1..n
            BY <2>4, <5>2
          <6> QED BY <2>6, <6>1
        <5> QED BY <5>1, <5>2
      <4> QED BY <2>7, <4>1
    <3>2. Received(c) = r
      BY <2>7
    <3> HIDE DEF v
    <3>3. Append(r, m) = [i \in 1..(n + 1) |-> IF i <= n THEN v(i) ELSE m]
      BY <2>4
    <3> QED BY <3>1, <3>2, <3>3
  <2>9. Downlink(c)!Deliver
    BY <1>1, <2>3, <2>8 DEF Downlink!Deliver
  <2> QED BY <2>9 DEF Carries, Downlink!Next
<1> QED BY <1>2, <1>3

LEMMA PublishingPath ==
    ASSUME IInv, NEW c \in Clients, PublishModel
    PROVE  Carries(c)
<1>1. /\ published' = published + 1 /\ saved' = saved
      /\ wire'[c] = IF Connected(c) THEN wire[c] \o Messages(published + 1) ELSE wire[c]
  BY DEF PublishModel, Connected
<1>2. Received(c)' = Received(c)
  BY <1>1, ReceivedKept
<1>3. Markers(wire'[c]) \in {Markers(wire[c]), Markers(wire[c]) \cup {published + 1}}
  BY <1>1, InFacts, MarkersConcat DEF Down
<1>4. OnTheWire(c)' \in {OnTheWire(c), OnTheWire(c) \cup {published'}}
  BY <1>1, <1>3 DEF OnTheWire, Markers
<1>5. Downlink(c)!Send
  BY <1>1, <1>2, <1>4 DEF Downlink!Send
<1> QED BY <1>5 DEF Carries, Downlink!Next

LEMMA CutPath ==
    ASSUME IInv, NEW c \in Clients, NEW p, NEW kept \in [Clients -> 0..(Chunks + 1)],
           \A d \in Clients : kept[d] <= Len(wire[d]), Disconnect(p, kept)
    PROVE  Carries(c)
<1>1. /\ published' = published /\ saved' = saved
      /\ wire'[c] \in {wire[c], SubSeq(wire[c], 1, kept[c])}
  BY DEF Disconnect
<1>2. kept[c] \in Nat /\ kept[c] <= Len(wire[c])
  <2>1. \A i \in 0..(Chunks + 1) : i \in Nat
    BY ChunksAssumption
  <2> QED BY <2>1
<1>3. ToSet(SubSeq(wire[c], 1, kept[c])) \subseteq ToSet(wire[c])
  BY <1>2, InFacts, PrefixFacts DEF Down
<1>4. Markers(wire'[c]) \subseteq Markers(wire[c])
  BY <1>1, <1>3 DEF Markers
<1> QED BY <1>1, <1>4, LosingPath

LEMMA PipeSteps ==
    ASSUME IInv, [Next]_vars, NEW c \in Clients, lost[c].chunk + lost[c].end <= Chunks
    PROVE  Carries(c)
<1>1. CASE published' = published /\ wire' = wire /\ saved' = saved
  BY <1>1, QuietPath
<1>2. CASE EdgePublishes
  BY <1>2, PublishingPath DEF EdgePublishes
<1>3. CASE RoundTimerExpires
  BY <1>1, <1>3 DEF RoundTimerExpires
<1>4. ASSUME NEW d \in Clients,
             \/ ReceiveChunk(d) \/ DropModel(d) \/ FailToSave(d) \/ LoseMessage(d)
      PROVE  Carries(c)
  <2>1. /\ wire[d] # << >> /\ published' = published /\ saved' = saved
        /\ wire' = [wire EXCEPT ![d] = Tail(wire[d])]
    BY <1>4 DEF ReceiveChunk, DropModel, FailToSave, LoseMessage, TakeEnd, Take
  <2> QED BY <2>1, DroppingPath
<1>5. ASSUME NEW d \in Clients, SaveModel(d)
      PROVE  Carries(c)
  BY <1>5, SavingPath
<1>6. ASSUME NEW d \in Clients,
             \/ ClientTakes(d) \/ ClientSaves(d) \/ ClientFailsToSave(d) \/ DownlinkLoses(d)
      PROVE  Carries(c)
  BY <1>4, <1>5, <1>6 DEF ClientTakes, ClientSaves, ClientFailsToSave, DownlinkLoses
<1>7. ASSUME NEW d \in Clients,
             \/ ClientUploads(d) \/ ClientGivesUp(d) \/ EdgeTakes(d) \/ EdgeFails(d)
             \/ UplinkLoses(d)
      PROVE  Carries(c)
  BY <1>1, <1>7 DEF ClientUploads, ClientGivesUp, EdgeTakes, EdgeFails, UplinkLoses,
                    broadcastVars
<1>8. ASSUME NEW p \in Clients \cup {Edge}, ConnectionLost(p)
      PROVE  Carries(c)
  <2>1. PICK kept \in [Clients -> 0..(Chunks + 1)] :
           /\ \A d \in Clients : kept[d] <= Len(wire[d])
           /\ Disconnect(p, kept)
    BY <1>8 DEF ConnectionLost
  <2> QED BY <2>1, CutPath
<1>9. CASE UNCHANGED vars
  BY <1>1, <1>9 DEF vars, broadcastVars
<1> QED BY <1>2, <1>3, <1>6, <1>7, <1>8, <1>9 DEF Next

\* As long as no more of the messages to a client are lost than a model has
\* chunks, what it saves are published models, each at most once and in the order
\* of publication, and a model is lost alone.
THEOREM BroadcastIsPipe == Spec => ImplementsPipes
<1> DEFINE Step == \A c \in Clients : lost[c].chunk + lost[c].end <= Chunks =>
                       \/ Downlink(c)!Next
                       \/ UNCHANGED <<published, OnTheWire(c), Received(c)>>
           Start == \A c \in Clients : Downlink(c)!Init
<1>1. ExchangeInit => Start
  <2> SUFFICES ASSUME ExchangeInit, NEW c \in Clients
               PROVE  Downlink(c)!Init
    OBVIOUS
  <2>1. published = 0 /\ wire[c] = << >> /\ saved[c] = << >>
    BY DEF ExchangeInit, Init
  <2>2. OnTheWire(c) = {} /\ Received(c) = << >>
    BY <2>1 DEF OnTheWire, Received, ToSet
  <2> QED BY <2>1, <2>2 DEF Downlink!Init
<1>2. IInv /\ [Next]_vars => [Step]_vars
  BY PipeSteps DEF Carries
<1> HIDE DEF Step, Start
<1>3. Spec => Start /\ [][Step]_vars
  BY <1>1, <1>2, ExchangeInvariant, PTL DEF Spec
<1> QED BY <1>3 DEF Step, Start, ImplementsPipes

=============================================================================
