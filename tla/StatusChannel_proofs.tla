------------------------ MODULE StatusChannel_proofs ------------------------
(***************************************************************************)
(* The safety of StatusChannel for any lengths of texts, any number of     *)
(* texts and restarts, and a stream that is cut anywhere.                  *)
(***************************************************************************)
EXTENDS StatusChannel, FiniteSetTheorems, SequenceTheorems, TLAPS

-----------------------------------------------------------------------------
(* Counting in the list of texts, which only grows.                            *)

Places(s, S) == {i \in DOMAIN s : s[i] \in S}

\* A count is a number between 0 and the length.
LEMMA CountType ==
    ASSUME NEW T, NEW s \in Seq(T), NEW S
    PROVE  /\ IsFiniteSet(Places(s, S))
           /\ Count(s, S) \in Nat
           /\ Count(s, S) <= Len(s)
<1>1. DOMAIN s = 1..Len(s) /\ Len(s) \in Nat
  OBVIOUS
<1>2. IsFiniteSet(1..Len(s)) /\ Cardinality(1..Len(s)) = Len(s)
  BY <1>1, FS_Interval
<1>3. Places(s, S) \in SUBSET (1..Len(s))
  BY <1>1 DEF Places
<1>4. IsFiniteSet(Places(s, S)) /\ Cardinality(Places(s, S)) <= Len(s)
  BY <1>2, <1>3, FS_Subset
<1> QED BY <1>4, FS_CardinalityType DEF Count, Places

LEMMA CountEmpty ==
    ASSUME NEW S
    PROVE  Count(<< >>, S) = 0
<1>1. Places(<< >>, S) = {}
  BY DEF Places
<1> QED BY <1>1, FS_EmptySet DEF Count, Places

\* One more at the end.
LEMMA CountAppend ==
    ASSUME NEW T, NEW s \in Seq(T), NEW e \in T, NEW S
    PROVE  Count(Append(s, e), S) = Count(s, S) + IF e \in S THEN 1 ELSE 0
<1> DEFINE P == Places(s, S)
           n == Len(s)
<1>1. /\ n \in Nat /\ DOMAIN s = 1..n /\ DOMAIN Append(s, e) = 1..(n + 1)
      /\ \A i \in 1..(n + 1) : Append(s, e)[i] = IF i = n + 1 THEN e ELSE s[i]
  OBVIOUS
<1>2. IsFiniteSet(P) /\ Cardinality(P) \in Nat
  BY CountType DEF Count, Places
<1>3. n + 1 \notin P
  BY <1>1 DEF Places
<1>4. Places(Append(s, e), S) = IF e \in S THEN P \cup {n + 1} ELSE P
  BY <1>1 DEF Places
<1> HIDE DEF P, n
<1>5. Cardinality(P \cup {n + 1}) = Cardinality(P) + 1
  BY <1>2, <1>3, FS_AddElement
<1>6. Count(Append(s, e), S) = Cardinality(IF e \in S THEN P \cup {n + 1} ELSE P)
      /\ Count(s, S) = Cardinality(P)
  <2>1. Count(Append(s, e), S) = Cardinality(Places(Append(s, e), S))
        /\ Count(s, S) = Cardinality(Places(s, S))
    BY DEF Count, Places
  <2> QED BY <1>4, <2>1 DEF P
<1> QED BY <1>2, <1>5, <1>6

LEMMA HoldsAppend ==
    ASSUME NEW T, NEW s \in Seq(T), NEW e \in T
    PROVE  Append(s, e) \in Seq(T) /\ ToSet(Append(s, e)) = ToSet(s) \cup {e}
<1>1. /\ Append(s, e) \in Seq(T) /\ Len(s) \in Nat /\ DOMAIN s = 1..Len(s)
      /\ DOMAIN Append(s, e) = 1..(Len(s) + 1)
      /\ \A i \in 1..(Len(s) + 1) : Append(s, e)[i] = IF i = Len(s) + 1 THEN e ELSE s[i]
  OBVIOUS
<1>2. ASSUME NEW x \in ToSet(s) \cup {e}
      PROVE  x \in ToSet(Append(s, e))
  BY <1>1, <1>2 DEF ToSet
<1>3. ASSUME NEW x \in ToSet(Append(s, e))
      PROVE  x \in ToSet(s) \cup {e}
  BY <1>1, <1>3 DEF ToSet
<1> QED BY <1>1, <1>2, <1>3

-----------------------------------------------------------------------------
(* The invariant.  What is left of the connection's stream is a row of whole *)
(* frames, behind the rest of one whose block size has been read.           *)

Unit == [text : Nat, field : {"block", "length", "text"}, value : Nat]

units == arrived \o stream

\* Every block size is followed by its length, every length by its text and
\* that by the next frame.
Framed(u) ==
    /\ \A k \in DOMAIN u : u[k].field = "block" =>
          /\ u[k].value - 1 \in Lengths
          /\ k + 1 \in DOMAIN u
          /\ u[k + 1].field = "length" /\ u[k + 1].value = u[k].value - 1
    /\ \A k \in DOMAIN u : u[k].field = "length" =>
          /\ u[k].value \in Lengths
          /\ k + u[k].value \in DOMAIN u
          /\ u[k + 1].field = "text"
          /\ k + u[k].value + 1 \in DOMAIN u => u[k + u[k].value + 1].field = "block"

\* Frames are in the order of their texts.
Ascending(u) ==
    \A j, k \in DOMAIN u : j < k =>
        /\ u[j].text <= u[k].text
        /\ u[k].field = "block" => u[j].text < u[k].text

\* Where the centre stands: in front of a frame, or behind its block size.
InStep == units # << >> =>
              \/ Head(units).field = "block"
              \/ Head(units).field = "length" /\ blockSize = Head(units).value + 1

\* A block size that belongs to a frame of an earlier connection.
Leftover == blockSize # 0 /\ (units = << >> \/ Head(units).field = "block")

Streams == /\ arrived \in Seq(Unit) /\ stream \in Seq(Unit)
           /\ received \in Seq(Nat) /\ written \in Seq(Nat) /\ sent \in Nat
           /\ \A k \in DOMAIN units : units[k].text \in 1..sent

\* No text that is still on its way has been shown, nor has a later one.
NotShownYet == \A i \in DOMAIN received, k \in DOMAIN units : received[i] < units[k].text

Garbled == Count(received, {0}) + (IF Leftover THEN 1 ELSE 0) <= torn

IInv == /\ TypeOK /\ Streams
        /\ Framed(units) /\ Ascending(units) /\ InStep
        /\ NotShownYet /\ Garbled /\ TextsInOrder

-----------------------------------------------------------------------------
(* Streams that are read at the front and written at the end. *)

\* u without its first m units.
After(u, m) == SubSeq(u, m + 1, Len(u))

LEMMA AfterUnits ==
    ASSUME NEW T, NEW u \in Seq(T), NEW m \in 0..Len(u)
    PROVE  /\ After(u, m) \in Seq(T)
           /\ Len(After(u, m)) = Len(u) - m
           /\ DOMAIN After(u, m) = 1..(Len(u) - m)
           /\ \A k \in 1..(Len(u) - m) : After(u, m)[k] = u[k + m]
BY DEF After

LEMMA AfterFramed ==
    ASSUME NEW u \in Seq(Unit), NEW m \in 0..Len(u), Framed(u), Ascending(u)
    PROVE  Framed(After(u, m)) /\ Ascending(After(u, m))
<1> DEFINE v == After(u, m)
<1>1. /\ v \in Seq(Unit) /\ DOMAIN v = 1..(Len(u) - m)
      /\ \A k \in 1..(Len(u) - m) : v[k] = u[k + m]
      /\ DOMAIN u = 1..Len(u) /\ Len(u) \in Nat /\ m \in Nat
      /\ \A k \in DOMAIN u : u[k].value \in Nat
  <2>1. /\ v \in Seq(Unit) /\ DOMAIN v = 1..(Len(u) - m)
        /\ \A k \in 1..(Len(u) - m) : v[k] = u[k + m]
    BY AfterUnits
  <2>2. DOMAIN u = 1..Len(u) /\ Len(u) \in Nat /\ m \in Nat
    OBVIOUS
  <2>3. \A k \in DOMAIN u : u[k] \in Unit
    OBVIOUS
  <2> QED BY <2>1, <2>2, <2>3 DEF Unit
<1> HIDE DEF v
<1>2. ASSUME NEW k \in DOMAIN v
      PROVE  k + m \in DOMAIN u /\ v[k] = u[k + m]
  BY <1>1
<1>3. ASSUME NEW k \in DOMAIN v, v[k].field = "block"
      PROVE  /\ v[k].value - 1 \in Lengths
             /\ k + 1 \in DOMAIN v
             /\ v[k + 1].field = "length" /\ v[k + 1].value = v[k].value - 1
  <2>1. /\ u[k + m].value - 1 \in Lengths
        /\ k + m + 1 \in DOMAIN u
        /\ u[k + m + 1].field = "length" /\ u[k + m + 1].value = u[k + m].value - 1
    BY <1>2, <1>3 DEF Framed
  <2>2. k + 1 \in DOMAIN v /\ v[k + 1] = u[k + m + 1]
    BY <1>1, <1>3, <2>1
  <2> QED BY <1>2, <1>3, <2>1, <2>2
<1>4. ASSUME NEW k \in DOMAIN v, v[k].field = "length"
      PROVE  /\ v[k].value \in Lengths
             /\ k + v[k].value \in DOMAIN v
             /\ v[k + 1].field = "text"
             /\ k + v[k].value + 1 \in DOMAIN v => v[k + v[k].value + 1].field = "block"
  <2> DEFINE L == u[k + m].value
  <2>1. /\ L \in Lengths
        /\ k + m + L \in DOMAIN u
        /\ u[k + m + 1].field = "text"
        /\ k + m + L + 1 \in DOMAIN u => u[k + m + L + 1].field = "block"
    BY <1>2, <1>4 DEF Framed
  <2>2. L \in Nat \ {0} /\ v[k].value = L
    BY <1>2, <1>4, <2>1, LengthsAssumption
  <2>3. k + 1 \in DOMAIN v /\ k + L \in DOMAIN v
    <3>1. k \in 1..(Len(u) - m) /\ k + m + L \in 1..Len(u)
      BY <1>1, <1>4, <2>1
    <3> HIDE DEF L
    <3>2. k + 1 \in 1..(Len(u) - m) /\ k + L \in 1..(Len(u) - m)
      BY <1>1, <2>2, <3>1
    <3> QED BY <1>1, <3>2
  <2>4. v[k + 1] = u[k + m + 1]
    BY <1>1, <2>3
  <2>5. k + L + 1 \in DOMAIN v => v[k + L + 1].field = "block"
    <3> SUFFICES ASSUME k + L + 1 \in DOMAIN v
                 PROVE  v[k + L + 1].field = "block"
      OBVIOUS
    <3>1. v[k + L + 1] = u[k + L + 1 + m] /\ k + L + 1 + m \in DOMAIN u
      BY <1>1, <2>2
    <3>2. k + L + 1 + m = k + m + L + 1
      BY <1>1, <2>2
    <3> QED BY <2>1, <3>1, <3>2
  <2> QED BY <2>1, <2>2, <2>3, <2>4, <2>5
<1>5. Framed(v)
  BY <1>3, <1>4 DEF Framed
<1>6. Ascending(v)
  <2> SUFFICES ASSUME NEW j \in DOMAIN v, NEW k \in DOMAIN v, j < k
               PROVE  /\ v[j].text <= v[k].text
                      /\ v[k].field = "block" => v[j].text < v[k].text
    BY DEF Ascending
  <2>1. j + m < k + m
    BY <1>1
  <2> QED BY <1>2, <2>1 DEF Ascending
<1> QED BY <1>5, <1>6 DEF v

\* What a frame is made of.
LEMMA FrameUnits ==
    ASSUME NEW n \in Nat, NEW length \in Lengths
    PROVE  LET v == Frame(n, length)
           IN  /\ v \in Seq(Unit) /\ Len(v) = length + 2 /\ DOMAIN v = 1..(length + 2)
               /\ v[1] = [text |-> n, field |-> "block", value |-> length + 1]
               /\ v[2] = [text |-> n, field |-> "length", value |-> length]
               /\ \A k \in 3..(length + 2) : v[k] = [text |-> n, field |-> "text", value |-> 0]
<1> DEFINE h == <<[text |-> n, field |-> "block", value |-> length + 1],
                  [text |-> n, field |-> "length", value |-> length]>>
           t == [i \in 1..length |-> [text |-> n, field |-> "text", value |-> 0]]
<1>1. length \in Nat
  BY LengthsAssumption
<1>2. h \in Seq(Unit) /\ Len(h) = 2
  BY <1>1 DEF Unit
<1>3. t \in [1..length -> Unit]
  BY DEF Unit
<1>4. t \in Seq(Unit) /\ Len(t) = length
  BY <1>1, <1>3
<1>5. Frame(n, length) = h \o t
  BY DEF Frame
<1>6. h \o t \in Seq(Unit) /\ Len(h \o t) = length + 2
      /\ \A k \in 1..(length + 2) : (h \o t)[k] = IF k <= 2 THEN h[k] ELSE t[k - 2]
  BY <1>1, <1>2, <1>4
<1>7. \A k \in 3..(length + 2) : t[k - 2] = [text |-> n, field |-> "text", value |-> 0]
  BY <1>1
<1> HIDE DEF t
<1> QED BY <1>1, <1>2, <1>5, <1>6, <1>7

LEMMA GrownFramed ==
    ASSUME NEW u \in Seq(Unit), Framed(u), Ascending(u),
           NEW n \in Nat, NEW length \in Lengths,
           \A k \in DOMAIN u : u[k].text < n
    PROVE  LET w == u \o Frame(n, length)
           IN  /\ w \in Seq(Unit) /\ w # << >>
               /\ Framed(w) /\ Ascending(w)
               /\ \A k \in DOMAIN w : w[k].text = n \/ \E j \in DOMAIN u : w[k] = u[j]
               /\ Head(w) = IF u = << >> THEN [text |-> n, field |-> "block", value |-> length + 1]
                                         ELSE Head(u)
<1> DEFINE v == Frame(n, length)
           w == u \o v
           m == Len(u)
<1>1. /\ v \in Seq(Unit) /\ Len(v) = length + 2 /\ DOMAIN v = 1..(length + 2)
      /\ v[1] = [text |-> n, field |-> "block", value |-> length + 1]
      /\ v[2] = [text |-> n, field |-> "length", value |-> length]
      /\ \A k \in 3..(length + 2) : v[k] = [text |-> n, field |-> "text", value |-> 0]
  BY FrameUnits
<1>2. length \in Nat \ {0} /\ m \in Nat /\ DOMAIN u = 1..m
  BY LengthsAssumption
<1>3. /\ w \in Seq(Unit) /\ Len(w) = m + length + 2
  <2> HIDE DEF v
  <2>1. v \in Seq(Unit)
    BY <1>1
  <2>2. w \in Seq(Unit) /\ Len(w) = m + Len(v)
    BY <2>1
  <2> QED BY <1>1, <1>2, <2>2
<1>4. \A k \in 1..(m + length + 2) : w[k] = IF k <= m THEN u[k] ELSE v[k - m]
  BY <1>1, <1>2
<1>5. DOMAIN w = 1..(m + length + 2)
  BY <1>2, <1>3
<1> HIDE DEF v, w
<1>6. \A k \in 1..m : w[k] = u[k]
  BY <1>2, <1>4
<1>7. w[m + 1] = v[1] /\ w[m + 2] = v[2]
  BY <1>2, <1>4
<1>8. ASSUME NEW k \in (m + 3)..(m + length + 2)
      PROVE  w[k] = [text |-> n, field |-> "text", value |-> 0]
  <2>1. k \in 1..(m + length + 2) /\ ~(k <= m) /\ k - m \in 3..(length + 2)
    BY <1>2
  <2> QED BY <1>1, <1>4, <2>1
<1>9. \A k \in DOMAIN w : k \in 1..m \/ k = m + 1 \/ k = m + 2 \/ k \in (m + 3)..(m + length + 2)
  BY <1>2, <1>5
<1>10. ASSUME NEW k \in DOMAIN w, w[k].field = "block"
       PROVE  /\ w[k].value - 1 \in Lengths
              /\ k + 1 \in DOMAIN w
              /\ w[k + 1].field = "length" /\ w[k + 1].value = w[k].value - 1
  <2>1. CASE k \in 1..m
    <3>1. /\ u[k].value - 1 \in Lengths
          /\ k + 1 \in 1..m
          /\ u[k + 1].field = "length" /\ u[k + 1].value = u[k].value - 1
      BY <1>2, <1>6, <1>10, <2>1 DEF Framed
    <3> QED BY <1>2, <1>5, <1>6, <2>1, <3>1
  <2>2. CASE k = m + 1
    <3>1. k + 1 = m + 2 /\ k + 1 \in DOMAIN w
      BY <1>2, <1>5, <2>2
    <3> QED BY <1>1, <1>2, <1>7, <2>2, <3>1
  <2>3. CASE k = m + 2 \/ k \in (m + 3)..(m + length + 2)
    BY <1>1, <1>7, <1>8, <1>10, <2>3
  <2> QED BY <1>9, <2>1, <2>2, <2>3
<1>11. ASSUME NEW k \in DOMAIN w, w[k].field = "length"
       PROVE  /\ w[k].value \in Lengths
              /\ k + w[k].value \in DOMAIN w
              /\ w[k + 1].field = "text"
              /\ k + w[k].value + 1 \in DOMAIN w => w[k + w[k].value + 1].field = "block"
  <2>1. CASE k \in 1..m
    <3> DEFINE L == u[k].value
    <3>1. /\ L \in Lengths /\ k + L \in 1..m /\ u[k + 1].field = "text"
          /\ k + L + 1 \in 1..m => u[k + L + 1].field = "block"
      BY <1>2, <1>6, <1>11, <2>1 DEF Framed
    <3>2. L \in Nat \ {0} /\ w[k].value = L
      BY <1>6, <2>1, <3>1, LengthsAssumption
    <3> HIDE DEF L
    <3>3. k + 1 \in 1..m /\ k + L \in DOMAIN w
      BY <1>2, <1>5, <2>1, <3>1, <3>2
    <3>4. k + L + 1 \in 1..m \/ k + L + 1 = m + 1
      BY <1>2, <2>1, <3>1, <3>2
    <3>5. w[k + L + 1].field = "block"
      BY <1>1, <1>6, <1>7, <3>1, <3>4
    <3> QED BY <1>6, <3>1, <3>2, <3>3, <3>5
  <2>2. CASE k = m + 2
    <3>1. w[k].value = length /\ k + length \in DOMAIN w /\ k + length + 1 \notin DOMAIN w
      BY <1>1, <1>2, <1>5, <1>7, <2>2
    <3>2. k + 1 \in (m + 3)..(m + length + 2)
      BY <1>2, <2>2
    <3> QED BY <1>8, <3>1, <3>2
  <2>3. CASE k = m + 1 \/ k \in (m + 3)..(m + length + 2)
    BY <1>1, <1>7, <1>8, <1>11, <2>3
  <2> QED BY <1>9, <2>1, <2>2, <2>3
<1>12. Framed(w)
  BY <1>10, <1>11 DEF Framed
<1>13. \A k \in DOMAIN w : k \in 1..m \/ (k > m /\ w[k].text = n)
  BY <1>1, <1>2, <1>7, <1>8, <1>9
<1>14. \A k \in DOMAIN w : w[k].field = "block" => k \in 1..(m + 1)
  BY <1>1, <1>2, <1>7, <1>8, <1>9
<1>15. Ascending(w)
  <2> SUFFICES ASSUME NEW j \in DOMAIN w, NEW k \in DOMAIN w, j < k
               PROVE  /\ w[j].text <= w[k].text
                      /\ w[k].field = "block" => w[j].text < w[k].text
    BY DEF Ascending
  <2>1. CASE k \in 1..m
    <3>1. j \in 1..m
      BY <1>2, <1>5, <2>1
    <3> QED BY <1>2, <1>6, <2>1, <3>1 DEF Ascending
  <2>2. CASE k \notin 1..m /\ j \in 1..m
    <3>1. u[j] \in Unit /\ u[j].text < n
      BY <1>2, <2>2
    <3>2. u[j].text \in Nat
      BY <3>1 DEF Unit
    <3> QED BY <1>6, <1>13, <2>2, <3>1, <3>2
  <2>3. CASE k \notin 1..m /\ j \notin 1..m
    <3>1. w[k].field # "block"
      BY <1>2, <1>5, <1>14, <2>3
    <3> QED BY <1>13, <2>3, <3>1
  <2> QED BY <2>1, <2>2, <2>3
<1>16. \A k \in DOMAIN w : w[k].text = n \/ \E j \in DOMAIN u : w[k] = u[j]
  BY <1>2, <1>6, <1>13
<1>17. w # << >> /\ Head(w) = w[1]
  BY <1>2, <1>3
<1>18. Head(w) = IF u = << >> THEN v[1] ELSE Head(u)
  <2>1. CASE u = << >>
    <3>1. m = 0
      BY <2>1
    <3> QED BY <1>7, <1>17, <2>1, <3>1
  <2>2. CASE u # << >>
    <3>1. 1 \in 1..m /\ Head(u) = u[1]
      BY <1>2, <2>2
    <3> QED BY <1>6, <1>17, <2>2, <3>1
  <2> QED BY <2>1, <2>2
<1>19. w \in Seq(Unit) /\ w # << >> /\ Framed(w) /\ Ascending(w)
  BY <1>3, <1>12, <1>15, <1>17
<1>20. Head(w) = IF u = << >> THEN [text |-> n, field |-> "block", value |-> length + 1]
                              ELSE Head(u)
  BY <1>1, <1>18
<1> QED BY <1>16, <1>19, <1>20 DEF v, w

-----------------------------------------------------------------------------
(* Steps *)

LEMMA UnitsFacts ==
    ASSUME Streams
    PROVE  /\ units \in Seq(Unit) /\ DOMAIN units = 1..Len(units)
           /\ Len(units) = Len(arrived) + Len(stream)
           /\ Len(arrived) \in Nat /\ Len(stream) \in Nat
           /\ \A k \in 1..Len(arrived) : units[k] = arrived[k]
           /\ \A k \in 1..Len(stream) : units[Len(arrived) + k] = stream[k]
           /\ units # << >> => 1 \in DOMAIN units /\ Head(units) = units[1]
           /\ arrived # << >> => units # << >> /\ Head(arrived) = Head(units)
           /\ \A k \in DOMAIN units : units[k].value \in Nat /\ units[k].text \in Nat
<1>1. arrived \in Seq(Unit) /\ stream \in Seq(Unit)
  BY DEF Streams
<1>2. /\ units \in Seq(Unit) /\ DOMAIN units = 1..Len(units)
      /\ Len(units) = Len(arrived) + Len(stream)
      /\ Len(arrived) \in Nat /\ Len(stream) \in Nat
      /\ \A k \in 1..(Len(arrived) + Len(stream)) :
            units[k] = IF k <= Len(arrived) THEN arrived[k] ELSE stream[k - Len(arrived)]
  BY <1>1 DEF units
<1>3. \A k \in 1..Len(arrived) : units[k] = arrived[k]
  BY <1>2
<1>4. ASSUME NEW k \in 1..Len(stream)
      PROVE  units[Len(arrived) + k] = stream[k]
  BY <1>2, <1>4
<1>5. units # << >> => 1 \in DOMAIN units /\ Head(units) = units[1]
  BY <1>2
<1>6. arrived # << >> => units # << >> /\ Head(arrived) = Head(units)
  BY <1>1, <1>2, <1>3, <1>5
<1>7. \A k \in DOMAIN units : units[k].value \in Nat /\ units[k].text \in Nat
  <2>1. \A k \in DOMAIN units : units[k] \in Unit
    BY <1>2
  <2> QED BY <2>1 DEF Unit
<1> QED BY <1>2, <1>3, <1>4, <1>5, <1>6, <1>7

\* A step that neither reads nor writes.
LEMMA StreamKept ==
    ASSUME IInv, TypeOK', units' = units, arrived' \in Seq(Unit), stream' \in Seq(Unit),
           UNCHANGED <<blockSize, received, torn, written>>, sent' \in Nat, sent' >= sent
    PROVE  IInv'
<1>1. Streams'
  BY DEF IInv, Streams
<1>2. (Framed(units) /\ Ascending(units) /\ InStep /\ NotShownYet)'
  BY DEF IInv, InStep, NotShownYet
<1>3. Garbled' /\ TextsInOrder'
  BY DEF IInv, Garbled, Leftover, TextsInOrder
<1> QED BY <1>1, <1>2, <1>3 DEF IInv

\* A step that reads all of a frame's beginning or all that is left of it.
LEMMA StreamRead ==
    ASSUME Streams, Framed(units), Ascending(units), NEW m \in 0..Len(arrived),
           arrived' = After(arrived, m), stream' = stream
    PROVE  /\ arrived' \in Seq(Unit)
           /\ units' = After(units, m)
           /\ units' \in Seq(Unit) /\ DOMAIN units' = 1..(Len(units) - m)
           /\ \A k \in 1..(Len(units) - m) : units'[k] = units[k + m] /\ k + m \in DOMAIN units
           /\ (Framed(units) /\ Ascending(units))'
<1>1. /\ arrived \in Seq(Unit) /\ stream \in Seq(Unit) /\ units \in Seq(Unit)
      /\ Len(arrived) \in Nat /\ Len(stream) \in Nat
      /\ Len(units) = Len(arrived) + Len(stream)
  BY UnitsFacts DEF Streams
<1>2. /\ arrived' \in Seq(Unit) /\ Len(arrived') = Len(arrived) - m
      /\ \A k \in 1..(Len(arrived) - m) : arrived'[k] = arrived[k + m]
  BY <1>1, AfterUnits
<1>3. m \in 0..Len(units)
  BY <1>1
<1>4. /\ After(units, m) \in Seq(Unit) /\ Len(After(units, m)) = Len(units) - m
      /\ \A k \in 1..(Len(units) - m) : After(units, m)[k] = units[k + m]
  BY <1>1, <1>3, AfterUnits
<1>5. /\ units' \in Seq(Unit) /\ Len(units') = Len(units) - m
      /\ \A k \in 1..(Len(units) - m) :
            units'[k] = IF k <= Len(arrived) - m THEN arrived'[k]
                                                 ELSE stream[k - (Len(arrived) - m)]
  <2>1. units' = arrived' \o stream
    BY DEF units
  <2>2. /\ arrived' \o stream \in Seq(Unit)
        /\ Len(arrived' \o stream) = Len(arrived') + Len(stream)
        /\ \A k \in 1..(Len(arrived') + Len(stream)) :
              (arrived' \o stream)[k] = IF k <= Len(arrived') THEN arrived'[k]
                                                             ELSE stream[k - Len(arrived')]
    BY <1>1, <1>2, ConcatProperties
  <2>3. Len(arrived') + Len(stream) = Len(units) - m
    BY <1>1, <1>2
  <2> QED BY <1>2, <2>1, <2>2, <2>3
<1>6. ASSUME NEW k \in 1..(Len(units) - m)
      PROVE  units'[k] = units[k + m]
  <2>1. CASE k <= Len(arrived) - m
    <3>1. k \in 1..(Len(arrived) - m) /\ k + m \in 1..Len(arrived)
      BY <1>1, <2>1
    <3>2. units'[k] = arrived[k + m]
      BY <1>2, <1>5, <2>1, <3>1
    <3> QED BY <3>1, <3>2, UnitsFacts
  <2>2. CASE k > Len(arrived) - m
    <3> DEFINE i == k - (Len(arrived) - m)
    <3>1. i \in 1..Len(stream) /\ k + m = Len(arrived) + i
      BY <1>1, <2>2
    <3>2. units'[k] = stream[i]
      BY <1>1, <1>5, <2>2
    <3> QED BY <3>1, <3>2, UnitsFacts
  <2> QED BY <1>1, <2>1, <2>2
<1>7. units' = After(units, m)
  <2>1. Len(units') = Len(After(units, m))
        /\ \A k \in 1..Len(units') : units'[k] = After(units, m)[k]
    BY <1>4, <1>5, <1>6
  <2> QED BY <1>4, <1>5, <2>1, SeqEqual
<1>8. Framed(After(units, m)) /\ Ascending(After(units, m))
  BY <1>1, <1>3, AfterFramed
<1>9. (Framed(units) /\ Ascending(units))'
  BY <1>7, <1>8
<1>10. DOMAIN units' = 1..(Len(units) - m)
  BY <1>5
<1>11. \A k \in 1..(Len(units) - m) : k + m \in DOMAIN units
  BY <1>1
<1> QED BY <1>2, <1>5, <1>6, <1>7, <1>9, <1>10, <1>11

LEMMA CountOfGarbled ==
    ASSUME Streams
    PROVE  Count(received, {0}) \in Nat
BY CountType DEF Streams

\* Every text that is on its way may be followed by a later one.
LEMMA SendsMessage ==
    ASSUME IInv, NEW length \in Lengths, sendMessage(length)
    PROVE  IInv'
<1> USE DEF IInv
<1>1. /\ sent' = sent + 1 /\ sent \in Nat /\ sent' \in Nat
      /\ UNCHANGED <<socket, centerVars, torn, restarts>>
  BY DEF sendMessage, Streams
<1>2. UNCHANGED <<arrived, accepted, blockSize, received>>
  BY <1>1 DEF centerVars
<1>3. CASE socket = "nullptr"
  <2>1. stream' = stream /\ written' = written
    BY <1>3 DEF sendMessage
  <2>2. TypeOK'
    BY <1>1, <1>2, <2>1 DEF TypeOK
  <2>3. units' = units
    BY <1>2, <2>1 DEF units
  <2>4. arrived' \in Seq(Unit) /\ stream' \in Seq(Unit) /\ sent' >= sent
    BY <1>1, <1>2, <2>1 DEF Streams
  <2> QED BY <1>1, <1>2, <2>1, <2>2, <2>3, <2>4, StreamKept
<1>4. CASE socket # "nullptr"
  <2> DEFINE v == Frame(sent', length)
  <2>1. stream' = stream \o v /\ written' = Append(written, sent')
    BY <1>4 DEF sendMessage
  <2>2. v \in Seq(Unit) /\ arrived \in Seq(Unit) /\ stream \in Seq(Unit) /\ units \in Seq(Unit)
    BY <1>1, FrameUnits, UnitsFacts DEF Streams
  <2>3. units' = units \o v
    <3>1. units' = arrived \o (stream \o v)
      BY <1>2, <2>1 DEF units
    <3> HIDE DEF v
    <3>2. arrived \o (stream \o v) = (arrived \o stream) \o v
      BY <2>2
    <3> QED BY <3>1, <3>2 DEF units
  <2>4. \A k \in DOMAIN units : units[k].text \in 1..sent /\ units[k].text < sent'
    BY <1>1 DEF Streams
  <2>5. /\ units' # << >> /\ Framed(units') /\ Ascending(units')
        /\ \A k \in DOMAIN units' : units'[k].text = sent' \/ \E j \in DOMAIN units : units'[k] = units[j]
        /\ Head(units') = IF units = << >>
                          THEN [text |-> sent', field |-> "block", value |-> length + 1]
                          ELSE Head(units)
    BY <1>1, <2>2, <2>3, <2>4, GrownFramed, SMTT(30)
  <2>6. written' \in Seq(Nat) /\ ToSet(written') = ToSet(written) \cup {sent'}
    <3>1. written \in Seq(Nat) /\ sent' \in Nat /\ written' = Append(written, sent')
      BY <1>1, <2>1 DEF Streams
    <3>2. /\ Append(written, sent') \in Seq(Nat)
          /\ ToSet(Append(written, sent')) = ToSet(written) \cup {sent'}
      BY <3>1, HoldsAppend
    <3> QED BY <3>1, <3>2
  <2>7. TypeOK'
    BY <1>1, <1>2, <2>6 DEF TypeOK
  <2>8. Streams'
    <3>1. stream \o v \in Seq(Unit)
      BY <2>2, ConcatProperties
    <3>2. \A k \in DOMAIN units' : units'[k].text \in 1..sent'
      BY <1>1, <2>4, <2>5
    <3> QED BY <1>1, <1>2, <2>1, <2>6, <3>1, <3>2 DEF Streams
  <2>9. InStep'
    BY <1>2, <2>5 DEF InStep
  <2>10. NotShownYet'
    <3> SUFFICES ASSUME NEW i \in DOMAIN received, NEW k \in DOMAIN units'
                 PROVE  received[i] < units'[k].text
      BY <1>2 DEF NotShownYet
    <3>1. received[i] \in 0..sent
      BY DEF TypeOK, ToSet
    <3> QED BY <1>1, <2>5, <3>1 DEF NotShownYet
  <2>11. Garbled'
    <3>1. Leftover' = Leftover
      BY <1>2, <2>5 DEF Leftover
    <3> QED BY <1>1, <1>2, <3>1 DEF Garbled
  <2>12. TextsInOrder'
    BY <1>2 DEF TextsInOrder
  <2> QED BY <2>5, <2>7, <2>8, <2>9, <2>10, <2>11, <2>12
<1> QED BY <1>3, <1>4

\* A connection is gone: what is left is at most a block size, and the count of
\* torn connections has gone up for it.
LEMMA Drops ==
    ASSUME IInv, Drop, blockSize' \in {blockSize, 0}, UNCHANGED <<received, sent>>,
           restarts' \in 0..MaxRestarts,
           socket' \in {"connecting", "nullptr"}
    PROVE  IInv'
<1> USE DEF IInv
<1>1. /\ stream' = << >> /\ written' = << >> /\ accepted' = FALSE /\ arrived' = << >>
      /\ torn' = torn + PartlyRead
  BY DEF Drop
<1>2. units' = << >>
  BY <1>1 DEF units
<1>3. ToSet(written') = {}
  BY <1>1 DEF ToSet
<1>4. PartlyRead = (IF blockSize # 0 THEN 1 ELSE 0) /\ torn \in Nat
  BY DEF PartlyRead, TypeOK
<1>5. TypeOK'
  BY <1>1, <1>3, <1>4 DEF TypeOK
<1>6. Streams'
  BY <1>1, <1>2 DEF Streams
<1>7. Framed(units') /\ Ascending(units') /\ InStep' /\ NotShownYet'
  BY <1>2 DEF Framed, Ascending, InStep, NotShownYet
<1>8. Garbled'
  <2>1. Leftover' => blockSize # 0
    BY DEF Leftover
  <2>2. Count(received, {0}) \in Nat /\ Count(received, {0}) <= torn
    BY <1>4, CountOfGarbled DEF Garbled
  <2>3. Count(received', {0}) = Count(received, {0})
    OBVIOUS
  <2> QED BY <1>1, <1>4, <2>1, <2>2, <2>3 DEF Garbled
<1>9. TextsInOrder'
  BY DEF TextsInOrder
<1> QED BY <1>5, <1>6, <1>7, <1>8, <1>9

LEMMA Arrives ==
    ASSUME IInv, NEW n \in 1..Len(stream), Arrive(n)
    PROVE  IInv'
<1> DEFINE a == SubSeq(stream, 1, n)
           b == SubSeq(stream, n + 1, Len(stream))
<1>1. /\ arrived' = arrived \o a /\ stream' = b
      /\ UNCHANGED <<socket, accepted, blockSize, received, sent, written, torn, restarts>>
  BY DEF Arrive
<1>2. arrived \in Seq(Unit) /\ stream \in Seq(Unit) /\ sent \in Nat
  BY DEF IInv, Streams
<1>3. a \in Seq(Unit) /\ b \in Seq(Unit) /\ a \o b = stream
  BY <1>2
<1> HIDE DEF a, b
<1>4. (arrived \o a) \o b = arrived \o stream
  <2>1. (arrived \o a) \o b = arrived \o (a \o b)
    <3>1. \A x, y, z \in Seq(Unit) : (x \o y) \o z = x \o (y \o z)
      BY ConcatAssociative
    <3> QED BY <1>2, <1>3, <3>1
  <2> QED BY <1>3, <2>1
<1>5. units' = units /\ arrived' \in Seq(Unit) /\ stream' \in Seq(Unit)
  BY <1>1, <1>2, <1>3, <1>4, ConcatProperties DEF units
<1>6. TypeOK'
  BY <1>1 DEF IInv, TypeOK
<1>7. sent' \in Nat /\ sent' >= sent
  BY <1>1, <1>2
<1> QED BY <1>1, <1>5, <1>6, <1>7, StreamKept

LEMMA ReadsBlockSize ==
    ASSUME IInv, ReadBlockSize
    PROVE  IInv'
<1> USE DEF IInv
<1>1. /\ arrived # << >> /\ blockSize = 0 /\ blockSize' = Head(arrived).value
      /\ arrived' = Tail(arrived)
      /\ UNCHANGED <<socket, stream, accepted, received, sent, written, torn, restarts>>
  BY DEF ReadBlockSize
<1>2. /\ units # << >> /\ Head(arrived) = units[1] /\ Head(units) = units[1]
      /\ 1 \in DOMAIN units /\ units \in Seq(Unit) /\ DOMAIN units = 1..Len(units)
      /\ Len(arrived) \in Nat /\ Len(units) \in Nat /\ arrived \in Seq(Unit)
      /\ \A k \in DOMAIN units : units[k].value \in Nat
  BY <1>1, UnitsFacts DEF Streams
<1>3. 1 \in 0..Len(arrived) /\ arrived' = After(arrived, 1)
  <2>1. Len(arrived) # 0
    BY <1>1, <1>2
  <2>2. Tail(arrived) = SubSeq(arrived, 2, Len(arrived))
    BY <1>1, <1>2
  <2> QED BY <1>1, <1>2, <2>1, <2>2 DEF After
<1>4. /\ arrived' \in Seq(Unit) /\ units' \in Seq(Unit) /\ DOMAIN units' = 1..(Len(units) - 1)
      /\ \A k \in 1..(Len(units) - 1) : units'[k] = units[k + 1] /\ k + 1 \in DOMAIN units
      /\ (Framed(units) /\ Ascending(units))'
  BY <1>1, <1>3, StreamRead
<1>5. units[1].field = "block"
  <2>1. Head(units).field = "length" => Head(units).value \in Nat
    BY <1>2
  <2> QED BY <1>1, <1>2, <2>1 DEF InStep
<1>6. /\ units[1].value - 1 \in Lengths /\ 2 \in DOMAIN units
      /\ units[2].field = "length" /\ units[2].value = units[1].value - 1
  BY <1>2, <1>5 DEF Framed
<1>7. units[1].value = units[2].value + 1 /\ units[1].value \in Nat \ {0}
  BY <1>2, <1>6
<1>8. blockSize' = units[2].value + 1 /\ blockSize' # 0 /\ units' # << >>
      /\ Head(units') = units[2]
  <2>1. 1 \in 1..(Len(units) - 1)
    BY <1>2, <1>6
  <2>2. units' # << >> /\ Head(units') = units'[1]
    BY <1>4, <2>1
  <2> QED BY <1>1, <1>2, <1>4, <1>7, <2>1, <2>2
<1>9. TypeOK'
  <2>1. blockSize' = (units[1].value - 1) + 1
    BY <1>1, <1>2, <1>7
  <2> QED BY <1>1, <1>6, <2>1 DEF TypeOK
<1>10. Streams'
  <2>1. \A k \in DOMAIN units' : units'[k].text \in 1..sent
    BY <1>2, <1>4 DEF Streams
  <2> QED BY <1>1, <1>4, <2>1 DEF Streams
<1>11. InStep'
  BY <1>6, <1>8 DEF InStep
<1>12. NotShownYet'
  BY <1>1, <1>2, <1>4 DEF NotShownYet
<1>13. Garbled'
  <2>1. ~Leftover'
    BY <1>6, <1>8 DEF Leftover
  <2>2. ~Leftover
    BY <1>1 DEF Leftover
  <2> QED BY <1>1, <2>1, <2>2 DEF Garbled
<1>14. TextsInOrder'
  BY <1>1 DEF TextsInOrder
<1> QED BY <1>4, <1>9, <1>10, <1>11, <1>12, <1>13, <1>14

\* The loop reads a whole frame, or what is left of one: as many units as the
\* field in front says, and that field.
LEMMA FrameRead ==
    ASSUME IInv, blockSize # 0, BlockArrived, ~Corrupted
    PROVE  LET m == DataLength + 1
           IN  /\ m \in 0..Len(arrived) /\ m >= 2
               /\ SubSeq(arrived, DataLength + 2, Len(arrived)) = After(arrived, m)
               /\ arrived # << >> /\ units # << >> /\ 1 \in DOMAIN units /\ 2 \in DOMAIN units
               /\ m + 1 \in DOMAIN units => units[m + 1].field = "block"
               /\ Head(Data) = units[2]
               /\ Leftover <=> units[2].field # "text"
<1> USE DEF IInv
<1> DEFINE m == DataLength + 1
<1>1. /\ arrived # << >> /\ units # << >> /\ Head(arrived) = units[1] /\ Head(units) = units[1]
      /\ 1 \in DOMAIN units /\ DOMAIN units = 1..Len(units)
      /\ Len(arrived) \in Nat /\ Len(units) \in Nat /\ Len(units) >= Len(arrived)
      /\ \A k \in DOMAIN units : units[k].value \in Nat
      /\ \A k \in 1..Len(arrived) : units[k] = arrived[k]
      /\ arrived \in Seq(Unit)
  BY UnitsFacts DEF BlockArrived, Streams
<1>2. DataLength = units[1].value /\ DataLength \in Nat /\ Len(arrived) >= m
  BY <1>1 DEF DataLength, Corrupted
<1>3. /\ 2 \in DOMAIN units /\ DataLength >= 1
      /\ m + 1 \in DOMAIN units => units[m + 1].field = "block"
      /\ Leftover <=> units[2].field # "text"
  <2>1. CASE units[1].field = "block"
    <3> DEFINE L == units[2].value
    <3>1. 2 \in DOMAIN units /\ units[2].field = "length" /\ L = units[1].value - 1
      BY <1>1, <2>1 DEF Framed
    <3>2. /\ L \in Nat \ {0}
          /\ 2 + L + 1 \in DOMAIN units => units[2 + L + 1].field = "block"
      BY <1>1, <3>1, LengthsAssumption DEF Framed
    <3>3. 2 + L + 1 = m + 1
      BY <1>1, <1>2, <3>1
    <3>4. Leftover
      BY <1>1, <2>1 DEF Leftover
    <3> QED BY <1>2, <3>1, <3>2, <3>3, <3>4
  <2>2. CASE units[1].field = "length"
    <3> DEFINE L == units[1].value
    <3>1. /\ L \in Nat \ {0} /\ 1 + L \in DOMAIN units /\ units[2].field = "text"
          /\ 1 + L + 1 \in DOMAIN units => units[1 + L + 1].field = "block"
      <4>1. /\ L \in Lengths /\ 1 + L \in DOMAIN units /\ units[1 + 1].field = "text"
            /\ 1 + L + 1 \in DOMAIN units => units[1 + L + 1].field = "block"
        BY <1>1, <2>2 DEF Framed
      <4> HIDE DEF L
      <4> QED BY <4>1, LengthsAssumption
    <3>2. 1 + L + 1 = m + 1 /\ 2 \in DOMAIN units
      BY <1>1, <1>2, <3>1
    <3>3. ~Leftover
      BY <1>1, <2>2 DEF Leftover
    <3> QED BY <1>2, <3>1, <3>2, <3>3
  <2> QED BY <1>1, <2>1, <2>2 DEF InStep
<1>4. m \in 0..Len(arrived) /\ m >= 2
  BY <1>1, <1>2, <1>3
<1>5. SubSeq(arrived, DataLength + 2, Len(arrived)) = After(arrived, m)
  <2>1. DataLength + 2 = m + 1
    BY <1>2
  <2> QED BY <2>1 DEF After
<1>6. Head(Data) = units[2]
  <2>1. 2 \in 1..Len(arrived) /\ DataLength + 1 \in 2..Len(arrived)
    BY <1>1, <1>2, <1>4
  <2>2. Head(SubSeq(arrived, 2, DataLength + 1)) = arrived[2]
    BY <1>1, <2>1, HeadTailOfSubSeq
  <2> QED BY <1>1, <2>1, <2>2 DEF Data
<1> QED BY <1>1, <1>3, <1>4, <1>5, <1>6

LEMMA ReadsText ==
    ASSUME IInv, ReadText
    PROVE  IInv'
<1> USE DEF IInv
<1> DEFINE m == DataLength + 1
           t == IF Head(Data).field = "text" THEN Head(Data).text ELSE 0
<1>1. /\ blockSize # 0 /\ BlockArrived /\ ~Corrupted /\ blockSize' = 0
      /\ received' = Append(received, t)
      /\ arrived' = SubSeq(arrived, DataLength + 2, Len(arrived))
      /\ UNCHANGED <<socket, stream, accepted, sent, written, torn, restarts>>
  BY DEF ReadText
<1>2. /\ m \in 0..Len(arrived) /\ m >= 2
      /\ arrived' = After(arrived, m)
      /\ units # << >> /\ 1 \in DOMAIN units /\ 2 \in DOMAIN units
      /\ m + 1 \in DOMAIN units => units[m + 1].field = "block"
      /\ Head(Data) = units[2]
      /\ Leftover <=> units[2].field # "text"
  BY <1>1, FrameRead
<1> HIDE DEF m
<1>3. /\ DOMAIN units = 1..Len(units) /\ Len(units) \in Nat
      /\ Len(arrived) \in Nat /\ m \in Nat
      /\ \A k \in DOMAIN units : units[k].text \in 1..sent /\ units[k].text \in Nat
  BY <1>2, UnitsFacts DEF Streams
<1>4. /\ arrived' \in Seq(Unit) /\ units' \in Seq(Unit) /\ DOMAIN units' = 1..(Len(units) - m)
      /\ \A k \in 1..(Len(units) - m) : units'[k] = units[k + m] /\ k + m \in DOMAIN units
      /\ (Framed(units) /\ Ascending(units))'
  BY <1>1, <1>2, StreamRead
<1>5. t = (IF Leftover THEN 0 ELSE units[2].text) /\ t \in 0..sent
  <2>1. t = IF units[2].field = "text" THEN units[2].text ELSE 0
    BY <1>2
  <2>2. sent \in Nat
    BY DEF Streams
  <2> HIDE DEF t
  <2> QED BY <1>2, <1>3, <2>1, <2>2
<1> HIDE DEF t
<1>6. /\ received' \in Seq(Nat) /\ ToSet(received') = ToSet(received) \cup {t}
      /\ Count(received', {0}) = Count(received, {0}) + IF t = 0 THEN 1 ELSE 0
  <2>1. t \in Nat /\ received \in Seq(Nat)
    BY <1>5 DEF Streams
  <2>2. received' \in Seq(Nat) /\ ToSet(received') = ToSet(received) \cup {t}
    BY <1>1, <2>1, HoldsAppend
  <2>3. Count(received', {0}) = Count(received, {0}) + IF t \in {0} THEN 1 ELSE 0
    BY <1>1, <2>1, CountAppend
  <2> QED BY <2>2, <2>3
<1>7. TypeOK'
  BY <1>1, <1>5, <1>6 DEF TypeOK
<1>8. Streams'
  <2>1. \A k \in DOMAIN units' : units'[k].text \in 1..sent
    BY <1>3, <1>4
  <2> QED BY <1>1, <1>4, <1>6, <2>1 DEF Streams
<1>9. units' # << >> => Head(units').field = "block"
  <2> SUFFICES ASSUME units' # << >>
               PROVE  Head(units').field = "block"
    OBVIOUS
  <2>1. 1 \in 1..(Len(units) - m) /\ Head(units') = units'[1]
    BY <1>3, <1>4
  <2>2. units'[1] = units[m + 1] /\ m + 1 \in DOMAIN units
    BY <1>3, <1>4, <2>1
  <2> QED BY <1>2, <2>1, <2>2
<1>10. InStep'
  BY <1>9 DEF InStep
<1>11. ASSUME NEW k \in DOMAIN units'
       PROVE  units[2].text < units'[k].text
  <2>1. /\ units'[k] = units[k + m] /\ k + m \in DOMAIN units
        /\ m + 1 \in DOMAIN units /\ m + 1 <= k + m /\ 2 < m + 1
    BY <1>2, <1>3, <1>4, <1>11
  <2>2. units[2].text < units[m + 1].text
    BY <1>2, <2>1 DEF Ascending
  <2>3. m + 1 = k + m \/ units[m + 1].text <= units[k + m].text
    <3>1. m + 1 = k + m \/ m + 1 < k + m
      BY <1>3, <1>4, <2>1
    <3> QED BY <2>1, <3>1 DEF Ascending
  <2> QED BY <1>3, <1>2, <2>1, <2>2, <2>3
<1>12. /\ Len(received) \in Nat /\ DOMAIN received = 1..Len(received)
       /\ DOMAIN received' = 1..(Len(received) + 1)
       /\ \A i \in 1..Len(received) : received'[i] = received[i]
       /\ received'[Len(received) + 1] = t
  BY <1>1 DEF Streams
<1>13. NotShownYet'
  <2> SUFFICES ASSUME NEW i \in DOMAIN received', NEW k \in DOMAIN units'
               PROVE  received'[i] < units'[k].text
    BY DEF NotShownYet
  <2>1. CASE i \in DOMAIN received
    BY <1>4, <1>12, <2>1 DEF NotShownYet
  <2>2. CASE i \notin DOMAIN received
    <3>1. received'[i] = t
      BY <1>12, <2>2
    <3>2. units'[k].text \in 1..sent /\ units[2].text < units'[k].text
      BY <1>3, <1>4, <1>11
    <3> QED BY <1>5, <3>1, <3>2
  <2> QED BY <2>1, <2>2
<1>14. Garbled'
  <2>1. ~Leftover'
    BY <1>1, <1>9 DEF Leftover
  <2>2. t = 0 <=> Leftover
    BY <1>2, <1>3, <1>5
  <2> QED BY <1>1, <1>6, <2>1, <2>2, CountOfGarbled DEF Garbled, TypeOK
<1>15. TextsInOrder'
  <2> SUFFICES ASSUME NEW i \in DOMAIN received', NEW j \in DOMAIN received', i < j,
                      received'[i] # 0, received'[j] # 0
               PROVE  received'[i] < received'[j]
    BY DEF TextsInOrder
  <2>1. i \in DOMAIN received /\ received'[i] = received[i]
    BY <1>12
  <2>2. CASE j \in DOMAIN received
    BY <1>12, <2>1, <2>2 DEF TextsInOrder
  <2>3. CASE j \notin DOMAIN received
    <3>1. received'[j] = t
      BY <1>12, <2>3
    <3>2. t = units[2].text
      BY <1>5, <3>1
    <3> QED BY <1>2, <2>1, <3>1, <3>2 DEF NotShownYet
  <2> QED BY <2>2, <2>3
<1> QED BY <1>4, <1>7, <1>8, <1>10, <1>13, <1>14, <1>15

-----------------------------------------------------------------------------
(* The channel *)

LEMMA StatusStarts == Init => IInv
<1> SUFFICES ASSUME Init
             PROVE  IInv
  OBVIOUS
<1>1. units = << >> /\ ToSet(received) = {} /\ ToSet(written) = {}
  BY DEF Init, units, ToSet
<1>2. TypeOK /\ Streams
  BY <1>1, RestartsAssumption DEF Init, TypeOK, Streams
<1>3. Framed(units) /\ Ascending(units) /\ InStep /\ NotShownYet /\ TextsInOrder
  BY <1>1 DEF Init, Framed, Ascending, InStep, NotShownYet, TextsInOrder
<1>4. Garbled
  BY CountEmpty DEF Init, Garbled, Leftover
<1> QED BY <1>2, <1>3, <1>4 DEF IInv

LEMMA StatusSteps == IInv /\ [Next]_vars => IInv'
<1> SUFFICES ASSUME IInv, [Next]_vars
             PROVE  IInv'
  OBVIOUS
<1>1. CASE \E length \in Lengths : sendMessage(length)
  BY <1>1, SendsMessage
<1>2. CASE ConnectionLost
  <2>1. /\ Drop /\ UNCHANGED <<blockSize, received, sent, restarts>>
        /\ socket' = "nullptr"
    BY <1>2 DEF ConnectionLost
  <2>2. restarts' \in 0..MaxRestarts
    BY <2>1 DEF IInv, TypeOK
  <2> QED BY <2>1, <2>2, Drops
<1>3. CASE EdgeRestarts
  <2>1. /\ Drop /\ UNCHANGED <<blockSize, received, sent>>
        /\ socket' = "connecting" /\ restarts < MaxRestarts /\ restarts' = restarts + 1
    BY <1>3 DEF EdgeRestarts
  <2>2. restarts' \in 0..MaxRestarts
    BY <2>1, RestartsAssumption DEF IInv, TypeOK
  <2> QED BY <2>1, <2>2, Drops
<1>4. CASE StreamCorrupted
  <2>1. /\ Drop /\ UNCHANGED <<received, sent, restarts>>
        /\ socket' = "nullptr" /\ blockSize' = 0
    BY <1>4 DEF StreamCorrupted
  <2>2. restarts' \in 0..MaxRestarts
    BY <2>1 DEF IInv, TypeOK
  <2> QED BY <2>1, <2>2, Drops
<1>5. CASE onNewConnection \/ StopReading \/ UNCHANGED vars
  <2>1. UNCHANGED <<stream, arrived, blockSize, received, sent, written, torn>>
    BY <1>5 DEF onNewConnection, StopReading, vars, centerVars
  <2>2. TypeOK'
    BY <1>5, <2>1 DEF onNewConnection, StopReading, vars, centerVars, IInv, TypeOK
  <2>3. units' = units
    BY <2>1 DEF units
  <2>4. arrived' \in Seq(Unit) /\ stream' \in Seq(Unit) /\ sent' \in Nat /\ sent' >= sent
    BY <2>1 DEF IInv, Streams
  <2> QED BY <2>1, <2>2, <2>3, <2>4, StreamKept
<1>6. CASE \E n \in 1..Len(stream) : Arrive(n)
  BY <1>6, Arrives
<1>7. CASE ReadBlockSize
  BY <1>7, ReadsBlockSize
<1>8. CASE ReadText
  BY <1>8, ReadsText
<1> QED BY <1>1, <1>2, <1>3, <1>4, <1>5, <1>6, <1>7, <1>8 DEF Next, CenterReads

LEMMA StatusInvariant == Spec => []IInv
BY StatusStarts, StatusSteps, PTL DEF Spec

\* For any lengths of texts and any bounds: a block size that the centre holds
\* is that of a text, and it announces no text that was not reported.
THEOREM StatusTyped == Spec => []TypeOK
<1>1. IInv => TypeOK
  BY DEF IInv
<1> QED BY <1>1, StatusInvariant, PTL

\* onReadyRead never loses the beginning of a frame: not by the pieces in which
\* the stream arrives, nor by a block size left over from a connection before,
\* which costs the text of one frame and leaves its end where it is.
THEOREM StaysInStepHolds == Spec => []StaysInStep
<1>1. IInv => StaysInStep
  <2> SUFFICES ASSUME IInv, units # << >>, blockSize = 0
               PROVE  Head(units).field = "block"
    BY DEF StaysInStep, units
  <2>1. Head(units).field = "length" => Head(units).value \in Nat
    BY UnitsFacts DEF IInv
  <2> QED BY <2>1 DEF IInv, InStep
<1> QED BY <1>1, StatusInvariant, PTL

\* The texts garbled by a block size of an earlier connection are no more than
\* the connections that were dropped in the middle of a text.
THEOREM GarbledByTornConnectionsHolds == Spec => []GarbledByTornConnections
<1>1. IInv => GarbledByTornConnections
  BY CountOfGarbled DEF IInv, Garbled, GarbledByTornConnections, TypeOK
<1> QED BY <1>1, StatusInvariant, PTL

\* Over all connections the texts shown are shown once and in order.
THEOREM TextsInOrderHolds == Spec => []TextsInOrder
<1>1. IInv => TextsInOrder
  BY DEF IInv
<1> QED BY <1>1, StatusInvariant, PTL

=============================================================================
