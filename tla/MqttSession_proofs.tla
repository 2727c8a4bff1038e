------------------------- MODULE MqttSession_proofs -------------------------
(***************************************************************************)
(* The safety of MqttSession for any filters, any number of identifiers    *)
(* and any bounds on connections, publications and faults.                 *)
(***************************************************************************)
EXTENDS MqttSession, FiniteSetTheorems, SequenceTheorems, TLAPS

-----------------------------------------------------------------------------
(* What Count returns for a queue that grows at the end and is read at the     *)
(* front.                                                                      *)

Places(s, S) == {i \in DOMAIN s : s[i] \in S}

\* A finite set of numbers keeps its size when it is moved along.
LEMMA Shifted ==
    ASSUME NEW n \in Nat, NEW P \in SUBSET Nat, IsFiniteSet(P)
    PROVE  /\ IsFiniteSet({i + n : i \in P})
           /\ Cardinality({i + n : i \in P}) = Cardinality(P)
<1> DEFINE Q == {i + n : i \in P}
           f == [i \in P |-> i + n]
<1>1. f \in Bijection(P, Q)
  BY DEF Bijection, Injection, Surjection, IsInjective
<1>2. ExistsBijection(P, Q)
  BY <1>1 DEF ExistsBijection
<1> QED BY <1>2, FS_Bijection

\* A count is a number between 0 and the length.
LEMMA CountType ==
    ASSUME NEW T, NEW s \in Seq(T), NEW S
    PROVE  /\ IsFiniteSet(Places(s, S))
           /\ Count(s, S) \in Nat
           /\ Count(s, S) <= Len(s)
<1>1. DOMAIN s = 1..Len(s) /\ Len(s) \in Nat
  OBVIOUS
<1>2. IsFiniteSet(1..Len(s)) /\ Cardinality(1..Len(s)) = Len(s)
  BY <1>1, FS_Interval
<1>3. Places(s, S) \in SUBSET (1..Len(s))
  BY <1>1 DEF Places
<1>4. IsFiniteSet(Places(s, S)) /\ Cardinality(Places(s, S)) <= Len(s)
  BY <1>2, <1>3, FS_Subset
<1> QED BY <1>4, FS_CardinalityType DEF Count, Places

\* Nothing is counted exactly when there is nothing to count.
LEMMA CountZero ==
    ASSUME NEW T, NEW s \in Seq(T), NEW S
    PROVE  Count(s, S) = 0 <=> ToSet(s) \cap S = {}
<1>1. IsFiniteSet(Places(s, S))
  BY CountType
<1>2. Cardinality(Places(s, S)) = 0 <=> Places(s, S) = {}
  BY <1>1, FS_EmptySet
<1>3. Places(s, S) = {} <=> ToSet(s) \cap S = {}
  BY DEF Places, ToSet
<1> QED BY <1>2, <1>3 DEF Count, Places

\* At most one place counts when no two do.
LEMMA CountAtMostOne ==
    ASSUME NEW T, NEW s \in Seq(T), NEW S,
           \A i, j \in DOMAIN s : s[i] \in S /\ s[j] \in S => i = j
    PROVE  Count(s, S) \in {0, 1}
<1>1. CASE Places(s, S) = {}
  BY <1>1, FS_EmptySet DEF Count, Places
<1>2. CASE Places(s, S) # {}
  <2>1. PICK k : k \in Places(s, S)
    BY <1>2
  <2>2. Places(s, S) = {k}
    BY <2>1 DEF Places
  <2> QED BY <2>2, FS_Singleton DEF Count, Places
<1> QED BY <1>1, <1>2

LEMMA CountEmpty ==
    ASSUME NEW S
    PROVE  Count(<< >>, S) = 0
<1>1. Places(<< >>, S) = {}
  BY DEF Places
<1> QED BY <1>1, FS_EmptySet DEF Count, Places

\* A concatenation has what its two parts have.
LEMMA CountConcat ==
    ASSUME NEW T, NEW s \in Seq(T), NEW t \in Seq(T), NEW S
    PROVE  Count(s \o t, S) = Count(s, S) + Count(t, S)
<1> DEFINE P == Places(s, S)
           Q == Places(t, S)
           R == {i + Len(s) : i \in Q}
<1>1. /\ s \o t \in Seq(T) /\ DOMAIN s = 1..Len(s) /\ DOMAIN t = 1..Len(t)
      /\ Len(s) \in Nat /\ Len(t) \in Nat
      /\ DOMAIN (s \o t) = 1..(Len(s) + Len(t))
      /\ \A i \in 1..(Len(s) + Len(t)) :
            (s \o t)[i] = IF i <= Len(s) THEN s[i] ELSE t[i - Len(s)]
  OBVIOUS
<1>2. IsFiniteSet(P) /\ IsFiniteSet(Q) /\ P \in SUBSET Nat /\ Q \in SUBSET Nat
  <2>1. IsFiniteSet(P) /\ IsFiniteSet(Q)
    BY CountType
  <2>2. P \in SUBSET Nat /\ Q \in SUBSET Nat
    BY <1>1 DEF Places
  <2> QED BY <2>1, <2>2
<1>3. IsFiniteSet(R) /\ Cardinality(R) = Cardinality(Q)
  BY <1>1, <1>2, Shifted
<1>4. Places(s \o t, S) = P \cup R
  <2>1. ASSUME NEW i \in Places(s \o t, S)
        PROVE  i \in P \cup R
    <3>1. CASE i <= Len(s)
      BY <1>1, <2>1, <3>1 DEF Places
    <3>2. CASE i > Len(s)
      <4>1. i - Len(s) \in Q /\ i = (i - Len(s)) + Len(s)
        BY <1>1, <2>1, <3>2 DEF Places
      <4> QED BY <4>1
    <3> QED BY <1>1, <2>1, <3>1, <3>2 DEF Places
  <2>2. ASSUME NEW i \in P
        PROVE  i \in Places(s \o t, S)
    BY <1>1, <2>2 DEF Places
  <2>3. ASSUME NEW i \in R
        PROVE  i \in Places(s \o t, S)
    <3>1. PICK k \in Q : i = k + Len(s)
      BY <2>3
    <3> QED BY <1>1, <3>1 DEF Places
  <2> QED BY <2>1, <2>2, <2>3
<1>5. P \cap R = {}
  BY <1>1 DEF Places
<1>6. Cardinality(P \cup R) = Cardinality(P) + Cardinality(R) - Cardinality(P \cap R)
  BY <1>2, <1>3, FS_Union
<1>7. Cardinality(P) \in Nat /\ Cardinality(R) \in Nat /\ Cardinality(P \cap R) = 0
  BY <1>2, <1>3, <1>5, FS_CardinalityType, FS_EmptySet
<1>8. Cardinality(P \cup R) = Cardinality(P) + Cardinality(Q)
  BY <1>3, <1>6, <1>7
<1> QED BY <1>4, <1>8 DEF Count, Places

LEMMA CountOne ==
    ASSUME NEW e, NEW S
    PROVE  Count(<<e>>, S) = IF e \in S THEN 1 ELSE 0
<1>1. Places(<<e>>, S) = IF e \in S THEN {1} ELSE {}
  BY DEF Places
<1> QED BY <1>1, FS_EmptySet, FS_Singleton DEF Count, Places

\* One more at the end.
LEMMA CountAppend ==
    ASSUME NEW T, NEW s \in Seq(T), NEW e \in T, NEW S
    PROVE  Count(Append(s, e), S) = Count(s, S) + IF e \in S THEN 1 ELSE 0
<1>1. Append(s, e) = s \o <<e>> /\ <<e>> \in Seq(T)
  OBVIOUS
<1>2. Count(Append(s, e), S) = Count(s, S) + Count(<<e>>, S)
  BY <1>1, CountConcat, ZenonT(60)
<1> QED BY <1>2, CountOne

\* One less at the front.
LEMMA CountTail ==
    ASSUME NEW T, NEW s \in Seq(T), s # << >>, NEW S
    PROVE  Count(Tail(s), S) = Count(s, S) - IF Head(s) \in S THEN 1 ELSE 0
<1>1. s = <<Head(s)>> \o Tail(s) /\ Tail(s) \in Seq(T) /\ <<Head(s)>> \in Seq(T)
  OBVIOUS
<1>2. Count(s, S) = Count(<<Head(s)>>, S) + Count(Tail(s), S)
  BY <1>1, CountConcat, ZenonT(60)
<1>3. Count(Tail(s), S) \in Nat
  BY <1>1, CountType
<1> QED BY <1>2, <1>3, CountOne

-----------------------------------------------------------------------------
(* What a queue holds when it grows at the end and is read at the front. *)

LEMMA HoldsConcat ==
    ASSUME NEW T, NEW s \in Seq(T), NEW t \in Seq(T)
    PROVE  s \o t \in Seq(T) /\ ToSet(s \o t) = ToSet(s) \cup ToSet(t)
<1>1. /\ s \o t \in Seq(T)
      /\ DOMAIN s = 1..Len(s) /\ DOMAIN t = 1..Len(t)
      /\ Len(s) \in Nat /\ Len(t) \in Nat
      /\ DOMAIN (s \o t) = 1..(Len(s) + Len(t))
      /\ \A i \in 1..(Len(s) + Len(t)) :
            (s \o t)[i] = IF i <= Len(s) THEN s[i] ELSE t[i - Len(s)]
  OBVIOUS
<1>2. ASSUME NEW x \in ToSet(s)
      PROVE  x \in ToSet(s \o t)
  BY <1>1, <1>2 DEF ToSet
<1>3. ASSUME NEW x \in ToSet(t)
      PROVE  x \in ToSet(s \o t)
  <2>1. PICK k \in DOMAIN t : x = t[k]
    BY <1>3 DEF ToSet
  <2>2. k + Len(s) \in DOMAIN (s \o t) /\ (s \o t)[k + Len(s)] = x
    BY <1>1, <2>1
  <2> QED BY <2>2 DEF ToSet
<1>4. ASSUME NEW x \in ToSet(s \o t)
      PROVE  x \in ToSet(s) \cup ToSet(t)
  BY <1>1, <1>4 DEF ToSet
<1> QED BY <1>1, <1>2, <1>3, <1>4

LEMMA HoldsAppend ==
    ASSUME NEW T, NEW s \in Seq(T), NEW e \in T
    PROVE  Append(s, e) \in Seq(T) /\ ToSet(Append(s, e)) = ToSet(s) \cup {e}
<1>1. Append(s, e) = s \o <<e>> /\ <<e>> \in Seq(T)
  OBVIOUS
<1>2. ToSet(<<e>>) = {e}
  BY DEF ToSet
<1>3. s \o <<e>> \in Seq(T) /\ ToSet(s \o <<e>>) = ToSet(s) \cup ToSet(<<e>>)
  BY <1>1, HoldsConcat
<1> QED BY <1>1, <1>2, <1>3

LEMMA HoldsTail ==
    ASSUME NEW T, NEW s \in Seq(T), s # << >>
    PROVE  /\ Head(s) \in T /\ Tail(s) \in Seq(T)
           /\ ToSet(s) = {Head(s)} \cup ToSet(Tail(s))
<1>1. s = <<Head(s)>> \o Tail(s) /\ Tail(s) \in Seq(T) /\ <<Head(s)>> \in Seq(T)
      /\ Head(s) \in T
  OBVIOUS
<1>2. ToSet(<<Head(s)>>) = {Head(s)}
  BY DEF ToSet
<1>3. ToSet(<<Head(s)>> \o Tail(s)) = ToSet(<<Head(s)>>) \cup ToSet(Tail(s))
  BY <1>1, HoldsConcat
<1> QED BY <1>1, <1>2, <1>3

LEMMA HoldsType ==
    ASSUME NEW T, NEW s \in Seq(T)
    PROVE  ToSet(s) \subseteq T /\ (s = << >> <=> ToSet(s) = {})
<1>1. ToSet(s) \subseteq T
  BY DEF ToSet
<1>2. s = << >> => ToSet(s) = {}
  BY DEF ToSet
<1>3. s # << >> => s[1] \in ToSet(s)
  <2>1. s # << >> => 1 \in DOMAIN s
    OBVIOUS
  <2> QED BY <2>1 DEF ToSet
<1> QED BY <1>1, <1>2, <1>3

-----------------------------------------------------------------------------
(* The invariant.  Both queues hold packets, an identifier that is in use   *)
(* travels at most once, and what it travels with is what the client keeps  *)
(* under it.                                                                *)

Requests == [kind : {"CONNECT"}]
            \cup [kind : {"SUBSCRIBE"}, id : Ids, filter : Filters]
            \cup [kind : {"PUBLISH"}, id : Ids \cup {0}, msg : Nat]
            \cup [kind : {"PINGREQ"}]

Answers == [kind : {"CONNACK"}, ok : BOOLEAN]
           \cup [kind : {"SUBACK"}, id : Ids, ok : BOOLEAN]
           \cup [kind : {"PUBACK"}, id : Ids]
           \cup [kind : {"PINGRESP"}]

Queues == /\ toBroker \in Seq(Requests)
          /\ toClient \in Seq(Answers)
          /\ published \in Nat
          /\ granted \subseteq Filters

\* The packets with the identifier i.
Identified == {"SUBSCRIBE", "PUBLISH", "SUBACK", "PUBACK"}
Carrying(i) == {p \in Requests \cup Answers : p.kind \in Identified /\ p.id = i}

Once == \A i \in Ids : Count(toBroker, Carrying(i)) + Count(toClient, Carrying(i)) <= 1

\* A SUBSCRIBE or SUBACK on its way belongs to a pending subscription, of which
\* the broker knows what the client is told.
Subscribing ==
    /\ \A i, j \in DOMAIN pendingSubs : pendingSubs[i] = pendingSubs[j] => i = j
    /\ \A p \in ToSet(toBroker) : p.kind = "SUBSCRIBE" =>
          /\ p.id \in DOMAIN pendingSubs /\ pendingSubs[p.id] = p.filter
          /\ p.filter \notin granted
    /\ \A p \in ToSet(toClient) : p.kind = "SUBACK" =>
          /\ p.id \in DOMAIN pendingSubs
          /\ p.ok <=> pendingSubs[p.id] \in granted

\* A PUBLISH or PUBACK on its way belongs to a pending publication.
Publishing ==
    /\ \A p \in ToSet(toBroker) : p.kind = "PUBLISH" /\ p.id # 0 =>
          p.id \in DOMAIN pendingMessages /\ pendingMessages[p.id] = p.msg
    /\ \A p \in ToSet(toClient) : p.kind = "PUBACK" =>
          p.id \in DOMAIN pendingMessages /\ pendingMessages[p.id] \in received

\* How far the connection is, seen from both sides.
Handshake ==
    /\ internal = "BrokerDisconnected" =>
          toClient = << >> /\ active = {} /\ \A p \in ToSet(toBroker) : p.kind # "CONNECT"
    /\ internal = "BrokerConnecting" =>
          toBroker = << >> /\ toClient = << >> /\ active = {} /\ granted = {}
    /\ internal = "BrokerWaitForConnectAck" =>
          /\ active = {} /\ granted = {}
          /\ \/ toBroker = <<Connect>> /\ toClient = << >>
             \/ \E ok \in BOOLEAN : /\ toBroker = << >>
                                    /\ toClient = <<[kind |-> "CONNACK", ok |-> ok]>>
                                    /\ ok => accepted
    /\ internal = "BrokerConnected" =>
          /\ accepted
          /\ \A p \in ToSet(toBroker) : p.kind # "CONNECT"
          /\ \A p \in ToSet(toClient) : p.kind # "CONNACK"

\* The count of unanswered pings is right while it is used, and no ping is
\* carried into the next connection.
Pinging == pingTimeout = IF internal = "BrokerConnected" THEN PingsUnderWay ELSE 0

IInv == /\ TypeOK /\ Queues /\ Once /\ Subscribing /\ Publishing /\ Handshake /\ Pinging
        /\ SubscriptionsAgree /\ SentWasReceived

-----------------------------------------------------------------------------
(* Packets *)

LEMMA RequestKinds ==
    ASSUME NEW p \in Requests
    PROVE  /\ p.kind \in {"CONNECT", "SUBSCRIBE", "PUBLISH", "PINGREQ"}
           /\ p.kind = "CONNECT" => p = Connect
           /\ p.kind = "SUBSCRIBE" => p.id \in Ids /\ p.filter \in Filters
           /\ p.kind = "PUBLISH" => p.id \in Ids \cup {0} /\ p.msg \in Nat
           /\ p.kind = "PINGREQ" => p = PingReq
           /\ p \in Pings <=> p.kind = "PINGREQ"
           /\ \A i : p \in Carrying(i) <=> p.kind \in {"SUBSCRIBE", "PUBLISH"} /\ p.id = i
BY DEF Requests, Connect, PingReq, Pings, Carrying, Identified

LEMMA AnswerKinds ==
    ASSUME NEW p \in Answers
    PROVE  /\ p.kind \in {"CONNACK", "SUBACK", "PUBACK", "PINGRESP"}
           /\ p.kind \in {"CONNACK", "SUBACK"} => p.ok \in BOOLEAN
           /\ p.kind \in {"SUBACK", "PUBACK"} => p.id \in Ids
           /\ p \in Pings <=> p.kind = "PINGRESP"
           /\ \A i : p \in Carrying(i) <=> p.kind \in {"SUBACK", "PUBACK"} /\ p.id = i
BY DEF Answers, PingReq, Pings, Carrying, Identified

LEMMA MadeRequests ==
    /\ Connect \in Requests /\ PingReq \in Requests
    /\ \A i \in Ids, f \in Filters : Subscribe(i, f) \in Requests
    /\ \A i \in Ids \cup {0}, n \in Nat : Publish(i, n) \in Requests
BY DEF Connect, PingReq, Subscribe, Publish, Requests

LEMMA MadeAnswers ==
    /\ \A ok \in BOOLEAN : [kind |-> "CONNACK", ok |-> ok] \in Answers
    /\ \A i \in Ids, ok \in BOOLEAN : [kind |-> "SUBACK", id |-> i, ok |-> ok] \in Answers
    /\ \A i \in Ids : [kind |-> "PUBACK", id |-> i] \in Answers
    /\ [kind |-> "PINGRESP"] \in Answers
BY DEF Answers

LEMMA IdsArePositive == Ids \subseteq Nat \ {0}
BY IdAssumption DEF Ids

-----------------------------------------------------------------------------
(* Queues *)

\* What is known of the queues by their lengths and contents alone.
LEMMA QueueFacts ==
    ASSUME Queues
    PROVE  /\ \A S : Count(toBroker, S) \in Nat /\ Count(toClient, S) \in Nat
           /\ \A S : Count(toBroker, S) = 0 <=> ToSet(toBroker) \cap S = {}
           /\ \A S : Count(toClient, S) = 0 <=> ToSet(toClient) \cap S = {}
           /\ ToSet(toBroker) \subseteq Requests /\ ToSet(toClient) \subseteq Answers
<1>1. toBroker \in Seq(Requests) /\ toClient \in Seq(Answers)
  BY DEF Queues
<1>2. \A S : Count(toBroker, S) \in Nat /\ Count(toClient, S) \in Nat
  BY <1>1, CountType
<1>3. \A S : /\ Count(toBroker, S) = 0 <=> ToSet(toBroker) \cap S = {}
             /\ Count(toClient, S) = 0 <=> ToSet(toClient) \cap S = {}
  BY <1>1, CountZero
<1>4. ToSet(toBroker) \subseteq Requests /\ ToSet(toClient) \subseteq Answers
  BY <1>1, HoldsType
<1> QED BY <1>2, <1>3, <1>4

\* The packet that is read was the only one with its identifier.
LEMMA RequestTaken ==
    ASSUME Queues, Once, toBroker # << >>
    PROVE  LET p == Head(toBroker)
               rest == Tail(toBroker)
           IN  /\ p \in Requests /\ rest \in Seq(Requests)
               /\ ToSet(toBroker) = {p} \cup ToSet(rest)
               /\ \A S : Count(rest, S) = Count(toBroker, S) - IF p \in S THEN 1 ELSE 0
               /\ \A i \in Ids : p \in Carrying(i) =>
                     (ToSet(rest) \cup ToSet(toClient)) \cap Carrying(i) = {}
<1> DEFINE p == Head(toBroker)
           rest == Tail(toBroker)
<1>1. toBroker \in Seq(Requests) /\ toClient \in Seq(Answers)
  BY DEF Queues
<1>2. p \in Requests /\ rest \in Seq(Requests) /\ ToSet(toBroker) = {p} \cup ToSet(rest)
  BY <1>1, HoldsTail
<1>3. \A S : Count(rest, S) = Count(toBroker, S) - IF p \in S THEN 1 ELSE 0
  BY <1>1, CountTail
<1>4. ASSUME NEW i \in Ids, p \in Carrying(i)
      PROVE  (ToSet(rest) \cup ToSet(toClient)) \cap Carrying(i) = {}
  <2>1. /\ Count(toBroker, Carrying(i)) \in Nat /\ Count(toClient, Carrying(i)) \in Nat
        /\ Count(rest, Carrying(i)) \in Nat
    BY <1>1, <1>2, CountType
  <2>2. Count(rest, Carrying(i)) = Count(toBroker, Carrying(i)) - 1
    BY <1>3, <1>4
  <2>3. Count(rest, Carrying(i)) = 0 /\ Count(toClient, Carrying(i)) = 0
    BY <2>1, <2>2 DEF Once
  <2> QED BY <1>1, <1>2, <2>3, CountZero
<1> QED BY <1>2, <1>3, <1>4

LEMMA AnswerTaken ==
    ASSUME Queues, Once, toClient # << >>
    PROVE  LET p == Head(toClient)
               rest == Tail(toClient)
           IN  /\ p \in Answers /\ rest \in Seq(Answers)
               /\ ToSet(toClient) = {p} \cup ToSet(rest)
               /\ \A S : Count(rest, S) = Count(toClient, S) - IF p \in S THEN 1 ELSE 0
               /\ \A i \in Ids : p \in Carrying(i) =>
                     (ToSet(rest) \cup ToSet(toBroker)) \cap Carrying(i) = {}
<1> DEFINE p == Head(toClient)
           rest == Tail(toClient)
<1>1. toBroker \in Seq(Requests) /\ toClient \in Seq(Answers)
  BY DEF Queues
<1>2. p \in Answers /\ rest \in Seq(Answers) /\ ToSet(toClient) = {p} \cup ToSet(rest)
  BY <1>1, HoldsTail
<1>3. \A S : Count(rest, S) = Count(toClient, S) - IF p \in S THEN 1 ELSE 0
  BY <1>1, CountTail
<1>4. ASSUME NEW i \in Ids, p \in Carrying(i)
      PROVE  (ToSet(rest) \cup ToSet(toBroker)) \cap Carrying(i) = {}
  <2>1. /\ Count(toClient, Carrying(i)) \in Nat /\ Count(toBroker, Carrying(i)) \in Nat
        /\ Count(rest, Carrying(i)) \in Nat
    BY <1>1, <1>2, CountType
  <2>2. Count(rest, Carrying(i)) = Count(toClient, Carrying(i)) - 1
    BY <1>3, <1>4
  <2>3. Count(rest, Carrying(i)) = 0 /\ Count(toBroker, Carrying(i)) = 0
    BY <2>1, <2>2 DEF Once
  <2> QED BY <1>1, <1>2, <2>3, CountZero
<1> QED BY <1>2, <1>3, <1>4

LEMMA RequestWritten ==
    ASSUME Queues, NEW p \in Requests
    PROVE  /\ Append(toBroker, p) \in Seq(Requests)
           /\ ToSet(Append(toBroker, p)) = ToSet(toBroker) \cup {p}
           /\ \A S : Count(Append(toBroker, p), S) =
                       Count(toBroker, S) + IF p \in S THEN 1 ELSE 0
BY HoldsAppend, CountAppend DEF Queues

LEMMA AnswerWritten ==
    ASSUME Queues, NEW p \in Answers
    PROVE  /\ toClient \o <<p>> \in Seq(Answers)
           /\ ToSet(toClient \o <<p>>) = ToSet(toClient) \cup {p}
           /\ \A S : Count(toClient \o <<p>>, S) =
                       Count(toClient, S) + IF p \in S THEN 1 ELSE 0
<1>1. toClient \in Seq(Answers) /\ toClient \o <<p>> = Append(toClient, p)
  BY DEF Queues
<1> QED BY <1>1, HoldsAppend, CountAppend

-----------------------------------------------------------------------------
(* The broker *)

\* A request is answered, perhaps to a socket that is closed.
LEMMA RequestAnswered ==
    ASSUME Queues, Once, NEW kind, NEW a \in Answers, BrokerTakes(kind, <<a>>),
           granted' \subseteq Filters,
           \A i \in Ids : a \in Carrying(i) => Head(toBroker) \in Carrying(i)
    PROVE  /\ Queues' /\ Once'
           /\ ToSet(toBroker') \subseteq ToSet(toBroker)
           /\ ToSet(toClient') \subseteq ToSet(toClient) \cup {a}
           /\ socket = "open" /\ (a \in Pings <=> Head(toBroker) \in Pings)
                 => PingsUnderWay' = PingsUnderWay
<1> DEFINE p == Head(toBroker)
<1>1. toBroker # << >> /\ toBroker' = Tail(toBroker) /\ published' = published
      /\ toClient' = IF socket = "open" THEN toClient \o <<a>> ELSE toClient
  BY DEF BrokerTakes
<1>2. /\ p \in Requests /\ toBroker' \in Seq(Requests)
      /\ ToSet(toBroker) = {p} \cup ToSet(toBroker')
      /\ \A S : Count(toBroker', S) = Count(toBroker, S) - IF p \in S THEN 1 ELSE 0
  BY <1>1, RequestTaken
<1>3. /\ toClient \o <<a>> \in Seq(Answers)
      /\ ToSet(toClient \o <<a>>) = ToSet(toClient) \cup {a}
      /\ \A S : Count(toClient \o <<a>>, S) = Count(toClient, S) + IF a \in S THEN 1 ELSE 0
  BY AnswerWritten
<1>4. \A S : Count(toBroker, S) \in Nat /\ Count(toClient, S) \in Nat
  BY QueueFacts
<1>5. Queues'
  BY <1>1, <1>2, <1>3 DEF Queues
<1>6. Once'
  <2> SUFFICES ASSUME NEW i \in Ids
               PROVE  Count(toBroker', Carrying(i)) + Count(toClient', Carrying(i)) <= 1
    BY DEF Once, Carrying, Requests, Answers
  <2>1. Count(toBroker, Carrying(i)) + Count(toClient, Carrying(i)) <= 1
    BY DEF Once
  <2>2. Count(toBroker', Carrying(i)) =
           Count(toBroker, Carrying(i)) - IF p \in Carrying(i) THEN 1 ELSE 0
    BY <1>2
  <2>3. Count(toClient', Carrying(i)) \in
           {Count(toClient, Carrying(i)),
            Count(toClient, Carrying(i)) + IF a \in Carrying(i) THEN 1 ELSE 0}
    BY <1>1, <1>3
  <2>4. Count(toBroker, Carrying(i)) \in Nat /\ Count(toClient, Carrying(i)) \in Nat
    BY <1>4
  <2> QED BY <2>1, <2>2, <2>3, <2>4
<1>7. ASSUME socket = "open", a \in Pings <=> p \in Pings
      PROVE  PingsUnderWay' = PingsUnderWay
  <2>1. Count(toBroker', Pings) = Count(toBroker, Pings) - IF p \in Pings THEN 1 ELSE 0
    BY <1>2
  <2>2. Count(toClient', Pings) = Count(toClient, Pings) + IF p \in Pings THEN 1 ELSE 0
    BY <1>1, <1>3, <1>7
  <2>3. Count(toBroker, Pings) \in Nat /\ Count(toClient, Pings) \in Nat
    BY <1>4
  <2>4. PingsUnderWay' = Count(toBroker', Pings) + Count(toClient', Pings)
    BY DEF PingsUnderWay, Pings, PingReq
  <2> QED BY <2>1, <2>2, <2>3, <2>4 DEF PingsUnderWay
<1> QED BY <1>1, <1>2, <1>3, <1>5, <1>6, <1>7

\* No packet leaves for the broker after the handshake's CONNECT: until it is
\* answered there is nothing else to be read.
LEMMA AfterHandshake ==
    ASSUME TypeOK, Queues, Handshake, toBroker # << >>, Head(toBroker).kind # "CONNECT"
    PROVE  internal \in {"BrokerDisconnected", "BrokerConnected"}
BY DEF TypeOK, Handshake, Connect

LEMMA AnswersSubscribe ==
    ASSUME IInv, BrokerAnswersSubscribe
    PROVE  IInv'
<1> DEFINE p == Head(toBroker)
           i == p.id
<1> USE DEF IInv
<1>1. PICK ok \in BOOLEAN :
         /\ BrokerTakes("SUBSCRIBE", <<[kind |-> "SUBACK", id |-> i, ok |-> ok]>>)
         /\ granted' = IF ok THEN granted \cup {p.filter} ELSE granted
         /\ UNCHANGED <<accepted, received>>
  BY DEF BrokerAnswersSubscribe
<1> DEFINE a == [kind |-> "SUBACK", id |-> i, ok |-> ok]
<1>2. /\ toBroker # << >> /\ p.kind = "SUBSCRIBE"
      /\ toClient' = IF socket = "open" THEN toClient \o <<a>> ELSE toClient
      /\ toBroker' = Tail(toBroker)
      /\ UNCHANGED <<state, internal, error, subVars, pubVars, idCounter, pingTimeout,
                     socket, published>>
  BY <1>1 DEF BrokerTakes
<1>3. /\ p \in Requests /\ p \in ToSet(toBroker)
      /\ \A j \in Ids : p \in Carrying(j) =>
            (ToSet(toBroker') \cup ToSet(toClient)) \cap Carrying(j) = {}
  BY <1>2, RequestTaken
<1>4. i \in Ids /\ p.filter \in Filters /\ p \in Carrying(i)
  BY <1>2, <1>3, RequestKinds
<1>5. a \in Answers /\ \A j \in Ids : a \in Carrying(j) => p \in Carrying(j)
  <2>1. a \in Answers
    BY <1>4, MadeAnswers
  <2> QED BY <2>1, <1>4, AnswerKinds
<1>6. granted' \subseteq Filters
  BY <1>1, <1>4 DEF Queues
<1>7. /\ Queues' /\ Once'
      /\ ToSet(toBroker') \subseteq ToSet(toBroker)
      /\ ToSet(toClient') \subseteq ToSet(toClient) \cup {a}
      /\ socket = "open" /\ (a \in Pings <=> p \in Pings)
            => PingsUnderWay' = PingsUnderWay
  BY <1>1, <1>5, <1>6, RequestAnswered
<1>8. i \in DOMAIN pendingSubs /\ pendingSubs[i] = p.filter /\ p.filter \notin granted
  BY <1>2, <1>3 DEF Subscribing
<1>9. ToSet(toBroker) \subseteq Requests /\ ToSet(toClient) \subseteq Answers
  BY QueueFacts
<1>10. TypeOK'
  BY <1>2 DEF TypeOK, subVars, pubVars
<1>11. Subscribing'
  <2>1. \A j, k \in DOMAIN pendingSubs' : pendingSubs'[j] = pendingSubs'[k] => j = k
    BY <1>2 DEF Subscribing, subVars
  <2>2. ASSUME NEW q \in ToSet(toBroker'), q.kind = "SUBSCRIBE"
        PROVE  /\ q.id \in DOMAIN pendingSubs' /\ pendingSubs'[q.id] = q.filter
               /\ q.filter \notin granted'
    <3>1. q \in Requests /\ q \in ToSet(toBroker)
      BY <1>7, <1>9, <2>2
    <3>2. q.id \in DOMAIN pendingSubs /\ pendingSubs[q.id] = q.filter /\ q.filter \notin granted
      BY <2>2, <3>1 DEF Subscribing
    <3>3. q.id # i
      BY <1>3, <1>4, <2>2, <3>1, RequestKinds
    <3>4. q.filter # p.filter
      BY <1>8, <3>2, <3>3 DEF Subscribing
    <3> QED BY <1>1, <1>2, <3>2, <3>4 DEF subVars
  <2>3. ASSUME NEW q \in ToSet(toClient'), q.kind = "SUBACK"
        PROVE  q.id \in DOMAIN pendingSubs' /\ (q.ok <=> pendingSubs'[q.id] \in granted')
    <3>1. CASE q = a
      BY <1>1, <1>2, <1>8, <3>1 DEF subVars
    <3>2. CASE q \in ToSet(toClient)
      <4>1. q \in Answers /\ q.id \in DOMAIN pendingSubs /\ (q.ok <=> pendingSubs[q.id] \in granted)
        BY <1>9, <2>3, <3>2 DEF Subscribing
      <4>2. q.id # i
        BY <1>3, <1>4, <2>3, <3>2, <4>1, AnswerKinds
      <4>3. pendingSubs[q.id] # p.filter
        BY <1>8, <4>1, <4>2 DEF Subscribing
      <4> QED BY <1>1, <1>2, <4>1, <4>3 DEF subVars
    <3> QED BY <1>7, <2>3, <3>1, <3>2
  <2> QED BY <2>1, <2>2, <2>3 DEF Subscribing
<1>12. Publishing'
  BY <1>1, <1>2, <1>7 DEF Publishing, pubVars
<1>13. internal \in {"BrokerDisconnected", "BrokerConnected"}
  BY <1>2, AfterHandshake
<1>14. Handshake'
  <2>1. internal = "BrokerDisconnected" => socket = "closed"
    BY DEF TypeOK
  <2> QED BY <1>1, <1>2, <1>7, <1>13, <2>1 DEF Handshake, subVars
<1>15. Pinging'
  <2>1. internal = "BrokerConnected" => socket = "open"
    BY DEF TypeOK
  <2>2. a \notin Pings /\ p \notin Pings
    BY <1>2, <1>3, <1>5, RequestKinds, AnswerKinds
  <2> QED BY <1>2, <1>7, <2>1, <2>2 DEF Pinging
<1>16. SubscriptionsAgree'
  BY <1>1, <1>2, <1>8 DEF SubscriptionsAgree, subVars, Range
<1>17. SentWasReceived'
  BY <1>1, <1>2 DEF SentWasReceived, pubVars
<1> QED BY <1>7, <1>10, <1>11, <1>12, <1>14, <1>15, <1>16, <1>17

LEMMA AnswersConnect ==
    ASSUME IInv, BrokerAnswersConnect
    PROVE  IInv'
<1> USE DEF IInv
<1>1. PICK ok \in BOOLEAN :
         /\ BrokerTakes("CONNECT", <<[kind |-> "CONNACK", ok |-> ok]>>)
         /\ accepted' = ok
         /\ UNCHANGED <<granted, received>>
  BY DEF BrokerAnswersConnect
<1> DEFINE a == [kind |-> "CONNACK", ok |-> ok]
<1>2. /\ toBroker # << >> /\ Head(toBroker).kind = "CONNECT"
      /\ toClient' = IF socket = "open" THEN toClient \o <<a>> ELSE toClient
      /\ toBroker' = Tail(toBroker)
      /\ UNCHANGED <<state, internal, error, subVars, pubVars, idCounter, pingTimeout,
                     socket, published>>
  BY <1>1 DEF BrokerTakes
<1>3. Head(toBroker) \in ToSet(toBroker)
  BY <1>2, RequestTaken
<1>4. internal = "BrokerWaitForConnectAck" /\ socket = "open"
      /\ toBroker = <<Connect>> /\ toClient = << >>
  BY <1>2, <1>3 DEF TypeOK, Handshake
<1>5. toBroker' = << >> /\ toClient' = <<a>>
  BY <1>2, <1>4
<1>6. a \in Answers /\ \A i \in Ids : a \in Carrying(i) => Head(toBroker) \in Carrying(i)
  <2>1. a \in Answers
    BY MadeAnswers
  <2> QED BY <2>1, AnswerKinds
<1>7. Queues' /\ Once'
  <2>1. granted' \subseteq Filters
    BY <1>1 DEF Queues
  <2> QED BY <1>1, <1>6, <2>1, RequestAnswered
<1>8. ToSet(toBroker') = {} /\ \A q \in ToSet(toClient') : q = a
  BY <1>5 DEF ToSet
<1>9. TypeOK'
  BY <1>2 DEF TypeOK, subVars, pubVars
<1>10. Subscribing' /\ Publishing'
  BY <1>1, <1>2, <1>8 DEF Subscribing, Publishing, subVars, pubVars
<1>11. Handshake'
  BY <1>1, <1>2, <1>4, <1>5 DEF Handshake, subVars
<1>12. Pinging'
  BY <1>2, <1>4 DEF Pinging
<1>13. SubscriptionsAgree'
  <2>1. active = {} /\ state # "Connected"
    BY <1>4 DEF Handshake, TypeOK
  <2> QED BY <1>2, <2>1 DEF SubscriptionsAgree, subVars
<1>14. SentWasReceived'
  BY <1>1, <1>2 DEF SentWasReceived, pubVars
<1> QED BY <1>7, <1>9, <1>10, <1>11, <1>12, <1>13, <1>14

\* The identifier 0 of a publication with QoS 0 is no identifier.
LEMMA TakesPublication ==
    ASSUME IInv, BrokerTakesPublication
    PROVE  IInv'
<1> DEFINE p == Head(toBroker)
           i == p.id
           a == [kind |-> "PUBACK", id |-> i]
<1> USE DEF IInv
<1>1. /\ BrokerTakes("PUBLISH", IF i = 0 THEN << >> ELSE <<a>>)
      /\ received' = received \cup {p.msg}
      /\ UNCHANGED <<accepted, granted>>
  BY DEF BrokerTakesPublication
<1>2. /\ toBroker # << >> /\ p.kind = "PUBLISH"
      /\ toBroker' = Tail(toBroker)
      /\ UNCHANGED <<state, internal, error, subVars, pubVars, idCounter, pingTimeout,
                     socket, published>>
  BY <1>1 DEF BrokerTakes
<1>3. /\ p \in Requests /\ p \in ToSet(toBroker)
      /\ toBroker' \in Seq(Requests)
      /\ ToSet(toBroker') \subseteq ToSet(toBroker)
      /\ \A S : Count(toBroker', S) = Count(toBroker, S) - IF p \in S THEN 1 ELSE 0
      /\ \A j \in Ids : p \in Carrying(j) =>
            (ToSet(toBroker') \cup ToSet(toClient)) \cap Carrying(j) = {}
  BY <1>2, RequestTaken
<1>4. i \in Ids \cup {0} /\ p \notin Pings
  BY <1>2, <1>3, RequestKinds
<1>5. granted' \subseteq Filters
  BY <1>1 DEF Queues
<1>6. toClient \in Seq(Answers)
  BY DEF Queues
<1>7. /\ Queues' /\ Once'
      /\ ToSet(toClient') \subseteq IF i = 0 THEN ToSet(toClient) ELSE ToSet(toClient) \cup {a}
      /\ socket = "open" => PingsUnderWay' = PingsUnderWay
      /\ socket # "open" => toClient' = toClient
  <2>1. CASE i = 0
    <3>1. toClient' = toClient
      BY <1>1, <1>6, <2>1 DEF BrokerTakes
    <3>2. \A S : Count(toBroker, S) \in Nat /\ Count(toClient, S) \in Nat
      BY QueueFacts
    <3>3. Once'
      <4> SUFFICES ASSUME NEW j \in Ids
                   PROVE  Count(toBroker', Carrying(j)) + Count(toClient', Carrying(j)) <= 1
        BY DEF Once, Carrying, Requests, Answers
      <4>1. Count(toBroker', Carrying(j)) =
               Count(toBroker, Carrying(j)) - IF p \in Carrying(j) THEN 1 ELSE 0
        BY <1>3
      <4>2. Count(toBroker, Carrying(j)) + Count(toClient, Carrying(j)) <= 1
        BY DEF Once
      <4> QED BY <3>1, <3>2, <4>1, <4>2
    <3>4. PingsUnderWay' = PingsUnderWay
      BY <1>3, <1>4, <3>1, <3>2 DEF PingsUnderWay, Pings, PingReq
    <3>5. Queues'
      BY <1>2, <1>3, <1>5, <3>1 DEF Queues
    <3> QED BY <2>1, <3>1, <3>3, <3>4, <3>5
  <2>2. CASE i # 0
    <3>1. BrokerTakes("PUBLISH", <<a>>)
      BY <1>1, <2>2
    <3>2. a \in Answers
      BY <1>4, <2>2, MadeAnswers
    <3>3. a \notin Pings /\ \A j \in Ids : a \in Carrying(j) => p \in Carrying(j)
      BY <1>2, <1>3, <3>2, AnswerKinds, RequestKinds
    <3>4. /\ Queues' /\ Once'
          /\ ToSet(toClient') \subseteq ToSet(toClient) \cup {a}
          /\ socket = "open" /\ (a \in Pings <=> p \in Pings) => PingsUnderWay' = PingsUnderWay
      BY <1>5, <3>1, <3>2, <3>3, RequestAnswered
    <3>5. socket # "open" => toClient' = toClient
      BY <3>1 DEF BrokerTakes
    <3> QED BY <1>4, <2>2, <3>3, <3>4, <3>5
  <2> QED BY <2>1, <2>2
<1>8. TypeOK'
  BY <1>2 DEF TypeOK, subVars, pubVars
<1>9. Subscribing'
  BY <1>1, <1>2, <1>3, <1>7 DEF Subscribing, subVars
<1>10. Publishing'
  <2>1. i # 0 => i \in DOMAIN pendingMessages /\ pendingMessages[i] = p.msg
    BY <1>2, <1>3 DEF Publishing
  <2>2. \A q \in ToSet(toBroker') : q.kind = "PUBLISH" /\ q.id # 0 =>
           q.id \in DOMAIN pendingMessages' /\ pendingMessages'[q.id] = q.msg
    BY <1>2, <1>3 DEF Publishing, pubVars
  <2>3. ASSUME NEW q \in ToSet(toClient'), q.kind = "PUBACK"
        PROVE  q.id \in DOMAIN pendingMessages' /\ pendingMessages'[q.id] \in received'
    <3>1. CASE q \in ToSet(toClient)
      BY <1>1, <1>2, <2>3, <3>1 DEF Publishing, pubVars
    <3>2. CASE i # 0 /\ q = a
      BY <1>1, <1>2, <2>1, <3>2 DEF pubVars
    <3> QED BY <1>7, <2>3, <3>1, <3>2
  <2> QED BY <2>2, <2>3 DEF Publishing
<1>11. internal \in {"BrokerDisconnected", "BrokerConnected"}
  BY <1>2, AfterHandshake
<1>12. Handshake'
  <2>1. internal = "BrokerDisconnected" => socket = "closed"
    BY DEF TypeOK
  <2> QED BY <1>1, <1>2, <1>3, <1>7, <1>11, <2>1 DEF Handshake, subVars
<1>13. Pinging'
  <2>1. internal = "BrokerConnected" => socket = "open"
    BY DEF TypeOK
  <2> QED BY <1>2, <1>7, <2>1 DEF Pinging
<1>14. SubscriptionsAgree'
  BY <1>1, <1>2 DEF SubscriptionsAgree, subVars
<1>15. SentWasReceived'
  BY <1>1, <1>2 DEF SentWasReceived, pubVars
<1> QED BY <1>7, <1>8, <1>9, <1>10, <1>12, <1>13, <1>14, <1>15

LEMMA AnswersPing ==
    ASSUME IInv, BrokerAnswersPing
    PROVE  IInv'
<1> DEFINE p == Head(toBroker)
           a == [kind |-> "PINGRESP"]
<1> USE DEF IInv
<1>1. BrokerTakes("PINGREQ", <<a>>) /\ UNCHANGED <<accepted, granted, received>>
  BY DEF BrokerAnswersPing
<1>2. /\ toBroker # << >> /\ p.kind = "PINGREQ"
      /\ toClient' = IF socket = "open" THEN toClient \o <<a>> ELSE toClient
      /\ toBroker' = Tail(toBroker)
      /\ UNCHANGED <<state, internal, error, subVars, pubVars, idCounter, pingTimeout,
                     socket, published>>
  BY <1>1 DEF BrokerTakes
<1>3. p \in Requests
  BY <1>2, RequestTaken
<1>4. a \in Answers /\ a \in Pings /\ p \in Pings /\ \A i \in Ids : a \notin Carrying(i)
  <2>1. a \in Answers
    BY MadeAnswers
  <2> QED BY <1>2, <1>3, <2>1, AnswerKinds, RequestKinds
<1>5. /\ Queues' /\ Once'
      /\ ToSet(toBroker') \subseteq ToSet(toBroker)
      /\ ToSet(toClient') \subseteq ToSet(toClient) \cup {a}
      /\ socket = "open" => PingsUnderWay' = PingsUnderWay
  <2>1. granted' \subseteq Filters
    BY <1>1 DEF Queues
  <2> QED BY <1>1, <1>4, <2>1, RequestAnswered
<1>6. TypeOK'
  BY <1>2 DEF TypeOK, subVars, pubVars
<1>7. Subscribing' /\ Publishing'
  BY <1>1, <1>2, <1>5 DEF Subscribing, Publishing, subVars, pubVars
<1>8. internal \in {"BrokerDisconnected", "BrokerConnected"}
  BY <1>2, AfterHandshake
<1>9. Handshake'
  <2>1. internal = "BrokerDisconnected" => socket = "closed"
    BY DEF TypeOK
  <2> QED BY <1>1, <1>2, <1>5, <1>8, <2>1 DEF Handshake, subVars
<1>10. Pinging'
  <2>1. internal = "BrokerConnected" => socket = "open"
    BY DEF TypeOK
  <2> QED BY <1>2, <1>5, <2>1 DEF Pinging
<1>11. SubscriptionsAgree' /\ SentWasReceived'
  BY <1>1, <1>2 DEF SubscriptionsAgree, SentWasReceived, subVars, pubVars
<1> QED BY <1>5, <1>6, <1>7, <1>9, <1>10, <1>11

-----------------------------------------------------------------------------
(* Connections begin and end *)

\* Nothing is on its way in empty queues.
LEMMA NothingUnderWay ==
    /\ \A S : Count(<< >>, S) = 0
    /\ ToSet(<< >>) = {}
    /\ << >> \in Seq(Requests) /\ << >> \in Seq(Answers)
<1>1. ToSet(<< >>) = {}
  BY DEF ToSet
<1> QED BY <1>1, CountEmpty

LEMMA FallsSilent ==
    ASSUME IInv, BrokerFallsSilent
    PROVE  IInv'
<1>1. UNCHANGED <<clientVars, accepted, granted, received, published>>
  BY DEF BrokerFallsSilent
<1>2. Once' /\ Pinging'
  BY <1>1 DEF IInv, Once, Pinging, PingsUnderWay, Pings, PingReq, Carrying, Requests, Answers,
              clientVars
<1>3. TypeOK' /\ Queues' /\ Subscribing' /\ Publishing'
  BY <1>1 DEF IInv, TypeOK, Queues, Subscribing, Publishing, clientVars, subVars, pubVars
<1>4. Handshake' /\ SubscriptionsAgree' /\ SentWasReceived'
  BY <1>1 DEF IInv, Handshake, SubscriptionsAgree, SentWasReceived, clientVars, subVars, pubVars
<1> QED BY <1>2, <1>3, <1>4 DEF IInv

\* A connection that is closed, by its end or by a broker that is restarted:
\* what is left to be read by the broker does not matter any more.
LEMMA ConnectionOver ==
    ASSUME IInv, toClient' = << >>, toBroker' \in {toBroker, << >>},
           \/ internal' = internal /\ internal \in {"BrokerDisconnected", "BrokerConnecting"}
           \/ internal' = "BrokerDisconnected" /\ toBroker' # <<Connect>>,
           internal' = "BrokerConnecting" => granted' = {},
           granted' \in {granted, {}}, active' = {},
           internal = internal' \/ pingTimeout' = 0, internal = internal' => pingTimeout' = pingTimeout,
           UNCHANGED <<subState, pendingSubs, pubVars, received, published>>,
           state' # "Connected", TypeOK'
    PROVE  IInv'
<1> USE DEF IInv
<1>1. toBroker' \in Seq(Requests) /\ ToSet(toBroker') \subseteq ToSet(toBroker)
      /\ ToSet(toClient') = {} /\ toClient' \in Seq(Answers)
  BY NothingUnderWay DEF Queues
<1>2. Once'
  <2> SUFFICES ASSUME NEW i \in Ids
               PROVE  Count(toBroker', Carrying(i)) + Count(toClient', Carrying(i)) <= 1
    BY DEF Once, Carrying, Requests, Answers
  <2>1. /\ Count(toBroker, Carrying(i)) + Count(toClient, Carrying(i)) <= 1
        /\ Count(toBroker, Carrying(i)) \in Nat /\ Count(toClient, Carrying(i)) \in Nat
    BY QueueFacts DEF Once
  <2>2. Count(toClient', Carrying(i)) = 0
        /\ Count(toBroker', Carrying(i)) \in {Count(toBroker, Carrying(i)), 0}
    BY NothingUnderWay
  <2> QED BY <2>1, <2>2
<1>3. Queues'
  BY <1>1 DEF Queues
<1>4. Subscribing' /\ Publishing' /\ SentWasReceived'
  BY <1>1 DEF Subscribing, Publishing, SentWasReceived, pubVars
<1>5. SubscriptionsAgree'
  BY DEF SubscriptionsAgree
<1>6. Handshake'
  <2>1. CASE internal' = "BrokerDisconnected"
    <3>1. \A p \in ToSet(toBroker') : p.kind # "CONNECT"
      <4>1. CASE internal = "BrokerWaitForConnectAck"
        BY <1>1, <4>1, NothingUnderWay DEF Handshake
      <4>2. CASE internal = "BrokerConnecting"
        BY <1>1, <4>2, NothingUnderWay DEF Handshake
      <4>3. CASE internal \in {"BrokerDisconnected", "BrokerConnected"}
        BY <1>1, <4>3 DEF Handshake
      <4> QED BY <4>1, <4>2, <4>3 DEF TypeOK
    <3> QED BY <2>1, <3>1 DEF Handshake
  <2>2. CASE internal' = "BrokerConnecting"
    BY <2>2 DEF Handshake
  <2> QED BY <2>1, <2>2
<1>7. Pinging'
  BY DEF Pinging
<1> QED BY <1>2, <1>3, <1>4, <1>5, <1>6, <1>7

LEMMA Restarts ==
    ASSUME IInv, BrokerRestarts
    PROVE  IInv'
<1>1. /\ socket # "open" /\ toBroker' = << >> /\ granted' = {}
      /\ UNCHANGED <<state, internal, error, subVars, pubVars, idCounter, pingTimeout, socket,
                     toClient, received, published>>
  BY DEF BrokerRestarts
<1>2. TypeOK'
  BY <1>1 DEF IInv, TypeOK, subVars, pubVars
<1>3. internal \in {"BrokerDisconnected", "BrokerConnecting"} /\ state # "Connected"
  BY <1>1 DEF IInv, TypeOK
<1>4. toClient = << >> /\ active = {}
  BY <1>3 DEF IInv, Handshake
<1> QED BY <1>1, <1>2, <1>3, <1>4, ConnectionOver DEF subVars

LEMMA Loses ==
    ASSUME IInv, ConnectionLost
    PROVE  IInv'
<1>1. /\ CloseConnection("TransportInvalid") /\ toBroker' = << >>
      /\ granted' = {} /\ UNCHANGED <<received, published>>
  BY DEF ConnectionLost, TransportError
<1>2. TypeOK'
  BY <1>1 DEF IInv, TypeOK, CloseConnection, SetStateAndError, pubVars, Errors
<1>3. /\ toClient' = << >> /\ internal' = "BrokerDisconnected" /\ active' = {}
      /\ pingTimeout' = 0 /\ state' = "Disconnected"
      /\ UNCHANGED <<subState, pendingSubs, pubVars>>
  BY <1>1 DEF CloseConnection, SetStateAndError
<1>4. internal = internal' => pingTimeout' = pingTimeout
  BY <1>3 DEF IInv, Pinging
<1> QED BY <1>1, <1>2, <1>3, <1>4, ConnectionOver DEF Connect

LEMMA Refused ==
    ASSUME IInv, Rejected, UNCHANGED <<brokerVars, published>>
    PROVE  IInv'
<1>1. /\ internal = "BrokerWaitForConnectAck" /\ toClient # << >>
      /\ CloseConnection("NotAuthorized") /\ toBroker' = toBroker
      /\ granted' = granted /\ UNCHANGED <<received, published>>
  BY DEF Rejected, Arrives, brokerVars
<1>2. TypeOK'
  BY <1>1 DEF IInv, TypeOK, CloseConnection, SetStateAndError, pubVars, Errors
<1>3. /\ toClient' = << >> /\ internal' = "BrokerDisconnected" /\ active' = {}
      /\ pingTimeout' = 0 /\ state' = "Disconnected"
      /\ UNCHANGED <<subState, pendingSubs, pubVars>>
  BY <1>1 DEF CloseConnection, SetStateAndError
<1>4. toBroker' = << >>
  BY <1>1 DEF IInv, Handshake
<1> QED BY <1>1, <1>2, <1>3, <1>4, ConnectionOver DEF Connect

LEMMA GivesUp ==
    ASSUME IInv, GiveUp, UNCHANGED <<brokerVars, published>>
    PROVE  IInv'
<1>1. /\ internal = "BrokerConnected"
      /\ CloseConnection("ServerUnavailable") /\ toBroker' = toBroker
      /\ granted' = granted /\ UNCHANGED <<received, published>>
  BY DEF GiveUp, brokerVars
<1>2. TypeOK'
  BY <1>1 DEF IInv, TypeOK, CloseConnection, SetStateAndError, pubVars, Errors
<1>3. /\ toClient' = << >> /\ internal' = "BrokerDisconnected" /\ active' = {}
      /\ pingTimeout' = 0 /\ state' = "Disconnected"
      /\ UNCHANGED <<subState, pendingSubs, pubVars>>
  BY <1>1 DEF CloseConnection, SetStateAndError
<1>4. toBroker' # <<Connect>>
  <2>1. Connect \in ToSet(<<Connect>>)
    BY DEF ToSet
  <2> QED BY <1>1, <2>1 DEF IInv, Handshake, Connect
<1> QED BY <1>1, <1>2, <1>3, <1>4, ConnectionOver DEF Connect

\* A new connection forgets the subscriptions and keeps the publications.
LEMMA Connects ==
    ASSUME IInv, ProgramConnects
    PROVE  IInv'
<1> USE DEF IInv
<1>1. /\ state = "Disconnected" /\ state' = "Connecting" /\ internal' = "BrokerConnecting"
      /\ socket' = "connecting" /\ error' = "NoError"
      /\ CleanSubscriptions
      /\ toBroker' = << >> /\ toClient' = << >> /\ granted' = {}
      /\ UNCHANGED <<pubVars, idCounter, pingTimeout, received, published>>
  BY DEF ProgramConnects, ConnectToHost, NewTransport
<1>2. pendingSubs' = NoEntries /\ active' = {} /\ DOMAIN NoEntries = {}
      /\ subState' \in [Filters -> SubStates]
  BY <1>1 DEF CleanSubscriptions, NoEntries, TypeOK, SubStates
<1>3. Range(pendingSubs') = {}
  BY <1>2 DEF Range
<1>4. TypeOK'
  BY <1>1, <1>2, <1>3 DEF TypeOK, pubVars, Errors
<1>5. Queues' /\ Once'
  <2>1. Queues'
    BY <1>1, NothingUnderWay DEF Queues
  <2>2. Once'
    BY <1>1, NothingUnderWay DEF Once, Carrying, Requests, Answers
  <2> QED BY <2>1, <2>2
<1>6. Subscribing' /\ Publishing'
  BY <1>1, <1>2, NothingUnderWay DEF Subscribing, Publishing
<1>7. Handshake' /\ SubscriptionsAgree' /\ SentWasReceived'
  BY <1>1, <1>2 DEF Handshake, SubscriptionsAgree, SentWasReceived, pubVars
<1>8. Pinging'
  BY <1>1 DEF Pinging, TypeOK
<1> QED BY <1>4, <1>5, <1>6, <1>7, <1>8

LEMMA Opens ==
    ASSUME IInv, SocketOpens
    PROVE  IInv'
<1> USE DEF IInv
<1>1. /\ internal = "BrokerConnecting" /\ internal' = "BrokerWaitForConnectAck"
      /\ socket = "connecting" /\ socket' = "open" /\ toBroker' = <<Connect>>
      /\ UNCHANGED <<state, error, subVars, pubVars, idCounter, pingTimeout, toClient,
                     brokerVars, published>>
  BY DEF SocketOpens, SendConnect
<1>2. toBroker = << >> /\ toClient = << >> /\ active = {} /\ granted = {}
  BY <1>1 DEF Handshake
<1>3. toBroker' \in Seq(Requests) /\ ToSet(toBroker') = {Connect} /\ ToSet(toClient') = {}
  <2>1. ToSet(<<Connect>>) = {Connect}
    BY DEF ToSet
  <2> QED BY <1>1, <1>2, <2>1, MadeRequests, NothingUnderWay
<1>4. TypeOK'
  BY <1>1 DEF TypeOK, subVars, pubVars
<1>5. Queues'
  BY <1>1, <1>3 DEF Queues, brokerVars
<1>6. Once'
  <2> SUFFICES ASSUME NEW i \in Ids
               PROVE  Count(toBroker', Carrying(i)) + Count(toClient', Carrying(i)) <= 1
    BY DEF Once, Carrying, Requests, Answers
  <2>1. Count(<<Connect>>, Carrying(i)) = IF Connect \in Carrying(i) THEN 1 ELSE 0
    BY CountOne
  <2> QED BY <1>1, <1>2, <2>1, NothingUnderWay
<1>7. Subscribing' /\ Publishing'
  BY <1>1, <1>3 DEF Subscribing, Publishing, Connect, subVars, pubVars, brokerVars
<1>8. Handshake'
  BY <1>1, <1>2 DEF Handshake, subVars, brokerVars
<1>9. SubscriptionsAgree' /\ SentWasReceived' /\ Pinging'
  BY <1>1 DEF SubscriptionsAgree, SentWasReceived, Pinging, TypeOK, subVars, pubVars, brokerVars
<1> QED BY <1>4, <1>5, <1>6, <1>7, <1>8, <1>9

-----------------------------------------------------------------------------
(* The client writes *)

\* An identifier that is not used is not on its way.
LEMMA UnusedIsFree ==
    ASSUME Queues, Subscribing, Publishing, NEW i \in Ids \ InUse
    PROVE  Count(toBroker, Carrying(i)) = 0 /\ Count(toClient, Carrying(i)) = 0
<1>1. ToSet(toBroker) \subseteq Requests /\ ToSet(toClient) \subseteq Answers
  BY QueueFacts
<1>2. i # 0
  BY IdsArePositive
<1>3. ToSet(toBroker) \cap Carrying(i) = {}
  BY <1>1, <1>2, RequestKinds DEF Subscribing, Publishing, InUse
<1>4. ToSet(toClient) \cap Carrying(i) = {}
  BY <1>1, <1>2, AnswerKinds DEF Subscribing, Publishing, InUse
<1> QED BY <1>3, <1>4, QueueFacts

\* onConnected's subscriptions have identifiers of their own.
LEMMA Subscribed ==
    ASSUME SubscribeTopics, TopicsAssumption, toBroker = << >>
    PROVE  /\ toBroker' \in Seq(Requests)
           /\ \A i \in Ids : Count(toBroker', Carrying(i)) <= 1
           /\ Count(toBroker', Pings) = 0
           /\ \A p \in ToSet(toBroker') :
                 p.kind = "SUBSCRIBE" /\ p.id \in DOMAIN pendingSubs' /\ pendingSubs'[p.id] = p.filter
           /\ \A i, j \in DOMAIN pendingSubs' : pendingSubs'[i] = pendingSubs'[j] => i = j
           /\ DOMAIN pendingSubs' \subseteq Ids /\ Range(pendingSubs') \subseteq Filters
           /\ idCounter' \in Ids
<1> DEFINE n == Len(Topics)
<1>1. /\ Topics \in Seq(Filters) /\ n \in Nat \ {0} /\ DOMAIN Topics = 1..n
      /\ \A j, k \in 1..n : Topics[j] = Topics[k] => j = k
      /\ \A k \in 1..n : Topics[k] \in Filters
  BY DEF TopicsAssumption, IsInjective, Filters
<1>2. PICK ids \in [DOMAIN Topics -> Ids] :
         LET taken(k) == InUse \cup {ids[j] : j \in 1..(k - 1)}
             at(i) == CHOOSE k \in DOMAIN Topics : ids[k] = i
         IN  /\ \A k \in DOMAIN Topics : ids[k] \in Ids \ taken(k)
             /\ pendingSubs' = [i \in Range(ids) |-> Topics[at(i)]]
             /\ idCounter' = ids[Len(Topics)]
             /\ toBroker' = toBroker \o [k \in DOMAIN Topics |-> Subscribe(ids[k], Topics[k])]
  BY DEF SubscribeTopics, IsUnused
<1> DEFINE at(i) == CHOOSE k \in DOMAIN Topics : ids[k] = i
           out == [k \in DOMAIN Topics |-> Subscribe(ids[k], Topics[k])]
<1>3. \A j, k \in 1..n : ids[j] = ids[k] => j = k
  <2> SUFFICES ASSUME NEW j \in 1..n, NEW k \in 1..n, j < k
               PROVE  ids[j] # ids[k]
    BY <1>1
  <2>1. j \in 1..(k - 1)
    BY <1>1
  <2> QED BY <1>1, <1>2, <2>1
<1>4. Range(ids) = {ids[k] : k \in 1..n} /\ Range(ids) \subseteq Ids
      /\ \A k \in 1..n : ids[k] \in Ids
  BY <1>1, <1>2 DEF Range
<1>5. ASSUME NEW k \in 1..n
      PROVE  at(ids[k]) = k
  BY <1>1, <1>3, <1>5
<1>6. pendingSubs' = [i \in Range(ids) |-> Topics[at(i)]] /\ DOMAIN pendingSubs' = Range(ids)
  BY <1>2
<1>7. \A k \in 1..n : ids[k] \in DOMAIN pendingSubs' /\ pendingSubs'[ids[k]] = Topics[k]
  BY <1>4, <1>5, <1>6
<1>8. out \in Seq(Requests) /\ DOMAIN out = 1..n /\ \A k \in 1..n : out[k] = Subscribe(ids[k], Topics[k])
  <2>1. \A k \in 1..n : Subscribe(ids[k], Topics[k]) \in Requests
    BY <1>1, <1>4, MadeRequests
  <2>2. out = [k \in 1..n |-> Subscribe(ids[k], Topics[k])]
    BY <1>1
  <2>3. out \in [1..n -> Requests]
    BY <2>1, <2>2
  <2>4. out \in Seq(Requests)
    BY <1>1, <2>3
  <2> QED BY <2>2, <2>4
<1>9. toBroker' = out
  <2>1. toBroker' = << >> \o out
    BY <1>2
  <2> QED BY <1>8, <2>1
<1>10. \A k \in 1..n : out[k] \in Requests /\ out[k].kind = "SUBSCRIBE" /\ out[k].id = ids[k]
                       /\ out[k].filter = Topics[k]
  BY <1>8, <1>1, <1>4, MadeRequests DEF Subscribe
<1>11. ASSUME NEW i \in Ids
       PROVE  Count(toBroker', Carrying(i)) <= 1
  <2>1. \A j, k \in DOMAIN out : out[j] \in Carrying(i) /\ out[k] \in Carrying(i) => j = k
    BY <1>3, <1>8, <1>10, RequestKinds
  <2>2. Count(out, Carrying(i)) \in {0, 1}
    BY <1>8, <2>1, CountAtMostOne
  <2> QED BY <1>9, <2>2
<1>12. Count(toBroker', Pings) = 0
  <2>1. \A p \in ToSet(out) : p \notin Pings
    BY <1>8, <1>10, RequestKinds DEF ToSet
  <2> QED BY <1>8, <1>9, <2>1, CountZero
<1>13. \A p \in ToSet(toBroker') :
          p.kind = "SUBSCRIBE" /\ p.id \in DOMAIN pendingSubs' /\ pendingSubs'[p.id] = p.filter
  BY <1>7, <1>8, <1>9, <1>10 DEF ToSet
<1>14. \A i, j \in DOMAIN pendingSubs' : pendingSubs'[i] = pendingSubs'[j] => i = j
  BY <1>1, <1>4, <1>6, <1>7
<1>15. DOMAIN pendingSubs' \subseteq Ids /\ Range(pendingSubs') \subseteq Filters
  BY <1>1, <1>4, <1>6, <1>7 DEF Range
<1>16. idCounter' \in Ids
  BY <1>1, <1>2, <1>4
<1> QED BY <1>8, <1>9, <1>11, <1>12, <1>13, <1>14, <1>15, <1>16

LEMMA GetsConnected ==
    ASSUME IInv, Connected, UNCHANGED <<brokerVars, published>>
    PROVE  IInv'
<1> USE DEF IInv
<1>1. /\ Arrives("CONNACK") /\ Head(toClient).ok
      /\ internal = "BrokerWaitForConnectAck"
      /\ internal' = "BrokerConnected" /\ state' = "Connected"
      /\ SubscribeTopics
      /\ toClient' = Tail(toClient)
      /\ UNCHANGED <<error, pubVars, pingTimeout, socket, accepted, granted, received, published>>
  BY DEF Connected, brokerVars
<1>2. /\ toBroker = << >> /\ toClient' = << >> /\ accepted /\ granted = {} /\ socket = "open"
      /\ pingTimeout = 0
  <2>1. socket = "open" /\ pingTimeout = 0
    BY <1>1 DEF TypeOK, Pinging
  <2>2. PICK ok \in BOOLEAN : /\ toBroker = << >>
                              /\ toClient = <<[kind |-> "CONNACK", ok |-> ok]>>
                              /\ ok => accepted
    BY <1>1 DEF Handshake, Arrives
  <2> QED BY <1>1, <2>1, <2>2 DEF Handshake
<1>3. /\ toBroker' \in Seq(Requests)
      /\ \A i \in Ids : Count(toBroker', Carrying(i)) <= 1
      /\ Count(toBroker', Pings) = 0
      /\ \A p \in ToSet(toBroker') :
            p.kind = "SUBSCRIBE" /\ p.id \in DOMAIN pendingSubs' /\ pendingSubs'[p.id] = p.filter
      /\ \A i, j \in DOMAIN pendingSubs' : pendingSubs'[i] = pendingSubs'[j] => i = j
      /\ DOMAIN pendingSubs' \subseteq Ids /\ Range(pendingSubs') \subseteq Filters
      /\ idCounter' \in Ids
  BY <1>1, <1>2, Subscribed, TopicsAssumption
<1>4. active' = Filters /\ subState' = [f \in Filters |-> "SubscriptionPending"]
  BY <1>1 DEF SubscribeTopics
<1>5. ToSet(toClient') = {} /\ Count(toClient', Pings) = 0
      /\ \A i : Count(toClient', Carrying(i)) = 0
  BY <1>2, NothingUnderWay
<1>6. TypeOK'
  BY <1>1, <1>2, <1>3, <1>4 DEF TypeOK, pubVars, SubStates
<1>7. Queues'
  BY <1>1, <1>2, <1>3, NothingUnderWay DEF Queues
<1>8. Once'
  <2> SUFFICES ASSUME NEW i \in Ids
               PROVE  Count(toBroker', Carrying(i)) + Count(toClient', Carrying(i)) <= 1
    BY DEF Once, Carrying, Requests, Answers
  <2>1. Count(toBroker', Carrying(i)) \in Nat
    BY <1>3, CountType
  <2> QED BY <1>3, <1>5, <2>1
<1>9. Subscribing'
  BY <1>1, <1>2, <1>3, <1>5 DEF Subscribing
<1>10. Publishing'
  BY <1>3, <1>5 DEF Publishing
<1>11. Handshake'
  BY <1>1, <1>2, <1>3, <1>5 DEF Handshake
<1>12. Pinging'
  <2>1. PingsUnderWay' = Count(toBroker', Pings) + Count(toClient', Pings)
    BY DEF PingsUnderWay, Pings, PingReq
  <2> QED BY <1>1, <1>2, <1>3, <1>5, <2>1 DEF Pinging
<1>13. SubscriptionsAgree' /\ SentWasReceived'
  BY <1>1, <1>2, <1>4 DEF SubscriptionsAgree, SentWasReceived, pubVars
<1> QED BY <1>6, <1>7, <1>8, <1>9, <1>10, <1>11, <1>12, <1>13

LEMMA Publishes ==
    ASSUME IInv, ProgramPublishes
    PROVE  IInv'
<1> USE DEF IInv
<1> DEFINE n == published + 1
<1>1. PICK i \in Ids \cup {0} :
         /\ toBroker' = Append(toBroker, Publish(i, n))
         /\ i # 0 => /\ i \in Ids \ InUse
                     /\ pendingMessages' = [j \in DOMAIN pendingMessages \cup {i} |->
                                               IF j = i THEN n ELSE pendingMessages[j]]
                     /\ idCounter' = i
         /\ i = 0 => UNCHANGED <<pendingMessages, idCounter>>
  <2>1. PICK qos \in {0, 1} : PublishMessage(n, qos)
    BY DEF ProgramPublishes
  <2>2. CASE qos = 0
    BY <2>1, <2>2, IdsArePositive DEF PublishMessage
  <2>3. CASE qos = 1
    BY <2>1, <2>3, IdsArePositive DEF PublishMessage, IsUnused
  <2> QED BY <2>2, <2>3
<1>2. /\ state = "Connected" /\ published' = n /\ n \in Nat /\ n \notin 1..published
      /\ 1..published \subseteq 1..n /\ n \in 1..n
      /\ UNCHANGED <<state, internal, error, subVars, sent, pingTimeout, socket, toClient,
                     accepted, granted, received>>
  BY DEF ProgramPublishes, PublishMessage, brokerVars, Queues
<1> DEFINE p == Publish(i, n)
<1>3. p \in Requests /\ p.kind = "PUBLISH" /\ p.id = i /\ p.msg = n
  BY <1>2, MadeRequests DEF Publish
<1>4. /\ toBroker' \in Seq(Requests)
      /\ ToSet(toBroker') = ToSet(toBroker) \cup {p}
      /\ \A S : Count(toBroker', S) = Count(toBroker, S) + IF p \in S THEN 1 ELSE 0
  BY <1>1, <1>3, RequestWritten
<1>5. ToSet(toBroker) \subseteq Requests /\ ToSet(toClient) \subseteq Answers
      /\ \A S : Count(toBroker, S) \in Nat /\ Count(toClient, S) \in Nat
  BY QueueFacts
<1>6. /\ DOMAIN pendingMessages' \subseteq Ids
      /\ \A j \in DOMAIN pendingMessages :
            j \in DOMAIN pendingMessages' /\ pendingMessages'[j] = pendingMessages[j]
      /\ i # 0 => i \in DOMAIN pendingMessages' /\ pendingMessages'[i] = n
      /\ Range(pendingMessages') \subseteq Range(pendingMessages) \cup {n}
      /\ idCounter' \in Ids
  <2>1. CASE i = 0
    BY <1>1, <2>1 DEF TypeOK
  <2>2. CASE i # 0
    <3>1. i \notin DOMAIN pendingMessages
      BY <1>1, <2>2 DEF InUse
    <3> QED BY <1>1, <2>2, <3>1 DEF TypeOK, Range
  <2> QED BY <2>1, <2>2
<1>7. TypeOK'
  BY <1>2, <1>6 DEF TypeOK, subVars
<1>8. Queues'
  BY <1>2, <1>4 DEF Queues
<1>9. Once'
  <2> SUFFICES ASSUME NEW k \in Ids
               PROVE  Count(toBroker', Carrying(k)) + Count(toClient', Carrying(k)) <= 1
    BY DEF Once, Carrying, Requests, Answers
  <2>1. Count(toBroker, Carrying(k)) + Count(toClient, Carrying(k)) <= 1
    BY DEF Once
  <2>2. CASE k = i
    <3>1. i \in Ids \ InUse
      BY <1>1, <2>2, IdsArePositive
    <3>2. Count(toBroker, Carrying(k)) = 0 /\ Count(toClient, Carrying(k)) = 0
      BY <2>2, <3>1, UnusedIsFree
    <3> QED BY <1>2, <1>4, <3>2
  <2>3. CASE k # i
    <3>1. p \notin Carrying(k)
      BY <1>3, <2>3, RequestKinds
    <3> QED BY <1>2, <1>4, <1>5, <2>1, <3>1
  <2> QED BY <2>2, <2>3
<1>10. Subscribing'
  BY <1>2, <1>3, <1>4 DEF Subscribing, subVars
<1>11. Publishing'
  <2>1. ASSUME NEW q \in ToSet(toBroker'), q.kind = "PUBLISH", q.id # 0
        PROVE  q.id \in DOMAIN pendingMessages' /\ pendingMessages'[q.id] = q.msg
    <3>1. CASE q = p
      BY <1>3, <1>6, <2>1, <3>1
    <3>2. CASE q \in ToSet(toBroker)
      BY <1>6, <2>1, <3>2 DEF Publishing
    <3> QED BY <1>4, <2>1, <3>1, <3>2
  <2>2. \A q \in ToSet(toClient') : q.kind = "PUBACK" =>
           q.id \in DOMAIN pendingMessages' /\ pendingMessages'[q.id] \in received'
    BY <1>2, <1>6 DEF Publishing
  <2> QED BY <2>1, <2>2 DEF Publishing
<1>12. internal = "BrokerConnected"
  BY <1>2 DEF TypeOK
<1>13. Handshake'
  BY <1>2, <1>3, <1>4, <1>12 DEF Handshake, subVars
<1>14. Pinging'
  <2>1. p \notin Pings
    BY <1>3, RequestKinds
  <2>2. PingsUnderWay' = Count(toBroker', Pings) + Count(toClient', Pings)
    BY DEF PingsUnderWay, Pings, PingReq
  <2> QED BY <1>2, <1>4, <1>5, <1>12, <2>1, <2>2 DEF Pinging, PingsUnderWay
<1>15. SubscriptionsAgree' /\ SentWasReceived'
  BY <1>2 DEF SubscriptionsAgree, SentWasReceived, subVars
<1> QED BY <1>7, <1>8, <1>9, <1>10, <1>11, <1>13, <1>14, <1>15

LEMMA Pinged ==
    ASSUME IInv, Ping, UNCHANGED <<brokerVars, published>>
    PROVE  IInv'
<1> USE DEF IInv
<1>1. /\ internal = "BrokerConnected" /\ pingTimeout <= 1
      /\ toBroker' = Append(toBroker, PingReq)
      /\ pingTimeout' = pingTimeout + 1
      /\ UNCHANGED <<state, internal, error, subVars, pubVars, idCounter, socket, toClient,
                     accepted, granted, received, published>>
  BY DEF Ping, brokerVars
<1>2. PingReq \in Requests /\ PingReq.kind = "PINGREQ" /\ PingReq \in Pings
      /\ \A i \in Ids : PingReq \notin Carrying(i)
  BY MadeRequests, RequestKinds DEF PingReq
<1>3. /\ toBroker' \in Seq(Requests)
      /\ ToSet(toBroker') = ToSet(toBroker) \cup {PingReq}
      /\ \A S : Count(toBroker', S) = Count(toBroker, S) + IF PingReq \in S THEN 1 ELSE 0
  BY <1>1, <1>2, RequestWritten
<1>4. \A S : Count(toBroker, S) \in Nat /\ Count(toClient, S) \in Nat
  BY QueueFacts
<1>5. TypeOK'
  BY <1>1 DEF TypeOK, subVars, pubVars
<1>6. Queues'
  BY <1>1, <1>3 DEF Queues
<1>7. Once'
  <2> SUFFICES ASSUME NEW k \in Ids
               PROVE  Count(toBroker', Carrying(k)) + Count(toClient', Carrying(k)) <= 1
    BY DEF Once, Carrying, Requests, Answers
  <2>1. Count(toBroker, Carrying(k)) + Count(toClient, Carrying(k)) <= 1
    BY DEF Once
  <2> QED BY <1>1, <1>2, <1>3, <1>4, <2>1
<1>8. Subscribing' /\ Publishing'
  BY <1>1, <1>2, <1>3 DEF Subscribing, Publishing, subVars, pubVars
<1>9. Handshake'
  BY <1>1, <1>2, <1>3 DEF Handshake, subVars
<1>10. Pinging'
  <2>1. PingsUnderWay' = Count(toBroker', Pings) + Count(toClient', Pings)
    BY DEF PingsUnderWay, Pings, PingReq
  <2>2. Count(toBroker', Pings) = Count(toBroker, Pings) + 1
    BY <1>2, <1>3
  <2> QED BY <1>1, <1>4, <2>1, <2>2 DEF Pinging, PingsUnderWay
<1>11. SubscriptionsAgree' /\ SentWasReceived'
  BY <1>1 DEF SubscriptionsAgree, SentWasReceived, subVars, pubVars
<1> QED BY <1>5, <1>6, <1>7, <1>8, <1>9, <1>10, <1>11

-----------------------------------------------------------------------------
(* The client reads *)

LEMMA ReadWhileConnected ==
    ASSUME TypeOK, Queues, Once, Handshake, toClient # << >>, Head(toClient).kind # "CONNACK"
    PROVE  internal = "BrokerConnected" /\ state = "Connected"
<1>1. internal = "BrokerConnected"
  BY DEF TypeOK, Handshake
<1> QED BY <1>1 DEF TypeOK

\* What is kept when an answer has been read.
LEMMA AnswerRead ==
    ASSUME Queues, Once, toClient # << >>, toClient' = Tail(toClient),
           UNCHANGED <<toBroker, published, granted>>
    PROVE  /\ Queues' /\ Once'
           /\ ToSet(toClient') \subseteq ToSet(toClient)
           /\ PingsUnderWay' = PingsUnderWay - IF Head(toClient) \in Pings THEN 1 ELSE 0
           /\ PingsUnderWay \in Nat /\ PingsUnderWay' \in Nat
<1>1. /\ toClient' \in Seq(Answers) /\ ToSet(toClient') \subseteq ToSet(toClient)
      /\ \A S : Count(toClient', S) = Count(toClient, S) - IF Head(toClient) \in S THEN 1 ELSE 0
  BY AnswerTaken
<1>2. \A S : Count(toBroker, S) \in Nat /\ Count(toClient, S) \in Nat
  BY QueueFacts
<1>3. Queues'
  BY <1>1 DEF Queues
<1>4. Once'
  <2> SUFFICES ASSUME NEW i \in Ids
               PROVE  Count(toBroker', Carrying(i)) + Count(toClient', Carrying(i)) <= 1
    BY DEF Once, Carrying, Requests, Answers
  <2>1. Count(toBroker, Carrying(i)) + Count(toClient, Carrying(i)) <= 1
    BY DEF Once
  <2> QED BY <1>1, <1>2, <2>1
<1>5. PingsUnderWay' = Count(toBroker', Pings) + Count(toClient', Pings)
  BY DEF PingsUnderWay, Pings, PingReq
<1>6. Count(toClient', Pings) \in Nat
  BY <1>1, CountType
<1> QED BY <1>1, <1>2, <1>3, <1>4, <1>5, <1>6 DEF PingsUnderWay

LEMMA ReadsSubAck ==
    ASSUME IInv, SubAck, UNCHANGED <<brokerVars, published>>
    PROVE  IInv'
<1> USE DEF IInv
<1> DEFINE p == Head(toClient)
           i == p.id
           answer == IF p.ok THEN "Subscribed" ELSE "Error"
<1>1. /\ toClient # << >> /\ p.kind = "SUBACK" /\ toClient' = Tail(toClient)
      /\ subState' = IF i \in DOMAIN pendingSubs
                     THEN [subState EXCEPT ![pendingSubs[i]] = answer] ELSE subState
      /\ pendingSubs' = Without(pendingSubs, i)
      /\ UNCHANGED <<state, internal, error, active, pubVars, idCounter, pingTimeout,
                     socket, toBroker, accepted, granted, received, published>>
  BY DEF SubAck, Arrives, brokerVars
<1>2. /\ p \in Answers /\ p \in ToSet(toClient)
      /\ ToSet(toClient') \subseteq ToSet(toClient)
      /\ \A j \in Ids : p \in Carrying(j) =>
            (ToSet(toClient') \cup ToSet(toBroker)) \cap Carrying(j) = {}
  BY <1>1, AnswerTaken
<1>3. i \in Ids /\ p \in Carrying(i) /\ p \notin Pings /\ p.ok \in BOOLEAN
  BY <1>1, <1>2, AnswerKinds
<1>4. ToSet(toBroker) \subseteq Requests /\ ToSet(toClient) \subseteq Answers
  BY QueueFacts
<1>5. i \in DOMAIN pendingSubs /\ (p.ok <=> pendingSubs[i] \in granted)
  BY <1>1, <1>2 DEF Subscribing
<1> DEFINE f == pendingSubs[i]
<1>6. f \in Filters /\ subState \in [Filters -> SubStates]
      /\ subState' = [subState EXCEPT ![f] = answer]
  BY <1>1, <1>5 DEF TypeOK, Range
<1>7. /\ DOMAIN pendingSubs' = DOMAIN pendingSubs \ {i}
      /\ \A j \in DOMAIN pendingSubs' : pendingSubs'[j] = pendingSubs[j]
      /\ Range(pendingSubs') \subseteq Range(pendingSubs)
  BY <1>1 DEF Without, Range
<1>8. /\ Queues' /\ Once'
      /\ PingsUnderWay' = PingsUnderWay /\ PingsUnderWay \in Nat
  BY <1>1, <1>3, AnswerRead
<1>9. TypeOK'
  <2>1. subState' \in [Filters -> SubStates]
    BY <1>6 DEF SubStates
  <2> QED BY <1>1, <1>7, <2>1 DEF TypeOK, pubVars
<1>10. Subscribing'
  <2>1. \A j, k \in DOMAIN pendingSubs' : pendingSubs'[j] = pendingSubs'[k] => j = k
    BY <1>7 DEF Subscribing
  <2>2. ASSUME NEW q \in ToSet(toBroker), q.kind = "SUBSCRIBE"
        PROVE  q.id \in DOMAIN pendingSubs' /\ pendingSubs'[q.id] = q.filter /\ q.filter \notin granted
    <3>1. q.id # i
      BY <1>2, <1>3, <1>4, <2>2, RequestKinds
    <3> QED BY <1>7, <2>2, <3>1 DEF Subscribing
  <2>3. ASSUME NEW q \in ToSet(toClient'), q.kind = "SUBACK"
        PROVE  q.id \in DOMAIN pendingSubs' /\ (q.ok <=> pendingSubs'[q.id] \in granted)
    <3>1. q.id # i
      BY <1>2, <1>3, <1>4, <2>3, AnswerKinds
    <3> QED BY <1>2, <1>7, <2>3, <3>1 DEF Subscribing
  <2> QED BY <1>1, <2>1, <2>2, <2>3 DEF Subscribing
<1>11. Publishing'
  BY <1>1, <1>2 DEF Publishing, pubVars
<1>12. internal = "BrokerConnected" /\ state = "Connected"
  BY <1>1, ReadWhileConnected
<1>13. Handshake'
  BY <1>1, <1>2, <1>12 DEF Handshake
<1>14. Pinging'
  BY <1>1, <1>8 DEF Pinging
<1>15. SubscriptionsAgree'
  <2>1. ASSUME NEW g \in active, subState'[g] = "Subscribed"
        PROVE  accepted /\ g \in granted
    <3>1. g \in Filters
      BY <2>1 DEF TypeOK
    <3>2. CASE g = f
      BY <1>5, <1>6, <1>12, <2>1, <3>1, <3>2 DEF Handshake
    <3>3. CASE g # f
      BY <1>6, <2>1, <3>1, <3>3 DEF SubscriptionsAgree
    <3> QED BY <3>2, <3>3
  <2>2. ASSUME NEW g \in granted
        PROVE  subState'[g] = "Subscribed" \/ g \in Range(pendingSubs')
    <3>1. g \in Filters
      BY <2>2 DEF Queues
    <3>2. CASE g = f
      BY <1>5, <1>6, <2>2, <3>1, <3>2
    <3>3. CASE g # f
      <4>1. subState[g] = "Subscribed" \/ g \in Range(pendingSubs)
        BY <1>12, <2>2 DEF SubscriptionsAgree
      <4>2. g \in Range(pendingSubs) => g \in Range(pendingSubs')
        BY <1>7, <3>3 DEF Range
      <4> QED BY <1>6, <3>1, <3>3, <4>1, <4>2
    <3> QED BY <3>2, <3>3
  <2> QED BY <1>1, <2>1, <2>2 DEF SubscriptionsAgree
<1>16. SentWasReceived'
  BY <1>1 DEF SentWasReceived, pubVars
<1> QED BY <1>8, <1>9, <1>10, <1>11, <1>13, <1>14, <1>15, <1>16

LEMMA ReadsPubAck ==
    ASSUME IInv, PubAck, UNCHANGED <<brokerVars, published>>
    PROVE  IInv'
<1> USE DEF IInv
<1> DEFINE p == Head(toClient)
           i == p.id
<1>1. /\ toClient # << >> /\ p.kind = "PUBACK" /\ toClient' = Tail(toClient)
      /\ sent' = IF i \in DOMAIN pendingMessages THEN sent \cup {pendingMessages[i]} ELSE sent
      /\ pendingMessages' = Without(pendingMessages, i)
      /\ UNCHANGED <<state, internal, error, subVars, idCounter, pingTimeout,
                     socket, toBroker, accepted, granted, received, published>>
  BY DEF PubAck, Arrives, brokerVars
<1>2. /\ p \in Answers /\ p \in ToSet(toClient)
      /\ ToSet(toClient') \subseteq ToSet(toClient)
      /\ \A j \in Ids : p \in Carrying(j) =>
            (ToSet(toClient') \cup ToSet(toBroker)) \cap Carrying(j) = {}
  BY <1>1, AnswerTaken
<1>3. i \in Ids /\ p \in Carrying(i) /\ p \notin Pings
  BY <1>1, <1>2, AnswerKinds
<1>4. ToSet(toBroker) \subseteq Requests /\ ToSet(toClient) \subseteq Answers
  BY QueueFacts
<1>5. i \in DOMAIN pendingMessages /\ pendingMessages[i] \in received
  BY <1>1, <1>2 DEF Publishing
<1>6. /\ DOMAIN pendingMessages' = DOMAIN pendingMessages \ {i}
      /\ \A j \in DOMAIN pendingMessages' : pendingMessages'[j] = pendingMessages[j]
      /\ Range(pendingMessages') \subseteq Range(pendingMessages)
  BY <1>1 DEF Without, Range
<1>7. /\ Queues' /\ Once'
      /\ PingsUnderWay' = PingsUnderWay /\ PingsUnderWay \in Nat
  BY <1>1, <1>3, AnswerRead
<1>8. TypeOK'
  BY <1>1, <1>6 DEF TypeOK, subVars
<1>9. Subscribing'
  BY <1>1, <1>2 DEF Subscribing, subVars
<1>10. Publishing'
  <2>1. ASSUME NEW q \in ToSet(toBroker), q.kind = "PUBLISH", q.id # 0
        PROVE  q.id \in DOMAIN pendingMessages' /\ pendingMessages'[q.id] = q.msg
    <3>1. q.id # i
      BY <1>2, <1>3, <1>4, <2>1, RequestKinds
    <3> QED BY <1>6, <2>1, <3>1 DEF Publishing
  <2>2. ASSUME NEW q \in ToSet(toClient'), q.kind = "PUBACK"
        PROVE  q.id \in DOMAIN pendingMessages' /\ pendingMessages'[q.id] \in received
    <3>1. q.id # i
      BY <1>2, <1>3, <1>4, <2>2, AnswerKinds
    <3> QED BY <1>2, <1>6, <2>2, <3>1 DEF Publishing
  <2> QED BY <1>1, <2>1, <2>2 DEF Publishing
<1>11. internal = "BrokerConnected"
  BY <1>1, ReadWhileConnected
<1>12. Handshake'
  BY <1>1, <1>2, <1>11 DEF Handshake, subVars
<1>13. Pinging'
  BY <1>1, <1>7 DEF Pinging
<1>14. SubscriptionsAgree' /\ SentWasReceived'
  BY <1>1, <1>5 DEF SubscriptionsAgree, SentWasReceived, subVars
<1> QED BY <1>7, <1>8, <1>9, <1>10, <1>12, <1>13, <1>14

LEMMA ReadsPingResp ==
    ASSUME IInv, PingResp, UNCHANGED <<brokerVars, published>>
    PROVE  IInv'
<1> USE DEF IInv
<1>1. /\ toClient # << >> /\ Head(toClient).kind = "PINGRESP" /\ toClient' = Tail(toClient)
      /\ pingTimeout' = pingTimeout - 1
      /\ UNCHANGED <<state, internal, error, subVars, pubVars, idCounter,
                     socket, toBroker, accepted, granted, received, published>>
  BY DEF PingResp, Arrives, brokerVars
<1>2. Head(toClient) \in Pings
  BY <1>1, AnswerTaken, AnswerKinds
<1>3. /\ Queues' /\ Once' /\ ToSet(toClient') \subseteq ToSet(toClient)
      /\ PingsUnderWay' = PingsUnderWay - 1
      /\ PingsUnderWay \in Nat /\ PingsUnderWay' \in Nat
  BY <1>1, <1>2, AnswerRead
<1>4. internal = "BrokerConnected"
  BY <1>1, ReadWhileConnected
<1>5. Pinging'
  BY <1>1, <1>3, <1>4 DEF Pinging
<1>6. TypeOK'
  <2>1. pingTimeout' \in 0..2
    BY <1>1, <1>3, <1>4 DEF TypeOK, Pinging
  <2> QED BY <1>1, <2>1 DEF TypeOK, subVars, pubVars
<1>7. Subscribing' /\ Publishing'
  BY <1>1, <1>3 DEF Subscribing, Publishing, subVars, pubVars
<1>8. Handshake'
  BY <1>1, <1>3, <1>4 DEF Handshake, subVars
<1>9. SubscriptionsAgree' /\ SentWasReceived'
  BY <1>1 DEF SubscriptionsAgree, SentWasReceived, subVars, pubVars
<1> QED BY <1>3, <1>5, <1>6, <1>7, <1>8, <1>9

-----------------------------------------------------------------------------
(* The session *)

LEMMA SessionStarts == SessionInit => IInv
<1> SUFFICES ASSUME SessionInit
             PROVE  IInv
  OBVIOUS
<1>1. Init /\ accepted = FALSE /\ granted = {} /\ received = {} /\ published = 0
  BY DEF SessionInit
<1>2. TypeOK
  <2>1. 1 \in Ids /\ DOMAIN NoEntries = {} /\ Range(NoEntries) = {}
    BY IdAssumption DEF Ids, NoEntries, Range
  <2>2. subState \in [Filters -> SubStates]
    BY <1>1 DEF Init, SubStates
  <2> QED BY <1>1, <2>1, <2>2 DEF Init, TypeOK, Errors
<1>3. Queues /\ Once
  BY <1>1, NothingUnderWay DEF Init, Queues, Once
<1>4. Subscribing /\ Publishing /\ Handshake
  BY <1>1, NothingUnderWay DEF Init, Subscribing, Publishing, Handshake, NoEntries
<1>5. Pinging /\ SubscriptionsAgree /\ SentWasReceived
  BY <1>1 DEF Init, Pinging, SubscriptionsAgree, SentWasReceived
<1> QED BY <1>2, <1>3, <1>4, <1>5 DEF IInv

LEMMA SessionSteps == IInv /\ [Next]_vars => IInv'
<1> SUFFICES ASSUME IInv, [Next]_vars
             PROVE  IInv'
  OBVIOUS
<1>1. CASE ProgramConnects
  BY <1>1, Connects
<1>2. CASE ProgramPublishes
  BY <1>2, Publishes
<1>3. CASE SocketOpens
  BY <1>3, Opens
<1>4. CASE ClientReads
  <2>1. Connected \/ Rejected \/ SubAck \/ PubAck \/ PingResp
    BY <1>4 DEF ClientReads
  <2>2. UNCHANGED <<brokerVars, published>>
    BY <1>4 DEF ClientReads
  <2> QED BY <2>1, <2>2, GetsConnected, Refused, ReadsSubAck, ReadsPubAck, ReadsPingResp
<1>5. CASE PingTimerExpires
  BY <1>5, Pinged, GivesUp DEF PingTimerExpires
<1>6. CASE ConnectionLost
  BY <1>6, Loses
<1>7. CASE BrokerReads
  BY <1>7, AnswersConnect, AnswersSubscribe, TakesPublication, AnswersPing DEF BrokerReads
<1>8. CASE BrokerFallsSilent
  BY <1>8, FallsSilent
<1>9. CASE BrokerRestarts
  BY <1>9, Restarts
<1>10. CASE UNCHANGED vars
  <2>1. UNCHANGED <<clientVars, accepted, granted, received, published>>
    BY <1>10 DEF vars, brokerVars
  <2>2. Once' /\ Pinging'
    BY <2>1 DEF IInv, Once, Pinging, PingsUnderWay, Pings, PingReq, Carrying, Requests, Answers,
                clientVars
  <2>3. TypeOK' /\ Queues' /\ Subscribing' /\ Publishing'
    BY <2>1 DEF IInv, TypeOK, Queues, Subscribing, Publishing, clientVars, subVars, pubVars
  <2>4. Handshake' /\ SubscriptionsAgree' /\ SentWasReceived'
    BY <2>1 DEF IInv, Handshake, SubscriptionsAgree, SentWasReceived, clientVars, subVars, pubVars
  <2> QED BY <2>2, <2>3, <2>4 DEF IInv
<1> QED BY <1>1, <1>2, <1>3, <1>4, <1>5, <1>6, <1>7, <1>8, <1>9, <1>10 DEF Next

LEMMA SessionInvariant == Spec => []IInv
BY SessionStarts, SessionSteps, PTL DEF Spec

\* For any filters, any number of identifiers and any bounds the client's two
\* states, its socket and its tables of what is pending stay consistent:
\* QMqttConnection's state machine of internal states and handlers.
THEOREM SessionTyped == Spec => []TypeOK
<1>1. IInv => TypeOK
  BY DEF IInv
<1> QED BY <1>1, SessionInvariant, PTL

\* Over any number of reconnections, refusals and losses a subscription that
\* the client counts as made is served by the broker, and one that the broker
\* serves is known or its SUBACK is still to be read.
THEOREM SubscriptionsServed == Spec => []SubscriptionsAgree
<1>1. IInv => SubscriptionsAgree
  BY DEF IInv
<1> QED BY <1>1, SessionInvariant, PTL

\* messageSent is only emitted for publications that the broker has got,
\* however often identifiers come round again: for any number of identifiers.
THEOREM NoFalseAcknowledgement == Spec => []SentWasReceived
<1>1. IInv => SentWasReceived
  BY DEF IInv
<1> QED BY <1>1, SessionInvariant, PTL

\* The keep alive raises ServerUnavailable only when the broker is silent,
\* because the count of unanswered pings is that of the pings on their way.
THEOREM KeepAliveIsRight == Spec => AlarmsAreTrue
<1>1. IInv /\ [Next]_vars =>
         [error' = "ServerUnavailable" /\ error # "ServerUnavailable" => silent]_vars
  <2> SUFFICES ASSUME IInv, Next, error' = "ServerUnavailable", error # "ServerUnavailable"
               PROVE  silent
    OBVIOUS
  <2>1. GiveUp /\ PingTimerExpires
    BY DEF Next, ProgramConnects, ConnectToHost, ProgramPublishes, PublishMessage,
           SocketOpens, SendConnect, ClientReads, Connected, Rejected, SubAck, PubAck, PingResp,
           PingTimerExpires, Ping, ConnectionLost, TransportError, CloseConnection,
           SetStateAndError, BrokerReads, BrokerAnswersConnect, BrokerAnswersSubscribe,
           BrokerTakesPublication, BrokerAnswersPing, BrokerTakes, BrokerFallsSilent,
           BrokerRestarts, clientVars
  <2>2. pingTimeout > 1 /\ internal = "BrokerConnected" /\ (silent \/ PingsUnderWay <= 1)
    BY <2>1 DEF GiveUp, PingTimerExpires
  <2> QED BY <2>2 DEF IInv, Pinging, TypeOK
<1> QED BY <1>1, SessionInvariant, PTL DEF Spec, AlarmsAreTrue

=============================================================================
