-------------------------- MODULE ConsoleServer_proofs --------------------------
(***************************************************************************)
(* What holds of ConsoleServer for every set of models, whatever is gone   *)
(* or locked, and any number of fetches: of any page first, then of the    *)
(* answers to an orderly one.                                              *)
(***************************************************************************)
EXTENDS ConsoleServer, FiniteSetTheorems, TLAPS

-----------------------------------------------------------------------------
(* The invariants. *)

Commands == [type : {"T"}, param : Nat] \cup [type : {"U"}, param : Models]

Fetches == [command : Commands, result : Models \cup {"404", "ok", "pending", "failed"}]

Written == Models \cup {"404", "ok"}

Sockets ==
    [fetch : Nat, method : {"OPTIONS", "POST"},
     state : {"arriving", "open", "closed", "deleted"}, address : Nat,
     unread : BOOLEAN, whole : BOOLEAN, answered : BOOLEAN, peerClosed : BOOLEAN,
     out : Seq(Written), closing : BOOLEAN, onWritten : BOOLEAN]

Texts == [type : {"progress"}, current : Nat, total : Nat]
             \cup [type : {"history"}, model : Models]

Typed == /\ sockets \in Seq(Sockets)
         /\ \A s \in DOMAIN sockets : sockets[s].fetch \in DOMAIN fetches
         /\ m_currentClientForDownload \in Nat
         /\ m_currentModelPath \subseteq Models
         /\ lastCommand \subseteq Commands
         /\ m_currentStep \in Nat /\ m_totalSteps \in Nat
         /\ fetches \in Seq(Fetches)
         /\ records \subseteq Models
         /\ wsQueue \in Seq(Texts)
         /\ orderly \in BOOLEAN

-----------------------------------------------------------------------------
(* What the helpers do to the sockets. *)

Live(x) == x.state \in {"open", "closed"}

\* y is the connection x, perhaps deleted.
SameOrDeleted(x, y) == y = x \/ (Live(x) /\ y = [x EXCEPT !.state = "deleted"])

\* A deletion concerns no more than the state of sockets that exist.
LEMMA Deletes ==
    ASSUME NEW socks \in Seq(Sockets), NEW s, handleDisconnected(s, socks)
    PROVE  /\ sockets' \in Seq(Sockets)
           /\ DOMAIN sockets' = DOMAIN socks
           /\ \A t \in DOMAIN socks : SameOrDeleted(socks[t], sockets'[t])
<1>1. sockets' = [t \in DOMAIN socks |->
                     IF t \in ObjectsAt(clientSocket, socks)
                     THEN [socks[t] EXCEPT !.state = "deleted"] ELSE socks[t]]
  BY DEF handleDisconnected
<1>2. \A t \in ObjectsAt(clientSocket, socks) : t \in DOMAIN socks /\ Live(socks[t])
  BY DEF ObjectsAt, Live
<1>3. \A t \in DOMAIN socks : socks[t] \in Sockets
  OBVIOUS
<1>4. \A t \in DOMAIN socks : SameOrDeleted(socks[t], sockets'[t])
  BY <1>1, <1>2 DEF SameOrDeleted
<1>5. \A t \in DOMAIN socks : sockets'[t] \in Sockets
  BY <1>3, <1>4, ZenonT(60) DEF SameOrDeleted, Sockets
<1>6. sockets' = [t \in 1..Len(socks) |-> sockets'[t]] /\ DOMAIN socks = 1..Len(socks)
  BY <1>1
<1> QED
  BY <1>4, <1>5, <1>6

\* A connection that is closed holds nothing to be written.
LEMMA ClosedType ==
    ASSUME NEW socks \in Seq(Sockets), NEW s \in DOMAIN socks
    PROVE  /\ Closed(s, socks) \in Seq(Sockets)
           /\ DOMAIN Closed(s, socks) = DOMAIN socks
           /\ \A t \in DOMAIN socks : t # s => Closed(s, socks)[t] = socks[t]
           /\ Closed(s, socks)[s] = [socks[s] EXCEPT !.state = "closed", !.out = << >>]
<1>1. Closed(s, socks) = [socks EXCEPT ![s] = [socks[s] EXCEPT !.state = "closed", !.out = << >>]]
  BY DEF Closed
<1>2. socks[s] \in Sockets
  OBVIOUS
<1>3. [socks[s] EXCEPT !.state = "closed", !.out = << >>] \in Sockets
  <2>1. << >> \in Seq(Written)
    OBVIOUS
  <2>2. [socks[s] EXCEPT !.state = "closed"] \in Sockets
    BY <1>2 DEF Sockets
  <2> QED
    BY <2>1, <2>2 DEF Sockets
<1> QED
  BY <1>1, <1>3

Answered(x, answer, onWritten) ==
    [x EXCEPT !.out = Append(@, answer), !.onWritten = @ \/ onWritten, !.closing = ~onWritten]

\* y is the connection x, perhaps with an answer for which the pointer stood.
SameOrAnswered(x, y, answer, onWritten) ==
    \/ y = x
    \/ /\ x.state = "open" /\ x.address = m_currentClientForDownload
       /\ y = Answered(x, answer, onWritten)

\* An answer goes to the socket the pointer leads to, or nowhere.
LEMMA AnswersGo ==
    ASSUME NEW socks \in Seq(Sockets), NEW answer \in Written, NEW onWritten \in BOOLEAN,
           Writes(answer, socks, onWritten)
    PROVE  /\ sockets' \in Seq(Sockets)
           /\ DOMAIN sockets' = DOMAIN socks
           /\ \A t \in DOMAIN socks : SameOrAnswered(socks[t], sockets'[t], answer, onWritten)
<1> DEFINE writable(t) == /\ t \in ObjectsAt(m_currentClientForDownload, socks)
                          /\ socks[t].state = "open" /\ ~socks[t].closing
<1>1. sockets' = [t \in DOMAIN socks |->
                     IF writable(t) THEN Answered(socks[t], answer, onWritten) ELSE socks[t]]
  BY DEF Writes, Answered
<1>2. \A t \in DOMAIN socks : socks[t] \in Sockets
  OBVIOUS
<1>3. \A x \in Sockets : Answered(x, answer, onWritten) \in Sockets
  <2> SUFFICES ASSUME NEW x \in Sockets
               PROVE  Answered(x, answer, onWritten) \in Sockets
    OBVIOUS
  <2>1. Append(x.out, answer) \in Seq(Written)
    BY DEF Sockets
  <2>2. (x.onWritten \/ onWritten) \in BOOLEAN /\ (~onWritten) \in BOOLEAN
    OBVIOUS
  <2> QED
    BY <2>1, <2>2 DEF Sockets, Answered
<1>4. \A t \in DOMAIN socks : SameOrAnswered(socks[t], sockets'[t], answer, onWritten)
  BY <1>1 DEF SameOrAnswered, ObjectsAt
<1>5. \A t \in DOMAIN socks : sockets'[t] \in Sockets
  BY <1>2, <1>3, <1>4 DEF SameOrAnswered
<1>6. sockets' = [t \in 1..Len(socks) |-> sockets'[t]] /\ DOMAIN socks = 1..Len(socks)
  BY <1>1
<1> QED
  BY <1>4, <1>5, <1>6

\* The connection the browser opens for a fetch.
LEMMA NewSocketType ==
    ASSUME NEW r \in Nat, NEW method \in {"OPTIONS", "POST"}
    PROVE  NewSocket(r, method) \in Sockets
<1>1. << >> \in Seq(Written)
  OBVIOUS
<1> QED
  BY <1>1 DEF NewSocket, Sockets, nullptr

-----------------------------------------------------------------------------
(* What the actions do to the sockets. *)

ClosedSocket(x) == [x EXCEPT !.state = "closed", !.out = << >>]
Read(x, split) == [x EXCEPT !.unread = FALSE, !.whole = ~split]
Sent(x) == [x EXCEPT !.out = << >>, !.answered = TRUE]

\* BytesWritten has answered a preflight: its command follows.
AnswersPreflight(s) == sockets[s].method = "OPTIONS" /\ ~sockets[s].answered

SameConnection(x, y) == /\ y.address = x.address /\ y.fetch = x.fetch
                        /\ y.state = "arriving" <=> x.state = "arriving"

\* What is sent or closed stays the same connection.
LEMMA SentType ==
    ASSUME NEW x \in Sockets
    PROVE  /\ Sent(x) \in Sockets /\ SameConnection(x, Sent(x))
           /\ x.state = "open" => /\ ClosedSocket(x) \in Sockets
                                  /\ SameConnection(x, ClosedSocket(x))
<1>1. << >> \in Seq(Written)
  OBVIOUS
<1>2. [x EXCEPT !.answered = TRUE] \in Sockets /\ [x EXCEPT !.state = "closed"] \in Sockets
  BY DEF Sockets
<1>3. Sent(x) = [[x EXCEPT !.answered = TRUE] EXCEPT !.out = << >>]
  BY DEF Sent, Sockets
<1>4. ClosedSocket(x) = [[x EXCEPT !.state = "closed"] EXCEPT !.out = << >>]
  BY DEF ClosedSocket, Sockets
<1>5. Sent(x) \in Sockets /\ ClosedSocket(x) \in Sockets
  BY <1>1, <1>2, <1>3, <1>4 DEF Sockets
<1>6. SameConnection(x, Sent(x))
  BY DEF Sent, Sockets, SameConnection
<1>7. x.state = "open" => SameConnection(x, ClosedSocket(x))
  BY DEF ClosedSocket, Sockets, SameConnection
<1> QED
  BY <1>5, <1>6, <1>7

\* What is read stays the same connection.
LEMMA ReadType ==
    ASSUME NEW x \in Sockets, NEW split \in BOOLEAN
    PROVE  /\ Read(x, split) \in Sockets /\ SameConnection(x, Read(x, split))
           /\ Read(x, split).method = x.method /\ Read(x, split).state = x.state
           /\ Read(x, split).out = x.out /\ ~Read(x, split).unread
           /\ Read(x, split).whole <=> ~split
<1>1. (~split) \in BOOLEAN
  OBVIOUS
<1>2. [x EXCEPT !.unread = FALSE] \in Sockets
  BY DEF Sockets
<1>3. Read(x, split) = [[x EXCEPT !.unread = FALSE] EXCEPT !.whole = ~split]
  BY DEF Read, Sockets
<1>4. Read(x, split) \in Sockets
  BY <1>1, <1>2, <1>3 DEF Sockets
<1>5. SameConnection(x, Read(x, split))
  BY DEF Read, Sockets, SameConnection
<1>6. /\ Read(x, split).method = x.method /\ Read(x, split).state = x.state
      /\ Read(x, split).out = x.out /\ ~Read(x, split).unread
      /\ Read(x, split).whole <=> ~split
  BY DEF Read, Sockets
<1> QED
  BY <1>4, <1>5, <1>6

\* A read of a command may have an answer written.
LEMMA ReadPostSockets ==
    ASSUME Typed, NEW s \in DOMAIN sockets, NEW split \in BOOLEAN, ReadPost(s, split)
    PROVE  /\ sockets' \in Seq(Sockets)
           /\ DOMAIN sockets' = DOMAIN sockets
           /\ [sockets EXCEPT ![s].unread = FALSE, ![s].whole = ~split] \in Seq(Sockets)
           /\ \A t \in DOMAIN sockets :
                 [sockets EXCEPT ![s].unread = FALSE, ![s].whole = ~split][t] = IF t = s THEN Read(sockets[t], split)
                                                                    ELSE sockets[t]
           /\ lastCommand' \subseteq Commands
           /\ m_currentModelPath' \subseteq Models
           /\ \/ sockets' = [sockets EXCEPT ![s].unread = FALSE, ![s].whole = ~split]
              \/ \E answer \in Answers, onWritten \in BOOLEAN :
                    \A t \in DOMAIN sockets :
                       SameOrAnswered(IF t = s THEN Read(sockets[t], split) ELSE sockets[t],
                                      sockets'[t], answer, onWritten)
<1> DEFINE socks == [sockets EXCEPT ![s].unread = FALSE, ![s].whole = ~split]
<1>1. \A t \in DOMAIN sockets : socks[t] = IF t = s THEN Read(sockets[t], split) ELSE sockets[t]
  BY DEF Read
<1>2. socks \in Seq(Sockets) /\ DOMAIN socks = DOMAIN sockets
  <2>1. sockets \in Seq(Sockets) /\ sockets[s] \in Sockets
    BY DEF Typed
  <2>2. Read(sockets[s], split) \in Sockets
    BY <2>1, ReadType
  <2>3. socks = [sockets EXCEPT ![s] = Read(sockets[s], split)]
    BY <2>1 DEF Read
  <2> HIDE DEF socks
  <2> QED
    BY <2>1, <2>2, <2>3
<1>3. lastCommand' \subseteq Commands
  <2>1. sockets[s].fetch \in DOMAIN fetches /\ fetches \in Seq(Fetches)
    BY DEF Typed
  <2>2. fetches[sockets[s].fetch] \in Fetches
    BY <2>1
  <2>3. fetches[sockets[s].fetch].command \in Commands
    BY <2>2 DEF Fetches
  <2> QED
    BY <2>3 DEF ReadPost, Typed
<1>4. CASE lastCommand' = {}
  BY <1>1, <1>2, <1>3, <1>4 DEF ReadPost, Typed
<1>5. ASSUME NEW cmd \in lastCommand', cmd.type = "T", HandleTrain(cmd.param, socks)
      PROVE  sockets' = socks /\ m_currentModelPath' \subseteq Models
  BY <1>5 DEF HandleTrain, Typed
<1>6. ASSUME NEW cmd \in lastCommand', cmd.type # "T", HandleDownload(cmd.param, socks)
      PROVE  /\ m_currentModelPath' \subseteq Models
             /\ \E answer \in Answers, onWritten \in BOOLEAN : Writes(answer, socks, onWritten)
  <2>1. cmd.param \in Models /\ m_currentModelPath \subseteq Models
    BY <1>3, <1>6 DEF Commands, Typed
  <2>2. m_currentModelPath' \subseteq Models
    BY <1>6, <2>1 DEF HandleDownload, ModelPathAfter
  <2>3. \/ Writes("404", socks, FALSE)
        \/ \E file \in m_currentModelPath' :
              Writes(IF file \in Unreadable THEN "404" ELSE file, socks, file \notin Unreadable)
    BY <1>6 DEF HandleDownload
  <2> QED
    BY <2>2, <2>3 DEF Answers
<1>7. CASE lastCommand' # {}
  <2>1. PICK cmd \in lastCommand' : IF cmd.type = "T" THEN HandleTrain(cmd.param, socks)
                                                      ELSE HandleDownload(cmd.param, socks)
    BY <1>7 DEF ReadPost
  <2>2. CASE cmd.type = "T"
    BY <1>1, <1>2, <1>3, <1>5, <2>1, <2>2
  <2>3. CASE cmd.type # "T"
    <3>1. m_currentModelPath' \subseteq Models
      BY <1>6, <2>1, <2>3
    <3>2. PICK answer \in Answers, onWritten \in BOOLEAN : Writes(answer, socks, onWritten)
      BY <1>6, <2>1, <2>3
    <3>3. /\ sockets' \in Seq(Sockets) /\ DOMAIN sockets' = DOMAIN socks
          /\ \A t \in DOMAIN socks : SameOrAnswered(socks[t], sockets'[t], answer, onWritten)
      BY <1>2, <3>2, AnswersGo DEF Answers, Written
    <3> QED
      BY <1>1, <1>2, <1>3, <3>1, <3>3
  <2> QED
    BY <2>2, <2>3
<1> QED
  BY <1>4, <1>7

\* The sending of what is written to s.
LEMMA BytesWrittenSockets ==
    ASSUME Typed, NEW s \in DOMAIN sockets, BytesWritten(s)
    PROVE  /\ sockets' \in Seq(Sockets)
           /\ IF AnswersPreflight(s)
              THEN /\ Len(sockets') = Len(sockets) + 1
                   /\ sockets'[Len(sockets) + 1] = NewSocket(sockets[s].fetch, "POST")
              ELSE Len(sockets') = Len(sockets)
           /\ \A t \in DOMAIN sockets : t # s => SameOrDeleted(sockets[t], sockets'[t])
           /\ IF sockets[s].onWritten \/ sockets[s].closing
              THEN SameOrDeleted(ClosedSocket(Sent(sockets[s])), sockets'[s])
              ELSE sockets'[s] = Sent(sockets[s]) /\ UNCHANGED crashed
<1> DEFINE sent  == [sockets EXCEPT ![s].out = << >>, ![s].answered = TRUE]
           post  == NewSocket(sockets[s].fetch, "POST")
           socks == IF AnswersPreflight(s) THEN Append(sent, post) ELSE sent
<1>1. sockets \in Seq(Sockets) /\ sockets[s] \in Sockets /\ DOMAIN sockets = 1..Len(sockets)
  BY DEF Typed
<1>2. Sent(sockets[s]) \in Sockets
  BY <1>1, SentType
<1>3. sent = [sockets EXCEPT ![s] = Sent(sockets[s])]
  BY <1>1 DEF Sent
<1>4. /\ sent \in Seq(Sockets) /\ Len(sent) = Len(sockets)
      /\ sent[s] = Sent(sockets[s])
      /\ \A t \in DOMAIN sockets : t # s => sent[t] = sockets[t]
  BY <1>1, <1>2, <1>3
<1>5. post \in Sockets
  BY <1>1, NewSocketType DEF Sockets
<1>6. /\ socks \in Seq(Sockets)
      /\ IF AnswersPreflight(s)
         THEN Len(socks) = Len(sockets) + 1 /\ socks[Len(sockets) + 1] = post
         ELSE Len(socks) = Len(sockets)
      /\ socks[s] = Sent(sockets[s])
      /\ \A t \in DOMAIN sockets : t # s => socks[t] = sockets[t]
  BY <1>1, <1>4, <1>5
<1>7. IF sockets[s].onWritten \/ sockets[s].closing
      THEN handleDisconnected(s, Closed(s, socks))
      ELSE sockets' = socks /\ UNCHANGED crashed
  BY DEF BytesWritten, AnswersPreflight
<1> HIDE DEF socks, sent
<1>8. CASE ~(sockets[s].onWritten \/ sockets[s].closing)
  BY <1>6, <1>7, <1>8 DEF SameOrDeleted
<1>9. CASE sockets[s].onWritten \/ sockets[s].closing
  <2>1. s \in DOMAIN socks /\ DOMAIN socks = 1..Len(socks)
    BY <1>1, <1>6
  <2>2. /\ Closed(s, socks) \in Seq(Sockets) /\ DOMAIN Closed(s, socks) = DOMAIN socks
        /\ \A t \in DOMAIN socks : t # s => Closed(s, socks)[t] = socks[t]
        /\ Closed(s, socks)[s] = ClosedSocket(socks[s])
    BY <1>6, <2>1, ClosedType DEF ClosedSocket
  <2>3. handleDisconnected(s, Closed(s, socks))
    BY <1>7, <1>9
  <2>4. /\ sockets' \in Seq(Sockets) /\ DOMAIN sockets' = DOMAIN socks
        /\ \A t \in DOMAIN socks : SameOrDeleted(Closed(s, socks)[t], sockets'[t])
    BY <2>2, <2>3, Deletes
  <2>5. Len(sockets') = Len(socks)
    BY <1>6, <2>4
  <2>6. AnswersPreflight(s) => sockets'[Len(sockets) + 1] = post
    <3> SUFFICES ASSUME AnswersPreflight(s)
                 PROVE  sockets'[Len(sockets) + 1] = post
      OBVIOUS
    <3>1. Len(sockets) + 1 \in DOMAIN socks /\ Len(sockets) + 1 # s
      BY <1>1, <1>6, <2>1
    <3>2. Closed(s, socks)[Len(sockets) + 1] = post
      BY <1>6, <2>2, <3>1
    <3>3. ~Live(post)
      BY DEF NewSocket, Live
    <3> QED
      BY <2>4, <3>1, <3>2, <3>3 DEF SameOrDeleted
  <2>7. \A t \in DOMAIN sockets : t # s => SameOrDeleted(sockets[t], sockets'[t])
    <3> SUFFICES ASSUME NEW t \in DOMAIN sockets, t # s
                 PROVE  SameOrDeleted(sockets[t], sockets'[t])
      OBVIOUS
    <3>1. Len(sockets) \in Nat /\ t \in 1..Len(sockets)
      BY <1>1
    <3>2. Len(socks) = Len(sockets) \/ Len(socks) = Len(sockets) + 1
      BY <1>6
    <3>3. t \in 1..Len(socks)
      BY <3>1, <3>2
    <3>4. t \in DOMAIN socks
      BY <2>1, <3>3
    <3>5. Closed(s, socks)[t] = sockets[t]
      BY <1>6, <2>2, <3>4
    <3> QED
      BY <2>2, <2>4, <3>4, <3>5
  <2>8. SameOrDeleted(ClosedSocket(Sent(sockets[s])), sockets'[s])
    BY <1>6, <2>1, <2>2, <2>4
  <2> QED
    BY <1>6, <1>9, <2>4, <2>5, <2>6, <2>7, <2>8
<1> QED
  BY <1>8, <1>9

\* The page's next fetch.
LEMMA FetchSockets ==
    ASSUME Typed, NEW cmd \in Commands, NEW preflight \in BOOLEAN, PageFetches(cmd, preflight)
    PROVE  /\ sockets' \in Seq(Sockets) /\ Len(sockets') = Len(sockets) + 1
           /\ \A t \in DOMAIN sockets : sockets'[t] = sockets[t]
           /\ sockets'[Len(sockets) + 1] =
                 NewSocket(Len(fetches) + 1, IF preflight THEN "OPTIONS" ELSE "POST")
           /\ fetches' \in Seq(Fetches) /\ Len(fetches') = Len(fetches) + 1
           /\ \A r \in DOMAIN fetches : fetches'[r] = fetches[r]
           /\ fetches'[Len(fetches) + 1] = [command |-> cmd, result |-> "pending"]
<1>1. sockets \in Seq(Sockets) /\ fetches \in Seq(Fetches)
  BY DEF Typed
<1>2. NewSocket(Len(fetches) + 1, IF preflight THEN "OPTIONS" ELSE "POST") \in Sockets
  BY <1>1, NewSocketType
<1>3. [command |-> cmd, result |-> "pending"] \in Fetches
  BY DEF Fetches
<1> QED
  BY <1>1, <1>2, <1>3 DEF PageFetches

-----------------------------------------------------------------------------
(* Types and addresses. *)

Addresses == {sockets[s].address : s \in DOMAIN sockets} \ {nullptr}

\* The addresses in use are the first ones, and who has arrived has one.
AddressesUsed == /\ \E n \in Nat : Addresses = 1..n
                 /\ \A s \in DOMAIN sockets :
                       sockets[s].state = "arriving" <=> sockets[s].address = nullptr

\* Connections stay what they are, and new ones have no object yet.
KeepsConnections ==
    /\ sockets' \in Seq(Sockets) /\ Len(sockets') >= Len(sockets)
    /\ \A t \in DOMAIN sockets : SameConnection(sockets[t], sockets'[t])
    /\ \A t \in DOMAIN sockets' :
          t \notin DOMAIN sockets => /\ sockets'[t].address = nullptr
                                     /\ sockets'[t].state = "arriving"
                                     /\ sockets'[t].fetch \in DOMAIN fetches'

\* A new object gets an address at which no other one lives.
LEMMA FreeAddress ==
    ASSUME Typed, AddressesUsed, NEW a \in FreeAddresses
    PROVE  /\ a \in Nat /\ a # nullptr
           /\ \A s \in DOMAIN sockets : Live(sockets[s]) => sockets[s].address # a
           /\ \E n \in Nat : Addresses \cup {a} = 1..n
<1>1. PICK n \in Nat : Addresses = 1..n
  BY DEF AddressesUsed
<1>2. Cardinality(Addresses) = n
  BY <1>1, FS_Interval
<1>3. FreeAddresses = {b \in Addresses : ObjectsAt(b, sockets) = {}} \cup {n + 1}
  BY <1>2 DEF FreeAddresses, Addresses
<1>4. a \in 1..(n + 1)
  BY <1>1, <1>3
<1>5. \A s \in DOMAIN sockets : sockets[s].address = nullptr \/ sockets[s].address \in 1..n
  BY <1>1 DEF Addresses
<1>6. \A s \in DOMAIN sockets : Live(sockets[s]) => sockets[s].address # a
  <2> SUFFICES ASSUME NEW s \in DOMAIN sockets, Live(sockets[s]), sockets[s].address = a
               PROVE  FALSE
    OBVIOUS
  <2>1. a # n + 1
    BY <1>4, <1>5 DEF nullptr
  <2>2. ObjectsAt(a, sockets) = {}
    BY <1>3, <2>1
  <2> QED
    BY <2>2 DEF ObjectsAt, Live
<1>7. Addresses \cup {a} = 1..n \/ Addresses \cup {a} = 1..(n + 1)
  BY <1>1, <1>4
<1> QED
  BY <1>4, <1>6, <1>7 DEF nullptr

\* No address is lost or gained but by an accepted connection.
LEMMA KeptConnections ==
    ASSUME Typed, AddressesUsed, KeepsConnections, DOMAIN fetches \subseteq DOMAIN fetches'
    PROVE  /\ AddressesUsed'
           /\ \A s \in DOMAIN sockets' : sockets'[s].fetch \in DOMAIN fetches'
<1>1. sockets \in Seq(Sockets) /\ DOMAIN sockets = 1..Len(sockets) /\ Len(sockets) \in Nat
  BY DEF Typed
<1>2. sockets' \in Seq(Sockets) /\ DOMAIN sockets' = 1..Len(sockets') /\ Len(sockets') \in Nat
  BY DEF KeepsConnections
<1>3. DOMAIN sockets \subseteq DOMAIN sockets'
  BY <1>1, <1>2 DEF KeepsConnections
<1>4. Addresses' = Addresses
  BY <1>3 DEF KeepsConnections, Addresses, SameConnection
<1>5. \A s \in DOMAIN sockets' :
         /\ sockets'[s].state = "arriving" <=> sockets'[s].address = nullptr
         /\ sockets'[s].fetch \in DOMAIN fetches'
  BY <1>3 DEF KeepsConnections, AddressesUsed, SameConnection, Typed
<1> QED
  BY <1>4, <1>5 DEF AddressesUsed

\* One connection changes.
LEMMA OneTouched ==
    ASSUME Typed, NEW s \in DOMAIN sockets, NEW y \in Sockets,
           sockets' = [sockets EXCEPT ![s] = y]
    PROVE  /\ sockets' \in Seq(Sockets) /\ DOMAIN sockets' = DOMAIN sockets
           /\ sockets'[s] = y
           /\ \A t \in DOMAIN sockets : t # s => sockets'[t] = sockets[t]
           /\ SameConnection(sockets[s], y) => KeepsConnections
<1>1. sockets \in Seq(Sockets)
  BY DEF Typed
<1>2. sockets' \in Seq(Sockets) /\ DOMAIN sockets' = DOMAIN sockets /\ Len(sockets') = Len(sockets)
  BY <1>1
<1> QED
  BY <1>1, <1>2 DEF KeepsConnections, SameConnection

\* The same number of connections, each still the same.
LEMMA AllKept ==
    ASSUME Typed, sockets' \in Seq(Sockets), DOMAIN sockets' = DOMAIN sockets,
           \A t \in DOMAIN sockets : SameConnection(sockets[t], sockets'[t])
    PROVE  KeepsConnections
<1>1. sockets \in Seq(Sockets)
  BY DEF Typed
<1>2. Len(sockets') = Len(sockets) /\ Len(sockets) \in Nat
  BY <1>1
<1> QED
  BY <1>2 DEF KeepsConnections

\* Every deletion and every answer keeps address and fetch.
LEMMA FieldsKept ==
    ASSUME NEW x \in Sockets, NEW y
    PROVE  /\ SameOrDeleted(x, y) =>
                 /\ y.address = x.address /\ y.fetch = x.fetch /\ y.method = x.method
                 /\ y.unread = x.unread /\ y.answered = x.answered /\ y.out = x.out
                 /\ y.peerClosed = x.peerClosed /\ y.onWritten = x.onWritten
                 /\ y.whole = x.whole
                 /\ y.state = x.state \/ y.state = "deleted"
                 /\ Live(y) => Live(x)
                 /\ y.state = "arriving" <=> x.state = "arriving"
           /\ \A answer, onWritten : SameOrAnswered(x, y, answer, onWritten) =>
                 /\ y.address = x.address /\ y.fetch = x.fetch /\ y.method = x.method
                 /\ y.unread = x.unread /\ y.answered = x.answered
                 /\ y.peerClosed = x.peerClosed /\ y.state = x.state /\ y.whole = x.whole
<1>1. /\ [x EXCEPT !.state = "deleted"].address = x.address
      /\ [x EXCEPT !.state = "deleted"].fetch = x.fetch
      /\ [x EXCEPT !.state = "deleted"].method = x.method
      /\ [x EXCEPT !.state = "deleted"].unread = x.unread
      /\ [x EXCEPT !.state = "deleted"].answered = x.answered
      /\ [x EXCEPT !.state = "deleted"].out = x.out
      /\ [x EXCEPT !.state = "deleted"].peerClosed = x.peerClosed
      /\ [x EXCEPT !.state = "deleted"].onWritten = x.onWritten
      /\ [x EXCEPT !.state = "deleted"].whole = x.whole
      /\ [x EXCEPT !.state = "deleted"].state = "deleted"
  BY DEF Sockets
<1>2. \A answer, onWritten :
         /\ Answered(x, answer, onWritten).address = x.address
         /\ Answered(x, answer, onWritten).fetch = x.fetch
         /\ Answered(x, answer, onWritten).method = x.method
         /\ Answered(x, answer, onWritten).unread = x.unread
         /\ Answered(x, answer, onWritten).answered = x.answered
         /\ Answered(x, answer, onWritten).peerClosed = x.peerClosed
         /\ Answered(x, answer, onWritten).whole = x.whole
         /\ Answered(x, answer, onWritten).state = x.state
  BY DEF Answered, Sockets
<1>3. ASSUME SameOrDeleted(x, y), y # x
      PROVE  Live(x) /\ y = [x EXCEPT !.state = "deleted"]
  BY <1>3 DEF SameOrDeleted
<1>4. ASSUME NEW answer, NEW onWritten, SameOrAnswered(x, y, answer, onWritten), y # x
      PROVE  y = Answered(x, answer, onWritten)
  BY <1>4 DEF SameOrAnswered
<1>5. ASSUME SameOrDeleted(x, y), y # x
      PROVE  x.state # "arriving" /\ y.state = "deleted" /\ ~Live(y)
  BY <1>1, <1>3, <1>5 DEF Live
<1>6. ASSUME SameOrDeleted(x, y)
      PROVE  /\ y.address = x.address /\ y.fetch = x.fetch /\ y.method = x.method
             /\ y.unread = x.unread /\ y.answered = x.answered /\ y.out = x.out
             /\ y.peerClosed = x.peerClosed /\ y.onWritten = x.onWritten
             /\ y.whole = x.whole
             /\ y.state = x.state \/ y.state = "deleted"
  BY <1>1, <1>3, <1>6
<1>7. ASSUME NEW answer, NEW onWritten, SameOrAnswered(x, y, answer, onWritten)
      PROVE  /\ y.address = x.address /\ y.fetch = x.fetch /\ y.method = x.method
             /\ y.unread = x.unread /\ y.answered = x.answered
             /\ y.peerClosed = x.peerClosed /\ y.state = x.state /\ y.whole = x.whole
  BY <1>2, <1>4, <1>7
<1>8. ASSUME SameOrDeleted(x, y)
      PROVE  (Live(y) => Live(x)) /\ (y.state = "arriving" <=> x.state = "arriving")
  BY <1>5, <1>8
<1> QED
  BY <1>6, <1>7, <1>8

httpKept == UNCHANGED <<sockets, m_currentClientForDownload, m_currentModelPath, lastCommand>>

\* What the WebSocket does to the types.
LEMMA TypedWebSocket ==
    ASSUME Typed, AddressesUsed, httpKept,
           \/ WebSocketConnects \/ WebSocketCloses \/ incrementProgress \/ PageReceives
           \/ \E m \in Models : addHistoryEntry(m)
    PROVE  Typed' /\ AddressesUsed'
<1>1. AddressesUsed'
  BY DEF AddressesUsed, Addresses, httpKept
<1>2. wsQueue \in Seq(Texts) /\ m_currentStep \in Nat /\ m_totalSteps \in Nat
  BY DEF Typed
<1>3. \A i \in Nat, j \in Nat : Progress(i, j) \in Texts
  BY DEF Progress, Texts
<1>4. \A m \in Models : [type |-> "history", model |-> m] \in Texts
  BY DEF Texts
<1>5. CASE WebSocketConnects
  <2>1. wsQueue' \in Seq(Texts)
    BY <1>2, <1>3, <1>5 DEF WebSocketConnects
  <2> QED
    BY <1>1, <1>5, <2>1 DEF WebSocketConnects, trainingVars, pageVars, httpKept, Typed
<1>6. CASE WebSocketCloses
  <2>1. wsQueue' \in Seq(Texts)
    BY <1>6 DEF WebSocketCloses
  <2> QED
    BY <1>1, <1>6, <2>1 DEF WebSocketCloses, trainingVars, pageVars, httpKept, Typed
<1>7. CASE incrementProgress
  <2>1. m_currentStep' \in Nat /\ m_totalSteps' \in Nat
    BY <1>2, <1>7 DEF incrementProgress
  <2>2. wsQueue' \in Seq(Texts)
    BY <1>2, <1>3, <1>7, <2>1 DEF incrementProgress, broadcastMessage
  <2> QED
    BY <1>1, <1>7, <2>1, <2>2 DEF incrementProgress, pageVars, httpKept, Typed
<1>8. CASE \E m \in Models : addHistoryEntry(m)
  <2>1. wsQueue' \in Seq(Texts)
    BY <1>2, <1>4, <1>8 DEF addHistoryEntry, broadcastMessage
  <2> QED
    BY <1>1, <1>8, <2>1 DEF addHistoryEntry, pageVars, httpKept, Typed
<1>9. CASE PageReceives
  <2>1. wsQueue' \in Seq(Texts) /\ Head(wsQueue) \in Texts
    BY <1>2, <1>9 DEF PageReceives
  <2>2. records' \subseteq Models
    BY <1>9, <2>1 DEF PageReceives, Texts, Typed
  <2> QED
    BY <1>1, <1>9, <2>1, <2>2 DEF PageReceives, trainingVars, httpKept, Typed
<1> QED
  BY <1>5, <1>6, <1>7, <1>8, <1>9

\* What the page's fetches do to them.
LEMMA TypedFetch ==
    ASSUME Typed, AddressesUsed, NEW preflight \in BOOLEAN,
           PageStartsTraining(preflight) \/ PageDownloads(preflight)
    PROVE  Typed' /\ AddressesUsed'
<1>1. PICK cmd \in Commands : PageFetches(cmd, preflight)
  <2>1. \A n \in Times : TrainCommand(n) \in Commands
    BY ModelsAssumption DEF TrainCommand, Commands
  <2>2. \A m \in records : DownloadCommand(m) \in Commands
    BY DEF DownloadCommand, Commands, Typed
  <2> QED
    BY <2>1, <2>2 DEF PageStartsTraining, PageDownloads
<1>2. sockets \in Seq(Sockets) /\ fetches \in Seq(Fetches)
  BY DEF Typed
<1>3. /\ sockets' \in Seq(Sockets) /\ Len(sockets') = Len(sockets) + 1
      /\ \A t \in DOMAIN sockets : sockets'[t] = sockets[t]
      /\ fetches' \in Seq(Fetches) /\ Len(fetches') = Len(fetches) + 1
  BY <1>1, FetchSockets
<1>4. /\ sockets'[Len(sockets) + 1].address = nullptr
      /\ sockets'[Len(sockets) + 1].fetch = Len(fetches) + 1
      /\ sockets'[Len(sockets) + 1].state = "arriving"
  <2>1. sockets'[Len(sockets) + 1] =
            NewSocket(Len(fetches) + 1, IF preflight THEN "OPTIONS" ELSE "POST")
    BY <1>1, FetchSockets
  <2> QED
    BY <2>1 DEF NewSocket
<1>5. DOMAIN fetches \subseteq DOMAIN fetches' /\ Len(fetches) + 1 \in DOMAIN fetches'
  BY <1>2, <1>3
<1>6. \A t \in DOMAIN sockets' : t \in DOMAIN sockets \/ t = Len(sockets) + 1
  BY <1>2, <1>3
<1>7. KeepsConnections
  BY <1>2, <1>3, <1>4, <1>5, <1>6 DEF KeepsConnections, SameConnection
<1>8. AddressesUsed' /\ \A s \in DOMAIN sockets' : sockets'[s].fetch \in DOMAIN fetches'
  BY <1>5, <1>7, KeptConnections
<1>9. orderly' \in BOOLEAN
  BY <1>1 DEF PageFetches, Typed
<1> QED
  BY <1>1, <1>3, <1>8, <1>9 DEF PageFetches, Typed, trainingVars

\* What the connections do to them.
LEMMA TypedConnection ==
    ASSUME Typed, AddressesUsed, NEW s \in DOMAIN sockets,
           \/ BrowserCloses(s) \/ incomingConnection(s) \/ PeerCloses(s) \/ ReadOptions(s)
    PROVE  Typed' /\ AddressesUsed'
<1>1. sockets \in Seq(Sockets) /\ sockets[s] \in Sockets
  BY DEF Typed
<1>2. CASE BrowserCloses(s)
  <2>1. [sockets[s] EXCEPT !.peerClosed = TRUE] \in Sockets
    BY <1>1 DEF Sockets
  <2>2. sockets' = [sockets EXCEPT ![s] = [sockets[s] EXCEPT !.peerClosed = TRUE]]
    BY <1>2 DEF BrowserCloses
  <2>3. SameConnection(sockets[s], [sockets[s] EXCEPT !.peerClosed = TRUE])
    BY <1>1 DEF Sockets, SameConnection
  <2>4. sockets' \in Seq(Sockets) /\ KeepsConnections
    BY <2>1, <2>2, <2>3, OneTouched
  <2>5. UNCHANGED fetches
    BY <1>2 DEF BrowserCloses, pageVars
  <2>6. AddressesUsed' /\ \A t \in DOMAIN sockets' : sockets'[t].fetch \in DOMAIN fetches'
    BY <2>4, <2>5, KeptConnections
  <2> QED
    BY <1>2, <2>4, <2>6 DEF BrowserCloses, Typed, trainingVars, pageVars, wsVars
<1>3. CASE incomingConnection(s)
  <2>1. PICK a \in FreeAddresses :
           sockets' = [sockets EXCEPT ![s].state = "open", ![s].address = a]
    BY <1>3 DEF incomingConnection
  <2> DEFINE y == [sockets[s] EXCEPT !.state = "open", !.address = a]
  <2>2. a \in Nat /\ a # nullptr /\ \E n \in Nat : Addresses \cup {a} = 1..n
    BY <2>1, FreeAddress
  <2>3. y \in Sockets /\ y.address = a /\ y.fetch = sockets[s].fetch /\ y.state = "open"
    BY <1>1, <2>2 DEF Sockets
  <2>4. sockets' = [sockets EXCEPT ![s] = y]
    BY <1>1, <2>1
  <2> HIDE DEF y
  <2>5. /\ sockets' \in Seq(Sockets) /\ DOMAIN sockets' = DOMAIN sockets
        /\ sockets'[s] = y
        /\ \A t \in DOMAIN sockets : t # s => sockets'[t] = sockets[t]
    BY <2>3, <2>4, OneTouched
  <2>6. AddressesUsed'
    <3>1. sockets[s].address = nullptr
      BY <1>3 DEF incomingConnection, AddressesUsed
    <3>2. Addresses' = Addresses \cup {a}
      BY <2>2, <2>3, <2>5, <3>1 DEF Addresses
    <3> QED
      BY <2>2, <2>3, <2>5, <3>2 DEF AddressesUsed
  <2>7. \A t \in DOMAIN sockets' : sockets'[t].fetch \in DOMAIN fetches'
    BY <1>3, <2>3, <2>5 DEF incomingConnection, Typed, pageVars
  <2> QED
    BY <1>3, <2>5, <2>6, <2>7 DEF incomingConnection, Typed, trainingVars, pageVars, wsVars
<1>4. CASE PeerCloses(s)
  <2>1. /\ Closed(s, sockets) \in Seq(Sockets)
        /\ DOMAIN Closed(s, sockets) = DOMAIN sockets
        /\ \A t \in DOMAIN sockets : t # s => Closed(s, sockets)[t] = sockets[t]
        /\ Closed(s, sockets)[s] = ClosedSocket(sockets[s])
    BY <1>1, ClosedType DEF ClosedSocket
  <2>2. /\ sockets' \in Seq(Sockets) /\ DOMAIN sockets' = DOMAIN sockets
        /\ \A t \in DOMAIN sockets : SameOrDeleted(Closed(s, sockets)[t], sockets'[t])
    BY <1>4, <2>1, Deletes DEF PeerCloses
  <2>3. \A t \in DOMAIN sockets : SameConnection(Closed(s, sockets)[t], sockets'[t])
    BY <2>1, <2>2, FieldsKept DEF SameConnection
  <2>4. SameConnection(sockets[s], ClosedSocket(sockets[s]))
    BY <1>1, <1>4 DEF ClosedSocket, Sockets, SameConnection, PeerCloses
  <2>5. KeepsConnections
    BY <2>1, <2>2, <2>3, <2>4, AllKept DEF SameConnection
  <2>6. UNCHANGED fetches
    BY <1>4 DEF PeerCloses, pageVars
  <2>7. AddressesUsed' /\ \A t \in DOMAIN sockets' : sockets'[t].fetch \in DOMAIN fetches'
    BY <2>5, <2>6, KeptConnections
  <2> QED
    BY <1>4, <2>2, <2>7 DEF PeerCloses, Typed, trainingVars, pageVars, wsVars
<1>5. CASE ReadOptions(s)
  <2> DEFINE y == [sockets[s] EXCEPT !.unread = FALSE, !.out = Append(@, "ok")]
  <2>1. sockets' = [sockets EXCEPT ![s] = y]
    BY <1>1, <1>5 DEF ReadOptions
  <2>2. y \in Sockets /\ SameConnection(sockets[s], y)
    <3>1. Append(sockets[s].out, "ok") \in Seq(Written)
      BY <1>1 DEF Sockets, Written
    <3> QED
      BY <1>1, <3>1 DEF Sockets, SameConnection
  <2> HIDE DEF y
  <2>3. sockets' \in Seq(Sockets) /\ KeepsConnections
    BY <2>1, <2>2, OneTouched
  <2>4. UNCHANGED fetches
    BY <1>5 DEF ReadOptions, pageVars
  <2>5. AddressesUsed' /\ \A t \in DOMAIN sockets' : sockets'[t].fetch \in DOMAIN fetches'
    BY <2>3, <2>4, KeptConnections
  <2>6. sockets[s].address \in Nat
    BY <1>1 DEF Sockets
  <2> QED
    BY <1>5, <2>3, <2>5, <2>6 DEF ReadOptions, Typed, trainingVars, pageVars, wsVars
<1> QED
  BY <1>2, <1>3, <1>4, <1>5

\* What the reading of a command does to them.
LEMMA TypedReadPost ==
    ASSUME Typed, AddressesUsed, NEW s \in DOMAIN sockets, NEW split \in BOOLEAN,
           ReadPost(s, split)
    PROVE  Typed' /\ AddressesUsed'
<1> DEFINE before(t) == IF t = s THEN Read(sockets[t], split) ELSE sockets[t]
<1>1. sockets \in Seq(Sockets) /\ sockets[s] \in Sockets
  BY DEF Typed
<1>2. /\ sockets' \in Seq(Sockets) /\ DOMAIN sockets' = DOMAIN sockets
      /\ [sockets EXCEPT ![s].unread = FALSE, ![s].whole = ~split] \in Seq(Sockets)
      /\ \A t \in DOMAIN sockets : [sockets EXCEPT ![s].unread = FALSE, ![s].whole = ~split][t] = before(t)
      /\ lastCommand' \subseteq Commands /\ m_currentModelPath' \subseteq Models
      /\ \/ sockets' = [sockets EXCEPT ![s].unread = FALSE, ![s].whole = ~split]
         \/ \E answer \in Answers, onWritten \in BOOLEAN :
               \A t \in DOMAIN sockets :
                  SameOrAnswered(before(t), sockets'[t], answer, onWritten)
  BY ReadPostSockets
<1>3. \A t \in DOMAIN sockets : SameConnection(sockets[t], before(t)) /\ before(t) \in Sockets
  <2> SUFFICES ASSUME NEW t \in DOMAIN sockets
               PROVE  SameConnection(sockets[t], before(t)) /\ before(t) \in Sockets
    OBVIOUS
  <2>1. sockets[t] \in Sockets
    BY <1>1
  <2>2. SameConnection(sockets[t], Read(sockets[t], split)) /\ Read(sockets[t], split) \in Sockets
    BY <2>1, ReadType
  <2> QED
    BY <2>1, <2>2 DEF SameConnection
<1> HIDE DEF before
<1>4. \A t \in DOMAIN sockets : SameConnection(before(t), sockets'[t])
  <2>1. CASE sockets' = [sockets EXCEPT ![s].unread = FALSE, ![s].whole = ~split]
    BY <1>2, <2>1 DEF SameConnection
  <2>2. ASSUME NEW answer \in Answers, NEW onWritten \in BOOLEAN,
               \A t \in DOMAIN sockets : SameOrAnswered(before(t), sockets'[t], answer, onWritten)
        PROVE  \A t \in DOMAIN sockets : SameConnection(before(t), sockets'[t])
    BY <1>3, <2>2, FieldsKept DEF SameConnection
  <2> QED
    BY <1>2, <2>1, <2>2
<1>5. KeepsConnections
  BY <1>2, <1>3, <1>4, AllKept DEF SameConnection
<1>6. UNCHANGED fetches
  BY DEF ReadPost
<1>7. AddressesUsed' /\ \A t \in DOMAIN sockets' : sockets'[t].fetch \in DOMAIN fetches'
  BY <1>5, <1>6, KeptConnections
<1>8. m_currentClientForDownload' \in Nat
  BY <1>1 DEF ReadPost, Sockets
<1>9. m_currentStep' \in Nat /\ m_totalSteps' \in Nat /\ wsQueue' \in Seq(Texts)
  <2>1. \/ UNCHANGED <<m_currentStep, m_totalSteps, wsQueue>>
        \/ \E n \in Nat : /\ m_totalSteps' = n /\ m_currentStep' = 0
                          /\ broadcastMessage(Progress(0, n))
    BY <1>2 DEF ReadPost, HandleTrain, HandleDownload, Commands
  <2>2. \A n \in Nat : Progress(0, n) \in Texts
    BY DEF Progress, Texts
  <2>3. wsQueue \in Seq(Texts) /\ m_currentStep \in Nat /\ m_totalSteps \in Nat
    BY DEF Typed
  <2>4. \A n \in Nat : broadcastMessage(Progress(0, n)) => wsQueue' \in Seq(Texts)
    BY <2>2, <2>3 DEF broadcastMessage
  <2> QED
    BY <2>1, <2>3, <2>4
<1>10. orderly' \in BOOLEAN
  BY DEF ReadPost, Typed
<1> QED
  BY <1>2, <1>7, <1>8, <1>9, <1>10 DEF ReadPost, Typed

\* What the answers do to them.
LEMMA TypedBytesWritten ==
    ASSUME Typed, AddressesUsed, NEW s \in DOMAIN sockets, BytesWritten(s)
    PROVE  Typed' /\ AddressesUsed'
<1>1. /\ sockets \in Seq(Sockets) /\ sockets[s] \in Sockets /\ fetches \in Seq(Fetches)
      /\ sockets[s].fetch \in DOMAIN fetches
  BY DEF Typed
<1>2. fetches' \in Seq(Fetches) /\ DOMAIN fetches' = DOMAIN fetches /\ records' \subseteq Models
      /\ UNCHANGED orderly
  <2>1. CASE PageGets(sockets[s].fetch, Head(sockets[s].out))
    <3>1. sockets[s].out \in Seq(Written) /\ sockets[s].out # << >>
      BY <1>1 DEF BytesWritten, Sockets
    <3>2. Head(sockets[s].out) \in Models \cup {"404", "ok", "pending"}
      BY <3>1 DEF Written
    <3>3. fetches[sockets[s].fetch] \in Fetches
      BY <1>1
    <3>4. [fetches[sockets[s].fetch] EXCEPT !.result = Head(sockets[s].out)] \in Fetches
      BY <3>2, <3>3 DEF Fetches
    <3>5. fetches' = [fetches EXCEPT ![sockets[s].fetch] =
                         [fetches[sockets[s].fetch] EXCEPT !.result = Head(sockets[s].out)]]
      BY <1>1, <2>1 DEF PageGets
    <3> QED
      BY <1>1, <2>1, <3>4, <3>5 DEF PageGets, Typed
  <2>2. CASE UNCHANGED pageVars
    BY <2>2 DEF pageVars, Typed
  <2> QED
    BY <2>1, <2>2 DEF BytesWritten
<1>3. /\ sockets' \in Seq(Sockets)
      /\ IF AnswersPreflight(s)
         THEN /\ Len(sockets') = Len(sockets) + 1
              /\ sockets'[Len(sockets) + 1] = NewSocket(sockets[s].fetch, "POST")
         ELSE Len(sockets') = Len(sockets)
      /\ \A t \in DOMAIN sockets : t # s => SameOrDeleted(sockets[t], sockets'[t])
      /\ IF sockets[s].onWritten \/ sockets[s].closing
         THEN SameOrDeleted(ClosedSocket(Sent(sockets[s])), sockets'[s])
         ELSE sockets'[s] = Sent(sockets[s]) /\ UNCHANGED crashed
  BY BytesWrittenSockets
<1>4. \A t \in DOMAIN sockets : t # s => SameConnection(sockets[t], sockets'[t])
  BY <1>1, <1>3, FieldsKept DEF SameConnection
<1>5. SameConnection(sockets[s], sockets'[s])
  <2>1. /\ Sent(sockets[s]) \in Sockets
        /\ SameConnection(sockets[s], Sent(sockets[s]))
    BY <1>1, SentType
  <2>2. /\ ClosedSocket(Sent(sockets[s])) \in Sockets
        /\ SameConnection(Sent(sockets[s]), ClosedSocket(Sent(sockets[s])))
    <3>1. Sent(sockets[s]).state = "open"
      BY <1>1 DEF BytesWritten, Sent, Sockets
    <3> QED
      BY <2>1, <3>1, SentType
  <2>3. SameOrDeleted(ClosedSocket(Sent(sockets[s])), sockets'[s])
            => SameConnection(ClosedSocket(Sent(sockets[s])), sockets'[s])
    BY <2>2, FieldsKept DEF SameConnection
  <2> QED
    BY <1>3, <2>1, <2>2, <2>3 DEF SameConnection
<1>6. KeepsConnections
  <2>1. Len(sockets') >= Len(sockets)
    BY <1>1, <1>3
  <2>2. \A t \in DOMAIN sockets' : t \notin DOMAIN sockets =>
           AnswersPreflight(s) /\ t = Len(sockets) + 1
    BY <1>1, <1>3
  <2>3. /\ NewSocket(sockets[s].fetch, "POST").address = nullptr
        /\ NewSocket(sockets[s].fetch, "POST").state = "arriving"
        /\ NewSocket(sockets[s].fetch, "POST").fetch = sockets[s].fetch
    BY DEF NewSocket
  <2>4. \A t \in DOMAIN sockets' : t \notin DOMAIN sockets =>
           /\ sockets'[t].address = nullptr /\ sockets'[t].state = "arriving"
           /\ sockets'[t].fetch \in DOMAIN fetches'
    BY <1>1, <1>2, <1>3, <2>2, <2>3
  <2>5. \A t \in DOMAIN sockets : SameConnection(sockets[t], sockets'[t])
    BY <1>4, <1>5
  <2> QED
    BY <1>3, <2>1, <2>4, <2>5 DEF KeepsConnections
<1>7. AddressesUsed' /\ \A t \in DOMAIN sockets' : sockets'[t].fetch \in DOMAIN fetches'
  BY <1>2, <1>6, KeptConnections
<1>8. m_currentModelPath' \subseteq Models
  BY DEF BytesWritten, Typed
<1> QED
  BY <1>2, <1>3, <1>7, <1>8 DEF BytesWritten, Typed, trainingVars, wsVars

\* At first there is no connection.
LEMMA TypedInit == Init => Typed /\ AddressesUsed
<1> SUFFICES ASSUME Init
             PROVE  Typed /\ AddressesUsed
  OBVIOUS
<1>1. Addresses = {}
  BY DEF Init, Addresses
<1>2. Addresses = 1..0
  BY <1>1
<1>3. AddressesUsed
  BY <1>2 DEF AddressesUsed, Init
<1> QED
  BY <1>3, ModelsAssumption DEF Init, Typed, nullptr

\* A fetch that fails keeps its command, and what was failed or answered stays.
LEMMA FailedFetch ==
    ASSUME Typed, NEW r \in DOMAIN fetches, FetchFails(r)
    PROVE  /\ fetches' \in Seq(Fetches) /\ Len(fetches') = Len(fetches)
           /\ DOMAIN fetches' = DOMAIN fetches
           /\ fetches[r].result = "pending" /\ fetches'[r].result = "failed"
           /\ fetches'[r] = [command |-> fetches[r].command, result |-> "failed"]
           /\ fetches'[r].command = fetches[r].command
           /\ \A q \in DOMAIN fetches : q # r => fetches'[q] = fetches[q]
<1>1. fetches \in Seq(Fetches) /\ fetches[r] \in Fetches
  BY DEF Typed
<1>2. /\ [fetches[r] EXCEPT !.result = "failed"]
             = [command |-> fetches[r].command, result |-> "failed"]
      /\ [fetches[r] EXCEPT !.result = "failed"] \in Fetches
  BY <1>1 DEF Fetches
<1>3. fetches' = [fetches EXCEPT ![r] = [fetches[r] EXCEPT !.result = "failed"]]
  BY DEF FetchFails
<1> QED
  BY <1>1, <1>2, <1>3 DEF FetchFails

\* Nothing else changes when a fetch fails or the page stops.
LEMMA TypedPage ==
    ASSUME Typed, AddressesUsed,
           PageStopsTraining \/ \E r \in DOMAIN fetches : FetchFails(r)
    PROVE  Typed' /\ AddressesUsed'
<1>1. UNCHANGED <<sockets, m_currentClientForDownload, m_currentModelPath, lastCommand,
                  m_currentStep, m_totalSteps, records, wsQueue, orderly>>
  BY DEF PageStopsTraining, FetchFails, httpVars, trainingVars, pageVars, wsVars
<1>2. fetches' \in Seq(Fetches) /\ DOMAIN fetches' = DOMAIN fetches
  <2>1. CASE PageStopsTraining
    BY <2>1 DEF PageStopsTraining, pageVars, Typed
  <2>2. ASSUME NEW r \in DOMAIN fetches, FetchFails(r)
        PROVE  fetches' \in Seq(Fetches) /\ DOMAIN fetches' = DOMAIN fetches
    BY <2>2, FailedFetch
  <2> QED
    BY <2>1, <2>2
<1> QED
  BY <1>1, <1>2 DEF Typed, AddressesUsed, Addresses

\* Each action keeps the types.
LEMMA TypedNext == Typed /\ AddressesUsed /\ [Next]_vars => Typed' /\ AddressesUsed'
<1> SUFFICES ASSUME Typed, AddressesUsed, [Next]_vars
             PROVE  Typed' /\ AddressesUsed'
  OBVIOUS
<1>1. CASE \/ WebSocketConnects \/ WebSocketCloses \/ incrementProgress \/ PageReceives
           \/ \E m \in Models : addHistoryEntry(m)
  <2>1. CASE WebSocketConnects
    BY <2>1, TypedWebSocket DEF WebSocketConnects, httpVars, httpKept
  <2>2. CASE WebSocketCloses
    BY <2>2, TypedWebSocket DEF WebSocketCloses, httpVars, httpKept
  <2>3. CASE incrementProgress
    BY <2>3, TypedWebSocket DEF incrementProgress, httpVars, httpKept
  <2>4. CASE PageReceives
    BY <2>4, TypedWebSocket DEF PageReceives, httpVars, httpKept
  <2>5. CASE \E m \in Models : addHistoryEntry(m)
    BY <2>5, TypedWebSocket DEF addHistoryEntry, httpVars, httpKept
  <2> QED
    BY <1>1, <2>1, <2>2, <2>3, <2>4, <2>5
<1>2. CASE \E preflight \in BOOLEAN : PageStartsTraining(preflight) \/ PageDownloads(preflight)
  BY <1>2, TypedFetch
<1>3. CASE \E s \in DOMAIN sockets : \/ BrowserCloses(s) \/ incomingConnection(s)
                                     \/ PeerCloses(s) \/ ReadOptions(s)
  BY <1>3, TypedConnection
<1>4. CASE \E s \in DOMAIN sockets : \E split \in BOOLEAN : ReadPost(s, split)
  BY <1>4, TypedReadPost
<1>5. CASE \E s \in DOMAIN sockets : BytesWritten(s)
  BY <1>5, TypedBytesWritten
<1>6. CASE UNCHANGED vars
  <2>1. /\ UNCHANGED <<sockets, m_currentClientForDownload, m_currentModelPath, lastCommand>>
        /\ UNCHANGED <<m_currentStep, m_totalSteps, fetches, records, wsQueue, orderly>>
    BY <1>6 DEF vars, httpVars, wsVars, pageVars, trainingVars
  <2> QED
    BY <2>1 DEF Typed, AddressesUsed, Addresses
<1>7. CASE PageStopsTraining \/ \E r \in DOMAIN fetches : FetchFails(r)
  BY <1>7, TypedPage
<1> QED
  BY <1>1, <1>2, <1>3, <1>4, <1>5, <1>6, <1>7 DEF Next, ServerStep, PageStep

\* In every state the variables have their types and each accepted connection
\* an address among the first ones.
LEMMA TypesHold == Spec => [](Typed /\ AddressesUsed)
  BY TypedInit, TypedNext, PTL DEF Spec

-----------------------------------------------------------------------------
(* Progress. *)

Current == Progress(m_currentStep, m_totalSteps)

IsHistory(msg) == msg.type = "history"

\* What the page will have shown when it has read all that was sent.
WillShow == IF \A i \in DOMAIN wsQueue : IsHistory(wsQueue[i])
            THEN bar = <<m_currentStep, m_totalSteps>> \/ OwnReset
            ELSE \E i \in DOMAIN wsQueue :
                    /\ wsQueue[i] = Current
                    /\ \A j \in DOMAIN wsQueue : j > i => IsHistory(wsQueue[j])

ConnectedPageShows == ws = "on" => WillShow

\* A request that is read whole was so before, or it is a download's.
WholeKept ==
    \A s \in DOMAIN sockets' : sockets'[s].whole =>
        \/ /\ s \in DOMAIN sockets /\ sockets[s].whole
           /\ sockets'[s].fetch = sockets[s].fetch
        \/ fetches[sockets'[s].fetch].command.type = "U"

CommandsKept == /\ DOMAIN fetches \subseteq DOMAIN fetches'
                /\ \A q \in DOMAIN fetches' :
                      IF q \in DOMAIN fetches THEN fetches'[q].command = fetches[q].command
                                              ELSE fetches'[q].command.type = "U"

\* Without another training, what the page has reset is still so.
LEMMA ResetKept ==
    ASSUME OwnReset, UNCHANGED bar, WholeKept, CommandsKept
    PROVE  OwnReset'
<1>1. CASE bar = Stopped
  BY <1>1 DEF OwnReset, Stopped
<1>2. CASE bar # Stopped
  <2>1. PICK r \in DOMAIN fetches :
           /\ fetches[r].command.type = "T" /\ bar = <<0, fetches[r].command.param>>
           /\ \A q \in DOMAIN fetches : q > r => fetches[q].command.type = "U"
           /\ \A s \in DOMAIN sockets : sockets[s].fetch = r => ~sockets[s].whole
    BY <1>2 DEF OwnReset
  <2>2. r \in DOMAIN fetches' /\ fetches'[r].command = fetches[r].command
    BY DEF CommandsKept
  <2>3. \A q \in DOMAIN fetches' : q > r => fetches'[q].command.type = "U"
    BY <2>1 DEF CommandsKept
  <2>4. \A s \in DOMAIN sockets' : sockets'[s].fetch = r => ~sockets'[s].whole
    BY <2>1 DEF WholeKept
  <2> QED
    BY <2>1, <2>2, <2>3, <2>4 DEF OwnReset
<1> QED
  BY <1>1, <1>2

\* Nothing but the reading of a command makes a request read whole.
LEMMA WholeStays ==
    ASSUME Typed, NEW s \in DOMAIN sockets,
           \/ incomingConnection(s) \/ PeerCloses(s) \/ ReadOptions(s)
           \/ BytesWritten(s) \/ BrowserCloses(s)
    PROVE  WholeKept
<1>1. sockets \in Seq(Sockets) /\ sockets[s] \in Sockets /\ DOMAIN sockets = 1..Len(sockets)
  BY DEF Typed
<1>2. ASSUME NEW y, sockets' = [sockets EXCEPT ![s] = y], y.whole = sockets[s].whole,
             y.fetch = sockets[s].fetch
      PROVE  WholeKept
  BY <1>2 DEF WholeKept
<1>3. CASE incomingConnection(s)
  <2>1. PICK a : sockets' = [sockets EXCEPT ![s] =
                                [sockets[s] EXCEPT !.state = "open", !.address = a]]
    BY <1>3 DEF incomingConnection
  <2> QED
    BY <1>1, <1>2, <2>1 DEF Sockets
<1>4. CASE BrowserCloses(s)
  <2>1. sockets' = [sockets EXCEPT ![s] = [sockets[s] EXCEPT !.peerClosed = TRUE]]
    BY <1>4 DEF BrowserCloses
  <2> QED
    BY <1>1, <1>2, <2>1 DEF Sockets
<1>5. CASE ReadOptions(s)
  <2>1. sockets' = [sockets EXCEPT ![s] =
                       [sockets[s] EXCEPT !.unread = FALSE, !.out = Append(@, "ok")]]
    BY <1>5 DEF ReadOptions
  <2> QED
    BY <1>1, <1>2, <2>1 DEF Sockets
<1>6. CASE PeerCloses(s)
  <2>1. /\ Closed(s, sockets) \in Seq(Sockets)
        /\ DOMAIN Closed(s, sockets) = DOMAIN sockets
        /\ \A t \in DOMAIN sockets : t # s => Closed(s, sockets)[t] = sockets[t]
        /\ Closed(s, sockets)[s] = ClosedSocket(sockets[s])
    BY <1>1, ClosedType DEF ClosedSocket
  <2>2. /\ DOMAIN sockets' = DOMAIN sockets
        /\ \A t \in DOMAIN sockets : SameOrDeleted(Closed(s, sockets)[t], sockets'[t])
    BY <1>6, <2>1, Deletes DEF PeerCloses
  <2>3. /\ ClosedSocket(sockets[s]).whole = sockets[s].whole
        /\ ClosedSocket(sockets[s]).fetch = sockets[s].fetch
    BY <1>1 DEF ClosedSocket, Sockets
  <2>4. \A t \in DOMAIN sockets : /\ sockets'[t].whole = sockets[t].whole
                                  /\ sockets'[t].fetch = sockets[t].fetch
    BY <2>1, <2>2, <2>3, FieldsKept
  <2> QED
    BY <2>2, <2>4 DEF WholeKept
<1>7. CASE BytesWritten(s)
  <2>1. /\ sockets' \in Seq(Sockets)
        /\ IF AnswersPreflight(s)
           THEN /\ Len(sockets') = Len(sockets) + 1
                /\ sockets'[Len(sockets) + 1] = NewSocket(sockets[s].fetch, "POST")
           ELSE Len(sockets') = Len(sockets)
        /\ \A t \in DOMAIN sockets : t # s => SameOrDeleted(sockets[t], sockets'[t])
        /\ IF sockets[s].onWritten \/ sockets[s].closing
           THEN SameOrDeleted(ClosedSocket(Sent(sockets[s])), sockets'[s])
           ELSE sockets'[s] = Sent(sockets[s]) /\ UNCHANGED crashed
    BY <1>7, BytesWrittenSockets
  <2>2. /\ Sent(sockets[s]).whole = sockets[s].whole
        /\ Sent(sockets[s]).fetch = sockets[s].fetch
        /\ Sent(sockets[s]) \in Sockets /\ Sent(sockets[s]).state = "open"
    BY <1>1, <1>7, SentType DEF Sent, Sockets, BytesWritten
  <2>3. /\ ClosedSocket(Sent(sockets[s])).whole = sockets[s].whole
        /\ ClosedSocket(Sent(sockets[s])).fetch = sockets[s].fetch
        /\ ClosedSocket(Sent(sockets[s])) \in Sockets
    BY <2>2, SentType DEF ClosedSocket, Sockets
  <2>4. sockets'[s].whole = sockets[s].whole /\ sockets'[s].fetch = sockets[s].fetch
    BY <2>1, <2>2, <2>3, FieldsKept
  <2>5. \A t \in DOMAIN sockets : /\ sockets'[t].whole = sockets[t].whole
                                  /\ sockets'[t].fetch = sockets[t].fetch
    BY <1>1, <2>1, <2>4, FieldsKept
  <2>6. ~NewSocket(sockets[s].fetch, "POST").whole
    BY DEF NewSocket
  <2>7. \A t \in DOMAIN sockets' : t \in DOMAIN sockets \/ ~sockets'[t].whole
    <3>1. \A t \in DOMAIN sockets' : \/ t \in DOMAIN sockets
                                     \/ AnswersPreflight(s) /\ t = Len(sockets) + 1
      BY <1>1, <2>1
    <3> QED
      BY <2>1, <2>6, <3>1
  <2> QED
    BY <2>5, <2>7 DEF WholeKept
<1> QED
  BY <1>3, <1>4, <1>5, <1>6, <1>7

\* A request that is read whole, but not a training's, resets nothing either.
LEMMA WholeDownload ==
    ASSUME Typed, NEW s \in DOMAIN sockets, NEW split \in BOOLEAN, ReadPost(s, split),
           split \/ fetches[sockets[s].fetch].command.type = "U"
    PROVE  WholeKept
<1> DEFINE before(t) == IF t = s THEN Read(sockets[t], split) ELSE sockets[t]
<1>1. /\ DOMAIN sockets' = DOMAIN sockets
      /\ \A t \in DOMAIN sockets :
            [sockets EXCEPT ![s].unread = FALSE, ![s].whole = ~split][t] = before(t)
      /\ \/ sockets' = [sockets EXCEPT ![s].unread = FALSE, ![s].whole = ~split]
         \/ \E answer \in Answers, onWritten \in BOOLEAN :
               \A t \in DOMAIN sockets :
                  SameOrAnswered(before(t), sockets'[t], answer, onWritten)
  BY ReadPostSockets
<1>2. \A t \in DOMAIN sockets : sockets[t] \in Sockets
  BY DEF Typed
<1>3. \A t \in DOMAIN sockets :
         /\ before(t) \in Sockets /\ before(t).fetch = sockets[t].fetch
         /\ IF t = s THEN before(t).whole <=> ~split ELSE before(t).whole = sockets[t].whole
  BY <1>2, ReadType DEF SameConnection
<1> HIDE DEF before
<1>4. \A t \in DOMAIN sockets : /\ sockets'[t].whole = before(t).whole
                                /\ sockets'[t].fetch = before(t).fetch
  <2>1. CASE sockets' = [sockets EXCEPT ![s].unread = FALSE, ![s].whole = ~split]
    BY <1>1, <2>1
  <2>2. ASSUME NEW answer \in Answers, NEW onWritten \in BOOLEAN,
               \A t \in DOMAIN sockets : SameOrAnswered(before(t), sockets'[t], answer, onWritten)
        PROVE  \A t \in DOMAIN sockets : /\ sockets'[t].whole = before(t).whole
                                         /\ sockets'[t].fetch = before(t).fetch
    BY <1>3, <2>2, FieldsKept
  <2> QED
    BY <1>1, <2>1, <2>2
<1> QED
  BY <1>1, <1>3, <1>4 DEF WholeKept

\* The page's own reset before the command.
LEMMA StartResets ==
    ASSUME Typed, NEW preflight \in BOOLEAN, PageStartsTraining(preflight)
    PROVE  OwnReset'
<1>1. PICK n \in Times : PageFetches(TrainCommand(n), preflight) /\ bar' = <<0, n>>
  BY DEF PageStartsTraining
<1>2. TrainCommand(n) \in Commands
  BY ModelsAssumption DEF TrainCommand, Commands
<1>3. /\ sockets' \in Seq(Sockets) /\ Len(sockets') = Len(sockets) + 1
      /\ \A t \in DOMAIN sockets : sockets'[t] = sockets[t]
      /\ sockets'[Len(sockets) + 1] =
            NewSocket(Len(fetches) + 1, IF preflight THEN "OPTIONS" ELSE "POST")
      /\ fetches' \in Seq(Fetches) /\ Len(fetches') = Len(fetches) + 1
      /\ fetches'[Len(fetches) + 1] = [command |-> TrainCommand(n), result |-> "pending"]
  BY <1>1, <1>2, FetchSockets
<1>4. /\ sockets \in Seq(Sockets) /\ fetches \in Seq(Fetches)
      /\ \A t \in DOMAIN sockets : sockets[t].fetch \in DOMAIN fetches
  BY DEF Typed
<1> DEFINE r == Len(fetches) + 1
<1>5. r \in DOMAIN fetches' /\ r \notin DOMAIN fetches /\ \A q \in DOMAIN fetches' : ~(q > r)
  BY <1>3, <1>4
<1>6. fetches'[r].command.type = "T" /\ bar' = <<0, fetches'[r].command.param>>
  BY <1>1, <1>3 DEF TrainCommand
<1>7. ~sockets'[Len(sockets) + 1].whole
  BY <1>3 DEF NewSocket
<1>8. \A t \in DOMAIN sockets' : t \in DOMAIN sockets \/ t = Len(sockets) + 1
  BY <1>3, <1>4
<1>9. \A t \in DOMAIN sockets' : sockets'[t].fetch = r => ~sockets'[t].whole
  BY <1>3, <1>4, <1>5, <1>7, <1>8
<1> HIDE DEF r
<1> QED
  BY <1>5, <1>6, <1>9 DEF OwnReset

\* When nothing is told, the queue or the page's own reset decides.
LEMMA ShownStill ==
    ASSUME WillShow, UNCHANGED <<wsQueue, m_currentStep, m_totalSteps>>,
           \/ UNCHANGED bar /\ (OwnReset => OwnReset')
           \/ OwnReset'
    PROVE  WillShow'
<1>1. Current' = Current /\ <<m_currentStep, m_totalSteps>>' = <<m_currentStep, m_totalSteps>>
  BY DEF Current
<1>2. CASE \A i \in DOMAIN wsQueue : IsHistory(wsQueue[i])
  <2>1. bar = <<m_currentStep, m_totalSteps>> \/ OwnReset
    BY <1>2 DEF WillShow
  <2>2. bar' = <<m_currentStep, m_totalSteps>>' \/ OwnReset'
    BY <1>1, <2>1
  <2> QED
    BY <1>2, <2>2 DEF WillShow
<1>3. CASE ~\A i \in DOMAIN wsQueue : IsHistory(wsQueue[i])
  BY <1>1, <1>3 DEF WillShow
<1> QED
  BY <1>2, <1>3

\* A message that tells where the training is will be shown,
LEMMA TellsCurrent ==
    ASSUME NEW q \in Seq(Texts), wsQueue' = Append(q, Current'),
           Current' \in Texts
    PROVE  WillShow'
<1>1. /\ DOMAIN wsQueue' = 1..(Len(q) + 1) /\ Len(q) \in Nat
      /\ wsQueue'[Len(q) + 1] = Current'
  OBVIOUS
<1>2. ~IsHistory(Current')
  BY DEF Current, Progress, IsHistory
<1> QED
  BY <1>1, <1>2 DEF WillShow

\* and one that tells of a model takes nothing away.
LEMMA TellsModel ==
    ASSUME wsQueue \in Seq(Texts), WillShow, NEW m \in Models,
           wsQueue' = Append(wsQueue, [type |-> "history", model |-> m]),
           UNCHANGED <<bar, m_currentStep, m_totalSteps>>, OwnReset => OwnReset'
    PROVE  WillShow'
<1>1. /\ DOMAIN wsQueue = 1..Len(wsQueue) /\ Len(wsQueue) \in Nat
      /\ DOMAIN wsQueue' = 1..(Len(wsQueue) + 1)
      /\ \A i \in DOMAIN wsQueue : wsQueue'[i] = wsQueue[i]
      /\ IsHistory(wsQueue'[Len(wsQueue) + 1])
  BY DEF IsHistory
<1>2. Current' = Current
  BY DEF Current
<1>3. CASE \A i \in DOMAIN wsQueue : IsHistory(wsQueue[i])
  <2>1. \A i \in DOMAIN wsQueue' : IsHistory(wsQueue'[i])
    BY <1>1, <1>3
  <2>2. bar = <<m_currentStep, m_totalSteps>> \/ OwnReset
    BY <1>3 DEF WillShow
  <2>3. bar' = <<m_currentStep, m_totalSteps>>' \/ OwnReset'
    BY <2>2
  <2> QED
    BY <2>1, <2>3 DEF WillShow
<1>4. CASE ~\A i \in DOMAIN wsQueue : IsHistory(wsQueue[i])
  <2>1. PICK i \in DOMAIN wsQueue :
           /\ wsQueue[i] = Current
           /\ \A j \in DOMAIN wsQueue : j > i => IsHistory(wsQueue[j])
    BY <1>4 DEF WillShow
  <2>2. i \in DOMAIN wsQueue' /\ wsQueue'[i] = Current'
    BY <1>1, <1>2, <2>1
  <2>3. \A j \in DOMAIN wsQueue' : j > i => IsHistory(wsQueue'[j])
    BY <1>1, <2>1
  <2>4. ~IsHistory(Current)
    BY DEF Current, Progress, IsHistory
  <2> QED
    BY <1>2, <2>2, <2>3, <2>4 DEF WillShow
<1> QED
  BY <1>3, <1>4

\* The page shows what is told.
LEMMA ShowsFirst ==
    ASSUME wsQueue \in Seq(Texts), WillShow, PageReceives
    PROVE  WillShow'
<1>1. /\ DOMAIN wsQueue = 1..Len(wsQueue) /\ Len(wsQueue) \in Nat \ {0}
      /\ DOMAIN wsQueue' = 1..(Len(wsQueue) - 1)
      /\ \A i \in DOMAIN wsQueue' : wsQueue'[i] = wsQueue[i + 1]
      /\ Head(wsQueue) = wsQueue[1]
      /\ wsQueue[1] \in Texts
  BY DEF PageReceives
<1>2. Current' = Current /\ <<m_currentStep, m_totalSteps>>' = <<m_currentStep, m_totalSteps>>
  BY DEF PageReceives, trainingVars, Current
<1>3. ~IsHistory(Current)
  BY DEF Current, Progress, IsHistory
<1>4. IsHistory(wsQueue[1]) => UNCHANGED bar /\ OwnReset' = OwnReset
  BY <1>1 DEF PageReceives, IsHistory, viewVars, httpVars, OwnReset
<1>5. CASE \A i \in DOMAIN wsQueue : IsHistory(wsQueue[i])
  <2>1. bar = <<m_currentStep, m_totalSteps>> \/ OwnReset
    BY <1>5 DEF WillShow
  <2>2. \A i \in DOMAIN wsQueue' : IsHistory(wsQueue'[i])
    BY <1>1, <1>5
  <2>3. 1 \in DOMAIN wsQueue
    BY <1>1
  <2>4. bar' = <<m_currentStep, m_totalSteps>>' \/ OwnReset'
    BY <1>2, <1>4, <1>5, <2>1, <2>3
  <2> QED
    BY <2>2, <2>4 DEF WillShow
<1>6. CASE ~\A i \in DOMAIN wsQueue : IsHistory(wsQueue[i])
  <2>1. PICK i \in DOMAIN wsQueue :
           /\ wsQueue[i] = Current
           /\ \A j \in DOMAIN wsQueue : j > i => IsHistory(wsQueue[j])
    BY <1>6 DEF WillShow
  <2>2. CASE i = 1
    <3>1. \A j \in DOMAIN wsQueue' : IsHistory(wsQueue'[j])
      BY <1>1, <2>1, <2>2
    <3>2. bar' = <<m_currentStep, m_totalSteps>>
      BY <1>1, <2>1, <2>2 DEF PageReceives, Current, Progress
    <3> QED
      BY <1>2, <3>1, <3>2 DEF WillShow
  <2>3. CASE i # 1
    <3>1. i - 1 \in DOMAIN wsQueue' /\ wsQueue'[i - 1] = Current'
      BY <1>1, <1>2, <2>1, <2>3
    <3>2. \A j \in DOMAIN wsQueue' : j > i - 1 => IsHistory(wsQueue'[j])
      BY <1>1, <2>1, <2>3
    <3> QED
      BY <1>2, <1>3, <3>1, <3>2 DEF WillShow
  <2> QED
    BY <2>2, <2>3
<1> QED
  BY <1>5, <1>6

\* Each action keeps what the page will have shown.
LEMMA ShownNext == Typed /\ ConnectedPageShows /\ Typed' /\ [Next]_vars => ConnectedPageShows'
<1> SUFFICES ASSUME Typed, ConnectedPageShows, Typed', [Next]_vars, ws' = "on"
             PROVE  WillShow'
  BY DEF ConnectedPageShows
<1>1. wsQueue \in Seq(Texts) /\ Current' \in Texts
  BY DEF Typed, Texts, Current, Progress
<1>2. ASSUME UNCHANGED <<ws, wsQueue, m_currentStep, m_totalSteps>>,
             \/ UNCHANGED bar /\ WholeKept /\ CommandsKept
             \/ OwnReset'
      PROVE  WillShow'
  BY <1>2, ResetKept, ShownStill DEF ConnectedPageShows
<1>3. /\ UNCHANGED sockets => WholeKept
      /\ UNCHANGED fetches => CommandsKept
      /\ UNCHANGED <<bar, sockets, fetches>> => (OwnReset => OwnReset')
  BY DEF WholeKept, CommandsKept, OwnReset
<1>4. ASSUME broadcastMessage(Current'), UNCHANGED ws
      PROVE  WillShow'
  BY <1>1, <1>4, TellsCurrent DEF broadcastMessage
<1>5. CASE WebSocketConnects
  <2>1. wsQueue' = Append(wsQueue, Current')
    BY <1>5 DEF WebSocketConnects, trainingVars, Current
  <2> QED
    BY <1>1, <2>1, TellsCurrent
<1>6. CASE WebSocketCloses
  BY <1>6 DEF WebSocketCloses
<1>7. CASE incrementProgress
  BY <1>4, <1>7 DEF incrementProgress, Current
<1>8. ASSUME NEW m \in Models, addHistoryEntry(m)
      PROVE  WillShow'
  <2>1. wsQueue' = Append(wsQueue, [type |-> "history", model |-> m]) /\ ws = "on"
    BY <1>8 DEF addHistoryEntry, broadcastMessage
  <2>2. UNCHANGED <<bar, m_currentStep, m_totalSteps, sockets, fetches>>
    BY <1>8 DEF addHistoryEntry, viewVars, httpVars, pageVars
  <2> QED
    BY <1>1, <1>3, <2>1, <2>2, TellsModel DEF ConnectedPageShows
<1>9. CASE PageReceives
  BY <1>1, <1>9, ShowsFirst DEF ConnectedPageShows, PageReceives
<1>10. ASSUME NEW s \in DOMAIN sockets, NEW split \in BOOLEAN, ReadPost(s, split)
       PROVE  WillShow'
  <2>1. lastCommand' \subseteq Commands
    BY <1>10, ReadPostSockets
  <2>2. UNCHANGED <<ws, bar, fetches>>
    BY <1>10 DEF ReadPost, viewVars
  <2>3. CASE \E n \in Nat : /\ m_totalSteps' = n /\ m_currentStep' = 0
                            /\ broadcastMessage(Progress(0, n))
    BY <1>4, <2>2, <2>3 DEF Current
  <2>4. CASE ~\E n \in Nat : /\ m_totalSteps' = n /\ m_currentStep' = 0
                             /\ broadcastMessage(Progress(0, n))
    <3>1. ASSUME NEW cmd \in lastCommand', NEW socks, cmd.type = "T",
                 HandleTrain(cmd.param, socks)
          PROVE  FALSE
      BY <2>1, <2>4, <3>1 DEF HandleTrain, Commands
    <3>2. UNCHANGED <<m_currentStep, m_totalSteps, wsQueue>>
      <4>1. ASSUME NEW m, NEW socks, HandleDownload(m, socks)
            PROVE  UNCHANGED <<m_currentStep, m_totalSteps, wsQueue>>
        BY <4>1 DEF HandleDownload
      <4> QED
        BY <1>10, <3>1, <4>1 DEF ReadPost
    <3>3. split \/ fetches[sockets[s].fetch].command.type = "U"
      <4> SUFFICES ASSUME ~split
                   PROVE  fetches[sockets[s].fetch].command.type = "U"
        OBVIOUS
      <4> DEFINE cmd == fetches[sockets[s].fetch].command
      <4>1. lastCommand' = {cmd}
        BY <1>10 DEF ReadPost
      <4>2. cmd.type # "T"
        BY <1>10, <3>1, <4>1 DEF ReadPost
      <4> QED
        BY <2>1, <4>1, <4>2 DEF Commands
    <3>4. WholeKept
      BY <1>10, <3>3, WholeDownload
    <3> QED
      BY <1>2, <1>3, <2>2, <3>2, <3>4
  <2> QED
    BY <2>3, <2>4
<1>11. ASSUME NEW s \in DOMAIN sockets,
              \/ incomingConnection(s) \/ PeerCloses(s) \/ ReadOptions(s)
              \/ BytesWritten(s) \/ BrowserCloses(s)
       PROVE  WillShow'
  <2>1. WholeKept
    BY <1>11, WholeStays
  <2>2. UNCHANGED <<ws, wsQueue, bar, m_currentStep, m_totalSteps>>
    BY <1>11 DEF incomingConnection, PeerCloses, ReadOptions, BytesWritten, BrowserCloses,
                 trainingVars, wsVars, viewVars
  <2>3. CommandsKept
    <3>1. CASE UNCHANGED fetches
      BY <1>3, <3>1
    <3>2. CASE BytesWritten(s) /\ PageGets(sockets[s].fetch, Head(sockets[s].out))
      <4>1. fetches \in Seq(Fetches) /\ \A q \in DOMAIN fetches : fetches[q] \in Fetches
        BY DEF Typed
      <4>2. /\ DOMAIN fetches' = DOMAIN fetches
            /\ \A q \in DOMAIN fetches : fetches'[q].command = fetches[q].command
        BY <3>2, <4>1 DEF PageGets, Fetches
      <4> QED
        BY <4>2 DEF CommandsKept
    <3> QED
      BY <1>11, <3>1, <3>2 DEF incomingConnection, PeerCloses, ReadOptions, BytesWritten,
                               BrowserCloses, pageVars
  <2> QED
    BY <1>2, <2>1, <2>2, <2>3
<1>12. ASSUME NEW preflight \in BOOLEAN, PageStartsTraining(preflight)
       PROVE  WillShow'
  <2>1. OwnReset'
    BY <1>12, StartResets
  <2> QED
    BY <1>2, <1>12, <2>1 DEF PageStartsTraining, PageFetches, trainingVars
<1>13. ASSUME NEW preflight \in BOOLEAN, PageDownloads(preflight)
       PROVE  WillShow'
  <2>1. PICK m \in records : PageFetches(DownloadCommand(m), preflight)
    BY <1>13 DEF PageDownloads
  <2>2. DownloadCommand(m) \in Commands
    BY DEF DownloadCommand, Commands, Typed
  <2>3. /\ sockets' \in Seq(Sockets) /\ Len(sockets') = Len(sockets) + 1
        /\ \A t \in DOMAIN sockets : sockets'[t] = sockets[t]
        /\ sockets'[Len(sockets) + 1] =
              NewSocket(Len(fetches) + 1, IF preflight THEN "OPTIONS" ELSE "POST")
        /\ fetches' \in Seq(Fetches) /\ Len(fetches') = Len(fetches) + 1
        /\ \A q \in DOMAIN fetches : fetches'[q] = fetches[q]
        /\ fetches'[Len(fetches) + 1] = [command |-> DownloadCommand(m), result |-> "pending"]
    BY <2>1, <2>2, FetchSockets
  <2>4. sockets \in Seq(Sockets) /\ fetches \in Seq(Fetches)
    BY DEF Typed
  <2>5. WholeKept
    <3>1. ~sockets'[Len(sockets) + 1].whole
      BY <2>3 DEF NewSocket
    <3>2. \A t \in DOMAIN sockets' : t \in DOMAIN sockets \/ t = Len(sockets) + 1
      BY <2>3, <2>4
    <3> QED
      BY <2>3, <3>1, <3>2 DEF WholeKept
  <2>6. CommandsKept
    <3>1. fetches'[Len(fetches) + 1].command.type = "U"
      BY <2>3 DEF DownloadCommand
    <3>2. /\ DOMAIN fetches \subseteq DOMAIN fetches'
          /\ \A q \in DOMAIN fetches' : q \in DOMAIN fetches \/ q = Len(fetches) + 1
      BY <2>3, <2>4
    <3> QED
      BY <2>3, <3>1, <3>2 DEF CommandsKept
  <2> QED
    BY <1>2, <1>13, <2>1, <2>5, <2>6 DEF PageDownloads, PageFetches, trainingVars, viewVars
<1>14. CASE PageStopsTraining
  <2>1. OwnReset'
    BY <1>14 DEF PageStopsTraining, OwnReset, Stopped
  <2> QED
    BY <1>2, <1>14, <2>1 DEF PageStopsTraining, trainingVars
<1>15. ASSUME NEW r \in DOMAIN fetches, FetchFails(r)
       PROVE  WillShow'
  <2>1. CommandsKept
    <3>1. /\ fetches' \in Seq(Fetches) /\ Len(fetches') = Len(fetches)
          /\ fetches'[r].command = fetches[r].command
          /\ \A q \in DOMAIN fetches : q # r => fetches'[q] = fetches[q]
      BY <1>15, FailedFetch
    <3>2. DOMAIN fetches' = DOMAIN fetches
      BY <3>1 DEF Typed
    <3> QED
      BY <3>1, <3>2 DEF CommandsKept
  <2> QED
    BY <1>2, <1>3, <1>15, <2>1 DEF FetchFails, httpVars, trainingVars, wsVars, viewVars
<1>16. CASE UNCHANGED vars
  BY <1>2, <1>3, <1>16 DEF vars, httpVars, trainingVars, pageVars, wsVars, viewVars
<1> QED
  BY <1>5, <1>6, <1>7, <1>8, <1>9, <1>10, <1>11, <1>12, <1>13, <1>14, <1>15, <1>16
     DEF Next, ServerStep, PageStep

\* A page that is connected shows the rounds that incrementProgress and
\* setTotalSteps have counted as soon as no message is on its way, or what
\* startTraining or stopTraining have reset its bar to and no command the
\* server read has changed since, however commands, answers and history entries
\* are interleaved.
THEOREM ProgressAgreesHolds == Spec => []ProgressAgrees
<1>1. Init => ConnectedPageShows
  BY DEF Init, ConnectedPageShows
<1>2. ConnectedPageShows => ProgressAgrees
  BY DEF ConnectedPageShows, WillShow, ProgressAgrees
<1> QED
  BY <1>1, <1>2, TypesHold, ShownNext, PTL DEF Spec

-----------------------------------------------------------------------------
(* Files. *)

\* A connection that presupposes a request whose socket the server remembers.
HasSource(x) == x.method = "POST" \/ x.answered \/ x.out # << >>

SourceKnown == \A s \in DOMAIN sockets :
                  HasSource(sockets[s]) => m_currentClientForDownload # nullptr

FilesServed == \A file \in m_currentModelPath : <<file, file>> \in served

\* Connections that stay what they are presuppose nothing new.
LEMMA SourceKept ==
    ASSUME SourceKnown, UNCHANGED m_currentClientForDownload,
           DOMAIN sockets' = DOMAIN sockets,
           \A s \in DOMAIN sockets : HasSource(sockets'[s]) => HasSource(sockets[s])
    PROVE  SourceKnown'
  BY DEF SourceKnown

\* Each action keeps it: the first request of a page is a preflight.
LEMMA SourceNext ==
    Typed /\ AddressesUsed /\ SourceKnown /\ [Next]_vars => SourceKnown'
<1> SUFFICES ASSUME Typed, AddressesUsed, SourceKnown, [Next]_vars
             PROVE  SourceKnown'
  OBVIOUS
<1>1. sockets \in Seq(Sockets) /\ \A s \in DOMAIN sockets : sockets[s] \in Sockets
  BY DEF Typed
<1>2. ASSUME UNCHANGED httpVars
      PROVE  SourceKnown'
  BY <1>2 DEF httpVars, SourceKnown
<1>3. ASSUME NEW s \in DOMAIN sockets, sockets[s].state = "open",
             m_currentClientForDownload' = sockets[s].address
      PROVE  SourceKnown'
  BY <1>3 DEF AddressesUsed, SourceKnown
<1>4. ASSUME NEW s \in DOMAIN sockets, incomingConnection(s)
      PROVE  SourceKnown'
  <2>1. PICK a \in FreeAddresses :
           sockets' = [sockets EXCEPT ![s].state = "open", ![s].address = a]
    BY <1>4 DEF incomingConnection
  <2>2. /\ DOMAIN sockets' = DOMAIN sockets
        /\ \A t \in DOMAIN sockets : /\ sockets'[t].method = sockets[t].method
                                     /\ sockets'[t].answered = sockets[t].answered
                                     /\ sockets'[t].out = sockets[t].out
    BY <1>1, <2>1 DEF Sockets
  <2> QED
    BY <1>4, <2>2, SourceKept DEF incomingConnection, HasSource
<1>5. ASSUME NEW s \in DOMAIN sockets, BrowserCloses(s)
      PROVE  SourceKnown'
  <2>1. /\ DOMAIN sockets' = DOMAIN sockets
        /\ \A t \in DOMAIN sockets : /\ sockets'[t].method = sockets[t].method
                                     /\ sockets'[t].answered = sockets[t].answered
                                     /\ sockets'[t].out = sockets[t].out
    BY <1>1, <1>5 DEF BrowserCloses, Sockets
  <2> QED
    BY <1>5, <2>1, SourceKept DEF BrowserCloses, HasSource
<1>6. ASSUME NEW s \in DOMAIN sockets, PeerCloses(s)
      PROVE  SourceKnown'
  <2>1. /\ Closed(s, sockets) \in Seq(Sockets)
        /\ DOMAIN Closed(s, sockets) = DOMAIN sockets
        /\ \A t \in DOMAIN sockets : t # s => Closed(s, sockets)[t] = sockets[t]
        /\ Closed(s, sockets)[s] = ClosedSocket(sockets[s])
    BY <1>1, ClosedType DEF ClosedSocket
  <2>2. /\ DOMAIN sockets' = DOMAIN sockets
        /\ \A t \in DOMAIN sockets : SameOrDeleted(Closed(s, sockets)[t], sockets'[t])
    BY <1>6, <2>1, Deletes DEF PeerCloses
  <2>3. \A t \in DOMAIN sockets : HasSource(sockets'[t]) => HasSource(Closed(s, sockets)[t])
    BY <2>1, <2>2, FieldsKept DEF HasSource
  <2>4. HasSource(ClosedSocket(sockets[s])) => HasSource(sockets[s])
    BY <1>1 DEF ClosedSocket, Sockets, HasSource
  <2> QED
    BY <1>6, <2>1, <2>2, <2>3, <2>4, SourceKept DEF PeerCloses
<1>7. ASSUME NEW s \in DOMAIN sockets, ReadOptions(s)
      PROVE  SourceKnown'
  BY <1>3, <1>7 DEF ReadOptions
<1>8. ASSUME NEW s \in DOMAIN sockets, NEW split \in BOOLEAN, ReadPost(s, split)
      PROVE  SourceKnown'
  BY <1>3, <1>8 DEF ReadPost
<1>9. ASSUME NEW s \in DOMAIN sockets, BytesWritten(s)
      PROVE  SourceKnown'
  BY <1>9 DEF BytesWritten, SourceKnown, HasSource
<1>10. ASSUME NEW cmd, NEW preflight \in BOOLEAN, PageFetches(cmd, preflight)
       PROVE  SourceKnown'
  <2>1. CASE m_currentClientForDownload # nullptr
    BY <1>10, <2>1 DEF PageFetches, SourceKnown
  <2>2. CASE m_currentClientForDownload = nullptr
    <3>1. preflight
      BY <1>10, <2>2 DEF PageFetches, SourceKnown, HasSource
    <3>2. sockets' = Append(sockets, NewSocket(Len(fetches) + 1, "OPTIONS"))
      BY <1>10, <3>1 DEF PageFetches
    <3>3. ~HasSource(NewSocket(Len(fetches) + 1, "OPTIONS"))
      BY DEF NewSocket, HasSource
    <3>4. \A t \in DOMAIN sockets' : \/ t \in DOMAIN sockets /\ sockets'[t] = sockets[t]
                                     \/ sockets'[t] = NewSocket(Len(fetches) + 1, "OPTIONS")
      BY <1>1, <3>2
    <3> QED
      BY <1>10, <3>3, <3>4 DEF PageFetches, SourceKnown
  <2> QED
    BY <2>1, <2>2
<1>11. ASSUME NEW preflight \in BOOLEAN, PageStartsTraining(preflight) \/ PageDownloads(preflight)
       PROVE  SourceKnown'
  BY <1>10, <1>11 DEF PageStartsTraining, PageDownloads
<1>12. CASE \/ WebSocketConnects \/ WebSocketCloses \/ incrementProgress \/ PageReceives
            \/ \E m \in Models : addHistoryEntry(m)
  BY <1>2, <1>12 DEF WebSocketConnects, WebSocketCloses, incrementProgress, PageReceives,
                     addHistoryEntry
<1>13. CASE UNCHANGED vars
  BY <1>2, <1>13 DEF vars
<1>14. CASE PageStopsTraining \/ \E r \in DOMAIN fetches : FetchFails(r)
  BY <1>2, <1>14 DEF PageStopsTraining, FetchFails
<1> QED
  BY <1>4, <1>5, <1>6, <1>7, <1>8, <1>9, <1>11, <1>12, <1>13, <1>14 DEF Next, ServerStep, PageStep

WrongFiles == FilesServed /\ WrongFileOnlyForMissing

\* What a download command has written: the file named by the path it leaves.
LEMMA DownloadServes ==
    ASSUME NEW m \in Models, NEW socks, HandleDownload(m, socks), WrongFiles,
           m_currentClientForDownload # nullptr
    PROVE  WrongFiles'
<1>1. served \subseteq served'
  BY DEF HandleDownload
<1>2. m_currentModelPath' = {} => served' = served
  BY DEF HandleDownload
<1>3. m_currentModelPath' # {} =>
         \E file \in m_currentModelPath' : served' = served \cup {<<m, file>>}
  BY DEF HandleDownload
<1>4. \/ m \in NoDirectory /\ m_currentModelPath' = m_currentModelPath
      \/ m_currentModelPath' = {}
      \/ m_currentModelPath' = {m}
  BY DEF HandleDownload, ModelPathAfter
<1>5. FilesServed'
  <2> SUFFICES ASSUME NEW f \in m_currentModelPath'
               PROVE  <<f, f>> \in served'
    BY DEF FilesServed
  <2>1. CASE m_currentModelPath' = m_currentModelPath
    BY <1>1, <2>1 DEF WrongFiles, FilesServed
  <2>2. CASE m_currentModelPath' = {m}
    BY <1>3, <2>2
  <2> QED
    BY <1>4, <2>1, <2>2
<1>6. WrongFileOnlyForMissing'
  <2> SUFFICES ASSUME NEW p \in served', p[1] # p[2]
               PROVE  p[1] \in NoDirectory /\ <<p[2], p[2]>> \in served'
    BY DEF WrongFileOnlyForMissing
  <2>1. CASE p \in served
    BY <1>1, <2>1 DEF WrongFiles, WrongFileOnlyForMissing
  <2>2. CASE p \notin served
    <3>1. PICK file \in m_currentModelPath' : p = <<m, file>>
      BY <1>2, <1>3, <2>2
    <3>2. m \in NoDirectory
      BY <1>4, <3>1
    <3>3. <<file, file>> \in served'
      BY <1>5, <3>1 DEF FilesServed
    <3> QED
      BY <3>1, <3>2, <3>3
  <2> QED
    BY <2>1, <2>2
<1> QED
  BY <1>5, <1>6 DEF WrongFiles

\* Each action keeps it.
LEMMA WrongFilesNext ==
    Typed /\ SourceKnown /\ WrongFiles /\ [Next]_vars => WrongFiles'
<1> SUFFICES ASSUME Typed, SourceKnown, WrongFiles, [Next]_vars
             PROVE  WrongFiles'
  OBVIOUS
<1>1. ASSUME UNCHANGED served, m_currentModelPath' \subseteq m_currentModelPath
      PROVE  WrongFiles'
  BY <1>1 DEF WrongFiles, FilesServed, WrongFileOnlyForMissing
<1>2. ASSUME NEW s \in DOMAIN sockets, NEW split \in BOOLEAN, ReadPost(s, split)
      PROVE  WrongFiles'
  <2>1. m_currentClientForDownload # nullptr
    BY <1>2 DEF ReadPost, SourceKnown, HasSource
  <2>2. lastCommand' \subseteq Commands
    BY <1>2, ReadPostSockets
  <2>3. \/ UNCHANGED <<m_currentModelPath, served>>
        \/ \E m \in Models, socks \in {[sockets EXCEPT ![s].unread = FALSE, ![s].whole = ~split]} :
              HandleDownload(m, socks)
    BY <1>2, <2>2 DEF ReadPost, HandleTrain, Commands
  <2> QED
    BY <1>1, <2>1, <2>3, DownloadServes
<1>3. ASSUME NEW s \in DOMAIN sockets,
             \/ incomingConnection(s) \/ PeerCloses(s) \/ ReadOptions(s)
             \/ BytesWritten(s) \/ BrowserCloses(s)
      PROVE  WrongFiles'
  BY <1>1, <1>3 DEF incomingConnection, PeerCloses, ReadOptions, BytesWritten, BrowserCloses
<1>4. ASSUME NEW preflight \in BOOLEAN, PageStartsTraining(preflight) \/ PageDownloads(preflight)
      PROVE  WrongFiles'
  BY <1>1, <1>4 DEF PageStartsTraining, PageDownloads, PageFetches
<1>5. CASE \/ WebSocketConnects \/ WebSocketCloses \/ incrementProgress \/ PageReceives
           \/ \E m \in Models : addHistoryEntry(m)
  BY <1>1, <1>5 DEF WebSocketConnects, WebSocketCloses, incrementProgress, PageReceives,
                    addHistoryEntry, httpVars
<1>6. CASE UNCHANGED vars
  BY <1>1, <1>6 DEF vars, httpVars
<1>7. CASE PageStopsTraining \/ \E r \in DOMAIN fetches : FetchFails(r)
  BY <1>1, <1>7 DEF PageStopsTraining, FetchFails, httpVars
<1> QED
  BY <1>2, <1>3, <1>4, <1>5, <1>6, <1>7 DEF Next, ServerStep, PageStep

\* Before anything is accepted nothing is presupposed.
LEMMA SourceInit == Init => SourceKnown
  BY DEF Init, SourceKnown

\* handleUpload serves a file nobody asked for only in place of a model whose
\* directory is gone, and only one that was served before: whatever requests
\* overlap, are repeated or read in pieces.
THEOREM WrongFileOnlyForMissingHolds == Spec => []WrongFileOnlyForMissing
<1>1. Init => WrongFiles
  BY DEF Init, WrongFiles, FilesServed, WrongFileOnlyForMissing
<1>2. WrongFiles => WrongFileOnlyForMissing
  BY DEF WrongFiles
<1> QED
  BY <1>1, <1>2, SourceInit, TypesHold, SourceNext, WrongFilesNext, PTL DEF Spec

-----------------------------------------------------------------------------
(* The whole type invariant. *)

\* No two objects have one address, and a command is not answered by "ok".
Objects == /\ \A s, t \in DOMAIN sockets :
                 /\ Live(sockets[s]) /\ Live(sockets[t])
                 /\ sockets[s].address = sockets[t].address
                 => s = t
           /\ \A s \in DOMAIN sockets :
                 sockets[s].method = "POST" => sockets[s].out \in Seq(Answers)

\* y is what a step may make of x without giving it an object.
Follows(x, y) == /\ y.address = x.address /\ y.method = x.method
                 /\ Live(y) => Live(x)
                 /\ x.method = "POST" /\ x.out \in Seq(Answers) => y.out \in Seq(Answers)

Fresh(y) == ~Live(y) /\ y.out = << >>

\* Without a new object nothing gets ambiguous.
LEMMA ObjectsKept ==
    ASSUME Objects,
           \A t \in DOMAIN sockets' : \/ t \in DOMAIN sockets /\ Follows(sockets[t], sockets'[t])
                                      \/ Fresh(sockets'[t])
    PROVE  Objects'
<1>1. << >> \in Seq(Answers)
  OBVIOUS
<1>2. \A t \in DOMAIN sockets' :
         Live(sockets'[t]) => /\ t \in DOMAIN sockets /\ Live(sockets[t])
                              /\ sockets'[t].address = sockets[t].address
  BY DEF Follows, Fresh
<1>3. \A t \in DOMAIN sockets' :
         sockets'[t].method = "POST" => sockets'[t].out \in Seq(Answers)
  BY <1>1 DEF Objects, Follows, Fresh
<1> QED
  BY <1>2, <1>3 DEF Objects

\* Each action keeps it.
LEMMA ObjectsNext == Typed /\ AddressesUsed /\ Objects /\ [Next]_vars => Objects'
<1> SUFFICES ASSUME Typed, AddressesUsed, Objects, [Next]_vars
             PROVE  Objects'
  OBVIOUS
<1>1. /\ sockets \in Seq(Sockets) /\ DOMAIN sockets = 1..Len(sockets)
      /\ \A t \in DOMAIN sockets : sockets[t] \in Sockets
  BY DEF Typed
<1>2. ASSUME UNCHANGED sockets
      PROVE  Objects'
  BY <1>2 DEF Objects
<1>3. ASSUME NEW s \in DOMAIN sockets, NEW y \in Sockets, sockets' = [sockets EXCEPT ![s] = y],
             Follows(sockets[s], y)
      PROVE  Objects'
  <2>1. /\ DOMAIN sockets' = DOMAIN sockets /\ sockets'[s] = y
        /\ \A t \in DOMAIN sockets : t # s => sockets'[t] = sockets[t]
    BY <1>3, OneTouched
  <2>2. \A t \in DOMAIN sockets : Follows(sockets[t], sockets'[t])
    BY <1>3, <2>1 DEF Follows
  <2> QED
    BY <2>1, <2>2, ObjectsKept
<1>4. ASSUME NEW preflight \in BOOLEAN, PageStartsTraining(preflight) \/ PageDownloads(preflight)
      PROVE  Objects'
  <2>1. PICK method \in {"OPTIONS", "POST"} :
           sockets' = Append(sockets, NewSocket(Len(fetches) + 1, method))
    BY <1>4 DEF PageStartsTraining, PageDownloads, PageFetches
  <2>2. \A t \in DOMAIN sockets' : \/ t \in DOMAIN sockets /\ sockets'[t] = sockets[t]
                                   \/ sockets'[t] = NewSocket(Len(fetches) + 1, method)
    BY <1>1, <2>1
  <2>3. Fresh(NewSocket(Len(fetches) + 1, method))
    BY DEF Fresh, NewSocket, Live
  <2>4. \A t \in DOMAIN sockets : Follows(sockets[t], sockets[t])
    BY DEF Follows
  <2> QED
    BY <2>2, <2>3, <2>4, ObjectsKept
<1>5. ASSUME NEW s \in DOMAIN sockets, BrowserCloses(s)
      PROVE  Objects'
  <2> DEFINE y == [sockets[s] EXCEPT !.peerClosed = TRUE]
  <2>1. y \in Sockets /\ sockets' = [sockets EXCEPT ![s] = y]
    BY <1>1, <1>5 DEF BrowserCloses, Sockets
  <2>2. Follows(sockets[s], y)
    BY <1>1 DEF Follows, Sockets, Live
  <2> HIDE DEF y
  <2> QED
    BY <1>3, <2>1, <2>2
<1>6. ASSUME NEW s \in DOMAIN sockets, incomingConnection(s)
      PROVE  Objects'
  <2>1. PICK a \in FreeAddresses :
           sockets' = [sockets EXCEPT ![s].state = "open", ![s].address = a]
    BY <1>6 DEF incomingConnection
  <2> DEFINE y == [sockets[s] EXCEPT !.state = "open", !.address = a]
  <2>2. a \in Nat /\ \A t \in DOMAIN sockets : Live(sockets[t]) => sockets[t].address # a
    BY <2>1, FreeAddress
  <2>3. y \in Sockets /\ y.address = a /\ y.method = sockets[s].method /\ y.out = sockets[s].out
    BY <1>1, <2>2 DEF Sockets
  <2>4. sockets' = [sockets EXCEPT ![s] = y]
    BY <1>1, <2>1
  <2> HIDE DEF y
  <2>5. /\ DOMAIN sockets' = DOMAIN sockets /\ sockets'[s] = y
        /\ \A t \in DOMAIN sockets : t # s => sockets'[t] = sockets[t]
    BY <2>3, <2>4, OneTouched
  <2> QED
    BY <2>2, <2>3, <2>5 DEF Objects
<1>7. ASSUME NEW s \in DOMAIN sockets, PeerCloses(s)
      PROVE  Objects'
  <2>1. /\ Closed(s, sockets) \in Seq(Sockets)
        /\ DOMAIN Closed(s, sockets) = DOMAIN sockets
        /\ \A t \in DOMAIN sockets : t # s => Closed(s, sockets)[t] = sockets[t]
        /\ Closed(s, sockets)[s] = ClosedSocket(sockets[s])
    BY <1>1, ClosedType DEF ClosedSocket
  <2>2. /\ DOMAIN sockets' = DOMAIN sockets
        /\ \A t \in DOMAIN sockets : SameOrDeleted(Closed(s, sockets)[t], sockets'[t])
    BY <1>7, <2>1, Deletes DEF PeerCloses
  <2>3. \A t \in DOMAIN sockets : Follows(Closed(s, sockets)[t], sockets'[t])
    BY <2>1, <2>2, FieldsKept DEF Follows
  <2>4. Follows(sockets[s], ClosedSocket(sockets[s]))
    <3>1. << >> \in Seq(Answers)
      OBVIOUS
    <3>2. Live(sockets[s])
      BY <1>7 DEF PeerCloses, Live
    <3> QED
      BY <1>1, <3>1, <3>2 DEF ClosedSocket, Sockets, Follows
  <2>5. \A t \in DOMAIN sockets : Follows(sockets[t], sockets'[t])
    BY <2>1, <2>3, <2>4 DEF Follows
  <2> QED
    BY <2>2, <2>5, ObjectsKept
<1>8. ASSUME NEW s \in DOMAIN sockets, ReadOptions(s)
      PROVE  Objects'
  <2> DEFINE y == [sockets[s] EXCEPT !.unread = FALSE, !.out = Append(@, "ok")]
  <2>1. Append(sockets[s].out, "ok") \in Seq(Written)
    BY <1>1 DEF Sockets, Written
  <2>2. y \in Sockets /\ sockets' = [sockets EXCEPT ![s] = y]
    BY <1>1, <1>8, <2>1 DEF ReadOptions, Sockets
  <2>3. Follows(sockets[s], y)
    BY <1>1, <1>8 DEF Follows, Sockets, Live, ReadOptions
  <2> HIDE DEF y
  <2> QED
    BY <1>3, <2>2, <2>3
<1>9. ASSUME NEW s \in DOMAIN sockets, NEW split \in BOOLEAN, ReadPost(s, split)
      PROVE  Objects'
  <2> DEFINE before(t) == IF t = s THEN Read(sockets[t], split) ELSE sockets[t]
  <2>1. /\ DOMAIN sockets' = DOMAIN sockets
        /\ \A t \in DOMAIN sockets : [sockets EXCEPT ![s].unread = FALSE, ![s].whole = ~split][t] = before(t)
        /\ \/ sockets' = [sockets EXCEPT ![s].unread = FALSE, ![s].whole = ~split]
           \/ \E answer \in Answers, onWritten \in BOOLEAN :
                 \A t \in DOMAIN sockets :
                    SameOrAnswered(before(t), sockets'[t], answer, onWritten)
    BY <1>9, ReadPostSockets
  <2>2. \A t \in DOMAIN sockets : before(t) \in Sockets /\ Follows(sockets[t], before(t))
    <3> SUFFICES ASSUME NEW t \in DOMAIN sockets
                 PROVE  before(t) \in Sockets /\ Follows(sockets[t], before(t))
      OBVIOUS
    <3>1. sockets[t] \in Sockets
      BY <1>1
    <3>2. Read(sockets[t], split) \in Sockets /\ Follows(sockets[t], Read(sockets[t], split))
      BY <3>1, ReadType DEF SameConnection, Follows, Live
    <3> QED
      BY <3>1, <3>2 DEF Follows
  <2> HIDE DEF before
  <2>3. CASE sockets' = [sockets EXCEPT ![s].unread = FALSE, ![s].whole = ~split]
    <3>1. \A t \in DOMAIN sockets' : t \in DOMAIN sockets /\ Follows(sockets[t], sockets'[t])
      BY <2>1, <2>2, <2>3
    <3> QED
      BY <3>1, ObjectsKept
  <2>4. ASSUME NEW answer \in Answers, NEW onWritten \in BOOLEAN,
               \A t \in DOMAIN sockets :
                  SameOrAnswered(before(t), sockets'[t], answer, onWritten)
        PROVE  Objects'
    <3>1. ASSUME NEW t \in DOMAIN sockets
          PROVE  Follows(sockets[t], sockets'[t])
      <4>1. before(t) \in Sockets /\ Follows(sockets[t], before(t))
        BY <2>2
      <4>2. SameOrAnswered(before(t), sockets'[t], answer, onWritten)
        BY <2>4
      <4>3. /\ sockets'[t].address = before(t).address /\ sockets'[t].method = before(t).method
            /\ sockets'[t].state = before(t).state
        BY <4>1, <4>2, FieldsKept
      <4>4. sockets'[t].out = before(t).out \/ sockets'[t].out = Append(before(t).out, answer)
        BY <4>1, <4>2 DEF SameOrAnswered, Answered, Sockets
      <4>5. before(t).out \in Seq(Answers) => sockets'[t].out \in Seq(Answers)
        BY <4>4
      <4> QED
        BY <4>1, <4>3, <4>5 DEF Follows, Live
    <3> QED
      BY <2>1, <3>1, ObjectsKept
  <2> QED
    BY <2>1, <2>3, <2>4
<1>10. ASSUME NEW s \in DOMAIN sockets, BytesWritten(s)
       PROVE  Objects'
  <2>1. /\ sockets' \in Seq(Sockets)
        /\ IF AnswersPreflight(s)
           THEN /\ Len(sockets') = Len(sockets) + 1
                /\ sockets'[Len(sockets) + 1] = NewSocket(sockets[s].fetch, "POST")
           ELSE Len(sockets') = Len(sockets)
        /\ \A t \in DOMAIN sockets : t # s => SameOrDeleted(sockets[t], sockets'[t])
        /\ IF sockets[s].onWritten \/ sockets[s].closing
           THEN SameOrDeleted(ClosedSocket(Sent(sockets[s])), sockets'[s])
           ELSE sockets'[s] = Sent(sockets[s]) /\ UNCHANGED crashed
    BY <1>10, BytesWrittenSockets
  <2>2. \A t \in DOMAIN sockets : t # s => Follows(sockets[t], sockets'[t])
    BY <1>1, <2>1, FieldsKept DEF Follows
  <2>3. << >> \in Seq(Answers) /\ Live(sockets[s]) /\ sockets[s] \in Sockets
    BY <1>1, <1>10 DEF BytesWritten, Live
  <2>4. /\ Sent(sockets[s]) \in Sockets /\ Sent(sockets[s]).out = << >>
        /\ Sent(sockets[s]).address = sockets[s].address
        /\ Sent(sockets[s]).method = sockets[s].method
        /\ Sent(sockets[s]).state = "open"
    BY <1>10, <2>3, SentType DEF Sent, Sockets, BytesWritten
  <2>5. /\ ClosedSocket(Sent(sockets[s])) \in Sockets
        /\ ClosedSocket(Sent(sockets[s])).out = << >>
        /\ ClosedSocket(Sent(sockets[s])).address = sockets[s].address
        /\ ClosedSocket(Sent(sockets[s])).method = sockets[s].method
    BY <2>4, SentType DEF ClosedSocket, Sockets
  <2>6. Follows(sockets[s], sockets'[s])
    <3>1. CASE sockets'[s] = Sent(sockets[s])
      BY <2>3, <2>4, <3>1 DEF Follows
    <3>2. CASE SameOrDeleted(ClosedSocket(Sent(sockets[s])), sockets'[s])
      <4>1. /\ sockets'[s].out = << >> /\ sockets'[s].address = sockets[s].address
            /\ sockets'[s].method = sockets[s].method
        BY <2>5, <3>2, FieldsKept
      <4> QED
        BY <2>3, <4>1 DEF Follows
    <3> QED
      BY <2>1, <3>1, <3>2
  <2>7. Fresh(NewSocket(sockets[s].fetch, "POST"))
    BY DEF Fresh, NewSocket, Live
  <2>8. \A t \in DOMAIN sockets' :
           \/ t \in DOMAIN sockets
           \/ AnswersPreflight(s) /\ t = Len(sockets) + 1
    BY <1>1, <2>1
  <2>9. \A t \in DOMAIN sockets' : t \in DOMAIN sockets \/ Fresh(sockets'[t])
    BY <2>1, <2>7, <2>8
  <2> QED
    BY <2>2, <2>6, <2>9, ObjectsKept
<1>11. CASE \/ WebSocketConnects \/ WebSocketCloses \/ incrementProgress \/ PageReceives
            \/ \E m \in Models : addHistoryEntry(m)
  BY <1>2, <1>11 DEF WebSocketConnects, WebSocketCloses, incrementProgress, PageReceives,
                     addHistoryEntry, httpVars
<1>12. CASE UNCHANGED vars
  BY <1>2, <1>12 DEF vars, httpVars
<1>13. CASE PageStopsTraining \/ \E r \in DOMAIN fetches : FetchFails(r)
  BY <1>2, <1>13 DEF PageStopsTraining, FetchFails, httpVars
<1> QED
  BY <1>4, <1>5, <1>6, <1>7, <1>8, <1>9, <1>10, <1>11, <1>12, <1>13
     DEF Next, ServerStep, PageStep

\* The results of the fetches, the history and the progress.
Values == /\ \A r \in DOMAIN fetches : fetches[r].result \in Answers \cup {"pending", "failed"}
          /\ records \subseteq announced
          /\ \A i \in DOMAIN wsQueue : IsHistory(wsQueue[i]) => wsQueue[i].model \in announced
          /\ m_currentStep <= m_totalSteps

\* A message more, or those that were there.
LEMMA AppendsMessage ==
    ASSUME Typed, NEW msg \in Texts, broadcastMessage(msg)
    PROVE  \A i \in DOMAIN wsQueue' : \/ wsQueue'[i] = msg
                                      \/ i \in DOMAIN wsQueue /\ wsQueue'[i] = wsQueue[i]
<1>1. wsQueue \in Seq(Texts)
  BY DEF Typed
<1> QED
  BY <1>1 DEF broadcastMessage

\* Each action keeps them.
LEMMA ValuesNext == Typed /\ Objects /\ Values /\ [Next]_vars => Values'
<1> SUFFICES ASSUME Typed, Objects, Values, [Next]_vars
             PROVE  Values'
  OBVIOUS
<1>1. /\ fetches \in Seq(Fetches) /\ wsQueue \in Seq(Texts)
      /\ m_currentStep \in Nat /\ m_totalSteps \in Nat
  BY DEF Typed
<1>2. Progress(m_currentStep, m_totalSteps) \in Texts
      /\ ~IsHistory(Progress(m_currentStep, m_totalSteps))
  BY <1>1 DEF Progress, Texts, IsHistory
<1>3. ASSUME UNCHANGED <<fetches, records, wsQueue, m_currentStep, m_totalSteps, announced>>
      PROVE  Values'
  BY <1>3 DEF Values
<1>4. ASSUME NEW preflight \in BOOLEAN, PageStartsTraining(preflight) \/ PageDownloads(preflight)
      PROVE  Values'
  <2>1. PICK cmd : PageFetches(cmd, preflight)
    BY <1>4 DEF PageStartsTraining, PageDownloads
  <2>2. fetches' = Append(fetches, [command |-> cmd, result |-> "pending"])
    BY <2>1 DEF PageFetches
  <2>3. \A r \in DOMAIN fetches' : \/ r \in DOMAIN fetches /\ fetches'[r] = fetches[r]
                                   \/ fetches'[r].result = "pending"
    BY <1>1, <2>2
  <2> QED
    BY <2>1, <2>3 DEF PageFetches, Values, trainingVars
<1>5. ASSUME NEW s \in DOMAIN sockets,
             BrowserCloses(s) \/ incomingConnection(s) \/ PeerCloses(s) \/ ReadOptions(s)
      PROVE  Values'
  BY <1>3, <1>5 DEF BrowserCloses, incomingConnection, PeerCloses, ReadOptions,
                    trainingVars, pageVars, wsVars
<1>6. ASSUME NEW s \in DOMAIN sockets, NEW split \in BOOLEAN, ReadPost(s, split)
      PROVE  Values'
  <2>1. UNCHANGED <<fetches, records, announced>>
    BY <1>6 DEF ReadPost
  <2>2. lastCommand' \subseteq Commands
    BY <1>6, ReadPostSockets
  <2>3. \/ UNCHANGED <<m_currentStep, m_totalSteps, wsQueue>>
        \/ \E n \in Nat : /\ m_totalSteps' = n /\ m_currentStep' = 0
                          /\ broadcastMessage(Progress(0, n))
    BY <1>6, <2>2 DEF ReadPost, HandleTrain, HandleDownload, Commands
  <2>4. ASSUME NEW n \in Nat, m_totalSteps' = n, m_currentStep' = 0,
               broadcastMessage(Progress(0, n))
        PROVE  Values'
    <3>1. Progress(0, n) \in Texts /\ ~IsHistory(Progress(0, n))
      BY DEF Progress, Texts, IsHistory
    <3>2. \A i \in DOMAIN wsQueue' : \/ wsQueue'[i] = Progress(0, n)
                                     \/ i \in DOMAIN wsQueue /\ wsQueue'[i] = wsQueue[i]
      BY <2>4, <3>1, AppendsMessage
    <3>3. m_currentStep' <= m_totalSteps'
      BY <2>4
    <3> QED
      BY <2>1, <3>1, <3>2, <3>3 DEF Values
  <2> QED
    BY <1>3, <2>1, <2>3, <2>4
<1>7. ASSUME NEW s \in DOMAIN sockets, BytesWritten(s)
      PROVE  Values'
  <2>1. UNCHANGED <<wsQueue, m_currentStep, m_totalSteps, announced>>
    BY <1>7 DEF BytesWritten, trainingVars, wsVars
  <2>2. CASE UNCHANGED pageVars
    BY <1>3, <2>1, <2>2 DEF pageVars
  <2>3. CASE sockets[s].method = "POST" /\ PageGets(sockets[s].fetch, Head(sockets[s].out))
    <3>1. sockets[s].out \in Seq(Answers) /\ sockets[s].out # << >>
      BY <1>7, <2>3 DEF BytesWritten, Objects
    <3>2. Head(sockets[s].out) \in Answers
      BY <3>1
    <3>3. sockets[s].fetch \in DOMAIN fetches /\ fetches[sockets[s].fetch] \in Fetches
      BY <1>1 DEF Typed
    <3>4. fetches' = [fetches EXCEPT ![sockets[s].fetch] =
                         [fetches[sockets[s].fetch] EXCEPT !.result = Head(sockets[s].out)]]
      BY <2>3 DEF PageGets
    <3>5. \A r \in DOMAIN fetches' :
             /\ r \in DOMAIN fetches
             /\ fetches'[r] = fetches[r] \/ fetches'[r].result = Head(sockets[s].out)
      BY <1>1, <3>3, <3>4 DEF Fetches
    <3>6. \A r \in DOMAIN fetches' : fetches'[r].result \in Answers \cup {"pending", "failed"}
      BY <3>2, <3>5 DEF Values
    <3>7. records' \subseteq records
      BY <2>3 DEF PageGets
    <3> QED
      BY <2>1, <3>6, <3>7 DEF Values
  <2> QED
    BY <1>7, <2>2, <2>3 DEF BytesWritten
<1>8. CASE WebSocketConnects
  <2>1. \A i \in DOMAIN wsQueue' : \/ wsQueue'[i] = Progress(m_currentStep, m_totalSteps)
                                   \/ i \in DOMAIN wsQueue /\ wsQueue'[i] = wsQueue[i]
    BY <1>1, <1>2, <1>8 DEF WebSocketConnects
  <2> QED
    BY <1>2, <1>8, <2>1 DEF WebSocketConnects, Values, trainingVars, pageVars
<1>9. CASE WebSocketCloses
  <2>1. DOMAIN wsQueue' = {}
    BY <1>9 DEF WebSocketCloses
  <2> QED
    BY <1>9, <2>1 DEF WebSocketCloses, Values, trainingVars, pageVars
<1>10. CASE incrementProgress
  <2>1. /\ m_currentStep' = m_currentStep + 1 /\ m_totalSteps' = m_totalSteps
        /\ m_currentStep < m_totalSteps /\ broadcastMessage(Progress(m_currentStep', m_totalSteps))
    BY <1>10 DEF incrementProgress
  <2>2. Progress(m_currentStep', m_totalSteps) \in Texts
        /\ ~IsHistory(Progress(m_currentStep', m_totalSteps))
    BY <1>1, <2>1 DEF Progress, Texts, IsHistory
  <2>3. \A i \in DOMAIN wsQueue' : \/ wsQueue'[i] = Progress(m_currentStep', m_totalSteps)
                                   \/ i \in DOMAIN wsQueue /\ wsQueue'[i] = wsQueue[i]
    BY <2>1, <2>2, AppendsMessage
  <2>4. m_currentStep' <= m_totalSteps'
    BY <1>1, <2>1
  <2> QED
    BY <1>10, <2>2, <2>3, <2>4 DEF incrementProgress, Values, pageVars
<1>11. ASSUME NEW m \in Models, addHistoryEntry(m)
       PROVE  Values'
  <2> DEFINE msg == [type |-> "history", model |-> m]
  <2>1. msg \in Texts /\ msg.model = m
    BY DEF Texts
  <2>2. broadcastMessage(msg) /\ announced' = announced \cup {m}
    BY <1>11 DEF addHistoryEntry
  <2> HIDE DEF msg
  <2>3. \A i \in DOMAIN wsQueue' : \/ wsQueue'[i] = msg
                                   \/ i \in DOMAIN wsQueue /\ wsQueue'[i] = wsQueue[i]
    BY <2>1, <2>2, AppendsMessage
  <2> QED
    BY <1>11, <2>1, <2>2, <2>3 DEF addHistoryEntry, Values, pageVars
<1>12. CASE PageReceives
  <2>1. wsQueue # << >> /\ wsQueue' = Tail(wsQueue)
    BY <1>12 DEF PageReceives
  <2>2. \A i \in DOMAIN wsQueue' : \E j \in DOMAIN wsQueue : wsQueue'[i] = wsQueue[j]
    <3> SUFFICES ASSUME NEW i \in DOMAIN wsQueue'
                 PROVE  \E j \in DOMAIN wsQueue : wsQueue'[i] = wsQueue[j]
      OBVIOUS
    <3>1. i + 1 \in DOMAIN wsQueue /\ wsQueue'[i] = wsQueue[i + 1]
      BY <1>1, <2>1
    <3> QED
      BY <3>1
  <2>3. 1 \in DOMAIN wsQueue /\ Head(wsQueue) = wsQueue[1]
    BY <1>1, <2>1
  <2>4. records' \subseteq announced
    BY <1>12, <2>3 DEF PageReceives, Values, IsHistory
  <2>5. \A i \in DOMAIN wsQueue' : IsHistory(wsQueue'[i]) => wsQueue'[i].model \in announced
    BY <2>2 DEF Values
  <2> QED
    BY <1>12, <2>4, <2>5 DEF PageReceives, Values, trainingVars
<1>13. CASE UNCHANGED vars
  BY <1>3, <1>13 DEF vars, trainingVars, pageVars, wsVars
<1>14. CASE PageStopsTraining
  BY <1>3, <1>14 DEF PageStopsTraining, trainingVars, pageVars
<1>15. ASSUME NEW r \in DOMAIN fetches, FetchFails(r)
       PROVE  Values'
  <2>1. \A q \in DOMAIN fetches' : \/ q \in DOMAIN fetches /\ fetches'[q] = fetches[q]
                                   \/ fetches'[q].result = "failed"
    BY <1>1, <1>15, FailedFetch
  <2> QED
    BY <1>15, <2>1 DEF FetchFails, Values, trainingVars, wsVars
<1> QED
  BY <1>4, <1>5, <1>6, <1>7, <1>8, <1>9, <1>10, <1>11, <1>12, <1>13, <1>14, <1>15
     DEF Next, ServerStep, PageStep

\* Together they are the type invariant.
LEMMA TypesImply == Typed /\ AddressesUsed /\ Objects /\ Values => TypeOK
<1> SUFFICES ASSUME Typed, AddressesUsed, Objects, Values
             PROVE  TypeOK
  OBVIOUS
<1>1. ASSUME NEW s \in DOMAIN sockets
      PROVE  /\ sockets[s].state \in {"arriving", "open", "closed", "deleted"}
             /\ sockets[s].fetch \in DOMAIN fetches
             /\ ToSet(sockets[s].out) \subseteq Answers \cup {"ok"}
             /\ sockets[s].state \in {"open", "closed"} =>
                   ObjectsAt(sockets[s].address, sockets) = {s}
  <2>1. sockets[s] \in Sockets /\ sockets[s].fetch \in DOMAIN fetches
    BY DEF Typed
  <2>2. sockets[s].out \in Seq(Written)
    BY <2>1 DEF Sockets
  <2>3. ToSet(sockets[s].out) \subseteq Answers \cup {"ok"}
    BY <2>2 DEF ToSet, Answers, Written
  <2>4. sockets[s].state \in {"open", "closed"} =>
           ObjectsAt(sockets[s].address, sockets) = {s}
    BY DEF Objects, ObjectsAt, Live
  <2> QED
    BY <2>1, <2>3, <2>4 DEF Sockets
<1>2. m_currentStep \in 0..m_totalSteps
  BY DEF Typed, Values
<1> QED
  BY <1>1, <1>2 DEF TypeOK, Typed, Values

\* Whatever the page, the browser and the network do, InteractionFromUI's
\* variables keep their types; in particular two sockets never have one
\* address, although clientSocket and m_currentClientForDownload outlive the
\* objects they point to.
THEOREM TypeCorrect == Spec => []TypeOK
<1>1. Init => Objects /\ Values
  BY DEF Init, Objects, Values
<1> QED
  BY <1>1, TypesHold, ObjectsNext, ValuesNext, TypesImply, PTL DEF Spec

-----------------------------------------------------------------------------
(* The invariant.  An orderly page is served in turns: first the preflight   *)
(* of its last fetch, on the connection made last, then the command.         *)

Newest == Len(sockets)
Fetch  == Len(fetches)

Result  == fetches[Fetch].result
Command == fetches[Fetch].command

\* A connection that has ended or that the server is done with.
Idle(x) == \/ x.state \in {"closed", "deleted"}
           \/ ~x.unread /\ x.out = << >> /\ x.state # "arriving"

Earlier(j) == \A t \in DOMAIN sockets : t < j => Idle(sockets[t])

\* No earlier object lives at the address of the j-th.
Unshared(j) == \A t \in DOMAIN sockets :
                  t < j /\ Live(sockets[t]) => sockets[t].address # sockets[j].address

\* A download of f has failed.
Lost(f) == \E q \in DOMAIN fetches :
               fetches[q] = [command |-> DownloadCommand(f), result |-> "failed"]

\* A file that is served by mistake cannot be opened, or a download of it has
\* failed.
Excused(f) == f \in Unreadable \/ Lost(f)

Harmless == \A f \in m_currentModelPath : Excused(f)

\* While m is downloaded, its own file may be left besides.
Left(m) == \A f \in m_currentModelPath : f = m \/ Excused(f)

\* A preflight that is on its way, or answered to the socket that is remembered.
Asks(x) == /\ x.method = "OPTIONS" /\ x.fetch = Fetch
           /\ ~x.answered /\ ~x.peerClosed
           /\ IF x.unread THEN x.out = << >>
                          ELSE /\ x.out # << >> /\ x.state # "arriving"
                               /\ m_currentClientForDownload = x.address

Asking == /\ Newest >= 1 /\ Fetch >= 1
          /\ Asks(sockets[Newest])
          /\ sockets[Newest].state # "arriving" => Unshared(Newest)
          /\ Earlier(Newest)
          /\ Harmless
          /\ Result = "pending"

Preflighted(x) == /\ x.method = "OPTIONS" /\ x.answered
                  /\ ~x.unread /\ x.state # "arriving"

\* The answers that the last fetch may get.
MayGet(m) == {RightAnswer(m)} \cup (IF m \in NoDirectory THEN FailedBefore(Fetch) ELSE {})

\* The answer to a download has gone to another socket, is written, or given.
AnswerTo(m, y) ==
    \/ y.out = << >> /\ Result = "pending"
    \/ \E a \in MayGet(m) : y.out = <<a>> /\ Result = "pending" /\ (Harmless \/ y.onWritten)
    \/ y.out = << >> /\ Result \in MayGet(m) /\ Harmless

Waits(y) == /\ m_currentClientForDownload = sockets[Newest - 1].address
            /\ Unshared(Newest - 1)
            /\ y.out = << >> /\ Harmless /\ Result = "pending"

Handled(y) == /\ y.state # "arriving"
              /\ IF Command.type = "U"
                 THEN AnswerTo(Command.param, y) /\ Left(Command.param)
                 ELSE y.out = << >> /\ Harmless /\ Result = "pending"

GivesCommand(y) == /\ y.method = "POST" /\ y.fetch = Fetch
                   /\ IF y.unread THEN Waits(y) ELSE Handled(y)

Commanding == /\ Newest >= 2 /\ Fetch >= 1
              /\ Preflighted(sockets[Newest - 1])
              /\ GivesCommand(sockets[Newest])
              /\ Earlier(Newest - 1)

Starting == Newest = 0 /\ Fetch = 0 /\ Harmless

\* The last fetch has failed, as its connection has ended.
Failing == /\ Fetch >= 1 /\ Result = "failed"
           /\ \A t \in DOMAIN sockets : Idle(sockets[t]) \/ Preflighted(sockets[t])
           /\ Harmless

TurnOn == Starting \/ Asking \/ Commanding \/ Failing

Orderliness == orderly /\ ~crashed

Turn == Orderliness => TurnOn

IInv == Typed /\ AddressesUsed /\ Turn

-----------------------------------------------------------------------------
(* Steps that leave the turn where it is. *)

\* y is the connection x, perhaps without its object or what was to be sent.
Weaker(x, y) == /\ y.fetch = x.fetch /\ y.method = x.method /\ y.address = x.address
                /\ y.unread = x.unread /\ y.answered = x.answered
                /\ y.onWritten = x.onWritten
                /\ y.out = x.out \/ y.out = << >>
                /\ y.state = x.state \/ y.state \in {"closed", "deleted"}
                /\ Live(y) => Live(x)
                /\ y.state = "arriving" <=> x.state = "arriving"
                /\ x.method = "OPTIONS" /\ ~x.answered /\ ~x.peerClosed
                      => y.out = x.out /\ ~y.peerClosed

\* A turn goes on when connections end and nothing is read or answered.
LEMMA TurnKept ==
    ASSUME Typed, Turn, Orderliness' => Orderliness,
           sockets' \in Seq(Sockets), DOMAIN sockets' = DOMAIN sockets,
           \A t \in DOMAIN sockets : Weaker(sockets[t], sockets'[t]),
           UNCHANGED <<fetches, m_currentClientForDownload>>,
           m_currentModelPath' \subseteq m_currentModelPath
    PROVE  Turn'
<1> SUFFICES ASSUME TurnOn
             PROVE  TurnOn'
  BY DEF Turn
<1>1. sockets \in Seq(Sockets) /\ DOMAIN sockets = 1..Newest /\ Newest \in Nat
  BY DEF Typed, Newest
<1>2. Newest' = Newest
  BY <1>1 DEF Newest
<1>3. Fetch' = Fetch /\ Result' = Result /\ Command' = Command
  BY DEF Fetch, Result, Command
<1>4. \A j : Earlier(j) => \A t \in DOMAIN sockets' : t < j => Idle(sockets'[t])
  BY DEF Earlier, Idle, Weaker
<1>5. \A j \in DOMAIN sockets : Unshared(j) =>
         \A t \in DOMAIN sockets' :
            t < j /\ Live(sockets'[t]) => sockets'[t].address # sockets'[j].address
  BY DEF Unshared, Weaker
<1>6. (Harmless => Harmless') /\ \A m : Left(m) => Left(m)'
  BY DEF Excused, Lost, Harmless, Left
<1>7. CASE Starting
  BY <1>2, <1>3, <1>6, <1>7 DEF Starting, TurnOn
<1>8. CASE Asking
  <2>1. Newest \in DOMAIN sockets /\ Newest >= 1 /\ Fetch >= 1
    BY <1>1, <1>8 DEF Asking
  <2>2. Asks(sockets[Newest])'
    BY <1>2, <1>3, <1>8, <2>1 DEF Asking, Asks, Weaker
  <2>3. (sockets[Newest].state # "arriving" => Unshared(Newest))'
    BY <1>2, <1>5, <1>8, <2>1 DEF Asking, Unshared, Weaker
  <2>4. Earlier(Newest)'
    BY <1>2, <1>4, <1>8 DEF Asking, Earlier
  <2> QED
    BY <1>2, <1>3, <1>6, <1>8, <2>1, <2>2, <2>3, <2>4 DEF Asking, TurnOn
<1>9. CASE Commanding
  <2>1. /\ Newest \in DOMAIN sockets /\ Newest - 1 \in DOMAIN sockets
        /\ Newest >= 2 /\ Fetch >= 1
    BY <1>1, <1>9 DEF Commanding
  <2>2. Preflighted(sockets[Newest - 1])'
    BY <1>2, <1>9, <2>1 DEF Commanding, Preflighted, Weaker
  <2>3. Earlier(Newest - 1)'
    BY <1>2, <1>4, <1>9 DEF Commanding, Earlier
  <2>4. Waits(sockets[Newest]) => Waits(sockets[Newest])'
    BY <1>2, <1>3, <1>5, <1>6, <2>1 DEF Waits, Unshared, Weaker
  <2>5. Handled(sockets[Newest]) => Handled(sockets[Newest])'
    <3>1. \A m : AnswerTo(m, sockets[Newest]) => AnswerTo(m, sockets[Newest])'
      <4>1. \A m : MayGet(m)' = MayGet(m)
        BY <1>3 DEF MayGet, RightAnswer, FailedBefore
      <4> QED
        BY <1>2, <1>3, <1>6, <2>1, <4>1 DEF AnswerTo, Weaker
    <3>2. sockets'[Newest'].state = "arriving" <=> sockets[Newest].state = "arriving"
      BY <1>2, <2>1 DEF Weaker
    <3>3. sockets[Newest].out = << >> => sockets'[Newest'].out = << >>
      BY <1>2, <2>1 DEF Weaker
    <3> QED
      BY <1>3, <1>6, <3>1, <3>2, <3>3 DEF Handled
  <2>6. GivesCommand(sockets[Newest])'
    BY <1>2, <1>3, <1>9, <2>1, <2>4, <2>5 DEF Commanding, GivesCommand, Weaker
  <2> QED
    BY <1>2, <1>3, <2>1, <2>2, <2>3, <2>6 DEF Commanding, TurnOn
<1>10. CASE Failing
  <2>1. (\A t \in DOMAIN sockets : Idle(sockets[t]) \/ Preflighted(sockets[t]))'
    BY <1>10 DEF Failing, Idle, Preflighted, Weaker
  <2> QED
    BY <1>3, <1>6, <1>10, <2>1 DEF Failing, TurnOn
<1> QED
  BY <1>7, <1>8, <1>9, <1>10 DEF TurnOn

-----------------------------------------------------------------------------
(* The page's next fetch and the acceptance of its connections. *)

\* In a turn all connections but the last two are done with.
LEMMA TurnTaken ==
    ASSUME Typed, TurnOn
    PROVE  \A t \in DOMAIN sockets :
              \/ t = Newest /\ (Asking \/ Commanding)
              \/ Idle(sockets[t])
              \/ Preflighted(sockets[t])
<1>1. DOMAIN sockets = 1..Newest /\ Newest \in Nat
  BY DEF Typed, Newest
<1> QED
  BY <1>1 DEF TurnOn, Starting, Asking, Commanding, Failing, Earlier

\* An orderly fetch begins the next turn.
LEMMA FetchTurn ==
    ASSUME IInv, NEW cmd \in Commands, NEW preflight \in BOOLEAN, PageFetches(cmd, preflight)
    PROVE  Turn'
<1> SUFFICES ASSUME Orderliness'
             PROVE  Asking'
  BY DEF Turn, TurnOn
<1>1. Typed /\ TurnOn /\ Orderly(preflight)
  BY DEF IInv, Turn, Orderliness, PageFetches
<1>2. /\ preflight
      /\ \A t \in DOMAIN sockets : sockets[t].state \in {"arriving", "open"} =>
                                     ~sockets[t].unread /\ sockets[t].out = << >>
  BY <1>1 DEF Orderly
<1>3. /\ sockets \in Seq(Sockets) /\ DOMAIN sockets = 1..Newest /\ Newest \in Nat
      /\ fetches \in Seq(Fetches) /\ DOMAIN fetches = 1..Fetch /\ Fetch \in Nat
  BY <1>1 DEF Typed, Newest, Fetch
<1>4. /\ sockets' \in Seq(Sockets) /\ Newest' = Newest + 1
      /\ \A t \in DOMAIN sockets : sockets'[t] = sockets[t]
      /\ sockets'[Newest + 1] = NewSocket(Fetch + 1, "OPTIONS")
      /\ fetches' \in Seq(Fetches) /\ Fetch' = Fetch + 1
      /\ fetches'[Fetch + 1].result = "pending"
  <2>1. /\ sockets' \in Seq(Sockets) /\ Len(sockets') = Len(sockets) + 1
        /\ \A t \in DOMAIN sockets : sockets'[t] = sockets[t]
        /\ fetches' \in Seq(Fetches) /\ Len(fetches') = Len(fetches) + 1
    BY <1>1, FetchSockets
  <2>2. sockets'[Len(sockets) + 1] = NewSocket(Len(fetches) + 1, "OPTIONS")
    <3>1. sockets' = Append(sockets, NewSocket(Len(fetches) + 1, "OPTIONS"))
      BY <1>2 DEF PageFetches
    <3> QED
      BY <1>3, <3>1
  <2>3. fetches'[Len(fetches) + 1] = [command |-> cmd, result |-> "pending"]
    BY <1>1, FetchSockets
  <2>4. fetches'[Len(fetches) + 1].result = "pending"
    BY <2>3
  <2> QED
    BY <2>1, <2>2, <2>4 DEF Newest, Fetch
<1>5. Asks(sockets[Newest])' /\ sockets'[Newest'].state = "arriving"
  BY <1>4 DEF Asks, NewSocket
<1>6. \A t \in DOMAIN sockets : Idle(sockets[t])
  <2> SUFFICES ASSUME NEW t \in DOMAIN sockets, ~Idle(sockets[t])
               PROVE  FALSE
    OBVIOUS
  <2>1. sockets[t].state \in {"arriving", "open"}
    <3>1. sockets[t] \in Sockets
      BY <1>3
    <3> QED
      BY <3>1 DEF Idle, Sockets
  <2>2. ~sockets[t].unread /\ sockets[t].out = << >>
    BY <1>2, <2>1
  <2>3. sockets[t].state = "arriving"
    BY <2>2 DEF Idle
  <2>4. t = Newest /\ (Asking \/ Commanding)
    BY <1>1, <2>3, TurnTaken DEF Idle, Preflighted
  <2> QED
    BY <2>2, <2>3, <2>4 DEF Asking, Asks, Commanding, GivesCommand, Handled
<1>7. Earlier(Newest)'
  <2>1. \A t \in DOMAIN sockets' : t < Newest + 1 => t \in DOMAIN sockets
    BY <1>3, <1>4 DEF Newest
  <2> QED
    BY <1>4, <1>6, <2>1 DEF Earlier
<1>8. Harmless
  <2>1. CASE Starting \/ Asking \/ Failing
    BY <2>1 DEF Starting, Asking, Failing
  <2>2. CASE Commanding
    <3>1. CASE sockets[Newest].unread
      BY <2>2, <3>1 DEF Commanding, GivesCommand, Waits
    <3>2. CASE ~sockets[Newest].unread
      <4>1. Handled(sockets[Newest])
        BY <2>2, <3>2 DEF Commanding, GivesCommand
      <4>2. Fetch \in DOMAIN fetches
        BY <1>3, <2>2 DEF Commanding
      <4>3. Command.type = "U" => Result # "pending"
        BY <1>1, <4>2 DEF Orderly, Command, Result
      <4> QED
        BY <4>1, <4>3 DEF Handled, AnswerTo
    <3> QED
      BY <3>1, <3>2
  <2> QED
    BY <1>1, <2>1, <2>2 DEF TurnOn
<1>9. Harmless'
  <2>1. UNCHANGED m_currentModelPath /\ DOMAIN fetches \subseteq DOMAIN fetches'
    BY <1>3, <1>4 DEF PageFetches
  <2>2. \A q \in DOMAIN fetches : fetches'[q] = fetches[q]
    BY <1>1, FetchSockets
  <2> QED
    BY <1>8, <2>1, <2>2 DEF Harmless, Excused, Lost
<1> QED
  BY <1>3, <1>4, <1>5, <1>7, <1>9 DEF Asking, Result

\* The connection accepted is the newest, and no other object has its address.
LEMMA AcceptTurn ==
    ASSUME IInv, NEW s \in DOMAIN sockets, incomingConnection(s)
    PROVE  Turn'
<1> SUFFICES ASSUME Orderliness'
             PROVE  (Asking \/ Commanding)'
  BY DEF Turn, TurnOn
<1>1. Typed /\ AddressesUsed /\ TurnOn
  BY DEF IInv, Turn, Orderliness, incomingConnection, pageVars
<1>2. /\ sockets \in Seq(Sockets) /\ DOMAIN sockets = 1..Newest /\ Newest \in Nat
      /\ sockets[s] \in Sockets
  BY <1>1 DEF Typed, Newest
<1>3. s = Newest /\ sockets[Newest].state = "arriving" /\ (Asking \/ Commanding)
  BY <1>1, TurnTaken DEF incomingConnection, Idle, Preflighted
<1>4. PICK a \in FreeAddresses :
         sockets' = [sockets EXCEPT ![s].state = "open", ![s].address = a]
  BY DEF incomingConnection
<1> DEFINE y == [sockets[s] EXCEPT !.state = "open", !.address = a]
<1>5. /\ a \in Nat
      /\ \A t \in DOMAIN sockets : Live(sockets[t]) => sockets[t].address # a
  BY <1>1, <1>4, FreeAddress
<1>6. /\ y \in Sockets /\ y.address = a /\ y.state = "open"
      /\ y.fetch = sockets[s].fetch /\ y.method = sockets[s].method
      /\ y.unread = sockets[s].unread /\ y.answered = sockets[s].answered
      /\ y.peerClosed = sockets[s].peerClosed /\ y.out = sockets[s].out
  BY <1>2, <1>5 DEF Sockets
<1>7. sockets' = [sockets EXCEPT ![s] = y]
  BY <1>2, <1>4
<1> HIDE DEF y
<1>8. /\ sockets' \in Seq(Sockets) /\ DOMAIN sockets' = DOMAIN sockets
      /\ sockets'[s] = y
      /\ \A t \in DOMAIN sockets : t # s => sockets'[t] = sockets[t]
  BY <1>1, <1>6, <1>7, OneTouched
<1>9. Newest' = Newest
  BY <1>2, <1>8 DEF Newest
<1>10. UNCHANGED <<fetches, m_currentClientForDownload, m_currentModelPath>>
  BY DEF incomingConnection, pageVars
<1>11. /\ Fetch' = Fetch /\ Result' = Result /\ Command' = Command
       /\ Harmless => Harmless'
  BY <1>10 DEF Fetch, Result, Command, Harmless, Excused, Lost
<1>13. CASE Asking
  <2>1. Asks(sockets[Newest])'
    BY <1>3, <1>6, <1>8, <1>9, <1>11, <1>13 DEF Asking, Asks
  <2>2. Unshared(Newest)'
    BY <1>2, <1>3, <1>5, <1>6, <1>8, <1>9 DEF Unshared
  <2>3. Earlier(Newest)'
    BY <1>2, <1>3, <1>8, <1>9, <1>13 DEF Asking, Earlier
  <2> QED
    BY <1>9, <1>11, <1>13, <2>1, <2>2, <2>3 DEF Asking
<1>14. CASE Commanding
  <2>1. /\ Newest - 1 \in DOMAIN sockets /\ Newest - 1 < Newest
        /\ \A t \in DOMAIN sockets : t < Newest => sockets'[t] = sockets[t]
    BY <1>2, <1>3, <1>8, <1>14 DEF Commanding
  <2>2. sockets'[Newest - 1] = sockets[Newest - 1]
    BY <2>1
  <2>3. Preflighted(sockets[Newest - 1])'
    BY <1>9, <1>14, <2>2 DEF Commanding, Preflighted
  <2>4. Waits(sockets[Newest]) /\ sockets[Newest].unread
    BY <1>3, <1>14 DEF Commanding, GivesCommand, Handled
  <2>5. Unshared(Newest - 1)'
    BY <1>2, <1>8, <1>9, <2>1, <2>2, <2>4 DEF Waits, Unshared
  <2>6. GivesCommand(sockets[Newest])'
    BY <1>3, <1>6, <1>8, <1>9, <1>10, <1>11, <1>14, <2>2, <2>4, <2>5
       DEF Commanding, GivesCommand, Waits
  <2>7. Earlier(Newest - 1)'
    BY <1>2, <1>8, <1>9, <1>14, <2>1 DEF Commanding, Earlier
  <2> QED
    BY <1>9, <1>11, <1>14, <2>3, <2>6, <2>7 DEF Commanding
<1> QED
  BY <1>3, <1>13, <1>14

-----------------------------------------------------------------------------
(* The requests. *)

\* The preflight is read: its socket is the one that is remembered.
LEMMA OptionsTurn ==
    ASSUME IInv, NEW s \in DOMAIN sockets, ReadOptions(s)
    PROVE  Turn'
<1> SUFFICES ASSUME Orderliness'
             PROVE  Asking'
  BY DEF Turn, TurnOn
<1>1. Typed /\ TurnOn
  BY DEF IInv, Turn, Orderliness, ReadOptions, pageVars
<1>2. /\ sockets \in Seq(Sockets) /\ DOMAIN sockets = 1..Newest /\ Newest \in Nat
      /\ sockets[s] \in Sockets
  BY <1>1 DEF Typed, Newest
<1>3. s = Newest /\ Asking
  <2>1. sockets[s].unread /\ sockets[s].method = "OPTIONS" /\ sockets[s].state = "open"
    BY DEF ReadOptions
  <2>2. s = Newest /\ (Asking \/ Commanding)
    BY <1>1, <2>1, TurnTaken DEF Idle, Preflighted
  <2> QED
    BY <2>1, <2>2 DEF Commanding, GivesCommand
<1> DEFINE y == [sockets[s] EXCEPT !.unread = FALSE, !.out = Append(@, "ok")]
<1>4. Append(sockets[s].out, "ok") \in Seq(Written) /\ Append(sockets[s].out, "ok") # << >>
  <2>1. sockets[s].out \in Seq(Written) /\ "ok" \in Written
    BY <1>2 DEF Sockets, Written
  <2>2. Append(sockets[s].out, "ok") \in Seq(Written)
    BY <2>1
  <2>3. Len(Append(sockets[s].out, "ok")) = Len(sockets[s].out) + 1 /\ Len(sockets[s].out) \in Nat
    BY <2>1
  <2> QED
    BY <2>2, <2>3
<1>5. /\ y \in Sockets /\ ~y.unread /\ y.out # << >> /\ y.state = sockets[s].state
      /\ y.fetch = sockets[s].fetch /\ y.method = sockets[s].method
      /\ y.answered = sockets[s].answered /\ y.peerClosed = sockets[s].peerClosed
      /\ y.address = sockets[s].address
  BY <1>2, <1>4 DEF Sockets
<1>6. sockets' = [sockets EXCEPT ![s] = y]
  BY <1>2 DEF ReadOptions
<1> HIDE DEF y
<1>7. /\ sockets' \in Seq(Sockets) /\ DOMAIN sockets' = DOMAIN sockets
      /\ sockets'[s] = y
      /\ \A t \in DOMAIN sockets : t # s => sockets'[t] = sockets[t]
  BY <1>1, <1>5, <1>6, OneTouched
<1>8. Newest' = Newest
  BY <1>2, <1>7 DEF Newest
<1>9. UNCHANGED <<fetches, m_currentModelPath>>
      /\ m_currentClientForDownload' = sockets[s].address
      /\ sockets[s].state = "open"
  BY DEF ReadOptions, pageVars
<1>10. Fetch' = Fetch /\ Result' = Result /\ (Harmless => Harmless')
  BY <1>9 DEF Fetch, Result, Harmless, Excused, Lost
<1>11. Asks(sockets[Newest])'
  BY <1>3, <1>5, <1>7, <1>8, <1>9, <1>10 DEF Asking, Asks
<1>12. Unshared(Newest)'
  BY <1>2, <1>3, <1>5, <1>7, <1>8, <1>9 DEF Asking, Unshared
<1>13. Earlier(Newest)'
  BY <1>2, <1>3, <1>7, <1>8 DEF Asking, Earlier
<1> QED
  BY <1>3, <1>8, <1>10, <1>11, <1>12, <1>13 DEF Asking

\* If what an earlier request has left is excused, the answer is one that the
\* page may get.
LEMMA RightFile ==
    ASSUME Typed, NEW m \in Models, NEW socks, HandleDownload(m, socks), Harmless,
           UNCHANGED fetches, Result = "pending",
           m_currentClientForDownload # nullptr
    PROVE  /\ Left(m)'
           /\ \E a \in MayGet(m), onWritten \in BOOLEAN :
                 Writes(a, socks, onWritten) /\ (Harmless' \/ onWritten)
<1>1. m_currentModelPath' = ModelPathAfter(m)
  BY DEF HandleDownload
<1>2. m_currentModelPath' = {} =>
         Writes("404", socks, FALSE)
  BY DEF HandleDownload
<1>3. m_currentModelPath' # {} =>
         \E file \in m_currentModelPath' :
            Writes(IF file \in Unreadable THEN "404" ELSE file, socks, file \notin Unreadable)
  BY DEF HandleDownload
<1>4. \A f : Excused(f) => Excused(f)'
  BY DEF Excused, Lost
<1>5. m_currentModelPath' \subseteq m_currentModelPath \cup {m}
  BY <1>1 DEF ModelPathAfter
<1>6. Left(m)'
  BY <1>4, <1>5 DEF Left, Harmless
<1>7. m \in NoDirectory \cup NoFile \cup Unreadable => "404" \in MayGet(m)
  BY DEF MayGet, RightAnswer
<1>8. CASE m_currentModelPath' = {}
  <2>1. m \in NoDirectory \/ m \in NoFile
    BY <1>1, <1>8 DEF ModelPathAfter
  <2>2. Harmless'
    BY <1>8 DEF Harmless
  <2> QED
    BY <1>2, <1>6, <1>7, <1>8, <2>1, <2>2
<1>9. CASE m_currentModelPath' # {}
  <2>1. PICK file \in m_currentModelPath' :
           Writes(IF file \in Unreadable THEN "404" ELSE file, socks, file \notin Unreadable)
    BY <1>3, <1>9
  <2>2. CASE m \in NoDirectory
    <3>1. m_currentModelPath' = m_currentModelPath
      BY <1>1, <2>2 DEF ModelPathAfter
    <3>2. Harmless'
      BY <1>4, <3>1 DEF Harmless
    <3>3. CASE file \in Unreadable
      BY <1>6, <1>7, <2>1, <2>2, <3>2, <3>3
    <3>4. CASE file \notin Unreadable
      <4>1. file \in Models
        BY <3>1 DEF Typed
      <4>2. PICK q \in DOMAIN fetches :
               fetches[q] = [command |-> DownloadCommand(file), result |-> "failed"]
        BY <3>1, <3>4 DEF Harmless, Excused, Lost
      <4>3. fetches \in Seq(Fetches) /\ DOMAIN fetches = 1..Fetch /\ Fetch \in Nat
        BY DEF Typed, Fetch
      <4>4. fetches[q].result = "failed"
        BY <4>2
      <4>5. q # Fetch
        BY <4>4 DEF Result
      <4>6. q < Fetch
        BY <4>3, <4>5
      <4>7. file \in FailedBefore(Fetch)
        BY <4>1, <4>2, <4>6 DEF FailedBefore
      <4>8. file \in MayGet(m)
        BY <2>2, <4>7 DEF MayGet
      <4> QED
        BY <1>6, <2>1, <3>2, <3>4, <4>8
    <3> QED
      BY <3>3, <3>4
  <2>3. CASE m \notin NoDirectory
    <3>1. m \notin NoFile /\ m_currentModelPath' = {m} /\ file = m
      BY <1>1, <1>9, <2>1, <2>3 DEF ModelPathAfter
    <3>2. (IF file \in Unreadable THEN "404" ELSE file) \in MayGet(m)
      BY <2>3, <3>1 DEF RightAnswer, MayGet
    <3>3. Harmless' \/ file \notin Unreadable
      BY <3>1 DEF Harmless, Excused
    <3>4. (file \notin Unreadable) \in BOOLEAN
      OBVIOUS
    <3> QED
      BY <1>6, <2>1, <3>2, <3>3, <3>4
  <2> QED
    BY <2>2, <2>3
<1> QED
  BY <1>8, <1>9

\* The command is read: a download is answered to the socket of the preflight,
\* or to the command's own if that has got its address.
LEMMA PostTurn ==
    ASSUME IInv, ~crashed, NEW s \in DOMAIN sockets, NEW split \in BOOLEAN,
           ReadPost(s, split)
    PROVE  Turn'
<1> SUFFICES ASSUME orderly'
             PROVE  Commanding'
  BY DEF Turn, TurnOn, Orderliness
<1>1. Typed /\ AddressesUsed /\ TurnOn /\ ~split
  BY DEF IInv, Turn, Orderliness, ReadPost
<1>2. /\ sockets \in Seq(Sockets) /\ DOMAIN sockets = 1..Newest /\ Newest \in Nat
      /\ sockets[s] \in Sockets
  BY <1>1 DEF Typed, Newest
<1>3. sockets[s].unread /\ sockets[s].method = "POST" /\ sockets[s].state = "open"
  BY DEF ReadPost
<1>4. s = Newest /\ (Asking \/ Commanding)
  BY <1>1, <1>3, TurnTaken DEF Idle, Preflighted
<1>5. Commanding
  BY <1>3, <1>4 DEF Asking, Asks
<1>6. /\ Newest >= 2 /\ Fetch >= 1 /\ Newest - 1 \in DOMAIN sockets /\ Newest - 1 # Newest
      /\ Preflighted(sockets[Newest - 1]) /\ Waits(sockets[Newest]) /\ Earlier(Newest - 1)
      /\ sockets[Newest].fetch = Fetch
  BY <1>2, <1>3, <1>4, <1>5 DEF Commanding, GivesCommand
<1> DEFINE socks == [sockets EXCEPT ![s].unread = FALSE, ![s].whole = ~split]
<1>7. /\ sockets' \in Seq(Sockets) /\ DOMAIN sockets' = DOMAIN sockets
      /\ socks \in Seq(Sockets)
      /\ \A t \in DOMAIN sockets : socks[t] = IF t = s THEN Read(sockets[t], split) ELSE sockets[t]
      /\ lastCommand' \subseteq Commands
  BY <1>1, ReadPostSockets
<1>8. DOMAIN socks = DOMAIN sockets
  OBVIOUS
<1>9. Newest' = Newest
  BY <1>2, <1>7 DEF Newest
<1>10. UNCHANGED fetches
  BY DEF ReadPost
<1>11. Fetch' = Fetch /\ Result' = Result /\ Command' = Command
  BY <1>10 DEF Fetch, Result, Command
<1>12. lastCommand' = {Command}
  BY <1>1, <1>4, <1>6 DEF ReadPost, Command
<1>13. IF Command.type = "T" THEN HandleTrain(Command.param, socks)
                             ELSE HandleDownload(Command.param, socks)
  BY <1>12 DEF ReadPost
<1>14. /\ socks[Newest - 1] = sockets[Newest - 1] /\ socks[Newest] = Read(sockets[Newest], split)
       /\ \A t \in DOMAIN sockets : t < Newest - 1 => socks[t] = sockets[t]
  BY <1>2, <1>4, <1>6, <1>7
<1>15. /\ Read(sockets[Newest], split).out = << >> /\ ~Read(sockets[Newest], split).unread
       /\ Read(sockets[Newest], split).fetch = Fetch /\ Read(sockets[Newest], split).method = "POST"
       /\ Read(sockets[Newest], split).state = "open" /\ Read(sockets[Newest], split) \in Sockets
  BY <1>2, <1>3, <1>4, <1>6, ReadType DEF SameConnection, Waits
<1> HIDE DEF socks
<1>16. CASE Command.type = "T"
  <2>1. sockets' = socks /\ (Harmless => Harmless')
    BY <1>10, <1>13, <1>16 DEF HandleTrain, Harmless, Excused, Lost
  <2>2. Preflighted(sockets[Newest - 1])'
    BY <1>6, <1>9, <1>14, <2>1 DEF Preflighted
  <2>3. GivesCommand(sockets[Newest])'
    BY <1>6, <1>9, <1>11, <1>14, <1>15, <1>16, <2>1 DEF GivesCommand, Handled, Waits
  <2>4. Earlier(Newest - 1)'
    BY <1>6, <1>7, <1>9, <1>14, <2>1 DEF Earlier
  <2> QED
    BY <1>6, <1>9, <1>11, <2>2, <2>3, <2>4 DEF Commanding
<1>17. CASE Command.type # "T"
  <2>1. PICK m \in Models : m = Command.param /\ Command.type = "U"
    BY <1>7, <1>12, <1>17 DEF Commands
  <2>2. m_currentClientForDownload # nullptr
    BY <1>1, <1>6 DEF Waits, Preflighted, AddressesUsed
  <2>3. Harmless
    BY <1>6 DEF Waits
  <2>4. Result = "pending"
    BY <1>6 DEF Waits
  <2>5. /\ Left(m)'
         /\ \E a \in MayGet(m), onWritten \in BOOLEAN :
               Writes(a, socks, onWritten) /\ (Harmless' \/ onWritten)
    BY <1>1, <1>10, <1>13, <1>17, <2>1, <2>2, <2>3, <2>4, RightFile
  <2>6. PICK a \in MayGet(m), onWritten \in BOOLEAN :
           Writes(a, socks, onWritten) /\ (Harmless' \/ onWritten)
    BY <2>5
  <2>7. a \in Written
    BY <2>1 DEF MayGet, RightAnswer, FailedBefore, Written
  <2>8. a \in MayGet(m)'
    BY <1>10, <1>11 DEF MayGet, RightAnswer, FailedBefore
  <2>9. \A t \in DOMAIN sockets : SameOrAnswered(socks[t], sockets'[t], a, onWritten)
    BY <1>7, <1>8, <2>6, <2>7, AnswersGo
  <2>10. \A t \in DOMAIN sockets : t < Newest - 1 => sockets'[t] = sockets[t]
    <3> SUFFICES ASSUME NEW t \in DOMAIN sockets, t < Newest - 1, sockets'[t] # sockets[t]
                 PROVE  FALSE
      OBVIOUS
    <3>1. sockets[t].state = "open" /\ sockets[t].address = m_currentClientForDownload
      BY <1>14, <2>9 DEF SameOrAnswered
    <3> QED
      BY <1>6, <3>1 DEF Waits, Unshared, Live
  <2>11. Preflighted(sockets[Newest - 1])'
    <3>1. sockets[Newest - 1] \in Sockets
      BY <1>2, <1>6
    <3>2. SameOrAnswered(sockets[Newest - 1], sockets'[Newest - 1], a, onWritten)
      BY <1>6, <1>14, <2>9
    <3> QED
      BY <1>6, <1>9, <3>1, <3>2, FieldsKept DEF Preflighted
  <2>12. Earlier(Newest - 1)'
    BY <1>6, <1>7, <1>9, <2>10 DEF Earlier
  <2>13. SameOrAnswered(Read(sockets[Newest], split), sockets'[Newest], a, onWritten)
    BY <1>4, <1>14, <2>9
  <2>14. /\ ~sockets'[Newest].unread /\ sockets'[Newest].fetch = Fetch
         /\ sockets'[Newest].method = "POST" /\ sockets'[Newest].state = "open"
    BY <1>15, <2>13, FieldsKept
  <2>15. \/ sockets'[Newest].out = << >>
         \/ sockets'[Newest].out = <<a>>
            /\ (onWritten => sockets'[Newest].onWritten)
    <3>1. CASE sockets'[Newest] = Read(sockets[Newest], split)
      BY <1>15, <3>1
    <3>2. CASE sockets'[Newest] = Answered(Read(sockets[Newest], split), a, onWritten)
      <4>1. sockets'[Newest].out = Append(<< >>, a)
        BY <1>15, <3>2 DEF Answered, Sockets
      <4>2. onWritten => sockets'[Newest].onWritten
        BY <1>15, <3>2 DEF Answered, Sockets
      <4> QED
        BY <4>1, <4>2
    <3> QED
      BY <2>13, <3>1, <3>2 DEF SameOrAnswered
  <2>16. AnswerTo(m, sockets[Newest])'
    BY <1>9, <1>11, <2>4, <2>6, <2>8, <2>15 DEF AnswerTo
  <2>17. GivesCommand(sockets[Newest])'
    BY <1>9, <1>11, <2>1, <2>5, <2>14, <2>16 DEF GivesCommand, Handled
  <2> QED
    BY <1>6, <1>9, <1>11, <2>11, <2>12, <2>17 DEF Commanding
<1> QED
  BY <1>16, <1>17

-----------------------------------------------------------------------------
(* The answers. *)

\* What becomes of a connection whose answer is sent.
LEMMA SentFields ==
    ASSUME Typed, NEW s \in DOMAIN sockets, BytesWritten(s)
    PROVE  /\ sockets'[s].fetch = sockets[s].fetch /\ sockets'[s].method = sockets[s].method
           /\ sockets'[s].address = sockets[s].address
           /\ sockets'[s].unread = sockets[s].unread /\ sockets'[s].answered
           /\ sockets'[s].onWritten = sockets[s].onWritten
           /\ sockets'[s].out = << >> /\ sockets'[s].state # "arriving"
<1> DEFINE x == sockets[s]
           y == sockets'[s]
<1>1. x \in Sockets /\ x.state = "open"
  BY DEF Typed, BytesWritten
<1>2. /\ Sent(x) \in Sockets
      /\ Sent(x).fetch = x.fetch /\ Sent(x).method = x.method /\ Sent(x).address = x.address
      /\ Sent(x).unread = x.unread /\ Sent(x).answered /\ Sent(x).onWritten = x.onWritten
      /\ Sent(x).out = << >> /\ Sent(x).state = "open"
  BY <1>1, SentType DEF Sent, Sockets
<1> DEFINE z == ClosedSocket(Sent(x))
<1>3. /\ z \in Sockets
      /\ z.fetch = x.fetch /\ z.method = x.method /\ z.address = x.address
      /\ z.unread = x.unread /\ z.answered /\ z.onWritten = x.onWritten
      /\ z.out = << >> /\ z.state = "closed"
  BY <1>2, SentType DEF ClosedSocket, Sockets
<1>4. y = Sent(x) \/ SameOrDeleted(z, y)
  BY BytesWrittenSockets
<1> HIDE DEF x, y, z
<1>5. CASE y = Sent(x)
  BY <1>2, <1>5 DEF x, y
<1>6. CASE SameOrDeleted(z, y)
  <2>1. /\ y.address = z.address /\ y.fetch = z.fetch /\ y.method = z.method
        /\ y.unread = z.unread /\ y.answered = z.answered /\ y.out = z.out
        /\ y.onWritten = z.onWritten /\ (y.state = "arriving" <=> z.state = "arriving")
    BY <1>3, <1>6, FieldsKept
  <2> QED
    BY <1>3, <2>1 DEF x, y
<1> QED
  BY <1>4, <1>5, <1>6

\* What the page learns: nothing, or an answer that its last fetch may get.
LearnsRightAnswer == \/ UNCHANGED pageVars
                     \/ /\ Fetch \in DOMAIN fetches /\ Command.type = "U"
                        /\ Result = "pending"
                        /\ \E a \in MayGet(Command.param) : PageGets(Fetch, a)

\* The answer to the preflight is followed by the command.
LEMMA PreflightTurn ==
    ASSUME Typed, NEW s \in DOMAIN sockets, BytesWritten(s), Asking
    PROVE  UNCHANGED pageVars /\ Commanding'
<1>1. /\ sockets \in Seq(Sockets) /\ DOMAIN sockets = 1..Newest /\ Newest \in Nat
      /\ \A t \in DOMAIN sockets : sockets[t] \in Sockets
  BY DEF Typed, Newest
<1>2. sockets[s].state = "open" /\ sockets[s].out # << >>
  BY DEF BytesWritten
<1>3. s = Newest
  BY <1>1, <1>2 DEF Asking, Earlier, Idle
<1>4. /\ sockets[s].method = "OPTIONS" /\ ~sockets[s].answered /\ ~sockets[s].unread
      /\ sockets[s].fetch = Fetch /\ m_currentClientForDownload = sockets[s].address
      /\ Unshared(Newest) /\ Earlier(Newest) /\ Harmless /\ Result = "pending"
      /\ Newest >= 1 /\ Fetch >= 1
  BY <1>2, <1>3 DEF Asking, Asks
<1>5. AnswersPreflight(s)
  BY <1>4 DEF AnswersPreflight
<1>6. /\ sockets' \in Seq(Sockets) /\ Newest' = Newest + 1
      /\ sockets'[Newest + 1] = NewSocket(Fetch, "POST")
      /\ \A t \in DOMAIN sockets : t # s => SameOrDeleted(sockets[t], sockets'[t])
  BY <1>4, <1>5, BytesWrittenSockets DEF Newest
<1>7. UNCHANGED pageVars
  BY <1>4 DEF BytesWritten
<1>8. Fetch' = Fetch /\ Result' = Result /\ Command' = Command
  BY <1>7 DEF Fetch, Result, Command, pageVars
<1>9. Harmless'
  BY <1>4, <1>7 DEF BytesWritten, Harmless, Excused, Lost, pageVars
<1>10. UNCHANGED m_currentClientForDownload
  BY DEF BytesWritten
<1>11. Newest' - 1 = s /\ \A t \in DOMAIN sockets' : t < s => t \in DOMAIN sockets
  BY <1>1, <1>3, <1>6 DEF Newest
<1>12. Preflighted(sockets[Newest - 1])'
  BY <1>4, <1>11, SentFields DEF Preflighted
<1>13. Earlier(Newest - 1)'
  BY <1>1, <1>3, <1>4, <1>6, <1>11, FieldsKept DEF Earlier, Idle
<1>14. Unshared(Newest - 1)'
  <2> SUFFICES ASSUME NEW t \in DOMAIN sockets', t < s, Live(sockets'[t])
               PROVE  sockets'[t].address # sockets'[s].address
    BY <1>11 DEF Unshared
  <2>1. t \in DOMAIN sockets /\ t # s
    BY <1>1, <1>11
  <2>2. Live(sockets[t]) /\ sockets'[t].address = sockets[t].address
    BY <1>1, <1>6, <2>1, FieldsKept
  <2> QED
    BY <1>3, <1>4, <2>1, <2>2, SentFields DEF Unshared
<1>15. GivesCommand(sockets[Newest])'
  <2>1. sockets'[s].address = sockets[s].address
    BY SentFields
  <2>2. Waits(sockets[Newest])'
    BY <1>4, <1>6, <1>8, <1>9, <1>10, <1>11, <1>14, <2>1 DEF Waits, NewSocket
  <2> QED
    BY <1>6, <1>8, <2>2 DEF GivesCommand, NewSocket
<1>16. Newest' >= 2
  BY <1>1, <1>4, <1>6
<1> QED
  BY <1>4, <1>7, <1>8, <1>12, <1>13, <1>15, <1>16 DEF Commanding

\* What is still written to an answered preflight does not matter.
LEMMA StrayTurn ==
    ASSUME Typed, Turn, Orderliness, NEW s \in DOMAIN sockets, BytesWritten(s),
           sockets[s].method = "OPTIONS", sockets[s].answered
    PROVE  UNCHANGED pageVars /\ Turn'
<1>1. /\ sockets \in Seq(Sockets) /\ DOMAIN sockets = 1..Len(sockets)
      /\ \A t \in DOMAIN sockets : sockets[t] \in Sockets
  BY DEF Typed
<1>2. sockets[s].state = "open" /\ sockets[s].out # << >>
  BY DEF BytesWritten
<1>3. ~AnswersPreflight(s)
  BY DEF AnswersPreflight
<1>4. /\ sockets' \in Seq(Sockets) /\ DOMAIN sockets' = DOMAIN sockets
      /\ \A t \in DOMAIN sockets : t # s => SameOrDeleted(sockets[t], sockets'[t])
  BY <1>1, <1>3, BytesWrittenSockets
<1>5. UNCHANGED pageVars /\ UNCHANGED m_currentClientForDownload
  BY DEF BytesWritten
<1>6. Weaker(sockets[s], sockets'[s])
  <2>1. Live(sockets[s])
    BY <1>2 DEF Live
  <2>2. sockets'[s].state \in {"open", "closed", "deleted"}
    <3>1. sockets'[s] \in Sockets
      BY <1>4
    <3>2. sockets'[s].state # "arriving"
      BY SentFields
    <3> QED
      BY <3>1, <3>2 DEF Sockets
  <2> QED
    BY <1>2, <2>1, <2>2, SentFields DEF Weaker
<1>7. \A t \in DOMAIN sockets : t # s => Weaker(sockets[t], sockets'[t])
  BY <1>1, <1>4, FieldsKept DEF Weaker
<1>8. m_currentModelPath' \subseteq m_currentModelPath
  BY DEF BytesWritten
<1> QED
  BY <1>4, <1>5, <1>6, <1>7, <1>8, TurnKept DEF pageVars

\* The answer to the command ends the turn.
LEMMA CommandTurn ==
    ASSUME Typed, Turn, Orderliness, NEW s \in DOMAIN sockets, BytesWritten(s), Commanding
    PROVE  LearnsRightAnswer /\ Turn'
<1>1. /\ sockets \in Seq(Sockets) /\ DOMAIN sockets = 1..Newest /\ Newest \in Nat
      /\ \A t \in DOMAIN sockets : sockets[t] \in Sockets
  BY DEF Typed, Newest
<1>2. sockets[s].state = "open" /\ sockets[s].out # << >>
  BY DEF BytesWritten
<1>3. /\ Newest >= 2 /\ Fetch >= 1 /\ Newest - 1 \in DOMAIN sockets /\ Newest \in DOMAIN sockets
      /\ Preflighted(sockets[Newest - 1]) /\ GivesCommand(sockets[Newest])
      /\ Earlier(Newest - 1)
  BY <1>1 DEF Commanding
<1>4. s = Newest - 1 \/ s = Newest
  BY <1>1, <1>2, <1>3 DEF Earlier, Idle
<1>5. ~AnswersPreflight(s)
  BY <1>3, <1>4 DEF AnswersPreflight, Preflighted, GivesCommand
<1>6. /\ sockets' \in Seq(Sockets) /\ Newest' = Newest /\ DOMAIN sockets' = DOMAIN sockets
      /\ \A t \in DOMAIN sockets : t # s => SameOrDeleted(sockets[t], sockets'[t])
  BY <1>1, <1>5, BytesWrittenSockets DEF Newest
<1>7. /\ UNCHANGED m_currentClientForDownload
      /\ m_currentModelPath' = IF sockets[s].onWritten THEN {} ELSE m_currentModelPath
  BY DEF BytesWritten
<1>8. Fetch \in DOMAIN fetches /\ fetches \in Seq(Fetches)
  BY <1>3 DEF Typed, Fetch
<1>9. CASE s = Newest - 1
  <2>1. sockets[s].method = "OPTIONS" /\ sockets[s].answered
    BY <1>3, <1>9 DEF Preflighted
  <2> QED
    BY <2>1, StrayTurn DEF LearnsRightAnswer
<1>10. CASE s = Newest
  <2>1. /\ Command.type = "U" /\ Result = "pending" /\ ~sockets[s].unread
        /\ sockets[s].method = "POST" /\ sockets[s].fetch = Fetch
        /\ Harmless \/ sockets[s].onWritten
        /\ Left(Command.param)
        /\ \E a \in MayGet(Command.param) : sockets[s].out = <<a>>
    BY <1>2, <1>3, <1>10 DEF GivesCommand, Waits, Handled, AnswerTo
  <2>2. PICK a \in MayGet(Command.param) : sockets[s].out = <<a>>
    BY <2>1
  <2>3. PageGets(Fetch, a)
    BY <2>1, <2>2 DEF BytesWritten, Result
  <2>4. /\ Fetch' = Fetch /\ Command' = Command /\ Result' = a
        /\ \A q \in DOMAIN fetches : q \in DOMAIN fetches' /\ (q # Fetch => fetches'[q] = fetches[q])
    <3>1. fetches' = [fetches EXCEPT ![Fetch].result = a]
      BY <2>3 DEF PageGets
    <3>2. fetches[Fetch] \in Fetches
      BY <1>8
    <3>3. /\ Fetch' = Fetch
          /\ \A q \in DOMAIN fetches : q \in DOMAIN fetches' /\ (q # Fetch => fetches'[q] = fetches[q])
      BY <1>8, <3>1 DEF Fetch
    <3>4. /\ fetches'[Fetch].result = a
          /\ fetches'[Fetch].command = fetches[Fetch].command
      BY <1>8, <3>1, <3>2 DEF Fetches
    <3> QED
      BY <3>3, <3>4 DEF Result, Command
  <2>5. fetches[Fetch].result # "failed"
    BY <2>1 DEF Result
  <2>6. /\ \A f : Excused(f) => Excused(f)'
        /\ MayGet(Command.param) \subseteq MayGet(Command.param)'
    BY <2>4, <2>5 DEF Excused, Lost, MayGet, FailedBefore, RightAnswer
  <2>7. Harmless' /\ Left(Command.param)'
    BY <1>7, <2>1, <2>6 DEF Harmless, Left
  <2>8. Handled(sockets[Newest])'
    <3>1. sockets'[Newest'] = sockets'[s] /\ sockets'[s].out = << >> /\ sockets'[s].state # "arriving"
      BY <1>6, <1>10, SentFields
    <3>2. Result' \in MayGet(Command.param)' /\ Command.type' = "U"
      <4>1. a \in MayGet(Command.param)'
        BY <2>6
      <4>2. Result' = a /\ Command' = Command /\ Command.type = "U"
        BY <2>1, <2>4
      <4> QED
        BY <4>1, <4>2 DEF MayGet
    <3>3. AnswerTo(Command.param, sockets[Newest])'
      BY <2>7, <3>1, <3>2 DEF AnswerTo
    <3> QED
      BY <2>7, <3>1, <3>2, <3>3 DEF Handled
  <2>9. GivesCommand(sockets[Newest])'
    BY <1>6, <1>10, <2>1, <2>4, <2>8, SentFields DEF GivesCommand
  <2>10. Newest - 1 # s /\ \A t \in DOMAIN sockets : t < Newest - 1 => t # s
    BY <1>1, <1>10
  <2>11. Preflighted(sockets[Newest - 1])'
    BY <1>1, <1>3, <1>6, <2>10, FieldsKept DEF Preflighted
  <2>12. Earlier(Newest - 1)'
    BY <1>1, <1>3, <1>6, <2>10, FieldsKept DEF Earlier, Idle
  <2>13. Commanding'
    BY <1>3, <1>6, <2>4, <2>9, <2>11, <2>12 DEF Commanding
  <2> QED
    BY <1>8, <2>1, <2>2, <2>3, <2>13 DEF LearnsRightAnswer, Turn, TurnOn
<1> QED
  BY <1>4, <1>9, <1>10

-----------------------------------------------------------------------------
(* All steps. *)

\* What is not about the HTTP connections leaves the turn alone.
LEMMA OthersTurn ==
    ASSUME IInv, UNCHANGED httpVars, UNCHANGED <<fetches, orderly>>, crashed' = crashed
    PROVE  Turn'
<1>1. UNCHANGED <<sockets, m_currentClientForDownload, m_currentModelPath>>
  BY DEF httpVars
<1>2. \A t \in DOMAIN sockets : Weaker(sockets[t], sockets'[t])
  BY <1>1 DEF Weaker
<1> QED
  BY <1>1, <1>2, TurnKept DEF IInv, Typed, Orderliness

\* The end of a connection leaves it alone, too.
LEMMA ClosingTurn ==
    ASSUME IInv, NEW s \in DOMAIN sockets, BrowserCloses(s) \/ (~crashed /\ PeerCloses(s))
    PROVE  Turn'
<1>1. Typed /\ Turn /\ \A t \in DOMAIN sockets : sockets[t] \in Sockets
  BY DEF IInv, Typed
<1>2. CASE BrowserCloses(s)
  <2> DEFINE y == [sockets[s] EXCEPT !.peerClosed = TRUE]
  <2>1. y \in Sockets
    BY <1>1 DEF Sockets
  <2>2. Weaker(sockets[s], y)
    BY <1>1, <1>2 DEF BrowserCloses, Weaker, Sockets, Live
  <2>3. sockets' = [sockets EXCEPT ![s] = y]
    BY <1>2 DEF BrowserCloses
  <2> HIDE DEF y
  <2>4. /\ sockets' \in Seq(Sockets) /\ DOMAIN sockets' = DOMAIN sockets
        /\ sockets'[s] = y
        /\ \A t \in DOMAIN sockets : t # s => sockets'[t] = sockets[t]
    BY <1>1, <2>1, <2>3, OneTouched
  <2>5. \A t \in DOMAIN sockets : Weaker(sockets[t], sockets'[t])
    <3>1. \A t \in DOMAIN sockets : t # s => Weaker(sockets[t], sockets'[t])
      BY <2>4 DEF Weaker
    <3> QED
      BY <2>2, <2>4, <3>1
  <2>6. UNCHANGED <<fetches, m_currentClientForDownload, m_currentModelPath, orderly, crashed>>
    BY <1>2 DEF BrowserCloses, pageVars
  <2> QED
    BY <1>1, <2>4, <2>5, <2>6, TurnKept DEF Orderliness
<1>3. CASE ~crashed /\ PeerCloses(s)
  <2>1. /\ Closed(s, sockets) \in Seq(Sockets)
        /\ DOMAIN Closed(s, sockets) = DOMAIN sockets
        /\ \A t \in DOMAIN sockets : t # s => Closed(s, sockets)[t] = sockets[t]
        /\ Closed(s, sockets)[s] = ClosedSocket(sockets[s])
    BY <1>1, ClosedType DEF ClosedSocket, Typed
  <2>2. /\ sockets' \in Seq(Sockets) /\ DOMAIN sockets' = DOMAIN sockets
        /\ \A t \in DOMAIN sockets : SameOrDeleted(Closed(s, sockets)[t], sockets'[t])
    BY <1>3, <2>1, Deletes DEF PeerCloses
  <2>3. \A t \in DOMAIN sockets : t # s => Weaker(sockets[t], sockets'[t])
    BY <1>1, <2>1, <2>2, FieldsKept DEF Weaker
  <2>4. Weaker(sockets[s], sockets'[s])
    <3> DEFINE x == sockets[s]
               z == ClosedSocket(x)
               y == sockets'[s]
    <3>1. /\ z.fetch = x.fetch /\ z.method = x.method /\ z.address = x.address
          /\ z.unread = x.unread /\ z.answered = x.answered /\ z.onWritten = x.onWritten
          /\ z.out = << >> /\ z.state = "closed" /\ z \in Sockets
      BY <1>1, <1>3, SentType, ZenonT(60) DEF ClosedSocket, Sockets, PeerCloses
    <3>2. x.state = "open" /\ x.peerClosed
      BY <1>3 DEF PeerCloses
    <3>3. SameOrDeleted(z, y)
      BY <2>1, <2>2
    <3> HIDE DEF x, y, z
    <3>4. /\ y.address = z.address /\ y.fetch = z.fetch /\ y.method = z.method
          /\ y.unread = z.unread /\ y.answered = z.answered /\ y.out = z.out
          /\ y.onWritten = z.onWritten /\ (y.state = "arriving" <=> z.state = "arriving")
          /\ y.state = z.state \/ y.state = "deleted"
      BY <3>1, <3>3, FieldsKept
    <3>5. Weaker(x, y)
      BY <3>1, <3>2, <3>4 DEF Weaker, Live
    <3> QED
      BY <3>5 DEF x, y
  <2>5. UNCHANGED <<fetches, m_currentClientForDownload, m_currentModelPath, orderly>>
    BY <1>3 DEF PeerCloses, pageVars
  <2> QED
    BY <1>1, <1>3, <2>2, <2>3, <2>4, <2>5, TurnKept DEF Orderliness
<1> QED
  BY <1>2, <1>3

\* An answer to an orderly page is one that it may get.
LEMMA AnswerTurn ==
    ASSUME IInv, ~crashed, NEW s \in DOMAIN sockets, BytesWritten(s)
    PROVE  Turn' /\ (orderly' => LearnsRightAnswer)
<1>1. UNCHANGED orderly
  BY DEF BytesWritten, PageGets, pageVars
<1> SUFFICES ASSUME orderly
             PROVE  Turn' /\ LearnsRightAnswer
  BY <1>1 DEF Turn, Orderliness
<1>2. Typed /\ Turn /\ Orderliness /\ TurnOn
  BY DEF IInv, Turn, Orderliness
<1>3. CASE Starting
  BY <1>2, <1>3 DEF Starting, Typed, Newest
<1>4. CASE Asking
  BY <1>2, <1>4, PreflightTurn DEF LearnsRightAnswer, Turn, TurnOn
<1>5. CASE Commanding
  BY <1>2, <1>5, CommandTurn
<1>6. CASE Failing
  <2>1. sockets[s].method = "OPTIONS" /\ sockets[s].answered
    BY <1>6 DEF Failing, Idle, Preflighted, BytesWritten
  <2> QED
    BY <1>2, <2>1, StrayTurn DEF LearnsRightAnswer
<1> QED
  BY <1>2, <1>3, <1>4, <1>5, <1>6 DEF TurnOn

\* A failed fetch ends the turn if it is the last, and excuses its file.
LEMMA FailureTurn ==
    ASSUME IInv, NEW r \in DOMAIN fetches, FetchFails(r)
    PROVE  Turn'
<1> SUFFICES ASSUME Orderliness'
             PROVE  TurnOn'
  BY DEF Turn
<1>1. Typed /\ TurnOn /\ ~crashed
  BY DEF IInv, Turn, Orderliness, FetchFails
<1>2. UNCHANGED <<sockets, m_currentClientForDownload, m_currentModelPath>>
  BY DEF FetchFails, httpVars
<1>3. /\ fetches' \in Seq(Fetches) /\ Len(fetches') = Len(fetches)
      /\ DOMAIN fetches' = DOMAIN fetches
      /\ fetches[r].result = "pending" /\ fetches'[r].result = "failed"
      /\ fetches'[r] = [command |-> fetches[r].command, result |-> "failed"]
      /\ fetches'[r].command = fetches[r].command
      /\ \A q \in DOMAIN fetches : q # r => fetches'[q] = fetches[q]
  BY <1>1, FailedFetch
<1>4. /\ fetches \in Seq(Fetches) /\ DOMAIN fetches = 1..Fetch /\ Fetch \in Nat
      /\ sockets \in Seq(Sockets) /\ DOMAIN sockets = 1..Newest /\ Newest \in Nat
  BY <1>1 DEF Typed, Fetch, Newest
<1>5. Fetch' = Fetch /\ Newest' = Newest /\ Command' = Command
  BY <1>2, <1>3 DEF Fetch, Newest, Command
<1>6. /\ \A f : Excused(f) => Excused(f)'
      /\ \A m : MayGet(m) \subseteq MayGet(m)'
  BY <1>3, <1>5 DEF Excused, Lost, MayGet, FailedBefore, RightAnswer
<1>7. (Harmless => Harmless') /\ \A m : Left(m) => Left(m)'
  BY <1>2, <1>6 DEF Harmless, Left
<1>8. CASE r # Fetch
  <2>1. Result' = Result
    BY <1>3, <1>4, <1>5, <1>8 DEF Result
  <2>2. Starting => Starting'
    BY <1>5, <1>7 DEF Starting
  <2>3. Asking => Asking'
    BY <1>2, <1>5, <1>7, <2>1 DEF Asking, Asks, Earlier, Unshared
  <2>4. Commanding => Commanding'
    <3>1. \A y : Waits(y) => Waits(y)'
      BY <1>2, <1>5, <1>7, <2>1 DEF Waits, Unshared
    <3>2. \A m, y : AnswerTo(m, y) => AnswerTo(m, y)'
      BY <1>6, <1>7, <2>1 DEF AnswerTo
    <3>3. \A y : Handled(y) => Handled(y)'
      BY <1>5, <1>7, <2>1, <3>2 DEF Handled
    <3>4. \A y : GivesCommand(y) => GivesCommand(y)'
      BY <1>5, <3>1, <3>3 DEF GivesCommand
    <3> QED
      BY <1>2, <1>5, <3>4 DEF Commanding, Earlier
  <2>5. Failing => Failing'
    BY <1>2, <1>5, <1>7, <2>1 DEF Failing
  <2> QED
    BY <1>1, <2>2, <2>3, <2>4, <2>5 DEF TurnOn
<1>9. CASE r = Fetch
  <2>1. Result = "pending" /\ Result' = "failed"
    BY <1>3, <1>5, <1>9 DEF Result
  <2>2. \A s \in DOMAIN sockets : sockets[s].fetch = Fetch => IsOver(sockets[s])
    BY <1>1, <1>9 DEF FetchFails
  <2>3. Asking \/ Commanding
    BY <1>1, <1>4, <1>9, <2>1 DEF TurnOn, Starting, Failing
  <2>4. Idle(sockets[Newest])
    <3>1. Newest \in DOMAIN sockets /\ sockets[Newest].fetch = Fetch
      BY <1>4, <2>3 DEF Asking, Asks, Commanding, GivesCommand
    <3>2. ~(sockets[Newest].method = "OPTIONS" /\ sockets[Newest].answered)
      BY <2>3 DEF Asking, Asks, Commanding, GivesCommand
    <3> QED
      BY <2>2, <3>1, <3>2 DEF IsOver, Idle
  <2>5. \A t \in DOMAIN sockets : Idle(sockets[t]) \/ Preflighted(sockets[t])
    BY <1>1, <2>4, TurnTaken
  <2>6. Harmless'
    <3>1. CASE Harmless
      BY <1>7, <3>1
    <3>2. CASE ~Harmless
      <4>1. Command.type = "U" /\ Left(Command.param)
        BY <2>3, <3>2 DEF Asking, Commanding, GivesCommand, Waits, Handled
      <4>2. fetches[Fetch] \in Fetches
        BY <1>4, <1>9
      <4>3. Command = DownloadCommand(Command.param)
        BY <4>1, <4>2 DEF Command, Fetches, Commands, DownloadCommand
      <4>4. Lost(Command.param)'
        BY <1>3, <1>5, <1>9, <4>3 DEF Lost, Command, DownloadCommand
      <4> QED
        BY <1>2, <1>5, <1>6, <4>1, <4>4 DEF Harmless, Left, Excused
    <3> QED
      BY <3>1, <3>2
  <2>7. Fetch' >= 1
    BY <1>4, <1>5, <1>9
  <2>8. (\A t \in DOMAIN sockets : Idle(sockets[t]) \/ Preflighted(sockets[t]))'
    BY <1>2, <2>5 DEF Idle, Preflighted
  <2> QED
    BY <2>1, <2>6, <2>7, <2>8 DEF Failing, TurnOn
<1> QED
  BY <1>8, <1>9

\* What the page learns from a step: all else leaves its results as they are
\* and takes nothing off its history.
Learns == \/ LearnsRightAnswer
          \/ UNCHANGED fetches /\ records \subseteq records'
          \/ \E cmd \in Commands, preflight \in BOOLEAN : PageFetches(cmd, preflight)
          \/ \E r \in DOMAIN fetches : FetchFails(r)

\* The turns go on, and the page learns nothing wrong.
LEMMA TurnNext == IInv /\ [Next]_vars => IInv' /\ (orderly' => Learns)
<1> SUFFICES ASSUME IInv, [Next]_vars
             PROVE  Turn' /\ (orderly' => Learns)
  BY TypedNext DEF IInv
<1>1. ASSUME NEW preflight \in BOOLEAN, PageStartsTraining(preflight) \/ PageDownloads(preflight)
      PROVE  Turn' /\ Learns
  <2>1. PICK cmd \in Commands : PageFetches(cmd, preflight)
    <3>1. \A n \in Times : TrainCommand(n) \in Commands
      BY ModelsAssumption DEF TrainCommand, Commands
    <3>2. \A m \in records : DownloadCommand(m) \in Commands
      BY DEF DownloadCommand, Commands, Typed, IInv
    <3> QED
      BY <1>1, <3>1, <3>2 DEF PageStartsTraining, PageDownloads
  <2> QED
    BY <2>1, FetchTurn DEF Learns
<1>2. ASSUME NEW s \in DOMAIN sockets, BrowserCloses(s) \/ (~crashed /\ PeerCloses(s))
      PROVE  Turn' /\ Learns
  BY <1>2, ClosingTurn DEF Learns, BrowserCloses, PeerCloses, pageVars
<1>3. ASSUME NEW s \in DOMAIN sockets, incomingConnection(s)
      PROVE  Turn' /\ Learns
  BY <1>3, AcceptTurn DEF Learns, incomingConnection, pageVars
<1>4. ASSUME NEW s \in DOMAIN sockets, ReadOptions(s)
      PROVE  Turn' /\ Learns
  BY <1>4, OptionsTurn DEF Learns, ReadOptions, pageVars
<1>5. ASSUME ~crashed, NEW s \in DOMAIN sockets, NEW split \in BOOLEAN, ReadPost(s, split)
      PROVE  Turn' /\ Learns
  BY <1>5, PostTurn DEF Learns, ReadPost
<1>6. ASSUME ~crashed, NEW s \in DOMAIN sockets, BytesWritten(s)
      PROVE  Turn' /\ (orderly' => Learns)
  BY <1>6, AnswerTurn DEF Learns
<1>7. ASSUME UNCHANGED httpVars, UNCHANGED <<crashed, fetches, orderly>>,
             records \subseteq records'
      PROVE  Turn' /\ Learns
  BY <1>7, OthersTurn DEF Learns
<1>8. CASE WebSocketConnects \/ WebSocketCloses \/ incrementProgress \/ PageStopsTraining
  BY <1>7, <1>8 DEF WebSocketConnects, WebSocketCloses, incrementProgress, PageStopsTraining,
                    pageVars
<1>9. CASE \E m \in Models : addHistoryEntry(m)
  BY <1>7, <1>9 DEF addHistoryEntry, pageVars
<1>10. CASE PageReceives
  BY <1>7, <1>10 DEF PageReceives
<1>11. CASE UNCHANGED vars
  BY <1>7, <1>11 DEF vars, pageVars
<1>12. ASSUME NEW r \in DOMAIN fetches, FetchFails(r)
       PROVE  Turn' /\ Learns
  BY <1>12, FailureTurn DEF Learns
<1> QED
  BY <1>1, <1>2, <1>3, <1>4, <1>5, <1>6, <1>8, <1>9, <1>10, <1>11, <1>12
     DEF Next, ServerStep, PageStep

\* At first nothing is under way.
LEMMA TurnInit == Init => IInv
<1> SUFFICES ASSUME Init
             PROVE  Turn
  BY TypedInit DEF IInv
<1>1. Starting
  BY DEF Init, Starting, Newest, Fetch, Harmless
<1> QED
  BY <1>1 DEF Turn, TurnOn

\* Fetch r has a result that it may have.
MayHave(r) ==
    LET f == fetches[r]
    IN  \/ f.result \in {"pending", "failed"}
        \/ f.command.type = "U" /\ f.result = RightAnswer(f.command.param)
        \/ /\ f.command.type = "U" /\ f.command.param \in NoDirectory
           /\ f.result \in FailedBefore(r)

\* What is learned keeps the results right.
LEMMA ResultsRight ==
    IInv /\ OrderlyAnswersAreRight /\ (orderly' => Learns) /\ (orderly' => orderly)
        => OrderlyAnswersAreRight'
<1> SUFFICES ASSUME IInv, OrderlyAnswersAreRight, Learns, orderly
             PROVE  \A r \in DOMAIN fetches' : MayHave(r)'
  BY DEF OrderlyAnswersAreRight, MayHave
<1>1. /\ fetches \in Seq(Fetches) /\ DOMAIN fetches = 1..Len(fetches)
      /\ \A r \in DOMAIN fetches : fetches[r] \in Fetches
      /\ \A r \in DOMAIN fetches : MayHave(r)
  <2>1. fetches \in Seq(Fetches)
    BY DEF IInv, Typed
  <2>2. \A r \in DOMAIN fetches : MayHave(r)
    BY DEF OrderlyAnswersAreRight, MayHave
  <2> QED
    BY <2>1, <2>2
<1>2. ASSUME \A q \in DOMAIN fetches :
                /\ q \in DOMAIN fetches'
                /\ fetches[q].result = "failed" => fetches'[q] = fetches[q]
      PROVE  \A r : MayHave(r) /\ fetches'[r] = fetches[r] => MayHave(r)'
  <2>1. \A r : FailedBefore(r) \subseteq FailedBefore(r)'
    BY <1>2 DEF FailedBefore
  <2> QED
    BY <2>1 DEF MayHave, RightAnswer
<1>3. CASE UNCHANGED fetches
  BY <1>1, <1>2, <1>3
<1>4. ASSUME NEW cmd \in Commands, NEW preflight \in BOOLEAN, PageFetches(cmd, preflight)
      PROVE  \A r \in DOMAIN fetches' : MayHave(r)'
  <2>1. /\ fetches' \in Seq(Fetches) /\ Len(fetches') = Len(fetches) + 1
        /\ \A r \in DOMAIN fetches : fetches'[r] = fetches[r]
        /\ fetches'[Len(fetches) + 1] = [command |-> cmd, result |-> "pending"]
    BY <1>4, FetchSockets DEF IInv
  <2>2. \A r \in DOMAIN fetches' : r \in DOMAIN fetches \/ r = Len(fetches) + 1
    BY <1>1, <2>1
  <2>3. \A r \in DOMAIN fetches : r \in DOMAIN fetches'
    BY <1>1, <2>1
  <2>4. \A r : MayHave(r) /\ fetches'[r] = fetches[r] => MayHave(r)'
    BY <1>2, <2>1, <2>3
  <2>5. fetches'[Len(fetches) + 1].result = "pending"
    BY <2>1
  <2>6. \A r : r = Len(fetches) + 1 => MayHave(r)'
    BY <2>5 DEF MayHave
  <2> QED
    BY <1>1, <2>1, <2>2, <2>4, <2>6
<1>5. ASSUME Fetch \in DOMAIN fetches, Command.type = "U", Result = "pending",
             NEW a \in MayGet(Command.param), PageGets(Fetch, a)
      PROVE  \A r \in DOMAIN fetches' : MayHave(r)'
  <2>1. fetches' = [fetches EXCEPT ![Fetch] = [fetches[Fetch] EXCEPT !.result = a]]
    BY <1>5 DEF PageGets
  <2>2. fetches[Fetch] \in Fetches
    BY <1>1, <1>5
  <2>3. /\ DOMAIN fetches' = DOMAIN fetches
        /\ \A q \in DOMAIN fetches : q # Fetch => fetches'[q] = fetches[q]
        /\ fetches'[Fetch].result = a /\ fetches'[Fetch].command = Command
    BY <1>1, <1>5, <2>1, <2>2 DEF Fetches, Command
  <2>4. \A r : MayHave(r) /\ fetches'[r] = fetches[r] => MayHave(r)'
    BY <1>2, <1>5, <2>3 DEF Result
  <2>5. ASSUME NEW r, r = Fetch
        PROVE  MayHave(r)'
    <3>1. FailedBefore(r) \subseteq FailedBefore(r)'
      BY <1>5, <2>3 DEF FailedBefore, Result
    <3>2. /\ fetches'[r].result \in MayGet(fetches'[r].command.param)
          /\ fetches'[r].command.type = "U"
      BY <1>5, <2>3, <2>5
    <3> QED
      BY <2>5, <3>1, <3>2 DEF MayHave, MayGet, RightAnswer
  <2> QED
    BY <1>1, <2>3, <2>4, <2>5
<1>6. ASSUME NEW r \in DOMAIN fetches, FetchFails(r)
      PROVE  \A q \in DOMAIN fetches' : MayHave(q)'
  <2>1. /\ DOMAIN fetches' = DOMAIN fetches
        /\ fetches[r].result = "pending" /\ fetches'[r].result = "failed"
        /\ \A q \in DOMAIN fetches : q # r => fetches'[q] = fetches[q]
    BY <1>6, FailedFetch DEF IInv
  <2>2. \A q : MayHave(q) /\ fetches'[q] = fetches[q] => MayHave(q)'
    BY <1>2, <2>1
  <2>3. MayHave(r)'
    BY <2>1 DEF MayHave
  <2> QED
    BY <1>1, <2>1, <2>2, <2>3
<1> QED
  BY <1>3, <1>4, <1>5, <1>6 DEF Learns, LearnsRightAnswer, pageVars

\* A page that was disorderly once stays so.
LEMMA OrderlyBefore == [Next]_vars => (orderly' => orderly)
  BY DEF Next, ServerStep, PageStep, vars, pageVars, PageStartsTraining, PageDownloads,
         PageFetches, BrowserCloses, incomingConnection, PeerCloses, ReadOptions, ReadPost,
         BytesWritten, PageGets, WebSocketConnects, WebSocketCloses, incrementProgress,
         addHistoryEntry, PageReceives, PageStopsTraining, FetchFails

\* InteractionFromUI answers an orderly page's downloads by the file that was
\* asked for or by a 404 if there is none, although the answer goes to the
\* socket of the request before (readClientData, handleUICommand); only in place
\* of a missing directory it sends a file that an earlier download has failed to
\* get (handleUpload).
THEOREM OrderlyAnswersAreRightHolds == Spec => []OrderlyAnswersAreRight
<1>1. Init => OrderlyAnswersAreRight
  BY DEF Init, OrderlyAnswersAreRight
<1>2. IInv /\ OrderlyAnswersAreRight /\ [Next]_vars => IInv' /\ OrderlyAnswersAreRight'
  BY TurnNext, ResultsRight, OrderlyBefore
<1> QED
  BY <1>1, <1>2, TurnInit, PTL DEF Spec

\* The page takes a model off its history only when its file cannot be had, as
\* long as it fetches one thing at a time (downloadModel and its 404).
THEOREM ForgetsOnlyWhatIsGoneHolds == Spec => ForgetsOnlyWhatIsGone
<1>1. IInv /\ [Next]_vars
          => [orderly' => \A m \in records \ records' : RightAnswer(m) = "404"]_vars
  <2> SUFFICES ASSUME IInv, [Next]_vars, orderly', NEW m \in records \ records'
               PROVE  RightAnswer(m) = "404"
    OBVIOUS
  <2>1. Learns
    BY TurnNext
  <2>2. LearnsRightAnswer
    BY <2>1 DEF Learns, PageFetches, FetchFails
  <2>3. PICK a \in MayGet(Command.param) : PageGets(Fetch, a)
    BY <2>2 DEF LearnsRightAnswer, pageVars
  <2>4. a = "404" /\ m = Command.param
    BY <2>3 DEF PageGets, Command
  <2> QED
    BY <2>4 DEF MayGet, RightAnswer
<1>2. IInv /\ [Next]_vars => IInv'
  BY TurnNext
<1> QED
  BY <1>1, <1>2, TurnInit, PTL DEF Spec, ForgetsOnlyWhatIsGone

=============================================================================
