---------------------------- MODULE StatusChannel ----------------------------
(***************************************************************************)
(* The texts in which the edge reports its steps: MyEdgeStatClient writes  *)
(* them to a TCP connection of their own, MyStatServer cuts the stream     *)
(* into texts again and the centre shows them in the console's log.        *)
(*                                                                         *)
(* A frame is a block size, the length of the text and the text.  The unit *)
(* is a field of four bytes; block size and length are one each.           *)
(*                                                                         *)
(* Operators named Bug... are deliberate mistakes in the definition that   *)
(* follows them, as in MissionControl.                                     *)
(***************************************************************************)
EXTENDS Naturals, Sequences, SequencesExt, Counting

CONSTANTS
    Lengths,      \* the lengths texts may have
    MaxSent,      \* bound on the texts reported
    MaxRestarts   \* bound on the restarts of the edge's process

ASSUME LengthsAssumption == Lengths \subseteq Nat \ {0}
ASSUME RestartsAssumption == MaxRestarts \in Nat

VARIABLES
    socket,     \* the edge's: "connecting", "connected" or "nullptr"
    stream,     \* units sent that have not reached the centre
    arrived,    \* units the centre's socket holds
    accepted,   \* the centre's clientSocket is the other end of it
    reading,    \* onReadyRead is in its loop
    blockSize,  \* the centre's, kept over connections
    received,   \* the texts announced by receivedMessage
    sent,       \* number of texts reported
    written,    \* those that were written to the current connection, in order
    torn,       \* connections dropped with a text partly read
    restarts

centerVars == <<accepted, arrived, reading, blockSize, received>>
vars == <<socket, stream, centerVars, sent, written, torn, restarts>>

BugBlockCountsItself(n, length) ==
    <<[text |-> n, field |-> "block", value |-> length + 2],
      [text |-> n, field |-> "length", value |-> length]>>
    \o [i \in 1..length |-> [text |-> n, field |-> "text", value |-> 0]]

\* The n-th text reported, of the given length, as sendMessage writes it.
Frame(n, length) ==
    <<[text |-> n, field |-> "block", value |-> length + 1],
      [text |-> n, field |-> "length", value |-> length]>>
    \o [i \in 1..length |-> [text |-> n, field |-> "text", value |-> 0]]

Init == /\ socket = "connecting"
        /\ stream = << >>
        /\ accepted = FALSE /\ arrived = << >> /\ reading = FALSE
        /\ blockSize = 0
        /\ received = << >>
        /\ sent = 0 /\ written = << >>
        /\ torn = 0 /\ restarts = 0

-----------------------------------------------------------------------------
(* The edge *)

\* sendMessage: without a connection the text is dropped.
sendMessage(length) ==
    /\ sent < MaxSent
    /\ sent' = sent + 1
    /\ IF socket # "nullptr"
       THEN /\ stream' = stream \o Frame(sent', length)
            /\ written' = Append(written, sent')
       ELSE UNCHANGED <<stream, written>>
    /\ UNCHANGED <<socket, centerVars, torn, restarts>>

\* A text is partly read when its block size is.
PartlyRead == IF blockSize # 0 THEN 1 ELSE 0

\* A connection is gone with all it held.
Drop == /\ stream' = << >> /\ written' = << >>
        /\ accepted' = FALSE /\ arrived' = << >>
        /\ torn' = torn + PartlyRead

\* The connection is lost or refused: the edge deletes its socket, or never
\* uses it, and does not connect again.
ConnectionLost == /\ socket # "nullptr" /\ ~reading
                  /\ socket' = "nullptr"
                  /\ Drop
                  /\ UNCHANGED <<reading, blockSize, received, sent, restarts>>

\* The edge's process is started again.
EdgeRestarts == /\ restarts < MaxRestarts /\ ~reading
                /\ restarts' = restarts + 1
                /\ socket' = "connecting"
                /\ Drop
                /\ UNCHANGED <<reading, blockSize, received, sent>>

-----------------------------------------------------------------------------
(* The centre *)

\* onNewConnection: the old socket is dropped, blockSize stays.
onNewConnection == /\ socket = "connecting"
                   /\ socket' = "connected"
                   /\ accepted' = TRUE
                   /\ UNCHANGED <<stream, arrived, reading, blockSize, received, sent, written, torn, restarts>>

\* Some of the units on their way arrive: onReadyRead is called.
Arrive(n) == /\ accepted /\ ~reading
             /\ arrived' = arrived \o SubSeq(stream, 1, n)
             /\ stream' = SubSeq(stream, n + 1, Len(stream))
             /\ reading' = TRUE
             /\ UNCHANGED <<socket, accepted, blockSize, received, sent, written, torn, restarts>>

\* "in >> blockSize"
ReadBlockSize ==
    /\ reading /\ arrived # << >> /\ blockSize = 0
    /\ blockSize' = Head(arrived).value
    /\ arrived' = Tail(arrived)
    /\ UNCHANGED <<socket, stream, accepted, reading, received, sent, written, torn, restarts>>

BugWaitsForMore == arrived # << >> /\ Len(arrived) > blockSize

\* All of the block has arrived.
BlockArrived == arrived # << >> /\ Len(arrived) >= blockSize

\* What "in >> data" finds: a length and as many bytes, more perhaps than there are.
DataLength == Head(arrived).value
Data == SubSeq(arrived, 2, DataLength + 1)
Corrupted == Head(arrived).field = "text" \/ Len(arrived) < DataLength + 1

BugBlockSizeStays ==
    /\ reading /\ blockSize # 0 /\ BlockArrived /\ ~Corrupted
    /\ received' = Append(received, IF Head(Data).field = "text" THEN Head(Data).text ELSE 0)
    /\ arrived' = SubSeq(arrived, DataLength + 2, Len(arrived))
    /\ UNCHANGED <<socket, stream, accepted, reading, blockSize, sent, written, torn, restarts>>

BugSkipsLength ==
    /\ reading /\ blockSize # 0 /\ BlockArrived /\ ~Corrupted
    /\ received' = Append(received, Head(arrived).text)
    /\ arrived' = Tail(arrived)
    /\ blockSize' = 0
    /\ UNCHANGED <<socket, stream, accepted, reading, sent, written, torn, restarts>>

BugTextNotConsumed ==
    /\ reading /\ blockSize # 0 /\ BlockArrived /\ ~Corrupted
    /\ received' = Append(received, IF Head(Data).field = "text" THEN Head(Data).text ELSE 0)
    /\ UNCHANGED <<socket, stream, accepted, arrived, reading, blockSize, sent, written, torn, restarts>>

\* receivedMessage: the text, or a garbled one (0) when the length was not a
\* length.
ReadText ==
    /\ reading /\ blockSize # 0 /\ BlockArrived /\ ~Corrupted
    /\ received' = Append(received, IF Head(Data).field = "text" THEN Head(Data).text ELSE 0)
    /\ arrived' = SubSeq(arrived, DataLength + 2, Len(arrived))
    /\ blockSize' = 0
    /\ UNCHANGED <<socket, stream, accepted, reading, sent, written, torn, restarts>>

\* "Stream corrupted": the centre closes the connection.
StreamCorrupted ==
    /\ reading /\ blockSize # 0 /\ BlockArrived /\ Corrupted
    /\ socket' = "nullptr"
    /\ Drop
    /\ blockSize' = 0
    /\ reading' = FALSE
    /\ UNCHANGED <<received, sent, restarts>>

\* The loop ends when nothing is left or the block is not complete.
StopReading == /\ reading
               /\ arrived = << >> \/ (blockSize # 0 /\ ~BlockArrived)
               /\ reading' = FALSE
               /\ UNCHANGED <<socket, stream, accepted, arrived, blockSize, received,
                              sent, written, torn, restarts>>

CenterReads == \/ \E n \in 1..Len(stream) : Arrive(n)
               \/ ReadBlockSize \/ ReadText \/ StreamCorrupted \/ StopReading

Next == \/ \E length \in Lengths : sendMessage(length)
        \/ ConnectionLost \/ EdgeRestarts \/ onNewConnection
        \/ CenterReads

Spec == Init /\ [][Next]_vars

\* Both sockets and the server's event loop run.
FairSpec == /\ Spec
            /\ WF_vars(onNewConnection)
            /\ WF_vars(CenterReads)

-----------------------------------------------------------------------------
TypeOK == /\ socket \in {"connecting", "connected", "nullptr"}
          /\ accepted => socket = "connected"
          /\ blockSize \in {0} \cup {length + 1 : length \in Lengths}
          /\ ToSet(received) \subseteq 0..sent
          /\ ToSet(written) \subseteq 1..sent
          /\ torn \in Nat /\ restarts \in 0..MaxRestarts

\* However the stream was cut and whatever was left of an earlier connection,
\* the centre reads block sizes where block sizes were written.
StaysInStep ==
    LET units == arrived \o stream
    IN  units # << >> /\ blockSize = 0 => Head(units).field = "block"

\* A text is garbled only after a connection was dropped in the middle of one,
\* each time at most one.
GarbledByTornConnections == Count(received, {0}) <= torn

\* The texts that are shown are shown once, in the order of the edge's steps.
TextsInOrder ==
    \A i, j \in DOMAIN received :
        i < j /\ received[i] # 0 /\ received[j] # 0 => received[i] < received[j]

\* A text that was written to a connection is shown unless that connection is
\* lost, or an earlier one was torn.
WrittenIsShown ==
    \A n \in 1..MaxSent :
        (n \in ToSet(written) /\ torn = 0)
            ~> (n \in ToSet(received) \/ n \notin ToSet(written) \/ torn > 0)

=============================================================================
