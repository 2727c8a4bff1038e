---------------------------- MODULE ModelDownlink ----------------------------
(***************************************************************************)
(* A global model on its way from the centre to the edge: MyServer's       *)
(* sendModel writes an 8 byte size and the file, MyEdgeClient's            *)
(* handleModelData cuts the stream into models again, in reads of any      *)
(* length.  The connection may be lost and is tried again once; the disk   *)
(* of the edge may be full, or refuse the file.                            *)
(*                                                                         *)
(* A byte is known by the model it was sent for and its position in that   *)
(* model's frame; a frame is HeaderSize bytes and Size[m] bytes of file.   *)
(*                                                                         *)
(* Operators named Bug... are deliberate mistakes in the definition that   *)
(* follows them, as in MissionControl.                                     *)
(***************************************************************************)
EXTENDS Integers, Sequences, SequencesExt

CONSTANTS
    Models,      \* the files the centre may send
    Size,        \* Size[m]: the length of file m
    HeaderSize,  \* the length of the size field (8 in the code)
    Garbage,     \* sizes that eight bytes of file may be taken for
    MaxSends,    \* bound on the models sent
    MaxDrops,    \* bound on the connections lost
    TornModels,  \* TRUE: a connection may be lost in the middle of a model
    DiskStates   \* what may become of the edge's disk

ASSUME SizesAssumption ==
    /\ \A m \in Models : Size[m] \in Nat \ {0}
    /\ HeaderSize \in Nat \ {0}
    /\ Garbage \subseteq Int
ASSUME BoundsAssumption == MaxSends \in Nat /\ MaxDrops \in Nat
ASSUME DiskAssumption ==
    "works" \in DiskStates /\ DiskStates \subseteq {"works", "full", "unwritable"}

VARIABLES
    link,      \* the edge's socket: "up", "retrying" (3 s timer set) or "down"
    stream,    \* bytes written by the centre and not read by the edge
    header,    \* bytes of an incomplete size field left in the socket
    transfer,  \* m_transfer: headerReceived, expectedSize and buffer
    received,  \* the files handed to handleNewModelFromCenter
    disk,      \* the edge's disk: "works", "full" or "unwritable"
    sends, drops

vars == <<link, stream, header, transfer, received, disk, sends, drops>>

Frame(m) == [i \in 1..(HeaderSize + Size[m]) |-> [model |-> m, at |-> i]]

FileBytes(m) == SubSeq(Frame(m), HeaderSize + 1, Len(Frame(m)))

\* What a received byte string is: the file of a model, or "torn".
FileOf(bytes) == LET m == bytes[1].model
                 IN  IF bytes = FileBytes(m) THEN m ELSE "torn"

\* The size HeaderSize bytes stand for: the real one at the start of a frame,
\* anything at all in the middle of one.
SizeIn(bytes, anything) ==
    LET m == bytes[1].model
    IN  IF bytes = SubSeq(Frame(m), 1, HeaderSize) THEN Size[m] ELSE anything

NoTransfer == [headerReceived |-> FALSE, expectedSize |-> 0, buffer |-> << >>]

Init == /\ link = "up"
        /\ stream = << >>
        /\ header = << >>
        /\ transfer = NoTransfer
        /\ received = << >>
        /\ disk = "works"
        /\ sends = 0
        /\ drops = 0

-----------------------------------------------------------------------------
\* MyServer::sendModel; a model for a socket that is not connected goes nowhere.
SendModel(m) ==
    /\ sends < MaxSends
    /\ sends' = sends + 1
    /\ stream' = IF link = "up" THEN stream \o Frame(m) ELSE stream
    /\ UNCHANGED <<link, header, transfer, received, disk, drops>>

\* saveReceivedModel: the files announced for one received.  How much write has
\* written is not asked; without a directory or a file nothing is announced.
Saved(file) == CASE disk = "works" -> <<file>>
                 [] disk = "full" -> <<"torn">>
                 [] disk = "unwritable" -> << >>

BugTransferNotReset(st, bytes) ==
    [st EXCEPT !.transfer.headerReceived = FALSE,
               !.received = @ \o Saved(FileOf(bytes))]

\* The file is complete: it is saved and m_transfer starts afresh, in either case.
Complete(st, bytes) ==
    [st EXCEPT !.transfer = NoTransfer,
               !.received = @ \o Saved(FileOf(bytes))]

\* handleModelData on one byte, st being what it has read so far.  A size that
\* is not positive is never satisfied, and nothing is read any more.
ReadByte(st, byte, anything) ==
    LET t == st.transfer
        field == Append(st.header, byte)
        bytes == Append(t.buffer, byte)
    IN  CASE ~t.headerReceived /\ Len(field) < HeaderSize -> [st EXCEPT !.header = field]
          [] ~t.headerReceived /\ Len(field) = HeaderSize ->
                 [st EXCEPT !.header = << >>,
                            !.transfer.headerReceived = TRUE,
                            !.transfer.expectedSize = SizeIn(field, anything)]
          [] t.headerReceived /\ Len(bytes) < t.expectedSize ->
                 [st EXCEPT !.transfer.buffer = bytes]
          [] t.headerReceived /\ Len(bytes) = t.expectedSize -> Complete(st, bytes)
          [] OTHER -> st

reader == [header |-> header, transfer |-> transfer, received |-> received]

\* What the loop of handleModelData makes of the next n bytes.
AfterBytes(n, anything) ==
    LET after[i \in 0..n] ==
            IF i = 0 THEN reader ELSE ReadByte(after[i - 1], stream[i], anything)
    IN  after[n]

\* readyRead: handleModelData reads the next n bytes.
EdgeReads(n) ==
    /\ link = "up"
    /\ \E anything \in Garbage :
          LET st == AfterBytes(n, anything)
          IN  /\ header' = st.header
              /\ transfer' = st.transfer
              /\ received' = st.received
    /\ stream' = SubSeq(stream, n + 1, Len(stream))
    /\ UNCHANGED <<link, disk, sends, drops>>

\* The connection is lost: abortTransfer aborts the socket and what it held,
\* but m_transfer stays.  Only a close by the centre is answered by one attempt
\* to connect again.
ConnectionLost(closedByCenter) ==
    /\ link = "up"
    /\ drops < MaxDrops
    /\ TornModels \/ ~transfer.headerReceived
    /\ link' = IF closedByCenter THEN "retrying" ELSE "down"
    /\ drops' = drops + 1
    /\ stream' = << >>
    /\ header' = << >>
    /\ UNCHANGED <<transfer, received, disk, sends>>

\* The attempt after three seconds; a refused one is not repeated.
Reconnect(accepted) ==
    /\ link = "retrying"
    /\ link' = IF accepted THEN "up" ELSE "down"
    /\ UNCHANGED <<stream, header, transfer, received, disk, sends, drops>>

\* The disk fills up, loses its permissions, or works again.  A change in the
\* middle of a read is one between two shorter reads.
DiskChanges(state) ==
    /\ disk # state
    /\ disk' = state
    /\ UNCHANGED <<link, stream, header, transfer, received, sends, drops>>

Next == \/ \E m \in Models : SendModel(m)
        \/ \E n \in 1..Len(stream) : EdgeReads(n)
        \/ \E closedByCenter \in BOOLEAN : ConnectionLost(closedByCenter)
        \/ \E accepted \in BOOLEAN : Reconnect(accepted)
        \/ \E state \in DiskStates : DiskChanges(state)

Spec == Init /\ [][Next]_vars

-----------------------------------------------------------------------------
TypeOK == /\ link \in {"up", "retrying", "down"}
          /\ \A b \in ToSet(stream \o header \o transfer.buffer) :
                b.model \in Models /\ b.at \in 1..Len(Frame(b.model))
          /\ transfer.headerReceived \in BOOLEAN
          /\ ~transfer.headerReceived => transfer.buffer = << >>
          /\ transfer.expectedSize \in Int
          /\ ToSet(received) \subseteq Models \cup {"torn"}
          /\ disk \in DiskStates
          /\ sends \in 0..MaxSends
          /\ drops \in 0..MaxDrops

\* Every file handed to the clients is, byte for byte, a file the centre sent.
ReceivedIntact == "torn" \notin ToSet(received)

IsLastByte(b) == b.at = HeaderSize + Size[b.model]

\* The models whose last bytes are among the given ones, in order.
ModelsEndingIn(bytes) ==
    LET ending[i \in 0..Len(bytes)] ==
            IF i = 0 THEN << >>
            ELSE IF IsLastByte(bytes[i]) THEN Append(ending[i - 1], bytes[i].model)
                                         ELSE ending[i - 1]
    IN  ending[Len(bytes)]

\* A model is on the wire until its last byte is read.
OnTheWire == ModelsEndingIn(stream)

\* The downlink is a FIFO of whole models, lost only with the connection or by
\* the disk they are saved on.
Pipe == INSTANCE ModelPipe WITH wire <- OnTheWire

ImplementsPipe == Pipe!Spec

=============================================================================
