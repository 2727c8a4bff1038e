----------------------------- MODULE ModelUplink -----------------------------
(***************************************************************************)
(* An aggregated model on its way from the edge to the centre:             *)
(* MyEdgeClient::sendModel writes a size field and then chunks of the file *)
(* whenever the socket reports written bytes, at first from two handlers   *)
(* of that signal at once; MyServer::processIncomingData counts what it    *)
(* reads and saves the file when the count is right.                       *)
(*                                                                         *)
(* The unit is a chunk of 64 KB; the size field has HeaderSize units of    *)
(* its own, so that reads may split it.  As in ModelDownlink a unit is     *)
(* known by its model and its position in the frame.                       *)
(*                                                                         *)
(* Operators named Bug... are deliberate mistakes in the definition that   *)
(* follows them, as in MissionControl.                                     *)
(***************************************************************************)
EXTENDS Integers, Sequences, FiniteSets, SequencesExt

CONSTANTS
    Models,           \* the aggregated models
    Size,             \* Size[m]: the length of model m's file in chunks
    HeaderSize,       \* units of the size field
    MaxFileSize,      \* the longest file the centre accepts (100 MB)
    Window,           \* chunks in the socket's buffer that pause the sender
    MaxSends,         \* bound on the models sent
    MaxFaults,        \* bound on the faults of the kinds in MayFail
    MayFail           \* the kinds of fault that may happen

ASSUME SizesAssumption ==
    /\ \A m \in Models : Size[m] \in Nat \ {0}
    /\ HeaderSize \in Nat \ {0}
    /\ MaxFileSize \in Nat
    /\ Window \in Nat
ASSUME BoundsAssumption == MaxSends \in Nat /\ MaxFaults \in Nat

FaultKinds ==
    {"drop",    \* the connection is lost
     "save",    \* a complete file cannot be written or renamed
     "freed",   \* the reference to a removed transfer reads garbage
     "whole",   \* one read of the centre returns a whole frame
     "unfit"}   \* a file fits into one chunk or exceeds MaxFileSize

ASSUME FaultAssumption == MayFail \subseteq FaultKinds

VARIABLES
    link,       \* the connection: "up", "retrying" (3 s timer set) or "down"
    file,       \* m_currentFile as a set of models: empty when it is null
    sent,       \* m_bytesSent
    inProgress, \* m_transferInProgress, while handleBytesWritten is connected
    onWritten,  \* the constructor's connection of onBytesWritten still exists
    queue,      \* the write buffer of the edge's socket
    stream,     \* units sent and not read by the centre
    transfer,   \* the centre's m_transfers entry: headerReceived, expectedSize, buffer
    received,   \* the models announced by modelReceived
    sends, faults

edgeVars   == <<file, sent, inProgress, onWritten, queue>>
centerVars == <<transfer, received>>
vars == <<link, edgeVars, stream, centerVars, sends, faults>>

Frame(m) == [i \in 1..(HeaderSize + Size[m]) |-> [model |-> m, at |-> i]]
Header(m) == SubSeq(Frame(m), 1, HeaderSize)
FileBytes(m) == SubSeq(Frame(m), HeaderSize + 1, Len(Frame(m)))

BugChunksWithoutSeek(m, from, to) == SubSeq(FileBytes(m), 1, to - from)

\* Chunks from+1 .. to of the file of m.
Chunks(m, from, to) == SubSeq(FileBytes(m), from + 1, to)

NoTransfer == [headerReceived |-> FALSE, expectedSize |-> 0, buffer |-> << >>]

Init == /\ link = "up"
        /\ file = {} /\ sent = 0 /\ inProgress = FALSE /\ onWritten = TRUE
        /\ queue = << >> /\ stream = << >>
        /\ transfer = NoTransfer
        /\ received = << >>
        /\ sends = 0
        /\ faults = 0

Smaller(x, y) == IF x < y THEN x ELSE y
Larger(x, y)  == IF x > y THEN x ELSE y

\* One more fault of a kind that may happen.
Fault(kind) == /\ kind \in MayFail
               /\ faults < MaxFaults
               /\ faults' = faults + 1

FaultIf(bad, kind) == \/ bad /\ Fault(kind)
                      \/ ~bad /\ UNCHANGED faults

Unfit(m) == Size[m] = 1 \/ Size[m] > MaxFileSize

-----------------------------------------------------------------------------
(* The edge *)

BugAbortKeepsFlag ==
    /\ file' = {} /\ sent' = 0 /\ onWritten' = FALSE
    /\ UNCHANGED inProgress
    /\ queue' = << >> /\ stream' = << >>
    /\ transfer' = NoTransfer

\* abortTransfer: the socket is aborted with all it holds, the file is closed
\* and every handler of bytesWritten is disconnected, the constructor's too.
\* The centre's handleClientDisconnected forgets the transfer.
AbortTransfer ==
    /\ file' = {} /\ sent' = 0 /\ inProgress' = FALSE /\ onWritten' = FALSE
    /\ queue' = << >> /\ stream' = << >>
    /\ transfer' = NoTransfer

\* onBytesWritten, if still connected, writes one chunk.  The chunks of m sent
\* after it, when sent were before.
AfterOnWritten(m) == IF onWritten THEN Smaller(sent + 1, Size[m]) ELSE sent

BugPumpsOneWindow(m, before, queued) == Smaller(Size[m], Larger(before, Window + 1))

\* handleBytesWritten writes chunks until the buffer, now of queued units,
\* exceeds the window.
AfterPump(m, before, queued) ==
    Smaller(Size[m], before + Larger(1, Window + 1 - queued))

\* sendModel.  Waiting for the size field to be written runs onBytesWritten if
\* it is still connected; when that sends the whole file, finishTransfer closes
\* it and sendFileData aborts the transfer for want of a file.  The last model
\* has been written and read (FederatedTraining: OneModelAtCenter).
SendModel(m) ==
    /\ link = "up"
    /\ ~inProgress /\ queue = << >> /\ stream = << >>
    /\ sends < MaxSends
    /\ sends' = sends + 1
    /\ LET first == IF onWritten THEN 1 ELSE 0
           last  == AfterPump(m, first, first)
       IN  IF first = Size[m]
           THEN AbortTransfer /\ link' = "down"
           ELSE /\ stream' = Header(m)
                /\ queue' = Chunks(m, 0, last)
                /\ file' = {m}
                /\ sent' = last
                /\ inProgress' = (last < Size[m])
                /\ onWritten' = (onWritten /\ last < Size[m])
                /\ UNCHANGED <<link, transfer>>
    /\ FaultIf(Unfit(m), "unfit")
    /\ UNCHANGED received

\* The socket writes n units and reports it.  While a transfer is in progress
\* onBytesWritten and then handleBytesWritten refill the buffer; the handler
\* that sends the last chunk ends the transfer, onBytesWritten by closing the
\* file and handleBytesWritten by disconnecting both.
BytesWritten(n) ==
    /\ stream' = stream \o SubSeq(queue, 1, n)
    /\ LET rest == SubSeq(queue, n + 1, Len(queue))
       IN  \/ /\ ~inProgress
              /\ queue' = rest
              /\ UNCHANGED <<file, sent, inProgress, onWritten>>
           \/ /\ inProgress
              /\ \E m \in file :
                    LET s1 == AfterOnWritten(m)
                        s2 == AfterPump(m, s1, Len(rest) + s1 - sent)
                    IN  /\ queue' = rest \o Chunks(m, sent, s2)
                        /\ sent' = s2
                        /\ file' = IF s1 = Size[m] THEN {} ELSE file
                        /\ inProgress' = (s2 < Size[m])
                        /\ onWritten' = (onWritten /\ s2 < Size[m])
    /\ UNCHANGED <<link, transfer, received, sends, faults>>

-----------------------------------------------------------------------------
(* The centre *)

\* The centre closes the connection, which the edge answers by one attempt to
\* connect again.
CloseConnection == AbortTransfer /\ link' = "retrying"

\* What the file in the buffer is: the one it was sent as, or "torn".
FileOf(bytes) == LET m == bytes[1].model
                 IN  IF bytes = FileBytes(m) THEN m ELSE "torn"

\* The buffer of the transfer after a read of n units.
Buffered(n) == transfer.buffer \o SubSeq(stream, 1, n)

\* An uneventful read: the units move, the edge notices nothing.
Reads(n) == /\ stream' = SubSeq(stream, n + 1, Len(stream))
            /\ UNCHANGED <<link, edgeVars, sends>>

\* The read that completes the size field has brought the whole file along.
WholeFrame(n) == Len(Buffered(n)) >= Len(Frame(Buffered(n)[1].model))

BugCountsSizeField(bytes) == Len(bytes) = transfer.expectedSize + HeaderSize

\* "All data received", in processIncomingData.
AllReceived(bytes) == Len(bytes) = transfer.expectedSize

\* processIncomingData before the size field is complete.
ReadPartOfSize(n) ==
    /\ ~transfer.headerReceived
    /\ Len(Buffered(n)) < HeaderSize
    /\ transfer' = [transfer EXCEPT !.buffer = Buffered(n)]
    /\ Reads(n)
    /\ UNCHANGED <<received, faults>>

\* The size field is complete: it is taken off the buffer, and the handler
\* returns whatever else the read has brought along.
ReadSize(n) ==
    /\ ~transfer.headerReceived
    /\ Len(Buffered(n)) >= HeaderSize
    /\ FaultIf(WholeFrame(n), "whole")
    /\ LET size == Size[Buffered(n)[1].model]
       IN  /\ size <= MaxFileSize
           /\ transfer' = [headerReceived |-> TRUE,
                           expectedSize   |-> size,
                           buffer |-> SubSeq(Buffered(n), HeaderSize + 1, Len(Buffered(n)))]
    /\ Reads(n)
    /\ UNCHANGED received

\* "Invalid header": the file is too long.
RefuseSize(n) ==
    /\ ~transfer.headerReceived
    /\ Len(Buffered(n)) >= HeaderSize
    /\ Size[Buffered(n)[1].model] > MaxFileSize
    /\ CloseConnection
    /\ UNCHANGED <<received, sends, faults>>

ReadData(n) ==
    /\ transfer.headerReceived
    /\ ~AllReceived(Buffered(n))
    /\ Len(Buffered(n)) <= transfer.expectedSize
    /\ transfer' = [transfer EXCEPT !.buffer = Buffered(n)]
    /\ Reads(n)
    /\ UNCHANGED <<received, faults>>

\* "Data overflow" and "buffer overflow": more was read than announced.
Overflow(n) ==
    /\ transfer.headerReceived
    /\ ~AllReceived(Buffered(n))
    /\ Len(Buffered(n)) > transfer.expectedSize
    /\ CloseConnection
    /\ UNCHANGED <<received, sends, faults>>

\* saveReceivedModel, and modelReceived unless the file cannot be written or
\* renamed (two models in one second have the same name).  The handler goes on
\* with a reference to the removed entry: garbage there may pass for an overflow.
SaveModel(n) ==
    /\ transfer.headerReceived
    /\ AllReceived(Buffered(n))
    /\ \/ /\ received' = Append(received, FileOf(Buffered(n)))
          /\ transfer' = NoTransfer
          /\ Reads(n)
          /\ UNCHANGED faults
       \/ /\ Fault("save")
          /\ transfer' = NoTransfer
          /\ Reads(n)
          /\ UNCHANGED received
       \/ /\ Fault("freed")
          /\ received' = Append(received, FileOf(Buffered(n)))
          /\ CloseConnection
          /\ UNCHANGED sends

CenterReads(n) == \/ ReadPartOfSize(n) \/ ReadSize(n) \/ RefuseSize(n)
                  \/ ReadData(n) \/ Overflow(n) \/ SaveModel(n)

-----------------------------------------------------------------------------
\* The connection is lost: only a close by the peer is answered by one attempt
\* to connect again, after three seconds.
ConnectionLost(closedByPeer) ==
    /\ link = "up"
    /\ Fault("drop")
    /\ AbortTransfer
    /\ link' = IF closedByPeer THEN "retrying" ELSE "down"
    /\ UNCHANGED <<received, sends>>

Reconnect(accepted) ==
    /\ link = "retrying"
    /\ link' = IF accepted THEN "up" ELSE "down"
    /\ UNCHANGED <<edgeVars, stream, centerVars, sends, faults>>

Next == \/ \E m \in Models : SendModel(m)
        \/ \E n \in 1..Len(queue) : BytesWritten(n)
        \/ \E n \in 1..Len(stream) : CenterReads(n)
        \/ \E closedByPeer \in BOOLEAN : ConnectionLost(closedByPeer)
        \/ \E accepted \in BOOLEAN : Reconnect(accepted)

Spec == Init /\ [][Next]_vars

\* The sockets of both ends write and read what they can.
FairSpec == /\ Spec
            /\ WF_vars(\E n \in 1..Len(queue) : BytesWritten(n))
            /\ WF_vars(\E n \in 1..Len(stream) : CenterReads(n))

-----------------------------------------------------------------------------
Units(seq) == \A i \in DOMAIN seq : /\ seq[i].model \in Models
                                    /\ seq[i].at \in 1..Len(Frame(seq[i].model))

TypeOK == /\ link \in {"up", "retrying", "down"}
          /\ file \subseteq Models
          /\ sent \in Nat
          /\ inProgress \in BOOLEAN /\ onWritten \in BOOLEAN
          /\ inProgress => file # {}
          /\ Units(queue) /\ Units(stream) /\ Units(transfer.buffer)
          /\ transfer.headerReceived \in BOOLEAN
          /\ transfer.expectedSize \in Nat
          /\ ToSet(received) \subseteq Models \cup {"torn"}
          /\ sends \in 0..MaxSends
          /\ faults \in 0..MaxFaults

\* Sending models, however many, costs the connection only after a fault: the
\* centre never takes a well-formed stream for an overflow.
ConnectionKept == link # "up" => faults > 0

\* Every model the edge sends is announced by the centre, unless a fault occurs.
SentIsReceived ==
    \A k \in 1..MaxSends : (sends = k) ~> (Len(received) >= k \/ faults > 0)

\* "All data received, trigger the save": a model that has been read completely
\* does not stay in the buffer.
CompleteIsSaved ==
    LET all == /\ transfer.headerReceived
               /\ Len(transfer.buffer) = transfer.expectedSize
    IN  [](all => <>~all)

\* A model is on the wire until the centre saves its last unit, which may not
\* even be written yet.
Unwritten == IF inProgress THEN LET m == CHOOSE m \in file : TRUE
                                IN  Chunks(m, sent, Size[m])
                           ELSE << >>

LastUnits(seq) == {i \in DOMAIN seq : seq[i].at = HeaderSize + Size[seq[i].model]}

NthLast(seq, n) == CHOOSE i \in LastUnits(seq) :
                       Cardinality({j \in LastUnits(seq) : j <= i}) = n

ModelsEndingIn(seq) == [n \in 1..Cardinality(LastUnits(seq)) |-> seq[NthLast(seq, n)].model]

OnTheWire == ModelsEndingIn(transfer.buffer \o stream \o queue \o Unwritten)

\* The uplink is a FIFO of whole models, lost only with the connection; a model
\* that cannot be saved is alone on it and counts as lost with it.
Pipe == INSTANCE ModelPipe WITH wire <- OnTheWire, disk <- "works", DiskStates <- {"works"}

ImplementsPipe == Pipe!Spec

=============================================================================
