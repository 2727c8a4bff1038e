---------------------------- MODULE RoundAssembly ----------------------------
(***************************************************************************)
(* The clients' models on their way to the edge over MQTT, and what the    *)
(* edge makes of them: MyMqttClient::publishModel sends chunks and an end  *)
(* marker, MyEdgeServer::onMessageReceived files the chunks under the      *)
(* current round and client, merges them at the marker and announces the   *)
(* model, and ModelAggregator reads the announced files when each client   *)
(* has one.                                                                *)
(*                                                                         *)
(* A client's model is known by the global model it was trained from.  The *)
(* files are those of the current round: what an earlier round has left    *)
(* behind is never looked at again.                                        *)
(*                                                                         *)
(* Operators named Bug... are deliberate mistakes in the definition that   *)
(* follows them, as in MissionControl.                                     *)
(***************************************************************************)
EXTENDS ModelMessages, FiniteSets

VARIABLES
    online,      \* as in ModelBroadcast
    upWire,      \* upWire[c]: messages of client c on their way to the edge
    roundOpen,   \* m_currentRoundId is not empty
    chunkFiles,  \* chunkFiles[c]: the chunk_* files, part |-> what it holds
    modelFile,   \* modelFile[c]: what model.pt holds, << >> while there is none
    roundModels, \* the clients with an entry in m_roundModels for the round
    filed,       \* filed[c]: the models announced by modelReceived
    aggregate,   \* the files the last aggregation has read, by client
    lostUp       \* lostUp[c]: messages of c, or their effects, lost

filesVars == <<roundOpen, chunkFiles, modelFile, roundModels>>
roundVars == <<filesVars, filed, aggregate>>
assemblyVars == <<online, upWire, roundVars, lostUp>>

NoFile == << >>
NoFiles == [p \in {} |-> 0]

Init == /\ upWire = [c \in Clients |-> << >>]
        /\ roundOpen = FALSE
        /\ chunkFiles = [c \in Clients |-> NoFiles]
        /\ modelFile = [c \in Clients |-> NoFile]
        /\ roundModels = {}
        /\ filed = [c \in Clients |-> << >>]
        /\ aggregate = [c \in Clients |-> NoFile]
        /\ lostUp = [c \in Clients |-> NoLosses]

\* MyMqttClient::publishModel; nothing is sent without a connection.
UploadModel(c, m) ==
    /\ upWire' = [upWire EXCEPT ![c] = IF {Edge, c} \subseteq online
                                       THEN @ \o Messages(m)
                                       ELSE @]
    /\ UNCHANGED <<online, roundVars, lostUp>>

LoseUpload(c) ==
    /\ upWire[c] # << >>
    /\ lostUp' = [lostUp EXCEPT ![c][KindOf(Head(upWire[c]))] = @ + 1]
    /\ upWire' = [upWire EXCEPT ![c] = Tail(@)]
    /\ UNCHANGED <<online, roundVars>>

-----------------------------------------------------------------------------
\* onMessageReceived of any message: a round is opened if there is none.
Take(c) == /\ upWire[c] # << >>
           /\ upWire' = [upWire EXCEPT ![c] = Tail(@)]
           /\ roundOpen' = TRUE
           /\ UNCHANGED online

\* The client's directory cannot be made, or the chunk's file not be opened.
FailToFile(c) ==
    /\ Take(c)
    /\ lostUp' = [lostUp EXCEPT ![c].disk = @ + 1]
    /\ UNCHANGED <<chunkFiles, modelFile, roundModels, filed, aggregate>>

\* A chunk's file is named after its part and truncated before it is written.
WithChunk(files, msg) == [p \in DOMAIN files \cup {msg.part} |->
                              IF p = msg.part THEN msg ELSE files[p]]

FileChunk(c) ==
    /\ Take(c)
    /\ KindOf(Head(upWire[c])) = "chunk"
    /\ chunkFiles' = [chunkFiles EXCEPT ![c] = WithChunk(@, Head(upWire[c]))]
    /\ UNCHANGED <<modelFile, roundModels, filed, aggregate, lostUp>>

\* The n-th of the parts on file.
NthPart(files, n) == CHOOSE p \in DOMAIN files :
                         Cardinality({q \in DOMAIN files : q <= p}) = n

BugMergesNewestFirst(files) ==
    LET n == Cardinality(DOMAIN files)
    IN  [i \in 1..n |-> files[NthPart(files, n + 1 - i)]]

\* The chunk files in the order of their names.
Merged(files) == [i \in 1..Cardinality(DOMAIN files) |-> files[NthPart(files, i)]]

RemoveChunks(c) == chunkFiles' = [chunkFiles EXCEPT ![c] = NoFiles]

\* The merged data becomes model.pt, whether or not its size is right, and the
\* chunk files are removed.
WriteModel(c) == /\ modelFile' = [modelFile EXCEPT ![c] = Merged(chunkFiles[c])]
                 /\ RemoveChunks(c)

TakeEnd(c) == /\ Take(c)
              /\ KindOf(Head(upWire[c])) = "end"
              /\ WriteModel(c)

BugAnySizeMatches(c) == Merged(chunkFiles[c]) # NoFile

SizeMatches(c) == Len(Merged(chunkFiles[c])) = Chunks

\* The data does not have the announced size: nothing is announced.
MismatchedModel(c) ==
    /\ TakeEnd(c)
    /\ ~SizeMatches(c)
    /\ UNCHANGED <<roundModels, filed, aggregate, lostUp>>

\* The data has the announced size: modelReceived files it with the aggregator.
AnnounceModel(c) ==
    /\ TakeEnd(c)
    /\ SizeMatches(c)
    /\ filed' = [filed EXCEPT ![c] = Append(@, modelFile'[c])]
    /\ UNCHANGED lostUp

HoldModel(c) ==
    /\ AnnounceModel(c)
    /\ roundModels \cup {c} # Clients
    /\ roundModels' = roundModels \cup {c}
    /\ UNCHANGED aggregate

\* performAggregation has the script read every client's model.pt, and the
\* round's entry is removed.
Aggregate(c) ==
    /\ AnnounceModel(c)
    /\ roundModels \cup {c} = Clients
    /\ aggregate' = modelFile'
    /\ roundModels' = {}

\* The script fails: the entry stays.
AggregationFails(c) ==
    /\ AnnounceModel(c)
    /\ roundModels \cup {c} = Clients
    /\ roundModels' = Clients
    /\ UNCHANGED aggregate

\* model.pt cannot be opened when it is to be saved, and perhaps not when it is
\* written again either: nothing is announced.
FailToSave(c) ==
    /\ Take(c)
    /\ KindOf(Head(upWire[c])) = "end"
    /\ SizeMatches(c)
    /\ WriteModel(c) \/ (RemoveChunks(c) /\ UNCHANGED modelFile)
    /\ lostUp' = [lostUp EXCEPT ![c].disk = @ + 1]
    /\ UNCHANGED <<roundModels, filed, aggregate>>

BugTimerKeepsModels ==
    /\ roundOpen
    /\ \A c \in Clients : upWire[c] = << >>
    /\ roundOpen' = FALSE
    /\ chunkFiles' = [c \in Clients |-> NoFiles]
    /\ UNCHANGED <<online, upWire, modelFile, roundModels, filed, aggregate, lostUp>>

\* m_roundTimer expires, no message having come for six minutes: later messages
\* will find an empty directory and no entry.
RoundTimerExpires ==
    /\ roundOpen
    /\ \A c \in Clients : upWire[c] = << >>
    /\ roundOpen' = FALSE
    /\ chunkFiles' = [c \in Clients |-> NoFiles]
    /\ modelFile' = [c \in Clients |-> NoFile]
    /\ roundModels' = {}
    /\ UNCHANGED <<online, upWire, filed, aggregate, lostUp>>

=============================================================================
