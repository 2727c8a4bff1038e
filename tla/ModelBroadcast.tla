---------------------------- MODULE ModelBroadcast ----------------------------
(***************************************************************************)
(* A global model on its way from the edge to the clients over MQTT:       *)
(* MyEdgeServer::publishModel cuts the file into chunks and an end marker  *)
(* that carries its size; MyMqttClient::onMessageReceived appends chunks   *)
(* and, at the marker, saves what it has if the size is right.             *)
(*                                                                         *)
(* The edge asks for QoS 1 but the clients subscribe with QoS 0, so any    *)
(* message may be lost on its way.                                         *)
(*                                                                         *)
(* Operators named Bug... are deliberate mistakes in the definition that   *)
(* follows them, as in MissionControl.                                     *)
(***************************************************************************)
EXTENDS ModelMessages

VARIABLES
    online,      \* the owners of a connection to the broker: edge and clients
    published,   \* the number of models published, which are 1..published
    wire,        \* wire[c]: messages on their way to client c
    receivedModelData, \* receivedModelData[c]: chunks since the last end marker
    saved,       \* saved[c]: the files announced by ModelSaved
    lost         \* lost[c]: messages on their way to c, or their effects, lost

broadcastVars == <<online, published, wire, receivedModelData, saved, lost>>

Init == /\ online = Clients \cup {Edge}
        /\ published = 0
        /\ wire = [c \in Clients |-> << >>]
        /\ receivedModelData = [c \in Clients |-> << >>]
        /\ saved = [c \in Clients |-> << >>]
        /\ lost = [c \in Clients |-> NoLosses]

\* MyEdgeServer::publishModel of a readable file.  What publish returns is not
\* looked at: without a connection nothing is sent.
PublishModel ==
    /\ published' = published + 1
    /\ wire' = [c \in Clients |-> IF {Edge, c} \subseteq online
                                  THEN wire[c] \o Messages(published')
                                  ELSE wire[c]]
    /\ UNCHANGED <<online, receivedModelData, saved, lost>>

\* The next message for c is lost.
LoseMessage(c) ==
    /\ wire[c] # << >>
    /\ lost' = [lost EXCEPT ![c][KindOf(Head(wire[c]))] = @ + 1]
    /\ wire' = [wire EXCEPT ![c] = Tail(@)]
    /\ UNCHANGED <<online, published, receivedModelData, saved>>

Take(c) == /\ wire[c] # << >>
           /\ wire' = [wire EXCEPT ![c] = Tail(@)]
           /\ UNCHANGED <<online, published>>

\* onMessageReceived of a chunk.
ReceiveChunk(c) ==
    /\ Take(c)
    /\ KindOf(Head(wire[c])) = "chunk"
    /\ receivedModelData' = [receivedModelData EXCEPT ![c] = Append(@, Head(wire[c]))]
    /\ UNCHANGED <<saved, lost>>

BugKeepsDataOnMismatch(c) ==
    /\ Take(c)
    /\ KindOf(Head(wire[c])) = "end"
    /\ IF Len(receivedModelData[c]) = Chunks
       THEN receivedModelData' = [receivedModelData EXCEPT ![c] = << >>]
       ELSE UNCHANGED receivedModelData

\* onMessageReceived of an end marker: whatever comes of it, the data is gone.
TakeEnd(c) ==
    /\ Take(c)
    /\ KindOf(Head(wire[c])) = "end"
    /\ receivedModelData' = [receivedModelData EXCEPT ![c] = << >>]

BugSavesAnySize(c) ==
    /\ TakeEnd(c)
    /\ receivedModelData[c] # << >>
    /\ saved' = [saved EXCEPT ![c] = Append(@, receivedModelData[c])]
    /\ UNCHANGED lost

\* The data has the announced size and is saved; ModelSaved announces it.
SaveModel(c) ==
    /\ TakeEnd(c)
    /\ Len(receivedModelData[c]) = Chunks
    /\ saved' = [saved EXCEPT ![c] = Append(@, receivedModelData[c])]
    /\ UNCHANGED lost

\* The directory cannot be made or the file cannot be opened.
FailToSave(c) ==
    /\ TakeEnd(c)
    /\ Len(receivedModelData[c]) = Chunks
    /\ lost' = [lost EXCEPT ![c].disk = @ + 1]
    /\ UNCHANGED saved

\* "Size mismatch"
DropModel(c) ==
    /\ TakeEnd(c)
    /\ Len(receivedModelData[c]) # Chunks
    /\ UNCHANGED <<saved, lost>>

\* The connection of p to the broker is lost: of the messages to each client
\* concerned, kept[c] still arrive.  Nobody connects to the broker again.
Disconnect(p, kept) ==
    /\ p \in online
    /\ online' = online \ {p}
    /\ wire' = [c \in Clients |-> IF p \in {Edge, c}
                                  THEN SubSeq(wire[c], 1, kept[c])
                                  ELSE wire[c]]
    /\ UNCHANGED <<published, receivedModelData, saved, lost>>

=============================================================================
