---------------------------- MODULE ModelExchange ----------------------------
(***************************************************************************)
(* The MQTT side of the system in messages rather than models: an edge,    *)
(* its clients and the broker between them.  The edge broadcasts global    *)
(* models, each client trains one at a time and uploads the result, and    *)
(* the edge assembles and aggregates what it gets.                         *)
(*                                                                         *)
(* FederatedTraining takes this exchange for queues of whole models; what  *)
(* of that is true when messages get lost, connections break and disks     *)
(* fail is the question here.                                              *)
(***************************************************************************)
EXTENDS ModelBroadcast, SequencesExt

CONSTANTS
    MaxPublished,  \* bound on the models the edge publishes
    MaxFaults,     \* bound on the faults of the kinds in MayFail
    MayFail

FaultKinds ==
    {"chunk", "end", \* a message is lost between the broker and its subscriber
     "disk",         \* a directory or file cannot be made or opened
     "cut",          \* a connection to the broker is lost
     "train",        \* a training or an upload comes to nothing
     "script",       \* the aggregation script fails
     "timer"}        \* the round timer expires

ASSUME FaultAssumption == MayFail \subseteq FaultKinds
ASSUME BoundsAssumption == MaxPublished \in Nat /\ MaxFaults \in Nat

VARIABLES
    training,      \* training[c]: the model client c trains, as a set
    upWire, roundOpen, chunkFiles, modelFile, roundModels, filed, aggregate,
    lostUp,        \* as in RoundAssembly
    faults

Assembly == INSTANCE RoundAssembly

vars == <<broadcastVars, training, upWire, roundOpen, chunkFiles, modelFile,
          roundModels, filed, aggregate, lostUp, faults>>

ExchangeInit == /\ Init
                /\ Assembly!Init
                /\ training = [c \in Clients |-> {}]
                /\ faults = 0

Fault(kind) == /\ kind \in MayFail
               /\ faults < MaxFaults
               /\ faults' = faults + 1

assemblyVars == <<upWire, roundOpen, chunkFiles, modelFile, roundModels, filed,
                  aggregate, lostUp>>

-----------------------------------------------------------------------------
EdgePublishes == /\ published < MaxPublished
                 /\ PublishModel
                 /\ UNCHANGED <<training, assemblyVars, faults>>

ClientTakes(c) == /\ ReceiveChunk(c) \/ DropModel(c)
                  /\ UNCHANGED <<training, assemblyVars, faults>>

\* ModelSaved starts a training, unless one is running (ClientTrainer).
ClientSaves(c) ==
    /\ SaveModel(c)
    /\ training' = [training EXCEPT ![c] =
                        IF @ = {} THEN {receivedModelData[c][1].model} ELSE @]
    /\ UNCHANGED <<assemblyVars, faults>>

ClientFailsToSave(c) == /\ FailToSave(c)
                        /\ Fault("disk")
                        /\ UNCHANGED <<training, assemblyVars>>

ClientUploads(c) ==
    /\ \E m \in training[c] : Assembly!UploadModel(c, m)
    /\ training' = [training EXCEPT ![c] = {}]
    /\ UNCHANGED <<published, wire, receivedModelData, saved, lost, faults>>

ClientGivesUp(c) == /\ training[c] # {}
                    /\ training' = [training EXCEPT ![c] = {}]
                    /\ Fault("train")
                    /\ UNCHANGED <<broadcastVars, assemblyVars>>

EdgeTakes(c) ==
    /\ \/ Assembly!FileChunk(c) \/ Assembly!MismatchedModel(c)
       \/ Assembly!HoldModel(c) \/ Assembly!Aggregate(c)
    /\ UNCHANGED <<published, wire, receivedModelData, saved, lost, training, faults>>

EdgeFails(c) ==
    /\ \/ Assembly!FailToFile(c) /\ Fault("disk")
       \/ Assembly!FailToSave(c) /\ Fault("disk")
       \/ Assembly!AggregationFails(c) /\ Fault("script")
    /\ UNCHANGED <<published, wire, receivedModelData, saved, lost, training>>

RoundTimerExpires ==
    /\ Assembly!RoundTimerExpires
    /\ Fault("timer")
    /\ UNCHANGED <<published, wire, receivedModelData, saved, lost, training>>

DownlinkLoses(c) == /\ LoseMessage(c)
                    /\ Fault(KindOf(Head(wire[c])))
                    /\ UNCHANGED <<training, assemblyVars>>

UplinkLoses(c) == /\ Assembly!LoseUpload(c)
                  /\ Fault(KindOf(Head(upWire[c])))
                  /\ UNCHANGED <<published, wire, receivedModelData, saved, lost, training>>

\* The broker has passed on the first kept[c] of c's messages when the
\* connection of p breaks.
ConnectionLost(p) ==
    /\ Fault("cut")
    /\ \E kept, keptUp \in [Clients -> 0..(Chunks + 1)] :
          /\ \A c \in Clients :
                /\ kept[c] <= Len(wire[c]) /\ keptUp[c] <= Len(upWire[c])
                /\ p \notin {Edge, c} => kept[c] = 0 /\ keptUp[c] = 0
          /\ Disconnect(p, kept)
          /\ upWire' = [c \in Clients |-> IF p \in {Edge, c}
                                          THEN SubSeq(upWire[c], 1, keptUp[c])
                                          ELSE upWire[c]]
    /\ UNCHANGED <<training, roundOpen, chunkFiles, modelFile, roundModels, filed,
                   aggregate, lostUp>>

Next == \/ EdgePublishes \/ RoundTimerExpires
        \/ \E c \in Clients : \/ ClientTakes(c) \/ ClientSaves(c) \/ ClientFailsToSave(c)
                              \/ ClientUploads(c) \/ ClientGivesUp(c)
                              \/ EdgeTakes(c) \/ EdgeFails(c)
                              \/ DownlinkLoses(c) \/ UplinkLoses(c)
        \/ \E p \in Clients \cup {Edge} : ConnectionLost(p)

Spec == ExchangeInit /\ [][Next]_vars

-----------------------------------------------------------------------------
Parts == [model : 1..MaxPublished, part : 1..Chunks]

Whole(file) == \E m \in 1..published : file = FileOf(m)

TypeOK == /\ online \subseteq Clients \cup {Edge}
          /\ published \in 0..MaxPublished
          /\ \A c \in Clients :
                /\ ToSet(receivedModelData[c]) \subseteq Parts
                /\ ToSet(modelFile[c]) \subseteq Parts
                /\ \A p \in DOMAIN chunkFiles[c] : /\ chunkFiles[c][p] \in Parts
                                                   /\ chunkFiles[c][p].part = p
                /\ training[c] \subseteq 1..published
          /\ ~roundOpen => /\ roundModels = {}
                           /\ \A c \in Clients : DOMAIN chunkFiles[c] = {}
          /\ roundModels \subseteq {c \in Clients : filed[c] # << >>}
          /\ faults \in 0..MaxFaults

\* To a client the broadcast is a pipe of whole models as long as no more than
\* Chunks messages on its way get lost: the size check is as good as that.
OnTheWire(c) == {msg.model : msg \in {m \in ToSet(wire[c]) : m.part = EndMarker}}

Received(c) == [i \in DOMAIN saved[c] |->
                    IF Whole(saved[c][i]) THEN saved[c][i][1].model ELSE 0]

Downlink(c) == INSTANCE LossyPipe
    WITH sent <- published, wire <- OnTheWire(c), received <- Received(c)

ImplementsPipes ==
    /\ \A c \in Clients : Downlink(c)!Init
    /\ [][\A c \in Clients : lost[c].chunk + lost[c].end <= Chunks =>
               \/ Downlink(c)!Next
               \/ UNCHANGED <<published, OnTheWire(c), Received(c)>>]_vars

\* Each loss costs a client little: one model for a chunk, two for an end
\* marker, whose chunks spoil the model that follows.
LossesCostLittle ==
    \A c \in Clients :
        {Edge, c} \subseteq online =>
            Len(saved[c]) + Cardinality(OnTheWire(c))
                + lost[c].chunk + lost[c].disk + 2 * lost[c].end >= published

\* The edge announces a client's model as it was trained, if no more than one of
\* the client's messages has been lost.
EdgeTakesWholeModels ==
    \A c \in Clients :
        lostUp[c].chunk + lostUp[c].end + lostUp[c].disk <= 1 =>
            \A i \in DOMAIN filed[c] : Whole(filed[c][i])

\* What the aggregation reads are whole models, if no chunk has been lost.
AggregatesWholeModels ==
    (\A c \in Clients : lostUp[c].chunk + lostUp[c].disk = 0) =>
        \A c \in Clients : aggregate[c] # << >> => Whole(aggregate[c])

=============================================================================
