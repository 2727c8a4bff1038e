----------------------------- MODULE EdgeRelay -----------------------------
(***************************************************************************)
(* The edge server between the centre (MyEdgeClient, TCP) and its clients  *)
(* (MyEdgeServer, MQTT): it hands every global model to all clients,       *)
(* collects their models by round and, when each client has delivered      *)
(* one, aggregates them and sends the result up.                           *)
(*                                                                         *)
(* Models travel whole; a client's model is the global model it was        *)
(* trained from, and the aggregate has been through one round more than    *)
(* the least trained of its parts.                                         *)
(*                                                                         *)
(* Operators named Bug... are deliberate mistakes in the definition that   *)
(* follows them, as in MissionControl.                                     *)
(***************************************************************************)
EXTENDS Naturals, Sequences, FiniteSetsExt

CONSTANTS Edges,    \* the edges of the system
          Me,       \* this edge
          Clients   \* requiredClients: client01 and client02

VARIABLES
    connected, down, up,  \* the connections and wires of MissionControl
    pub,          \* pub[c]: models the broker holds for client c
    sub,          \* sub[c]: models of client c the broker holds for the edge
    roundOpen,    \* m_currentRoundId is not empty
    roundModels,  \* m_roundModels[m_currentRoundId]: client |-> its model
    aggregated    \* m_currentAggregatedModel: the models it was made of

mqttVars == <<pub, sub>>
edgeVars == <<roundOpen, roundModels, aggregated>>

NoModels == [c \in {} |-> 0]

Init == /\ pub = [c \in Clients |-> << >>]
        /\ sub = [c \in Clients |-> << >>]
        /\ roundOpen = FALSE
        /\ roundModels = NoModels
        /\ aggregated = NoModels

\* The rounds of training an aggregate has been through.
Generation(parts) == Min({parts[c] : c \in DOMAIN parts}) + 1

-----------------------------------------------------------------------------
\* handleModelData has a whole model: handleNewModelFromCenter publishes it.
ModelFromCenter ==
    /\ down[Me] # << >>
    /\ down' = [down EXCEPT ![Me] = Tail(@)]
    /\ pub' = [c \in Clients |-> Append(pub[c], Head(down[Me]))]
    /\ UNCHANGED <<connected, up, sub, edgeVars>>

\* The models of the current round once client c's is filed.  The first message
\* after the round id was cleared opens a round that has none yet.
WithModelOf(c) ==
    LET held == IF roundOpen THEN roundModels ELSE NoModels
    IN  [d \in DOMAIN held \cup {c} |-> IF d = c THEN Head(sub[c]) ELSE held[d]]

\* MyEdgeClient::sendModel, which handleAggregationResult calls only while the
\* centre is connected.
SendToCenter(model) ==
    up' = [up EXCEPT ![Me] = IF Me \in connected THEN Append(@, model) ELSE @]

\* onMessageReceived, up to addClientModel: whatever follows, the model is
\* taken from the broker and a round is open.
TakeModelOf(c) ==
    /\ sub[c] # << >>
    /\ sub' = [sub EXCEPT ![c] = Tail(@)]
    /\ roundOpen' = TRUE
    /\ UNCHANGED <<connected, down, pub>>

Complete(parts) == DOMAIN parts = Clients

\* checkRoundCompletion finds a client missing.
HoldModel(c) ==
    /\ TakeModelOf(c)
    /\ ~Complete(WithModelOf(c))
    /\ roundModels' = WithModelOf(c)
    /\ UNCHANGED <<aggregated, up>>

BugAggregatesIncompleteRound(c) ==
    /\ TakeModelOf(c)
    /\ aggregated' = WithModelOf(c)
    /\ SendToCenter(Generation(WithModelOf(c)))
    /\ roundModels' = NoModels

BugRoundNotRemoved(c) ==
    /\ TakeModelOf(c)
    /\ Complete(WithModelOf(c))
    /\ aggregated' = WithModelOf(c)
    /\ SendToCenter(Generation(WithModelOf(c)))
    /\ roundModels' = WithModelOf(c)

\* performAggregation succeeds: handleAggregationResult archives the model and
\* sends it up, and the round is removed.
Aggregate(c) ==
    /\ TakeModelOf(c)
    /\ Complete(WithModelOf(c))
    /\ aggregated' = WithModelOf(c)
    /\ SendToCenter(Generation(WithModelOf(c)))
    /\ roundModels' = NoModels

\* performAggregation fails (script error, 60 s timeout, no output file):
\* aggregationFailed is only logged and the round's models stay.
AggregationFails(c) ==
    /\ TakeModelOf(c)
    /\ Complete(WithModelOf(c))
    /\ roundModels' = WithModelOf(c)
    /\ UNCHANGED <<aggregated, up>>

\* The aggregate is empty or cannot be archived: handleAggregationResult
\* returns early, and checkRoundCompletion removes the round all the same.
ArchivingFails(c) ==
    /\ TakeModelOf(c)
    /\ Complete(WithModelOf(c))
    /\ roundModels' = NoModels
    /\ UNCHANGED <<aggregated, up>>

\* m_roundTimer: six minutes without a message clear m_currentRoundId.  What
\* was collected stays under the old id, out of reach of later messages.
RoundTimerExpires ==
    /\ roundOpen
    /\ roundOpen' = FALSE
    /\ roundModels' = NoModels
    /\ UNCHANGED <<connected, down, up, mqttVars, aggregated>>

=============================================================================
