--------------------------- MODULE MissionControl ---------------------------
(***************************************************************************)
(* The centre's training state machine: StartMission of the Center         *)
(* process, the progress counters InteractionFromUI keeps for it and the   *)
(* MyServer operations it calls.  A Qt event loop runs one handler at a    *)
(* time, so a handler is one action.                                       *)
(*                                                                         *)
(* A model is the number of training rounds it has been through: 0 is the  *)
(* pretrained yolov8n.pt every campaign starts from.  The wire between the *)
(* centre and an edge is a FIFO of whole models in each direction.         *)
(***************************************************************************)
EXTENDS Naturals, Sequences

CONSTANTS Edges,       \* the edge servers that may connect to port 11000
          MaxRounds    \* bound on the number of rounds an operator asks for

ASSUME MaxRoundsAssumption == MaxRounds \in Nat

VARIABLES
    remaining,    \* m_remainingTrainTimes
    lastModel,    \* m_LastbroadcastModelPath
    pending,      \* queued QTimer::singleShot(0, sendNextModel) events
    currentStep,  \* m_currentStep of the progress bar
    totalSteps,   \* m_totalSteps of the progress bar
    history,      \* the "history" entries announced to the console
    connected,    \* the sockets of m_clients in ConnectedState
    down,         \* down[e]: models on the wire from the centre to edge e
    up            \* up[e]: models on the wire from edge e to the centre

missionVars == <<remaining, lastModel, pending, currentStep, totalSteps, history>>
wireVars    == <<connected, down, up>>
centerVars  == <<missionVars, wireVars>>

InitialModel == 0

Init == /\ remaining = 0
        /\ lastModel = InitialModel
        /\ pending = 0
        /\ currentStep = 0
        /\ totalSteps = 0
        /\ history = << >>
        /\ connected = {}
        /\ down = [e \in Edges |-> << >>]
        /\ up = [e \in Edges |-> << >>]

-----------------------------------------------------------------------------
(* Operators named Bug... are deliberate mistakes in the definition that     *)
(* follows them; PROJECT.json names the property that notices each.  No     *)
(* specification uses them.                                                  *)

\* MyServer::sendModel writes the file to every connected socket; a file that
\* cannot be opened is written to none, and the caller is not told.
sendModel(model, readable) ==
    down' = [e \in Edges |-> IF readable /\ e \in connected
                             THEN Append(down[e], model)
                             ELSE down[e]]

\* StartMission::sendNextModel, called with the rounds left to send.
sendNextModel(left, readable) ==
    \/ /\ left > 0
       /\ sendModel(lastModel, readable)
       /\ remaining' = left - 1
    \/ /\ left = 0
       /\ remaining' = 0
       /\ UNCHANGED down

\* InteractionFromUI::incrementProgress never passes the total.
incrementProgress ==
    /\ currentStep' = IF currentStep < totalSteps THEN currentStep + 1 ELSE currentStep
    /\ UNCHANGED totalSteps

-----------------------------------------------------------------------------
BugTotalAccumulates(n, readable) ==
    /\ n > 0
    /\ totalSteps' = totalSteps + n
    /\ currentStep' = 0
    /\ sendNextModel(n, readable)
    /\ UNCHANGED <<lastModel, pending, history, connected, up>>

BugBarNotReset(n, readable) ==
    /\ n > 0
    /\ totalSteps' = n
    /\ UNCHANGED currentStep
    /\ sendNextModel(n, readable)
    /\ UNCHANGED <<lastModel, pending, history, connected, up>>

BugStartAlsoQueuesSend(n, readable) ==
    /\ n > 0
    /\ totalSteps' = n
    /\ currentStep' = 0
    /\ pending' = pending + 1
    /\ sendNextModel(n, readable)
    /\ UNCHANGED <<lastModel, history, connected, up>>

\* A "T E<n>" command: handleUICommand resets the bar and, through
\* parsedTrainCommandFromUI, handleStartTrain sends the first model.  A count
\* that is not positive is refused.
StartTrain(n, readable) ==
    /\ n > 0
    /\ totalSteps' = n
    /\ currentStep' = 0
    /\ sendNextModel(n, readable)
    /\ UNCHANGED <<lastModel, pending, history, connected, up>>

\* The event loop runs a queued sendNextModel.
SendNextModel(readable) ==
    /\ pending > 0
    /\ pending' = pending - 1
    /\ sendNextModel(remaining, readable)
    /\ UNCHANGED <<lastModel, currentStep, totalSteps, history, connected, up>>

BugNextRoundNotQueued(e) ==
    /\ up[e] # << >>
    /\ remaining > 0
    /\ up' = [up EXCEPT ![e] = Tail(@)]
    /\ lastModel' = Head(up[e])
    /\ incrementProgress
    /\ UNCHANGED <<pending, remaining, history, connected, down>>

BugReceivedModelNotKept(e) ==
    /\ up[e] # << >>
    /\ remaining > 0
    /\ up' = [up EXCEPT ![e] = Tail(@)]
    /\ pending' = pending + 1
    /\ incrementProgress
    /\ UNCHANGED <<lastModel, remaining, history, connected, down>>

\* handleModelReceived while rounds remain: the model becomes the next one to
\* broadcast and a send is queued behind the events already in the loop.
ContinueTraining(e) ==
    /\ up[e] # << >>
    /\ remaining > 0
    /\ up' = [up EXCEPT ![e] = Tail(@)]
    /\ lastModel' = Head(up[e])
    /\ pending' = pending + 1
    /\ incrementProgress
    /\ UNCHANGED <<remaining, history, connected, down>>

BugLastModelNotReset(e) ==
    /\ up[e] # << >>
    /\ remaining = 0
    /\ up' = [up EXCEPT ![e] = Tail(@)]
    /\ history' = Append(history, Head(up[e]))
    /\ incrementProgress
    /\ UNCHANGED <<lastModel, remaining, pending, connected, down>>

\* handleModelReceived when no round remains: the model is announced as the
\* result and the next campaign starts from yolov8n.pt again.
CompleteTraining(e) ==
    /\ up[e] # << >>
    /\ remaining = 0
    /\ up' = [up EXCEPT ![e] = Tail(@)]
    /\ history' = Append(history, Head(up[e]))
    /\ lastModel' = InitialModel
    /\ incrementProgress
    /\ UNCHANGED <<remaining, pending, connected, down>>

ModelReceived(e) == ContinueTraining(e) \/ CompleteTraining(e)

\* MyServer::handleNewConnection.
EdgeConnects(e) ==
    /\ e \notin connected
    /\ connected' = connected \cup {e}
    /\ UNCHANGED <<missionVars, down, up>>

\* The connection of an edge is lost with what was still on its wire
\* (handleClientDisconnected removes the socket and its transfer).
EdgeDisconnects(e) ==
    /\ e \in connected
    /\ connected' = connected \ {e}
    /\ down' = [down EXCEPT ![e] = << >>]
    /\ up' = [up EXCEPT ![e] = << >>]
    /\ UNCHANGED missionVars

=============================================================================
