---------------------------- MODULE TrainingLoop ----------------------------
(***************************************************************************)
(* The centre of MissionControl closed with an abstract environment: the   *)
(* operator at the console and edges that take a model off the wire, have  *)
(* it trained and aggregated, and send one model back.  FederatedTraining  *)
(* replaces these edges by the real edge and clients.                      *)
(***************************************************************************)
EXTENDS MissionControl

CONSTANTS
    MaxCampaigns,  \* bound on the completions after which the operator stops
    MaxRestarts,   \* bound on training commands given before the last one completed
    MaxFaults,     \* bound on lost connections, lost rounds and unreadable files
    Impatient,     \* TRUE: the operator restarts while models are still moving
    EdgesFirst     \* TRUE: the operator starts only when every edge is connected

ASSUME BoundsAssumption == /\ MaxCampaigns \in Nat
                           /\ MaxRestarts \in Nat
                           /\ MaxFaults \in Nat
ASSUME OperatorAssumption == /\ Impatient \in BOOLEAN
                             /\ EdgesFirst \in BOOLEAN

VARIABLES
    work,      \* work[e]: models edge e has taken and not sent back yet
    restarts,  \* commands given before completion, at most MaxRestarts
    faults     \* faults so far, at most MaxFaults

vars == <<centerVars, work, restarts, faults>>

LoopInit == /\ Init
            /\ work = [e \in Edges |-> << >>]
            /\ restarts = 0
            /\ faults = 0

-----------------------------------------------------------------------------
\* The progress bar the operator watches is not full.
Running == currentStep < totalSteps

\* Models and sends the training of edge e still has to get through.
InFlight(e) == pending + Len(down[e]) + Len(work[e]) + Len(up[e])

\* Nothing will happen any more unless the operator acts.
Quiet == \A e \in Edges : InFlight(e) = 0

CountFault == /\ faults < MaxFaults
              /\ faults' = faults + 1

\* readable is FALSE when m_LastbroadcastModelPath cannot be opened.
MaybeUnreadable(readable) == \/ readable /\ UNCHANGED faults
                             \/ ~readable /\ CountFault

OperatorStarts ==
    /\ Len(history) < MaxCampaigns
    /\ EdgesFirst => connected = Edges
    /\ \/ ~Running /\ UNCHANGED restarts
       \/ /\ Running
          /\ Impatient \/ Quiet
          /\ restarts < MaxRestarts
          /\ restarts' = restarts + 1
    /\ \E n \in 1..MaxRounds, readable \in BOOLEAN :
          StartTrain(n, readable) /\ MaybeUnreadable(readable)
    /\ UNCHANGED work

CenterSends ==
    /\ \E readable \in BOOLEAN : SendNextModel(readable) /\ MaybeUnreadable(readable)
    /\ UNCHANGED <<work, restarts>>

CenterReceives(e) == ModelReceived(e) /\ UNCHANGED <<work, restarts, faults>>

\* Connections and disconnections leave what the edge is training alone.
EdgeArrives(e) == EdgeConnects(e) /\ UNCHANGED <<work, restarts, faults>>

EdgeDrops(e) == EdgeDisconnects(e) /\ CountFault /\ UNCHANGED <<work, restarts>>

\* The edge has read a whole model and publishes it to its clients.
EdgeTakes(e) ==
    /\ down[e] # << >>
    /\ down' = [down EXCEPT ![e] = Tail(@)]
    /\ work' = [work EXCEPT ![e] = Append(@, Head(down[e]))]
    /\ UNCHANGED <<missionVars, connected, up, restarts, faults>>

\* The aggregate of the clients' models is sent back, or dropped by the
\* edge's isConnected() check.
EdgeReturns(e) ==
    /\ work[e] # << >>
    /\ work' = [work EXCEPT ![e] = Tail(@)]
    /\ up' = [up EXCEPT ![e] = IF e \in connected THEN Append(@, Head(work[e]) + 1) ELSE @]
    /\ UNCHANGED <<missionVars, connected, down, restarts, faults>>

\* The round gets lost on the edge's side.
EdgeLoses(e) ==
    /\ work[e] # << >>
    /\ CountFault
    /\ work' = [work EXCEPT ![e] = Tail(@)]
    /\ UNCHANGED <<centerVars, restarts>>

Next == \/ OperatorStarts
        \/ CenterSends
        \/ \E e \in Edges : \/ CenterReceives(e)
                            \/ EdgeArrives(e)
                            \/ EdgeDrops(e)
                            \/ EdgeTakes(e)
                            \/ EdgeReturns(e)
                            \/ EdgeLoses(e)

Spec == LoopInit /\ [][Next]_vars

\* A Qt event loop runs every queued event; TCP delivers what it holds; the
\* edge's clients answer (FederatedTraining says when).  The operator, the
\* connection attempts and the faults are not fair.
Fairness == /\ WF_vars(CenterSends)
            /\ \A e \in Edges : /\ WF_vars(CenterReceives(e))
                                /\ WF_vars(EdgeTakes(e))
                                /\ WF_vars(EdgeReturns(e))

FairSpec == Spec /\ Fairness

-----------------------------------------------------------------------------
TypeOK == /\ remaining \in 0..MaxRounds
          /\ lastModel \in Nat
          /\ pending \in Nat
          /\ totalSteps \in 0..MaxRounds
          /\ currentStep \in 0..totalSteps
          /\ history \in Seq(Nat)
          /\ connected \subseteq Edges
          /\ down \in [Edges -> Seq(Nat)]
          /\ work \in [Edges -> Seq(Nat)]
          /\ up \in [Edges -> Seq(Nat)]
          /\ restarts \in 0..MaxRestarts
          /\ faults \in 0..MaxFaults

\* With one edge and an operator who does not restart moving rounds, the
\* training is one token that alternates between a queued sendNextModel, the
\* wires and the edge: handleModelReceived never finds a second model behind
\* the one it handles.
OneModelInFlight == \A e \in Edges : InFlight(e) <= 1

\* While the token exists, m_remainingTrainTimes, the progress bar and the
\* model under way add up to the rounds asked for: no round was sent without
\* being counted, counted twice or left uncounted.
RoundsAccountedFor ==
    \A e \in Edges : InFlight(e) = 1 =>
        currentStep + remaining + (1 - pending) = totalSteps

\* The model an edge trains is the last one the centre received, so no round
\* is trained on an outdated model.
TrainsLatestModel ==
    \A e \in Edges : /\ \A i \in DOMAIN down[e] : down[e][i] = lastModel
                     /\ \A i \in DOMAIN work[e] : work[e][i] = lastModel
                     /\ \A i \in DOMAIN up[e] : up[e][i] = lastModel + 1

\* The console shows the bar full ("training finished") only when no round
\* remains and no model is under way.
FullBarMeansDone == ~Running => remaining = 0 /\ Quiet

\* The inductive invariant behind these four: a queued send has a round to
\* send, and the model has kept up with the progress bar.
Lockstep == /\ OneModelInFlight
            /\ RoundsAccountedFor
            /\ TrainsLatestModel
            /\ FullBarMeansDone
            /\ pending > 0 => remaining > 0
            /\ Running => lastModel >= currentStep

\* A model is announced in the history only as the last of the rounds asked
\* for, and it has been through at least as many rounds.
ReleasedFullyTrained ==
    [][history' # history =>
          /\ currentStep' = totalSteps'
          /\ history'[Len(history')] >= totalSteps']_vars

\* The centre implements TrainingCampaign: progress is finished rounds, the
\* history is the models released.
Campaign == INSTANCE TrainingCampaign
                WITH asked <- totalSteps, finished <- currentStep, released <- history

ImplementsCampaign == Campaign!FairSpec

=============================================================================
