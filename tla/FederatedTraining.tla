------------------------- MODULE FederatedTraining -------------------------
(***************************************************************************)
(* The whole training loop: the centre (MissionControl), one edge          *)
(* (EdgeRelay) and its clients (ClientTrainer), sharing the wires between  *)
(* centre and edge and the broker's queues between edge and clients.       *)
(***************************************************************************)
EXTENDS Naturals, Sequences, FiniteSets

CONSTANTS
    Me,                \* the edge server
    Clients,           \* the training clients
    MaxRounds,         \* bound on the rounds asked for
    MaxCampaigns,      \* bound on the completions after which the operator stops
    MaxRestarts,       \* bound on commands given before completion
    MaxTrainFailures,  \* bound on training processes that end without a model
    MaxFaults,         \* bound on the faults of the kinds in MayFail
    MayFail            \* the kinds of fault that may happen

Edges == {Me}

FaultKinds ==
    {"aggregation",  \* performAggregation fails
     "archive",      \* an aggregate is empty or cannot be archived
     "round",        \* the round timer expires
     "start",        \* the training process cannot be started
     "upload",       \* a client's publication fails
     "broadcast",    \* a client misses the edge's publication
     "tcp"}          \* the connection between edge and centre is lost

ASSUME BoundsAssumption ==
    {MaxRounds, MaxCampaigns, MaxRestarts, MaxTrainFailures, MaxFaults} \subseteq Nat
ASSUME ClientsAssumption == IsFiniteSet(Clients) /\ Clients # {}
ASSUME FaultAssumption == MayFail \subseteq FaultKinds

VARIABLES
    remaining, lastModel, pending, currentStep, totalSteps, history,
    connected, down, up,
    pub, sub,
    roundOpen, roundModels, aggregated,
    saved, training, retries,
    restarts, trainFailures, faults   \* how much of the bounds is used

missionVars == <<remaining, lastModel, pending, currentStep, totalSteps, history>>
wireVars    == <<connected, down, up>>
mqttVars    == <<pub, sub>>
edgeVars    == <<roundOpen, roundModels, aggregated>>
clientVars  == <<saved, training, retries>>
boundVars   == <<restarts, trainFailures, faults>>

vars == <<missionVars, wireVars, mqttVars, edgeVars, clientVars, boundVars>>

Center == INSTANCE MissionControl
Edge   == INSTANCE EdgeRelay
Client == INSTANCE ClientTrainer

Init == /\ Center!Init
        /\ Edge!Init
        /\ Client!Init
        /\ restarts = 0
        /\ trainFailures = 0
        /\ faults = 0

-----------------------------------------------------------------------------
\* One more fault of a kind that may happen.
Fault(kind) == /\ kind \in MayFail
               /\ faults < MaxFaults
               /\ faults' = faults + 1

\* fine is FALSE when the step goes wrong in the way the fault says.
FineOr(fine, kind) == \/ fine /\ UNCHANGED faults
                      \/ ~fine /\ Fault(kind)

Running == currentStep < totalSteps

\* Nothing moves any more: no event queued, no model under way or in training.
Quiet == /\ pending = 0
         /\ down[Me] = << >> /\ up[Me] = << >>
         /\ \A c \in Clients : /\ pub[c] = << >> /\ sub[c] = << >>
                               /\ training[c] = {} /\ retries[c] = 0

\* The operator starts a campaign with the edge connected; before the last one
\* completed only when nothing moves any more.
OperatorStarts ==
    /\ Len(history) < MaxCampaigns
    /\ connected = Edges
    /\ \/ ~Running /\ UNCHANGED restarts
       \/ /\ Running /\ Quiet
          /\ restarts < MaxRestarts
          /\ restarts' = restarts + 1
    /\ \E n \in 1..MaxRounds : Center!StartTrain(n, TRUE)
    /\ UNCHANGED <<mqttVars, edgeVars, clientVars, trainFailures, faults>>

CenterSends ==
    /\ Center!SendNextModel(TRUE)
    /\ UNCHANGED <<mqttVars, edgeVars, clientVars, boundVars>>

CenterReceives ==
    /\ Center!ModelReceived(Me)
    /\ UNCHANGED <<mqttVars, edgeVars, clientVars, boundVars>>

EdgeConnects ==
    /\ Center!EdgeConnects(Me)
    /\ UNCHANGED <<mqttVars, edgeVars, clientVars, boundVars>>

EdgeDisconnects ==
    /\ Center!EdgeDisconnects(Me)
    /\ Fault("tcp")
    /\ UNCHANGED <<mqttVars, edgeVars, clientVars, restarts, trainFailures>>

EdgeRelays ==
    /\ Edge!ModelFromCenter
    /\ UNCHANGED <<missionVars, clientVars, boundVars>>

EdgeHolds(c) ==
    /\ Edge!HoldModel(c)
    /\ UNCHANGED <<missionVars, clientVars, boundVars>>

EdgeAggregates(c) ==
    /\ Edge!Aggregate(c)
    /\ UNCHANGED <<missionVars, clientVars, boundVars>>

EdgeFailsToAggregate(c) ==
    /\ Edge!AggregationFails(c)
    /\ Fault("aggregation")
    /\ UNCHANGED <<missionVars, clientVars, restarts, trainFailures>>

EdgeFailsToArchive(c) ==
    /\ Edge!ArchivingFails(c)
    /\ Fault("archive")
    /\ UNCHANGED <<missionVars, clientVars, restarts, trainFailures>>

RoundTimerExpires ==
    /\ Edge!RoundTimerExpires
    /\ Fault("round")
    /\ UNCHANGED <<missionVars, clientVars, restarts, trainFailures>>

\* The queue of client c at the broker loses its first model.
BroadcastLost(c) ==
    /\ pub[c] # << >>
    /\ Fault("broadcast")
    /\ pub' = [pub EXCEPT ![c] = Tail(@)]
    /\ UNCHANGED <<missionVars, wireVars, sub, edgeVars, clientVars, restarts, trainFailures>>

ClientReceives(c) ==
    /\ \E starts \in BOOLEAN : Client!ModelArrives(c, starts) /\ FineOr(starts, "start")
    /\ UNCHANGED <<missionVars, wireVars, edgeVars, restarts, trainFailures>>

ClientPublishes(c) ==
    /\ \E sent \in BOOLEAN : Client!TrainingSucceeds(c, sent) /\ FineOr(sent, "upload")
    /\ UNCHANGED <<missionVars, wireVars, edgeVars, restarts, trainFailures>>

ClientFails(c) ==
    /\ Client!TrainingFails(c)
    /\ trainFailures < MaxTrainFailures
    /\ trainFailures' = trainFailures + 1
    /\ UNCHANGED <<missionVars, wireVars, edgeVars, restarts, faults>>

ClientRetries(c) ==
    /\ \E starts \in BOOLEAN : Client!RetryTraining(c, starts) /\ FineOr(starts, "start")
    /\ UNCHANGED <<missionVars, wireVars, edgeVars, restarts, trainFailures>>

EdgeReceives(c) == EdgeHolds(c) \/ EdgeAggregates(c)
ClientFinishes(c) == ClientPublishes(c) \/ ClientFails(c)

Next == \/ OperatorStarts
        \/ CenterSends \/ CenterReceives
        \/ EdgeConnects \/ EdgeDisconnects \/ EdgeRelays \/ RoundTimerExpires
        \/ \E c \in Clients : \/ EdgeHolds(c)
                              \/ EdgeAggregates(c)
                              \/ EdgeFailsToAggregate(c)
                              \/ EdgeFailsToArchive(c)
                              \/ BroadcastLost(c)
                              \/ ClientReceives(c)
                              \/ ClientPublishes(c)
                              \/ ClientFails(c)
                              \/ ClientRetries(c)

Spec == Init /\ [][Next]_vars

\* Event loops run what is queued, TCP and the broker deliver what they hold,
\* timers fire and a training process ends.  Nobody owes a fault, a
\* connection or a command.
Fairness == /\ WF_vars(CenterSends)
            /\ WF_vars(CenterReceives)
            /\ WF_vars(EdgeRelays)
            /\ \A c \in Clients : /\ WF_vars(EdgeReceives(c))
                                  /\ WF_vars(ClientReceives(c))
                                  /\ WF_vars(ClientFinishes(c))
                                  /\ WF_vars(ClientRetries(c))

FairSpec == Spec /\ Fairness

-----------------------------------------------------------------------------
TypeOK == /\ remaining \in 0..MaxRounds
          /\ lastModel \in Nat
          /\ pending \in Nat
          /\ totalSteps \in 0..MaxRounds
          /\ currentStep \in 0..totalSteps
          /\ history \in Seq(Nat)
          /\ connected \subseteq Edges
          /\ down \in [Edges -> Seq(Nat)]
          /\ up \in [Edges -> Seq(Nat)]
          /\ pub \in [Clients -> Seq(Nat)]
          /\ sub \in [Clients -> Seq(Nat)]
          /\ roundOpen \in BOOLEAN
          /\ DOMAIN roundModels \subseteq Clients
          /\ \A c \in DOMAIN roundModels : roundModels[c] \in Nat
          /\ saved \in [Clients -> SUBSET Nat]
          /\ training \in [Clients -> SUBSET Nat]
          /\ retries \in [Clients -> Nat]
          /\ restarts \in 0..MaxRestarts
          /\ trainFailures \in 0..MaxTrainFailures
          /\ faults \in 0..MaxFaults

\* The edge makes an aggregate.
RoundCompletes == \E c \in Clients : EdgeAggregates(c)

\* Until the operator repeats a command, whatever has failed: every part of an
\* aggregate was trained from the model the centre broadcast last.  A round
\* never mixes in what is left of another one.
AggregatesCurrentModel ==
    [][RoundCompletes /\ restarts = 0 =>
          aggregated' = [c \in Clients |-> lastModel]]_vars

\* Until then a model never reaches a client that is still training, or waits
\* to retry, an earlier one: startTraining would silently skip it.
NoModelSkipped ==
    restarts = 0 =>
        \A c \in Clients : pub[c] # << >> => training[c] = {} /\ retries[c] = 0

\* A campaign stands still only after a fault: failed training is retried, so
\* it never stops one.
NoSilentStall == Running /\ Quiet => faults > 0

\* Every campaign is completed.
CampaignCompletes == Running ~> ~Running

\* Whatever fails and however often the command is repeated, the centre never
\* has two models or sends of its own under way: handleModelReceived cannot
\* overtake the send it queued.
OneModelAtCenter == pending + Len(down[Me]) + Len(up[Me]) <= 1

\* After a repeated command a round may complete with a model left over from the
\* round that failed, but never with left-overs alone.
EveryAggregateIsFresh ==
    [][RoundCompletes => \E c \in DOMAIN aggregated' : aggregated'[c] = lastModel]_vars

\* Whatever has failed before, a model that the edge is about to hand out when
\* no fault is left to come carries the campaign through: nothing a failure
\* leaves behind blocks the rounds of a repeated command.
RestartRecovers == (faults = MaxFaults /\ down[Me] # << >>) ~> ~Running

\* The round that the edge and its clients are working on.
EdgeBusy == \/ DOMAIN roundModels # {}
            \/ \E c \in Clients : \/ pub[c] # << >> \/ sub[c] # << >>
                                  \/ training[c] # {} \/ retries[c] > 0

\* Without faults edge and clients do together what TrainingLoop expects of an
\* edge: take a model, send one back.
Loop == INSTANCE TrainingLoop
            WITH work <- [e \in Edges |-> IF EdgeBusy THEN <<lastModel>> ELSE << >>],
                 faults <- 0, MaxFaults <- 0, Impatient <- FALSE, EdgesFirst <- TRUE

ImplementsLoop == Loop!FairSpec

\* The three programs together do what the operator at the console is promised:
\* progress is finished rounds, the history is the models released.
Campaign == INSTANCE TrainingCampaign
                WITH asked <- totalSteps, finished <- currentStep, released <- history

ImplementsCampaign == Campaign!FairSpec

=============================================================================
