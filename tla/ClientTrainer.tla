--------------------------- MODULE ClientTrainer ---------------------------
(***************************************************************************)
(* The training clients: StartMission, TrainModel and the whole-model view *)
(* of MyMqttClient.  A client runs at most one training process; a model   *)
(* that arrives meanwhile is remembered, but QProcess::start does nothing  *)
(* while a process runs.                                                   *)
(*                                                                         *)
(* Operators named Bug... are deliberate mistakes in the definition that   *)
(* follows them, as in MissionControl.                                     *)
(***************************************************************************)
EXTENDS Naturals, Sequences

CONSTANTS Clients

VARIABLES
    pub, sub,   \* the broker's queues, as in EdgeRelay
    saved,      \* saved[c]: m_saveFromEdgeModel as a set, {} before any model
    training,   \* training[c]: the base model of the running process, or {}
    retries     \* retries[c]: 5 s singleShot timers that will retry training

clientVars == <<saved, training, retries>>

Init == /\ saved = [c \in Clients |-> {}]
        /\ training = [c \in Clients |-> {}]
        /\ retries = [c \in Clients |-> 0]

\* TrainModel::startTraining: no effect while a process runs; starts is FALSE
\* when the process fails to start, which no handler hears of.
startTraining(c, model, starts) ==
    training' = [training EXCEPT ![c] = IF @ = {} /\ starts THEN model ELSE @]

\* ModelSaved: saveModelPath remembers the model and starts the training cycle.
ModelArrives(c, starts) ==
    /\ pub[c] # << >>
    /\ pub' = [pub EXCEPT ![c] = Tail(@)]
    /\ saved' = [saved EXCEPT ![c] = {Head(pub[c])}]
    /\ startTraining(c, {Head(pub[c])}, starts)
    /\ UNCHANGED <<sub, retries>>

BugPublishesInitialModel(c, sent) ==
    /\ training[c] # {}
    /\ training' = [training EXCEPT ![c] = {}]
    /\ sub' = [sub EXCEPT ![c] = IF sent THEN Append(@, 0) ELSE @]
    /\ UNCHANGED <<pub, saved, retries>>

\* onTrainingFinished(true): the model is published.  sent is FALSE when the
\* publication fails; modelPublished(false) is connected to nothing.
TrainingSucceeds(c, sent) ==
    /\ training[c] # {}
    /\ training' = [training EXCEPT ![c] = {}]
    /\ \E base \in training[c] :
          sub' = [sub EXCEPT ![c] = IF sent THEN Append(@, base) ELSE @]
    /\ UNCHANGED <<pub, saved, retries>>

BugNoRetry(c) ==
    /\ training[c] # {}
    /\ training' = [training EXCEPT ![c] = {}]
    /\ UNCHANGED <<pub, sub, saved, retries>>

\* onTrainingFinished(false): a retry is scheduled.
TrainingFails(c) ==
    /\ training[c] # {}
    /\ training' = [training EXCEPT ![c] = {}]
    /\ retries' = [retries EXCEPT ![c] = @ + 1]
    /\ UNCHANGED <<pub, sub, saved>>

\* The retry trains on the model saved last.
RetryTraining(c, starts) ==
    /\ retries[c] > 0
    /\ retries' = [retries EXCEPT ![c] = @ - 1]
    /\ startTraining(c, saved[c], starts)
    /\ UNCHANGED <<pub, sub, saved>>

=============================================================================
