------------------------- MODULE TrainingLoop_proofs -------------------------
(***************************************************************************)
(* What holds of TrainingLoop for every number of rounds, campaigns,       *)
(* restarts and faults.  Type correctness needs no assumption; the         *)
(* lockstep of the rounds needs one edge and an operator who restarts only *)
(* when nothing is moving.                                                 *)
(***************************************************************************)
EXTENDS TrainingLoop, TLAPS

-----------------------------------------------------------------------------
(* What the helpers of MissionControl do to the types. *)

\* sendModel writes the last model received to every connected edge.
LEMMA SendModelType ==
    ASSUME down \in [Edges -> Seq(Nat)], NEW model \in Nat, NEW readable,
           sendModel(model, readable)
    PROVE  down' \in [Edges -> Seq(Nat)]
  BY DEF sendModel

\* sendNextModel keeps the types of what it sends and counts.
LEMMA SendNextModelType ==
    ASSUME down \in [Edges -> Seq(Nat)], lastModel \in Nat,
           NEW left \in 0..MaxRounds, NEW readable,
           sendNextModel(left, readable)
    PROVE  /\ down' \in [Edges -> Seq(Nat)]
           /\ remaining' \in 0..MaxRounds
  BY MaxRoundsAssumption, SendModelType DEF sendNextModel

\* incrementProgress never counts beyond what was asked for.
LEMMA IncrementProgressType ==
    ASSUME totalSteps \in 0..MaxRounds, currentStep \in 0..totalSteps,
           incrementProgress
    PROVE  /\ totalSteps' \in 0..MaxRounds
           /\ currentStep' \in 0..totalSteps'
  BY MaxRoundsAssumption DEF incrementProgress

\* The counters, the wires and the bounded budgets keep their types: no
\* handler of the centre makes m_remainingTrainTimes negative or moves the
\* progress bar past its end, with any number of edges and any operator.
THEOREM TypeCorrect == Spec => []TypeOK
<1>1. LoopInit => TypeOK
  BY MaxRoundsAssumption, BoundsAssumption DEF LoopInit, Init, InitialModel, TypeOK
<1>2. TypeOK /\ [Next]_vars => TypeOK'
  <2> SUFFICES ASSUME TypeOK, [Next]_vars
               PROVE  TypeOK'
    OBVIOUS
  <2> USE MaxRoundsAssumption, BoundsAssumption DEF TypeOK
  <2>1. CASE OperatorStarts
    <3>1. PICK n \in 1..MaxRounds, readable \in BOOLEAN :
              StartTrain(n, readable) /\ MaybeUnreadable(readable)
      BY <2>1 DEF OperatorStarts
    <3>2. down' \in [Edges -> Seq(Nat)] /\ remaining' \in 0..MaxRounds
      BY <3>1, SendNextModelType DEF StartTrain
    <3>3. restarts' \in 0..MaxRestarts
      BY <2>1 DEF OperatorStarts
    <3>4. faults' \in 0..MaxFaults
      BY <3>1 DEF MaybeUnreadable, CountFault
    <3> QED
      BY <2>1, <3>1, <3>2, <3>3, <3>4 DEF OperatorStarts, StartTrain
  <2>2. CASE CenterSends
    <3>1. PICK readable \in BOOLEAN : SendNextModel(readable) /\ MaybeUnreadable(readable)
      BY <2>2 DEF CenterSends
    <3>2. down' \in [Edges -> Seq(Nat)] /\ remaining' \in 0..MaxRounds
      BY <3>1, SendNextModelType DEF SendNextModel
    <3>3. faults' \in 0..MaxFaults
      BY <3>1 DEF MaybeUnreadable, CountFault
    <3> QED
      BY <2>2, <3>1, <3>2, <3>3 DEF CenterSends, SendNextModel
  <2>3. ASSUME NEW e \in Edges, CenterReceives(e)
        PROVE  TypeOK'
    <3>1. Head(up[e]) \in Nat /\ Tail(up[e]) \in Seq(Nat)
      BY <2>3 DEF CenterReceives, ModelReceived, ContinueTraining, CompleteTraining
    <3>2. totalSteps' \in 0..MaxRounds /\ currentStep' \in 0..totalSteps'
      BY <2>3, IncrementProgressType
      DEF CenterReceives, ModelReceived, ContinueTraining, CompleteTraining
    <3>3. UNCHANGED <<connected, down, work, restarts, faults, remaining>>
      BY <2>3 DEF CenterReceives, ModelReceived, ContinueTraining, CompleteTraining
    <3>4. /\ lastModel' \in Nat
          /\ pending' \in Nat
          /\ history' \in Seq(Nat)
      <4>1. CASE ContinueTraining(e)
        BY <4>1, <3>1 DEF ContinueTraining
      <4>2. CASE CompleteTraining(e)
        <5>1. history' \in Seq(Nat)
          BY <4>2, <3>1 DEF CompleteTraining
        <5> QED
          BY <4>2, <5>1 DEF CompleteTraining, InitialModel
      <4> QED
        BY <2>3, <4>1, <4>2 DEF CenterReceives, ModelReceived
    <3>5. up' \in [Edges -> Seq(Nat)]
      BY <2>3, <3>1 DEF CenterReceives, ModelReceived, ContinueTraining, CompleteTraining
    <3> QED
      BY <3>2, <3>3, <3>4, <3>5
  <2>4. ASSUME NEW e \in Edges, EdgeArrives(e)
        PROVE  TypeOK'
    BY <2>4 DEF EdgeArrives, EdgeConnects, missionVars
  <2>5. ASSUME NEW e \in Edges, EdgeDrops(e)
        PROVE  TypeOK'
    BY <2>5 DEF EdgeDrops, EdgeDisconnects, CountFault, missionVars
  <2>6. ASSUME NEW e \in Edges, EdgeTakes(e)
        PROVE  TypeOK'
    BY <2>6 DEF EdgeTakes, missionVars
  <2>7. ASSUME NEW e \in Edges, EdgeReturns(e)
        PROVE  TypeOK'
    BY <2>7 DEF EdgeReturns, missionVars
  <2>8. ASSUME NEW e \in Edges, EdgeLoses(e)
        PROVE  TypeOK'
    BY <2>8 DEF EdgeLoses, CountFault, centerVars, missionVars, wireVars
  <2>9. CASE UNCHANGED vars
    BY <2>9 DEF vars, centerVars, missionVars, wireVars
  <2> QED
    BY <2>1, <2>2, <2>3, <2>4, <2>5, <2>6, <2>7, <2>8, <2>9 DEF Next
<1> QED
  BY <1>1, <1>2, PTL DEF Spec


-----------------------------------------------------------------------------
(* One edge and a patient operator. *)

\* Lengths and ends of a wire when a model is added or taken.
LEMMA WireFacts ==
    ASSUME NEW s \in Seq(Nat), NEW w \in Nat
    PROVE  /\ Len(s) \in Nat /\ DOMAIN s = 1..Len(s)
           /\ s # << >> <=> Len(s) > 0
           /\ Append(s, w) \in Seq(Nat)
           /\ Len(Append(s, w)) = Len(s) + 1
           /\ Append(s, w)[Len(s) + 1] = w
           /\ s # << >> => /\ Tail(s) \in Seq(Nat)
                          /\ Len(Tail(s)) = Len(s) - 1
                          /\ Head(s) = s[1]
  OBVIOUS

\* Lockstep with the sequences of the one edge e reduced to their lengths and
\* first elements.
TokenAt(e) ==
    /\ InFlight(e) \in {0, 1}
    /\ InFlight(e) = 1 => currentStep + remaining + (1 - pending) = totalSteps
    /\ Len(down[e]) = 1 => down[e][1] = lastModel
    /\ Len(work[e]) = 1 => work[e][1] = lastModel
    /\ Len(up[e]) = 1 => up[e][1] = lastModel + 1
    /\ ~Running => remaining = 0 /\ InFlight(e) = 0
    /\ pending > 0 => remaining > 0
    /\ Running => lastModel >= currentStep

\* For one edge Lockstep says where the one token is.
LEMMA TokenIsLockstep ==
    ASSUME NEW e, Edges = {e}, TypeOK
    PROVE  Lockstep <=> TokenAt(e)
<1>1. /\ e \in Edges
      /\ down \in [Edges -> Seq(Nat)]
      /\ work \in [Edges -> Seq(Nat)]
      /\ up \in [Edges -> Seq(Nat)]
      /\ pending \in Nat
      /\ lastModel \in Nat
  BY DEF TypeOK
<1>2. /\ DOMAIN down[e] = 1..Len(down[e])
      /\ DOMAIN work[e] = 1..Len(work[e])
      /\ DOMAIN up[e] = 1..Len(up[e])
  BY <1>1
<1>3. OneModelInFlight <=> InFlight(e) \in {0, 1}
  <2>1. InFlight(e) \in Nat
    BY <1>1 DEF InFlight
  <2> QED
    BY <1>1, <2>1 DEF OneModelInFlight
<1>4. RoundsAccountedFor <=>
        (InFlight(e) = 1 => currentStep + remaining + (1 - pending) = totalSteps)
  BY DEF RoundsAccountedFor
<1>5. FullBarMeansDone <=> (~Running => remaining = 0 /\ InFlight(e) = 0)
  BY DEF FullBarMeansDone, Quiet
<1>6. ASSUME InFlight(e) \in {0, 1}
      PROVE  TrainsLatestModel <=> /\ Len(down[e]) = 1 => down[e][1] = lastModel
                                   /\ Len(work[e]) = 1 => work[e][1] = lastModel
                                   /\ Len(up[e]) = 1 => up[e][1] = lastModel + 1
  <2>1. Len(down[e]) <= 1 /\ Len(work[e]) <= 1 /\ Len(up[e]) <= 1
    BY <1>1, <1>6 DEF InFlight
  <2>2. (\A i \in DOMAIN down[e] : down[e][i] = lastModel)
          <=> (Len(down[e]) = 1 => down[e][1] = lastModel)
    BY <1>1, <1>2, <2>1
  <2>3. (\A i \in DOMAIN work[e] : work[e][i] = lastModel)
          <=> (Len(work[e]) = 1 => work[e][1] = lastModel)
    BY <1>1, <1>2, <2>1
  <2>4. (\A i \in DOMAIN up[e] : up[e][i] = lastModel + 1)
          <=> (Len(up[e]) = 1 => up[e][1] = lastModel + 1)
    BY <1>1, <1>2, <2>1
  <2> QED
    BY <2>2, <2>3, <2>4 DEF TrainsLatestModel
<1> QED
  BY <1>3, <1>4, <1>5, <1>6 DEF Lockstep, TokenAt

\* A send keeps the token or, with no edge to write to or no file to read,
\* loses it.
LEMMA SendNextModelToken ==
    ASSUME NEW e \in Edges, down \in [Edges -> Seq(Nat)], lastModel \in Nat,
           NEW left \in Nat, NEW readable, left > 0, Len(down[e]) = 0,
           sendNextModel(left, readable)
    PROVE  /\ remaining' = left - 1
           /\ \/ Len(down'[e]) = 0
              \/ Len(down'[e]) = 1 /\ down'[e][1] = lastModel
<1>1. remaining' = left - 1 /\ sendModel(lastModel, readable)
  BY DEF sendNextModel
<1>2. \/ down'[e] = down[e]
      \/ down'[e] = Append(down[e], lastModel)
  BY <1>1 DEF sendModel
<1>3. /\ Len(Append(down[e], lastModel)) = 1
      /\ Append(down[e], lastModel)[1] = lastModel
  <2>1. down[e] \in Seq(Nat)
    OBVIOUS
  <2> QED
    BY <2>1, WireFacts
<1> QED
  BY <1>1, <1>2, <1>3

\* Where the token is: at most one of the four places is occupied.
LEMMA TokenPlace ==
    ASSUME NEW e \in Edges, TypeOK, InFlight(e) \in {0, 1}
    PROVE  /\ pending \in {0, 1}
           /\ Len(down[e]) \in {0, 1}
           /\ Len(work[e]) \in {0, 1}
           /\ Len(up[e]) \in {0, 1}
           /\ pending = 1 => Len(down[e]) = 0 /\ Len(work[e]) = 0 /\ Len(up[e]) = 0
           /\ Len(down[e]) = 1 => pending = 0 /\ Len(work[e]) = 0 /\ Len(up[e]) = 0
           /\ Len(work[e]) = 1 => pending = 0 /\ Len(down[e]) = 0 /\ Len(up[e]) = 0
           /\ Len(up[e]) = 1 => pending = 0 /\ Len(down[e]) = 0 /\ Len(work[e]) = 0
<1> DEFINE d == Len(down[e])
           w == Len(work[e])
           u == Len(up[e])
<1>1. d \in Nat /\ w \in Nat /\ u \in Nat /\ pending \in Nat
  BY DEF TypeOK
<1>2. pending + d + w + u <= 1
  BY DEF InFlight
<1> HIDE DEF d, w, u
<1>3. pending <= 1 /\ d <= 1 /\ w <= 1 /\ u <= 1
  BY <1>1, <1>2
<1>4. /\ pending = 1 => d = 0 /\ w = 0 /\ u = 0
      /\ d = 1 => pending = 0 /\ w = 0 /\ u = 0
      /\ w = 1 => pending = 0 /\ d = 0 /\ u = 0
      /\ u = 1 => pending = 0 /\ d = 0 /\ w = 0
  BY <1>1, <1>2
<1>5. pending \in {0, 1} /\ d \in {0, 1} /\ w \in {0, 1} /\ u \in {0, 1}
  BY <1>1, <1>3
<1> QED
  BY <1>4, <1>5 DEF d, w, u

\* A command puts the token on the wire, if an edge is connected.
LEMMA TokenOperatorStarts ==
    ASSUME NEW e \in Edges, Edges = {e}, ~Impatient, TypeOK, TokenAt(e), OperatorStarts
    PROVE  TokenAt(e)'
<1>1. PICK n \in 1..MaxRounds, readable \in BOOLEAN : StartTrain(n, readable)
  BY DEF OperatorStarts
<1>2. InFlight(e) = 0
  BY DEF OperatorStarts, Quiet, TokenAt
<1>3. pending = 0 /\ Len(down[e]) = 0 /\ Len(work[e]) = 0 /\ Len(up[e]) = 0
  BY <1>2 DEF TypeOK, InFlight
<1>4. n \in Nat /\ n > 0
  BY MaxRoundsAssumption
<1>5. /\ remaining' = n - 1
      /\ \/ Len(down'[e]) = 0
         \/ Len(down'[e]) = 1 /\ down'[e][1] = lastModel
  BY <1>1, <1>3, <1>4, SendNextModelToken DEF StartTrain, TypeOK
<1>6. /\ totalSteps' = n /\ currentStep' = 0
      /\ UNCHANGED <<lastModel, pending, up, work>>
  BY <1>1 DEF OperatorStarts, StartTrain
<1>7. lastModel \in Nat
  BY DEF TypeOK
<1>8. pending' = 0 /\ Len(work'[e]) = 0 /\ Len(up'[e]) = 0
  BY <1>3, <1>6
<1>9. InFlight(e)' \in {0, 1}
  BY <1>5, <1>8 DEF InFlight
<1>10. currentStep' + remaining' + (1 - pending') = totalSteps'
  BY <1>4, <1>5, <1>6, <1>8
<1>11. Running' /\ lastModel' >= currentStep'
  BY <1>4, <1>6, <1>7 DEF Running
<1> QED
  BY <1>5, <1>6, <1>8, <1>9, <1>10, <1>11 DEF TokenAt

\* The queued send moves the token to the wire, or loses it.
LEMMA TokenCenterSends ==
    ASSUME NEW e \in Edges, TypeOK, TokenAt(e), CenterSends
    PROVE  TokenAt(e)'
<1>1. PICK readable \in BOOLEAN : SendNextModel(readable)
  BY DEF CenterSends
<1>2. pending = 1 /\ Len(down[e]) = 0 /\ Len(work[e]) = 0 /\ Len(up[e]) = 0
  BY <1>1, TokenPlace DEF SendNextModel, TokenAt
<1>3. /\ remaining \in Nat /\ remaining > 0
      /\ currentStep \in Nat /\ totalSteps \in Nat /\ lastModel \in Nat
      /\ currentStep + remaining = totalSteps
      /\ Running /\ lastModel >= currentStep
  BY <1>2, MaxRoundsAssumption DEF TypeOK, TokenAt, InFlight, Running
<1>4. /\ remaining' = remaining - 1
      /\ \/ Len(down'[e]) = 0
         \/ Len(down'[e]) = 1 /\ down'[e][1] = lastModel
  BY <1>1, <1>2, <1>3, SendNextModelToken DEF SendNextModel, TypeOK
<1>5. pending' = 0 /\ UNCHANGED <<lastModel, currentStep, totalSteps, up, work>>
  BY <1>1, <1>2 DEF CenterSends, SendNextModel
<1>6. pending' = 0 /\ Len(work'[e]) = 0 /\ Len(up'[e]) = 0
  BY <1>2, <1>5
<1>7. InFlight(e)' \in {0, 1}
  BY <1>4, <1>6 DEF InFlight
<1>8. currentStep' + remaining' + (1 - pending') = totalSteps'
  BY <1>3, <1>4, <1>5
<1>9. Running' /\ lastModel' >= currentStep'
  BY <1>3, <1>5 DEF Running
<1> QED
  BY <1>4, <1>5, <1>6, <1>7, <1>8, <1>9 DEF TokenAt

\* A model received queues the next round or ends the training.
LEMMA TokenCenterReceives ==
    ASSUME NEW e \in Edges, TypeOK, TokenAt(e), CenterReceives(e)
    PROVE  TokenAt(e)'
<1>1. up[e] # << >> /\ up'[e] = Tail(up[e]) /\ UNCHANGED <<down, work, remaining>>
  BY DEF CenterReceives, ModelReceived, ContinueTraining, CompleteTraining, TypeOK
<1>2. up[e] \in Seq(Nat)
  BY DEF TypeOK
<1>3. /\ Len(up[e]) = 1
      /\ pending = 0 /\ Len(down[e]) = 0 /\ Len(work[e]) = 0
  BY <1>1, <1>2, WireFacts, TokenPlace DEF TokenAt
<1>4. Len(up'[e]) = 0 /\ Head(up[e]) = lastModel + 1
  BY <1>1, <1>2, <1>3, WireFacts DEF TokenAt
<1>5. /\ remaining \in Nat /\ currentStep \in Nat /\ totalSteps \in Nat /\ lastModel \in Nat
      /\ currentStep + remaining + 1 = totalSteps
      /\ lastModel >= currentStep
  BY <1>3, MaxRoundsAssumption DEF TypeOK, TokenAt, InFlight, Running
<1>6. currentStep' = currentStep + 1 /\ UNCHANGED totalSteps
  BY <1>5
  DEF CenterReceives, ModelReceived, ContinueTraining, CompleteTraining, incrementProgress
<1>7. \/ remaining > 0 /\ lastModel' = lastModel + 1 /\ pending' = 1
      \/ remaining = 0 /\ lastModel' = 0 /\ pending' = 0
  BY <1>3, <1>4
  DEF CenterReceives, ModelReceived, ContinueTraining, CompleteTraining, InitialModel
<1>8. Len(down'[e]) = 0 /\ Len(work'[e]) = 0 /\ Len(up'[e]) = 0
  BY <1>1, <1>3, <1>4
<1>9. InFlight(e)' = pending'
  BY <1>7, <1>8 DEF InFlight
<1>10. CASE remaining > 0
  <2>1. pending' = 1 /\ lastModel' = lastModel + 1 /\ remaining' = remaining
    BY <1>1, <1>7, <1>10
  <2>2. Running' /\ lastModel' >= currentStep'
    BY <1>5, <1>6, <1>10, <2>1 DEF Running
  <2>3. currentStep' + remaining' + (1 - pending') = totalSteps'
    BY <1>5, <1>6, <2>1
  <2> QED
    BY <1>8, <1>9, <1>10, <2>1, <2>2, <2>3 DEF TokenAt
<1>11. CASE remaining = 0
  <2>1. pending' = 0 /\ remaining' = 0
    BY <1>1, <1>7, <1>11
  <2>2. ~Running'
    BY <1>5, <1>6, <1>11 DEF Running
  <2> QED
    BY <1>8, <1>9, <2>1, <2>2 DEF TokenAt
<1> QED
  BY <1>5, <1>10, <1>11

\* Faults and the edge move the token or lose it.
LEMMA TokenEdgeMoves ==
    ASSUME NEW e \in Edges, TypeOK, TokenAt(e),
           EdgeArrives(e) \/ EdgeDrops(e) \/ EdgeTakes(e) \/ EdgeReturns(e) \/ EdgeLoses(e)
    PROVE  TokenAt(e)'
<1>1. UNCHANGED missionVars
  BY DEF EdgeArrives, EdgeConnects, EdgeDrops, EdgeDisconnects, EdgeTakes, EdgeReturns,
         EdgeLoses, centerVars
<1>2. /\ remaining' = remaining /\ lastModel' = lastModel /\ pending' = pending
      /\ currentStep' = currentStep /\ totalSteps' = totalSteps
  BY <1>1 DEF missionVars
<1>3. Running' <=> Running
  BY <1>2 DEF Running
<1>4. /\ down[e] \in Seq(Nat) /\ work[e] \in Seq(Nat) /\ up[e] \in Seq(Nat)
      /\ lastModel \in Nat
  BY DEF TypeOK
<1>5. CASE EdgeArrives(e)
  <2>1. UNCHANGED <<down, work, up>>
    BY <1>5 DEF EdgeArrives, EdgeConnects
  <2> QED
    BY <1>2, <1>3, <2>1 DEF TokenAt, InFlight
<1>6. CASE EdgeDrops(e)
  <2>1. Len(down'[e]) = 0 /\ Len(up'[e]) = 0 /\ work' = work
    BY <1>6 DEF EdgeDrops, EdgeDisconnects, TypeOK
  <2>2. InFlight(e)' \in {0, 1} /\ (InFlight(e)' = 1 => InFlight(e) = 1)
    <3>1. pending \in {0, 1} /\ Len(work[e]) \in {0, 1}
          /\ (pending = 1 => Len(down[e]) = 0 /\ Len(work[e]) = 0 /\ Len(up[e]) = 0)
          /\ (Len(work[e]) = 1 => pending = 0 /\ Len(down[e]) = 0 /\ Len(up[e]) = 0)
      BY TokenPlace DEF TokenAt
    <3>2. InFlight(e)' = pending + Len(work[e])
      BY <1>2, <2>1, <3>1 DEF InFlight
    <3>3. CASE pending = 1
      <4>1. Len(down[e]) = 0 /\ Len(work[e]) = 0 /\ Len(up[e]) = 0
        BY <3>1, <3>3
      <4>2. InFlight(e) = 1
        BY <3>3, <4>1 DEF InFlight
      <4>3. InFlight(e)' = 1
        BY <3>2, <3>3, <4>1
      <4> QED
        BY <4>2, <4>3
    <3>4. CASE Len(work[e]) = 1
      <4>1. pending = 0 /\ Len(down[e]) = 0 /\ Len(up[e]) = 0
        BY <3>1, <3>4
      <4>2. InFlight(e) = 1
        BY <3>4, <4>1 DEF InFlight
      <4>3. InFlight(e)' = 1
        BY <3>2, <3>4, <4>1
      <4> QED
        BY <4>2, <4>3
    <3>5. CASE pending = 0 /\ Len(work[e]) = 0
      BY <3>2, <3>5
    <3> QED
      BY <3>1, <3>3, <3>4, <3>5
  <2>3. ~Running => InFlight(e)' = 0
    <3>1. ASSUME ~Running PROVE pending = 0 /\ Len(work[e]) = 0
      BY <3>1 DEF TokenAt, InFlight, TypeOK
    <3> QED
      BY <1>2, <2>1, <3>1 DEF InFlight
  <2> QED
    BY <1>2, <1>3, <2>1, <2>2, <2>3 DEF TokenAt
<1>7. CASE EdgeTakes(e)
  <2>1. /\ down[e] # << >> /\ down'[e] = Tail(down[e])
        /\ work'[e] = Append(work[e], Head(down[e])) /\ up' = up
    BY <1>7 DEF EdgeTakes, TypeOK
  <2>2. /\ Len(down[e]) = 1
        /\ pending = 0 /\ Len(work[e]) = 0 /\ Len(up[e]) = 0
    BY <1>4, <2>1, WireFacts, TokenPlace DEF TokenAt
  <2>3. Head(down[e]) = lastModel
    BY <1>4, <2>1, <2>2, WireFacts DEF TokenAt
  <2>4. /\ Len(down'[e]) = 0 /\ Len(up'[e]) = 0
        /\ Len(work'[e]) = 1 /\ work'[e][1] = lastModel
    BY <1>4, <2>1, <2>2, <2>3, WireFacts
  <2>5. InFlight(e) = 1 /\ InFlight(e)' = 1
    BY <1>2, <2>2, <2>4 DEF InFlight
  <2> QED
    BY <1>2, <1>3, <2>4, <2>5 DEF TokenAt
<1>8. CASE EdgeReturns(e)
  <2>1. /\ work[e] # << >> /\ work'[e] = Tail(work[e]) /\ down' = down
        /\ \/ up'[e] = Append(up[e], Head(work[e]) + 1)
           \/ up'[e] = up[e]
    BY <1>8 DEF EdgeReturns, TypeOK
  <2>2. /\ Len(work[e]) = 1
        /\ pending = 0 /\ Len(down[e]) = 0 /\ Len(up[e]) = 0
    BY <1>4, <2>1, WireFacts, TokenPlace DEF TokenAt
  <2>3. Head(work[e]) = lastModel
    BY <1>4, <2>1, <2>2, WireFacts DEF TokenAt
  <2>4. /\ Len(down'[e]) = 0 /\ Len(work'[e]) = 0
        /\ \/ Len(up'[e]) = 1 /\ up'[e][1] = lastModel + 1
           \/ Len(up'[e]) = 0
    BY <1>4, <2>1, <2>2, <2>3, WireFacts
  <2>5. InFlight(e) = 1 /\ InFlight(e)' \in {0, 1}
    BY <1>2, <2>2, <2>4 DEF InFlight
  <2> QED
    BY <1>2, <1>3, <2>4, <2>5 DEF TokenAt
<1>9. CASE EdgeLoses(e)
  <2>1. work[e] # << >> /\ work'[e] = Tail(work[e]) /\ down' = down /\ up' = up
    BY <1>9 DEF EdgeLoses, TypeOK, centerVars, wireVars
  <2>2. /\ Len(work[e]) = 1
        /\ pending = 0 /\ Len(down[e]) = 0 /\ Len(up[e]) = 0
    BY <1>4, <2>1, WireFacts, TokenPlace DEF TokenAt
  <2>3. Len(down'[e]) = 0 /\ Len(work'[e]) = 0 /\ Len(up'[e]) = 0
    BY <1>4, <2>1, <2>2, WireFacts
  <2>4. InFlight(e)' = 0
    BY <1>2, <2>2, <2>3 DEF InFlight
  <2> QED
    BY <1>2, <1>3, <2>3, <2>4 DEF TokenAt
<1> QED
  BY <1>5, <1>6, <1>7, <1>8, <1>9

\* One edge, a patient operator: the rounds stay in lockstep whatever number of
\* connections, rounds and files are lost.
THEOREM LockstepHolds ==
    ASSUME NEW e, Edges = {e}, ~Impatient
    PROVE  Spec => []Lockstep
<1>1. LoopInit => TokenAt(e)
  BY DEF LoopInit, Init, InitialModel, TokenAt, InFlight, Running
<1>2. TypeOK /\ TokenAt(e) /\ [Next]_vars => TokenAt(e)'
  <2> SUFFICES ASSUME TypeOK, TokenAt(e), [Next]_vars
               PROVE  TokenAt(e)'
    OBVIOUS
  <2>1. e \in Edges
    OBVIOUS
  <2>2. CASE OperatorStarts
    BY <2>1, <2>2, TokenOperatorStarts
  <2>3. CASE CenterSends
    BY <2>1, <2>3, TokenCenterSends
  <2>4. CASE CenterReceives(e)
    BY <2>1, <2>4, TokenCenterReceives
  <2>5. CASE EdgeArrives(e) \/ EdgeDrops(e) \/ EdgeTakes(e) \/ EdgeReturns(e) \/ EdgeLoses(e)
    BY <2>1, <2>5, TokenEdgeMoves
  <2>6. CASE UNCHANGED vars
    BY <2>6 DEF vars, centerVars, missionVars, wireVars, TokenAt, InFlight, Running
  <2> QED
    BY <2>2, <2>3, <2>4, <2>5, <2>6 DEF Next
<1>3. TypeOK /\ TokenAt(e) => Lockstep
  BY TokenIsLockstep
<1> QED
  BY <1>1, <1>2, <1>3, TypeCorrect, PTL DEF Spec

\* A model enters the history only with the bar full, after at least as many
\* rounds as were asked for.
THEOREM ReleasedFullyTrainedHolds ==
    ASSUME NEW e, Edges = {e}, ~Impatient
    PROVE  Spec => ReleasedFullyTrained
<1>1. TypeOK /\ Lockstep /\ [Next]_vars =>
        [history' # history => /\ currentStep' = totalSteps'
                               /\ history'[Len(history')] >= totalSteps']_vars
  <2> SUFFICES ASSUME TypeOK, Lockstep, Next, history' # history
               PROVE  currentStep' = totalSteps' /\ history'[Len(history')] >= totalSteps'
    BY DEF vars, centerVars, missionVars
  <2>1. e \in Edges /\ TokenAt(e)
    BY TokenIsLockstep
  <2>2. CompleteTraining(e)
    BY DEF Next, OperatorStarts, StartTrain, CenterSends, SendNextModel, CenterReceives,
           ModelReceived, ContinueTraining, EdgeArrives, EdgeConnects, EdgeDrops,
           EdgeDisconnects, EdgeTakes, EdgeReturns, EdgeLoses, missionVars, centerVars
  <2>3. up[e] \in Seq(Nat) /\ history \in Seq(Nat) /\ remaining = 0
    BY <2>1, <2>2 DEF TypeOK, CompleteTraining
  <2>4. Len(up[e]) = 1 /\ pending = 0 /\ Len(down[e]) = 0 /\ Len(work[e]) = 0
    BY <2>1, <2>2, <2>3, WireFacts, TokenPlace DEF TokenAt, CompleteTraining
  <2>5. Head(up[e]) = lastModel + 1
    BY <2>1, <2>3, <2>4, WireFacts DEF TokenAt
  <2>6. InFlight(e) = 1
    BY <2>4 DEF InFlight
  <2>7. /\ currentStep \in Nat /\ totalSteps \in Nat /\ lastModel \in Nat
        /\ currentStep + 1 = totalSteps
    BY <2>1, <2>3, <2>4, <2>6, MaxRoundsAssumption DEF TypeOK, TokenAt
  <2>8. lastModel >= currentStep
    BY <2>1, <2>7 DEF TokenAt, Running
  <2>9. currentStep' = totalSteps /\ totalSteps' = totalSteps
    BY <2>2, <2>7 DEF CompleteTraining, incrementProgress
  <2>10. history' = Append(history, lastModel + 1)
    BY <2>2, <2>5 DEF CompleteTraining
  <2>11. history'[Len(history')] = lastModel + 1
    BY <2>3, <2>7, <2>10
  <2> QED
    BY <2>7, <2>8, <2>9, <2>11
<1> QED
  BY <1>1, LockstepHolds, TypeCorrect, PTL DEF Spec, ReleasedFullyTrained

-----------------------------------------------------------------------------
(* Without faults and restarts, and with the edge connected first, the      *)
(* centre implements TrainingCampaign.                                      *)

\* Nothing gets lost: while a campaign runs the token exists, its model has
\* been through exactly the rounds the bar shows, and the edge is connected.
NothingLost(e) ==
    /\ Running => /\ InFlight(e) = 1
                  /\ lastModel = currentStep
                  /\ connected = Edges
    /\ ~Running => lastModel = InitialModel

\* Without faults the token is never lost.
LEMMA NothingLostStep ==
    ASSUME NEW e, Edges = {e}, EdgesFirst, MaxRestarts = 0, MaxFaults = 0,
           TypeOK, TokenAt(e), TokenAt(e)', NothingLost(e), [Next]_vars
    PROVE  NothingLost(e)'
<1>1. e \in Edges /\ faults = 0 /\ restarts = 0
  BY DEF TypeOK
<1>2. ~CountFault
  BY <1>1 DEF CountFault
<1>3. /\ currentStep \in Nat /\ totalSteps \in Nat /\ remaining \in Nat
      /\ lastModel \in Nat /\ pending \in Nat
      /\ down[e] \in Seq(Nat) /\ work[e] \in Seq(Nat) /\ up[e] \in Seq(Nat)
  BY <1>1, MaxRoundsAssumption DEF TypeOK
<1>4. CASE OperatorStarts
  <2>1. PICK n \in 1..MaxRounds : StartTrain(n, TRUE)
    BY <1>2, <1>4 DEF OperatorStarts, MaybeUnreadable
  <2>2. ~Running /\ connected = Edges /\ InFlight(e) = 0
    BY <1>1, <1>4 DEF OperatorStarts, TokenAt
  <2>3. n \in Nat /\ n > 0
    BY MaxRoundsAssumption
  <2>4. down'[e] = Append(down[e], lastModel)
    BY <1>1, <2>1, <2>2, <2>3 DEF StartTrain, sendNextModel, sendModel
  <2>5. /\ currentStep' = 0 /\ totalSteps' = n
        /\ UNCHANGED <<lastModel, pending, up, work, connected>>
    BY <1>4, <2>1 DEF OperatorStarts, StartTrain
  <2>6. pending = 0 /\ Len(down[e]) = 0 /\ Len(work[e]) = 0 /\ Len(up[e]) = 0
    BY <1>1, <2>2 DEF TypeOK, InFlight
  <2>7. Len(down'[e]) = 1
    BY <1>3, <2>4, <2>6, WireFacts
  <2>8. InFlight(e)' = 1
    BY <2>5, <2>6, <2>7 DEF InFlight
  <2>9. lastModel = 0
    BY <2>2 DEF NothingLost, InitialModel
  <2> QED
    BY <2>2, <2>3, <2>5, <2>8, <2>9 DEF NothingLost, Running
<1>5. CASE CenterSends
  <2>1. SendNextModel(TRUE)
    BY <1>2, <1>5 DEF CenterSends, MaybeUnreadable
  <2>2. /\ pending = 1 /\ Len(down[e]) = 0 /\ Len(work[e]) = 0 /\ Len(up[e]) = 0
        /\ remaining > 0
    BY <1>1, <2>1, TokenPlace DEF SendNextModel, TokenAt
  <2>3. Running
    BY <1>3, <2>2 DEF TokenAt
  <2>4. down'[e] = Append(down[e], lastModel)
    BY <1>1, <1>3, <2>1, <2>2, <2>3 DEF SendNextModel, sendNextModel, sendModel, NothingLost, TypeOK
  <2>5. pending' = 0 /\ UNCHANGED <<lastModel, currentStep, totalSteps, up, work, connected>>
    BY <1>5, <2>1, <2>2 DEF CenterSends, SendNextModel
  <2>6. Len(down'[e]) = 1
    BY <1>3, <2>2, <2>4, WireFacts
  <2>7. InFlight(e)' = 1
    <3>1. Len(work'[e]) = 0 /\ Len(up'[e]) = 0
      BY <2>2, <2>5
    <3> QED
      BY <2>5, <2>6, <3>1 DEF InFlight
  <2> QED
    BY <2>3, <2>5, <2>7 DEF NothingLost, Running
<1>6. CASE CenterReceives(e)
  <2>1. up[e] # << >> /\ up'[e] = Tail(up[e])
        /\ UNCHANGED <<down, work, remaining, connected>>
    BY <1>1, <1>6 DEF CenterReceives, ModelReceived, ContinueTraining, CompleteTraining, TypeOK
  <2>2. /\ Len(up[e]) = 1
        /\ pending = 0 /\ Len(down[e]) = 0 /\ Len(work[e]) = 0
    BY <1>1, <1>3, <2>1, WireFacts, TokenPlace DEF TokenAt
  <2>3. Len(up'[e]) = 0 /\ Head(up[e]) = lastModel + 1
    BY <1>3, <2>1, <2>2, WireFacts DEF TokenAt
  <2>4. InFlight(e) = 1
    BY <2>2 DEF InFlight
  <2>5. currentStep + remaining + 1 = totalSteps
    BY <1>3, <2>2, <2>4 DEF TokenAt
  <2>6. currentStep' = currentStep + 1 /\ totalSteps' = totalSteps
    BY <1>3, <1>6, <2>5
    DEF CenterReceives, ModelReceived, ContinueTraining, CompleteTraining, incrementProgress
  <2>7. Running /\ lastModel = currentStep /\ connected = Edges
    BY <1>3, <2>5 DEF NothingLost, Running
  <2>8. CASE ContinueTraining(e)
    <3>1. pending' = 1 /\ lastModel' = lastModel + 1
      BY <2>2, <2>3, <2>8 DEF ContinueTraining
    <3>2. Len(down'[e]) = 0 /\ Len(work'[e]) = 0
      BY <2>1, <2>2
    <3>3. InFlight(e)' = 1
      BY <2>3, <3>1, <3>2 DEF InFlight
    <3>4. Running'
      BY <1>3, <2>5, <2>6, <2>8 DEF ContinueTraining, Running
    <3> QED
      BY <2>1, <2>6, <2>7, <3>1, <3>3, <3>4 DEF NothingLost
  <2>9. CASE CompleteTraining(e)
    <3>1. lastModel' = InitialModel
      BY <2>9 DEF CompleteTraining
    <3>2. ~Running'
      BY <1>3, <2>5, <2>6, <2>9 DEF CompleteTraining, Running
    <3> QED
      BY <3>1, <3>2 DEF NothingLost
  <2> QED
    BY <1>6, <2>8, <2>9 DEF CenterReceives, ModelReceived
<1>7. CASE EdgeArrives(e)
  <2>1. UNCHANGED <<missionVars, down, up, work>> /\ connected' = connected \cup {e}
    BY <1>7 DEF EdgeArrives, EdgeConnects
  <2> QED
    BY <1>1, <2>1 DEF missionVars, NothingLost, InFlight, Running
<1>8. CASE EdgeTakes(e)
  <2>1. /\ down[e] # << >> /\ down'[e] = Tail(down[e])
        /\ work'[e] = Append(work[e], Head(down[e]))
        /\ UNCHANGED <<missionVars, up, connected>>
    BY <1>1, <1>8 DEF EdgeTakes, TypeOK
  <2>2. Len(down[e]) = 1 /\ pending = 0 /\ Len(work[e]) = 0 /\ Len(up[e]) = 0
    BY <1>1, <1>3, <2>1, WireFacts, TokenPlace DEF TokenAt
  <2>3. Len(down'[e]) = 0 /\ Len(work'[e]) = 1 /\ Len(up'[e]) = 0
    BY <1>3, <2>1, <2>2, WireFacts
  <2>4. InFlight(e)' = 1
    <3>1. pending' = 0
      BY <2>1, <2>2 DEF missionVars
    <3> QED
      BY <2>3, <3>1 DEF InFlight
  <2> QED
    BY <2>1, <2>4 DEF missionVars, NothingLost, Running
<1>9. CASE EdgeReturns(e)
  <2>1. /\ work[e] # << >> /\ work'[e] = Tail(work[e])
        /\ UNCHANGED <<missionVars, down, connected>>
    BY <1>1, <1>9 DEF EdgeReturns, TypeOK
  <2>2. Len(work[e]) = 1 /\ pending = 0 /\ Len(down[e]) = 0 /\ Len(up[e]) = 0
    BY <1>1, <1>3, <2>1, WireFacts, TokenPlace DEF TokenAt
  <2>3. InFlight(e) = 1
    BY <2>2 DEF InFlight
  <2>4. Running /\ connected = Edges
    BY <2>3 DEF TokenAt, NothingLost
  <2>5. up'[e] = Append(up[e], Head(work[e]) + 1) /\ Head(work[e]) \in Nat
    BY <1>1, <1>3, <1>9, <2>1, <2>4 DEF EdgeReturns, TypeOK
  <2>6. Len(down'[e]) = 0 /\ Len(work'[e]) = 0 /\ Len(up'[e]) = 1
    BY <1>3, <2>1, <2>2, <2>5, WireFacts
  <2>7. InFlight(e)' = 1
    BY <2>1, <2>2, <2>6 DEF InFlight, missionVars
  <2> QED
    BY <2>1, <2>4, <2>7 DEF missionVars, NothingLost, Running
<1>10. CASE UNCHANGED vars
  BY <1>10 DEF vars, centerVars, missionVars, wireVars, NothingLost, InFlight, Running
<1> QED
  BY <1>1, <1>2, <1>4, <1>5, <1>6, <1>7, <1>8, <1>9, <1>10 DEF Next, EdgeDrops, EdgeLoses

\* Every step of the centre finishes a round of the campaign, starts the next
\* campaign or changes nothing the operator is promised.
THEOREM LoopImplementsCampaign ==
    ASSUME NEW e, Edges = {e}, ~Impatient, EdgesFirst, MaxRestarts = 0, MaxFaults = 0
    PROVE  Spec => Campaign!Spec
<1>1. LoopInit => Campaign!Init /\ NothingLost(e)
  BY DEF LoopInit, Init, Campaign!Init, NothingLost, Running, InitialModel
<1>2. Lockstep /\ TypeOK => TokenAt(e)
  BY TokenIsLockstep
<1>3. TypeOK /\ TokenAt(e) /\ TokenAt(e)' /\ NothingLost(e) /\ [Next]_vars => NothingLost(e)'
  BY NothingLostStep
<1>4. TypeOK /\ TokenAt(e) /\ NothingLost(e) /\ [Next]_vars
        => [Campaign!Next]_(Campaign!campaignVars)
  <2> SUFFICES ASSUME TypeOK, TokenAt(e), NothingLost(e), [Next]_vars
               PROVE  Campaign!Next \/ UNCHANGED <<totalSteps, currentStep, history>>
    BY DEF Campaign!campaignVars
  <2>1. e \in Edges /\ restarts = 0
    BY DEF TypeOK
  <2>2. /\ currentStep \in Nat /\ totalSteps \in Nat /\ remaining \in Nat
        /\ lastModel \in Nat /\ up[e] \in Seq(Nat)
    BY <2>1, MaxRoundsAssumption DEF TypeOK
  <2>3. CASE OperatorStarts
    <3>1. ~Running /\ InFlight(e) = 0 /\ Len(history) < MaxCampaigns
      BY <2>1, <2>3 DEF OperatorStarts, TokenAt
    <3>2. currentStep = totalSteps
      BY <3>1 DEF NothingLost, TokenAt, Running, TypeOK
    <3> QED
      BY <2>3, <3>1, <3>2 DEF OperatorStarts, StartTrain, Campaign!Next, Campaign!Start
  <2>4. CASE CenterReceives(e)
    <3>1. /\ Len(up[e]) = 1
          /\ pending = 0 /\ Len(down[e]) = 0 /\ Len(work[e]) = 0
      BY <2>1, <2>2, <2>4, WireFacts, TokenPlace
      DEF TokenAt, CenterReceives, ModelReceived, ContinueTraining, CompleteTraining
    <3>2. InFlight(e) = 1 /\ Head(up[e]) = lastModel + 1
      BY <2>2, <3>1, WireFacts DEF InFlight, TokenAt
    <3>3. currentStep + remaining + 1 = totalSteps
      BY <2>2, <3>1, <3>2 DEF TokenAt
    <3>4. lastModel = currentStep
      BY <2>2, <3>3 DEF NothingLost, Running
    <3>5. currentStep' = currentStep + 1 /\ totalSteps' = totalSteps
      BY <2>2, <2>4, <3>3
      DEF CenterReceives, ModelReceived, ContinueTraining, CompleteTraining, incrementProgress
    <3>6. CASE ContinueTraining(e)
      BY <2>2, <3>3, <3>5, <3>6 DEF ContinueTraining, Campaign!Next, Campaign!FinishRound
    <3>7. CASE CompleteTraining(e)
      <4>1. history' = Append(history, totalSteps)
        BY <2>2, <3>2, <3>3, <3>4, <3>7 DEF CompleteTraining
      <4> QED
        BY <2>2, <3>3, <3>5, <3>7, <4>1
        DEF CompleteTraining, Campaign!Next, Campaign!FinishRound
    <3> QED
      BY <2>4, <3>6, <3>7 DEF CenterReceives, ModelReceived
  <2>5. CASE \/ CenterSends
             \/ EdgeArrives(e) \/ EdgeDrops(e) \/ EdgeTakes(e) \/ EdgeReturns(e) \/ EdgeLoses(e)
             \/ UNCHANGED vars
    BY <2>5 DEF CenterSends, SendNextModel, EdgeArrives, EdgeConnects, EdgeDrops,
                EdgeDisconnects, EdgeTakes, EdgeReturns, EdgeLoses, vars, centerVars, missionVars
  <2> QED
    BY <2>3, <2>4, <2>5 DEF Next
<1> QED
  BY <1>1, <1>2, <1>3, <1>4, TypeCorrect, LockstepHolds, PTL DEF Spec, Campaign!Spec
=============================================================================
