------------------------ MODULE FederatedTraining_proofs ------------------------
(***************************************************************************)
(* What holds of FederatedTraining for every set of clients and all        *)
(* bounds: the types, that two models never meet at the centre, what is    *)
(* true of the rounds until a command is repeated, and what is true as     *)
(* long as nothing has failed.                                             *)
(***************************************************************************)
EXTENDS FederatedTraining, FiniteSetTheorems, TLAPS

-----------------------------------------------------------------------------
(* The inductive invariant.  The centre and each client are given a share of *)
(* the training: the centre what it sends, waits for or may start, a client  *)
(* its models between the edge's broadcast and the aggregation.              *)

Startable   == IF Running THEN 0 ELSE 1
Training(c) == IF training[c] = {} THEN 0 ELSE 1
Filed(c)    == IF c \in DOMAIN roundModels THEN 1 ELSE 0

OnDown == Len(down[Me])
OnUp   == Len(up[Me])
Token  == pending + OnDown + OnUp + Startable

\* Models of client c under way; Load adds the one filed for the round.
OnPub(c)  == Len(pub[c])
OnSub(c)  == Len(sub[c])
Moving(c) == OnPub(c) + OnSub(c) + Training(c) + retries[c]
Load(c)   == Moving(c) + Filed(c)

\* Rounds left, finished and under way add up to those asked for.
RoundsAdd == Running => remaining + currentStep + 1 = totalSteps + pending

\* A left-over of a failed round puts a client one model ahead, never two.
TwoAtMost == \A c \in Clients : Token + Load(c) <= 2

\* Some client keeps a second aggregate from being made, or the round was
\* complete and its aggregation has failed.
OneWaits == \/ \E c \in Clients : Token + Load(c) <= 1
            \/ DOMAIN roundModels = Clients

Shares == RoundsAdd /\ TwoAtMost /\ OneWaits

-----------------------------------------------------------------------------
(* What the parts do to the types. *)

\* The bounds are numbers, as BoundsAssumption says.
LEMMA BoundsAreNatural ==
    /\ MaxRounds \in Nat /\ MaxRestarts \in Nat
    /\ MaxTrainFailures \in Nat /\ MaxFaults \in Nat
  BY BoundsAssumption

USE BoundsAreNatural

\* Were there no least element, the numbers below all of S would be closed
\* under successor, yet finite: adding one would map them into fewer numbers.
LEMMA SmallestExists ==
    ASSUME NEW S \in SUBSET Nat, S # {}
    PROVE  \E x \in S : \A y \in S : x <= y
<1> SUFFICES ASSUME \A x \in S : \E y \in S : y < x
             PROVE  FALSE
  OBVIOUS
<1>1. PICK n \in S : TRUE
  OBVIOUS
<1> DEFINE Below == {x \in 0..n : \A y \in S : x < y}
           Succ == [x \in Below |-> x + 1]
<1>2. 0 \in Below
  OBVIOUS
<1>3. IsFiniteSet(Below)
  <2>1. IsFiniteSet(0..n)
    BY FS_Interval
  <2> QED
    BY <2>1, FS_Subset
<1>4. Succ \in [Below -> Below \ {0}]
  <2> SUFFICES ASSUME NEW x \in Below
               PROVE  x + 1 \in Below
    OBVIOUS
  <2>1. \A y \in S : x + 1 <= y
    OBVIOUS
  <2>2. \A y \in S : x + 1 # y
    BY <2>1
  <2> QED
    BY <1>1, <2>1, <2>2
<1>5. /\ IsFiniteSet(Below \ {0})
      /\ Cardinality(Below \ {0}) < Cardinality(Below)
  <2>1. Cardinality(Below) \in Nat
    BY <1>3, FS_CardinalityType
  <2>2. /\ IsFiniteSet(Below \ {0})
        /\ Cardinality(Below \ {0}) = Cardinality(Below) - 1
    <3> HIDE DEF Below
    <3> QED
      BY <1>2, <1>3, FS_RemoveElement
  <2> HIDE DEF Below
  <2> QED
    BY <2>1, <2>2
<1> HIDE DEF Below, Succ
<1>6. \E x, y \in Below : x # y /\ Succ[x] = Succ[y]
  BY <1>3, <1>4, <1>5, FS_PigeonHole
<1> QED
  BY <1>6 DEF Succ, Below

\* An aggregate is a model: one round more than the least trained of its parts.
LEMMA GenerationType ==
    ASSUME NEW parts, DOMAIN parts # {}, \A c \in DOMAIN parts : parts[c] \in Nat
    PROVE  Edge!Generation(parts) \in Nat
<1> DEFINE models == {parts[c] : c \in DOMAIN parts}
<1>1. \E x \in models : \A y \in models : x <= y
  BY SmallestExists
<1>2. Edge!Min(models) \in Nat
  BY <1>1 DEF Edge!Min
<1> QED
  BY <1>2 DEF Edge!Generation

\* addClientModel files models of clients, that of c among them.
LEMMA WithModelOfType ==
    ASSUME TypeOK, NEW c \in Clients, sub[c] # << >>
    PROVE  /\ DOMAIN Edge!WithModelOf(c) \subseteq Clients
           /\ c \in DOMAIN Edge!WithModelOf(c)
           /\ \A d \in DOMAIN Edge!WithModelOf(c) : Edge!WithModelOf(c)[d] \in Nat
  BY DEF TypeOK, Edge!WithModelOf, Edge!NoModels

\* incrementProgress never counts beyond what was asked for.
LEMMA IncrementProgressType ==
    ASSUME totalSteps \in 0..MaxRounds, currentStep \in 0..totalSteps,
           Center!incrementProgress
    PROVE  /\ totalSteps' \in 0..MaxRounds
           /\ currentStep' \in 0..totalSteps'
  BY DEF Center!incrementProgress

\* sendNextModel writes models and leaves no negative number of rounds.
LEMMA SendNextModelType ==
    ASSUME TypeOK, NEW left \in 0..MaxRounds, Center!sendNextModel(left, TRUE)
    PROVE  /\ down' \in [Edges -> Seq(Nat)]
           /\ remaining' \in 0..MaxRounds
<1>1. lastModel \in Nat /\ down \in [Edges -> Seq(Nat)]
  BY DEF TypeOK
<1>2. \A e \in Edges : Append(down[e], lastModel) \in Seq(Nat)
  BY <1>1
<1>3. down' \in [Edges -> Seq(Nat)]
  BY <1>1, <1>2 DEF Center!sendNextModel, Center!sendModel
<1>4. remaining' \in 0..MaxRounds
  BY DEF Center!sendNextModel, Center!sendModel
<1> QED
  BY <1>3, <1>4

\* The edge takes a model of client c, and the round's entry becomes one of the
\* two that the code can leave.
LEMMA TakeModelType ==
    ASSUME TypeOK, NEW c \in Clients, Edge!TakeModelOf(c),
           roundModels' = Edge!WithModelOf(c) \/ roundModels' = Edge!NoModels
    PROVE  /\ connected' \subseteq Edges
           /\ down' \in [Edges -> Seq(Nat)]
           /\ pub' \in [Clients -> Seq(Nat)]
           /\ sub' \in [Clients -> Seq(Nat)]
           /\ roundOpen' \in BOOLEAN
           /\ DOMAIN roundModels' \subseteq Clients
           /\ \A d \in DOMAIN roundModels' : roundModels'[d] \in Nat
<1>1. sub[c] # << >> /\ sub[c] \in Seq(Nat)
  BY DEF TypeOK, Edge!TakeModelOf
<1>2. Tail(sub[c]) \in Seq(Nat)
  BY <1>1
<1>3. sub' \in [Clients -> Seq(Nat)]
  BY <1>2 DEF TypeOK, Edge!TakeModelOf
<1>4. /\ DOMAIN roundModels' \subseteq Clients
      /\ \A d \in DOMAIN roundModels' : roundModels'[d] \in Nat
  BY <1>1, WithModelOfType DEF Edge!NoModels
<1> QED
  BY <1>3, <1>4 DEF TypeOK, Edge!TakeModelOf

\* The variables keep their types: the centre's counters stay within what was
\* asked for and every model counts rounds of training, whatever fails.
THEOREM TypeCorrect == Spec => []TypeOK
<1>1. Init => TypeOK
  <2> SUFFICES ASSUME Init
               PROVE  TypeOK
    OBVIOUS
  <2>1. DOMAIN roundModels = {}
    BY DEF Init, Edge!Init, Edge!NoModels
  <2>2. /\ remaining \in 0..MaxRounds /\ lastModel \in Nat /\ pending \in Nat
        /\ totalSteps \in 0..MaxRounds /\ currentStep \in 0..totalSteps
        /\ history \in Seq(Nat) /\ connected \subseteq Edges
        /\ down \in [Edges -> Seq(Nat)] /\ up \in [Edges -> Seq(Nat)]
    BY DEF Init, Center!Init, Center!InitialModel
  <2>3. /\ pub \in [Clients -> Seq(Nat)] /\ sub \in [Clients -> Seq(Nat)]
        /\ roundOpen \in BOOLEAN
    <3>1. pub = [c \in Clients |-> << >>] /\ sub = [c \in Clients |-> << >>]
      BY DEF Init, Edge!Init
    <3>2. roundOpen \in BOOLEAN
      BY DEF Init, Edge!Init
    <3> QED
      BY <3>1, <3>2
  <2>4. /\ saved \in [Clients -> SUBSET Nat] /\ training \in [Clients -> SUBSET Nat]
        /\ retries \in [Clients -> Nat]
    BY DEF Init, Client!Init
  <2> QED
    BY <2>1, <2>2, <2>3, <2>4 DEF Init, TypeOK
<1>2. TypeOK /\ [Next]_vars => TypeOK'
  <2> SUFFICES ASSUME TypeOK, [Next]_vars
               PROVE  TypeOK'
    OBVIOUS
  <2>1. CASE OperatorStarts
    <3>1. PICK n \in 1..MaxRounds : Center!StartTrain(n, TRUE)
      BY <2>1 DEF OperatorStarts
    <3>2. down' \in [Edges -> Seq(Nat)] /\ remaining' \in 0..MaxRounds
      <4>1. n \in 0..MaxRounds
        OBVIOUS
      <4>2. Center!sendNextModel(n, TRUE)
        BY <3>1, Zenon DEF Center!StartTrain
      <4> QED
        BY <4>1, <4>2, SendNextModelType
    <3>3. restarts' \in 0..MaxRestarts
      BY <2>1 DEF OperatorStarts, TypeOK
    <3> QED
      BY <2>1, <3>1, <3>2, <3>3
      DEF OperatorStarts, Center!StartTrain, TypeOK, mqttVars, edgeVars, clientVars
  <2>2. CASE CenterSends
    <3>1. down' \in [Edges -> Seq(Nat)] /\ remaining' \in 0..MaxRounds
      BY <2>2, SendNextModelType DEF CenterSends, Center!SendNextModel, TypeOK
    <3> QED
      BY <2>2, <3>1 DEF CenterSends, Center!SendNextModel, TypeOK,
                        mqttVars, edgeVars, clientVars, boundVars
  <2>3. CASE CenterReceives
    <3>1. up[Me] \in Seq(Nat) /\ up[Me] # << >>
      BY <2>3 DEF CenterReceives, Center!ModelReceived, Center!ContinueTraining,
                  Center!CompleteTraining, TypeOK, Edges
    <3>2. Head(up[Me]) \in Nat /\ Tail(up[Me]) \in Seq(Nat)
      BY <3>1
    <3>3. totalSteps' \in 0..MaxRounds /\ currentStep' \in 0..totalSteps'
      BY <2>3, IncrementProgressType
      DEF CenterReceives, Center!ModelReceived, Center!ContinueTraining,
          Center!CompleteTraining, TypeOK
    <3>4. up' \in [Edges -> Seq(Nat)]
      BY <2>3, <3>2 DEF CenterReceives, Center!ModelReceived, Center!ContinueTraining,
                        Center!CompleteTraining, TypeOK
    <3>5. /\ lastModel' \in Nat /\ pending' \in Nat /\ history' \in Seq(Nat)
          /\ UNCHANGED <<remaining, connected, down>>
      <4>1. CASE Center!ContinueTraining(Me)
        BY <4>1, <3>2 DEF Center!ContinueTraining, TypeOK
      <4>2. CASE Center!CompleteTraining(Me)
        <5>1. Append(history, Head(up[Me])) \in Seq(Nat)
          BY <3>2 DEF TypeOK
        <5> QED
          BY <4>2, <5>1 DEF Center!CompleteTraining, Center!InitialModel, TypeOK
      <4> QED
        BY <2>3, <4>1, <4>2 DEF CenterReceives, Center!ModelReceived
    <3> QED
      BY <2>3, <3>3, <3>4, <3>5 DEF CenterReceives, TypeOK,
                                    mqttVars, edgeVars, clientVars, boundVars
  <2>4. CASE EdgeConnects \/ EdgeDisconnects
    <3>1. connected' \subseteq Edges
      BY <2>4 DEF EdgeConnects, EdgeDisconnects, Center!EdgeConnects, Center!EdgeDisconnects,
                  TypeOK, Edges
    <3>2. down' \in [Edges -> Seq(Nat)] /\ up' \in [Edges -> Seq(Nat)]
      <4>1. << >> \in Seq(Nat)
        OBVIOUS
      <4>2. CASE EdgeConnects
        BY <4>2 DEF EdgeConnects, Center!EdgeConnects, TypeOK
      <4>3. CASE EdgeDisconnects
        BY <4>1, <4>3 DEF EdgeDisconnects, Center!EdgeDisconnects, TypeOK
      <4> QED
        BY <2>4, <4>2, <4>3
    <3>3. faults' \in 0..MaxFaults /\ UNCHANGED <<restarts, trainFailures>>
      BY <2>4 DEF EdgeConnects, EdgeDisconnects, Fault, TypeOK, boundVars
    <3>4. UNCHANGED <<missionVars, mqttVars, edgeVars, clientVars>>
      BY <2>4 DEF EdgeConnects, EdgeDisconnects, Center!EdgeConnects, Center!EdgeDisconnects,
                  missionVars, Center!missionVars
    <3> QED
      BY <3>1, <3>2, <3>3, <3>4 DEF TypeOK, missionVars, mqttVars, edgeVars, clientVars
  <2>5. CASE EdgeRelays
    <3>1. down[Me] \in Seq(Nat) /\ down[Me] # << >>
      BY <2>5 DEF EdgeRelays, Edge!ModelFromCenter, TypeOK, Edges
    <3>2. Head(down[Me]) \in Nat /\ Tail(down[Me]) \in Seq(Nat)
      BY <3>1
    <3>3. down' \in [Edges -> Seq(Nat)]
      BY <2>5, <3>2 DEF EdgeRelays, Edge!ModelFromCenter, TypeOK
    <3>4. \A c \in Clients : Append(pub[c], Head(down[Me])) \in Seq(Nat)
      BY <3>2 DEF TypeOK
    <3>5. pub' \in [Clients -> Seq(Nat)]
      BY <2>5, <3>4 DEF EdgeRelays, Edge!ModelFromCenter
    <3> QED
      BY <2>5, <3>3, <3>5 DEF EdgeRelays, Edge!ModelFromCenter, Edge!edgeVars, TypeOK,
                        missionVars, clientVars, boundVars
  <2>6. CASE RoundTimerExpires
    <3>1. DOMAIN roundModels' = {} /\ roundOpen' \in BOOLEAN
      BY <2>6 DEF RoundTimerExpires, Edge!RoundTimerExpires, Edge!NoModels
    <3>2. UNCHANGED <<connected, down, up, pub, sub>>
      BY <2>6 DEF RoundTimerExpires, Edge!RoundTimerExpires, Edge!mqttVars
    <3>3. faults' \in 0..MaxFaults
      BY <2>6 DEF RoundTimerExpires, Fault, TypeOK
    <3> QED
      BY <2>6, <3>1, <3>2, <3>3 DEF RoundTimerExpires, TypeOK, missionVars, clientVars
  <2>7. ASSUME NEW c \in Clients, EdgeHolds(c)
        PROVE  TypeOK'
    BY <2>7, TakeModelType DEF EdgeHolds, Edge!HoldModel, TypeOK,
                               missionVars, clientVars, boundVars
  <2>8. ASSUME NEW c \in Clients, EdgeAggregates(c)
        PROVE  TypeOK'
    <3>1. Edge!Generation(Edge!WithModelOf(c)) \in Nat
      BY <2>8, WithModelOfType, GenerationType
      DEF EdgeAggregates, Edge!Aggregate, Edge!TakeModelOf
    <3>2. up' \in [Edges -> Seq(Nat)]
      BY <2>8, <3>1 DEF EdgeAggregates, Edge!Aggregate, Edge!SendToCenter, TypeOK, Edges
    <3> QED
      BY <2>8, <3>2, TakeModelType DEF EdgeAggregates, Edge!Aggregate, TypeOK,
                                       missionVars, clientVars, boundVars
  <2>9. ASSUME NEW c \in Clients, EdgeFailsToAggregate(c) \/ EdgeFailsToArchive(c)
        PROVE  TypeOK'
    <3>1. /\ Edge!TakeModelOf(c)
          /\ roundModels' = Edge!WithModelOf(c) \/ roundModels' = Edge!NoModels
          /\ UNCHANGED up
      BY <2>9 DEF EdgeFailsToAggregate, EdgeFailsToArchive, Edge!AggregationFails,
                  Edge!ArchivingFails
    <3>2. faults' \in 0..MaxFaults /\ UNCHANGED <<restarts, trainFailures>>
      BY <2>9 DEF EdgeFailsToAggregate, EdgeFailsToArchive, Fault, TypeOK
    <3>3. UNCHANGED <<missionVars, clientVars>>
      BY <2>9 DEF EdgeFailsToAggregate, EdgeFailsToArchive
    <3> QED
      BY <3>1, <3>2, <3>3, TakeModelType DEF TypeOK, missionVars, clientVars
  <2>10. ASSUME NEW c \in Clients, BroadcastLost(c)
         PROVE  TypeOK'
    <3>1. Tail(pub[c]) \in Seq(Nat)
      BY <2>10 DEF BroadcastLost, TypeOK
    <3>2. pub' \in [Clients -> Seq(Nat)]
      BY <2>10, <3>1 DEF BroadcastLost, TypeOK
    <3>3. faults' \in 0..MaxFaults
      BY <2>10 DEF BroadcastLost, Fault, TypeOK
    <3> QED
      BY <2>10, <3>1, <3>2, <3>3 DEF BroadcastLost, TypeOK, missionVars, wireVars, edgeVars,
                                     clientVars
  <2>11. ASSUME NEW c \in Clients, ClientReceives(c)
         PROVE  TypeOK'
    <3>1. PICK starts \in BOOLEAN : Client!ModelArrives(c, starts) /\ FineOr(starts, "start")
      BY <2>11 DEF ClientReceives
    <3>2. pub[c] \in Seq(Nat) /\ pub[c] # << >>
      BY <3>1 DEF Client!ModelArrives, TypeOK
    <3>3. Head(pub[c]) \in Nat /\ Tail(pub[c]) \in Seq(Nat)
      BY <3>2
    <3>4. training' \in [Clients -> SUBSET Nat] /\ saved' \in [Clients -> SUBSET Nat]
      BY <3>1, <3>3 DEF Client!ModelArrives, Client!startTraining, TypeOK
    <3>5. pub' \in [Clients -> Seq(Nat)]
      BY <3>1, <3>3 DEF Client!ModelArrives, TypeOK
    <3>6. faults' \in 0..MaxFaults
      BY <3>1 DEF FineOr, Fault, TypeOK
    <3> QED
      BY <2>11, <3>1, <3>4, <3>5, <3>6
      DEF ClientReceives, Client!ModelArrives, TypeOK, missionVars, wireVars, edgeVars
  <2>12. ASSUME NEW c \in Clients, ClientPublishes(c)
         PROVE  TypeOK'
    <3>1. PICK sent \in BOOLEAN : Client!TrainingSucceeds(c, sent) /\ FineOr(sent, "upload")
      BY <2>12 DEF ClientPublishes
    <3>2. sub' \in [Clients -> Seq(Nat)] /\ training' \in [Clients -> SUBSET Nat]
      BY <3>1 DEF Client!TrainingSucceeds, TypeOK
    <3>3. faults' \in 0..MaxFaults
      BY <3>1 DEF FineOr, Fault, TypeOK
    <3> QED
      BY <2>12, <3>1, <3>2, <3>3
      DEF ClientPublishes, Client!TrainingSucceeds, TypeOK, missionVars, wireVars, edgeVars
  <2>13. ASSUME NEW c \in Clients, ClientFails(c)
         PROVE  TypeOK'
    <3>1. training' \in [Clients -> SUBSET Nat] /\ retries' \in [Clients -> Nat]
      BY <2>13 DEF ClientFails, Client!TrainingFails, TypeOK
    <3>2. trainFailures' \in 0..MaxTrainFailures
      BY <2>13 DEF ClientFails, TypeOK
    <3> QED
      BY <2>13, <3>1, <3>2 DEF ClientFails, Client!TrainingFails, TypeOK,
                               missionVars, wireVars, edgeVars
  <2>14. ASSUME NEW c \in Clients, ClientRetries(c)
         PROVE  TypeOK'
    <3>1. PICK starts \in BOOLEAN : Client!RetryTraining(c, starts) /\ FineOr(starts, "start")
      BY <2>14 DEF ClientRetries
    <3>2. training' \in [Clients -> SUBSET Nat] /\ retries' \in [Clients -> Nat]
      BY <3>1 DEF Client!RetryTraining, Client!startTraining, TypeOK
    <3>3. faults' \in 0..MaxFaults
      BY <3>1 DEF FineOr, Fault, TypeOK
    <3> QED
      BY <2>14, <3>1, <3>2, <3>3
      DEF ClientRetries, Client!RetryTraining, TypeOK, missionVars, wireVars, edgeVars
  <2>15. CASE UNCHANGED vars
    BY <2>15 DEF vars, missionVars, wireVars, mqttVars, edgeVars, clientVars, boundVars, TypeOK
  <2> QED
    BY <2>1, <2>2, <2>3, <2>4, <2>5, <2>6, <2>7, <2>8, <2>9, <2>10, <2>11, <2>12, <2>13,
       <2>14, <2>15 DEF Next
<1> QED
  BY <1>1, <1>2, PTL DEF Spec

-----------------------------------------------------------------------------
(* How steps change the shares. *)

\* A wire's end in numbers: one model more, one less, or none.
LEMMA AppendLength ==
    ASSUME NEW q \in Seq(Nat), NEW m \in Nat
    PROVE  Len(Append(q, m)) = Len(q) + 1
  OBVIOUS

\* Taking the first of a queue makes it shorter by one.
LEMMA TailLength ==
    ASSUME NEW q \in Seq(Nat), q # << >>
    PROVE  Len(Tail(q)) = Len(q) - 1 /\ Len(q) \in Nat \ {0}
  OBVIOUS

NaturalShares ==
    /\ pending \in Nat /\ OnDown \in Nat /\ OnUp \in Nat
    /\ Startable \in Nat /\ Token \in Nat
    /\ \A c \in Clients : /\ OnPub(c) \in Nat /\ OnSub(c) \in Nat
                          /\ retries[c] \in Nat
                          /\ Training(c) \in 0..1 /\ Filed(c) \in 0..1
                          /\ Moving(c) \in Nat /\ Load(c) \in Nat

\* Shares are counts.
LEMMA SharesAreNatural == TypeOK => NaturalShares
<1> SUFFICES ASSUME TypeOK
             PROVE  NaturalShares
  OBVIOUS
<1>1. down[Me] \in Seq(Nat) /\ up[Me] \in Seq(Nat)
  BY DEF TypeOK, Edges
<1>2. pending \in Nat /\ OnDown \in Nat /\ OnUp \in Nat /\ Startable \in Nat
  BY <1>1 DEF TypeOK, OnDown, OnUp, Startable
<1>3. Token \in Nat
  BY <1>2 DEF Token
<1>4. ASSUME NEW c \in Clients
      PROVE  /\ OnPub(c) \in Nat /\ OnSub(c) \in Nat /\ retries[c] \in Nat
             /\ Training(c) \in 0..1 /\ Filed(c) \in 0..1
             /\ Moving(c) \in Nat /\ Load(c) \in Nat
  <2>1. /\ OnPub(c) \in Nat /\ OnSub(c) \in Nat /\ retries[c] \in Nat
        /\ Training(c) \in 0..1 /\ Filed(c) \in 0..1
    BY DEF TypeOK, OnPub, OnSub, Training, Filed
  <2> QED
    BY <2>1 DEF Moving, Load
<1> QED
  BY <1>2, <1>3, <1>4 DEF NaturalShares

\* The bounds on the shares as one conjunct of types and one of sums.
Balanced == /\ Token \in Nat
            /\ \A c \in Clients : Load(c) \in Nat
            /\ TwoAtMost /\ OneWaits

\* A step from which nobody's share grows; one that ends a failed round must
\* take something from somebody.
NobodyGains ==
    /\ Token' <= Token
    /\ \A c \in Clients : Load(c)' <= Load(c)
    /\ DOMAIN roundModels = Clients =>
          \/ DOMAIN roundModels' = Clients
          \/ \E c \in Clients : Load(c)' < Load(c)

\* A step that gives no one more keeps the balance.
LEMMA BalanceKept ==
    ASSUME Balanced, NobodyGains,
           Token' \in Nat, \A c \in Clients : Load(c)' \in Nat
    PROVE  Balanced'
<1>1. TwoAtMost'
  BY DEF Balanced, TwoAtMost, NobodyGains
<1>2. CASE \E c \in Clients : Token + Load(c) <= 1
  <2>1. PICK c \in Clients : Token + Load(c) <= 1
    BY <1>2
  <2>2. Token' + Load(c)' <= 1
    BY <2>1 DEF Balanced, NobodyGains
  <2> QED
    BY <1>1, <2>2 DEF Balanced, OneWaits
<1>3. CASE \E c \in Clients : Load(c)' < Load(c)
  <2>1. PICK c \in Clients : Load(c)' < Load(c)
    BY <1>3
  <2>2. Token' + Load(c)' <= 1
    BY <2>1 DEF Balanced, TwoAtMost, NobodyGains
  <2> QED
    BY <1>1, <2>2 DEF Balanced, OneWaits
<1>4. CASE DOMAIN roundModels' = Clients
  BY <1>1, <1>4 DEF Balanced, OneWaits
<1> QED
  BY <1>2, <1>3, <1>4 DEF Balanced, OneWaits, NobodyGains

\* Until the centre's share is gone no client can be a whole round ahead.
LEMMA TokenAtMostOne ==
    ASSUME TypeOK, Balanced
    PROVE  Token <= 1
<1>1. CASE \E c \in Clients : Token + Load(c) <= 1
  BY <1>1 DEF Balanced
<1>2. CASE DOMAIN roundModels = Clients
  <2>1. PICK c \in Clients : TRUE
    BY ClientsAssumption
  <2>2. Moving(c) \in Nat /\ Load(c) = Moving(c) + 1
    BY <1>2, SharesAreNatural DEF NaturalShares, Load, Filed
  <2> QED
    BY <2>1, <2>2 DEF Balanced, TwoAtMost
<1> QED
  BY <1>1, <1>2 DEF Balanced, OneWaits

\* The edge takes a model of client c.
LEMMA TakeModelShares ==
    ASSUME TypeOK, NEW c \in Clients, Edge!TakeModelOf(c), UNCHANGED <<training, retries>>
    PROVE  /\ Moving(c)' = Moving(c) - 1
           /\ \A d \in Clients \ {c} : Moving(d)' = Moving(d)
           /\ UNCHANGED <<down, connected>>
<1>1. sub[c] \in Seq(Nat) /\ sub[c] # << >>
  BY DEF TypeOK, Edge!TakeModelOf
<1>2. sub'[c] = Tail(sub[c]) /\ \A d \in Clients \ {c} : sub'[d] = sub[d]
  BY DEF Edge!TakeModelOf, TypeOK
<1>3. OnSub(c)' = OnSub(c) - 1
  BY <1>1, <1>2, TailLength DEF OnSub
<1>4. \A d \in Clients \ {c} : OnSub(d)' = OnSub(d)
  BY <1>2 DEF OnSub
<1>5. UNCHANGED <<pub, down, connected>>
  BY DEF Edge!TakeModelOf
<1>6. \A d \in Clients : OnPub(d)' = OnPub(d) /\ Training(d)' = Training(d)
  BY <1>5 DEF OnPub, Training
<1>7. \A d \in Clients : /\ OnPub(d) \in Nat /\ OnSub(d) \in Nat /\ retries[d] \in Nat
                         /\ Training(d) \in 0..1
  BY SharesAreNatural DEF NaturalShares
<1>8. Moving(c)' = Moving(c) - 1
  BY <1>3, <1>6, <1>7 DEF Moving
<1>9. \A d \in Clients \ {c} : Moving(d)' = Moving(d)
  BY <1>4, <1>6 DEF Moving
<1> QED
  BY <1>5, <1>8, <1>9

-----------------------------------------------------------------------------
(* The centre's steps. *)

\* What sendNextModel does to the wire while rounds are left.
LEMMA SendShares ==
    ASSUME TypeOK, NEW left \in 1..MaxRounds, Center!sendNextModel(left, TRUE)
    PROVE  /\ remaining' = left - 1
           /\ OnDown' = IF Me \in connected THEN OnDown + 1 ELSE OnDown
<1>1. left > 0 /\ left # 0
  OBVIOUS
<1>2. down[Me] \in Seq(Nat) /\ lastModel \in Nat /\ Me \in Edges
  BY DEF TypeOK, Edges
<1>3. remaining' = left - 1
  BY <1>1 DEF Center!sendNextModel, Center!sendModel
<1>4. down'[Me] = IF Me \in connected THEN Append(down[Me], lastModel) ELSE down[Me]
  BY <1>1, <1>2 DEF Center!sendNextModel, Center!sendModel
<1>5. OnDown' = IF Me \in connected THEN OnDown + 1 ELSE OnDown
  BY <1>2, <1>4, AppendLength DEF OnDown
<1> QED
  BY <1>3, <1>5

\* The centre may give its share a new form but keeps it one.
LEMMA StartShares ==
    ASSUME TypeOK, Balanced, RoundsAdd, OperatorStarts
    PROVE  /\ Running' /\ RoundsAdd'
           /\ Token' = Token + (IF Running THEN 1 ELSE 0)
<1>1. PICK n \in 1..MaxRounds : Center!StartTrain(n, TRUE)
  BY DEF OperatorStarts
<1>2. Center!sendNextModel(n, TRUE)
  BY <1>1, Zenon DEF Center!StartTrain
<1>3. Me \in connected
  BY DEF OperatorStarts, Edges
<1>4. remaining' = n - 1 /\ OnDown' = OnDown + 1
  BY <1>2, <1>3, SendShares
<1>5. totalSteps' = n /\ currentStep' = 0 /\ pending' = pending /\ OnUp' = OnUp
  BY <1>1 DEF Center!StartTrain, OnUp
<1>6. Running'
  BY <1>5 DEF Running
<1>7. pending \in Nat /\ OnDown \in Nat /\ OnUp \in Nat
  BY SharesAreNatural DEF NaturalShares
<1>8. Token' = pending + OnDown + 1 + OnUp
  BY <1>4, <1>5, <1>6, <1>7 DEF Token, Startable
<1>9. Token = pending + OnDown + OnUp + Startable
  BY DEF Token
<1>10. Token' = Token + (IF Running THEN 1 ELSE 0)
  BY <1>7, <1>8, <1>9 DEF Startable
<1>11. pending = 0
  <2>1. CASE Running
    BY <2>1 DEF OperatorStarts, Quiet
  <2>2. CASE ~Running
    BY <2>2, <1>7, <1>9, TokenAtMostOne DEF Startable
  <2> QED
    BY <2>1, <2>2
<1>12. RoundsAdd'
  BY <1>4, <1>5, <1>11 DEF RoundsAdd
<1> QED
  BY <1>6, <1>10, <1>12

\* The queued sendNextModel moves the token to the wire, or loses it if no
\* edge is connected.
LEMMA SendsShares ==
    ASSUME TypeOK, Balanced, RoundsAdd, CenterSends
    PROVE  RoundsAdd' /\ Token' = IF Me \in connected THEN Token ELSE Token - 1
<1>1. pending \in Nat \ {0} /\ OnDown \in Nat /\ OnUp \in Nat
  BY SharesAreNatural DEF NaturalShares, CenterSends, Center!SendNextModel
<1>2. Token = pending + OnDown + OnUp + Startable
  BY DEF Token
<1>3. Running /\ pending = 1
  BY <1>1, <1>2, TokenAtMostOne DEF Startable
<1>4. remaining + currentStep = totalSteps
  BY <1>3 DEF RoundsAdd, TypeOK
<1>5. remaining \in 1..MaxRounds
  BY <1>3, <1>4 DEF Running, TypeOK
<1>6. Center!sendNextModel(remaining, TRUE)
  BY Zenon DEF CenterSends, Center!SendNextModel
<1>7. /\ remaining' = remaining - 1
      /\ OnDown' = IF Me \in connected THEN OnDown + 1 ELSE OnDown
  BY <1>5, <1>6, SendShares
<1>8. pending' = pending - 1 /\ OnUp' = OnUp /\ UNCHANGED <<currentStep, totalSteps>>
  BY DEF CenterSends, Center!SendNextModel, OnUp
<1>9. Startable' = Startable
  BY <1>8 DEF Startable, Running
<1>10. Token' = pending' + OnDown' + OnUp + Startable
  BY <1>8, <1>9 DEF Token
<1>11. Token' = IF Me \in connected THEN Token ELSE Token - 1
  <2>1. Startable \in Nat
    BY DEF Startable
  <2> QED
    BY <1>1, <1>2, <1>7, <1>8, <1>10, <2>1
<1>12. RoundsAdd'
  BY <1>3, <1>4, <1>5, <1>7, <1>8 DEF RoundsAdd, TypeOK
<1> QED
  BY <1>11, <1>12

\* handleModelReceived keeps the token: the next round is queued, or the
\* training is over and another may be started.
LEMMA ReceivesShares ==
    ASSUME TypeOK, Balanced, RoundsAdd, CenterReceives
    PROVE  RoundsAdd' /\ Token' = Token
<1>1. up[Me] \in Seq(Nat) /\ up[Me] # << >> /\ Me \in Edges
  BY DEF CenterReceives, Center!ModelReceived, Center!ContinueTraining,
         Center!CompleteTraining, TypeOK, Edges
<1>2. pending \in Nat /\ OnDown \in Nat /\ OnUp \in Nat \ {0}
  BY <1>1, SharesAreNatural, TailLength DEF NaturalShares, OnUp
<1>3. Token = pending + OnDown + OnUp + Startable
  BY DEF Token
<1>4. Running /\ pending = 0 /\ OnDown = 0 /\ OnUp = 1 /\ Token = 1
  BY <1>2, <1>3, TokenAtMostOne DEF Startable
<1>5. remaining + currentStep + 1 = totalSteps
  BY <1>4 DEF RoundsAdd, TypeOK
<1>6. /\ up' = [up EXCEPT ![Me] = Tail(@)]
      /\ UNCHANGED <<down, remaining, totalSteps>>
      /\ currentStep' = currentStep + 1
  BY <1>4 DEF CenterReceives, Center!ModelReceived, Center!ContinueTraining,
              Center!CompleteTraining, Center!incrementProgress, Running
<1>7. OnUp' = 0 /\ OnDown' = 0
  <2>1. up'[Me] = Tail(up[Me])
    BY <1>1, <1>6 DEF TypeOK
  <2>2. Len(up'[Me]) = Len(up[Me]) - 1
    BY <1>1, <2>1, TailLength
  <2> QED
    BY <1>4, <1>6, <2>2 DEF OnUp, OnDown
<1>8. CASE Center!ContinueTraining(Me)
  <2>1. remaining > 0 /\ pending' = 1
    BY <1>4, <1>8 DEF Center!ContinueTraining
  <2>2. Running'
    BY <1>5, <1>6, <2>1 DEF Running, TypeOK
  <2>3. Token' = 1
    BY <1>7, <2>1, <2>2 DEF Token, Startable
  <2>4. RoundsAdd'
    BY <1>5, <1>6, <2>1 DEF RoundsAdd, TypeOK
  <2> QED
    BY <1>4, <2>3, <2>4
<1>9. CASE Center!CompleteTraining(Me)
  <2>1. remaining = 0 /\ pending' = 0
    BY <1>4, <1>9 DEF Center!CompleteTraining
  <2>2. ~Running'
    BY <1>5, <1>6, <2>1 DEF Running, TypeOK
  <2>3. Token' = 1
    BY <1>7, <2>1, <2>2 DEF Token, Startable
  <2> QED
    BY <1>4, <2>2, <2>3 DEF RoundsAdd
<1> QED
  BY <1>8, <1>9 DEF CenterReceives, Center!ModelReceived

-----------------------------------------------------------------------------
(* The steps of edge and clients. *)

\* A broadcast passes the centre's share on to every client.
LEMMA RelayShares ==
    ASSUME TypeOK, EdgeRelays
    PROVE  /\ Token >= 1 /\ Token' = Token - 1
           /\ \A c \in Clients : Load(c)' = Load(c) + 1
           /\ DOMAIN roundModels' = DOMAIN roundModels
<1>1. down[Me] \in Seq(Nat) /\ down[Me] # << >> /\ Me \in Edges
  BY DEF EdgeRelays, Edge!ModelFromCenter, TypeOK, Edges
<1>2. OnDown' = OnDown - 1
  <2>1. down'[Me] = Tail(down[Me])
    BY <1>1 DEF EdgeRelays, Edge!ModelFromCenter, TypeOK
  <2> QED
    BY <1>1, <2>1, TailLength DEF OnDown
<1>3. /\ UNCHANGED <<pending, currentStep, totalSteps, up, sub, roundModels, training, retries>>
  BY DEF EdgeRelays, Edge!ModelFromCenter, Edge!edgeVars, missionVars, clientVars
<1>4. Token >= 1 /\ Token' = Token - 1
  <2>1. OnDown >= 1
    BY <1>1, TailLength DEF OnDown
  <2>2. OnUp' = OnUp /\ Startable' = Startable
    BY <1>3 DEF OnUp, Startable, Running
  <2> QED
    BY <1>2, <1>3, <2>1, <2>2, SharesAreNatural DEF NaturalShares, Token
<1>5. ASSUME NEW c \in Clients
      PROVE  Load(c)' = Load(c) + 1
  <2>1. pub[c] \in Seq(Nat) /\ Head(down[Me]) \in Nat
    BY <1>1 DEF TypeOK
  <2>2. pub'[c] = Append(pub[c], Head(down[Me]))
    BY DEF EdgeRelays, Edge!ModelFromCenter
  <2>3. OnPub(c)' = OnPub(c) + 1
    BY <2>1, <2>2, AppendLength DEF OnPub
  <2>4. OnSub(c)' = OnSub(c) /\ Training(c)' = Training(c) /\ Filed(c)' = Filed(c)
    BY <1>3 DEF OnSub, Training, Filed
  <2>5. /\ OnPub(c) \in Nat /\ OnSub(c) \in Nat /\ retries[c] \in Nat
        /\ Training(c) \in 0..1 /\ Filed(c) \in 0..1
    BY SharesAreNatural DEF NaturalShares
  <2> QED
    BY <1>3, <2>3, <2>4, <2>5 DEF Load, Moving
<1>6. DOMAIN roundModels' = DOMAIN roundModels
  BY <1>3
<1> QED
  BY <1>4, <1>5, <1>6

\* An aggregation takes a share from every client and gives one to the centre.
LEMMA AggregateMoves ==
    ASSUME TypeOK, NEW c \in Clients, EdgeAggregates(c)
    PROVE  /\ \A d \in Clients \ {c} : d \in DOMAIN roundModels /\ Load(d)' = Load(d) - 1
           /\ Load(c)' = Load(c) - (IF c \in DOMAIN roundModels THEN 2 ELSE 1)
           /\ Token' = IF Me \in connected THEN Token + 1 ELSE Token
<1>1. Edge!TakeModelOf(c) /\ UNCHANGED <<training, retries>>
  BY DEF EdgeAggregates, Edge!Aggregate, clientVars
<1>2. /\ Moving(c)' = Moving(c) - 1
      /\ \A d \in Clients \ {c} : Moving(d)' = Moving(d)
  BY <1>1, TakeModelShares
<1>3. \A d \in Clients : d = c \/ d \in DOMAIN roundModels
  BY DEF EdgeAggregates, Edge!Aggregate, Edge!Complete, Edge!WithModelOf, Edge!NoModels
<1>4. \A d \in Clients : Filed(d)' = 0
  BY DEF EdgeAggregates, Edge!Aggregate, Edge!NoModels, Filed
<1>5. \A d \in Clients : Moving(d) \in Nat /\ Load(d) \in Nat /\ Load(d) = Moving(d) + Filed(d)
  BY SharesAreNatural DEF NaturalShares, Load
<1>6. \A d \in Clients : Load(d)' = Moving(d)'
  BY <1>2, <1>4, <1>5 DEF Load
<1>7. \A d \in Clients \ {c} : Load(d)' = Load(d) - 1
  BY <1>2, <1>3, <1>5, <1>6 DEF Filed
<1>8. Load(c)' = Load(c) - (IF c \in DOMAIN roundModels THEN 2 ELSE 1)
  BY <1>2, <1>5, <1>6 DEF Filed
<1>9. Token' = IF Me \in connected THEN Token + 1 ELSE Token
  <2>1. OnDown' = OnDown /\ UNCHANGED <<pending, currentStep, totalSteps>>
    BY DEF EdgeAggregates, Edge!Aggregate, Edge!TakeModelOf, missionVars, OnDown
  <2>2. OnUp' = IF Me \in connected THEN OnUp + 1 ELSE OnUp
    <3>1. Edge!Generation(Edge!WithModelOf(c)) \in Nat
      BY WithModelOfType, GenerationType DEF EdgeAggregates, Edge!Aggregate, Edge!TakeModelOf
    <3>2. up[Me] \in Seq(Nat) /\ Me \in Edges
      BY DEF TypeOK, Edges
    <3>3. up'[Me] = IF Me \in connected
                    THEN Append(up[Me], Edge!Generation(Edge!WithModelOf(c))) ELSE up[Me]
      BY <3>2 DEF EdgeAggregates, Edge!Aggregate, Edge!SendToCenter, TypeOK
    <3> QED
      BY <3>1, <3>2, <3>3, AppendLength DEF OnUp
  <2>3. Startable' = Startable
    BY <2>1 DEF Startable, Running
  <2> QED
    BY <2>1, <2>2, <2>3, SharesAreNatural DEF NaturalShares, Token
<1> QED
  BY <1>3, <1>7, <1>8, <1>9

\* Some client had only one share, or two, of which the failed round's is one.
LEMMA AggregateShares ==
    ASSUME TypeOK, Balanced, NEW c \in Clients, EdgeAggregates(c)
    PROVE  TwoAtMost' /\ OneWaits'
<1>1. NaturalShares
  BY SharesAreNatural
<1>2. /\ \A d \in Clients \ {c} : Load(d)' = Load(d) - 1
      /\ Load(c)' = Load(c) - (IF c \in DOMAIN roundModels THEN 2 ELSE 1)
      /\ Token' = Token \/ Token' = Token + 1
  BY AggregateMoves
<1>3. TwoAtMost'
  BY <1>1, <1>2 DEF NaturalShares, Balanced, TwoAtMost
<1>4. CASE \E d \in Clients : Token + Load(d) <= 1
  <2>1. PICK d \in Clients : Token + Load(d) <= 1
    BY <1>4
  <2>2. Token' + Load(d)' <= 1
    BY <1>1, <1>2, <2>1 DEF NaturalShares
  <2> QED
    BY <1>3, <2>2 DEF OneWaits
<1>5. CASE DOMAIN roundModels = Clients
  <2>1. Token' + Load(c)' <= 1
    BY <1>1, <1>2, <1>5 DEF NaturalShares, Balanced, TwoAtMost
  <2> QED
    BY <1>3, <2>1 DEF OneWaits
<1> QED
  BY <1>3, <1>4, <1>5 DEF Balanced, OneWaits

\* The edge takes a model and makes no aggregate of it: it holds the model, or
\* the aggregation or the archiving fails.
LEMMA TakesOnlyShares ==
    ASSUME TypeOK, Balanced, NEW c \in Clients,
           EdgeHolds(c) \/ EdgeFailsToAggregate(c) \/ EdgeFailsToArchive(c)
    PROVE  /\ Token' = Token
           /\ \A d \in Clients : Load(d)' <= Load(d)
           /\ DOMAIN roundModels' = Clients \/ Load(c)' < Load(c) \/ DOMAIN roundModels # Clients
<1>1. /\ Edge!TakeModelOf(c)
      /\ UNCHANGED <<training, retries, up, pending, currentStep, totalSteps>>
  BY DEF EdgeHolds, EdgeFailsToAggregate, EdgeFailsToArchive, Edge!HoldModel,
         Edge!AggregationFails, Edge!ArchivingFails, clientVars, missionVars
<1>2. /\ Moving(c)' = Moving(c) - 1
      /\ \A d \in Clients \ {c} : Moving(d)' = Moving(d)
      /\ UNCHANGED down
  BY <1>1, TakeModelShares
<1>3. Token' = Token
  BY <1>1, <1>2 DEF Token, OnDown, OnUp, Startable, Running
<1>4. \A d \in Clients \ {c} : Filed(d)' <= Filed(d)
  BY DEF EdgeHolds, EdgeFailsToAggregate, EdgeFailsToArchive, Edge!HoldModel,
         Edge!AggregationFails, Edge!ArchivingFails, Edge!WithModelOf, Edge!NoModels, Filed
<1>5. \A d \in Clients : Filed(d) \in 0..1 /\ Filed(d)' \in 0..1
  BY DEF Filed
<1>6. \A d \in Clients : Moving(d) \in Nat /\ Load(d) = Moving(d) + Filed(d)
                         /\ Load(d)' = Moving(d)' + Filed(d)'
  BY SharesAreNatural DEF NaturalShares, Load
<1>7. \A d \in Clients : Load(d)' <= Load(d)
  BY <1>2, <1>4, <1>5, <1>6
<1>8. DOMAIN roundModels = Clients => Load(c)' < Load(c)
  BY <1>2, <1>5, <1>6 DEF Filed
<1> QED
  BY <1>3, <1>7, <1>8

\* What the clients and the broker do never adds to a share.
LEMMA ClientShares ==
    ASSUME TypeOK, NaturalShares', NEW c \in Clients,
           BroadcastLost(c) \/ ClientReceives(c) \/ ClientFinishes(c) \/ ClientRetries(c)
    PROVE  /\ Token' = Token
           /\ \A d \in Clients : Load(d)' <= Load(d)
           /\ roundModels' = roundModels
<1>1. UNCHANGED <<pending, currentStep, totalSteps, down, up, roundModels>>
  BY DEF BroadcastLost, ClientReceives, ClientFinishes, ClientPublishes, ClientFails,
         ClientRetries, missionVars, wireVars, edgeVars
<1>2. Token' = Token
  BY <1>1 DEF Token, OnDown, OnUp, Startable, Running
<1>3. /\ pub[c] \in Seq(Nat) /\ sub[c] \in Seq(Nat) /\ training[c] \in SUBSET Nat
  BY DEF TypeOK
<1>4. Moving(c)' <= Moving(c)
  <2>1. /\ OnPub(c) \in Nat /\ OnSub(c) \in Nat /\ retries[c] \in Nat
        /\ Training(c) \in 0..1
    BY SharesAreNatural DEF NaturalShares
  <2>2. Training(c)' \in 0..1
    BY DEF Training
  <2>3. CASE BroadcastLost(c)
    <3>1. pub'[c] = Tail(pub[c]) /\ pub[c] # << >> /\ UNCHANGED <<sub, training, retries>>
      BY <2>3 DEF BroadcastLost, clientVars, TypeOK
    <3>2. OnPub(c)' = OnPub(c) - 1
      BY <1>3, <3>1, TailLength DEF OnPub
    <3>3. OnSub(c)' = OnSub(c) /\ Training(c)' = Training(c) /\ retries'[c] = retries[c]
      BY <3>1 DEF OnSub, Training
    <3> QED
      BY <2>1, <3>2, <3>3 DEF Moving
  <2>4. CASE ClientReceives(c)
    <3>1. pub'[c] = Tail(pub[c]) /\ pub[c] # << >> /\ UNCHANGED <<sub, retries>>
      BY <2>4 DEF ClientReceives, Client!ModelArrives, TypeOK
    <3>2. OnPub(c)' = OnPub(c) - 1
      BY <1>3, <3>1, TailLength DEF OnPub
    <3>3. OnSub(c)' = OnSub(c) /\ retries'[c] = retries[c]
      BY <3>1 DEF OnSub
    <3> QED
      BY <2>1, <2>2, <3>2, <3>3 DEF Moving
  <2>5. CASE ClientPublishes(c)
    <3>1. PICK sent \in BOOLEAN : Client!TrainingSucceeds(c, sent)
      BY <2>5 DEF ClientPublishes
    <3>2. training[c] # {} /\ training'[c] = {} /\ UNCHANGED <<pub, retries>>
      BY <3>1 DEF Client!TrainingSucceeds, TypeOK
    <3>3. PICK base \in training[c] : sub'[c] = IF sent THEN Append(sub[c], base) ELSE sub[c]
      BY <3>1 DEF Client!TrainingSucceeds, TypeOK
    <3>4. OnSub(c)' = OnSub(c) \/ OnSub(c)' = OnSub(c) + 1
      BY <1>3, <3>3, AppendLength DEF OnSub
    <3>5. OnPub(c)' = OnPub(c) /\ Training(c) = 1 /\ Training(c)' = 0 /\ retries'[c] = retries[c]
      BY <3>2 DEF OnPub, Training
    <3> QED
      BY <2>1, <3>4, <3>5 DEF Moving
  <2>6. CASE ClientFails(c)
    <3>1. /\ training[c] # {} /\ training'[c] = {} /\ retries'[c] = retries[c] + 1
          /\ UNCHANGED <<pub, sub>>
      BY <2>6 DEF ClientFails, Client!TrainingFails, TypeOK
    <3>2. /\ OnPub(c)' = OnPub(c) /\ OnSub(c)' = OnSub(c)
          /\ Training(c) = 1 /\ Training(c)' = 0
      BY <3>1 DEF OnPub, OnSub, Training
    <3> QED
      BY <2>1, <3>1, <3>2 DEF Moving
  <2>7. CASE ClientRetries(c)
    <3>1. retries'[c] = retries[c] - 1 /\ UNCHANGED <<pub, sub>>
      BY <2>7 DEF ClientRetries, Client!RetryTraining, TypeOK
    <3>2. OnPub(c)' = OnPub(c) /\ OnSub(c)' = OnSub(c)
      BY <3>1 DEF OnPub, OnSub
    <3> QED
      BY <2>1, <2>2, <3>1, <3>2 DEF Moving
  <2> QED
    BY <2>3, <2>4, <2>5, <2>6, <2>7 DEF ClientFinishes
<1>5. \A d \in Clients \ {c} : Moving(d)' = Moving(d)
  BY DEF BroadcastLost, ClientReceives, ClientFinishes, ClientPublishes, ClientFails,
         ClientRetries, Client!ModelArrives, Client!TrainingSucceeds, Client!TrainingFails,
         Client!RetryTraining, Client!startTraining, clientVars, TypeOK, Moving, Training,
         OnPub, OnSub
<1>6. \A d \in Clients : Moving(d) \in Nat /\ Moving(d)' \in Nat /\ Filed(d) \in 0..1
  BY SharesAreNatural DEF NaturalShares
<1>7. \A d \in Clients : Filed(d)' = Filed(d)
  BY <1>1 DEF Filed
<1>8. \A d \in Clients : Load(d)' <= Load(d)
  BY <1>4, <1>5, <1>6, <1>7 DEF Load
<1> QED
  BY <1>1, <1>2, <1>8

-----------------------------------------------------------------------------
(* The theorem. *)

\* There are four kinds of steps: the operator repeats a command, the edge
\* broadcasts, the edge aggregates, and those from which nobody gains.
LEMMA KindsOfSteps ==
    ASSUME TypeOK, NaturalShares', Shares, [Next]_vars
    PROVE  /\ RoundsAdd'
           /\ restarts' = 0 => restarts = 0
           /\ \/ Running /\ OperatorStarts
              \/ EdgeRelays
              \/ \E c \in Clients : EdgeAggregates(c)
              \/ NobodyGains
<1>1. NaturalShares
  BY SharesAreNatural
<1>2. Balanced /\ RoundsAdd /\ restarts \in Nat
  BY <1>1 DEF Balanced, NaturalShares, Shares, TypeOK
<1>3. ASSUME UNCHANGED <<remaining, pending, currentStep, totalSteps>>
      PROVE  RoundsAdd'
  BY <1>2, <1>3 DEF RoundsAdd, Running
<1>4. ASSUME UNCHANGED <<mqttVars, edgeVars, clientVars>>, Token' <= Token
      PROVE  NobodyGains
  <2>1. /\ \A c \in Clients : Load(c)' = Load(c)
        /\ DOMAIN roundModels' = DOMAIN roundModels
    BY <1>4 DEF mqttVars, edgeVars, clientVars, Load, Moving, OnPub, OnSub, Training, Filed
  <2> QED
    BY <1>1, <1>4, <2>1 DEF NaturalShares, NobodyGains
<1>5. CASE OperatorStarts
  <2>1. RoundsAdd' /\ Token' = Token + (IF Running THEN 1 ELSE 0)
    BY <1>2, <1>5, StartShares
  <2>2. CASE ~Running
    <3>1. Token' <= Token
      BY <1>1, <2>1, <2>2 DEF NaturalShares
    <3>2. UNCHANGED restarts /\ UNCHANGED <<mqttVars, edgeVars, clientVars>>
      BY <1>5, <2>2 DEF OperatorStarts
    <3> QED
      BY <1>4, <2>1, <3>1, <3>2
  <2>3. restarts' = 0 => restarts = 0
    BY <1>2, <1>5 DEF OperatorStarts
  <2> QED
    BY <1>5, <2>1, <2>2, <2>3
<1>6. CASE CenterSends
  <2>1. RoundsAdd' /\ Token' <= Token
    BY <1>1, <1>2, <1>6, SendsShares DEF NaturalShares
  <2>2. UNCHANGED restarts /\ UNCHANGED <<mqttVars, edgeVars, clientVars>>
    BY <1>6 DEF CenterSends, boundVars
  <2> QED
    BY <1>4, <2>1, <2>2
<1>7. CASE CenterReceives
  <2>1. RoundsAdd' /\ Token' <= Token
    BY <1>1, <1>2, <1>7, ReceivesShares DEF NaturalShares
  <2>2. UNCHANGED restarts /\ UNCHANGED <<mqttVars, edgeVars, clientVars>>
    BY <1>7 DEF CenterReceives, boundVars
  <2> QED
    BY <1>4, <2>1, <2>2
<1>8. CASE EdgeConnects \/ EdgeDisconnects
  <2>1. /\ UNCHANGED restarts /\ UNCHANGED <<mqttVars, edgeVars, clientVars>>
        /\ UNCHANGED <<remaining, pending, currentStep, totalSteps>>
    BY <1>8 DEF EdgeConnects, EdgeDisconnects, Center!EdgeConnects, Center!EdgeDisconnects,
                Center!missionVars, boundVars
  <2>2. OnDown' <= OnDown /\ OnUp' <= OnUp
    <3>1. (down' = down /\ up' = up) \/ (down'[Me] = << >> /\ up'[Me] = << >>)
      BY <1>8 DEF EdgeConnects, EdgeDisconnects, Center!EdgeConnects,
                  Center!EdgeDisconnects, TypeOK, Edges
    <3>2. (OnDown' = OnDown /\ OnUp' = OnUp) \/ (OnDown' = 0 /\ OnUp' = 0)
      BY <3>1 DEF OnDown, OnUp
    <3> QED
      BY <1>1, <3>2 DEF NaturalShares
  <2>3. Startable' = Startable
    BY <2>1 DEF Startable, Running
  <2>4. OnDown' \in Nat /\ OnUp' \in Nat
    BY DEF NaturalShares
  <2>5. Token' <= Token
    BY <1>1, <2>1, <2>2, <2>3, <2>4 DEF NaturalShares, Token
  <2> QED
    BY <1>3, <1>4, <2>1, <2>5
<1>9. CASE EdgeRelays
  BY <1>3, <1>9 DEF EdgeRelays, missionVars, boundVars
<1>10. CASE RoundTimerExpires
  <2>1. UNCHANGED <<missionVars, down, up, pub, sub, clientVars, restarts>>
    BY <1>10 DEF RoundTimerExpires, Edge!RoundTimerExpires, Edge!mqttVars
  <2>2. Token' = Token
    BY <2>1 DEF missionVars, Token, OnDown, OnUp, Startable, Running
  <2>3. \A c \in Clients : Moving(c)' = Moving(c) /\ Filed(c)' = 0
    BY <1>10, <2>1 DEF RoundTimerExpires, Edge!RoundTimerExpires, Edge!NoModels, clientVars,
                       Moving, OnPub, OnSub, Training, Filed
  <2>4. \A c \in Clients : /\ Moving(c) \in Nat
                           /\ Load(c)' = Moving(c) /\ Load(c) = Moving(c) + Filed(c)
    BY <1>1, <2>3 DEF NaturalShares, Load
  <2>5. \A c \in Clients : Load(c)' <= Load(c)
    BY <2>4 DEF Filed
  <2>6. DOMAIN roundModels = Clients => \E c \in Clients : Load(c)' < Load(c)
    BY <2>4, ClientsAssumption DEF Filed
  <2>7. NobodyGains
    BY <1>1, <2>2, <2>5, <2>6 DEF NaturalShares, NobodyGains
  <2> QED
    BY <1>3, <2>1, <2>7 DEF missionVars
<1>11. ASSUME NEW c \in Clients,
              EdgeHolds(c) \/ EdgeFailsToAggregate(c) \/ EdgeFailsToArchive(c)
       PROVE  RoundsAdd' /\ UNCHANGED restarts /\ NobodyGains
  <2>1. /\ Token' = Token
        /\ \A d \in Clients : Load(d)' <= Load(d)
        /\ DOMAIN roundModels' = Clients \/ Load(c)' < Load(c) \/ DOMAIN roundModels # Clients
    BY <1>2, <1>11, TakesOnlyShares
  <2>2. NobodyGains
    BY <1>1, <2>1 DEF NaturalShares, NobodyGains
  <2>3. UNCHANGED <<missionVars, restarts>>
    BY <1>11 DEF EdgeHolds, EdgeFailsToAggregate, EdgeFailsToArchive, boundVars
  <2> QED
    BY <1>3, <2>2, <2>3 DEF missionVars
<1>12. ASSUME NEW c \in Clients, EdgeAggregates(c)
       PROVE  RoundsAdd' /\ UNCHANGED restarts
  BY <1>3, <1>12 DEF EdgeAggregates, missionVars, boundVars
<1>13. ASSUME NEW c \in Clients,
              BroadcastLost(c) \/ ClientReceives(c) \/ ClientFinishes(c) \/ ClientRetries(c)
       PROVE  RoundsAdd' /\ UNCHANGED restarts /\ NobodyGains
  <2>1. /\ Token' = Token
        /\ \A d \in Clients : Load(d)' <= Load(d)
        /\ roundModels' = roundModels
    BY <1>13, ClientShares
  <2>2. NobodyGains
    BY <1>1, <2>1 DEF NaturalShares, NobodyGains
  <2>3. UNCHANGED <<missionVars, restarts>>
    BY <1>13 DEF BroadcastLost, ClientReceives, ClientFinishes, ClientPublishes, ClientFails,
                 ClientRetries
  <2> QED
    BY <1>3, <2>2, <2>3 DEF missionVars
<1>14. CASE UNCHANGED vars
  <2>1. UNCHANGED <<missionVars, mqttVars, edgeVars, clientVars, down, up, restarts>>
    BY <1>14 DEF vars, wireVars, boundVars
  <2>2. Token' = Token
    BY <2>1 DEF missionVars, Token, OnDown, OnUp, Startable, Running
  <2>3. NobodyGains
    BY <1>1, <1>4, <2>1, <2>2 DEF NaturalShares
  <2> QED
    BY <1>3, <2>1, <2>3 DEF missionVars
<1> QED
  BY <1>5, <1>6, <1>7, <1>8, <1>9, <1>10, <1>11, <1>12, <1>13, <1>14
  DEF Next, ClientFinishes

\* Every step keeps the shares, whatever fails on the way.
LEMMA SharesPreserved ==
    ASSUME TypeOK, NaturalShares', Shares, [Next]_vars
    PROVE  Shares'
<1>1. NaturalShares
  BY SharesAreNatural
<1>2. Balanced
  BY <1>1 DEF Balanced, NaturalShares, Shares
<1>3. RoundsAdd'
  BY KindsOfSteps
<1>4. CASE NobodyGains
  <2>1. Balanced'
    BY <1>2, <1>4, BalanceKept DEF NaturalShares
  <2> QED
    BY <1>3, <2>1 DEF Balanced, Shares
<1>5. CASE Running /\ OperatorStarts
  <2>1. Quiet /\ DOMAIN roundModels' = DOMAIN roundModels
    BY <1>5 DEF OperatorStarts, edgeVars
  <2>2. Token' = 1
    <3>1. Token = 0
      BY <1>5, <2>1 DEF Quiet, Token, OnDown, OnUp, Startable
    <3> QED
      BY <1>2, <1>5, <3>1, StartShares DEF Shares
  <2>3. \A c \in Clients : Load(c)' = IF c \in DOMAIN roundModels THEN 1 ELSE 0
    <3>1. \A c \in Clients : OnPub(c)' = 0 /\ OnSub(c)' = 0 /\ Training(c)' = 0
      BY <1>5, <2>1 DEF OperatorStarts, mqttVars, clientVars, Quiet, OnPub, OnSub, Training
    <3>2. \A c \in Clients : retries'[c] = 0
      BY <1>5, <2>1 DEF OperatorStarts, clientVars, Quiet
    <3>3. \A c \in Clients : Moving(c)' = 0
      BY <3>1, <3>2 DEF Moving
    <3> QED
      BY <2>1, <3>3 DEF Load, Filed
  <2>4. TwoAtMost'
    BY <2>2, <2>3 DEF TwoAtMost
  <2>5. CASE \E c \in Clients : c \notin DOMAIN roundModels
    BY <1>3, <2>2, <2>3, <2>4, <2>5 DEF OneWaits, Shares
  <2>6. CASE Clients \subseteq DOMAIN roundModels
    BY <1>3, <2>1, <2>4, <2>6 DEF OneWaits, Shares, TypeOK
  <2> QED
    BY <2>5, <2>6
<1>6. CASE EdgeRelays
  <2>1. /\ Token' = Token - 1
        /\ \A c \in Clients : Load(c)' = Load(c) + 1
        /\ DOMAIN roundModels' = DOMAIN roundModels
    BY <1>6, RelayShares
  <2>2. TwoAtMost' /\ OneWaits'
    BY <1>1, <1>2, <2>1 DEF NaturalShares, Balanced, TwoAtMost, OneWaits
  <2> QED
    BY <1>3, <2>2 DEF Shares
<1>7. CASE \E c \in Clients : EdgeAggregates(c)
  BY <1>2, <1>3, <1>7, AggregateShares DEF Shares
<1> QED
  BY <1>4, <1>5, <1>6, <1>7, KindsOfSteps

\* The inductive invariant holds.
LEMMA SharesHold == Spec => []Shares
<1>1. Init /\ TypeOK => Shares
  <2> SUFFICES ASSUME Init, TypeOK
               PROVE  Shares
    OBVIOUS
  <2>1. ~Running
    BY DEF Init, Center!Init, Running
  <2>2. Token = 1
    BY <2>1 DEF Init, Center!Init, Edges, Token, OnDown, OnUp, Startable
  <2>3. \A c \in Clients : Load(c) = 0
    BY DEF Init, Edge!Init, Client!Init, Edge!NoModels, Load, Moving, OnPub, OnSub,
           Training, Filed
  <2>4. TwoAtMost /\ OneWaits
    BY <2>2, <2>3, ClientsAssumption DEF TwoAtMost, OneWaits
  <2> QED
    BY <2>1, <2>4 DEF Shares, RoundsAdd
<1>2. TypeOK => NaturalShares
  BY SharesAreNatural
<1>3. TypeOK /\ NaturalShares' /\ Shares /\ [Next]_vars => Shares'
  BY SharesPreserved
<1> QED
  BY <1>1, <1>2, <1>3, TypeCorrect, PTL DEF Spec

\* The centre never has two models or sends under way, whatever fails and
\* however often the command is repeated: handleModelReceived never overtakes
\* the send it has queued, with any number of clients.
THEOREM OneModelAtCenterHolds == Spec => []OneModelAtCenter
<1>1. TypeOK /\ Shares => OneModelAtCenter
  <2> SUFFICES ASSUME TypeOK, Shares
               PROVE  OneModelAtCenter
    OBVIOUS
  <2>1. NaturalShares
    BY SharesAreNatural
  <2>2. Token <= 1
    BY <2>1, TokenAtMostOne DEF Balanced, NaturalShares, Shares
  <2>3. pending + OnDown + OnUp <= 1
    BY <2>1, <2>2 DEF NaturalShares, Token
  <2> QED
    BY <2>3 DEF OnDown, OnUp, OneModelAtCenter
<1> QED
  BY <1>1, TypeCorrect, SharesHold, PTL

-----------------------------------------------------------------------------
(* The invariants. *)

\* Until a command is repeated, centre and client share one model.
OneEach == restarts = 0 => \A c \in Clients : Token + Load(c) <= 1

AllAre(q, m) == \A i \in 1..Len(q) : q[i] = m

FreshDown == AllAre(down[Me], lastModel)

FreshClient(c) == /\ AllAre(pub[c], lastModel) /\ AllAre(sub[c], lastModel)
                  /\ training[c] \subseteq {lastModel}
                  /\ training[c] # {} \/ retries[c] > 0 => saved[c] = {lastModel}

FreshRound == \A c \in DOMAIN roundModels : roundModels[c] = lastModel

\* Until then a model under way is the centre's last one wherever it is.
Fresh == restarts = 0 => /\ FreshDown
                         /\ \A c \in Clients : FreshClient(c)
                         /\ FreshRound

\* What is retried has been saved, and without a round nothing is filed.
Kept == /\ \A c \in Clients : training[c] # {} \/ retries[c] > 0 => saved[c] # {}
        /\ ~roundOpen => DOMAIN roundModels = {}

\* The model is with the centre, or each client has its copy and one of them
\* is still to come.
InHand == \/ Token = 1 /\ \A c \in Clients : Load(c) = 0
          \/ /\ Token = 0 /\ \A c \in Clients : Load(c) = 1
             /\ DOMAIN roundModels # Clients

\* Nothing gets out of hand but by a fault.
Unfailed == faults = 0 => InHand /\ (Running => connected = Edges)

-----------------------------------------------------------------------------
(* One model each. *)

\* Each kind of step keeps it: only a repeated command makes a second model,
\* and a broadcast gives the centre's away.
LEMMA OneEachPreserved ==
    ASSUME TypeOK, NaturalShares', Shares, OneEach, [Next]_vars
    PROVE  OneEach'
<1> SUFFICES ASSUME restarts' = 0
             PROVE  \A c \in Clients : Token' + Load(c)' <= 1
  BY DEF OneEach
<1>1. NaturalShares
  BY SharesAreNatural
<1>2. /\ \A c \in Clients : Token + Load(c) <= 1
      /\ restarts = 0
  BY KindsOfSteps DEF OneEach
<1>3. CASE NobodyGains
  BY <1>1, <1>2, <1>3 DEF NaturalShares, NobodyGains
<1>4. CASE Running /\ OperatorStarts
  BY <1>2, <1>4 DEF OperatorStarts
<1>5. CASE EdgeRelays
  BY <1>1, <1>2, <1>5, RelayShares DEF NaturalShares
<1>6. ASSUME NEW c \in Clients, EdgeAggregates(c)
      PROVE  \A d \in Clients : Token' + Load(d)' <= 1
  <2>1. \A d \in Clients : Load(d)' <= Load(d) - 1
    BY <1>1, <1>6, AggregateMoves DEF NaturalShares
  <2>2. Token' <= Token + 1
    BY <1>1, <1>6, AggregateMoves DEF NaturalShares
  <2> QED
    BY <1>1, <1>2, <2>1, <2>2 DEF NaturalShares
<1> QED
  BY <1>3, <1>4, <1>5, <1>6, KindsOfSteps

\* Until a command is repeated the centre and a client share one model.
LEMMA OneEachHolds == Spec => []OneEach
<1>1. Init /\ TypeOK => OneEach
  <2> SUFFICES ASSUME Init, TypeOK
               PROVE  OneEach
    OBVIOUS
  <2>1. ~Running
    BY DEF Init, Center!Init, Running
  <2>2. Token = 1
    BY <2>1 DEF Init, Center!Init, Edges, Token, OnDown, OnUp, Startable
  <2>3. \A c \in Clients : Load(c) = 0
    BY DEF Init, Edge!Init, Client!Init, Edge!NoModels, Load, Moving, OnPub, OnSub,
           Training, Filed
  <2> QED
    BY <2>2, <2>3 DEF OneEach
<1>2. TypeOK => NaturalShares
  BY SharesAreNatural
<1>3. TypeOK /\ NaturalShares' /\ Shares /\ OneEach /\ [Next]_vars => OneEach'
  BY OneEachPreserved
<1> QED
  BY <1>1, <1>2, <1>3, TypeCorrect, SharesHold, PTL DEF Spec

\* Whatever fails, until the operator repeats a command no model reaches a
\* client that is still training or about to retry: startTraining skips none.
THEOREM NoModelSkippedHolds == Spec => []NoModelSkipped
<1>1. TypeOK /\ OneEach => NoModelSkipped
  <2> SUFFICES ASSUME TypeOK, OneEach, restarts = 0, NEW c \in Clients, pub[c] # << >>
               PROVE  training[c] = {} /\ retries[c] = 0
    BY DEF NoModelSkipped
  <2>1. pub[c] \in Seq(Nat)
    BY DEF TypeOK
  <2>2. OnPub(c) > 0
    BY <2>1, TailLength DEF OnPub
  <2>3. Token + Load(c) <= 1
    BY DEF OneEach
  <2>4. Training(c) = 0 /\ retries[c] = 0
    BY <2>2, <2>3, SharesAreNatural, SMTT(30) DEF NaturalShares, Load, Moving
  <2> QED
    BY <2>4 DEF Training
<1> QED
  BY <1>1, TypeCorrect, OneEachHolds, PTL

-----------------------------------------------------------------------------
(* One model for all. *)

\* A queue of one model stays one if that model is added,
LEMMA AllAreAppend ==
    ASSUME NEW q \in Seq(Nat), NEW m \in Nat, AllAre(q, m)
    PROVE  AllAre(Append(q, m), m)
  BY DEF AllAre

\* or the first is taken,
LEMMA AllAreTail ==
    ASSUME NEW q \in Seq(Nat), q # << >>, NEW m \in Nat, AllAre(q, m)
    PROVE  Head(q) = m /\ AllAre(Tail(q), m)
  BY DEF AllAre

\* and an empty queue is one.
LEMMA AllAreEmpty == ASSUME NEW m PROVE AllAre(<< >>, m)
  BY DEF AllAre

\* The centre sends its last model or nothing.
LEMMA FreshlySent ==
    ASSUME TypeOK, FreshDown, NEW left \in 0..MaxRounds, Center!sendNextModel(left, TRUE),
           UNCHANGED lastModel
    PROVE  FreshDown'
<1>1. down[Me] \in Seq(Nat) /\ lastModel \in Nat /\ Me \in Edges
  BY DEF TypeOK, Edges
<1>2. down'[Me] = Append(down[Me], lastModel) \/ down'[Me] = down[Me]
  BY <1>1 DEF Center!sendNextModel, Center!sendModel
<1> QED
  BY <1>1, <1>2, AllAreAppend DEF FreshDown

\* An edge that takes a model of a client adds a current one to the round.
LEMMA FreshlyTaken ==
    ASSUME TypeOK, FreshRound, NEW c \in Clients, FreshClient(c), Edge!TakeModelOf(c)
    PROVE  /\ \A d \in DOMAIN Edge!WithModelOf(c) : Edge!WithModelOf(c)[d] = lastModel
           /\ AllAre(sub'[c], lastModel)
<1>1. sub[c] \in Seq(Nat) /\ sub[c] # << >> /\ lastModel \in Nat
  BY DEF TypeOK, Edge!TakeModelOf
<1>2. Head(sub[c]) = lastModel /\ AllAre(Tail(sub[c]), lastModel)
  BY <1>1, AllAreTail DEF FreshClient
<1>3. sub'[c] = Tail(sub[c])
  BY DEF Edge!TakeModelOf, TypeOK
<1>4. \A d \in DOMAIN Edge!WithModelOf(c) : Edge!WithModelOf(c)[d] = lastModel
  BY <1>2 DEF Edge!WithModelOf, Edge!NoModels, FreshRound
<1> QED
  BY <1>2, <1>3, <1>4

\* Nobody else is concerned by the steps of client c.
LEMMA OthersStayFresh ==
    ASSUME TypeOK, NEW c \in Clients, NEW d \in Clients \ {c}, FreshClient(d),
           UNCHANGED lastModel,
           \/ Edge!TakeModelOf(c) /\ UNCHANGED clientVars
           \/ BroadcastLost(c) \/ ClientReceives(c) \/ ClientFinishes(c) \/ ClientRetries(c)
    PROVE  FreshClient(d)'
<1>1. /\ pub'[d] = pub[d] /\ sub'[d] = sub[d]
      /\ training'[d] = training[d] /\ retries'[d] = retries[d] /\ saved'[d] = saved[d]
  BY DEF Edge!TakeModelOf, BroadcastLost, ClientReceives, ClientFinishes, ClientPublishes,
         ClientFails, ClientRetries, Client!ModelArrives, Client!TrainingSucceeds,
         Client!TrainingFails, Client!RetryTraining, Client!startTraining, clientVars, TypeOK
<1> QED
  BY <1>1 DEF FreshClient

\* What a client does makes no other model of the last one: it saves, trains
\* and publishes what it was sent.
LEMMA FreshClientSteps ==
    ASSUME TypeOK, NEW c \in Clients, FreshClient(c), UNCHANGED lastModel,
           BroadcastLost(c) \/ ClientReceives(c) \/ ClientFinishes(c) \/ ClientRetries(c)
    PROVE  FreshClient(c)'
<1>1. /\ pub[c] \in Seq(Nat) /\ sub[c] \in Seq(Nat) /\ lastModel \in Nat
      /\ training[c] \in SUBSET Nat /\ retries[c] \in Nat /\ saved[c] \in SUBSET Nat
  BY DEF TypeOK
<1>2. CASE BroadcastLost(c)
  <2>1. pub[c] # << >> /\ pub'[c] = Tail(pub[c]) /\ UNCHANGED <<sub, saved, training, retries>>
    BY <1>2 DEF BroadcastLost, clientVars, TypeOK
  <2> QED
    BY <1>1, <2>1, AllAreTail DEF FreshClient
<1>3. CASE ClientReceives(c)
  <2>1. PICK starts \in BOOLEAN : Client!ModelArrives(c, starts)
    BY <1>3 DEF ClientReceives
  <2>2. /\ pub[c] # << >> /\ pub'[c] = Tail(pub[c]) /\ UNCHANGED <<sub, retries>>
        /\ saved'[c] = {Head(pub[c])}
        /\ training'[c] = {Head(pub[c])} \/ training'[c] = training[c]
    BY <2>1 DEF Client!ModelArrives, Client!startTraining, TypeOK
  <2>3. Head(pub[c]) = lastModel /\ AllAre(Tail(pub[c]), lastModel)
    BY <1>1, <2>2, AllAreTail DEF FreshClient
  <2> QED
    BY <2>2, <2>3 DEF FreshClient
<1>4. CASE ClientPublishes(c)
  <2>1. PICK sent \in BOOLEAN : Client!TrainingSucceeds(c, sent)
    BY <1>4 DEF ClientPublishes
  <2>2. training'[c] = {} /\ UNCHANGED <<pub, saved, retries>>
    BY <2>1 DEF Client!TrainingSucceeds, TypeOK
  <2>3. PICK base \in training[c] : sub'[c] = IF sent THEN Append(sub[c], base) ELSE sub[c]
    BY <2>1 DEF Client!TrainingSucceeds, TypeOK
  <2>4. base = lastModel
    BY <2>3 DEF FreshClient
  <2>5. AllAre(sub'[c], lastModel)
    BY <1>1, <2>3, <2>4, AllAreAppend DEF FreshClient
  <2> QED
    BY <2>2, <2>5 DEF FreshClient
<1>5. CASE ClientFails(c)
  <2>1. /\ training[c] # {} /\ training'[c] = {}
        /\ UNCHANGED <<pub, sub, saved>>
    BY <1>5 DEF ClientFails, Client!TrainingFails, TypeOK
  <2> QED
    BY <2>1 DEF FreshClient
<1>6. CASE ClientRetries(c)
  <2>1. /\ retries[c] > 0
        /\ training'[c] = saved[c] \/ training'[c] = training[c]
        /\ UNCHANGED <<pub, sub, saved>>
    BY <1>6 DEF ClientRetries, Client!RetryTraining, Client!startTraining, TypeOK
  <2> QED
    BY <2>1 DEF FreshClient
<1> QED
  BY <1>2, <1>3, <1>4, <1>5, <1>6 DEF ClientFinishes

\* Four numbers that add up to nothing.
LEMMA NoneOfNone ==
    ASSUME NEW i \in Nat, NEW j \in Nat, NEW k \in Nat, NEW l \in Nat, i + j + k + l = 0
    PROVE  i = 0 /\ j = 0 /\ k = 0 /\ l = 0
  OBVIOUS

\* Every step keeps the models under way current, whatever fails.
LEMMA FreshPreserved ==
    ASSUME TypeOK, NaturalShares', Shares, OneEach, Fresh, [Next]_vars
    PROVE  Fresh'
<1> SUFFICES ASSUME restarts' = 0
             PROVE  FreshDown' /\ (\A c \in Clients : FreshClient(c)') /\ FreshRound'
  BY DEF Fresh
<1>1. restarts = 0
  BY KindsOfSteps
<1>2. FreshDown /\ FreshRound /\ \A c \in Clients : FreshClient(c)
  BY <1>1 DEF Fresh
<1>3. ASSUME UNCHANGED <<lastModel, pub, sub, roundModels, saved, training, retries>>
      PROVE  (\A c \in Clients : FreshClient(c)') /\ FreshRound'
  BY <1>2, <1>3 DEF FreshClient, FreshRound
<1>4. ASSUME UNCHANGED <<lastModel, down>>
      PROVE  FreshDown'
  BY <1>2, <1>4 DEF FreshDown
<1>5. CASE OperatorStarts
  <2>1. PICK n \in 1..MaxRounds : Center!StartTrain(n, TRUE)
    BY <1>5 DEF OperatorStarts
  <2>2. Center!sendNextModel(n, TRUE) /\ UNCHANGED lastModel
    BY <2>1, Zenon DEF Center!StartTrain
  <2>3. n \in 0..MaxRounds
    OBVIOUS
  <2>4. FreshDown'
    BY <1>2, <2>2, <2>3, FreshlySent
  <2> QED
    BY <1>3, <1>5, <2>2, <2>4 DEF OperatorStarts, mqttVars, edgeVars, clientVars
<1>6. CASE CenterSends
  <2>1. Center!sendNextModel(remaining, TRUE) /\ UNCHANGED lastModel
    BY <1>6, Zenon DEF CenterSends, Center!SendNextModel
  <2>2. remaining \in 0..MaxRounds
    BY DEF TypeOK
  <2>3. FreshDown'
    BY <1>2, <2>1, <2>2, FreshlySent
  <2> QED
    BY <1>3, <1>6, <2>1, <2>3 DEF CenterSends, mqttVars, edgeVars, clientVars
<1>7. CASE CenterReceives
  <2>1. up[Me] # << >> /\ up[Me] \in Seq(Nat) /\ UNCHANGED down
    BY <1>7 DEF CenterReceives, Center!ModelReceived, Center!ContinueTraining,
                Center!CompleteTraining, TypeOK, Edges
  <2>2. OnUp >= 1
    BY <2>1, TailLength DEF OnUp
  <2>3. /\ OnDown = 0
        /\ \A c \in Clients : OnPub(c) = 0 /\ OnSub(c) = 0 /\ Training(c) = 0
                              /\ retries[c] = 0 /\ Filed(c) = 0
    <3>1. NaturalShares
      BY SharesAreNatural
    <3>2. Token >= 1 + OnDown
      BY <2>2, <3>1 DEF NaturalShares, Token
    <3>3. \A c \in Clients : Token + Load(c) <= 1
      BY <1>1 DEF OneEach
    <3>4. PICK c \in Clients : TRUE
      BY ClientsAssumption
    <3>5. OnDown = 0
      BY <3>1, <3>2, <3>3, <3>4 DEF NaturalShares
    <3>6. \A d \in Clients : Load(d) = 0
      BY <3>1, <3>2, <3>3 DEF NaturalShares
    <3>7. \A d \in Clients : Moving(d) = 0 /\ Filed(d) = 0
      BY <3>1, <3>6 DEF NaturalShares, Load
    <3>8. ASSUME NEW d \in Clients
          PROVE  OnPub(d) = 0 /\ OnSub(d) = 0 /\ Training(d) = 0 /\ retries[d] = 0
      <4>1. OnPub(d) + OnSub(d) + Training(d) + retries[d] = 0
        BY <3>7 DEF Moving
      <4>2. /\ OnPub(d) \in Nat /\ OnSub(d) \in Nat
            /\ Training(d) \in Nat /\ retries[d] \in Nat
        BY <3>1 DEF NaturalShares
      <4> QED
        BY <4>1, <4>2, NoneOfNone
    <3> QED
      BY <3>5, <3>7, <3>8
  <2>4. UNCHANGED <<pub, sub, roundModels, saved, training, retries>>
    BY <1>7 DEF CenterReceives, mqttVars, edgeVars, clientVars
  <2>5. FreshDown'
    BY <2>1, <2>3 DEF FreshDown, AllAre, OnDown
  <2>6. ASSUME NEW c \in Clients
        PROVE  FreshClient(c)'
    <3>1. Len(pub[c]) = 0 /\ Len(sub[c]) = 0 /\ training[c] = {} /\ retries[c] = 0
      BY <2>3 DEF OnPub, OnSub, Training
    <3> QED
      BY <2>4, <3>1 DEF FreshClient, AllAre
  <2>7. DOMAIN roundModels = {}
    <3>1. \A c \in Clients : c \notin DOMAIN roundModels
      BY <2>3 DEF Filed
    <3> QED
      BY <3>1 DEF TypeOK
  <2> QED
    BY <2>4, <2>5, <2>6, <2>7 DEF FreshRound
<1>8. CASE EdgeConnects \/ EdgeDisconnects
  <2>1. UNCHANGED <<lastModel, pub, sub, roundModels, saved, training, retries>>
    BY <1>8 DEF EdgeConnects, EdgeDisconnects, Center!EdgeConnects, Center!EdgeDisconnects,
                Center!missionVars, mqttVars, edgeVars, clientVars
  <2>2. down' = down \/ down'[Me] = << >>
    BY <1>8 DEF EdgeConnects, EdgeDisconnects, Center!EdgeConnects, Center!EdgeDisconnects,
                TypeOK, Edges
  <2>3. FreshDown'
    BY <1>2, <2>1, <2>2, AllAreEmpty DEF FreshDown
  <2> QED
    BY <1>3, <2>1, <2>3
<1>9. CASE EdgeRelays
  <2>1. /\ down[Me] # << >> /\ down[Me] \in Seq(Nat) /\ down'[Me] = Tail(down[Me])
        /\ pub' = [c \in Clients |-> Append(pub[c], Head(down[Me]))]
        /\ UNCHANGED <<lastModel, sub, roundModels, saved, training, retries>>
    BY <1>9 DEF EdgeRelays, Edge!ModelFromCenter, Edge!edgeVars, missionVars, clientVars,
                TypeOK, Edges
  <2>2. lastModel \in Nat /\ \A c \in Clients : pub[c] \in Seq(Nat)
    BY DEF TypeOK
  <2>3. Head(down[Me]) = lastModel /\ FreshDown'
    BY <1>2, <2>1, <2>2, AllAreTail DEF FreshDown
  <2>4. \A c \in Clients : AllAre(pub'[c], lastModel)
    BY <1>2, <2>1, <2>2, <2>3, AllAreAppend DEF FreshClient
  <2> QED
    BY <1>2, <2>1, <2>3, <2>4 DEF FreshClient, FreshRound
<1>10. CASE RoundTimerExpires
  <2>1. /\ UNCHANGED <<lastModel, down, pub, sub, saved, training, retries>>
        /\ roundModels' = Edge!NoModels
    BY <1>10 DEF RoundTimerExpires, Edge!RoundTimerExpires, Edge!mqttVars, missionVars,
                 clientVars
  <2>2. FreshRound'
    BY <2>1 DEF FreshRound, Edge!NoModels
  <2> QED
    BY <1>2, <1>4, <2>1, <2>2 DEF FreshClient
<1>11. ASSUME NEW c \in Clients,
              \/ EdgeHolds(c) \/ EdgeAggregates(c)
              \/ EdgeFailsToAggregate(c) \/ EdgeFailsToArchive(c)
       PROVE  FreshDown' /\ (\A d \in Clients : FreshClient(d)') /\ FreshRound'
  <2>1. /\ Edge!TakeModelOf(c)
        /\ roundModels' = Edge!WithModelOf(c) \/ roundModels' = Edge!NoModels
        /\ UNCHANGED <<lastModel, saved, training, retries>>
    BY <1>11 DEF EdgeHolds, EdgeAggregates, EdgeFailsToAggregate, EdgeFailsToArchive,
                 Edge!HoldModel, Edge!Aggregate, Edge!AggregationFails, Edge!ArchivingFails,
                 missionVars, clientVars
  <2>2. /\ \A d \in DOMAIN Edge!WithModelOf(c) : Edge!WithModelOf(c)[d] = lastModel
        /\ AllAre(sub'[c], lastModel)
    BY <1>2, <2>1, FreshlyTaken
  <2>3. FreshRound'
    BY <2>1, <2>2 DEF FreshRound, Edge!NoModels
  <2>4. UNCHANGED <<down, pub>>
    BY <2>1 DEF Edge!TakeModelOf
  <2>5. FreshClient(c)'
    BY <1>2, <2>1, <2>2, <2>4 DEF FreshClient
  <2>6. \A d \in Clients \ {c} : FreshClient(d)'
    BY <1>2, <2>1, OthersStayFresh DEF clientVars
  <2> QED
    BY <1>4, <2>1, <2>3, <2>4, <2>5, <2>6
<1>12. ASSUME NEW c \in Clients,
              BroadcastLost(c) \/ ClientReceives(c) \/ ClientFinishes(c) \/ ClientRetries(c)
       PROVE  FreshDown' /\ (\A d \in Clients : FreshClient(d)') /\ FreshRound'
  <2>1. UNCHANGED <<lastModel, down, roundModels>>
    BY <1>12 DEF BroadcastLost, ClientReceives, ClientFinishes, ClientPublishes, ClientFails,
                 ClientRetries, missionVars, wireVars, edgeVars
  <2>2. FreshClient(c)'
    BY <1>2, <1>12, <2>1, FreshClientSteps
  <2>3. \A d \in Clients \ {c} : FreshClient(d)'
    BY <1>2, <1>12, <2>1, OthersStayFresh
  <2>4. FreshRound'
    BY <1>2, <2>1 DEF FreshRound
  <2> QED
    BY <1>4, <2>1, <2>2, <2>3, <2>4
<1>13. CASE UNCHANGED vars
  <2>1. UNCHANGED <<lastModel, down, pub, sub, roundModels, saved, training, retries>>
    BY <1>13 DEF vars, missionVars, wireVars, mqttVars, edgeVars, clientVars
  <2> QED
    BY <1>3, <1>4, <2>1
<1> QED
  BY <1>5, <1>6, <1>7, <1>8, <1>9, <1>10, <1>11, <1>12, <1>13 DEF Next, ClientFinishes

\* Until a command is repeated every model under way is the centre's last one.
LEMMA FreshHolds == Spec => []Fresh
<1>1. Init => Fresh
  <2> SUFFICES ASSUME Init
               PROVE  Fresh
    OBVIOUS
  <2>1. FreshDown
    BY AllAreEmpty DEF Init, Center!Init, Edges, FreshDown
  <2>2. ASSUME NEW c \in Clients
        PROVE  FreshClient(c)
    <3>1. pub[c] = << >> /\ sub[c] = << >>
      BY DEF Init, Edge!Init
    <3>2. training[c] = {} /\ retries[c] = 0
      BY DEF Init, Client!Init
    <3> QED
      BY <3>1, <3>2, AllAreEmpty DEF FreshClient
  <2>3. FreshRound
    BY DEF Init, Edge!Init, Edge!NoModels, FreshRound
  <2> QED
    BY <2>1, <2>2, <2>3 DEF Fresh
<1>2. TypeOK => NaturalShares
  BY SharesAreNatural
<1>3. TypeOK /\ NaturalShares' /\ Shares /\ OneEach /\ Fresh /\ [Next]_vars => Fresh'
  BY FreshPreserved
<1> QED
  BY <1>1, <1>2, <1>3, TypeCorrect, SharesHold, OneEachHolds, PTL DEF Spec

\* An aggregate made of such models has only current parts.
LEMMA AggregateIsCurrent ==
    ASSUME TypeOK, Fresh, restarts = 0, NEW c \in Clients, EdgeAggregates(c)
    PROVE  aggregated' = [d \in Clients |-> lastModel]
<1>1. /\ Edge!TakeModelOf(c) /\ DOMAIN Edge!WithModelOf(c) = Clients
      /\ aggregated' = Edge!WithModelOf(c)
  BY DEF EdgeAggregates, Edge!Aggregate, Edge!Complete
<1>2. \A d \in DOMAIN Edge!WithModelOf(c) : Edge!WithModelOf(c)[d] = lastModel
  BY <1>1, FreshlyTaken DEF Fresh
<1>3. Edge!WithModelOf(c) = [d \in DOMAIN Edge!WithModelOf(c) |-> Edge!WithModelOf(c)[d]]
  BY DEF Edge!WithModelOf
<1> QED
  BY <1>1, <1>2, <1>3

\* Whatever fails, until the operator repeats a command every part of an
\* aggregate was trained from the model the centre has sent last: a round never
\* takes in what checkRoundCompletion or the timer left of another one.
THEOREM AggregatesCurrentModelHolds == Spec => AggregatesCurrentModel
<1>1. TypeOK /\ Fresh /\ [Next]_vars
      => [RoundCompletes /\ restarts = 0 => aggregated' = [c \in Clients |-> lastModel]]_vars
  BY AggregateIsCurrent DEF RoundCompletes
<1> QED
  BY <1>1, FreshHolds, TypeCorrect, PTL DEF Spec, AggregatesCurrentModel

-----------------------------------------------------------------------------
(* No stall without a fault. *)

\* A retry has a model to train, and a closed round none.
LEMMA KeptHolds == Spec => []Kept
<1>1. Init => Kept
  BY DEF Init, Edge!Init, Client!Init, Edge!NoModels, Kept
<1>2. TypeOK /\ Kept /\ [Next]_vars => Kept'
  <2> SUFFICES ASSUME TypeOK, Kept, [Next]_vars
               PROVE  Kept'
    OBVIOUS
  <2>1. ASSUME UNCHANGED <<edgeVars, clientVars>>
        PROVE  Kept'
    BY <2>1 DEF edgeVars, clientVars, Kept
  <2>2. CASE \/ OperatorStarts \/ CenterSends \/ CenterReceives
             \/ EdgeConnects \/ EdgeDisconnects \/ EdgeRelays \/ UNCHANGED vars
    BY <2>1, <2>2 DEF OperatorStarts, CenterSends, CenterReceives, EdgeConnects,
                      EdgeDisconnects, EdgeRelays, Edge!ModelFromCenter, Edge!edgeVars,
                      edgeVars, vars
  <2>3. CASE RoundTimerExpires
    BY <2>3 DEF RoundTimerExpires, Edge!RoundTimerExpires, Edge!NoModels, clientVars, Kept
  <2>4. ASSUME NEW c \in Clients,
               \/ EdgeHolds(c) \/ EdgeAggregates(c)
               \/ EdgeFailsToAggregate(c) \/ EdgeFailsToArchive(c)
        PROVE  Kept'
    <3>1. roundOpen' = TRUE /\ UNCHANGED clientVars
      BY <2>4 DEF EdgeHolds, EdgeAggregates, EdgeFailsToAggregate, EdgeFailsToArchive,
                  Edge!HoldModel, Edge!Aggregate, Edge!AggregationFails, Edge!ArchivingFails,
                  Edge!TakeModelOf
    <3> QED
      BY <3>1 DEF clientVars, Kept
  <2>5. ASSUME NEW c \in Clients, BroadcastLost(c)
        PROVE  Kept'
    BY <2>1, <2>5 DEF BroadcastLost
  <2>6. ASSUME NEW c \in Clients, ClientReceives(c)
        PROVE  Kept'
    <3>1. PICK starts \in BOOLEAN : Client!ModelArrives(c, starts)
      BY <2>6 DEF ClientReceives
    <3>2. saved' = [saved EXCEPT ![c] = {Head(pub[c])}] /\ UNCHANGED <<retries, edgeVars>>
      BY <2>6, <3>1 DEF ClientReceives, Client!ModelArrives
    <3>3. \A d \in Clients \ {c} : training'[d] = training[d]
      BY <3>1 DEF Client!ModelArrives, Client!startTraining, TypeOK
    <3> QED
      BY <3>2, <3>3 DEF Kept, edgeVars, TypeOK
  <2>7. ASSUME NEW c \in Clients, ClientFinishes(c) \/ ClientRetries(c)
        PROVE  Kept'
    <3>1. /\ UNCHANGED <<saved, edgeVars>>
          /\ \A d \in Clients \ {c} : training'[d] = training[d] /\ retries'[d] = retries[d]
          /\ training[c] # {} \/ retries[c] > 0
      BY <2>7 DEF ClientFinishes, ClientPublishes, ClientFails, ClientRetries,
                  Client!TrainingSucceeds, Client!TrainingFails, Client!RetryTraining,
                  Client!startTraining, TypeOK
    <3> QED
      BY <3>1 DEF Kept, edgeVars
  <2> QED
    BY <2>2, <2>3, <2>4, <2>5, <2>6, <2>7 DEF Next, ClientFinishes
<1> QED
  BY <1>1, <1>2, TypeCorrect, PTL DEF Spec

\* What client c does changes nobody else's load.
LEMMA ClientsApart ==
    ASSUME TypeOK, NEW c \in Clients,
           ClientReceives(c) \/ ClientFinishes(c) \/ ClientRetries(c)
    PROVE  \A d \in Clients \ {c} : Load(d)' = Load(d)
<1>1. \A d \in Clients \ {c} : /\ pub'[d] = pub[d] /\ sub'[d] = sub[d]
                              /\ training'[d] = training[d] /\ retries'[d] = retries[d]
  BY DEF ClientReceives, ClientFinishes, ClientPublishes, ClientFails, ClientRetries,
         Client!ModelArrives, Client!TrainingSucceeds, Client!TrainingFails,
         Client!RetryTraining, Client!startTraining, TypeOK
<1>2. UNCHANGED roundModels
  BY DEF ClientReceives, ClientFinishes, ClientPublishes, ClientFails, ClientRetries, edgeVars
<1> QED
  BY <1>1, <1>2 DEF Load, Moving, OnPub, OnSub, Training, Filed

\* Without a fault a client with one model keeps one, whatever it does.
LEMMA ClientKeepsModel ==
    ASSUME TypeOK, NaturalShares', Kept, NEW c \in Clients, Load(c) = 1,
           ClientReceives(c) \/ ClientFinishes(c) \/ ClientRetries(c), faults' = faults
    PROVE  \A d \in Clients : Load(d)' = Load(d)
<1>1. NaturalShares /\ faults \in Nat
  BY SharesAreNatural DEF TypeOK
<1>2. UNCHANGED roundModels
  BY DEF ClientReceives, ClientFinishes, ClientPublishes, ClientFails, ClientRetries, edgeVars
<1>3. \A d \in Clients : Filed(d)' = Filed(d)
  BY <1>2 DEF Filed
<1>4. ~Fault("start") /\ ~Fault("upload")
  BY <1>1 DEF Fault
<1>5. /\ pub[c] \in Seq(Nat) /\ sub[c] \in Seq(Nat)
      /\ training[c] \in SUBSET Nat /\ saved[c] \in SUBSET Nat
      /\ OnPub(c) \in Nat /\ OnSub(c) \in Nat /\ retries[c] \in Nat
      /\ Training(c) \in 0..1 /\ Filed(c) \in 0..1
  BY <1>1 DEF TypeOK, NaturalShares
<1>6. OnPub(c) + OnSub(c) + Training(c) + retries[c] <= 1
  BY <1>1, <1>5 DEF Load, Moving
<1>7. CASE ClientReceives(c)
  <2>1. Client!ModelArrives(c, TRUE)
    BY <1>4, <1>7 DEF ClientReceives, FineOr
  <2>2. pub[c] # << >> /\ pub'[c] = Tail(pub[c]) /\ UNCHANGED <<sub, retries>>
    BY <2>1 DEF Client!ModelArrives, TypeOK
  <2>3. OnPub(c) >= 1 /\ OnPub(c)' = OnPub(c) - 1 /\ OnSub(c)' = OnSub(c)
    BY <1>5, <2>2, TailLength DEF OnPub, OnSub
  <2>4. Training(c) = 0
    BY <1>5, <1>6, <2>3
  <2>5. training'[c] = {Head(pub[c])}
    BY <2>1, <2>4 DEF Client!ModelArrives, Client!startTraining, Training, TypeOK
  <2>6. Training(c)' = 1
    BY <2>5 DEF Training
  <2> QED
    BY <1>3, <1>5, <2>2, <2>3, <2>4, <2>6, ClientsApart DEF Load, Moving
<1>8. CASE ClientPublishes(c)
  <2>1. Client!TrainingSucceeds(c, TRUE)
    BY <1>4, <1>8 DEF ClientPublishes, FineOr
  <2>2. training[c] # {} /\ training'[c] = {} /\ UNCHANGED <<pub, retries>>
    BY <2>1 DEF Client!TrainingSucceeds, TypeOK
  <2>3. PICK base \in training[c] : sub'[c] = Append(sub[c], base)
    BY <2>1 DEF Client!TrainingSucceeds, TypeOK
  <2>4. OnSub(c)' = OnSub(c) + 1 /\ OnPub(c)' = OnPub(c)
    BY <1>5, <2>2, <2>3, AppendLength DEF OnSub, OnPub
  <2>5. Training(c) = 1 /\ Training(c)' = 0
    BY <2>2 DEF Training
  <2> QED
    BY <1>3, <1>5, <2>2, <2>4, <2>5, ClientsApart DEF Load, Moving
<1>9. CASE ClientFails(c)
  <2>1. /\ training[c] # {} /\ training'[c] = {} /\ retries'[c] = retries[c] + 1
        /\ UNCHANGED <<pub, sub>>
    BY <1>9 DEF ClientFails, Client!TrainingFails, TypeOK
  <2>2. /\ OnPub(c)' = OnPub(c) /\ OnSub(c)' = OnSub(c)
        /\ Training(c) = 1 /\ Training(c)' = 0
    BY <2>1 DEF OnPub, OnSub, Training
  <2> QED
    BY <1>3, <1>5, <2>1, <2>2, ClientsApart DEF Load, Moving
<1>10. CASE ClientRetries(c)
  <2>1. Client!RetryTraining(c, TRUE)
    BY <1>4, <1>10 DEF ClientRetries, FineOr
  <2>2. retries[c] > 0 /\ retries'[c] = retries[c] - 1 /\ UNCHANGED <<pub, sub>>
    BY <2>1 DEF Client!RetryTraining, TypeOK
  <2>3. Training(c) = 0
    BY <1>5, <1>6, <2>2
  <2>4. training'[c] = saved[c] /\ saved[c] # {}
    BY <2>1, <2>2, <2>3 DEF Client!RetryTraining, Client!startTraining, Training, TypeOK, Kept
  <2>5. OnPub(c)' = OnPub(c) /\ OnSub(c)' = OnSub(c) /\ Training(c)' = 1
    BY <2>2, <2>4 DEF OnPub, OnSub, Training
  <2> QED
    BY <1>3, <1>5, <2>2, <2>3, <2>5, ClientsApart DEF Load, Moving
<1> QED
  BY <1>7, <1>8, <1>9, <1>10 DEF ClientFinishes

\* Nothing is taken back from a count of faults.
LEMMA FaultsStay ==
    ASSUME TypeOK, [Next]_vars, faults' = 0
    PROVE  faults = 0 /\ \A kind : ~Fault(kind)
<1>1. faults \in Nat
  BY DEF TypeOK
<1>2. \A kind : ~Fault(kind)
  BY <1>1 DEF Fault
<1>3. UNCHANGED faults
  BY <1>2 DEF Next, OperatorStarts, CenterSends, CenterReceives, EdgeConnects,
     EdgeDisconnects, EdgeRelays, RoundTimerExpires, EdgeHolds, EdgeAggregates,
     EdgeFailsToAggregate, EdgeFailsToArchive, BroadcastLost, ClientReceives,
     ClientPublishes, ClientFails, ClientRetries, FineOr, vars, boundVars
<1> QED
  BY <1>2, <1>3

\* Without a fault every step leaves the model where it belongs.
LEMMA UnfailedPreserved ==
    ASSUME TypeOK, NaturalShares', Shares, Kept, Unfailed, [Next]_vars
    PROVE  Unfailed'
<1> SUFFICES ASSUME faults' = 0
             PROVE  InHand' /\ (Running' => connected' = Edges)
  BY DEF Unfailed
<1>1. NaturalShares /\ Balanced /\ RoundsAdd
  BY SharesAreNatural DEF NaturalShares, Balanced, Shares
<1>2. faults = 0 /\ \A kind : ~Fault(kind)
  BY FaultsStay
<1>3. InHand /\ (Running => connected = Edges)
  BY <1>2 DEF Unfailed
<1>4. Token >= 1 => Token = 1 /\ \A c \in Clients : Load(c) = 0
  BY <1>3 DEF InHand
<1>5. ASSUME NEW c \in Clients, Moving(c) >= 1
      PROVE  /\ Token = 0 /\ \A d \in Clients : Load(d) = 1
             /\ c \notin DOMAIN roundModels /\ DOMAIN roundModels # Clients
             /\ Running
  <2>1. Token = 0 /\ (\A d \in Clients : Load(d) = 1) /\ DOMAIN roundModels # Clients
    BY <1>1, <1>3, <1>5 DEF InHand, NaturalShares, Load
  <2>2. Filed(c) = 0
    BY <1>1, <1>5, <2>1 DEF NaturalShares, Load
  <2>3. Startable = 0
    BY <1>1, <2>1 DEF NaturalShares, Token
  <2> QED
    BY <2>1, <2>2, <2>3 DEF Filed, Startable
<1>6. ASSUME UNCHANGED <<currentStep, totalSteps, connected>>
      PROVE  Running' => connected' = Edges
  BY <1>3, <1>6 DEF Running
<1>7. ASSUME UNCHANGED <<mqttVars, edgeVars, clientVars>>, Token' = Token
      PROVE  InHand'
  <2>1. /\ \A c \in Clients : Load(c)' = Load(c)
        /\ DOMAIN roundModels' = DOMAIN roundModels
    BY <1>7 DEF mqttVars, edgeVars, clientVars, Load, Moving, OnPub, OnSub, Training, Filed
  <2> QED
    BY <1>3, <1>7, <2>1 DEF InHand
<1>8. CASE OperatorStarts
  <2>1. connected' = Edges
    BY <1>8 DEF OperatorStarts, Center!StartTrain
  <2>2. ~Running
    <3> SUFFICES ASSUME Running
                 PROVE  FALSE
      OBVIOUS
    <3>1. Quiet
      BY <1>8 DEF OperatorStarts
    <3>2. Token = 0
      BY <3>1 DEF Quiet, Token, OnDown, OnUp, Startable
    <3>3. \A c \in Clients : Load(c) = 1
      BY <1>3, <3>2 DEF InHand
    <3>4. \A c \in Clients : OnPub(c) = 0 /\ OnSub(c) = 0 /\ Training(c) = 0
      BY <3>1 DEF Quiet, OnPub, OnSub, Training
    <3>5. \A c \in Clients : retries[c] = 0
      BY <3>1 DEF Quiet
    <3>6. \A c \in Clients : Filed(c) = 1
      BY <1>1, <3>3, <3>4, <3>5 DEF Load, Moving, NaturalShares
    <3>7. Clients \subseteq DOMAIN roundModels
      BY <3>6 DEF Filed
    <3>8. DOMAIN roundModels \subseteq Clients
      BY DEF TypeOK
    <3>9. ~(Token = 1)
      BY <3>2
    <3>10. DOMAIN roundModels # Clients
      BY <1>3, <3>9 DEF InHand
    <3> QED
      BY <3>7, <3>8, <3>10
  <2>3. Token' = Token
    BY <1>1, <1>8, <2>2, StartShares DEF NaturalShares
  <2> QED
    BY <1>7, <1>8, <2>1, <2>3 DEF OperatorStarts
<1>9. CASE CenterSends
  <2>1. pending >= 1
    BY <1>1, <1>9 DEF CenterSends, Center!SendNextModel, NaturalShares
  <2>2. Running
    BY <1>1, <1>4, <2>1 DEF NaturalShares, Token, Startable
  <2>3. Me \in connected
    BY <1>3, <2>2 DEF Edges
  <2>4. Token' = Token
    BY <1>1, <1>9, <2>3, SendsShares
  <2>5. UNCHANGED <<currentStep, totalSteps, connected>>
    BY <1>9 DEF CenterSends, Center!SendNextModel
  <2> QED
    BY <1>6, <1>7, <1>9, <2>4, <2>5 DEF CenterSends
<1>10. CASE CenterReceives
  <2>1. up[Me] # << >> /\ up[Me] \in Seq(Nat) /\ UNCHANGED connected
    BY <1>10 DEF CenterReceives, Center!ModelReceived, Center!ContinueTraining,
                 Center!CompleteTraining, TypeOK, Edges
  <2>2. OnUp >= 1
    BY <2>1, TailLength DEF OnUp
  <2>3. Running
    BY <1>1, <1>4, <2>2 DEF NaturalShares, Token, Startable
  <2>4. Token' = Token
    BY <1>1, <1>10, ReceivesShares
  <2> QED
    BY <1>3, <1>7, <1>10, <2>1, <2>3, <2>4 DEF CenterReceives
<1>11. CASE EdgeConnects
  <2>1. /\ UNCHANGED <<missionVars, down, up>> /\ UNCHANGED <<mqttVars, edgeVars, clientVars>>
        /\ connected' = connected \cup {Me}
    BY <1>11 DEF EdgeConnects, Center!EdgeConnects, Center!missionVars, missionVars
  <2>2. Token' = Token
    BY <2>1 DEF missionVars, Token, OnDown, OnUp, Startable, Running
  <2>3. Running' => connected' = Edges
    BY <1>3, <2>1 DEF missionVars, Running, Edges
  <2> QED
    BY <1>7, <2>1, <2>2, <2>3
<1>12. CASE EdgeRelays
  <2>1. /\ Token >= 1 /\ Token' = Token - 1
        /\ \A c \in Clients : Load(c)' = Load(c) + 1
        /\ DOMAIN roundModels' = DOMAIN roundModels
    BY <1>12, RelayShares
  <2>2. Token' = 0 /\ \A c \in Clients : Load(c)' = 1
    BY <1>4, <2>1
  <2>3. PICK c \in Clients : TRUE
    BY ClientsAssumption
  <2>4. Filed(c) = 0
    BY <1>1, <1>4, <2>1, <2>3 DEF NaturalShares, Load
  <2>5. DOMAIN roundModels' # Clients
    BY <2>1, <2>3, <2>4 DEF Filed
  <2>6. UNCHANGED <<currentStep, totalSteps, connected>>
    BY <1>12 DEF EdgeRelays, Edge!ModelFromCenter, missionVars
  <2> QED
    BY <1>6, <2>2, <2>5, <2>6 DEF InHand
<1>13. ASSUME NEW c \in Clients, EdgeHolds(c)
       PROVE  InHand' /\ (Running' => connected' = Edges)
  <2>1. /\ Edge!TakeModelOf(c) /\ DOMAIN Edge!WithModelOf(c) # Clients
        /\ roundModels' = Edge!WithModelOf(c)
        /\ UNCHANGED <<up, pending, currentStep, totalSteps, training, retries>>
    BY <1>13 DEF EdgeHolds, Edge!HoldModel, Edge!Complete, missionVars, clientVars
  <2>2. /\ Moving(c)' = Moving(c) - 1
        /\ \A d \in Clients \ {c} : Moving(d)' = Moving(d)
        /\ UNCHANGED <<down, connected>>
    BY <2>1, TakeModelShares
  <2>3. Moving(c) >= 1
    BY <1>1, <2>2 DEF NaturalShares
  <2>4. DOMAIN Edge!WithModelOf(c) = DOMAIN roundModels \cup {c}
    BY DEF Edge!WithModelOf, Edge!NoModels, Kept
  <2>5. /\ Filed(c) = 0 /\ Filed(c)' = 1
        /\ \A d \in Clients \ {c} : Filed(d)' = Filed(d)
    BY <1>5, <2>1, <2>3, <2>4 DEF Filed
  <2>6. \A d \in Clients : Load(d)' = Load(d)
    BY <1>1, <2>2, <2>5 DEF NaturalShares, Load
  <2>7. Token' = Token
    BY <2>1, <2>2 DEF Token, OnDown, OnUp, Startable, Running
  <2> QED
    BY <1>5, <1>6, <2>1, <2>2, <2>3, <2>6, <2>7 DEF InHand
<1>14. ASSUME NEW c \in Clients, EdgeAggregates(c)
       PROVE  InHand' /\ (Running' => connected' = Edges)
  <2>1. Edge!TakeModelOf(c) /\ UNCHANGED <<training, retries, currentStep, totalSteps>>
    BY <1>14 DEF EdgeAggregates, Edge!Aggregate, missionVars, clientVars
  <2>2. Moving(c) >= 1
    BY <1>1, <2>1, TakeModelShares DEF NaturalShares
  <2>3. Me \in connected /\ c \notin DOMAIN roundModels
    BY <1>3, <1>5, <2>2 DEF Edges
  <2>4. Token = 0 /\ \A d \in Clients : Load(d) = 1
    BY <1>5, <2>2
  <2>5. Token' = 1 /\ \A d \in Clients : Load(d)' = 0
    BY <1>14, <2>3, <2>4, AggregateMoves
  <2>6. UNCHANGED connected
    BY <2>1 DEF Edge!TakeModelOf
  <2> QED
    BY <1>6, <2>1, <2>5, <2>6 DEF InHand
<1>15. ASSUME NEW c \in Clients,
              ClientReceives(c) \/ ClientFinishes(c) \/ ClientRetries(c)
       PROVE  InHand' /\ (Running' => connected' = Edges)
  <2>1. /\ Token' = Token /\ UNCHANGED <<roundModels, currentStep, totalSteps, connected>>
    BY <1>15, ClientShares DEF ClientReceives, ClientFinishes, ClientPublishes, ClientFails,
                               ClientRetries, missionVars, wireVars
  <2>2. Moving(c) >= 1
    <3>1. pub[c] \in Seq(Nat) /\ (pub[c] # << >> \/ training[c] # {} \/ retries[c] > 0)
      BY <1>15 DEF ClientReceives, ClientFinishes, ClientPublishes, ClientFails,
                   ClientRetries, Client!ModelArrives, Client!TrainingSucceeds,
                   Client!TrainingFails, Client!RetryTraining, TypeOK
    <3>2. OnPub(c) >= 1 \/ Training(c) = 1 \/ retries[c] >= 1
      BY <1>1, <3>1, TailLength DEF OnPub, Training, NaturalShares
    <3> QED
      BY <1>1, <3>2 DEF Moving, NaturalShares
  <2>3. /\ Token = 0 /\ \A d \in Clients : Load(d) = 1
        /\ DOMAIN roundModels # Clients
    BY <1>5, <2>2
  <2>4. \A d \in Clients : Load(d)' = Load(d)
    BY <1>2, <1>15, <2>3, ClientKeepsModel
  <2> QED
    BY <1>6, <2>1, <2>3, <2>4 DEF InHand
<1>16. CASE UNCHANGED vars
  <2>1. /\ UNCHANGED <<missionVars, wireVars>> /\ UNCHANGED <<mqttVars, edgeVars, clientVars>>
    BY <1>16 DEF vars
  <2>2. Token' = Token
    BY <2>1 DEF missionVars, wireVars, Token, OnDown, OnUp, Startable, Running
  <2>3. UNCHANGED <<currentStep, totalSteps, connected>>
    BY <2>1 DEF missionVars, wireVars
  <2> QED
    BY <1>6, <1>7, <2>1, <2>2, <2>3
<1>17. /\ ~EdgeDisconnects /\ ~RoundTimerExpires
       /\ \A c \in Clients : /\ ~EdgeFailsToAggregate(c) /\ ~EdgeFailsToArchive(c)
                             /\ ~BroadcastLost(c)
  BY <1>2 DEF EdgeDisconnects, RoundTimerExpires, EdgeFailsToAggregate, EdgeFailsToArchive,
              BroadcastLost
<1> QED
  BY <1>8, <1>9, <1>10, <1>11, <1>12, <1>13, <1>14, <1>15, <1>16, <1>17
  DEF Next, ClientFinishes

\* As long as nothing has failed the model is in hand.
LEMMA UnfailedHolds == Spec => []Unfailed
<1>1. Init /\ TypeOK => Unfailed
  <2> SUFFICES ASSUME Init, TypeOK
               PROVE  Unfailed
    OBVIOUS
  <2>1. ~Running
    BY DEF Init, Center!Init, Running
  <2>2. Token = 1
    BY <2>1 DEF Init, Center!Init, Edges, Token, OnDown, OnUp, Startable
  <2>3. \A c \in Clients : Load(c) = 0
    BY DEF Init, Edge!Init, Client!Init, Edge!NoModels, Load, Moving, OnPub, OnSub,
           Training, Filed
  <2> QED
    BY <2>1, <2>2, <2>3 DEF Unfailed, InHand
<1>2. TypeOK => NaturalShares
  BY SharesAreNatural
<1>3. TypeOK /\ NaturalShares' /\ Shares /\ Kept /\ Unfailed /\ [Next]_vars => Unfailed'
  BY UnfailedPreserved
<1> QED
  BY <1>1, <1>2, <1>3, TypeCorrect, SharesHold, KeptHolds, PTL DEF Spec

\* A training stands still only after a fault: as long as none has happened a
\* model is always on its way, and training processes that fail are retried.
THEOREM NoSilentStallHolds == Spec => []NoSilentStall
<1>1. TypeOK /\ Unfailed => NoSilentStall
  <2> SUFFICES ASSUME TypeOK, Unfailed, Running, Quiet, faults = 0
               PROVE  FALSE
    BY DEF NoSilentStall, TypeOK
  <2>1. NaturalShares
    BY SharesAreNatural
  <2>2. Token = 0
    BY DEF Quiet, Token, OnDown, OnUp, Startable
  <2>3. (\A c \in Clients : Load(c) = 1) /\ DOMAIN roundModels # Clients
    BY <2>2 DEF Unfailed, InHand
  <2>4. \A c \in Clients : OnPub(c) = 0 /\ OnSub(c) = 0 /\ Training(c) = 0
    BY DEF Quiet, OnPub, OnSub, Training
  <2>5. \A c \in Clients : retries[c] = 0
    BY DEF Quiet
  <2>6. \A c \in Clients : Filed(c) = 1
    BY <2>1, <2>3, <2>4, <2>5 DEF Load, Moving, NaturalShares
  <2>7. Clients \subseteq DOMAIN roundModels
    BY <2>6 DEF Filed
  <2> QED
    BY <2>3, <2>7 DEF TypeOK
<1> QED
  BY <1>1, TypeCorrect, UnfailedHolds, PTL

-----------------------------------------------------------------------------
(* One current model in each aggregate. *)

\* Nothing of client c under way, its filed model included, is outdated.
Current(c) == FreshClient(c) /\ (c \in DOMAIN roundModels => roundModels[c] = lastModel)

\* However often a command was repeated, the client that keeps a second aggregate
\* from being made has nothing outdated; if instead a failed round is complete,
\* whichever model comes next is current.
OneFresh == \/ \E c \in Clients : Token + Load(c) <= 1 /\ Current(c)
            \/ /\ DOMAIN roundModels = Clients
               /\ \A c \in Clients : Token + Moving(c) <= 1 /\ FreshClient(c)

\* A step after which no client is the worse for it, and which adds to a round
\* that is complete or ends it.
StaysFresh ==
    /\ \A c \in Clients : /\ FreshClient(c) => FreshClient(c)'
                          /\ Current(c) => Current(c)'
    /\ DOMAIN roundModels = Clients => DOMAIN roundModels' = Clients \/ DOMAIN roundModels' = {}

\* While the centre has its share it has no outdated model on the wire, and
\* handleModelReceived, which changes the last model, finds the wire empty.
LEMMA FreshDownKept ==
    ASSUME TypeOK, Shares, FreshDown, [Next]_vars
    PROVE  FreshDown'
<1>1. NaturalShares /\ Balanced
  BY SharesAreNatural DEF NaturalShares, Balanced, Shares
<1>2. ASSUME UNCHANGED <<lastModel, down>>
      PROVE  FreshDown'
  BY <1>2 DEF FreshDown
<1>3. CASE OperatorStarts
  <2>1. PICK n \in 1..MaxRounds : Center!StartTrain(n, TRUE)
    BY <1>3 DEF OperatorStarts
  <2>2. Center!sendNextModel(n, TRUE) /\ UNCHANGED lastModel
    BY <2>1, Zenon DEF Center!StartTrain
  <2>3. n \in 0..MaxRounds
    OBVIOUS
  <2> QED
    BY <2>2, <2>3, FreshlySent
<1>4. CASE CenterSends
  <2>1. Center!sendNextModel(remaining, TRUE) /\ UNCHANGED lastModel
    BY <1>4, Zenon DEF CenterSends, Center!SendNextModel
  <2>2. remaining \in 0..MaxRounds
    BY DEF TypeOK
  <2> QED
    BY <2>1, <2>2, FreshlySent
<1>5. CASE CenterReceives
  <2>1. up[Me] # << >> /\ up[Me] \in Seq(Nat) /\ UNCHANGED down
    BY <1>5 DEF CenterReceives, Center!ModelReceived, Center!ContinueTraining,
                Center!CompleteTraining, TypeOK, Edges
  <2>2. OnUp >= 1
    BY <2>1, TailLength DEF OnUp
  <2>3. OnDown = 0
    BY <1>1, <2>2, TokenAtMostOne DEF NaturalShares, Token
  <2> QED
    BY <2>1, <2>3 DEF FreshDown, AllAre, OnDown
<1>6. CASE EdgeConnects \/ EdgeDisconnects
  <2>1. UNCHANGED lastModel /\ (down' = down \/ down'[Me] = << >>)
    BY <1>6 DEF EdgeConnects, EdgeDisconnects, Center!EdgeConnects, Center!EdgeDisconnects,
                Center!missionVars, TypeOK, Edges
  <2> QED
    BY <1>2, <2>1, AllAreEmpty DEF FreshDown
<1>7. CASE EdgeRelays
  <2>1. /\ down[Me] # << >> /\ down[Me] \in Seq(Nat) /\ lastModel \in Nat
        /\ down'[Me] = Tail(down[Me]) /\ UNCHANGED lastModel
    BY <1>7 DEF EdgeRelays, Edge!ModelFromCenter, missionVars, TypeOK, Edges
  <2> QED
    BY <2>1, AllAreTail DEF FreshDown
<1>8. CASE RoundTimerExpires
  BY <1>2, <1>8 DEF RoundTimerExpires, Edge!RoundTimerExpires, missionVars
<1>9. ASSUME NEW c \in Clients,
             \/ EdgeHolds(c) \/ EdgeAggregates(c)
             \/ EdgeFailsToAggregate(c) \/ EdgeFailsToArchive(c)
      PROVE  FreshDown'
  BY <1>2, <1>9 DEF EdgeHolds, EdgeAggregates, EdgeFailsToAggregate, EdgeFailsToArchive,
                    Edge!HoldModel, Edge!Aggregate, Edge!AggregationFails,
                    Edge!ArchivingFails, Edge!TakeModelOf, missionVars
<1>10. ASSUME NEW c \in Clients,
              BroadcastLost(c) \/ ClientReceives(c) \/ ClientFinishes(c) \/ ClientRetries(c)
       PROVE  FreshDown'
  BY <1>2, <1>10 DEF BroadcastLost, ClientReceives, ClientFinishes, ClientPublishes,
                     ClientFails, ClientRetries, missionVars, wireVars
<1>11. CASE UNCHANGED vars
  BY <1>2, <1>11 DEF vars, missionVars, wireVars
<1> QED
  BY <1>3, <1>4, <1>5, <1>6, <1>7, <1>8, <1>9, <1>10, <1>11 DEF Next, ClientFinishes

\* The edge files what it takes or ends the round: the models of client d stay
\* current wherever they are.
LEMMA TakenStaysFresh ==
    ASSUME TypeOK, Kept, NEW c \in Clients, Edge!TakeModelOf(c),
           roundModels' = Edge!WithModelOf(c) \/ roundModels' = Edge!NoModels,
           UNCHANGED <<lastModel, saved, training, retries>>
    PROVE  StaysFresh
<1>1. /\ sub[c] \in Seq(Nat) /\ sub[c] # << >> /\ lastModel \in Nat
      /\ sub'[c] = Tail(sub[c]) /\ UNCHANGED pub
  BY DEF TypeOK, Edge!TakeModelOf
<1>2. FreshClient(c) => Head(sub[c]) = lastModel /\ FreshClient(c)'
  BY <1>1, AllAreTail DEF FreshClient
<1>3. \A d \in Clients \ {c} : FreshClient(d) => FreshClient(d)'
  BY OthersStayFresh DEF clientVars
<1>4. \A d \in DOMAIN roundModels' :
         \/ d = c /\ roundModels'[d] = Head(sub[c])
         \/ d \in DOMAIN roundModels /\ roundModels'[d] = roundModels[d]
  BY DEF Edge!WithModelOf, Edge!NoModels
<1>5. \A d \in Clients : Current(d) => Current(d)'
  BY <1>2, <1>3, <1>4 DEF Current
<1>6. DOMAIN roundModels = Clients => DOMAIN roundModels' = Clients \/ DOMAIN roundModels' = {}
  BY ClientsAssumption DEF Kept, Edge!WithModelOf, Edge!NoModels
<1> QED
  BY <1>2, <1>3, <1>5, <1>6 DEF StaysFresh

\* Only the centre's next model makes models outdated, and only a broadcast
\* brings a client a new one.
LEMMA StepsStayFresh ==
    ASSUME TypeOK, Kept, [Next]_vars, ~CenterReceives, ~EdgeRelays
    PROVE  StaysFresh
<1>1. ASSUME UNCHANGED <<lastModel, pub, sub, roundModels, saved, training, retries>>
      PROVE  StaysFresh
  BY <1>1 DEF StaysFresh, Current, FreshClient
<1>2. CASE OperatorStarts \/ CenterSends \/ EdgeConnects \/ EdgeDisconnects
  BY <1>1, <1>2 DEF OperatorStarts, CenterSends, EdgeConnects, EdgeDisconnects,
     Center!StartTrain, Center!SendNextModel, Center!EdgeConnects, Center!EdgeDisconnects,
     Center!missionVars, mqttVars, edgeVars, clientVars
<1>3. CASE RoundTimerExpires
  <2>1. /\ UNCHANGED <<lastModel, pub, sub, saved, training, retries>>
        /\ DOMAIN roundModels' = {}
    BY <1>3 DEF RoundTimerExpires, Edge!RoundTimerExpires, Edge!mqttVars, Edge!NoModels,
                missionVars, clientVars
  <2> QED
    BY <2>1 DEF StaysFresh, Current, FreshClient
<1>4. ASSUME NEW c \in Clients,
             \/ EdgeHolds(c) \/ EdgeAggregates(c)
             \/ EdgeFailsToAggregate(c) \/ EdgeFailsToArchive(c)
      PROVE  StaysFresh
  <2>1. /\ Edge!TakeModelOf(c)
        /\ roundModels' = Edge!WithModelOf(c) \/ roundModels' = Edge!NoModels
        /\ UNCHANGED <<lastModel, saved, training, retries>>
    BY <1>4 DEF EdgeHolds, EdgeAggregates, EdgeFailsToAggregate, EdgeFailsToArchive,
                Edge!HoldModel, Edge!Aggregate, Edge!AggregationFails, Edge!ArchivingFails,
                missionVars, clientVars
  <2> QED
    BY <2>1, TakenStaysFresh
<1>5. ASSUME NEW c \in Clients,
             BroadcastLost(c) \/ ClientReceives(c) \/ ClientFinishes(c) \/ ClientRetries(c)
      PROVE  StaysFresh
  <2>1. UNCHANGED <<lastModel, roundModels>>
    BY <1>5 DEF BroadcastLost, ClientReceives, ClientFinishes, ClientPublishes, ClientFails,
                ClientRetries, missionVars, edgeVars
  <2>2. FreshClient(c) => FreshClient(c)'
    BY <1>5, <2>1, FreshClientSteps
  <2>3. \A d \in Clients \ {c} : FreshClient(d) => FreshClient(d)'
    BY <1>5, <2>1, OthersStayFresh
  <2>4. \A d \in Clients : FreshClient(d) => FreshClient(d)'
    BY <2>2, <2>3
  <2> QED
    BY <2>1, <2>4 DEF StaysFresh, Current
<1>6. CASE UNCHANGED vars
  BY <1>1, <1>6 DEF vars, missionVars, mqttVars, edgeVars, clientVars
<1> QED
  BY <1>2, <1>3, <1>4, <1>5, <1>6 DEF Next, ClientFinishes

\* A client that has no model under way has no outdated one.
LEMMA NothingMoving ==
    ASSUME TypeOK, NEW c \in Clients, Moving(c) = 0
    PROVE  pub[c] = << >> /\ sub[c] = << >> /\ training[c] = {} /\ retries[c] = 0
<1>1. /\ OnPub(c) \in Nat /\ OnSub(c) \in Nat
      /\ Training(c) \in Nat /\ retries[c] \in Nat
  BY SharesAreNatural DEF NaturalShares
<1>2. OnPub(c) = 0 /\ OnSub(c) = 0 /\ Training(c) = 0 /\ retries[c] = 0
  BY <1>1, NoneOfNone DEF Moving
<1>3. pub[c] \in Seq(Nat) /\ sub[c] \in Seq(Nat)
  BY DEF TypeOK
<1> QED
  BY <1>2, <1>3 DEF OnPub, OnSub, Training

\* The client, or the round, that keeps aggregates apart has a current model.
LEMMA OneFreshPreserved ==
    ASSUME TypeOK, TypeOK', NaturalShares', Shares, Kept, FreshDown, OneFresh, [Next]_vars
    PROVE  OneFresh'
<1>1. NaturalShares /\ Balanced /\ RoundsAdd
  BY SharesAreNatural DEF NaturalShares, Balanced, Shares
<1>2. Token <= 1
  BY <1>1, TokenAtMostOne
<1>3. \A c \in Clients : /\ Filed(c) = (IF c \in DOMAIN roundModels THEN 1 ELSE 0)
                         /\ Load(c) = Moving(c) + Filed(c)
                         /\ Load(c)' = Moving(c)' + Filed(c)'
  BY DEF Filed, Load
<1>4. CASE CenterReceives
  <2>1. up[Me] # << >> /\ up[Me] \in Seq(Nat)
    BY <1>4 DEF CenterReceives, Center!ModelReceived, Center!ContinueTraining,
                Center!CompleteTraining, TypeOK, Edges
  <2>2. OnUp >= 1
    BY <2>1, TailLength DEF OnUp
  <2>3. Token = 1 /\ Token' = 1
    <3>1. Token >= 1
      BY <1>1, <2>2 DEF NaturalShares, Token
    <3>2. Token' = Token
      BY <1>1, <1>4, ReceivesShares
    <3> QED
      BY <1>1, <1>2, <3>1, <3>2 DEF NaturalShares
  <2>4. UNCHANGED <<pub, sub, roundModels, saved, training, retries>>
    BY <1>4 DEF CenterReceives, mqttVars, edgeVars, clientVars
  <2>5. \A c \in Clients : Moving(c)' = Moving(c) /\ Load(c)' = Load(c)
    BY <2>4 DEF Load, Moving, OnPub, OnSub, Training, Filed
  <2>6. ASSUME NEW c \in Clients, Moving(c) = 0
        PROVE  FreshClient(c)'
    <3>1. pub[c] = << >> /\ sub[c] = << >> /\ training[c] = {} /\ retries[c] = 0
      BY <2>6, NothingMoving
    <3> QED
      BY <2>4, <3>1, AllAreEmpty DEF FreshClient
  <2>7. CASE \E c \in Clients : Token + Load(c) <= 1
    <3>1. PICK c \in Clients : Token + Load(c) <= 1
      BY <2>7
    <3>2. Moving(c) = 0 /\ Filed(c) = 0
      BY <1>1, <1>3, <2>3, <3>1 DEF NaturalShares
    <3>3. Current(c)'
      BY <1>3, <2>4, <2>6, <3>2 DEF Current
    <3> QED
      BY <2>3, <2>5, <3>1, <3>3 DEF OneFresh
  <2>8. CASE DOMAIN roundModels = Clients /\ \A c \in Clients : Token + Moving(c) <= 1
    <3>1. \A c \in Clients : Moving(c) = 0
      BY <1>1, <2>3, <2>8 DEF NaturalShares
    <3> QED
      BY <2>3, <2>4, <2>5, <2>6, <2>8, <3>1 DEF OneFresh
  <2> QED
    BY <2>7, <2>8 DEF OneFresh
<1>5. CASE EdgeRelays
  <2>1. /\ Token >= 1 /\ Token' = Token - 1
        /\ \A c \in Clients : Load(c)' = Load(c) + 1
        /\ DOMAIN roundModels' = DOMAIN roundModels
    BY <1>5, RelayShares
  <2>2. \A c \in Clients : Moving(c)' = Moving(c) + 1
    BY <1>1, <1>3, <2>1 DEF NaturalShares, Filed
  <2>3. /\ down[Me] # << >> /\ down[Me] \in Seq(Nat) /\ lastModel \in Nat
        /\ pub' = [c \in Clients |-> Append(pub[c], Head(down[Me]))]
        /\ UNCHANGED <<lastModel, sub, roundModels, saved, training, retries>>
    BY <1>5 DEF EdgeRelays, Edge!ModelFromCenter, Edge!edgeVars, missionVars, clientVars,
                TypeOK, Edges
  <2>4. Head(down[Me]) = lastModel
    BY <2>3, AllAreTail DEF FreshDown
  <2>5. \A c \in Clients : pub[c] \in Seq(Nat)
    BY DEF TypeOK
  <2>6. \A c \in Clients : FreshClient(c) => FreshClient(c)'
    BY <2>3, <2>4, <2>5, AllAreAppend DEF FreshClient
  <2>7. \A c \in Clients : Current(c) => Current(c)'
    BY <2>3, <2>6 DEF Current
  <2> QED
    BY <1>1, <2>1, <2>2, <2>6, <2>7 DEF NaturalShares, OneFresh
<1>6. CASE Running /\ OperatorStarts
  <2>1. Quiet /\ UNCHANGED <<roundModels, pub, sub, training, retries>>
    BY <1>6 DEF OperatorStarts, edgeVars, mqttVars, clientVars
  <2>2. Token' = 1
    <3>1. Token = 0
      BY <1>6, <2>1 DEF Quiet, Token, OnDown, OnUp, Startable
    <3> QED
      BY <1>1, <1>6, <3>1, StartShares
  <2>3. \A c \in Clients : Moving(c)' = 0
    <3>1. \A c \in Clients : OnPub(c)' = 0 /\ OnSub(c)' = 0 /\ Training(c)' = 0
      BY <2>1 DEF Quiet, OnPub, OnSub, Training
    <3>2. \A c \in Clients : retries'[c] = 0
      BY <2>1 DEF Quiet
    <3> QED
      BY <3>1, <3>2 DEF Moving
  <2>4. \A c \in Clients : FreshClient(c)'
    BY <2>1, AllAreEmpty DEF Quiet, FreshClient
  <2>5. CASE \E c \in Clients : c \notin DOMAIN roundModels
    <3>1. PICK c \in Clients : c \notin DOMAIN roundModels
      BY <2>5
    <3>2. Load(c)' = 0 /\ Current(c)'
      BY <2>1, <2>3, <2>4, <3>1 DEF Load, Filed, Current
    <3> QED
      BY <2>2, <3>2 DEF OneFresh
  <2>6. CASE Clients \subseteq DOMAIN roundModels
    <3>1. DOMAIN roundModels' = Clients
      BY <2>1, <2>6 DEF TypeOK
    <3> QED
      BY <2>2, <2>3, <2>4, <3>1 DEF OneFresh
  <2> QED
    BY <2>5, <2>6
<1>7. ASSUME NEW c \in Clients, EdgeAggregates(c)
      PROVE  OneFresh'
  <2>1. /\ \A d \in Clients \ {c} : Load(d)' = Load(d) - 1
        /\ Load(c)' = Load(c) - (IF c \in DOMAIN roundModels THEN 2 ELSE 1)
        /\ Token' = Token \/ Token' = Token + 1
    BY <1>7, AggregateMoves
  <2>2. ~CenterReceives /\ ~EdgeRelays
    <3>1. sub'[c] # sub[c]
      BY <1>7 DEF EdgeAggregates, Edge!Aggregate, Edge!TakeModelOf, TypeOK
    <3> QED
      BY <3>1 DEF CenterReceives, mqttVars, EdgeRelays, Edge!ModelFromCenter
  <2>3. StaysFresh
    BY <2>2, StepsStayFresh
  <2>4. CASE \E d \in Clients : Token + Load(d) <= 1 /\ Current(d)
    <3>1. PICK d \in Clients : Token + Load(d) <= 1 /\ Current(d)
      BY <2>4
    <3>2. Token' + Load(d)' <= 1
      BY <1>1, <2>1, <3>1 DEF NaturalShares
    <3> QED
      BY <2>3, <3>1, <3>2 DEF OneFresh, StaysFresh
  <2>5. CASE DOMAIN roundModels = Clients /\ \A d \in Clients : Token + Moving(d) <= 1 /\ FreshClient(d)
    <3>1. Token' + Load(c)' <= 1
      BY <1>1, <1>3, <2>1, <2>5 DEF NaturalShares
    <3>2. c \notin DOMAIN roundModels'
      BY <1>7 DEF EdgeAggregates, Edge!Aggregate, Edge!NoModels
    <3>3. Current(c)'
      BY <2>3, <2>5, <3>2 DEF StaysFresh, Current
    <3> QED
      BY <3>1, <3>3 DEF OneFresh
  <2> QED
    BY <2>4, <2>5 DEF OneFresh
<1>8. CASE NobodyGains /\ ~CenterReceives /\ ~EdgeRelays
  <2>1. /\ Token' <= Token /\ \A c \in Clients : Load(c)' <= Load(c)
        /\ StaysFresh
    BY <1>8, StepsStayFresh DEF NobodyGains
  <2>2. CASE \E c \in Clients : Token + Load(c) <= 1 /\ Current(c)
    <3>1. PICK c \in Clients : Token + Load(c) <= 1 /\ Current(c)
      BY <2>2
    <3>2. Token' + Load(c)' <= 1
      BY <1>1, <2>1, <3>1 DEF NaturalShares
    <3> QED
      BY <2>1, <3>1, <3>2 DEF OneFresh, StaysFresh
  <2>3. CASE DOMAIN roundModels = Clients /\ \A c \in Clients : Token + Moving(c) <= 1 /\ FreshClient(c)
    <3>1. \A c \in Clients : FreshClient(c)'
      BY <2>1, <2>3 DEF StaysFresh
    <3>2. CASE DOMAIN roundModels' = Clients
      <4>1. \A c \in Clients : Filed(c) = 1 /\ Filed(c)' = 1
        BY <2>3, <3>2 DEF Filed
      <4>2. \A c \in Clients : Moving(c)' <= Moving(c)
        BY <1>1, <1>3, <2>1, <4>1 DEF NaturalShares
      <4>3. \A c \in Clients : Token' + Moving(c)' <= 1
        BY <1>1, <2>1, <2>3, <4>2 DEF NaturalShares
      <4> QED
        BY <3>1, <3>2, <4>3 DEF OneFresh
    <3>3. CASE DOMAIN roundModels' = {}
      <4>1. PICK c \in Clients : Load(c)' < Load(c)
        BY <1>8, <2>3, <3>3, ClientsAssumption DEF NobodyGains
      <4>2. Filed(c) = 1
        BY <2>3 DEF Filed
      <4>3. Load(c)' <= Moving(c)
        BY <1>1, <1>3, <4>1, <4>2 DEF NaturalShares
      <4>4. Token' + Load(c)' <= 1
        BY <1>1, <2>1, <2>3, <4>3 DEF NaturalShares
      <4>5. Current(c)'
        BY <3>1, <3>3 DEF Current
      <4> QED
        BY <4>4, <4>5 DEF OneFresh
    <3> QED
      BY <2>1, <2>3, <3>2, <3>3 DEF StaysFresh
  <2> QED
    BY <2>2, <2>3 DEF OneFresh
<1> QED
  BY <1>4, <1>5, <1>6, <1>7, <1>8, KindsOfSteps

\* Whatever fails and however often the command is repeated, no aggregate is made
\* of left-overs alone: one of its parts was trained from the model that the
\* centre broadcast last, with any number of clients.
THEOREM EveryAggregateIsFreshHolds == Spec => EveryAggregateIsFresh
<1> DEFINE KeptFresh == FreshDown /\ OneFresh
<1>1. Init /\ TypeOK => KeptFresh
  <2> SUFFICES ASSUME Init, TypeOK
               PROVE  FreshDown /\ OneFresh
    OBVIOUS
  <2>1. Token = 1
    BY DEF Init, Center!Init, Running, Edges, Token, OnDown, OnUp, Startable
  <2>2. \A c \in Clients : Load(c) = 0
    BY DEF Init, Edge!Init, Client!Init, Edge!NoModels, Load, Moving, OnPub, OnSub,
           Training, Filed
  <2>3. FreshDown
    BY AllAreEmpty DEF Init, Center!Init, Edges, FreshDown
  <2>4. \A c \in Clients : Current(c)
    BY AllAreEmpty DEF Init, Edge!Init, Client!Init, Edge!NoModels, Current, FreshClient
  <2> QED
    BY <2>1, <2>2, <2>3, <2>4, ClientsAssumption DEF OneFresh
<1>2. TypeOK => NaturalShares
  BY SharesAreNatural
<1>3. TypeOK /\ TypeOK' /\ NaturalShares' /\ Shares /\ Kept /\ KeptFresh /\ [Next]_vars => KeptFresh'
  BY FreshDownKept, OneFreshPreserved
<1>4. ASSUME TypeOK, KeptFresh, [Next]_vars
      PROVE  [RoundCompletes => \E c \in DOMAIN aggregated' : aggregated'[c] = lastModel]_vars
  <2> SUFFICES ASSUME NEW c \in Clients, EdgeAggregates(c)
               PROVE  \E d \in DOMAIN aggregated' : aggregated'[d] = lastModel
    BY DEF RoundCompletes
  <2>1. /\ aggregated' = Edge!WithModelOf(c) /\ DOMAIN aggregated' = Clients
        /\ sub[c] # << >> /\ sub[c] \in Seq(Nat) /\ lastModel \in Nat
    BY <1>4 DEF EdgeAggregates, Edge!Aggregate, Edge!Complete, Edge!TakeModelOf, TypeOK
  <2>2. FreshClient(c) => aggregated'[c] = lastModel
    BY <2>1, AllAreTail DEF FreshClient, Edge!WithModelOf
  <2>3. \A d \in Clients \ {c} : Current(d) => aggregated'[d] = lastModel
    BY <2>1 DEF Current, Edge!WithModelOf, Edge!NoModels
  <2>4. \E d \in Clients : Current(d) \/ (d = c /\ FreshClient(c))
    BY <1>4 DEF OneFresh
  <2> QED
    BY <2>1, <2>2, <2>3, <2>4 DEF Current
<1> HIDE DEF KeptFresh
<1> QED
  BY <1>1, <1>2, <1>3, <1>4, TypeCorrect, SharesHold, KeptHolds, PTL
  DEF Spec, EveryAggregateIsFresh

-----------------------------------------------------------------------------
(* Edge and clients together are the edge of TrainingLoop, as long as nothing *)
(* fails: MaxFaults is 0, training processes may fail all the same.           *)

\* What the edge and its clients have in hand is what the centre has not.
OneHasIt == EdgeBusy <=> Token = 0

\* A model in hand is with one of the two.
LEMMA BusyWithoutToken ==
    ASSUME TypeOK, InHand
    PROVE  OneHasIt
<1>1. NaturalShares
  BY SharesAreNatural
<1>2. ASSUME NEW c \in Clients
      PROVE  /\ pub[c] # << >> <=> OnPub(c) > 0
             /\ sub[c] # << >> <=> OnSub(c) > 0
             /\ training[c] # {} <=> Training(c) > 0
             /\ c \in DOMAIN roundModels <=> Filed(c) > 0
  <2>1. pub[c] \in Seq(Nat) /\ sub[c] \in Seq(Nat)
    BY DEF TypeOK
  <2> QED
    BY <2>1 DEF OnPub, OnSub, Training, Filed
<1>3. \A c \in Clients :
         Load(c) > 0 <=> \/ pub[c] # << >> \/ sub[c] # << >>
                         \/ training[c] # {} \/ retries[c] > 0
                         \/ c \in DOMAIN roundModels
  <2>1. \A c \in Clients : Load(c) = OnPub(c) + OnSub(c) + Training(c) + retries[c] + Filed(c)
    BY DEF Load, Moving
  <2> QED
    BY <1>1, <1>2, <2>1 DEF NaturalShares
<1>4. EdgeBusy <=> \E c \in Clients : Load(c) > 0
  BY <1>3 DEF EdgeBusy, TypeOK
<1> QED
  BY <1>4, ClientsAssumption DEF InHand, OneHasIt

\* What can happen then.
LEMMA UndisturbedSteps ==
    ASSUME MaxFaults = 0, TypeOK, [Next]_vars
    PROVE  /\ \A kind : ~Fault(kind)
           /\ \/ OperatorStarts \/ CenterSends \/ CenterReceives
              \/ EdgeConnects \/ EdgeRelays \/ UNCHANGED vars
              \/ \E c \in Clients : \/ EdgeHolds(c) \/ EdgeAggregates(c)
                                    \/ ClientReceives(c) \/ ClientFinishes(c)
                                    \/ ClientRetries(c)
<1>1. \A kind : ~Fault(kind)
  BY DEF Fault, TypeOK
<1>2. /\ ~EdgeDisconnects /\ ~RoundTimerExpires
      /\ \A c \in Clients : /\ ~EdgeFailsToAggregate(c) /\ ~EdgeFailsToArchive(c)
                            /\ ~BroadcastLost(c)
  BY <1>1 DEF EdgeDisconnects, RoundTimerExpires, EdgeFailsToAggregate, EdgeFailsToArchive,
              BroadcastLost
<1> QED
  BY <1>1, <1>2 DEF Next, ClientFinishes

\* The rounds of an aggregate of current models.
LEMMA CurrentGeneration ==
    ASSUME TypeOK, Fresh, restarts = 0, NEW c \in Clients, EdgeAggregates(c)
    PROVE  up'[Me] = IF Me \in connected THEN Append(up[Me], lastModel + 1) ELSE up[Me]
<1>1. Edge!WithModelOf(c) = [d \in Clients |-> lastModel]
  BY AggregateIsCurrent DEF EdgeAggregates, Edge!Aggregate
<1>2. {Edge!WithModelOf(c)[d] : d \in DOMAIN Edge!WithModelOf(c)} = {lastModel}
  BY <1>1, ClientsAssumption
<1>3. lastModel \in Nat /\ Me \in Edges
  BY DEF TypeOK, Edges
<1>4. Edge!Min({lastModel}) = lastModel
  BY <1>3 DEF Edge!Min
<1>5. Edge!Generation(Edge!WithModelOf(c)) = lastModel + 1
  BY <1>2, <1>4 DEF Edge!Generation
<1> QED
  BY <1>3, <1>5 DEF EdgeAggregates, Edge!Aggregate, Edge!SendToCenter, TypeOK

FirstCommand == restarts = 0

\* No command is repeated where nothing stands still.
LEMMA NeverRepeated ==
    ASSUME MaxFaults = 0
    PROVE  Spec => []FirstCommand
<1>1. Init => FirstCommand
  BY DEF Init, FirstCommand
<1>2. TypeOK /\ NoSilentStall /\ FirstCommand /\ [Next]_vars => FirstCommand'
  <2> USE DEF FirstCommand
  <2> SUFFICES ASSUME TypeOK, NoSilentStall, restarts = 0, [Next]_vars
               PROVE  restarts' = 0
    OBVIOUS
  <2>1. ~(Running /\ Quiet)
    BY DEF NoSilentStall, TypeOK
  <2> QED
    BY <2>1, UndisturbedSteps DEF OperatorStarts, CenterSends, CenterReceives, EdgeConnects,
       EdgeRelays, EdgeHolds, EdgeAggregates, ClientReceives, ClientFinishes, ClientPublishes,
       ClientFails, ClientRetries, vars, boundVars
<1> QED
  BY <1>1, <1>2, TypeCorrect, NoSilentStallHolds, PTL DEF Spec

\* The model is in hand, and the first command is the only one.
Undisturbed == restarts = 0 /\ InHand /\ (Running => connected = Edges)

\* It stays so.
LEMMA UndisturbedHolds ==
    ASSUME MaxFaults = 0
    PROVE  Spec => []Undisturbed
<1>1. TypeOK /\ Unfailed /\ FirstCommand => Undisturbed
  BY DEF TypeOK, Unfailed, FirstCommand, Undisturbed
<1> QED
  BY <1>1, TypeCorrect, UnfailedHolds, NeverRepeated, PTL

\* The centre's next model finds nothing else under way.
LEMMA ReceivesAlone ==
    ASSUME TypeOK, Shares, Undisturbed, CenterReceives
    PROVE  /\ Running /\ pending = 0 /\ OnDown = 0 /\ OnUp = 1 /\ Token = 1
           /\ remaining + currentStep + 1 = totalSteps
           /\ up[Me] \in Seq(Nat) /\ Len(up[Me]) = 1 /\ up'[Me] = << >>
<1>1. NaturalShares /\ Balanced /\ RoundsAdd
  BY SharesAreNatural DEF NaturalShares, Balanced, Shares
<1>2. up[Me] \in Seq(Nat) /\ up[Me] # << >> /\ up'[Me] = Tail(up[Me])
  BY DEF CenterReceives, Center!ModelReceived, Center!ContinueTraining,
         Center!CompleteTraining, TypeOK, Edges
<1>3. OnUp >= 1
  BY <1>2, TailLength DEF OnUp
<1>4. Running /\ pending = 0 /\ OnDown = 0 /\ OnUp = 1 /\ Token = 1
  BY <1>1, <1>3, TokenAtMostOne DEF NaturalShares, Token, Startable
<1>5. remaining + currentStep + 1 = totalSteps
  BY <1>1, <1>4 DEF RoundsAdd, TypeOK
<1>6. Len(up[Me]) = 1
  BY <1>4 DEF OnUp
<1>7. Tail(up[Me]) = << >>
  <2>1. Tail(up[Me]) \in Seq(Nat) /\ Len(Tail(up[Me])) = 0
    BY <1>2, <1>6, TailLength
  <2>2. \A q \in Seq(Nat) : Len(q) = 0 => q = << >>
    OBVIOUS
  <2> QED
    BY <2>1, <2>2
<1> QED
  BY <1>2, <1>4, <1>5, <1>6, <1>7

\* A client that does something has the model; the centre has not.
LEMMA WorkingClients ==
    ASSUME TypeOK, Undisturbed, NEW c \in Clients,
           \/ EdgeHolds(c) \/ EdgeAggregates(c)
           \/ ClientReceives(c) \/ ClientFinishes(c) \/ ClientRetries(c)
    PROVE  Token = 0 /\ EdgeBusy
<1>1. EdgeBusy
  BY DEF EdgeHolds, EdgeAggregates, ClientReceives, ClientFinishes, ClientPublishes,
         ClientFails, ClientRetries, Edge!HoldModel, Edge!Aggregate, Edge!TakeModelOf,
         Client!ModelArrives, Client!TrainingSucceeds, Client!TrainingFails,
         Client!RetryTraining, EdgeBusy
<1> QED
  BY <1>1, BusyWithoutToken DEF Undisturbed, OneHasIt

\* Each step of the whole system is one of the loop or changes nothing that the
\* loop has.
LEMMA StepOfLoop ==
    ASSUME MaxFaults = 0, TypeOK, TypeOK', NaturalShares', Shares, Kept, Fresh,
           Undisturbed, Undisturbed', OneHasIt, OneHasIt', [Next]_vars
    PROVE  [Loop!Next]_(Loop!vars)
<1>1. NaturalShares /\ Balanced
  BY SharesAreNatural DEF NaturalShares, Balanced, Shares
<1>2. (EdgeBusy <=> Token = 0) /\ (EdgeBusy' <=> Token' = 0)
  BY DEF OneHasIt
<1>3. Edges = {Me} /\ lastModel \in Nat
  BY DEF Edges, TypeOK
<1>4. ASSUME UNCHANGED <<missionVars, wireVars, restarts>>, Token' = Token
      PROVE  UNCHANGED Loop!vars
  BY <1>2, <1>4 DEF missionVars, wireVars, Loop!vars, Loop!centerVars, Loop!missionVars,
                    Loop!wireVars
<1>5. CASE OperatorStarts
  <2>1. ~Running /\ restarts' = restarts
    BY <1>5 DEF OperatorStarts, Undisturbed
  <2>2. UNCHANGED <<mqttVars, edgeVars, clientVars, lastModel>> /\ connected = Edges
    BY <1>5 DEF OperatorStarts, Center!StartTrain
  <2>3. EdgeBusy' = EdgeBusy
    BY <2>2 DEF mqttVars, edgeVars, clientVars, EdgeBusy
  <2>4. PICK n \in 1..MaxRounds : Center!StartTrain(n, TRUE)
    BY <1>5 DEF OperatorStarts
  <2>5. Loop!StartTrain(n, TRUE) /\ Loop!MaybeUnreadable(TRUE)
    BY <2>4 DEF Center!StartTrain, Center!sendNextModel, Center!sendModel, Loop!StartTrain,
                Loop!sendNextModel, Loop!sendModel, Loop!MaybeUnreadable
  <2>6. Loop!OperatorStarts
    BY <1>5, <2>1, <2>2, <2>3, <2>5 DEF OperatorStarts, Loop!OperatorStarts, Loop!Running,
                                        Running
  <2> QED
    BY <2>6 DEF Loop!Next
<1>6. CASE CenterSends
  <2>1. /\ UNCHANGED <<mqttVars, edgeVars, clientVars, restarts, lastModel>>
        /\ Center!SendNextModel(TRUE)
    BY <1>6 DEF CenterSends, Center!SendNextModel, boundVars
  <2>2. EdgeBusy' = EdgeBusy
    BY <2>1 DEF mqttVars, edgeVars, clientVars, EdgeBusy
  <2>3. Loop!SendNextModel(TRUE) /\ Loop!MaybeUnreadable(TRUE)
    BY <2>1 DEF Center!SendNextModel, Center!sendNextModel, Center!sendModel,
                Loop!SendNextModel, Loop!sendNextModel, Loop!sendModel, Loop!MaybeUnreadable
  <2>4. Loop!CenterSends
    BY <2>1, <2>2, <2>3 DEF Loop!CenterSends
  <2> QED
    BY <2>4 DEF Loop!Next
<1>7. CASE CenterReceives
  <2>1. ~EdgeBusy /\ ~EdgeBusy'
    <3>1. Token = 1 /\ Token' = Token
      BY <1>1, <1>7, ReceivesAlone, ReceivesShares DEF Shares
    <3> QED
      BY <1>2, <3>1
  <2>2. Loop!ModelReceived(Me)
    BY <1>7 DEF CenterReceives, Center!ModelReceived, Center!ContinueTraining,
                Center!CompleteTraining, Center!incrementProgress, Center!InitialModel,
                Loop!ModelReceived, Loop!ContinueTraining, Loop!CompleteTraining,
                Loop!incrementProgress, Loop!InitialModel
  <2>3. UNCHANGED restarts
    BY <1>7 DEF CenterReceives, boundVars
  <2>4. Loop!CenterReceives(Me)
    BY <2>1, <2>2, <2>3 DEF Loop!CenterReceives
  <2> QED
    BY <1>3, <2>4 DEF Loop!Next
<1>8. CASE EdgeConnects
  <2>1. /\ UNCHANGED <<mqttVars, edgeVars, clientVars, restarts, lastModel>>
        /\ Loop!EdgeConnects(Me)
    BY <1>8 DEF EdgeConnects, Center!EdgeConnects, Center!missionVars, boundVars,
                Loop!EdgeConnects, Loop!missionVars
  <2>2. EdgeBusy' = EdgeBusy
    BY <2>1 DEF mqttVars, edgeVars, clientVars, EdgeBusy
  <2>3. Loop!EdgeArrives(Me)
    BY <2>1, <2>2 DEF Loop!EdgeArrives
  <2> QED
    BY <1>3, <2>3 DEF Loop!Next
<1>9. CASE EdgeRelays
  <2>1. Token = 1 /\ Token' = 0
    BY <1>1, <1>9, RelayShares, TokenAtMostOne DEF NaturalShares
  <2>2. ~EdgeBusy /\ EdgeBusy'
    BY <1>2, <2>1
  <2>3. /\ down[Me] # << >> /\ down[Me] \in Seq(Nat)
        /\ down' = [down EXCEPT ![Me] = Tail(@)]
        /\ UNCHANGED <<missionVars, connected, up, restarts>>
    BY <1>9 DEF EdgeRelays, Edge!ModelFromCenter, boundVars, TypeOK, Edges
  <2>4. Head(down[Me]) = lastModel /\ lastModel' = lastModel
    BY <1>3, <2>3, AllAreTail DEF Fresh, FreshDown, Undisturbed, missionVars
  <2>5. Loop!EdgeTakes(Me)
    BY <1>3, <2>2, <2>3, <2>4 DEF Loop!EdgeTakes, Loop!missionVars, missionVars
  <2> QED
    BY <1>3, <2>5 DEF Loop!Next
<1>10. ASSUME NEW c \in Clients, EdgeAggregates(c)
       PROVE  Loop!Next
  <2>1. Token = 0 /\ EdgeBusy
    BY <1>10, WorkingClients
  <2>2. Running
    BY <1>1, <2>1 DEF NaturalShares, Token, Startable
  <2>3. Me \in connected
    BY <1>3, <2>2 DEF Undisturbed
  <2>4. ~EdgeBusy'
    BY <1>2, <1>10, <2>1, <2>3, AggregateMoves
  <2>5. /\ up'[Me] = Append(up[Me], lastModel + 1)
        /\ up' = [up EXCEPT ![Me] = up'[Me]]
        /\ UNCHANGED <<missionVars, connected, down, restarts>>
    BY <1>3, <1>10, <2>3, CurrentGeneration
    DEF EdgeAggregates, Edge!Aggregate, Edge!TakeModelOf, Edge!SendToCenter, boundVars,
        Undisturbed, TypeOK
  <2>6. Loop!EdgeReturns(Me)
    BY <1>3, <2>1, <2>3, <2>4, <2>5 DEF Loop!EdgeReturns, Loop!missionVars, missionVars
  <2> QED
    BY <1>3, <2>6 DEF Loop!Next
<1>11. ASSUME NEW c \in Clients, EdgeHolds(c)
       PROVE  UNCHANGED Loop!vars
  <2>1. Token' = Token
    BY <1>1, <1>11, TakesOnlyShares
  <2>2. UNCHANGED <<missionVars, wireVars, restarts>>
    BY <1>11 DEF EdgeHolds, Edge!HoldModel, Edge!TakeModelOf, boundVars, wireVars
  <2> QED
    BY <1>4, <2>1, <2>2
<1>12. ASSUME NEW c \in Clients, ClientReceives(c) \/ ClientFinishes(c) \/ ClientRetries(c)
       PROVE  UNCHANGED Loop!vars
  <2>1. Token' = Token
    BY <1>12, ClientShares
  <2>2. UNCHANGED <<missionVars, wireVars, restarts>>
    BY <1>12 DEF ClientReceives, ClientFinishes, ClientPublishes, ClientFails, ClientRetries
  <2> QED
    BY <1>4, <2>1, <2>2
<1>13. CASE UNCHANGED vars
  <2>1. UNCHANGED <<missionVars, wireVars, restarts>>
    BY <1>13 DEF vars, boundVars
  <2>2. Token' = Token
    BY <2>1 DEF missionVars, wireVars, Token, OnDown, OnUp, Startable, Running
  <2> QED
    BY <1>4, <2>1, <2>2
<1> QED
  BY <1>5, <1>6, <1>7, <1>8, <1>9, <1>10, <1>11, <1>12, <1>13, UndisturbedSteps

\* Without faults edge and clients do what the training loop expects of an edge,
\* for any number of clients, however often their training processes fail and
\* start again: they take a model and send back one trained once more.
THEOREM FederationImplementsLoop ==
    ASSUME MaxFaults = 0
    PROVE  Spec => Loop!Spec
<1>1. Init /\ TypeOK /\ Undisturbed => Loop!LoopInit
  <2> SUFFICES ASSUME Init, TypeOK, Undisturbed
               PROVE  Loop!LoopInit
    OBVIOUS
  <2>1. ~EdgeBusy
    BY DEF Init, Edge!Init, Client!Init, Edge!NoModels, EdgeBusy
  <2> QED
    BY <2>1 DEF Init, Center!Init, Center!InitialModel, Loop!LoopInit, Loop!Init,
                Loop!InitialModel
<1>2. TypeOK => NaturalShares
  BY SharesAreNatural
<1>3. TypeOK /\ Undisturbed => OneHasIt
  BY BusyWithoutToken DEF Undisturbed
<1>4. /\ TypeOK /\ TypeOK' /\ NaturalShares' /\ Shares /\ Kept /\ Fresh
      /\ Undisturbed /\ Undisturbed' /\ OneHasIt /\ OneHasIt' /\ [Next]_vars
      => [Loop!Next]_(Loop!vars)
  BY StepOfLoop
<1> QED
  BY <1>1, <1>2, <1>3, <1>4, TypeCorrect, SharesHold, KeptHolds, FreshHolds, UndisturbedHolds, PTL
  DEF Spec, Loop!Spec

-----------------------------------------------------------------------------
(* The whole system keeps the promise made to the operator. *)

\* The model has been through the rounds on the progress bar, and what the edge
\* sends back through one more.
KeptPace == /\ lastModel = IF Running THEN currentStep ELSE 0
            /\ AllAre(up[Me], lastModel + 1)

\* What a received model does to the bar and the history.
LEMMA ReceivesRound ==
    ASSUME TypeOK, Shares, Undisturbed, KeptPace, CenterReceives
    PROVE  /\ currentStep < totalSteps
           /\ currentStep' = currentStep + 1 /\ totalSteps' = totalSteps
           /\ history' = IF currentStep + 1 = totalSteps THEN Append(history, totalSteps)
                                                         ELSE history
           /\ KeptPace'
<1>1. /\ Running /\ remaining + currentStep + 1 = totalSteps
      /\ up[Me] \in Seq(Nat) /\ Len(up[Me]) = 1 /\ up'[Me] = << >>
  BY ReceivesAlone
<1>2. /\ currentStep \in Nat /\ totalSteps \in Nat /\ remaining \in Nat /\ lastModel \in Nat
  BY DEF TypeOK
<1>3. Head(up[Me]) = currentStep + 1
  BY <1>1 DEF KeptPace, AllAre
<1>4. currentStep' = currentStep + 1 /\ totalSteps' = totalSteps
  BY <1>1 DEF CenterReceives, Center!ModelReceived, Center!ContinueTraining,
              Center!CompleteTraining, Center!incrementProgress, Running
<1>5. AllAre(up'[Me], lastModel' + 1)
  BY <1>1, AllAreEmpty
<1>6. CASE Center!ContinueTraining(Me)
  <2>1. remaining > 0 /\ lastModel' = currentStep + 1 /\ history' = history
    BY <1>3, <1>6 DEF Center!ContinueTraining
  <2>2. Running'
    BY <1>1, <1>2, <1>4, <2>1 DEF Running
  <2> QED
    BY <1>1, <1>2, <1>4, <1>5, <2>1, <2>2 DEF KeptPace, Running
<1>7. CASE Center!CompleteTraining(Me)
  <2>1. remaining = 0 /\ lastModel' = 0 /\ history' = Append(history, currentStep + 1)
    BY <1>3, <1>7 DEF Center!CompleteTraining, Center!InitialModel
  <2>2. ~Running'
    BY <1>1, <1>2, <1>4, <2>1 DEF Running
  <2> QED
    BY <1>1, <1>2, <1>4, <1>5, <2>1, <2>2 DEF KeptPace, Running
<1> QED
  BY <1>6, <1>7 DEF CenterReceives, Center!ModelReceived

\* Nothing but a command and a received model concerns the campaign, and every
\* step keeps the pace.
LEMMA StepOfCampaign ==
    ASSUME MaxFaults = 0, TypeOK, TypeOK', Shares, Fresh, Undisturbed, Undisturbed',
           KeptPace, [Next]_vars
    PROVE  KeptPace' /\ [Campaign!Next]_(Campaign!campaignVars)
<1>1. currentStep \in Nat /\ totalSteps \in Nat /\ currentStep <= totalSteps
  BY DEF TypeOK
<1>2. ASSUME UNCHANGED <<lastModel, currentStep, totalSteps, history, up>>
      PROVE  KeptPace' /\ [Campaign!Next]_(Campaign!campaignVars)
  BY <1>2 DEF KeptPace, Running, Campaign!campaignVars
<1>3. CASE OperatorStarts
  <2>1. ~Running /\ Len(history) < MaxCampaigns
    BY <1>3 DEF OperatorStarts, Undisturbed
  <2>2. PICK n \in 1..MaxRounds : Center!StartTrain(n, TRUE)
    BY <1>3 DEF OperatorStarts
  <2>3. /\ totalSteps' = n /\ currentStep' = 0 /\ UNCHANGED <<lastModel, history, up>>
    BY <2>2 DEF Center!StartTrain
  <2>4. KeptPace'
    BY <2>1, <2>3 DEF KeptPace, Running
  <2>5. Campaign!Start
    BY <1>1, <2>1, <2>3 DEF Campaign!Start, Running
  <2> QED
    BY <2>4, <2>5 DEF Campaign!Next
<1>4. CASE CenterReceives
  <2>1. Campaign!FinishRound
    BY <1>4, ReceivesRound DEF Campaign!FinishRound
  <2> QED
    BY <1>4, <2>1, ReceivesRound DEF Campaign!Next
<1>5. ASSUME NEW c \in Clients, EdgeAggregates(c)
      PROVE  KeptPace' /\ [Campaign!Next]_(Campaign!campaignVars)
  <2>1. UNCHANGED <<lastModel, currentStep, totalSteps, history>>
    BY <1>5 DEF EdgeAggregates, missionVars
  <2>2. up[Me] \in Seq(Nat) /\ lastModel + 1 \in Nat
    BY DEF TypeOK, Edges
  <2>3. up'[Me] = Append(up[Me], lastModel + 1) \/ up'[Me] = up[Me]
    BY <1>5, CurrentGeneration DEF Undisturbed
  <2>4. AllAre(up'[Me], lastModel + 1)
    BY <2>2, <2>3, AllAreAppend DEF KeptPace
  <2> QED
    BY <2>1, <2>4 DEF KeptPace, Running, Campaign!campaignVars
<1>6. CASE CenterSends \/ EdgeConnects \/ EdgeRelays \/ UNCHANGED vars
  BY <1>2, <1>6 DEF CenterSends, Center!SendNextModel, EdgeConnects, Center!EdgeConnects,
     Center!missionVars, EdgeRelays, Edge!ModelFromCenter, missionVars, wireVars, vars
<1>7. ASSUME NEW c \in Clients,
             EdgeHolds(c) \/ ClientReceives(c) \/ ClientFinishes(c) \/ ClientRetries(c)
      PROVE  KeptPace' /\ [Campaign!Next]_(Campaign!campaignVars)
  BY <1>2, <1>7 DEF EdgeHolds, Edge!HoldModel, ClientReceives, ClientFinishes,
     ClientPublishes, ClientFails, ClientRetries, missionVars, wireVars
<1> QED
  BY <1>3, <1>4, <1>5, <1>6, <1>7, UndisturbedSteps

\* Without faults the whole system does what the operator is promised, for any
\* number of clients: one round after the other, and at the end a model that has
\* been trained exactly as often as was asked for, however often training failed.
THEOREM FederationImplementsCampaign ==
    ASSUME MaxFaults = 0
    PROVE  Spec => Campaign!Spec
<1>1. Init => Campaign!Init /\ KeptPace
  BY AllAreEmpty DEF Init, Center!Init, Center!InitialModel, Campaign!Init, KeptPace,
                     Running, Edges
<1>2. /\ TypeOK /\ TypeOK' /\ Shares /\ Fresh /\ Undisturbed /\ Undisturbed'
      /\ KeptPace /\ [Next]_vars
      => KeptPace' /\ [Campaign!Next]_(Campaign!campaignVars)
  BY StepOfCampaign
<1> QED
  BY <1>1, <1>2, TypeCorrect, SharesHold, FreshHolds, UndisturbedHolds, PTL
  DEF Spec, Campaign!Spec

=============================================================================
