-------------------------- MODULE TrainingCampaign --------------------------
(***************************************************************************)
(* What the centre promises an operator who asks for n rounds of training: *)
(* the rounds are done one after the other, each of them on the model the  *)
(* round before left, and after the last one a model trained exactly n     *)
(* times is released, once.                                                *)
(***************************************************************************)
EXTENDS Naturals, Sequences

CONSTANTS MaxRounds, MaxCampaigns

VARIABLES asked,     \* rounds the operator asked for
          finished,  \* rounds done so far
          released   \* the models released, each with its number of rounds

campaignVars == <<asked, finished, released>>

Init == asked = 0 /\ finished = 0 /\ released = << >>

Start == /\ finished = asked
         /\ Len(released) < MaxCampaigns
         /\ asked' \in 1..MaxRounds
         /\ finished' = 0
         /\ UNCHANGED released

FinishRound == /\ finished < asked
               /\ finished' = finished + 1
               /\ released' = IF finished + 1 = asked THEN Append(released, asked)
                                                      ELSE released
               /\ UNCHANGED asked

Next == Start \/ FinishRound

Spec == Init /\ [][Next]_campaignVars

FairSpec == Spec /\ WF_campaignVars(FinishRound)

=============================================================================
