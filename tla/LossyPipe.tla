------------------------------ MODULE LossyPipe ------------------------------
(***************************************************************************)
(* What the MQTT path between an edge and one of its clients owes the      *)
(* training: a model arrives whole or not at all, at most once and in the  *)
(* order of publication.  Any of them may be lost, alone: ModelPipe, the   *)
(* TCP path, loses models only together with the connection.               *)
(*                                                                         *)
(* Models are numbered as they are published, so that a set of them has an *)
(* order.                                                                  *)
(***************************************************************************)
EXTENDS Naturals, Sequences

VARIABLES sent,     \* the number of models published
          wire,     \* the models on their way
          received  \* models received, in order

Init == sent = 0 /\ wire = {} /\ received = << >>

\* The next model; it may be lost at once.
Send == /\ sent' = sent + 1
        /\ wire' \in {wire, wire \cup {sent'}}
        /\ UNCHANGED received

\* The oldest model on its way arrives.
Deliver == \E m \in wire : /\ \A other \in wire : m <= other
                           /\ received' = Append(received, m)
                           /\ wire' = wire \ {m}
                           /\ UNCHANGED sent

\* Only models in kept stay on their way.
Lose == /\ \E kept \in SUBSET wire : wire' = kept
        /\ UNCHANGED <<sent, received>>

Next == Send \/ Deliver \/ Lose

Spec == Init /\ [][Next]_<<sent, wire, received>>

=============================================================================
