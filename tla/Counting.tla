------------------------------ MODULE Counting ------------------------------
(***************************************************************************)
(* How many items of a queue or a record are of some sort.                 *)
(***************************************************************************)
EXTENDS Naturals, Sequences, FiniteSets, SequencesExt

\* The number of places of s that hold an element of S.
Count(s, S) == Cardinality({i \in DOMAIN s : s[i] \in S})

=============================================================================
