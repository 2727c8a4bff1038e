--------------------------- MODULE MCModelExchange ---------------------------
(* ModelExchange with an edge and the two clients it asks for.              *)
EXTENDS ModelExchange

CONSTANTS client01, client02, edge

ClientsAlike == Permutations(Clients)

=============================================================================
