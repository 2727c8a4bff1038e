---------------------------- MODULE MCModelUplink ----------------------------
(* ModelUplink on files around the chunk and window sizes.                  *)
EXTENDS ModelUplink, TLC

CONSTANTS short, medium, long, huge

Sizes == short :> 1 @@ medium :> 3 @@ long :> 5 @@ huge :> 6

=============================================================================
