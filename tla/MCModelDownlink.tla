--------------------------- MODULE MCModelDownlink ---------------------------
(* ModelDownlink on two small files.                                        *)
EXTENDS ModelDownlink, TLC

CONSTANTS a, b

Sizes == a :> 1 @@ b :> 3

SomeSizes == {-1, 0, 2, 100}

=============================================================================
