---------------------------- MODULE ModelMessages ----------------------------
(***************************************************************************)
(* How both publishModel functions, the edge's and the client's, put a     *)
(* model file on MQTT topics: .../chunk_0, .../chunk_1, ... and .../end,   *)
(* which carries the size.  A message is known by its model and its part:  *)
(* 1, 2, ... for the chunks and EndMarker.  All models have the same size, *)
(* being the parameters of one network.                                    *)
(***************************************************************************)
EXTENDS Naturals, Sequences

CONSTANTS
    Clients,
    Edge,        \* the edge, as the owner of a connection to the broker
    Chunks       \* chunks of 512 KB of a model file

ASSUME ChunksAssumption == Chunks \in Nat \ {0}

EndMarker == 0

FileOf(m) == [i \in 1..Chunks |-> [model |-> m, part |-> i]]
Messages(m) == Append(FileOf(m), [model |-> m, part |-> EndMarker])

KindOf(msg) == IF msg.part = EndMarker THEN "end" ELSE "chunk"

\* Lost messages of each kind, and messages lost to a failing disk.
NoLosses == [chunk |-> 0, end |-> 0, disk |-> 0]

=============================================================================
