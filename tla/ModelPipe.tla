------------------------------ MODULE ModelPipe ------------------------------
(***************************************************************************)
(* What either direction of the TCP connection between centre and edge     *)
(* owes the training loop: models arrive whole, in order and once, or are  *)
(* lost together with the connection, or by the disk they are saved on:    *)
(* one that cannot be written loses the model, a full one keeps a part of  *)
(* it.  MissionControl's wires are such pipes.                             *)
(***************************************************************************)
EXTENDS Naturals, Sequences

CONSTANTS
    Models,
    DiskStates  \* what may become of the receiver's disk: "works", "full"
                \* or "unwritable"

VARIABLES wire,     \* models sent and not received yet
          received, \* models received, in order
          disk      \* the state of the receiver's disk

vars == <<wire, received, disk>>

Init == wire = << >> /\ received = << >> /\ disk = "works"

\* What the receiver passes on of the models it is sent.
Saved(models) ==
    CASE disk = "works" -> models
      [] disk = "full" -> [i \in 1..Len(models) |-> "torn"]
      [] disk = "unwritable" -> << >>

Send == /\ \E m \in Models : wire' = Append(wire, m)
        /\ UNCHANGED <<received, disk>>

\* One read may find several models.
Deliver(n) == /\ received' = received \o Saved(SubSeq(wire, 1, n))
              /\ wire' = SubSeq(wire, n + 1, Len(wire))
              /\ UNCHANGED disk

Lose == /\ wire # << >>
        /\ wire' = << >>
        /\ UNCHANGED <<received, disk>>

DiskChanges == /\ disk' \in DiskStates
               /\ UNCHANGED <<wire, received>>

Next == Send \/ (\E n \in 1..Len(wire) : Deliver(n)) \/ Lose \/ DiskChanges

Spec == Init /\ [][Next]_vars

=============================================================================
