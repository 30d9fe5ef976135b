--------------------------- MODULE MCDistributed ---------------------------
(***************************************************************************)
(* Instances of Distributed for TLC.                                       *)
(***************************************************************************)
EXTENDS Distributed

CONSTANTS p1, p2, p3

(* Every process reports an id of its own, as hostname-pid does. *)
OwnId == [p \in Workers |-> p]

Pair(timeout, faults) ==
    [started |-> {p1, p2}, progress |-> TRUE, timeout |-> timeout, faults |-> faults]

(* A cohort with progress pushes whose workers crash and hang up, with and *)
(* without a timeout; one with a late process and every fault but a crash, *)
(* which for the controller is no different from the others.               *)
AllSetups ==
    {Pair(timeout, {"crash", "disconnect"}) : timeout \in BOOLEAN}
      \cup {[started |-> Workers, progress |-> FALSE, timeout |-> TRUE,
             faults |-> {"disconnect", "loss", "dial"}]}

(* Two workers that push progress, and nothing fails. *)
NoFaults == {Pair(FALSE, {})}
=============================================================================
