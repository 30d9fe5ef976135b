----------------------------- MODULE MCTxEngine -----------------------------
(***************************************************************************)
(* Instances of TxEngine for TLC.                                          *)
(***************************************************************************)
EXTENDS TxEngine, TLC

CONSTANTS v1, v2, v3, w1, w2

(* v1 and v2 on one wallet. *)
Shared == [v \in VUs |-> w1]

(* v3 has a wallet of its own. *)
SharedAndOwn == v1 :> w1 @@ v2 :> w1 @@ v3 :> w2

(* Sends of each VU. *)
TwoEach == [v \in VUs |-> 2]
ThreeAndOne == v1 :> 3 @@ v2 :> 1
ThreeAndOneEach == v1 :> 3 @@ v2 :> 1 @@ v3 :> 1
=============================================================================
