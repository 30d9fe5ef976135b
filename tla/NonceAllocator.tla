--------------------------- MODULE NonceAllocator ---------------------------
(***************************************************************************)
(* What internal/wallet/nonce.go promises its callers ("strictly           *)
(* increasing, collision-free nonces per address"), with no counter, no    *)
(* mutex and no chain: a nonce is issued only if no other caller of the    *)
(* wallet owns it and no transaction has used it; it comes back unused or  *)
(* it is spent.                                                            *)
(***************************************************************************)
EXTENDS Actors, Integers

CONSTANTS WalletOf,  \* the wallet of each VU
          NoNonce    \* owning none

VARIABLES held,      \* the nonce each VU owns
          used       \* the nonces each wallet has spent

vars == <<held, used>>

Init == /\ held = [v \in VUs |-> NoNonce]
        /\ used = [w \in Wallets |-> {}]

(* The nonces of w that are no longer free. *)
Taken(w) == used[w] \cup ({held[v] : v \in {u \in VUs : WalletOf[u] = w}} \ {NoNonce})

Issue(v) == /\ held[v] = NoNonce
            /\ held'[v] \in Nat \ Taken(WalletOf[v])
            /\ held' = [held EXCEPT ![v] = held'[v]]
            /\ UNCHANGED used

GiveBack(v) == /\ held[v] # NoNonce
               /\ held' = [held EXCEPT ![v] = NoNonce]
               /\ UNCHANGED used

Spend(v) == /\ held[v] # NoNonce
            /\ used' = [used EXCEPT ![WalletOf[v]] = @ \cup {held[v]}]
            /\ held' = [held EXCEPT ![v] = NoNonce]

Next == \E v \in VUs : Issue(v) \/ GiveBack(v) \/ Spend(v)

Spec == Init /\ [][Next]_vars
=============================================================================
