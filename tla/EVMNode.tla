------------------------------- MODULE EVMNode -------------------------------
(***************************************************************************)
(* The EVM node behind chain.Adapter, external to this repository and      *)
(* modelled from how internal/chain/evm/adapter.go and                     *)
(* internal/txengine/engine.go use it: PendingNonceAt, SendTransaction     *)
(* with its nonce errors, and TransactionReceipt.                          *)
(*                                                                         *)
(* A transaction is [n |-> nonce, by |-> sender's VU, k |-> that VU's      *)
(* k-th send]: the pair by, k stands for everything else that is hashed    *)
(* (recipient, value, data, fees).  Nonces are counted from the account's  *)
(* nonce when the run starts.                                              *)
(***************************************************************************)
EXTENDS Actors, Integers

CONSTANTS Outside,      \* the sender of a transaction web3load did not send
          GapPolicy,    \* what the node does with a nonce beyond the pending
                        \* one: "queue" it (geth) or "reject" it as too high
          MaxExternal   \* bound: transactions sent by others from our wallets

ASSUME NodeAssumption == /\ GapPolicy \in {"queue", "reject"}
                         /\ MaxExternal \in Nat

VARIABLES mined,    \* account nonce: the next one a block may include
          pool,     \* transactions accepted and not mined
          done,     \* transactions mined
          external  \* number of transactions sent by others so far

nodeVars == <<mined, pool, done, external>>

NodeInit == /\ mined = [w \in Wallets |-> 0]
            /\ pool = [w \in Wallets |-> {}]
            /\ done = [w \in Wallets |-> {}]
            /\ external = 0

Pooled(w, n) == \E t \in pool[w] : t.n = n

(* n is what PendingNonceAt answers for w: the first nonce that is neither *)
(* mined nor in the pool.                                                  *)
IsPendingNonce(w, n) ==
    /\ n = mined[w] \/ \E t \in pool[w] : n = t.n + 1
    /\ n >= mined[w]
    /\ ~Pooled(w, n)
    /\ \A m \in mined[w] .. (n - 1) : Pooled(w, m)

(* The candidates among which IsPendingNonce picks one. *)
PendingCandidates(w) == {mined[w]} \cup {t.n + 1 : t \in pool[w]}

TooLow(w, t) == t.n < mined[w]
TooHigh(w, t) == /\ GapPolicy = "reject"
                 /\ \E m \in mined[w] .. (t.n - 1) : ~Pooled(w, m)

(* SendTransaction: the node takes t.  A transaction with the nonce of a   *)
(* pooled one replaces it when it pays enough more.                        *)
Accept(w, t) ==
    /\ ~TooLow(w, t)
    /\ ~TooHigh(w, t)
    /\ pool' = [pool EXCEPT ![w] = {u \in @ : u.n # t.n} \cup {t}]
    /\ UNCHANGED <<mined, done, external>>

(* "nonce too low" and "nonce too high", the errors isNonceError knows. *)
RejectNonce(w, t) ==
    /\ TooLow(w, t) \/ TooHigh(w, t)
    /\ UNCHANGED nodeVars

(* Any other refusal: "already known", "replacement transaction            *)
(* underpriced", insufficient funds, or the request never reached the      *)
(* node.                                                                   *)
RejectOther == UNCHANGED nodeVars

(* A block includes the wallet's next transaction. *)
Mine(w) ==
    \E t \in pool[w] :
        /\ t.n = mined[w]
        /\ mined' = [mined EXCEPT ![w] = @ + 1]
        /\ pool' = [pool EXCEPT ![w] = @ \ {t}]
        /\ done' = [done EXCEPT ![w] = @ \cup {t}]
        /\ UNCHANGED external

(* Someone else sends from the same wallet. *)
ExternalSend(w) ==
    /\ external < MaxExternal
    /\ external' = external + 1
    /\ \E n \in PendingCandidates(w) :
        /\ IsPendingNonce(w, n)
        /\ pool' = [pool EXCEPT ![w] =
                        @ \cup {[n |-> n, by |-> Outside, k |-> external]}]
    /\ UNCHANGED <<mined, done>>
=============================================================================
