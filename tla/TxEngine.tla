------------------------------ MODULE TxEngine ------------------------------
(***************************************************************************)
(* internal/txengine/engine.go: Send, run concurrently by virtual users    *)
(* that may share a wallet, on top of the nonce manager and of a node.     *)
(*                                                                         *)
(* A VU loops over Send.  Each call out of the process (NonceAt, the fee,  *)
(* gas and signing calls, SendRawTransaction, TransactionReceipt) and each *)
(* critical section of the nonce manager is a step of its own.  A call     *)
(* cut short by its context is a call that fails.                          *)
(***************************************************************************)
EXTENDS NonceManager, EVMNode

CONSTANTS WalletOf,     \* the wallet each VU was given
          LostReplies,  \* can SendTransaction fail after the node took it?
          MaxSends,     \* bound: sends of each VU
          NoTx          \* the zero hash

ASSUME EngineAssumption ==
    /\ WalletOf \in [VUs -> Wallets]
    /\ LostReplies \in BOOLEAN
    /\ MaxSends \in [VUs -> Nat]
    /\ Outside \notin VUs

VARIABLES pc,        \* where each VU is in Send
          nonce,     \* the nonce it was handed and still owns, or NoNonce
          seen,      \* the answer of Resync's NonceAt, not yet stored
          sends,     \* sends begun
          out,       \* what its last Send came to
          resynced,  \* history: wallets whose counter a Resync overwrote
          dryRun     \* Engine.DryRun, set once for the run

engineVars == <<pc, nonce, seen, sends, out, resynced, dryRun>>
vars == <<nonceVars, nodeVars, engineVars>>

NoNonce == -1

PCs == {"idle", "next", "fetch", "build", "submit", "releaseError",
        "releaseDryRun", "releaseNonceError", "refetch", "store", "wait"}

(* The outcomes of Send: dryRun and submitted are successes that did not   *)
(* wait; error, resynced and unsynced carry no hash, the last two being    *)
(* nonce errors after which Resync worked or failed; unconfirmed is the    *)
(* error that does carry one.                                              *)
Kinds == {"none", "dryRun", "submitted", "success", "reverted",
          "error", "resynced", "unsynced", "unconfirmed"}

Txs == [n : Nat, by : VUs \cup {Outside}, k : Nat]

TypeOK ==
    /\ NonceTypeOK
    /\ mined \in [Wallets -> Nat]
    /\ pool \in [Wallets -> SUBSET Txs]
    /\ done \in [Wallets -> SUBSET Txs]
    /\ external \in Nat
    /\ pc \in [VUs -> PCs]
    /\ nonce \in [VUs -> Nat \cup {NoNonce}]
    /\ seen \in [VUs -> Nat \cup {NoNonce}]
    /\ sends \in [VUs -> Nat]
    /\ out \in [VUs -> [kind : Kinds, hash : Txs \cup {NoTx}]]
    /\ resynced \in SUBSET Wallets
    /\ dryRun \in BOOLEAN

Init ==
    /\ NonceInit
    /\ NodeInit
    /\ pc = [v \in VUs |-> "idle"]
    /\ nonce = [v \in VUs |-> NoNonce]
    /\ seen = [v \in VUs |-> NoNonce]
    /\ sends = [v \in VUs |-> 0]
    /\ out = [v \in VUs |-> [kind |-> "none", hash |-> NoTx]]
    /\ resynced = {}
    /\ dryRun \in BOOLEAN

Goto(v, from, to) == /\ pc[v] = from
                     /\ pc' = [pc EXCEPT ![v] = to]

Return(v, from, kind, hash) ==
    /\ Goto(v, from, "idle")
    /\ out' = [out EXCEPT ![v] = [kind |-> kind, hash |-> hash]]

(* The transaction v builds: its nonce, and everything else it is made of. *)
TxOf(v) == [n |-> nonce[v], by |-> v, k |-> sends[v]]

Start(v) ==
    /\ Goto(v, "idle", "next")
    /\ sends[v] < MaxSends[v]
    /\ sends' = [sends EXCEPT ![v] = @ + 1]
    /\ UNCHANGED <<nonceVars, nodeVars, nonce, seen, out, resynced, dryRun>>
-----------------------------------------------------------------------------
(* Nonces.Next: at once when the counter is known, else through the chain. *)

TakeNonce(v) ==
    /\ Goto(v, "next", "build")
    /\ NextCached(WalletOf[v], next[WalletOf[v]])
    /\ nonce' = [nonce EXCEPT ![v] = next[WalletOf[v]]]
    /\ UNCHANGED <<nodeVars, seen, sends, out, resynced, dryRun>>

BeginFirstFetch(v) ==
    /\ Goto(v, "next", "fetch")
    /\ NextFetchBegin(v, WalletOf[v])
    /\ UNCHANGED <<nodeVars, nonce, seen, sends, out, resynced, dryRun>>

EndFirstFetch(v) ==
    /\ Goto(v, "fetch", "build")
    /\ \E n \in PendingCandidates(WalletOf[v]) :
        /\ IsPendingNonce(WalletOf[v], n)
        /\ NextFetchEnd(v, WalletOf[v], n)
        /\ nonce' = [nonce EXCEPT ![v] = n]
    /\ UNCHANGED <<nodeVars, seen, sends, out, resynced, dryRun>>

(* Mutant of FailFirstFetch: the error carries the hash of a transaction   *)
(* that was never built.                                                   *)
FailFirstFetchWithHash(v) ==
    /\ Return(v, "fetch", "error", TxOf(v))
    /\ NextFetchError(v)
    /\ UNCHANGED <<nodeVars, nonce, seen, sends, resynced, dryRun>>

FailFirstFetch(v) ==
    /\ Return(v, "fetch", "error", NoTx)
    /\ NextFetchError(v)
    /\ UNCHANGED <<nodeVars, nonce, seen, sends, resynced, dryRun>>
-----------------------------------------------------------------------------
(* SuggestFees, EstimateGas and SignTx: three calls, the failure of any of *)
(* which releases the nonce and returns the error.  A dry run stops here.  *)

Build(v) ==
    /\ Goto(v, "build", IF dryRun THEN "releaseDryRun" ELSE "submit")
    /\ UNCHANGED <<nonceVars, nodeVars, nonce, seen, sends, out, resynced, dryRun>>

FailBuild(v) ==
    /\ Goto(v, "build", "releaseError")
    /\ UNCHANGED <<nonceVars, nodeVars, nonce, seen, sends, out, resynced, dryRun>>
-----------------------------------------------------------------------------
(* SendRawTransaction.  Once the node has it the nonce is spent; a caller  *)
(* that does not wait returns, the other one polls for the receipt.        *)

Submit(v) ==
    /\ Accept(WalletOf[v], TxOf(v))
    /\ nonce' = [nonce EXCEPT ![v] = NoNonce]
    /\ \/ Return(v, "submit", "submitted", TxOf(v))
       \/ /\ Goto(v, "submit", "wait")
          /\ out' = [out EXCEPT ![v] = [kind |-> "none", hash |-> TxOf(v)]]
    /\ UNCHANGED <<nonceVars, seen, sends, resynced, dryRun>>

(* The node took it and the caller is told it failed: a connection reset,  *)
(* a proxy's timeout, the run's deadline.                                  *)
SubmitReplyLost(v) ==
    /\ LostReplies
    /\ Goto(v, "submit", "releaseError")
    /\ Accept(WalletOf[v], TxOf(v))
    /\ UNCHANGED <<nonceVars, nonce, seen, sends, out, resynced, dryRun>>

SubmitRefused(v) ==
    /\ Goto(v, "submit", "releaseError")
    /\ RejectOther
    /\ UNCHANGED <<nonceVars, nonce, seen, sends, out, resynced, dryRun>>

SubmitNonceError(v) ==
    /\ Goto(v, "submit", "releaseNonceError")
    /\ RejectNonce(WalletOf[v], TxOf(v))
    /\ UNCHANGED <<nonceVars, nonce, seen, sends, out, resynced, dryRun>>
-----------------------------------------------------------------------------
(* Nonces.Release, at the three places it is called from. *)

ReleaseNonce(v) ==
    /\ Release(WalletOf[v], nonce[v])
    /\ nonce' = [nonce EXCEPT ![v] = NoNonce]
    /\ \/ Return(v, "releaseError", "error", NoTx)
       \/ Return(v, "releaseDryRun", "dryRun", NoTx)
       \/ Goto(v, "releaseNonceError", "refetch") /\ UNCHANGED out
    /\ UNCHANGED <<nodeVars, seen, sends, resynced, dryRun>>

(* Nonces.Resync: NonceAt with the mutex free, then the store.  A failure  *)
(* is logged and Send returns the nonce error all the same.                *)

Refetch(v) ==
    /\ Goto(v, "refetch", "store")
    /\ \E n \in PendingCandidates(WalletOf[v]) :
        /\ IsPendingNonce(WalletOf[v], n)
        /\ seen' = [seen EXCEPT ![v] = n]
    /\ UNCHANGED <<nonceVars, nodeVars, nonce, sends, out, resynced, dryRun>>

FailRefetch(v) ==
    /\ Return(v, "refetch", "unsynced", NoTx)
    /\ UNCHANGED <<nonceVars, nodeVars, nonce, seen, sends, resynced, dryRun>>

Store(v) ==
    /\ Return(v, "store", "resynced", NoTx)
    /\ ResyncStore(WalletOf[v], seen[v])
    /\ seen' = [seen EXCEPT ![v] = NoNonce]
    /\ resynced' = resynced \cup {WalletOf[v]}
    /\ UNCHANGED <<nodeVars, nonce, sends, dryRun>>
-----------------------------------------------------------------------------
(* waitForConfirmation: a receipt ends the wait, with the status the chain *)
(* gave it; so does the deadline or the context.  A poll that fails is     *)
(* repeated, which changes nothing.                                        *)

(* Mutant of Confirm: any mined transaction with the nonce is a receipt. *)
ConfirmByNonce(v) ==
    /\ \/ Return(v, "wait", "success", out[v].hash)
       \/ Return(v, "wait", "reverted", out[v].hash)
    /\ \E t \in done[WalletOf[v]] : t.n = out[v].hash.n
    /\ UNCHANGED <<nonceVars, nodeVars, nonce, seen, sends, resynced, dryRun>>

Confirm(v) ==
    /\ out[v].hash \in done[WalletOf[v]]
    /\ \/ Return(v, "wait", "success", out[v].hash)
       \/ Return(v, "wait", "reverted", out[v].hash)
    /\ UNCHANGED <<nonceVars, nodeVars, nonce, seen, sends, resynced, dryRun>>

(* Mutant of GiveUpWaiting: the timeout's outcome leaves the hash out. *)
GiveUpWaitingNoHash(v) ==
    /\ Return(v, "wait", "error", NoTx)
    /\ UNCHANGED <<nonceVars, nodeVars, nonce, seen, sends, resynced, dryRun>>

GiveUpWaiting(v) ==
    /\ Return(v, "wait", "unconfirmed", out[v].hash)
    /\ UNCHANGED <<nonceVars, nodeVars, nonce, seen, sends, resynced, dryRun>>
-----------------------------------------------------------------------------
(* The steps of v that need the mutex, and the rest. *)
LockStep(v) == \/ TakeNonce(v)
               \/ BeginFirstFetch(v)
               \/ ReleaseNonce(v)
               \/ Store(v)

CallStep(v) == \/ EndFirstFetch(v) \/ FailFirstFetch(v)
               \/ Build(v) \/ FailBuild(v)
               \/ Submit(v) \/ SubmitReplyLost(v)
               \/ SubmitRefused(v) \/ SubmitNonceError(v)
               \/ Refetch(v) \/ FailRefetch(v)
               \/ Confirm(v) \/ GiveUpWaiting(v)

NodeStep(w) == /\ Mine(w) \/ ExternalSend(w)
               /\ UNCHANGED <<nonceVars, engineVars>>

Next == \/ \E v \in VUs : Start(v) \/ LockStep(v) \/ CallStep(v)
        \/ \E w \in Wallets : NodeStep(w)

Spec == Init /\ [][Next]_vars

(* A call returns or is cut short by its context; sync.Mutex hands itself  *)
(* to a waiter that has starved, so a step that finds it free again and    *)
(* again is taken; a VU goes on until its run ends; blocks are produced.   *)
Fairness == /\ \A v \in VUs : /\ SF_vars(LockStep(v))
                              /\ WF_vars(CallStep(v))
                              /\ WF_vars(Start(v))
            /\ \A w \in Wallets : WF_vars(Mine(w) /\ UNCHANGED <<nonceVars, engineVars>>)

FairSpec == Spec /\ Fairness
-----------------------------------------------------------------------------
(* Two VUs that own a nonce of the same wallet own different ones: the     *)
(* promise of nonce.go:13-15, for the VUs between Next and the node's      *)
(* answer.                                                                 *)
CollisionFree ==
    \A u, v \in VUs :
        (u # v /\ WalletOf[u] = WalletOf[v] /\ nonce[u] # NoNonce)
            => nonce[u] # nonce[v]

(* The promise above, kept on whatever node and whatever else sends from   *)
(* the wallet for as long as no Resync has overwritten the wallet's        *)
(* counter: allocation and the rewind of Release never hand a nonce that   *)
(* is still owned to a second VU.                                          *)
CollisionFreeUntilResync ==
    \A u, v \in VUs :
        (/\ u # v
         /\ WalletOf[u] = WalletOf[v]
         /\ WalletOf[u] \notin resynced
         /\ nonce[u] # NoNonce)
            => nonce[u] # nonce[v]

(* Where the node queues gapped nonces, nobody else uses the wallets and   *)
(* no reply is lost, the local counters never drift: the node never        *)
(* answers a nonce error, so Resync is never called (engine.go:105-108     *)
(* names exactly those as its causes).                                     *)
NeverDrifts == \A v \in VUs : pc[v] \notin {"releaseNonceError", "refetch", "store"}

(* A Send that failed without a hash has not put its transaction on the    *)
(* network, unless the node's reply to it was lost: what executeWithRetry  *)
(* relies on when it runs the step again (load/engine.go:260-263, "meaning *)
(* nothing was ever broadcast").                                           *)
ErrorMeansNotBroadcast ==
    \A v \in VUs :
        (pc[v] = "idle" /\ out[v].kind \in {"error", "resynced", "unsynced"}) =>
            \A t \in pool[WalletOf[v]] \cup done[WalletOf[v]] :
                t.by = v => t.k # sends[v]

(* A Send that reports a confirmation reports it of its own transaction:   *)
(* that very transaction, not another one that took the same nonce, is in  *)
(* a block.                                                                *)
ConfirmedIsMined ==
    \A v \in VUs :
        out[v].kind \in {"success", "reverted"} =>
            /\ out[v].hash \in done[WalletOf[v]]
            /\ out[v].hash.by = v

(* The other VUs of v's wallet have not sent yet, nor has anyone else. *)
Alone(v) == /\ external = 0
            /\ \A u \in VUs \ {v} : WalletOf[u] = WalletOf[v] => sends[u] = 0

(* A VU that has its wallet to itself leaves the counter exact after every *)
(* Send, failed or not: what it hands out next is what the chain expects   *)
(* next, so no failure opens a gap and no dry run uses a nonce up.         *)
ExactWhenIdle ==
    \A v \in VUs :
        (pc[v] = "idle" /\ Alone(v) /\ next[WalletOf[v]] # Unset) =>
            IsPendingNonce(WalletOf[v], next[WalletOf[v]])

(* After a Resync that worked, a VU that has its wallet to itself does not *)
(* meet a nonce error again, unless another reply is lost meanwhile        *)
(* (engine.go:107-108: "so the next iteration for this wallet doesn't keep *)
(* failing the same way").                                                 *)
ResyncHeals ==
    [][\A v \in VUs :
        (out[v].kind = "resynced" /\ out'[v] # out[v] /\ Alone(v))
            => out'[v].kind \notin {"resynced", "unsynced"}]_vars

(* Every Send returns, whatever fails: no VU waits for ever on the mutex,  *)
(* on the node or on a receipt.                                            *)
SendReturns == \A v \in VUs : pc[v] # "idle" ~> pc[v] = "idle"

(* The engine implements the abstract allocator: owned nonces are owned    *)
(* there, the nonces of pooled and mined transactions are spent there.     *)
Allocator == INSTANCE NonceAllocator WITH
    held <- nonce,
    used <- [w \in Wallets |-> {t.n : t \in pool[w] \cup done[w]}]

ImplementsAllocator == Allocator!Spec
=============================================================================
