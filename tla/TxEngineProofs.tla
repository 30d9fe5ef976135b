--------------------------- MODULE TxEngineProofs ---------------------------
(***************************************************************************)
(* Proofs about TxEngine, for every set of wallets and of VUs, every       *)
(* assignment of the ones to the others, every number of sends and every   *)
(* node.                                                                   *)
(***************************************************************************)
EXTENDS TxEngine, TLAPS

(* The control points at which a VU owns the nonce it was handed. *)
Owning == {"build", "submit", "releaseError", "releaseDryRun", "releaseNonceError"}

OwnsNonce == \A v \in VUs : pc[v] \in Owning => nonce[v] # NoNonce

TypeInv == TypeOK /\ OwnsNonce

(***************************************************************************)
(* Type correctness, together with the fact it rests on: a VU that is      *)
(* about to submit or to release has a nonce to submit or to release.      *)
(***************************************************************************)
LEMMA TypeInit == Init => TypeInv
BY DEF Init, NonceInit, NodeInit, TypeInv, TypeOK, NonceTypeOK, OwnsNonce, Owning,
       PCs, Kinds, Unset, NoNonce

LEMMA TypeStep == TypeInv /\ [Next]_vars => TypeInv'
<1> SUFFICES ASSUME TypeInv, [Next]_vars PROVE TypeInv'
  OBVIOUS
<1> USE NoVUAssumption, NodeAssumption, EngineAssumption
<1> USE DEF TypeInv, TypeOK, NonceTypeOK, OwnsNonce, Owning, PCs, Kinds,
            Unset, NoNonce, Goto, Return, nodeVars
<1>1. ASSUME NEW v \in VUs, Start(v) PROVE TypeInv'
  BY <1>1 DEF Start, nonceVars
<1>2. ASSUME NEW v \in VUs, TakeNonce(v) PROVE TypeInv'
  BY <1>2 DEF TakeNonce, NextCached
<1>3. ASSUME NEW v \in VUs, BeginFirstFetch(v) PROVE TypeInv'
  BY <1>3 DEF BeginFirstFetch, NextFetchBegin
<1>4. ASSUME NEW v \in VUs, EndFirstFetch(v) PROVE TypeInv'
  <2>1. PICK n \in PendingCandidates(WalletOf[v]) :
            /\ NextFetchEnd(v, WalletOf[v], n)
            /\ nonce' = [nonce EXCEPT ![v] = n]
    BY <1>4 DEF EndFirstFetch
  <2>2. n \in Nat
    BY DEF PendingCandidates, Txs
  <2> QED
    BY <1>4, <2>1, <2>2 DEF EndFirstFetch, NextFetchEnd
<1>5. ASSUME NEW v \in VUs, FailFirstFetch(v) PROVE TypeInv'
  BY <1>5 DEF FailFirstFetch, NextFetchError
<1>6. ASSUME NEW v \in VUs, Build(v) \/ FailBuild(v) PROVE TypeInv'
  BY <1>6 DEF Build, FailBuild, nonceVars
<1>7. ASSUME NEW v \in VUs, Submit(v) PROVE TypeInv'
  <2>1. TxOf(v) \in Txs
    BY <1>7 DEF Submit, TxOf, Txs
  <2>2. pool' \in [Wallets -> SUBSET Txs] /\ UNCHANGED <<mined, done, external>>
    BY <1>7, <2>1 DEF Submit, Accept
  <2>3. /\ nonce' = [nonce EXCEPT ![v] = NoNonce]
        /\ UNCHANGED <<next, mu, seen, sends, resynced, dryRun>>
    BY <1>7 DEF Submit, nonceVars
  <2>4. PICK to \in {"idle", "wait"}, k \in {"submitted", "none"} :
            /\ Goto(v, "submit", to)
            /\ out' = [out EXCEPT ![v] = [kind |-> k, hash |-> TxOf(v)]]
    BY <1>7 DEF Submit
  <2>5. pc' \in [VUs -> PCs] /\ \A u \in VUs : pc'[u] \in Owning => u # v /\ pc[u] \in Owning
    BY <2>4
  <2> DEFINE Outs == [kind : Kinds, hash : Txs \cup {NoTx}]
             o    == [kind |-> k, hash |-> TxOf(v)]
  <2>6. o \in Outs /\ out \in [VUs -> Outs] /\ out' = [out EXCEPT ![v] = o]
    BY <2>1, <2>4
  <2>7. out' \in [VUs -> Outs]
    <3> HIDE DEF Outs, o
    <3> QED
      BY <2>6
  <2>8. TypeOK'
    BY <2>2, <2>3, <2>5, <2>7
  <2>9. OwnsNonce'
    BY <2>3, <2>5
  <2> QED
    BY <2>8, <2>9
<1>8. ASSUME NEW v \in VUs, SubmitReplyLost(v) PROVE TypeInv'
  <2>1. TxOf(v) \in Txs
    BY <1>8 DEF SubmitReplyLost, TxOf, Txs
  <2> QED
    BY <1>8, <2>1 DEF SubmitReplyLost, Accept, nonceVars
<1>9. ASSUME NEW v \in VUs, SubmitRefused(v) \/ SubmitNonceError(v) PROVE TypeInv'
  BY <1>9 DEF SubmitRefused, SubmitNonceError, RejectOther, RejectNonce, nonceVars
<1>10. ASSUME NEW v \in VUs, ReleaseNonce(v) PROVE TypeInv'
  <2>1. next' \in [Wallets -> Nat \cup {Unset}] /\ mu' = mu
    BY <1>10 DEF ReleaseNonce, Release
  <2>2. nonce' = [nonce EXCEPT ![v] = NoNonce]
    BY <1>10 DEF ReleaseNonce
  <2>3. UNCHANGED <<nodeVars, seen, sends, resynced, dryRun>>
    BY <1>10 DEF ReleaseNonce
  <2>4. \/ Return(v, "releaseError", "error", NoTx)
        \/ Return(v, "releaseDryRun", "dryRun", NoTx)
        \/ Goto(v, "releaseNonceError", "refetch") /\ UNCHANGED out
    BY <1>10 DEF ReleaseNonce
  <2>5. pc' \in [VUs -> PCs] /\ pc'[v] \notin Owning
        /\ \A u \in VUs \ {v} : pc'[u] = pc[u]
    BY <2>4
  <2> DEFINE Outs == [kind : Kinds, hash : Txs \cup {NoTx}]
  <2>6. /\ out \in [VUs -> Outs]
        /\ UNCHANGED out \/ \E o \in Outs : out' = [out EXCEPT ![v] = o]
    BY <2>4
  <2>7. out' \in [VUs -> Outs]
    <3> HIDE DEF Outs
    <3> QED
      BY <2>6
  <2> QED
    BY <2>1, <2>2, <2>3, <2>5, <2>7
<1>11. ASSUME NEW v \in VUs, Refetch(v) PROVE TypeInv'
  BY <1>11 DEF Refetch, PendingCandidates, Txs, nonceVars
<1>12. ASSUME NEW v \in VUs, FailRefetch(v) PROVE TypeInv'
  BY <1>12 DEF FailRefetch, nonceVars
<1>13. ASSUME NEW v \in VUs, Store(v) PROVE TypeInv'
  <2>1. next' \in [Wallets -> Nat \cup {Unset}] /\ mu' = mu
    BY <1>13 DEF Store, ResyncStore
  <2> QED
    BY <1>13, <2>1 DEF Store
<1>14. ASSUME NEW v \in VUs, Confirm(v) \/ GiveUpWaiting(v) PROVE TypeInv'
  <2>1. PICK k \in Kinds : Return(v, "wait", k, out[v].hash)
    BY <1>14 DEF Confirm, GiveUpWaiting
  <2>2. UNCHANGED <<nonceVars, nodeVars, nonce, seen, sends, resynced, dryRun>>
    BY <1>14 DEF Confirm, GiveUpWaiting
  <2>3. out[v].hash \in Txs \cup {NoTx}
    OBVIOUS
  <2>4. out' \in [VUs -> [kind : Kinds, hash : Txs \cup {NoTx}]]
    BY <2>1, <2>3
  <2> QED
    BY <2>1, <2>2, <2>4 DEF nonceVars
<1>15. ASSUME NEW w \in Wallets, NodeStep(w) PROVE TypeInv'
  <2>1. CASE Mine(w)
    BY <1>15, <2>1 DEF NodeStep, Mine, nonceVars, engineVars
  <2>2. CASE ExternalSend(w)
    <3>1. \A n \in PendingCandidates(w) :
            [n |-> n, by |-> Outside, k |-> external] \in Txs
      BY DEF PendingCandidates, Txs
    <3> QED
      BY <1>15, <2>2, <3>1 DEF NodeStep, ExternalSend, nonceVars, engineVars
  <2> QED
    BY <1>15, <2>1, <2>2 DEF NodeStep
<1>16. CASE UNCHANGED vars
  BY <1>16 DEF vars, nonceVars, engineVars
<1> QED
  BY <1>1, <1>2, <1>3, <1>4, <1>5, <1>6, <1>7, <1>8, <1>9, <1>10, <1>11,
     <1>12, <1>13, <1>14, <1>15, <1>16 DEF Next, LockStep, CallStep

(* Every reachable state is well typed, and a VU that is about to submit   *)
(* or to release owns a nonce (Send in internal/txengine/engine.go).       *)
THEOREM TypeCorrect == Spec => []TypeInv
<1>1. Init => TypeInv
  BY TypeInit
<1>2. TypeInv /\ [Next]_vars => TypeInv'
  BY TypeStep
<1> QED
  BY <1>1, <1>2, PTL DEF Spec

(* Every reachable state is well typed. *)
THEOREM TypeOKHolds == Spec => []TypeOK
<1>1. TypeInv => TypeOK
  BY DEF TypeInv
<1> QED
  BY <1>1, TypeCorrect, PTL
-----------------------------------------------------------------------------
(***************************************************************************)
(* Collision freedom until a Resync.  What is inductive is that every      *)
(* owned nonce lies below the wallet's counter: Next hands out the counter *)
(* itself, Release lowers it only onto a nonce no one else owns, and the   *)
(* first fetch meets no owner, because the mutex kept the counter unset.   *)
(***************************************************************************)
BelowNext ==
    \A v \in VUs :
        (WalletOf[v] \notin resynced /\ nonce[v] # NoNonce)
            => nonce[v] < next[WalletOf[v]]

FetchInv == mu # NoVU => next[WalletOf[mu]] = Unset

CollisionInv == TypeInv /\ BelowNext /\ FetchInv /\ CollisionFreeUntilResync

LEMMA CollisionInit == Init => CollisionInv
<1> SUFFICES ASSUME Init PROVE CollisionInv
  OBVIOUS
<1>1. TypeInv
  BY TypeInit
<1> QED
  BY <1>1 DEF Init, NonceInit, CollisionInv, BelowNext, FetchInv,
              CollisionFreeUntilResync

(* The steps that touch neither counters nor ownership keep the invariant. *)
LEMMA CollisionFrame ==
    ASSUME CollisionInv, TypeInv', UNCHANGED <<next, mu, nonce, resynced>>
    PROVE  CollisionInv'
BY DEF CollisionInv, BelowNext, FetchInv, CollisionFreeUntilResync

(* A VU that gives up its nonce keeps it, too. *)
LEMMA CollisionDrop ==
    ASSUME CollisionInv, TypeInv', NEW v \in VUs,
           nonce' = [nonce EXCEPT ![v] = NoNonce],
           UNCHANGED <<next, mu, resynced>>
    PROVE  CollisionInv'
<1> USE DEF CollisionInv, TypeInv, TypeOK, NonceTypeOK, NoNonce
<1>1. BelowNext' /\ FetchInv'
  BY DEF BelowNext, FetchInv
<1>2. CollisionFreeUntilResync'
  BY DEF CollisionFreeUntilResync
<1> QED
  BY <1>1, <1>2

LEMMA CollisionStep == CollisionInv /\ [Next]_vars => CollisionInv'
<1> SUFFICES ASSUME CollisionInv, [Next]_vars PROVE CollisionInv'
  OBVIOUS
<1>0. TypeInv'
  BY TypeStep DEF CollisionInv
<1> USE NoVUAssumption, EngineAssumption
<1>1. ASSUME NEW v \in VUs, Start(v) PROVE CollisionInv'
  BY <1>0, <1>1, CollisionFrame DEF Start, nonceVars
<1>2. ASSUME NEW v \in VUs, TakeNonce(v) PROVE CollisionInv'
  <2> DEFINE w == WalletOf[v]
  <2>1. /\ next[w] \in Nat
        /\ next' = [next EXCEPT ![w] = next[w] + 1]
        /\ nonce' = [nonce EXCEPT ![v] = next[w]]
        /\ mu = NoVU /\ mu' = NoVU /\ resynced' = resynced
    BY <1>2 DEF TakeNonce, NextCached, CollisionInv, TypeInv, TypeOK, NonceTypeOK
  <2>2. BelowNext'
    BY <2>1 DEF BelowNext, CollisionInv, TypeInv, TypeOK, NonceTypeOK, Unset, NoNonce
  <2>3. CollisionFreeUntilResync'
    BY <2>1 DEF BelowNext, CollisionFreeUntilResync, CollisionInv, TypeInv,
                TypeOK, NonceTypeOK, Unset, NoNonce
  <2> QED
    BY <1>0, <2>1, <2>2, <2>3 DEF CollisionInv, FetchInv
<1>3. ASSUME NEW v \in VUs, BeginFirstFetch(v) PROVE CollisionInv'
  BY <1>0, <1>3 DEF BeginFirstFetch, NextFetchBegin, CollisionInv, BelowNext,
                    FetchInv, CollisionFreeUntilResync
<1>4. ASSUME NEW v \in VUs, EndFirstFetch(v) PROVE CollisionInv'
  <2> DEFINE w == WalletOf[v]
  <2>1. PICK n \in PendingCandidates(w) :
            /\ mu = v
            /\ next' = [next EXCEPT ![w] = n + 1]
            /\ mu' = NoVU
            /\ nonce' = [nonce EXCEPT ![v] = n]
            /\ resynced' = resynced
    BY <1>4 DEF EndFirstFetch, NextFetchEnd
  <2>2. n \in Nat
    BY DEF PendingCandidates, Txs, CollisionInv, TypeInv, TypeOK
  <2>3. next[w] = Unset
    BY <2>1 DEF CollisionInv, FetchInv
  <2>4. \A u \in VUs : (WalletOf[u] = w /\ w \notin resynced) => nonce[u] = NoNonce
    BY <2>3 DEF CollisionInv, BelowNext, TypeInv, TypeOK, Unset, NoNonce
  <2>5. BelowNext'
    BY <2>1, <2>2, <2>4 DEF BelowNext, CollisionInv, TypeInv, TypeOK, NonceTypeOK,
                            Unset, NoNonce
  <2>6. CollisionFreeUntilResync'
    BY <2>1, <2>2, <2>4 DEF CollisionFreeUntilResync, CollisionInv, TypeInv,
                            TypeOK, NoNonce
  <2> QED
    BY <1>0, <2>1, <2>5, <2>6 DEF CollisionInv, FetchInv
<1>5. ASSUME NEW v \in VUs, FailFirstFetch(v) PROVE CollisionInv'
  BY <1>0, <1>5 DEF FailFirstFetch, NextFetchError, CollisionInv, BelowNext,
                    FetchInv, CollisionFreeUntilResync
<1>6. ASSUME NEW v \in VUs, Build(v) \/ FailBuild(v) PROVE CollisionInv'
  BY <1>0, <1>6, CollisionFrame DEF Build, FailBuild, nonceVars
<1>7. ASSUME NEW v \in VUs, Submit(v) PROVE CollisionInv'
  BY <1>0, <1>7, CollisionDrop DEF Submit, nonceVars
<1>8. ASSUME NEW v \in VUs,
             SubmitReplyLost(v) \/ SubmitRefused(v) \/ SubmitNonceError(v)
      PROVE  CollisionInv'
  BY <1>0, <1>8, CollisionFrame
     DEF SubmitReplyLost, SubmitRefused, SubmitNonceError, nonceVars
<1>9. ASSUME NEW v \in VUs, ReleaseNonce(v) PROVE CollisionInv'
  <2> DEFINE w == WalletOf[v]
  <2>1. /\ mu = NoVU /\ mu' = NoVU /\ resynced' = resynced
        /\ nonce' = [nonce EXCEPT ![v] = NoNonce]
        /\ next' = IF next[w] = nonce[v] + 1
                     THEN [next EXCEPT ![w] = nonce[v]] ELSE next
    BY <1>9 DEF ReleaseNonce, Release
  <2>2. CASE next' = next
    BY <1>0, <2>1, <2>2, CollisionDrop
  <2>3. CASE next[w] = nonce[v] + 1 /\ next' = [next EXCEPT ![w] = nonce[v]]
    <3>1. nonce[v] \in Nat
      BY <1>9 DEF ReleaseNonce, Return, Goto, CollisionInv, TypeInv, TypeOK,
                  OwnsNonce, Owning, NoNonce
    <3>2. BelowNext'
      <4> SUFFICES ASSUME NEW u \in VUs, WalletOf[u] \notin resynced', nonce'[u] # NoNonce
                   PROVE  nonce'[u] < next'[WalletOf[u]]
        BY DEF BelowNext
      <4>1. u # v /\ nonce'[u] = nonce[u] /\ nonce[u] \in Nat
        BY <2>1 DEF CollisionInv, TypeInv, TypeOK, NoNonce
      <4>2. nonce[u] < next[WalletOf[u]]
        BY <2>1, <4>1 DEF CollisionInv, BelowNext
      <4>3. WalletOf[u] = w => nonce[u] # nonce[v]
        BY <2>1, <4>1 DEF CollisionInv, CollisionFreeUntilResync
      <4>4. next \in [Wallets -> Nat \cup {Unset}] /\ WalletOf[u] \in Wallets /\ w \in Wallets
        BY DEF CollisionInv, TypeInv, TypeOK, NonceTypeOK
      <4>5. CASE WalletOf[u] = w
        <5>1. next'[WalletOf[u]] = nonce[v]
          BY <2>3, <4>4, <4>5
        <5>2. nonce[u] < nonce[v] + 1
          BY <2>3, <4>2, <4>5
        <5> QED
          BY <3>1, <4>1, <4>3, <4>5, <5>1, <5>2
      <4>6. CASE WalletOf[u] # w
        BY <2>3, <4>1, <4>2, <4>4, <4>6
      <4> QED
        BY <4>5, <4>6
    <3>3. CollisionFreeUntilResync'
      BY <2>1 DEF CollisionFreeUntilResync, CollisionInv, TypeInv, TypeOK, NoNonce
    <3> QED
      BY <1>0, <2>1, <3>2, <3>3 DEF CollisionInv, FetchInv
  <2> QED
    BY <2>1, <2>2, <2>3
<1>10. ASSUME NEW v \in VUs, Refetch(v) \/ FailRefetch(v) PROVE CollisionInv'
  BY <1>0, <1>10, CollisionFrame DEF Refetch, FailRefetch, nonceVars
<1>11. ASSUME NEW v \in VUs, Store(v) PROVE CollisionInv'
  <2>1. /\ mu = NoVU /\ mu' = NoVU /\ UNCHANGED nonce
        /\ next' = [next EXCEPT ![WalletOf[v]] = seen[v]]
        /\ resynced' = resynced \cup {WalletOf[v]}
    BY <1>11 DEF Store, ResyncStore
  <2>2. BelowNext'
    BY <2>1 DEF BelowNext, CollisionInv, TypeInv, TypeOK, NonceTypeOK
  <2>3. CollisionFreeUntilResync'
    BY <2>1 DEF CollisionFreeUntilResync, CollisionInv
  <2> QED
    BY <1>0, <2>1, <2>2, <2>3 DEF CollisionInv, FetchInv
<1>12. ASSUME NEW v \in VUs, Confirm(v) \/ GiveUpWaiting(v) PROVE CollisionInv'
  BY <1>0, <1>12, CollisionFrame DEF Confirm, GiveUpWaiting, nonceVars
<1>13. ASSUME NEW w \in Wallets, NodeStep(w) PROVE CollisionInv'
  BY <1>0, <1>13, CollisionFrame DEF NodeStep, nonceVars, engineVars
<1>14. CASE UNCHANGED vars
  BY <1>0, <1>14, CollisionFrame DEF vars, nonceVars, engineVars
<1> QED
  BY <1>1, <1>2, <1>3, <1>4, <1>5, <1>6, <1>7, <1>8, <1>9, <1>10, <1>11,
     <1>12, <1>13, <1>14 DEF Next, LockStep, CallStep

(* On any node, with any lost replies and any outside sender, the nonce    *)
(* manager never hands a nonce to a VU while another VU of the wallet owns *)
(* it, unless a Resync has overwritten that wallet's counter               *)
(* (internal/wallet/nonce.go:30-58).                                       *)
THEOREM CollisionFreedom == Spec => []CollisionFreeUntilResync
<1>1. Init => CollisionInv
  BY CollisionInit
<1>2. CollisionInv /\ [Next]_vars => CollisionInv'
  BY CollisionStep
<1>3. CollisionInv => CollisionFreeUntilResync
  BY DEF CollisionInv
<1> QED
  BY <1>1, <1>2, <1>3, PTL DEF Spec
-----------------------------------------------------------------------------
(***************************************************************************)
(* What a Send reports: a confirmation is of the VU's own transaction, and *)
(* a failure without a hash left nothing on the network.                   *)
(***************************************************************************)

(* Mined transactions stay mined, and no action but Mine adds one. *)
LEMMA DoneGrows ==
    ASSUME TypeInv, [Next]_vars, NEW w \in Wallets
    PROVE  done[w] \subseteq done'[w]
<1> USE DEF nodeVars
<1>1. ASSUME NEW x \in Wallets, NodeStep(x) PROVE done[w] \subseteq done'[w]
  BY <1>1 DEF NodeStep, Mine, ExternalSend, TypeInv, TypeOK
<1>2. ASSUME NEW v \in VUs, Start(v) \/ LockStep(v) PROVE UNCHANGED done
  BY <1>2 DEF Start, LockStep, TakeNonce, BeginFirstFetch, ReleaseNonce, Store
<1>3. ASSUME NEW v \in VUs, CallStep(v) PROVE UNCHANGED done
  BY <1>3 DEF CallStep, EndFirstFetch, FailFirstFetch, Build, FailBuild, Submit,
       SubmitReplyLost, SubmitRefused, SubmitNonceError, Accept, RejectOther,
       RejectNonce, Refetch, FailRefetch, Confirm, GiveUpWaiting
<1> QED
  BY <1>1, <1>2, <1>3 DEF Next, vars

(***************************************************************************)
(* Confirmations.  A VU that waits holds the hash of a transaction of its  *)
(* own; Confirm ends the wait only when that one is mined.                 *)
(***************************************************************************)
WaitsForItsOwn == \A v \in VUs : pc[v] = "wait" => out[v].hash.by = v

ConfirmInv == TypeInv /\ WaitsForItsOwn /\ ConfirmedIsMined

LEMMA ConfirmInit == Init => ConfirmInv
<1> SUFFICES ASSUME Init PROVE ConfirmInv
  OBVIOUS
<1>1. TypeInv
  BY TypeInit
<1> QED
  BY <1>1 DEF Init, ConfirmInv, WaitsForItsOwn, ConfirmedIsMined

(* A step of v that leaves v elsewhere than in its wait, and its outcome   *)
(* as it was or without a confirmation.                                    *)
LEMMA ConfirmFrame ==
    ASSUME ConfirmInv, TypeInv', [Next]_vars, NEW v \in VUs,
           pc'[v] # "wait",
           \A u \in VUs \ {v} : pc'[u] = pc[u] /\ out'[u] = out[u],
           out'[v] = out[v] \/ out'[v].kind \notin {"success", "reverted"}
    PROVE  ConfirmInv'
<1>1. WaitsForItsOwn'
  BY DEF ConfirmInv, WaitsForItsOwn
<1>2. ConfirmedIsMined'
  <2> SUFFICES ASSUME NEW u \in VUs, out'[u].kind \in {"success", "reverted"}
               PROVE  out'[u].hash \in done'[WalletOf[u]] /\ out'[u].hash.by = u
    BY DEF ConfirmedIsMined
  <2>1. out'[u] = out[u]
    OBVIOUS
  <2>2. out[u].hash \in done[WalletOf[u]] /\ out[u].hash.by = u
    BY <2>1 DEF ConfirmInv, ConfirmedIsMined
  <2>3. done[WalletOf[u]] \subseteq done'[WalletOf[u]]
    BY DoneGrows, EngineAssumption DEF ConfirmInv
  <2> QED
    BY <2>1, <2>2, <2>3
<1> QED
  BY <1>1, <1>2 DEF ConfirmInv

LEMMA ConfirmStep == ConfirmInv /\ [Next]_vars => ConfirmInv'
<1> SUFFICES ASSUME ConfirmInv, [Next]_vars PROVE ConfirmInv'
  OBVIOUS
<1>0. TypeInv'
  BY TypeStep DEF ConfirmInv
<1>t. pc \in [VUs -> PCs] /\ out \in [VUs -> [kind : Kinds, hash : Txs \cup {NoTx}]]
  BY DEF ConfirmInv, TypeInv, TypeOK
<1> USE DEF Goto, Return
<1>1. ASSUME NEW v \in VUs, Start(v) \/ LockStep(v) PROVE ConfirmInv'
  BY <1>0, <1>t, <1>1, ConfirmFrame
     DEF Start, LockStep, TakeNonce, BeginFirstFetch, ReleaseNonce, Store
<1>2. ASSUME NEW v \in VUs,
             \/ EndFirstFetch(v) \/ FailFirstFetch(v) \/ Build(v) \/ FailBuild(v)
             \/ SubmitReplyLost(v) \/ SubmitRefused(v) \/ SubmitNonceError(v)
             \/ Refetch(v) \/ FailRefetch(v) \/ GiveUpWaiting(v)
      PROVE  ConfirmInv'
  BY <1>0, <1>t, <1>2, ConfirmFrame
     DEF EndFirstFetch, FailFirstFetch, Build, FailBuild, SubmitReplyLost,
         SubmitRefused, SubmitNonceError, Refetch, FailRefetch, GiveUpWaiting
<1>3. ASSUME NEW v \in VUs, Submit(v) PROVE ConfirmInv'
  <2>1. CASE Return(v, "submit", "submitted", TxOf(v))
    BY <1>0, <1>t, <2>1, ConfirmFrame
  <2>2. CASE /\ Goto(v, "submit", "wait")
             /\ out' = [out EXCEPT ![v] = [kind |-> "none", hash |-> TxOf(v)]]
    <3>1. WaitsForItsOwn'
      BY <1>t, <2>2 DEF ConfirmInv, WaitsForItsOwn, TxOf
    <3>2. ConfirmedIsMined'
      BY <1>t, <1>3, <2>2 DEF ConfirmInv, ConfirmedIsMined, Submit, Accept
    <3> QED
      BY <1>0, <3>1, <3>2 DEF ConfirmInv
  <2> QED
    BY <1>3, <2>1, <2>2 DEF Submit
<1>4. ASSUME NEW v \in VUs, Confirm(v) PROVE ConfirmInv'
  <2>1. PICK k \in {"success", "reverted"} :
            /\ pc[v] = "wait" /\ pc' = [pc EXCEPT ![v] = "idle"]
            /\ out' = [out EXCEPT ![v] = [kind |-> k, hash |-> out[v].hash]]
            /\ out[v].hash \in done[WalletOf[v]]
            /\ done' = done
    BY <1>4 DEF Confirm, nodeVars
  <2>2. WaitsForItsOwn'
    BY <1>t, <2>1 DEF ConfirmInv, WaitsForItsOwn
  <2>3. ConfirmedIsMined'
    BY <1>t, <2>1 DEF ConfirmInv, ConfirmedIsMined, WaitsForItsOwn
  <2> QED
    BY <1>0, <2>2, <2>3 DEF ConfirmInv
<1>5. ASSUME NEW w \in Wallets, NodeStep(w) PROVE ConfirmInv'
  <2>1. UNCHANGED <<pc, out>>
    BY <1>5 DEF NodeStep, engineVars
  <2>2. \A u \in VUs : done[WalletOf[u]] \subseteq done'[WalletOf[u]]
    BY DoneGrows, EngineAssumption DEF ConfirmInv
  <2> QED
    BY <1>0, <2>1, <2>2 DEF ConfirmInv, WaitsForItsOwn, ConfirmedIsMined
<1>6. CASE UNCHANGED vars
  BY <1>0, <1>6 DEF vars, nodeVars, engineVars, ConfirmInv, WaitsForItsOwn, ConfirmedIsMined
<1> QED
  BY <1>1, <1>2, <1>3, <1>4, <1>5, <1>6 DEF Next, CallStep

(* On any node, with any outside sender and any lost reply, a Send that    *)
(* reports a confirmation reports it of a transaction of its own that is   *)
(* in a block (txengine/engine.go:154-167).                                *)
THEOREM Confirmation == Spec => []ConfirmedIsMined
<1>1. Init => ConfirmInv
  BY ConfirmInit
<1>2. ConfirmInv /\ [Next]_vars => ConfirmInv'
  BY ConfirmStep
<1>3. ConfirmInv => ConfirmedIsMined
  BY DEF ConfirmInv
<1> QED
  BY <1>1, <1>2, <1>3, PTL DEF Spec
-----------------------------------------------------------------------------
(***************************************************************************)
(* Failures.  While v has not submitted its current send, and after it     *)
(* failed to, every transaction of its own that the node has is of an      *)
(* earlier send.                                                           *)
(***************************************************************************)
Failed(v) == pc[v] = "idle" /\ out[v].kind \in {"error", "resynced", "unsynced"}

Unsent(v) == pc[v] \notin {"idle", "wait"} \/ Failed(v)

SentBefore(v, t) ==
    t.by = v => t.k <= sends[v] /\ (Unsent(v) => t.k < sends[v])

OnlySentBefore ==
    \A v \in VUs : \A t \in pool[WalletOf[v]] \cup done[WalletOf[v]] : SentBefore(v, t)

FailureInv == TypeInv /\ OnlySentBefore

LEMMA FailureInit == Init => FailureInv
<1> SUFFICES ASSUME Init PROVE FailureInv
  OBVIOUS
<1>1. TypeInv
  BY TypeInit
<1> QED
  BY <1>1, EngineAssumption DEF Init, NodeInit, FailureInv, OnlySentBefore

(* A step that sends nothing, after which no VU counts as unsent that did  *)
(* not before.                                                             *)
LEMMA FailureFrame ==
    ASSUME FailureInv, TypeInv', UNCHANGED <<pool, done, sends>>,
           \A u \in VUs : Unsent(u)' => Unsent(u)
    PROVE  FailureInv'
BY DEF FailureInv, OnlySentBefore, SentBefore

LEMMA FailureStep == ASSUME ~LostReplies PROVE FailureInv /\ [Next]_vars => FailureInv'
<1> SUFFICES ASSUME FailureInv, [Next]_vars PROVE FailureInv'
  OBVIOUS
<1>0. TypeInv'
  BY TypeStep DEF FailureInv
<1>t. /\ pc \in [VUs -> PCs] /\ out \in [VUs -> [kind : Kinds, hash : Txs \cup {NoTx}]]
      /\ sends \in [VUs -> Nat] /\ WalletOf \in [VUs -> Wallets]
      /\ pool \in [Wallets -> SUBSET Txs] /\ done \in [Wallets -> SUBSET Txs]
  BY EngineAssumption DEF FailureInv, TypeInv, TypeOK
<1> USE DEF Goto, Return, nodeVars
<1>1. ASSUME NEW v \in VUs, Start(v) PROVE FailureInv'
  <2>1. /\ sends' = [sends EXCEPT ![v] = sends[v] + 1]
        /\ \A u \in VUs \ {v} : pc'[u] = pc[u]
        /\ UNCHANGED <<pool, done, out>>
    BY <1>t, <1>1 DEF Start
  <2> SUFFICES ASSUME NEW u \in VUs,
                      NEW t \in pool[WalletOf[u]] \cup done[WalletOf[u]], t.by = u
               PROVE  t.k <= sends'[u] /\ (Unsent(u)' => t.k < sends'[u])
    BY <1>0, <2>1 DEF FailureInv, OnlySentBefore, SentBefore
  <2>2. t.k <= sends[u] /\ (Unsent(u) => t.k < sends[u]) /\ t.k \in Nat
    BY <1>t DEF FailureInv, OnlySentBefore, SentBefore, Txs
  <2>3. CASE u = v
    BY <1>t, <2>1, <2>2, <2>3
  <2>4. CASE u # v
    BY <1>t, <2>1, <2>2, <2>4 DEF Unsent, Failed
  <2> QED
    BY <2>3, <2>4
<1>2. ASSUME NEW v \in VUs, LockStep(v) PROVE FailureInv'
  <2>1. /\ Unsent(v)
        /\ \A u \in VUs \ {v} : pc'[u] = pc[u] /\ out'[u] = out[u]
        /\ UNCHANGED <<pool, done, sends>>
    BY <1>t, <1>2 DEF LockStep, TakeNonce, BeginFirstFetch, ReleaseNonce, Store, Unsent
  <2> QED
    BY <1>0, <2>1, FailureFrame DEF Unsent, Failed
<1>3. ASSUME NEW v \in VUs,
             \/ EndFirstFetch(v) \/ FailFirstFetch(v) \/ Build(v) \/ FailBuild(v)
             \/ SubmitRefused(v) \/ SubmitNonceError(v) \/ Refetch(v) \/ FailRefetch(v)
      PROVE  FailureInv'
  <2>1. /\ Unsent(v)
        /\ \A u \in VUs \ {v} : pc'[u] = pc[u] /\ out'[u] = out[u]
        /\ UNCHANGED <<pool, done, sends>>
    BY <1>t, <1>3
       DEF EndFirstFetch, FailFirstFetch, Build, FailBuild, SubmitRefused,
           SubmitNonceError, RejectOther, RejectNonce, Refetch, FailRefetch, Unsent
  <2> QED
    BY <1>0, <2>1, FailureFrame DEF Unsent, Failed
<1>4. ASSUME NEW v \in VUs, Submit(v) PROVE FailureInv'
  <2> DEFINE w == WalletOf[v]
  <2>1. /\ pool' = [pool EXCEPT ![w] = {u \in pool[w] : u.n # TxOf(v).n} \cup {TxOf(v)}]
        /\ TxOf(v).by = v /\ TxOf(v).k = sends[v]
        /\ UNCHANGED <<done, sends>>
    BY <1>4 DEF Submit, Accept, TxOf
  <2>2. ~Unsent(v)' /\ \A u \in VUs \ {v} : pc'[u] = pc[u] /\ out'[u] = out[u]
    BY <1>t, <1>4 DEF Submit, Unsent, Failed
  <2> SUFFICES ASSUME NEW u \in VUs,
                      NEW t \in pool'[WalletOf[u]] \cup done'[WalletOf[u]], t.by = u
               PROVE  t.k <= sends[u] /\ (Unsent(u)' => t.k < sends[u])
    BY <1>0, <2>1 DEF FailureInv, OnlySentBefore, SentBefore
  <2>3. CASE t = TxOf(v)
    BY <1>t, <2>1, <2>2, <2>3
  <2>4. CASE t # TxOf(v)
    <3>1. t \in pool[WalletOf[u]] \cup done[WalletOf[u]]
      BY <1>t, <2>1, <2>4
    <3>2. t.k <= sends[u] /\ (Unsent(u) => t.k < sends[u])
      BY <3>1 DEF FailureInv, OnlySentBefore, SentBefore
    <3> QED
      BY <2>2, <3>2 DEF Unsent, Failed
  <2> QED
    BY <2>3, <2>4
<1>5. ASSUME NEW v \in VUs, SubmitReplyLost(v) PROVE FailureInv'
  BY <1>5 DEF SubmitReplyLost
<1>6. ASSUME NEW v \in VUs, Confirm(v) \/ GiveUpWaiting(v) PROVE FailureInv'
  <2>1. PICK k \in {"success", "reverted", "unconfirmed"} :
            /\ pc' = [pc EXCEPT ![v] = "idle"]
            /\ out' = [out EXCEPT ![v] = [kind |-> k, hash |-> out[v].hash]]
            /\ UNCHANGED <<pool, done, sends>>
    BY <1>6 DEF Confirm, GiveUpWaiting
  <2>2. ~Unsent(v)' /\ \A u \in VUs \ {v} : pc'[u] = pc[u] /\ out'[u] = out[u]
    BY <1>t, <2>1 DEF Unsent, Failed
  <2> QED
    BY <1>0, <2>1, <2>2, FailureFrame DEF Unsent, Failed
<1>7. ASSUME NEW w \in Wallets, NodeStep(w) PROVE FailureInv'
  <2>1. UNCHANGED <<pc, out, sends>>
    BY <1>7 DEF NodeStep, engineVars
  <2>2. \A x \in Wallets : \A t \in pool'[x] \cup done'[x] :
            t \in pool[x] \cup done[x] \/ t.by = Outside
    <3>1. CASE Mine(w)
      BY <1>t, <3>1 DEF Mine
    <3>2. CASE ExternalSend(w)
      BY <1>t, <3>2 DEF ExternalSend
    <3> QED
      BY <1>7, <3>1, <3>2 DEF NodeStep
  <2>3. OnlySentBefore'
    <3> SUFFICES ASSUME NEW v \in VUs,
                        NEW t \in pool'[WalletOf[v]] \cup done'[WalletOf[v]], t.by = v
                 PROVE  t.k <= sends[v] /\ (Unsent(v) => t.k < sends[v])
      BY <2>1 DEF OnlySentBefore, SentBefore, Unsent, Failed
    <3>1. t \in pool[WalletOf[v]] \cup done[WalletOf[v]]
      BY <1>t, <2>2, EngineAssumption
    <3> QED
      BY <3>1 DEF FailureInv, OnlySentBefore, SentBefore
  <2> QED
    BY <1>0, <2>3 DEF FailureInv
<1>8. CASE UNCHANGED vars
  BY <1>0, <1>8, FailureFrame DEF vars, engineVars, Unsent, Failed
<1> QED
  BY <1>1, <1>2, <1>3, <1>4, <1>5, <1>6, <1>7, <1>8 DEF Next, CallStep

(* Where no reply is lost, on any node and whoever else sends, a Send that *)
(* failed without a hash has put nothing on the network                    *)
(* (load/engine.go:260-263).                                               *)
THEOREM FailureIsUnsent == ASSUME ~LostReplies PROVE Spec => []ErrorMeansNotBroadcast
<1>1. Init => FailureInv
  BY FailureInit
<1>2. FailureInv /\ [Next]_vars => FailureInv'
  BY FailureStep
<1>3. FailureInv => ErrorMeansNotBroadcast
  BY DEF FailureInv, OnlySentBefore, SentBefore, Unsent, Failed, ErrorMeansNotBroadcast,
         TypeInv, TypeOK, Txs
<1> QED
  BY <1>1, <1>2, <1>3, PTL DEF Spec
-----------------------------------------------------------------------------
(***************************************************************************)
(* A closed world: a node that queues gapped nonces, wallets nobody else   *)
(* uses, and no lost replies.  There the local counters never drift from   *)
(* the chain, whatever fails and however the VUs of a wallet race, and the *)
(* engine implements NonceAllocator.                                       *)
(***************************************************************************)

ClosedWorld == GapPolicy = "queue" /\ MaxExternal = 0 /\ LostReplies = FALSE

(* A VU owns a nonce exactly at the control points that need one. *)
OwnsExactly == \A v \in VUs : nonce[v] # NoNonce <=> pc[v] \in Owning

(* Every nonce a wallet has spent lies below its counter; a wallet whose   *)
(* counter is unset has spent none.                                        *)
UsedBelowNext ==
    \A w \in Wallets : \A t \in pool[w] \cup done[w] : t.n < next[w]

(* A nonce that is owned is not spent. *)
UsedNotOwned ==
    \A v \in VUs : \A t \in pool[WalletOf[v]] \cup done[WalletOf[v]] :
        t.n # nonce[v]

(* The chain's nonce is the number of nonces that were mined. *)
MinedIsDone ==
    \A w \in Wallets : \A m \in 0 .. mined[w] - 1 : \E t \in done[w] : t.n = m

ClosedInv == /\ CollisionInv
             /\ OwnsExactly
             /\ UsedBelowNext
             /\ UsedNotOwned
             /\ MinedIsDone
             /\ NeverDrifts
             /\ resynced = {}
             /\ external = 0

LEMMA ClosedInit == Init => ClosedInv
<1> SUFFICES ASSUME Init PROVE ClosedInv
  OBVIOUS
<1>1. CollisionInv
  BY CollisionInit
<1> QED
  BY <1>1, EngineAssumption DEF Init, NonceInit, NodeInit, ClosedInv, OwnsExactly, UsedBelowNext,
              UsedNotOwned, MinedIsDone, NeverDrifts, Owning

(* Nothing is left to change where neither counters, nonces nor the chain  *)
(* do and the VU stays on its side of Owning.                              *)
LEMMA ClosedFrame ==
    ASSUME ClosedInv, CollisionInv', NEW v \in VUs, NEW to \in PCs,
           pc' = [pc EXCEPT ![v] = to],
           pc[v] \in Owning <=> to \in Owning,
           to \notin {"releaseNonceError", "refetch", "store"},
           UNCHANGED <<next, nodeVars, nonce, resynced>>
    PROVE  ClosedInv'
<1> USE DEF ClosedInv
<1>1. pc \in [VUs -> PCs]
  BY DEF CollisionInv, TypeInv, TypeOK
<1>2. OwnsExactly'
  BY <1>1 DEF OwnsExactly
<1>3. NeverDrifts'
  BY <1>1 DEF NeverDrifts
<1>4. UsedBelowNext' /\ UsedNotOwned' /\ MinedIsDone' /\ external' = 0
  BY DEF UsedBelowNext, UsedNotOwned, MinedIsDone, nodeVars
<1> QED
  BY <1>2, <1>3, <1>4

(* In a closed world the node accepts every nonce that is owned: it is not *)
(* spent, so it is not below what the chain has mined.                     *)
LEMMA NeverTooLow ==
    ASSUME ClosedWorld, ClosedInv, NEW v \in VUs, nonce[v] # NoNonce
    PROVE  ~TooLow(WalletOf[v], TxOf(v)) /\ ~TooHigh(WalletOf[v], TxOf(v))
<1> DEFINE w == WalletOf[v]
<1>1. w \in Wallets /\ nonce[v] \in Nat /\ mined[w] \in Nat
  BY EngineAssumption DEF ClosedInv, CollisionInv, TypeInv, TypeOK
<1>2. ~(nonce[v] < mined[w])
  <2> SUFFICES ASSUME nonce[v] < mined[w] PROVE FALSE
    OBVIOUS
  <2>1. nonce[v] \in 0 .. mined[w] - 1
    BY <1>1
  <2>2. PICK t \in done[w] : t.n = nonce[v]
    BY <1>1, <2>1 DEF ClosedInv, MinedIsDone
  <2> QED
    BY <2>2 DEF ClosedInv, UsedNotOwned
<1> QED
  BY <1>2 DEF TooLow, TooHigh, TxOf, ClosedWorld

LEMMA ClosedStep == ASSUME ClosedWorld PROVE ClosedInv /\ [Next]_vars => ClosedInv'
<1> SUFFICES ASSUME ClosedInv, [Next]_vars PROVE ClosedInv'
  OBVIOUS
<1>0. CollisionInv'
  BY CollisionStep DEF ClosedInv
<1>t. /\ pc \in [VUs -> PCs] /\ nonce \in [VUs -> Nat \cup {NoNonce}]
      /\ next \in [Wallets -> Nat \cup {Unset}] /\ WalletOf \in [VUs -> Wallets]
      /\ mined \in [Wallets -> Nat]
      /\ pool \in [Wallets -> SUBSET Txs] /\ done \in [Wallets -> SUBSET Txs]
  BY EngineAssumption DEF ClosedInv, CollisionInv, TypeInv, TypeOK, NonceTypeOK
<1>1. ASSUME NEW v \in VUs, Start(v) PROVE ClosedInv'
  BY <1>0, <1>1, ClosedFrame DEF Start, Goto, nonceVars, PCs, Owning
<1>2. ASSUME NEW v \in VUs, TakeNonce(v) PROVE ClosedInv'
  <2> DEFINE w == WalletOf[v]
  <2>1. /\ pc[v] = "next" /\ pc' = [pc EXCEPT ![v] = "build"]
        /\ next[w] # Unset
        /\ next' = [next EXCEPT ![w] = next[w] + 1]
        /\ nonce' = [nonce EXCEPT ![v] = next[w]]
        /\ UNCHANGED <<mined, pool, done, external, resynced>>
    BY <1>2 DEF TakeNonce, NextCached, Goto, nodeVars
  <2>2. next[w] \in Nat
    BY <1>t, <2>1
  <2>3. OwnsExactly' /\ NeverDrifts'
    BY <1>t, <2>1, <2>2 DEF ClosedInv, OwnsExactly, NeverDrifts, Owning, NoNonce
  <2>4. UsedBelowNext'
    BY <1>t, <2>1, <2>2 DEF ClosedInv, UsedBelowNext, Txs
  <2>5. UsedNotOwned'
    BY <1>t, <2>1, <2>2 DEF ClosedInv, UsedNotOwned, UsedBelowNext, Txs
  <2> QED
    BY <1>0, <2>1, <2>3, <2>4, <2>5 DEF ClosedInv, MinedIsDone
<1>3. ASSUME NEW v \in VUs, BeginFirstFetch(v) PROVE ClosedInv'
  BY <1>0, <1>3, ClosedFrame DEF BeginFirstFetch, NextFetchBegin, Goto, PCs, Owning
<1>4. ASSUME NEW v \in VUs, EndFirstFetch(v) PROVE ClosedInv'
  <2> DEFINE w == WalletOf[v]
  <2>1. PICK n \in PendingCandidates(w) :
            /\ mu = v
            /\ next' = [next EXCEPT ![w] = n + 1]
            /\ nonce' = [nonce EXCEPT ![v] = n]
            /\ pc[v] = "fetch" /\ pc' = [pc EXCEPT ![v] = "build"]
            /\ UNCHANGED <<mined, pool, done, external, resynced>>
    BY <1>4 DEF EndFirstFetch, NextFetchEnd, Goto, nodeVars
  <2>2. n \in Nat
    BY <1>t DEF PendingCandidates, Txs
  <2>3. next[w] = Unset
    BY <2>1, NoVUAssumption DEF ClosedInv, CollisionInv, FetchInv
  <2>4. pool[w] = {} /\ done[w] = {}
    BY <1>t, <2>3 DEF ClosedInv, UsedBelowNext, Unset, Txs
  <2>5. OwnsExactly' /\ NeverDrifts'
    BY <1>t, <2>1, <2>2 DEF ClosedInv, OwnsExactly, NeverDrifts, Owning, NoNonce
  <2>6. UsedBelowNext'
    BY <1>t, <2>1, <2>4 DEF ClosedInv, UsedBelowNext
  <2>7. UsedNotOwned'
    BY <1>t, <2>1, <2>4 DEF ClosedInv, UsedNotOwned
  <2> QED
    BY <1>0, <2>1, <2>5, <2>6, <2>7 DEF ClosedInv, MinedIsDone
<1>5. ASSUME NEW v \in VUs, FailFirstFetch(v) PROVE ClosedInv'
  BY <1>0, <1>5, ClosedFrame DEF FailFirstFetch, NextFetchError, Return, Goto, PCs, Owning
<1>6. ASSUME NEW v \in VUs, Build(v) \/ FailBuild(v) \/ SubmitRefused(v) PROVE ClosedInv'
  BY <1>0, <1>6, ClosedFrame
     DEF Build, FailBuild, SubmitRefused, RejectOther, Goto, nonceVars, PCs, Owning
<1>7. ASSUME NEW v \in VUs, Submit(v) PROVE ClosedInv'
  <2> DEFINE w == WalletOf[v]
  <2>1. PICK to \in {"idle", "wait"} :
            pc[v] = "submit" /\ pc' = [pc EXCEPT ![v] = to]
    BY <1>7 DEF Submit, Return, Goto
  <2>2. /\ pool' = [pool EXCEPT ![w] = {u \in pool[w] : u.n # nonce[v]} \cup {TxOf(v)}]
        /\ TxOf(v).n = nonce[v]
        /\ nonce' = [nonce EXCEPT ![v] = NoNonce]
        /\ UNCHANGED <<next, mined, done, external, resynced>>
    BY <1>7 DEF Submit, Accept, TxOf, nonceVars
  <2>3. nonce[v] \in Nat
    BY <1>t, <2>1 DEF ClosedInv, OwnsExactly, Owning
  <2>4. OwnsExactly' /\ NeverDrifts'
    BY <1>t, <2>1, <2>2 DEF ClosedInv, OwnsExactly, NeverDrifts, Owning, NoNonce
  <2>5. nonce[v] < next[w]
    BY <2>3 DEF ClosedInv, CollisionInv, BelowNext, NoNonce
  <2>6. UsedBelowNext'
    BY <1>t, <2>2, <2>5 DEF ClosedInv, UsedBelowNext
  <2>7. \A u \in VUs \ {v} : WalletOf[u] = w => nonce[u] # nonce[v]
    BY <2>3 DEF ClosedInv, CollisionInv, CollisionFreeUntilResync, NoNonce
  <2>8. UsedNotOwned'
    <3> SUFFICES ASSUME NEW u \in VUs, NEW t \in pool'[WalletOf[u]] \cup done'[WalletOf[u]]
                 PROVE  t.n # nonce'[u]
      BY DEF UsedNotOwned
    <3>1. CASE u = v
      <4>1. nonce'[u] = NoNonce
        BY <1>t, <2>2, <3>1
      <4>2. t.n \in Nat
        BY <1>t, <2>2, <2>3, <3>1 DEF Txs
      <4> QED
        BY <4>1, <4>2 DEF NoNonce
    <3>2. CASE u # v
      BY <1>t, <2>2, <2>7, <3>2 DEF ClosedInv, UsedNotOwned
    <3> QED
      BY <3>1, <3>2
  <2> QED
    BY <1>0, <2>2, <2>4, <2>6, <2>8 DEF ClosedInv, MinedIsDone
<1>8. ASSUME NEW v \in VUs, SubmitReplyLost(v) PROVE ClosedInv'
  BY <1>8 DEF SubmitReplyLost, ClosedWorld
<1>9. ASSUME NEW v \in VUs, SubmitNonceError(v) PROVE ClosedInv'
  <2>1. nonce[v] # NoNonce
    BY <1>9 DEF SubmitNonceError, Goto, ClosedInv, OwnsExactly, Owning
  <2> QED
    BY <1>9, <2>1, NeverTooLow DEF SubmitNonceError, RejectNonce
<1>10. ASSUME NEW v \in VUs, ReleaseNonce(v) PROVE ClosedInv'
  <2> DEFINE w == WalletOf[v]
  <2>1. pc[v] \in {"releaseError", "releaseDryRun"} /\ pc' = [pc EXCEPT ![v] = "idle"]
    BY <1>10 DEF ReleaseNonce, Return, Goto, ClosedInv, NeverDrifts
  <2>2. /\ nonce' = [nonce EXCEPT ![v] = NoNonce]
        /\ next' = IF next[w] = nonce[v] + 1
                     THEN [next EXCEPT ![w] = nonce[v]] ELSE next
        /\ UNCHANGED <<mined, pool, done, external, resynced>>
    BY <1>10 DEF ReleaseNonce, Release, nodeVars
  <2>3. OwnsExactly' /\ NeverDrifts'
    BY <1>t, <2>1, <2>2 DEF ClosedInv, OwnsExactly, NeverDrifts, Owning, NoNonce
  <2>4. UsedBelowNext'
    <3>1. nonce[v] \in Nat
      BY <1>t, <2>1 DEF ClosedInv, OwnsExactly, Owning
    <3>2. CASE next' = next
      BY <2>2, <3>2 DEF ClosedInv, UsedBelowNext
    <3>3. CASE next[w] = nonce[v] + 1 /\ next' = [next EXCEPT ![w] = nonce[v]]
      <4> SUFFICES ASSUME NEW x \in Wallets, NEW t \in pool[x] \cup done[x]
                   PROVE  t.n < next'[x]
        BY <2>2 DEF UsedBelowNext
      <4>1. t.n < next[x] /\ t.n \in Nat
        BY <1>t DEF ClosedInv, UsedBelowNext, Txs
      <4>2. CASE x = w
        <5>1. t.n # nonce[v]
          BY <4>2 DEF ClosedInv, UsedNotOwned
        <5>2. next'[x] = nonce[v] /\ t.n < nonce[v] + 1
          BY <1>t, <3>3, <4>1, <4>2
        <5> QED
          BY <3>1, <4>1, <5>1, <5>2
      <4>3. CASE x # w
        BY <1>t, <3>3, <4>1, <4>3
      <4> QED
        BY <4>2, <4>3
    <3> QED
      BY <2>2, <3>2, <3>3
  <2>5. UsedNotOwned'
    BY <1>t, <2>2 DEF ClosedInv, UsedNotOwned, Txs, NoNonce
  <2> QED
    BY <1>0, <2>2, <2>3, <2>4, <2>5 DEF ClosedInv, MinedIsDone
<1>11. ASSUME NEW v \in VUs, Refetch(v) \/ FailRefetch(v) \/ Store(v) PROVE ClosedInv'
  BY <1>11 DEF Refetch, FailRefetch, Store, Return, Goto, ClosedInv, NeverDrifts
<1>12. ASSUME NEW v \in VUs, Confirm(v) \/ GiveUpWaiting(v) PROVE ClosedInv'
  BY <1>0, <1>12, ClosedFrame
     DEF Confirm, GiveUpWaiting, Return, Goto, nonceVars, PCs, Owning
<1>13. ASSUME NEW w \in Wallets, NodeStep(w) PROVE ClosedInv'
  <2>1. Mine(w) /\ UNCHANGED <<nonceVars, engineVars>>
    BY <1>13 DEF NodeStep, ExternalSend, ClosedInv, ClosedWorld
  <2>2. PICK t \in pool[w] :
            /\ t.n = mined[w]
            /\ mined' = [mined EXCEPT ![w] = mined[w] + 1]
            /\ pool' = [pool EXCEPT ![w] = pool[w] \ {t}]
            /\ done' = [done EXCEPT ![w] = done[w] \cup {t}]
            /\ external' = external
    BY <2>1 DEF Mine
  <2>3. \A x \in Wallets : pool'[x] \cup done'[x] = pool[x] \cup done[x]
    BY <1>t, <2>2
  <2>4. UsedBelowNext' /\ UsedNotOwned'
    BY <1>t, <2>1, <2>3 DEF ClosedInv, UsedBelowNext, UsedNotOwned, nonceVars, engineVars
  <2>5. MinedIsDone'
    <3> SUFFICES ASSUME NEW x \in Wallets, NEW m \in 0 .. mined'[x] - 1
                 PROVE  \E u \in done'[x] : u.n = m
      BY DEF MinedIsDone
    <3>1. CASE x = w /\ m = mined[w]
      BY <1>t, <2>2, <3>1
    <3>2. CASE m \in 0 .. mined[x] - 1
      BY <1>t, <2>2, <3>2 DEF ClosedInv, MinedIsDone
    <3> QED
      BY <1>t, <2>2, <3>1, <3>2
  <2> QED
    BY <1>0, <2>1, <2>2, <2>4, <2>5
       DEF ClosedInv, OwnsExactly, NeverDrifts, engineVars
<1>14. CASE UNCHANGED vars
  BY <1>0, <1>14 DEF vars, nonceVars, nodeVars, engineVars, ClosedInv, OwnsExactly,
       UsedBelowNext, UsedNotOwned, MinedIsDone, NeverDrifts
<1> QED
  BY <1>1, <1>2, <1>3, <1>4, <1>5, <1>6, <1>7, <1>8, <1>9, <1>10, <1>11,
     <1>12, <1>13, <1>14 DEF Next, LockStep, CallStep

LEMMA ClosedInvariant == ASSUME ClosedWorld PROVE Spec => []ClosedInv
<1>1. Init => ClosedInv
  BY ClosedInit
<1>2. ClosedInv /\ [Next]_vars => ClosedInv'
  BY ClosedStep
<1> QED
  BY <1>1, <1>2, PTL DEF Spec

(* In a closed world no submission ever meets a nonce error, so Resync is  *)
(* never called: the counters never drift (txengine/engine.go:104-115).    *)
THEOREM NoDrift == ASSUME ClosedWorld PROVE Spec => []NeverDrifts
<1>1. ClosedInv => NeverDrifts
  BY DEF ClosedInv
<1> QED
  BY <1>1, ClosedInvariant, PTL
-----------------------------------------------------------------------------
(***************************************************************************)
(* The refinement of NonceAllocator: a nonce from Next is Issue, Submit is *)
(* Spend, Release is GiveBack, and nothing else shows.                     *)
(***************************************************************************)
Spent == [w \in Wallets |-> {t.n : t \in pool[w] \cup done[w]}]

LEMMA AllocatorInit == Init => Allocator!Init
BY DEF Init, NodeInit, Allocator!Init

(* What Next hands out is free in the abstract allocator, if it is neither *)
(* spent nor owned by another VU of the wallet.                            *)
LEMMA IssueStep ==
    ASSUME ClosedInv, NEW v \in VUs, NEW n \in Nat,
           nonce[v] = NoNonce,
           nonce' = [nonce EXCEPT ![v] = n],
           UNCHANGED <<pool, done>>,
           \A t \in pool[WalletOf[v]] \cup done[WalletOf[v]] : t.n # n,
           \A u \in VUs : WalletOf[u] = WalletOf[v] => nonce[u] # n
    PROVE  Allocator!Issue(v)
<1>1. nonce \in [VUs -> Nat \cup {NoNonce}] /\ WalletOf[v] \in Wallets
  BY EngineAssumption DEF ClosedInv, CollisionInv, TypeInv, TypeOK
<1>2. nonce'[v] = n
  BY <1>1
<1>3. n \notin Allocator!Taken(WalletOf[v])
  BY <1>1 DEF Allocator!Taken
<1> QED
  BY <1>2, <1>3 DEF Allocator!Issue

LEMMA AllocatorStep ==
    ASSUME ClosedWorld, ClosedInv, [Next]_vars
    PROVE  [Allocator!Next]_(Allocator!vars)
<1>t. /\ nonce \in [VUs -> Nat \cup {NoNonce}] /\ WalletOf \in [VUs -> Wallets]
      /\ next \in [Wallets -> Nat \cup {Unset}] /\ mined \in [Wallets -> Nat]
      /\ pool \in [Wallets -> SUBSET Txs] /\ done \in [Wallets -> SUBSET Txs]
  BY EngineAssumption DEF ClosedInv, CollisionInv, TypeInv, TypeOK, NonceTypeOK
<1>f. ASSUME UNCHANGED <<pool, done, nonce>> PROVE UNCHANGED Allocator!vars
  BY <1>f DEF Allocator!vars
<1>1. ASSUME NEW v \in VUs, Start(v) PROVE UNCHANGED Allocator!vars
  BY <1>1, <1>f DEF Start, nodeVars
<1>2. ASSUME NEW v \in VUs, TakeNonce(v) PROVE Allocator!Next
  <2> DEFINE w == WalletOf[v]
  <2>1. /\ pc[v] = "next" /\ next[w] # Unset
        /\ nonce' = [nonce EXCEPT ![v] = next[w]]
        /\ UNCHANGED <<pool, done>>
    BY <1>2 DEF TakeNonce, NextCached, Goto, nodeVars
  <2>2. next[w] \in Nat
    BY <1>t, <2>1
  <2>3. nonce[v] = NoNonce
    BY <2>1 DEF ClosedInv, OwnsExactly, Owning
  <2>4. \A t \in pool[w] \cup done[w] : t.n # next[w]
    BY <1>t, <2>2 DEF ClosedInv, UsedBelowNext, Txs
  <2>5. \A u \in VUs : WalletOf[u] = w => nonce[u] # next[w]
    BY <1>t, <2>2 DEF ClosedInv, CollisionInv, BelowNext, NoNonce
  <2>6. Allocator!Issue(v)
    BY <2>1, <2>2, <2>3, <2>4, <2>5, IssueStep
  <2> QED
    BY <2>6 DEF Allocator!Next
<1>3. ASSUME NEW v \in VUs, BeginFirstFetch(v) \/ FailFirstFetch(v)
      PROVE  UNCHANGED Allocator!vars
  BY <1>3, <1>f DEF BeginFirstFetch, FailFirstFetch, nodeVars
<1>4. ASSUME NEW v \in VUs, EndFirstFetch(v) PROVE Allocator!Next
  <2> DEFINE w == WalletOf[v]
  <2>1. PICK n \in PendingCandidates(w) :
            /\ mu = v /\ pc[v] = "fetch"
            /\ nonce' = [nonce EXCEPT ![v] = n]
            /\ UNCHANGED <<pool, done>>
    BY <1>4 DEF EndFirstFetch, NextFetchEnd, Goto, nodeVars
  <2>2. n \in Nat
    BY <1>t DEF PendingCandidates, Txs
  <2>3. next[w] = Unset
    BY <2>1, NoVUAssumption DEF ClosedInv, CollisionInv, FetchInv
  <2>4. \A t \in pool[w] \cup done[w] : t.n # n
    BY <1>t, <2>3 DEF ClosedInv, UsedBelowNext, Unset, Txs
  <2>5. \A u \in VUs : WalletOf[u] = w => nonce[u] # n
    BY <1>t, <2>2, <2>3 DEF ClosedInv, CollisionInv, BelowNext, NoNonce, Unset
  <2>6. nonce[v] = NoNonce
    BY <2>1 DEF ClosedInv, OwnsExactly, Owning
  <2>7. Allocator!Issue(v)
    BY <2>1, <2>2, <2>4, <2>5, <2>6, IssueStep
  <2> QED
    BY <2>7 DEF Allocator!Next
<1>5. ASSUME NEW v \in VUs, Build(v) \/ FailBuild(v) \/ SubmitRefused(v) \/ SubmitNonceError(v)
      PROVE  UNCHANGED Allocator!vars
  BY <1>5, <1>f DEF Build, FailBuild, SubmitRefused, SubmitNonceError, RejectOther,
                    RejectNonce, nodeVars
<1>6. ASSUME NEW v \in VUs, Submit(v) PROVE Allocator!Next
  <2> DEFINE w == WalletOf[v]
  <2>1. /\ pool' = [pool EXCEPT ![w] = {u \in pool[w] : u.n # nonce[v]} \cup {TxOf(v)}]
        /\ TxOf(v).n = nonce[v]
        /\ nonce' = [nonce EXCEPT ![v] = NoNonce]
        /\ UNCHANGED done
    BY <1>6 DEF Submit, Accept, TxOf
  <2>2. nonce[v] # NoNonce
    BY <1>6 DEF Submit, Return, Goto, ClosedInv, OwnsExactly, Owning
  <2>3. {u \in pool[w] : u.n # nonce[v]} = pool[w]
    BY DEF ClosedInv, UsedNotOwned
  <2>4. \A x \in Wallets : Spent'[x] = IF x = w THEN Spent[x] \cup {nonce[v]} ELSE Spent[x]
    BY <1>t, <2>1, <2>3 DEF Spent
  <2>5. Spent' = [Spent EXCEPT ![w] = Spent[w] \cup {nonce[v]}]
    BY <2>4, ZenonT(60) DEF Spent
  <2>6. Allocator!Spend(v)
    BY <2>1, <2>2, <2>5 DEF Allocator!Spend, Spent
  <2> QED
    BY <2>6 DEF Allocator!Next
<1>7. ASSUME NEW v \in VUs, SubmitReplyLost(v) PROVE FALSE
  BY <1>7 DEF SubmitReplyLost, ClosedWorld
<1>8. ASSUME NEW v \in VUs, ReleaseNonce(v) PROVE Allocator!Next
  <2>1. nonce[v] # NoNonce
    BY <1>8 DEF ReleaseNonce, Return, Goto, ClosedInv, OwnsExactly, Owning
  <2>2. nonce' = [nonce EXCEPT ![v] = NoNonce] /\ UNCHANGED <<pool, done>>
    BY <1>8 DEF ReleaseNonce, nodeVars
  <2>3. Allocator!GiveBack(v)
    BY <2>1, <2>2 DEF Allocator!GiveBack
  <2> QED
    BY <2>3 DEF Allocator!Next
<1>9. ASSUME NEW v \in VUs,
             Refetch(v) \/ FailRefetch(v) \/ Store(v) \/ Confirm(v) \/ GiveUpWaiting(v)
      PROVE  UNCHANGED Allocator!vars
  BY <1>9, <1>f DEF Refetch, FailRefetch, Store, Confirm, GiveUpWaiting, nodeVars
<1>10. ASSUME NEW w \in Wallets, NodeStep(w) PROVE UNCHANGED Allocator!vars
  <2>1. Mine(w) /\ UNCHANGED nonce
    BY <1>10 DEF NodeStep, ExternalSend, ClosedInv, ClosedWorld, engineVars
  <2>2. \A x \in Wallets : pool'[x] \cup done'[x] = pool[x] \cup done[x]
    BY <1>t, <2>1 DEF Mine
  <2>3. UNCHANGED Spent
    BY <2>2 DEF Spent
  <2> QED
    BY <2>1, <2>3 DEF Allocator!vars, Spent
<1>11. CASE UNCHANGED vars
  BY <1>11, <1>f DEF vars, nodeVars, engineVars
<1> QED
  BY <1>1, <1>2, <1>3, <1>4, <1>5, <1>6, <1>7, <1>8, <1>9, <1>10, <1>11
     DEF Next, LockStep, CallStep

(* In a closed world the engine implements the abstract allocator: a nonce *)
(* is handed out only if no one owns it and no transaction has used it     *)
(* (wallet/nonce.go:13-17).                                                *)
THEOREM Refinement == ASSUME ClosedWorld PROVE Spec => ImplementsAllocator
<1>1. Init => Allocator!Init
  BY AllocatorInit
<1>2. ClosedInv /\ [Next]_vars => [Allocator!Next]_(Allocator!vars)
  BY AllocatorStep
<1> QED
  BY <1>1, <1>2, ClosedInvariant, PTL DEF Spec, ImplementsAllocator, Allocator!Spec

-----------------------------------------------------------------------------
(***************************************************************************)
(* A VU that has its wallet to itself.  The pool then holds a run of       *)
(* nonces without a gap, and the nonce v would hand the node next is       *)
(* within that run or the first after it.  It is the first after it for as *)
(* long as the answers of the node can be trusted: no reply is lost at     *)
(* all, or none since the last Resync.                                     *)
(***************************************************************************)
Reaches(w, n) == \A m \in mined[w] .. n - 1 : Pooled(w, m)

Fresh(w, n) == n >= mined[w] /\ ~Pooled(w, n)

Upcoming(v) == IF pc[v] \in Owning THEN nonce[v] ELSE next[WalletOf[v]]

Trusted(v) == ~LostReplies \/ (out[v].kind = "resynced" /\ pc[v] # "releaseError")

NoGaps(w) == \A t \in pool[w] : Reaches(w, t.n)

InStep(v) ==
    /\ NoGaps(WalletOf[v])
    /\ pc[v] \in Owning => next[WalletOf[v]] = nonce[v] + 1
    /\ pc[v] = "store" => IsPendingNonce(WalletOf[v], seen[v])
    /\ next[WalletOf[v]] # Unset => Reaches(WalletOf[v], Upcoming(v))
    /\ Trusted(v) =>
         /\ pc[v] \notin {"releaseNonceError", "refetch", "store"}
         /\ next[WalletOf[v]] # Unset => Fresh(WalletOf[v], Upcoming(v))

IdleInv == \A v \in VUs : sends[v] = 0 => pc[v] = "idle"

AloneInv == TypeInv /\ IdleInv /\ \A v \in VUs : Alone(v) => InStep(v)

LEMMA AloneInit == Init => AloneInv
<1> SUFFICES ASSUME Init PROVE AloneInv
  OBVIOUS
<1>1. TypeInv
  BY TypeInit
<1>2. \A v \in VUs : WalletOf[v] \in Wallets
  BY EngineAssumption
<1>3. \A v \in VUs : InStep(v)
  BY <1>2 DEF Init, NonceInit, NodeInit, InStep, NoGaps, Owning
<1> QED
  BY <1>1, <1>3 DEF Init, AloneInv, IdleInv

(* What PendingNonceAt answers is the one nonce that closes the run.       *)
LEMMA PendingIsFresh ==
    ASSUME TypeOK, NEW w \in Wallets, NEW n \in Nat
    PROVE  IsPendingNonce(w, n) <=> Reaches(w, n) /\ Fresh(w, n)
<1>1. mined[w] \in Nat /\ \A t \in pool[w] : t.n \in Nat
  BY DEF TypeOK, Txs
<1>2. IsPendingNonce(w, n) => Reaches(w, n) /\ Fresh(w, n)
  BY DEF IsPendingNonce, Reaches, Fresh
<1>3. ASSUME Reaches(w, n), Fresh(w, n) PROVE IsPendingNonce(w, n)
  <2>1. n = mined[w] \/ \E t \in pool[w] : n = t.n + 1
    <3>1. CASE n # mined[w]
      <4>1. n - 1 \in mined[w] .. n - 1
        BY <1>1, <1>3, <3>1 DEF Fresh
      <4>2. Pooled(w, n - 1)
        BY <1>3, <4>1 DEF Reaches
      <4>3. PICK t \in pool[w] : t.n = n - 1
        BY <4>2 DEF Pooled
      <4> QED
        BY <1>1, <4>3
    <3> QED
      BY <3>1
  <2> QED
    BY <1>3, <2>1 DEF IsPendingNonce, Reaches, Fresh
<1> QED
  BY <1>2, <1>3

(* The same of the next state, where a step finds the answer again.        *)
LEMMA PendingInNext ==
    ASSUME TypeOK', NEW w \in Wallets, NEW n \in Nat, Reaches(w, n)', Fresh(w, n)'
    PROVE  IsPendingNonce(w, n)'
<1>1. mined'[w] \in Nat /\ \A t \in pool'[w] : t.n \in Nat
  BY DEF TypeOK, Txs
<1>2. n = mined'[w] \/ \E t \in pool'[w] : n = t.n + 1
  <2>1. CASE n # mined'[w]
    <3>1. n - 1 \in mined'[w] .. n - 1
      BY <1>1, <2>1 DEF Fresh
    <3>2. Pooled(w, n - 1)'
      BY <3>1 DEF Reaches
    <3>3. PICK t \in pool'[w] : t.n = n - 1
      BY <3>2 DEF Pooled
    <3> QED
      BY <1>1, <3>3
  <2> QED
    BY <2>1
<1> QED
  BY <1>2 DEF IsPendingNonce, Reaches, Fresh

(* A nonce within the run is taken: the run has no gap, and if the nonce   *)
(* was the first after it, the successor now is.                           *)
LEMMA AcceptInRun ==
    ASSUME TypeOK, NEW w \in Wallets, NEW t \in Txs, Accept(w, t), NoGaps(w), Reaches(w, t.n)
    PROVE  /\ NoGaps(w)' /\ Reaches(w, t.n)' /\ Reaches(w, t.n + 1)'
           /\ Fresh(w, t.n) => Fresh(w, t.n + 1)'
<1>1. mined[w] \in Nat /\ t.n \in Nat /\ \A u \in pool[w] : u.n \in Nat
  BY DEF TypeOK, Txs
<1>2. /\ pool'[w] = {u \in pool[w] : u.n # t.n} \cup {t}
      /\ mined' = mined
  BY DEF Accept, TypeOK
<1>3. \A m : Pooled(w, m)' <=> Pooled(w, m) \/ m = t.n
  BY <1>2 DEF Pooled
<1>4. \A n : Reaches(w, n) => Reaches(w, n)'
  BY <1>2, <1>3 DEF Reaches
<1>5. Reaches(w, t.n + 1)'
  <2>1. \A m \in mined[w] .. t.n : m \in mined[w] .. t.n - 1 \/ m = t.n
    BY <1>1
  <2>2. \A m \in mined[w] .. t.n : Pooled(w, m)'
    BY <1>3, <2>1 DEF Reaches
  <2>3. (t.n + 1) - 1 = t.n
    BY <1>1
  <2> QED
    BY <1>2, <2>2, <2>3 DEF Reaches
<1>6. NoGaps(w)'
  BY <1>2, <1>4 DEF NoGaps
<1>7. ASSUME Fresh(w, t.n) PROVE Fresh(w, t.n + 1)'
  <2>1. ~Pooled(w, t.n + 1)
    <3>1. SUFFICES ASSUME NEW u \in pool[w], u.n = t.n + 1 PROVE FALSE
      BY DEF Pooled
    <3>2. t.n \in mined[w] .. u.n - 1
      BY <1>1, <1>7, <3>1 DEF Fresh
    <3> QED
      BY <1>7, <3>1, <3>2 DEF NoGaps, Reaches, Fresh
  <2> QED
    BY <1>1, <1>2, <1>3, <1>7, <2>1 DEF Fresh
<1> QED
  BY <1>4, <1>5, <1>6, <1>7

LEMMA MineInRun ==
    ASSUME TypeOK, NEW w \in Wallets, Mine(w)
    PROVE  /\ NoGaps(w) => NoGaps(w)'
           /\ \A n \in Nat : (Reaches(w, n) => Reaches(w, n)') /\ (Fresh(w, n) => Fresh(w, n)')
<1>1. PICK t \in pool[w] : /\ t.n = mined[w] /\ mined'[w] = mined[w] + 1
                           /\ pool'[w] = pool[w] \ {t}
  BY DEF Mine, TypeOK
<1>2. mined[w] \in Nat /\ \A u \in pool[w] : u.n \in Nat
  BY DEF TypeOK, Txs
<1>3. /\ \A m \in Nat : Pooled(w, m)' => Pooled(w, m)
      /\ \A m \in Nat : m # mined[w] /\ Pooled(w, m) => Pooled(w, m)'
      /\ Pooled(w, mined[w])
  BY <1>1 DEF Pooled
<1>4. ASSUME NEW n \in Nat, Reaches(w, n) PROVE Reaches(w, n)'
  <2>1. \A m \in mined'[w] .. n - 1 : m \in mined[w] .. n - 1 /\ m \in Nat /\ m # mined[w]
    BY <1>1, <1>2
  <2> QED
    BY <1>3, <1>4, <2>1 DEF Reaches
<1>5. ASSUME NEW n \in Nat, Fresh(w, n) PROVE Fresh(w, n)'
  <2>1. n # mined[w]
    BY <1>3, <1>5 DEF Fresh
  <2> QED
    BY <1>1, <1>2, <1>3, <1>5, <2>1 DEF Fresh
<1>6. NoGaps(w) => NoGaps(w)'
  BY <1>1, <1>2, <1>4 DEF NoGaps
<1> QED
  BY <1>4, <1>5, <1>6

(* What v knows of its wallet stays true while v and the wallet stay put.  *)
LEMMA SameWallet ==
    ASSUME NEW w, mined'[w] = mined[w], pool'[w] = pool[w]
    PROVE  /\ NoGaps(w)' <=> NoGaps(w)
           /\ \A n : /\ Reaches(w, n)' <=> Reaches(w, n)
                     /\ Fresh(w, n)' <=> Fresh(w, n)
                     /\ IsPendingNonce(w, n)' <=> IsPendingNonce(w, n)
<1>1. \A m : Pooled(w, m)' <=> Pooled(w, m)
  BY DEF Pooled
<1>2. \A n : (Reaches(w, n)' <=> Reaches(w, n)) /\ (Fresh(w, n)' <=> Fresh(w, n))
  BY <1>1 DEF Reaches, Fresh
<1>3. \A n : IsPendingNonce(w, n)' <=> IsPendingNonce(w, n)
  BY <1>1 DEF IsPendingNonce
<1>4. NoGaps(w)' <=> NoGaps(w)
  BY <1>2 DEF NoGaps
<1> QED
  BY <1>2, <1>3, <1>4

LEMMA InStepStays ==
    ASSUME NEW v \in VUs, InStep(v),
           /\ pc'[v] = pc[v] /\ nonce'[v] = nonce[v] /\ seen'[v] = seen[v] /\ out'[v] = out[v]
           /\ next'[WalletOf[v]] = next[WalletOf[v]]
           /\ mined'[WalletOf[v]] = mined[WalletOf[v]]
           /\ pool'[WalletOf[v]] = pool[WalletOf[v]]
    PROVE  InStep(v)'
<1>1. Upcoming(v)' = Upcoming(v) /\ (Trusted(v)' <=> Trusted(v))
  BY DEF Upcoming, Trusted
<1> QED
  BY <1>1, SameWallet DEF InStep

(* A step of v0 moves v0 and its wallet, and nothing of anyone else's; v0  *)
(* has begun a Send.                                                       *)
VUMoves(v0) ==
    /\ \A u \in VUs \ {v0} : /\ pc'[u] = pc[u] /\ nonce'[u] = nonce[u] /\ seen'[u] = seen[u]
                             /\ out'[u] = out[u] /\ sends'[u] = sends[u]
    /\ \A w \in Wallets \ {WalletOf[v0]} :
         next'[w] = next[w] /\ mined'[w] = mined[w] /\ pool'[w] = pool[w]
    /\ external' = external
    /\ sends[v0] = 0 => pc[v0] = "idle"
    /\ sends'[v0] # 0 /\ (sends'[v0] = 0 => sends[v0] = 0)

LEMMA StepMoves ==
    ASSUME AloneInv, NEW v \in VUs, Start(v) \/ LockStep(v) \/ CallStep(v)
    PROVE  VUMoves(v)
<1> USE EngineAssumption DEF AloneInv, TypeInv, TypeOK, NonceTypeOK
<1>1. ASSUME pc[v] # "idle",
             /\ pc' = [pc EXCEPT ![v] = pc'[v]] /\ nonce' = [nonce EXCEPT ![v] = nonce'[v]]
             /\ seen' = [seen EXCEPT ![v] = seen'[v]] /\ out' = [out EXCEPT ![v] = out'[v]]
             /\ sends' = sends /\ external' = external,
             \A w \in Wallets \ {WalletOf[v]} :
               next'[w] = next[w] /\ mined'[w] = mined[w] /\ pool'[w] = pool[w]
      PROVE  VUMoves(v)
  BY <1>1 DEF VUMoves, IdleInv
<1>2. CASE Start(v)
  <2>1. /\ sends[v] \in Nat /\ sends' = [sends EXCEPT ![v] = sends[v] + 1]
        /\ pc[v] = "idle" /\ pc' = [pc EXCEPT ![v] = "next"]
        /\ UNCHANGED <<next, mu, mined, pool, external, nonce, seen, out>>
    BY <1>2 DEF Start, Goto, nonceVars, nodeVars
  <2> QED
    BY <2>1 DEF VUMoves
<1>3. CASE TakeNonce(v) \/ BeginFirstFetch(v) \/ ReleaseNonce(v) \/ Store(v)
  BY <1>1, <1>3 DEF TakeNonce, NextCached, BeginFirstFetch, NextFetchBegin, ReleaseNonce,
     Release, Store, ResyncStore, Goto, Return, nodeVars
<1>4. CASE EndFirstFetch(v) \/ FailFirstFetch(v) \/ Build(v) \/ FailBuild(v)
  BY <1>1, <1>4 DEF EndFirstFetch, NextFetchEnd, FailFirstFetch, NextFetchError, Build,
     FailBuild, Goto, Return, nodeVars, nonceVars
<1>5. CASE Submit(v) \/ SubmitReplyLost(v)
  <2>1. \A w \in Wallets \ {WalletOf[v]} : pool'[w] = pool[w]
    BY <1>5 DEF Submit, SubmitReplyLost, Accept
  <2> QED
    BY <1>1, <1>5, <2>1 DEF Submit, SubmitReplyLost, Accept, Goto, Return, nonceVars
<1>6. CASE SubmitRefused(v) \/ SubmitNonceError(v) \/ Refetch(v) \/ FailRefetch(v)
           \/ Confirm(v) \/ GiveUpWaiting(v)
  BY <1>1, <1>6 DEF SubmitRefused, RejectOther, SubmitNonceError, RejectNonce, Refetch,
     FailRefetch, Confirm, GiveUpWaiting, Goto, Return, nodeVars, nonceVars
<1> QED
  BY <1>2, <1>3, <1>4, <1>5, <1>6 DEF LockStep, CallStep

(* So it leaves the others in step, or not alone. *)
LEMMA OthersInStep ==
    ASSUME AloneInv, NEW v \in VUs, VUMoves(v), NEW u \in VUs, u # v, Alone(u)'
    PROVE  InStep(u)'
<1>1. WalletOf[v] # WalletOf[u]
  BY DEF VUMoves, Alone
<1>2. Alone(u)
  <2>1. ASSUME NEW x \in VUs \ {u}, WalletOf[x] = WalletOf[u] PROVE sends[x] = 0
    <3>1. x # v /\ sends'[x] = 0
      BY <1>1, <2>1 DEF Alone
    <3> QED
      BY <3>1 DEF VUMoves
  <2> QED
    BY <2>1 DEF Alone, VUMoves
<1>3. WalletOf[u] \in Wallets \ {WalletOf[v]}
  BY <1>1, EngineAssumption
<1> QED
  BY <1>2, <1>3, InStepStays DEF AloneInv, VUMoves

(* The steps of v itself: first those that leave the node alone.           *)
LEMMA OwnQuietStep ==
    ASSUME AloneInv, TypeInv', NEW v \in VUs, InStep(v),
           \/ Start(v) \/ TakeNonce(v) \/ BeginFirstFetch(v) \/ FailFirstFetch(v)
           \/ Build(v) \/ FailBuild(v) \/ SubmitRefused(v) \/ Confirm(v) \/ GiveUpWaiting(v)
    PROVE  InStep(v)'
<1> DEFINE w == WalletOf[v]
<1> USE DEF AloneInv, TypeInv, TypeOK, NonceTypeOK
<1>1. w \in Wallets /\ UNCHANGED nodeVars
  BY EngineAssumption DEF Start, TakeNonce, BeginFirstFetch, FailFirstFetch, Build, FailBuild,
     SubmitRefused, RejectOther, Confirm, GiveUpWaiting
<1>2. /\ NoGaps(w)' <=> NoGaps(w)
      /\ \A n : /\ Reaches(w, n)' <=> Reaches(w, n)
                /\ Fresh(w, n)' <=> Fresh(w, n)
  BY <1>1, SameWallet DEF nodeVars
<1>3. CASE TakeNonce(v)
  <2>1. /\ pc[v] = "next" /\ pc' = [pc EXCEPT ![v] = "build"] /\ next[w] # Unset
        /\ nonce' = [nonce EXCEPT ![v] = next[w]] /\ next' = [next EXCEPT ![w] = next[w] + 1]
        /\ out' = out
    BY <1>3 DEF TakeNonce, NextCached, Goto
  <2>2. Upcoming(v)' = Upcoming(v) /\ (Trusted(v)' => Trusted(v)) /\ pc'[v] = "build"
        /\ next'[w] = nonce'[v] + 1
    BY <1>1, <2>1 DEF Upcoming, Owning, Trusted
  <2> QED
    BY <1>2, <2>1, <2>2 DEF InStep, Owning
<1>4. CASE ~TakeNonce(v)
  <2>1. /\ next' = next /\ nonce' = nonce
        /\ pc[v] \in Owning <=> pc'[v] \in Owning
        /\ pc'[v] \notin {"releaseNonceError", "refetch", "store"}
        /\ \/ out'[v] = out[v] /\ pc[v] # "releaseError"
           \/ out'[v].kind # "resynced"
    <3>1. CASE Start(v) \/ BeginFirstFetch(v)
      BY <3>1 DEF Start, BeginFirstFetch, NextFetchBegin, Goto, Owning, nonceVars
    <3>2. CASE FailFirstFetch(v)
      BY <3>2 DEF FailFirstFetch, NextFetchError, Return, Goto, Owning
    <3>3. CASE Build(v) \/ FailBuild(v) \/ SubmitRefused(v)
      BY <3>3 DEF Build, FailBuild, SubmitRefused, Goto, Owning, nonceVars
    <3>4. CASE Confirm(v) \/ GiveUpWaiting(v)
      BY <3>4 DEF Confirm, GiveUpWaiting, Return, Goto, Owning, nonceVars
    <3> QED
      BY <1>4, <3>1, <3>2, <3>3, <3>4
  <2>2. Upcoming(v)' = Upcoming(v) /\ (Trusted(v)' => Trusted(v))
    BY <2>1 DEF Upcoming, Trusted
  <2> QED
    BY <1>2, <2>1, <2>2 DEF InStep
<1> QED
  BY <1>3, <1>4

(* v learns what the node expects. *)
LEMMA OwnFetchStep ==
    ASSUME AloneInv, TypeInv', NEW v \in VUs, InStep(v),
           EndFirstFetch(v) \/ Refetch(v) \/ FailRefetch(v) \/ Store(v)
    PROVE  InStep(v)'
<1> DEFINE w == WalletOf[v]
<1> USE DEF AloneInv, TypeInv, TypeOK, NonceTypeOK
<1>1. w \in Wallets /\ UNCHANGED nodeVars
  BY EngineAssumption DEF EndFirstFetch, Refetch, FailRefetch, Store
<1>2. /\ NoGaps(w)' <=> NoGaps(w)
      /\ \A n : /\ Reaches(w, n)' <=> Reaches(w, n)
                /\ Fresh(w, n)' <=> Fresh(w, n)
                /\ IsPendingNonce(w, n)' <=> IsPendingNonce(w, n)
  BY <1>1, SameWallet DEF nodeVars
<1>3. CASE EndFirstFetch(v)
  <2>1. PICK n \in PendingCandidates(w) :
          /\ IsPendingNonce(w, n)
          /\ next' = [next EXCEPT ![w] = n + 1] /\ nonce' = [nonce EXCEPT ![v] = n]
          /\ pc' = [pc EXCEPT ![v] = "build"]
    BY <1>3 DEF EndFirstFetch, NextFetchEnd, Goto
  <2>2. n \in Nat
    BY <1>1 DEF PendingCandidates, Txs
  <2>3. Reaches(w, n) /\ Fresh(w, n)
    BY <1>1, <2>1, <2>2, PendingIsFresh
  <2>4. pc'[v] = "build" /\ next'[w] = nonce'[v] + 1 /\ Upcoming(v)' = n
    BY <1>1, <2>1 DEF Upcoming, Owning
  <2> QED
    BY <1>2, <2>3, <2>4 DEF InStep, Owning
<1>4. CASE Refetch(v)
  <2>1. PICK n \in PendingCandidates(w) :
          /\ IsPendingNonce(w, n) /\ seen' = [seen EXCEPT ![v] = n]
          /\ pc[v] = "refetch" /\ pc' = [pc EXCEPT ![v] = "store"]
          /\ next' = next /\ nonce' = nonce /\ out' = out
    BY <1>4 DEF Refetch, Goto, nonceVars
  <2>2. Upcoming(v)' = Upcoming(v) /\ ~Trusted(v) /\ ~Trusted(v)' /\ seen'[v] = n /\ pc'[v] = "store"
    BY <2>1 DEF Upcoming, Owning, Trusted, InStep
  <2> QED
    BY <1>2, <2>1, <2>2 DEF InStep, Owning
<1>5. CASE FailRefetch(v)
  <2>1. /\ pc[v] = "refetch" /\ pc'[v] = "idle" /\ out'[v].kind = "unsynced"
        /\ next' = next /\ nonce' = nonce
    BY <1>5 DEF FailRefetch, Return, Goto, nonceVars
  <2>2. Upcoming(v)' = Upcoming(v) /\ ~Trusted(v)'
    BY <2>1 DEF Upcoming, Owning, Trusted, InStep
  <2> QED
    BY <1>2, <2>1, <2>2 DEF InStep, Owning
<1>6. CASE Store(v)
  <2>1. /\ pc[v] = "store" /\ pc'[v] = "idle" /\ next' = [next EXCEPT ![w] = seen[v]]
    BY <1>6 DEF Store, ResyncStore, Return, Goto
  <2>2. IsPendingNonce(w, seen[v]) /\ mined[w] \in Nat
    BY <1>1, <2>1 DEF InStep
  <2>3. seen[v] \in Nat
    BY <2>2 DEF IsPendingNonce, NoNonce
  <2>4. Reaches(w, seen[v]) /\ Fresh(w, seen[v])
    BY <1>1, <2>2, <2>3, PendingIsFresh
  <2>5. next'[w] = seen[v] /\ Upcoming(v)' = seen[v]
    BY <1>1, <2>1 DEF Upcoming, Owning
  <2> QED
    BY <1>2, <2>1, <2>4, <2>5 DEF InStep, Owning
<1> QED
  BY <1>3, <1>4, <1>5, <1>6

(* v hands a nonce to the node, or back to the manager. *)
LEMMA OwnNonceStep ==
    ASSUME AloneInv, TypeInv', NEW v \in VUs, InStep(v),
           Submit(v) \/ SubmitReplyLost(v) \/ SubmitNonceError(v) \/ ReleaseNonce(v)
    PROVE  InStep(v)'
<1> DEFINE w == WalletOf[v]
<1> USE DEF AloneInv, TypeInv, TypeOK, NonceTypeOK
<1>1. w \in Wallets
  BY EngineAssumption
<1>2. PICK n \in Nat : /\ pc[v] \in Owning /\ nonce[v] = n
                       /\ next[w] = n + 1 /\ next[w] # Unset
                       /\ Upcoming(v) = n /\ Reaches(w, n) /\ NoGaps(w)
  <2>1. pc[v] \in Owning
    BY DEF Submit, SubmitReplyLost, SubmitNonceError, ReleaseNonce, Return, Goto, Owning
  <2>2. nonce[v] \in Nat /\ next[w] = nonce[v] + 1
    BY <2>1 DEF OwnsNonce, InStep, NoNonce
  <2> QED
    BY <2>1, <2>2 DEF InStep, Upcoming, Unset
<1>3. CASE Submit(v) \/ SubmitReplyLost(v)
  <2>1. PICK t \in Txs : t = TxOf(v) /\ t.n = n
    <3>1. TxOf(v) \in Txs /\ TxOf(v).n = n
      BY <1>2 DEF TxOf, Txs
    <3> QED
      BY <3>1
  <2>2. Accept(w, t) /\ next' = next
    BY <1>3, <2>1 DEF Submit, SubmitReplyLost, nonceVars
  <2>3. /\ NoGaps(w)' /\ Reaches(w, n)' /\ Reaches(w, n + 1)'
        /\ Fresh(w, n) => Fresh(w, n + 1)'
    BY <1>1, <1>2, <2>1, <2>2, AcceptInRun
  <2>4. CASE Submit(v)
    <3>1. /\ pc'[v] \in {"idle", "wait"} /\ out'[v].kind # "resynced"
          /\ pc[v] = "submit"
      BY <2>4 DEF Submit, Return, Goto
    <3>2. Upcoming(v)' = n + 1
      BY <1>2, <2>1, <2>2, <3>1 DEF Upcoming, Owning
    <3>3. Trusted(v)' => Trusted(v)
      BY <3>1 DEF Trusted
    <3> QED
      BY <1>2, <2>3, <3>1, <3>2, <3>3 DEF InStep, Owning
  <2>5. CASE SubmitReplyLost(v)
    <3>1. pc'[v] = "releaseError" /\ nonce' = nonce /\ LostReplies
      BY <1>1, <2>5 DEF SubmitReplyLost, Goto
    <3>2. Upcoming(v)' = n /\ ~Trusted(v)'
      BY <1>2, <3>1 DEF Upcoming, Owning, Trusted
    <3> QED
      BY <1>2, <2>2, <2>3, <3>1, <3>2 DEF InStep, Owning
  <2> QED
    BY <1>3, <2>4, <2>5
<1>4. CASE SubmitNonceError(v)
  <2>1. /\ pc[v] = "submit" /\ pc'[v] = "releaseNonceError" /\ UNCHANGED <<nodeVars, out>>
        /\ next' = next /\ nonce' = nonce /\ RejectNonce(w, TxOf(v))
    BY <1>4 DEF SubmitNonceError, RejectNonce, Goto, nonceVars
  <2>2. ~Trusted(v)
    <3>1. ~(Fresh(w, n) /\ Reaches(w, n))
      BY <1>1, <1>2, <2>1 DEF RejectNonce, TooLow, TooHigh, TxOf, Fresh, Reaches
    <3> QED
      BY <1>2, <3>1 DEF InStep
  <2>3. ~Trusted(v)' /\ Upcoming(v)' = n
    BY <1>2, <2>1, <2>2 DEF Trusted, Upcoming, Owning
  <2>4. NoGaps(w)' /\ Reaches(w, n)'
    BY <1>2, <2>1, SameWallet DEF nodeVars
  <2> QED
    BY <1>2, <2>1, <2>3, <2>4 DEF InStep, Owning
<1>5. CASE ReleaseNonce(v)
  <2>1. /\ next' = [next EXCEPT ![w] = n] /\ UNCHANGED nodeVars
        /\ \/ pc'[v] = "idle" /\ out'[v].kind # "resynced" /\ pc[v] # "releaseNonceError"
           \/ pc[v] = "releaseNonceError" /\ pc'[v] = "refetch" /\ out' = out
    BY <1>2, <1>5 DEF ReleaseNonce, Release, Return, Goto
  <2>2. Upcoming(v)' = n
    BY <1>1, <2>1 DEF Upcoming, Owning
  <2>3. (Trusted(v)' => Trusted(v)) /\ (Trusted(v)' => pc'[v] # "refetch")
    BY <2>1 DEF Trusted, InStep
  <2>4. /\ NoGaps(w)' /\ Reaches(w, n)'
        /\ Fresh(w, n) => Fresh(w, n)'
    BY <1>2, <2>1, SameWallet DEF nodeVars
  <2> QED
    BY <1>2, <2>1, <2>2, <2>3, <2>4 DEF InStep, Owning
<1> QED
  BY <1>3, <1>4, <1>5

(* A block keeps the run, whose first nonce it takes; whatever others send *)
(* leaves nobody alone.                                                    *)
LEMMA NodeInStep ==
    ASSUME AloneInv, TypeInv', NEW w \in Wallets, NodeStep(w), NEW v \in VUs, Alone(v)'
    PROVE  InStep(v)'
<1> USE DEF AloneInv, TypeInv, TypeOK, NonceTypeOK
<1>1. UNCHANGED <<nonceVars, engineVars>>
  BY DEF NodeStep
<1>2. Mine(w)
  <2>1. ~ExternalSend(w)
    BY DEF ExternalSend, Alone
  <2> QED
    BY <2>1 DEF NodeStep
<1>3. Alone(v) /\ InStep(v)
  BY <1>1, <1>2 DEF Alone, Mine, engineVars
<1>4. CASE WalletOf[v] # w
  <2>1. mined'[WalletOf[v]] = mined[WalletOf[v]] /\ pool'[WalletOf[v]] = pool[WalletOf[v]]
    BY <1>2, <1>4, EngineAssumption DEF Mine
  <2> QED
    BY <1>1, <1>3, <2>1, InStepStays DEF nonceVars, engineVars
<1>5. CASE WalletOf[v] = w
  <2>1. /\ NoGaps(w) => NoGaps(w)'
        /\ \A n \in Nat : (Reaches(w, n) => Reaches(w, n)') /\ (Fresh(w, n) => Fresh(w, n)')
    BY <1>2, MineInRun
  <2>2. Upcoming(v)' = Upcoming(v) /\ (Trusted(v)' <=> Trusted(v))
    BY <1>1 DEF Upcoming, Trusted, nonceVars, engineVars
  <2>3. next[w] # Unset => Upcoming(v) \in Nat
    BY <1>5 DEF Upcoming, OwnsNonce, NoNonce, Unset
  <2>4. ASSUME pc[v] = "store" PROVE IsPendingNonce(w, seen[v])'
    <3>1. IsPendingNonce(w, seen[v]) /\ mined[w] \in Nat
      BY <1>3, <1>5, <2>4 DEF InStep
    <3>2. seen[v] \in Nat \cup {NoNonce} /\ seen[v] >= mined[w]
      BY <3>1 DEF IsPendingNonce
    <3>3. seen[v] \in Nat
      BY <3>1, <3>2 DEF NoNonce
    <3>4. PICK n \in Nat : n = seen[v]
      BY <3>3
    <3>5. Reaches(w, n)' /\ Fresh(w, n)'
      BY <2>1, <3>1, <3>4, PendingIsFresh
    <3>6. IsPendingNonce(w, n)'
      BY <3>5, PendingInNext
    <3> QED
      BY <1>1, <3>4, <3>6 DEF engineVars
  <2> QED
    BY <1>1, <1>3, <1>5, <2>1, <2>2, <2>3, <2>4 DEF InStep, nonceVars, engineVars
<1> QED
  BY <1>4, <1>5

LEMMA AloneStep == AloneInv /\ [Next]_vars => AloneInv'
<1> SUFFICES ASSUME AloneInv, [Next]_vars PROVE AloneInv'
  OBVIOUS
<1>0. TypeInv'
  BY TypeStep DEF AloneInv
<1>1. ASSUME NEW v \in VUs, Start(v) \/ LockStep(v) \/ CallStep(v) PROVE AloneInv'
  <2>1. VUMoves(v)
    BY <1>1, StepMoves
  <2>2. IdleInv'
    BY <2>1 DEF AloneInv, IdleInv, VUMoves
  <2>3. ASSUME Alone(v)' PROVE InStep(v)'
    <3>1. Alone(v)
      BY <2>1, <2>3 DEF Alone, VUMoves
    <3>2. InStep(v)
      BY <3>1 DEF AloneInv
    <3> QED
      BY <1>0, <1>1, <3>2, OwnQuietStep, OwnFetchStep, OwnNonceStep DEF LockStep, CallStep
  <2>4. \A u \in VUs : Alone(u)' => InStep(u)'
    BY <2>1, <2>3, OthersInStep
  <2> QED
    BY <1>0, <2>2, <2>4 DEF AloneInv
<1>2. ASSUME NEW w \in Wallets, NodeStep(w) PROVE AloneInv'
  <2>1. IdleInv'
    BY <1>2 DEF NodeStep, engineVars, AloneInv, IdleInv
  <2> QED
    BY <1>0, <1>2, <2>1, NodeInStep DEF AloneInv
<1>3. CASE UNCHANGED vars
  <2>1. IdleInv'
    BY <1>3 DEF vars, engineVars, AloneInv, IdleInv
  <2>2. ASSUME NEW v \in VUs, Alone(v)' PROVE InStep(v)'
    <3>1. Alone(v)
      BY <1>3, <2>2 DEF Alone, vars, engineVars, nodeVars
    <3> QED
      BY <1>3, <3>1, InStepStays DEF AloneInv, vars, engineVars, nodeVars, nonceVars
  <2> QED
    BY <1>0, <2>1, <2>2 DEF AloneInv
<1> QED
  BY <1>1, <1>2, <1>3 DEF Next

LEMMA AloneInvariant == Spec => []AloneInv
BY AloneInit, AloneStep, PTL DEF Spec

(* If no reply is lost, a VU that has its wallet to itself leaves the      *)
(* counter exact after every Send: Release takes back what a failure or a  *)
(* dry run did not use (nonce.go, txengine/engine.go).                     *)
THEOREM ExactCounter == ASSUME ~LostReplies PROVE Spec => []ExactWhenIdle
<1>1. AloneInv => ExactWhenIdle
  <2> SUFFICES ASSUME AloneInv, NEW v \in VUs, pc[v] = "idle", Alone(v),
                      next[WalletOf[v]] # Unset
               PROVE  IsPendingNonce(WalletOf[v], next[WalletOf[v]])
    BY DEF ExactWhenIdle
  <2>1. InStep(v) /\ Trusted(v) /\ Upcoming(v) = next[WalletOf[v]]
    BY DEF AloneInv, Trusted, Upcoming, Owning
  <2>2. WalletOf[v] \in Wallets /\ next[WalletOf[v]] \in Nat /\ TypeOK
    BY EngineAssumption DEF AloneInv, TypeInv, TypeOK, NonceTypeOK
  <2> QED
    BY <2>1, <2>2, PendingIsFresh DEF InStep
<1> QED
  BY <1>1, AloneInvariant, PTL

(* A Resync heals: the Send after it meets no nonce error, on any node and *)
(* whatever replies were lost before (engine.go:107-108), while the VU has *)
(* its wallet to itself.                                                   *)
THEOREM Healing == Spec => ResyncHeals
<1>1. AloneInv /\ [Next]_vars =>
        [\A v \in VUs : (out[v].kind = "resynced" /\ out'[v] # out[v] /\ Alone(v))
                            => out'[v].kind \notin {"resynced", "unsynced"}]_vars
  <2> SUFFICES ASSUME AloneInv, [Next]_vars, NEW v \in VUs,
                      out[v].kind = "resynced", out'[v] # out[v], Alone(v)
               PROVE  out'[v].kind \notin {"resynced", "unsynced"}
    BY Zenon
  <2>1. InStep(v) /\ TypeOK
    BY DEF AloneInv, TypeInv
  <2>2. pc[v] \notin {"refetch", "store"}
    BY <2>1 DEF InStep, Trusted
  <2>3. ~(UNCHANGED vars) /\ \A w \in Wallets : ~NodeStep(w)
    BY DEF vars, engineVars, NodeStep
  <2>4. PICK u \in VUs : Start(u) \/ LockStep(u) \/ CallStep(u)
    BY <2>3 DEF Next
  <2>5. u = v
    BY <2>4, StepMoves DEF VUMoves
  <2>6. CASE Start(v) \/ LockStep(v)
    BY <2>1, <2>2, <2>6 DEF Start, LockStep, TakeNonce, BeginFirstFetch, ReleaseNonce, Store,
       Return, Goto, TypeOK
  <2>7. CASE CallStep(v)
    BY <2>1, <2>2, <2>7 DEF CallStep, EndFirstFetch, FailFirstFetch, Build, FailBuild, Submit,
       SubmitReplyLost, SubmitRefused, SubmitNonceError, Refetch, FailRefetch, Confirm,
       GiveUpWaiting, Return, Goto, TypeOK
  <2> QED
    BY <2>4, <2>5, <2>6, <2>7
<1> QED
  BY <1>1, AloneInvariant, PTL DEF Spec, ResyncHeals
====
