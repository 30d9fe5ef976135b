---------------------------- MODULE NonceManager ----------------------------
(***************************************************************************)
(* internal/wallet/nonce.go: the map from wallet to its next nonce, and    *)
(* the one mutex that guards it.  A caller is a virtual user.              *)
(*                                                                         *)
(* Next holds the mutex while it asks the chain for a wallet's first       *)
(* nonce, so that call is two steps here (begin, end) with mu held in      *)
(* between; every other critical section makes no call out of the process  *)
(* and is one step, possible only while the mutex is free.  Resync asks    *)
(* the chain BEFORE it takes the mutex: only its store is an operation of  *)
(* this module, and its caller carries the value in between.               *)
(***************************************************************************)
EXTENDS Actors, Integers

CONSTANTS NoVU      \* the owner of a free mutex

ASSUME NoVUAssumption == NoVU \notin VUs

VARIABLES next,     \* m.next; Unset where the map has no entry
          mu        \* the VU inside a critical section that spans steps

nonceVars == <<next, mu>>

Unset == -1

NonceTypeOK == /\ next \in [Wallets -> Nat \cup {Unset}]
               /\ mu \in VUs \cup {NoVU}

NonceInit == /\ next = [w \in Wallets |-> Unset]
             /\ mu = NoVU

(* Mutant of NextCached: the counter is not advanced. *)
NextCachedNotAdvanced(w, n) ==
    /\ mu = NoVU
    /\ next[w] # Unset
    /\ n = next[w]
    /\ UNCHANGED nonceVars

(* Next on a wallet whose counter is known: hand out n. *)
NextCached(w, n) ==
    /\ mu = NoVU
    /\ next[w] # Unset
    /\ n = next[w]
    /\ next' = [next EXCEPT ![w] = n + 1]
    /\ UNCHANGED mu

(* Next on a wallet seen for the first time: NonceAt is called under mu. *)
NextFetchBegin(v, w) ==
    /\ mu = NoVU
    /\ next[w] = Unset
    /\ mu' = v
    /\ UNCHANGED next

(* Mutant of NextFetchEnd: the nonce handed out is kept as the next one. *)
NextFetchEndKept(v, w, onChain) ==
    /\ mu = v
    /\ next' = [next EXCEPT ![w] = onChain]
    /\ mu' = NoVU

(* The chain answered onChain: it is handed out and its successor kept. *)
NextFetchEnd(v, w, onChain) ==
    /\ mu = v
    /\ next' = [next EXCEPT ![w] = onChain + 1]
    /\ mu' = NoVU

(* Mutant of NextFetchError: a return that skips the unlock. *)
NextFetchErrorLocked(v) ==
    /\ mu = v
    /\ UNCHANGED nonceVars

(* The chain did not answer: the map is left without an entry. *)
NextFetchError(v) ==
    /\ mu = v
    /\ mu' = NoVU
    /\ UNCHANGED next

(* Mutants of Release: rewind whatever was issued since; never rewind. *)
ReleaseAlways(w, n) ==
    /\ mu = NoVU
    /\ next' = [next EXCEPT ![w] = n]
    /\ UNCHANGED mu

ReleaseNever(w, n) ==
    /\ mu = NoVU
    /\ UNCHANGED nonceVars

(* Release rewinds the counter only when n is the nonce issued last. *)
Release(w, n) ==
    /\ mu = NoVU
    /\ next' = IF next[w] = n + 1 THEN [next EXCEPT ![w] = n] ELSE next
    /\ UNCHANGED mu

(* Mutant of ResyncStore: the chain's answer is dropped. *)
ResyncStoreDropped(w, onChain) ==
    /\ mu = NoVU
    /\ UNCHANGED nonceVars

(* The locked half of Resync: overwrite the counter, whatever it holds. *)
ResyncStore(w, onChain) ==
    /\ mu = NoVU
    /\ next' = [next EXCEPT ![w] = onChain]
    /\ UNCHANGED mu
=============================================================================
