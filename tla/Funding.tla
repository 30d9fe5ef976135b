------------------------------- MODULE Funding -------------------------------
(***************************************************************************)
(* internal/wallet/fund.go: Fund pays every wallet of a keystore from one  *)
(* funder account, one after the other, with a nonce manager of its own.   *)
(*                                                                         *)
(* A failed transfer does not stop the loop.  One goroutine uses the nonce *)
(* manager, so a failed call and the Release after it are one step.        *)
(***************************************************************************)
EXTENDS NonceManager, EVMNode, Sequences

CONSTANTS Funder,      \* the account that pays
          Command,     \* the process that sends
          LostReplies  \* can SendTransaction fail after the node took it?

ASSUME FundingAssumption ==
    /\ Wallets = {Funder} /\ VUs = {Command}
    /\ Outside # Command
    /\ LostReplies \in BOOLEAN

VARIABLES at,        \* where the fund command is
          keys,      \* the wallets it pays
          results,   \* what came of each transfer so far
          held,      \* the nonce of the transfer at hand
          commands,  \* fund commands started so far
          lost,      \* history: has this command lost a reply?
          reverted   \* transfers mined with status 0

fundVars == <<at, keys, results, held, commands, lost, reverted>>

NoNonce == -1

FundInit ==
    /\ NonceInit
    /\ NodeInit
    /\ at = "off"
    /\ keys = <<>>
    /\ results = <<>>
    /\ held = NoNonce
    /\ commands = 0
    /\ lost = FALSE
    /\ reverted = {}

(* The transfer at hand. *)
Transfer == [n |-> held, by |-> Command,
             k |-> [command |-> commands, to |-> keys[Len(results) + 1]]]

(* NewNonceManager, and the loop begins. *)
FundBegin(wallets) ==
    /\ keys' = wallets
    /\ at' = "next"
    /\ next' = [w \in Wallets |-> Unset]
    /\ UNCHANGED <<mu, nodeVars, results, held, commands, lost, reverted>>

AtNext == at = "next" /\ Len(results) < Len(keys)

TakeNonce ==
    /\ AtNext
    /\ NextCached(Funder, next[Funder])
    /\ held' = next[Funder]
    /\ at' = "build"
    /\ UNCHANGED <<nodeVars, keys, results, commands, lost, reverted>>

BeginFirstFetch ==
    /\ AtNext
    /\ NextFetchBegin(Command, Funder)
    /\ at' = "fetch"
    /\ UNCHANGED <<nodeVars, keys, results, held, commands, lost, reverted>>

EndFirstFetch ==
    /\ at = "fetch"
    /\ \E n \in PendingCandidates(Funder) :
        /\ IsPendingNonce(Funder, n)
        /\ NextFetchEnd(Command, Funder, n)
        /\ held' = n
    /\ at' = "build"
    /\ UNCHANGED <<nodeVars, keys, results, commands, lost, reverted>>

(* The transfer at hand is done with, one way or the other. *)
Settle(result) ==
    /\ results' = Append(results, result)
    /\ held' = NoNonce
    /\ at' = "next"
    /\ UNCHANGED <<keys, commands, reverted>>

FailFirstFetch ==
    /\ at = "fetch"
    /\ NextFetchError(Command)
    /\ Settle("failed")
    /\ UNCHANGED <<nodeVars, lost>>

(* SuggestFees and SignTx. *)
Build ==
    /\ at = "build"
    /\ at' = "submit"
    /\ UNCHANGED <<nonceVars, nodeVars, keys, results, held, commands, lost, reverted>>

(* Mutant of FailBuild: the nonce is not given back. *)
FailBuildNonceKept ==
    /\ at = "build"
    /\ Settle("failed")
    /\ UNCHANGED <<nonceVars, nodeVars, lost>>

FailBuild ==
    /\ at = "build"
    /\ Release(Funder, held)
    /\ Settle("failed")
    /\ UNCHANGED <<nodeVars, lost>>

Submit ==
    /\ at = "submit"
    /\ Accept(Funder, Transfer)
    /\ at' = "wait"
    /\ UNCHANGED <<nonceVars, keys, results, held, commands, lost, reverted>>

(* Any error of SendRawTransaction, nonce errors included, gives the nonce *)
(* back; nothing resyncs.                                                  *)
SubmitRefused ==
    /\ at = "submit"
    /\ RejectNonce(Funder, Transfer) \/ RejectOther
    /\ Release(Funder, held)
    /\ Settle("failed")
    /\ UNCHANGED lost

SubmitReplyLost ==
    /\ LostReplies
    /\ at = "submit"
    /\ Accept(Funder, Transfer)
    /\ Release(Funder, held)
    /\ Settle("failed")
    /\ lost' = TRUE
-----------------------------------------------------------------------------
(* waitForReceipt *)

(* Mutant of Confirm: the status of the receipt is not looked at. *)
ConfirmAnyStatus ==
    /\ at = "wait"
    /\ Transfer \in done[Funder]
    /\ Settle("funded")
    /\ UNCHANGED <<nonceVars, nodeVars, lost>>

Confirm ==
    /\ at = "wait"
    /\ Transfer \in done[Funder] \ reverted
    /\ Settle("funded")
    /\ UNCHANGED <<nonceVars, nodeVars, lost>>

FindReverted ==
    /\ at = "wait"
    /\ Transfer \in reverted
    /\ Settle("failed")
    /\ UNCHANGED <<nonceVars, nodeVars, lost>>

(* Mutant of GiveUp: without a receipt there is no look at the clock. *)
GiveUpOnceMined ==
    /\ at = "wait"
    /\ mined[Funder] > held
    /\ Settle("failed")
    /\ UNCHANGED <<nonceVars, nodeVars, lost>>

(* The transfer is not confirmed within the timeout; the next one follows. *)
GiveUp ==
    /\ at = "wait"
    /\ Settle("failed")
    /\ UNCHANGED <<nonceVars, nodeVars, lost>>

FundStep ==
    \/ TakeNonce \/ BeginFirstFetch \/ EndFirstFetch \/ FailFirstFetch
    \/ Build \/ FailBuild
    \/ Submit \/ SubmitRefused \/ SubmitReplyLost
    \/ Confirm \/ FindReverted \/ GiveUp
-----------------------------------------------------------------------------
(* The node: a block, and someone else who has the funder's key. *)

MineTransfer ==
    /\ Mine(Funder)
    /\ \E bad \in {{}, done'[Funder] \ done[Funder]} : reverted' = reverted \cup bad
    /\ UNCHANGED <<nonceVars, at, keys, results, held, commands, lost>>

OtherPayment ==
    /\ ExternalSend(Funder)
    /\ UNCHANGED <<nonceVars, fundVars>>
=============================================================================
