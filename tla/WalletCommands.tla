--------------------------- MODULE WalletCommands ---------------------------
(***************************************************************************)
(* cmd/web3load/cmd_wallets.go: "wallets generate" writes a keystore,      *)
(* "wallets fund" loads it and pays its wallets.  Each may be run again,   *)
(* one while the other runs, and be killed at any point.                   *)
(***************************************************************************)
EXTENDS Keystore, Funding

CONSTANTS Count,         \* wallets generate --count
          MaxGenerates,  \* bound: runs of generate
          MaxFunds       \* bound: runs of fund

ASSUME CommandAssumption ==
    /\ Count \in Nat \ {0}
    /\ MaxGenerates \in Nat /\ MaxFunds \in Nat

VARIABLES generated,  \* runs of generate
          opened,     \* fund: the password given, once LoadAny has begun
          encrypted,  \* fund: what IsEncrypted told it
          exit,       \* what the last fund command came to
          rewritten   \* history: was the file written between the two reads?

commandVars == <<generated, opened, encrypted, exit, rewritten>>
vars == <<keystoreVars, nonceVars, nodeVars, fundVars, commandVars>>

AllPasswords == Passwords \cup {NoPassword}

(* The wallets of the g-th keystore: no key is generated twice. *)
WalletsOf(g) == [i \in 1 .. Count |-> [keystore |-> g, index |-> i]]

Init ==
    /\ KeystoreInit
    /\ FundInit
    /\ generated = 0
    /\ opened = NoPassword
    /\ encrypted = FALSE
    /\ exit = "none"
    /\ rewritten = FALSE
-----------------------------------------------------------------------------
(* wallets generate *)

Touch == rewritten' = (rewritten \/ at = "loading")

Generate(password) ==
    /\ generated < MaxGenerates
    /\ generated' = generated + 1
    /\ BeginSave(WalletsOf(generated + 1), password)
    /\ Touch
    /\ UNCHANGED <<nonceVars, nodeVars, fundVars, opened, encrypted, exit>>

FinishGenerate ==
    /\ EndSave
    /\ Touch
    /\ UNCHANGED <<nonceVars, nodeVars, fundVars, generated, opened, encrypted, exit>>

KillGenerate ==
    /\ AbandonSave
    /\ UNCHANGED <<nonceVars, nodeVars, fundVars, commandVars>>
-----------------------------------------------------------------------------
(* wallets fund *)

(* LoadAny's first read. *)
StartFund(password) ==
    /\ at = "off"
    /\ commands < MaxFunds
    /\ commands' = commands + 1
    /\ IF Parses THEN at' = "loading" /\ exit' = "none"
                 ELSE at' = "off" /\ exit' = "failed"
    /\ opened' = password
    /\ encrypted' = IsEncrypted
    /\ rewritten' = FALSE
    /\ lost' = FALSE
    /\ keys' = <<>>
    /\ results' = <<>>
    /\ UNCHANGED <<keystoreVars, nonceVars, nodeVars, held, reverted, generated>>

(* Its second read. *)
LoadKeystore ==
    /\ at = "loading"
    /\ LET loaded == IF encrypted THEN LoadEncrypted(opened) ELSE LoadPlain
       IN  /\ keys' = loaded.wallets
           /\ IF loaded.ok THEN at' = "dialling" /\ UNCHANGED exit
                           ELSE at' = "off" /\ exit' = "failed"
    /\ UNCHANGED <<keystoreVars, nonceVars, nodeVars, results, held, commands, lost,
                   reverted, generated, opened, encrypted, rewritten>>

(* LoadAny's own variables are gone once it has returned. *)
Forget == /\ opened' = NoPassword
          /\ encrypted' = FALSE
          /\ rewritten' = FALSE
          /\ UNCHANGED generated

(* The amount or the funder's key is no number, or Dial fails. *)
FailBeforeFunding ==
    /\ at = "dialling"
    /\ at' = "off"
    /\ exit' = "failed"
    /\ Forget
    /\ UNCHANGED <<keystoreVars, nonceVars, nodeVars, keys, results, held, commands,
                   lost, reverted>>

StartFunding ==
    /\ at = "dialling"
    /\ FundBegin(keys)
    /\ Forget
    /\ UNCHANGED <<keystoreVars, exit>>

Fund == FundStep /\ UNCHANGED <<keystoreVars, commandVars>>

(* The command fails when a wallet could not be funded. *)
FinishFund ==
    /\ at = "next"
    /\ Len(results) = Len(keys)
    /\ at' = "off"
    /\ exit' = IF \A j \in DOMAIN results : results[j] = "funded" THEN "ok" ELSE "failed"
    /\ UNCHANGED <<keystoreVars, nonceVars, nodeVars, keys, results, held, commands,
                   lost, reverted, generated, opened, encrypted, rewritten>>

(* The process dies: what it sent stays sent. *)
KillFund ==
    /\ at # "off"
    /\ at' = "off"
    /\ held' = NoNonce
    /\ mu' = NoVU
    /\ Forget
    /\ UNCHANGED <<keystoreVars, next, nodeVars, keys, results, commands, lost, reverted,
                   exit>>

FundCommand == LoadKeystore \/ FailBeforeFunding \/ StartFunding \/ Fund \/ FinishFund

Next ==
    \/ \E password \in AllPasswords : Generate(password) \/ StartFund(password)
    \/ FinishGenerate \/ KillGenerate
    \/ FundCommand \/ KillFund
    \/ (MineTransfer \/ OtherPayment) /\ UNCHANGED <<keystoreVars, commandVars>>

Spec == Init /\ [][Next]_vars

(* The command's calls return, and its clock runs.  Nothing is assumed of  *)
(* the node's blocks.                                                      *)
FairSpec == Spec /\ WF_vars(FundCommand)
-----------------------------------------------------------------------------
(* A keystore that is loaded is one that generate saved whole, with the    *)
(* password it was saved with: a torn file, a wrong password or a missing  *)
(* one is an error (wallet/encrypt.go:95-97, 128-131).  LoadAny reads the  *)
(* file twice, and is not safe from a writer between the two.              *)
LoadedWasSaved ==
    (at = "dialling" /\ ~rewritten) =>
        /\ keys \in {WalletsOf(g) : g \in 1 .. generated}
        /\ file.wallets = keys =>
             file.password = IF encrypted THEN opened ELSE NoPassword

(* Has this command mined a transfer to w that did not revert? *)
Paid(w) ==
    \E t \in done[Funder] \ reverted :
        t.by = Command /\ t.k = [command |-> commands, to |-> w]

(* fund exits with status 0 only if every wallet it loaded was paid by it, *)
(* and it calls no wallet funded that was not: a transfer replaced,        *)
(* reverted, given up on or refused is never taken for a mined one.        *)
ExitMeansFunded ==
    /\ \A j \in DOMAIN results : results[j] = "funded" => Paid(keys[j])
    /\ exit = "ok" => \A j \in DOMAIN keys : Paid(keys[j])

(* "The funder is one account and must not race its own nonce"             *)
(* (wallet/fund.go:22-23): a transfer has the very nonce the chain expects *)
(* next, after transfers that failed, timed out or are still pending, and  *)
(* after a command that was killed.  Only a lost reply in the same command *)
(* or another user of the key takes it off course.                         *)
NonceIsNext ==
    (at \in {"build", "submit"} /\ ~lost /\ external = 0)
        => IsPendingNonce(Funder, held)

(* A fund command comes to its end, blocks or no blocks. *)
FundReturns == (at # "off") ~> (at = "off")
=============================================================================
