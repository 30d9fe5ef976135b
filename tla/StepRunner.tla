----------------------------- MODULE StepRunner -----------------------------
(***************************************************************************)
(* One virtual user running the scenario's steps: runIteration and         *)
(* executeWithRetry (internal/load/engine.go), the Result an action makes  *)
(* of its outcome (internal/action), and the collector's RecordStep        *)
(* (internal/metrics/metrics.go).                                          *)
(*                                                                         *)
(* A step is its kind of action, its retry policy, the text of its target  *)
(* and the name under which its value is saved, or "none".  What a call    *)
(* out of the process comes to is chosen freely among what it can come to; *)
(* for a transaction these are the outcomes of TxEngine's Send, the one    *)
(* whose reply was lost included.                                          *)
(***************************************************************************)
EXTENDS Integers, Sequences

CONSTANTS Steps,         \* scenario.steps
          Vars,          \* the names under scenario.variables
          MaxIterations  \* bound: iterations of the VU

(* get_balance, the four built-ins that send, and plugins.  validate       *)
(* cannot know which plugins a run loads.                                  *)
Actions == {"think", "read", "send", "plugin", "unloaded_plugin"}

(* Step.validate. *)
ValidStep(s) ==
    /\ s.action \in Actions
    /\ s.attempts \in Nat \ {0}

ASSUME StepAssumption ==
    /\ Steps \in Seq([action : STRING, attempts : Int, to : STRING, saveAs : STRING])
    /\ Steps # <<>>
    /\ \A k \in DOMAIN Steps : ValidStep(Steps[k])
    /\ MaxIterations \in Nat

VARIABLES pc,         \* where the VU is
          step,       \* the step it is at
          attempt,    \* attempts of it begun
          res,        \* the Result and error of the last attempt
          saved,      \* state.Saved: the iteration that saved each name
          ctx,        \* the VU's context: "live" or "done"
          broadcasts, \* history: transactions of this step that reached a node
          iterations, \* iterations begun
          counts,     \* the collector: successes, reverts, errors by kind
          executed,   \* history: steps executed
          silent      \* history: plugin results that were not a success

vars == <<pc, step, attempt, res, saved, ctx, broadcasts, iterations,
          counts, executed, silent>>

ErrorKinds == {"nonce_error", "timeout", "rpc_error", "unknown_action"}
SaveNames == {Steps[k].saveAs : k \in DOMAIN Steps} \ {"none"}
Counters == {"success", "reverted"} \cup ErrorKinds

(* TxHash is empty, the text of the zero hash, or that of a transaction;  *)
(* verdict stands for Success and Reverted, never both.                    *)
Result(hash, err, verdict) ==
    [hash |-> hash, err |-> err, verdict |-> verdict, value |-> "nil"]

NoResult == Result("empty", "none", "none")

Failure(err) == Result("empty", err, "none")

Value(verdict, value) == [Result("empty", "none", verdict) EXCEPT !.value = value]

Results == [hash : {"empty", "zero", "tx"},
            err : {"none", "nonce_error", "timeout", "rpc_error"},
            verdict : {"none", "success", "reverted"}, value : {"nil", "set"}]

TypeOK ==
    /\ pc \in {"between", "step", "attempt", "backoff", "record", "stopped"}
    /\ step \in 1 .. Len(Steps) + 1
    /\ attempt \in Nat
    /\ res \in Results
    /\ saved \in [SaveNames -> 0 .. MaxIterations]
    /\ ctx \in {"live", "done"}
    /\ broadcasts \in Nat
    /\ iterations \in 0 .. MaxIterations
    /\ counts \in [Counters -> Nat]
    /\ executed \in Nat /\ silent \in Nat

Init ==
    /\ pc = "between"
    /\ step = 1
    /\ attempt = 0
    /\ res = NoResult
    /\ saved = [n \in SaveNames |-> 0]
    /\ ctx = "live"
    /\ broadcasts = 0
    /\ iterations = 0
    /\ counts = [c \in Counters |-> 0]
    /\ executed = 0
    /\ silent = 0

collector == <<counts, executed, silent>>

ContextEnds ==
    /\ ctx = "live"
    /\ ctx' = "done"
    /\ UNCHANGED <<pc, step, attempt, res, saved, broadcasts, iterations, collector>>
-----------------------------------------------------------------------------
(* spawnVU *)

(* Mutant of BeginIteration: one Saved for the whole life of the VU. *)
BeginIterationSavedKept ==
    /\ pc = "between"
    /\ ctx = "live"
    /\ iterations < MaxIterations
    /\ iterations' = iterations + 1
    /\ pc' = "step"
    /\ step' = 1
    /\ UNCHANGED <<attempt, res, saved, ctx, broadcasts, collector>>

BeginIteration ==
    /\ pc = "between"
    /\ ctx = "live"
    /\ iterations < MaxIterations
    /\ iterations' = iterations + 1
    /\ pc' = "step"
    /\ step' = 1
    /\ saved' = [n \in SaveNames |-> 0]
    /\ UNCHANGED <<attempt, res, ctx, broadcasts, collector>>

Stop ==
    /\ pc = "between"
    /\ ctx = "done"
    /\ pc' = "stopped"
    /\ UNCHANGED <<step, attempt, res, saved, ctx, broadcasts, iterations, collector>>
-----------------------------------------------------------------------------
(* runIteration: the iteration ends after the last step or when the        *)
(* context is done before one.                                             *)

EndIteration ==
    /\ pc = "step"
    /\ ctx = "done" \/ step > Len(Steps)
    /\ pc' = "between"
    /\ UNCHANGED <<step, attempt, res, saved, ctx, broadcasts, iterations, collector>>

AtStep(kinds) ==
    /\ pc = "step"
    /\ ctx = "live"
    /\ step <= Len(Steps)
    /\ Steps[step].action \in kinds

(* A pause ends by itself or with the context. *)
Think ==
    /\ AtStep({"think"})
    /\ step' = step + 1
    /\ UNCHANGED <<pc, attempt, res, saved, ctx, broadcasts, iterations, collector>>

UnknownAction ==
    /\ AtStep({"unloaded_plugin"})
    /\ counts' = [counts EXCEPT !["unknown_action"] = @ + 1]
    /\ executed' = executed + 1
    /\ pc' = "between"
    /\ UNCHANGED <<step, attempt, res, saved, ctx, broadcasts, iterations, silent>>

BeginStep ==
    /\ AtStep({"read", "send", "plugin"})
    /\ pc' = "attempt"
    /\ attempt' = 0
    /\ broadcasts' = 0
    /\ UNCHANGED <<step, res, saved, ctx, iterations, collector>>
-----------------------------------------------------------------------------
(* resolve: a target without a placeholder is an address; a name is        *)
(* looked up, and left as it is when nothing is found.                     *)
Resolve(name) ==
    IF name \in {"address", "wallet.address"} \cup Vars THEN "address"
    ELSE IF name \in SaveNames /\ saved[name] > 0 THEN "saved value"
    ELSE "verbatim"

(* common.HexToAddress: what cannot be read as hex is the zero address.  A *)
(* saved value is a number or what a plugin printed.                       *)
HexToAddress(text) == IF text = "verbatim" THEN "zero address" ELSE text

(* resolveAddress: where this step's transaction goes. *)
Recipient == HexToAddress(Resolve(Steps[step].to))

(* Execute.  An error made before Send (a bad amount, the spend cap, an    *)
(* encoding, a failed read, a plugin's refusal) has no hash.  The Result   *)
(* of a Send holds the text of its Outcome's hash whatever the hash is, so *)
(* the zero hash of a failed Send has a text, too.                         *)

(* Mutant of OutcomeToResult: the zero hash has no text. *)
OutcomeToResultZeroIsEmpty(hash, err, verdict) ==
    Result(IF hash = "none" THEN "empty" ELSE hash, err, verdict)

OutcomeToResult(hash, err, verdict) ==
    Result(IF hash = "none" THEN "zero" ELSE hash, err, verdict)

ReadResults == {Value("success", "set"), Failure("rpc_error")}

(* What Send can come to: with nothing on the network, ... *)
UnsentResults ==
    {OutcomeToResult("none", "rpc_error", "none"),
     OutcomeToResult("none", "nonce_error", "none"),
     OutcomeToResult("none", "none", "success")}  \* dry run

(* ... and with the transaction there.  The first one is a lost reply; the *)
(* errors with a hash are a wait cut short by its deadline or the context. *)
SentResults ==
    {OutcomeToResult("none", "rpc_error", "none"),
     OutcomeToResult("tx", "none", "success"),
     OutcomeToResult("tx", "none", "reverted"),
     OutcomeToResult("tx", "timeout", "none"),
     OutcomeToResult("tx", "rpc_error", "none")}

(* A plugin's "result" that is not a success is no error either, and its   *)
(* output may be empty.                                                    *)
PluginResults ==
    {Value(verdict, value) : verdict \in {"success", "none"}, value \in {"nil", "set"}}

(* Mutant of Attempted: the last attempt is never made. *)
AttemptedOneFewer(r, sent) ==
    /\ pc = "attempt"
    /\ attempt' = attempt + 1
    /\ res' = r
    /\ broadcasts' = broadcasts + sent
    /\ pc' = IF r.err = "none" \/ r.hash # "empty" \/ attempt' + 1 >= Steps[step].attempts
               THEN "record" ELSE "backoff"
    /\ UNCHANGED <<step, saved, ctx, iterations, collector>>

Attempted(r, sent) ==
    /\ pc = "attempt"
    /\ attempt' = attempt + 1
    /\ res' = r
    /\ broadcasts' = broadcasts + sent
    /\ pc' = IF r.err = "none" \/ r.hash # "empty" \/ attempt' = Steps[step].attempts
               THEN "record" ELSE "backoff"
    /\ UNCHANGED <<step, saved, ctx, iterations, collector>>

Read ==
    /\ Steps[step].action = "read"
    /\ \E r \in ReadResults : Attempted(r, 0)

Refuse ==
    /\ Steps[step].action \in {"send", "plugin"}
    /\ Attempted(Failure("rpc_error"), 0)

Send ==
    /\ Steps[step].action \in {"send", "plugin"}
    /\ \/ \E r \in UnsentResults : Attempted(r, 0)
       \/ \E r \in SentResults : Attempted(r, 1)

PluginResult ==
    /\ Steps[step].action = "plugin"
    /\ \E r \in PluginResults : Attempted(r, 0)

(* executeWithRetry between two attempts: the delay, or the context, whose *)
(* error then takes the place of the attempt's.                            *)
Retry ==
    /\ pc = "backoff"
    /\ pc' = "attempt"
    /\ UNCHANGED <<step, attempt, res, saved, ctx, broadcasts, iterations, collector>>

AbandonRetry ==
    /\ pc = "backoff"
    /\ ctx = "done"
    /\ res' = [res EXCEPT !.err = "rpc_error"]
    /\ pc' = "record"
    /\ UNCHANGED <<step, attempt, saved, ctx, broadcasts, iterations, collector>>
-----------------------------------------------------------------------------
(* What a step brought is saved before its error is looked at. *)
Save ==
    LET name == Steps[step].saveAs
    IN  saved' = IF name # "none" /\ res.value = "set" THEN [saved EXCEPT ![name] = iterations]
                 ELSE saved

(* Mutant of Record: a revert is counted neither way. *)
RecordNoReverts ==
    /\ pc = "record"
    /\ executed' = executed + 1
    /\ counts' = IF res.err # "none" THEN [counts EXCEPT ![res.err] = @ + 1]
                 ELSE IF res.verdict = "success" THEN [counts EXCEPT !["success"] = @ + 1]
                 ELSE counts
    /\ silent' = IF res.err = "none" /\ res.hash = "empty" /\ res.verdict # "success"
                   THEN silent + 1 ELSE silent
    /\ IF res.err # "none" THEN pc' = "between" /\ UNCHANGED step
                       ELSE pc' = "step" /\ step' = step + 1
    /\ res' = NoResult
    /\ Save
    /\ UNCHANGED <<attempt, ctx, broadcasts, iterations>>

(* RecordStep: an error counts under its kind, a revert as one, a success  *)
(* as one, anything else not at all.  An error ends the iteration.         *)
Record ==
    /\ pc = "record"
    /\ executed' = executed + 1
    /\ counts' = IF res.err # "none" THEN [counts EXCEPT ![res.err] = @ + 1]
                 ELSE IF res.verdict # "none" THEN [counts EXCEPT ![res.verdict] = @ + 1]
                 ELSE counts
    /\ silent' = IF res.err = "none" /\ res.hash = "empty" /\ res.verdict # "success"
                   THEN silent + 1 ELSE silent
    /\ IF res.err # "none" THEN pc' = "between" /\ UNCHANGED step
                       ELSE pc' = "step" /\ step' = step + 1
    /\ res' = NoResult
    /\ Save
    /\ UNCHANGED <<attempt, ctx, broadcasts, iterations>>

VUStep == \/ BeginIteration \/ Stop \/ EndIteration
          \/ Think \/ UnknownAction \/ BeginStep
          \/ Read \/ Refuse \/ Send \/ PluginResult
          \/ Retry \/ AbandonRetry
          \/ Record

Next == VUStep \/ ContextEnds

Spec == Init /\ [][Next]_vars

-----------------------------------------------------------------------------
(* No step puts two transactions on the network, whatever its retry policy *)
(* and even when the reply to an accepted submission is lost: "retrying    *)
(* after a transaction is already in the mempool could double-send"        *)
(* (load/engine.go:260-264).                                               *)
NeverDoubleSends == broadcasts <= 1

(* A step makes at most its max_attempts, and a failure without a hash is  *)
(* final only when they are used up or the context is done.                *)
AttemptsUsedUp ==
    /\ pc \in {"attempt", "backoff", "record"} => attempt <= Steps[step].attempts
    /\ (pc = "record" /\ res.err # "none" /\ res.hash = "empty" /\ ctx = "live")
         => attempt = Steps[step].attempts

(* "Retries only happen for a failure that occurred before anything was    *)
(* broadcast: a nonce/fee/gas-estimation/signing error, or the RPC         *)
(* rejecting the submission outright" (docs/dsl-reference.md:238-240):     *)
(* such a failure is not the step's result while attempts are left.        *)
UnsentFailureIsRetried ==
    (pc = "record" /\ res.err # "none" /\ broadcasts = 0 /\ ctx = "live")
        => attempt = Steps[step].attempts

(* Every step executed is in exactly one count of the collector, the       *)
(* plugin results that report neither success nor error excepted.          *)
EveryStepCounted ==
    executed = silent + counts["success"] + counts["reverted"] + counts["nonce_error"]
                 + counts["timeout"] + counts["rpc_error"] + counts["unknown_action"]

(* A placeholder for what an earlier get_balance saves is resolved, to the *)
(* value of this very iteration, and nothing saved outlives its iteration: *)
(* "a name previously written via a step's save_as"                        *)
(* (docs/dsl-reference.md:152), since a failed step ends the iteration.    *)
SavedValuesAreCurrent ==
    \A n \in SaveNames :
        /\ saved[n] \in {0, iterations}
        /\ (\E k \in 1 .. step - 1 : Steps[k].action = "read" /\ Steps[k].saveAs = n)
             => saved[n] = iterations

(* "An unresolved ${...} is left verbatim (so a typo fails loudly          *)
(* downstream rather than silently sending to the zero address)"           *)
(* (docs/dsl-reference.md:154-155).                                        *)
UnresolvedFailsLoudly ==
    (pc = "record" /\ Steps[step].action = "send" /\ broadcasts > 0)
        => Recipient # "zero address"
=============================================================================
