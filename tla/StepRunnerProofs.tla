-------------------------- MODULE StepRunnerProofs ---------------------------
(***************************************************************************)
(* The invariants of StepRunner, for every scenario that validates, every  *)
(* set of variables and any number of iterations.                          *)
(***************************************************************************)
EXTENDS StepRunner, TLAPS

Trying == pc \in {"attempt", "backoff", "record"}

(* What Execute can return: without an error it is a success, a revert or  *)
(* a plugin's result that is neither, and only a transaction is reverted.  *)
Conclusive(r) ==
    /\ (r.err = "none" /\ r.verdict = "none") => r.hash = "empty"
    /\ r.verdict = "reverted" => r.hash # "empty"

(* Where a step is being tried there is one, and it has attempts left for  *)
(* as long as it is tried; until it is recorded nothing was broadcast.     *)
TryInv ==
    /\ Trying => /\ step \in 1 .. Len(Steps)
                 /\ Steps[step].action # "think"
                 /\ attempt <= Steps[step].attempts
    /\ pc \in {"attempt", "backoff"} => /\ attempt < Steps[step].attempts
                                        /\ broadcasts = 0
    /\ pc \in {"backoff", "record"} => Conclusive(res)
    /\ pc = "record" =>
         /\ (Steps[step].action = "read" /\ res.err = "none") => res.value = "set"
         /\ (res.err # "none" /\ res.hash = "empty" /\ ctx = "live")
              => attempt = Steps[step].attempts

StepInv == TypeOK /\ TryInv /\ NeverDoubleSends /\ EveryStepCounted /\ SavedValuesAreCurrent

(* A validated scenario has a step, and each step an attempt. *)
LEMMA StepsAreValid ==
    /\ Len(Steps) \in Nat \ {0}
    /\ \A k \in 1 .. Len(Steps) :
         /\ Steps[k].attempts \in Nat \ {0}
         /\ Steps[k].saveAs # "none" => Steps[k].saveAs \in SaveNames
    /\ "none" \notin SaveNames
<1>1. /\ DOMAIN Steps = 1 .. Len(Steps)
      /\ Len(Steps) \in Nat \ {0}
  BY StepAssumption
<1>2. \A k \in DOMAIN Steps : Steps[k].attempts \in Nat \ {0}
  BY StepAssumption DEF ValidStep
<1>3. \A k \in DOMAIN Steps : Steps[k].saveAs # "none" => Steps[k].saveAs \in SaveNames
  BY DEF SaveNames
<1>4. "none" \notin SaveNames
  BY DEF SaveNames
<1>5. QED
  BY <1>1, <1>2, <1>3, <1>4

LEMMA InitHolds == Init => StepInv
<1> SUFFICES ASSUME Init PROVE StepInv
  OBVIOUS
<1>1. TypeOK
  BY StepsAreValid, StepAssumption
  DEF Init, TypeOK, NoResult, Result, Results, Counters, ErrorKinds
<1>2. EveryStepCounted
  BY DEF Init, EveryStepCounted, Counters, ErrorKinds
<1>3. TryInv /\ NeverDoubleSends /\ SavedValuesAreCurrent
  BY DEF Init, TryInv, Trying, NeverDoubleSends, SavedValuesAreCurrent
<1>4. QED
  BY <1>1, <1>2, <1>3 DEF StepInv

(* Every result an attempt can have is conclusive, and one that put a      *)
(* transaction on the network has a hash, the zero hash's text at worst.   *)
LEMMA ResultsAreConclusive ==
    /\ \A r \in ReadResults : r \in Results /\ Conclusive(r) /\ (r.err = "none" => r.value = "set")
    /\ \A r \in UnsentResults \cup SentResults :
         r \in Results /\ Conclusive(r) /\ r.hash # "empty"
    /\ \A r \in PluginResults : r \in Results /\ Conclusive(r)
    /\ Failure("rpc_error") \in Results /\ Conclusive(Failure("rpc_error"))
    /\ Failure("rpc_error").err # "none"
BY DEF ReadResults, UnsentResults, SentResults, PluginResults, Results, Conclusive,
       OutcomeToResult, Value, Failure, Result

(* An attempt, whatever it comes to. *)
LEMMA AttemptedKeepsInv ==
    ASSUME StepInv, NEW r \in Results, NEW sent \in {0, 1},
           Conclusive(r), sent = 1 => r.hash # "empty",
           (Steps[step].action = "read" /\ r.err = "none") => r.value = "set",
           Attempted(r, sent)
    PROVE  StepInv'
<1>1. /\ step \in 1 .. Len(Steps)
      /\ attempt \in Nat /\ attempt < Steps[step].attempts
      /\ Steps[step].attempts \in Nat
      /\ broadcasts = 0 /\ pc = "attempt"
  BY StepsAreValid DEF Attempted, StepInv, TypeOK, TryInv, Trying
<1>2. TypeOK'
  BY <1>1 DEF Attempted, StepInv, TypeOK, Results, collector
<1>3. TryInv'
  BY <1>1 DEF Attempted, StepInv, TypeOK, TryInv, Trying, Conclusive
<1>4. NeverDoubleSends' /\ EveryStepCounted'
  BY <1>1 DEF Attempted, StepInv, TypeOK, NeverDoubleSends, EveryStepCounted, collector
<1>5. SavedValuesAreCurrent'
  BY <1>1 DEF Attempted, StepInv, TypeOK, SavedValuesAreCurrent
<1>6. QED
  BY <1>2, <1>3, <1>4, <1>5 DEF StepInv

(* A step is recorded: one counter moves, and what the step read is saved. *)
LEMMA RecordKeepsInv ==
    ASSUME StepInv, Record
    PROVE  StepInv'
<1> DEFINE name == Steps[step].saveAs
<1>1. /\ step \in 1 .. Len(Steps) /\ Len(Steps) \in Nat
      /\ pc = "record" /\ Conclusive(res)
      /\ iterations \in 0 .. MaxIterations /\ MaxIterations \in Nat
      /\ name # "none" => name \in SaveNames
  BY StepsAreValid, StepAssumption DEF Record, StepInv, TypeOK, TryInv, Trying
<1>2. saved' \in [SaveNames -> 0 .. MaxIterations]
  BY <1>1 DEF Record, Save, StepInv, TypeOK
<1>3. TypeOK'
  <2>1. counts' \in [Counters -> Nat]
    <3>1. /\ res.err # "none" => res.err \in Counters
          /\ res.verdict # "none" => res.verdict \in Counters
      BY DEF StepInv, TypeOK, Results, Counters, ErrorKinds
    <3>2. \A c \in Counters :
             [counts EXCEPT ![c] = @ + 1] \in [Counters -> Nat]
      BY DEF StepInv, TypeOK
    <3>3. counts \in [Counters -> Nat]
      BY DEF StepInv, TypeOK
    <3>4. QED
      BY <3>1, <3>2, <3>3 DEF Record
  <2>2. res' \in Results
    BY DEF Record, NoResult, Result, Results
  <2>3. QED
    BY <1>1, <1>2, <2>1, <2>2 DEF Record, StepInv, TypeOK
<1>4. TryInv' /\ NeverDoubleSends'
  BY <1>1 DEF Record, StepInv, TypeOK, TryInv, Trying, NeverDoubleSends
<1>5. EveryStepCounted'
  <2>1. /\ counts \in [Counters -> Nat] /\ res \in Results
        /\ executed \in Nat /\ silent \in Nat
        /\ EveryStepCounted /\ Conclusive(res)
    BY <1>1 DEF StepInv, TypeOK
  <2>2. CASE res.err # "none"
    BY <2>1, <2>2 DEF Record, EveryStepCounted, Results, Counters, ErrorKinds
  <2>3. CASE res.err = "none" /\ res.verdict # "none"
    BY <2>1, <2>3 DEF Record, EveryStepCounted, Results, Conclusive, Counters, ErrorKinds
  <2>4. CASE res.err = "none" /\ res.verdict = "none"
    BY <2>1, <2>4 DEF Record, EveryStepCounted, Conclusive, Counters, ErrorKinds
  <2>5. QED
    BY <2>2, <2>3, <2>4
<1>6. SavedValuesAreCurrent'
  <2> SUFFICES ASSUME NEW n \in SaveNames
               PROVE  /\ saved'[n] \in {0, iterations}
                      /\ (\E k \in 1 .. step' - 1 : /\ Steps[k].action = "read"
                                                    /\ Steps[k].saveAs = n)
                           => saved'[n] = iterations
    BY <1>1 DEF Record, SavedValuesAreCurrent
  <2>1. /\ saved[n] \in {0, iterations}
        /\ (\E k \in 1 .. step - 1 : Steps[k].action = "read" /\ Steps[k].saveAs = n)
             => saved[n] = iterations
    BY <1>1 DEF StepInv, SavedValuesAreCurrent
  <2>2. saved'[n] = IF name = n /\ name # "none" /\ res.value = "set" THEN iterations ELSE saved[n]
    BY <1>1 DEF Record, Save, StepInv, TypeOK
  <2>3. (step' # step /\ Steps[step].action = "read" /\ name = n)
             => saved'[n] = iterations
    BY <1>1, <2>2, StepsAreValid DEF Record, StepInv, TryInv
  <2>4. step' \in {step, step + 1}
    BY DEF Record
  <2>5. QED
    BY <1>1, <2>1, <2>2, <2>3, <2>4
<1>7. QED
  BY <1>3, <1>4, <1>5, <1>6 DEF StepInv

LEMMA TryingKeepsInv ==
    ASSUME StepInv, Read \/ Refuse \/ Send \/ PluginResult
    PROVE  StepInv'
<1>1. CASE Read
  <2>1. PICK r \in ReadResults : Attempted(r, 0)
    BY <1>1 DEF Read
  <2>2. QED
    BY <2>1, ResultsAreConclusive, AttemptedKeepsInv
<1>2. CASE Refuse
  <2>1. Attempted(Failure("rpc_error"), 0)
    BY <1>2 DEF Refuse
  <2>2. QED
    BY <2>1, ResultsAreConclusive, AttemptedKeepsInv
<1>3. CASE Send
  <2>1. Steps[step].action # "read"
    BY <1>3 DEF Send
  <2>2. PICK r \in UnsentResults \cup SentResults, sent \in {0, 1} : Attempted(r, sent)
    BY <1>3 DEF Send
  <2>3. QED
    BY <2>1, <2>2, ResultsAreConclusive, AttemptedKeepsInv
<1>4. CASE PluginResult
  <2>1. Steps[step].action # "read"
    BY <1>4 DEF PluginResult
  <2>2. PICK r \in PluginResults : Attempted(r, 0)
    BY <1>4 DEF PluginResult
  <2>3. QED
    BY <2>1, <2>2, ResultsAreConclusive, AttemptedKeepsInv
<1>5. QED
  BY <1>1, <1>2, <1>3, <1>4

(* The steps that count and begin one. *)
LEMMA UnknownActionKeepsInv ==
    ASSUME StepInv, UnknownAction
    PROVE  StepInv'
<1>1. /\ counts' = [counts EXCEPT !["unknown_action"] = @ + 1]
      /\ executed' = executed + 1
      /\ pc' = "between"
      /\ UNCHANGED <<step, attempt, res, saved, ctx, broadcasts, iterations, silent>>
  BY DEF UnknownAction
<1>2. counts \in [Counters -> Nat] /\ counts' \in [Counters -> Nat]
  BY <1>1 DEF StepInv, TypeOK, Counters, ErrorKinds
<1>3. EveryStepCounted'
  <2>1. /\ counts'["unknown_action"] = counts["unknown_action"] + 1
        /\ counts["unknown_action"] \in Nat
        /\ \A c \in {"success", "reverted", "nonce_error", "timeout", "rpc_error"} :
             counts'[c] = counts[c] /\ counts[c] \in Nat
    BY <1>1, <1>2 DEF Counters, ErrorKinds
  <2>2. EveryStepCounted /\ executed \in Nat /\ silent \in Nat
    BY DEF StepInv, TypeOK
  <2>3. QED
    BY <1>1, <2>1, <2>2 DEF EveryStepCounted
<1>4. TypeOK'
  BY <1>1, <1>2 DEF StepInv, TypeOK
<1>5. TryInv' /\ NeverDoubleSends' /\ SavedValuesAreCurrent'
  BY <1>1 DEF StepInv, TryInv, Trying, NeverDoubleSends, SavedValuesAreCurrent
<1>6. QED
  BY <1>3, <1>4, <1>5 DEF StepInv

LEMMA BeginStepKeepsInv ==
    ASSUME StepInv, BeginStep
    PROVE  StepInv'
<1>1. /\ step \in 1 .. Len(Steps) /\ Steps[step].action \in {"read", "send", "plugin"}
      /\ pc' = "attempt" /\ attempt' = 0 /\ broadcasts' = 0
      /\ UNCHANGED <<step, res, saved, ctx, iterations, collector>>
  BY StepsAreValid DEF BeginStep, AtStep, StepInv, TypeOK
<1>2. Steps[step].attempts \in Nat \ {0}
  BY <1>1, StepsAreValid
<1>3. TypeOK'
  BY <1>1 DEF StepInv, TypeOK, collector
<1>4. TryInv'
  BY <1>1, <1>2 DEF TryInv, Trying
<1>5. NeverDoubleSends' /\ SavedValuesAreCurrent'
  BY <1>1 DEF StepInv, NeverDoubleSends, SavedValuesAreCurrent
<1>6. EveryStepCounted'
  BY <1>1 DEF StepInv, EveryStepCounted, collector
<1>7. QED
  BY <1>3, <1>4, <1>5, <1>6 DEF StepInv

(* The steps of the loops around an attempt. *)
LEMMA LoopsKeepInv ==
    ASSUME StepInv,
           \/ ContextEnds \/ BeginIteration \/ Stop \/ EndIteration
           \/ Think \/ Retry \/ AbandonRetry \/ UNCHANGED vars
    PROVE  StepInv'
<1> USE DEF StepInv, TypeOK, TryInv, Trying, NeverDoubleSends, EveryStepCounted,
            SavedValuesAreCurrent, collector
<1>1. CASE ContextEnds
  BY <1>1 DEF ContextEnds
<1>2. CASE BeginIteration
  <2>1. MaxIterations \in Nat /\ Len(Steps) \in Nat \ {0}
    BY StepsAreValid, StepAssumption
  <2>2. SavedValuesAreCurrent'
    BY <1>2 DEF BeginIteration
  <2>3. QED
    BY <1>2, <2>1, <2>2, SMTT(30) DEF BeginIteration
<1>3. CASE Stop
  BY <1>3 DEF Stop
<1>4. CASE EndIteration
  BY <1>4 DEF EndIteration
<1>5. CASE Think
  <2>1. /\ step \in 1 .. Len(Steps) /\ Len(Steps) \in Nat
        /\ Steps[step].action = "think" /\ pc = "step"
    BY <1>5, StepsAreValid DEF Think, AtStep
  <2>2. SavedValuesAreCurrent'
    BY <1>5, <2>1 DEF Think
  <2>3. QED
    BY <1>5, <2>1, <2>2, SMTT(30) DEF Think
<1>6. CASE Retry
  BY <1>6 DEF Retry
<1>7. CASE AbandonRetry
  <2>1. res'.err # "none" /\ res' \in Results /\ res'.verdict = res.verdict
        /\ res'.hash = res.hash
    BY <1>7 DEF AbandonRetry, Results
  <2>2. QED
    BY <1>7, <2>1 DEF AbandonRetry, Conclusive
<1>8. CASE UNCHANGED vars
  BY <1>8 DEF vars
<1>9. QED
  BY <1>1, <1>2, <1>3, <1>4, <1>5, <1>6, <1>7, <1>8

LEMMA NextKeepsInv == StepInv /\ [Next]_vars => StepInv'
BY TryingKeepsInv, UnknownActionKeepsInv, BeginStepKeepsInv, LoopsKeepInv,
   RecordKeepsInv
DEF Next, VUStep

THEOREM Invariance == Spec => []StepInv
BY InitHolds, NextKeepsInv, PTL DEF Spec

(* No step puts two transactions on the network: all that is tried again   *)
(* failed before anything was sent.                                        *)
THEOREM NoDoubleSend == Spec => []NeverDoubleSends
<1>1. StepInv => NeverDoubleSends
  BY DEF StepInv
<1>2. QED
  BY <1>1, Invariance, PTL

(* A step makes its attempts, no more of them and no fewer.                *)
THEOREM AttemptBudget == Spec => []AttemptsUsedUp
<1>1. StepInv => AttemptsUsedUp
  BY DEF StepInv, TryInv, Trying, AttemptsUsedUp
<1>2. QED
  BY <1>1, Invariance, PTL

(* The collector misses no step, and counts none twice. *)
THEOREM Counted == Spec => []EveryStepCounted
<1>1. StepInv => EveryStepCounted
  BY DEF StepInv
<1>2. QED
  BY <1>1, Invariance, PTL

(* What a step reads under a name, later steps of the iteration, and only  *)
(* they, see.                                                              *)
THEOREM SavedIsCurrent == Spec => []SavedValuesAreCurrent
<1>1. StepInv => SavedValuesAreCurrent
  BY DEF StepInv
<1>2. QED
  BY <1>1, Invariance, PTL
=============================================================================
