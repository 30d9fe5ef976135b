---------------------------- MODULE MCStepRunner ----------------------------
(***************************************************************************)
(* Instances of StepRunner for TLC.                                        *)
(***************************************************************************)
EXTENDS StepRunner

Step0 == [action |-> "think", attempts |-> 1, to |-> "address", saveAs |-> "none"]

(* Every kind of step, with and without a retry policy, values saved and   *)
(* used, one of them under the name of a variable.                         *)
AllKinds ==
    <<[Step0 EXCEPT !.action = "read", !.attempts = 3, !.saveAs = "balance"],
      Step0,
      [Step0 EXCEPT !.action = "plugin", !.attempts = 2, !.saveAs = "router"],
      [Step0 EXCEPT !.action = "send", !.attempts = 2, !.to = "balance",
                    !.saveAs = "receipt"],
      [Step0 EXCEPT !.action = "unloaded_plugin"]>>

(* A single transaction with a retry policy. *)
OneSend == <<[Step0 EXCEPT !.action = "send", !.attempts = 3]>>

(* A transfer to a variable whose name is misspelt. *)
Misspelt == <<[Step0 EXCEPT !.action = "send", !.to = "recipeint"]>>
=============================================================================
