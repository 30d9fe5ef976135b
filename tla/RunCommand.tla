----------------------------- MODULE RunCommand ------------------------------
(***************************************************************************)
(* The commands of cmd/web3load that run a scenario: `run`, `worker` and   *)
(* `controller run`, from the first check to the exit status, composed     *)
(* with the load engine (LoadEngine) and the plugins its iterations call   *)
(* (PluginProcess).  What a worker and its controller say to each other is *)
(* the subject of Distributed, what the numbers are of Report; here they   *)
(* are steps that succeed or fail.                                         *)
(***************************************************************************)
EXTENDS LoadEngine, PluginProcess

CONSTANTS Setups  \* the command lines and environments considered

VARIABLES setup,    \* the one of this run
          at,       \* how many of the command's steps are behind it
          phase,    \* "stepping", "closing", "returned" or "killed"
          started,  \* loadPlugins: the specs it has dealt with
          failed,   \* the error to be returned, or none
          written   \* the reports written

cmdVars == <<setup, at, phase, started, failed, written>>

allVars == <<vars, pluginVars, cmdVars>>

(* What each command does, in order.  A "parse" includes the validation,   *)
(* "wallets" the count of wallets against the scenario's.                  *)
Steps ==
    [run        |-> <<"parse", "confirm", "plugins", "keystore", "wallets", "dial",
                      "allowed", "telemetry", "engine", "json", "assertions", "html">>,
     worker     |-> <<"plugins", "register", "parse", "dial", "engine", "final">>,
     controller |-> <<"cohort", "parse", "confirm", "keystore", "wallets", "wait",
                      "json", "assertions", "html">>]

(* setup.specs is what each --plugin names: a program and how it behaves,  *)
(* or one that cannot be started; setup.fails, the steps that go wrong     *)
(* (loading the plugins and the load itself fail by what happens in them). *)
ASSUME RunCommandAssumption ==
    /\ Processes \subseteq Nat /\ Callers = 1 .. MaxSpawns
    /\ \A s \in Setups :
         /\ s.command \in DOMAIN Steps
         /\ s.load \in Loads
         /\ s.specs \in Seq(Behaviours \cup {"unstartable"})
         /\ DOMAIN s.specs \subseteq Processes
         /\ s.fails \subseteq {Steps[s.command][k] : k \in DOMAIN Steps[s.command]}
                               \ {"plugins", "engine"}

Step == Steps[setup.command][at + 1]

CommandTypeOK ==
    /\ TypeOK /\ PluginTypeOK
    /\ setup \in Setups /\ load = setup.load
    /\ at \in 0 .. Len(Steps[setup.command])
    /\ phase \in {"stepping", "closing", "returned", "killed"}
    /\ started \in 0 .. Len(setup.specs)
    /\ failed \in {"none", "plugins", "engine"} \cup setup.fails
    /\ written \subseteq {"json", "html"}

CommandInit ==
    /\ Init /\ PluginInit
    /\ setup \in Setups /\ load = setup.load
    /\ at = 0
    /\ phase = "stepping"
    /\ started = 0
    /\ failed = "none"
    /\ written = {}

At(step) == /\ phase = "stepping"
            /\ at < Len(Steps[setup.command])
            /\ Step = step

(* The step succeeded: on to the next. *)
Proceed == at' = at + 1 /\ UNCHANGED <<setup, phase, started>>

(* return err: the deferred calls run. *)
Abort(err) == /\ failed' = err
              /\ phase' = "closing"
              /\ UNCHANGED <<setup, at, started, written>>
-----------------------------------------------------------------------------
(* The steps of which all that matters is whether they succeed. *)
Checks == {"parse", "confirm", "keystore", "wallets", "dial", "allowed", "telemetry",
           "register", "cohort", "wait"}

Check(step) ==
    /\ At(step)
    /\ IF step \in setup.fails THEN Abort(step)
       ELSE Proceed /\ UNCHANGED <<failed, written>>
    /\ UNCHANGED <<vars, pluginVars>>

(* Mutant of LoadPlugin: the processes started before a bad spec are not   *)
(* returned with the error.                                                *)
LoadPluginForgotten ==
    /\ At("plugins")
    /\ started < Len(setup.specs)
    /\ LET spec == setup.specs[started + 1]
       IN  IF spec = "unstartable"
             THEN /\ failed' = "plugins"
                  /\ phase' = "returned"
                  /\ UNCHANGED <<setup, at, started, written, pluginVars>>
             ELSE /\ StartProcess(started + 1, spec)
                  /\ started' = started + 1
                  /\ UNCHANGED <<setup, at, phase, failed, written>>
    /\ UNCHANGED vars

(* loadPlugins takes the next spec; a bad one ends it, and the processes   *)
(* started so far are closed with the rest of the deferred calls.          *)
LoadPlugin ==
    /\ At("plugins")
    /\ started < Len(setup.specs)
    /\ LET spec == setup.specs[started + 1]
       IN  IF spec = "unstartable" THEN Abort("plugins") /\ UNCHANGED pluginVars
           ELSE /\ StartProcess(started + 1, spec)
                /\ started' = started + 1
                /\ UNCHANGED <<setup, at, phase, failed, written>>
    /\ UNCHANGED vars

PluginsLoaded ==
    /\ At("plugins")
    /\ started = Len(setup.specs)
    /\ Proceed
    /\ UNCHANGED <<failed, written, vars, pluginVars>>
-----------------------------------------------------------------------------
(* loadEngine.Run(ctx).  A plugin: step of an iteration calls the plugin,  *)
(* if the context was not done when the step began.                        *)

InCall(g) == call[g] # NotInCall

EngineStep ==
    /\ At("engine")
    /\ \/ Scheduler \/ Deadline \/ Interrupt
       \/ \E g \in 1 .. cursor : ~InCall(g) /\ VUStep(g)
    /\ UNCHANGED <<pluginVars, cmdVars>>

PluginStep(g, p) ==
    /\ At("engine")
    /\ g <= cursor /\ vu[g] = "iterating" /\ ~CtxDone(g)
    /\ BeginCall(g, p)
    /\ UNCHANGED <<vars, cmdVars>>

CallStepOf(g) == /\ At("engine")
                 /\ CallStep(g)
                 /\ UNCHANGED <<vars, cmdVars>>

(* `run` gives up on an error; a worker has numbers to report first. *)
EngineReturned ==
    /\ At("engine")
    /\ \/ run = "ok" /\ Proceed /\ UNCHANGED <<failed, written>>
       \/ run = "failed" /\ setup.command = "run" /\ Abort("engine")
       \/ /\ run = "failed" /\ setup.command = "worker"
          /\ failed' = "engine"
          /\ Proceed
          /\ UNCHANGED written
    /\ UNCHANGED <<vars, pluginVars>>
-----------------------------------------------------------------------------
(* A worker's last report is sent best-effort. *)
Final ==
    /\ At("final")
    /\ Proceed
    /\ UNCHANGED <<failed, written, vars, pluginVars>>

WriteReport(file) ==
    /\ At(file)
    /\ IF file \in setup.fails THEN Abort(file)
       ELSE Proceed /\ written' = written \cup {file} /\ UNCHANGED failed
    /\ UNCHANGED <<vars, pluginVars>>

(* Mutant of CheckAssertions: a failed assertion returns at once. *)
CheckAssertionsAborts ==
    /\ At("assertions")
    /\ IF "assertions" \in setup.fails THEN Abort("assertions")
       ELSE Proceed /\ UNCHANGED <<failed, written>>
    /\ UNCHANGED <<vars, pluginVars>>

(* aerr is kept until the HTML report is written too. *)
CheckAssertions ==
    /\ At("assertions")
    /\ failed' = IF "assertions" \in setup.fails THEN "assertions" ELSE "none"
    /\ Proceed
    /\ UNCHANGED <<written, vars, pluginVars>>

LastStep ==
    /\ phase = "stepping"
    /\ at = Len(Steps[setup.command])
    /\ phase' = "closing"
    /\ UNCHANGED <<setup, at, started, failed, written, vars, pluginVars>>
-----------------------------------------------------------------------------
(* closePlugins, deferred: one process after the other, in order.  An      *)
(* error, such as an exit status, is a warning.                            *)

ClosedBefore(p) == \A q \in 1 .. p - 1 : process[q] = "reaped"

CloseNext(p) ==
    /\ phase = "closing"
    /\ p <= started /\ ClosedBefore(p)
    /\ CloseStdin(p) \/ Wait(p)
    /\ UNCHANGED <<vars, cmdVars>>

ReturnFromCommand ==
    /\ phase = "closing"
    /\ ClosedBefore(started + 1)
    /\ phase' = "returned"
    /\ UNCHANGED <<setup, at, started, failed, written, vars, pluginVars>>

(* The process is killed, by an interrupt for one: main handles none.  The *)
(* system closes its pipes.                                                *)
Kill ==
    /\ phase \in {"stepping", "closing"}
    /\ phase' = "killed"
    /\ stdin' = [p \in Processes |-> "closed"]
    /\ UNCHANGED <<setup, at, started, failed, written, vars,
                   process, behaviour, requests, answers, mu, call>>
-----------------------------------------------------------------------------
Command == \/ \E step \in Checks : Check(step)
           \/ LoadPlugin \/ PluginsLoaded
           \/ EngineReturned
           \/ Final \/ \E file \in {"json", "html"} : WriteReport(file)
           \/ CheckAssertions \/ LastStep
           \/ \E p \in Processes : CloseNext(p)
           \/ ReturnFromCommand

CommandNext ==
    \/ Command \/ EngineStep \/ Kill
    \/ \E g \in Callers : CallStepOf(g) \/ \E p \in Processes : PluginStep(g, p)
    \/ \E p \in Processes : Plugin(p) /\ UNCHANGED <<vars, cmdVars>>

CommandSpec == CommandInit /\ [][CommandNext]_allVars

OfEngine(A) == At("engine") /\ A /\ UNCHANGED <<pluginVars, cmdVars>>

(* Timers fire and goroutines run; select is not for ever unlucky with a   *)
(* context that is done; every other call an iteration makes comes to its  *)
(* end; and a plugin that is not stuck answers, and exits at the end of    *)
(* its input.                                                              *)
CommandFairness ==
    /\ WF_allVars(Command)
    /\ WF_allVars(OfEngine(\/ Start \/ Spawn \/ AllSpawned
                           \/ EnterStage \/ StageElapsed \/ Return))
    /\ WF_allVars(OfEngine(StopAll))
    /\ WF_allVars(OfEngine(StopTicking))
    /\ WF_allVars(OfEngine(Deadline))
    /\ \A g \in 1 .. MaxSpawns :
         /\ WF_allVars(OfEngine(g <= cursor /\ ~InCall(g) /\ VUStep(g)))
         /\ WF_allVars(CallStepOf(g))
    /\ \A p \in Processes :
         /\ WF_allVars(/\ behaviour[p] # "stuck" /\ Answer(p)
                       /\ UNCHANGED <<vars, cmdVars>>)
         /\ WF_allVars(/\ behaviour[p] # "stuck" /\ stdin[p] = "closed"
                       /\ ExitProcess(p) /\ UNCHANGED <<vars, cmdVars>>)

FairCommandSpec == CommandSpec /\ CommandFairness
-----------------------------------------------------------------------------
(* A plugin's input is not ended, nor the process waited for, while some   *)
(* goroutine is using it: Wait must not be called before the reads are     *)
(* done, and Close takes no lock (process.go:118-123).  And however the    *)
(* command returned, no plugin it started is left: loadPlugins "returns    *)
(* every process it managed to start even when a later spec fails, so the  *)
(* caller's cleanup can still close the ones that did start rather than    *)
(* leaking them" (cmd_plugin.go:15-18).                                    *)
ClosedWhenUnused ==
    \A p \in Processes :
        (process[p] # "absent" /\ stdin[p] = "closed" /\ phase # "killed") =>
            \A g \in Callers : InCall(g) => call[g].process # p

NoPluginLeft ==
    phase = "returned" => \A p \in Processes : process[p] \in {"absent", "reaped"}

PluginsOutliveTheirCalls == ClosedWhenUnused /\ NoPluginLeft

(* Exit status 0 means that the load ran, that every goroutine of it was   *)
(* done when the numbers were taken, that both reports are there and that  *)
(* no assertion failed; and a failed assertion costs no report.  A load    *)
(* that fails was interrupted or had no wallet: its own deadline is its    *)
(* normal end (load/engine.go:76, 176).                                    *)
ExitStatusIsHonest ==
    phase = "returned" =>
        /\ failed = "none" =>
             /\ setup.fails \subseteq {"final"}
             /\ setup.command # "controller" =>
                  run = "ok" /\ \A g \in 1 .. cursor : vu[g] = "done"
        /\ (failed \in {"none", "assertions"} /\ setup.command # "worker")
             => written = {"json", "html"}
        /\ failed = "engine" => ctx = "cancelled" \/ load.wallets = 0

(* The command comes to an end and so do its plugins, even if it is        *)
(* killed or they crash, unless one is stuck: Call and Close have no       *)
(* timeout and look at no context (process.go:94-108).                     *)
CommandEnds ==
    (\A k \in DOMAIN setup.specs : setup.specs[k] # "stuck") =>
        <>(/\ phase \in {"returned", "killed"}
           /\ \A p \in Processes : process[p] # "running")
=============================================================================
