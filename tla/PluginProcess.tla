---------------------------- MODULE PluginProcess ----------------------------
(***************************************************************************)
(* internal/plugin/process.go: Start, Call and Close, and the subprocess   *)
(* at the other end of the two pipes.                                      *)
(*                                                                         *)
(* A request is the goroutine that wrote it, and a line of the plugin's is *)
(* the request it answers: nothing in the protocol says so, and that a     *)
(* goroutine reads the answer to its own request is what is to be shown.   *)
(* Whether the line can be decoded changes nothing here: Call returns.     *)
(***************************************************************************)
EXTENDS Integers, Sequences

CONSTANTS Processes,  \* the plugin processes that can be started
          Callers     \* the goroutines that can use one

(* How a plugin behaves: it answers every request and exits at the end of  *)
(* its input; or the same, but it can also crash; or it need do neither.   *)
Behaviours == {"steady", "crashing", "stuck"}

VARIABLES process,    \* each process: absent, running, exited or reaped
          behaviour,  \* of each process
          stdin,      \* is the host's end of its stdin open?
          requests,   \* lines written and not yet read by the plugin
          answers,    \* lines of the plugin's not yet read by the host
          mu,         \* the mutex: who holds it, {} or {g}
          call        \* what each goroutine does in Call, and with which process

pluginVars == <<process, behaviour, stdin, requests, answers, mu, call>>

NotInCall == [phase |-> "none"]

PluginTypeOK ==
    /\ process \in [Processes -> {"absent", "running", "exited", "reaped"}]
    /\ behaviour \in [Processes -> Behaviours]
    /\ stdin \in [Processes -> {"open", "closed"}]
    /\ requests \in [Processes -> Seq(Callers)] /\ answers \in [Processes -> Seq(Callers)]
    /\ mu \in [Processes -> SUBSET Callers]
    /\ call \in [Callers -> {NotInCall}
                   \cup [phase : {"queued", "reading"}, process : Processes]]

PluginInit ==
    /\ process = [p \in Processes |-> "absent"]
    /\ behaviour = [p \in Processes |-> "steady"]
    /\ stdin = [p \in Processes |-> "closed"]
    /\ requests = [p \in Processes |-> <<>>]
    /\ answers = [p \in Processes |-> <<>>]
    /\ mu = [p \in Processes |-> {}]
    /\ call = [g \in Callers |-> NotInCall]

(* plugin.Start, of a program that can be started. *)
StartProcess(p, b) ==
    /\ process' = [process EXCEPT ![p] = "running"]
    /\ behaviour' = [behaviour EXCEPT ![p] = b]
    /\ stdin' = [stdin EXCEPT ![p] = "open"]
    /\ UNCHANGED <<requests, answers, mu, call>>
-----------------------------------------------------------------------------
(* Call: the mutex is held for the whole round trip. *)

BeginCall(g, p) ==
    /\ call[g] = NotInCall
    /\ process[p] # "absent"
    /\ call' = [call EXCEPT ![g] = [phase |-> "queued", process |-> p]]
    /\ UNCHANGED <<process, behaviour, stdin, requests, answers, mu>>

LeaveCall(g, p) ==
    /\ mu' = [mu EXCEPT ![p] = @ \ {g}]
    /\ call' = [call EXCEPT ![g] = NotInCall]

Queued(g, p) == call[g] = [phase |-> "queued", process |-> p]

Reading(g, p) == call[g] = [phase |-> "reading", process |-> p]

CanBeWritten(p) == process[p] = "running" /\ stdin[p] = "open"

(* Mutant of WriteRequest: the mutex is not taken. *)
WriteRequestUnlocked(g, p) ==
    /\ Queued(g, p)
    /\ CanBeWritten(p)
    /\ requests' = [requests EXCEPT ![p] = Append(@, g)]
    /\ mu' = [mu EXCEPT ![p] = @ \cup {g}]
    /\ call' = [call EXCEPT ![g].phase = "reading"]
    /\ UNCHANGED <<process, behaviour, stdin, answers>>

(* The mutex is taken, and the request written to a process that is there. *)
WriteRequest(g, p) ==
    /\ Queued(g, p)
    /\ mu[p] = {}
    /\ CanBeWritten(p)
    /\ requests' = [requests EXCEPT ![p] = Append(@, g)]
    /\ mu' = [mu EXCEPT ![p] = {g}]
    /\ call' = [call EXCEPT ![g].phase = "reading"]
    /\ UNCHANGED <<process, behaviour, stdin, answers>>

WriteFails(g, p) ==
    /\ Queued(g, p)
    /\ mu[p] = {}
    /\ ~CanBeWritten(p)
    /\ LeaveCall(g, p)
    /\ UNCHANGED <<process, behaviour, stdin, requests, answers>>

(* ReadBytes returns the next line, whoever it is for. *)
ReadLine(g, p) ==
    /\ Reading(g, p)
    /\ answers[p] # <<>>
    /\ answers' = [answers EXCEPT ![p] = Tail(@)]
    /\ LeaveCall(g, p)
    /\ UNCHANGED <<process, behaviour, stdin, requests>>

(* Mutant of ReadEOF: the error is returned with the mutex held. *)
ReadEOFLocked(g, p) ==
    /\ Reading(g, p)
    /\ answers[p] = <<>>
    /\ process[p] # "running"
    /\ call' = [call EXCEPT ![g] = NotInCall]
    /\ UNCHANGED <<process, behaviour, stdin, requests, answers, mu>>

(* The process exited and left no line to read. *)
ReadEOF(g, p) ==
    /\ Reading(g, p)
    /\ answers[p] = <<>>
    /\ process[p] # "running"
    /\ LeaveCall(g, p)
    /\ UNCHANGED <<process, behaviour, stdin, requests, answers>>

CallStep(g) ==
    \E p \in Processes : \/ WriteRequest(g, p) \/ WriteFails(g, p)
                         \/ ReadLine(g, p) \/ ReadEOF(g, p)
-----------------------------------------------------------------------------
(* Close: the end of the plugin's input, then Wait. *)

CloseStdin(p) ==
    /\ process[p] # "absent"
    /\ stdin[p] = "open"
    /\ stdin' = [stdin EXCEPT ![p] = "closed"]
    /\ UNCHANGED <<process, behaviour, requests, answers, mu, call>>

Wait(p) ==
    /\ stdin[p] = "closed"
    /\ process[p] = "exited"
    /\ process' = [process EXCEPT ![p] = "reaped"]
    /\ UNCHANGED <<behaviour, stdin, requests, answers, mu, call>>
-----------------------------------------------------------------------------
(* The plugin: "one request, one response" (docs/plugins.md). *)

Answer(p) ==
    /\ process[p] = "running"
    /\ requests[p] # <<>>
    /\ requests' = [requests EXCEPT ![p] = Tail(@)]
    /\ answers' = [answers EXCEPT ![p] = Append(@, Head(requests[p]))]
    /\ UNCHANGED <<process, behaviour, stdin, mu, call>>

ExitProcess(p) ==
    /\ process[p] = "running"
    /\ \/ behaviour[p] = "crashing"
       \/ stdin[p] = "closed" /\ requests[p] = <<>>
    /\ process' = [process EXCEPT ![p] = "exited"]
    /\ requests' = [requests EXCEPT ![p] = <<>>]
    /\ UNCHANGED <<behaviour, stdin, answers, mu, call>>

Plugin(p) == Answer(p) \/ ExitProcess(p)
-----------------------------------------------------------------------------
(* "One request in flight at a time per plugin process" (docs/plugins.md), *)
(* and as nothing else tells requests apart, what a goroutine reads is the *)
(* answer to its own: also when others wait for the same plugin, or it     *)
(* crashed between the answer and its being read.                          *)
AnswersReachTheirCallers ==
    \A p \in Processes :
        /\ requests[p] \o answers[p] \in {<<>>} \cup {<<g>> : g \in mu[p]}
        /\ \A g \in mu[p] : Reading(g, p)
=============================================================================
