---------------------------- MODULE Distributed ----------------------------
(***************************************************************************)
(* internal/distributed: one controller, worker processes, and the two     *)
(* HTTP calls between them, /register and /metrics.                        *)
(*                                                                         *)
(* The scenario's load is constant.  A worker's collector is the number of *)
(* transactions it has recorded; a snapshot is that number, and the        *)
(* aggregate is their sum.  /register is held open by its handler until    *)
(* the cohort is complete, so the caller's wait and the handler's wait are *)
(* one control point; a /metrics request is a message that is delivered    *)
(* late, out of order with the worker's other one, or lost.                *)
(***************************************************************************)
EXTENDS Sharding, Sequences, FiniteSetsExt

CONSTANTS Workers,       \* worker processes
          Id,            \* the --id each of them reports
          NumWorkers,    \* controller run --workers
          TotalVUs,      \* load.vus of the scenario
          TotalWallets,  \* wallets.count of the scenario
          Setups,        \* the ways they are run that are considered
          MaxWork        \* bound: transactions a worker records

ASSUME DistributedAssumption ==
    /\ IsFiniteSet(Workers)
    /\ NumWorkers \in Nat \ {0}
    /\ TotalVUs \in Nat /\ TotalWallets \in Nat /\ MaxWork \in Nat
    /\ Setups \subseteq
         [started  : SUBSET Workers,  \* the processes that are started
          progress : BOOLEAN,         \* --progress-interval > 0
          timeout  : BOOLEAN,         \* controller run --timeout > 0
          faults   : SUBSET {"crash", "disconnect", "loss", "dial"}]

VARIABLES
    registered,   \* c.registered: the workers, in order of arrival
    ready,        \* c.ready is closed
    results,      \* c.results: the snapshot last received under each id
    doneWorkers,  \* c.doneWorkers
    allDone,      \* c.allDone is closed
    ctrl,         \* where controller run is
    aggregate,    \* the transactions of the report it writes
    setup,        \* how the processes are run
    pc,           \* where each worker is
    shard,        \* the shard each worker was assigned
    work,         \* the transactions its collector holds
    push,         \* is a progress push of its waiting for its response?
    posts,        \* /metrics requests sent and not yet handled
    overtaken     \* history: was a final report handled before a progress
                  \* push its worker had sent earlier?

controller ==
    <<registered, ready, results, doneWorkers, allDone, ctrl, aggregate>>
vars == <<controller, setup, pc, shard, work, push, posts, overtaken>>

Ids == {Id[p] : p \in Workers}
NoResult == -1
NoShard == [index |-> -1, vus |-> 0, wallets |-> {}]

Post(p, done) == [from |-> p, result |-> work[p], done |-> done]

Init ==
    /\ registered = <<>>
    /\ ready = FALSE
    /\ results = [d \in Ids |-> NoResult]
    /\ doneWorkers = {}
    /\ allDone = FALSE
    /\ ctrl = "waiting"
    /\ aggregate = NoResult
    /\ setup \in Setups
    /\ pc = [p \in Workers |-> IF p \in setup.started THEN "new" ELSE "absent"]
    /\ shard = [p \in Workers |-> NoShard]
    /\ work = [p \in Workers |-> 0]
    /\ push = [p \in Workers |-> FALSE]
    /\ posts = {}
    /\ overtaken = FALSE

Goto(p, from, to) == /\ pc[p] = from
                     /\ pc' = [pc EXCEPT ![p] = to]

(* Shutdown closes the listener at once and lets open requests finish. *)
Listening == ctrl \in {"waiting", "shutdown", "closing"}
-----------------------------------------------------------------------------
(* Mutant of Register: the barrier opens one worker early. *)
RegisterOneEarly(p) ==
    /\ ctrl = "waiting"
    /\ Goto(p, "new", "joining")
    /\ registered' = Append(registered, p)
    /\ ready' = (ready \/ Len(registered') >= NumWorkers - 1)
    /\ UNCHANGED <<results, doneWorkers, allDone, ctrl, aggregate, setup,
                   shard, work, push, posts, overtaken>>

(* handleRegister, up to its wait: the caller takes the next index, and    *)
(* the one that completes the cohort opens the barrier.                    *)
Register(p) ==
    /\ ctrl = "waiting"
    /\ Goto(p, "new", "joining")
    /\ registered' = Append(registered, p)
    /\ ready' = (ready \/ Len(registered') >= NumWorkers)
    /\ UNCHANGED <<results, doneWorkers, allDone, ctrl, aggregate, setup,
                   shard, work, push, posts, overtaken>>

(* Mutant of IndexOf: the length of registered, read after the barrier. *)
IndexOfLast(p) == Len(registered) - 1

IndexOf(p) == (CHOOSE k \in DOMAIN registered : registered[k] = p) - 1

(* handleRegister, after the barrier: the response is the shard. *)
Assign(p) ==
    /\ Listening
    /\ ready
    /\ Goto(p, "joining", "assigned")
    /\ shard' = [shard EXCEPT ![p] =
                    [index   |-> IndexOf(p),
                     vus     |-> IF NumWorkers = 1 THEN TotalVUs
                                 ELSE ChunkSize(TotalVUs, IndexOf(p), NumWorkers),
                     wallets |-> ShardWallets(TotalWallets, IndexOf(p), NumWorkers)]]
    /\ UNCHANGED <<controller, setup, work, push, posts, overtaken>>

(* The caller goes away while it waits; it stays registered. *)
Disconnect(p) ==
    /\ "disconnect" \in setup.faults
    /\ Goto(p, "joining", "exited")
    /\ UNCHANGED <<controller, setup, shard, work, push, posts, overtaken>>

(* The server takes no new connections, or is gone altogether. *)
Refused(p) ==
    /\ \/ ctrl # "waiting" /\ Goto(p, "new", "exited")
       \/ ~Listening /\ Goto(p, "joining", "exited")
    /\ UNCHANGED <<controller, setup, shard, work, push, posts, overtaken>>
-----------------------------------------------------------------------------
(* The worker parses the scenario it was sent, which validate accepts only *)
(* with a positive number of VUs, and dials the node.                      *)
StartRun(p) ==
    /\ shard[p].vus > 0
    /\ Goto(p, "assigned", "running")
    /\ UNCHANGED <<controller, setup, shard, work, push, posts, overtaken>>

(* Either failure ends the process, with nothing sent to the controller. *)
AbandonRun(p) ==
    /\ shard[p].vus = 0 \/ "dial" \in setup.faults
    /\ Goto(p, "assigned", "exited")
    /\ UNCHANGED <<controller, setup, shard, work, push, posts, overtaken>>

(* A transaction is recorded.  load.Engine.Run returns at once when it has *)
(* no wallets.                                                             *)
Record(p) ==
    /\ pc[p] = "running"
    /\ shard[p].wallets # {}
    /\ work[p] < MaxWork
    /\ work' = [work EXCEPT ![p] = @ + 1]
    /\ UNCHANGED <<controller, setup, pc, shard, push, posts, overtaken>>

(* pushProgress: one push at a time, concurrently with the run. *)
PushProgress(p) ==
    /\ setup.progress
    /\ ctrl = "waiting"
    /\ pc[p] = "running"
    /\ ~push[p]
    /\ push' = [push EXCEPT ![p] = TRUE]
    /\ posts' = posts \cup {Post(p, FALSE)}
    /\ UNCHANGED <<controller, setup, pc, shard, work, overtaken>>

(* Mutant of FinishRun: the final report is left out while a progress push *)
(* is still in flight.                                                     *)
FinishRunUnlessPushing(p) ==
    /\ Goto(p, "running", "reporting")
    /\ posts' = IF ctrl = "waiting" /\ ~push[p] THEN posts \cup {Post(p, TRUE)} ELSE posts
    /\ UNCHANGED <<controller, setup, shard, work, push, overtaken>>

(* The run is over: the final snapshot is sent, whatever Run returned.  A  *)
(* progress push that waits for its response is not waited for.            *)
FinishRun(p) ==
    /\ Goto(p, "running", "reporting")
    /\ posts' = IF ctrl = "waiting" THEN posts \cup {Post(p, TRUE)} ELSE posts
    /\ UNCHANGED <<controller, setup, shard, work, push, overtaken>>

(* The final report was answered, or failed, which is logged: the process  *)
(* ends either way.                                                        *)
Exit(p) ==
    /\ Post(p, TRUE) \notin posts
    /\ Goto(p, "reporting", "exited")
    /\ UNCHANGED <<controller, setup, shard, work, push, posts, overtaken>>

Crash(p) ==
    /\ "crash" \in setup.faults
    /\ pc[p] \in {"new", "joining", "assigned", "running", "reporting"}
    /\ pc' = [pc EXCEPT ![p] = "crashed"]
    /\ UNCHANGED <<controller, setup, shard, work, push, posts, overtaken>>
-----------------------------------------------------------------------------
Overtakes(m) == m.done /\ \E n \in posts : n.from = m.from /\ ~n.done

(* Mutants of HandleMetrics: the completion threshold is off by one, lower *)
(* and higher; a final report is counted and its snapshot dropped.         *)
Handled(m, stored, threshold) ==
    /\ Listening
    /\ m \in posts
    /\ posts' = posts \ {m}
    /\ push' = IF m.done THEN push ELSE [push EXCEPT ![m.from] = FALSE]
    /\ results' = IF stored THEN [results EXCEPT ![Id[m.from]] = m.result] ELSE results
    /\ IF m.done
         THEN /\ doneWorkers' = doneWorkers \cup {Id[m.from]}
              /\ allDone' = (allDone \/ Cardinality(doneWorkers') >= threshold)
         ELSE UNCHANGED <<doneWorkers, allDone>>
    /\ overtaken' = (overtaken \/ Overtakes(m))
    /\ UNCHANGED <<registered, ready, ctrl, aggregate, setup, pc, shard, work>>

HandleMetricsOneEarly(m) == Handled(m, TRUE, NumWorkers - 1)

HandleMetricsOneLate(m) == Handled(m, TRUE, NumWorkers + 1)

HandleMetricsFinalDropped(m) == Handled(m, ~m.done, NumWorkers)

(* handleMetrics: the snapshot replaces the one held under the worker's    *)
(* id; a final one counts the id as done.                                  *)
HandleMetrics(m) ==
    /\ Listening
    /\ m \in posts
    /\ posts' = posts \ {m}
    /\ push' = IF m.done THEN push ELSE [push EXCEPT ![m.from] = FALSE]
    /\ results' = [results EXCEPT ![Id[m.from]] = m.result]
    /\ IF m.done
         THEN /\ doneWorkers' = doneWorkers \cup {Id[m.from]}
              /\ allDone' = (allDone \/ Cardinality(doneWorkers') >= NumWorkers)
         ELSE UNCHANGED <<doneWorkers, allDone>>
    /\ overtaken' = (overtaken \/ Overtakes(m))
    /\ UNCHANGED <<registered, ready, ctrl, aggregate, setup, pc, shard, work>>

(* A request the controller never sees: the worker logs it and goes on. *)
LoseMetrics(m) ==
    /\ "loss" \in setup.faults \/ ~Listening
    /\ m \in posts
    /\ posts' = posts \ {m}
    /\ push' = IF m.done THEN push ELSE [push EXCEPT ![m.from] = FALSE]
    /\ UNCHANGED <<controller, setup, pc, shard, work, overtaken>>
-----------------------------------------------------------------------------
(* WaitForCompletion returns; the server is shut down, requests it already *)
(* holds being answered meanwhile; then the results are aggregated.        *)
Complete ==
    /\ ctrl = "waiting"
    /\ allDone
    /\ ctrl' = "shutdown"
    /\ UNCHANGED <<registered, ready, results, doneWorkers, allDone, aggregate,
                   setup, pc, shard, work, push, posts, overtaken>>

Aggregate ==
    /\ ctrl = "shutdown"
    /\ aggregate' = MapThenSumSet(LAMBDA d : results[d],
                                  {d \in Ids : results[d] # NoResult})
    /\ ctrl' = "reported"
    /\ UNCHANGED <<registered, ready, results, doneWorkers, allDone, setup,
                   pc, shard, work, push, posts, overtaken>>

(* Mutant of GiveUp: the timer is started once the cohort is complete. *)
GiveUpAfterCohort ==
    /\ setup.timeout
    /\ ctrl = "waiting"
    /\ ready
    /\ ctrl' = "closing"
    /\ UNCHANGED <<registered, ready, results, doneWorkers, allDone, aggregate,
                   setup, pc, shard, work, push, posts, overtaken>>

(* --timeout elapses: the server is shut down, too. *)
GiveUp ==
    /\ setup.timeout
    /\ ctrl = "waiting"
    /\ ctrl' = "closing"
    /\ UNCHANGED <<registered, ready, results, doneWorkers, allDone, aggregate,
                   setup, pc, shard, work, push, posts, overtaken>>
(* The command fails and writes no report. *)
Fail ==
    /\ ctrl = "closing"
    /\ ctrl' = "timedOut"
    /\ UNCHANGED <<registered, ready, results, doneWorkers, allDone, aggregate,
                   setup, pc, shard, work, push, posts, overtaken>>
-----------------------------------------------------------------------------
(* What a process does as long as it lives. *)
Progresses(p) == \/ Register(p) \/ Refused(p) \/ Assign(p)
                 \/ StartRun(p) \/ AbandonRun(p) \/ FinishRun(p) \/ Exit(p)

Next ==
    \/ \E p \in Workers : \/ Progresses(p) \/ Record(p) \/ PushProgress(p)
                          \/ Disconnect(p) \/ Crash(p)
    \/ \E m \in posts : HandleMetrics(m) \/ LoseMetrics(m)
    \/ Complete \/ Aggregate \/ GiveUp \/ Fail

Spec == Init /\ [][Next]_vars

(* Processes run, a run ends by its duration, a request is handled or      *)
(* lost, the controller's select takes a ready case, and its timer fires.  *)
(* Nothing forces a fault.                                                 *)
Fairness ==
    /\ \A p \in Workers : WF_vars(Progresses(p))
    /\ WF_vars(\E m \in posts : HandleMetrics(m) \/ LoseMetrics(m))
    /\ WF_vars(Complete \/ Aggregate \/ GiveUp \/ Fail)

FairSpec == Spec /\ Fairness
-----------------------------------------------------------------------------
Assigned(p) == shard[p] # NoShard

(* "No two workers may ever hold the same wallet, or their independently-  *)
(* tracked nonces for it would collide" (wallet/shard.go:6-8,              *)
(* docs/distributed.md:34-37), among all processes that ever register.     *)
WalletsDisjoint ==
    \A p, q \in Workers :
        p # q => shard[p].wallets \cap shard[q].wallets = {}

(* handleRegister is a barrier (controller.go:58-62): no worker has its    *)
(* shard before a whole cohort has registered, whoever crashed or hung up  *)
(* in between.                                                             *)
CohortStartsTogether ==
    (\E p \in Workers : Assigned(p)) => Len(registered) >= NumWorkers

(* Has nobody joined beside the cohort?  A process that registers late     *)
(* gets no report of its own waited for.                                   *)
CohortOnly == Len(registered) <= NumWorkers

(* "WaitForCompletion blocks until every registered worker has reported    *)
(* Done=true" (controller.go:134-135).                                     *)
CompletionMeansAllDone ==
    (allDone /\ CohortOnly) =>
        \A k \in DOMAIN registered : Id[registered[k]] \in doneWorkers

(* The report counts every transaction of every worker, once: "Aggregate   *)
(* combines each worker's latest snapshot", "counts sum exactly"           *)
(* (controller.go:145-146).                                                *)
CountsSumExactly ==
    (ctrl = "reported" /\ CohortOnly) =>
        aggregate = MapThenSumSet(LAMBDA p : work[p], Workers)

(* They do unless a final report overtook a progress push: no other order  *)
(* of reports, crash, hang-up or loss makes a report that is short.        *)
ReportIsComplete == overtaken \/ CountsSumExactly

(* p's process is gone and its final report never arrived. *)
Silent(p) ==
    pc[p] = "crashed" \/ (pc[p] = "exited" /\ Id[p] \notin doneWorkers)

(* Unless a worker falls silent, the run ends in a report: "controller run *)
(* waits until every worker has reported done (or --timeout elapses)"      *)
(* (docs/distributed.md:61-62).                                            *)
RunIsReported ==
    <>(setup.timeout \/ ctrl = "reported" \/ \E p \in Workers : Silent(p))

(* With a timeout the controller ends, and so does every worker, whatever  *)
(* crashes, hangs up or is lost, and however few workers join.             *)
EveryoneReturns ==
    setup.timeout => <>[](/\ ctrl \in {"reported", "timedOut"}
                    /\ \A p \in setup.started : pc[p] \in {"exited", "crashed"})

(* A worker that was given a share of the VUs reports that it is done: it  *)
(* "runs this worker's shard ... and streams progress snapshots plus a     *)
(* final report back to the controller" (worker.go:32-35), so that the     *)
(* controller is not left with "silence" (worker.go:76-79).  It reaches    *)
(* the node, no request is lost, and no late process ends the run before.  *)
AssignedReports ==
    \A p \in Workers :
        (/\ Assigned(p) /\ shard[p].vus > 0
         /\ setup.faults \cap {"loss", "dial"} = {})
            ~> (\/ Id[p] \in doneWorkers \/ pc[p] = "crashed"
                \/ ctrl = "timedOut" \/ ~CohortOnly)
=============================================================================
