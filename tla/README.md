# web3load: specifications and proofs

TLA+ modules for [web3load](../src/README.md), a load generator for EVM chains: virtual users (VUs)
run the steps of a YAML scenario against a node, in one process or in several that a controller
coordinates. What can go wrong in it is mostly concurrency: many goroutines share the nonces of
the wallets they send from, a node may take a transaction and not say so, stages start and retire
goroutines, plugins answer over one pipe, and processes join, report and die in any order.

Paths are relative to `src/`. `file.go:a-b` are lines.

## 1. The system

| Component | State | Operations | Talks to |
|---|---|---|---|
| Nonce manager `internal/wallet/nonce.go` | `next`: wallet -> next nonce; one mutex | `Next`, `Release`, `Resync` | called by the engine; calls `NonceAt`, once with the mutex held |
| Transaction engine `internal/txengine` | none of its own; the nonce a `Send` owns | `Send`, `waitForConfirmation` | nonce manager, adapter |
| Chain adapter `internal/chain` | a connection | `NonceAt`, `SuggestFees`, `EstimateGas`, `SignTx`, `SendRawTransaction`, `TransactionReceipt`, ... | the node, external |
| Load engine `internal/load` | `walletCursor`, cancel functions, wait group, semaphore | `runConstant`, `runRamping`, `runArrivalRate`, `runIteration`, `executeWithRetry` | actions, metrics |
| Actions `internal/action` | registry; values saved within an iteration | `Execute` of five built-ins and of plugins | engine, adapter, plugin process |
| Metrics `internal/metrics` | counters and samples under a mutex | `RecordStep`, `RecordError`, `Snapshot` | written by VUs, read by reports and exporters |
| Scenario `internal/scenario` | none | parse, validate, `ResolvedStages`, `Load.Shard` | controller and worker |
| Wallet sharding `internal/wallet/shard.go` | none | `ShardWallets` | controller |
| Controller `internal/distributed/controller.go` | registered ids, results and done ids, two channels closed once | `/register`, `/metrics`, `WaitForCompletion`, `Aggregate` | workers, over HTTP |
| Worker `internal/distributed/worker.go` | its collector | register, run, progress, final report | controller, node |
| Plugin process `internal/plugin` | a pipe and a mutex | `Call`, `Close` | a subprocess |
| Funding `internal/wallet/fund.go` | a nonce manager of its own | `Fund` | adapter |
| Keystore and encryption `internal/wallet` | files | load, save, encrypt, decrypt | CLI |
| Report `internal/report` | none | assertions, console, JSON, HTML | CLI |
| `internal/rpc` retry | none | `Do` (no caller in the repository) | |
| Telemetry, CLI | exporters, flags | wiring | everything |

What is hard in each, and what would make it correct:

- **Nonces.** `Next` releases the mutex before its nonce is used, `Release` looks at the counter
  after others moved it, `Resync` reads the chain before it locks. Correct: two VUs never own one
  nonce; a failed send leaves no gap; counters do not drift from the chain; every `Send` returns.
- **Submission.** A lost reply makes "failed" and "sent" indistinguishable. Correct: what is
  reported as never sent is not on the network, and is not sent twice by a retry.
- **Scheduling.** Stages grow and shrink a slice of cancel functions while the run's context, the
  stage timer and the VUs race. Correct: the stage's target is met, the newest are retired first,
  `Run` returns once and only when nobody is left, two active VUs do not share a wallet when there
  are enough.
- **Steps.** What a failed attempt left on the network decides whether it is repeated; a step uses
  what earlier ones saved. Correct: no step puts two transactions on the network, every executed step
  is in one counter, a saved value is of the current iteration.
- **Plugins.** Requests have no id and share a pipe; `Call` has no timeout and `Close` no lock.
  Correct: a caller reads the answer to its own request, also around a crash; nobody is in `Call`
  when the process is waited for; no process is left behind.
- **Commands.** A command is a row of steps each of which may fail, with deferred calls. Correct: exit
  status 0 means that everything was done and written, a failed assertion costs no report, and a
  command ends.
- **Sharding.** Integer division with a remainder, late indices, fewer wallets or VUs than workers.
  Correct: slices are disjoint and cover; targets sum back; a worker accepts what it is sent.
- **Distribution.** Registration order, reports that overtake each other, workers that die, ids
  that repeat, a late process. Correct: disjoint wallets, a barrier, completion only when all are
  done, a complete report, everyone returns.
- **Reporting.** Percentiles of few samples, rates of nothing, maxima of workers' percentiles,
  milliseconds cut off. Correct: the aggregate is never better than the exact result, and an
  assertion that passed holds of the samples.
- **Keystore and funding.** A file is truncated and then written, and read twice; `fund` goes on
  after failures and timeouts, and may be killed and run again. Correct: what is loaded was saved
  whole and with this password; every transfer has the nonce the chain expects; exit status 0 means
  that every wallet was paid.

`PROJECT.json` lists the hazards line by line with the properties that would catch each.

## 2. Modules

```
Actors ── NonceManager ─┬─ TxEngine ── MCTxEngine            (TLC)
   │         EVMNode ───┤     │  └──── TxEngineProofs        (TLAPS)
   │                    │     └─ INSTANCE NonceAllocator WITH ...  (refinement)
   └──── NonceAllocator └─ Funding ─┐
                          Keystore ─┴─ WalletCommands ─┬─ MCWallets
                                                       └─ WalletsProofs

LoadEngine ──────┐
PluginProcess ───┴─ RunCommand ─┬─ MCRunCommand
                                └─ RunCommandProofs   (of the engine too, which the command implements)

Sharding ─┬─ LoadShape ── Assignment                    AssignmentProofs
          └─ Distributed ── MCDistributed               DistributedProofs
Report ── MCReport                                      ReportProofs
          ShardingProofs, which these three extend, is about Sharding and about sums

StepRunner ─┬─ MCStepRunner
            └─ StepRunnerProofs
```

**NonceManager** (`nonce.go`). `next` is the map (`Unset` = no entry), `mu` the VU inside a critical
section that spans steps. `Next` with a known counter, `Release` and the store of `Resync` make no
call while they hold the mutex: each is one step, enabled while `mu` is free. `Next` on an unknown
wallet is two steps with `mu` held between them, because it calls the node inside.

**EVMNode** (external). Per wallet the account nonce, the pool and the mined transactions.
`PendingNonceAt` is the first nonce that is neither mined nor pooled. A node queues a nonce beyond
that (geth) or rejects it as "nonce too high": `GapPolicy`. A transaction with the nonce of a pooled
one replaces it. Others may send from the same wallet (`MaxExternal`). A transaction is identified
by its nonce and by who sent it as which of his sends, which stands for everything that is hashed.
Nonces are counted from the account's nonce at the start of the run, so `mined` starts at 0.

**TxEngine** (`txengine/engine.go`). `dryRun` is chosen once. `pc` is where a VU is in `Send`; every call out of the process
and every critical section is a step. `SuggestFees`, `EstimateGas` and `SignTx` are one step
(`Build`/`FailBuild`): each one's failure has the same consequence, and nothing shared changes
between them. `Submit` takes the transaction to the pool; `SubmitReplyLost` does so and reports a
failure; `SubmitRefused` and `SubmitNonceError` are the errors `isNonceError` separates. `Submit`
picks `wait_for_confirmation` freely. A failing poll of `waitForConfirmation` changes nothing and is
no step. `resynced` is a history variable.

**NonceAllocator** is what the comment of `nonce.go:13-17` promises, with no counter, mutex or
chain: a nonce that is issued is owned by no one else and used by no transaction.

**StepRunner** (`runIteration`, `executeWithRetry`, the actions, `outcomeToResult`, `RecordStep`). One
VU runs a scenario: a step is its kind of action, its retry policy, the text of its target and the
name it saves under. What a call out of the process comes to is chosen among all that it can come to,
a lost reply included; the Result has the text of `TxHash` as the code makes it and a `verdict` for
`Success` and `Reverted`, never both. `saved` maps a name to the iteration that saved it, which is all
that tells values apart; a target is resolved from saved values, then from the variables, then
taken verbatim (`resolve.go`), and turned into an address as `HexToAddress` does.

**LoadEngine** (the three schedulers). A goroutine is the number of its spawn, which is the
`walletCursor` that chose its wallet. A tick, a stage timer and the deadline are steps that may
happen whenever the code waits for them. The commands pass a background context to `Run`, tests and
embedding programs cancel theirs: `Interrupt`. `load` is what `load.New` is given.

**PluginProcess** (`process.go`). Two pipes and a mutex per process. A request is the goroutine that
wrote it and a line of the plugin's is the request it answers: the protocol does not say so, and
`AnswersReachTheirCallers` is what has to be shown. The plugin is external: steady, crashing (it may
exit at any point, also after a request was read or an answer written) or stuck.

**RunCommand** (`cmd_run.go`, `cmd_worker.go`, `cmd_controller.go`, `cmd_plugin.go`). `Steps` is what
each command does, in order, to its return; a step that only succeeds or fails is a `Check`, in
`setup.fails` if it fails. `LoadPlugin` is one turn of `loadPlugins`, `CloseNext` one of the deferred
`closePlugins`. The engine's steps are LoadEngine's own; an iteration may call a plugin while the
engine runs (`PluginStep`). `Kill` ends the process at any point and closes its pipes: `main` handles
no signal.

**Report** (`Snapshot`, `percentile`, `Aggregate`, `EvaluateAssertions`, `checkAssertions`). Samples are
histograms over latencies in tenths of a millisecond, so that sorting is counting. `Aggregate` visits
the workers in any order. The success rate is a float64: a fraction, and the side of it on which the
roundings left the float, chosen freely whenever the rate is computed (`Percentage`). `Compare` looks
at the side only where fraction and threshold are equal. That is all a rounding can change: thresholds
are whole numbers here, so a rate that differs from one does so by 1/total at least, and the relative
error of the roundings is below 10^-13, which is far less for any number of transactions a load
sends (below 10^10, with up to a hundred workers). 0% and 100% are exact: 100 times whole numbers,
added up and divided by their sum. Counts and durations compared with whole numbers are exact as well.

**Keystore** (`keystore.go`, `encrypt.go`). One file: absent, torn, plaintext or encrypted.
`os.WriteFile` is two steps, between which the file is torn and the process may die. The ciphers are
abstracted to: a password opens what it closed.

**Funding** (`fund.go`). One goroutine on a nonce manager of its own and on the node of `EVMNode`; a
call that fails and the `Release` after it are one step, since nobody is in between. `GiveUp` is the
timeout of `waitForReceipt`, possible at any time; a block may revert the transfer it mines.

**WalletCommands** (`cmd_wallets.go`). `wallets generate` and `wallets fund`, run again, one of each at
the same time (two generates, or two funds, never overlap), and killed at any point. `LoadAny` is two
steps, as it reads the file twice.

**Sharding / LoadShape / Assignment** (`shard.go`, `scenario`, `handleRegister`). The first two are
operators. Assignment is what one worker is sent: the scenario is parsed, its load divided, the
loop of `ShardWallets` run one index per step, and the shard parsed again by the worker.

**Distributed** (`controller.go`, `worker.go`, `controller run`, `worker`). `/register` stays open
until the cohort is complete, so the caller's and the handler's wait are one control point; a
`/metrics` request is in `posts` until it is handled or lost, so the two a worker may have in flight
(a progress push is not waited for) are handled in any order. A collector is the number of
transactions it recorded. `Shutdown` lets open requests finish, before `Aggregate` or, after the
timeout, before the command fails. `setup`, chosen once, is how the processes are run: which are
started, whether they push progress, whether there is a timeout, and which faults may occur.

Definitions named after a source definition with a suffix (`ReleaseAlways`, `ChunkSizeNoRemainder`,
...) are faulty variants: each replaces its original to show that a property notices.

## 3. What is checked

Every run is exhaustive. All cfgs say `CHECK_DEADLOCK FALSE`: sends, iterations, registrations and
commands are bounded and the system stops when they are used up.

| Run | What it shows | Bounds |
|---|---|---|
| `TxClosed` | A queueing node that nobody else uses and that loses no reply, dry run or not. The engine implements `NonceAllocator` (`ImplementsAllocator`: no nonce is owned twice or handed out again once used), never meets a nonce error (`NeverDrifts`), reports nothing as unsent that was sent (`ErrorMeansNotBroadcast`), a VU alone on its wallet ends every `Send` with the counter the chain expects (`ExactWhenIdle`), and every `Send` returns (`SendReturns`). | two VUs on one wallet, with 3 and 1 sends, and one alone on another with 1 |
| `TxOpen` | A rejecting node, an outside sender, lost replies: `CollisionFreeUntilResync`, `ConfirmedIsMined`, and `ResyncHeals` for a VU alone on its wallet. | two VUs on one wallet, with 3 and 1 sends; 1 outside transaction |
| `StepRunner` | `NeverDoubleSends`, `AttemptsUsedUp`, `EveryStepCounted`, `SavedValuesAreCurrent`, interrupted anywhere. | 5 steps, one of each kind, policies of 1 to 3 attempts, 2 iterations |
| `RunCommand` | The engine inside its commands: `StageHasItsVUs`, `NewestRetiredFirst`, `ReturnsAfterAll`, `WalletsNotShared`; the plugins: `AnswersReachTheirCallers`, `PluginsOutliveTheirCalls`; the command: `ExitStatusIsHonest`, `CommandEnds`. | constant 3 and 2; ramps 1,3, 1,3,1,2 and 2,1; 2 slots, 5 spawns; none, one or two plugins, of which one crashes, is stuck or cannot be started; every step of every command failing once |
| `Assignment` | The closed form of the loop; slices are disjoint, cover, and differ by at most one; targets sum back; a stress load climbs to its max; a shard is refused only if a number of the load is smaller than the number of workers. | 9 wallets, 5 workers, one late index; targets -1..4, 2 stages |
| `Distributed` | Disjoint wallets, the barrier, completion, a complete report; under fairness a report unless a worker falls silent, a report from every worker with VUs, and everyone returns if there is a timeout. | 2 workers with progress pushes, crashes and hang-ups, with and without a timeout; 3 processes for a cohort of 2 with hang-ups, failed dials and lost requests; 1 transaction each |
| `Report` | `AggregateIsConservative`: in any order of the workers the aggregate is what one collector would have given, but for percentiles, which are never lower, and the rounding of the rate. `PassedBoundsHold`: exit status 0 vouches for the bounds asserted; a success rate asserted with `>` or `>=` is reached, however it was rounded. | latencies of 499.9, 500 and 500.9 ms, 0, 1, 19 or 120 times each; 1 or 2 workers, one of them possibly idle, with 60% or 100% successes; 4 lists of assertions, one with `> 60%` |
| `Wallets` | `LoadedWasSaved`, `ExitMeansFunded`, `NonceIsNext`, and `FundReturns` under fairness. | keystores of 2 wallets; 2 runs each of `generate` and `fund`, 2 passwords or none; kills, lost replies, reverts, timeouts, 1 payment by somebody else |

`TxCollision`, `DistStaleSnapshot`, `StepNotRetried` and `ZeroAddress` are the runs of section 4.

Why these bounds are enough to be interesting: two VUs on one wallet are the least that race; three
sends let one VU fail, succeed and reuse a nonce while the other sends; a rewind, a gap, a collision
and a resync all occur. Two slots and five arrivals give dropped ticks and iterations that end out of
order. A ramp to 3, to 1 and to 2 retires more than one VU at once and wraps the round robin. Three
goroutines and two processes queue on one mutex, and a process dies before, during and after a call
while others wait. Three processes for a cohort of two have a late one, and a crash before, between
and after the others' reports. 19 and 120 samples put p95 and p99 on either side of the largest
sample, the latencies lie on either side of the threshold and of its millisecond, and a success rate of
60% meets its threshold exactly, where its rounding decides. Two generates
and two funds give a keystore overwritten between the two reads, a kill with a transfer pending, and a
second command that meets it.

**Fairness.** `TxEngine`: a call returns or its context ends it (weak); a step that needs the mutex
is strongly fair, because `sync.Mutex` hands itself to a waiter that has waited for more than a
millisecond, so a VU that finds it free again and again gets it; the node mines. `RunCommand`: the
command's own steps are taken, timers fire, goroutines run, an iteration's other calls end, `select`
does not avoid a finished context for ever, and a plugin that is not stuck answers and exits at the
end of its input; nothing is assumed of interrupts, kills and crashes. (Two goroutines queue for a
plugin's mutex once per iteration; weak fairness is enough because the command only has to end, and
a run's deadline stops the iterations.) `Distributed`: processes run, a request is handled or lost,
the controller's timer fires; no fault is ever forced. `WalletCommands`: the fund command's calls
return and its clock runs; nothing is assumed of the node's blocks.

## 4. Where the code does not do what is written

Each is a run that checks one property and finds it violated; the quotation is in `PROJECT.json`.

| Run | What happens |
|---|---|
| `TxCollision` | v owns nonce 0 and u, with nonce 1, is told "nonce too high". u's `Resync` stores 0, and the next `Next` hands 0 out while v owns it. |
| `StepNotRetried` | `outcomeToResult` writes the zero hash as `0x00..00`, which is not `""`: a `Send` that failed before broadcasting is never retried. |
| `ZeroAddress` | A placeholder nobody defines reaches `HexToAddress`, which makes the zero address of it: the transaction is sent there. |
| `DistStaleSnapshot` | A progress push handled after the final report replaces it. |

Other limits are conditions of the properties that hold, and can be seen by leaving the condition
out or changing a constant:

- A submission the node took and whose reply was lost is released and reported without a hash, as if
  it had never been sent: `ErrorMeansNotBroadcast` needs `LostReplies = FALSE`.
- On a node that queues, a gap is never closed: u takes 0, v takes 1 and submits it, u's signing
  fails; the counter is 2, so 0 is not returned, nobody is told of an error and so nobody resyncs, and
  v's transaction waits for ever. `ExactWhenIdle` is about a VU alone on its wallet.
- `Fund` never resyncs: after a lost reply every later transfer of the command is refused, or replaces
  the lost one (`~lost` in `NonceIsNext`). "Waiting for each transfer to be mined before the next"
  (`fund.go:21-23`) does not hold after a timeout: the next transfer is sent while it is pending.
- Running `fund` again pays the wallets again; `generate` overwrites a keystore that is there, and with
  it the keys of wallets that were paid.
- `LoadAny` reads the file twice: an encrypted keystore written in between is parsed as a plaintext one
  with no wallets and no error, and `fund` exits with status 0 (`~rewritten` in `LoadedWasSaved`).
- The round robin gives a new VU, after a ramp down, or a new arrival the next wallet, used or not:
  two active ones share a wallet though there are enough (the conditions of `WalletsNotShared`).
- With `--workers 1` a second process is given all wallets, as `ShardWallets` does not look at the
  index of a cohort of one: `WalletsDisjoint` is proved for two workers or more.
- A late process without wallets reports at once and completes the run in a running worker's place
  (`CohortOnly`).
- A worker whose share is 0 VUs exits without a report, and without a timeout the controller waits
  for it (`shard[p].vus > 0` in `AssignedReports`).
- Two workers with one `--id` are one entry in `doneWorkers`, and the controller waits for a second
  (`Id` is one to one in all instances; the theorems do not need it).
- A plugin that is stuck holds up its VU, every VU behind it and the run, whose deadline it outlives
  (the condition of `CommandEnds`); one that writes a line too many shifts every later answer.
- `<= 500ms` passes at 500.9 ms (`PassedBoundsHold` allows for it), and a percentile of no samples is 0
  and passes. Timeouts and unknown actions are in the total and in no field of a report.
- `transaction_success_rate > 55%` passes at 11 of 20, as `float64(11)/float64(20)*100` is
  55.00000000000001, and `>= 29%` fails at 29 of 100: `PassedBoundsHold` promises that a threshold is
  reached, not that it is exceeded, and nothing of an assertion that failed.

Two of these hide each other: were the zero hash written as `""`, a submission whose reply was lost
would be retried and sent twice. `NeverDoubleSends` holds today only because of `StepNotRetried`; the
variant `OutcomeToResultZeroIsEmpty` violates it.

Seen while reading, not claimed as a disagreement: a plugin's `result` with `success: false` is in no
counter (the variable `silent` of `StepRunner`); only `run` looks at `safety.allowed_chain_ids`; a
plugin's transaction does not pass `checkSpendCap`, which also lets everything through when the cap is
no number; `run` reports nothing when it is interrupted, a worker does; the clamp in `percentile`
cannot be reached; `coerce.go` gives a scalar `bytes32` as a slice and a `uint8` as a `*big.Int`, which
the ABI encoder refuses, and panics on lists of them, which `docs/dsl-reference.md:221-225` promises.

## 5. What is proved

Each theorem holds for every value of the constants its module declares, under the named
assumptions about them (that they have their types, that workers and latencies are finitely many, that
the free mutex has no owner among the VUs, and the like). An argument that goes by cases has one step
per action.

**`TxEngineProofs`**: every set of wallets and VUs, every assignment of wallets, every number of
sends, either kind of node, any outside senders and lost replies.

- `TypeCorrect`, `TypeOKHolds`: typing. It is not inductive alone: a VU that submits or releases must
  own a nonce, or `TxOf` and `Release` would work on `NoNonce`. `OwnsNonce` says so.
- `CollisionFreedom`: two VUs of a wallet do not own the same nonce until a `Resync` has overwritten
  its counter. Collision freedom is not inductive: `Next` must know that the counter is above every
  owned nonce (`BelowNext`), and the first fetch that no one owns one, which holds because the mutex
  keeps the counter unset while it is fetched (`FetchInv`). `Release` keeps `BelowNext` since the nonce
  it rewinds to is the highest one and nobody else's.
- `Confirmation`: a confirmation is of a mined transaction of the VU's own. A VU that waits holds the
  hash of its own transaction (`WaitsForItsOwn`), and what is mined stays mined (`DoneGrows`).
- `FailureIsUnsent`, if no reply is lost: a `Send` that failed without a hash put nothing on the
  network. Until a VU submits, each of its transactions there is of an earlier send
  (`OnlySentBefore`).

- `Healing`, and `ExactCounter` if no reply is lost, are about a VU alone on its wallet (`AloneInv`).
  Neither property is inductive: what is pooled must be a run of nonces without a gap (`NoGaps`), and
  the nonce the VU will use next one of that run or the first after it (`InStep`). A lost reply may
  leave it inside the run, where the node says "already known" or replaces a transaction; it is the
  first after the run as long as the node's answers can be trusted (`Trusted`): no reply is lost at all,
  or none since the last `Resync`. `PendingIsFresh`: what `PendingNonceAt` answers is that one nonce.

Two more assume `ClosedWorld`: the node queues gapped nonces, nobody else sends from the wallets, no
reply is lost. Calls may still fail and VUs still race, and wallets, VUs and sends are any.

- `NoDrift`: no submission meets a nonce error, so nobody resyncs. The inductive invariant,
  `ClosedInv`, adds to `CollisionInv` that a VU owns a nonce exactly where it needs one
  (`OwnsExactly`), that spent nonces lie below the counter (`UsedBelowNext`) and are owned by no one
  (`UsedNotOwned`), and that the chain's nonce counts nonces that were mined (`MinedIsDone`). An
  owned nonce is not spent, so it is not below the chain's, so it is not too low (`NeverTooLow`);
  without a resync collision freedom has no condition left.
- `Refinement`: the implementation of `NonceAllocator`. What is spent is what is pooled or mined;
  `Next` maps to `Issue`, `Submit` to `Spend`, `Release` to `GiveBack`, every other step, mining
  included, to a stutter. `ClosedInv` is what makes `Issue` legal: a nonce from the counter, or from
  a first fetch, is above or apart from all that is spent or owned.

**`StepRunnerProofs`**: every scenario, retry policy and interrupt. `StepInv` ties what is on the
network to where the VU is (`TryInv`: an attempt begins with nothing sent) and to what its Result
says (`Conclusive`: after a broadcast the Result has a hash or a verdict, so no retry follows).
From it `NoDoubleSend`, `AttemptBudget`, `Counted`, and `SavedIsCurrent`, which needs that a failed
step ends the iteration.

**`RunCommandProofs`**: every load, deadline, interrupt and command line.

- The engine alone. `EngineInv` is what the scheduler has counted against the VUs there are
  (`SchedulerInv`), the slice of cancel functions as the live VUs in the order of their spawning
  (`RampInv`, with `Increasing`), and the VUs not yet spawned (`SpawnInv`). From it `NobodyLeft`,
  `StagesMet`, `NewestFirst` and `WalletsApart`; and `FailuresHaveACause` from `FailInv`: a ramp has no
  deadline, and one that gives up saw its context done.
- `CommandRunsEngine`: a step of the command is one of LoadEngine's or leaves the engine alone, so
  its theorems hold inside the command. `CommandStaysTyped` is the typing of the rest.
- `OwnAnswers`: one line is on its way at most, in one of the two pipes, and it is of the mutex's
  holder (`OneLine`); a process that crashes empties the first pipe and leaves the second to be read.
- `PluginsAreClosedLast`: a goroutine is in `Call` only while the engine runs (`LifetimeInv`), and
  plugins are closed in the order they were started.
- `ExitStatusCanBeTrusted`, for any set of steps that fail: what the steps behind the command have
  left in the reports, the error and the run (`ExitInv`), together with `FailuresHaveACause`, which
  `CommandRunsEngine` carries over.

**`DistributedProofs`**: any number of processes, ids that may repeat, every fault. `Barrier`: who has
an assignment registered, and the barrier was open (`JoinedInv`, `BarrierInv`). `Completion`: an id is
in `doneWorkers` or a final report of it is on its way only if its workers have come to their end
(`DoneInv`), and a full set of ids then is a full cohort. `WorkersApart`: for two workers or more, an
index is registered once and its slice is `ShardWallets` of it (`ShardInv`), and these are disjoint
by `ShardingProofs`. `CompleteReport`: unless a push was overtaken, what the controller holds for a
worker that is done is what that worker did (`CurrentInv`), and no later push of it is on its way. When
all are done the results are the cohort's, id by id, and everybody else did nothing (`WorkInv`,
`CohortIsApart`), so that the sum over the ids the controller adds up is the sum over all processes
(`ResultsAddUp`, by `SumRenamed` and `SumWithoutZeros`).

**`ShardingProofs`**: lemmas the other proofs rest on. First, sums over finite sets. `MapThenSumSet`
adds up a set by `CHOOSE`, in no known order. Two functions that both add up as it does are equal, by
the smallest set on which they would differ (`OneSum`), so that its value is that of any function that
adds up so (`SumIsRecursion`): among them the number of pairs of an element and a smaller natural than
its value (`SumIsCount`). From there on a sum is a cardinality: it does not depend on order
(`SumStep`), grows (`SumMonotone`, `SumStrict`), is additive (`SumOfSums`, `SumScaled`), may be renamed
(`SumRenamed`) and exchanged (`SumSwap`). `FiniteInduction` is induction over finite sets, of which the
library has only the form with an operator as a parameter, stated of a set of sets.

Then `ShardWallets`, for any keystore and any number of workers. The start of a slice is a recursive function; that it is
`i * (total \div count) + Smaller(i, total % count)` (`StartIsClosed`) is shown by the least index
at which it would not be (`SmallestNat`), and that there is such a function at all by the closed form
itself (`LoopExists`). `ShardsDisjoint` and `ShardsCover` follow, the latter by the last slice that
begins at or below a wallet.

**`AssignmentProofs`**: loads with targets up to any bound, any keystore, any number of workers.
`LoopClosedForm` and `Partition` by the closed form. `SharesSum`: the sum of the workers' numbers is
the number divided. `MapThenSumSet` adds up a set by `CHOOSE`, in no known order, so that the
argument is about every set of workers: its sum is `Cardinality(s) * base`, and one more for each of its
members below the remainder (`SumOfChunks`, `ChunksStep`, `OneSum`). `ShardsAccepted` and `Climb` rest on
what validation leaves of a load (`LoadShapes`) and on the plateaus below `max` being the first ones
(`FirstPlateaus`).

**`WalletsProofs`**: any passwords, any number of commands and kills. `LoadsWhatWasSaved`: what is in
the file, or about to be written, came from `generate` (`FileInv`), and what was read between the
two reads is as it was unless somebody wrote (`ReadInv`). `FundedIsPaid`, on any node and with any
lost replies: a result says "funded" only of a transfer of this command to this wallet (`LoopInv`), and a
block is not undone. `NonceOnCourse`: the pool holds exactly the nonces from the chain's to the
counter, without a gap (`PoolUpTo`, `CounterAt`), also after a command that was killed.

**`ReportProofs`**: any number of workers with any samples, visited in any order, any assertions. The
Result is what the workers visited add up to (`Adds`), and verdicts are only given on a complete one
(`VerdictInv`). The fraction of a rate survives being multiplied by its total and divided again
(`DivExact`); to which side it is rounded is left open (`Rates`), and a verdict is read accordingly
(`VerdictMeans`: an assertion with `>` that passed says "at least"). Percentiles do not add up, and the maximum bounds the percentile of all samples
by this argument (`BoundCarriesOver`): the p-th percentile is the least latency that more than p
percent of the samples do not exceed (`PercentileIsLeast`); the maximum m of the workers' percentiles
is at least that for each; the samples at most m add up over the workers (`MergedSamples`, by
`SumSwap`), as do the p percents; so more than p percent of all samples are at most m, and the
percentile of all is the least such. `AggregationIsConservative` is this, and `ExitVouchesForBounds`
what it means for an assertion that passed, with what `Milliseconds` cuts off (`BoundOfLatency`).

Only model-checked: all liveness (`SendReturns`, `CommandEnds`, `FundReturns`, `RunIsReported`,
`AssignedReports`, `EveryoneReturns`), which under fairness is out of the prover's reach. Every
invariant and every action property of the passing runs is a theorem.

## 6. What is not modelled

Fees, gas and amounts, and with them gas statistics and throughput (they do not influence control);
the coercion of arguments and ABI encoding, an error or none in `StepRunner`; the scenario's other
validation rules, which are checks of single fields; the encoding of keys and the ciphers; console,
HTML and JSON output, a step that succeeds or fails; tracing, the Prometheus exporter, the progress log,
flags, of which `run` is taken to have both `--out` and `--html`; delays, of which only the order of
timers matters; `rpc.Do`, which has no caller. Values are told apart only as far as a property does. The reason for each component is in `PROJECT.json`.

## 7. Plan

1. Models: the coercion of arguments by ABI type, with the types each Go value is taken for.
2. Composition: `StepRunner` over `TxEngine`'s outcomes instead of free ones; workers of
   `Distributed` that run a `RunCommand`.
3. Proofs: that an aggregated percentile is one that a worker reported; that what `Distributed` adds
   up is what `Report` aggregates.
