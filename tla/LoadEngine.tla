----------------------------- MODULE LoadEngine -----------------------------
(***************************************************************************)
(* internal/load/engine.go: the three schedulers (runConstant, runRamping, *)
(* runArrivalRate) and the VU goroutines they start.  What an iteration    *)
(* does is the subject of StepRunner; here it begins and it ends.          *)
(*                                                                         *)
(* A goroutine is the number of its spawn, which is also the value of      *)
(* walletCursor that chose its wallet.  Its context is the run's, and for  *)
(* ramping a child of it that scaleTo can cancel.                          *)
(***************************************************************************)
EXTENDS Integers, Sequences, FiniteSets

CONSTANTS Loads,     \* the runs considered: what load.New is given
          MaxSpawns  \* bound: goroutines a run starts (only an
                     \* arrival-rate run can be stopped by it)

ASSUME LoadAssumption ==
    /\ Loads \subseteq [type    : {"constant", "ramping", "arrival-rate"},
                        stages  : Seq(Nat),  \* ramping: the resolved targets
                        vus     : Nat,       \* constant: load.vus
                        maxVUs  : Nat,       \* arrival-rate: load.max_vus
                        wallets : Nat]       \* len(e.Wallets)
    /\ MaxSpawns \in Nat

VARIABLES load,     \* the run's load and the number of its wallets
          run,      \* where Run is
          stage,    \* ramping: the stage entered last
          active,   \* ramping: the goroutines whose cancel functions are held
          cursor,   \* walletCursor: goroutines spawned so far
          vu,       \* what each goroutine is doing
          stopped,  \* goroutines whose own context was cancelled
          ctx,      \* the run's context: "live", "expired" or "cancelled"
          dropped   \* arrival-rate: has a tick been dropped?

vars == <<load, run, stage, active, cursor, vu, stopped, ctx, dropped>>

(* A goroutine that is "between" is about to look at its context; one that *)
(* is "released" has returned from runIteration and given its slot of the  *)
(* semaphore back, and has yet to call wg.Done (arrival-rate only).        *)
VUStates == {"between", "iterating", "released", "done"}

TypeOK ==
    /\ load \in Loads
    /\ run \in {"start", "spawning", "enter", "hold", "ticking", "waiting",
                "draining", "aborting", "ok", "failed"}
    /\ stage \in 0 .. Len(load.stages)
    /\ active \in Seq(1 .. cursor)
    /\ cursor \in Nat
    /\ vu \in Seq(VUStates) /\ Len(vu) = cursor
    /\ stopped \subseteq 1 .. cursor
    /\ ctx \in {"live", "expired", "cancelled"}
    /\ dropped \in BOOLEAN

Init ==
    /\ load \in Loads
    /\ run = "start"
    /\ stage = 0
    /\ active = <<>>
    /\ cursor = 0
    /\ vu = <<>>
    /\ stopped = {}
    /\ ctx = "live"
    /\ dropped = FALSE

(* Mutant of nextWallet: the last wallet is never reached. *)
WalletOfAllButLast(g) == (g - 1) % (load.wallets - 1)

(* nextWallet: round robin over the wallets. *)
WalletOf(g) == (g - 1) % load.wallets

CtxDone(g) == ctx # "live" \/ g \in stopped

(* Run: without a wallet it fails at once; else one scheduler takes over.  *)
(* Only constant and arrival-rate runs have a deadline of their own.       *)
Start ==
    /\ run = "start"
    /\ run' = IF load.wallets = 0 THEN "failed"
              ELSE CASE load.type = "constant" -> "spawning"
                     [] load.type = "ramping" -> "enter"
                     [] load.type = "arrival-rate" -> "ticking"
    /\ UNCHANGED <<load, stage, active, cursor, vu, stopped, ctx, dropped>>

Deadline ==
    /\ load.type # "ramping"
    /\ run \in {"spawning", "ticking", "waiting"}
    /\ ctx = "live"
    /\ ctx' = "expired"
    /\ UNCHANGED <<load, run, stage, active, cursor, vu, stopped, dropped>>

Interrupt ==
    /\ ctx = "live"
    /\ ctx' = "cancelled"
    /\ UNCHANGED <<load, run, stage, active, cursor, vu, stopped, dropped>>
-----------------------------------------------------------------------------
(* runConstant: start every VU, then wait for all of them. *)

Spawn ==
    /\ run = "spawning"
    /\ cursor < load.vus
    /\ cursor' = cursor + 1
    /\ vu' = Append(vu, "between")
    /\ UNCHANGED <<load, run, stage, active, stopped, ctx, dropped>>

AllSpawned ==
    /\ run = "spawning"
    /\ cursor >= load.vus
    /\ run' = "waiting"
    /\ UNCHANGED <<load, stage, active, cursor, vu, stopped, ctx, dropped>>
-----------------------------------------------------------------------------
(* runRamping: scaleTo at the start of each stage, new VUs at the end of   *)
(* active, the last ones cancelled first.                                  *)

(* Mutants of EnterStage: a new VU does not move the cursor; cancelled VUs *)
(* stay in active; the oldest VUs are retired.                             *)
ScaleTo(target, moves, trims, oldest) ==
    LET delta  == target - Len(active)
        victims == IF oldest THEN 1 .. -delta ELSE Len(active) + delta + 1 .. Len(active)
    IN  IF delta >= 0
          THEN /\ active' = active \o [k \in 1 .. delta |-> cursor + k]
               /\ vu' = vu \o [k \in 1 .. delta |-> "between"]
               /\ cursor' = IF moves THEN cursor + delta ELSE cursor
               /\ UNCHANGED stopped
          ELSE /\ active' = IF ~trims THEN active
                            ELSE IF oldest THEN SubSeq(active, 1 - delta, Len(active))
                            ELSE SubSeq(active, 1, target)
               /\ stopped' = stopped \cup {active[k] : k \in victims}
               /\ UNCHANGED <<vu, cursor>>

EnterStageWith(moves, trims, oldest) ==
    /\ run = "enter"
    /\ stage < Len(load.stages)
    /\ stage' = stage + 1
    /\ ScaleTo(load.stages[stage + 1], moves, trims, oldest)
    /\ run' = "hold"
    /\ UNCHANGED <<load, ctx, dropped>>

EnterStageCursorKept == EnterStageWith(FALSE, TRUE, FALSE)

EnterStageNoTrim == EnterStageWith(TRUE, FALSE, FALSE)

EnterStageOldestFirst == EnterStageWith(TRUE, TRUE, TRUE)

EnterStage ==
    /\ run = "enter"
    /\ stage < Len(load.stages)
    /\ stage' = stage + 1
    /\ LET delta == load.stages[stage + 1] - Len(active)
       IN  IF delta >= 0
             THEN /\ active' = active \o [k \in 1 .. delta |-> cursor + k]
                  /\ vu' = vu \o [k \in 1 .. delta |-> "between"]
                  /\ cursor' = cursor + delta
                  /\ UNCHANGED stopped
             ELSE /\ active' = SubSeq(active, 1, Len(active) + delta)
                  /\ stopped' = stopped \cup
                        {active[k] : k \in Len(active) + delta + 1 .. Len(active)}
                  /\ UNCHANGED <<vu, cursor>>
    /\ run' = "hold"
    /\ UNCHANGED <<load, ctx, dropped>>

StageElapsed ==
    /\ run = "hold"
    /\ run' = "enter"
    /\ UNCHANGED <<load, stage, active, cursor, vu, stopped, ctx, dropped>>

(* stopAll, after the last stage or when the context ends one. *)
StopAll ==
    /\ \/ run = "enter" /\ stage = Len(load.stages) /\ run' = "draining"
       \/ run = "hold" /\ ctx # "live" /\ run' = "aborting"
    /\ stopped' = stopped \cup {active[k] : k \in DOMAIN active}
    /\ active' = <<>>
    /\ UNCHANGED <<load, stage, cursor, vu, ctx, dropped>>
-----------------------------------------------------------------------------
(* runArrivalRate: a tick starts an iteration if the semaphore has a free  *)
(* slot and is dropped otherwise.  With the context done and a tick ready, *)
(* select takes either.                                                    *)

InFlight == Cardinality({g \in 1 .. cursor : vu[g] \in {"between", "iterating"}})

TickStarts ==
    /\ run = "ticking"
    /\ cursor < MaxSpawns
    /\ InFlight < load.maxVUs
    /\ cursor' = cursor + 1
    /\ vu' = Append(vu, "between")
    /\ UNCHANGED <<load, run, stage, active, stopped, ctx, dropped>>

TickDropped ==
    /\ run = "ticking"
    /\ InFlight >= load.maxVUs
    /\ dropped' = TRUE
    /\ UNCHANGED <<load, run, stage, active, cursor, vu, stopped, ctx>>

(* Mutant of StopTicking: the function returns without wg.Wait. *)
StopTickingNoWait ==
    /\ run = "ticking"
    /\ ctx # "live"
    /\ run' = "ok"
    /\ UNCHANGED <<load, stage, active, cursor, vu, stopped, ctx, dropped>>

StopTicking ==
    /\ run = "ticking"
    /\ ctx # "live"
    /\ run' = "waiting"
    /\ UNCHANGED <<load, stage, active, cursor, vu, stopped, ctx, dropped>>
-----------------------------------------------------------------------------
(* wg.Wait returns when every goroutine is done.  runRamping returns nil   *)
(* once it went through its stages; the others return the context's error  *)
(* unless it is their own deadline.                                        *)
Return ==
    /\ run \in {"waiting", "draining", "aborting"}
    /\ \A g \in 1 .. cursor : vu[g] = "done"
    /\ run' = IF run = "aborting" \/ (run = "waiting" /\ ctx = "cancelled")
                THEN "failed" ELSE "ok"
    /\ UNCHANGED <<load, stage, active, cursor, vu, stopped, ctx, dropped>>

Become(g, from, to) ==
    /\ vu[g] = from
    /\ vu' = [vu EXCEPT ![g] = to]
    /\ UNCHANGED <<load, run, stage, active, cursor, stopped, ctx, dropped>>

(* spawnVU's loop, or the single iteration of an arrival. *)
BeginIteration(g) == ~CtxDone(g) /\ Become(g, "between", "iterating")

EndIteration(g) ==
    Become(g, "iterating", IF load.type = "arrival-rate" THEN "released" ELSE "between")

(* The context is done: spawnVU's loop ends, an arrival's iteration        *)
(* returns before its first step.                                          *)
SkipIteration(g) ==
    /\ CtxDone(g)
    /\ Become(g, "between", IF load.type = "arrival-rate" THEN "released" ELSE "done")

(* The deferred wg.Done, after the deferred release of the semaphore. *)
Finish(g) == Become(g, "released", "done")

VUStep(g) == \/ BeginIteration(g) \/ EndIteration(g)
             \/ SkipIteration(g) \/ Finish(g)

Scheduler == \/ Start \/ Spawn \/ AllSpawned
             \/ EnterStage \/ StageElapsed \/ StopAll
             \/ TickStarts \/ TickDropped \/ StopTicking
             \/ Return

Next == \/ Scheduler
        \/ Deadline \/ Interrupt
        \/ \E g \in 1 .. cursor : VUStep(g)

Spec == Init /\ [][Next]_vars
-----------------------------------------------------------------------------
(* Run returns only when no goroutine it started is left: whatever it      *)
(* reports next is not still being added to (wg.Wait on every way out).    *)
ReturnsAfterAll ==
    run \in {"ok", "failed"} => \A g \in 1 .. cursor : vu[g] = "done"

(* While a stage is held, as many VUs are running as its target says, and  *)
(* the ones whose cancel function is held are exactly the ones not         *)
(* cancelled: scaling up and down loses track of none.                     *)
StageHasItsVUs ==
    run = "hold" =>
        /\ Len(active) = load.stages[stage]
        /\ {active[k] : k \in DOMAIN active} = (1 .. cursor) \ stopped

(* "Scaling down retires the most recently spawned VUs first"              *)
(* (load/engine.go:84-85), over any sequence of stages.                    *)
NewestRetiredFirst ==
    [][\A g \in stopped' \ stopped : \A k \in DOMAIN active' : active'[k] < g]_vars

(* "wallets.count should generally be >= the peak concurrent VU target ... *)
(* so no two concurrently active VUs ever share a wallet's in-flight       *)
(* nonce" (docs/dsl-reference.md:142-144): true of constant runs, and of   *)
(* ramps that never go down.                                               *)
NeverScalesDown ==
    \/ load.type = "constant" /\ load.vus <= load.wallets
    \/ /\ load.type = "ramping"
       /\ \A k \in DOMAIN load.stages :
            /\ load.stages[k] <= load.wallets
            /\ \A j \in 1 .. k : load.stages[j] <= load.stages[k]

WalletsNotShared ==
    NeverScalesDown =>
        \A g, h \in 1 .. cursor :
            (g # h /\ {g, h} \cap stopped = {} /\ "done" \notin {vu[g], vu[h]})
                => WalletOf(g) # WalletOf(h)
=============================================================================
