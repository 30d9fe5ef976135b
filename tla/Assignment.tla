----------------------------- MODULE Assignment -----------------------------
(***************************************************************************)
(* What one worker is sent, from the scenario to the run: the controller   *)
(* parses and validates the scenario (ParseFile), handleRegister divides   *)
(* its load and cuts the worker's wallets out of the keystore, and the     *)
(* worker parses and validates its shard again (ParseYAML).                *)
(*                                                                         *)
(* index is the worker's place in the order of registration, so it may lie *)
(* beyond the cohort.  The loop of ShardWallets runs one index per step.   *)
(***************************************************************************)
EXTENDS LoadShape, FiniteSetsExt

CONSTANTS MaxTarget,   \* bound: VU and rate targets
          MaxWallets,  \* bound: wallets in the keystore
          MaxWorkers   \* bound: workers

ASSUME AssignmentAssumption ==
    MaxTarget \in Nat \ {0} /\ MaxWallets \in Nat /\ MaxWorkers \in Nat \ {0}

VARIABLES load, total,   \* the scenario's load, len(wallets)
          count, index,  \* shardCount, shardIndex
          phase,         \* how far the assignment has come
          shard,         \* the load the worker is sent
          i, start,      \* the loop of ShardWallets
          slice          \* the wallets the worker is sent

given == <<load, total, count, index>>
vars == <<given, phase, shard, i, start, slice>>

NoSlice == {-1}

Targets == -1 .. MaxTarget

Loads ==
    {ConstantLoad(n) : n \in Targets}
    \cup {RampingLoad(s) : s \in UNION {[1 .. k -> Targets] : k \in 0 .. 2}}
    \cup {SpikeLoad(a, b) : a, b \in Targets}
    \cup {StressLoad(a, b, c) : a, b, c \in Targets}
    \cup {ArrivalLoad(a, b, c) : a, b, c \in Targets}

(* Load and wallets are divided independently: every load is tried with    *)
(* one keystore, and every keystore with one load.                         *)
Init ==
    /\ load \in Loads
    /\ total \in 0 .. MaxWallets
    /\ total = MaxWallets \/ load = ConstantLoad(MaxTarget)
    /\ count \in 1 .. MaxWorkers
    /\ index \in 0 .. MaxWorkers
    /\ phase = "read"
    /\ shard = load
    /\ i = 0
    /\ start = 0
    /\ slice = NoSlice

(* The controller parses the scenario. *)
Parse ==
    /\ phase = "read"
    /\ phase' = IF Valid(load) THEN "valid" ELSE "rejected"
    /\ UNCHANGED <<given, shard, i, start, slice>>

(* handleRegister divides the load. *)
DivideLoad ==
    /\ phase = "valid"
    /\ shard' = Shard(load, index, count)
    /\ phase' = "sharded"
    /\ UNCHANGED <<given, i, start, slice>>

(* ShardWallets with a single worker, whatever its index. *)
ReturnAll ==
    /\ phase = "sharded"
    /\ count <= 1
    /\ slice' = 0 .. total - 1
    /\ phase' = "assigned"
    /\ UNCHANGED <<given, shard, i, start>>

(* Mutant of AddChunk: every chunk skipped is taken for as large as the    *)
(* caller's own.                                                           *)
AddChunkOwnSize ==
    /\ phase = "sharded"
    /\ count > 1
    /\ i < index
    /\ start' = start + ChunkSize(total, index, count)
    /\ i' = i + 1
    /\ UNCHANGED <<given, phase, shard, slice>>

(* One turn of its loop. *)
AddChunk ==
    /\ phase = "sharded"
    /\ count > 1
    /\ i < index
    /\ start' = start + ChunkSize(total, i, count)
    /\ i' = i + 1
    /\ UNCHANGED <<given, phase, shard, slice>>

(* Its return, both ends kept within the keystore. *)
ReturnSlice ==
    /\ phase = "sharded"
    /\ count > 1
    /\ i = index
    /\ slice' = SliceFrom(total, index, count, start)
    /\ phase' = "assigned"
    /\ UNCHANGED <<given, shard, i, start>>

(* The worker parses what it was sent. *)
Reparse ==
    /\ phase = "assigned"
    /\ phase' = IF Valid(shard) THEN "runs" ELSE "refused"
    /\ UNCHANGED <<given, shard, i, start, slice>>

Next == \/ Parse \/ DivideLoad
        \/ ReturnAll \/ AddChunk \/ ReturnSlice
        \/ Reparse

Spec == Init /\ [][Next]_vars
-----------------------------------------------------------------------------
(* The closed form of the loop: within the cohort it has skipped i chunks, *)
(* the first total % count of which are one wallet longer; it never runs   *)
(* past the keystore, so neither end of the slice is ever cut short.       *)
LoopSkipsChunks ==
    (count > 1 /\ i <= count) =>
        /\ start = i * (total \div count) + Smaller(i, total % count)
        /\ start <= total

(* "No two workers may ever hold the same wallet" (shard.go:6-8): the      *)
(* slice returned meets no other registrant's slice, late ones included,   *)
(* when there are two workers or more; and the slices of the cohort cover  *)
(* the keystore, each as large as the next or one wallet larger ("sized as *)
(* evenly as possible, earliest shards absorb any remainder",              *)
(* shard.go:4-6).                                                          *)
SlicesPartition ==
    phase = "assigned" =>
        /\ count > 1 =>
             \A other \in 0 .. MaxWorkers :
                other # index => slice \cap ShardWallets(total, other, count) = {}
        /\ index < count =>
             UNION {ShardWallets(total, k, count) : k \in 0 .. count - 1} = 0 .. total - 1
        /\ (count > 1 /\ index < count) =>
             \A k \in index .. count - 1 :
                Cardinality(slice) - Cardinality(ShardWallets(total, k, count)) \in {0, 1}

(* "Per-worker targets always sum back to the original" (schema.go:123-125 *)
(* and docs/distributed.md:38-40): every number of the load, stage by      *)
(* stage, is the sum over the cohort of the shards' numbers.               *)
TargetsSumBack ==
    (phase = "sharded" /\ count > 1) =>
        \A k \in DOMAIN Numbers(load) :
            MapThenSumSet(LAMBDA j : Numbers(Shard(load, j, count))[k], 0 .. count - 1)
                = Numbers(load)[k]

(* An expanded stress load climbs: plateaus start at from, grow by step,   *)
(* stay below max, and the last one is max (schema.go:109-115, "staircase  *)
(* from Start up to Max", schema.go:76).                                   *)
StressClimbsToMax ==
    (phase = "valid" /\ load.type = "stress") =>
        LET s == ResolvedStages(load)
        IN  /\ s[1] = load.from
            /\ s[Len(s)] = load.max
            /\ \A k \in 1 .. Len(s) - 1 : s[k] < s[k + 1] /\ s[k + 1] - s[k] <= load.step

(* A load the controller accepted is accepted by every worker it is sent   *)
(* to, when every number it divides reaches the number of workers; the     *)
(* stage-based loads need no such condition.                               *)
ShardIsAccepted ==
    (phase = "refused") =>
        ~StageBased(load) /\ \E k \in DOMAIN Numbers(load) : Numbers(load)[k] < count
=============================================================================
