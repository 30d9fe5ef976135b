----------------------------- MODULE LoadShape -----------------------------
(***************************************************************************)
(* The load section of a scenario: its types, its validation               *)
(* (internal/scenario/validate.go), its expansion into stages and its      *)
(* division among workers (internal/scenario/schema.go).                   *)
(*                                                                         *)
(* A stage is its target.  Durations are positive and copied; a scenario   *)
(* whose durations are not positive is rejected on the first pass and      *)
(* never travels.                                                          *)
(***************************************************************************)
EXTENDS Sharding, Sequences

(* "constant" stands for soak, too. *)
ConstantLoad(vus) == [type |-> "constant", vus |-> vus]
RampingLoad(targets) == [type |-> "ramping", targets |-> targets]
SpikeLoad(baseline, target) ==
    [type |-> "spike", baseline |-> baseline, target |-> target]
StressLoad(from, step, max) ==
    [type |-> "stress", from |-> from, step |-> step, max |-> max]
ArrivalLoad(rate, maxVUs, pre) ==
    [type |-> "arrival-rate", rate |-> rate, maxVUs |-> maxVUs, pre |-> pre]

StageBased(l) == l.type \in {"ramping", "spike", "stress"}

(* Mutant of StressTargets: the loop runs up to max and max is appended. *)
StressTargetsInclusive(from, step, max) ==
    LET plateaus == {k \in 0 .. max - from : from + k * step <= max}
    IN  [k \in 1 .. Cardinality(plateaus) |-> from + (k - 1) * step] \o <<max>>

(* from, from + step, ... while below max, and then max itself. *)
StressTargets(from, step, max) ==
    LET plateaus == {k \in 0 .. max - from : from + k * step < max}
    IN  [k \in 1 .. Cardinality(plateaus) |-> from + (k - 1) * step] \o <<max>>

ResolvedStages(l) ==
    CASE l.type = "ramping" -> l.targets
      [] l.type = "spike" -> <<l.baseline, l.target, l.baseline>>
      [] l.type = "stress" -> StressTargets(l.from, l.step, l.max)

(* Load.validate with validateStages. *)
Valid(l) ==
    /\ l.type = "constant" => l.vus > 0
    /\ l.type = "ramping" => l.targets # <<>>
    /\ l.type = "spike" => l.target > l.baseline
    /\ l.type = "stress" => l.step > 0 /\ l.max > l.from
    /\ l.type = "arrival-rate" =>
         l.rate > 0 /\ l.maxVUs > 0 /\ l.pre >= 0 /\ l.pre <= l.maxVUs
    /\ StageBased(l) =>
         \A k \in DOMAIN ResolvedStages(l) : ResolvedStages(l)[k] >= 0

(* Mutant of Shard: pre_allocated_vus is not brought under max_vus. *)
ShardKeepsPreAllocated(l, index, count) ==
    LET divide(n) == ChunkSize(n, index, count)
    IN  IF count <= 1 THEN l
        ELSE CASE l.type = "constant" -> ConstantLoad(divide(l.vus))
               [] l.type = "arrival-rate" ->
                    ArrivalLoad(divide(l.rate), divide(l.maxVUs), l.pre)
               [] StageBased(l) ->
                    RampingLoad([k \in DOMAIN ResolvedStages(l) |->
                                    divide(ResolvedStages(l)[k])])

Shard(l, index, count) ==
    LET divide(n) == ChunkSize(n, index, count)
    IN  IF count <= 1 THEN l
        ELSE CASE l.type = "constant" -> ConstantLoad(divide(l.vus))
               [] l.type = "arrival-rate" ->
                    ArrivalLoad(divide(l.rate), divide(l.maxVUs),
                                Smaller(l.pre, divide(l.maxVUs)))
               [] StageBased(l) ->
                    RampingLoad([k \in DOMAIN ResolvedStages(l) |->
                                    divide(ResolvedStages(l)[k])])

(* The numbers of a load that a division must conserve, in order. *)
Numbers(l) ==
    CASE l.type = "constant" -> <<l.vus>>
      [] l.type = "arrival-rate" -> <<l.rate, l.maxVUs>>
      [] StageBased(l) -> ResolvedStages(l)
=============================================================================
