-------------------------------- MODULE Report --------------------------------
(***************************************************************************)
(* From samples to the exit code: Collector.Snapshot                       *)
(* (internal/metrics/metrics.go), Controller.Aggregate                     *)
(* (internal/distributed/controller.go), EvaluateAssertions                *)
(* (internal/report/assert.go) and checkAssertions (cmd/web3load).         *)
(*                                                                         *)
(* A collector's samples are a histogram, the number of samples of each    *)
(* latency.  A latency is counted in tenths of a millisecond.  There are   *)
(* three lists of samples, treated alike; this is one of them.             *)
(*                                                                         *)
(* What is compared with a threshold is a fraction.  The success rate is a *)
(* float64 in the code: a fraction, and the side of it on which the        *)
(* roundings left the float.                                               *)
(***************************************************************************)
EXTENDS Integers, Sequences, FiniteSetsExt

CONSTANTS Latencies,   \* the latencies that occur
          Collectors,  \* what the collector of a worker can hold at the end
          Cohorts,     \* the sets of workers considered
          Assertions   \* the lists of assertions considered

Metrics == {"rpc_p50", "rpc_p95", "rpc_p99", "transaction_success_rate",
            "reverted_transactions", "nonce_errors", "rpc_errors", "typo"}

ASSUME ReportAssumption ==
    /\ Latencies \subseteq Nat \ {0} /\ IsFiniteSet(Latencies)
    /\ \A cohort \in Cohorts : IsFiniteSet(cohort)
    /\ Collectors \subseteq
         [samples : [Latencies -> Nat], success : Nat, reverted : Nat,
          nonceErrors : Nat, rpcErrors : Nat, timeouts : Nat]
    /\ Assertions \subseteq
         Seq([metric : Metrics, op : {"<", "<=", ">", ">=", "=="},
              threshold : Nat, unit : {"", "%", "ms", "s"}])

VARIABLES collectors,  \* the collector of each worker
          command,     \* "run" or "controller run"
          pending,     \* workers whose results Aggregate has yet to visit
          result,      \* the Result so far
          weighted,    \* Aggregate's weightedSuccess
          assertions,  \* the scenario's assertions
          passed,      \* for those evaluated so far: did they pass?
          exit         \* the command's outcome

vars == <<collectors, command, pending, result, weighted, assertions, passed, exit>>

Cohort == DOMAIN collectors
-----------------------------------------------------------------------------
(* Snapshot *)

Size(samples) == MapThenSumSet(LAMBDA l : samples[l], Latencies)

AtMost(samples, l) == MapThenSumSet(LAMBDA m : samples[m], {m \in Latencies : m <= l})

(* sorted[idx], of the samples sorted. *)
SortedAt(samples, idx) == Min({l \in Latencies : AtMost(samples, l) > idx})

(* Mutant of PercentileIndex: rounded to the rank below. *)
PercentileIndexBelow(n, p) == IF n * p >= 100 THEN (n * p) \div 100 - 1 ELSE 0

PercentileIndex(n, p) ==
    LET idx == (n * p) \div 100
    IN  IF idx >= n THEN n - 1 ELSE idx

Percentile(samples, p) ==
    IF Size(samples) = 0 THEN 0
    ELSE SortedAt(samples, PercentileIndex(Size(samples), p))

Total(c) == c.success + c.reverted + c.nonceErrors + c.rpcErrors + c.timeouts

(* A float64 without a rounding error. *)
Exact(num, den) == [num |-> num, den |-> den, side |-> 0]

(* Where a rounded float64 is: below, at or above the fraction. *)
Sides == -1 .. 1

(* A percentage computed in float64.  11 of 20 come out above 55, and 29   *)
(* of 100 below 29; nothing and everything come out as 0 and 100.          *)
Percentage(num, den, side) ==
    [num |-> num, den |-> den, side |-> IF num \in {0, 100 * den} THEN 0 ELSE side]

(* Timeouts are in the total, and in no other field. *)
Snapshot(c, side) ==
    [total       |-> Total(c),
     successRate |-> IF Total(c) = 0 THEN Exact(0, 1)
                     ELSE Percentage(100 * c.success, Total(c), side),
     latency     |-> [p \in {50, 95, 99} |-> Percentile(c.samples, p)],
     reverted    |-> c.reverted,
     nonceErrors |-> c.nonceErrors,
     rpcErrors   |-> c.rpcErrors]

NoTransactions ==
    [total |-> 0, successRate |-> Exact(0, 1), latency |-> [p \in {50, 95, 99} |-> 0],
     reverted |-> 0, nonceErrors |-> 0, rpcErrors |-> 0]
-----------------------------------------------------------------------------
Init ==
    /\ \E cohort \in Cohorts : collectors \in [cohort -> Collectors]
    /\ command \in IF Cardinality(Cohort) = 1 THEN {"run", "controller run"}
                                               ELSE {"controller run"}
    /\ IF command = "run"
         THEN /\ pending = {}
              /\ \E w \in Cohort, side \in Sides : result = Snapshot(collectors[w], side)
         ELSE /\ pending = Cohort
              /\ result = NoTransactions
    /\ weighted = 0
    /\ assertions \in Assertions
    /\ passed = <<>>
    /\ exit = "none"

MaxPercentiles(a, b) == [p \in DOMAIN a |-> Max({a[p], b[p]})]

(* Mutant of AggregateNext: the mean of the workers' success rates. *)
AggregateNextUnweighted(w) ==
    \E side \in Sides :
        LET r == Snapshot(collectors[w], side)
        IN  /\ pending' = pending \ {w}
            /\ weighted' = weighted + r.successRate.num \div r.successRate.den
            /\ result' = [total       |-> result.total + r.total,
                          successRate |-> Percentage(weighted', Cardinality(Cohort), side),
                          latency     |-> MaxPercentiles(result.latency, r.latency),
                          reverted    |-> result.reverted + r.reverted,
                          nonceErrors |-> result.nonceErrors + r.nonceErrors,
                          rpcErrors   |-> result.rpcErrors + r.rpcErrors]
            /\ UNCHANGED <<collectors, command, assertions, passed, exit>>

(* Aggregate's loop visits the results in any order, as a map is ranged    *)
(* over.  The rate is divided once the loop is through; dividing each time *)
(* leaves the same in the end.  Where the workers' rates, their products   *)
(* and sums and the quotient were rounded to shows in the quotient alone.  *)
AggregateNext(w) ==
    \E side \in Sides :
        LET r == Snapshot(collectors[w], side)
        IN  /\ pending' = pending \ {w}
            /\ weighted' = weighted + (r.successRate.num * r.total) \div r.successRate.den
            /\ result' = [total       |-> result.total + r.total,
                          successRate |-> IF result.total + r.total = 0 THEN Exact(0, 1)
                                          ELSE Percentage(weighted', result.total + r.total, side),
                          latency     |-> MaxPercentiles(result.latency, r.latency),
                          reverted    |-> result.reverted + r.reverted,
                          nonceErrors |-> result.nonceErrors + r.nonceErrors,
                          rpcErrors   |-> result.rpcErrors + r.rpcErrors]
            /\ UNCHANGED <<collectors, command, assertions, passed, exit>>
-----------------------------------------------------------------------------
(* EvaluateAssertions *)

(* metricValue, as a fraction: Milliseconds cuts the rest off, Seconds     *)
(* does not.                                                               *)
DurationInUnit(latency, unit) ==
    IF unit = "s" THEN Exact(latency, 10000) ELSE Exact(latency \div 10, 1)

MetricValue(a) ==
    CASE a.metric = "rpc_p50" -> DurationInUnit(result.latency[50], a.unit)
      [] a.metric = "rpc_p95" -> DurationInUnit(result.latency[95], a.unit)
      [] a.metric = "rpc_p99" -> DurationInUnit(result.latency[99], a.unit)
      [] a.metric = "transaction_success_rate" -> result.successRate
      [] a.metric = "reverted_transactions" -> Exact(result.reverted, 1)
      [] a.metric = "nonce_errors" -> Exact(result.nonceErrors, 1)
      [] a.metric = "rpc_errors" -> Exact(result.rpcErrors, 1)

(* A rounding error is far smaller than the distance between a fraction    *)
(* and a threshold it differs from, so it decides only where they agree.   *)
LessThan(v, threshold) ==
    v.num < threshold * v.den \/ (v.num = threshold * v.den /\ v.side = -1)

MoreThan(v, threshold) ==
    v.num > threshold * v.den \/ (v.num = threshold * v.den /\ v.side = 1)

Compare(v, op, threshold) ==
    CASE op = "<"  -> LessThan(v, threshold)
      [] op = "<=" -> ~MoreThan(v, threshold)
      [] op = ">"  -> MoreThan(v, threshold)
      [] op = ">=" -> ~LessThan(v, threshold)
      [] op = "==" -> ~LessThan(v, threshold) /\ ~MoreThan(v, threshold)

Evaluating == /\ pending = {}
              /\ exit = "none"
              /\ Len(passed) < Len(assertions)

ThisAssertion == assertions[Len(passed) + 1]

Evaluate ==
    /\ Evaluating
    /\ ThisAssertion.metric # "typo"
    /\ passed' = Append(passed, Compare(MetricValue(ThisAssertion),
                                        ThisAssertion.op, ThisAssertion.threshold))
    /\ UNCHANGED <<collectors, command, pending, result, weighted, assertions, exit>>

(* A metric nobody knows makes the command fail, whatever the others say. *)
EvaluateUnknown ==
    /\ Evaluating
    /\ ThisAssertion.metric = "typo"
    /\ exit' = "failed"
    /\ UNCHANGED <<collectors, command, pending, result, weighted, assertions, passed>>

(* checkAssertions *)
Exit ==
    /\ pending = {}
    /\ exit = "none"
    /\ Len(passed) = Len(assertions)
    /\ exit' = IF \A k \in DOMAIN passed : passed[k] THEN "ok" ELSE "failed"
    /\ UNCHANGED <<collectors, command, pending, result, weighted, assertions, passed>>

Next ==
    \/ \E w \in pending : AggregateNext(w)
    \/ Evaluate \/ EvaluateUnknown \/ Exit

Spec == Init /\ [][Next]_vars
-----------------------------------------------------------------------------
(* Everything the cohort recorded, in one collector. *)
SumOf(f) == MapThenSumSet(LAMBDA w : f[w], Cohort)

Merged ==
    [samples     |-> [l \in Latencies |->
                        SumOf([w \in Cohort |-> collectors[w].samples[l]])],
     success     |-> SumOf([w \in Cohort |-> collectors[w].success]),
     reverted    |-> SumOf([w \in Cohort |-> collectors[w].reverted]),
     nonceErrors |-> SumOf([w \in Cohort |-> collectors[w].nonceErrors]),
     rpcErrors   |-> SumOf([w \in Cohort |-> collectors[w].rpcErrors]),
     timeouts    |-> SumOf([w \in Cohort |-> collectors[w].timeouts])]

(* "Counts sum exactly; success rate is recomputed from the summed counts  *)
(* ... takes the max p50/p95/p99 across workers as a conservative          *)
(* (pessimistic) approximation" (controller.go:146-152): in any order of   *)
(* the workers, the report is the one a single collector would have given, *)
(* but for percentiles, which are never lower, and the side on which the   *)
(* rate was rounded.                                                       *)
AggregateIsConservative ==
    pending = {} =>
        LET exact == Snapshot(Merged, 0)
        IN  /\ result.total = exact.total
            /\ result.reverted = exact.reverted
            /\ result.nonceErrors = exact.nonceErrors
            /\ result.rpcErrors = exact.rpcErrors
            /\ result.successRate.num * exact.successRate.den
                 = exact.successRate.num * result.successRate.den
            /\ \A p \in {50, 95, 99} : result.latency[p] >= exact.latency[p]

PercentileOf(metric) ==
    CASE metric = "rpc_p50" -> 50 [] metric = "rpc_p95" -> 95 [] metric = "rpc_p99" -> 99

(* The latencies that pass an upper bound a: Milliseconds cuts the rest    *)
(* off, so "<=" forgives up to a millisecond.                              *)
Limit(a) == IF a.unit = "s" THEN 10000 * a.threshold
            ELSE IF a.op = "<" THEN 10 * a.threshold - 1
            ELSE 10 * a.threshold + 9

(* A command that exits with status 0 vouches for its upper bounds: of all *)
(* samples of all workers more than p percent are within the limit of an   *)
(* assertion on the p-th percentile, there are as many nonce errors as one *)
(* asks for, and the share of successes reaches the threshold of one on    *)
(* it.  It need not exceed a threshold with ">", as the rate is rounded;   *)
(* but with ">= 100" nothing failed.                                       *)
PassedBoundsHold ==
    exit = "ok" =>
        \A k \in DOMAIN assertions :
            LET a == assertions[k]
            IN  /\ (/\ a.metric \in {"rpc_p50", "rpc_p95", "rpc_p99"}
                    /\ a.op \in {"<", "<="}
                    /\ Size(Merged.samples) > 0)
                     => AtMost(Merged.samples, Limit(a)) * 100
                          > PercentileOf(a.metric) * Size(Merged.samples)
                /\ (a.metric = "nonce_errors" /\ a.op = "==")
                     => Merged.nonceErrors = a.threshold
                /\ (a.metric = "transaction_success_rate" /\ a.op \in {">", ">="})
                     => Merged.success * 100 >= a.threshold * Total(Merged)
=============================================================================
