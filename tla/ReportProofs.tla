---------------------------- MODULE ReportProofs -----------------------------
(***************************************************************************)
(* The invariants of Report, for any number of workers, whatever their     *)
(* collectors hold, in any order, and for every list of assertions.        *)
(***************************************************************************)
EXTENDS Report, ShardingProofs

Percents == {50, 95, 99}

(* What a whole number is divided by comes out when it was a factor. *)
LEMMA DivExact ==
    ASSUME NEW a \in Nat, NEW t \in Nat \ {0}
    PROVE  (a * t) \div t = a
<1>1. a * t \in Nat /\ (a * t) \div t \in Nat /\ (a * t) % t \in 0 .. t - 1
  OBVIOUS
<1>2. PICK q \in Nat, r \in 0 .. t - 1 : q = (a * t) \div t /\ a * t = t * q + r
  OBVIOUS
<1>3. CASE q > a
  <2>1. PICK d \in Nat : q = a + 1 + d
    <3>1. q - a - 1 \in Nat /\ q = a + 1 + (q - a - 1)
      BY <1>3
    <3> QED
      BY <3>1
  <2>2. t * q = a * t + t + t * d /\ t * d \in Nat
    BY <2>1
  <2> QED
    BY <1>1, <1>2, <2>2
<1>4. CASE q < a
  <2>1. PICK d \in Nat : a = q + 1 + d
    <3>1. a - q - 1 \in Nat /\ a = q + 1 + (a - q - 1)
      BY <1>4
    <3> QED
      BY <3>1
  <2>2. a * t = t * q + t + t * d /\ t * d \in Nat
    BY <2>1
  <2> QED
    BY <1>1, <1>2, <2>2
<1> QED
  BY <1>2, <1>3, <1>4

LEMMA LargestNat ==
    ASSUME NEW S, IsFiniteSet(S), S \subseteq Nat, S # {}
    PROVE  \E m \in S : \A k \in S : k <= m
<1> DEFINE H == {T \in SUBSET S : T = {} \/ \E m \in T : \A k \in T : k <= m}
<1>1. {} \in H
  OBVIOUS
<1>2. ASSUME NEW T \in SUBSET S, NEW x \in S \ T, T \in H PROVE T \cup {x} \in H
  <2>1. CASE T = {}
    BY <2>1
  <2>2. CASE T # {}
    <3>1. PICK m \in T : \A k \in T : k <= m
      BY <1>2, <2>2
    <3>2. m \in Nat /\ x \in Nat /\ \A k \in T : k \in Nat
      OBVIOUS
    <3>3. CASE x <= m
      BY <3>1, <3>3
    <3>4. CASE m < x
      <4>1. \A k \in T \cup {x} : k <= x
        BY <3>1, <3>2, <3>4
      <4> QED
        BY <4>1
    <3> QED
      BY <3>2, <3>3, <3>4
  <2> QED
    BY <2>1, <2>2
<1>3. S \in H
  <2> HIDE DEF H
  <2> QED
    BY <1>1, <1>2, FiniteInduction
<1> QED
  BY <1>3

(* The rank a percentile is read at leaves p percent below it. *)
LEMMA IndexOfPercent ==
    ASSUME NEW n \in Nat \ {0}, NEW p \in Percents
    PROVE  /\ PercentileIndex(n, p) \in 0 .. n - 1
           /\ \A k \in Nat : k > PercentileIndex(n, p) <=> 100 * k > n * p
<1>1. p \in 1 .. 99 /\ n * p \in Nat /\ n * p < 100 * n
  BY DEF Percents
<1>2. PICK q \in Nat : q = (n * p) \div 100 /\ 100 * q <= n * p /\ n * p < 100 * q + 100
  BY <1>1
<1>3. q < n
  BY <1>1, <1>2
<1>4. PercentileIndex(n, p) = q
  BY <1>2, <1>3 DEF PercentileIndex
<1> QED
  BY <1>1, <1>2, <1>3, <1>4

LEMMA SizeType ==
    ASSUME NEW s \in [Latencies -> Nat]
    PROVE  Size(s) \in Nat /\ Size(s) = Sum(s, Latencies)
<1>1. Size(s) = Sum(s, Latencies)
  BY DEF Size, Sum
<1>2. IsFiniteSet(Latencies)
  BY ReportAssumption
<1>3. Sum(s, Latencies) \in Nat
  BY <1>2, SumType
<1> QED
  BY <1>1, <1>3

(* The samples at most l, as a sum over all latencies. *)
Below(s, l) == [m \in Latencies |-> IF m <= l THEN s[m] ELSE 0]

LEMMA AtMostIsSum ==
    ASSUME NEW s \in [Latencies -> Nat], NEW l \in Nat
    PROVE  /\ AtMost(s, l) = Sum(Below(s, l), Latencies)
           /\ AtMost(s, l) \in Nat
<1> DEFINE T == {m \in Latencies : m <= l}
<1>1. IsFiniteSet(Latencies) /\ IsFiniteSet(T) /\ T \in SUBSET Latencies
  BY ReportAssumption, FS_Subset
<1>2. AtMost(s, l) = Sum(s, T)
  BY DEF AtMost, Sum
<1>3. Sum(s, T) = Sum(Below(s, l), T)
  BY <1>1, SumSame DEF Below
<1>4. Sum(Below(s, l), T) = Sum(Below(s, l), Latencies)
  <2>1. /\ \A m \in Latencies : Below(s, l)[m] \in Nat
        /\ \A m \in Latencies \ T : Below(s, l)[m] = 0
    BY DEF Below
  <2> QED
    BY <1>1, <2>1, SumWithoutZeros
<1>5. Sum(s, T) \in Nat
  BY <1>1, SumType
<1> QED
  BY <1>2, <1>3, <1>4, <1>5

LEMMA AtMostGrows ==
    ASSUME NEW s \in [Latencies -> Nat], NEW l \in Nat, NEW m \in Nat, l <= m
    PROVE  /\ AtMost(s, l) <= AtMost(s, m)
           /\ (\A k \in Latencies : k <= m) => AtMost(s, m) = Size(s)
<1>1. IsFiniteSet(Latencies) /\ Latencies \subseteq Nat
  BY ReportAssumption
<1>2. \A k \in Latencies : /\ Below(s, l)[k] \in Nat /\ Below(s, m)[k] \in Nat
                           /\ Below(s, l)[k] <= Below(s, m)[k]
  BY <1>1 DEF Below
<1>3. Sum(Below(s, l), Latencies) <= Sum(Below(s, m), Latencies)
  BY <1>1, <1>2, SumMonotone
<1>4. ASSUME \A k \in Latencies : k <= m PROVE AtMost(s, m) = Size(s)
  <2>1. {k \in Latencies : k <= m} = Latencies
    BY <1>4
  <2> QED
    BY <2>1, Zenon DEF AtMost, Size
<1> QED
  BY <1>3, <1>4, AtMostIsSum

(* The p-th percentile is the smallest latency that more than p percent of *)
(* the samples do not exceed.                                              *)
LEMMA PercentileIsLeast ==
    ASSUME NEW s \in [Latencies -> Nat], NEW p \in Percents
    PROVE  /\ Size(s) = 0 => Percentile(s, p) = 0
           /\ Size(s) # 0 =>
                /\ Percentile(s, p) \in Latencies
                /\ 100 * AtMost(s, Percentile(s, p)) > Size(s) * p
                /\ \A l \in Latencies :
                     100 * AtMost(s, l) > Size(s) * p => Percentile(s, p) <= l
<1>1. CASE Size(s) = 0
  BY <1>1 DEF Percentile
<1>2. CASE Size(s) # 0
  <2> DEFINE n == Size(s)
             idx == PercentileIndex(n, p)
             T == {l \in Latencies : AtMost(s, l) > idx}
  <2>1. n \in Nat \ {0} /\ n = Sum(s, Latencies)
    BY <1>2, SizeType
  <2>2. IsFiniteSet(Latencies) /\ Latencies \subseteq Nat
    BY ReportAssumption
  <2>3. idx \in 0 .. n - 1 /\ \A k \in Nat : k > idx <=> 100 * k > n * p
    BY <2>1, IndexOfPercent
  <2>4. Latencies # {}
    BY <2>1, SumOfNone
  <2>5. PICK top \in Latencies : \A k \in Latencies : k <= top
    BY <2>2, <2>4, LargestNat
  <2>6. top \in T
    <3>1. top \in Nat /\ top <= top
      BY <2>2
    <3>2. AtMost(s, top) = n
      BY <2>5, <3>1, AtMostGrows
    <3> QED
      BY <2>1, <2>3, <3>2
  <2>7. Percentile(s, p) = Min(T)
    BY <1>2 DEF Percentile, SortedAt
  <2>8. \E m \in T : \A k \in T : m <= k
    BY <2>2, <2>6, SmallestNat
  <2>9. Min(T) \in T /\ \A k \in T : Min(T) <= k
    <3> HIDE DEF T
    <3> QED
      BY <2>8 DEF Min
  <2>10. \A l \in Latencies : AtMost(s, l) \in Nat
    BY <2>2, AtMostIsSum
  <2> QED
    BY <1>2, <2>3, <2>7, <2>9, <2>10
<1> QED
  BY <1>1, <1>2

-----------------------------------------------------------------------------
ReportTypeOK ==
    /\ collectors \in [Cohort -> Collectors]
    /\ IsFiniteSet(Cohort)
    /\ pending \subseteq Cohort
    /\ command \in {"run", "controller run"}
    /\ assertions \in Assertions
    /\ passed \in Seq(BOOLEAN)
    /\ Len(passed) <= Len(assertions)

CollectorType == [samples : [Latencies -> Nat], success : Nat, reverted : Nat,
                  nonceErrors : Nat, rpcErrors : Nat, timeouts : Nat]

AssertionType == [metric : Metrics, op : {"<", "<=", ">", ">=", "=="},
                  threshold : Nat, unit : {"", "%", "ms", "s"}]

(* The workers whose collectors were added up. *)
Visited == Cohort \ pending

Totals == [w \in Cohort |-> Total(collectors[w])]
Successes == [w \in Cohort |-> collectors[w].success]
Reverted == [w \in Cohort |-> collectors[w].reverted]
NonceErrors == [w \in Cohort |-> collectors[w].nonceErrors]
RpcErrors == [w \in Cohort |-> collectors[w].rpcErrors]

RateOf(success, total, side) ==
    IF total = 0 THEN Exact(0, 1) ELSE Percentage(100 * success, total, side)

(* What the rate of these counts may have been rounded to. *)
Rates(success, total) == {RateOf(success, total, side) : side \in Sides}

(* The counts of a Result are those of the workers visited, added up; its  *)
(* percentiles bound theirs, and are latencies that occurred.              *)
Adds(V) ==
    /\ result = [total       |-> Sum(Totals, V),
                 successRate |-> result.successRate,
                 latency     |-> result.latency,
                 reverted    |-> Sum(Reverted, V),
                 nonceErrors |-> Sum(NonceErrors, V),
                 rpcErrors   |-> Sum(RpcErrors, V)]
    /\ result.successRate \in Rates(Sum(Successes, V), Sum(Totals, V))
    /\ result.latency \in [Percents -> Latencies \cup {0}]
    /\ \A p \in Percents, w \in V : Percentile(collectors[w].samples, p) <= result.latency[p]

AggregateInv ==
    /\ Adds(Visited)
    /\ command = "controller run" => weighted = 100 * Sum(Successes, Visited)
    /\ command = "run" => pending = {}

(* No assertion is evaluated before the Result is complete, and the        *)
(* verdicts are about that Result.                                         *)
VerdictInv ==
    /\ passed # <<>> \/ exit # "none" => pending = {}
    /\ \A k \in DOMAIN passed :
         passed[k] = Compare(MetricValue(assertions[k]), assertions[k].op, assertions[k].threshold)
    /\ exit = "ok" => Len(passed) = Len(assertions) /\ \A k \in DOMAIN passed : passed[k]

ReportInv == ReportTypeOK /\ AggregateInv /\ VerdictInv

LEMMA CollectorsTyped ==
    ASSUME ReportTypeOK, NEW w \in Cohort
    PROVE  /\ collectors[w] \in CollectorType
           /\ Totals[w] \in Nat /\ Successes[w] \in Nat /\ Reverted[w] \in Nat
           /\ NonceErrors[w] \in Nat /\ RpcErrors[w] \in Nat
           /\ Totals[w] = 0 => Successes[w] = 0
<1>1. collectors[w] \in CollectorType
  BY ReportAssumption DEF ReportTypeOK, CollectorType
<1> QED
  BY <1>1 DEF CollectorType, Totals, Successes, Reverted, NonceErrors, RpcErrors, Total

LEMMA AssertionsTyped ==
    ASSUME assertions \in Assertions
    PROVE  assertions \in Seq(AssertionType) /\ Len(assertions) \in Nat
<1>1. Assertions \subseteq Seq(AssertionType)
  BY Zenon, ReportAssumption DEF AssertionType
<1>2. assertions \in Seq(AssertionType)
  BY <1>1
<1> QED
  BY <1>2

LEMMA SumsTyped ==
    ASSUME ReportTypeOK, NEW V \in SUBSET Cohort
    PROVE  /\ IsFiniteSet(V)
           /\ Sum(Totals, V) \in Nat /\ Sum(Successes, V) \in Nat /\ Sum(Reverted, V) \in Nat
           /\ Sum(NonceErrors, V) \in Nat /\ Sum(RpcErrors, V) \in Nat
<1>1. IsFiniteSet(V)
  BY FS_Subset DEF ReportTypeOK
<1>2. \A w \in V : /\ Totals[w] \in Nat /\ Successes[w] \in Nat /\ Reverted[w] \in Nat
                   /\ NonceErrors[w] \in Nat /\ RpcErrors[w] \in Nat
  BY CollectorsTyped
<1> QED
  BY <1>1, <1>2, SumType

(* One worker more. *)
LEMMA SumsStep ==
    ASSUME ReportTypeOK, NEW V \in SUBSET Cohort, NEW w \in Cohort \ V
    PROVE  /\ Sum(Totals, V \cup {w}) = Sum(Totals, V) + Totals[w]
           /\ Sum(Successes, V \cup {w}) = Sum(Successes, V) + Successes[w]
           /\ Sum(Reverted, V \cup {w}) = Sum(Reverted, V) + Reverted[w]
           /\ Sum(NonceErrors, V \cup {w}) = Sum(NonceErrors, V) + NonceErrors[w]
           /\ Sum(RpcErrors, V \cup {w}) = Sum(RpcErrors, V) + RpcErrors[w]
<1> DEFINE U == V \cup {w}
<1>1. U \in SUBSET Cohort /\ w \in U /\ U \ {w} = V
  OBVIOUS
<1>2. IsFiniteSet(U)
  BY <1>1, SumsTyped
<1>3. \A x \in U : /\ Totals[x] \in Nat /\ Successes[x] \in Nat /\ Reverted[x] \in Nat
                   /\ NonceErrors[x] \in Nat /\ RpcErrors[x] \in Nat
  BY <1>1, CollectorsTyped
<1> HIDE DEF U
<1>4. /\ Sum(Totals, U) = Totals[w] + Sum(Totals, V)
      /\ Sum(Successes, U) = Successes[w] + Sum(Successes, V)
      /\ Sum(Reverted, U) = Reverted[w] + Sum(Reverted, V)
      /\ Sum(NonceErrors, U) = NonceErrors[w] + Sum(NonceErrors, V)
      /\ Sum(RpcErrors, U) = RpcErrors[w] + Sum(RpcErrors, V)
  BY <1>1, <1>2, <1>3, SumStep
<1> QED
  BY <1>1, <1>3, <1>4, SumsTyped DEF U

LEMMA MaxOfTwo ==
    ASSUME NEW a \in Nat, NEW b \in Nat
    PROVE  Max({a, b}) \in {a, b} /\ a <= Max({a, b}) /\ b <= Max({a, b})
<1>1. \E m \in {a, b} : \A k \in {a, b} : m >= k
  OBVIOUS
<1> QED
  BY <1>1 DEF Max

(* The same Result for whoever sees the same collectors. *)
LEMMA SnapshotShape ==
    ASSUME ReportTypeOK, NEW w \in Cohort, NEW side \in Sides
    PROVE  LET r == Snapshot(collectors[w], side)
           IN  /\ r = [total |-> Totals[w], successRate |-> RateOf(Successes[w], Totals[w], side),
                       latency |-> r.latency, reverted |-> Reverted[w],
                       nonceErrors |-> NonceErrors[w], rpcErrors |-> RpcErrors[w]]
               /\ r.latency \in [Percents -> Latencies \cup {0}]
               /\ \A p \in Percents : r.latency[p] \in Nat /\ r.latency[p] = Percentile(collectors[w].samples, p)
<1> DEFINE c == collectors[w]
           r == Snapshot(c, side)
<1>1. c \in CollectorType
  BY CollectorsTyped
<1>2. /\ Totals[w] = Total(c) /\ Successes[w] = c.success /\ Reverted[w] = c.reverted
      /\ NonceErrors[w] = c.nonceErrors /\ RpcErrors[w] = c.rpcErrors
  BY DEF Totals, Successes, Reverted, NonceErrors, RpcErrors
<1>3. r.latency = [p \in Percents |-> Percentile(c.samples, p)]
  BY DEF Snapshot, Percents
<1>4. \A p \in Percents : Percentile(c.samples, p) \in Latencies \cup {0}
  BY <1>1, PercentileIsLeast DEF CollectorType
<1>5. Latencies \subseteq Nat
  BY ReportAssumption
<1>6. r = [total |-> Totals[w], successRate |-> RateOf(Successes[w], Totals[w], side),
           latency |-> r.latency, reverted |-> Reverted[w],
           nonceErrors |-> NonceErrors[w], rpcErrors |-> RpcErrors[w]]
  BY <1>2 DEF Snapshot, RateOf
<1> QED
  BY <1>3, <1>4, <1>5, <1>6

LEMMA ReportInitHolds == Init => ReportInv
<1> SUFFICES ASSUME Init PROVE ReportInv
  OBVIOUS
<1>1. PICK cohort \in Cohorts : collectors \in [cohort -> Collectors]
  BY DEF Init
<1>2. Cohort = cohort /\ IsFiniteSet(Cohort)
  BY <1>1, ReportAssumption DEF Cohort
<1>3. passed = <<>> /\ exit = "none" /\ assertions \in Assertions
  BY Zenon DEF Init
<1>4. ReportTypeOK
  <2>1. pending \subseteq Cohort /\ command \in {"run", "controller run"}
    BY DEF Init
  <2>2. passed \in Seq(BOOLEAN) /\ Len(passed) = 0
    BY <1>3
  <2>3. Len(assertions) \in Nat
    BY <1>3, AssertionsTyped
  <2>4. collectors \in [Cohort -> Collectors]
    BY <1>1, <1>2
  <2>5. Len(passed) <= Len(assertions)
    BY <2>2, <2>3
  <2> QED
    BY <1>2, <1>3, <2>1, <2>2, <2>4, <2>5 DEF ReportTypeOK
<1>5. VerdictInv
  BY <1>3 DEF VerdictInv
<1>6. CASE command = "run"
  <2>1. Cardinality(Cohort) = 1 /\ pending = {}
    BY <1>6 DEF Init
  <2>2. PICK v : Cohort = {v}
    BY <1>2, <2>1, FS_Singleton
  <2>3. PICK w \in Cohort, side \in Sides : result = Snapshot(collectors[w], side)
    BY <1>6 DEF Init
  <2>6. Cohort = {w}
    BY <2>2, <2>3
  <2>4. Adds(Cohort)
    <3>1. /\ w \in Cohort /\ {} \in SUBSET Cohort /\ w \in Cohort \ {} /\ Cohort = {} \cup {w}
          /\ Totals[w] \in Nat /\ Successes[w] \in Nat /\ Reverted[w] \in Nat
          /\ NonceErrors[w] \in Nat /\ RpcErrors[w] \in Nat
      BY <1>4, <2>6, CollectorsTyped
    <3>2. /\ Sum(Totals, Cohort) = Totals[w] /\ Sum(Successes, Cohort) = Successes[w]
          /\ Sum(Reverted, Cohort) = Reverted[w] /\ Sum(NonceErrors, Cohort) = NonceErrors[w]
          /\ Sum(RpcErrors, Cohort) = RpcErrors[w]
      BY <1>4, <3>1, SumsStep, SumOfNone
    <3>3. /\ result = [total |-> Totals[w], successRate |-> result.successRate,
                       latency |-> result.latency, reverted |-> Reverted[w],
                       nonceErrors |-> NonceErrors[w], rpcErrors |-> RpcErrors[w]]
          /\ result.successRate = RateOf(Successes[w], Totals[w], side)
          /\ result.latency \in [Percents -> Latencies \cup {0}]
          /\ \A p \in Percents : result.latency[p] = Percentile(collectors[w].samples, p)
      <4> DEFINE r == Snapshot(collectors[w], side)
      <4>1. /\ r = [total |-> Totals[w], successRate |-> RateOf(Successes[w], Totals[w], side),
                    latency |-> r.latency, reverted |-> Reverted[w],
                    nonceErrors |-> NonceErrors[w], rpcErrors |-> RpcErrors[w]]
            /\ r.latency \in [Percents -> Latencies \cup {0}]
            /\ \A p \in Percents : r.latency[p] = Percentile(collectors[w].samples, p)
        BY <1>4, <3>1, SnapshotShape
      <4>2. result = r
        BY <2>3
      <4> HIDE DEF r
      <4> QED
        BY <4>1, <4>2
    <3>4. \A p \in Percents, x \in Cohort : Percentile(collectors[x].samples, p) <= result.latency[p]
      <4>1. Latencies \subseteq Nat
        BY ReportAssumption
      <4>2. \A p \in Percents : result.latency[p] \in Nat
        BY <3>3, <4>1
      <4> QED
        BY <2>6, <3>3, <4>2
    <3> QED
      BY <3>2, <3>3, <3>4 DEF Adds, Rates
  <2>5. Visited = Cohort
    BY <2>1 DEF Visited
  <2> QED
    BY <1>4, <1>5, <1>6, <2>1, <2>4, <2>5 DEF ReportInv, AggregateInv
<1>7. CASE command # "run"
  <2>1. pending = Cohort /\ result = NoTransactions /\ weighted = 0
    BY <1>7 DEF Init
  <2>2. Visited = {}
    BY <2>1 DEF Visited
  <2>3. \A f : Sum(f, {}) = 0
    BY SumOfNone
  <2>4. Adds({})
    <3>1. /\ result = [total |-> 0, successRate |-> Exact(0, 1), latency |-> result.latency,
                       reverted |-> 0, nonceErrors |-> 0, rpcErrors |-> 0]
          /\ result.successRate = Exact(0, 1) /\ result.latency = [p \in Percents |-> 0]
      BY <2>1 DEF NoTransactions, Percents
    <3>2. Exact(0, 1) \in Rates(0, 0)
      BY DEF Rates, RateOf, Sides
    <3> QED
      BY <2>3, <3>1, <3>2 DEF Adds
  <2>5. weighted = 100 * Sum(Successes, {})
    BY <2>1, <2>3
  <2> QED
    BY <1>4, <1>5, <1>7, <2>1, <2>2, <2>4, <2>5 DEF ReportInv, AggregateInv
<1> QED
  BY <1>6, <1>7

LEMMA CompareIsBoolean ==
    ASSUME NEW v, NEW op \in {"<", "<=", ">", ">=", "=="}, NEW threshold
    PROVE  Compare(v, op, threshold) \in BOOLEAN
<1>1. CASE op = "<"
  BY <1>1 DEF Compare, LessThan, MoreThan
<1>2. CASE op = "<="
  BY <1>2 DEF Compare, LessThan, MoreThan
<1>3. CASE op = ">"
  BY <1>3 DEF Compare, LessThan, MoreThan
<1>4. CASE op = ">="
  BY <1>4 DEF Compare, LessThan, MoreThan
<1>5. CASE op = "=="
  BY <1>5 DEF Compare, LessThan, MoreThan
<1> QED
  BY <1>1, <1>2, <1>3, <1>4, <1>5

LEMMA AggregateKeepsInv ==
    ASSUME ReportInv, NEW w \in pending, AggregateNext(w)
    PROVE  ReportInv'
<1> DEFINE V == Visited
           U == V \cup {w}
<1>1. /\ ReportTypeOK /\ w \in Cohort \ V /\ V \in SUBSET Cohort /\ U \in SUBSET Cohort
      /\ Adds(V)
  BY DEF ReportInv, ReportTypeOK, AggregateInv, Visited
<1>2. PICK side \in Sides :
        LET r == Snapshot(collectors[w], side)
        IN  /\ pending' = pending \ {w}
            /\ UNCHANGED <<collectors, command, assertions, passed, exit>>
            /\ weighted' = weighted + (r.successRate.num * r.total) \div r.successRate.den
            /\ result' = [total       |-> result.total + r.total,
                          successRate |-> IF result.total + r.total = 0 THEN Exact(0, 1)
                                          ELSE Percentage(weighted', result.total + r.total, side),
                          latency     |-> MaxPercentiles(result.latency, r.latency),
                          reverted    |-> result.reverted + r.reverted,
                          nonceErrors |-> result.nonceErrors + r.nonceErrors,
                          rpcErrors   |-> result.rpcErrors + r.rpcErrors]
  BY Zenon DEF AggregateNext
<1> DEFINE r == Snapshot(collectors[w], side)
<1>3. command = "controller run" /\ passed = <<>> /\ exit = "none"
  BY DEF ReportInv, ReportTypeOK, AggregateInv, VerdictInv
<1>4. /\ Cohort' = Cohort /\ Totals' = Totals /\ Successes' = Successes /\ Reverted' = Reverted
      /\ NonceErrors' = NonceErrors /\ RpcErrors' = RpcErrors /\ Visited' = U
  BY <1>1, <1>2 DEF Cohort, Totals, Successes, Reverted, NonceErrors, RpcErrors, Visited
<1>5. /\ r = [total |-> Totals[w], successRate |-> RateOf(Successes[w], Totals[w], side),
              latency |-> r.latency, reverted |-> Reverted[w],
              nonceErrors |-> NonceErrors[w], rpcErrors |-> RpcErrors[w]]
      /\ r.latency \in [Percents -> Latencies \cup {0}]
      /\ \A p \in Percents : r.latency[p] = Percentile(collectors[w].samples, p)
  BY <1>1, SnapshotShape
<1>6. /\ Totals[w] \in Nat /\ Successes[w] \in Nat
      /\ Totals[w] = 0 => Successes[w] = 0
      /\ Sum(Totals, V) \in Nat /\ Sum(Successes, V) \in Nat
      /\ Sum(Totals, U) = Sum(Totals, V) + Totals[w]
      /\ Sum(Successes, U) = Sum(Successes, V) + Successes[w]
      /\ Sum(Reverted, U) = Sum(Reverted, V) + Reverted[w]
      /\ Sum(NonceErrors, U) = Sum(NonceErrors, V) + NonceErrors[w]
      /\ Sum(RpcErrors, U) = Sum(RpcErrors, V) + RpcErrors[w]
  BY <1>1, CollectorsTyped, SumsTyped, SumsStep
<1>7. (r.successRate.num * r.total) \div r.successRate.den = 100 * Successes[w]
  <2>1. CASE Totals[w] = 0
    <3>1. r.successRate = Exact(0, 1) /\ r.total = 0
      BY <1>5, <2>1 DEF RateOf
    <3>2. Successes[w] = 0
      BY <1>6, <2>1
    <3> QED
      BY <3>1, <3>2 DEF Exact
  <2>2. CASE Totals[w] # 0
    <3>1. r.successRate = Percentage(100 * Successes[w], Totals[w], side) /\ r.total = Totals[w]
      BY <1>5, <2>2 DEF RateOf
    <3>2. 100 * Successes[w] \in Nat /\ Totals[w] \in Nat \ {0}
      BY <1>6, <2>2
    <3> QED
      BY <3>1, <3>2, DivExact DEF Percentage
  <2> QED
    BY <2>1, <2>2
<1>8. weighted' = 100 * Sum(Successes, U)
  <2>1. weighted = 100 * Sum(Successes, V)
    BY <1>3 DEF ReportInv, AggregateInv
  <2> QED
    BY <1>2, <1>6, <1>7, <2>1
<1>9. /\ result'.latency \in [Percents -> Latencies \cup {0}]
      /\ \A p \in Percents : /\ result.latency[p] <= result'.latency[p]
                             /\ r.latency[p] <= result'.latency[p]
  <2>1. result.latency \in [Percents -> Latencies \cup {0}] /\ Latencies \subseteq Nat
    BY <1>1, ReportAssumption DEF Adds
  <2>2. result'.latency = [p \in Percents |-> Max({result.latency[p], r.latency[p]})]
    BY <1>2, <2>1 DEF MaxPercentiles
  <2>3. ASSUME NEW p \in Percents
        PROVE  /\ result'.latency[p] \in Latencies \cup {0}
               /\ result.latency[p] <= result'.latency[p] /\ r.latency[p] <= result'.latency[p]
    <3>1. PICK a \in Latencies \cup {0}, b \in Latencies \cup {0} :
            a = result.latency[p] /\ b = r.latency[p]
      BY <1>5, <2>1
    <3>2. a \in Nat /\ b \in Nat /\ result'.latency[p] = Max({a, b})
      <4> HIDE DEF r
      <4>1. a \in Nat /\ b \in Nat
        BY <2>1
      <4>2. result'.latency[p] = Max({result.latency[p], r.latency[p]})
        BY <2>2, Zenon
      <4> QED
        BY <3>1, <4>1, <4>2, Zenon
    <3>3. Max({a, b}) \in {a, b} /\ a <= Max({a, b}) /\ b <= Max({a, b})
      BY <3>2, MaxOfTwo
    <3> QED
      BY <3>1, <3>2, <3>3
  <2> QED
    BY <2>2, <2>3
<1>10. /\ result' = [total       |-> Sum(Totals, U),
                     successRate |-> result'.successRate,
                     latency     |-> result'.latency,
                     reverted    |-> Sum(Reverted, U),
                     nonceErrors |-> Sum(NonceErrors, U),
                     rpcErrors   |-> Sum(RpcErrors, U)]
       /\ result'.successRate = RateOf(Sum(Successes, U), Sum(Totals, U), side)
  <2>1. /\ result.total + r.total = Sum(Totals, U)
        /\ result.reverted + r.reverted = Sum(Reverted, U)
        /\ result.nonceErrors + r.nonceErrors = Sum(NonceErrors, U)
        /\ result.rpcErrors + r.rpcErrors = Sum(RpcErrors, U)
    BY <1>1, <1>5, <1>6 DEF Adds
  <2> QED
    BY <1>2, <1>8, <2>1 DEF RateOf
<1>11. \A p \in Percents, x \in U : Percentile(collectors[x].samples, p) <= result'.latency[p]
  <2>1. /\ \A p \in Percents : /\ result.latency[p] \in Nat /\ result'.latency[p] \in Nat
                               /\ r.latency[p] \in Nat
        /\ \A p \in Percents, x \in V : Percentile(collectors[x].samples, p) <= result.latency[p]
    <3>1. Latencies \subseteq Nat
      BY ReportAssumption
    <3> QED
      BY <1>1, <1>5, <1>9, <3>1 DEF Adds
  <2>2. ASSUME NEW p \in Percents, NEW x \in V
        PROVE  Percentile(collectors[x].samples, p) \in Nat
    <3>1. x \in Cohort
      BY <1>1
    <3> QED
      BY <1>1, <3>1, SnapshotShape
  <2> QED
    BY <1>5, <1>9, <2>1, <2>2
<1>12. AggregateInv'
  <2>1. Adds(Visited)'
    BY <1>2, <1>4, <1>9, <1>10, <1>11 DEF Adds, Rates
  <2> QED
    BY <1>2, <1>3, <1>4, <1>8, <2>1 DEF AggregateInv
<1>13. ReportTypeOK'
  BY <1>1, <1>2, <1>4 DEF ReportTypeOK
<1>14. VerdictInv'
  <2>1. passed' = <<>> /\ exit' = "none" /\ exit' # "ok"
    BY <1>2, <1>3
  <2>2. \A k \in DOMAIN passed' : FALSE
    BY <2>1
  <2> QED
    BY <2>1, <2>2, Zenon DEF VerdictInv
<1> QED
  BY <1>12, <1>13, <1>14 DEF ReportInv

(* What the steps after the aggregation leave alone. *)
LEMMA AggregateStays ==
    ASSUME ReportInv, UNCHANGED <<collectors, command, pending, result, weighted, assertions>>
    PROVE  /\ AggregateInv' /\ Cohort' = Cohort
           /\ \A a : MetricValue(a)' = MetricValue(a)
<1>1. /\ Cohort' = Cohort /\ Totals' = Totals /\ Successes' = Successes /\ Reverted' = Reverted
      /\ NonceErrors' = NonceErrors /\ RpcErrors' = RpcErrors /\ Visited' = Visited
  BY DEF Cohort, Totals, Successes, Reverted, NonceErrors, RpcErrors, Visited
<1>2. AggregateInv'
  BY <1>1 DEF ReportInv, AggregateInv, Adds
<1>3. \A a : MetricValue(a)' = MetricValue(a)
  BY DEF MetricValue
<1> QED
  BY <1>1, <1>2, <1>3

LEMMA ReportStep == ReportInv /\ [Next]_vars => ReportInv'
<1> SUFFICES ASSUME ReportInv, [Next]_vars PROVE ReportInv'
  OBVIOUS
<1>1. /\ ReportTypeOK /\ VerdictInv
      /\ passed \in Seq(BOOLEAN) /\ assertions \in Seq(AssertionType)
  BY AssertionsTyped DEF ReportInv, ReportTypeOK
<1>2. CASE \E w \in pending : AggregateNext(w)
  BY <1>2, AggregateKeepsInv
<1>3. CASE Evaluate
  <2> DEFINE verdict == Compare(MetricValue(ThisAssertion), ThisAssertion.op, ThisAssertion.threshold)
  <2>1. /\ pending = {} /\ exit = "none" /\ Len(passed) < Len(assertions)
        /\ passed' = Append(passed, verdict)
        /\ UNCHANGED <<collectors, command, pending, result, weighted, assertions, exit>>
    BY <1>3 DEF Evaluate, Evaluating
  <2>2. AggregateInv' /\ Cohort' = Cohort /\ \A a : MetricValue(a)' = MetricValue(a)
    BY <2>1, AggregateStays
  <2>3. verdict \in BOOLEAN
    <3>1. ThisAssertion \in AssertionType
      BY <1>1, <2>1 DEF ThisAssertion
    <3> QED
      BY <3>1, CompareIsBoolean DEF AssertionType
  <2>4. ReportTypeOK'
    <3>1. passed' \in Seq(BOOLEAN) /\ Len(passed') <= Len(assertions')
      <4> HIDE DEF verdict
      <4> QED
        BY <1>1, <2>1, <2>3
    <3> QED
      BY <1>1, <2>1, <2>2, <3>1 DEF ReportTypeOK
  <2>5. VerdictInv'
    BY <1>1, <2>1, <2>2, <2>3 DEF VerdictInv, ThisAssertion
  <2> QED
    BY <2>2, <2>4, <2>5 DEF ReportInv
<1>4. CASE EvaluateUnknown
  <2>1. /\ pending = {} /\ exit' = "failed"
        /\ UNCHANGED <<collectors, command, pending, result, weighted, assertions, passed>>
    BY <1>4 DEF EvaluateUnknown, Evaluating
  <2>2. AggregateInv' /\ Cohort' = Cohort /\ \A a : MetricValue(a)' = MetricValue(a)
    BY <2>1, AggregateStays
  <2> QED
    BY <1>1, <2>1, <2>2 DEF ReportInv, ReportTypeOK, VerdictInv
<1>5. CASE Exit
  <2>1. /\ pending = {} /\ Len(passed) = Len(assertions)
        /\ exit' = IF \A k \in DOMAIN passed : passed[k] THEN "ok" ELSE "failed"
        /\ UNCHANGED <<collectors, command, pending, result, weighted, assertions, passed>>
    BY <1>5 DEF Exit
  <2>2. AggregateInv' /\ Cohort' = Cohort /\ \A a : MetricValue(a)' = MetricValue(a)
    BY <2>1, AggregateStays
  <2> QED
    BY <1>1, <2>1, <2>2 DEF ReportInv, ReportTypeOK, VerdictInv
<1>6. CASE UNCHANGED vars
  <2>1. AggregateInv' /\ Cohort' = Cohort /\ \A a : MetricValue(a)' = MetricValue(a)
    BY <1>6, AggregateStays DEF vars
  <2> QED
    BY <1>1, <1>6, <2>1 DEF ReportInv, ReportTypeOK, VerdictInv, vars
<1> QED
  BY <1>2, <1>3, <1>4, <1>5, <1>6 DEF Next

LEMMA ReportInvariant == Spec => []ReportInv
BY ReportInitHolds, ReportStep, PTL DEF Spec

-----------------------------------------------------------------------------
(***************************************************************************)
(* What Merged, a single collector, would have reported.                   *)
(***************************************************************************)
LEMMA MergedIsSum ==
    ASSUME ReportTypeOK
    PROVE  /\ Merged.success = Sum(Successes, Cohort) /\ Merged.reverted = Sum(Reverted, Cohort)
           /\ Merged.nonceErrors = Sum(NonceErrors, Cohort)
           /\ Merged.rpcErrors = Sum(RpcErrors, Cohort)
           /\ Total(Merged) = Sum(Totals, Cohort)
<1> DEFINE Timeouts == [w \in Cohort |-> collectors[w].timeouts]
           two == [w \in Cohort |-> Successes[w] + Reverted[w]]
           three == [w \in Cohort |-> two[w] + NonceErrors[w]]
           four == [w \in Cohort |-> three[w] + RpcErrors[w]]
<1>1. \A f : SumOf(f) = Sum(f, Cohort)
  BY DEF SumOf, Sum
<1>2. /\ Merged.success = Sum(Successes, Cohort) /\ Merged.reverted = Sum(Reverted, Cohort)
      /\ Merged.nonceErrors = Sum(NonceErrors, Cohort)
      /\ Merged.rpcErrors = Sum(RpcErrors, Cohort) /\ Merged.timeouts = Sum(Timeouts, Cohort)
  BY <1>1 DEF Merged, Successes, Reverted, NonceErrors, RpcErrors
<1>3. IsFiniteSet(Cohort)
  BY DEF ReportTypeOK
<1>4. \A w \in Cohort : /\ Successes[w] \in Nat /\ Reverted[w] \in Nat /\ NonceErrors[w] \in Nat
                        /\ RpcErrors[w] \in Nat /\ Timeouts[w] \in Nat
                        /\ Totals[w] = four[w] + Timeouts[w]
  <2>1. \A w \in Cohort : collectors[w] \in CollectorType
    BY CollectorsTyped
  <2> QED
    BY <2>1 DEF CollectorType, Successes, Reverted, NonceErrors, RpcErrors, Totals, Total
<1>5. \A w \in Cohort : two[w] \in Nat /\ three[w] \in Nat /\ four[w] \in Nat
  BY <1>4
<1>6. /\ \A w \in Cohort : two[w] = Successes[w] + Reverted[w]
      /\ \A w \in Cohort : three[w] = two[w] + NonceErrors[w]
      /\ \A w \in Cohort : four[w] = three[w] + RpcErrors[w]
  OBVIOUS
<1> HIDE DEF Timeouts, two, three, four
<1>7. Sum(two, Cohort) = Sum(Successes, Cohort) + Sum(Reverted, Cohort)
  BY <1>3, <1>4, <1>6, SumOfSums
<1>8. Sum(three, Cohort) = Sum(two, Cohort) + Sum(NonceErrors, Cohort)
  BY <1>3, <1>4, <1>5, <1>6, SumOfSums
<1>9. Sum(four, Cohort) = Sum(three, Cohort) + Sum(RpcErrors, Cohort)
  BY <1>3, <1>4, <1>5, <1>6, SumOfSums
<1>10. Sum(Totals, Cohort) = Sum(four, Cohort) + Sum(Timeouts, Cohort)
  BY <1>3, <1>4, <1>5, SumOfSums
<1> QED
  BY <1>2, <1>7, <1>8, <1>9, <1>10 DEF Total

LEMMA MergedSamples ==
    ASSUME ReportTypeOK
    PROVE  /\ Merged.samples \in [Latencies -> Nat]
           /\ Size(Merged.samples) = Sum([w \in Cohort |-> Size(collectors[w].samples)], Cohort)
           /\ \A l \in Nat : AtMost(Merged.samples, l)
                = Sum([w \in Cohort |-> AtMost(collectors[w].samples, l)], Cohort)
<1> DEFINE s == Merged.samples
           of(w) == collectors[w].samples
<1>1. IsFiniteSet(Cohort) /\ IsFiniteSet(Latencies)
  BY ReportAssumption DEF ReportTypeOK
<1>2. \A w \in Cohort : of(w) \in [Latencies -> Nat]
  BY CollectorsTyped DEF CollectorType
<1>3. s = [l \in Latencies |-> Sum([w \in Cohort |-> of(w)[l]], Cohort)]
  BY DEF Merged, SumOf, Sum
<1>4. ASSUME NEW l \in Latencies PROVE Sum([w \in Cohort |-> of(w)[l]], Cohort) \in Nat
  <2>1. \A w \in Cohort : [x \in Cohort |-> of(x)[l]][w] \in Nat
    BY <1>2
  <2> HIDE DEF of
  <2> QED
    BY <1>1, <2>1, SumType
<1>5. s \in [Latencies -> Nat]
  BY <1>3, <1>4
<1>6. Size(s) = Sum([w \in Cohort |-> Size(of(w))], Cohort)
  <2> DEFINE a == [w \in Cohort |-> of(w)]
             rows == [w \in Cohort |-> Size(of(w))]
             column == [x \in Latencies |-> [w \in Cohort |-> of(w)[x]]]
  <2>1. \A w \in Cohort, x \in Latencies : a[w][x] \in Nat /\ column[x][w] = a[w][x]
    BY <1>2
  <2>2. \A w \in Cohort : rows[w] = Sum(a[w], Latencies)
    BY <1>2, SizeType
  <2>3. \A x \in Latencies : s[x] = Sum(column[x], Cohort)
    BY <1>3
  <2> HIDE DEF a, rows, column, s
  <2>4. /\ Transposed(a, column, Cohort, Latencies)
        /\ RowSums(rows, a, Cohort, Latencies) /\ RowSums(s, column, Latencies, Cohort)
    BY <2>1, <2>2, <2>3 DEF Transposed, RowSums
  <2>5. Sum(s, Latencies) = Sum(rows, Cohort)
    BY <1>1, <2>4, SumSwap
  <2> QED
    BY <1>5, <2>5, SizeType DEF rows
<1>7. ASSUME NEW l \in Nat
      PROVE  AtMost(s, l) = Sum([w \in Cohort |-> AtMost(of(w), l)], Cohort)
  <2> DEFINE a == [w \in Cohort |-> Below(of(w), l)]
             rows == [w \in Cohort |-> AtMost(of(w), l)]
             columns == Below(s, l)
             column == [x \in Latencies |-> [w \in Cohort |-> Below(of(w), l)[x]]]
  <2>1. \A w \in Cohort, x \in Latencies : a[w][x] \in Nat /\ column[x][w] = a[w][x]
    BY <1>2 DEF Below
  <2>2. \A w \in Cohort : rows[w] = Sum(a[w], Latencies)
    BY <1>2, AtMostIsSum
  <2>3. ASSUME NEW x \in Latencies
        PROVE  columns[x] = Sum(column[x], Cohort)
    <3>1. CASE x <= l
      <4>1. column[x] = [w \in Cohort |-> of(w)[x]]
        BY <3>1 DEF Below
      <4>2. columns[x] = s[x]
        BY <3>1 DEF Below
      <4> QED
        BY <1>3, <4>1, <4>2
    <3>2. CASE ~(x <= l)
      <4> DEFINE z == column[x]
      <4>1. columns[x] = 0 /\ \A w \in Cohort : z[w] \in Nat /\ z[w] = 0
        BY <3>2 DEF Below
      <4> HIDE DEF z
      <4>2. Sum(z, {}) = Sum(z, Cohort)
        BY <1>1, <4>1, SumWithoutZeros
      <4> QED
        BY <4>1, <4>2, SumOfNone DEF z
    <3> QED
      BY <3>1, <3>2
  <2> HIDE DEF a, rows, columns, column
  <2>4. /\ Transposed(a, column, Cohort, Latencies)
        /\ RowSums(rows, a, Cohort, Latencies) /\ RowSums(columns, column, Latencies, Cohort)
    BY <2>1, <2>2, <2>3 DEF Transposed, RowSums
  <2>5. Sum(columns, Latencies) = Sum(rows, Cohort)
    BY <1>1, <2>4, SumSwap
  <2> QED
    BY <1>5, <2>5, AtMostIsSum DEF rows, columns
<1> QED
  BY <1>5, <1>6, <1>7

(* A latency that bounds the p-th percentile of every worker bounds that   *)
(* of all samples: p percent of a sum are the sum of p percent.            *)
LEMMA BoundCarriesOver ==
    ASSUME ReportTypeOK, NEW p \in Percents, NEW m \in Latencies \cup {0},
           \A w \in Cohort : Percentile(collectors[w].samples, p) <= m,
           Size(Merged.samples) # 0
    PROVE  /\ m \in Latencies
           /\ 100 * AtMost(Merged.samples, m) > Size(Merged.samples) * p
<1> DEFINE of(w) == collectors[w].samples
           size == [w \in Cohort |-> Size(of(w))]
           below == [w \in Cohort |-> AtMost(of(w), m)]
           share == [w \in Cohort |-> p * size[w]]
           covered == [w \in Cohort |-> 100 * below[w]]
<1>1. IsFiniteSet(Cohort) /\ Latencies \subseteq Nat \ {0} /\ m \in Nat /\ p \in Nat
  <2>1. Latencies \subseteq Nat \ {0}
    BY ReportAssumption
  <2>2. m \in Nat
    BY <2>1
  <2>3. IsFiniteSet(Cohort)
    BY Zenon DEF ReportTypeOK
  <2>4. p \in Nat
    BY DEF Percents
  <2> QED
    BY <2>1, <2>2, <2>3, <2>4
<1>2. \A w \in Cohort : of(w) \in [Latencies -> Nat]
  BY CollectorsTyped DEF CollectorType
<1>3. \A w \in Cohort : size[w] \in Nat /\ below[w] \in Nat
  BY <1>1, <1>2, SizeType, AtMostIsSum
<1>4. Size(Merged.samples) = Sum(size, Cohort) /\ AtMost(Merged.samples, m) = Sum(below, Cohort)
  BY <1>1, MergedSamples
<1>5. ASSUME NEW w \in Cohort, size[w] # 0 PROVE m \in Latencies /\ covered[w] > share[w]
  <2>1. PICK P \in Latencies : /\ P = Percentile(of(w), p)
                              /\ 100 * AtMost(of(w), P) > Size(of(w)) * p
    BY <1>2, <1>5, PercentileIsLeast
  <2>2. P \in Nat /\ P # 0 /\ P <= m
    BY <1>1, <2>1
  <2>3. AtMost(of(w), P) \in Nat /\ AtMost(of(w), P) <= below[w]
    BY <1>1, <1>2, <2>2, AtMostIsSum, AtMostGrows
  <2>4. m \in Latencies
    BY <1>1, <2>2
  <2>5. size[w] * p = p * size[w]
    BY <1>1, <1>3
  <2> QED
    BY <1>1, <1>3, <2>1, <2>3, <2>4, <2>5
<1>6. \A w \in Cohort : covered[w] \in Nat /\ share[w] \in Nat /\ share[w] <= covered[w]
  <2>1. ASSUME NEW w \in Cohort PROVE covered[w] \in Nat /\ share[w] \in Nat
    BY <1>1, <1>3
  <2>2. ASSUME NEW w \in Cohort, size[w] = 0 PROVE share[w] = 0
    BY <1>1, <2>2
  <2> QED
    BY <1>5, <2>1, <2>2
<1>7. /\ \A w \in Cohort : covered[w] = 100 * below[w]
      /\ \A w \in Cohort : share[w] = p * size[w]
  OBVIOUS
<1>8. Sum(size, Cohort) # 0
  BY <1>4
<1> HIDE DEF size, below, share, covered
<1>9. PICK y \in Cohort : size[y] # 0
  <2>1. SUFFICES ASSUME \A w \in Cohort : size[w] = 0 PROVE FALSE
    OBVIOUS
  <2>2. Sum(size, {}) = Sum(size, Cohort)
    BY <1>1, <1>3, <2>1, SumWithoutZeros
  <2> QED
    BY <1>8, <2>2, SumOfNone
<1>10. Sum(share, Cohort) < Sum(covered, Cohort)
  BY <1>1, <1>5, <1>6, <1>9, SumStrict
<1>11. Sum(share, Cohort) = p * Sum(size, Cohort) /\ Sum(covered, Cohort) = 100 * Sum(below, Cohort)
  BY <1>1, <1>3, <1>7, SumScaled
<1>12. Sum(size, Cohort) \in Nat /\ Sum(below, Cohort) \in Nat
  BY <1>1, <1>3, SumType
<1>13. p * Sum(size, Cohort) = Sum(size, Cohort) * p
  BY <1>1, <1>12
<1> QED
  BY <1>4, <1>5, <1>9, <1>10, <1>11, <1>12, <1>13

(* Every worker visited, the Result is that of one collector, but for the  *)
(* percentiles, which bound its own.                                       *)
LEMMA ConservativeWhenComplete == ReportInv => AggregateIsConservative
<1> DEFINE exact == Snapshot(Merged, 0)
<1>1. SUFFICES ASSUME ReportInv, pending = {}
               PROVE  /\ result.total = exact.total /\ result.reverted = exact.reverted
                      /\ result.nonceErrors = exact.nonceErrors
                      /\ result.rpcErrors = exact.rpcErrors
                      /\ result.successRate.num * exact.successRate.den
                            = exact.successRate.num * result.successRate.den
                      /\ \A p \in {50, 95, 99} : result.latency[p] >= exact.latency[p]
  BY Zenon DEF AggregateIsConservative
<1>2. ReportTypeOK /\ Adds(Cohort)
  <2>1. Visited = Cohort
    BY <1>1 DEF Visited
  <2> QED
    BY <1>1, <2>1 DEF ReportInv, AggregateInv
<1>3. exact = [total       |-> Sum(Totals, Cohort),
               successRate |-> RateOf(Sum(Successes, Cohort), Sum(Totals, Cohort), 0),
               latency     |-> [p \in {50, 95, 99} |-> Percentile(Merged.samples, p)],
               reverted    |-> Sum(Reverted, Cohort),
               nonceErrors |-> Sum(NonceErrors, Cohort),
               rpcErrors   |-> Sum(RpcErrors, Cohort)]
  BY <1>2, MergedIsSum, Zenon DEF Snapshot, RateOf
<1>4. /\ result = [total       |-> Sum(Totals, Cohort),
                   successRate |-> result.successRate,
                   latency     |-> result.latency,
                   reverted    |-> Sum(Reverted, Cohort),
                   nonceErrors |-> Sum(NonceErrors, Cohort),
                   rpcErrors   |-> Sum(RpcErrors, Cohort)]
      /\ result.successRate \in Rates(Sum(Successes, Cohort), Sum(Totals, Cohort))
  BY <1>2 DEF Adds
<1> HIDE DEF exact
<1>5. /\ result.total = exact.total /\ result.reverted = exact.reverted
      /\ result.nonceErrors = exact.nonceErrors /\ result.rpcErrors = exact.rpcErrors
  BY <1>3, <1>4
<1>7. result.successRate.num * exact.successRate.den
        = exact.successRate.num * result.successRate.den
  <2>1. PICK s \in Nat, t \in Nat : s = Sum(Successes, Cohort) /\ t = Sum(Totals, Cohort)
    BY <1>2, SumsTyped
  <2>2. PICK side \in Sides : result.successRate = RateOf(s, t, side)
    BY <1>4, <2>1 DEF Rates
  <2>3. exact.successRate = RateOf(s, t, 0)
    BY <1>3, <2>1
  <2>4. RateOf(s, t, side).num = RateOf(s, t, 0).num /\ RateOf(s, t, side).den = RateOf(s, t, 0).den
    BY DEF RateOf, Exact, Percentage
  <2> QED
    BY <2>2, <2>3, <2>4
<1>6. ASSUME NEW p \in {50, 95, 99} PROVE result.latency[p] >= exact.latency[p]
  <2>1. exact.latency[p] = Percentile(Merged.samples, p) /\ p \in Percents
    BY <1>3 DEF Percents
  <2>2. PICK m \in Latencies \cup {0} : m = result.latency[p]
    BY <1>2, <2>1 DEF Adds
  <2>3. \A w \in Cohort : Percentile(collectors[w].samples, p) <= m
    BY <1>2, <2>1, <2>2 DEF Adds
  <2>4. Latencies \subseteq Nat
    BY ReportAssumption
  <2>5. Merged.samples \in [Latencies -> Nat]
    BY <1>2, MergedSamples
  <2>6. CASE Size(Merged.samples) = 0
    BY <2>1, <2>2, <2>4, <2>5, <2>6, PercentileIsLeast
  <2>7. CASE Size(Merged.samples) # 0
    <3>1. m \in Latencies /\ 100 * AtMost(Merged.samples, m) > Size(Merged.samples) * p
      BY <1>2, <2>1, <2>3, <2>7, BoundCarriesOver
    <3>2. Percentile(Merged.samples, p) \in Latencies /\ Percentile(Merged.samples, p) <= m
      BY <2>1, <2>5, <2>7, <3>1, PercentileIsLeast
    <3> QED
      BY <2>1, <2>2, <2>4, <3>1, <3>2
  <2> QED
    BY <2>6, <2>7
<1> QED
  BY <1>5, <1>6, <1>7

(* "Counts sum exactly ... takes the max p50/p95/p99 across workers as a   *)
(* conservative (pessimistic) approximation" (controller.go:146-152), for  *)
(* any number of workers, whatever they recorded, in any order.            *)
THEOREM AggregationIsConservative == Spec => []AggregateIsConservative
BY ReportInvariant, ConservativeWhenComplete, PTL

Operators == {"<", "<=", ">", ">=", "=="}

Value == [num : Nat, den : Nat, side : Sides]

(* What a verdict says of the fraction compared, however it was rounded. *)
LEMMA VerdictMeans ==
    ASSUME NEW v \in Value, NEW op \in Operators, NEW threshold \in Nat,
           Compare(v, op, threshold) = TRUE
    PROVE  /\ op = "<" /\ v.side = 0 => v.num < threshold * v.den
           /\ op = "<=" => v.num <= threshold * v.den
           /\ op \in {">", ">="} => v.num >= threshold * v.den
           /\ op = "==" => v.num = threshold * v.den
<1>1. PICK num \in Nat, bar \in Nat : num = v.num /\ bar = threshold * v.den
  BY DEF Value
<1>2. /\ LessThan(v, threshold) <=> (num < bar \/ (num = bar /\ v.side = -1))
      /\ MoreThan(v, threshold) <=> (num > bar \/ (num = bar /\ v.side = 1))
  BY <1>1 DEF LessThan, MoreThan
<1>3. CASE op = "<"
  BY <1>1, <1>2, <1>3 DEF Compare
<1>4. CASE op = "<="
  BY <1>1, <1>2, <1>4 DEF Compare
<1>5. CASE op = ">"
  BY <1>1, <1>2, <1>5 DEF Compare
<1>6. CASE op = ">="
  BY <1>1, <1>2, <1>6 DEF Compare
<1>7. CASE op = "=="
  BY <1>1, <1>2, <1>7 DEF Compare
<1> QED
  BY <1>3, <1>4, <1>5, <1>6, <1>7 DEF Operators

LEMMA ExactVerdictMeans ==
    ASSUME NEW num \in Nat, NEW den \in Nat, NEW op \in Operators, NEW threshold \in Nat,
           Compare(Exact(num, den), op, threshold) = TRUE
    PROVE  /\ op = "<" => num < threshold * den
           /\ op = "<=" => num <= threshold * den
           /\ op = "==" => num = threshold * den
<1>1. PICK v \in Value : v = Exact(num, den) /\ v.num = num /\ v.den = den /\ v.side = 0
  BY DEF Exact, Value, Sides
<1>2. Compare(v, op, threshold) = TRUE
  BY <1>1
<1> QED
  BY <1>1, <1>2, VerdictMeans

(* What an upper bound on a percentile says about the latency, which       *)
(* Milliseconds cuts to a whole number before it is compared.              *)
LEMMA BoundOfLatency ==
    ASSUME NEW m \in Nat, NEW a \in AssertionType, a.op \in {"<", "<="},
           Compare(DurationInUnit(m, a.unit), a.op, a.threshold) = TRUE
    PROVE  Limit(a) \in Nat /\ m <= Limit(a)
<1>1. PICK threshold \in Nat : threshold = a.threshold
  BY DEF AssertionType
<1>2. CASE a.unit = "s"
  <2>1. PICK den \in Nat : den = 10000
    OBVIOUS
  <2>2. DurationInUnit(m, a.unit) = Exact(m, den)
    BY <1>2, <2>1 DEF DurationInUnit
  <2>3. Compare(Exact(m, den), a.op, threshold) = TRUE
    BY <1>1, <2>2
  <2>4. /\ a.op = "<" => m < threshold * den
        /\ a.op = "<=" => m <= threshold * den
    BY <2>3, ExactVerdictMeans DEF Operators
  <2> QED
    BY <1>1, <1>2, <2>1, <2>4 DEF Limit
<1>3. CASE a.unit # "s"
  <2>1. DurationInUnit(m, a.unit) = Exact(m \div 10, 1)
    BY <1>3 DEF DurationInUnit
  <2>2. PICK q \in Nat : q = m \div 10 /\ 10 * q <= m /\ m <= 10 * q + 9
    BY SMT
  <2>3. Compare(Exact(q, 1), a.op, threshold) = TRUE
    BY <1>1, <2>1, <2>2
  <2>4. /\ a.op = "<" => q < threshold * 1
        /\ a.op = "<=" => q <= threshold * 1
    BY <2>3, ExactVerdictMeans DEF Operators
  <2> QED
    BY <1>1, <1>3, <2>2, <2>4 DEF Limit
<1> QED
  BY <1>2, <1>3

LEMMA BoundsWhenPassed == ReportInv => PassedBoundsHold
<1> SUFFICES ASSUME ReportInv, exit = "ok", NEW k \in DOMAIN assertions
             PROVE  LET a == assertions[k]
                    IN  /\ (/\ a.metric \in {"rpc_p50", "rpc_p95", "rpc_p99"}
                            /\ a.op \in {"<", "<="}
                            /\ Size(Merged.samples) > 0)
                             => AtMost(Merged.samples, Limit(a)) * 100
                                  > PercentileOf(a.metric) * Size(Merged.samples)
                        /\ (a.metric = "nonce_errors" /\ a.op = "==")
                             => Merged.nonceErrors = a.threshold
                        /\ (a.metric = "transaction_success_rate" /\ a.op \in {">", ">="})
                             => Merged.success * 100 >= a.threshold * Total(Merged)
  BY Zenon DEF PassedBoundsHold
<1> DEFINE a == assertions[k]
           limit == Limit(a)
<1>1. /\ ReportTypeOK /\ VerdictInv /\ pending = {}
  BY DEF ReportInv, VerdictInv
<1>2. Adds(Cohort)
  <2>1. Visited = Cohort
    BY <1>1 DEF Visited
  <2> QED
    BY <2>1 DEF ReportInv, AggregateInv
<1>3. a \in AssertionType /\ k \in DOMAIN passed
  <2>1. assertions \in Seq(AssertionType)
    BY <1>1, AssertionsTyped DEF ReportTypeOK
  <2>2. passed \in Seq(BOOLEAN) /\ Len(passed) = Len(assertions)
    BY <1>1 DEF ReportTypeOK, VerdictInv
  <2> QED
    BY <2>1, <2>2
<1>4. Compare(MetricValue(a), a.op, a.threshold) = TRUE
  <2>1. passed[k] = Compare(MetricValue(a), a.op, a.threshold)
    BY <1>1, <1>3, Zenon DEF VerdictInv
  <2>2. passed[k] = TRUE
    <3>1. passed \in Seq(BOOLEAN) /\ passed[k]
      BY <1>1, <1>3 DEF ReportTypeOK, VerdictInv
    <3> QED
      BY <1>3, <3>1
  <2> QED
    BY <2>1, <2>2, Zenon
<1>5. a.threshold \in Nat /\ a.unit \in {"", "%", "ms", "s"}
  BY <1>3 DEF AssertionType
<1> HIDE DEF a
<1>6. ASSUME a.metric \in {"rpc_p50", "rpc_p95", "rpc_p99"}, a.op \in {"<", "<="},
             Size(Merged.samples) > 0
      PROVE  AtMost(Merged.samples, limit) * 100 > PercentileOf(a.metric) * Size(Merged.samples)
  <2>1. PICK p \in Percents : /\ p = PercentileOf(a.metric)
                             /\ MetricValue(a) = DurationInUnit(result.latency[p], a.unit)
    BY <1>6 DEF Percents, PercentileOf, MetricValue
  <2>2. PICK m \in Latencies \cup {0} : m = result.latency[p]
    BY <1>2 DEF Adds
  <2>3. \A w \in Cohort : Percentile(collectors[w].samples, p) <= m
    BY <1>2, <2>2 DEF Adds
  <2>4. Latencies \subseteq Nat
    BY ReportAssumption
  <2>5. Merged.samples \in [Latencies -> Nat] /\ Size(Merged.samples) \in Nat
    BY <1>1, MergedSamples, SizeType
  <2>6. 100 * AtMost(Merged.samples, m) > Size(Merged.samples) * p
    BY <1>1, <1>6, <2>3, <2>5, BoundCarriesOver
  <2>7. m \in Nat
    BY <2>4
  <2>8. limit \in Nat /\ m <= limit
    <3>1. Compare(DurationInUnit(m, a.unit), a.op, a.threshold) = TRUE
      BY <1>4, <2>1, <2>2, Zenon
    <3> QED
      BY <1>3, <1>6, <2>7, <3>1, BoundOfLatency
  <2>9. /\ AtMost(Merged.samples, m) <= AtMost(Merged.samples, limit)
        /\ AtMost(Merged.samples, m) \in Nat /\ AtMost(Merged.samples, limit) \in Nat
    BY <2>5, <2>7, <2>8, AtMostGrows, AtMostIsSum
  <2>10. p \in Nat /\ Size(Merged.samples) \in Nat /\ Size(Merged.samples) * p = p * Size(Merged.samples)
    BY <2>5 DEF Percents
  <2> QED
    BY <2>1, <2>6, <2>9, <2>10
<1>7. ASSUME a.metric = "nonce_errors", a.op = "==" PROVE Merged.nonceErrors = a.threshold
  <2>1. MetricValue(a) = Exact(result.nonceErrors, 1)
    BY <1>7 DEF MetricValue
  <2>2. result.nonceErrors = Merged.nonceErrors
    BY <1>1, <1>2, MergedIsSum DEF Adds
  <2>3. PICK n \in Nat, threshold \in Nat : n = Merged.nonceErrors /\ threshold = a.threshold
    BY <1>1, <1>5, MergedIsSum, SumsTyped
  <2>4. Compare(Exact(n, 1), "==", threshold) = TRUE
    BY <1>4, <1>7, <2>1, <2>2, <2>3
  <2>5. n = threshold * 1
    BY <2>4, ExactVerdictMeans DEF Operators
  <2> QED
    BY <2>3, <2>5
<1>8. ASSUME a.metric = "transaction_success_rate", a.op \in {">", ">="}
      PROVE  Merged.success * 100 >= a.threshold * Total(Merged)
  <2>1. PICK s \in Nat, t \in Nat : /\ s = Sum(Successes, Cohort) /\ s = Merged.success
                                   /\ t = Sum(Totals, Cohort) /\ t = Total(Merged)
    BY <1>1, MergedIsSum, SumsTyped
  <2>2. PICK threshold \in Nat : threshold = a.threshold
    BY <1>5
  <2>3. PICK side \in Sides : MetricValue(a) = RateOf(s, t, side)
    BY <1>2, <1>8, <2>1 DEF MetricValue, Adds, Rates
  <2>4. Compare(RateOf(s, t, side), a.op, threshold) = TRUE
    BY <1>4, <2>2, <2>3
  <2>5. CASE t = 0
    BY <2>1, <2>2, <2>5
  <2>6. CASE t # 0
    <3>1. PICK n \in Nat : n = 100 * s
      OBVIOUS
    <3>2. PICK v \in Value : v = RateOf(s, t, side) /\ v.num = n /\ v.den = t
      <4>1. PICK at \in Sides : at = IF n \in {0, 100 * t} THEN 0 ELSE side
        BY DEF Sides
      <4>2. RateOf(s, t, side) = [num |-> n, den |-> t, side |-> at]
        BY <2>6, <3>1, <4>1 DEF RateOf, Percentage
      <4> QED
        BY <4>2 DEF Value
    <3>3. n >= threshold * t
      BY <1>8, <2>4, <3>2, VerdictMeans DEF Operators
    <3> QED
      BY <2>1, <2>2, <3>1, <3>3
  <2> QED
    BY <2>5, <2>6
<1> QED
  BY <1>6, <1>7, <1>8 DEF a

(* A command that exits with status 0 vouches for its upper bounds on      *)
(* percentiles, for its nonce errors and its success rate (assert.go,      *)
(* cmd_run.go), whatever was recorded.                                     *)
THEOREM ExitVouchesForBounds == Spec => []PassedBoundsHold
BY ReportInvariant, BoundsWhenPassed, PTL
=============================================================================
