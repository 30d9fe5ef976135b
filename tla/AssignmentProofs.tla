-------------------------- MODULE AssignmentProofs --------------------------
(***************************************************************************)
(* The invariants of Assignment: what a worker is sent, for loads with     *)
(* targets up to any bound, any keystore and any number of workers.        *)
(***************************************************************************)
EXTENDS Assignment, ShardingProofs, SequenceTheorems

Phases == {"read", "valid", "rejected", "sharded", "assigned", "runs", "refused"}

AssignInv ==
    /\ load \in Loads
    /\ total \in Nat /\ count \in Nat \ {0} /\ index \in Nat
    /\ phase \in Phases
    /\ phase \notin {"read", "rejected"} => Valid(load)
    /\ phase \in {"sharded", "assigned", "refused"} => shard = Shard(load, index, count)
    /\ phase = "refused" => ~Valid(shard)
    /\ i \in 0 .. index /\ start = ClosedStart(total, i, count)
    /\ phase = "assigned" => slice = ShardWallets(total, index, count)

LEMMA InitHolds == Init => AssignInv
<1> SUFFICES ASSUME Init PROVE AssignInv
  OBVIOUS
<1>1. /\ load \in Loads /\ total \in Nat /\ count \in Nat \ {0} /\ index \in Nat
      /\ phase = "read" /\ i = 0 /\ start = 0
  BY AssignmentAssumption DEF Init
<1>2. start = ClosedStart(total, i, count)
  BY <1>1, ClosedStep
<1>3. QED
  BY <1>1, <1>2 DEF AssignInv, Phases

LEMMA NextKeepsInv == AssignInv /\ [Next]_vars => AssignInv'
<1> SUFFICES ASSUME AssignInv, [Next]_vars PROVE AssignInv'
  OBVIOUS
<1>1. CASE Parse \/ DivideLoad \/ Reparse \/ UNCHANGED vars
  BY <1>1 DEF Parse, DivideLoad, Reparse, vars, given, AssignInv, Phases
<1>2. CASE AddChunk
  <2>1. /\ i \in Nat /\ i + 1 \in 0 .. index
        /\ start' = start + ChunkSize(total, i, count) /\ i' = i + 1
        /\ UNCHANGED <<load, total, count, index, phase, shard, slice>>
    BY <1>2 DEF AddChunk, given, AssignInv
  <2>2. start' = ClosedStart(total, i + 1, count)
    BY <2>1, ClosedStep DEF AssignInv
  <2>3. QED
    BY <2>1, <2>2 DEF AssignInv
<1>3. CASE ReturnAll \/ ReturnSlice
  <2>1. /\ phase = "sharded" /\ phase' = "assigned"
        /\ UNCHANGED <<load, total, count, index, shard, i, start>>
    BY <1>3 DEF ReturnAll, ReturnSlice, given
  <2>2. slice' = ShardWallets(total, index, count)
    <3>1. CASE ReturnAll
      BY <3>1 DEF ReturnAll, ShardWallets
    <3>2. CASE ReturnSlice
      <4>1. start = ShardStart(total, index, count)
        BY <3>2, StartIsClosed DEF ReturnSlice, AssignInv
      <4>2. count > 1 /\ slice' = SliceFrom(total, index, count, start)
        BY <3>2 DEF ReturnSlice
      <4>3. ~(count <= 1)
        BY <4>2 DEF AssignInv
      <4>4. QED
        BY <4>1, <4>2, <4>3 DEF ShardWallets
    <3>3. QED
      BY <1>3, <3>1, <3>2
  <2>3. QED
    BY <2>1, <2>2 DEF AssignInv, Phases
<1>4. QED
  BY <1>1, <1>2, <1>3 DEF Next

(* The inductive invariant. *)
THEOREM Invariance == Spec => []AssignInv
BY InitHolds, NextKeepsInv, PTL DEF Spec

(* What the loop of ShardWallets has skipped, and that it does not run past *)
(* the keystore (wallet/shard.go:14-18).                                    *)
THEOREM LoopClosedForm == Spec => []LoopSkipsChunks
<1>1. AssignInv => LoopSkipsChunks
  <2> SUFFICES ASSUME AssignInv, count > 1, i <= count
               PROVE  start = ClosedStart(total, i, count) /\ start <= total
    BY DEF LoopSkipsChunks, ClosedStart
  <2>1. start = ClosedStart(total, i, count) /\ i \in 0 .. count /\ i \in Nat
    BY DEF AssignInv
  <2>2. start = ShardStart(total, i, count)
    BY <2>1, StartIsClosed DEF AssignInv
  <2>3. start \in 0 .. total
    BY <2>1, <2>2, StartsWithin DEF AssignInv
  <2>4. QED
    BY <2>1, <2>3 DEF AssignInv
<1>2. QED
  BY <1>1, Invariance, PTL

(* The slices of a run are disjoint, those of its cohort cover the keystore *)
(* and differ in size by a wallet at most, the earlier ones being the       *)
(* larger (wallet/shard.go:3-8).                                            *)
THEOREM Partition == Spec => []SlicesPartition
<1>1. AssignInv => SlicesPartition
  <2> SUFFICES ASSUME AssignInv, phase = "assigned"
               PROVE
        /\ count > 1 =>
             \A other \in 0 .. MaxWorkers :
                other # index => slice \cap ShardWallets(total, other, count) = {}
        /\ index < count =>
             UNION {ShardWallets(total, k, count) : k \in 0 .. count - 1} = 0 .. total - 1
        /\ (count > 1 /\ index < count) =>
             \A k \in index .. count - 1 :
                Cardinality(slice) - Cardinality(ShardWallets(total, k, count)) \in {0, 1}
    BY DEF SlicesPartition
  <2>1. /\ slice = ShardWallets(total, index, count)
        /\ total \in Nat /\ count \in Nat \ {0} /\ index \in Nat
    BY DEF AssignInv
  <2>2. ASSUME count > 1, NEW other \in 0 .. MaxWorkers, other # index
        PROVE  slice \cap ShardWallets(total, other, count) = {}
    BY <2>1, <2>2, ShardsDisjoint, AssignmentAssumption
  <2>3. UNION {ShardWallets(total, k, count) : k \in 0 .. count - 1} = 0 .. total - 1
    BY <2>1, ShardsCover
  <2>4. ASSUME count > 1, index < count, NEW k \in index .. count - 1
        PROVE  Cardinality(slice) - Cardinality(ShardWallets(total, k, count)) \in {0, 1}
    <3>1. k \in 0 .. count - 1 /\ index \in 0 .. count - 1 /\ index <= k
      BY <2>1, <2>4
    <3>2. /\ Cardinality(slice) = ChunkSize(total, index, count)
          /\ Cardinality(ShardWallets(total, k, count)) = ChunkSize(total, k, count)
      BY <2>1, <2>4, <3>1, ShardIsSlice
    <3>3. total \div count \in Nat /\ total % count \in Nat
      BY <2>1, ChunkTypes
    <3>4. QED
      BY <3>1, <3>2, <3>3 DEF ChunkSize
  <2>5. QED
    BY <2>2, <2>3, <2>4
<1>2. QED
  BY <1>1, Invariance, PTL
-----------------------------------------------------------------------------
(* The plateaus of a stress load that lie below max are the first m ones.  *)
Plateaus(from, step, max) == {k \in 0 .. max - from : from + k * step < max}

LEMMA FirstPlateaus ==
    ASSUME NEW from \in Int, NEW step \in Nat \ {0}, NEW max \in Int, max > from
    PROVE  \E m \in Nat \ {0} :
             /\ Plateaus(from, step, max) = 0 .. m - 1
             /\ Cardinality(Plateaus(from, step, max)) = m
             /\ from + (m - 1) * step < max
             /\ max <= from + m * step
<1> DEFINE T == {k \in Nat : max <= from + k * step}
<1>1. T \subseteq Nat /\ max - from \in T
  <2>1. PICK d \in Nat \ {0}, e \in Nat : d = max - from /\ step = 1 + e
    <3>1. max - from \in Nat \ {0} /\ step - 1 \in Nat /\ step = 1 + (step - 1)
      OBVIOUS
    <3>2. QED
      BY <3>1
  <2>2. d * step = d + d * e /\ d * e \in Nat
    BY <2>1
  <2>3. QED
    BY <2>1, <2>2
<1> HIDE DEF T
<1>2. PICK m \in T : \A k \in T : m <= k
  BY <1>1, SmallestNat
<1>3. m \in Nat /\ max <= from + m * step /\ m <= max - from
  BY <1>1, <1>2 DEF T
<1>4. m # 0
  <2>1. 0 * step = 0
    OBVIOUS
  <2>2. QED
    BY <1>3, <2>1
<1>5. ASSUME NEW k \in Nat, k < m PROVE from + k * step < max
  <2>1. k \notin T
    BY <1>2, <1>3, <1>5
  <2>2. k * step \in Int
    OBVIOUS
  <2>3. QED
    BY <2>1, <2>2 DEF T
<1>6. ASSUME NEW k \in Nat, m <= k PROVE ~(from + k * step < max)
  <2>1. PICK d \in Nat : k = m + d
    <3>1. k - m \in Nat /\ k = m + (k - m)
      BY <1>3, <1>6
    <3>2. QED
      BY <3>1
  <2>2. k * step = m * step + d * step /\ d * step \in Nat /\ m * step \in Nat
    BY <1>3, <2>1
  <2>3. QED
    BY <1>3, <2>2
<1>7. Plateaus(from, step, max) = 0 .. m - 1
  <2>1. ASSUME NEW k \in 0 .. max - from
        PROVE  from + k * step < max <=> k \in 0 .. m - 1
    <3>1. k \in Nat
      OBVIOUS
    <3>2. CASE k < m
      BY <1>3, <1>5, <3>1, <3>2
    <3>3. CASE m <= k
      BY <1>3, <1>6, <3>1, <3>3
    <3>4. QED
      BY <1>3, <3>1, <3>2, <3>3
  <2>2. 0 .. m - 1 \subseteq 0 .. max - from
    BY <1>3
  <2>3. QED
    BY <2>1, <2>2 DEF Plateaus
<1>8. Cardinality(0 .. m - 1) = m
  <2>1. Cardinality(0 .. m - 1) = IF 0 > m - 1 THEN 0 ELSE m - 1 - 0 + 1
    BY <1>3, FS_Interval
  <2>2. QED
    BY <1>3, <1>4, <2>1
<1>9. from + (m - 1) * step < max
  <2>1. m - 1 \in Nat /\ m - 1 < m
    BY <1>3, <1>4
  <2>2. QED
    BY <1>5, <2>1
<1>10. QED
  BY <1>3, <1>4, <1>7, <1>8, <1>9

(* m plateaus of equal rise below max, then max. *)
Staircase(s, m, from, step, max) ==
    /\ s \in Seq(Int) /\ Len(s) = m + 1
    /\ \A k \in 1 .. m : s[k] = from + (k - 1) * step
    /\ s[m + 1] = max
    /\ from + (m - 1) * step < max
    /\ max <= from + m * step

LEMMA StressStages ==
    ASSUME NEW from \in Int, NEW step \in Nat \ {0}, NEW max \in Int, max > from
    PROVE  \E m \in Nat \ {0} : Staircase(StressTargets(from, step, max), m, from, step, max)
<1>1. PICK m \in Nat \ {0} :
        /\ Cardinality(Plateaus(from, step, max)) = m
        /\ from + (m - 1) * step < max
        /\ max <= from + m * step
  BY FirstPlateaus
<1> DEFINE climb == [k \in 1 .. m |-> from + (k - 1) * step]
<1>2. StressTargets(from, step, max) = climb \o <<max>>
  BY <1>1 DEF StressTargets, Plateaus
<1>3. climb \in Seq(Int) /\ Len(climb) = m /\ \A k \in 1 .. m : climb[k] = from + (k - 1) * step
  <2>1. \A k \in 1 .. m : from + (k - 1) * step \in Int
    OBVIOUS
  <2>2. QED
    BY <2>1
<1>4. <<max>> \in Seq(Int) /\ Len(<<max>>) = 1 /\ <<max>>[1] = max
  OBVIOUS
<1> HIDE DEF climb
<1>5. /\ climb \o <<max>> \in Seq(Int)
      /\ Len(climb \o <<max>>) = m + 1
      /\ \A k \in 1 .. m + 1 : (climb \o <<max>>)[k]
                                = IF k <= m THEN climb[k] ELSE <<max>>[k - m]
  BY <1>3, <1>4, ConcatProperties
<1>6. (climb \o <<max>>)[m + 1] = max
  BY <1>4, <1>5
<1>7. \A k \in 1 .. m : (climb \o <<max>>)[k] = from + (k - 1) * step
  BY <1>3, <1>5
<1>8. QED
  BY <1>1, <1>2, <1>5, <1>6, <1>7 DEF Staircase

(* What a validated load is made of. *)
LEMMA LoadShapes ==
    ASSUME NEW l \in Loads, Valid(l)
    PROVE  \/ l.type = "constant" /\ l.vus \in Nat \ {0}
           \/ l.type = "ramping" /\ l.targets \in Seq(Int) /\ l.targets # <<>>
           \/ l.type = "spike" /\ l.baseline \in Int /\ l.target \in Int
           \/ /\ l.type = "stress" /\ l.from \in Int /\ l.step \in Nat \ {0}
              /\ l.max \in Int /\ l.max > l.from
           \/ /\ l.type = "arrival-rate" /\ l.rate \in Nat \ {0}
              /\ l.maxVUs \in Nat \ {0} /\ l.pre \in Nat
<1>1. Targets \subseteq Int
  BY AssignmentAssumption DEF Targets
<1>2. CASE \E n \in Targets : l = ConstantLoad(n)
  BY <1>1, <1>2 DEF ConstantLoad, Valid
<1>3. CASE \E s \in UNION {[1 .. k -> Targets] : k \in 0 .. 2} : l = RampingLoad(s)
  <2>0. PICK k \in 0 .. 2 : \E s \in [1 .. k -> Targets] : l = RampingLoad(s)
    BY <1>3
  <2>1. PICK s \in [1 .. k -> Targets] : l = RampingLoad(s)
    BY <2>0
  <2>2. s \in Seq(Int)
    <3>1. k \in Nat /\ s \in Seq(Targets)
      OBVIOUS
    <3>2. QED
      BY <1>1, <3>1, SeqMonotonic
  <2>3. l.type = "ramping" /\ l.targets = s
    BY <2>1 DEF RampingLoad
  <2>4. QED
    BY <2>2, <2>3 DEF Valid
<1>4. CASE \E a, b \in Targets : l = SpikeLoad(a, b)
  BY <1>1, <1>4 DEF SpikeLoad
<1>5. CASE \E a, b, c \in Targets : l = StressLoad(a, b, c)
  <2>1. PICK a \in Targets, b \in Targets, c \in Targets : l = StressLoad(a, b, c)
    BY <1>5
  <2>2. l.type = "stress" /\ l.from = a /\ l.step = b /\ l.max = c
    BY <2>1 DEF StressLoad
  <2>3. b > 0 /\ c > a
    BY <2>2 DEF Valid
  <2>4. a \in Int /\ b \in Nat \ {0} /\ c \in Int
    BY <1>1, <2>3
  <2>5. QED
    BY <2>2, <2>3, <2>4
<1>6. CASE \E a, b, c \in Targets : l = ArrivalLoad(a, b, c)
  BY <1>1, <1>6 DEF ArrivalLoad, Valid
<1>7. QED
  BY <1>2, <1>3, <1>4, <1>5, <1>6 DEF Loads

(* Its stages are numbers, none of them negative, and there is one. *)
LEMMA StagesOf ==
    ASSUME NEW l \in Loads, Valid(l), StageBased(l)
    PROVE  /\ ResolvedStages(l) \in Seq(Int) /\ ResolvedStages(l) # <<>>
           /\ \A k \in DOMAIN ResolvedStages(l) : ResolvedStages(l)[k] \in Nat
<1>1. ResolvedStages(l) \in Seq(Int) /\ ResolvedStages(l) # <<>>
  <2>1. CASE l.type = "ramping"
    BY <2>1, LoadShapes DEF ResolvedStages
  <2>2. CASE l.type = "spike"
    <3>1. l.baseline \in Int /\ l.target \in Int
      BY <2>2, LoadShapes
    <3>2. ResolvedStages(l) = <<l.baseline, l.target, l.baseline>>
      BY <2>2 DEF ResolvedStages
    <3>3. QED
      BY <3>1, <3>2
  <2>3. CASE l.type = "stress"
    <3>1. /\ l.from \in Int /\ l.step \in Nat \ {0} /\ l.max \in Int /\ l.max > l.from
      BY <2>3, LoadShapes
    <3>2. ResolvedStages(l) = StressTargets(l.from, l.step, l.max)
      BY <2>3 DEF ResolvedStages
    <3>3. PICK m \in Nat \ {0} : Staircase(ResolvedStages(l), m, l.from, l.step, l.max)
      BY <3>1, <3>2, StressStages
    <3>4. ResolvedStages(l) \in Seq(Int) /\ Len(ResolvedStages(l)) = m + 1
      BY <3>3 DEF Staircase
    <3>5. QED
      BY <3>4, EmptySeq
  <2>4. QED
    BY <2>1, <2>2, <2>3 DEF StageBased
<1>2. \A k \in DOMAIN ResolvedStages(l) : ResolvedStages(l)[k] >= 0
  BY DEF Valid
<1>3. \A k \in DOMAIN ResolvedStages(l) : ResolvedStages(l)[k] \in Int
  BY <1>1
<1>4. QED
  BY <1>1, <1>2, <1>3

(* A stress load climbs by steps to its max, the last one cut short         *)
(* (scenario/schema.go:109-119).                                            *)
THEOREM Climb == Spec => []StressClimbsToMax
<1>1. AssignInv => StressClimbsToMax
  <2> SUFFICES ASSUME AssignInv, phase = "valid", load.type = "stress"
               PROVE  LET s == ResolvedStages(load)
                      IN  /\ s[1] = load.from
                          /\ s[Len(s)] = load.max
                          /\ \A k \in 1 .. Len(s) - 1 :
                                s[k] < s[k + 1] /\ s[k + 1] - s[k] <= load.step
    BY DEF StressClimbsToMax
  <2>1. load \in Loads /\ Valid(load)
    BY DEF AssignInv
  <2>2. PICK from \in Int, step \in Nat \ {0}, max \in Int :
          from = load.from /\ step = load.step /\ max = load.max /\ max > from
    BY <2>1, LoadShapes
  <2>3. PICK s : s = StressTargets(from, step, max)
    OBVIOUS
  <2>4. PICK m \in Nat \ {0} : Staircase(s, m, from, step, max)
    BY <2>2, <2>3, StressStages
  <2> USE DEF Staircase
  <2>5. s[1] = from
    <3>1. 1 \in 1 .. m /\ (1 - 1) * step = 0
      OBVIOUS
    <3>2. QED
      BY <2>4, <3>1
  <2>6. ASSUME NEW k \in 1 .. m PROVE s[k] < s[k + 1] /\ s[k + 1] - s[k] <= step
    <3>1. k * step = (k - 1) * step + step /\ (k - 1) * step \in Int
      OBVIOUS
    <3>2. s[k] = from + (k - 1) * step
      BY <2>4
    <3>3. CASE k < m
      <4>1. s[k + 1] = from + k * step
        BY <2>4, <3>3
      <4>2. QED
        BY <3>1, <3>2, <4>1
    <3>4. CASE k = m
      BY <2>4, <3>1, <3>2, <3>4
    <3>5. QED
      BY <3>3, <3>4
  <2>7. ResolvedStages(load) = s
    BY <2>2, <2>3 DEF ResolvedStages
  <2>8. Len(s) - 1 = m
    BY <2>4
  <2>9. QED
    BY <2>2, <2>4, <2>5, <2>6, <2>7, <2>8
<1>2. QED
  BY <1>1, Invariance, PTL
-----------------------------------------------------------------------------
(* A shard is a number again, and positive when each worker can have one.  *)
LEMMA ChunkOf ==
    ASSUME NEW n \in Nat, NEW idx \in Nat, NEW c \in Nat \ {0}
    PROVE  /\ ChunkSize(n, idx, c) \in Nat
           /\ n >= c => ChunkSize(n, idx, c) > 0
<1>1. PICK b \in Nat, r \in Nat :
        b = n \div c /\ r = n % c /\ n = b * c + r /\ r < c
  BY ChunkTypes
<1>2. n >= c => b > 0
  <2>1. CASE b = 0
    <3>1. b * c = 0
      BY <2>1
    <3>2. QED
      BY <1>1, <3>1
  <2>2. QED
    BY <2>1
<1>3. QED
  BY <1>1, <1>2 DEF ChunkSize

LEMMA ShardIsValid ==
    ASSUME NEW l \in Loads, Valid(l), NEW idx \in Nat, NEW c \in Nat \ {0},
           StageBased(l) \/ \A k \in DOMAIN Numbers(l) : Numbers(l)[k] >= c
    PROVE  Valid(Shard(l, idx, c))
<1>1. CASE c <= 1
  BY <1>1 DEF Shard, StageBased
<1>2. CASE c > 1 /\ l.type = "constant"
  <2>1. PICK n \in Nat \ {0} : n = l.vus
    BY <1>2, LoadShapes
  <2>2. ~StageBased(l) /\ Numbers(l) = <<n>>
    BY <1>2, <2>1 DEF StageBased, Numbers
  <2>3. n >= c
    BY <2>2
  <2>4. ChunkSize(n, idx, c) > 0
    BY <2>3, ChunkOf
  <2>5. Shard(l, idx, c) = ConstantLoad(ChunkSize(n, idx, c))
    <3>1. ~(c <= 1)
      BY <1>2
    <3>2. QED
      BY <1>2, <2>1, <3>1 DEF Shard, StageBased
  <2>6. QED
    BY <2>4, <2>5 DEF ConstantLoad, Valid, StageBased
<1>3. CASE c > 1 /\ l.type = "arrival-rate"
  <2>1. PICK rate \in Nat \ {0}, maxVUs \in Nat \ {0}, pre \in Nat :
          rate = l.rate /\ maxVUs = l.maxVUs /\ pre = l.pre
    BY <1>3, LoadShapes
  <2>2. ~StageBased(l) /\ Numbers(l) = <<rate, maxVUs>>
    BY <1>3, <2>1 DEF StageBased, Numbers
  <2>3. rate >= c /\ maxVUs >= c
    BY <2>2
  <2>4. PICK r \in Nat, m \in Nat :
          r = ChunkSize(rate, idx, c) /\ m = ChunkSize(maxVUs, idx, c) /\ r > 0 /\ m > 0
    BY <2>3, ChunkOf
  <2>5. Shard(l, idx, c) = ArrivalLoad(r, m, Smaller(pre, m))
    <3>1. ~(c <= 1) /\ l.type # "constant"
      BY <1>3
    <3>2. QED
      BY <1>3, <2>1, <2>4, <3>1 DEF Shard, StageBased
  <2>6. QED
    BY <2>1, <2>4, <2>5 DEF ArrivalLoad, Smaller, Valid, StageBased
<1>4. CASE c > 1 /\ StageBased(l)
  <2>1. PICK s \in Seq(Int) : s = ResolvedStages(l) /\ s # <<>> /\ \A k \in DOMAIN s : s[k] \in Nat
    BY <1>4, StagesOf
  <2> DEFINE t == [k \in DOMAIN s |-> ChunkSize(s[k], idx, c)]
  <2>2. ASSUME NEW k \in DOMAIN s PROVE t[k] >= 0
    <3>1. PICK n \in Nat : n = s[k]
      BY <2>1
    <3>2. ChunkSize(n, idx, c) >= 0
      BY ChunkOf
    <3>3. QED
      BY <3>1, <3>2
  <2>3. t # <<>>
    <3>1. Len(s) \in Nat \ {0}
      BY <2>1, EmptySeq
    <3>2. 1 \in DOMAIN t
      BY <3>1
    <3>3. QED
      BY <3>2
  <2>4. Shard(l, idx, c) = RampingLoad(t)
    BY <1>4, <2>1 DEF Shard, StageBased
  <2>5. DOMAIN t = DOMAIN s
    OBVIOUS
  <2> HIDE DEF t
  <2>6. ResolvedStages(RampingLoad(t)) = t
    BY DEF ResolvedStages, RampingLoad
  <2>7. /\ RampingLoad(t).type = "ramping" /\ RampingLoad(t).targets = t
        /\ \A k \in DOMAIN ResolvedStages(RampingLoad(t)) :
              ResolvedStages(RampingLoad(t))[k] >= 0
    BY <2>2, <2>5, <2>6 DEF RampingLoad
  <2>8. Valid(RampingLoad(t))
    BY <2>3, <2>7 DEF Valid
  <2>9. QED
    BY <2>4, <2>8
<1>5. QED
  BY <1>1, <1>2, <1>3, <1>4, LoadShapes DEF StageBased

(* Whatever the number of workers, a worker refuses its shard of a load the *)
(* controller accepted only when one of the numbers divided is smaller than *)
(* the cohort (scenario/validate.go:80-132, schema.go:130-167).      *)
THEOREM ShardsAccepted == Spec => []ShardIsAccepted
<1>1. AssignInv => ShardIsAccepted
  <2> SUFFICES ASSUME AssignInv, phase = "refused"
               PROVE  ~StageBased(load) /\ \E k \in DOMAIN Numbers(load) : Numbers(load)[k] < count
    BY DEF ShardIsAccepted
  <2>1. /\ load \in Loads /\ Valid(load) /\ index \in Nat /\ count \in Nat \ {0}
        /\ ~Valid(Shard(load, index, count))
    BY DEF AssignInv
  <2>2. ~StageBased(load) /\ ~(\A k \in DOMAIN Numbers(load) : Numbers(load)[k] >= count)
    BY <2>1, ShardIsValid
  <2>3. \A k \in DOMAIN Numbers(load) : Numbers(load)[k] \in Int
    <3>1. CASE load.type = "constant"
      <4>1. PICK n \in Nat : n = load.vus
        BY <2>1, <3>1, LoadShapes
      <4>2. Numbers(load) = <<n>>
        BY <3>1, <4>1 DEF Numbers, StageBased
      <4>3. QED
        BY <4>2
    <3>2. CASE load.type = "arrival-rate"
      <4>1. PICK rate \in Nat, maxVUs \in Nat : rate = load.rate /\ maxVUs = load.maxVUs
        BY <2>1, <3>2, LoadShapes
      <4>2. Numbers(load) = <<rate, maxVUs>>
        BY <3>2, <4>1 DEF Numbers, StageBased
      <4>3. QED
        BY <4>2
    <3>3. QED
      BY <2>1, <2>2, <3>1, <3>2, LoadShapes DEF StageBased
  <2>4. QED
    BY <2>1, <2>2, <2>3
<1>2. QED
  BY <1>1, Invariance, PTL
-----------------------------------------------------------------------------
(* The sum of the chunks of any set of workers. *)
SumOfChunks(n, c, s) == Cardinality(s) * (n \div c) + Cardinality({j \in s : j < n % c})

LEMMA ChunksStep ==
    ASSUME NEW n \in Nat, NEW c \in Nat \ {0}, NEW s \in SUBSET (0 .. c - 1), NEW x \in s
    PROVE  /\ SumOfChunks(n, c, s) = ChunkSize(n, x, c) + SumOfChunks(n, c, s \ {x})
           /\ SumOfChunks(n, c, s) \in Nat
<1>1. PICK b \in Nat, r \in Nat : b = n \div c /\ r = n % c
  BY ChunkTypes
<1> DEFINE early(q) == {j \in q : j < r}
<1>2. IsFiniteSet(s) /\ IsFiniteSet(early(s))
  <2>1. IsFiniteSet(0 .. c - 1)
    BY FS_Interval
  <2>2. early(s) \in SUBSET (0 .. c - 1)
    OBVIOUS
  <2>3. QED
    BY <2>1, <2>2, FS_Subset
<1>3. PICK m \in Nat, e \in Nat : m = Cardinality(s) /\ e = Cardinality(early(s))
  BY <1>2, FS_CardinalityType
<1>4. Cardinality(s \ {x}) = m - 1
  BY <1>2, <1>3, FS_RemoveElement
<1>5. Cardinality(early(s \ {x})) = e - (IF x < r THEN 1 ELSE 0)
  <2>1. CASE x < r
    <3>1. early(s \ {x}) = early(s) \ {x} /\ x \in early(s)
      BY <2>1
    <3>2. Cardinality(early(s) \ {x}) = Cardinality(early(s)) - 1
      BY <1>2, <3>1, FS_RemoveElement
    <3>3. QED
      BY <1>3, <2>1, <3>1, <3>2
  <2>2. CASE ~(x < r)
    <3>1. early(s \ {x}) = early(s)
      BY <2>2
    <3>2. QED
      BY <1>3, <2>2, <3>1
  <2>3. QED
    BY <2>1, <2>2
<1>6. m * b = b + (m - 1) * b /\ m * b \in Nat /\ (m - 1) * b \in Int
  OBVIOUS
<1>7. /\ SumOfChunks(n, c, s) = m * b + e
      /\ SumOfChunks(n, c, s \ {x}) = (m - 1) * b + (e - (IF x < r THEN 1 ELSE 0))
      /\ ChunkSize(n, x, c) = b + (IF x < r THEN 1 ELSE 0)
  BY <1>1, <1>3, <1>4, <1>5 DEF SumOfChunks, ChunkSize
<1>8. QED
  BY <1>6, <1>7

LEMMA SumAddsUp ==
    ASSUME NEW n \in Nat, NEW c \in Nat \ {0}, NEW f,
           \A j \in 0 .. c - 1 : f[j] = ChunkSize(n, j, c)
    PROVE  AddsUp([s \in SUBSET (0 .. c - 1) |-> SumOfChunks(n, c, s)], f, 0 .. c - 1)
<1> DEFINE S == 0 .. c - 1
           t == [s \in SUBSET S |-> SumOfChunks(n, c, s)]
           pick(s) == CHOOSE x \in s : TRUE
<1>1. ASSUME NEW s \in SUBSET S
      PROVE  t[s] = IF s = {} THEN 0 ELSE f[pick(s)] + t[s \ {pick(s)}]
  <2>1. CASE s = {}
    <3>1. Cardinality(s) = 0 /\ {j \in s : j < n % c} = {}
      BY <2>1, FS_EmptySet
    <3>2. PICK b \in Nat : b = n \div c
      BY ChunkTypes
    <3>3. SumOfChunks(n, c, s) = 0 * b + 0
      BY <3>1, <3>2, FS_EmptySet DEF SumOfChunks
    <3>4. QED
      BY <2>1, <3>3
  <2>2. CASE s # {}
    <3>1. pick(s) \in s
      BY <2>2
    <3>2. s \ {pick(s)} \in SUBSET S
      OBVIOUS
    <3>3. SumOfChunks(n, c, s) = ChunkSize(n, pick(s), c) + SumOfChunks(n, c, s \ {pick(s)})
      <4>1. \A x \in s :
              SumOfChunks(n, c, s) = ChunkSize(n, x, c) + SumOfChunks(n, c, s \ {x})
        BY ChunksStep
      <4>2. QED
        BY <3>1, <4>1, Zenon
    <3>4. f[pick(s)] = ChunkSize(n, pick(s), c)
      BY <3>1
    <3>5. QED
      BY <2>2, <3>2, <3>3, <3>4
  <2>3. QED
    BY <2>1, <2>2
<1>2. t = [s \in SUBSET S |-> IF s = {} THEN 0 ELSE f[pick(s)] + t[s \ {pick(s)}]]
  BY <1>1
<1>3. QED
  BY <1>2 DEF AddsUp

LEMMA WholeSum ==
    ASSUME NEW n \in Nat, NEW c \in Nat \ {0}
    PROVE  SumOfChunks(n, c, 0 .. c - 1) = n
<1>0. PICK b \in Nat, r \in Nat : b = n \div c /\ r = n % c
  BY ChunkTypes
<1>1. r < c /\ n = c * b + r
  BY <1>0
<1>2. {j \in 0 .. c - 1 : j < r} = 0 .. r - 1
  BY <1>1
<1>3. Cardinality(0 .. c - 1) = c /\ Cardinality(0 .. r - 1) = r
  BY <1>1, FS_Interval
<1>4. QED
  BY <1>0, <1>1, <1>2, <1>3 DEF SumOfChunks

(* Each number of a shard is the chunk of the number it divides. *)
LEMMA NumbersOfShard ==
    ASSUME NEW l \in Loads, Valid(l), NEW idx \in Nat, NEW c \in Nat, c > 1,
           NEW k \in DOMAIN Numbers(l)
    PROVE  Numbers(l)[k] \in Nat /\ Numbers(Shard(l, idx, c))[k] = ChunkSize(Numbers(l)[k], idx, c)
<1>0. ~(c <= 1)
  OBVIOUS
<1>1. CASE l.type = "constant"
  <2>1. PICK n \in Nat \ {0} : n = l.vus
    BY <1>1, LoadShapes
  <2>2. Numbers(l) = <<n>>
    BY <1>1, <2>1 DEF StageBased, Numbers
  <2>3. Shard(l, idx, c) = ConstantLoad(ChunkSize(n, idx, c))
    BY <1>0, <1>1, <2>1 DEF Shard, StageBased
  <2>4. Numbers(ConstantLoad(ChunkSize(n, idx, c))) = <<ChunkSize(n, idx, c)>>
    BY DEF ConstantLoad, Numbers, StageBased
  <2>5. QED
    BY <2>2, <2>3, <2>4
<1>2. CASE l.type = "arrival-rate"
  <2>1. PICK rate \in Nat \ {0}, maxVUs \in Nat \ {0} : rate = l.rate /\ maxVUs = l.maxVUs
    BY <1>2, LoadShapes
  <2>2. Numbers(l) = <<rate, maxVUs>>
    BY <1>2, <2>1 DEF StageBased, Numbers
  <2>3. PICK pre : Shard(l, idx, c)
                     = ArrivalLoad(ChunkSize(rate, idx, c), ChunkSize(maxVUs, idx, c), pre)
    BY <1>0, <1>2, <2>1 DEF Shard, StageBased
  <2>4. \A a, b : Numbers(ArrivalLoad(a, b, pre)) = <<a, b>>
    BY DEF ArrivalLoad, Numbers, StageBased
  <2>5. QED
    BY <2>2, <2>3, <2>4
<1>3. CASE StageBased(l)
  <2>1. PICK s \in Seq(Int) : s = ResolvedStages(l) /\ \A m \in DOMAIN s : s[m] \in Nat
    BY <1>3, StagesOf
  <2>2. Numbers(l) = s
    BY <1>3, <2>1 DEF Numbers, StageBased
  <2> DEFINE t == [m \in DOMAIN s |-> ChunkSize(s[m], idx, c)]
  <2>3. Shard(l, idx, c) = RampingLoad(t)
    BY <1>0, <1>3, <2>1 DEF Shard, StageBased
  <2>4. t[k] = ChunkSize(s[k], idx, c)
    BY <2>2
  <2> HIDE DEF t
  <2>5. Numbers(RampingLoad(t)) = t
    BY DEF RampingLoad, Numbers, StageBased, ResolvedStages
  <2>6. QED
    BY <2>1, <2>2, <2>3, <2>4, <2>5
<1>4. QED
  BY <1>1, <1>2, <1>3, LoadShapes DEF StageBased

(* The sum as the property writes it. *)
SumOfNumbers(l, c, k) == MapThenSumSet(LAMBDA j : Numbers(Shard(l, j, c))[k], 0 .. c - 1)

LEMMA SumOfShards ==
    ASSUME NEW l, NEW c \in Nat, NEW k, NEW f,
           f = [j \in 0 .. c - 1 |-> Numbers(Shard(l, j, c))[k]],
           NEW t, AddsUp(t, f, 0 .. c - 1)
    PROVE  SumOfNumbers(l, c, k) = t[0 .. c - 1]
<1> DEFINE S == 0 .. c - 1
           pick(s) == CHOOSE x \in s : TRUE
           term(u, s) == IF s = {} THEN 0
                         ELSE Numbers(Shard(l, pick(s), c))[k] + u[s \ {pick(s)}]
           unfolds(u) == u = [s \in SUBSET S |-> term(u, s)]
<1>1. ASSUME NEW u PROVE unfolds(u) <=> AddsUp(u, f, S)
  <2>1. \A s \in SUBSET S : s # {} => f[pick(s)] = Numbers(Shard(l, pick(s), c))[k]
    OBVIOUS
  <2>2. \A s \in SUBSET S :
           term(u, s) = (IF s = {} THEN 0 ELSE f[pick(s)] + u[s \ {pick(s)}])
    BY <2>1
  <2>3. [s \in SUBSET S |-> term(u, s)]
          = [s \in SUBSET S |-> IF s = {} THEN 0 ELSE f[pick(s)] + u[s \ {pick(s)}]]
    BY <2>2, Zenon
  <2>4. QED
    BY <2>3, Zenon DEF AddsUp
<1>2. (CHOOSE u : unfolds(u)) = t
  <2>1. unfolds(t) /\ \A u : unfolds(u) => u = t
    <3>1. IsFiniteSet(S)
      BY FS_Interval
    <3> HIDE DEF S, unfolds
    <3>2. QED
      BY <1>1, <3>1, OneSum DEF S
  <2> HIDE DEF unfolds
  <2>2. QED
    BY <2>1
<1>3. SumOfNumbers(l, c, k) = (CHOOSE u : unfolds(u))[S]
  BY Zenon DEF SumOfNumbers, MapThenSumSet, MapThenFoldSet
<1>4. QED
  BY <1>2, <1>3

(* Every number of a validated load, stage by stage, is the sum over the   *)
(* workers of the numbers they are sent (scenario/schema.go:121-167).      *)
THEOREM SharesSum == Spec => []TargetsSumBack
<1>1. AssignInv => TargetsSumBack
  <2> SUFFICES ASSUME AssignInv, phase = "sharded", count > 1, NEW k \in DOMAIN Numbers(load)
               PROVE  SumOfNumbers(load, count, k) = Numbers(load)[k]
    BY DEF TargetsSumBack, SumOfNumbers
  <2>1. load \in Loads /\ Valid(load) /\ count \in Nat \ {0}
    BY DEF AssignInv
  <2>2. PICK n \in Nat : n = Numbers(load)[k]
    BY <2>1, NumbersOfShard, 0 \in Nat
  <2>3. PICK f : f = [j \in 0 .. count - 1 |-> Numbers(Shard(load, j, count))[k]]
    OBVIOUS
  <2>4. ASSUME NEW j \in 0 .. count - 1 PROVE f[j] = ChunkSize(n, j, count)
    BY <2>1, <2>2, <2>3, NumbersOfShard
  <2>5. PICK t : t = [s \in SUBSET (0 .. count - 1) |-> SumOfChunks(n, count, s)]
    OBVIOUS
  <2>6. AddsUp(t, f, 0 .. count - 1)
    BY <2>1, <2>4, <2>5, SumAddsUp
  <2>7. t[0 .. count - 1] = n
    BY <2>1, <2>5, WholeSum
  <2>8. SumOfNumbers(load, count, k) = t[0 .. count - 1]
    <3>1. count \in Nat
      BY <2>1
    <3>2. QED
      BY <2>3, <2>6, <3>1, SumOfShards
  <2>9. QED
    BY <2>2, <2>7, <2>8
<1>2. QED
  BY <1>1, Invariance, PTL
=============================================================================
