-------------------------- MODULE RunCommandProofs ---------------------------
(***************************************************************************)
(* The invariants of LoadEngine, for every load and any number of          *)
(* goroutines, and those of RunCommand: the engine's carry over to the     *)
(* commands that run it, and the plugins are used and closed in order.     *)
(***************************************************************************)
EXTENDS RunCommand, SequenceTheorems, TLAPS
-----------------------------------------------------------------------------
(* The load engine. *)

Active == {active[k] : k \in DOMAIN active}

(* The cancel functions are held in the order of the spawns. *)
Increasing == \A i, j \in DOMAIN active : i < j => active[i] < active[j]

(* Which scheduler it is that runs. *)
SchedulerInv ==
    /\ run = "spawning" => load.type = "constant"
    /\ run \in {"enter", "hold", "draining", "aborting"} => load.type = "ramping"
    /\ run = "ticking" => load.type = "arrival-rate"
    /\ run = "start" => cursor = 0 /\ stage = 0

(* Ramping: a goroutine is held or it is stopped, and a stage has as many  *)
(* held as its target says.                                                *)
RampInv ==
    /\ Increasing
    /\ run \in {"start", "enter", "hold"} => Active = (1 .. cursor) \ stopped
    /\ run = "hold" => stage >= 1 /\ Len(active) = load.stages[stage]

(* A load that never scales down has not spawned more than its target. *)
SpawnInv ==
    /\ load.type = "constant" => cursor <= load.vus
    /\ (load.type = "ramping" /\ NeverScalesDown) =>
         /\ run \in {"start", "enter", "hold"} =>
              /\ stopped = {}
              /\ Len(active) = cursor
              /\ cursor = IF stage = 0 THEN 0 ELSE load.stages[stage]
         /\ run \notin {"start", "enter", "hold"} => 1 .. cursor \subseteq stopped

EngineInv == TypeOK /\ SchedulerInv /\ RampInv /\ SpawnInv /\ ReturnsAfterAll

(* A load is as load.New is given it. *)
LEMMA LoadType ==
    ASSUME load \in Loads
    PROVE  /\ load.type \in {"constant", "ramping", "arrival-rate"}
           /\ load.stages \in Seq(Nat)
           /\ load.vus \in Nat /\ load.maxVUs \in Nat /\ load.wallets \in Nat
BY LoadAssumption

LEMMA InitHolds == Init => EngineInv
<1> SUFFICES ASSUME Init PROVE EngineInv
  OBVIOUS
<1>1. load.stages \in Seq(Nat) /\ load.vus \in Nat
  BY LoadType DEF Init
<1>2. TypeOK
  <2>0. dropped \in BOOLEAN /\ load \in Loads
    BY DEF Init
  <2>1. /\ vu \in Seq(VUStates) /\ Len(vu) = cursor
        /\ active \in Seq(1 .. cursor)
    <3>1. <<>> \in Seq(VUStates) /\ <<>> \in Seq(1 .. 0) /\ Len(<<>>) = 0
      BY EmptySeq
    <3>2. vu = <<>> /\ active = <<>> /\ cursor = 0
      BY DEF Init
    <3>3. QED
      BY <3>1, <3>2
  <2>2. stage \in 0 .. Len(load.stages)
    BY <1>1 DEF Init
  <2>3. /\ run = "start" /\ ctx = "live" /\ cursor = 0 /\ stopped = {}
    BY DEF Init
  <2>4. QED
    BY <2>0, <2>1, <2>2, <2>3 DEF TypeOK
<1>3. SchedulerInv /\ ReturnsAfterAll
  BY DEF Init, SchedulerInv, ReturnsAfterAll
<1>4. RampInv
  BY DEF Init, RampInv, Increasing, Active
<1>5. SpawnInv
  BY <1>1 DEF Init, SpawnInv
<1>6. QED
  BY <1>2, <1>3, <1>4, <1>5 DEF EngineInv

(* Steps that leave the goroutines and their cancel functions alone. *)
LEMMA QuietKeepsInv ==
    ASSUME EngineInv,
           \/ Start \/ Deadline \/ Interrupt \/ AllSpawned \/ StageElapsed
           \/ TickDropped \/ StopTicking \/ Return \/ UNCHANGED vars
    PROVE  EngineInv'
<1>1. load.stages \in Seq(Nat) /\ load.vus \in Nat
  BY LoadType DEF EngineInv, TypeOK
<1>2. UNCHANGED <<load, stage, active, cursor, vu, stopped>>
  BY DEF Start, Deadline, Interrupt, AllSpawned, StageElapsed, TickDropped,
         StopTicking, Return, vars
<1>3. CASE Start
  BY <1>1, <1>2, <1>3, LoadType, SMTT(30)
  DEF Start, EngineInv, TypeOK, SchedulerInv, RampInv, Increasing, Active, SpawnInv,
      ReturnsAfterAll, NeverScalesDown
<1>4. CASE Deadline \/ Interrupt \/ TickDropped \/ UNCHANGED vars
  <2>1. UNCHANGED run /\ ctx' \in {"live", "expired", "cancelled"} /\ dropped' \in BOOLEAN
    BY <1>4 DEF Deadline, Interrupt, TickDropped, vars, EngineInv, TypeOK
  <2>2. QED
    BY <1>2, <2>1
    DEF EngineInv, TypeOK, SchedulerInv, RampInv, Increasing, Active, SpawnInv,
        ReturnsAfterAll, NeverScalesDown
<1>5. CASE AllSpawned \/ StopTicking
  BY <1>1, <1>2, <1>5
  DEF AllSpawned, StopTicking, EngineInv, TypeOK, SchedulerInv, RampInv, Increasing, Active, SpawnInv,
      ReturnsAfterAll, NeverScalesDown
<1>6. CASE StageElapsed
  BY <1>1, <1>2, <1>6
  DEF StageElapsed, EngineInv, TypeOK, SchedulerInv, RampInv, Increasing, Active, SpawnInv,
      ReturnsAfterAll, NeverScalesDown
<1>7. CASE Return
  BY <1>1, <1>2, <1>7
  DEF Return, EngineInv, TypeOK, SchedulerInv, RampInv, Increasing, Active, SpawnInv,
      ReturnsAfterAll, NeverScalesDown
<1>8. QED
  BY <1>3, <1>4, <1>5, <1>6, <1>7

(* A step of one goroutine. *)
LEMMA VUKeepsInv ==
    ASSUME EngineInv, NEW g \in 1 .. cursor, VUStep(g)
    PROVE  EngineInv'
<1>1. PICK from \in {"between", "iterating", "released"}, to \in VUStates : Become(g, from, to)
  BY DEF VUStep, BeginIteration, EndIteration, SkipIteration, Finish, VUStates
<1>2. /\ vu[g] # "done"
      /\ vu' = [vu EXCEPT ![g] = to]
      /\ UNCHANGED <<load, run, stage, active, cursor, stopped, ctx, dropped>>
  BY <1>1 DEF Become
<1>3. vu' \in Seq(VUStates) /\ Len(vu') = cursor
  BY <1>2, ExceptSeq DEF EngineInv, TypeOK
<1>4. TypeOK'
  BY <1>2, <1>3 DEF EngineInv, TypeOK
<1>5. ReturnsAfterAll'
  BY <1>2 DEF EngineInv, ReturnsAfterAll
<1>6. SchedulerInv' /\ RampInv' /\ SpawnInv'
  BY <1>2
  DEF EngineInv, SchedulerInv, RampInv, Increasing, Active, SpawnInv, NeverScalesDown
<1>7. QED
  BY <1>4, <1>5, <1>6 DEF EngineInv

(* Another goroutine, of a constant or an arrival-rate run. *)
LEMMA AppendKeepsInv ==
    ASSUME EngineInv, Spawn \/ TickStarts
    PROVE  EngineInv'
<1>1. /\ run \in {"spawning", "ticking"}
      /\ cursor' = cursor + 1
      /\ vu' = Append(vu, "between")
      /\ UNCHANGED <<load, run, stage, active, stopped, ctx, dropped>>
      /\ run = "spawning" => cursor < load.vus
  BY DEF Spawn, TickStarts
<1>2. load.vus \in Nat /\ cursor \in Nat
  BY LoadType DEF EngineInv, TypeOK
<1>3. vu' \in Seq(VUStates) /\ Len(vu') = cursor'
  BY <1>1, AppendProperties DEF EngineInv, TypeOK, VUStates
<1>4. active' \in Seq(1 .. cursor') /\ stopped' \subseteq 1 .. cursor'
  <2>1. 1 .. cursor \subseteq 1 .. cursor'
    BY <1>1, <1>2
  <2>2. active \in Seq(1 .. cursor) /\ stopped \subseteq 1 .. cursor
    BY DEF EngineInv, TypeOK
  <2>3. QED
    BY <1>1, <2>1, <2>2, SeqMonotonic
<1>5. TypeOK'
  BY <1>1, <1>2, <1>3, <1>4 DEF EngineInv, TypeOK
<1>6. SchedulerInv' /\ RampInv' /\ ReturnsAfterAll'
  BY <1>1 DEF EngineInv, SchedulerInv, RampInv, Increasing, ReturnsAfterAll
<1>7. SpawnInv'
  BY <1>1, <1>2 DEF EngineInv, SchedulerInv, SpawnInv
<1>8. QED
  BY <1>5, <1>6, <1>7 DEF EngineInv

(* stopAll: the goroutines not stopped yet are the ones held. *)
LEMMA StopAllKeepsInv ==
    ASSUME EngineInv, StopAll
    PROVE  EngineInv'
<1>1. /\ run \in {"enter", "hold"} /\ run' \in {"draining", "aborting"}
      /\ stopped' = stopped \cup Active
      /\ active' = <<>>
      /\ UNCHANGED <<load, stage, cursor, vu, ctx, dropped>>
  BY DEF StopAll, Active
<1>2. stopped' = 1 .. cursor
  BY <1>1 DEF EngineInv, TypeOK, RampInv
<1>3. active' \in Seq(1 .. cursor)
  BY <1>1, EmptySeq
<1>4. TypeOK'
  BY <1>1, <1>2, <1>3 DEF EngineInv, TypeOK
<1>5. SchedulerInv' /\ RampInv' /\ SpawnInv' /\ ReturnsAfterAll'
  BY <1>1, <1>2
  DEF EngineInv, SchedulerInv, RampInv, Increasing, SpawnInv, NeverScalesDown,
      ReturnsAfterAll
<1>6. QED
  BY <1>4, <1>5 DEF EngineInv

(* Adding goroutines c + 1 .. c + d behind those of s. *)
LEMMA HoldMore ==
    ASSUME NEW c \in Nat, NEW d \in Nat, NEW s \in Seq(1 .. c),
           NEW t, t = s \o [k \in 1 .. d |-> c + k]
    PROVE  /\ t \in Seq(1 .. (c + d))
           /\ Len(t) = Len(s) + d
           /\ \A k \in 1 .. Len(s) : t[k] = s[k]
           /\ \A k \in Len(s) + 1 .. Len(s) + d : t[k] = c + (k - Len(s))
<1> DEFINE E(k) == c + k
           new == [k \in 1 .. d |-> E(k)]
<1>1. \A k \in 1 .. d : E(k) \in 1 .. (c + d)
  OBVIOUS
<1>2. /\ new \in Seq(1 .. (c + d)) /\ Len(new) = d
      /\ \A k \in 1 .. d : new[k] = E(k)
  <2> HIDE DEF E
  <2>1. new \in [1 .. d -> 1 .. (c + d)]
    BY <1>1
  <2>2. QED
    BY <2>1
<1>3. s \in Seq(1 .. (c + d)) /\ Len(s) \in Nat
  <2>1. 1 .. c \subseteq 1 .. (c + d)
    OBVIOUS
  <2>2. QED
    BY <2>1, SeqMonotonic, LenProperties
<1>4. t = s \o new
  OBVIOUS
<1> HIDE DEF new
<1>5. /\ t \in Seq(1 .. (c + d)) /\ Len(t) = Len(s) + Len(new)
      /\ \A k \in 1 .. Len(s) + Len(new) :
           t[k] = IF k <= Len(s) THEN s[k] ELSE new[k - Len(s)]
  <2>1. s \in Seq(1 .. (c + d)) /\ new \in Seq(1 .. (c + d))
    BY <1>2, <1>3
  <2>2. QED
    BY <1>4, <2>1, ConcatProperties, Zenon
<1>6. ASSUME NEW k \in Len(s) + 1 .. Len(s) + d
      PROVE  t[k] = c + (k - Len(s))
  <2>1. k - Len(s) \in 1 .. d /\ k \in 1 .. Len(s) + Len(new) /\ ~(k <= Len(s))
    BY <1>2, <1>3
  <2>2. QED
    BY <2>1, <1>2, <1>5
<1>7. QED
  BY <1>2, <1>3, <1>5, <1>6

(* EnterStage going up: the new goroutines are held behind the old ones. *)
LEMMA ScaleUpKeepsInv ==
    ASSUME EngineInv, EnterStage, load.stages[stage + 1] >= Len(active)
    PROVE  EngineInv'
<1>1. /\ load.stages \in Seq(Nat) /\ load.vus \in Nat
      /\ active \in Seq(1 .. cursor) /\ cursor \in Nat /\ stage \in Nat
      /\ vu \in Seq(VUStates) /\ Len(vu) = cursor
      /\ load.type = "ramping" /\ run = "enter" /\ stage < Len(load.stages)
  BY LoadType DEF EngineInv, TypeOK, SchedulerInv, EnterStage
<1>2. stage + 1 \in 1 .. Len(load.stages)
  BY <1>1
<1>3. load.stages[stage + 1] \in Nat /\ Len(active) \in Nat
  BY <1>1, <1>2, ElementOfSeq, LenProperties
<1>4. PICK d \in Nat : d = load.stages[stage + 1] - Len(active)
  BY <1>3
<1>5. /\ run' = "hold" /\ stage' = stage + 1 /\ cursor' = cursor + d
      /\ active' = active \o [k \in 1 .. d |-> cursor + k]
      /\ vu' = vu \o [k \in 1 .. d |-> "between"]
      /\ UNCHANGED <<load, ctx, dropped, stopped>>
  <2>1. load.stages[stage + 1] - Len(active) >= 0
    BY <1>4
  <2>2. QED
    BY <1>4, <2>1 DEF EnterStage
<1>6. /\ active' \in Seq(1 .. cursor') /\ Len(active') = Len(active) + d
      /\ \A k \in 1 .. Len(active) : active'[k] = active[k]
      /\ \A k \in Len(active) + 1 .. Len(active) + d :
           active'[k] = cursor + (k - Len(active))
  <2>1. PICK t : t = active \o [k \in 1 .. d |-> cursor + k]
    OBVIOUS
  <2>2. /\ t \in Seq(1 .. (cursor + d)) /\ Len(t) = Len(active) + d
        /\ \A k \in 1 .. Len(active) : t[k] = active[k]
        /\ \A k \in Len(active) + 1 .. Len(active) + d : t[k] = cursor + (k - Len(active))
    <3>1. cursor \in Nat /\ active \in Seq(1 .. cursor)
      BY <1>1
    <3>2. QED
      BY <2>1, <3>1, HoldMore
  <2>3. active' = t /\ cursor' = cursor + d
    BY <1>5, <2>1
  <2>4. QED
    BY <2>2, <2>3
<1>7. vu' \in Seq(VUStates) /\ Len(vu') = cursor'
  <2>1. PICK f : f = [k \in 1 .. d |-> "between"]
    OBVIOUS
  <2>2. f \in Seq(VUStates) /\ Len(f) = d
    BY <2>1 DEF VUStates
  <2>3. vu \in Seq(VUStates)
    BY <1>1
  <2>4. vu \o f \in Seq(VUStates) /\ Len(vu \o f) = Len(vu) + Len(f)
    BY <2>2, <2>3, ConcatProperties
  <2>5. vu' = vu \o f /\ cursor' = cursor + d /\ Len(vu) = cursor
    BY <1>1, <1>5, <2>1
  <2>6. QED
    BY <2>2, <2>4, <2>5
<1>8. TypeOK'
  <2>1. stage' \in 0 .. Len(load'.stages) /\ cursor' \in Nat
    BY <1>1, <1>2, <1>5
  <2>2. stopped' \subseteq 1 .. cursor'
    <3>1. stopped \subseteq 1 .. cursor
      BY DEF EngineInv, TypeOK
    <3>2. QED
      BY <1>1, <1>5, <3>1
  <2>3. load' \in Loads /\ ctx' \in {"live", "expired", "cancelled"} /\ dropped' \in BOOLEAN
    BY <1>5 DEF EngineInv, TypeOK
  <2>4. QED
    BY <1>5, <1>6, <1>7, <2>1, <2>2, <2>3 DEF TypeOK
<1>9. /\ DOMAIN active = 1 .. Len(active) /\ DOMAIN active' = 1 .. Len(active) + d
      /\ \A k \in 1 .. Len(active) : active[k] \in 1 .. cursor
  BY <1>1, <1>6, LenProperties, ElementOfSeq
<1>10. Increasing'
  <2>1. SUFFICES ASSUME NEW i \in 1 .. Len(active) + d, NEW j \in 1 .. Len(active) + d, i < j
                 PROVE  active'[i] < active'[j]
    BY <1>9 DEF Increasing
  <2>2. CASE j \in 1 .. Len(active)
    <3>1. i \in 1 .. Len(active)
      BY <1>3, <2>1, <2>2
    <3>2. active'[i] = active[i] /\ active'[j] = active[j]
      BY <1>6, <2>2, <3>1
    <3>3. QED
      BY <1>9, <2>1, <2>2, <3>1, <3>2 DEF EngineInv, RampInv, Increasing
  <2>3. CASE i \in 1 .. Len(active) /\ j \in Len(active) + 1 .. Len(active) + d
    <3>1. active'[i] = active[i] /\ active'[j] = cursor + (j - Len(active))
      BY <1>6, <2>3
    <3>2. active[i] \in 1 .. cursor
      BY <1>9, <2>3
    <3>3. QED
      BY <1>1, <1>3, <2>3, <3>1, <3>2
  <2>4. CASE i \in Len(active) + 1 .. Len(active) + d
    <3>1. j \in Len(active) + 1 .. Len(active) + d
      BY <1>3, <2>1, <2>4
    <3>2. /\ active'[i] = cursor + (i - Len(active))
          /\ active'[j] = cursor + (j - Len(active))
      BY <1>6, <2>4, <3>1
    <3>3. QED
      BY <1>1, <1>3, <2>1, <3>2
  <2>5. QED
    BY <1>3, <2>1, <2>2, <2>3, <2>4
<1>11. Active' = (1 .. cursor') \ stopped'
  <2>1. Active = (1 .. cursor) \ stopped /\ stopped \subseteq 1 .. cursor
    BY <1>1 DEF EngineInv, RampInv, TypeOK
  <2>2. ASSUME NEW k \in 1 .. Len(active) + d
        PROVE  active'[k] \in (1 .. cursor') \ stopped'
    <3>1. CASE k \in 1 .. Len(active)
      <4>1. active'[k] = active[k] /\ active[k] \in Active
        BY <1>6, <1>9, <3>1 DEF Active
      <4>2. QED
        BY <1>1, <1>5, <2>1, <4>1
    <3>2. CASE k \in Len(active) + 1 .. Len(active) + d
      <4>1. active'[k] = cursor + (k - Len(active))
        BY <1>6, <3>2
      <4>2. active'[k] \in 1 .. cursor + d /\ active'[k] \notin 1 .. cursor
        BY <1>1, <1>3, <3>2, <4>1, SMTT(30)
      <4>3. QED
        BY <1>5, <2>1, <4>2
    <3>3. QED
      BY <1>3, <2>2, <3>1, <3>2
  <2>3. ASSUME NEW g \in (1 .. cursor') \ stopped'
        PROVE  \E k \in 1 .. Len(active) + d : active'[k] = g
    <3>1. CASE g \in 1 .. cursor
      <4>1. g \in Active
        BY <1>5, <2>1, <2>3, <3>1
      <4>2. PICK k \in 1 .. Len(active) : g = active[k]
        BY <4>1, <1>9 DEF Active
      <4>3. k \in 1 .. Len(active) + d
        BY <1>3
      <4>4. QED
        BY <4>2, <4>3, <1>6
    <3>2. CASE g \notin 1 .. cursor
      <4>1. g \in cursor + 1 .. cursor + d
        BY <1>1, <1>5, <2>3, <3>2
      <4>2. PICK k \in 1 .. d : g = cursor + k
        <5>1. g - cursor \in 1 .. d /\ g = cursor + (g - cursor)
          BY <1>1, <4>1
        <5>2. QED
          BY <5>1
      <4>3. /\ Len(active) + k \in Len(active) + 1 .. Len(active) + d
            /\ Len(active) + k \in 1 .. Len(active) + d
            /\ (Len(active) + k) - Len(active) = k
        BY <1>3
      <4>4. active'[Len(active) + k] = g
        BY <1>6, <4>2, <4>3
      <4>5. QED
        BY <4>3, <4>4
    <3>3. QED
      BY <3>1, <3>2
  <2>4. QED
    BY <1>9, <2>2, <2>3 DEF Active
<1>12. RampInv'
  <2>1. Len(active') = load'.stages[stage'] /\ stage' >= 1
    BY <1>1, <1>3, <1>4, <1>5, <1>6, SMTT(30)
  <2>2. QED
    BY <1>10, <1>11, <2>1 DEF RampInv
<1>13. SpawnInv'
  <2>1. NeverScalesDown' <=> NeverScalesDown
    BY <1>5 DEF NeverScalesDown
  <2>2. stage # 0 => stage' # 0
    BY <1>1, <1>5
  <2>3. ASSUME NeverScalesDown
        PROVE  stopped' = {} /\ Len(active') = cursor' /\ cursor' = load'.stages[stage']
    <3>1. stopped = {} /\ Len(active) = cursor
      BY <1>1, <2>3 DEF EngineInv, SpawnInv
    <3>2. QED
      BY <1>1, <1>3, <1>4, <1>5, <1>6, <3>1, SMTT(30)
  <2>4. stage' # 0
    BY <1>1, <1>5
  <2>5. QED
    BY <1>1, <1>5, <2>1, <2>3, <2>4 DEF SpawnInv
<1>14. SchedulerInv' /\ ReturnsAfterAll'
  BY <1>1, <1>5 DEF SchedulerInv, ReturnsAfterAll
<1>15. QED
  BY <1>8, <1>12, <1>13, <1>14 DEF EngineInv

(* EnterStage going down: the last ones of active are stopped.  A load     *)
(* that never scales down does not come here.                              *)
LEMMA ScaleDownKeepsInv ==
    ASSUME EngineInv, EnterStage, load.stages[stage + 1] < Len(active)
    PROVE  EngineInv'
<1>1. /\ load.stages \in Seq(Nat)
      /\ active \in Seq(1 .. cursor) /\ cursor \in Nat /\ stage \in Nat
      /\ load.type = "ramping" /\ run = "enter" /\ stage < Len(load.stages)
  BY LoadType DEF EngineInv, TypeOK, SchedulerInv, EnterStage
<1>2. stage + 1 \in 1 .. Len(load.stages)
  BY <1>1
<1>3. load.stages[stage + 1] \in Nat /\ Len(active) \in Nat
  BY <1>1, <1>2, ElementOfSeq, LenProperties
<1>4. PICK t \in Nat : t = load.stages[stage + 1]
  BY <1>3
<1>5. /\ run' = "hold" /\ stage' = stage + 1
      /\ active' = SubSeq(active, 1, t)
      /\ stopped' = stopped \cup {active[k] : k \in t + 1 .. Len(active)}
      /\ UNCHANGED <<load, ctx, dropped, vu, cursor>>
  <2>1. ~(load.stages[stage + 1] - Len(active) >= 0)
    BY <1>3
  <2>2. Len(active) + (load.stages[stage + 1] - Len(active)) = t
    BY <1>3, <1>4
  <2>3. QED
    BY <2>1, <2>2 DEF EnterStage
<1>6. /\ DOMAIN active = 1 .. Len(active)
      /\ \A k \in 1 .. Len(active) : active[k] \in 1 .. cursor
  BY <1>1, LenProperties, ElementOfSeq
<1>7. /\ active' \in Seq(1 .. cursor') /\ Len(active') = t
      /\ \A k \in 1 .. t : active'[k] = active[k]
  <2>1. \A k \in 1 .. t : active[k] \in 1 .. cursor
    BY <1>3, <1>4, <1>6
  <2>2. /\ SubSeq(active, 1, t) \in Seq(1 .. cursor)
        /\ Len(SubSeq(active, 1, t)) = IF 1 <= t THEN t - 1 + 1 ELSE 0
        /\ \A k \in 1 .. t - 1 + 1 : SubSeq(active, 1, t)[k] = active[1 + k - 1]
    BY <2>1, SubSeqProperties
  <2>3. QED
    BY <1>5, <2>2
<1>8. /\ DOMAIN active' = 1 .. t
      /\ 1 .. t \subseteq 1 .. Len(active)
      /\ t + 1 .. Len(active) \subseteq 1 .. Len(active)
  BY <1>3, <1>4, <1>7, LenProperties
<1>9. TypeOK'
  <2>1. stage' \in 0 .. Len(load'.stages)
    BY <1>1, <1>2, <1>5
  <2>2. stopped' \subseteq 1 .. cursor'
    <3>1. stopped \subseteq 1 .. cursor
      BY DEF EngineInv, TypeOK
    <3>2. QED
      BY <1>5, <1>6, <1>8, <3>1
  <2>3. QED
    BY <1>5, <1>7, <2>1, <2>2 DEF EngineInv, TypeOK
<1>10. Increasing'
  BY <1>6, <1>7, <1>8 DEF EngineInv, RampInv, Increasing
<1>11. Active' = (1 .. cursor') \ stopped'
  <2>1. Active = (1 .. cursor) \ stopped
    BY <1>1 DEF EngineInv, RampInv
  <2>2. ASSUME NEW k \in 1 .. t PROVE active'[k] \in (1 .. cursor') \ stopped'
    <3>1. active'[k] = active[k] /\ active[k] \in (1 .. cursor) \ stopped
      BY <1>6, <1>7, <1>8, <2>1 DEF Active
    <3>2. ASSUME NEW j \in t + 1 .. Len(active) PROVE active[k] # active[j]
      <4>1. k < j /\ k \in DOMAIN active /\ j \in DOMAIN active
        BY <1>3, <1>6, <1>8
      <4>2. active[k] < active[j] /\ active[j] \in Nat
        BY <4>1, <1>6 DEF EngineInv, RampInv, Increasing
      <4>3. QED
        BY <4>2
    <3>3. QED
      BY <1>5, <3>1, <3>2
  <2>3. ASSUME NEW g \in (1 .. cursor') \ stopped' PROVE \E k \in 1 .. t : active'[k] = g
    <3>1. g \in Active /\ g \notin {active[k] : k \in t + 1 .. Len(active)}
      BY <1>5, <2>1, <2>3
    <3>2. PICK k \in 1 .. Len(active) : g = active[k]
      BY <3>1, <1>6 DEF Active
    <3>3. k \in 1 .. t
      BY <1>3, <3>1, <3>2
    <3>4. QED
      BY <3>2, <3>3, <1>7
  <2>4. QED
    BY <1>8, <2>2, <2>3 DEF Active
<1>12. RampInv'
  <2>1. Len(active') = load'.stages[stage'] /\ stage' >= 1
    BY <1>1, <1>4, <1>5, <1>7
  <2>2. QED
    BY <1>10, <1>11, <2>1 DEF RampInv
<1>13. ~NeverScalesDown
  <2>1. SUFFICES ASSUME NeverScalesDown PROVE FALSE
    OBVIOUS
  <2>2. \A j \in 1 .. stage + 1 : load.stages[j] <= load.stages[stage + 1]
    <3>1. DOMAIN load.stages = 1 .. Len(load.stages)
      BY <1>1, LenProperties
    <3>2. QED
      BY <1>1, <1>2, <2>1, <3>1 DEF NeverScalesDown
  <2>3. Len(active) = IF stage = 0 THEN 0 ELSE load.stages[stage]
    BY <1>1, <2>1 DEF EngineInv, SpawnInv
  <2>4. CASE stage = 0
    BY <1>3, <2>3, <2>4
  <2>5. CASE stage # 0
    <3>1. stage \in 1 .. stage + 1
      BY <1>1, <2>5
    <3>2. Len(active) <= load.stages[stage + 1]
      BY <2>2, <2>3, <2>5, <3>1
    <3>3. QED
      BY <1>3, <3>2
  <2>6. QED
    BY <2>4, <2>5
<1>14. SpawnInv'
  <2>1. ~NeverScalesDown'
    BY <1>5, <1>13 DEF NeverScalesDown
  <2>2. QED
    BY <1>1, <1>5, <2>1 DEF SpawnInv
<1>15. SchedulerInv' /\ ReturnsAfterAll'
  BY <1>1, <1>5 DEF SchedulerInv, ReturnsAfterAll
<1>16. QED
  BY <1>9, <1>12, <1>14, <1>15 DEF EngineInv

(* Every step of the engine keeps the invariant. *)
LEMMA NextKeepsInv == EngineInv /\ [Next]_vars => EngineInv'
<1> SUFFICES ASSUME EngineInv, [Next]_vars PROVE EngineInv'
  OBVIOUS
<1>1. CASE \/ Start \/ Deadline \/ Interrupt \/ AllSpawned \/ StageElapsed
           \/ TickDropped \/ StopTicking \/ Return \/ UNCHANGED vars
  BY <1>1, QuietKeepsInv
<1>2. CASE Spawn \/ TickStarts
  BY <1>2, AppendKeepsInv
<1>3. CASE EnterStage
  <2>1. load.stages[stage + 1] \in Nat /\ Len(active) \in Nat
    <3>1. /\ load.stages \in Seq(Nat) /\ active \in Seq(1 .. cursor)
          /\ stage \in Nat /\ stage < Len(load.stages)
      BY <1>3, LoadType DEF EngineInv, TypeOK, EnterStage
    <3>2. stage + 1 \in 1 .. Len(load.stages)
      BY <3>1
    <3>3. QED
      BY <3>1, <3>2, ElementOfSeq, LenProperties
  <2>2. load.stages[stage + 1] >= Len(active) \/ load.stages[stage + 1] < Len(active)
    BY <2>1
  <2>3. QED
    BY <1>3, <2>2, ScaleUpKeepsInv, ScaleDownKeepsInv
<1>4. CASE StopAll
  BY <1>4, StopAllKeepsInv
<1>5. CASE \E g \in 1 .. cursor : VUStep(g)
  BY <1>5, VUKeepsInv
<1>6. QED
  BY <1>1, <1>2, <1>3, <1>4, <1>5 DEF Next, Scheduler

(* The inductive invariant, of every behaviour of the engine. *)
THEOREM Invariance == Spec => []EngineInv
<1>1. Init => EngineInv
  BY InitHolds
<1>2. EngineInv /\ [Next]_vars => EngineInv'
  BY NextKeepsInv
<1>3. QED
  BY <1>1, <1>2, PTL DEF Spec

(* Run returns when no goroutine it started is left (wg.Wait, every way    *)
(* out of the three schedulers).                                           *)
THEOREM NobodyLeft == Spec => []ReturnsAfterAll
<1>1. EngineInv => ReturnsAfterAll
  BY DEF EngineInv
<1>2. QED
  BY <1>1, Invariance, PTL

(* The held stage has the VUs of its target, and every VU not cancelled    *)
(* can be (scaleTo's bookkeeping), over any stages.                        *)
THEOREM StagesMet == Spec => []StageHasItsVUs
<1>1. EngineInv => StageHasItsVUs
  BY DEF EngineInv, RampInv, Active, StageHasItsVUs
<1>2. QED
  BY <1>1, Invariance, PTL

(* Scaling down cancels only VUs spawned after all that stay (the loop of  *)
(* scaleTo pops the end of active).                                        *)
THEOREM NewestFirst == Spec => NewestRetiredFirst
<1>1. ASSUME EngineInv, [Next]_vars
      PROVE  [\A g \in stopped' \ stopped : \A k \in DOMAIN active' : active'[k] < g]_vars
  <2>1. CASE StopAll
    BY <2>1 DEF StopAll
  <2>2. CASE EnterStage
    <3>1. /\ load.stages \in Seq(Nat) /\ active \in Seq(1 .. cursor)
          /\ stage \in Nat /\ stage < Len(load.stages)
      BY <1>1, <2>2, LoadType DEF EngineInv, TypeOK, EnterStage
    <3>2. stage + 1 \in 1 .. Len(load.stages)
      BY <3>1
    <3>3. PICK t \in Nat : t = load.stages[stage + 1]
      BY <3>1, <3>2, ElementOfSeq
    <3>4. Len(active) \in Nat /\ DOMAIN active = 1 .. Len(active)
      BY <3>1, LenProperties
    <3>5. CASE t >= Len(active)
      <4>1. UNCHANGED stopped
        BY <2>2, <3>3, <3>4, <3>5 DEF EnterStage
      <4>2. QED
        BY <4>1
    <3>6. CASE t < Len(active)
      <4>1. ~(load.stages[stage + 1] - Len(active) >= 0)
            /\ Len(active) + (load.stages[stage + 1] - Len(active)) = t
        BY <3>3, <3>4, <3>6
      <4>2. /\ active' = SubSeq(active, 1, t)
            /\ stopped' = stopped \cup {active[k] : k \in t + 1 .. Len(active)}
        BY <2>2, <4>1 DEF EnterStage
      <4>3. /\ SubSeq(active, 1, t) \in Seq(1 .. cursor)
            /\ Len(SubSeq(active, 1, t)) = IF 1 <= t THEN t - 1 + 1 ELSE 0
            /\ \A k \in 1 .. t - 1 + 1 : SubSeq(active, 1, t)[k] = active[1 + k - 1]
        <5>1. \A k \in 1 .. t : active[k] \in 1 .. cursor
          <6>1. 1 .. t \subseteq 1 .. Len(active)
            BY <3>4, <3>6
          <6>2. QED
            BY <6>1, <3>1, ElementOfSeq
        <5>2. QED
          BY <5>1, SubSeqProperties
      <4>4. DOMAIN active' = 1 .. t /\ \A k \in 1 .. t : active'[k] = active[k]
        <5>1. Len(active') = t
          BY <4>2, <4>3
        <5>2. QED
          BY <4>2, <4>3, <5>1, LenProperties
      <4>5. ASSUME NEW j \in t + 1 .. Len(active), NEW k \in 1 .. t
            PROVE  active'[k] < active[j]
        <5>1. k \in DOMAIN active /\ j \in DOMAIN active /\ k < j
          BY <3>4, <3>6
        <5>2. QED
          BY <1>1, <4>4, <5>1 DEF EngineInv, RampInv, Increasing
      <4>6. QED
        BY <4>2, <4>4, <4>5
    <3>7. QED
      BY <3>3, <3>4, <3>5, <3>6
  <2>3. CASE ~StopAll /\ ~EnterStage
    <3>1. UNCHANGED stopped
      <4>1. ASSUME NEW g \in 1 .. cursor, VUStep(g) PROVE UNCHANGED stopped
        BY <4>1 DEF VUStep, BeginIteration, EndIteration, SkipIteration, Finish, Become
      <4>2. CASE UNCHANGED vars
        BY <4>2 DEF vars
      <4>3. CASE Start \/ Spawn \/ AllSpawned \/ StageElapsed \/ TickStarts
                 \/ TickDropped \/ StopTicking \/ Return \/ Deadline \/ Interrupt
        BY <4>3 DEF Start, Spawn, AllSpawned, StageElapsed, TickStarts, TickDropped,
                    StopTicking, Return, Deadline, Interrupt
      <4>4. QED
        BY <1>1, <2>3, <4>1, <4>2, <4>3 DEF Next, Scheduler
    <3>2. QED
      BY <3>1
  <2>4. QED
    BY <2>1, <2>2, <2>3
<1>2. QED
  BY <1>1, Invariance, PTL DEF Spec, NewestRetiredFirst

(* With wallets for all the VUs of a constant load, or of a ramp that      *)
(* never goes down, no two running VUs have the same wallet                *)
(* (nextWallet's round robin).                                             *)
THEOREM WalletsApart == Spec => []WalletsNotShared
<1>1. ASSUME EngineInv PROVE WalletsNotShared
  <2>1. SUFFICES ASSUME NeverScalesDown, NEW g \in 1 .. cursor, NEW h \in 1 .. cursor,
                        g # h, g \notin stopped, h \notin stopped
                 PROVE  WalletOf(g) # WalletOf(h)
    BY DEF WalletsNotShared
  <2>2. /\ load.stages \in Seq(Nat) /\ load.vus \in Nat /\ load.wallets \in Nat
        /\ cursor \in Nat /\ stage \in 0 .. Len(load.stages)
    BY <1>1, LoadType DEF EngineInv, TypeOK
  <2>3. cursor <= load.wallets
    <3>1. CASE load.type = "constant" /\ load.vus <= load.wallets
      BY <1>1, <2>2, <3>1 DEF EngineInv, SpawnInv
    <3>2. CASE /\ load.type = "ramping"
               /\ \A k \in DOMAIN load.stages : load.stages[k] <= load.wallets
      <4>1. run \in {"start", "enter", "hold"}
        BY <1>1, <2>1, <3>2 DEF EngineInv, SpawnInv
      <4>2. cursor = IF stage = 0 THEN 0 ELSE load.stages[stage]
        BY <1>1, <2>1, <3>2, <4>1 DEF EngineInv, SpawnInv
      <4>3. stage # 0 => stage \in DOMAIN load.stages
        BY <2>2, LenProperties
      <4>4. QED
        BY <2>2, <3>2, <4>2, <4>3
    <3>3. QED
      BY <2>1, <3>1, <3>2 DEF NeverScalesDown
  <2>4. ASSUME NEW x \in 1 .. cursor PROVE WalletOf(x) = x - 1
    <3>1. PICK n \in Nat : n = load.wallets
      BY <2>2
    <3>2. x - 1 \in Nat /\ x - 1 < n /\ n > 0
      BY <2>2, <2>3, <3>1
    <3>3. (x - 1) % n = x - 1
      BY <3>2
    <3>4. QED
      BY <3>1, <3>3 DEF WalletOf
  <2>5. QED
    BY <2>1, <2>2, <2>4
<1>2. QED
  BY <1>1, Invariance, PTL
(* A run that fails, or is about to, has a cause: a deadline that expires  *)
(* is none, and a ramp has no deadline of its own.                         *)
FailInv ==
    /\ load.type = "ramping" => ctx # "expired"
    /\ run = "aborting" => ctx # "live"
    /\ run = "failed" => ctx = "cancelled" \/ load.wallets = 0

(* Run fails only when it was interrupted or has no wallet: the deadline   *)
(* that ends a constant or an arrival-rate load is not an error            *)
(* (load/engine.go:76, 176), and stages end in nil.                        *)
THEOREM FailuresHaveACause == Spec => []FailInv
<1>1. Init => FailInv
  BY DEF Init, FailInv
<1>2. ASSUME EngineInv, FailInv, [Next]_vars PROVE FailInv'
  <2>1. run = "aborting" => load.type = "ramping"
    BY <1>2 DEF EngineInv, SchedulerInv
  <2>2. ctx \in {"live", "expired", "cancelled"}
    BY <1>2 DEF EngineInv, TypeOK
  <2>3. CASE UNCHANGED vars
    BY <1>2, <2>3 DEF vars, FailInv
  <2>4. ASSUME NEW g \in 1 .. cursor, VUStep(g) PROVE FailInv'
    <3>1. UNCHANGED <<load, run, ctx>>
      BY <2>4 DEF VUStep, BeginIteration, EndIteration, SkipIteration, Finish, Become
    <3>2. QED
      BY <1>2, <3>1 DEF FailInv
  <2>5. CASE Spawn \/ TickStarts \/ TickDropped
    BY <1>2, <2>5 DEF Spawn, TickStarts, TickDropped, FailInv
  <2>6. CASE Start
    <3>1. load.type \in {"constant", "ramping", "arrival-rate"}
      BY <1>2, LoadType DEF EngineInv, TypeOK
    <3>2. UNCHANGED <<load, ctx>> /\ run' # "aborting" /\ (run' = "failed" => load.wallets = 0)
      BY <2>6, <3>1 DEF Start
    <3>3. QED
      BY <1>2, <3>2 DEF FailInv
  <2>7. CASE AllSpawned \/ EnterStage \/ StageElapsed \/ StopTicking
    BY <1>2, <2>7 DEF AllSpawned, EnterStage, StageElapsed, StopTicking, FailInv
  <2>8. CASE StopAll
    BY <1>2, <2>8 DEF StopAll, FailInv
  <2>9. CASE Return
    BY <1>2, <2>1, <2>2, <2>9 DEF Return, FailInv
  <2>10. CASE Deadline \/ Interrupt
    BY <1>2, <2>10 DEF Deadline, Interrupt, FailInv
  <2>11. QED
    BY <1>2, <2>3, <2>4, <2>5, <2>6, <2>7, <2>8, <2>9, <2>10 DEF Next, Scheduler
<1>3. QED
  BY <1>1, <1>2, Invariance, PTL DEF Spec

-----------------------------------------------------------------------------
(* The plugins, and the commands that use them. *)

(* At most one line is on its way, and its caller has the mutex. *)
OneLine(p) ==
    \/ requests[p] = <<>> /\ answers[p] = <<>>
    \/ \E g \in mu[p] : \/ requests[p] = <<g>> /\ answers[p] = <<>>
                        \/ requests[p] = <<>> /\ answers[p] = <<g>>

PluginInv ==
    /\ PluginTypeOK
    /\ \A p \in Processes :
         /\ process[p] # "running" => requests[p] = <<>>
         /\ OneLine(p)
         /\ \A g \in Callers : g \in mu[p] <=> Reading(g, p)
         /\ \A g, h \in mu[p] : g = h

(* What a goroutine in Call looks like. *)
LEMMA CallShape ==
    ASSUME NEW g, NEW p
    PROVE  /\ Queued(g, p) => call[g] # NotInCall /\ call[g].process = p
           /\ Reading(g, p) => call[g] # NotInCall /\ call[g].process = p
           /\ ~(Queued(g, p) /\ Reading(g, p))
           /\ \A q : Queued(g, p) => ~Reading(g, q)
           /\ \A q : Reading(g, p) /\ Reading(g, q) => p = q
BY DEF Queued, Reading, NotInCall

LEMMA PluginInitHolds == PluginInit => PluginInv
<1> SUFFICES ASSUME PluginInit PROVE PluginInv
  OBVIOUS
<1>1. PluginTypeOK
  <2>1. requests \in [Processes -> Seq(Callers)] /\ answers \in [Processes -> Seq(Callers)]
    BY EmptySeq DEF PluginInit
  <2>2. QED
    BY <2>1 DEF PluginInit, PluginTypeOK, Behaviours, NotInCall
<1>2. QED
  BY <1>1 DEF PluginInit, PluginInv, OneLine, Reading, NotInCall

(* A step that leaves the calls and the pipes alone. *)
LEMMA ProcessStepKeepsInv ==
    ASSUME PluginInv, PluginTypeOK', UNCHANGED <<requests, answers, mu, call>>,
           \A p \in Processes : process'[p] # "running" => requests[p] = <<>>
    PROVE  PluginInv'
BY DEF PluginInv, OneLine, Reading

(* What the steps of a goroutine g in Call on p have in common: p's pipes  *)
(* and mutex change, and where g is.                                       *)
LEMMA OneCallerKeepsInv ==
    ASSUME PluginInv, PluginTypeOK', NEW g \in Callers, NEW p \in Processes,
           UNCHANGED process,
           \A h \in Callers \ {g} : call'[h] = call[h],
           \A q \in Processes \ {p} :
             /\ requests'[q] = requests[q] /\ answers'[q] = answers[q] /\ mu'[q] = mu[q]
             /\ ~Reading(g, q) /\ ~Reading(g, q)',
           process[p] # "running" => requests'[p] = <<>>,
           OneLine(p)',
           g \in mu'[p] <=> Reading(g, p)',
           \A h \in Callers \ {g} : h \in mu'[p] <=> h \in mu[p],
           \A h, k \in mu'[p] : h = k
    PROVE  PluginInv'
<1>1. ASSUME NEW q \in Processes \ {p}
      PROVE  /\ process'[q] # "running" => requests'[q] = <<>>
             /\ OneLine(q)'
             /\ \A h \in Callers : h \in mu'[q] <=> Reading(h, q)'
             /\ \A h, k \in mu'[q] : h = k
  <2>1. \A h \in Callers \ {g} : Reading(h, q)' <=> Reading(h, q)
    BY DEF Reading
  <2>2. QED
    BY <1>1, <2>1 DEF PluginInv, OneLine
<1>2. \A h \in Callers \ {g} : Reading(h, p)' <=> Reading(h, p)
  BY DEF Reading
<1>3. \A h \in Callers : h \in mu'[p] <=> Reading(h, p)'
  BY <1>2 DEF PluginInv
<1>4. QED
  BY <1>1, <1>3 DEF PluginInv

(* Call: the mutex, the request, the answer or the end of the plugin. *)
LEMMA CallStepKeepsInv ==
    ASSUME PluginInv, NEW g \in Callers, CallStep(g)
    PROVE  PluginInv' /\ UNCHANGED <<process, stdin>>
<1>1. PICK p \in Processes : \/ WriteRequest(g, p) \/ WriteFails(g, p)
                             \/ ReadLine(g, p) \/ ReadEOF(g, p)
  BY DEF CallStep
<1> DEFINE R == [phase |-> "reading", process |-> p]
<1>2. PluginTypeOK
  BY DEF PluginInv
<1>3. OneLine(p) /\ (g \in mu[p] <=> Reading(g, p)) /\ \A h, k \in mu[p] : h = k
  BY DEF PluginInv
<1>4. CASE WriteRequest(g, p)
  <2>1. /\ mu[p] = {} /\ mu' = [mu EXCEPT ![p] = {g}]
        /\ requests' = [requests EXCEPT ![p] = Append(@, g)]
        /\ process[p] = "running" /\ Queued(g, p)
        /\ call' = [call EXCEPT ![g].phase = "reading"]
        /\ UNCHANGED <<process, behaviour, stdin, answers>>
    BY <1>4 DEF WriteRequest, CanBeWritten
  <2>2. requests[p] = <<>> /\ answers[p] = <<>>
    BY <2>1, <1>3 DEF OneLine
  <2>3. call' = [call EXCEPT ![g] = R]
    <3>1. [call[g] EXCEPT !.phase = "reading"] = R
      BY <2>1 DEF Queued
    <3>2. QED
      BY <2>1, <3>1
  <2>4. requests' = [requests EXCEPT ![p] = <<g>>]
    <3>1. Append(<<>>, g) = <<g>>
      OBVIOUS
    <3>2. QED
      BY <2>1, <2>2, <3>1
  <2>5. /\ requests'[p] = <<g>> /\ answers'[p] = <<>> /\ mu'[p] = {g}
        /\ call'[g] = R
        /\ \A h \in Callers \ {g} : call'[h] = call[h]
        /\ \A q \in Processes \ {p} :
             requests'[q] = requests[q] /\ answers'[q] = answers[q] /\ mu'[q] = mu[q]
    BY <1>2, <2>1, <2>2, <2>3, <2>4 DEF PluginTypeOK
  <2>6. PluginTypeOK'
    <3>1. <<g>> \in Seq(Callers)
      OBVIOUS
    <3>2. requests' \in [Processes -> Seq(Callers)] /\ answers' \in [Processes -> Seq(Callers)]
      BY <1>2, <2>1, <2>4, <3>1 DEF PluginTypeOK
    <3>3. call' \in [Callers -> {NotInCall} \cup [phase : {"queued", "reading"}, process : Processes]]
      BY <1>2, <2>3 DEF PluginTypeOK
    <3>4. mu' \in [Processes -> SUBSET Callers]
      BY <1>2, <2>1 DEF PluginTypeOK
    <3>5. QED
      BY <1>2, <2>1, <3>2, <3>3, <3>4 DEF PluginTypeOK
  <2>7. /\ \A q \in Processes : ~Reading(g, q)
        /\ \A q \in Processes \ {p} : ~Reading(g, q)'
        /\ Reading(g, p)'
    <3>1. \A q \in Processes : ~Reading(g, q)
      BY <2>1, CallShape
    <3>2. Reading(g, p)'
      BY <2>5 DEF Reading
    <3>3. ASSUME NEW q \in Processes \ {p} PROVE ~Reading(g, q)'
      <4>1. R # [phase |-> "reading", process |-> q]
        BY <3>3
      <4>2. QED
        BY <2>5, <4>1 DEF Reading
    <3>4. QED
      BY <3>1, <3>2, <3>3
  <2>8. OneLine(p)'
    BY <2>5 DEF OneLine
  <2>9. PluginInv'
    BY <2>1, <2>5, <2>6, <2>7, <2>8, OneCallerKeepsInv
  <2>10. QED
    BY <2>1, <2>9
<1>5. CASE WriteFails(g, p) \/ ReadLine(g, p) \/ ReadEOF(g, p)
  <2>1. /\ mu' = [mu EXCEPT ![p] = @ \ {g}]
        /\ call' = [call EXCEPT ![g] = NotInCall]
        /\ UNCHANGED <<process, behaviour, stdin, requests>>
        /\ (Queued(g, p) /\ mu[p] = {}) \/ Reading(g, p)
    BY <1>5 DEF WriteFails, ReadLine, ReadEOF, LeaveCall
  <2>2. /\ mu'[p] = mu[p] \ {g}
        /\ call'[g] = NotInCall
        /\ \A h \in Callers \ {g} : call'[h] = call[h]
        /\ \A q \in Processes \ {p} : requests'[q] = requests[q] /\ mu'[q] = mu[q]
    BY <1>2, <2>1 DEF PluginTypeOK
  <2>3. /\ requests'[p] = <<>> /\ answers'[p] = <<>>
        /\ \A q \in Processes \ {p} : answers'[q] = answers[q]
        /\ answers' \in [Processes -> Seq(Callers)]
    <3>1. CASE WriteFails(g, p)
      <4>1. mu[p] = {} /\ UNCHANGED <<requests, answers>>
        BY <3>1 DEF WriteFails
      <4>2. QED
        BY <4>1, <1>2, <1>3 DEF OneLine, PluginTypeOK
    <3>2. CASE ReadEOF(g, p)
      <4>1. /\ answers[p] = <<>> /\ process[p] # "running" /\ UNCHANGED <<requests, answers>>
        BY <3>2 DEF ReadEOF
      <4>2. QED
        BY <4>1, <1>2 DEF PluginInv, PluginTypeOK
    <3>3. CASE ReadLine(g, p)
      <4>1. answers[p] # <<>> /\ answers' = [answers EXCEPT ![p] = Tail(@)] /\ UNCHANGED requests
        BY <3>3 DEF ReadLine
      <4>2. PICK h \in mu[p] : requests[p] = <<>> /\ answers[p] = <<h>>
        BY <4>1, <1>3 DEF OneLine
      <4>3. Tail(<<h>>) = <<>>
        OBVIOUS
      <4>4. answers'[p] = <<>> /\ \A q \in Processes \ {p} : answers'[q] = answers[q]
        BY <4>1, <4>2, <4>3, <1>2 DEF PluginTypeOK
      <4>5. <<>> \in Seq(Callers)
        BY EmptySeq
      <4>6. QED
        BY <4>1, <4>2, <4>4, <4>5, <1>2 DEF PluginTypeOK
    <3>4. QED
      BY <1>5, <3>1, <3>2, <3>3
  <2>4. PluginTypeOK'
    <3>1. call' \in [Callers -> {NotInCall} \cup [phase : {"queued", "reading"}, process : Processes]]
      BY <1>2, <2>1 DEF PluginTypeOK
    <3>2. mu' \in [Processes -> SUBSET Callers]
      BY <1>2, <2>1 DEF PluginTypeOK
    <3>3. QED
      BY <1>2, <2>1, <2>3, <3>1, <3>2 DEF PluginTypeOK
  <2>5. \A q \in Processes : ~Reading(g, q)'
    BY <2>2 DEF Reading, NotInCall
  <2>6. \A q \in Processes \ {p} : ~Reading(g, q)
    BY <2>1, CallShape
  <2>7. OneLine(p)'
    BY <2>3 DEF OneLine
  <2>8. PluginInv'
    BY <1>3, <2>1, <2>2, <2>3, <2>4, <2>5, <2>6, <2>7, OneCallerKeepsInv
  <2>9. QED
    BY <2>1, <2>8
<1>6. QED
  BY <1>1, <1>4, <1>5

(* A goroutine asks for a plugin. *)
LEMMA BeginCallKeepsInv ==
    ASSUME PluginInv, NEW g \in Callers, NEW p \in Processes, BeginCall(g, p)
    PROVE  PluginInv'
<1>1. /\ call[g] = NotInCall
      /\ call' = [call EXCEPT ![g] = [phase |-> "queued", process |-> p]]
      /\ UNCHANGED <<process, behaviour, stdin, requests, answers, mu>>
  BY DEF BeginCall
<1>2. PluginTypeOK'
  BY <1>1 DEF PluginInv, PluginTypeOK
<1>3. /\ call'[g] = [phase |-> "queued", process |-> p]
      /\ \A h \in Callers \ {g} : call'[h] = call[h]
  BY <1>1 DEF PluginInv, PluginTypeOK
<1>4. ASSUME NEW q \in Processes, NEW h \in Callers
      PROVE  Reading(h, q)' <=> Reading(h, q)
  BY <1>1, <1>3 DEF Reading, NotInCall
<1>5. QED
  BY <1>1, <1>2, <1>4 DEF PluginInv, OneLine

(* The plugin answers, exits or crashes. *)
LEMMA PluginKeepsInv ==
    ASSUME PluginInv, NEW p \in Processes, Plugin(p)
    PROVE  PluginInv'
<1>1. PluginTypeOK /\ OneLine(p)
  BY DEF PluginInv
<1>2. \A q \in Processes, h \in Callers : Reading(h, q)' <=> Reading(h, q)
  BY DEF Plugin, Answer, ExitProcess, Reading
<1>3. CASE Answer(p)
  <2>1. /\ process[p] = "running" /\ requests[p] # <<>>
        /\ requests' = [requests EXCEPT ![p] = Tail(@)]
        /\ answers' = [answers EXCEPT ![p] = Append(@, Head(requests[p]))]
        /\ UNCHANGED <<process, behaviour, stdin, mu, call>>
    BY <1>3 DEF Answer
  <2>2. PICK g \in mu[p] : requests[p] = <<g>> /\ answers[p] = <<>>
    BY <1>1, <2>1 DEF OneLine
  <2>3. g \in Callers
    BY <1>1 DEF PluginTypeOK
  <2>4. Tail(<<g>>) = <<>> /\ Head(<<g>>) = g /\ Append(<<>>, g) = <<g>>
    OBVIOUS
  <2>5. /\ requests'[p] = <<>> /\ answers'[p] = <<g>>
        /\ \A q \in Processes \ {p} : requests'[q] = requests[q] /\ answers'[q] = answers[q]
    BY <1>1, <2>1, <2>2, <2>4 DEF PluginTypeOK
  <2>6. <<g>> \in Seq(Callers) /\ <<>> \in Seq(Callers)
    BY <2>3, EmptySeq
  <2>7. PluginTypeOK'
    <3>0. /\ requests' = [requests EXCEPT ![p] = <<>>]
          /\ answers' = [answers EXCEPT ![p] = <<g>>]
      BY <2>1, <2>2, <2>4
    <3>1. requests' \in [Processes -> Seq(Callers)] /\ answers' \in [Processes -> Seq(Callers)]
      BY <1>1, <2>6, <3>0 DEF PluginTypeOK
    <3>2. QED
      BY <1>1, <2>1, <3>1 DEF PluginTypeOK
  <2>8. \A q \in Processes : OneLine(q)'
    BY <2>1, <2>5, <2>2 DEF PluginInv, OneLine
  <2>9. QED
    BY <1>2, <2>1, <2>5, <2>7, <2>8 DEF PluginInv
<1>4. CASE ExitProcess(p)
  <2>1. /\ process' = [process EXCEPT ![p] = "exited"]
        /\ requests' = [requests EXCEPT ![p] = <<>>]
        /\ UNCHANGED <<behaviour, stdin, answers, mu, call>>
    BY <1>4 DEF ExitProcess
  <2>2. /\ requests'[p] = <<>>
        /\ \A q \in Processes \ {p} : requests'[q] = requests[q] /\ process'[q] = process[q]
    BY <1>1, <2>1 DEF PluginInv, PluginTypeOK
  <2>3. PluginTypeOK'
    <3>1. requests' \in [Processes -> Seq(Callers)]
      BY <1>1, <2>1, EmptySeq DEF PluginTypeOK
    <3>2. process' \in [Processes -> {"absent", "running", "exited", "reaped"}]
      BY <1>1, <2>1 DEF PluginTypeOK
    <3>3. QED
      BY <1>1, <2>1, <3>1, <3>2 DEF PluginTypeOK
  <2>4. \A q \in Processes : OneLine(q)'
    BY <2>1, <2>2 DEF PluginInv, OneLine
  <2>5. QED
    BY <1>2, <2>1, <2>2, <2>3, <2>4 DEF PluginInv
<1>5. QED
  BY <1>3, <1>4 DEF Plugin

(* Close, and the system's closing of the pipes of a killed process. *)
LEMMA CloseKeepsInv ==
    ASSUME PluginInv, NEW p \in Processes, CloseStdin(p) \/ Wait(p)
    PROVE  PluginInv'
<1>1. PluginTypeOK'
  BY DEF PluginInv, PluginTypeOK, CloseStdin, Wait
<1>2. UNCHANGED <<requests, answers, mu, call>>
  BY DEF CloseStdin, Wait
<1>3. \A q \in Processes : process'[q] # "running" => requests[q] = <<>>
  BY DEF PluginInv, PluginTypeOK, CloseStdin, Wait
<1>4. QED
  BY <1>1, <1>2, <1>3, ProcessStepKeepsInv

LEMMA StartKeepsInv ==
    ASSUME PluginInv, NEW p \in Processes, NEW b \in Behaviours, StartProcess(p, b)
    PROVE  PluginInv'
<1>1. PluginTypeOK'
  BY DEF PluginInv, PluginTypeOK, StartProcess
<1>2. UNCHANGED <<requests, answers, mu, call>>
  BY DEF StartProcess
<1>3. \A q \in Processes : process'[q] # "running" => requests[q] = <<>>
  BY DEF PluginInv, PluginTypeOK, StartProcess
<1>4. QED
  BY <1>1, <1>2, <1>3, ProcessStepKeepsInv
-----------------------------------------------------------------------------
(* The goroutines that call a plugin are in an iteration of an engine that *)
(* runs; a plugin's input is open as long as the command takes its steps;  *)
(* the plugins there are were started, and none is left at the end.        *)
LifetimeInv ==
    /\ \A g \in Callers : InCall(g) =>
         /\ g <= cursor /\ vu[g] = "iterating"
         /\ At("engine") \/ phase = "killed"
    /\ \A p \in Processes :
         /\ process[p] # "absent" => 1 <= p /\ p <= started
         /\ (process[p] # "absent" /\ phase = "stepping") => stdin[p] = "open"
         /\ (phase = "returned" /\ 1 <= p /\ p <= started) => process[p] = "reaped"

Inv == EngineInv /\ PluginInv /\ CommandTypeOK /\ LifetimeInv

LEMMA SetupType ==
    ASSUME setup \in Setups
    PROVE  /\ setup.command \in DOMAIN Steps
           /\ setup.load \in Loads
           /\ setup.specs \in Seq(Behaviours \cup {"unstartable"})
           /\ DOMAIN setup.specs \subseteq Processes
           /\ Processes \subseteq Nat /\ Callers \subseteq Nat
BY RunCommandAssumption

(* A command steps its engine or leaves it alone. *)
LEMMA StepOfEngine == [CommandNext]_allVars => [Next]_vars
<1> SUFFICES ASSUME [CommandNext]_allVars PROVE [Next]_vars
  OBVIOUS
<1>1. CASE UNCHANGED allVars
  BY <1>1 DEF allVars
<1>2. CASE Command
  BY <1>2 DEF Command, Check, LoadPlugin, PluginsLoaded, EngineReturned, Final, WriteReport,
              CheckAssertions, LastStep, CloseNext, ReturnFromCommand
<1>3. CASE EngineStep
  BY <1>3 DEF EngineStep, Next
<1>4. CASE Kill
  BY <1>4 DEF Kill
<1>5. CASE \E g \in Callers : CallStepOf(g) \/ \E p \in Processes : PluginStep(g, p)
  BY <1>5 DEF CallStepOf, PluginStep
<1>6. CASE \E p \in Processes : Plugin(p) /\ UNCHANGED <<vars, cmdVars>>
  BY <1>6
<1>7. QED
  BY <1>1, <1>2, <1>3, <1>4, <1>5, <1>6 DEF CommandNext

LEMMA StepsLen == \A c \in DOMAIN Steps : Len(Steps[c]) \in Nat
BY DEF Steps

LEMMA InitHoldsOfCommand == CommandInit => Inv
<1> SUFFICES ASSUME CommandInit PROVE Inv
  OBVIOUS
<1>1. EngineInv /\ PluginInv
  BY InitHolds, PluginInitHolds DEF CommandInit
<1>2. CommandTypeOK
  <2>1. 0 \in 0 .. Len(Steps[setup.command]) /\ 0 \in 0 .. Len(setup.specs)
    BY SetupType, StepsLen, LenProperties DEF CommandInit
  <2>2. QED
    BY <1>1, <2>1 DEF CommandInit, CommandTypeOK, EngineInv, PluginInv
<1>3. LifetimeInv
  BY DEF CommandInit, PluginInit, LifetimeInv, InCall
<1>4. QED
  BY <1>1, <1>2, <1>3 DEF Inv

(* The steps that neither the engine nor a plugin notices. *)
LEMMA QuietStepKeepsInv ==
    ASSUME Inv,
           \/ \E step \in Checks : Check(step)
           \/ PluginsLoaded \/ EngineReturned \/ Final
           \/ \E file \in {"json", "html"} : WriteReport(file)
           \/ CheckAssertions \/ LastStep
    PROVE  Inv'
<1>1. /\ UNCHANGED <<vars, pluginVars, setup, started>>
      /\ phase = "stepping" /\ phase' \in {"stepping", "closing"}
  BY DEF Check, PluginsLoaded, EngineReturned, Final, WriteReport, CheckAssertions, LastStep,
         At, Proceed, Abort
<1>2. \A g \in Callers : ~InCall(g)
  <2>1. CASE EngineReturned
    <3>1. run \in {"ok", "failed"}
      BY <2>1 DEF EngineReturned
    <3>2. \A g \in 1 .. cursor : vu[g] = "done"
      BY <3>1 DEF Inv, EngineInv, ReturnsAfterAll
    <3>3. ASSUME NEW g \in Callers, InCall(g) PROVE FALSE
      <4>1. 1 <= g /\ g \in Nat /\ cursor \in Nat
        BY RunCommandAssumption, LoadAssumption DEF Inv, EngineInv, TypeOK
      <4>2. g <= cursor /\ vu[g] = "iterating"
        BY <3>3 DEF Inv, LifetimeInv
      <4>3. g \in 1 .. cursor
        BY <4>1, <4>2
      <4>4. QED
        BY <3>2, <4>2, <4>3
    <3>4. QED
      BY <3>3
  <2>2. CASE ~EngineReturned
    <3>1. ~At("engine")
      BY <2>2 DEF Check, Checks, PluginsLoaded, Final, WriteReport, CheckAssertions, LastStep, At
    <3>2. QED
      BY <1>1, <3>1 DEF Inv, LifetimeInv
  <2>3. QED
    BY <2>1, <2>2
<1>3. EngineInv'
  BY <1>1, QuietKeepsInv DEF Inv
<1>4. PluginInv'
  BY <1>1 DEF Inv, PluginInv, PluginTypeOK, OneLine, Reading, pluginVars
<1>5. CommandTypeOK'
  <2>1. Len(Steps[setup.command]) \in Nat
    BY SetupType, StepsLen DEF Inv, CommandTypeOK
  <2>2. at' \in 0 .. Len(Steps[setup.command])
    BY <2>1 DEF Inv, CommandTypeOK, Check, PluginsLoaded, EngineReturned, Final, WriteReport,
                CheckAssertions, LastStep, At, Proceed, Abort
  <2>3. failed' \in {"none", "plugins", "engine"} \cup setup.fails
    BY DEF Inv, CommandTypeOK, Check, PluginsLoaded, EngineReturned, Final, WriteReport,
           CheckAssertions, LastStep, At, Proceed, Abort
  <2>4. written' \subseteq {"json", "html"}
    BY DEF Inv, CommandTypeOK, Check, PluginsLoaded, EngineReturned, Final, WriteReport,
           CheckAssertions, LastStep, At, Proceed, Abort
  <2>5. QED
    BY <1>1, <1>3, <1>4, <2>2, <2>3, <2>4
    DEF Inv, CommandTypeOK, EngineInv, PluginInv, vars
<1>6. LifetimeInv'
  BY <1>1, <1>2 DEF Inv, LifetimeInv, InCall, pluginVars
<1>7. QED
  BY <1>3, <1>4, <1>5, <1>6 DEF Inv

(* loadPlugins. *)
LEMMA LoadPluginKeepsInv ==
    ASSUME Inv, LoadPlugin
    PROVE  Inv'
<1>1. /\ phase = "stepping" /\ started < Len(setup.specs)
      /\ UNCHANGED <<vars, setup, at, written>>
      /\ \A g \in Callers : ~InCall(g)
  BY DEF LoadPlugin, Abort, At, Inv, LifetimeInv
<1>2. /\ started \in Nat /\ started + 1 \in 1 .. Len(setup.specs)
      /\ started + 1 \in Processes /\ Processes \subseteq Nat
      /\ setup.specs[started + 1] \in Behaviours \cup {"unstartable"}
  <2>1. setup.specs \in Seq(Behaviours \cup {"unstartable"}) /\ started \in 0 .. Len(setup.specs)
    BY SetupType DEF Inv, CommandTypeOK
  <2>2. started + 1 \in 1 .. Len(setup.specs)
    BY <1>1, <2>1, LenProperties
  <2>3. QED
    BY <2>1, <2>2, SetupType, LenProperties, ElementOfSeq DEF Inv, CommandTypeOK
<1>3. EngineInv'
  BY <1>1, QuietKeepsInv DEF Inv
<1>4. CASE setup.specs[started + 1] = "unstartable"
  <2>1. /\ failed' = "plugins" /\ phase' = "closing" /\ UNCHANGED <<started, pluginVars>>
    BY <1>4 DEF LoadPlugin, Abort
  <2>2. PluginInv'
    BY <2>1 DEF Inv, PluginInv, PluginTypeOK, OneLine, Reading, pluginVars
  <2>3. CommandTypeOK'
    BY <1>1, <1>3, <2>1, <2>2 DEF Inv, CommandTypeOK, EngineInv, PluginInv, vars
  <2>4. LifetimeInv'
    BY <1>1, <2>1 DEF Inv, LifetimeInv, InCall, pluginVars
  <2>5. QED
    BY <1>3, <2>2, <2>3, <2>4 DEF Inv
<1>5. CASE setup.specs[started + 1] # "unstartable"
  <2>1. /\ StartProcess(started + 1, setup.specs[started + 1])
        /\ started' = started + 1
        /\ UNCHANGED <<phase, failed>>
    BY <1>5 DEF LoadPlugin
  <2>2. PluginInv'
    BY <1>2, <1>5, <2>1, StartKeepsInv DEF Inv
  <2>3. CommandTypeOK'
    BY <1>1, <1>2, <1>3, <2>1, <2>2 DEF Inv, CommandTypeOK, EngineInv, PluginInv, vars
  <2>4. LifetimeInv'
    <3>1. \A g \in Callers : ~InCall(g)'
      BY <1>1, <2>1 DEF StartProcess, InCall
    <3>2. ASSUME NEW p \in Processes
          PROVE  process'[p] # "absent" => 1 <= p /\ p <= started' /\ stdin'[p] = "open"
      BY <1>1, <1>2, <2>1, <3>2
      DEF Inv, LifetimeInv, StartProcess, PluginInv, PluginTypeOK
    <3>3. phase' = "stepping"
      BY <1>1, <2>1
    <3>4. QED
      BY <3>1, <3>2, <3>3 DEF LifetimeInv
  <2>5. QED
    BY <1>3, <2>2, <2>3, <2>4 DEF Inv
<1>6. QED
  BY <1>4, <1>5

(* closePlugins, and the return after it. *)
LEMMA CloseKeepsInvOfCommand ==
    ASSUME Inv, ReturnFromCommand \/ \E p \in Processes : CloseNext(p)
    PROVE  Inv'
<1>1. phase = "closing" /\ UNCHANGED <<vars, setup, at, started, failed, written>>
  BY DEF ReturnFromCommand, CloseNext, cmdVars
<1>2. \A g \in Callers : ~InCall(g)
  BY <1>1 DEF Inv, LifetimeInv, At
<1>3. EngineInv'
  BY <1>1, QuietKeepsInv DEF Inv
<1>4. CASE ReturnFromCommand
  <2>1. phase' = "returned" /\ UNCHANGED pluginVars /\ ClosedBefore(started + 1)
    BY <1>4 DEF ReturnFromCommand
  <2>2. PluginInv'
    BY <2>1 DEF Inv, PluginInv, PluginTypeOK, OneLine, Reading, pluginVars
  <2>3. CommandTypeOK'
    BY <1>1, <1>3, <2>1, <2>2 DEF Inv, CommandTypeOK, EngineInv, PluginInv, vars
  <2>4. ASSUME NEW p \in Processes, 1 <= p, p <= started
        PROVE  process[p] = "reaped"
    <3>1. p \in 1 .. (started + 1) - 1
      BY <2>4, RunCommandAssumption DEF Inv, CommandTypeOK
    <3>2. QED
      BY <2>1, <3>1 DEF ClosedBefore
  <2>5. LifetimeInv'
    BY <1>1, <1>2, <2>1, <2>4 DEF Inv, LifetimeInv, InCall, pluginVars
  <2>6. QED
    BY <1>3, <2>2, <2>3, <2>5 DEF Inv
<1>5. ASSUME NEW p \in Processes, CloseNext(p) PROVE Inv'
  <2>1. /\ CloseStdin(p) \/ Wait(p)
        /\ UNCHANGED phase
    BY <1>5 DEF CloseNext, cmdVars
  <2>2. PluginInv'
    BY <2>1, CloseKeepsInv DEF Inv
  <2>3. CommandTypeOK'
    BY <1>1, <1>3, <2>1, <2>2 DEF Inv, CommandTypeOK, EngineInv, PluginInv, vars
  <2>4. LifetimeInv'
    <3>1. \A g \in Callers : ~InCall(g)'
      BY <1>2, <2>1 DEF CloseStdin, Wait, InCall
    <3>2. \A q \in Processes : process'[q] # "absent" => process[q] # "absent"
      BY <2>1 DEF CloseStdin, Wait, Inv, PluginInv, PluginTypeOK
    <3>3. phase' = "closing" /\ UNCHANGED started
      BY <1>1, <2>1
    <3>4. QED
      BY <3>1, <3>2, <3>3 DEF Inv, LifetimeInv
  <2>5. QED
    BY <1>3, <2>2, <2>3, <2>4 DEF Inv
<1>6. QED
  BY <1>4, <1>5

(* The engine runs: a goroutine in Call does not move. *)
LEMMA EngineStepKeepsInv ==
    ASSUME Inv, EngineStep
    PROVE  Inv'
<1>1. /\ At("engine") /\ UNCHANGED <<pluginVars, cmdVars>>
      /\ phase = "stepping"
  BY DEF EngineStep, At
<1>2. EngineInv'
  BY NextKeepsInv DEF Inv, EngineStep, Next
<1>3. PluginInv'
  BY <1>1 DEF Inv, PluginInv, PluginTypeOK, OneLine, Reading, pluginVars
<1>4. UNCHANGED load
  BY DEF EngineStep, Scheduler, Start, Spawn, AllSpawned, EnterStage, StageElapsed, StopAll,
         TickStarts, TickDropped, StopTicking, Return, Deadline, Interrupt, VUStep,
         BeginIteration, EndIteration, SkipIteration, Finish, Become
<1>5. CommandTypeOK'
  BY <1>1, <1>2, <1>3, <1>4 DEF Inv, CommandTypeOK, EngineInv, PluginInv, cmdVars
<1>6. ASSUME NEW g \in Callers, InCall(g)
      PROVE  g <= cursor' /\ vu'[g] = "iterating"
  <2>1. /\ g \in 1 .. cursor /\ vu[g] = "iterating"
        /\ vu \in Seq(VUStates) /\ Len(vu) = cursor /\ cursor \in Nat
    BY <1>6, RunCommandAssumption DEF Inv, LifetimeInv, EngineInv, TypeOK
  <2>2. CASE UNCHANGED <<vu, cursor>>
    BY <2>1, <2>2
  <2>3. CASE Spawn \/ TickStarts
    <3>1. vu' = Append(vu, "between") /\ cursor' = cursor + 1
      BY <2>3 DEF Spawn, TickStarts
    <3>2. QED
      BY <2>1, <3>1, AppendProperties DEF VUStates
  <2>4. CASE EnterStage
    <3>1. UNCHANGED <<vu, cursor>> \/ \E d \in Nat :
             /\ cursor' = cursor + d
             /\ vu' = vu \o [k \in 1 .. d |-> "between"]
      <4>1. /\ load.stages \in Seq(Nat) /\ active \in Seq(1 .. cursor)
            /\ stage \in Nat /\ stage < Len(load.stages)
        BY <2>4, LoadType DEF Inv, EngineInv, TypeOK, EnterStage
      <4>2. stage + 1 \in 1 .. Len(load.stages)
        BY <4>1
      <4>3. load.stages[stage + 1] - Len(active) \in Int
        BY <4>1, <4>2, ElementOfSeq, LenProperties
      <4>4. PICK d \in Int : d = load.stages[stage + 1] - Len(active)
        BY <4>3
      <4>5. CASE d >= 0
        <5>1. d \in Nat
          BY <4>5
        <5>2. /\ cursor' = cursor + d
              /\ vu' = vu \o [k \in 1 .. d |-> "between"]
          BY <2>4, <4>4, <4>5 DEF EnterStage
        <5>3. QED
          BY <5>1, <5>2
      <4>6. CASE ~(d >= 0)
        BY <2>4, <4>4, <4>6 DEF EnterStage
      <4>7. QED
        BY <4>5, <4>6
    <3>2. ASSUME NEW d \in Nat, cursor' = cursor + d, vu' = vu \o [k \in 1 .. d |-> "between"]
          PROVE  g <= cursor' /\ vu'[g] = "iterating"
      <4>1. [k \in 1 .. d |-> "between"] \in Seq(VUStates)
            /\ Len([k \in 1 .. d |-> "between"]) = d
        BY DEF VUStates
      <4>2. g \in 1 .. Len(vu) + d /\ g <= Len(vu)
        BY <2>1
      <4>3. vu'[g] = vu[g]
        BY <2>1, <3>2, <4>1, <4>2, ConcatProperties
      <4>4. QED
        BY <2>1, <3>2, <4>3
    <3>3. QED
      BY <2>2, <3>1, <3>2
  <2>5. ASSUME NEW h \in 1 .. cursor, ~InCall(h), VUStep(h)
        PROVE  g <= cursor' /\ vu'[g] = "iterating"
    <3>1. h # g /\ UNCHANGED cursor /\ \E to \in VUStates : vu' = [vu EXCEPT ![h] = to]
      BY <1>6, <2>5 DEF VUStep, BeginIteration, EndIteration, SkipIteration, Finish, Become,
                        VUStates
    <3>2. QED
      BY <2>1, <3>1, ExceptSeq
  <2>6. QED
    BY <2>2, <2>3, <2>4, <2>5
    DEF EngineStep, Scheduler, Start, AllSpawned, StageElapsed, StopAll, TickDropped,
        StopTicking, Return, Deadline, Interrupt
<1>7. LifetimeInv'
  <2>1. UNCHANGED <<phase, started, at, setup>> /\ UNCHANGED <<process, stdin, call>>
    BY <1>1 DEF cmdVars, pluginVars
  <2>2. \A g \in Callers : InCall(g)' <=> InCall(g)
    BY <2>1 DEF InCall
  <2>3. At("engine")'
    BY <1>1, <2>1 DEF At, Step
  <2>4. QED
    BY <1>6, <2>1, <2>2, <2>3 DEF Inv, LifetimeInv
<1>8. QED
  BY <1>2, <1>3, <1>5, <1>7 DEF Inv

(* Goroutines call plugins, plugins run, and the command is killed. *)
LEMMA OtherStepKeepsInv ==
    ASSUME Inv,
           \/ Kill
           \/ \E g \in Callers : CallStepOf(g) \/ \E p \in Processes : PluginStep(g, p)
           \/ \E p \in Processes : Plugin(p) /\ UNCHANGED <<vars, cmdVars>>
           \/ UNCHANGED allVars
    PROVE  Inv'
<1>1. UNCHANGED vars /\ UNCHANGED <<setup, at, started, failed, written>>
  BY DEF Kill, CallStepOf, PluginStep, allVars, cmdVars
<1>2. EngineInv'
  BY <1>1, QuietKeepsInv DEF Inv
<1>3. CASE Kill
  <2>1. /\ phase' = "killed" /\ stdin' = [p \in Processes |-> "closed"]
        /\ UNCHANGED <<process, behaviour, requests, answers, mu, call>>
    BY <1>3 DEF Kill
  <2>2. PluginInv'
    BY <2>1 DEF Inv, PluginInv, PluginTypeOK, OneLine, Reading
  <2>3. CommandTypeOK'
    BY <1>1, <1>2, <2>1, <2>2 DEF Inv, CommandTypeOK, EngineInv, PluginInv, vars
  <2>4. LifetimeInv'
    BY <1>1, <2>1 DEF Inv, LifetimeInv, InCall, vars
  <2>5. QED
    BY <1>2, <2>2, <2>3, <2>4 DEF Inv
<1>4. ASSUME UNCHANGED cmdVars, PluginInv', UNCHANGED <<stdin>>,
             \A p \in Processes : process'[p] # "absent" => process[p] # "absent",
             \A p \in Processes : process[p] = "reaped" => process'[p] = "reaped",
             \A g \in Callers : InCall(g)' =>
               /\ g <= cursor /\ vu[g] = "iterating"
               /\ At("engine") \/ phase = "killed"
      PROVE  Inv'
  <2>1. CommandTypeOK'
    BY <1>1, <1>2, <1>4 DEF Inv, CommandTypeOK, EngineInv, PluginInv, vars, cmdVars
  <2>2. UNCHANGED <<phase, started, at, setup>>
    BY <1>4 DEF cmdVars
  <2>3. UNCHANGED <<cursor, vu>>
    BY <1>1 DEF vars
  <2>4. At("engine")' <=> At("engine")
    BY <2>2 DEF At, Step
  <2>5. LifetimeInv'
    BY <1>4, <2>2, <2>3, <2>4 DEF Inv, LifetimeInv
  <2>6. QED
    BY <1>2, <1>4, <2>1, <2>5 DEF Inv
<1>5. ASSUME NEW g \in Callers, CallStepOf(g) PROVE Inv'
  <2>1. CallStep(g) /\ UNCHANGED cmdVars
    BY <1>5 DEF CallStepOf
  <2>2. PluginInv' /\ UNCHANGED <<process, stdin>>
    BY <2>1, CallStepKeepsInv DEF Inv
  <2>3. \A h \in Callers : InCall(h)' => InCall(h)
    BY <2>1 DEF CallStep, WriteRequest, WriteFails, ReadLine, ReadEOF, LeaveCall, InCall,
                Queued, Reading, NotInCall, Inv, PluginInv, PluginTypeOK
  <2>4. QED
    BY <1>4, <2>1, <2>2, <2>3 DEF Inv, LifetimeInv
<1>6. ASSUME NEW g \in Callers, NEW p \in Processes, PluginStep(g, p) PROVE Inv'
  <2>1. BeginCall(g, p) /\ UNCHANGED cmdVars /\ At("engine") /\ g <= cursor /\ vu[g] = "iterating"
    BY <1>6 DEF PluginStep
  <2>2. PluginInv' /\ UNCHANGED <<process, stdin>>
    BY <2>1, BeginCallKeepsInv DEF Inv, BeginCall
  <2>3. \A h \in Callers : InCall(h)' => InCall(h) \/ h = g
    BY <2>1 DEF BeginCall, InCall
  <2>4. QED
    BY <1>4, <2>1, <2>2, <2>3 DEF Inv, LifetimeInv
<1>7. ASSUME NEW p \in Processes, Plugin(p), UNCHANGED cmdVars PROVE Inv'
  <2>1. PluginInv' /\ UNCHANGED <<stdin, call>>
    BY <1>7, PluginKeepsInv DEF Inv, Plugin, Answer, ExitProcess
  <2>2. /\ \A q \in Processes : process'[q] # "absent" => process[q] # "absent"
        /\ \A q \in Processes : process[q] = "reaped" => process'[q] = "reaped"
    BY <1>7 DEF Plugin, Answer, ExitProcess, Inv, PluginInv, PluginTypeOK
  <2>3. QED
    BY <1>4, <1>7, <2>1, <2>2 DEF Inv, LifetimeInv, InCall
<1>8. CASE UNCHANGED allVars
  <2>1. UNCHANGED cmdVars /\ UNCHANGED <<process, behaviour, stdin, requests, answers, mu, call>>
    BY <1>8 DEF allVars, pluginVars
  <2>2. PluginInv'
    BY <2>1 DEF Inv, PluginInv, PluginTypeOK, OneLine, Reading
  <2>3. QED
    BY <1>4, <2>1, <2>2 DEF Inv, LifetimeInv, InCall
<1>9. QED
  BY <1>3, <1>5, <1>6, <1>7, <1>8

(* The inductive invariant of the commands. *)
THEOREM CommandInvariance == CommandSpec => []Inv
<1>1. CommandInit => Inv
  BY InitHoldsOfCommand
<1>2. Inv /\ [CommandNext]_allVars => Inv'
  BY QuietStepKeepsInv, LoadPluginKeepsInv, CloseKeepsInvOfCommand, EngineStepKeepsInv,
     OtherStepKeepsInv
  DEF CommandNext, Command
<1>3. QED
  BY <1>1, <1>2, PTL DEF CommandSpec

(* The command stays within its steps, starts no more plugins than it was  *)
(* given (loadPlugins, cmd_plugin.go:17), and returns the error of a step  *)
(* that can fail.                                                          *)
THEOREM CommandStaysTyped == CommandSpec => []CommandTypeOK
<1>1. Inv => CommandTypeOK
  BY DEF Inv
<1>2. QED
  BY <1>1, CommandInvariance, PTL

(* What LoadEngine's specification says of every behaviour of the engine,  *)
(* it says of the engine inside `run` and `worker` (cmd_run.go:120).       *)
THEOREM CommandRunsEngine == CommandSpec => Spec
<1>1. CommandInit => Init
  BY DEF CommandInit
<1>2. QED
  BY <1>1, StepOfEngine, PTL DEF CommandSpec, Spec

(* A goroutine that reads a plugin's line reads the answer to its own      *)
(* request (Call's mutex, process.go:79-116), for any number of            *)
(* goroutines and plugins, crashing at any point.                          *)
THEOREM OwnAnswers == CommandSpec => []AnswersReachTheirCallers
<1>1. ASSUME PluginInv PROVE AnswersReachTheirCallers
  <2>1. SUFFICES ASSUME NEW p \in Processes
                 PROVE  /\ requests[p] \o answers[p] \in {<<>>} \cup {<<g>> : g \in mu[p]}
                        /\ \A g \in mu[p] : Reading(g, p)
    BY DEF AnswersReachTheirCallers
  <2>2. \A g \in mu[p] : Reading(g, p)
    BY <1>1 DEF PluginInv, PluginTypeOK
  <2>3. OneLine(p)
    BY <1>1 DEF PluginInv
  <2>4. \A g \in mu[p] : <<>> \o <<g>> = <<g>> /\ <<g>> \o <<>> = <<g>>
    OBVIOUS
  <2>5. <<>> \o <<>> = <<>>
    OBVIOUS
  <2>6. QED
    BY <2>2, <2>3, <2>4, <2>5 DEF OneLine
<1>2. QED
  BY <1>1, CommandInvariance, PTL DEF Inv

(* No plugin's input is ended while a goroutine uses the plugin, and none  *)
(* is left when the command has returned (closePlugins, deferred).         *)
THEOREM PluginsAreClosedLast == CommandSpec => []PluginsOutliveTheirCalls
<1>1. ASSUME Inv PROVE PluginsOutliveTheirCalls
  <2>1. ClosedWhenUnused
    <3>1. SUFFICES ASSUME NEW p \in Processes, process[p] # "absent", stdin[p] = "closed",
                          phase # "killed", NEW g \in Callers, InCall(g)
                   PROVE  FALSE
      BY DEF ClosedWhenUnused
    <3>2. phase = "stepping"
      BY <1>1, <3>1 DEF Inv, LifetimeInv, At
    <3>3. QED
      BY <1>1, <3>1, <3>2 DEF Inv, LifetimeInv
  <2>2. NoPluginLeft
    <3>1. SUFFICES ASSUME phase = "returned", NEW p \in Processes, process[p] # "absent"
                   PROVE  process[p] = "reaped"
      BY DEF NoPluginLeft
    <3>2. QED
      BY <1>1, <3>1 DEF Inv, LifetimeInv
  <2>3. QED
    BY <2>1, <2>2 DEF PluginsOutliveTheirCalls
<1>2. QED
  BY <1>1, CommandInvariance, PTL
-----------------------------------------------------------------------------
(* The steps behind the command. *)
Behind == {Steps[setup.command][k] : k \in 1 .. at}

(* What the steps behind the command leave: the reports written are theirs *)
(* and of the failed ones only an assertion and a last report went on; the *)
(* command gets to its end unless it returns another error; and a load     *)
(* that is behind it succeeded, or failed in a worker that says so.        *)
ExitInv ==
    /\ written = Behind \cap {"json", "html"}
    /\ phase = "stepping" => \/ failed \in {"none", "assertions"}
                             \/ failed = "engine" /\ setup.command = "worker"
    /\ (phase \in {"closing", "returned"} /\ failed \in {"none", "assertions"})
         => at = Len(Steps[setup.command])
    /\ failed \in {"none", "assertions"}
         => Behind \cap setup.fails \subseteq {"final", "assertions"}
    /\ failed = "none" => "assertions" \notin Behind \cap setup.fails
    /\ "engine" \in Behind
         => run = "ok" \/ (run = "failed" /\ failed # "none" /\ setup.command = "worker")
    /\ failed = "engine" => run = "failed"

(* One step more. *)
LEMMA Forward ==
    ASSUME at \in Nat, NEW step, At(step), Proceed
    PROVE  /\ Behind' = Behind \cup {step}
           /\ setup' = setup /\ phase = "stepping" /\ phase' = "stepping"
<1>1. /\ at' = at + 1 /\ setup' = setup /\ phase' = phase /\ phase = "stepping"
      /\ Steps[setup.command][at + 1] = step
  BY DEF At, Proceed, Step
<1>2. 1 .. at + 1 = (1 .. at) \cup {at + 1}
  OBVIOUS
<1>3. Behind' = {Steps[setup.command][k] : k \in 1 .. at + 1}
  BY <1>1 DEF Behind
<1>4. QED
  BY <1>1, <1>2, <1>3 DEF Behind

(* Only `run` and `controller` evaluate assertions. *)
LEMMA WhoAsserts ==
    ASSUME setup \in Setups, at \in 0 .. Len(Steps[setup.command]), At("assertions")
    PROVE  setup.command # "worker"
<1>1. SUFFICES ASSUME setup.command = "worker" PROVE FALSE
  OBVIOUS
<1>2. Steps["worker"] = <<"plugins", "register", "parse", "dial", "engine", "final">>
  BY DEF Steps
<1>3. at + 1 \in 1 .. 6 /\ Steps["worker"][at + 1] = "assertions"
  BY <1>1, <1>2 DEF At, Step
<1>4. QED
  BY <1>2, <1>3

(* A load that has ended stays so. *)
LEMMA EndedStays == ASSUME [Next]_vars, run \in {"ok", "failed"} PROVE run' = run
<1>1. ASSUME NEW g \in 1 .. cursor, VUStep(g) PROVE run' = run
  BY <1>1 DEF VUStep, BeginIteration, EndIteration, SkipIteration, Finish, Become
<1>2. QED
  BY <1>1 DEF Next, Scheduler, vars, Start, Spawn, AllSpawned, EnterStage, StageElapsed, StopAll,
              TickStarts, TickDropped, StopTicking, Return, Deadline, Interrupt

LEMMA FailsType ==
    ASSUME setup \in Setups
    PROVE  "plugins" \notin setup.fails /\ "engine" \notin setup.fails
BY RunCommandAssumption

(* A step that leaves the command where it is, or ends it in order. *)
LEMMA StandingKeepsExit ==
    ASSUME ExitInv, [CommandNext]_allVars,
           UNCHANGED <<setup, at, failed, written>>,
           \/ phase' = phase
           \/ phase = "closing" /\ phase' = "returned"
           \/ phase' = "killed"
           \/ phase' = "closing" /\ at = Len(Steps[setup.command])
    PROVE  ExitInv'
<1>1. run \in {"ok", "failed"} => run' = run
  BY StepOfEngine, EndedStays
<1>2. Behind' = Behind
  BY DEF Behind
<1>3. QED
  BY <1>1, <1>2 DEF ExitInv

(* A step that returns an error. *)
LEMMA AbortKeepsExit ==
    ASSUME ExitInv, NEW err, Abort(err), UNCHANGED run,
           err \notin {"none", "assertions"}, err = "engine" => run = "failed"
    PROVE  ExitInv'
<1>1. failed' = err /\ phase' = "closing" /\ UNCHANGED <<setup, at, written>>
  BY DEF Abort
<1>2. Behind' = Behind
  BY <1>1 DEF Behind
<1>3. QED
  BY <1>1, <1>2 DEF ExitInv

(* A step that succeeds, or whose failure is not returned. *)
LEMMA ProceedKeepsExit ==
    ASSUME ExitInv, at \in Nat, NEW step, At(step), Proceed, UNCHANGED <<run, failed>>,
           step \notin {"assertions", "engine"},
           step \notin setup.fails \/ step = "final",
           written' = written \cup ({step} \cap {"json", "html"})
    PROVE  ExitInv'
<1>1. /\ Behind' = Behind \cup {step}
      /\ setup' = setup /\ phase = "stepping" /\ phase' = "stepping"
  BY Forward
<1>2. QED
  BY <1>1 DEF ExitInv

LEMMA CommandKeepsExit ==
    ASSUME Inv, ExitInv, [CommandNext]_allVars, Command
    PROVE  ExitInv'
<1>1. /\ setup \in Setups /\ at \in 0 .. Len(Steps[setup.command]) /\ at \in Nat
      /\ setup.command \in {"run", "worker", "controller"}
      /\ "plugins" \notin setup.fails /\ "engine" \notin setup.fails
  <2>1. setup \in Setups /\ at \in 0 .. Len(Steps[setup.command])
    BY DEF Inv, CommandTypeOK
  <2>2. QED
    BY <2>1, SetupType, FailsType, StepsLen DEF Steps
<1>2. ASSUME NEW step \in Checks, Check(step) PROVE ExitInv'
  <2>1. step \notin {"none", "assertions", "engine", "json", "html"} /\ UNCHANGED run
    BY <1>2 DEF Checks, Check, vars
  <2>2. CASE step \in setup.fails
    BY <1>2, <2>1, <2>2, AbortKeepsExit DEF Check
  <2>3. CASE step \notin setup.fails
    <3>1. At(step) /\ Proceed /\ UNCHANGED <<run, failed, written>>
      BY <1>2, <2>1, <2>3 DEF Check
    <3>2. written' = written \cup ({step} \cap {"json", "html"})
      BY <2>1, <3>1
    <3>3. QED
      BY <1>1, <2>1, <2>3, <3>1, <3>2, ProceedKeepsExit
  <2>4. QED
    BY <2>2, <2>3
<1>3. CASE LoadPlugin
  <2>1. UNCHANGED run
    BY <1>3 DEF LoadPlugin, vars
  <2>2. CASE setup.specs[started + 1] = "unstartable"
    <3>1. Abort("plugins")
      BY <1>3, <2>2 DEF LoadPlugin
    <3>2. QED
      BY <2>1, <3>1, AbortKeepsExit
  <2>3. CASE setup.specs[started + 1] # "unstartable"
    <3>1. UNCHANGED <<setup, at, phase, failed, written>>
      BY <1>3, <2>3 DEF LoadPlugin
    <3>2. QED
      BY <3>1, StandingKeepsExit
  <2>4. QED
    BY <2>2, <2>3
<1>4. CASE PluginsLoaded \/ Final
  <2>1. PICK step \in {"plugins", "final"} :
            At(step) /\ Proceed /\ UNCHANGED <<run, failed, written>>
    BY <1>4 DEF PluginsLoaded, Final, vars
  <2>2. written' = written \cup ({step} \cap {"json", "html"})
    BY <2>1
  <2>3. QED
    BY <1>1, <2>1, <2>2, ProceedKeepsExit
<1>5. CASE EngineReturned
  <2>1. At("engine") /\ UNCHANGED run
    BY <1>5 DEF EngineReturned, vars
  <2>2. CASE run = "failed" /\ Abort("engine")
    BY <2>1, <2>2, AbortKeepsExit
  <2>3. CASE run = "ok" /\ Proceed /\ UNCHANGED <<failed, written>>
    <3>1. /\ Behind' = Behind \cup {"engine"}
          /\ setup' = setup /\ phase = "stepping" /\ phase' = "stepping"
      BY <1>1, <2>1, <2>3, Forward
    <3>2. QED
      BY <1>1, <2>1, <2>3, <3>1 DEF ExitInv
  <2>4. CASE /\ run = "failed" /\ setup.command = "worker" /\ failed' = "engine"
             /\ Proceed /\ UNCHANGED written
    <3>1. /\ Behind' = Behind \cup {"engine"}
          /\ setup' = setup /\ phase = "stepping" /\ phase' = "stepping"
      BY <1>1, <2>1, <2>4, Forward
    <3>2. QED
      BY <1>1, <2>1, <2>4, <3>1 DEF ExitInv
  <2>5. QED
    BY <1>5, <2>2, <2>3, <2>4 DEF EngineReturned
<1>6. ASSUME NEW file \in {"json", "html"}, WriteReport(file) PROVE ExitInv'
  <2>1. At(file) /\ UNCHANGED run
    BY <1>6 DEF WriteReport, vars
  <2>2. CASE file \in setup.fails
    BY <1>6, <2>1, <2>2, AbortKeepsExit DEF WriteReport
  <2>3. CASE file \notin setup.fails
    <3>1. Proceed /\ written' = written \cup {file} /\ UNCHANGED failed
      BY <1>6, <2>3 DEF WriteReport
    <3>2. {file} = {file} \cap {"json", "html"}
      BY <1>6
    <3>3. QED
      BY <1>1, <2>1, <2>3, <3>1, <3>2, ProceedKeepsExit
  <2>4. QED
    BY <2>2, <2>3
<1>7. CASE CheckAssertions
  <2>1. /\ At("assertions") /\ Proceed /\ UNCHANGED <<run, written>>
        /\ failed' = IF "assertions" \in setup.fails THEN "assertions" ELSE "none"
    BY <1>7 DEF CheckAssertions, vars
  <2>2. setup.command # "worker"
    BY <1>1, <2>1, WhoAsserts
  <2>3. /\ Behind' = Behind \cup {"assertions"}
        /\ setup' = setup /\ phase = "stepping" /\ phase' = "stepping"
    BY <1>1, <2>1, Forward
  <2>4. QED
    BY <2>1, <2>2, <2>3 DEF ExitInv
<1>8. CASE LastStep
  BY <1>8, StandingKeepsExit DEF LastStep
<1>9. CASE (\E p \in Processes : CloseNext(p)) \/ ReturnFromCommand
  BY <1>9, StandingKeepsExit DEF CloseNext, ReturnFromCommand, cmdVars
<1>10. QED
  BY <1>2, <1>3, <1>4, <1>5, <1>6, <1>7, <1>8, <1>9 DEF Command

(* Exit status 0 only after a load that ran to its end with every          *)
(* goroutine done, both reports and no failed assertion; a failed          *)
(* assertion costs no report; a load fails by an interrupt or for want of  *)
(* a wallet (cmd_run.go:120-139; load/engine.go:76, 176).                 *)
THEOREM ExitStatusCanBeTrusted == CommandSpec => []ExitStatusIsHonest
<1>1. CommandInit => ExitInv
  <2>1. SUFFICES ASSUME CommandInit PROVE ExitInv
    OBVIOUS
  <2>2. at = 0 /\ phase = "stepping" /\ failed = "none" /\ written = {}
    BY <2>1 DEF CommandInit
  <2>3. Behind = {}
    BY <2>2 DEF Behind
  <2>4. QED
    BY <2>2, <2>3 DEF ExitInv
<1>2. ASSUME Inv, ExitInv, [CommandNext]_allVars PROVE ExitInv'
  <2>1. CASE Command
    BY <1>2, <2>1, CommandKeepsExit
  <2>2. CASE UNCHANGED cmdVars
    BY <1>2, <2>2, StandingKeepsExit DEF cmdVars
  <2>3. CASE Kill
    BY <1>2, <2>3, StandingKeepsExit DEF Kill
  <2>4. QED
    BY <1>2, <2>1, <2>2, <2>3
    DEF CommandNext, EngineStep, CallStepOf, PluginStep, allVars, cmdVars
<1>3. ASSUME Inv, ExitInv, FailInv PROVE ExitStatusIsHonest
  <2>1. SUFFICES ASSUME phase = "returned" PROVE ExitStatusIsHonest
    BY DEF ExitStatusIsHonest
  <2>2. /\ setup \in Setups /\ setup.command \in {"run", "worker", "controller"}
        /\ setup.fails \subseteq {Steps[setup.command][k] : k \in DOMAIN Steps[setup.command]}
    BY <1>3, RunCommandAssumption DEF Inv, CommandTypeOK, Steps
  <2>3. ASSUME failed \in {"none", "assertions"}
        PROVE  Behind = {Steps[setup.command][k] : k \in DOMAIN Steps[setup.command]}
    <3>1. at = Len(Steps[setup.command])
      BY <1>3, <2>1, <2>3 DEF ExitInv
    <3>2. DOMAIN Steps[setup.command] = 1 .. Len(Steps[setup.command])
      BY <2>2 DEF Steps
    <3>3. QED
      BY <3>1, <3>2 DEF Behind
  <2>4. ASSUME failed = "none" PROVE setup.fails \subseteq {"final"}
    BY <1>3, <2>2, <2>3, <2>4 DEF ExitInv
  <2>5. ASSUME failed = "none", setup.command # "controller"
        PROVE  run = "ok" /\ \A g \in 1 .. cursor : vu[g] = "done"
    <3>1. \E k \in DOMAIN Steps[setup.command] : Steps[setup.command][k] = "engine"
      <4>1. CASE setup.command = "run"
        <5>1. 9 \in DOMAIN Steps["run"] /\ Steps["run"][9] = "engine"
          BY DEF Steps
        <5>2. QED
          BY <4>1, <5>1
      <4>2. CASE setup.command = "worker"
        <5>1. 5 \in DOMAIN Steps["worker"] /\ Steps["worker"][5] = "engine"
          BY DEF Steps
        <5>2. QED
          BY <4>2, <5>1
      <4>3. QED
        BY <2>2, <2>5, <4>1, <4>2
    <3>2. run = "ok"
      BY <1>3, <2>3, <2>5, <3>1 DEF ExitInv
    <3>3. QED
      BY <1>3, <3>2 DEF Inv, EngineInv, ReturnsAfterAll
  <2>6. ASSUME failed \in {"none", "assertions"}, setup.command # "worker"
        PROVE  written = {"json", "html"}
    <3>1. {"json", "html"} \subseteq {Steps[setup.command][k] : k \in DOMAIN Steps[setup.command]}
      <4>1. CASE setup.command = "run"
        <5>1. /\ 10 \in DOMAIN Steps["run"] /\ Steps["run"][10] = "json"
              /\ 12 \in DOMAIN Steps["run"] /\ Steps["run"][12] = "html"
          BY DEF Steps
        <5>2. QED
          BY <4>1, <5>1
      <4>2. CASE setup.command = "controller"
        <5>1. /\ 7 \in DOMAIN Steps["controller"] /\ Steps["controller"][7] = "json"
              /\ 9 \in DOMAIN Steps["controller"] /\ Steps["controller"][9] = "html"
          BY DEF Steps
        <5>2. QED
          BY <4>2, <5>1
      <4>3. QED
        BY <2>2, <2>6, <4>1, <4>2
    <3>2. QED
      BY <1>3, <2>3, <2>6, <3>1 DEF ExitInv
  <2>7. failed = "engine" => ctx = "cancelled" \/ load.wallets = 0
    BY <1>3 DEF ExitInv, FailInv
  <2>8. QED
    BY <2>4, <2>5, <2>6, <2>7 DEF ExitStatusIsHonest
<1>4. CommandSpec => []FailInv
  BY CommandRunsEngine, FailuresHaveACause, PTL
<1>5. QED
  BY <1>1, <1>2, <1>3, <1>4, CommandInvariance, PTL DEF CommandSpec
=============================================================================
