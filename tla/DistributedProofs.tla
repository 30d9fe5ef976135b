-------------------------- MODULE DistributedProofs --------------------------
(***************************************************************************)
(* The invariants of Distributed, for any number of processes, any cohort  *)
(* and every fault.                                                        *)
(***************************************************************************)
EXTENDS Distributed, ShardingProofs, SequenceTheorems, FunctionTheorems

Joined(p) == \E k \in DOMAIN registered : registered[k] = p

RegisteredIds == {Id[registered[k]] : k \in DOMAIN registered}

WorkerPCs ==
    {"absent", "new", "joining", "assigned", "running", "reporting", "exited", "crashed"}

Typing ==
    /\ registered \in Seq(Workers)
    /\ pc \in [Workers -> WorkerPCs]
    /\ DOMAIN shard = Workers
    /\ \A m \in posts : m.from \in Workers

(* Who has registered: everyone past that point, and everyone a report in  *)
(* flight is from.                                                         *)
JoinedInv ==
    /\ \A p \in Workers :
         pc[p] \in {"joining", "assigned", "running", "reporting"} => Joined(p)
    /\ \A p \in Workers : pc[p] = "new" => ~Joined(p)
    /\ \A j, k \in DOMAIN registered : registered[j] = registered[k] => j = k
    /\ \A m \in posts : Joined(m.from)

BarrierInv ==
    /\ ready => Len(registered) >= NumWorkers
    /\ \A p \in Workers : Assigned(p) => ready

(* A shard is the one of the place its worker has in registered. *)
ShardInv ==
    \A p \in Workers : Assigned(p) =>
        \E k \in DOMAIN registered :
            /\ registered[k] = p
            /\ shard[p].wallets = ShardWallets(TotalWallets, k - 1, NumWorkers)

DoneInv ==
    /\ doneWorkers \subseteq RegisteredIds
    /\ allDone => Cardinality(doneWorkers) >= NumWorkers

DistInv == Typing /\ JoinedInv /\ BarrierInv /\ ShardInv /\ DoneInv

LEMMA InitHolds == Init => DistInv
<1> SUFFICES ASSUME Init PROVE DistInv
  OBVIOUS
<1>1. registered = <<>> /\ posts = {} /\ doneWorkers = {} /\ ready = FALSE /\ allDone = FALSE
  BY DEF Init
<1>2. <<>> \in Seq(Workers) /\ DOMAIN <<>> = {}
  BY EmptySeq
<1>3. pc \in [Workers -> {"new", "absent"}] /\ shard = [p \in Workers |-> NoShard]
  BY DEF Init
<1>4. Typing
  BY <1>1, <1>2, <1>3 DEF Typing, WorkerPCs
<1>5. JoinedInv
  BY <1>1, <1>2, <1>3 DEF JoinedInv, Joined
<1>6. BarrierInv /\ ShardInv /\ DoneInv
  BY <1>1, <1>3 DEF BarrierInv, ShardInv, DoneInv, Assigned
<1>7. QED
  BY <1>4, <1>5, <1>6 DEF DistInv

(* There are no more ids than registrations. *)
LEMMA IdsAreFew ==
    ASSUME registered \in Seq(Workers)
    PROVE  IsFiniteSet(RegisteredIds) /\ Cardinality(RegisteredIds) <= Len(registered)
<1> DEFINE f == [k \in DOMAIN registered |-> Id[registered[k]]]
<1>1. DOMAIN registered = 1 .. Len(registered) /\ Len(registered) \in Nat
  BY LenProperties
<1>2. f \in Surjection(DOMAIN registered, RegisteredIds)
  BY DEF Surjection, RegisteredIds
<1>3. IsFiniteSet(DOMAIN registered) /\ Cardinality(DOMAIN registered) = Len(registered)
  BY <1>1, FS_Interval
<1> HIDE DEF f
<1>4. QED
  BY <1>2, <1>3, FS_Surjection

(* A worker registers: it is the last of registered. *)
LEMMA RegisterKeepsInv ==
    ASSUME DistInv, NEW p \in Workers, Register(p)
    PROVE  DistInv'
<1>1. /\ pc[p] = "new" /\ pc' = [pc EXCEPT ![p] = "joining"]
      /\ registered' = Append(registered, p)
      /\ ready' = (ready \/ Len(registered') >= NumWorkers)
      /\ UNCHANGED <<doneWorkers, allDone, shard, posts>>
  BY DEF Register, Goto
<1>2. PICK n \in Nat : n = Len(registered) /\ DOMAIN registered = 1 .. n
  BY LenProperties DEF DistInv, Typing
<1>3. /\ registered' \in Seq(Workers) /\ Len(registered') = n + 1
      /\ DOMAIN registered' = 1 .. n + 1
      /\ \A k \in 1 .. n : registered'[k] = registered[k]
      /\ registered'[n + 1] = p
  BY <1>1, <1>2, AppendProperties, LenProperties DEF DistInv, Typing
<1>4. \A q : Joined(q)' <=> Joined(q) \/ q = p
  <2>1. 1 .. n + 1 = (1 .. n) \cup {n + 1}
    BY <1>2
  <2>2. QED
    BY <1>2, <1>3, <2>1 DEF Joined
<1>5. Typing'
  BY <1>1, <1>3 DEF DistInv, Typing, WorkerPCs
<1>6. JoinedInv'
  <2>1. ~Joined(p)
    BY <1>1 DEF DistInv, JoinedInv
  <2>2. ASSUME NEW j \in 1 .. n + 1, NEW k \in 1 .. n + 1, registered'[j] = registered'[k]
        PROVE  j = k
    <3>1. CASE j \in 1 .. n /\ k \in 1 .. n
      BY <1>2, <1>3, <2>2, <3>1 DEF DistInv, JoinedInv
    <3>2. CASE j = n + 1 /\ k \in 1 .. n
      BY <1>2, <1>3, <2>1, <2>2, <3>2 DEF Joined
    <3>3. CASE k = n + 1 /\ j \in 1 .. n
      BY <1>2, <1>3, <2>1, <2>2, <3>3 DEF Joined
    <3>4. QED
      BY <1>2, <2>2, <3>1, <3>2, <3>3
  <2>3. \A q \in Workers : pc'[q] = IF q = p THEN "joining" ELSE pc[q]
    BY <1>1 DEF DistInv, Typing
  <2>4. QED
    BY <1>1, <1>3, <1>4, <2>2, <2>3 DEF DistInv, JoinedInv
<1>7. BarrierInv'
  <2>1. (ready => ready') /\ (ready' => ready \/ Len(registered') >= NumWorkers)
    BY <1>1, Zenon
  <2>2. ready => Len(registered) >= NumWorkers
    BY DEF DistInv, BarrierInv
  <2>3. Len(registered') = Len(registered) + 1 /\ Len(registered) \in Nat /\ NumWorkers \in Nat
    BY <1>2, <1>3, DistributedAssumption
  <2>4. ready' => Len(registered') >= NumWorkers
    BY <2>1, <2>2, <2>3
  <2>5. \A q \in Workers : Assigned(q)' <=> Assigned(q)
    BY <1>1 DEF Assigned
  <2>6. \A q \in Workers : Assigned(q) => ready
    BY DEF DistInv, BarrierInv
  <2>7. QED
    BY <2>1, <2>4, <2>5, <2>6, Zenon DEF BarrierInv
<1>8. ShardInv'
  <2>1. \A k \in 1 .. n : k \in 1 .. n + 1
    BY <1>2
  <2>2. QED
    BY <1>1, <1>2, <1>3, <2>1 DEF DistInv, ShardInv, Assigned
<1>9. DoneInv'
  <2>1. \A k \in 1 .. n : k \in 1 .. n + 1
    BY <1>2
  <2>2. RegisteredIds \subseteq RegisteredIds'
    BY <1>2, <1>3, <2>1 DEF RegisteredIds
  <2>3. QED
    BY <1>1, <2>2 DEF DistInv, DoneInv
<1>10. QED
  BY <1>5, <1>6, <1>7, <1>8, <1>9 DEF DistInv

(* The response of /register. *)
LEMMA AssignKeepsInv ==
    ASSUME DistInv, NEW p \in Workers, Assign(p)
    PROVE  DistInv'
<1> DEFINE s == [index   |-> IndexOf(p),
                 vus     |-> IF NumWorkers = 1 THEN TotalVUs
                             ELSE ChunkSize(TotalVUs, IndexOf(p), NumWorkers),
                 wallets |-> ShardWallets(TotalWallets, IndexOf(p), NumWorkers)]
<1>1. /\ ready /\ pc[p] = "joining" /\ pc' = [pc EXCEPT ![p] = "assigned"]
      /\ shard' = [shard EXCEPT ![p] = s]
      /\ UNCHANGED <<registered, ready, doneWorkers, allDone, posts>>
  BY DEF Assign, Goto, controller
<1>2. /\ s.wallets = ShardWallets(TotalWallets, IndexOf(p), NumWorkers)
  OBVIOUS
<1> HIDE DEF s
<1>3. /\ shard'[p] = s /\ DOMAIN shard' = Workers
      /\ \A q \in Workers \ {p} : shard'[q] = shard[q]
  BY <1>1 DEF DistInv, Typing
<1>4. Typing'
  BY <1>1, <1>3 DEF DistInv, Typing, WorkerPCs
<1>5. \A q \in Workers : pc'[q] = IF q = p THEN "assigned" ELSE pc[q]
  BY <1>1 DEF DistInv, Typing
<1>6. JoinedInv'
  BY <1>1, <1>5 DEF DistInv, JoinedInv, Joined
<1>7. BarrierInv'
  BY <1>1 DEF DistInv, BarrierInv
<1>8. ShardInv'
  <2>1. PICK k \in DOMAIN registered : registered[k] = p /\ IndexOf(p) = k - 1
    <3>1. Joined(p)
      BY <1>1 DEF DistInv, JoinedInv
    <3>2. QED
      BY <3>1 DEF Joined, IndexOf
  <2>2. shard'[p].wallets = ShardWallets(TotalWallets, k - 1, NumWorkers)
    BY <1>2, <1>3, <2>1
  <2>3. QED
    BY <1>1, <1>3, <2>1, <2>2 DEF DistInv, ShardInv, Assigned
<1>9. DoneInv'
  BY <1>1 DEF DistInv, DoneInv, RegisteredIds
<1>10. QED
  BY <1>4, <1>6, <1>7, <1>8, <1>9 DEF DistInv

(* Steps of a registered worker, or of a controller, that send at most a   *)
(* report of such a worker.                                                *)
LEMMA QuietKeepsInv ==
    ASSUME DistInv, UNCHANGED <<registered, ready, doneWorkers, allDone, shard>>,
           pc' \in [Workers -> WorkerPCs],
           \A p \in Workers : pc'[p] = "new" => pc[p] = "new",
           \A p \in Workers : pc'[p] \in {"joining", "assigned", "running", "reporting"}
             => pc[p] \in {"joining", "assigned", "running", "reporting"},
           \A m \in posts' : m \in posts \/ (m.from \in Workers /\ Joined(m.from))
    PROVE  DistInv'
<1>1. Typing' /\ JoinedInv'
  BY DEF DistInv, Typing, JoinedInv, Joined
<1>2. BarrierInv' /\ ShardInv'
  BY DEF DistInv, BarrierInv, ShardInv, Assigned
<1>3. DoneInv'
  BY DEF DistInv, DoneInv, RegisteredIds
<1>4. QED
  BY <1>1, <1>2, <1>3 DEF DistInv

(* handleMetrics: what is counted as done is a registered worker's id. *)
LEMMA HandleKeepsInv ==
    ASSUME DistInv, NEW m \in posts, HandleMetrics(m)
    PROVE  DistInv'
<1>1. /\ posts' = posts \ {m}
      /\ UNCHANGED <<registered, ready, pc, shard>>
      /\ \/ UNCHANGED <<doneWorkers, allDone>>
         \/ /\ doneWorkers' = doneWorkers \cup {Id[m.from]}
            /\ allDone' = (allDone \/ Cardinality(doneWorkers') >= NumWorkers)
  BY DEF HandleMetrics
<1>2. Typing' /\ JoinedInv' /\ BarrierInv' /\ ShardInv'
  BY <1>1 DEF DistInv, Typing, JoinedInv, Joined, BarrierInv, ShardInv, Assigned
<1>3. DoneInv'
  <2>1. CASE UNCHANGED <<doneWorkers, allDone>>
    BY <1>1, <2>1 DEF DistInv, DoneInv, RegisteredIds
  <2>2. CASE /\ doneWorkers' = doneWorkers \cup {Id[m.from]}
             /\ allDone' = (allDone \/ Cardinality(doneWorkers') >= NumWorkers)
    <3>1. Id[m.from] \in RegisteredIds /\ RegisteredIds' = RegisteredIds
      BY <1>1 DEF DistInv, JoinedInv, Joined, RegisteredIds
    <3>2. doneWorkers' \subseteq RegisteredIds
      BY <2>2, <3>1 DEF DistInv, DoneInv
    <3>3. IsFiniteSet(doneWorkers')
      BY <3>2, IdsAreFew, FS_Subset DEF DistInv, Typing
    <3>4. Cardinality(doneWorkers') >= Cardinality(doneWorkers)
      <4>1. doneWorkers \in SUBSET doneWorkers'
        BY <2>2
      <4>2. Cardinality(doneWorkers) <= Cardinality(doneWorkers')
        BY <3>3, <4>1, FS_Subset
      <4>3. Cardinality(doneWorkers) \in Nat /\ Cardinality(doneWorkers') \in Nat
        BY <3>3, <4>1, FS_Subset, FS_CardinalityType
      <4>4. QED
        BY <4>2, <4>3
    <3>5. Cardinality(doneWorkers) \in Nat /\ Cardinality(doneWorkers') \in Nat
      BY <2>2, <3>3, FS_Subset, FS_CardinalityType
    <3>6. allDone' => Cardinality(doneWorkers') >= NumWorkers
      <4>1. allDone' => allDone \/ Cardinality(doneWorkers') >= NumWorkers
        BY <2>2, Zenon
      <4>2. allDone => Cardinality(doneWorkers) >= NumWorkers
        BY DEF DistInv, DoneInv
      <4>3. QED
        BY <3>4, <3>5, <4>1, <4>2, DistributedAssumption
    <3>7. QED
      BY <3>1, <3>2, <3>6 DEF DoneInv
  <2>3. QED
    BY <1>1, <2>1, <2>2
<1>4. QED
  BY <1>2, <1>3 DEF DistInv

(* Every step of the processes keeps the invariant. *)
LEMMA NextKeepsInv == DistInv /\ [Next]_vars => DistInv'
<1> SUFFICES ASSUME DistInv, [Next]_vars PROVE DistInv'
  OBVIOUS
<1>1. pc \in [Workers -> WorkerPCs]
  BY DEF DistInv, Typing
<1>2. CASE UNCHANGED vars
  BY <1>1, <1>2, QuietKeepsInv DEF vars, controller
<1>3. ASSUME NEW p \in Workers, Progresses(p) \/ Record(p) \/ PushProgress(p)
                                \/ Disconnect(p) \/ Crash(p)
      PROVE  DistInv'
  <2>1. CASE Register(p)
    BY <2>1, RegisterKeepsInv
  <2>2. CASE Assign(p)
    BY <2>2, AssignKeepsInv
  <2>3. CASE \/ Refused(p) \/ StartRun(p) \/ AbandonRun(p) \/ Exit(p) \/ Record(p)
             \/ Disconnect(p) \/ Crash(p)
    <3>1. /\ UNCHANGED <<registered, ready, doneWorkers, allDone, shard, posts>>
          /\ \/ UNCHANGED pc
             \/ pc' = [pc EXCEPT ![p] = "exited"]
             \/ pc' = [pc EXCEPT ![p] = "crashed"]
             \/ pc[p] = "assigned" /\ pc' = [pc EXCEPT ![p] = "running"]
      BY <2>3 DEF Refused, StartRun, AbandonRun, Exit, Record, Disconnect, Crash, Goto, controller
    <3>2. /\ pc' \in [Workers -> WorkerPCs]
          /\ \A q \in Workers : pc'[q] = "new" => pc[q] = "new"
          /\ \A q \in Workers : pc'[q] \in {"joining", "assigned", "running", "reporting"}
               => pc[q] \in {"joining", "assigned", "running", "reporting"}
      BY <1>1, <3>1 DEF WorkerPCs
    <3>3. QED
      BY <3>1, <3>2, QuietKeepsInv
  <2>4. CASE PushProgress(p) \/ FinishRun(p)
    <3>1. /\ UNCHANGED <<registered, ready, doneWorkers, allDone, shard>>
          /\ pc[p] = "running"
          /\ UNCHANGED pc \/ pc' = [pc EXCEPT ![p] = "reporting"]
          /\ posts' = posts \/ \E done \in BOOLEAN : posts' = posts \cup {Post(p, done)}
      BY <2>4 DEF PushProgress, FinishRun, Goto, controller
    <3>2. \A m \in posts' : m \in posts \/ m.from = p
      BY <3>1 DEF Post
    <3>3. Joined(p)
      BY <3>1 DEF DistInv, JoinedInv
    <3>4. /\ pc' \in [Workers -> WorkerPCs]
          /\ \A q \in Workers : pc'[q] = "new" => pc[q] = "new"
          /\ \A q \in Workers : pc'[q] \in {"joining", "assigned", "running", "reporting"}
               => pc[q] \in {"joining", "assigned", "running", "reporting"}
      BY <1>1, <3>1 DEF WorkerPCs
    <3>5. QED
      BY <3>1, <3>2, <3>3, <3>4, QuietKeepsInv
  <2>5. QED
    BY <1>3, <2>1, <2>2, <2>3, <2>4 DEF Progresses
<1>4. ASSUME NEW m \in posts, HandleMetrics(m) \/ LoseMetrics(m)
      PROVE  DistInv'
  <2>1. CASE HandleMetrics(m)
    BY <2>1, HandleKeepsInv
  <2>2. CASE LoseMetrics(m)
    <3>1. /\ UNCHANGED <<registered, ready, doneWorkers, allDone, shard, pc>>
          /\ posts' = posts \ {m}
      BY <2>2 DEF LoseMetrics, controller
    <3>2. QED
      BY <1>1, <3>1, QuietKeepsInv
  <2>3. QED
    BY <1>4, <2>1, <2>2
<1>5. CASE Complete \/ Aggregate \/ GiveUp \/ Fail
  <2>1. UNCHANGED <<registered, ready, doneWorkers, allDone, shard, pc, posts>>
    BY <1>5 DEF Complete, Aggregate, GiveUp, Fail
  <2>2. QED
    BY <1>1, <2>1, QuietKeepsInv
<1>6. QED
  BY <1>2, <1>3, <1>4, <1>5 DEF Next

(* The inductive invariant. *)
THEOREM Invariance == Spec => []DistInv
<1>1. Init => DistInv
  BY InitHolds
<1>2. DistInv /\ [Next]_vars => DistInv'
  BY NextKeepsInv
<1>3. QED
  BY <1>1, <1>2, PTL DEF Spec

(* handleRegister is a barrier (controller.go:58-62): whatever crashes,    *)
(* hangs up or gets lost, nobody has a shard before the cohort registered. *)
THEOREM Barrier == Spec => []CohortStartsTogether
<1>1. DistInv => CohortStartsTogether
  BY DEF DistInv, BarrierInv, CohortStartsTogether
<1>2. QED
  BY <1>1, Invariance, PTL

(* WaitForCompletion (controller.go:134-143) returns when every worker of  *)
(* a cohort has reported done, also when ids repeat.                       *)
THEOREM Completion == Spec => []CompletionMeansAllDone
<1>1. ASSUME DistInv PROVE CompletionMeansAllDone
  <2>1. SUFFICES ASSUME allDone, CohortOnly
                 PROVE  RegisteredIds \subseteq doneWorkers
    BY DEF CompletionMeansAllDone, RegisteredIds
  <2>2. /\ doneWorkers \in SUBSET RegisteredIds
        /\ Cardinality(doneWorkers) >= NumWorkers
        /\ Len(registered) <= NumWorkers
        /\ registered \in Seq(Workers)
    BY <1>1, <2>1 DEF DistInv, DoneInv, CohortOnly, Typing
  <2>3. IsFiniteSet(RegisteredIds) /\ Cardinality(RegisteredIds) <= Len(registered)
    BY <2>2, IdsAreFew
  <2>4. /\ Cardinality(doneWorkers) <= Cardinality(RegisteredIds)
        /\ Cardinality(RegisteredIds) = Cardinality(doneWorkers) => RegisteredIds = doneWorkers
    BY <2>2, <2>3, FS_Subset
  <2>5. /\ Cardinality(doneWorkers) \in Nat /\ Cardinality(RegisteredIds) \in Nat
        /\ Len(registered) \in Nat /\ NumWorkers \in Nat
    BY <2>2, <2>3, FS_Subset, FS_CardinalityType, LenProperties, DistributedAssumption
  <2>6. Cardinality(RegisteredIds) = Cardinality(doneWorkers)
    BY <2>2, <2>3, <2>4, <2>5
  <2>7. QED
    BY <2>4, <2>6
<1>2. QED
  BY <1>1, Invariance, PTL

(* Whatever the order of registration, no two workers get one index, so no *)
(* two hold one wallet (wallet/shard.go:6-8), processes beyond the cohort  *)
(* included; a cohort of one is the exception (shard.go:11-13).            *)
THEOREM WorkersApart ==
    ASSUME NumWorkers > 1
    PROVE  Spec => []WalletsDisjoint
<1>1. DistInv => WalletsDisjoint
  <2>1. SUFFICES ASSUME DistInv, NEW p \in Workers, NEW q \in Workers, p # q
                 PROVE  shard[p].wallets \cap shard[q].wallets = {}
    BY DEF WalletsDisjoint
  <2>2. CASE ~Assigned(p) \/ ~Assigned(q)
    BY <2>2 DEF Assigned, NoShard
  <2>3. CASE Assigned(p) /\ Assigned(q)
    <3>1. PICK j \in DOMAIN registered :
            registered[j] = p /\ shard[p].wallets = ShardWallets(TotalWallets, j - 1, NumWorkers)
      BY <2>1, <2>3 DEF DistInv, ShardInv
    <3>2. PICK k \in DOMAIN registered :
            registered[k] = q /\ shard[q].wallets = ShardWallets(TotalWallets, k - 1, NumWorkers)
      BY <2>1, <2>3 DEF DistInv, ShardInv
    <3>3. j - 1 \in Nat /\ k - 1 \in Nat /\ j - 1 # k - 1
      BY <2>1, <3>1, <3>2, LenProperties DEF DistInv, Typing
    <3>4. NumWorkers \in Nat /\ TotalWallets \in Nat
      BY DistributedAssumption
    <3>5. QED
      BY <3>1, <3>2, <3>3, <3>4, ShardsDisjoint
  <2>4. QED
    BY <2>2, <2>3
<1>2. QED
  BY <1>1, Invariance, PTL
-----------------------------------------------------------------------------
(* What the report adds up to.  A worker is over when it can record        *)
(* nothing more; it is alone when no other that registered uses its id.    *)
Over(p) == pc[p] \in {"reporting", "exited", "crashed"}

Alone(p) == \A q \in Workers : (Joined(q) /\ Id[q] = Id[p]) => q = p

WorkInv ==
    /\ work \in [Workers -> Nat]
    /\ \A p \in Workers : ~Joined(p) => work[p] = 0

(* A final report on its way holds all that its worker will ever record. *)
PostsInv ==
    \A m \in posts : /\ m.result \in Nat
                     /\ m.done => Over(m.from) /\ m.result = work[m.from]

ResultsInv ==
    /\ results \in [Ids -> Nat \cup {NoResult}]
    /\ \A d \in Ids : results[d] # NoResult => d \in RegisteredIds
    /\ \A d \in doneWorkers : results[d] # NoResult

CtrlInv == ctrl \in {"shutdown", "reported"} => allDone

(* Of a worker that is done, and alone, the controller holds everything,   *)
(* and no older snapshot of it is on its way.                              *)
CurrentInv ==
    \A p \in Workers :
       (Joined(p) /\ Alone(p) /\ Id[p] \in doneWorkers) =>
          /\ Over(p)
          /\ results[Id[p]] = work[p]
          /\ \A m \in posts : m.from = p => m.done

SumInv ==
    (ctrl = "reported" /\ CohortOnly /\ ~overtaken) => aggregate = Sum(work, Workers)

ReportInv ==
    /\ WorkInv /\ PostsInv /\ ResultsInv /\ CtrlInv
    /\ overtaken \/ CurrentInv
    /\ SumInv

LEMMA InitHoldsOfReport == Init => ReportInv
<1> SUFFICES ASSUME Init PROVE ReportInv
  OBVIOUS
<1>1. /\ registered = <<>> /\ posts = {} /\ doneWorkers = {} /\ ctrl = "waiting"
      /\ results = [d \in Ids |-> NoResult] /\ work = [p \in Workers |-> 0]
  BY DEF Init
<1>2. WorkInv /\ PostsInv /\ ResultsInv /\ CtrlInv
  BY <1>1 DEF WorkInv, PostsInv, ResultsInv, CtrlInv
<1>3. CurrentInv /\ SumInv
  BY <1>1 DEF CurrentInv, SumInv
<1>4. QED
  BY <1>2, <1>3 DEF ReportInv

LEMMA IdsOfJoined ==
    ASSUME Typing
    PROVE  /\ \A p \in Workers : Joined(p) => Id[p] \in RegisteredIds
           /\ \A d \in RegisteredIds : \E p \in Workers : Joined(p) /\ Id[p] = d
           /\ RegisteredIds \subseteq Ids
<1>1. \A k \in DOMAIN registered : registered[k] \in Workers
  BY LenProperties, ElementOfSeq DEF Typing
<1>2. QED
  BY <1>1 DEF Joined, RegisteredIds, Ids

(* When a cohort is done, all of it is, and no two of it share an id: with *)
(* fewer ids than workers the count would not have been reached.           *)
LEMMA CohortIsApart ==
    ASSUME DistInv, allDone, CohortOnly
    PROVE  /\ doneWorkers = RegisteredIds
           /\ \A p \in Workers : Joined(p) => Alone(p)
<1> DEFINE D == DOMAIN registered
           f == [k \in D |-> Id[registered[k]]]
<1>1. registered \in Seq(Workers) /\ D = 1 .. Len(registered) /\ Len(registered) \in Nat
  BY LenProperties DEF DistInv, Typing
<1>2. /\ doneWorkers \in SUBSET RegisteredIds
      /\ Cardinality(doneWorkers) >= NumWorkers
      /\ Len(registered) <= NumWorkers
  BY DEF DistInv, DoneInv, CohortOnly
<1>3. IsFiniteSet(RegisteredIds) /\ Cardinality(RegisteredIds) <= Len(registered)
  BY <1>1, IdsAreFew
<1>4. /\ Cardinality(doneWorkers) <= Cardinality(RegisteredIds)
      /\ Cardinality(RegisteredIds) = Cardinality(doneWorkers) => RegisteredIds = doneWorkers
  BY <1>2, <1>3, FS_Subset
<1>5. Cardinality(doneWorkers) \in Nat /\ Cardinality(RegisteredIds) \in Nat /\ NumWorkers \in Nat
  BY <1>2, <1>3, FS_Subset, FS_CardinalityType, DistributedAssumption
<1>6. doneWorkers = RegisteredIds /\ Cardinality(RegisteredIds) = Len(registered)
  BY <1>1, <1>2, <1>3, <1>4, <1>5
<1>7. \A j, k \in D : Id[registered[j]] = Id[registered[k]] => j = k
  <2>1. f \in Surjection(D, RegisteredIds)
    BY DEF Surjection, RegisteredIds
  <2>2. IsFiniteSet(D) /\ Cardinality(D) = Len(registered)
    BY <1>1, FS_Interval
  <2> HIDE DEF f
  <2>3. f \in Injection(D, RegisteredIds)
    BY <1>6, <2>1, <2>2, FS_Surjection
  <2> USE DEF f
  <2>4. QED
    BY <2>3 DEF Injection, IsInjective
<1>8. QED
  BY <1>6, <1>7 DEF Joined, Alone

(* The sum over the ids is the sum over the workers. *)
LEMMA ResultsAddUp ==
    ASSUME DistInv, ReportInv, ~overtaken, allDone, CohortOnly
    PROVE  Sum(results, {d \in Ids : results[d] # NoResult}) = Sum(work, Workers)
<1> DEFINE J == {p \in Workers : Joined(p)}
<1>1. Typing /\ WorkInv /\ ResultsInv /\ CurrentInv
  BY DEF DistInv, ReportInv
<1>2. doneWorkers = RegisteredIds /\ \A p \in J : Alone(p)
  BY CohortIsApart
<1>3. {d \in Ids : results[d] # NoResult} = RegisteredIds
  BY <1>1, <1>2, IdsOfJoined DEF ResultsInv
<1>4. RegisteredIds = {Id[p] : p \in J}
  BY <1>1, IdsOfJoined
<1>5. \A p, q \in J : Id[p] = Id[q] => p = q
  BY <1>2 DEF Alone
<1>6. \A p \in J : work[p] \in Nat /\ results[Id[p]] = work[p]
  BY <1>1, <1>2, <1>4 DEF CurrentInv, WorkInv
<1>7. IsFiniteSet(J) /\ J \in SUBSET Workers /\ IsFiniteSet(Workers)
  BY FS_Subset, DistributedAssumption
<1>8. (\A p \in Workers : work[p] \in Nat) /\ \A p \in Workers \ J : work[p] = 0
  BY <1>1 DEF WorkInv
<1> HIDE DEF J
<1>9. Sum(results, {Id[p] : p \in J}) = Sum(work, J)
  BY <1>5, <1>6, <1>7, SumRenamed
<1>10. Sum(work, J) = Sum(work, Workers)
  BY <1>7, <1>8, SumWithoutZeros
<1>11. QED
  BY <1>3, <1>4, <1>9, <1>10

(* Steps that change no count: the reports sent in one are of a worker     *)
(* that was not over, and are final only if it now is.                     *)
LEMMA QuietKeepsReport ==
    ASSUME DistInv, ReportInv,
           UNCHANGED <<registered, results, doneWorkers, allDone, aggregate, work, overtaken>>,
           ctrl' \in {"shutdown", "reported"} => allDone,
           ctrl' = "reported" => ctrl = "reported",
           \A p \in Workers : Over(p) => Over(p)',
           \A m \in posts' : m \in posts \/ /\ m.result \in Nat /\ ~Over(m.from)
                                            /\ m.done => Over(m.from)' /\ m.result = work[m.from]
    PROVE  ReportInv'
<1>1. \A p : Joined(p)' <=> Joined(p)
  BY DEF Joined
<1>2. \A p : Alone(p)' <=> Alone(p)
  BY <1>1 DEF Alone
<1>3. RegisteredIds' = RegisteredIds
  BY DEF RegisteredIds
<1>4. WorkInv' /\ ResultsInv' /\ CtrlInv'
  BY <1>1, <1>3 DEF ReportInv, WorkInv, ResultsInv, CtrlInv
<1>5. PostsInv'
  BY DEF DistInv, Typing, ReportInv, PostsInv
<1>6. CurrentInv => CurrentInv'
  BY <1>1, <1>2 DEF CurrentInv
<1>7. SumInv'
  BY DEF ReportInv, SumInv, CohortOnly
<1>8. QED
  BY <1>4, <1>5, <1>6, <1>7 DEF ReportInv

(* A worker that registers under an id that is done is not alone with it. *)
LEMMA RegisterKeepsReport ==
    ASSUME DistInv, DistInv', ReportInv, NEW p \in Workers, Register(p)
    PROVE  ReportInv'
<1>1. /\ ctrl = "waiting" /\ pc[p] = "new" /\ pc' = [pc EXCEPT ![p] = "joining"]
      /\ registered' = Append(registered, p)
      /\ UNCHANGED <<results, doneWorkers, allDone, ctrl, aggregate, work, posts, overtaken>>
  BY DEF Register, Goto
<1>2. /\ \A q : Joined(q)' <=> Joined(q) \/ q = p
      /\ RegisteredIds \subseteq RegisteredIds'
  <2>1. PICK n \in Nat : n = Len(registered) /\ DOMAIN registered = 1 .. n
    BY LenProperties DEF DistInv, Typing
  <2>2. /\ DOMAIN registered' = 1 .. n + 1
        /\ \A k \in 1 .. n : registered'[k] = registered[k]
        /\ registered'[n + 1] = p
    BY <1>1, <2>1, AppendProperties, LenProperties DEF DistInv, Typing
  <2>3. 1 .. n + 1 = (1 .. n) \cup {n + 1}
    BY <2>1
  <2>4. QED
    BY <2>1, <2>2, <2>3 DEF Joined, RegisteredIds
<1>3. \A q \in Workers : Over(q) => Over(q)'
  BY <1>1 DEF DistInv, Typing, Over
<1>4. \A q \in Workers : Alone(q)' => Alone(q)
  BY <1>2 DEF Alone
<1>6. WorkInv' /\ CtrlInv'
  BY <1>1, <1>2 DEF ReportInv, WorkInv, CtrlInv
<1>7. ResultsInv'
  BY <1>1, <1>2 DEF ReportInv, ResultsInv
<1>8. PostsInv'
  BY <1>1, <1>3 DEF DistInv, Typing, ReportInv, PostsInv
<1>9. ASSUME Id[p] \in doneWorkers, Alone(p)' PROVE FALSE
  <2>1. Typing /\ ~Joined(p) /\ doneWorkers \subseteq RegisteredIds
    BY <1>1 DEF DistInv, JoinedInv, DoneInv
  <2>2. PICK q \in Workers : Joined(q) /\ Id[q] = Id[p]
    BY <1>9, <2>1, IdsOfJoined
  <2>3. QED
    BY <1>2, <1>9, <2>1, <2>2 DEF Alone
<1>10. CurrentInv => CurrentInv'
  BY <1>1, <1>2, <1>3, <1>4, <1>9 DEF CurrentInv
<1>11. SumInv'
  BY <1>1 DEF SumInv
<1>12. QED
  BY <1>1, <1>6, <1>7, <1>8, <1>10, <1>11 DEF ReportInv

(* A worker that records is not over: it is not done if it is alone, and   *)
(* nothing has been reported if it is of the cohort.                       *)
LEMMA RecordKeepsReport ==
    ASSUME DistInv, ReportInv, NEW p \in Workers, Record(p)
    PROVE  ReportInv'
<1>1. /\ pc[p] = "running" /\ work' = [work EXCEPT ![p] = @ + 1]
      /\ UNCHANGED <<registered, results, doneWorkers, allDone, ctrl, aggregate, pc, posts,
                     overtaken>>
  BY DEF Record, controller
<1>2. Joined(p) /\ ~Over(p)
  BY <1>1 DEF DistInv, JoinedInv, Over
<1>3. /\ \A q : (Joined(q)' <=> Joined(q)) /\ (Over(q)' <=> Over(q))
      /\ RegisteredIds' = RegisteredIds
  BY <1>1 DEF Joined, Over, RegisteredIds
<1>4. \A q \in Workers : Alone(q)' <=> Alone(q)
  BY <1>3 DEF Alone
<1>5. work' \in [Workers -> Nat] /\ \A q \in Workers \ {p} : work'[q] = work[q]
  BY <1>1 DEF ReportInv, WorkInv
<1>6. WorkInv'
  BY <1>2, <1>3, <1>5 DEF ReportInv, WorkInv
<1>7. ResultsInv' /\ CtrlInv'
  BY <1>1, <1>3 DEF ReportInv, ResultsInv, CtrlInv
<1>8. PostsInv'
  BY <1>1, <1>2, <1>3, <1>5 DEF DistInv, Typing, ReportInv, PostsInv
<1>9. CurrentInv => CurrentInv'
  BY <1>1, <1>2, <1>3, <1>4, <1>5 DEF CurrentInv
<1>10. SumInv'
  <2>1. SUFFICES ASSUME ~overtaken, ctrl = "reported", CohortOnly PROVE FALSE
    BY <1>1 DEF SumInv, CohortOnly
  <2>2. allDone /\ CurrentInv
    BY <2>1 DEF ReportInv, CtrlInv
  <2>3. Alone(p) /\ doneWorkers = RegisteredIds
    BY <1>2, <2>1, <2>2, CohortIsApart
  <2>4. Id[p] \in doneWorkers
    BY <1>2, <2>3, IdsOfJoined DEF DistInv
  <2>5. QED
    BY <1>2, <2>2, <2>3, <2>4 DEF CurrentInv
<1>11. QED
  BY <1>1, <1>6, <1>7, <1>8, <1>9, <1>10 DEF ReportInv

(* handleMetrics: a snapshot that is stored over another is either a final *)
(* one, with no older one behind it, or of a worker that is not done.      *)
LEMMA HandleKeepsReport ==
    ASSUME DistInv, ReportInv, NEW m \in posts, HandleMetrics(m)
    PROVE  ReportInv'
<1> DEFINE w == m.from
<1>1. /\ Listening /\ posts' = posts \ {m}
      /\ results' = [results EXCEPT ![Id[w]] = m.result]
      /\ overtaken' = (overtaken \/ Overtakes(m))
      /\ UNCHANGED <<registered, ctrl, aggregate, pc, work>>
  BY DEF HandleMetrics
<1>2. /\ m.done => doneWorkers' = doneWorkers \cup {Id[w]}
      /\ ~m.done => doneWorkers' = doneWorkers
      /\ allDone => allDone'
  <2>1. CASE m.done
    <3>1. /\ doneWorkers' = doneWorkers \cup {Id[w]}
          /\ allDone' = (allDone \/ Cardinality(doneWorkers') >= NumWorkers)
      BY <2>1 DEF HandleMetrics
    <3>2. allDone => allDone'
      BY <3>1, Zenon
    <3>3. QED
      BY <2>1, <3>1, <3>2
  <2>2. CASE ~m.done
    BY <2>2 DEF HandleMetrics
  <2>3. QED
    BY <2>1, <2>2
<1>3. w \in Workers /\ Joined(w) /\ m.result \in Nat /\ Id[w] \in RegisteredIds /\ Id[w] \in Ids
  BY IdsOfJoined DEF DistInv, Typing, JoinedInv, ReportInv, PostsInv, Ids
<1>4. /\ \A q : (Joined(q)' <=> Joined(q)) /\ (Over(q)' <=> Over(q))
      /\ RegisteredIds' = RegisteredIds
  BY <1>1 DEF Joined, Over, RegisteredIds
<1>5. \A q \in Workers : Alone(q)' <=> Alone(q)
  BY <1>4 DEF Alone
<1>6. /\ results'[Id[w]] = m.result
      /\ \A d \in Ids \ {Id[w]} : results'[d] = results[d]
      /\ results' \in [Ids -> Nat \cup {NoResult}]
  BY <1>1, <1>3 DEF ReportInv, ResultsInv
<1>7. WorkInv' /\ CtrlInv' /\ PostsInv'
  BY <1>1, <1>2, <1>4 DEF ReportInv, WorkInv, CtrlInv, PostsInv
<1>8. ResultsInv'
  <2>1. m.result # NoResult
    BY <1>3 DEF NoResult
  <2>2. doneWorkers \subseteq Ids
    BY IdsOfJoined DEF DistInv, DoneInv
  <2>3. QED
    BY <1>2, <1>3, <1>4, <1>6, <2>1, <2>2 DEF ReportInv, ResultsInv
<1>9. overtaken' \/ CurrentInv'
  <2>1. SUFFICES ASSUME ~overtaken', CurrentInv, NEW p \in Workers,
                        Joined(p), Alone(p), Id[p] \in doneWorkers'
                 PROVE  /\ Over(p) /\ results'[Id[p]] = work[p]
                        /\ \A n \in posts' : n.from = p => n.done
    <3>1. overtaken => overtaken'
      BY <1>1, Zenon
    <3>2. QED
      BY <1>1, <1>4, <1>5, <3>1 DEF ReportInv, CurrentInv
  <2>2. ~Overtakes(m)
    BY <1>1, <2>1, Zenon
  <2>3. CASE p = w /\ m.done
    BY <1>1, <1>6, <2>2, <2>3 DEF Overtakes, ReportInv, PostsInv
  <2>4. CASE p = w /\ ~m.done
    BY <1>2, <2>1, <2>4 DEF CurrentInv
  <2>5. CASE p # w
    <3>1. Id[p] # Id[w]
      BY <1>3, <2>1, <2>5 DEF Alone
    <3>2. Id[p] \in doneWorkers /\ Id[p] \in Ids
      BY <1>2, <2>1, <3>1 DEF Ids
    <3>3. QED
      BY <1>1, <1>6, <2>1, <3>1, <3>2 DEF CurrentInv
  <2>6. QED
    BY <2>3, <2>4, <2>5
<1>10. SumInv'
  BY <1>1 DEF Listening, SumInv
<1>11. QED
  BY <1>7, <1>8, <1>9, <1>10 DEF ReportInv

(* The aggregate is the sum of what is held. *)
LEMMA AggregateKeepsReport ==
    ASSUME DistInv, ReportInv, Aggregate
    PROVE  ReportInv'
<1>1. /\ ctrl = "shutdown" /\ ctrl' = "reported"
      /\ aggregate' = Sum(results, {d \in Ids : results[d] # NoResult})
      /\ UNCHANGED <<registered, results, doneWorkers, allDone, pc, work, posts, overtaken>>
  BY DEF Aggregate, Sum
<1>2. allDone
  BY <1>1 DEF ReportInv, CtrlInv
<1>3. /\ \A q : (Joined(q)' <=> Joined(q)) /\ (Over(q)' <=> Over(q))
      /\ RegisteredIds' = RegisteredIds
  BY <1>1 DEF Joined, Over, RegisteredIds
<1>4. \A q \in Workers : Alone(q)' <=> Alone(q)
  BY <1>3 DEF Alone
<1>5. WorkInv' /\ ResultsInv' /\ CtrlInv' /\ PostsInv'
  BY <1>1, <1>2, <1>3 DEF ReportInv, WorkInv, ResultsInv, CtrlInv, PostsInv
<1>6. CurrentInv => CurrentInv'
  BY <1>1, <1>3, <1>4 DEF CurrentInv
<1>7. (~overtaken /\ CohortOnly) => aggregate' = Sum(work, Workers)
  BY <1>1, <1>2, ResultsAddUp
<1>8. SumInv'
  BY <1>1, <1>7 DEF SumInv, CohortOnly
<1>9. QED
  BY <1>1, <1>5, <1>6, <1>8 DEF ReportInv

LEMMA NextKeepsReport == DistInv /\ DistInv' /\ ReportInv /\ [Next]_vars => ReportInv'
<1> SUFFICES ASSUME DistInv, DistInv', ReportInv, [Next]_vars PROVE ReportInv'
  OBVIOUS
<1>1. pc \in [Workers -> WorkerPCs] /\ work \in [Workers -> Nat]
  BY DEF DistInv, Typing, ReportInv, WorkInv
<1>2. ctrl \in {"shutdown", "reported"} => allDone
  BY DEF ReportInv, CtrlInv
<1>3. CASE UNCHANGED vars
  BY <1>2, <1>3, QuietKeepsReport DEF vars, controller, Over
<1>4. ASSUME NEW p \in Workers, Progresses(p) \/ Record(p) \/ PushProgress(p)
                                \/ Disconnect(p) \/ Crash(p)
      PROVE  ReportInv'
  <2>1. CASE Register(p)
    BY <2>1, RegisterKeepsReport
  <2>2. CASE Record(p)
    BY <2>2, RecordKeepsReport
  <2>3. CASE \/ Assign(p) \/ Refused(p) \/ StartRun(p) \/ AbandonRun(p) \/ Exit(p)
             \/ Disconnect(p) \/ Crash(p)
    <3>1. /\ UNCHANGED <<controller, work, posts, overtaken>>
          /\ \/ pc' = [pc EXCEPT ![p] = "exited"]
             \/ pc' = [pc EXCEPT ![p] = "crashed"]
             \/ pc[p] = "joining" /\ pc' = [pc EXCEPT ![p] = "assigned"]
             \/ pc[p] = "assigned" /\ pc' = [pc EXCEPT ![p] = "running"]
      <4>1. CASE Assign(p) \/ StartRun(p)
        BY <4>1 DEF Assign, StartRun, Goto
      <4>2. CASE Refused(p) \/ AbandonRun(p) \/ Exit(p)
        BY <4>2 DEF Refused, AbandonRun, Exit, Goto
      <4>3. CASE Disconnect(p) \/ Crash(p)
        BY <4>3 DEF Disconnect, Crash, Goto
      <4>4. QED
        BY <2>3, <4>1, <4>2, <4>3
    <3>2. \A q \in Workers : Over(q) => Over(q)'
      BY <1>1, <3>1 DEF Over
    <3>3. QED
      BY <1>2, <3>1, <3>2, QuietKeepsReport DEF controller
  <2>4. CASE PushProgress(p)
    <3>1. /\ UNCHANGED <<controller, pc, work, overtaken>>
          /\ pc[p] = "running" /\ posts' = posts \cup {Post(p, FALSE)}
      BY <2>4 DEF PushProgress
    <3>2. \A m \in posts' : m \in posts \/ (m.result \in Nat /\ ~Over(m.from) /\ ~m.done)
      BY <1>1, <3>1 DEF Post, Over
    <3>3. \A q \in Workers : Over(q) => Over(q)'
      BY <3>1 DEF Over
    <3>4. QED
      BY <1>2, <3>1, <3>2, <3>3, QuietKeepsReport DEF controller
  <2>5. CASE FinishRun(p)
    <3>1. /\ UNCHANGED <<controller, work, overtaken>>
          /\ pc[p] = "running" /\ pc' = [pc EXCEPT ![p] = "reporting"]
          /\ posts' = posts \/ posts' = posts \cup {Post(p, TRUE)}
      BY <2>5 DEF FinishRun, Goto
    <3>2. (\A q \in Workers : Over(q) => Over(q)') /\ ~Over(p) /\ Over(p)'
      BY <1>1, <3>1 DEF Over
    <3>3. \A m \in posts' : m \in posts \/ /\ m.from = p /\ m.result \in Nat
                                           /\ m.result = work[p]
      BY <1>1, <3>1 DEF Post
    <3>4. QED
      BY <1>2, <3>1, <3>2, <3>3, QuietKeepsReport DEF controller
  <2>6. QED
    BY <1>4, <2>1, <2>2, <2>3, <2>4, <2>5 DEF Progresses
<1>5. ASSUME NEW m \in posts, HandleMetrics(m) \/ LoseMetrics(m)
      PROVE  ReportInv'
  <2>1. CASE HandleMetrics(m)
    BY <2>1, HandleKeepsReport
  <2>2. CASE LoseMetrics(m)
    <3>1. /\ UNCHANGED <<controller, pc, work, overtaken>>
          /\ posts' = posts \ {m}
      BY <2>2 DEF LoseMetrics
    <3>2. QED
      BY <1>2, <3>1, QuietKeepsReport DEF controller, Over
  <2>3. QED
    BY <1>5, <2>1, <2>2
<1>6. CASE Complete \/ GiveUp \/ Fail
  <2>1. /\ UNCHANGED <<registered, results, doneWorkers, allDone, aggregate, pc, work, posts,
                       overtaken>>
        /\ (ctrl' = "shutdown" /\ allDone) \/ ctrl' \in {"closing", "timedOut"}
    BY <1>6 DEF Complete, GiveUp, Fail
  <2>2. QED
    BY <2>1, QuietKeepsReport DEF Over
<1>7. CASE Aggregate
  BY <1>7, AggregateKeepsReport
<1>8. QED
  BY <1>3, <1>4, <1>5, <1>6, <1>7 DEF Next

(* "Aggregate combines each worker's latest snapshot", and "counts sum     *)
(* exactly" (controller.go:145-146): whatever crashes, hangs up, is lost   *)
(* or comes late, and also when ids repeat, a report on a cohort counts    *)
(* every transaction of every worker once, unless a final report overtook  *)
(* a progress push.                                                        *)
THEOREM CompleteReport == Spec => []ReportIsComplete
<1>1. Init => ReportInv
  BY InitHoldsOfReport
<1>2. DistInv /\ DistInv' /\ ReportInv /\ [Next]_vars => ReportInv'
  BY NextKeepsReport
<1>3. ReportInv => ReportIsComplete
  BY DEF ReportInv, SumInv, ReportIsComplete, CountsSumExactly, Sum
<1>4. QED
  BY <1>1, <1>2, <1>3, Invariance, PTL DEF Spec
=============================================================================
