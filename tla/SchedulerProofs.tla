-------------------------- MODULE SchedulerProofs --------------------------
(***************************************************************************)
(* For every number of workers, layout of the queues and sequence of       *)
(* policy changes: a lane is polled through one work entry of one worker,  *)
(* low-priority lanes by worker 0 and the others by the other workers,     *)
(* evenly, and one policy at a time assigns lanes.                         *)
(***************************************************************************)
EXTENDS Scheduler, FiniteSetTheorems, TLAPS

\* The lanes in some work entry are those below num_scheduled_ of their group,
\* which is what makes a second pass skip them.
OnlyScheduled ==
  \A e \in Lane, w \in Worker :
    Entries(w, e) > 0 => e[3] < num_scheduled[<<e[1], e[2]>>]

IndInv == TypeOK /\ OnlyScheduled /\ LaneOnce /\ LowOnWorker0 /\ OneScheduler

\* A lane is an index below num_lanes_ of a group of its queue.
LEMMA LaneShape ==
  ASSUME NEW e \in Lane
  PROVE  /\ <<e[1], e[2]>> \in Group
         /\ e[3] \in Nat /\ e[3] < NumLanes[<<e[1], e[2]>>]
<1>1. PICK g \in Group : e \in {<<g[1], g[2], l>> : l \in 0..NumLanes[g]-1}
  BY DEF Lane
<1>2. PICK l \in 0..NumLanes[g]-1 : e = <<g[1], g[2], l>>
  BY <1>1
<1>3. NumLanes[g] \in Nat
  BY SchedulerAssumption
<1>4. PICK q \in Queue : g \in {<<q, p>> : p \in 0..NumGroups[q]-1}
  BY DEF Group
<1>5. g = <<e[1], e[2]>>
  BY <1>2, <1>4
<1> QED
  BY <1>2, <1>3, <1>5

\* Schedule gives a lane to an existing worker: worker 0 if and only if the lane
\* has low priority.
LEMMA TargetWorker ==
  ASSUME TypeOK, NEW e \in Lane, NEW c \in Nat,
         e[3] >= num_scheduled[<<e[1], e[2]>>]
  PROVE  /\ Target(c, e) \in Worker
         /\ Target(c, e) = 0 <=> IsLowPriority(<<e[1], e[2]>>)
<1> DEFINE g == <<e[1], e[2]>>
<1>1. g \in Group /\ e[3] \in Nat
  BY LaneShape
<1>2. num_scheduled[g] \in Nat
  BY <1>1 DEF TypeOK
<1>3. PICK n \in Nat : n = c + e[3] - num_scheduled[g]
  BY <1>1, <1>2
<1>4. PICK m \in Nat : m = NumWorkers - 1 /\ m > 0
  BY SchedulerAssumption
<1>5. n % m \in 0..m-1
  BY <1>4
<1>6. (c + e[3] - num_scheduled[g]) % (NumWorkers - 1) = n % m
  BY <1>3, <1>4
<1> QED
  BY <1>4, <1>5, <1>6, SchedulerAssumption DEF Target, Worker

\* The initial states: only the lanes of the admin queue are polled, by worker 0.
LEMMA InitInd == Init => IndInv
<1> SUFFICES ASSUME Init PROVE IndInv
  OBVIOUS
<1>1. /\ NumWorkers \in Nat /\ NumWorkers >= 2 /\ 0 \in Worker
      /\ NumLanes \in [Group -> Nat \ {0}]
  BY SchedulerAssumption DEF Worker
<1>2. TypeOK
  <2>1. created \subseteq Queue
    BY SchedulerAssumption DEF Init, Queue
  <2>2. num_scheduled \in [Group -> Nat] /\ \A g \in Group : num_scheduled[g] <= NumLanes[g]
    BY <1>1 DEF Init
  <2>3. count \in [Policy -> Nat] /\ work_queue \in [Worker -> [Lane -> Nat]]
    BY DEF Init
  <2>4. poll_queues \in [Worker -> [Lane -> Nat]]
    BY DEF Init
  <2>5. /\ request \in [Request -> {"idle", "pending", "done"}]
        /\ sched \in [Request -> {"none", "live", "module_complete", "complete"}]
        /\ queue_sched \in Request \cup {NoRequest}
    BY DEF Init
  <2>6. pass \in [task : Request \cup {NoRequest}, at : Nat \X Nat]
    BY DEF Init, NoPass, FirstGroup
  <2> QED
    BY <2>1, <2>2, <2>3, <2>4, <2>5, <2>6 DEF TypeOK
<1>3. \A w \in Worker, e \in Lane :
        Entries(w, e) = IF w = 0 /\ e[1] = 0 /\ e[2] = 0 THEN 1 ELSE 0
  BY DEF Init, Entries
<1>4. OnlyScheduled
  <2> SUFFICES ASSUME NEW e \in Lane, NEW w \in Worker, Entries(w, e) > 0
               PROVE  e[3] < num_scheduled[<<e[1], e[2]>>]
    BY DEF OnlyScheduled
  <2>1. e[1] = 0 /\ e[2] = 0
    BY <1>3
  <2>2. num_scheduled[<<0, 0>>] = NumLanes[<<0, 0>>]
    BY <2>1, LaneShape DEF Init
  <2> QED
    BY <2>1, <2>2, LaneShape
<1>5. LaneOnce
  BY <1>3 DEF LaneOnce
<1>6. LowOnWorker0
  <2> SUFFICES ASSUME NEW w \in Worker, NEW e \in Lane, Entries(w, e) > 0
               PROVE  w = 0 /\ IsLowPriority(<<e[1], e[2]>>)
    BY DEF LowOnWorker0
  <2> QED
    BY <1>3 DEF IsLowPriority
<1>7. OneScheduler
  BY DEF Init, OneScheduler, Polls
<1> QED
  BY <1>2, <1>4, <1>5, <1>6, <1>7 DEF IndInv

\* A step that leaves the work entries and num_scheduled_ alone keeps what the
\* invariant says of them.
LEMMA SameEntries ==
  ASSUME IndInv, UNCHANGED <<num_scheduled, poll_queues, work_queue>>
  PROVE  OnlyScheduled' /\ LaneOnce' /\ LowOnWorker0'
BY DEF IndInv, OnlyScheduled, LaneOnce, LowOnWorker0, Entries, IsLowPriority

\* So does one that only moves entries from poll_queues_ to work_queue_.
LEMMA SameSums ==
  ASSUME IndInv, UNCHANGED num_scheduled,
         \A w \in Worker, e \in Lane : Entries(w, e)' = Entries(w, e)
  PROVE  OnlyScheduled' /\ LaneOnce' /\ LowOnWorker0'
<1>1. OnlyScheduled'
  BY DEF IndInv, OnlyScheduled
<1>2. LaneOnce'
  BY DEF IndInv, LaneOnce
<1>3. LowOnWorker0'
  BY DEF IndInv, LowOnWorker0, IsLowPriority
<1> QED
  BY <1>1, <1>2, <1>3

\* One lane group of a pass: the lanes from num_scheduled_ on have no entry and
\* get one, at the worker Target names.
LEMMA GroupStep == IndInv /\ ScheduleGroup => IndInv'
<1> SUFFICES ASSUME IndInv, ScheduleGroup PROVE IndInv'
  OBVIOUS
<1> PICK g : g = pass.at
  OBVIOUS
<1> PICK c : c = count[PolicyOf[pass.task]]
  OBVIOUS
<1> DEFINE New(e) == g = <<e[1], e[2]>> /\ e[3] >= num_scheduled[g]
           Add(w, e) == IF New(e) /\ Target(c, e) = w THEN 1 ELSE 0
<1> USE DEF IndInv
<1>1. /\ g \in Group /\ pass.task \in Request
      /\ g[1] \in Nat /\ g[2] \in Nat
      /\ PolicyOf[pass.task] \in Policy /\ c \in Nat
      /\ NumLanes[g] \in Nat /\ num_scheduled[g] \in Nat /\ num_scheduled[g] <= NumLanes[g]
  BY SchedulerAssumption DEF ScheduleGroup, Free, TypeOK
<1>2. pass' \in [task : Request \cup {NoRequest}, at : Nat \X Nat]
  BY <1>1 DEF ScheduleGroup, TypeOK, NextGroup
<1>3. OneScheduler'
  BY DEF ScheduleGroup, OneScheduler, Polls
<1>4. CASE g[1] \notin created
  <2>1. UNCHANGED <<num_scheduled, poll_queues, work_queue, count, created, request, sched, queue_sched>>
    BY <1>4 DEF ScheduleGroup
  <2>2. TypeOK'
    BY <2>1, <1>2 DEF TypeOK
  <2> QED
    BY <2>1, <2>2, <1>3, SameEntries
<1>5. CASE g[1] \in created
  <2>1. /\ poll_queues' = [w \in Worker |-> [e \in Lane |->
             IF New(e) /\ Target(c, e) = w THEN poll_queues[w][e] + 1 ELSE poll_queues[w][e]]]
        /\ count' = [count EXCEPT ![PolicyOf[pass.task]] = @ + Counted(g)]
        /\ num_scheduled' = [num_scheduled EXCEPT ![g] = NumLanes[g]]
        /\ UNCHANGED <<created, work_queue, request, sched, queue_sched>>
    BY <1>5 DEF ScheduleGroup, Scheduled
  <2>2. Counted(g) \in Nat
    BY <1>1 DEF Counted
  <2>3. TypeOK'
    <3>1. count' \in [Policy -> Nat]
      BY <2>1, <2>2, <1>1 DEF TypeOK
    <3>2. poll_queues' \in [Worker -> [Lane -> Nat]]
      BY <2>1 DEF TypeOK
    <3>3. num_scheduled' \in [Group -> Nat] /\ \A h \in Group : num_scheduled'[h] <= NumLanes[h]
      BY <2>1, <1>1 DEF TypeOK
    <3> QED
      BY <2>1, <3>1, <3>2, <3>3, <1>2 DEF TypeOK
  <2>4. \A w \in Worker, e \in Lane :
           /\ Entries(w, e) \in Nat
           /\ Entries(w, e)' = Entries(w, e) + Add(w, e)
    BY <2>1 DEF Entries, TypeOK
  <2>5. \A e \in Lane : New(e) => \A w \in Worker : Entries(w, e) = 0
    BY <2>4, <1>1, LaneShape DEF OnlyScheduled
  <2>6. OnlyScheduled'
    <3> SUFFICES ASSUME NEW e \in Lane, NEW w \in Worker, Entries(w, e)' > 0
                 PROVE  e[3] < num_scheduled'[<<e[1], e[2]>>]
      BY DEF OnlyScheduled
    <3>1. <<e[1], e[2]>> \in Group /\ e[3] \in Nat /\ e[3] < NumLanes[<<e[1], e[2]>>]
      BY LaneShape
    <3>2. CASE g = <<e[1], e[2]>>
      BY <2>1, <3>1, <3>2 DEF TypeOK
    <3>3. CASE g # <<e[1], e[2]>>
      <4>1. Entries(w, e) > 0
        BY <2>4, <3>3
      <4> QED
        BY <4>1, <2>1, <3>1, <3>3 DEF OnlyScheduled, TypeOK
    <3> QED
      BY <3>2, <3>3
  <2>7. LaneOnce'
    <3> SUFFICES ASSUME NEW e \in Lane
                 PROVE  /\ \A w \in Worker : Entries(w, e)' <= 1
                        /\ \A v, w \in Worker : Entries(v, e)' > 0 /\ Entries(w, e)' > 0 => v = w
      BY DEF LaneOnce
    <3>1. CASE New(e)
      <4>1. \A w \in Worker : Entries(w, e)' = IF Target(c, e) = w THEN 1 ELSE 0
        BY <2>4, <2>5, <3>1
      <4> QED
        BY <4>1
    <3>2. CASE ~New(e)
      <4>1. \A w \in Worker : Entries(w, e)' = Entries(w, e)
        BY <2>4, <3>2
      <4> QED
        BY <4>1 DEF LaneOnce
    <3> QED
      BY <3>1, <3>2
  <2>8. LowOnWorker0'
    <3> SUFFICES ASSUME NEW w \in Worker, NEW e \in Lane, Entries(w, e)' > 0
                 PROVE  w = 0 <=> IsLowPriority(<<e[1], e[2]>>)
      BY DEF LowOnWorker0, IsLowPriority
    <3>1. CASE New(e)
      <4>1. Target(c, e) = w
        BY <2>4, <2>5, <3>1
      <4> QED
        BY <4>1, <3>1, <1>1, TargetWorker
    <3>2. CASE ~New(e)
      BY <2>4, <3>2 DEF LowOnWorker0
    <3> QED
      BY <3>1, <3>2
  <2> QED
    BY <2>3, <2>6, <2>7, <2>8, <1>3
<1> QED
  BY <1>4, <1>5

\* Every step keeps the invariant.
LEMMA NextInd == IndInv /\ [Next]_vars => IndInv'
<1> SUFFICES ASSUME IndInv, [Next]_vars PROVE IndInv'
  OBVIOUS
<1>1. ASSUME NEW q \in Queue, CreateQueue(q) PROVE IndInv'
  <2>1. TypeOK' /\ OneScheduler'
    BY <1>1 DEF CreateQueue, IndInv, TypeOK, OneScheduler, Polls
  <2> QED
    BY <1>1, <2>1, SameEntries DEF CreateQueue, IndInv
<1>2. ASSUME NEW r \in Request, SendPolicy(r) PROVE IndInv'
  <2>1. TypeOK' /\ OneScheduler'
    BY <1>2 DEF SendPolicy, IndInv, TypeOK, OneScheduler, Polls
  <2> QED
    BY <1>2, <2>1, SameEntries DEF SendPolicy, IndInv
<1>3. ASSUME NEW r \in Request, SetWorkOrchQueuePolicy(r) PROVE IndInv'
  <2>1. TypeOK'
    BY <1>3 DEF SetWorkOrchQueuePolicy, IndInv, TypeOK
  <2>2. OneScheduler'
    BY <1>3, SchedulerAssumption DEF SetWorkOrchQueuePolicy, Busy, IndInv, TypeOK, OneScheduler, Polls
  <2> QED
    BY <1>3, <2>1, <2>2, SameEntries DEF SetWorkOrchQueuePolicy, IndInv
<1>4. ASSUME NEW r \in Request, ScheduleBegin(r) PROVE IndInv'
  <2>1. TypeOK' /\ OneScheduler'
    BY <1>4 DEF ScheduleBegin, FirstGroup, IndInv, TypeOK, OneScheduler, Polls
  <2> QED
    BY <1>4, <2>1, SameEntries DEF ScheduleBegin, IndInv
<1>5. CASE ScheduleGroup
  BY <1>5, GroupStep
<1>6. CASE ScheduleEnd
  <2>1. pass.task \in Request /\ AfterRun(sched[pass.task]) \in {"none", "live", "complete"}
    BY <1>6 DEF ScheduleEnd, Free, AfterRun, IndInv, TypeOK
  <2>2. TypeOK'
    BY <1>6, <2>1 DEF ScheduleEnd, NoPass, FirstGroup, IndInv, TypeOK
  <2>3. OneScheduler'
    BY <1>6, <2>1 DEF ScheduleEnd, AfterRun, IndInv, TypeOK, OneScheduler, Polls
  <2> QED
    BY <1>6, <2>2, <2>3, SameEntries DEF ScheduleEnd, IndInv
<1>7. ASSUME NEW w \in Worker, PollQueues(w) PROVE IndInv'
  <2>1. TypeOK'
    BY <1>7 DEF PollQueues, IndInv, TypeOK
  <2>2. \A v \in Worker, e \in Lane : Entries(v, e)' = Entries(v, e)
    BY <1>7 DEF PollQueues, Entries, IndInv, TypeOK
  <2>3. OneScheduler'
    BY <1>7 DEF PollQueues, IndInv, OneScheduler, Polls
  <2> QED
    BY <1>7, <2>1, <2>2, <2>3, SameSums DEF PollQueues, IndInv
<1>8. CASE UNCHANGED vars
  <2>1. TypeOK' /\ OneScheduler'
    BY <1>8 DEF vars, IndInv, TypeOK, OneScheduler, Polls
  <2> QED
    BY <1>8, <2>1, SameEntries DEF vars, IndInv
<1> QED
  BY <1>1, <1>2, <1>3, <1>4, <1>5, <1>6, <1>7, <1>8 DEF Next

\* The invariant holds in every reachable state.
THEOREM SchedulerInductive == Spec => []IndInv
BY InitInd, NextInd, PTL DEF Spec

\* Types, for every layout of the queues.
THEOREM SchedulerTypes == Spec => []TypeOK
<1>1. IndInv => TypeOK
  BY DEF IndInv
<1> QED
  BY <1>1, SchedulerInductive, PTL

\* No lane is ever polled by two workers or twice by one, which is the
\* LaneAssumption of Worker.
THEOREM LanesPolledOnce == Spec => []LaneOnce
<1>1. IndInv => LaneOnce
  BY DEF IndInv
<1> QED
  BY <1>1, SchedulerInductive, PTL

\* Worker 0 polls the low-priority lanes and the other workers the rest.
THEOREM AdminOnWorkerZero == Spec => []LowOnWorker0
<1>1. IndInv => LowOnWorker0
  BY DEF IndInv
<1> QED
  BY <1>1, SchedulerInductive, PTL

\* A policy is only started when the one before it has ended.
THEOREM PoliciesExclude == Spec => []OneScheduler
<1>1. IndInv => OneScheduler
  BY DEF IndInv
<1> QED
  BY <1>1, SchedulerInductive, PTL

-----------------------------------------------------------------------------
(* Round robin.                                                            *)

\* Division with remainder: the number of a lane determines its worker, and
\* the numbers that fall to one worker are the worker's own plus whole rounds.
LEMMA Round ==
  ASSUME NEW m \in Nat, m > 0, NEW k \in Nat
  PROVE  /\ k % m \in 0..m-1 /\ k \div m \in Nat
         /\ k = m * (k \div m) + (k % m)
OBVIOUS

\* A number made of whole rounds and a rest below m has that rest.
LEMMA Remainder ==
  ASSUME NEW m \in Nat, m > 0, NEW q \in Nat, NEW r \in 0..m-1
  PROVE  (m * q + r) % m = r
OBVIOUS

\* The numbers below c that fall to one of m workers.
Numbers(c, m, r) == {k \in 0..c-1 : k % m = r}

\* No worker gets more than one number more than another: from a number of the
\* one, other than its first, a number of the other lies less than a round away.
LEMMA Fair ==
  ASSUME NEW c \in Nat, NEW m \in Nat, m > 0, NEW r \in 0..m-1, NEW s \in 0..m-1
  PROVE  /\ IsFiniteSet(Numbers(c, m, s))
         /\ Cardinality(Numbers(c, m, r)) <= Cardinality(Numbers(c, m, s)) + 1
<1>1. \A x \in 0..m-1 : /\ IsFiniteSet(Numbers(c, m, x)) /\ Numbers(c, m, x) \subseteq Nat
                        /\ Cardinality(Numbers(c, m, x)) \in Nat
  <2> TAKE x \in 0..m-1
  <2>1. Numbers(c, m, x) \in SUBSET (0..c-1) /\ Numbers(c, m, x) \subseteq Nat
    BY DEF Numbers
  <2>2. IsFiniteSet(0..c-1)
    BY FS_Interval
  <2>3. IsFiniteSet(Numbers(c, m, x))
    BY <2>1, <2>2, FS_Subset
  <2> QED
    BY <2>1, <2>3, FS_CardinalityType
<1> DEFINE A == Numbers(c, m, r) \ {r}
           B == Numbers(c, m, s)
           f == [k \in A |-> k - m + s - r]
<1>2. \A k \in A : k \in Nat /\ k - m + s - r \in B
  <2> SUFFICES ASSUME NEW k \in A PROVE k \in Nat /\ k - m + s - r \in B
    OBVIOUS
  <2>1. k \in Nat /\ k < c /\ k % m = r /\ k # r
    BY DEF Numbers
  <2>2. PICK q \in Nat : k = m * q + r
    BY <2>1, Round
  <2>3. q # 0
    BY <2>1, <2>2
  <2>4. PICK p \in Nat : q = p + 1
    BY <2>3
  <2>5. m * q = m * p + m /\ m * p \in Nat
    BY <2>4
  <2>6. (m * p + s) % m = s
    BY Remainder
  <2>7. k - m + s - r = m * p + s /\ m * p + s \in 0..c-1
    <3>1. PICK x \in Nat : x = m * p
      BY <2>5
    <3>2. k = x + m + r
      BY <2>2, <2>5, <3>1
    <3>3. k - m + s - r = x + s /\ x + s \in 0..c-1
      BY <2>1, <3>2
    <3> QED
      BY <3>1, <3>3
  <2> QED
    BY <2>1, <2>6, <2>7 DEF Numbers
<1>3. IsFiniteSet(B) /\ Cardinality(B) \in Nat /\ Cardinality(Numbers(c, m, r)) \in Nat
  BY <1>1
<1>4. f \in Injection(A, B)
  <2>1. f \in [A -> B]
    BY <1>2
  <2>2. \A j, k \in Nat : j - m + s - r = k - m + s - r => j = k
    OBVIOUS
  <2>3. \A j, k \in DOMAIN f : f[j] = f[k] => j = k
    BY <1>2, <2>2, Zenon
  <2> QED
    BY <2>1, <2>3, Zenon DEF Injection, IsInjective
<1>5. Cardinality(A) <= Cardinality(B)
  BY <1>3, <1>4, FS_Injection
<1>6. Cardinality(Numbers(c, m, r)) <= Cardinality(A) + 1
  <2>1. IsFiniteSet(Numbers(c, m, r))
    BY <1>1
  <2>2. Cardinality(A) = IF r \in Numbers(c, m, r) THEN Cardinality(Numbers(c, m, r)) - 1
                                                   ELSE Cardinality(Numbers(c, m, r))
    BY <2>1, FS_RemoveElement
  <2> QED
    BY <1>3, <2>2
<1>7. Cardinality(A) \in Nat
  BY <1>1, FS_RemoveElement, FS_CardinalityType
<1> QED
  BY <1>3, <1>5, <1>6, <1>7

\* The lanes that have been dealt out round robin.
Dealt == {e \in Lane : /\ ~IsLowPriority(<<e[1], e[2]>>)
                       /\ \E w \in Worker : Entries(w, e) > 0}

\* Lane e was dealt out by policy pol[e] when its count_ was num[e]: each value of
\* a count_ so far stands for one lane, and names the worker that has it.
DealtAs(pol, num) ==
  /\ pol \in [Dealt -> Policy] /\ num \in [Dealt -> Nat]
  /\ \A d, e \in Dealt : pol[d] = pol[e] /\ num[d] = num[e] => d = e
  /\ \A e \in Dealt : /\ num[e] < count[pol[e]]
                      /\ Entries((num[e] % (NumWorkers - 1)) + 1, e) > 0
  /\ \A p \in Policy, k \in Nat : k < count[p] => \E e \in Dealt : pol[e] = p /\ num[e] = k

RoundRobin == \E pol, num : DealtAs(pol, num)

\* A number names a worker other than worker 0.
LEMMA NumberWorker ==
  ASSUME NEW k \in Nat
  PROVE  (k % (NumWorkers - 1)) + 1 \in Worker \ {0}
<1>1. NumWorkers - 1 \in Nat /\ NumWorkers - 1 > 0
  BY SchedulerAssumption
<1>2. k % (NumWorkers - 1) \in 0..NumWorkers - 1 - 1
  BY <1>1
<1> QED
  BY <1>2, SchedulerAssumption DEF Worker

\* Steps that deal out no lane keep the numbers.
LEMMA SameDeal ==
  ASSUME RoundRobin, UNCHANGED count,
         \A w \in Worker, e \in Lane : Entries(w, e)' = Entries(w, e)
  PROVE  RoundRobin'
<1>1. PICK pol, num : DealtAs(pol, num)
  BY Zenon DEF RoundRobin
<1>2. Dealt' = Dealt
  BY Zenon DEF Dealt, IsLowPriority
<1>3. \A e \in Dealt : (num[e] % (NumWorkers - 1)) + 1 \in Worker
  <2>1. \A e \in Dealt : num[e] \in Nat
    BY <1>1, Zenon DEF DealtAs
  <2> QED
    BY <2>1, NumberWorker, Zenon
<1>4. \A e \in Dealt : e \in Lane
  BY Zenon DEF Dealt
<1>5. \A e \in Dealt : /\ num[e] < count[pol[e]]
                       /\ Entries((num[e] % (NumWorkers - 1)) + 1, e) > 0
  BY <1>1, Zenon DEF DealtAs
<1>6. \A e \in Dealt : Entries((num[e] % (NumWorkers - 1)) + 1, e)' > 0
  BY <1>3, <1>4, <1>5, Zenon
<1>7. DealtAs(pol, num)'
  BY <1>1, <1>2, <1>5, <1>6, Zenon DEF DealtAs
<1> QED
  BY <1>7, Zenon DEF RoundRobin

\* Dealing out a lane group: its new lanes get the numbers from count_ on.
LEMMA GroupDeals ==
  ASSUME IndInv, RoundRobin, ScheduleGroup
  PROVE  RoundRobin'
<1> PICK g : g = pass.at
  OBVIOUS
<1> PICK p : p = PolicyOf[pass.task]
  OBVIOUS
<1> PICK c : c = count[p]
  OBVIOUS
<1> DEFINE New(e) == g = <<e[1], e[2]>> /\ e[3] >= num_scheduled[g]
<1>1. /\ g \in Group /\ pass.task \in Request /\ p \in Policy /\ c \in Nat
      /\ NumLanes[g] \in Nat /\ num_scheduled[g] \in Nat /\ num_scheduled[g] <= NumLanes[g]
  BY SchedulerAssumption DEF ScheduleGroup, Free, IndInv, TypeOK
<1>2. CASE g[1] \notin created
  <2>1. UNCHANGED <<count, poll_queues, work_queue>>
    BY <1>2 DEF ScheduleGroup
  <2>2. \A w \in Worker, e \in Lane : Entries(w, e)' = Entries(w, e)
    BY <2>1, Zenon DEF Entries
  <2> QED
    BY <2>1, <2>2, SameDeal, Zenon
<1>3. CASE g[1] \in created
  <2>1. /\ poll_queues' = [w \in Worker |-> [e \in Lane |->
             IF New(e) /\ Target(c, e) = w THEN poll_queues[w][e] + 1 ELSE poll_queues[w][e]]]
        /\ count' = [count EXCEPT ![p] = @ + Counted(g)]
        /\ work_queue' = work_queue
    BY <1>3 DEF ScheduleGroup
  <2>2. \A w \in Worker, e \in Lane :
           /\ Entries(w, e) \in Nat
           /\ Entries(w, e)' = Entries(w, e) + (IF New(e) /\ Target(c, e) = w THEN 1 ELSE 0)
    BY <2>1 DEF Entries, IndInv, TypeOK
  <2>3. \A e \in Lane : New(e) => \A w \in Worker : Entries(w, e) = 0
    BY <2>2, <1>1, LaneShape DEF IndInv, OnlyScheduled
  <2>4. \A e \in Lane : New(e) => Target(c, e) \in Worker
    BY <1>1, TargetWorker DEF IndInv
  <2>5. Dealt' = Dealt \cup {e \in Lane : New(e) /\ ~IsLowPriority(g)}
    <3>1. ASSUME NEW e \in Lane
          PROVE  (\E w \in Worker : Entries(w, e)' > 0)
                   <=> New(e) \/ \E w \in Worker : Entries(w, e) > 0
      <4>1. CASE New(e)
        <5>1. PICK w \in Worker : w = Target(c, e)
          BY <2>4, <4>1, Zenon
        <5>2. Entries(w, e)' > 0
          BY <2>2, <4>1, <5>1
        <5> QED
          BY <4>1, <5>2, Zenon
      <4>2. CASE ~New(e)
        <5>1. \A w \in Worker : Entries(w, e)' = Entries(w, e)
          BY <2>2, <4>2
        <5> QED
          BY <4>2, <5>1, Zenon
      <4> QED
        BY <4>1, <4>2, Zenon
    <3>2. Dealt' = {e \in Lane : /\ ~IsLowPriority(<<e[1], e[2]>>)
                                 /\ \E w \in Worker : Entries(w, e)' > 0}
      BY Zenon DEF Dealt, IsLowPriority
    <3> QED
      BY <3>1, <3>2, Zenon DEF Dealt
  <2>6. PICK pol, num : DealtAs(pol, num)
    BY Zenon DEF RoundRobin
  <2> DEFINE N == {e \in Lane : New(e) /\ ~IsLowPriority(g)}
             at(e) == c + e[3] - num_scheduled[g]
  <2>7. \A e \in Dealt : e \in Lane /\ ~New(e) /\ e \notin N
    BY <2>2, <2>3 DEF Dealt
  <2>8. Counted(g) \in Nat /\ count[p] = c /\ count'[p] = c + Counted(g)
        /\ \A q \in Policy : q # p => count'[q] = count[q]
    BY <1>1, <2>1 DEF Counted, IndInv, TypeOK
  <2>9. \A e \in N : at(e) \in Nat /\ c <= at(e) /\ at(e) < c + Counted(g)
    <3> SUFFICES ASSUME NEW e \in N
                 PROVE  at(e) \in Nat /\ c <= at(e) /\ at(e) < c + Counted(g)
      OBVIOUS
    <3>1. /\ e[3] \in Nat /\ e[3] < NumLanes[g] /\ e[3] >= num_scheduled[g]
          /\ ~IsLowPriority(g)
      BY LaneShape
    <3>2. Counted(g) = NumLanes[g] - num_scheduled[g]
      BY <3>1, Zenon DEF Counted
    <3> QED
      BY <1>1, <3>1, <3>2
  <2>10. \A d, e \in N : at(d) = at(e) => d = e
    <3> SUFFICES ASSUME NEW d \in N, NEW e \in N, at(d) = at(e) PROVE d = e
      OBVIOUS
    <3>1. d[3] \in Nat /\ e[3] \in Nat
      BY LaneShape
    <3>a. \A i, j \in Nat : c + i - num_scheduled[g] = c + j - num_scheduled[g] => i = j
      BY <1>1
    <3>2. d[3] = e[3]
      BY <3>1, <3>a, Zenon
    <3>3. d[1] = e[1] /\ d[2] = e[2]
      OBVIOUS
    <3>4. d = <<d[1], d[2], d[3]>> /\ e = <<e[1], e[2], e[3]>>
      BY DEF Lane
    <3> QED
      BY <3>2, <3>3, <3>4, Zenon
  <2>11. ASSUME NEW k \in Nat, c <= k, k < c + Counted(g)
         PROVE  \E e \in N : at(e) = k
    <3>1. ~IsLowPriority(g) /\ Counted(g) = NumLanes[g] - num_scheduled[g]
      BY <1>1, <2>11 DEF Counted
    <3>2. PICK l \in Nat : l = k - c + num_scheduled[g] /\ l < NumLanes[g]
      BY <1>1, <2>11, <3>1
    <3>3. <<g[1], g[2], l>> \in Lane
      BY <1>1, <3>2 DEF Lane
    <3>4. g = <<g[1], g[2]>>
      BY <1>1 DEF Group
    <3>5. <<g[1], g[2], l>> \in N
      BY <1>1, <2>11, <3>1, <3>2, <3>3, <3>4
    <3> QED
      BY <1>1, <3>2, <3>5
  <2>12. \A e \in N, w \in Worker : w = (at(e) % (NumWorkers - 1)) + 1 => Entries(w, e)' > 0
    <3> SUFFICES ASSUME NEW e \in N, NEW w \in Worker, w = (at(e) % (NumWorkers - 1)) + 1
                 PROVE  Entries(w, e)' > 0
      OBVIOUS
    <3>1. Target(c, e) = w
      BY DEF Target
    <3> QED
      BY <2>2, <3>1
  <2>13. \A e \in Dealt, w \in Worker : Entries(w, e)' = Entries(w, e)
    BY <2>2, <2>7
  <2>a. Dealt' = Dealt \cup N
    BY <2>5, Zenon
  <2> HIDE DEF N, at
  <2>14. PICK pol1 : pol1 = [e \in Dealt \cup N |-> IF e \in N THEN p ELSE pol[e]]
    OBVIOUS
  <2>15. PICK num1 : num1 = [e \in Dealt \cup N |-> IF e \in N THEN at(e) ELSE num[e]]
    OBVIOUS
  <2>16. \A e \in N : pol1[e] = p /\ num1[e] = at(e)
    BY <2>14, <2>15, SMT
  <2>b. \A e \in Dealt : pol1[e] = pol[e] /\ num1[e] = num[e]
    BY <2>7, <2>14, <2>15, SMT
  <2>17. \A e \in Dealt : pol[e] \in Policy /\ num[e] \in Nat /\ num[e] < count[pol[e]]
    BY <2>6, SMT DEF DealtAs
  <2>18. pol1 \in [Dealt' -> Policy] /\ num1 \in [Dealt' -> Nat]
    <3>1. \A e \in N : pol1[e] \in Policy /\ num1[e] \in Nat
      BY <1>1, <2>9, <2>16, Zenon
    <3>2. \A e \in Dealt : pol1[e] \in Policy /\ num1[e] \in Nat
      BY <2>b, <2>17, Zenon
    <3>3. pol1 \in [Dealt \cup N -> Policy] /\ num1 \in [Dealt \cup N -> Nat]
      BY <2>14, <2>15, <3>1, <3>2, SMT
    <3> QED
      BY <2>a, <3>3, Zenon
  <2>19. \A d, e \in Dealt' : pol1[d] = pol1[e] /\ num1[d] = num1[e] => d = e
    <3>1. ASSUME NEW d \in Dealt, NEW e \in N, pol1[d] = pol1[e], num1[d] = num1[e]
          PROVE  FALSE
      <4>1. pol[d] = p /\ num[d] = at(e)
        BY <2>16, <2>b, <3>1, Zenon
      <4>2. num[d] \in Nat /\ num[d] < c
        BY <2>8, <2>17, <4>1, SMT
      <4> QED
        BY <1>1, <2>9, <4>1, <4>2, SMT
    <3>2. ASSUME NEW d \in Dealt, NEW e \in Dealt, pol1[d] = pol1[e], num1[d] = num1[e]
          PROVE  d = e
      <4>1. pol[d] = pol[e] /\ num[d] = num[e]
        BY <2>b, <3>2, Zenon
      <4> QED
        BY <2>6, <4>1, Zenon DEF DealtAs
    <3>3. ASSUME NEW d \in N, NEW e \in N, num1[d] = num1[e]
          PROVE  d = e
      <4>1. num1[d] = at(d) /\ num1[e] = at(e)
        BY <2>16, Zenon
      <4>2. at(d) = at(e)
        BY <3>3, <4>1, Zenon
      <4> QED
        BY <2>10, <4>2, Zenon
    <3>4. ASSUME NEW d \in Dealt \cup N, NEW e \in Dealt \cup N,
                 pol1[d] = pol1[e], num1[d] = num1[e]
          PROVE  d = e
      <4>1. CASE d \in Dealt
        BY <3>1, <3>2, <3>4, <4>1, Zenon
      <4>2. CASE d \in N
        BY <3>1, <3>3, <3>4, <4>2, Zenon
      <4> QED
        BY <4>1, <4>2, Zenon
    <3> QED
      BY <2>a, <3>4, Zenon
  <2>20. ASSUME NEW e \in Dealt'
         PROVE  /\ num1[e] < count'[pol1[e]]
                /\ \A w \in Worker : w = (num1[e] % (NumWorkers - 1)) + 1 => Entries(w, e)' > 0
    <3>1. CASE e \in N
      BY <2>8, <2>9, <2>12, <2>16, <3>1, Zenon
    <3>2. CASE e \in Dealt
      <4>1. pol1[e] = pol[e] /\ num1[e] = num[e]
        BY <2>b, <3>2, Zenon
      <4>2. pol[e] \in Policy /\ num[e] \in Nat /\ num[e] < count[pol[e]]
        BY <2>17, <3>2, Zenon
      <4>3. pol[e] = p => num[e] < c + Counted(g)
        BY <1>1, <2>8, <4>2, SMT
      <4>4. num[e] < count'[pol[e]]
        BY <2>8, <4>2, <4>3, Zenon
      <4>5. Entries((num[e] % (NumWorkers - 1)) + 1, e) > 0
        BY <2>6, <3>2, Zenon DEF DealtAs
      <4>6. \A w \in Worker : w = (num[e] % (NumWorkers - 1)) + 1 => Entries(w, e)' > 0
        BY <2>13, <3>2, <4>5, Zenon
      <4> QED
        BY <4>1, <4>4, <4>6, Zenon
    <3> QED
      BY <2>a, <2>20, <3>1, <3>2, Zenon
  <2>21. \A q \in Policy, k \in Nat : k < count'[q] => \E e \in Dealt' : pol1[e] = q /\ num1[e] = k
    <3> SUFFICES ASSUME NEW q \in Policy, NEW k \in Nat, k < count'[q]
                 PROVE  \E e \in Dealt \cup N : pol1[e] = q /\ num1[e] = k
      BY <2>a, Zenon
    <3>1. CASE k < count[q]
      <4>1. PICK e \in Dealt : pol[e] = q /\ num[e] = k
        BY <2>6, <3>1, Zenon DEF DealtAs
      <4> QED
        BY <2>b, <4>1, Zenon
    <3>2. CASE ~(k < count[q])
      <4>1. q = p /\ c <= k /\ k < c + Counted(g)
        BY <1>1, <2>8, <3>2, SMT
      <4>2. PICK e \in N : at(e) = k
        BY <2>11, <4>1, Zenon
      <4> QED
        BY <2>16, <4>1, <4>2, Zenon
    <3> QED
      BY <3>1, <3>2, Zenon
  <2>22. \A e \in Dealt' : (num1[e] % (NumWorkers - 1)) + 1 \in Worker
    <3> SUFFICES ASSUME NEW e \in Dealt' PROVE (num1[e] % (NumWorkers - 1)) + 1 \in Worker
      OBVIOUS
    <3>1. num1[e] \in Nat
      BY <2>18, Zenon
    <3> QED
      BY <3>1, NumberWorker, Zenon
  <2>23. DealtAs(pol1, num1)'
    BY <2>18, <2>19, <2>20, <2>21, <2>22, Zenon DEF DealtAs
  <2> QED
    BY <2>23, Zenon DEF RoundRobin
<1> QED
  BY <1>2, <1>3

\* Every step keeps the numbers, and at first no lane is dealt out.
LEMMA NextDeals ==
  ASSUME IndInv, RoundRobin, [Next]_vars
  PROVE  RoundRobin'
<1>1. ASSUME UNCHANGED <<count, poll_queues, work_queue>>
      PROVE  RoundRobin'
  <2>1. \A w \in Worker, e \in Lane : Entries(w, e)' = Entries(w, e)
    BY <1>1, Zenon DEF Entries
  <2> QED
    BY <1>1, <2>1, SameDeal, Zenon
<1>2. ASSUME NEW w \in Worker, PollQueues(w)
      PROVE  RoundRobin'
  <2>1. \A v \in Worker, e \in Lane : Entries(v, e)' = Entries(v, e)
    BY <1>2 DEF PollQueues, Entries, IndInv, TypeOK
  <2> QED
    BY <1>2, <2>1, SameDeal, Zenon DEF PollQueues
<1>3. ASSUME NEW q \in Queue, CreateQueue(q)
      PROVE  RoundRobin'
  BY <1>1, <1>3, Zenon DEF CreateQueue
<1>4. ASSUME NEW r \in Request, SendPolicy(r) \/ SetWorkOrchQueuePolicy(r) \/ ScheduleBegin(r)
      PROVE  RoundRobin'
  BY <1>1, <1>4, Zenon DEF SendPolicy, SetWorkOrchQueuePolicy, ScheduleBegin
<1>5. ASSUME ScheduleEnd \/ UNCHANGED vars
      PROVE  RoundRobin'
  BY <1>1, <1>5, Zenon DEF ScheduleEnd, vars
<1> QED
  BY <1>2, <1>3, <1>4, <1>5, GroupDeals, Zenon DEF Next

\* At first only lanes of the admin queue are in a work entry.
LEMMA InitDeals ==
  ASSUME Init
  PROVE  RoundRobin
<1>1. \A w \in Worker, e \in Lane : Entries(w, e) > 0 => e[2] = 0
  BY DEF Init, Entries
<1>2. Dealt = {}
  BY <1>1, Zenon DEF Dealt, IsLowPriority
<1>3. \A p \in Policy : count[p] = 0
  BY DEF Init
<1>4. DealtAs([e \in Dealt |-> 0], [e \in Dealt |-> 0])
  BY <1>2, <1>3, SMT DEF DealtAs
<1> QED
  BY <1>4, Zenon DEF RoundRobin

\* Round robin shares the lanes out evenly: as long as one policy has assigned
\* them all, each worker but worker 0 has as many as another, up to one, for any
\* number of workers and any groups of any sizes in any order.
THEOREM LanesBalanced == Spec => []Balanced
<1>1. IndInv /\ RoundRobin => Balanced
  <2> SUFFICES ASSUME IndInv, RoundRobin,
                      NEW p \in Policy, \A q \in Policy \ {p} : count[q] = 0,
                      NEW v \in Worker \ {0}, NEW w \in Worker \ {0}
               PROVE  Load(v) <= Load(w) + 1
    BY Zenon DEF Balanced
  <2>1. PICK pol, num : DealtAs(pol, num)
    BY Zenon DEF RoundRobin
  <2>2. PICK m \in Nat : m = NumWorkers - 1 /\ m > 0
    BY SchedulerAssumption
  <2>3. PICK c \in Nat : c = count[p]
    BY DEF IndInv, TypeOK
  <2> DEFINE L(x) == {e \in Lane : Entries(x, e) > 0}
             K(x) == Numbers(c, m, x - 1)
  <2>4. ASSUME NEW e \in Dealt
        PROVE  /\ pol[e] = p /\ num[e] \in 0..c-1 /\ (num[e] % m) + 1 \in Worker
               /\ Entries((num[e] % m) + 1, e) > 0
    <3>1. pol[e] \in Policy /\ num[e] \in Nat /\ num[e] < count[pol[e]]
      BY <2>1, SMT DEF DealtAs
    <3>2. pol[e] = p
      BY <3>1, SMT
    <3>3. Entries((num[e] % m) + 1, e) > 0
      BY <2>1, <2>2, Zenon DEF DealtAs
    <3> QED
      BY <2>2, <2>3, <3>1, <3>2, <3>3, NumberWorker
  <2>5. ASSUME NEW x \in Worker \ {0}, NEW e \in L(x)
        PROVE  e \in Dealt /\ num[e] \in K(x)
    <3>1. e \in Lane /\ Entries(x, e) > 0 /\ x \in Worker /\ x # 0
      OBVIOUS
    <3>2. e \in Dealt
      BY <3>1, Zenon DEF Dealt, IndInv, LowOnWorker0
    <3>3. (num[e] % m) + 1 = x
      BY <2>4, <3>1, <3>2, Zenon DEF IndInv, LaneOnce
    <3>4. num[e] % m = x - 1
      BY <2>2, <2>4, <3>2, <3>3
    <3> QED
      BY <2>4, <3>2, <3>4 DEF Numbers
  <2>6. ASSUME NEW x \in Worker \ {0}, NEW k \in K(x)
        PROVE  \E e \in L(x) : e \in Dealt /\ num[e] = k
    <3>1. k \in Nat /\ k < count[p] /\ k % m = x - 1 /\ x \in Int
      BY <2>3 DEF Numbers, Worker
    <3>a. \A q \in Policy, j \in Nat : j < count[q] => \E e \in Dealt : pol[e] = q /\ num[e] = j
      BY <2>1, Zenon DEF DealtAs
    <3>2. PICK e \in Dealt : pol[e] = p /\ num[e] = k
      BY <3>1, <3>a, Zenon
    <3>3. e \in Lane
      BY Zenon DEF Dealt
    <3>4. (num[e] % m) + 1 = x
      BY <2>2, <3>1, <3>2
    <3> QED
      BY <2>4, <3>2, <3>3, <3>4, Zenon
  <2>7. ASSUME NEW d \in Dealt, NEW e \in Dealt, num[d] = num[e]
        PROVE  d = e
    <3>1. pol[d] = pol[e]
      BY <2>4, Zenon
    <3> QED
      BY <2>1, <2>7, <3>1, Zenon DEF DealtAs
  <2>8. v - 1 \in 0..m-1 /\ w - 1 \in 0..m-1
    BY <2>2, SchedulerAssumption DEF Worker
  <2>9. /\ IsFiniteSet(K(v)) /\ IsFiniteSet(K(w))
        /\ Cardinality(K(v)) <= Cardinality(K(w)) + 1
    BY <2>2, <2>8, Fair
  <2> HIDE DEF L, K
  <2>10. ASSUME NEW x \in Worker \ {0}, IsFiniteSet(K(x))
         PROVE  IsFiniteSet(L(x)) /\ Cardinality(L(x)) = Cardinality(K(x))
    <3> DEFINE f == [e \in L(x) |-> num[e]]
    <3>1. f \in [L(x) -> K(x)]
      BY <2>5, Zenon
    <3>2. \A d, e \in L(x) : f[d] = f[e] => d = e
      BY <2>5, <2>7, Zenon
    <3>3. f \in Injection(L(x), K(x))
      BY <3>1, <3>2, Zenon DEF Injection, IsInjective
    <3>4. \A k \in K(x) : \E e \in L(x) : f[e] = k
      BY <2>6, Zenon
    <3>5. f \in Surjection(L(x), K(x))
      BY <3>1, <3>4, Zenon DEF Surjection
    <3> HIDE DEF f
    <3> QED
      BY <2>10, <3>3, <3>5, FS_Injection
  <2>11. Load(v) = Cardinality(K(v)) /\ Load(w) = Cardinality(K(w))
    BY <2>9, <2>10, Zenon DEF Load, L
  <2> QED
    BY <2>9, <2>11
<1>2. Init => RoundRobin
  BY InitDeals
<1>3. IndInv /\ RoundRobin /\ [Next]_vars => RoundRobin'
  BY NextDeals
<1> QED
  BY <1>1, <1>2, <1>3, SchedulerInductive, PTL DEF Spec
=============================================================================
