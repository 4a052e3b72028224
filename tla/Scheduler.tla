----------------------------- MODULE Scheduler -----------------------------
(***************************************************************************)
(* How lanes get to workers. Queues are created by admin tasks; the task   *)
(* of the current queue policy (worch_queue_round_robin) looks for lanes   *)
(* that are not scheduled yet and hands each to a worker's poll_queues_,   *)
(* which the worker merges into its work_queue_ at its next Run; admin     *)
(* SetWorkOrchQueuePolicy replaces the policy. Admin and policy tasks all  *)
(* run on worker 0, one at a time. A work queue is represented by how      *)
(* often it holds each lane.                                               *)
(***************************************************************************)
EXTENDS Integers, FiniteSets

CONSTANTS
  NumQueues,   \* slots of queue_map_; 0 is the admin queue, 1 the process queue
  NumGroups,   \* queue -> number of its lane groups (priorities)
  NumLanes,    \* <<queue, prio>> -> num_lanes_ of the group
  LongRunning, \* groups <<queue, prio>> with QUEUE_LONG_RUNNING
  NumWorkers,  \* workers_.size()
  Policy,      \* task states that implement a queue policy
  Request,     \* SetWorkOrchQueuePolicy tasks, each makes one ScheduleTask
  Boot,        \* the request that Runtime::ServerInit makes
  PolicyOf,    \* request -> policy_id_
  NoRequest    \* null

Queue == 0..NumQueues-1
Group == UNION {{<<q, p>> : p \in 0..NumGroups[q]-1} : q \in Queue}
Lane == UNION {{<<g[1], g[2], l>> : l \in 0..NumLanes[g]-1} : g \in Group}
Worker == 0..NumWorkers-1

\* "Assumes a minimum of two workers, admin on worker 0" (Schedule)
ASSUME SchedulerAssumption ==
  /\ NumWorkers \in Nat /\ NumWorkers >= 2
  /\ NumGroups \in [Queue -> Nat \ {0}]
  /\ NumQueues \in Nat /\ NumQueues >= 2
  /\ NumLanes \in [Group -> Nat \ {0}]
  /\ LongRunning \subseteq Group
  /\ PolicyOf \in [Request -> Policy]
  /\ Boot \in Request /\ NoRequest \notin Request

VARIABLES
  created,       \* queues whose id_ is not null
  num_scheduled, \* group -> num_scheduled_
  count,         \* policy -> count_
  poll_queues,   \* worker -> lane -> occurrences in poll_queues_
  work_queue,    \* worker -> lane -> occurrences in work_queue_
  request,       \* SetWorkOrchQueuePolicy task: "idle", "pending", "done"
  sched,         \* its ScheduleTask: "none", "live", "module_complete", "complete"
  queue_sched,   \* queue_sched_: the request whose ScheduleTask is current
  pass           \* the call of Schedule worker 0 is in: [task, next group]

vars == <<created, num_scheduled, count, poll_queues, work_queue, request, sched,
          queue_sched, pass>>

FirstGroup == <<0, 0>>
NoPass == [task |-> NoRequest, at |-> FirstGroup]

\* WorkOrchestrator::ServerInit gives the lanes of the admin queue to worker 0.
Init ==
  /\ created = {0, 1}
  /\ num_scheduled = [g \in Group |-> IF g = <<0, 0>> THEN NumLanes[g] ELSE 0]
  /\ count = [p \in Policy |-> 0]
  /\ poll_queues = [w \in Worker |-> [e \in Lane |->
                      IF w = 0 /\ e[1] = 0 /\ e[2] = 0 THEN 1 ELSE 0]]
  /\ work_queue = [w \in Worker |-> [e \in Lane |-> 0]]
  /\ request = [r \in Request |-> IF r = Boot THEN "pending" ELSE "idle"]
  /\ sched = [r \in Request |-> "none"]
  /\ queue_sched = NoRequest
  /\ pass = NoPass

-----------------------------------------------------------------------------
\* Worker 0 is between two tasks.
Free == pass.task = NoRequest

\* CreateTaskState creates the queue of the new state.
CreateQueue(q) ==
  /\ Free /\ q \notin created
  /\ created' = created \cup {q}
  /\ UNCHANGED <<num_scheduled, count, poll_queues, work_queue, request, sched,
                 queue_sched, pass>>

SendPolicy(r) ==
  /\ request[r] = "idle"
  /\ request' = [request EXCEPT ![r] = "pending"]
  /\ UNCHANGED <<created, num_scheduled, count, poll_queues, work_queue, sched,
                 queue_sched, pass>>

\* A ScheduleTask that PollGrouped still polls.
Polls(r) == sched[r] \in {"live", "module_complete"}

\* Faulty: asks for module_complete, which the handler sets itself.
BusyModule == queue_sched # NoRequest /\ sched[queue_sched] = "live"

\* The current policy has to end first.
Busy == queue_sched # NoRequest /\ sched[queue_sched] # "complete"

\* The current ScheduleTask is told to end; until it has, the request is run
\* again and again.
SetWorkOrchQueuePolicy(r) ==
  /\ Free /\ request[r] = "pending"
  /\ IF Busy
     THEN /\ sched' = [sched EXCEPT ![queue_sched] = "module_complete"]
          /\ UNCHANGED <<request, queue_sched>>
     ELSE /\ sched' = [sched EXCEPT ![r] = "live"]
          /\ queue_sched' = r
          /\ request' = [request EXCEPT ![r] = "done"]
  /\ UNCHANGED <<created, num_scheduled, count, poll_queues, work_queue, pass>>

-----------------------------------------------------------------------------
IsLowPriority(g) == g \in LongRunning \/ g[2] = 0

\* Faulty: all lanes are dealt out round robin over all the workers.
TargetAny(c, e) == (c + e[3] - num_scheduled[<<e[1], e[2]>>]) % NumWorkers

\* The worker that Schedule gives lane e to when it finds count_ = c.
Target(c, e) ==
  IF IsLowPriority(<<e[1], e[2]>>) THEN 0
  ELSE ((c + e[3] - num_scheduled[<<e[1], e[2]>>]) % (NumWorkers - 1)) + 1

\* Faulty: leaves a queue one group too early.
NextGroupShort(g) == IF g[2] < NumGroups[g[1]] - 2 THEN <<g[1], g[2] + 1>> ELSE <<g[1] + 1, 0>>

NextGroup(g) == IF g[2] < NumGroups[g[1]] - 1 THEN <<g[1], g[2] + 1>> ELSE <<g[1] + 1, 0>>

\* Faulty: an inclusive bound of the loop over the lanes.
ScheduledPast(g) == NumLanes[g] + 1

\* Faulty: num_scheduled_ is not updated.
ScheduledKept(g) == num_scheduled[g]

\* num_scheduled_ after the loop over the lanes of a group.
Scheduled(g) == NumLanes[g]

\* Faulty: the round robin starts afresh for each group.
CountedAfresh(g) == 0

\* By how much the loop increments count_.
Counted(g) == IF IsLowPriority(g) THEN 0 ELSE NumLanes[g] - num_scheduled[g]

\* A poll of a ScheduleTask that has not ended: Schedule goes through queue_map_,
\* whether or not the task has been told to end.
ScheduleBegin(r) ==
  /\ Free /\ Polls(r)
  /\ pass' = [task |-> r, at |-> FirstGroup]
  /\ UNCHANGED <<created, num_scheduled, count, poll_queues, work_queue, request,
                 sched, queue_sched>>

\* One lane group: PollQueues for each lane that is not scheduled.
ScheduleGroup ==
  LET g == pass.at
      p == PolicyOf[pass.task]
      New(e) == g = <<e[1], e[2]>> /\ e[3] >= num_scheduled[g]
  IN  /\ ~Free /\ g \in Group
      /\ pass' = [pass EXCEPT !.at = NextGroup(g)]
      /\ IF g[1] \in created
         THEN /\ poll_queues' = [w \in Worker |-> [e \in Lane |->
                   IF New(e) /\ Target(count[p], e) = w
                   THEN poll_queues[w][e] + 1 ELSE poll_queues[w][e]]]
              /\ count' = [count EXCEPT ![p] = @ + Counted(g)]
              /\ num_scheduled' = [num_scheduled EXCEPT ![g] = Scheduled(g)]
         ELSE UNCHANGED <<poll_queues, count, num_scheduled>>
      /\ UNCHANGED <<created, work_queue, request, sched, queue_sched>>

\* Faulty: a ScheduleTask is never ended.
AfterRunStays(s) == s

\* PollGrouped after Run: a task that was told to end is completed.
AfterRun(s) == IF s = "module_complete" THEN "complete" ELSE s

\* Schedule returns.
ScheduleEnd ==
  /\ ~Free /\ pass.at \notin Group
  /\ pass' = NoPass
  /\ sched' = [sched EXCEPT ![pass.task] = AfterRun(@)]
  /\ UNCHANGED <<created, num_scheduled, count, poll_queues, work_queue, request,
                 queue_sched>>

\* Worker::Run merges poll_queues_ into work_queue_.
PollQueues(w) ==
  /\ w = 0 => Free
  /\ \E e \in Lane : poll_queues[w][e] > 0
  /\ work_queue' = [work_queue EXCEPT ![w] = [e \in Lane |-> @[e] + poll_queues[w][e]]]
  /\ poll_queues' = [poll_queues EXCEPT ![w] = [e \in Lane |-> 0]]
  /\ UNCHANGED <<created, num_scheduled, count, request, sched, queue_sched, pass>>

Next ==
  \/ \E q \in Queue : CreateQueue(q)
  \/ \E r \in Request : SendPolicy(r) \/ SetWorkOrchQueuePolicy(r) \/ ScheduleBegin(r)
  \/ ScheduleGroup \/ ScheduleEnd
  \/ \E w \in Worker : PollQueues(w)

Spec == Init /\ [][Next]_vars

\* PollGrouped visits every task of the admin lane again and again, a call of
\* Schedule ends, and every worker comes back to the start of Run.
Fairness ==
  /\ \A r \in Request : SF_vars(SetWorkOrchQueuePolicy(r)) /\ SF_vars(ScheduleBegin(r))
  /\ WF_vars(ScheduleGroup) /\ WF_vars(ScheduleEnd)
  /\ \A w \in Worker : SF_vars(PollQueues(w))

FairSpec == Spec /\ Fairness

-----------------------------------------------------------------------------
(*                               Properties                                *)

\* Every variable has its type.
TypeOK ==
  /\ created \subseteq Queue
  /\ num_scheduled \in [Group -> Nat] /\ \A g \in Group : num_scheduled[g] <= NumLanes[g]
  /\ count \in [Policy -> Nat]
  /\ poll_queues \in [Worker -> [Lane -> Nat]]
  /\ work_queue \in [Worker -> [Lane -> Nat]]
  /\ request \in [Request -> {"idle", "pending", "done"}]
  /\ sched \in [Request -> {"none", "live", "module_complete", "complete"}]
  /\ queue_sched \in Request \cup {NoRequest}
  /\ pass \in [task : Request \cup {NoRequest}, at : Nat \X Nat]

Entries(w, e) == poll_queues[w][e] + work_queue[w][e]

\* What Worker relies on: a lane is polled by at most one worker, and by that one
\* through one work entry, whatever queues are created and however often the
\* policy is replaced.
LaneOnce ==
  \A e \in Lane :
    /\ \A w \in Worker : Entries(w, e) <= 1
    /\ \A v, w \in Worker : Entries(v, e) > 0 /\ Entries(w, e) > 0 => v = w

\* "admin on worker 0" (Schedule): worker 0 polls the low-priority lanes and no
\* other, so that admin and scheduler tasks never delay latency-sensitive ones.
LowOnWorker0 ==
  \A w \in Worker, e \in Lane :
    Entries(w, e) > 0 => (w = 0 <=> IsLowPriority(<<e[1], e[2]>>))

Load(w) == Cardinality({e \in Lane : Entries(w, e) > 0})

\* Round robin: the workers other than worker 0 get equally many lanes, up to one,
\* as long as one policy has assigned them all.
Balanced ==
  (\E p \in Policy : \A q \in Policy \ {p} : count[q] = 0)
  => \A v, w \in Worker \ {0} : Load(v) <= Load(w) + 1

\* The only ScheduleTask that is still polled is the one queue_sched_ points to:
\* two policies never assign lanes side by side.
OneScheduler ==
  \A r \in Request : Polls(r) => r = queue_sched

Polled(e) == \E w \in Worker : work_queue[w][e] > 0

\* Every lane of every queue that is created is polled in the end.
EveryLanePolled ==
  \A q \in Queue : q \in created ~> \A e \in Lane : e[1] = q => Polled(e)

\* Every change of the policy takes effect.
EveryPolicySet == \A r \in Request : request[r] = "pending" ~> request[r] = "done"
=============================================================================
