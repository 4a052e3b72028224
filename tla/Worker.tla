------------------------------- MODULE Worker -------------------------------
(***************************************************************************)
(* The polling core of one hermes_run node: clients emplace tasks in the   *)
(* lanes of the shared-memory queues, worker threads poll the lanes they   *)
(* own (Worker::Run, Worker::PollGrouped), decide from group_map_ whether  *)
(* a task may run, run it inline, as a coroutine, on an Argobots thread or *)
(* on other nodes, and end it; whoever owns a completed task frees it.     *)
(*                                                                         *)
(* A task's static attributes are given by Desc; what varies is its flag   *)
(* word, the complete_ bit of its lane entry, its delcnt_ and the resume   *)
(* point of its handler.                                                   *)
(***************************************************************************)
EXTENDS Integers, Sequences, FiniteSets

CONSTANTS
  Task,        \* the tasks that may be created in a behaviour
  NoTask,      \* "no task": the null pointer
  Lane,        \* lanes of the queues of this node
  WorkerId,    \* worker threads
  Desc,        \* static attributes of each task, a TaskDesc
  WorkQueue,   \* work_queue_ of each worker: the lanes it polls, in order
  LaneId,      \* lane_id_ of the work entry of a lane (its index in its group)
  LowLatency,  \* lanes whose flags have QUEUE_LOW_LATENCY
  Depth,       \* slots of a lane (queue_depth of the server configuration)
  PollEvery,   \* a lane without QUEUE_LOW_LATENCY is polled every PollEvery-th
               \* Run (4096 in the code)
  MaxIter,     \* iterations of one PollGrouped call (1024 in the code)
  MaxU32,      \* the value an unsigned 0 - 1 gives (2^32 - 1 in the code)
  MayStop      \* whether the runtime may be told to stop

(***************************************************************************)
(* What a handler does, by kind:                                           *)
(*   oneshot   marks its task complete (small_message, most admin tasks)   *)
(*   push      proc_queue Push: emplaces the subtask, waits for it         *)
(*   create    admin CreateTaskState: a coroutine that may ask for an id   *)
(*   thread    remote_queue Push: runs on an Argobots thread               *)
(*   resident  ScheduleTask: long-running, returns without completing      *)
(*   orphan    a task whose task_state_ is not in the registry             *)
(* sub is the subtask of a push or a creation. A remote task is not run    *)
(* here: it is dispersed by a task of kind thread whose orig (orig_task_)  *)
(* it is. lane_hash is what GetGroup makes the group of a push from.       *)
(***************************************************************************)
Kind == {"oneshot", "push", "create", "thread", "resident", "orphan"}

TaskDesc == [kind : Kind, lane : Lane, root : Nat \ {0}, lane_hash : Nat,
             sub : Task \cup {NoTask}, orig : Task \cup {NoTask},
             faf : BOOLEAN, remote : BOOLEAN]

HasSub(t) == Desc[t].sub # NoTask

Subtasks == {Desc[t].sub : t \in {u \in Task : HasSub(u)}}

ThreadTask == {t \in Task : Desc[t].kind = "thread"}

\* Tasks a client creates; the others are created by a handler or, for the
\* subtask of a push, together with the push.
RootTask == Task \ (Subtasks \cup ThreadTask)

ASSUME TaskAssumption ==
  /\ NoTask \notin Task
  /\ IsFiniteSet(Task)
  /\ Desc \in [Task -> TaskDesc]
  /\ \A t \in Task :
       /\ HasSub(t) <=> ~Desc[t].remote /\ Desc[t].kind \in {"push", "create"}
       /\ HasSub(t) => Desc[Desc[t].sub].kind \notin {"push", "thread"}
       /\ Desc[t].orig # NoTask <=> Desc[t].kind = "thread"
       /\ Desc[t].kind = "thread" => Desc[Desc[t].orig].remote
       /\ Desc[t].remote => Desc[t].kind \in {"oneshot", "create"}
       /\ Desc[t].faf => Desc[t].kind \in {"oneshot", "orphan"}
  /\ \A t, u \in Task : HasSub(t) /\ Desc[t].sub = Desc[u].sub => t = u

\* A creation asks for an id with a task it waits for.
ASSUME CreateAssumption ==
  \A t \in Task : HasSub(t) /\ Desc[t].kind = "create" => ~Desc[Desc[t].sub].faf

\* A worker is not a task: seen is indexed by both.
ASSUME ActorAssumption == WorkerId \cap Task = {}

\* Every lane is polled by at most one worker, at most once per Run: what the
\* queue scheduler establishes (num_scheduled_ of a lane group).
ASSUME LaneAssumption ==
  /\ WorkQueue \in [WorkerId -> Seq(Lane)]
  /\ \A w \in WorkerId : WorkQueue[w] # << >>
  /\ \A w1, w2 \in WorkerId : \A i \in DOMAIN WorkQueue[w1], j \in DOMAIN WorkQueue[w2] :
       WorkQueue[w1][i] = WorkQueue[w2][j] => w1 = w2 /\ i = j
  /\ LaneId \in [Lane -> Nat]
  /\ LowLatency \subseteq Lane

\* A scan reaches every slot of a lane: queue_depth (256 by default) does not
\* exceed the 1024 iterations of PollGrouped.
ASSUME BoundAssumption ==
  /\ Depth \in Nat \ {0}
  /\ PollEvery \in Nat \ {0}
  /\ MaxIter \in Nat /\ Depth <= MaxIter
  /\ MaxU32 \in Nat /\ Cardinality(Task) < MaxU32
  /\ MayStop \in BOOLEAN

-----------------------------------------------------------------------------
\* Bits of task_flags_ that the worker reads (task.h).
Flag == {"started", "complete", "module_complete", "faf", "disable_run",
         "coroutine", "preemptive"}

InitFlags(t) == (IF Desc[t].faf THEN {"faf"} ELSE {})
                \cup (IF Desc[t].kind = "create" THEN {"coroutine"} ELSE {})
                \cup (IF Desc[t].kind = "thread" THEN {"preemptive"} ELSE {})

NoRoot == 0            \* TaskId::GetNull(): no root task
Absent == [root |-> NoRoot, depth |-> 0]   \* a key that group_map_ lacks

Pc == {"entry", "poll", "pushed", "disable_read", "disable_write", "unset_read",
       "unset_write", "check", "end", "exited"}

ThreadPc == {"none", "rpc", "read", "write", "self", "done"}

VARIABLES
  lane,     \* lane -> tasks of its published slots, head first
  entry,    \* task -> its LaneData: "none", "in", "complete" (complete_), "popped"
  flags,    \* task -> bits of task_flags_
  alloc,    \* tasks that have been allocated
  delcnt,   \* task -> delcnt_
  phase,    \* task -> resume point of its handler: "start" or "wait"
  stack,    \* task -> ctx_.stack_ptr_: "none" (uninitialised), "live", "freed", "bad_free"
  thread,   \* task -> program counter of its Argobots thread
  seen,     \* worker or task thread -> flag word it has read and not yet written
  group,    \* worker -> group_map_: lane id -> [root, depth]
  pc,       \* worker -> where it is in Run / PollGrouped
  ent,      \* worker -> index in work_queue_
  off,      \* worker -> off of PollGrouped
  iter,     \* worker -> i of PollGrouped
  cur,      \* worker -> task of PollGrouped
  count,    \* lane -> count_ of its work entry, modulo PollEvery
  final,    \* worker -> whether this is the Run after the loop of Loop
  kill,     \* kill_requested_
  client    \* root task -> its client: "idle", "emplacing", "waiting", "done"

taskVars == <<entry, flags, alloc, delcnt, phase, stack>>
scanVars == <<pc, ent, off, iter, cur, count, final>>
vars == <<lane, taskVars, thread, seen, group, scanVars, kill, client>>

Key == {LaneId[l] : l \in Lane}

Init ==
  /\ lane = [l \in Lane |-> << >>]
  /\ entry = [t \in Task |-> "none"]
  /\ flags = [t \in Task |-> InitFlags(t)]
  /\ alloc = {}
  /\ delcnt = [t \in Task |-> 0]
  /\ phase = [t \in Task |-> "start"]
  /\ stack = [t \in Task |-> "none"]
  /\ thread = [t \in Task |-> "none"]
  /\ seen = [a \in WorkerId \cup Task |-> {}]
  /\ group = [w \in WorkerId |-> [k \in Key |-> Absent]]
  /\ pc = [w \in WorkerId |-> "entry"]
  /\ ent = [w \in WorkerId |-> 1]
  /\ off = [w \in WorkerId |-> 0]
  /\ iter = [w \in WorkerId |-> 0]
  /\ cur = [w \in WorkerId |-> NoTask]
  \* count_ is not copied by WorkEntry's copy constructor: any value
  /\ count \in {c \in [Lane -> 0..PollEvery-1] : \A l \in LowLatency : c[l] = 0}
  /\ final = [w \in WorkerId |-> FALSE]
  /\ kill = FALSE
  /\ client = [t \in RootTask |-> "idle"]

-----------------------------------------------------------------------------
\* The lane (hshm::mpsc_queue): emplace waits while every slot is taken.
Full(l) == Len(lane[l]) >= Depth

Emplace(t) == /\ ~Full(Desc[t].lane)
              /\ lane' = [lane EXCEPT ![Desc[t].lane] = Append(@, t)]
              /\ entry' = [entry EXCEPT ![t] = "in"]

\* DelTask. The destructor of a proc_queue PushTask also deletes its subtask.
Owned(t) == IF Desc[t].kind = "push" THEN {t, Desc[t].sub} ELSE {t}

DelTask(S) == delcnt' = [t \in Task |-> IF t \in S THEN delcnt[t] + 1 ELSE delcnt[t]]

-----------------------------------------------------------------------------
(* A client: allocates a root task (and the subtask a push carries),       *)
(* emplaces it, spins in Wait and deletes it. Nobody waits for a           *)
(* fire-and-forget task.                                                   *)

ClientNew(t) ==
  /\ client[t] = "idle"
  /\ client' = [client EXCEPT ![t] = "emplacing"]
  /\ alloc' = alloc \cup Owned(t)
  /\ UNCHANGED <<lane, entry, flags, delcnt, phase, stack, thread, seen, group,
                 scanVars, kill>>

ClientEmplace(t) ==
  /\ client[t] = "emplacing"
  /\ Emplace(t)
  /\ client' = [client EXCEPT ![t] = IF Desc[t].faf THEN "done" ELSE "waiting"]
  /\ UNCHANGED <<flags, alloc, delcnt, phase, stack, thread, seen, group,
                 scanVars, kill>>

ClientReap(t) ==
  /\ client[t] = "waiting"
  /\ "complete" \in flags[t]
  /\ DelTask(Owned(t))
  /\ client' = [client EXCEPT ![t] = "done"]
  /\ UNCHANGED <<lane, entry, flags, alloc, phase, stack, thread, seen, group,
                 scanVars, kill>>

-----------------------------------------------------------------------------
(* Task groups. GetGroup fills group_ and LocalSerialize then empties it   *)
(* before it appends the lane id: the key of an ordered task is the lane   *)
(* id alone. A key that is absent from group_map_ has depth 0.             *)

CurLane(w) == WorkQueue[w][ent[w]]
GroupKey(w) == LaneId[CurLane(w)]

\* GetGroup # TASK_UNORDERED. A create whose method_ has become kConstruct
\* gets -1, which is ordered too.
Ordered(t) == Desc[t].kind \in {"push", "create"}

Ungrouped(t) == Desc[t].remote \/ "started" \in flags[t] \/ ~Ordered(t)

\* Faulty: lets every task through.
CheckTaskGroupOpen(w, t) == TRUE

CheckTaskGroup(w, t) ==
  LET node == group[w][GroupKey(w)]
  IN  Ungrouped(t) \/ node.depth = 0 \/ node.root = Desc[t].root

\* Faulty: the node is emplaced without node_depth_ = 1.
JoinedGroupUncounted(w, t) ==
  IF Ungrouped(t) THEN group
  ELSE [group EXCEPT ![w][GroupKey(w)] = [root |-> Desc[t].root, depth |-> @.depth]]

\* group_map_ after CheckTaskGroup returned true
JoinedGroup(w, t) ==
  IF Ungrouped(t) THEN group
  ELSE [group EXCEPT ![w][GroupKey(w)] = [root |-> Desc[t].root, depth |-> @.depth + 1]]

\* Faulty: a group of depth 0 stays in group_map_ with its root.
RemoveTaskGroupKept(w, t) == group

\* group_map_ after RemoveTaskGroup; node_depth_ is unsigned
RemoveTaskGroup(w, t) ==
  LET node == group[w][GroupKey(w)]
      depth == IF node.depth = 0 THEN MaxU32 ELSE node.depth - 1
  IN  IF Desc[t].remote \/ ~Ordered(t) THEN group
      ELSE [group EXCEPT ![w][GroupKey(w)] =
              IF depth = 0 THEN Absent ELSE [root |-> node.root, depth |-> depth]]

-----------------------------------------------------------------------------
(* Worker::Run and Worker::Loop: the work entries in turn; after the last  *)
(* one, Loop looks at kill_requested_ and runs once more after the kill.   *)

\* Faulty: the index runs past the last work entry.
NextEntryPastEnd(w) == /\ ent' = [ent EXCEPT ![w] = @ + 1]
                       /\ pc' = [pc EXCEPT ![w] = "entry"]
                       /\ UNCHANGED final

\* Faulty: the workers are never told to stop.
IsAliveAlways == TRUE

IsAlive == ~kill

NextEntry(w) ==
  LET last == ent[w] = Len(WorkQueue[w])
  IN  /\ ent' = [ent EXCEPT ![w] = IF last THEN 1 ELSE @ + 1]
      /\ pc' = [pc EXCEPT ![w] = IF last /\ final[w] THEN "exited" ELSE "entry"]
      /\ final' = [final EXCEPT ![w] = IF last THEN @ \/ ~IsAlive ELSE @]

BeginPoll(w) == /\ pc' = [pc EXCEPT ![w] = "poll"]
                /\ off' = [off EXCEPT ![w] = 0]
                /\ iter' = [iter EXCEPT ![w] = 0]
                /\ UNCHANGED <<ent, final>>

Run(w) ==
  /\ pc[w] = "entry"
  /\ IF CurLane(w) \in LowLatency
     THEN BeginPoll(w) /\ UNCHANGED count
     ELSE /\ count' = [count EXCEPT ![CurLane(w)] = (@ + 1) % PollEvery]
          /\ IF count'[CurLane(w)] = 0
             THEN BeginPoll(w)
             ELSE NextEntry(w) /\ UNCHANGED <<off, iter>>
  /\ UNCHANGED <<lane, taskVars, thread, seen, group, cur, kill, client>>

-----------------------------------------------------------------------------
(* Worker::PollGrouped, one iteration of its loop in up to seven steps.    *)

Peekable(w) == iter[w] < MaxIter /\ off[w] < Len(lane[CurLane(w)])
Peeked(w) == lane[CurLane(w)][off[w] + 1]

\* peek found nothing, or the iterations are used up: PollGrouped returns.
PollReturn(w) ==
  /\ pc[w] = "poll" /\ ~Peekable(w)
  /\ NextEntry(w)
  /\ UNCHANGED <<lane, taskVars, thread, seen, group, off, iter, cur, count,
                 kill, client>>

\* Faulty: off moves on although the entries have moved up by one.
PopTaskSkips(w, t) ==
  /\ off' = [off EXCEPT ![w] = @ + 1]
  /\ IF off[w] = 0
     THEN /\ lane' = [lane EXCEPT ![CurLane(w)] = Tail(@)]
          /\ entry' = [entry EXCEPT ![t] = "popped"]
     ELSE /\ entry' = [entry EXCEPT ![t] = "complete"]
          /\ UNCHANGED lane

\* The head leaves the lane; an entry further back is passed over and is
\* popped when it has become the head.
PopTask(w, t) ==
  IF off[w] = 0
  THEN /\ lane' = [lane EXCEPT ![CurLane(w)] = Tail(@)]
       /\ entry' = [entry EXCEPT ![t] = "popped"]
       /\ UNCHANGED off
  ELSE /\ entry' = [entry EXCEPT ![t] = "complete"]
       /\ off' = [off EXCEPT ![w] = @ + 1]
       /\ UNCHANGED lane

NextIter(w) == /\ pc' = [pc EXCEPT ![w] = "poll"]
               /\ iter' = [iter EXCEPT ![w] = @ + 1]

PollComplete(w) ==
  /\ pc[w] = "poll" /\ Peekable(w)
  /\ entry[Peeked(w)] = "complete"
  /\ PopTask(w, Peeked(w))
  /\ NextIter(w)
  /\ UNCHANGED <<flags, alloc, delcnt, phase, stack, thread, seen, group, ent,
                 cur, count, final, kill, client>>

\* The entry of task t is being looked at and is not complete: the condition of
\* every step below up to the completion check.
AtTask(w, t) == /\ pc[w] = "poll" /\ Peekable(w)
                /\ t = Peeked(w)
                /\ entry[t] = "in"

\* GetTaskState returned null: the task ends without having run.
PollOrphan(w, t) ==
  /\ Desc[t].kind = "orphan"
  /\ PopTask(w, t)
  /\ pc' = [pc EXCEPT ![w] = "end"]
  /\ cur' = [cur EXCEPT ![w] = t]
  /\ UNCHANGED <<flags, alloc, delcnt, phase, stack, thread, seen, group, ent,
                 iter, count, final, kill, client>>

MayRun(w, t) == "disable_run" \notin flags[t] /\ CheckTaskGroup(w, t)

\* The task may not run now: on to the completion check.
PollHold(w, t) ==
  /\ Desc[t].kind # "orphan" /\ ~MayRun(w, t)
  /\ pc' = [pc EXCEPT ![w] = "check"]
  /\ cur' = [cur EXCEPT ![w] = t]
  /\ UNCHANGED <<lane, taskVars, thread, seen, group, ent, off, iter, count,
                 final, kill, client>>

\* The task runs: its group is joined; the worker goes on at step next.
Execute(w, t, next) ==
  /\ Desc[t].kind # "orphan" /\ MayRun(w, t)
  /\ group' = JoinedGroup(w, t)
  /\ pc' = [pc EXCEPT ![w] = next]
  /\ cur' = [cur EXCEPT ![w] = t]
  /\ UNCHANGED <<seen, ent, off, iter, count, final, kill, client>>

SetFlags(t, S) == flags' = [flags EXCEPT ![t] = @ \cup S]

\* Disperse: a remote_queue PushTask is created and emplaced; the flag word of t
\* is updated only afterwards, by two read-modify-writes. A task is dispersed
\* at most as often as Task has PushTasks for it.
Disperse(w, t) ==
  /\ Desc[t].remote
  /\ Execute(w, t, "disable_read")
  /\ \E u \in ThreadTask : /\ Desc[u].orig = t /\ u \notin alloc
                           /\ Emplace(u)
                           /\ alloc' = alloc \cup {u}
  /\ UNCHANGED <<flags, delcnt, phase, stack, thread>>

Local(t, kind) == ~Desc[t].remote /\ Desc[t].kind = kind

RunOneshot(w, t) ==
  /\ Local(t, "oneshot")
  /\ Execute(w, t, "check")
  /\ SetFlags(t, {"started", "module_complete"})
  /\ UNCHANGED <<lane, entry, alloc, delcnt, phase, stack, thread>>

RunResident(w, t) ==
  /\ Local(t, "resident")
  /\ Execute(w, t, "check")
  /\ SetFlags(t, {"started"})
  /\ UNCHANGED <<lane, entry, alloc, delcnt, phase, stack, thread>>

\* Faulty: the subtask keeps TASK_FIRE_AND_FORGET.
KeepFireAndForget(S) == S

UnsetFireAndForget(S) == S \ {"faf"}

\* proc_queue Push, phase kSchedule: the subtask is no longer fire and forget
\* and goes to its own queue; the worker is held in Emplace while that is full.
PushSchedule(w, t) ==
  /\ Local(t, "push") /\ phase[t] = "start"
  /\ Execute(w, t, "pushed")
  /\ Emplace(Desc[t].sub)
  /\ flags' = [flags EXCEPT ![t] = @ \cup {"started"},
                            ![Desc[t].sub] = UnsetFireAndForget(@)]
  /\ phase' = [phase EXCEPT ![t] = "wait"]
  /\ UNCHANGED <<alloc, delcnt, stack, thread>>

\* kSchedule falls through to kWaitSchedule in the same call. Another worker may
\* have completed the subtask since it was emplaced.
PushCheck(w) ==
  /\ pc[w] = "pushed"
  /\ SetFlags(cur[w], IF "complete" \in flags[Desc[cur[w]].sub]
                      THEN {"module_complete"} ELSE {})
  /\ pc' = [pc EXCEPT ![w] = "check"]
  /\ UNCHANGED <<lane, entry, alloc, delcnt, phase, stack, thread, seen, group, ent,
                 off, iter, cur, count, final, kill, client>>

\* Entered again in phase kWaitSchedule: done when the subtask is.
PushWait(w, t) ==
  /\ Local(t, "push") /\ phase[t] = "wait"
  /\ Execute(w, t, "check")
  /\ SetFlags(t, IF "complete" \in flags[Desc[t].sub]
                 THEN {"started", "module_complete"} ELSE {"started"})
  /\ UNCHANGED <<lane, entry, alloc, delcnt, phase, stack, thread>>

\* CreateTaskState entered: the coroutine gets its stack. The state, or its id,
\* is known here: it is created, or found, without asking node 1.
CreateKnown(w, t) ==
  /\ Local(t, "create") /\ phase[t] = "start"
  /\ Execute(w, t, "check")
  /\ stack' = [stack EXCEPT ![t] = "live"]
  /\ SetFlags(t, {"started", "module_complete"})
  /\ UNCHANGED <<lane, entry, alloc, delcnt, phase, thread>>

\* The id has to come from node 1: a GetOrCreateTaskStateId task is created
\* and emplaced, and the coroutine yields while it is incomplete.
CreateAskId(w, t) ==
  /\ Local(t, "create") /\ phase[t] = "start"
  /\ Execute(w, t, "check")
  /\ Emplace(Desc[t].sub)
  /\ alloc' = alloc \cup {Desc[t].sub}
  /\ stack' = [stack EXCEPT ![t] = "live"]
  /\ phase' = [phase EXCEPT ![t] = "wait"]
  /\ SetFlags(t, {"started"})
  /\ UNCHANGED <<delcnt, thread>>

\* Faulty: the subtask is not deleted.
KeepSub(t) == UNCHANGED delcnt

DelSub(t) == DelTask({Desc[t].sub})

\* The coroutine is resumed: once it has the id it deletes the subtask and, on
\* every path that is left, completes.
CreateResume(w, t) ==
  /\ Local(t, "create") /\ phase[t] = "wait"
  /\ Execute(w, t, "check")
  /\ IF "complete" \in flags[Desc[t].sub]
     THEN SetFlags(t, {"module_complete"}) /\ DelSub(t)
     ELSE UNCHANGED <<flags, delcnt>>
  /\ UNCHANGED <<lane, entry, alloc, phase, stack, thread>>

\* A preemptive task is handed to a new Argobots thread, its runs disabled.
RunPreemptive(w, t) ==
  /\ Local(t, "thread")
  /\ Execute(w, t, "check")
  /\ SetFlags(t, {"disable_run"})
  /\ thread' = [thread EXCEPT ![t] = "rpc"]
  /\ UNCHANGED <<lane, entry, alloc, delcnt, phase, stack>>

\* After Disperse: DisableRun and UnsetCoroutine on the flag word of the
\* dispersed task, each a plain read followed by a plain write (SetUnordered,
\* between them, only reads).
FlagRead(w) ==
  /\ pc[w] \in {"disable_read", "unset_read"}
  /\ seen' = [seen EXCEPT ![w] = flags[cur[w]]]
  /\ pc' = [pc EXCEPT ![w] = IF @ = "disable_read" THEN "disable_write" ELSE "unset_write"]
  /\ UNCHANGED <<lane, taskVars, thread, group, ent, off, iter, cur, count,
                 final, kill, client>>

\* Faulty: Disperse leaves the task runnable, or a coroutine.
UpdatedRunnable(w) == IF pc[w] = "disable_write" THEN seen[w] ELSE seen[w] \ {"coroutine"}
UpdatedCoroutine(w) == IF pc[w] = "disable_write" THEN seen[w] \cup {"disable_run"} ELSE seen[w]

Updated(w) == IF pc[w] = "disable_write" THEN seen[w] \cup {"disable_run"}
                                         ELSE seen[w] \ {"coroutine"}

FlagWrite(w) ==
  /\ pc[w] \in {"disable_write", "unset_write"}
  /\ flags' = [flags EXCEPT ![cur[w]] = Updated(w)]
  /\ pc' = [pc EXCEPT ![w] = IF @ = "disable_write" THEN "unset_read" ELSE "check"]
  /\ seen' = [seen EXCEPT ![w] = {}]
  /\ UNCHANGED <<lane, entry, alloc, delcnt, phase, stack, thread, group, ent,
                 off, iter, cur, count, final, kill, client>>

\* The task is not complete: on to the next entry of the lane.
CheckIncomplete(w) ==
  /\ pc[w] = "check"
  /\ "module_complete" \notin flags[cur[w]]
  /\ NextIter(w)
  /\ off' = [off EXCEPT ![w] = @ + 1]
  /\ UNCHANGED <<lane, taskVars, thread, seen, group, ent, cur, count, final,
                 kill, client>>

\* free(ctx.stack_ptr_): only a stack that was allocated may be freed.
FreeStack(t) == stack' = [stack EXCEPT ![t] = IF @ = "live" THEN "freed" ELSE "bad_free"]

\* The task is complete: the coroutine's stack is freed or the Argobots thread
\* joined, the group is left and the entry popped.
CheckComplete(w) ==
  LET t == cur[w]
  IN  /\ pc[w] = "check"
      /\ "module_complete" \in flags[t]
      /\ IF "coroutine" \in flags[t] THEN FreeStack(t) ELSE UNCHANGED stack
      /\ "coroutine" \notin flags[t] /\ "preemptive" \in flags[t] => thread[t] = "done"
      /\ group' = RemoveTaskGroup(w, t)
      /\ PopTask(w, t)
      /\ pc' = [pc EXCEPT ![w] = "end"]
      /\ UNCHANGED <<flags, alloc, delcnt, phase, thread, seen, ent, iter, cur,
                     count, final, kill, client>>

\* Faulty: every task is deleted by the worker, whoever waits for it.
EndTaskDeletes(w) ==
  /\ pc[w] = "end"
  /\ SetFlags(cur[w], {"module_complete", "complete"})
  /\ DelTask(Owned(cur[w]))
  /\ NextIter(w)
  /\ cur' = [cur EXCEPT ![w] = NoTask]
  /\ UNCHANGED <<lane, entry, alloc, phase, stack, thread, seen, group, ent,
                 off, count, final, kill, client>>

\* EndTask after PopTask: a fire-and-forget task is deleted, any other (an
\* orphan always) is marked complete, which is the last access to it.
EndTask(w) ==
  LET t == cur[w]
  IN  /\ pc[w] = "end"
      /\ IF Desc[t].kind # "orphan" /\ "faf" \in flags[t]
         THEN DelTask(Owned(t)) /\ UNCHANGED flags
         ELSE SetFlags(t, {"module_complete", "complete"}) /\ UNCHANGED delcnt
      /\ NextIter(w)
      /\ cur' = [cur EXCEPT ![w] = NoTask]
      /\ UNCHANGED <<lane, entry, alloc, phase, stack, thread, seen, group, ent,
                     off, count, final, kill, client>>

-----------------------------------------------------------------------------
(* The Argobots thread of a remote_queue PushTask: the synchronous calls   *)
(* to the other nodes (module RemoteQueue), then SetModuleComplete on the  *)
(* dispersed task, a read and a write, then on the PushTask itself.        *)

ThreadStep(t, from, to) == /\ thread[t] = from
                           /\ thread' = [thread EXCEPT ![t] = to]
                           /\ UNCHANGED <<lane, entry, alloc, delcnt, phase, stack,
                                          group, scanVars, kill, client>>

\* Faulty: the dispersed task is completed before the calls have returned.
ThreadRpcEarly(t) == /\ ThreadStep(t, "rpc", "read")
                     /\ SetFlags(Desc[t].orig, {"module_complete"})
                     /\ UNCHANGED seen

ThreadRpc(t) == ThreadStep(t, "rpc", "read") /\ UNCHANGED <<flags, seen>>

ThreadRead(t) == /\ ThreadStep(t, "read", "write")
                 /\ seen' = [seen EXCEPT ![t] = flags[Desc[t].orig]]
                 /\ UNCHANGED flags

\* Faulty: the dispersed task is not marked complete.
ThreadWriteSilent(t) == /\ ThreadStep(t, "write", "self")
                        /\ seen' = [seen EXCEPT ![t] = {}]
                        /\ UNCHANGED flags

ThreadWrite(t) ==
  /\ ThreadStep(t, "write", "self")
  /\ flags' = [flags EXCEPT ![Desc[t].orig] = seen[t] \cup {"module_complete"}]
  /\ seen' = [seen EXCEPT ![t] = {}]

ThreadSelf(t) == /\ ThreadStep(t, "self", "done")
                 /\ SetFlags(t, {"module_complete"})
                 /\ UNCHANGED seen

-----------------------------------------------------------------------------
\* WorkOrchestrator::Join sets kill_requested_.
Join == /\ MayStop /\ ~kill
        /\ kill' = TRUE
        /\ UNCHANGED <<lane, taskVars, thread, seen, group, scanVars, client>>

PollTask(w, t) ==
  \/ PollOrphan(w, t) \/ PollHold(w, t) \/ Disperse(w, t)
  \/ RunOneshot(w, t) \/ RunResident(w, t)
  \/ PushSchedule(w, t) \/ PushWait(w, t)
  \/ CreateKnown(w, t) \/ CreateAskId(w, t) \/ CreateResume(w, t)
  \/ RunPreemptive(w, t)

WorkerNext(w) ==
  \/ Run(w) \/ PollReturn(w) \/ PollComplete(w)
  \/ \E t \in Task : AtTask(w, t) /\ PollTask(w, t)
  \/ PushCheck(w) \/ FlagRead(w) \/ FlagWrite(w)
  \/ CheckIncomplete(w) \/ CheckComplete(w) \/ EndTask(w)

ThreadNext(t) == ThreadRpc(t) \/ ThreadRead(t) \/ ThreadWrite(t) \/ ThreadSelf(t)

ClientNext(t) == ClientNew(t) \/ ClientEmplace(t) \/ ClientReap(t)

Next == \/ \E w \in WorkerId : WorkerNext(w)
        \/ \E t \in ThreadTask : ThreadNext(t)
        \/ \E t \in RootTask : ClientNext(t)
        \/ Join

Spec == Init /\ [][Next]_vars

\* Every worker and every Argobots thread keeps being scheduled, and a client
\* that has made a task goes on to emplace it, wait for it and delete it.
Fairness == /\ \A w \in WorkerId : WF_vars(WorkerNext(w))
            /\ \A t \in ThreadTask : WF_vars(ThreadNext(t))
            /\ \A t \in RootTask : WF_vars(ClientEmplace(t) \/ ClientReap(t))

FairSpec == Spec /\ Fairness

-----------------------------------------------------------------------------
(*                               Properties                                *)

\* Every variable holds a value of its type: in particular the work entry index
\* of Run and the iteration count of PollGrouped stay in range.
TypeOK ==
  /\ lane \in [Lane -> Seq(Task)]
  /\ entry \in [Task -> {"none", "in", "complete", "popped"}]
  /\ flags \in [Task -> SUBSET Flag]
  /\ alloc \subseteq Task
  /\ delcnt \in [Task -> Nat]
  /\ phase \in [Task -> {"start", "wait"}]
  /\ stack \in [Task -> {"none", "live", "freed", "bad_free"}]
  /\ thread \in [Task -> ThreadPc]
  /\ seen \in [WorkerId \cup Task -> SUBSET Flag]
  /\ group \in [WorkerId -> [Key -> [root : Nat, depth : Nat]]]
  /\ pc \in [WorkerId -> Pc]
  /\ ent \in [WorkerId -> Nat] /\ \A w \in WorkerId : ent[w] \in DOMAIN WorkQueue[w]
  /\ off \in [WorkerId -> Nat]
  /\ iter \in [WorkerId -> 0..MaxIter]
  /\ cur \in [WorkerId -> Task \cup {NoTask}]
  /\ count \in [Lane -> 0..PollEvery-1]
  /\ final \in [WorkerId -> BOOLEAN]
  /\ kill \in BOOLEAN
  /\ client \in [RootTask -> {"idle", "emplacing", "waiting", "done"}]

Polls(w, l) == \E i \in DOMAIN WorkQueue[w] : WorkQueue[w][i] = l

\* An ordered task that has begun and has not left its group.
Holding(t) == /\ Ordered(t) /\ ~Desc[t].remote
              /\ "started" \in flags[t] /\ entry[t] = "in"

\* The tasks that hold key k of worker w.
Holders(w, k) ==
  {t \in Task : Holding(t) /\ Polls(w, Desc[t].lane) /\ LaneId[Desc[t].lane] = k}

\* Group exclusion (CheckTaskGroup / RemoveTaskGroup): the ordered tasks that
\* run under one key of a worker all descend from the root task recorded in
\* group_map_, and node_depth_ counts them exactly, so that RemoveTaskGroup
\* never meets the "depth is already 0" of worker.h and node_depth_ never wraps.
GroupExclusion ==
  \A w \in WorkerId, k \in Key :
    /\ group[w][k].depth = Cardinality(Holders(w, k))
    /\ \A t \in Holders(w, k) : Desc[t].root = group[w][k].root

\* RemoveTaskGroup never reports "depth is already 0" (worker.h): when an ordered
\* task of this node is about to leave its group, the group is in group_map_,
\* under the root of the task and with a depth that can be counted down.
LeavesOpenGroup ==
  \A w \in WorkerId :
    /\ pc[w] = "check" /\ "module_complete" \in flags[cur[w]]
    /\ Ordered(cur[w]) /\ ~Desc[cur[w]].remote
    => /\ group[w][GroupKey(w)].depth \in 1..Cardinality(Task)
       /\ group[w][GroupKey(w)].root = Desc[cur[w]].root

\* A lane holds tasks that were emplaced in it, each once, none of them popped.
LaneInv ==
  \A l \in Lane : \A i \in DOMAIN lane[l] :
    /\ Desc[lane[l][i]].lane = l
    /\ entry[lane[l][i]] \in {"in", "complete"}
    /\ \A j \in DOMAIN lane[l] : lane[l][i] = lane[l][j] => i = j

\* A task that is about to be emplaced has never been in a lane.
FreshInv ==
  /\ \A t \in RootTask : client[t] \in {"idle", "emplacing"} => entry[t] = "none"
  /\ \A t \in Task : HasSub(t) /\ phase[t] = "start" => entry[Desc[t].sub] = "none"
  /\ \A t \in ThreadTask \ alloc : entry[t] = "none"

\* Inside an iteration of PollGrouped the entry looked at stays where it is; the
\* flag word of a task is read and rewritten only after it was dispersed.
ScanAt(w) ==
  /\ pc[w] \in {"disable_read", "disable_write", "unset_read", "unset_write"}
       => Desc[cur[w]].remote
  /\ pc[w] \in Pc \ {"entry", "poll", "exited"} => iter[w] < MaxIter /\ cur[w] \in Task
  /\ pc[w] \in Pc \ {"entry", "poll", "exited", "end"}
       => /\ off[w] < Len(lane[CurLane(w)])
          /\ cur[w] = Peeked(w)
          /\ entry[cur[w]] = "in"
  /\ pc[w] \in {"pushed", "end"} /\ Ordered(cur[w]) /\ ~Desc[cur[w]].remote
       => "started" \in flags[cur[w]]

ScanInv == \A w \in WorkerId : ScanAt(w)

\* An ordered task of this node has begun once its handler waits or completes it,
\* and only after it was emplaced.
StartAt(t) ==
  Ordered(t) /\ ~Desc[t].remote =>
    /\ entry[t] = "none" => "started" \notin flags[t]
    /\ phase[t] = "wait" \/ "module_complete" \in flags[t] => "started" \in flags[t]

StartInv == \A t \in Task : StartAt(t)

\* What makes GroupExclusion inductive: PollGrouped, CheckTaskGroup and the
\* handlers keep these facts together.
IndInv == TypeOK /\ LaneInv /\ FreshInv /\ ScanInv /\ StartInv /\ GroupExclusion

Live(t) == t \in alloc /\ delcnt[t] = 0

\* Whoever may still dereference a task finds it allocated and not deleted: the
\* worker inside an iteration of PollGrouped, a scan that meets an entry whose
\* complete_ is not set, a push or a coroutine that waits for its subtask, the
\* Argobots thread (its PushTask and the task it completes) and the client.
NoUseAfterFree ==
  /\ \A w \in WorkerId : pc[w] \notin {"entry", "poll", "exited"} => Live(cur[w])
  /\ \A t \in Task : entry[t] = "in" => Live(t)
  /\ \A t \in Task : phase[t] = "wait" /\ "module_complete" \notin flags[t]
                       => Live(Desc[t].sub)
  /\ \A t \in Task : thread[t] \in {"rpc", "read", "write", "self"} => Live(t)
  /\ \A t \in Task : thread[t] \in {"rpc", "read", "write"} => Live(Desc[t].orig)
  /\ \A t \in RootTask : client[t] \in {"emplacing", "waiting"} => Live(t)

\* The check in Client::DelTask: no task is deleted twice.
FreedOnce == \A t \in Task : delcnt[t] <= 1

\* Only a stack the worker allocated is freed on completion of a coroutine.
StackFreedOnce == \A t \in Task : stack[t] # "bad_free"

\* TASK_DISABLE_RUN, "This task should not be run at this time" (task.h): the
\* worker sets it when it has dispersed a task and does not disperse it again.
\* The code achieves it only if the worker of the task is the one that starts
\* the Argobots thread.
DispersedOnce ==
  \A u, v \in alloc \cap ThreadTask : Desc[u].orig = Desc[v].orig => u = v

\* SetComplete is the last write to a task: once the client can see
\* TASK_COMPLETE, nobody changes the flag word of the task any more.
QuietAfterComplete ==
  [][\A t \in Task : "complete" \in flags[t] => flags'[t] = flags[t]]_vars

\* An ordered task of the lane that has not been let through CheckTaskGroup.
Waiting(t) == Ordered(t) /\ ~Desc[t].remote /\ entry[t] = "in" /\ "started" \notin flags[t]

\* "Tasks apart of the same task group need to be ordered" (task.h): when a task
\* finds its key free, no ordered task of the same group that was emplaced in
\* the lane before it is still waiting for that key.
GroupFifo ==
  \A w \in WorkerId, t \in Task :
    /\ AtTask(w, t) /\ Waiting(t)
    /\ group[w][GroupKey(w)].depth = 0
    => \A i \in 1..off[w] : ~(/\ Waiting(lane[CurLane(w)][i])
                              /\ Desc[lane[CurLane(w)][i]].lane_hash = Desc[t].lane_hash)

Ended(t) == "complete" \in flags[t] \/ delcnt[t] > 0

\* Task::Wait returns: every task a client creates, except the long-running
\* ones, is completed (or, fire and forget, deleted) unless the runtime is stopped.
EveryTaskEnds ==
  \A t \in RootTask :
    Desc[t].kind # "resident" => (client[t] = "emplacing" ~> Ended(t) \/ kill)

\* Every task that is allocated on this node and run to its end here is deleted
\* in the end, the subtasks that pushes and creations allocate included, unless
\* the runtime is stopped. Not meant are the tasks of schedulers and the
\* PushTasks of the remote queue: nothing in the code deletes those.
EveryTaskFreed ==
  \A t \in Task : Desc[t].kind \notin {"resident", "thread"} =>
    (t \in alloc ~> delcnt[t] > 0 \/ kill)

\* Join returns: once kill_requested_ is set every worker leaves Loop.
WorkersExit == kill ~> \A w \in WorkerId : pc[w] = "exited"
=============================================================================
