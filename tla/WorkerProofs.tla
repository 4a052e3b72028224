---------------------------- MODULE WorkerProofs ----------------------------
(***************************************************************************)
(* IndInv is inductive, hence every behaviour is type correct and the task *)
(* groups of a worker exclude one another, for any tasks, lanes, workers,  *)
(* depths and bounds. With it, FifoInv is inductive where ordered tasks    *)
(* that share a key have different roots: groups run in the order of their *)
(* lane. MemInv, RemInv and StackInv are where the PushTasks of a remote   *)
(* task are polled by its own worker: no task is used after it was         *)
(* deleted, deleted twice, dispersed twice or written after it was marked  *)
(* complete, and only allocated stacks are freed.                          *)
(***************************************************************************)
EXTENDS WorkerSteps, WorkerMemory, FiniteSetTheorems

-----------------------------------------------------------------------------
(* Groups: what a step does to the set of holders.                         *)

\* Nothing joins or leaves.
LEMMA GroupSame ==
  ASSUME GroupExclusion, group' = group, \A t \in Task : Holding(t)' <=> Holding(t)
  PROVE  GroupExclusion'
<1>1. \A w \in WorkerId, k \in Key : Holders(w, k)' = Holders(w, k)
  BY DEF Holders, Polls
<1> QED
  BY <1>1, Zenon DEF GroupExclusion

\* The holders of a key are a finite set of tasks.
LEMMA HoldersFinite ==
  ASSUME NEW w \in WorkerId, NEW k \in Key
  PROVE  IsFiniteSet(Holders(w, k)) /\ Cardinality(Holders(w, k)) \in Nat
         /\ (Cardinality(Holders(w, k)) = 0 <=> Holders(w, k) = {})
<1>1. IsFiniteSet(Holders(w, k))
  BY FS_Subset, TaskAssumption, Zenon DEF Holders
<1> QED
  BY <1>1, FS_CardinalityType, FS_EmptySet

\* Task t joins the group under the current key of worker w.
LEMMA GroupJoin ==
  ASSUME TypeOK, GroupExclusion, NEW w \in WorkerId, NEW t \in Task, Joins(w, t)
  PROVE  GroupExclusion'
<1> DEFINE g == GroupKey(w)
<1> USE DEF Joins
<1>1. CurLane(w) \in Lane /\ Polls(w, CurLane(w)) /\ g \in Key
  BY CurLaneType, Zenon
<1>2. \A v \in WorkerId, k \in Key :
        Holders(v, k)' = IF v = w /\ k = g THEN Holders(v, k) \cup {t} ELSE Holders(v, k)
  <2> TAKE v \in WorkerId, k \in Key
  <2>1. Polls(v, Desc[t].lane) => v = w
    BY <1>1, Owner, Zenon DEF TypeOK
  <2> QED
    BY <1>1, <2>1, Zenon DEF Holders, GroupKey, Polls
<1>3. group[w][g].depth = 0 \/ group[w][g].root = Desc[t].root
  BY Zenon DEF CheckTaskGroup
<1>4. /\ group'[w][g] = [root |-> Desc[t].root, depth |-> group[w][g].depth + 1]
      /\ \A v \in WorkerId, k \in Key : v # w \/ k # g => group'[v][k] = group[v][k]
  BY <1>1, Zenon DEF JoinedGroup, TypeOK
<1>5. ASSUME NEW v \in WorkerId, NEW k \in Key
      PROVE  /\ group'[v][k].depth = Cardinality(Holders(v, k)')
             /\ \A u \in Holders(v, k)' : Desc[u].root = group'[v][k].root
  <2>1. CASE v = w /\ k = g
    <3>1. Holders(v, k)' = Holders(v, k) \cup {t} /\ t \notin Holders(v, k)
      BY <1>2, <2>1, Zenon DEF Holders
    <3>2. Cardinality(Holders(v, k)') = Cardinality(Holders(v, k)) + 1
      BY <3>1, HoldersFinite, FS_AddElement, Zenon
    <3>3. group'[v][k] = [root |-> Desc[t].root, depth |-> group[v][k].depth + 1]
      BY <1>4, <2>1, Zenon
    <3>4. \A u \in Holders(v, k) : Desc[u].root = Desc[t].root
      <4>1. CASE group[v][k].depth = 0
        BY <4>1, HoldersFinite, Zenon DEF GroupExclusion
      <4>2. CASE group[v][k].root = Desc[t].root
        BY <4>2, Zenon DEF GroupExclusion
      <4> QED
        BY <1>3, <2>1, <4>1, <4>2, Zenon
    <3>5. group[v][k].depth = Cardinality(Holders(v, k))
      BY Zenon DEF GroupExclusion
    <3> QED
      BY <3>1, <3>2, <3>3, <3>4, <3>5
  <2>2. CASE ~(v = w /\ k = g)
    BY <1>2, <1>4, <2>2 DEF GroupExclusion
  <2> QED
    BY <2>1, <2>2, Zenon
<1> QED
  BY <1>5, Zenon DEF GroupExclusion

\* Task t, a holder, leaves the group under the current key of worker w.
LEMMA GroupLeave ==
  ASSUME TypeOK, GroupExclusion, NEW w \in WorkerId, NEW t \in Task, Leaves(w, t)
  PROVE  GroupExclusion'
<1> DEFINE g == GroupKey(w)
<1> USE DEF Leaves
<1>1. CurLane(w) \in Lane /\ Polls(w, CurLane(w)) /\ g \in Key
  BY CurLaneType, Zenon
<1>2. \A v \in WorkerId, k \in Key :
        Holders(v, k)' = IF v = w /\ k = g THEN Holders(v, k) \ {t} ELSE Holders(v, k)
  <2> TAKE v \in WorkerId, k \in Key
  <2>1. Polls(v, Desc[t].lane) => v = w
    BY <1>1, Owner, Zenon DEF TypeOK
  <2> QED
    BY <1>1, <2>1, Zenon DEF Holders, GroupKey, Polls
<1>3. /\ group[w][g].depth = 1 => group'[w][g] = Absent
      /\ group[w][g].depth > 1 => group'[w][g] = [root |-> group[w][g].root,
                                                 depth |-> group[w][g].depth - 1]
      /\ \A v \in WorkerId, k \in Key : v # w \/ k # g => group'[v][k] = group[v][k]
  <2>1. group \in [WorkerId -> [Key -> [root : Nat, depth : Nat]]]
    BY Zenon DEF TypeOK
  <2>2. ~Desc[t].remote /\ Ordered(t)
    BY Zenon DEF Holding
  <2> DEFINE d == IF group[w][g].depth = 0 THEN MaxU32 ELSE group[w][g].depth - 1
  <2>3. group' = [group EXCEPT ![w][g] =
                    IF d = 0 THEN Absent ELSE [root |-> group[w][g].root, depth |-> d]]
    BY <2>2, Zenon DEF RemoveTaskGroup
  <2> QED
    BY <1>1, <2>1, <2>3
<1>4. ASSUME NEW v \in WorkerId, NEW k \in Key
      PROVE  /\ group'[v][k].depth = Cardinality(Holders(v, k)')
             /\ \A u \in Holders(v, k)' : Desc[u].root = group'[v][k].root
  <2>1. CASE v = w /\ k = g
    <3>1. Holders(v, k)' = Holders(v, k) \ {t} /\ t \in Holders(v, k)
      BY <1>1, <1>2, <2>1, Zenon DEF Holders, GroupKey
    <3>2. /\ Cardinality(Holders(v, k)') = Cardinality(Holders(v, k)) - 1
          /\ Cardinality(Holders(v, k)) \in Nat \ {0}
      BY <3>1, HoldersFinite, FS_RemoveElement, ZenonT(30)
    <3>3. /\ group[v][k].depth = Cardinality(Holders(v, k))
          /\ \A u \in Holders(v, k) : Desc[u].root = group[v][k].root
      BY Zenon DEF GroupExclusion
    <3>4. CASE group[v][k].depth = 1
      <4>1. Cardinality(Holders(v, k)') = 0 /\ IsFiniteSet(Holders(v, k)')
        BY <3>1, <3>2, <3>3, <3>4, HoldersFinite, FS_RemoveElement
      <4>2. Holders(v, k)' = {}
        BY <4>1, FS_EmptySet
      <4> QED
        BY <1>3, <2>1, <3>4, <4>1, <4>2 DEF Absent
    <3>5. CASE group[v][k].depth # 1
      <4>1. group'[v][k] = [root |-> group[v][k].root, depth |-> group[v][k].depth - 1]
        BY <1>3, <2>1, <3>2, <3>3, <3>5, HoldersFinite
      <4>2. group[v][k] \in [root : Nat, depth : Nat]
        BY DEF TypeOK
      <4> QED
        BY <3>1, <3>2, <3>3, <4>1, <4>2
    <3> QED
      BY <3>4, <3>5, Zenon
  <2>2. CASE ~(v = w /\ k = g)
    BY <1>2, <1>3, <2>2 DEF GroupExclusion
  <2> QED
    BY <2>1, <2>2, Zenon
<1> QED
  BY <1>4, Zenon DEF GroupExclusion

\* A step that moves the holders as GroupMove says keeps GroupExclusion.
LEMMA GroupMoved ==
  ASSUME TypeOK, GroupExclusion, GroupMove
  PROVE  GroupExclusion'
BY GroupSame, GroupJoin, GroupLeave DEF GroupMove

-----------------------------------------------------------------------------
(* The invariant.                                                          *)

\* No task has been emplaced, every group is free.
LEMMA InitInd ==
  ASSUME Init
  PROVE  IndInv
<1>1. \A t \in Task : InitFlags(t) \in SUBSET Flag
                     /\ InitFlags(t) \cap {"started", "module_complete"} = {}
  BY Zenon DEF InitFlags, Flag
<1>2. \A t \in Task : flags[t] = InitFlags(t)
  BY Zenon DEF Init
<1>3. Absent \in [root : Nat, depth : Nat] /\ Absent.depth = 0
  BY SMTT(30) DEF Absent, NoRoot
<1>4. \A w \in WorkerId : Len(WorkQueue[w]) >= 1 /\ 1 \in DOMAIN WorkQueue[w]
  <2> SUFFICES ASSUME NEW w \in WorkerId
               PROVE  Len(WorkQueue[w]) >= 1 /\ 1 \in DOMAIN WorkQueue[w]
    OBVIOUS
  <2>1. WorkQueue[w] \in Seq(Lane) /\ WorkQueue[w] # << >>
    BY LaneAssumption, Zenon
  <2> QED
    BY <2>1, SMTT(30)
<1>5. TypeOK
  <2>1. lane \in [Lane -> Seq(Task)]
    BY SMTT(30) DEF Init
  <2>2. flags \in [Task -> SUBSET Flag] /\ seen \in [WorkerId \cup Task -> SUBSET Flag]
    BY <1>1, Zenon DEF Init
  <2>3. group \in [WorkerId -> [Key -> [root : Nat, depth : Nat]]]
    BY <1>3, Zenon DEF Init
  <2>4. ent \in [WorkerId -> Nat] /\ \A w \in WorkerId : ent[w] \in DOMAIN WorkQueue[w]
    BY <1>4, Zenon DEF Init
  <2>5. iter \in [WorkerId -> 0..MaxIter] /\ off \in [WorkerId -> Nat]
    BY BoundAssumption, SMTT(30) DEF Init
  <2>6. count \in [Lane -> 0..PollEvery-1]
    BY Zenon DEF Init
  <2>7. /\ entry \in [Task -> {"none", "in", "complete", "popped"}]
        /\ alloc \subseteq Task /\ delcnt \in [Task -> Nat]
        /\ phase \in [Task -> {"start", "wait"}]
        /\ stack \in [Task -> {"none", "live", "freed", "bad_free"}]
        /\ thread \in [Task -> ThreadPc]
    BY Zenon DEF Init, ThreadPc
  <2>8. /\ pc \in [WorkerId -> Pc] /\ cur \in [WorkerId -> Task \cup {NoTask}]
        /\ final \in [WorkerId -> BOOLEAN] /\ kill \in BOOLEAN
        /\ client \in [RootTask -> {"idle", "emplacing", "waiting", "done"}]
    BY ZenonT(30) DEF Init, Pc
  <2> QED
    BY <2>1, <2>2, <2>3, <2>4, <2>5, <2>6, <2>7, <2>8, ZenonT(30) DEF TypeOK
<1>6. LaneInv
  BY DEF Init, LaneInv
<1>7. \A t \in Task : entry[t] = "none" /\ phase[t] = "start"
  BY Zenon DEF Init
<1>8. FreshInv
  <2>1. \A t \in Task : HasSub(t) => Desc[t].sub \in Task
    BY SubFacts, Zenon
  <2> QED
    BY <1>7, <2>1, Zenon DEF FreshInv, RootTask, ThreadTask
<1>9. ScanInv
  BY Zenon DEF Init, ScanInv, ScanAt
<1>10. StartInv
  BY <1>1, <1>2, <1>7, Zenon DEF StartInv, StartAt
<1>11. GroupExclusion
  <2>1. \A w \in WorkerId, k \in Key : Holders(w, k) = {} /\ group[w][k].depth = 0
    BY <1>3, <1>7, Zenon DEF Holders, Holding, Init
  <2>2. Cardinality({}) = 0
    BY FS_EmptySet
  <2> QED
    BY <2>1, <2>2, Zenon DEF GroupExclusion
<1> QED
  BY <1>5, <1>6, <1>8, <1>9, <1>10, <1>11, SMTT(30) DEF IndInv

\* Every step of a worker, a client, an Argobots thread and of Join keeps the parts of
\* IndInv and moves the holders of a group as GroupMove says.
LEMMA NextKeeps ==
  ASSUME IndInv, [Next]_vars
  PROVE  Keeps
<1>1. ASSUME NEW w \in WorkerId, NEW t \in Task, AtTask(w, t), PollTask(w, t)
      PROVE  Keeps
  <2>1. CASE PollOrphan(w, t)   BY <1>1, <2>1, PollOrphanStep, SMTT(30)
  <2>2. CASE PollHold(w, t)     BY <1>1, <2>2, PollHoldStep, SMTT(30)
  <2>3. CASE Disperse(w, t)     BY <1>1, <2>3, DisperseStep
  <2>4. CASE RunOneshot(w, t) \/ RunResident(w, t)
    BY <1>1, <2>4, RunOneshotStep, SMTT(30)
  <2>5. CASE PushSchedule(w, t) BY <1>1, <2>5, PushScheduleStep, Zenon
  <2>6. CASE PushWait(w, t)     BY <1>1, <2>6, PushWaitStep, Zenon
  <2>7. CASE CreateKnown(w, t)  BY <1>1, <2>7, CreateKnownStep, Zenon
  <2>8. CASE CreateAskId(w, t)  BY <1>1, <2>8, CreateAskIdStep
  <2>9. CASE CreateResume(w, t) BY <1>1, <2>9, CreateResumeStep, Zenon
  <2>10. CASE RunPreemptive(w, t) BY <1>1, <2>10, RunPreemptiveStep
  <2> QED
    BY <1>1, <2>1, <2>2, <2>3, <2>4, <2>5, <2>6, <2>7, <2>8, <2>9, <2>10, Zenon DEF PollTask
<1>2. ASSUME NEW w \in WorkerId, WorkerNext(w)
      PROVE  Keeps
  <2>1. CASE Run(w)             BY <2>1, RunStep, Zenon
  <2>2. CASE PollReturn(w)      BY <2>2, PollReturnStep, SMTT(30)
  <2>3. CASE PollComplete(w)    BY <2>3, PollCompleteStep
  <2>4. CASE \E t \in Task : AtTask(w, t) /\ PollTask(w, t)
    BY <1>1, <2>4, SMTT(30)
  <2>5. CASE FlagRead(w)        BY <2>5, FlagReadStep
  <2>6. CASE FlagWrite(w)       BY <2>6, FlagWriteStep
  <2>7. CASE CheckIncomplete(w) BY <2>7, CheckIncompleteStep, Zenon
  <2>8. CASE CheckComplete(w)   BY <2>8, CheckCompleteStep, Zenon
  <2>9. CASE EndTask(w)         BY <2>9, EndTaskStep, Zenon
  <2>10. CASE PushCheck(w)      BY <2>10, PushCheckStep, Zenon
  <2> QED
    BY <1>2, <2>1, <2>2, <2>3, <2>4, <2>5, <2>6, <2>7, <2>8, <2>9, <2>10, Zenon DEF WorkerNext
<1>3. ASSUME NEW t \in RootTask, ClientNext(t)
      PROVE  Keeps
  BY <1>3, ClientStep, ClientEmplaceStep, SMTT(30) DEF ClientNext
<1>4. ASSUME UNCHANGED vars PROVE Keeps
  <2>1. /\ UNCHANGED <<lane, entry, flags, alloc, delcnt, phase, stack, thread, seen>>
        /\ UNCHANGED <<group, pc, ent, off, iter, cur, count, final, kill, client>>
    BY <1>4, Zenon DEF vars, taskVars, scanVars
  <2>2. TypeOK' /\ FreshInv'
    BY <2>1, ZenonT(30) DEF IndInv, TypeOK, FreshInv, HasSub, RootTask, ThreadTask, Subtasks
  <2>3. \A u \in Task : Steady(u)
    BY <2>1, Zenon DEF Steady
  <2> QED
    BY <2>1, <2>2, <2>3, AsideStep, Zenon DEF scanVars
<1>5. ASSUME Next PROVE Keeps
  BY <1>2, <1>3, <1>5, ThreadStepInd, JoinStep, SMTT(30) DEF Next
<1> QED
  BY <1>4, <1>5, Zenon

\* Hence every step keeps IndInv.
LEMMA NextInd ==
  ASSUME IndInv, [Next]_vars
  PROVE  IndInv'
BY NextKeeps, GroupMoved, Zenon DEF IndInv, Keeps

\* IndInv holds in every state of the node.
THEOREM Inductive == Spec => []IndInv
BY InitInd, NextInd, PTL DEF Spec

\* Every state of the worker loop is type correct: the indices of Run and of
\* PollGrouped never leave their ranges.
THEOREM TypeCorrect == Spec => []TypeOK
<1>1. IndInv => TypeOK
  BY DEF IndInv
<1> QED
  BY <1>1, Inductive, PTL

\* CheckTaskGroup and RemoveTaskGroup exclude: the ordered tasks that run under a
\* key of a worker share their root and are counted exactly by node_depth_.
THEOREM GroupsExclude == Spec => []GroupExclusion
<1>1. IndInv => GroupExclusion
  BY DEF IndInv
<1> QED
  BY <1>1, Inductive, PTL

\* RemoveTaskGroup always finds the group of the task it removes with a depth
\* between 1 and the number of tasks: neither its fatal branch nor a wrap of the
\* unsigned node_depth_ is reachable.
THEOREM DepthNeverWraps == Spec => []LeavesOpenGroup
<1>1. ASSUME IndInv PROVE LeavesOpenGroup
  <2> SUFFICES ASSUME NEW w \in WorkerId, pc[w] = "check",
                      "module_complete" \in flags[cur[w]],
                      Ordered(cur[w]), ~Desc[cur[w]].remote
               PROVE  /\ group[w][GroupKey(w)].depth \in 1..Cardinality(Task)
                      /\ group[w][GroupKey(w)].root = Desc[cur[w]].root
    BY Zenon DEF LeavesOpenGroup
  <2>1. TypeOK /\ LaneInv /\ StartInv /\ ScanAt(w) /\ GroupExclusion
    BY <1>1, ZenonT(30) DEF IndInv, ScanInv
  <2>2. /\ cur[w] \in Task /\ entry[cur[w]] = "in" /\ cur[w] = Peeked(w)
        /\ off[w] < Len(lane[CurLane(w)])
    BY <2>1, Zenon DEF ScanAt, Pc
  <2>3. CurLane(w) \in Lane /\ Polls(w, CurLane(w)) /\ GroupKey(w) \in Key
    BY <2>1, CurLaneType, ZenonT(30)
  <2>4. off[w] + 1 \in DOMAIN lane[CurLane(w)]
    <3>1. lane[CurLane(w)] \in Seq(Task) /\ off[w] \in Nat
      BY <2>1, <2>3, Zenon DEF TypeOK
    <3> QED
      BY <2>2, <3>1
  <2>5. Desc[cur[w]].lane = CurLane(w)
    BY <2>1, <2>2, <2>3, <2>4 DEF LaneInv, Peeked
  <2>6. cur[w] \in Holders(w, GroupKey(w))
    BY <2>1, <2>2, <2>3, <2>5, Zenon DEF StartInv, StartAt, Holders, Holding, GroupKey
  <2>7. /\ Cardinality(Holders(w, GroupKey(w))) <= Cardinality(Task)
        /\ Cardinality(Task) \in Nat
    BY TaskAssumption, FS_Subset, FS_CardinalityType, ZenonT(30) DEF Holders
  <2>8. /\ Cardinality(Holders(w, GroupKey(w))) \in Nat
        /\ Cardinality(Holders(w, GroupKey(w))) # 0
    BY <2>3, <2>6, HoldersFinite, Zenon
  <2> QED
    BY <2>1, <2>3, <2>6, <2>7, <2>8 DEF GroupExclusion
<1> QED
  BY <1>1, Inductive, PTL

\* A task that finds the key of its lane free in group_map_ is the first of its lane
\* that waits for it: CheckTaskGroup lets the tasks of a group through in the order
\* in which they were emplaced, if no two of them descend from one root task.
THEOREM GroupsInOrder ==
  ASSUME OnePerRoot
  PROVE  Spec => []GroupFifo
<1>1. Init => FifoInv
  BY InitFifo
<1>2. IndInv /\ FifoInv /\ [Next]_vars => FifoInv'
  <2>1. IndInv => GroupsHeld
    BY HoldersFinite, Zenon DEF IndInv, GroupExclusion, GroupsHeld
  <2> QED
    BY <2>1, NextFifo, NextKeeps
<1>3. ASSUME IndInv, FifoInv PROVE GroupFifo
  <2> SUFFICES ASSUME NEW w \in WorkerId, NEW t \in Task, AtTask(w, t),
                      group[w][GroupKey(w)].depth = 0, NEW i \in 1..off[w]
               PROVE  ~Waiting(lane[CurLane(w)][i])
    BY Zenon DEF GroupFifo
  <2>1. pc[w] \notin {"entry", "exited"}
    BY DEF AtTask
  <2> QED
    BY <1>3, <2>1, Zenon DEF FifoInv, PassedAt
<1> QED
  BY <1>1, <1>2, <1>3, Inductive, PTL DEF Spec

-----------------------------------------------------------------------------
(* The memory of tasks.                                                    *)

\* When the PushTasks of a remote task are polled by the worker of the task, the
\* three invariants on who reaches a task hold together in every state.
LEMMA MemInductive ==
  ASSUME Together
  PROVE  Spec => [](IndInv /\ MemInv /\ RemInv /\ StackInv)
<1>1. Init => MemInv /\ RemInv /\ StackInv
  BY InitMem, InitRem, InitStack
<1>2. IndInv /\ MemInv /\ RemInv /\ StackInv /\ [Next]_vars => MemInv' /\ RemInv' /\ StackInv'
  BY NextMem, NextRem, NextStack
<1> QED
  BY <1>1, <1>2, Inductive, PTL DEF Spec

\* No worker, handler, Argobots thread or client ever dereferences a task that
\* EndTask, a resumed creation or a client has deleted: a dispersed task stays in
\* its lane until the thread has completed it, the PushTask until the thread ends.
THEOREM MemorySafe ==
  ASSUME Together
  PROVE  Spec => []NoUseAfterFree
<1>1. IndInv /\ MemInv /\ RemInv /\ StackInv => NoUseAfterFree
  <2> SUFFICES ASSUME MemInv, RemInv PROVE NoUseAfterFree
    OBVIOUS
  <2>1. Reached
    BY Zenon DEF MemInv
  <2>2. \A t \in RootTask : client[t] \in {"emplacing", "waiting"} => Live(t)
    BY <2>1, Zenon DEF Reached, Owned
  <2>3. ASSUME NEW t \in Task, thread[t] \in {"rpc", "read", "write", "self"}
        PROVE  t \in ThreadTask /\ t \in Carrier /\ Live(t)
    <3>1. t \in ThreadTask
      BY <2>3, Zenon DEF RemInv, Carried
    <3>2. t \in alloc /\ entry[t] = "in"
      BY <2>3, <3>1, Zenon DEF RemInv, Carried
    <3> QED
      BY <2>1, <3>1, <3>2, Zenon DEF Reached, Carrier
  <2>4. ASSUME NEW t \in Task, thread[t] \in {"rpc", "read", "write"}
        PROVE  Live(Desc[t].orig)
    <3>1. t \in ThreadTask /\ t \in Carrier
      BY <2>3, <2>4, Zenon
    <3>2. entry[Desc[t].orig] = "in" /\ Desc[t].orig \in Task
      BY <2>4, <3>1, ThreadFacts, Zenon DEF RemInv, Carried
    <3> QED
      BY <2>1, <3>2, Zenon DEF Reached
  <2>5. /\ \A w \in WorkerId : pc[w] \notin {"entry", "poll", "exited"} => Live(cur[w])
        /\ \A t \in Task : entry[t] = "in" => Live(t)
        /\ \A t \in Task : phase[t] = "wait" /\ "module_complete" \notin flags[t]
                             => Live(Desc[t].sub)
    BY <2>1, Zenon DEF Reached, Idle
  <2> QED
    BY <2>2, <2>3, <2>4, <2>5, Zenon DEF NoUseAfterFree
<1> QED
  BY <1>1, MemInductive, PTL

\* No task is deleted twice: EndTask deletes what nobody waits for, the client
\* (with the destructor of a push) or the resumed creation everything else.
THEOREM DeletedOnce ==
  ASSUME Together
  PROVE  Spec => []FreedOnce
<1>1. IndInv /\ MemInv /\ RemInv /\ StackInv => FreedOnce
  <2> SUFFICES ASSUME MemInv, NEW t \in Task PROVE delcnt[t] <= 1
    BY Zenon DEF FreedOnce
  <2>1. delcnt[t] \in {0, 1}
    BY Zenon DEF MemInv, Deleter
  <2> QED
    BY <2>1
<1> QED
  BY <1>1, MemInductive, PTL

\* SetComplete is the last write to the flag word of a task: no scan, handler,
\* thread or EndTask writes it once a client can see it.
THEOREM Quiet ==
  ASSUME Together
  PROVE  Spec => QuietAfterComplete
<1>1. ASSUME IndInv, MemInv, RemInv, [Next]_vars
      PROVE  [\A t \in Task : "complete" \in flags[t] => flags'[t] = flags[t]]_vars
  <2>1. \A u \in Task : flags'[u] = flags[u] \/ ~Gone(u)
    BY <1>1, NextMem, Zenon
  <2>2. \A u \in Task : "complete" \in flags[u] => Gone(u)
    BY <1>1, Zenon DEF MemInv, Parted
  <2> QED
    BY <2>1, <2>2, Zenon
<1> QED
  BY <1>1, MemInductive, PTL DEF Spec, QuietAfterComplete

\* The worker frees only stacks that it allocated: a creation completes after its
\* first call gave it one, and UnsetCoroutine on a dispersed creation is not lost.
THEOREM StackAllocated ==
  ASSUME Together
  PROVE  Spec => []StackFreedOnce
<1>1. IndInv /\ MemInv /\ RemInv /\ StackInv => StackFreedOnce
  BY Zenon DEF StackInv
<1> QED
  BY <1>1, MemInductive, PTL
=============================================================================
