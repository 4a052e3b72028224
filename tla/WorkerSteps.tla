---------------------------- MODULE WorkerSteps -----------------------------
(***************************************************************************)
(* Every step keeps IndInv: those of clients, Argobots threads and Join,   *)
(* the scan, the Run methods of the task libraries and the completion of a *)
(* task. Where ordered tasks that share a key have different roots, every  *)
(* step keeps FifoInv too: it pops the entry looked at (Pops) or leaves    *)
(* the lanes as they are, but for new entries at their ends (Calm).        *)
(***************************************************************************)
EXTENDS WorkerLemmas

\* A worker runs the task it looks at: t joins its group unless it is in it or
\* has none, everything else is steady.
LEMMA ExecuteStep ==
  ASSUME IndInv, NEW w \in WorkerId, NEW t \in Task, NEW next,
         AtTask(w, t), Execute(w, t, next),
         next \in {"check", "pushed"} \/ (next = "disable_read" /\ Desc[t].remote),
         TypeOK', \A l \in Lane : Kept(l),
         entry'[t] = "in",
         Ordered(t) /\ ~Desc[t].remote => "started" \in flags'[t],
         \A u \in Task \ {t} : Ordered(u) /\ ~Desc[u].remote => Steady(u)
  PROVE  ScanInv' /\ StartInv' /\ GroupMove
<1>1. /\ TypeOK /\ LaneInv /\ ScanInv /\ StartInv /\ GroupExclusion
      /\ pc[w] = "poll" /\ Peekable(w) /\ t = Peeked(w) /\ entry[t] = "in"
  BY SMTT(30) DEF IndInv, AtTask
<1>2. /\ pc' = [pc EXCEPT ![w] = next] /\ cur' = [cur EXCEPT ![w] = t]
      /\ ent' = ent /\ off' = off /\ iter' = iter
      /\ CheckTaskGroup(w, t) /\ group' = JoinedGroup(w, t)
  BY SMTT(30) DEF Execute, MayRun
<1>3. /\ pc \in [WorkerId -> Pc] /\ cur \in [WorkerId -> Task \cup {NoTask}]
      /\ off \in [WorkerId -> Nat] /\ lane \in [Lane -> Seq(Task)]
  BY <1>1, Zenon DEF TypeOK
<1>4. CurLane(w) \in Lane /\ CurLane(w)' = CurLane(w)
  BY <1>1, <1>2, CurLaneType, ZenonT(30) DEF CurLane
<1>5. off[w] + 1 \in DOMAIN lane[CurLane(w)] /\ Desc[t].lane = CurLane(w)
  <2>1. off[w] < Len(lane[CurLane(w)]) /\ off[w] \in Nat
    BY <1>1, <1>3, SMTT(30) DEF Peekable
  <2>2. off[w] + 1 \in DOMAIN lane[CurLane(w)]
    BY <1>3, <1>4, <2>1, SMTT(30)
  <2> QED
    BY <1>1, <1>4, <2>2, Zenon DEF LaneInv, Peeked
<1>6. ScanInv'
  <2>1. ASSUME NEW v \in WorkerId, v # w PROVE ScanAt(v)'
    <3>1. Kept(CurLane(v))
      BY <1>1, CurLaneType, SMTT(30)
    <3> QED
      BY <1>2, <1>3, <2>1, <3>1, ScanOther, SMTT(30) DEF Steady
  <2>2. ScanAt(w)'
    <3>1. off[w] < Len(lane'[CurLane(w)]) /\ lane'[CurLane(w)][off[w] + 1] = t
      <4>1. Kept(CurLane(w)) /\ off[w] < Len(lane[CurLane(w)]) /\ off[w] \in Nat
        BY <1>1, <1>3, <1>4, SMTT(30) DEF Peekable
      <4>2. Len(lane'[CurLane(w)]) \in Nat /\ Len(lane[CurLane(w)]) \in Nat
        BY <1>3, <1>4, SMTT(30) DEF TypeOK
      <4> QED
        BY <1>1, <1>5, <4>1, <4>2, SMTT(30) DEF Kept, Peeked
    <3>2. iter[w] < MaxIter
      BY <1>1, Zenon DEF Peekable
    <3> QED
      BY <1>2, <1>3, <1>4, <3>1, <3>2, Zenon DEF ScanAt, Peeked, Pc
  <2> QED
    BY <2>1, <2>2, SMTT(30) DEF ScanInv
<1>7. \A u \in Task \ {t} : StartAt(u)' /\ (Holding(u)' <=> Holding(u))
  BY <1>1, SteadyKeeps, SMTT(30) DEF StartInv
<1>8. StartInv'
  BY <1>7, SMTT(30) DEF StartInv, StartAt, Ordered
<1>9. GroupMove
  <2>1. CASE Ungrouped(t)
    <3>1. Holding(t)' <=> Holding(t)
      BY <1>1, <2>1 DEF Ungrouped, Holding, Ordered
    <3>2. group' = group
      BY <1>2, <2>1, SMTT(30) DEF JoinedGroup
    <3> QED
      BY <1>1, <1>7, <3>1, <3>2, ZenonT(30) DEF GroupMove
  <2>2. CASE ~Ungrouped(t)
    <3>1. ~Holding(t) /\ Holding(t)'
      BY <1>1, <2>2, SMTT(30) DEF Ungrouped, Holding, Ordered
    <3> QED
      BY <1>1, <1>2, <1>5, <1>7, <2>2, <3>1, ZenonT(30) DEF GroupMove, Joins
  <2> QED
    BY <2>1, <2>2, SMTT(30)
<1> QED
  BY <1>6, <1>8, <1>9, Zenon

\* A step that puts no task in a lane.
LEMMA FreshKept ==
  ASSUME FreshInv,
         \A u \in Task : entry[u] = "none" => entry'[u] = "none",
         \A u \in RootTask : client'[u] \in {"idle", "emplacing"}
                               => client[u] \in {"idle", "emplacing"},
         \A u \in Task : phase'[u] = "start" => phase[u] = "start",
         alloc \subseteq alloc'
  PROVE  FreshInv'
<1>1. \A u \in Task : HasSub(u) => Desc[u].sub \in Task
  BY DescType
<1> QED
  BY <1>1 DEF FreshInv, RootTask, ThreadTask, HasSub

-----------------------------------------------------------------------------
(* Actions that neither move a worker nor touch a lane.                    *)

\* Lanes, entries, groups and scans are left alone, ordered tasks are steady.
LEMMA AsideStep ==
  ASSUME IndInv, TypeOK', FreshInv', UNCHANGED <<lane, entry, phase, group, scanVars>>,
         \A u \in Task : Ordered(u) /\ ~Desc[u].remote => Steady(u)
  PROVE  Keeps
<1>1. TypeOK /\ LaneInv
  BY DEF IndInv
<1>2. LaneInv' /\ \A l \in Lane : Kept(l)
  BY <1>1, SameLanes, SMTT(30)
<1>3. ScanInv'
  <2> SUFFICES ASSUME NEW v \in WorkerId PROVE ScanAt(v)'
    BY DEF ScanInv
  <2>1. Kept(CurLane(v))
    BY <1>1, <1>2, CurLaneType, SMTT(30)
  <2> QED
    BY <2>1, ScanOther DEF scanVars, Steady
<1> QED
  BY <1>2, <1>3, SteadyStep, SMTT(30) DEF IndInv, Keeps

\* The steps of a client.
LEMMA ClientStep ==
  ASSUME IndInv, NEW t \in RootTask, ClientNew(t) \/ ClientReap(t)
  PROVE  Keeps
<1>1. TypeOK /\ FreshInv /\ t \in Task
  BY DEF IndInv, RootTask
<1>2. TypeOK'
  <2>1. CASE ClientNew(t)
    <3>1. Owned(t) \subseteq Task
      BY <1>1, SubFacts, TaskAssumption, DescType, SMTT(30) DEF Owned
    <3> QED
      BY <1>1, <2>1, <3>1, Zenon DEF ClientNew, TypeOK, scanVars
  <2>2. CASE ClientReap(t)
    BY <1>1, <2>2, SMTT(30) DEF ClientReap, TypeOK, scanVars, DelTask
  <2> QED
    BY <2>1, <2>2, SMTT(30)
<1>3. /\ UNCHANGED <<lane, entry, flags, phase, group, scanVars>> /\ alloc \subseteq alloc'
      /\ \A u \in RootTask : client'[u] \in {"idle", "emplacing"}
                             => client[u] \in {"idle", "emplacing"}
  BY <1>1, ZenonT(30) DEF ClientNew, ClientReap, TypeOK
<1>4. FreshInv'
  BY <1>1, <1>3, FreshKept, ZenonT(30)
<1> QED
  BY <1>2, <1>3, <1>4, AsideStep DEF Steady

\* The steps of an Argobots thread: only the flags of its PushTask and of a
\* remote task change.
LEMMA ThreadStepInd ==
  ASSUME IndInv, NEW t \in ThreadTask, ThreadNext(t)
  PROVE  Keeps
<1>1. TypeOK /\ FreshInv /\ t \in Task /\ Desc[t].orig \in Task
  BY DescType, SMTT(30) DEF IndInv, ThreadTask
<1>2. UNCHANGED <<lane, entry, alloc, delcnt, phase, stack, group, scanVars, kill, client>>
  BY Zenon DEF ThreadNext, ThreadRpc, ThreadRead, ThreadWrite, ThreadSelf, ThreadStep
<1>3. TypeOK'
  <2>1. CASE ThreadRpc(t)
    BY <1>1, <2>1, ZenonT(30) DEF ThreadRpc, ThreadStep, TypeOK, ThreadPc, scanVars
  <2>2. CASE ThreadRead(t)
    BY <1>1, <2>2, Zenon DEF ThreadRead, ThreadStep, TypeOK, ThreadPc, scanVars
  <2>3. CASE ThreadWrite(t)
    BY <1>1, <2>3, Zenon DEF ThreadWrite, ThreadStep, TypeOK, ThreadPc, scanVars, Flag
  <2>4. CASE ThreadSelf(t)
    BY <1>1, <2>4, Zenon DEF ThreadSelf, ThreadStep, TypeOK, ThreadPc, scanVars, SetFlags, Flag
  <2> QED
    BY <2>1, <2>2, <2>3, <2>4, SMTT(30) DEF ThreadNext
<1>4. \A u \in Task : Ordered(u) /\ ~Desc[u].remote => flags'[u] = flags[u]
  <2>1. Desc[Desc[t].orig].remote /\ ~Ordered(t)
    BY <1>1, TaskAssumption, Zenon DEF ThreadTask, Ordered
  <2> QED
    BY <1>1, <2>1, ZenonT(30) DEF ThreadNext, ThreadRpc, ThreadRead, ThreadWrite, ThreadSelf,
                      SetFlags, TypeOK
<1>5. FreshInv'
  BY <1>1, <1>2, FreshKept, Zenon
<1> QED
  BY <1>2, <1>3, <1>4, <1>5, AsideStep, ZenonT(30) DEF Steady

\* Join only sets kill_requested_.
LEMMA JoinStep ==
  ASSUME IndInv, Join
  PROVE  Keeps
<1>1. TypeOK /\ FreshInv
  BY SMTT(30) DEF IndInv
<1>2. TypeOK'
  BY <1>1, Zenon DEF Join, TypeOK, taskVars, scanVars
<1>3. UNCHANGED <<lane, entry, flags, alloc, phase, group, scanVars, client>>
  BY DEF Join, taskVars
<1>4. FreshInv'
  BY <1>1, <1>3, FreshKept
<1> QED
  BY <1>2, <1>3, <1>4, AsideStep, Zenon DEF Steady

-----------------------------------------------------------------------------
(* Actions that move a worker and touch no lane.                           *)

\* The other workers do not move.
Alone(w) == \A v \in WorkerId \ {w} :
              /\ pc'[v] = pc[v] /\ ent'[v] = ent[v] /\ off'[v] = off[v]
              /\ iter'[v] = iter[v] /\ cur'[v] = cur[v]

\* A step of worker w that only moves it within its scan and keeps the lanes, the
\* groups and the ordered tasks as they are.
LEMMA MoveStep ==
  ASSUME IndInv, NEW w \in WorkerId, TypeOK', Alone(w), ScanAt(w)',
         UNCHANGED <<lane, entry, alloc, phase, group, client>>,
         \A u \in Task : Ordered(u) /\ ~Desc[u].remote => Steady(u)
  PROVE  Keeps
<1>1. TypeOK /\ LaneInv /\ FreshInv
  BY DEF IndInv
<1>2. LaneInv' /\ \A l \in Lane : Kept(l)
  BY <1>1, SameLanes, SMTT(30)
<1>3. FreshInv'
  BY <1>1, FreshKept, Zenon
<1>4. ScanInv'
  <2>1. ASSUME NEW v \in WorkerId, v # w PROVE ScanAt(v)'
    <3>1. Kept(CurLane(v))
      BY <1>1, <1>2, CurLaneType, SMTT(30)
    <3> QED
      BY <2>1, <3>1, ScanOther, Zenon DEF Steady, Alone
  <2> QED
    BY <2>1, SMTT(30) DEF ScanInv
<1> QED
  BY <1>2, <1>3, <1>4, SteadyStep, SMTT(30) DEF IndInv, Keeps

\* The index of the next work entry is in range.
LEMMA NextEntryType ==
  ASSUME TypeOK, NEW w \in WorkerId, NextEntry(w)
  PROVE  /\ ent' \in [WorkerId -> Nat] /\ \A v \in WorkerId : ent'[v] \in DOMAIN WorkQueue[v]
         /\ pc' \in [WorkerId -> Pc] /\ pc'[w] \in {"entry", "exited"}
         /\ final' \in [WorkerId -> BOOLEAN]
<1>1. WorkQueue[w] \in Seq(Lane) /\ WorkQueue[w] # << >>
  BY LaneAssumption, SMTT(30)
<1>2. ent \in [WorkerId -> Nat] /\ \A v \in WorkerId : ent[v] \in DOMAIN WorkQueue[v]
  BY Zenon DEF TypeOK
<1>3. 1 \in DOMAIN WorkQueue[w] /\ DOMAIN WorkQueue[w] = 1..Len(WorkQueue[w])
  BY <1>1, SMTT(30)
<1>4. ent' \in [WorkerId -> Nat] /\ \A v \in WorkerId : ent'[v] \in DOMAIN WorkQueue[v]
  BY <1>1, <1>2, <1>3, SMTT(30) DEF NextEntry, IsAlive
<1>5. pc' \in [WorkerId -> Pc] /\ pc'[w] \in {"entry", "exited"}
  BY Zenon DEF NextEntry, IsAlive, TypeOK, Pc
<1>6. final' \in [WorkerId -> BOOLEAN]
  BY Zenon DEF NextEntry, IsAlive, TypeOK
<1> QED
  BY <1>4, <1>5, <1>6

\* Worker::Run goes to a lane, or past one it does not poll this time.
LEMMA RunStep ==
  ASSUME IndInv, NEW w \in WorkerId, Run(w)
  PROVE  Keeps
<1>1. TypeOK
  BY DEF IndInv
<1>2. UNCHANGED <<lane, taskVars, thread, seen, group, cur, kill, client>>
  BY DEF Run
<1>3. count' \in [Lane -> 0..PollEvery-1]
  <2>1. \A l \in Lane : (count[l] + 1) % PollEvery \in 0..PollEvery-1
    BY <1>1, BoundAssumption DEF TypeOK
  <2>2. \/ count' = count
        \/ count' = [count EXCEPT ![CurLane(w)] = (count[CurLane(w)] + 1) % PollEvery]
    BY DEF Run
  <2>3. count \in [Lane -> 0..PollEvery-1] /\ CurLane(w) \in Lane
    BY <1>1, CurLaneType, Zenon DEF TypeOK
  <2> QED
    BY <2>1, <2>2, <2>3, SMTT(30)
<1>4. CASE BeginPoll(w)
  <2>1. TypeOK'
    BY <1>1, <1>2, <1>3, <1>4, BoundAssumption DEF BeginPoll, TypeOK, taskVars, Pc
  <2>2. ScanAt(w)' /\ Alone(w)
    BY <1>1, <1>2, <1>4, Zenon DEF BeginPoll, ScanAt, Alone, TypeOK
  <2> QED
    BY <1>2, <2>1, <2>2, MoveStep, Zenon DEF taskVars, Steady
<1>5. CASE NextEntry(w) /\ UNCHANGED <<off, iter>>
  <2>1. TypeOK'
    BY <1>1, <1>2, <1>3, <1>5, NextEntryType, ZenonT(30) DEF TypeOK, taskVars
  <2>2. ScanAt(w)' /\ Alone(w)
    BY <1>1, <1>2, <1>5, NextEntryType, ZenonT(30) DEF NextEntry, IsAlive, ScanAt, Alone, TypeOK
  <2> QED
    BY <1>2, <2>1, <2>2, MoveStep, Zenon DEF taskVars, Steady
<1> QED
  BY <1>4, <1>5 DEF Run

\* PollGrouped returns at the end of a lane.
LEMMA PollReturnStep ==
  ASSUME IndInv, NEW w \in WorkerId, PollReturn(w)
  PROVE  Keeps
<1>1. TypeOK
  BY DEF IndInv
<1>2. /\ UNCHANGED <<lane, taskVars, thread, seen, group, off, iter, cur, count, kill, client>>
      /\ NextEntry(w)
  BY SMTT(30) DEF PollReturn
<1>3. TypeOK'
  BY <1>1, <1>2, NextEntryType, ZenonT(30) DEF TypeOK, taskVars
<1>4. ScanAt(w)' /\ Alone(w)
  BY <1>1, <1>2, NextEntryType, ZenonT(30) DEF NextEntry, IsAlive, ScanAt, Alone, TypeOK
<1> QED
  BY <1>2, <1>3, <1>4, MoveStep, Zenon DEF taskVars, Steady

\* PollGrouped meets a task that may not run.
LEMMA PollHoldStep ==
  ASSUME IndInv, NEW w \in WorkerId, NEW t \in Task, AtTask(w, t), PollHold(w, t)
  PROVE  Keeps
<1>1. TypeOK
  BY SMTT(30) DEF IndInv
<1>2. /\ UNCHANGED <<lane, taskVars, thread, seen, group, ent, off, iter, count,
                     final, kill, client>>
      /\ pc' = [pc EXCEPT ![w] = "check"] /\ cur' = [cur EXCEPT ![w] = t]
  BY ZenonT(30) DEF PollHold
<1>3. TypeOK'
  BY <1>1, <1>2, ZenonT(30) DEF TypeOK, taskVars, Pc
<1>4. ScanAt(w)' /\ Alone(w)
  BY <1>1, <1>2, ZenonT(30) DEF ScanAt, Alone, TypeOK, AtTask, Peekable, Peeked, CurLane, taskVars
<1> QED
  BY <1>2, <1>3, <1>4, MoveStep, Zenon DEF taskVars, Steady

\* DisableRun or UnsetCoroutine reads the flag word of a dispersed task.
LEMMA FlagReadStep ==
  ASSUME IndInv, NEW w \in WorkerId, FlagRead(w)
  PROVE  Keeps
<1>1. TypeOK /\ ScanAt(w)
  BY DEF IndInv, ScanInv
<1>2. /\ UNCHANGED <<lane, taskVars, thread, group, ent, off, iter, cur, count,
                     final, kill, client>>
      /\ pc[w] \in {"disable_read", "unset_read"}
      /\ pc' = [pc EXCEPT ![w] = IF @ = "disable_read" THEN "disable_write" ELSE "unset_write"]
      /\ seen' = [seen EXCEPT ![w] = flags[cur[w]]]
  BY Zenon DEF FlagRead
<1>3. cur[w] \in Task
  BY <1>1, <1>2, Zenon DEF ScanAt, Pc
<1>4. TypeOK'
  BY <1>1, <1>2, <1>3, ZenonT(30) DEF TypeOK, taskVars, Pc
<1>5. ScanAt(w)' /\ Alone(w)
  BY <1>1, <1>2, ZenonT(30) DEF ScanAt, Alone, TypeOK, Peeked, CurLane, taskVars, Pc
<1> QED
  BY <1>2, <1>4, <1>5, MoveStep, Zenon DEF taskVars, Steady

\* DisableRun or UnsetCoroutine writes it back; a dispersed task holds no group.
LEMMA FlagWriteStep ==
  ASSUME IndInv, NEW w \in WorkerId, FlagWrite(w)
  PROVE  Keeps
<1>1. TypeOK /\ ScanAt(w)
  BY DEF IndInv, ScanInv
<1>2. /\ UNCHANGED <<lane, entry, alloc, delcnt, phase, stack, thread, group, ent,
                     off, iter, cur, count, final, kill, client>>
      /\ pc[w] \in {"disable_write", "unset_write"}
      /\ pc' = [pc EXCEPT ![w] = IF @ = "disable_write" THEN "unset_read" ELSE "check"]
      /\ seen' = [seen EXCEPT ![w] = {}]
      /\ flags' = [flags EXCEPT ![cur[w]] = IF pc[w] = "disable_write"
                                            THEN seen[w] \cup {"disable_run"}
                                            ELSE seen[w] \ {"coroutine"}]
  BY Zenon DEF FlagWrite, Updated
<1>3. cur[w] \in Task /\ Desc[cur[w]].remote
  BY <1>1, <1>2, Zenon DEF ScanAt, Pc
<1>4. TypeOK'
  BY <1>1, <1>2, <1>3, ZenonT(30) DEF TypeOK, Pc, Flag
<1>5. ScanAt(w)' /\ Alone(w)
  BY <1>1, <1>2, <1>3, ZenonT(30) DEF ScanAt, Alone, TypeOK, Peeked, CurLane, Pc
<1>6. \A u \in Task : ~Desc[u].remote => flags'[u] = flags[u]
  BY <1>1, <1>2, <1>3, Zenon DEF TypeOK
<1> QED
  BY <1>2, <1>4, <1>5, <1>6, MoveStep, ZenonT(30) DEF Steady

\* Setting bits of the flag word of a task.
LEMMA SetFlagsType ==
  ASSUME TypeOK, NEW t \in Task, NEW S \in SUBSET Flag, SetFlags(t, S)
  PROVE  /\ flags' \in [Task -> SUBSET Flag]
         /\ flags'[t] = flags[t] \cup S
         /\ \A u \in Task \ {t} : flags'[u] = flags[u]
<1>1. flags \in [Task -> SUBSET Flag] /\ flags' = [flags EXCEPT ![t] = flags[t] \cup S]
  BY Zenon DEF TypeOK, SetFlags
<1>2. flags[t] \cup S \in SUBSET Flag
  BY <1>1
<1> QED
  BY <1>1, <1>2, SMTT(30)

\* The iteration count of PollGrouped stays in range.
LEMMA NextIterType ==
  ASSUME TypeOK, NEW w \in WorkerId, iter[w] < MaxIter, NextIter(w)
  PROVE  /\ iter' \in [WorkerId -> 0..MaxIter] /\ pc' \in [WorkerId -> Pc]
         /\ pc'[w] = "poll"
         /\ \A v \in WorkerId \ {w} : pc'[v] = pc[v] /\ iter'[v] = iter[v]
<1>1. iter \in [WorkerId -> 0..MaxIter] /\ pc \in [WorkerId -> Pc] /\ MaxIter \in Nat
  BY BoundAssumption, Zenon DEF TypeOK
<1>2. iter[w] + 1 \in 0..MaxIter
  BY <1>1, SMTT(30)
<1> QED
  BY <1>1, <1>2, SMTT(30) DEF NextIter, Pc

\* PollGrouped passes over a task that is not complete.
LEMMA CheckIncompleteStep ==
  ASSUME IndInv, NEW w \in WorkerId, CheckIncomplete(w)
  PROVE  Keeps
<1>1. TypeOK /\ ScanAt(w)
  BY DEF IndInv, ScanInv
<1>2. /\ UNCHANGED <<lane, taskVars, thread, seen, group, ent, cur, count, final,
                     kill, client>>
      /\ pc[w] = "check" /\ NextIter(w) /\ off' = [off EXCEPT ![w] = @ + 1]
  BY Zenon DEF CheckIncomplete
<1>3. iter[w] < MaxIter
  BY <1>1, <1>2, Zenon DEF ScanAt, Pc
<1>4. TypeOK'
  <2>1. off \in [WorkerId -> Nat]
    BY <1>1, Zenon DEF TypeOK
  <2>2. off' \in [WorkerId -> Nat]
    BY <1>2, <2>1
  <2> QED
    BY <1>1, <1>2, <1>3, <2>2, NextIterType, Zenon DEF TypeOK, taskVars
<1>5. ScanAt(w)' /\ Alone(w)
  BY <1>1, <1>2, <1>3, NextIterType, ZenonT(30) DEF ScanAt, Alone, TypeOK
<1> QED
  BY <1>2, <1>4, <1>5, MoveStep, Zenon DEF taskVars, Steady

\* EndTask deletes the task or sets TASK_COMPLETE: it has left its group before.
LEMMA EndTaskStep ==
  ASSUME IndInv, NEW w \in WorkerId, EndTask(w)
  PROVE  Keeps
<1>1. TypeOK /\ ScanAt(w)
  BY DEF IndInv, ScanInv
<1>2. /\ UNCHANGED <<lane, entry, alloc, phase, stack, thread, seen, group, ent,
                     off, count, final, kill, client>>
      /\ pc[w] = "end" /\ NextIter(w) /\ cur' = [cur EXCEPT ![w] = NoTask]
  BY Zenon DEF EndTask
<1>3. cur[w] \in Task /\ iter[w] < MaxIter
  BY <1>1, <1>2, Zenon DEF ScanAt, Pc
<1>4. /\ flags' = flags \/ SetFlags(cur[w], {"module_complete", "complete"})
      /\ delcnt' \in [Task -> Nat]
  <2>1. delcnt \in [Task -> Nat]
    BY <1>1, Zenon DEF TypeOK
  <2> QED
    BY <2>1 DEF EndTask, DelTask
<1>5. TypeOK'
  <2>1. flags' \in [Task -> SUBSET Flag]
    BY <1>1, <1>3, <1>4, SetFlagsType, ZenonT(30) DEF TypeOK, Flag
  <2> QED
    BY <1>1, <1>2, <1>3, <1>4, <2>1, NextIterType, Zenon DEF TypeOK
<1>6. ScanAt(w)' /\ Alone(w)
  BY <1>1, <1>2, <1>3, NextIterType, ZenonT(30) DEF ScanAt, Alone, TypeOK
<1>7. Ordered(cur[w]) /\ ~Desc[cur[w]].remote => "started" \in flags[cur[w]]
  BY <1>1, <1>2, ZenonT(30) DEF ScanAt
<1>8. \A u \in Task : Ordered(u) /\ ~Desc[u].remote => Steady(u)
  <2> SUFFICES ASSUME NEW u \in Task, Ordered(u), ~Desc[u].remote PROVE Steady(u)
    BY SMTT(30)
  <2>1. CASE u = cur[w]
    <3>1. "started" \in flags[u] /\ flags[u] \subseteq flags'[u]
      BY <1>1, <1>3, <1>4, <1>7, <2>1, SetFlagsType, SMTT(30) DEF Flag
    <3> QED
      BY <1>2, <3>1, Zenon DEF Steady
  <2>2. CASE u # cur[w]
    <3>1. flags'[u] = flags[u]
      BY <1>1, <1>3, <1>4, <2>2, SetFlagsType, Zenon DEF Flag
    <3> QED
      BY <1>2, <3>1, Zenon DEF Steady
  <2> QED
    BY <2>1, <2>2, Zenon
<1> QED
  BY <1>2, <1>5, <1>6, <1>8, MoveStep, Zenon

\* proc_queue Push, having emplaced its subtask, looks whether it is complete.
LEMMA PushCheckStep ==
  ASSUME IndInv, NEW w \in WorkerId, PushCheck(w)
  PROVE  Keeps
<1>1. TypeOK /\ ScanAt(w)
  BY DEF IndInv, ScanInv
<1>2. /\ UNCHANGED <<lane, entry, alloc, delcnt, phase, stack, thread, seen, group,
                     ent, off, iter, cur, count, final, kill, client>>
      /\ pc[w] = "pushed" /\ pc' = [pc EXCEPT ![w] = "check"]
  BY Zenon DEF PushCheck
<1>3. cur[w] \in Task
  BY <1>1, <1>2, Zenon DEF ScanAt, Pc
<1>4. PICK S \in SUBSET Flag : SetFlags(cur[w], S)
  BY Zenon DEF PushCheck, Flag
<1>5. /\ flags' \in [Task -> SUBSET Flag] /\ flags'[cur[w]] = flags[cur[w]] \cup S
      /\ \A u \in Task \ {cur[w]} : flags'[u] = flags[u]
  BY <1>1, <1>3, <1>4, SetFlagsType, Zenon
<1>6. TypeOK'
  BY <1>1, <1>2, <1>5, ZenonT(30) DEF TypeOK, Pc
<1>7. ScanAt(w)' /\ Alone(w)
  BY <1>1, <1>2, ZenonT(30) DEF ScanAt, Alone, TypeOK, Peeked, CurLane, Pc
<1>8. Ordered(cur[w]) /\ ~Desc[cur[w]].remote => "started" \in flags[cur[w]]
  BY <1>1, <1>2, ZenonT(30) DEF ScanAt
<1>9. \A u \in Task : Ordered(u) /\ ~Desc[u].remote => Steady(u)
  BY <1>2, <1>5, <1>8, Zenon DEF Steady
<1> QED
  BY <1>2, <1>6, <1>7, <1>9, MoveStep, Zenon

-----------------------------------------------------------------------------
(* Actions that pop, or pass over, the entry the worker looks at.          *)

\* PopTask takes the entry at off out of the scan: what holds of the lanes after.
LEMMA PopStep ==
  ASSUME IndInv, NEW w \in WorkerId, NEW t \in Task,
         off[w] < Len(lane[CurLane(w)]), t = Peeked(w), PopTask(w, t),
         UNCHANGED <<flags, alloc, phase, client>>, Alone(w), ScanAt(w)'
  PROVE  /\ lane' \in [Lane -> Seq(Task)] /\ off' \in [WorkerId -> Nat]
         /\ entry' \in [Task -> {"none", "in", "complete", "popped"}]
         /\ LaneInv' /\ FreshInv' /\ ScanInv' /\ StartInv'
         /\ Desc[t].lane = CurLane(w) /\ entry'[t] \in {"complete", "popped"}
         /\ \A u \in Task \ {t} : Holding(u)' <=> Holding(u)
<1>1. TypeOK /\ LaneInv /\ FreshInv /\ StartInv
  BY SMTT(30) DEF IndInv
<1>2. entry \in [Task -> {"none", "in", "complete", "popped"}]
  BY <1>1, Zenon DEF TypeOK
<1>3. /\ lane' \in [Lane -> Seq(Task)]
      /\ entry' = [entry EXCEPT ![t] = entry'[t]] /\ entry'[t] \in {"complete", "popped"}
      /\ off' \in [WorkerId -> Nat]
      /\ LaneInv'
      /\ \A l \in Lane \ {CurLane(w)} : Kept(l)
  BY <1>1, PopLane, Zenon
<1>4. Desc[t].lane = CurLane(w) /\ entry[t] # "none"
  <2>1. CurLane(w) \in Lane /\ off[w] \in Nat /\ lane[CurLane(w)] \in Seq(Task)
    BY <1>1, CurLaneType, ZenonT(30) DEF TypeOK
  <2>2. off[w] + 1 \in DOMAIN lane[CurLane(w)]
    BY <2>1
  <2> QED
    BY <1>1, <2>1, <2>2, SMTT(30) DEF LaneInv, Peeked
<1>5. /\ entry' \in [Task -> {"none", "in", "complete", "popped"}]
      /\ \A u \in Task \ {t} : entry'[u] = entry[u]
  BY <1>2, <1>3, Zenon
<1>6. FreshInv'
  BY <1>1, <1>4, <1>5, FreshKept, Zenon
<1>7. ScanInv'
  <2>1. ASSUME NEW v \in WorkerId, v # w PROVE ScanAt(v)'
    <3>1. CurLane(v) \in Lane /\ CurLane(v) # CurLane(w)
      BY <1>1, <2>1, CurLaneType, Owner, ZenonT(30) DEF TypeOK
    <3>2. Kept(CurLane(v))
      BY <1>3, <3>1, Zenon
    <3> QED
      BY <2>1, <3>2, ScanOther, ZenonT(30) DEF Alone
  <2> QED
    BY <2>1, SMTT(30) DEF ScanInv
<1>8. StartInv'
  BY <1>1, <1>3, <1>5, ZenonT(30) DEF StartInv, StartAt, Ordered
<1>9. \A u \in Task \ {t} : Holding(u)' <=> Holding(u)
  BY <1>5, Zenon DEF Holding, Ordered
<1> QED
  BY <1>3, <1>4, <1>5, <1>6, <1>7, <1>8, <1>9, Zenon

-----------------------------------------------------------------------------
(* The Run methods and the completion of a task.                          *)

\* An entry whose complete_ is set leaves the lane or is passed over.
LEMMA PollCompleteStep ==
  ASSUME IndInv, NEW w \in WorkerId, PollComplete(w)
  PROVE  Keeps
<1>1. TypeOK /\ LaneInv /\ GroupExclusion
  BY SMTT(30) DEF IndInv
<1>2. /\ UNCHANGED <<flags, alloc, delcnt, phase, stack, thread, seen, group, ent,
                     cur, count, final, kill, client>>
      /\ iter[w] < MaxIter /\ off[w] < Len(lane[CurLane(w)])
      /\ entry[Peeked(w)] = "complete" /\ PopTask(w, Peeked(w)) /\ NextIter(w)
  BY Zenon DEF PollComplete, Peekable
<1>3. PICK t \in Task : t = Peeked(w)
  <2>1. CurLane(w) \in Lane /\ off[w] \in Nat /\ lane[CurLane(w)] \in Seq(Task)
    BY <1>1, CurLaneType, ZenonT(30) DEF TypeOK
  <2>2. off[w] + 1 \in DOMAIN lane[CurLane(w)]
    BY <1>2, <2>1
  <2> QED
    BY <2>1, <2>2, SMTT(30) DEF Peeked
<1>4. \A v \in WorkerId \ {w} : off'[v] = off[v]
  BY <1>1, <1>2, <1>3, PopLane, ZenonT(30)
<1>5. ScanAt(w)' /\ Alone(w)
  BY <1>1, <1>2, <1>4, NextIterType, ZenonT(30) DEF ScanAt, Alone, TypeOK
<1>6. /\ lane' \in [Lane -> Seq(Task)] /\ off' \in [WorkerId -> Nat]
      /\ entry' \in [Task -> {"none", "in", "complete", "popped"}]
      /\ LaneInv' /\ FreshInv' /\ ScanInv' /\ StartInv'
      /\ entry'[t] \in {"complete", "popped"}
      /\ \A u \in Task \ {t} : Holding(u)' <=> Holding(u)
  BY <1>2, <1>3, <1>5, PopStep, ZenonT(30)
<1>7. TypeOK'
  BY <1>1, <1>2, <1>6, NextIterType, ZenonT(30) DEF TypeOK
<1>8. Holding(t)' <=> Holding(t)
  BY <1>2, <1>3, <1>6, ZenonT(30) DEF Holding
<1> QED
  BY <1>1, <1>2, <1>6, <1>7, <1>8, Zenon DEF GroupMove, IndInv, Keeps

\* A task without a task state ends; it never joined a group.
LEMMA PollOrphanStep ==
  ASSUME IndInv, NEW w \in WorkerId, NEW t \in Task, AtTask(w, t), PollOrphan(w, t)
  PROVE  Keeps
<1>1. TypeOK /\ LaneInv /\ GroupExclusion
  BY SMTT(30) DEF IndInv
<1>2. /\ UNCHANGED <<flags, alloc, delcnt, phase, stack, thread, seen, group, ent,
                     iter, count, final, kill, client>>
      /\ iter[w] < MaxIter /\ off[w] < Len(lane[CurLane(w)]) /\ t = Peeked(w)
      /\ PopTask(w, t) /\ pc' = [pc EXCEPT ![w] = "end"] /\ cur' = [cur EXCEPT ![w] = t]
      /\ ~Ordered(t)
  BY ZenonT(30) DEF PollOrphan, AtTask, Peekable, Ordered
<1>3. \A v \in WorkerId \ {w} : off'[v] = off[v]
  BY <1>1, <1>2, PopLane, ZenonT(30)
<1>4. ScanAt(w)' /\ Alone(w)
  BY <1>1, <1>2, <1>3, ZenonT(30) DEF ScanAt, Alone, TypeOK, Pc, Ordered
<1>5. /\ lane' \in [Lane -> Seq(Task)] /\ off' \in [WorkerId -> Nat]
      /\ entry' \in [Task -> {"none", "in", "complete", "popped"}]
      /\ LaneInv' /\ FreshInv' /\ ScanInv' /\ StartInv'
      /\ \A u \in Task \ {t} : Holding(u)' <=> Holding(u)
  BY <1>2, <1>4, PopStep, ZenonT(30)
<1>6. TypeOK'
  BY <1>1, <1>2, <1>5, ZenonT(30) DEF TypeOK, Pc
<1>7. Holding(t)' <=> Holding(t)
  BY <1>2, ZenonT(30) DEF Holding, Ordered
<1> QED
  BY <1>1, <1>2, <1>5, <1>6, <1>7, ZenonT(30) DEF GroupMove, IndInv, Keeps

\* A completed task leaves its group (RemoveTaskGroup) and its lane (PopTask).
LEMMA CheckCompleteStep ==
  ASSUME IndInv, NEW w \in WorkerId, CheckComplete(w)
  PROVE  Keeps
<1>1. TypeOK /\ LaneInv /\ GroupExclusion /\ ScanAt(w) /\ StartInv
  BY SMTT(30) DEF IndInv, ScanInv
<1>2. /\ UNCHANGED <<flags, alloc, delcnt, phase, thread, seen, ent, iter, cur,
                     count, final, kill, client>>
      /\ pc[w] = "check" /\ pc' = [pc EXCEPT ![w] = "end"]
      /\ "module_complete" \in flags[cur[w]]
      /\ group' = RemoveTaskGroup(w, cur[w]) /\ PopTask(w, cur[w])
      /\ stack' = stack \/ FreeStack(cur[w])
  BY SMTT(30) DEF CheckComplete
<1>3. PICK t \in Task : t = cur[w]
  BY <1>1, <1>2, ZenonT(30) DEF ScanAt, Pc
<1>4. /\ iter[w] < MaxIter /\ off[w] < Len(lane[CurLane(w)]) /\ t = Peeked(w)
      /\ entry[t] = "in"
  BY <1>1, <1>2, <1>3, SMTT(30) DEF ScanAt, Pc
<1>5. Ordered(t) /\ ~Desc[t].remote => "started" \in flags[t]
  BY <1>1, <1>2, <1>3, SMTT(30) DEF StartInv, StartAt
<1>6. \A v \in WorkerId \ {w} : off'[v] = off[v]
  BY <1>1, <1>2, <1>3, <1>4, PopLane, ZenonT(30)
<1>7. ScanAt(w)' /\ Alone(w)
  BY <1>1, <1>2, <1>3, <1>4, <1>5, <1>6, Zenon DEF ScanAt, Alone, TypeOK, Pc, Ordered
<1>8. /\ lane' \in [Lane -> Seq(Task)] /\ off' \in [WorkerId -> Nat]
      /\ entry' \in [Task -> {"none", "in", "complete", "popped"}]
      /\ LaneInv' /\ FreshInv' /\ ScanInv' /\ StartInv'
      /\ Desc[t].lane = CurLane(w) /\ entry'[t] \in {"complete", "popped"}
      /\ \A u \in Task \ {t} : Holding(u)' <=> Holding(u)
  BY <1>2, <1>3, <1>4, <1>7, PopStep, ZenonT(30)
<1>9. ~Holding(t)'
  BY <1>8 DEF Holding
<1>10. GroupMove /\ group' \in [WorkerId -> [Key -> [root : Nat, depth : Nat]]]
  <2>1. CASE Ordered(t) /\ ~Desc[t].remote
    <3>1. Holding(t)
      BY <1>4, <1>5, <2>1, SMTT(30) DEF Holding
    <3>2. GroupMove
      BY <1>1, <1>2, <1>3, <1>8, <1>9, <3>1, ZenonT(30) DEF GroupMove, Leaves
    <3>3. group' \in [WorkerId -> [Key -> [root : Nat, depth : Nat]]]
      BY <1>1, <1>2, <1>3, GroupType, ZenonT(30)
    <3> QED
      BY <3>2, <3>3, SMTT(30)
  <2>2. CASE ~Ordered(t) \/ Desc[t].remote
    <3>1. group' = group
      BY <1>2, <1>3, <2>2, Zenon DEF RemoveTaskGroup
    <3>2. ~Holding(t)
      BY <2>2, SMTT(30) DEF Holding
    <3> QED
      BY <1>1, <1>8, <1>9, <3>1, <3>2, ZenonT(30) DEF GroupMove, TypeOK
  <2> QED
    BY <2>1, <2>2
<1>11. stack' \in [Task -> {"none", "live", "freed", "bad_free"}]
  <2>1. stack \in [Task -> {"none", "live", "freed", "bad_free"}]
    BY <1>1, Zenon DEF TypeOK
  <2>2. CASE FreeStack(cur[w])
    BY <2>1, <2>2, ZenonT(30) DEF FreeStack
  <2> QED
    BY <1>2, <2>1, <2>2, SMTT(30)
<1>12. TypeOK'
  BY <1>1, <1>2, <1>8, <1>10, <1>11, Zenon DEF TypeOK, Pc
<1> QED
  BY <1>8, <1>10, <1>12, SMTT(30) DEF IndInv, Keeps

-----------------------------------------------------------------------------
(* Handlers.                                                               *)

\* What Execute changes keeps its type.
LEMMA ExecuteType ==
  ASSUME TypeOK, NEW w \in WorkerId, NEW t \in Task, NEW next \in Pc, Execute(w, t, next),
         lane' \in [Lane -> Seq(Task)],
         entry' \in [Task -> {"none", "in", "complete", "popped"}],
         flags' \in [Task -> SUBSET Flag], alloc' \subseteq Task,
         delcnt' \in [Task -> Nat], phase' \in [Task -> {"start", "wait"}],
         stack' \in [Task -> {"none", "live", "freed", "bad_free"}],
         thread' \in [Task -> ThreadPc]
  PROVE  TypeOK'
<1>1. group' \in [WorkerId -> [Key -> [root : Nat, depth : Nat]]]
  BY GroupType, ZenonT(30) DEF Execute
<1> QED
  BY <1>1, ZenonT(30) DEF Execute, TypeOK

\* A handler that emplaces nothing and changes the flags of its own task only.
LEMMA PlainHandler ==
  ASSUME IndInv, NEW w \in WorkerId, NEW t \in Task, AtTask(w, t), Execute(w, t, "check"),
         UNCHANGED <<lane, entry, alloc, phase>>,
         flags' \in [Task -> SUBSET Flag],
         \A u \in Task \ {t} : flags'[u] = flags[u],
         Ordered(t) /\ ~Desc[t].remote => "started" \in flags'[t],
         delcnt' \in [Task -> Nat],
         stack' \in [Task -> {"none", "live", "freed", "bad_free"}],
         thread' \in [Task -> ThreadPc]
  PROVE  Keeps
<1>1. TypeOK /\ LaneInv /\ FreshInv
  BY SMTT(30) DEF IndInv
<1>2. TypeOK'
  <2>1. /\ lane' \in [Lane -> Seq(Task)] /\ alloc' \subseteq Task
        /\ entry' \in [Task -> {"none", "in", "complete", "popped"}]
        /\ phase' \in [Task -> {"start", "wait"}]
    BY <1>1, ZenonT(30) DEF TypeOK
  <2>2. "check" \in Pc
    BY ZenonT(30) DEF Pc
  <2> QED
    BY <1>1, <2>1, <2>2, ExecuteType, ZenonT(30)
<1>3. LaneInv' /\ \A l \in Lane : Kept(l)
  BY <1>1, SameLanes, Zenon
<1>4. FreshInv'
  BY <1>1, FreshKept, ZenonT(30) DEF Execute
<1>5. entry'[t] = "in" /\ \A u \in Task \ {t} : Steady(u)
  BY ZenonT(30) DEF AtTask, Steady
<1>6. ScanInv' /\ StartInv' /\ GroupMove
  BY <1>2, <1>3, <1>5, ExecuteStep, ZenonT(30)
<1> QED
  BY <1>2, <1>3, <1>4, <1>6, Zenon DEF IndInv, Keeps

\* The handler of an unordered task that completes at once, or of a scheduler task.
LEMMA RunOneshotStep ==
  ASSUME IndInv, NEW w \in WorkerId, NEW t \in Task, AtTask(w, t),
         RunOneshot(w, t) \/ RunResident(w, t)
  PROVE  Keeps
<1>1. TypeOK
  BY SMTT(30) DEF IndInv
<1>2. /\ UNCHANGED <<lane, entry, alloc, delcnt, phase, stack, thread>>
      /\ Execute(w, t, "check") /\ ~Ordered(t)
  BY Zenon DEF RunOneshot, RunResident, Local, Ordered
<1>3. PICK S \in SUBSET Flag : SetFlags(t, S)
  BY SMTT(30) DEF RunOneshot, RunResident, Flag
<1>4. /\ flags' \in [Task -> SUBSET Flag]
      /\ \A u \in Task \ {t} : flags'[u] = flags[u]
  BY <1>1, <1>3, SetFlagsType, SMTT(30)
<1>5. /\ delcnt' \in [Task -> Nat] /\ thread' \in [Task -> ThreadPc]
      /\ stack' \in [Task -> {"none", "live", "freed", "bad_free"}]
  BY <1>1, <1>2, ZenonT(30) DEF TypeOK
<1> QED
  BY <1>2, <1>4, <1>5, PlainHandler, Zenon

\* proc_queue Push is entered again and looks whether its subtask is complete.
LEMMA PushWaitStep ==
  ASSUME IndInv, NEW w \in WorkerId, NEW t \in Task, AtTask(w, t), PushWait(w, t)
  PROVE  Keeps
<1>1. TypeOK
  BY DEF IndInv
<1>2. /\ UNCHANGED <<lane, entry, alloc, delcnt, phase, stack, thread>>
      /\ Execute(w, t, "check")
  BY ZenonT(30) DEF PushWait
<1>3. PICK S \in SUBSET Flag : SetFlags(t, S) /\ "started" \in S
  BY SMTT(30) DEF PushWait, Flag
<1>4. /\ flags' \in [Task -> SUBSET Flag] /\ "started" \in flags'[t]
      /\ \A u \in Task \ {t} : flags'[u] = flags[u]
  BY <1>1, <1>3, SetFlagsType, SMTT(30)
<1>5. /\ delcnt' \in [Task -> Nat] /\ thread' \in [Task -> ThreadPc]
      /\ stack' \in [Task -> {"none", "live", "freed", "bad_free"}]
  BY <1>1, <1>2, ZenonT(30) DEF TypeOK
<1> QED
  BY <1>2, <1>4, <1>5, PlainHandler, ZenonT(30)

\* CreateTaskState completes without asking for an id.
LEMMA CreateKnownStep ==
  ASSUME IndInv, NEW w \in WorkerId, NEW t \in Task, AtTask(w, t), CreateKnown(w, t)
  PROVE  Keeps
<1>1. TypeOK
  BY DEF IndInv
<1>2. /\ UNCHANGED <<lane, entry, alloc, delcnt, phase, thread>>
      /\ Execute(w, t, "check") /\ stack' = [stack EXCEPT ![t] = "live"]
      /\ SetFlags(t, {"started", "module_complete"})
  BY SMTT(30) DEF CreateKnown
<1>3. /\ flags' \in [Task -> SUBSET Flag] /\ "started" \in flags'[t]
      /\ \A u \in Task \ {t} : flags'[u] = flags[u]
  BY <1>1, <1>2, SetFlagsType DEF Flag
<1>4. /\ delcnt' \in [Task -> Nat] /\ thread' \in [Task -> ThreadPc]
      /\ stack' \in [Task -> {"none", "live", "freed", "bad_free"}]
  BY <1>1, <1>2, Zenon DEF TypeOK
<1> QED
  BY <1>2, <1>3, <1>4, PlainHandler, ZenonT(30)

\* Deleting tasks counts up.
LEMMA DelTaskType ==
  ASSUME TypeOK, NEW S, DelTask(S)
  PROVE  delcnt' \in [Task -> Nat]
BY DEF DelTask, TypeOK

\* The coroutine of CreateTaskState is resumed.
LEMMA CreateResumeStep ==
  ASSUME IndInv, NEW w \in WorkerId, NEW t \in Task, AtTask(w, t), CreateResume(w, t)
  PROVE  Keeps
<1>1. TypeOK /\ StartAt(t)
  BY DEF IndInv, StartInv
<1>2. /\ UNCHANGED <<lane, entry, alloc, phase, stack, thread>>
      /\ Execute(w, t, "check") /\ phase[t] = "wait"
      /\ flags' = flags \/ SetFlags(t, {"module_complete"})
  BY Zenon DEF CreateResume, DelSub
<1>3. Ordered(t) /\ ~Desc[t].remote => "started" \in flags[t]
  BY <1>1, <1>2, SMTT(30) DEF StartAt
<1>4. /\ flags' \in [Task -> SUBSET Flag] /\ flags[t] \subseteq flags'[t]
      /\ \A u \in Task \ {t} : flags'[u] = flags[u]
  <2>1. CASE flags' = flags
    BY <1>1, <2>1, ZenonT(30) DEF TypeOK
  <2>2. CASE SetFlags(t, {"module_complete"})
    BY <1>1, <2>2, SetFlagsType, Zenon DEF Flag
  <2> QED
    BY <1>2, <2>1, <2>2, SMTT(30)
<1>5. delcnt' \in [Task -> Nat]
  <2>1. delcnt' = delcnt \/ DelTask({Desc[t].sub})
    BY ZenonT(30) DEF CreateResume, DelSub
  <2> QED
    BY <1>1, <2>1, DelTaskType, ZenonT(30) DEF TypeOK
<1>6. /\ thread' \in [Task -> ThreadPc]
      /\ stack' \in [Task -> {"none", "live", "freed", "bad_free"}]
  BY <1>1, <1>2, ZenonT(30) DEF TypeOK
<1> QED
  BY <1>2, <1>3, <1>4, <1>5, <1>6, PlainHandler, Zenon

\* A remote_queue PushTask is handed to an Argobots thread.
LEMMA RunPreemptiveStep ==
  ASSUME IndInv, NEW w \in WorkerId, NEW t \in Task, AtTask(w, t), RunPreemptive(w, t)
  PROVE  Keeps
<1>1. TypeOK
  BY DEF IndInv
<1>2. /\ UNCHANGED <<lane, entry, alloc, delcnt, phase, stack>>
      /\ Execute(w, t, "check") /\ thread' = [thread EXCEPT ![t] = "rpc"]
      /\ SetFlags(t, {"disable_run"}) /\ ~Ordered(t)
  BY ZenonT(30) DEF RunPreemptive, Local, Ordered
<1>3. /\ flags' \in [Task -> SUBSET Flag]
      /\ \A u \in Task \ {t} : flags'[u] = flags[u]
  BY <1>1, <1>2, SetFlagsType, Zenon DEF Flag
<1>4. /\ delcnt' \in [Task -> Nat] /\ thread' \in [Task -> ThreadPc]
      /\ stack' \in [Task -> {"none", "live", "freed", "bad_free"}]
  BY <1>1, <1>2, ZenonT(30) DEF TypeOK, ThreadPc
<1> QED
  BY <1>2, <1>3, <1>4, PlainHandler, ZenonT(30)

\* A handler that emplaces task s, which was never in a lane.
LEMMA EmplacingHandler ==
  ASSUME IndInv, NEW w \in WorkerId, NEW t \in Task, NEW s \in Task, NEW next \in Pc,
         AtTask(w, t), Execute(w, t, next),
         next \in {"check", "pushed"} \/ (next = "disable_read" /\ Desc[t].remote),
         entry[s] = "none", Emplace(s), FreshInv',
         flags' \in [Task -> SUBSET Flag], alloc' \subseteq Task,
         delcnt' \in [Task -> Nat], phase' \in [Task -> {"start", "wait"}],
         stack' \in [Task -> {"none", "live", "freed", "bad_free"}],
         thread' \in [Task -> ThreadPc],
         Ordered(t) /\ ~Desc[t].remote => "started" \in flags'[t],
         \A u \in Task \ {t} : /\ phase'[u] = phase[u]
                               /\ "started" \in flags'[u] <=> "started" \in flags[u]
                               /\ "module_complete" \in flags'[u] => "module_complete" \in flags[u]
  PROVE  Keeps
<1>1. TypeOK /\ LaneInv /\ entry[t] = "in"
  BY ZenonT(30) DEF IndInv, AtTask
<1>2. /\ lane' \in [Lane -> Seq(Task)] /\ entry' = [entry EXCEPT ![s] = "in"]
      /\ LaneInv' /\ \A l \in Lane : Kept(l)
  BY <1>1, EmplaceLane, ZenonT(30)
<1>3. entry' \in [Task -> {"none", "in", "complete", "popped"}]
  BY <1>1, <1>2, ZenonT(30) DEF TypeOK
<1>4. TypeOK'
  BY <1>1, <1>2, <1>3, ExecuteType, ZenonT(30)
<1>5. entry'[t] = "in" /\ \A u \in Task \ {t} : Steady(u)
  BY <1>1, <1>2, ZenonT(30) DEF Steady, TypeOK
<1>6. ScanInv' /\ StartInv' /\ GroupMove
  BY <1>2, <1>4, <1>5, ExecuteStep, ZenonT(30)
<1> QED
  BY <1>2, <1>4, <1>6, ZenonT(30) DEF IndInv, Keeps

\* Emplacing the subtask of a task that now waits for it.
LEMMA FreshSub ==
  ASSUME IndInv, NEW t \in Task, HasSub(t), Emplace(Desc[t].sub), client' = client,
         phase[t] = "start", phase' = [phase EXCEPT ![t] = "wait"], alloc \subseteq alloc'
  PROVE  /\ Desc[t].sub \in Task /\ entry[Desc[t].sub] = "none" /\ FreshInv'
         /\ phase' \in [Task -> {"start", "wait"}]
<1>1. TypeOK /\ FreshInv
  BY SMTT(30) DEF IndInv
<1>2. /\ Desc[t].sub \in Task /\ Desc[t].sub \notin RootTask
      /\ Desc[t].sub \notin ThreadTask
      /\ \A u \in Task : Desc[u].sub = Desc[t].sub => u = t
  BY SubFacts, Zenon
<1>3. entry[Desc[t].sub] = "none"
  BY <1>1, SMTT(30) DEF FreshInv
<1>4. /\ entry' = [entry EXCEPT ![Desc[t].sub] = "in"]
      /\ entry \in [Task -> {"none", "in", "complete", "popped"}]
      /\ phase \in [Task -> {"start", "wait"}]
  BY <1>1, ZenonT(30) DEF Emplace, TypeOK
<1>5. \A u \in Task : HasSub(u) => Desc[u].sub \in Task
  BY DescType, Zenon
<1>6. /\ \A u \in RootTask : u \in Task /\ entry'[u] = entry[u]
      /\ \A u \in ThreadTask : u \in Task /\ entry'[u] = entry[u]
      /\ \A u \in Task : HasSub(u) /\ u # t => /\ entry'[Desc[u].sub] = entry[Desc[u].sub]
                                              /\ phase'[u] = phase[u]
      /\ phase'[t] = "wait"
  BY <1>2, <1>4, <1>5, Zenon DEF RootTask, ThreadTask
<1>7. FreshInv'
  BY <1>1, <1>6, SMTT(30) DEF FreshInv, HasSub, RootTask, ThreadTask, Subtasks
<1> QED
  BY <1>2, <1>3, <1>4, <1>7, Zenon

\* proc_queue Push emplaces its subtask.
LEMMA PushScheduleStep ==
  ASSUME IndInv, NEW w \in WorkerId, NEW t \in Task, AtTask(w, t), PushSchedule(w, t)
  PROVE  Keeps
<1> DEFINE s == Desc[t].sub
<1>1. TypeOK
  BY DEF IndInv
<1>2. /\ UNCHANGED <<alloc, delcnt, stack, thread>>
      /\ Execute(w, t, "pushed") /\ Emplace(s) /\ phase[t] = "start"
      /\ phase' = [phase EXCEPT ![t] = "wait"]
      /\ flags' = [flags EXCEPT ![t] = @ \cup {"started"}, ![s] = @ \ {"faf"}]
  BY ZenonT(30) DEF PushSchedule, UnsetFireAndForget
<1>3. HasSub(t)
  BY TaskAssumption, ZenonT(30) DEF PushSchedule, UnsetFireAndForget, Local
<1>4. client' = client
  BY <1>2, Zenon DEF Execute
<1>5. s \in Task /\ entry[s] = "none" /\ FreshInv' /\ phase' \in [Task -> {"start", "wait"}]
  BY <1>2, <1>3, <1>4, FreshSub, ZenonT(30)
<1>6. flags \in [Task -> SUBSET Flag] /\ phase \in [Task -> {"start", "wait"}]
  BY <1>1, Zenon DEF TypeOK
<1>7. s # t
  BY <1>5, SMTT(30) DEF AtTask
<1>8. flags' \in [Task -> SUBSET Flag]
  <2>1. flags[t] \cup {"started"} \in SUBSET Flag /\ flags[s] \ {"faf"} \in SUBSET Flag
    BY <1>5, <1>6, ZenonT(30) DEF Flag
  <2> QED
    BY <1>2, <1>5, <1>6, <1>7, <2>1, ZenonT(30)
<1>9. /\ flags'[t] = flags[t] \cup {"started"} /\ flags'[s] = flags[s] \ {"faf"}
      /\ \A u \in Task \ {t, s} : flags'[u] = flags[u]
      /\ \A u \in Task \ {t} : phase'[u] = phase[u]
  BY <1>2, <1>5, <1>6, <1>7, ZenonT(30)
<1>10. \A u \in Task \ {t} : /\ phase'[u] = phase[u]
                             /\ "started" \in flags'[u] <=> "started" \in flags[u]
                             /\ "module_complete" \in flags'[u] => "module_complete" \in flags[u]
  BY <1>9, Zenon
<1>11. /\ alloc' \subseteq Task /\ delcnt' \in [Task -> Nat] /\ thread' \in [Task -> ThreadPc]
       /\ stack' \in [Task -> {"none", "live", "freed", "bad_free"}] /\ "pushed" \in Pc
  BY <1>1, <1>2, ZenonT(30) DEF TypeOK, Pc
<1> QED
  BY <1>2, <1>5, <1>8, <1>9, <1>10, <1>11, EmplacingHandler, ZenonT(30)

\* CreateTaskState creates and emplaces the task that asks for an id.
LEMMA CreateAskIdStep ==
  ASSUME IndInv, NEW w \in WorkerId, NEW t \in Task, AtTask(w, t), CreateAskId(w, t)
  PROVE  Keeps
<1> DEFINE s == Desc[t].sub
<1>1. TypeOK
  BY DEF IndInv
<1>2. /\ UNCHANGED <<delcnt, thread>> /\ alloc' = alloc \cup {s}
      /\ Execute(w, t, "check") /\ Emplace(s) /\ phase[t] = "start"
      /\ phase' = [phase EXCEPT ![t] = "wait"] /\ stack' = [stack EXCEPT ![t] = "live"]
      /\ SetFlags(t, {"started"})
  BY Zenon DEF CreateAskId
<1>3. HasSub(t)
  BY TaskAssumption, ZenonT(30) DEF CreateAskId, Local
<1>4. client' = client
  BY <1>2, ZenonT(30) DEF Execute
<1>5. s \in Task /\ entry[s] = "none" /\ FreshInv' /\ phase' \in [Task -> {"start", "wait"}]
  BY <1>2, <1>3, <1>4, FreshSub, ZenonT(30)
<1>6. /\ flags' \in [Task -> SUBSET Flag] /\ flags'[t] = flags[t] \cup {"started"}
      /\ \A u \in Task \ {t} : flags'[u] = flags[u]
  BY <1>1, <1>2, SetFlagsType, ZenonT(30) DEF Flag
<1>7. \A u \in Task \ {t} : /\ phase'[u] = phase[u]
                            /\ "started" \in flags'[u] <=> "started" \in flags[u]
                            /\ "module_complete" \in flags'[u] => "module_complete" \in flags[u]
  BY <1>1, <1>2, <1>6, ZenonT(30) DEF TypeOK
<1>8. /\ alloc' \subseteq Task /\ delcnt' \in [Task -> Nat] /\ thread' \in [Task -> ThreadPc]
      /\ stack' \in [Task -> {"none", "live", "freed", "bad_free"}] /\ "check" \in Pc
  BY <1>1, <1>2, <1>5, ZenonT(30) DEF TypeOK, Pc
<1> QED
  BY <1>2, <1>5, <1>6, <1>7, <1>8, EmplacingHandler, ZenonT(30)

\* Disperse creates and emplaces a PushTask.
LEMMA DisperseStep ==
  ASSUME IndInv, NEW w \in WorkerId, NEW t \in Task, AtTask(w, t), Disperse(w, t)
  PROVE  Keeps
<1>1. TypeOK /\ FreshInv
  BY SMTT(30) DEF IndInv
<1>2. /\ UNCHANGED <<flags, delcnt, phase, stack, thread>> /\ Desc[t].remote
      /\ Execute(w, t, "disable_read") /\ client' = client
  BY ZenonT(30) DEF Disperse, Execute
<1>3. PICK s \in ThreadTask : s \notin alloc /\ Emplace(s) /\ alloc' = alloc \cup {s}
  BY Zenon DEF Disperse
<1>4. /\ s \in Task /\ entry[s] = "none" /\ s \notin RootTask
      /\ \A u \in Task : HasSub(u) => Desc[u].sub \in Task /\ Desc[u].sub # s
  BY <1>1, <1>3, SubFacts, ZenonT(30) DEF ThreadTask, FreshInv, RootTask
<1>5. \A u \in Task \ {s} : entry'[u] = entry[u]
  BY <1>1, <1>3, ZenonT(30) DEF Emplace, TypeOK
<1>6. FreshInv'
  <2>1. /\ \A u \in RootTask : u \in Task \ {s}
        /\ \A u \in ThreadTask \ alloc' : u \in Task \ {s} /\ u \notin alloc
    BY <1>3, <1>4, ZenonT(30) DEF RootTask, ThreadTask
  <2> QED
    BY <1>1, <1>2, <1>4, <1>5, <2>1, ZenonT(30) DEF FreshInv, HasSub, RootTask, ThreadTask, Subtasks
<1>7. /\ flags' \in [Task -> SUBSET Flag] /\ alloc' \subseteq Task
      /\ delcnt' \in [Task -> Nat] /\ phase' \in [Task -> {"start", "wait"}]
      /\ thread' \in [Task -> ThreadPc]
      /\ stack' \in [Task -> {"none", "live", "freed", "bad_free"}] /\ "disable_read" \in Pc
  BY <1>1, <1>2, <1>3, <1>4, ZenonT(30) DEF TypeOK, Pc
<1> QED
  BY <1>2, <1>3, <1>4, <1>6, <1>7, EmplacingHandler, ZenonT(30)

\* A client emplaces a task.
LEMMA ClientEmplaceStep ==
  ASSUME IndInv, NEW t \in RootTask, ClientEmplace(t)
  PROVE  Keeps
<1>1. TypeOK /\ FreshInv /\ LaneInv /\ t \in Task
  BY DEF IndInv, RootTask
<1>2. /\ UNCHANGED <<flags, alloc, delcnt, phase, stack, thread, seen, group, scanVars, kill>>
      /\ client[t] = "emplacing" /\ Emplace(t)
      /\ client' = [client EXCEPT ![t] = IF Desc[t].faf THEN "done" ELSE "waiting"]
  BY Zenon DEF ClientEmplace
<1>3. entry[t] = "none"
  BY <1>1, <1>2, Zenon DEF FreshInv
<1>4. /\ lane' \in [Lane -> Seq(Task)] /\ entry' = [entry EXCEPT ![t] = "in"]
      /\ LaneInv' /\ \A l \in Lane : Kept(l)
  BY <1>1, <1>2, <1>3, EmplaceLane, SMTT(30)
<1>5. /\ entry' \in [Task -> {"none", "in", "complete", "popped"}]
      /\ \A u \in Task \ {t} : entry'[u] = entry[u]
      /\ \A u \in RootTask \ {t} : client'[u] = client[u]
      /\ client' \in [RootTask -> {"idle", "emplacing", "waiting", "done"}]
      /\ client'[t] \notin {"idle", "emplacing"}
  BY <1>1, <1>2, <1>4, ZenonT(30) DEF TypeOK
<1>6. TypeOK'
  BY <1>1, <1>2, <1>4, <1>5, ZenonT(30) DEF TypeOK, scanVars
<1>7. FreshInv'
  <2>1. /\ \A u \in Task : HasSub(u) => Desc[u].sub \in Task \ {t}
        /\ \A u \in ThreadTask : u \in Task \ {t}
        /\ \A u \in RootTask : u \in Task
    BY SubFacts, ZenonT(30) DEF RootTask, ThreadTask
  <2> QED
    BY <1>1, <1>2, <1>5, <2>1, ZenonT(30) DEF FreshInv, HasSub, RootTask, ThreadTask, Subtasks
<1>8. \A u \in Task : Steady(u)
  BY <1>2, <1>3, <1>4, <1>5, Zenon DEF Steady
<1>9. ScanInv'
  <2> SUFFICES ASSUME NEW v \in WorkerId PROVE ScanAt(v)'
    BY DEF ScanInv
  <2>1. Kept(CurLane(v))
    BY <1>1, <1>4, CurLaneType
  <2> QED
    BY <1>2, <2>1, ScanOther, Zenon DEF scanVars
<1> QED
  BY <1>2, <1>4, <1>6, <1>7, <1>8, <1>9, SteadyStep, Zenon DEF IndInv, Keeps

-----------------------------------------------------------------------------
(* The order within a lane.                                                *)

\* Ordered tasks of this node that share a key of group_map_ have different roots.
OnePerRoot ==
  \A w \in WorkerId : \A t, u \in Task :
    /\ Ordered(t) /\ ~Desc[t].remote /\ Ordered(u) /\ ~Desc[u].remote
    /\ Polls(w, Desc[t].lane) /\ Polls(w, Desc[u].lane)
    /\ LaneId[Desc[t].lane] = LaneId[Desc[u].lane] /\ Desc[t].root = Desc[u].root
    => t = u

\* No task waits in a lane in front of one that holds its group.
HeldFirst ==
  \A l \in Lane : \A i, j \in DOMAIN lane[l] :
    i < j /\ Holding(lane[l][j]) => ~Waiting(lane[l][i])

\* A scan passes over a waiting task only while the group is held.
PassedAt(w) ==
  /\ pc[w] \notin {"entry", "exited"} =>
       /\ off[w] <= Len(lane[CurLane(w)])
       /\ \A i \in 1..off[w] :
            Waiting(lane[CurLane(w)][i]) => group[w][GroupKey(w)].depth # 0
  /\ pc[w] = "check" /\ Waiting(cur[w]) => group[w][GroupKey(w)].depth # 0

\* Only remote tasks and PushTasks of the remote queue have their runs disabled.
OrderedRuns ==
  \A t \in Task : Ordered(t) /\ ~Desc[t].remote => "disable_run" \notin flags[t]

\* What makes GroupFifo inductive, together with IndInv: no ordered task waits in
\* front of one that holds its group, and a scan passes over a waiting task only
\* while the group is held.
FifoInv == HeldFirst /\ OrderedRuns /\ \A w \in WorkerId : PassedAt(w)

\* A group of group_map_ whose depth is not 0 has a holder.
GroupsHeld ==
  \A w \in WorkerId, k \in Key : group[w][k].depth # 0 => Holders(w, k) # {}

\* A step that pops nothing: lanes only grow, by tasks that are new.
Calm ==
  /\ \A l \in Lane : /\ Kept(l)
                     /\ \A j \in DOMAIN lane'[l] :
                          j \in DOMAIN lane[l] \/ entry[lane'[l][j]] = "none"
  /\ \A u \in Task : Ordered(u) /\ ~Desc[u].remote =>
       /\ "started" \in flags[u] => "started" \in flags'[u]
       /\ "disable_run" \in flags'[u] => "disable_run" \in flags[u]
       /\ entry'[u] = entry[u] \/ entry[u] = "none"

\* How a worker moves in such a step: it stays, leaves or begins a scan, is done
\* with the task it looks at, or goes on to the next.
Advance(v) ==
  \/ pc'[v] = pc[v] /\ ent'[v] = ent[v] /\ off'[v] = off[v] /\ cur'[v] = cur[v]
  \/ pc'[v] \in {"entry", "exited"}
  \/ pc'[v] = "poll" /\ off'[v] = 0
  \/ /\ pc[v] \notin {"entry", "exited"} /\ ent'[v] = ent[v] /\ off'[v] = off[v]
     /\ pc'[v] = "check" /\ Waiting(cur[v])' => group[v][GroupKey(v)].depth # 0
  \/ pc[v] = "check" /\ pc'[v] = "poll" /\ ent'[v] = ent[v] /\ off'[v] = off[v] + 1

\* Worker w takes the task it looks at out of its lane, or passes over it.
Pops(w) ==
  /\ pc[w] \in {"poll", "check"} /\ off[w] < Len(lane[CurLane(w)])
  /\ PopTask(w, Peeked(w))
  /\ flags' = flags /\ ent' = ent /\ pc'[w] \in {"poll", "end"}
  /\ \A v \in WorkerId \ {w} : pc'[v] = pc[v] /\ cur'[v] = cur[v]

\* The slots of a lane hold tasks that were emplaced and not popped.
LEMMA Slots ==
  ASSUME TypeOK, LaneInv, NEW l \in Lane
  PROVE  /\ Len(lane[l]) \in Nat /\ DOMAIN lane[l] = 1..Len(lane[l])
         /\ \A i \in DOMAIN lane[l] : /\ lane[l][i] \in Task
                                      /\ entry[lane[l][i]] \in {"in", "complete"}
<1>1. lane[l] \in Seq(Task)
  BY Zenon DEF TypeOK
<1>2. \A i \in DOMAIN lane[l] : entry[lane[l][i]] \in {"in", "complete"}
  BY Zenon DEF LaneInv
<1> QED
  BY <1>1, <1>2

\* The slot a worker looks at.
LEMMA PeekedSlot ==
  ASSUME TypeOK, LaneInv, NEW w \in WorkerId, off[w] < Len(lane[CurLane(w)])
  PROVE  /\ CurLane(w) \in Lane /\ off[w] \in Nat /\ off[w] + 1 \in DOMAIN lane[CurLane(w)]
         /\ Peeked(w) = lane[CurLane(w)][off[w] + 1] /\ Peeked(w) \in Task
         /\ Desc[Peeked(w)].lane = CurLane(w)
<1>1. CurLane(w) \in Lane /\ off[w] \in Nat
  BY CurLaneType, Zenon DEF TypeOK
<1>2. Len(lane[CurLane(w)]) \in Nat /\ DOMAIN lane[CurLane(w)] = 1..Len(lane[CurLane(w)])
  BY <1>1, Slots, Zenon
<1>3. off[w] + 1 \in DOMAIN lane[CurLane(w)]
  BY <1>1, <1>2
<1> QED
  BY <1>1, <1>3, Slots, Zenon DEF Peeked, LaneInv

\* A task that joins a group finds it free.
LEMMA JoinsFree ==
  ASSUME OnePerRoot, IndInv, GroupsHeld, NEW w \in WorkerId, NEW t \in Task, Joins(w, t)
  PROVE  group[w][GroupKey(w)].depth = 0
<1>1. TypeOK /\ GroupExclusion
  BY Zenon DEF IndInv
<1>2. CurLane(w) \in Lane /\ Polls(w, CurLane(w)) /\ GroupKey(w) \in Key
  BY <1>1, CurLaneType, Zenon
<1>3. /\ Desc[t].lane = CurLane(w) /\ Ordered(t) /\ ~Desc[t].remote /\ ~Holding(t)
      /\ group[w][GroupKey(w)].depth = 0 \/ group[w][GroupKey(w)].root = Desc[t].root
  BY Zenon DEF Joins, Ungrouped, CheckTaskGroup
<1>4. ASSUME group[w][GroupKey(w)].depth # 0 PROVE FALSE
  <2>1. Holders(w, GroupKey(w)) # {}
    BY <1>2, <1>4, Zenon DEF GroupsHeld
  <2>2. PICK h \in Holders(w, GroupKey(w)) : TRUE
    BY <2>1, Zenon
  <2>3. /\ h \in Task /\ Holding(h) /\ Polls(w, Desc[h].lane)
        /\ LaneId[Desc[h].lane] = LaneId[CurLane(w)]
    BY <2>2, Zenon DEF Holders, GroupKey
  <2>4. Desc[h].root = Desc[t].root
    BY <1>1, <1>2, <1>3, <1>4, <2>2, Zenon DEF GroupExclusion
  <2>5. Ordered(h) /\ ~Desc[h].remote
    BY <2>3, Zenon DEF Holding
  <2>6. h = t
    BY <1>2, <1>3, <2>3, <2>4, <2>5, Zenon DEF OnePerRoot
  <2> QED
    BY <1>3, <2>3, <2>6, Zenon
<1> QED
  BY <1>4, Zenon

\* In a step that pops nothing, a task of a lane that waits has waited before, and
\* no task leaves a group.
LEMMA CalmTasks ==
  ASSUME IndInv, Calm
  PROVE  /\ \A u \in Task : entry[u] # "none" /\ Waiting(u)' => Waiting(u)
         /\ \A u \in Task : Holding(u) => Holding(u)'
         /\ OrderedRuns => OrderedRuns'
<1>1. ASSUME NEW u \in Task, Ordered(u), ~Desc[u].remote
      PROVE  /\ "started" \in flags[u] => "started" \in flags'[u]
             /\ "disable_run" \in flags'[u] => "disable_run" \in flags[u]
             /\ entry'[u] = entry[u] \/ entry[u] = "none"
  BY <1>1, Zenon DEF Calm
<1>2. ASSUME NEW u \in Task, entry[u] # "none", Waiting(u)' PROVE Waiting(u)
  <2>1. Ordered(u) /\ ~Desc[u].remote /\ entry'[u] = "in" /\ "started" \notin flags'[u]
    BY <1>2, Zenon DEF Waiting, Ordered
  <2> QED
    BY <1>1, <1>2, <2>1, Zenon DEF Waiting
<1>3. ASSUME NEW u \in Task, Holding(u) PROVE Holding(u)'
  <2>1. Ordered(u) /\ ~Desc[u].remote /\ entry[u] = "in" /\ "started" \in flags[u]
    BY <1>3, Zenon DEF Holding
  <2>2. entry'[u] = "in" /\ "started" \in flags'[u]
    BY <1>1, <2>1, Zenon
  <2> QED
    BY <2>1, <2>2, Zenon DEF Holding, Ordered
<1>4. ASSUME OrderedRuns PROVE OrderedRuns'
  BY <1>1, <1>4, Zenon DEF OrderedRuns, Ordered
<1> QED
  BY <1>2, <1>3, <1>4, Zenon

\* A step that pops nothing puts no task that waits in front of a holder: a task
\* joins a group that is free, and the scan has then passed over none that waits.
LEMMA CalmLanes ==
  ASSUME OnePerRoot, IndInv, GroupsHeld, TypeOK', LaneInv', FifoInv, GroupMove, Calm
  PROVE  HeldFirst'
<1> SUFFICES ASSUME NEW l \in Lane, NEW i \in DOMAIN lane'[l], NEW j \in DOMAIN lane'[l],
                    i < j, Holding(lane[l][j])', Waiting(lane[l][i])'
             PROVE  FALSE
  BY Zenon DEF HeldFirst
<1>1. TypeOK /\ LaneInv
  BY Zenon DEF IndInv
<1>2. /\ Len(lane[l]) \in Nat /\ DOMAIN lane[l] = 1..Len(lane[l])
      /\ \A k \in DOMAIN lane[l] : lane[l][k] \in Task /\ entry[lane[l][k]] # "none"
  BY <1>1, Slots, Zenon
<1>3. /\ Len(lane'[l]) \in Nat /\ DOMAIN lane'[l] = 1..Len(lane'[l])
      /\ lane'[l][i] \in Task /\ lane'[l][j] \in Task
  <2>1. lane'[l] \in Seq(Task)
    BY Zenon DEF TypeOK
  <2> QED
    BY <2>1
<1>4. Kept(l) /\ (j \in DOMAIN lane[l] \/ entry[lane'[l][j]] = "none")
  BY Zenon DEF Calm
<1>5. ASSUME j \in DOMAIN lane[l]
      PROVE  /\ i \in DOMAIN lane[l] /\ lane'[l][i] = lane[l][i] /\ lane'[l][j] = lane[l][j]
             /\ Waiting(lane[l][i])
  <2>1. i \in DOMAIN lane[l]
    BY <1>2, <1>3, <1>5
  <2>2. lane'[l][i] = lane[l][i] /\ lane'[l][j] = lane[l][j]
    BY <1>4, <1>5, <2>1, Zenon DEF Kept
  <2>3. \A u \in Task : entry[u] # "none" /\ Waiting(u)' => Waiting(u)
    BY CalmTasks, Zenon
  <2>4. PICK x \in Task : x = lane[l][i]
    BY <1>2, <2>1, Zenon
  <2>5. Waiting(x)'
    BY <2>2, <2>4, Zenon
  <2> QED
    BY <1>2, <2>1, <2>2, <2>3, <2>4, <2>5, Zenon
<1>6. PICK h \in Task : h = lane'[l][j]
  BY <1>3, Zenon
<1>7. Holding(h)'
  BY <1>6, Zenon
<1>8. CASE Holding(h)
  <2>1. j \in DOMAIN lane[l]
    BY <1>4, <1>6, <1>8, Zenon DEF Holding
  <2> QED
    BY <1>5, <1>6, <1>8, <2>1, Zenon DEF FifoInv, HeldFirst
<1>9. CASE ~Holding(h)
  <2>1. PICK w \in WorkerId : Joins(w, h)
    BY <1>7, <1>9, Zenon DEF GroupMove, Joins, Leaves
  <2>2. /\ h = Peeked(w) /\ entry[h] = "in" /\ off[w] < Len(lane[CurLane(w)])
        /\ pc[w] = "poll"
    BY <2>1, Zenon DEF Joins, AtTask, Peekable
  <2>3. /\ CurLane(w) \in Lane /\ off[w] \in Nat /\ off[w] + 1 \in DOMAIN lane[CurLane(w)]
        /\ h = lane[CurLane(w)][off[w] + 1] /\ Desc[h].lane = CurLane(w)
    BY <1>1, <2>2, PeekedSlot, Zenon
  <2>4. entry[h] # "none"
    BY <2>2
  <2>5. j \in DOMAIN lane[l]
    BY <1>4, <1>6, <2>4, Zenon
  <2>6. lane[l][j] = h /\ Desc[h].lane = l
    BY <1>1, <1>5, <1>6, <2>5, Zenon DEF LaneInv
  <2>7. l = CurLane(w) /\ j = off[w] + 1
    <3>1. l = CurLane(w)
      BY <2>3, <2>6, Zenon
    <3>2. off[w] + 1 \in DOMAIN lane[l] /\ lane[l][off[w] + 1] = lane[l][j]
      BY <2>3, <2>6, <3>1, Zenon
    <3> QED
      BY <1>1, <2>5, <3>1, <3>2, Zenon DEF LaneInv
  <2>8. i \in 1..off[w]
    BY <1>2, <1>5, <2>3, <2>5, <2>7
  <2>9. group[w][GroupKey(w)].depth = 0
    BY <2>1, JoinsFree, Zenon
  <2>10. Waiting(lane[CurLane(w)][i])
    BY <1>5, <2>5, <2>7, Zenon
  <2>11. PassedAt(w) /\ pc[w] \notin {"entry", "exited"}
    BY <2>2, Zenon DEF FifoInv
  <2> QED
    BY <2>8, <2>9, <2>10, <2>11, Zenon DEF PassedAt
<1> QED
  BY <1>8, <1>9, Zenon

\* The group of the lane a worker polls stays held in a step in which nobody leaves
\* it.
LEMMA DepthKept ==
  ASSUME TypeOK, GroupMove, NEW v \in WorkerId, ent'[v] = ent[v],
         \A u \in Task : ~Leaves(v, u),
         group[v][GroupKey(v)].depth # 0
  PROVE  group'[v][GroupKey(v)].depth # 0 /\ GroupKey(v)' = GroupKey(v)
<1> DEFINE g == GroupKey(v)
<1>1. g \in Key /\ GroupKey(v)' = GroupKey(v)
  BY CurLaneType, Zenon DEF GroupKey, CurLane
<1>2. group \in [WorkerId -> [Key -> [root : Nat, depth : Nat]]]
  BY Zenon DEF TypeOK
<1>3. CASE group' = group
  BY <1>1, <1>3, Zenon
<1>4. ASSUME NEW w \in WorkerId, NEW t \in Task, Joins(w, t)
      PROVE  group'[v][g].depth # 0
  <2>1. group' = [group EXCEPT ![w][GroupKey(w)] =
                    [root |-> Desc[t].root, depth |-> group[w][GroupKey(w)].depth + 1]]
    BY <1>4, Zenon DEF Joins, JoinedGroup
  <2>2. GroupKey(w) \in Key
    BY CurLaneType, Zenon
  <2>3. group[w][GroupKey(w)].depth \in Nat
    BY <1>2, <2>2
  <2>4. CASE v = w
    <3>1. group'[v][g].depth = group[w][GroupKey(w)].depth + 1
      BY <1>1, <1>2, <2>1, <2>4, Zenon
    <3> QED
      BY <2>3, <3>1
  <2>5. CASE v # w
    <3>1. group'[v] = group[v]
      BY <1>2, <2>1, <2>5, Zenon
    <3> QED
      BY <3>1, Zenon
  <2> QED
    BY <2>4, <2>5, Zenon
<1>5. ASSUME NEW w \in WorkerId, NEW t \in Task, Leaves(w, t)
      PROVE  group'[v][g].depth # 0
  <2>1. v # w /\ group' = RemoveTaskGroup(w, t)
    BY <1>5, Zenon DEF Leaves
  <2>2. group'[v] = group[v]
    BY <1>2, <2>1, Zenon DEF RemoveTaskGroup
  <2> QED
    BY <2>2, Zenon
<1> QED
  BY <1>1, <1>3, <1>4, <1>5, Zenon DEF GroupMove

\* What a worker has passed over, when its lane only grew.
LEMMA PassedKept ==
  ASSUME TypeOK, LaneInv, NEW v \in WorkerId, PassedAt(v), pc[v] \notin {"entry", "exited"},
         ent'[v] = ent[v], Kept(CurLane(v)), TypeOK',
         \A u \in Task : entry[u] # "none" /\ Waiting(u)' => Waiting(u),
         group[v][GroupKey(v)].depth # 0 => group'[v][GroupKey(v)].depth # 0
  PROVE  /\ off[v] \in Nat /\ CurLane(v)' = CurLane(v) /\ GroupKey(v)' = GroupKey(v)
         /\ Len(lane'[CurLane(v)]) \in Nat
         /\ Len(lane[CurLane(v)]) \in Nat /\ Len(lane[CurLane(v)]) <= Len(lane'[CurLane(v)])
         /\ off[v] <= Len(lane[CurLane(v)])
         /\ \A i \in 1..off[v] : Waiting(lane[CurLane(v)][i])'
                                   => group'[v][GroupKey(v)].depth # 0
<1>1. CurLane(v) \in Lane /\ off[v] \in Nat
  BY CurLaneType, Zenon DEF TypeOK
<1>2. CurLane(v)' = CurLane(v) /\ GroupKey(v)' = GroupKey(v)
  BY Zenon DEF CurLane, GroupKey
<1>3. PICK l \in Lane : l = CurLane(v)
  BY <1>1, Zenon
<1>4. /\ Len(lane[l]) \in Nat /\ DOMAIN lane[l] = 1..Len(lane[l])
      /\ \A k \in DOMAIN lane[l] : lane[l][k] \in Task /\ entry[lane[l][k]] # "none"
  BY Slots, Zenon
<1>5. Len(lane'[l]) \in Nat
  <2>1. lane'[l] \in Seq(Task)
    BY Zenon DEF TypeOK
  <2> QED
    BY <2>1
<1>6. off[v] <= Len(lane[l])
  BY <1>3, Zenon DEF PassedAt
<1>7. /\ Len(lane[l]) <= Len(lane'[l])
      /\ \A k \in DOMAIN lane[l] : lane'[l][k] = lane[l][k]
  BY <1>3, Zenon DEF Kept
<1>8. ASSUME NEW i \in 1..off[v], Waiting(lane[l][i])'
      PROVE  group'[v][GroupKey(v)].depth # 0
  <2>1. i \in DOMAIN lane[l]
    BY <1>1, <1>4, <1>6
  <2>2. PICK x \in Task : x = lane[l][i]
    BY <1>4, <2>1, Zenon
  <2>3. lane'[l][i] = x
    BY <1>7, <2>1, <2>2, Zenon
  <2>4. Waiting(x)'
    BY <1>8, <2>3, Zenon
  <2>5. Waiting(lane[l][i])
    BY <1>4, <2>1, <2>2, <2>4, Zenon
  <2> QED
    BY <1>3, <2>5, Zenon DEF PassedAt
<1>9. ASSUME NEW i \in 1..off[v], Waiting(lane[CurLane(v)][i])'
      PROVE  Waiting(lane[l][i])'
  BY <1>2, <1>3, <1>9, Zenon
<1> QED
  BY <1>1, <1>2, <1>3, <1>4, <1>5, <1>6, <1>7, <1>8, <1>9, Zenon

\* A step that pops nothing: what a worker passes over while it waits is passed over
\* while the group is held.
LEMMA CalmScan ==
  ASSUME IndInv, TypeOK', FifoInv, GroupMove, Calm, NEW v \in WorkerId, Advance(v)
  PROVE  PassedAt(v)'
<1>1. TypeOK /\ LaneInv /\ ScanAt(v) /\ PassedAt(v)
  BY Zenon DEF IndInv, ScanInv, FifoInv
<1>2. CurLane(v) \in Lane /\ Kept(CurLane(v)) /\ GroupKey(v) \in Key
  BY <1>1, CurLaneType, Zenon DEF Calm
<1>3. /\ \A u \in Task : entry[u] # "none" /\ Waiting(u)' => Waiting(u)
      /\ \A u \in Task : ~Leaves(v, u)
  BY CalmTasks, Zenon DEF Leaves
<1>4. ASSUME ent'[v] = ent[v], group[v][GroupKey(v)].depth # 0
      PROVE  group'[v][GroupKey(v)].depth # 0
  BY <1>1, <1>3, <1>4, DepthKept, Zenon
<1>5. ASSUME ent'[v] = ent[v], pc[v] \notin {"entry", "exited"}
      PROVE  /\ off[v] \in Nat /\ CurLane(v)' = CurLane(v) /\ GroupKey(v)' = GroupKey(v)
             /\ Len(lane'[CurLane(v)]) \in Nat
             /\ Len(lane[CurLane(v)]) \in Nat /\ Len(lane[CurLane(v)]) <= Len(lane'[CurLane(v)])
             /\ off[v] <= Len(lane[CurLane(v)])
             /\ \A i \in 1..off[v] : Waiting(lane[CurLane(v)][i])'
                                       => group'[v][GroupKey(v)].depth # 0
  BY <1>1, <1>2, <1>3, <1>4, <1>5, PassedKept, Zenon
<1>6. ASSUME ent'[v] = ent[v], pc[v] = "check"
      PROVE  /\ cur[v] \in Task /\ entry[cur[v]] # "none" /\ cur[v] = Peeked(v)
             /\ off[v] < Len(lane[CurLane(v)])
             /\ Waiting(cur[v]) => group'[v][GroupKey(v)].depth # 0
  <2>1. /\ cur[v] \in Task /\ entry[cur[v]] = "in" /\ cur[v] = Peeked(v)
        /\ off[v] < Len(lane[CurLane(v)])
    BY <1>1, <1>6, Zenon DEF ScanAt, Pc
  <2>2. Waiting(cur[v]) => group[v][GroupKey(v)].depth # 0
    BY <1>1, <1>6, Zenon DEF PassedAt
  <2> QED
    BY <1>4, <1>6, <2>1, <2>2
<1>7. ASSUME ent'[v] = ent[v], off'[v] = off[v], pc[v] \notin {"entry", "exited"},
             pc'[v] = "check" /\ Waiting(cur[v])' => group'[v][GroupKey(v)].depth # 0
      PROVE  PassedAt(v)'
  <2>1. off'[v] <= Len(lane'[CurLane(v)])
    BY <1>5, <1>7
  <2>2. \A i \in 1..off'[v] : Waiting(lane[CurLane(v)][i])'
                                => group'[v][GroupKey(v)].depth # 0
    BY <1>5, <1>7, Zenon
  <2> QED
    BY <1>5, <1>7, <2>1, <2>2, Zenon DEF PassedAt
<1>8. CASE pc'[v] = pc[v] /\ ent'[v] = ent[v] /\ off'[v] = off[v] /\ cur'[v] = cur[v]
  <2>1. CASE pc[v] \in {"entry", "exited"}
    BY <1>8, <2>1, Zenon DEF PassedAt
  <2>2. CASE pc[v] \notin {"entry", "exited"}
    <3>1. ASSUME pc'[v] = "check", Waiting(cur[v])' PROVE group'[v][GroupKey(v)].depth # 0
      <4>1. PICK x \in Task : x = cur[v] /\ entry[x] # "none"
        BY <1>6, <1>8, <3>1, Zenon
      <4>2. Waiting(x)'
        BY <1>8, <3>1, <4>1, Zenon
      <4> QED
        BY <1>3, <1>6, <1>8, <3>1, <4>1, <4>2, Zenon
    <3> QED
      BY <1>7, <1>8, <2>2, <3>1, Zenon
  <2> QED
    BY <2>1, <2>2, Zenon
<1>9. CASE pc'[v] \in {"entry", "exited"}
  BY <1>9, Zenon DEF PassedAt
<1>10. CASE pc'[v] = "poll" /\ off'[v] = 0
  <2>1. CurLane(v)' \in Lane
    <3>1. WorkQueue[v] \in Seq(Lane) /\ ent'[v] \in DOMAIN WorkQueue[v]
      BY LaneAssumption, Zenon DEF TypeOK
    <3> QED
      BY <3>1 DEF CurLane
  <2>2. PICK l \in Lane : l = CurLane(v)'
    BY <2>1, Zenon
  <2>3. lane'[l] \in Seq(Task)
    BY Zenon DEF TypeOK
  <2>4. 0 <= Len(lane'[l]) /\ 1..0 = {}
    BY <2>3
  <2> QED
    BY <1>10, <2>2, <2>4, Zenon DEF PassedAt
<1>11. CASE /\ pc[v] \notin {"entry", "exited"} /\ ent'[v] = ent[v] /\ off'[v] = off[v]
            /\ pc'[v] = "check" /\ Waiting(cur[v])' => group[v][GroupKey(v)].depth # 0
  BY <1>4, <1>7, <1>11, Zenon
<1>12. CASE pc[v] = "check" /\ pc'[v] = "poll" /\ ent'[v] = ent[v] /\ off'[v] = off[v] + 1
  <2>1. PICK l \in Lane : l = CurLane(v)
    BY <1>2, Zenon
  <2>2. /\ off[v] < Len(lane[l]) /\ cur[v] = Peeked(v) /\ entry[cur[v]] # "none"
        /\ Waiting(cur[v]) => group'[v][GroupKey(v)].depth # 0
    BY <1>6, <1>12, <2>1, Zenon
  <2>3. /\ off[v] \in Nat /\ Len(lane'[l]) \in Nat /\ Len(lane[l]) \in Nat
        /\ Len(lane[l]) <= Len(lane'[l])
        /\ CurLane(v)' = l /\ GroupKey(v)' = GroupKey(v)
        /\ \A i \in 1..off[v] : Waiting(lane[l][i])' => group'[v][GroupKey(v)].depth # 0
    BY <1>5, <1>12, <2>1, Zenon
  <2>4. off'[v] <= Len(lane'[l])
    BY <1>12, <2>2, <2>3
  <2>5. PICK n \in Nat : n = off[v] + 1
    BY <2>3
  <2>6. n \in DOMAIN lane[l] /\ cur[v] = lane[l][n] /\ cur[v] \in Task
    BY <1>1, <2>1, <2>2, <2>5, PeekedSlot, Zenon
  <2>7. lane'[l][n] = cur[v]
    BY <1>2, <2>1, <2>6, Zenon DEF Kept
  <2>8. ASSUME Waiting(lane[l][n])' PROVE group'[v][GroupKey(v)].depth # 0
    <3>1. PICK x \in Task : x = cur[v]
      BY <2>6, Zenon
    <3>2. Waiting(x)'
      BY <2>7, <2>8, <3>1, Zenon
    <3> QED
      BY <1>3, <2>2, <3>1, <3>2, Zenon
  <2>9. \A i \in 1..off'[v] : i \in 1..off[v] \/ i = n
    BY <1>12, <2>3, <2>5
  <2>10. \A i \in 1..off'[v] : Waiting(lane[l][i])' => group'[v][GroupKey(v)].depth # 0
    BY <2>3, <2>8, <2>9, Zenon
  <2> QED
    BY <1>12, <2>3, <2>4, <2>10, Zenon DEF PassedAt
<1> QED
  BY <1>8, <1>9, <1>10, <1>11, <1>12, Zenon DEF Advance

\* A step that pops: the task it takes, and only that one, ceases to wait or hold.
LEMMA PopTasks ==
  ASSUME IndInv, NEW w \in WorkerId, Pops(w)
  PROVE  /\ \A u \in Task : Waiting(u)' => Waiting(u) /\ u # Peeked(w)
         /\ \A u \in Task : Holding(u)' => Holding(u)
         /\ \A u \in Task : Holding(u) /\ ~Holding(u)' => u = Peeked(w)
         /\ OrderedRuns => OrderedRuns'
<1>1. TypeOK /\ LaneInv /\ flags' = flags
  BY Zenon DEF IndInv, Pops
<1>2. Peeked(w) \in Task
  BY <1>1, PeekedSlot, Zenon DEF Pops
<1>3. /\ entry'[Peeked(w)] # "in"
      /\ \A u \in Task : u # Peeked(w) => entry'[u] = entry[u]
  <2>1. entry \in [Task -> {"none", "in", "complete", "popped"}]
    BY <1>1, Zenon DEF TypeOK
  <2>2. \/ entry' = [entry EXCEPT ![Peeked(w)] = "popped"]
        \/ entry' = [entry EXCEPT ![Peeked(w)] = "complete"]
    BY Zenon DEF Pops, PopTask
  <2> QED
    BY <1>2, <2>1, <2>2, Zenon
<1>4. \A u \in Task : Waiting(u)' => Waiting(u) /\ u # Peeked(w)
  BY <1>1, <1>3, Zenon DEF Waiting, Ordered
<1>5. /\ \A u \in Task : Holding(u)' => Holding(u)
      /\ \A u \in Task : Holding(u) /\ ~Holding(u)' => u = Peeked(w)
  BY <1>1, <1>3, Zenon DEF Holding, Ordered
<1>6. OrderedRuns => OrderedRuns'
  BY <1>1, Zenon DEF OrderedRuns, Ordered
<1> QED
  BY <1>4, <1>5, <1>6, Zenon

\* What a pop does to the lane: its slots move up by one, or stay.
LEMMA PopSlots ==
  ASSUME IndInv, TypeOK', NEW w \in WorkerId, Pops(w), NEW l \in Lane
  PROVE  \E d \in {0, 1} : \A i \in DOMAIN lane'[l] :
           i \in Nat /\ i + d \in DOMAIN lane[l] /\ lane'[l][i] = lane[l][i + d]
<1>1. TypeOK /\ LaneInv /\ off[w] < Len(lane[CurLane(w)]) /\ PopTask(w, Peeked(w))
  BY Zenon DEF IndInv, Pops
<1>2. lane \in [Lane -> Seq(Task)]
  BY <1>1, Zenon DEF TypeOK
<1>3. lane[l] \in Seq(Task) /\ lane'[l] \in Seq(Task)
  BY <1>2, Zenon DEF TypeOK
<1>4. CASE lane'[l] = lane[l]
  <2>1. \A i \in DOMAIN lane'[l] : i \in Nat /\ i + 0 \in DOMAIN lane[l]
                                   /\ lane'[l][i] = lane[l][i + 0]
    BY <1>3, <1>4
  <2> QED
    BY <2>1
<1>5. CASE lane'[l] # lane[l]
  <2>1. l = CurLane(w) /\ off[w] = 0 /\ lane'[l] = Tail(lane[l])
    BY <1>1, <1>2, <1>5, Zenon DEF PopTask
  <2>2. lane[l] # << >>
    BY <1>1, <1>3, <2>1
  <2>3. \A i \in DOMAIN lane'[l] : i \in Nat /\ i + 1 \in DOMAIN lane[l]
                                   /\ lane'[l][i] = lane[l][i + 1]
    BY <1>3, <2>1, <2>2
  <2> QED
    BY <2>3
<1> QED
  BY <1>4, <1>5, Zenon

\* A pop leaves the tasks of every lane in their order.
LEMMA PopsLanes ==
  ASSUME IndInv, TypeOK', FifoInv, NEW w \in WorkerId, Pops(w)
  PROVE  HeldFirst'
<1> SUFFICES ASSUME NEW l \in Lane, NEW i \in DOMAIN lane'[l], NEW j \in DOMAIN lane'[l],
                    i < j, Holding(lane[l][j])', Waiting(lane[l][i])'
             PROVE  FALSE
  BY Zenon DEF HeldFirst
<1>1. TypeOK /\ LaneInv
  BY Zenon DEF IndInv
<1>2. PICK d \in {0, 1} : \A k \in DOMAIN lane'[l] :
        k \in Nat /\ k + d \in DOMAIN lane[l] /\ lane'[l][k] = lane[l][k + d]
  BY PopSlots, Zenon
<1>3. PICK m, n \in DOMAIN lane[l] : m = i + d /\ n = j + d
  BY <1>2, Zenon
<1>4. m < n
  BY <1>2, <1>3
<1>5. PICK x, h \in Task : x = lane[l][m] /\ h = lane[l][n]
  BY <1>1, Slots, Zenon
<1>6. x = lane'[l][i] /\ h = lane'[l][j]
  BY <1>2, <1>3, <1>5, Zenon
<1>7. Waiting(x)' /\ Holding(h)'
  BY <1>6, Zenon
<1>8. Waiting(x) /\ Holding(h)
  BY <1>7, PopTasks, Zenon
<1> QED
  BY <1>4, <1>5, <1>8, Zenon DEF FifoInv, HeldFirst

\* The group that a pop gives free is one whose holder no waiting task precedes.
LEMMA PopsScan ==
  ASSUME IndInv, TypeOK', FifoInv, GroupMove, NEW w \in WorkerId, Pops(w),
         NEW v \in WorkerId
  PROVE  PassedAt(v)'
<1>1. /\ TypeOK /\ LaneInv /\ PassedAt(v) /\ PassedAt(w) /\ off[w] < Len(lane[CurLane(w)])
      /\ PopTask(w, Peeked(w)) /\ ent' = ent /\ pc'[w] \in {"poll", "end"}
      /\ pc[w] \in {"poll", "check"}
  BY Zenon DEF IndInv, FifoInv, Pops
<1>2. /\ CurLane(w) \in Lane /\ off[w] \in Nat /\ off[w] + 1 \in DOMAIN lane[CurLane(w)]
      /\ Peeked(w) = lane[CurLane(w)][off[w] + 1] /\ Peeked(w) \in Task
      /\ Desc[Peeked(w)].lane = CurLane(w)
  BY <1>1, PeekedSlot, Zenon
<1>3. \A u \in Task, x \in WorkerId : Leaves(x, u) => x = w /\ u = Peeked(w)
  <2> SUFFICES ASSUME NEW u \in Task, NEW x \in WorkerId, Leaves(x, u)
               PROVE  x = w /\ u = Peeked(w)
    OBVIOUS
  <2>1. u = Peeked(w) /\ Desc[u].lane = CurLane(x)
    BY PopTasks, Zenon DEF Leaves
  <2>2. CurLane(x) = CurLane(w)
    BY <1>2, <2>1, Zenon
  <2>3. Polls(w, CurLane(x)) /\ ent[x] \in DOMAIN WorkQueue[x]
    BY <1>1, <2>2, CurLaneType, Zenon DEF TypeOK
  <2> QED
    BY <2>1, <2>3, Owner, Zenon
<1>4. CASE v # w
  <2>1. CurLane(v) \in Lane \ {CurLane(w)}
    <3>1. CurLane(v) \in Lane /\ Polls(v, CurLane(v)) /\ ent[w] \in DOMAIN WorkQueue[w]
      BY <1>1, CurLaneType, Zenon DEF TypeOK
    <3> QED
      BY <1>4, <3>1, Owner, Zenon
  <2>2. Kept(CurLane(v)) /\ off'[v] = off[v]
    BY <1>1, <1>2, <1>4, <2>1, PopLane, Zenon
  <2>3. pc'[v] = pc[v] /\ cur'[v] = cur[v]
    BY <1>4, Zenon DEF Pops
  <2>4. group[v][GroupKey(v)].depth # 0 => group'[v][GroupKey(v)].depth # 0
    BY <1>1, <1>3, <1>4, DepthKept, Zenon
  <2>5. \A u \in Task : Waiting(u)' => Waiting(u)
    BY PopTasks, Zenon
  <2>6. ASSUME pc[v] \notin {"entry", "exited"}
        PROVE  /\ off[v] \in Nat /\ CurLane(v)' = CurLane(v) /\ GroupKey(v)' = GroupKey(v)
               /\ Len(lane'[CurLane(v)]) \in Nat
               /\ Len(lane[CurLane(v)]) \in Nat
               /\ Len(lane[CurLane(v)]) <= Len(lane'[CurLane(v)])
               /\ off[v] <= Len(lane[CurLane(v)])
               /\ \A i \in 1..off[v] : Waiting(lane[CurLane(v)][i])'
                                         => group'[v][GroupKey(v)].depth # 0
    BY <1>1, <2>2, <2>4, <2>5, <2>6, PassedKept, Zenon
  <2>7. ASSUME pc[v] = "check", Waiting(cur[v])' PROVE group'[v][GroupKey(v)].depth # 0
    <3>1. cur[v] \in Task
      BY <2>7, Zenon DEF IndInv, ScanInv, ScanAt, Pc
    <3>2. PICK x \in Task : x = cur[v]
      BY <3>1, Zenon
    <3>3. Waiting(x)'
      BY <2>3, <2>7, <3>2, Zenon
    <3> QED
      BY <1>1, <2>4, <2>5, <2>7, <3>2, <3>3, Zenon DEF PassedAt
  <2>8. pc[v] \notin {"entry", "exited"} => off'[v] <= Len(lane'[CurLane(v)])
    BY <2>2, <2>6
  <2>9. pc[v] \notin {"entry", "exited"} =>
          \A i \in 1..off'[v] : Waiting(lane[CurLane(v)][i])'
                                  => group'[v][GroupKey(v)].depth # 0
    BY <2>2, <2>6, Zenon
  <2>10. GroupKey(v)' = GroupKey(v) /\ CurLane(v)' = CurLane(v)
    BY <1>1, Zenon DEF GroupKey, CurLane
  <2> QED
    BY <2>3, <2>7, <2>8, <2>9, <2>10, Zenon DEF PassedAt
<1>5. CASE v = w
  <2>1. PICK l \in Lane : l = CurLane(w)
    BY <1>2, Zenon
  <2>2. CurLane(w)' = l /\ GroupKey(w)' = GroupKey(w)
    BY <1>1, <2>1, Zenon DEF GroupKey, CurLane
  <2>3. lane[l] \in Seq(Task) /\ lane'[l] \in Seq(Task) /\ off \in [WorkerId -> Nat]
    BY <1>1, Zenon DEF TypeOK
  <2>4. CASE off[w] = 0
    <3>1. off'[w] = 0
      BY <1>1, <2>4, Zenon DEF PopTask
    <3>2. 0 <= Len(lane'[l]) /\ 1..0 = {}
      BY <2>3
    <3> QED
      BY <1>1, <1>5, <2>2, <3>1, <3>2, Zenon DEF PassedAt
  <2>5. CASE off[w] # 0
    <3>1. lane' = lane /\ off'[w] = off[w] + 1
      BY <1>1, <2>3, <2>5, Zenon DEF PopTask
    <3>2. off'[w] <= Len(lane'[l])
      BY <1>1, <1>2, <2>1, <2>3, <3>1
    <3>3. PICK n \in Nat : n = off[w] + 1
      BY <1>2
    <3>4. ASSUME NEW i \in 1..off'[w], Waiting(lane[l][i])'
          PROVE  group'[w][GroupKey(w)].depth # 0
      <4>1. /\ i \in DOMAIN lane[l] /\ n \in DOMAIN lane[l]
            /\ i = n \/ (i \in 1..off[w] /\ i < n)
        <5>1. off[w] + 1 <= Len(lane[l]) /\ Len(lane[l]) \in Nat /\ DOMAIN lane[l] = 1..Len(lane[l])
          BY <1>1, <1>2, <2>1, <2>3
        <5>2. i \in 1..n /\ n \in 1..Len(lane[l])
          BY <1>2, <3>1, <3>3, <5>1
        <5> QED
          BY <1>2, <3>3, <5>1, <5>2
      <4>2. PICK x \in Task : x = lane[l][i]
        BY <1>1, <4>1, Slots, Zenon
      <4>3. Waiting(x)'
        BY <3>1, <3>4, <4>2, Zenon
      <4>4. Waiting(x) /\ x # Peeked(w)
        BY <4>3, PopTasks, Zenon
      <4>5. i \in 1..off[w] /\ i < n
        BY <1>2, <2>1, <3>3, <4>1, <4>2, <4>4, Zenon
      <4>6. ~Holding(Peeked(w))
        BY <1>2, <2>1, <3>3, <4>1, <4>2, <4>4, <4>5, Zenon DEF FifoInv, HeldFirst
      <4>7. \A u \in Task : ~Leaves(w, u)
        BY <1>3, <4>6, Zenon DEF Leaves
      <4>8. group[w][GroupKey(w)].depth # 0
        BY <1>1, <2>1, <4>2, <4>4, <4>5, Zenon DEF PassedAt
      <4> QED
        BY <1>1, <4>7, <4>8, DepthKept, Zenon
    <3> QED
      BY <1>1, <1>5, <2>2, <3>2, <3>4, Zenon DEF PassedAt
  <2> QED
    BY <2>4, <2>5, Zenon
<1> QED
  BY <1>4, <1>5, Zenon

-----------------------------------------------------------------------------
(* Every step pops or is calm.                                             *)

\* What a step that pops nothing does to the flag words of ordered tasks.
FlagsCalm ==
  \A u \in Task : Ordered(u) /\ ~Desc[u].remote =>
    /\ "started" \in flags[u] => "started" \in flags'[u]
    /\ "disable_run" \in flags'[u] => "disable_run" \in flags[u]

\* A step that is calm, in which every worker moves as Advance says.
CalmStep == Calm /\ \A v \in WorkerId : Advance(v)

\* Lanes and entries are left alone.
LEMMA CalmSame ==
  ASSUME IndInv, UNCHANGED <<lane, entry>>, FlagsCalm
  PROVE  Calm
<1>1. \A l \in Lane : Kept(l)
  BY SameLanes, Zenon DEF IndInv
<1> QED
  BY <1>1, Zenon DEF Calm, FlagsCalm

\* A task that has never been in a lane is emplaced.
LEMMA CalmEmplace ==
  ASSUME IndInv, NEW s \in Task, entry[s] = "none", Emplace(s), FlagsCalm
  PROVE  Calm
<1>1. TypeOK /\ LaneInv
  BY Zenon DEF IndInv
<1>2. \A l \in Lane : Kept(l)
  BY <1>1, EmplaceLane, Zenon
<1>3. lane' = [lane EXCEPT ![Desc[s].lane] = Append(@, s)] /\ entry' = [entry EXCEPT ![s] = "in"]
  BY Zenon DEF Emplace
<1>4. ASSUME NEW l \in Lane, NEW j \in DOMAIN lane'[l]
      PROVE  j \in DOMAIN lane[l] \/ entry[lane'[l][j]] = "none"
  <2>1. lane \in [Lane -> Seq(Task)] /\ lane[l] \in Seq(Task)
    BY <1>1, Zenon DEF TypeOK
  <2>2. lane'[l] = lane[l] \/ lane'[l] = Append(lane[l], s)
    BY <1>3, <2>1, Zenon
  <2>3. CASE lane'[l] = Append(lane[l], s)
    <3>1. j \in DOMAIN lane[l] \/ lane'[l][j] = s
      BY <1>4, <2>1, <2>3
    <3> QED
      BY <3>1, Zenon
  <2> QED
    BY <1>4, <2>2, <2>3, Zenon
<1>5. \A u \in Task : entry'[u] = entry[u] \/ entry[u] = "none"
  <2>1. entry \in [Task -> {"none", "in", "complete", "popped"}]
    BY <1>1, Zenon DEF TypeOK
  <2> QED
    BY <1>3, <2>1, Zenon
<1> QED
  BY <1>2, <1>4, <1>5, Zenon DEF Calm, FlagsCalm

\* Flags are added to a task; an ordered task of this node never has its runs
\* disabled.
LEMMA SetFlagsCalm ==
  ASSUME TypeOK, NEW t \in Task, NEW S \in SUBSET Flag, SetFlags(t, S),
         "disable_run" \in S => ~Ordered(t) \/ Desc[t].remote
  PROVE  FlagsCalm
<1>1. flags'[t] = flags[t] \cup S /\ \A u \in Task \ {t} : flags'[u] = flags[u]
  BY SetFlagsType, Zenon
<1> QED
  BY <1>1, Zenon DEF FlagsCalm

\* The steps of clients, threads and Join do not move a worker.
LEMMA AsideCalm ==
  ASSUME IndInv, Join \/ UNCHANGED vars \/ (\E t \in ThreadTask : ThreadNext(t))
                 \/ (\E t \in RootTask : ClientNext(t))
  PROVE  CalmStep
<1>1. TypeOK /\ FreshInv
  BY Zenon DEF IndInv
<1>2. ASSUME UNCHANGED scanVars PROVE \A v \in WorkerId : Advance(v)
  BY <1>2, Zenon DEF Advance, scanVars
<1>3. ASSUME flags' = flags PROVE FlagsCalm
  BY <1>3, Zenon DEF FlagsCalm
<1>4. CASE Join \/ UNCHANGED vars
  <2>1. UNCHANGED <<lane, entry>> /\ flags' = flags /\ UNCHANGED scanVars
    BY <1>4, Zenon DEF Join, vars, taskVars
  <2> QED
    BY <1>2, <1>3, <2>1, CalmSame, Zenon DEF CalmStep
<1>5. ASSUME NEW t \in RootTask, ClientNext(t) PROVE CalmStep
  <2>1. CASE ClientNew(t) \/ ClientReap(t)
    <3>1. UNCHANGED <<lane, entry>> /\ flags' = flags /\ UNCHANGED scanVars
      BY <2>1, Zenon DEF ClientNew, ClientReap
    <3> QED
      BY <1>2, <1>3, <3>1, CalmSame, Zenon DEF CalmStep
  <2>2. CASE ClientEmplace(t)
    <3>1. Emplace(t) /\ flags' = flags /\ UNCHANGED scanVars /\ client[t] = "emplacing"
      BY <2>2, Zenon DEF ClientEmplace
    <3>2. t \in Task /\ entry[t] = "none"
      BY <1>1, <3>1, Zenon DEF FreshInv, RootTask
    <3> QED
      BY <1>2, <1>3, <3>1, <3>2, CalmEmplace, Zenon DEF CalmStep
  <2> QED
    BY <1>5, <2>1, <2>2, Zenon DEF ClientNext
<1>6. ASSUME NEW t \in ThreadTask, ThreadNext(t) PROVE CalmStep
  <2>1. UNCHANGED <<lane, entry>> /\ UNCHANGED scanVars
    BY <1>6, Zenon DEF ThreadNext, ThreadRpc, ThreadRead, ThreadWrite, ThreadSelf, ThreadStep
  <2>2. t \in Task /\ Desc[t].kind = "thread" /\ Desc[t].orig \in Task /\ Desc[Desc[t].orig].remote
    BY DescType, TaskAssumption, Zenon DEF ThreadTask
  <2>3. ~Ordered(t)
    BY <2>2 DEF Ordered
  <2>4. FlagsCalm
    <3>1. CASE ThreadRpc(t) \/ ThreadRead(t)
      BY <1>3, <3>1, Zenon DEF ThreadRpc, ThreadRead
    <3>2. CASE ThreadWrite(t)
      <4>1. \A u \in Task : u # Desc[t].orig => flags'[u] = flags[u]
        BY <1>1, <3>2, Zenon DEF ThreadWrite, TypeOK
      <4> QED
        BY <2>2, <4>1, Zenon DEF FlagsCalm
    <3>3. CASE ThreadSelf(t)
      BY <1>1, <2>2, <2>3, <3>3, SetFlagsCalm, Zenon DEF ThreadSelf, Flag
    <3> QED
      BY <1>6, <3>1, <3>2, <3>3, Zenon DEF ThreadNext
  <2> QED
    BY <1>2, <2>1, <2>4, CalmSame, Zenon DEF CalmStep
<1> QED
  BY <1>4, <1>5, <1>6, Zenon

\* A worker begins or leaves a scan.
LEMMA RunCalm ==
  ASSUME IndInv, NEW w \in WorkerId, Run(w) \/ PollReturn(w)
  PROVE  CalmStep
<1>1. TypeOK
  BY Zenon DEF IndInv
<1>2. UNCHANGED <<lane, entry>> /\ flags' = flags /\ cur' = cur
  BY Zenon DEF Run, PollReturn, taskVars
<1>3. FlagsCalm
  BY <1>2, Zenon DEF FlagsCalm
<1>4. \/ NextEntry(w) /\ off' = off
      \/ BeginPoll(w)
  BY Zenon DEF Run, PollReturn
<1>5. pc \in [WorkerId -> Pc] /\ ent \in [WorkerId -> Nat] /\ off \in [WorkerId -> Nat]
  BY <1>1, Zenon DEF TypeOK
<1>6. CASE NextEntry(w) /\ off' = off
  <2>1. pc'[w] \in {"entry", "exited"}
    BY <1>1, <1>6, NextEntryType, Zenon
  <2>2. \A v \in WorkerId \ {w} : pc'[v] = pc[v] /\ ent'[v] = ent[v]
    BY <1>5, <1>6, Zenon DEF NextEntry
  <2> QED
    BY <1>2, <1>3, <1>6, <2>1, <2>2, CalmSame, Zenon DEF CalmStep, Advance
<1>7. CASE BeginPoll(w)
  <2>1. pc'[w] = "poll" /\ off'[w] = 0 /\ ent' = ent
    BY <1>5, <1>7, Zenon DEF BeginPoll
  <2>2. \A v \in WorkerId \ {w} : pc'[v] = pc[v] /\ off'[v] = off[v]
    BY <1>5, <1>7, Zenon DEF BeginPoll
  <2> QED
    BY <1>2, <1>3, <2>1, <2>2, CalmSame, Zenon DEF CalmStep, Advance
<1> QED
  BY <1>4, <1>6, <1>7, Zenon

\* Worker w goes on to the step pc'[w] of the same iteration, or of the next one at
\* the same place, and leaves no task waiting at the completion check of a free group.
LEMMA StepCalm ==
  ASSUME TypeOK, NEW w \in WorkerId, NEW to, pc[w] \notin {"entry", "exited"},
         pc' = [pc EXCEPT ![w] = to], ent' = ent, off' = off,
         \A v \in WorkerId \ {w} : cur'[v] = cur[v],
         to = "check" /\ Waiting(cur[w])' => group[w][GroupKey(w)].depth # 0
  PROVE  \A v \in WorkerId : Advance(v)
<1>1. pc'[w] = to /\ \A v \in WorkerId \ {w} : pc'[v] = pc[v]
  BY Zenon DEF TypeOK
<1>2. \A v \in WorkerId \ {w} : Advance(v)
  BY <1>1, Zenon DEF Advance
<1>3. Advance(w)
  BY <1>1, Zenon DEF Advance
<1> QED
  BY <1>2, <1>3, Zenon

\* A task is run: at the completion check it has begun, if it is ordered.
LEMMA ExecuteCalm ==
  ASSUME IndInv, NEW w \in WorkerId, NEW t \in Task, NEW to,
         AtTask(w, t), Execute(w, t, to),
         to = "check" /\ Ordered(t) /\ ~Desc[t].remote => "started" \in flags'[t]
  PROVE  \A v \in WorkerId : Advance(v)
<1>1. TypeOK /\ pc[w] \notin {"entry", "exited"}
  BY Zenon DEF IndInv, AtTask
<1>2. /\ pc' = [pc EXCEPT ![w] = to] /\ ent' = ent /\ off' = off
      /\ cur' = [cur EXCEPT ![w] = t]
  BY Zenon DEF Execute
<1>3. cur'[w] = t /\ \A v \in WorkerId \ {w} : cur'[v] = cur[v]
  BY <1>1, <1>2, Zenon DEF TypeOK
<1>4. ASSUME to = "check", Waiting(cur[w])' PROVE FALSE
  <2>1. Waiting(t)'
    BY <1>3, <1>4, Zenon
  <2> QED
    BY <1>4, <2>1, Zenon DEF Waiting, Ordered
<1> QED
  BY <1>1, <1>2, <1>3, <1>4, StepCalm, Zenon

\* The handlers, PollHold among them: a task that is held back has found its group
\* held.
LEMMA HandlerCalm ==
  ASSUME IndInv, OrderedRuns, NEW w \in WorkerId, NEW t \in Task, AtTask(w, t),
         PollTask(w, t), ~PollOrphan(w, t)
  PROVE  CalmStep
<1>1. TypeOK /\ FreshInv /\ StartInv /\ entry[t] = "in" /\ pc[w] = "poll"
  BY Zenon DEF IndInv, AtTask
<1>2. /\ {"started"} \in SUBSET Flag /\ {"started", "module_complete"} \in SUBSET Flag
      /\ {"module_complete"} \in SUBSET Flag /\ {"disable_run"} \in SUBSET Flag
  BY Zenon DEF Flag
<1>3. CASE PollHold(w, t)
  <2>1. /\ UNCHANGED <<lane, entry>> /\ flags' = flags /\ ent' = ent /\ off' = off
        /\ pc' = [pc EXCEPT ![w] = "check"] /\ cur' = [cur EXCEPT ![w] = t] /\ ~MayRun(w, t)
    BY <1>3, Zenon DEF PollHold, taskVars
  <2>2. cur'[w] = t /\ \A v \in WorkerId \ {w} : cur'[v] = cur[v]
    BY <1>1, <2>1, Zenon DEF TypeOK
  <2>3. ASSUME Waiting(cur[w])' PROVE group[w][GroupKey(w)].depth # 0
    <3>1. Waiting(t)'
      BY <2>2, <2>3, Zenon
    <3>2. Ordered(t) /\ ~Desc[t].remote
      BY <3>1, Zenon DEF Waiting, Ordered
    <3> QED
      BY <2>1, <3>2, Zenon DEF OrderedRuns, MayRun, CheckTaskGroup
  <2>4. \A v \in WorkerId : Advance(v)
    BY <1>1, <2>1, <2>2, <2>3, StepCalm, Zenon
  <2>5. FlagsCalm
    BY <2>1, Zenon DEF FlagsCalm
  <2> QED
    BY <2>1, <2>4, <2>5, CalmSame, Zenon DEF CalmStep
<1>4. ASSUME NEW S \in SUBSET Flag, Execute(w, t, "check"), SetFlags(t, S),
             "disable_run" \in S => ~Ordered(t),
             Ordered(t) => "started" \in S \/ "started" \in flags[t]
      PROVE  FlagsCalm /\ \A v \in WorkerId : Advance(v)
  <2>1. flags'[t] = flags[t] \cup S
    BY <1>1, <1>4, SetFlagsType, Zenon
  <2>2. Ordered(t) => "started" \in flags'[t]
    BY <1>4, <2>1, Zenon
  <2> QED
    BY <1>1, <1>4, <2>2, SetFlagsCalm, ExecuteCalm, Zenon
<1>5. CASE RunOneshot(w, t) \/ RunResident(w, t) \/ PushWait(w, t) \/ CreateKnown(w, t)
  <2>1. UNCHANGED <<lane, entry>> /\ Execute(w, t, "check")
    BY <1>5, Zenon DEF RunOneshot, RunResident, PushWait, CreateKnown
  <2>2. SetFlags(t, {"started"}) \/ SetFlags(t, {"started", "module_complete"})
    BY <1>5, Zenon DEF RunOneshot, RunResident, PushWait, CreateKnown
  <2>3. "disable_run" \notin {"started"} /\ "disable_run" \notin {"started", "module_complete"}
    OBVIOUS
  <2> QED
    <3>1. FlagsCalm /\ \A v \in WorkerId : Advance(v)
      BY <1>2, <1>4, <2>1, <2>2, <2>3, Zenon
    <3> QED
      BY <2>1, <3>1, CalmSame, Zenon DEF CalmStep
<1>6. CASE RunPreemptive(w, t)
  <2>1. UNCHANGED <<lane, entry>> /\ Execute(w, t, "check") /\ SetFlags(t, {"disable_run"})
    BY <1>6, Zenon DEF RunPreemptive
  <2>2. ~Ordered(t)
    BY <1>6, Zenon DEF RunPreemptive, Local, Ordered
  <2> QED
    BY <1>2, <1>4, <2>1, <2>2, CalmSame, Zenon DEF CalmStep
<1>7. CASE CreateResume(w, t)
  <2>1. UNCHANGED <<lane, entry>> /\ Execute(w, t, "check") /\ phase[t] = "wait"
    BY <1>7, Zenon DEF CreateResume
  <2>2. Ordered(t) /\ ~Desc[t].remote
    BY <1>7, Zenon DEF CreateResume, Local, Ordered
  <2>3. "started" \in flags[t]
    BY <1>1, <2>1, <2>2, Zenon DEF StartInv, StartAt
  <2>4. CASE SetFlags(t, {"module_complete"})
    BY <1>2, <1>4, <2>1, <2>3, <2>4, CalmSame, Zenon DEF CalmStep
  <2>5. CASE flags' = flags
    <3>1. \A v \in WorkerId : Advance(v)
      BY <2>1, <2>3, <2>5, ExecuteCalm, Zenon
    <3>2. FlagsCalm
      BY <2>5, Zenon DEF FlagsCalm
    <3> QED
      BY <2>1, <3>1, <3>2, CalmSame, Zenon DEF CalmStep
  <2> QED
    BY <1>7, <2>4, <2>5, Zenon DEF CreateResume
<1>8. CASE Disperse(w, t)
  <2>1. Execute(w, t, "disable_read") /\ flags' = flags
    BY <1>8, Zenon DEF Disperse
  <2>2. PICK s \in ThreadTask : s \notin alloc /\ Emplace(s)
    BY <1>8, Zenon DEF Disperse
  <2>3. s \in Task /\ entry[s] = "none"
    BY <1>1, <2>2, Zenon DEF ThreadTask, FreshInv
  <2>4. \A v \in WorkerId : Advance(v)
    BY <2>1, ExecuteCalm, Zenon
  <2>5. FlagsCalm
    BY <2>1, Zenon DEF FlagsCalm
  <2> QED
    BY <2>2, <2>3, <2>4, <2>5, CalmEmplace, Zenon DEF CalmStep
<1>9. ASSUME PushSchedule(w, t) \/ CreateAskId(w, t)
      PROVE  /\ Desc[t].sub \in Task /\ entry[Desc[t].sub] = "none" /\ Emplace(Desc[t].sub)
             /\ Desc[t].sub # t
  <2>1. phase[t] = "start" /\ Emplace(Desc[t].sub) /\ ~Desc[t].remote
        /\ Desc[t].kind \in {"push", "create"}
    BY <1>9, Zenon DEF PushSchedule, CreateAskId, Local
  <2>2. HasSub(t)
    BY <2>1, TaskAssumption, Zenon
  <2>3. Desc[t].sub \in Task /\ entry[Desc[t].sub] = "none"
    BY <1>1, <2>1, <2>2, SubFacts, Zenon DEF FreshInv
  <2> QED
    BY <1>1, <2>1, <2>3, Zenon
<1>10. CASE CreateAskId(w, t)
  <2>1. Execute(w, t, "check") /\ SetFlags(t, {"started"})
    BY <1>10, Zenon DEF CreateAskId
  <2>2. FlagsCalm /\ \A v \in WorkerId : Advance(v)
    BY <1>2, <1>4, <2>1, Zenon
  <2> QED
    BY <1>9, <1>10, <2>2, CalmEmplace, Zenon DEF CalmStep
<1>11. CASE PushSchedule(w, t)
  <2>1. /\ Execute(w, t, "pushed")
        /\ flags' = [flags EXCEPT ![t] = @ \cup {"started"}, ![Desc[t].sub] = @ \ {"faf"}]
    BY <1>11, Zenon DEF PushSchedule, UnsetFireAndForget
  <2>2. PICK s \in Task : s = Desc[t].sub /\ s # t
    BY <1>9, <1>11, Zenon
  <2>3. /\ flags'[t] = flags[t] \cup {"started"} /\ flags'[s] = flags[s] \ {"faf"}
        /\ \A u \in Task \ {t, s} : flags'[u] = flags[u]
    BY <1>1, <2>1, <2>2, Zenon DEF TypeOK
  <2>4. FlagsCalm
    <3>1. \A u \in Task : /\ "started" \in flags[u] => "started" \in flags'[u]
                          /\ "disable_run" \in flags'[u] => "disable_run" \in flags[u]
      <4> TAKE u \in Task
      <4>1. CASE u = t   BY <2>3, <4>1, Zenon
      <4>2. CASE u = s   BY <2>3, <4>2, Zenon
      <4>3. CASE u \notin {t, s}   BY <2>3, <4>3, Zenon
      <4> QED
        BY <4>1, <4>2, <4>3, Zenon
    <3> QED
      BY <3>1, Zenon DEF FlagsCalm
  <2>5. \A v \in WorkerId : Advance(v)
    BY <2>1, ExecuteCalm, Zenon
  <2> QED
    BY <1>9, <1>11, <2>4, <2>5, CalmEmplace, Zenon DEF CalmStep
<1> QED
  BY <1>3, <1>5, <1>6, <1>7, <1>8, <1>10, <1>11, Zenon DEF PollTask

\* The steps after a handler that do not pop: a task is past the completion check
\* before the scan moves on.
LEMMA RestCalm ==
  ASSUME IndInv, NEW w \in WorkerId,
         PushCheck(w) \/ FlagRead(w) \/ FlagWrite(w) \/ CheckIncomplete(w) \/ EndTask(w)
  PROVE  CalmStep
<1>1. TypeOK /\ ScanAt(w) /\ pc[w] \in Pc
  BY Zenon DEF IndInv, ScanInv, TypeOK
<1>2. pc[w] \in Pc \ {"entry", "poll", "exited"} /\ cur[w] \in Task
  BY <1>1, Zenon DEF PushCheck, FlagRead, FlagWrite, CheckIncomplete, EndTask, ScanAt
<1>3. UNCHANGED <<lane, entry>> /\ ent' = ent
  BY Zenon DEF PushCheck, FlagRead, FlagWrite, CheckIncomplete, EndTask, taskVars
<1>4. ASSUME flags' = flags PROVE FlagsCalm
  BY <1>4, Zenon DEF FlagsCalm
<1>5. CASE PushCheck(w)
  <2>1. /\ off' = off /\ cur' = cur /\ pc' = [pc EXCEPT ![w] = "check"] /\ pc[w] = "pushed"
        /\ SetFlags(cur[w], {"module_complete"}) \/ SetFlags(cur[w], {})
    BY <1>5, Zenon DEF PushCheck
  <2>2. {"module_complete"} \in SUBSET Flag /\ {} \in SUBSET Flag
    BY Zenon DEF Flag
  <2>3. FlagsCalm
    BY <1>1, <1>2, <2>1, <2>2, SetFlagsCalm, Zenon
  <2>4. ASSUME Waiting(cur[w])' PROVE FALSE
    <3>1. PICK t \in Task : t = cur[w]
      BY <1>2, Zenon
    <3>2. Waiting(t)'
      BY <2>1, <2>4, <3>1, Zenon
    <3>3. Ordered(t) /\ ~Desc[t].remote /\ "started" \notin flags'[t]
      BY <3>2, Zenon DEF Waiting, Ordered
    <3>4. "started" \in flags[t]
      BY <1>1, <2>1, <3>1, <3>3, Zenon DEF ScanAt
    <3> QED
      BY <2>3, <3>3, <3>4, Zenon DEF FlagsCalm
  <2>5. \A v \in WorkerId : Advance(v)
    BY <1>1, <1>2, <1>3, <2>1, <2>4, StepCalm, Zenon
  <2> QED
    BY <1>3, <2>3, <2>5, CalmSame, Zenon DEF CalmStep
<1>6. CASE FlagRead(w)
  <2>1. PICK to \in {"disable_write", "unset_write"} : pc' = [pc EXCEPT ![w] = to]
    BY <1>6, Zenon DEF FlagRead
  <2>2. off' = off /\ cur' = cur /\ flags' = flags
    BY <1>6, Zenon DEF FlagRead, taskVars
  <2>3. \A v \in WorkerId : Advance(v)
    BY <1>1, <1>2, <1>3, <2>1, <2>2, StepCalm, Zenon
  <2> QED
    BY <1>3, <1>4, <2>2, <2>3, CalmSame, Zenon DEF CalmStep
<1>7. CASE FlagWrite(w)
  <2>1. /\ off' = off /\ cur' = cur /\ flags' = [flags EXCEPT ![cur[w]] = Updated(w)]
        /\ pc[w] \in {"disable_write", "unset_write"}
    BY <1>7, Zenon DEF FlagWrite
  <2>2. PICK to \in {"unset_read", "check"} : pc' = [pc EXCEPT ![w] = to]
    BY <1>7, Zenon DEF FlagWrite
  <2>3. Desc[cur[w]].remote
    BY <1>1, <2>1, Zenon DEF ScanAt
  <2>4. ~Waiting(cur[w])'
    BY <2>1, <2>3, Zenon DEF Waiting
  <2>5. \A u \in Task : u # cur[w] => flags'[u] = flags[u]
    BY <1>1, <2>1, Zenon DEF TypeOK
  <2>6. FlagsCalm
    BY <2>3, <2>5, Zenon DEF FlagsCalm
  <2>7. \A v \in WorkerId : Advance(v)
    BY <1>1, <1>2, <1>3, <2>1, <2>2, <2>4, StepCalm, Zenon
  <2> QED
    BY <1>3, <2>6, <2>7, CalmSame, Zenon DEF CalmStep
<1>8. CASE CheckIncomplete(w)
  <2>1. /\ off' = [off EXCEPT ![w] = @ + 1] /\ cur' = cur /\ flags' = flags /\ NextIter(w)
        /\ pc[w] = "check"
    BY <1>8, Zenon DEF CheckIncomplete, taskVars
  <2>2. /\ pc'[w] = "poll" /\ off'[w] = off[w] + 1
        /\ \A v \in WorkerId \ {w} : pc'[v] = pc[v] /\ off'[v] = off[v]
    BY <1>1, <2>1, Zenon DEF NextIter, TypeOK
  <2>3. \A v \in WorkerId : Advance(v)
    BY <1>3, <2>1, <2>2, Zenon DEF Advance
  <2> QED
    BY <1>3, <1>4, <2>1, <2>3, CalmSame, Zenon DEF CalmStep
<1>9. CASE EndTask(w)
  <2>1. /\ off' = off /\ pc' = [pc EXCEPT ![w] = "poll"] /\ cur' = [cur EXCEPT ![w] = NoTask]
        /\ flags' = flags \/ SetFlags(cur[w], {"module_complete", "complete"})
    BY <1>9, Zenon DEF EndTask, NextIter
  <2>2. {"module_complete", "complete"} \in SUBSET Flag
    BY Zenon DEF Flag
  <2>3. FlagsCalm
    BY <1>1, <1>2, <1>4, <2>1, <2>2, SetFlagsCalm, Zenon
  <2>4. \A v \in WorkerId \ {w} : cur'[v] = cur[v]
    BY <1>1, <2>1, Zenon DEF TypeOK
  <2>5. \A v \in WorkerId : Advance(v)
    BY <1>1, <1>2, <1>3, <2>1, <2>4, StepCalm, Zenon
  <2> QED
    BY <1>3, <2>3, <2>5, CalmSame, Zenon DEF CalmStep
<1> QED
  BY <1>5, <1>6, <1>7, <1>8, <1>9, Zenon

\* The steps that pop.
LEMMA PopSteps ==
  ASSUME IndInv, NEW w \in WorkerId,
         PollComplete(w) \/ CheckComplete(w)
           \/ (\E t \in Task : AtTask(w, t) /\ PollOrphan(w, t))
  PROVE  Pops(w)
<1>1. TypeOK /\ ScanAt(w)
  BY Zenon DEF IndInv, ScanInv
<1>2. pc \in [WorkerId -> Pc] /\ cur \in [WorkerId -> Task \cup {NoTask}]
  BY <1>1, Zenon DEF TypeOK
<1>3. CASE PollComplete(w)
  BY <1>2, <1>3, Zenon DEF PollComplete, Pops, Peekable, NextIter
<1>4. CASE CheckComplete(w)
  <2>1. cur[w] = Peeked(w) /\ off[w] < Len(lane[CurLane(w)])
    BY <1>1, <1>4, Zenon DEF CheckComplete, ScanAt, Pc
  <2> QED
    BY <1>2, <1>4, <2>1, Zenon DEF CheckComplete, Pops
<1>5. ASSUME NEW t \in Task, AtTask(w, t), PollOrphan(w, t) PROVE Pops(w)
  BY <1>2, <1>5, Zenon DEF PollOrphan, Pops, AtTask, Peekable
<1> QED
  BY <1>3, <1>4, <1>5, Zenon

\* Every step keeps the order.
LEMMA NextFifo ==
  ASSUME OnePerRoot, IndInv, GroupsHeld, FifoInv, Keeps, [Next]_vars
  PROVE  FifoInv'
<1>1. TypeOK' /\ LaneInv' /\ GroupMove
  BY Zenon DEF Keeps
<1>2. CASE CalmStep
  <2>1. Calm /\ \A v \in WorkerId : PassedAt(v)'
    BY <1>1, <1>2, CalmScan, Zenon DEF CalmStep
  <2>2. HeldFirst' /\ OrderedRuns'
    BY <1>1, <2>1, CalmLanes, CalmTasks, Zenon DEF FifoInv
  <2> QED
    BY <2>1, <2>2, Zenon DEF FifoInv
<1>3. ASSUME NEW w \in WorkerId, Pops(w) PROVE FifoInv'
  <2>1. \A v \in WorkerId : PassedAt(v)'
    BY <1>1, <1>3, PopsScan, Zenon
  <2>2. HeldFirst' /\ OrderedRuns'
    BY <1>1, <1>3, PopsLanes, PopTasks, Zenon DEF FifoInv
  <2> QED
    BY <2>1, <2>2, Zenon DEF FifoInv
<1>4. ASSUME NEW w \in WorkerId, WorkerNext(w) PROVE CalmStep \/ Pops(w)
  <2>1. ASSUME NEW t \in Task, AtTask(w, t), PollTask(w, t) PROVE CalmStep \/ Pops(w)
    BY <2>1, HandlerCalm, PopSteps, Zenon DEF FifoInv
  <2> QED
    BY <1>4, <2>1, RunCalm, RestCalm, PopSteps, Zenon DEF WorkerNext
<1>5. CASE \E w \in WorkerId : WorkerNext(w)
  BY <1>2, <1>3, <1>4, <1>5, Zenon
<1>6. CASE ~\E w \in WorkerId : WorkerNext(w)
  BY <1>2, <1>6, AsideCalm, Zenon DEF Next
<1> QED
  BY <1>5, <1>6, Zenon

\* No task has been emplaced, no worker scans.
LEMMA InitFifo ==
  ASSUME Init
  PROVE  FifoInv
<1>1. \A l \in Lane : DOMAIN lane[l] = {}
  BY DEF Init
<1>2. \A w \in WorkerId : pc[w] = "entry"
  BY Zenon DEF Init
<1>3. \A t \in Task : "disable_run" \notin flags[t]
  BY Zenon DEF Init, InitFlags
<1> QED
  BY <1>1, <1>2, <1>3, Zenon DEF FifoInv, HeldFirst, OrderedRuns, PassedAt
=============================================================================
