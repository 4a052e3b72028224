---------------------------- MODULE WorkerMemory ----------------------------
(***************************************************************************)
(* Who may still reach a task finds it allocated, one party deletes it,    *)
(* once (MemInv), a dispersed task and the thread that completes it do not *)
(* undo each other's updates (RemInv), and a coroutine has a stack when it *)
(* is freed (StackInv): every step keeps these invariants together.        *)
(***************************************************************************)
EXTENDS WorkerLemmas

-----------------------------------------------------------------------------
(* Who may still reach a task, and who deletes it.                         *)

\* The lane of a remote task and the lane of the PushTasks that carry it to other
\* nodes are polled by the same worker.
Together ==
  \A q \in ThreadTask : \A v, w \in WorkerId :
    Polls(v, Desc[q].lane) /\ Polls(w, Desc[Desc[q].orig].lane) => v = w

Idle == {"entry", "poll", "exited"}

\* No worker has the task in hand and none will find it in a lane again.
Gone(t) == /\ entry[t] \in {"complete", "popped"}
           /\ \A w \in WorkerId : pc[w] \notin Idle => cur[w] # t

\* The task a worker has in hand, a task in a lane, the subtask of a task that
\* waits, and what the client of a task will delete are allocated.
Reached ==
  /\ \A w \in WorkerId : pc[w] \notin Idle => Live(cur[w])
  /\ \A t \in Task : entry[t] = "in" => Live(t)
  /\ \A t \in Task : phase[t] = "wait" /\ "module_complete" \notin flags[t]
                       => Live(Desc[t].sub)
  /\ \A t \in RootTask : client[t] \in {"emplacing", "waiting"}
                           => \A u \in Owned(t) : Live(u)

\* A task that is complete or deleted is gone.
Parted ==
  /\ \A t \in Task : "complete" \in flags[t] \/ delcnt[t] # 0 => Gone(t)
  /\ \A t \in Task : "complete" \in flags[t] => "module_complete" \in flags[t]

\* EndTask has the task for itself, and it was completed by its handler.
Ending ==
  \A w \in WorkerId : pc[w] = "end" =>
    /\ entry[cur[w]] \in {"complete", "popped"}
    /\ Desc[cur[w]].kind # "orphan" => "module_complete" \in flags[cur[w]]
    /\ \A v \in WorkerId : pc[v] \notin Idle /\ cur[v] = cur[w] => v = w

\* A handler that has completed its task is not called again: the worker that
\* called it is about to find it complete. A push completes after its subtask.
Finished ==
  /\ \A t \in Task : HasSub(t) /\ entry[t] = "in" /\ "module_complete" \in flags[t]
                       => \E w \in WorkerId : pc[w] = "check" /\ cur[w] = t
  /\ \A t \in Task : Desc[t].kind = "push" /\ "module_complete" \in flags[t]
                       => "complete" \in flags[Desc[t].sub]
  /\ \A t \in Task : phase[t] = "wait" => HasSub(t)

\* Who deletes: the worker a fire-and-forget task, which nobody waits for, the
\* client any other task of its own.
Deleter ==
  /\ \A t \in Task : "faf" \in flags[t] => Desc[t].faf
  /\ \A t \in Task : phase[t] = "wait" => "faf" \notin flags[Desc[t].sub]
  /\ \A t \in RootTask : client[t] = "waiting" => ~Desc[t].faf
  /\ \A t \in RootTask : client[t] = "done" => Desc[t].faf \/ delcnt[t] # 0
  /\ \A t \in Task : delcnt[t] \in {0, 1}

MemInv == Reached /\ Parted /\ Ending /\ Finished /\ Deleter

-----------------------------------------------------------------------------
(* A dispersed task and the thread that completes it.                      *)

\* The four steps after Disperse, the worker has the dispersed task in hand.
Updates == {"disable_read", "disable_write", "unset_read", "unset_write"}

Updating(w, t) == pc[w] \in Updates /\ cur[w] = t

\* The PushTasks that exist.
Carrier == ThreadTask \cap alloc

\* A task with a PushTask is not run again and has no stack, once the worker has
\* updated its flag word.
Disabled ==
  /\ \A q \in Carrier :
       /\ "disable_run" \notin flags[Desc[q].orig]
            => \E w \in WorkerId : /\ Updating(w, Desc[q].orig)
                                   /\ pc[w] \in {"disable_read", "disable_write"}
       /\ "coroutine" \in flags[Desc[q].orig]
            => \E w \in WorkerId : Updating(w, Desc[q].orig)
  /\ \A t \in Task : Desc[t].remote /\ "module_complete" \in flags[t]
                       => "disable_run" \in flags[t] /\ "coroutine" \notin flags[t]

\* The thread starts after the worker's updates, and what either of them has read
\* of the flag word is not changed before it is written back.
Current ==
  /\ \A q \in Carrier, w \in WorkerId : Updating(w, Desc[q].orig) => thread[q] = "none"
  /\ \A w \in WorkerId : pc[w] \in {"disable_write", "unset_write"} => seen[w] = flags[cur[w]]
  /\ \A q \in ThreadTask : thread[q] = "write" => seen[q] = flags[Desc[q].orig]

\* The dispersed task stays in its lane until the thread has completed it, and the
\* PushTask until the thread has ended.
Carried ==
  /\ \A q \in Carrier : thread[q] \notin {"self", "done"}
       => entry[Desc[q].orig] = "in" /\ "module_complete" \notin flags[Desc[q].orig]
  /\ \A q \in ThreadTask :
       /\ thread[q] # "none" => q \in alloc /\ "disable_run" \in flags[q]
       /\ thread[q] # "done" => "module_complete" \notin flags[q]
       /\ thread[q] \notin {"none", "done"} => entry[q] = "in"
  /\ \A t \in Task \ ThreadTask : thread[t] = "none"

\* Between the two phases of proc_queue Push a worker has a push in hand.
Pushing == \A w \in WorkerId : pc[w] = "pushed" => Desc[cur[w]].kind = "push"

RemInv == DispersedOnce /\ Disabled /\ Current /\ Carried /\ Pushing

\* A creation has a stack from its first call until it is complete; no other task
\* is a coroutine.
StackInv ==
  /\ StackFreedOnce
  /\ \A t \in Task : "coroutine" \in flags[t] => Desc[t].kind = "create"
  /\ \A t \in Task : /\ Desc[t].kind = "create" /\ HasSub(t) /\ entry[t] = "in"
                     /\ phase[t] = "wait" \/ "module_complete" \in flags[t]
                     => stack[t] = "live"

-----------------------------------------------------------------------------
(* The memory of tasks.                                                    *)

\* What the assumptions on tasks give.
LEMMA TaskFacts ==
  ASSUME NEW t \in Task
  PROVE  /\ Local(t, "push") \/ Local(t, "create") => HasSub(t)
         /\ Desc[t].kind = "push" => /\ HasSub(t) /\ t \in RootTask
         /\ HasSub(t) => /\ Ordered(t) /\ ~Desc[t].remote /\ ~Desc[t].faf
                         /\ t \notin ThreadTask
                         /\ Desc[t].sub \in Task /\ Desc[t].sub \notin RootTask
                         /\ Desc[t].sub \notin ThreadTask
                         /\ Desc[Desc[t].sub].kind # "push"
                         /\ \A u \in Task : Desc[u].sub = Desc[t].sub => u = t
                         /\ Desc[t].kind = "create" => ~Desc[Desc[t].sub].faf
<1>1. /\ HasSub(t) <=> ~Desc[t].remote /\ Desc[t].kind \in {"push", "create"}
      /\ Desc[t].remote => Desc[t].kind \in {"oneshot", "create"}
      /\ Desc[t].faf => Desc[t].kind \in {"oneshot", "orphan"}
      /\ HasSub(t) => Desc[Desc[t].sub].kind \notin {"push", "thread"}
  BY TaskAssumption, Zenon
<1>2. Desc[t].kind = "push" => HasSub(t)
  BY <1>1, Zenon
<1>3. Desc[t].kind = "push" => t \in RootTask
  <2>1. \A u \in Task : HasSub(u) => Desc[Desc[u].sub].kind # "push"
    BY TaskAssumption, Zenon
  <2>2. Desc[t].kind = "push" => t \notin Subtasks
    BY <2>1, Zenon DEF Subtasks
  <2> QED
    BY <2>2, Zenon DEF RootTask, ThreadTask
<1>4. HasSub(t) => Ordered(t) /\ ~Desc[t].remote /\ ~Desc[t].faf /\ t \notin ThreadTask
  BY <1>1, Zenon DEF Ordered, ThreadTask
<1>5. HasSub(t) /\ Desc[t].kind = "create" => ~Desc[Desc[t].sub].faf
  BY CreateAssumption, Zenon
<1>6. Local(t, "push") \/ Local(t, "create") => HasSub(t)
  BY <1>1, Zenon DEF Local
<1> QED
  BY <1>1, <1>2, <1>3, <1>4, <1>5, <1>6, SubFacts, Zenon

\* A worker that is not between two tasks has one in hand.
LEMMA HasTask ==
  ASSUME IndInv
  PROVE  /\ TypeOK /\ FreshInv /\ StartInv
         /\ \A v \in WorkerId : pc[v] \notin Idle => cur[v] \in Task
<1>1. TypeOK /\ FreshInv /\ StartInv /\ ScanInv
  BY Zenon DEF IndInv
<1>2. \A v \in WorkerId : pc[v] \in Pc /\ ScanAt(v)
  BY <1>1, Zenon DEF ScanInv, TypeOK
<1> QED
  BY <1>1, <1>2, Zenon DEF ScanAt, Idle

\* DelTask of tasks that were not deleted.
LEMMA Deletes ==
  ASSUME TypeOK, NEW S, DelTask(S), \A u \in S : delcnt[u] = 0
  PROVE  \A u \in Task : /\ u \in S => delcnt'[u] = 1
                         /\ u \notin S => delcnt'[u] = delcnt[u]
BY DEF TypeOK, DelTask

\* The task a worker looks at, or has in hand, is in the lane it polls.
LEMMA HandLane ==
  ASSUME IndInv, NEW w \in WorkerId, NEW t \in Task,
         AtTask(w, t) \/ (pc[w] \notin Idle \cup {"end"} /\ cur[w] = t)
  PROVE  entry[t] = "in" /\ Desc[t].lane = CurLane(w) /\ Polls(w, Desc[t].lane)
<1>1. TypeOK /\ LaneInv /\ ScanAt(w) /\ pc[w] \in Pc
  <2>1. TypeOK /\ LaneInv /\ ScanInv
    BY SMTT(30) DEF IndInv
  <2>2. pc \in [WorkerId -> Pc]
    BY <2>1, Zenon DEF TypeOK
  <2> QED
    BY <2>1, <2>2, Zenon DEF ScanInv
<1>2. entry[t] = "in" /\ off[w] < Len(lane[CurLane(w)]) /\ t = Peeked(w)
  BY <1>1, Zenon DEF AtTask, Peekable, ScanAt, Idle
<1>3. /\ CurLane(w) \in Lane /\ Polls(w, CurLane(w)) /\ off[w] \in Nat
      /\ lane[CurLane(w)] \in Seq(Task)
  BY <1>1, CurLaneType, Zenon DEF TypeOK
<1>4. off[w] + 1 \in DOMAIN lane[CurLane(w)]
  BY <1>2, <1>3
<1>5. Desc[t].lane = CurLane(w)
  BY <1>1, <1>2, <1>3, <1>4, Zenon DEF LaneInv, Peeked
<1> QED
  BY <1>2, <1>3, <1>5, Zenon

\* A worker inside an iteration has the task for itself until it has popped it.
LEMMA InHand ==
  ASSUME IndInv, Ending, NEW w \in WorkerId, NEW t \in Task,
         AtTask(w, t) \/ (pc[w] \notin Idle \cup {"end"} /\ cur[w] = t)
  PROVE  entry[t] = "in" /\ \A v \in WorkerId : pc[v] \notin Idle /\ cur[v] = t => v = w
<1>1. entry[t] = "in" /\ Desc[t].lane = CurLane(w) /\ Polls(w, Desc[t].lane)
  BY HandLane, Zenon
<1>2. ASSUME NEW v \in WorkerId, pc[v] \notin Idle, cur[v] = t PROVE v = w
  <2>1. pc[v] # "end"
    BY <1>1, <1>2, Zenon DEF Ending
  <2>2. Desc[t].lane = CurLane(v)
    BY <1>2, <2>1, HandLane, Zenon
  <2>3. ent[v] \in DOMAIN WorkQueue[v]
    BY Zenon DEF IndInv, TypeOK
  <2> QED
    BY <1>1, <2>2, <2>3, Owner, Zenon
<1> QED
  BY <1>1, <1>2, Zenon

\* A worker starts or ends a scan, or pops an entry that was complete.
LEMMA ScanMem ==
  ASSUME MemInv, UNCHANGED <<flags, alloc, delcnt, phase, client, cur>>,
         \A u \in Task : entry'[u] = entry[u]
                         \/ (entry[u] = "complete" /\ entry'[u] \in {"complete", "popped"}),
         \A v \in WorkerId : pc'[v] = pc[v] \/ (pc[v] \in Idle /\ pc'[v] \in Idle),
         \A v \in WorkerId : pc[v] \notin Idle => cur[v] \in Task
  PROVE  MemInv'
<1>1. \A u \in Task : Live(u)' <=> Live(u)
  BY Zenon DEF Live
<1>2. \A u \in Task : Gone(u) => Gone(u)'
  BY Zenon DEF Gone
<1>3. Reached'
  BY Zenon DEF MemInv, Reached, Live
<1>4. Parted'
  BY <1>2, Zenon DEF MemInv, Parted
<1>5. \A v \in WorkerId : /\ pc'[v] \in Idle <=> pc[v] \in Idle
                          /\ pc'[v] = "end" <=> pc[v] = "end"
                          /\ pc'[v] = "check" <=> pc[v] = "check"
  BY Zenon DEF Idle
<1>6. Ending'
  <2> SUFFICES ASSUME NEW v \in WorkerId, pc[v] = "end"
               PROVE  /\ entry'[cur[v]] \in {"complete", "popped"}
                      /\ Desc[cur[v]].kind # "orphan" => "module_complete" \in flags[cur[v]]
                      /\ \A x \in WorkerId : pc[x] \notin Idle /\ cur[x] = cur[v] => x = v
    BY <1>5, Zenon DEF Ending
  <2>1. cur[v] \in Task /\ entry[cur[v]] \in {"complete", "popped"}
    BY Zenon DEF MemInv, Ending, Idle
  <2>2. entry'[cur[v]] \in {"complete", "popped"}
    BY <2>1, Zenon
  <2> QED
    BY <2>2, Zenon DEF MemInv, Ending
<1>7. Finished'
  <2>1. \A u \in Task : entry'[u] = "in" => entry[u] = "in"
    BY Zenon
  <2>2. ASSUME NEW u \in Task, HasSub(u), entry'[u] = "in", "module_complete" \in flags'[u]
        PROVE  \E v \in WorkerId : pc'[v] = "check" /\ cur'[v] = u
    BY <1>5, <2>1, <2>2, ZenonT(30) DEF MemInv, Finished
  <2> QED
    BY <2>2, Zenon DEF MemInv, Finished
<1>8. Deleter'
  BY Zenon DEF MemInv, Deleter
<1> QED
  BY <1>3, <1>4, <1>6, <1>7, <1>8, Zenon DEF MemInv

\* A step of worker w on task t, which stays in its lane: its flag word may change,
\* and when t is completed by its handler w is about to find it complete.
Holds(w, t) ==
  /\ entry[t] = "in"
  /\ \A v \in WorkerId : pc[v] \notin Idle /\ cur[v] = t => v = w
  /\ pc[w] \in Idle \/ cur[w] = t
  /\ UNCHANGED <<entry, alloc, delcnt, phase, client>>
  /\ \A v \in WorkerId \ {w} : pc'[v] = pc[v] /\ cur'[v] = cur[v]
  /\ pc'[w] = "poll" \/ (pc'[w] \notin Idle \cup {"end"} /\ cur'[w] = t)
  /\ \A u \in Task : u # t => flags'[u] = flags[u]
  /\ "complete" \in flags'[t] <=> "complete" \in flags[t]
  /\ "faf" \in flags'[t] <=> "faf" \in flags[t]
  /\ "module_complete" \in flags[t] => "module_complete" \in flags'[t]
  /\ HasSub(t) /\ "module_complete" \in flags'[t] => pc'[w] = "check"
  /\ Desc[t].kind = "push" /\ "module_complete" \in flags'[t]
       => "complete" \in flags'[Desc[t].sub]

\* A worker runs, holds back or leaves a task that stays in its lane.
LEMMA HoldMem ==
  ASSUME IndInv, MemInv, NEW w \in WorkerId, NEW t \in Task, Holds(w, t)
  PROVE  MemInv'
<1> USE DEF Holds
<1>9. /\ \A v \in WorkerId : pc[v] \notin Idle => cur[v] \in Task
      /\ \A u \in Task : HasSub(u) => Desc[u].sub \in Task
      /\ \A u \in Task : Desc[u].kind = "push" => Desc[u].sub \in Task
  BY HasTask, TaskFacts, Zenon
<1>1. \A u \in Task : Live(u)' <=> Live(u)
  BY Zenon DEF Live
<1>2. \A u \in Task : /\ "complete" \in flags'[u] <=> "complete" \in flags[u]
                      /\ "faf" \in flags'[u] <=> "faf" \in flags[u]
                      /\ "module_complete" \in flags[u] => "module_complete" \in flags'[u]
  <2> TAKE u \in Task
  <2>1. CASE u = t  BY <2>1, Zenon
  <2>2. CASE u # t  BY <2>2, Zenon
  <2> QED
    BY <2>1, <2>2, Zenon
<1>3. \A u \in Task : Gone(u) => u # t /\ Gone(u)'
  BY Zenon DEF Gone, Idle
<1>4. Reached'
  <2>1. \A v \in WorkerId : pc'[v] \notin Idle => (Live(cur[v]) /\ cur'[v] = cur[v]) \/ cur'[v] = t
    BY Zenon DEF MemInv, Reached, Idle
  <2>2. Live(t)
    BY Zenon DEF MemInv, Reached
  <2>3. \A v \in WorkerId : pc'[v] \notin Idle => Live(cur'[v])
    BY <2>1, <2>2, Zenon
  <2> QED
    BY <1>2, <1>9, <2>3, Zenon DEF MemInv, Reached, Live
<1>5. Parted'
  BY <1>2, <1>3, Zenon DEF MemInv, Parted
<1>6. Ending'
  <2> SUFFICES ASSUME NEW v \in WorkerId, pc'[v] = "end"
               PROVE  /\ entry[cur'[v]] \in {"complete", "popped"}
                      /\ Desc[cur'[v]].kind # "orphan" => "module_complete" \in flags'[cur'[v]]
                      /\ \A x \in WorkerId : pc'[x] \notin Idle /\ cur'[x] = cur'[v] => x = v
    BY Zenon DEF Ending
  <2>1. v # w /\ pc[v] = "end" /\ cur'[v] = cur[v]
    BY Zenon
  <2>2. /\ entry[cur[v]] \in {"complete", "popped"} /\ cur[v] # t
        /\ Desc[cur[v]].kind # "orphan" => "module_complete" \in flags[cur[v]]
        /\ \A x \in WorkerId : pc[x] \notin Idle /\ cur[x] = cur[v] => x = v
    BY <2>1, Zenon DEF MemInv, Ending
  <2>3. "module_complete" \in flags[cur[v]] => "module_complete" \in flags'[cur[v]]
    BY <1>2, <1>9, <2>1, Zenon DEF Idle
  <2> QED
    BY <2>1, <2>2, <2>3, Zenon DEF Idle
<1>7. Finished'
  <2>1. ASSUME NEW u \in Task, HasSub(u), entry[u] = "in", "module_complete" \in flags'[u]
        PROVE  \E v \in WorkerId : pc'[v] = "check" /\ cur'[v] = u
    <3>1. CASE u = t
      BY <2>1, <3>1, Zenon
    <3>2. CASE u # t
      <4>1. PICK v \in WorkerId : pc[v] = "check" /\ cur[v] = u
        BY <2>1, <3>2, Zenon DEF MemInv, Finished
      <4>2. v # w
        BY <3>2, <4>1, Zenon DEF Idle
      <4> QED
        BY <4>1, <4>2, Zenon
    <3> QED
      BY <3>1, <3>2, Zenon
  <2>2. ASSUME NEW u \in Task, Desc[u].kind = "push", "module_complete" \in flags'[u]
        PROVE  "complete" \in flags'[Desc[u].sub]
    BY <1>2, <1>9, <2>2, Zenon DEF MemInv, Finished
  <2> QED
    BY <2>1, <2>2, Zenon DEF MemInv, Finished
<1>8. Deleter'
  BY <1>2, <1>9, Zenon DEF MemInv, Deleter, Finished
<1> QED
  BY <1>4, <1>5, <1>6, <1>7, <1>8, Zenon DEF MemInv

\* A handler emplaces its subtask and will wait for it.
LEMMA AskMem ==
  ASSUME IndInv, MemInv, NEW w \in WorkerId, NEW t \in Task, HasSub(t),
         AtTask(w, t), phase[t] = "start",
         UNCHANGED <<delcnt, client>>,
         entry' = [entry EXCEPT ![Desc[t].sub] = "in"],
         phase' = [phase EXCEPT ![t] = "wait"],
         alloc \subseteq alloc', Desc[t].sub \in alloc',
         pc' = [pc EXCEPT ![w] = pc'[w]], pc'[w] \in {"check", "pushed"},
         cur' = [cur EXCEPT ![w] = t],
         \A u \in Task : u # t /\ u # Desc[t].sub => flags'[u] = flags[u],
         flags'[t] = flags[t] \cup {"started"},
         flags'[Desc[t].sub] \subseteq flags[Desc[t].sub],
         "faf" \notin flags'[Desc[t].sub]
  PROVE  MemInv'
<1> DEFINE s == Desc[t].sub
<1>1. /\ s \in Task /\ s \notin RootTask /\ Desc[s].kind # "push"
      /\ \A u \in Task : Desc[u].sub = s => u = t
      /\ \A u \in Task : HasSub(u) => Desc[u].sub \in Task
  BY TaskFacts, Zenon
<1>2. /\ entry[t] = "in" /\ pc[w] = "poll"
      /\ \A v \in WorkerId : pc[v] \notin Idle /\ cur[v] = t => v = w
  BY InHand, ZenonT(30) DEF MemInv, AtTask
<1>3. TypeOK /\ FreshInv /\ StartInv /\ \A v \in WorkerId : pc[v] \notin Idle => cur[v] \in Task
  BY HasTask, Zenon
<1>4. entry[s] = "none" /\ s # t
  BY <1>2, <1>3, TaskFacts, Zenon DEF FreshInv
<1>5. ~Gone(s) /\ ~Gone(t) /\ "complete" \notin flags[s] /\ delcnt[s] = 0
  <2>1. ~Gone(s) /\ ~Gone(t)
    BY <1>2, <1>4, Zenon DEF Gone
  <2> QED
    BY <1>1, <2>1, Zenon DEF MemInv, Parted
<1>6. "module_complete" \notin flags[t]
  BY <1>2, Zenon DEF MemInv, Finished, Idle
<1>7. /\ entry \in [Task -> {"none", "in", "complete", "popped"}]
      /\ pc \in [WorkerId -> Pc] /\ cur \in [WorkerId -> Task \cup {NoTask}]
      /\ phase \in [Task -> {"start", "wait"}]
  BY <1>3, Zenon DEF TypeOK
<1>8. /\ entry'[s] = "in" /\ \A u \in Task : u # s => entry'[u] = entry[u]
      /\ phase'[t] = "wait" /\ \A u \in Task : u # t => phase'[u] = phase[u]
      /\ \A v \in WorkerId \ {w} : pc'[v] = pc[v] /\ cur'[v] = cur[v]
      /\ cur'[w] = t
  BY <1>1, <1>7, Zenon
<1>9. \A u \in Task : Live(u) => Live(u)'
  BY Zenon DEF Live
<1>10. Live(s)' /\ Live(t)'
  BY <1>2, <1>5, <1>9, Zenon DEF Live, MemInv, Reached
<1>11. \A u \in Task : /\ "complete" \in flags'[u] <=> "complete" \in flags[u]
                       /\ "faf" \in flags'[u] => "faf" \in flags[u]
                       /\ u # s => ("module_complete" \in flags'[u] <=> "module_complete" \in flags[u])
                       /\ "module_complete" \in flags'[u] => "module_complete" \in flags[u]
  <2> TAKE u \in Task
  <2>1. CASE u = t  BY <1>4, <2>1, SMTT(30)
  <2>2. CASE u = s  BY <1>4, <1>5, <2>2, SMTT(30)
  <2>3. CASE u # t /\ u # s  BY <2>3, Zenon
  <2> QED
    BY <2>1, <2>2, <2>3, Zenon
<1>12. \A u \in Task : Gone(u) => u # s /\ u # t /\ Gone(u)'
  <2> SUFFICES ASSUME NEW u \in Task, Gone(u) PROVE u # s /\ u # t /\ Gone(u)'
    OBVIOUS
  <2>1. u # s /\ u # t
    BY <1>5, Zenon
  <2>2. entry'[u] \in {"complete", "popped"}
    BY <1>8, <2>1, Zenon DEF Gone
  <2>3. \A v \in WorkerId : pc'[v] \notin Idle => cur'[v] # u
    BY <1>8, <2>1, ZenonT(30) DEF Gone
  <2> QED
    BY <2>1, <2>2, <2>3, Zenon DEF Gone
<1> HIDE DEF s
<1>13. Reached'
  <2>1. \A v \in WorkerId : pc'[v] \notin Idle => cur'[v] \in alloc' /\ delcnt'[cur'[v]] = 0
    <3> SUFFICES ASSUME NEW v \in WorkerId, pc'[v] \notin Idle
                 PROVE  cur'[v] \in alloc' /\ delcnt'[cur'[v]] = 0
      OBVIOUS
    <3>1. CASE v = w
      BY <1>8, <1>10, <3>1, Zenon DEF Live
    <3>2. CASE v # w
      <4>1. pc'[v] = pc[v] /\ cur'[v] = cur[v]
        BY <1>8, <3>2, Zenon
      <4>2. Live(cur[v])
        BY <4>1, Zenon DEF MemInv, Reached
      <4> QED
        BY <4>1, <4>2, Zenon DEF Live
    <3> QED
      BY <3>1, <3>2, Zenon
  <2>2. \A u \in Task : entry'[u] = "in" => Live(u)'
    BY <1>8, <1>9, <1>10, Zenon DEF MemInv, Reached
  <2>3. ASSUME NEW u \in Task, phase'[u] = "wait", "module_complete" \notin flags'[u]
        PROVE  Live(Desc[u].sub)'
    <3>1. CASE u = t
      BY <1>10, <3>1, Zenon DEF s
    <3>2. CASE u # t
      <4>1. phase[u] = "wait" /\ HasSub(u) /\ Desc[u].sub \in Task
        BY <1>1, <1>8, <2>3, <3>2, ZenonT(30) DEF MemInv, Finished
      <4>2. "module_complete" \notin flags[u]
        <5>1. CASE u # s
          BY <1>11, <2>3, <5>1, Zenon
        <5>2. CASE u = s
          BY <1>3, <1>4, <4>1, <5>2, TaskFacts, Zenon DEF StartInv, StartAt
        <5> QED
          BY <5>1, <5>2, Zenon
      <4> QED
        BY <1>9, <4>1, <4>2, Zenon DEF MemInv, Reached
    <3> QED
      BY <3>1, <3>2, Zenon
  <2>4. ASSUME NEW u \in RootTask, client'[u] \in {"emplacing", "waiting"}, NEW x \in Owned(u)
        PROVE  Live(x)'
    <3>1. Desc[u].kind = "push" => Desc[u].sub \in Task
      BY TaskFacts, Zenon DEF RootTask
    <3>2. x \in Task
      BY <3>1, Zenon DEF Owned, RootTask
    <3> QED
      BY <1>9, <2>4, <3>2, Zenon DEF MemInv, Reached
  <2> QED
    BY <2>1, <2>2, <2>3, <2>4, Zenon DEF Reached, Owned, Live
<1>14. Parted'
  <2>1. \A u \in Task : "complete" \in flags[u] => u # s /\ "module_complete" \in flags[u]
    BY <1>5, Zenon DEF MemInv, Parted
  <2> QED
    BY <1>11, <1>12, <2>1, Zenon DEF MemInv, Parted
<1>15. Ending'
  <2> SUFFICES ASSUME NEW v \in WorkerId, pc'[v] = "end"
               PROVE  /\ entry'[cur'[v]] \in {"complete", "popped"}
                      /\ Desc[cur'[v]].kind # "orphan" => "module_complete" \in flags'[cur'[v]]
                      /\ \A x \in WorkerId : pc'[x] \notin Idle /\ cur'[x] = cur'[v] => x = v
    BY Zenon DEF Ending
  <2>1. v # w /\ pc[v] = "end" /\ cur'[v] = cur[v]
    BY <1>8, Zenon
  <2>2. /\ entry[cur[v]] \in {"complete", "popped"} /\ cur[v] \in Task
        /\ Desc[cur[v]].kind # "orphan" => "module_complete" \in flags[cur[v]]
        /\ \A x \in WorkerId : pc[x] \notin Idle /\ cur[x] = cur[v] => x = v
    BY <1>3, <2>1, Zenon DEF MemInv, Ending, Idle
  <2>3. cur[v] # s /\ cur[v] # t
    BY <1>2, <1>4, <2>2, Zenon
  <2> QED
    <3>1. entry'[cur[v]] = entry[cur[v]]
      BY <1>8, <2>2, <2>3, Zenon
    <3>2. "module_complete" \in flags[cur[v]] => "module_complete" \in flags'[cur[v]]
      BY <1>11, <2>2, <2>3, Zenon
    <3>3. \A x \in WorkerId : pc'[x] \notin Idle /\ cur'[x] = cur[v] => x = v
      BY <1>8, <2>2, <2>3, Zenon
    <3> QED
      BY <2>1, <2>2, <3>1, <3>2, <3>3, Zenon
<1>16. Finished'
  <2>1. ASSUME NEW u \in Task, HasSub(u), entry'[u] = "in", "module_complete" \in flags'[u]
        PROVE  \E v \in WorkerId : pc'[v] = "check" /\ cur'[v] = u
    <3>1. "module_complete" \in flags[u] /\ u # t
      BY <1>6, <1>11, <2>1, Zenon
    <3>2. u # s
      BY <1>3, <1>4, <2>1, <3>1, TaskFacts, Zenon DEF StartInv, StartAt
    <3>3. PICK v \in WorkerId : pc[v] = "check" /\ cur[v] = u
      <4>1. entry[u] = "in"
        BY <1>8, <2>1, <3>2, Zenon
      <4> QED
        BY <2>1, <3>1, <4>1, Zenon DEF MemInv, Finished
    <3>4. v # w
      BY <1>2, <3>3, Zenon
    <3> QED
      BY <1>8, <3>3, <3>4, Zenon
  <2>2. ASSUME NEW u \in Task, Desc[u].kind = "push", "module_complete" \in flags'[u]
        PROVE  "complete" \in flags'[Desc[u].sub]
    <3>1. Desc[u].sub \in Task
      BY <2>2, TaskFacts, Zenon
    <3> QED
      BY <1>11, <2>2, <3>1, Zenon DEF MemInv, Finished
  <2>3. \A u \in Task : phase'[u] = "wait" => HasSub(u)
    BY <1>8, ZenonT(30) DEF MemInv, Finished
  <2> QED
    BY <2>1, <2>2, <2>3, Zenon DEF Finished
<1>17. Deleter'
  <2>1. \A u \in Task : phase'[u] = "wait" => "faf" \notin flags'[Desc[u].sub]
    <3> SUFFICES ASSUME NEW u \in Task, phase'[u] = "wait"
                 PROVE  "faf" \notin flags'[Desc[u].sub]
      OBVIOUS
    <3>1. CASE u = t
      BY <3>1, Zenon
    <3>2. CASE u # t
      <4>1. phase[u] = "wait" /\ Desc[u].sub \in Task
        BY <1>1, <1>8, <3>2, ZenonT(30) DEF MemInv, Finished
      <4> QED
        BY <1>11, <4>1, Zenon DEF MemInv, Deleter
    <3> QED
      BY <3>1, <3>2, Zenon
  <2> QED
    BY <1>11, <2>1, Zenon DEF MemInv, Deleter
<1> QED
  BY <1>13, <1>14, <1>15, <1>16, <1>17, Zenon DEF MemInv

\* A worker pops a task that its handler has completed, or that has no state.
LEMMA PopMem ==
  ASSUME IndInv, MemInv, NEW w \in WorkerId, NEW t \in Task, entry[t] = "in",
         \A v \in WorkerId : pc[v] \notin Idle /\ cur[v] = t => v = w,
         pc[w] \in Idle \/ cur[w] = t,
         UNCHANGED <<flags, alloc, delcnt, phase, client>>,
         entry'[t] \in {"complete", "popped"}, \A u \in Task : u # t => entry'[u] = entry[u],
         \A v \in WorkerId \ {w} : pc'[v] = pc[v] /\ cur'[v] = cur[v],
         pc'[w] = "end", cur'[w] = t,
         Desc[t].kind # "orphan" => "module_complete" \in flags[t]
  PROVE  MemInv'
<1>1. \A v \in WorkerId : pc[v] \notin Idle => cur[v] \in Task
  BY HasTask, Zenon
<1>2. Live(t)
  BY Zenon DEF MemInv, Reached
<1>3. Reached'
  <2>1. \A v \in WorkerId : pc'[v] \notin Idle => cur'[v] \in alloc /\ delcnt[cur'[v]] = 0
    <3> SUFFICES ASSUME NEW v \in WorkerId, pc'[v] \notin Idle
                 PROVE  cur'[v] \in alloc /\ delcnt[cur'[v]] = 0
      OBVIOUS
    <3>1. CASE v = w
      BY <1>2, <3>1, Zenon DEF Live
    <3>2. CASE v # w
      <4>1. pc'[v] = pc[v] /\ cur'[v] = cur[v]
        BY <3>2, Zenon
      <4>2. Live(cur[v])
        BY <4>1, Zenon DEF MemInv, Reached
      <4> QED
        BY <4>1, <4>2, Zenon DEF Live
    <3> QED
      BY <3>1, <3>2, Zenon
  <2>2. \A u \in Task : entry'[u] = "in" => u # t /\ entry[u] = "in"
    BY Zenon
  <2> QED
    BY <2>1, <2>2, Zenon DEF MemInv, Reached, Live
<1>4. Parted'
  <2>1. ASSUME NEW u \in Task, Gone(u) PROVE Gone(u)'
    <3>1. u # t
      BY <2>1, Zenon DEF Gone
    <3>2. entry'[u] \in {"complete", "popped"}
      BY <2>1, <3>1, Zenon DEF Gone
    <3>3. \A v \in WorkerId : pc'[v] \notin Idle => cur'[v] # u
      BY <2>1, <3>1, Zenon DEF Gone
    <3> QED
      BY <3>2, <3>3, Zenon DEF Gone
  <2> QED
    BY <2>1, Zenon DEF MemInv, Parted
<1>5. Ending'
  <2> SUFFICES ASSUME NEW v \in WorkerId, pc'[v] = "end"
               PROVE  /\ entry'[cur'[v]] \in {"complete", "popped"}
                      /\ Desc[cur'[v]].kind # "orphan" => "module_complete" \in flags[cur'[v]]
                      /\ \A x \in WorkerId : pc'[x] \notin Idle /\ cur'[x] = cur'[v] => x = v
    BY Zenon DEF Ending
  <2>1. CASE v = w
    BY <2>1, Zenon
  <2>2. CASE v # w
    <3>1. pc[v] = "end" /\ cur'[v] = cur[v] /\ cur[v] \in Task
      BY <1>1, <2>2, Zenon DEF Idle
    <3>2. /\ entry[cur[v]] \in {"complete", "popped"}
          /\ Desc[cur[v]].kind # "orphan" => "module_complete" \in flags[cur[v]]
          /\ \A x \in WorkerId : pc[x] \notin Idle /\ cur[x] = cur[v] => x = v
      BY <3>1, Zenon DEF MemInv, Ending
    <3>3. cur[v] # t
      BY <3>2, Zenon
    <3>4. entry'[cur[v]] = entry[cur[v]]
      BY <3>1, <3>3, Zenon
    <3>5. \A x \in WorkerId : pc'[x] \notin Idle /\ cur'[x] = cur[v] => x = v
      BY <3>2, <3>3, Zenon
    <3> QED
      BY <3>1, <3>2, <3>4, <3>5, Zenon
  <2> QED
    BY <2>1, <2>2, Zenon
<1>6. Finished'
  <2>1. ASSUME NEW u \in Task, HasSub(u), entry'[u] = "in", "module_complete" \in flags[u]
        PROVE  \E v \in WorkerId : pc'[v] = "check" /\ cur'[v] = u
    <3>1. u # t /\ entry[u] = "in"
      BY <2>1, Zenon
    <3>2. PICK v \in WorkerId : pc[v] = "check" /\ cur[v] = u
      BY <2>1, <3>1, Zenon DEF MemInv, Finished
    <3>3. v # w
      BY <3>1, <3>2, Zenon DEF Idle
    <3> QED
      BY <3>2, <3>3, Zenon
  <2> QED
    BY <2>1, Zenon DEF MemInv, Finished
<1>7. Deleter'
  BY Zenon DEF MemInv, Deleter
<1> QED
  BY <1>3, <1>4, <1>5, <1>6, <1>7, Zenon DEF MemInv

\* EndTask: the task is deleted if nobody waits for it, else marked complete, and
\* in both cases it is out of every hand.
LEMMA EndMem ==
  ASSUME IndInv, MemInv, NEW w \in WorkerId, NEW t \in Task, t = cur[w],
         EndTask(w)
  PROVE  MemInv'
<1>1. /\ TypeOK /\ FreshInv /\ StartInv
      /\ \A v \in WorkerId : pc[v] \notin Idle => cur[v] \in Task
  BY HasTask, Zenon
<1>2. /\ pc[w] = "end" /\ Live(t)
      /\ UNCHANGED <<entry, alloc, phase, client>>
  BY <1>1, Zenon DEF EndTask, Idle, MemInv, Reached
<1>3. /\ entry[t] \in {"complete", "popped"}
      /\ Desc[t].kind # "orphan" => "module_complete" \in flags[t]
      /\ \A v \in WorkerId : pc[v] \notin Idle /\ cur[v] = t => v = w
  BY <1>2, Zenon DEF MemInv, Ending
<1>4. /\ pc'[w] = "poll" /\ \A v \in WorkerId \ {w} : pc'[v] = pc[v] /\ cur'[v] = cur[v]
  BY <1>1, Zenon DEF EndTask, NextIter, TypeOK
<1>5. \A u \in Task : HasSub(u) => Desc[u].sub \in Task
  BY TaskFacts, Zenon
<1>6. \/ /\ Desc[t].faf /\ "faf" \in flags[t] /\ flags' = flags
         /\ delcnt'[t] = 1 /\ \A u \in Task : u # t => delcnt'[u] = delcnt[u]
      \/ /\ flags'[t] = flags[t] \cup {"module_complete", "complete"}
         /\ \A u \in Task : u # t => flags'[u] = flags[u]
         /\ delcnt' = delcnt
  <2>1. CASE Desc[t].kind # "orphan" /\ "faf" \in flags[t]
    <3>1. DelTask(Owned(t)) /\ flags' = flags
      BY <2>1, Zenon DEF EndTask
    <3>2. Desc[t].faf
      BY <1>2, <2>1, Zenon DEF MemInv, Deleter
    <3>3. Owned(t) = {t}
      BY <1>2, <3>2, TaskFacts, Zenon DEF Owned
    <3>4. delcnt'[t] = 1 /\ \A u \in Task : u # t => delcnt'[u] = delcnt[u]
      BY <1>1, <1>2, <3>1, <3>3, Deletes, Zenon DEF Live
    <3> QED
      BY <2>1, <3>1, <3>2, <3>4, Zenon
  <2>2. CASE ~(Desc[t].kind # "orphan" /\ "faf" \in flags[t])
    <3>1. SetFlags(t, {"module_complete", "complete"}) /\ delcnt' = delcnt
      BY <2>2, Zenon DEF EndTask
    <3>2. flags \in [Task -> SUBSET Flag]
      BY <1>1, Zenon DEF TypeOK
    <3> QED
      BY <1>2, <3>1, <3>2, Zenon DEF SetFlags
  <2> QED
    BY <2>1, <2>2, Zenon
<1>7. \A u \in Task : /\ "module_complete" \in flags[u] => "module_complete" \in flags'[u]
                      /\ "complete" \in flags[u] => "complete" \in flags'[u]
                      /\ "faf" \in flags'[u] <=> "faf" \in flags[u]
                      /\ u # t => /\ flags'[u] = flags[u]
                                  /\ delcnt'[u] = delcnt[u]
                      /\ delcnt[u] # 0 => delcnt'[u] # 0
                      /\ delcnt'[u] \in {0, 1}
  <2> TAKE u \in Task
  <2>1. delcnt[u] \in {0, 1}
    BY Zenon DEF MemInv, Deleter
  <2>2. CASE u = t  BY <1>6, <2>1, <2>2, SMTT(30)
  <2>3. CASE u # t  BY <1>6, <2>1, <2>3, SMTT(30)
  <2> QED
    BY <2>2, <2>3, Zenon
<1>8. \A u \in Task : Live(u) /\ ~(u = t /\ Desc[t].faf /\ "faf" \in flags[t]) => Live(u)'
  BY <1>2, <1>6, <1>7, Zenon DEF Live
<1>9. Gone(t)' /\ \A u \in Task : Gone(u) => Gone(u)'
  <2>1. Gone(t)'
    BY <1>2, <1>3, <1>4, Zenon DEF Gone, Idle
  <2>2. ASSUME NEW u \in Task, Gone(u) PROVE Gone(u)'
    BY <1>2, <1>4, <2>2, Zenon DEF Gone, Idle
  <2> QED
    BY <2>1, <2>2, Zenon
<1>10. Reached'
  <2>1. ASSUME NEW v \in WorkerId, pc'[v] \notin Idle
        PROVE  cur'[v] \in alloc' /\ delcnt'[cur'[v]] = 0
    <3>1. v # w /\ pc'[v] = pc[v] /\ cur'[v] = cur[v]
      BY <1>4, <2>1, Zenon DEF Idle
    <3>2. cur[v] # t /\ cur[v] \in Task /\ Live(cur[v])
      BY <1>1, <1>3, <2>1, <3>1, Zenon DEF MemInv, Reached
    <3> QED
      BY <1>2, <1>7, <3>1, <3>2, Zenon DEF Live
  <2>2. ASSUME NEW u \in Task, entry'[u] = "in" PROVE Live(u)'
    <3>1. entry[u] = "in" /\ u # t
      BY <1>2, <1>3, <2>2, Zenon
    <3> QED
      BY <1>8, <3>1, Zenon DEF MemInv, Reached
  <2>3. ASSUME NEW u \in Task, phase'[u] = "wait", "module_complete" \notin flags'[u]
        PROVE  Live(Desc[u].sub)'
    <3>1. phase[u] = "wait" /\ "module_complete" \notin flags[u] /\ Desc[u].sub \in Task
      BY <1>2, <1>5, <1>7, <2>3, Zenon DEF MemInv, Finished
    <3>2. "faf" \notin flags[Desc[u].sub] /\ Live(Desc[u].sub)
      BY <3>1, Zenon DEF MemInv, Deleter, Reached
    <3> QED
      BY <1>8, <3>1, <3>2, Zenon
  <2>4. ASSUME NEW u \in RootTask, client'[u] \in {"emplacing", "waiting"}, NEW x \in Owned(u)
        PROVE  Live(x)'
    <3>1. u \in Task /\ client[u] \in {"emplacing", "waiting"} /\ Live(x)
      BY <1>2, <2>4, Zenon DEF RootTask, MemInv, Reached
    <3>2. x = u \/ (Desc[u].kind = "push" /\ x = Desc[u].sub)
      BY Zenon DEF Owned
    <3>3. CASE x = u
      <4>1. x = t => client[u] # "emplacing"
        BY <1>1, <1>3, <3>3, Zenon DEF FreshInv
      <4>2. client[u] = "waiting" => ~Desc[u].faf
        BY Zenon DEF MemInv, Deleter
      <4> QED
        BY <1>8, <3>1, <3>3, <4>1, <4>2, Zenon
    <3>4. CASE Desc[u].kind = "push" /\ x = Desc[u].sub
      <4>1. HasSub(u) /\ x \in Task
        BY <1>5, <3>1, <3>4, TaskFacts, Zenon
      <4>2. phase[u] \in {"start", "wait"}
        BY <1>1, <3>1, Zenon DEF TypeOK
      <4>3. phase[u] = "wait" => "faf" \notin flags[x]
        BY <3>1, <3>4, Zenon DEF MemInv, Deleter
      <4>4. phase[u] = "start" => x # t
        BY <1>1, <1>3, <3>1, <3>4, <4>1, Zenon DEF FreshInv
      <4> QED
        BY <1>8, <3>1, <4>1, <4>2, <4>3, <4>4, Zenon
    <3> QED
      BY <3>2, <3>3, <3>4, Zenon
  <2> QED
    BY <2>1, <2>2, <2>3, <2>4, Zenon DEF Reached, Owned, Live
<1>11. Parted'
  <2>1. ASSUME NEW u \in Task, "complete" \in flags'[u] \/ delcnt'[u] # 0 PROVE Gone(u)'
    BY <1>7, <1>9, <2>1, Zenon DEF MemInv, Parted
  <2>2. ASSUME NEW u \in Task, "complete" \in flags'[u] PROVE "module_complete" \in flags'[u]
    <3>1. CASE u # t
      BY <1>7, <2>2, <3>1, Zenon DEF MemInv, Parted
    <3>2. CASE u = t
      BY <1>6, <2>2, <3>2, Zenon DEF MemInv, Parted
    <3> QED
      BY <3>1, <3>2, Zenon
  <2> QED
    BY <2>1, <2>2, Zenon DEF Parted
<1>12. Ending'
  <2> SUFFICES ASSUME NEW v \in WorkerId, pc'[v] = "end"
               PROVE  /\ entry'[cur'[v]] \in {"complete", "popped"}
                      /\ Desc[cur'[v]].kind # "orphan" => "module_complete" \in flags'[cur'[v]]
                      /\ \A x \in WorkerId : pc'[x] \notin Idle /\ cur'[x] = cur'[v] => x = v
    BY Zenon DEF Ending
  <2>1. v # w /\ pc[v] = "end" /\ cur'[v] = cur[v] /\ cur[v] \in Task
    BY <1>1, <1>4, Zenon DEF Idle
  <2>2. /\ entry[cur[v]] \in {"complete", "popped"}
        /\ Desc[cur[v]].kind # "orphan" => "module_complete" \in flags[cur[v]]
        /\ \A x \in WorkerId : pc[x] \notin Idle /\ cur[x] = cur[v] => x = v
    BY <2>1, Zenon DEF MemInv, Ending
  <2>3. \A x \in WorkerId : pc'[x] \notin Idle /\ cur'[x] = cur[v] => x = v
    BY <1>4, <2>2, Zenon DEF Idle
  <2> QED
    BY <1>2, <1>7, <2>1, <2>2, <2>3, Zenon
<1>13. Finished'
  <2>1. ASSUME NEW u \in Task, HasSub(u), entry'[u] = "in", "module_complete" \in flags'[u]
        PROVE  \E v \in WorkerId : pc'[v] = "check" /\ cur'[v] = u
    <3>1. u # t /\ entry[u] = "in" /\ "module_complete" \in flags[u]
      BY <1>2, <1>3, <1>7, <2>1, Zenon
    <3>2. PICK v \in WorkerId : pc[v] = "check" /\ cur[v] = u
      BY <2>1, <3>1, Zenon DEF MemInv, Finished
    <3> QED
      BY <1>2, <1>4, <3>2, Zenon
  <2>2. ASSUME NEW u \in Task, Desc[u].kind = "push", "module_complete" \in flags'[u]
        PROVE  "complete" \in flags'[Desc[u].sub]
    <3>1. "module_complete" \in flags[u] /\ Desc[u].sub \in Task
      BY <1>3, <1>5, <1>7, <2>2, TaskFacts, Zenon
    <3> QED
      BY <1>7, <2>2, <3>1, Zenon DEF MemInv, Finished
  <2> QED
    BY <1>2, <2>1, <2>2, Zenon DEF MemInv, Finished
<1>14. Deleter'
  <2>1. \A u \in Task : phase'[u] = "wait" => "faf" \notin flags'[Desc[u].sub]
    BY <1>2, <1>5, <1>7, Zenon DEF MemInv, Deleter, Finished
  <2> QED
    BY <1>2, <1>7, <2>1, Zenon DEF MemInv, Deleter, RootTask
<1> QED
  BY <1>10, <1>11, <1>12, <1>13, <1>14, Zenon DEF MemInv

\* A coroutine that has its answer deletes the subtask and completes.
LEMMA ResumeMem ==
  ASSUME IndInv, MemInv, NEW w \in WorkerId, NEW t \in Task, NEW s \in Task,
         s = Desc[t].sub, Desc[t].kind = "create", AtTask(w, t), phase[t] = "wait",
         "complete" \in flags[s], DelTask({s}),
         UNCHANGED <<entry, alloc, phase, client>>,
         \A u \in Task : u # t => flags'[u] = flags[u],
         flags'[t] = flags[t] \cup {"module_complete"},
         pc'[w] = "check", cur'[w] = t,
         \A v \in WorkerId \ {w} : pc'[v] = pc[v] /\ cur'[v] = cur[v]
  PROVE  MemInv'
<1>1. /\ TypeOK /\ FreshInv /\ StartInv
      /\ \A v \in WorkerId : pc[v] \notin Idle => cur[v] \in Task
  BY HasTask, Zenon
<1>2. /\ entry[t] = "in" /\ pc[w] = "poll"
      /\ \A v \in WorkerId : pc[v] \notin Idle /\ cur[v] = t => v = w
  BY InHand, Zenon DEF MemInv, AtTask
<1>3. /\ HasSub(t) /\ s \notin RootTask /\ \A u \in Task : Desc[u].sub = s => u = t
      /\ \A u \in Task : HasSub(u) => Desc[u].sub \in Task
  <2>1. HasSub(t)
    BY TaskFacts, Zenon DEF MemInv, Finished
  <2> QED
    BY <2>1, TaskFacts, ZenonT(30)
<1>4. Gone(s) /\ s # t /\ ~Gone(t) /\ "complete" \notin flags[t]
  <2>1. Gone(s)
    BY Zenon DEF MemInv, Parted
  <2>2. ~Gone(t)
    BY <1>2, Zenon DEF Gone
  <2> QED
    BY <2>1, <2>2, Zenon DEF MemInv, Parted
<1>5. "module_complete" \notin flags[t]
  <2>1. Finished
    BY Zenon DEF MemInv
  <2>2. \A v \in WorkerId : ~(pc[v] = "check" /\ cur[v] = t)
    BY <1>2, Zenon DEF Idle
  <2> QED
    BY <1>2, <1>3, <2>1, <2>2 DEF Finished
<1>6. Live(s)
  <2>1. Live(Desc[t].sub)
    BY <1>5, Zenon DEF MemInv, Reached
  <2> QED
    BY <2>1, Zenon
<1>7. delcnt'[s] = 1 /\ \A u \in Task : u # s => delcnt'[u] = delcnt[u]
  <2>1. \A u \in {s} : delcnt[u] = 0
    BY <1>6, Zenon DEF Live
  <2>2. \A u \in Task : /\ u \in {s} => delcnt'[u] = 1
                        /\ u \notin {s} => delcnt'[u] = delcnt[u]
    BY <1>1, <2>1, Deletes, Zenon
  <2> QED
    BY <2>2, Zenon
<1>8. \A u \in Task : /\ "complete" \in flags'[u] <=> "complete" \in flags[u]
                      /\ "faf" \in flags'[u] <=> "faf" \in flags[u]
                      /\ "module_complete" \in flags[u] => "module_complete" \in flags'[u]
                      /\ u # s /\ Live(u) => Live(u)'
                      /\ delcnt[u] # 0 => delcnt'[u] # 0
                      /\ delcnt'[u] \in {0, 1}
  <2> TAKE u \in Task
  <2>1. /\ "complete" \in flags'[u] <=> "complete" \in flags[u]
        /\ "faf" \in flags'[u] <=> "faf" \in flags[u]
        /\ "module_complete" \in flags[u] => "module_complete" \in flags'[u]
    <3>1. CASE u = t  BY <3>1, SMTT(30)
    <3>2. CASE u # t  BY <3>2, Zenon
    <3> QED
      BY <3>1, <3>2, Zenon
  <2>2. u # s /\ Live(u) => Live(u)'
    BY <1>7, Zenon DEF Live
  <2>3. delcnt[u] \in {0, 1}
    BY Zenon DEF MemInv, Deleter
  <2>4. (delcnt[u] # 0 => delcnt'[u] # 0) /\ delcnt'[u] \in {0, 1}
    BY <1>7, <2>3, SMTT(30)
  <2> QED
    BY <2>1, <2>2, <2>4, Zenon
<1>9. \A u \in Task : Gone(u) => Gone(u)'
  <2> SUFFICES ASSUME NEW u \in Task, Gone(u) PROVE Gone(u)'
    OBVIOUS
  <2>1. u # t
    BY <1>4, Zenon
  <2> QED
    BY <2>1, Zenon DEF Gone
<1>10. Reached'
  <2>1. ASSUME NEW v \in WorkerId, pc'[v] \notin Idle
        PROVE  cur'[v] \in alloc' /\ delcnt'[cur'[v]] = 0
    <3>1. CASE v = w
      <4>1. Live(t)
        BY <1>2, Zenon DEF MemInv, Reached
      <4> QED
        BY <1>4, <1>7, <3>1, <4>1, Zenon DEF Live
    <3>2. CASE v # w
      <4>1. pc'[v] = pc[v] /\ cur'[v] = cur[v]
        BY <3>2, Zenon
      <4>2. cur[v] # s /\ cur[v] \in Task /\ Live(cur[v])
        BY <1>1, <1>4, <2>1, <4>1, Zenon DEF MemInv, Reached, Gone
      <4> QED
        BY <1>7, <4>1, <4>2, Zenon DEF Live
    <3> QED
      BY <3>1, <3>2, Zenon
  <2>2. ASSUME NEW u \in Task, entry'[u] = "in" PROVE Live(u)'
    <3>1. entry[u] = "in" /\ u # s
      BY <1>4, <2>2, Zenon DEF Gone
    <3> QED
      BY <1>8, <3>1, Zenon DEF MemInv, Reached
  <2>3. ASSUME NEW u \in Task, phase'[u] = "wait", "module_complete" \notin flags'[u]
        PROVE  Live(Desc[u].sub)'
    <3>1. phase[u] = "wait" /\ "module_complete" \notin flags[u] /\ Desc[u].sub \in Task
      BY <1>3, <1>8, <2>3, Zenon DEF MemInv, Finished
    <3>2. u # t
      BY <2>3, Zenon
    <3>3. Desc[u].sub # s
      BY <1>3, <3>2, Zenon
    <3> QED
      BY <1>8, <3>1, <3>3, Zenon DEF MemInv, Reached
  <2>4. ASSUME NEW u \in RootTask, client'[u] \in {"emplacing", "waiting"}, NEW x \in Owned(u)
        PROVE  Live(x)'
    <3>1. u \in Task /\ Live(x)
      BY <2>4, Zenon DEF RootTask, MemInv, Reached
    <3>2. x = u \/ (Desc[u].kind = "push" /\ x = Desc[u].sub)
      BY Zenon DEF Owned
    <3>3. Desc[u].kind = "push" => Desc[u].sub \in Task /\ u # t
      BY <1>3, <3>1, TaskFacts, Zenon
    <3>4. x \in Task /\ x # s
      <4>1. CASE x = u
        BY <1>3, <3>1, <4>1, Zenon
      <4>2. CASE Desc[u].kind = "push" /\ x = Desc[u].sub
        BY <1>3, <3>1, <3>3, <4>2, Zenon
      <4> QED
        BY <3>2, <4>1, <4>2, Zenon
    <3> QED
      BY <1>8, <3>1, <3>4, Zenon
  <2> QED
    BY <2>1, <2>2, <2>3, <2>4, Zenon DEF Reached, Owned, Live
<1>11. Parted'
  <2>1. ASSUME NEW u \in Task, "complete" \in flags'[u] \/ delcnt'[u] # 0 PROVE Gone(u)'
    BY <1>4, <1>7, <1>8, <1>9, <2>1, Zenon DEF MemInv, Parted
  <2>2. \A u \in Task : "complete" \in flags'[u] => "module_complete" \in flags'[u]
    BY <1>8, Zenon DEF MemInv, Parted
  <2> QED
    BY <2>1, <2>2, Zenon DEF Parted
<1>12. Ending'
  <2> SUFFICES ASSUME NEW v \in WorkerId, pc'[v] = "end"
               PROVE  /\ entry'[cur'[v]] \in {"complete", "popped"}
                      /\ Desc[cur'[v]].kind # "orphan" => "module_complete" \in flags'[cur'[v]]
                      /\ \A x \in WorkerId : pc'[x] \notin Idle /\ cur'[x] = cur'[v] => x = v
    BY Zenon DEF Ending
  <2>1. v # w /\ pc[v] = "end" /\ cur'[v] = cur[v] /\ cur[v] \in Task
    BY <1>1, Zenon DEF Idle
  <2>2. /\ entry[cur[v]] \in {"complete", "popped"}
        /\ Desc[cur[v]].kind # "orphan" => "module_complete" \in flags[cur[v]]
        /\ \A x \in WorkerId : pc[x] \notin Idle /\ cur[x] = cur[v] => x = v
    BY <2>1, Zenon DEF MemInv, Ending
  <2>3. cur[v] # t
    BY <1>2, <2>2, Zenon
  <2>4. \A x \in WorkerId : pc'[x] \notin Idle /\ cur'[x] = cur[v] => x = v
    BY <2>2, <2>3, Zenon
  <2> QED
    BY <1>8, <2>1, <2>2, <2>4, ZenonT(30)
<1>13. Finished'
  <2>1. ASSUME NEW u \in Task, HasSub(u), entry'[u] = "in", "module_complete" \in flags'[u]
        PROVE  \E v \in WorkerId : pc'[v] = "check" /\ cur'[v] = u
    <3>1. CASE u = t
      BY <3>1, Zenon
    <3>2. CASE u # t
      <4>1. PICK v \in WorkerId : pc[v] = "check" /\ cur[v] = u
        BY <2>1, <3>2, Zenon DEF MemInv, Finished
      <4>2. v # w
        BY <1>2, <4>1, Zenon
      <4> QED
        BY <4>1, <4>2, Zenon
    <3> QED
      BY <3>1, <3>2, Zenon
  <2>2. ASSUME NEW u \in Task, Desc[u].kind = "push", "module_complete" \in flags'[u]
        PROVE  "complete" \in flags'[Desc[u].sub]
    <3>1. u # t /\ "module_complete" \in flags[u] /\ Desc[u].sub \in Task
      BY <1>3, <2>2, TaskFacts, Zenon
    <3> QED
      BY <1>8, <2>2, <3>1, Zenon DEF MemInv, Finished
  <2> QED
    BY <2>1, <2>2, Zenon DEF MemInv, Finished
<1>14. Deleter'
  <2>1. \A u \in Task : phase'[u] = "wait" => "faf" \notin flags'[Desc[u].sub]
    BY <1>3, <1>8, Zenon DEF MemInv, Deleter, Finished
  <2> QED
    BY <1>8, <2>1, Zenon DEF MemInv, Deleter, RootTask
<1> QED
  BY <1>10, <1>11, <1>12, <1>13, <1>14, Zenon DEF MemInv

\* A client allocates a task, and the subtask of a push.
LEMMA NewMem ==
  ASSUME IndInv, MemInv, NEW t \in RootTask, ClientNew(t)
  PROVE  MemInv'
<1>1. /\ TypeOK /\ FreshInv /\ StartInv /\ t \in Task
      /\ UNCHANGED <<entry, flags, delcnt, phase, pc, cur>>
      /\ client[t] = "idle" /\ alloc' = alloc \cup Owned(t)
      /\ client'[t] = "emplacing" /\ \A u \in RootTask : u # t => client'[u] = client[u]
  <2>1. client \in [RootTask -> {"idle", "emplacing", "waiting", "done"}]
    BY HasTask, Zenon DEF TypeOK
  <2> QED
    BY <2>1, HasTask, Zenon DEF ClientNew, scanVars, RootTask
<1>2. \A u \in Task : Live(u) => Live(u)'
  BY <1>1, Zenon DEF Live
<1>3. \A u \in Task : entry[u] = "none" => delcnt[u] = 0
  BY Zenon DEF MemInv, Parted, Gone
<1>4. \A u \in Task : HasSub(u) => Desc[u].sub \in Task
  BY TaskFacts, Zenon
<1>5. \A x \in Owned(t) : x \in Task /\ Live(x)'
  <2>1. entry[t] = "none" /\ t \in Owned(t)
    BY <1>1, Zenon DEF FreshInv, Owned
  <2>2. Live(t)'
    BY <1>1, <1>3, <2>1, Zenon DEF Live
  <2>3. CASE Desc[t].kind = "push"
    <3>1. HasSub(t) /\ Ordered(t) /\ Desc[t].sub \in Task /\ ~Desc[t].remote
      BY <1>1, <2>3, TaskFacts, Zenon
    <3>2. phase[t] = "start"
      BY <1>1, <2>1, <3>1, Zenon DEF StartInv, StartAt, TypeOK
    <3>3. entry[Desc[t].sub] = "none"
      BY <1>1, <3>1, <3>2, Zenon DEF FreshInv
    <3>4. Live(Desc[t].sub)'
      BY <1>1, <1>3, <2>3, <3>1, <3>3, Zenon DEF Live, Owned
    <3> QED
      BY <1>1, <2>2, <2>3, <3>1, <3>4, Zenon DEF Owned
  <2>4. CASE Desc[t].kind # "push"
    BY <1>1, <2>2, <2>4, Zenon DEF Owned
  <2> QED
    BY <2>3, <2>4, Zenon
<1>6. Reached'
  <2>1. \A v \in WorkerId : pc'[v] \notin Idle => Live(cur[v])
    BY <1>1, Zenon DEF MemInv, Reached
  <2>2. ASSUME NEW u \in RootTask, client'[u] \in {"emplacing", "waiting"}, NEW x \in Owned(u)
        PROVE  Live(x)'
    <3>1. CASE u = t
      BY <1>5, <3>1, Zenon
    <3>2. CASE u # t
      <4>1. client[u] \in {"emplacing", "waiting"}
        BY <1>1, <2>2, <3>2, Zenon
      <4> QED
        BY <1>1, <4>1, Zenon DEF MemInv, Reached, Live
    <3> QED
      BY <3>1, <3>2, Zenon
  <2> QED
    BY <1>1, <2>1, <2>2, Zenon DEF MemInv, Reached, Owned, Live
<1>7. Parted' /\ Ending' /\ Finished'
  BY <1>1, ZenonT(30) DEF MemInv, Parted, Gone, Ending, Finished
<1>8. Deleter'
  <2>1. \A u \in RootTask : client'[u] \in {"waiting", "done"} => client'[u] = client[u]
    BY <1>1, Zenon
  <2> QED
    BY <1>1, <2>1, Zenon DEF MemInv, Deleter
<1> QED
  BY <1>6, <1>7, <1>8, Zenon DEF MemInv

\* A client emplaces its task.
LEMMA EmplaceMem ==
  ASSUME IndInv, MemInv, NEW t \in RootTask, ClientEmplace(t)
  PROVE  MemInv'
<1>1. /\ TypeOK /\ FreshInv /\ StartInv /\ t \in Task
      /\ \A v \in WorkerId : pc[v] \notin Idle => cur[v] \in Task
  BY HasTask, Zenon DEF RootTask
<1>2. /\ UNCHANGED <<flags, alloc, delcnt, phase, pc, cur>>
      /\ client[t] = "emplacing" /\ entry[t] = "none"
  BY <1>1, Zenon DEF ClientEmplace, scanVars, FreshInv
<1>3. /\ entry'[t] = "in" /\ \A u \in Task : u # t => entry'[u] = entry[u]
      /\ client'[t] = IF Desc[t].faf THEN "done" ELSE "waiting"
      /\ \A u \in RootTask : u # t => client'[u] = client[u]
  BY <1>1, Zenon DEF ClientEmplace, Emplace, TypeOK
<1>4. Live(t) /\ \A u \in Owned(t) : Live(u)
  BY <1>2, Zenon DEF MemInv, Reached, Owned
<1>5. \A u \in Task : Gone(u) => Gone(u)'
  BY <1>2, <1>3, Zenon DEF Gone
<1>6. Reached'
  <2>1. \A u \in Task : entry'[u] = "in" => Live(u)
    BY <1>3, <1>4, Zenon DEF MemInv, Reached
  <2>2. \A u \in RootTask : client'[u] \in {"emplacing", "waiting"} => \A x \in Owned(u) : Live(x)
    BY <1>3, <1>4, Zenon DEF MemInv, Reached
  <2> QED
    BY <1>2, <2>1, <2>2, Zenon DEF MemInv, Reached, Owned, Live
<1>7. Parted'
  BY <1>2, <1>5, Zenon DEF MemInv, Parted
<1>8. Ending'
  <2>1. \A v \in WorkerId : pc[v] = "end" => entry'[cur[v]] = entry[cur[v]]
    <3> SUFFICES ASSUME NEW v \in WorkerId, pc[v] = "end" PROVE entry'[cur[v]] = entry[cur[v]]
      OBVIOUS
    <3>1. cur[v] \in Task /\ entry[cur[v]] \in {"complete", "popped"}
      BY <1>1, Zenon DEF MemInv, Ending, Idle
    <3>2. cur[v] # t
      BY <1>2, <3>1, Zenon
    <3> QED
      BY <1>3, <3>1, <3>2, Zenon
  <2> QED
    BY <1>2, <2>1, Zenon DEF MemInv, Ending
<1>9. Finished'
  <2>1. ASSUME NEW u \in Task, HasSub(u), entry'[u] = "in", "module_complete" \in flags[u]
        PROVE  entry[u] = "in"
    <3>1. u # t
      BY <1>1, <1>2, <2>1, TaskFacts, Zenon DEF StartInv, StartAt
    <3> QED
      BY <1>3, <2>1, <3>1, Zenon
  <2> QED
    BY <1>2, <2>1, Zenon DEF MemInv, Finished
<1>10. Deleter'
  <2>1. \A u \in RootTask : client'[u] = "waiting" => ~Desc[u].faf
    BY <1>3, Zenon DEF MemInv, Deleter
  <2>2. \A u \in RootTask : client'[u] = "done" => Desc[u].faf \/ delcnt[u] # 0
    BY <1>3, Zenon DEF MemInv, Deleter
  <2> QED
    BY <1>2, <2>1, <2>2, Zenon DEF MemInv, Deleter
<1> QED
  BY <1>6, <1>7, <1>8, <1>9, <1>10, Zenon DEF MemInv

\* A client deletes its task, and the destructor of a push the subtask.
LEMMA ReapMem ==
  ASSUME IndInv, MemInv, NEW t \in RootTask, ClientReap(t)
  PROVE  MemInv'
<1>1. /\ TypeOK /\ FreshInv /\ StartInv /\ t \in Task
      /\ \A v \in WorkerId : pc[v] \notin Idle => cur[v] \in Task
  BY HasTask, Zenon DEF RootTask
<1>2. /\ UNCHANGED <<entry, flags, alloc, phase, pc, cur>>
      /\ client[t] = "waiting" /\ "complete" \in flags[t] /\ DelTask(Owned(t))
      /\ client'[t] = "done" /\ \A u \in RootTask : u # t => client'[u] = client[u]
  BY <1>1, Zenon DEF ClientReap, scanVars, TypeOK
<1>3. \A u \in Task : HasSub(u) => Desc[u].sub \in Task
  BY TaskFacts, Zenon
<1>4. \A x \in Owned(t) : x \in Task /\ Live(x) /\ "complete" \in flags[x] /\ Gone(x)
  <2>1. \A x \in Owned(t) : x = t \/ (Desc[t].kind = "push" /\ x = Desc[t].sub)
    BY Zenon DEF Owned
  <2>2. \A x \in Owned(t) : Live(x)
    BY <1>2, Zenon DEF MemInv, Reached
  <2>3. "module_complete" \in flags[t]
    BY <1>1, <1>2, Zenon DEF MemInv, Parted
  <2>4. Desc[t].kind = "push" => Desc[t].sub \in Task /\ "complete" \in flags[Desc[t].sub]
    BY <1>1, <1>3, <2>3, TaskFacts, Zenon DEF MemInv, Finished
  <2>5. \A x \in Owned(t) : x \in Task /\ "complete" \in flags[x]
    BY <1>1, <1>2, <2>1, <2>4, Zenon
  <2> QED
    BY <2>2, <2>5, Zenon DEF MemInv, Parted
<1>5. \A u \in Task : /\ u \in Owned(t) => delcnt'[u] = 1
                      /\ u \notin Owned(t) => delcnt'[u] = delcnt[u]
  <2>1. \A x \in Owned(t) : delcnt[x] = 0
    BY <1>4, Zenon DEF Live
  <2> QED
    BY <1>1, <1>2, <2>1, Deletes, Zenon
<1>6. \A u \in Task : Live(u) /\ u \notin Owned(t) => Live(u)'
  BY <1>2, <1>5, Zenon DEF Live
<1>7. Reached'
  <2>1. ASSUME NEW v \in WorkerId, pc'[v] \notin Idle
        PROVE  cur'[v] \in alloc' /\ delcnt'[cur'[v]] = 0
    <3>1. cur[v] \in Task /\ Live(cur[v]) /\ cur[v] \notin Owned(t)
      BY <1>1, <1>2, <1>4, <2>1, Zenon DEF MemInv, Reached, Gone
    <3> QED
      BY <1>2, <1>5, <3>1, Zenon DEF Live
  <2>2. ASSUME NEW u \in Task, entry'[u] = "in" PROVE Live(u)'
    <3>1. entry[u] = "in" /\ u \notin Owned(t)
      BY <1>2, <1>4, <2>2, Zenon DEF Gone
    <3> QED
      BY <1>6, <3>1, Zenon DEF MemInv, Reached
  <2>3. ASSUME NEW u \in Task, phase'[u] = "wait", "module_complete" \notin flags'[u]
        PROVE  Live(Desc[u].sub)'
    <3>1. /\ phase[u] = "wait" /\ "module_complete" \notin flags[u]
          /\ HasSub(u) /\ Desc[u].sub \in Task
      BY <1>2, <1>3, <2>3, Zenon DEF MemInv, Finished
    <3>2. u # t
      BY <1>1, <1>2, <3>1, Zenon DEF MemInv, Parted
    <3>3. Desc[u].sub \notin RootTask /\ \A x \in Task : Desc[x].sub = Desc[u].sub => x = u
      BY <3>1, TaskFacts, Zenon
    <3>4. Desc[u].sub \notin Owned(t)
      BY <1>1, <3>2, <3>3, Zenon DEF Owned
    <3> QED
      BY <1>6, <3>1, <3>4, Zenon DEF MemInv, Reached
  <2>4. ASSUME NEW u \in RootTask, client'[u] \in {"emplacing", "waiting"}, NEW x \in Owned(u)
        PROVE  Live(x)'
    <3>1. u \in Task /\ u # t /\ client[u] \in {"emplacing", "waiting"}
      BY <1>2, <2>4, Zenon DEF RootTask
    <3>2. Live(x)
      BY <2>4, <3>1, Zenon DEF MemInv, Reached
    <3>3. CASE x = u
      <4>1. Desc[t].kind = "push" => Desc[t].sub \notin RootTask
        BY <1>1, TaskFacts, Zenon
      <4>2. x \notin Owned(t)
        BY <3>1, <3>3, <4>1, Zenon DEF Owned
      <4> QED
        BY <1>6, <3>1, <3>2, <3>3, <4>2, Zenon
    <3>4. CASE Desc[u].kind = "push" /\ x = Desc[u].sub
      <4>1. HasSub(u)
        BY <3>1, <3>4, TaskFacts, Zenon
      <4>2. x \in Task /\ x \notin RootTask /\ \A y \in Task : Desc[y].sub = x => y = u
        BY <3>1, <3>4, <4>1, TaskFacts, Zenon
      <4>3. x \notin Owned(t)
        BY <1>1, <3>1, <4>2, Zenon DEF Owned
      <4> QED
        BY <1>6, <3>2, <4>2, <4>3, Zenon
    <3>5. x = u \/ (Desc[u].kind = "push" /\ x = Desc[u].sub)
      BY Zenon DEF Owned
    <3> QED
      BY <3>3, <3>4, <3>5, Zenon
  <2> QED
    BY <2>1, <2>2, <2>3, <2>4, Zenon DEF Reached, Owned, Live
<1>8. Parted'
  <2>1. \A u \in Task : Gone(u)' <=> Gone(u)
    BY <1>2, Zenon DEF Gone
  <2>2. ASSUME NEW u \in Task, "complete" \in flags[u] \/ delcnt'[u] # 0 PROVE Gone(u)
    BY <1>4, <1>5, <2>2, Zenon DEF MemInv, Parted
  <2> QED
    BY <1>2, <2>1, <2>2, Zenon DEF MemInv, Parted
<1>9. Ending' /\ Finished'
  BY <1>2, Zenon DEF MemInv, Ending, Finished
<1>10. Deleter'
  <2>1. ASSUME NEW u \in Task
        PROVE  delcnt'[u] \in {0, 1} /\ (delcnt[u] # 0 => delcnt'[u] # 0)
    <3>1. delcnt[u] \in {0, 1}
      BY Zenon DEF MemInv, Deleter
    <3> QED
      BY <1>5, <3>1, SMTT(30)
  <2>2. delcnt'[t] # 0
    BY <1>1, <1>5, SMTT(30) DEF Owned
  <2>3. \A u \in RootTask : client'[u] = "done" => Desc[u].faf \/ delcnt'[u] # 0
    BY <1>2, <2>1, <2>2, Zenon DEF MemInv, Deleter, RootTask
  <2>4. \A u \in RootTask : client'[u] = "waiting" => ~Desc[u].faf
    BY <1>2, Zenon DEF MemInv, Deleter
  <2> QED
    BY <1>2, <2>1, <2>3, <2>4, Zenon DEF MemInv, Deleter
<1> QED
  BY <1>7, <1>8, <1>9, <1>10, Zenon DEF MemInv

\* The thread of a PushTask marks a task that is in its lane.
LEMMA MarkMem ==
  ASSUME IndInv, MemInv, NEW t \in Task, entry[t] = "in", ~HasSub(t),
         UNCHANGED <<entry, alloc, delcnt, phase, client, pc, cur>>,
         flags'[t] = flags[t] \cup {"module_complete"},
         \A u \in Task : u # t => flags'[u] = flags[u]
  PROVE  MemInv'
<1>1. \A v \in WorkerId : pc[v] \notin Idle => cur[v] \in Task
  BY HasTask, Zenon
<1>2. \A u \in Task : /\ "complete" \in flags'[u] <=> "complete" \in flags[u]
                      /\ "faf" \in flags'[u] <=> "faf" \in flags[u]
                      /\ "module_complete" \in flags[u] => "module_complete" \in flags'[u]
                      /\ HasSub(u) => flags'[u] = flags[u]
  <2> TAKE u \in Task
  <2>1. CASE u = t  BY <2>1, SMTT(30)
  <2>2. CASE u # t  BY <2>2, Zenon
  <2> QED
    BY <2>1, <2>2, Zenon
<1>3. \A u \in Task : Desc[u].kind = "push" => HasSub(u) /\ Desc[u].sub \in Task
  BY TaskFacts, Zenon
<1>4. \A u \in Task : phase[u] = "wait" => HasSub(u) /\ Desc[u].sub \in Task
  BY TaskFacts, Zenon DEF MemInv, Finished
<1>5. Reached'
  BY <1>2, <1>4, Zenon DEF MemInv, Reached, Owned, Live
<1>6. Parted'
  BY <1>2, Zenon DEF MemInv, Parted, Gone
<1>7. Ending'
  BY <1>1, <1>2, Zenon DEF MemInv, Ending, Idle
<1>8. Finished'
  BY <1>2, <1>3, Zenon DEF MemInv, Finished
<1>9. Deleter'
  BY <1>2, <1>4, Zenon DEF MemInv, Deleter
<1> QED
  BY <1>5, <1>6, <1>7, <1>8, <1>9, Zenon DEF MemInv

\* Disperse: a PushTask is created and emplaced, the worker keeps the task.
LEMMA DisperseMem ==
  ASSUME IndInv, MemInv, NEW w \in WorkerId, NEW t \in Task, AtTask(w, t),
         NEW q \in ThreadTask, q \notin alloc,
         alloc' = alloc \cup {q}, entry' = [entry EXCEPT ![q] = "in"],
         UNCHANGED <<flags, delcnt, phase, client>>,
         pc'[w] = "disable_read", cur'[w] = t,
         \A v \in WorkerId \ {w} : pc'[v] = pc[v] /\ cur'[v] = cur[v]
  PROVE  MemInv'
<1>1. /\ TypeOK /\ FreshInv /\ q \in Task /\ ~HasSub(q)
      /\ \A v \in WorkerId : pc[v] \notin Idle => cur[v] \in Task
  BY HasTask, TaskFacts, Zenon DEF ThreadTask
<1>2. /\ entry[t] = "in" /\ pc[w] = "poll" /\ pc[w] \in Idle
      /\ \A v \in WorkerId : pc[v] \notin Idle /\ cur[v] = t => v = w
  BY InHand, Zenon DEF MemInv, AtTask, Idle
<1>3. entry[q] = "none" /\ q # t
  BY <1>1, <1>2, Zenon DEF FreshInv
<1>4. entry'[q] = "in" /\ \A u \in Task : u # q => entry'[u] = entry[u]
  BY <1>1, Zenon DEF TypeOK
<1>5. delcnt[q] = 0
  BY <1>1, <1>3, Zenon DEF MemInv, Parted, Gone
<1>6. Live(q)' /\ Live(t)' /\ \A u \in Task : Live(u) => Live(u)'
  BY <1>1, <1>2, <1>5, Zenon DEF Live, MemInv, Reached
<1>7. \A u \in Task : Gone(u) => Gone(u)'
  <2> SUFFICES ASSUME NEW u \in Task, Gone(u) PROVE Gone(u)'
    OBVIOUS
  <2>1. u # q /\ u # t
    BY <1>2, <1>3, Zenon DEF Gone
  <2>2. entry'[u] \in {"complete", "popped"}
    BY <1>4, <2>1, Zenon DEF Gone
  <2>3. \A v \in WorkerId : pc'[v] \notin Idle => cur'[v] # u
    BY <2>1, Zenon DEF Gone
  <2> QED
    BY <2>2, <2>3, Zenon DEF Gone
<1>8. Reached'
  <2>1. ASSUME NEW v \in WorkerId, pc'[v] \notin Idle
        PROVE  cur'[v] \in alloc' /\ delcnt'[cur'[v]] = 0
    <3>1. CASE v = w
      BY <1>6, <3>1, Zenon DEF Live
    <3>2. CASE v # w
      <4>1. pc'[v] = pc[v] /\ cur'[v] = cur[v]
        BY <3>2, Zenon
      <4>2. Live(cur[v])
        BY <2>1, <4>1, Zenon DEF MemInv, Reached
      <4> QED
        BY <4>1, <4>2, Zenon DEF Live
    <3> QED
      BY <3>1, <3>2, Zenon
  <2>2. \A u \in Task : entry'[u] = "in" => Live(u)'
    BY <1>4, <1>6, Zenon DEF MemInv, Reached
  <2>3. \A u \in Task : phase[u] = "wait" /\ "module_complete" \notin flags[u]
                       => Live(Desc[u].sub)'
    <3>1. \A u \in Task : phase[u] = "wait" => Desc[u].sub \in Task
      BY TaskFacts, Zenon DEF MemInv, Finished
    <3> QED
      BY <1>6, <3>1, Zenon DEF MemInv, Reached
  <2>4. \A u \in RootTask : client[u] \in {"emplacing", "waiting"}
                           => \A x \in Owned(u) : Live(x)'
    <3>1. \A u \in RootTask : Desc[u].kind = "push" => Desc[u].sub \in Task
      BY TaskFacts, Zenon DEF RootTask
    <3>2. \A u \in RootTask : \A x \in Owned(u) : x \in Task
      BY <3>1, Zenon DEF Owned, RootTask
    <3> QED
      BY <1>6, <3>2, Zenon DEF MemInv, Reached
  <2> QED
    BY <2>1, <2>2, <2>3, <2>4, Zenon DEF Reached, Owned, Live
<1>9. Parted'
  BY <1>7, Zenon DEF MemInv, Parted
<1>10. Ending'
  <2> SUFFICES ASSUME NEW v \in WorkerId, pc'[v] = "end"
               PROVE  /\ entry'[cur'[v]] \in {"complete", "popped"}
                      /\ Desc[cur'[v]].kind # "orphan" => "module_complete" \in flags[cur'[v]]
                      /\ \A x \in WorkerId : pc'[x] \notin Idle /\ cur'[x] = cur'[v] => x = v
    BY Zenon DEF Ending
  <2>1. v # w /\ pc[v] = "end" /\ cur'[v] = cur[v] /\ cur[v] \in Task
    BY <1>1, Zenon DEF Idle
  <2>2. /\ entry[cur[v]] \in {"complete", "popped"}
        /\ Desc[cur[v]].kind # "orphan" => "module_complete" \in flags[cur[v]]
        /\ \A x \in WorkerId : pc[x] \notin Idle /\ cur[x] = cur[v] => x = v
    BY <2>1, Zenon DEF MemInv, Ending
  <2>3. cur[v] # t /\ cur[v] # q
    BY <1>2, <1>3, <2>2, Zenon
  <2>4. entry'[cur[v]] = entry[cur[v]]
    BY <1>4, <2>1, <2>3, Zenon
  <2>5. \A x \in WorkerId : pc'[x] \notin Idle /\ cur'[x] = cur[v] => x = v
    BY <2>2, <2>3, Zenon
  <2> QED
    BY <2>1, <2>2, <2>4, <2>5, Zenon
<1>11. Finished'
  <2>1. ASSUME NEW u \in Task, HasSub(u), entry'[u] = "in", "module_complete" \in flags[u]
        PROVE  \E v \in WorkerId : pc'[v] = "check" /\ cur'[v] = u
    <3>1. entry[u] = "in"
      BY <1>1, <1>4, <2>1, Zenon
    <3>2. PICK v \in WorkerId : pc[v] = "check" /\ cur[v] = u
      BY <2>1, <3>1, Zenon DEF MemInv, Finished
    <3>3. v # w
      BY <1>2, <3>2, Zenon
    <3> QED
      BY <3>2, <3>3, Zenon
  <2> QED
    BY <2>1, Zenon DEF MemInv, Finished
<1>12. Deleter'
  BY Zenon DEF MemInv, Deleter
<1> QED
  BY <1>8, <1>9, <1>10, <1>11, <1>12, Zenon DEF MemInv

\* A step of worker w on the task it looks at: what such steps have in common.
LEMMA AtMem ==
  ASSUME IndInv, MemInv, NEW w \in WorkerId, NEW t \in Task,
         AtTask(w, t), PollTask(w, t)
  PROVE  MemInv' /\ \A u \in Task : flags'[u] = flags[u] \/ ~Gone(u)
<1>1. /\ TypeOK /\ FreshInv /\ StartInv
      /\ \A v \in WorkerId : pc[v] \notin Idle => cur[v] \in Task
  BY HasTask, Zenon
<1>2. /\ entry[t] = "in" /\ pc[w] = "poll" /\ pc[w] \in Idle
      /\ \A v \in WorkerId : pc[v] \notin Idle /\ cur[v] = t => v = w
  BY InHand, Zenon DEF MemInv, AtTask, Idle
<1>3. \A u \in Task : /\ HasSub(u) => Desc[u].sub \in Task
                      /\ Desc[u].kind = "push" => Desc[u].sub \in Task
  BY TaskFacts, Zenon
<1>4. /\ pc \in [WorkerId -> Pc] /\ cur \in [WorkerId -> Task \cup {NoTask}]
      /\ flags \in [Task -> SUBSET Flag]
      /\ entry \in [Task -> {"none", "in", "complete", "popped"}]
  BY <1>1, Zenon DEF TypeOK
<1>5. ~Gone(t)
  BY <1>2, Zenon DEF Gone
<1>6. ASSUME NEW next, Execute(w, t, next)
      PROVE  /\ pc'[w] = next /\ cur'[w] = t /\ client' = client
             /\ \A v \in WorkerId \ {w} : pc'[v] = pc[v] /\ cur'[v] = cur[v]
             /\ pc' = [pc EXCEPT ![w] = next] /\ cur' = [cur EXCEPT ![w] = t]
  BY <1>4, <1>6, Zenon DEF Execute
<1>7. ASSUME NEW S, SetFlags(t, S)
      PROVE  flags'[t] = flags[t] \cup S /\ \A u \in Task : u # t => flags'[u] = flags[u]
  BY <1>4, <1>7, Zenon DEF SetFlags
<1>8. CASE PollOrphan(w, t)
  <2>1. /\ UNCHANGED <<flags, alloc, delcnt, phase, client>>
        /\ pc'[w] = "end" /\ cur'[w] = t /\ Desc[t].kind = "orphan"
        /\ \A v \in WorkerId \ {w} : pc'[v] = pc[v] /\ cur'[v] = cur[v]
    BY <1>4, <1>8, Zenon DEF PollOrphan
  <2>2. entry'[t] \in {"complete", "popped"} /\ \A u \in Task : u # t => entry'[u] = entry[u]
    BY <1>4, <1>8, Zenon DEF PollOrphan, PopTask
  <2> QED
    BY <1>2, <2>1, <2>2, PopMem, Zenon
<1>9. CASE PollHold(w, t)
  <2>1. /\ UNCHANGED <<entry, flags, alloc, delcnt, phase, client>>
        /\ pc'[w] = "check" /\ cur'[w] = t
        /\ \A v \in WorkerId \ {w} : pc'[v] = pc[v] /\ cur'[v] = cur[v]
    BY <1>4, <1>9, Zenon DEF PollHold, taskVars
  <2>2. Desc[t].kind = "push" /\ "module_complete" \in flags[t] => "complete" \in flags[Desc[t].sub]
    BY Zenon DEF MemInv, Finished
  <2>3. /\ "complete" \in flags'[t] <=> "complete" \in flags[t]
        /\ "faf" \in flags'[t] <=> "faf" \in flags[t]
        /\ "module_complete" \in flags[t] => "module_complete" \in flags'[t]
    BY <2>1, Zenon
  <2>4. MemInv'
    <3>1. Holds(w, t)
      BY <1>2, <1>3, <2>1, <2>2, <2>3, Zenon DEF Holds, Idle
    <3> QED
      BY <3>1, HoldMem, Zenon
  <2> QED
    BY <2>1, <2>4, Zenon
<1>10. ASSUME NEW S, S \subseteq {"started", "module_complete", "disable_run"}, Execute(w, t, "check"),
              SetFlags(t, S), UNCHANGED <<entry, alloc, delcnt, phase>>,
              Desc[t].kind = "push" /\ "module_complete" \in S => "complete" \in flags[Desc[t].sub]
       PROVE  MemInv' /\ \A u \in Task : flags'[u] = flags[u] \/ ~Gone(u)
  <2>1. /\ pc'[w] = "check" /\ cur'[w] = t /\ client' = client
        /\ \A v \in WorkerId \ {w} : pc'[v] = pc[v] /\ cur'[v] = cur[v]
        /\ flags'[t] = flags[t] \cup S /\ \A u \in Task : u # t => flags'[u] = flags[u]
    BY <1>6, <1>7, <1>10, Zenon
  <2>2. /\ "complete" \in flags'[t] <=> "complete" \in flags[t]
        /\ "faf" \in flags'[t] <=> "faf" \in flags[t]
        /\ "module_complete" \in flags[t] => "module_complete" \in flags'[t]
    BY <1>10, <2>1, Zenon
  <2>3. Desc[t].kind = "push" /\ "module_complete" \in flags'[t]
          => "complete" \in flags[Desc[t].sub]
    BY <1>10, <2>1, Zenon DEF MemInv, Finished
  <2>4. "complete" \in flags[Desc[t].sub] /\ Desc[t].kind = "push"
          => "complete" \in flags'[Desc[t].sub]
    BY <1>3, <2>1, <2>2, Zenon
  <2>5. MemInv'
    <3>1. Holds(w, t)
      BY <1>2, <1>3, <1>10, <2>1, <2>3, <2>4, <2>2, Zenon DEF Holds, Idle
    <3> QED
      BY <3>1, HoldMem, Zenon
  <2> QED
    BY <1>5, <2>1, <2>5, Zenon
<1>11. CASE RunOneshot(w, t)
  BY <1>10, <1>11, Zenon DEF RunOneshot, Local
<1>12. CASE RunResident(w, t)
  BY <1>10, <1>12, Zenon DEF RunResident, Local
<1>13. CASE PushWait(w, t)
  <2> DEFINE S == IF "complete" \in flags[Desc[t].sub]
                  THEN {"started", "module_complete"} ELSE {"started"}
  <2>1. S \subseteq {"started", "module_complete", "disable_run"}
        /\ ("module_complete" \in S => "complete" \in flags[Desc[t].sub])
    BY Zenon
  <2> QED
    BY <1>10, <1>13, <2>1, Zenon DEF PushWait
<1>14. CASE CreateKnown(w, t)
  BY <1>10, <1>14, Zenon DEF CreateKnown, Local
<1>15. CASE PushSchedule(w, t)
  <2>1. /\ HasSub(t) /\ phase[t] = "start" /\ Execute(w, t, "pushed")
        /\ UNCHANGED <<alloc, delcnt>> /\ Desc[t].kind = "push"
        /\ entry' = [entry EXCEPT ![Desc[t].sub] = "in"]
        /\ phase' = [phase EXCEPT ![t] = "wait"]
        /\ flags' = [flags EXCEPT ![t] = @ \cup {"started"},
                                  ![Desc[t].sub] = UnsetFireAndForget(@)]
    BY <1>15, TaskFacts, Zenon DEF PushSchedule, Local, Emplace
  <2>2. /\ HasSub(t) /\ Desc[t].sub \in Task /\ t \in RootTask
        /\ Desc[Desc[t].sub].kind # "push"
    BY <2>1, TaskFacts, Zenon
  <2>3. entry[Desc[t].sub] = "none" /\ Desc[t].sub # t
    BY <1>1, <2>1, <2>2, ZenonT(30) DEF FreshInv
  <2>4. /\ \A u \in Task : u # t /\ u # Desc[t].sub => flags'[u] = flags[u]
        /\ flags'[t] = flags[t] \cup {"started"}
        /\ flags'[Desc[t].sub] = flags[Desc[t].sub] \ {"faf"}
    BY <1>4, <2>1, <2>2, <2>3, SMTT(30) DEF UnsetFireAndForget
  <2>5. flags'[Desc[t].sub] \subseteq flags[Desc[t].sub] /\ "faf" \notin flags'[Desc[t].sub]
    BY <2>4, Zenon
  <2>6. Desc[t].sub \in alloc
    <3>1. client[t] \in {"idle", "emplacing", "waiting", "done"}
      BY <1>1, <2>2, Zenon DEF TypeOK
    <3>2. client[t] # "idle"
      BY <1>1, <1>2, <2>2, Zenon DEF FreshInv
    <3>3. client[t] # "done"
      <4>1. ~Desc[t].faf
        BY <2>1, TaskFacts, Zenon
      <4>2. delcnt[t] = 0
        BY <1>5, Zenon DEF MemInv, Parted
      <4> QED
        BY <2>2, <4>1, <4>2, Zenon DEF MemInv, Deleter
    <3>4. client[t] \in {"emplacing", "waiting"}
      BY <3>1, <3>2, <3>3, Zenon
    <3>5. Desc[t].sub \in Owned(t)
      BY <2>1, Zenon DEF Owned
    <3> QED
      BY <2>2, <3>4, <3>5, Zenon DEF MemInv, Reached, Live
  <2>7. ~Gone(Desc[t].sub)
    BY <2>3, Zenon DEF Gone
  <2>8. MemInv'
    BY <1>6, <2>1, <2>4, <2>5, <2>6, AskMem, ZenonT(30)
  <2> QED
    BY <1>5, <2>4, <2>7, <2>8, Zenon
<1>16. CASE CreateAskId(w, t)
  <2>1. /\ HasSub(t) /\ phase[t] = "start" /\ Execute(w, t, "check")
        /\ UNCHANGED delcnt /\ Desc[t].kind = "create"
        /\ entry' = [entry EXCEPT ![Desc[t].sub] = "in"]
        /\ phase' = [phase EXCEPT ![t] = "wait"]
        /\ alloc' = alloc \cup {Desc[t].sub}
        /\ SetFlags(t, {"started"})
    BY <1>16, TaskFacts, Zenon DEF CreateAskId, Local, Emplace
  <2>2. HasSub(t) /\ Desc[t].sub \in Task
    BY <2>1, TaskFacts, Zenon
  <2>3. entry[Desc[t].sub] = "none" /\ Desc[t].sub # t
    BY <1>1, <1>2, <2>1, <2>2, Zenon DEF FreshInv
  <2>4. /\ \A u \in Task : u # t => flags'[u] = flags[u]
        /\ flags'[t] = flags[t] \cup {"started"}
    BY <1>7, <2>1, Zenon
  <2>5. flags'[Desc[t].sub] \subseteq flags[Desc[t].sub] /\ "faf" \notin flags'[Desc[t].sub]
    BY <2>1, <2>2, <2>3, <2>4, TaskFacts, Zenon DEF MemInv, Deleter
  <2>6. MemInv'
    BY <1>6, <2>1, <2>4, <2>5, AskMem, Zenon
  <2> QED
    BY <1>5, <2>4, <2>6, Zenon
<1>17. CASE CreateResume(w, t)
  <2>1. /\ HasSub(t) /\ phase[t] = "wait" /\ Execute(w, t, "check") /\ Desc[t].kind = "create"
        /\ UNCHANGED <<entry, alloc, phase>>
    BY <1>17, TaskFacts, Zenon DEF CreateResume, Local
  <2>2. CASE "complete" \in flags[Desc[t].sub]
    <3>1. SetFlags(t, {"module_complete"}) /\ DelTask({Desc[t].sub}) /\ Desc[t].sub \in Task
      BY <1>3, <1>17, <2>1, <2>2, Zenon DEF CreateResume, DelSub
    <3>2. /\ flags'[t] = flags[t] \cup {"module_complete"}
          /\ \A u \in Task : u # t => flags'[u] = flags[u]
      BY <1>7, <3>1, Zenon
    <3>3. MemInv'
      <4>1. PICK s \in Task : s = Desc[t].sub
        BY <3>1, Zenon
      <4>2. /\ "complete" \in flags[s] /\ DelTask({s}) /\ pc'[w] = "check" /\ cur'[w] = t
            /\ \A v \in WorkerId \ {w} : pc'[v] = pc[v] /\ cur'[v] = cur[v]
            /\ UNCHANGED <<entry, alloc, phase, client>>
        BY <1>6, <2>1, <2>2, <3>1, <4>1, Zenon
      <4> QED
        BY <2>1, <3>2, <4>1, <4>2, ResumeMem, Zenon
    <3> QED
      BY <1>5, <3>2, <3>3, Zenon
  <2>3. CASE "complete" \notin flags[Desc[t].sub]
    <3>1. UNCHANGED <<flags, delcnt>>
      BY <1>17, <2>3, Zenon DEF CreateResume
    <3>2. SetFlags(t, {})
      BY <1>4, <3>1 DEF SetFlags
    <3> QED
      BY <1>10, <2>1, <3>1, <3>2, Zenon
  <2> QED
    BY <2>2, <2>3, Zenon
<1>18. CASE Disperse(w, t)
  <2>1. PICK q \in ThreadTask : /\ q \notin alloc /\ Emplace(q) /\ alloc' = alloc \cup {q}
    BY <1>18, Zenon DEF Disperse
  <2>2. /\ Execute(w, t, "disable_read") /\ UNCHANGED <<flags, delcnt, phase>>
        /\ entry' = [entry EXCEPT ![q] = "in"]
    BY <1>18, <2>1, Zenon DEF Disperse, Emplace
  <2>3. MemInv'
    BY <1>6, <2>1, <2>2, DisperseMem, Zenon
  <2> QED
    BY <2>2, <2>3, Zenon
<1>19. CASE RunPreemptive(w, t)
  BY <1>10, <1>19, Zenon DEF RunPreemptive, Local
<1> QED
  BY <1>8, <1>9, <1>11, <1>12, <1>13, <1>14, <1>15, <1>16, <1>17, <1>18, <1>19, Zenon DEF PollTask

\* A worker goes through its work entries or pops an entry that was complete.
LEMMA IdleMem ==
  ASSUME IndInv, MemInv, NEW w \in WorkerId, Run(w) \/ PollReturn(w) \/ PollComplete(w)
  PROVE  MemInv' /\ flags' = flags
<1>1. /\ TypeOK /\ \A v \in WorkerId : pc[v] \notin Idle => cur[v] \in Task
      /\ pc \in [WorkerId -> Pc] /\ entry \in [Task -> {"none", "in", "complete", "popped"}]
  BY HasTask, Zenon DEF TypeOK
<1>2. /\ UNCHANGED <<flags, alloc, delcnt, phase, client, cur>>
      /\ pc[w] \in {"entry", "poll"}
  BY Zenon DEF Run, PollReturn, PollComplete, taskVars
<1>3. ASSUME NEW x \in {"entry", "poll", "exited"}, pc' = [pc EXCEPT ![w] = x]
      PROVE  \A v \in WorkerId : pc'[v] = pc[v] \/ (pc[v] \in Idle /\ pc'[v] \in Idle)
  BY <1>1, <1>2, <1>3, Zenon DEF Idle
<1>4. NextEntry(w) => \E x \in {"entry", "poll", "exited"} : pc' = [pc EXCEPT ![w] = x]
  BY Zenon DEF NextEntry
<1>5. BeginPoll(w) \/ NextIter(w) => pc' = [pc EXCEPT ![w] = "poll"]
  BY Zenon DEF BeginPoll, NextIter
<1>6. BeginPoll(w) \/ NextEntry(w) \/ NextIter(w)
  BY Zenon DEF Run, PollReturn, PollComplete
<1>7. \A v \in WorkerId : pc'[v] = pc[v] \/ (pc[v] \in Idle /\ pc'[v] \in Idle)
  BY <1>3, <1>4, <1>5, <1>6, Zenon
<1>8. \A u \in Task : \/ entry'[u] = entry[u]
                      \/ (entry[u] = "complete" /\ entry'[u] \in {"complete", "popped"})
  <2>1. CASE Run(w) \/ PollReturn(w)
    BY <2>1, Zenon DEF Run, PollReturn, taskVars
  <2>2. CASE PollComplete(w)
    BY <1>1, <2>2, Zenon DEF PollComplete, PopTask
  <2> QED
    BY <2>1, <2>2, Zenon
<1> QED
  BY <1>1, <1>2, <1>7, <1>8, ScanMem, Zenon

\* The later steps of an iteration: the push looks at its subtask again, the flag
\* word of a dispersed task is updated, the task stays in its lane, leaves it or
\* ends.
LEMMA LaterMem ==
  ASSUME IndInv, MemInv, Current, NEW w \in WorkerId, NEW t \in Task, t = cur[w],
         \/ PushCheck(w) \/ FlagRead(w) \/ FlagWrite(w)
         \/ CheckIncomplete(w) \/ CheckComplete(w) \/ EndTask(w)
  PROVE  MemInv' /\ \A u \in Task : flags'[u] = flags[u] \/ ~Gone(u)
<1>1. /\ pc \in [WorkerId -> Pc] /\ flags \in [Task -> SUBSET Flag]
      /\ cur \in [WorkerId -> Task \cup {NoTask}]
      /\ entry \in [Task -> {"none", "in", "complete", "popped"}]
  BY HasTask, Zenon DEF TypeOK
<1>2. pc[w] \notin Idle
  BY Zenon DEF PushCheck, FlagRead, FlagWrite, CheckIncomplete, CheckComplete, EndTask, Idle
<1>3. ~Gone(t)
  BY <1>2, Zenon DEF Gone
<1>4. ASSUME pc[w] # "end"
      PROVE  entry[t] = "in" /\ \A v \in WorkerId : pc[v] \notin Idle /\ cur[v] = t => v = w
  BY <1>2, <1>4, InHand, Zenon DEF MemInv
<1>5. Desc[t].kind = "push" => Desc[t].sub \in Task
  BY TaskFacts, Zenon
<1>6. Desc[t].kind = "push" /\ "module_complete" \in flags[t] => "complete" \in flags[Desc[t].sub]
  BY Zenon DEF MemInv, Finished
<1>7. CASE PushCheck(w)
  <2> DEFINE S == IF "complete" \in flags[Desc[t].sub] THEN {"module_complete"} ELSE {}
  <2>1. S \subseteq {"module_complete"}
        /\ ("module_complete" \in S => "complete" \in flags[Desc[t].sub])
    BY Zenon
  <2>2. /\ flags' = [flags EXCEPT ![t] = @ \cup S]
        /\ UNCHANGED <<entry, alloc, delcnt, phase, client, cur>>
        /\ pc[w] # "end" /\ pc' = [pc EXCEPT ![w] = "check"]
    BY <1>7, Zenon DEF PushCheck, SetFlags
  <2> HIDE DEF S
  <2>3. /\ flags'[t] = flags[t] \cup S /\ \A u \in Task : u # t => flags'[u] = flags[u]
        /\ pc'[w] = "check" /\ cur'[w] = t
        /\ \A v \in WorkerId \ {w} : pc'[v] = pc[v] /\ cur'[v] = cur[v]
    BY <1>1, <2>2, Zenon
  <2>4. /\ "complete" \in flags'[t] <=> "complete" \in flags[t]
        /\ "faf" \in flags'[t] <=> "faf" \in flags[t]
        /\ "module_complete" \in flags[t] => "module_complete" \in flags'[t]
    BY <2>1, <2>3, Zenon
  <2>5. Desc[t].kind = "push" /\ "module_complete" \in flags'[t]
          => "complete" \in flags'[Desc[t].sub]
    BY <1>5, <1>6, <2>1, <2>3, <2>4, Zenon
  <2>6. Holds(w, t)
    BY <1>4, <2>2, <2>3, <2>4, <2>5, Zenon DEF Holds, Idle
  <2> QED
    BY <1>3, <2>3, <2>6, HoldMem, Zenon
<1>8. CASE CheckIncomplete(w)
  <2>1. /\ UNCHANGED <<flags, entry, alloc, delcnt, phase, client, cur>>
        /\ pc[w] # "end" /\ "module_complete" \notin flags[t]
        /\ pc'[w] = "poll" /\ \A v \in WorkerId \ {w} : pc'[v] = pc[v] /\ cur'[v] = cur[v]
    BY <1>1, <1>8, Zenon DEF CheckIncomplete, NextIter, taskVars
  <2>2. Holds(w, t)
    BY <1>4, <2>1, Zenon DEF Holds
  <2> QED
    BY <2>1, <2>2, HoldMem, Zenon
<1>9. CASE CheckComplete(w)
  <2>1. /\ UNCHANGED <<flags, alloc, delcnt, phase, client>>
        /\ pc[w] # "end" /\ "module_complete" \in flags[t]
        /\ pc'[w] = "end" /\ cur'[w] = t
        /\ \A v \in WorkerId \ {w} : pc'[v] = pc[v] /\ cur'[v] = cur[v]
    BY <1>1, <1>9, Zenon DEF CheckComplete
  <2>2. entry'[t] \in {"complete", "popped"} /\ \A u \in Task : u # t => entry'[u] = entry[u]
    BY <1>1, <1>9, Zenon DEF CheckComplete, PopTask
  <2>3. MemInv'
    BY <1>4, <2>1, <2>2, PopMem, Zenon
  <2> QED
    BY <2>1, <2>3, Zenon
<1>10. CASE EndTask(w)
  <2>1. \A u \in Task : u # t => flags'[u] = flags[u]
    BY <1>1, <1>10, Zenon DEF EndTask, SetFlags
  <2> QED
    BY <1>3, <1>10, <2>1, EndMem, Zenon
<1>11. ASSUME FlagRead(w) \/ FlagWrite(w)
       PROVE  ScanAt(w) /\ ~HasSub(t) /\ Desc[t].kind # "push" /\ pc[w] # "end"
  <2>1. ScanAt(w)
    BY Zenon DEF IndInv, ScanInv
  <2>2. Desc[t].remote
    BY <1>11, <2>1, Zenon DEF FlagRead, FlagWrite, ScanAt
  <2> QED
    BY <1>11, <2>1, <2>2, TaskFacts, Zenon DEF FlagRead, FlagWrite
<1>12. CASE FlagRead(w)
  <2>1. /\ UNCHANGED <<flags, entry, alloc, delcnt, phase, client, cur>>
        /\ pc' = [pc EXCEPT ![w] = IF @ = "disable_read" THEN "disable_write" ELSE "unset_write"]
    BY <1>12, Zenon DEF FlagRead, taskVars
  <2>2. /\ pc'[w] \in {"disable_write", "unset_write"} /\ cur'[w] = t
        /\ \A v \in WorkerId \ {w} : pc'[v] = pc[v] /\ cur'[v] = cur[v]
    BY <1>1, <2>1, Zenon
  <2>3. Holds(w, t)
    BY <1>4, <1>11, <1>12, <2>1, <2>2, Zenon DEF Holds, Idle
  <2> QED
    BY <2>1, <2>3, HoldMem, Zenon
<1>13. CASE FlagWrite(w)
  <2>1. /\ UNCHANGED <<entry, alloc, delcnt, phase, client, cur>>
        /\ pc[w] \in {"disable_write", "unset_write"}
        /\ flags' = [flags EXCEPT ![t] = Updated(w)]
        /\ pc' = [pc EXCEPT ![w] = IF @ = "disable_write" THEN "unset_read" ELSE "check"]
    BY <1>13, Zenon DEF FlagWrite
  <2>2. /\ pc'[w] \in {"unset_read", "check"} /\ cur'[w] = t
        /\ \A v \in WorkerId \ {w} : pc'[v] = pc[v] /\ cur'[v] = cur[v]
        /\ flags'[t] = Updated(w) /\ \A u \in Task : u # t => flags'[u] = flags[u]
    BY <1>1, <2>1, Zenon
  <2>3. seen[w] = flags[t]
    BY <2>1, Zenon DEF Current
  <2>4. Updated(w) \in {flags[t] \cup {"disable_run"}, flags[t] \ {"coroutine"}}
    BY <2>3, Zenon DEF Updated
  <2>5. /\ "complete" \in flags'[t] <=> "complete" \in flags[t]
        /\ "faf" \in flags'[t] <=> "faf" \in flags[t]
        /\ "module_complete" \in flags[t] => "module_complete" \in flags'[t]
    BY <2>2, <2>4, SMTT(30)
  <2>6. Holds(w, t)
    BY <1>4, <1>11, <1>13, <2>1, <2>2, <2>5, Zenon DEF Holds, Idle
  <2> QED
    BY <1>3, <2>2, <2>6, HoldMem, Zenon
<1> QED
  BY <1>7, <1>8, <1>9, <1>10, <1>12, <1>13, Zenon

\* The thread of a PushTask goes on to the next of its steps.
LEMMA ThreadMem ==
  ASSUME IndInv, MemInv, RemInv, NEW q \in ThreadTask, ThreadNext(q)
  PROVE  MemInv' /\ \A u \in Task : flags'[u] = flags[u] \/ ~Gone(u)
<1>1. /\ flags \in [Task -> SUBSET Flag] /\ q \in Task /\ Desc[q].orig \in Task
      /\ \A v \in WorkerId : pc[v] \notin Idle => cur[v] \in Task
  BY HasTask, DescType, Zenon DEF TypeOK, ThreadTask
<1>2. UNCHANGED <<entry, alloc, delcnt, phase, client, pc, cur>>
  BY Zenon DEF ThreadNext, ThreadRpc, ThreadRead, ThreadWrite, ThreadSelf, ThreadStep, scanVars
<1>3. ASSUME NEW t \in Task, entry[t] = "in", ~HasSub(t),
             flags' = [flags EXCEPT ![t] = flags[t] \cup {"module_complete"}]
      PROVE  MemInv' /\ \A u \in Task : flags'[u] = flags[u] \/ ~Gone(u)
  <2>1. /\ flags'[t] = flags[t] \cup {"module_complete"}
        /\ \A u \in Task : u # t => flags'[u] = flags[u]
    BY <1>1, <1>3, Zenon
  <2>2. MemInv'
    BY <1>2, <1>3, <2>1, MarkMem, Zenon
  <2> QED
    BY <1>3, <2>1, <2>2, Zenon DEF Gone
<1>4. CASE ThreadRpc(q) \/ ThreadRead(q)
  <2>1. flags' = flags
    BY <1>4, Zenon DEF ThreadRpc, ThreadRead
  <2> QED
    BY <1>1, <1>2, <2>1, ScanMem, Zenon
<1>5. CASE ThreadWrite(q)
  <2>1. /\ thread[q] = "write"
        /\ flags' = [flags EXCEPT ![Desc[q].orig] = seen[q] \cup {"module_complete"}]
    BY <1>5, Zenon DEF ThreadWrite, ThreadStep
  <2>2. entry[Desc[q].orig] = "in" /\ seen[q] = flags[Desc[q].orig]
    BY <2>1, Zenon DEF RemInv, Carried, Current, Carrier
  <2>3. ~HasSub(Desc[q].orig)
    BY <1>1, TaskAssumption, Zenon DEF ThreadTask
  <2> QED
    BY <1>1, <1>3, <2>1, <2>2, <2>3, Zenon
<1>6. CASE ThreadSelf(q)
  <2>1. thread[q] = "self" /\ flags' = [flags EXCEPT ![q] = flags[q] \cup {"module_complete"}]
    BY <1>6, Zenon DEF ThreadSelf, ThreadStep, SetFlags
  <2>2. entry[q] = "in" /\ ~HasSub(q)
    BY <1>1, <2>1, TaskFacts, Zenon DEF RemInv, Carried
  <2> QED
    BY <1>1, <1>3, <2>1, <2>2, Zenon
<1> QED
  BY <1>4, <1>5, <1>6, Zenon DEF ThreadNext

\* Every step keeps MemInv, and none writes the flag word of a task that is gone.
LEMMA NextMem ==
  ASSUME IndInv, MemInv, RemInv, [Next]_vars
  PROVE  MemInv' /\ \A u \in Task : flags'[u] = flags[u] \/ ~Gone(u)
<1>1. \A v \in WorkerId : pc[v] \notin Idle => cur[v] \in Task
  BY HasTask, Zenon
<1>2. ASSUME NEW w \in WorkerId, WorkerNext(w)
      PROVE  MemInv' /\ \A u \in Task : flags'[u] = flags[u] \/ ~Gone(u)
  <2>1. CASE Run(w) \/ PollReturn(w) \/ PollComplete(w)
    BY <2>1, IdleMem, Zenon
  <2>2. CASE \E t \in Task : AtTask(w, t) /\ PollTask(w, t)
    BY <2>2, AtMem, Zenon
  <2>3. CASE \/ PushCheck(w) \/ FlagRead(w) \/ FlagWrite(w)
             \/ CheckIncomplete(w) \/ CheckComplete(w) \/ EndTask(w)
    <3>1. cur[w] \in Task
      BY <1>1, <2>3, Zenon
         DEF PushCheck, FlagRead, FlagWrite, CheckIncomplete, CheckComplete, EndTask, Idle
    <3>2. Current
      BY Zenon DEF RemInv
    <3> QED
      BY <2>3, <3>1, <3>2, LaterMem, Zenon
  <2> QED
    BY <1>2, <2>1, <2>2, <2>3, Zenon DEF WorkerNext
<1>3. ASSUME NEW t \in RootTask, ClientNext(t)
      PROVE  MemInv' /\ \A u \in Task : flags'[u] = flags[u] \/ ~Gone(u)
  <2>1. MemInv'
    BY <1>3, NewMem, EmplaceMem, ReapMem, Zenon DEF ClientNext
  <2>2. flags' = flags
    BY <1>3, Zenon DEF ClientNext, ClientNew, ClientEmplace, ClientReap
  <2> QED
    BY <2>1, <2>2, Zenon
<1>4. ASSUME Join \/ UNCHANGED vars
      PROVE  MemInv' /\ \A u \in Task : flags'[u] = flags[u] \/ ~Gone(u)
  <2>1. UNCHANGED <<flags, alloc, delcnt, phase, client, cur, entry, pc>>
    BY <1>4, Zenon DEF Join, vars, taskVars, scanVars
  <2> QED
    BY <1>1, <2>1, ScanMem, Zenon
<1> QED
  BY <1>2, <1>3, <1>4, ThreadMem, Zenon DEF Next

\* No task is allocated, no worker has one.
LEMMA InitMem ==
  ASSUME Init
  PROVE  MemInv
<1>1. \A t \in Task : /\ entry[t] = "none" /\ delcnt[t] = 0 /\ phase[t] = "start"
                      /\ flags[t] = InitFlags(t)
  BY Zenon DEF Init
<1>2. (\A w \in WorkerId : pc[w] = "entry") /\ (\A t \in RootTask : client[t] = "idle")
  BY Zenon DEF Init
<1>3. \A t \in Task : /\ "complete" \notin flags[t] /\ "module_complete" \notin flags[t]
                      /\ "faf" \in flags[t] => Desc[t].faf
  BY <1>1 DEF InitFlags
<1>4. Reached /\ Ending
  BY <1>1, <1>2, Zenon DEF Reached, Ending, Idle
<1>5. Parted /\ Finished
  BY <1>1, <1>3, Zenon DEF Parted, Finished
<1>6. Deleter
  BY <1>1, <1>2, <1>3, Zenon DEF Deleter
<1> QED
  BY <1>4, <1>5, <1>6, Zenon DEF MemInv

-----------------------------------------------------------------------------
(* Dispersal.                                                              *)

\* What a task of kind thread, and the task it carries, are.
LEMMA ThreadFacts ==
  ASSUME NEW q \in ThreadTask
  PROVE  /\ q \in Task /\ ~Desc[q].remote /\ q \notin RootTask /\ ~HasSub(q)
         /\ Desc[q].kind = "thread"
         /\ Desc[q].orig \in Task /\ Desc[Desc[q].orig].remote
         /\ Desc[q].orig \notin ThreadTask /\ q \notin WorkerId
<1>1. /\ q \in Task /\ q \notin RootTask /\ Desc[q].kind = "thread" /\ Desc[q].orig \in Task
      /\ ~HasSub(q)
  BY DescType, TaskFacts, Zenon DEF ThreadTask, RootTask
<1>2. \A t \in Task : Desc[t].remote => Desc[t].kind # "thread"
  BY TaskAssumption, Zenon
<1>3. Desc[Desc[q].orig].remote
  BY <1>1, TaskAssumption, Zenon
<1>4. q \notin WorkerId
  BY <1>1, ActorAssumption, Zenon
<1> QED
  BY <1>1, <1>2, <1>3, <1>4, Zenon DEF ThreadTask

\* A step that has nothing to do with a dispersed task or a PushTask, unless it is
\* to emplace or to end it: what it does to the tasks, and where the workers are.
Aside ==
  /\ thread' = thread /\ seen' = seen
  /\ alloc \subseteq alloc' /\ \A u \in alloc' : u \in ThreadTask => u \in alloc
  /\ \A u \in Task : Desc[u].remote \/ u \in ThreadTask =>
       \/ flags'[u] = flags[u]
       \/ entry[u] = "none" /\ flags'[u] = flags[u] \ {"faf"}
       \/ /\ entry[u] # "in" /\ "module_complete" \in flags[u]
          /\ flags'[u] = flags[u] \cup {"module_complete", "complete"}
  /\ \A u \in Task : entry[u] = "in" /\ Desc[u].kind # "orphan"
                       /\ "module_complete" \notin flags[u] => entry'[u] = "in"

Apart ==
  /\ Aside
  /\ \A v \in WorkerId : pc[v] \in Updates \/ pc'[v] \in Updates
                           => pc'[v] = pc[v] /\ cur'[v] = cur[v]
  /\ \A v \in WorkerId : pc'[v] = "pushed" => Desc[cur'[v]].kind = "push"

\* Such a step keeps RemInv.
LEMMA ApartRem ==
  ASSUME IndInv, RemInv, Apart
  PROVE  RemInv'
<1>1. Carrier' = Carrier /\ thread' = thread /\ seen' = seen
  BY Zenon DEF Apart, Aside, Carrier
<1>2. ASSUME NEW u \in Task, Desc[u].remote \/ u \in ThreadTask
      PROVE  /\ "disable_run" \in flags'[u] <=> "disable_run" \in flags[u]
             /\ "coroutine" \in flags'[u] <=> "coroutine" \in flags[u]
             /\ "module_complete" \in flags'[u] <=> "module_complete" \in flags[u]
             /\ entry[u] = "in" => flags'[u] = flags[u]
  <2>1. \/ flags'[u] = flags[u]
        \/ entry[u] = "none" /\ flags'[u] = flags[u] \ {"faf"}
        \/ /\ entry[u] # "in" /\ "module_complete" \in flags[u]
           /\ flags'[u] = flags[u] \cup {"module_complete", "complete"}
    BY <1>2, Zenon DEF Apart, Aside
  <2> QED
    BY <2>1, SMTT(30)
<1>3. /\ \A v \in WorkerId, u \in Task : Updating(v, u)' <=> Updating(v, u)
      /\ \A v \in WorkerId : pc[v] \in Updates \/ pc'[v] \in Updates
                               => pc'[v] = pc[v] /\ cur'[v] = cur[v]
  <2>1. \A v \in WorkerId : pc[v] \in Updates \/ pc'[v] \in Updates
                               => pc'[v] = pc[v] /\ cur'[v] = cur[v]
    BY Zenon DEF Apart, Aside
  <2> QED
    BY <2>1, Zenon DEF Updating
<1>4. \A q \in ThreadTask : /\ q \in Task /\ Desc[q].orig \in Task /\ Desc[Desc[q].orig].remote
                            /\ Desc[q].kind = "thread"
  BY ThreadFacts, Zenon
<1>5. \A q \in Carrier : q \in ThreadTask
  BY Zenon DEF Carrier
<1>6. DispersedOnce'
  BY <1>1, Zenon DEF RemInv, DispersedOnce, Carrier
<1>7. Disabled'
  <2>1. ASSUME NEW q \in Carrier', "disable_run" \notin flags'[Desc[q].orig]
        PROVE  \E w \in WorkerId : /\ Updating(w, Desc[q].orig)'
                                   /\ pc'[w] \in {"disable_read", "disable_write"}
    <3>1. q \in Carrier /\ "disable_run" \notin flags[Desc[q].orig]
      BY <1>1, <1>2, <1>4, <1>5, <2>1, Zenon
    <3>2. PICK w \in WorkerId : /\ Updating(w, Desc[q].orig)
                               /\ pc[w] \in {"disable_read", "disable_write"}
      BY <3>1, Zenon DEF RemInv, Disabled
    <3> QED
      BY <1>3, <3>2, Zenon DEF Updating
  <2>2. ASSUME NEW q \in Carrier', "coroutine" \in flags'[Desc[q].orig]
        PROVE  \E w \in WorkerId : Updating(w, Desc[q].orig)'
    <3>1. q \in Carrier /\ "coroutine" \in flags[Desc[q].orig]
      BY <1>1, <1>2, <1>4, <1>5, <2>2, Zenon
    <3>2. PICK w \in WorkerId : Updating(w, Desc[q].orig)
      BY <3>1, Zenon DEF RemInv, Disabled
    <3> QED
      BY <1>3, <3>2, Zenon DEF Updating
  <2>3. \A t \in Task : Desc[t].remote /\ "module_complete" \in flags'[t]
                       => "disable_run" \in flags'[t] /\ "coroutine" \notin flags'[t]
    BY <1>2, Zenon DEF RemInv, Disabled
  <2> QED
    BY <2>1, <2>2, <2>3, Zenon DEF Disabled
<1>8. Current'
  <2>1. \A q \in Carrier', w \in WorkerId : Updating(w, Desc[q].orig)' => thread'[q] = "none"
    BY <1>1, <1>3, <1>4, <1>5, Zenon DEF RemInv, Current
  <2>2. ASSUME NEW w \in WorkerId, pc'[w] \in {"disable_write", "unset_write"}
        PROVE  seen'[w] = flags'[cur'[w]]
    <3>1. pc'[w] = pc[w] /\ cur'[w] = cur[w] /\ pc[w] \in Updates
      BY <1>3, <2>2, Zenon DEF Updates
    <3>2. ScanAt(w) /\ pc[w] \in Pc
      BY Zenon DEF IndInv, ScanInv, TypeOK
    <3>3. cur[w] \in Task /\ entry[cur[w]] = "in" /\ Desc[cur[w]].remote
      BY <3>1, <3>2, Zenon DEF ScanAt, Updates
    <3> QED
      BY <1>1, <1>2, <2>2, <3>1, <3>3, Zenon DEF RemInv, Current
  <2>3. ASSUME NEW q \in ThreadTask, thread'[q] = "write"
        PROVE  seen'[q] = flags'[Desc[q].orig]
    <3>1. q \in Carrier /\ thread[q] = "write"
      BY <1>1, <2>3, Zenon DEF RemInv, Carried, Carrier
    <3>2. entry[Desc[q].orig] = "in"
      BY <3>1, Zenon DEF RemInv, Carried
    <3> QED
      BY <1>1, <1>2, <1>4, <3>1, <3>2, Zenon DEF RemInv, Current
  <2> QED
    BY <2>1, <2>2, <2>3, Zenon DEF Current
<1>9. Carried'
  <2>1. ASSUME NEW q \in Carrier', thread'[q] \notin {"self", "done"}
        PROVE  entry'[Desc[q].orig] = "in" /\ "module_complete" \notin flags'[Desc[q].orig]
    <3>1. q \in Carrier /\ thread[q] \notin {"self", "done"} /\ q \in ThreadTask
      BY <1>1, <1>5, <2>1, Zenon
    <3>2. entry[Desc[q].orig] = "in" /\ "module_complete" \notin flags[Desc[q].orig]
      BY <3>1, Zenon DEF RemInv, Carried
    <3>3. Desc[Desc[q].orig].kind # "orphan"
      BY <1>4, <3>1, TaskAssumption, Zenon
    <3>4. entry'[Desc[q].orig] = "in"
      BY <1>4, <3>1, <3>2, <3>3, Zenon DEF Apart, Aside
    <3> QED
      BY <1>2, <1>4, <3>1, <3>2, <3>4, Zenon
  <2>2. ASSUME NEW q \in ThreadTask
        PROVE  /\ thread'[q] # "none" => q \in alloc' /\ "disable_run" \in flags'[q]
               /\ thread'[q] # "done" => "module_complete" \notin flags'[q]
               /\ thread'[q] \notin {"none", "done"} => entry'[q] = "in"
    <3>1. /\ thread[q] # "none" => q \in alloc' /\ "disable_run" \in flags[q]
          /\ thread[q] # "done" => "module_complete" \notin flags[q]
          /\ thread[q] \notin {"none", "done"} => entry[q] = "in"
      BY Zenon DEF RemInv, Carried, Apart, Aside
    <3>2. thread[q] \notin {"none", "done"} => entry'[q] = "in"
      BY <1>4, <3>1, Zenon DEF Apart, Aside
    <3> QED
      BY <1>1, <1>2, <1>4, <3>1, <3>2, Zenon
  <2>3. \A t \in Task \ ThreadTask : thread'[t] = "none"
    BY <1>1, Zenon DEF RemInv, Carried
  <2> QED
    BY <2>1, <2>2, <2>3, Zenon DEF Carried
<1>10. Pushing'
  BY Zenon DEF Apart, Aside, Pushing
<1> QED
  BY <1>6, <1>7, <1>8, <1>9, <1>10, Zenon DEF RemInv

\* Disperse: the task had no PushTask, and the new one waits for the updates of the
\* flag word.
LEMMA DisperseRem ==
  ASSUME IndInv, MemInv, RemInv, NEW w \in WorkerId, NEW t \in Task, AtTask(w, t),
         Disperse(w, t)
  PROVE  RemInv'
<1>1. /\ pc[w] = "poll" /\ entry[t] = "in" /\ Desc[t].remote /\ "disable_run" \notin flags[t]
      /\ \A v \in WorkerId : pc[v] \notin Idle /\ cur[v] = t => v = w
  BY InHand, Zenon DEF MemInv, AtTask, Disperse, Execute, MayRun
<1>2. PICK q \in ThreadTask : /\ Desc[q].orig = t /\ q \notin alloc /\ alloc' = alloc \cup {q}
                             /\ entry' = [entry EXCEPT ![q] = "in"]
  BY Zenon DEF Disperse, Emplace
<1>3. /\ flags' = flags /\ thread' = thread /\ seen' = seen
      /\ pc' = [pc EXCEPT ![w] = "disable_read"] /\ cur' = [cur EXCEPT ![w] = t]
  BY Zenon DEF Disperse, Execute
<1>4. /\ pc'[w] = "disable_read" /\ cur'[w] = t
      /\ \A v \in WorkerId \ {w} : pc'[v] = pc[v] /\ cur'[v] = cur[v]
      /\ entry'[q] = "in" /\ \A u \in Task : entry[u] = "in" => entry'[u] = "in"
  <2>1. /\ pc \in [WorkerId -> Pc] /\ cur \in [WorkerId -> Task \cup {NoTask}]
        /\ entry \in [Task -> {"none", "in", "complete", "popped"}]
    BY HasTask, Zenon DEF TypeOK
  <2> QED
    BY <1>2, <1>3, <2>1, ThreadFacts, Zenon
<1>5. /\ \A x \in ThreadTask : Desc[x].orig \in Task
      /\ Carrier' = Carrier \cup {q} /\ q \notin Carrier
  BY <1>2, ThreadFacts, Zenon DEF Carrier
<1>6. \A v \in WorkerId : ~Updating(v, t)
  BY <1>1, Zenon DEF Updating, Updates, Idle
<1>7. \A v \in WorkerId, u \in Task : /\ Updating(v, u)' => Updating(v, u) \/ (v = w /\ u = t)
                                      /\ Updating(v, u) => /\ v # w /\ Updating(v, u)'
                                                           /\ pc'[v] = pc[v]
  BY <1>1, <1>4, Zenon DEF Updating, Updates
<1>8. \A x \in Carrier : Desc[x].orig # t /\ x \in ThreadTask
  BY <1>1, <1>6, Zenon DEF RemInv, Disabled, Carrier
<1>9. "module_complete" \notin flags[t] /\ thread[q] = "none"
  BY <1>1, <1>2, Zenon DEF RemInv, Disabled, Carried
<1>10. DispersedOnce'
  <2>1. DispersedOnce
    BY Zenon DEF RemInv
  <2> QED
    BY <1>2, <1>5, <1>8, <2>1, Zenon DEF DispersedOnce, Carrier
<1>11. Disabled'
  <2>1. ASSUME NEW x \in Carrier', "disable_run" \notin flags'[Desc[x].orig]
        PROVE  \E v \in WorkerId : /\ Updating(v, Desc[x].orig)'
                                   /\ pc'[v] \in {"disable_read", "disable_write"}
    <3>1. CASE x = q
      BY <1>2, <1>4, <3>1, Zenon DEF Updating, Updates
    <3>2. CASE x # q
      <4>1. x \in Carrier
        BY <1>5, <3>2, Zenon
      <4>2. PICK v \in WorkerId : /\ Updating(v, Desc[x].orig)
                                 /\ pc[v] \in {"disable_read", "disable_write"}
        BY <1>3, <2>1, <4>1, Zenon DEF RemInv, Disabled
      <4> QED
        BY <1>5, <1>7, <1>8, <4>1, <4>2, Zenon
    <3> QED
      BY <3>1, <3>2, Zenon
  <2>2. ASSUME NEW x \in Carrier', "coroutine" \in flags'[Desc[x].orig]
        PROVE  \E v \in WorkerId : Updating(v, Desc[x].orig)'
    <3>1. CASE x = q
      BY <1>2, <1>4, <3>1, Zenon DEF Updating, Updates
    <3>2. CASE x # q
      <4>1. x \in Carrier
        BY <1>5, <3>2, Zenon
      <4>2. PICK v \in WorkerId : Updating(v, Desc[x].orig)
        BY <1>3, <2>2, <4>1, Zenon DEF RemInv, Disabled
      <4> QED
        BY <1>5, <1>7, <1>8, <4>1, <4>2, Zenon
    <3> QED
      BY <3>1, <3>2, Zenon
  <2>3. \A u \in Task : Desc[u].remote /\ "module_complete" \in flags'[u]
                       => "disable_run" \in flags'[u] /\ "coroutine" \notin flags'[u]
    BY <1>3, Zenon DEF RemInv, Disabled
  <2> QED
    BY <2>1, <2>2, <2>3, Zenon DEF Disabled
<1>12. Current'
  <2>1. ASSUME NEW x \in Carrier', NEW v \in WorkerId, Updating(v, Desc[x].orig)'
        PROVE  thread'[x] = "none"
    <3>1. CASE x = q
      BY <1>3, <1>9, <3>1, Zenon
    <3>2. CASE x # q
      <4>1. x \in Carrier /\ Desc[x].orig \in Task /\ Desc[x].orig # t
        BY <1>5, <1>8, <3>2, Zenon
      <4>2. Updating(v, Desc[x].orig)
        BY <1>7, <2>1, <4>1, Zenon
      <4> QED
        BY <1>3, <4>1, <4>2, Zenon DEF RemInv, Current
    <3> QED
      BY <3>1, <3>2, Zenon
  <2>2. ASSUME NEW v \in WorkerId, pc'[v] \in {"disable_write", "unset_write"}
        PROVE  seen'[v] = flags'[cur'[v]]
    <3>1. pc'[v] = pc[v] /\ cur'[v] = cur[v]
      BY <1>4, <2>2, Zenon
    <3>2. seen[v] = flags[cur[v]]
      BY <2>2, <3>1, Zenon DEF RemInv, Current
    <3> QED
      BY <1>3, <3>1, <3>2, Zenon
  <2> QED
    BY <1>3, <2>1, <2>2, Zenon DEF Current, RemInv
<1>13. Carried'
  <2>1. ASSUME NEW x \in Carrier', thread'[x] \notin {"self", "done"}
        PROVE  entry'[Desc[x].orig] = "in" /\ "module_complete" \notin flags'[Desc[x].orig]
    <3>1. CASE x = q
      BY <1>1, <1>2, <1>3, <1>4, <1>9, <3>1, Zenon
    <3>2. CASE x # q
      <4>1. x \in Carrier /\ Desc[x].orig \in Task
        BY <1>5, <1>8, <3>2, Zenon
      <4> QED
        BY <1>3, <1>4, <2>1, <4>1, Zenon DEF RemInv, Carried
    <3> QED
      BY <3>1, <3>2, Zenon
  <2>2. ASSUME NEW x \in ThreadTask
        PROVE  /\ thread'[x] # "none" => x \in alloc' /\ "disable_run" \in flags'[x]
               /\ thread'[x] # "done" => "module_complete" \notin flags'[x]
               /\ thread'[x] \notin {"none", "done"} => entry'[x] = "in"
    BY <1>2, <1>3, <1>4, ThreadFacts, Zenon DEF RemInv, Carried
  <2> QED
    BY <1>3, <2>1, <2>2, Zenon DEF Carried, RemInv
<1>14. Pushing'
  <2>1. \A v \in WorkerId : pc'[v] = "pushed" => v # w
    BY <1>4, Zenon
  <2> QED
    BY <1>4, <2>1, Zenon DEF Pushing, RemInv
<1> QED
  BY <1>10, <1>11, <1>12, <1>13, <1>14, Zenon DEF RemInv

\* A PushTask is handed to a thread: the worker that polls its lane is also the one
\* that updates the dispersed task, so it has done so.
LEMMA PreemptRem ==
  ASSUME Together, IndInv, MemInv, RemInv, NEW w \in WorkerId, NEW q \in Task,
         AtTask(w, q), RunPreemptive(w, q)
  PROVE  RemInv'
<1>1. /\ pc[w] = "poll" /\ entry[q] = "in" /\ q \in ThreadTask /\ "disable_run" \notin flags[q]
      /\ Polls(w, Desc[q].lane)
  BY HandLane, Zenon DEF AtTask, RunPreemptive, Local, ThreadTask, Execute, MayRun
<1>2. /\ q \in alloc /\ q \in Carrier
  BY <1>1, Zenon DEF MemInv, Reached, Live, Carrier
<1>3. /\ flags \in [Task -> SUBSET Flag] /\ thread \in [Task -> ThreadPc]
      /\ pc \in [WorkerId -> Pc] /\ cur \in [WorkerId -> Task \cup {NoTask}]
  BY HasTask, Zenon DEF TypeOK
<1>4. /\ alloc' = alloc /\ entry' = entry /\ seen' = seen
      /\ pc'[w] = "check" /\ \A v \in WorkerId \ {w} : pc'[v] = pc[v] /\ cur'[v] = cur[v]
      /\ thread'[q] = "rpc" /\ \A u \in Task : u # q => thread'[u] = thread[u]
      /\ flags'[q] = flags[q] \cup {"disable_run"} /\ \A u \in Task : u # q => flags'[u] = flags[u]
  BY <1>3, Zenon DEF RunPreemptive, Execute, SetFlags
<1>5. thread[q] = "none" /\ "module_complete" \notin flags[q]
  BY <1>1, Zenon DEF RemInv, Carried
<1>6. \A v \in WorkerId : ~Updating(v, Desc[q].orig)
  <2> SUFFICES ASSUME NEW v \in WorkerId, Updating(v, Desc[q].orig) PROVE FALSE
    OBVIOUS
  <2>1. pc[v] \notin Idle \cup {"end"} /\ cur[v] = Desc[q].orig /\ pc[v] # "poll"
    BY Zenon DEF Updating, Updates, Idle
  <2>2. Polls(v, Desc[Desc[q].orig].lane)
    BY <1>1, <2>1, ThreadFacts, HandLane, Zenon
  <2>3. v = w
    BY <1>1, <2>2, Zenon DEF Together
  <2> QED
    BY <1>1, <2>1, <2>3, Zenon
<1>7. \A v \in WorkerId, u \in Task : Updating(v, u) <=> Updating(v, u)'
  BY <1>1, <1>4, Zenon DEF Updating, Updates
<1>8. /\ \A x \in ThreadTask : x \in Task /\ Desc[x].orig \in Task /\ Desc[x].orig # q
      /\ \A u \in Task : Desc[u].remote => u # q
      /\ Carrier' = Carrier /\ \A x \in Carrier : x \in ThreadTask
  BY <1>1, <1>4, ThreadFacts, Zenon DEF Carrier
<1>9. DispersedOnce'
  BY <1>4, Zenon DEF RemInv, DispersedOnce
<1>10. Disabled'
  <2>1. ASSUME NEW x \in Carrier', "disable_run" \notin flags'[Desc[x].orig]
        PROVE  \E v \in WorkerId : /\ Updating(v, Desc[x].orig)'
                                   /\ pc'[v] \in {"disable_read", "disable_write"}
    <3>1. x \in Carrier /\ "disable_run" \notin flags[Desc[x].orig] /\ Desc[x].orig \in Task
      BY <1>4, <1>8, <2>1, Zenon
    <3>2. PICK v \in WorkerId : /\ Updating(v, Desc[x].orig)
                               /\ pc[v] \in {"disable_read", "disable_write"}
      BY <3>1, Zenon DEF RemInv, Disabled
    <3>3. v # w
      BY <1>1, <3>2, Zenon
    <3> QED
      BY <1>4, <1>7, <3>1, <3>2, <3>3, Zenon
  <2>2. ASSUME NEW x \in Carrier', "coroutine" \in flags'[Desc[x].orig]
        PROVE  \E v \in WorkerId : Updating(v, Desc[x].orig)'
    <3>1. x \in Carrier /\ "coroutine" \in flags[Desc[x].orig] /\ Desc[x].orig \in Task
      BY <1>4, <1>8, <2>2, Zenon
    <3> QED
      BY <1>7, <3>1, Zenon DEF RemInv, Disabled
  <2>3. \A u \in Task : Desc[u].remote /\ "module_complete" \in flags'[u]
                       => "disable_run" \in flags'[u] /\ "coroutine" \notin flags'[u]
    BY <1>4, <1>8, Zenon DEF RemInv, Disabled
  <2> QED
    BY <2>1, <2>2, <2>3, Zenon DEF Disabled
<1>11. Current'
  <2>1. ASSUME NEW x \in Carrier', NEW v \in WorkerId, Updating(v, Desc[x].orig)'
        PROVE  thread'[x] = "none"
    <3>1. x \in Carrier /\ x \in Task /\ Updating(v, Desc[x].orig)
      BY <1>7, <1>8, <2>1, Zenon
    <3>2. x # q
      BY <1>6, <3>1, Zenon
    <3> QED
      BY <1>4, <3>1, <3>2, Zenon DEF RemInv, Current
  <2>2. ASSUME NEW v \in WorkerId, pc'[v] \in {"disable_write", "unset_write"}
        PROVE  seen'[v] = flags'[cur'[v]]
    <3>1. v # w /\ pc[v] = pc'[v] /\ cur'[v] = cur[v]
      BY <1>4, <2>2, Zenon
    <3>2. ScanAt(v) /\ pc[v] \in Pc
      BY Zenon DEF IndInv, ScanInv, TypeOK
    <3>3. cur[v] \in Task /\ Desc[cur[v]].remote
      BY <2>2, <3>1, <3>2, Zenon DEF ScanAt
    <3>4. seen[v] = flags[cur[v]]
      BY <2>2, <3>1, Zenon DEF RemInv, Current
    <3> QED
      BY <1>4, <1>8, <3>1, <3>3, <3>4, ZenonT(30)
  <2>3. ASSUME NEW x \in ThreadTask, thread'[x] = "write"
        PROVE  seen'[x] = flags'[Desc[x].orig]
    <3>1. x # q /\ thread[x] = "write"
      BY <1>4, <1>8, <2>3, Zenon
    <3> QED
      BY <1>4, <1>8, <3>1, Zenon DEF RemInv, Current
  <2> QED
    BY <2>1, <2>2, <2>3, Zenon DEF Current
<1>12. Carried'
  <2>1. ASSUME NEW x \in Carrier', thread'[x] \notin {"self", "done"}
        PROVE  entry'[Desc[x].orig] = "in" /\ "module_complete" \notin flags'[Desc[x].orig]
    <3>1. x \in Carrier /\ x \in Task /\ Desc[x].orig \in Task /\ Desc[x].orig # q
      BY <1>8, Zenon
    <3>2. thread[x] \notin {"self", "done"}
      BY <1>4, <1>5, <2>1, <3>1, Zenon
    <3> QED
      BY <1>4, <3>1, <3>2, Zenon DEF RemInv, Carried
  <2>2. ASSUME NEW x \in ThreadTask
        PROVE  /\ thread'[x] # "none" => x \in alloc' /\ "disable_run" \in flags'[x]
               /\ thread'[x] # "done" => "module_complete" \notin flags'[x]
               /\ thread'[x] \notin {"none", "done"} => entry'[x] = "in"
    <3>1. CASE x = q
      <4>1. "disable_run" \in flags'[q] /\ "module_complete" \notin flags'[q]
        BY <1>4, <1>5, SMTT(30)
      <4> QED
        BY <1>1, <1>2, <1>4, <3>1, <4>1, Zenon
    <3>2. CASE x # q
      BY <1>4, <1>8, <3>2, Zenon DEF RemInv, Carried
    <3> QED
      BY <3>1, <3>2, Zenon
  <2>a. \A u \in Task \ ThreadTask : thread[u] = "none"
    BY Zenon DEF RemInv, Carried
  <2>3. \A u \in Task \ ThreadTask : thread'[u] = "none"
    BY <1>1, <1>4, <2>a, Zenon
  <2> QED
    BY <2>1, <2>2, <2>3, Zenon DEF Carried
<1>13. Pushing'
  <2>1. \A v \in WorkerId : pc'[v] = "pushed" => v # w
    BY <1>4, Zenon
  <2> QED
    BY <1>4, <2>1, ZenonT(30) DEF Pushing, RemInv
<1> QED
  BY <1>9, <1>10, <1>11, <1>12, <1>13, Zenon DEF RemInv

\* A worker reads the flag word of the task it has dispersed.
LEMMA FlagReadRem ==
  ASSUME IndInv, RemInv, NEW w \in WorkerId, FlagRead(w)
  PROVE  RemInv'
<1>1. /\ pc \in [WorkerId -> Pc] /\ seen \in [WorkerId \cup Task -> SUBSET Flag]
      /\ pc[w] \in {"disable_read", "unset_read"}
  BY HasTask, Zenon DEF TypeOK, FlagRead
<1>2. /\ UNCHANGED <<flags, alloc, entry, thread, cur>>
      /\ pc' = [pc EXCEPT ![w] = IF @ = "disable_read" THEN "disable_write" ELSE "unset_write"]
      /\ seen' = [seen EXCEPT ![w] = flags[cur[w]]]
  BY Zenon DEF FlagRead, taskVars
<1>3. /\ \/ pc[w] = "disable_read" /\ pc'[w] = "disable_write"
         \/ pc[w] = "unset_read" /\ pc'[w] = "unset_write"
      /\ seen'[w] = flags[cur[w]]
      /\ \A v \in WorkerId : v # w => pc'[v] = pc[v] /\ seen'[v] = seen[v]
      /\ \A q \in ThreadTask : seen'[q] = seen[q]
  <2>1. pc'[w] = IF pc[w] = "disable_read" THEN "disable_write" ELSE "unset_write"
    BY <1>1, <1>2, Zenon
  <2>2. pc[w] = "disable_read" => pc'[w] = "disable_write"
    BY <2>1, Zenon
  <2>3. pc[w] = "unset_read" => pc'[w] = "unset_write"
    BY <2>1, SMTT(30)
  <2>4. \A q \in ThreadTask : q \in Task /\ q # w
    BY ThreadFacts, Zenon
  <2>5. seen'[w] = flags[cur[w]] /\ \A a \in WorkerId \cup Task : a # w => seen'[a] = seen[a]
    BY <1>1, <1>2, Zenon
  <2>6. \A v \in WorkerId : v # w => pc'[v] = pc[v]
    BY <1>1, <1>2, Zenon
  <2> QED
    BY <1>1, <2>2, <2>3, <2>4, <2>5, <2>6, Zenon
<1>4. \A v \in WorkerId, u \in Task : Updating(v, u)' <=> Updating(v, u)
  BY <1>1, <1>2, <1>3, Zenon DEF Updating, Updates
<1>5. /\ \A q \in ThreadTask : Desc[q].orig \in Task
      /\ Carrier' = Carrier /\ \A q \in Carrier : q \in ThreadTask
  BY <1>2, ThreadFacts, Zenon DEF Carrier
<1>6. Disabled'
  <2>1. ASSUME NEW q \in Carrier', "disable_run" \notin flags'[Desc[q].orig]
        PROVE  \E v \in WorkerId : /\ Updating(v, Desc[q].orig)'
                                   /\ pc'[v] \in {"disable_read", "disable_write"}
    <3>1. PICK v \in WorkerId : /\ Updating(v, Desc[q].orig)
                               /\ pc[v] \in {"disable_read", "disable_write"}
      BY <1>2, <1>5, <2>1, Zenon DEF RemInv, Disabled
    <3>2. pc'[v] \in {"disable_read", "disable_write"}
      BY <1>3, <3>1, Zenon
    <3> QED
      BY <1>4, <1>5, <3>1, <3>2, Zenon
  <2>2. \A q \in Carrier : "coroutine" \in flags'[Desc[q].orig]
                             => \E v \in WorkerId : Updating(v, Desc[q].orig)'
    BY <1>2, <1>4, <1>5, Zenon DEF RemInv, Disabled
  <2> QED
    BY <1>2, <1>5, <2>1, <2>2, Zenon DEF RemInv, Disabled
<1>7. Current'
  <2>1. \A q \in Carrier, v \in WorkerId : Updating(v, Desc[q].orig)' => thread'[q] = "none"
    BY <1>2, <1>4, <1>5, Zenon DEF RemInv, Current
  <2>2. ASSUME NEW v \in WorkerId, pc'[v] \in {"disable_write", "unset_write"}
        PROVE  seen'[v] = flags'[cur'[v]]
    <3>1. CASE v = w
      BY <1>2, <1>3, <3>1, Zenon
    <3>2. CASE v # w
      <4>1. seen[v] = flags[cur[v]]
        BY <1>3, <2>2, <3>2, Zenon DEF RemInv, Current
      <4> QED
        BY <1>2, <1>3, <3>2, <4>1, Zenon
    <3> QED
      BY <3>1, <3>2, Zenon
  <2>3. \A q \in ThreadTask : thread'[q] = "write" => seen'[q] = flags'[Desc[q].orig]
    BY <1>2, <1>3, ZenonT(30) DEF RemInv, Current
  <2> QED
    BY <1>5, <2>1, <2>2, <2>3, Zenon DEF Current
<1>8. DispersedOnce' /\ Carried'
  BY <1>2, <1>5, Zenon DEF RemInv, DispersedOnce, Carried
<1>9. Pushing'
  <2>1. \A v \in WorkerId : pc'[v] = "pushed" => v # w
    BY <1>3, Zenon
  <2> QED
    BY <1>2, <1>3, <2>1, Zenon DEF RemInv, Pushing
<1> QED
  BY <1>6, <1>7, <1>8, <1>9, Zenon DEF RemInv

\* The worker writes back what it has read, with the flag it sets or clears.
LEMMA FlagWriteRem ==
  ASSUME IndInv, MemInv, RemInv, NEW w \in WorkerId, NEW t \in Task, t = cur[w], FlagWrite(w)
  PROVE  RemInv'
<1>1. /\ pc \in [WorkerId -> Pc] /\ seen \in [WorkerId \cup Task -> SUBSET Flag]
      /\ flags \in [Task -> SUBSET Flag]
      /\ pc[w] \in {"disable_write", "unset_write"}
  BY HasTask, Zenon DEF TypeOK, FlagWrite
<1>2. /\ UNCHANGED <<alloc, entry, thread, cur>>
      /\ pc' = [pc EXCEPT ![w] = IF @ = "disable_write" THEN "unset_read" ELSE "check"]
      /\ seen' = [seen EXCEPT ![w] = {}]
      /\ flags' = [flags EXCEPT ![t] = Updated(w)]
  BY Zenon DEF FlagWrite
<1>3. /\ Desc[t].remote /\ t \notin ThreadTask /\ Updating(w, t)
      /\ \A v \in WorkerId : pc[v] \notin Idle /\ cur[v] = t => v = w
  <2>1. ScanAt(w) /\ pc[w] \notin Idle \cup {"end"}
    BY <1>1, Zenon DEF IndInv, ScanInv, Idle
  <2>2. Desc[t].remote
    BY <1>1, <2>1, Zenon DEF ScanAt
  <2>3. t \notin ThreadTask
    BY <2>2, ThreadFacts, Zenon
  <2>4. Updating(w, t)
    BY <1>1, Zenon DEF Updating, Updates
  <2>5. \A v \in WorkerId : pc[v] \notin Idle /\ cur[v] = t => v = w
    BY <2>1, InHand, Zenon DEF MemInv
  <2> QED
    BY <2>2, <2>3, <2>4, <2>5, Zenon
<1>4. seen[w] = flags[t]
  BY <1>1, Zenon DEF RemInv, Current
<1>5. \/ /\ pc[w] = "disable_write" /\ pc'[w] = "unset_read"
         /\ flags'[t] = flags[t] \cup {"disable_run"}
      \/ /\ pc[w] = "unset_write" /\ pc'[w] = "check"
         /\ flags'[t] = flags[t] \ {"coroutine"}
  <2>1. CASE pc[w] = "disable_write"
    BY <1>1, <1>2, <1>4, <2>1, SMTT(30) DEF Updated
  <2>2. CASE pc[w] = "unset_write"
    BY <1>1, <1>2, <1>4, <2>2, SMTT(30) DEF Updated
  <2> QED
    BY <1>1, <2>1, <2>2, Zenon
<1>6. /\ \A v \in WorkerId : v # w => pc'[v] = pc[v] /\ seen'[v] = seen[v]
      /\ \A q \in ThreadTask : seen'[q] = seen[q]
      /\ \A u \in Task : u # t => flags'[u] = flags[u]
  <2>1. \A q \in ThreadTask : q \in Task /\ q # w
    BY ThreadFacts, Zenon
  <2>2. \A a \in WorkerId \cup Task : a # w => seen'[a] = seen[a]
    BY <1>1, <1>2, Zenon
  <2>3. \A v \in WorkerId : v # w => pc'[v] = pc[v]
    BY <1>1, <1>2, Zenon
  <2>4. \A u \in Task : u # t => flags'[u] = flags[u]
    BY <1>1, <1>2, Zenon
  <2> QED
    BY <2>1, <2>2, <2>3, <2>4, Zenon
<1>7. \A u \in Task : /\ "module_complete" \in flags'[u] <=> "module_complete" \in flags[u]
                      /\ "disable_run" \in flags[u] => "disable_run" \in flags'[u]
                      /\ "coroutine" \in flags'[u] => "coroutine" \in flags[u]
  <2> TAKE u \in Task
  <2>1. CASE u = t  BY <1>5, <2>1, SMTT(30)
  <2>2. CASE u # t  BY <1>6, <2>2, Zenon
  <2> QED
    BY <2>1, <2>2, Zenon
<1>8. \A v \in WorkerId, u \in Task :
        /\ Updating(v, u)' => Updating(v, u)
        /\ Updating(v, u) /\ v # w => Updating(v, u)' /\ pc'[v] = pc[v]
  BY <1>1, <1>2, <1>6, Zenon DEF Updating, Updates
<1>9. /\ \A q \in ThreadTask : q \in Task /\ q # t /\ Desc[q].orig \in Task
      /\ Carrier' = Carrier /\ \A q \in Carrier : q \in ThreadTask
  BY <1>2, <1>3, ThreadFacts, Zenon DEF Carrier
<1>10. \A v \in WorkerId : Updating(v, t) => v = w
  BY <1>3, Zenon DEF Updating, Updates, Idle
<1>11. Disabled'
  <2>1. ASSUME NEW q \in Carrier', "disable_run" \notin flags'[Desc[q].orig]
        PROVE  \E v \in WorkerId : /\ Updating(v, Desc[q].orig)'
                                   /\ pc'[v] \in {"disable_read", "disable_write"}
    <3>1. q \in Carrier /\ Desc[q].orig \in Task /\ "disable_run" \notin flags[Desc[q].orig]
      BY <1>7, <1>9, <2>1, Zenon
    <3>2. PICK v \in WorkerId : /\ Updating(v, Desc[q].orig)
                               /\ pc[v] \in {"disable_read", "disable_write"}
      BY <3>1, Zenon DEF RemInv, Disabled
    <3>3. CASE Desc[q].orig = t
      <4>1. pc[w] = "disable_write"
        BY <1>1, <1>10, <3>2, <3>3, Zenon
      <4>2. "disable_run" \in flags'[t]
        BY <1>5, <4>1, SMTT(30)
      <4> QED
        BY <2>1, <3>3, <4>2, Zenon
    <3>4. CASE Desc[q].orig # t
      <4>1. v # w
        BY <3>2, <3>4, Zenon DEF Updating
      <4> QED
        BY <1>8, <3>1, <3>2, <4>1, Zenon
    <3> QED
      BY <3>3, <3>4, Zenon
  <2>2. ASSUME NEW q \in Carrier', "coroutine" \in flags'[Desc[q].orig]
        PROVE  \E v \in WorkerId : Updating(v, Desc[q].orig)'
    <3>1. q \in Carrier /\ Desc[q].orig \in Task /\ "coroutine" \in flags[Desc[q].orig]
      BY <1>7, <1>9, <2>2, Zenon
    <3>2. CASE Desc[q].orig = t
      <4>1. pc'[w] = "unset_read"
        BY <1>5, <2>2, <3>2, SMTT(30)
      <4> QED
        BY <1>2, <3>2, <4>1, Zenon DEF Updating, Updates
    <3>3. CASE Desc[q].orig # t
      <4>1. PICK v \in WorkerId : Updating(v, Desc[q].orig)
        BY <3>1, Zenon DEF RemInv, Disabled
      <4>2. v # w
        BY <3>3, <4>1, Zenon DEF Updating
      <4> QED
        BY <1>8, <3>1, <4>1, <4>2, Zenon
    <3> QED
      BY <3>2, <3>3, Zenon
  <2>3. \A u \in Task : Desc[u].remote /\ "module_complete" \in flags'[u]
                       => "disable_run" \in flags'[u] /\ "coroutine" \notin flags'[u]
    BY <1>7, Zenon DEF RemInv, Disabled
  <2> QED
    BY <2>1, <2>2, <2>3, Zenon DEF Disabled
<1>12. Current'
  <2>1. \A q \in Carrier', v \in WorkerId : Updating(v, Desc[q].orig)' => thread'[q] = "none"
    BY <1>2, <1>8, <1>9, Zenon DEF RemInv, Current
  <2>2. ASSUME NEW v \in WorkerId, pc'[v] \in {"disable_write", "unset_write"}
        PROVE  seen'[v] = flags'[cur'[v]]
    <3>1. v # w /\ pc'[v] = pc[v] /\ seen'[v] = seen[v] /\ cur'[v] = cur[v]
      BY <1>2, <1>5, <1>6, <2>2, Zenon
    <3>2. seen[v] = flags[cur[v]] /\ pc[v] \notin Idle
      BY <2>2, <3>1, Zenon DEF RemInv, Current, Idle
    <3>3. cur[v] \in Task /\ cur[v] # t
      BY <1>3, <3>1, <3>2, HasTask, Zenon
    <3> QED
      BY <1>6, <3>1, <3>2, <3>3, Zenon
  <2>3. ASSUME NEW q \in ThreadTask, thread'[q] = "write"
        PROVE  seen'[q] = flags'[Desc[q].orig]
    <3>1. thread[q] = "write" /\ q \in Carrier
      BY <1>2, <2>3, Zenon DEF RemInv, Carried, Carrier
    <3>2. Desc[q].orig # t
      BY <1>3, <3>1, Zenon DEF RemInv, Current
    <3>3. seen[q] = flags[Desc[q].orig]
      BY <3>1, Zenon DEF RemInv, Current
    <3> QED
      BY <1>6, <1>9, <3>2, <3>3, Zenon
  <2> QED
    BY <2>1, <2>2, <2>3, Zenon DEF Current
<1>13. Carried'
  <2>1. \A q \in Carrier' : thread'[q] \notin {"self", "done"}
          => entry'[Desc[q].orig] = "in" /\ "module_complete" \notin flags'[Desc[q].orig]
    BY <1>2, <1>7, <1>9, Zenon DEF RemInv, Carried
  <2>2. ASSUME NEW q \in ThreadTask
        PROVE  /\ thread'[q] # "none" => q \in alloc' /\ "disable_run" \in flags'[q]
               /\ thread'[q] # "done" => "module_complete" \notin flags'[q]
               /\ thread'[q] \notin {"none", "done"} => entry'[q] = "in"
    BY <1>2, <1>7, <1>9, Zenon DEF RemInv, Carried
  <2> QED
    BY <1>2, <2>1, <2>2, Zenon DEF RemInv, Carried
<1>14. DispersedOnce'
  BY <1>2, Zenon DEF RemInv, DispersedOnce
<1>15. Pushing'
  <2>1. \A v \in WorkerId : pc'[v] = "pushed" => v # w
    BY <1>5, Zenon
  <2> QED
    BY <1>2, <1>6, <2>1, Zenon DEF RemInv, Pushing
<1> QED
  BY <1>11, <1>12, <1>13, <1>14, <1>15, Zenon DEF RemInv

\* The thread of a PushTask: what it marks is not what a worker has read.
LEMMA ThreadRem ==
  ASSUME IndInv, RemInv, NEW q \in ThreadTask, ThreadNext(q)
  PROVE  RemInv'
<1>1. /\ flags \in [Task -> SUBSET Flag] /\ thread \in [Task -> ThreadPc]
      /\ seen \in [WorkerId \cup Task -> SUBSET Flag]
  BY HasTask, Zenon DEF TypeOK
<1>2. /\ UNCHANGED <<entry, alloc, pc, cur>> /\ thread[q] \in {"rpc", "read", "write", "self"}
      /\ \A u \in Task : u # q => thread'[u] = thread[u]
  <2>1. \A a, b : ThreadStep(q, a, b) => /\ UNCHANGED <<entry, alloc, pc, cur>> /\ thread[q] = a
                                          /\ thread' = [thread EXCEPT ![q] = b]
    BY Zenon DEF ThreadStep, scanVars
  <2> QED
    BY <1>1, <2>1, Zenon DEF ThreadNext, ThreadRpc, ThreadRead, ThreadWrite, ThreadSelf
<1>3. /\ q \in Task /\ q \in Carrier /\ "disable_run" \in flags[q] /\ entry[q] = "in"
      /\ Carrier' = Carrier /\ \A x \in Carrier : x \in ThreadTask
  BY <1>2, ThreadFacts, Zenon DEF RemInv, Carried, Carrier
<1>4. \A x \in ThreadTask : /\ x \in Task /\ Desc[x].orig \in Task /\ Desc[Desc[x].orig].remote
                            /\ Desc[x].orig # q /\ ~Desc[x].remote /\ x \notin WorkerId
  BY ThreadFacts, Zenon
<1>5. \A x \in Carrier : Desc[x].orig = Desc[q].orig => x = q
  BY <1>3, Zenon DEF RemInv, DispersedOnce, Carrier
<1>6. \A v \in WorkerId : ~Updating(v, Desc[q].orig)
  BY <1>2, <1>3, Zenon DEF RemInv, Current
<1>7. /\ "disable_run" \in flags[Desc[q].orig] /\ "coroutine" \notin flags[Desc[q].orig]
  BY <1>3, <1>6, Zenon DEF RemInv, Disabled
<1>8. \/ /\ thread[q] = "rpc" /\ thread'[q] = "read" /\ flags' = flags /\ seen' = seen
      \/ /\ thread[q] = "read" /\ thread'[q] = "write" /\ flags' = flags
         /\ seen'[q] = flags[Desc[q].orig]
      \/ /\ thread[q] = "write" /\ thread'[q] = "self"
         /\ flags'[Desc[q].orig] = flags[Desc[q].orig] \cup {"module_complete"}
         /\ \A u \in Task : u # Desc[q].orig => flags'[u] = flags[u]
      \/ /\ thread[q] = "self" /\ thread'[q] = "done"
         /\ flags'[q] = flags[q] \cup {"module_complete"}
         /\ \A u \in Task : u # q => flags'[u] = flags[u]
  <2>1. \A a, b : ThreadStep(q, a, b) => thread[q] = a /\ thread'[q] = b
    BY <1>1, <1>3, Zenon DEF ThreadStep
  <2>2. CASE ThreadRpc(q)
    BY <2>1, <2>2, Zenon DEF ThreadRpc
  <2>3. CASE ThreadRead(q)
    BY <1>1, <1>3, <2>1, <2>3, Zenon DEF ThreadRead
  <2>4. CASE ThreadWrite(q)
    <3>1. thread[q] = "write" /\ thread'[q] = "self"
      BY <2>1, <2>4, Zenon DEF ThreadWrite
    <3>2. flags' = [flags EXCEPT ![Desc[q].orig] = seen[q] \cup {"module_complete"}]
      BY <2>4, Zenon DEF ThreadWrite
    <3>3. seen[q] = flags[Desc[q].orig]
      BY <3>1, Zenon DEF RemInv, Current
    <3> QED
      BY <1>1, <1>4, <3>1, <3>2, <3>3, Zenon
  <2>5. CASE ThreadSelf(q)
    BY <1>1, <1>3, <2>1, <2>5, Zenon DEF ThreadSelf, SetFlags
  <2> QED
    BY <2>2, <2>3, <2>4, <2>5, Zenon DEF ThreadNext
<1>9. \A a \in WorkerId \cup Task : a # q => seen'[a] = seen[a]
  BY <1>1, Zenon DEF ThreadNext, ThreadRpc, ThreadRead, ThreadWrite, ThreadSelf
<1>10. \A u \in Task : /\ u # q /\ u # Desc[q].orig => flags'[u] = flags[u]
                       /\ "disable_run" \in flags'[u] <=> "disable_run" \in flags[u]
                       /\ "coroutine" \in flags'[u] <=> "coroutine" \in flags[u]
  <2> TAKE u \in Task
  <2>1. u # q /\ u # Desc[q].orig => flags'[u] = flags[u]
    BY <1>8, Zenon
  <2>2. flags'[u] = flags[u] \/ flags'[u] = flags[u] \cup {"module_complete"}
    BY <1>8, Zenon
  <2>3. /\ "disable_run" \in flags'[u] <=> "disable_run" \in flags[u]
        /\ "coroutine" \in flags'[u] <=> "coroutine" \in flags[u]
    BY <2>2, SMTT(30)
  <2> QED
    BY <2>1, <2>3, Zenon
<1>11. \A v \in WorkerId, u \in Task : Updating(v, u)' <=> Updating(v, u)
  BY <1>2, Zenon DEF Updating
<1>12. DispersedOnce' /\ Pushing'
  BY <1>2, Zenon DEF RemInv, DispersedOnce, Pushing
<1>13. Disabled'
  <2>1. ASSUME NEW x \in Carrier, "disable_run" \notin flags'[Desc[x].orig]
        PROVE  \E v \in WorkerId : /\ Updating(v, Desc[x].orig)'
                                   /\ pc'[v] \in {"disable_read", "disable_write"}
    <3>1. "disable_run" \notin flags[Desc[x].orig] /\ Desc[x].orig \in Task
      BY <1>3, <1>4, <1>10, <2>1, Zenon
    <3> QED
      BY <1>2, <1>11, <3>1, Zenon DEF RemInv, Disabled
  <2>2. ASSUME NEW x \in Carrier, "coroutine" \in flags'[Desc[x].orig]
        PROVE  \E v \in WorkerId : Updating(v, Desc[x].orig)'
    <3>1. "coroutine" \in flags[Desc[x].orig] /\ Desc[x].orig \in Task
      BY <1>3, <1>4, <1>10, <2>2, Zenon
    <3> QED
      BY <1>11, <3>1, Zenon DEF RemInv, Disabled
  <2>3. ASSUME NEW u \in Task, Desc[u].remote, "module_complete" \in flags'[u]
        PROVE  "disable_run" \in flags'[u] /\ "coroutine" \notin flags'[u]
    <3>1. CASE u = Desc[q].orig
      BY <1>7, <1>10, <3>1, Zenon
    <3>2. CASE u # Desc[q].orig
      <4>1. u # q
        BY <1>4, <2>3, Zenon
      <4>2. flags'[u] = flags[u]
        BY <1>10, <3>2, <4>1, Zenon
      <4> QED
        BY <2>3, <4>2, Zenon DEF RemInv, Disabled
    <3> QED
      BY <3>1, <3>2, Zenon
  <2> QED
    BY <1>3, <2>1, <2>2, <2>3, Zenon DEF Disabled
<1>14. Current'
  <2>1. ASSUME NEW x \in Carrier, NEW v \in WorkerId, Updating(v, Desc[x].orig)'
        PROVE  thread'[x] = "none"
    <3>1. Updating(v, Desc[x].orig) /\ x \in Task
      BY <1>3, <1>4, <1>11, <2>1, Zenon
    <3>2. x # q
      BY <1>6, <3>1, Zenon
    <3> QED
      BY <1>2, <3>1, <3>2, Zenon DEF RemInv, Current
  <2>2. ASSUME NEW v \in WorkerId, pc'[v] \in {"disable_write", "unset_write"}
        PROVE  seen'[v] = flags'[cur'[v]]
    <3>1. pc[v] \in {"disable_write", "unset_write"} /\ cur'[v] = cur[v]
      BY <1>2, <2>2, Zenon
    <3>2. seen[v] = flags[cur[v]] /\ Updating(v, cur[v])
      BY <3>1, Zenon DEF RemInv, Current, Updating, Updates
    <3>3. ScanAt(v)
      BY Zenon DEF IndInv, ScanInv
    <3>4. cur[v] \in Task /\ Desc[cur[v]].remote
      BY <3>1, <3>3, Zenon DEF ScanAt, Pc
    <3>5. cur[v] # q /\ cur[v] # Desc[q].orig /\ v # q
      BY <1>4, <1>6, <3>2, <3>4, Zenon
    <3> QED
      BY <1>9, <1>10, <3>1, <3>2, <3>4, <3>5, Zenon
  <2>3. ASSUME NEW x \in ThreadTask, thread'[x] = "write"
        PROVE  seen'[x] = flags'[Desc[x].orig]
    <3>1. CASE x = q
      BY <1>8, <2>3, <3>1, Zenon
    <3>2. CASE x # q
      <4>a. thread[x] = "write"
        BY <1>2, <1>4, <2>3, <3>2, Zenon
      <4>b. seen[x] = flags[Desc[x].orig]
        BY <4>a, Zenon DEF RemInv, Current
      <4>c. x \in alloc
        BY <4>a, Zenon DEF RemInv, Carried
      <4>1. thread[x] = "write" /\ x \in Carrier /\ seen[x] = flags[Desc[x].orig]
        BY <4>a, <4>b, <4>c, Zenon DEF Carrier
      <4>2. Desc[x].orig # Desc[q].orig
        BY <1>5, <3>2, <4>1, Zenon
      <4> QED
        BY <1>4, <1>9, <1>10, <3>2, <4>1, <4>2, Zenon
    <3> QED
      BY <3>1, <3>2, Zenon
  <2> QED
    BY <1>3, <2>1, <2>2, <2>3, Zenon DEF Current
<1>15. Carried'
  <2>1. ASSUME NEW x \in Carrier, thread'[x] \notin {"self", "done"}
        PROVE  entry'[Desc[x].orig] = "in" /\ "module_complete" \notin flags'[Desc[x].orig]
    <3>1. thread[x] \notin {"self", "done"}
      BY <1>2, <1>3, <1>4, <1>8, <2>1, Zenon
    <3>2. entry[Desc[x].orig] = "in" /\ "module_complete" \notin flags[Desc[x].orig]
      BY <3>1, Zenon DEF RemInv, Carried
    <3>3. flags'[Desc[x].orig] = flags[Desc[x].orig]
      <4>1. CASE x = q
        BY <1>8, <2>1, <4>1, Zenon
      <4>2. CASE x # q
        BY <1>3, <1>4, <1>5, <1>10, <4>2, Zenon
      <4> QED
        BY <4>1, <4>2, Zenon
    <3> QED
      BY <1>2, <3>2, <3>3, Zenon
  <2>2. ASSUME NEW x \in ThreadTask
        PROVE  /\ thread'[x] # "none" => x \in alloc' /\ "disable_run" \in flags'[x]
               /\ thread'[x] # "done" => "module_complete" \notin flags'[x]
               /\ thread'[x] \notin {"none", "done"} => entry'[x] = "in"
    <3>1. CASE x = q
      <4>1. "module_complete" \notin flags[q] /\ q \in alloc
        BY <1>2, <1>3, Zenon DEF RemInv, Carried, Carrier
      <4>2. thread'[q] # "done" => flags'[q] = flags[q]
        BY <1>3, <1>4, <1>8, Zenon
      <4> QED
        BY <1>2, <1>3, <1>10, <3>1, <4>1, <4>2, Zenon
    <3>2. CASE x # q
      <4>1. x \in Task /\ x # Desc[q].orig
        BY <1>4, Zenon
      <4>2. thread'[x] = thread[x] /\ flags'[x] = flags[x]
        BY <1>2, <1>10, <3>2, <4>1, Zenon
      <4> QED
        BY <1>2, <4>2, Zenon DEF RemInv, Carried
    <3> QED
      BY <3>1, <3>2, Zenon
  <2>3. \A u \in Task \ ThreadTask : thread'[u] = "none"
    BY <1>2, Zenon DEF RemInv, Carried
  <2> QED
    BY <1>3, <2>1, <2>2, <2>3, Zenon DEF Carried
<1> QED
  BY <1>12, <1>13, <1>14, <1>15, Zenon DEF RemInv

\* Worker w goes on outside the updates of a flag word.
Moved(w) ==
  /\ pc[w] \notin Updates /\ pc'[w] \notin Updates
  /\ pc'[w] = "pushed" => Desc[cur'[w]].kind = "push"
  /\ \A v \in WorkerId \ {w} : pc'[v] = pc[v] /\ cur'[v] = cur[v]

\* Such a step of a worker is apart.
LEMMA MovedApart ==
  ASSUME Pushing, NEW w \in WorkerId, Moved(w), Aside
  PROVE  Apart
<1>1. \A v \in WorkerId : pc[v] \in Updates \/ pc'[v] \in Updates
                            => pc'[v] = pc[v] /\ cur'[v] = cur[v]
  BY Zenon DEF Moved
<1>2. \A v \in WorkerId : pc'[v] = "pushed" => Desc[cur'[v]].kind = "push"
  BY Zenon DEF Moved, Pushing
<1> QED
  BY <1>1, <1>2, Zenon DEF Aside, Apart

\* What a worker does with the task it looks at is apart, unless the task is
\* dispersed or handed to a thread.
LEMMA ApartAt ==
  ASSUME IndInv, RemInv, NEW w \in WorkerId, NEW t \in Task, AtTask(w, t),
         PollTask(w, t), ~Disperse(w, t), ~RunPreemptive(w, t)
  PROVE  Apart
<1>1. /\ flags \in [Task -> SUBSET Flag] /\ pc \in [WorkerId -> Pc]
      /\ cur \in [WorkerId -> Task \cup {NoTask}]
      /\ entry \in [Task -> {"none", "in", "complete", "popped"}]
      /\ FreshInv
  BY HasTask, Zenon DEF TypeOK
<1>2. pc[w] = "poll" /\ entry[t] = "in" /\ pc[w] \notin Updates /\ Pushing
  BY Zenon DEF AtTask, Updates, RemInv
<1>3. ASSUME NEW next \in {"check", "end"}, pc' = [pc EXCEPT ![w] = next],
             cur' = [cur EXCEPT ![w] = t]
      PROVE  Moved(w)
  <2>1. pc'[w] = next /\ \A v \in WorkerId \ {w} : pc'[v] = pc[v] /\ cur'[v] = cur[v]
    BY <1>1, <1>3, Zenon
  <2> QED
    BY <1>2, <2>1, Zenon DEF Moved, Updates
<1>4. CASE PollOrphan(w, t)
  <2>1. UNCHANGED <<thread, seen, alloc, flags>> /\ Desc[t].kind = "orphan" /\ Moved(w)
    BY <1>3, <1>4, Zenon DEF PollOrphan
  <2>2. \A u \in Task : u # t => entry'[u] = entry[u]
    BY <1>1, <1>4, Zenon DEF PollOrphan, PopTask
  <2>3. Aside
    BY <2>1, <2>2, Zenon DEF Aside
  <2> QED
    BY <1>2, <2>1, <2>3, MovedApart, Zenon
<1>5. CASE PollHold(w, t)
  <2>1. UNCHANGED <<thread, seen, alloc, flags, entry>> /\ Moved(w)
    BY <1>3, <1>5, Zenon DEF PollHold, taskVars
  <2>2. Aside
    BY <2>1, Zenon DEF Aside
  <2> QED
    BY <1>2, <2>1, <2>2, MovedApart, Zenon
<1>6. ASSUME NEW kind \in {"oneshot", "resident", "push", "create"}, Local(t, kind)
      PROVE  ~Desc[t].remote /\ t \notin ThreadTask
  BY <1>6, Zenon DEF Local, ThreadTask
<1>7. ASSUME NEW S, SetFlags(t, S), Execute(w, t, "check"), ~Desc[t].remote, t \notin ThreadTask,
             UNCHANGED <<thread, alloc, entry>>
      PROVE  Apart
  <2>1. seen' = seen /\ Moved(w)
    BY <1>3, <1>7, Zenon DEF Execute
  <2>2. \A u \in Task : u # t => flags'[u] = flags[u]
    BY <1>1, <1>7, Zenon DEF SetFlags
  <2>3. Aside
    BY <1>7, <2>1, <2>2, Zenon DEF Aside
  <2> QED
    BY <1>2, <2>1, <2>3, MovedApart, Zenon
<1>8. CASE RunOneshot(w, t)
  BY <1>6, <1>7, <1>8, Zenon DEF RunOneshot
<1>9. CASE RunResident(w, t)
  BY <1>6, <1>7, <1>9, Zenon DEF RunResident
<1>10. CASE PushWait(w, t)
  BY <1>6, <1>7, <1>10, Zenon DEF PushWait
<1>11. CASE CreateKnown(w, t)
  BY <1>6, <1>7, <1>11, Zenon DEF CreateKnown
<1>12. CASE CreateResume(w, t)
  <2>1. Execute(w, t, "check") /\ UNCHANGED <<thread, alloc, entry>>
        /\ ~Desc[t].remote /\ t \notin ThreadTask
    BY <1>6, <1>12, Zenon DEF CreateResume
  <2>2. SetFlags(t, {"module_complete"}) \/ flags' = flags
    BY <1>12, Zenon DEF CreateResume
  <2>3. flags' = flags => SetFlags(t, {})
    <3>1. flags[t] \cup {} = flags[t] /\ flags = [flags EXCEPT ![t] = flags[t]]
      BY <1>1, SMTT(30)
    <3> QED
      BY <3>1, SMTT(30) DEF SetFlags
  <2> QED
    BY <1>7, <2>1, <2>2, <2>3, Zenon
<1>13. CASE PushSchedule(w, t)
  <2>1. /\ HasSub(t) /\ phase[t] = "start" /\ Execute(w, t, "pushed")
        /\ UNCHANGED <<alloc, thread>> /\ Desc[t].kind = "push"
        /\ entry' = [entry EXCEPT ![Desc[t].sub] = "in"]
        /\ flags' = [flags EXCEPT ![t] = @ \cup {"started"},
                                  ![Desc[t].sub] = UnsetFireAndForget(@)]
    BY <1>13, TaskFacts, Zenon DEF PushSchedule, Local, Emplace
  <2>2. Desc[t].sub \in Task /\ ~Desc[t].remote /\ t \notin ThreadTask
    BY <2>1, TaskFacts, Zenon
  <2>3. entry[Desc[t].sub] = "none"
    BY <1>1, <2>1, <2>2, ZenonT(30) DEF FreshInv
  <2>4. Desc[t].sub # t
    BY <1>2, <2>3, Zenon
  <2>5. /\ \A u \in Task : u # t /\ u # Desc[t].sub => flags'[u] = flags[u]
        /\ flags'[Desc[t].sub] = flags[Desc[t].sub] \ {"faf"}
    BY <1>1, <2>1, <2>2, <2>4, SMTT(30) DEF UnsetFireAndForget
  <2>6. \A u \in Task : entry[u] = "in" => entry'[u] = "in"
    BY <1>1, <2>1, <2>2, Zenon
  <2>7. seen' = seen /\ pc' = [pc EXCEPT ![w] = "pushed"] /\ cur' = [cur EXCEPT ![w] = t]
    BY <2>1, Zenon DEF Execute
  <2>8. /\ pc'[w] = "pushed" /\ cur'[w] = t
        /\ \A v \in WorkerId \ {w} : pc'[v] = pc[v] /\ cur'[v] = cur[v]
    BY <1>1, <2>7, Zenon
  <2>9. Moved(w)
    BY <1>2, <2>1, <2>8, Zenon DEF Moved, Updates
  <2>10. Aside
    BY <2>1, <2>2, <2>3, <2>5, <2>6, <2>7, Zenon DEF Aside
  <2> QED
    BY <1>2, <2>9, <2>10, MovedApart, Zenon
<1>14. CASE CreateAskId(w, t)
  <2>1. /\ HasSub(t) /\ Execute(w, t, "check") /\ thread' = thread
        /\ alloc' = alloc \cup {Desc[t].sub}
        /\ entry' = [entry EXCEPT ![Desc[t].sub] = "in"]
        /\ SetFlags(t, {"started"})
    BY <1>14, TaskFacts, Zenon DEF CreateAskId, Emplace
  <2>2. /\ Desc[t].sub \in Task /\ ~Desc[t].remote /\ t \notin ThreadTask
        /\ Desc[t].sub \notin ThreadTask
    BY <2>1, TaskFacts, Zenon
  <2>3. \A u \in Task : u # t => flags'[u] = flags[u]
    BY <1>1, <2>1, Zenon DEF SetFlags
  <2>4. \A u \in Task : entry[u] = "in" => entry'[u] = "in"
    BY <1>1, <2>1, <2>2, Zenon
  <2>5. seen' = seen /\ Moved(w)
    BY <1>3, <2>1, Zenon DEF Execute
  <2>6. Aside
    BY <2>1, <2>2, <2>3, <2>4, <2>5, Zenon DEF Aside
  <2> QED
    BY <1>2, <2>5, <2>6, MovedApart, Zenon
<1> QED
  BY <1>4, <1>5, <1>8, <1>9, <1>10, <1>11, <1>12, <1>13, <1>14, Zenon DEF PollTask

\* So is every other step of a worker, but for the updates of a flag word.
LEMMA ApartWorker ==
  ASSUME IndInv, MemInv, RemInv, NEW w \in WorkerId,
         \/ Run(w) \/ PollReturn(w) \/ PollComplete(w) \/ PushCheck(w)
         \/ CheckIncomplete(w) \/ CheckComplete(w) \/ EndTask(w)
  PROVE  Apart
<1>1. /\ flags \in [Task -> SUBSET Flag] /\ pc \in [WorkerId -> Pc]
      /\ cur \in [WorkerId -> Task \cup {NoTask}]
      /\ entry \in [Task -> {"none", "in", "complete", "popped"}]
      /\ Pushing /\ \A v \in WorkerId : pc[v] \notin Idle => cur[v] \in Task
  BY HasTask, Zenon DEF TypeOK, RemInv
<1>2. ASSUME pc[w] \notin Updates, cur' = cur,
             \E next \in {"entry", "poll", "check", "end", "exited"} : pc' = [pc EXCEPT ![w] = next]
      PROVE  Moved(w)
  <2>1. PICK next \in {"entry", "poll", "check", "end", "exited"} : pc' = [pc EXCEPT ![w] = next]
    BY <1>2, Zenon
  <2>2. pc'[w] = next /\ \A v \in WorkerId \ {w} : pc'[v] = pc[v] /\ cur'[v] = cur[v]
    BY <1>1, <1>2, <2>1, Zenon
  <2> QED
    BY <1>2, <2>2, Zenon DEF Moved, Updates
<1>3. NextEntry(w) => \E next \in {"entry", "poll", "check", "end", "exited"} :
                        pc' = [pc EXCEPT ![w] = next]
  BY Zenon DEF NextEntry
<1>4. ASSUME Run(w) \/ PollReturn(w)
      PROVE  Apart
  <2>1. UNCHANGED <<thread, seen, alloc, flags, entry>> /\ cur' = cur
    BY <1>4, Zenon DEF Run, PollReturn, taskVars
  <2>2. pc[w] \notin Updates
    BY <1>4, Zenon DEF Run, PollReturn, Updates
  <2>3. \E next \in {"entry", "poll", "check", "end", "exited"} : pc' = [pc EXCEPT ![w] = next]
    BY <1>3, <1>4, Zenon DEF Run, PollReturn, BeginPoll
  <2>4. Aside
    BY <2>1, Zenon DEF Aside
  <2> QED
    BY <1>1, <1>2, <2>1, <2>2, <2>3, <2>4, MovedApart, Zenon
<1>5. CASE PollComplete(w)
  <2>1. /\ UNCHANGED <<thread, seen, alloc, flags>> /\ cur' = cur /\ pc[w] \notin Updates
        /\ pc' = [pc EXCEPT ![w] = "poll"] /\ entry[Peeked(w)] = "complete"
    BY <1>5, Zenon DEF PollComplete, NextIter, Updates
  <2>2. \A u \in Task : entry[u] = "in" => entry'[u] = "in"
    BY <1>1, <1>5, <2>1, Zenon DEF PollComplete, PopTask
  <2>3. Aside
    BY <2>1, <2>2, Zenon DEF Aside
  <2> QED
    BY <1>1, <1>2, <2>1, <2>3, MovedApart, Zenon
<1>6. CASE PushCheck(w)
  <2>1. /\ UNCHANGED <<thread, seen, alloc, entry>> /\ cur' = cur /\ pc[w] \notin Updates
        /\ pc' = [pc EXCEPT ![w] = "check"] /\ pc[w] = "pushed"
    BY <1>6, Zenon DEF PushCheck, Updates
  <2>2. cur[w] \in Task /\ Desc[cur[w]].kind = "push"
    BY <1>1, <2>1, Zenon DEF Pushing, Idle
  <2>3. ~Desc[cur[w]].remote /\ cur[w] \notin ThreadTask
    BY <2>2, TaskFacts, Zenon
  <2>4. \A u \in Task : u # cur[w] => flags'[u] = flags[u]
    BY <1>1, <1>6, Zenon DEF PushCheck, SetFlags
  <2>5. Aside
    BY <2>1, <2>3, <2>4, Zenon DEF Aside
  <2> QED
    BY <1>1, <1>2, <2>1, <2>5, MovedApart, Zenon
<1>7. CASE CheckIncomplete(w)
  <2>1. /\ UNCHANGED <<thread, seen, alloc, flags, entry>> /\ cur' = cur /\ pc[w] \notin Updates
        /\ pc' = [pc EXCEPT ![w] = "poll"]
    BY <1>7, Zenon DEF CheckIncomplete, NextIter, Updates, taskVars
  <2>2. Aside
    BY <2>1, Zenon DEF Aside
  <2> QED
    BY <1>1, <1>2, <2>1, <2>2, MovedApart, Zenon
<1>8. CASE CheckComplete(w)
  <2>1. /\ UNCHANGED <<thread, seen, alloc, flags>> /\ cur' = cur /\ pc[w] \notin Updates
        /\ pc' = [pc EXCEPT ![w] = "end"] /\ "module_complete" \in flags[cur[w]]
    BY <1>8, Zenon DEF CheckComplete, Updates
  <2>2. \A u \in Task : u # cur[w] => entry'[u] = entry[u]
    BY <1>1, <1>8, Zenon DEF CheckComplete, PopTask
  <2>3. Aside
    BY <2>1, <2>2, Zenon DEF Aside
  <2> QED
    BY <1>1, <1>2, <2>1, <2>3, MovedApart, Zenon
<1>9. CASE EndTask(w)
  <2>1. /\ UNCHANGED <<thread, seen, alloc, entry>> /\ pc[w] = "end" /\ pc[w] \notin Updates
        /\ pc' = [pc EXCEPT ![w] = "poll"] /\ cur' = [cur EXCEPT ![w] = NoTask]
    BY <1>9, Zenon DEF EndTask, NextIter, Updates
  <2>2. cur[w] \in Task
    BY <1>1, <2>1, Zenon DEF Idle
  <2>3. /\ entry[cur[w]] # "in"
        /\ Desc[cur[w]].kind # "orphan" => "module_complete" \in flags[cur[w]]
    BY <2>1, Zenon DEF MemInv, Ending
  <2>4. Desc[cur[w]].remote \/ cur[w] \in ThreadTask => Desc[cur[w]].kind # "orphan"
    BY <2>2, TaskAssumption, Zenon DEF ThreadTask
  <2>5. /\ \A u \in Task : u # cur[w] => flags'[u] = flags[u]
        /\ \/ flags'[cur[w]] = flags[cur[w]]
           \/ flags'[cur[w]] = flags[cur[w]] \cup {"module_complete", "complete"}
    BY <1>1, <1>9, <2>2, Zenon DEF EndTask, SetFlags
  <2>6. /\ pc'[w] = "poll" /\ \A v \in WorkerId \ {w} : pc'[v] = pc[v] /\ cur'[v] = cur[v]
    BY <1>1, <2>1, Zenon
  <2>7. Moved(w)
    BY <2>1, <2>6, Zenon DEF Moved, Updates
  <2>8. Aside
    BY <2>1, <2>3, <2>4, <2>5, Zenon DEF Aside
  <2> QED
    BY <1>1, <2>7, <2>8, MovedApart, Zenon
<1> QED
  BY <1>4, <1>5, <1>6, <1>7, <1>8, <1>9, Zenon

\* Clients and Join are apart.
LEMMA ApartClient ==
  ASSUME IndInv, RemInv,
         (\E t \in RootTask : ClientNext(t)) \/ Join \/ UNCHANGED vars
  PROVE  Apart
<1>1. \A v \in WorkerId : pc[v] = "pushed" => Desc[cur[v]].kind = "push"
  BY Zenon DEF RemInv, Pushing
<1>2. entry \in [Task -> {"none", "in", "complete", "popped"}]
  BY HasTask, Zenon DEF TypeOK
<1>3. ASSUME Aside, UNCHANGED <<pc, cur>>
      PROVE  Apart
  BY <1>1, <1>3, Zenon DEF Apart
<1>4. ASSUME NEW t \in RootTask, ClientNext(t)
      PROVE  Apart
  <2>1. UNCHANGED <<thread, seen, flags, pc, cur>> /\ t \in Task /\ t \notin ThreadTask
    BY <1>4, Zenon DEF ClientNext, ClientNew, ClientEmplace, ClientReap, scanVars, RootTask
  <2>2. \A u \in Task : entry[u] = "in" => entry'[u] = "in"
    BY <1>2, <1>4, Zenon DEF ClientNext, ClientNew, ClientEmplace, ClientReap, Emplace
  <2>3. \A u \in Owned(t) : u \notin ThreadTask
    <3>1. Desc[t].kind = "push" => Desc[t].sub \notin ThreadTask
      BY <2>1, TaskFacts, Zenon
    <3> QED
      BY <2>1, <3>1, Zenon DEF Owned
  <2>4. alloc' = alloc \/ alloc' = alloc \cup Owned(t)
    BY <1>4, Zenon DEF ClientNext, ClientNew, ClientEmplace, ClientReap
  <2>5. Aside
    BY <2>1, <2>2, <2>3, <2>4, Zenon DEF Aside
  <2> QED
    BY <1>3, <2>1, <2>5, Zenon
<1>5. ASSUME Join \/ UNCHANGED vars
      PROVE  Apart
  <2>1. UNCHANGED <<thread, seen, flags, entry, alloc, pc, cur>>
    BY <1>5, Zenon DEF Join, vars, taskVars, scanVars
  <2>2. Aside
    BY <2>1, Zenon DEF Aside
  <2> QED
    BY <1>3, <2>1, <2>2, Zenon
<1> QED
  BY <1>4, <1>5, Zenon

\* Every step keeps RemInv when the PushTask of a task is in the hands of the
\* worker that disperses the task.
LEMMA NextRem ==
  ASSUME Together, IndInv, MemInv, RemInv, [Next]_vars
  PROVE  RemInv'
<1>1. ASSUME NEW w \in WorkerId, WorkerNext(w)
      PROVE  RemInv'
  <2>1. ASSUME NEW t \in Task, AtTask(w, t), PollTask(w, t)
        PROVE  RemInv'
    <3>1. CASE ~Disperse(w, t) /\ ~RunPreemptive(w, t)
      BY <2>1, <3>1, ApartAt, ApartRem, Zenon
    <3> QED
      BY <2>1, <3>1, DisperseRem, PreemptRem, Zenon
  <2>2. CASE FlagWrite(w)
    <3>1. cur[w] \in Task
      BY <2>2, HasTask, Zenon DEF FlagWrite, Idle
    <3> QED
      BY <2>2, <3>1, FlagWriteRem, Zenon
  <2>3. CASE FlagRead(w)
    BY <2>3, FlagReadRem, Zenon
  <2>4. ASSUME \/ Run(w) \/ PollReturn(w) \/ PollComplete(w) \/ PushCheck(w)
               \/ CheckIncomplete(w) \/ CheckComplete(w) \/ EndTask(w)
        PROVE  RemInv'
    BY <2>4, ApartWorker, ApartRem, Zenon
  <2> QED
    BY <1>1, <2>1, <2>2, <2>3, <2>4, Zenon DEF WorkerNext
<1>2. ASSUME NEW q \in ThreadTask, ThreadNext(q)
      PROVE  RemInv'
  BY <1>2, ThreadRem, Zenon
<1>3. ASSUME (\E t \in RootTask : ClientNext(t)) \/ Join \/ UNCHANGED vars
      PROVE  RemInv'
  BY <1>3, ApartClient, ApartRem, Zenon
<1> QED
  BY <1>1, <1>2, <1>3, Zenon DEF Next

\* At first nothing is dispersed.
LEMMA InitRem ==
  ASSUME Init
  PROVE  RemInv
<1>1. /\ alloc = {} /\ Carrier = {} /\ \A v \in WorkerId : pc[v] = "entry"
      /\ \A t \in Task : thread[t] = "none" /\ flags[t] = InitFlags(t)
  BY Zenon DEF Init, Carrier
<1>2. \A t \in Task : "module_complete" \notin flags[t]
  BY <1>1, SMTT(30) DEF InitFlags
<1>3. \A q \in ThreadTask : q \in Task
  BY Zenon DEF ThreadTask
<1>4. DispersedOnce /\ Pushing
  BY <1>1, Zenon DEF DispersedOnce, Pushing
<1>5. Disabled
  BY <1>1, <1>2, Zenon DEF Disabled
<1>6. Current
  BY <1>1, <1>3, Zenon DEF Current
<1>7. Carried
  BY <1>1, <1>2, <1>3, Zenon DEF Carried
<1> QED
  BY <1>4, <1>5, <1>6, <1>7, Zenon DEF RemInv

-----------------------------------------------------------------------------
(* The stacks of coroutines.                                               *)

\* What a step may do to task u without spoiling StackInv: u keeps its stack and
\* goes on, gets one, or leaves its lane.
StackKeeps(u) ==
  /\ "coroutine" \in flags'[u] => "coroutine" \in flags[u]
  /\ stack'[u] = stack[u] \/ stack'[u] \in {"live", "freed"}
  /\ HasSub(u) /\ Desc[u].kind = "create" /\ entry'[u] = "in" /\ stack'[u] # "live" =>
       /\ entry[u] \in {"in", "none"}
       /\ stack'[u] = stack[u] /\ phase'[u] = phase[u]
       /\ "module_complete" \in flags'[u]
            => "module_complete" \in flags[u] \/ phase[u] = "wait"

\* Such a step keeps StackInv.
LEMMA StackStep ==
  ASSUME IndInv, StackInv, \A u \in Task : StackKeeps(u)
  PROVE  StackInv'
<1>1. ASSUME NEW u \in Task
      PROVE  stack'[u] # "bad_free"
             /\ ("coroutine" \in flags'[u] => Desc[u].kind = "create")
  <2>1. stack[u] # "bad_free" /\ ("coroutine" \in flags[u] => Desc[u].kind = "create")
    BY Zenon DEF StackInv, StackFreedOnce
  <2>2. /\ "coroutine" \in flags'[u] => "coroutine" \in flags[u]
        /\ stack'[u] = stack[u] \/ stack'[u] \in {"live", "freed"}
    BY Zenon DEF StackKeeps
  <2> QED
    BY <2>1, <2>2, Zenon
<1>2. ASSUME NEW u \in Task, Desc[u].kind = "create", HasSub(u), entry'[u] = "in",
             phase'[u] = "wait" \/ "module_complete" \in flags'[u], stack'[u] # "live"
      PROVE  FALSE
  <2>1. /\ entry[u] \in {"in", "none"} /\ stack'[u] = stack[u]
        /\ phase[u] = "wait" \/ "module_complete" \in flags[u]
    BY <1>2, Zenon DEF StackKeeps
  <2>2. StartAt(u) /\ Ordered(u) /\ ~Desc[u].remote
    BY <1>2, HasTask, TaskFacts, Zenon DEF StartInv
  <2>3. entry[u] = "in"
    BY <2>1, <2>2, Zenon DEF StartAt
  <2> QED
    BY <1>2, <2>1, <2>3, Zenon DEF StackInv
<1>3. StackFreedOnce' /\ \A u \in Task : "coroutine" \in flags'[u] => Desc[u].kind = "create"
  BY <1>1, Zenon DEF StackFreedOnce
<1>4. \A u \in Task : /\ Desc[u].kind = "create" /\ HasSub(u) /\ entry'[u] = "in"
                      /\ phase'[u] = "wait" \/ "module_complete" \in flags'[u]
                      => stack'[u] = "live"
  BY <1>2, Zenon
<1> QED
  BY <1>3, <1>4, Zenon DEF StackInv

\* A handler gives a creation its stack before it waits or completes.
LEMMA StackAt ==
  ASSUME IndInv, NEW w \in WorkerId, NEW t \in Task, AtTask(w, t), PollTask(w, t)
  PROVE  \A u \in Task : StackKeeps(u)
<1>1. /\ flags \in [Task -> SUBSET Flag] /\ FreshInv /\ entry[t] = "in"
      /\ entry \in [Task -> {"none", "in", "complete", "popped"}]
      /\ phase \in [Task -> {"start", "wait"}]
      /\ stack \in [Task -> {"none", "live", "freed", "bad_free"}]
  BY HasTask, Zenon DEF TypeOK, AtTask
<1>2. ASSUME NEW S, SetFlags(t, S)
      PROVE  flags'[t] = flags[t] \cup S /\ \A u \in Task : u # t => flags'[u] = flags[u]
  BY <1>1, <1>2, Zenon DEF SetFlags
<1>3. ASSUME NEW x \in Task, entry[x] = "none", entry' = [entry EXCEPT ![x] = "in"]
      PROVE  \A u \in Task : entry'[u] = "in" => entry[u] \in {"in", "none"}
  BY <1>1, <1>3, Zenon
<1>4. ASSUME UNCHANGED <<flags, phase, stack>>,
             \A u \in Task : entry'[u] = "in" => entry[u] \in {"in", "none"}
      PROVE  \A u \in Task : StackKeeps(u)
  BY <1>4, Zenon DEF StackKeeps
<1>5. ASSUME NEW S, SetFlags(t, S), "coroutine" \notin S, UNCHANGED <<entry, phase, stack>>,
             Desc[t].kind # "create"
      PROVE  \A u \in Task : StackKeeps(u)
  BY <1>2, <1>5, Zenon DEF StackKeeps
<1>6. CASE PollOrphan(w, t)
  <2>1. UNCHANGED <<flags, phase, stack>>
    BY <1>6, Zenon DEF PollOrphan
  <2>2. \A u \in Task : entry'[u] = "in" => entry[u] = "in"
    BY <1>1, <1>6, Zenon DEF PollOrphan, PopTask
  <2> QED
    BY <1>4, <2>1, <2>2, Zenon
<1>7. CASE PollHold(w, t)
  BY <1>4, <1>7, Zenon DEF PollHold, taskVars
<1>8. CASE Disperse(w, t)
  <2>1. UNCHANGED <<flags, phase, stack>>
    BY <1>8, Zenon DEF Disperse
  <2>2. PICK x \in ThreadTask : x \notin alloc /\ Emplace(x)
    BY <1>8, Zenon DEF Disperse
  <2>3. entry[x] = "none" /\ x \in Task /\ entry' = [entry EXCEPT ![x] = "in"]
    BY <1>1, <2>2, Zenon DEF FreshInv, ThreadTask, Emplace
  <2> QED
    BY <1>3, <1>4, <2>1, <2>3, Zenon
<1>9. CASE RunOneshot(w, t)
  BY <1>5, <1>9, Zenon DEF RunOneshot, Local
<1>10. CASE RunResident(w, t)
  BY <1>5, <1>10, Zenon DEF RunResident, Local
<1>11. CASE PushWait(w, t)
  <2> DEFINE S == IF "complete" \in flags[Desc[t].sub]
                  THEN {"started", "module_complete"} ELSE {"started"}
  <2>1. SetFlags(t, S) /\ UNCHANGED <<entry, phase, stack>> /\ Desc[t].kind # "create"
    BY <1>11, Zenon DEF PushWait, Local
  <2>2. "coroutine" \notin S
    BY Zenon
  <2> QED
    BY <1>5, <2>1, <2>2, Zenon
<1>12. CASE RunPreemptive(w, t)
  BY <1>5, <1>12, Zenon DEF RunPreemptive, Local
<1>13. ASSUME HasSub(t), phase[t] = "start"
       PROVE  Desc[t].sub \in Task /\ entry[Desc[t].sub] = "none"
  BY <1>1, <1>13, TaskFacts, ZenonT(30) DEF FreshInv
<1>14. CASE PushSchedule(w, t)
  <2>1. /\ HasSub(t) /\ phase[t] = "start" /\ Desc[t].kind = "push" /\ stack' = stack
        /\ entry' = [entry EXCEPT ![Desc[t].sub] = "in"]
        /\ phase' = [phase EXCEPT ![t] = "wait"]
        /\ flags' = [flags EXCEPT ![t] = @ \cup {"started"},
                                  ![Desc[t].sub] = UnsetFireAndForget(@)]
    BY <1>14, TaskFacts, Zenon DEF PushSchedule, Local, Emplace
  <2>2. Desc[t].sub \in Task /\ entry[Desc[t].sub] = "none" /\ Desc[t].sub # t
    BY <1>1, <1>13, <2>1, Zenon
  <2>3. /\ \A u \in Task : u # t /\ u # Desc[t].sub => flags'[u] = flags[u]
        /\ flags'[Desc[t].sub] = flags[Desc[t].sub] \ {"faf"}
        /\ flags'[t] = flags[t] \cup {"started"}
    BY <1>1, <2>1, <2>2, SMTT(30) DEF UnsetFireAndForget
  <2>4. \A u \in Task : /\ "coroutine" \in flags'[u] => "coroutine" \in flags[u]
                        /\ "module_complete" \in flags'[u] => "module_complete" \in flags[u]
    BY <2>3, SMTT(30)
  <2>5. \A u \in Task : u # t => phase'[u] = phase[u]
    BY <1>1, <2>1, Zenon
  <2>6. \A u \in Task : entry'[u] = "in" => entry[u] \in {"in", "none"}
    BY <1>3, <2>1, <2>2, Zenon
  <2> QED
    BY <2>1, <2>4, <2>5, <2>6, Zenon DEF StackKeeps
<1>15. ASSUME NEW S, SetFlags(t, S), "coroutine" \notin S, stack' = [stack EXCEPT ![t] = "live"],
              \A u \in Task : u # t => phase'[u] = phase[u],
              \A u \in Task : entry'[u] = "in" => entry[u] \in {"in", "none"}
       PROVE  \A u \in Task : StackKeeps(u)
  <2>1. stack'[t] = "live" /\ \A u \in Task : u # t => stack'[u] = stack[u]
    BY <1>1, <1>15, Zenon
  <2> QED
    BY <1>2, <1>15, <2>1, Zenon DEF StackKeeps
<1>16. CASE CreateKnown(w, t)
  <2>1. /\ SetFlags(t, {"started", "module_complete"}) /\ UNCHANGED <<entry, phase>>
        /\ stack' = [stack EXCEPT ![t] = "live"]
    BY <1>16, Zenon DEF CreateKnown
  <2> QED
    BY <1>15, <2>1, Zenon
<1>17. CASE CreateAskId(w, t)
  <2>1. /\ HasSub(t) /\ phase[t] = "start" /\ SetFlags(t, {"started"})
        /\ entry' = [entry EXCEPT ![Desc[t].sub] = "in"]
        /\ stack' = [stack EXCEPT ![t] = "live"] /\ phase' = [phase EXCEPT ![t] = "wait"]
    BY <1>17, TaskFacts, Zenon DEF CreateAskId, Emplace
  <2>2. \A u \in Task : u # t => phase'[u] = phase[u]
    BY <1>1, <2>1, Zenon
  <2>3. \A u \in Task : entry'[u] = "in" => entry[u] \in {"in", "none"}
    BY <1>3, <1>13, <2>1, Zenon
  <2> QED
    BY <1>15, <2>1, <2>2, <2>3, Zenon
<1>18. CASE CreateResume(w, t)
  <2>1. phase[t] = "wait" /\ UNCHANGED <<entry, phase, stack>>
    BY <1>18, Zenon DEF CreateResume
  <2>2. SetFlags(t, {"module_complete"}) \/ flags' = flags
    BY <1>18, Zenon DEF CreateResume
  <2>3. \A u \in Task : /\ "coroutine" \in flags'[u] => "coroutine" \in flags[u]
                        /\ u # t => flags'[u] = flags[u]
    BY <1>2, <2>2, SMTT(30)
  <2>4. \A u \in Task : u # t => StackKeeps(u)
    BY <2>1, <2>3, Zenon DEF StackKeeps
  <2>5. StackKeeps(t)
    BY <1>1, <2>1, <2>3, Zenon DEF StackKeeps
  <2> QED
    BY <2>4, <2>5, Zenon
<1> QED
  BY <1>6, <1>7, <1>8, <1>9, <1>10, <1>11, <1>12, <1>14, <1>16, <1>17, <1>18, Zenon DEF PollTask

\* A completed coroutine has a stack when the worker frees it: a creation of this
\* node was given one, and a dispersed creation is no coroutine any more.
LEMMA StackWorker ==
  ASSUME IndInv, MemInv, RemInv, StackInv, NEW w \in WorkerId,
         \/ Run(w) \/ PollReturn(w) \/ PollComplete(w) \/ PushCheck(w) \/ FlagRead(w)
         \/ FlagWrite(w) \/ CheckIncomplete(w) \/ CheckComplete(w) \/ EndTask(w)
  PROVE  \A u \in Task : StackKeeps(u)
<1>1. /\ flags \in [Task -> SUBSET Flag]
      /\ entry \in [Task -> {"none", "in", "complete", "popped"}]
      /\ stack \in [Task -> {"none", "live", "freed", "bad_free"}]
      /\ \A v \in WorkerId : pc[v] \notin Idle => cur[v] \in Task
  BY HasTask, Zenon DEF TypeOK
<1>2. ASSUME UNCHANGED <<flags, phase, stack>>,
             \A u \in Task : entry'[u] = "in" => entry[u] = "in"
      PROVE  \A u \in Task : StackKeeps(u)
  BY <1>2, Zenon DEF StackKeeps
<1>3. ASSUME Run(w) \/ PollReturn(w) \/ FlagRead(w) \/ CheckIncomplete(w)
      PROVE  \A u \in Task : StackKeeps(u)
  <2>1. UNCHANGED <<flags, phase, stack, entry>>
    BY <1>3, Zenon DEF Run, PollReturn, FlagRead, CheckIncomplete, taskVars
  <2> QED
    BY <1>2, <2>1, Zenon
<1>4. CASE PollComplete(w)
  <2>1. UNCHANGED <<flags, phase, stack>>
    BY <1>4, Zenon DEF PollComplete
  <2>2. \A u \in Task : entry'[u] = "in" => entry[u] = "in"
    BY <1>1, <1>4, Zenon DEF PollComplete, PopTask
  <2> QED
    BY <1>2, <2>1, <2>2, Zenon
<1>5. ASSUME NEW t \in Task, UNCHANGED <<phase, stack, entry>>,
             \A u \in Task : u # t => flags'[u] = flags[u],
             "coroutine" \in flags'[t] => "coroutine" \in flags[t],
             Desc[t].kind = "push" \/ Desc[t].remote \/ entry[t] # "in"
      PROVE  \A u \in Task : StackKeeps(u)
  <2>1. Desc[t].kind = "create" /\ HasSub(t) => entry[t] # "in"
    BY <1>5, TaskFacts, Zenon
  <2>2. \A u \in Task : u # t => StackKeeps(u)
    BY <1>5, Zenon DEF StackKeeps
  <2>3. StackKeeps(t)
    BY <1>5, <2>1, Zenon DEF StackKeeps
  <2> QED
    BY <2>2, <2>3, Zenon
<1>6. CASE PushCheck(w)
  <2>1. UNCHANGED <<entry, phase, stack>> /\ pc[w] = "pushed"
    BY <1>6, Zenon DEF PushCheck
  <2>2. cur[w] \in Task /\ Desc[cur[w]].kind = "push"
    BY <1>1, <2>1, Zenon DEF RemInv, Pushing, Idle
  <2>3. /\ \A u \in Task : u # cur[w] => flags'[u] = flags[u]
        /\ "coroutine" \in flags'[cur[w]] => "coroutine" \in flags[cur[w]]
    BY <1>1, <1>6, <2>2, Zenon DEF PushCheck, SetFlags
  <2> QED
    BY <1>5, <2>1, <2>2, <2>3, Zenon
<1>7. CASE FlagWrite(w)
  <2>1. /\ UNCHANGED <<entry, phase, stack>> /\ pc[w] \in {"disable_write", "unset_write"}
        /\ flags' = [flags EXCEPT ![cur[w]] = Updated(w)]
    BY <1>7, Zenon DEF FlagWrite
  <2>2. cur[w] \in Task /\ seen[w] = flags[cur[w]]
    BY <1>1, <2>1, Zenon DEF Idle, RemInv, Current
  <2>3. Desc[cur[w]].remote
    BY <2>1, Zenon DEF IndInv, ScanInv, ScanAt
  <2>4. "coroutine" \in Updated(w) => "coroutine" \in flags[cur[w]]
    BY <2>2, Zenon DEF Updated
  <2>5. flags'[cur[w]] = Updated(w) /\ \A u \in Task : u # cur[w] => flags'[u] = flags[u]
    BY <1>1, <2>1, <2>2, Zenon
  <2> QED
    BY <1>5, <2>1, <2>2, <2>3, <2>4, <2>5, Zenon
<1>8. CASE EndTask(w)
  <2>1. UNCHANGED <<entry, phase, stack>> /\ pc[w] = "end"
    BY <1>8, Zenon DEF EndTask
  <2>2. cur[w] \in Task /\ entry[cur[w]] # "in"
    BY <1>1, <2>1, Zenon DEF Idle, MemInv, Ending
  <2>3. /\ \A u \in Task : u # cur[w] => flags'[u] = flags[u]
        /\ \/ flags'[cur[w]] = flags[cur[w]]
           \/ flags'[cur[w]] = flags[cur[w]] \cup {"module_complete", "complete"}
    BY <1>1, <1>8, <2>2, Zenon DEF EndTask, SetFlags
  <2>4. "coroutine" \in flags'[cur[w]] => "coroutine" \in flags[cur[w]]
    BY <2>3, SMTT(30)
  <2> QED
    BY <1>5, <2>1, <2>2, <2>3, <2>4, Zenon
<1>9. CASE CheckComplete(w)
  <2>1. /\ UNCHANGED <<flags, phase>> /\ pc[w] = "check" /\ "module_complete" \in flags[cur[w]]
        /\ "coroutine" \in flags[cur[w]] => FreeStack(cur[w])
        /\ "coroutine" \notin flags[cur[w]] => stack' = stack
    BY <1>9, Zenon DEF CheckComplete
  <2>2. cur[w] \in Task
    BY <1>1, <2>1, Zenon DEF Idle
  <2>3. entry[cur[w]] = "in"
    BY <2>1, Zenon DEF IndInv, ScanInv, ScanAt, Pc
  <2>4. entry'[cur[w]] # "in" /\ \A u \in Task : u # cur[w] => entry'[u] = entry[u]
    BY <1>1, <1>9, <2>2, Zenon DEF CheckComplete, PopTask
  <2>5. "coroutine" \in flags[cur[w]] => stack[cur[w]] = "live"
    <3>1. ASSUME "coroutine" \in flags[cur[w]]
          PROVE  Desc[cur[w]].kind = "create" /\ ~Desc[cur[w]].remote
      BY <2>1, <2>2, <3>1, Zenon DEF StackInv, RemInv, Disabled
    <3>2. "coroutine" \in flags[cur[w]] => HasSub(cur[w])
      BY <2>2, <3>1, TaskFacts, Zenon DEF Local
    <3> QED
      BY <2>1, <2>2, <2>3, <3>1, <3>2, Zenon DEF StackInv
  <2>6. /\ \A u \in Task : u # cur[w] => stack'[u] = stack[u]
        /\ stack'[cur[w]] = stack[cur[w]] \/ stack'[cur[w]] = "freed"
    BY <1>1, <2>1, <2>2, <2>5, Zenon DEF FreeStack
  <2> QED
    BY <2>1, <2>4, <2>6, Zenon DEF StackKeeps
<1> QED
  BY <1>3, <1>4, <1>6, <1>7, <1>8, <1>9, Zenon

\* A thread completes only a dispersed task and its own, and a client emplaces a
\* task once.
LEMMA StackOther ==
  ASSUME IndInv, RemInv,
         \/ \E q \in ThreadTask : ThreadNext(q)
         \/ \E t \in RootTask : ClientNext(t)
         \/ Join \/ UNCHANGED vars
  PROVE  \A u \in Task : StackKeeps(u)
<1>1. /\ flags \in [Task -> SUBSET Flag] /\ FreshInv
      /\ entry \in [Task -> {"none", "in", "complete", "popped"}]
  BY HasTask, Zenon DEF TypeOK
<1>2. ASSUME NEW q \in ThreadTask, ThreadNext(q)
      PROVE  \A u \in Task : StackKeeps(u)
  <2>1. UNCHANGED <<entry, phase, stack>>
    BY <1>2, Zenon DEF ThreadNext, ThreadRpc, ThreadRead, ThreadWrite, ThreadSelf, ThreadStep
  <2>2. /\ q \in Task /\ Desc[q].orig \in Task /\ Desc[Desc[q].orig].remote
        /\ Desc[q].kind = "thread"
    BY ThreadFacts, Zenon DEF ThreadTask
  <2>3. ~HasSub(Desc[q].orig) /\ ~HasSub(q)
    BY <2>2, TaskFacts, Zenon
  <2>4. \/ flags' = flags
        \/ /\ flags'[Desc[q].orig] = flags[Desc[q].orig] \cup {"module_complete"}
           /\ \A u \in Task : u # Desc[q].orig => flags'[u] = flags[u]
        \/ /\ flags'[q] = flags[q] \cup {"module_complete"}
           /\ \A u \in Task : u # q => flags'[u] = flags[u]
    <3>1. CASE ThreadWrite(q)
      <4>1. seen[q] = flags[Desc[q].orig]
        BY <3>1, Zenon DEF ThreadWrite, ThreadStep, RemInv, Current
      <4>2. flags' = [flags EXCEPT ![Desc[q].orig] = seen[q] \cup {"module_complete"}]
        BY <3>1, Zenon DEF ThreadWrite
      <4> QED
        BY <1>1, <2>2, <4>1, <4>2, Zenon
    <3>2. CASE ThreadSelf(q)
      BY <1>1, <2>2, <3>2, Zenon DEF ThreadSelf, SetFlags
    <3> QED
      BY <1>2, <3>1, <3>2, Zenon DEF ThreadNext, ThreadRpc, ThreadRead
  <2>5. \A u \in Task : /\ "coroutine" \in flags'[u] => "coroutine" \in flags[u]
                        /\ HasSub(u) => flags'[u] = flags[u]
    BY <2>2, <2>3, <2>4, SMTT(30)
  <2> QED
    BY <2>1, <2>5, Zenon DEF StackKeeps
<1>3. ASSUME NEW t \in RootTask, ClientNext(t)
      PROVE  \A u \in Task : StackKeeps(u)
  <2>1. UNCHANGED <<flags, phase, stack>>
    BY <1>3, Zenon DEF ClientNext, ClientNew, ClientEmplace, ClientReap
  <2>2. \A u \in Task : entry'[u] = "in" => entry[u] \in {"in", "none"}
    <3>1. CASE ClientEmplace(t)
      <4>1. entry[t] = "none" /\ t \in Task /\ entry' = [entry EXCEPT ![t] = "in"]
        BY <1>1, <3>1, Zenon DEF ClientEmplace, Emplace, FreshInv, RootTask
      <4> QED
        BY <1>1, <4>1, Zenon
    <3> QED
      BY <1>3, <3>1, Zenon DEF ClientNext, ClientNew, ClientReap
  <2> QED
    BY <2>1, <2>2, Zenon DEF StackKeeps
<1>4. ASSUME Join \/ UNCHANGED vars
      PROVE  \A u \in Task : StackKeeps(u)
  <2>1. UNCHANGED <<entry, flags, phase, stack>>
    BY <1>4, Zenon DEF Join, vars, taskVars
  <2> QED
    BY <2>1, Zenon DEF StackKeeps
<1> QED
  BY <1>2, <1>3, <1>4, Zenon

\* Every step keeps StackInv, and it holds at first.
LEMMA NextStack ==
  ASSUME IndInv, MemInv, RemInv, StackInv, [Next]_vars
  PROVE  StackInv'
<1>1. ASSUME NEW w \in WorkerId, WorkerNext(w)
      PROVE  \A u \in Task : StackKeeps(u)
  BY <1>1, StackAt, StackWorker, Zenon DEF WorkerNext
<1>2. \A u \in Task : StackKeeps(u)
  BY <1>1, StackOther, Zenon DEF Next
<1> QED
  BY <1>2, StackStep, Zenon

\* At first no task has a stack and only creations are coroutines.
LEMMA InitStack ==
  ASSUME Init
  PROVE  StackInv
<1>1. \A t \in Task : /\ entry[t] = "none" /\ stack[t] = "none" /\ flags[t] = InitFlags(t)
  BY Zenon DEF Init
<1>2. \A t \in Task : "coroutine" \in flags[t] => Desc[t].kind = "create"
  BY <1>1, SMTT(30) DEF InitFlags
<1> QED
  BY <1>1, <1>2, Zenon DEF StackInv, StackFreedOnce

=============================================================================
