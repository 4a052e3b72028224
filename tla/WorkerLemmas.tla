---------------------------- MODULE WorkerLemmas ----------------------------
(***************************************************************************)
(* Facts about Worker that the proofs of its steps rest on: what a step    *)
(* does to groups and lanes, and which steps leave a task in its place.    *)
(***************************************************************************)
EXTENDS Worker, TLAPS

-----------------------------------------------------------------------------
(* Constants.                                                              *)

\* The attributes of a task have their types.
LEMMA DescType ==
  ASSUME NEW t \in Task
  PROVE  /\ Desc[t].kind \in Kind
         /\ Desc[t].lane \in Lane
         /\ Desc[t].root \in Nat \ {0}
         /\ Desc[t].remote \in BOOLEAN /\ Desc[t].faf \in BOOLEAN
         /\ HasSub(t) => Desc[t].sub \in Task
         /\ Desc[t].kind = "thread" => Desc[t].orig \in Task
BY TaskAssumption, Zenon DEF TaskDesc, HasSub

\* A subtask is the subtask of one task, is not created by a client and is not a
\* PushTask of the remote queue.
LEMMA SubFacts ==
  ASSUME NEW t \in Task, HasSub(t)
  PROVE  /\ Desc[t].sub \in Task /\ Desc[t].sub \notin RootTask
         /\ Desc[t].sub \notin ThreadTask
         /\ \A u \in Task : Desc[u].sub = Desc[t].sub => u = t
BY TaskAssumption, DescType DEF HasSub, RootTask, Subtasks, ThreadTask

\* A lane of a work queue belongs to one worker.
LEMMA Owner ==
  ASSUME NEW v \in WorkerId, NEW w \in WorkerId, ent[v] \in DOMAIN WorkQueue[v],
         Polls(w, CurLane(v))
  PROVE  v = w
BY LaneAssumption, Zenon DEF Polls, CurLane

\* The lane a worker polls is a lane of the node, which it owns.
LEMMA CurLaneType ==
  ASSUME NEW w \in WorkerId, TypeOK
  PROVE  CurLane(w) \in Lane /\ Polls(w, CurLane(w)) /\ GroupKey(w) \in Key
<1>1. WorkQueue[w] \in Seq(Lane) /\ ent[w] \in DOMAIN WorkQueue[w]
  BY LaneAssumption DEF TypeOK
<1>2. CurLane(w) \in Lane
  BY <1>1 DEF CurLane
<1> QED
  BY <1>1, <1>2 DEF Polls, CurLane, GroupKey, Key

-----------------------------------------------------------------------------
(* Groups: what a step may do to the holders of a group.                   *)

\* Task t joins the group under the current key of worker w.
Joins(w, t) ==
  /\ AtTask(w, t) /\ Desc[t].lane = CurLane(w)
  /\ ~Ungrouped(t) /\ CheckTaskGroup(w, t) /\ group' = JoinedGroup(w, t)
  /\ ~Holding(t) /\ Holding(t)' /\ \A u \in Task \ {t} : Holding(u)' <=> Holding(u)

\* Task t, a holder, leaves the group under the current key of worker w.
Leaves(w, t) ==
  /\ Desc[t].lane = CurLane(w) /\ group' = RemoveTaskGroup(w, t)
  /\ Holding(t) /\ ~Holding(t)' /\ \A u \in Task \ {t} : Holding(u)' <=> Holding(u)

\* Nothing joins or leaves, or one task does.
GroupMove ==
  \/ group' = group /\ \A t \in Task : Holding(t)' <=> Holding(t)
  \/ \E w \in WorkerId, t \in Task : Joins(w, t) \/ Leaves(w, t)

\* What the proof of each step shows: IndInv holds after it, GroupExclusion
\* because of the way the holders moved.
Keeps == TypeOK' /\ LaneInv' /\ FreshInv' /\ ScanInv' /\ StartInv' /\ GroupMove

\* group_map_ keeps its type when a task joins or leaves.
LEMMA GroupType ==
  ASSUME TypeOK, NEW w \in WorkerId, NEW t \in Task,
         group' = JoinedGroup(w, t) \/ group' = RemoveTaskGroup(w, t)
  PROVE  group' \in [WorkerId -> [Key -> [root : Nat, depth : Nat]]]
<1> DEFINE g == GroupKey(w)
           d == IF group[w][g].depth = 0 THEN MaxU32 ELSE group[w][g].depth - 1
           n == IF d = 0 THEN Absent ELSE [root |-> group[w][g].root, depth |-> d]
           m == [root |-> Desc[t].root, depth |-> group[w][g].depth + 1]
<1>1. group \in [WorkerId -> [Key -> [root : Nat, depth : Nat]]] /\ g \in Key
  BY CurLaneType, Zenon DEF TypeOK
<1>2. d \in Nat
  BY <1>1, BoundAssumption
<1>3. n \in [root : Nat, depth : Nat] /\ m \in [root : Nat, depth : Nat]
  BY <1>1, <1>2, DescType DEF Absent, NoRoot
<1>4. \/ group' = group
      \/ group' = [group EXCEPT ![w][g] = n]
      \/ group' = [group EXCEPT ![w][g] = m]
  BY Zenon DEF JoinedGroup, RemoveTaskGroup
<1> HIDE DEF n, m, g
<1> DEFINE R == [root : Nat, depth : Nat]
<1> HIDE DEF R
<1>5. group \in [WorkerId -> [Key -> R]] /\ g \in Key /\ n \in R /\ m \in R
  BY <1>1, <1>3 DEF R
<1>6. ASSUME NEW x \in R PROVE [group EXCEPT ![w][g] = x] \in [WorkerId -> [Key -> R]]
  <2>1. [group[w] EXCEPT ![g] = x] \in [Key -> R]
    BY <1>5
  <2> QED
    BY <1>5, <2>1
<1>7. group' \in [WorkerId -> [Key -> R]]
  BY <1>4, <1>5, <1>6
<1> QED
  BY <1>7 DEF R

-----------------------------------------------------------------------------
(* Lanes: what emplacing and popping do.                                   *)

\* The published slots of lane l and their entries are as before.
Kept(l) == /\ Len(lane[l]) <= Len(lane'[l])
           /\ \A i \in DOMAIN lane[l] : /\ lane'[l][i] = lane[l][i]
                                        /\ entry'[lane[l][i]] = entry[lane[l][i]]

\* Emplacing a task that has never been in a lane leaves every slot as it was.
LEMMA EmplaceLane ==
  ASSUME TypeOK, LaneInv, NEW t \in Task, entry[t] = "none", Emplace(t)
  PROVE  /\ lane' \in [Lane -> Seq(Task)]
         /\ entry' = [entry EXCEPT ![t] = "in"]
         /\ LaneInv'
         /\ \A l \in Lane : Kept(l)
<1> DEFINE m == Desc[t].lane
<1>1. m \in Lane
  BY DescType
<1>2. /\ lane' = [lane EXCEPT ![m] = Append(@, t)]
      /\ entry' = [entry EXCEPT ![t] = "in"]
  BY DEF Emplace
<1>3. lane \in [Lane -> Seq(Task)] /\ entry \in [Task -> {"none", "in", "complete", "popped"}]
  BY DEF TypeOK
<1>4. lane' \in [Lane -> Seq(Task)]
  BY <1>1, <1>2, <1>3
<1>5. \A l \in Lane : \A i \in DOMAIN lane[l] : lane[l][i] \in Task /\ lane[l][i] # t
  BY <1>3 DEF LaneInv
<1>6. /\ Len(lane'[m]) = Len(lane[m]) + 1 /\ lane'[m][Len(lane[m]) + 1] = t
      /\ \A i \in 1..Len(lane[m]) : lane'[m][i] = lane[m][i]
      /\ DOMAIN lane'[m] = 1..(Len(lane[m]) + 1)
  BY <1>1, <1>2, <1>3
<1>7. \A l \in Lane : l # m => lane'[l] = lane[l]
  BY <1>2, <1>3
<1>8. \A l \in Lane : Len(lane[l]) \in Nat /\ DOMAIN lane[l] = 1..Len(lane[l])
  BY <1>3, SMTT(30)
<1>9. \A l \in Lane : Kept(l)
  BY <1>2, <1>3, <1>5, <1>6, <1>7, <1>8, SMTT(30) DEF Kept
<1>10. LaneInv'
  <2> SUFFICES ASSUME NEW l \in Lane, NEW i \in DOMAIN lane'[l]
               PROVE  /\ Desc[lane'[l][i]].lane = l
                      /\ entry'[lane'[l][i]] \in {"in", "complete"}
                      /\ \A j \in DOMAIN lane'[l] : lane'[l][i] = lane'[l][j] => i = j
    BY DEF LaneInv
  <2>1. entry'[t] = "in" /\ \A u \in Task : u # t => entry'[u] = entry[u]
    BY <1>2, <1>3
  <2>2. \A j \in DOMAIN lane'[m] :
          \/ j = Len(lane[m]) + 1 /\ lane'[m][j] = t
          \/ j \in DOMAIN lane[m] /\ lane'[m][j] = lane[m][j]
    <3>1. \A j \in 1..(Len(lane[m]) + 1) : j = Len(lane[m]) + 1 \/ j \in 1..Len(lane[m])
      BY <1>1, <1>8
    <3> QED
      BY <1>1, <1>6, <1>8, <3>1, Zenon
  <2>3. CASE l # m
    BY <1>5, <1>7, <2>1, <2>3, SMTT(30) DEF LaneInv
  <2>4. CASE l = m /\ i \in 1..Len(lane[m])
    <3>1. /\ i \in DOMAIN lane[m] /\ lane'[m][i] = lane[m][i]
          /\ lane[m][i] \in Task /\ lane[m][i] # t
      BY <1>1, <1>5, <1>6, <1>8, <2>4, Zenon
    <3>2. \A k \in DOMAIN lane[m] :
            /\ Desc[lane[m][k]].lane = m /\ entry[lane[m][k]] \in {"in", "complete"}
            /\ \A j \in DOMAIN lane[m] : lane[m][k] = lane[m][j] => k = j
      BY <1>1, Zenon DEF LaneInv
    <3> QED
      BY <2>1, <2>2, <2>4, <3>1, <3>2, SMTT(30)
  <2>5. CASE l = m /\ i = Len(lane[m]) + 1
    <3>1. lane'[m][i] = t /\ \A j \in DOMAIN lane[m] : lane[m][j] # t
      BY <1>1, <1>5, <1>6, <2>5, Zenon
    <3> QED
      BY <1>1, <2>1, <2>2, <2>5, <3>1, SMTT(30)
  <2> QED
    BY <1>1, <1>6, <1>8, <2>3, <2>4, <2>5, SMTT(30)
<1> QED
  BY <1>2, <1>4, <1>9, <1>10, Zenon

\* Popping, or passing over, the entry a worker looks at leaves the other lanes
\* as they were.
LEMMA PopLane ==
  ASSUME TypeOK, LaneInv, NEW w \in WorkerId, NEW t \in Task,
         off[w] < Len(lane[CurLane(w)]), t = Peeked(w), PopTask(w, t)
  PROVE  /\ lane' \in [Lane -> Seq(Task)]
         /\ entry' = [entry EXCEPT ![t] = entry'[t]] /\ entry'[t] \in {"complete", "popped"}
         /\ off' \in [WorkerId -> Nat] /\ \A v \in WorkerId \ {w} : off'[v] = off[v]
         /\ LaneInv'
         /\ \A l \in Lane \ {CurLane(w)} : Kept(l)
<1> DEFINE m == CurLane(w)
<1>1. m \in Lane
  BY CurLaneType, SMTT(30)
<1>2. /\ lane \in [Lane -> Seq(Task)] /\ off \in [WorkerId -> Nat]
      /\ entry \in [Task -> {"none", "in", "complete", "popped"}]
  BY Zenon DEF TypeOK
<1>3. \A l \in Lane : Len(lane[l]) \in Nat /\ DOMAIN lane[l] = 1..Len(lane[l])
  BY <1>2
<1>4. t = lane[m][off[w] + 1] /\ off[w] + 1 \in DOMAIN lane[m]
  BY <1>1, <1>2, <1>3 DEF Peeked
<1>5. Desc[t].lane = m
  BY <1>1, <1>4 DEF LaneInv
<1>6. \A l \in Lane : \A i \in DOMAIN lane[l] :
        lane[l][i] \in Task /\ (lane[l][i] = t => l = m /\ i = off[w] + 1)
  BY <1>1, <1>2, <1>4, <1>5 DEF LaneInv
<1>7. CASE off[w] = 0
  <2>1. /\ lane' = [lane EXCEPT ![m] = Tail(@)]
        /\ entry' = [entry EXCEPT ![t] = "popped"]
        /\ off' = off
    BY <1>7 DEF PopTask
  <2>2. lane[m] # << >>
    BY <1>1, <1>3, <1>4
  <2>3. /\ Tail(lane[m]) \in Seq(Task) /\ Len(Tail(lane[m])) = Len(lane[m]) - 1
        /\ \A i \in 1..Len(lane[m]) - 1 : Tail(lane[m])[i] = lane[m][i + 1]
    BY <1>1, <1>2, <2>2
  <2>4. lane' \in [Lane -> Seq(Task)] /\ \A l \in Lane : l # m => lane'[l] = lane[l]
    BY <1>1, <1>2, <2>1, <2>3
  <2>5. \A l \in Lane \ {m} : Kept(l)
    BY <1>2, <1>3, <1>6, <2>1, <2>4, SMTT(30) DEF Kept
  <2>6. LaneInv'
    <3> SUFFICES ASSUME NEW l \in Lane, NEW i \in DOMAIN lane'[l]
                 PROVE  /\ Desc[lane'[l][i]].lane = l
                        /\ entry'[lane'[l][i]] \in {"in", "complete"}
                        /\ \A j \in DOMAIN lane'[l] : lane'[l][i] = lane'[l][j] => i = j
      BY Zenon DEF LaneInv
    <3>1. CASE l # m
      BY <1>2, <1>6, <2>1, <2>4, <3>1, SMTT(30) DEF LaneInv
    <3>2. CASE l = m
      <4>1. lane'[m] = Tail(lane[m]) /\ DOMAIN lane'[m] = 1..Len(lane[m]) - 1
        BY <1>1, <1>2, <2>1, <2>3, SMTT(30)
      <4>2. \A j \in DOMAIN lane'[m] : j + 1 \in DOMAIN lane[m] /\ j + 1 # 1
        BY <1>1, <1>3, <4>1
      <4>3. lane[m][i + 1] # t /\ lane[m][i + 1] \in Task
        BY <1>6, <1>7, <1>1, <3>2, <4>2, SMTT(30)
      <4>4. \A j \in DOMAIN lane'[m] : lane'[m][j] = lane[m][j + 1]
        BY <2>3, <4>1
      <4>5. \A j \in DOMAIN lane'[m] : lane[m][i + 1] = lane[m][j + 1] => i + 1 = j + 1
        BY <1>1, <3>2, <4>2 DEF LaneInv
      <4>6. i \in Int /\ \A j \in DOMAIN lane'[m] : j \in Int
        BY <1>1, <1>3, <3>2, <4>1
      <4>7. entry'[lane[m][i + 1]] = entry[lane[m][i + 1]]
        BY <1>2, <2>1, <4>3
      <4> QED
        BY <1>1, <3>2, <4>2, <4>4, <4>5, <4>6, <4>7, SMTT(30) DEF LaneInv
    <3> QED
      BY <3>1, <3>2, Zenon
  <2> QED
    BY <1>2, <2>1, <2>4, <2>5, <2>6
<1>8. CASE off[w] # 0
  <2>1. /\ lane' = lane
        /\ entry' = [entry EXCEPT ![t] = "complete"]
        /\ off' = [off EXCEPT ![w] = @ + 1]
    BY <1>8 DEF PopTask
  <2>2. \A l \in Lane \ {m} : Kept(l)
    BY <1>2, <1>3, <1>6, <2>1, SMTT(30) DEF Kept
  <2>3. LaneInv'
    BY <1>2, <1>6, <2>1, SMTT(30) DEF LaneInv
  <2> QED
    BY <1>2, <2>1, <2>2, <2>3
<1> QED
  BY <1>7, <1>8

-----------------------------------------------------------------------------
(* Steps: what is common to many actions.                                  *)

\* An ordered task of this node keeps its place, its phase and its start.
Steady(u) == /\ "started" \in flags'[u] <=> "started" \in flags[u]
             /\ "module_complete" \in flags'[u]
                  => "module_complete" \in flags[u] \/ "started" \in flags[u]
             /\ phase'[u] = phase[u]
             /\ \/ entry'[u] = entry[u]
                \/ entry[u] = "none" /\ entry'[u] = "in"
                \/ entry[u] = "complete" /\ entry'[u] \in {"complete", "popped"}

\* A steady task keeps StartAt and holds its group exactly if it did.
LEMMA SteadyKeeps ==
  ASSUME NEW u \in Task, StartAt(u), Ordered(u) /\ ~Desc[u].remote => Steady(u)
  PROVE  StartAt(u)' /\ (Holding(u)' <=> Holding(u))
BY Zenon DEF StartAt, Steady, Holding, Ordered

\* A step in which every ordered task is steady and group_map_ does not change.
LEMMA SteadyStep ==
  ASSUME IndInv, group' = group,
         \A u \in Task : Ordered(u) /\ ~Desc[u].remote => Steady(u)
  PROVE  StartInv' /\ GroupMove
<1>1. \A u \in Task : StartAt(u)' /\ (Holding(u)' <=> Holding(u))
  BY SteadyKeeps DEF IndInv, StartInv
<1> QED
  BY <1>1 DEF StartInv, GroupMove

\* A worker that does not move keeps its place in the scan.
LEMMA ScanOther ==
  ASSUME IndInv, NEW v \in WorkerId, Kept(CurLane(v)),
         pc'[v] = pc[v], ent'[v] = ent[v], off'[v] = off[v], iter'[v] = iter[v],
         cur'[v] = cur[v],
         \A u \in Task : Ordered(u) /\ ~Desc[u].remote =>
            ("started" \in flags[u] => "started" \in flags'[u])
  PROVE  ScanAt(v)'
<1>1. ScanAt(v) /\ TypeOK
  BY Zenon DEF IndInv, ScanInv
<1>2. CurLane(v)' = CurLane(v) /\ CurLane(v) \in Lane
  BY <1>1, CurLaneType, SMTT(30) DEF CurLane
<1>3. lane[CurLane(v)] \in Seq(Task) /\ off[v] \in Nat
  BY <1>1, <1>2, Zenon DEF TypeOK
<1>4. off[v] < Len(lane[CurLane(v)]) =>
        /\ off'[v] < Len(lane'[CurLane(v)])
        /\ lane'[CurLane(v)][off[v] + 1] = Peeked(v)
        /\ entry'[Peeked(v)] = entry[Peeked(v)]
  <2>1. off[v] < Len(lane[CurLane(v)]) => off[v] + 1 \in DOMAIN lane[CurLane(v)]
    BY <1>3
  <2>2. Len(lane'[CurLane(v)]) >= Len(lane[CurLane(v)])
    BY Zenon DEF Kept
  <2> QED
    BY <1>3, <2>1, <2>2 DEF Kept, Peeked
<1>5. Peeked(v)' = lane'[CurLane(v)][off[v] + 1]
  BY <1>2, SMTT(30) DEF Peeked
<1>6. pc[v] \in Pc
  BY <1>1, Zenon DEF TypeOK
<1> QED
  BY <1>1, <1>2, <1>4, <1>5, <1>6, Zenon DEF ScanAt, Ordered, Pc

\* A step that leaves every lane and entry alone keeps the slots.
LEMMA SameLanes ==
  ASSUME TypeOK, LaneInv, UNCHANGED <<lane, entry>>
  PROVE  LaneInv' /\ \A l \in Lane : Kept(l)
<1>1. \A l \in Lane : Len(lane[l]) \in Nat
  BY DEF TypeOK
<1> QED
  BY <1>1, SMTT(30) DEF LaneInv, Kept
=============================================================================
