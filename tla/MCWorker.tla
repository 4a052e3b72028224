------------------------------ MODULE MCWorker ------------------------------
(***************************************************************************)
(* Small instances of Worker for TLC. Lanes: adm is lane 0 of the admin    *)
(* queue, pq lane 0 of the process queue, mod lane 0 of the queue of a     *)
(* task module, rem lane 0 of the remote queue. All have lane id 0, so the *)
(* lanes of one worker share a key of its group_map_. Where there are two  *)
(* workers w0 has the low-priority lanes, as the round-robin scheduler     *)
(* assigns them.                                                           *)
(***************************************************************************)
EXTENDS Worker, TLC

CONSTANTS adm, pq, mod, rem, w0, w1,
          p1, s1, c1, g1, c2, g2, f1, x1, x2, o1, m1, r1, q1, q2, q3

D(kind, l, root, hash, sub) ==
  [kind |-> kind, lane |-> l, root |-> root, lane_hash |-> hash, sub |-> sub,
   orig |-> NoTask, faf |-> FALSE, remote |-> FALSE]

Faf(d) == [d EXCEPT !.faf = TRUE]
Remote(d) == [d EXCEPT !.remote = TRUE]
Push(t, root) == [D("thread", rem, root, 0, NoTask) EXCEPT !.orig = t]

Ids == [l \in Lane |-> 0]

\* A push whose subtask, fire and forget as its client made it, is run by the
\* other worker; that one also has the admin lane, with two creations of task
\* states (which ask for their ids through the same lane) and a fire-and-forget
\* task.
LocalDesc ==
  p1 :> D("push", pq, 1, 7, s1) @@ s1 :> Faf(D("oneshot", mod, 1, 0, NoTask))
  @@ c1 :> D("create", adm, 3, 16, g1) @@ g1 :> D("oneshot", adm, 3, 0, NoTask)
  @@ c2 :> D("create", adm, 4, 16, g2) @@ g2 :> D("oneshot", adm, 4, 0, NoTask)
  @@ f1 :> Faf(D("oneshot", adm, 5, 0, NoTask))
LocalTasks == DOMAIN LocalDesc
LocalQueue == w0 :> <<adm, mod>> @@ w1 :> <<pq>>

\* One worker for every lane: a push, a creation with its nested request and a
\* task whose state is unknown compete for one key of group_map_, and the
\* runtime may be stopped.
SharedDesc ==
  p1 :> D("push", pq, 1, 7, s1) @@ s1 :> D("oneshot", mod, 1, 0, NoTask)
  @@ c1 :> D("create", adm, 3, 16, g1) @@ g1 :> D("oneshot", adm, 3, 0, NoTask)
  @@ o1 :> D("orphan", adm, 5, 0, NoTask)
SharedTasks == DOMAIN SharedDesc
SharedQueue == w0 :> <<adm, pq, mod>>

\* A remote task, a remote creation and a scheduler task; one worker polls the
\* module's lane, the remote queue's and the admin lane. There is a PushTask left
\* for a second dispersal of r1.
RemoteDesc ==
  r1 :> Remote(D("oneshot", mod, 1, 0, NoTask))
  @@ q1 :> Push(r1, 1) @@ q3 :> Push(r1, 1)
  @@ c1 :> Remote(D("create", mod, 3, 16, NoTask))
  @@ q2 :> Push(c1, 3)
  @@ m1 :> D("resident", adm, 2, 0, NoTask)
RemoteTasks == DOMAIN RemoteDesc
RemoteQueue == w0 :> <<adm, mod, rem>>

\* One remote task, the remote queue polled by another worker. Two PushTasks are
\* enough: after a second dispersal the flag word keeps TASK_MODULE_COMPLETE and
\* the task ends.
RaceDesc ==
  r1 :> Remote(D("oneshot", mod, 1, 0, NoTask))
  @@ q1 :> Push(r1, 1)
  @@ q2 :> Push(r1, 1)
RaceTasks == DOMAIN RaceDesc
RaceQueue == w0 :> <<mod>> @@ w1 :> <<rem>>

\* A scheduler task at the head of the admin lane, then ordinary admin tasks.
PinnedDesc ==
  m1 :> D("resident", adm, 1, 0, NoTask)
  @@ x1 :> D("oneshot", adm, 2, 0, NoTask)
  @@ x2 :> D("oneshot", adm, 3, 0, NoTask)
PinnedTasks == DOMAIN PinnedDesc
AdminQueue == w0 :> <<adm>>
=============================================================================
