---------------------------- MODULE MCScheduler ----------------------------
(* Instances of Scheduler for TLC: the admin queue, the process queue and   *)
(* one queue laid out as the clients of the task libraries create theirs.   *)
EXTENDS Scheduler, TLC

CONSTANTS pa, pb, r1, r2

Groups == [q \in 0..2 |-> IF q = 0 THEN 1 ELSE 3]

AllGroups == {<<0, 0>>} \cup {<<q, p>> : q \in 1..2, p \in 0..2}

\* one lane per group, three in the low-latency group of the queue created last
Lanes == [g \in AllGroups |-> IF g = <<2, 2>> THEN 3 ELSE 1]

\* QUEUE_UNORDERED has the same bit as QUEUE_LONG_RUNNING.
Long == {<<0, 0>>, <<1, 0>>, <<1, 1>>, <<2, 1>>}

\* Two round-robin states; the boot request sets one, a client the other.
OneChange == (r1 :> pa) @@ (r2 :> pb)
=============================================================================
