----------------------------- MODULE RemoteCall -----------------------------
(***************************************************************************)
(* What dispersing a task promises its owner: the nodes of its domain that *)
(* have the task state run it one after the other, in order and once each, *)
(* and it is complete only when they all have. Only a task with outputs    *)
(* that is complete is known to have run on every node of the domain.      *)
(***************************************************************************)
EXTENDS Naturals, Sequences, Functions

CONSTANTS
  Call,   \* dispersed tasks
  To,     \* call -> the nodes of its domain, in order
  Has,    \* call -> the nodes that have its task state
  Whole   \* calls with outputs

VARIABLES
  ran,    \* call -> the nodes that have run it
  ended   \* calls whose task is complete

Init == /\ ran = [c \in Call |-> << >>]
        /\ ended = {}

Ran(c) == Range(ran[c])

RunNext(c) ==
  /\ c \notin ended
  /\ \E k \in DOMAIN To[c] :
       /\ To[c][k] \in Has[c] \ Ran(c)
       /\ \A i \in 1..k-1 : To[c][i] \in Has[c] => To[c][i] \in Ran(c)
       /\ ran' = [ran EXCEPT ![c] = Append(@, To[c][k])]
  /\ UNCHANGED ended

Finish(c) ==
  /\ c \notin ended
  /\ Range(To[c]) \cap Has[c] \subseteq Ran(c)
  /\ c \in Whole => Range(To[c]) \subseteq Has[c]
  /\ ended' = ended \cup {c}
  /\ UNCHANGED ran

Next == \E c \in Call : RunNext(c) \/ Finish(c)

Spec == Init /\ [][Next]_<<ran, ended>>
=============================================================================
