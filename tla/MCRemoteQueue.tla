--------------------------- MODULE MCRemoteQueue ----------------------------
(***************************************************************************)
(* Scenarios for TLC, on two or three nodes.                               *)
(***************************************************************************)
EXTENDS RemoteQueue, TLC

CONSTANTS md, io, get, mk, act

Call0(kind, from, domain, has) ==
  [kind |-> kind, from |-> from, domain |-> domain, has |-> has, outputs |-> TRUE,
   replicated |-> FALSE, construct |-> FALSE, flags |-> {}]

\* A metadata task to all nodes, fire and forget; a bulk write to all nodes; a
\* bulk read from one; a creation to all; a task without outputs.
Md(has) == [Call0("small", 1, 0, has) EXCEPT !.replicated = TRUE, !.flags = {"faf", "long_running"}]
Io(has) == Call0("write", 2, 0, has)
Get(has) == Call0("read", 1, 2, has)
Mk == [Call0("small", 1, 0, Node) EXCEPT !.flags = {"coroutine"}, !.construct = TRUE]
Act(has) == [Call0("small", 2, 0, has) EXCEPT !.outputs = FALSE]

MixCall == {md, io, mk}
MixDesc == md :> Md(Node) @@ io :> Io(Node) @@ mk :> Mk

\* Node 2 lacks the task state of md and get, node 1 that of act, which has no
\* outputs.
LackCall == {md, get, act}
LackDesc == md :> Md({1}) @@ get :> Get({1}) @@ act :> Act({2})
=============================================================================
