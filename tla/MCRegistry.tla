---------------------------- MODULE MCRegistry -----------------------------
(* Instances of Registry for TLC: two nodes, one library.                   *)
EXTENDS Registry, TLC

CONSTANTS na, nb, sm, c1, c2, c3, c4, d1, d2, l1, l2

Everywhere == Node \X {sm}

C(op, node, to, name, own, of) ==
  [op |-> op, node |-> node, to |-> to, name |-> name, lib |-> sm, own |-> own, of |-> of]

\* Clients of two nodes create na for all nodes, another one creates nb on node 1
\* under an id of its own, and one looks na up on node 2; no destruction.
CreateCalls == {c1, c2, c3, c4}

CreateDesc ==
  (c1 :> C("create", 1, 0, na, FALSE, Null))
  @@ (c2 :> C("create", 2, 0, na, FALSE, Null))
  @@ (c3 :> C("create", 1, 1, nb, TRUE, Null))
  @@ (c4 :> C("getid", 1, 2, na, FALSE, Null))

\* Creations and destructions of na, for all nodes and for one, while the library
\* is registered on all nodes and unregistered on node 2.
DestroyCalls == {c1, c2, d1, d2, l1, l2}

DestroyDesc ==
  (c1 :> C("create", 1, 0, na, FALSE, Null))
  @@ (c2 :> C("create", 2, 2, na, FALSE, Null))
  @@ (d1 :> C("destroy", 1, 0, na, FALSE, c1))
  @@ (d2 :> C("destroy", 2, 2, na, FALSE, c2))
  @@ (l1 :> C("register", 1, 0, na, FALSE, Null))
  @@ (l2 :> C("unregister", 2, 2, na, FALSE, Null))

\* One state on one node.
SmallCalls == {c1, d1}

SmallDesc ==
  (c1 :> C("create", 1, 1, na, FALSE, Null))
  @@ (d1 :> C("destroy", 1, 1, na, FALSE, c1))
=============================================================================
