------------------------------ MODULE Registry ------------------------------
(***************************************************************************)
(* The task registries and queue maps of all nodes, and the admin tasks    *)
(* that change them. A client call is one admin task; a call for the       *)
(* global domain is carried out on one node after the other (remote_queue  *)
(* Push), each replica starting from the id_ the client sent and each      *)
(* reply overwriting the client's id_. Worker 0 of a node runs the admin   *)
(* tasks one at a time; CreateTaskState is a coroutine that gives way      *)
(* while it asks node 1 for an id, and two creations on a node do not      *)
(* overlap (one task group: theorem GroupsExclude of WorkerProofs).        *)
(* An id is <<node_id_, unique_>>.                                         *)
(***************************************************************************)
EXTENDS Integers, Sequences, FiniteSets

CONSTANTS
  NumNodes,   \* number of hosts
  Name,       \* semantic names of task states
  Lib,        \* task libraries
  LibDir,     \* <<node, lib>>: libraries found in lib_dirs_ of the node
  TaskLibs,   \* task_libs_ of the server configuration, loaded at boot
  MaxQueues,  \* max_queues of the server configuration
  MaxUnique,  \* bound on unique_ for root tasks other than the calls
  Call,       \* the client calls of a behaviour
  Desc,       \* what each call asks for, a CallDesc
  Null        \* TaskStateId::GetNull(), and no call

Node == 1..NumNodes
Id == Node \X Nat

\* op:   the admin method;  node: of the client;  to: the node of its domain,
\*       0 for the global one;  name, lib: of the state to create or look up
\* own:  the client passes an id of its own, from MakeTaskStateId
\* of:   the creation whose result a destruction refers to
CallDesc == [op : {"create", "destroy", "getid", "register", "unregister"}, node : Node,
             to : 0..NumNodes, name : Name, lib : Lib, own : BOOLEAN,
             of : Call \cup {Null}]

ASSUME RegistryAssumption ==
  /\ NumNodes \in Nat \ {0}
  /\ LibDir \subseteq Node \X Lib /\ TaskLibs \subseteq Lib
  /\ MaxQueues \in Nat /\ MaxUnique \in Nat
  /\ Null \notin Id /\ Null \notin Call
  /\ Desc \in [Call -> CallDesc]
  /\ \A c \in Call : /\ Desc[c].op = "destroy" <=> Desc[c].of # Null
                     /\ Desc[c].own => Desc[c].op = "create"

VARIABLES
  unique,   \* node -> unique_ of the shared-memory header
  ids,      \* node -> task_state_ids_: name -> id, Null if absent
  states,   \* node -> task_states_: set of <<id, name_>>
  queues,   \* node -> ids of the queues in queue_map_, whose slots are unique_
  libs,     \* node -> names in libs_
  pc,       \* call -> "idle", "at", "ask", "resume", "done"
  hop,      \* call -> index of the node it is at
  arg,      \* call -> id_ as the client set it
  got,      \* call -> the id that node 1 gave
  res       \* call -> id_ of the client's task

vars == <<unique, ids, states, queues, libs, pc, hop, arg, got, res>>
tables == <<ids, states, queues, libs>>

\* After Runtime::ServerInit: eight ids have been taken; slots 0, 1 and 6 hold the
\* admin queue, the process queue and the queue of remote_queue; the libraries of
\* task_libs_ are loaded. States created at boot are not represented.
BootUnique == 8

Init ==
  /\ unique = [n \in Node |-> BootUnique]
  /\ ids = [n \in Node |-> [a \in Name |-> Null]]
  /\ states = [n \in Node |-> {}]
  /\ queues = [n \in Node |-> {<<1, 0>>, <<1, 1>>, <<n, 6>>}]
  /\ libs = [n \in Node |-> {l \in TaskLibs : <<n, l>> \in LibDir}]
  /\ pc = [c \in Call |-> "idle"]
  /\ hop = [c \in Call |-> 1]
  /\ arg = [c \in Call |-> Null]
  /\ got = [c \in Call |-> Null]
  /\ res = [c \in Call |-> Null]

-----------------------------------------------------------------------------
\* ResolveDomainId; a task for its own node is not dispersed.
Nodes(c) == IF Desc[c].to = 0 THEN [n \in Node |-> n] ELSE <<Desc[c].to>>

At(c) == Nodes(c)[hop[c]]

\* Faulty: one replica too many.
LastHopPast(c) == hop[c] > Len(Nodes(c))

LastHop(c) == hop[c] = Len(Nodes(c))

\* Faulty: load instead of fetch_add.
TakenNone(k) == 0

\* How far fetch_add moves unique_ for k ids.
Taken(k) == k

\* A client makes its task: MakeTaskStateId if it chooses the id, MakeTaskNodeId.
Start(c) ==
  LET n == Desc[c].node IN
  /\ pc[c] = "idle"
  /\ Desc[c].of # Null => pc[Desc[c].of] = "done"
  /\ pc' = [pc EXCEPT ![c] = "at"]
  /\ unique' = [unique EXCEPT ![n] = @ + Taken(IF Desc[c].own THEN 2 ELSE 1)]
  /\ arg' = [arg EXCEPT ![c] = IF Desc[c].own THEN <<n, unique[n]>>
                               ELSE IF Desc[c].of # Null THEN res[Desc[c].of] ELSE Null]
  /\ res' = [res EXCEPT ![c] = arg'[c]]
  /\ UNCHANGED <<tables, hop, got>>

\* Any other root task takes a task node id.
RootTask(n) ==
  /\ unique[n] < MaxUnique
  /\ unique' = [unique EXCEPT ![n] = @ + 1]
  /\ UNCHANGED <<tables, pc, hop, arg, got, res>>

\* The task ends on this node with id_ = id; the reply updates the client's task
\* and the next replica is sent.
Reply(c, id) ==
  /\ res' = [res EXCEPT ![c] = id]
  /\ IF LastHop(c)
     THEN pc' = [pc EXCEPT ![c] = "done"] /\ UNCHANGED hop
     ELSE pc' = [pc EXCEPT ![c] = "at"] /\ hop' = [hop EXCEPT ![c] = @ + 1]

-----------------------------------------------------------------------------
TaskStateExists(n, id) == \E s \in states[n] : s[1] = id

\* Faulty: the names are not consulted.
KnownById(n, c) == arg[c]

\* The id under which GetTaskState(name, id) looks for the state.
Known(n, c) == IF ids[n][Desc[c].name] = Null THEN arg[c] ELSE ids[n][Desc[c].name]

\* Faulty: the group of a creation is never left.
CreateTurnKept(n, c) ==
  \A d \in Call \ {c} : Desc[d].op = "create" =>
    \A i \in DOMAIN Nodes(d) : Nodes(d)[i] = n =>
      pc[d] = "idle" \/ (hop[d] <= i /\ pc[d] = "at")

\* CreateTaskState tasks are of one group: no other one is under way on the node.
CreateTurn(n, c) ==
  \A d \in Call \ {c} : ~(Desc[d].op = "create" /\ pc[d] \in {"ask", "resume"} /\ At(d) = n)

\* Faulty: the queue is made for the node, not for the state.
NewQueueLocal(n, id) == {<<n, id[2]>>}

\* CreateQueue: the queue goes to slot unique_ of queue_map_ unless that is taken.
\* A slot past the end is written outside of the map.
NewQueue(n, id) ==
  IF id[2] >= MaxQueues \/ \E q \in queues[n] : q[2] = id[2] THEN {} ELSE {id}

\* The rest of CreateTaskState once the id is known: the queue, then the state if
\* its library is there. task_state_ids_.emplace keeps an entry that exists.
CreateAt(n, c, id) ==
  IF TaskStateExists(n, id)
  THEN UNCHANGED tables
  ELSE /\ queues' = [queues EXCEPT ![n] = @ \cup NewQueue(n, id)]
       /\ IF Desc[c].lib \in libs[n]
          THEN /\ ids' = [ids EXCEPT ![n][Desc[c].name] = IF @ = Null THEN id ELSE @]
               /\ states' = [states EXCEPT ![n] = @ \cup {<<id, Desc[c].name>>}]
          ELSE UNCHANGED <<ids, states>>
       /\ UNCHANGED libs

\* Faulty: id_ is not set from the state that was found.
FoundIdKept(n, c) == arg[c]

\* task->id_ = task_state->id_
FoundId(n, c) == Known(n, c)

\* CreateTaskState up to where it gives way.
CreateTaskState(c) ==
  LET n == At(c) IN
  /\ pc[c] = "at" /\ Desc[c].op = "create"
  /\ CreateTurn(n, c)
  /\ \/ /\ TaskStateExists(n, Known(n, c))
        /\ Reply(c, FoundId(n, c))
        /\ UNCHANGED tables
     \/ /\ ~TaskStateExists(n, Known(n, c)) /\ arg[c] # Null
        /\ CreateAt(n, c, arg[c])
        /\ Reply(c, arg[c])
     \/ /\ ~TaskStateExists(n, Known(n, c)) /\ arg[c] = Null
        /\ pc' = [pc EXCEPT ![c] = "ask"]
        /\ UNCHANGED <<tables, hop, res>>
  /\ UNCHANGED <<unique, arg, got>>

\* Faulty: each node gives its own ids.
IdNodeSelf(n) == n

\* The node that gives ids to the creations on node n: DomainId::GetNode(1).
IdNode(n) == 1

\* GetOrCreateTaskStateId, whose group is TASK_UNORDERED.
GetOrCreateTaskStateId(c) ==
  LET m == IdNode(At(c))
      a == Desc[c].name
      new == <<m, unique[m]>>
  IN  /\ pc[c] = "ask"
      /\ pc' = [pc EXCEPT ![c] = "resume"]
      /\ IF ids[m][a] = Null
         THEN /\ got' = [got EXCEPT ![c] = new]
              /\ ids' = [ids EXCEPT ![m][a] = new]
              /\ unique' = [unique EXCEPT ![m] = @ + Taken(1)]
         ELSE /\ got' = [got EXCEPT ![c] = ids[m][a]]
              /\ UNCHANGED <<ids, unique>>
      /\ UNCHANGED <<states, queues, libs, hop, arg, res>>

\* CreateTaskState after the wait.
CreateResume(c) ==
  /\ pc[c] = "resume"
  /\ CreateAt(At(c), c, got[c])
  /\ Reply(c, got[c])
  /\ UNCHANGED <<unique, arg, got>>

GetTaskStateId(c) ==
  /\ pc[c] = "at" /\ Desc[c].op = "getid"
  /\ Reply(c, ids[At(c)][Desc[c].name])
  /\ UNCHANGED <<unique, tables, arg, got>>

\* The state goes and so does the entry of its name, whatever id that has. The
\* queue stays.
DestroyTaskState(c) ==
  LET n == At(c)
      dead == {s \in states[n] : s[1] = arg[c]}
  IN  /\ pc[c] = "at" /\ Desc[c].op = "destroy"
      /\ states' = [states EXCEPT ![n] = @ \ dead]
      /\ ids' = [ids EXCEPT ![n] = [a \in Name |-> IF \E s \in dead : s[2] = a THEN Null ELSE @[a]]]
      /\ Reply(c, arg[c])
      /\ UNCHANGED <<unique, queues, libs, arg, got>>

\* A library that is not found in lib_dirs_ is not registered.
RegisterTaskLib(c) ==
  /\ pc[c] = "at" /\ Desc[c].op = "register"
  /\ libs' = [libs EXCEPT ![At(c)] = @ \cup {l \in {Desc[c].lib} : <<At(c), l>> \in LibDir}]
  /\ Reply(c, Null)
  /\ UNCHANGED <<unique, ids, states, queues, arg, got>>

DestroyTaskLib(c) ==
  /\ pc[c] = "at" /\ Desc[c].op = "unregister"
  /\ libs' = [libs EXCEPT ![At(c)] = @ \ {Desc[c].lib}]
  /\ Reply(c, Null)
  /\ UNCHANGED <<unique, ids, states, queues, arg, got>>

Step(c) == CreateTaskState(c) \/ GetOrCreateTaskStateId(c) \/ CreateResume(c)
           \/ GetTaskStateId(c) \/ DestroyTaskState(c) \/ RegisterTaskLib(c)
           \/ DestroyTaskLib(c)

Next ==
  \/ \E c \in Call : Start(c) \/ Step(c)
  \/ \E n \in Node : RootTask(n)

Spec == Init /\ [][Next]_vars

\* Worker 0 of each node visits every admin task again and again, and a replica
\* is sent when the one before it has answered.
FairSpec == Spec /\ \A c \in Call : SF_vars(Step(c))

-----------------------------------------------------------------------------
(*                               Properties                                *)

\* Every variable has its type, and a call is at one of the nodes of its domain.
TypeOK ==
  /\ unique \in [Node -> Nat]
  /\ ids \in [Node -> [Name -> Id \cup {Null}]]
  /\ states \in [Node -> SUBSET (Id \X Name)]
  /\ queues \in [Node -> SUBSET Id]
  /\ libs \in [Node -> SUBSET Lib]
  /\ pc \in [Call -> {"idle", "at", "ask", "resume", "done"}]
  /\ hop \in [Call -> Nat] /\ \A c \in Call : hop[c] \in 1..Len(Nodes(c))
  /\ {arg, got, res} \subseteq [Call -> Id \cup {Null}]

\* An id means one state: states that different nodes hold under the same id have
\* the same name, whoever chose the id, whatever is destroyed in between, and
\* although task nodes take numbers from the same counter. A task that is sent
\* by id thus never reaches a state of another name.
IdNamesOne ==
  \A m, n \in Node : \A s \in states[m], t \in states[n] : s[1] = t[1] => s[2] = t[2]

\* task_state_ids_ leads from the name of every state of a node to that state
\* (creations and destructions in any order, ids chosen by node 1): a second
\* creation never makes a second state of the name.
NameFindsState ==
  \A n \in Node : \A s \in states[n] : ids[n][s[2]] = s[1]

\* "The unique semantic name of a task state" (TaskLib): a node holds at most one
\* state of a name.
UniqueName ==
  \A n \in Node : \A s, t \in states[n] : s[2] = t[2] => s = t

\* All nodes hold a name under the same id, so that a task for the global domain
\* finds on every node the state it found on the first one. (Creations that run
\* concurrently on all nodes; no state is destroyed.)
AgreeOnId ==
  \A m, n \in Node : \A s \in states[m], t \in states[n] : s[2] = t[2] => s[1] = t[1]

\* The id that a creation returns is the id of the state on every node of its
\* domain, even where another client's creation came first.
CreatedEverywhere ==
  \A c \in Call : Desc[c].op = "create" /\ pc[c] = "done" =>
    \A i \in DOMAIN Nodes(c) : <<res[c], Desc[c].name>> \in states[Nodes(c)[i]]

\* "A task to register a Task state + Create a queue" (CreateTaskStateTask): a
\* state has the queue of its id, no other state's.
StateOwnsQueue ==
  \A n \in Node : \A s \in states[n] : s[1] \in queues[n]

\* A creation fails to get a queue only when max_queues queues exist: "Maximum
\* number of allocatable IPC queues" (QueueManagerInfo).
QueueIfRoom ==
  \A n \in Node : (\E s \in states[n] : s[1] \notin queues[n])
                  => Cardinality(queues[n]) >= MaxQueues

\* Every call returns: creations that exclude each other on each node and wait
\* for node 1 never wait for each other.
EveryCallEnds == \A c \in Call : pc[c] = "at" ~> pc[c] = "done"
=============================================================================
