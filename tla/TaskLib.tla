------------------------------ MODULE TaskLib -------------------------------
(***************************************************************************)
(* The life of one task as its library handles it: built by a client, run  *)
(* in place or serialised, loaded on every node of its domain, run there,  *)
(* and its outputs loaded back into it. A library only sees Task pointers: *)
(* each of its operations switches on a method to find the class, and the  *)
(* callers take that method from three places, the task, its replica       *)
(* (whose handler may have changed it) and the PushTask. What interleaves  *)
(* and what fails is the subject of modules Worker and RemoteQueue.        *)
(***************************************************************************)
EXTENDS Integers, Sequences

CONSTANTS
  NumNodes,    \* nodes of the domain, called in order
  Def,         \* class -> its description: see ClassDef
  Exec,        \* library -> method -> class, the switches of the library
  Type         \* member -> its C++ type

Class == DOMAIN Def
Node == 1..NumNodes

\* A class of tasks. lib, method: what the emplace constructor sets task_state_
\* and method_ to; local: TF_LOCAL, and made for the local domain only; fields:
\* its data members; given: those the constructor fills in; start: what
\* SerializeStart (or SaveStart) writes; load: what SerializeStart (or
\* LoadStart) reads; bulk: what travels as a DataTransfer; end: what
\* SerializeEnd writes and reads; slots: the members that ReplicateStart makes
\* room in, one element for every replica; reads, writes: the members its
\* handler uses; outs: the members its client reads; ordered: its GetGroup does
\* not return TASK_UNORDERED; faf: made with TASK_FIRE_AND_FORGET.
ClassDef ==
  [lib : STRING, method : STRING, local : BOOLEAN, fields : SUBSET STRING, given : SUBSET STRING,
   start : Seq(STRING), load : Seq(STRING), bulk : SUBSET STRING, end : Seq(STRING),
   slots : SUBSET STRING, reads : SUBSET STRING, writes : SUBSET STRING, outs : SUBSET STRING,
   ordered : BOOLEAN, faf : BOOLEAN]

Members(fs) == {fs[k] : k \in DOMAIN fs}
Once(fs) == \A j, k \in DOMAIN fs : fs[j] = fs[k] => j = k

\* What the classes of a library keep to.
WellDefined(d) ==
  /\ d.method \in DOMAIN Exec[d.lib] /\ Exec[d.lib][d.method] \in Class
  /\ Def[Exec[d.lib][d.method]] = d
  /\ d.start = d.load /\ Once(d.start) /\ Once(d.end)
  /\ d.given \cup d.bulk \cup d.writes \cup d.outs \subseteq d.fields
  /\ d.reads \subseteq d.given /\ d.bulk \subseteq d.given
  /\ ~d.local => d.reads \subseteq Members(d.start) \cup d.bulk
  /\ Members(d.start) \cap d.bulk = {} /\ Members(d.end) \cap d.bulk = {}
  /\ d.outs \subseteq Members(d.end) /\ d.outs \subseteq d.writes
  /\ d.slots \cap d.given = {}
  /\ d.method = "CreateTaskState" => /\ d.writes \subseteq d.reads /\ d.ordered /\ ~d.faf
                                     /\ "Construct" \notin DOMAIN Exec[d.lib]

ASSUME TaskLibAssumption ==
  /\ NumNodes \in Nat \ {0}
  /\ \A c \in Class : Def[c] \in ClassDef /\ WellDefined(Def[c])

\* The contents of a member: what the client gave, what uninitialised memory
\* holds, n for what the handler at node n computed.
Given == 0
Junk == -1

\* A task in memory. A member is an array: slots have an element per replica.
One(v) == [i \in {1} |-> v]

NewTask(c) ==
  [class |-> c, method |-> Def[c].method,
   val |-> [f \in Def[c].fields |-> One(IF f \in Def[c].given THEN Given ELSE Junk)]]

NewEmptyTask(c) == [class |-> c, method |-> "none", val |-> [f \in Def[c].fields |-> One(Junk)]]

VARIABLES
  pc,      \* where the task is: see Pc
  orig,    \* the task of the client
  rep,     \* its replica at the node being called
  hop,     \* the node being called
  push,    \* PushTask: exec_method_, and params_: method_ and the members
  reply,   \* the serialised outputs
  made,    \* node -> the members its handler left
  depth,   \* what the runs of the task have left in node_depth_ of their groups
  heap     \* what is allocated: 0 for the task, n for its replica at node n

vars == <<pc, orig, rep, hop, push, reply, made, depth, heap>>

Pc == {"disperse", "load_start", "run", "save_end", "load_end", "replicate_end", "end", "local", "done"}

NoPush == [exec_method |-> "none", method |-> "none", params |-> << >>]

Init ==
  /\ pc \in {"disperse", "local"}
  /\ \E c \in Class : /\ Def[c].local => pc = "local"
                     /\ orig = NewTask(c) /\ rep = NewEmptyTask(c)
  /\ hop = 1
  /\ push = NoPush
  /\ reply = << >>
  /\ made = [n \in Node |-> NewTask(orig.class).val]
  /\ depth = 0
  /\ heap = {0}

-----------------------------------------------------------------------------
(* Archives. A member is written with its type; reading another type, or   *)
(* past the end, leaves something else than what was written.              *)

\* The element of member f that is saved and loaded for a replica.
At(c, f, replica) == IF f \in Def[c].slots THEN replica ELSE 1

\* BinaryOutputArchive: the members fs of a task taken for class c.
Serialize(o, c, fs, replica) ==
  [k \in DOMAIN fs |-> [type |-> Type[fs[k]], val |-> o.val[fs[k]][At(c, fs[k], replica)]]]

\* BinaryInputArchive: member f after the members fs have been read from ar.
Read(o, c, fs, replica, ar, f) ==
  LET k == CHOOSE k \in DOMAIN fs : fs[k] = f
      v == IF k \in DOMAIN ar /\ ar[k].type = Type[f] THEN ar[k].val ELSE Junk
  IN  IF f \in Members(fs) THEN [o.val[f] EXCEPT ![At(c, f, replica)] = v] ELSE o.val[f]

Deserialize(o, c, fs, replica, ar) ==
  [o EXCEPT !.val = [f \in DOMAIN o.val |-> Read(o, c, fs, replica, ar, f)]]

-----------------------------------------------------------------------------
(* The operations of a library, lib_exec.h.                                *)

Lib == Def[orig.class].lib
HasCase(method) == method \in DOMAIN Exec[Lib]
CastTo(method) == Exec[Lib][method]

SaveStart(method, o) ==
  IF HasCase(method) THEN Serialize(o, CastTo(method), Def[CastTo(method)].start, 1) ELSE << >>

\* Room for the outputs of every node.
ReplicateStart(method, o) ==
  IF HasCase(method)
  THEN [o EXCEPT !.val = [f \in DOMAIN o.val |->
                            IF f \in Def[CastTo(method)].slots THEN [i \in Node |-> Junk] ELSE @[f]]]
  ELSE o

\* A new task of the class. A DataTransfer is read from where the origin has it.
LoadStart(method, ar, m) ==
  LET c == CastTo(method)
      o == Deserialize(NewEmptyTask(c), c, Def[c].load, 1, ar)
  IN  [o EXCEPT !.method = m,
                !.val = [f \in DOMAIN o.val |-> IF f \in Def[c].bulk THEN orig.val[f] ELSE @[f]]]

SaveEnd(method, o) ==
  IF HasCase(method) THEN Serialize(o, CastTo(method), Def[CastTo(method)].end, 1) ELSE << >>

LoadEnd(replica, method, ar, o) ==
  IF HasCase(method) THEN Deserialize(o, CastTo(method), Def[CastTo(method)].end, replica, ar) ELSE o

\* What Del frees of the object x: a method without a case leaves it.
Del(method, x) == IF HasCase(method) THEN {x} ELSE {}

TASK_UNORDERED == 2^7

\* Faulty: a method without a case counts as unordered.
GetGroupUnordered(method) ==
  IF HasCase(method) /\ Def[CastTo(method)].ordered THEN 0 ELSE TASK_UNORDERED

\* The u32 that GetGroup returns, in the int of its callers.
GetGroup(method) ==
  IF HasCase(method) THEN IF Def[CastTo(method)].ordered THEN 0 ELSE TASK_UNORDERED ELSE -1

\* What CheckTaskGroup adds to node_depth_, and RemoveTaskGroup subtracts. No
\* class that is ordered sets the flag TASK_UNORDERED.
Counted(method) == IF GetGroup(method) = TASK_UNORDERED THEN 0 ELSE 1

-----------------------------------------------------------------------------
(* The origin.                                                             *)

\* Client::Disperse: SaveStart, ReplicateStart and a PushTask, all by method_.
Disperse ==
  /\ pc = "disperse"
  /\ push' = [exec_method |-> orig.method, method |-> orig.method,
              params |-> SaveStart(orig.method, orig)]
  /\ orig' = ReplicateStart(orig.method, orig)
  /\ pc' = "load_start"
  /\ UNCHANGED <<rep, hop, reply, made, depth, heap>>

\* Faulty: every node's output goes to the first slot.
ReplicaFirst == 1

Replica == hop

LastReplica == hop = NumNodes

\* ClientHandlePushReplicaOutput goes by exec_method_; then the next node.
ClientHandlePushReplicaOutput ==
  /\ pc = "load_end"
  /\ orig' = LoadEnd(Replica, push.exec_method, reply, orig)
  /\ hop' = hop + 1
  /\ pc' = IF LastReplica THEN "replicate_end" ELSE "load_start"
  /\ UNCHANGED <<rep, push, reply, made, depth, heap>>

\* ClientHandlePushReplicaEnd: no class does anything in ReplicateEnd; complete.
ClientHandlePushReplicaEnd ==
  /\ pc = "replicate_end"
  /\ pc' = "end"
  /\ UNCHANGED <<orig, rep, hop, push, reply, made, depth, heap>>

\* What EndTask frees of the task o of the client, by its method_.
Ended(o) == IF Def[orig.class].faf THEN Del(o.method, 0) ELSE {}

\* The worker of the origin finds the task complete. RemoveTaskGroup leaves
\* alone what is remote.
EndTask ==
  /\ pc = "end"
  /\ heap' = heap \ Ended(orig)
  /\ pc' = "done"
  /\ UNCHANGED <<orig, rep, hop, push, reply, made, depth>>

-----------------------------------------------------------------------------
(* The called node.                                                        *)

\* Faulty: the parameters are serialised anew for every node.
ParamsLate == SaveStart(push.exec_method, orig)

\* The loop over the nodes sends the same params_ to each.
Params == push.params

\* RpcExec, up to Emplace, goes by the method of the request.
RpcExec ==
  /\ pc = "load_start"
  /\ rep' = LoadStart(push.exec_method, Params, push.method)
  /\ heap' = heap \cup {hop}
  /\ pc' = "run"
  /\ UNCHANGED <<orig, hop, push, reply, made, depth>>

\* The members S of o as the handler at node n leaves them.
Write(o, S, n) ==
  [o EXCEPT !.val = [f \in DOMAIN o.val |-> IF f \in S THEN [o.val[f] EXCEPT ![1] = n] ELSE o.val[f]]]

\* The switch Run and the handler. CreateTaskState finds the state by its name,
\* asks for an id or keeps the one it was given, and unless the state exists it
\* turns the task into a Construct of the new state.
Ran(o, n) ==
  LET d == Def[CastTo(o.method)]
  IN  IF o.method = "CreateTaskState"
      THEN {[Write(o, S, n) EXCEPT !.method = m] :
              S \in SUBSET d.writes, m \in {"CreateTaskState", "Construct"}}
      ELSE {Write(o, d.writes, n)}

\* A worker of the called node: CheckTaskGroup, Run, RemoveTaskGroup, each by
\* the method_ that the replica then has. EndTask sets it complete.
RunReplica ==
  /\ pc = "run" /\ HasCase(rep.method)
  /\ rep' \in Ran(rep, hop)
  /\ made' = [made EXCEPT ![hop] = rep'.val]
  /\ depth' = depth + Counted(rep.method) - Counted(rep'.method)
  /\ pc' = "save_end"
  /\ UNCHANGED <<orig, hop, push, reply, heap>>

\* Faulty: the outputs are saved by the method that the replica ended with.
SaveEndMethodReplica == rep.method

\* RpcComplete goes by the method of the request.
SaveEndMethod == push.exec_method

\* RpcComplete: SaveEnd, and DelTask, which goes by the method_ of the replica.
RpcComplete ==
  /\ pc = "save_end"
  /\ reply' = SaveEnd(SaveEndMethod, rep)
  /\ heap' = heap \ Del(rep.method, hop)
  /\ pc' = "load_end"
  /\ UNCHANGED <<orig, rep, hop, push, made, depth>>

\* A worker of this node runs the task in place, from CheckTaskGroup to EndTask.
RunLocal ==
  /\ pc = "local" /\ HasCase(orig.method)
  /\ orig' \in Ran(orig, 1)
  /\ made' = [made EXCEPT ![1] = orig'.val]
  /\ depth' = depth + Counted(orig.method) - Counted(orig'.method)
  /\ heap' = heap \ Ended(orig')
  /\ pc' = "done"
  /\ UNCHANGED <<rep, hop, push, reply>>

Next == \/ Disperse \/ RpcExec \/ RunReplica \/ RpcComplete
        \/ ClientHandlePushReplicaOutput \/ ClientHandlePushReplicaEnd \/ EndTask \/ RunLocal

Spec == Init /\ [][Next]_vars

-----------------------------------------------------------------------------
\* A handler finds in every member it reads what the client put there, on the
\* first node and on the later ones, although the outputs of the earlier nodes
\* have been loaded over the task (the id of a CreateTaskState is both).
InputsArrive ==
  pc = "run" => \A f \in Def[orig.class].reads : rep.val[f] = One(Given)

\* What the client reads when the task is complete is what the handlers left:
\* every node's in the node's slot, the last node's where there is one slot,
\* and never what memory happened to hold.
OutputsArrive ==
  pc = "done" =>
    \A f \in Def[orig.class].outs :
      IF hop = 1 \/ f \notin Def[orig.class].slots
      THEN LET n == IF hop = 1 THEN 1 ELSE NumNodes
           IN  orig.val[f][1] = made[n][f][1] /\ made[n][f][1] # Junk
      ELSE \A n \in Node : orig.val[f][n] = made[n][f][1] /\ made[n][f][1] # Junk

\* The switch has a case for the method and takes the task for a class with the
\* members it was built with.
Fits(method, o) == HasCase(method) /\ Def[CastTo(method)] = Def[o.class]

\* CreateTaskState has turned o into a Construct.
Constructed(o) == Def[o.class].method = "CreateTaskState" /\ o.method = "Construct"

\* Every switch of a library that a task passes through (SaveStart, LoadStart,
\* Run, SaveEnd, LoadEnd, ReplicateStart and End by the task's or the request's
\* method, Del and GetGroup by method_ after the run) has a case for the method
\* and takes the task for its own class, with one exception: Del and GetGroup of
\* a creation that has become a Construct, which the admin library does not know.
DispatchSound ==
  /\ pc \in {"disperse", "local", "replicate_end", "end"} => Fits(orig.method, orig)
  /\ pc \in {"load_start", "load_end"} => Fits(push.exec_method, orig)
  /\ pc = "run" => Fits(rep.method, rep)
  /\ pc = "save_end" => Fits(SaveEndMethod, rep) /\ (Fits(rep.method, rep) \/ Constructed(rep))
  /\ pc = "done" => Fits(orig.method, orig) \/ Constructed(orig)

\* A task that is done has left every group it was counted in: also a creation
\* that joined by one method_ and left by another, for which GetGroup has no
\* case (-1 is not TASK_UNORDERED). Its replicas are freed, those of a creation
\* apart, and so is a fire-and-forget task itself.
GivenBack ==
  pc = "done" => /\ depth = 0
                 /\ heap \subseteq {0} \/ Def[orig.class].method = "CreateTaskState"
                 /\ Def[orig.class].faf => 0 \notin heap
=============================================================================
