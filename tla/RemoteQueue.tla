---------------------------- MODULE RemoteQueue -----------------------------
(***************************************************************************)
(* Remote execution: a task whose domain is not this node is serialised    *)
(* once (Client::Disperse); an Argobots thread (Server::Push) then calls   *)
(* the nodes of the domain in turn, RpcPushSmall for a task without data,  *)
(* RpcPushBulk for one that sends or fetches a buffer, and loads every     *)
(* reply into the task. The called node runs a copy, the replica, through  *)
(* its own queues (module Worker), replies and deletes it.                 *)
(***************************************************************************)
EXTENDS Integers, Sequences

CONSTANTS
  NumNodes,    \* rpc_.hosts_.size()
  Call,        \* dispersed tasks
  Desc         \* call -> CallDesc

Node == 1..NumNodes
Flag == {"faf", "started", "long_running", "coroutine", "disable_run"}

\* kind: no DataTransfer, one the receiver reads, or one it writes. domain: 0
\* is DomainId::GetGlobal(), n is GetNode(n). has: the nodes on which the task
\* state exists. outputs: SerializeEnd reads something. replicated: it has an
\* output per replica. construct: the handler has set method_ to kConstruct.
CallDesc == [kind : {"small", "write", "read"}, from : Node, domain : 0..NumNodes,
             has : SUBSET Node, outputs : BOOLEAN, replicated : BOOLEAN,
             construct : BOOLEAN, flags : SUBSET (Flag \ {"disable_run"})]

\* Only a node that has the state disperses its tasks, and only if
\* DomainId::IsRemote.
ASSUME RemoteAssumption ==
  /\ NumNodes \in Nat \ {0, 1}
  /\ Desc \in [Call -> CallDesc]
  /\ \A c \in Call : Desc[c].from \in Desc[c].has /\ Desc[c].domain # Desc[c].from

VARIABLES
  pc,       \* call -> its PushTask: "idle", "call", "wait", "done"
  hop,      \* call -> replica of the loops in ClientSmallPush and ClientIoPush
  flags,    \* call -> task_flags_ of the dispersed task
  params,   \* call -> the flags that SaveStart has serialised
  buf,      \* call -> contents of the buffer of the dispersed task
  out,      \* call -> outputs of the dispersed task, one per replica
  srv,      \* call -> its RPC handler: "none", "recv", "exec", "wait", "save"
  null,     \* <<call, node>>: handlers past an RpcExec that found no task state
  data,     \* call -> the charbuf of RpcPushBulk
  replica,  \* call -> the copy of the task at the called node: "none", "queued", "complete", "freed"
  rflags,   \* call -> task_flags_ of the replica
  reply,    \* call -> what the handler has responded, or NoReply
  ran,      \* call -> the nodes that have run a replica
  down,     \* nodes whose process has ended
  kept      \* buffers and replicas that were allocated and not yet freed

vars == <<pc, hop, flags, params, buf, out, srv, null, data, replica, rflags,
          reply, ran, down, kept>>
clientVars == <<pc, hop, flags, params, out>>
serverVars == <<srv, null, data, replica, rflags, ran>>

\* The contents of a buffer: what the client put in, n for what the handler at
\* node n puts in, what uninitialised memory holds; or there is no buffer.
Orig == 0
Junk == -1
NoData == -2
Data == -2..NumNodes

Reply == [node : 0..NumNodes, data : Data]
NoReply == [node |-> 0, data |-> NoData]
Empty == [node |-> 0, data |-> Junk]   \* the empty string

Init ==
  /\ pc = [c \in Call |-> "idle"]
  /\ hop = [c \in Call |-> 1]
  /\ flags = [c \in Call |-> Desc[c].flags]
  /\ params = [c \in Call |-> {}]
  /\ buf = [c \in Call |-> IF Desc[c].kind = "small" THEN NoData ELSE Orig]
  /\ out = [c \in Call |-> << >>]
  /\ srv = [c \in Call |-> "none"]
  /\ null = {}
  /\ data = [c \in Call |-> NoData]
  /\ replica = [c \in Call |-> "none"]
  /\ rflags = [c \in Call |-> {}]
  /\ reply = [c \in Call |-> NoReply]
  /\ ran = [c \in Call |-> << >>]
  /\ down = {}
  /\ kept = {}

-----------------------------------------------------------------------------
\* Faulty: one host too many.
ResolveDomainIdPast(d) == IF d = 0 THEN [n \in 1..NumNodes+1 |-> n] ELSE <<d>>

\* Runtime::ResolveDomainId: every host, or the one node.
ResolveDomainId(d) == IF d = 0 THEN [n \in Node |-> n] ELSE <<d>>

To == [c \in Call |-> ResolveDomainId(Desc[c].domain)]

At(c) == To[c][hop[c]]

\* The origin of c, or the node it calls, is up: the steps of its threads.
Client(c) == Desc[c].from \notin down
Server(c, s) == srv[c] = s /\ At(c) \notin down

-----------------------------------------------------------------------------
(* The origin of the task.                                                 *)

\* An output for every replica, or the one that every replica overwrites.
ReplicateStart(c) == IF Desc[c].replicated THEN [i \in DOMAIN To[c] |-> NoReply]
                                           ELSE <<NoReply>>

\* The worker serialises the task and hands it to a PushTask.
Disperse(c) ==
  /\ pc[c] = "idle" /\ Client(c)
  /\ pc' = [pc EXCEPT ![c] = "call"]
  /\ params' = [params EXCEPT ![c] = flags[c]]
  /\ out' = [out EXCEPT ![c] = ReplicateStart(c)]
  /\ kept' = kept \cup {<<"start", c, 0>>}
  /\ UNCHANGED <<hop, flags, buf, serverVars, reply, down>>

\* The worker's DisableRun and UnsetCoroutine, at any time after Disperse
\* (module Worker has their reads and writes).
DisableRun(c) ==
  /\ pc[c] # "idle" /\ Client(c) /\ "disable_run" \notin flags[c]
  /\ flags' = [flags EXCEPT ![c] = (@ \cup {"disable_run"}) \ {"coroutine"}]
  /\ UNCHANGED <<pc, hop, params, buf, out, serverVars, reply, down, kept>>

\* Faulty: the task is serialised anew for each node.
ParamsLate(c) == flags[c]

Params(c) == params[c]

\* SyncCall, SyncIoCall: the request reaches the node.
SyncCall(c) ==
  /\ pc[c] = "call" /\ hop[c] \in DOMAIN To[c] /\ Client(c)
  /\ At(c) \notin down
  /\ pc' = [pc EXCEPT ![c] = "wait"]
  /\ srv' = [srv EXCEPT ![c] = "recv"]
  /\ rflags' = [rflags EXCEPT ![c] = Params(c)]
  /\ UNCHANGED <<hop, flags, params, buf, out, null, data, replica, reply, ran, down, kept>>

\* The call throws margo_exception, at once or when the node ends before it
\* has replied: exit(1).
CallFails(c) ==
  /\ pc[c] \in {"call", "wait"} /\ hop[c] \in DOMAIN To[c] /\ Client(c)
  /\ At(c) \in down /\ reply[c] = NoReply
  /\ down' = down \cup {Desc[c].from}
  /\ UNCHANGED <<clientVars, buf, serverVars, reply, kept>>

\* Faulty: every reply is loaded into the first output.
SlotFirst(c) == 1

Slot(c) == IF Desc[c].replicated THEN hop[c] ELSE 1

\* Faulty: an empty reply is loaded like any other.
LoadableAlways(c) == TRUE

\* LoadEnd: outputs cannot be read from an empty reply.
Loadable(c) == reply[c] # Empty \/ ~Desc[c].outputs

\* ClientHandlePushReplicaOutput: a reply that cannot be loaded makes the
\* archive throw, which ends the process.
ClientHandlePushReplicaOutput(c) ==
  /\ pc[c] = "wait" /\ reply[c] # NoReply /\ Client(c)
  /\ IF Loadable(c)
     THEN /\ out' = IF Desc[c].outputs THEN [out EXCEPT ![c][Slot(c)] = reply[c]] ELSE out
          /\ reply' = [reply EXCEPT ![c] = NoReply]
          /\ hop' = [hop EXCEPT ![c] = @ + 1]
          /\ pc' = [pc EXCEPT ![c] = "call"]
          /\ UNCHANGED down
     ELSE /\ down' = down \cup {Desc[c].from}
          /\ UNCHANGED <<pc, hop, out, reply>>
  /\ UNCHANGED <<flags, params, buf, serverVars, kept>>

\* Faulty: the last node is left out.
AllCalledButLast(c) == hop[c] >= Len(To[c])

AllCalled(c) == hop[c] > Len(To[c])

\* ClientHandlePushReplicaEnd, after the loop: SetModuleComplete.
ClientHandlePushReplicaEnd(c) ==
  /\ pc[c] = "call" /\ AllCalled(c) /\ Client(c)
  /\ pc' = [pc EXCEPT ![c] = "done"]
  /\ UNCHANGED <<hop, flags, params, buf, out, serverVars, reply, down, kept>>

-----------------------------------------------------------------------------
(* The called node.                                                        *)

Fetched(c) == IF Desc[c].from \in down THEN Junk ELSE buf[c]

\* RpcPushSmall, or RpcPushBulk up to RpcExec: the data of a write is fetched.
RpcPush(c) ==
  /\ Server(c, "recv")
  /\ srv' = [srv EXCEPT ![c] = "exec"]
  /\ data' = [data EXCEPT ![c] = CASE Desc[c].kind = "write" -> Fetched(c)
                                   [] Desc[c].kind = "read"  -> Junk
                                   [] OTHER                  -> NoData]
  /\ UNCHANGED <<clientVars, buf, null, replica, rflags, reply, ran, down, kept>>

\* Faulty: the replica is left fire and forget.
RemoteFlagsKept(S) == S

RemoteFlags(S) == S \ {"faf", "started", "long_running"}

\* RpcExec: the replica is loaded and emplaced in the queue of its state.
RpcExec(c) ==
  /\ Server(c, "exec") /\ At(c) \in Desc[c].has
  /\ srv' = [srv EXCEPT ![c] = "wait"]
  /\ replica' = [replica EXCEPT ![c] = "queued"]
  /\ rflags' = [rflags EXCEPT ![c] = RemoteFlags(@)]
  /\ kept' = kept \cup {<<"replica", c, hop[c]>>}
  /\ UNCHANGED <<clientVars, buf, null, data, reply, ran, down>>

\* Faulty: the handler returns without a response.
RpcExecNoStateSilent(c) ==
  /\ Server(c, "exec") /\ At(c) \notin Desc[c].has
  /\ srv' = [srv EXCEPT ![c] = "none"]
  /\ UNCHANGED <<clientVars, buf, null, data, replica, rflags, reply, ran, down, kept>>

\* RpcExec without the task state: an empty response, and on to RpcComplete
\* with the null exec.
RpcExecNoState(c) ==
  /\ Server(c, "exec") /\ At(c) \notin Desc[c].has
  /\ srv' = [srv EXCEPT ![c] = "none"]
  /\ null' = null \cup {<<c, At(c)>>}
  /\ reply' = [reply EXCEPT ![c] = Empty]
  /\ UNCHANGED <<clientVars, buf, data, replica, rflags, ran, down, kept>>

\* RpcPushBulk first returns its uninitialised data, to a caller that may have
\* taken the response and its buffer away; the call through the null exec then
\* ends the process. The caller does not wait for any of it.
RpcCompleteNoState(c) ==
  \E n \in Node \ down :
    /\ <<c, n>> \in null
    /\ null' = null \ {<<c, n>>}
    /\ down' = down \cup {n}
    /\ \/ UNCHANGED buf
       \/ Desc[c].kind = "read" /\ buf' = [buf EXCEPT ![c] = Junk]
    /\ UNCHANGED <<clientVars, srv, data, replica, rflags, ran, reply, kept>>

\* A worker of the node runs the replica and ends it: it deletes a
\* fire-and-forget task and marks any other complete.
WorkerRun(c) ==
  /\ replica[c] = "queued" /\ At(c) \notin down
  /\ "disable_run" \notin rflags[c]
  /\ ran' = [ran EXCEPT ![c] = Append(@, At(c))]
  /\ data' = IF Desc[c].kind = "read" THEN [data EXCEPT ![c] = At(c)] ELSE data
  /\ replica' = [replica EXCEPT ![c] = IF "faf" \in rflags[c] THEN "freed" ELSE "complete"]
  /\ UNCHANGED <<clientVars, buf, srv, null, rflags, reply, down, kept>>

\* Wait<TASK_YIELD_ABT>
Waited(c) == replica[c] = "complete"

\* After RpcExec: RpcPushBulk returns the data of a read.
RpcPushEnd(c) ==
  /\ Server(c, "wait") /\ Waited(c)
  /\ srv' = [srv EXCEPT ![c] = "save"]
  /\ buf' = IF Desc[c].kind = "read" THEN [buf EXCEPT ![c] = data[c]] ELSE buf
  /\ UNCHANGED <<clientVars, null, data, replica, rflags, reply, ran, down, kept>>

\* SaveEnd
SaveEnd(c) == IF Desc[c].outputs THEN [node |-> At(c), data |-> data[c]] ELSE Empty

\* Faulty: RpcPushBulk does not delete.
DeletedSmall(c) == IF Desc[c].kind = "small" THEN {<<"replica", c, hop[c]>>} ELSE {}

\* What Del frees: it goes by method_, and that of the admin state has no case
\* for kConstruct.
Deleted(c) == IF Desc[c].construct THEN {} ELSE {<<"replica", c, hop[c]>>}

\* RpcComplete: outputs are saved, the replica is deleted, the reply is sent.
RpcComplete(c) ==
  /\ Server(c, "save")
  /\ srv' = [srv EXCEPT ![c] = "none"]
  /\ replica' = [replica EXCEPT ![c] = "none"]
  /\ reply' = [reply EXCEPT ![c] = SaveEnd(c)]
  /\ kept' = (kept \ Deleted(c)) \cup (IF Desc[c].outputs THEN {<<"end", c, hop[c]>>} ELSE {})
  /\ UNCHANGED <<clientVars, buf, null, data, rflags, ran, down>>

-----------------------------------------------------------------------------
ClientNext(c) == \/ Disperse(c) \/ DisableRun(c) \/ SyncCall(c)
                 \/ ClientHandlePushReplicaOutput(c) \/ ClientHandlePushReplicaEnd(c)

ServerNext(c) == \/ RpcPush(c) \/ RpcExec(c) \/ RpcExecNoState(c)
                 \/ RpcCompleteNoState(c) \/ WorkerRun(c) \/ RpcPushEnd(c) \/ RpcComplete(c)

Next == \E c \in Call : ClientNext(c) \/ ServerNext(c) \/ CallFails(c)

Spec == Init /\ [][Next]_vars

\* Every thread that can go on is scheduled: workers spin, Argobots threads and
\* Thallium's handlers yield. Nothing forces an error to be raised.
FairSpec == Spec /\ \A c \in Call : WF_vars(ClientNext(c)) /\ WF_vars(ServerNext(c))

-----------------------------------------------------------------------------
\* Type correctness of the state of remote_queue at both ends.
TypeOK ==
  /\ pc \in [Call -> {"idle", "call", "wait", "done"}]
  /\ hop \in [Call -> 1..NumNodes+1]
  /\ flags \in [Call -> SUBSET Flag]
  /\ params \in [Call -> SUBSET Flag]
  /\ buf \in [Call -> Data]
  /\ out \in [Call -> Seq(Reply)]
  /\ srv \in [Call -> {"none", "recv", "exec", "wait", "save"}]
  /\ null \subseteq Call \X Node
  /\ data \in [Call -> Data]
  /\ replica \in [Call -> {"none", "queued", "complete", "freed"}]
  /\ rflags \in [Call -> SUBSET Flag]
  /\ reply \in [Call -> Reply]
  /\ ran \in [Call -> Seq(Node)]
  /\ down \subseteq Node
  /\ kept \subseteq ({"start", "replica", "end"} \X Call \X (0..NumNodes))

\* The promise made to the owner of a dispersed task.
Promise == INSTANCE RemoteCall
             WITH Has <- [c \in Call |-> Desc[c].has],
                  Whole <- {c \in Call : Desc[c].outputs},
                  ended <- {c \in Call : pc[c] = "done"}

\* The loop of synchronous calls keeps the promise, whichever nodes lack the
\* task state and whichever processes end: the nodes of the domain that have
\* the state run the task in order and once each, it is complete only when they
\* all have, and a task with outputs only if no node of the domain lacks the
\* state. A task without outputs takes the empty reply of such a node for a
\* success and completes although the node has not run it.
KeepsPromise == Promise!Spec

\* What the replica at node n returns when it saw the data its caller had.
Output(c, n) == [node |-> n, data |-> CASE Desc[c].kind = "write" -> Orig
                                       [] Desc[c].kind = "read"  -> n
                                       [] OTHER                  -> NoData]

\* When a dispersed task completes, the output of every node is in its slot
\* (the last node's in the only slot of a task that is not replicated), each
\* computed from the data its caller sent, and the buffer of a read holds what
\* the last node put there.
OutputsOfAll ==
  \A c \in Call : pc[c] = "done" /\ Desc[c].outputs =>
    LET last == Len(To[c])
    IN  /\ IF Desc[c].replicated
           THEN \A i \in 1..last : out[c][i] = Output(c, To[c][i])
           ELSE out[c] = <<Output(c, To[c][last])>>
        /\ Desc[c].kind = "read" => buf[c] = To[c][last]

\* The RPC handler waits for the replica and saves its outputs while the
\* replica is allocated: the worker of its node never deletes it.
ReplicaAlive ==
  \A c \in Call : srv[c] \in {"wait", "save"} => replica[c] \in {"queued", "complete"}

\* A replica runs the way the task was created, a coroutine if it was one and
\* never with its runs disabled, whatever the origin's worker has done to the
\* flags of the dispersed task by then.
ReplicaFresh ==
  \A c \in Call : replica[c] = "queued" =>
    rflags[c] = Desc[c].flags \cap {"coroutine"}

\* No replica outlives its call, those of creations apart: CreateTaskState has
\* changed their method_ to one that Del does not know.
ReplicasDeleted ==
  \A c \in Call : pc[c] = "done" /\ ~Desc[c].construct =>
    \A h \in 1..NumNodes : <<"replica", c, h>> \notin kept

\* Every dispersed task completes, if all nodes have its task state.
EveryCallEnds == \A c \in Call : pc[c] = "call" ~> pc[c] = "done"

\* No dispersed task hangs while the processes it involves are up, also when a
\* node lacks its task state: it completes, or its origin or the node that it is
\* waiting for has ended.
NoCallHangs ==
  \A c \in Call : pc[c] = "call" ~>
    \/ pc[c] = "done" \/ Desc[c].from \in down
    \/ hop[c] \in DOMAIN To[c] /\ At(c) \in down
=============================================================================
