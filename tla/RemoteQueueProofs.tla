------------------------- MODULE RemoteQueueProofs --------------------------
(***************************************************************************)
(* For any number of nodes and any set of dispersed tasks: the threads of  *)
(* remote_queue keep the promise of RemoteCall, a replica is alive while   *)
(* its RPC handler uses it and starts with the right flags, and every      *)
(* node's output is there when a dispersed task completes.                 *)
(***************************************************************************)
EXTENDS RemoteQueue, TLAPS

\* What the client side of a call has got so far: the outputs of the nodes that
\* have replied.
Loaded(c) ==
  Desc[c].outputs =>
    IF Desc[c].replicated
    THEN DOMAIN out[c] = 1..Len(To[c]) /\ \A i \in 1..hop[c]-1 : out[c][i] = Output(c, To[c][i])
    ELSE DOMAIN out[c] = {1} /\ (hop[c] > 1 => out[c][1] = Output(c, To[c][hop[c]-1]))

\* A read whose owner looks at the result.
IsGet(c) == Desc[c].kind = "read" /\ Desc[c].outputs

\* The buffer of the dispersed task: only a read changes it.
Filled(c) ==
  /\ IsGet(c) /\ hop[c] > 1 => buf[c] = To[c][hop[c]-1]
  /\ Desc[c].kind # "read" => buf[c] = IF Desc[c].kind = "small" THEN NoData ELSE Orig

\* The first h nodes of the domain are dealt with: those that have the task
\* state have run the task, and so have all of them if it has outputs.
RanSet(c) == {ran[c][j] : j \in DOMAIN ran[c]}

Through(c, h) ==
  /\ RanSet(c) = {To[c][i] : i \in 1..h} \cap Desc[c].has
  /\ Desc[c].outputs => \A i \in 1..h : To[c][i] \in Desc[c].has

\* So are the nodes before, or up to, the one being called.
Before(c) == Through(c, hop[c] - 1)
After(c) == Through(c, hop[c])

\* The data a handler holds is the caller's, unless the caller's process ended.
Received(c) == \/ Desc[c].from \in down
               \/ data[c] = CASE Desc[c].kind = "write" -> Orig
                              [] Desc[c].kind = "read"  -> Junk
                              [] OTHER                  -> NoData

Computed(c) == Desc[c].from \in down \/ data[c] = Output(c, At(c)).data

\* Where the PushTask, the handler and the replica of a call can be at once.
Between(c) ==
  /\ srv[c] = "none" /\ replica[c] = "none" /\ reply[c] = NoReply
  /\ Before(c)
  /\ Loaded(c) /\ Filled(c)

InHandler(c) ==
  /\ hop[c] \in DOMAIN To[c] /\ Loaded(c) /\ (~IsGet(c) => Filled(c))
  /\ \/ /\ srv[c] = "recv" /\ replica[c] = "none" /\ reply[c] = NoReply
        /\ rflags[c] = Desc[c].flags /\ Before(c) /\ Filled(c)
     \/ /\ srv[c] = "exec" /\ replica[c] = "none" /\ reply[c] = NoReply
        /\ rflags[c] = Desc[c].flags /\ Before(c) /\ Filled(c)
        /\ Received(c)
     \/ /\ srv[c] = "wait" /\ replica[c] = "queued" /\ reply[c] = NoReply
        /\ rflags[c] = Desc[c].flags \cap {"coroutine"} /\ At(c) \in Desc[c].has
        /\ Before(c) /\ Filled(c) /\ Received(c)
     \/ /\ srv[c] = "wait" /\ replica[c] = "complete" /\ reply[c] = NoReply
        /\ After(c) /\ Filled(c) /\ Computed(c)
     \/ /\ srv[c] = "save" /\ replica[c] = "complete" /\ reply[c] = NoReply
        /\ After(c) /\ Computed(c)
        /\ (IsGet(c) => buf[c] = data[c])
     \/ /\ srv[c] = "none" /\ replica[c] = "none" /\ After(c)
        /\ IF Desc[c].outputs
           THEN reply[c].node = At(c) /\ (Desc[c].from \in down \/ reply[c] = Output(c, At(c)))
           ELSE reply[c] = Empty
        /\ (IsGet(c) => Desc[c].from \in down \/ buf[c] = At(c))
     \/ /\ srv[c] = "none" /\ replica[c] = "none" /\ reply[c] = Empty
        /\ At(c) \notin Desc[c].has /\ Before(c)

\* A handler without a task state leaves the caller of a task with outputs at
\* an empty reply, which it cannot load: that call goes no further.
Stuck(c) == \A n \in Node : <<c, n>> \in null /\ Desc[c].outputs => pc[c] = "wait" /\ reply[c] = Empty

CallInv(c) ==
  /\ hop[c] <= Len(To[c]) + 1
  /\ pc[c] = "idle" => /\ hop[c] = 1 /\ flags[c] = Desc[c].flags /\ Through(c, 0)
                       /\ srv[c] = "none" /\ replica[c] = "none" /\ reply[c] = NoReply
                       /\ Filled(c)
  /\ pc[c] # "idle" => params[c] = Desc[c].flags
  /\ pc[c] = "call" => Between(c)
  /\ pc[c] = "wait" => InHandler(c)
  /\ pc[c] = "done" => Between(c) /\ hop[c] = Len(To[c]) + 1
  /\ Stuck(c)

IndInv == TypeOK /\ \A c \in Call : CallInv(c)

\* The state of call d is untouched by a step.
Same(d) ==
  /\ pc'[d] = pc[d] /\ hop'[d] = hop[d] /\ flags'[d] = flags[d] /\ params'[d] = params[d]
  /\ buf'[d] = buf[d] /\ out'[d] = out[d] /\ srv'[d] = srv[d] /\ data'[d] = data[d]
  /\ replica'[d] = replica[d] /\ rflags'[d] = rflags[d] /\ reply'[d] = reply[d]
  /\ ran'[d] = ran[d] /\ \A n \in Node : <<d, n>> \in null' => <<d, n>> \in null

-----------------------------------------------------------------------------
\* ResolveDomainId gives a sequence of between one and NumNodes nodes.
LEMMA ToShape ==
  ASSUME NEW c \in Call
  PROVE  /\ To[c] \in Seq(Node)
         /\ Len(To[c]) \in 1..NumNodes
         /\ DOMAIN To[c] = 1..Len(To[c])
         /\ \A i \in 1..Len(To[c]) : To[c][i] \in Node
         /\ \A i, k \in 1..Len(To[c]) : To[c][i] = To[c][k] => i = k
<1>1. Desc[c].domain \in 0..NumNodes /\ NumNodes \in Nat /\ NumNodes > 1
  BY RemoteAssumption DEF CallDesc
<1>2. To[c] = ResolveDomainId(Desc[c].domain)
  BY DEF To
<1>3. CASE Desc[c].domain = 0
  <2>1. To[c] = [n \in 1..NumNodes |-> n]
    BY <1>2, <1>3 DEF ResolveDomainId, Node
  <2>2. To[c] \in Seq(Node) /\ Len(To[c]) = NumNodes
    BY <2>1, <1>1 DEF Node
  <2>3. \A i \in 1..NumNodes : To[c][i] = i
    BY <2>1, Zenon
  <2>4. \A i, k \in 1..Len(To[c]) : To[c][i] = To[c][k] => i = k
    BY <2>2, <2>3, Zenon
  <2> QED
    BY <2>1, <2>2, <2>4, <1>1 DEF Node
<1>4. CASE Desc[c].domain # 0
  <2>1. To[c] = <<Desc[c].domain>> /\ Desc[c].domain \in Node
    BY <1>1, <1>2, <1>4 DEF ResolveDomainId, Node
  <2> QED
    BY <2>1, <1>1
<1> QED
  BY <1>3, <1>4, Zenon

\* Constants of the model have their types.
LEMMA TypeFacts ==
  /\ NumNodes \in Nat /\ NumNodes > 1
  /\ NoReply \in Reply /\ Empty \in Reply
  /\ NoData \in Data /\ Orig \in Data /\ Junk \in Data /\ Node \subseteq Data
  /\ 0 \in 0..NumNodes /\ Node \subseteq 0..NumNodes
  /\ \A c \in Call : Desc[c].from \in Node /\ Desc[c].flags \subseteq Flag
<1>1. NumNodes \in Nat /\ NumNodes > 1 /\ Desc \in [Call -> CallDesc]
  BY RemoteAssumption
<1>2. NoData \in Data /\ Orig \in Data /\ Junk \in Data /\ Node \subseteq Data
  BY <1>1 DEF Data, NoData, Orig, Junk, Node
<1>3. NoReply \in Reply /\ Empty \in Reply
  BY <1>1, <1>2 DEF NoReply, Empty, Reply
<1> QED
  BY <1>1, <1>2, <1>3 DEF CallDesc, Node

\* A call whose RPC handler or replica is active is waiting for the reply of the
\* node it is at.
LEMMA Serving ==
  ASSUME TypeOK, NEW c \in Call, CallInv(c), srv[c] # "none" \/ replica[c] # "none"
  PROVE  /\ pc[c] = "wait" /\ InHandler(c)
         /\ hop[c] \in 1..Len(To[c]) /\ hop[c] \in 1..NumNodes /\ At(c) \in Node
<1>1. pc[c] \in {"idle", "call", "wait", "done"}
  BY DEF TypeOK
<1>2. pc[c] = "wait"
  BY <1>1 DEF CallInv, Between
<1>3. InHandler(c)
  BY <1>2 DEF CallInv
<1>4. hop[c] \in 1..Len(To[c])
  BY <1>3, ToShape, Zenon DEF InHandler
<1>5. At(c) \in Node
  BY <1>4, ToShape DEF At
<1>6. hop[c] \in 1..NumNodes
  BY <1>4, ToShape, TypeFacts
<1> QED
  BY <1>2, <1>3, <1>4, <1>5, <1>6

\* A node that has the task state joins the ones that have run the task.
LEMMA RunHere ==
  ASSUME TypeOK, NEW c \in Call, hop[c] \in 1..Len(To[c]), Before(c), At(c) \in Desc[c].has,
         ran'[c] = Append(ran[c], At(c)), hop' = hop
  PROVE  After(c)'
<1>1. ran[c] \in Seq(Node) /\ At(c) \in Node
  BY ToShape DEF TypeOK, At
<1>2. PICK r, h, v : r = ran[c] /\ h = hop[c] /\ v = At(c)
  OBVIOUS
<1>3. h \in Nat /\ h >= 1 /\ 1..h = (1..h-1) \cup {h}
  BY <1>2, ToShape
<1>4. DOMAIN Append(r, v) = DOMAIN r \cup {Len(r) + 1}
      /\ (\A j \in DOMAIN r : Append(r, v)[j] = r[j]) /\ Append(r, v)[Len(r) + 1] = v
  BY <1>1, <1>2
<1>5. {Append(r, v)[j] : j \in DOMAIN Append(r, v)} = {r[j] : j \in DOMAIN r} \cup {v}
  BY <1>4, Zenon
<1>6. {To[c][i] : i \in 1..h} = {To[c][i] : i \in 1..h-1} \cup {v}
  BY <1>2, <1>3, Zenon DEF At
<1>7. RanSet(c) = {r[j] : j \in DOMAIN r}
  BY <1>2, Zenon DEF RanSet
<1>8. RanSet(c)' = {Append(r, v)[j] : j \in DOMAIN Append(r, v)}
  BY <1>2, Zenon DEF RanSet
<1>9. RanSet(c)' = {To[c][i] : i \in 1..h} \cap Desc[c].has
  BY <1>2, <1>5, <1>6, <1>7, <1>8, Zenon DEF Before, Through
<1>10. Desc[c].outputs => \A i \in 1..h : To[c][i] \in Desc[c].has
  BY <1>2, <1>3, Zenon DEF Before, Through, At
<1> QED
  BY <1>2, <1>9, <1>10, Zenon DEF After, Through

\* A node that lacks the task state is passed over by a task without outputs.
LEMMA SkipHere ==
  ASSUME TypeOK, NEW c \in Call, hop[c] \in 1..Len(To[c]), Before(c), At(c) \notin Desc[c].has,
         ~Desc[c].outputs
  PROVE  After(c)
<1>1. hop[c] \in Nat /\ 1..hop[c] = (1..hop[c]-1) \cup {hop[c]}
  BY ToShape
<1>2. {To[c][i] : i \in 1..hop[c]} = {To[c][i] : i \in 1..hop[c]-1} \cup {At(c)}
  BY <1>1, Zenon DEF At
<1> QED
  BY <1>2, Zenon DEF Before, After, Through

\* Replacing an element of a sequence by one of the same set.
LEMMA ExceptSeq ==
  ASSUME NEW S, NEW g \in Seq(S), NEW i \in 1..Len(g), NEW v \in S
  PROVE  [g EXCEPT ![i] = v] \in Seq(S)
  OBVIOUS

\* A step that neither runs the task nor goes on to the next node.
LEMMA SameRun ==
  ASSUME NEW c \in Call, ran'[c] = ran[c], hop'[c] = hop[c]
  PROVE  (Before(c)' <=> Before(c)) /\ (After(c)' <=> After(c)) /\ (Through(c, 0)' <=> Through(c, 0))
<1>1. RanSet(c)' = RanSet(c)
  BY Zenon DEF RanSet
<1> QED
  BY <1>1, Zenon DEF Before, After, Through

\* A step that leaves the buffer alone and does not go on to the next node.
LEMMA SameFilled ==
  ASSUME NEW c \in Call, buf'[c] = buf[c], hop'[c] = hop[c]
  PROVE  (Filled(c)' <=> Filled(c)) /\ (IsGet(c)' <=> IsGet(c))
BY Zenon DEF Filled, IsGet

\* The invariant of a call that a step leaves alone survives it, even if the
\* step ends a process.
LEMMA FrameInv ==
  ASSUME NEW d \in Call, CallInv(d), Same(d), down \subseteq down'
  PROVE  CallInv(d)'
<1>1. Loaded(d)' <=> Loaded(d)
  BY DEF Same, Loaded, Output
<1>2. (Filled(d)' <=> Filled(d)) /\ (Before(d)' <=> Before(d)) /\ (After(d)' <=> After(d))
      /\ (Through(d, 0)' <=> Through(d, 0)) /\ (IsGet(d)' <=> IsGet(d))
  BY SameRun, SameFilled, Zenon DEF Same
<1>3. Received(d) => Received(d)'
  BY DEF Same, Received
<1>4. At(d)' = At(d)
  BY DEF Same, At
<1>5. Computed(d) => Computed(d)'
  BY <1>4 DEF Same, Computed, Output
<1>6. Between(d)' <=> Between(d)
  BY <1>1, <1>2 DEF Same, Between
<1>7. InHandler(d) => InHandler(d)'
  BY <1>1, <1>2, <1>3, <1>4, <1>5, Zenon DEF Same, InHandler, Output
<1>8. Stuck(d)'
  BY Zenon DEF Same, CallInv, Stuck
<1> QED
  BY <1>2, <1>6, <1>7, <1>8, Zenon DEF Same, CallInv

-----------------------------------------------------------------------------
\* Steps of the origin.

\* Disperse: the call starts at the first node with the flags as created.
LEMMA DisperseStep ==
  ASSUME IndInv, NEW c \in Call, Disperse(c)
  PROVE  IndInv'
<1>1. TypeOK /\ CallInv(c)
  BY DEF IndInv
<1>2. TypeOK'
  <2>1. ReplicateStart(c) \in Seq(Reply)
    <3>1. CASE Desc[c].replicated
      <4>1. ReplicateStart(c) = [i \in 1..Len(To[c]) |-> NoReply]
        BY <3>1, ToShape DEF ReplicateStart
      <4> QED
        BY <4>1, ToShape, TypeFacts
    <3>2. CASE ~Desc[c].replicated
      BY <3>2, TypeFacts DEF ReplicateStart
    <3> QED
      BY <3>1, <3>2
  <2>2. out' \in [Call -> Seq(Reply)]
    BY <1>1, <2>1 DEF TypeOK, Disperse
  <2>3. kept' \subseteq ({"start", "replica", "end"} \X Call \X (0..NumNodes))
    BY <1>1, TypeFacts DEF TypeOK, Disperse
  <2> QED
    BY <1>1, <2>2, <2>3, Zenon DEF TypeOK, Disperse, serverVars
<1>3. \A d \in Call : d # c => Same(d)
  BY <1>1, Zenon DEF TypeOK, Same, Disperse, serverVars, ReplicateStart, Reply, NoReply, Data, CallDesc, Flag
<1>4. down \subseteq down'
  BY Zenon DEF Disperse, serverVars, ReplicateStart, Reply, NoReply, Data, CallDesc, Flag
<1>5. CallInv(c)'
  <2>1. /\ pc[c] = "idle" /\ pc'[c] = "call" /\ hop'[c] = 1 /\ hop[c] = 1
        /\ params'[c] = Desc[c].flags /\ out'[c] = ReplicateStart(c)
        /\ srv'[c] = "none" /\ replica'[c] = "none" /\ reply'[c] = NoReply
        /\ ran'[c] = ran[c] /\ buf'[c] = buf[c] /\ Filled(c) /\ Through(c, 0)
        /\ null' = null /\ Stuck(c) /\ reply[c] = NoReply
    BY <1>1, Zenon DEF TypeOK, CallInv, Disperse, serverVars
  <2>2. Loaded(c)'
    BY <2>1, ToShape DEF Loaded, ReplicateStart
  <2>3. Filled(c)' /\ Through(c, 0)'
    BY <2>1, SameRun, SameFilled, Zenon
  <2>4. hop'[c] - 1 = 0 /\ hop'[c] <= Len(To[c]) + 1
    BY <2>1, ToShape
  <2>5. Before(c)'
    BY <2>3, <2>4, Zenon DEF Before
  <2>6. Stuck(c)'
    BY <2>1 DEF Stuck
  <2> QED
    BY <2>1, <2>2, <2>3, <2>4, <2>5, <2>6 DEF CallInv, Between
<1> QED
  BY <1>2, <1>3, <1>4, <1>5, FrameInv DEF IndInv

\* The flag word of the dispersed task is not looked at again.
LEMMA DisableRunStep ==
  ASSUME IndInv, NEW c \in Call, DisableRun(c)
  PROVE  IndInv'
<1>1. TypeOK /\ CallInv(c)
  BY DEF IndInv
<1>2. TypeOK'
  BY <1>1, ToShape, RemoteAssumption, Zenon DEF TypeOK, DisableRun, serverVars, Flag
<1>3. \A d \in Call : d # c => Same(d)
  BY <1>1, Zenon DEF TypeOK, Same, DisableRun, serverVars, Flag
<1>4. down \subseteq down'
  BY DEF DisableRun, serverVars, Flag
<1>5. CallInv(c)'
  <2>1. /\ pc[c] # "idle" /\ pc'[c] = pc[c] /\ hop'[c] = hop[c] /\ params'[c] = params[c]
        /\ out' = out /\ srv' = srv /\ replica' = replica /\ reply' = reply /\ ran' = ran
        /\ buf' = buf /\ data' = data /\ rflags' = rflags /\ down' = down /\ hop' = hop
    BY Zenon DEF DisableRun, serverVars
  <2>2. /\ Loaded(c)' <=> Loaded(c)
        /\ Received(c)' <=> Received(c)
        /\ Computed(c)' <=> Computed(c)
        /\ At(c)' = At(c)
    BY <2>1 DEF Loaded, Received, Computed, At, Output
  <2>3. /\ (Filled(c)' <=> Filled(c)) /\ (IsGet(c)' <=> IsGet(c))
        /\ (Before(c)' <=> Before(c)) /\ (After(c)' <=> After(c))
    BY <2>1, SameRun, SameFilled, Zenon
  <2>4. (Between(c)' <=> Between(c)) /\ (InHandler(c)' <=> InHandler(c))
    BY <2>1, <2>2, <2>3, Zenon DEF Between, InHandler, Output
  <2>5. Stuck(c)'
    BY <1>1, <2>1, Zenon DEF CallInv, Stuck, DisableRun, serverVars
  <2> QED
    BY <1>1, <2>1, <2>4, <2>5, Zenon DEF CallInv
<1> QED
  BY <1>2, <1>3, <1>4, <1>5, FrameInv DEF IndInv

\* SyncCall: the request carries what SaveStart has serialised.
LEMMA SyncCallStep ==
  ASSUME IndInv, NEW c \in Call, SyncCall(c)
  PROVE  IndInv'
<1>1. TypeOK /\ CallInv(c)
  BY DEF IndInv
<1>2. TypeOK'
  BY <1>1, ToShape, RemoteAssumption, Zenon DEF TypeOK, SyncCall, Params, Flag
<1>3. \A d \in Call : d # c => Same(d)
  BY <1>1, Zenon DEF TypeOK, Same, SyncCall, Params, Flag
<1>4. down \subseteq down'
  BY Zenon DEF SyncCall, Params, Flag
<1>5. CallInv(c)'
  <2>1. /\ pc[c] = "call" /\ pc'[c] = "wait" /\ hop' = hop /\ params' = params /\ out' = out
        /\ srv'[c] = "recv" /\ replica' = replica /\ reply' = reply /\ ran' = ran /\ buf' = buf
        /\ rflags'[c] = params[c] /\ hop[c] \in DOMAIN To[c]
    BY <1>1, Zenon DEF TypeOK, SyncCall, Params
  <2>2. Between(c) /\ params[c] = Desc[c].flags
    BY <1>1, <2>1, Zenon DEF CallInv
  <2>3. Loaded(c)' /\ Filled(c)' /\ Before(c)'
    BY <2>1, <2>2, SameRun, SameFilled, Zenon DEF Between, Loaded, Output
  <2>4. InHandler(c)'
    BY <2>1, <2>2, <2>3, Zenon DEF InHandler, Between
  <2>5. Stuck(c)'
    BY <1>1, <2>1, Zenon DEF CallInv, Stuck, SyncCall
  <2> QED
    BY <1>1, <2>1, <2>2, <2>4, <2>5, Zenon DEF CallInv
<1> QED
  BY <1>2, <1>3, <1>4, <1>5, FrameInv DEF IndInv

\* A call that fails ends the process of its origin and nothing else.
LEMMA CallFailsStep ==
  ASSUME IndInv, NEW c \in Call, CallFails(c)
  PROVE  IndInv'
<1>1. TypeOK /\ CallInv(c)
  BY DEF IndInv
<1>2. TypeOK'
  BY <1>1, TypeFacts, Zenon DEF TypeOK, CallFails, clientVars, serverVars
<1>3. \A d \in Call : d # c => Same(d)
  BY <1>1, Zenon DEF TypeOK, Same, CallFails, clientVars, serverVars, CallDesc
<1>4. down \subseteq down'
  BY Zenon DEF CallFails, clientVars, serverVars, CallDesc
<1>5. CallInv(c)'
  <2>1. Same(c)
    BY Zenon DEF CallFails, clientVars, serverVars, Same
  <2> QED
    BY <1>1, <1>4, <2>1, FrameInv, Zenon
<1> QED
  BY <1>2, <1>3, <1>4, <1>5, FrameInv DEF IndInv

\* A reply is loaded into its slot; one that cannot be loaded stops the call.
LEMMA ReplicaOutputStep ==
  ASSUME IndInv, NEW c \in Call, ClientHandlePushReplicaOutput(c)
  PROVE  IndInv'
<1>1. TypeOK /\ CallInv(c)
  BY DEF IndInv
<1>2. TypeOK'
  <2>1. pc[c] = "wait" /\ InHandler(c) /\ hop[c] \in 1..NumNodes /\ hop[c] \in 1..Len(To[c])
    BY <1>1, ToShape, TypeFacts DEF ClientHandlePushReplicaOutput, CallInv, InHandler
  <2>2. CASE ~Loadable(c)
    <3>1. /\ down' = down \cup {Desc[c].from} /\ pc' = pc /\ hop' = hop /\ out' = out
          /\ reply' = reply /\ flags' = flags /\ params' = params /\ buf' = buf /\ srv' = srv
          /\ data' = data /\ replica' = replica /\ rflags' = rflags /\ ran' = ran /\ kept' = kept
          /\ null' = null
      BY <2>2 DEF ClientHandlePushReplicaOutput, serverVars
    <3> QED
      BY <1>1, <3>1, TypeFacts, Zenon DEF TypeOK
  <2>3. CASE Loadable(c)
    <3>1. hop' = [hop EXCEPT ![c] = @ + 1] /\ hop[c] + 1 \in 1..NumNodes+1
      BY <2>1, <2>3, TypeFacts DEF ClientHandlePushReplicaOutput
    <3>2. hop' \in [Call -> 1..NumNodes+1]
      BY <1>1, <3>1, Zenon DEF TypeOK
    <3>3. out' \in [Call -> Seq(Reply)]
      <4>1. CASE ~Desc[c].outputs
        BY <1>1, <2>3, <4>1, Zenon DEF TypeOK, ClientHandlePushReplicaOutput
      <4>2. CASE Desc[c].outputs
        <5>1. PICK g : g = out[c]
          OBVIOUS
        <5>2. g \in Seq(Reply) /\ reply[c] \in Reply
          BY <1>1, <5>1 DEF TypeOK
        <5>3. Slot(c) \in 1..Len(g)
          BY <2>1, <4>2, <5>1, <5>2 DEF InHandler, Loaded, Slot
        <5>4. [g EXCEPT ![Slot(c)] = reply[c]] \in Seq(Reply)
          BY <5>2, <5>3, ExceptSeq
        <5>5. out' = [out EXCEPT ![c] = [g EXCEPT ![Slot(c)] = reply[c]]]
          BY <2>3, <4>2, <5>1 DEF ClientHandlePushReplicaOutput
        <5> QED
          BY <1>1, <5>4, <5>5, Zenon DEF TypeOK
      <4> QED
        BY <4>1, <4>2
    <3>4. reply' \in [Call -> Reply]
      BY <1>1, <2>3, TypeFacts, Zenon DEF TypeOK, ClientHandlePushReplicaOutput
    <3> QED
      BY <1>1, <2>3, <3>2, <3>3, <3>4, Zenon DEF TypeOK, ClientHandlePushReplicaOutput, serverVars
  <2> QED
    BY <2>2, <2>3
<1>3. \A d \in Call : d # c => Same(d)
  BY <1>1, SMTT(30) DEF TypeOK, Same, ClientHandlePushReplicaOutput, serverVars, CallDesc, Reply, NoReply, Data
<1>4. down \subseteq down'
  BY DEF ClientHandlePushReplicaOutput, serverVars, CallDesc, Reply, NoReply, Data
<1>5. CallInv(c)'
  <2>1. pc[c] = "wait" /\ reply[c] # NoReply /\ InHandler(c) /\ Desc[c].from \notin down
    BY <1>1, Zenon DEF ClientHandlePushReplicaOutput, CallInv, Client
  <2>2. CASE ~Loadable(c)
    <3>1. Same(c)
      BY <2>2, Zenon DEF ClientHandlePushReplicaOutput, serverVars, Same
    <3> QED
      BY <1>1, <1>4, <3>1, FrameInv, Zenon
  <2>3. CASE Loadable(c)
    <3>1. /\ pc'[c] = "call" /\ hop'[c] = hop[c] + 1 /\ reply'[c] = NoReply
          /\ out' = (IF Desc[c].outputs THEN [out EXCEPT ![c][Slot(c)] = reply[c]] ELSE out)
          /\ params' = params /\ buf' = buf /\ srv' = srv /\ replica' = replica /\ ran' = ran
      BY <1>1, <2>3 DEF TypeOK, ClientHandlePushReplicaOutput, serverVars
    <3>9. /\ srv[c] = "none" /\ replica[c] = "none" /\ (~IsGet(c) => Filled(c)) /\ Loaded(c)
          /\ hop[c] \in 1..Len(To[c])
          /\ \/ /\ After(c)
                /\ Desc[c].outputs => reply[c] = Output(c, At(c))
                /\ IsGet(c) => buf[c] = At(c)
             \/ At(c) \notin Desc[c].has /\ Before(c) /\ ~Desc[c].outputs
      BY <2>1, <2>3, ToShape, Zenon DEF InHandler, Loadable
    <3>2. /\ srv[c] = "none" /\ replica[c] = "none" /\ After(c)
          /\ Desc[c].outputs => reply[c] = Output(c, At(c))
          /\ IsGet(c) => buf[c] = At(c)
          /\ ~IsGet(c) => Filled(c)
          /\ hop[c] \in 1..Len(To[c]) /\ Loaded(c)
      BY <1>1, <3>9, SkipHere, Zenon DEF IsGet
    <3>3. hop[c] \in Nat /\ hop'[c] - 1 = hop[c] /\ hop'[c] > 1 /\ Len(To[c]) \in Nat
      BY <3>1, <3>2, ToShape
    <3>4. Loaded(c)'
      <4>1. SUFFICES ASSUME Desc[c].outputs PROVE Loaded(c)'
        BY Zenon DEF Loaded
      <4>2. PICK f : f = out[c]
        OBVIOUS
      <4>3. out'[c] = [f EXCEPT ![Slot(c)] = Output(c, To[c][hop[c]])]
        BY <1>1, <3>1, <3>2, <4>1, <4>2, Zenon DEF TypeOK, At
      <4>4. CASE Desc[c].replicated
        <5>1. /\ DOMAIN f = 1..Len(To[c]) /\ Slot(c) = hop[c]
              /\ \A i \in 1..hop[c]-1 : f[i] = Output(c, To[c][i])
          BY <3>2, <4>1, <4>2, <4>4, Zenon DEF Loaded, Slot
        <5>2. DOMAIN out'[c] = 1..Len(To[c])
          BY <4>3, <5>1, Zenon
        <5>3. \A i \in 1..hop[c] : out'[c][i] = Output(c, To[c][i])
          BY <3>2, <3>3, <4>3, <5>1
        <5> QED
          BY <3>3, <4>4, <5>2, <5>3 DEF Loaded, Output
      <4>5. CASE ~Desc[c].replicated
        <5>1. DOMAIN f = {1} /\ Slot(c) = 1
          BY <3>2, <4>1, <4>2, <4>5, Zenon DEF Loaded, Slot
        <5>2. DOMAIN out'[c] = {1} /\ out'[c][1] = Output(c, To[c][hop[c]])
          BY <4>3, <5>1, Zenon
        <5> QED
          BY <3>3, <4>5, <5>2 DEF Loaded, Output
      <4> QED
        BY <4>4, <4>5
    <3>5. Filled(c)'
      BY <3>1, <3>2, <3>3 DEF Filled, IsGet, At
    <3>6. Before(c)'
      <4>1. RanSet(c)' = RanSet(c)
        BY <3>1, Zenon DEF RanSet
      <4> QED
        BY <3>2, <3>3, <4>1, Zenon DEF Before, After, Through
    <3>7. Between(c)'
      BY <3>1, <3>2, <3>4, <3>5, <3>6, Zenon DEF Between
    <3>8. Stuck(c)'
      <4>1. null' = null
        BY <2>3, Zenon DEF ClientHandlePushReplicaOutput, serverVars
      <4> QED
        BY <1>1, <2>3, <4>1, Zenon DEF Stuck, CallInv, Loadable
    <3> QED
      BY <1>1, <2>1, <3>1, <3>2, <3>3, <3>7, <3>8 DEF CallInv
  <2> QED
    BY <2>2, <2>3
<1> QED
  BY <1>2, <1>3, <1>4, <1>5, FrameInv DEF IndInv

\* The task completes when the last reply has been loaded.
LEMMA ReplicaEndStep ==
  ASSUME IndInv, NEW c \in Call, ClientHandlePushReplicaEnd(c)
  PROVE  IndInv'
<1>1. TypeOK /\ CallInv(c)
  BY DEF IndInv
<1>2. TypeOK'
  BY <1>1, ToShape, RemoteAssumption, Zenon DEF TypeOK, ClientHandlePushReplicaEnd, serverVars
<1>3. \A d \in Call : d # c => Same(d)
  BY <1>1, Zenon DEF TypeOK, Same, ClientHandlePushReplicaEnd, serverVars
<1>4. down \subseteq down'
  BY DEF ClientHandlePushReplicaEnd, serverVars
<1>5. CallInv(c)'
  <2>1. /\ pc[c] = "call" /\ pc'[c] = "done" /\ hop' = hop /\ params' = params /\ out' = out
        /\ srv' = srv /\ replica' = replica /\ reply' = reply /\ ran' = ran /\ buf' = buf
        /\ hop[c] > Len(To[c])
    BY <1>1, Zenon DEF TypeOK, ClientHandlePushReplicaEnd, serverVars, AllCalled
  <2>2. Between(c) /\ hop[c] <= Len(To[c]) + 1 /\ hop[c] \in Nat /\ params[c] = Desc[c].flags
    BY <1>1, <2>1, RemoteAssumption DEF CallInv, TypeOK
  <2>3. Between(c)'
    BY <2>1, <2>2, SameRun, SameFilled, Zenon DEF Between, Loaded, Output
  <2>4. Stuck(c)'
    BY <1>1, <2>1, Zenon DEF CallInv, Stuck, ClientHandlePushReplicaEnd, serverVars
  <2> QED
    BY <2>1, <2>2, <2>3, <2>4, ToShape DEF CallInv
<1> QED
  BY <1>2, <1>3, <1>4, <1>5, FrameInv DEF IndInv

-----------------------------------------------------------------------------
\* Steps of the called node.

\* RpcPush: the handler has the data the caller had.
LEMMA RpcPushStep ==
  ASSUME IndInv, NEW c \in Call, RpcPush(c)
  PROVE  IndInv'
<1>1. TypeOK /\ CallInv(c)
  BY DEF IndInv
<1>2. TypeOK'
  <2>1. /\ srv' = [srv EXCEPT ![c] = "exec"]
        /\ \E v \in Data : data' = [data EXCEPT ![c] = v]
    BY <1>1, TypeFacts, ZenonT(30) DEF TypeOK, RpcPush, Fetched
  <2> QED
    BY <1>1, <2>1, SMTT(30) DEF TypeOK, RpcPush, clientVars
<1>3. \A d \in Call : d # c => Same(d)
  BY <1>1 DEF TypeOK, Same, RpcPush, clientVars, Server
<1>4. down \subseteq down'
  BY DEF RpcPush, clientVars, Server
<1>5. CallInv(c)'
  <2>1. /\ srv[c] = "recv" /\ srv'[c] = "exec" /\ pc' = pc /\ hop' = hop /\ flags' = flags
        /\ params' = params /\ out' = out /\ buf' = buf /\ replica' = replica /\ rflags' = rflags
        /\ reply' = reply /\ ran' = ran /\ down' = down
        /\ data'[c] = CASE Desc[c].kind = "write" -> Fetched(c)
                       [] Desc[c].kind = "read"  -> Junk
                       [] OTHER                  -> NoData
    BY <1>1 DEF TypeOK, RpcPush, clientVars, Server
  <2>2. pc[c] = "wait" /\ InHandler(c) /\ params[c] = Desc[c].flags /\ hop[c] <= Len(To[c]) + 1
    BY <1>1, <2>1, Zenon DEF TypeOK, CallInv, Between
  <2>3. Filled(c) /\ Loaded(c)
    BY <2>1, <2>2 DEF InHandler
  <2>4. Filled(c)' /\ Loaded(c)' /\ Before(c)'
    <3>1. Before(c)
      BY <2>1, <2>2 DEF InHandler
    <3> QED
      BY <2>1, <2>3, <3>1, SameRun, SameFilled, Zenon DEF Loaded, Output
  <2>5. Received(c)'
    BY <2>1, <2>3 DEF Received, Fetched, Filled
  <2>6. Stuck(c)'
    BY <1>1, <2>1, Zenon DEF CallInv, Stuck, RpcPush
  <2>9. InHandler(c)'
    BY <2>1, <2>2, <2>4, <2>5 DEF InHandler
  <2> QED
    BY <2>1, <2>2, <2>6, <2>9 DEF CallInv
<1> QED
  BY <1>2, <1>3, <1>4, <1>5, FrameInv DEF IndInv

\* RpcExec: the replica starts without the flags that are unset.
LEMMA RpcExecStep ==
  ASSUME IndInv, NEW c \in Call, RpcExec(c)
  PROVE  IndInv'
<1>1. TypeOK /\ CallInv(c)
  BY DEF IndInv
<1>2. TypeOK'
  <2>1. pc[c] = "wait" /\ InHandler(c) /\ hop[c] \in 1..NumNodes
    BY <1>1, Serving, Zenon DEF RpcExec, Server
  <2>2. kept' \subseteq ({"start", "replica", "end"} \X Call \X (0..NumNodes))
    BY <1>1, <2>1, TypeFacts, SMTT(30) DEF TypeOK, RpcExec
  <2> QED
    BY <1>1, <2>2, Zenon DEF TypeOK, RpcExec, RemoteFlags, clientVars
<1>3. \A d \in Call : d # c => Same(d)
  BY <1>1, Zenon DEF TypeOK, Same, RpcExec, clientVars, Server
<1>4. down \subseteq down'
  BY Zenon DEF RpcExec, clientVars, Server
<1>5. CallInv(c)'
  <2>1. /\ srv[c] = "exec" /\ srv'[c] = "wait" /\ pc' = pc /\ hop' = hop /\ flags' = flags
        /\ params' = params /\ out' = out /\ buf' = buf /\ replica'[c] = "queued"
        /\ rflags'[c] = RemoteFlags(rflags[c])
        /\ reply' = reply /\ ran' = ran /\ down' = down /\ data' = data
    BY <1>1, Zenon DEF TypeOK, RpcExec, clientVars, Server
  <2>2. pc[c] = "wait" /\ InHandler(c) /\ params[c] = Desc[c].flags /\ hop[c] <= Len(To[c]) + 1
    BY <1>1, <2>1, Zenon DEF TypeOK, CallInv, Between
  <2>3. Filled(c) /\ Loaded(c) /\ Received(c) /\ Before(c) /\ reply[c] = NoReply
    BY <2>1, <2>2, Zenon DEF InHandler
  <2>4. Filled(c)' /\ Loaded(c)' /\ Received(c)' /\ Before(c)'
    BY <2>1, <2>3, SameRun, SameFilled, Zenon DEF Loaded, Received, Output
  <2>5. rflags'[c] = Desc[c].flags \cap {"coroutine"}
    <3>1. rflags[c] = Desc[c].flags
      BY <2>1, <2>2, Zenon DEF InHandler
    <3>2. Desc[c].flags \subseteq {"faf", "started", "long_running", "coroutine"}
      BY RemoteAssumption, Zenon DEF CallDesc, Flag
    <3> QED
      BY <2>1, <3>1, <3>2, Zenon DEF RemoteFlags
  <2>6. Stuck(c)'
    BY <1>1, <2>1, Zenon DEF CallInv, Stuck, RpcExec
  <2>7. (At(c) \in Desc[c].has)' /\ (hop[c] \in DOMAIN To[c])'
    BY <2>1, <2>2, Zenon DEF RpcExec, At, InHandler
  <2>9. InHandler(c)'
    BY <2>1, <2>3, <2>4, <2>5, <2>7, Zenon DEF InHandler
  <2> QED
    BY <2>1, <2>2, <2>6, <2>9, Zenon DEF CallInv
<1> QED
  BY <1>2, <1>3, <1>4, <1>5, FrameInv DEF IndInv

\* A handler without task state answers nothing that can be loaded.
LEMMA RpcExecNoStateStep ==
  ASSUME IndInv, NEW c \in Call, RpcExecNoState(c)
  PROVE  IndInv'
<1>1. TypeOK /\ CallInv(c)
  BY DEF IndInv
<1>2. TypeOK'
  <2>1. At(c) \in Node
    BY <1>1, Serving DEF RpcExecNoState, Server
  <2>2. null' \subseteq Call \X Node
    BY <1>1, <2>1, SMT DEF TypeOK, RpcExecNoState
  <2> QED
    BY <1>1, <2>2, TypeFacts, Zenon DEF TypeOK, RpcExecNoState, clientVars
<1>3. \A d \in Call : d # c => Same(d)
  BY <1>1, Zenon DEF TypeOK, Same, RpcExecNoState, clientVars
<1>4. down \subseteq down'
  BY Zenon DEF RpcExecNoState
<1>5. CallInv(c)'
  <2>1. /\ srv[c] = "exec" /\ srv'[c] = "none" /\ pc' = pc /\ hop' = hop /\ flags' = flags
        /\ params' = params /\ out' = out /\ buf' = buf /\ replica' = replica
        /\ reply'[c] = Empty /\ ran' = ran /\ down' = down /\ At(c) \notin Desc[c].has
    BY <1>1, Zenon DEF TypeOK, RpcExecNoState, clientVars, Server
  <2>2. pc[c] = "wait" /\ InHandler(c) /\ params[c] = Desc[c].flags /\ hop[c] <= Len(To[c]) + 1
    BY <1>1, <2>1, Zenon DEF TypeOK, CallInv, Between
  <2>3. Filled(c) /\ Loaded(c) /\ Before(c) /\ replica[c] = "none" /\ hop[c] \in DOMAIN To[c]
    BY <2>1, <2>2, Zenon DEF InHandler
  <2>4. Filled(c)' /\ Loaded(c)' /\ Before(c)' /\ (At(c) \notin Desc[c].has)'
    BY <2>1, <2>3, SameRun, SameFilled, Zenon DEF Loaded, Output, At
  <2>5. InHandler(c)'
    BY <2>1, <2>3, <2>4, Zenon DEF InHandler
  <2>6. Stuck(c)'
    BY <2>1, <2>2, Zenon DEF Stuck
  <2> QED
    BY <2>1, <2>2, <2>5, <2>6, Zenon DEF CallInv
<1> QED
  BY <1>2, <1>3, <1>4, <1>5, FrameInv DEF IndInv

\* The null exec ends the process of the called node. The buffer it may have
\* written into is one whose call cannot complete, or has no outputs.
LEMMA RpcCompleteNoStateStep ==
  ASSUME IndInv, NEW c \in Call, RpcCompleteNoState(c)
  PROVE  IndInv'
<1>1. TypeOK /\ CallInv(c)
  BY DEF IndInv
<1>2. PICK n \in Node \ down :
        /\ <<c, n>> \in null /\ null' = null \ {<<c, n>>} /\ down' = down \cup {n}
        /\ buf' = buf \/ (Desc[c].kind = "read" /\ buf' = [buf EXCEPT ![c] = Junk])
        /\ UNCHANGED <<clientVars, srv, data, replica, rflags, ran, reply, kept>>
  BY Zenon DEF RpcCompleteNoState
<1>3. TypeOK'
  <2>1. null' \subseteq Call \X Node /\ down' \subseteq Node
    BY <1>1, <1>2, Zenon DEF TypeOK
  <2>2. buf' \in [Call -> Data]
    <3>1. buf \in [Call -> Data] /\ Junk \in Data
      BY <1>1, TypeFacts, Zenon DEF TypeOK
    <3> QED
      BY <1>2, <3>1, SMT
  <2> QED
    BY <1>1, <1>2, <2>1, <2>2, Zenon DEF TypeOK, clientVars
<1>4. \A d \in Call : d # c => Same(d)
  BY <1>1, <1>2, Zenon DEF TypeOK, Same, clientVars
<1>5. down \subseteq down'
  BY <1>2, Zenon
<1>6. CallInv(c)'
  <2>1. CASE buf' = buf
    <3>1. Same(c)
      BY <1>2, <2>1, Zenon DEF Same, clientVars
    <3> QED
      BY <1>1, <1>5, <3>1, FrameInv, Zenon
  <2>2. CASE Desc[c].kind = "read"
    <3>1. /\ srv' = srv /\ pc' = pc /\ hop' = hop /\ flags' = flags /\ params' = params
          /\ out' = out /\ replica' = replica /\ reply' = reply /\ ran' = ran /\ data' = data
          /\ rflags' = rflags
      BY <1>2, Zenon DEF clientVars
    <3>2. (Loaded(c)' <=> Loaded(c)) /\ At(c)' = At(c) /\ (IsGet(c)' <=> IsGet(c))
      BY <3>1, Zenon DEF Loaded, Output, At, IsGet
    <3>3. /\ Before(c)' <=> Before(c)
          /\ After(c)' <=> After(c)
          /\ Through(c, 0)' <=> Through(c, 0)
      BY <3>1, SameRun, Zenon
    <3>4. Stuck(c)'
      BY <1>1, <1>2, <3>1, Zenon DEF CallInv, Stuck
    <3>5. CASE ~Desc[c].outputs
      <4>1. Filled(c)' /\ ~IsGet(c) /\ ~IsGet(c)'
        BY <2>2, <3>5, Zenon DEF Filled, IsGet
      <4>2. Received(c) => Received(c)'
        BY <1>5, <3>1, Zenon DEF Received
      <4>3. Computed(c) => Computed(c)'
        BY <1>5, <3>1, <3>2, Zenon DEF Computed, Output
      <4>4. Between(c) => Between(c)'
        BY <3>1, <3>2, <3>3, <4>1, Zenon DEF Between
      <4>5. InHandler(c) => InHandler(c)'
        BY <3>1, <3>2, <3>3, <3>5, <4>1, <4>2, <4>3, Zenon DEF InHandler
      <4> QED
        BY <1>1, <3>1, <3>3, <3>4, <4>1, <4>4, <4>5, Zenon DEF CallInv
    <3>6. CASE Desc[c].outputs
      <4>1. /\ pc[c] = "wait" /\ reply[c] = Empty /\ params[c] = Desc[c].flags
            /\ InHandler(c) /\ hop[c] <= Len(To[c]) + 1
        BY <1>1, <1>2, <3>6, Zenon DEF CallInv, Stuck
      <4>2. At(c) # 0 /\ Empty.node = 0 /\ Empty # NoReply
        <5>1. At(c) \in Node
          BY <4>1, ToShape, Zenon DEF InHandler, At
        <5> QED
          BY <5>1, TypeFacts DEF Node, Empty, NoReply, Junk, NoData
      <4>3. /\ srv[c] = "none" /\ replica[c] = "none" /\ At(c) \notin Desc[c].has /\ Before(c)
            /\ Loaded(c) /\ hop[c] \in DOMAIN To[c]
        BY <3>6, <4>1, <4>2, Zenon DEF InHandler
      <4>4. IsGet(c)'
        BY <2>2, <3>6, Zenon DEF IsGet
      <4>5. InHandler(c)'
        BY <3>1, <3>2, <3>3, <4>1, <4>3, <4>4, Zenon DEF InHandler
      <4> QED
        BY <3>1, <3>4, <4>1, <4>5, Zenon DEF CallInv
    <3> QED
      BY <3>5, <3>6, Zenon
  <2> QED
    BY <1>2, <2>1, <2>2, Zenon
<1> QED
  BY <1>3, <1>4, <1>5, <1>6, FrameInv, Zenon DEF IndInv

\* The worker of the called node runs the replica, which is not fire and forget.
LEMMA WorkerRunStep ==
  ASSUME IndInv, NEW c \in Call, WorkerRun(c)
  PROVE  IndInv'
<1>1. TypeOK /\ CallInv(c)
  BY DEF IndInv
<1>2. TypeOK'
  <2>1. At(c) \in Node
    BY <1>1, ToShape, Zenon DEF WorkerRun, CallInv, Between, InHandler, At, TypeOK
  <2>2. ran[c] \in Seq(Node)
    BY <1>1, Zenon DEF TypeOK
  <2>3. ran' \in [Call -> Seq(Node)]
    BY <1>1, <2>1, <2>2 DEF TypeOK, WorkerRun
  <2>4. data' \in [Call -> Data]
    BY <1>1, <2>1, TypeFacts, Zenon DEF TypeOK, WorkerRun
  <2> QED
    BY <1>1, <2>3, <2>4, Zenon DEF TypeOK, WorkerRun, clientVars
<1>3. \A d \in Call : d # c => Same(d)
  BY <1>1, Zenon DEF TypeOK, Same, WorkerRun, clientVars
<1>4. down \subseteq down'
  BY Zenon DEF WorkerRun, clientVars
<1>5. CallInv(c)'
  <2>1. /\ replica[c] = "queued" /\ pc[c] = "wait" /\ InHandler(c) /\ hop[c] \in DOMAIN To[c]
        /\ params[c] = Desc[c].flags /\ hop[c] <= Len(To[c]) + 1
    BY <1>1, ZenonT(30) DEF TypeOK, CallInv, Between, InHandler, WorkerRun
  <2>2. /\ srv[c] = "wait" /\ reply[c] = NoReply /\ rflags[c] = Desc[c].flags \cap {"coroutine"}
        /\ Before(c) /\ Filled(c) /\ Loaded(c) /\ Received(c) /\ At(c) \in Desc[c].has
    BY <2>1, Zenon DEF InHandler
  <2>3. /\ replica'[c] = "complete" /\ pc' = pc /\ hop' = hop /\ params' = params /\ out' = out
        /\ srv' = srv /\ buf' = buf /\ reply' = reply /\ down' = down
        /\ ran'[c] = Append(ran[c], At(c))
        /\ data'[c] = IF Desc[c].kind = "read" THEN At(c) ELSE data[c]
    BY <1>1, <2>2, Zenon DEF TypeOK, WorkerRun, clientVars
  <2>4. After(c)'
    BY <1>1, <2>1, <2>2, <2>3, ToShape, RunHere, Zenon
  <2>5. Filled(c)' /\ Loaded(c)'
    BY <2>2, <2>3, SameFilled, Zenon DEF Loaded, Output
  <2>7. Stuck(c)'
    BY <1>1, <2>3, Zenon DEF CallInv, Stuck, WorkerRun
  <2>6. Computed(c)'
    BY <2>2, <2>3, RemoteAssumption, Zenon DEF Computed, Received, Output, At, CallDesc
  <2>9. InHandler(c)'
    BY <2>1, <2>2, <2>3, <2>4, <2>5, <2>6, ZenonT(30) DEF InHandler
  <2> QED
    BY <2>1, <2>3, <2>7, <2>9, Zenon DEF CallInv
<1> QED
  BY <1>2, <1>3, <1>4, <1>5, FrameInv DEF IndInv

\* The handler goes on when the replica is complete; a read returns its data.
LEMMA RpcPushEndStep ==
  ASSUME IndInv, NEW c \in Call, RpcPushEnd(c)
  PROVE  IndInv'
<1>1. TypeOK /\ CallInv(c)
  BY DEF IndInv
<1>2. TypeOK'
  <2>1. data[c] \in Data
    BY <1>1, Zenon DEF TypeOK
  <2> QED
    BY <1>1, <2>1, Zenon DEF TypeOK, RpcPushEnd, clientVars
<1>3. \A d \in Call : d # c => Same(d)
  BY <1>1, Zenon DEF TypeOK, Same, RpcPushEnd, clientVars, Server, Waited
<1>4. down \subseteq down'
  BY Zenon DEF RpcPushEnd, clientVars, Server, Waited
<1>5. CallInv(c)'
  <2>1. /\ srv[c] = "wait" /\ srv'[c] = "save" /\ pc' = pc /\ hop' = hop /\ flags' = flags
        /\ params' = params /\ out' = out /\ replica[c] = "complete" /\ replica' = replica
        /\ reply' = reply /\ ran' = ran /\ down' = down /\ data' = data
        /\ buf'[c] = IF Desc[c].kind = "read" THEN data[c] ELSE buf[c]
    BY <1>1, Zenon DEF TypeOK, RpcPushEnd, clientVars, Server, Waited
  <2>2. pc[c] = "wait" /\ InHandler(c) /\ params[c] = Desc[c].flags /\ hop[c] <= Len(To[c]) + 1
    BY <1>1, <2>1, Zenon DEF TypeOK, CallInv, Between
  <2>3. /\ Filled(c) /\ Loaded(c) /\ Computed(c) /\ After(c) /\ reply[c] = NoReply
        /\ hop[c] \in DOMAIN To[c]
    BY <2>1, <2>2, Zenon DEF InHandler
  <2>4. Loaded(c)' /\ Computed(c)' /\ After(c)'
    BY <2>1, <2>3, SameRun, Zenon DEF Loaded, Computed, Output, At
  <2>5. (~IsGet(c) => Filled(c))' /\ (IsGet(c) => buf[c] = data[c])'
    BY <2>1, <2>3, Zenon DEF Filled, IsGet
  <2>6. Stuck(c)'
    BY <1>1, <2>1, Zenon DEF CallInv, Stuck, RpcPushEnd
  <2>9. InHandler(c)'
    BY <2>1, <2>3, <2>4, <2>5, Zenon DEF InHandler
  <2> QED
    BY <2>1, <2>2, <2>6, <2>9, Zenon DEF CallInv
<1> QED
  BY <1>2, <1>3, <1>4, <1>5, FrameInv DEF IndInv

\* RpcComplete: the reply is the output of the replica, which is then gone.
LEMMA RpcCompleteStep ==
  ASSUME IndInv, NEW c \in Call, RpcComplete(c)
  PROVE  IndInv'
<1>1. TypeOK /\ CallInv(c)
  BY DEF IndInv
<1>2. TypeOK'
  <2>1. At(c) \in Node /\ hop[c] \in 1..NumNodes
    BY <1>1, Serving, Zenon DEF RpcComplete, Server
  <2>2. data[c] \in Data
    BY <1>1, Zenon DEF TypeOK
  <2>3. SaveEnd(c) \in Reply
    BY <2>1, <2>2, TypeFacts, Zenon DEF SaveEnd, Reply
  <2>4. kept' \subseteq ({"start", "replica", "end"} \X Call \X (0..NumNodes))
    <3>1. 0..NumNodes = {0} \cup 1..NumNodes
      BY TypeFacts
    <3>2. <<"end", c, hop[c]>> \in ({"start", "replica", "end"} \X Call \X (0..NumNodes))
      BY <2>1, <3>1, Zenon
    <3>3. kept' \subseteq kept \cup {<<"end", c, hop[c]>>}
      BY Zenon DEF RpcComplete
    <3>4. kept \subseteq ({"start", "replica", "end"} \X Call \X (0..NumNodes))
      BY <1>1, Zenon DEF TypeOK
    <3> QED
      BY <3>2, <3>3, <3>4, Zenon
  <2> QED
    BY <1>1, <2>3, <2>4, Zenon DEF TypeOK, RpcComplete, clientVars
<1>3. \A d \in Call : d # c => Same(d)
  BY <1>1, Zenon DEF TypeOK, Same, RpcComplete, clientVars, Server
<1>4. down \subseteq down'
  BY Zenon DEF RpcComplete, clientVars, Server
<1>5. CallInv(c)'
  <2>1. /\ srv[c] = "save" /\ srv'[c] = "none" /\ pc' = pc /\ hop' = hop /\ flags' = flags
        /\ params' = params /\ out' = out /\ replica'[c] = "none"
        /\ reply'[c] = SaveEnd(c) /\ ran' = ran /\ down' = down /\ data' = data /\ buf' = buf
    BY <1>1, Zenon DEF TypeOK, RpcComplete, clientVars, Server
  <2>2. pc[c] = "wait" /\ InHandler(c) /\ params[c] = Desc[c].flags /\ hop[c] <= Len(To[c]) + 1
    BY <1>1, <2>1, Zenon DEF TypeOK, CallInv, Between
  <2>3. /\ Loaded(c) /\ Computed(c) /\ (IsGet(c) => buf[c] = data[c])
        /\ (~IsGet(c) => Filled(c)) /\ After(c) /\ hop[c] \in DOMAIN To[c]
    BY <2>1, <2>2, Zenon DEF InHandler
  <2>4. Loaded(c)' /\ (~IsGet(c) => Filled(c))' /\ At(c)' = At(c) /\ After(c)' /\ (IsGet(c)' <=> IsGet(c))
    BY <2>1, <2>3, SameRun, SameFilled, Zenon DEF Loaded, Output, At
  <2>5. IF Desc[c].outputs
        THEN reply'[c].node = At(c) /\ (Desc[c].from \in down \/ reply'[c] = Output(c, At(c)))
        ELSE reply'[c] = Empty
    BY <2>1, <2>3 DEF SaveEnd, Computed, Output
  <2>6. IsGet(c) => Desc[c].from \in down \/ buf'[c] = At(c)
    BY <2>1, <2>3 DEF Computed, Output, IsGet
  <2>7. Stuck(c)'
    <3>1. null' = null /\ reply[c] = NoReply
      BY <2>1, <2>2, Zenon DEF RpcComplete, InHandler
    <3>2. NoReply # Empty
      BY DEF NoReply, Empty, NoData, Junk
    <3> QED
      BY <1>1, <3>1, <3>2, Zenon DEF CallInv, Stuck
  <2>9. InHandler(c)'
    BY <2>1, <2>3, <2>4, <2>5, <2>6, Zenon DEF InHandler, Output
  <2> QED
    BY <2>1, <2>2, <2>7, <2>9, Zenon DEF CallInv
<1> QED
  BY <1>2, <1>3, <1>4, <1>5, FrameInv DEF IndInv

-----------------------------------------------------------------------------
\* The theorems.

\* The invariant holds at the start and every step of either side keeps it.
THEOREM RemoteInductive == Spec => []IndInv
<1>1. Init => IndInv
  <2> SUFFICES ASSUME Init PROVE IndInv
    OBVIOUS
  <2>1. TypeOK
    BY TypeFacts DEF Init, TypeOK, CallDesc
  <2>2. ASSUME NEW c \in Call PROVE CallInv(c)
    <3>1. /\ pc[c] = "idle" /\ hop[c] = 1 /\ flags[c] = Desc[c].flags /\ ran[c] = << >>
          /\ srv[c] = "none" /\ replica[c] = "none" /\ reply[c] = NoReply
          /\ buf[c] = IF Desc[c].kind = "small" THEN NoData ELSE Orig
          /\ null = {}
      BY Zenon DEF Init
    <3>2. Filled(c) /\ hop[c] <= Len(To[c]) + 1
      BY <3>1, ToShape, SMT DEF Filled
    <3>3. Through(c, 0)
      <4>1. DOMAIN ran[c] = {} /\ 1..0 = {}
        BY <3>1, SMT
      <4> QED
        BY <4>1, Zenon DEF Through, RanSet
    <3>4. Stuck(c)
      BY <3>1, Zenon DEF Stuck
    <3> QED
      BY <3>1, <3>2, <3>3, <3>4, SMT DEF CallInv
  <2> QED
    BY <2>1, <2>2 DEF IndInv
<1>2. IndInv /\ [Next]_vars => IndInv'
  <2> SUFFICES ASSUME IndInv, [Next]_vars PROVE IndInv'
    OBVIOUS
  <2>1. CASE UNCHANGED vars
    <3>1. TypeOK'
      BY <2>1, Zenon DEF IndInv, TypeOK, vars
    <3>2. \A c \in Call : Same(c)
      BY <2>1, Zenon DEF Same, vars
    <3>3. down \subseteq down'
      BY <2>1, Zenon DEF vars
    <3> QED
      BY <3>1, <3>2, <3>3, FrameInv, SMTT(30) DEF IndInv
  <2>2. ASSUME NEW c \in Call, ClientNext(c) PROVE IndInv'
    BY <2>2, DisperseStep, DisableRunStep, SyncCallStep, ReplicaOutputStep, ReplicaEndStep, Zenon
       DEF ClientNext
  <2>3. ASSUME NEW c \in Call, ServerNext(c) PROVE IndInv'
    BY <2>3, RpcPushStep, RpcExecStep, RpcExecNoStateStep, RpcCompleteNoStateStep,
       WorkerRunStep, RpcPushEndStep, RpcCompleteStep
       DEF ServerNext
  <2> QED
    BY <2>1, <2>2, <2>3, CallFailsStep DEF Next
<1> QED
  BY <1>1, <1>2, PTL DEF Spec

\* The state of remote_queue is well typed, whatever tasks are dispersed.
THEOREM RemoteTypes == Spec => []TypeOK
<1>1. IndInv => TypeOK
  BY SMTT(30) DEF IndInv
<1> QED
  BY <1>1, RemoteInductive, PTL

\* RpcExec clears TASK_FIRE_AND_FORGET before the worker sees the replica: the
\* RPC handler never touches a deleted one.
THEOREM ReplicasStayAlive == Spec => []ReplicaAlive
<1>1. IndInv => ReplicaAlive
  <2> SUFFICES ASSUME IndInv, NEW c \in Call, srv[c] \in {"wait", "save"}
               PROVE  replica[c] \in {"queued", "complete"}
    BY Zenon DEF ReplicaAlive
  <2>1. CallInv(c) /\ pc[c] \in {"idle", "call", "wait", "done"}
    BY Zenon DEF IndInv, TypeOK
  <2> QED
    BY <2>1, Zenon DEF CallInv, Between, InHandler
<1> QED
  BY <1>1, RemoteInductive, PTL

\* Disperse serialises before the worker changes the flags: every replica
\* starts with the flags its task was created with, less the ones RpcExec
\* clears.
THEOREM ReplicasStartFresh == Spec => []ReplicaFresh
<1>1. IndInv => ReplicaFresh
  <2> SUFFICES ASSUME IndInv, NEW c \in Call, replica[c] = "queued"
               PROVE  rflags[c] = Desc[c].flags \cap {"coroutine"}
    BY Zenon DEF ReplicaFresh
  <2>1. CallInv(c) /\ pc[c] \in {"idle", "call", "wait", "done"}
    BY Zenon DEF IndInv, TypeOK
  <2> QED
    BY <2>1, ZenonT(30) DEF CallInv, Between, InHandler
<1> QED
  BY <1>1, RemoteInductive, PTL

\* A sequence whose only index is 1 has length 1.
LEMMA OneElement ==
  ASSUME NEW n \in Nat, NEW D, D = 1..n, D = {1}
  PROVE  n = 1
<1>1. 1 \in D /\ 2 \notin D
  OBVIOUS
<1>2. 1 <= n /\ ~(2 <= n)
  BY <1>1
<1> QED
  BY <1>2

\* Every node's output is in its slot, computed from the caller's data, when a
\* dispersed task completes.
THEOREM OutputsAreThere == Spec => []OutputsOfAll
<1>1. IndInv => OutputsOfAll
  <2> SUFFICES ASSUME IndInv, NEW c \in Call, pc[c] = "done", Desc[c].outputs
               PROVE  LET last == Len(To[c])
                      IN  /\ IF Desc[c].replicated
                             THEN \A i \in 1..last : out[c][i] = Output(c, To[c][i])
                             ELSE out[c] = <<Output(c, To[c][last])>>
                          /\ Desc[c].kind = "read" => buf[c] = To[c][last]
    BY Zenon DEF OutputsOfAll
  <2>1. Loaded(c) /\ Filled(c) /\ hop[c] = Len(To[c]) + 1 /\ out[c] \in Seq(Reply)
    BY Zenon DEF IndInv, TypeOK, CallInv, Between
  <2>2. Len(To[c]) \in Nat /\ hop[c] - 1 = Len(To[c]) /\ hop[c] > 1
    BY <2>1, ToShape, TypeFacts
  <2>3. Desc[c].kind = "read" => buf[c] = To[c][Len(To[c])]
    BY <2>1, <2>2, Zenon DEF Filled, IsGet
  <2>4. CASE Desc[c].replicated
    BY <2>1, <2>2, <2>3, <2>4, Zenon DEF Loaded
  <2>5. CASE ~Desc[c].replicated
    <3>1. DOMAIN out[c] = {1} /\ out[c][1] = Output(c, To[c][Len(To[c])])
      BY <2>1, <2>2, <2>5, Zenon DEF Loaded
    <3>2. Len(out[c]) = 1
      <4>1. Len(out[c]) \in Nat /\ DOMAIN out[c] = 1..Len(out[c])
        BY <2>1
      <4> QED
        BY <3>1, <4>1, OneElement, Zenon
    <3>3. out[c] = <<Output(c, To[c][Len(To[c])])>>
      BY <2>1, <3>1, <3>2
    <3> QED
      BY <2>3, <2>5, <3>3, Zenon
  <2> QED
    BY <2>4, <2>5, Zenon
<1> QED
  BY <1>1, RemoteInductive, PTL

\* A replica that is not deleted belongs to the node being called.
Held ==
  \A c \in Call, h \in 1..NumNodes :
    <<"replica", c, h>> \in kept /\ ~Desc[c].construct => h = hop[c] /\ replica[c] # "none"

\* The entries of kept are told apart by their components.
LEMMA Entries ==
  \A c, d, h, i : /\ <<"replica", c, h>> # <<"start", d, i>> /\ <<"replica", c, h>> # <<"end", d, i>>
                  /\ <<"replica", c, h>> = <<"replica", d, i>> => c = d /\ h = i
OBVIOUS

\* A replica is made where the handler is, and the handler deletes it before its
\* caller goes on to the next node.
LEMMA HeldStep ==
  ASSUME IndInv, Held, NEW c \in Call, ClientNext(c) \/ ServerNext(c) \/ CallFails(c)
  PROVE  Held'
<1> DEFINE Keeps == /\ \A d \in Call, h \in 1..NumNodes : <<"replica", d, h>> \in kept' => <<"replica", d, h>> \in kept
                    /\ hop' = hop
                    /\ \A d \in Call : replica[d] # "none" => replica'[d] # "none"
<1>1. Keeps => Held'
  BY Zenon DEF Held
<1>2. TypeOK /\ CallInv(c)
  BY Zenon DEF IndInv
<1>3. CASE \/ Disperse(c) \/ DisableRun(c) \/ SyncCall(c) \/ CallFails(c) \/ ClientHandlePushReplicaEnd(c)
           \/ RpcPush(c) \/ RpcExecNoState(c) \/ RpcCompleteNoState(c) \/ RpcPushEnd(c)
  <2>1. replica' = replica /\ hop' = hop /\ kept' \subseteq kept \cup {<<"start", c, 0>>}
    BY <1>3, Zenon DEF Disperse, DisableRun, SyncCall, CallFails, ClientHandlePushReplicaEnd, RpcPush,
       RpcExecNoState, RpcCompleteNoState, RpcPushEnd, clientVars, serverVars
  <2>2. Keeps
    BY <2>1, Entries, Zenon
  <2> QED
    BY <1>1, <2>2, Zenon
<1>4. CASE WorkerRun(c)
  <2>1. kept' = kept /\ hop' = hop
    BY <1>4, Zenon DEF WorkerRun, clientVars
  <2>2. replica' = [replica EXCEPT ![c] = IF "faf" \in rflags[c] THEN "freed" ELSE "complete"]
    BY <1>4, Zenon DEF WorkerRun
  <2>3. \A d \in Call : replica[d] # "none" => replica'[d] # "none"
    BY <1>2, <2>2 DEF TypeOK
  <2> QED
    BY <1>1, <2>1, <2>3, Zenon
<1>5. CASE ClientHandlePushReplicaOutput(c)
  <2>1. kept' = kept /\ replica' = replica /\ pc[c] = "wait" /\ reply[c] # NoReply
    BY <1>5, Zenon DEF ClientHandlePushReplicaOutput, serverVars
  <2>2. replica[c] = "none"
    BY <1>2, <2>1, Zenon DEF CallInv, InHandler
  <2>3. \A d \in Call : d # c => hop'[d] = hop[d]
    BY <1>2, <1>5, Zenon DEF ClientHandlePushReplicaOutput, TypeOK
  <2> QED
    BY <2>1, <2>2, <2>3, Zenon DEF Held
<1>6. CASE RpcExec(c)
  <2>1. /\ kept' = kept \cup {<<"replica", c, hop[c]>>} /\ hop' = hop
        /\ replica' = [replica EXCEPT ![c] = "queued"]
    BY <1>6, Zenon DEF RpcExec, clientVars
  <2>2. replica'[c] # "none" /\ \A d \in Call : replica[d] # "none" => replica'[d] # "none"
    BY <1>2, <2>1 DEF TypeOK
  <2> QED
    BY <2>1, <2>2, Entries, Zenon DEF Held
<1>7. CASE RpcComplete(c)
  <2>1. /\ kept' \subseteq (kept \ Deleted(c)) \cup {<<"end", c, hop[c]>>} /\ hop' = hop
        /\ replica' = [replica EXCEPT ![c] = "none"]
    BY <1>7, Zenon DEF RpcComplete, clientVars
  <2>2. \A d \in Call : d # c => replica'[d] = replica[d]
    BY <1>2, <2>1, Zenon DEF TypeOK
  <2>3. \A d \in Call, h \in 1..NumNodes : <<"replica", d, h>> \in kept' => <<"replica", d, h>> \in kept \ Deleted(c)
    BY <2>1, Entries, Zenon
  <2>4. \A h \in 1..NumNodes : <<"replica", c, h>> \in kept' => Desc[c].construct
    BY <2>3, Zenon DEF Held, Deleted
  <2> QED
    BY <2>1, <2>2, <2>3, <2>4, Zenon DEF Held
<1> QED
  BY <1>3, <1>4, <1>5, <1>6, <1>7, Zenon DEF ClientNext, ServerNext

\* No replica outlives its call: every RpcExec is followed by the RpcComplete
\* that deletes what it made, except for creations.
THEOREM ReplicasFreed == Spec => []ReplicasDeleted
<1>1. Init => Held
  BY Zenon DEF Init, Held
<1>2. IndInv /\ Held /\ [Next]_vars => Held'
  <2> SUFFICES ASSUME IndInv, Held, [Next]_vars PROVE Held'
    OBVIOUS
  <2>1. CASE UNCHANGED vars
    BY <2>1, Zenon DEF vars, Held
  <2> QED
    BY <2>1, HeldStep, Zenon DEF Next
<1>3. IndInv /\ Held => ReplicasDeleted
  <2> SUFFICES ASSUME IndInv, Held PROVE ReplicasDeleted
    OBVIOUS
  <2>1. \A c \in Call : pc[c] = "done" => replica[c] = "none"
    BY Zenon DEF IndInv, CallInv, Between
  <2> QED
    BY <2>1, Zenon DEF Held, ReplicasDeleted
<1> QED
  BY <1>1, <1>2, <1>3, RemoteInductive, PTL DEF Spec

\* A step that leaves ran and the set of completed calls alone.
LEMMA QuietStep ==
  ASSUME ran' = ran, \A c \in Call : pc'[c] = "done" <=> pc[c] = "done"
  PROVE  UNCHANGED <<ran, {c \in Call : pc[c] = "done"}>>
  OBVIOUS

\* The threads of remote_queue implement RemoteCall: running a replica is its
\* RunNext, ClientHandlePushReplicaEnd its Finish, and every other step a
\* stutter.
THEOREM PromiseKept == Spec => KeepsPromise
<1> DEFINE done == {c \in Call : pc[c] = "done"}
<1>1. Init => Promise!Init
  BY Zenon DEF Init, Promise!Init
<1>2. IndInv /\ [Next]_vars => [Promise!Next]_<<ran, done>>
  <2> SUFFICES ASSUME IndInv, [Next]_vars PROVE [Promise!Next]_<<ran, done>>
    OBVIOUS
  <2> USE DEF IndInv
  <2>1. CASE UNCHANGED vars
    BY <2>1 DEF vars
  <2>2. ASSUME NEW c \in Call, WorkerRun(c) PROVE Promise!RunNext(c)
    <3>1. TypeOK /\ CallInv(c) /\ replica[c] = "queued"
      BY <2>2, Zenon DEF WorkerRun
    <3>2. pc[c] = "wait" /\ hop[c] \in DOMAIN To[c] /\ Before(c) /\ At(c) \in Desc[c].has
      <4>1. pc[c] = "wait" /\ InHandler(c)
        BY <3>1, Serving, Zenon
      <4> QED
        BY <3>1, <4>1, Zenon DEF InHandler
    <3>3. \A i \in 1..hop[c]-1 : To[c][i] \in Desc[c].has => To[c][i] \in RanSet(c)
      BY <3>2, Zenon DEF Before, Through
    <3>4. At(c) \notin RanSet(c)
      <4>1. \A i \in 1..hop[c]-1 : i \in 1..Len(To[c]) /\ i # hop[c]
        BY <3>2, ToShape
      <4>2. \A i \in 1..hop[c]-1 : To[c][i] # To[c][hop[c]]
        BY <3>2, <4>1, ToShape, Zenon
      <4> QED
        BY <3>2, <4>2, Zenon DEF Before, Through, At
    <3>5. RanSet(c) = Promise!Ran(c)
      BY Zenon DEF RanSet, Promise!Ran, Promise!Range
    <3>6. ran' = [ran EXCEPT ![c] = Append(ran[c], To[c][hop[c]])]
      BY <2>2, Zenon DEF WorkerRun, At
    <3>7. done' = done /\ c \notin done
      BY <2>2, <3>2, Zenon DEF WorkerRun, clientVars
    <3>8. [d \in Call |-> Desc[d].has][c] = Desc[c].has
      BY Zenon
    <3> QED
      BY <3>2, <3>3, <3>4, <3>5, <3>6, <3>7, <3>8, Zenon DEF Promise!RunNext, At
  <2>3. ASSUME NEW c \in Call, ClientHandlePushReplicaEnd(c) PROVE Promise!Finish(c)
    <3>1. TypeOK /\ CallInv(c) /\ pc[c] = "call" /\ hop[c] > Len(To[c])
      BY <2>3 DEF ClientHandlePushReplicaEnd, AllCalled
    <3>2. Before(c) /\ hop[c] - 1 = Len(To[c])
      <4>1. Before(c) /\ hop[c] <= Len(To[c]) + 1
        BY <3>1, Zenon DEF CallInv, Between
      <4>2. hop[c] \in Nat
        BY <3>1, TypeFacts DEF TypeOK
      <4> QED
        BY <3>1, <4>1, <4>2, ToShape
    <3>3. /\ RanSet(c) = {To[c][i] : i \in DOMAIN To[c]} \cap Desc[c].has
          /\ Desc[c].outputs => \A i \in DOMAIN To[c] : To[c][i] \in Desc[c].has
      BY <3>2, ToShape, Zenon DEF Before, Through
    <3>4. c \notin done /\ done' = done \cup {c}
      BY <2>3, <3>1, Zenon DEF ClientHandlePushReplicaEnd, TypeOK
    <3>5. ran' = ran
      BY <2>3 DEF ClientHandlePushReplicaEnd, serverVars
    <3>6. RanSet(c) = Promise!Ran(c) /\ {To[c][i] : i \in DOMAIN To[c]} = Promise!Range(To[c])
      BY Zenon DEF RanSet, Promise!Ran, Promise!Range
    <3>7. [d \in Call |-> Desc[d].has][c] = Desc[c].has /\ (c \in {d \in Call : Desc[d].outputs} <=> Desc[c].outputs)
      BY Zenon
    <3>8. Promise!Range(To[c]) \cap Desc[c].has \subseteq Promise!Ran(c)
      BY <3>3, <3>6, Zenon
    <3>9. Desc[c].outputs => Promise!Range(To[c]) \subseteq Desc[c].has
      BY <3>3, <3>6, Zenon
    <3> QED
      BY <3>4, <3>5, <3>7, <3>8, <3>9, Zenon DEF Promise!Finish
  <2>4. ASSUME NEW c \in Call,
               \/ Disperse(c) \/ DisableRun(c) \/ SyncCall(c) \/ CallFails(c)
               \/ ClientHandlePushReplicaOutput(c)
        PROVE  UNCHANGED <<ran, done>>
    <3>1. ran' = ran
      BY <2>4, Zenon DEF Disperse, DisableRun, SyncCall, CallFails, ClientHandlePushReplicaOutput,
                  serverVars
    <3>2. \A d \in Call : pc'[d] = "done" <=> pc[d] = "done"
      BY <2>4, Zenon DEF Disperse, DisableRun, SyncCall, CallFails, ClientHandlePushReplicaOutput,
                  clientVars, TypeOK
    <3> QED
      BY <3>1, <3>2, QuietStep, Zenon
  <2>5. ASSUME NEW c \in Call,
               \/ RpcPush(c) \/ RpcExec(c) \/ RpcExecNoState(c) \/ RpcCompleteNoState(c)
               \/ RpcPushEnd(c) \/ RpcComplete(c)
        PROVE  UNCHANGED <<ran, done>>
    <3>1. ran' = ran /\ pc' = pc
      BY <2>5, Zenon DEF RpcPush, RpcExec, RpcExecNoState, RpcCompleteNoState, RpcPushEnd,
                  RpcComplete, clientVars, serverVars
    <3> QED
      BY <3>1
  <2>6. ASSUME NEW c \in Call, ClientNext(c) \/ ServerNext(c) \/ CallFails(c)
        PROVE  Promise!Next \/ UNCHANGED <<ran, done>>
    BY <2>2, <2>3, <2>4, <2>5, <2>6, Zenon DEF ClientNext, ServerNext, Promise!Next
  <2> QED
    BY <2>1, <2>6, Zenon DEF Next
<1>3. Spec => Promise!Init /\ [][Promise!Next]_<<ran, done>>
  BY <1>1, <1>2, RemoteInductive, PTL DEF Spec
<1> QED
  BY <1>3, PTL DEF KeepsPromise, Promise!Spec
=============================================================================
