--------------------------- MODULE TaskLibProofs ----------------------------
(***************************************************************************)
(* For every number of nodes and every well-defined set of classes:        *)
(* handlers find their inputs, clients find the handlers' outputs, no      *)
(* operation of a library is applied to an object of another class (but    *)
(* for Del and GetGroup of a creation), groups are left and tasks freed.   *)
(***************************************************************************)
EXTENDS TaskLib, TLAPS

D == Def[orig.class]

\* The methods that a task can have after its run.
Kept(m) == m = D.method \/ (D.method = "CreateTaskState" /\ m = "Construct")

Remote == {"load_start", "run", "save_end", "load_end", "replicate_end"}

\* The outputs of the nodes that have replied are in the task.
Collected ==
  \A f \in D.outs :
    IF f \in D.slots
    THEN \A n \in 1..hop-1 : orig.val[f][n] = made[n][f][1] /\ made[n][f][1] # Junk
    ELSE hop > 1 => orig.val[f][1] = made[hop-1][f][1] /\ made[hop-1][f][1] # Junk

\* While the nodes are called: the PushTask holds what the client gave, and the
\* task keeps its bulk data and has room for the outputs.
Dispersed ==
  /\ push.exec_method = D.method /\ push.method = D.method
  /\ push.params = Serialize(NewTask(orig.class), orig.class, D.start, 1)
  /\ \A f \in D.bulk : orig.val[f] = One(Given)
  /\ \A f \in D.fields : DOMAIN orig.val[f] = IF f \in D.slots THEN Node ELSE {1}
  /\ Collected
  /\ IF pc = "replicate_end" THEN hop = NumNodes + 1 ELSE hop \in Node

\* The replica is of the class of the task, and holds its inputs before its
\* handler runs and its outputs afterwards.
Replicated ==
  /\ rep = [class |-> rep.class, method |-> rep.method, val |-> rep.val]
  /\ Def[rep.class] = D /\ DOMAIN rep.val = D.fields
  /\ \A f \in D.fields : DOMAIN rep.val[f] = {1}
  /\ pc = "run" => rep.method = D.method /\ \A f \in D.reads : rep.val[f] = One(Given)
  /\ pc # "run" => /\ \A f \in D.outs : made[hop][f][1] = rep.val[f][1] /\ rep.val[f][1] # Junk
                   /\ Kept(rep.method)

\* The task holds the outputs of all nodes.
OutputsThere ==
  \A f \in D.outs :
    IF hop = 1 \/ f \notin D.slots
    THEN LET n == IF hop = 1 THEN 1 ELSE NumNodes
         IN  orig.val[f][1] = made[n][f][1] /\ made[n][f][1] # Junk
    ELSE \A n \in Node : orig.val[f][n] = made[n][f][1] /\ made[n][f][1] # Junk

\* The reply holds the outputs of the node being called.
Replied ==
  /\ DOMAIN reply = DOMAIN D.end
  /\ \A k \in DOMAIN D.end : D.end[k] \in D.outs =>
       reply[k].type = Type[D.end[k]] /\ reply[k].val = made[hop][D.end[k]][1]

\* Groups are left, and the replicas of all tasks but creations are freed.
Accounts ==
  /\ depth = 0
  /\ D.method # "CreateTaskState" => IF pc \in {"run", "save_end"} THEN heap \subseteq {0, hop}
                                                                   ELSE heap \subseteq {0}
  /\ pc = "done" /\ D.faf => 0 \notin heap

Ind ==
  /\ Accounts
  /\ pc \in Pc /\ orig.class \in Class /\ DOMAIN orig.val = D.fields
  /\ orig = [class |-> orig.class, method |-> orig.method, val |-> orig.val]
  /\ made = [n \in Node |-> made[n]]
  /\ pc # "done" => orig.method = D.method
  /\ pc = "done" => Kept(orig.method)
  /\ pc \in {"disperse", "local"} => orig = NewTask(orig.class) /\ hop = 1
  /\ pc = "disperse" => ~D.local
  /\ pc \in Remote => ~D.local /\ Dispersed
  /\ pc \in {"run", "save_end", "load_end"} => Replicated
  /\ pc = "load_end" => Replied
  /\ pc \in {"end", "done"} => OutputsThere

-----------------------------------------------------------------------------
\* The switch of its library takes a task for its class.
LEMMA OwnClass ==
  ASSUME orig.class \in Class
  PROVE  /\ D \in ClassDef /\ WellDefined(D)
         /\ HasCase(D.method) /\ CastTo(D.method) \in Class /\ Def[CastTo(D.method)] = D
<1>1. D \in ClassDef /\ WellDefined(D)
  BY TaskLibAssumption, Zenon DEF D
<1>2. /\ D.method \in DOMAIN Exec[D.lib] /\ Exec[D.lib][D.method] \in Class
      /\ Def[Exec[D.lib][D.method]] = D
  BY <1>1, Zenon DEF WellDefined
<1> QED
  BY <1>1, <1>2, Zenon DEF HasCase, CastTo, Lib, D

\* Whatever method a run leaves, the task is counted as before, and Del frees it
\* unless it is a creation.
LEMMA OwnMethod ==
  ASSUME orig.class \in Class, NEW m, Kept(m)
  PROVE  /\ Counted(m) = Counted(D.method) /\ Counted(m) \in Int
         /\ D.method # "CreateTaskState" => \A x : Del(m, x) = {x}
<1>1. WellDefined(D) /\ HasCase(D.method) /\ Def[CastTo(D.method)] = D
  BY OwnClass
<1>2. CASE m = D.method
  BY <1>1, <1>2 DEF Counted, Del
<1>3. CASE D.method = "CreateTaskState" /\ m = "Construct"
  <2>1. D.ordered /\ "Construct" \notin DOMAIN Exec[D.lib]
    BY <1>1, <1>3 DEF WellDefined
  <2>2. ~HasCase(m)
    BY <1>3, <2>1 DEF HasCase, Lib, D
  <2>3. GetGroup(m) = -1 /\ GetGroup(D.method) = 0
    BY <1>1, <2>1, <2>2 DEF GetGroup
  <2>4. TASK_UNORDERED \notin {-1, 0}
    BY DEF TASK_UNORDERED
  <2> QED
    BY <1>3, <2>3, <2>4 DEF Counted
<1> QED
  BY <1>2, <1>3 DEF Kept

\* An array of one element after an assignment to it.
LEMMA OneExcept == \A x, y : [One(x) EXCEPT ![1] = y] = One(y) /\ One(x)[1] = x /\ DOMAIN One(x) = {1}
BY DEF One

\* A member that is archived once is found where it was put.
LEMMA ReadMember ==
  \A o, c, fs, r, ar : \A k \in DOMAIN fs :
    Once(fs) /\ k \in DOMAIN ar /\ ar[k].type = Type[fs[k]]
      => Read(o, c, fs, r, ar, fs[k]) = [o.val[fs[k]] EXCEPT ![At(c, fs[k], r)] = ar[k].val]
<1> TAKE o, c, fs, r, ar
<1> TAKE k \in DOMAIN fs
<1> HAVE Once(fs) /\ k \in DOMAIN ar /\ ar[k].type = Type[fs[k]]
<1>1. k = CHOOSE j \in DOMAIN fs : fs[j] = fs[k]
  BY DEF Once
<1>2. fs[k] \in Members(fs)
  BY DEF Members
<1> QED
  BY <1>1, <1>2, Zenon DEF Read

\* Archives only ask a class for its slots.
LEMMA SameArchive ==
  ASSUME NEW o, NEW c, NEW e, NEW fs, NEW r, Def[c].slots = Def[e].slots
  PROVE  Serialize(o, c, fs, r) = Serialize(o, e, fs, r)
BY DEF Serialize, At

-----------------------------------------------------------------------------
\* The parameters are what the client gave, and there is room for the outputs.
LEMMA DisperseStep == ASSUME Ind, Disperse PROVE Ind'
<1> DEFINE c == orig.class
<1>1. /\ c \in Class /\ orig = NewTask(c) /\ hop = 1 /\ pc = "disperse" /\ orig.method = D.method
      /\ DOMAIN orig.val = D.fields /\ made = [n \in Node |-> made[n]]
  BY DEF Ind, Disperse
<1>2. /\ D \in ClassDef /\ WellDefined(D) /\ HasCase(D.method) /\ Def[CastTo(D.method)] = D
  BY <1>1, OwnClass
<1>3. orig' = [orig EXCEPT !.val = [f \in D.fields |-> IF f \in D.slots THEN [i \in Node |-> Junk] ELSE orig.val[f]]]
  BY <1>1, <1>2 DEF Disperse, ReplicateStart
<1>4. /\ orig'.class = c /\ orig'.method = D.method /\ D' = D /\ hop' = 1 /\ made' = made
      /\ pc' = "load_start"
      /\ orig'.val = [f \in D.fields |-> IF f \in D.slots THEN [i \in Node |-> Junk] ELSE orig.val[f]]
      /\ orig' = [class |-> orig'.class, method |-> orig'.method, val |-> orig'.val]
  BY <1>1, <1>3 DEF D, NewTask, Disperse
<1>5. push'.exec_method = D.method /\ push'.method = D.method /\ push'.params = SaveStart(D.method, orig)
  BY <1>1 DEF Disperse
<1>6. push'.params = Serialize(NewTask(c), c, D.start, 1)
  BY <1>1, <1>2, <1>5, SameArchive DEF SaveStart, D
<1>7. \A f \in D.fields : orig.val[f] = One(IF f \in D.given THEN Given ELSE Junk)
  BY <1>1 DEF NewTask, D
<1>8. \A f \in D.bulk : f \in D.fields /\ f \notin D.slots /\ f \in D.given
  BY <1>2 DEF WellDefined, ClassDef
<1>9. Dispersed'
  <2>1. \A f \in D.bulk : orig'.val[f] = One(Given)
    BY <1>4, <1>7, <1>8
  <2>2. \A f \in D.fields : DOMAIN orig'.val[f] = IF f \in D.slots THEN Node ELSE {1}
    BY <1>4, <1>7, OneExcept
  <2>3. Collected'
    BY <1>4 DEF Collected
  <2>4. hop' \in Node
    BY <1>4, TaskLibAssumption DEF Node
  <2> QED
    BY <1>4, <1>5, <1>6, <2>1, <2>2, <2>3, <2>4, Zenon DEF Dispersed
<1>10. Accounts'
  BY <1>1, <1>4 DEF Ind, Accounts, Disperse
<1> QED
  BY <1>1, <1>4, <1>9, <1>10, Zenon DEF Ind, Pc

\* The replica gets what the client gave: the parameters were saved before any
\* output came back, and bulk data is never an output.
LEMMA RpcExecStep == ASSUME Ind, RpcExec PROVE Ind'
<1> DEFINE c == CastTo(D.method)
<1>1. pc = "load_start" /\ orig.class \in Class /\ DOMAIN orig.val = D.fields /\ ~D.local /\ Dispersed
  BY DEF Ind, RpcExec, Remote
<1>2. /\ D \in ClassDef /\ WellDefined(D) /\ HasCase(D.method) /\ Def[c] = D
  BY <1>1, OwnClass
<1>3. UNCHANGED <<orig, hop, push, reply, made>> /\ D' = D /\ pc' = "run"
  BY DEF RpcExec, D
<1>4. rep' = LoadStart(D.method, push.params, D.method)
  BY <1>1 DEF RpcExec, Params, Dispersed
<1>5. PICK j, e : j = [f \in D.fields |-> One(Junk)] /\ e = [class |-> c, method |-> "none", val |-> j]
  BY Zenon
<1> DEFINE v == [f \in D.fields |-> Read(e, c, D.start, 1, push.params, f)]
           w == [f \in D.fields |-> IF f \in D.bulk THEN orig.val[f] ELSE v[f]]
<1>6. /\ e = NewEmptyTask(c) /\ e.val = j /\ DOMAIN j = D.fields
      /\ Deserialize(e, c, D.start, 1, push.params) = [class |-> c, method |-> "none", val |-> v]
  <2>1. e = NewEmptyTask(c)
    BY <1>2, <1>5, Zenon DEF NewEmptyTask
  <2>2. e.val = j /\ DOMAIN j = D.fields
    BY <1>5, Zenon
  <2>3. Deserialize(e, c, D.start, 1, push.params)
          = [class |-> c, method |-> "none", val |-> [f \in DOMAIN j |-> Read(e, c, D.start, 1, push.params, f)]]
    <3>1. \A g : [e EXCEPT !.val = g] = [class |-> c, method |-> "none", val |-> g]
      BY <1>5
    <3> QED
      BY <2>2, <3>1, Zenon DEF Deserialize
  <2> QED
    BY <2>1, <2>2, <2>3, Zenon
<1> HIDE DEF v
<1>7. rep' = [class |-> c, method |-> D.method, val |-> w]
  <2>1. PICK o : o = [class |-> c, method |-> "none", val |-> v]
    BY Zenon
  <2>2. o = Deserialize(NewEmptyTask(c), c, Def[c].load, 1, push.params)
    BY <1>2, <1>6, <2>1 DEF WellDefined
  <2>3. rep' = [o EXCEPT !.method = D.method,
                         !.val = [f \in DOMAIN o.val |-> IF f \in D.bulk THEN orig.val[f] ELSE o.val[f]]]
    BY <1>2, <1>4, <2>2 DEF LoadStart
  <2>4. DOMAIN o.val = D.fields /\ o.val = v
    BY <2>1 DEF v
  <2> QED
    BY <2>1, <2>3, <2>4, Zenon
<1>8. \A f \in D.reads : rep'.val[f] = One(Given)
  <2> SUFFICES ASSUME NEW f \in D.reads PROVE rep'.val[f] = One(Given)
    OBVIOUS
  <2>1. f \in D.fields /\ f \in D.given /\ f \notin D.slots /\ (f \in D.bulk \/ f \in Members(D.start))
    BY <1>1, <1>2 DEF WellDefined, ClassDef
  <2>2. CASE f \in D.bulk
    BY <1>1, <1>7, <2>1, <2>2 DEF Dispersed
  <2>3. CASE f \notin D.bulk
    <3>1. PICK k \in DOMAIN D.start : D.start[k] = f
      BY <2>1, <2>3 DEF Members
    <3>2. k \in DOMAIN push.params /\ push.params[k] = [type |-> Type[f], val |-> NewTask(orig.class).val[f][1]]
      BY <1>1, <2>1, <3>1, Zenon DEF Dispersed, Serialize, At, D
    <3>3. NewTask(orig.class).val[f][1] = Given
      BY <2>1, OneExcept DEF NewTask, D
    <3>4. Read(e, c, D.start, 1, push.params, f)
            = [e.val[f] EXCEPT ![At(c, f, 1)] = Given]
      <4>1. Once(D.start) /\ push.params[k].type = Type[D.start[k]] /\ push.params[k].val = Given
        BY <1>2, <3>1, <3>2, <3>3 DEF WellDefined
      <4>2. Read(e, c, D.start, 1, push.params, D.start[k])
              = [e.val[D.start[k]] EXCEPT ![At(c, D.start[k], 1)] = push.params[k].val]
        BY <3>1, <3>2, <4>1, ReadMember
      <4> QED
        BY <3>1, <4>1, <4>2, Zenon
    <3>5. e.val[f] = One(Junk) /\ At(c, f, 1) = 1
      BY <1>2, <1>5, <1>6, <2>1 DEF At
    <3> QED
      BY <1>7, <2>1, <2>3, <3>4, <3>5, OneExcept DEF v
  <2> QED
    BY <2>2, <2>3
<1>9. \A f \in D.fields : DOMAIN rep'.val[f] = {1}
  <2> SUFFICES ASSUME NEW f \in D.fields PROVE DOMAIN rep'.val[f] = {1}
    OBVIOUS
  <2>1. DOMAIN e.val[f] = {1}
    <3>1. e.val[f] = One(Junk)
      BY <1>5, <1>6
    <3> QED
      BY <3>1, OneExcept
  <2>2. DOMAIN Read(e, c, D.start, 1, push.params, f) = {1}
    BY <2>1, Zenon DEF Read
  <2>3. f \in D.bulk => DOMAIN orig.val[f] = {1}
    BY <1>1, OneExcept DEF Dispersed
  <2> QED
    BY <1>7, <2>2, <2>3 DEF v
<1>10. Replicated'
  BY <1>2, <1>3, <1>7, <1>8, <1>9 DEF Replicated
<1>11. Dispersed'
  BY <1>1, <1>3 DEF Dispersed, Collected
<1>12. Accounts'
  BY <1>1, <1>3 DEF Ind, Accounts, RpcExec
<1> QED
  BY <1>3, <1>10, <1>11, <1>12, Zenon DEF Ind, Pc, RpcExec, Remote

-----------------------------------------------------------------------------
\* A handler leaves a task of the same class with something in every output: it
\* writes them all, or, for CreateTaskState, keeps what the client gave.
LEMMA RanLeaves ==
  ASSUME orig.class \in Class, NEW o, NEW n \in Node, NEW p \in Ran(o, n),
         o = [class |-> o.class, method |-> D.method, val |-> o.val], DOMAIN o.val = D.fields,
         \A f \in D.fields : DOMAIN o.val[f] = {1}, \A f \in D.reads : o.val[f] = One(Given)
  PROVE  /\ p = [class |-> o.class, method |-> p.method, val |-> p.val]
         /\ DOMAIN p.val = D.fields
         /\ \A f \in D.fields : DOMAIN p.val[f] = {1}
         /\ \A f \in D.outs : p.val[f][1] # Junk
         /\ Kept(p.method)
<1>1. D \in ClassDef /\ WellDefined(D) /\ Def[CastTo(D.method)] = D
  BY OwnClass
<1>2. \A f \in D.outs : f \in D.fields /\ f \in D.writes
  BY <1>1 DEF WellDefined, ClassDef
<1>3. n # Junk /\ Given # Junk
  BY TaskLibAssumption DEF Node, Junk, Given
<1>4. PICK S : /\ S = D.writes \/ (D.method = "CreateTaskState" /\ S \subseteq D.writes)
               /\ \/ p = Write(o, S, n)
                  \/ \E m : Kept(m) /\ p = [Write(o, S, n) EXCEPT !.method = m]
  <2>1. o.method = D.method
    OBVIOUS
  <2>2. CASE D.method = "CreateTaskState"
    <3>1. PICK S \in SUBSET D.writes, m \in {"CreateTaskState", "Construct"} :
            p = [Write(o, S, n) EXCEPT !.method = m]
      BY <1>1, <2>1, <2>2 DEF Ran
    <3>2. Kept(m)
      BY <2>2, <3>1 DEF Kept
    <3> QED
      BY <2>2, <3>1, <3>2, Zenon
  <2>3. CASE D.method # "CreateTaskState"
    BY <1>1, <2>1, <2>3 DEF Ran
  <2> QED
    BY <2>2, <2>3, Zenon
<1> DEFINE g == [f \in D.fields |-> IF f \in S THEN [o.val[f] EXCEPT ![1] = n] ELSE o.val[f]]
<1>5. PICK v : v = g
  BY Zenon
<1>6. /\ p = [class |-> o.class, method |-> p.method, val |-> v] /\ p.val = v
      /\ Kept(p.method)
  <2>1. Write(o, S, n) = [o EXCEPT !.val = v]
    BY <1>5, Zenon DEF Write
  <2>2. Write(o, S, n) = [class |-> o.class, method |-> D.method, val |-> v]
    BY <2>1
  <2>3. CASE p = Write(o, S, n)
    BY <2>2, <2>3 DEF Kept
  <2>4. CASE p # Write(o, S, n)
    <3>1. PICK m : Kept(m) /\ p = [Write(o, S, n) EXCEPT !.method = m]
      BY <1>4, <2>4, Zenon
    <3>2. p = [class |-> o.class, method |-> m, val |-> v]
      BY <2>2, <3>1
    <3>3. p.method = m /\ p.val = v
      BY <3>2
    <3> QED
      BY <3>1, <3>2, <3>3, Zenon
  <2> QED
    BY <2>3, <2>4
<1>7. \A f \in D.fields : DOMAIN v[f] = {1}
  BY <1>5
<1>8. \A f \in D.outs : v[f][1] # Junk
  <2> SUFFICES ASSUME NEW f \in D.outs PROVE v[f][1] # Junk
    OBVIOUS
  <2>1. CASE f \in S
    <3>1. v[f] = [o.val[f] EXCEPT ![1] = n] /\ DOMAIN o.val[f] = {1}
      BY <1>2, <1>5, <2>1
    <3> QED
      BY <1>3, <3>1
  <2>2. CASE f \notin S
    <3>1. f \in D.reads /\ v[f] = o.val[f]
      BY <1>1, <1>2, <1>4, <1>5, <2>2 DEF WellDefined
    <3> QED
      BY <1>3, <3>1, OneExcept
  <2> QED
    BY <2>1, <2>2
<1>9. DOMAIN v = D.fields
  BY <1>5
<1> QED
  BY <1>6, <1>7, <1>8, <1>9, Zenon

\* The replica leaves its outputs; what the earlier nodes made stands.
LEMMA RunReplicaStep == ASSUME Ind, RunReplica PROVE Ind'
<1>1. pc = "run" /\ orig.class \in Class /\ Dispersed /\ Replicated /\ made = [n \in Node |-> made[n]]
  BY DEF Ind, RunReplica, Remote
<1>2. UNCHANGED <<orig, hop, push, reply>> /\ D' = D /\ pc' = "save_end"
  BY DEF RunReplica, D
<1>3. hop \in Node /\ rep.method = D.method
  BY <1>1 DEF Dispersed, Replicated
<1>4. rep' \in Ran(rep, hop) /\ made' = [made EXCEPT ![hop] = rep'.val]
  BY DEF RunReplica
<1>5. /\ rep' = [class |-> rep.class, method |-> rep'.method, val |-> rep'.val]
      /\ DOMAIN rep'.val = D.fields
      /\ \A f \in D.fields : DOMAIN rep'.val[f] = {1}
      /\ \A f \in D.outs : rep'.val[f][1] # Junk
      /\ Kept(rep'.method)
  <2>1. /\ rep = [class |-> rep.class, method |-> D.method, val |-> rep.val] /\ DOMAIN rep.val = D.fields
        /\ \A f \in D.fields : DOMAIN rep.val[f] = {1}
        /\ \A f \in D.reads : rep.val[f] = One(Given)
    BY <1>1, <1>3, Zenon DEF Replicated
  <2> QED
    BY <1>1, <1>3, <1>4, <2>1, RanLeaves
<1>6. made' = [n \in Node |-> made'[n]] /\ made'[hop] = rep'.val
      /\ \A n \in 1..hop-1 : made'[n] = made[n]
  <2>1. made' = [n \in Node |-> made'[n]] /\ made'[hop] = rep'.val /\ \A n \in Node \ {hop} : made'[n] = made[n]
    BY <1>1, <1>3, <1>4, Zenon
  <2>2. \A n \in 1..hop-1 : n \in Node \ {hop}
    BY <1>3, TaskLibAssumption DEF Node
  <2> QED
    BY <2>1, <2>2, Zenon
<1>7. Replicated'
  <2>1. rep'.class = rep.class
    BY <1>5
  <2>2. Kept(rep.method)'
    BY <1>2, <1>5, Zenon DEF Kept
  <2> QED
    BY <1>1, <1>2, <1>5, <1>6, <2>1, <2>2 DEF Replicated
<1>8. Collected'
  <2>1. hop > 1 => hop-1 \in 1..hop-1
    BY <1>3 DEF Node
  <2> QED
    BY <1>1, <1>2, <1>6, <2>1 DEF Dispersed, Collected
<1>9. Dispersed'
  BY <1>1, <1>2, <1>3, <1>8, Zenon DEF Dispersed
<1>10. Accounts'
  <2>1. depth = 0 /\ depth' = depth + Counted(D.method) - Counted(rep'.method) /\ heap' = heap
    BY <1>3 DEF Ind, Accounts, RunReplica
  <2>2. Counted(rep'.method) = Counted(D.method) /\ Counted(rep'.method) \in Int
    BY <1>1, <1>5, OwnMethod
  <2>3. depth' = 0
    BY <2>1, <2>2
  <2> QED
    BY <1>1, <1>2, <2>1, <2>3 DEF Ind, Accounts
<1> QED
  BY <1>1, <1>2, <1>6, <1>7, <1>9, <1>10, Zenon DEF Ind, Pc, Remote

\* The reply holds the outputs: SaveEnd goes by the method of the request.
LEMMA RpcCompleteStep == ASSUME Ind, RpcComplete PROVE Ind'
<1>1. pc = "save_end" /\ orig.class \in Class /\ Dispersed /\ Replicated
  BY DEF Ind, RpcComplete, Remote
<1>2. UNCHANGED <<orig, rep, hop, push, made>> /\ D' = D /\ pc' = "load_end"
  BY DEF RpcComplete, D
<1>3. WellDefined(D) /\ HasCase(D.method) /\ Def[CastTo(D.method)] = D /\ D \in ClassDef
  BY <1>1, OwnClass
<1>4. reply' = Serialize(rep, CastTo(D.method), D.end, 1)
  BY <1>1, <1>3, Zenon DEF RpcComplete, SaveEndMethod, SaveEnd, Dispersed
<1>5. Replied'
  <2>1. DOMAIN reply' = DOMAIN D.end
    BY <1>4 DEF Serialize
  <2>2. \A k \in DOMAIN D.end : reply'[k] = [type |-> Type[D.end[k]], val |-> rep.val[D.end[k]][1]]
    <3>1. \A k \in DOMAIN D.end : At(CastTo(D.method), D.end[k], 1) = 1
      BY DEF At
    <3> QED
      BY <1>4, <3>1 DEF Serialize
  <2>3. \A f \in D.outs : made[hop][f][1] = rep.val[f][1]
    BY <1>1 DEF Replicated
  <2>4. \A k \in DOMAIN D.end : reply'[k].type = Type[D.end[k]] /\ reply'[k].val = rep.val[D.end[k]][1]
    <3> TAKE k \in DOMAIN D.end
    <3>1. PICK t, u : t = Type[D.end[k]] /\ u = rep.val[D.end[k]][1]
      BY Zenon
    <3>2. reply'[k] = [type |-> t, val |-> u]
      BY <2>2, <3>1, Zenon
    <3> QED
      BY <3>1, <3>2
  <2> QED
    BY <1>2, <2>1, <2>3, <2>4, Zenon DEF Replied
<1>6. Dispersed' /\ Replicated'
  BY <1>1, <1>2 DEF Dispersed, Collected, Replicated, Kept
<1>7. Accounts'
  <2>1. Kept(rep.method)
    <3>1. pc # "run"
      BY <1>1
    <3> QED
      BY <1>1, <3>1, Zenon DEF Replicated
  <2>2. D.method # "CreateTaskState" => Del(rep.method, hop) = {hop}
    BY <1>1, <2>1, OwnMethod, Zenon
  <2> QED
    BY <1>1, <1>2, <2>2 DEF Ind, Accounts, RpcComplete
<1> QED
  BY <1>2, <1>5, <1>6, <1>7, Zenon DEF Ind, Pc, RpcComplete, Remote

\* The outputs of the node join those of the earlier ones.
LEMMA OutputStep == ASSUME Ind, ClientHandlePushReplicaOutput PROVE Ind'
<1> DEFINE c == CastTo(D.method)
           v == [f \in D.fields |-> Read(orig, c, D.end, hop, reply, f)]
<1>1. /\ pc = "load_end" /\ orig.class \in Class /\ Dispersed /\ Replicated /\ Replied
      /\ DOMAIN orig.val = D.fields /\ made = [n \in Node |-> made[n]] /\ orig.method = D.method
      /\ orig = [class |-> orig.class, method |-> orig.method, val |-> orig.val] /\ ~D.local
  BY DEF Ind, ClientHandlePushReplicaOutput, Remote
<1>2. D \in ClassDef /\ WellDefined(D) /\ HasCase(D.method) /\ Def[c] = D
  BY <1>1, OwnClass
<1>3. /\ UNCHANGED <<rep, push, reply, made>> /\ hop' = hop + 1 /\ hop \in Node
      /\ pc' = IF hop = NumNodes THEN "replicate_end" ELSE "load_start"
  BY <1>1 DEF ClientHandlePushReplicaOutput, LastReplica, Dispersed
<1>4. orig' = [orig EXCEPT !.val = v]
  <2>1. orig' = Deserialize(orig, c, D.end, hop, reply)
    BY <1>1, <1>2, Zenon DEF ClientHandlePushReplicaOutput, Replica, LoadEnd, Dispersed
  <2> QED
    BY <1>1, <2>1, Zenon DEF Deserialize
<1> HIDE DEF v
<1>5. /\ orig'.class = orig.class /\ orig'.method = D.method /\ orig'.val = v /\ D' = D
      /\ orig' = [class |-> orig'.class, method |-> orig'.method, val |-> orig'.val]
  <2>1. orig' = [class |-> orig.class, method |-> D.method, val |-> v]
    BY <1>1, <1>4
  <2> QED
    BY <2>1 DEF D
<1>6. DOMAIN v = D.fields /\ \A f \in D.fields : v[f] = Read(orig, c, D.end, hop, reply, f)
  BY DEF v
<1>7. \A f \in D.fields : DOMAIN v[f] = DOMAIN orig.val[f]
  BY <1>6, Zenon DEF Read
<1>8. \A f \in D.bulk : v[f] = orig.val[f]
  <2>1. \A f \in D.bulk : f \in D.fields /\ f \notin Members(D.end)
    BY <1>2 DEF WellDefined, ClassDef
  <2> QED
    BY <1>6, <2>1, Zenon DEF Read
<1>9. \A f \in D.outs : f \in D.fields /\ v[f] = [orig.val[f] EXCEPT ![At(c, f, hop)] = made[hop][f][1]]
  <2> SUFFICES ASSUME NEW f \in D.outs
               PROVE  f \in D.fields /\ v[f] = [orig.val[f] EXCEPT ![At(c, f, hop)] = made[hop][f][1]]
    OBVIOUS
  <2>1. Once(D.end) /\ f \in D.fields /\ f \in Members(D.end)
    BY <1>2 DEF WellDefined
  <2>2. PICK k \in DOMAIN D.end : D.end[k] = f
    BY <2>1 DEF Members
  <2>3. k \in DOMAIN reply /\ reply[k].type = Type[D.end[k]] /\ reply[k].val = made[hop][D.end[k]][1]
    BY <1>1, <2>2 DEF Replied
  <2>4. Read(orig, c, D.end, hop, reply, D.end[k])
          = [orig.val[D.end[k]] EXCEPT ![At(c, D.end[k], hop)] = reply[k].val]
    BY <2>1, <2>3, ReadMember
  <2> QED
    BY <1>6, <2>1, <2>2, <2>3, <2>4, Zenon
<1>10. Collected'
  <2>1. \A f \in D.outs : made[hop][f][1] # Junk
    BY <1>1 DEF Replicated
  <2> SUFFICES ASSUME NEW f \in D.outs
               PROVE  IF f \in D.slots
                      THEN \A n \in 1..hop : v[f][n] = made[n][f][1] /\ made[n][f][1] # Junk
                      ELSE v[f][1] = made[hop][f][1] /\ made[hop][f][1] # Junk
    <3>1. hop' - 1 = hop /\ hop' > 1
      BY <1>3 DEF Node
    <3> QED
      BY <1>3, <1>5, <3>1 DEF Collected
  <2>2. CASE f \in D.slots
    <3>1. v[f] = [orig.val[f] EXCEPT ![hop] = made[hop][f][1]] /\ DOMAIN orig.val[f] = Node
      BY <1>1, <1>2, <1>9, <2>2 DEF At, Dispersed
    <3>2. \A n \in 1..hop-1 : orig.val[f][n] = made[n][f][1] /\ made[n][f][1] # Junk
      BY <1>1, <2>2 DEF Dispersed, Collected
    <3>3. \A n \in 1..hop : n \in Node /\ (n = hop \/ n \in 1..hop-1)
      BY <1>3, TaskLibAssumption DEF Node
    <3> QED
      BY <1>3, <2>1, <2>2, <3>1, <3>2, <3>3, Zenon
  <2>3. CASE f \notin D.slots
    <3>1. v[f] = [orig.val[f] EXCEPT ![1] = made[hop][f][1]] /\ 1 \in DOMAIN orig.val[f]
      BY <1>1, <1>2, <1>9, <2>3 DEF At, Dispersed
    <3> QED
      BY <2>1, <2>3, <3>1
  <2> QED
    BY <2>2, <2>3
<1>11. Dispersed'
  <2>1. IF pc' = "replicate_end" THEN hop' = NumNodes + 1 ELSE hop' \in Node
    BY <1>3, TaskLibAssumption DEF Node
  <2>2. \A f \in D.bulk : v[f] = One(Given)
    BY <1>1, <1>8, Zenon DEF Dispersed
  <2>3. \A f \in D.fields : DOMAIN v[f] = IF f \in D.slots THEN Node ELSE {1}
    BY <1>1, <1>7, Zenon DEF Dispersed
  <2>4. push'.exec_method = D.method /\ push'.method = D.method
        /\ push'.params = Serialize(NewTask(orig.class), orig.class, D.start, 1)
    BY <1>1, <1>3, Zenon DEF Dispersed
  <2> QED
    BY <1>5, <1>10, <2>1, <2>2, <2>3, <2>4, Zenon DEF Dispersed
<1>12. /\ pc' \in {"replicate_end", "load_start"} /\ made' = [n \in Node |-> made'[n]]
       /\ orig'.class \in Class /\ ~D.local
  BY <1>1, <1>3, <1>5, Zenon
<1>13. Accounts'
  BY <1>1, <1>5, <1>12 DEF Ind, Accounts, ClientHandlePushReplicaOutput
<1> QED
  BY <1>5, <1>6, <1>11, <1>12, <1>13, Zenon DEF Ind, Pc, Remote

\* All nodes have replied when the task is completed.
LEMMA ReplicateEndStep == ASSUME Ind, ClientHandlePushReplicaEnd PROVE Ind'
<1>1. pc = "replicate_end" /\ Dispersed /\ hop = NumNodes + 1
  BY DEF Ind, ClientHandlePushReplicaEnd, Remote, Dispersed
<1>2. UNCHANGED <<orig, rep, hop, push, reply, made, depth, heap>> /\ D' = D /\ pc' = "end"
  BY DEF ClientHandlePushReplicaEnd, D
<1>3. hop # 1 /\ hop > 1 /\ hop - 1 = NumNodes
  BY <1>1, TaskLibAssumption
<1>4. OutputsThere'
  BY <1>1, <1>2, <1>3 DEF Dispersed, Collected, OutputsThere, Node
<1>5. Accounts'
  BY <1>1, <1>2 DEF Ind, Accounts
<1> QED
  BY <1>2, <1>4, <1>5, Zenon DEF Ind, Pc, ClientHandlePushReplicaEnd, Remote

\* The worker deletes the task by its own method if it is fire and forget.
LEMMA EndTaskStep == ASSUME Ind, EndTask PROVE Ind'
<1>1. /\ pc = "end" /\ OutputsThere /\ orig.class \in Class /\ orig.method = D.method /\ Accounts
      /\ made = [n \in Node |-> made[n]] /\ DOMAIN orig.val = D.fields
      /\ orig = [class |-> orig.class, method |-> orig.method, val |-> orig.val]
  BY DEF Ind, EndTask
<1>2. UNCHANGED <<orig, rep, hop, push, reply, made, depth>> /\ D' = D /\ pc' = "done"
  BY DEF EndTask, D
<1>3. HasCase(D.method)
  BY <1>1, OwnClass
<1>4. OutputsThere'
  BY <1>1, <1>2 DEF OutputsThere
<1>5. heap' = heap \ (IF D.faf THEN {0} ELSE {})
  BY <1>1, <1>3 DEF EndTask, Ended, Del, D
<1>6. Accounts'
  BY <1>1, <1>2, <1>5 DEF Accounts
<1>7. Kept(orig.method)'
  BY <1>1, <1>2, Zenon DEF Kept
<1> QED
  BY <1>1, <1>2, <1>4, <1>6, <1>7, Zenon DEF Ind, Pc, Remote

\* A task that runs in place is left with its outputs.
LEMMA RunLocalStep == ASSUME Ind, RunLocal PROVE Ind'
<1>1. /\ orig.class \in Class /\ orig = NewTask(orig.class) /\ hop = 1 /\ pc = "local"
      /\ DOMAIN orig.val = D.fields /\ made = [n \in Node |-> made[n]] /\ orig.method = D.method
      /\ orig = [class |-> orig.class, method |-> orig.method, val |-> orig.val]
  BY DEF Ind, RunLocal
<1>2. D \in ClassDef /\ WellDefined(D)
  BY <1>1, OwnClass
<1>3. 1 \in Node
  BY TaskLibAssumption DEF Node
<1>4. \A f \in D.fields : orig.val[f] = One(IF f \in D.given THEN Given ELSE Junk)
  BY <1>1 DEF NewTask, D
<1>5. orig' \in Ran(orig, 1) /\ made' = [made EXCEPT ![1] = orig'.val] /\ hop' = 1 /\ pc' = "done"
  BY <1>1 DEF RunLocal
<1>6. /\ orig' = [class |-> orig.class, method |-> orig'.method, val |-> orig'.val]
      /\ DOMAIN orig'.val = D.fields
      /\ \A f \in D.outs : orig'.val[f][1] # Junk
      /\ Kept(orig'.method)
  <2>1. \A f \in D.fields : DOMAIN orig.val[f] = {1}
    BY <1>4, OneExcept
  <2>2. \A f \in D.reads : orig.val[f] = One(Given)
    BY <1>2, <1>4 DEF WellDefined
  <2>3. orig = [class |-> orig.class, method |-> D.method, val |-> orig.val]
    BY <1>1, Zenon
  <2> QED
    BY <1>1, <1>3, <1>5, <2>1, <2>2, <2>3, RanLeaves
<1>7. orig'.class = orig.class /\ D' = D
  BY <1>6 DEF D
<1>8. made' = [n \in Node |-> made'[n]] /\ made'[1] = orig'.val
  BY <1>1, <1>3, <1>5, Zenon
<1>9. OutputsThere'
  BY <1>5, <1>6, <1>7, <1>8 DEF OutputsThere
<1>10. Accounts'
  <2>1. depth = 0 /\ depth' = depth + Counted(D.method) - Counted(orig'.method)
    BY <1>1 DEF Ind, Accounts, RunLocal
  <2>2. /\ Counted(orig'.method) = Counted(D.method) /\ Counted(orig'.method) \in Int
        /\ D.method # "CreateTaskState" => Del(orig'.method, 0) = {0}
    BY <1>1, <1>6, OwnMethod
  <2>3. depth' = 0
    BY <2>1, <2>2
  <2>4. D.faf => D.method # "CreateTaskState"
    BY <1>2 DEF WellDefined
  <2>5. heap' = heap \ (IF D.faf THEN Del(orig'.method, 0) ELSE {})
    BY <1>7 DEF RunLocal, Ended, D
  <2>6. D.method # "CreateTaskState" => heap \subseteq {0}
    BY <1>1 DEF Ind, Accounts
  <2> QED
    BY <1>5, <1>7, <2>2, <2>3, <2>4, <2>5, <2>6 DEF Accounts
<1>11. Kept(orig.method)'
  BY <1>6, <1>7, Zenon DEF Kept
<1> QED
  BY <1>1, <1>5, <1>6, <1>7, <1>8, <1>9, <1>10, <1>11, Zenon DEF Ind, Pc, Remote

-----------------------------------------------------------------------------
\* Ind is an invariant.
THEOREM Inductive == Spec => []Ind
<1>1. Init => Ind
  <2> SUFFICES ASSUME Init PROVE Ind
    OBVIOUS
  <2>1. PICK c \in Class : orig = NewTask(c) /\ (Def[c].local => pc = "local")
    BY DEF Init
  <2>2. orig.class = c /\ orig.method = D.method /\ DOMAIN orig.val = D.fields
        /\ orig = [class |-> orig.class, method |-> orig.method, val |-> orig.val]
    BY <2>1 DEF NewTask, D
  <2>3. made = [n \in Node |-> made[n]]
    BY DEF Init
  <2>4. pc = "disperse" => ~D.local
    BY <2>1, <2>2 DEF D
  <2>5. Accounts
    BY DEF Init, Accounts
  <2> QED
    BY <2>1, <2>2, <2>3, <2>4, <2>5, Zenon DEF Init, Ind, Pc, Remote
<1>2. Ind /\ [Next]_vars => Ind'
  <2> SUFFICES ASSUME Ind, [Next]_vars PROVE Ind'
    OBVIOUS
  <2>1. CASE UNCHANGED vars
    <3>1. UNCHANGED <<pc, orig, rep, hop, push, reply, made, depth, heap>>
      BY <2>1, Zenon DEF vars
    <3>2. UNCHANGED D
      BY <3>1, Zenon DEF D
    <3>3. UNCHANGED Dispersed
      BY <3>1, <3>2, Zenon DEF Dispersed, Collected
    <3>4. UNCHANGED <<Replicated, Replied>>
      BY <3>1, <3>2, Zenon DEF Replicated, Replied, Kept
    <3>5. UNCHANGED <<OutputsThere, Accounts>>
      BY <3>1, <3>2, Zenon DEF OutputsThere, Accounts
    <3>6. UNCHANGED Kept(orig.method)
      BY <3>1, <3>2, Zenon DEF Kept
    <3> QED
      BY <3>1, <3>2, <3>3, <3>4, <3>5, <3>6, Zenon DEF Ind
  <2> QED
    BY <2>1, DisperseStep, RpcExecStep, RunReplicaStep, RpcCompleteStep, OutputStep,
       ReplicateEndStep, EndTaskStep, RunLocalStep, Zenon DEF Next
<1> QED
  BY <1>1, <1>2, PTL DEF Spec

\* On every node of a domain of any size the handler reads what the client gave
\* it: params_ is saved once, before any output is loaded over the task.
THEOREM TaskInputsArrive == Spec => []InputsArrive
<1>1. Ind => InputsArrive
  BY DEF Ind, Replicated, InputsArrive, D
<1> QED
  BY <1>1, Inductive, PTL

\* A complete task holds what the handlers of all the nodes left, in place.
THEOREM TaskOutputsArrive == Spec => []OutputsArrive
<1>1. Ind => OutputsArrive
  BY DEF Ind, OutputsArrive, OutputsThere, D
<1> QED
  BY <1>1, Inductive, PTL

\* Every switch of a library has a case for the method that its caller passes
\* and takes the task for its own class, although the handler of CreateTaskState
\* changes the method of the task it runs; the exception are Del and GetGroup
\* after that change.
THEOREM TaskDispatchSound == Spec => []DispatchSound
<1>1. Ind => DispatchSound
  <2> SUFFICES ASSUME Ind PROVE DispatchSound
    OBVIOUS
  <2>1. HasCase(D.method) /\ Def[CastTo(D.method)] = D
    BY OwnClass DEF Ind
  <2>2. pc # "done" => Fits(orig.method, orig)
    BY <2>1, Zenon DEF Ind, Fits, D
  <2>3. pc \in Remote => Fits(push.exec_method, orig)
    BY <2>1, Zenon DEF Ind, Dispersed, Fits, D
  <2>4. pc = "run" => Fits(rep.method, rep)
    BY <2>1, Zenon DEF Ind, Replicated, Fits, D
  <2>5. pc = "save_end" => Fits(SaveEndMethod, rep)
    BY <2>1, Zenon DEF Ind, Dispersed, Replicated, Fits, SaveEndMethod, Remote, D
  <2>6. ASSUME pc = "save_end" PROVE Fits(rep.method, rep) \/ Constructed(rep)
    <3>1. Replicated /\ pc # "run"
      BY <2>6 DEF Ind
    <3>2. Def[rep.class] = D /\ Kept(rep.method)
      BY <3>1, Zenon DEF Replicated
    <3> QED
      BY <2>1, <3>2, Zenon DEF Kept, Fits, Constructed
  <2>7. pc = "done" => Fits(orig.method, orig) \/ Constructed(orig)
    BY <2>1, Zenon DEF Ind, Kept, Fits, Constructed, D
  <2> QED
    BY <2>2, <2>3, <2>4, <2>5, <2>6, <2>7, Zenon DEF DispatchSound, Remote
<1> QED
  BY <1>1, Inductive, PTL

\* A task that is done is in no group, whatever its handler did to its method,
\* and nothing but the replicas of creations and what a client waits for is
\* still allocated.
THEOREM TaskGivesBack == Spec => []GivenBack
<1>1. Ind => GivenBack
  BY DEF Ind, Accounts, GivenBack, D
<1> QED
  BY <1>1, Inductive, PTL
=============================================================================
