--------------------------- MODULE RegistryProofs ---------------------------
(***************************************************************************)
(* For every number of nodes, calls and names: an id means one state,      *)
(* names lead to their states, the nodes agree on ids, creations reach     *)
(* every node of their domain, and states own their queues.                *)
(***************************************************************************)
EXTENDS Registry, TLAPS

\* The id stands for the name somewhere: in a registry or in a creation that is
\* under way.
Means(id, a) ==
  \/ \E n \in Node : <<id, a>> \in states[n] \/ ids[n][a] = id
  \/ \E c \in Call : Desc[c].op = "create" /\ Desc[c].name = a /\ id \in {arg[c], got[c]}

\* Ids in use are below the counter of their node, and stand for one name.
OneMeaning ==
  /\ \A id \in Id, a \in Name : Means(id, a) => id[2] < unique[id[1]]
  /\ \A id \in Id, a, b \in Name : Means(id, a) /\ Means(id, b) => a = b

BaseInv == TypeOK /\ OneMeaning

\* A call is at a node.
LEMMA AtNode ==
  ASSUME TypeOK, NEW c \in Call
  PROVE  At(c) \in Node
<1>1. hop[c] \in 1..Len(Nodes(c)) /\ Desc[c].to \in 0..NumNodes /\ NumNodes \in Nat
  BY RegistryAssumption DEF TypeOK, CallDesc
<1>2. CASE Desc[c].to = 0
  <2>1. Nodes(c) = [n \in 1..NumNodes |-> n]
    BY <1>2 DEF Nodes, Node
  <2>2. Len([n \in 1..NumNodes |-> n]) = NumNodes
    BY <1>1
  <2> QED
    BY <1>1, <2>1, <2>2 DEF At, Node
<1>3. CASE Desc[c].to # 0
  BY <1>1, <1>3 DEF Nodes, At, Node
<1> QED
  BY <1>2, <1>3, Zenon

\* A reply keeps the types of what it changes.
LEMMA ReplyType ==
  ASSUME TypeOK, NEW c \in Call, NEW id \in Id \cup {Null}, Reply(c, id)
  PROVE  /\ pc' \in [Call -> {"idle", "at", "ask", "resume", "done"}]
         /\ hop' \in [Call -> Nat] /\ \A d \in Call : hop'[d] \in 1..Len(Nodes(d))
         /\ res' \in [Call -> Id \cup {Null}]
<1>1. Len(Nodes(c)) \in Nat
  <2>1. Nodes(c) \in Seq(Nat)
    <3>1. Desc[c].to \in Nat /\ NumNodes \in Nat
      BY RegistryAssumption DEF CallDesc
    <3> QED
      BY <3>1 DEF Nodes, Node
  <2> QED
    BY <2>1
<1>2. res' \in [Call -> Id \cup {Null}]
  BY DEF Reply, TypeOK
<1>3. CASE LastHop(c)
  BY <1>2, <1>3, Zenon DEF Reply, TypeOK
<1>4. CASE ~LastHop(c)
  <2>1. pc' = [pc EXCEPT ![c] = "at"] /\ hop' = [hop EXCEPT ![c] = @ + 1]
    BY <1>4 DEF Reply
  <2>2. hop[c] \in Nat /\ hop[c] + 1 \in 1..Len(Nodes(c))
    BY <1>1, <1>4 DEF LastHop, TypeOK
  <2>3. hop' \in [Call -> Nat] /\ \A d \in Call : hop'[d] \in 1..Len(Nodes(d))
    BY <2>1, <2>2 DEF TypeOK
  <2>4. pc' \in [Call -> {"idle", "at", "ask", "resume", "done"}]
    BY <2>1 DEF TypeOK
  <2> QED
    BY <1>2, <2>3, <2>4
<1> QED
  BY <1>3, <1>4

\* task_state_ids_ of all nodes after CreateAt has made a state.
NewIds(n, c, id) == [ids EXCEPT ![n][Desc[c].name] = IF @ = Null THEN id ELSE @]

\* Its entries are the old ones, but for the name of the new state.
LEMMA NewIdsEntries ==
  ASSUME TypeOK, NEW c \in Call, NEW n \in Node, NEW id \in Id
  PROVE  /\ NewIds(n, c, id) \in [Node -> [Name -> Id \cup {Null}]]
         /\ \A k \in Node, a \in Name : NewIds(n, c, id)[k][a] =
              IF k = n /\ a = Desc[c].name /\ ids[n][a] = Null THEN id ELSE ids[k][a]
<1>1. PICK b \in Name : b = Desc[c].name
  BY RegistryAssumption DEF CallDesc
<1>2. PICK f : f = [ids[n] EXCEPT ![b] = IF ids[n][b] = Null THEN id ELSE ids[n][b]]
  BY Zenon
<1>3. NewIds(n, c, id) = [ids EXCEPT ![n] = f]
  BY <1>1, <1>2 DEF NewIds, TypeOK
<1>4. f \in [Name -> Id \cup {Null}]
  BY <1>2 DEF TypeOK
<1>5. \A a \in Name : f[a] = IF a = b /\ ids[n][a] = Null THEN id ELSE ids[n][a]
  BY <1>2 DEF TypeOK
<1>6. NewIds(n, c, id) \in [Node -> [Name -> Id \cup {Null}]]
  BY <1>3, <1>4 DEF TypeOK
<1> QED
  BY <1>1, <1>3, <1>5, <1>6 DEF TypeOK

\* The second half of CreateTaskState keeps the types of the tables.
LEMMA CreateAtType ==
  ASSUME TypeOK, NEW c \in Call, NEW n \in Node, NEW id \in Id, CreateAt(n, c, id)
  PROVE  /\ ids' \in [Node -> [Name -> Id \cup {Null}]]
         /\ states' \in [Node -> SUBSET (Id \X Name)]
         /\ queues' \in [Node -> SUBSET Id]
         /\ libs' \in [Node -> SUBSET Lib]
<1>1. Desc[c].name \in Name
  BY RegistryAssumption DEF CallDesc
<1>2. NewQueue(n, id) \subseteq Id
  BY DEF NewQueue
<1>3. CASE TaskStateExists(n, id)
  BY <1>3 DEF CreateAt, tables, TypeOK
<1>4. CASE ~TaskStateExists(n, id)
  <2>1. queues' \in [Node -> SUBSET Id] /\ UNCHANGED libs
    BY <1>2, <1>4, ZenonT(30) DEF CreateAt, TypeOK
  <2>2. CASE Desc[c].lib \notin libs[n]
    BY <1>4, <2>1, <2>2 DEF CreateAt, TypeOK
  <2>3. CASE Desc[c].lib \in libs[n]
    <3>1. /\ ids' = NewIds(n, c, id)
          /\ states' = [states EXCEPT ![n] = @ \cup {<<id, Desc[c].name>>}]
      BY <1>4, <2>3 DEF CreateAt, NewIds
    <3>2. states[n] \cup {<<id, Desc[c].name>>} \in SUBSET (Id \X Name)
      BY <1>1 DEF TypeOK
    <3>3. states' \in [Node -> SUBSET (Id \X Name)]
      BY <3>1, <3>2 DEF TypeOK
    <3>4. NewIds(n, c, id) \in [Node -> [Name -> Id \cup {Null}]]
      BY NewIdsEntries
    <3> QED
      BY <2>1, <3>1, <3>3, <3>4 DEF TypeOK
  <2> QED
    BY <2>2, <2>3
<1> QED
  BY <1>3, <1>4

\* A step that gives no id a new meaning and lowers no counter keeps OneMeaning.
LEMMA NoNewMeaning ==
  ASSUME BaseInv, unique' \in [Node -> Nat],
         \A n \in Node : unique[n] <= unique'[n],
         \A id \in Id, a \in Name : Means(id, a)' => Means(id, a)
  PROVE  OneMeaning'
BY DEF BaseInv, OneMeaning, TypeOK, Id

\* So does one that takes the next number of a node for an id of one name.
LEMMA NewMeaning ==
  ASSUME BaseInv, NEW m \in Node, NEW b \in Name, unique' \in [Node -> Nat],
         \A n \in Node : unique[n] <= unique'[n],
         unique[m] < unique'[m],
         \A id \in Id, a \in Name :
           Means(id, a)' => Means(id, a) \/ (id = <<m, unique[m]>> /\ a = b)
  PROVE  OneMeaning'
<1>1. ASSUME NEW a \in Name PROVE ~Means(<<m, unique[m]>>, a)
  BY DEF BaseInv, OneMeaning, TypeOK, Id
<1>2. ASSUME NEW id \in Id, NEW a \in Name, Means(id, a)' PROVE id[2] < unique'[id[1]]
  BY <1>2 DEF BaseInv, OneMeaning, TypeOK, Id
<1>3. ASSUME NEW id \in Id, NEW a \in Name, NEW d \in Name, Means(id, a)', Means(id, d)'
      PROVE  a = d
  BY <1>1, <1>3 DEF BaseInv, OneMeaning
<1> QED
  BY <1>2, <1>3 DEF OneMeaning

\* The second half of CreateTaskState only uses ids that stand for its name.
LEMMA CreateAtMeaning ==
  ASSUME BaseInv, NEW c \in Call, NEW n \in Node, NEW i \in Id, CreateAt(n, c, i),
         Desc[c].op = "create", i \in {arg[c], got[c]}, UNCHANGED <<arg, got>>
  PROVE  \A id \in Id, a \in Name : Means(id, a)' => Means(id, a)
<1> SUFFICES ASSUME NEW id \in Id, NEW a \in Name, Means(id, a)' PROVE Means(id, a)
  OBVIOUS
<1>0. Desc[c].name \in Name /\ Null \notin Id
  BY RegistryAssumption DEF CallDesc
<1>1. CASE TaskStateExists(n, i)
  BY <1>1 DEF CreateAt, tables, Means
<1>2. CASE ~TaskStateExists(n, i)
  <2>1. Means(i, Desc[c].name)
    BY Zenon DEF Means
  <2>2. CASE \E d \in Call : Desc[d].op = "create" /\ Desc[d].name = a /\ id \in {arg'[d], got'[d]}
    BY <2>2 DEF Means
  <2>3. CASE \E k \in Node : <<id, a>> \in states'[k] \/ ids'[k][a] = id
    <3>1. PICK k \in Node : <<id, a>> \in states'[k] \/ ids'[k][a] = id
      BY <2>3
    <3>2. \/ <<id, a>> \in states[k] \/ ids[k][a] = id
          \/ id = i /\ a = Desc[c].name
      <4>1. CASE Desc[c].lib \notin libs[n]
        BY <1>2, <3>1, <4>1, Zenon DEF CreateAt
      <4>2. CASE Desc[c].lib \in libs[n]
        <5>1. /\ ids' = NewIds(n, c, i)
              /\ states' = [states EXCEPT ![n] = @ \cup {<<i, Desc[c].name>>}]
          BY <1>2, <4>2, Zenon DEF CreateAt, NewIds
        <5>2. <<id, a>> \in states'[k] => <<id, a>> \in states[k] \/ (id = i /\ a = Desc[c].name)
          BY <5>1 DEF BaseInv, TypeOK
        <5>3. ids'[k][a] = id => ids[k][a] = id \/ (id = i /\ a = Desc[c].name)
          BY <5>1, NewIdsEntries DEF BaseInv
        <5> QED
          BY <3>1, <5>2, <5>3, Zenon
      <4> QED
        BY <4>1, <4>2, Zenon
    <3> QED
      BY <2>1, <3>2, Zenon DEF Means
  <2> QED
    BY <2>2, <2>3, Zenon DEF Means
<1> QED
  BY <1>1, <1>2

\* Every state that Runtime::ServerInit can leave.
LEMMA InitInd == Init => BaseInv
<1> SUFFICES ASSUME Init PROVE BaseInv
  OBVIOUS
<1>1. TypeOK
  <2>1. \A c \in Call : 1 \in 1..Len(Nodes(c))
    <3> SUFFICES ASSUME NEW c \in Call PROVE 1 \in 1..Len(Nodes(c))
      OBVIOUS
    <3>1. Desc[c].to \in Nat /\ NumNodes \in Nat \ {0}
      BY RegistryAssumption DEF CallDesc
    <3>2. Len([n \in 1..NumNodes |-> n]) = NumNodes
      BY <3>1
    <3> QED
      BY <3>1, <3>2 DEF Nodes, Node
  <2>2. queues \in [Node -> SUBSET Id]
    BY RegistryAssumption DEF Init, Id, Node
  <2>3. libs \in [Node -> SUBSET Lib]
    BY RegistryAssumption DEF Init
  <2> QED
    BY <2>1, <2>2, <2>3 DEF Init, BootUnique, TypeOK
<1>2. ASSUME NEW id \in Id, NEW a \in Name PROVE ~Means(id, a)
  BY RegistryAssumption DEF Init, Means
<1> QED
  BY <1>1, <1>2 DEF BaseInv, OneMeaning

\* A client's own id is new; a client that sends none adds no meaning.
LEMMA StartStep ==
  ASSUME BaseInv, NEW c \in Call, Start(c)
  PROVE  BaseInv'
<1> USE DEF BaseInv
<1>1. PICK n \in Node : n = Desc[c].node
  BY RegistryAssumption DEF CallDesc
<1>2. PICK k \in {1, 2} : k = IF Desc[c].own THEN 2 ELSE 1
  OBVIOUS
<1>3. /\ unique' = [unique EXCEPT ![n] = @ + k] /\ unique' \in [Node -> Nat]
      /\ unique[n] < unique'[n] /\ \A m \in Node : unique[m] <= unique'[m]
  BY <1>1, <1>2 DEF Start, Taken, TypeOK
<1>4. PICK x : x = arg'[c]
  OBVIOUS
<1>5. /\ x \in Id \cup {Null}
      /\ Desc[c].own => x = <<n, unique[n]>>
      /\ Desc[c].op = "create" /\ ~Desc[c].own => x = Null
      /\ arg' = [arg EXCEPT ![c] = x] /\ res' = [res EXCEPT ![c] = x]
  <2>1. arg' = [arg EXCEPT ![c] = IF Desc[c].own THEN <<n, unique[n]>>
                                  ELSE IF Desc[c].of # Null THEN res[Desc[c].of] ELSE Null]
    BY <1>1, Zenon DEF Start
  <2>2. x = IF Desc[c].own THEN <<n, unique[n]>>
            ELSE IF Desc[c].of # Null THEN res[Desc[c].of] ELSE Null
    BY <1>4, <2>1, Zenon DEF TypeOK
  <2>3. Desc[c].of \in Call \cup {Null} /\ (Desc[c].op = "destroy" <=> Desc[c].of # Null)
    BY RegistryAssumption DEF CallDesc
  <2>4. <<n, unique[n]>> \in Id
    BY DEF TypeOK, Id
  <2>5. res' = [res EXCEPT ![c] = x]
    BY <1>4, Zenon DEF Start
  <2> QED
    BY <2>1, <2>2, <2>3, <2>4, <2>5, Zenon DEF TypeOK
<1>6. TypeOK'
  <2>1. pc' \in [Call -> {"idle", "at", "ask", "resume", "done"}]
    BY Zenon DEF Start, TypeOK
  <2>2. arg' \in [Call -> Id \cup {Null}] /\ res' \in [Call -> Id \cup {Null}]
    BY <1>5, Zenon DEF TypeOK
  <2> QED
    BY <1>3, <2>1, <2>2, SMTT(30) DEF Start, tables, TypeOK
<1>7. Desc[c].name \in Name /\ Null \notin Id
  BY RegistryAssumption DEF CallDesc
<1>8. \A id \in Id, a \in Name :
        Means(id, a)' => Means(id, a) \/ (id = <<n, unique[n]>> /\ a = Desc[c].name)
  <2> SUFFICES ASSUME NEW id \in Id, NEW a \in Name, Means(id, a)', ~Means(id, a)
               PROVE  id = <<n, unique[n]>> /\ a = Desc[c].name
    OBVIOUS
  <2>1. UNCHANGED <<states, ids, got>>
    BY Zenon DEF Start, tables
  <2>2. PICK d \in Call : /\ Desc[d].op = "create" /\ Desc[d].name = a
                          /\ id \in {arg'[d], got'[d]}
    BY <2>1, Zenon DEF Means
  <2>3. d = c /\ id = x
    BY <1>5, <2>1, <2>2, Zenon DEF Means, TypeOK
  <2> QED
    BY <1>5, <1>7, <2>2, <2>3
<1> QED
  BY <1>3, <1>6, <1>7, <1>8, NewMeaning

\* CreateTaskState creates under the id it was given.
LEMMA CreateStep ==
  ASSUME BaseInv, NEW c \in Call, CreateTaskState(c)
  PROVE  BaseInv'
<1> USE DEF BaseInv
<1>1. PICK n \in Node : n = At(c)
  BY AtNode
<1>2. Desc[c].name \in Name /\ UNCHANGED <<unique, arg, got>>
  BY RegistryAssumption, Zenon DEF CallDesc, CreateTaskState
<1>3. CASE TaskStateExists(n, Known(n, c)) /\ Reply(c, FoundId(n, c)) /\ UNCHANGED tables
  <2>1. FoundId(n, c) \in Id \cup {Null}
    BY <1>2 DEF FoundId, Known, TypeOK
  <2>2. TypeOK'
    BY <1>2, <1>3, <2>1, ReplyType, Zenon DEF tables, TypeOK
  <2>3. \A id \in Id, a \in Name : Means(id, a)' => Means(id, a)
    BY <1>2, <1>3, Zenon DEF tables, Means
  <2> QED
    BY <1>2, <2>2, <2>3, NoNewMeaning DEF TypeOK
<1>4. CASE arg[c] # Null /\ CreateAt(n, c, arg[c]) /\ Reply(c, arg[c])
  <2>1. arg[c] \in Id
    BY <1>4 DEF TypeOK
  <2>2. TypeOK'
    BY <1>2, <1>4, <2>1, ReplyType, CreateAtType, Zenon DEF TypeOK
  <2>3. \A id \in Id, a \in Name : Means(id, a)' => Means(id, a)
    BY <1>2, <1>4, <2>1, CreateAtMeaning, Zenon DEF CreateTaskState
  <2> QED
    BY <1>2, <2>2, <2>3, NoNewMeaning DEF TypeOK
<1>5. CASE pc' = [pc EXCEPT ![c] = "ask"] /\ UNCHANGED <<tables, hop, res>>
  <2>1. TypeOK'
    BY <1>2, <1>5, Zenon DEF tables, TypeOK
  <2>2. \A id \in Id, a \in Name : Means(id, a)' => Means(id, a)
    BY <1>2, <1>5, Zenon DEF tables, Means
  <2> QED
    BY <1>2, <2>1, <2>2, NoNewMeaning DEF TypeOK
<1> QED
  BY <1>1, <1>3, <1>4, <1>5, Zenon DEF CreateTaskState

\* Only creations ask for an id, and they get one.
Asking ==
  \A c \in Call : /\ pc[c] \in {"ask", "resume"} => Desc[c].op = "create"
                  /\ pc[c] = "resume" => got[c] # Null

\* Node 1 gives a name the id it has, or a new one.
LEMMA AskStep ==
  ASSUME BaseInv, Asking, NEW c \in Call, GetOrCreateTaskStateId(c)
  PROVE  BaseInv'
<1> USE DEF BaseInv
<1>1. PICK m \in Node : m = IdNode(At(c))
  BY RegistryAssumption DEF IdNode, Node
<1>2. PICK b \in Name : b = Desc[c].name
  BY RegistryAssumption DEF CallDesc
<1>3. Desc[c].op = "create" /\ Null \notin Id /\ <<m, unique[m]>> \in Id
  BY RegistryAssumption, Zenon DEF GetOrCreateTaskStateId, Asking, TypeOK, Id
<1>4. pc' \in [Call -> {"idle", "at", "ask", "resume", "done"}]
  BY Zenon DEF GetOrCreateTaskStateId, TypeOK
<1>5. CASE ids[m][b] = Null
  <2>1. /\ got' = [got EXCEPT ![c] = <<m, unique[m]>>]
        /\ ids' = [ids EXCEPT ![m][b] = <<m, unique[m]>>]
        /\ unique' = [unique EXCEPT ![m] = @ + 1]
        /\ UNCHANGED <<states, queues, libs, hop, arg, res>>
    BY <1>1, <1>2, <1>5, Zenon DEF GetOrCreateTaskStateId, Taken
  <2>2. PICK f : f = [ids[m] EXCEPT ![b] = <<m, unique[m]>>]
    BY Zenon
  <2>3. ids' = [ids EXCEPT ![m] = f]
    BY <2>1, <2>2, Zenon DEF TypeOK
  <2>4. f \in [Name -> Id \cup {Null}]
    BY <1>3, <2>2, Zenon DEF TypeOK
  <2>5. ids' \in [Node -> [Name -> Id \cup {Null}]]
    BY <2>3, <2>4 DEF TypeOK
  <2>6. unique' \in [Node -> Nat] /\ unique[m] < unique'[m] /\ \A n \in Node : unique[n] <= unique'[n]
    BY <2>1 DEF TypeOK
  <2>7. TypeOK'
    BY <1>3, <1>4, <2>1, <2>5, <2>6 DEF TypeOK
  <2>8. \A k \in Node, a \in Name : ids'[k][a] = ids[k][a] \/ (a = b /\ ids'[k][a] = <<m, unique[m]>>)
    <3>1. \A a \in Name : f[a] = ids[m][a] \/ (a = b /\ f[a] = <<m, unique[m]>>)
      BY <2>2, Zenon DEF TypeOK
    <3> QED
      BY <2>3, <3>1, Zenon DEF TypeOK
  <2>9. \A id \in Id, a \in Name : Means(id, a)' => Means(id, a) \/ (id = <<m, unique[m]>> /\ a = b)
    <3> SUFFICES ASSUME NEW id \in Id, NEW a \in Name, Means(id, a)'
                 PROVE  Means(id, a) \/ (id = <<m, unique[m]>> /\ a = b)
      OBVIOUS
    <3>1. CASE \E n \in Node : <<id, a>> \in states'[n] \/ ids'[n][a] = id
      BY <2>1, <2>8, <3>1, Zenon DEF Means
    <3>2. CASE \E d \in Call : Desc[d].op = "create" /\ Desc[d].name = a /\ id \in {arg'[d], got'[d]}
      BY <1>2, <2>1, <3>2, Zenon DEF Means, TypeOK
    <3> QED
      BY <3>1, <3>2, Zenon DEF Means
  <2> QED
    BY <2>6, <2>7, <2>9, NewMeaning
<1>6. CASE ids[m][b] # Null
  <2>1. /\ got' = [got EXCEPT ![c] = ids[m][b]]
        /\ UNCHANGED <<ids, unique, states, queues, libs, hop, arg, res>>
    BY <1>1, <1>2, <1>6, Zenon DEF GetOrCreateTaskStateId
  <2>2. TypeOK'
    BY <1>4, <2>1 DEF TypeOK
  <2>3. \A id \in Id, a \in Name : Means(id, a)' => Means(id, a)
    BY <1>2, <2>1, Zenon DEF Means, TypeOK
  <2> QED
    BY <2>1, <2>2, <2>3, NoNewMeaning DEF TypeOK
<1> QED
  BY <1>5, <1>6

\* CreateTaskState goes on with the id it got.
LEMMA ResumeStep ==
  ASSUME BaseInv, Asking, NEW c \in Call, CreateResume(c)
  PROVE  BaseInv'
<1> USE DEF BaseInv
<1>1. PICK n \in Node : n = At(c)
  BY AtNode
<1>2. got[c] \in Id /\ Desc[c].op = "create" /\ UNCHANGED <<unique, arg, got>>
  BY Zenon DEF CreateResume, Asking, TypeOK
<1>3. CreateAt(n, c, got[c]) /\ Reply(c, got[c])
  BY <1>1, Zenon DEF CreateResume
<1>4. TypeOK'
  BY <1>2, <1>3, ReplyType, CreateAtType, Zenon DEF TypeOK
<1>5. \A id \in Id, a \in Name : Means(id, a)' => Means(id, a)
  BY <1>2, <1>3, CreateAtMeaning, Zenon
<1> QED
  BY <1>2, <1>4, <1>5, NoNewMeaning DEF TypeOK

\* Looking up, destroying and (un)registering give no id a new meaning.
LEMMA OtherStep ==
  ASSUME BaseInv, NEW c \in Call,
         GetTaskStateId(c) \/ DestroyTaskState(c) \/ RegisterTaskLib(c) \/ DestroyTaskLib(c)
  PROVE  BaseInv'
<1> USE DEF BaseInv
<1>1. PICK n \in Node : n = At(c)
  BY AtNode
<1>2. Desc[c].name \in Name /\ Desc[c].lib \in Lib /\ Null \notin Id
  BY RegistryAssumption, SMTT(30) DEF CallDesc
<1>3. CASE GetTaskStateId(c)
  <2>1. ids[n][Desc[c].name] \in Id \cup {Null}
    BY <1>2, SMTT(30) DEF TypeOK
  <2>2. TypeOK'
    BY <1>1, <1>3, <2>1, ReplyType, Zenon DEF GetTaskStateId, tables, TypeOK
  <2>3. \A id \in Id, a \in Name : Means(id, a)' => Means(id, a)
    BY <1>3, Zenon DEF GetTaskStateId, tables, Means
  <2> QED
    BY <1>3, <2>2, <2>3, NoNewMeaning, SMTT(30) DEF GetTaskStateId, TypeOK
<1>4. CASE DestroyTaskState(c)
  <2>1. PICK D : D = {s \in states[n] : s[1] = arg[c]}
    BY Zenon
  <2>2. PICK f : f = [a \in Name |-> IF \E s \in D : s[2] = a THEN Null ELSE ids[n][a]]
    BY Zenon
  <2>3. /\ states' = [states EXCEPT ![n] = @ \ D]
        /\ ids' = [ids EXCEPT ![n] = f]
        /\ Reply(c, arg[c])
        /\ UNCHANGED <<unique, queues, libs, arg, got>>
    BY <1>1, <1>4, <2>1, <2>2, Zenon DEF DestroyTaskState
  <2>4. f \in [Name -> Id \cup {Null}]
    BY <2>2 DEF TypeOK
  <2>5. ids' \in [Node -> [Name -> Id \cup {Null}]] /\ states' \in [Node -> SUBSET (Id \X Name)]
    BY <2>3, <2>4, Zenon DEF TypeOK
  <2>6. TypeOK'
    BY <2>3, <2>5, ReplyType DEF TypeOK
  <2>7. \A k \in Node, a \in Name : /\ ids'[k][a] = ids[k][a] \/ ids'[k][a] = Null
                                    /\ states'[k] \subseteq states[k]
    BY <2>2, <2>3, Zenon DEF TypeOK
  <2>8. \A id \in Id, a \in Name : Means(id, a)' => Means(id, a)
    BY <1>2, <2>3, <2>7 DEF Means
  <2> QED
    BY <2>3, <2>6, <2>8, NoNewMeaning DEF TypeOK
<1>5. CASE RegisterTaskLib(c) \/ DestroyTaskLib(c)
  <2>1. Reply(c, Null) /\ UNCHANGED <<unique, ids, states, queues, arg, got>>
    BY <1>5, Zenon DEF RegisterTaskLib, DestroyTaskLib
  <2>2. libs' \in [Node -> SUBSET Lib]
    <3>1. PICK L \in SUBSET Lib : libs' = [libs EXCEPT ![n] = L]
      <4>1. {l \in {Desc[c].lib} : <<n, l>> \in LibDir} \in SUBSET Lib /\ libs[n] \in SUBSET Lib
        BY <1>2, Zenon DEF TypeOK
      <4>2. CASE RegisterTaskLib(c)
        <5>1. libs' = [libs EXCEPT ![n] = libs[n] \cup {l \in {Desc[c].lib} : <<n, l>> \in LibDir}]
          BY <1>1, <4>2, Zenon DEF RegisterTaskLib
        <5> QED
          BY <4>1, <5>1, Zenon
      <4>3. CASE DestroyTaskLib(c)
        <5>1. libs' = [libs EXCEPT ![n] = libs[n] \ {Desc[c].lib}]
          BY <1>1, <4>3, Zenon DEF DestroyTaskLib
        <5> QED
          BY <4>1, <5>1, Zenon
      <4> QED
        BY <1>5, <4>2, <4>3
    <3> QED
      BY <3>1, Zenon DEF TypeOK
  <2>3. TypeOK'
    BY <2>1, <2>2, ReplyType, Zenon DEF TypeOK
  <2>4. \A id \in Id, a \in Name : Means(id, a)' => Means(id, a)
    BY <2>1, Zenon DEF Means
  <2> QED
    BY <2>1, <2>3, <2>4, NoNewMeaning, SMTT(30) DEF TypeOK
<1> QED
  BY <1>3, <1>4, <1>5

\* What a reply does to the place of the calls.
LEMMA ReplyPlace ==
  ASSUME TypeOK, NEW c \in Call, NEW id, Reply(c, id)
  PROVE  /\ pc'[c] \in {"at", "done"}
         /\ \A d \in Call \ {c} : pc'[d] = pc[d] /\ hop'[d] = hop[d]
BY Zenon DEF Reply, TypeOK

\* Every step keeps the invariant.
LEMMA NextInd == BaseInv /\ Asking /\ [Next]_vars => BaseInv' /\ Asking'
<1> SUFFICES ASSUME BaseInv, Asking, [Next]_vars PROVE BaseInv' /\ Asking'
  OBVIOUS
<1>0. TypeOK
  BY SMTT(30) DEF BaseInv
<1>1. ASSUME NEW c \in Call, Start(c) PROVE BaseInv' /\ Asking'
  BY <1>0, <1>1, StartStep, Zenon DEF Start, Asking, TypeOK
<1>2. ASSUME NEW c \in Call, CreateTaskState(c) PROVE BaseInv' /\ Asking'
  <2>1. Asking'
    <3>1. CASE \E id : Reply(c, id)
      BY <1>0, <1>2, <3>1, ReplyPlace, Zenon DEF CreateTaskState, Asking
    <3>2. CASE pc' = [pc EXCEPT ![c] = "ask"]
      BY <1>0, <1>2, <3>2, Zenon DEF CreateTaskState, Asking, TypeOK
    <3> QED
      BY <1>2, <3>1, <3>2, Zenon DEF CreateTaskState
  <2> QED
    BY <1>2, <2>1, CreateStep
<1>3. ASSUME NEW c \in Call, GetOrCreateTaskStateId(c) PROVE BaseInv' /\ Asking'
  <2>1. got'[c] # Null /\ \A d \in Call \ {c} : got'[d] = got[d]
    <3>1. IdNode(At(c)) \in Node
      BY RegistryAssumption DEF IdNode, Node
    <3>2. <<IdNode(At(c)), unique[IdNode(At(c))]>> # Null
      BY <1>0, <3>1, RegistryAssumption, SMTT(30) DEF TypeOK, Id
    <3> QED
      BY <1>0, <1>3, <3>2 DEF GetOrCreateTaskStateId, TypeOK
  <2>2. Asking'
    BY <1>0, <1>3, <2>1, Zenon DEF GetOrCreateTaskStateId, Asking, TypeOK
  <2> QED
    BY <1>3, <2>2, AskStep
<1>4. ASSUME NEW c \in Call, CreateResume(c) PROVE BaseInv' /\ Asking'
  BY <1>0, <1>4, ResumeStep, ReplyPlace, Zenon DEF CreateResume, Asking
<1>5. ASSUME NEW c \in Call,
             GetTaskStateId(c) \/ DestroyTaskState(c) \/ RegisterTaskLib(c) \/ DestroyTaskLib(c)
      PROVE  BaseInv' /\ Asking'
  <2>1. PICK id : Reply(c, id)
    BY <1>5, Zenon DEF GetTaskStateId, DestroyTaskState, RegisterTaskLib, DestroyTaskLib
  <2>2. UNCHANGED got
    BY <1>5, Zenon DEF GetTaskStateId, DestroyTaskState, RegisterTaskLib, DestroyTaskLib
  <2>3. Asking'
    BY <1>0, <2>1, <2>2, ReplyPlace, Zenon DEF Asking
  <2> QED
    BY <1>5, <2>3, OtherStep
<1>6. ASSUME NEW n \in Node, RootTask(n) PROVE BaseInv' /\ Asking'
  <2>1. unique' \in [Node -> Nat] /\ \A m \in Node : unique[m] <= unique'[m]
    BY <1>0, <1>6 DEF RootTask, TypeOK
  <2>2. UNCHANGED <<ids, states, queues, libs, pc, hop, arg, got, res>>
    BY <1>6 DEF RootTask, tables
  <2>3. TypeOK'
    BY <1>0, <2>1, <2>2, Zenon DEF TypeOK
  <2>4. \A id \in Id, a \in Name : Means(id, a)' => Means(id, a)
    BY <2>2, Zenon DEF Means
  <2> QED
    BY <2>1, <2>2, <2>3, <2>4, NoNewMeaning, Zenon DEF BaseInv, Asking
<1>7. CASE UNCHANGED vars
  <2>1. TypeOK' /\ Asking'
    BY <1>0, <1>7, Zenon DEF vars, TypeOK, Asking
  <2>2. \A id \in Id, a \in Name : Means(id, a)' => Means(id, a)
    BY <1>7, Zenon DEF vars, Means
  <2> QED
    BY <1>0, <1>7, <2>1, <2>2, NoNewMeaning, SMTT(30) DEF vars, BaseInv, TypeOK
<1> QED
  BY <1>1, <1>2, <1>3, <1>4, <1>5, <1>6, <1>7, Zenon DEF Next, Step

\* The invariant holds in every reachable state.
THEOREM RegistryInductive == Spec => [](BaseInv /\ Asking)
<1>1. Init => BaseInv /\ Asking
  BY InitInd, Zenon DEF Init, Asking
<1> QED
  BY <1>1, NextInd, PTL DEF Spec

\* Types, for every number of nodes and calls.
THEOREM RegistryTypes == Spec => []TypeOK
<1>1. BaseInv => TypeOK
  BY DEF BaseInv
<1> QED
  BY <1>1, RegistryInductive, PTL

\* States held under one id, on whatever nodes, have one name.
THEOREM IdsMeanOneState == Spec => []IdNamesOne
<1>1. BaseInv => IdNamesOne
  <2> SUFFICES ASSUME BaseInv, NEW m \in Node, NEW n \in Node,
                      NEW s \in states[m], NEW t \in states[n], s[1] = t[1]
               PROVE  s[2] = t[2]
    BY Zenon DEF IdNamesOne
  <2>1. s \in Id \X Name /\ t \in Id \X Name
    BY Zenon DEF BaseInv, TypeOK
  <2>2. Means(s[1], s[2]) /\ Means(s[1], t[2])
    BY <2>1 DEF Means
  <2> QED
    BY <2>1, <2>2, Zenon DEF BaseInv, OneMeaning
<1> QED
  BY <1>1, RegistryInductive, PTL

-----------------------------------------------------------------------------
(* When node 1 chooses all the ids, names lead to their states.            *)

NoOwnIds == \A c \in Call : ~Desc[c].own

Waiting(c) == pc[c] \in {"ask", "resume"}

\* Names of nodes other than node 1 only lead to states; while a creation waits
\* for its id the node has no state of that name, gets none (creations exclude
\* each other) and, on node 1, keeps the id it gave.
NamesInv ==
  /\ NameFindsState
  /\ \A n \in Node, a \in Name : n # 1 /\ ids[n][a] # Null => <<ids[n][a], a>> \in states[n]
  /\ \A c \in Call : Waiting(c) => \A s \in states[At(c)] : s[2] # Desc[c].name
  /\ \A c \in Call : pc[c] = "resume" /\ At(c) = 1 => ids[1][Desc[c].name] = got[c]
  /\ \A c, d \in Call : Waiting(c) /\ Waiting(d) /\ At(c) = At(d) => c = d
  /\ \A c \in Call : Desc[c].op = "create" => arg[c] = Null

FullInv == BaseInv /\ Asking /\ NamesInv

\* A call that waits after a step of c which is answered waited before, where it is.
LEMMA WaitingAfterReply ==
  ASSUME TypeOK, NEW c \in Call, NEW id, Reply(c, id)
  PROVE  \A d \in Call : Waiting(d)' =>
           d # c /\ Waiting(d) /\ At(d)' = At(d) /\ pc'[d] = pc[d]
BY ReplyPlace, Zenon DEF Waiting, At

\* A step that is answered and leaves names and states alone.
LEMMA ReplyNames ==
  ASSUME FullInv, NEW c \in Call, NEW id, Reply(c, id), UNCHANGED <<ids, states, arg, got>>
  PROVE  NamesInv'
<1>1. TypeOK /\ NamesInv
  BY SMTT(30) DEF FullInv, BaseInv
<1>2. \A d \in Call : Waiting(d)' => d # c /\ Waiting(d) /\ At(d)' = At(d) /\ pc'[d] = pc[d]
  BY <1>1, WaitingAfterReply, Zenon
<1>3. NameFindsState' /\ \A d \in Call : Desc[d].op = "create" => arg'[d] = Null
  BY <1>1, Zenon DEF NamesInv, NameFindsState
<1>4. \A d \in Call : pc'[d] = "resume" => Waiting(d)'
  BY DEF Waiting
<1> QED
  BY <1>1, <1>2, <1>3, <1>4 DEF NamesInv

\* The second half of CreateTaskState on node n, entered by the creation that n
\* waits for: the name leads nowhere, or on node 1 to the id just given.
LEMMA CreateAtNames ==
  ASSUME FullInv, NEW c \in Call, CreateResume(c)
  PROVE  NamesInv'
<1>1. TypeOK /\ NamesInv /\ Asking /\ TypeOK'
  BY ResumeStep DEF FullInv, BaseInv
<1>2. PICK n \in Node : n = At(c)
  BY <1>1, AtNode
<1>3. PICK b \in Name : b = Desc[c].name
  BY RegistryAssumption, Zenon DEF CallDesc
<1>4. PICK i \in Id : i = got[c]
  BY <1>1, Zenon DEF CreateResume, Asking, TypeOK
<1>5. /\ Waiting(c) /\ CreateAt(n, c, i) /\ Reply(c, i) /\ UNCHANGED <<arg, got>>
      /\ Null \notin Id
  BY <1>2, <1>4, RegistryAssumption, Zenon DEF CreateResume, Waiting
<1>6. \A d \in Call : Waiting(d)' => d # c /\ Waiting(d) /\ At(d)' = At(d) /\ pc'[d] = pc[d]
  BY <1>1, <1>5, WaitingAfterReply, Zenon
<1>7. CASE UNCHANGED <<ids, states>>
  BY <1>5, <1>7, ReplyNames, Zenon
<1>8. CASE ~UNCHANGED <<ids, states>>
  <2>1. /\ ids' = NewIds(n, c, i)
        /\ states' = [states EXCEPT ![n] = @ \cup {<<i, b>>}]
    BY <1>3, <1>5, <1>8, Zenon DEF CreateAt, NewIds, tables
  <2>2. ids[n][b] \in {Null, i}
    <3>1. CASE n = 1
      BY <1>1, <1>2, <1>3, <1>4, <3>1, Zenon DEF CreateResume, NamesInv
    <3>2. CASE n # 1
      <4>1. ids[n][b] # Null => <<ids[n][b], b>> \in states[n]
        BY <1>1, <3>2, Zenon DEF NamesInv
      <4>2. <<ids[n][b], b>> \notin states[n]
        BY <1>1, <1>2, <1>3, <1>5, Zenon DEF NamesInv
      <4> QED
        BY <4>1, <4>2
    <3> QED
      BY <3>1, <3>2, SMTT(30)
  <2>3. \A k \in Node, a \in Name : ids'[k][a] = IF k = n /\ a = b THEN i ELSE ids[k][a]
    BY <1>1, <1>3, <2>1, <2>2, NewIdsEntries
  <2>4. \A k \in Node : states'[k] = IF k = n THEN states[k] \cup {<<i, b>>} ELSE states[k]
    BY <1>1, <2>1, Zenon DEF TypeOK
  <2>5. \A s \in states[n] : s[2] \in Name /\ s[2] # b
    BY <1>1, <1>2, <1>3, <1>5 DEF NamesInv, TypeOK
  <2>6. NameFindsState'
    <3> SUFFICES ASSUME NEW k \in Node, NEW s \in states'[k] PROVE ids'[k][s[2]] = s[1]
      BY DEF NameFindsState
    <3>1. CASE k = n /\ s = <<i, b>>
      BY <2>3, <3>1, Zenon
    <3>2. CASE s \in states[k]
      <4>1. s[2] \in Name /\ ids[k][s[2]] = s[1] /\ ~(k = n /\ s[2] = b)
        BY <1>1, <2>5, <3>2 DEF NamesInv, NameFindsState, TypeOK
      <4> QED
        BY <2>3, <4>1, Zenon
    <3> QED
      BY <2>4, <3>1, <3>2, Zenon
  <2>7. \A k \in Node, a \in Name : k # 1 /\ ids'[k][a] # Null => <<ids'[k][a], a>> \in states'[k]
    <3> SUFFICES ASSUME NEW k \in Node, NEW a \in Name, k # 1, ids'[k][a] # Null
                 PROVE  <<ids'[k][a], a>> \in states'[k]
      OBVIOUS
    <3>1. CASE k = n /\ a = b
      BY <2>3, <2>4, <3>1, Zenon
    <3>2. CASE ~(k = n /\ a = b)
      <4>1. ids'[k][a] = ids[k][a] /\ states[k] \subseteq states'[k]
        BY <2>3, <2>4, <3>2, Zenon
      <4> QED
        BY <1>1, <4>1, Zenon DEF NamesInv
    <3> QED
      BY <3>1, <3>2, Zenon
  <2>8. \A d \in Call : Waiting(d)' => At(d) # n
    BY <1>1, <1>2, <1>5, <1>6, Zenon DEF NamesInv
  <2>9. \A d \in Call : Waiting(d)' => \A s \in states'[At(d)'] : s[2] # Desc[d].name
    <3> SUFFICES ASSUME NEW d \in Call, Waiting(d)' PROVE \A s \in states'[At(d)'] : s[2] # Desc[d].name
      OBVIOUS
    <3>1. At(d) \in Node /\ At(d)' = At(d) /\ Waiting(d)
      BY <1>1, <1>6, AtNode, Zenon
    <3>2. states'[At(d)] = states[At(d)]
      BY <2>4, <2>8, <3>1, Zenon
    <3> QED
      BY <1>1, <3>1, <3>2, Zenon DEF NamesInv
  <2>10. \A d \in Call : pc'[d] = "resume" /\ At(d)' = 1 => ids'[1][Desc[d].name] = got'[d]
    <3> SUFFICES ASSUME NEW d \in Call, pc'[d] = "resume", At(d)' = 1
                 PROVE  ids'[1][Desc[d].name] = got'[d]
      OBVIOUS
    <3>1. At(d) = 1 /\ 1 \in Node /\ n # 1 /\ pc[d] = "resume" /\ Desc[d].name \in Name
      BY <1>1, <1>6, <2>8, AtNode, RegistryAssumption, SMTT(30) DEF Waiting, CallDesc
    <3> QED
      BY <1>1, <1>5, <2>3, <3>1, Zenon DEF NamesInv
  <2>11. \A d, e \in Call : Waiting(d)' /\ Waiting(e)' /\ At(d)' = At(e)' => d = e
    BY <1>1, <1>6, SMTT(30) DEF NamesInv
  <2>12. \A d \in Call : Desc[d].op = "create" => arg'[d] = Null
    BY <1>1, <1>5, Zenon DEF NamesInv
  <2> QED
    BY <2>6, <2>7, <2>9, <2>10, <2>11, <2>12, Zenon DEF NamesInv
<1> QED
  BY <1>7, <1>8

\* A creation goes to wait only where no other one waits and no state has its name.
LEMMA CreateNames ==
  ASSUME FullInv, NEW c \in Call, CreateTaskState(c)
  PROVE  NamesInv'
<1>1. TypeOK /\ NamesInv /\ arg[c] = Null /\ UNCHANGED <<arg, got>>
  BY Zenon DEF FullInv, BaseInv, NamesInv, CreateTaskState
<1>2. CASE \E id : Reply(c, id) /\ UNCHANGED tables
  BY <1>1, <1>2, ReplyNames, Zenon DEF tables
<1>3. CASE /\ ~TaskStateExists(At(c), Known(At(c), c))
           /\ pc' = [pc EXCEPT ![c] = "ask"] /\ UNCHANGED <<tables, hop, res>>
  <2>1. PICK n \in Node : n = At(c)
    BY <1>1, AtNode, SMTT(30)
  <2>2. UNCHANGED <<ids, states, hop>> /\ \A d \in Call : At(d)' = At(d)
    BY <1>3, Zenon DEF tables, At
  <2>3. \A d \in Call : d # c => pc'[d] = pc[d]
    BY <1>1, <1>3, Zenon DEF TypeOK
  <2>4. pc'[c] = "ask"
    BY <1>1, <1>3, Zenon DEF TypeOK
  <2>5. \A s \in states[n] : s[2] # Desc[c].name
    <3> SUFFICES ASSUME NEW s \in states[n], s[2] = Desc[c].name PROVE FALSE
      BY Zenon
    <3>1. ids[n][Desc[c].name] = s[1] /\ s[1] # Null
      BY <1>1, RegistryAssumption, SMTT(30) DEF NamesInv, NameFindsState, TypeOK
    <3>2. TaskStateExists(n, Known(n, c))
      BY <3>1, Zenon DEF Known, TaskStateExists
    <3> QED
      BY <1>3, <2>1, <3>2, Zenon
  <2>6. \A d \in Call : d # c /\ Waiting(d) => At(d) # n
    BY <2>1, Zenon DEF CreateTaskState, CreateTurn, Waiting, FullInv, Asking
  <2>7. \A d \in Call : d # c => (Waiting(d)' <=> Waiting(d))
    BY <2>3, Zenon DEF Waiting
  <2>8. NameFindsState' /\ \A d \in Call : Desc[d].op = "create" => arg'[d] = Null
    BY <1>1, <2>2, Zenon DEF NamesInv, NameFindsState
  <2>9. \A k \in Node, a \in Name : k # 1 /\ ids'[k][a] # Null => <<ids'[k][a], a>> \in states'[k]
    BY <1>1, <2>2, Zenon DEF NamesInv
  <2>10. \A d \in Call : Waiting(d)' => \A s \in states'[At(d)'] : s[2] # Desc[d].name
    BY <1>1, <2>1, <2>2, <2>5, <2>7, Zenon DEF NamesInv
  <2>11. \A d \in Call : pc'[d] = "resume" /\ At(d)' = 1 => ids'[1][Desc[d].name] = got'[d]
    BY <1>1, <2>2, <2>3, <2>4, Zenon DEF NamesInv
  <2>12. \A d, e \in Call : Waiting(d)' /\ Waiting(e)' /\ At(d)' = At(e)' => d = e
    BY <1>1, <2>1, <2>2, <2>6, <2>7, SMTT(30) DEF NamesInv
  <2> QED
    BY <2>8, <2>9, <2>10, <2>11, <2>12, Zenon DEF NamesInv
<1> QED
  BY <1>1, <1>2, <1>3, Zenon DEF CreateTaskState

\* Node 1 only names what has no name, and remembers what it answers.
LEMMA AskNames ==
  ASSUME FullInv, NEW c \in Call, GetOrCreateTaskStateId(c)
  PROVE  NamesInv'
<1>1. TypeOK /\ NamesInv /\ Asking
  BY DEF FullInv, BaseInv
<1>2. PICK b \in Name : b = Desc[c].name
  BY RegistryAssumption, Zenon DEF CallDesc
<1>3. 1 \in Node /\ Null \notin Id /\ \A d \in Call : Desc[d].name \in Name
  BY RegistryAssumption DEF Node, CallDesc
<1>4. PICK x : x = IF ids[1][b] = Null THEN <<1, unique[1]>> ELSE ids[1][b]
  BY Zenon
<1>5. /\ pc[c] = "ask" /\ pc' = [pc EXCEPT ![c] = "resume"]
      /\ got' = [got EXCEPT ![c] = x]
      /\ UNCHANGED <<states, hop, arg>>
  BY <1>2, <1>4, Zenon DEF GetOrCreateTaskStateId, IdNode
<1>6. \A k \in Node, a \in Name : ids'[k][a] = IF k = 1 /\ a = b THEN x ELSE ids[k][a]
  <2>1. CASE ids[1][b] = Null
    <3>1. ids' = [ids EXCEPT ![1][b] = x]
      BY <1>2, <1>4, <2>1, Zenon DEF GetOrCreateTaskStateId, IdNode
    <3>2. PICK f : f = [ids[1] EXCEPT ![b] = x]
      BY ZenonT(30)
    <3>3. ids' = [ids EXCEPT ![1] = f]
      BY <3>1, <3>2
    <3>4. \A a \in Name : f[a] = IF a = b THEN x ELSE ids[1][a]
      BY <1>1, <1>3, <3>2, Zenon DEF TypeOK
    <3> QED
      BY <1>1, <1>3, <3>3, <3>4, Zenon DEF TypeOK
  <2>2. CASE ids[1][b] # Null
    BY <1>2, <1>4, <2>2, Zenon DEF GetOrCreateTaskStateId, IdNode
  <2> QED
    BY <2>1, <2>2, Zenon
<1>7. \A d \in Call : At(d)' = At(d) /\ (Waiting(d)' <=> Waiting(d))
  BY <1>1, <1>5, Zenon DEF At, Waiting, TypeOK
<1>8. NameFindsState'
  <2> SUFFICES ASSUME NEW k \in Node, NEW s \in states[k] PROVE ids'[k][s[2]] = s[1]
    BY <1>5, Zenon DEF NameFindsState
  <2>1. s[2] \in Name /\ s[1] \in Id /\ ids[k][s[2]] = s[1]
    BY <1>1, SMTT(30) DEF NamesInv, NameFindsState, TypeOK
  <2> QED
    BY <1>3, <1>4, <1>6, <2>1
<1>9. \A k \in Node, a \in Name : k # 1 /\ ids'[k][a] # Null => <<ids'[k][a], a>> \in states'[k]
  BY <1>1, <1>5, <1>6, SMTT(30) DEF NamesInv
<1>10. \A d \in Call : Waiting(d)' => \A s \in states'[At(d)'] : s[2] # Desc[d].name
  BY <1>1, <1>5, <1>7, Zenon DEF NamesInv
<1>11. \A d \in Call : pc'[d] = "resume" /\ At(d)' = 1 => ids'[1][Desc[d].name] = got'[d]
  <2> SUFFICES ASSUME NEW d \in Call, pc'[d] = "resume", At(d) = 1
               PROVE  ids'[1][Desc[d].name] = got'[d]
    BY <1>7, Zenon
  <2>1. CASE d = c
    BY <1>1, <1>2, <1>3, <1>5, <1>6, <2>1, Zenon DEF TypeOK
  <2>2. CASE d # c
    <3>1. pc[d] = "resume" /\ got'[d] = got[d]
      BY <1>1, <1>5, <2>2, Zenon DEF TypeOK
    <3>2. ids[1][Desc[d].name] = got[d] /\ got[d] # Null
      BY <1>1, <3>1, Zenon DEF NamesInv, Asking
    <3> QED
      BY <1>3, <1>4, <1>6, <3>1, <3>2, Zenon
  <2> QED
    BY <2>1, <2>2, Zenon
<1>12. \A d, e \in Call : Waiting(d)' /\ Waiting(e)' /\ At(d)' = At(e)' => d = e
  BY <1>1, <1>7, SMTT(30) DEF NamesInv
<1>13. \A d \in Call : Desc[d].op = "create" => arg'[d] = Null
  BY <1>1, <1>5, Zenon DEF NamesInv
<1> QED
  BY <1>8, <1>9, <1>10, <1>11, <1>12, <1>13, Zenon DEF NamesInv

\* A destruction takes a state and its name away together; names that creations
\* wait for have no state to destroy.
LEMMA DestroyNames ==
  ASSUME FullInv, NEW c \in Call, DestroyTaskState(c)
  PROVE  NamesInv'
<1>1. TypeOK /\ NamesInv
  BY DEF FullInv, BaseInv
<1>2. PICK n \in Node : n = At(c)
  BY <1>1, AtNode
<1>3. PICK D : D = {s \in states[n] : s[1] = arg[c]}
  BY Zenon
<1>4. /\ states' = [states EXCEPT ![n] = @ \ D]
      /\ ids' = [ids EXCEPT ![n] = [a \in Name |-> IF \E s \in D : s[2] = a THEN Null ELSE @[a]]]
      /\ Reply(c, arg[c]) /\ UNCHANGED <<arg, got>>
  BY <1>2, <1>3, Zenon DEF DestroyTaskState
<1>5. \A k \in Node : states'[k] = IF k = n THEN states[k] \ D ELSE states[k]
  BY <1>1, <1>4, Zenon DEF TypeOK
<1>6. \A k \in Node, a \in Name :
        ids'[k][a] = IF k = n /\ (\E s \in D : s[2] = a) THEN Null ELSE ids[k][a]
  BY <1>1, <1>4, Zenon DEF TypeOK
<1>7. \A d \in Call : Waiting(d)' => d # c /\ Waiting(d) /\ At(d)' = At(d) /\ pc'[d] = pc[d]
  BY <1>1, <1>4, WaitingAfterReply, Zenon
<1>8. NameFindsState'
  <2> SUFFICES ASSUME NEW k \in Node, NEW s \in states'[k] PROVE ids'[k][s[2]] = s[1]
    BY Zenon DEF NameFindsState
  <2>1. s \in states[k] /\ s \in Id \X Name /\ ids[k][s[2]] = s[1]
    <3>1. s \in states[k]
      BY <1>5, ZenonT(30)
    <3> QED
      BY <1>1, <3>1, Zenon DEF NamesInv, NameFindsState, TypeOK
  <2>2. ASSUME k = n, NEW t \in D, t[2] = s[2] PROVE FALSE
    <3>1. t \in states[n] /\ t[1] = arg[c] /\ t \in Id \X Name
      BY <1>1, <1>3, Zenon DEF TypeOK
    <3>2. t[1] = s[1]
      BY <1>1, <2>1, <2>2, <3>1 DEF NamesInv, NameFindsState
    <3> QED
      BY <1>3, <1>5, <2>1, <2>2, <3>1, <3>2, Zenon
  <2> QED
    BY <1>6, <2>1, <2>2, Zenon
<1>9. \A k \in Node, a \in Name : k # 1 /\ ids'[k][a] # Null => <<ids'[k][a], a>> \in states'[k]
  <2> SUFFICES ASSUME NEW k \in Node, NEW a \in Name, k # 1, ids'[k][a] # Null
               PROVE  <<ids'[k][a], a>> \in states'[k]
    OBVIOUS
  <2>1. ids'[k][a] = ids[k][a] /\ ~(k = n /\ \E s \in D : s[2] = a)
    BY <1>6, Zenon
  <2>2. <<ids[k][a], a>> \in states[k]
    BY <1>1, <2>1, Zenon DEF NamesInv
  <2> QED
    BY <1>5, <2>1, <2>2, ZenonT(30)
<1>10. \A d \in Call : Waiting(d)' => \A s \in states'[At(d)'] : s[2] # Desc[d].name
  <2> SUFFICES ASSUME NEW d \in Call, Waiting(d)' PROVE \A s \in states'[At(d)] : s[2] # Desc[d].name
    BY <1>7, Zenon
  <2>1. At(d) \in Node /\ states'[At(d)] \subseteq states[At(d)]
    BY <1>1, <1>5, AtNode, Zenon
  <2> QED
    BY <1>1, <1>7, <2>1, Zenon DEF NamesInv
<1>11. \A d \in Call : pc'[d] = "resume" /\ At(d)' = 1 => ids'[1][Desc[d].name] = got'[d]
  <2> SUFFICES ASSUME NEW d \in Call, pc'[d] = "resume", At(d)' = 1
               PROVE  ids'[1][Desc[d].name] = got'[d]
    OBVIOUS
  <2>1. At(d) = 1 /\ 1 \in Node /\ pc[d] = "resume" /\ Waiting(d) /\ Desc[d].name \in Name
    BY <1>1, <1>7, AtNode, RegistryAssumption DEF Waiting, CallDesc
  <2>2. \A s \in states[1] : s[2] # Desc[d].name
    BY <1>1, <2>1, Zenon DEF NamesInv
  <2>3. ids'[1][Desc[d].name] = ids[1][Desc[d].name]
    BY <1>3, <1>6, <2>1, <2>2, SMTT(30)
  <2> QED
    BY <1>1, <1>4, <2>1, <2>3, Zenon DEF NamesInv
<1>12. \A d, e \in Call : Waiting(d)' /\ Waiting(e)' /\ At(d)' = At(e)' => d = e
  BY <1>1, <1>7, SMTT(30) DEF NamesInv
<1>13. \A d \in Call : Desc[d].op = "create" => arg'[d] = Null
  BY <1>1, <1>4, Zenon DEF NamesInv
<1> QED
  BY <1>8, <1>9, <1>10, <1>11, <1>12, <1>13, Zenon DEF NamesInv

\* A call starts without waiting, and a creation without an id.
LEMMA StartNames ==
  ASSUME NoOwnIds, FullInv, NEW c \in Call, Start(c)
  PROVE  NamesInv'
<1>1. TypeOK /\ NamesInv
  BY DEF FullInv, BaseInv
<1>2. UNCHANGED <<ids, states, hop, got>>
  BY Zenon DEF Start, tables
<1>3. \A d \in Call : /\ At(d)' = At(d) /\ (Waiting(d)' => Waiting(d))
                      /\ pc'[d] = "resume" => pc[d] = "resume"
  BY <1>1, <1>2, Zenon DEF Start, At, Waiting, TypeOK
<1>4. \A d \in Call : Desc[d].op = "create" => arg'[d] = Null
  <2>1. arg'[c] = IF Desc[c].of # Null THEN res[Desc[c].of] ELSE Null
    BY <1>1, Zenon DEF Start, NoOwnIds, TypeOK
  <2>2. Desc[c].op = "create" => Desc[c].of = Null
    BY RegistryAssumption, Zenon
  <2>3. \A d \in Call : d # c => arg'[d] = arg[d]
    BY <1>1, Zenon DEF Start, TypeOK
  <2> QED
    BY <1>1, <2>1, <2>2, <2>3, ZenonT(30) DEF NamesInv
<1>5. NameFindsState'
  BY <1>1, <1>2, Zenon DEF NamesInv, NameFindsState
<1>6. \A n \in Node, a \in Name : n # 1 /\ ids'[n][a] # Null => <<ids'[n][a], a>> \in states'[n]
  BY <1>1, <1>2, Zenon DEF NamesInv
<1>7. \A d \in Call : Waiting(d)' => \A s \in states'[At(d)'] : s[2] # Desc[d].name
  BY <1>1, <1>2, <1>3, Zenon DEF NamesInv
<1>8. \A d \in Call : pc'[d] = "resume" /\ At(d)' = 1 => ids'[1][Desc[d].name] = got'[d]
  BY <1>1, <1>2, <1>3, Zenon DEF NamesInv
<1>9. \A d, e \in Call : Waiting(d)' /\ Waiting(e)' /\ At(d)' = At(e)' => d = e
  BY <1>1, <1>3 DEF NamesInv
<1> QED
  BY <1>4, <1>5, <1>6, <1>7, <1>8, <1>9, Zenon DEF NamesInv

\* Every step keeps what names lead to.
LEMMA NamesNext ==
  ASSUME NoOwnIds
  PROVE  FullInv /\ [Next]_vars => FullInv'
<1> SUFFICES ASSUME FullInv, [Next]_vars PROVE NamesInv'
  BY NextInd DEF FullInv
<1>1. ASSUME NEW c \in Call, GetTaskStateId(c) \/ RegisterTaskLib(c) \/ DestroyTaskLib(c)
      PROVE  NamesInv'
  <2>1. PICK id : Reply(c, id)
    BY <1>1, Zenon DEF GetTaskStateId, RegisterTaskLib, DestroyTaskLib
  <2>2. UNCHANGED <<ids, states, arg, got>>
    BY <1>1, Zenon DEF GetTaskStateId, RegisterTaskLib, DestroyTaskLib, tables
  <2> QED
    BY <2>1, <2>2, ReplyNames, SMTT(30)
<1>2. CASE UNCHANGED <<ids, states, pc, hop, arg, got>>
  <2>1. \A d \in Call : At(d)' = At(d) /\ (Waiting(d)' <=> Waiting(d))
    BY <1>2, Zenon DEF At, Waiting
  <2>2. NameFindsState'
    BY <1>2, Zenon DEF FullInv, NamesInv, NameFindsState
  <2> QED
    BY <1>2, <2>1, <2>2, SMTT(30) DEF FullInv, NamesInv
<1>3. ASSUME NEW n \in Node, RootTask(n) PROVE NamesInv'
  BY <1>2, <1>3, Zenon DEF RootTask, tables
<1>4. CASE UNCHANGED vars
  BY <1>2, <1>4, Zenon DEF vars
<1> QED
  BY <1>1, <1>3, <1>4, StartNames, CreateNames, AskNames, CreateAtNames, DestroyNames, Zenon
  DEF Next, Step

\* As long as no client chooses ids itself, whatever is created and destroyed at
\* the same time, names lead to their states, so that no node ever has two states
\* of a name.
THEOREM NamesLead ==
  ASSUME NoOwnIds
  PROVE  Spec => [](NameFindsState /\ UniqueName)
<1>1. Init => FullInv
  <2> SUFFICES ASSUME Init PROVE FullInv
    BY SMTT(30)
  <2>1. BaseInv /\ Asking
    BY InitInd, Zenon DEF Init, Asking
  <2>2. NamesInv
    BY Zenon DEF Init, NamesInv, NameFindsState, Waiting
  <2> QED
    BY <2>1, <2>2 DEF FullInv
<1>2. FullInv => NameFindsState /\ UniqueName
  <2> SUFFICES ASSUME FullInv PROVE NameFindsState /\ UniqueName
    OBVIOUS
  <2>1. NameFindsState
    BY Zenon DEF FullInv, NamesInv
  <2>2. \A n \in Node : \A s \in states[n] : s \in Id \X Name
    BY Zenon DEF FullInv, BaseInv, TypeOK
  <2> QED
    BY <2>1, <2>2 DEF NameFindsState, UniqueName
<1> QED
  BY <1>1, <1>2, NamesNext, PTL DEF Spec

-----------------------------------------------------------------------------
(* When, moreover, no state is destroyed, the nodes agree on the ids.      *)

NoDestroy == \A c \in Call : Desc[c].op # "destroy"

\* Node 1 knows every id that a node has for a name or that a creation was given.
Agreed ==
  /\ \A n \in Node, a \in Name : ids[n][a] \in {Null, ids[1][a]}
  /\ \A c \in Call : pc[c] = "resume" => got[c] = ids[1][Desc[c].name]

\* A step that takes no state and no id of a name away.
Grows ==
  /\ \A n \in Node : states[n] \subseteq states'[n]
  /\ \A n \in Node, a \in Name : ids[n][a] # Null => ids'[n][a] = ids[n][a]

AgreeInv == FullInv /\ Agreed

\* A step that is answered and leaves the ids of names alone.
LEMMA ReplyAgrees ==
  ASSUME AgreeInv, NEW c \in Call, NEW id, Reply(c, id), UNCHANGED <<ids, states, got>>
  PROVE  Agreed' /\ Grows
<1>1. TypeOK /\ Agreed
  BY Zenon DEF AgreeInv, FullInv, BaseInv
<1>2. \A d \in Call : pc'[d] = "resume" => pc[d] = "resume"
  BY <1>1, WaitingAfterReply, Zenon DEF Waiting
<1> QED
  BY <1>1, <1>2, Zenon DEF Agreed, Grows

\* Node 1 gives a name its one id.
LEMMA AskAgrees ==
  ASSUME AgreeInv, NEW c \in Call, GetOrCreateTaskStateId(c)
  PROVE  Agreed' /\ Grows
<1>1. TypeOK /\ Agreed /\ Asking
  BY Zenon DEF AgreeInv, FullInv, BaseInv
<1>2. PICK b \in Name : b = Desc[c].name
  BY RegistryAssumption, Zenon DEF CallDesc
<1>3. 1 \in Node /\ \A d \in Call : Desc[d].name \in Name
  BY RegistryAssumption DEF Node, CallDesc
<1>4. PICK x : x = IF ids[1][b] = Null THEN <<1, unique[1]>> ELSE ids[1][b]
  BY Zenon
<1>5. /\ pc[c] = "ask" /\ pc' = [pc EXCEPT ![c] = "resume"]
      /\ got' = [got EXCEPT ![c] = x]
      /\ UNCHANGED states
  BY <1>2, <1>4, Zenon DEF GetOrCreateTaskStateId, IdNode
<1>6. \A k \in Node, a \in Name : ids'[k][a] = IF k = 1 /\ a = b THEN x ELSE ids[k][a]
  <2>1. CASE ids[1][b] = Null
    <3>1. ids' = [ids EXCEPT ![1][b] = x]
      BY <1>2, <1>4, <2>1, Zenon DEF GetOrCreateTaskStateId, IdNode
    <3>2. PICK f : f = [ids[1] EXCEPT ![b] = x]
      BY ZenonT(30)
    <3>3. ids' = [ids EXCEPT ![1] = f]
      BY <3>1, <3>2
    <3>4. \A a \in Name : f[a] = IF a = b THEN x ELSE ids[1][a]
      BY <1>1, <1>3, <3>2, Zenon DEF TypeOK
    <3> QED
      BY <1>1, <1>3, <3>3, <3>4, Zenon DEF TypeOK
  <2>2. CASE ids[1][b] # Null
    BY <1>2, <1>4, <2>2, Zenon DEF GetOrCreateTaskStateId, IdNode
  <2> QED
    BY <2>1, <2>2, Zenon
<1>7. Grows
  BY <1>4, <1>5, <1>6, Zenon DEF Grows
<1>8. \A k \in Node, a \in Name : ids'[k][a] \in {Null, ids'[1][a]}
  <2> SUFFICES ASSUME NEW k \in Node, NEW a \in Name, k # 1
               PROVE  ids[k][a] \in {Null, ids'[1][a]}
    BY <1>6, Zenon
  <2>1. ids[k][a] \in {Null, ids[1][a]}
    BY <1>1, Zenon DEF Agreed
  <2> QED
    BY <1>3, <1>4, <1>6, <2>1, Zenon
<1>9. ASSUME NEW d \in Call, pc'[d] = "resume" PROVE got'[d] = ids'[1][Desc[d].name]
  <2>1. CASE d = c
    BY <1>1, <1>2, <1>3, <1>5, <1>6, <2>1, Zenon DEF TypeOK
  <2>2. CASE d # c
    <3>1. pc[d] = "resume" /\ got'[d] = got[d]
      BY <1>1, <1>5, <1>9, <2>2, Zenon DEF TypeOK
    <3>2. ids[1][Desc[d].name] = got[d] /\ got[d] # Null
      BY <1>1, <3>1, Zenon DEF Agreed, Asking
    <3> QED
      BY <1>3, <1>4, <1>6, <3>1, <3>2, Zenon
  <2> QED
    BY <2>1, <2>2, Zenon
<1> QED
  BY <1>7, <1>8, <1>9, Zenon DEF Agreed

\* A creation uses the id that node 1 has for the name.
LEMMA ResumeAgrees ==
  ASSUME AgreeInv, NEW c \in Call, CreateResume(c)
  PROVE  Agreed' /\ Grows
<1>1. TypeOK /\ Agreed /\ Asking
  BY Zenon DEF AgreeInv, FullInv, BaseInv
<1>2. PICK n \in Node : n = At(c)
  BY <1>1, AtNode
<1>3. PICK b \in Name : b = Desc[c].name
  BY RegistryAssumption, Zenon DEF CallDesc
<1>4. PICK i \in Id : i = got[c]
  BY <1>1, Zenon DEF CreateResume, Asking, TypeOK
<1>5. /\ pc[c] = "resume" /\ CreateAt(n, c, i) /\ Reply(c, i) /\ UNCHANGED got
      /\ Null \notin Id /\ 1 \in Node
  BY <1>2, <1>4, RegistryAssumption DEF CreateResume, Node
<1>6. CASE UNCHANGED <<ids, states>>
  BY <1>5, <1>6, ReplyAgrees, Zenon
<1>7. CASE ~UNCHANGED <<ids, states>>
  <2>1. /\ ids' = NewIds(n, c, i)
        /\ states' = [states EXCEPT ![n] = @ \cup {<<i, b>>}]
    BY <1>3, <1>5, <1>7, Zenon DEF CreateAt, NewIds, tables
  <2>2. i = ids[1][b] /\ i # Null
    BY <1>1, <1>3, <1>4, <1>5, Zenon DEF Agreed
  <2>3. \A k \in Node, a \in Name :
          ids'[k][a] = IF k = n /\ a = b /\ ids[n][a] = Null THEN i ELSE ids[k][a]
    BY <1>1, <1>3, <2>1, NewIdsEntries
  <2>4. \A a \in Name : ids'[1][a] = ids[1][a]
    BY <1>5, <2>2, <2>3, Zenon
  <2>5. \A k \in Node : states'[k] = IF k = n THEN states[k] \cup {<<i, b>>} ELSE states[k]
    BY <1>1, <2>1, Zenon DEF TypeOK
  <2>6. Grows
    BY <2>3, <2>5, Zenon DEF Grows
  <2>7. \A k \in Node, a \in Name : ids'[k][a] \in {Null, ids'[1][a]}
    <3>1. ASSUME NEW k \in Node, NEW a \in Name
          PROVE  ids'[k][a] = ids[k][a] \/ ids'[k][a] = ids[1][a]
      BY <2>2, <2>3, Zenon
    <3> QED
      BY <1>1, <2>4, <3>1 DEF Agreed
  <2>8. \A d \in Call : pc'[d] = "resume" => pc[d] = "resume"
    BY <1>1, <1>5, WaitingAfterReply, Zenon DEF Waiting
  <2>9. \A d \in Call : pc'[d] = "resume" => got'[d] = ids'[1][Desc[d].name]
    <3>1. \A d \in Call : Desc[d].name \in Name
      BY RegistryAssumption DEF CallDesc
    <3> QED
      BY <1>1, <1>5, <2>4, <2>8, <3>1, Zenon DEF Agreed
  <2> QED
    BY <2>6, <2>7, <2>9, Zenon DEF Agreed
<1> QED
  BY <1>6, <1>7, Zenon

\* Every step keeps the agreement, and takes nothing away.
LEMMA AgreeNext ==
  ASSUME NoOwnIds, NoDestroy
  PROVE  AgreeInv /\ [Next]_vars => AgreeInv' /\ Grows
<1> SUFFICES ASSUME AgreeInv, [Next]_vars PROVE Agreed' /\ Grows
  BY NamesNext DEF AgreeInv
<1>0. TypeOK /\ Agreed /\ NamesInv
  BY Zenon DEF AgreeInv, FullInv, BaseInv
<1>1. CASE UNCHANGED <<ids, states, got>> /\ \A d \in Call : pc'[d] = "resume" => pc[d] = "resume"
  BY <1>0, <1>1, Zenon DEF Agreed, Grows
<1>2. ASSUME NEW c \in Call, GetTaskStateId(c) \/ RegisterTaskLib(c) \/ DestroyTaskLib(c)
      PROVE  Agreed' /\ Grows
  <2>1. PICK id : Reply(c, id)
    BY <1>2, Zenon DEF GetTaskStateId, RegisterTaskLib, DestroyTaskLib
  <2>2. UNCHANGED <<ids, states, got>>
    BY <1>2, Zenon DEF GetTaskStateId, RegisterTaskLib, DestroyTaskLib, tables
  <2> QED
    BY <2>1, <2>2, ReplyAgrees, SMTT(30)
<1>3. ASSUME NEW c \in Call, CreateTaskState(c) PROVE Agreed' /\ Grows
  <2>1. arg[c] = Null /\ UNCHANGED <<ids, states, got>>
    BY <1>0, <1>3, Zenon DEF CreateTaskState, NamesInv, tables
  <2>2. CASE \E id : Reply(c, id)
    BY <2>1, <2>2, ReplyAgrees, Zenon
  <2>3. CASE pc' = [pc EXCEPT ![c] = "ask"]
    BY <1>0, <1>1, <2>1, <2>3, Zenon DEF TypeOK
  <2> QED
    BY <1>3, <2>2, <2>3, Zenon DEF CreateTaskState
<1>4. ASSUME NEW c \in Call, Start(c) PROVE Agreed' /\ Grows
  BY <1>0, <1>1, <1>4, Zenon DEF Start, tables, TypeOK
<1>5. ASSUME NEW c \in Call, DestroyTaskState(c) PROVE Agreed' /\ Grows
  BY <1>5, Zenon DEF DestroyTaskState, NoDestroy
<1>6. ASSUME NEW n \in Node, RootTask(n) PROVE Agreed' /\ Grows
  BY <1>1, <1>6, Zenon DEF RootTask, tables
<1>7. CASE UNCHANGED vars
  BY <1>1, <1>7, Zenon DEF vars
<1> QED
  BY <1>2, <1>3, <1>4, <1>5, <1>6, <1>7, AskAgrees, ResumeAgrees, Zenon DEF Next, Step

\* What Runtime::ServerInit leaves.
LEMMA AgreeInit == Init => AgreeInv
<1> SUFFICES ASSUME Init PROVE AgreeInv
  BY SMTT(30)
<1>1. BaseInv /\ Asking
  BY InitInd, Zenon DEF Init, Asking
<1>2. NamesInv
  BY Zenon DEF Init, NamesInv, NameFindsState, Waiting
<1>3. Agreed
  BY Zenon DEF Init, Agreed
<1> QED
  BY <1>1, <1>2, <1>3 DEF AgreeInv, FullInv

\* Creations of a name on any nodes, in any order and at the same time, end up
\* with one id for it on all nodes.
THEOREM NodesAgree ==
  ASSUME NoOwnIds, NoDestroy
  PROVE  Spec => []AgreeOnId
<1>1. AgreeInv => AgreeOnId
  <2> SUFFICES ASSUME AgreeInv, NEW m \in Node, NEW n \in Node,
                      NEW s \in states[m], NEW t \in states[n], s[2] = t[2]
               PROVE  s[1] = t[1]
    BY Zenon DEF AgreeOnId
  <2>1. s[1] \in Id /\ t[1] \in Id /\ s[2] \in Name /\ t[2] \in Name /\ Null \notin Id
    <3>1. s \in Id \X Name /\ t \in Id \X Name
      BY Zenon DEF AgreeInv, FullInv, BaseInv, TypeOK
    <3> QED
      BY <3>1, RegistryAssumption
  <2>2. ids[m][s[2]] = s[1] /\ ids[n][t[2]] = t[1]
    BY Zenon DEF AgreeInv, FullInv, NamesInv, NameFindsState
  <2>3. ids[m][s[2]] \in {Null, ids[1][s[2]]} /\ ids[n][t[2]] \in {Null, ids[1][t[2]]}
    BY <2>1, Zenon DEF AgreeInv, Agreed
  <2> QED
    BY <2>1, <2>2, <2>3, Zenon
<1> QED
  BY <1>1, AgreeInit, AgreeNext, PTL DEF Spec

-----------------------------------------------------------------------------
(* When every node has the libraries, a creation creates on every node.    *)

LibsStay ==
  \A c \in Call : /\ Desc[c].op # "unregister"
                  /\ Desc[c].op = "create" =>
                       Desc[c].lib \in TaskLibs /\ \A n \in Node : <<n, Desc[c].lib>> \in LibDir

\* Node n has the state that the creation c is for, under the id of node 1.
Made(c, n) == <<ids[1][Desc[c].name], Desc[c].name>> \in states[n]

\* A creation has made the state on the nodes behind it, and returns its id.
Behind ==
  \A c \in Call : Desc[c].op = "create" =>
    /\ \A i \in 1..Len(Nodes(c)) : i < hop[c] \/ pc[c] = "done" => Made(c, Nodes(c)[i])
    /\ pc[c] = "done" => res[c] = ids[1][Desc[c].name]

Loaded == \A c \in Call, n \in Node : Desc[c].op = "create" => Desc[c].lib \in libs[n]

MadeInv == AgreeInv /\ Behind /\ Loaded

\* What is made stays made.
LEMMA MadeStays ==
  ASSUME MadeInv, Grows, NEW c \in Call, NEW n \in Node, Made(c, n)
  PROVE  Made(c, n)' /\ ids'[1][Desc[c].name] = ids[1][Desc[c].name]
<1>1. 1 \in Node /\ Desc[c].name \in Name /\ Null \notin Id
  BY RegistryAssumption DEF Node, CallDesc
<1>2. TypeOK
  BY Zenon DEF MadeInv, AgreeInv, FullInv, BaseInv
<1>3. <<ids[1][Desc[c].name], Desc[c].name>> \in Id \X Name
  BY <1>2, Zenon DEF Made, TypeOK
<1>4. ids[1][Desc[c].name] # Null
  BY <1>1, <1>3
<1>5. ids'[1][Desc[c].name] = ids[1][Desc[c].name]
  BY <1>1, <1>4, Zenon DEF Grows
<1> QED
  BY <1>5, Zenon DEF Made, Grows

\* The nodes of a call are nodes.
LEMMA NodesAreNodes ==
  ASSUME NEW c \in Call
  PROVE  /\ Len(Nodes(c)) \in Nat \ {0}
         /\ \A i \in 1..Len(Nodes(c)) : Nodes(c)[i] \in Node
<1>1. Desc[c].to \in 0..NumNodes /\ NumNodes \in Nat \ {0}
  BY RegistryAssumption DEF CallDesc
<1>2. CASE Desc[c].to = 0
  <2>1. Nodes(c) = [n \in 1..NumNodes |-> n]
    BY <1>2 DEF Nodes, Node
  <2>2. Len([n \in 1..NumNodes |-> n]) = NumNodes
    BY <1>1
  <2> QED
    BY <1>1, <2>1, <2>2 DEF Node
<1>3. CASE Desc[c].to # 0
  BY <1>1, <1>3 DEF Nodes, Node
<1> QED
  BY <1>2, <1>3, Zenon

\* A step that moves no creation on.
LEMMA BehindStays ==
  ASSUME MadeInv, Grows,
         \A c \in Call : Desc[c].op = "create" =>
           /\ hop'[c] = hop[c]
           /\ pc'[c] = "done" => pc[c] = "done" /\ res'[c] = res[c]
  PROVE  Behind'
<1> SUFFICES ASSUME NEW c \in Call, Desc[c].op = "create"
             PROVE  /\ \A i \in 1..Len(Nodes(c)) :
                         i < hop'[c] \/ pc'[c] = "done" => Made(c, Nodes(c)[i])'
                    /\ pc'[c] = "done" => res'[c] = ids'[1][Desc[c].name]
  BY Zenon DEF Behind, Nodes
<1>1. ASSUME NEW i \in 1..Len(Nodes(c)), i < hop'[c] \/ pc'[c] = "done"
      PROVE  Made(c, Nodes(c)[i])' /\ ids'[1][Desc[c].name] = ids[1][Desc[c].name]
  <2>1. PICK n \in Node : n = Nodes(c)[i]
    BY NodesAreNodes, Zenon
  <2>2. Made(c, n)
    BY <1>1, <2>1, Zenon DEF MadeInv, Behind
  <2>3. Made(c, n)' /\ ids'[1][Desc[c].name] = ids[1][Desc[c].name]
    BY <2>2, MadeStays, Zenon
  <2> QED
    BY <2>1, <2>3, Zenon DEF Made, Nodes
<1>2. 1 \in 1..Len(Nodes(c))
  BY NodesAreNodes
<1>3. pc'[c] = "done" => res'[c] = ids'[1][Desc[c].name]
  BY <1>1, <1>2, Zenon DEF MadeInv, Behind
<1> QED
  BY <1>1, <1>3, Zenon

\* A creation that moves on has made the state where it was.
LEMMA BehindMoves ==
  ASSUME MadeInv, Grows, NEW c \in Call, NEW n \in Node, n = At(c),
         Reply(c, ids'[1][Desc[c].name]), Made(c, n)'
  PROVE  Behind'
<1>0. TypeOK
  BY Zenon DEF MadeInv, AgreeInv, FullInv, BaseInv
<1> SUFFICES ASSUME NEW d \in Call, Desc[d].op = "create"
             PROVE  /\ \A i \in 1..Len(Nodes(d)) :
                         i < hop'[d] \/ pc'[d] = "done" => Made(d, Nodes(d)[i])'
                    /\ pc'[d] = "done" => res'[d] = ids'[1][Desc[d].name]
  BY Zenon DEF Behind, Nodes
<1>1. hop[d] \in 1..Len(Nodes(d)) /\ Len(Nodes(d)) \in Nat
  BY <1>0, NodesAreNodes, Zenon DEF TypeOK
<1>2. ASSUME NEW i \in 1..Len(Nodes(d)), i < hop[d] \/ pc[d] = "done"
      PROVE  Made(d, Nodes(d)[i])' /\ ids'[1][Desc[d].name] = ids[1][Desc[d].name]
  <2>1. PICK m \in Node : m = Nodes(d)[i]
    BY NodesAreNodes, Zenon
  <2>2. Made(d, m)
    BY <1>2, <2>1, Zenon DEF MadeInv, Behind
  <2>3. Made(d, m)' /\ ids'[1][Desc[d].name] = ids[1][Desc[d].name]
    BY <2>2, MadeStays, Zenon
  <2> QED
    BY <2>1, <2>3, Zenon DEF Made, Nodes
<1>3. CASE d # c
  <2>1. pc'[d] = pc[d] /\ hop'[d] = hop[d] /\ res'[d] = res[d]
    BY <1>0, <1>3, Zenon DEF Reply, TypeOK
  <2>2. 1 \in 1..Len(Nodes(d))
    BY NodesAreNodes
  <2>3. pc'[d] = "done" => res'[d] = ids'[1][Desc[d].name]
    BY <1>2, <2>1, <2>2, Zenon DEF MadeInv, Behind
  <2> QED
    BY <1>2, <2>1, <2>3, Zenon
<1>4. CASE d = c
  <2>1. res'[c] = ids'[1][Desc[c].name]
    BY <1>0, Zenon DEF Reply, TypeOK
  <2>2. ASSUME NEW i \in 1..Len(Nodes(c)), i < hop'[c] \/ pc'[c] = "done"
        PROVE  i < hop[c] \/ i = hop[c]
    <3>1. CASE LastHop(c)
      BY <1>1, <1>4, <3>1 DEF LastHop
    <3>2. CASE ~LastHop(c)
      <4>1. hop'[c] = hop[c] + 1 /\ pc'[c] = "at"
        BY <1>0, <3>2 DEF Reply, TypeOK
      <4> QED
        BY <1>1, <1>4, <2>2, <4>1
    <3> QED
      BY <3>1, <3>2, Zenon
  <2>3. ASSUME NEW i \in 1..Len(Nodes(c)), i < hop'[c] \/ pc'[c] = "done"
        PROVE  Made(c, Nodes(c)[i])'
    <3>1. CASE i < hop[c]
      BY <1>2, <1>4, <3>1, Zenon
    <3>2. CASE i = hop[c]
      BY <3>2, Zenon DEF Made, At, Nodes
    <3> QED
      BY <2>2, <2>3, <3>1, <3>2, Zenon
  <2> QED
    BY <1>4, <2>1, <2>3, Zenon
<1> QED
  BY <1>3, <1>4, Zenon

\* A state that is found under the id of the name is the state of the name.
LEMMA FoundIsMade ==
  ASSUME AgreeInv, NEW c \in Call, NEW n \in Node, TaskStateExists(n, ids[1][Desc[c].name])
  PROVE  Made(c, n)
<1>1. TypeOK /\ OneMeaning
  BY Zenon DEF AgreeInv, FullInv, BaseInv
<1>2. PICK b \in Name : b = Desc[c].name
  BY RegistryAssumption, Zenon DEF CallDesc
<1>3. PICK s \in states[n] : s[1] = ids[1][b]
  BY <1>2, Zenon DEF TaskStateExists
<1>4. s \in Id \X Name
  BY <1>1, Zenon DEF TypeOK
<1>5. s = <<s[1], s[2]>> /\ s[1] \in Id /\ s[2] \in Name /\ 1 \in Node
  BY <1>4, RegistryAssumption DEF Node
<1>6. Means(s[1], s[2]) /\ Means(s[1], b)
  BY <1>3, <1>5, Zenon DEF Means
<1>7. s[2] = b
  BY <1>1, <1>5, <1>6, Zenon DEF OneMeaning
<1> QED
  BY <1>2, <1>3, <1>5, <1>7, Zenon DEF Made

\* The first half of CreateTaskState moves on where the state is.
LEMMA CreateBehind ==
  ASSUME MadeInv, Grows, NEW c \in Call, CreateTaskState(c)
  PROVE  Behind'
<1>1. TypeOK /\ Agreed /\ NamesInv /\ AgreeInv
  BY Zenon DEF MadeInv, AgreeInv, FullInv, BaseInv
<1>2. PICK n \in Node : n = At(c)
  BY <1>1, AtNode
<1>3. PICK b \in Name : b = Desc[c].name
  BY RegistryAssumption, Zenon DEF CallDesc
<1>4. arg[c] = Null /\ UNCHANGED <<ids, states>> /\ Null \notin Id /\ Desc[c].op = "create"
  BY <1>1, RegistryAssumption, Zenon DEF CreateTaskState, NamesInv, tables
<1>5. CASE TaskStateExists(n, Known(n, c)) /\ Reply(c, Known(n, c))
  <2>1. PICK s \in states[n] : s[1] = Known(n, c)
    BY <1>5, Zenon DEF TaskStateExists
  <2>2. s \in Id \X Name
    BY <1>1, Zenon DEF TypeOK
  <2>3. Known(n, c) # Null
    BY <1>4, <2>1, <2>2
  <2>4. Known(n, c) = ids[n][b] /\ ids[n][b] # Null
    BY <1>3, <1>4, <2>3, Zenon DEF Known
  <2>5. Known(n, c) = ids[1][Desc[c].name]
    BY <1>1, <1>3, <2>4 DEF Agreed
  <2>6. Made(c, n)
    BY <1>1, <1>5, <2>5, FoundIsMade, Zenon
  <2>7. Made(c, n)' /\ ids'[1][Desc[c].name] = ids[1][Desc[c].name]
    BY <2>6, MadeStays, Zenon
  <2> QED
    BY <1>2, <1>5, <2>5, <2>7, BehindMoves, Zenon
<1>6. CASE pc' = [pc EXCEPT ![c] = "ask"] /\ UNCHANGED <<hop, res>>
  BY <1>1, <1>6, BehindStays, Zenon DEF TypeOK
<1> QED
  BY <1>2, <1>4, <1>5, <1>6, Zenon DEF CreateTaskState, FoundId

\* The second half makes it where it is not.
LEMMA ResumeBehind ==
  ASSUME MadeInv, Grows, NEW c \in Call, CreateResume(c)
  PROVE  Behind'
<1>1. TypeOK /\ Agreed /\ Asking /\ AgreeInv
  BY Zenon DEF MadeInv, AgreeInv, FullInv, BaseInv
<1>2. PICK n \in Node : n = At(c)
  BY <1>1, AtNode
<1>3. PICK i \in Id : i = got[c]
  BY <1>1, Zenon DEF CreateResume, Asking, TypeOK
<1>4. /\ CreateAt(n, c, i) /\ Reply(c, i) /\ i = ids[1][Desc[c].name]
      /\ Desc[c].op = "create" /\ 1 \in Node /\ Desc[c].name \in Name /\ i # Null
  <2>1. 1 \in Node /\ Desc[c].name \in Name /\ Null \notin Id
    BY RegistryAssumption DEF Node, CallDesc
  <2> QED
    BY <1>1, <1>2, <1>3, <2>1, Zenon DEF CreateResume, Agreed, Asking
<1>5. ids'[1][Desc[c].name] = i
  BY <1>4, Zenon DEF Grows
<1>6. Made(c, n)'
  <2>1. CASE TaskStateExists(n, i)
    BY <1>1, <1>4, <2>1, FoundIsMade, MadeStays, Zenon
  <2>2. CASE ~TaskStateExists(n, i)
    <3>1. states' = [states EXCEPT ![n] = @ \cup {<<i, Desc[c].name>>}]
      BY <1>4, <2>2, Zenon DEF CreateAt, MadeInv, Loaded
    <3>2. <<i, Desc[c].name>> \in states'[n]
      BY <1>1, <3>1, Zenon DEF TypeOK
    <3> QED
      BY <1>5, <3>2, Zenon DEF Made
  <2> QED
    BY <2>1, <2>2, Zenon
<1> QED
  BY <1>2, <1>4, <1>5, <1>6, BehindMoves, Zenon

\* Every step keeps what creations leave behind them, and the libraries.
LEMMA MadeNext ==
  ASSUME NoOwnIds, NoDestroy, LibsStay
  PROVE  MadeInv /\ [Next]_vars => MadeInv'
<1> SUFFICES ASSUME MadeInv, [Next]_vars PROVE Behind' /\ Loaded'
  BY AgreeNext DEF MadeInv
<1>0. TypeOK /\ Loaded /\ Grows
  BY AgreeNext, Zenon DEF MadeInv, AgreeInv, FullInv, BaseInv
<1>1. UNCHANGED libs => Loaded'
  BY <1>0, Zenon DEF Loaded
<1>2. ASSUME NEW c \in Call, GetTaskStateId(c) \/ RegisterTaskLib(c)
      PROVE  Behind' /\ Loaded'
  <2>1. PICK id : Reply(c, id)
    BY <1>2, Zenon DEF GetTaskStateId, RegisterTaskLib
  <2>2. Desc[c].op # "create"
    BY <1>2 DEF GetTaskStateId, RegisterTaskLib
  <2>3. \A d \in Call \ {c} : pc'[d] = pc[d] /\ hop'[d] = hop[d] /\ res'[d] = res[d]
    BY <1>0, <2>1, Zenon DEF Reply, TypeOK
  <2>4. Behind'
    BY <1>0, <2>2, <2>3, BehindStays, Zenon
  <2>5. \A n \in Node : libs[n] \subseteq libs'[n]
    <3>1. CASE GetTaskStateId(c)
      BY <3>1, Zenon DEF GetTaskStateId, tables
    <3>2. CASE RegisterTaskLib(c)
      BY <1>0, <3>2, Zenon DEF RegisterTaskLib, TypeOK
    <3> QED
      BY <1>2, <3>1, <3>2, Zenon
  <2> QED
    BY <1>0, <2>4, <2>5, Zenon DEF Loaded
<1>3. ASSUME NEW c \in Call, CreateTaskState(c) PROVE Behind' /\ Loaded'
  <2>1. UNCHANGED libs
    BY <1>3, Zenon DEF CreateTaskState, CreateAt, tables
  <2> QED
    BY <1>0, <1>1, <1>3, <2>1, CreateBehind, Zenon
<1>4. ASSUME NEW c \in Call, CreateResume(c) PROVE Behind' /\ Loaded'
  <2>1. UNCHANGED libs
    BY <1>4, Zenon DEF CreateResume, CreateAt, tables
  <2> QED
    BY <1>0, <1>1, <1>4, <2>1, ResumeBehind, Zenon
<1>5. ASSUME NEW c \in Call, GetOrCreateTaskStateId(c) PROVE Behind' /\ Loaded'
  BY <1>0, <1>1, <1>5, BehindStays, Zenon DEF GetOrCreateTaskStateId, TypeOK
<1>6. ASSUME NEW c \in Call, Start(c) PROVE Behind' /\ Loaded'
  BY <1>0, <1>1, <1>6, BehindStays, Zenon DEF Start, tables, TypeOK
<1>7. ASSUME NEW c \in Call, DestroyTaskState(c) \/ DestroyTaskLib(c) PROVE FALSE
  BY <1>7, Zenon DEF DestroyTaskState, DestroyTaskLib, NoDestroy, LibsStay
<1>8. CASE UNCHANGED <<libs, pc, hop, res>>
  BY <1>0, <1>1, <1>8, BehindStays, Zenon
<1>9. ASSUME NEW n \in Node, RootTask(n) PROVE Behind' /\ Loaded'
  BY <1>8, <1>9, Zenon DEF RootTask, tables
<1>10. CASE UNCHANGED vars
  BY <1>8, <1>10, Zenon DEF vars
<1> QED
  BY <1>2, <1>3, <1>4, <1>5, <1>6, <1>7, <1>9, <1>10, Zenon DEF Next, Step

\* Where every node loads the libraries and keeps them, the id that a creation
\* returns is the id of the state on every node of its domain, whatever creations
\* run at the same time.
THEOREM CreationsReachAll ==
  ASSUME NoOwnIds, NoDestroy, LibsStay
  PROVE  Spec => []CreatedEverywhere
<1>1. Init => MadeInv
  <2> SUFFICES ASSUME Init PROVE Behind /\ Loaded
    BY AgreeInit DEF MadeInv
  <2>1. Loaded
    BY Zenon DEF Init, Loaded, LibsStay
  <2>2. \A c \in Call : \A i \in 1..Len(Nodes(c)) : ~(i < hop[c]) /\ pc[c] # "done"
    BY NodesAreNodes DEF Init
  <2>3. \A c \in Call : pc[c] # "done"
    BY DEF Init
  <2> QED
    BY <2>1, <2>2, <2>3, Zenon DEF Behind
<1>2. MadeInv => CreatedEverywhere
  <2> SUFFICES ASSUME MadeInv, NEW c \in Call, Desc[c].op = "create", pc[c] = "done",
                      NEW i \in DOMAIN Nodes(c)
               PROVE  <<res[c], Desc[c].name>> \in states[Nodes(c)[i]]
    BY Zenon DEF CreatedEverywhere
  <2>1. i \in 1..Len(Nodes(c))
    <3>1. Nodes(c) \in Seq(Nat)
      BY RegistryAssumption DEF CallDesc, Nodes, Node
    <3> QED
      BY <3>1
  <2> QED
    BY <2>1, Zenon DEF MadeInv, Behind, Made
<1> QED
  BY <1>1, <1>2, MadeNext, PTL DEF Spec

-----------------------------------------------------------------------------
(* As long as node 1 has given no number past max_queues, states own their *)
(* queues, whatever is destroyed in between.                               *)

\* An id that node 1 gave after boot.
Given(id) == id[1] = 1 /\ id[2] >= BootUnique

\* Queues are those of the boot, or have an id that node 1 gave, so that no two
\* want one slot.
QueuesInv ==
  /\ unique[1] >= BootUnique
  /\ \A n \in Node, a \in Name : ids[n][a] # Null => Given(ids[n][a])
  /\ \A c \in Call : got[c] # Null => Given(got[c])
  /\ \A n \in Node : \A q \in queues[n] : q[2] < BootUnique \/ Given(q)
  /\ unique[1] <= MaxQueues => StateOwnsQueue

OwnInv == FullInv /\ QueuesInv

\* A creation finds its slot free, or taken by the queue of its id.
LEMMA ResumeQueues ==
  ASSUME OwnInv, NEW c \in Call, CreateResume(c)
  PROVE  QueuesInv'
<1>1. TypeOK /\ OneMeaning /\ Asking /\ QueuesInv
  BY Zenon DEF OwnInv, FullInv, BaseInv
<1>2. PICK n \in Node : n = At(c)
  BY <1>1, AtNode
<1>3. PICK b \in Name : b = Desc[c].name
  BY RegistryAssumption, Zenon DEF CallDesc
<1>4. PICK i \in Id : i = got[c]
  BY <1>1, Zenon DEF CreateResume, Asking, TypeOK
<1>5. /\ CreateAt(n, c, i) /\ UNCHANGED <<unique, got>>
      /\ Desc[c].op = "create" /\ Null \notin Id /\ Given(i)
  BY <1>1, <1>2, <1>4, RegistryAssumption, Zenon DEF CreateResume, Asking, QueuesInv
<1>6. i = <<1, i[2]>> /\ i[2] \in Nat /\ i[2] >= BootUnique /\ i[2] < unique[1] /\ unique[1] \in Nat
  <2>1. Means(i, b)
    BY <1>3, <1>4, <1>5, Zenon DEF Means
  <2>2. i[2] < unique[i[1]]
    BY <1>1, <2>1, Zenon DEF OneMeaning
  <2>3. i = <<i[1], i[2]>> /\ i[2] \in Nat /\ i[1] \in Node
    BY DEF Id
  <2> QED
    BY <1>1, <1>5, <2>2, <2>3 DEF Given, TypeOK
<1>7. CASE UNCHANGED tables
  BY <1>1, <1>5, <1>7, Zenon DEF tables, QueuesInv, StateOwnsQueue
<1>8. CASE ~UNCHANGED tables
  <2>1. queues' = [queues EXCEPT ![n] = @ \cup NewQueue(n, i)]
    BY <1>5, <1>8, Zenon DEF CreateAt
  <2>2. \A k \in Node : queues'[k] = IF k = n THEN queues[k] \cup NewQueue(n, i) ELSE queues[k]
    BY <1>1, <2>1, Zenon DEF TypeOK
  <2>3. NewQueue(n, i) \subseteq {i}
    BY DEF NewQueue
  <2>4. \A k \in Node : \A q \in queues'[k] : q[2] < BootUnique \/ Given(q)
    BY <1>1, <1>5, <2>2, <2>3, Zenon DEF QueuesInv
  <2>5. unique[1] <= MaxQueues => i \in queues'[n]
    <3> SUFFICES ASSUME unique[1] <= MaxQueues, i \notin NewQueue(n, i) PROVE i \in queues[n]
      BY <2>2, Zenon
    <3>1. ~(i[2] >= MaxQueues)
      BY <1>6, RegistryAssumption
    <3>2. PICK q \in queues[n] : q[2] = i[2]
      BY <3>1, Zenon DEF NewQueue
    <3>3. q[2] < BootUnique \/ Given(q)
      BY <1>1, Zenon DEF QueuesInv
    <3>4. q \in Id
      BY <1>1, Zenon DEF TypeOK
    <3>5. q = <<q[1], q[2]>>
      BY <3>4 DEF Id
    <3>6. q[1] = 1
      BY <1>6, <3>2, <3>3 DEF Given, BootUnique
    <3>7. q = i
      BY <1>6, <3>2, <3>5, <3>6, Zenon
    <3> QED
      BY <3>7, Zenon
  <2>6. /\ \A k \in Node, a \in Name : ids'[k][a] # Null => Given(ids'[k][a])
        /\ \A k \in Node : \A s \in states'[k] : s \in states[k] \/ (k = n /\ s = <<i, b>>)
    <3>1. CASE UNCHANGED <<ids, states>>
      BY <1>1, <3>1, Zenon DEF QueuesInv
    <3>2. CASE ~UNCHANGED <<ids, states>>
      <4>1. /\ ids' = NewIds(n, c, i)
            /\ states' = [states EXCEPT ![n] = @ \cup {<<i, b>>}]
        BY <1>3, <1>5, <3>2, Zenon DEF CreateAt, NewIds, tables
      <4>2. \A k \in Node, a \in Name : ids'[k][a] = i \/ ids'[k][a] = ids[k][a]
        BY <1>1, <4>1, NewIdsEntries
      <4>3. \A k \in Node : states'[k] = IF k = n THEN states[k] \cup {<<i, b>>} ELSE states[k]
        BY <1>1, <4>1, Zenon DEF TypeOK
      <4>4. \A k \in Node, a \in Name : ids'[k][a] # Null => Given(ids'[k][a])
        <5> SUFFICES ASSUME NEW k \in Node, NEW a \in Name, ids'[k][a] # Null
                     PROVE  Given(ids'[k][a])
          BY Zenon
        <5>1. CASE ids'[k][a] = i
          BY <1>5, <5>1, Zenon
        <5>2. CASE ids'[k][a] = ids[k][a]
          BY <1>1, <5>2, Zenon DEF QueuesInv
        <5> QED
          BY <4>2, <5>1, <5>2, Zenon
      <4> QED
        BY <4>3, <4>4, Zenon
    <3> QED
      BY <3>1, <3>2, Zenon
  <2>7. unique'[1] <= MaxQueues => StateOwnsQueue'
    <3> SUFFICES ASSUME unique[1] <= MaxQueues, NEW k \in Node, NEW s \in states'[k]
                 PROVE  s[1] \in queues'[k]
      BY <1>5, Zenon DEF StateOwnsQueue
    <3>1. CASE s \in states[k]
      BY <1>1, <2>2, <3>1, Zenon DEF QueuesInv, StateOwnsQueue
    <3>2. CASE k = n /\ s = <<i, b>>
      BY <2>5, <3>2, Zenon
    <3> QED
      BY <2>6, <3>1, <3>2, Zenon
  <2> QED
    BY <1>1, <1>5, <2>4, <2>6, <2>7, Zenon DEF QueuesInv
<1> QED
  BY <1>7, <1>8, Zenon

\* Node 1 gives the next number.
LEMMA AskQueues ==
  ASSUME OwnInv, NEW c \in Call, GetOrCreateTaskStateId(c)
  PROVE  QueuesInv'
<1>1. TypeOK /\ QueuesInv
  BY Zenon DEF OwnInv, FullInv, BaseInv
<1>2. PICK b \in Name : b = Desc[c].name
  BY RegistryAssumption, Zenon DEF CallDesc
<1>3. 1 \in Node /\ unique[1] \in Nat /\ unique[1] >= BootUnique /\ MaxQueues \in Nat
  <2>1. 1 \in Node /\ MaxQueues \in Nat
    BY RegistryAssumption DEF Node
  <2> QED
    BY <1>1, <2>1, Zenon DEF TypeOK, QueuesInv
<1>4. PICK new : new = <<1, unique[1]>>
  BY Zenon
<1>5. Given(new)
  BY <1>3, <1>4 DEF Given
<1>6. UNCHANGED <<states, queues>>
  BY Zenon DEF GetOrCreateTaskStateId
<1>7. CASE ids[1][b] = Null
  <2>1. /\ got' = [got EXCEPT ![c] = new] /\ ids' = [ids EXCEPT ![1][b] = new]
        /\ unique' = [unique EXCEPT ![1] = @ + 1]
    BY <1>2, <1>4, <1>7, Zenon DEF GetOrCreateTaskStateId, IdNode, Taken
  <2>2. unique'[1] = unique[1] + 1
    BY <1>1, <1>3, <2>1 DEF TypeOK
  <2>3. unique'[1] >= BootUnique /\ (unique'[1] <= MaxQueues => unique[1] <= MaxQueues)
    BY <1>3, <2>2 DEF BootUnique
  <2>4. \A k \in Node, a \in Name : ids'[k][a] = new \/ ids'[k][a] = ids[k][a]
    <3>1. PICK f : f = [ids[1] EXCEPT ![b] = new]
      BY ZenonT(30)
    <3>2. ids' = [ids EXCEPT ![1] = f]
      BY <2>1, <3>1
    <3>3. \A a \in Name : f[a] = IF a = b THEN new ELSE ids[1][a]
      BY <1>1, <1>3, <3>1, Zenon DEF TypeOK
    <3> QED
      BY <1>1, <1>3, <3>2, <3>3, Zenon DEF TypeOK
  <2>5. ASSUME NEW k \in Node, NEW a \in Name, ids'[k][a] # Null PROVE Given(ids'[k][a])
    <3>1. CASE ids'[k][a] = new
      BY <1>5, <3>1, Zenon
    <3>2. CASE ids'[k][a] = ids[k][a]
      BY <1>1, <2>5, <3>2, Zenon DEF QueuesInv
    <3> QED
      BY <2>4, <3>1, <3>2, Zenon
  <2>6. \A d \in Call : got'[d] # Null => Given(got'[d])
    BY <1>1, <1>5, <2>1, Zenon DEF QueuesInv, TypeOK
  <2>7. unique'[1] <= MaxQueues => StateOwnsQueue'
    BY <1>1, <1>6, <2>3, Zenon DEF QueuesInv, StateOwnsQueue
  <2> QED
    BY <1>1, <1>6, <2>3, <2>5, <2>6, <2>7, Zenon DEF QueuesInv
<1>8. CASE ids[1][b] # Null
  <2>1. got' = [got EXCEPT ![c] = ids[1][b]] /\ UNCHANGED <<ids, unique>>
    BY <1>2, <1>8, Zenon DEF GetOrCreateTaskStateId, IdNode
  <2>2. Given(ids[1][b])
    BY <1>1, <1>3, <1>8, Zenon DEF QueuesInv
  <2>3. \A d \in Call : got'[d] # Null => Given(got'[d])
    BY <1>1, <2>1, <2>2, Zenon DEF QueuesInv, TypeOK
  <2> QED
    BY <1>1, <1>6, <2>1, <2>3, Zenon DEF QueuesInv, StateOwnsQueue
<1> QED
  BY <1>7, <1>8, Zenon

\* Every step keeps slots and ids together.
LEMMA QueuesNext ==
  ASSUME NoOwnIds
  PROVE  OwnInv /\ [Next]_vars => OwnInv'
<1> SUFFICES ASSUME OwnInv, [Next]_vars PROVE QueuesInv'
  BY NamesNext DEF OwnInv
<1>0. TypeOK /\ QueuesInv /\ NamesInv /\ 1 \in Node /\ MaxQueues \in Nat
  BY RegistryAssumption DEF OwnInv, FullInv, BaseInv, Node
<1>1. CASE UNCHANGED <<ids, states, queues, got>> /\ unique'[1] \in Nat /\ unique[1] <= unique'[1]
  <2>1. unique'[1] >= BootUnique /\ (unique'[1] <= MaxQueues => unique[1] <= MaxQueues)
    BY <1>0, <1>1 DEF QueuesInv, BootUnique, TypeOK
  <2>2. unique'[1] <= MaxQueues => StateOwnsQueue'
    BY <1>0, <1>1, <2>1, Zenon DEF QueuesInv, StateOwnsQueue
  <2> QED
    BY <1>0, <1>1, <2>1, <2>2, Zenon DEF QueuesInv
<1>2. unique' = unique => unique'[1] \in Nat /\ unique[1] <= unique'[1]
  BY <1>0 DEF TypeOK
<1>3. ASSUME NEW c \in Call, GetTaskStateId(c) \/ RegisterTaskLib(c) \/ DestroyTaskLib(c)
      PROVE  QueuesInv'
  BY <1>1, <1>2, <1>3, Zenon DEF GetTaskStateId, RegisterTaskLib, DestroyTaskLib, tables
<1>4. ASSUME NEW c \in Call, CreateTaskState(c) PROVE QueuesInv'
  <2>1. arg[c] = Null
    BY <1>0, <1>4, Zenon DEF CreateTaskState, NamesInv
  <2> QED
    BY <1>1, <1>2, <1>4, <2>1, Zenon DEF CreateTaskState, tables
<1>5. ASSUME NEW c \in Call, Start(c) PROVE QueuesInv'
  <2>1. PICK k \in {1, 2} : unique' = [unique EXCEPT ![Desc[c].node] = @ + k]
    BY <1>5 DEF Start, Taken
  <2>2. unique'[1] \in Nat /\ unique[1] <= unique'[1]
    BY <1>0, <2>1 DEF TypeOK
  <2> QED
    BY <1>1, <1>5, <2>2, Zenon DEF Start, tables
<1>6. ASSUME NEW n \in Node, RootTask(n) PROVE QueuesInv'
  <2>1. unique'[1] \in Nat /\ unique[1] <= unique'[1]
    BY <1>0, <1>6 DEF RootTask, TypeOK
  <2> QED
    BY <1>1, <1>6, <2>1, Zenon DEF RootTask, tables
<1>7. ASSUME NEW c \in Call, DestroyTaskState(c) PROVE QueuesInv'
  <2>1. PICK n \in Node : n = At(c)
    BY <1>0, AtNode
  <2>2. PICK D : D = {s \in states[n] : s[1] = arg[c]}
    BY Zenon
  <2>3. /\ states' = [states EXCEPT ![n] = @ \ D]
        /\ ids' = [ids EXCEPT ![n] = [a \in Name |-> IF \E s \in D : s[2] = a THEN Null ELSE @[a]]]
        /\ UNCHANGED <<unique, queues, got>>
    BY <1>7, <2>1, <2>2, Zenon DEF DestroyTaskState
  <2>4. \A k \in Node : states'[k] \subseteq states[k]
    BY <1>0, <2>3, Zenon DEF TypeOK
  <2>5. \A k \in Node, a \in Name : ids'[k][a] = Null \/ ids'[k][a] = ids[k][a]
    BY <1>0, <2>3, Zenon DEF TypeOK
  <2>6. ASSUME NEW k \in Node, NEW a \in Name, ids'[k][a] # Null PROVE Given(ids'[k][a])
    <3>1. ids'[k][a] = ids[k][a]
      BY <2>5, <2>6, Zenon
    <3> QED
      BY <1>0, <2>6, <3>1, Zenon DEF QueuesInv
  <2>7. unique'[1] <= MaxQueues => StateOwnsQueue'
    BY <1>0, <2>3, <2>4, Zenon DEF QueuesInv, StateOwnsQueue
  <2> QED
    BY <1>0, <2>3, <2>6, <2>7, Zenon DEF QueuesInv
<1>8. CASE UNCHANGED vars
  BY <1>1, <1>2, <1>8, Zenon DEF vars
<1> QED
  BY <1>3, <1>4, <1>5, <1>6, <1>7, <1>8, AskQueues, ResumeQueues, Zenon DEF Next, Step

\* A state has the queue of its id until the counter of node 1 passes max_queues,
\* whatever is created and destroyed at the same time.
THEOREM StatesOwnQueues ==
  ASSUME NoOwnIds
  PROVE  Spec => [](unique[1] <= MaxQueues => StateOwnsQueue)
<1>1. Init => OwnInv
  <2> SUFFICES ASSUME Init PROVE FullInv /\ QueuesInv
    BY DEF OwnInv
  <2>1. FullInv
    BY AgreeInit, Zenon DEF AgreeInv
  <2>2. unique[1] >= BootUnique
    BY RegistryAssumption DEF Init, Node, BootUnique
  <2>3. \A n \in Node : \A q \in queues[n] : q[2] < BootUnique
    BY DEF Init, BootUnique
  <2> QED
    BY <2>1, <2>2, <2>3, Zenon DEF Init, QueuesInv, StateOwnsQueue
<1>2. OwnInv => (unique[1] <= MaxQueues => StateOwnsQueue)
  BY DEF OwnInv, QueuesInv
<1> QED
  BY <1>1, <1>2, QueuesNext, PTL DEF Spec
=============================================================================
