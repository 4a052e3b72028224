# A TLA+ development of hermes_run

hermes_run is a per-node daemon that executes *tasks* for client processes. Clients place
tasks in shared-memory queues; worker threads poll the queues and run the tasks; a task for
another node is sent there, run, and its outputs returned. This directory models that
machinery in TLA+, checks small instances of it with TLC, and proves the main safety
properties for all instances with TLAPS.

Paths below are relative to the repository. `PROJECT.json` holds the exact correspondence
(every definition with its source lines), the list of runs, the mutants, the hazards and the
theorems.

## 1. Inventory

| part | where | state | operations |
|---|---|---|---|
| worker | `include/hermes_run/work_orchestrator/worker.h`, `src/worker.cc` | `work_queue_`, `poll_queues_`, `group_map_`, the scan offset | `Loop`, `Run`, `PollGrouped`, `CheckTaskGroup`, `RemoveTaskGroup`, `PopTask`, `EndTask`, `RunBlocking`, `RunPreemptive` |
| task | `include/hermes_run/task_registry/task.h` | `task_flags_`, `delcnt_`, `ctx_` | flag reads and writes, `Wait`, `Yield` |
| client API | `include/hermes_run/api/hermes_run_client.h` | `unique_` in shared memory | `NewTask`, `Emplace`, `DelTask`, `MakeTaskStateId`, `MakeTaskNodeId` |
| queues | `include/hermes_run/queue_manager/queues/hshm_queue.h`, `queue_manager*.h` | lanes, `num_scheduled_`, `queue_map_` | `Emplace`, `CreateQueue`, `GetQueue` |
| queue policy | `tasks_required/worch_queue_round_robin` | `count_` | `Schedule` |
| task registry | `include/hermes_run/task_registry/task_registry.h` | `libs_`, `task_state_ids_`, `task_states_` | register and destroy libraries, create and destroy states, look ids up |
| admin library | `tasks_required/hermes_run_admin` | `queue_sched_` | the tasks that call the registry, the queue manager and the policies |
| process queue | `tasks_required/proc_queue` | `phase_` of a push | `Push` |
| remote queue | `tasks_required/remote_queue` | parameters, transfers, replicas | `Disperse`, `Push`, `RpcPushSmall`, `RpcPushBulk`, `RpcExec`, `RpcComplete` |
| task classes | `*_tasks.h`, `*_methods.h` and `*_lib_exec.h` of each library | members of a task, `method_` | the switches `Run`, `Del`, `SaveStart`, `LoadStart`, `SaveEnd`, `LoadEnd`, `ReplicateStart`, `ReplicateEnd`, and what each class serialises |
| serialisation, RPC | `include/hermes_run/network/` | transfer buffers | `SaveStart`, `LoadStart`, `SaveEnd`, `LoadEnd`, `SyncCall`, `IoCall` |
| runtime | `src/hermes_run_runtime.cc`, `include/hermes_run/api/hermes_run_runtime.h` | what boot leaves | `ServerInit`, `RunDaemon`, `ResolveDomainId` |

How they interact. A client allocates a task and emplaces it in a lane. The policy's
`ScheduleTask`, itself a task that worker 0 polls for ever, hands each new lane to one
worker. The worker scans its lanes; a task runs if its *group* is free or held by the same
root task. A handler may emplace subtasks and wait for them (a push for its payload, a
creation for an id). A task whose domain is not this node is serialised and handed to a
`PushTask` of the remote queue, which runs on an Argobots thread, calls the nodes of the
domain one after the other and finally marks the dispersed task complete. Whoever owns a
completed task deletes it.

What makes it hard: three kinds of threads (clients, workers, Argobots threads) share a flag
word that is updated by plain read-modify-writes; lanes are bounded and popped only at their
head; coroutines give way in the middle of a handler while they hold a group; creations on
several nodes race for ids and names; a reply may be empty, and an error ends a process.

## 2. The modules

| module | models | extended by |
|---|---|---|
| `Worker` | one node: clients, lanes, workers, task groups, the handlers' effects on flags, Argobots threads, shutdown | `MCWorker`, `WorkerLemmas`, `WorkerSteps`, `WorkerMemory`, `WorkerProofs` |
| `Scheduler` | the assignment of lanes to workers and the change of policy | `MCScheduler`, `SchedulerProofs` |
| `Registry` | registries, id counters and queue maps of all nodes, and the admin tasks that change them | `MCRegistry`, `RegistryProofs` |
| `RemoteQueue` | a dispersed task from `Disperse` to its completion, at both ends | `MCRemoteQueue`, `RemoteQueueProofs` |
| `RemoteCall` | what dispersing promises: the nodes that have the task state run the task in order and once each, it is complete only after all of them, and one with outputs only if no node lacks the state | refined by `RemoteQueue` |
| `TaskLib` | one task as its library handles it: dispatch by method, serialisation of its members, replicas and their outputs | `MCTaskLib`, `TaskLibProofs` |
| `TaskTypes` | every task class and every switch of the seven libraries, as constants | `MCTaskLib` |

The modules meet at stated interfaces. `Worker` assumes that every lane is polled through
one work entry of one worker (`LaneAssumption`); `Scheduler` proves it (`LanesPolledOnce`).
`Registry` assumes that two creations on one node do not overlap (`CreateTurn`); that is
`GroupsExclude` of `WorkerProofs`. `Worker` has the Argobots thread's calls as one step
(`ThreadRpc`), which `RemoteQueue` opens up, and `RemoteQueue` has the run of a replica as
one step (`WorkerRun`), which `Worker` opens up. `RemoteQueue` takes a reply as a set of
outputs; `TaskLib` says what is in it, member by member.

### Worker

A task's static attributes are a record of `Desc`: the kind of its handler, its lane, its
root, what its group is made from, its subtask, whether it is fire and forget or remote. The
kinds are the ways in which handlers of the repository treat their task: complete it at once
(`oneshot`), `proc_queue` Push (`push`), `CreateTaskState` (`create`), `remote_queue` Push on
an Argobots thread (`thread`), a `ScheduleTask` (`resident`), a task whose state is not
registered (`orphan`).

Variables follow the code: `lane` (tasks in the ring), `entry` (`complete_` of the
`LaneData`), `flags` (`task_flags_`), `delcnt`, `phase` and `stack` (the resume point and the
coroutine's stack), `group` (`group_map_` of each worker), and `pc`, `ent`, `off`, `iter`,
`cur`, `count`, `final` for where each worker is in `Loop`, `Run` and `PollGrouped`. One
iteration of `PollGrouped` takes several steps, since other threads can act between them:
peek and run (`PollComplete`, `PollOrphan`, `PollHold`, `Disperse`, one action per handler),
the two read-modify-writes after `Disperse` (`FlagRead`, `FlagWrite`), the completion check
(`CheckIncomplete`, `CheckComplete`), `EndTask`. A handler that nobody can observe in the
middle is one step. `PushSchedule` and `PushCheck` are two steps of one call, because
`kSchedule` falls through to `kWaitSchedule` after another worker may have run the subtask.

Three details of the code shape the model. The group key is the lane id alone, since
`LocalSerialize` empties the vector it is given before it appends (`GroupKey`). An entry that
is completed behind the head is passed over and popped when it becomes the head (`PopTask`).
`count_` of a work entry is not copied, so that its first value is arbitrary (`Init`).

### Scheduler

`Schedule` goes through `queue_map_` one lane group per step (`ScheduleGroup`), so that queues
can be created and workers can merge `poll_queues_` into `work_queue_` (`PollQueues`) between
groups as far as the code allows: admin tasks and policies run on worker 0, one at a time
(`Free`). Work queues are represented by how often they hold each lane; that is what the
properties are about. `SetWorkOrchQueuePolicy` tells the current `ScheduleTask` to end and is
run again until it has. The fixed capacity of `poll_queues_` (1024, `worker.h:145`) is left out: the
instances hand out far fewer lanes between two merges.

### Registry

An id is `<<node, unique>>`. A client call is an admin task that is carried out on the nodes
of its domain in turn (`hop`), each replica starting with the id the client sent (`arg`) and
each reply overwriting the client's (`res`). `CreateTaskState` is split where it gives way:
`CreateTaskState` up to the question, `GetOrCreateTaskStateId` on node 1, `CreateResume`.
`RootTask` stands for all other tasks, which draw numbers from the same counter. `queues`
holds the ids of the queues; two ids with the same number fall on the same slot (`NewQueue`).

### RemoteQueue

Per call: the loop of the `PushTask` (`pc`, `hop`), the flags of the dispersed task and those
serialised in `Disperse`, the outputs, the RPC handler (`srv`), the replica and its flags, the
data buffers on both sides, and `kept`, the allocations not yet freed. The worker's
`DisableRun` may come at any time after `Disperse`. A node without the task state answers with
an empty reply (`RpcExecNoState`); its handler goes on without a task (`null`) and ends the
process when it gets to `RpcComplete`, which may be long after the caller has gone on. A caller
that loads outputs from an empty reply, or whose call throws, ends (`down`); a task without
outputs loads nothing and takes the empty reply for a success. Nothing restarts.

### TaskLib

A library sees `Task *` only: each of its operations switches on a method and casts. The
callers take that method from three places: the task itself (`Disperse`), the request
(`RpcExec`, `RpcComplete`, `LoadEnd`), the replica (`Run`, `GetGroup` and `Del`; the handler may
have turned a `CreateTaskState` into a `Construct` by then). A class is a record (`ClassDef`): its members, those the
constructor fills in, what it writes and reads at the start and at the end, what travels as a
`DataTransfer`, which members have a slot for every replica, and what its handler and its
client use. `TaskTypes` has one such record per class and one function per switch. An archive
is a sequence of typed values that is read by position (`Serialize`, `Read`); a mismatch leaves
`Junk`, as an uninitialised member does. The cycle is one action per operation: `Disperse`,
then for each node `RpcExec`, `RunReplica`, `RpcComplete` and `ClientHandlePushReplicaOutput`,
then `ClientHandlePushReplicaEnd`; a task of the local domain takes `RunLocal`. `depth` counts the groups joined and not
left by `GetGroup`'s answers before and after the run (`Counted`), `heap` is the task and its
replicas that are allocated (`EndTask`, `Del`). What interleaves
and what fails is left to `Worker` and `RemoteQueue`. `WellDefined` states the conditions on a
class; TLC evaluates it for every class of the repository.

External parts, modelled from how the code uses them: the hshm ring (a bounded FIFO whose
`emplace` waits for a slot), Argobots threads, Thallium's synchronous calls and bulk
transfers, and the exceptions of the archive library.

## 3. Runs

Passing runs. Sizes are distinct states.

| run | size | what it shows |
|---|---|---|
| `worker_local` | 156,992 | Two workers. A push whose subtask, made fire and forget, runs on the other worker; two creations of different roots that ask for ids in their own lane; a fire-and-forget task. `GroupExclusion`, `LeavesOpenGroup`, `GroupFifo`, `NoUseAfterFree`, `FreedOnce`, `TypeOK`. |
| `worker_shared` | 15,464 | One worker for all lanes, so that everything ordered meets under one key; a stop at any step. Under fairness `EveryTaskEnds`, `EveryTaskFreed`, `WorkersExit`. |
| `worker_remote` | 88,380 | A remote task, a remote creation and a resident task, one worker for the module's and the remote queue's lane. `NoUseAfterFree`, `StackFreedOnce`, `QuietAfterComplete`, `EveryTaskEnds`. |
| `scheduler` | 2,838 | A second policy replaces the first while a queue is created, each at any point of a pass. `LaneOnce`, `LowOnWorker0`, `OneScheduler`, `Balanced`, and under fairness `EveryLanePolled`, `EveryPolicySet`. |
| `registry_create` | 21,126 | Two nodes create one name everywhere, a client creates another with an id of its own, one looks up. `AgreeOnId`, `CreatedEverywhere`, `IdNamesOne`, and under fairness `EveryCallEnds`. |
| `registry_destroy` | 14,524 | Creations and destructions of one name, global and on one node, while its library is registered and unregistered. `NameFindsState`, `StateOwnsQueue`. |
| `remote_mix` | 35,937 | A fire-and-forget metadata task, a bulk write and a creation to all nodes at once. `OutputsOfAll`, `ReplicaAlive`, `ReplicaFresh`, `ReplicasDeleted`, and under fairness `EveryCallEnds`. All nodes have the states here; `remote_lack` is about those that do not. |
| `remote_lack` | 19,849 | One node lacks the state of a metadata task and a bulk read, the other that of a task without outputs, so that processes fail. `OutputsOfAll`, the refinement `KeepsPromise`, and under fairness `NoCallHangs`: a call ends or its process does. |
| `task_classes` | 632 | Each class of each library, in place and on three nodes. `InputsArrive`, `OutputsArrive`, `DispatchSound`, `GivenBack`. |

Runs that end in a violation, each against what the repository says of itself:

| run | property | what happens |
|---|---|---|
| `worker_race_lost` | `EveryTaskEnds` | Another worker polls the remote queue. The Argobots thread's `SetModuleComplete` falls between the read and the write of the first worker's `DisableRun`; the completion is overwritten and `Wait` ("Wait for task to complete", `task.h:402`) never returns. |
| `worker_pinned` | `EveryTaskEnds` | A `ScheduleTask` never leaves the head of the admin lane, so nothing behind it is popped; once the lane is full, a client's emplace waits for ever. |
| `registry_slots` | `QueueIfRoom` | `queue_map_` is indexed by a counter that every root task advances. After `max_queues` of them a new state has no slot, although few queues exist ("Maximum number of allocatable IPC queues", `config_server.h:37`). |

Every property of a passing run has a mutant in `PROJECT.json`: a named faulty variant of a
definition (an operator marked "Faulty" next to the original) with which TLC finds the
property violated.

### Bounds

`Depth` (lane slots) is 2 or 3 where the code has 256, `MaxIter` 3 or 4 for 1024 and
`PollEvery` 2 for 4096. What matters of them is that a lane can be full (`worker_local`,
`worker_pinned`), that a scan covers a lane (`Depth <= MaxIter`, as in the default
configuration) and that a lane is skipped in some Runs. In the runs with liveness properties
that pass, lanes hold all tasks of the scenario; `worker_pinned` is about a full one.
`MaxU32` stands for the value an unsigned `0 - 1` gives; it only has to exceed the number of
tasks. `MaxQueues` is the default 1024, and 12 in `registry_slots`, where `MaxUnique` lets
the counter get there; `MaxUnique` bounds the numbers drawn by other tasks (one or two per
node otherwise). Two nodes suffice for the registry and remote runs: calls visit nodes in
turn and node 1 alone gives ids, so that a first and a later node are the cases that differ. `task_classes` has three (a
first, a middle and a last slot for outputs).
The theorems below are for any number.

Calls and tasks of a scenario happen once, so that the registry and remote models stop when
all are done; `CHECK_DEADLOCK FALSE` is for that, and for workers that have left `Loop`.

### Fairness

Workers spin, so that each keeps taking steps (`WF` of `WorkerNext`); Argobots threads are
scheduled; a client that has allocated a task goes on. No client has to start a task, nobody
has to stop the runtime, and no error has to occur. In `Scheduler` and `Registry`, where the
turns of worker 0 are abstracted, strong fairness of a task's step says that worker 0 visits
each of its tasks again and again, which `PollGrouped` does by going through the lane from
its head on every Run.

## 4. Theorems

All proofs follow one plan: a type invariant and what the properties lack are joined in an
inductive invariant; one lemma per action shows that it is kept; the theorems follow. No bound
of section 3 is assumed: constants are constrained only by the named `ASSUME`s of the modules
(shapes of the descriptions, `Depth <= MaxIter`, at least two workers for the scheduler, at
least two nodes for `RemoteQueue`, well-defined classes for `TaskLib`).

**`WorkerProofs`**: `TypeCorrect`, `GroupsExclude`, `DepthNeverWraps`. Group exclusion, with
`node_depth_` equal to the *number* of tasks that hold the key, is not inductive alone. It
needs that a lane holds each task once and only tasks emplaced in it (`LaneInv`), that a task
about to be emplaced was never in a lane (`FreshInv`), that the entry a worker is looking at
stays where it is while other threads append (`ScanInv`), and that a handler waits or
completes only after the task has begun (`StartInv`). `WorkerLemmas`
has facts about groups, lanes and the scan; `WorkerSteps` the steps of clients, threads, `Join`
and the scan, the `Run` methods and the completion of a task, and the order within a lane;
`WorkerMemory` the memory of tasks; `WorkerProofs` the cardinality argument (`GroupJoin`,
`GroupLeave`) and the theorems. A step
lemma shows `Keeps`: the other conjuncts hold afterwards and the holders moved as `GroupMove`
says. That `RemoveTaskGroup` never counts below zero is a corollary.

`GroupsInOrder` (`GroupFifo`) assumes that ordered tasks of this node which share a key have
different roots (`OnePerRoot`), as in `worker_local`; section 5 says what happens otherwise.
`FifoInv` adds to `IndInv` that no task waits in a lane in front of one that holds its group
(`HeldFirst`) and that a scan passes over a waiting task only while the group is held
(`PassedAt`). The two need each other: a task joins a group that is free, hence the scan has
passed over none that waits; and the pop that frees the group in the middle of a scan is that
of the holder, in front of which none waits. Every step either pops the entry looked at (`Pops`)
or leaves the lanes alone but for new entries at their ends (`Calm`).

`MemorySafe` (`NoUseAfterFree`), `DeletedOnce` (`FreedOnce`), `Quiet` (`QuietAfterComplete`)
and `StackAllocated` (`StackFreedOnce`) assume that the `PushTask`s of a remote task are polled
by the worker of the task (`Together`). Without it updates of the flag word get lost, as in
`worker_race_lost`. Behaviours without remote tasks satisfy it, and
so do all with one worker. Two `ASSUME`s of `Worker` are used here only: the task with which a
creation asks for an id is not fire-and-forget (`CreateAssumption`), and workers are not tasks
(`ActorAssumption`). `NoUseAfterFree` lists who may still reach a task; it is inductive only
with the reason why nobody else may. A task is *gone* once its entry is passed over or popped
and no worker has it in hand. Three invariants hold together (`MemInductive`):

- `MemInv`: every complete or deleted task is gone (`Parted`), the worker in `EndTask` has the
  task for itself (`Ending`), a handler which has completed its task is not called again and a
  push completes after its subtask, which its client deletes with it (`Finished`), and a task is
  deleted by the worker exactly if nobody waits for it (`Deleter`).
- `RemInv`: a dispersed task has its runs disabled and is no coroutine once the worker has
  updated its flag word (`Disabled`), the thread starts after these updates and a flag word that
  either of them has read is unchanged until it is written back (`Current`), and the task stays
  in its lane until the thread has completed it (`Carried`). This is where `Together` is used:
  the worker that is between the read and the write of `DisableRun` is the one that would have
  to start the thread.
- `StackInv`: only creations are coroutines, and one that runs here, has begun to wait or is
  complete, and is still in its lane has a live stack.

`WorkerMemory` has one lemma per kind of step for each of the three. `NextMem` also shows that
no step writes the flags of a task that is gone, which gives `Quiet`.

**`SchedulerProofs`**: `SchedulerTypes`, `LanesPolledOnce`, `AdminOnWorkerZero`,
`PoliciesExclude`, `LanesBalanced`. The strengthening is `OnlyScheduled`: a lane that is in some
work entry lies below `num_scheduled_` of its group, which is why a second pass does not hand it
out again. `LanesBalanced` (`Balanced`) adds `RoundRobin`: the lanes that the policy has dealt
are numbered by the values its `count_` has had, each number once, and the number of a lane
names its worker. By `Fair`, of the numbers below a bound any two residues have equally many, or
one more.

**`RegistryProofs`**: `RegistryTypes`, `IdsMeanOneState`, `NamesLead`. An id *means* a name if
a registry or a creation under way connects them; ids with a meaning lie below the counter of
their node and have one meaning (`OneMeaning`). `NamesLead` shows `NameFindsState` and
`UniqueName` under the assumption that no client chooses ids itself (`NoOwnIds`); without it
neither holds (section 5). Three more theorems build on it. `NodesAgree` (`AgreeOnId`, no
destructions): node 1 knows every id that any node or any creation under way has for a name
(`Agreed`), and never changes its mind. `CreationsReachAll` (`CreatedEverywhere`, libraries
stay registered as well): a creation has made the state on the nodes it has passed (`Behind`),
and states stay. `StatesOwnQueues` (`StateOwnsQueue` until the counter of node 1 reaches
`MaxQueues`): every queue is one of boot's or has an id that node 1 gave, hence no two states
fall on one slot (`QueuesInv`).

**`RemoteQueueProofs`**: `RemoteTypes`, `ReplicasStayAlive`, `ReplicasStartFresh`,
`OutputsAreThere`, `ReplicasFreed`, `PromiseKept`. The invariant lists, for each call, the combinations of
loop, handler, replica and reply that can occur, with what has been loaded so far and whose
data the handler holds. `ReplicasFreed` adds what a node holds for a call at each point of the
handler (`Held`). `PromiseKept` is the refinement: `RemoteQueue` implements `RemoteCall`
with `ended` mapped to the calls whose `PushTask` is done, for any choice of the nodes that have
a state. The nodes that have run a call are those in front of the current hop that have its state
(`Before`), or these and the hop itself (`After`); a call with outputs never gets past a node
without the state (`Stuck`).

**`TaskLibProofs`**: `TaskInputsArrive`, `TaskOutputsArrive`, `TaskDispatchSound`,
`TaskGivesBack`, for every number of nodes and every set of classes that satisfy `WellDefined`. The invariant says what
the `PushTask` carries (`Dispersed`), which outputs have been collected (`Collected`), and what
the replica (`Replicated`) and the reply (`Replied`) hold at each point.

Only model-checked: everything temporal (`EveryTaskEnds`, `EveryTaskFreed`, `WorkersExit`,
`EveryLanePolled`, `EveryPolicySet`, both `EveryCallEnds`, `NoCallHangs`), since fairness and `ENABLED` are
out of the prover's reach. Every invariant, action property and refinement that a passing run checks is
proved, some under the assumptions named above.

## 5. Where properties stop

The properties are stated for what the code does achieve. Beyond that, the models show the
following, which no run of its own records:

- The race of `worker_race_lost` has a second outcome: the thread writes back a flag word that it
  read before `DisableRun`, `TASK_DISABLE_RUN` ("This task should not be run at this time",
  `task.h:42`) is lost and the worker disperses the task again. `DispersedOnce` states that this
  does not happen; with the configuration of `worker_race_lost` TLC finds it violated. Under
  `Together` it is a part of `RemInv`.
- `GroupFifo` has one task per root. Two asynchronous creations under one `TaskNode`
  overtake a waiting creation of another root, since `CheckTaskGroup` admits every task of
  the recorded root (`worker.h:301`; "Tasks apart of the same task group need to be ordered",
  `task.h:75`).
- Tasks of different groups in one lane exclude each other (`worker.h:289`, below "Ensure that
  concurrent requests are not serialized").
- A worker that emplaces a subtask into a full lane that it polls itself never returns
  (`proc_queue.cc:35`).
- After a stop each worker runs once more and leaves; unfinished tasks are abandoned
  (`worker.cc:22`; "Finishing up last requests", `hermes_run_runtime.h:159`).
- A client that chooses an id for a name which node 1 has reserved makes a state its name
  does not lead to, and the next creation makes a second one. Ids chosen on two nodes may
  have the same number, and then the second state gets no queue.
- Destroying a state leaves its queue ("Destroy state + queue", `small_message.h:38`).
- A creation on a node without the library returns an id as if it had succeeded.
- While a global destruction is under way, nodes may hold a name under different ids;
  `AgreeOnId` is for behaviours without destructions.
- Nothing frees the buffers of a transfer, although `Get` marks them `DT_FREE_DATA` ("Free
  data_ when the data transfer is complete", `serialize.h:25`, set at `serialize.h:172`).
- The replica of a creation is never deleted, because its `method_` has become `kConstruct`, for
  which `Del` of the admin library has no case (`hermes_run_admin.cc:77`). `GetGroup` has none
  either; its answer -1 still makes the worker leave the group (`GivenBack`).
- The `PushTask` of a dispersed task and the `ScheduleTask`s are deleted by nobody: they are
  neither fire-and-forget nor waited for. `EveryTaskFreed` is about the other tasks.
- A task without outputs that is sent to a node without its task state completes although that
  node did not run it (`remote_queue.cc:236`).

## 6. Not modelled

- Configuration: no state that changes; its values are constants of the modules. The code
  generator itself; the switches it wrote are in `TaskTypes`.
- The process policy (`worch_proc_round_robin`): it sets CPU affinities. Its task is a
  `resident` of `Worker`; `SetWorkOrchProcPolicy` repeats the queue policy's handler.
- `RelinquishingQueues`, `DestroyQueue`, plugging of queues: no callers, or empty.
- Byte layouts, the ring's own algorithm, Thallium, Argobots, boost's context switch: external.
- The order of steps inside `ServerInit` and after `RunDaemon`; `Init` of the modules is the
  state after boot. What these functions order is mostly external (the streams, the RPC engine,
  shared memory), so that a model of them would rest on assumptions about libraries that are
  not in the repository.
- The lifetime of code and states that a destruction removes while tasks use them, hence
  `Registry` and `RemoteQueue` composed: a dangling `exec_` is undefined behaviour with no
  outcome the model could give it, and what the two modules otherwise share, which node has
  which state, is a constant of `RemoteQueue`.
