----------------------------- MODULE TaskTypes ------------------------------
(***************************************************************************)
(* The task classes of the libraries under tasks_required, and the         *)
(* switches by which a library takes a Task pointer for one of them.       *)
(***************************************************************************)

\* A task with nothing but the base class; module TaskLib explains the fields.
Task == [lib |-> "admin", method |-> "none", local |-> FALSE, fields |-> {}, given |-> {},
         start |-> << >>, load |-> << >>, bulk |-> {}, end |-> << >>,
         slots |-> {}, reads |-> {}, writes |-> {}, outs |-> {},
         ordered |-> FALSE, faf |-> FALSE]

FieldType == [lib_name |-> "string", state_name |-> "string", queue_info |-> "vector",
              id |-> "id", policy_id |-> "id", ret |-> "int", data |-> "bytes"]

-----------------------------------------------------------------------------
(* hermes_run_admin. The id of a library registration is returned and      *)
(* neither written by the handler nor read by a client.                    *)

RegisterTaskLibTaskTempl(method) ==
  [Task EXCEPT !.method = method, !.fields = {"lib_name", "id"}, !.given = {"lib_name"},
               !.start = <<"lib_name">>, !.load = <<"lib_name">>, !.end = <<"id">>,
               !.reads = {"lib_name"}]

GetOrCreateTaskStateIdTask ==
  [Task EXCEPT !.method = "GetOrCreateTaskStateId", !.fields = {"state_name", "id"},
               !.given = {"state_name"}, !.start = <<"state_name">>, !.load = <<"state_name">>,
               !.end = <<"id">>, !.reads = {"state_name"}, !.writes = {"id"}, !.outs = {"id"}]

CreateTaskStateTask ==
  LET archived == <<"lib_name", "state_name", "id", "queue_info">>
  IN  [Task EXCEPT !.method = "CreateTaskState",
                   !.fields = {"lib_name", "state_name", "queue_info", "id"},
                   !.given = {"lib_name", "state_name", "queue_info", "id"},
                   !.start = archived, !.load = archived, !.end = <<"id">>,
                   !.reads = {"lib_name", "state_name", "queue_info", "id"},
                   !.writes = {"id"}, !.outs = {"id"}, !.ordered = TRUE]

GetTaskStateIdTask == [GetOrCreateTaskStateIdTask EXCEPT !.method = "GetTaskStateId"]

DestroyTaskStateTask ==
  [Task EXCEPT !.method = "DestroyTaskState", !.fields = {"id"}, !.given = {"id"},
               !.start = <<"id">>, !.load = <<"id">>, !.reads = {"id"}]

StopRuntimeTask == [Task EXCEPT !.method = "StopRuntime", !.faf = TRUE]

SetWorkOrchestratorPolicyTask(method) ==
  [Task EXCEPT !.method = method, !.fields = {"policy_id"}, !.given = {"policy_id"},
               !.start = <<"policy_id">>, !.load = <<"policy_id">>, !.reads = {"policy_id"}]

-----------------------------------------------------------------------------
(* small_message. The constructor of MdPushTask sets Method::kMd.          *)

MdTask ==
  [Task EXCEPT !.lib = "small_message", !.method = "Md", !.fields = {"ret"},
               !.end = <<"ret">>, !.slots = {"ret"}, !.writes = {"ret"}, !.outs = {"ret"}]

MdPushTask == MdTask

IoTask ==
  [Task EXCEPT !.lib = "small_message", !.method = "Io", !.fields = {"data", "ret"},
               !.given = {"data"}, !.bulk = {"data"}, !.end = <<"ret">>,
               !.reads = {"data"}, !.writes = {"ret"}, !.outs = {"ret"}]

-----------------------------------------------------------------------------
(* TASK_NAME, the library that new ones are copied from.                   *)

CustomTask == [Task EXCEPT !.lib = "TASK_NAME", !.method = "Custom"]

-----------------------------------------------------------------------------
(* Classes with TF_LOCAL: nothing of them is ever archived.                *)

\* proc_queue. Its handler keeps the runtime's pointer and the phase in the task.
TypedPushTask ==
  [Task EXCEPT !.lib = "proc_queue", !.method = "Push", !.local = TRUE,
               !.fields = {"sub_cli", "sub_run", "phase"}, !.given = {"sub_cli", "phase"},
               !.reads = {"sub_cli", "phase"}, !.writes = {"sub_run", "phase"},
               !.ordered = TRUE]

\* remote_queue. Its handler copies the parameters from xfer_.
PushTask ==
  LET in == {"domain_ids", "orig_task", "exec", "exec_method", "xfer"}
  IN  [Task EXCEPT !.lib = "remote_queue", !.method = "Push", !.local = TRUE,
                   !.fields = in \cup {"params"}, !.given = in,
                   !.reads = in, !.writes = {"params"}]

\* The scheduling policies. Nothing is returned in ret_.
ScheduleTask(lib) ==
  [Task EXCEPT !.lib = lib, !.method = "Schedule", !.local = TRUE, !.fields = {"ret"}]

-----------------------------------------------------------------------------
AdminClass ==
  [RegisterTaskLibTask        |-> RegisterTaskLibTaskTempl("RegisterTaskLib"),
   DestroyTaskLibTask         |-> RegisterTaskLibTaskTempl("DestroyTaskLib"),
   GetOrCreateTaskStateIdTask |-> GetOrCreateTaskStateIdTask,
   CreateTaskStateTask        |-> CreateTaskStateTask,
   GetTaskStateIdTask         |-> GetTaskStateIdTask,
   DestroyTaskStateTask       |-> DestroyTaskStateTask,
   StopRuntimeTask            |-> StopRuntimeTask,
   SetWorkOrchQueuePolicyTask |-> SetWorkOrchestratorPolicyTask("SetWorkOrchQueuePolicy"),
   SetWorkOrchProcPolicyTask  |-> SetWorkOrchestratorPolicyTask("SetWorkOrchProcPolicy")]

SmallMessageClass == [MdTask |-> MdTask, MdPushTask |-> MdPushTask, IoTask |-> IoTask]

OtherClass ==
  [CustomTask        |-> CustomTask,
   TypedPushTask     |-> TypedPushTask,
   PushTask          |-> PushTask,
   QueueScheduleTask |-> ScheduleTask("worch_queue_round_robin"),
   ProcScheduleTask  |-> ScheduleTask("worch_proc_round_robin")]

\* method -> class, the same in every switch of the library. The admin library
\* has no case for Construct.
AdminExec ==
  [CreateTaskState        |-> "CreateTaskStateTask",
   DestroyTaskState       |-> "DestroyTaskStateTask",
   RegisterTaskLib        |-> "RegisterTaskLibTask",
   DestroyTaskLib         |-> "DestroyTaskLibTask",
   GetOrCreateTaskStateId |-> "GetOrCreateTaskStateIdTask",
   GetTaskStateId         |-> "GetTaskStateIdTask",
   StopRuntime            |-> "StopRuntimeTask",
   SetWorkOrchQueuePolicy |-> "SetWorkOrchQueuePolicyTask",
   SetWorkOrchProcPolicy  |-> "SetWorkOrchProcPolicyTask"]

\* ConstructTask and DestructTask add nothing to the classes they derive from.
SmallMessageExec ==
  [Construct |-> "CreateTaskStateTask",
   Destruct  |-> "DestroyTaskStateTask",
   Md        |-> "MdTask",
   Io        |-> "IoTask",
   MdPush    |-> "MdPushTask"]

TaskNameExec ==
  [Construct |-> "CreateTaskStateTask", Destruct |-> "DestroyTaskStateTask", Custom |-> "CustomTask"]

ProcQueueExec ==
  [Construct |-> "CreateTaskStateTask", Destruct |-> "DestroyTaskStateTask", Push |-> "TypedPushTask"]

RemoteQueueExec ==
  [Construct |-> "CreateTaskStateTask", Destruct |-> "DestroyTaskStateTask", Push |-> "PushTask"]

WorchQueueExec ==
  [Construct |-> "CreateTaskStateTask", Destruct |-> "DestroyTaskStateTask",
   Schedule |-> "QueueScheduleTask"]

WorchProcExec ==
  [Construct |-> "CreateTaskStateTask", Destruct |-> "DestroyTaskStateTask",
   Schedule |-> "ProcScheduleTask"]
=============================================================================
