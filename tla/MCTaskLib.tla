----------------------------- MODULE MCTaskLib ------------------------------
(***************************************************************************)
(* Every class of every library, for TLC.                                  *)
(***************************************************************************)
EXTENDS TaskTypes, TaskLib, TLC

AllClasses == AdminClass @@ SmallMessageClass @@ OtherClass

AllSwitches ==
  [admin |-> AdminExec, small_message |-> SmallMessageExec, TASK_NAME |-> TaskNameExec,
   proc_queue |-> ProcQueueExec, remote_queue |-> RemoteQueueExec,
   worch_queue_round_robin |-> WorchQueueExec, worch_proc_round_robin |-> WorchProcExec]
=============================================================================
