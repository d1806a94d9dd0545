-------------------------- MODULE ExecutionManager --------------------------
(***************************************************************************)
(* Executing a whole pipeline from the notebook: the singleton of          *)
(* mage_ai/server/execution_manager.py, and the part of websocket_server.py*)
(* that copies the pipeline's metadata.yaml, runs the pipeline in a process*)
(* and polls that process's queue of messages.  The singleton remembers    *)
(* one process, one task and one copy, whichever pipeline they are for.    *)
(*                                                                         *)
(* An execution stands for its process, queue, polling task and copy; its  *)
(* name is used again when nothing refers to it.  SIGTERM is taken to kill *)
(* at once.  Only standard (Python) pipelines have a copy, so only they    *)
(* are modelled; a PySpark pipeline is executed by the kernel.             *)
(***************************************************************************)
CONSTANTS
  Pipelines,
  Executions,   \* bound: names for the executions something still refers to
  NoPipeline, NoExecution

ASSUME NoneAssumption ==
  /\ NoPipeline \notin Pipelines
  /\ NoExecution \notin Executions

VARIABLES
  config,    \* the pipeline whose configuration each metadata.yaml holds
  copy,      \* what an execution's copy of metadata.yaml holds, if it exists
  process,   \* of an execution: running the blocks, or done with them and closing
  final,     \* executions with their last, idle message in their queue
  polling,   \* executions whose task check_for_messages() polls the queue
  current,   \* current_pipeline_process
  task,      \* current_message_task
  previous   \* previous_config_path

managerVars == <<config, copy, process, final, polling, current, task, previous>>

ManagerTypeOK ==
  /\ config \in [Pipelines -> Pipelines]
  /\ copy \in [Executions -> Pipelines \cup {NoPipeline}]
  /\ process \in [Executions -> {"none", "running", "closing"}]
  /\ final \subseteq Executions
  /\ polling \subseteq Executions
  /\ {current, task, previous} \subseteq Executions \cup {NoExecution}

ManagerInit ==
  /\ config = [p \in Pipelines |-> p]
  /\ copy = [e \in Executions |-> NoPipeline]
  /\ process = [e \in Executions |-> "none"]
  /\ final = {}
  /\ polling = {}
  /\ current = NoExecution
  /\ task = NoExecution
  /\ previous = NoExecution

Alive(e) == process[e] # "none"

Unused(e) ==
  /\ ~Alive(e) /\ copy[e] = NoPipeline
  /\ e \notin final \cup polling \cup {current, task, previous}

-----------------------------------------------------------------------------
\* __execute_pipeline(): forget the execution before, copy the configuration,
\* start the process and the task.  Nothing stops the execution before, and
\* its own task goes on.
ExecutePipeline(p) ==
  LET e == CHOOSE x \in Executions : Unused(x)
  IN  /\ \E x \in Executions : Unused(x)
      /\ copy' = [copy EXCEPT ![e] = config[p]]
      /\ process' = [process EXCEPT ![e] = "running"]
      /\ polling' = polling \cup {e}
      /\ current' = e
      /\ task' = e
      /\ previous' = e
      /\ UNCHANGED <<config, final>>

\* run_pipeline(): the blocks are done or one failed, and the last message is
\* in the queue.
FinishPipeline(e) ==
  /\ process[e] = "running"
  /\ process' = [process EXCEPT ![e] = "closing"]
  /\ final' = final \cup {e}
  /\ UNCHANGED <<config, copy, polling, current, task, previous>>

\* The end of run_pipeline(): the copy is not needed any more.
DeleteCopy(e) ==
  /\ process[e] = "closing"
  /\ process' = [process EXCEPT ![e] = "none"]
  /\ copy' = [copy EXCEPT ![e] = NoPipeline]
  /\ UNCHANGED <<config, final, polling, current, task, previous>>

\* check_for_messages() takes the last message, and is done.
TakeFinalMessage(e) ==
  /\ e \in final \cap polling
  /\ final' = final \ {e}
  /\ polling' = polling \ {e}
  /\ UNCHANGED <<config, copy, process, current, task, previous>>

\* Broken variant: the configuration is put back and its copy left behind.
CancelKeepingCopy(p) ==
  /\ process' = [e \in Executions |-> IF e = current THEN "none" ELSE process[e]]
  /\ polling' = polling \ {task}
  /\ final' = final \ {task}
  /\ config' = [config EXCEPT ![p] =
       IF previous # NoExecution /\ copy[previous] # NoPipeline
       THEN copy[previous] ELSE @]
  /\ UNCHANGED <<copy, current, task, previous>>

\* cancel_pipeline_execution(), but for its message: the process and the task
\* the singleton remembers are stopped, and its copy, if there still is one,
\* overwrites the metadata.yaml of the pipeline the request names.
CancelPipeline(p) ==
  /\ process' = [e \in Executions |-> IF e = current THEN "none" ELSE process[e]]
  /\ polling' = polling \ {task}
  /\ final' = final \ {task}   \* no one will read that queue
  /\ IF previous # NoExecution /\ copy[previous] # NoPipeline
     THEN /\ config' = [config EXCEPT ![p] = copy[previous]]
          /\ copy' = [copy EXCEPT ![previous] = NoPipeline]
     ELSE UNCHANGED <<config, copy>>
  /\ UNCHANGED <<current, task, previous>>

-----------------------------------------------------------------------------
\* An execution has a copy of the configuration exactly while its process
\* lives: so cancelling can put it back, and no copy is forgotten in the
\* project, where nothing else removes it, when executions overlap, end, are
\* cancelled, and are cancelled again.
CopyWhileAlive == \A e \in Executions : copy[e] # NoPipeline <=> Alive(e)

\* "so we save the pipeline config before execution if the user cancels the
\* excecution" (websocket_server.py): what cancelling puts back is a
\* pipeline's own configuration, and no metadata.yaml ever holds another's.
ConfigIsOwn == \A p \in Pipelines : config[p] = p
=============================================================================
