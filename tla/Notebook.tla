------------------------------ MODULE Notebook ------------------------------
(***************************************************************************)
(* Notebook pages, the websocket server, the kernel and the execution      *)
(* manager: frontend/pages/pipelines/[pipeline]/edit.tsx with              *)
(* components/PipelineDetail/KernelStatus.tsx, and, in mage_ai/server,     *)
(* websocket_server.py, subscriber.py and active_kernel.py.  Each page     *)
(* keeps its own idea of which blocks run and whether the pipeline         *)
(* executes, built from its user's clicks, from the messages the server    *)
(* broadcasts to all pages, and from the kernel's pid, which it polls.     *)
(*                                                                         *)
(* The kernel (ipykernel) executes its requests in order and reports busy  *)
(* and idle for each; an error aborts what it has queued.  Left out: the   *)
(* texts of the output, charts run downstream, switching kernels, lost     *)
(* connections, and what saving writes, only how long it takes.            *)
(***************************************************************************)
EXTENDS ExecutionManager, Naturals, Sequences, FiniteSets

CONSTANTS
  Tabs,
  Blocks, NoBlock,
  BlocksOf,       \* the blocks of every pipeline
  MessagesBeatPoll, \* assumption: a page has the messages of a kernel that was
                  \* restarted before it learns the new kernel's pid (every 5 s)
  MaxOps          \* bound: clicks of users, and pages they leave

ASSUME NotebookAssumption ==
  /\ NoBlock \notin Blocks
  /\ BlocksOf \in [Pipelines -> SUBSET Blocks]
  /\ MessagesBeatPoll \in BOOLEAN
  /\ MaxOps \in Nat

VARIABLES
  page,       \* the pipeline a tab shows
  running,    \* runningBlocks of a tab
  executing,  \* isPipelineExecuting of a tab
  saving,     \* what a tab does when the save it waits for is done
  inbox,      \* messages on their way from the server to a tab
  knownPid,   \* the kernel's pid as a tab last heard of it, 0 at first
  queue,      \* requests the kernel has not begun: their blocks
  busy,       \* the block the kernel executes
  iopub,      \* messages of the kernel the subscriber has not read
  pid,
  left,       \* whether any page has been left: only a property needs it
  ops

pageVars == <<page, running, executing, saving, inbox, knownPid>>
kernelVars == <<queue, busy, iopub, pid>>
history == <<left, ops>>
vars == <<managerVars, pageVars, kernelVars, history>>

Pids == 0..(MaxOps + 1)

\* Messages with an execution state.  Only the last message of a whole pipeline
\* matters here: its others change nothing in a page's state.
Message == [state : {"busy", "idle"}, block : Blocks, pid : Pids \ {0}]
PipelineIdle == [state |-> "idle", block |-> NoBlock, pid |-> 0]

\* Broken variant: messages of the kernel before.
SayBefore(state, b) == [state |-> state, block |-> b, pid |-> pid - 1]

Say(state, b) == [state |-> state, block |-> b, pid |-> pid]

TypeOK ==
  /\ ManagerTypeOK
  /\ page \in [Tabs -> Pipelines]
  /\ running \in [Tabs -> SUBSET Blocks]
  /\ executing \in [Tabs -> BOOLEAN]
  /\ saving \in [Tabs -> SUBSET (Blocks \cup {"execute"})]
  /\ inbox \in [Tabs -> Seq(Message \cup {PipelineIdle})]
  /\ knownPid \in [Tabs -> Pids]
  /\ queue \in Seq(Blocks)
  /\ busy \in Blocks \cup {NoBlock}
  /\ iopub \in Seq(Message)
  /\ pid \in Pids \ {0}
  /\ left \in BOOLEAN
  /\ ops \in 0..MaxOps

Init ==
  /\ ManagerInit
  /\ page \in [Tabs -> Pipelines]
  /\ running = [t \in Tabs |-> {}]
  /\ executing = [t \in Tabs |-> FALSE]
  /\ saving = [t \in Tabs |-> {}]
  /\ inbox = [t \in Tabs |-> <<>>]
  /\ knownPid = [t \in Tabs |-> 0]
  /\ queue = <<>>
  /\ busy = NoBlock
  /\ iopub = <<>>
  /\ pid = 1
  /\ left = FALSE
  /\ ops = 0

\* A user clicks.
UserActs == ops < MaxOps /\ ops' = ops + 1

\* WebSocketServer.send_message(): to every client.
Broadcast(m) == inbox' = [t \in Tabs |-> Append(inbox[t], m)]

Saving(action) == {t \in Tabs : action \in saving[t]}

-----------------------------------------------------------------------------
\* runBlock(): a block the page does not show as running is run when the
\* content is saved.  Whether it runs is not looked at again.
ClickRun(t, b) ==
  /\ UserActs
  /\ b \in BlocksOf[page[t]] \ (running[t] \cup saving[t])
  /\ saving' = [saving EXCEPT ![t] = @ \cup {b}]
  /\ UNCHANGED <<managerVars, page, running, executing, inbox, knownPid,
                 kernelVars, left>>

\* runBlockOrig() after the save, and __execute_block() on the server.
RunBlock(t, b) ==
  /\ b \in saving[t] \cap Blocks
  /\ saving' = [saving EXCEPT ![t] = @ \ {b}]
  /\ running' = [running EXCEPT ![t] = @ \cup {b}]
  /\ queue' = Append(queue, b)
  /\ UNCHANGED <<managerVars, page, executing, inbox, knownPid, busy, iopub, pid,
                 history>>

\* executePipeline(): the same with the whole pipeline.
ClickExecute(t) ==
  /\ UserActs
  /\ ~executing[t] /\ "execute" \notin saving[t]
  /\ Cardinality(Saving("execute")) < Cardinality({e \in Executions : Unused(e)})
  /\ saving' = [saving EXCEPT ![t] = @ \cup {"execute"}]
  /\ UNCHANGED <<managerVars, page, running, executing, inbox, knownPid,
                 kernelVars, left>>

Execute(t) ==
  /\ "execute" \in saving[t]
  /\ saving' = [saving EXCEPT ![t] = @ \ {"execute"}]
  /\ executing' = [executing EXCEPT ![t] = TRUE]
  /\ ExecutePipeline(page[t])
  /\ UNCHANGED <<page, running, inbox, knownPid, kernelVars, history>>

\* Broken variant: the request is skip_publish_message.
CancelWithoutMessage(t) ==
  /\ UserActs
  /\ executing[t]
  /\ CancelPipeline(page[t])
  /\ UNCHANGED <<pageVars, kernelVars, left>>

\* cancelPipeline(): the button a page shows while it executes a pipeline.
Cancel(t) ==
  /\ UserActs
  /\ executing[t]
  /\ CancelPipeline(page[t])
  /\ Broadcast(PipelineIdle)
  /\ UNCHANGED <<page, running, executing, saving, knownPid, kernelVars, left>>

\* routeChangeStart and pagehide: cancelPipelineWithoutMessage(), whether or
\* not this page executes anything; then the tab shows a pipeline anew.
Leave(t) ==
  /\ UserActs
  /\ left' = TRUE
  /\ CancelPipeline(page[t])
  /\ \E p \in Pipelines : page' = [page EXCEPT ![t] = p]
  /\ running' = [running EXCEPT ![t] = {}]
  /\ executing' = [executing EXCEPT ![t] = FALSE]
  /\ saving' = [saving EXCEPT ![t] = {}]
  /\ inbox' = [inbox EXCEPT ![t] = <<>>]
  /\ knownPid' = [knownPid EXCEPT ![t] = 0]
  /\ UNCHANGED kernelVars

\* check_for_messages() of an execution broadcasts its last message.
PublishFinal(e) ==
  /\ TakeFinalMessage(e)
  /\ Broadcast(PipelineIdle)
  /\ UNCHANGED <<page, running, executing, saving, knownPid, kernelVars, history>>

ProcessStep(e) ==
  /\ FinishPipeline(e) \/ DeleteCopy(e)
  /\ UNCHANGED <<pageVars, kernelVars, history>>

-----------------------------------------------------------------------------
\* The kernel takes a request, and says so.
KernelBegins ==
  /\ busy = NoBlock /\ queue # <<>>
  /\ busy' = Head(queue)
  /\ queue' = Tail(queue)
  /\ iopub' = Append(iopub, Say("busy", Head(queue)))
  /\ UNCHANGED <<managerVars, pageVars, pid, history>>

\* The request is done.
KernelEnds ==
  /\ busy # NoBlock
  /\ busy' = NoBlock
  /\ iopub' = Append(iopub, Say("idle", busy))
  /\ UNCHANGED <<managerVars, pageVars, queue, pid, history>>

\* Broken variant: the requests aborted with it are not reported.
AbortSilently ==
  /\ busy # NoBlock
  /\ busy' = NoBlock
  /\ queue' = <<>>
  /\ iopub' = Append(iopub, Say("idle", busy))

\* The request fails, and those behind it are aborted: each is idle.
Abort ==
  /\ busy # NoBlock
  /\ busy' = NoBlock
  /\ queue' = <<>>
  /\ iopub' = Append(iopub, Say("idle", busy))
              \o [i \in 1..Len(queue) |-> Say("idle", queue[i])]

KernelFails ==
  /\ Abort
  /\ UNCHANGED <<managerVars, pageVars, pid, history>>

\* interruptKernel(): this page clears its blocks at once.
Interrupt(t) ==
  /\ UserActs
  /\ Abort
  /\ running' = [running EXCEPT ![t] = {}]
  /\ UNCHANGED <<managerVars, page, executing, saving, inbox, knownPid, pid, left>>

\* restartKernel(): restart_kernel() loses the kernel's requests, and with its
\* client the messages no one has read.
Restart ==
  /\ UserActs
  /\ pid' = pid + 1
  /\ queue' = <<>>
  /\ busy' = NoBlock
  /\ iopub' = <<>>
  /\ UNCHANGED <<managerVars, pageVars, left>>

\* get_messages() hands a message of the kernel to send_message().
Relay ==
  /\ iopub # <<>>
  /\ Broadcast(Head(iopub))
  /\ iopub' = Tail(iopub)
  /\ UNCHANGED <<managerVars, page, running, executing, saving, knownPid, queue,
                 busy, pid, history>>

-----------------------------------------------------------------------------
\* What a message makes of a page's running blocks.  The end of any pipeline
\* clears them all.
RunningAfter(t, m) ==
  CASE m = PipelineIdle  -> {}
    [] m.state = "busy"  -> running[t] \cup ({m.block} \cap BlocksOf[page[t]])
    [] OTHER             -> running[t] \ {m.block}

\* onMessage() of the websocket.
Receive(t) ==
  /\ inbox[t] # <<>>
  /\ LET m == Head(inbox[t])
     IN  /\ running' = [running EXCEPT ![t] = RunningAfter(t, m)]
         /\ executing' = [executing EXCEPT ![t] = @ /\ m # PipelineIdle]
  /\ inbox' = [inbox EXCEPT ![t] = Tail(@)]
  /\ UNCHANGED <<managerVars, page, saving, knownPid, kernelVars, history>>

\* KernelStatus: the page learns that the kernel's pid is another, and if it
\* shows blocks as running, they are not.
Poll(t) ==
  /\ knownPid[t] # pid
  /\ MessagesBeatPoll =>
       \A i \in 1..Len(inbox[t]) : inbox[t][i].pid \in {0, pid}
  /\ knownPid' = [knownPid EXCEPT ![t] = pid]
  /\ running' = [running EXCEPT ![t] = {}]
  /\ UNCHANGED <<managerVars, page, executing, saving, inbox, kernelVars, history>>

-----------------------------------------------------------------------------
UserStep ==
  \/ \E t \in Tabs :
       \/ \E b \in Blocks : ClickRun(t, b)
       \/ ClickExecute(t) \/ Cancel(t) \/ Leave(t) \/ Interrupt(t)
  \/ Restart

SystemStep ==
  \/ \E t \in Tabs :
       \/ \E b \in Blocks : RunBlock(t, b)
       \/ Execute(t) \/ Receive(t) \/ Poll(t)
  \/ \E e \in Executions : ProcessStep(e) \/ PublishFinal(e)
  \/ KernelBegins \/ KernelEnds \/ KernelFails \/ Relay

Next == UserStep \/ SystemStep

\* Saves are answered, messages and polls arrive, requests and executions end:
\* user code that never ends is the user's to interrupt or cancel.  Something
\* of this happens while anything can; no one has to click.  As each such step
\* leaves less to do, fairness to each action would say no more.
Fairness == WF_vars(SystemStep)

Spec == Init /\ [][Next]_vars /\ Fairness

-----------------------------------------------------------------------------
\* When nothing is left to hear of the kernel and it has nothing to do, no page
\* shows a block as running: no interleaving of pages, failures, interrupts,
\* restarts and pipelines that end leaves a block that cannot be run again.
NoGhostRunning ==
  queue = <<>> /\ busy = NoBlock /\ iopub = <<>> =>
    \A t \in Tabs : inbox[t] = <<>> /\ knownPid[t] = pid => running[t] = {}

\* A page that shows its pipeline as executing stops doing so, whatever other
\* pages execute or cancel meanwhile.  (A page that is left cancels without a
\* message: then it may not.)
ExecutingIsCleared ==
  \A t \in Tabs : executing[t] /\ ~left ~> ~executing[t] \/ left
=============================================================================
