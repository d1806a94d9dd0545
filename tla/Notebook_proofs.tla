-------------------------- MODULE Notebook_proofs --------------------------
(***************************************************************************)
(* Executions and the copies they make of a pipeline's configuration, and  *)
(* the blocks that pages show as running, whatever tabs, blocks, pipelines *)
(* and executions there are, and however users act.                        *)
(***************************************************************************)
EXTENDS Notebook, SequenceTheorems, TLAPS

\* What the singleton remembers is all of one execution: its process, its task
\* and its copy.  Without it, cancelling could kill one execution's process and
\* delete another's copy.
OneRemembered == current = previous /\ task = previous

ManagerInv == ManagerTypeOK /\ OneRemembered /\ CopyWhileAlive

\* At first there is neither an execution nor a copy.
LEMMA ManagerInitInv == ManagerInit => ManagerInv
BY NoneAssumption
DEF ManagerInit, ManagerInv, ManagerTypeOK, OneRemembered, CopyWhileAlive, Alive

\* __execute_pipeline() remembers the execution it starts and copies for.
LEMMA ExecuteKeepsInv ==
  ASSUME NEW pl \in Pipelines, ManagerInv, ExecutePipeline(pl)
  PROVE  ManagerInv'
<1> DEFINE e == CHOOSE x \in Executions : Unused(x)
<1>1. e \in Executions
  BY DEF ExecutePipeline
<1>2. /\ copy' = [copy EXCEPT ![e] = config[pl]]
      /\ process' = [process EXCEPT ![e] = "running"]
      /\ polling' = polling \cup {e}
      /\ current' = e /\ task' = e /\ previous' = e
      /\ config' = config /\ final' = final
  BY DEF ExecutePipeline
<1> HIDE DEF e
<1>3. ManagerTypeOK'
  BY <1>1, <1>2 DEF ManagerInv, ManagerTypeOK
<1>4. OneRemembered'
  BY <1>2 DEF OneRemembered
<1>5. config[pl] # NoPipeline
  BY NoneAssumption DEF ManagerInv, ManagerTypeOK
<1>6. CopyWhileAlive'
  BY <1>1, <1>2, <1>5 DEF ManagerInv, ManagerTypeOK, CopyWhileAlive, Alive
<1> QED
  BY <1>3, <1>4, <1>6 DEF ManagerInv

\* cancel_pipeline_execution() stops the process it remembers, and deletes the
\* copy it remembers: both are of one execution.
LEMMA CancelKeepsInv ==
  ASSUME NEW pl \in Pipelines, ManagerInv, CancelPipeline(pl)
  PROVE  ManagerInv'
<1>1. /\ process' = [e \in Executions |-> IF e = current THEN "none" ELSE process[e]]
      /\ polling' = polling \ {task}
      /\ final' = final \ {task}
      /\ current' = current /\ task' = task /\ previous' = previous
  BY DEF CancelPipeline
<1>2. OneRemembered'
  BY <1>1 DEF ManagerInv, OneRemembered
<1>3. CASE previous # NoExecution /\ copy[previous] # NoPipeline
  <2>1. /\ config' = [config EXCEPT ![pl] = copy[previous]]
        /\ copy' = [copy EXCEPT ![previous] = NoPipeline]
        /\ previous \in Executions
    BY <1>3 DEF CancelPipeline, ManagerInv, ManagerTypeOK
  <2>2. copy[previous] \in Pipelines
    BY <1>3, <2>1 DEF ManagerInv, ManagerTypeOK
  <2>3. ManagerTypeOK'
    BY <1>1, <2>1, <2>2 DEF ManagerInv, ManagerTypeOK
  <2>4. CopyWhileAlive'
    BY <1>1, <2>1
    DEF ManagerInv, ManagerTypeOK, OneRemembered, CopyWhileAlive, Alive
  <2> QED
    BY <1>2, <2>3, <2>4 DEF ManagerInv
<1>4. CASE ~(previous # NoExecution /\ copy[previous] # NoPipeline)
  <2>1. config' = config /\ copy' = copy
    BY <1>4 DEF CancelPipeline
  <2>2. ManagerTypeOK'
    BY <1>1, <2>1 DEF ManagerInv, ManagerTypeOK
  <2>3. CopyWhileAlive'
    BY <1>1, <1>4, <2>1, NoneAssumption
    DEF ManagerInv, ManagerTypeOK, OneRemembered, CopyWhileAlive, Alive
  <2> QED
    BY <1>2, <2>2, <2>3 DEF ManagerInv
<1> QED
  BY <1>3, <1>4

\* The process and its polling task.
LEMMA ProcessKeepsInv ==
  ASSUME NEW e \in Executions, ManagerInv,
         FinishPipeline(e) \/ DeleteCopy(e) \/ TakeFinalMessage(e)
  PROVE  ManagerInv'
<1>1. CASE FinishPipeline(e)
  BY <1>1 DEF FinishPipeline, ManagerInv, ManagerTypeOK, OneRemembered,
              CopyWhileAlive, Alive
<1>2. CASE DeleteCopy(e)
  BY <1>2 DEF DeleteCopy, ManagerInv, ManagerTypeOK, OneRemembered,
              CopyWhileAlive, Alive
<1>3. CASE TakeFinalMessage(e)
  BY <1>3 DEF TakeFinalMessage, ManagerInv, ManagerTypeOK, OneRemembered,
              CopyWhileAlive, Alive
<1> QED
  BY <1>1, <1>2, <1>3

\* Other steps leave executions and copies alone.
LEMMA IdleKeepsInv ==
  ASSUME ManagerInv, UNCHANGED managerVars
  PROVE  ManagerInv'
BY DEF managerVars, ManagerInv, ManagerTypeOK, OneRemembered, CopyWhileAlive, Alive

\* A tab shows one of the pipelines.
LEMMA PageIsPipeline ==
  ASSUME NEW t \in Tabs, page \in [Tabs -> Pipelines]
  PROVE  page[t] \in Pipelines
OBVIOUS

\* Pages keep showing pipelines.
PagesOK == page \in [Tabs -> Pipelines]

Inv == ManagerInv /\ PagesOK

\* Every step keeps what is known of executions and pages.
LEMMA StepKeepsInv ==
  ASSUME Inv, [Next]_vars
  PROVE  Inv'
<1> USE DEF Inv, PagesOK
<1>1. ASSUME NEW t \in Tabs, Execute(t) PROVE Inv'
  BY <1>1, PageIsPipeline, ExecuteKeepsInv DEF Execute
<1>2. ASSUME NEW t \in Tabs, Cancel(t) PROVE Inv'
  BY <1>2, PageIsPipeline, CancelKeepsInv DEF Cancel
<1>3. ASSUME NEW t \in Tabs, Leave(t) PROVE Inv'
  <2>1. ManagerInv'
    BY <1>3, PageIsPipeline, CancelKeepsInv DEF Leave
  <2>2. PagesOK'
    BY <1>3 DEF Leave
  <2> QED
    BY <2>1, <2>2
<1>4. ASSUME NEW e \in Executions, ProcessStep(e) \/ PublishFinal(e) PROVE Inv'
  BY <1>4, ProcessKeepsInv DEF ProcessStep, PublishFinal, pageVars
<1>5. ASSUME UNCHANGED <<managerVars, page>> PROVE Inv'
  BY <1>5, IdleKeepsInv
<1>6. ASSUME NEW t \in Tabs, NEW b \in Blocks, ClickRun(t, b) \/ RunBlock(t, b)
      PROVE  Inv'
  BY <1>6, <1>5 DEF ClickRun, RunBlock
<1>7. ASSUME NEW t \in Tabs,
             ClickExecute(t) \/ Interrupt(t) \/ Receive(t) \/ Poll(t)
      PROVE  Inv'
  BY <1>7, <1>5 DEF ClickExecute, Interrupt, Receive, Poll
<1>8. CASE KernelBegins \/ KernelEnds \/ KernelFails \/ Restart \/ Relay
  BY <1>8, <1>5 DEF KernelBegins, KernelEnds, KernelFails, Restart, Relay, pageVars
<1>9. CASE UNCHANGED vars
  BY <1>9, <1>5 DEF vars, pageVars
<1> QED
  BY <1>1, <1>2, <1>3, <1>4, <1>6, <1>7, <1>8, <1>9
  DEF Next, UserStep, SystemStep

\* Whatever the pages do, an execution has its copy exactly while it lives.
THEOREM CopyIsKeptWhileAlive == Spec => []CopyWhileAlive
<1>1. Init => Inv
  BY ManagerInitInv DEF Init, Inv, PagesOK
<1>2. Inv /\ [Next]_vars => Inv'
  BY StepKeepsInv
<1>3. Inv => CopyWhileAlive
  BY DEF Inv, ManagerInv
<1> QED
  BY <1>1, <1>2, <1>3, PTL DEF Spec

-----------------------------------------------------------------------------
(* Types.                                                                  *)

Messages == Message \cup {PipelineIdle}

PagesTyped ==
  /\ running \in [Tabs -> SUBSET Blocks]
  /\ executing \in [Tabs -> BOOLEAN]
  /\ saving \in [Tabs -> SUBSET (Blocks \cup {"execute"})]
  /\ inbox \in [Tabs -> Seq(Messages)]
  /\ knownPid \in [Tabs -> Pids]

KernelTyped ==
  /\ queue \in Seq(Blocks)
  /\ busy \in Blocks \cup {NoBlock}
  /\ iopub \in Seq(Message)

\* A restart is a click: it is why the pid stays in its bound.
HistoryTyped ==
  /\ left \in BOOLEAN
  /\ ops \in 0..MaxOps
  /\ pid \in 1..(ops + 1)

TypeInv == Inv /\ PagesTyped /\ KernelTyped /\ HistoryTyped

\* The parts make up the type invariant.
LEMMA TypeInvIsTypeOK == TypeInv => TypeOK
<1>1. HistoryTyped => pid \in Pids \ {0}
  BY NotebookAssumption DEF HistoryTyped, Pids
<1> QED
  BY <1>1 DEF TypeInv, Inv, ManagerInv, PagesOK, PagesTyped, KernelTyped, HistoryTyped,
              Messages, TypeOK

\* At first every variable has its type.
LEMMA InitTypes == Init => TypeInv
<1> SUFFICES ASSUME Init PROVE TypeInv
  OBVIOUS
<1>1. Inv
  BY ManagerInitInv DEF Init, Inv, PagesOK
<1>2. <<>> \in Seq(Messages) /\ <<>> \in Seq(Blocks) /\ <<>> \in Seq(Message)
  BY EmptySeq
<1>3. 0 \in Pids /\ 0 \in 0..MaxOps
  BY NotebookAssumption DEF Pids
<1>4. PagesTyped
  BY <1>2, <1>3 DEF Init, PagesTyped
<1>5. KernelTyped
  BY <1>2 DEF Init, KernelTyped
<1>6. HistoryTyped
  <2>1. left = FALSE /\ ops = 0 /\ pid = 1
    BY DEF Init
  <2>2. pid \in 1..(ops + 1)
    BY <2>1
  <2> QED
    BY <1>3, <2>1, <2>2 DEF HistoryTyped
<1> QED
  BY <1>1, <1>4, <1>5, <1>6 DEF TypeInv

\* What the kernel says.
LEMMA SayTyped ==
  ASSUME HistoryTyped, NEW b \in Blocks, NEW st \in {"busy", "idle"}
  PROVE  /\ Say(st, b) \in Message
         /\ Say(st, b).state = st /\ Say(st, b).block = b /\ Say(st, b).pid = pid
<1>1. pid \in Pids \ {0}
  BY NotebookAssumption DEF HistoryTyped, Pids
<1> QED
  BY <1>1 DEF Say, Message

\* A click is counted.
LEMMA ClickTyped ==
  ASSUME HistoryTyped, UserActs, pid' = pid, left' \in BOOLEAN
  PROVE  HistoryTyped'
BY NotebookAssumption DEF HistoryTyped, UserActs

\* A broadcast appends a message for every tab.
LEMMA BroadcastTyped ==
  ASSUME PagesTyped, NEW m \in Messages, Broadcast(m)
  PROVE  inbox' \in [Tabs -> Seq(Messages)]
<1>1. ASSUME NEW t \in Tabs PROVE Append(inbox[t], m) \in Seq(Messages)
  BY AppendProperties DEF PagesTyped
<1> QED
  BY <1>1 DEF Broadcast

\* An abort says of its block and of all that waited behind it that they are
\* idle, after what there was to read.
LEMMA AbortForm ==
  ASSUME KernelTyped, HistoryTyped, Abort
  PROVE  /\ busy \in Blocks /\ busy' = NoBlock /\ queue' = <<>>
         /\ iopub' \in Seq(Message)
         /\ Len(iopub') = Len(iopub) + 1 + Len(queue)
         /\ \A i \in 1..Len(iopub) : iopub'[i] = iopub[i]
         /\ iopub'[Len(iopub) + 1] = Say("idle", busy)
         /\ \A i \in 1..Len(queue) : iopub'[Len(iopub) + 1 + i] = Say("idle", queue[i])
<1> DEFINE said == Append(iopub, Say("idle", busy))
           rest == [i \in 1..Len(queue) |-> Say("idle", queue[i])]
<1>1. busy \in Blocks /\ busy' = NoBlock /\ queue' = <<>> /\ iopub' = said \o rest
  BY DEF Abort, KernelTyped
<1>2. Say("idle", busy) \in Message
  BY <1>1, SayTyped
<1>3. /\ said \in Seq(Message) /\ Len(said) = Len(iopub) + 1
      /\ \A i \in 1..Len(iopub) : said[i] = iopub[i]
      /\ said[Len(iopub) + 1] = Say("idle", busy)
  BY <1>2, AppendProperties DEF KernelTyped
<1>4. Len(queue) \in Nat /\ Len(iopub) \in Nat
  BY LenProperties DEF KernelTyped
<1>5. ASSUME NEW i \in 1..Len(queue) PROVE Say("idle", queue[i]) \in Message
  BY ElementOfSeq, SayTyped DEF KernelTyped
<1>6. rest \in [1..Len(queue) -> Message]
  BY <1>5
<1>7. rest \in Seq(Message)
  BY <1>4, <1>6, SeqDef
<1>8. Len(rest) = Len(queue)
  BY <1>4, <1>7, LenProperties
<1>9. \A i \in 1..Len(queue) : rest[i] = Say("idle", queue[i])
  OBVIOUS
<1> HIDE DEF said, rest
<1>10. /\ said \o rest \in Seq(Message)
       /\ Len(said \o rest) = Len(said) + Len(rest)
       /\ \A i \in 1..(Len(said) + Len(rest)) :
            (said \o rest)[i] = IF i <= Len(said) THEN said[i] ELSE rest[i - Len(said)]
  BY <1>3, <1>7, ConcatProperties
<1>11. \A i \in 1..(Len(iopub) + 1) : (said \o rest)[i] = said[i]
  BY <1>3, <1>4, <1>8, <1>10
<1>12. ASSUME NEW i \in 1..Len(queue)
       PROVE  (said \o rest)[Len(iopub) + 1 + i] = rest[i]
  BY <1>3, <1>4, <1>8, <1>10
<1>13. /\ \A i \in 1..Len(iopub) : (said \o rest)[i] = iopub[i]
       /\ (said \o rest)[Len(iopub) + 1] = Say("idle", busy)
  BY <1>3, <1>4, <1>11
<1> QED
  BY <1>1, <1>3, <1>8, <1>9, <1>10, <1>12, <1>13

\* What the user of a page does to it.
LEMMA UserKeepsTypes ==
  ASSUME TypeInv, NEW t \in Tabs,
         \/ \E b \in Blocks : ClickRun(t, b)
         \/ ClickExecute(t) \/ Cancel(t) \/ Leave(t) \/ Interrupt(t)
  PROVE  PagesTyped' /\ KernelTyped' /\ HistoryTyped'
<1> USE DEF TypeInv
<1>1. ASSUME NEW b \in Blocks, ClickRun(t, b)
      PROVE  PagesTyped' /\ KernelTyped' /\ HistoryTyped'
  <2>1. PagesTyped'
    BY <1>1 DEF ClickRun, PagesTyped
  <2>2. KernelTyped' /\ HistoryTyped'
    BY <1>1, ClickTyped DEF ClickRun, KernelTyped, kernelVars, HistoryTyped
  <2> QED
    BY <2>1, <2>2
<1>2. CASE ClickExecute(t)
  <2>1. PagesTyped'
    BY <1>2 DEF ClickExecute, PagesTyped
  <2>2. KernelTyped' /\ HistoryTyped'
    BY <1>2, ClickTyped DEF ClickExecute, KernelTyped, kernelVars, HistoryTyped
  <2> QED
    BY <2>1, <2>2
<1>3. CASE Cancel(t)
  <2>1. inbox' \in [Tabs -> Seq(Messages)]
    BY <1>3, BroadcastTyped DEF Cancel, Messages
  <2>2. PagesTyped'
    BY <1>3, <2>1 DEF Cancel, PagesTyped
  <2>3. KernelTyped' /\ HistoryTyped'
    BY <1>3, ClickTyped DEF Cancel, KernelTyped, kernelVars, HistoryTyped
  <2> QED
    BY <2>2, <2>3
<1>4. CASE Leave(t)
  <2>1. <<>> \in Seq(Messages) /\ 0 \in Pids
    BY EmptySeq, NotebookAssumption DEF Pids
  <2>2. PagesTyped'
    BY <1>4, <2>1 DEF Leave, PagesTyped
  <2>3. KernelTyped' /\ HistoryTyped'
    BY <1>4, ClickTyped DEF Leave, KernelTyped, kernelVars
  <2> QED
    BY <2>2, <2>3
<1>5. CASE Interrupt(t)
  <2>1. PagesTyped'
    BY <1>5 DEF Interrupt, PagesTyped
  <2>2. KernelTyped'
    BY <1>5, AbortForm, EmptySeq DEF Interrupt, KernelTyped
  <2>3. HistoryTyped'
    BY <1>5, ClickTyped DEF Interrupt, HistoryTyped
  <2> QED
    BY <2>1, <2>2, <2>3
<1> QED
  BY <1>1, <1>2, <1>3, <1>4, <1>5

\* What happens to a page by itself.
LEMMA PageKeepsTypes ==
  ASSUME TypeInv, NEW t \in Tabs,
         \/ \E b \in Blocks : RunBlock(t, b)
         \/ Execute(t) \/ Receive(t) \/ Poll(t)
  PROVE  PagesTyped' /\ KernelTyped' /\ HistoryTyped'
<1> USE DEF TypeInv
<1>1. ASSUME NEW b \in Blocks, RunBlock(t, b)
      PROVE  PagesTyped' /\ KernelTyped' /\ HistoryTyped'
  <2>1. PagesTyped'
    BY <1>1 DEF RunBlock, PagesTyped
  <2>2. Append(queue, b) \in Seq(Blocks)
    BY AppendProperties DEF KernelTyped
  <2>3. KernelTyped' /\ HistoryTyped'
    BY <1>1, <2>2 DEF RunBlock, KernelTyped, history, HistoryTyped
  <2> QED
    BY <2>1, <2>3
<1>2. CASE Execute(t)
  <2>1. PagesTyped'
    BY <1>2 DEF Execute, PagesTyped
  <2>2. KernelTyped' /\ HistoryTyped'
    BY <1>2 DEF Execute, KernelTyped, kernelVars, history, HistoryTyped
  <2> QED
    BY <2>1, <2>2
<1>3. CASE Receive(t)
  <2>1. Head(inbox[t]) \in Messages /\ Tail(inbox[t]) \in Seq(Messages)
    BY <1>3, HeadTailProperties DEF Receive, PagesTyped
  <2>2. ASSUME NEW m \in Messages PROVE RunningAfter(t, m) \subseteq Blocks
    <3>1. running[t] \subseteq Blocks
      BY DEF PagesTyped
    <3>2. CASE m = PipelineIdle
      BY <3>2 DEF RunningAfter, PipelineIdle
    <3>3. CASE m # PipelineIdle /\ m.state = "busy"
      <4>1. m.block \in Blocks
        BY <2>2, <3>3 DEF Messages, Message
      <4> QED
        BY <3>1, <3>3, <4>1 DEF RunningAfter
    <3>4. CASE m # PipelineIdle /\ m.state # "busy"
      BY <3>1, <3>4 DEF RunningAfter
    <3> QED
      BY <3>2, <3>3, <3>4
  <2>3. running' \in [Tabs -> SUBSET Blocks]
    BY <1>3, <2>1, <2>2 DEF Receive, PagesTyped
  <2>4. executing' \in [Tabs -> BOOLEAN]
    BY <1>3 DEF Receive, PagesTyped
  <2>5. PagesTyped'
    BY <1>3, <2>1, <2>3, <2>4 DEF Receive, PagesTyped
  <2>6. KernelTyped' /\ HistoryTyped'
    BY <1>3 DEF Receive, KernelTyped, kernelVars, history, HistoryTyped
  <2> QED
    BY <2>5, <2>6
<1>4. CASE Poll(t)
  <2>1. pid \in Pids
    BY NotebookAssumption DEF HistoryTyped, Pids
  <2>2. PagesTyped'
    BY <1>4, <2>1 DEF Poll, PagesTyped
  <2>3. KernelTyped' /\ HistoryTyped'
    BY <1>4 DEF Poll, KernelTyped, kernelVars, history, HistoryTyped
  <2> QED
    BY <2>2, <2>3
<1> QED
  BY <1>1, <1>2, <1>3, <1>4

\* The steps of the kernel, of the subscriber and of executions.
LEMMA ServerKeepsTypes ==
  ASSUME TypeInv,
         \/ \E e \in Executions : ProcessStep(e) \/ PublishFinal(e)
         \/ KernelBegins \/ KernelEnds \/ KernelFails \/ Relay \/ Restart
  PROVE  PagesTyped' /\ KernelTyped' /\ HistoryTyped'
<1> USE DEF TypeInv
<1>1. ASSUME NEW e \in Executions, ProcessStep(e)
      PROVE  PagesTyped' /\ KernelTyped' /\ HistoryTyped'
  BY <1>1 DEF ProcessStep, pageVars, kernelVars, history, PagesTyped, KernelTyped,
              HistoryTyped
<1>2. ASSUME NEW e \in Executions, PublishFinal(e)
      PROVE  PagesTyped' /\ KernelTyped' /\ HistoryTyped'
  <2>1. inbox' \in [Tabs -> Seq(Messages)]
    BY <1>2, BroadcastTyped DEF PublishFinal, Messages
  <2> QED
    BY <1>2, <2>1 DEF PublishFinal, kernelVars, history, PagesTyped, KernelTyped,
                      HistoryTyped
<1>3. CASE KernelBegins
  <2>1. Head(queue) \in Blocks /\ Tail(queue) \in Seq(Blocks)
    BY <1>3, HeadTailProperties DEF KernelBegins, KernelTyped
  <2>2. Append(iopub, Say("busy", Head(queue))) \in Seq(Message)
    BY <2>1, SayTyped, AppendProperties DEF KernelTyped
  <2> QED
    BY <1>3, <2>1, <2>2 DEF KernelBegins, pageVars, history, PagesTyped, KernelTyped,
                            HistoryTyped
<1>4. CASE KernelEnds
  <2>1. Append(iopub, Say("idle", busy)) \in Seq(Message)
    BY <1>4, SayTyped, AppendProperties DEF KernelEnds, KernelTyped
  <2> QED
    BY <1>4, <2>1 DEF KernelEnds, pageVars, history, PagesTyped, KernelTyped,
                      HistoryTyped
<1>5. CASE KernelFails
  BY <1>5, AbortForm, EmptySeq DEF KernelFails, pageVars, history, PagesTyped,
                                   KernelTyped, HistoryTyped
<1>6. CASE Relay
  <2>1. Head(iopub) \in Message /\ Tail(iopub) \in Seq(Message)
    BY <1>6, HeadTailProperties DEF Relay, KernelTyped
  <2>2. inbox' \in [Tabs -> Seq(Messages)]
    BY <1>6, <2>1, BroadcastTyped DEF Relay, Messages
  <2> QED
    BY <1>6, <2>1, <2>2 DEF Relay, history, PagesTyped, KernelTyped, HistoryTyped
<1>7. CASE Restart
  <2>1. <<>> \in Seq(Blocks) /\ <<>> \in Seq(Message)
    BY EmptySeq
  <2>2. PagesTyped' /\ KernelTyped'
    BY <1>7, <2>1 DEF Restart, pageVars, PagesTyped, KernelTyped
  <2>3. HistoryTyped'
    BY <1>7, NotebookAssumption DEF Restart, UserActs, HistoryTyped
  <2> QED
    BY <2>2, <2>3
<1> QED
  BY <1>1, <1>2, <1>3, <1>4, <1>5, <1>6, <1>7

\* Every step keeps the types.
LEMMA StepKeepsTypes ==
  ASSUME TypeInv, [Next]_vars
  PROVE  TypeInv'
<1>1. Inv'
  BY StepKeepsInv DEF TypeInv
<1>2. ASSUME UNCHANGED vars
      PROVE  PagesTyped' /\ KernelTyped' /\ HistoryTyped'
  BY <1>2 DEF vars, pageVars, kernelVars, history, TypeInv, PagesTyped, KernelTyped,
              HistoryTyped
<1>3. ASSUME UserStep PROVE PagesTyped' /\ KernelTyped' /\ HistoryTyped'
  BY <1>3, UserKeepsTypes, ServerKeepsTypes DEF UserStep
<1>4. ASSUME SystemStep PROVE PagesTyped' /\ KernelTyped' /\ HistoryTyped'
  BY <1>4, PageKeepsTypes, ServerKeepsTypes DEF SystemStep
<1> QED
  BY <1>1, <1>2, <1>3, <1>4 DEF Next, TypeInv

\* Every variable keeps its type, for any tabs, blocks, pipelines and
\* executions: a request leaves only blocks of the kernel's queue behind, and
\* what a failure appends to the kernel's messages are messages.
THEOREM NotebookTypeCorrect == Spec => []TypeOK
<1>1. Init => TypeInv
  BY InitTypes
<1>2. TypeInv /\ [Next]_vars => TypeInv'
  BY StepKeepsTypes
<1>3. TypeInv => TypeOK
  BY TypeInvIsTypeOK
<1> QED
  BY <1>1, <1>2, <1>3, PTL DEF Spec

-----------------------------------------------------------------------------
(* Blocks a page shows as running.                                         *)

\* The kernel has a request for a block; a message clears a block; one does in
\* a sequence, after a place in it; one is still to come from the kernel.
Waits(b) == busy = b \/ \E i \in 1..Len(queue) : queue[i] = b

Clears(m, b) == m = PipelineIdle \/ (m.state = "idle" /\ m.block = b)

ClearedIn(seq, i, b) == \E k \in 1..Len(seq) : k > i /\ Clears(seq[k], b)

Due(b) == Waits(b) \/ ClearedIn(iopub, 0, b)

\* The kernel says that it is busy with a block before it says that it is not.
KernelSound ==
  \A i \in 1..Len(iopub) :
    /\ iopub[i].pid = pid
    /\ iopub[i].state = "busy" =>
         Waits(iopub[i].block) \/ ClearedIn(iopub, i, iopub[i].block)

\* What clears a block that a page shows as running, or will show when it reads
\* its messages, is still to come, or it is the kernel's next pid.
MessagesSound(t) ==
  \A i \in 1..Len(inbox[t]) :
    /\ inbox[t][i].pid <= pid
    /\ knownPid[t] = pid => inbox[t][i].pid \in {0, pid}
    /\ inbox[t][i].state = "busy" /\ inbox[t][i].pid = pid =>
         Due(inbox[t][i].block) \/ ClearedIn(inbox[t], i, inbox[t][i].block)

PageSound(t) ==
  /\ knownPid[t] <= pid
  /\ MessagesSound(t)
  /\ knownPid[t] = pid =>
       \A b \in running[t] : Due(b) \/ ClearedIn(inbox[t], 0, b)

GhostInv == KernelSound /\ \A t \in Tabs : PageSound(t)

\* A message that is appended comes after all others, and clears its block.
LEMMA ClearedAppend ==
  ASSUME NEW S, NEW seq \in Seq(S), NEW m \in S, NEW b, NEW i \in Nat,
         ClearedIn(seq, i, b) \/ (i <= Len(seq) /\ Clears(m, b))
  PROVE  ClearedIn(Append(seq, m), i, b)
<1>1. /\ Len(Append(seq, m)) = Len(seq) + 1
      /\ \A k \in 1..Len(seq) : Append(seq, m)[k] = seq[k]
      /\ Append(seq, m)[Len(seq) + 1] = m
      /\ Len(seq) \in Nat
  BY AppendProperties, LenProperties
<1>2. CASE ClearedIn(seq, i, b)
  BY <1>1, <1>2 DEF ClearedIn
<1>3. CASE i <= Len(seq) /\ Clears(m, b)
  BY <1>1, <1>3 DEF ClearedIn
<1> QED
  BY <1>2, <1>3

\* A message that is taken out moves the others one place ahead.
LEMMA ClearedTail ==
  ASSUME NEW S, NEW seq \in Seq(S), seq # <<>>, NEW b, NEW i \in Nat,
         ClearedIn(seq, i, b),
         i = 0 => ~Clears(Head(seq), b)
  PROVE  ClearedIn(Tail(seq), IF i = 0 THEN 0 ELSE i - 1, b)
<1>1. /\ Len(Tail(seq)) = Len(seq) - 1 /\ Len(seq) \in Nat
      /\ \A k \in 1..Len(Tail(seq)) : Tail(seq)[k] = seq[k + 1]
      /\ Head(seq) = seq[1]
  BY HeadTailProperties, LenProperties
<1>2. PICK k \in 1..Len(seq) : k > i /\ Clears(seq[k], b)
  BY DEF ClearedIn
<1>3. k # 1
  BY <1>1, <1>2
<1>4. k - 1 \in 1..Len(Tail(seq)) /\ Tail(seq)[k - 1] = seq[k]
  BY <1>1, <1>3
<1> QED
  BY <1>2, <1>3, <1>4 DEF ClearedIn

\* A page that hears nothing new, of the same kernel, and shows no more blocks
\* than those the kernel will say are idle.
LEMMA PageLeftAlone ==
  ASSUME TypeInv, NEW t \in Tabs, PageSound(t),
         inbox'[t] = inbox[t], knownPid'[t] = knownPid[t], pid' = pid,
         \A b \in Blocks : Due(b) => Due(b)',
         \A b \in running'[t] : b \in running[t] \/ Due(b)'
  PROVE  PageSound(t)'
<1>1. inbox[t] \in Seq(Messages) /\ running[t] \subseteq Blocks
  BY DEF TypeInv, PagesTyped
<1>2. ASSUME NEW i \in 1..Len(inbox[t]), inbox[t][i].state = "busy"
      PROVE  inbox[t][i].block \in Blocks
  <2>1. inbox[t][i] \in Messages
    BY <1>1, ElementOfSeq
  <2> QED
    BY <1>2, <2>1 DEF Messages, Message, PipelineIdle
<1>3. \A i, b : ClearedIn(inbox[t], i, b) => ClearedIn(inbox[t], i, b)'
  BY DEF ClearedIn, Clears, PipelineIdle
<1>4. MessagesSound(t)'
  BY <1>2, <1>3 DEF PageSound, MessagesSound
<1>5. knownPid'[t] = pid' =>
        \A b \in running'[t] : Due(b)' \/ ClearedIn(inbox[t], 0, b)'
  BY <1>1, <1>3 DEF PageSound
<1> QED
  BY <1>4, <1>5 DEF PageSound

\* A message is broadcast: if it clears a block, it will when it is read.
LEMMA PageHears ==
  ASSUME TypeInv, NEW t \in Tabs, PageSound(t), NEW m \in Messages,
         inbox'[t] = Append(inbox[t], m),
         knownPid'[t] = knownPid[t], running'[t] = running[t], pid' = pid,
         m.pid \in {0, pid},
         \A b \in Blocks : Due(b) => Due(b)' \/ Clears(m, b),
         m.state = "busy" => Due(m.block)'
  PROVE  PageSound(t)'
<1>0. PICK new : new = inbox'[t]
  OBVIOUS
<1>1. inbox[t] \in Seq(Messages) /\ running[t] \subseteq Blocks
  BY DEF TypeInv, PagesTyped
<1>2. /\ Len(new) = Len(inbox[t]) + 1
      /\ \A i \in 1..Len(inbox[t]) : new[i] = inbox[t][i]
      /\ new[Len(inbox[t]) + 1] = m
      /\ Len(inbox[t]) \in Nat
  BY <1>0, <1>1, AppendProperties, LenProperties
<1>3. ASSUME NEW i \in 0..Len(inbox[t]), NEW b \in Blocks,
             Due(b) \/ ClearedIn(inbox[t], i, b)
      PROVE  Due(b)' \/ ClearedIn(new, i, b)
  BY <1>0, <1>1, <1>2, <1>3, ClearedAppend
<1>4. pid \in Nat /\ 0 <= pid
  BY DEF TypeInv, HistoryTyped
<1>5. \A i, b : ClearedIn(new, i, b) = ClearedIn(inbox[t], i, b)'
  BY <1>0 DEF ClearedIn, Clears, PipelineIdle
<1>6. MessagesSound(t)'
  <2>1. ASSUME NEW i \in 1..Len(new)
        PROVE  /\ new[i].pid <= pid
               /\ knownPid[t] = pid => new[i].pid \in {0, pid}
               /\ new[i].state = "busy" /\ new[i].pid = pid =>
                    Due(new[i].block)' \/ ClearedIn(new, i, new[i].block)
    <3>1. CASE i = Len(inbox[t]) + 1
      BY <1>2, <1>4, <3>1
    <3>2. CASE i \in 1..Len(inbox[t])
      <4>1. new[i] = inbox[t][i]
        BY <1>2, <3>2
      <4>2. inbox[t][i].state = "busy" => inbox[t][i].block \in Blocks
        <5>1. inbox[t][i] \in Messages
          BY <1>1, <3>2, ElementOfSeq
        <5> QED
          BY <5>1 DEF Messages, Message, PipelineIdle
      <4> QED
        BY <1>3, <3>2, <4>1, <4>2 DEF PageSound, MessagesSound
    <3> QED
      BY <1>2, <2>1, <3>1, <3>2
  <2> QED
    BY <1>0, <1>5, <2>1 DEF MessagesSound
<1>7. knownPid'[t] = pid' =>
        \A b \in running'[t] : Due(b)' \/ ClearedIn(inbox[t], 0, b)'
  BY <1>1, <1>2, <1>3, <1>5 DEF PageSound
<1> QED
  BY <1>6, <1>7 DEF PageSound

\* A page reads a message: what it clears is not shown any more, and what it
\* shows will be cleared.
LEMMA PageReads ==
  ASSUME TypeInv, NEW t \in Tabs, PageSound(t), Receive(t)
  PROVE  PageSound(t)'
<1>1. inbox[t] \in Seq(Messages) /\ running[t] \subseteq Blocks /\ inbox[t] # <<>>
  BY DEF TypeInv, PagesTyped, Receive
<1>2. PICK m : m = Head(inbox[t])
  OBVIOUS
<1>3. /\ inbox'[t] = Tail(inbox[t])
      /\ running'[t] = RunningAfter(t, m)
      /\ knownPid' = knownPid /\ pid' = pid
      /\ queue' = queue /\ busy' = busy /\ iopub' = iopub
  BY <1>2 DEF Receive, kernelVars, TypeInv, PagesTyped
<1>4. /\ m \in Messages /\ m = inbox[t][1]
      /\ Len(inbox'[t]) = Len(inbox[t]) - 1
      /\ \A i \in 1..Len(inbox'[t]) : inbox'[t][i] = inbox[t][i + 1]
      /\ Len(inbox[t]) \in Nat \ {0}
  BY <1>1, <1>2, <1>3, HeadTailProperties, EmptySeq
<1>5. \A b : Due(b)' = Due(b)
  BY <1>3 DEF Due, Waits, ClearedIn, Clears, PipelineIdle
<1>6. \A i, b : ClearedIn(inbox'[t], i, b) = ClearedIn(inbox[t], i, b)'
  BY DEF ClearedIn, Clears, PipelineIdle
<1>7. ASSUME NEW i \in Nat, NEW b,
             ClearedIn(inbox[t], i, b), i = 0 => ~Clears(m, b)
      PROVE  ClearedIn(inbox'[t], IF i = 0 THEN 0 ELSE i - 1, b)
  BY <1>1, <1>2, <1>3, <1>7, ClearedTail
<1>8. MessagesSound(t)'
  <2>1. ASSUME NEW i \in 1..Len(inbox'[t])
        PROVE  /\ inbox'[t][i].pid <= pid
               /\ knownPid[t] = pid => inbox'[t][i].pid \in {0, pid}
               /\ inbox'[t][i].state = "busy" /\ inbox'[t][i].pid = pid =>
                    Due(inbox'[t][i].block) \/ ClearedIn(inbox'[t], i, inbox'[t][i].block)
    <3>1. inbox'[t][i] = inbox[t][i + 1] /\ i + 1 \in 1..Len(inbox[t])
      BY <1>4
    <3>2. \A b : ClearedIn(inbox[t], i + 1, b) => ClearedIn(inbox'[t], i, b)
      BY <1>7
    <3> QED
      BY <3>1, <3>2 DEF PageSound, MessagesSound
  <2> QED
    BY <1>3, <1>5, <1>6, <2>1 DEF MessagesSound
<1>9. ASSUME knownPid[t] = pid, NEW b \in RunningAfter(t, m)
      PROVE  Due(b) \/ ClearedIn(inbox'[t], 0, b)
  <2>1. CASE b \in running[t] /\ ~Clears(m, b)
    BY <1>7, <1>9, <2>1 DEF PageSound
  <2>2. CASE m.state = "busy" /\ m # PipelineIdle /\ b = m.block
    <3>1. m.pid = pid
      <4>1. m.pid \in {0, pid}
        BY <1>4, <1>9 DEF PageSound, MessagesSound
      <4>2. m.pid # 0
        BY <1>4, <2>2 DEF Messages, Message
      <4> QED
        BY <4>1, <4>2
    <3>2. Due(b) \/ ClearedIn(inbox[t], 1, b)
      BY <1>4, <2>2, <3>1 DEF PageSound, MessagesSound
    <3> QED
      BY <1>7, <3>2
  <2>3. \/ b \in running[t] /\ ~Clears(m, b)
        \/ m.state = "busy" /\ m # PipelineIdle /\ b = m.block
    <3>1. CASE m = PipelineIdle
      BY <1>9, <3>1 DEF RunningAfter, PipelineIdle
    <3>2. CASE m # PipelineIdle /\ m.state = "busy"
      BY <1>9, <3>2 DEF RunningAfter, Clears
    <3>3. CASE m # PipelineIdle /\ m.state # "busy"
      BY <1>9, <3>3 DEF RunningAfter, Clears
    <3> QED
      BY <3>1, <3>2, <3>3
  <2> QED
    BY <2>1, <2>2, <2>3
<1> QED
  BY <1>3, <1>5, <1>6, <1>8, <1>9 DEF PageSound

\* The kernel begins a request: its block still waits, and the kernel says so.
LEMMA KernelBeginsSound ==
  ASSUME TypeInv, KernelSound, KernelBegins
  PROVE  /\ KernelSound'
         /\ \A b \in Blocks : Due(b) => Due(b)'
<1>1. queue \in Seq(Blocks) /\ queue # <<>> /\ iopub \in Seq(Message) /\ busy = NoBlock
  BY DEF TypeInv, KernelTyped, KernelBegins
<1>2. PICK first, new : first = Head(queue) /\ new = Say("busy", Head(queue))
  OBVIOUS
<1>3. /\ busy' = first /\ queue' = Tail(queue) /\ iopub' = Append(iopub, new)
      /\ pid' = pid
  BY <1>2 DEF KernelBegins
<1>4. /\ first \in Blocks /\ first = queue[1]
      /\ Len(queue') = Len(queue) - 1 /\ Len(queue) \in Nat
      /\ \A i \in 1..Len(queue') : queue'[i] = queue[i + 1]
  BY <1>1, <1>2, <1>3, HeadTailProperties, LenProperties
<1>5. new \in Message /\ new.block = first /\ new.pid = pid
  BY <1>2, <1>4, SayTyped DEF TypeInv
<1>6. /\ Len(iopub') = Len(iopub) + 1 /\ Len(iopub) \in Nat
      /\ \A i \in 1..Len(iopub) : iopub'[i] = iopub[i]
      /\ iopub'[Len(iopub) + 1] = new
  BY <1>1, <1>3, <1>5, AppendProperties, LenProperties
<1>7. \A b \in Blocks : Waits(b) => Waits(b)'
  <2>1. ASSUME NEW b \in Blocks, NEW i \in 1..Len(queue), queue[i] = b, i # 1
        PROVE  \E k \in 1..Len(queue') : queue'[k] = b
    <3>1. i - 1 \in 1..Len(queue') /\ queue'[i - 1] = b
      BY <1>4, <2>1
    <3> QED
      BY <3>1
  <2> QED
    BY <1>1, <1>3, <1>4, <2>1, NotebookAssumption DEF Waits
<1>8. ASSUME NEW i \in Nat, NEW b, ClearedIn(iopub, i, b)
      PROVE  ClearedIn(iopub, i, b)'
  <2>1. ClearedIn(iopub', i, b)
    BY <1>1, <1>3, <1>5, <1>8, ClearedAppend
  <2> QED
    BY <2>1 DEF ClearedIn, Clears, PipelineIdle
<1>9. KernelSound'
  <2>1. ASSUME NEW i \in 1..Len(iopub)
        PROVE  iopub[i].state = "busy" => iopub[i].block \in Blocks
    <3>1. iopub[i] \in Message
      BY <1>1, ElementOfSeq
    <3> QED
      BY <3>1 DEF Message
  <2>2. Waits(first)'
    BY <1>3 DEF Waits
  <2> QED
    BY <1>3, <1>5, <1>6, <1>7, <1>8, <2>1, <2>2 DEF KernelSound
<1> QED
  BY <1>7, <1>8, <1>9 DEF Due

\* A request that ends says that its block is idle, after whatever the kernel
\* said before.
LEMMA KernelEndsSound ==
  ASSUME TypeInv, KernelSound, KernelEnds
  PROVE  /\ KernelSound'
         /\ \A b \in Blocks : Due(b) => Due(b)'
<1>1. iopub \in Seq(Message) /\ busy \in Blocks
  BY DEF TypeInv, KernelTyped, KernelEnds
<1>2. PICK new : new = Say("idle", busy)
  OBVIOUS
<1>3. busy' = NoBlock /\ queue' = queue /\ iopub' = Append(iopub, new) /\ pid' = pid
  BY <1>2 DEF KernelEnds
<1>4. new \in Message /\ new.state = "idle" /\ new.block = busy /\ new.pid = pid
  BY <1>1, <1>2, SayTyped DEF TypeInv
<1>5. /\ Len(iopub') = Len(iopub) + 1 /\ Len(iopub) \in Nat
      /\ \A i \in 1..Len(iopub) : iopub'[i] = iopub[i]
      /\ iopub'[Len(iopub) + 1] = new
  BY <1>1, <1>3, <1>4, AppendProperties, LenProperties
<1>6. ASSUME NEW i \in 0..Len(iopub), NEW b, Waits(b) \/ ClearedIn(iopub, i, b)
      PROVE  Waits(b)' \/ ClearedIn(iopub, i, b)'
  <2>1. Waits(b)' \/ b = busy \/ ClearedIn(iopub, i, b)
    BY <1>3, <1>6 DEF Waits
  <2>2. Clears(new, busy)
    BY <1>4 DEF Clears
  <2>3. Waits(b)' \/ ClearedIn(iopub', i, b)
    BY <1>1, <1>3, <1>4, <1>5, <2>1, <2>2, ClearedAppend
  <2> QED
    BY <2>3 DEF ClearedIn, Clears, PipelineIdle
<1>7. KernelSound'
  BY <1>3, <1>4, <1>5, <1>6 DEF KernelSound
<1> QED
  BY <1>5, <1>6, <1>7 DEF Due

\* A request that fails, by itself or by an interrupt, says so of its block and
\* of all those that waited behind it.
LEMMA AbortSound ==
  ASSUME TypeInv, KernelSound, Abort, pid' = pid
  PROVE  /\ KernelSound'
         /\ \A b \in Blocks : Due(b) => Due(b)'
<1>1. /\ busy \in Blocks /\ busy' = NoBlock /\ queue' = <<>>
      /\ iopub' \in Seq(Message)
      /\ Len(iopub') = Len(iopub) + 1 + Len(queue)
      /\ \A i \in 1..Len(iopub) : iopub'[i] = iopub[i]
      /\ iopub'[Len(iopub) + 1] = Say("idle", busy)
      /\ \A i \in 1..Len(queue) : iopub'[Len(iopub) + 1 + i] = Say("idle", queue[i])
  BY AbortForm DEF TypeInv
<1>2. iopub \in Seq(Message) /\ queue \in Seq(Blocks)
  BY DEF TypeInv, KernelTyped
<1>3. Len(iopub) \in Nat /\ Len(queue) \in Nat
  BY <1>2, LenProperties
<1>4. ASSUME NEW b \in Blocks
      PROVE  /\ Say("idle", b).state = "idle" /\ Say("idle", b).pid = pid
             /\ Clears(Say("idle", b), b)
  BY <1>4, SayTyped DEF Clears, TypeInv
<1>5. ASSUME NEW i \in 0..Len(iopub), NEW b \in Blocks,
             Waits(b) \/ ClearedIn(iopub, i, b)
      PROVE  ClearedIn(iopub', i, b)
  <2>1. CASE busy = b
    <3>1. Len(iopub) + 1 \in 1..Len(iopub') /\ Len(iopub) + 1 > i
      BY <1>1, <1>3
    <3> QED
      BY <1>1, <1>4, <2>1, <3>1 DEF ClearedIn
  <2>2. ASSUME NEW k \in 1..Len(queue), queue[k] = b
        PROVE  ClearedIn(iopub', i, b)
    <3>1. Len(iopub) + 1 + k \in 1..Len(iopub') /\ Len(iopub) + 1 + k > i
      BY <1>1, <1>3
    <3>2. Clears(iopub'[Len(iopub) + 1 + k], b)
      BY <1>1, <1>4, <2>2
    <3> QED
      BY <3>1, <3>2 DEF ClearedIn
  <2>3. CASE ClearedIn(iopub, i, b)
    BY <1>1, <1>3, <2>3 DEF ClearedIn
  <2> QED
    BY <1>5, <2>1, <2>2, <2>3 DEF Waits
<1>6. \A i, b : ClearedIn(iopub', i, b) = ClearedIn(iopub, i, b)'
  BY DEF ClearedIn, Clears, PipelineIdle
<1>7. ASSUME NEW i \in 1..Len(iopub')
      PROVE  /\ iopub'[i].pid = pid
             /\ iopub'[i].state = "busy" => ClearedIn(iopub', i, iopub'[i].block)
  <2>1. CASE i \in 1..Len(iopub)
    <3>1. iopub[i].block \in Blocks
      <4>1. iopub[i] \in Message
        BY <1>2, <2>1, ElementOfSeq
      <4> QED
        BY <4>1 DEF Message
    <3> QED
      BY <1>1, <1>5, <2>1, <3>1 DEF KernelSound
  <2>2. CASE i = Len(iopub) + 1
    BY <1>1, <1>4, <2>2
  <2>3. CASE i > Len(iopub) + 1
    <3>1. i - Len(iopub) - 1 \in 1..Len(queue)
      BY <1>1, <1>3, <2>3
    <3>2. queue[i - Len(iopub) - 1] \in Blocks
      BY <1>2, <3>1, ElementOfSeq
    <3>3. iopub'[i] = Say("idle", queue[i - Len(iopub) - 1])
      <4>1. Len(iopub) + 1 + (i - Len(iopub) - 1) = i
        BY <1>3, <3>1
      <4> QED
        BY <1>1, <3>1, <4>1
    <3> QED
      BY <1>4, <3>2, <3>3
  <2> QED
    BY <1>1, <1>3, <2>1, <2>2, <2>3
<1>8. KernelSound'
  BY <1>6, <1>7 DEF KernelSound
<1> QED
  BY <1>3, <1>5, <1>6, <1>8 DEF Due

\* The subscriber takes the kernel's first message: what it clears is cleared
\* when pages read it, and of what it starts the end is still to come.
LEMMA RelaySound ==
  ASSUME TypeInv, KernelSound, Relay, NEW m \in Message, m = Head(iopub)
  PROVE  /\ KernelSound'
         /\ \A b \in Blocks : Due(b) => Due(b)' \/ Clears(m, b)
         /\ m.state = "busy" => Due(m.block)'
         /\ m.pid = pid
<1>1. iopub \in Seq(Message) /\ iopub # <<>> /\ iopub' = Tail(iopub)
  BY DEF TypeInv, KernelTyped, Relay
<1>2. queue' = queue /\ busy' = busy /\ pid' = pid
  BY DEF Relay
<1>3. /\ m = iopub[1] /\ Len(iopub) \in Nat \ {0}
      /\ Len(iopub') = Len(iopub) - 1
      /\ \A i \in 1..Len(iopub') : iopub'[i] = iopub[i + 1]
  BY <1>1, HeadTailProperties, EmptySeq
<1>4. ASSUME NEW i \in Nat, NEW b, ClearedIn(iopub, i, b), i = 0 => ~Clears(m, b)
      PROVE  ClearedIn(iopub', IF i = 0 THEN 0 ELSE i - 1, b)
  BY <1>1, <1>4, ClearedTail
<1>5. \A i, b : ClearedIn(iopub', i, b) = ClearedIn(iopub, i, b)'
  BY DEF ClearedIn, Clears, PipelineIdle
<1>6. \A b : Waits(b)' = Waits(b)
  BY <1>2 DEF Waits
<1>7. ASSUME NEW i \in 1..Len(iopub')
      PROVE  /\ iopub'[i].pid = pid
             /\ iopub'[i].state = "busy" =>
                  Waits(iopub'[i].block) \/ ClearedIn(iopub', i, iopub'[i].block)
  <2>1. iopub'[i] = iopub[i + 1] /\ i + 1 \in 1..Len(iopub)
    BY <1>3
  <2>2. \A b : ClearedIn(iopub, i + 1, b) => ClearedIn(iopub', i, b)
    BY <1>4
  <2> QED
    BY <2>1, <2>2 DEF KernelSound
<1>8. KernelSound'
  BY <1>2, <1>5, <1>6, <1>7 DEF KernelSound
<1>9. \A b \in Blocks : Due(b) => Due(b)' \/ Clears(m, b)
  BY <1>4, <1>5, <1>6 DEF Due
<1>10. m.pid = pid /\ (m.state = "busy" => Waits(m.block) \/ ClearedIn(iopub, 1, m.block))
  BY <1>3 DEF KernelSound
<1>11. m.state = "busy" => Due(m.block)'
  <2>1. \A b : ClearedIn(iopub, 1, b) => ClearedIn(iopub', 0, b)
    BY <1>4
  <2> QED
    BY <1>5, <1>6, <1>10, <2>1 DEF Due
<1> QED
  BY <1>8, <1>9, <1>10, <1>11

\* At first nothing is shown as running and nothing has been said.
LEMMA InitGhost == Init => GhostInv
<1> SUFFICES ASSUME Init PROVE GhostInv
  OBVIOUS
<1>1. iopub = <<>> /\ pid = 1 /\ \A t \in Tabs : knownPid[t] = 0 /\ inbox[t] = <<>>
  BY DEF Init
<1>2. Len(<<>>) = 0
  BY EmptySeq
<1> QED
  BY <1>1, <1>2 DEF GhostInv, KernelSound, PageSound, MessagesSound

\* A step that neither says nor broadcasts anything, restarts nothing and makes
\* pages show no more blocks than the kernel has requests for.
LEMMA QuietKeepsGhost ==
  ASSUME TypeInv, GhostInv, iopub' = iopub, busy' = busy, pid' = pid,
         \A b : Waits(b) => Waits(b)',
         \A t \in Tabs :
           /\ inbox'[t] = inbox[t] /\ knownPid'[t] = knownPid[t]
           /\ \A b \in running'[t] : b \in running[t] \/ Waits(b)'
  PROVE  GhostInv'
<1>1. \A i, b : ClearedIn(iopub, i, b)' = ClearedIn(iopub, i, b)
  BY DEF ClearedIn, Clears, PipelineIdle
<1>2. KernelSound'
  BY <1>1 DEF GhostInv, KernelSound
<1>3. \A b : Due(b) => Due(b)'
  BY <1>1 DEF Due
<1>4. \A b : Waits(b)' => Due(b)'
  BY DEF Due
<1>5. ASSUME NEW t \in Tabs PROVE PageSound(t)'
  BY <1>3, <1>4, <1>5, PageLeftAlone DEF GhostInv
<1> QED
  BY <1>2, <1>5 DEF GhostInv

\* A pipeline ends or is cancelled, and all pages are told.
LEMMA PipelineEndsKeepsGhost ==
  ASSUME TypeInv, GhostInv, Broadcast(PipelineIdle),
         UNCHANGED <<running, knownPid, kernelVars>>
  PROVE  GhostInv'
<1>1. \A b : Due(b)' = Due(b)
  BY DEF Due, Waits, ClearedIn, Clears, PipelineIdle, kernelVars
<1>2. KernelSound'
  BY DEF GhostInv, KernelSound, Waits, ClearedIn, Clears, PipelineIdle, kernelVars
<1>3. PipelineIdle \in Messages /\ PipelineIdle.pid = 0 /\ PipelineIdle.state # "busy"
  BY DEF Messages, PipelineIdle
<1>4. ASSUME NEW t \in Tabs PROVE PageSound(t)'
  <2>1. inbox'[t] = Append(inbox[t], PipelineIdle)
    BY DEF Broadcast
  <2> QED
    BY <1>1, <1>3, <2>1, PageHears DEF GhostInv, kernelVars
<1> QED
  BY <1>2, <1>4 DEF GhostInv

\* A page that begins anew: it has nothing to show and nothing to read.
LEMMA LeaveKeepsGhost ==
  ASSUME TypeInv, GhostInv, NEW t \in Tabs, Leave(t)
  PROVE  GhostInv'
<1>1. kernelVars' = kernelVars
  BY DEF Leave
<1>2. \A b : Due(b)' = Due(b)
  BY <1>1 DEF Due, Waits, ClearedIn, Clears, PipelineIdle, kernelVars
<1>3. KernelSound'
  BY <1>1 DEF GhostInv, KernelSound, Waits, ClearedIn, Clears, PipelineIdle, kernelVars
<1>4. PageSound(t)'
  <2>1. knownPid'[t] = 0 /\ inbox'[t] = <<>> /\ Len(<<>>) = 0
    BY EmptySeq DEF Leave, TypeInv, PagesTyped
  <2>2. pid' \in Nat \ {0}
    BY <1>1 DEF kernelVars, TypeInv, HistoryTyped
  <2> QED
    BY <2>1, <2>2 DEF PageSound, MessagesSound
<1>5. ASSUME NEW u \in Tabs, u # t PROVE PageSound(u)'
  <2>1. inbox'[u] = inbox[u] /\ knownPid'[u] = knownPid[u] /\ running'[u] = running[u]
    BY <1>5 DEF Leave, TypeInv, PagesTyped
  <2> QED
    BY <1>1, <1>2, <2>1, PageLeftAlone DEF GhostInv, kernelVars
<1> QED
  BY <1>3, <1>4, <1>5 DEF GhostInv

\* The kernel's steps, and the interrupt of a user.
LEMMA KernelKeepsGhost ==
  ASSUME TypeInv, GhostInv,
         \/ KernelBegins \/ KernelEnds \/ KernelFails
         \/ \E t \in Tabs : Interrupt(t)
  PROVE  GhostInv'
<1>1. /\ inbox' = inbox /\ knownPid' = knownPid /\ pid' = pid
      /\ \A t \in Tabs : running'[t] \subseteq running[t]
  BY DEF KernelBegins, KernelEnds, KernelFails, Interrupt, pageVars, TypeInv, PagesTyped
<1>2. KernelSound' /\ \A b \in Blocks : Due(b) => Due(b)'
  BY <1>1, KernelBeginsSound, KernelEndsSound, AbortSound
  DEF GhostInv, KernelFails, Interrupt
<1>3. ASSUME NEW t \in Tabs PROVE PageSound(t)'
  BY <1>1, <1>2, PageLeftAlone DEF GhostInv
<1> QED
  BY <1>2, <1>3 DEF GhostInv

\* A message of the kernel is broadcast.
LEMMA RelayKeepsGhost ==
  ASSUME TypeInv, GhostInv, Relay
  PROVE  GhostInv'
<1>1. Head(iopub) \in Message
  BY HeadTailProperties DEF Relay, TypeInv, KernelTyped
<1>2. PICK m \in Message : m = Head(iopub)
  BY <1>1
<1>3. /\ KernelSound'
      /\ \A b \in Blocks : Due(b) => Due(b)' \/ Clears(m, b)
      /\ m.state = "busy" => Due(m.block)'
      /\ m.pid = pid
  BY <1>2, RelaySound DEF GhostInv
<1>4. ASSUME NEW t \in Tabs PROVE PageSound(t)'
  <2>1. /\ inbox'[t] = Append(inbox[t], m) /\ knownPid' = knownPid
        /\ running' = running /\ pid' = pid
    BY <1>2 DEF Relay, Broadcast
  <2> QED
    BY <1>3, <2>1, PageHears DEF GhostInv, Messages
<1> QED
  BY <1>3, <1>4 DEF GhostInv

\* A restart: no page knows the new kernel, and no message is of it.
LEMMA RestartKeepsGhost ==
  ASSUME TypeInv, GhostInv, Restart
  PROVE  GhostInv'
<1>1. iopub' = <<>> /\ pid' = pid + 1 /\ inbox' = inbox /\ knownPid' = knownPid
  BY DEF Restart, pageVars
<1>2. Len(<<>>) = 0
  BY EmptySeq
<1>3. KernelSound'
  BY <1>1, <1>2 DEF KernelSound
<1>4. pid \in Nat
  BY DEF TypeInv, HistoryTyped
<1>5. ASSUME NEW t \in Tabs PROVE PageSound(t)'
  <2>1. knownPid[t] <= pid /\ knownPid[t] \in Int
    BY DEF GhostInv, PageSound, TypeInv, PagesTyped, Pids
  <2>2. ASSUME NEW i \in 1..Len(inbox[t])
        PROVE  inbox[t][i].pid <= pid /\ inbox[t][i].pid \in Int
    <3>1. inbox[t][i] \in Messages
      BY <2>2, ElementOfSeq DEF TypeInv, PagesTyped
    <3>2. inbox[t][i].pid \in Int
      BY <3>1 DEF Messages, Message, PipelineIdle, Pids
    <3> QED
      BY <2>2, <3>2 DEF GhostInv, PageSound, MessagesSound
  <2> QED
    BY <1>1, <1>4, <2>1, <2>2 DEF PageSound, MessagesSound
<1> QED
  BY <1>3, <1>5 DEF GhostInv

\* A page learns the kernel's pid after the messages of the kernels before.
LEMMA PollKeepsGhost ==
  ASSUME MessagesBeatPoll, TypeInv, GhostInv, NEW t \in Tabs, Poll(t)
  PROVE  GhostInv'
<1>1. kernelVars' = kernelVars /\ inbox' = inbox
  BY DEF Poll
<1>2. \A b : Due(b)' = Due(b)
  BY <1>1 DEF Due, Waits, ClearedIn, Clears, PipelineIdle, kernelVars
<1>3. KernelSound'
  BY <1>1 DEF GhostInv, KernelSound, Waits, ClearedIn, Clears, PipelineIdle, kernelVars
<1>4. PageSound(t)'
  <2>1. knownPid'[t] = pid /\ running'[t] = {} /\ pid' = pid
    BY <1>1 DEF Poll, TypeInv, PagesTyped, kernelVars
  <2>2. \A i \in 1..Len(inbox[t]) : inbox[t][i].pid \in {0, pid}
    BY DEF Poll
  <2>3. \A i, b : ClearedIn(inbox[t], i, b)' = ClearedIn(inbox[t], i, b)
    BY <1>1 DEF ClearedIn, Clears, PipelineIdle
  <2>4. pid \in Nat
    BY DEF TypeInv, HistoryTyped
  <2> QED
    BY <1>1, <1>2, <2>1, <2>2, <2>3, <2>4 DEF GhostInv, PageSound, MessagesSound
<1>5. ASSUME NEW u \in Tabs, u # t PROVE PageSound(u)'
  <2>1. knownPid'[u] = knownPid[u] /\ running'[u] = running[u]
    BY <1>5 DEF Poll, TypeInv, PagesTyped
  <2> QED
    BY <1>1, <1>2, <2>1, PageLeftAlone DEF GhostInv, kernelVars
<1> QED
  BY <1>3, <1>4, <1>5 DEF GhostInv

\* A page reads a message: only what it shows changes.
LEMMA ReceiveKeepsGhost ==
  ASSUME TypeInv, GhostInv, NEW t \in Tabs, Receive(t)
  PROVE  GhostInv'
<1>1. kernelVars' = kernelVars
  BY DEF Receive
<1>2. \A b : Due(b)' = Due(b)
  BY <1>1 DEF Due, Waits, ClearedIn, Clears, PipelineIdle, kernelVars
<1>3. KernelSound'
  BY <1>1 DEF GhostInv, KernelSound, Waits, ClearedIn, Clears, PipelineIdle, kernelVars
<1>4. PageSound(t)'
  BY PageReads DEF GhostInv
<1>5. ASSUME NEW u \in Tabs, u # t PROVE PageSound(u)'
  <2>1. inbox'[u] = inbox[u] /\ knownPid'[u] = knownPid[u] /\ running'[u] = running[u]
    BY <1>5 DEF Receive, TypeInv, PagesTyped
  <2> QED
    BY <1>1, <1>2, <2>1, PageLeftAlone DEF GhostInv, kernelVars
<1> QED
  BY <1>3, <1>4, <1>5 DEF GhostInv

\* Every step keeps what is still to come for what pages show.
LEMMA StepKeepsGhost ==
  ASSUME MessagesBeatPoll, TypeInv, GhostInv, [Next]_vars
  PROVE  GhostInv'
<1>1. ASSUME UNCHANGED <<running, inbox, knownPid, kernelVars>> PROVE GhostInv'
  <2>1. \A b : Waits(b) => Waits(b)'
    BY <1>1 DEF Waits, kernelVars
  <2> QED
    BY <1>1, <2>1, QuietKeepsGhost DEF kernelVars
<1>2. ASSUME NEW t \in Tabs, NEW b \in Blocks, ClickRun(t, b) PROVE GhostInv'
  BY <1>1, <1>2 DEF ClickRun
<1>3. ASSUME NEW t \in Tabs, NEW b \in Blocks, RunBlock(t, b) PROVE GhostInv'
  <2>1. queue \in Seq(Blocks)
    BY DEF TypeInv, KernelTyped
  <2>2. /\ queue' = Append(queue, b) /\ busy' = busy /\ iopub' = iopub /\ pid' = pid
        /\ running' = [running EXCEPT ![t] = @ \cup {b}]
        /\ inbox' = inbox /\ knownPid' = knownPid
    BY <1>3 DEF RunBlock
  <2>3. /\ Len(queue') = Len(queue) + 1 /\ Len(queue) \in Nat
        /\ \A i \in 1..Len(queue) : queue'[i] = queue[i]
        /\ queue'[Len(queue) + 1] = b
    BY <2>1, <2>2, AppendProperties, LenProperties
  <2>4. Waits(b)' /\ \A c : Waits(c) => Waits(c)'
    BY <2>2, <2>3 DEF Waits
  <2>5. \A u \in Tabs : \A c \in running'[u] : c \in running[u] \/ Waits(c)'
    BY <2>2, <2>4 DEF TypeInv, PagesTyped
  <2> QED
    BY <2>2, <2>4, <2>5, QuietKeepsGhost
<1>4. ASSUME NEW t \in Tabs, ClickExecute(t) \/ Execute(t) PROVE GhostInv'
  BY <1>1, <1>4 DEF ClickExecute, Execute
<1>5. ASSUME NEW t \in Tabs, Cancel(t) PROVE GhostInv'
  BY <1>5, PipelineEndsKeepsGhost DEF Cancel
<1>6. ASSUME NEW e \in Executions, ProcessStep(e) PROVE GhostInv'
  BY <1>1, <1>6 DEF ProcessStep, pageVars
<1>7. ASSUME NEW e \in Executions, PublishFinal(e) PROVE GhostInv'
  BY <1>7, PipelineEndsKeepsGhost DEF PublishFinal
<1>8. CASE UNCHANGED vars
  BY <1>1, <1>8 DEF vars, pageVars
<1> QED
  BY <1>2, <1>3, <1>4, <1>5, <1>6, <1>7, <1>8, LeaveKeepsGhost, KernelKeepsGhost,
     RelayKeepsGhost, RestartKeepsGhost, PollKeepsGhost, ReceiveKeepsGhost
  DEF Next, UserStep, SystemStep

\* Nothing is due of a kernel that has nothing to do and has said nothing more.
LEMMA GhostInvShowsNoGhost == TypeInv /\ GhostInv => NoGhostRunning
<1> SUFFICES ASSUME TypeInv, GhostInv,
                    queue = <<>>, busy = NoBlock, iopub = <<>>,
                    NEW t \in Tabs, inbox[t] = <<>>, knownPid[t] = pid,
                    NEW b \in running[t]
             PROVE  FALSE
  BY DEF NoGhostRunning
<1>1. b \in Blocks
  BY DEF TypeInv, PagesTyped
<1>2. Len(<<>>) = 0
  BY EmptySeq
<1>3. Due(b) \/ ClearedIn(inbox[t], 0, b)
  BY DEF GhostInv, PageSound
<1> QED
  BY <1>1, <1>2, <1>3, NotebookAssumption DEF Due, Waits, ClearedIn

\* When the kernel has nothing to do and all it said is read, no page that knows
\* this kernel shows a block as running, for any tabs and blocks, any clicks,
\* failures, interrupts and restarts.  The hypothesis is needed: a page that
\* learns the new pid before it reads the old kernel's "busy" shows that block
\* as running, and no message is left to clear it.
THEOREM NoGhosts ==
  ASSUME MessagesBeatPoll
  PROVE  Spec => []NoGhostRunning
<1>1. Init => TypeInv /\ GhostInv
  BY InitTypes, InitGhost
<1>2. TypeInv /\ GhostInv /\ [Next]_vars => (TypeInv /\ GhostInv)'
  BY StepKeepsTypes, StepKeepsGhost
<1>3. TypeInv /\ GhostInv => NoGhostRunning
  BY GhostInvShowsNoGhost
<1> QED
  BY <1>1, <1>2, <1>3, PTL DEF Spec

=============================================================================
