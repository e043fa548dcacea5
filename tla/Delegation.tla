----------------------------- MODULE Delegation -----------------------------
(***************************************************************************)
(* An agent that delegates: RunCoordinator.dispatch starts a child AgentRun *)
(* for a tool call of the parent's graph, the parent waits in waiting_child, *)
(* the child may be interrupted for an approval, and a decision resumes the *)
(* child's graph first and the parent's after it (src/mmag/agent_system/    *)
(* dispatcher.py, control_plane/runs.py, langgraph_approval.py).            *)
(*                                                                          *)
(* As in Pipeline, code between two awaits is not interleaved but can die   *)
(* between commits.  How two people race for one decision is Approval's     *)
(* subject; here a decision is one step, and at most one resumption is      *)
(* under way.                                                               *)
(***************************************************************************)
EXTENDS Naturals

CONSTANTS
  ToolCall,    \* the parent's calls of delegate tools; each has its own execution key
  MaxGates,    \* bound: how many approvals a child asks for
  MaxCrashes,  \* bound
  None

ASSUME DelegationAssumption ==
  /\ MaxGates \in Nat /\ MaxCrashes \in Nat
  /\ None \notin ToolCall

VARIABLES
  \* ---- SQLite
  parent, task,  \* states of the parent's AgentRun and of its Task
  child,         \* [ToolCall -> state of the child's AgentRun]
  request,       \* [ToolCall -> state of the newest approval request of the child]
  gates,         \* [ToolCall -> how many requests there were]
  \* ---- memory, and the parent's checkpoint while it is parked
  graph,         \* of the parent: "model" while it runs, "parked" at an interrupt
  driver,        \* who runs it: the pipeline, or the resumption after a decision
  tool,          \* [ToolCall -> where dispatch() is, or what the model was told]
  resumer,       \* the resumption: its pc and the call whose child it resumes
  \* ---- the world
  started,       \* [ToolCall -> how often a child agent was started for it]
  up, crashes

executions == <<parent, task>>
childRequests == <<request, gates>>
memory == <<graph, driver, tool, resumer>>
delegationVars == <<executions, child, childRequests, memory, started, up, crashes>>

ParentState == {"queued", "running", "waiting_child", "waiting_approval", "succeeded", "failed"}
ChildState == {"absent", "queued", "running", "waiting_approval", "succeeded", "exhausted", "failed"}
FinalStates == {"succeeded", "exhausted", "failed"}
ActiveStates == {"queued", "running", "waiting_approval"}

Told == {"result", "error", "abandoned", "lost"}
Dispatching == {"claim", "wait", "queue_parent", "run_parent"}
Resuming == {"queue_child", "run_child", "queue_parent", "run_parent", "start_task", "fail_parent"}
NoResumer == [pc |-> "idle", call |-> None]

\* The event loop is free.
LoopIsFree == up /\ graph # "registering" /\ resumer.pc \notin Resuming
           /\ \A t \in ToolCall : tool[t] \notin Dispatching

-----------------------------------------------------------------------------
(* dispatch(), called by the delegate tool of the parent's graph.          *)

\* create_or_get finds a child by its execution key; what it may start is new, or was
\* queued again by a restart.  A mutant has no key.
Unkeyed(t) == TRUE
Startable(t) == child[t] \in {"absent", "queued"}

\* _replay: a child that ran before answers with what it committed.
Replayed(t) ==
  CASE child[t] \in {"succeeded", "exhausted"} -> "result"
    [] child[t] = "waiting_approval" -> "suspended"
    [] OTHER -> "error"

Dispatch(t) ==
  /\ LoopIsFree /\ graph = "model"
  /\ tool[t] = "again" \/ (tool[t] = "none" /\ \A s \in ToolCall : tool[s] # "again")
  /\ IF Startable(t)
       THEN /\ child' = [child EXCEPT ![t] = "queued"]
            /\ tool' = [tool EXCEPT ![t] = "claim"]
       ELSE /\ tool' = [tool EXCEPT ![t] = Replayed(t)]
            /\ UNCHANGED child
  /\ UNCHANGED <<executions, childRequests, graph, driver, resumer, started, up, crashes>>

Claim(t) ==
  /\ up /\ tool[t] = "claim"
  /\ child' = [child EXCEPT ![t] = "running"]
  /\ tool' = [tool EXCEPT ![t] = "wait"]
  /\ UNCHANGED <<executions, childRequests, graph, driver, resumer, started, up, crashes>>

\* The parent must be running to wait; it is not if another call's child has it wait already.
\* The mutant takes no notice.
CarelessWaitForChild(t) ==
  /\ up /\ tool[t] = "wait"
  /\ parent' = "waiting_child"
  /\ tool' = [tool EXCEPT ![t] = "agent"]
  /\ started' = [started EXCEPT ![t] = @ + 1]
  /\ UNCHANGED <<task, child, childRequests, graph, driver, resumer, up, crashes>>

WaitForChild(t) ==
  /\ up /\ tool[t] = "wait"
  /\ IF parent = "running"
       THEN /\ parent' = "waiting_child"
            /\ tool' = [tool EXCEPT ![t] = "agent"]
            /\ started' = [started EXCEPT ![t] = @ + 1]
            /\ UNCHANGED child
       ELSE /\ child' = [child EXCEPT ![t] = "failed"]
            /\ tool' = [tool EXCEPT ![t] = "error"]
            /\ UNCHANGED <<parent, started>>
  /\ UNCHANGED <<task, childRequests, graph, driver, resumer, up, crashes>>

\* Whether the parent is resumed at once; a mutant forgets it when the child failed.
ResumesAfterSuccess(state) == state \in {"succeeded", "exhausted"}
ResumesParent(state) == state \in FinalStates

\* agent.run ended, with a result that is committed, an interrupt or an exception.
ChildEnds(t, state) ==
  /\ LoopIsFree /\ graph = "model"
  /\ tool[t] = "agent"
  /\ state \in FinalStates \/ (state = "waiting_approval" /\ gates[t] < MaxGates)
  /\ child' = [child EXCEPT ![t] = state]
  /\ tool' = [tool EXCEPT ![t] = IF ResumesParent(state) THEN "queue_parent"
                                     ELSE IF state = "failed" THEN "error" ELSE "suspended"]
  /\ UNCHANGED <<executions, childRequests, graph, driver, resumer, started, up, crashes>>

\* _resume_parent: queued, then running; then dispatch() returns or raises.
QueueParent(t) ==
  /\ up /\ tool[t] = "queue_parent"
  /\ parent' = "queued"
  /\ tool' = [tool EXCEPT ![t] = "run_parent"]
  /\ UNCHANGED <<task, child, childRequests, graph, driver, resumer, started, up, crashes>>

\* What dispatch() makes of the child's end; a mutant swallows its failure.
Swallowed(state) == "result"
ToolAnswer(state) == IF state = "failed" THEN "error" ELSE "result"

RunParent(t) ==
  /\ up /\ tool[t] = "run_parent"
  /\ parent' = "running"
  /\ tool' = [tool EXCEPT ![t] = ToolAnswer(child[t])]
  /\ UNCHANGED <<task, child, childRequests, graph, driver, resumer, started, up, crashes>>

\* The capability's timeout cancels dispatch(), whose handlers catch Exception and not
\* CancelledError: child and parent stay as they are, and the model is told of a timeout.
TimeOut(t) ==
  /\ LoopIsFree /\ tool[t] = "agent"
  /\ tool' = [tool EXCEPT ![t] = "abandoned"]
  /\ UNCHANGED <<executions, child, childRequests, graph, driver, resumer, started, up, crashes>>

DispatchStep(t) ==
  \/ Dispatch(t) \/ Claim(t) \/ WaitForChild(t) \/ QueueParent(t) \/ RunParent(t)
  \/ \E state \in ChildState : ChildEnds(t, state)

-----------------------------------------------------------------------------
(* The parent's graph.                                                     *)

AllTold == \A t \in ToolCall : tool[t] \in Told \cup {"none"}

\* _transition_run: to waiting_approval and succeeded from running only, to failed also from
\* a state of waiting; the pipeline's _fail_execution from running only.
Moved(state, target, from) == IF state \in from THEN target ELSE state
Waiting == {"waiting_child", "waiting_approval"}

Return ==
  /\ LoopIsFree /\ graph = "model" /\ AllTold
  /\ graph' = "over"
  /\ parent' = Moved(parent, "succeeded", {"running"})
  /\ task' = Moved(task, "succeeded", {"running"})
  /\ UNCHANGED <<child, childRequests, driver, tool, resumer, started, up, crashes>>

\* The graph raises, or the run's deadline cancels it; what its tools were at is lost.
Raise ==
  LET from == {"running"} \cup (IF driver = "resume" THEN Waiting ELSE {}) IN
  /\ LoopIsFree /\ graph = "model"
  /\ graph' = "over"
  /\ tool' = [t \in ToolCall |-> IF tool[t] \in {"agent", "suspended", "again"} THEN "abandoned"
                                 ELSE tool[t]]
  /\ parent' = Moved(parent, "failed", from)
  /\ task' = Moved(task, "failed", from)
  /\ UNCHANGED <<child, childRequests, driver, resumer, started, up, crashes>>

\* A suspended tool interrupts the graph once the others have come back; register() stores
\* the request ...
Interrupt(t) ==
  /\ LoopIsFree /\ graph = "model"
  /\ tool[t] = "suspended"
  /\ \A s \in ToolCall \ {t} : tool[s] \in Told \cup {"none"}
  /\ graph' = "registering"
  /\ request' = [request EXCEPT ![t] = "pending"]
  /\ gates' = [gates EXCEPT ![t] = @ + 1]
  /\ UNCHANGED <<executions, child, driver, tool, resumer, started, up, crashes>>

\* ... and parks run and Task, as far as they are running.
Park ==
  /\ up /\ graph = "registering"
  /\ graph' = "parked"
  /\ parent' = Moved(parent, "waiting_approval", {"running"})
  /\ task' = Moved(task, "waiting_approval", {"running"})
  /\ UNCHANGED <<child, childRequests, driver, tool, resumer, started, up, crashes>>

GraphStep == Return \/ Raise \/ (\E t \in ToolCall : Interrupt(t)) \/ Park

-----------------------------------------------------------------------------
(* The decision and the resumption: the child first, then the parent.      *)

DecideChild(t, verdict) ==
  /\ LoopIsFree /\ graph = "parked"
  /\ request[t] = "pending"
  /\ verdict \in {"approved", "rejected", "expired"}
  /\ request' = [request EXCEPT ![t] = verdict]
  /\ resumer' = IF verdict = "expired" THEN NoResumer ELSE [pc |-> "queue_child", call |-> t]
  /\ UNCHANGED <<executions, child, gates, graph, driver, tool, started, up, crashes>>

ResumeTo(pc) == resumer' = [resumer EXCEPT !.pc = pc]

QueueChild ==
  /\ up /\ resumer.pc = "queue_child"
  /\ child' = [child EXCEPT ![resumer.call] = Moved(@, "queued", {"waiting_approval"})]
  /\ ResumeTo("run_child")
  /\ UNCHANGED <<executions, childRequests, graph, driver, tool, started, up, crashes>>

RunChild ==
  /\ up /\ resumer.pc = "run_child"
  /\ child' = [child EXCEPT ![resumer.call] = Moved(@, "running", {"queued"})]
  /\ ResumeTo("child")
  /\ UNCHANGED <<executions, childRequests, graph, driver, tool, started, up, crashes>>

\* gateway.resume of the child returned: _complete_delegated_resume commits its state.
ResumedChildEnds(state) ==
  LET t == resumer.call IN
  /\ LoopIsFree /\ resumer.pc = "child"
  /\ \/ state \in {"succeeded", "exhausted"} /\ ResumeTo("queue_parent")
     \/ state = "waiting_approval" /\ gates[t] < MaxGates /\ ResumeTo("ask")
  /\ child' = [child EXCEPT ![t] = state]
  /\ UNCHANGED <<executions, childRequests, graph, driver, tool, started, up, crashes>>

\* The handler registers the child's next request.
AskAgain ==
  LET t == resumer.call IN
  /\ LoopIsFree /\ resumer.pc = "ask"
  /\ request' = [request EXCEPT ![t] = "pending"]
  /\ gates' = [gates EXCEPT ![t] = @ + 1]
  /\ resumer' = NoResumer
  /\ UNCHANGED <<executions, child, graph, driver, tool, started, up, crashes>>

\* gateway.resume of the child raised: the child fails, then the parent and its Task.
ResumedChildRaises ==
  /\ LoopIsFree /\ resumer.pc = "child"
  /\ child' = [child EXCEPT ![resumer.call] = "failed"]
  /\ ResumeTo("fail_parent")
  /\ UNCHANGED <<executions, childRequests, graph, driver, tool, started, up, crashes>>

\* The child failed already; with it fail the parent and its Task.
FailParent ==
  /\ up /\ resumer.pc = "fail_parent"
  /\ parent' = Moved(parent, "failed", {"running"} \cup Waiting)
  /\ task' = Moved(task, "failed", {"running"} \cup Waiting)
  /\ resumer' = NoResumer /\ graph' = "over"
  /\ UNCHANGED <<child, childRequests, driver, tool, started, up, crashes>>

\* A parent that does not wait for a child is an error, outside every handler.
RequeueParent ==
  /\ up /\ resumer.pc = "queue_parent"
  /\ IF parent = "waiting_child"
       THEN parent' = "queued" /\ ResumeTo("run_parent")
       ELSE UNCHANGED parent /\ resumer' = NoResumer
  /\ UNCHANGED <<task, child, childRequests, graph, driver, tool, started, up, crashes>>

RerunParent ==
  /\ up /\ resumer.pc = "run_parent"
  /\ parent' = "running"
  /\ ResumeTo("start_task")
  /\ UNCHANGED <<task, child, childRequests, graph, driver, tool, started, up, crashes>>

\* gateway.resume of the parent: LangGraph runs the interrupted tool again from its start.
ResumeGraph ==
  /\ up /\ resumer.pc = "start_task"
  /\ task' = Moved(task, "running", {"waiting_approval", "queued"})
  /\ graph' = "model" /\ driver' = "resume"
  /\ tool' = [tool EXCEPT ![resumer.call] = "again"]
  /\ resumer' = NoResumer
  /\ UNCHANGED <<parent, child, childRequests, started, up, crashes>>

ResumeStep ==
  \/ QueueChild \/ RunChild \/ (\E state \in ChildState : ResumedChildEnds(state))
  \/ AskAgain \/ ResumedChildRaises \/ FailParent \/ RequeueParent \/ RerunParent \/ ResumeGraph

-----------------------------------------------------------------------------
(* The process.                                                            *)

\* Only what waits at a registered interrupt is in a checkpoint somebody can resume.
KillDelegation ==
  /\ up /\ crashes < MaxCrashes
  /\ up' = FALSE /\ crashes' = crashes + 1
  /\ graph' = IF graph \in {"model", "registering"} THEN "lost" ELSE graph
  /\ tool' = [t \in ToolCall |-> IF tool[t] \in Told \cup {"none"} THEN tool[t]
                                 ELSE IF graph = "parked" THEN tool[t] ELSE "lost"]
  /\ resumer' = NoResumer
  /\ UNCHANGED <<executions, child, childRequests, driver, started>>

Reconciled(state) == Moved(state, "queued", {"running"})

RestartDelegation ==
  /\ ~up /\ up' = TRUE
  /\ parent' = Reconciled(parent) /\ task' = Reconciled(task)
  /\ child' = [t \in ToolCall |-> Reconciled(child[t])]
  /\ UNCHANGED <<childRequests, memory, started, crashes>>

\* The recovered event runs again from its beginning, with tool calls of its own: its Task is
\* running again, and a parent that is not queued makes _start_execution raise.
RunAgain ==
  /\ LoopIsFree /\ graph = "lost" /\ driver = "pipeline"
  /\ task = "queued"
  /\ task' = "running"
  /\ IF parent = "queued" THEN parent' = "running" /\ graph' = "model"
                          ELSE UNCHANGED <<parent, graph>>
  /\ UNCHANGED <<child, childRequests, driver, tool, resumer, started, up, crashes>>

DelegationInit ==
  /\ parent = "running" /\ task = "running"
  /\ child = [t \in ToolCall |-> "absent"]
  /\ request = [t \in ToolCall |-> "absent"]
  /\ gates = [t \in ToolCall |-> 0]
  /\ graph = "model" /\ driver = "pipeline"
  /\ tool = [t \in ToolCall |-> "none"]
  /\ resumer = NoResumer
  /\ started = [t \in ToolCall |-> 0]
  /\ up = TRUE /\ crashes = 0

DelegationNext ==
  \/ \E t \in ToolCall : DispatchStep(t) \/ TimeOut(t)
  \/ GraphStep
  \/ \E t \in ToolCall, verdict \in {"approved", "rejected", "expired"} : DecideChild(t, verdict)
  \/ ResumeStep
  \/ KillDelegation \/ RestartDelegation \/ RunAgain

DelegationSpec == DelegationInit /\ [][DelegationNext]_delegationVars

\* The event loop runs what is runnable, and LangGraph the tool it was interrupted in.  A run of
\* the pipeline ends by its deadline, and so does a child's first run, which has the deadline of
\* its own request.  A resumed graph, of parent or child, has none: its model need not answer.
\* Nobody has to decide, and no model has to delegate.
DelegationFairness ==
  /\ \A t \in ToolCall :
       WF_delegationVars(DispatchStep(t) /\ tool[t] # "none")
  /\ WF_delegationVars(GraphStep /\ (driver = "pipeline" \/ graph' # "over"))
  /\ WF_delegationVars(ResumeStep /\ resumer.pc # "child")

FairDelegationSpec == DelegationSpec /\ DelegationFairness
-----------------------------------------------------------------------------
(* Properties.                                                             *)

DelegationTypeOK ==
  /\ {parent, task} \subseteq ParentState
  /\ child \in [ToolCall -> ChildState]
  /\ request \in [ToolCall -> {"absent", "pending", "approved", "rejected", "expired"}]
  /\ gates \in [ToolCall -> 0..MaxGates]
  /\ graph \in {"model", "registering", "parked", "over", "lost"}
  /\ driver \in {"pipeline", "resume"}
  /\ tool \in [ToolCall -> Told \cup Dispatching \cup {"none", "again", "agent", "suspended"}]
  /\ resumer \in [pc: Resuming \cup {"idle", "child", "ask"}, call: ToolCall \cup {None}]
  /\ started \in [ToolCall -> Nat]
  /\ up \in BOOLEAN /\ crashes \in Nat

\* A tool call starts its child's agent at most once, however often the parent's graph is
\* interrupted and its tools are run again (the execution key, _replay).
ChildStartedOnce == \A t \in ToolCall : started[t] <= 1

\* What the parent's model is told of a child is what the child committed before
\* (the child ends before the parent's checkpoint is resumed).
AnswerIsCommitted ==
  \A t \in ToolCall :
    /\ tool[t] = "result" => child[t] \in {"succeeded", "exhausted"}
    /\ tool[t] = "error" => child[t] = "failed"

\* However often its tools are run again, the parent gets one answer per call: the two above.
ToolCallsAnswerOnce == ChildStartedOnce /\ AnswerIsCommitted

\* The contradictions between the runs of a family that diagnostics warns of do not arise,
\* unless the process died: a running child has its parent wait, a parent waits for a child
\* that is active, has none when it has ended, and a request waits for a child that waits -
\* but for the children that a timeout or a failure of the parent's graph abandoned.
FamilyAgrees ==
  LoopIsFree /\ crashes = 0 =>
    LET ours == {t \in ToolCall : tool[t] # "abandoned"} IN
    /\ \A t \in ours : child[t] = "running" => parent = "waiting_child"
    /\ parent = "waiting_child" => \E t \in ToolCall : child[t] \in ActiveStates
    /\ parent \in FinalStates => \A t \in ours : child[t] \notin ActiveStates
    /\ \A t \in ToolCall : request[t] = "pending" => child[t] = "waiting_approval"

WaitsInVain ==
  /\ parent = "waiting_child" /\ crashes = 0
  /\ \A t \in ToolCall : tool[t] # "abandoned" /\ request[t] \notin {"pending", "expired"}

\* A parent that waits for a child goes on, unless a timeout or the graph's failure abandoned
\* the call, a decision is missing or came too late, the process died, or the resumed child's
\* model never answers again.
WaitingEnds == WaitsInVain ~> (~WaitsInVain \/ [](resumer.pc = "child"))
=============================================================================
