------------------------------ MODULE Approval ------------------------------
(***************************************************************************)
(* The human gate in front of an agent's side effects: one AgentRun that    *)
(* LangGraph has interrupted, the approval requests it raises one after the *)
(* other, the people who decide them by button or by command, the resumed   *)
(* graph, and the Outbox row of the card that asks                          *)
(* (src/mmag/control_plane/langgraph_approval.py, approval.py).             *)
(*                                                                          *)
(* The module starts where Pipeline's ParkRun, ParkTask and Return end: the *)
(* run is parked and the first card is in the Outbox.  As in Pipeline, code *)
(* between two awaits is not interleaved, but it can die between commits.   *)
(***************************************************************************)
EXTENDS Naturals

CONSTANTS
  Decider,     \* coroutines that carry a decision: callbacks and commands
  MaxGates,    \* bound: how many approvals the run asks for
  Buttons,     \* the gates whose card has buttons; a command can decide any
  MaxCrashes,  \* bound
  None

ASSUME ApprovalAssumption ==
  /\ MaxGates \in Nat \ {0} /\ MaxCrashes \in Nat
  /\ Buttons \subseteq 1..MaxGates
  /\ None \notin {"approve", "reject"}

VARIABLES
  \* ---- SQLite
  approval,  \* [Gate -> state of the approval request]
  call,      \* [Gate -> state of the capability call it guards]
  run, task, \* states of the AgentRun and of its Task
  card,      \* the first card's Outbox row: "queued" to be sent, "visible" while the
             \* answer is out, "settled" when it is delivered or has failed
  token,     \* unused action tokens, <<gate, verb>>
  \* ---- memory
  up,        \* the process runs
  decider,   \* [Decider -> where it is, which gate, which verb]
  \* ---- the world
  shown,     \* gates whose card somebody can see
  effects,   \* [Gate -> how often the guarded side effect happened]
  answered,  \* the resumed run's answer was posted
  crashes

executions == <<run, task>>
durable == <<approval, call, executions, card, token>>
world == <<shown, effects, answered>>
vars == <<durable, up, decider, world, crashes>>

Gate == 1..MaxGates
Verb == {"approve", "reject"}
Idle == [pc |-> "idle", gate |-> 1, verb |-> None]

Synchronous == {"reject_calls", "queue_run", "start_run", "start_task", "start_call",
                "park_run", "park_task", "finish_run", "finish_task", "fail_run", "fail_task"}
Pc == Synchronous \cup {"idle", "button", "resume", "graph", "tool", "effect", "asked", "card",
                        "reply"}

\* The event loop is free.
Free == up /\ \A d \in Decider : decider[d].pc \notin Synchronous

At(d, pc) == up /\ decider[d].pc = pc /\ (pc \in Synchronous \/ Free)
Goto(d, pc) == decider' = [decider EXCEPT ![d].pc = pc]
Leave(d) == decider' = [decider EXCEPT ![d] = Idle]

-----------------------------------------------------------------------------
(* The decision.                                                           *)

\* handle_action_callback: verify() reads the token, it does not use it up.
Click(d, g, verb) ==
  /\ At(d, "idle")
  /\ g \in shown /\ <<g, verb>> \in token
  /\ decider' = [decider EXCEPT ![d] = [pc |-> "button", gate |-> g, verb |-> verb]]
  /\ UNCHANGED <<durable, up, world, crashes>>

\* After can_decide and load_action_post: consume() and the task that resumes ...
Consume(d) ==
  LET t == <<decider[d].gate, decider[d].verb>> IN
  /\ At(d, "button")
  /\ t \in token
  /\ token' = token \ {t}
  /\ Goto(d, "resume")
  /\ UNCHANGED <<approval, call, executions, card, up, world, crashes>>

\* ... or the actor may not, the post is gone, the token is used or has expired.
Refused(d) ==
  /\ At(d, "button")
  /\ Leave(d)
  /\ UNCHANGED <<durable, up, world, crashes>>

\* _handle_approval_command needs no token.
Type(d, g, verb) ==
  /\ At(d, "idle")
  /\ g \in shown
  /\ decider' = [decider EXCEPT ![d] = [pc |-> "resume", gate |-> g, verb |-> verb]]
  /\ UNCHANGED <<durable, up, world, crashes>>

\* can_decide or access_guard.require says no.
Denied(d) ==
  /\ At(d, "resume")
  /\ Leave(d)
  /\ UNCHANGED <<durable, up, world, crashes>>

\* decide() reads the request again; a mutant relies on what was read before the awaits.
ReadBefore(g) == approval[g] # "absent"
Undecided(g) == approval[g] = "pending"

AlreadyDecided(d) ==
  /\ At(d, "resume")
  /\ ~Undecided(decider[d].gate)
  /\ Leave(d)
  /\ UNCHANGED <<durable, up, world, crashes>>

\* The request has outlived its ttl_seconds, which is time's choice: the late decision
\* expires it, and the run stays parked.
Expire(d) ==
  LET g == decider[d].gate IN
  /\ At(d, "resume")
  /\ Undecided(g)
  /\ approval' = [approval EXCEPT ![g] = "expired"]
  /\ Leave(d)
  /\ UNCHANGED <<call, executions, card, token, up, world, crashes>>

Decide(d) ==
  LET g == decider[d].gate IN
  /\ At(d, "resume")
  /\ Undecided(g)
  /\ IF decider[d].verb = "approve"
       THEN approval' = [approval EXCEPT ![g] = "approved"] /\ Goto(d, "queue_run")
       ELSE approval' = [approval EXCEPT ![g] = "rejected"] /\ Goto(d, "reject_calls")
  /\ UNCHANGED <<call, executions, card, token, up, world, crashes>>

RejectCalls(d) ==
  LET g == decider[d].gate IN
  /\ At(d, "reject_calls")
  /\ call' = [call EXCEPT ![g] = IF @ = "waiting_approval" THEN "rejected" ELSE @]
  /\ Goto(d, "queue_run")
  /\ UNCHANGED <<approval, executions, card, token, up, world, crashes>>

\* _transition_run(..., "running"): the run by way of queued, then the Task.
QueueRun(d) ==
  /\ At(d, "queue_run")
  /\ run' = IF run = "waiting_approval" THEN "queued" ELSE run
  /\ Goto(d, "start_run")
  /\ UNCHANGED <<approval, call, task, card, token, up, world, crashes>>

StartRun(d) ==
  /\ At(d, "start_run")
  /\ run' = IF run = "queued" THEN "running" ELSE run
  /\ Goto(d, "start_task")
  /\ UNCHANGED <<approval, call, task, card, token, up, world, crashes>>

StartTask(d) ==
  /\ At(d, "start_task")
  /\ task' = IF task \in {"waiting_approval", "queued"} THEN "running" ELSE task
  /\ Goto(d, "graph")
  /\ UNCHANGED <<approval, call, run, card, token, up, world, crashes>>

DecisionStep(d) ==
  \/ Consume(d) \/ Refused(d) \/ Denied(d) \/ AlreadyDecided(d) \/ Expire(d) \/ Decide(d)
  \/ RejectCalls(d) \/ QueueRun(d) \/ StartRun(d) \/ StartTask(d)

-----------------------------------------------------------------------------
(* The resumed graph: gateway.resume, and the tools of the Deep Agents runtime. *)

\* LangGraph runs a node again from its start, so an approved tool may be invoked again
\* whenever the graph is resumed; only a call that still waits is carried out, one that
\* succeeded is replayed.  The mutant has no replay.
AnyKnown(g) == call[g] # "absent"
Resumable(g) == call[g] = "waiting_approval"

Approved(d, g) ==
  IF g = decider[d].gate THEN decider[d].verb = "approve" ELSE approval[g] = "approved"

\* invoke(): waiting_approval -> requested, then the policy is asked again.
Invoke(d, g) ==
  /\ At(d, "graph")
  /\ Resumable(g) /\ Approved(d, g)
  /\ call' = [call EXCEPT ![g] = "requested"]
  /\ decider' = [decider EXCEPT ![d].pc = "start_call", ![d].gate = g]
  /\ UNCHANGED <<approval, executions, card, token, up, world, crashes>>

StartCall(d) ==
  LET g == decider[d].gate IN
  /\ At(d, "start_call")
  /\ \/ call' = [call EXCEPT ![g] = "running"] /\ Goto(d, "tool")
     \/ call' = [call EXCEPT ![g] = "rejected"] /\ Goto(d, "graph")
  /\ UNCHANGED <<approval, executions, card, token, up, world, crashes>>

\* The side effect takes place; the result is not back yet.
SideEffect(d) ==
  /\ up /\ decider[d].pc = "tool"
  /\ effects' = [effects EXCEPT ![decider[d].gate] = @ + 1]
  /\ Goto(d, "effect")
  /\ UNCHANGED <<durable, up, shown, answered, crashes>>

FinishCall(d, ok) ==
  /\ At(d, "effect") \/ (At(d, "tool") /\ ~ok)
  /\ call' = [call EXCEPT ![decider[d].gate] = IF ok THEN "succeeded" ELSE "failed"]
  /\ Goto(d, "graph")
  /\ UNCHANGED <<approval, executions, card, token, up, world, crashes>>

\* The graph asks for the next approval: the call waits before the graph is left ...
Ask(d, g) ==
  /\ At(d, "graph")
  /\ call[g] = "absent" /\ \A h \in 1..(g - 1) : call[h] # "absent"
  /\ call' = [call EXCEPT ![g] = "waiting_approval"]
  /\ decider' = [decider EXCEPT ![d].pc = "asked", ![d].gate = g]
  /\ UNCHANGED <<approval, executions, card, token, up, world, crashes>>

\* ... and register() stores the request and parks the run and the Task.
Register(d) ==
  LET g == decider[d].gate IN
  /\ At(d, "asked")
  /\ approval' = [approval EXCEPT ![g] = "pending"]
  /\ Goto(d, "park_run")
  /\ UNCHANGED <<call, executions, card, token, up, world, crashes>>

\* A mutant of ParkRun that leaves the run as it is.
ForgetfulParkRun(d) ==
  /\ At(d, "park_run")
  /\ Goto(d, "park_task")
  /\ UNCHANGED <<durable, up, world, crashes>>

ParkRun(d) ==
  /\ At(d, "park_run")
  /\ run' = IF run = "running" THEN "waiting_approval" ELSE run
  /\ Goto(d, "park_task")
  /\ UNCHANGED <<approval, call, task, card, token, up, world, crashes>>

ParkTask(d) ==
  LET g == decider[d].gate IN
  /\ At(d, "park_task")
  /\ task' = IF task = "running" THEN "waiting_approval" ELSE task
  /\ token' = token \cup (({g} \cap Buttons) \X Verb)
  /\ Goto(d, "card")
  /\ UNCHANGED <<approval, call, run, card, up, world, crashes>>

\* The next card is an answer to the decider; the post may fail.
ShowCard(d) ==
  /\ At(d, "card")
  /\ \/ shown' = shown \cup {decider[d].gate}
     \/ UNCHANGED shown
  /\ Leave(d)
  /\ UNCHANGED <<durable, up, effects, answered, crashes>>

\* The graph ends with a result, or gateway.resume raises.
Return(d, pc) ==
  /\ At(d, "graph")
  /\ pc \in {"finish_run", "fail_run"}
  /\ Goto(d, pc)
  /\ UNCHANGED <<durable, up, world, crashes>>

\* What the graph does next is the model's answer ...
ModelStep(d) ==
  \/ \E g \in Gate : Invoke(d, g) \/ Ask(d, g)
  \/ \E pc \in {"finish_run", "fail_run"} : Return(d, pc)

\* ... and the rest the code's own work; a tool has its capability's timeout.
ToolStep(d) ==
  \/ \E ok \in BOOLEAN : FinishCall(d, ok)
  \/ StartCall(d) \/ Register(d) \/ ParkRun(d) \/ ParkTask(d) \/ ShowCard(d)

GraphStep(d) == ModelStep(d) \/ ToolStep(d)

\* _transition_run to a final state moves what runs, and on failure what is parked.
Moved(state, target) ==
  IF state = "running" \/ (target = "failed" /\ state = "waiting_approval") THEN target ELSE state

FinishRun(d) ==
  /\ At(d, "finish_run")
  /\ run' = Moved(run, "succeeded")
  /\ Goto(d, "finish_task")
  /\ UNCHANGED <<approval, call, task, card, token, up, world, crashes>>

FinishTask(d) ==
  /\ At(d, "finish_task")
  /\ task' = Moved(task, "succeeded")
  /\ Goto(d, "reply")
  /\ UNCHANGED <<approval, call, run, card, token, up, world, crashes>>

\* A mutant of FailRun that records the error but not the state.
ForgetfulFailRun(d) ==
  /\ At(d, "fail_run")
  /\ Goto(d, "fail_task")
  /\ UNCHANGED <<durable, up, world, crashes>>

FailRun(d) ==
  /\ At(d, "fail_run")
  /\ run' = Moved(run, "failed")
  /\ Goto(d, "fail_task")
  /\ UNCHANGED <<approval, call, task, card, token, up, world, crashes>>

FailTask(d) ==
  /\ At(d, "fail_task")
  /\ task' = Moved(task, "failed")
  /\ Leave(d)
  /\ UNCHANGED <<approval, call, run, card, token, up, world, crashes>>

\* reply_view sends the resumed run's answer, or fails.
Reply(d) ==
  /\ At(d, "reply")
  /\ answered' \in BOOLEAN
  /\ Leave(d)
  /\ UNCHANGED <<durable, up, shown, effects, crashes>>

VerdictStep(d) == FinishRun(d) \/ FinishTask(d) \/ FailRun(d) \/ FailTask(d) \/ Reply(d)

-----------------------------------------------------------------------------
(* The first card's way through the Outbox (Pipeline has it in detail).    *)

CardUnchanged == UNCHANGED <<approval, call, run, token, up, decider, effects, answered, crashes>>

CardPosted ==
  /\ up /\ card = "queued"
  /\ card' = "visible" /\ shown' = shown \cup {1}
  /\ UNCHANGED task /\ CardUnchanged

\* _settle_parent_task moves a running Task only - which a resumed one is again.
CardSettles ==
  /\ Free /\ card = "visible"
  /\ card' = "settled"
  /\ task' = IF task # "running" THEN task ELSE IF run = "failed" THEN "failed" ELSE "succeeded"
  /\ UNCHANGED shown /\ CardUnchanged

\* The attempt failed, as far as the sender knows: once more, or never again.
CardFails ==
  /\ Free /\ card \in {"queued", "visible"}
  /\ \/ card' = "queued" /\ UNCHANGED task
     \/ card' = "settled" /\ task' = IF task = "running" THEN "failed" ELSE task
  /\ UNCHANGED shown /\ CardUnchanged

CardStep == CardPosted \/ CardSettles \/ CardFails

-----------------------------------------------------------------------------
Crash ==
  /\ up /\ crashes < MaxCrashes
  /\ up' = FALSE /\ crashes' = crashes + 1
  /\ decider' = [d \in Decider |-> Idle]
  /\ UNCHANGED <<durable, world>>

\* reconcile().
CallRecovered(state) == IF state = "running" THEN "requested" ELSE state

Restart ==
  /\ ~up /\ up' = TRUE
  /\ call' = [g \in Gate |-> CallRecovered(call[g])]
  /\ run' = IF run = "running" THEN "queued" ELSE run
  /\ task' = IF task = "running" THEN "queued" ELSE task
  /\ card' = IF card = "visible" THEN "queued" ELSE card
  /\ UNCHANGED <<approval, token, decider, world, crashes>>

Init ==
  /\ approval = [g \in Gate |-> IF g = 1 THEN "pending" ELSE "absent"]
  /\ call = [g \in Gate |-> IF g = 1 THEN "waiting_approval" ELSE "absent"]
  /\ run = "waiting_approval" /\ task = "waiting_approval"
  /\ card = "queued"
  /\ token = ({1} \cap Buttons) \X Verb
  /\ up = TRUE
  /\ decider = [d \in Decider |-> Idle]
  /\ shown = {}
  /\ effects = [g \in Gate |-> 0]
  /\ answered = FALSE
  /\ crashes = 0

Next ==
  \/ \E d \in Decider, g \in Gate, verb \in Verb : Click(d, g, verb) \/ Type(d, g, verb)
  \/ \E d \in Decider : DecisionStep(d) \/ GraphStep(d) \/ SideEffect(d) \/ VerdictStep(d)
  \/ CardStep
  \/ Crash \/ Restart

Spec == Init /\ [][Next]_vars

\* The loop runs what is runnable, and a tool ends within its capability's timeout.  The model
\* of a resumed graph need not answer: run() has a deadline, resume() has none, and the model
\* is built without a timeout.  Nobody has to decide, and a deciding coroutine need not be let
\* through.
Fairness ==
  \A d \in Decider : WF_vars(DecisionStep(d) \/ ToolStep(d) \/ VerdictStep(d))

FairSpec == Spec /\ Fairness
-----------------------------------------------------------------------------
(* Properties.                                                             *)

\* A guarded side effect happens only under an approval, and at most once, however many
\* people click or type, however often the graph is resumed and wherever the process
\* dies (decide, the replay in invoke).
EffectsAreApproved ==
  \A g \in Gate : effects[g] <= 1 /\ (effects[g] = 1 => approval[g] = "approved")

Resuming(d) == decider[d].pc \in Pc \ {"idle", "button", "resume", "card", "reply"}

\* One coroutine at a time drives the run's graph, whatever was read before the awaits of
\* the others (resume, ApprovalService.decide).
OneResumer == \A d, e \in Decider : Resuming(d) /\ Resuming(e) => d = e

\* While a request is open nobody drives the run: it waits to be resumed, and no later
\* request exists.  Parking is complete before anyone can decide (register).
OpenRequestParksRun ==
  Free => \A g \in Gate : approval[g] = "pending" =>
    /\ run \in {"waiting_approval", "queued"}
    /\ run = "queued" => crashes > 0
    /\ \A d \in Decider : ~Resuming(d)
    /\ \A h \in Gate : h > g => approval[h] = "absent"

Unanswered ==
  /\ crashes = 0
  /\ run \notin {"succeeded", "failed"}
  /\ \E g \in Gate : /\ approval[g] \in {"approved", "rejected"}
                    /\ \A h \in Gate : h > g => approval[h] = "absent"

\* A resumed graph waits for its model.
Held == \E d \in Decider : decider[d].pc = "graph"

\* A decided request leads on: the run ends or asks again, unless the process crashes or the
\* model of the resumed graph never answers again (resume, whose every exception path has to
\* move the run).
DecidedRunGoesOn == Unanswered ~> (~Unanswered \/ []Held)

\* A Task that has succeeded has its answer delivered.
SucceededTaskIsAnswered == task = "succeeded" => answered
=============================================================================
