------------------------------ MODULE Pipeline ------------------------------
(***************************************************************************)
(* The durable message pipeline of mmag: Inbox, per-conversation scheduler, *)
(* the processing of one event, Outbox and the delivery worker, with the    *)
(* start, crash, restart and graceful close of the process                  *)
(* (src/mmag/control_plane/pipeline.py, store.py).                          *)
(*                                                                          *)
(* Everything runs on one asyncio loop: code between two awaits cannot be   *)
(* interleaved with another coroutine, but every store call commits its own *)
(* transaction, so the process can die between two of them.  A handler is   *)
(* therefore split at its awaits AND at its commits; the pcs that stand     *)
(* between two commits without an await are the Synchronous ones, and while *)
(* some coroutine is at one of them no other coroutine moves.               *)
(***************************************************************************)
EXTENDS Naturals, Sequences, FiniteSets, Subsequences

CONSTANTS
  Event,                 \* event ids the platform can send (Mattermost post ids)
  Standalone,            \* deliveries enqueued without an Inbox parent
  Conversation,          \* conversation ids
  ConversationOf,        \* [Event -> Conversation]
  ThreadRoot,            \* [Event -> Event], the post a reply is threaded under
  MaxParts,              \* bound: segments a response is cut into
  Outcomes,              \* what the application's processor may do with an event
  MaxConcurrency,        \* PIPELINE_MAX_CONCURRENCY
  MaxPending,            \* PIPELINE_MAX_PENDING
  MaxProcessingAttempts, \* max_processing_attempts
  MaxDeliveryAttempts,   \* max_delivery_attempts
  MaxStarts,             \* bound: how often the process is started
  MaxManualRetries,      \* bound: how often somebody asks for a manual retry
  SequentialIngress,     \* accept() is only called by the WebSocket dispatch loop
  MayClose,              \* the process may be shut down gracefully
  None, Stop             \* no job; the sentinel close() puts in a queue

ASSUME PipelineAssumption ==
  /\ ConversationOf \in [Event -> Conversation]
  /\ ThreadRoot \in [Event -> Event]
  /\ MaxParts \in Nat \ {0}
  /\ Outcomes \subseteq {"reply", "silent", "error", "approval", "retryable", "fatal"}
  /\ {MaxConcurrency, MaxPending, MaxProcessingAttempts, MaxDeliveryAttempts, MaxStarts}
       \subseteq Nat \ {0}
  /\ MaxManualRetries \in Nat
  /\ {SequentialIngress, MayClose} \subseteq BOOLEAN
  /\ None \notin Event \cup Standalone
  /\ Stop \notin Event
  /\ Event \cap Standalone = {}

VARIABLES
  \* ---- SQLite, survives a crash
  inbox,      \* [Event -> Inbox status]
  attempts,   \* [Event -> Nat], processing attempts
  arrival,    \* Inbox rows by received_at
  post,       \* [Event -> the post in the event's payload]
  task,       \* [Event -> state of task:<event>]
  run,        \* [Event -> state of run:<event>]
  outbox,     \* [Key -> Outbox row]
  \* ---- memory, lost in a crash
  phase,      \* of the process
  starts,     \* how often it was started (bounds the model)
  manual,     \* how many manual retries were asked for (bounds the model)
  recovering, \* what start() still has to submit
  entering,   \* event between accept_event and the await of its hook
  hooks,      \* events whose accept() awaits on_accepted
  admission,  \* callers of submit() waiting for a pending permit, in order
  pending,    \* permits taken from the pending semaphore
  queue,      \* [Conversation -> queued events]
  pc, job,    \* [Conversation -> where its worker is, and with which event]
  joining,    \* queues close() still waits for
  loop,       \* the delivery worker: its pc and the delivery it handles
  \* ---- Mattermost
  posted      \* [Key -> TRUE once a request for this key took effect]

durable == <<inbox, attempts, arrival, post, task, run, outbox>>
ingress == <<recovering, entering, hooks, admission>>
workers == <<queue, pc, job, pending>>
process == <<phase, starts, joining>>
vars == <<durable, ingress, workers, process, loop, posted, manual>>

-----------------------------------------------------------------------------
(* The data.                                                               *)

InboxStatus == {"absent", "accepted", "processing", "retrying", "completed", "failed"}
TaskState == {"absent", "queued", "running", "waiting_approval", "succeeded", "failed"}
DeliveryStatus == {"absent", "pending", "sending", "retrying", "delivered", "failed"}

Key == (Event \cup Standalone) \X (1..MaxParts)

Row == [status: DeliveryStatus, attempts: Nat, owner: Event \cup Standalone \cup {None},
        error: BOOLEAN, born: Nat]
NoRow == [status |-> "absent", attempts |-> 0, owner |-> None, error |-> FALSE, born |-> 0]

Rows == {k \in Key : outbox[k].status # "absent"}
RowsOf(e) == {k \in Rows : outbox[k].owner = e}
Outstanding == {k \in Key : outbox[k].status \in {"pending", "retrying", "sending"}}

WorkerPc == {"absent", "idle", "slot", "start_run", "mark", "agent", "park_task", "card",
             "sleep", "finish_run", "finish_task", "fail_run", "fail_task", "dead", "gone"}
Synchronous == {"start_run", "mark", "park_task", "finish_run", "finish_task",
                "fail_run", "fail_task"}

\* The events loop is free: nobody is between two commits of one synchronous stretch.
Free == /\ \A c \in Conversation : pc[c] \notin Synchronous
        /\ loop.pc # "settle"
        /\ entering = None

Alive == phase \notin {"down", "stopped"}
HoldsSlot == {c \in Conversation : pc[c] \notin {"absent", "idle", "slot", "dead", "gone"}}

-----------------------------------------------------------------------------
(* accept(): the ingress.  The Inbox row is the dedupe; the hook (the "get" *)
(* acknowledgement) and the submission to the scheduler are awaits.         *)

AcceptEvent(e, p) ==
  /\ phase = "up" /\ Free
  /\ SequentialIngress => hooks = {} /\ admission = <<>>
  /\ inbox[e] = "absent"
  /\ inbox' = [inbox EXCEPT ![e] = "accepted"]
  /\ arrival' = Append(arrival, e)
  /\ post' = [post EXCEPT ![e] = p]
  /\ entering' = e
  /\ UNCHANGED <<attempts, task, run, outbox, recovering, hooks, admission, workers,
                 process, loop, posted, manual>>

Accept(e) == AcceptEvent(e, e)

\* replay_dead_letter: a fresh id carries the payload of a failed event.
Replay(source, e) ==
  /\ inbox[source] = "failed"
  /\ e # source /\ ConversationOf[e] = ConversationOf[source]
  /\ AcceptEvent(e, post[source])

EnsureEntities(e) ==
  /\ task' = IF task[e] = "absent" THEN [task EXCEPT ![e] = "queued"] ELSE task
  /\ run' = IF run[e] = "absent" THEN [run EXCEPT ![e] = "queued"] ELSE run

Ensure ==
  /\ entering # None
  /\ EnsureEntities(entering)
  /\ hooks' = hooks \cup {entering}
  /\ entering' = None
  /\ UNCHANGED <<inbox, attempts, arrival, post, outbox, recovering, admission, workers,
                 process, loop, posted, manual>>

SchedulerClosed == phase \in {"stopping", "exiting"}

\* on_accepted returned; submit() raises on a closed scheduler and leaves the row accepted.
HookReturns(e) ==
  /\ Alive /\ Free
  /\ e \in hooks
  /\ hooks' = hooks \ {e}
  /\ admission' = IF SchedulerClosed THEN admission ELSE Append(admission, e)
  /\ UNCHANGED <<durable, recovering, entering, workers, process, loop, posted, manual>>

Enqueue(e) ==
  LET c == ConversationOf[e] IN
  /\ pending < MaxPending
  /\ pending' = pending + 1
  /\ queue' = [queue EXCEPT ![c] = Append(@, e)]
  /\ pc' = [pc EXCEPT ![c] = IF @ = "absent" THEN "idle" ELSE @]
  /\ UNCHANGED job

\* The semaphore serves its waiters in order.
Admit ==
  /\ Alive /\ Free
  /\ admission # <<>>
  /\ Enqueue(Head(admission))
  /\ admission' = Tail(admission)
  /\ UNCHANGED <<durable, recovering, entering, hooks, process, loop, posted, manual>>

-----------------------------------------------------------------------------
(* One conversation's worker: PartitionedScheduler._worker and _process.    *)

\* Mutants of Release: a dying worker keeps its permit, or gives it back twice.
LeakyRelease(c, next) ==
  /\ pending' = IF next = "dead" THEN pending ELSE pending - 1
  /\ pc' = [pc EXCEPT ![c] = next]
  /\ job' = [job EXCEPT ![c] = None]
  /\ UNCHANGED queue

DoubleRelease(c, next) ==
  /\ pending' = IF next = "dead" THEN pending - 2 ELSE pending - 1
  /\ pc' = [pc EXCEPT ![c] = next]
  /\ job' = [job EXCEPT ![c] = None]
  /\ UNCHANGED queue

\* The `finally` of _worker: the permit goes back whether the handler returned or raised.
Release(c, next) ==
  /\ pending' = pending - 1
  /\ pc' = [pc EXCEPT ![c] = next]
  /\ job' = [job EXCEPT ![c] = None]
  /\ UNCHANGED queue

Goto(c, next) ==
  /\ pc' = [pc EXCEPT ![c] = next]
  /\ UNCHANGED <<queue, job, pending>>

Take(c) ==
  /\ Free
  /\ pc[c] = "idle" /\ queue[c] # <<>>
  /\ queue' = [queue EXCEPT ![c] = Tail(@)]
  /\ IF Head(queue[c]) = Stop
       THEN pc' = [pc EXCEPT ![c] = "gone"] /\ UNCHANGED job
       ELSE pc' = [pc EXCEPT ![c] = "slot"] /\ job' = [job EXCEPT ![c] = Head(queue[c])]
  /\ UNCHANGED <<durable, ingress, pending, process, loop, posted, manual>>

\* lifecycle.transition raises InvalidTransitionError: nothing in _process or _worker
\* catches it, the worker's task ends and its queue stays registered.
WorkerDies(c) == Release(c, "dead")

\* _ensure_execution_entities, then the Task's half of _start_execution.
StartTask(c) ==
  LET e == job[c] IN
  /\ Free
  /\ pc[c] = "slot"
  /\ Cardinality(HoldsSlot) < MaxConcurrency
  /\ IF task[e] \in {"absent", "queued", "waiting_approval"}
       THEN /\ task' = [task EXCEPT ![e] = "running"]
            /\ Goto(c, "start_run")
       ELSE UNCHANGED task /\ WorkerDies(c)
  /\ run' = IF run[e] = "absent" THEN [run EXCEPT ![e] = "queued"] ELSE run
  /\ UNCHANGED <<inbox, attempts, arrival, post, outbox, ingress, process, loop, posted, manual>>

StartRun(c) ==
  LET e == job[c] IN
  /\ pc[c] = "start_run"
  /\ IF run[e] = "queued"
       THEN run' = [run EXCEPT ![e] = "running"] /\ Goto(c, "mark")
       ELSE UNCHANGED run /\ WorkerDies(c)
  /\ UNCHANGED <<inbox, attempts, arrival, post, task, outbox, ingress, process, loop, posted, manual>>

\* mark_inbox_processing, at the top of the retry loop: at once, or after the back-off.
MarkProcessing(c) ==
  /\ \/ pc[c] = "mark"
     \/ pc[c] = "sleep" /\ Free
  /\ inbox' = [inbox EXCEPT ![job[c]] = "processing"]
  /\ attempts' = [attempts EXCEPT ![job[c]] = @ + 1]
  /\ Goto(c, "agent")
  /\ UNCHANGED <<arrival, post, task, run, outbox, ingress, process, loop, posted, manual>>

\* The agent asks for an approval: register() parks the run, then the task, of the post
\* in the payload - for a replayed event these are the source's.
ParkRun(c) ==
  LET p == post[job[c]] IN
  /\ Free
  /\ pc[c] = "agent" /\ "approval" \in Outcomes
  /\ run' = IF run[p] = "running" THEN [run EXCEPT ![p] = "waiting_approval"] ELSE run
  /\ Goto(c, "park_task")
  /\ UNCHANGED <<inbox, attempts, arrival, post, task, outbox, ingress, process, loop, posted, manual>>

ParkTask(c) ==
  LET p == post[job[c]] IN
  /\ pc[c] = "park_task"
  /\ task' = IF task[p] = "running" THEN [task EXCEPT ![p] = "waiting_approval"] ELSE task
  /\ Goto(c, "card")
  /\ UNCHANGED <<inbox, attempts, arrival, post, run, outbox, ingress, process, loop, posted, manual>>

\* The messages an outcome leaves in the collector: how many, and whether of kind "error".
Replies(c) ==
  (IF pc[c] = "card" THEN {<<1, FALSE>>} ELSE {})
    \cup (IF pc[c] = "agent"
          THEN (IF "reply" \in Outcomes THEN (1..MaxParts) \X {FALSE} ELSE {})
                 \cup (IF "silent" \in Outcomes THEN {<<0, FALSE>>} ELSE {})
                 \cup (IF "error" \in Outcomes THEN {<<1, TRUE>>} ELSE {})
          ELSE {})

\* run_id() names the thread, so the segments of two replies in one thread share their keys.
ReplyKeys(e, n) == {ThreadRoot[post[e]]} \X (1..n)
NewRow(e, isError) ==
  [status |-> "pending", attempts |-> 0, owner |-> e, error |-> isError,
   born |-> Cardinality(Rows) + 1]

\* complete_event: the Outbox rows and the Inbox status in one transaction.  A key that
\* exists aborts it, and the event is dead-lettered.
Return(c, n, isError) ==
  LET e == job[c] keys == ReplyKeys(e, n) IN
  /\ Free
  /\ <<n, isError>> \in Replies(c)
  /\ IF keys \cap Rows = {}
       THEN /\ outbox' = [k \in Key |-> IF k \in keys THEN NewRow(e, isError) ELSE outbox[k]]
            /\ inbox' = [inbox EXCEPT ![e] = "completed"]
            /\ Goto(c, "finish_run")
       ELSE /\ inbox' = [inbox EXCEPT ![e] = "failed"]
            /\ Goto(c, "fail_run")
            /\ UNCHANGED outbox
  /\ UNCHANGED <<attempts, arrival, post, task, run, ingress, process, loop, posted, manual>>

\* The processor raised: a transient error is retried after a back-off that keeps the slot.
Raise(c, retryable) ==
  LET e == job[c]
      again == retryable /\ attempts[e] < MaxProcessingAttempts IN
  /\ Free
  /\ pc[c] = "agent"
  /\ (IF retryable THEN "retryable" ELSE "fatal") \in Outcomes
  /\ inbox' = [inbox EXCEPT ![e] = IF again THEN "retrying" ELSE "failed"]
  /\ Goto(c, IF again THEN "sleep" ELSE "fail_run")
  /\ UNCHANGED <<attempts, arrival, post, task, run, outbox, ingress, process, loop, posted, manual>>

\* The rest of _complete_execution.
FinishRun(c) ==
  LET e == job[c] IN
  /\ pc[c] = "finish_run"
  /\ run' = IF run[e] = "running"
              THEN [run EXCEPT ![e] = IF \E k \in RowsOf(e) : outbox[k].error
                                        THEN "failed" ELSE "succeeded"]
              ELSE run
  /\ Goto(c, "finish_task")
  /\ UNCHANGED <<inbox, attempts, arrival, post, task, outbox, ingress, process, loop, posted, manual>>

\* _transition_task moves a running Task only.
MoveTask(e, target) ==
  task' = IF task[e] = "running" THEN [task EXCEPT ![e] = target] ELSE task

FinishTask(c) ==
  LET e == job[c] IN
  /\ pc[c] = "finish_task"
  /\ IF RowsOf(e) = {} THEN MoveTask(e, "succeeded") ELSE UNCHANGED task
  /\ Release(c, "idle")
  /\ UNCHANGED <<inbox, attempts, arrival, post, run, outbox, ingress, process, loop, posted, manual>>

\* _fail_execution: the run, then the task, each only if it is running.
FailRun(c) ==
  LET e == job[c] IN
  /\ pc[c] = "fail_run"
  /\ run' = IF run[e] = "running" THEN [run EXCEPT ![e] = "failed"] ELSE run
  /\ Goto(c, "fail_task")
  /\ UNCHANGED <<inbox, attempts, arrival, post, task, outbox, ingress, process, loop, posted, manual>>

\* A mutant of FailTask that forgets the task.
ForgetfulFailTask(c) ==
  /\ pc[c] = "fail_task"
  /\ Release(c, "idle")
  /\ UNCHANGED <<inbox, attempts, arrival, post, task, run, outbox, ingress, process, loop, posted, manual>>

FailTask(c) ==
  /\ pc[c] = "fail_task"
  /\ MoveTask(job[c], "failed")
  /\ Release(c, "idle")
  /\ UNCHANGED <<inbox, attempts, arrival, post, run, outbox, ingress, process, loop, posted, manual>>

WorkerStep(c) ==
  \/ Take(c) \/ StartTask(c) \/ StartRun(c) \/ MarkProcessing(c)
  \/ ParkTask(c) \/ FinishRun(c) \/ FinishTask(c) \/ FailRun(c) \/ FailTask(c)

ProcessorStep(c) ==
  \/ ParkRun(c)
  \/ \E n \in 0..MaxParts, isError \in BOOLEAN : Return(c, n, isError)
  \/ \E retryable \in BOOLEAN : Raise(c, retryable)

-----------------------------------------------------------------------------
(* The delivery worker.                                                    *)

\* next_delivery: the oldest row that is pending, or retrying and due.  When a retry
\* becomes due is time's choice.
Ready(k) ==
  /\ outbox[k].status \in {"pending", "retrying"}
  /\ \A j \in Rows : outbox[j].born < outbox[k].born => outbox[j].status # "pending"

DeliveryUnchanged == UNCHANGED <<inbox, attempts, arrival, post, run, ingress, workers, process>>

SetStatus(k, status) == outbox' = [outbox EXCEPT ![k].status = status]

BeginDelivery(k) ==
  /\ Free
  /\ loop.pc = "poll" /\ Ready(k)
  /\ outbox' = [outbox EXCEPT ![k].status = "sending", ![k].attempts = @ + 1]
  /\ loop' = [pc |-> "sending", key |-> k]
  /\ UNCHANGED <<task, posted, manual>> /\ DeliveryUnchanged

\* The request takes effect at Mattermost; its answer is still on the way.
RemotePost ==
  /\ loop.pc = "sending"
  /\ posted' = [posted EXCEPT ![loop.key] = TRUE]
  /\ loop' = [loop EXCEPT !.pc = "answer"]
  /\ UNCHANGED <<task, outbox, manual>> /\ DeliveryUnchanged

\* A mutant of DeliverySucceeds that does not wait for the answer.
HastyDeliverySucceeds ==
  /\ Free
  /\ loop.pc \in {"sending", "answer"}
  /\ SetStatus(loop.key, "delivered")
  /\ loop' = [loop EXCEPT !.pc = "settle"]
  /\ UNCHANGED <<task, posted, manual>> /\ DeliveryUnchanged

DeliverySucceeds ==
  /\ Free
  /\ loop.pc = "answer"
  /\ SetStatus(loop.key, "delivered")
  /\ loop' = [loop EXCEPT !.pc = "settle"]
  /\ UNCHANGED <<task, posted, manual>> /\ DeliveryUnchanged

\* The attempt limit.
Exhausted(k) == outbox[k].attempts >= MaxDeliveryAttempts

\* deliver raised, before or after the request took effect.
DeliveryFails ==
  LET k == loop.key IN
  /\ Free
  /\ loop.pc \in {"sending", "answer"}
  /\ IF Exhausted(k)
       THEN SetStatus(k, "failed") /\ loop' = [loop EXCEPT !.pc = "settle"]
       ELSE SetStatus(k, "retrying") /\ loop' = [pc |-> "poll", key |-> k]
  /\ UNCHANGED <<task, posted, manual>> /\ DeliveryUnchanged

\* Every segment arrived; a mutant is content with one of them.
SomeDelivered(e) == \E j \in RowsOf(e) : outbox[j].status = "delivered"
AllDelivered(e) == \A j \in RowsOf(e) : outbox[j].status = "delivered"

\* _settle_parent_task: a standalone delivery has no parent Task.
Settle ==
  LET k == loop.key e == outbox[k].owner IN
  /\ loop.pc = "settle"
  /\ IF e \in Standalone THEN UNCHANGED task
     ELSE IF outbox[k].status = "failed" THEN MoveTask(e, "failed")
     ELSE IF AllDelivered(e)
       THEN MoveTask(e, IF run[e] = "failed" THEN "failed" ELSE "succeeded")
     ELSE UNCHANGED task
  /\ loop' = [loop EXCEPT !.pc = "poll"]
  /\ UNCHANGED <<outbox, posted, manual>> /\ DeliveryUnchanged

\* enqueue_delivery ignores a key that exists.
EnqueueDelivery(s) ==
  LET k == <<s, 1>> IN
  /\ Alive /\ Free
  /\ outbox[k].status = "absent"
  /\ outbox' = [outbox EXCEPT ![k] = NewRow(s, FALSE)]
  /\ UNCHANGED <<task, loop, posted, manual>> /\ DeliveryUnchanged

\* retry_delivery, an operator's or a coordinator's manual retry.
RetryDelivery(s) ==
  LET k == <<s, 1>> IN
  /\ Alive /\ Free
  /\ manual < MaxManualRetries /\ manual' = manual + 1
  /\ outbox[k].status = "failed"
  /\ outbox' = [outbox EXCEPT ![k].status = "retrying", ![k].attempts = 0]
  /\ UNCHANGED <<task, loop, posted>> /\ DeliveryUnchanged

DeliveryStep ==
  \/ \E k \in Key : BeginDelivery(k)
  \/ DeliverySucceeds \/ DeliveryFails \/ Settle

-----------------------------------------------------------------------------
(* The process: start with recovery, crash, graceful close.                *)

\* lifecycle.reconcile: what was running is queued, what was being sent is pending.  The
\* mutants leave either of them as the crash found it.
UnreconciledExecutions(state) == state
ReconciledExecutions(state) ==
  [e \in Event |-> IF state[e] = "running" THEN "queued" ELSE state[e]]

UnreconciledDeliveries == outbox
ReconciledDeliveries ==
  [k \in Key |-> IF outbox[k].status = "sending"
                   THEN [outbox[k] EXCEPT !.status = "pending"] ELSE outbox[k]]

\* recover_inbox: the interrupted rows are accepted again, and all accepted rows are handed
\* out in order of arrival.  The mutants revive dead letters, forget an event that was
\* waiting for its back-off, or hand out the newest row first.
InterruptedOrFailed == {"processing", "retrying", "failed"}
InterruptedInAgent == {"processing"}
Interrupted == {"processing", "retrying"}

Handed == {e \in Event : inbox[e] \in {"accepted"} \cup Interrupted}

\* The events of S in the order of received_at.
ByArrival(S) == Subsequence(arrival, {i \in DOMAIN arrival : arrival[i] \in S})

NewestFirst ==
  LET rows == ByArrival(Handed) IN [n \in 1..Len(rows) |-> rows[Len(rows) + 1 - n]]
Recoverable == ByArrival(Handed)

\* lifecycle.reconcile, recover_inbox and the creation of the delivery task.
Start ==
  /\ ~Alive /\ starts < MaxStarts
  /\ run' = ReconciledExecutions(run) /\ task' = ReconciledExecutions(task)
  /\ outbox' = ReconciledDeliveries
  /\ inbox' = [e \in Event |-> IF inbox[e] \in Interrupted THEN "accepted" ELSE inbox[e]]
  /\ recovering' = Recoverable
  /\ loop' = [pc |-> "poll", key |-> None]
  /\ phase' = "starting" /\ starts' = starts + 1
  /\ UNCHANGED <<attempts, arrival, post, entering, hooks, admission, workers, joining, posted, manual>>

\* start() submits the recovered events one after the other.
Recover ==
  /\ phase = "starting" /\ Free
  /\ recovering # <<>>
  /\ Enqueue(Head(recovering))
  /\ recovering' = Tail(recovering)
  /\ UNCHANGED <<durable, entering, hooks, admission, process, loop, posted, manual>>

Started ==
  /\ phase = "starting" /\ Free
  /\ recovering = <<>>
  /\ phase' = "up"
  /\ UNCHANGED <<durable, ingress, workers, starts, joining, loop, posted, manual>>

LoseMemory ==
  /\ recovering' = <<>> /\ entering' = None /\ hooks' = {} /\ admission' = <<>>
  /\ queue' = [c \in Conversation |-> <<>>]
  /\ pc' = [c \in Conversation |-> "absent"]
  /\ job' = [c \in Conversation |-> None]
  /\ pending' = 0 /\ joining' = {}
  /\ loop' = [pc |-> "off", key |-> None]

\* A crash, at any point; the last start of a behaviour does not crash.
Crash ==
  /\ Alive /\ starts < MaxStarts
  /\ phase' = "down"
  /\ LoseMemory
  /\ UNCHANGED <<durable, starts, posted, manual>>

Registered == {c \in Conversation : pc[c] # "absent"}

\* close(): join the scheduler, wait for the Outbox, join again, stop the workers, stop
\* the delivery loop.
BeginClose ==
  /\ MayClose /\ Free
  /\ phase = "up"
  /\ phase' = "joining" /\ joining' = Registered
  /\ UNCHANGED <<durable, ingress, workers, starts, loop, posted, manual>>

\* One queue.join() of the gather: its count of unfinished items reached zero.
JoinQueue(c) ==
  /\ phase \in {"joining", "closing"} /\ Free
  /\ c \in joining
  /\ queue[c] = <<>> /\ job[c] = None
  /\ joining' = joining \ {c}
  /\ UNCHANGED <<durable, ingress, workers, phase, starts, loop, posted, manual>>

OutboxDrained ==
  /\ phase = "joining" /\ joining = {} /\ Free
  /\ Outstanding = {}
  /\ phase' = "closing" /\ joining' = Registered
  /\ UNCHANGED <<durable, ingress, workers, starts, loop, posted, manual>>

\* A mutant of StopWorkers that uses the list of queues the last join has emptied.
SilentStopWorkers ==
  /\ phase = "closing" /\ joining = {} /\ Free
  /\ phase' = "stopping"
  /\ queue' = [c \in Conversation |-> IF c \in joining THEN Append(queue[c], Stop) ELSE queue[c]]
  /\ joining' = Registered
  /\ UNCHANGED <<durable, ingress, pc, job, pending, starts, loop, posted, manual>>

StopWorkers ==
  /\ phase = "closing" /\ joining = {} /\ Free
  /\ phase' = "stopping"
  /\ queue' = [c \in Conversation |-> IF c \in Registered THEN Append(queue[c], Stop) ELSE queue[c]]
  /\ joining' = Registered
  /\ UNCHANGED <<durable, ingress, pc, job, pending, starts, loop, posted, manual>>

WorkersGone ==
  /\ phase = "stopping" /\ Free
  /\ \A c \in joining : pc[c] \in {"gone", "dead"}
  /\ phase' = "exiting" /\ joining' = {}
  /\ UNCHANGED <<durable, ingress, workers, starts, loop, posted, manual>>

\* The delivery loop leaves when next_delivery finds nothing due; then the process ends.
LoopExits ==
  /\ phase = "exiting" /\ Free
  /\ loop.pc = "poll"
  /\ \A k \in Key : outbox[k].status # "pending"
  /\ phase' = "stopped"
  /\ LoseMemory
  /\ UNCHANGED <<durable, starts, posted, manual>>

CloseStep == (\E c \in Conversation : JoinQueue(c)) \/ OutboxDrained \/ StopWorkers \/ WorkersGone \/ LoopExits

-----------------------------------------------------------------------------
Init ==
  /\ inbox = [e \in Event |-> "absent"]
  /\ attempts = [e \in Event |-> 0]
  /\ arrival = <<>>
  /\ post = [e \in Event |-> e]
  /\ task = [e \in Event |-> "absent"]
  /\ run = [e \in Event |-> "absent"]
  /\ outbox = [k \in Key |-> NoRow]
  /\ phase = "down" /\ starts = 0 /\ manual = 0
  /\ recovering = <<>> /\ entering = None /\ hooks = {} /\ admission = <<>>
  /\ pending = 0
  /\ queue = [c \in Conversation |-> <<>>]
  /\ pc = [c \in Conversation |-> "absent"]
  /\ job = [c \in Conversation |-> None]
  /\ joining = {}
  /\ loop = [pc |-> "off", key |-> None]
  /\ posted = [k \in Key |-> FALSE]

Next ==
  \/ \E e \in Event : Accept(e) \/ HookReturns(e)
  \/ \E e, source \in Event : Replay(source, e)
  \/ Ensure \/ Admit
  \/ \E c \in Conversation : WorkerStep(c) \/ ProcessorStep(c)
  \/ DeliveryStep \/ RemotePost
  \/ \E s \in Standalone : EnqueueDelivery(s) \/ RetryDelivery(s)
  \/ Start \/ Recover \/ Started \/ Crash
  \/ BeginClose \/ CloseStep

Spec == Init /\ [][Next]_vars

\* The event loop runs what is runnable and the back-off timers fire; a remote call answers or
\* times out; a supervisor restarts the process.  An agent's run ends by its deadline; the model
\* calls of the memory compactor and of the intent classifier have none, and that they come back
\* is assumed of the provider.  Nobody has to send an event, replay one or shut the process down.
Fairness ==
  /\ WF_vars(Ensure) /\ WF_vars(Admit) /\ WF_vars(Start) /\ WF_vars(Recover) /\ WF_vars(Started)
  /\ \A e \in Event : WF_vars(HookReturns(e))
  /\ \A c \in Conversation : WF_vars(WorkerStep(c)) /\ WF_vars(ProcessorStep(c))
  /\ WF_vars(DeliveryStep)
  /\ WF_vars(CloseStep)

FairSpec == Spec /\ Fairness
-----------------------------------------------------------------------------
(* Properties.                                                             *)

Settled == {"completed", "failed"}
Position(e) == CHOOSE i \in 1..Len(arrival) : arrival[i] = e
Earlier(d, e) == /\ {inbox[d], inbox[e]} \cap {"absent"} = {}
                 /\ ConversationOf[d] = ConversationOf[e]
                 /\ Position(d) < Position(e)

\* Every variable holds a value of its kind.
TypeOK ==
  /\ inbox \in [Event -> InboxStatus]
  /\ attempts \in [Event -> Nat]
  /\ arrival \in Seq(Event)
  /\ post \in [Event -> Event]
  /\ task \in [Event -> TaskState] /\ run \in [Event -> TaskState]
  /\ outbox \in [Key -> Row]
  /\ phase \in {"down", "starting", "up", "joining", "closing", "stopping", "exiting", "stopped"}
  /\ {starts, manual, pending} \subseteq Nat
  /\ recovering \in Seq(Event) /\ admission \in Seq(Event)
  /\ entering \in Event \cup {None} /\ hooks \subseteq Event
  /\ queue \in [Conversation -> Seq(Event \cup {Stop})]
  /\ pc \in [Conversation -> WorkerPc]
  /\ job \in [Conversation -> Event \cup {None}]
  /\ joining \subseteq Conversation
  /\ loop \in [pc : {"off", "poll", "sending", "answer", "settle"}, key : Key \cup {None}]
  /\ posted \in [Key -> BOOLEAN]

\* Back-pressure is exact: the permits taken from the pending semaphore are those of the
\* events that are queued or in a worker, also after a worker's task died (scheduler._worker).
PendingConserved ==
  LET queued == UNION {{c} \X {i \in DOMAIN queue[c] : queue[c][i] # Stop} : c \in Conversation} IN
  pending = Cardinality(queued) + Cardinality({c \in Conversation : job[c] # None})

\* A conversation is served in order of arrival, across crashes: an event is not begun
\* before every earlier one of its conversation is completed or dead-lettered
\* (PartitionedScheduler and the order of recover_inbox).
ConversationOrder ==
  \A d, e \in Event : Earlier(d, e) /\ attempts[e] > 0 => inbox[d] \in Settled

\* A Task's verdict agrees with what happened to its replies: it succeeds only when its
\* run did and every delivery arrived, and fails only when the processing, the agent or
\* a delivery failed (_complete_execution, _settle_parent_task, _fail_execution).
TaskVerdict ==
  \A e \in Event :
    /\ task[e] = "succeeded" =>
         /\ inbox[e] = "completed" /\ run[e] = "succeeded"
         /\ \A k \in RowsOf(e) : outbox[k].status = "delivered"
    /\ task[e] = "failed" =>
         \/ inbox[e] = "failed"
         \/ run[e] = "failed"
         \/ \E k \in RowsOf(e) : outbox[k].status = "failed"

\* The Outbox holds replies of completed events only, and a delivery that counts as
\* delivered took effect at Mattermost (complete_event's transaction, _deliver_one).
OutboxTruthful ==
  \A k \in Rows :
    /\ outbox[k].owner \in Event => inbox[outbox[k].owner] = "completed"
    /\ outbox[k].status = "delivered" => posted[k]

\* A conversation's worker dies only of a run that is parked for an approval while its
\* event is still unsettled (_start_execution raises outside every handler).
OnlyParkedRunsKillWorkers ==
  \A c \in Conversation : pc[c] = "dead" =>
    \E e \in Event : /\ ConversationOf[e] = c
                     /\ inbox[e] = "accepted" /\ run[e] = "waiting_approval"

\* What is settled stays settled, whatever is redelivered, replayed or recovered: a completed
\* or dead-lettered event is not run again and its replies are not written twice, and
\* a delivered message is not sent again.
SettledStaysSettled ==
  [][/\ \A e \in Event : inbox[e] \in Settled =>
          inbox'[e] = inbox[e] /\ attempts'[e] = attempts[e] /\ RowsOf(e)' = RowsOf(e)
     /\ \A k \in Key : outbox[k].status = "delivered" => outbox'[k] = outbox[k]]_vars

\* Only an exception of the processor sends an event to the dead letters: what it answered
\* is deliverable (complete_event).
OnlyErrorsAreDeadLettered ==
  Outcomes \cap {"retryable", "fatal"} = {} => \A e \in Event : inbox[e] # "failed"

\* An accepted event is eventually completed or dead-lettered, through crashes.
EveryEventSettles ==
  \A e \in Event : inbox[e] = "accepted" ~> inbox[e] \in Settled \/ phase = "stopped"

\* A reply in the Outbox is eventually delivered or given up, through crashes; a graceful
\* close may leave one behind for the next start.
EveryDeliverySettles ==
  \A k \in Key : outbox[k].status = "pending" ~>
    outbox[k].status \in {"delivered", "failed"} \/ phase = "stopped"

\* A Task reaches its verdict, or waits for an approval, if the process does not crash.
TaskSettlesWithoutCrash ==
  \A e \in Event :
    task[e] = "queued" /\ starts = 1 ~>
      task[e] \in {"succeeded", "failed", "waiting_approval"} \/ phase \in {"down", "stopped"}

\* The same for the whole life of the service: a restart resumes what was not delivered.
TaskSettles ==
  \A e \in Event :
    task[e] = "queued" ~> task[e] \in {"succeeded", "failed", "waiting_approval"}

\* A graceful close ends.
CloseTerminates == phase = "joining" ~> ~Alive
=============================================================================
