# A verification development of mmag

mmag puts AI agents behind a Mattermost bot: it reads posts from a WebSocket, hands each to an
agent run, and sends what the agent answers; side effects wait for a person's approval, model
costs are charged against a budget, and everything that must survive a crash is in one SQLite
database. This directory holds TLA+ modules of its core, the TLC configurations that check them
on small instances, and theorems about them whose proofs TLAPS checks. Every definition follows
the Python source; `PROJECT.json` ("map") gives the lines each stands for, "hazards" the places
where the code is hard to test and the property that watches each, "mutants" plausible bugs that
each property catches.

    tlc -config PipelineSafety.cfg MCPipeline.tla      # any run: its cfg and its MC module
    tlapm LifecycleProofs.tla                          # the proofs: any of the eight *Proofs modules

Paths below are relative to `src/mmag/` in the repository.

## 1. Inventory of the system

| Component | State it keeps | Operations | Hard behaviour | What makes it correct |
|---|---|---|---|---|
| Message pipeline (`control_plane/pipeline.py`) | Inbox and Outbox rows; in memory: a queue and worker per conversation, two semaphores | accept, replay, worker (process, retry, complete, fail), delivery loop, start with recovery, close | a crash between any two commits, an ambiguous remote call, back-pressure, close racing workers | order within a conversation; each event settles; nothing settled is redone; verdicts agree with deliveries |
| Control-plane store (`control_plane/store.py`) | all tables of the control plane | one transaction per call | atomicity of what belongs together | entity, log and projection agree |
| Lifecycle service (`control_plane/lifecycle.py`) | entities with a version, a log of transitions | create, transition, reconcile | reads before the transaction, repeated commands, restart | the log is linear, commands are idempotent, verdicts are final |
| Approvals (`control_plane/approval.py`, `langgraph_approval.py`, `callbacks.py`) | approval requests, action tokens, the parked graph's checkpoint | register, decide, resume, expire | two deciders, tokens checked and used at different times, crash in between | a side effect needs an approval and happens once |
| Capability calls (`control_plane/capability_calls.py`) | calls with an execution key | create_or_get, wait, resume, run, replay | LangGraph runs a node again from its start | exactly one execution |
| Quota, model gateway (`control_plane/quota.py`, `governance/gateway.py`) | usage and reservations | reserve, settle, release, expire | a reservation outliving its run, a repeated run, cancellation | what is recorded and reserved stays within the limit; a run under way is counted; each report counted once |
| Runs and delegation (`control_plane/runs.py`, `run_coordinator.py`, `agent_system/dispatcher.py`) | agent runs, parent and child | dispatch, replay, wait for a child, resume the parent | cancellation by a deadline while a child runs; crash while waiting | parent and child agree, no parent waits for ever |
| Turns of a thread (`application/agent_requests.py`, `agent_packages/`, `runtimes/deepagents.py`) | one run id, checkpoint and session per thread; capability call rows | begin, ask for a tool, park, decide, resume, rebuild the session | a parked turn is resumed beside a later turn of the same thread, or without its session | a call is carried out under its own approval, within its turn's skill |
| Conversation memory (`memory.py`, `memory_compactor.py`, `ws_client.py`) | message log, index, summaries, a window in memory, the connection's sequence number | log, edit, delete, summarise, search, back-fill | three ways into the log that do not wait for each other; lost events; a summary of rows read before the model was asked | log, index, window and summaries agree with the channel |
| Execution and artifacts (`execution/`, `application/delivery.py`) | workspaces, artifact directories and rows, file ids of an Outbox row | run, commit, reconcile, upload, post | a process that outlives its command; file and row are two stores | a row has its whole file; a post carries each artifact once |
| Personas and memory items (`control_plane/personas.py`, `memory_items.py`) | memories with a source, revisions of a persona | remember, expire, forget, revoke; revise, publish, archive | the source changes between its logging and the memory made of it; revocation and archiving are separate commits | no later revision has a withdrawn memory, and none that has it goes on answering |
| Persona replies (`control_plane/persona_replies.py`) | requests, drafts, cards, several Outbox rows per request | ask, decide, edit, expire, retry, settle | expiry, decision, failed deliveries and crash in any order | only the owner's words, and those are not lost |
| Personal skills and work cases (`control_plane/personal_skills.py`, `work_cases.py`) | cases, revisions, sessions | save, draft, activate, run, edit, clean up | a session filled in after its revision was replaced | only the active revision runs, cited cases are kept |
| Task drafts (`application/task_drafts.py`) | drafts, tasks, tokens | attach, confirm, reject, complete | button and command at once, a timeout in the middle of the creation | one task per item, answers that do not contradict |
| Goals (`capabilities/goals.py`) | goals, card tokens | create, update, confirm | partial updates that wait, tokens on old cards | the window stays a window |
| Package releases (`control_plane/releases.py`, `evaluation/gate.py`) | registries in memory, active releases | load in order, activate, supersede | a start that fails after it activated | what is served is what is recorded |
| Schema (`infrastructure/sqlite/migration.py`) | the history of versions, the tables | read, begin, upgrade, commit | two processes of two builds, killed anywhere | every version once and whole |
| Agent and skill selection (`agent_system/core.py`, `skill_packages/`) | the registry of agents, rows of personal skills | route, resolve a skill, lay a personal one over it | packages, tools and revisions change between the message that asks and its turn; rankings by tuples | agent, skill, overlay and tools fit each other and the message |
| Policy | rules and snapshots | decide | precedence rules | most specific rule wins |
| Capability registry and executor, integrations | none | authorize, run with a timeout | timeout racing the answer | every call ends in one result |
| Views, operations tooling | none | render, report, evaluate | - | - |

How they meet: the WebSocket loop calls `accept`; the pipeline's processor is the handler, which
runs an agent through the gateway (quota) and returns messages; `complete_event` writes them to
the Outbox in the transaction that completes the event; the delivery loop sends them and settles
the Task. If the agent's graph is interrupted, `register` parks run and Task and the message is
an approval card; a decision reaches `resume` by an HTTP callback or a chat command and continues
the graph outside the pipeline. Every change of an entity's state goes through the lifecycle
service. On a start, `lifecycle.reconcile` and `recover_inbox` repair what a crash left.

## 2. Plan

Written, in order of importance:

1. **Pipeline**, **PipelineProofs**, **PipelineOrderProofs** - the durable message pipeline; **Subsequences**,
   **SubsequenceProofs** - what a query with a WHERE clause leaves of an ordered table.
2. **LifecycleRules, Ledger, Lifecycle, LifecycleProofs** - the state machines, the abstract
   ledger, the service that implements it, and the proofs.
3. **Approval**, **ApprovalProofs** - the human gate, starting where Pipeline parks a run.
4. **Quota**, **Delegation** - reservations under concurrent runs; a parent run and its children.
5. **Turn, TurnProofs** - what the turns of one thread share, and what keeps them apart.
6. **Conversation**, **Artifacts** - the two places where the outside world and the database can
   disagree: the channel and its log, the file system and its rows.
7. **Personas**, **PersonaReplies**, **PersonalSkills**, **TaskDrafts**, **Goals** -
   versioned rows with an owner, changed by buttons, commands, messages, pollers and crashes.
8. **Releases**, **Schema** - what a start does.
9. **Selection** - which agent, skill and personal skill a message is answered with; **ServicesProofs** and
   **AgentWorkProofs** - the proofs about 4 and 6 to 9.

Left, in this order:

10. **Policy** - which rule decides, as operators against a reference definition. Until then the modules
   leave the verdict open.
11. Slash commands and start-up probes of the application.

## 3. The modules

### Pipeline

One asyncio loop runs everything, so code between two awaits is not interleaved with another
coroutine; but each store call commits on its own, so the process can die between two of them.
Handlers are split at awaits *and* at commits. While a coroutine stands between two commits of one
synchronous stretch (a `Synchronous` pc) no other coroutine moves; only a crash may come between.

| State | Code |
|---|---|
| `inbox`, `attempts`, `arrival`, `post` | `inbox_events`: status, attempts, order of `received_at`, payload |
| `task`, `run` | lifecycle entities `task:<event>`, `run:<event>` |
| `outbox` | `outbox_deliveries`, by idempotency key (thread root, segment) |
| `queue`, `pc`, `job`, `pending` | `PartitionedScheduler`: queues, worker tasks, pending semaphore |
| `entering`, `hooks`, `admission` | an `accept()` before, in and after `on_accepted` |
| `recovering`, `phase`, `joining` | progress of `start()` and `close()` |
| `loop`, `posted` | the delivery worker; what took effect at Mattermost |

`Accept`, `Ensure`, `HookReturns`, `Admit` are `accept`; `Replay` is `replay_dead_letter`; `Take` to
`FailTask` are `_worker`, `_process` and the helpers they call; `BeginDelivery` to `Settle` are
`_deliver_one` and `_settle_parent_task`; `Start`, `Recover`, `Started`, `Crash` and the close actions
are the process. What the processor answers is a choice over `Outcomes`. `SequentialIngress` says
that the WebSocket loop awaits each `accept` before the next. When a delivery's back-off ends is
time's choice. Settlement of a digital persona's reply is left to its own module.

### LifecycleRules, Ledger, Lifecycle

`LifecycleRules` has the transition and recovery tables verbatim. `Ledger` is what callers rely on:
entities are opened once and each row of a growing trail continues the one before by a rule, with a
command nobody used. `Lifecycle` is the service: `Read` (lookup of the command, read of the entity,
the checks) and `Commit`/`Conflict` (the transaction with its optimistic conditions) are two steps,
because the lock covers the transaction only and the service is called from several threads; callers
that stay on the loop take them together, which the model includes. `Write` is entity, log row and
Outbox projection at once. `Reconcile` visits entities one by one, with a crash possible between.
`Implements` is `Ledger`'s specification under `trail <- transitions`.

### Approval

Starts where Pipeline ends with a parked run and a card in the Outbox. `decider` is a coroutine that
carries a decision: `Click`, `Consume` (button with a token verified before two awaits and used up
after), `Type` (command, no token), `Decide` to `StartTask` (`resume` up to `gateway.resume`), the
graph with its tools (`Invoke` to `SideEffect`, `FinishCall`), a further gate (`Ask` to `ShowCard`),
and the verdict. One approval request stands for the batch of tool calls one interrupt raises.
Whether a person may decide is free, as is when a request expires. The card's way through the
Outbox is reduced to three states, with the same settlement rule as in Pipeline, since a resumed
Task is again one that the settlement moves.

### Quota

`usage` and `reservation` are `quota_usage` and `quota_reservations` of one actor and month; `gateway` is where
a call of the gateway is; `lapsed` says whose lease is over; `bill` is what the provider charged. `Reserve`/`RefuseRun`
are `reserve_quota` with its release of expired rows (rolled back on refusal), `Settle`, `ReleaseQuota` the other
calls; `SumOver` is the query's SUM, said as the number of units in the rows, since amounts are whole numbers here.
`Returns`, `Parks`, `Raises`, `Dies` are every way out of the gateway, cancellation included. `ReservationOf` lets
two runs share an id, as a retried event's intent classification does.

`Reported` is the runtime's `_usage`: it counts tokens and always reports a cost of zero (`runtimes/deepagents.py:974`),
which `ModelGateway.settle` records. So a settled run no longer counts against the limit, whatever it cost, and what
`BudgetIsKept` says is what the code does keep: the envelope of the runs under way. What is recorded and reserved stays
within the limit (`WithinLimit`), a run that may still call the model is counted in that unless its lease is over or a
run with the same id ended it (`InFlightIsReserved`), and each settled run's report is counted once
(`UsageIsReported`). The documented monthly limit on what the provider charges is not kept (section 4, what disagreed).

### Delegation

One parent and its calls of delegate tools. `tool[t]` is where `dispatch` stands for a call, or what
the parent's model was told of it; `child[t]`, `request[t]` are the rows of the child's run and of its
newest approval. `Dispatch`, `Claim`, `WaitForChild`, `ChildEnds`, `QueueParent`, `RunParent` are
`RunCoordinator.dispatch` from `create_or_get` to its return, commit by commit; `TimeOut` is the
capability's `asyncio.timeout`; `Interrupt` and `Park` are a suspended tool and `register`; `Decide`
to `ResumeGraph` are `resume` with `_complete_delegated_resume`; `Return` and `Raise` every end of the
parent's graph, with the states that the pipeline and the resumption each move. Where two commits are
one synchronous stretch without a decision between them (run and Task in `_transition_run`, say),
they are one step here: the crash between them is in Approval. The `delegate_*` tools are registered
but projected to no production agent (docs/ROADMAP.md), so Pipeline's runs never wait for a child.

A child is *abandoned* when a timeout or the failure of the parent's graph cancels `dispatch`, whose
handlers catch `Exception` and not `CancelledError`: the child stays running and the parent
waiting_child until the next restart. `FamilyAgrees` and `WaitingEnds` exempt those calls by name; they
hold of all others. A resumed child has no deadline and may wait for its model for ever: `WaitingEnds` says so. After a crash, runs of a family may contradict each other, since recovery queues
a child that nobody runs: the properties say so with `crashes = 0`.

### Turn

A message of a thread is a turn; the worker serves them one at a time, but a turn that waits for an
approval is resumed beside the next one. All of them have one `run_id` (it names the thread's root),
hence one `session`, one `checkpoint` and one workspace. `BeginTurn` chooses author, invocation and
skill; `EnterGraph` is `respond` and the factory's request, with the tools it projects; `AskForTool`,
`PassCheck`, `RefuseCall`, `ExecuteCall` are the model's call, the tool wrapper and the capability call
row (`create_or_get`, `_assert_identity`); `ParkTurn` and `ParkAmbient` the interrupt; `DecideRequest`,
`RebuildSession`, `FailResume` the resumption with the session in memory or rebuilt from the request's
snapshot; `EndProcess`, `StartProcess` a restart, perhaps under another policy. The child's suspension
in a turn is Delegation's subject, the steps of a decision Approval's.

What the code does and the properties therefore do not deny: a resume that finds no interrupt answers
with the text of another turn; an ambient turn that asks for a guarded tool parks without a request;
`thread_limit` counts the steps of all turns; a turn that settles drops the session and workspace of one
that is parked; a cancelled run leaves its session; the empty capability list of a persona's turn is
lost in the factory; the policy's allowlist is the package's and not the skill's; and the rule that a
checkpoint is resumed by its own actor (ADR 0010) is not kept between two users after a session was
rebuilt. `ApprovalsStayWithTheirCall` speaks of one user's calls for that reason, and
`SkillBoundsItsTurn` of threads in which one user writes: with three turns and two users TLC finds that a
turn that waits is resumed in the session of a later turn while the other user's call is in the
checkpoint, for which the first user has no row to disagree with; the graph then goes on with the later
turn's tools. Both hold with three turns as well (two users and no restart, 2.6 million states; one user,
three calls and a restart, 5.7 million).

### Conversation

`channel` and `events` are the server's; `link` is the WebSocket with its sequence number; `rows`,
`index`, `segments` are `message_log`, `message_log_fts` and `conversation_segments`; `recent` is
`working_memory`, `inbox` and `work` the pipeline reduced to a post and its step. `HearPosted`,
`HearRaises`, `HearEdited`, `HearDeleted` are the reader, `Connect` a reconnection that resumes or starts
anew, `StartPost` to `SummaryWritten`/`SummaryFails` the worker with `check_compaction`, `AnswerPost` and
`DeliverAnswer` the bot's own posts, `RestartBot` the start with its back-fill. `Searched` is what a
full-text query finds, `Given` what a request to the model contains.

`payload` is the text a post had when it was made: the worker logs that one, whatever became of the post. A text is
"bare" when the post has files and no words. `log_message` makes no row of such a post, while the window gets it;
`update_message` refuses an edit to it, and `on_post_edited` and `on_post_deleted` then return before they touch the
window (`HearEdited`, `HearDeleted`, `Written`).

`LogMirrorsChannel` exempts by name: posts changed while nobody listened or before their worker came
(the deleted post is logged afterwards), posts deleted while a summary of them was written (it is
saved as active), and the two cases of a missing text: a post whose text an edit took away keeps its row and is found by
its old words, and a post that never had a text stays in the window, with its files, when it is deleted. Not exempt and
true: everything else, through lost events and crashes. An edit changes
the first copy in working memory only; the window is compared for deleted posts. A post lost with a
connection is never fetched once a newer row exists. The counter that triggers a summary is lost at a
restart. Failures of the store itself are not modelled; Mattermost takes no post of 50000 characters.

### Artifacts

`staged` is the file a runner produced, `child` the process that may still write it: a script's
(`execution/scripts.py`) or a shell's (`execution/backend.py`), whose workspace outlives the command.
`BeginCommit`, `Inspect`, `Copy`, `Replace`, `InsertRow` are `ArtifactRepository.commit` step by step
(a failed check falls back to the end of the commit); `Upload`, `UploadLost`, `SendFiles` the delivery
with `save_delivery_files`; `RestartRunner` is `reconcile` with `cleanup_stale`. A hash is the content
it is the hash of. Notes from the code: the kind of a file is validated before its hash is taken;
`cleanup_stale` may purge the workspace of a run that waits for an approval; a crash between an upload
and its saving leaves an upload nobody names; a script's artifact gets a fresh id at each commit.
The audit rows are not modelled.

### Personas, PersonaReplies

Personas: `post` is the message on the server, `handled` how far the worker of the owner's conversation has come with it,
`item` the memory made from it (one name for each attempt that may make it), `revision` a snapshot of memories with a
status. `LogSource` is `log_message`, after which `maybe_compact` is awaited; `Remember` is `_remember`, with the
memory that is known already and the quota; `HandlingFails` a handling that raises and is tried again or given up. An
edit or a deletion may come at any of these points: `SourceGoes`/`RevokeSource` are `on_post_edited` and
`on_post_deleted` where there is a row, `SourceStays` where there is none, where the edit leaves no text, or where
nobody hears of it. Apart from the worker the methods are synchronous, so what a crash may cut is `source`, the
revocation that is still to be done, and `unpaused`, the archiving after it, for which the ids are collected before.
A memory asked for by a slash command has no post that could be changed; a dead letter that an operator replays is
left out.

`WithdrawnIsPaused` has two halves. A memory is active only while its post is as it was sent; a revoked memory is in no
revision that was made after its revocation (`before`), and an active revision that has it is one the owner published
again after that (`renewed`, set by `PublishPersona` alone: `activate` does not look at the memories). The exceptions
stand in the property, memory by memory: a change that came to nothing (`lost`), one that came before the worker was
through with the post (`early`: what the worker does next makes the memory of a changed post), a crash between the
commits (`dropped`), and an expired memory, which nothing withdraws.

PersonaReplies: one question and the requests its attempts make. `outboxRow` has the four kinds of rows
of a request; `todo` is the rest of a stretch without an await. `DecideReply` to `EnqueueDecision`,
`Retry`/`RetryDecision`, `ExpireDue`/`EnqueueExpired` and `SettleReply`/`EnqueueOwnerUpdate` are the
decision, the retry by hand, the poller and `_settle_persona_reply`. Only the modes of a persona that
ask their owner are modelled. `OnlyOwnersWords`: what is shown is a text the owner agreed to, and not
after he refused; `ApprovedIsOnItsWay`: an approved reply has a row that carries it, but for what a crash
tore between two commits (`torn`), which a start does not repair because the row exists.

### PersonalSkills, TaskDrafts, Goals

PersonalSkills: cases (candidate, saved) and revisions of a skill in one direct channel; a message is
classified, fills in an open session, or runs a skill, while buttons change what it has read. A crash
after the session was completed serves the message again without its session.

TaskDrafts: a decision is a coroutine that may stop at each await (`ClaimCommit`, `CheckAssignee`,
`CreateTask`, `CompleteDraft`); `CallbackTimesOut` is the callback's deadline, `Raises` any failure on
the way. `consume()` takes a token before `decide()` asks who pressed the button. The tasks' `ExistingTask`
is the execution key of an item.

Goals: `call` is an update that waits for its guard or for the membership of a new owner; `FinishUpdate`
is everything after the last await. `offered` counts the tokens on cards, which stay when the goal goes on.

### Selection

Who answers a message and with what. `release` is the set of packages a process has loaded (`AgentCard`,
`SkillCard` say what they declare), `deployed` the tools that are registered, `status` the rows of personal
Skills (`OverlayCard` has what never changes of them), `message` the one whose turn comes next, `choice` what it
was answered with. `Routed`, `Eligible`, `AgentScore` are the router; `SkillsFor`, `SkillScore`, `Effective`,
`MeetsContract` the resolver, whose tuples `Best` compares from the left as Python does; `Overlays`, `Binds`,
`PersonalScore` the personal resolver. `Serve` has every exit: the default agent for what nobody addressed to
the bot, an answer with and without a Skill, a refusal (answered by an error view), and `LookupError`, which
fails the event. Between `Receive` and `Serve`, revisions are activated and archived and the process starts
again, with other packages or without a tool server. The text of a message is the set of keywords found in it.

Simplified: packages need no permission, all agents are healthy and budgets suffice, as in production, so
a hard constraint is the scope. A persona's turn keeps the package's tools in `choice`, since the factory takes
them again (see Turn). Drafts that the application makes never activate themselves; the store and the
resolver support it, and the model has such rows. The input schema of the Skill for minutes wants the intent
and range that only a request for minutes has: a personal Skill over it is refused for any other message.

`AnswersFit` has four parts. `OverlayFits`: what is laid over an answer is active, its owner's, in his direct channel, and made for the
Skill and agent that answer. `PreferencesOnlyRank`: preferences reach nothing the message does not reach and
never trade a specialist for the default agent. `SkillFollowsTheMessage`: the words or the intent of the
message activate a Skill, not the intent the agent happens to be run with. `ToolsStayNarrow`: a Skill has all it
requires and widens nothing. Turn assumes that a message delivered again is routed as it was, which holds
while packages and revisions stay.

### Releases, Schema

Releases: the five kinds of packages in the order `app.py` loads them, each replaced as a whole or not at
all; `releases` are rows of `package_releases`. A removed package's row stays active and skills stay recorded
when the agents' batch is refused, which is why `ServedIsReleased` speaks of names that are served.

Schema: the 26 migrations are of five kinds, one version for each; `ReadHistory` is outside the
transaction that `Begin` opens. An older build refuses a newer schema (`docs/OPERATIONS.md:105`).

### The composites

`MCSelection` is a small set of packages for Selection, cut from the repository's. `MCServices` and `MCAgentWork` put components side by side that share no state, so that one run asks
several small questions: `focus` picks the one that moves, the others keep a single initial state. Their
`TypeOK` is the conjunction of the components'. The fairness of `MCServices` is Delegation's, when it is
the one that moves. `tlc -coverage 1` shows every disjunct of the components taken, but for two that
guard what the properties exclude: a start of the artifacts that finds a row without its file
(`RestartRunner`), and a resumer whose parent does not wait (`RequeueParent`).

## 4. The runs

| Run | Instance | Asks |
|---|---|---|
| `pipeline_safety` | 2 events of one conversation, every outcome but the retryable error, 2 segments, 1 attempt each, a crash at any commit, dead-letter replay | back-pressure exact, order kept, verdicts right, settled stays settled, which runs kill a worker |
| `pipeline_live` | 2 events, replies and retryable errors, 1 pending permit, 2 attempts, a crash, graceful close | every event settles, every Task of a life without crash ends, close ends |
| `pipeline_delivery` | 1 event with 2 segments and a standalone delivery, 2 attempts, a manual retry, a crash | the Outbox tells the truth, every delivery ends |
| `lifecycle` | 2 entities of any kind, 2 callers, 2 commands, 1 restart, symmetry in all three | the log is linear, commands idempotent, no stale decision, refinement of the ledger |
| `approval` | 2 deciders, 2 gates (buttons on the first), 1 crash | effects approved and at most once, one resumer, parking complete, a decided run goes on |
| `services` | 4 runs on 3 reservations, limit 5, estimate 2, charges 1 and 3; 2 delegate calls of one parent, 2 approvals each, 1 crash; 2 openers of any two builds, 2 messages, 3 kills; 2 attempts of one question to a persona, 1 crash; 2 deployments among 5 kinds of packages; 3 agents, 4 Skills, 3 revisions of 2 personal Skills, 2 users, 3 words, a URL or none, preferences or none, 3 releases (one does not register), with and without one tool | runs under way are counted and stay within the limit, every report once; one start per child, the parent is told what was committed, the family agrees, waiting ends; migrations once and whole; the persona's words are its owner's; what is served is recorded; agent, Skill, overlay and tools of an answer fit each other and the message |
| `agent_work` | 2 turns of 2 users, 2 calls, 1 restart; 2 outputs (script and shell), 3 contents, 1 crash; 2 cases, 3 revisions; 2 items, 2 deciders, 1 crash; 1 goal, 2 calls, days 0 to 2; 3 posts of a channel, with and without text, 1 edit or deletion, 1 crash or fault of the connection, a summary of 2; 1 post that becomes a memory and is edited and deleted, 1 retry or crash, 3 revisions of a persona | approvals stay with their call, skills bound their turn, the log mirrors the channel, the withdrawn is paused, artifacts arrive whole, skills rest on kept cases, drafts keep their word, windows are sound, all types |
| `pipeline_task`, `pipeline_parked`, `pipeline_thread`, `approval_task`, `turn_profile` | minimal instances | the first five disagreements below |

Why the bounds suffice. Order, back-pressure and shared keys are questions about two events of one
conversation and one permit; a third repeats the second. Segments differ as "all" and "some" with
two. One crash meets every commit of every handler, and recovery is idempotent: a second crash
restarts from a state of the same kind. Attempts of 2 show "again" and "no more". In Quota the
limit fits two reservations and not three, and charges lie on both sides of the estimate. Two
deciders are what a race needs and the second gate is what asks for a card after the first. Two turns
are one that waits and one that overtakes it; three posts are two that a summary of two takes and one
beside it; two outputs are one of each runner; two builds are an old and a new one; three revisions are
one that is active, one that supersedes it and a draft. Content "bad" is what the check of a kind refuses. In Selection each word reaches another pair of agents or
Skills, so that specialist, default and liked agent differ, and two revisions may tie. The property of
personas is about each memory for itself, and memories of different posts meet in the quota and in saying the same only,
so one post is enough: tried again, it may make a second memory of the same words; three revisions are one without the memory, one that has it and one copied from that. Runs
set `CHECK_DEADLOCK FALSE` because the systems really stop: an idle process waits for an event, a run
that is decided is over, bounds on starts and retries end.

Fairness (`FairSpec` of Pipeline, Approval and Delegation). Weak fairness of each coroutine's steps: the event
loop runs whatever is runnable; HTTP calls have a timeout, so a delivery succeeds or fails; back-off
timers fire; whoever operates the service starts a crashed process again, which is what its promises of
recovery (`docs/OPERATIONS.md`) presuppose. Nobody has to send, replay,
decide, or shut down, and Mattermost never has to accept a request (`RemotePost` has no fairness).

A model's answer needs care, because the model is built without a timeout. The first run of an agent has
the deadline of its request (`asyncio.timeout` in `DeepAgentRuntime.run`), so it returns or raises, and so
does the first run of a delegated child; a capability has its own timeout. `DeepAgentRuntime.resume` has no
deadline: Approval and Delegation assume nothing of a resumed graph, and `DecidedRunGoesOn` and
`WaitingEnds` say that everything goes on *or* such a graph waits for its model for ever (`[]Held`,
`[](resumer.pc = "child")`). In Pipeline, two calls that a processor may make have no deadline either,
the memory compactor's (`memory_compactor.py:230`) and the intent classifier's
(`application/personal_intents.py:135`): that they come back is an assumption on the provider, and the
liveness properties of Pipeline rest on it.

### What disagreed

- **A Task stays queued after a crash** (`pipeline_task`, `TaskSettles`). The process dies after
  `complete_event` and before the last delivery is confirmed. `reconcile` makes the running Task
  queued, the deliveries are sent after the restart, but `_transition_task` moves a running Task only
  and the completed event is not processed again.
- **A recovered event kills its conversation's worker** (`pipeline_parked`, `EveryEventSettles`). The
  process dies between `register` and `complete_event`. The event is handed out again and
  `_start_execution` asks for waiting_approval -> running of the run, which the table forbids; the
  exception leaves the worker, whose queue stays registered without anybody to serve it.
  `OnlyParkedRunsKillWorkers` checks that this is the only way for a worker to die.
- **The second answer in a thread is dead-lettered** (`pipeline_thread`,
  `OnlyErrorsAreDeadLettered`). The idempotency keys are made of the thread's root.
- **The profile tool comes back** (`turn_profile`, `SharedTurnsSeeNoProfile`). `respond` takes
  `get_user_profile` from a turn in a channel and records that; the factory, which builds the request the
  graph is run with, starts from the skill's or the package's names again. The document
  speaks of what the model is shown, and so does the property.
- **A Task succeeds before its answer is out** (`approval_task`, `SucceededTaskIsAnswered`). After a
  resume, run and Task are moved before `reply_view` sends the answer, which does not use the
  Outbox; and a late confirmation of the card's delivery moves the Task while the run still works.

For these five a run has the counterexample, and `PROJECT.json` quotes the sentence of the repository each contradicts.
The passing runs leave the cases in: `EveryEventSettles` is checked to hold without approvals, `TaskSettlesWithoutCrash`
is what is true of Tasks, and the other properties hold with all of them. Six more have no run of their own: the model
has them, and a passing property names them as its exception, without which TLC refutes it, or, in the first case,
claims no more than the code keeps.

- **The limit does not see what runs cost.** `docs/OPERATIONS.md:56` calls `MODEL_BUDGET_USD` the monthly limit of an actor's
  costs. The runtime reports a cost of zero (`runtimes/deepagents.py:974`, as `docs/ROADMAP.md:109` admits) and the gateway
  settles that (`governance/gateway.py:97`): three runs that keep within their reservations may spend more than the limit.
  `BudgetIsKept` speaks of the envelope and of the reports, and of `bill` only where tokens are counted.
- **A resumed run has no deadline.** `docs/OPERATIONS.md:54` makes `RUNTIME_DEADLINE_SECONDS` the deadline of a single run;
  `resume` awaits the graph without one, and the model is built without a timeout. `DecidedRunGoesOn` exempts the run that
  waits for it for ever (`[]Held`), `WaitingEnds` the resumed child.
- **An edit that leaves no text is not made.** `docs/adr/0010` promises that `post_edited` updates message and index;
  `update_message` (`memory.py:125`) returns before it changes anything, and the post is found by the words that were taken
  away. `LogMirrorsChannel` allows a post whose channel text is `"bare"` its old row.
- **A memory of a deleted post.** `docs/ROADMAP.md:369` promises that a deletion revokes. When it is heard while the worker, which
  has logged the post, awaits `maybe_compact` (`application/message_handler.py:341`), it finds no memory to revoke, and
  the worker makes it afterwards. `WithdrawnIsPaused` exempts it (`early`).
- **A deleted post that is logged afterwards.** `docs/adr/0010` promises that deletions are followed, but one whose Inbox
  row waits is logged and searchable when the worker comes. `LogMirrorsChannel` exempts it (`unsettled`).
- **A personal Skill whose agent has no Skills any more.** `docs/SKILL_PACKAGES.md:92` promises a refusal; `_resolve_skill`
  returns before the binding is checked, and the message is answered without it. `OverlayFits` exempts it.

## 5. What is proved

### Lifecycle

`LifecycleProofs` proves for any set of entities, callers and commands and any number of restarts:

| Theorem | Property |
|---|---|
| `TypeCorrect` | `TypeOK`: an entity is in a state of its own machine |
| `TrailAlwaysReplays` | `TrailReplays`: the log replays to what is stored |
| `CommandsAreIdempotent` | `CommandTakesEffectOnce`, and an answered command is recorded |
| `NoDecisionIsStale` | `NoStaleDecision` |
| `ProjectionAlwaysAgrees` | `ProjectionAgrees` |
| `VerdictsAreFinal` | `FinalStaysFinal`, an action property |
| `ServiceImplementsLedger` | `Implements`: every step of the service is a step of `Ledger` or none |

Assumptions: `LifecycleAssumption` only - the bound on restarts is a number, "nothing" is not a kind
of entity, and the commands callers choose are not those `reconcile` makes (a uuid in the code).

The argument. The invariant is not inductive as stated: a `Commit` writes what was read some time ago.
`CallsCurrent` says what such a call still knows - its change is one the table of its entity allows,
its version is at most the stored one, and if it equals it then the state read is the stored state -
so that the optimistic condition in the transaction is enough. `Untouched` says that an entity that
does not exist has no rows, `RowCommands` that a recovery row's command names its entity and version,
which makes it new, and `Listed` that only existing entities await reconciliation. `WriteKeepsTables`
proves once that a write of the next version preserves everything about the tables; commit and
reconciliation both use it. The refinement then needs, of a write, that the row stands on the last
one (`TrailReplays`) and that its command is unused.

### Turn

`TurnProofs` proves, for any number of turns, users, tool calls and restarts and from `TurnAssumption` (the
bounds are numbers) alone: `ApprovalsAlwaysStay`, that is `[]ApprovalsStayWithTheirCall`, from the
inductive invariant of `TurnKnows`. The property says nothing about how a call reaches the turn that carries
it out, so the invariant does. `CheckpointKnown`: the call in the checkpoint has a row under its asker
(`Stored`), and if the asker could register a request, that request names it; a turn that parks writes
row, checkpoint and request together. `GraphKnown`: a graph without a decision has its own call in hand, a graph with one has what it found in the checkpoint;
a guarded call is only executed with an approval, for the policy does not change while a graph is under
way. `RanKnown`, `RequestKnown`, `SessionKnown`: what they name has begun, and so has its author for good.
When the call is carried out, the row found by the executing turn's author, if he is the asker's author,
is the asker's; `SameIdentity` then makes the two turns one. `OneTurnMoves` does the bookkeeping of all steps
that move one turn; the end and the start of the process are apart. TLC checked the invariant first, with
two turns and a restart and with three turns.

The second invariant of `TurnProofs` (`SkillsBoundTurns`, that is `[]SkillBoundsItsTurn`) extends the first.
A graph may run with the session of another turn, so `GraphBound` and `SessionBound` follow the tools: they
are those of the turn the session was built for, and in a thread of one user a turn with a skill is carried
on without a decision only in a session of a turn with a skill. `SkillCall` covers what remains, a call that
a decision takes from the checkpoint: its row names the turn that asked and that turn's skill.

### Goals

`AgentWorkProofs` proves `WindowsStaySound`, `[]WindowsAreSound`, for any goals and calls and from
`GoalsAssumption`. The invariant adds the types of what a call carries: `FinishUpdate` checks the window with the
values that are stored when it writes, not with those of the time the call was made, and nothing about
that earlier time has to be remembered.

### Pipeline

`PipelineProofs` and `PipelineOrderProofs` prove, for any events, conversations, standalone deliveries and
bounds, from the named assumption of Pipeline:

| Theorem | Property |
|---|---|
| `TypeCorrect` | `TypeOK` |
| `PermitsAreConserved` | `PendingConserved`: permits taken are events queued or in a worker |
| `TaskVerdictsAgree` | `TaskVerdict` |
| `OutboxIsTruthful` | `OutboxTruthful` |
| `OnlyParkedRunsKill` | `OnlyParkedRunsKillWorkers` |
| `SettledIsFinal` | `SettledStaysSettled`, an action property |
| `ConversationsAreServedInOrder` | `ConversationOrder`, if `SequentialIngress` |

The argument has three layers. `Custody`: an event that is not settled is in one pair of hands - an
`accept()` under way, the recovery's list, one queue, or one worker of its own conversation - and its Inbox
row says which; queues repeat nothing. From it the permits can be counted, which is why `TypeOK` (a permit
count that is a number in range) is proved after it. `Executions` adds what run, Task, Inbox row and Outbox
rows of an event say of each other, by its worker's pc: `Execution`, `AtPc`, `Verdict`. While the process
lives, a running Task has a worker behind it; that is what a crash takes away and what recovery repairs, so
the conjuncts that need it say `Alive`. `Order` is about positions in `arrival`: queues are sorted by it,
what a worker holds arrived before what is queued behind it, and that before what the recovery still has to
submit; `NoneIsLost` says that every unsettled event is in somebody's hands unless its worker died, and that
is why a younger one cannot overtake it: it would have to be taken from a queue in which the older one comes
first. `SequentialIngress` is a hypothesis of that theorem alone: the WebSocket loop awaits each `accept()`,
and with concurrent callers the property is false. `recover_inbox`'s query is a selection in order of
arrival: `SubsequenceProofs` counts the ranks of positions in a finite set and proves that `Subsequence` leaves
each of the chosen positions once and in order, which `ByArrivalSelects` applies to `ByArrival`.

### Approval

`ApprovalProofs` proves `OneCoroutineResumes`, `SideEffectsAreApproved` and `OpenRequestsParkTheRun` from
the inductive `ApprovalInv`, for any number of gates, coroutines that decide, and crashes. `Consume` and
`Type` verify long before `Decide` writes, so the invariant says nothing of those coroutines: who passes
`Decide` has moved the only pending request. `ResumerDecided` makes that the reason there is one resumer: to
resume one must have decided, and the next request opens only while its own resumer parks the run.
`RunOfResumer` and `RunOfOpenRequest` give the state of the run by where its resumer is, or by the crash
that took him. An effect happens at most once because it ends the wait of its call (`EffectsEndTheWait`),
and a call that was carried out is replayed and not repeated.

### Delegation, persona replies, releases, schema, quota, selection

`ServicesProofs` has one invariant per component, none of which depends on the others:

- `DelegationInv` (`AnswersAreCommitted`, `FamiliesAgree`), for any set of calls: `CallAgrees` says for each
  place of a dispatch what child and parent are then, `OneWaits` that at most one call has its parent
  waiting, `ResumerAgrees` and `RequestAgrees` what a decided request's resumption has left to do.
  `ParentAgrees` names what a waiting parent waits for, the abandoned child included.
- `RepliesInv` (`PersonaIsFaithful`), for any number of replies: `Wording` ties what is drafted, shown and
  queued to words of the owner, `Decided` and `UnderWay` the state of a reply to the Outbox rows it must have
  by then; `wire` names a row that exists.
- `ReleasesInv` (`ServedIsAlwaysReleased`): what has passed the gate of this start is the only active hash
  of its name, for skills from their batch on and for agents once the process serves.
- `SchemaInv` (`MigrationsApplyOnce`), for any number of processes: a history is an interval from 1 on, and
  what a process read outside its transaction is a prefix of what is stored, perhaps an old one. So the
  version it applies is either the next one or there already, and then the key of its row undoes the
  transaction, whatever the upgrade did.
- `QuotaInv` (`BudgetAlwaysKept`), for any limit, estimate and charges and any finite number of runs and
  reservations: the property with the types and with `SettledByOne`, which says that a settled reservation has a run
  that ended with it. That is why a run under way whose reservation is settled is one whose id another run shares.
  The rest is the arithmetic of the sums, from the cardinality of finite sets (`SumGrows`, `SumOfPart`, `SumSame`): a
  new reservation fits into what is left, releasing or settling one only lowers the sum, for nothing is added to the
  cost, and a settled one moves its run's report to the usage.
- `SelectionInv` (`AnswersAlwaysFit`, an action property), for any packages, Skills and words, finitely many of
  them: what a message is served with is read in one step, so the invariant only says that a waiting message
  is one that can be sent. The work is in the ranking. `Best` is a `CHOOSE`, and `BestExists` shows that there
  is something to choose: tuples of whole numbers are ordered (`BelowEither`, `BelowThrough`), no two
  candidates score the same because the name is part of the score, and a smallest set without a best element
  leads to a smaller one. `SpecialistsFirst` then says that the first place of the score decides, and
  `LikingsOnlyRank` that a preference stands behind it.

### Personas, personal skills, task drafts, artifacts, conversation

`AgentWorkProofs` does the same for five components:

- `PersonasInv` (`WithdrawnStaysPaused`), for any posts, memories and revisions. `ChangeIsHeard`: a post that changed while
  its row is in work is one of `lost` or `early`, which is what `Remember`, who looks at nothing but the payload, needs.
  `SourceHolds`: an active memory whose post changed is exempt or about to be revoked (`source`). `RevokedIsAnswered`: a
  revoked memory is in revisions of before only, for a new one takes active memories and never changes, and an active
  revision that has it was renewed, dropped by a crash, or is still to be archived (`unpaused`). `OneStretch`: a
  revocation starts only when the archiving of the one before is over.
- `SkillsInv` (`SkillsStaySound`): one active revision, cited cases are kept, and the count of saved cases
  is a finite one within the quota.
- `DraftsInv` (`DraftsAreAsTold`), for any number of items and deciders: tasks exist only of a claimed
  draft, one for each item's key, and the tasks a decision has made so far are those of the first items. Two
  deciders may both be creating; the key makes their tasks the same.
- `ArtifactsInv` (`ArtifactsAreWhole`): a directory without a row belongs to the commit that is about to
  insert it, or waits for the start that removes it; what is uploaded so far are the files of the first
  artifacts of the message, in order.
- `ConvInv` (`LogMirrorsTheChannel`), for any number of posts, changes, lost connections and crashes:
  `Numbered` says that posts are numbered in the order they were made, `History` what the events of a post say
  of it, `Agrees` that the row of a post whose changes were all followed has its present text, or one that an edit took
  away, and that a post still to be logged has the text of its payload; `Backed` that the window and the summaries speak only of posts that have
  a row or that the property leaves out (`unsettled`, `raced`), and `WorkerAgrees` that the post in hand is one
  under way, and logged before anything is summarised or answered. The
  window after a deletion or a start is a `Subsequence`, so the lemmas about ranks serve here too.

### The composites

`ServicesTypeCorrect` and `AgentWorkTypeCorrect` are about the composed specifications of `MCServices` and
`MCAgentWork`: `Spec => []TypeOK`, which is why the two modules of proofs extend them. A step of the run is a
step of one component and a stutter of the others (`OneServiceMoves`, `OneComponentMoves`), so `ServicesInv` and
`AgentWorkInv` are the conjunctions of the components' invariants with what their types need besides. Most of
that is plain. What is not: a tool is about to be asked for again only below `MaxGates` (`DelegationRest`); what
is on the wire is the one row that is being sent (`RepliesRest`); a served message has a default agent because
the start registered one (`SelectionRest`); while the repository is open a copy lies about only for the
commit that is about to replace it (`CopiesAreOfTheCommit`); the window in memory keeps to its size also after an
edit, a deletion and a start, for the newest k rows are at most k (`NewestAreFew`); active memories are counted
within their limit (`PersonasRest`).

### Assumptions

The theorems use the named `ASSUME`s of the modules and nothing else, but for `SequentialIngress` above.
They say that bounds are numbers, that sets of different things are disjoint, that what is added up or ranked
is finite, that the Skills which packages and personal Skills name are there, that a deployment offers tools, and that "none" is not the
name of a process (`SchemaAssumption`), of a post (`PersonasAssumption`) or of an event: the models write
"none" for nobody. TLC evaluates them on every run.

### Only model-checked

- Liveness: `EveryEventSettles`, `TaskSettlesWithoutCrash`, `CloseTerminates`, `EveryDeliverySettles`,
  `DecidedRunGoesOn`, `WaitingEnds`. Fairness and ENABLED are out of the prover's reach.

## 6. What is not modelled

`PROJECT.json` gives the reason for each part marked `not_modelled` or `partly`. In short:

- Formatting, prompts, adapters to external programs, telemetry, configuration, reports and the
  evaluation harness keep no state the service depends on.
- Which policy rule matches is left open (any verdict), which the properties hold for; the matching itself is
  planned (section 2). Turn leaves the Skill of a turn open too: Selection chooses it.
- Slash commands, streaming and start-up probes of the application; the modes of a persona that ask
  nobody; notes, profiles and the URL cache of the memory, which nothing else depends on.
- LangGraph, SQLite, Mattermost and the model are external and modelled by how the code uses them: a
  node may run again from its start, a transaction is atomic and durable, a request may take effect
  without an answer, an event may be lost with its connection.
- How often a delivery or an event is tried is bounded in Pipeline; the other modules that deliver let a
  row be tried again and again.
