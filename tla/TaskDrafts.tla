----------------------------- MODULE TaskDrafts -----------------------------
(***************************************************************************)
(* Action items of a meeting report become a draft, and the draft's         *)
(* requester turns it into tasks, or drops it, by a button or by a command  *)
(* (src/mmag/application/task_drafts.py, control_plane/task_drafts.py).     *)
(* Decisions overlap: a button and a command, two clicks, a repetition      *)
(* after a failure or a restart.  What keeps the tasks single is the        *)
(* execution key of an item, not the state of the draft: a draft that is    *)
(* being committed may be confirmed again.                                  *)
(*                                                                          *)
(* A decision is a coroutine; it may stop where the code awaits.  One       *)
(* button is one token, used once; of the tokens that the attempts of a run *)
(* issue, only the last attempt's are ever shown.                           *)
(***************************************************************************)
EXTENDS Naturals, Sequences

CONSTANTS
  ItemCount,       \* action items with a verified source
  Decider,         \* decision coroutines, each used once
  MaxDraftCrashes  \* bound

ASSUME TaskDraftsAssumption ==
  ItemCount \in Nat \ {0} /\ MaxDraftCrashes \in Nat

VARIABLES
  draftState,   \* task_drafts.state, "absent" before the first attempt
  draftTasks,   \* task_drafts.task_ids
  taskRows,     \* the tasks, in the order of their creation; a task's id is its place
  candidate,    \* items with exactly one person that fits in the channel's directory
  member,       \* that person is a member of the channel
  button,       \* [Button -> state of the token behind it]
  posted,       \* the report is in the channel
  decision,     \* [Decider -> where it is, what it wants and what its user was told]
  draftCrashes

draftVars == <<draftState, draftTasks, taskRows, candidate, member, button, posted,
               decision, draftCrashes>>

Item == 1..ItemCount
Button == {"commit", "reject"}
NotStarted == [at |-> "idle", by |-> "none", commits |-> FALSE, assigned |-> FALSE,
               made |-> <<>>, told |-> "nothing"]

\* The tasks that carry the key of item i; get_by_execution_key.
TasksOf(i) == {t \in DOMAIN taskRows : taskRows[t].item = i}

\* What the callback or the reply says; a callback that timed out has said something else.
Told(d, text) == [decision EXCEPT ![d].at = "done", ![d].told = IF @ = "nothing" THEN text ELSE @]

-----------------------------------------------------------------------------
(* The draft and its buttons.                                              *)

\* _scope_members, _match_person: the items that exactly one member of the channel fits, by
\* any of his names; none if the directory cannot be read.
Matches == SUBSET Item

\* attach(): the members are read, the items are matched with them, the draft is inserted
\* unless an earlier attempt of the run did so.
Attach ==
  /\ ~posted
  /\ IF draftState = "absent"
     THEN /\ draftState' = "draft"
          /\ \E sure \in Matches : candidate' = sure
     ELSE UNCHANGED <<draftState, candidate>>
  /\ button' = [b \in Button |-> "open"]
  /\ UNCHANGED <<draftTasks, taskRows, member, posted, decision, draftCrashes>>

PostReport ==
  /\ draftState # "absent" /\ ~posted
  /\ posted' = TRUE
  /\ UNCHANGED <<draftState, draftTasks, taskRows, candidate, member, button, decision, draftCrashes>>

ButtonExpires(b) ==
  /\ posted /\ button[b] = "open"
  /\ button' = [button EXCEPT ![b] = "expired"]
  /\ UNCHANGED <<draftState, draftTasks, taskRows, candidate, member, posted, decision, draftCrashes>>

MemberChanges ==
  /\ draftState \in {"draft", "committing"}
  /\ member' = ~member
  /\ UNCHANGED <<draftState, draftTasks, taskRows, candidate, button, posted, decision, draftCrashes>>

-----------------------------------------------------------------------------
(* The start of a decision.                                                *)

\* decide() up to its first await.
Opened(d, b) ==
  LET commits == b = "commit"
      start == [NotStarted EXCEPT !.commits = commits, !.by = decision[d].by, !.told = decision[d].told]
      over(text) == [start EXCEPT !.at = "done", !.told = IF @ = "nothing" THEN text ELSE @]
  IN [decision EXCEPT ![d] =
        CASE commits /\ draftState = "committed" -> over("committed")
          [] ~commits /\ draftState = "rejected" -> over("rejected")
          [] OTHER -> [start EXCEPT !.at = "guard"]]

\* "确认任务草案 <id>" by the requester.
Command(d, b) ==
  /\ posted /\ decision[d].at = "idle"
  /\ decision' = Opened(d, b)
  /\ UNCHANGED <<draftState, draftTasks, taskRows, candidate, member, button, posted, draftCrashes>>

\* verify() looks at signature and expiry only; then the post is loaded.
Click(d, b, who) ==
  /\ posted /\ decision[d].at = "idle" /\ button[b] \in {"open", "used"}
  /\ decision' = [decision EXCEPT ![d] = [NotStarted EXCEPT !.at = "loading", !.by = who, !.commits = (b = "commit")]]
  /\ UNCHANGED <<draftState, draftTasks, taskRows, candidate, member, button, posted, draftCrashes>>

\* consume() comes before decide() asks who clicked: a member who is not the requester uses
\* the token up.
Consume(d) ==
  LET b == IF decision[d].commits THEN "commit" ELSE "reject" IN
  /\ decision[d].at = "loading"
  /\ button' = IF button[b] = "open" THEN [button EXCEPT ![b] = "used"] ELSE button
  /\ decision' = IF button[b] = "open" /\ decision[d].by = "requester"
                 THEN Opened(d, b) ELSE Told(d, "unfinished")
  /\ UNCHANGED <<draftState, draftTasks, taskRows, candidate, member, posted, draftCrashes>>

\* future.result(timeout=20) raised in the callback's thread: the coroutine goes on.
CallbackTimesOut(d) ==
  /\ decision[d].by # "none" /\ decision[d].at \notin {"idle", "done"} /\ decision[d].told = "nothing"
  /\ decision' = [decision EXCEPT ![d].told = "unfinished"]
  /\ UNCHANGED <<draftState, draftTasks, taskRows, candidate, member, button, posted, draftCrashes>>

-----------------------------------------------------------------------------
(* The decision.                                                           *)

\* An await raised: the post, the access guard, the capability.  A draft that was claimed
\* stays claimed.
Raises(d) ==
  /\ decision[d].at \in {"loading", "guard", "assignee", "create"}
  /\ decision' = Told(d, "unfinished")
  /\ UNCHANGED <<draftState, draftTasks, taskRows, candidate, member, button, posted, draftCrashes>>

\* reject().  A mutant drops the check of the state.
RejectableAlways == draftState # "absent"
Rejectable == draftState \in {"draft", "rejected"}

RejectDraft(d) ==
  /\ decision[d].at = "guard" /\ ~decision[d].commits
  /\ draftState' = IF Rejectable THEN "rejected" ELSE draftState
  /\ decision' = Told(d, IF Rejectable THEN "rejected" ELSE "unfinished")
  /\ UNCHANGED <<draftTasks, taskRows, candidate, member, button, posted, draftCrashes>>

\* claim_commit().
ClaimCommit(d) ==
  /\ decision[d].at = "guard" /\ decision[d].commits
  /\ draftState' = IF draftState = "draft" THEN "committing" ELSE draftState
  /\ decision' = CASE draftState = "committed" -> Told(d, "committed")
                   [] draftState = "rejected" -> Told(d, "unfinished")
                   [] OTHER -> [decision EXCEPT ![d].at = "assignee"]
  /\ UNCHANGED <<draftTasks, taskRows, candidate, member, button, posted, draftCrashes>>

\* _authorized_assignee for the next item.
CheckAssignee(d) ==
  /\ decision[d].at = "assignee"
  /\ decision' = [decision EXCEPT ![d].at = "create",
                                  ![d].assigned = Len(decision[d].made) + 1 \in candidate /\ member]
  /\ UNCHANGED <<draftState, draftTasks, taskRows, candidate, member, button, posted, draftCrashes>>

\* TaskRepository.create: the task with the item's key, if there is one.  A mutant makes a
\* task in any case.
NoTask(i) == {}
ExistingTask(i) == TasksOf(i)

\* create_task asks for the assignee once more, and refuses one who left.
CreateTask(d) ==
  LET i == Len(decision[d].made) + 1
      refused == decision[d].assigned /\ ~member
      id == IF ExistingTask(i) = {} THEN Len(taskRows) + 1 ELSE CHOOSE t \in ExistingTask(i) : TRUE
  IN
  /\ decision[d].at = "create"
  /\ taskRows' = IF refused \/ ExistingTask(i) # {} THEN taskRows
                 ELSE Append(taskRows, [item |-> i, assigned |-> decision[d].assigned])
  /\ decision' = IF refused THEN Told(d, "unfinished")
                 ELSE [decision EXCEPT ![d].made = Append(@, id),
                                       ![d].at = IF i = ItemCount THEN "complete" ELSE "assignee"]
  /\ UNCHANGED <<draftState, draftTasks, candidate, member, button, posted, draftCrashes>>

\* complete(): the second of two confirmations finds the draft committed.
CompleteDraft(d) ==
  /\ decision[d].at = "complete"
  /\ IF draftState = "committing"
     THEN draftState' = "committed" /\ draftTasks' = decision[d].made
     ELSE UNCHANGED <<draftState, draftTasks>>
  /\ decision' = Told(d, IF draftState \in {"committing", "committed"} THEN "committed" ELSE "unfinished")
  /\ UNCHANGED <<taskRows, candidate, member, button, posted, draftCrashes>>

CrashDrafts ==
  /\ draftCrashes < MaxDraftCrashes
  /\ draftCrashes' = draftCrashes + 1
  /\ decision' = [d \in Decider |-> IF decision[d].at = "idle" THEN NotStarted
                                    ELSE [decision[d] EXCEPT !.at = "done"]]
  /\ UNCHANGED <<draftState, draftTasks, taskRows, candidate, member, button, posted>>

-----------------------------------------------------------------------------
DraftsInit ==
  /\ draftState = "absent" /\ draftTasks = <<>> /\ taskRows = <<>> /\ candidate = {} /\ member = TRUE
  /\ button = [b \in Button |-> "none"] /\ posted = FALSE
  /\ decision = [d \in Decider |-> NotStarted] /\ draftCrashes = 0

DraftsNext ==
  \/ Attach \/ PostReport \/ MemberChanges \/ CrashDrafts
  \/ \E b \in Button : ButtonExpires(b)
  \/ \E d \in Decider :
       \/ Consume(d) \/ CallbackTimesOut(d) \/ Raises(d) \/ RejectDraft(d) \/ ClaimCommit(d)
       \/ CheckAssignee(d) \/ CreateTask(d) \/ CompleteDraft(d)
       \/ \E b \in Button : Command(d, b) \/ \E who \in {"requester", "other"} : Click(d, b, who)

DraftsSpec == DraftsInit /\ [][DraftsNext]_draftVars

-----------------------------------------------------------------------------
DraftsTypeOK ==
  /\ draftState \in {"absent", "draft", "committing", "committed", "rejected"}
  /\ draftTasks \in Seq(Nat) /\ taskRows \in Seq([item : Item, assigned : BOOLEAN])
  /\ candidate \subseteq Item
  /\ button \in [Button -> {"none", "open", "used", "expired"}]
  /\ \A d \in Decider :
       /\ decision[d].at \in {"idle", "loading", "guard", "assignee", "create", "complete", "done"}
       /\ decision[d].told \in {"nothing", "unfinished", "committed", "rejected"}

\* An action item becomes one task, however often and by whatever overlapping confirmations
\* its draft is committed; a draft that was rejected has made none, then or later; a
\* committed one names the task of each item in the items' order (decide, claim_commit,
\* complete, TaskRepository.create).
OneTaskPerItem ==
  /\ \A s, t \in DOMAIN taskRows : taskRows[s].item = taskRows[t].item => s = t
  /\ draftState = "rejected" => taskRows = <<>>
  /\ draftState = "committed" =>
       Len(draftTasks) = ItemCount /\ \A i \in Item : taskRows[draftTasks[i]].item = i

\* Whoever was told that the draft was dropped, or that its tasks were created, can rely on
\* it: the answers of overlapping decisions never contradict each other.
DraftAnswersHold ==
  \A d \in Decider : decision[d].told \in {"committed", "rejected"} => draftState = decision[d].told

\* A draft does what it says, once: the two above.
DraftsKeepTheirWord == OneTaskPerItem /\ DraftAnswersHold
=============================================================================
