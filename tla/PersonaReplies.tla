--------------------------- MODULE PersonaReplies ---------------------------
(***************************************************************************)
(* A digital person answers in somebody's name only after its owner agreed. *)
(* A question asked in a channel makes a draft, the draft a request, and    *)
(* the request a card in the owner's direct channel; the owner's decision   *)
(* becomes a row of the Outbox that replaces the status post below the      *)
(* question (src/mmag/application/persona_replies.py, control_plane/        *)
(* persona_replies.py, MessagePipeline._settle_persona_reply).              *)
(*                                                                          *)
(* One source event is modelled with the requests its attempts make, which  *)
(* all write to one status post.  Outbox rows go out in any order, because  *)
(* a row that failed waits for its back-off; how often a row is tried is    *)
(* Pipeline's subject.  What is left of a stretch of code without an await  *)
(* is `todo`: nothing interleaves with it, but a crash can drop it.         *)
(***************************************************************************)
EXTENDS Naturals

CONSTANTS
  Reply,           \* the requests there may be: numbers, in the order of their creation
  MaxReplyCrashes  \* bound

ASSUME PersonaRepliesAssumption == Reply \subseteq Nat /\ MaxReplyCrashes \in Nat

VARIABLES
  \* ---- SQLite
  reply,    \* [Reply -> state of persona_reply_requests]
  draft,    \* [Reply -> draft_text: as generated or as the owner edited it]
  signed,   \* [Reply -> decision_by is set]
  card,     \* [Reply -> what is known of the owner's card: nothing, its channel, its post]
  outboxRow,      \* [Reply -> [Kind -> state of the Outbox row]]
  verdict,  \* [Reply -> the text that the row of kind "decision" carries]
  version,  \* the persona's version is active
  \* ---- memory
  asking,   \* where the handler of the source event is
  asked,    \* the request it created
  wire,     \* the delivery under way, and whether Mattermost has carried it out
  todo,     \* what is left of a synchronous stretch
  alive,
  \* ---- the world
  due,      \* [Reply -> expires_at has passed]
  seen,     \* [Reply -> the owner has the card]
  words,    \* [Reply -> the texts the owner agreed to, "refused" if he refused]
  shown,    \* what the status post below the question says
  torn,     \* requests for which a crash dropped a retry or the outcome of a delivery
  replyCrashes

replyRequests == <<reply, draft, signed, card, version>>
outboxRows == <<outboxRow, verdict>>
process == <<asking, asked, wire, todo, alive>>
ownerSide == <<due, seen, words>>
repliesVars == <<replyRequests, outboxRows, process, ownerSide, shown, torn, replyCrashes>>

Kind == {"approval", "waiting", "decision", "expired", "error", "owner"}
ReplyState == {"absent", "pending", "approved", "rejected", "delivered", "failed", "expired"}
Text == {"draft", "edited"}
NoDelivery == [reply |-> 0, kind |-> "none", done |-> FALSE]

\* The event loop is free.
Quiet == alive /\ todo = {}

\* INSERT OR IGNORE by the delivery key, which names request and kind.
Enqueued(rows, q, kinds) ==
  [rows EXCEPT ![q] = [k \in Kind |-> IF k \in kinds /\ @[k] = "none" THEN "pending" ELSE @[k]]]

-----------------------------------------------------------------------------
(* request_approval, the handler of the source event.                      *)

\* resolve_question finds the active version, whose mode asks for its owner's word; then the
\* generator runs, which may answer with an error view and no request.
AskPersona ==
  /\ Quiet /\ asking = "idle" /\ version
  /\ asking' = "draft"
  /\ UNCHANGED <<replyRequests, outboxRows, asked, wire, todo, alive, ownerSide, shown, torn, replyCrashes>>

DraftFails ==
  /\ Quiet /\ asking = "draft"
  /\ asking' = "done"
  /\ UNCHANGED <<replyRequests, outboxRows, asked, wire, todo, alive, ownerSide, shown, torn, replyCrashes>>

\* create(): the request is pending before the owner's channel is known.
CreateReply(q) ==
  /\ Quiet /\ asking = "draft"
  /\ reply[q] = "absent" /\ \A p \in Reply : p < q => reply[p] # "absent"
  /\ reply' = [reply EXCEPT ![q] = "pending"]
  /\ asking' = "channel" /\ asked' = q
  /\ UNCHANGED <<draft, signed, card, version, outboxRows, wire, todo, alive, ownerSide, shown, torn, replyCrashes>>

\* create_direct_channel_async raised: mark_failed, in whatever state the request is now.
ChannelFails ==
  /\ Quiet /\ asking = "channel"
  /\ reply' = [reply EXCEPT ![asked] = "failed"]
  /\ asking' = "error"
  /\ UNCHANGED <<draft, signed, card, version, outboxRows, asked, wire, todo, alive, ownerSide, shown, torn, replyCrashes>>

\* set_approval_target writes to a pending request only; the card is collected in any case.
ChannelOpens ==
  /\ Quiet /\ asking = "channel"
  /\ card' = IF reply[asked] = "pending" THEN [card EXCEPT ![asked] = "channel"] ELSE card
  /\ asking' = "collected"
  /\ UNCHANGED <<reply, draft, signed, version, outboxRows, asked, wire, todo, alive, ownerSide, shown, torn, replyCrashes>>

\* The event is completed: its rows enter the Outbox in one transaction.
CompleteQuestion ==
  /\ Quiet /\ asking \in {"collected", "error"}
  /\ outboxRow' = Enqueued(outboxRow, asked, IF asking = "error" THEN {"error"} ELSE {"approval", "waiting"})
  /\ asking' = "done"
  /\ UNCHANGED <<replyRequests, verdict, asked, wire, todo, alive, ownerSide, shown, torn, replyCrashes>>

-----------------------------------------------------------------------------
(* The owner: by button, by the edit dialog or by a command.               *)

\* pending_reply() and decide() refuse a request that is decided or due, and one of a
\* persona version that is no longer active.
MayDecide(q) == reply[q] = "pending" /\ ~due[q] /\ version

\* The text of the dialog is stored with the decision; the mutant keeps the generated one.
GeneratedText(q, text) == draft[q]
FinalText(q, text) == IF text = "refused" THEN draft[q] ELSE text

DecideReply(q, text) ==
  /\ Quiet /\ seen[q] /\ MayDecide(q)
  /\ reply' = [reply EXCEPT ![q] = IF text = "refused" THEN "rejected" ELSE "approved"]
  /\ draft' = [draft EXCEPT ![q] = FinalText(q, text)]
  /\ signed' = [signed EXCEPT ![q] = TRUE]
  /\ words' = [words EXCEPT ![q] = @ \cup {text}]
  /\ todo' = {<<"decided", q>>} \cup (IF text = "edited" THEN {<<"owner", q>>} ELSE {})
  /\ UNCHANGED <<card, version, outboxRows, asking, asked, wire, alive, due, seen, shown, torn, replyCrashes>>

\* _enqueue_decision: the answer of an approved request, the refusal of any other.
EnqueueDecision(q) ==
  /\ alive /\ <<"decided", q>> \in todo
  /\ outboxRow' = Enqueued(outboxRow, q, {"decision"})
  /\ verdict' = IF outboxRow[q]["decision"] # "none" THEN verdict
                ELSE [verdict EXCEPT ![q] = IF reply[q] = "approved" THEN draft[q] ELSE "refused"]
  /\ todo' = todo \ {<<"decided", q>>}
  /\ UNCHANGED <<replyRequests, asking, asked, wire, alive, ownerSide, shown, torn, replyCrashes>>

\* retry_failed: a reply that failed after somebody decided it, and be it that the owner had
\* refused.
Retry(q) ==
  /\ Quiet /\ seen[q]
  /\ reply[q] = "failed" /\ signed[q]
  /\ reply' = [reply EXCEPT ![q] = "approved"]
  /\ words' = [words EXCEPT ![q] = @ \cup {draft[q]}]
  /\ todo' = {<<"retry", q>>}
  /\ UNCHANGED <<draft, signed, card, version, outboxRows, asking, asked, wire, alive, due, seen, shown, torn, replyCrashes>>

\* _retry_decision: the failed row is queued again with its text, a missing one is written.
\* A mutant only writes, which the key of the failed row prevents.
RewrittenRow(q) == Enqueued(outboxRow, q, {"decision"})
RetriedRow(q) ==
  IF outboxRow[q]["decision"] = "failed" THEN [outboxRow EXCEPT ![q]["decision"] = "pending"]
  ELSE Enqueued(outboxRow, q, {"decision"})

RetryDecision(q) ==
  /\ alive /\ <<"retry", q>> \in todo
  /\ outboxRow' = RetriedRow(q)
  /\ verdict' = IF outboxRow[q]["decision"] = "none" THEN [verdict EXCEPT ![q] = draft[q]] ELSE verdict
  /\ todo' = todo \ {<<"retry", q>>}
  /\ UNCHANGED <<replyRequests, asking, asked, wire, alive, ownerSide, shown, torn, replyCrashes>>

\* The owner archives or replaces the version (PersonalWorkspace).
ArchiveVersion ==
  /\ Quiet /\ version
  /\ version' = FALSE
  /\ UNCHANGED <<reply, draft, signed, card, outboxRows, process, ownerSide, shown, torn, replyCrashes>>

-----------------------------------------------------------------------------
(* Expiry.                                                                 *)

ReplyFallsDue(q) ==
  /\ reply[q] = "pending" /\ ~due[q]
  /\ due' = [due EXCEPT ![q] = TRUE]
  /\ UNCHANGED <<replyRequests, outboxRows, process, seen, words, shown, torn, replyCrashes>>

\* expire_pending: all that are due in one transaction, their notices one by one.
DueReplies == {q \in Reply : reply[q] = "pending" /\ due[q]}
ExpireDue ==
  /\ Quiet /\ DueReplies # {}
  /\ reply' = [q \in Reply |-> IF q \in DueReplies THEN "expired" ELSE reply[q]]
  /\ todo' = {"expired", "owner"} \X DueReplies
  /\ UNCHANGED <<draft, signed, card, version, outboxRows, asking, asked, wire, alive, ownerSide, shown, torn, replyCrashes>>

EnqueueExpired(q) ==
  /\ alive /\ <<"expired", q>> \in todo
  /\ outboxRow' = Enqueued(outboxRow, q, {"expired"})
  /\ todo' = todo \ {<<"expired", q>>}
  /\ UNCHANGED <<replyRequests, verdict, asking, asked, wire, alive, ownerSide, shown, torn, replyCrashes>>

\* _enqueue_owner_update, after an edit or an expiry: the card can only be updated if its
\* post is known.
EnqueueOwnerUpdate(q) ==
  /\ alive /\ <<"owner", q>> \in todo /\ {<<"decided", q>>, <<"expired", q>>} \cap todo = {}
  /\ outboxRow' = IF card[q] = "post" THEN Enqueued(outboxRow, q, {"owner"}) ELSE outboxRow
  /\ todo' = todo \ {<<"owner", q>>}
  /\ UNCHANGED <<replyRequests, verdict, asking, asked, wire, alive, ownerSide, shown, torn, replyCrashes>>

-----------------------------------------------------------------------------
(* The deliverer, and the world behind it.                                 *)

SendRow(q, k) ==
  /\ Quiet /\ wire = NoDelivery /\ outboxRow[q][k] = "pending"
  /\ wire' = [reply |-> q, kind |-> k, done |-> FALSE]
  /\ outboxRow' = [outboxRow EXCEPT ![q][k] = "sending"]
  /\ UNCHANGED <<replyRequests, verdict, asking, asked, todo, alive, ownerSide, shown, torn, replyCrashes>>

\* Mattermost carries it out; a card for an unknown channel it refuses.
Arrives(q, k) ==
  /\ wire = [reply |-> q, kind |-> k, done |-> FALSE]
  /\ k # "approval" \/ card[q] # "none"
  /\ wire' = [wire EXCEPT !.done = TRUE]
  /\ seen' = IF k = "approval" THEN [seen EXCEPT ![q] = TRUE] ELSE seen
  /\ shown' = CASE k \in {"approval", "owner"} -> shown
                [] k = "decision" -> <<q, verdict[q]>>
                [] OTHER -> <<q, k>>
  /\ UNCHANGED <<replyRequests, outboxRows, asking, asked, todo, alive, due, words, torn, replyCrashes>>

\* The answer is success, an error that leaves further attempts, or the last error.
DeliverySettles(q, k, state) ==
  /\ Quiet /\ wire.reply = q /\ wire.kind = k
  /\ state = "delivered" => wire.done
  /\ outboxRow' = [outboxRow EXCEPT ![q][k] = state]
  /\ wire' = NoDelivery
  /\ todo' = IF state = "pending" THEN {} ELSE {<<"settle", q, k, state>>}
  /\ UNCHANGED <<replyRequests, verdict, asking, asked, alive, ownerSide, shown, torn, replyCrashes>>

\* _settle_persona_reply.  The failure of a card fails the request whatever was decided; that
\* of a decision only if the request is approved.
SettledReply(q, k, state) ==
  CASE k = "decision" /\ reply[q] = "approved" -> state
    [] k = "approval" /\ state = "failed" -> "failed"
    [] OTHER -> reply[q]

SettleReply(q, k, state) ==
  /\ alive /\ <<"settle", q, k, state>> \in todo
  /\ reply' = [reply EXCEPT ![q] = SettledReply(q, k, state)]
  /\ card' = IF k = "approval" /\ state = "delivered" /\ reply[q] = "pending"
             THEN [card EXCEPT ![q] = "post"] ELSE card
  /\ todo' = {}
  /\ UNCHANGED <<draft, signed, version, outboxRows, asking, asked, wire, alive, ownerSide, shown, torn, replyCrashes>>

-----------------------------------------------------------------------------
(* Crash and restart.                                                      *)

CrashReplies ==
  /\ alive /\ replyCrashes < MaxReplyCrashes
  /\ alive' = FALSE /\ todo' = {} /\ wire' = NoDelivery
  /\ torn' = torn \cup {q \in Reply : \E t \in todo : t[1] \in {"retry", "settle"} /\ t[2] = q}
  /\ asking' = IF asking = "done" THEN "done" ELSE "idle"
  /\ replyCrashes' = replyCrashes + 1
  /\ UNCHANGED <<replyRequests, outboxRows, asked, ownerSide, shown>>

\* start(): what the owner approved is enqueued again, rows caught in flight are queued.  A
\* mutant takes up every open request.
OpenReplies == {q \in Reply : reply[q] \in {"pending", "approved"}}
ApprovedReplies == {q \in Reply : reply[q] = "approved"}

RestartReplies ==
  /\ ~alive
  /\ alive' = TRUE
  /\ outboxRow' = [q \in Reply |-> [k \in Kind |-> IF outboxRow[q][k] = "sending" THEN "pending" ELSE outboxRow[q][k]]]
  /\ todo' = {<<"decided", q>> : q \in ApprovedReplies}
  /\ UNCHANGED <<replyRequests, verdict, asking, asked, wire, ownerSide, shown, torn, replyCrashes>>

-----------------------------------------------------------------------------
RepliesInit ==
  /\ reply = [q \in Reply |-> "absent"] /\ draft = [q \in Reply |-> "draft"]
  /\ signed = [q \in Reply |-> FALSE] /\ card = [q \in Reply |-> "none"] /\ version = TRUE
  /\ outboxRow = [q \in Reply |-> [k \in Kind |-> "none"]] /\ verdict = [q \in Reply |-> "none"]
  /\ asking = "idle" /\ asked = 0 /\ wire = NoDelivery /\ todo = {} /\ alive = TRUE
  /\ due = [q \in Reply |-> FALSE] /\ seen = [q \in Reply |-> FALSE]
  /\ words = [q \in Reply |-> {}] /\ shown = <<0, "status">> /\ torn = {} /\ replyCrashes = 0

RepliesNext ==
  \/ AskPersona \/ DraftFails \/ ChannelFails \/ ChannelOpens \/ CompleteQuestion
  \/ ArchiveVersion \/ ExpireDue \/ CrashReplies \/ RestartReplies
  \/ \E q \in Reply :
       \/ CreateReply(q) \/ EnqueueDecision(q) \/ Retry(q) \/ RetryDecision(q)
       \/ ReplyFallsDue(q) \/ EnqueueExpired(q) \/ EnqueueOwnerUpdate(q)
       \/ \E text \in Text \cup {"refused"} : DecideReply(q, text)
       \/ \E k \in Kind :
            \/ SendRow(q, k) \/ Arrives(q, k)
            \/ \E state \in {"delivered", "pending", "failed"} :
                 DeliverySettles(q, k, state) \/ SettleReply(q, k, state)

RepliesSpec == RepliesInit /\ [][RepliesNext]_repliesVars

-----------------------------------------------------------------------------
RepliesTypeOK ==
  /\ reply \in [Reply -> ReplyState] /\ draft \in [Reply -> Text]
  /\ signed \in [Reply -> BOOLEAN] /\ card \in [Reply -> {"none", "channel", "post"}]
  /\ outboxRow \in [Reply -> [Kind -> {"none", "pending", "sending", "delivered", "failed"}]]
  /\ verdict \in [Reply -> Text \cup {"none", "refused"}]
  /\ asking \in {"idle", "draft", "channel", "collected", "error", "done"}
  /\ asked \in Reply \cup {0}
  /\ \A q \in Reply, k \in Kind : outboxRow[q][k] = "sending" /\ alive => wire.reply = q /\ wire.kind = k

\* What the status post says in the persona's name is what the owner agreed to, in his
\* wording, by a decision or by asking for a retry; and it speaks of a refusal only if he
\* refused.  Between his word and the post lie the stored text, an Outbox row that is written
\* once, recovery after a restart and retries by hand (persona_replies.py).
OnlyOwnersWords ==
  shown[2] \in Text \cup {"refused"} => shown[2] \in words[shown[1]]

\* An approved reply is on its way or has arrived.  Arrived and still approved it is when the
\* owner retries what the late failure of his card had failed; the exception is a crash
\* between a row's outcome, or a retry, and what it does to the other of the two, which
\* start() does not repair because the row exists.
ApprovedIsOnItsWay ==
  \A q \in Reply :
    Quiet /\ reply[q] = "approved" /\ q \notin torn =>
      outboxRow[q]["decision"] \in {"pending", "sending", "delivered"}

\* What a persona says is its owner's word, and his word is not lost: the two above.
PersonaSpeaksForItsOwner == OnlyOwnersWords /\ ApprovedIsOnItsWay
=============================================================================
