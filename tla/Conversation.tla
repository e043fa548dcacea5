---------------------------- MODULE Conversation ----------------------------
(***************************************************************************)
(* What the bot keeps of one Mattermost channel: the message log and its    *)
(* full-text index (src/mmag/memory.py), the summaries                      *)
(* (memory_compactor.py) and the messages in memory that the model's        *)
(* context is built from (application/message_handler.py, context.py).      *)
(*                                                                         *)
(* Three ways lead there and none waits for another.  A new post goes       *)
(* through the Inbox and is logged when a worker gets to it, an edit or a   *)
(* deletion is applied at once by the WebSocket's reader, and a restart     *)
(* reads the newer posts from the server.  A summary is written from rows   *)
(* that were read before the model was asked for it.                        *)
(***************************************************************************)
EXTENDS Naturals, Sequences, FiniteSets, FiniteSetsExt, SequencesExt, Subsequences

CONSTANTS
  MaxPosts,         \* bound: posts of the channel, numbered by create_at
  MaxChanges,       \* bound: edits and deletions by the users
  MaxConvFaults,    \* bound: connections lost, events whose handler raised, and crashes
  SummaryInterval,  \* memory_summary_interval
  RecentSize        \* max_context_messages

ASSUME ConversationAssumption ==
  /\ {MaxPosts, MaxChanges, MaxConvFaults} \subseteq Nat
  /\ {SummaryInterval, RecentSize} \subseteq Nat \ {0}

VARIABLES
  channel,   \* [post -> its text on the server: "none" before it is made, "bare" if it has
             \*  files only, "gone" when deleted]
  payload,   \* [post -> the text it was posted with, in its event and its Inbox row]
  ours,      \* the posts the bot made
  events,    \* what the server has sent, in the order of its sequence numbers
  link,      \* the WebSocket: up, the events heard, whether its connection_id is known
  inbox,     \* [post -> status of its Inbox row]
  work,      \* the worker of the conversation: its post, its step, the rows it summarises
  rows,      \* message_log: [post -> text, "none" if there is no row]
  index,     \* message_log_fts by its map, the same way
  segments,  \* conversation_segments: the posts a summary was made from, and its status
  recent,    \* working_memory: a sequence of posts with their texts
  counted,   \* _msg_counter of the channel
  owed,      \* answers in the Outbox that are not posted yet
  running,   \* whether the bot's process is there
  unsettled, \* history: posts changed unheard, or before they had been worked at
  raced,     \* history: posts deleted while a summary of them was being written
  faults     \* how many of them there were so far

convVars == <<channel, payload, ours, events, link, inbox, work, rows, index, segments, recent,
              counted, owed, running, unsettled, raced, faults>>

AnyPost == 1..MaxPosts
Idle == [post |-> 0, step |-> "idle", batch |-> {}]
Made == {p \in AnyPost : channel[p] # "none"}
Event(t, p, text) == [type |-> t, post |-> p, text |-> text]
Changes == Cardinality({i \in DOMAIN events : events[i].type # "posted"})
Logged == {p \in AnyPost : rows[p] # "none"}
\* The newest k rows of a set, or all of it.
Newest(S, k) == {p \in S : Cardinality({q \in S : q > p}) < k}

\* The texts that the model is given of the channel, ContextBuilder.build(): those of the window in
\* memory and the newest active summary, for which any active one stands here.
ActiveSummaries == {i \in DOMAIN segments : segments[i].status = "active"}
Given == [window |-> {recent[i].post : i \in {j \in DOMAIN recent : recent[j].text # "bare"}},
          summarised |-> UNION {segments[i].of : i \in ActiveSummaries}]

\* search_messages(): by words, through the index and its join with the rows; or by the rows.
Indexed(text) == {p \in AnyPost : index[p] = text /\ rows[p] # "none"}
Searched(text) == {p \in AnyPost : rows[p] = text}

-----------------------------------------------------------------------------
(* The server and its users.                                               *)

NewPost(p, text) ==
  /\ p = Cardinality(Made) + 1
  /\ p <= MaxPosts
  /\ channel' = [channel EXCEPT ![p] = text]
  /\ payload' = [payload EXCEPT ![p] = text]
  /\ events' = Append(events, Event("posted", p, text))

UserPosts ==
  /\ \E p \in AnyPost, text \in {"old", "bare"} : NewPost(p, text)
  /\ UNCHANGED <<ours, link, inbox, work, rows, index, segments, recent, counted, owed,
                 running, unsettled, raced, faults>>

UserChanges(p, text) ==
  /\ p \notin ours /\ channel[p] \in {"old", "new", "bare"}
  /\ text \in {"new", "bare", "gone"} \ {channel[p]}
  /\ Changes < MaxChanges
  /\ channel' = [channel EXCEPT ![p] = text]
  /\ events' = Append(events, Event(IF text = "gone" THEN "deleted" ELSE "edited", p, text))
  /\ UNCHANGED <<payload, ours, link, inbox, work, rows, index, segments, recent, counted, owed,
                 running, unsettled, raced, faults>>

-----------------------------------------------------------------------------
(* The connection.  _build_url() names the connection and the next sequence *)
(* number; the server goes on from there, or opens a new connection and     *)
(* what was sent in between is not heard.                                   *)

Unheard == {events[i].post : i \in {j \in DOMAIN events :
                                      j > link.heard /\ events[j].type # "posted"}}

Connect(resumed) ==
  /\ running /\ ~link.up
  /\ resumed => link.known
  /\ link' = [up |-> TRUE, known |-> TRUE, heard |-> IF resumed THEN link.heard ELSE Len(events)]
  /\ unsettled' = IF resumed THEN unsettled ELSE unsettled \cup Unheard
  /\ UNCHANGED <<channel, payload, ours, events, inbox, work, rows, index, segments, recent, counted,
                 owed, running, raced, faults>>

Disconnect ==
  /\ link.up /\ faults < MaxConvFaults
  /\ link' = [link EXCEPT !.up = FALSE]
  /\ faults' = faults + 1
  /\ UNCHANGED <<channel, payload, ours, events, inbox, work, rows, index, segments, recent, counted,
                 owed, running, unsettled, raced>>

\* _dispatch(): the sequence number is counted before the handler is awaited, and the handler's
\* exception ends the session: the next one asks for what comes after the event.
NextEvent == events[link.heard + 1]
Hears == link.up /\ link.heard < Len(events)

HearRaises ==
  /\ Hears /\ NextEvent.type = "posted" /\ faults < MaxConvFaults
  /\ link' = [link EXCEPT !.up = FALSE, !.heard = @ + 1]
  /\ faults' = faults + 1
  /\ UNCHANGED <<channel, payload, ours, events, inbox, work, rows, index, segments, recent, counted,
                 owed, running, unsettled, raced>>

\* on_posted(): MessagePipeline.accept() makes the row, or finds that it was made before.
HearPosted ==
  /\ Hears /\ NextEvent.type = "posted"
  /\ link' = [link EXCEPT !.heard = @ + 1]
  /\ inbox' = [inbox EXCEPT ![NextEvent.post] = IF @ = "none" THEN "accepted" ELSE @]
  /\ UNCHANGED <<channel, payload, ours, events, work, rows, index, segments, recent, counted, owed,
                 running, unsettled, raced, faults>>

\* Whether the worker has still to log the post from the payload of its Inbox row.
Waiting(p) == inbox[p] \in {"accepted", "running"}

\* on_post_edited(): the row and its entry of the index change together; the first copy of the
\* message in memory is changed as well.  Without a row nothing is, nor if the edit leaves no
\* text (a post of 50000 characters, which update_message refuses too, Mattermost does not take).
FirstOf(s, p) == SelectInSeq(s, LAMBDA m : m.post = p)

HearEdited ==
  /\ Hears /\ NextEvent.type = "edited"
  /\ link' = [link EXCEPT !.heard = @ + 1]
  /\ LET p == NextEvent.post
         text == NextEvent.text
     IN
     IF text = "bare" \/ rows[p] = "none"
     THEN /\ unsettled' = IF Waiting(p) /\ rows[p] = "none" THEN unsettled \cup {p} ELSE unsettled
          /\ UNCHANGED <<rows, index, recent>>
     ELSE /\ rows' = [rows EXCEPT ![p] = text]
          /\ index' = [index EXCEPT ![p] = text]
          /\ recent' = IF FirstOf(recent, p) = 0 THEN recent
                       ELSE [recent EXCEPT ![FirstOf(recent, p)].text = text]
          /\ UNCHANGED unsettled
  /\ UNCHANGED <<channel, payload, ours, events, inbox, work, segments, counted, owed, running,
                 raced, faults>>

\* delete_message(): row, index and the status of the channel's summaries, in one transaction.
\* A mutant: the summaries stay as they are.
NotInvalidated == segments
Invalidated == [i \in DOMAIN segments |-> [segments[i] EXCEPT !.status = "stale"]]

\* on_post_deleted(): every copy in memory goes too.  Without a row nothing is done.
HearDeleted ==
  /\ Hears /\ NextEvent.type = "deleted"
  /\ link' = [link EXCEPT !.heard = @ + 1]
  /\ LET p == NextEvent.post IN
     /\ unsettled' = IF Waiting(p) THEN unsettled \cup {p} ELSE unsettled
     /\ raced' = IF p \in work.batch THEN raced \cup {p} ELSE raced
     /\ IF rows[p] = "none" THEN UNCHANGED <<rows, index, segments, recent>>
        ELSE /\ rows' = [rows EXCEPT ![p] = "none"]
             /\ index' = [index EXCEPT ![p] = "none"]
             /\ segments' = Invalidated
             /\ recent' = Subsequence(recent, {i \in DOMAIN recent : recent[i].post # p})
  /\ UNCHANGED <<channel, payload, ours, events, inbox, work, counted, owed, running, faults>>

-----------------------------------------------------------------------------
(* The worker of the conversation.                                         *)

\* process_posted_event(): the bot's own posts are not accepted and end at once.  The others
\* wait for the acknowledgement, the scope and the attachments.
StartPost(p) ==
  /\ running /\ work = Idle
  /\ p = Min({q \in AnyPost : inbox[q] = "accepted"} \cup {MaxPosts + 1})
  /\ inbox' = [inbox EXCEPT ![p] = IF p \in ours THEN "done" ELSE "running"]
  /\ work' = IF p \in ours THEN Idle ELSE [post |-> p, step |-> "started", batch |-> {}]
  /\ UNCHANGED <<channel, payload, ours, events, link, rows, index, segments, recent, counted, owed,
                 running, unsettled, raced, faults>>

\* log_message(): a post without text has no row, a row that is there stays as it is.
\* A mutant: INSERT OR REPLACE.
Overwritten(p, text) == [rows EXCEPT ![p] = IF text # "bare" THEN text ELSE @]
Written(p, text) == [rows EXCEPT ![p] = IF @ = "none" /\ text # "bare" THEN text ELSE @]

\* The window in memory is cut to its size.
\* A mutant: it grows.
RememberedAll(p) == Append(recent, [post |-> p, text |-> payload[p]])
Remembered(p) == LET s == Append(recent, [post |-> p, text |-> payload[p]])
                 IN  SubSeq(s, 1 + Max({0, Len(s) - RecentSize}), Len(s))

\* log_message() with the text of the payload, then maybe_compact(), for a message without text
\* too: each SummaryInterval-th takes the newest rows and waits for the model.
LogPost ==
  /\ work.step = "started"
  /\ rows' = Written(work.post, payload[work.post])
  /\ index' = [index EXCEPT ![work.post] = rows'[work.post]]
  /\ counted' = counted + 1
  /\ IF counted' % SummaryInterval = 0
     THEN /\ work' = [work EXCEPT !.step = "summarises",
                        !.batch = Newest({p \in AnyPost : rows'[p] # "none"}, SummaryInterval)]
          /\ UNCHANGED recent
     ELSE /\ work' = [work EXCEPT !.step = "answers"]
          /\ recent' = Remembered(work.post)
  /\ UNCHANGED <<channel, payload, ours, events, link, inbox, segments, owed, running, unsettled,
                 raced, faults>>

\* _periodic_summary() after the model has answered: the segment, and a post of the bot's that
\* shows it.  A failed call gives no summary, a failed post only a line of the log.
SummaryWritten ==
  /\ work.step = "summarises"
  /\ segments' = Append(segments, [of |-> work.batch, status |-> "active"])
  /\ \/ /\ \E p \in AnyPost : NewPost(p, "old") /\ ours' = ours \cup {p}
     \/ UNCHANGED <<channel, payload, events, ours>>
  /\ work' = [work EXCEPT !.step = "answers", !.batch = {}]
  /\ recent' = Remembered(work.post)
  /\ UNCHANGED <<link, inbox, rows, index, counted, owed, running, unsettled, raced, faults>>

SummaryFails ==
  /\ work.step = "summarises"
  /\ work' = [work EXCEPT !.step = "answers", !.batch = {}]
  /\ recent' = Remembered(work.post)
  /\ UNCHANGED <<channel, payload, ours, events, link, inbox, rows, index, segments, counted, owed,
                 running, unsettled, raced, faults>>

\* The run of the agent ends and complete_event() hands its answer to the Outbox, or there is
\* no answer to this message.
AnswerPost ==
  /\ work.step = "answers"
  /\ work' = Idle
  /\ inbox' = [inbox EXCEPT ![work.post] = "done"]
  /\ owed' \in {owed, owed + 1}
  /\ UNCHANGED <<channel, payload, ours, events, link, rows, index, segments, recent, counted, running,
                 unsettled, raced, faults>>

\* MattermostDelivery.deliver() posts the answer and logs it as its own.
DeliverAnswer ==
  /\ running /\ owed > 0
  /\ \E p \in AnyPost :
       /\ NewPost(p, "old")
       /\ ours' = ours \cup {p}
       /\ rows' = Written(p, "old")
       /\ index' = [index EXCEPT ![p] = rows'[p]]
  /\ owed' = owed - 1
  /\ UNCHANGED <<link, inbox, work, segments, recent, counted, running, unsettled, raced,
                 faults>>

-----------------------------------------------------------------------------
(* Crash and restart.                                                      *)

CrashBot ==
  /\ running /\ faults < MaxConvFaults
  /\ running' = FALSE
  /\ link' = [up |-> FALSE, known |-> FALSE, heard |-> link.heard]
  /\ work' = Idle /\ recent' = <<>> /\ counted' = 0
  /\ faults' = faults + 1
  /\ UNCHANGED <<channel, payload, ours, events, inbox, rows, index, segments, owed, unsettled,
                 raced>>

\* backfill_channel(): what the server has that is newer than the newest row, with its text
\* of today.
Backfilled ==
  [p \in AnyPost |-> IF rows[p] = "none" /\ p > Max(Logged \cup {0})
                        /\ channel[p] \in {"old", "new"}
                     THEN channel[p] ELSE rows[p]]

\* Agent.run(): _preload_channels(), then the pipeline takes up what it had not finished.
RestartBot ==
  /\ ~running
  /\ running' = TRUE
  /\ rows' = Backfilled
  /\ index' = [p \in AnyPost |-> IF rows[p] = "none" THEN rows'[p] ELSE index[p]]
  /\ LET kept == Subsequence([p \in AnyPost |-> p], Newest({p \in AnyPost : rows'[p] # "none"}, RecentSize))
     IN  recent' = [i \in DOMAIN kept |-> [post |-> kept[i], text |-> rows'[kept[i]]]]
  /\ inbox' = [p \in AnyPost |-> IF inbox[p] = "running" THEN "accepted" ELSE inbox[p]]
  /\ UNCHANGED <<channel, payload, ours, events, link, work, segments, counted, owed, unsettled,
                 raced, faults>>

-----------------------------------------------------------------------------

ConvInit ==
  /\ channel = [p \in AnyPost |-> "none"] /\ payload = channel /\ ours = {} /\ events = <<>>
  /\ link = [up |-> FALSE, known |-> FALSE, heard |-> 0]
  /\ inbox = [p \in AnyPost |-> "none"] /\ work = Idle
  /\ rows = [p \in AnyPost |-> "none"] /\ index = rows
  /\ segments = <<>> /\ recent = <<>> /\ counted = 0 /\ owed = 0 /\ running = TRUE
  /\ unsettled = {} /\ raced = {}
  /\ faults = 0

ConvNext ==
  \/ UserPosts
  \/ \E p \in AnyPost, text \in {"new", "bare", "gone"} : UserChanges(p, text)
  \/ \E resumed \in BOOLEAN : Connect(resumed)
  \/ Disconnect \/ HearRaises \/ HearPosted \/ HearEdited \/ HearDeleted
  \/ \E p \in AnyPost : StartPost(p)
  \/ LogPost \/ SummaryWritten \/ SummaryFails \/ AnswerPost \/ DeliverAnswer
  \/ CrashBot \/ RestartBot

ConvSpec == ConvInit /\ [][ConvNext]_convVars

-----------------------------------------------------------------------------
(* Properties.                                                             *)

ConvTypeOK ==
  /\ channel \in [AnyPost -> {"none", "old", "new", "bare", "gone"}]
  /\ payload \in [AnyPost -> {"none", "old", "bare"}]
  /\ link \in [up : BOOLEAN, known : BOOLEAN, heard : 0..Len(events)]
  /\ inbox \in [AnyPost -> {"none", "accepted", "running", "done"}]
  /\ rows \in [AnyPost -> {"none", "old", "new"}]
  /\ work.step \in {"idle", "started", "summarises", "answers"}
  /\ Len(recent) <= RecentSize
  /\ unsettled \cup raced \cup ours \subseteq AnyPost

\* The log, its index, the summaries and the messages in memory agree with the channel, for
\* every post whose changes the bot has heard, and heard after it had worked at the post: a
\* search finds it, by its text of today only, and of a deleted post nothing is found, nor is a
\* text of it given to the model from memory or from a summary (memory.py, message_handler.py
\* on_post_edited, on_post_deleted).  Left out are, with their posts, the changes lost with a
\* connection, those that come while the Inbox row still waits for its worker, and a deletion
\* during the summary of the post: there the code keeps what was deleted.  So it does with two
\* posts without text: one whose text was taken away keeps its row, and one that never had any
\* stays in memory, with its files, when it is deleted.
LogMirrorsChannel ==
  \A p \in AnyPost \ (unsettled \cup Unheard) :
    /\ \A text \in {"old", "new"} :
         /\ p \in Searched(text) => p \in Indexed(text)
         /\ p \in Indexed(text) \cup Searched(text) => channel[p] \in {text, "bare"}
    /\ channel[p] = "gone" => p \notin Given.window /\ (p \notin raced => p \notin Given.summarised)
=============================================================================
