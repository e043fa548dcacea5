------------------------------ MODULE Personas ------------------------------
(***************************************************************************)
(* What one user lets MMAG remember, and the digital person made of it      *)
(* (src/mmag/control_plane/memory_items.py, personas.py, application/       *)
(* persona_ui.py).  A memory is made from a post and holds a fact; a        *)
(* revision of the persona is a snapshot of memories that the owner         *)
(* authorised, is never changed, and answers others while it is active.     *)
(*                                                                          *)
(* The worker of the owner's conversation logs a post and makes the memory  *)
(* of it in two steps, for it awaits the summaries in between, and handles  *)
(* the post again when it fails or crashes.  An edit or a deletion is       *)
(* applied by the WebSocket's reader at any time.  The methods themselves   *)
(* are synchronous; a crash may come between their commits, which is what   *)
(* `unpaused` and `source` remember of a stretch that is not finished.      *)
(***************************************************************************)
EXTENDS Naturals, FiniteSets

CONSTANTS
  Post,          \* the owner's posts, one for each thing he wants remembered
  Fact,          \* what the posts may say, as far as it is the same or not
  MaxActive,     \* _MAX_ACTIVE_PER_OWNER
  MaxRevisions,  \* bound: revisions of the persona
  MaxPersonaFaults, \* bound: crashes, and posts whose handling failed
  MaxPersonaEvents  \* bound: posts, posts that are changed, and faults, together

ASSUME PersonasAssumption ==
  {MaxActive, MaxRevisions, MaxPersonaFaults, MaxPersonaEvents} \subseteq Nat /\ "none" \notin Post

VARIABLES
  \* ---- Mattermost and SQLite
  post,      \* [Post -> state of the message on the server]
  says,      \* [Post -> what it said when it was posted, the payload of its Inbox row]
  handled,   \* [Post -> how far the worker has come with the Inbox row]
  inLog,     \* posts with a row in message_log
  item,      \* [Memory -> its state]
  revision,  \* [1..MaxRevisions -> status and sources of the persona's revision]
  \* ---- memory
  unpaused,  \* memories whose personas are still to be archived
  source,    \* the post that was edited or deleted and whose memories are still to be revoked
  serving,   \* the process is up
  \* ---- history
  before,    \* [Memory -> the revisions there were when it was revoked]
  renewed,   \* [1..MaxRevisions -> its sources that were revoked when it was published last]
  lost,      \* posts whose last change came to nothing
  early,     \* posts that were changed before the worker was through with them
  dropped,   \* memories that a crash left active, or in a persona that is
  personaFaults

personaLog == <<post, says, handled, inLog>>
personaStore == <<personaLog, item, revision>>
personaTodo == <<unpaused, source, serving>>
personaHistory == <<before, renewed, lost, early, dropped>>
personasVars == <<personaStore, personaTodo, personaHistory, personaFaults>>

\* A memory is named for its post and for the attempt that made it.
Memory == Post \X (1..(MaxPersonaFaults + 1))
Revisions == 1..MaxRevisions
Existing == {n \in Revisions : revision[n].status # "absent"}
Latest == Cardinality(Existing)
NoPost == "none"
Settled == serving /\ unpaused = {} /\ source = NoPost

PostsIn(states) == Cardinality({m \in Post : post[m] \in states})
Room == PostsIn({"sent", "edited", "deleted"}) + PostsIn({"edited", "deleted"}) + personaFaults
          < MaxPersonaEvents

-----------------------------------------------------------------------------
(* The worker.  One conversation has one post in work at a time.           *)

Busy == {m \in Post : handled[m] \in {"logged", "kept", "retried"}}

\* One post is like another until it is sent, so it is always the same one that comes next.
NextPost == CHOOSE m \in Post : post[m] = "none"

SendPost(m, f) ==
  /\ post[m] = "none" /\ m = NextPost /\ Room
  /\ post' = [post EXCEPT ![m] = "sent"]
  /\ says' = [says EXCEPT ![m] = f]
  /\ handled' = [handled EXCEPT ![m] = "queued"]
  /\ UNCHANGED <<inLog, item, revision, personaTodo, personaHistory, personaFaults>>

\* log_message() with the text of the payload, whatever became of the post; maybe_compact() is
\* awaited after it.
LogSource(m) ==
  /\ Settled /\ handled[m] \in {"queued", "retried"} /\ Busy \subseteq {m}
  /\ handled' = [handled EXCEPT ![m] = "logged"]
  /\ inLog' = inLog \cup {m}
  /\ UNCHANGED <<post, says, item, revision, personaTodo, personaHistory, personaFaults>>

\* MemoryItemStore.remember(): a fact that is active already is not stored again, and the new
\* post does not become a source of it; the quota counts active memories.
Known(f) == \E i \in Memory : item[i] = "active" /\ says[i[1]] = f
QuotaLeft == Cardinality({i \in Memory : item[i] = "active"}) < MaxActive

Remember(m) ==
  /\ Settled /\ handled[m] = "logged"
  /\ handled' = [handled EXCEPT ![m] = "kept"]
  /\ item' = IF Known(says[m]) \/ ~QuotaLeft THEN item
             ELSE [item EXCEPT ![<<m, personaFaults + 1>>] = "active"]
  /\ UNCHANGED <<post, says, inLog, revision, personaTodo, personaHistory, personaFaults>>

\* The card is posted and complete_event() ends the Inbox row; or the handling raises, and the
\* worker tries it again before it takes another row, or the row is dead.  What an operator
\* replays of dead rows is left out.
Finish(m) ==
  /\ Settled /\ handled[m] = "kept"
  /\ handled' = [handled EXCEPT ![m] = "done"]
  /\ UNCHANGED <<post, says, inLog, item, revision, personaTodo, personaHistory, personaFaults>>

HandlingFails(m) ==
  /\ Settled /\ m \in Busy /\ Room /\ personaFaults < MaxPersonaFaults
  /\ \E outcome \in {"retried", "done"} : handled' = [handled EXCEPT ![m] = outcome]
  /\ personaFaults' = personaFaults + 1
  /\ UNCHANGED <<post, says, inLog, item, revision, personaTodo, personaHistory>>

-----------------------------------------------------------------------------
(* MemoryItemStore.                                                        *)

\* _expire_locked: lazily, whenever the store is read.  Personas are not looked at.
ExpireMemory(i) ==
  /\ Settled /\ item[i] = "active"
  /\ item' = [item EXCEPT ![i] = "expired"]
  /\ UNCHANGED <<personaLog, revision, personaTodo, personaHistory, personaFaults>>

\* memory_forget: revoke() raises unless the memory is active, then nothing more is done.
Forget(i) ==
  /\ Settled /\ item[i] = "active"
  /\ item' = [item EXCEPT ![i] = "revoked"]
  /\ before' = [before EXCEPT ![i] = Existing]
  /\ unpaused' = {i} /\ dropped' = dropped \ {i}
  /\ UNCHANGED <<personaLog, revision, source, serving, renewed, lost, early, personaFaults>>

\* A second edit would be like the first.
Changeable(m, change) ==
  post[m] \in {"sent", "edited"} \ {change} /\ Room

\* on_post_edited and on_post_deleted change the log first...
SourceGoes(m, change) ==
  /\ Settled /\ Changeable(m, change) /\ m \in inLog
  /\ post' = [post EXCEPT ![m] = change]
  /\ inLog' = IF change = "deleted" THEN inLog \ {m} ELSE inLog
  /\ source' = m
  /\ lost' = lost \ {m}
  /\ early' = IF handled[m] = "done" THEN early \ {m} ELSE early \cup {m}
  /\ UNCHANGED <<says, handled, item, revision, unpaused, serving, before, renewed, dropped, personaFaults>>

\* ...and do no more if they find no row, or if the edit leaves no text; nor is the change heard
\* while the connection or the process is down.
SourceStays(m, change) ==
  /\ Settled \/ ~serving
  /\ Changeable(m, change)
  /\ post' = [post EXCEPT ![m] = change]
  /\ lost' = lost \cup {m}
  /\ UNCHANGED <<says, handled, inLog, item, revision, personaTodo, before, renewed, early, dropped,
                 personaFaults>>

\* ...and _revoke_message_memories asks for the ids before it revokes: afterwards there would
\* be none, as in the mutant.
IdsAfterRevoke(m) == {}
IdsForSource(m) == {i \in Memory : i[1] = m /\ item[i] = "active"}

RevokeSource ==
  /\ serving /\ source # NoPost
  /\ item' = [i \in Memory |-> IF i[1] = source /\ item[i] = "active" THEN "revoked" ELSE item[i]]
  /\ before' = [i \in Memory |-> IF i[1] = source /\ item[i] = "active" THEN Existing ELSE before[i]]
  /\ unpaused' = IdsForSource(source) /\ dropped' = dropped \ IdsForSource(source)
  /\ source' = NoPost
  /\ UNCHANGED <<personaLog, revision, serving, renewed, lost, early, personaFaults>>

-----------------------------------------------------------------------------
(* DigitalPersonaStore.                                                    *)

\* archive_by_memory: whoever publishes it now.  A mutant only archives a revision that is
\* the newest one.
NewestPublishing(i) == {n \in Revisions : n = Latest /\ revision[n].status = "active" /\ i \in revision[n].sources}
Publishing(i) == {n \in Revisions : revision[n].status = "active" /\ i \in revision[n].sources}

ArchiveByMemory(i) ==
  /\ serving /\ i \in unpaused
  /\ revision' = [n \in Revisions |->
       IF n \in Publishing(i) THEN [revision[n] EXCEPT !.status = "archived"] ELSE revision[n]]
  /\ unpaused' = unpaused \ {i}
  /\ UNCHANGED <<personaLog, item, source, serving, personaHistory, personaFaults>>

\* create_revision: a snapshot of memories that are all active; the number is the next one.
\* A mutant takes what the revision before it had, whatever became of it.
Copied(sources) == TRUE
Available(sources) == \A i \in sources : item[i] = "active"

NewRevision(sources) ==
  /\ Latest < MaxRevisions /\ Available(sources)
  /\ revision' = [revision EXCEPT ![Latest + 1] = [status |-> "draft", sources |-> sources]]

CreatePersona ==
  /\ Settled /\ Latest = 0
  /\ NewRevision({})
  /\ UNCHANGED <<personaLog, item, personaTodo, personaHistory, personaFaults>>

\* persona_add, from a card that may show an older revision.
Authorise(n, i) ==
  /\ Settled /\ n \in Existing
  /\ NewRevision(revision[n].sources \cup {i})
  /\ UNCHANGED <<personaLog, item, personaTodo, personaHistory, personaFaults>>

\* revise_policy: the same sources under other topics and another mode.
RevisePolicy(n) ==
  /\ Settled /\ n \in Existing
  /\ NewRevision(revision[n].sources)
  /\ UNCHANGED <<personaLog, item, personaTodo, personaHistory, personaFaults>>

\* activate(): any revision that has a snapshot, also one that was archived, and without a
\* look at what became of its memories.
PublishPersona(n) ==
  /\ Settled /\ n \in Existing /\ revision[n].sources # {}
  /\ revision' = [k \in Revisions |->
       CASE k = n -> [revision[k] EXCEPT !.status = "active"]
         [] k # n /\ revision[k].status = "active" -> [revision[k] EXCEPT !.status = "archived"]
         [] OTHER -> revision[k]]
  /\ renewed' = [renewed EXCEPT ![n] = {i \in revision[n].sources : item[i] = "revoked"}]
  /\ UNCHANGED <<personaLog, item, personaTodo, before, lost, early, dropped, personaFaults>>

ArchivePersona(n) ==
  /\ Settled /\ n \in Existing
  /\ revision' = [revision EXCEPT ![n].status = "archived"]
  /\ UNCHANGED <<personaLog, item, personaTodo, personaHistory, personaFaults>>

-----------------------------------------------------------------------------
\* Inbox rows in work are taken up again.
CrashPersonas ==
  /\ serving /\ Room /\ personaFaults < MaxPersonaFaults
  /\ serving' = FALSE
  /\ handled' = [m \in Post |-> IF m \in Busy THEN "queued" ELSE handled[m]]
  /\ dropped' = dropped \cup unpaused \cup IdsForSource(source)
  /\ unpaused' = {} /\ source' = NoPost
  /\ personaFaults' = personaFaults + 1
  /\ UNCHANGED <<post, says, inLog, item, revision, before, renewed, lost, early>>

RestartPersonas ==
  /\ ~serving /\ serving' = TRUE
  /\ UNCHANGED <<personaStore, unpaused, source, personaHistory, personaFaults>>

PersonasInit ==
  /\ post = [m \in Post |-> "none"] /\ says = post /\ handled = post /\ inLog = {}
  /\ item = [i \in Memory |-> "none"]
  /\ revision = [n \in Revisions |-> [status |-> "absent", sources |-> {}]]
  /\ unpaused = {} /\ source = NoPost /\ serving = TRUE
  /\ before = [i \in Memory |-> {}] /\ renewed = [n \in Revisions |-> {}]
  /\ lost = {} /\ early = {} /\ dropped = {} /\ personaFaults = 0

PersonasNext ==
  \/ CreatePersona \/ RevokeSource \/ CrashPersonas \/ RestartPersonas
  \/ \E m \in Post :
       \/ \E f \in Fact : SendPost(m, f)
       \/ LogSource(m) \/ Remember(m) \/ Finish(m) \/ HandlingFails(m)
       \/ \E change \in {"edited", "deleted"} : SourceGoes(m, change) \/ SourceStays(m, change)
  \/ \E i \in Memory :
       \/ ExpireMemory(i) \/ Forget(i) \/ ArchiveByMemory(i)
       \/ \E n \in Revisions : Authorise(n, i)
  \/ \E n \in Revisions : RevisePolicy(n) \/ PublishPersona(n) \/ ArchivePersona(n)

PersonasSpec == PersonasInit /\ [][PersonasNext]_personasVars

-----------------------------------------------------------------------------
PersonasTypeOK ==
  /\ post \in [Post -> {"none", "sent", "edited", "deleted"}]
  /\ says \in [Post -> Fact \cup {"none"}]
  /\ handled \in [Post -> {"none", "queued", "logged", "kept", "retried", "done"}]
  /\ item \in [Memory -> {"none", "active", "revoked", "expired"}]
  /\ revision \in [Revisions -> [status : {"absent", "draft", "active", "archived"},
                                 sources : SUBSET Memory]]
  /\ Cardinality({i \in Memory : item[i] = "active"}) <= MaxActive
  /\ unpaused \cup dropped \subseteq Memory /\ source \in Post \cup {NoPost}
  /\ lost \cup early \cup inLog \subseteq Post

\* Nobody is answered from a memory that its owner withdrew.  When he edits or deletes the post
\* it came from it is revoked, and when it is revoked, or he forgets it, every revision that
\* publishes it is archived; he alone can publish such a revision again, and none that is made
\* later has the memory (memory_items.py, personas.py, message_handler.py
\* _revoke_message_memories).  The exceptions are the code's own, each for the memories it
\* befalls: a change that came to nothing, one that came before the worker was through with
\* the post, a crash between the commits, and a memory that had expired, after which neither
\* its owner nor its source can withdraw it.
WithdrawnIsPaused ==
  Settled =>
    \A i \in Memory :
      /\ item[i] = "active" =>
           post[i[1]] = "sent" \/ i[1] \in lost \cup early \/ i \in dropped
      /\ item[i] = "revoked" => \A n \in Revisions :
           revision[n].status = "active" /\ i \in revision[n].sources =>
             n \in before[i] /\ i \in renewed[n] \cup dropped
=============================================================================
