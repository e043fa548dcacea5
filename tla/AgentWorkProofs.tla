---------------------------- MODULE AgentWorkProofs ---------------------------
(***************************************************************************)
(* Proofs about the components that run MCAgentWork checks together: each   *)
(* of them for itself, and at the end the types of all, for every value of  *)
(* their constants.                                                         *)
(***************************************************************************)
EXTENDS MCAgentWork, TurnProofs, SubsequenceProofs, Integers, FiniteSetTheorems, WellFoundedInduction, TLAPS

-----------------------------------------------------------------------------
(* Personas.                                                               *)

RevisionRow == [status : {"absent", "draft", "active", "archived"}, sources : SUBSET Memory]

PersonaTypes ==
  /\ post \in [Post -> {"none", "sent", "edited", "deleted"}]
  /\ says \in [Post -> Fact \cup {"none"}]
  /\ handled \in [Post -> {"none", "queued", "logged", "kept", "retried", "done"}]
  /\ item \in [Memory -> {"none", "active", "revoked", "expired"}]
  /\ revision \in [Revisions -> RevisionRow]
  /\ unpaused \subseteq Memory /\ dropped \subseteq Memory /\ source \in Post \cup {NoPost}
  /\ lost \subseteq Post /\ early \subseteq Post /\ inLog \subseteq Post
  /\ before \in [Memory -> SUBSET Revisions] /\ renewed \in [Revisions -> SUBSET Memory]

\* A stretch that is not finished has revoked what it pauses; only a revision that was made
\* has sources.
OneStretch ==
  /\ source = NoPost \/ unpaused = {}
  /\ \A n \in Revisions : revision[n].status = "absent" => revision[n].sources = {}

\* A post that changed while its row is in work is on the account of what came to nothing or
\* came too soon: the row may still make a memory of it.
ChangeIsHeard ==
  \A m \in Post :
    handled[m] \in {"queued", "logged", "kept", "retried"} /\ post[m] # "sent" => m \in lost \cup early

\* An active memory has its post, or there is a reason why not.
SourceHolds ==
  \A i \in Memory :
    item[i] = "active" /\ post[i[1]] # "sent" => i[1] \in lost \cup early \cup {source} \/ i \in dropped

\* A revoked memory is in revisions that were there before; where it answers, the owner said so
\* again, a crash dropped it, or the pause is still to come.
Answered(n, i) ==
  n \in before[i] /\ (revision[n].status = "active" => i \in renewed[n] \cup dropped \cup unpaused)
RevokedIsAnswered ==
  \A n \in Revisions : \A i \in revision[n].sources : item[i] = "revoked" => Answered(n, i)

PersonasInv ==
  /\ PersonaTypes /\ OneStretch /\ ChangeIsHeard
  /\ SourceHolds /\ RevokedIsAnswered

\* A memory knows its post.
LEMMA MemoryHasPost == \A i \in Memory : i[1] \in Post
BY DEF Memory

\* The rows of the revisions.
LEMMA RowsTyped ==
  ASSUME PersonaTypes
  PROVE  \A n \in Revisions : /\ revision[n] \in RevisionRow /\ revision[n].sources \in SUBSET Memory
                              /\ revision[n].status \in {"absent", "draft", "active", "archived"}
BY DEF PersonaTypes, RevisionRow

\* A new revision is a draft, and all of its memories are active.
LEMMA NewRevisionKeeps ==
  ASSUME PersonasInv, NEW sources \in SUBSET Memory, NewRevision(sources),
         UNCHANGED <<personaLog, item, personaTodo, personaHistory>>
  PROVE  PersonasInv'
<1> USE DEF PersonasInv, personaLog, personaTodo, personaHistory
<1> DEFINE r == [status |-> "draft", sources |-> sources]
<1>1. /\ r \in RevisionRow /\ r.status = "draft" /\ r.sources = sources
      /\ \A i \in sources : item[i] = "active"
  BY DEF NewRevision, Available, RevisionRow
<1>2. revision' = [revision EXCEPT ![Latest + 1] = r]
  BY DEF NewRevision
<1> HIDE DEF r
<1>3. /\ revision' \in [Revisions -> RevisionRow]
      /\ \A n \in Revisions : revision'[n] = revision[n] \/ revision'[n] = r
  BY <1>1, <1>2 DEF PersonaTypes
<1>4. PersonaTypes'  BY <1>3 DEF PersonaTypes
<1>5. OneStretch'  BY <1>1, <1>3 DEF OneStretch
<1>6. ChangeIsHeard' /\ SourceHolds'  BY DEF ChangeIsHeard, SourceHolds
<1>7. RevokedIsAnswered'
  <2>1. ASSUME NEW n \in Revisions, NEW i \in revision'[n].sources, item[i] = "revoked"
        PROVE  Answered(n, i)'
    <3>1. revision'[n] = revision[n]  BY <1>1, <1>3, <2>1
    <3> QED  BY <2>1, <3>1 DEF RevokedIsAnswered, Answered
  <2> QED  BY <2>1 DEF RevokedIsAnswered
<1> QED  BY <1>4, <1>5, <1>6, <1>7

\* A step that changes no status but to "archived" or none at all, and no sources, needs only
\* to look at what it archived.
LEMMA ArchivingKeeps ==
  ASSUME PersonasInv, UNCHANGED <<personaLog, item, source, personaHistory>>,
         revision' \in [Revisions -> RevisionRow], unpaused' \subseteq unpaused,
         \A n \in Revisions :
           /\ revision'[n].sources = revision[n].sources
           /\ revision'[n].status = "absent" => revision[n].status = "absent"
           /\ revision'[n].status = "active" =>
                revision[n].status = "active" /\ revision[n].sources \cap unpaused \subseteq unpaused'
  PROVE  PersonasInv'
<1> USE DEF PersonasInv, personaLog, personaHistory
<1>1. PersonaTypes'  BY DEF PersonaTypes
<1>2. OneStretch'  BY DEF OneStretch
<1>3. ChangeIsHeard' /\ SourceHolds'  BY DEF ChangeIsHeard, SourceHolds
<1>4. RevokedIsAnswered'
  <2>1. ASSUME NEW n \in Revisions, NEW i \in revision[n].sources, item[i] = "revoked"
        PROVE  Answered(n, i)'
    <3>1. Answered(n, i)  BY <2>1 DEF RevokedIsAnswered
    <3> QED  BY <2>1, <3>1 DEF Answered
  <2> QED  BY <2>1 DEF RevokedIsAnswered
<1> QED  BY <1>1, <1>2, <1>3, <1>4

\* The worker's steps: a post is sent, logged, remembered, finished or fails.
LEMMA WorkerKeeps ==
  ASSUME PersonasInv, NEW m \in Post,
         \/ \E f \in Fact : SendPost(m, f)
         \/ LogSource(m) \/ Remember(m) \/ Finish(m) \/ HandlingFails(m)
  PROVE  PersonasInv'
<1> USE DEF PersonasInv
<1>1. /\ UNCHANGED <<revision, personaTodo, personaHistory>>
      /\ says' = says \/ \E f \in Fact : says' = [says EXCEPT ![m] = f]
      /\ inLog' = inLog \/ inLog' = inLog \cup {m}
      /\ \E h \in {"queued", "logged", "kept", "retried", "done"} : handled' = [handled EXCEPT ![m] = h]
  BY DEF SendPost, LogSource, Remember, Finish, HandlingFails
<1>2. /\ post' = post \/ post' = [post EXCEPT ![m] = "sent"]
      /\ post' = [post EXCEPT ![m] = "sent"] \/ (post' = post /\ handled[m] \in {"queued", "logged", "kept", "retried"})
  BY DEF SendPost, LogSource, Remember, Finish, HandlingFails, Busy
<1>3. \A i \in Memory : \/ item'[i] = item[i]
                        \/ item'[i] = "active" /\ i[1] = m /\ post' = post /\ handled[m] \in {"queued", "logged", "kept", "retried"}
  <2>1. CASE Remember(m)
    <3>1. item' = item \/ item' = [item EXCEPT ![<<m, personaFaults + 1>>] = "active"]
      BY <2>1 DEF Remember
    <3> QED  BY <2>1, <3>1 DEF Remember, PersonaTypes
  <2>2. CASE item' = item
    BY <2>2
  <2> QED  BY <2>1, <2>2 DEF SendPost, LogSource, Finish, HandlingFails
<1>4. item' \in [Memory -> {"none", "active", "revoked", "expired"}]
  <2>1. item' = item \/ item' = [item EXCEPT ![<<m, personaFaults + 1>>] = "active"]
    BY DEF SendPost, LogSource, Remember, Finish, HandlingFails
  <2> QED  BY <2>1 DEF PersonaTypes
<1>5. \A k \in Post : k # m => post'[k] = post[k] /\ handled'[k] = handled[k]
  BY <1>1, <1>2 DEF PersonaTypes
<1>6. post'[m] # "sent" => post' = post /\ m \in lost \cup early
  BY <1>2 DEF PersonaTypes, ChangeIsHeard
<1>7. PersonaTypes'
  BY <1>1, <1>2, <1>4 DEF PersonaTypes, personaTodo, personaHistory
<1>8. ChangeIsHeard'
  BY <1>1, <1>5, <1>6 DEF ChangeIsHeard, personaHistory
<1>9. SourceHolds'
  <2>1. ASSUME NEW i \in Memory, item'[i] = "active", post'[i[1]] # "sent"
        PROVE  i[1] \in lost \cup early \cup {source} \/ i \in dropped
    <3>1. CASE i[1] = m  BY <1>6, <2>1, <3>1
    <3>2. CASE i[1] # m
      BY <1>3, <1>5, <2>1, <3>2, MemoryHasPost DEF SourceHolds
    <3> QED  BY <3>1, <3>2
  <2> QED  BY <1>1, <2>1 DEF SourceHolds, personaHistory, personaTodo
<1>10. OneStretch' /\ RevokedIsAnswered'
  <2>1. ASSUME NEW n \in Revisions, NEW i \in revision[n].sources, item'[i] = "revoked"
        PROVE  Answered(n, i)
    <3>1. i \in Memory  BY RowsTyped
    <3> QED  BY <1>3, <2>1, <3>1 DEF RevokedIsAnswered
  <2> QED  BY <1>1, <2>1 DEF OneStretch, RevokedIsAnswered, Answered, personaTodo, personaHistory
<1> QED  BY <1>7, <1>8, <1>9, <1>10

\* An edit or a deletion, whether it is taken up or comes to nothing.
LEMMA ChangeKeeps ==
  ASSUME PersonasInv, NEW m \in Post, NEW change \in {"edited", "deleted"},
         SourceGoes(m, change) \/ SourceStays(m, change)
  PROVE  PersonasInv'
<1> USE DEF PersonasInv
<1>1. /\ UNCHANGED <<says, handled, item, revision, unpaused, before, renewed, dropped>>
      /\ post' = [post EXCEPT ![m] = change] /\ inLog' \subseteq inLog
      /\ lost' \subseteq lost \cup {m} /\ early' \subseteq early \cup {m}
      /\ source' \in {source, m}
  BY DEF SourceGoes, SourceStays, personaTodo
<1>2. /\ \A k \in Post : k # m => post'[k] = post[k]
      /\ \A k : k # m => (k \in lost' <=> k \in lost) /\ (k \in early' <=> k \in early)
  BY DEF SourceGoes, SourceStays, PersonaTypes
<1>3. /\ m \in lost' \cup early' \cup {source'}
      /\ handled[m] # "done" => m \in lost' \cup early'
      /\ source' # source => source = NoPost /\ unpaused = {}
  BY DEF SourceGoes, SourceStays, Settled, personaTodo
<1>4. PersonaTypes'  BY <1>1 DEF PersonaTypes
<1>5. OneStretch'  BY <1>1, <1>3 DEF OneStretch
<1>6. ChangeIsHeard'  BY <1>1, <1>2, <1>3 DEF ChangeIsHeard
<1>7. SourceHolds'
  <2>1. ASSUME NEW i \in Memory, item[i] = "active", post'[i[1]] # "sent"
        PROVE  i[1] \in lost' \cup early' \cup {source'} \/ i \in dropped
    <3>1. CASE i[1] = m  BY <1>3, <3>1
    <3>2. CASE i[1] # m
      <4>1. i[1] \in Post /\ i[1] # NoPost  BY MemoryHasPost, PersonasAssumption DEF NoPost
      <4>2. i[1] \in lost \cup early \cup {source} \/ i \in dropped
        BY <1>2, <2>1, <3>2, <4>1 DEF SourceHolds
      <4> QED  BY <1>1, <1>2, <1>3, <3>2, <4>1, <4>2
    <3> QED  BY <3>1, <3>2
  <2> QED  BY <1>1, <2>1 DEF SourceHolds
<1>8. RevokedIsAnswered'  BY <1>1 DEF RevokedIsAnswered, Answered
<1> QED  BY <1>4, <1>5, <1>6, <1>7, <1>8

\* Memories that are active are revoked, and their personas are to be archived.
LEMMA RevokingKeeps ==
  ASSUME PersonasInv, NEW gone \in SUBSET Memory, unpaused = {},
         \A i \in gone : item[i] = "active",
         item' = [i \in Memory |-> IF i \in gone THEN "revoked" ELSE item[i]],
         before' = [i \in Memory |-> IF i \in gone THEN Existing ELSE before[i]],
         unpaused' = gone, dropped' = dropped \ gone, source' = NoPost,
         source \in Post => \A i \in Memory : i[1] = source /\ item[i] = "active" => i \in gone,
         UNCHANGED <<personaLog, revision, renewed, lost, early>>
  PROVE  PersonasInv'
<1> USE DEF PersonasInv, personaLog
<1>1. PersonaTypes'
  <2>1. Existing \in SUBSET Revisions  BY DEF Existing
  <2>2. before' \in [Memory -> SUBSET Revisions]  BY <2>1 DEF PersonaTypes
  <2>3. item' \in [Memory -> {"none", "active", "revoked", "expired"}]  BY DEF PersonaTypes
  <2> QED  BY <2>2, <2>3 DEF PersonaTypes
<1>2. OneStretch' /\ ChangeIsHeard'
  BY DEF OneStretch, ChangeIsHeard
<1>3. SourceHolds'
  <2>1. ASSUME NEW i \in Memory, item'[i] = "active", post[i[1]] # "sent"
        PROVE  i[1] \in lost \cup early \/ i \in dropped'
    <3>1. i \notin gone /\ item[i] = "active"  BY <2>1
    <3>2. i[1] \in Post  BY MemoryHasPost
    <3>3. i[1] # source  BY <3>1, <3>2
    <3> QED  BY <2>1, <3>1, <3>3 DEF SourceHolds
  <2> QED  BY <2>1 DEF SourceHolds
<1>4. RevokedIsAnswered'
  <2>1. ASSUME NEW n \in Revisions, NEW i \in revision[n].sources, item'[i] = "revoked"
        PROVE  Answered(n, i)'
    <3>1. i \in Memory  BY RowsTyped
    <3>2. CASE i \in gone
      <4>1. n \in Existing  BY <2>1 DEF OneStretch, Existing
      <4> QED  BY <3>1, <3>2, <4>1 DEF Answered
    <3>3. CASE i \notin gone
      <4>1. item[i] = "revoked" /\ before'[i] = before[i]  BY <2>1, <3>1, <3>3
      <4>2. Answered(n, i)  BY <2>1, <4>1 DEF RevokedIsAnswered
      <4> QED  BY <3>3, <4>1, <4>2 DEF Answered
    <3> QED  BY <3>2, <3>3
  <2> QED  BY <2>1 DEF RevokedIsAnswered
<1> QED  BY <1>1, <1>2, <1>3, <1>4

\* Every step keeps the invariant.
LEMMA PersonasStep ==
  ASSUME PersonasInv, [PersonasNext]_personasVars
  PROVE  PersonasInv'
<1> USE DEF PersonasInv
<1>0. \A n \in Revisions : /\ revision[n] \in RevisionRow /\ revision[n].sources \in SUBSET Memory
                           /\ revision[n].status \in {"absent", "draft", "active", "archived"}
  BY RowsTyped
<1>1. CASE UNCHANGED personasVars \/ RestartPersonas
  <2>1. UNCHANGED <<personaStore, unpaused, source, personaHistory>>
    BY <1>1 DEF personasVars, personaTodo, RestartPersonas
  <2> QED
    BY <2>1 DEF personaStore, personaLog, personaHistory, PersonaTypes, OneStretch, ChangeIsHeard, SourceHolds,
                RevokedIsAnswered, Answered
<1>2. CASE CreatePersona
  BY <1>2, NewRevisionKeeps DEF CreatePersona
<1>3. CASE RevokeSource
  <2> DEFINE gone == IdsForSource(source)
  <2>1. gone \in SUBSET Memory /\ \A i \in Memory : i \in gone <=> i[1] = source /\ item[i] = "active"
    BY DEF IdsForSource
  <2>2. /\ item' = [i \in Memory |-> IF i[1] = source /\ item[i] = "active" THEN "revoked" ELSE item[i]]
        /\ before' = [i \in Memory |-> IF i[1] = source /\ item[i] = "active" THEN Existing ELSE before[i]]
        /\ unpaused' = gone /\ dropped' = dropped \ gone /\ source' = NoPost /\ unpaused = {}
        /\ UNCHANGED <<personaLog, revision, renewed, lost, early>>
    BY <1>3 DEF RevokeSource, OneStretch
  <2> HIDE DEF gone
  <2>3. /\ item' = [i \in Memory |-> IF i \in gone THEN "revoked" ELSE item[i]]
        /\ before' = [i \in Memory |-> IF i \in gone THEN Existing ELSE before[i]]
    BY <2>1, <2>2
  <2> QED  BY <2>1, <2>2, <2>3, RevokingKeeps
<1>4. CASE CrashPersonas
  <2>1. /\ dropped' = dropped \cup unpaused \cup IdsForSource(source) /\ unpaused' = {} /\ source' = NoPost
        /\ handled' = [m \in Post |-> IF m \in Busy THEN "queued" ELSE handled[m]]
        /\ UNCHANGED <<post, says, inLog, item, revision, before, renewed, lost, early>>
    BY <1>4 DEF CrashPersonas
  <2>2. \A i \in Memory : i[1] = source /\ item[i] = "active" => i \in dropped'
    BY <2>1 DEF IdsForSource
  <2>3. PersonaTypes'
    BY <2>1 DEF PersonaTypes, IdsForSource
  <2>4. OneStretch' /\ ChangeIsHeard' /\ RevokedIsAnswered'
    BY <2>1 DEF OneStretch, ChangeIsHeard, Busy, RevokedIsAnswered, Answered
  <2>5. SourceHolds'
    BY <2>1, <2>2 DEF SourceHolds
  <2> QED  BY <2>3, <2>4, <2>5
<1>5. ASSUME NEW m \in Post,
             \/ \E f \in Fact : SendPost(m, f)
             \/ LogSource(m) \/ Remember(m) \/ Finish(m) \/ HandlingFails(m)
      PROVE  PersonasInv'
  BY <1>5, WorkerKeeps
<1>6. ASSUME NEW m \in Post, NEW change \in {"edited", "deleted"}, SourceGoes(m, change) \/ SourceStays(m, change)
      PROVE  PersonasInv'
  BY <1>6, ChangeKeeps
<1>7. ASSUME NEW i \in Memory, ExpireMemory(i) PROVE PersonasInv'
  <2>1. /\ item' = [item EXCEPT ![i] = "expired"]
        /\ UNCHANGED <<personaLog, revision, unpaused, source, personaHistory>>
    BY <1>7 DEF ExpireMemory, personaTodo
  <2>2. \A k \in Memory : item'[k] = item[k] \/ item'[k] = "expired"
    BY <2>1 DEF PersonaTypes
  <2>3. PersonaTypes' /\ OneStretch' /\ ChangeIsHeard'
    BY <2>1 DEF personaLog, personaHistory, PersonaTypes, OneStretch, ChangeIsHeard
  <2>4. SourceHolds' /\ RevokedIsAnswered'
    BY <1>0, <2>1, <2>2 DEF personaLog, personaHistory, SourceHolds, RevokedIsAnswered, Answered
  <2> QED  BY <2>3, <2>4
<1>8. ASSUME NEW i \in Memory, Forget(i) PROVE PersonasInv'
  <2>1. /\ item' = [item EXCEPT ![i] = "revoked"] /\ before' = [before EXCEPT ![i] = Existing]
        /\ unpaused' = {i} /\ dropped' = dropped \ {i} /\ source' = NoPost
        /\ source = NoPost /\ unpaused = {} /\ item[i] = "active"
        /\ UNCHANGED <<personaLog, revision, renewed, lost, early>>
    BY <1>8 DEF Forget, Settled
  <2>2. /\ item' = [k \in Memory |-> IF k \in {i} THEN "revoked" ELSE item[k]]
        /\ before' = [k \in Memory |-> IF k \in {i} THEN Existing ELSE before[k]]
    BY <2>1 DEF PersonaTypes
  <2>3. source \notin Post  BY <2>1, PersonasAssumption DEF NoPost
  <2> QED  BY <2>1, <2>2, <2>3, RevokingKeeps
<1>9. ASSUME NEW i \in Memory, ArchiveByMemory(i) PROVE PersonasInv'
  <2>1. /\ revision' = [n \in Revisions |-> IF n \in Publishing(i) THEN [revision[n] EXCEPT !.status = "archived"] ELSE revision[n]]
        /\ unpaused' = unpaused \ {i} /\ UNCHANGED <<personaLog, item, source, personaHistory>>
    BY <1>9 DEF ArchiveByMemory
  <2>2. ASSUME NEW n \in Revisions
        PROVE  /\ revision'[n] \in RevisionRow /\ revision'[n].sources = revision[n].sources
               /\ revision'[n].status = "absent" => revision[n].status = "absent"
               /\ revision'[n].status = "active" => revision[n].status = "active" /\ i \notin revision[n].sources
    <3>1. CASE n \in Publishing(i)
      BY <1>0, <2>1, <3>1 DEF RevisionRow
    <3>2. CASE n \notin Publishing(i)
      BY <1>0, <2>1, <3>2 DEF Publishing
    <3> QED  BY <3>1, <3>2
  <2>3. revision' \in [Revisions -> RevisionRow]  BY <2>1, <2>2
  <2> QED  BY <2>1, <2>2, <2>3, ArchivingKeeps
<1>10. ASSUME NEW n \in Revisions, NEW i \in Memory, Authorise(n, i) PROVE PersonasInv'
  <2>1. revision[n].sources \cup {i} \in SUBSET Memory  BY <1>0
  <2> QED  BY <1>10, <2>1, NewRevisionKeeps DEF Authorise
<1>11. ASSUME NEW n \in Revisions, RevisePolicy(n) PROVE PersonasInv'
  BY <1>0, <1>11, NewRevisionKeeps DEF RevisePolicy
<1>12. ASSUME NEW n \in Revisions, PublishPersona(n) PROVE PersonasInv'
  <2>1. /\ revision' = [k \in Revisions |->
             CASE k = n -> [revision[k] EXCEPT !.status = "active"]
               [] k # n /\ revision[k].status = "active" -> [revision[k] EXCEPT !.status = "archived"]
               [] OTHER -> revision[k]]
        /\ renewed' = [renewed EXCEPT ![n] = {i \in revision[n].sources : item[i] = "revoked"}]
        /\ revision[n].status # "absent"
        /\ UNCHANGED <<personaLog, item, unpaused, source, before, lost, early, dropped>>
    BY <1>12 DEF PublishPersona, personaTodo, Existing
  <2>2. ASSUME NEW k \in Revisions
        PROVE  /\ revision'[k] \in RevisionRow /\ revision'[k].sources = revision[k].sources
               /\ revision'[k].status = "active" => k = n
               /\ revision'[k].status = "absent" => revision[k].status = "absent"
    <3>1. CASE k = n  BY <1>0, <2>1, <3>1 DEF RevisionRow
    <3>2. CASE k # n /\ revision[k].status = "active"  BY <1>0, <2>1, <3>2 DEF RevisionRow
    <3>3. CASE k # n /\ revision[k].status # "active"  BY <1>0, <2>1, <3>3
    <3> QED  BY <3>1, <3>2, <3>3
  <2>3. revision' \in [Revisions -> RevisionRow]  BY <2>1, <2>2
  <2>4. renewed' \in [Revisions -> SUBSET Memory] /\ renewed'[n] = {i \in revision[n].sources : item[i] = "revoked"}
    BY <1>0, <2>1 DEF PersonaTypes
  <2>5. PersonaTypes' /\ OneStretch'
    BY <2>1, <2>2, <2>3, <2>4 DEF PersonaTypes, OneStretch, personaLog
  <2>6. ChangeIsHeard' /\ SourceHolds'
    BY <2>1 DEF ChangeIsHeard, SourceHolds, personaLog
  <2>7. RevokedIsAnswered'
    BY <2>1, <2>2, <2>4 DEF RevokedIsAnswered, Answered
  <2> QED  BY <2>5, <2>6, <2>7
<1>13. ASSUME NEW n \in Revisions, ArchivePersona(n) PROVE PersonasInv'
  <2>1. /\ revision' = [revision EXCEPT ![n] = [revision[n] EXCEPT !.status = "archived"]]
        /\ UNCHANGED <<personaLog, item, unpaused, source, personaHistory>>
    BY <1>13 DEF ArchivePersona, personaTodo, PersonaTypes
  <2>2. /\ [revision[n] EXCEPT !.status = "archived"] \in RevisionRow
        /\ [revision[n] EXCEPT !.status = "archived"].sources = revision[n].sources
        /\ [revision[n] EXCEPT !.status = "archived"].status = "archived"
    BY <1>0 DEF RevisionRow
  <2>3. /\ revision' \in [Revisions -> RevisionRow]
        /\ \A k \in Revisions : /\ revision'[k].sources = revision[k].sources
                                /\ revision'[k].status \in {revision[k].status, "archived"}
    BY <1>0, <2>1, <2>2 DEF PersonaTypes
  <2> QED  BY <2>1, <2>3, ArchivingKeeps
<1> QED
  BY <1>1, <1>2, <1>3, <1>4, <1>5, <1>6, <1>7, <1>8, <1>9, <1>10, <1>11, <1>12, <1>13 DEF PersonasNext

\* The invariant holds at the start.
LEMMA PersonasStart == PersonasInit => PersonasInv
<1> SUFFICES ASSUME PersonasInit PROVE PersonasInv
  OBVIOUS
<1>1. PersonaTypes  BY DEF PersonasInit, PersonaTypes, RevisionRow, NoPost
<1> QED
  BY <1>1 DEF PersonasInit, PersonasInv, OneStretch, ChangeIsHeard, SourceHolds, RevokedIsAnswered

\* WithdrawnIsPaused: a memory is active as long as its post is as it was, and what is revoked
\* is in no revision made later and answers from none that the owner did not publish again
\* (message_handler.py _revoke_message_memories, personas.py create_revision and
\* archive_by_memory).  Of each memory the exceptions are named: a change that came to nothing
\* or too soon, and a crash between the commits.
THEOREM WithdrawnStaysPaused == PersonasSpec => []WithdrawnIsPaused
<1>1. PersonasInit => PersonasInv
  BY PersonasStart
<1>2. PersonasInv /\ [PersonasNext]_personasVars => PersonasInv'
  BY PersonasStep
<1>3. PersonasInv => WithdrawnIsPaused
  <2> SUFFICES ASSUME PersonasInv, Settled, NEW i \in Memory
               PROVE  /\ item[i] = "active" =>
                           post[i[1]] = "sent" \/ i[1] \in lost \cup early \/ i \in dropped
                      /\ item[i] = "revoked" => \A n \in Revisions :
                           revision[n].status = "active" /\ i \in revision[n].sources =>
                             n \in before[i] /\ i \in renewed[n] \cup dropped
    BY DEF WithdrawnIsPaused
  <2>1. i[1] # source  BY MemoryHasPost, PersonasAssumption DEF Settled, NoPost
  <2>2. item[i] = "active" => post[i[1]] = "sent" \/ i[1] \in lost \cup early \/ i \in dropped
    BY <2>1 DEF PersonasInv, SourceHolds
  <2>3. ASSUME NEW n \in Revisions, item[i] = "revoked", revision[n].status = "active", i \in revision[n].sources
        PROVE  n \in before[i] /\ i \in renewed[n] \cup dropped
    BY <2>3 DEF PersonasInv, RevokedIsAnswered, Answered, Settled
  <2> QED  BY <2>2, <2>3
<1> QED  BY <1>1, <1>2, <1>3, PTL DEF PersonasSpec

-----------------------------------------------------------------------------
(* Personal Skills.                                                        *)

SkillTypes ==
  /\ case \in [Case -> {"absent", "candidate", "saved", "deleted"}]
  /\ drafted \in SUBSET Case /\ cites \in [Skill -> SUBSET Case]
  /\ skill \in [Skill -> [1..MaxSkillRevisions -> {"absent", "draft", "active", "archived"}]]

OneActive ==
  \A s \in Skill : \A n, k \in 1..MaxSkillRevisions :
    skill[s][n] = "active" /\ skill[s][k] = "active" => n = k

SavedCounted == IsFiniteSet(Saved) /\ Cardinality(Saved) <= MaxSaved

SkillsInv ==
  /\ SkillTypes /\ OneActive /\ SavedCounted
  /\ CitedCasesAreKept /\ ranWith \subseteq {"active"}

\* The quota is kept when one more case is saved with its leave.
LEMMA QuotaIsAsked ==
  ASSUME SavedCounted, NEW c \in Case, MaySave(c)
  PROVE  IsFiniteSet(Saved \cup {c}) /\ Cardinality(Saved \cup {c}) <= MaxSaved
<1>1. /\ IsFiniteSet(Saved \cup {c})
      /\ Cardinality(Saved) \in Nat
      /\ Cardinality(Saved \cup {c}) = IF c \in Saved THEN Cardinality(Saved) ELSE Cardinality(Saved) + 1
  BY FS_AddElement, FS_CardinalityType DEF SavedCounted
<1>2. MaxSaved \in Nat  BY PersonalSkillsAssumption
<1>3. CASE c \in Saved  BY <1>1, <1>3 DEF SavedCounted
<1>4. CASE c \notin Saved  BY <1>1, <1>2, <1>4 DEF MaySave
<1> QED  BY <1>3, <1>4

\* A step that saves one case with the quota's leave, or none, and touches no Skill.
LEMMA SavingKeeps ==
  ASSUME SkillsInv, NEW c \in Case, MaySave(c), case' = [case EXCEPT ![c] = "saved"],
         drafted' \in SUBSET Case, UNCHANGED <<skill, cites, ranWith>>
  PROVE  SkillsInv'
<1> USE DEF SkillsInv
<1>1. Saved' = Saved \cup {c}  BY DEF Saved, SkillTypes
<1>2. SavedCounted'  BY <1>1, QuotaIsAsked DEF SavedCounted
<1> QED  BY <1>1, <1>2 DEF SkillTypes, OneActive, CitedCasesAreKept

\* Messages, buttons, activation and the clean-up of cases keep the invariant.
LEMMA SkillsStep ==
  ASSUME SkillsInv, [SkillsNext]_skillsVars
  PROVE  SkillsInv'
<1> USE DEF SkillsInv, skillVars, casesVars, messageVars
<1>0. ASSUME UNCHANGED <<case, skill, cites>>, drafted' \in SUBSET Case, ranWith' \subseteq {"active"}
      PROVE  SkillsInv'
  <2>1. Saved' = Saved  BY <1>0 DEF Saved
  <2> QED  BY <1>0, <2>1 DEF SkillTypes, OneActive, SavedCounted, CitedCasesAreKept
\* A step that changes the revisions' statuses only.
<1>a. ASSUME UNCHANGED <<case, drafted, cites, ranWith>>, OneActive',
             skill' \in [Skill -> [1..MaxSkillRevisions -> {"absent", "draft", "active", "archived"}]]
      PROVE  SkillsInv'
  <2>1. Saved' = Saved  BY <1>a DEF Saved
  <2> QED  BY <1>a, <2>1 DEF SkillTypes, SavedCounted, CitedCasesAreKept
<1>1. CASE UNCHANGED skillsVars
  BY <1>0, <1>1 DEF skillsVars, SkillTypes
<1>2. CASE GiveUpDraft  BY <1>0, <1>2 DEF GiveUpDraft
<1>3. CASE CancelSession  BY <1>0, <1>3 DEF CancelSession, SkillTypes
<1>4. CASE FillInRun  BY <1>0, <1>4 DEF FillInRun, SkillTypes
<1>5. CASE FillInEdit
  <2>1. PICK s, n : skill' = [skill EXCEPT ![s][n] = "draft"]
    BY <1>5 DEF FillInEdit
  <2>2. /\ skill' \in [Skill -> [1..MaxSkillRevisions -> {"absent", "draft", "active", "archived"}]]
        /\ \A t \in Skill : \A k \in 1..MaxSkillRevisions : skill'[t][k] = "active" => skill[t][k] = "active"
    BY <2>1 DEF SkillTypes
  <2> QED  BY <1>5, <1>a, <2>2 DEF FillInEdit, OneActive
<1>6. CASE Classify  BY <1>0, <1>6 DEF Classify, SkillTypes
<1>7. CASE ClassifiedRun  BY <1>0, <1>7 DEF ClassifiedRun, SkillTypes
<1>8. CASE ClassifiedOther  BY <1>0, <1>8 DEF ClassifiedOther, SkillTypes
<1>9. CASE TurnWithSkill
  <2>1. ranWith' \subseteq {"active"}  BY <1>9 DEF TurnWithSkill, Requested
  <2> QED  BY <1>0, <1>9, <2>1 DEF TurnWithSkill, SkillTypes
<1>10. ASSUME NEW c \in Case, AttachCase(c) PROVE SkillsInv'
  <2>1. PICK gone \in SUBSET Deletable :
          case' = [k \in Case |-> CASE k = c -> "candidate" [] k \in gone -> "deleted" [] OTHER -> case[k]]
    BY <1>10 DEF AttachCase
  <2>2. \A k \in Case : /\ case'[k] \in {"absent", "candidate", "saved", "deleted"}
                        /\ case'[k] = "saved" <=> case[k] = "saved"
    BY <1>10, <2>1 DEF AttachCase, Deletable, Candidates, SkillTypes
  <2>3. Saved' = Saved  BY <2>2 DEF Saved
  <2>4. SkillTypes'  BY <1>10, <2>1, <2>2 DEF AttachCase, SkillTypes
  <2> QED  BY <1>10, <2>3, <2>4 DEF AttachCase, OneActive, SavedCounted, CitedCasesAreKept
<1>11. ASSUME NEW c \in Case, SaveForDraft(c) PROVE SkillsInv'
  <2>1. CASE MaySave(c)
    BY <1>11, <2>1, SavingKeeps DEF SaveForDraft, SkillTypes
  <2>2. CASE ~MaySave(c)
    BY <1>0, <1>11, <2>2 DEF SaveForDraft
  <2> QED  BY <2>1, <2>2
<1>12. ASSUME NEW c \in Case, NEW feedback \in {"kept", "helpful", "needs_improvement"}, SaveCase(c, feedback)
       PROVE  SkillsInv'
  BY <1>12, SavingKeeps DEF SaveCase, SkillTypes
<1>13. ASSUME NEW cases \in SUBSET Case, DraftFrom(cases) PROVE SkillsInv'
  BY <1>0, <1>13 DEF DraftFrom
<1>14. ASSUME NEW s \in Skill, BuildDraft(s) PROVE SkillsInv'
  <2>1. /\ drafted \subseteq Saved /\ skill' = [skill EXCEPT ![s][1] = "draft"]
        /\ cites' = [cites EXCEPT ![s] = drafted] /\ drafted' = {} /\ UNCHANGED <<case, ranWith>>
    BY <1>14 DEF BuildDraft, Buildable
  <2>2. /\ skill' \in [Skill -> [1..MaxSkillRevisions -> {"absent", "draft", "active", "archived"}]]
        /\ \A t \in Skill : \A k \in 1..MaxSkillRevisions : skill'[t][k] = "active" => skill[t][k] = "active"
    BY <2>1 DEF SkillTypes
  <2>3. Saved' = Saved  BY <2>1 DEF Saved
  <2>4. SkillTypes' /\ CitedCasesAreKept'
    BY <2>1, <2>2, <2>3 DEF SkillTypes, CitedCasesAreKept
  <2>5. OneActive'  BY <2>2 DEF OneActive
  <2> QED  BY <2>1, <2>3, <2>4, <2>5 DEF SavedCounted
<1>15. ASSUME NEW r \in Ref, ActivateSkill(r) PROVE SkillsInv'
  <2>1. r[1] \in Skill /\ r[2] \in 1..MaxSkillRevisions  BY DEF Ref
  <2>2. skill' = [skill EXCEPT ![r[1]] = [n \in 1..MaxSkillRevisions |->
             CASE n = r[2] -> "active"
               [] n # r[2] /\ skill[r[1]][n] = "active" -> "archived"
               [] OTHER -> skill[r[1]][n]]]
    BY <1>15, <2>1 DEF ActivateSkill, Activated, SkillTypes
  <2>3. \A n \in 1..MaxSkillRevisions :
          /\ skill'[r[1]][n] \in {"absent", "draft", "active", "archived"}
          /\ skill'[r[1]][n] = "active" => n = r[2]
    BY <2>1, <2>2 DEF SkillTypes
  <2>4. \A s \in Skill : s # r[1] => skill'[s] = skill[s]
    BY <2>2 DEF SkillTypes
  <2>5. OneActive'  BY <2>3, <2>4 DEF OneActive
  <2>6. skill' \in [Skill -> [1..MaxSkillRevisions -> {"absent", "draft", "active", "archived"}]]
    BY <2>1, <2>2 DEF SkillTypes
  <2> QED  BY <1>15, <1>a, <2>5, <2>6 DEF ActivateSkill
<1>16. ASSUME NEW r \in Ref, ArchiveSkill(r) PROVE SkillsInv'
  <2>1. skill' = [skill EXCEPT ![r[1]][r[2]] = "archived"]  BY <1>16 DEF ArchiveSkill
  <2>2. /\ skill' \in [Skill -> [1..MaxSkillRevisions -> {"absent", "draft", "active", "archived"}]]
        /\ \A t \in Skill : \A k \in 1..MaxSkillRevisions : skill'[t][k] = "active" => skill[t][k] = "active"
    BY <2>1 DEF SkillTypes
  <2> QED  BY <1>16, <1>a, <2>2 DEF ArchiveSkill, OneActive
<1>17. ASSUME NEW r \in Ref, NEW kind \in {"run", "edit"}, OpenSession(kind, r) PROVE SkillsInv'
  BY <1>0, <1>17 DEF OpenSession, SkillTypes
<1> QED  BY <1>1, <1>2, <1>3, <1>4, <1>5, <1>6, <1>7, <1>8, <1>9, <1>10, <1>11, <1>12, <1>13, <1>14,
            <1>15, <1>16, <1>17 DEF SkillsNext

\* The invariant holds at the start.
LEMMA SkillsStart == SkillsInit => SkillsInv
<1>1. ASSUME SkillsInit PROVE Saved = {}  BY <1>1 DEF SkillsInit, Saved
<1>2. ASSUME SkillsInit PROVE SavedCounted
  <2>1. MaxSaved \in Nat  BY PersonalSkillsAssumption
  <2> QED  BY <1>1, <1>2, <2>1, FS_EmptySet DEF SavedCounted
<1> QED  BY <1>2 DEF SkillsInit, SkillsInv, SkillTypes, OneActive, CitedCasesAreKept

\* SkillsAreSound: cited cases are kept (work_cases.py, personal_ui.py case_draft), only the
\* active revision of a Skill runs (personal_skills.py activate, PersonalSkillResolver), and
\* the quota of saved cases holds, however many cases, Skills and revisions there are.
THEOREM SkillsStaySound == SkillsSpec => []SkillsAreSound
<1>1. SkillsInit => SkillsInv
  BY SkillsStart
<1>2. SkillsInv /\ [SkillsNext]_skillsVars => SkillsInv'
  BY SkillsStep
<1>3. ASSUME SkillsInv PROVE SkillsAreSound
  <2>1. ASSUME NEW s \in Skill
        PROVE  Cardinality({n \in 1..MaxSkillRevisions : skill[s][n] = "active"}) <= 1
    <3> DEFINE A == {n \in 1..MaxSkillRevisions : skill[s][n] = "active"}
    <3>1. CASE A = {}  BY <3>1, FS_EmptySet
    <3>2. CASE A # {}
      <4>1. PICK n \in A : TRUE  BY <3>2
      <4>2. A = {n}  BY <1>3, <2>1, <4>1 DEF SkillsInv, OneActive
      <4>3. Cardinality({n}) = 1  BY FS_Singleton
      <4> HIDE DEF A
      <4>4. Cardinality(A) <= 1  BY <4>2, <4>3
      <4> QED  BY <4>4 DEF A
    <3> QED  BY <3>1, <3>2
  <2> QED  BY <1>3, <2>1 DEF SkillsAreSound, SkillsInv, OnlyTheActiveRuns, SavedWithinQuota, SavedCounted
<1> QED  BY <1>1, <1>2, <1>3, PTL DEF SkillsSpec

-----------------------------------------------------------------------------
(* Task drafts.                                                            *)

DecisionRow ==
  [at : {"idle", "loading", "guard", "assignee", "create", "complete", "done"},
   by : {"none", "requester", "other"}, commits : BOOLEAN, assigned : BOOLEAN,
   made : Seq(Nat), told : {"nothing", "unfinished", "committed", "rejected"}]

DraftTypes ==
  /\ draftState \in {"absent", "draft", "committing", "committed", "rejected"}
  /\ draftTasks \in Seq(Nat) /\ taskRows \in Seq([item : Item, assigned : BOOLEAN])
  /\ decision \in [Decider -> DecisionRow]

\* A place of ids names the task of item i.
Names(ids, i) == ids[i] \in DOMAIN taskRows /\ taskRows[ids[i]].item = i

RowsAreSingle == \A s, t \in DOMAIN taskRows : taskRows[s].item = taskRows[t].item => s = t

TasksNeedAClaim == taskRows # <<>> => draftState \in {"committing", "committed"}

CommittedNamesAll ==
  draftState = "committed" => Len(draftTasks) = ItemCount /\ \A i \in Item : Names(draftTasks, i)

\* What holds of a decision: what its user was told, and how far it is.
SoundDecision(r) ==
  /\ r.told \in {"committed", "rejected"} => draftState = r.told
  /\ r.at \in {"loading", "guard"} => draftState # "absent"
  /\ r.at = "guard" => r.made = <<>>
  /\ r.at \in {"assignee", "create", "complete"} =>
       /\ draftState \in {"committing", "committed"}
       /\ \A j \in DOMAIN r.made : Names(r.made, j)
       /\ IF r.at = "complete" THEN Len(r.made) = ItemCount ELSE Len(r.made) < ItemCount

DraftsInv ==
  /\ DraftTypes /\ RowsAreSingle /\ TasksNeedAClaim /\ CommittedNamesAll
  /\ posted => draftState # "absent"
  /\ \A d \in Decider : SoundDecision(decision[d])

\* Tasks are never deleted, and a draft goes from claimed to committed only and stays what it
\* was decided to be.
DraftGoesOn ==
  /\ \A t \in DOMAIN taskRows : t \in DOMAIN taskRows' /\ taskRows'[t] = taskRows[t]
  /\ draftState # "absent" => draftState' # "absent"
  /\ draftState \in {"committed", "rejected"} => draftState' = draftState
  /\ draftState = "committing" => draftState' \in {"committing", "committed"}

\* So what holds of the other decisions stays true.
LEMMA DecisionsStaySound ==
  ASSUME DraftsInv, DraftGoesOn, NEW d \in Decider, NEW r \in DecisionRow,
         decision' = [decision EXCEPT ![d] = r], SoundDecision(r)'
  PROVE  /\ decision' \in [Decider -> DecisionRow]
         /\ \A e \in Decider : SoundDecision(decision[e])'
<1>1. decision' \in [Decider -> DecisionRow]
  BY DEF DraftsInv, DraftTypes
<1>2. ASSUME NEW e \in Decider PROVE SoundDecision(decision[e])'
  <2>1. CASE e = d
    BY <2>1 DEF SoundDecision, Names, DraftsInv, DraftTypes
  <2>2. CASE e # d
    <3>1. decision'[e] = decision[e] /\ SoundDecision(decision[e])
      BY <2>2 DEF DraftsInv, DraftTypes
    <3> QED  BY <3>1 DEF SoundDecision, Names, DraftGoesOn
  <2> QED  BY <2>1, <2>2
<1> QED  BY <1>1, <1>2

\* A step of one decision that leaves draft and tasks alone.
LEMMA OneDecides ==
  ASSUME DraftsInv, UNCHANGED <<draftState, draftTasks, taskRows, posted>>,
         NEW d \in Decider, NEW r \in DecisionRow,
         decision' = [decision EXCEPT ![d] = r], SoundDecision(r)
  PROVE  DraftsInv'
<1>1. DraftGoesOn  BY DEF DraftGoesOn, DraftsInv, DraftTypes
<1>2. SoundDecision(r)'  BY DEF SoundDecision, Names
<1> QED  BY <1>1, <1>2, DecisionsStaySound
         DEF DraftsInv, DraftTypes, RowsAreSingle, TasksNeedAClaim, CommittedNamesAll, Names

\* The record behind Told.
LEMMA ToldRow ==
  ASSUME DraftTypes, NEW d \in Decider, NEW text \in {"unfinished", "committed", "rejected"}
  PROVE  \E r \in DecisionRow :
           /\ Told(d, text) = [decision EXCEPT ![d] = r]
           /\ r.at = "done"
           /\ r.told = IF decision[d].told = "nothing" THEN text ELSE decision[d].told
<1> DEFINE told == IF decision[d].told = "nothing" THEN text ELSE decision[d].told
           r == [[decision[d] EXCEPT !.at = "done"] EXCEPT !.told = told]
<1>1. decision[d] \in DecisionRow  BY DEF DraftTypes
<1>2. r \in DecisionRow /\ r.at = "done" /\ r.told = told
  BY <1>1 DEF DecisionRow
<1>3. Told(d, text) = [decision EXCEPT ![d] = r]
  BY <1>1 DEF Told, DraftTypes, DecisionRow
<1> QED  BY <1>2, <1>3

\* A decision that has not begun is a decision row that has told nobody anything.
LEMMA BlankRow ==
  /\ NotStarted \in DecisionRow
  /\ NotStarted.at = "idle" /\ NotStarted.made = <<>> /\ NotStarted.told = "nothing"
<1>1. <<>> \in Seq(Nat)  OBVIOUS
<1> QED  BY <1>1 DEF NotStarted, DecisionRow

\* The record behind Opened.
LEMMA OpenedRow ==
  ASSUME DraftsInv, draftState # "absent", NEW d \in Decider, NEW b \in Button
  PROVE  \E r \in DecisionRow :
           /\ Opened(d, b) = [decision EXCEPT ![d] = r]
           /\ SoundDecision(r)
<1>1. decision[d] \in DecisionRow /\ SoundDecision(decision[d]) /\ <<>> \in Seq(Nat)
  BY DEF DraftsInv, DraftTypes
<1>2. PICK by \in {"none", "requester", "other"}, told \in {"nothing", "unfinished", "committed", "rejected"},
           commits \in BOOLEAN :
        by = decision[d].by /\ told = decision[d].told /\ commits = (b = "commit")
  BY <1>1 DEF DecisionRow
<1>3. by \in {"none", "requester", "other"} /\ told \in {"nothing", "unfinished", "committed", "rejected"}
  BY <1>2
<1> DEFINE start == [NotStarted EXCEPT !.commits = commits, !.by = by, !.told = told]
           over(text) == [start EXCEPT !.at = "done", !.told = IF @ = "nothing" THEN text ELSE @]
           r == CASE commits /\ draftState = "committed" -> over("committed")
                  [] ~commits /\ draftState = "rejected" -> over("rejected")
                  [] OTHER -> [start EXCEPT !.at = "guard"]
<1>4. Opened(d, b) = [decision EXCEPT ![d] = r]
  BY <1>2 DEF Opened
<1>5. start \in DecisionRow /\ start.made = <<>> /\ start.told = told
  BY <1>3, BlankRow DEF DecisionRow
<1> HIDE DEF start
<1>6. PICK s \in DecisionRow : s = start /\ s.made = <<>> /\ s.told = told
  BY <1>5
<1>7. ASSUME NEW text \in {"committed", "rejected"}
      PROVE  /\ over(text) \in DecisionRow
             /\ over(text).at = "done" /\ over(text).told \in {told, text}
  <2>1. over(text) = [[s EXCEPT !.at = "done"] EXCEPT !.told = IF told = "nothing" THEN text ELSE told]
    BY <1>6 DEF DecisionRow
  <2> QED  BY <2>1, <1>3 DEF DecisionRow
<1>8. /\ [start EXCEPT !.at = "guard"] \in DecisionRow
      /\ [start EXCEPT !.at = "guard"].at = "guard"
      /\ [start EXCEPT !.at = "guard"].made = <<>>
      /\ [start EXCEPT !.at = "guard"].told = told
  BY <1>6 DEF DecisionRow
<1> HIDE DEF over
<1>9. /\ r \in DecisionRow
      /\ \/ r.at = "guard" /\ r.made = <<>> /\ r.told = told
         \/ r.at = "done" /\ r.told \in {told, draftState}
  BY <1>7, <1>8
<1> HIDE DEF r
<1>10. SoundDecision(r)
  BY <1>1, <1>2, <1>9 DEF SoundDecision
<1> QED  BY <1>4, <1>9, <1>10

\* Told with a text that is true of the draft.
LEMMA ToldKeeps ==
  ASSUME DraftsInv, UNCHANGED <<draftState, draftTasks, taskRows, posted>>,
         NEW d \in Decider, NEW text \in {"unfinished", "committed", "rejected"},
         text = "unfinished" \/ draftState = text, decision' = Told(d, text)
  PROVE  DraftsInv'
<1>1. DraftTypes /\ SoundDecision(decision[d])  BY DEF DraftsInv
<1>2. PICK r \in DecisionRow :
           /\ Told(d, text) = [decision EXCEPT ![d] = r]
           /\ r.at = "done"
           /\ r.told = IF decision[d].told = "nothing" THEN text ELSE decision[d].told
  BY <1>1, ToldRow
<1>3. SoundDecision(r)  BY <1>1, <1>2 DEF SoundDecision
<1> QED  BY <1>2, <1>3, OneDecides

\* A decision that begins, by a button or a command, disturbs nothing (TaskDraftService.decide).
LEMMA OpenedKeeps ==
  ASSUME DraftsInv, NEW d \in Decider, NEW b \in Button, decision' = Opened(d, b),
         draftState # "absent", UNCHANGED <<draftState, draftTasks, taskRows, posted>>
  PROVE  DraftsInv'
<1>1. PICK r \in DecisionRow : Opened(d, b) = [decision EXCEPT ![d] = r] /\ SoundDecision(r)
  BY OpenedRow
<1> QED  BY <1>1, OneDecides

\* create: the item's task is made, unless it has one, and its id is noted.
LEMMA CreateKeeps ==
  ASSUME DraftsInv, NEW d \in Decider, CreateTask(d)
  PROVE  DraftsInv'
<1> DEFINE i == Len(decision[d].made) + 1
           refused == decision[d].assigned /\ ~member
           id == IF ExistingTask(i) = {} THEN Len(taskRows) + 1 ELSE CHOOSE t \in ExistingTask(i) : TRUE
<1>1. /\ decision[d] \in DecisionRow /\ SoundDecision(decision[d]) /\ decision[d].at = "create"
      /\ ItemCount \in Nat /\ taskRows \in Seq([item : Item, assigned : BOOLEAN])
  BY TaskDraftsAssumption DEF DraftsInv, DraftTypes, CreateTask
<1>2. /\ UNCHANGED <<draftState, draftTasks, posted>> /\ draftState \in {"committing", "committed"}
      /\ \A j \in DOMAIN decision[d].made : Names(decision[d].made, j)
      /\ decision[d].made \in Seq(Nat) /\ Len(decision[d].made) < ItemCount
  BY <1>1 DEF CreateTask, SoundDecision, DecisionRow
<1>3. CASE refused
  <2>1. decision' = Told(d, "unfinished") /\ UNCHANGED taskRows
    BY <1>3 DEF CreateTask
  <2> QED  BY <1>2, <2>1, ToldKeeps
<1>4. CASE ~refused
  <2>1. i \in Item /\ i \in Nat
    BY <1>1, <1>2 DEF Item
  <2>2. decision[d].assigned \in BOOLEAN  BY <1>1 DEF DecisionRow
  <2>3. /\ id \in DOMAIN taskRows' /\ taskRows'[id].item = i /\ id \in Nat
        /\ \A t \in DOMAIN taskRows : t \in DOMAIN taskRows' /\ taskRows'[t] = taskRows[t]
        /\ taskRows' \in Seq([item : Item, assigned : BOOLEAN]) /\ RowsAreSingle'
    <3>1. CASE ExistingTask(i) = {}
      <4>1. PICK row \in [item : Item, assigned : BOOLEAN] : row.item = i /\ taskRows' = Append(taskRows, row)
        BY <1>4, <2>1, <2>2, <3>1 DEF CreateTask
      <4>2. /\ Len(taskRows') = Len(taskRows) + 1 /\ Len(taskRows) \in Nat
            /\ DOMAIN taskRows = 1..Len(taskRows) /\ DOMAIN taskRows' = 1..(Len(taskRows) + 1)
            /\ taskRows' \in Seq([item : Item, assigned : BOOLEAN])
            /\ taskRows'[Len(taskRows) + 1] = row
            /\ \A t \in 1..Len(taskRows) : taskRows'[t] = taskRows[t]
        BY <1>1, <4>1
      <4>3. \A t \in DOMAIN taskRows : taskRows[t].item # i
        BY <3>1 DEF ExistingTask, TasksOf
      <4>4. id = Len(taskRows) + 1  BY <3>1
      <4>5. RowsAreSingle'
        BY <4>1, <4>2, <4>3 DEF RowsAreSingle, DraftsInv
      <4> QED  BY <4>1, <4>2, <4>4, <4>5
    <3>2. CASE ExistingTask(i) # {}
      <4>1. taskRows' = taskRows  BY <1>4, <3>2 DEF CreateTask
      <4>2. id \in ExistingTask(i)  BY <3>2
      <4>3. id \in DOMAIN taskRows /\ taskRows[id].item = i  BY <4>2 DEF ExistingTask, TasksOf
      <4> QED  BY <1>1, <4>1, <4>3 DEF RowsAreSingle, DraftsInv
    <3> QED  BY <3>1, <3>2
  <2>4. decision' = [decision EXCEPT ![d].made = Append(@, id),
                                     ![d].at = IF i = ItemCount THEN "complete" ELSE "assignee"]
    BY <1>4 DEF CreateTask
  <2> HIDE DEF id
  <2>5. PICK new \in Nat : new = id  BY <2>3
  <2>a. \A s \in Seq(Nat) : Append(s, new) \in Seq(Nat)  OBVIOUS
  <2>6. PICK made \in Seq(Nat) : made = Append(decision[d].made, new)  BY <1>2, <2>a
  <2>7. PICK at \in {"complete", "assignee"} : at = IF i = ItemCount THEN "complete" ELSE "assignee"
    OBVIOUS
  <2>8. PICK r \in DecisionRow : r = [[decision[d] EXCEPT !.made = made] EXCEPT !.at = at]
    BY <1>1 DEF DecisionRow
  <2>9. r.made = made /\ r.at = at /\ r.told = decision[d].told
    BY <1>1, <2>8 DEF DecisionRow
  <2>10. decision' = [decision EXCEPT ![d] = r]
    BY <2>4, <2>5, <2>6, <2>7, <2>8 DEF DraftsInv, DraftTypes
  <2>11. DraftGoesOn  BY <1>2, <2>3 DEF DraftGoesOn
  <2>12. \A j \in DOMAIN made : Names(made, j)'
    <3>1. /\ Len(made) = Len(decision[d].made) + 1 /\ DOMAIN made = 1..(Len(decision[d].made) + 1)
          /\ made[Len(decision[d].made) + 1] = new /\ Len(decision[d].made) \in Nat
          /\ \A j \in 1..Len(decision[d].made) : made[j] = decision[d].made[j] /\ j \in DOMAIN decision[d].made
      BY <1>2, <2>6
    <3>2. ASSUME NEW j \in DOMAIN made PROVE made[j] \in DOMAIN taskRows' /\ taskRows'[made[j]].item = j
      <4>1. CASE j = i  BY <2>3, <2>5, <3>1, <4>1
      <4>2. CASE j # i
        <5>1. j \in 1..Len(decision[d].made)  BY <3>1, <3>2, <4>2
        <5> QED  BY <1>2, <2>3, <3>1, <5>1 DEF Names
      <4> QED  BY <4>1, <4>2
    <3> QED  BY <3>2 DEF Names
  <2>13. /\ r.at = "complete" => Len(made) = ItemCount
         /\ r.at = "assignee" => Len(made) < ItemCount
    BY <1>1, <1>2, <2>6, <2>7, <2>9
  <2>14. SoundDecision(r)'
    BY <1>1, <1>2, <2>7, <2>9, <2>12, <2>13 DEF SoundDecision
  <2>15. /\ decision' \in [Decider -> DecisionRow]
         /\ \A e \in Decider : SoundDecision(decision[e])'
    BY <2>10, <2>11, <2>14, DecisionsStaySound
  <2> QED  BY <1>2, <2>3, <2>15 DEF DraftsInv, DraftTypes, TasksNeedAClaim, CommittedNamesAll, Names
<1> QED  BY <1>3, <1>4

\* complete: the draft is committed with what this decision made, unless another was first.
LEMMA CompleteKeeps ==
  ASSUME DraftsInv, NEW d \in Decider, CompleteDraft(d)
  PROVE  DraftsInv'
<1>1. /\ DraftTypes /\ SoundDecision(decision[d]) /\ decision[d] \in DecisionRow
      /\ decision[d].at = "complete" /\ ItemCount \in Nat
  BY TaskDraftsAssumption DEF DraftsInv, DraftTypes, CompleteDraft
<1>2. /\ draftState \in {"committing", "committed"} /\ decision[d].made \in Seq(Nat)
      /\ Len(decision[d].made) = ItemCount
      /\ \A j \in DOMAIN decision[d].made : Names(decision[d].made, j)
  BY <1>1 DEF SoundDecision, DecisionRow
<1>3. /\ draftState' = "committed" /\ UNCHANGED <<taskRows, posted>> /\ decision' = Told(d, "committed")
      /\ draftTasks' = IF draftState = "committing" THEN decision[d].made ELSE draftTasks
  BY <1>2 DEF CompleteDraft
<1>4. PICK r \in DecisionRow :
           /\ Told(d, "committed") = [decision EXCEPT ![d] = r]
           /\ r.at = "done"
           /\ r.told = IF decision[d].told = "nothing" THEN "committed" ELSE decision[d].told
  BY <1>1, ToldRow
<1>5. DraftGoesOn  BY <1>2, <1>3 DEF DraftGoesOn
<1>6. SoundDecision(r)'
  BY <1>1, <1>2, <1>3, <1>4 DEF SoundDecision
<1>7. /\ decision' \in [Decider -> DecisionRow]
      /\ \A e \in Decider : SoundDecision(decision[e])'
  BY <1>3, <1>4, <1>5, <1>6, DecisionsStaySound
<1>8. CommittedNamesAll'
  <2>1. CASE draftState = "committing"
    <3>1. DOMAIN decision[d].made = Item  BY <1>1, <1>2 DEF Item
    <3> QED  BY <1>2, <1>3, <2>1, <3>1 DEF CommittedNamesAll, Names
  <2>2. CASE draftState # "committing"
    BY <1>2, <1>3, <2>2 DEF CommittedNamesAll, Names, DraftsInv
  <2> QED  BY <2>1, <2>2
<1>9. DraftTypes'  BY <1>1, <1>2, <1>3, <1>7 DEF DraftTypes
<1> QED  BY <1>3, <1>7, <1>8, <1>9 DEF DraftsInv, RowsAreSingle, TasksNeedAClaim

\* Every await of a decision, its failure, its timeout and a crash keep the invariant.
LEMMA DraftsStep ==
  ASSUME DraftsInv, [DraftsNext]_draftVars
  PROVE  DraftsInv'
<1>0. /\ DraftTypes /\ \A d \in Decider : decision[d] \in DecisionRow /\ SoundDecision(decision[d])
  BY DEF DraftsInv, DraftTypes
<1>a. ASSUME UNCHANGED <<draftState, draftTasks, taskRows, posted, decision>> PROVE DraftsInv'
  BY <1>a DEF DraftsInv, DraftTypes, RowsAreSingle, TasksNeedAClaim, CommittedNamesAll, Names, SoundDecision
<1>1. CASE UNCHANGED draftVars  BY <1>a, <1>1 DEF draftVars
<1>2. CASE Attach
  <2>1. CASE draftState = "absent"
    <3>1. /\ draftState' = "draft" /\ UNCHANGED <<draftTasks, taskRows, posted, decision>>
      BY <1>2, <2>1 DEF Attach
    <3> QED  BY <2>1, <3>1
             DEF DraftsInv, DraftTypes, RowsAreSingle, TasksNeedAClaim, CommittedNamesAll, Names, SoundDecision
  <2>2. CASE draftState # "absent"  BY <1>2, <1>a, <2>2 DEF Attach
  <2> QED  BY <2>1, <2>2
<1>3. CASE PostReport
  BY <1>3 DEF PostReport, DraftsInv, DraftTypes, RowsAreSingle, TasksNeedAClaim, CommittedNamesAll, Names,
              SoundDecision
<1>4. CASE MemberChanges  BY <1>4, <1>a DEF MemberChanges
<1>5. CASE CrashDrafts
  <2>1. /\ UNCHANGED <<draftState, draftTasks, taskRows, posted>>
        /\ decision' = [d \in Decider |-> IF decision[d].at = "idle" THEN NotStarted
                                          ELSE [decision[d] EXCEPT !.at = "done"]]
    BY <1>5 DEF CrashDrafts
  <2>2. ASSUME NEW d \in Decider
        PROVE  /\ decision'[d] \in DecisionRow /\ decision'[d].at \in {"idle", "done"}
               /\ decision'[d].told \in {"nothing", decision[d].told}
    <3>1. CASE decision[d].at = "idle"
      <4>1. decision'[d] = NotStarted  BY <2>1, <3>1
      <4> QED  BY <4>1, BlankRow
    <3>2. CASE decision[d].at # "idle"
      <4>1. decision'[d] = [decision[d] EXCEPT !.at = "done"]  BY <2>1, <3>2
      <4> QED  BY <1>0, <4>1 DEF DecisionRow
    <3> QED  BY <3>1, <3>2
  <2>3. DraftTypes'
    BY <1>0, <2>1, <2>2 DEF DraftTypes
  <2>4. ASSUME NEW d \in Decider PROVE SoundDecision(decision[d])'
    BY <1>0, <2>1, <2>2 DEF SoundDecision
  <2> QED  BY <2>1, <2>3, <2>4 DEF DraftsInv, RowsAreSingle, TasksNeedAClaim, CommittedNamesAll, Names
<1>6. ASSUME NEW b \in Button, ButtonExpires(b) PROVE DraftsInv'
  BY <1>6, <1>a DEF ButtonExpires
<1>7. ASSUME NEW d \in Decider, Consume(d) PROVE DraftsInv'
  <2>1. UNCHANGED <<draftState, draftTasks, taskRows, posted>> /\ draftState # "absent"
    BY <1>0, <1>7 DEF Consume, SoundDecision
  <2>2. PICK b \in Button : decision' = Opened(d, b) \/ decision' = Told(d, "unfinished")
    BY <1>7 DEF Consume, Button
  <2> QED  BY <2>1, <2>2, OpenedKeeps, ToldKeeps
<1>8. ASSUME NEW d \in Decider, CallbackTimesOut(d) PROVE DraftsInv'
  <2>1. /\ UNCHANGED <<draftState, draftTasks, taskRows, posted>>
        /\ decision' = [decision EXCEPT ![d] = [decision[d] EXCEPT !.told = "unfinished"]]
    BY <1>0, <1>8 DEF CallbackTimesOut, DraftTypes
  <2>2. PICK r \in DecisionRow : r = [decision[d] EXCEPT !.told = "unfinished"]
    BY <1>0 DEF DecisionRow
  <2>3. SoundDecision(r)
    BY <1>0, <2>2 DEF SoundDecision, DecisionRow
  <2> QED  BY <2>1, <2>2, <2>3, OneDecides
<1>9. ASSUME NEW d \in Decider, Raises(d) PROVE DraftsInv'
  BY <1>9, ToldKeeps DEF Raises
<1>10. ASSUME NEW d \in Decider, RejectDraft(d) PROVE DraftsInv'
  <2>1. CASE ~Rejectable
    BY <1>10, <2>1, ToldKeeps DEF RejectDraft
  <2>2. CASE Rejectable
    <3>1. /\ draftState \in {"draft", "rejected"} /\ draftState' = "rejected" /\ decision' = Told(d, "rejected")
          /\ UNCHANGED <<draftTasks, taskRows, posted>>
      BY <1>10, <2>2 DEF RejectDraft, Rejectable
    <3>2. PICK r \in DecisionRow :
               /\ Told(d, "rejected") = [decision EXCEPT ![d] = r]
               /\ r.at = "done"
               /\ r.told = IF decision[d].told = "nothing" THEN "rejected" ELSE decision[d].told
      BY <1>0, ToldRow
    <3>3. DraftGoesOn  BY <3>1 DEF DraftGoesOn
    <3>4. SoundDecision(r)'
      BY <1>0, <3>1, <3>2 DEF SoundDecision
    <3>5. /\ decision' \in [Decider -> DecisionRow]
          /\ \A e \in Decider : SoundDecision(decision[e])'
      BY <3>1, <3>2, <3>3, <3>4, DecisionsStaySound
    <3>6. taskRows = <<>>  BY <3>1 DEF DraftsInv, TasksNeedAClaim
    <3> QED  BY <3>1, <3>5, <3>6 DEF DraftsInv, DraftTypes, RowsAreSingle, TasksNeedAClaim, CommittedNamesAll
  <2> QED  BY <2>1, <2>2
<1>11. ASSUME NEW d \in Decider, ClaimCommit(d) PROVE DraftsInv'
  <2>1. /\ UNCHANGED <<draftTasks, taskRows, posted>> /\ decision[d].at = "guard"
        /\ decision[d].made = <<>> /\ draftState # "absent"
    BY <1>0, <1>11 DEF ClaimCommit, SoundDecision
  <2>2. CASE draftState = "committed"
    BY <1>11, <2>2, ToldKeeps DEF ClaimCommit
  <2>3. CASE draftState = "rejected"
    BY <1>11, <2>3, ToldKeeps DEF ClaimCommit
  <2>4. CASE draftState \notin {"committed", "rejected"}
    <3>1. /\ decision' = [decision EXCEPT ![d] = [decision[d] EXCEPT !.at = "assignee"]]
          /\ draftState' = IF draftState = "draft" THEN "committing" ELSE draftState
      BY <1>0, <1>11, <2>4 DEF ClaimCommit, DraftTypes
    <3> QED
      <4>1. draftState' = "committing"  BY <1>0, <2>1, <2>4, <3>1 DEF DraftTypes
      <4>2. PICK r \in DecisionRow : r = [decision[d] EXCEPT !.at = "assignee"]
        BY <1>0 DEF DecisionRow
      <4>3. r.at = "assignee" /\ r.made = <<>> /\ r.told = decision[d].told
        BY <1>0, <2>1, <4>2 DEF DecisionRow
      <4>4. Len(<<>>) < ItemCount /\ DOMAIN <<>> = {}
        BY TaskDraftsAssumption
      <4>5. SoundDecision(r)'
        BY <1>0, <2>4, <4>1, <4>3, <4>4 DEF SoundDecision
      <4>6. DraftGoesOn  BY <2>1, <2>4, <4>1 DEF DraftGoesOn
      <4>7. /\ decision' \in [Decider -> DecisionRow]
            /\ \A e \in Decider : SoundDecision(decision[e])'
        BY <3>1, <4>2, <4>5, <4>6, DecisionsStaySound
      <4> QED  BY <2>1, <4>1, <4>7 DEF DraftsInv, DraftTypes, RowsAreSingle, TasksNeedAClaim, CommittedNamesAll
  <2> QED  BY <2>2, <2>3, <2>4
<1>12. ASSUME NEW d \in Decider, CheckAssignee(d) PROVE DraftsInv'
  <2>1. PICK assigned \in BOOLEAN : assigned = (Len(decision[d].made) + 1 \in candidate /\ member)
    OBVIOUS
  <2>2. /\ UNCHANGED <<draftState, draftTasks, taskRows, posted>> /\ decision[d].at = "assignee"
        /\ decision' = [decision EXCEPT ![d] = [[decision[d] EXCEPT !.at = "create"] EXCEPT !.assigned = assigned]]
    BY <1>0, <1>12, <2>1 DEF CheckAssignee, DraftTypes
  <2>3. PICK r \in DecisionRow : r = [[decision[d] EXCEPT !.at = "create"] EXCEPT !.assigned = assigned]
    BY <1>0 DEF DecisionRow
  <2>4. r.at = "create" /\ r.made = decision[d].made /\ r.told = decision[d].told
    BY <1>0, <2>3 DEF DecisionRow
  <2>5. SoundDecision(r)
    BY <1>0, <2>2, <2>4 DEF SoundDecision
  <2> QED  BY <2>2, <2>3, <2>5, OneDecides
<1>13. ASSUME NEW d \in Decider, CreateTask(d) PROVE DraftsInv'
  BY <1>13, CreateKeeps
<1>14. ASSUME NEW d \in Decider, CompleteDraft(d) PROVE DraftsInv'
  BY <1>14, CompleteKeeps
<1>15. ASSUME NEW d \in Decider, NEW b \in Button, Command(d, b) PROVE DraftsInv'
  BY <1>15, OpenedKeeps DEF Command, DraftsInv
<1>16. ASSUME NEW d \in Decider, NEW b \in Button, NEW who \in {"requester", "other"}, Click(d, b, who)
       PROVE  DraftsInv'
  <2>1. PICK commits \in BOOLEAN : commits = (b = "commit")  OBVIOUS
  <2>2. /\ UNCHANGED <<draftState, draftTasks, taskRows, posted>>
        /\ decision' = [decision EXCEPT ![d] = [NotStarted EXCEPT !.at = "loading", !.by = who, !.commits = commits]]
    BY <1>16, <2>1 DEF Click
  <2>3. PICK r \in DecisionRow : r = [NotStarted EXCEPT !.at = "loading", !.by = who, !.commits = commits]
    BY BlankRow DEF DecisionRow
  <2>4. r.at = "loading" /\ r.told = "nothing"
    BY <2>3, BlankRow DEF DecisionRow
  <2>5. SoundDecision(r)  BY <1>16, <2>4 DEF SoundDecision, Click, DraftsInv
  <2> QED  BY <2>2, <2>3, <2>5, OneDecides
<1> QED  BY <1>1, <1>2, <1>3, <1>4, <1>5, <1>6, <1>7, <1>8, <1>9, <1>10, <1>11, <1>12, <1>13, <1>14,
            <1>15, <1>16 DEF DraftsNext

\* The invariant holds at the start.
LEMMA DraftsStart == DraftsInit => DraftsInv
<1> SUFFICES ASSUME DraftsInit PROVE DraftsInv  OBVIOUS
<1>1. DraftTypes /\ \A d \in Decider : decision[d] = NotStarted
  BY BlankRow DEF DraftsInit, DraftTypes
<1> QED  BY <1>1, BlankRow
         DEF DraftsInit, DraftsInv, RowsAreSingle, TasksNeedAClaim, CommittedNamesAll, SoundDecision

\* DraftsKeepTheirWord: one task for an item and what users were told stays true, for every
\* number of items and of overlapping confirmations, commands and crashes (task_drafts.py
\* decide, claim_commit, complete; TaskRepository.create).
THEOREM DraftsAreAsTold == DraftsSpec => []DraftsKeepTheirWord
<1>1. DraftsInit => DraftsInv
  BY DraftsStart
<1>2. DraftsInv /\ [DraftsNext]_draftVars => DraftsInv'
  BY DraftsStep
<1>3. DraftsInv => DraftsKeepTheirWord
  BY DEF DraftsInv, DraftsKeepTheirWord, OneTaskPerItem, DraftAnswersHold, RowsAreSingle, TasksNeedAClaim,
         CommittedNamesAll, Names, SoundDecision
<1> QED  BY <1>1, <1>2, <1>3, PTL DEF DraftsSpec

-----------------------------------------------------------------------------
(* Artifacts.                                                              *)

Hashes == Content \cup {"none"}

CommitRow ==
  [of : Output \cup {"nothing"}, at : {"idle", "inspect", "copy", "replace", "insert"}, hash : Hashes]

ArtifactTypes ==
  /\ staged \in [Output -> Hashes] /\ tmpDir \in [Output -> Hashes]
  /\ artifactDir \in [Output -> Hashes] /\ artifactRow \in [Output -> Hashes]
  /\ up \in {"yes", "no"} /\ commit \in CommitRow
  /\ commit = NoCommit \/ (up = "yes" /\ commit.of \in Output)

\* How far the commit under way is; a directory without a row is its own or waits for the start.
CommitIsSafe ==
  /\ commit.at \in {"copy", "replace", "insert"} => artifactRow[commit.of] = "none"
  /\ commit.at = "insert" => artifactDir[commit.of] = commit.hash
  /\ up = "yes" => \A o \in Output :
       artifactDir[o] # "none" => o \in Committed \/ (o = commit.of /\ commit.at = "insert")

RowsAreWhole == IsFiniteSet(Committed) /\ \A o \in Committed : artifactDir[o] = artifactRow[o]

\* files are those of the first artifacts of the message.
FirstFiles(files) ==
  /\ files \in Seq(Hashes) /\ Len(files) <= Len(refs)
  /\ \A j \in 1..Len(files) : files[j] = artifactRow[refs[j]]

PostIsWhole ==
  /\ refs \in Seq(Output) /\ \A j \in 1..Len(refs) : refs[j] \in Committed
  /\ FirstFiles(fileIds) /\ (sending # <<"idle">> => FirstFiles(sending))
  /\ sentFiles # <<>> => FirstFiles(sentFiles) /\ Len(sentFiles) = Len(refs) /\ refs # <<>>

ArtifactsInv == ArtifactTypes /\ CommitIsSafe /\ RowsAreWhole /\ PostIsWhole

\* No commit under way is a commit row.
LEMMA NoCommitRow == NoCommit \in CommitRow /\ NoCommit.at = "idle"
BY DEF NoCommit, CommitRow, Hashes

\* A step of an execution or of a commit leaves the message alone: rows do not change once
\* they are there.
LEMMA PostStays ==
  ASSUME PostIsWhole, UNCHANGED delivering,
         \A o \in Output : artifactRow[o] # "none" => artifactRow'[o] = artifactRow[o]
  PROVE  PostIsWhole'
<1>1. /\ UNCHANGED <<fileIds, sending, refs, sentFiles>>
      /\ refs \in Seq(Output) /\ \A j \in 1..Len(refs) : refs[j] \in Output /\ artifactRow[refs[j]] # "none"
  BY DEF PostIsWhole, delivering, Committed
<1>2. ASSUME NEW files, FirstFiles(files)
      PROVE  /\ files \in Seq(Hashes) /\ Len(files) <= Len(refs)
             /\ \A j \in 1..Len(files) : files[j] = artifactRow'[refs[j]]
  <2>1. Len(files) \in Nat /\ Len(refs) \in Nat  BY <1>1, <1>2 DEF FirstFiles
  <2>2. \A j \in 1..Len(files) : j \in 1..Len(refs)  BY <1>2, <2>1 DEF FirstFiles
  <2> QED  BY <1>1, <1>2, <2>2 DEF FirstFiles
<1>3. FirstFiles(fileIds)'  BY <1>1, <1>2 DEF FirstFiles, PostIsWhole
<1>4. (sending # <<"idle">> => FirstFiles(sending))'  BY <1>1, <1>2 DEF FirstFiles, PostIsWhole
<1>5. (sentFiles # <<>> => FirstFiles(sentFiles) /\ Len(sentFiles) = Len(refs) /\ refs # <<>>)'
  BY <1>1, <1>2 DEF FirstFiles, PostIsWhole
<1>6. \A j \in 1..Len(refs) : artifactRow'[refs[j]] # "none"  BY <1>1
<1> QED  BY <1>1, <1>3, <1>4, <1>5, <1>6 DEF PostIsWhole, Committed

\* A step that touches staged files, processes and the commit only.
LEMMA DiskStays ==
  ASSUME ArtifactsInv, UNCHANGED <<disk, up, delivering>>, staged' \in [Output -> Hashes],
         \/ commit' = commit
         \/ commit' = NoCommit /\ commit.at # "insert"
         \/ commit'.of \in Output /\ commit' \in CommitRow /\ commit.at # "insert" /\ up = "yes"
            /\ commit'.at # "insert"
            /\ (commit'.at \in {"copy", "replace"} => artifactRow[commit'.of] = "none")
  PROVE  ArtifactsInv'
<1>1. NoCommit \in CommitRow /\ NoCommit.at = "idle"  BY NoCommitRow
<1>2. UNCHANGED <<tmpDir, artifactDir, artifactRow>>  BY DEF disk
<1>3. ArtifactTypes'  BY <1>1, <1>2 DEF ArtifactsInv, ArtifactTypes, Hashes
<1>4. CommitIsSafe'
  <2>1. CASE commit' = commit  BY <1>2, <2>1 DEF ArtifactsInv, CommitIsSafe, Committed
  <2>2. CASE commit' = NoCommit /\ commit.at # "insert"
    BY <1>1, <1>2, <2>2 DEF ArtifactsInv, CommitIsSafe, Committed
  <2>3. CASE commit.at # "insert" /\ commit'.at # "insert"
             /\ (commit'.at \in {"copy", "replace"} => artifactRow[commit'.of] = "none")
    BY <1>2, <2>3 DEF ArtifactsInv, CommitIsSafe, Committed
  <2> QED  BY <2>1, <2>2, <2>3
<1>5. RowsAreWhole'  BY <1>2 DEF ArtifactsInv, RowsAreWhole, Committed
<1>6. PostIsWhole'  BY <1>2, PostStays DEF ArtifactsInv
<1> QED  BY <1>3, <1>4, <1>5, <1>6 DEF ArtifactsInv

\* What the disk keeps of the other outputs has the type of the directory.
LEMMA KeptTyped ==
  ASSUME ArtifactTypes, NEW o \in Output
  PROVE  Kept(o) \in [Output -> Hashes]
BY DEF Kept, ArtifactTypes, Hashes

\* A commit that raises takes its directories with it.
LEMMA FailedCommitKeeps ==
  ASSUME ArtifactsInv, NEW o \in Output, commit.of = o, commit.at \in {"replace", "insert"}, up = "yes",
         CommitFails(o), UNCHANGED <<up, delivering>>
  PROVE  ArtifactsInv'
<1>1. /\ tmpDir' = [tmpDir EXCEPT ![o] = "none"] /\ artifactDir' = [artifactDir EXCEPT ![o] = "none"]
      /\ commit' = NoCommit /\ staged' = Kept(o) /\ artifactRow' = artifactRow
  BY DEF CommitFails, Ended
<1>2. NoCommit \in CommitRow /\ NoCommit.at = "idle"  BY NoCommitRow
<1>3. ArtifactTypes'  BY <1>1, <1>2, KeptTyped DEF ArtifactsInv, ArtifactTypes, Hashes
<1>4. artifactRow[o] = "none"  BY DEF ArtifactsInv, CommitIsSafe
<1>5. Committed' = Committed /\ o \notin Committed  BY <1>1, <1>4 DEF Committed
<1>6. \A k \in Output : k # o => artifactDir'[k] = artifactDir[k]
  BY <1>1 DEF ArtifactsInv, ArtifactTypes
<1>7. artifactDir'[o] = "none"  BY <1>1 DEF ArtifactsInv, ArtifactTypes
<1>8. CommitIsSafe'  BY <1>1, <1>2, <1>5, <1>6, <1>7 DEF ArtifactsInv, CommitIsSafe
<1>9. RowsAreWhole'  BY <1>1, <1>5, <1>6 DEF ArtifactsInv, RowsAreWhole, Committed
<1>10. PostIsWhole'  BY <1>1, PostStays DEF ArtifactsInv
<1> QED  BY <1>3, <1>8, <1>9, <1>10 DEF ArtifactsInv

\* The row of the inspected hash, when the directory holds just that.
LEMMA InsertKeeps ==
  ASSUME ArtifactsInv, NEW o \in Output, InsertRow(o)
  PROVE  ArtifactsInv'
<1>1. /\ up = "yes" /\ commit.of = o /\ commit.at = "insert" /\ UNCHANGED <<up, delivering>>
  BY DEF InsertRow
<1>2. CASE CommitFails(o)  BY <1>1, <1>2, FailedCommitKeeps
<1>3. CASE artifactRow' = [artifactRow EXCEPT ![o] = commit.hash] /\ Ended(o) /\ UNCHANGED <<tmpDir, artifactDir>>
  <2>1. commit' = NoCommit /\ staged' = Kept(o)  BY <1>3 DEF Ended
  <2>2. NoCommit \in CommitRow /\ NoCommit.at = "idle"  BY NoCommitRow
  <2>3. ArtifactTypes'
    BY <1>1, <1>3, <2>1, <2>2, KeptTyped DEF ArtifactsInv, ArtifactTypes, CommitRow
  <2>4. artifactRow[o] = "none" /\ artifactDir[o] = commit.hash /\ commit.hash \in Hashes
    BY <1>1 DEF ArtifactsInv, CommitIsSafe, ArtifactTypes, CommitRow
  <2>5. /\ artifactRow'[o] = commit.hash
        /\ \A k \in Output : k # o => artifactRow'[k] = artifactRow[k]
    BY <1>3 DEF ArtifactsInv, ArtifactTypes
  <2>6. Committed' = IF commit.hash = "none" THEN Committed ELSE Committed \cup {o}
    BY <2>4, <2>5 DEF Committed
  <2>7. IsFiniteSet(Committed')
    BY <2>6, FS_AddElement DEF ArtifactsInv, RowsAreWhole
  <2>8. CommitIsSafe'
    BY <1>1, <1>3, <2>1, <2>2, <2>4, <2>6 DEF ArtifactsInv, CommitIsSafe
  <2>9. RowsAreWhole'
    BY <1>3, <2>4, <2>5, <2>7 DEF ArtifactsInv, RowsAreWhole, Committed
  <2>10. PostIsWhole'  BY <1>1, <2>4, <2>5, PostStays DEF ArtifactsInv
  <2> QED  BY <2>3, <2>8, <2>9, <2>10 DEF ArtifactsInv
<1> QED  BY <1>2, <1>3 DEF InsertRow

\* The copy takes what the file holds by then, into the temporary directory (ArtifactStore.commit).
LEMMA CopyKeeps ==
  ASSUME ArtifactsInv, NEW o \in Output, Copy(o)
  PROVE  ArtifactsInv'
<1>1. /\ commit.of = o /\ commit.at = "copy" /\ up = "yes" /\ commit \in CommitRow
      /\ tmpDir' = [tmpDir EXCEPT ![o] = staged[o]] /\ commit' = [commit EXCEPT !.at = "replace"]
      /\ UNCHANGED <<staged, artifactDir, artifactRow, up, delivering>>
  BY DEF Copy, ArtifactsInv, ArtifactTypes
<1>2. commit' \in CommitRow /\ commit'.of = o /\ commit'.at = "replace" /\ commit'.hash = commit.hash
  BY <1>1 DEF CommitRow
<1>3. ArtifactTypes'  BY <1>1, <1>2 DEF ArtifactsInv, ArtifactTypes
<1>4. CommitIsSafe' /\ RowsAreWhole'
  BY <1>1, <1>2 DEF ArtifactsInv, CommitIsSafe, RowsAreWhole, Committed
<1>5. PostIsWhole'  BY <1>1, PostStays DEF ArtifactsInv
<1> QED  BY <1>3, <1>4, <1>5 DEF ArtifactsInv

\* The copy becomes the directory only if it is what was inspected.
LEMMA ReplaceKeeps ==
  ASSUME ArtifactsInv, NEW o \in Output, Replace(o)
  PROVE  ArtifactsInv'
<1>1. /\ commit.of = o /\ commit.at = "replace" /\ up = "yes" /\ commit \in CommitRow
      /\ UNCHANGED <<up, delivering>>
  BY DEF Replace, ArtifactsInv, ArtifactTypes
<1>2. CASE CommitFails(o)  BY <1>1, <1>2, FailedCommitKeeps
<1>3. CASE ~CommitFails(o)
  <2>1. /\ tmpDir[o] = commit.hash
        /\ artifactDir' = [artifactDir EXCEPT ![o] = tmpDir[o]]
        /\ tmpDir' = [tmpDir EXCEPT ![o] = "none"]
        /\ commit' = [commit EXCEPT !.at = "insert"] /\ UNCHANGED <<staged, artifactRow>>
    BY <1>3 DEF Replace, SameAsInspected
  <2>2. commit' \in CommitRow /\ commit'.of = o /\ commit'.at = "insert" /\ commit'.hash = commit.hash
    BY <1>1, <2>1 DEF CommitRow
  <2>3. ArtifactTypes'  BY <1>1, <2>1, <2>2 DEF ArtifactsInv, ArtifactTypes, Hashes
  <2>4. artifactRow[o] = "none" /\ o \notin Committed
    BY <1>1 DEF ArtifactsInv, CommitIsSafe, Committed
  <2>5. /\ artifactDir'[o] = commit.hash
        /\ \A k \in Output : k # o => artifactDir'[k] = artifactDir[k]
    BY <2>1 DEF ArtifactsInv, ArtifactTypes
  <2>6. Committed' = Committed  BY <2>1 DEF Committed
  <2>7. CommitIsSafe'
    BY <1>1, <2>1, <2>2, <2>4, <2>5, <2>6 DEF ArtifactsInv, CommitIsSafe
  <2>8. RowsAreWhole'
    BY <2>1, <2>4, <2>5, <2>6 DEF ArtifactsInv, RowsAreWhole, Committed
  <2>9. PostIsWhole'  BY <1>1, <2>1, PostStays DEF ArtifactsInv
  <2> QED  BY <2>3, <2>7, <2>8, <2>9 DEF ArtifactsInv
<1> QED  BY <1>2, <1>3

\* No row misses its file, so the start succeeds; it removes what has no row.
LEMMA RestartKeeps ==
  ASSUME ArtifactsInv, RestartRunner
  PROVE  ArtifactsInv'
<1>1. /\ ArtifactTypes /\ up = "no" /\ commit = NoCommit /\ UNCHANGED <<commit, artifactRow, delivering>>
      /\ \A o \in Committed : o \in Output /\ artifactDir[o] # "none"
  BY DEF RestartRunner, ArtifactsInv, ArtifactTypes, RowsAreWhole, Committed
<1>2. /\ up' = "yes" /\ tmpDir' = [o \in Output |-> "none"]
      /\ artifactDir' = [o \in Output |-> WithoutOrphans(o)]
      /\ \E old \in SUBSET WorkspaceOutput :
           staged' = [o \in Output |-> IF o \in ScriptOutput \cup old THEN "none" ELSE staged[o]]
  BY <1>1 DEF RestartRunner
<1>3. /\ staged' \in [Output -> Hashes] /\ tmpDir' \in [Output -> Hashes]
      /\ artifactDir' \in [Output -> Hashes]
  BY <1>1, <1>2 DEF ArtifactTypes, WithoutOrphans, Hashes
<1>4. ArtifactTypes'  BY <1>1, <1>2, <1>3 DEF ArtifactTypes
<1>5. Committed' = Committed  BY <1>1 DEF Committed
<1>6. \A o \in Output : artifactDir'[o] = IF o \in Committed THEN artifactDir[o] ELSE "none"
  BY <1>2 DEF WithoutOrphans, Committed
<1>7. commit.at = "idle"  BY <1>1, NoCommitRow
<1>8. CommitIsSafe'  BY <1>1, <1>5, <1>6, <1>7 DEF CommitIsSafe
<1>9. RowsAreWhole'  BY <1>1, <1>5, <1>6 DEF ArtifactsInv, RowsAreWhole, Committed
<1>10. PostIsWhole'  BY <1>1, PostStays DEF ArtifactsInv
<1> QED  BY <1>4, <1>8, <1>9, <1>10 DEF ArtifactsInv

\* A step of the delivery leaves the files and their rows alone.
LEMMA FilesStay ==
  ASSUME ArtifactsInv, UNCHANGED <<staged, tmpDir, artifactDir, artifactRow, commit, up>>, PostIsWhole'
  PROVE  ArtifactsInv'
BY DEF ArtifactsInv, ArtifactTypes, CommitIsSafe, RowsAreWhole, Committed

\* SetToSeq of a finite set is a sequence of its elements.
LEMMA SequenceOfSet ==
  ASSUME NEW S, IsFiniteSet(S)
  PROVE  /\ SetToSeq(S) \in [1..Cardinality(S) -> S]
         /\ SetToSeq(S) \in Seq(S) /\ Len(SetToSeq(S)) = Cardinality(S)
<1>1. Cardinality(S) \in Nat /\ ExistsBijection(1..Cardinality(S), S)
  BY FS_CardinalityType
<1>2. \E f \in [1..Cardinality(S) -> S] : IsInjective(f)
  BY <1>1 DEF ExistsBijection, Bijection, Injection, IsInjective
<1>3. SetToSeq(S) \in [1..Cardinality(S) -> S]
  BY <1>2 DEF SetToSeq
<1> QED  BY <1>1, <1>3

\* A message in the Outbox names rows only (store.py complete_event).
LEMMA QueueKeeps ==
  ASSUME ArtifactsInv, QueueMessage
  PROVE  ArtifactsInv'
<1>1. /\ refs = <<>> /\ refs' = SetToSeq(Committed) /\ IsFiniteSet(Committed)
      /\ UNCHANGED <<staged, disk, commit, up, fileIds, sending, sentFiles>> /\ PostIsWhole
  BY DEF QueueMessage, ArtifactsInv, RowsAreWhole
<1>2. UNCHANGED <<tmpDir, artifactDir, artifactRow>>  BY <1>1 DEF disk
<1>3. /\ SetToSeq(Committed) \in [1..Cardinality(Committed) -> Committed]
      /\ SetToSeq(Committed) \in Seq(Committed) /\ Len(SetToSeq(Committed)) = Cardinality(Committed)
  BY <1>1, SequenceOfSet
<1>4. /\ refs' \in Seq(Committed) /\ Len(refs') \in Nat /\ refs' \in [1..Len(refs') -> Committed]
  BY <1>1, <1>3
<1>5. refs' \in Seq(Output) /\ \A j \in 1..Len(refs') : refs'[j] \in Committed
  BY <1>4 DEF Committed
<1>6. ASSUME NEW files, FirstFiles(files)
      PROVE  files \in Seq(Hashes) /\ Len(files) <= Len(refs') /\ 1..Len(files) = {}
  <2>1. files \in Seq(Hashes) /\ Len(files) \in Nat /\ Len(files) <= 0
    BY <1>1, <1>6 DEF FirstFiles
  <2> QED  BY <1>4, <2>1
<1>7. FirstFiles(fileIds)'  BY <1>1, <1>6 DEF FirstFiles, PostIsWhole
<1>8. (sending # <<"idle">> => FirstFiles(sending))'  BY <1>1, <1>6 DEF FirstFiles, PostIsWhole
<1>9. sentFiles' = <<>>  BY <1>1 DEF PostIsWhole
<1>10. Committed' = Committed  BY <1>2 DEF Committed
<1>11. PostIsWhole'  BY <1>5, <1>7, <1>8, <1>9, <1>10 DEF PostIsWhole
<1> QED  BY <1>1, <1>2, <1>11, FilesStay

\* The next file is that of the next artifact of the message.
LEMMA UploadKeeps ==
  ASSUME ArtifactsInv, Upload
  PROVE  ArtifactsInv'
<1>1. /\ sending # <<"idle">> /\ Len(sending) < Len(refs) /\ FirstFiles(sending) /\ PostIsWhole
      /\ sending' = Append(sending, artifactDir[Head(RefsToUpload)]) /\ fileIds' = sending'
      /\ UNCHANGED <<staged, disk, commit, up, refs, sentFiles>>
      /\ refs \in Seq(Output) /\ \A j \in 1..Len(refs) : refs[j] \in Committed
  BY DEF Upload, ArtifactsInv, PostIsWhole
<1>2. UNCHANGED <<tmpDir, artifactDir, artifactRow>>  BY <1>1 DEF disk
<1>3. sending \in Seq(Hashes) /\ Len(sending) \in Nat /\ Len(refs) \in Nat
  BY <1>1 DEF FirstFiles
<1>4. Head(RefsToUpload) = refs[Len(sending) + 1] /\ Len(sending) + 1 \in 1..Len(refs)
  BY <1>1, <1>3 DEF RefsToUpload
<1>5. PICK c \in Hashes : c = artifactDir[Head(RefsToUpload)] /\ c = artifactRow[refs[Len(sending) + 1]]
  BY <1>1, <1>4 DEF ArtifactsInv, RowsAreWhole, ArtifactTypes, Committed
<1>6. sending' = Append(sending, c)  BY <1>1, <1>5
<1>7. /\ sending' \in Seq(Hashes) /\ Len(sending') = Len(sending) + 1
      /\ sending'[Len(sending) + 1] = c
      /\ \A j \in 1..Len(sending) : sending'[j] = sending[j]
  BY <1>3, <1>6
<1>8. \A j \in 1..Len(sending') : sending'[j] = artifactRow[refs[j]]
  BY <1>1, <1>3, <1>5, <1>7 DEF FirstFiles
<1>9. FirstFiles(sending)' /\ FirstFiles(fileIds)'
  BY <1>1, <1>2, <1>3, <1>7, <1>8 DEF FirstFiles
<1>10. Committed' = Committed  BY <1>2 DEF Committed
<1>11. sentFiles # <<>> => FirstFiles(sentFiles)' /\ Len(sentFiles) = Len(refs) /\ refs # <<>>
  BY <1>1, <1>2 DEF PostIsWhole, FirstFiles
<1>12. PostIsWhole'  BY <1>1, <1>9, <1>10, <1>11 DEF PostIsWhole
<1> QED  BY <1>1, <1>2, <1>12, FilesStay

\* Commits, uploads, posts, a rewriting process, a crash and the reconciliation keep the invariant.
LEMMA ArtifactsStep ==
  ASSUME ArtifactsInv, [ArtifactsNext]_artifactVars
  PROVE  ArtifactsInv'
<1>0. ArtifactTypes /\ CommitIsSafe /\ PostIsWhole  BY DEF ArtifactsInv
<1>1. CASE UNCHANGED artifactVars
  <2>1. /\ UNCHANGED <<staged, tmpDir, artifactDir, artifactRow, commit, up>>
        /\ UNCHANGED <<fileIds, sending, refs, sentFiles>>
    BY <1>1 DEF artifactVars
  <2>2. PostIsWhole'  BY <1>0, <2>1 DEF PostIsWhole, FirstFiles, Committed
  <2> QED  BY <2>1, <2>2, FilesStay
<1>2. CASE QueueMessage  BY <1>2, QueueKeeps
<1>3. CASE BeginDelivery
  <2>1. /\ UNCHANGED <<staged, tmpDir, artifactDir, artifactRow, commit, up>>
        /\ sending' = fileIds /\ UNCHANGED <<fileIds, refs, sentFiles>>
    BY <1>3 DEF BeginDelivery, disk
  <2>2. PostIsWhole'  BY <1>0, <2>1 DEF PostIsWhole, FirstFiles, Committed
  <2> QED  BY <2>1, <2>2, FilesStay
<1>4. CASE Upload  BY <1>4, UploadKeeps
<1>5. CASE UploadLost
  <2>1. /\ UNCHANGED <<staged, tmpDir, artifactDir, artifactRow, commit, up>>
        /\ sending' = <<"idle">> /\ UNCHANGED <<fileIds, refs, sentFiles>>
    BY <1>5 DEF UploadLost, disk
  <2>2. PostIsWhole'  BY <1>0, <2>1 DEF PostIsWhole, FirstFiles, Committed
  <2> QED  BY <2>1, <2>2, FilesStay
<1>6. CASE SendFiles
  <2>1. /\ UNCHANGED <<staged, tmpDir, artifactDir, artifactRow, commit, up>>
        /\ sentFiles' = sending /\ sending' = <<"idle">> /\ UNCHANGED <<fileIds, refs>>
        /\ FirstFiles(sending) /\ Len(sending) >= Len(refs)
    BY <1>0, <1>6 DEF SendFiles, disk, PostIsWhole
  <2>2. refs \in Seq(Output) /\ sending \in Seq(Hashes) /\ Len(sending) <= Len(refs)
    BY <1>0, <2>1 DEF PostIsWhole, FirstFiles
  <2>3. Len(sending) = Len(refs) /\ (sending # <<>> => refs # <<>>)
    BY <2>1, <2>2
  <2>4. FirstFiles(sentFiles)' /\ Len(sentFiles') = Len(refs') /\ (sentFiles' # <<>> => refs' # <<>>)
    BY <2>1, <2>3 DEF FirstFiles
  <2>5. FirstFiles(fileIds)'  BY <1>0, <2>1 DEF PostIsWhole, FirstFiles
  <2>6. PostIsWhole'  BY <1>0, <2>1, <2>4, <2>5 DEF PostIsWhole, Committed
  <2> QED  BY <2>1, <2>6, FilesStay
<1>7. CASE CrashRunner
  <2>1. /\ up' = "no" /\ commit' = NoCommit /\ sending' = <<"idle">>
        /\ UNCHANGED <<staged, tmpDir, artifactDir, artifactRow, fileIds, refs, sentFiles>>
    BY <1>7 DEF CrashRunner, disk
  <2>2. ArtifactTypes' /\ CommitIsSafe' /\ RowsAreWhole'
    BY <2>1, NoCommitRow DEF ArtifactsInv, ArtifactTypes, CommitIsSafe, RowsAreWhole, Committed
  <2>3. PostIsWhole'  BY <1>0, <2>1 DEF PostIsWhole, FirstFiles, Committed
  <2> QED  BY <2>2, <2>3 DEF ArtifactsInv
<1>8. CASE RestartRunner  BY <1>8, RestartKeeps
<1>9. ASSUME NEW o \in Output, ChildEnds(o) PROVE ArtifactsInv'
  BY <1>0, <1>9, DiskStays DEF ChildEnds, ArtifactTypes
<1>10. ASSUME NEW o \in Output, CommandReturns(o) PROVE ArtifactsInv'
  BY <1>0, <1>10, DiskStays DEF CommandReturns, ArtifactTypes
<1>11. ASSUME NEW o \in Output, ExecutionFails(o) PROVE ArtifactsInv'
  BY <1>0, <1>11, DiskStays, KeptTyped DEF ExecutionFails
<1>12. ASSUME NEW o \in Output, BeginCommit(o) PROVE ArtifactsInv'
  <2>1. commit = NoCommit /\ commit.at = "idle" /\ up = "yes" /\ UNCHANGED <<disk, up, delivering>>
    BY <1>12, NoCommitRow DEF BeginCommit, Free
  <2>2. CASE Ended(o)
    BY <1>0, <2>1, <2>2, DiskStays, KeptTyped DEF Ended
  <2>3. CASE commit' = [of |-> o, at |-> "inspect", hash |-> "none"] /\ UNCHANGED <<staged, runnerUp>>
    <3>1. commit' \in CommitRow /\ commit'.of = o /\ commit'.at = "inspect"
      BY <2>3 DEF CommitRow, Hashes
    <3> QED  BY <1>0, <2>1, <2>3, <3>1, DiskStays DEF ArtifactTypes
  <2> QED  BY <1>12, <2>2, <2>3 DEF BeginCommit
<1>13. ASSUME NEW o \in Output, Inspect(o) PROVE ArtifactsInv'
  <2>1. commit.of = o /\ commit.at = "inspect" /\ up = "yes" /\ UNCHANGED <<disk, up, delivering>>
    BY <1>13 DEF Inspect
  <2>2. CASE artifactRow[o] # "none"
    <3>1. Ended(o)  BY <1>13, <2>2 DEF Inspect
    <3> QED  BY <1>0, <2>1, <3>1, DiskStays, KeptTyped DEF Ended
  <2>3. CASE artifactRow[o] = "none"
    <3>1. commit' = [commit EXCEPT !.at = "copy", !.hash = staged[o]] /\ UNCHANGED staged
      BY <1>13, <2>3 DEF Inspect
    <3>2. commit \in CommitRow /\ staged[o] \in Hashes  BY <1>0 DEF ArtifactTypes
    <3>3. commit' \in CommitRow /\ commit'.of = o /\ commit'.at = "copy"
      BY <2>1, <3>1, <3>2 DEF CommitRow
    <3> QED  BY <1>0, <2>1, <2>3, <3>1, <3>3, DiskStays DEF ArtifactTypes
  <2> QED  BY <2>2, <2>3
<1>14. ASSUME NEW o \in Output, Copy(o) PROVE ArtifactsInv'  BY <1>14, CopyKeeps
<1>15. ASSUME NEW o \in Output, Replace(o) PROVE ArtifactsInv'  BY <1>15, ReplaceKeeps
<1>16. ASSUME NEW o \in Output, InsertRow(o) PROVE ArtifactsInv'  BY <1>16, InsertKeeps
<1>17. ASSUME NEW o \in Output, NEW runner \in Runner, StartExecution(o, runner) PROVE ArtifactsInv'
  BY <1>0, <1>17, DiskStays DEF StartExecution, ArtifactTypes
<1>18. ASSUME NEW o \in Output, NEW c \in Content, ChildWrites(o, c) PROVE ArtifactsInv'
  <2>1. staged' \in [Output -> Hashes]  BY <1>0, <1>18 DEF ChildWrites, ArtifactTypes, Hashes
  <2> QED  BY <1>18, <2>1, DiskStays DEF ChildWrites
<1> QED  BY <1>1, <1>2, <1>3, <1>4, <1>5, <1>6, <1>7, <1>8, <1>9, <1>10, <1>11, <1>12, <1>13, <1>14,
            <1>15, <1>16, <1>17, <1>18 DEF ArtifactsNext

\* The invariant holds at the start.
LEMMA ArtifactsStart == ArtifactsInit => ArtifactsInv
<1> SUFFICES ASSUME ArtifactsInit PROVE ArtifactsInv  OBVIOUS
<1>1. Committed = {}  BY DEF ArtifactsInit, Committed
<1>2. RowsAreWhole  BY <1>1, FS_EmptySet DEF RowsAreWhole
<1>3. ArtifactTypes /\ CommitIsSafe
  BY NoCommitRow DEF ArtifactsInit, ArtifactTypes, CommitIsSafe, Hashes
<1>4. <<>> \in Seq(Output) /\ <<>> \in Seq(Hashes) /\ Len(<<>>) = 0 /\ 1..0 = {}
  OBVIOUS
<1>5. PostIsWhole
  BY <1>4 DEF ArtifactsInit, PostIsWhole, FirstFiles
<1> QED  BY <1>2, <1>3, <1>5 DEF ArtifactsInv

\* ArtifactsArriveWhole: rows have their files, the repository can always be opened, and the
\* post carries each artifact once and in order, whatever is written to a staged file during
\* a commit and wherever a crash interrupts commit or delivery (execution/artifacts.py
\* commit, reconcile; application/delivery.py deliver).
THEOREM ArtifactsAreWhole == ArtifactsSpec => []ArtifactsArriveWhole
<1>1. ArtifactsInit => ArtifactsInv
  BY ArtifactsStart
<1>2. ArtifactsInv /\ [ArtifactsNext]_artifactVars => ArtifactsInv'
  BY ArtifactsStep
<1>3. ASSUME ArtifactsInv PROVE ArtifactsArriveWhole
  <2>1. RowsHaveTheirFiles
    BY <1>3, NoCommitRow DEF ArtifactsInv, RowsAreWhole, ArtifactTypes, CommitIsSafe, RowsHaveTheirFiles, Free
  <2>2. ASSUME sentFiles # <<>> PROVE sentFiles = [j \in DOMAIN refs |-> artifactRow[refs[j]]]
    <3>1. /\ sentFiles \in Seq(Hashes) /\ Len(sentFiles) = Len(refs) /\ refs \in Seq(Output)
          /\ \A j \in 1..Len(sentFiles) : sentFiles[j] = artifactRow[refs[j]]
      BY <1>3, <2>2 DEF ArtifactsInv, PostIsWhole, FirstFiles
    <3>2. DOMAIN refs = 1..Len(refs) /\ DOMAIN sentFiles = 1..Len(sentFiles)  BY <3>1
    <3>3. sentFiles = [j \in 1..Len(sentFiles) |-> sentFiles[j]]  BY <3>1
    <3> QED  BY <3>1, <3>2, <3>3
  <2> QED  BY <2>1, <2>2 DEF ArtifactsArriveWhole, PostCarriesEachArtifact
<1> QED  BY <1>1, <1>2, <1>3, PTL DEF ArtifactsSpec

-----------------------------------------------------------------------------
(* Goals.                                                                  *)

\* What a call carries, which is what the window is checked with when the call writes.
CallTypes ==
  call \in [Call -> [on : Goal \cup {"nothing"}, status : GoalStatus \cup {Unset},
                     start : Day \cup {Same}, due : Day \cup {Same}]]

GoalsInv == GoalsTypeOK /\ CallTypes /\ WindowsAreSound

\* The days and the claims are what their names say.
LEMMA GoalConstants ==
  /\ MaxDay \in Nat /\ MaxTokens \in Nat
  /\ Day \subseteq Int /\ 0 \in Day
  /\ NoCall \in [on : Goal \cup {"nothing"}, status : GoalStatus \cup {Unset},
                 start : Day \cup {Same}, due : Day \cup {Same}]
BY GoalsAssumption DEF Day, NoCall

\* Drawing a card keeps the number of tokens within the bound (goal_ui.py _actions).
LEMMA IssuedTyped ==
  ASSUME NEW tokens \in [Claim \X Goal -> 0..MaxTokens], NEW claims, NEW g
  PROVE  Issued(tokens, claims, g) \in [Claim \X Goal -> 0..MaxTokens]
BY GoalsAssumption DEF Issued

\* A token is used up only if there is one.
LEMMA UsedTyped ==
  ASSUME NEW tokens \in [Claim \X Goal -> 0..MaxTokens], NEW k \in Claim \X Goal, tokens[k] > 0
  PROVE  [tokens EXCEPT ![k] = @ - 1] \in [Claim \X Goal -> 0..MaxTokens]
BY GoalsAssumption

\* There are no goals and no calls at the start.
LEMMA GoalsInitInv == GoalsInit => GoalsInv
BY GoalConstants DEF GoalsInit, GoalsInv, GoalsTypeOK, CallTypes, WindowsAreSound, GoalStatus, Final

\* The cards and the tokens disturb neither the goals nor the calls.
LEMMA CardsKeep ==
  ASSUME GoalsInv, NEW g \in Goal, NEW c \in Claim,
         ShowGoal(g) \/ TokenExpires(c, g) \/ AskConfirmation(c, g)
  PROVE  GoalsInv'
<1>1. <<c, g>> \in Claim \X Goal  OBVIOUS
<1>2. offered \in [Claim \X Goal -> 0..MaxTokens]  BY DEF GoalsInv, GoalsTypeOK
<1>3. UNCHANGED <<goalStatus, window, call>>
  BY DEF ShowGoal, TokenExpires, AskConfirmation
<1>4. offered' \in [Claim \X Goal -> 0..MaxTokens]
  <2>1. CASE ShowGoal(g)  BY <2>1, <1>2, IssuedTyped DEF ShowGoal
  <2>2. CASE TokenExpires(c, g)  BY <2>2, <1>1, <1>2, UsedTyped DEF TokenExpires
  <2>3. CASE AskConfirmation(c, g)
    <3>1. [offered EXCEPT ![<<c, g>>] = @ - 1] \in [Claim \X Goal -> 0..MaxTokens]
      BY <2>3, <1>1, <1>2, UsedTyped DEF AskConfirmation
    <3> QED  BY <2>3, <3>1, IssuedTyped DEF AskConfirmation
  <2> QED  BY <2>1, <2>2, <2>3
<1> QED  BY <1>3, <1>4 DEF GoalsInv, GoalsTypeOK, CallTypes, WindowsAreSound, Day, Same

\* A confirmation uses a token up and begins a call, which names no day.
LEMMA ConfirmKeeps ==
  ASSUME GoalsInv, NEW g \in Goal, NEW c \in Claim, NEW u \in Call, Confirm(u, c, g)
  PROVE  GoalsInv'
<1>1. offered' \in [Claim \X Goal -> 0..MaxTokens]
  <2>1. <<c, g>> \in Claim \X Goal  OBVIOUS
  <2> QED  BY <2>1, UsedTyped DEF Confirm, GoalsInv, GoalsTypeOK
<1>2. CallTypes'
  BY GoalConstants DEF Confirm, GoalsInv, CallTypes, NoCall, GoalStatus, Final, Day, Same
<1> QED  BY <1>1, <1>2 DEF Confirm, GoalsInv, GoalsTypeOK, WindowsAreSound, Day

\* A goal is made with a window that was checked.
LEMMA CreateGoalKeeps ==
  ASSUME GoalsInv, NEW g \in Goal, NEW status \in {"draft", "active"}, NEW start \in Day, NEW due \in Day,
         CreateGoal(g, status, start, due)
  PROVE  GoalsInv'
<1>1. goalStatus' \in [Goal -> GoalStatus \cup {"absent"}]
  BY DEF CreateGoal, GoalsInv, GoalsTypeOK, GoalStatus
<1>2. window' \in [Goal -> [start : Day, due : Day]]
  BY DEF CreateGoal, GoalsInv, GoalsTypeOK
<1>3. WindowsAreSound'
  BY GoalConstants DEF CreateGoal, GoalsInv, GoalsTypeOK, WindowsAreSound
<1> QED  BY <1>1, <1>2, <1>3 DEF CreateGoal, GoalsInv, GoalsTypeOK, CallTypes, Day, Same

\* A call that begins leaves the goals alone.
LEMMA CallsKeep ==
  ASSUME GoalsInv, NEW u \in Call,
         NEW g \in Goal, NEW status \in GoalStatus \cup {Unset}, NEW start \in Day \cup {Same},
         NEW due \in Day \cup {Same},
         BeginUpdate(u, g, status, start, due)
  PROVE  GoalsInv'
<1>1. CallTypes'
  BY DEF BeginUpdate, GoalsInv, CallTypes, Same, Day
<1> QED  BY <1>1 DEF BeginUpdate, GoalsInv, GoalsTypeOK, WindowsAreSound, Day

\* A call that ends without a write leaves the goals alone.
LEMMA AbandonKeeps ==
  ASSUME GoalsInv, NEW u \in Call, AbandonUpdate(u)
  PROVE  GoalsInv'
<1>1. CallTypes'
  BY GoalConstants DEF AbandonUpdate, GoalsInv, CallTypes, Same, Day
<1> QED  BY <1>1 DEF AbandonUpdate, GoalsInv, GoalsTypeOK, WindowsAreSound, Day

\* The write of a call: the window is checked with the values it is left with, and no other
\* call writes between the check and the write.
LEMMA FinishKeeps ==
  ASSUME GoalsInv, NEW u \in Call, FinishUpdate(u)
  PROVE  GoalsInv'
<1> DEFINE k == call[u]
           g == k.on
           s == IF k.start = Same THEN window[g].start ELSE k.start
           d == IF k.due = Same THEN window[g].due ELSE k.due
<1>1. /\ g \in Goal /\ k.status \in GoalStatus \cup {Unset}
      /\ k.start \in Day \cup {Same} /\ k.due \in Day \cup {Same}
  BY DEF FinishUpdate, GoalsInv, CallTypes
<1>2. s \in Day /\ d \in Day  BY <1>1 DEF GoalsInv, GoalsTypeOK
<1>3. CallTypes'  BY GoalConstants DEF FinishUpdate, GoalsInv, CallTypes, Day, Same
<1>4. CASE UNCHANGED <<goalStatus, window>>
  BY <1>3, <1>4 DEF FinishUpdate, GoalsInv, GoalsTypeOK, WindowsAreSound, Day
<1>5. CASE ~UNCHANGED <<goalStatus, window>>
  <2>1. /\ WindowFits(g, k.start, k.due)
        /\ goalStatus' = IF k.status = Unset THEN goalStatus ELSE [goalStatus EXCEPT ![g] = k.status]
        /\ window' = [window EXCEPT ![g] = [start |-> s, due |-> d]]
    BY <1>5, <1>1 DEF FinishUpdate, GoalsInv, GoalsTypeOK
  <2>2. s # 0 /\ d # 0 => d >= s  BY <2>1 DEF WindowFits
  <2>3. goalStatus' \in [Goal -> GoalStatus \cup {"absent"}]
    BY <2>1, <1>1 DEF GoalsInv, GoalsTypeOK, Unset
  <2> HIDE DEF s, d
  <2>4. window' \in [Goal -> [start : Day, due : Day]]
    BY <2>1, <1>1, <1>2 DEF GoalsInv, GoalsTypeOK
  <2>5. WindowsAreSound'
    BY <2>1, <2>2, <1>1 DEF GoalsInv, GoalsTypeOK, WindowsAreSound
  <2> QED  BY <2>3, <2>4, <2>5, <1>3 DEF FinishUpdate, GoalsInv, GoalsTypeOK, Day
<1> QED  BY <1>4, <1>5

\* Every step keeps the invariant.
LEMMA GoalsStep == GoalsInv /\ [GoalsNext]_goalVars => GoalsInv'
<1> SUFFICES ASSUME GoalsInv, [GoalsNext]_goalVars PROVE GoalsInv'
  OBVIOUS
<1>1. ASSUME NEW g \in Goal, ShowGoal(g) PROVE GoalsInv'
  BY <1>1, CardsKeep DEF Claim
<1>2. ASSUME NEW g \in Goal, NEW status \in {"draft", "active"}, NEW start \in Day, NEW due \in Day,
             CreateGoal(g, status, start, due)
      PROVE  GoalsInv'
  BY <1>2, CreateGoalKeeps
<1>3. ASSUME NEW g \in Goal, NEW c \in Claim, TokenExpires(c, g) \/ AskConfirmation(c, g)
      PROVE  GoalsInv'
  BY <1>3, CardsKeep
<1>4. ASSUME NEW g \in Goal, NEW c \in Claim, NEW u \in Call, Confirm(u, c, g)
      PROVE  GoalsInv'
  BY <1>4, ConfirmKeeps
<1>5. ASSUME NEW g \in Goal, NEW u \in Call, NEW start \in Day, BeginUpdate(u, g, Unset, start, Same)
      PROVE  GoalsInv'
  BY <1>5, CallsKeep
<1>6. ASSUME NEW g \in Goal, NEW u \in Call, NEW status \in GoalStatus \cup {Unset},
             NEW due \in Day \cup {Same}, BeginUpdate(u, g, status, Same, due)
      PROVE  GoalsInv'
  BY <1>6, CallsKeep
<1>7. ASSUME NEW u \in Call, FinishUpdate(u) PROVE GoalsInv'
  BY <1>7, FinishKeeps
<1>8. ASSUME NEW u \in Call, AbandonUpdate(u) PROVE GoalsInv'
  BY <1>8, AbandonKeeps
<1>9. CASE UNCHANGED goalVars
  BY <1>9 DEF goalVars, GoalsInv, GoalsTypeOK, CallTypes, WindowsAreSound, Day, Same
<1> QED  BY <1>1, <1>2, <1>3, <1>4, <1>5, <1>6, <1>7, <1>8, <1>9 DEF GoalsNext

\* Types and windows, in every state.
THEOREM GoalsSafe == GoalsSpec => []GoalsInv
<1>1. GoalsInit => GoalsInv  BY GoalsInitInv
<1>2. GoalsInv /\ [GoalsNext]_goalVars => GoalsInv'  BY GoalsStep
<1> QED  BY <1>1, <1>2, PTL DEF GoalsSpec

\* A goal is never due before it starts, for any number of goals and of calls that wait
\* between their making and their write (create_goal, update_goal).
THEOREM WindowsStaySound == GoalsSpec => []WindowsAreSound
<1>1. GoalsInv => WindowsAreSound  BY DEF GoalsInv
<1> QED  BY <1>1, GoalsSafe, PTL

-----------------------------------------------------------------------------
(* Conversation.                                                           *)

\* What the server sends, and the types of the variables, the bounds of which no proof needs.
EventRecord == [type : {"posted", "edited", "deleted"}, post : AnyPost,
                text : {"old", "new", "bare", "gone"}]

ConvTypes ==
  /\ channel \in [AnyPost -> {"none", "old", "new", "bare", "gone"}]
  /\ payload \in [AnyPost -> {"none", "old", "bare"}]
  /\ events \in Seq(EventRecord)
  /\ link \in [up : BOOLEAN, known : BOOLEAN, heard : Nat] /\ link.heard <= Len(events)
  /\ inbox \in [AnyPost -> {"none", "accepted", "running", "done"}]
  /\ work \in [post : AnyPost \cup {0}, step : {"idle", "started", "summarises", "answers"},
               batch : SUBSET AnyPost]
  /\ rows \in [AnyPost -> {"none", "old", "new"}] /\ index = rows
  /\ segments \in Seq([of : SUBSET AnyPost, status : {"active", "stale"}])
  /\ recent \in Seq([post : AnyPost, text : {"none", "old", "new", "bare"}])
  /\ unsettled \in SUBSET AnyPost /\ raced \in SUBSET AnyPost

\* Posts are made in the order of their numbers, and with a payload.
Numbered ==
  /\ \E k \in 0..MaxPosts : \A p \in AnyPost : channel[p] # "none" <=> p <= k
  /\ \A p \in AnyPost : payload[p] = "none" <=> channel[p] = "none"

\* What the server has sent about a post: one event that it was made, before all others; the
\* last one says what has become of it.
History ==
  /\ \A i \in DOMAIN events :
       /\ channel[events[i].post] # "none"
       /\ events[i].type = "deleted" => channel[events[i].post] = "gone"
       /\ events[i].type = "edited" =>
            /\ events[i].text \in {"new", "bare"}
            /\ \/ channel[events[i].post] = events[i].text
               \/ \E j \in DOMAIN events :
                    j > i /\ events[j].post = events[i].post /\ events[j].type # "posted"
       /\ events[i].type = "posted" => \A j \in DOMAIN events :
            i # j /\ events[j].post = events[i].post => events[j].type # "posted" /\ i < j
  /\ \A p \in AnyPost : channel[p] # payload[p] =>
       \E i \in DOMAIN events : events[i].post = p /\ events[i].type # "posted"

\* The row of a post whose changes were all followed has its text, unless that was taken away;
\* what is still to be logged from its payload has not changed.
Agrees(p) == p \notin unsettled \cup Unheard =>
  /\ rows[p] \in {"none", channel[p]} \/ channel[p] = "bare"
  /\ Waiting(p) => rows[p] # "none" \/ channel[p] = payload[p]

\* The texts in the window and the summaries are of posts that have their row, and a row of
\* the Inbox has its payload.
InWindow(p) == \E i \in DOMAIN recent : recent[i].post = p /\ recent[i].text # "bare"
InSummary(p) == \E i \in DOMAIN segments : segments[i].status = "active" /\ p \in segments[i].of
Backed(p) ==
  /\ inbox[p] # "none" => payload[p] # "none"
  /\ InWindow(p) => rows[p] # "none" \/ p \in unsettled
  /\ InSummary(p) \/ p \in work.batch => rows[p] # "none" \/ p \in raced

WorkerAgrees ==
  work.step # "idle" =>
    /\ running /\ work.post \in AnyPost /\ inbox[work.post] = "running"
    /\ work.step # "started" =>
         rows[work.post] # "none" \/ work.post \in unsettled \/ payload[work.post] = "bare"

ConvInv ==
  /\ ConvTypes /\ Numbered /\ History /\ WorkerAgrees
  /\ \A p \in AnyPost : Agrees(p) /\ Backed(p)

\* A set of numbers that is not empty has a least one.
LEMMA LeastOf ==
  ASSUME NEW S \in SUBSET Nat, S # {}
  PROVE  Min(S) \in S /\ \A y \in S : Min(S) <= y
<1>1. IsWellFoundedOn(OpToRel(<, Nat), Nat)  BY NatLessThanWellFounded
<1>2. PICK x \in S : \A y \in S : <<y, x>> \notin OpToRel(<, Nat)
  BY <1>1, WFMin
<1>3. \A y \in S : ~(y < x)  BY <1>2 DEF OpToRel
<1>4. \A y \in S : x =< y  BY <1>3
<1> QED  BY <1>4 DEF Min

\* The changes that have not been heard.
LEMMA UnheardIs ==
  ASSUME NEW p
  PROVE  /\ p \in Unheard <=> \E i \in DOMAIN events :
              i > link.heard /\ events[i].type # "posted" /\ events[i].post = p
         /\ p \in Unheard' <=> \E i \in DOMAIN events' :
              i > link'.heard /\ events'[i].type # "posted" /\ events'[i].post = p
BY DEF Unheard

\* One more event.
LEMMA EventAppended ==
  ASSUME NEW s \in Seq(EventRecord), NEW e \in EventRecord
  PROVE  /\ Append(s, e) \in Seq(EventRecord) /\ Len(Append(s, e)) = Len(s) + 1
         /\ Append(s, e)[Len(s) + 1] = e /\ Len(s) + 1 \in DOMAIN Append(s, e)
         /\ \A i \in DOMAIN s : i \in DOMAIN Append(s, e) /\ Append(s, e)[i] = s[i] /\ i < Len(s) + 1
         /\ \A i \in DOMAIN Append(s, e) : i \in DOMAIN s \/ i = Len(s) + 1
         /\ Len(s) \in Nat /\ DOMAIN s \subseteq Nat /\ \A i \in DOMAIN s : s[i] \in EventRecord
BY AppendProperties

\* A new post has the next number and no history.
LEMMA NewPostIs ==
  ASSUME ConvInv, NEW p \in AnyPost, NEW text \in {"old", "bare"},
         NewPost(p, text), UNCHANGED link
  PROVE  /\ channel[p] = "none" /\ channel'[p] = text /\ \A q \in AnyPost : q # p => channel'[q] = channel[q]
         /\ payload'[p] = text /\ \A q \in AnyPost : q # p => payload'[q] = payload[q]
         /\ channel' \in [AnyPost -> {"none", "old", "new", "bare", "gone"}]
         /\ payload' \in [AnyPost -> {"none", "old", "bare"}]
         /\ events' \in Seq(EventRecord) /\ link'.heard <= Len(events')
         /\ Numbered' /\ History' /\ Unheard' = Unheard
<1> USE DEF ConvInv, ConvTypes
<1>0. /\ MaxPosts \in Nat /\ p \in 1..MaxPosts
      /\ p = Cardinality(Made) + 1
      /\ channel' = [channel EXCEPT ![p] = text]
      /\ payload' = [payload EXCEPT ![p] = text]
      /\ events' = Append(events, [type |-> "posted", post |-> p, text |-> text])
  BY ConversationAssumption DEF NewPost, Event, AnyPost
<1>1. PICK k \in 0..MaxPosts : \A q \in AnyPost : channel[q] # "none" <=> q <= k
  BY DEF Numbered
<1>2. p = k + 1
  <2>1. k \in Nat /\ Made = 1..k  BY <1>0, <1>1 DEF Made, AnyPost
  <2>2. Cardinality(1..k) = k
    <3>1. Cardinality(1..k) = IF 1 > k THEN 0 ELSE k - 1 + 1  BY <2>1, FS_Interval
    <3> QED  BY <2>1, <3>1
  <2> QED  BY <1>0, <2>1, <2>2
<1>3. channel[p] = "none"  BY <1>0, <1>1, <1>2
<1>4. /\ channel'[p] = text /\ \A q \in AnyPost : q # p => channel'[q] = channel[q]
      /\ payload'[p] = text /\ \A q \in AnyPost : q # p => payload'[q] = payload[q]
  BY <1>0
<1>5. Numbered'
  <2>1. \A q \in AnyPost : channel'[q] # "none" <=> q <= k + 1
    BY <1>0, <1>1, <1>2, <1>3, <1>4 DEF AnyPost
  <2>2. k + 1 \in 0..MaxPosts  BY <1>0, <1>2
  <2>3. \A q \in AnyPost : payload'[q] = "none" <=> channel'[q] = "none"  BY <1>4 DEF Numbered
  <2> QED  BY <2>1, <2>2, <2>3 DEF Numbered
<1>6. /\ [type |-> "posted", post |-> p, text |-> text] \in EventRecord
      /\ events' \in Seq(EventRecord) /\ Len(events') = Len(events) + 1
      /\ events'[Len(events) + 1] = [type |-> "posted", post |-> p, text |-> text]
      /\ \A i \in DOMAIN events : i \in DOMAIN events' /\ events'[i] = events[i] /\ i < Len(events) + 1
      /\ \A i \in DOMAIN events' : i \in DOMAIN events \/ i = Len(events) + 1
      /\ \A i \in DOMAIN events : events[i].post # p /\ events[i].post \in AnyPost
      /\ Len(events) \in Nat /\ Len(events) + 1 \in DOMAIN events'
  <2>1. events \in Seq(EventRecord) /\ [type |-> "posted", post |-> p, text |-> text] \in EventRecord
    BY DEF EventRecord
  <2>2. \A i \in DOMAIN events : events[i].post # p /\ events[i].post \in AnyPost
    <3>1. \A i \in DOMAIN events : channel[events[i].post] # "none"  BY DEF History
    <3>2. \A i \in DOMAIN events : events[i] \in EventRecord  BY <2>1, EventAppended
    <3> QED  BY <1>3, <3>1, <3>2 DEF EventRecord
  <2> QED  BY <1>0, <2>1, <2>2, EventAppended
<1>7. Unheard' = Unheard
  <2>1. \A q : q \in Unheard' <=> \E i \in DOMAIN events' : i > link'.heard /\ events'[i].type # "posted" /\ events'[i].post = q
    BY DEF Unheard
  <2>2. \A q : q \in Unheard <=> \E i \in DOMAIN events : i > link.heard /\ events[i].type # "posted" /\ events[i].post = q
    BY DEF Unheard
  <2>3. \A i \in DOMAIN events' : events'[i].type # "posted" => i \in DOMAIN events /\ events'[i] = events[i]
    BY <1>6
  <2>4. \A i \in DOMAIN events : i \in DOMAIN events' /\ events'[i] = events[i]
    BY <1>6
  <2>5. \A q : q \in Unheard' <=> q \in Unheard  BY <2>1, <2>2, <2>3, <2>4
  <2> QED  BY <2>5
<1>8. History'
  <2>1. ASSUME NEW i \in DOMAIN events'
        PROVE  /\ channel'[events'[i].post] # "none"
               /\ events'[i].type = "deleted" => channel'[events'[i].post] = "gone"
    BY <1>4, <1>6, <2>1 DEF History
  <2>2. ASSUME NEW i \in DOMAIN events', events'[i].type = "edited"
        PROVE  /\ events'[i].text \in {"new", "bare"}
               /\ \/ channel'[events'[i].post] = events'[i].text
                  \/ \E j \in DOMAIN events' :
                       j > i /\ events'[j].post = events'[i].post /\ events'[j].type # "posted"
    <3>1. i \in DOMAIN events /\ events'[i] = events[i]  BY <1>6, <2>2
    <3>2. /\ events[i].text \in {"new", "bare"}
          /\ \/ channel[events[i].post] = events[i].text
             \/ \E j \in DOMAIN events :
                  j > i /\ events[j].post = events[i].post /\ events[j].type # "posted"
      BY <2>2, <3>1 DEF History
    <3>3. channel'[events[i].post] = channel[events[i].post]  BY <1>4, <1>6, <3>1
    <3> QED  BY <1>6, <3>1, <3>2, <3>3
  <2>3. ASSUME NEW i \in DOMAIN events', events'[i].type = "posted", NEW j \in DOMAIN events',
               i # j, events'[j].post = events'[i].post
        PROVE  events'[j].type # "posted" /\ i < j
    <3>1. i \in DOMAIN events /\ j \in DOMAIN events  BY <1>6, <2>3
    <3> QED  BY <1>6, <2>3, <3>1 DEF History
  <2>4. ASSUME NEW q \in AnyPost, channel'[q] # payload'[q]
        PROVE  \E i \in DOMAIN events' : events'[i].post = q /\ events'[i].type # "posted"
    <3>1. channel[q] # payload[q]  BY <1>4, <2>4
    <3>2. PICK i \in DOMAIN events : events[i].post = q /\ events[i].type # "posted"
      BY <3>1 DEF History
    <3> QED  BY <1>6, <3>2
  <2> QED  BY <2>1, <2>2, <2>3, <2>4 DEF History
<1>9. link'.heard <= Len(events')  BY <1>6
<1>10. /\ channel' \in [AnyPost -> {"none", "old", "new", "bare", "gone"}]
       /\ payload' \in [AnyPost -> {"none", "old", "bare"}]
  BY <1>0
<1> QED  BY <1>3, <1>4, <1>5, <1>6, <1>7, <1>8, <1>9, <1>10

\* A post of the users is neither logged nor waiting yet.
LEMMA UserPostsKeeps ==
  ASSUME ConvInv, UserPosts
  PROVE  ConvInv'
<1> USE DEF ConvInv
<1>1. PICK p \in AnyPost, text \in {"old", "bare"} : NewPost(p, text)  BY DEF UserPosts
<1>2. UNCHANGED <<link, inbox, work, rows, index, segments, recent, running, unsettled, raced>>
  BY DEF UserPosts
<1>3. /\ channel[p] = "none" /\ channel'[p] = text /\ \A q \in AnyPost : q # p => channel'[q] = channel[q]
      /\ payload'[p] = text /\ \A q \in AnyPost : q # p => payload'[q] = payload[q]
      /\ payload' \in [AnyPost -> {"none", "old", "bare"}]
      /\ channel' \in [AnyPost -> {"none", "old", "new", "bare", "gone"}]
      /\ events' \in Seq(EventRecord) /\ link'.heard <= Len(events')
      /\ Numbered' /\ History' /\ Unheard' = Unheard
  BY <1>1, <1>2, NewPostIs
<1>4. ConvTypes'  BY <1>2, <1>3 DEF ConvTypes
<1>5. WorkerAgrees'
  <2>1. payload[p] = "none"  BY <1>3 DEF Numbered
  <2> QED  BY <1>2, <1>3, <2>1 DEF WorkerAgrees
<1>6. ASSUME NEW q \in AnyPost PROVE Agrees(q)' /\ Backed(q)'
  <2>1. Agrees(q)'  BY <1>2, <1>3 DEF Agrees, Waiting, ConvTypes
  <2>2. Backed(q)'  BY <1>2, <1>3 DEF Backed, InWindow, InSummary
  <2> QED  BY <2>1, <2>2
<1> QED  BY <1>3, <1>4, <1>5, <1>6

\* An edit or a deletion is unheard until the reader gets to it.
LEMMA UserChangesKeeps ==
  ASSUME ConvInv, NEW p \in AnyPost, NEW c \in {"new", "bare", "gone"}, UserChanges(p, c)
  PROVE  ConvInv'
<1> USE DEF ConvInv
<1>1. /\ UNCHANGED <<payload, link, inbox, work, rows, index, segments, recent, running, unsettled, raced>>
      /\ channel[p] \in {"old", "new", "bare"}
  BY DEF UserChanges
<1>2. PICK t \in {"edited", "deleted"} :
        /\ t = "deleted" <=> c = "gone"
        /\ channel' = [channel EXCEPT ![p] = c]
        /\ events' = Append(events, [type |-> t, post |-> p, text |-> c])
  BY DEF UserChanges, Event
<1>3. /\ channel'[p] = c /\ \A q \in AnyPost : q # p => channel'[q] = channel[q]
      /\ channel' \in [AnyPost -> {"none", "old", "new", "bare", "gone"}]
  BY <1>2 DEF ConvTypes
<1> DEFINE e == [type |-> t, post |-> p, text |-> c]
           N == Len(events)
<1>4. /\ e \in EventRecord /\ e.type = t /\ e.post = p /\ e.text = c /\ N \in Nat
      /\ events' \in Seq(EventRecord) /\ Len(events') = N + 1
      /\ events'[N + 1] = e /\ N + 1 \in DOMAIN events'
      /\ \A i \in DOMAIN events : i \in DOMAIN events' /\ events'[i] = events[i] /\ i < N + 1 /\ i \in Nat
      /\ \A i \in DOMAIN events' : i \in DOMAIN events \/ i = N + 1
      /\ \A i \in DOMAIN events : events[i].post \in AnyPost
  <2>1. events \in Seq(EventRecord) /\ e \in EventRecord  BY DEF ConvTypes, EventRecord
  <2>2. \A i \in DOMAIN events : events[i] \in EventRecord /\ i \in Nat  BY <2>1, EventAppended
  <2>3. \A i \in DOMAIN events : events[i].post \in AnyPost  BY <2>2 DEF EventRecord
  <2> QED  BY <1>2, <2>1, <2>2, <2>3, EventAppended
<1> HIDE DEF e, N
<1>5. ConvTypes'
  <2>1. link'.heard <= Len(events')  BY <1>1, <1>4 DEF ConvTypes, N
  <2> QED  BY <1>1, <1>3, <1>4, <2>1 DEF ConvTypes
<1>6. Numbered'  BY <1>1, <1>3, <1>2 DEF Numbered
<1>7. History'
  <2>1. ASSUME NEW i \in DOMAIN events'
        PROVE  /\ channel'[events'[i].post] # "none"
               /\ events'[i].type = "deleted" => channel'[events'[i].post] = "gone"
    <3>1. CASE i = N + 1  BY <1>2, <1>3, <1>4, <3>1
    <3>2. CASE i \in DOMAIN events /\ events[i].post = p
      BY <1>1, <1>2, <1>3, <1>4, <3>2 DEF History
    <3>3. CASE i \in DOMAIN events /\ events[i].post # p
      BY <1>3, <1>4, <3>3 DEF History
    <3> QED  BY <1>4, <2>1, <3>1, <3>2, <3>3
  <2>2. ASSUME NEW i \in DOMAIN events', events'[i].type = "edited"
        PROVE  /\ events'[i].text \in {"new", "bare"}
               /\ \/ channel'[events'[i].post] = events'[i].text
                  \/ \E j \in DOMAIN events' :
                       j > i /\ events'[j].post = events'[i].post /\ events'[j].type # "posted"
    <3>1. CASE i = N + 1  BY <1>2, <1>3, <1>4, <2>2, <3>1
    <3>2. CASE i \in DOMAIN events /\ events[i].post = p
      <4>1. events'[i].text \in {"new", "bare"}  BY <1>4, <2>2, <3>2 DEF History
      <4>2. N + 1 > i /\ events'[N + 1].post = events'[i].post /\ events'[N + 1].type # "posted"
        BY <1>2, <1>4, <3>2
      <4> QED  BY <1>4, <4>1, <4>2
    <3>3. CASE i \in DOMAIN events /\ events[i].post # p
      <4>1. events'[i] = events[i] /\ channel'[events[i].post] = channel[events[i].post]
        BY <1>3, <1>4, <3>3
      <4>2. /\ events[i].text \in {"new", "bare"}
            /\ \/ channel[events[i].post] = events[i].text
               \/ \E j \in DOMAIN events :
                    j > i /\ events[j].post = events[i].post /\ events[j].type # "posted"
        BY <2>2, <3>3, <4>1 DEF History
      <4> QED  BY <1>4, <4>1, <4>2
    <3> QED  BY <1>4, <2>2, <3>1, <3>2, <3>3
  <2>3. ASSUME NEW i \in DOMAIN events', events'[i].type = "posted", NEW j \in DOMAIN events',
               i # j, events'[j].post = events'[i].post
        PROVE  events'[j].type # "posted" /\ i < j
    <3>1. i \in DOMAIN events  BY <1>2, <1>4, <2>3
    <3>2. CASE j = N + 1  BY <1>2, <1>4, <3>1, <3>2
    <3>3. CASE j \in DOMAIN events  BY <1>4, <2>3, <3>1, <3>3 DEF History
    <3> QED  BY <1>4, <3>2, <3>3
  <2>4. ASSUME NEW q \in AnyPost, channel'[q] # payload'[q]
        PROVE  \E i \in DOMAIN events' : events'[i].post = q /\ events'[i].type # "posted"
    <3>1. CASE q = p  BY <1>2, <1>4, <3>1
    <3>2. CASE q # p
      <4>1. PICK i \in DOMAIN events : events[i].post = q /\ events[i].type # "posted"
        BY <1>1, <1>3, <2>4, <3>2 DEF History
      <4> QED  BY <1>4, <4>1
    <3> QED  BY <3>1, <3>2
  <2> QED  BY <2>1, <2>2, <2>3, <2>4 DEF History
<1>8. p \in Unheard' /\ Unheard \subseteq Unheard'
  <2>1. link'.heard = link.heard /\ N + 1 > link.heard  BY <1>1, <1>4 DEF ConvTypes, N
  <2>2. p \in Unheard'  BY <1>2, <1>4, <2>1, UnheardIs
  <2>3. ASSUME NEW q \in Unheard PROVE q \in Unheard'
    <3>1. PICK i \in DOMAIN events : i > link.heard /\ events[i].type # "posted" /\ events[i].post = q
      BY <2>3, UnheardIs
    <3> QED  BY <1>4, <2>1, <3>1, UnheardIs
  <2> QED  BY <2>2, <2>3
<1>9. WorkerAgrees'  BY <1>1 DEF WorkerAgrees
<1>10. ASSUME NEW q \in AnyPost PROVE Agrees(q)' /\ Backed(q)'
  <2>1. Agrees(q)'  BY <1>1, <1>3, <1>8 DEF Agrees, Waiting
  <2>2. Backed(q)'  BY <1>1 DEF Backed, InWindow, InSummary
  <2> QED  BY <2>1, <2>2
<1> QED  BY <1>5, <1>6, <1>7, <1>9, <1>10

\* What a new connection leaves out counts as unsettled.
LEMMA ConnectKeeps ==
  ASSUME ConvInv, NEW resumed \in BOOLEAN, Connect(resumed)
  PROVE  ConvInv'
<1> USE DEF ConvInv
<1>1. /\ UNCHANGED <<channel, payload, events, inbox, work, rows, index, segments, recent, running, raced>>
      /\ Len(events) \in Nat
  BY DEF Connect, ConvTypes
<1>2. CASE resumed
  <2>1. link'.heard = link.heard /\ unsettled' = unsettled  BY <1>2 DEF Connect
  <2>2. link' \in [up : BOOLEAN, known : BOOLEAN, heard : Nat]  BY <1>2 DEF Connect, ConvTypes
  <2>3. \A q : q \in Unheard' <=> q \in Unheard  BY <1>1, <2>1, UnheardIs
  <2>4. ConvTypes' /\ Numbered' /\ History' /\ WorkerAgrees'
    BY <1>1, <2>1, <2>2 DEF ConvTypes, Numbered, History, WorkerAgrees
  <2>5. \A q \in AnyPost : Agrees(q)' /\ Backed(q)'
    BY <1>1, <2>1, <2>3 DEF Agrees, Waiting, Backed, InWindow, InSummary
  <2> QED  BY <2>4, <2>5
<1>3. CASE ~resumed
  <2>1. link' = [up |-> TRUE, known |-> TRUE, heard |-> Len(events)] /\ unsettled' = unsettled \cup Unheard
    BY <1>3 DEF Connect
  <2>2. link' \in [up : BOOLEAN, known : BOOLEAN, heard : Nat] /\ link'.heard = Len(events)
    BY <1>1, <2>1
  <2>3. Unheard \subseteq AnyPost
    <3>1. \A i \in DOMAIN events : events[i] \in EventRecord  BY EventAppended DEF ConvTypes
    <3>2. \A i \in DOMAIN events : events[i].post \in AnyPost  BY <3>1 DEF EventRecord
    <3> QED  BY <3>2 DEF Unheard
  <2>4. unsettled' \in SUBSET AnyPost /\ unsettled \subseteq unsettled'
    BY <2>1, <2>3 DEF ConvTypes
  <2>5. ConvTypes'  BY <1>1, <2>2, <2>4 DEF ConvTypes
  <2>6. Numbered' /\ History' /\ WorkerAgrees'
    BY <1>1, <2>4 DEF Numbered, History, WorkerAgrees
  <2>7. \A q \in AnyPost : Agrees(q)' /\ Backed(q)'
    BY <1>1, <2>1, <2>4 DEF Agrees, Waiting, Backed, InWindow, InSummary
  <2> QED  BY <2>5, <2>6, <2>7
<1> QED  BY <1>2, <1>3

\* A lost connection loses nothing that is not asked for again.
LEMMA DisconnectKeeps ==
  ASSUME ConvInv, Disconnect
  PROVE  ConvInv'
<1> USE DEF ConvInv
<1>1. /\ UNCHANGED <<channel, payload, events, inbox, work, rows, index, segments, recent, running, unsettled, raced>>
      /\ link' = [link EXCEPT !.up = FALSE]
  BY DEF Disconnect
<1>2. link' \in [up : BOOLEAN, known : BOOLEAN, heard : Nat] /\ link'.heard = link.heard
  BY <1>1 DEF ConvTypes
<1>3. \A q : q \in Unheard' <=> q \in Unheard  BY <1>1, <1>2, UnheardIs
<1>4. ConvTypes' /\ Numbered' /\ History' /\ WorkerAgrees'
  BY <1>1, <1>2 DEF ConvTypes, Numbered, History, WorkerAgrees
<1>5. \A q \in AnyPost : Agrees(q)' /\ Backed(q)'
  BY <1>1, <1>3 DEF Agrees, Waiting, Backed, InWindow, InSummary
<1> QED  BY <1>4, <1>5

\* The event that is heard next.
LEMMA NextHeard ==
  ASSUME ConvInv, Hears, link' = [link EXCEPT !.heard = @ + 1] \/ link' = [link EXCEPT !.up = FALSE, !.heard = @ + 1],
         UNCHANGED events
  PROVE  /\ link' \in [up : BOOLEAN, known : BOOLEAN, heard : Nat] /\ link'.heard <= Len(events')
         /\ link.heard + 1 \in DOMAIN events /\ NextEvent.post \in AnyPost
         /\ \A q : q \in Unheard => q \in Unheard' \/ q = NextEvent.post
         /\ NextEvent.type = "posted" => Unheard \subseteq Unheard'
         /\ Unheard' \subseteq Unheard
         /\ \A i \in DOMAIN events : i > link.heard + 1 /\ events[i].type # "posted" => events[i].post \in Unheard'
<1> USE DEF ConvInv
<1>1. /\ link \in [up : BOOLEAN, known : BOOLEAN, heard : Nat] /\ events \in Seq(EventRecord)
      /\ link.heard \in Nat /\ link.heard < Len(events) /\ Len(events) \in Nat
  BY DEF ConvTypes, Hears
<1>2. link' \in [up : BOOLEAN, known : BOOLEAN, heard : Nat] /\ link'.heard = link.heard + 1
  <2>1. CASE link' = [link EXCEPT !.heard = @ + 1]  BY <1>1, <2>1
  <2>2. CASE link' = [link EXCEPT !.up = FALSE, !.heard = @ + 1]
    <3> DEFINE m == [link EXCEPT !.up = FALSE]
    <3>1. m \in [up : BOOLEAN, known : BOOLEAN, heard : Nat] /\ m.heard = link.heard  BY <1>1
    <3>2. link' = [m EXCEPT !.heard = link.heard + 1]  BY <2>2
    <3> HIDE DEF m
    <3> QED  BY <1>1, <3>1, <3>2
  <2> QED  BY <2>1, <2>2
<1>3. link.heard + 1 \in DOMAIN events /\ \A i \in DOMAIN events : i \in Nat /\ events[i] \in EventRecord
  BY <1>1, EventAppended
<1>4. NextEvent.post \in AnyPost  BY <1>3 DEF NextEvent, EventRecord
<1>5. \A i \in DOMAIN events : i > link.heard + 1 /\ events[i].type # "posted" => events[i].post \in Unheard'
  BY <1>2, UnheardIs
<1>6. ASSUME NEW q, q \in Unheard
      PROVE  /\ q \in Unheard' \/ q = NextEvent.post
             /\ NextEvent.type = "posted" => q \in Unheard'
  <2>1. PICK i \in DOMAIN events : i > link.heard /\ events[i].type # "posted" /\ events[i].post = q
    BY <1>6, UnheardIs
  <2>2. i = link.heard + 1 \/ i > link.heard + 1  BY <1>1, <1>3, <2>1
  <2> QED  BY <1>5, <2>1, <2>2 DEF NextEvent
<1>7. ASSUME NEW q, q \in Unheard' PROVE q \in Unheard
  <2>1. PICK i \in DOMAIN events : i > link.heard + 1 /\ events[i].type # "posted" /\ events[i].post = q
    BY <1>2, <1>7, UnheardIs
  <2>2. i > link.heard  BY <1>1, <1>3, <2>1
  <2> QED  BY <2>1, <2>2, UnheardIs
<1> QED  BY <1>1, <1>2, <1>3, <1>4, <1>5, <1>6, <1>7

\* A handler that raises has lost the event.
LEMMA HearRaisesKeeps ==
  ASSUME ConvInv, HearRaises
  PROVE  ConvInv'
<1> USE DEF ConvInv
<1>1. /\ UNCHANGED <<channel, payload, events, inbox, work, rows, index, segments, recent, running, unsettled, raced>>
      /\ link' = [link EXCEPT !.up = FALSE, !.heard = @ + 1] /\ Hears /\ NextEvent.type = "posted"
  BY DEF HearRaises
<1>2. /\ link' \in [up : BOOLEAN, known : BOOLEAN, heard : Nat] /\ link'.heard <= Len(events')
      /\ Unheard' = Unheard
  BY <1>1, NextHeard
<1>3. ConvTypes' /\ Numbered' /\ History' /\ WorkerAgrees'
  BY <1>1, <1>2 DEF ConvTypes, Numbered, History, WorkerAgrees
<1>4. \A q \in AnyPost : Agrees(q)' /\ Backed(q)'
  BY <1>1, <1>2 DEF Agrees, Waiting, Backed, InWindow, InSummary
<1> QED  BY <1>3, <1>4

\* A post that waits from now on has its first text, or a change that is unheard.
LEMMA HearPostedKeeps ==
  ASSUME ConvInv, HearPosted
  PROVE  ConvInv'
<1> USE DEF ConvInv
<1> DEFINE p == NextEvent.post
<1>1. /\ UNCHANGED <<channel, payload, events, work, rows, index, segments, recent, running, unsettled, raced>>
      /\ link' = [link EXCEPT !.heard = @ + 1] /\ Hears /\ NextEvent.type = "posted"
      /\ inbox' = [inbox EXCEPT ![p] = IF @ = "none" THEN "accepted" ELSE @]
  BY DEF HearPosted
<1>2. /\ link' \in [up : BOOLEAN, known : BOOLEAN, heard : Nat] /\ link'.heard <= Len(events')
      /\ Unheard' = Unheard /\ p \in AnyPost /\ link.heard + 1 \in DOMAIN events
      /\ \A i \in DOMAIN events : i > link.heard + 1 /\ events[i].type # "posted" => events[i].post \in Unheard'
  BY <1>1, NextHeard
<1>3. p \notin Unheard => channel[p] = payload[p]
  <2>1. \A i \in DOMAIN events : i \in Nat  BY EventAppended DEF ConvTypes
  <2>2. channel[p] # payload[p] =>
          \E i \in DOMAIN events : events[i].post = p /\ events[i].type # "posted" /\ link.heard + 1 # i
    BY <1>1, <1>2 DEF History, NextEvent
  <2>3. \A i \in DOMAIN events : events[i].post = p /\ link.heard + 1 # i => link.heard + 1 < i
    BY <1>1, <1>2 DEF History, NextEvent
  <2>4. channel[p] # payload[p] => p \in Unheard  BY <1>2, <2>1, <2>2, <2>3
  <2> QED  BY <2>4
<1>8. payload[p] # "none"
  <2>1. channel[p] # "none"  BY <1>2 DEF History, NextEvent
  <2> QED  BY <1>2, <2>1 DEF Numbered
<1> HIDE DEF p
<1>4. /\ inbox' \in [AnyPost -> {"none", "accepted", "running", "done"}]
      /\ \A q \in AnyPost : q # p => inbox'[q] = inbox[q]
      /\ inbox[p] = "running" => inbox'[p] = "running"
  BY <1>1, <1>2 DEF ConvTypes
<1>5. ConvTypes' /\ Numbered' /\ History'
  BY <1>1, <1>2, <1>4 DEF ConvTypes, Numbered, History
<1>6. WorkerAgrees'  BY <1>1, <1>4 DEF WorkerAgrees
<1>7. \A q \in AnyPost : Agrees(q)' /\ Backed(q)'
  BY <1>1, <1>2, <1>3, <1>4, <1>8 DEF Agrees, Waiting, Backed, InWindow, InSummary
<1> QED  BY <1>5, <1>6, <1>7

\* An edit that is heard is the last word on the post, or more about it is still unheard.
LEMMA HearEditedKeeps ==
  ASSUME ConvInv, HearEdited
  PROVE  ConvInv'
<1> USE DEF ConvInv
<1> DEFINE p == NextEvent.post
           text == NextEvent.text
<1>1. /\ UNCHANGED <<channel, payload, events, inbox, work, segments, running, raced>>
      /\ link' = [link EXCEPT !.heard = @ + 1] /\ Hears /\ NextEvent.type = "edited"
  BY DEF HearEdited
<1>2. /\ link' \in [up : BOOLEAN, known : BOOLEAN, heard : Nat] /\ link'.heard <= Len(events')
      /\ \A q : q \in Unheard => q \in Unheard' \/ q = p
      /\ p \in AnyPost /\ link.heard + 1 \in DOMAIN events
      /\ \A i \in DOMAIN events : i > link.heard + 1 /\ events[i].type # "posted" => events[i].post \in Unheard'
  BY <1>1, NextHeard
<1>3. Numbered' /\ History'  BY <1>1 DEF Numbered, History
<1>4. /\ text \in {"new", "bare"}
      /\ channel[p] = text \/ p \in Unheard'
  <2>1. \A i \in DOMAIN events : i \in Nat  BY EventAppended DEF ConvTypes
  <2>2. /\ text \in {"new", "bare"}
        /\ \/ channel[p] = text
           \/ \E j \in DOMAIN events : j > link.heard + 1 /\ events[j].post = p /\ events[j].type # "posted"
    BY <1>1, <1>2 DEF History, NextEvent
  <2> QED  BY <1>2, <2>2
<1>5. CASE text = "bare" \/ rows[p] = "none"
  <2>1. /\ UNCHANGED <<rows, index, recent>>
        /\ unsettled' = IF Waiting(p) /\ rows[p] = "none" THEN unsettled \cup {p} ELSE unsettled
    BY <1>5 DEF HearEdited
  <2>2. unsettled' \in SUBSET AnyPost /\ unsettled \subseteq unsettled' /\ (Waiting(p) /\ rows[p] = "none" => p \in unsettled')
    BY <1>2, <2>1 DEF ConvTypes
  <2> HIDE DEF p, text
  <2>3. ConvTypes' /\ WorkerAgrees'  BY <1>1, <1>2, <2>1, <2>2 DEF ConvTypes, WorkerAgrees
  <2>4. \A q \in AnyPost : Agrees(q)' /\ Backed(q)'
    BY <1>1, <1>2, <1>4, <1>5, <2>1, <2>2 DEF Agrees, Waiting, Backed, InWindow, InSummary
  <2> QED  BY <1>3, <2>3, <2>4
<1>6. CASE text = "new" /\ rows[p] # "none"
  <2>1. /\ rows' = [rows EXCEPT ![p] = "new"] /\ index' = [index EXCEPT ![p] = "new"]
        /\ recent' = IF FirstOf(recent, p) = 0 THEN recent
                     ELSE [recent EXCEPT ![FirstOf(recent, p)].text = "new"]
        /\ unsettled' = unsettled
    BY <1>6 DEF HearEdited
  <2>2. channel[p] = "new" \/ p \in Unheard'  BY <1>4, <1>6
  <2> HIDE DEF p, text
  <2>3. /\ rows' \in [AnyPost -> {"none", "old", "new"}] /\ index' = rows'
        /\ rows'[p] = "new" /\ \A q \in AnyPost : q # p => rows'[q] = rows[q]
    BY <1>2, <2>1 DEF ConvTypes
  <2>4. /\ recent' \in Seq([post : AnyPost, text : {"none", "old", "new", "bare"}])
        /\ \A q : InWindow(q)' => InWindow(q) \/ rows'[q] # "none"
    <3> DEFINE R == [post : AnyPost, text : {"none", "old", "new", "bare"}]
               k == FirstOf(recent, p)
               n == Len(recent)
    <3>0. recent \in Seq(R)  BY DEF ConvTypes
    <3>1. n \in Nat /\ recent \in [1..n -> R]
      <4> HIDE DEF R
      <4> QED  BY <3>0
    <3>2. \A i \in 1..n : /\ recent[i] \in R
                          /\ [recent[i] EXCEPT !.text = "new"] \in R
                          /\ [recent[i] EXCEPT !.text = "new"].post = recent[i].post
      BY <3>1
    <3>3. recent' = recent \/ recent' = [recent EXCEPT ![k] = [recent[k] EXCEPT !.text = "new"]]
      BY <2>1
    <3> HIDE DEF k
    <3>4. DOMAIN recent' = 1..n /\ \A i \in 1..n : recent'[i] = recent[i] \/ recent'[i] = [recent[i] EXCEPT !.text = "new"]
      BY <3>1, <3>3
    <3>5. recent' \in [1..n -> R]
      <4>1. \A i \in 1..n : recent'[i] \in R  BY <3>2, <3>4
      <4> HIDE DEF R
      <4>2. recent' = [i \in 1..n |-> recent'[i]]  BY <3>1, <3>3, <3>4
      <4> QED  BY <4>1, <4>2
    <3>6. recent' \in Seq(R)
      <4> HIDE DEF R, n
      <4> QED  BY <3>1, <3>5, SeqDef
    <3>7. \A i \in 1..n : recent'[i].post = recent[i].post  BY <3>2, <3>4
    <3>9. ASSUME NEW i \in 1..n, recent'[i] # recent[i] PROVE recent[i].post = p
      <4>1. i = k /\ k # 0  BY <2>1, <3>1, <3>9 DEF k
      <4> DEFINE S == {j \in 1..n : recent[j].post = p}
      <4>2. k \in S
        <5>1. k = IF S # {} THEN Min(S) ELSE 0  BY DEF k, FirstOf, SelectInSeq
        <5>2. S \in SUBSET Nat  BY <3>1
        <5> HIDE DEF S
        <5> QED  BY <4>1, <5>1, <5>2, LeastOf
      <4> QED  BY <4>1, <4>2
    <3>8. ASSUME NEW q, InWindow(q)' PROVE InWindow(q) \/ rows'[q] # "none"
      <4>1. PICK i \in 1..n : recent'[i].post = q /\ recent'[i].text # "bare"
        BY <3>4, <3>8 DEF InWindow
      <4>2. CASE recent'[i] = recent[i]  BY <3>1, <4>1, <4>2 DEF InWindow
      <4>3. CASE recent'[i] # recent[i]  BY <2>3, <3>7, <3>9, <4>1, <4>3
      <4> QED  BY <4>2, <4>3
    <3> QED  BY <3>6, <3>8
  <2>5. ConvTypes'  BY <1>1, <1>2, <2>1, <2>3, <2>4 DEF ConvTypes
  <2>6. WorkerAgrees'  BY <1>1, <2>1, <2>3 DEF WorkerAgrees
  <2>7. ASSUME NEW q \in AnyPost PROVE Agrees(q)' /\ Backed(q)'
    <3>1. Agrees(q)'  BY <1>1, <1>2, <2>1, <2>2, <2>3 DEF Agrees, Waiting
    <3>2. InSummary(q)' = InSummary(q)  BY <1>1 DEF InSummary
    <3>3. Backed(q)'  BY <1>1, <2>1, <2>3, <2>4, <3>2 DEF Backed
    <3> QED  BY <3>1, <3>3
  <2> QED  BY <1>3, <2>5, <2>6, <2>7
<1> QED  BY <1>4, <1>5, <1>6

\* A deletion takes the row, every copy in memory and all summaries with it.
LEMMA HearDeletedKeeps ==
  ASSUME ConvInv, HearDeleted
  PROVE  ConvInv'
<1> USE DEF ConvInv
<1> DEFINE p == NextEvent.post
<1>1. /\ UNCHANGED <<channel, payload, events, inbox, work, running>>
      /\ link' = [link EXCEPT !.heard = @ + 1] /\ Hears
      /\ unsettled' = IF Waiting(p) THEN unsettled \cup {p} ELSE unsettled
      /\ raced' = IF p \in work.batch THEN raced \cup {p} ELSE raced
  BY DEF HearDeleted
<1>2. /\ link' \in [up : BOOLEAN, known : BOOLEAN, heard : Nat] /\ link'.heard <= Len(events')
      /\ \A q : q \in Unheard => q \in Unheard' \/ q = p
      /\ p \in AnyPost
  BY <1>1, NextHeard
<1>3. Numbered' /\ History'  BY <1>1 DEF Numbered, History
<1>4. /\ unsettled' \in SUBSET AnyPost /\ unsettled \subseteq unsettled' /\ (Waiting(p) => p \in unsettled')
      /\ raced' \in SUBSET AnyPost /\ raced \subseteq raced' /\ (p \in work.batch => p \in raced')
  BY <1>1, <1>2 DEF ConvTypes
<1>5. CASE rows[p] = "none"
  <2>1. UNCHANGED <<rows, index, segments, recent>>  BY <1>5 DEF HearDeleted
  <2> HIDE DEF p
  <2>2. ConvTypes' /\ WorkerAgrees'  BY <1>1, <1>2, <1>4, <2>1 DEF ConvTypes, WorkerAgrees
  <2>3. \A q \in AnyPost : Agrees(q)' /\ Backed(q)'
    BY <1>1, <1>2, <1>4, <1>5, <2>1 DEF Agrees, Waiting, Backed, InWindow, InSummary
  <2> QED  BY <1>3, <2>2, <2>3
<1>6. CASE rows[p] # "none"
  <2>1. /\ rows' = [rows EXCEPT ![p] = "none"] /\ index' = [index EXCEPT ![p] = "none"]
        /\ segments' = [i \in DOMAIN segments |-> [segments[i] EXCEPT !.status = "stale"]]
        /\ recent' = Subsequence(recent, {i \in DOMAIN recent : recent[i].post # p})
    BY <1>6 DEF HearDeleted, Invalidated
  <2> HIDE DEF p
  <2>2. /\ rows' \in [AnyPost -> {"none", "old", "new"}] /\ index' = rows'
        /\ rows'[p] = "none" /\ \A q \in AnyPost : q # p => rows'[q] = rows[q]
    BY <1>2, <2>1 DEF ConvTypes
  <2>3. /\ recent' \in Seq([post : AnyPost, text : {"none", "old", "new", "bare"}])
        /\ \A q : InWindow(q)' => InWindow(q) /\ q # p
    <3> DEFINE R == [post : AnyPost, text : {"none", "old", "new", "bare"}]
               A == {i \in DOMAIN recent : recent[i].post # p}
    <3>1. recent \in Seq(R) /\ A \in SUBSET (1..Len(recent)) /\ DOMAIN recent = 1..Len(recent)
      BY DEF ConvTypes
    <3>2. recent' = Subsequence(recent, A)  BY <2>1
    <3>3. \A i \in A : i \in DOMAIN recent /\ recent[i].post # p  OBVIOUS
    <3> HIDE DEF R, A
    <3>4. /\ recent' \in Seq(R)
          /\ \E at \in [1..Len(recent') -> A] : \A n \in 1..Len(recent') : recent'[n] = recent[at[n]]
      BY <3>1, <3>2, SubsequenceSelects
    <3>5. \A n \in DOMAIN recent' : \E i \in A : recent'[n] = recent[i]
      <4>1. DOMAIN recent' = 1..Len(recent')  BY <3>4
      <4> QED  BY <3>4, <4>1
    <3>6. \A q : InWindow(q)' => InWindow(q) /\ q # p  BY <3>3, <3>5 DEF InWindow
    <3> QED  BY <3>4, <3>6 DEF R
  <2>4. /\ segments' \in Seq([of : SUBSET AnyPost, status : {"active", "stale"}])
        /\ \A q : ~InSummary(q)'
    <3> DEFINE G == [of : SUBSET AnyPost, status : {"active", "stale"}]
               n == Len(segments)
    <3>0. segments \in Seq(G)  BY DEF ConvTypes
    <3>1. n \in Nat /\ DOMAIN segments = 1..n /\ \A i \in 1..n : segments[i] \in G
      <4> HIDE DEF G
      <4> QED  BY <3>0
    <3>2. \A i \in 1..n : [segments[i] EXCEPT !.status = "stale"] \in G /\ [segments[i] EXCEPT !.status = "stale"].status = "stale"
      BY <3>1
    <3> HIDE DEF G, n
    <3>3. segments' \in [1..n -> G] /\ \A i \in DOMAIN segments' : segments'[i].status = "stale"
      BY <2>1, <3>1, <3>2
    <3>4. segments' \in Seq(G)  BY <3>1, <3>3, SeqDef
    <3> QED  BY <3>3, <3>4 DEF InSummary, G
  <2>5. ConvTypes'  BY <1>1, <1>2, <1>4, <2>2, <2>3, <2>4 DEF ConvTypes
  <2>6. WorkerAgrees'  BY <1>1, <1>4, <2>2 DEF WorkerAgrees, Waiting
  <2>7. ASSUME NEW q \in AnyPost PROVE Agrees(q)' /\ Backed(q)'
    <3>1. Agrees(q)'  BY <1>1, <1>2, <1>4, <2>2 DEF Agrees, Waiting
    <3>2. Backed(q)'  BY <1>1, <1>4, <2>2, <2>3, <2>4 DEF Backed
    <3> QED  BY <3>1, <3>2
  <2> QED  BY <1>3, <2>5, <2>6, <2>7
<1> QED  BY <1>5, <1>6

\* The window with one more message has no other post, and its size.
LEMMA RememberedIs ==
  ASSUME ConvInv, NEW p \in AnyPost
  PROVE  /\ Remembered(p) \in Seq([post : AnyPost, text : {"none", "old", "new", "bare"}])
         /\ \A q : (\E i \in DOMAIN Remembered(p) :
                       Remembered(p)[i].post = q /\ Remembered(p)[i].text # "bare") =>
                    InWindow(q) \/ (q = p /\ payload[p] # "bare")
         /\ Len(Remembered(p)) <= RecentSize
<1> DEFINE R == [post : AnyPost, text : {"none", "old", "new", "bare"}]
           m == [post |-> p, text |-> payload[p]]
           s == Append(recent, m)
           d == Len(s) - RecentSize
           k == 1 + Max({0, d})
           W == SubSeq(s, k, Len(s))
<1>1. recent \in Seq(R) /\ m \in R /\ m.post = p /\ m.text = payload[p]  BY DEF ConvInv, ConvTypes
<1>2. RecentSize \in Nat \ {0}  BY ConversationAssumption
<1>3. Remembered(p) = W  BY DEF Remembered
<1> HIDE DEF R, m
<1>4. /\ s \in Seq(R) /\ Len(s) = Len(recent) + 1 /\ Len(recent) \in Nat
      /\ \A i \in 1..Len(recent) : s[i] = recent[i]
      /\ s[Len(recent) + 1] = m
  BY <1>1, AppendProperties
<1> HIDE DEF s
<1>5. d \in Int /\ d < Len(s) /\ d = Len(s) - RecentSize  BY <1>2, <1>4
<1> HIDE DEF d
<1>6. Max({0, d}) \in {0, d} /\ Max({0, d}) >= 0 /\ Max({0, d}) >= d
  <2>1. \E x \in {0, d} : \A y \in {0, d} : x >= y  BY <1>5
  <2>2. Max({0, d}) \in {0, d} /\ \A y \in {0, d} : Max({0, d}) >= y  BY <2>1 DEF Max
  <2> QED  BY <2>2
<1>7. k \in 1..Len(s) /\ Len(s) \in Nat /\ Len(s) - k + 1 <= RecentSize  BY <1>2, <1>4, <1>5, <1>6
<1> HIDE DEF k
<1>8. /\ W \in Seq(R) /\ Len(W) = Len(s) - k + 1
      /\ \A i \in 1..Len(W) : W[i] = s[k + i - 1]
  <2>1. \A i \in k..Len(s) : s[i] \in R  BY <1>4, <1>7
  <2>2. k \in Int /\ Len(s) \in Int /\ k <= Len(s)  BY <1>7
  <2>3. /\ W \in Seq(R)
        /\ Len(W) = IF k <= Len(s) THEN Len(s) - k + 1 ELSE 0
        /\ \A i \in 1..(Len(s) - k + 1) : W[i] = s[k + i - 1]
    BY <1>4, <2>1, <2>2, SubSeqProperties
  <2> QED  BY <2>2, <2>3
<1> HIDE DEF W
<1>9. ASSUME NEW q, NEW i \in DOMAIN W, W[i].post = q, W[i].text # "bare"
      PROVE  InWindow(q) \/ (q = p /\ payload[p] # "bare")
  <2>1. i \in 1..Len(W)  BY <1>8, <1>9
  <2>2. k + i - 1 \in 1..Len(recent) \/ k + i - 1 = Len(recent) + 1  BY <1>4, <1>7, <1>8, <2>1
  <2>3. 1..Len(recent) = DOMAIN recent  BY <1>1
  <2>4. W[i] = s[k + i - 1]  BY <1>8, <2>1
  <2>5. CASE k + i - 1 \in 1..Len(recent)
    <3>1. W[i] = recent[k + i - 1]  BY <1>4, <2>4, <2>5
    <3> QED  BY <1>9, <2>3, <2>5, <3>1 DEF InWindow
  <2>6. CASE k + i - 1 = Len(recent) + 1
    <3>1. W[i] = m  BY <1>4, <2>4, <2>6
    <3> QED  BY <1>1, <1>9, <3>1
  <2> QED  BY <2>2, <2>5, <2>6
<1> QED  BY <1>3, <1>7, <1>8, <1>9 DEF R

\* The worker takes up a post that waits.
LEMMA StartPostKeeps ==
  ASSUME ConvInv, NEW p \in AnyPost, StartPost(p)
  PROVE  ConvInv'
<1> USE DEF ConvInv
<1>1. /\ UNCHANGED <<channel, payload, events, link, rows, index, segments, recent, running, unsettled, raced>>
      /\ running /\ work.batch = {}
      /\ p = Min({q \in AnyPost : inbox[q] = "accepted"} \cup {MaxPosts + 1})
      /\ inbox' = [inbox EXCEPT ![p] = IF p \in ours THEN "done" ELSE "running"]
      /\ work' = IF p \in ours THEN Idle ELSE [post |-> p, step |-> "started", batch |-> {}]
  BY DEF StartPost, Idle
<1>2. inbox[p] = "accepted"
  <2> DEFINE S == {q \in AnyPost : inbox[q] = "accepted"} \cup {MaxPosts + 1}
  <2>1. MaxPosts \in Nat  BY ConversationAssumption
  <2>2. S \in SUBSET Nat /\ S # {}  BY <2>1 DEF AnyPost
  <2>3. p \in S
    <3> HIDE DEF S
    <3>1. Min(S) \in S  BY <2>2, LeastOf
    <3> QED  BY <1>1, <3>1 DEF S
  <2>4. p # MaxPosts + 1  BY <2>1 DEF AnyPost
  <2> QED  BY <2>3, <2>4
<1>3. /\ inbox' \in [AnyPost -> {"none", "accepted", "running", "done"}]
      /\ \A q \in AnyPost : q # p => inbox'[q] = inbox[q]
      /\ p \notin ours => inbox'[p] = "running"
  BY <1>1 DEF ConvTypes
<1>4. /\ work' \in [post : AnyPost \cup {0}, step : {"idle", "started", "summarises", "answers"},
                    batch : SUBSET AnyPost]
      /\ work'.batch = {} /\ work'.step \in {"idle", "started"}
      /\ work'.step = "started" => work'.post = p /\ p \notin ours
  <2>1. CASE p \in ours  BY <1>1, <2>1 DEF Idle
  <2>2. CASE p \notin ours  BY <1>1, <2>2
  <2> QED  BY <2>1, <2>2
<1>5. Unheard' = Unheard  BY <1>1 DEF Unheard
<1>6. ConvTypes' /\ Numbered' /\ History'
  BY <1>1, <1>3, <1>4 DEF ConvTypes, Numbered, History
<1>7. WorkerAgrees'  BY <1>1, <1>3, <1>4 DEF WorkerAgrees
<1>8. ASSUME NEW q \in AnyPost PROVE Agrees(q)' /\ Backed(q)'
  <2>1. Agrees(q)'  BY <1>1, <1>2, <1>3, <1>5 DEF Agrees, Waiting
  <2>2. Backed(q)'  BY <1>1, <1>2, <1>3, <1>4 DEF Backed, InWindow, InSummary
  <2> QED  BY <2>1, <2>2
<1> QED  BY <1>6, <1>7, <1>8

\* The post is logged, and what is summarised has its rows.
LEMMA LogPostKeeps ==
  ASSUME ConvInv, LogPost
  PROVE  ConvInv'
<1> USE DEF ConvInv
<1> DEFINE p == work.post
           B == Newest({q \in AnyPost : rows'[q] # "none"}, SummaryInterval)
<1>1. /\ UNCHANGED <<channel, payload, events, link, inbox, segments, running, unsettled, raced>>
      /\ work.step = "started"
      /\ rows' = [rows EXCEPT ![p] = IF @ = "none" /\ payload[p] # "bare" THEN payload[p] ELSE @]
      /\ index' = [index EXCEPT ![p] = rows'[p]]
      /\ \/ work' = [work EXCEPT !.step = "summarises", !.batch = B] /\ recent' = recent
         \/ work' = [work EXCEPT !.step = "answers"] /\ recent' = Remembered(p)
  BY DEF LogPost, Written
<1>2. running /\ p \in AnyPost /\ inbox[p] = "running" /\ payload[p] # "none"
  BY <1>1 DEF WorkerAgrees, Backed
<1>3. B \subseteq {q \in AnyPost : rows'[q] # "none"}  BY DEF Newest
<1> HIDE DEF p, B
<1>4. /\ rows' \in [AnyPost -> {"none", "old", "new"}] /\ index' = rows'
      /\ rows'[p] # "none" \/ payload[p] = "bare"
      /\ \A q \in AnyPost : q # p => rows'[q] = rows[q]
      /\ rows'[p] = rows[p] \/ (rows[p] = "none" /\ rows'[p] = payload[p])
      /\ rows[p] # "none" => rows'[p] = rows[p]
  BY <1>1, <1>2 DEF ConvTypes
<1>5. /\ recent' \in Seq([post : AnyPost, text : {"none", "old", "new", "bare"}])
      /\ \A q : InWindow(q)' => InWindow(q) \/ (q = p /\ payload[p] # "bare")
  <2>1. CASE recent' = recent  BY <2>1 DEF ConvTypes, InWindow
  <2>2. CASE recent' = Remembered(p)  BY <1>2, <2>2, RememberedIs DEF InWindow
  <2> QED  BY <1>1, <2>1, <2>2
<1>6. /\ work' \in [post : AnyPost \cup {0}, step : {"idle", "started", "summarises", "answers"},
                    batch : SUBSET AnyPost]
      /\ work'.post = p
      /\ work'.batch = work.batch \/ \A q \in work'.batch : rows'[q] # "none"
  <2>1. CASE work' = [work EXCEPT !.step = "summarises", !.batch = B]
    <3> DEFINE w == [work EXCEPT !.step = "summarises"]
    <3>1. /\ w \in [post : AnyPost \cup {0}, step : {"idle", "started", "summarises", "answers"},
                    batch : SUBSET AnyPost]
          /\ w.post = p
      BY DEF ConvTypes, p
    <3>2. work' = [w EXCEPT !.batch = B]  BY <2>1
    <3> HIDE DEF w
    <3>3. B \in SUBSET AnyPost /\ \A q \in B : rows'[q] # "none"  BY <1>3
    <3> QED  BY <3>1, <3>2, <3>3
  <2>2. CASE work' = [work EXCEPT !.step = "answers"]  BY <2>2 DEF ConvTypes, p
  <2> QED  BY <1>1, <2>1, <2>2
<1>7. Unheard' = Unheard  BY <1>1 DEF Unheard
<1>8. ConvTypes' /\ Numbered' /\ History'
  BY <1>1, <1>4, <1>5, <1>6 DEF ConvTypes, Numbered, History
<1>9. WorkerAgrees'  BY <1>1, <1>2, <1>4, <1>6 DEF WorkerAgrees
<1>10. ASSUME NEW q \in AnyPost PROVE Agrees(q)' /\ Backed(q)'
  <2>1. Agrees(q)'  BY <1>1, <1>2, <1>4, <1>7 DEF Agrees, Waiting
  <2>2. InSummary(q)' = InSummary(q)  BY <1>1 DEF InSummary
  <2>3. Backed(q)'  BY <1>1, <1>4, <1>5, <1>6, <2>2 DEF Backed
  <2> QED  BY <2>1, <2>3
<1> QED  BY <1>8, <1>9, <1>10

\* The worker goes on from a summary.
LEMMA SummaryEnds ==
  ASSUME ConvInv, work.step = "summarises",
         work' = [work EXCEPT !.step = "answers", !.batch = {}], recent' = Remembered(work.post)
  PROVE  /\ work' \in [post : AnyPost \cup {0}, step : {"idle", "started", "summarises", "answers"},
                       batch : SUBSET AnyPost]
         /\ work'.post = work.post /\ work'.batch = {} /\ work.post \in AnyPost
         /\ recent' \in Seq([post : AnyPost, text : {"none", "old", "new", "bare"}])
         /\ \A q : InWindow(q)' => InWindow(q) \/ (q = work.post /\ payload[work.post] # "bare")
<1> DEFINE w == [work EXCEPT !.step = "answers"]
<1>1. /\ w \in [post : AnyPost \cup {0}, step : {"idle", "started", "summarises", "answers"},
                batch : SUBSET AnyPost]
      /\ w.post = work.post
  BY DEF ConvInv, ConvTypes
<1>2. work' = [w EXCEPT !.batch = {}]  OBVIOUS
<1> HIDE DEF w
<1>3. work.post \in AnyPost  BY DEF ConvInv, WorkerAgrees
<1>4. /\ work' \in [post : AnyPost \cup {0}, step : {"idle", "started", "summarises", "answers"},
                    batch : SUBSET AnyPost]
      /\ work'.post = work.post /\ work'.batch = {}
  BY <1>1, <1>2
<1>5. /\ recent' \in Seq([post : AnyPost, text : {"none", "old", "new", "bare"}])
      /\ \A q : InWindow(q)' => InWindow(q) \/ (q = work.post /\ payload[work.post] # "bare")
  BY <1>3, RememberedIs DEF InWindow
<1> QED  BY <1>3, <1>4, <1>5

\* The summary is of the rows that were read, whatever has become of them.
LEMMA SummaryWrittenKeeps ==
  ASSUME ConvInv, SummaryWritten
  PROVE  ConvInv'
<1> USE DEF ConvInv
<1>1. /\ UNCHANGED <<link, inbox, rows, index, running, unsettled, raced>>
      /\ work.step = "summarises"
      /\ work' = [work EXCEPT !.step = "answers", !.batch = {}] /\ recent' = Remembered(work.post)
      /\ segments' = Append(segments, [of |-> work.batch, status |-> "active"])
      /\ (\E p \in AnyPost : NewPost(p, "old")) \/ UNCHANGED <<channel, payload, events>>
  BY DEF SummaryWritten
<1>2. /\ channel' \in [AnyPost -> {"none", "old", "new", "bare", "gone"}]
      /\ payload' \in [AnyPost -> {"none", "old", "bare"}]
      /\ events' \in Seq(EventRecord) /\ link'.heard <= Len(events')
      /\ Numbered' /\ History' /\ Unheard' = Unheard
      /\ \A q \in AnyPost : (channel'[q] = channel[q] /\ payload'[q] = payload[q])
                             \/ (channel[q] = "none" /\ channel'[q] = payload'[q])
  <2>1. CASE \E p \in AnyPost : NewPost(p, "old")
    <3>1. PICK p \in AnyPost : NewPost(p, "old")  BY <2>1
    <3>2. /\ channel[p] = "none" /\ channel'[p] = "old" /\ \A q \in AnyPost : q # p => channel'[q] = channel[q]
          /\ payload'[p] = "old" /\ \A q \in AnyPost : q # p => payload'[q] = payload[q]
          /\ payload' \in [AnyPost -> {"none", "old", "bare"}]
          /\ channel' \in [AnyPost -> {"none", "old", "new", "bare", "gone"}]
          /\ events' \in Seq(EventRecord) /\ link'.heard <= Len(events')
          /\ Numbered' /\ History' /\ Unheard' = Unheard
      BY <1>1, <3>1, NewPostIs
    <3>3. \A q \in AnyPost : (channel'[q] = channel[q] /\ payload'[q] = payload[q])
                             \/ (channel[q] = "none" /\ channel'[q] = payload'[q])
      BY <3>2
    <3> QED  BY <3>2, <3>3, Zenon
  <2>2. CASE UNCHANGED <<channel, payload, events>>
    <3>1. /\ channel' \in [AnyPost -> {"none", "old", "new", "bare", "gone"}]
          /\ payload' \in [AnyPost -> {"none", "old", "bare"}]
          /\ events' \in Seq(EventRecord) /\ link'.heard <= Len(events')
      BY <1>1, <2>2 DEF ConvTypes
    <3>2. Numbered' /\ History'  BY <2>2 DEF Numbered, History
    <3>3. Unheard' = Unheard  BY <1>1, <2>2 DEF Unheard
    <3>4. \A q \in AnyPost : channel'[q] = channel[q] /\ payload'[q] = payload[q]  BY <2>2
    <3> QED  BY <3>1, <3>2, <3>3, <3>4, Zenon
  <2> QED  BY <1>1, <2>1, <2>2
<1>3. /\ work' \in [post : AnyPost \cup {0}, step : {"idle", "started", "summarises", "answers"},
                    batch : SUBSET AnyPost]
      /\ work'.post = work.post /\ work'.batch = {} /\ work.post \in AnyPost
      /\ recent' \in Seq([post : AnyPost, text : {"none", "old", "new", "bare"}])
      /\ \A q : InWindow(q)' => InWindow(q) \/ (q = work.post /\ payload[work.post] # "bare")
  BY <1>1, SummaryEnds
<1>4. /\ segments' \in Seq([of : SUBSET AnyPost, status : {"active", "stale"}])
      /\ \A q : InSummary(q)' => InSummary(q) \/ q \in work.batch
  <2> DEFINE G == [of : SUBSET AnyPost, status : {"active", "stale"}]
             g == [of |-> work.batch, status |-> "active"]
  <2>1. segments \in Seq(G) /\ g \in G /\ g.of = work.batch  BY DEF ConvTypes
  <2> HIDE DEF G, g
  <2>2. segments' = Append(segments, g)  BY <1>1 DEF g
  <2>3. /\ segments' \in Seq(G)
        /\ \A i \in DOMAIN segments' : (i \in DOMAIN segments /\ segments'[i] = segments[i]) \/ segments'[i] = g
    BY <2>1, <2>2, AppendProperties
  <2>4. ASSUME NEW q, InSummary(q)' PROVE InSummary(q) \/ q \in work.batch
    <3>1. PICK i \in DOMAIN segments' : segments'[i].status = "active" /\ q \in segments'[i].of
      BY <2>4 DEF InSummary
    <3> QED  BY <2>1, <2>3, <3>1 DEF InSummary
  <2> QED  BY <2>3, <2>4 DEF G
<1>5. ConvTypes'  BY <1>1, <1>2, <1>3, <1>4 DEF ConvTypes
<1>6. WorkerAgrees'
  <2>1. payload[work.post] = "bare" => payload'[work.post] = "bare"  BY <1>2, <1>3 DEF Numbered
  <2> QED  BY <1>1, <1>3, <2>1 DEF WorkerAgrees
<1>7. ASSUME NEW q \in AnyPost PROVE Agrees(q)' /\ Backed(q)'
  <2>1. Agrees(q)'  BY <1>1, <1>2 DEF Agrees, Waiting, ConvTypes
  <2>2. Backed(q)'
    <3>1. inbox'[q] # "none" => payload'[q] # "none"  BY <1>1, <1>2 DEF Backed, Numbered
    <3> QED  BY <1>1, <1>3, <1>4, <3>1 DEF Backed, WorkerAgrees
  <2> QED  BY <2>1, <2>2
<1> QED  BY <1>2, <1>5, <1>6, <1>7

\* Without its summary the worker goes on as well.
LEMMA SummaryFailsKeeps ==
  ASSUME ConvInv, SummaryFails
  PROVE  ConvInv'
<1> USE DEF ConvInv
<1>1. /\ UNCHANGED <<channel, payload, events, link, inbox, rows, index, segments, running, unsettled, raced>>
      /\ work.step = "summarises"
      /\ work' = [work EXCEPT !.step = "answers", !.batch = {}] /\ recent' = Remembered(work.post)
  BY DEF SummaryFails
<1>2. /\ work' \in [post : AnyPost \cup {0}, step : {"idle", "started", "summarises", "answers"},
                    batch : SUBSET AnyPost]
      /\ work'.post = work.post /\ work'.batch = {} /\ work.post \in AnyPost
      /\ recent' \in Seq([post : AnyPost, text : {"none", "old", "new", "bare"}])
      /\ \A q : InWindow(q)' => InWindow(q) \/ (q = work.post /\ payload[work.post] # "bare")
  BY <1>1, SummaryEnds
<1>3. Unheard' = Unheard  BY <1>1 DEF Unheard
<1>4. ConvTypes' /\ Numbered' /\ History' /\ WorkerAgrees'
  <2>1. ConvTypes'  BY <1>1, <1>2 DEF ConvTypes
  <2>2. Numbered' /\ History'  BY <1>1 DEF Numbered, History
  <2>3. WorkerAgrees'  BY <1>1, <1>2 DEF WorkerAgrees
  <2> QED  BY <2>1, <2>2, <2>3
<1>5. ASSUME NEW q \in AnyPost PROVE Agrees(q)' /\ Backed(q)'
  <2>1. Agrees(q)'  BY <1>1, <1>3 DEF Agrees, Waiting
  <2>2. InSummary(q)' = InSummary(q)  BY <1>1 DEF InSummary
  <2>3. Backed(q)'  BY <1>1, <1>2, <2>2 DEF Backed, WorkerAgrees
  <2> QED  BY <2>1, <2>3
<1> QED  BY <1>4, <1>5

\* The post is done.
LEMMA AnswerPostKeeps ==
  ASSUME ConvInv, AnswerPost
  PROVE  ConvInv'
<1> USE DEF ConvInv
<1>1. /\ UNCHANGED <<channel, payload, events, link, rows, index, segments, recent, running, unsettled, raced>>
      /\ work.step = "answers"
      /\ work' = [post |-> 0, step |-> "idle", batch |-> {}]
      /\ inbox' = [inbox EXCEPT ![work.post] = "done"]
  BY DEF AnswerPost, Idle
<1>2. /\ inbox' \in [AnyPost -> {"none", "accepted", "running", "done"}]
      /\ \A q \in AnyPost : inbox'[q] \in {"accepted", "running"} => inbox'[q] = inbox[q]
      /\ \A q \in AnyPost : inbox'[q] # "none" => inbox[q] # "none"
  BY <1>1 DEF ConvTypes, WorkerAgrees
<1>3. /\ work' \in [post : AnyPost \cup {0}, step : {"idle", "started", "summarises", "answers"},
                    batch : SUBSET AnyPost]
      /\ work'.step = "idle" /\ work'.batch = {}
  BY <1>1
<1>4. Unheard' = Unheard  BY <1>1 DEF Unheard
<1>5. ConvTypes' /\ Numbered' /\ History' /\ WorkerAgrees'
  BY <1>1, <1>2, <1>3 DEF ConvTypes, Numbered, History, WorkerAgrees
<1>6. ASSUME NEW q \in AnyPost PROVE Agrees(q)' /\ Backed(q)'
  <2>1. Agrees(q)'  BY <1>1, <1>2, <1>4 DEF Agrees, Waiting
  <2>2. Backed(q)'  BY <1>1, <1>2, <1>3 DEF Backed, InWindow, InSummary
  <2> QED  BY <2>1, <2>2
<1> QED  BY <1>5, <1>6

\* An answer is logged as it is posted.
LEMMA DeliverAnswerKeeps ==
  ASSUME ConvInv, DeliverAnswer
  PROVE  ConvInv'
<1> USE DEF ConvInv
<1>1. PICK p \in AnyPost :
        /\ NewPost(p, "old")
        /\ rows' = [rows EXCEPT ![p] = IF @ = "none" THEN "old" ELSE @]
        /\ index' = [index EXCEPT ![p] = rows'[p]]
  BY DEF DeliverAnswer, Written
<1>2. UNCHANGED <<link, inbox, work, segments, recent, running, unsettled, raced>>
  BY DEF DeliverAnswer
<1>3. /\ channel[p] = "none" /\ channel'[p] = "old" /\ \A q \in AnyPost : q # p => channel'[q] = channel[q]
      /\ payload'[p] = "old" /\ \A q \in AnyPost : q # p => payload'[q] = payload[q]
      /\ payload' \in [AnyPost -> {"none", "old", "bare"}]
      /\ channel' \in [AnyPost -> {"none", "old", "new", "bare", "gone"}]
      /\ events' \in Seq(EventRecord) /\ link'.heard <= Len(events')
      /\ Numbered' /\ History' /\ Unheard' = Unheard
  BY <1>1, <1>2, NewPostIs
<1>4. /\ rows' \in [AnyPost -> {"none", "old", "new"}] /\ index' = rows'
      /\ rows'[p] # "none" /\ \A q \in AnyPost : q # p => rows'[q] = rows[q]
      /\ rows[p] = "none" => rows'[p] = "old"
      /\ rows[p] # "none" => rows'[p] = rows[p]
  BY <1>1 DEF ConvTypes
<1>5. ConvTypes'  BY <1>2, <1>3, <1>4 DEF ConvTypes
<1>6. WorkerAgrees'
  <2>1. payload[p] = "none"  BY <1>3 DEF Numbered
  <2> QED  BY <1>2, <1>3, <1>4, <2>1 DEF WorkerAgrees
<1>7. ASSUME NEW q \in AnyPost PROVE Agrees(q)' /\ Backed(q)'
  <2>1. Agrees(q)'  BY <1>2, <1>3, <1>4 DEF Agrees, Waiting
  <2>2. Backed(q)'  BY <1>2, <1>3, <1>4 DEF Backed, InWindow, InSummary
  <2> QED  BY <2>1, <2>2
<1> QED  BY <1>3, <1>5, <1>6, <1>7

\* A crash forgets what is in memory.
LEMMA CrashBotKeeps ==
  ASSUME ConvInv, CrashBot
  PROVE  ConvInv'
<1> USE DEF ConvInv
<1>1. /\ UNCHANGED <<channel, payload, events, inbox, rows, index, segments, unsettled, raced>>
      /\ link' = [up |-> FALSE, known |-> FALSE, heard |-> link.heard]
      /\ work' = [post |-> 0, step |-> "idle", batch |-> {}] /\ recent' = <<>>
  BY DEF CrashBot, Idle
<1>2. /\ link' \in [up : BOOLEAN, known : BOOLEAN, heard : Nat] /\ link'.heard = link.heard
      /\ work' \in [post : AnyPost \cup {0}, step : {"idle", "started", "summarises", "answers"},
                    batch : SUBSET AnyPost]
      /\ work'.step = "idle" /\ work'.batch = {}
  BY <1>1 DEF ConvTypes
<1>3. recent' \in Seq([post : AnyPost, text : {"none", "old", "new", "bare"}]) /\ DOMAIN recent' = {}
  BY <1>1
<1>4. Unheard' = Unheard  BY <1>1, <1>2 DEF Unheard
<1>5. ConvTypes' /\ Numbered' /\ History' /\ WorkerAgrees'
  BY <1>1, <1>2, <1>3 DEF ConvTypes, Numbered, History, WorkerAgrees
<1>6. ASSUME NEW q \in AnyPost PROVE Agrees(q)' /\ Backed(q)'
  <2>1. Agrees(q)'  BY <1>1, <1>4 DEF Agrees, Waiting
  <2>2. Backed(q)'  BY <1>1, <1>2, <1>3 DEF Backed, InWindow, InSummary
  <2> QED  BY <2>1, <2>2
<1> QED  BY <1>5, <1>6

\* A restart reads the text of today; the window is made from the rows.
LEMMA RestartBotKeeps ==
  ASSUME ConvInv, RestartBot
  PROVE  ConvInv'
<1> USE DEF ConvInv
<1> DEFINE s == [p \in AnyPost |-> p]
           A == Newest({p \in AnyPost : rows'[p] # "none"}, RecentSize)
           kept == Subsequence(s, A)
<1>1. /\ UNCHANGED <<channel, payload, events, link, work, segments, unsettled, raced>>
      /\ ~running
      /\ rows' = Backfilled
      /\ index' = [p \in AnyPost |-> IF rows[p] = "none" THEN rows'[p] ELSE index[p]]
      /\ recent' = [i \in DOMAIN kept |-> [post |-> kept[i], text |-> rows'[kept[i]]]]
      /\ inbox' = [p \in AnyPost |-> IF inbox[p] = "running" THEN "accepted" ELSE inbox[p]]
  BY DEF RestartBot
<1>2. A \subseteq {p \in AnyPost : rows'[p] # "none"}  BY DEF Newest
<1>3. /\ rows' \in [AnyPost -> {"none", "old", "new"}]
      /\ \A p \in AnyPost : rows'[p] = rows[p] \/ (rows[p] = "none" /\ rows'[p] = channel[p])
      /\ \A p \in AnyPost : rows[p] # "none" => rows'[p] = rows[p]
  <2> DEFINE newer(p) == rows[p] = "none" /\ p > Max(Logged \cup {0}) /\ channel[p] \in {"old", "new"}
  <2>1. rows' = [p \in AnyPost |-> IF newer(p) THEN channel[p] ELSE rows[p]]
    BY <1>1 DEF Backfilled
  <2>2. \A p \in AnyPost : newer(p) => rows[p] = "none" /\ channel[p] \in {"old", "new"}
    OBVIOUS
  <2> HIDE DEF newer
  <2>3. \A p \in AnyPost : rows'[p] = IF newer(p) THEN channel[p] ELSE rows[p]  BY <2>1
  <2>4. /\ \A p \in AnyPost : rows'[p] = rows[p] \/ (rows[p] = "none" /\ rows'[p] = channel[p])
        /\ \A p \in AnyPost : rows[p] # "none" => rows'[p] = rows[p]
    BY <2>2, <2>3
  <2>5. \A p \in AnyPost : rows'[p] \in {"none", "old", "new"}
    BY <2>2, <2>3 DEF ConvTypes
  <2>6. rows' \in [AnyPost -> {"none", "old", "new"}]
    <3>1. rows' = [p \in AnyPost |-> rows'[p]]  BY <2>1
    <3> QED  BY <2>5, <3>1
  <2> QED  BY <2>4, <2>6
<1>4. index' = rows'
  <2>1. \A p \in AnyPost : index'[p] = rows'[p]  BY <1>1, <1>3 DEF ConvTypes
  <2>2. index' = [p \in AnyPost |-> index'[p]] /\ rows' = [p \in AnyPost |-> rows'[p]]
    BY <1>1, <1>3
  <2> QED  BY <2>1, <2>2
<1>5. /\ recent' \in Seq([post : AnyPost, text : {"none", "old", "new", "bare"}])
      /\ \A q : InWindow(q)' => q \in AnyPost /\ rows'[q] # "none"
  <2> DEFINE R == [post : AnyPost, text : {"none", "old", "new", "bare"}]
  <2>1. MaxPosts \in Nat /\ AnyPost = 1..MaxPosts  BY ConversationAssumption DEF AnyPost
  <2>2. s \in Seq(AnyPost) /\ Len(s) = MaxPosts /\ \A i \in 1..MaxPosts : s[i] = i
    BY <2>1
  <2>3. A \in SUBSET (1..Len(s)) /\ \A i \in A : s[i] = i /\ i \in AnyPost /\ rows'[i] # "none"
    BY <1>2, <2>1, <2>2
  <2> HIDE DEF s, A, kept
  <2>4. kept = Subsequence(s, A)  BY DEF kept
  <2>5. /\ kept \in Seq(AnyPost)
        /\ \E at \in [1..Len(kept) -> A] : \A n \in 1..Len(kept) : kept[n] = s[at[n]]
    BY <2>2, <2>3, <2>4, SubsequenceSelects
  <2>6. DOMAIN kept = 1..Len(kept) /\ Len(kept) \in Nat
        /\ \A n \in 1..Len(kept) : kept[n] \in AnyPost /\ rows'[kept[n]] # "none"
    <3>1. PICK at \in [1..Len(kept) -> A] : \A n \in 1..Len(kept) : kept[n] = s[at[n]]  BY <2>5
    <3>2. \A n \in 1..Len(kept) : at[n] \in A  BY <3>1
    <3>3. \A n \in 1..Len(kept) : kept[n] \in A  BY <2>3, <3>1, <3>2
    <3>4. DOMAIN kept = 1..Len(kept) /\ Len(kept) \in Nat  BY <2>5
    <3> QED  BY <2>3, <3>3, <3>4
  <2>7. /\ \A n \in 1..Len(kept) : [post |-> kept[n], text |-> rows'[kept[n]]] \in R
        /\ recent' = [n \in 1..Len(kept) |-> [post |-> kept[n], text |-> rows'[kept[n]]]]
    BY <1>1, <1>3, <2>6
  <2>8. \A n \in DOMAIN recent' : recent'[n].post = kept[n] /\ n \in 1..Len(kept)  BY <2>7
  <2> HIDE DEF R
  <2>9. recent' \in [1..Len(kept) -> R]  BY <2>7
  <2>10. recent' \in Seq(R)  BY <2>6, <2>9, SeqDef
  <2>11. \A q : InWindow(q)' => q \in AnyPost /\ rows'[q] # "none"
    BY <2>6, <2>8 DEF InWindow
  <2> QED  BY <2>10, <2>11 DEF R
<1> HIDE DEF s, A, kept
<1>6. /\ inbox' \in [AnyPost -> {"none", "accepted", "running", "done"}]
      /\ \A q \in AnyPost : inbox'[q] \in {"accepted", "running"} => inbox[q] \in {"accepted", "running"}
      /\ \A q \in AnyPost : inbox'[q] # "none" => inbox[q] # "none"
  <2>1. inbox \in [AnyPost -> {"none", "accepted", "running", "done"}]  BY DEF ConvTypes
  <2>2. inbox' = [p \in AnyPost |-> IF inbox[p] = "running" THEN "accepted" ELSE inbox[p]]
    BY <1>1
  <2> QED  BY <2>1, <2>2
<1>7. Unheard' = Unheard  BY <1>1 DEF Unheard
<1>8. ConvTypes' /\ Numbered' /\ History'
  <2>1. ConvTypes'  BY <1>1, <1>3, <1>4, <1>5, <1>6 DEF ConvTypes
  <2>2. UNCHANGED <<channel, payload, events>>  BY <1>1
  <2>3. Numbered' /\ History'  BY <2>2 DEF Numbered, History
  <2> QED  BY <2>1, <2>3
<1>9. WorkerAgrees'  BY <1>1 DEF WorkerAgrees
<1>10. ASSUME NEW q \in AnyPost PROVE Agrees(q)' /\ Backed(q)'
  <2>1. Agrees(q)'  BY <1>1, <1>3, <1>6, <1>7 DEF Agrees, Waiting
  <2>2. InSummary(q)' = InSummary(q)  BY <1>1 DEF InSummary
  <2>3. Backed(q)'  BY <1>1, <1>3, <1>5, <1>6, <2>2 DEF Backed
  <2> QED  BY <2>1, <2>3
<1> QED  BY <1>8, <1>9, <1>10

\* The invariant holds at the start.
LEMMA ConvStart == ConvInit => ConvInv
<1> SUFFICES ASSUME ConvInit PROVE ConvInv  OBVIOUS
<1>1. MaxPosts \in Nat  BY ConversationAssumption
<1>2. ConvTypes  BY DEF ConvInit, ConvTypes, Idle
<1>3. Numbered  BY <1>1 DEF ConvInit, Numbered, AnyPost
<1>4. History /\ WorkerAgrees /\ \A p \in AnyPost : Agrees(p) /\ Backed(p)
  BY DEF ConvInit, History, WorkerAgrees, Agrees, Backed, Waiting, InWindow, InSummary, Idle
<1> QED  BY <1>2, <1>3, <1>4 DEF ConvInv

\* Every step of the server, the connection and the worker keeps it.
LEMMA ConvStep == ConvInv /\ [ConvNext]_convVars => ConvInv'
<1> SUFFICES ASSUME ConvInv, [ConvNext]_convVars PROVE ConvInv'  OBVIOUS
<1>1. CASE UNCHANGED convVars
  BY <1>1 DEF convVars, ConvInv, ConvTypes, Numbered, History, WorkerAgrees, Agrees, Backed, Waiting,
             InWindow, InSummary, Unheard
<1>2. CASE ConvNext
  BY <1>2, UserPostsKeeps, UserChangesKeeps, ConnectKeeps, DisconnectKeeps, HearRaisesKeeps,
     HearPostedKeeps, HearEditedKeeps, HearDeletedKeeps, StartPostKeeps, LogPostKeeps,
     SummaryWrittenKeeps, SummaryFailsKeeps, AnswerPostKeeps, DeliverAnswerKeeps,
     CrashBotKeeps, RestartBotKeeps DEF ConvNext
<1> QED  BY <1>1, <1>2

\* The log, its index, the window in memory and the summaries agree with the channel, for every
\* post whose changes were heard after the worker was through with it, however long the channel
\* and however often connections are lost and the bot crashes.
THEOREM LogMirrorsTheChannel == ConvSpec => []LogMirrorsChannel
<1>1. ConvInit => ConvInv
  BY ConvStart
<1>2. ConvInv /\ [ConvNext]_convVars => ConvInv'
  BY ConvStep
<1>3. ConvInv => LogMirrorsChannel
  <2> SUFFICES ASSUME ConvInv, NEW p \in AnyPost \ (unsettled \cup Unheard)
               PROVE  /\ \A text \in {"old", "new"} :
                           /\ p \in Searched(text) => p \in Indexed(text)
                           /\ p \in Indexed(text) \cup Searched(text) => channel[p] \in {text, "bare"}
                      /\ channel[p] = "gone" =>
                           p \notin Given.window /\ (p \notin raced => p \notin Given.summarised)
    BY DEF LogMirrorsChannel
  <2>1. /\ (rows[p] \in {"none", channel[p]} \/ channel[p] = "bare") /\ rows[p] \in {"none", "old", "new"} /\ index = rows
        /\ InWindow(p) => rows[p] # "none"
        /\ InSummary(p) => rows[p] # "none" \/ p \in raced
    BY DEF ConvInv, Agrees, Backed, ConvTypes
  <2>2. \A text \in {"old", "new"} :
          /\ p \in Searched(text) => p \in Indexed(text)
          /\ p \in Indexed(text) \cup Searched(text) => channel[p] \in {text, "bare"}
    BY <2>1 DEF Searched, Indexed
  <2>3. p \in Given.window => InWindow(p)  BY DEF Given, InWindow
  <2>4. p \in Given.summarised => InSummary(p)
    <3> DEFINE U == UNION {segments[i].of : i \in ActiveSummaries}
    <3>1. Given.summarised = U  BY DEF Given
    <3>2. p \in U => InSummary(p)  BY DEF InSummary, ActiveSummaries
    <3> QED  BY <3>1, <3>2
  <2> QED  BY <2>1, <2>2, <2>3, <2>4
<1> QED  BY <1>1, <1>2, <1>3, PTL DEF ConvSpec

-----------------------------------------------------------------------------
(* The run: the types of all seven components.                             *)

\* A step of the run is a step of one component, and the others stutter.
LEMMA OneComponentMoves ==
  [Next]_vars =>
    /\ [TurnNext]_turnVars /\ [ConvNext]_convVars /\ [ArtifactsNext]_artifactVars /\ [PersonasNext]_personasVars
    /\ [SkillsNext]_skillsVars /\ [DraftsNext]_draftVars /\ [GoalsNext]_goalVars
<1> SUFFICES ASSUME [Next]_vars
             PROVE  /\ [TurnNext]_turnVars /\ [ConvNext]_convVars /\ [ArtifactsNext]_artifactVars
                    /\ [PersonasNext]_personasVars /\ [SkillsNext]_skillsVars /\ [DraftsNext]_draftVars
                    /\ [GoalsNext]_goalVars
  OBVIOUS
<1>1. CASE UNCHANGED vars
  BY <1>1 DEF vars, turnsAndTalk, assets, tasks
<1>2. CASE Next
  BY <1>2 DEF Next, turnsAndTalk, assets, tasks
<1> QED  BY <1>1, <1>2

\* Turns: the projection that is recorded for a turn is of the package's.
ListedTyped == listed \in [Turns -> SUBSET PackageCaps]

\* Only the beginning of a turn records a projection.
LEMMA ListedStays ==
  ListedTyped /\ [TurnNext]_turnVars => ListedTyped'
<1> SUFFICES ASSUME ListedTyped, [TurnNext]_turnVars PROVE ListedTyped'
  OBVIOUS
<1>1. CASE UNCHANGED turnVars
  BY <1>1 DEF turnVars, ListedTyped
<1>2. CASE UNCHANGED listed
  BY <1>2 DEF ListedTyped
<1>3. ASSUME NEW t \in Turns, NEW actor, NEW how, NEW activated, BeginTurn(t, actor, how, activated)
      PROVE  ListedTyped'
  <2>1. Listed(place, activated) \in SUBSET PackageCaps
    BY DEF Listed, SkillCaps, PackageCaps
  <2> QED  BY <1>3, <2>1 DEF BeginTurn, ListedTyped
<1>4. ASSUME NEW t \in Turns,
             \/ RefuseTurn(t) \/ EnterGraph(t) \/ ParkTurn(t) \/ ParkAmbient(t) \/ PassCheck(t) \/ RefuseCall(t)
             \/ ExecuteCall(t) \/ RebuildSession(t)
      PROVE  ListedTyped'
  BY <1>2, <1>4 DEF RefuseTurn, EnterGraph, ParkTurn, ParkAmbient, PassCheck, RefuseCall, ExecuteCall, RebuildSession
<1>5. ASSUME NEW t \in Turns, NEW x,
             \/ AskForTool(t, x) \/ AnswerTurn(t, x) \/ FailRun(t, x) \/ FailResume(t, x) \/ DecideRequest(t, x)
      PROVE  ListedTyped'
  BY <1>2, <1>5 DEF AskForTool, AnswerTurn, FailRun, FailResume, GraphFails, DecideRequest
<1>6. ASSUME NEW effect, EndProcess \/ StartProcess(effect) PROVE ListedTyped'
  BY <1>2, <1>6 DEF EndProcess, StartProcess
<1> QED  BY <1>1, <1>3, <1>4, <1>5, <1>6 DEF TurnNext

\* The process of an execution and its runner.
ExecutionTypes ==
  /\ child \in [Output -> Runner \cup {"none"}]
  /\ runnerUp \in [Output -> {"idle", "running", "output", "over"}]

\* How a commit ends.
LEMMA EndedTyped ==
  ASSUME ExecutionTypes, NEW o \in Output, Ended(o), child' = child
  PROVE  ExecutionTypes'
BY DEF ExecutionTypes, Ended

\* Executions, commits, crash and restart keep the processes' types.
LEMMA ExecutionTypesStay ==
  ExecutionTypes /\ [ArtifactsNext]_artifactVars => ExecutionTypes'
<1> SUFFICES ASSUME ExecutionTypes, [ArtifactsNext]_artifactVars PROVE ExecutionTypes'
  OBVIOUS
<1>1. CASE UNCHANGED artifactVars
  BY <1>1 DEF artifactVars, ExecutionTypes
<1>2. CASE UNCHANGED <<child, runnerUp>>
  BY <1>2 DEF ExecutionTypes
<1>3. CASE CrashRunner
  BY <1>3 DEF CrashRunner, ExecutionTypes, Runner
<1>4. ASSUME NEW o \in Output, ChildEnds(o) PROVE ExecutionTypes'
  BY <1>4 DEF ChildEnds, ExecutionTypes
<1>5. ASSUME NEW o \in Output, CommandReturns(o) PROVE ExecutionTypes'
  <2>1. runnerUp' \in [Output -> {"idle", "running", "output", "over"}]
    BY <1>5 DEF CommandReturns, ExecutionTypes
  <2>2. child' \in [Output -> Runner \cup {"none"}]
    BY <1>5 DEF CommandReturns, ExecutionTypes, Runner
  <2> QED  BY <2>1, <2>2 DEF ExecutionTypes
<1>6. ASSUME NEW o \in Output, ExecutionFails(o) PROVE ExecutionTypes'
  BY <1>6 DEF ExecutionFails, ExecutionTypes
<1>7. ASSUME NEW o \in Output, BeginCommit(o) \/ Inspect(o) PROVE ExecutionTypes'
  BY <1>2, <1>7, EndedTyped DEF BeginCommit, Inspect
<1>8. ASSUME NEW o \in Output, Replace(o) \/ InsertRow(o) PROVE ExecutionTypes'
  BY <1>2, <1>8, EndedTyped DEF Replace, InsertRow, CommitFails
<1>9. ASSUME NEW o \in Output, NEW runner \in Runner, StartExecution(o, runner) PROVE ExecutionTypes'
  BY <1>9 DEF StartExecution, ExecutionTypes
<1> QED
  BY <1>1, <1>2, <1>3, <1>4, <1>5, <1>6, <1>7, <1>8, <1>9
     DEF ArtifactsNext, QueueMessage, BeginDelivery, Upload, UploadLost, SendFiles, RestartRunner, Copy, ChildWrites

\* While the repository is open a copy lies about only for the commit that is to replace it.
CopiesAreOfTheCommit ==
  up = "yes" => \A o \in Output : tmpDir[o] # "none" => commit.of = o /\ commit.at = "replace"

\* Commits, crash and restart clear the copies.
LEMMA CopiesStayOfTheCommit ==
  ArtifactTypes /\ CopiesAreOfTheCommit /\ [ArtifactsNext]_artifactVars => CopiesAreOfTheCommit'
<1> SUFFICES ASSUME ArtifactTypes, CopiesAreOfTheCommit, [ArtifactsNext]_artifactVars PROVE CopiesAreOfTheCommit'
  OBVIOUS
<1>1. CASE UNCHANGED <<up, tmpDir, commit>>
  BY <1>1 DEF CopiesAreOfTheCommit
<1>2. CASE UNCHANGED <<up, tmpDir>> /\ commit.at # "replace"
  BY <1>2 DEF CopiesAreOfTheCommit
<1>3. CASE CrashRunner
  BY <1>3 DEF CrashRunner, CopiesAreOfTheCommit
<1>4. CASE RestartRunner
  BY <1>4 DEF RestartRunner, CopiesAreOfTheCommit
<1>5. ASSUME NEW o \in Output, BeginCommit(o) PROVE CopiesAreOfTheCommit'
  BY <1>2, <1>5 DEF BeginCommit, Free, NoCommit, disk
<1>6. ASSUME NEW o \in Output, Inspect(o) PROVE CopiesAreOfTheCommit'
  BY <1>2, <1>6 DEF Inspect, disk
<1>7. ASSUME NEW o \in Output, Copy(o) PROVE CopiesAreOfTheCommit'
  <2>1. /\ \A p \in Output : p # o => tmpDir'[p] = tmpDir[p]
        /\ commit'.of = o /\ commit'.at = "replace" /\ up' = up /\ commit.at = "copy"
    BY <1>7 DEF Copy, ArtifactTypes, CommitRow
  <2> QED  BY <2>1 DEF CopiesAreOfTheCommit
<1>8. ASSUME NEW o \in Output, commit.of = o, up' = up, tmpDir' = [tmpDir EXCEPT ![o] = "none"]
      PROVE  CopiesAreOfTheCommit'
  <2>1. tmpDir'[o] = "none" /\ \A p \in Output : p # o => tmpDir'[p] = tmpDir[p]
    BY <1>8 DEF ArtifactTypes
  <2> QED  BY <1>8, <2>1 DEF CopiesAreOfTheCommit
<1>9. ASSUME NEW o \in Output, Replace(o) PROVE CopiesAreOfTheCommit'
  BY <1>8, <1>9 DEF Replace, CommitFails
<1>10. ASSUME NEW o \in Output, InsertRow(o) PROVE CopiesAreOfTheCommit'
  <2>1. CASE CommitFails(o)
    BY <1>8, <1>10, <2>1 DEF InsertRow, CommitFails
  <2>2. CASE UNCHANGED tmpDir
    BY <1>2, <1>10, <2>2 DEF InsertRow
  <2> QED  BY <1>10, <2>1, <2>2 DEF InsertRow
<1> QED
  BY <1>1, <1>3, <1>4, <1>5, <1>6, <1>7, <1>9, <1>10
     DEF ArtifactsNext, artifactVars, disk, QueueMessage, BeginDelivery, Upload, UploadLost, SendFiles, ChildWrites, ChildEnds,
         CommandReturns, ExecutionFails, StartExecution

\* Skills: a session names a revision, and so does the message that is served.
SkillsRest ==
  /\ praised \in [Case -> {"none", "helpful", "needs_improvement"}]
  /\ skillSession \in [kind : {"none", "run", "edit"}, ref : Ref \cup {NoRef}]
  /\ message \in {"none", "classifying", "turn"} /\ wanted \in Ref \cup {NoRef}

\* A Skill has no more revisions than there are numbers for them.
LEMMA NewestIsARevision ==
  ASSUME NEW s \in Skill PROVE NewestOf(s) \in 0..MaxSkillRevisions
<1> DEFINE there == {n \in 1..MaxSkillRevisions : skill[s][n] # "absent"}
<1>1. /\ IsFiniteSet(1..MaxSkillRevisions) /\ Cardinality(1..MaxSkillRevisions) = MaxSkillRevisions
      /\ MaxSkillRevisions \in Nat
  BY FS_Interval, PersonalSkillsAssumption
<1>2. there \subseteq 1..MaxSkillRevisions
  OBVIOUS
<1>3. IsFiniteSet(there) /\ Cardinality(there) <= MaxSkillRevisions
  BY <1>1, <1>2, FS_Subset
<1>4. Cardinality(there) \in Nat
  BY <1>3, FS_CardinalityType
<1> QED  BY <1>1, <1>3, <1>4 DEF NewestOf

\* Sessions and messages keep their types.
LEMMA SkillsRestStays ==
  SkillsRest /\ [SkillsNext]_skillsVars => SkillsRest'
<1> SUFFICES ASSUME SkillsRest, [SkillsNext]_skillsVars PROVE SkillsRest'
  OBVIOUS
<1> USE DEF casesVars, skillVars, messageVars
<1>0. Closed \in [kind : {"none", "run", "edit"}, ref : Ref \cup {NoRef}]
  BY DEF Closed
<1>1. CASE UNCHANGED skillsVars
  BY <1>1 DEF skillsVars, SkillsRest
<1>2. CASE UNCHANGED <<praised, skillSession, message, wanted>>
  BY <1>2 DEF SkillsRest
<1>3. CASE CancelSession
  BY <1>0, <1>3 DEF CancelSession, SkillsRest
<1>4. CASE FillInRun
  <2>1. skillSession.ref \in Ref \cup {NoRef}  BY DEF SkillsRest
  <2> QED  BY <1>0, <1>4, <2>1 DEF FillInRun, SkillsRest
<1>5. CASE FillInEdit
  BY <1>0, <1>5 DEF FillInEdit, SkillsRest
<1>6. CASE Classify
  <2>1. PICK s \in Skill : NewestOf(s) > 0 /\ wanted' = <<s, NewestOf(s)>>
    BY <1>6 DEF Classify
  <2>2. NewestOf(s) \in 1..MaxSkillRevisions
    BY <2>1, NewestIsARevision, PersonalSkillsAssumption
  <2>3. wanted' \in Ref  BY <2>1, <2>2 DEF Ref
  <2> QED  BY <1>6, <2>3 DEF Classify, SkillsRest
<1>7. CASE ClassifiedRun
  BY <1>7 DEF ClassifiedRun, SkillsRest
<1>8. CASE ClassifiedOther
  <2>1. skillSession' \in [kind : {"none", "run", "edit"}, ref : Ref \cup {NoRef}]
    BY <1>8 DEF ClassifiedOther, SkillsRest
  <2> QED  BY <1>8, <2>1 DEF ClassifiedOther, SkillsRest
<1>9. CASE TurnWithSkill
  BY <1>9 DEF TurnWithSkill, SkillsRest
<1>10. ASSUME NEW c \in Case, NEW feedback \in {"kept", "helpful", "needs_improvement"}, SaveCase(c, feedback)
       PROVE  SkillsRest'
  BY <1>10 DEF SaveCase, SkillsRest
<1>11. ASSUME NEW r \in Ref, NEW kind \in {"run", "edit"}, OpenSession(kind, r)
       PROVE  SkillsRest'
  BY <1>11 DEF OpenSession, SkillsRest
<1> QED
  BY <1>1, <1>2, <1>3, <1>4, <1>5, <1>6, <1>7, <1>8, <1>9, <1>10, <1>11
     DEF SkillsNext, GiveUpDraft, AttachCase, SaveForDraft, DraftFrom, BuildDraft, ActivateSkill, ArchiveSkill

\* The newest k of a set of posts are no more than k.
LEMMA NewestAreFew ==
  ASSUME NEW S \in SUBSET AnyPost, NEW k \in Nat
  PROVE  IsFiniteSet(Newest(S, k)) /\ Cardinality(Newest(S, k)) <= k
<1> DEFINE N == Newest(S, k)
<1>1. IsFiniteSet(S) /\ S \in SUBSET Nat
  <2>0. MaxPosts \in Nat /\ IsFiniteSet(1..MaxPosts)  BY FS_Interval, ConversationAssumption
  <2>1. AnyPost \in SUBSET Nat /\ IsFiniteSet(AnyPost)
    BY <2>0 DEF AnyPost
  <2> QED  BY <2>1, FS_Subset
<1>2. N \subseteq S  BY DEF Newest
<1>3. IsFiniteSet(N)  BY <1>1, <1>2, FS_Subset
<1>4. CASE N = {}
  BY <1>4, FS_EmptySet
<1>5. CASE N # {}
  <2> HIDE DEF N
  <2>0. N \in SUBSET Nat  BY <1>1, <1>2
  <2>1. PICK m \in N : \A n \in N : m <= n
    BY <1>5, <2>0, LeastOf
  <2> DEFINE above == {q \in S : q > m}
  <2>2. Cardinality(above) < k  BY <2>1 DEF N, Newest
  <2>3. N \ {m} \subseteq above  BY <1>1, <1>2, <2>1
  <2>4. IsFiniteSet(above)  BY <1>1, FS_Subset
  <2> HIDE DEF above
  <2>5. Cardinality(N \ {m}) <= Cardinality(above)  BY <2>3, <2>4, FS_Subset
  <2>6. /\ Cardinality(N \ {m}) = Cardinality(N) - 1
        /\ Cardinality(N) \in Nat /\ Cardinality(above) \in Nat
    BY <1>3, <2>1, <2>4, FS_RemoveElement, FS_CardinalityType
  <2> QED  BY <1>3, <2>2, <2>5, <2>6 DEF N
<1> QED  BY <1>3, <1>4, <1>5

\* The messages that are loaded at the start are no more than the window takes.
LEMMA LoadedFit ==
  ASSUME ConvInv, RestartBot PROVE Len(recent') <= RecentSize
<1> DEFINE s == [p \in AnyPost |-> p]
           A == Newest({p \in AnyPost : rows'[p] # "none"}, RecentSize)
           kept == Subsequence(s, A)
<1>1. recent' = [i \in DOMAIN kept |-> [post |-> kept[i], text |-> rows'[kept[i]]]]
  BY DEF RestartBot
<1>2. RecentSize \in Nat /\ MaxPosts \in Nat /\ AnyPost = 1..MaxPosts
  BY ConversationAssumption DEF AnyPost
<1>3. A \in SUBSET AnyPost /\ Cardinality(A) <= RecentSize
  <2>1. A \subseteq {p \in AnyPost : rows'[p] # "none"}  BY DEF Newest
  <2> QED  BY <1>2, <2>1, NewestAreFew
<1>4. s \in Seq(AnyPost) /\ Len(s) = MaxPosts  BY <1>2
<1> HIDE DEF s, A, kept
<1>5. A \in SUBSET (1..Len(s))  BY <1>2, <1>3, <1>4
<1>6. kept \in Seq(AnyPost) /\ Len(kept) <= RecentSize
  BY <1>3, <1>4, <1>5, SubsequenceSelects, SubsequenceLength DEF kept
<1>7. Len(recent') = Len(kept)
  BY <1>1, <1>6
<1> QED  BY <1>6, <1>7

\* The window and the posts of the bot's own.
ConvRest == Len(recent) <= RecentSize /\ ours \subseteq AnyPost

\* The window is cut whenever it grows, and every post has a number.
LEMMA ConvRestStays ==
  ConvInv /\ ConvRest /\ [ConvNext]_convVars => ConvRest'
<1> SUFFICES ASSUME ConvInv, ConvRest, [ConvNext]_convVars PROVE ConvRest'
  OBVIOUS
<1>1. CASE UNCHANGED <<recent, ours>>
  BY <1>1 DEF ConvRest
<1>2. CASE HearEdited
  <2>1. \/ recent' = recent
        \/ recent' = [recent EXCEPT ![FirstOf(recent, NextEvent.post)].text = NextEvent.text]
    BY <1>2 DEF HearEdited
  <2>2. recent \in Seq([post : AnyPost, text : {"none", "old", "new", "bare"}])
    BY DEF ConvInv, ConvTypes
  <2>3. Len(recent') = Len(recent)  BY <2>1, <2>2
  <2> QED  BY <1>2, <2>3 DEF HearEdited, ConvRest
<1>3. CASE HearDeleted
  <2> DEFINE A == {i \in DOMAIN recent : recent[i].post # NextEvent.post}
             R == [post : AnyPost, text : {"none", "old", "new", "bare"}]
  <2>1. recent' = recent \/ recent' = Subsequence(recent, A)
    BY <1>3 DEF HearDeleted
  <2>2. recent \in Seq(R)
    BY DEF ConvInv, ConvTypes
  <2>3. A \in SUBSET (1..Len(recent))  BY <2>2
  <2> HIDE DEF A, R
  <2>4. /\ Len(Subsequence(recent, A)) <= Len(recent)
        /\ Len(Subsequence(recent, A)) \in Nat /\ Len(recent) \in Nat
    BY <2>2, <2>3, SubsequenceSelects, SubsequenceLength
  <2>5. Len(recent') <= RecentSize
    BY <2>1, <2>4, ConversationAssumption DEF ConvRest
  <2> QED  BY <1>3, <2>5 DEF HearDeleted, ConvRest
<1>4. CASE LogPost
  <2>1. recent' = recent \/ (recent' = Remembered(work.post) /\ work.post \in AnyPost)
    BY <1>4 DEF LogPost, ConvInv, WorkerAgrees
  <2>2. Len(recent') <= RecentSize  BY <2>1, RememberedIs DEF ConvRest
  <2> QED  BY <1>4, <2>2 DEF LogPost, ConvRest
<1>5. CASE SummaryWritten \/ SummaryFails
  <2>1. recent' = Remembered(work.post) /\ work.post \in AnyPost
    BY <1>5 DEF SummaryWritten, SummaryFails, ConvInv, WorkerAgrees
  <2>2. Len(recent') <= RecentSize  BY <2>1, RememberedIs
  <2>3. ours' \subseteq AnyPost  BY <1>5 DEF SummaryWritten, SummaryFails, ConvRest
  <2> QED  BY <2>2, <2>3 DEF ConvRest
<1>6. CASE DeliverAnswer
  BY <1>6 DEF DeliverAnswer, ConvRest
<1>7. CASE CrashBot
  BY <1>7, ConversationAssumption DEF CrashBot, ConvRest
<1>8. CASE RestartBot
  BY <1>8, LoadedFit DEF RestartBot, ConvRest
<1> QED
  BY <1>1, <1>2, <1>3, <1>4, <1>5, <1>6, <1>7, <1>8
     DEF ConvNext, convVars, UserPosts, UserChanges, Connect, Disconnect, HearRaises, HearPosted, StartPost, AnswerPost

\* How many memories are active.
ActiveMemories == {i \in Memory : item[i] = "active"}
PersonasRest == IsFiniteSet(ActiveMemories) /\ Cardinality(ActiveMemories) <= MaxActive

\* A memory is taken up with the quota's leave, and the other steps make none active.
LEMMA PersonasRestStays ==
  PersonaTypes /\ PersonasRest /\ [PersonasNext]_personasVars => PersonasRest'
<1> SUFFICES ASSUME PersonaTypes, PersonasRest, [PersonasNext]_personasVars PROVE PersonasRest'
  OBVIOUS
<1>1. MaxActive \in Nat /\ Cardinality(ActiveMemories) \in Nat
  BY PersonasAssumption, FS_CardinalityType DEF PersonasRest
<1>2. ASSUME ActiveMemories' \subseteq ActiveMemories PROVE PersonasRest'
  <2>1. IsFiniteSet(ActiveMemories) /\ Cardinality(ActiveMemories) <= MaxActive
    BY DEF PersonasRest
  <2>2. IsFiniteSet(ActiveMemories') /\ Cardinality(ActiveMemories') <= Cardinality(ActiveMemories)
    BY <1>2, <2>1, FS_Subset
  <2>3. Cardinality(ActiveMemories') \in Nat
    BY <2>2, FS_CardinalityType
  <2>4. Cardinality(ActiveMemories') <= MaxActive
    BY <1>1, <2>1, <2>2, <2>3
  <2> QED  BY <2>2, <2>4 DEF PersonasRest
<1>3. CASE UNCHANGED item
  BY <1>2, <1>3 DEF ActiveMemories
<1>4. ASSUME NEW i \in Memory, ExpireMemory(i) \/ Forget(i) PROVE PersonasRest'
  <2>1. \A k \in Memory : item'[k] = "active" => item[k] = "active"
    BY <1>4 DEF ExpireMemory, Forget, PersonaTypes
  <2> QED  BY <1>2, <2>1 DEF ActiveMemories
<1>5. CASE RevokeSource
  <2>1. \A k \in Memory : item'[k] = "active" => item[k] = "active"
    BY <1>5 DEF RevokeSource
  <2> QED  BY <1>2, <2>1 DEF ActiveMemories
<1>6. ASSUME NEW m \in Post, Remember(m) PROVE PersonasRest'
  <2> DEFINE i == <<m, personaFaults + 1>>
  <2>1. item' = item \/ (item' = [item EXCEPT ![i] = "active"] /\ Cardinality(ActiveMemories) < MaxActive)
    BY <1>6 DEF Remember, QuotaLeft, ActiveMemories
  <2> HIDE DEF i
  <2>2. CASE item' = [item EXCEPT ![i] = "active"] /\ i \in Memory /\ Cardinality(ActiveMemories) < MaxActive
    <3>1. ActiveMemories' = ActiveMemories \cup {i}  BY <2>2 DEF PersonaTypes, ActiveMemories
    <3>2. IsFiniteSet(ActiveMemories)  BY DEF PersonasRest
    <3>3. /\ IsFiniteSet(ActiveMemories \cup {i})
          /\ Cardinality(ActiveMemories \cup {i}) =
               IF i \in ActiveMemories THEN Cardinality(ActiveMemories) ELSE Cardinality(ActiveMemories) + 1
      BY <3>2, FS_AddElement
    <3>4. Cardinality(ActiveMemories') <= MaxActive
      BY <1>1, <2>2, <3>1, <3>3
    <3> QED  BY <3>1, <3>3, <3>4 DEF PersonasRest
  <2>3. CASE item' = [item EXCEPT ![i] = "active"] /\ i \notin Memory
    BY <1>2, <2>3 DEF PersonaTypes, ActiveMemories
  <2> QED  BY <1>3, <2>1, <2>2, <2>3
<1> QED
  BY <1>3, <1>4, <1>5, <1>6
     DEF PersonasNext, personasVars, personaStore, CreatePersona, CrashPersonas, RestartPersonas, SendPost, LogSource,
         Finish, HandlingFails, SourceGoes, SourceStays, ArchiveByMemory, Authorise, RevisePolicy, PublishPersona,
         ArchivePersona

\* Drafts.
DraftsRest ==
  /\ candidate \subseteq Item /\ button \in [Button -> {"none", "open", "used", "expired"}]

\* Candidates and buttons keep their types.
LEMMA DraftsRestStays ==
  DraftsRest /\ [DraftsNext]_draftVars => DraftsRest'
<1> SUFFICES ASSUME DraftsRest, [DraftsNext]_draftVars PROVE DraftsRest'
  OBVIOUS
<1>1. CASE UNCHANGED draftVars
  BY <1>1 DEF draftVars, DraftsRest
<1>2. CASE UNCHANGED <<candidate, button>>
  BY <1>2 DEF DraftsRest
<1>3. CASE Attach
  BY <1>3 DEF Attach, Matches, DraftsRest
<1>4. ASSUME NEW b \in Button, ButtonExpires(b) PROVE DraftsRest'
  BY <1>4 DEF ButtonExpires, DraftsRest
<1>5. ASSUME NEW d \in Decider, Consume(d) PROVE DraftsRest'
  <2>1. candidate' = candidate /\ (button' = button \/ \E b \in Button : button' = [button EXCEPT ![b] = "used"])
    BY <1>5 DEF Consume, Button
  <2> QED  BY <2>1 DEF DraftsRest
<1> QED
  BY <1>1, <1>2, <1>3, <1>4, <1>5
     DEF DraftsNext, PostReport, MemberChanges, CrashDrafts, CallbackTimesOut, Raises, RejectDraft, ClaimCommit,
         CheckAssignee, CreateTask, CompleteDraft, Command, Click

\* The types of all components, and what their steps need to keep them.
AgentWorkInv ==
  /\ TurnInv /\ ListedTyped
  /\ ConvInv /\ ConvRest
  /\ ArtifactsInv /\ ExecutionTypes /\ CopiesAreOfTheCommit
  /\ PersonasInv /\ PersonasRest
  /\ SkillsInv /\ SkillsRest
  /\ DraftsInv /\ DraftsRest
  /\ GoalsInv

\* They hold at the start.
LEMMA AgentWorkStart == Init => AgentWorkInv
<1> SUFFICES ASSUME Init PROVE AgentWorkInv
  OBVIOUS
<1>1. TurnInv /\ ConvInv /\ ArtifactsInv /\ PersonasInv /\ SkillsInv /\ DraftsInv /\ GoalsInv
  BY TurnInitKnown, ConvStart, ArtifactsStart, PersonasStart, SkillsStart, DraftsStart, GoalsInitInv DEF Init
<1>2. ListedTyped
  BY DEF Init, TurnInit, ListedTyped
<1>3. ConvRest
  BY ConversationAssumption DEF Init, ConvInit, ConvRest
<1>4. ExecutionTypes /\ CopiesAreOfTheCommit
  BY DEF Init, ArtifactsInit, ExecutionTypes, CopiesAreOfTheCommit
<1>5. PersonasRest
  <2>1. ActiveMemories = {}  BY DEF Init, PersonasInit, ActiveMemories
  <2> QED  BY <2>1, FS_EmptySet, PersonasAssumption DEF PersonasRest
<1>6. SkillsRest
  BY DEF Init, SkillsInit, SkillsRest, Closed
<1>7. DraftsRest
  BY DEF Init, DraftsInit, DraftsRest
<1> QED  BY <1>1, <1>2, <1>3, <1>4, <1>5, <1>6, <1>7 DEF AgentWorkInv

\* A step of the run keeps them, whichever component it is of.
LEMMA AgentWorkStep == AgentWorkInv /\ [Next]_vars => AgentWorkInv'
<1> SUFFICES ASSUME AgentWorkInv, [Next]_vars PROVE AgentWorkInv'
  OBVIOUS
<1>1. /\ [TurnNext]_turnVars /\ [ConvNext]_convVars /\ [ArtifactsNext]_artifactVars /\ [PersonasNext]_personasVars
      /\ [SkillsNext]_skillsVars /\ [DraftsNext]_draftVars /\ [GoalsNext]_goalVars
  BY OneComponentMoves
<1>2. TurnInv' /\ ListedTyped'
  BY <1>1, TurnStepKeeps, ListedStays DEF AgentWorkInv
<1>3. ConvInv' /\ ConvRest'
  BY <1>1, ConvStep, ConvRestStays DEF AgentWorkInv
<1>4. ArtifactsInv'
  BY <1>1, ArtifactsStep DEF AgentWorkInv
<1>5. ExecutionTypes' /\ CopiesAreOfTheCommit'
  BY <1>1, ExecutionTypesStay, CopiesStayOfTheCommit DEF AgentWorkInv, ArtifactsInv
<1>6. PersonasInv' /\ PersonasRest'
  BY <1>1, PersonasStep, PersonasRestStays DEF AgentWorkInv, PersonasInv
<1>7. SkillsInv' /\ SkillsRest'
  BY <1>1, SkillsStep, SkillsRestStays DEF AgentWorkInv
<1>8. DraftsInv' /\ DraftsRest'
  BY <1>1, DraftsStep, DraftsRestStays DEF AgentWorkInv
<1>9. GoalsInv'
  BY <1>1, GoalsStep DEF AgentWorkInv
<1> QED  BY <1>2, <1>3, <1>4, <1>5, <1>6, <1>7, <1>8, <1>9 DEF AgentWorkInv

\* The invariants of the components have the types in them.
LEMMA AgentWorkTyped == AgentWorkInv => TypeOK
<1> SUFFICES ASSUME AgentWorkInv PROVE TypeOK
  OBVIOUS
<1> USE DEF AgentWorkInv
<1>1. TurnTypeOK
  BY DEF TurnInv, Types, ListedTyped, TurnTypeOK, TurnRecord, RequestRecord, SessionRecord, GraphRecord
<1>2. ConvTypeOK
  BY DEF ConvInv, ConvTypes, ConvRest, ConvTypeOK
<1>3. ArtifactsTypeOK
  BY NoCommitRow DEF ArtifactsInv, ArtifactTypes, CommitRow, Hashes, ExecutionTypes, CopiesAreOfTheCommit, ArtifactsTypeOK
<1>4. PersonasTypeOK
  BY DEF PersonasInv, PersonaTypes, RevisionRow, PersonasRest, ActiveMemories, PersonasTypeOK
<1>5. SkillsTypeOK
  BY DEF SkillsInv, SkillTypes, SkillsRest, SkillsTypeOK
<1>6. DraftsTypeOK
  BY DEF DraftsInv, DraftTypes, DecisionRow, DraftsRest, DraftsTypeOK
<1>7. GoalsTypeOK
  BY DEF GoalsInv
<1> QED  BY <1>1, <1>2, <1>3, <1>4, <1>5, <1>6, <1>7 DEF TypeOK

\* The types of the seven components hold in the run that checks them, for every value of
\* their constants: the window in memory and the active memories keep to their limits, and
\* while the repository of artifacts is open no copy of a commit that is over lies about.
THEOREM AgentWorkTypeCorrect == Spec => []TypeOK
<1>1. Init => AgentWorkInv
  BY AgentWorkStart
<1>2. AgentWorkInv /\ [Next]_vars => AgentWorkInv'
  BY AgentWorkStep
<1>3. AgentWorkInv => TypeOK
  BY AgentWorkTyped
<1> QED  BY <1>1, <1>2, <1>3, PTL DEF Spec
=============================================================================
