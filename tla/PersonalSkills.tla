--------------------------- MODULE PersonalSkills ---------------------------
(***************************************************************************)
(* A user's personal Skills in his direct channel (src/mmag/application/    *)
(* personal_ui.py, control_plane/personal_skills.py, work_cases.py).  An    *)
(* answer is kept as a candidate case; saved cases are made into a draft of *)
(* a Skill; a Skill has immutable revisions of which one is active; running *)
(* or editing it opens a session that the next message fills in.            *)
(*                                                                          *)
(* Messages of the conversation are served one after the other, buttons     *)
(* next to them: a message waits for the intent classifier, and later for   *)
(* the agent's turn, while buttons change what it has read.                 *)
(***************************************************************************)
EXTENDS Naturals, FiniteSets

CONSTANTS
  Case,            \* work cases; each stands for the run it was made from
  Skill,           \* identities of personal Skills
  MaxSaved,        \* _MAX_SAVED_PER_OWNER
  MaxCandidates,   \* _MAX_CANDIDATES_PER_OWNER
  MaxSkillRevisions  \* bound: revisions of one Skill

ASSUME PersonalSkillsAssumption ==
  MaxSaved \in Nat /\ MaxCandidates \in Nat /\ MaxSkillRevisions \in Nat

VARIABLES
  \* ---- SQLite
  case,      \* [Case -> state of the row]
  praised,   \* [Case -> feedback]
  drafted,   \* the cases a draft is being made from, until it is built or refused
  skill,     \* [Skill -> [revision -> its status]]
  cites,     \* [Skill -> source_case_ids]
  skillSession,   \* the conversation's open session: what for, and which revision
  \* ---- memory
  message,   \* where the message being served is
  wanted,    \* the revision it wants to run
  \* ---- history
  ranWith        \* the runs with a personal Skill: did they have an active revision

casesVars == <<case, praised, drafted>>
skillVars == <<skill, cites>>
messageVars == <<skillSession, message, wanted>>
skillsVars == <<casesVars, skillVars, messageVars, ranWith>>

Ref == Skill \X (1..MaxSkillRevisions)
NoRef == <<>>
Closed == [kind |-> "none", ref |-> NoRef]
StatusOf(r) == skill[r[1]][r[2]]
Exists(r) == StatusOf(r) # "absent"
NewestOf(s) == Cardinality({n \in 1..MaxSkillRevisions : skill[s][n] # "absent"})

Saved == {c \in Case : case[c] = "saved"}
Candidates == {c \in Case : case[c] = "candidate"}

-----------------------------------------------------------------------------
(* Cases.                                                                  *)

\* attach_work_case after an answer; the run has one case.  Before the insert candidates that
\* are too old or too many are deleted.  A mutant deletes whatever is old.
AnythingOld == {c \in Case : case[c] \in {"candidate", "saved"}}
Deletable == Candidates

AttachCase(c) ==
  /\ drafted = {} /\ case[c] = "absent"
  /\ \E gone \in SUBSET Deletable :
       /\ Cardinality(Candidates \ gone) <= MaxCandidates
       /\ case' = [k \in Case |-> CASE k = c -> "candidate" [] k \in gone -> "deleted" [] OTHER -> case[k]]
  /\ UNCHANGED <<praised, drafted, skillVars, messageVars, ranWith>>

\* update(): the quota is asked only of a case that is not saved yet.
MaySave(c) == c \in Saved \/ Cardinality(Saved) < MaxSaved

\* case_save keeps the feedback; case_good and case_bad set it.
SaveCase(c, feedback) ==
  /\ drafted = {} /\ c \in Saved \cup Candidates /\ MaySave(c)
  /\ case' = [case EXCEPT ![c] = "saved"]
  /\ praised' = [praised EXCEPT ![c] = IF feedback = "kept" THEN @ ELSE feedback]
  /\ UNCHANGED <<drafted, skillVars, messageVars, ranWith>>

\* case_draft: every case is looked up...
DraftFrom(cases) ==
  /\ drafted = {} /\ cases # {} /\ cases \subseteq Saved \cup Candidates
  /\ drafted' = cases
  /\ UNCHANGED <<case, praised, skillVars, messageVars, ranWith>>

\* ...and saved, one commit each; the quota may refuse in the middle...
SaveForDraft(c) ==
  /\ c \in drafted \ Saved
  /\ IF MaySave(c) THEN case' = [case EXCEPT ![c] = "saved"] /\ UNCHANGED drafted
                   ELSE drafted' = {} /\ UNCHANGED case
  /\ UNCHANGED <<praised, skillVars, messageVars, ranWith>>

\* ...and build() refuses if one of them is to be improved.
Buildable(cases) == cases \subseteq Saved /\ \A c \in cases : praised[c] # "needs_improvement"

BuildDraft(s) ==
  /\ drafted # {} /\ Buildable(drafted)
  /\ skill[s][1] = "absent"
  /\ skill' = [skill EXCEPT ![s][1] = "draft"]
  /\ cites' = [cites EXCEPT ![s] = drafted]
  /\ drafted' = {}
  /\ UNCHANGED <<case, praised, messageVars, ranWith>>

\* build() refused, or the process died before it.
GiveUpDraft ==
  /\ drafted # {}
  /\ drafted' = {}
  /\ UNCHANGED <<case, praised, skillVars, messageVars, ranWith>>

-----------------------------------------------------------------------------
(* Revisions: pskill_activate and pskill_archive, by button or by command.  *)

\* activate(): what was active is archived in the same transaction.
Activated(r) ==
  [skill EXCEPT ![r[1]] = [n \in 1..MaxSkillRevisions |->
     CASE n = r[2] -> "active" [] n # r[2] /\ @[n] = "active" -> "archived" [] OTHER -> @[n]]]

ActivateSkill(r) ==
  /\ drafted = {} /\ Exists(r)
  /\ skill' = Activated(r)
  /\ UNCHANGED <<casesVars, cites, messageVars, ranWith>>

ArchiveSkill(r) ==
  /\ drafted = {} /\ Exists(r)
  /\ skill' = [skill EXCEPT ![r[1]][r[2]] = "archived"]
  /\ UNCHANGED <<casesVars, cites, messageVars, ranWith>>

-----------------------------------------------------------------------------
(* Sessions and messages.                                                  *)

\* pskill_run asks for an active revision, pskill_edit for any; open() cancels what is open.
OpenSession(kind, r) ==
  /\ drafted = {} /\ Exists(r)
  /\ kind = "run" => StatusOf(r) = "active"
  /\ skillSession' = [kind |-> kind, ref |-> r]
  /\ UNCHANGED <<casesVars, skillVars, message, wanted, ranWith>>

\* The user cancels, asks for a list, or the session expires.
CancelSession ==
  /\ drafted = {} /\ skillSession # Closed
  /\ skillSession' = Closed
  /\ UNCHANGED <<casesVars, skillVars, message, wanted, ranWith>>

\* consume_message with a session that runs a Skill: no look at its status now.
FillInRun ==
  /\ drafted = {} /\ message = "none" /\ skillSession.kind = "run"
  /\ skillSession' = Closed /\ message' = "turn" /\ wanted' = skillSession.ref
  /\ UNCHANGED <<casesVars, skillVars, ranWith>>

\* ...and one that edits: the new revision is made of the one the session names, which need
\* not be the newest.
FillInEdit ==
  /\ drafted = {} /\ message = "none" /\ skillSession.kind = "edit"
  /\ LET s == skillSession.ref[1] IN
       /\ NewestOf(s) < MaxSkillRevisions
       /\ skill' = [skill EXCEPT ![s][NewestOf(s) + 1] = "draft"]
  /\ skillSession' = Closed
  /\ UNCHANGED <<casesVars, cites, message, wanted, ranWith>>

\* Without a session the classifier is asked about the newest revisions there are.
Classify ==
  /\ drafted = {} /\ message = "none" /\ skillSession = Closed
  /\ message' = "classifying"
  /\ \E s \in Skill : NewestOf(s) > 0 /\ wanted' = <<s, NewestOf(s)>>
  /\ UNCHANGED <<casesVars, skillVars, skillSession, ranWith>>

\* Its answer: to run what is (still) active, to open a session for it, or nothing of all this.
ClassifiedRun ==
  /\ drafted = {} /\ message = "classifying" /\ StatusOf(wanted) = "active"
  /\ message' = "turn"
  /\ UNCHANGED <<casesVars, skillVars, skillSession, wanted, ranWith>>

ClassifiedOther ==
  /\ drafted = {} /\ message = "classifying"
  /\ \/ UNCHANGED skillSession
     \/ StatusOf(wanted) = "active" /\ skillSession' = [kind |-> "run", ref |-> wanted]
     \/ skillSession' = [kind |-> "edit", ref |-> wanted]
  /\ message' = "none" /\ wanted' = NoRef
  /\ UNCHANGED <<casesVars, skillVars, ranWith>>

\* prepare_personal_request, when the agent's turn has come: PersonalSkillResolver.requested
\* reads the revision again and refuses one that is not active.  A mutant trusts the session.
Trusting(r) == TRUE
Requested(r) == StatusOf(r) = "active"

TurnWithSkill ==
  /\ drafted = {} /\ message = "turn"
  /\ ranWith' = IF Requested(wanted) THEN ranWith \cup {StatusOf(wanted)} ELSE ranWith
  /\ message' = "none" /\ wanted' = NoRef
  /\ UNCHANGED <<casesVars, skillVars, skillSession>>

-----------------------------------------------------------------------------
SkillsInit ==
  /\ case = [c \in Case |-> "absent"] /\ praised = [c \in Case |-> "none"] /\ drafted = {}
  /\ skill = [s \in Skill |-> [n \in 1..MaxSkillRevisions |-> "absent"]]
  /\ cites = [s \in Skill |-> {}]
  /\ skillSession = Closed /\ message = "none" /\ wanted = NoRef /\ ranWith = {}

SkillsNext ==
  \/ GiveUpDraft \/ CancelSession \/ FillInRun \/ FillInEdit
  \/ Classify \/ ClassifiedRun \/ ClassifiedOther \/ TurnWithSkill
  \/ \E c \in Case :
       \/ AttachCase(c) \/ SaveForDraft(c)
       \/ \E feedback \in {"kept", "helpful", "needs_improvement"} : SaveCase(c, feedback)
  \/ \E cases \in SUBSET Case : DraftFrom(cases)
  \/ \E s \in Skill : BuildDraft(s)
  \/ \E r \in Ref :
       ActivateSkill(r) \/ ArchiveSkill(r) \/ \E kind \in {"run", "edit"} : OpenSession(kind, r)

SkillsSpec == SkillsInit /\ [][SkillsNext]_skillsVars

-----------------------------------------------------------------------------
SkillsTypeOK ==
  /\ case \in [Case -> {"absent", "candidate", "saved", "deleted"}]
  /\ praised \in [Case -> {"none", "helpful", "needs_improvement"}]
  /\ drafted \subseteq Case /\ cites \in [Skill -> SUBSET Case]
  /\ skill \in [Skill -> [1..MaxSkillRevisions -> {"absent", "draft", "active", "archived"}]]
  /\ skillSession \in [kind : {"none", "run", "edit"}, ref : Ref \cup {NoRef}]
  /\ message \in {"none", "classifying", "turn"} /\ wanted \in Ref \cup {NoRef}

\* What a personal Skill cites as its evidence is kept: the cases are saved before the draft
\* is built, nothing takes a saved case back, and the clean-up of candidates that runs with
\* every new case does not reach it (work_cases.py:134, personal_ui.py:388).
CitedCasesAreKept == \A s \in Skill : cites[s] \subseteq Saved

\* Two revisions of a Skill are never active at once and no run is made with one that is not
\* active, however long ago the session was opened or the classifier asked.
OnlyTheActiveRuns ==
  /\ ranWith \subseteq {"active"}
  /\ \A s \in Skill : Cardinality({n \in 1..MaxSkillRevisions : skill[s][n] = "active"}) <= 1

\* The quota of saved cases holds whichever way a case is saved, also by a draft that saves
\* several and is refused in the middle.
SavedWithinQuota == Cardinality(Saved) <= MaxSaved

\* A user's Skills rest on cases that are kept, within his quota, and only the active revision
\* of one runs: the three above.
SkillsAreSound == CitedCasesAreKept /\ OnlyTheActiveRuns /\ SavedWithinQuota
=============================================================================
