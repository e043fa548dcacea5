----------------------------- MODULE MCAgentWork ----------------------------
(***************************************************************************)
(* Small instances of seven components that share no state: the turns of a  *)
(* thread, the conversation's memory, artifacts, personas, personal skills, *)
(* task drafts and goals.  They are checked in one run: `focus` is the one   *)
(* that moves, the others stay in their initial states.                     *)
(***************************************************************************)
EXTENDS Turn, Conversation, Artifacts, Personas, PersonalSkills, TaskDrafts, Goals, TLC

VARIABLE focus

turnsAndTalk == <<turnVars, convVars>>
assets == <<artifactVars, personasVars, skillsVars>>
tasks == <<draftVars, goalVars>>
vars == <<focus, turnsAndTalk, assets, tasks>>

\* A component that does not move has one initial state.
OneThread == place = "channel" /\ \A t \in Turns : turn[t].actor = CHOOSE a \in Actor : TRUE

Init ==
  /\ focus \in {"turn", "conversation", "artifacts", "personas", "skills", "drafts", "goals"}
  /\ TurnInit /\ ConvInit
  /\ ArtifactsInit /\ PersonasInit /\ SkillsInit
  /\ DraftsInit /\ GoalsInit
  /\ focus # "turn" => OneThread

Next ==
  /\ UNCHANGED focus
  /\ \/ focus = "turn" /\ TurnNext /\ UNCHANGED <<convVars, assets, tasks>>
     \/ focus = "conversation" /\ ConvNext /\ UNCHANGED <<turnVars, assets, tasks>>
     \/ /\ focus = "artifacts" /\ ArtifactsNext
        /\ UNCHANGED <<turnsAndTalk, personasVars, skillsVars, tasks>>
     \/ /\ focus = "personas" /\ PersonasNext
        /\ UNCHANGED <<turnsAndTalk, artifactVars, skillsVars, tasks>>
     \/ /\ focus = "skills" /\ SkillsNext
        /\ UNCHANGED <<turnsAndTalk, artifactVars, personasVars, tasks>>
     \/ focus = "drafts" /\ DraftsNext /\ UNCHANGED <<turnsAndTalk, assets, goalVars>>
     \/ focus = "goals" /\ GoalsNext /\ UNCHANGED <<turnsAndTalk, assets, draftVars>>

Spec == Init /\ [][Next]_vars

TypeOK ==
  /\ TurnTypeOK /\ ConvTypeOK
  /\ ArtifactsTypeOK /\ PersonasTypeOK /\ SkillsTypeOK
  /\ DraftsTypeOK /\ GoalsTypeOK
=============================================================================
