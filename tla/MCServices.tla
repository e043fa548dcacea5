----------------------------- MODULE MCServices -----------------------------
(***************************************************************************)
(* Small instances of six components that share no state: the budget, the   *)
(* delegation of a run, the schema, the replies of personas, the releases   *)
(* of packages and the selection of agent and Skill for a message.  They    *)
(* are checked in one run: `focus` is the one that moves, the others stay    *)
(* in their initial states.                                                 *)
(***************************************************************************)
EXTENDS Quota, Delegation, Schema, PersonaReplies, Releases, MCSelection

CONSTANTS r1, r2, r3, r4, q1, q2, q3

VARIABLE focus

\* r2 repeats r1, as the intent classifier does when its event is retried.
Repeated == [r \in Run |-> CASE r = r3 -> q2 [] r = r4 -> q3 [] OTHER -> q1]

\* A component that does not move has one initial state.
OneSchema == legacy = {} /\ \A o \in Opener : opener[o].build = NewTables

Init ==
  /\ focus \in {"quota", "delegation", "schema", "replies", "releases", "selection"}
  /\ QuotaInit /\ DelegationInit /\ SchemaInit /\ RepliesInit /\ ReleasesInit
  /\ SelectionInit
  /\ focus # "schema" => OneSchema

budget == <<quotaVars, delegationVars>>
packages == <<releaseVars, selectionVars>>
vars == <<focus, budget, schemaVars, repliesVars, packages>>

Next ==
  /\ UNCHANGED focus
  /\ \/ /\ focus = "quota" /\ QuotaNext
        /\ UNCHANGED <<delegationVars, schemaVars, repliesVars, packages>>
     \/ /\ focus = "delegation" /\ DelegationNext
        /\ UNCHANGED <<quotaVars, schemaVars, repliesVars, packages>>
     \/ focus = "schema" /\ SchemaNext /\ UNCHANGED <<budget, repliesVars, packages>>
     \/ focus = "replies" /\ RepliesNext /\ UNCHANGED <<budget, schemaVars, packages>>
     \/ /\ focus = "releases" /\ ReleasesNext
        /\ UNCHANGED <<budget, schemaVars, repliesVars, selectionVars>>
     \/ /\ focus = "selection" /\ SelectionNext
        /\ UNCHANGED <<budget, schemaVars, repliesVars, releaseVars>>

Spec == Init /\ [][Next]_vars /\ (focus = "delegation" => DelegationFairness)

TypeOK ==
  /\ QuotaTypeOK /\ DelegationTypeOK /\ SchemaTypeOK /\ RepliesTypeOK /\ ReleasesTypeOK
  /\ SelectionTypeOK
=============================================================================
