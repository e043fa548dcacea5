------------------------------- MODULE Releases -------------------------------
(***************************************************************************)
(* How a process gets its packages (src/mmag/application/app.py): policies,  *)
(* model policies, skills, execution profiles and agents are read from       *)
(* files, in this order, each directory into a staging table that replaces   *)
(* the registry's when every file was valid.  Skills and agents pass the     *)
(* activation gate, which records what is active in the control database     *)
(* (src/mmag/evaluation/gate.py, control_plane/releases.py).                 *)
(*                                                                           *)
(* Files change under a process that serves, and while one starts; a file    *)
(* may return to what it was.  A process that refuses a file does not serve, *)
(* and what it recorded before it stopped stays recorded.                    *)
(***************************************************************************)
EXTENDS Naturals

CONSTANT MaxDeploys   \* bound on changes of files

ASSUME ReleasesAssumption == MaxDeploys \in Nat

VARIABLES
  files,       \* [Kind -> content of the one file or directory of the kind]
  loaded,      \* [Kind -> content in the registry of the process]
  starting,    \* the next kind to load, "serving", or "down"
  releases,    \* package_releases: rows of skill and agent packages
  deploys

releaseVars == <<files, loaded, starting, releases, deploys>>

PackageKind == {"policy", "model_policy", "skill", "profile", "agent"}
Content == {"absent", "broken", "refused", "first", "second"}
Sound == {"first", "second"}

-----------------------------------------------------------------------------
(* What is read.                                                           *)

\* A broken file is refused; a directory without the file loads as well.
SkillLoads(content) == content # "broken"
AgentLoads(content) == content # "broken"

\* The agent names one of each kind; all must have been loaded.
AgentResolves == \A k \in PackageKind \ {"agent"} : loaded[k] \in Sound

\* The hash of an agent covers what it resolves to.
Hash(k, content) ==
  IF k = "agent" THEN [loaded EXCEPT !["agent"] = content]
  ELSE [other \in PackageKind |-> IF other = k THEN content ELSE "absent"]

-----------------------------------------------------------------------------
(* The gate: the batch of one kind in one transaction.                     *)

\* The evaluation cases of a package agree with its contracts; a policy has none.
GatePasses(content) == content # "refused"

\* Other rows of the name are superseded; the row of the hash is inserted, or active again.
\* A mutant leaves a row that exists as it is.
InsertedOnly(k, content) ==
  LET hash == Hash(k, content) IN
  {[row EXCEPT !.active = @ /\ (row.kind # k \/ row.hash = hash)] : row \in releases}
    \cup IF \E row \in releases : row.kind = k /\ row.hash = hash THEN {}
         ELSE {[kind |-> k, hash |-> hash, active |-> TRUE]}
Activated(k, content) ==
  LET hash == Hash(k, content) IN
  {[row EXCEPT !.active = @ /\ row.kind # k] : row \in {r \in releases : r.kind # k \/ r.hash # hash}}
    \cup {[kind |-> k, hash |-> hash, active |-> TRUE]}

-----------------------------------------------------------------------------
(* Starting.                                                               *)

StartLoading ==
  /\ starting = "down"
  /\ starting' = "policy"
  /\ UNCHANGED <<files, loaded, releases, deploys>>

RefuseStart == starting' = "down" /\ loaded' = [k \in PackageKind |-> "absent"] /\ UNCHANGED releases

\* Keep the staged table, and go on to the next kind.
Take(k, next) == starting' = next /\ loaded' = [loaded EXCEPT ![k] = files[k]]

LoadPolicies ==
  /\ starting = "policy"
  /\ IF files["policy"] # "broken" THEN Take("policy", "model_policy") /\ UNCHANGED releases ELSE RefuseStart
  /\ UNCHANGED <<files, deploys>>

LoadModelPolicies ==
  /\ starting = "model_policy"
  /\ IF files["model_policy"] # "broken" THEN Take("model_policy", "skill") /\ UNCHANGED releases ELSE RefuseStart
  /\ UNCHANGED <<files, deploys>>

LoadSkills ==
  /\ starting = "skill"
  /\ IF SkillLoads(files["skill"]) /\ GatePasses(files["skill"])
     THEN /\ Take("skill", "profile")
          /\ releases' = IF files["skill"] \in Sound THEN Activated("skill", files["skill"]) ELSE releases
     ELSE RefuseStart
  /\ UNCHANGED <<files, deploys>>

LoadProfiles ==
  /\ starting = "profile"
  /\ IF files["profile"] # "broken" THEN Take("profile", "agent") /\ UNCHANGED releases ELSE RefuseStart
  /\ UNCHANGED <<files, deploys>>

LoadAgents ==
  /\ starting = "agent"
  /\ IF AgentLoads(files["agent"]) /\ GatePasses(files["agent"]) /\ (files["agent"] \in Sound => AgentResolves)
     THEN /\ Take("agent", "serving")
          /\ releases' = IF files["agent"] \in Sound THEN Activated("agent", files["agent"]) ELSE releases
     ELSE RefuseStart
  /\ UNCHANGED <<files, deploys>>

StopServing ==
  /\ starting # "down"
  /\ RefuseStart
  /\ UNCHANGED <<files, deploys>>

Deploy(k, content) ==
  /\ deploys < MaxDeploys /\ files[k] # content
  /\ files' = [files EXCEPT ![k] = content]
  /\ deploys' = deploys + 1
  /\ UNCHANGED <<loaded, starting, releases>>

-----------------------------------------------------------------------------
ReleasesInit ==
  /\ files = [k \in PackageKind |-> "first"]
  /\ loaded = [k \in PackageKind |-> "absent"]
  /\ starting = "down"
  /\ releases = {}
  /\ deploys = 0

ReleasesNext ==
  \/ StartLoading \/ LoadPolicies \/ LoadModelPolicies \/ LoadSkills \/ LoadProfiles \/ LoadAgents
  \/ StopServing
  \/ \E k \in PackageKind, content \in Content :
       /\ content = "refused" => k \in {"skill", "agent"}
       /\ Deploy(k, content)

ReleasesSpec == ReleasesInit /\ [][ReleasesNext]_releaseVars

-----------------------------------------------------------------------------
ReleasesTypeOK ==
  /\ files \in [PackageKind -> Content] /\ loaded \in [PackageKind -> Content]
  /\ starting \in PackageKind \cup {"serving", "down"}
  /\ \A row \in releases : row.kind \in {"skill", "agent"} /\ row.hash \in [PackageKind -> Content]

\* What a process serves is what the control database calls active, and nothing else of that
\* name, whatever was deployed, refused or brought back before (gate.py activate_agents,
\* releases.py activate).  It says nothing of a package whose file is gone.
ServedIsReleased ==
  starting = "serving" =>
    \A k \in {"skill", "agent"} : loaded[k] # "absent" =>
      {row.hash : row \in {r \in releases : r.kind = k /\ r.active}} = {Hash(k, loaded[k])}
=============================================================================
