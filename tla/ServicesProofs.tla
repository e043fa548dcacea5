---------------------------- MODULE ServicesProofs ----------------------------
(***************************************************************************)
(* Proofs about the components that run MCServices checks together: each of *)
(* them for itself, and at the end the types of all, for every value of     *)
(* their constants.                                                         *)
(***************************************************************************)
EXTENDS MCServices, FiniteSetTheorems, WellFoundedInduction, TLAPS

-----------------------------------------------------------------------------
(* Releases.                                                               *)

Releasable == {"skill", "agent"}
ReleaseRow == [kind : Releasable, hash : [PackageKind -> Content], active : BOOLEAN]
ReleaseTypes ==
  /\ files \in [PackageKind -> Content] /\ loaded \in [PackageKind -> Content]
  /\ starting \in PackageKind \cup {"serving", "down"}
  /\ releases \in SUBSET ReleaseRow

ActiveHashes(k) == {row.hash : row \in {r \in releases : r.kind = k /\ r.active}}

\* What has passed the gate is what is active, from then on.
SkillIsReleased ==
  starting \in {"profile", "agent", "serving"} =>
    loaded["skill"] = "absent" \/ ActiveHashes("skill") = {Hash("skill", loaded["skill"])}
AgentIsReleased ==
  starting = "serving" =>
    loaded["agent"] = "absent" \/ ActiveHashes("agent") = {Hash("agent", loaded["agent"])}

ReleasesInv == ReleaseTypes /\ SkillIsReleased /\ AgentIsReleased

\* The transaction of the gate: the hash alone is active under its name, and the rows of the
\* other kind are left alone.
LEMMA GateActivates ==
  ASSUME ReleaseTypes, NEW k \in Releasable, NEW content \in Content, releases' = Activated(k, content)
  PROVE  /\ releases' \in SUBSET ReleaseRow
         /\ ActiveHashes(k)' = {Hash(k, content)}
         /\ \A other \in Releasable : other # k => ActiveHashes(other)' = ActiveHashes(other)
<1> DEFINE hash == Hash(k, content)
           Kept == {[row EXCEPT !.active = @ /\ row.kind # k] : row \in {r \in releases : r.kind # k \/ r.hash # hash}}
           new == [kind |-> k, hash |-> hash, active |-> TRUE]
<1>1. hash \in [PackageKind -> Content]
  BY DEF Hash, PackageKind, Content, ReleaseTypes, Releasable
<1>2. releases' = Kept \cup {new}
  BY DEF Activated
<1>3. new \in ReleaseRow
  BY <1>1 DEF ReleaseRow
<1> HIDE DEF hash
<1>4. \A r \in releases : r \in ReleaseRow  BY DEF ReleaseTypes
<1>5. ASSUME NEW row \in Kept
      PROVE  /\ row \in ReleaseRow
             /\ row.kind = k => row.active = FALSE
             /\ row.kind # k => row \in releases
  <2>1. PICK r \in releases : row = [r EXCEPT !.active = r.active /\ r.kind # k]
    OBVIOUS
  <2>2. r \in ReleaseRow  BY <1>4
  <2>3. /\ row.kind = r.kind /\ row.hash = r.hash /\ row \in ReleaseRow
    BY <2>1, <2>2 DEF ReleaseRow
  <2>4. r.kind = k => row.active = FALSE
    BY <2>1, <2>2 DEF ReleaseRow
  <2>5. ASSUME r.kind # k PROVE row = r
    BY <2>1, <2>2, <2>5 DEF ReleaseRow
  <2> QED  BY <2>3, <2>4, <2>5
<1>6. ASSUME NEW r \in releases, r.kind # k PROVE r \in Kept
  <2>1. r \in ReleaseRow  BY <1>4
  <2>2. r = [r EXCEPT !.active = r.active /\ r.kind # k]
    BY <1>6, <2>1 DEF ReleaseRow
  <2> QED  BY <1>6, <2>2
<1> HIDE DEF Kept
<1>7. releases' \in SUBSET ReleaseRow
  BY <1>2, <1>3, <1>5
<1>8. ActiveHashes(k)' = {hash}
  <2>1. \A row \in releases' : row.kind = k /\ row.active => row = new
    BY <1>2, <1>5
  <2>2. new \in releases' /\ new.kind = k /\ new.active /\ new.hash = hash
    BY <1>2
  <2> HIDE DEF new
  <2> QED  BY <2>1, <2>2 DEF ActiveHashes
<1>9. ASSUME NEW other \in Releasable, other # k
      PROVE  ActiveHashes(other)' = ActiveHashes(other)
  <2>1. new.kind = k  OBVIOUS
  <2> HIDE DEF new
  <2>2. ASSUME NEW row \in releases', row.kind = other PROVE row \in releases
    BY <1>2, <1>5, <1>9, <2>1, <2>2
  <2>3. ASSUME NEW row \in releases, row.kind = other PROVE row \in releases'
    BY <1>2, <1>6, <1>9, <2>3
  <2> QED  BY <2>2, <2>3 DEF ActiveHashes
<1> QED  BY <1>7, <1>8, <1>9 DEF hash

\* Loading, the gate's transaction, a refusal, a deployment and a crash keep the invariant.
LEMMA ReleasesStep ==
  ASSUME ReleasesInv, [ReleasesNext]_releaseVars
  PROVE  ReleasesInv'
<1> USE DEF ReleasesInv
<1>1. CASE UNCHANGED releaseVars
  BY <1>1 DEF releaseVars, ReleaseTypes, SkillIsReleased, AgentIsReleased, ActiveHashes, Hash
<1>2. ASSUME RefuseStart, UNCHANGED files PROVE ReleasesInv'
  BY <1>2 DEF RefuseStart, ReleaseTypes, SkillIsReleased, AgentIsReleased, PackageKind, Content
<1>3. CASE StartLoading
  BY <1>3 DEF StartLoading, ReleaseTypes, SkillIsReleased, AgentIsReleased, PackageKind
<1>4. ASSUME NEW k \in PackageKind, NEW next \in PackageKind, Take(k, next), UNCHANGED <<files, releases>>,
             k \in {"policy", "model_policy"}, next \in {"model_policy", "skill"}
      PROVE  ReleasesInv'
  BY <1>4 DEF Take, ReleaseTypes, SkillIsReleased, AgentIsReleased, PackageKind
<1>5. CASE LoadPolicies \/ LoadModelPolicies
  BY <1>2, <1>4, <1>5 DEF LoadPolicies, LoadModelPolicies, PackageKind
<1>6. CASE LoadSkills
  <2>1. CASE /\ Take("skill", "profile") /\ files["skill"] \notin {"broken", "refused"}
             /\ releases' = IF files["skill"] \in Sound THEN Activated("skill", files["skill"]) ELSE releases
    <3>1. /\ files["skill"] \in Content /\ "skill" \in Releasable /\ "skill" \in PackageKind
          /\ "profile" \in PackageKind
      BY DEF ReleaseTypes, Releasable, PackageKind
    <3>2. loaded' \in [PackageKind -> Content] /\ loaded'["skill"] = files["skill"] /\ starting' = "profile"
      BY <2>1, <3>1 DEF Take, ReleaseTypes
    <3>3. CASE files["skill"] \in Sound
      <4>1. releases' \in SUBSET ReleaseRow /\ ActiveHashes("skill")' = {Hash("skill", files["skill"])}
        BY <2>1, <3>1, <3>3, GateActivates
      <4>2. Hash("skill", loaded["skill"])' = Hash("skill", files["skill"])
        BY <3>2 DEF Hash
      <4> QED  BY <1>6, <3>1, <3>2, <4>1, <4>2
          DEF LoadSkills, ReleaseTypes, SkillIsReleased, AgentIsReleased
    <3>4. CASE files["skill"] \notin Sound
      <4>1. files["skill"] = "absent" /\ UNCHANGED releases
        BY <2>1, <3>1, <3>4 DEF Content, Sound
      <4> QED  BY <1>6, <3>1, <3>2, <4>1
          DEF LoadSkills, ReleaseTypes, SkillIsReleased, AgentIsReleased
    <3> QED  BY <3>3, <3>4
  <2>2. CASE RefuseStart
    BY <1>2, <1>6, <2>2 DEF LoadSkills
  <2> QED  BY <1>6, <2>1, <2>2 DEF LoadSkills, SkillLoads, GatePasses
<1>7. CASE LoadProfiles
  <2>1. CASE Take("profile", "agent") /\ UNCHANGED releases
    <3>1. /\ loaded' \in [PackageKind -> Content] /\ loaded'["skill"] = loaded["skill"]
          /\ starting = "profile" /\ starting' = "agent" /\ starting' \in PackageKind
      BY <1>7, <2>1 DEF LoadProfiles, Take, ReleaseTypes, PackageKind
    <3>2. /\ ActiveHashes("skill")' = ActiveHashes("skill")
          /\ Hash("skill", loaded["skill"])' = Hash("skill", loaded["skill"])
      BY <2>1, <3>1 DEF ActiveHashes, Hash
    <3> QED  BY <1>7, <2>1, <3>1, <3>2 DEF LoadProfiles, ReleaseTypes, SkillIsReleased, AgentIsReleased
  <2>2. CASE RefuseStart
    BY <1>2, <1>7, <2>2 DEF LoadProfiles
  <2> QED  BY <1>7, <2>1, <2>2 DEF LoadProfiles
<1>8. CASE LoadAgents
  <2>1. CASE /\ Take("agent", "serving") /\ files["agent"] \notin {"broken", "refused"}
             /\ releases' = IF files["agent"] \in Sound THEN Activated("agent", files["agent"]) ELSE releases
    <3>1. /\ files["agent"] \in Content /\ "agent" \in Releasable /\ "skill" \in Releasable
          /\ "agent" \in PackageKind
      BY DEF ReleaseTypes, Releasable, PackageKind
    <3>2. /\ loaded' \in [PackageKind -> Content] /\ loaded'["agent"] = files["agent"]
          /\ loaded' = [loaded EXCEPT !["agent"] = files["agent"]]
          /\ loaded'["skill"] = loaded["skill"] /\ starting = "agent" /\ starting' = "serving"
      BY <1>8, <2>1, <3>1 DEF LoadAgents, Take, ReleaseTypes, PackageKind
    <3>3. Hash("skill", loaded["skill"])' = Hash("skill", loaded["skill"])
      BY <3>2 DEF Hash
    <3>4. CASE files["agent"] \in Sound
      <4>1. /\ releases' \in SUBSET ReleaseRow /\ ActiveHashes("agent")' = {Hash("agent", files["agent"])}
            /\ ActiveHashes("skill")' = ActiveHashes("skill")
        BY <2>1, <3>1, <3>4, GateActivates
      <4>2. Hash("agent", loaded["agent"])' = Hash("agent", files["agent"])
        BY <3>1, <3>2 DEF Hash, ReleaseTypes
      <4> QED  BY <1>8, <3>2, <3>3, <4>1, <4>2
          DEF LoadAgents, ReleaseTypes, SkillIsReleased, AgentIsReleased
    <3>5. CASE files["agent"] \notin Sound
      <4>1. files["agent"] = "absent" /\ UNCHANGED releases
        BY <2>1, <3>1, <3>5 DEF Content, Sound
      <4>2. ActiveHashes("skill")' = ActiveHashes("skill")
        BY <4>1 DEF ActiveHashes
      <4> QED  BY <1>8, <3>2, <3>3, <4>1, <4>2
          DEF LoadAgents, ReleaseTypes, SkillIsReleased, AgentIsReleased
    <3> QED  BY <3>4, <3>5
  <2>2. CASE RefuseStart
    BY <1>2, <1>8, <2>2 DEF LoadAgents
  <2> QED  BY <1>8, <2>1, <2>2 DEF LoadAgents, AgentLoads, GatePasses
<1>9. CASE StopServing
  BY <1>2, <1>9 DEF StopServing
<1>10. ASSUME NEW k \in PackageKind, NEW content \in Content, Deploy(k, content) PROVE ReleasesInv'
  <2>1. files' \in [PackageKind -> Content] /\ UNCHANGED <<loaded, starting, releases>>
    BY <1>10 DEF Deploy, ReleaseTypes
  <2> QED  BY <2>1 DEF ReleaseTypes, SkillIsReleased, AgentIsReleased, ActiveHashes, Hash
<1> QED  BY <1>1, <1>3, <1>5, <1>6, <1>7, <1>8, <1>9, <1>10 DEF ReleasesNext

\* The invariant holds at the start.
LEMMA ReleasesStart == ReleasesInit => ReleasesInv
BY DEF ReleasesInit, ReleasesInv, ReleaseTypes, SkillIsReleased, AgentIsReleased, PackageKind, Content

\* ServedIsReleased: what a process serves is what the control database calls active, and
\* nothing else of that name, whatever was deployed, refused or brought back before
\* (gate.py activate_agents, releases.py activate).
THEOREM ServedIsAlwaysReleased == ReleasesSpec => []ServedIsReleased
<1>1. ReleasesInv /\ [ReleasesNext]_releaseVars => ReleasesInv'
  BY ReleasesStep
<1>2. ReleasesInv => ServedIsReleased
  BY DEF ReleasesInv, SkillIsReleased, AgentIsReleased, ServedIsReleased, ActiveHashes
<1> QED  BY ReleasesStart, <1>1, <1>2, PTL DEF ReleasesSpec

-----------------------------------------------------------------------------
(* Schema.                                                                 *)

Database == [history : SUBSET Version, tables : SUBSET Version, log : SUBSET Row, cache : SUBSET Row]
OpenerRow == [build : {NewTables, Purge}, state : {"new", "migrating", "ready", Failed},
              applied : SUBSET Version]

\* The first versions, without a gap.
Prefix(H) == \E k \in 0..5 : H = 1..k

\* What the history names was done, and the history names what was done.
Done(d) ==
  /\ Prefix(d.history)
  /\ d.history \cap {Initial, AddColumns, NewTables} \subseteq d.tables
  /\ d.tables \subseteq d.history \cup {Initial}
  /\ MoveCache \in d.history => d.cache = {}
  /\ Purge \notin d.history => legacy \subseteq d.log \cup d.cache /\ trusted = {}
  /\ trusted \subseteq d.log

\* An opener has read a prefix of the history; it may be out of date.
HasRead(o) ==
  /\ Prefix(opener[o].applied) /\ opener[o].applied \subseteq db.history
  /\ opener[o].state = "ready" => 1..opener[o].build \subseteq opener[o].applied

\* The open transaction would apply the first version its opener has not read.
Transaction ==
  \/ tx = Nobody
  \/ \E o \in Opener, v \in Version :
       /\ tx = [by |-> o, version |-> v, db |-> Upgraded(db, v)]
       /\ opener[o].state = "migrating" /\ Pending(o) # {} /\ v = Min(Pending(o))

SchemaInv ==
  /\ db \in Database /\ opener \in [Opener -> OpenerRow] /\ legacy \in SUBSET Row /\ trusted \in SUBSET Row
  /\ Done(db) /\ Transaction
  /\ \A o \in Opener : HasRead(o)

\* A history is an interval from 1 on: its size is its last version, and the next version
\* continues it.
LEMMA SmallIntervals ==
  ASSUME NEW k \in 0..5
  PROVE  /\ IsFiniteSet(1..k) /\ Cardinality(1..k) = k /\ Cardinality(1..k) \in Nat
         /\ 1..k \subseteq Version /\ Prefix(1..k)
         /\ k # 5 => Prefix((1..k) \cup {k + 1})
<1>0. k \in Int /\ 1 \in Int /\ k \in Nat /\ k - 1 + 1 = k
  OBVIOUS
<1>1. IsFiniteSet(1..k) /\ Cardinality(1..k) = k
  <2>1. IsFiniteSet(1..k) /\ Cardinality(1..k) = IF 1 > k THEN 0 ELSE k - 1 + 1
    BY <1>0, FS_Interval
  <2>2. 1 > k => k = 0  BY <1>0
  <2> QED  BY <1>0, <2>1, <2>2
<1>2. 1..k \subseteq Version  BY DEF Version
<1>3. k # 5 => k + 1 \in 0..5 /\ (1..k) \cup {k + 1} = 1..(k + 1)
  OBVIOUS
<1> QED  BY <1>1, <1>2, <1>3 DEF Prefix

\* The first version a build still has to apply is the one after the last applied.
LEMMA FirstPending ==
  ASSUME NEW b \in {NewTables, Purge}, NEW k \in 0..5, (1..b) \ (1..k) # {}
  PROVE  Min((1..b) \ (1..k)) = k + 1 /\ k + 1 \in Version
<1>0. b \in Nat /\ k \in Nat /\ b <= 5  BY DEF NewTables, Purge
<1>1. \A x : x \in (1..b) \ (1..k) <=> x \in Nat /\ x <= b /\ k < x
  BY <1>0
<1>2. k < b  BY <1>0, <1>1
<1>3. k + 1 \in (1..b) \ (1..k)  BY <1>0, <1>1, <1>2
<1>4. \A x \in (1..b) \ (1..k) : k + 1 <= x  BY <1>0, <1>1
<1> DEFINE S == (1..b) \ (1..k)
<1>5. \A x, y \in S : x \in Int /\ y \in Int  BY <1>1
<1> HIDE DEF S
<1>6. (CHOOSE x \in S : \A y \in S : x <= y) = k + 1
  BY <1>0, <1>3, <1>4, <1>5 DEF S
<1> QED  BY <1>0, <1>2, <1>6 DEF Min, S, Version

\* A version that is applied in its turn, by an opener that has read what came before.
LEMMA UpgradeKeepsDone ==
  ASSUME db \in Database, legacy \in SUBSET Row, trusted \in SUBSET Row, Done(db), NEW v \in Version,
         v \notin db.history, 1..(v - 1) \subseteq db.history,
         UNCHANGED <<legacy, trusted>>,
         db' = [Upgraded(db, v) EXCEPT !.history = db.history \cup {v}]
  PROVE  db' \in Database /\ Done(db)' /\ db'.history = db.history \cup {v}
<1>1. PICK k \in 0..5 : db.history = 1..k  BY DEF Done, Prefix
<1>2. v \in 1..5 /\ v - 1 \in 0..4  BY DEF Version
<1>3. v = k + 1
  <2>1. v > k  BY <1>1, <1>2
  <2>2. v - 1 <= k  BY <1>1, <1>2
  <2> QED  BY <1>2, <2>1, <2>2
<1>4. Upgraded(db, v) \in Database /\ Upgraded(db, v).history = db.history
  <2>0. v \in {1, 2, 3, 4, 5} /\ {1, 2, 3, 4, 5} \subseteq Version  BY <1>2 DEF Version
  <2> USE DEF Upgraded, Initial, AddColumns, MoveCache, NewTables, Purge
  <2>1. CASE v = 1  BY <2>0, <2>1 DEF CreateInitial, Database
  <2>2. CASE v = 2  BY <2>0, <2>2 DEF AddMissingColumns, Database
  <2>3. CASE v = 3
    <3>1. db.log \cup db.cache \in SUBSET Row /\ {} \in SUBSET Row  BY DEF Database
    <3>2. Upgraded(db, v) = [[db EXCEPT !.log = db.log \cup db.cache] EXCEPT !.cache = {}]
      BY <2>3 DEF MigrateMessageCache, Database
    <3> DEFINE L == db.log \cup db.cache
               d == [db EXCEPT !.log = L]
    <3> HIDE DEF L
    <3>3. d \in Database /\ d.history = db.history  BY <3>1 DEF Database, L
    <3>4. Upgraded(db, v) = [d EXCEPT !.cache = {}]  BY <3>2 DEF L
    <3> HIDE DEF d
    <3> QED  BY <3>1, <3>3, <3>4 DEF Database
  <2>4. CASE v = 4  BY <2>0, <2>4 DEF CreateTables, Database
  <2>5. CASE v = 5  BY <2>0, <2>5 DEF PurgeMemory, Database
  <2> QED  BY <2>0, <2>1, <2>2, <2>3, <2>4, <2>5
<1>5. /\ db' \in Database /\ db'.history = db.history \cup {v} /\ db'.tables = Upgraded(db, v).tables
      /\ db'.log = Upgraded(db, v).log /\ db'.cache = Upgraded(db, v).cache
  BY <1>4 DEF Database
<1>6. Prefix(db'.history)
  BY <1>1, <1>2, <1>3, <1>5, SmallIntervals
<1>7. /\ db'.history \cap {Initial, AddColumns, NewTables} \subseteq db'.tables
      /\ db'.tables \subseteq db'.history \cup {Initial}
  BY <1>2, <1>5 DEF Upgraded, CreateInitial, AddMissingColumns, MigrateMessageCache, CreateTables, PurgeMemory,
         Database, Version, Initial, AddColumns, MoveCache, NewTables, Purge, Done
<1>8. /\ MoveCache \in db'.history => db'.cache = {}
      /\ Purge \notin db'.history => legacy \subseteq db'.log \cup db'.cache /\ trusted = {}
      /\ trusted \subseteq db'.log
  BY <1>2, <1>5 DEF Upgraded, CreateInitial, AddMissingColumns, MigrateMessageCache, CreateTables, PurgeMemory,
         Database, Version, Initial, AddColumns, MoveCache, NewTables, Purge, Done
<1> QED  BY <1>5, <1>6, <1>7, <1>8 DEF Done

\* What an opener does that leaves the database and the other openers alone.
LEMMA OpenerMoves ==
  ASSUME SchemaInv, NEW o \in Opener, NEW r \in OpenerRow, opener' = [opener EXCEPT ![o] = r],
         UNCHANGED <<db, legacy, trusted>>,
         Prefix(r.applied) /\ r.applied \subseteq db.history,
         r.state = "ready" => 1..r.build \subseteq r.applied,
         tx' = Nobody \/ (tx' = tx /\ (tx = Nobody \/ tx.by # o))
  PROVE  SchemaInv'
<1> USE DEF SchemaInv
<1>1. /\ opener' \in [Opener -> OpenerRow] /\ opener'[o] = r
      /\ \A p \in Opener : p # o => opener'[p] = opener[p]
  OBVIOUS
<1>2. Done(db)' BY DEF Done
<1>3. \A p \in Opener : HasRead(p)'
  BY <1>1 DEF HasRead
<1>4. Transaction'
  <2>1. CASE tx' = Nobody  BY <2>1 DEF Transaction, Nobody
  <2>2. CASE tx' = tx /\ tx # Nobody /\ tx.by # o
    <3>1. PICK p \in Opener, v \in Version :
            /\ tx = [by |-> p, version |-> v, db |-> Upgraded(db, v)]
            /\ opener[p].state = "migrating" /\ Pending(p) # {} /\ v = Min(Pending(p))
      BY <2>2 DEF Transaction
    <3>2. Upgraded(db, v)' = Upgraded(db, v)
      BY DEF Upgraded, CreateInitial, AddMissingColumns, MigrateMessageCache, CreateTables, PurgeMemory
    <3>3. opener'[p] = opener[p] /\ Pending(p)' = Pending(p)
      BY <1>1, <2>2, <3>1 DEF Pending
    <3>4. /\ tx' = [by |-> p, version |-> v, db |-> Upgraded(db, v)']
          /\ opener'[p].state = "migrating" /\ Pending(p)' # {} /\ v = Min(Pending(p)')
      BY <2>2, <3>1, <3>2, <3>3
    <3> QED  BY <3>4 DEF Transaction
  <2>3. CASE tx' = tx /\ tx = Nobody  BY <2>3 DEF Transaction, Nobody
  <2> QED  BY <2>1, <2>2, <2>3
<1> QED  BY <1>1, <1>2, <1>3, <1>4

\* What two processes read, begin, upgrade and commit, and their end anywhere, keep the invariant.
LEMMA SchemaStep ==
  ASSUME SchemaInv, [SchemaNext]_schemaVars
  PROVE  SchemaInv'
<1> USE DEF SchemaInv
<1>0. /\ \A o \in Opener : /\ opener[o] \in OpenerRow /\ o # "none"
                           /\ opener[o].build \in {NewTables, Purge} /\ opener[o].applied \in SUBSET Version
      /\ \A o \in Opener : tx.by = o => tx # Nobody
  BY SchemaAssumption DEF OpenerRow, Nobody
<1>1. CASE UNCHANGED schemaVars
  <2>1. UNCHANGED <<db, tx, opener, legacy, trusted>>  BY <1>1 DEF schemaVars
  <2> QED  BY <2>1 DEF Done, Transaction, HasRead, Pending
<1>2. ASSUME NEW o \in Opener, ReadHistory(o) PROVE SchemaInv'
  <2> DEFINE s == IF db.history \subseteq 1..opener[o].build /\ db.history = 1..Cardinality(db.history)
                  THEN "migrating" ELSE Failed
             r == [opener[o] EXCEPT !.state = s, !.applied = db.history]
  <2>1. opener' = [opener EXCEPT ![o] = r] /\ opener[o].state = "new" /\ UNCHANGED <<db, tx, legacy, trusted>>
    BY <1>2 DEF ReadHistory
  <2>2. s \in {"migrating", Failed} /\ "ready" # Failed  BY DEF Failed
  <2> HIDE DEF s
  <2>3. r \in OpenerRow /\ r.applied = db.history /\ r.state = s
    BY <1>0, <2>2 DEF OpenerRow, Database
  <2>4. tx = Nobody \/ tx.by # o
    BY <2>1 DEF Transaction
  <2> HIDE DEF r
  <2> QED  BY <2>1, <2>2, <2>3, <2>4, OpenerMoves DEF Done, Failed
<1>3. ASSUME NEW o \in Opener, Begin(o) PROVE SchemaInv'
  <2>1. /\ opener[o].state = "migrating" /\ Pending(o) # {} /\ tx = Nobody
        /\ UNCHANGED <<db, legacy, trusted>>
    BY <1>3 DEF Begin
  <2> DEFINE v == Min(Pending(o))
  <2>2. v \in Version
    <3>1. PICK k \in 0..5 : opener[o].applied = 1..k  BY DEF HasRead, Prefix
    <3> QED  BY <1>0, <2>1, <3>1, FirstPending DEF Pending
  <2>3. CASE opener' = [opener EXCEPT ![o].state = Failed] /\ UNCHANGED tx
    <3> DEFINE r == [opener[o] EXCEPT !.state = Failed]
    <3>1. opener' = [opener EXCEPT ![o] = r]  BY <2>3
    <3>2. r \in OpenerRow /\ r.applied = opener[o].applied /\ r.state = Failed /\ Failed # "ready"
      BY <1>0 DEF OpenerRow, Failed
    <3> HIDE DEF r
    <3> QED  BY <2>1, <2>3, <3>1, <3>2, OpenerMoves DEF HasRead
  <2>4. CASE tx' = [by |-> o, version |-> v, db |-> Upgraded(db, v)] /\ UNCHANGED opener
    <3> PICK w \in Version : w = Min(Pending(o))  BY <2>2
    <3> HIDE DEF v
    <3>1. Done(db)' /\ \A p \in Opener : HasRead(p)'
      BY <2>1, <2>4 DEF Done, HasRead
    <3>2. Transaction'
      <4>1. Upgraded(db, w)' = Upgraded(db, w) /\ Pending(o)' = Pending(o)
        BY <2>1, <2>4 DEF Upgraded, CreateInitial, AddMissingColumns, MigrateMessageCache, CreateTables,
           PurgeMemory, Pending
      <4>2. /\ tx' = [by |-> o, version |-> w, db |-> Upgraded(db, w)']
            /\ opener'[o].state = "migrating" /\ Pending(o)' # {} /\ w = Min(Pending(o)')
        BY <2>1, <2>4, <4>1 DEF v
      <4> QED  BY <4>2 DEF Transaction
    <3>3. db' \in Database /\ opener' \in [Opener -> OpenerRow] /\ legacy' \in SUBSET Row /\ trusted' \in SUBSET Row
      BY <2>1, <2>4
    <3> QED  BY <3>1, <3>2, <3>3
  <2> QED  BY <1>3, <2>3, <2>4 DEF Begin
<1>4. ASSUME NEW o \in Opener, BeginFails(o) PROVE SchemaInv'
  <2> DEFINE r == [opener[o] EXCEPT !.state = Failed]
  <2>1. opener' = [opener EXCEPT ![o] = r] /\ tx.by # o /\ UNCHANGED <<db, tx, legacy, trusted>>
    BY <1>4 DEF BeginFails
  <2>2. r \in OpenerRow /\ r.applied = opener[o].applied /\ r.state = Failed /\ Failed # "ready"
    BY <1>0 DEF OpenerRow, Failed
  <2> HIDE DEF r
  <2> QED  BY <2>1, <2>2, OpenerMoves DEF HasRead
<1>5. ASSUME NEW o \in Opener, Commit(o) PROVE SchemaInv'
  <2>1. tx.by = o /\ tx' = Nobody /\ UNCHANGED <<legacy, trusted>>
    BY <1>5 DEF Commit
  <2>2. PICK v \in Version : /\ tx = [by |-> o, version |-> v, db |-> Upgraded(db, v)]
                             /\ opener[o].state = "migrating" /\ Pending(o) # {} /\ v = Min(Pending(o))
    BY <1>0, <2>1 DEF Transaction
  <2>3. PICK k \in 0..5 : opener[o].applied = 1..k  BY DEF HasRead, Prefix
  <2>4. v = k + 1 /\ v - 1 = k /\ k # 5
    <3>1. Pending(o) = (1..opener[o].build) \ (1..k)  BY <2>3 DEF Pending
    <3>2. v = k + 1  BY <1>0, <2>2, <3>1, FirstPending
    <3> QED  BY <3>2 DEF Version
  <2>5. tx.version = v /\ tx.db = Upgraded(db, v)  BY <2>2
  <2>6. CASE v \in db.history
    <3> DEFINE r == [opener[o] EXCEPT !.state = Failed]
    <3>1. opener' = [opener EXCEPT ![o] = r] /\ UNCHANGED db
      BY <1>5, <2>5, <2>6 DEF Commit, RowIsNew
    <3>2. r \in OpenerRow /\ r.applied = opener[o].applied /\ r.state = Failed /\ Failed # "ready"
      BY <1>0 DEF OpenerRow, Failed
    <3> HIDE DEF r
    <3> QED  BY <2>1, <3>1, <3>2, OpenerMoves DEF HasRead
  <2>7. CASE v \notin db.history
    <3>1. Upgraded(db, v).history = db.history
      BY DEF Upgraded, CreateInitial, AddMissingColumns, MigrateMessageCache, CreateTables, PurgeMemory,
             Database, Version, Initial, AddColumns, MoveCache, NewTables, Purge
    <3>2. /\ db' = [Upgraded(db, v) EXCEPT !.history = db.history \cup {v}]
          /\ opener' = [opener EXCEPT ![o].applied = opener[o].applied \cup {v}]
      BY <1>5, <2>5, <2>7, <3>1 DEF Commit, RowIsNew
    <3>3. 1..(v - 1) \subseteq db.history
      BY <2>3, <2>4 DEF HasRead
    <3>4. db' \in Database /\ Done(db)' /\ db'.history = db.history \cup {v}
      BY <2>1, <2>7, <3>2, <3>3, UpgradeKeepsDone
    <3>5. /\ opener' \in [Opener -> OpenerRow]
          /\ \A p \in Opener : p # o => opener'[p] = opener[p]
          /\ opener'[o].applied = opener[o].applied \cup {v} /\ opener'[o].state = "migrating"
      BY <1>0, <2>2, <3>2 DEF OpenerRow
    <3>6. Prefix(opener'[o].applied)
      BY <2>3, <2>4, <3>5, SmallIntervals
    <3>7. \A p \in Opener : HasRead(p)'
      BY <3>4, <3>5, <3>6 DEF HasRead
    <3> QED  BY <2>1, <3>4, <3>5, <3>7 DEF Transaction
  <2> QED  BY <2>6, <2>7
<1>6. ASSUME NEW o \in Opener, Ready(o) PROVE SchemaInv'
  <2> DEFINE r == [opener[o] EXCEPT !.state = "ready"]
  <2>1. /\ opener' = [opener EXCEPT ![o] = r] /\ UNCHANGED <<db, tx, legacy, trusted>>
        /\ Pending(o) = {}
    BY <1>6 DEF Ready
  <2>2. r \in OpenerRow /\ r.applied = opener[o].applied /\ r.build = opener[o].build
    BY <1>0 DEF OpenerRow
  <2>3. 1..opener[o].build \subseteq opener[o].applied  BY <2>1 DEF Pending
  <2>4. tx = Nobody \/ tx.by # o  BY <2>1 DEF Transaction
  <2> HIDE DEF r
  <2> QED  BY <2>1, <2>2, <2>3, <2>4, OpenerMoves DEF HasRead
<1>7. ASSUME NEW o \in Opener, RestartOpener(o) PROVE SchemaInv'
  <2> DEFINE r == [opener[o] EXCEPT !.state = "new", !.applied = {}]
  <2>1. /\ opener' = [opener EXCEPT ![o] = r] /\ UNCHANGED <<db, legacy, trusted>>
        /\ tx' = IF tx.by = o THEN Nobody ELSE tx
    BY <1>7 DEF RestartOpener
  <2>2. r \in OpenerRow /\ r.applied = {} /\ r.state = "new"
    BY <1>0 DEF OpenerRow
  <2>3. Prefix({})  BY DEF Prefix
  <2> HIDE DEF r
  <2> QED  BY <2>1, <2>2, <2>3, OpenerMoves
<1>8. ASSUME NEW o \in Opener, NEW m \in Row, WriteRow(o, m) PROVE SchemaInv'
  <2>1. /\ tx = Nobody /\ tx' = tx /\ UNCHANGED <<opener, legacy>>
        /\ db' = [db EXCEPT !.log = db.log \cup {m}]
        /\ trusted' = IF Purge \in db.history THEN trusted \cup {m} ELSE trusted
    BY <1>8 DEF WriteRow
  <2>2. /\ db' \in Database /\ db'.history = db.history /\ db'.tables = db.tables
        /\ db'.cache = db.cache /\ db'.log = db.log \cup {m} /\ trusted' \in SUBSET Row
    BY <2>1 DEF Database
  <2>3. Done(db)' BY <2>1, <2>2 DEF Done
  <2>4. \A p \in Opener : HasRead(p)'  BY <2>1, <2>2 DEF HasRead
  <2> QED  BY <2>1, <2>2, <2>3, <2>4 DEF Transaction
<1> QED  BY <1>1, <1>2, <1>3, <1>4, <1>5, <1>6, <1>7, <1>8 DEF SchemaNext

\* The invariant holds at the start.
LEMMA SchemaStarts == SchemaInit => SchemaInv
<1> SUFFICES ASSUME SchemaInit PROVE SchemaInv  OBVIOUS
<1>1. Prefix({})  BY DEF Prefix
<1>2. /\ db \in Database /\ legacy \in SUBSET Row /\ trusted = {} /\ db.history = {}
      /\ db.tables \subseteq {Initial} /\ legacy \subseteq db.log \cup db.cache /\ tx = Nobody
  BY DEF SchemaInit, Database, Version, Initial
<1>3. \A o \in Opener : /\ opener[o] \in OpenerRow /\ opener[o].applied = {}
                        /\ opener[o].state = "new"
  BY DEF SchemaInit, OpenerRow
<1>4. opener \in [Opener -> OpenerRow]
  BY <1>3 DEF SchemaInit
<1> QED  BY <1>1, <1>2, <1>3, <1>4 DEF SchemaInv, Done, Transaction, HasRead

\* MigratedOnce: whatever opens at once, of whichever build, and wherever it is killed, the
\* history has no gap, what it names was done as a whole and once, no message from before the
\* migrations is lost on its way into the log, and none written after the purge is purged
\* (apply_migrations, _apply_one).
THEOREM MigrationsApplyOnce == SchemaSpec => []MigratedOnce
<1>1. SchemaInv /\ [SchemaNext]_schemaVars => SchemaInv'
  BY SchemaStep
<1>2. SchemaInv => MigratedOnce
  <2> SUFFICES ASSUME SchemaInv PROVE MigratedOnce  OBVIOUS
  <2>1. db.history = 1..Cardinality(db.history)
    <3>1. PICK k \in 0..5 : db.history = 1..k  BY DEF SchemaInv, Done, Prefix
    <3> QED  BY <3>1, SmallIntervals
  <2>2. \A o \in Opener : opener[o].state = "ready" => 1..opener[o].build \subseteq db.history
    BY DEF SchemaInv, HasRead
  <2> QED  BY <2>1, <2>2 DEF SchemaInv, Done, MigratedOnce
<1> QED  BY SchemaStarts, <1>1, <1>2, PTL DEF SchemaSpec

-----------------------------------------------------------------------------
(* PersonaReplies.                                                         *)

Spoken == Text \cup {"refused"}
RowState == {"none", "pending", "sending", "delivered", "failed"}

ReplyTypes ==
  /\ reply \in [Reply -> ReplyState] /\ draft \in [Reply -> Text] /\ signed \in [Reply -> BOOLEAN]
  /\ verdict \in [Reply -> Spoken \cup {"none"}] /\ words \in [Reply -> SUBSET Spoken]
  /\ outboxRow \in [Reply -> [Kind -> RowState]]
  /\ asking \in {"channel", "collected", "error"} => asked \in Reply

\* A retry and the outcome of a delivery are all there is to do while there are any, and a dead
\* process has nothing to do.
TodoShape ==
  /\ alive \in BOOLEAN /\ (alive \/ todo = {})
  /\ \A t \in todo : t[1] \in {"retry", "settle"} => todo = {t}
  /\ \A q \in Reply, k \in Kind : <<"settle", q, k, "pending">> \notin todo

\* A row has the owner's words, and so has what will be made a row.
Wording(q) ==
  /\ verdict[q] # "none" => verdict[q] \in words[q]
  /\ reply[q] = "approved" => draft[q] \in words[q]
  /\ <<"decided", q>> \in todo /\ reply[q] # "approved" => "refused" \in words[q]

Display == \E q \in Reply \cup {0}, text \in Spoken \cup Kind \cup {"status", "none"} :
  shown = <<q, text>> /\ (text \in Spoken => q \in Reply /\ text \in words[q])

\* Nothing is made of a request before its owner decided.
Decided(q) ==
  /\ reply[q] \in {"absent", "pending"} =>
       outboxRow[q]["decision"] = "none" /\ <<"decided", q>> \notin todo
  /\ <<"retry", q>> \in todo => reply[q] = "approved"

\* An approved request has its row or will get it, and a row that failed is about to fail its
\* request or to be queued again.
UnderWay(q) == reply[q] = "approved" =>
  /\ alive /\ outboxRow[q]["decision"] = "none" => <<"decided", q>> \in todo \/ <<"retry", q>> \in todo
  /\ outboxRow[q]["decision"] = "failed" /\ q \notin torn =>
       <<"retry", q>> \in todo \/ <<"settle", q, "decision", "failed">> \in todo

RepliesInv ==
  /\ ReplyTypes /\ TodoShape /\ Display
  /\ \A q \in Reply : Wording(q) /\ Decided(q) /\ UnderWay(q)

\* What is on the wire has a row.
InFlight == \A q \in Reply, k \in Kind : wire.reply = q /\ wire.kind = k => outboxRow[q][k] # "none"

\* Enqueuing touches the rows of the kinds it names, and of these the ones there are not.
LEMMA EnqueueOnce ==
  ASSUME ReplyTypes, NEW q \in Reply, NEW kinds \in SUBSET Kind
  PROVE  /\ Enqueued(outboxRow, q, kinds) \in [Reply -> [Kind -> RowState]]
         /\ \A p \in Reply : p # q => Enqueued(outboxRow, q, kinds)[p] = outboxRow[p]
         /\ \A k \in Kind : Enqueued(outboxRow, q, kinds)[q][k] =
              IF k \in kinds /\ outboxRow[q][k] = "none" THEN "pending" ELSE outboxRow[q][k]
<1> DEFINE new == [k \in Kind |-> IF k \in kinds /\ outboxRow[q][k] = "none" THEN "pending" ELSE outboxRow[q][k]]
<1>1. Enqueued(outboxRow, q, kinds) = [outboxRow EXCEPT ![q] = new]
  BY DEF Enqueued, ReplyTypes
<1>2. new \in [Kind -> RowState]
  BY DEF ReplyTypes, RowState
<1>3. \A k \in Kind : new[k] = IF k \in kinds /\ outboxRow[q][k] = "none" THEN "pending" ELSE outboxRow[q][k]
  OBVIOUS
<1> HIDE DEF new
<1> QED  BY <1>1, <1>2, <1>3 DEF ReplyTypes

\* A step that leaves the requests and what there is to do for them, and takes no row back.
LEMMA RepliesUntouched ==
  ASSUME RepliesInv, ReplyTypes', Display',
         UNCHANGED <<reply, draft, verdict, words, alive, torn>>,
         todo' \subseteq todo, \A t \in todo : t[1] \in {"decided", "retry", "settle"} => t \in todo',
         \A q \in Reply : \/ outboxRow'[q]["decision"] = outboxRow[q]["decision"]
                          \/ /\ outboxRow[q]["decision"] # "none"
                             /\ outboxRow'[q]["decision"] \in {"pending", "sending"}
  PROVE  RepliesInv'
<1>1. \A q \in Reply : /\ <<"decided", q>> \in todo' <=> <<"decided", q>> \in todo
                       /\ <<"retry", q>> \in todo' <=> <<"retry", q>> \in todo
                       /\ \A k \in Kind, s \in RowState :
                            <<"settle", q, k, s>> \in todo' <=> <<"settle", q, k, s>> \in todo
  OBVIOUS
<1>2. TodoShape'
  <2>1. \A t \in todo' : t[1] \in {"retry", "settle"} => todo' = {t}
    BY DEF RepliesInv, TodoShape
  <2> QED  BY <1>1, <2>1 DEF RepliesInv, TodoShape, RowState
<1>3. ASSUME NEW q \in Reply PROVE Wording(q)' /\ Decided(q)' /\ UnderWay(q)'
  <2>1. Wording(q)'  BY <1>1 DEF RepliesInv, Wording
  <2>2. Decided(q)'  BY <1>1 DEF RepliesInv, Decided
  <2>3. UnderWay(q)'  BY <1>1 DEF RepliesInv, UnderWay, RowState, Kind
  <2> QED  BY <2>1, <2>2, <2>3
<1> QED  BY <1>2, <1>3 DEF RepliesInv

\* Requests, decisions, expiry, deliveries, retries, withdrawal and crashes keep the invariant.
LEMMA RepliesStep ==
  ASSUME RepliesInv, InFlight, [RepliesNext]_repliesVars
  PROVE  RepliesInv'
<1> USE DEF RepliesInv
<1>1. CASE UNCHANGED repliesVars
  BY <1>1, RepliesUntouched DEF repliesVars, replyRequests, outboxRows, process, ownerSide, ReplyTypes, Display
<1>2. CASE AskPersona \/ DraftFails \/ ChannelOpens \/ ArchiveVersion
  BY <1>2, RepliesUntouched DEF AskPersona, DraftFails, ChannelOpens, ArchiveVersion,
     replyRequests, outboxRows, process, ownerSide, ReplyTypes, Display
<1>3. CASE CompleteQuestion
  <2> DEFINE kinds == IF asking = "error" THEN {"error"} ELSE {"approval", "waiting"}
  <2>1. kinds \in SUBSET Kind /\ "decision" \notin kinds /\ "decision" \in Kind /\ asked \in Reply
    BY <1>3 DEF Kind, CompleteQuestion, ReplyTypes
  <2>2. outboxRow' = Enqueued(outboxRow, asked, kinds)  BY <1>3 DEF CompleteQuestion
  <2> HIDE DEF kinds
  <2>3. /\ outboxRow' \in [Reply -> [Kind -> RowState]]
        /\ \A q \in Reply : outboxRow'[q]["decision"] = outboxRow[q]["decision"]
    <3>1. /\ outboxRow' \in [Reply -> [Kind -> RowState]]
          /\ \A p \in Reply : p # asked => outboxRow'[p] = outboxRow[p]
          /\ \A k \in Kind : outboxRow'[asked][k] =
               IF k \in kinds /\ outboxRow[asked][k] = "none" THEN "pending" ELSE outboxRow[asked][k]
      BY <2>1, <2>2, EnqueueOnce
    <3> QED  BY <2>1, <3>1
  <2>4. ReplyTypes'
    BY <1>3, <2>3 DEF CompleteQuestion, ReplyTypes, replyRequests, ownerSide
  <2> QED  BY <1>3, <2>3, <2>4, RepliesUntouched DEF CompleteQuestion, replyRequests, ownerSide, Display
<1>4. CASE ChannelFails
  <2>1. asked \in Reply /\ todo = {} /\ alive /\ todo' = todo /\ alive' = alive
        /\ reply' = [reply EXCEPT ![asked] = "failed"] /\ asking' = "error" /\ asked' = asked
        /\ UNCHANGED <<draft, signed, outboxRow, verdict, words, shown, torn>>
    BY <1>4 DEF ChannelFails, Quiet, ReplyTypes, outboxRows, ownerSide
  <2>2. ReplyTypes' /\ TodoShape' /\ Display'
    BY <2>1 DEF ReplyTypes, ReplyState, TodoShape, Display
  <2>3. \A q \in Reply : reply'[q] = reply[q] \/ reply'[q] = "failed"
    BY <2>1 DEF ReplyTypes
  <2> QED  BY <2>1, <2>2, <2>3 DEF Wording, Decided, UnderWay
<1>5. CASE ExpireDue
  <2>1. /\ todo = {} /\ alive /\ alive' = alive
        /\ reply' = [q \in Reply |-> IF q \in DueReplies THEN "expired" ELSE reply[q]]
        /\ todo' = {"expired", "owner"} \X DueReplies
        /\ UNCHANGED <<draft, signed, asking, asked, outboxRow, verdict, words, shown, torn>>
    BY <1>5 DEF ExpireDue, Quiet, outboxRows, ownerSide
  <2>2. /\ \A t \in todo' : t[1] \in {"expired", "owner"}
        /\ \A q \in Reply : /\ <<"decided", q>> \notin todo' /\ <<"retry", q>> \notin todo'
                            /\ \A k \in Kind : <<"settle", q, k, "pending">> \notin todo'
    BY <2>1
  <2>3. ReplyTypes' /\ TodoShape' /\ Display'
    BY <2>1, <2>2 DEF ReplyTypes, ReplyState, TodoShape, Display
  <2>4. \A q \in Reply : reply'[q] = reply[q] \/ reply'[q] = "expired"
    BY <2>1
  <2> QED  BY <2>1, <2>2, <2>3, <2>4 DEF Wording, Decided, UnderWay
<1>6. CASE CrashReplies
  <2>1. /\ alive' = FALSE /\ todo' = {} /\ asking' \in {"done", "idle"}
        /\ torn' = torn \cup {q \in Reply : \E t \in todo : t[1] \in {"retry", "settle"} /\ t[2] = q}
        /\ UNCHANGED <<reply, draft, signed, outboxRow, verdict, words, shown>>
    BY <1>6 DEF CrashReplies, replyRequests, outboxRows, ownerSide
  <2>2. ReplyTypes' /\ TodoShape' /\ Display'
    BY <2>1 DEF ReplyTypes, TodoShape, Display
  <2>3. ASSUME NEW q \in Reply PROVE UnderWay(q)'
    <3>1. <<"retry", q>> \in todo \/ <<"settle", q, "decision", "failed">> \in todo => q \in torn'
      BY <2>1
    <3> QED  BY <2>1, <3>1 DEF UnderWay
  <2> QED  BY <2>1, <2>2, <2>3 DEF Wording, Decided
<1>7. CASE RestartReplies
  <2>1. /\ ~alive /\ todo = {} /\ alive' = TRUE
        /\ outboxRow' = [q \in Reply |-> [k \in Kind |-> IF outboxRow[q][k] = "sending" THEN "pending" ELSE outboxRow[q][k]]]
        /\ todo' = {<<"decided", q>> : q \in ApprovedReplies}
        /\ UNCHANGED <<reply, draft, signed, asking, asked, verdict, words, shown, torn>>
    BY <1>7 DEF RestartReplies, replyRequests, ownerSide, TodoShape
  <2>2. /\ \A t \in todo' : t[1] = "decided"
        /\ \A q \in Reply : /\ <<"decided", q>> \in todo' <=> reply[q] = "approved"
                            /\ <<"retry", q>> \notin todo'
                            /\ \A k \in Kind : <<"settle", q, k, "pending">> \notin todo'
    BY <2>1 DEF ApprovedReplies
  <2>3. /\ outboxRow' \in [Reply -> [Kind -> RowState]]
        /\ \A q \in Reply : /\ outboxRow'[q]["decision"] = "none" <=> outboxRow[q]["decision"] = "none"
                            /\ outboxRow'[q]["decision"] = "failed" <=> outboxRow[q]["decision"] = "failed"
    BY <2>1 DEF ReplyTypes, RowState, Kind
  <2>4. ReplyTypes' /\ TodoShape' /\ Display'
    BY <2>1, <2>2, <2>3 DEF ReplyTypes, TodoShape, Display
  <2>5. \A q \in Reply : Wording(q)' /\ Decided(q)'
    BY <2>1, <2>2, <2>3 DEF Wording, Decided
  <2>6. \A q \in Reply : UnderWay(q)'
    BY <2>1, <2>2, <2>3 DEF UnderWay
  <2> QED  BY <2>4, <2>5, <2>6
<1>8. ASSUME NEW q \in Reply, CreateReply(q) PROVE RepliesInv'
  <2>1. /\ todo = {} /\ alive /\ todo' = todo /\ alive' = alive /\ reply[q] = "absent"
        /\ reply' = [reply EXCEPT ![q] = "pending"] /\ asked' = q
        /\ UNCHANGED <<draft, signed, outboxRow, verdict, words, shown, torn>>
    BY <1>8 DEF CreateReply, Quiet, outboxRows, ownerSide
  <2>2. ReplyTypes' /\ TodoShape' /\ Display'
    BY <2>1 DEF ReplyTypes, ReplyState, TodoShape, Display
  <2>3. reply'[q] = "pending" /\ \A p \in Reply : p # q => reply'[p] = reply[p]
    BY <2>1 DEF ReplyTypes
  <2>4. \A p \in Reply : Wording(p)'
    BY <2>1, <2>3 DEF Wording
  <2>5. \A p \in Reply : Decided(p)'
    BY <2>1, <2>3 DEF Decided
  <2>6. \A p \in Reply : UnderWay(p)'
    BY <2>1, <2>3 DEF UnderWay
  <2> QED  BY <2>2, <2>4, <2>5, <2>6
<1>9. ASSUME NEW q \in Reply, EnqueueDecision(q) PROVE RepliesInv'
  <2>1. /\ <<"decided", q>> \in todo /\ todo' = todo \ {<<"decided", q>>} /\ alive /\ alive' = alive
        /\ outboxRow' = Enqueued(outboxRow, q, {"decision"})
        /\ verdict' = IF outboxRow[q]["decision"] # "none" THEN verdict
                      ELSE [verdict EXCEPT ![q] = IF reply[q] = "approved" THEN draft[q] ELSE "refused"]
        /\ UNCHANGED <<reply, draft, signed, asking, asked, words, shown, torn>>
    BY <1>9 DEF EnqueueDecision, replyRequests, ownerSide
  <2>2. {"decision"} \in SUBSET Kind /\ "decision" \in Kind  BY DEF Kind
  <2>3. /\ outboxRow' \in [Reply -> [Kind -> RowState]]
        /\ \A p \in Reply : p # q => outboxRow'[p] = outboxRow[p]
        /\ outboxRow'[q]["decision"] = IF outboxRow[q]["decision"] = "none" THEN "pending" ELSE outboxRow[q]["decision"]
    BY <2>1, <2>2, EnqueueOnce
  <2>4. /\ \A t \in todo : t[1] \notin {"retry", "settle"}
        /\ \A p \in Reply : /\ <<"retry", p>> \notin todo
                            /\ \A k \in Kind, s \in RowState : <<"settle", p, k, s>> \notin todo
    <3>1. <<"decided", q>>[1] = "decided"  OBVIOUS
    <3>2. \A t \in todo : t[1] \notin {"retry", "settle"}  BY <2>1, <3>1 DEF TodoShape
    <3> QED  BY <3>2
  <2>5. verdict' \in [Reply -> Spoken \cup {"none"}] /\ \A p \in Reply : Wording(p)'
    BY <2>1 DEF Wording, ReplyTypes, Spoken
  <2>6. ReplyTypes' /\ TodoShape' /\ Display'
    BY <2>1, <2>3, <2>4, <2>5 DEF ReplyTypes, TodoShape, Display
  <2>7. \A p \in Reply : Decided(p)'
    BY <2>1, <2>3 DEF Decided
  <2>8. \A p \in Reply : UnderWay(p)'
    BY <2>1, <2>2, <2>3, <2>4 DEF UnderWay, RowState
  <2> QED  BY <2>5, <2>6, <2>7, <2>8
<1>10. ASSUME NEW q \in Reply, Retry(q) PROVE RepliesInv'
  <2>1. /\ todo = {} /\ alive /\ todo' = {<<"retry", q>>} /\ alive' = alive /\ reply[q] = "failed"
        /\ reply' = [reply EXCEPT ![q] = "approved"] /\ words' = [words EXCEPT ![q] = words[q] \cup {draft[q]}]
        /\ UNCHANGED <<draft, signed, asking, asked, outboxRow, verdict, shown, torn>>
    BY <1>10 DEF Retry, Quiet, outboxRows, ReplyTypes
  <2>2. /\ words' \in [Reply -> SUBSET Spoken] /\ draft[q] \in words'[q]
        /\ \A p \in Reply : words[p] \subseteq words'[p]
    BY <2>1 DEF ReplyTypes, Spoken
  <2>3. /\ \A p \in Reply : <<"decided", p>> \notin todo' /\ (<<"retry", p>> \in todo' <=> p = q)
        /\ \A p \in Reply, k \in Kind : <<"settle", p, k, "pending">> \notin todo'
    BY <2>1
  <2>4. ReplyTypes' /\ TodoShape'
    BY <2>1, <2>2, <2>3 DEF ReplyTypes, TodoShape, ReplyState
  <2>5. Display'
    BY <2>1, <2>2 DEF Display
  <2>6. reply'[q] = "approved" /\ \A p \in Reply : p # q => reply'[p] = reply[p]
    BY <2>1 DEF ReplyTypes
  <2>7. \A p \in Reply : Wording(p)'
    BY <2>1, <2>2, <2>3, <2>6 DEF Wording
  <2>8. \A p \in Reply : Decided(p)' /\ UnderWay(p)'
    BY <2>1, <2>3, <2>6 DEF Decided, UnderWay
  <2> QED  BY <2>4, <2>5, <2>7, <2>8
<1>11. ASSUME NEW q \in Reply, RetryDecision(q) PROVE RepliesInv'
  <2>1. /\ <<"retry", q>> \in todo /\ todo' = todo \ {<<"retry", q>>} /\ alive /\ alive' = alive
        /\ outboxRow' = RetriedRow(q)
        /\ verdict' = IF outboxRow[q]["decision"] = "none" THEN [verdict EXCEPT ![q] = draft[q]] ELSE verdict
        /\ UNCHANGED <<reply, draft, signed, asking, asked, words, shown, torn>>
    BY <1>11 DEF RetryDecision, replyRequests, ownerSide
  <2>2. {"decision"} \in SUBSET Kind /\ "decision" \in Kind  BY DEF Kind
  <2>3. /\ outboxRow' \in [Reply -> [Kind -> RowState]]
        /\ \A p \in Reply : p # q => outboxRow'[p] = outboxRow[p]
        /\ outboxRow'[q]["decision"] = IF outboxRow[q]["decision"] \in {"none", "failed"} THEN "pending"
                                       ELSE outboxRow[q]["decision"]
    <3>1. CASE outboxRow[q]["decision"] = "failed"
      <4>1. outboxRow' = [outboxRow EXCEPT ![q] = [outboxRow[q] EXCEPT !["decision"] = "pending"]]
        BY <2>1, <3>1 DEF RetriedRow, ReplyTypes
      <4> QED  BY <2>2, <3>1, <4>1 DEF ReplyTypes, RowState
    <3>2. CASE outboxRow[q]["decision"] # "failed"
      BY <2>1, <2>2, <3>2, EnqueueOnce DEF RetriedRow
    <3> QED  BY <3>1, <3>2
  <2>4. todo = {<<"retry", q>>} /\ todo' = {} /\ reply[q] = "approved"
    BY <2>1 DEF TodoShape, Decided
  <2>5. \A p \in Reply : /\ <<"decided", p>> \notin todo /\ (<<"retry", p>> \in todo => p = q)
                         /\ <<"settle", p, "decision", "failed">> \notin todo
    BY <2>4
  <2>6. verdict' \in [Reply -> Spoken \cup {"none"}] /\ \A p \in Reply : Wording(p)'
    BY <2>1, <2>4 DEF Wording, ReplyTypes, Spoken
  <2>7. ReplyTypes' /\ TodoShape' /\ Display'
    BY <2>1, <2>3, <2>4, <2>6 DEF ReplyTypes, TodoShape, Display
  <2>8. \A p \in Reply : Decided(p)' /\ UnderWay(p)'
    BY <2>1, <2>2, <2>3, <2>4, <2>5 DEF Decided, UnderWay, RowState
  <2> QED  BY <2>6, <2>7, <2>8
<1>12. ASSUME NEW q \in Reply, ReplyFallsDue(q) PROVE RepliesInv'
  BY <1>12, RepliesUntouched DEF ReplyFallsDue, replyRequests, outboxRows, process, ReplyTypes, Display
<1>13. ASSUME NEW q \in Reply, EnqueueExpired(q) \/ EnqueueOwnerUpdate(q) PROVE RepliesInv'
  <2>1. PICK kind \in {"expired", "owner"} :
          /\ todo' = todo \ {<<kind, q>>}
          /\ outboxRow' = Enqueued(outboxRow, q, {kind}) \/ outboxRow' = outboxRow
          /\ UNCHANGED <<reply, draft, signed, asking, asked, alive, verdict, words, shown, torn>>
    BY <1>13 DEF EnqueueExpired, EnqueueOwnerUpdate, replyRequests, ownerSide
  <2>2. {kind} \in SUBSET Kind /\ "decision" \in Kind /\ "decision" \notin {kind} /\ <<kind, q>>[1] = kind
    BY DEF Kind
  <2>3. ReplyTypes' /\ \A p \in Reply : outboxRow'[p]["decision"] = outboxRow[p]["decision"]
    <3>1. CASE outboxRow' = Enqueued(outboxRow, q, {kind})
      <4>1. /\ outboxRow' \in [Reply -> [Kind -> RowState]]
            /\ \A p \in Reply : p # q => outboxRow'[p] = outboxRow[p]
            /\ \A k \in Kind : outboxRow'[q][k] =
                 IF k \in {kind} /\ outboxRow[q][k] = "none" THEN "pending" ELSE outboxRow[q][k]
        BY <2>2, <3>1, EnqueueOnce
      <4>2. \A p \in Reply : outboxRow'[p]["decision"] = outboxRow[p]["decision"]
        BY <2>2, <4>1
      <4> QED  BY <2>1, <4>1, <4>2 DEF ReplyTypes
    <3>2. CASE outboxRow' = outboxRow
      BY <2>1, <3>2 DEF ReplyTypes
    <3> QED  BY <2>1, <3>1, <3>2
  <2>4. Display'  BY <2>1 DEF Display
  <2>5. \A t \in todo : t[1] \in {"decided", "retry", "settle"} => t \in todo'
    BY <2>1, <2>2
  <2> QED  BY <2>1, <2>3, <2>4, <2>5, RepliesUntouched
<1>14. ASSUME NEW q \in Reply, NEW text \in Text \cup {"refused"}, DecideReply(q, text) PROVE RepliesInv'
  <2>1. /\ todo = {} /\ alive /\ alive' = alive /\ reply[q] = "pending"
        /\ reply' = [reply EXCEPT ![q] = IF text = "refused" THEN "rejected" ELSE "approved"]
        /\ draft' = [draft EXCEPT ![q] = IF text = "refused" THEN draft[q] ELSE text]
        /\ signed' = [signed EXCEPT ![q] = TRUE]
        /\ words' = [words EXCEPT ![q] = words[q] \cup {text}]
        /\ todo' = {<<"decided", q>>} \cup (IF text = "edited" THEN {<<"owner", q>>} ELSE {})
        /\ UNCHANGED <<asking, asked, outboxRow, verdict, shown, torn>>
    BY <1>14 DEF DecideReply, Quiet, MayDecide, FinalText, outboxRows, ReplyTypes
  <2>2. /\ words' \in [Reply -> SUBSET Spoken] /\ text \in words'[q]
        /\ \A p \in Reply : words[p] \subseteq words'[p] /\ (p # q => words'[p] = words[p])
    BY <2>1 DEF ReplyTypes, Spoken
  <2>3. /\ \A p \in Reply : <<"retry", p>> \notin todo' /\ (<<"decided", p>> \in todo' <=> p = q)
        /\ \A p \in Reply, k \in Kind : <<"settle", p, k, "pending">> \notin todo'
        /\ \A t \in todo' : t[1] \notin {"retry", "settle"}
    BY <2>1
  <2>4. ReplyTypes' /\ TodoShape'
    BY <2>1, <2>2, <2>3 DEF ReplyTypes, TodoShape, ReplyState, Text
  <2>5. Display'
    BY <2>1, <2>2 DEF Display
  <2>6. /\ text = "refused" => reply'[q] = "rejected"
        /\ text # "refused" => reply'[q] = "approved" /\ draft'[q] = text
        /\ \A p \in Reply : p # q => reply'[p] = reply[p] /\ draft'[p] = draft[p]
    BY <2>1 DEF ReplyTypes
  <2>7. ASSUME NEW p \in Reply PROVE Wording(p)'
    <3>1. verdict' = verdict /\ Wording(p) /\ words[p] \subseteq words'[p]  BY <2>1, <2>2
    <3>2. verdict'[p] # "none" => verdict'[p] \in words'[p]  BY <3>1 DEF Wording
    <3>3. CASE p = q  BY <2>2, <2>3, <2>6, <3>2, <3>3 DEF Wording
    <3>4. CASE p # q  BY <2>2, <2>3, <2>6, <3>1, <3>2, <3>4 DEF Wording
    <3> QED  BY <3>3, <3>4
  <2>8. ASSUME NEW p \in Reply PROVE Decided(p)' /\ UnderWay(p)'
    <3>1. outboxRow' = outboxRow /\ torn' = torn /\ alive' = alive  BY <2>1
    <3>2. outboxRow[q]["decision"] = "none"  BY <2>1 DEF Decided
    <3>3. reply'[q] \notin {"absent", "pending"}  BY <2>6
    <3>4. Decided(p)'  BY <2>3, <2>6, <3>1, <3>3 DEF Decided
    <3>5. CASE p = q  BY <2>3, <3>1, <3>2, <3>4, <3>5 DEF UnderWay
    <3>6. CASE p # q  BY <2>1, <2>6, <3>1, <3>4, <3>6 DEF UnderWay
    <3> QED  BY <3>5, <3>6
  <2> QED  BY <2>4, <2>5, <2>7, <2>8
<1>15. ASSUME NEW q \in Reply, NEW k \in Kind, SendRow(q, k) PROVE RepliesInv'
  <2>1. /\ outboxRow' = [outboxRow EXCEPT ![q] = [outboxRow[q] EXCEPT ![k] = "sending"]]
        /\ outboxRow[q][k] = "pending"
        /\ UNCHANGED <<reply, draft, signed, asking, asked, alive, todo, verdict, words, shown, torn>>
    BY <1>15 DEF SendRow, replyRequests, ownerSide, ReplyTypes
  <2>2. /\ ReplyTypes' /\ Display'
        /\ \A p \in Reply : \/ outboxRow'[p]["decision"] = outboxRow[p]["decision"]
                            \/ /\ outboxRow[p]["decision"] # "none"
                               /\ outboxRow'[p]["decision"] \in {"pending", "sending"}
    BY <2>1 DEF ReplyTypes, RowState, Kind, Display
  <2> QED  BY <2>1, <2>2, RepliesUntouched
<1>16. ASSUME NEW q \in Reply, NEW k \in Kind, Arrives(q, k) PROVE RepliesInv'
  <2>1. /\ shown' = CASE k \in {"approval", "owner"} -> shown
                      [] k = "decision" -> <<q, verdict[q]>>
                      [] OTHER -> <<q, k>>
        /\ UNCHANGED <<reply, draft, signed, asking, asked, alive, todo, outboxRow, verdict, words, torn>>
    BY <1>16 DEF Arrives, replyRequests, outboxRows
  <2>2. Display'
    <3>1. CASE k \in {"approval", "owner"}  BY <2>1, <3>1 DEF Display
    <3>2. CASE k = "decision"
      <4>1. shown' = <<q, verdict[q]>> /\ verdict[q] \in Spoken \cup {"none"}
        BY <2>1, <3>2 DEF ReplyTypes
      <4>2. verdict[q] \in Spoken => verdict[q] \in words'[q]
        BY <2>1 DEF Wording, Spoken, Text
      <4> QED  BY <4>1, <4>2 DEF Display
    <3>3. CASE k \notin {"approval", "owner", "decision"}
      <4>1. shown' = <<q, k>> /\ k \notin Spoken
        BY <2>1, <3>3 DEF Kind, Spoken, Text
      <4> QED  BY <4>1 DEF Display
    <3> QED  BY <3>1, <3>2, <3>3
  <2>3. ReplyTypes'  BY <2>1 DEF ReplyTypes
  <2> QED  BY <2>1, <2>2, <2>3, RepliesUntouched
<1>17. ASSUME NEW q \in Reply, NEW k \in Kind, NEW state \in {"delivered", "pending", "failed"},
              DeliverySettles(q, k, state)
       PROVE  RepliesInv'
  <2>1. /\ todo = {} /\ alive /\ alive' = alive
        /\ outboxRow' = [outboxRow EXCEPT ![q] = [outboxRow[q] EXCEPT ![k] = state]]
        /\ todo' = IF state = "pending" THEN {} ELSE {<<"settle", q, k, state>>}
        /\ UNCHANGED <<reply, draft, signed, asking, asked, verdict, words, shown, torn>>
    BY <1>17 DEF DeliverySettles, Quiet, replyRequests, ownerSide, ReplyTypes
  <2>2. outboxRow[q][k] # "none"
    BY <1>17 DEF InFlight, DeliverySettles
  <2>3. /\ outboxRow' \in [Reply -> [Kind -> RowState]]
        /\ \A p \in Reply : p # q => outboxRow'[p] = outboxRow[p]
        /\ outboxRow'[q]["decision"] = IF k = "decision" THEN state ELSE outboxRow[q]["decision"]
    BY <2>1 DEF ReplyTypes, RowState, Kind
  <2>4. /\ \A p \in Reply : <<"decided", p>> \notin todo' /\ <<"retry", p>> \notin todo'
        /\ \A p \in Reply, j \in Kind : <<"settle", p, j, "pending">> \notin todo'
        /\ \A t \in todo' : todo' = {t}
        /\ k = "decision" /\ state = "failed" => <<"settle", q, "decision", "failed">> \in todo'
    BY <2>1
  <2>5. ReplyTypes' /\ TodoShape' /\ Display'
    BY <2>1, <2>3, <2>4 DEF ReplyTypes, TodoShape, Display
  <2>6. \A p \in Reply : Wording(p)' /\ Decided(p)'
    BY <2>1, <2>2, <2>3, <2>4 DEF Wording, Decided
  <2>7. \A p \in Reply : UnderWay(p)'
    BY <2>1, <2>2, <2>3, <2>4 DEF UnderWay
  <2> QED  BY <2>5, <2>6, <2>7
<1>18. ASSUME NEW q \in Reply, NEW k \in Kind, NEW state \in {"delivered", "pending", "failed"},
              SettleReply(q, k, state)
       PROVE  RepliesInv'
  <2>1. /\ <<"settle", q, k, state>> \in todo /\ todo' = {} /\ alive /\ alive' = alive
        /\ reply' = [reply EXCEPT ![q] = SettledReply(q, k, state)]
        /\ UNCHANGED <<draft, signed, asking, asked, outboxRow, verdict, words, shown, torn>>
    BY <1>18 DEF SettleReply, outboxRows, ownerSide
  <2>2. state # "pending" /\ todo = {<<"settle", q, k, state>>}
    <3>1. <<"settle", q, k, state>>[1] = "settle"  OBVIOUS
    <3> QED  BY <2>1, <3>1 DEF TodoShape
  <2>3. \A p \in Reply : /\ <<"decided", p>> \notin todo /\ <<"retry", p>> \notin todo
                         /\ <<"settle", p, "decision", "failed">> \in todo =>
                              p = q /\ k = "decision" /\ state = "failed"
    BY <2>2
  <2>4. /\ SettledReply(q, k, state) \in {"delivered", "failed", reply[q]}
        /\ k = "decision" /\ state = "failed" => SettledReply(q, k, state) # "approved"
    BY <2>2 DEF SettledReply
  <2>5. ReplyTypes' /\ TodoShape' /\ Display'
    BY <2>1, <2>4 DEF ReplyTypes, ReplyState, TodoShape, Display
  <2>6. /\ \A p \in Reply : reply'[p] \in {"delivered", "failed", reply[p]}
        /\ k = "decision" /\ state = "failed" => reply'[q] # "approved"
    BY <2>1, <2>4 DEF ReplyTypes
  <2>7. \A p \in Reply : Wording(p)' /\ Decided(p)'
    BY <2>1, <2>3, <2>6 DEF Wording, Decided
  <2>8. \A p \in Reply : UnderWay(p)'
    BY <2>1, <2>3, <2>6 DEF UnderWay
  <2> QED  BY <2>5, <2>7, <2>8
<1> QED  BY <1>1, <1>2, <1>3, <1>4, <1>5, <1>6, <1>7, <1>8, <1>9, <1>10, <1>11, <1>12, <1>13, <1>14,
            <1>15, <1>16, <1>17, <1>18 DEF RepliesNext

\* No row is ever taken out of the Outbox.
LEMMA RowsStay ==
  ASSUME RepliesInv, InFlight, [RepliesNext]_repliesVars
  PROVE  InFlight'
<1> USE DEF RepliesInv
<1> DEFINE Stay == \A q \in Reply, k \in Kind : outboxRow[q][k] # "none" => outboxRow'[q][k] # "none"
<1>1. Stay /\ (wire' = wire \/ wire' = NoDelivery) => InFlight'
  BY DEF InFlight, NoDelivery, Kind
<1> HIDE DEF Stay
<1>2. UNCHANGED outboxRow => Stay  BY DEF Stay
<1>3. ASSUME NEW q \in Reply, NEW kinds \in SUBSET Kind, outboxRow' = Enqueued(outboxRow, q, kinds)
      PROVE  Stay
  <2>1. /\ \A p \in Reply : p # q => outboxRow'[p] = outboxRow[p]
        /\ \A k \in Kind : outboxRow'[q][k] =
              IF k \in kinds /\ outboxRow[q][k] = "none" THEN "pending" ELSE outboxRow[q][k]
    BY <1>3, EnqueueOnce
  <2> QED  BY <2>1 DEF Stay
<1>4. ASSUME NEW q \in Reply, NEW k \in Kind, NEW s \in RowState \ {"none"},
             outboxRow' = [outboxRow EXCEPT ![q] = [outboxRow[q] EXCEPT ![k] = s]]
      PROVE  Stay /\ outboxRow'[q][k] = s
  BY <1>4 DEF Stay, ReplyTypes
<1>5. CASE UNCHANGED repliesVars
  BY <1>1, <1>2, <1>5 DEF repliesVars, outboxRows, process
<1>6. CASE AskPersona \/ DraftFails \/ ChannelFails \/ ChannelOpens \/ ArchiveVersion \/ ExpireDue \/ CrashReplies
  BY <1>1, <1>2, <1>6 DEF AskPersona, DraftFails, ChannelFails, ChannelOpens, ArchiveVersion, ExpireDue,
     CrashReplies, outboxRows, process
<1>7. CASE CompleteQuestion
  <2> DEFINE kinds == IF asking = "error" THEN {"error"} ELSE {"approval", "waiting"}
  <2>1. kinds \in SUBSET Kind /\ asked \in Reply
    BY <1>7 DEF Kind, CompleteQuestion, ReplyTypes
  <2>2. outboxRow' = Enqueued(outboxRow, asked, kinds) /\ wire' = wire
    BY <1>7 DEF CompleteQuestion
  <2> HIDE DEF kinds
  <2> QED  BY <1>1, <1>3, <2>1, <2>2
<1>8. CASE RestartReplies
  <2>1. \A q \in Reply, k \in Kind : outboxRow'[q][k] = IF outboxRow[q][k] = "sending" THEN "pending" ELSE outboxRow[q][k]
    BY <1>8 DEF RestartReplies
  <2>2. Stay  BY <2>1 DEF Stay
  <2> QED  BY <1>1, <1>8, <2>2 DEF RestartReplies
<1>9. ASSUME NEW q \in Reply,
             \/ CreateReply(q) \/ Retry(q) \/ ReplyFallsDue(q)
             \/ \E text \in Text \cup {"refused"} : DecideReply(q, text)
             \/ \E k \in Kind, state \in {"delivered", "pending", "failed"} : SettleReply(q, k, state)
      PROVE  InFlight'
  BY <1>1, <1>2, <1>9 DEF CreateReply, Retry, ReplyFallsDue, DecideReply, SettleReply, outboxRows, process
<1>10. ASSUME NEW q \in Reply, EnqueueDecision(q) \/ EnqueueExpired(q) \/ EnqueueOwnerUpdate(q)
       PROVE  InFlight'
  <2>1. {"decision"} \in SUBSET Kind /\ {"expired"} \in SUBSET Kind /\ {"owner"} \in SUBSET Kind
    BY DEF Kind
  <2>2. wire' = wire /\ \/ outboxRow' = outboxRow
                        \/ \E kinds \in SUBSET Kind : outboxRow' = Enqueued(outboxRow, q, kinds)
    BY <1>10, <2>1 DEF EnqueueDecision, EnqueueExpired, EnqueueOwnerUpdate
  <2> QED  BY <1>1, <1>2, <1>3, <2>2
<1>11. ASSUME NEW q \in Reply, RetryDecision(q) PROVE InFlight'
  <2>1. {"decision"} \in SUBSET Kind /\ "decision" \in Kind /\ "pending" \in RowState \ {"none"}
    BY DEF Kind, RowState
  <2>2. wire' = wire /\ outboxRow' = RetriedRow(q)
    BY <1>11 DEF RetryDecision
  <2>3. CASE outboxRow[q]["decision"] = "failed"
    <3>1. outboxRow' = [outboxRow EXCEPT ![q] = [outboxRow[q] EXCEPT !["decision"] = "pending"]]
      BY <2>2, <2>3 DEF RetriedRow, ReplyTypes
    <3> QED  BY <1>1, <1>4, <2>1, <2>2, <3>1
  <2>4. CASE outboxRow[q]["decision"] # "failed"
    BY <1>1, <1>3, <2>1, <2>2, <2>4 DEF RetriedRow
  <2> QED  BY <2>3, <2>4
<1>12. ASSUME NEW q \in Reply, NEW k \in Kind, SendRow(q, k) PROVE InFlight'
  <2>1. /\ outboxRow' = [outboxRow EXCEPT ![q] = [outboxRow[q] EXCEPT ![k] = "sending"]]
        /\ wire' = [reply |-> q, kind |-> k, done |-> FALSE]
        /\ "sending" \in RowState \ {"none"}
    BY <1>12 DEF SendRow, ReplyTypes, RowState
  <2>2. outboxRow'[q][k] = "sending"  BY <1>4, <2>1
  <2> QED  BY <2>1, <2>2 DEF InFlight
<1>13. ASSUME NEW q \in Reply, NEW k \in Kind, Arrives(q, k) PROVE InFlight'
  <2>1. /\ wire = [reply |-> q, kind |-> k, done |-> FALSE] /\ wire' = [wire EXCEPT !.done = TRUE]
        /\ outboxRow' = outboxRow
    BY <1>13 DEF Arrives, outboxRows
  <2>2. wire'.reply = wire.reply /\ wire'.kind = wire.kind  BY <2>1
  <2> QED  BY <2>1, <2>2 DEF InFlight
<1>14. ASSUME NEW q \in Reply, NEW k \in Kind, NEW state \in {"delivered", "pending", "failed"},
              DeliverySettles(q, k, state)
       PROVE  InFlight'
  <2>1. /\ outboxRow' = [outboxRow EXCEPT ![q] = [outboxRow[q] EXCEPT ![k] = state]]
        /\ wire' = NoDelivery /\ state \in RowState \ {"none"}
    BY <1>14 DEF DeliverySettles, ReplyTypes, RowState
  <2> QED  BY <1>1, <1>4, <2>1
<1> QED  BY <1>5, <1>6, <1>7, <1>8, <1>9, <1>10, <1>11, <1>12, <1>13, <1>14 DEF RepliesNext

\* The invariant holds at the start.
LEMMA RepliesStart == RepliesInit => RepliesInv /\ InFlight
BY DEF RepliesInit, RepliesInv, InFlight, NoDelivery, ReplyTypes, TodoShape, Display, Wording, Decided, UnderWay,
   ReplyState, RowState, Spoken, Text, Kind

\* PersonaSpeaksForItsOwner: what the status post says in the persona's name is what its owner
\* agreed to, and what he approved is on its way or has arrived, however decisions, deliveries,
\* retries and restarts follow each other (persona_replies.py, _settle_persona_reply).
THEOREM PersonaIsFaithful == RepliesSpec => []PersonaSpeaksForItsOwner
<1>1. RepliesInv /\ InFlight /\ [RepliesNext]_repliesVars => (RepliesInv /\ InFlight)'
  BY RepliesStep, RowsStay
<1>2. RepliesInv => PersonaSpeaksForItsOwner
  <2>1. RepliesInv => OnlyOwnersWords
    BY DEF RepliesInv, Display, OnlyOwnersWords, Spoken
  <2>2. RepliesInv => ApprovedIsOnItsWay
    BY DEF RepliesInv, ReplyTypes, UnderWay, ApprovedIsOnItsWay, Quiet, RowState, Kind
  <2> QED  BY <2>1, <2>2 DEF PersonaSpeaksForItsOwner
<1> QED  BY RepliesStart, <1>1, <1>2, PTL DEF RepliesSpec

-----------------------------------------------------------------------------
(* Delegation.                                                             *)

WaitStates == {"agent", "suspended", "queue_parent", "run_parent"}

DelegationTypes ==
  /\ parent \in ParentState /\ child \in [ToolCall -> ChildState]
  /\ request \in [ToolCall -> {"absent", "pending", "approved", "rejected", "expired"}]
  /\ graph \in {"model", "registering", "parked", "over", "lost"}
  /\ tool \in [ToolCall -> Told \cup Dispatching \cup {"none", "again", "agent", "suspended"}]
  /\ resumer \in [pc : Resuming \cup {"idle", "child", "ask"}, call : ToolCall \cup {None}]
  /\ started \in [ToolCall -> Nat]
  /\ up \in BOOLEAN /\ crashes \in Nat /\ (crashes = 0 => up)

\* Where a call is, and with it its child, its parent and its graph.
CallAgrees(t) ==
  /\ tool[t] = "none" => child[t] = "absent" /\ started[t] = 0
  /\ tool[t] = "claim" => child[t] = "queued" /\ started[t] = 0
  /\ tool[t] = "wait" => child[t] = "running" /\ started[t] = 0
  /\ started[t] <= 1
  /\ tool[t] = "agent" => child[t] = "running" /\ parent = "waiting_child"
  /\ tool[t] = "queue_parent" => child[t] \in FinalStates /\ parent = "waiting_child"
  /\ tool[t] = "run_parent" => child[t] \in FinalStates /\ parent = "queued"
  /\ tool[t] \in {"again", "result"} => child[t] \in {"succeeded", "exhausted"}
  /\ tool[t] = "error" => child[t] = "failed"
  /\ tool[t] \in Dispatching \cup {"agent", "again"} => graph = "model" /\ up
  /\ tool[t] = "lost" => crashes # 0

\* A suspended call has its parent and its child wait, until a resumption takes it up.
SuspendedAgrees(t) == tool[t] = "suspended" =>
  /\ graph # "lost"
  /\ graph \in {"model", "registering"} \/ (graph = "parked" /\ crashes = 0 /\ resumer.pc = "idle")
     => child[t] = "waiting_approval" /\ parent = "waiting_child"
  /\ graph = "over" => child[t] = "failed" /\ parent = "failed"

RequestAgrees(t) == request[t] = "pending" =>
  /\ child[t] = "waiting_approval" /\ parent = "waiting_child" /\ resumer.pc = "idle"
  /\ graph = "lost" \/ (tool[t] = "suspended" /\ graph \in {"registering", "parked"})

\* How far the resumption is, and with it child and parent.
ResumerAgrees ==
  LET t == resumer.call IN resumer.pc # "idle" =>
    /\ t \in ToolCall /\ tool[t] = "suspended" /\ graph = "parked" /\ up
    /\ \/ resumer.pc \in {"queue_child", "ask"} /\ child[t] = "waiting_approval" /\ parent = "waiting_child"
       \/ resumer.pc = "run_child" /\ child[t] = "queued" /\ parent = "waiting_child"
       \/ resumer.pc = "child" /\ child[t] = "running" /\ parent = "waiting_child"
       \/ resumer.pc = "fail_parent" /\ child[t] = "failed" /\ parent = "waiting_child"
       \/ /\ resumer.pc = "queue_parent" /\ parent = "waiting_child"
          /\ child[t] \in {"succeeded", "exhausted"}
       \/ /\ resumer.pc = "run_parent" /\ parent = "queued"
          /\ child[t] \in {"succeeded", "exhausted"}
       \/ /\ resumer.pc = "start_task" /\ parent = "running"
          /\ child[t] \in {"succeeded", "exhausted"}

\* One call at a time has the parent wait.
OneWaits == \A s, t \in ToolCall : tool[s] \in WaitStates /\ tool[t] \in WaitStates => s = t

ParentAgrees ==
  /\ parent = "waiting_child" /\ crashes = 0 => \E t \in ToolCall :
       \/ tool[t] \in {"agent", "suspended", "queue_parent"}
       \/ tool[t] = "abandoned" /\ child[t] \in ActiveStates
  /\ parent \in FinalStates => graph = "over"

DelegationInv ==
  /\ DelegationTypes /\ ResumerAgrees /\ OneWaits /\ ParentAgrees
  /\ \A t \in ToolCall : CallAgrees(t) /\ SuspendedAgrees(t) /\ RequestAgrees(t)

\* A step of one call, while the graph runs.
LEMMA CallMoves ==
  ASSUME DelegationInv, graph = "model", up, UNCHANGED <<request, graph, resumer, up, crashes>>,
         NEW t \in ToolCall,
         NEW c \in ChildState, child' = [child EXCEPT ![t] = c],
         NEW w \in Told \cup Dispatching \cup {"agent", "suspended"}, tool' = [tool EXCEPT ![t] = w],
         started' \in [ToolCall -> Nat], \A s \in ToolCall : s # t => started'[s] = started[s],
         parent' \in ParentState,
         parent' = parent \/ tool[t] \in WaitStates \/ parent = "running",
         w \in WaitStates => tool[t] \in WaitStates \/ parent = "running",
         CallAgrees(t)', SuspendedAgrees(t)', ParentAgrees'
  PROVE  DelegationInv'
<1> USE DEF DelegationInv
<1>1. /\ child'[t] = c /\ tool'[t] = w
      /\ \A s \in ToolCall : s # t => child'[s] = child[s] /\ tool'[s] = tool[s]
  BY DEF DelegationTypes
<1>2. /\ DelegationTypes' /\ resumer.pc = "idle"
      /\ \A s \in ToolCall : request[s] # "pending"
  BY DEF DelegationTypes, ResumerAgrees, RequestAgrees
<1>3. ResumerAgrees' /\ \A s \in ToolCall : RequestAgrees(s)'
  BY <1>2 DEF ResumerAgrees, RequestAgrees
<1>4. \A s \in ToolCall : tool[s] \in WaitStates => parent # "running"
  BY <1>2 DEF CallAgrees, SuspendedAgrees, WaitStates
<1>5. OneWaits'
  BY <1>1, <1>4 DEF OneWaits
<1>6. ASSUME NEW s \in ToolCall, s # t PROVE CallAgrees(s)' /\ SuspendedAgrees(s)'
  <2>1. tool[s] \in WaitStates => parent' = parent
    BY <1>4, <1>6 DEF OneWaits
  <2> QED  BY <1>1, <1>6, <2>1 DEF CallAgrees, SuspendedAgrees, WaitStates
<1> QED  BY <1>2, <1>3, <1>5, <1>6

\* A step of the resumption that leaves the graph parked.
LEMMA ResumerMoves ==
  ASSUME DelegationInv, resumer.pc # "idle",
         UNCHANGED <<request, graph, tool, started, up, crashes>>,
         NEW c \in ChildState, child' = [child EXCEPT ![resumer.call] = c],
         parent' \in {"waiting_child", "queued", "running"},
         resumer' \in [pc : Resuming \cup {"idle", "child", "ask"}, call : ToolCall \cup {None}],
         ResumerAgrees', resumer'.pc # "idle"
  PROVE  DelegationInv'
<1> USE DEF DelegationInv
<1> DEFINE t == resumer.call
<1>1. t \in ToolCall /\ tool[t] = "suspended" /\ graph = "parked" /\ up
  BY DEF ResumerAgrees
<1> HIDE DEF t
<1>2. /\ child'[t] = c
      /\ \A s \in ToolCall : s # t => child'[s] = child[s] /\ tool[s] # "suspended"
  BY <1>1 DEF DelegationTypes, OneWaits, WaitStates, t
<1>3. DelegationTypes'
  BY DEF DelegationTypes, ParentState
<1>4. ParentAgrees'
  BY <1>1 DEF ParentAgrees, FinalStates
<1>5. \A s \in ToolCall : request[s] # "pending"
  BY DEF RequestAgrees
<1>6. \A s \in ToolCall : RequestAgrees(s)'
  BY <1>5 DEF RequestAgrees
<1>7. \A s \in ToolCall : tool[s] \notin Dispatching \cup {"agent", "again"}
  BY <1>1 DEF CallAgrees
<1>8. \A s \in ToolCall : CallAgrees(s)'
  BY <1>1, <1>2, <1>7 DEF CallAgrees, Dispatching
<1>9. \A s \in ToolCall : SuspendedAgrees(s)'
  BY <1>1 DEF SuspendedAgrees
<1> QED  BY <1>3, <1>4, <1>6, <1>8, <1>9 DEF OneWaits

\* Every commit of a dispatch and its timeout keep what parent and child know of each other.
LEMMA DispatchMoves ==
  ASSUME DelegationInv, NEW t \in ToolCall, DispatchStep(t) \/ TimeOut(t)
  PROVE  DelegationInv'
<1> USE DEF DelegationInv
<1>0. CallAgrees(t) /\ SuspendedAgrees(t) /\ tool[t] \in Told \cup Dispatching \cup {"none", "again", "agent", "suspended"}
      /\ child \in [ToolCall -> ChildState] /\ tool \in [ToolCall -> Told \cup Dispatching \cup {"none", "again", "agent", "suspended"}]
      /\ started \in [ToolCall -> Nat] /\ parent \in ParentState
  BY DEF DelegationTypes
<1>a. \A s \in ToolCall : tool[s] \in {"agent", "suspended", "queue_parent", "abandoned"} /\ s # t => tool[s] \in {"agent", "suspended", "queue_parent", "abandoned"}
  OBVIOUS
<1>1. CASE Dispatch(t)
  <2>1. graph = "model" /\ up /\ UNCHANGED <<parent, request, graph, resumer, up, crashes, started>> /\ tool[t] \in {"again", "none"}
    BY <1>1 DEF Dispatch, LoopIsFree, executions, childRequests
  <2>2. PICK c \in ChildState, w \in {"claim", "result"} :
          /\ child' = [child EXCEPT ![t] = c] /\ tool' = [tool EXCEPT ![t] = w]
          /\ w = "claim" => c = "queued" /\ started[t] = 0
          /\ w = "result" => c \in {"succeeded", "exhausted"}
    <3>1. CASE tool[t] = "none"
      BY <1>0, <1>1, <3>1 DEF Dispatch, Startable, CallAgrees, ChildState
    <3>2. CASE tool[t] = "again"
      <4>1. child[t] \in {"succeeded", "exhausted"} /\ child = [child EXCEPT ![t] = child[t]]
        BY <1>0, <3>2 DEF CallAgrees
      <4>2. tool' = [tool EXCEPT ![t] = "result"] /\ child' = child
        BY <1>1, <4>1 DEF Dispatch, Startable, Replayed
      <4> QED  BY <1>0, <4>1, <4>2
    <3> QED  BY <2>1, <3>1, <3>2
  <2>3. /\ child'[t] = c /\ tool'[t] = w
        /\ \A s \in ToolCall : s # t => child'[s] = child[s] /\ tool'[s] = tool[s]
    BY <1>0, <2>2
  <2>4. ParentAgrees'
    BY <2>1, <2>3 DEF ParentAgrees
  <2>5. CallAgrees(t)' /\ SuspendedAgrees(t)'
    BY <1>0, <2>1, <2>2, <2>3 DEF CallAgrees, SuspendedAgrees, Dispatching
  <2>6. w \in Told \cup Dispatching \cup {"agent", "suspended"} /\ w \notin WaitStates
    BY <2>2 DEF Told, Dispatching, WaitStates
  <2> QED  BY <1>0, <2>1, <2>2, <2>4, <2>5, <2>6, CallMoves
<1>2. CASE Claim(t)
  <2>1. /\ graph = "model" /\ up /\ UNCHANGED <<parent, request, graph, resumer, up, crashes, started>> /\ tool[t] = "claim"
        /\ child' = [child EXCEPT ![t] = "running"] /\ tool' = [tool EXCEPT ![t] = "wait"]
    BY <1>0, <1>2 DEF Claim, executions, childRequests, CallAgrees, Dispatching
  <2>2. /\ child'[t] = "running" /\ tool'[t] = "wait"
        /\ \A s \in ToolCall : s # t => child'[s] = child[s] /\ tool'[s] = tool[s]
    BY <1>0, <2>1
  <2>3. ParentAgrees'
    BY <2>1, <2>2 DEF ParentAgrees
  <2>4. CallAgrees(t)' /\ SuspendedAgrees(t)'
    BY <1>0, <2>1, <2>2 DEF CallAgrees, SuspendedAgrees, Dispatching
  <2>5. "wait" \in Told \cup Dispatching \cup {"agent", "suspended"} /\ "wait" \notin WaitStates /\ "running" \in ChildState
    BY DEF Told, Dispatching, WaitStates, ChildState
  <2> QED  BY <1>0, <2>1, <2>3, <2>4, <2>5, CallMoves
<1>3. CASE WaitForChild(t)
  <2>1. /\ graph = "model" /\ up /\ UNCHANGED <<request, graph, resumer, up, crashes>> /\ tool[t] = "wait"
        /\ child[t] = "running" /\ started[t] = 0
    BY <1>0, <1>3 DEF WaitForChild, childRequests, CallAgrees, Dispatching
  <2>2. CASE parent = "running"
    <3>1. /\ parent' = "waiting_child" /\ tool' = [tool EXCEPT ![t] = "agent"]
          /\ child' = [child EXCEPT ![t] = "running"] /\ started' = [started EXCEPT ![t] = started[t] + 1]
      BY <1>0, <1>3, <2>1, <2>2 DEF WaitForChild
    <3>2. /\ child'[t] = "running" /\ tool'[t] = "agent" /\ started' \in [ToolCall -> Nat] /\ started'[t] = 1
          /\ \A s \in ToolCall : s # t => started'[s] = started[s]
      BY <1>0, <2>1, <3>1
    <3>3. ParentAgrees'
      BY <3>1, <3>2 DEF ParentAgrees, FinalStates
    <3>4. CallAgrees(t)' /\ SuspendedAgrees(t)'
      BY <2>1, <3>1, <3>2 DEF CallAgrees, SuspendedAgrees, Dispatching
    <3>5. "agent" \in Told \cup Dispatching \cup {"agent", "suspended"} /\ "running" \in ChildState /\ "waiting_child" \in ParentState
      BY DEF ChildState, ParentState
    <3> QED  BY <2>1, <2>2, <3>1, <3>2, <3>3, <3>4, <3>5, CallMoves
  <2>3. CASE parent # "running"
    <3>1. /\ parent' = parent /\ started' = started
          /\ child' = [child EXCEPT ![t] = "failed"] /\ tool' = [tool EXCEPT ![t] = "error"]
      BY <1>3, <2>3 DEF WaitForChild
    <3>2. /\ child'[t] = "failed" /\ tool'[t] = "error"
          /\ \A s \in ToolCall : s # t => child'[s] = child[s] /\ tool'[s] = tool[s]
      BY <1>0, <3>1
    <3>3. ParentAgrees'
      BY <2>1, <3>1, <3>2 DEF ParentAgrees
    <3>4. CallAgrees(t)' /\ SuspendedAgrees(t)'
      BY <1>0, <2>1, <3>1, <3>2 DEF CallAgrees, SuspendedAgrees, Dispatching
    <3>5. "error" \in Told \cup Dispatching \cup {"agent", "suspended"} /\ "error" \notin WaitStates /\ "failed" \in ChildState
      BY DEF Told, ChildState, WaitStates
    <3> QED  BY <1>0, <2>1, <3>1, <3>3, <3>4, <3>5, CallMoves
  <2> QED  BY <2>2, <2>3
<1>4. CASE QueueParent(t)
  <2>1. /\ graph = "model" /\ up /\ UNCHANGED <<request, graph, resumer, up, crashes, started, child>> /\ tool[t] = "queue_parent"
        /\ tool' = [tool EXCEPT ![t] = "run_parent"] /\ child[t] \in FinalStates /\ parent' = "queued"
    BY <1>0, <1>4 DEF QueueParent, childRequests, CallAgrees, Dispatching
  <2>2. child' = [child EXCEPT ![t] = child[t]] /\ tool'[t] = "run_parent"
    BY <1>0, <2>1
  <2>3. ParentAgrees' /\ CallAgrees(t)' /\ SuspendedAgrees(t)'
    BY <1>0, <2>1, <2>2 DEF ParentAgrees, FinalStates, CallAgrees, SuspendedAgrees, Dispatching
  <2>4. "run_parent" \in Told \cup Dispatching \cup {"agent", "suspended"} /\ "queue_parent" \in WaitStates /\ "queued" \in ParentState
    BY DEF Dispatching, WaitStates, ParentState
  <2> QED  BY <1>0, <2>1, <2>2, <2>3, <2>4, CallMoves
<1>5. CASE RunParent(t)
  <2> DEFINE w == ToolAnswer(child[t])
  <2>1. /\ graph = "model" /\ up /\ UNCHANGED <<request, graph, resumer, up, crashes, started, child>> /\ tool[t] = "run_parent"
        /\ tool' = [tool EXCEPT ![t] = w] /\ child[t] \in FinalStates /\ parent' = "running"
    BY <1>0, <1>5 DEF RunParent, childRequests, CallAgrees, Dispatching
  <2>2. PICK x \in {"result", "error"} : x = w /\ (x = "error" <=> child[t] = "failed")
    BY DEF ToolAnswer
  <2> HIDE DEF w
  <2>3. child' = [child EXCEPT ![t] = child[t]] /\ tool'[t] = x /\ tool' = [tool EXCEPT ![t] = x]
    BY <1>0, <2>1, <2>2
  <2>4. ParentAgrees' /\ CallAgrees(t)' /\ SuspendedAgrees(t)'
    BY <1>0, <2>1, <2>2, <2>3 DEF ParentAgrees, FinalStates, CallAgrees, SuspendedAgrees, Dispatching
  <2>5. x \in Told \cup Dispatching \cup {"agent", "suspended"} /\ x \notin WaitStates /\ "run_parent" \in WaitStates /\ "running" \in ParentState
    BY <2>2 DEF Told, WaitStates, ParentState
  <2> QED  BY <1>0, <2>1, <2>3, <2>4, <2>5, CallMoves
<1>6. ASSUME NEW state \in ChildState, ChildEnds(t, state) PROVE DelegationInv'
  <2>1. /\ graph = "model" /\ up /\ UNCHANGED <<parent, request, graph, resumer, up, crashes, started>> /\ tool[t] = "agent"
        /\ parent = "waiting_child" /\ state \in FinalStates \cup {"waiting_approval"}
        /\ child' = [child EXCEPT ![t] = state]
    BY <1>0, <1>6 DEF ChildEnds, LoopIsFree, executions, childRequests, CallAgrees
  <2>2. PICK w \in {"queue_parent", "suspended"} :
          tool' = [tool EXCEPT ![t] = w] /\ (w = "queue_parent" <=> state \in FinalStates)
    BY <1>6 DEF ChildEnds, ResumesParent, FinalStates
  <2>3. child'[t] = state /\ tool'[t] = w
    BY <1>0, <2>1, <2>2
  <2>4. ParentAgrees' /\ CallAgrees(t)' /\ SuspendedAgrees(t)'
    BY <1>0, <2>1, <2>2, <2>3 DEF ParentAgrees, FinalStates, CallAgrees, SuspendedAgrees, Dispatching
  <2>5. w \in Told \cup Dispatching \cup {"agent", "suspended"} /\ "agent" \in WaitStates
    BY <2>2 DEF Dispatching, WaitStates
  <2> QED  BY <1>0, <2>1, <2>2, <2>4, <2>5, CallMoves
<1>7. CASE TimeOut(t)
  <2>1. /\ graph = "model" /\ up /\ UNCHANGED <<parent, request, graph, resumer, up, crashes, started, child>> /\ tool[t] = "agent"
        /\ tool' = [tool EXCEPT ![t] = "abandoned"] /\ child[t] = "running"
    BY <1>0, <1>7 DEF TimeOut, LoopIsFree, executions, childRequests, CallAgrees
  <2>2. child' = [child EXCEPT ![t] = child[t]] /\ tool'[t] = "abandoned"
    BY <1>0, <2>1
  <2>3. ParentAgrees' /\ CallAgrees(t)' /\ SuspendedAgrees(t)'
    BY <1>0, <2>1, <2>2 DEF ParentAgrees, FinalStates, ActiveStates, CallAgrees, SuspendedAgrees, Dispatching
  <2>4. "abandoned" \in Told \cup Dispatching \cup {"agent", "suspended"} /\ "abandoned" \notin WaitStates
    BY DEF Told, WaitStates
  <2> QED  BY <1>0, <2>1, <2>2, <2>3, <2>4, CallMoves
<1> QED  BY <1>1, <1>2, <1>3, <1>4, <1>5, <1>6, <1>7 DEF DispatchStep

\* The parent's graph and its end keep the invariant (Return, Raise, Interrupt).
LEMMA GraphMoves ==
  ASSUME DelegationInv, GraphStep
  PROVE  DelegationInv'
<1> USE DEF DelegationInv
<1>1. CASE Return
  <2>1. /\ graph = "model" /\ up /\ AllTold /\ graph' = "over" /\ parent' = Moved(parent, "succeeded", {"running"})
        /\ UNCHANGED <<request, child, tool, resumer, started, up, crashes>>
    BY <1>1 DEF Return, LoopIsFree, childRequests
  <2>2. /\ \A t \in ToolCall : tool[t] \notin Dispatching \cup {"agent", "again", "suspended"} \cup WaitStates
        /\ resumer.pc = "idle" /\ \A t \in ToolCall : request[t] # "pending"
    BY <2>1 DEF AllTold, Told, Dispatching, WaitStates, ResumerAgrees, RequestAgrees
  <2>3. DelegationTypes' /\ ResumerAgrees' /\ OneWaits'
    BY <2>1, <2>2 DEF DelegationTypes, ParentState, Moved, ResumerAgrees, OneWaits
  <2>4. ParentAgrees'
    BY <2>1, <2>2 DEF ParentAgrees, Moved, FinalStates
  <2>5. \A t \in ToolCall : CallAgrees(t)' /\ SuspendedAgrees(t)' /\ RequestAgrees(t)'
    BY <2>1, <2>2 DEF CallAgrees, SuspendedAgrees, RequestAgrees, WaitStates, Dispatching
  <2> QED  BY <2>3, <2>4, <2>5
<1>2. CASE Raise
  <2>1. /\ graph = "model" /\ up /\ graph' = "over" /\ parent' \in {parent, "failed"}
        /\ tool' = [t \in ToolCall |-> IF tool[t] \in {"agent", "suspended", "again"} THEN "abandoned" ELSE tool[t]]
        /\ UNCHANGED <<request, child, resumer, started, up, crashes>>
        /\ \A t \in ToolCall : tool[t] \notin Dispatching
    BY <1>2 DEF Raise, LoopIsFree, childRequests, Moved
  <2>2. /\ \A t \in ToolCall : tool'[t] \in Told \cup {"none"}
        /\ resumer.pc = "idle" /\ \A t \in ToolCall : request[t] # "pending"
    BY <2>1 DEF DelegationTypes, Told, ResumerAgrees, RequestAgrees
  <2>3. DelegationTypes' /\ ResumerAgrees' /\ OneWaits'
    BY <2>1, <2>2 DEF DelegationTypes, ParentState, Told, ResumerAgrees, OneWaits, WaitStates
  <2>4. ParentAgrees'
    BY <2>1, <2>2 DEF ParentAgrees, FinalStates, ActiveStates, CallAgrees, SuspendedAgrees, Dispatching
  <2>5. \A t \in ToolCall : CallAgrees(t)' /\ SuspendedAgrees(t)' /\ RequestAgrees(t)'
    BY <2>1, <2>2 DEF CallAgrees, SuspendedAgrees, RequestAgrees, Told, Dispatching
  <2> QED  BY <2>3, <2>4, <2>5
<1>3. ASSUME NEW t \in ToolCall, Interrupt(t) PROVE DelegationInv'
  <2>1. /\ graph = "model" /\ up /\ graph' = "registering" /\ tool[t] = "suspended"
        /\ \A s \in ToolCall \ {t} : tool[s] \in Told \cup {"none"}
        /\ request' = [request EXCEPT ![t] = "pending"]
        /\ UNCHANGED <<parent, child, tool, resumer, started, up, crashes>>
    BY <1>3 DEF Interrupt, LoopIsFree, executions
  <2>2. /\ child[t] = "waiting_approval" /\ parent = "waiting_child" /\ resumer.pc = "idle"
        /\ \A s \in ToolCall : request[s] # "pending"
    BY <2>1 DEF SuspendedAgrees, ResumerAgrees, RequestAgrees
  <2>3. \A s \in ToolCall : request'[s] = "pending" => s = t
    BY <2>1, <2>2 DEF DelegationTypes
  <2>4. \A s \in ToolCall : tool[s] \notin Dispatching \cup {"agent", "again"} /\ (tool[s] = "suspended" => s = t)
    BY <2>1 DEF Told, Dispatching
  <2>5. DelegationTypes' /\ ResumerAgrees' /\ OneWaits' /\ ParentAgrees'
    BY <2>1, <2>2 DEF DelegationTypes, ResumerAgrees, OneWaits, ParentAgrees, FinalStates
  <2>6. \A s \in ToolCall : CallAgrees(s)' /\ SuspendedAgrees(s)' /\ RequestAgrees(s)'
    BY <2>1, <2>2, <2>3, <2>4 DEF CallAgrees, SuspendedAgrees, RequestAgrees, Dispatching
  <2> QED  BY <2>5, <2>6
<1>4. CASE Park
  <2>1. /\ graph = "registering" /\ up /\ graph' = "parked" /\ parent' = Moved(parent, "waiting_approval", {"running"})
        /\ UNCHANGED <<request, child, tool, resumer, started, up, crashes>>
    BY <1>4 DEF Park, childRequests
  <2>2. /\ resumer.pc = "idle"
        /\ \A s \in ToolCall : tool[s] \notin Dispatching \cup {"agent", "again"}
        /\ \A s \in ToolCall : tool[s] = "suspended" => parent = "waiting_child" /\ child[s] = "waiting_approval"
        /\ \A s \in ToolCall : request[s] = "pending" => tool[s] = "suspended" /\ parent = "waiting_child"
    BY <2>1 DEF ResumerAgrees, CallAgrees, SuspendedAgrees, RequestAgrees
  <2>3. /\ parent' \in ParentState /\ (parent' = "waiting_child" <=> parent = "waiting_child")
        /\ parent' \notin FinalStates
    BY <2>1 DEF Moved, DelegationTypes, ParentState, ParentAgrees, FinalStates
  <2>4. DelegationTypes' /\ ResumerAgrees' /\ OneWaits' /\ ParentAgrees'
    BY <2>1, <2>2, <2>3 DEF DelegationTypes, ResumerAgrees, OneWaits, ParentAgrees
  <2>5. \A s \in ToolCall : CallAgrees(s)'
    BY <2>1, <2>2 DEF CallAgrees, Dispatching
  <2>6. \A s \in ToolCall : SuspendedAgrees(s)' /\ RequestAgrees(s)'
    BY <2>1, <2>2, <2>3 DEF SuspendedAgrees, RequestAgrees
  <2> QED  BY <2>4, <2>5, <2>6
<1> QED  BY <1>1, <1>2, <1>3, <1>4 DEF GraphStep

\* A decision about a child's request keeps the invariant, whatever the answer.
LEMMA DecisionMoves ==
  ASSUME DelegationInv, NEW t \in ToolCall, NEW answer \in {"approved", "rejected", "expired"}, DecideChild(t, answer)
  PROVE  DelegationInv'
<1> USE DEF DelegationInv
<1>1. /\ graph = "parked" /\ up /\ request[t] = "pending" /\ request' = [request EXCEPT ![t] = answer]
      /\ resumer' = IF answer = "expired" THEN NoResumer ELSE [pc |-> "queue_child", call |-> t]
      /\ UNCHANGED <<parent, child, graph, tool, started, up, crashes>>
  BY DEF DecideChild, LoopIsFree, executions
<1>2. /\ child[t] = "waiting_approval" /\ parent = "waiting_child" /\ resumer.pc = "idle" /\ tool[t] = "suspended"
  BY <1>1 DEF RequestAgrees
<1>3. \A s \in ToolCall : tool[s] = "suspended" => s = t
  BY <1>2 DEF OneWaits, WaitStates
<1>4. \A s \in ToolCall : request'[s] # "pending"
  <2>1. \A s \in ToolCall : s # t => request'[s] = request[s] /\ request[s] # "pending"
    BY <1>1, <1>3 DEF DelegationTypes, RequestAgrees
  <2>2. request'[t] = answer  BY <1>1 DEF DelegationTypes
  <2> QED  BY <2>1, <2>2
<1>5. DelegationTypes' /\ ResumerAgrees' /\ OneWaits' /\ ParentAgrees'
  BY <1>1, <1>2 DEF DelegationTypes, ResumerAgrees, OneWaits, ParentAgrees, NoResumer, Resuming
<1>6. \A s \in ToolCall : CallAgrees(s)' /\ SuspendedAgrees(s)' /\ RequestAgrees(s)'
  BY <1>1, <1>2, <1>3, <1>4 DEF CallAgrees, SuspendedAgrees, RequestAgrees
<1> QED  BY <1>5, <1>6

\* Every commit of a resumed child and of its parent's queueing keeps the invariant.
LEMMA ResumptionMoves ==
  ASSUME DelegationInv, ResumeStep
  PROVE  DelegationInv'
<1> USE DEF DelegationInv
<1> DEFINE t == resumer.call
<1>a. resumer.pc # "idle" => t \in ToolCall /\ child[t] \in ChildState /\ tool[t] = "suspended" /\ graph = "parked" /\ up
  BY DEF ResumerAgrees, DelegationTypes
<1>b. /\ child \in [ToolCall -> ChildState] /\ resumer \in [pc : Resuming \cup {"idle", "child", "ask"}, call : ToolCall \cup {None}]
      /\ \A pc : [resumer EXCEPT !.pc = pc].pc = pc /\ [resumer EXCEPT !.pc = pc].call = t
      /\ \A pc \in Resuming \cup {"idle", "child", "ask"} :
           [resumer EXCEPT !.pc = pc] \in [pc : Resuming \cup {"idle", "child", "ask"}, call : ToolCall \cup {None}]
  BY DEF DelegationTypes
<1>1. CASE QueueChild
  <2>1. /\ resumer.pc = "queue_child" /\ child[t] = "waiting_approval" /\ parent = "waiting_child"
        /\ child' = [child EXCEPT ![resumer.call] = "queued"] /\ resumer' = [resumer EXCEPT !.pc = "run_child"]
        /\ UNCHANGED <<parent, request, graph, tool, started, up, crashes>>
    BY <1>a, <1>1 DEF QueueChild, ResumeTo, executions, childRequests, ResumerAgrees, Moved
  <2>2. child'[t] = "queued" /\ "run_child" \in Resuming \cup {"idle", "child", "ask"} /\ "queued" \in ChildState
    BY <1>a, <1>b, <2>1 DEF Resuming, ChildState
  <2>3. ResumerAgrees'
    BY <1>a, <1>b, <2>1, <2>2 DEF ResumerAgrees
  <2> QED  BY <1>b, <2>1, <2>2, <2>3, ResumerMoves
<1>2. CASE RunChild
  <2>1. /\ resumer.pc = "run_child" /\ child[t] = "queued" /\ parent = "waiting_child"
        /\ child' = [child EXCEPT ![resumer.call] = "running"] /\ resumer' = [resumer EXCEPT !.pc = "child"]
        /\ UNCHANGED <<parent, request, graph, tool, started, up, crashes>>
    BY <1>a, <1>2 DEF RunChild, ResumeTo, executions, childRequests, ResumerAgrees, Moved
  <2>2. child'[t] = "running" /\ "child" \in Resuming \cup {"idle", "child", "ask"} /\ "running" \in ChildState
    BY <1>a, <1>b, <2>1 DEF Resuming, ChildState
  <2>3. ResumerAgrees'
    BY <1>a, <1>b, <2>1, <2>2 DEF ResumerAgrees
  <2> QED  BY <1>b, <2>1, <2>2, <2>3, ResumerMoves
<1>3. ASSUME NEW state \in ChildState, ResumedChildEnds(state) PROVE DelegationInv'
  <2>1. /\ resumer.pc = "child" /\ parent = "waiting_child"
        /\ child' = [child EXCEPT ![resumer.call] = state]
        /\ UNCHANGED <<parent, request, graph, tool, started, up, crashes>>
    BY <1>a, <1>3 DEF ResumedChildEnds, executions, childRequests, ResumerAgrees
  <2>2. PICK pc \in {"queue_parent", "ask"} :
          /\ resumer' = [resumer EXCEPT !.pc = pc]
          /\ pc = "queue_parent" => state \in {"succeeded", "exhausted"}
          /\ pc = "ask" => state = "waiting_approval"
    BY <1>3 DEF ResumedChildEnds, ResumeTo
  <2>3. child'[t] = state /\ pc \in Resuming \cup {"idle", "child", "ask"}
    BY <1>a, <1>b, <2>1, <2>2 DEF Resuming
  <2>4. ResumerAgrees'
    BY <1>a, <1>b, <2>1, <2>2, <2>3 DEF ResumerAgrees
  <2> QED  BY <1>b, <2>1, <2>2, <2>3, <2>4, ResumerMoves
<1>4. CASE AskAgain
  <2>1. /\ resumer.pc = "ask" /\ child[t] = "waiting_approval" /\ parent = "waiting_child"
        /\ request' = [request EXCEPT ![t] = "pending"] /\ resumer' = NoResumer
        /\ UNCHANGED <<parent, child, graph, tool, started, up, crashes>>
    BY <1>a, <1>4 DEF AskAgain, executions, ResumerAgrees
  <2>2. t \in ToolCall /\ tool[t] = "suspended" /\ graph = "parked" /\ up  BY <1>a, <2>1
  <2>3. PICK r \in ToolCall : r = t  BY <2>2
  <2> HIDE DEF t
  <2>4. \A s \in ToolCall : (request'[s] = "pending" => s = r) /\ (tool[s] = "suspended" => s = r)
    BY <2>1, <2>2, <2>3 DEF DelegationTypes, RequestAgrees, OneWaits, WaitStates
  <2>5. DelegationTypes' /\ ResumerAgrees' /\ OneWaits' /\ ParentAgrees'
    BY <2>1, <2>2 DEF DelegationTypes, ResumerAgrees, OneWaits, ParentAgrees, NoResumer
  <2>6. \A s \in ToolCall : CallAgrees(s)' /\ SuspendedAgrees(s)' /\ RequestAgrees(s)'
    BY <2>1, <2>2, <2>3, <2>4 DEF CallAgrees, SuspendedAgrees, RequestAgrees, NoResumer
  <2> QED  BY <2>5, <2>6
<1>5. CASE ResumedChildRaises
  <2>1. /\ resumer.pc = "child" /\ parent = "waiting_child"
        /\ child' = [child EXCEPT ![resumer.call] = "failed"] /\ resumer' = [resumer EXCEPT !.pc = "fail_parent"]
        /\ UNCHANGED <<parent, request, graph, tool, started, up, crashes>>
    BY <1>a, <1>5 DEF ResumedChildRaises, ResumeTo, executions, childRequests, ResumerAgrees
  <2>2. child'[t] = "failed" /\ "fail_parent" \in Resuming \cup {"idle", "child", "ask"} /\ "failed" \in ChildState
    BY <1>a, <1>b, <2>1 DEF Resuming, ChildState
  <2>3. ResumerAgrees'
    BY <1>a, <1>b, <2>1, <2>2 DEF ResumerAgrees
  <2> QED  BY <1>b, <2>1, <2>2, <2>3, ResumerMoves
<1>6. CASE FailParent
  <2>1. /\ resumer.pc = "fail_parent" /\ child[t] = "failed" /\ parent' = "failed"
        /\ resumer' = NoResumer /\ graph' = "over"
        /\ UNCHANGED <<child, request, tool, started, up, crashes>>
    BY <1>a, <1>6 DEF FailParent, childRequests, ResumerAgrees, Moved, Waiting
  <2>2. t \in ToolCall /\ tool[t] = "suspended" /\ graph = "parked" /\ up  BY <1>a, <2>1
  <2>3. PICK r \in ToolCall : r = t  BY <2>2
  <2> HIDE DEF t
  <2>4. \A s \in ToolCall : /\ request[s] # "pending" /\ (tool[s] = "suspended" => s = r)
                            /\ tool[s] \notin Dispatching \cup {"agent", "again"}
    BY <2>1, <2>2, <2>3 DEF RequestAgrees, OneWaits, WaitStates, CallAgrees
  <2>5. DelegationTypes' /\ ResumerAgrees' /\ OneWaits' /\ ParentAgrees'
    BY <2>1, <2>2 DEF DelegationTypes, ResumerAgrees, OneWaits, ParentAgrees, NoResumer, ParentState
  <2>6. \A s \in ToolCall : CallAgrees(s)' /\ SuspendedAgrees(s)' /\ RequestAgrees(s)'
    BY <2>1, <2>2, <2>3, <2>4 DEF CallAgrees, SuspendedAgrees, RequestAgrees, Dispatching
  <2> QED  BY <2>5, <2>6
<1>7. CASE RequeueParent
  <2>1. /\ resumer.pc = "queue_parent" /\ parent' = "queued" /\ child[t] \in {"succeeded", "exhausted"}
        /\ resumer' = [resumer EXCEPT !.pc = "run_parent"]
        /\ UNCHANGED <<child, request, graph, tool, started, up, crashes>>
    BY <1>a, <1>7 DEF RequeueParent, ResumeTo, childRequests, ResumerAgrees
  <2>2. child' = [child EXCEPT ![resumer.call] = child[t]] /\ "run_parent" \in Resuming \cup {"idle", "child", "ask"} /\ child[t] \in ChildState
    BY <1>a, <1>b, <2>1 DEF Resuming
  <2>3. ResumerAgrees'
    BY <1>a, <1>b, <2>1 DEF ResumerAgrees
  <2> QED  BY <1>b, <2>1, <2>2, <2>3, ResumerMoves
<1>8. CASE RerunParent
  <2>1. /\ resumer.pc = "run_parent" /\ parent' = "running" /\ child[t] \in {"succeeded", "exhausted"}
        /\ resumer' = [resumer EXCEPT !.pc = "start_task"]
        /\ UNCHANGED <<child, request, graph, tool, started, up, crashes>>
    BY <1>a, <1>8 DEF RerunParent, ResumeTo, childRequests, ResumerAgrees
  <2>2. child' = [child EXCEPT ![resumer.call] = child[t]] /\ "start_task" \in Resuming \cup {"idle", "child", "ask"} /\ child[t] \in ChildState
    BY <1>a, <1>b, <2>1 DEF Resuming
  <2>3. ResumerAgrees'
    BY <1>a, <1>b, <2>1 DEF ResumerAgrees
  <2> QED  BY <1>b, <2>1, <2>2, <2>3, ResumerMoves
<1>9. CASE ResumeGraph
  <2>1. /\ resumer.pc = "start_task" /\ parent = "running" /\ child[t] \in {"succeeded", "exhausted"}
        /\ tool' = [tool EXCEPT ![t] = "again"] /\ resumer' = NoResumer /\ graph' = "model"
        /\ UNCHANGED <<parent, child, request, started, up, crashes>>
    BY <1>a, <1>9 DEF ResumeGraph, childRequests, ResumerAgrees
  <2>2. t \in ToolCall /\ tool[t] = "suspended" /\ graph = "parked" /\ up  BY <1>a, <2>1
  <2>3. PICK r \in ToolCall : r = t  BY <2>2
  <2> HIDE DEF t
  <2>4. \A s \in ToolCall : /\ request[s] # "pending" /\ (tool[s] = "suspended" => s = r)
                            /\ tool[s] \notin Dispatching \cup {"agent", "again"}
    BY <2>1, <2>2, <2>3 DEF RequestAgrees, OneWaits, WaitStates, CallAgrees
  <2>5. tool'[r] = "again" /\ \A s \in ToolCall : s # r => tool'[s] = tool[s]
    BY <2>1, <2>3 DEF DelegationTypes
  <2>6. DelegationTypes' /\ ResumerAgrees' /\ OneWaits' /\ ParentAgrees'
    BY <2>1, <2>2, <2>4, <2>5 DEF DelegationTypes, ResumerAgrees, OneWaits, ParentAgrees, NoResumer, WaitStates, Dispatching, FinalStates
  <2>7. \A s \in ToolCall : CallAgrees(s)' /\ SuspendedAgrees(s)' /\ RequestAgrees(s)'
    BY <2>1, <2>2, <2>3, <2>4, <2>5 DEF CallAgrees, SuspendedAgrees, RequestAgrees, Dispatching
  <2> QED  BY <2>6, <2>7
<1> QED  BY <1>1, <1>2, <1>3, <1>4, <1>5, <1>6, <1>7, <1>8, <1>9 DEF ResumeStep

\* The process's end, its start with the recovery of runs, and a run begun again keep the invariant.
LEMMA ProcessMoves ==
  ASSUME DelegationInv, KillDelegation \/ RestartDelegation \/ RunAgain
  PROVE  DelegationInv'
<1> USE DEF DelegationInv
<1>1. CASE KillDelegation
  <2>1. /\ up' = FALSE /\ crashes' = crashes + 1 /\ resumer' = NoResumer
        /\ graph' = IF graph \in {"model", "registering"} THEN "lost" ELSE graph
        /\ tool' = [t \in ToolCall |-> IF tool[t] \in Told \cup {"none"} THEN tool[t]
                                 ELSE IF graph = "parked" THEN tool[t] ELSE "lost"]
        /\ UNCHANGED <<parent, child, request, started>>
    BY <1>1 DEF KillDelegation, executions, childRequests
  <2>2. crashes' \in Nat /\ crashes' # 0 /\ resumer'.pc = "idle"
    BY <2>1 DEF DelegationTypes, NoResumer
  <2>3. \A t \in ToolCall : /\ tool'[t] \in Told \cup {"none"} => tool'[t] = tool[t] \/ tool'[t] = "lost"
                            /\ tool'[t] \notin Dispatching \cup {"agent", "again"}
                            /\ tool'[t] = "suspended" => tool[t] = "suspended" /\ graph = "parked"
                            /\ tool[t] = "suspended" /\ graph = "parked" => tool'[t] = "suspended"
    BY <2>1 DEF DelegationTypes, CallAgrees, Told, Dispatching
  <2>4. DelegationTypes'
    BY <2>1, <2>2 DEF DelegationTypes, Told, NoResumer
  <2>5. ResumerAgrees' /\ OneWaits' /\ ParentAgrees'
    BY <2>1, <2>2, <2>3 DEF ResumerAgrees, OneWaits, WaitStates, ParentAgrees, Dispatching
  <2>6. \A s \in ToolCall : CallAgrees(s)'
    BY <2>1, <2>2, <2>3 DEF CallAgrees, Dispatching, Told
  <2>7. \A s \in ToolCall : SuspendedAgrees(s)'
    BY <2>1, <2>2, <2>3 DEF SuspendedAgrees
  <2>8. \A s \in ToolCall : RequestAgrees(s)'
    BY <2>1, <2>2, <2>3 DEF RequestAgrees
  <2> QED  BY <2>4, <2>5, <2>6, <2>7, <2>8
<1>2. CASE RestartDelegation
  <2>1. /\ ~up /\ up' = TRUE /\ parent' = Reconciled(parent)
        /\ child' = [t \in ToolCall |-> Reconciled(child[t])]
        /\ UNCHANGED <<request, graph, tool, resumer, started, crashes>>
    BY <1>2 DEF RestartDelegation, childRequests, memory
  <2>2. /\ crashes # 0 /\ resumer.pc = "idle"
        /\ \A t \in ToolCall : tool[t] \notin Dispatching \cup {"agent", "again"}
    BY <2>1 DEF DelegationTypes, ResumerAgrees, CallAgrees
  <2>3. /\ parent' \in ParentState /\ (parent' = parent \/ (parent' = "queued" /\ parent = "running"))
        /\ child' \in [ToolCall -> ChildState]
        /\ \A t \in ToolCall : child'[t] = child[t] \/ (child'[t] = "queued" /\ child[t] = "running")
    <3>1. \A x : Reconciled(x) = IF x = "running" THEN "queued" ELSE x
      BY DEF Reconciled, Moved
    <3>2. \A t \in ToolCall : child'[t] = Reconciled(child[t]) /\ child[t] \in ChildState
      BY <2>1 DEF DelegationTypes
    <3>3. child' \in [ToolCall -> ChildState]
      BY <2>1, <3>1, <3>2 DEF ChildState
    <3> QED  BY <2>1, <3>1, <3>2, <3>3 DEF DelegationTypes, ParentState
  <2>4. DelegationTypes' /\ ResumerAgrees' /\ OneWaits' /\ ParentAgrees'
    BY <2>1, <2>2, <2>3 DEF DelegationTypes, ResumerAgrees, OneWaits, ParentAgrees, FinalStates
  <2>5. \A s \in ToolCall : CallAgrees(s)'
    BY <2>1, <2>2, <2>3 DEF CallAgrees, Dispatching
  <2>6. \A s \in ToolCall : SuspendedAgrees(s)'
    BY <2>1, <2>2, <2>3 DEF SuspendedAgrees
  <2>7. \A s \in ToolCall : RequestAgrees(s)'
    BY <2>1, <2>2, <2>3 DEF RequestAgrees
  <2> QED  BY <2>4, <2>5, <2>6, <2>7
<1>3. CASE RunAgain
  <2>1. /\ graph = "lost" /\ up
        /\ UNCHANGED <<child, request, tool, resumer, started, up, crashes>>
        /\ \/ parent = "queued" /\ parent' = "running" /\ graph' = "model"
           \/ UNCHANGED <<parent, graph>>
    BY <1>3 DEF RunAgain, LoopIsFree, childRequests
  <2>2. /\ resumer.pc = "idle"
        /\ \A t \in ToolCall : tool[t] \notin WaitStates
        /\ \A t \in ToolCall : request[t] = "pending" => parent = "waiting_child"
    BY <2>1 DEF ResumerAgrees, CallAgrees, SuspendedAgrees, RequestAgrees, WaitStates, Dispatching
  <2>3. DelegationTypes' /\ ResumerAgrees' /\ OneWaits' /\ ParentAgrees'
    BY <2>1, <2>2 DEF DelegationTypes, ParentState, ResumerAgrees, OneWaits, ParentAgrees, FinalStates
  <2>4. \A s \in ToolCall : CallAgrees(s)' /\ SuspendedAgrees(s)' /\ RequestAgrees(s)'
    BY <2>1, <2>2 DEF CallAgrees, SuspendedAgrees, RequestAgrees, WaitStates, Dispatching
  <2> QED  BY <2>3, <2>4
<1> QED  BY <1>1, <1>2, <1>3

\* Every step of the family keeps the invariant.
LEMMA DelegationStep ==
  ASSUME DelegationInv, [DelegationNext]_delegationVars
  PROVE  DelegationInv'
<1>1. CASE UNCHANGED delegationVars
  BY <1>1 DEF delegationVars, executions, childRequests, memory, DelegationInv, DelegationTypes, ResumerAgrees,
     OneWaits, ParentAgrees, CallAgrees, SuspendedAgrees, RequestAgrees
<1> QED  BY <1>1, DispatchMoves, GraphMoves, DecisionMoves, ResumptionMoves, ProcessMoves DEF DelegationNext

\* The invariant holds at the start.
LEMMA DelegationStarts == DelegationInit => DelegationInv
BY DEF DelegationInit, DelegationInv, DelegationTypes, ResumerAgrees, OneWaits, ParentAgrees, CallAgrees,
   SuspendedAgrees, RequestAgrees, NoResumer, ParentState, ChildState, FinalStates, WaitStates, Dispatching, Told

\* The invariant: where a call of a delegate tool is, where its child's run is, what the parent's
\* run waits for and how far a resumption is agree with each other, crashes included
\* (RunCoordinator.dispatch, ControlPlaneApprovalHandler._complete_delegated_resume).
THEOREM DelegationIsInductive == DelegationSpec => []DelegationInv
<1> QED  BY DelegationStarts, DelegationStep, PTL DEF DelegationSpec

\* ToolCallsAnswerOnce: a tool call starts its child's agent at most once, and what the model is
\* told of it is what the child committed, however often the graph is interrupted, its tools are
\* run again and the process dies (dispatcher.py dispatch, _replay).
THEOREM AnswersAreCommitted == DelegationSpec => []ToolCallsAnswerOnce
<1>1. DelegationInv => ToolCallsAnswerOnce
  BY DEF DelegationInv, CallAgrees, ToolCallsAnswerOnce, ChildStartedOnce, AnswerIsCommitted
<1> QED  BY <1>1, DelegationIsInductive, PTL

\* FamilyAgrees: the states of a parent and its children, and the requests that are open, never
\* contradict each other while the process lives (what diagnostics.py looks for).
THEOREM FamiliesAgree == DelegationSpec => []FamilyAgrees
<1>1. ASSUME DelegationInv, LoopIsFree, crashes = 0 PROVE FamilyAgrees
  <2> USE <1>1 DEF DelegationInv
  <2>1. \A t \in ToolCall : tool[t] \in Told \cup Dispatching \cup {"none", "again", "agent", "suspended"}
                            /\ tool[t] \notin Dispatching /\ tool[t] # "lost" /\ resumer.pc \notin Resuming
    BY <1>1 DEF DelegationTypes, LoopIsFree, CallAgrees
  <2>2. resumer.pc # "idle" => /\ parent = "waiting_child" /\ resumer.call \in ToolCall
                               /\ child[resumer.call] \in {"running", "waiting_approval"}
                               /\ tool[resumer.call] = "suspended"
    BY <1>1, <2>1 DEF ResumerAgrees, Resuming, LoopIsFree
  <2>3. \A t \in ToolCall : tool[t] = "suspended" /\ graph # "over" /\ resumer.pc = "idle" =>
                              child[t] = "waiting_approval" /\ parent = "waiting_child"
    BY <1>1 DEF SuspendedAgrees, DelegationTypes
  <2>4. \A t \in ToolCall : tool[t] # "abandoned" /\ child[t] \in ActiveStates => parent = "waiting_child" /\ graph # "over"
    <3>1. ASSUME NEW t \in ToolCall, tool[t] # "abandoned", child[t] \in ActiveStates
          PROVE  parent = "waiting_child" /\ graph # "over"
      <4>1. tool[t] \in {"agent", "suspended"}
        BY <2>1, <3>1 DEF Told, CallAgrees, ActiveStates
      <4>2. CASE tool[t] = "agent"
        BY <4>2 DEF CallAgrees
      <4>3. CASE tool[t] = "suspended"
        BY <2>2, <2>3, <3>1, <4>3 DEF SuspendedAgrees, ActiveStates, ResumerAgrees
      <4> QED  BY <4>1, <4>2, <4>3
    <3> QED  BY <3>1
  <2>5. parent = "waiting_child" => \E t \in ToolCall : child[t] \in ActiveStates
    <3>1. ASSUME parent = "waiting_child" PROVE \E t \in ToolCall : child[t] \in ActiveStates
      <4>1. PICK t \in ToolCall : \/ tool[t] \in {"agent", "suspended", "queue_parent"}
                                  \/ tool[t] = "abandoned" /\ child[t] \in ActiveStates
        BY <1>1, <3>1 DEF ParentAgrees
      <4>2. CASE tool[t] = "agent"  BY <4>2 DEF CallAgrees, ActiveStates
      <4>3. CASE tool[t] = "suspended"
        BY <2>2, <2>3, <3>1, <4>3 DEF ActiveStates, SuspendedAgrees
      <4> QED  BY <2>1, <4>1, <4>2, <4>3 DEF Dispatching
    <3> QED  BY <3>1
  <2>6. \A t \in ToolCall : request[t] = "pending" => child[t] = "waiting_approval"
    BY DEF RequestAgrees
  <2>7. parent \in FinalStates => graph = "over"
    BY DEF ParentAgrees
  <2> QED  BY <2>4, <2>5, <2>6, <2>7 DEF FamilyAgrees, ActiveStates
<1>2. DelegationInv => FamilyAgrees
  BY <1>1 DEF FamilyAgrees
<1> QED  BY <1>2, DelegationIsInductive, PTL

-----------------------------------------------------------------------------
(* Quota.                                                                  *)

\* The units that SumOver counts.
Units(f, S) == UNION {{i} \X (1..f[i]) : i \in S}

\* A unit belongs to one of the terms.
LEMMA UnitsAre ==
  ASSUME NEW f, NEW S, NEW u
  PROVE  u \in Units(f, S) <=> \E i \in S : u \in {i} \X (1..f[i])
BY DEF Units

\* As many numbers as the last one says.
LEMMA OneTo ==
  ASSUME NEW n \in Nat
  PROVE  IsFiniteSet(1..n) /\ Cardinality(1..n) = n
<1>1. IsFiniteSet(1..n) /\ Cardinality(1..n) = IF 1 > n THEN 0 ELSE n - 1 + 1
  BY FS_Interval
<1> QED  BY <1>1

\* A finite sum is a number, and a row more adds its amount.
LEMMA SumIsFinite ==
  ASSUME NEW D, IsFiniteSet(D), NEW f \in [D -> Nat], NEW S \in SUBSET D
  PROVE  IsFiniteSet(Units(f, S)) /\ SumOver(f, S) \in Nat
<1> DEFINE U == {{i} \X (1..f[i]) : i \in S}
<1>1. IsFiniteSet(S)  BY FS_Subset
<1>2. IsFiniteSet(U)
  <2> DEFINE g == [i \in S |-> {i} \X (1..f[i])]
  <2>1. g \in Surjection(S, U)  BY DEF Surjection
  <2> HIDE DEF g, U
  <2> QED  BY <1>1, <2>1, FS_Surjection
<1>3. ASSUME NEW i \in S PROVE IsFiniteSet({i} \X (1..f[i]))
  <2>1. f[i] \in Nat  OBVIOUS
  <2>2. IsFiniteSet({i}) /\ IsFiniteSet(1..f[i])  BY <2>1, FS_Singleton, OneTo
  <2> QED  BY <2>2, FS_Product
<1>4. \A T \in U : IsFiniteSet(T)  BY <1>3
<1>5. IsFiniteSet(UNION U)
  <2> HIDE DEF U
  <2> QED  BY <1>2, <1>4, FS_UNION
<1> QED  BY <1>5, FS_CardinalityType DEF SumOver, Units

\* One more term adds its value to the sum.
LEMMA SumGrows ==
  ASSUME NEW D, IsFiniteSet(D), NEW f \in [D -> Nat], NEW S \in SUBSET D, NEW i \in D \ S
  PROVE  SumOver(f, S \cup {i}) = SumOver(f, S) + f[i]
<1> DEFINE B == {i} \X (1..f[i])
<1>1. f[i] \in Nat  OBVIOUS
<1>2. IsFiniteSet(B) /\ Cardinality(B) = f[i]
  <2>1. IsFiniteSet({i}) /\ Cardinality({i}) = 1  BY FS_Singleton
  <2>2. IsFiniteSet(1..f[i]) /\ Cardinality(1..f[i]) = f[i]  BY <1>1, OneTo
  <2>3. IsFiniteSet(B) /\ Cardinality(B) = 1 * f[i]  BY <2>1, <2>2, FS_Product
  <2> QED  BY <1>1, <2>3
<1>3. IsFiniteSet(Units(f, S)) /\ Cardinality(Units(f, S)) \in Nat  BY SumIsFinite, FS_CardinalityType
<1>4. Units(f, S \cup {i}) = Units(f, S) \cup B  BY DEF Units
<1>5. Units(f, S) \cap B = {}
  <2>1. ASSUME NEW u \in B, NEW j \in S, u \in {j} \X (1..f[j]) PROVE FALSE
    BY <2>1
  <2> QED  BY <2>1 DEF Units
<1> HIDE DEF B
<1>6. Cardinality(Units(f, S) \cup B) = Cardinality(Units(f, S)) + Cardinality(B) - Cardinality({})
  BY <1>2, <1>3, <1>5, FS_Union
<1>7. Cardinality({}) = 0  BY FS_EmptySet
<1>8. Cardinality(Units(f, S) \cup B) = Cardinality(Units(f, S)) + f[i]
  BY <1>1, <1>2, <1>3, <1>6, <1>7
<1> QED  BY <1>4, <1>8 DEF SumOver, Units

\* The rows outside do not matter.
LEMMA SumSame ==
  ASSUME NEW f, NEW g, NEW S, \A i \in S : f[i] = g[i]
  PROVE  SumOver(f, S) = SumOver(g, S)
<1>1. UNION {{i} \X (1..f[i]) : i \in S} = UNION {{i} \X (1..g[i]) : i \in S}  OBVIOUS
<1> QED  BY <1>1 DEF SumOver

\* A part of the terms sums to no more than all of them.
LEMMA SumOfPart ==
  ASSUME NEW D, IsFiniteSet(D), NEW f \in [D -> Nat], NEW S \in SUBSET D, NEW T \in SUBSET S
  PROVE  SumOver(f, T) <= SumOver(f, S)
<1>1. Units(f, T) \subseteq Units(f, S)  BY DEF Units
<1>2. IsFiniteSet(Units(f, S))  BY SumIsFinite
<1>3. Cardinality(Units(f, T)) <= Cardinality(Units(f, S))  BY <1>1, <1>2, FS_Subset
<1> QED  BY <1>3 DEF SumOver, Units

\* A reservation is settled by a run that has ended.
SettledByOne == \A i \in ReservationsIn("settled") : \E s \in Run : ReservationOf[s] = i /\ gateway[s] = "counted"

QuotaInv == QuotaTypeOK /\ BudgetIsKept /\ SettledByOne

Counted == {r \in Run : gateway[r] = "counted"}

\* The columns are amounts.
LEMMA CostsTyped ==
  ASSUME QuotaTypeOK
  PROVE  /\ ReservedCost \in [Reservation -> Nat] /\ ReportedTokens \in [Reservation -> Nat]
         /\ \A i \in Reservation : /\ ReservedCost[i] = reservation[i].reserved
                                   /\ ReportedTokens[i] = reservation[i].tokens
<1>1. \A i \in Reservation : reservation[i].reserved \in Nat /\ reservation[i].tokens \in Nat
  BY DEF QuotaTypeOK, ReservationRow
<1> QED  BY <1>1 DEF ReservedCost, ReportedTokens

CostsAreTyped ==
  ReservedCost \in [Reservation -> Nat] /\ ReportedTokens \in [Reservation -> Nat]

\* Typed reservations have typed costs, in the next state too.
LEMMA CostsTypedNext == QuotaTypeOK' => CostsAreTyped'
<1>1. QuotaTypeOK => CostsAreTyped  BY CostsTyped DEF CostsAreTyped
<1> QED  BY <1>1, PTL

\* The reservations that count, without those that have gone.
LEMMA ReservedShrinks ==
  ASSUME QuotaTypeOK, QuotaTypeOK',
         \A i \in Reservation : reservation'[i].status = "reserved" =>
           reservation[i].status = "reserved" /\ reservation'[i].reserved = reservation[i].reserved
  PROVE  SumOver(ReservedCost', ReservationsIn("reserved")') <= SumOver(ReservedCost, ReservationsIn("reserved"))
<1> DEFINE S == ReservationsIn("reserved")
           T == ReservationsIn("reserved")'
<1>1. T \subseteq S /\ S \subseteq Reservation /\ IsFiniteSet(Reservation)
  BY QuotaAssumption DEF ReservationsIn
<1>2. ReservedCost \in [Reservation -> Nat] /\ \A i \in T : ReservedCost'[i] = ReservedCost[i]
  <2>1. \A i \in T : i \in Reservation /\ reservation'[i].status = "reserved"  BY DEF ReservationsIn
  <2>2. \A i \in Reservation : ReservedCost[i] = reservation[i].reserved /\ ReservedCost'[i] = reservation'[i].reserved
    BY CostsTyped DEF ReservedCost
  <2> QED  BY <2>1, <2>2, CostsTyped
<1> HIDE DEF S, T
<1>3. SumOver(ReservedCost', T) = SumOver(ReservedCost, T)  BY <1>2, SumSame
<1>4. SumOver(ReservedCost, T) <= SumOver(ReservedCost, S)  BY <1>1, <1>2, SumOfPart
<1> QED  BY <1>3, <1>4 DEF S, T

\* A step that settles nothing counts nothing.
LEMMA NothingSettled ==
  ASSUME QuotaInv, QuotaTypeOK', usage' = usage,
         \A i \in Reservation : reservation[i].status = "settled" => reservation'[i] = reservation[i],
         \A i \in Reservation : reservation'[i].status = "settled" => reservation[i].status = "settled",
         \A r \in Run : gateway'[r] = "counted" <=> gateway[r] = "counted",
         \A r \in Run : gateway[r] = "counted" => bill'[r] = bill[r]
  PROVE  UsageIsReported' /\ SettledByOne'
<1> USE DEF QuotaInv
<1> DEFINE S == ReservationsIn("settled")
<1>1. ReservationsIn("settled")' = S  BY DEF ReservationsIn
<1>2. \A i \in S : ReportedTokens'[i] = ReportedTokens[i]
  <2>1. \A i \in S : i \in Reservation /\ reservation'[i] = reservation[i]  BY DEF ReservationsIn
  <2> QED  BY <2>1, CostsTyped, QuotaTypeOK' DEF ReportedTokens
<1> DEFINE C == Counted
<1>3. {r \in Run : gateway'[r] = "counted"} = C /\ \A r \in C : bill'[r] = bill[r]  BY DEF Counted
<1>4. usage.tokens = SumOver(bill, C) /\ usage.tokens = SumOver(ReportedTokens, S)
  BY DEF BudgetIsKept, UsageIsReported, Counted
<1> HIDE DEF S, C
<1>5. SumOver(bill', C) = SumOver(bill, C) /\ SumOver(ReportedTokens', S) = SumOver(ReportedTokens, S)
  BY <1>2, <1>3, SumSame
<1>6. UsageIsReported'  BY <1>1, <1>3, <1>4, <1>5 DEF UsageIsReported
<1>7. SettledByOne'  BY <1>1 DEF SettledByOne, S
<1> QED  BY <1>6, <1>7

\* A run under way stays counted against the limit, if its reservation is freed by no other than
\* its expiry or the end of a run with the same id.
LEMMA StaysReserved ==
  ASSUME QuotaInv, lapsed \subseteq lapsed',
         \A s \in Run : gateway[s] \in {"counted", "uncounted"} => gateway'[s] = gateway[s],
         \A s \in Run : s \in Underway' =>
           \/ s \in Underway
           \/ ReservationOf[s] \in ReservationsIn("reserved")' \cup lapsed' \/ GivenUp(s),
         \A s \in Underway' : ReservationOf[s] \in ReservationsIn("reserved") =>
           ReservationOf[s] \in ReservationsIn("reserved")' \cup lapsed' \/ GivenUp(s)'
  PROVE  InFlightIsReserved'
<1>1. ASSUME NEW s \in Run, GivenUp(s) PROVE GivenUp(s)'  BY <1>1 DEF GivenUp
<1>2. InFlightIsReserved  BY DEF QuotaInv, BudgetIsKept
<1>3. Underway' \subseteq Run  BY DEF Underway
<1> SUFFICES ASSUME NEW s \in Underway'
             PROVE  ReservationOf[s] \in ReservationsIn("reserved")' \cup lapsed' \/ GivenUp(s)'
  BY DEF InFlightIsReserved
<1> QED  BY <1>1, <1>2, <1>3 DEF InFlightIsReserved

\* What is within the limit, said without the set that is excepted.
LEMMA WithinLimitIs ==
  /\ WithinLimit <=> usage.cost + SumOver(ReservedCost, ReservationsIn("reserved")) <= Limit
  /\ WithinLimit' <=> usage'.cost + SumOver(ReservedCost', ReservationsIn("reserved")') <= Limit
<1>1. \A S : S \ {} = S  OBVIOUS
<1>2. WithinLimit <=> usage.cost + SumOver(ReservedCost, ReservationsIn("reserved") \ {}) <= Limit
  BY DEF WithinLimit, Committed
<1>3. WithinLimit' <=> usage'.cost + SumOver(ReservedCost', ReservationsIn("reserved")' \ {}) <= Limit
  BY DEF WithinLimit, Committed
<1> QED  BY <1>1, <1>2, <1>3

\* The sums are numbers.
LEMMA SumsTyped ==
  ASSUME QuotaTypeOK
  PROVE  /\ usage.cost \in Nat /\ Limit \in Nat /\ Estimate \in Nat
         /\ \A S \in SUBSET Reservation : SumOver(ReservedCost, S) \in Nat
         /\ \A word : ReservationsIn(word) \in SUBSET Reservation
<1>1. IsFiniteSet(Reservation) /\ Limit \in Nat /\ Estimate \in Nat  BY QuotaAssumption
<1>2. \A word : ReservationsIn(word) \in SUBSET Reservation  BY DEF ReservationsIn
<1>4. \A S \in SUBSET Reservation : SumOver(ReservedCost, S) \in Nat  BY <1>1, CostsTyped, SumIsFinite
<1> QED  BY <1>1, <1>2, <1>4 DEF QuotaTypeOK

\* A step that reserves and settles nothing keeps the budget, if the runs under way stay counted.
LEMMA NothingTaken ==
  ASSUME QuotaInv, QuotaTypeOK', usage' = usage, InFlightIsReserved',
         \A i \in Reservation : \/ reservation'[i] = reservation[i]
                                \/ reservation[i].status = "reserved" /\ reservation'[i].status = "released",
         \A r \in Run : gateway'[r] = "counted" <=> gateway[r] = "counted",
         \A r \in Run : gateway[r] = "counted" => bill'[r] = bill[r]
  PROVE  QuotaInv'
<1>1. UsageIsReported' /\ SettledByOne'  BY NothingSettled
<1>2. SumOver(ReservedCost', ReservationsIn("reserved")') <= SumOver(ReservedCost, ReservationsIn("reserved"))
  BY ReservedShrinks DEF QuotaInv
<1>3. /\ usage.cost \in Nat /\ Limit \in Nat
      /\ SumOver(ReservedCost, ReservationsIn("reserved")) \in Nat
      /\ SumOver(ReservedCost', ReservationsIn("reserved")') \in Nat
  <2>1. SumOver(ReservedCost', ReservationsIn("reserved")') \in Nat
    <3>1. ReservedCost' \in [Reservation -> Nat]
      BY DEF QuotaTypeOK, ReservationRow, ReservedCost
    <3>2. ReservationsIn("reserved")' \in SUBSET Reservation  BY DEF ReservationsIn
    <3> QED  BY <3>1, <3>2, SumIsFinite, QuotaAssumption
  <2> QED  BY <2>1, SumsTyped DEF QuotaInv
<1>4. WithinLimit'  BY <1>1, <1>2, <1>3, WithinLimitIs DEF QuotaInv, BudgetIsKept
<1> QED  BY <1>1, <1>4 DEF QuotaInv, BudgetIsKept

\* The release of what has expired.
LEMMA ReleasedIs ==
  ASSUME QuotaTypeOK
  PROVE  /\ Released(Expired) \in [Reservation -> ReservationRow]
         /\ \A i \in Reservation :
              /\ i \in Expired => reservation[i].status = "reserved" /\ Released(Expired)[i].status = "released"
              /\ i \notin Expired => Released(Expired)[i] = reservation[i]
<1>1. \A i \in Reservation :
        /\ reservation[i] \in ReservationRow
        /\ [reservation[i] EXCEPT !.status = "released"] \in ReservationRow
        /\ [reservation[i] EXCEPT !.status = "released"].status = "released"
  BY DEF QuotaTypeOK, ReservationRow
<1>2. \A i \in Expired : reservation[i].status = "reserved"  BY DEF Expired, ReservationsIn
<1>3. Released(Expired) =
        [i \in Reservation |-> IF i \in Expired THEN [reservation[i] EXCEPT !.status = "released"] ELSE reservation[i]]
  BY DEF Released
<1> QED  BY <1>1, <1>2, <1>3

\* A new reservation fits into what is left.
LEMMA ReserveNewKeeps ==
  ASSUME QuotaInv, NEW r \in Run, gateway[r] = "idle", ReserveNew(r),
         gateway' = [gateway EXCEPT ![r] = "model"], UNCHANGED <<usage, bill>>
  PROVE  QuotaInv'
<1> USE DEF QuotaInv
<1> DEFINE i == ReservationOf[r]
           row == [status |-> "reserved", reserved |-> Estimate, tokens |-> 0]
           M == ReservationsIn("reserved") \ Expired
<1>1. /\ i \in Reservation /\ reservation[i].status = "absent" /\ lapsed' = lapsed
      /\ usage.cost + SumOver(ReservedCost, M) + Estimate <= Limit
      /\ reservation' = [Released(Expired) EXCEPT ![i] = row]
  BY QuotaAssumption DEF ReserveNew, Fresh, Committed
<1>2. row \in ReservationRow /\ row.status = "reserved" /\ row.reserved = Estimate
  BY QuotaAssumption DEF ReservationRow
<1> HIDE DEF i, row
<1>3. /\ reservation' \in [Reservation -> ReservationRow] /\ reservation'[i] = row
      /\ \A k \in Reservation : k # i =>
           /\ k \in Expired => reservation[k].status = "reserved" /\ reservation'[k].status = "released"
           /\ k \notin Expired => reservation'[k] = reservation[k]
  BY <1>1, <1>2, ReleasedIs
<1>4. gateway' \in [Run -> Pc] /\ \A q \in Run : gateway'[q] = "counted" <=> gateway[q] = "counted"
  BY DEF QuotaTypeOK, Pc
<1>5. QuotaTypeOK'  BY <1>1, <1>3, <1>4 DEF QuotaTypeOK
<1>6. UsageIsReported' /\ SettledByOne'
  <2>1. \A k \in Reservation : reservation[k].status = "settled" => reservation'[k] = reservation[k]
    BY <1>1, <1>3
  <2>2. \A k \in Reservation : reservation'[k].status = "settled" => reservation[k].status = "settled"
    BY <1>1, <1>2, <1>3
  <2>3. \A q \in Run : gateway[q] = "counted" => bill'[q] = bill[q]  OBVIOUS
  <2> QED  BY <1>4, <1>5, <2>1, <2>2, <2>3, NothingSettled
<1>7. ReservationsIn("reserved")' = M \cup {i} /\ i \notin M
  BY <1>1, <1>2, <1>3 DEF ReservationsIn
<1>8. \A k \in M : ReservedCost'[k] = ReservedCost[k]
  <2>1. \A k \in M : k \in Reservation /\ k # i /\ k \notin Expired
    BY <1>1 DEF ReservationsIn
  <2> QED  BY <1>3, <2>1 DEF ReservedCost
<1>9. ReservedCost' \in [Reservation -> Nat] /\ ReservedCost'[i] = Estimate
  BY <1>1, <1>2, <1>3, <1>5 DEF QuotaTypeOK, ReservationRow, ReservedCost
<1>10. M \in SUBSET Reservation /\ IsFiniteSet(Reservation)  BY QuotaAssumption DEF ReservationsIn
<1> HIDE DEF M
<1>11. SumOver(ReservedCost', M \cup {i}) = SumOver(ReservedCost', M) + Estimate
  BY <1>1, <1>7, <1>9, <1>10, SumGrows
<1>12. SumOver(ReservedCost', M) = SumOver(ReservedCost, M)  BY <1>8, SumSame
<1>13. SumOver(ReservedCost, M) \in Nat /\ usage.cost \in Nat /\ Limit \in Nat /\ Estimate \in Nat
  BY <1>10, SumsTyped
<1>14. usage'.cost + SumOver(ReservedCost', ReservationsIn("reserved")') <= Limit
  <2>1. usage'.cost = usage.cost  OBVIOUS
  <2>2. SumOver(ReservedCost', ReservationsIn("reserved")') = SumOver(ReservedCost, M) + Estimate
    BY <1>7, <1>11, <1>12
  <2>3. usage.cost + (SumOver(ReservedCost, M) + Estimate) <= Limit  BY <1>1, <1>13
  <2> QED  BY <2>1, <2>2, <2>3
<1>15. WithinLimit'  BY <1>14, WithinLimitIs
<1>16. InFlightIsReserved'
  <2>1. \A s \in Run : s \in Underway' => s \in Underway \/ ReservationOf[s] \in ReservationsIn("reserved")'
    <3>1. \A s \in Run : s # r => gateway'[s] = gateway[s]  BY DEF QuotaTypeOK
    <3>2. ReservationOf[r] \in ReservationsIn("reserved")'  BY <1>7 DEF i
    <3> QED  BY <3>1, <3>2 DEF Underway
  <2>2. ReservationsIn("reserved") \subseteq ReservationsIn("reserved")' \cup lapsed
    BY <1>7 DEF Expired, M
  <2>3. \A s \in Run : gateway[s] \in {"counted", "uncounted"} => gateway'[s] = gateway[s]
    BY DEF QuotaTypeOK
  <2> QED  BY <1>1, <2>1, <2>2, <2>3, StaysReserved
<1> QED  BY <1>5, <1>6, <1>15, <1>16 DEF BudgetIsKept

\* A renewal, a refusal, a parked run and a resumption take nothing.
LEMMA ReserveAgainKeeps ==
  ASSUME QuotaInv, NEW r \in Run, gateway[r] = "idle", ReserveAgain(r),
         gateway' = [gateway EXCEPT ![r] = "model"], UNCHANGED <<usage, bill>>
  PROVE  QuotaInv'
<1>1. reservation' = Released(Expired) /\ lapsed' = lapsed  BY DEF ReserveAgain
<1>2. /\ reservation' \in [Reservation -> ReservationRow]
      /\ \A i \in Reservation : \/ reservation'[i] = reservation[i]
                                \/ reservation[i].status = "reserved" /\ reservation'[i].status = "released"
  BY <1>1, ReleasedIs DEF QuotaInv
<1>3. gateway' \in [Run -> Pc] /\ \A q \in Run : gateway'[q] = "counted" <=> gateway[q] = "counted"
  BY DEF QuotaInv, QuotaTypeOK, Pc
<1>4. QuotaTypeOK'  BY <1>1, <1>2, <1>3 DEF QuotaInv, QuotaTypeOK
<1>5. \A i \in ReservationsIn("reserved") : i \in ReservationsIn("reserved")' \cup lapsed'
  BY <1>1, ReleasedIs DEF QuotaInv, ReservationsIn, Expired
<1>6. ReservationOf[r] \in ReservationsIn("reserved") \/ GivenUp(r)
  <2>1. CASE reservation[ReservationOf[r]].status = "settled"
    <3>1. ReservationOf[r] \in ReservationsIn("settled")  BY <2>1, QuotaAssumption DEF ReservationsIn
    <3>2. PICK s \in Run : ReservationOf[s] = ReservationOf[r] /\ gateway[s] = "counted"
      BY <3>1 DEF QuotaInv, SettledByOne
    <3>3. s # r  BY <3>2
    <3> QED  BY <3>2, <3>3 DEF GivenUp
  <2> QED  BY <2>1, QuotaAssumption DEF ReserveAgain, ReservationsIn
<1>7. InFlightIsReserved'
  <2>1. \A s \in Run : s # r => gateway'[s] = gateway[s]  BY DEF QuotaInv, QuotaTypeOK
  <2>2. \A s \in Run : s \in Underway' =>
          s \in Underway \/ ReservationOf[s] \in ReservationsIn("reserved")' \cup lapsed' \/ GivenUp(s)
    BY <1>5, <1>6, <2>1 DEF Underway
  <2>3. \A s \in Run : gateway[s] \in {"counted", "uncounted"} => gateway'[s] = gateway[s]
    BY <2>1
  <2> QED  BY <1>1, <1>5, <2>2, <2>3, StaysReserved
<1> QED  BY <1>2, <1>3, <1>4, <1>7, NothingTaken

\* A run moves on without a word to the store.
LEMMA MovesOn ==
  ASSUME QuotaInv, NEW r \in Run, gateway[r] \notin {"counted", "uncounted"}, NEW pc \in Pc \ {"counted"},
         r \in Underway \/ pc \in {"refused", "uncounted"},
         gateway' = [gateway EXCEPT ![r] = pc], UNCHANGED <<usage, reservation, lapsed>>,
         NEW cost \in Nat, bill' = bill \/ bill' = [bill EXCEPT ![r] = cost]
  PROVE  QuotaInv'
<1>1. /\ gateway' \in [Run -> Pc] /\ bill' \in [Run -> Nat]
      /\ \A q \in Run : gateway'[q] = "counted" <=> gateway[q] = "counted"
      /\ \A q \in Run : gateway[q] = "counted" => bill'[q] = bill[q]
  BY DEF QuotaInv, QuotaTypeOK
<1>2. QuotaTypeOK'  BY <1>1 DEF QuotaInv, QuotaTypeOK
<1>3. InFlightIsReserved'
  <2>1. gateway \in [Run -> Pc] /\ \A s \in Run : s # r => gateway'[s] = gateway[s]
    BY DEF QuotaInv, QuotaTypeOK
  <2>2. \A s \in Run : s \in Underway' => s \in Underway  BY <2>1 DEF Underway
  <2>3. ReservationsIn("reserved")' = ReservationsIn("reserved")  BY DEF ReservationsIn
  <2>4. \A s \in Run : gateway[s] \in {"counted", "uncounted"} => gateway'[s] = gateway[s]  BY <2>1
  <2> QED  BY <2>2, <2>3, <2>4, StaysReserved
<1> QED  BY <1>1, <1>2, <1>3, NothingTaken

\* A run that raises gives its reservation back.
LEMMA RaisesKeeps ==
  ASSUME QuotaInv, NEW r \in Run, NEW cost \in Costs, Raises(r, cost)
  PROVE  QuotaInv'
<1> DEFINE i == ReservationOf[r]
<1>1. /\ i \in Reservation /\ cost \in Nat /\ gateway[r] = "model"
      /\ reservation' = [reservation EXCEPT ![i].status = Freed(@)]
      /\ bill' = [bill EXCEPT ![r] = cost]
      /\ gateway' = [gateway EXCEPT ![r] = "uncounted"]
      /\ usage' = usage /\ lapsed' = lapsed
  BY QuotaAssumption DEF Raises, Charge, ReleaseQuota
<1> HIDE DEF i
<1>2. /\ gateway' \in [Run -> Pc] /\ bill' \in [Run -> Nat]
      /\ \A q \in Run : gateway'[q] = "counted" <=> gateway[q] = "counted"
      /\ \A q \in Run : gateway[q] = "counted" => bill'[q] = bill[q]
  BY <1>1 DEF QuotaInv, QuotaTypeOK, Pc
<1>3. /\ reservation' \in [Reservation -> ReservationRow]
      /\ \A k \in Reservation : \/ reservation'[k] = reservation[k]
                                \/ reservation[k].status = "reserved" /\ reservation'[k].status = "released"
  <2> DEFINE row == [reservation[i] EXCEPT !.status = Freed(reservation[i].status)]
  <2>1. reservation \in [Reservation -> ReservationRow] /\ reservation[i] \in ReservationRow
    BY <1>1 DEF QuotaInv, QuotaTypeOK
  <2>2. row \in ReservationRow /\ (row = reservation[i] \/ (reservation[i].status = "reserved" /\ row.status = "released"))
    BY <2>1 DEF ReservationRow, Freed
  <2>3. reservation' = [reservation EXCEPT ![i] = row]  BY <1>1
  <2> HIDE DEF row
  <2> QED  BY <2>1, <2>2, <2>3
<1>4. QuotaTypeOK'  BY <1>1, <1>2, <1>3 DEF QuotaInv, QuotaTypeOK
<1>5. InFlightIsReserved'
  <2>1. gateway \in [Run -> Pc] /\ gateway'[r] = "uncounted" /\ \A s \in Run : s # r => gateway'[s] = gateway[s]
    BY <1>1 DEF QuotaInv, QuotaTypeOK
  <2>2. Underway' \subseteq Underway \ {r}  BY <1>1, <2>1 DEF Underway
  <2>3. \A k \in Reservation : k # i => reservation'[k] = reservation[k]
    BY <1>1 DEF QuotaInv, QuotaTypeOK
  <2>4. \A s \in Underway' : ReservationOf[s] = i => GivenUp(s)'
    <3>1. \A s \in Underway' : s # r  BY <2>2
    <3> QED  BY <2>1, <3>1 DEF GivenUp, i
  <2>5. \A s \in Underway' : ReservationOf[s] \in ReservationsIn("reserved") =>
          ReservationOf[s] \in ReservationsIn("reserved")' \/ GivenUp(s)'
    BY <2>3, <2>4 DEF ReservationsIn
  <2> QED  BY <1>1, <2>1, <2>2, <2>5, StaysReserved
<1> QED  BY <1>1, <1>2, <1>3, <1>4, <1>5, NothingTaken

\* What is settled was reserved, and what it reports adds to the usage.
LEMMA ReturnsKeeps ==
  ASSUME QuotaInv, NEW r \in Run, NEW cost \in Costs, Returns(r, cost)
  PROVE  QuotaInv'
<1> USE DEF QuotaInv
<1> DEFINE i == ReservationOf[r]
<1>1. /\ i \in Reservation /\ cost \in Nat /\ gateway[r] \in {"model", "resuming"}
      /\ bill' = [bill EXCEPT ![r] = cost] /\ lapsed' = lapsed
  BY QuotaAssumption DEF Returns, Charge
<1>2. CASE ~Unsettled(i)
  <2>1. gateway' = [gateway EXCEPT ![r] = "uncounted"] /\ UNCHANGED <<usage, reservation, lapsed>>
    BY <1>1, <1>2 DEF Returns, Settle
  <2>2. "uncounted" \in Pc \ {"counted"} /\ gateway[r] \notin {"counted", "uncounted"}  BY <1>1 DEF Pc
  <2> QED  BY <1>1, <2>1, <2>2, MovesOn
<1>3. CASE Unsettled(i)
  <2>1. /\ usage' = [cost |-> usage.cost, tokens |-> usage.tokens + cost]
        /\ usage.cost \in Nat /\ usage.tokens \in Nat
        /\ reservation[i].status = "reserved"
        /\ reservation' = [reservation EXCEPT ![i].status = "settled", ![i].tokens = cost]
        /\ gateway' = [gateway EXCEPT ![r] = "counted"]
    <3>1. Reported(cost).cost = 0 /\ Reported(cost).tokens = cost  BY DEF Reported
    <3>2. usage.cost \in Nat /\ usage.tokens \in Nat  BY DEF QuotaTypeOK
    <3>3. usage' = [cost |-> usage.cost + 0, tokens |-> usage.tokens + cost]
      BY <1>1, <1>3, <3>1 DEF Returns, Settle
    <3>4. usage' = [cost |-> usage.cost, tokens |-> usage.tokens + cost]  BY <3>2, <3>3
    <3> QED  BY <1>1, <1>3, <3>1, <3>2, <3>4 DEF Returns, Settle, Unsettled
  <2> DEFINE row == [status |-> "settled", reserved |-> reservation[i].reserved, tokens |-> cost]
             R == ReservationsIn("reserved") \ {i}
             S == ReservationsIn("settled")
             C == {q \in Run : gateway[q] = "counted"}
  <2>2. /\ row \in ReservationRow /\ row.status = "settled" /\ row.tokens = cost
        /\ row.reserved = reservation[i].reserved
    BY <1>1 DEF QuotaTypeOK, ReservationRow
  <2>3. reservation' = [reservation EXCEPT ![i] = row]
    <3> DEFINE old == reservation[i]
               mid == [old EXCEPT !.status = "settled"]
    <3>1. old = [status |-> old.status, reserved |-> old.reserved, tokens |-> old.tokens]
      BY <1>1 DEF QuotaTypeOK, ReservationRow
    <3>2. mid = [status |-> "settled", reserved |-> old.reserved, tokens |-> old.tokens]
      <4> HIDE DEF old
      <4> QED  BY <3>1
    <3>5. row = [status |-> "settled", reserved |-> old.reserved, tokens |-> cost]  OBVIOUS
    <3>6. [mid EXCEPT !.tokens = cost] = row
      <4> HIDE DEF mid, old, row
      <4> QED  BY <3>2, <3>5
    <3>3. reservation' = [[reservation EXCEPT ![i] = mid] EXCEPT ![i] = [@ EXCEPT !.tokens = cost]]
      BY <2>1
    <3>4. [reservation EXCEPT ![i] = mid][i] = mid  BY <1>1 DEF QuotaTypeOK
    <3> HIDE DEF mid, row
    <3> QED  BY <3>3, <3>4, <3>6
  <2> HIDE DEF i, row
  <2>4. /\ reservation' \in [Reservation -> ReservationRow] /\ reservation'[i] = row
        /\ \A k \in Reservation : k # i => reservation'[k] = reservation[k]
    BY <1>1, <2>2, <2>3 DEF QuotaTypeOK
  <2>5. QuotaTypeOK'
    <3>1. gateway' \in [Run -> Pc] /\ bill' \in [Run -> Nat] /\ usage' \in [cost: Nat, tokens: Nat]
      BY <1>1, <2>1 DEF QuotaTypeOK, Pc
    <3> QED  BY <1>1, <2>4, <3>1 DEF QuotaTypeOK
  <2>6. /\ ReservationsIn("reserved") = R \cup {i} /\ i \notin R /\ ReservationsIn("reserved")' = R
        /\ ReservationsIn("settled")' = S \cup {i} /\ i \notin S
        /\ R \in SUBSET Reservation /\ S \in SUBSET Reservation
    BY <1>1, <2>1, <2>2, <2>4 DEF ReservationsIn
  <2>7. /\ {q \in Run : gateway'[q] = "counted"} = C \cup {r} /\ r \notin C /\ C \in SUBSET Run
        /\ \A q \in C : bill'[q] = bill[q]
        /\ bill'[r] = cost
    BY <1>1, <2>1 DEF QuotaTypeOK
  <2>8. /\ ReservedCost \in [Reservation -> Nat] /\ ReservedCost' \in [Reservation -> Nat]
        /\ ReportedTokens' \in [Reservation -> Nat]
        /\ bill' \in [Run -> Nat] /\ IsFiniteSet(Run) /\ IsFiniteSet(Reservation)
    <3>1. CostsAreTyped'  BY <2>5, CostsTypedNext
    <3> QED  BY <2>5, <3>1, CostsTyped, QuotaAssumption DEF QuotaTypeOK, CostsAreTyped
  <2>9. usage'.tokens = SumOver(bill', C \cup {r})
    <3>1. usage.tokens = SumOver(bill, C)  BY DEF BudgetIsKept, UsageIsReported
    <3> HIDE DEF C
    <3>2. SumOver(bill', C) = SumOver(bill, C)  BY <2>7, SumSame
    <3>3. r \in Run \ C  BY <2>7
    <3>4. SumOver(bill', C \cup {r}) = SumOver(bill', C) + bill'[r]  BY <2>7, <2>8, <3>3, SumGrows
    <3> QED  BY <2>1, <2>7, <3>1, <3>2, <3>4
  <2>10. /\ ReportedTokens'[i] = cost /\ \A k \in S : ReportedTokens'[k] = ReportedTokens[k]
         /\ \A k \in R : ReservedCost'[k] = ReservedCost[k]
         /\ ReservedCost[i] = reservation[i].reserved
    <3>1. \A k \in R \cup S : k \in Reservation /\ reservation'[k] = reservation[k]
      BY <2>4, <2>6
    <3>3. ReportedTokens'[i] = cost  BY <1>1, <2>2, <2>4 DEF ReportedTokens
    <3>4. ReservedCost[i] = reservation[i].reserved  BY <1>1 DEF ReservedCost
    <3> HIDE DEF R, S
    <3> QED  BY <3>1, <3>3, <3>4 DEF ReportedTokens, ReservedCost
  <2>11. usage'.tokens = SumOver(ReportedTokens', S \cup {i})
    <3>1. usage.tokens = SumOver(ReportedTokens, S)  BY DEF BudgetIsKept, UsageIsReported
    <3>2. i \in Reservation \ S /\ S \in SUBSET Reservation  BY <1>1, <2>6
    <3> HIDE DEF S
    <3>3. SumOver(ReportedTokens', S) = SumOver(ReportedTokens, S)  BY <2>10, SumSame
    <3>4. SumOver(ReportedTokens', S \cup {i}) = SumOver(ReportedTokens', S) + ReportedTokens'[i]  BY <2>8, <3>2, SumGrows
    <3> QED  BY <2>1, <2>10, <3>1, <3>3, <3>4
  <2>12. UsageIsReported'  BY <2>6, <2>7, <2>9, <2>11 DEF UsageIsReported
  <2>13. SettledByOne' /\ InFlightIsReserved'
    <3>1. gateway \in [Run -> Pc] /\ gateway'[r] = "counted" /\ \A s \in Run : s # r => gateway'[s] = gateway[s]
      BY <2>1 DEF QuotaTypeOK
    <3>2. ReservationOf[r] = i  BY DEF i
    <3>3. SettledByOne'
      <4>1. \A k \in S : \E s \in Run : ReservationOf[s] = k /\ gateway[s] = "counted"  BY DEF SettledByOne
      <4>2. \A k \in S : \E s \in Run : ReservationOf[s] = k /\ gateway'[s] = "counted"
        BY <1>1, <3>1, <4>1
      <4> QED  BY <2>6, <3>1, <3>2, <4>2 DEF SettledByOne
    <3>4. Underway' \subseteq Underway \ {r}  BY <1>1, <3>1 DEF Underway
    <3>5. \A s \in Underway' : ReservationOf[s] = i => GivenUp(s)'
      <4>1. \A s \in Underway' : s # r  BY <3>4
      <4> QED  BY <3>1, <3>2, <4>1 DEF GivenUp
    <3>6. \A s \in Underway' : ReservationOf[s] \in ReservationsIn("reserved") =>
            ReservationOf[s] \in ReservationsIn("reserved")' \/ GivenUp(s)'
      BY <2>6, <3>5
    <3>7. \A s \in Run : gateway[s] \in {"counted", "uncounted"} => gateway'[s] = gateway[s]
      BY <1>1, <3>1
    <3>8. InFlightIsReserved'  BY <1>1, <3>4, <3>6, <3>7, StaysReserved
    <3> QED  BY <3>3, <3>8
  <2>14. /\ SumOver(ReservedCost, R \cup {i}) = SumOver(ReservedCost, R) + reservation[i].reserved
         /\ SumOver(ReservedCost', R) = SumOver(ReservedCost, R)
    <3>1. i \in Reservation \ R /\ R \in SUBSET Reservation  BY <1>1, <2>6
    <3> HIDE DEF R
    <3>2. SumOver(ReservedCost', R) = SumOver(ReservedCost, R)  BY <2>10, SumSame
    <3>3. SumOver(ReservedCost, R \cup {i}) = SumOver(ReservedCost, R) + ReservedCost[i]  BY <2>8, <3>1, SumGrows
    <3> QED  BY <2>10, <3>2, <3>3
  <2>15. /\ usage.cost + SumOver(ReservedCost, R) + reservation[i].reserved <= Limit
         /\ usage.cost \in Nat /\ Limit \in Nat /\ SumOver(ReservedCost, R) \in Nat
         /\ reservation[i].reserved \in Nat
    <3>1. reservation[i].reserved \in Nat  BY <1>1 DEF QuotaTypeOK, ReservationRow
    <3>2. usage.cost + SumOver(ReservedCost, R \cup {i}) <= Limit
      BY <2>6, WithinLimitIs DEF BudgetIsKept
    <3>3. usage.cost \in Nat /\ Limit \in Nat /\ SumOver(ReservedCost, R) \in Nat
      BY <2>6, SumsTyped
    <3> HIDE DEF R
    <3> QED  BY <2>14, <3>1, <3>2, <3>3
  <2>16. WithinLimit'
    <3>1. usage'.cost + SumOver(ReservedCost', R) <= Limit
      <4> HIDE DEF R
      <4> QED  BY <1>1, <2>1, <2>10, <2>14, <2>15
    <3> QED  BY <2>6, <3>1, WithinLimitIs
  <2> QED  BY <2>5, <2>12, <2>13, <2>16 DEF BudgetIsKept
<1> QED  BY <1>2, <1>3

\* Nothing is reserved or spent at the start.
LEMMA QuotaStarts == QuotaInit => QuotaInv
<1> SUFFICES ASSUME QuotaInit PROVE QuotaInv  OBVIOUS
<1>1. QuotaTypeOK  BY DEF QuotaInit, QuotaTypeOK, ReservationRow, Pc
<1>2. \A f : SumOver(f, {}) = 0
  <2>1. \A f : UNION {{i} \X (1..f[i]) : i \in {}} = {}  OBVIOUS
  <2> QED  BY <2>1, FS_EmptySet DEF SumOver
<1>3. ReservationsIn("reserved") = {} /\ ReservationsIn("settled") = {} /\ {r \in Run : gateway[r] = "counted"} = {}
  BY DEF QuotaInit, ReservationsIn
<1>4. usage.cost = 0 /\ usage.tokens = 0  BY DEF QuotaInit
<1>5. UsageIsReported  BY <1>2, <1>3, <1>4 DEF UsageIsReported
<1>7. InFlightIsReserved /\ SettledByOne
  BY <1>3 DEF QuotaInit, InFlightIsReserved, Underway, SettledByOne
<1>6. WithinLimit  BY <1>2, <1>3, <1>4, WithinLimitIs, QuotaAssumption
<1> QED  BY <1>1, <1>5, <1>6, <1>7 DEF QuotaInv, BudgetIsKept

\* Reservations, settlements, the gateway, expiry and restarts keep the invariant.
LEMMA QuotaSteps == QuotaInv /\ [QuotaNext]_quotaVars => QuotaInv'
<1> SUFFICES ASSUME QuotaInv, [QuotaNext]_quotaVars PROVE QuotaInv'  OBVIOUS
<1>1. CASE UNCHANGED quotaVars
  <2>1. /\ reservation' = reservation /\ usage' = usage /\ gateway' = gateway /\ bill' = bill /\ lapsed' = lapsed
    BY <1>1 DEF quotaVars
  <2>2. QuotaTypeOK'  BY <2>1 DEF QuotaInv, QuotaTypeOK
  <2>3. ReservationsIn("reserved")' = ReservationsIn("reserved") /\ Underway' = Underway
    BY <2>1 DEF ReservationsIn, Underway
  <2>4. InFlightIsReserved'  BY <2>1, <2>3, StaysReserved
  <2> QED  BY <2>1, <2>2, <2>4, NothingTaken
<1>2. ASSUME NEW r \in Run, Reserve(r) PROVE QuotaInv'
  BY <1>2, ReserveNewKeeps, ReserveAgainKeeps DEF Reserve
<1>3. ASSUME NEW r \in Run, RefuseRun(r) PROVE QuotaInv'
  <2>1. "refused" \in Pc \ {"counted"} /\ gateway[r] \notin {"counted", "uncounted"}  BY <1>3 DEF Pc, RefuseRun
  <2> QED  BY <1>3, <2>1, MovesOn DEF RefuseRun
<1>4. ASSUME NEW r \in Run, Parks(r) PROVE QuotaInv'
  <2>1. "parked" \in Pc \ {"counted"} /\ gateway[r] \notin {"counted", "uncounted"}  /\ r \in Underway  BY <1>4 DEF Pc, Parks, Underway
  <2> QED  BY <1>4, <2>1, MovesOn DEF Parks
<1>5. ASSUME NEW r \in Run, ResumeRun(r) PROVE QuotaInv'
  <2>1. "resuming" \in Pc \ {"counted"} /\ gateway[r] \notin {"counted", "uncounted"}  /\ r \in Underway  BY <1>5 DEF Pc, ResumeRun, Underway
  <2> QED  BY <1>5, <2>1, MovesOn DEF ResumeRun
<1>6. ASSUME NEW r \in Run, NEW cost \in Costs, Dies(r, cost) PROVE QuotaInv'
  <2>1. "uncounted" \in Pc \ {"counted"} /\ gateway[r] \notin {"counted", "uncounted"} /\ cost \in Nat
    BY <1>6, QuotaAssumption DEF Pc, Dies
  <2> QED  BY <1>6, <2>1, MovesOn DEF Dies, Charge
<1>7. ASSUME NEW i \in Reservation, Lapse(i) PROVE QuotaInv'
  <2>1. /\ reservation' = reservation /\ usage' = usage /\ gateway' = gateway /\ bill' = bill
        /\ lapsed' = lapsed \cup {i}
    BY <1>7 DEF Lapse
  <2>2. QuotaTypeOK'  BY <2>1 DEF QuotaInv, QuotaTypeOK
  <2>3. ReservationsIn("reserved")' = ReservationsIn("reserved") /\ Underway' = Underway
    BY <2>1 DEF ReservationsIn, Underway
  <2>4. InFlightIsReserved'  BY <2>1, <2>3, StaysReserved
  <2> QED  BY <2>1, <2>2, <2>4, NothingTaken
<1> QED  BY <1>1, <1>2, <1>3, <1>4, <1>5, <1>6, <1>7, ReturnsKeeps, RaisesKeeps DEF QuotaNext

\* For every limit, estimate and cost, and any number of runs and reservations: what is recorded and
\* reserved stays within the limit, a run under way is counted against it until its reservation
\* expires or another run with its id ends, and the usage is what the settled runs reported, each
\* once (QuotaStore, ModelGateway).  What the provider charges is not counted.
THEOREM BudgetAlwaysKept == QuotaSpec => []BudgetIsKept
<1>1. QuotaInv => BudgetIsKept  BY DEF QuotaInv
<1> QED  BY <1>1, QuotaStarts, QuotaSteps, PTL DEF QuotaSpec

-----------------------------------------------------------------------------
(* Selection.                                                              *)

\* A set of numbers that is not empty has a least one.
LEMMA LeastNumber ==
  ASSUME NEW S \in SUBSET Nat, S # {}
  PROVE  \E x \in S : \A y \in S : x <= y
<1>1. IsWellFoundedOn(OpToRel(<, Nat), Nat)  BY NatLessThanWellFounded
<1>2. PICK x \in S : \A y \in S : <<y, x>> \notin OpToRel(<, Nat)
  BY <1>1, WFMin
<1>3. \A y \in S : ~(y < x)  BY <1>2 DEF OpToRel
<1>4. \A y \in S : x <= y  BY <1>3
<1> QED  BY <1>4

\* Of two tuples one comes before the other, from the first place where they differ.
LEMMA BelowEither ==
  ASSUME NEW n \in Nat, NEW s \in [1..n -> Int], NEW t \in [1..n -> Int], s # t
  PROVE  Below(s, t) \/ Below(t, s)
<1> DEFINE D == {i \in 1..n : s[i] # t[i]}
<1>1. D \in SUBSET Nat /\ D # {}  OBVIOUS
<1>2. PICK i \in D : \A j \in D : i <= j
  <2> HIDE DEF D
  <2> QED  BY <1>1, LeastNumber
<1>3. \A j \in 1..n : j < i => s[j] = t[j]  BY <1>2
<1>4. s[i] < t[i] \/ t[i] < s[i]  BY <1>2
<1> QED  BY <1>2, <1>3, <1>4 DEF Below

\* The order of scores is transitive.
LEMMA BelowThrough ==
  ASSUME NEW n \in Nat, NEW s \in [1..n -> Int], NEW t \in [1..n -> Int], NEW u \in [1..n -> Int],
         Below(s, t), Below(t, u)
  PROVE  Below(s, u)
<1>1. PICK i \in 1..n : s[i] < t[i] /\ \A k \in 1..n : k < i => s[k] = t[k]  BY DEF Below
<1>2. PICK j \in 1..n : t[j] < u[j] /\ \A k \in 1..n : k < j => t[k] = u[k]  BY DEF Below
<1>3. CASE i <= j
  <2>1. s[i] < u[i] /\ \A k \in 1..n : k < i => s[k] = u[k]  BY <1>1, <1>2, <1>3
  <2> QED  BY <2>1 DEF Below
<1>4. CASE j < i
  <2>1. s[j] < u[j] /\ \A k \in 1..n : k < j => s[k] = u[k]  BY <1>1, <1>2, <1>4
  <2> QED  BY <2>1 DEF Below
<1> QED  BY <1>3, <1>4

\* A finite set has a best element if no two score the same: of a smallest set without one, take
\* any element away; the best of the rest, or that element, is the best of all.
LEMMA BestExists ==
  ASSUME NEW n \in Nat, NEW S, IsFiniteSet(S), S # {}, NEW f \in [S -> [1..n -> Int]],
         \A x, y \in S : f[x] = f[y] => x = y
  PROVE  \E x \in S : \A y \in S \ {x} : Below(f[y], f[x])
<1> DEFINE Headed(T) == \E x \in T : \A y \in T \ {x} : Below(f[y], f[x])
           Headless == {U \in SUBSET S : U # {} /\ ~Headed(U)}
           Sizes == {Cardinality(U) : U \in Headless}
<1> SUFFICES ASSUME ~Headed(S) PROVE FALSE  OBVIOUS
<1>1. \A U \in SUBSET S : IsFiniteSet(U) /\ Cardinality(U) \in Nat  BY FS_Subset, FS_CardinalityType
<1>2. S \in Headless  OBVIOUS
<1>3. PICK T \in Headless : \A U \in Headless : Cardinality(T) <= Cardinality(U)
  <2>1. Sizes \in SUBSET Nat /\ Sizes # {}
    <3> HIDE DEF Headed
    <3> QED  BY <1>1, <1>2
  <2>2. PICK k \in Sizes : \A j \in Sizes : k <= j
    <3> HIDE DEF Sizes
    <3> QED  BY <2>1, LeastNumber
  <2> HIDE DEF Headless
  <2> QED  BY <2>2
<1>4. PICK x \in T : TRUE  BY <1>3
<1> DEFINE R == T \ {x}
<1>5. Cardinality(R) < Cardinality(T)
  <2>1. IsFiniteSet(T) /\ Cardinality(T) \in Nat  BY <1>1, <1>3
  <2>2. Cardinality(R) = Cardinality(T) - 1  BY <1>4, <2>1, FS_RemoveElement
  <2> QED  BY <2>1, <2>2
<1>6. R # {}
  <2>1. R = {} => Headed(T)  BY <1>4
  <2> QED  BY <1>3, <2>1
<1>7. Headed(R)
  <2>1. R \in SUBSET S  BY <1>3
  <2>2. R \notin Headless
    <3>1. ASSUME R \in Headless PROVE FALSE
      <4>1. Cardinality(T) <= Cardinality(R)  BY <1>3, <3>1
      <4>2. Cardinality(T) \in Nat /\ Cardinality(R) \in Nat  BY <1>1, <1>3, <2>1
      <4> HIDE DEF R
      <4> QED  BY <1>5, <4>1, <4>2
    <3> QED  BY <3>1
  <2> HIDE DEF R, Headed
  <2> QED  BY <1>6, <2>1, <2>2
<1>8. PICK h \in R : \A y \in R \ {h} : Below(f[y], f[h])  BY <1>7
<1>9. x # h /\ x \in S /\ h \in S /\ h \in T /\ f[x] # f[h]  BY <1>3, <1>4, <1>8
<1>10. CASE Below(f[x], f[h])
  <2>1. \A y \in T \ {h} : Below(f[y], f[h])  BY <1>8, <1>10
  <2> QED  BY <1>3, <1>9, <2>1
<1>11. CASE Below(f[h], f[x])
  <2>1. ASSUME NEW y \in T \ {x} PROVE Below(f[y], f[x])
    <3>1. y \in S /\ (y = h \/ Below(f[y], f[h]))  BY <1>3, <1>8
    <3>2. f[y] \in [1..n -> Int] /\ f[h] \in [1..n -> Int] /\ f[x] \in [1..n -> Int]  BY <1>9, <3>1
    <3> QED  BY <1>11, <3>1, <3>2, BelowThrough
  <2> QED  BY <1>3, <1>4, <2>1
<1>12. f[x] \in [1..n -> Int] /\ f[h] \in [1..n -> Int]  BY <1>9
<1> QED  BY <1>9, <1>10, <1>11, <1>12, BelowEither

SelectionInv == release \in Release \cup {Nil} /\ message \in Messages \cup {NoMessage}

\* An agent's score ranks a specialist first and ends in the agent's own number.
LEMMA AgentScores ==
  ASSUME NEW m, m.words \in SUBSET Word, release \in Release, NEW a \in Agent, NEW r
  PROVE  /\ AgentScore(a, m, r) \in [1..6 -> Int]
         /\ AgentScore(a, m, r)[1] = One(Specialized(a, m, r)) /\ AgentScore(a, m, r)[6] = a
<1>1. a \in Int /\ CardOf(a).priority \in Int  BY SelectionAssumption DEF CardOf
<1>2. Hits(CardOf(a), m) \in Int
  <2>1. CardOf(a).words \cap m.words \in SUBSET Word  OBVIOUS
  <2>2. Cardinality(CardOf(a).words \cap m.words) \in Nat
    BY <2>1, FS_Subset, FS_CardinalityType, SelectionAssumption
  <2> QED  BY <2>2 DEF Hits
<1>3. One(Specialized(a, m, r)) \in Int /\ One(a \in m.likes \/ a = r.agent) \in Int
      /\ One(ExactFor(CardOf(a), r)) \in Int
  BY DEF One
<1> DEFINE s1 == One(Specialized(a, m, r))
           s2 == One(a \in m.likes \/ a = r.agent)
           s3 == CardOf(a).priority
           s4 == One(ExactFor(CardOf(a), r))
           s5 == Hits(CardOf(a), m)
<1>4. AgentScore(a, m, r) = <<s1, s2, s3, s4, s5, a>>  BY DEF AgentScore
<1>5. s1 \in Int /\ s2 \in Int /\ s3 \in Int /\ s4 \in Int /\ s5 \in Int  BY <1>1, <1>2, <1>3
<1> HIDE DEF s1, s2, s3, s4, s5
<1>6. <<s1, s2, s3, s4, s5, a>> \in [1..6 -> Int]  BY <1>1, <1>5
<1> QED  BY <1>4, <1>6 DEF s1

\* A Skill's score ends in the Skill's own number.
LEMMA SkillScores ==
  ASSUME NEW m, m.words \in SUBSET Word, NEW s \in Skill, NEW r
  PROVE  SkillScore(s, m, r) \in [1..5 -> Int] /\ SkillScore(s, m, r)[5] = s
<1>1. s \in Int /\ SkillCard[s].priority \in Int
  <2>1. Skill \subseteq Nat /\ \A x \in Skill : SkillCard[x].priority \in Int
    BY Zenon, SelectionAssumption
  <2> QED  BY <2>1
<1>2. Hits(SkillCard[s], m) \in Int
  <2>1. SkillCard[s].words \cap m.words \in SUBSET Word  OBVIOUS
  <2>2. Cardinality(SkillCard[s].words \cap m.words) \in Nat
    BY <2>1, FS_Subset, FS_CardinalityType, SelectionAssumption
  <2> QED  BY <2>2 DEF Hits
<1> DEFINE s1 == One(s \in m.likes)
           s2 == SkillCard[s].priority
           s3 == One(ExactFor(SkillCard[s], r))
           s4 == Hits(SkillCard[s], m)
<1>3. SkillScore(s, m, r) = <<s1, s2, s3, s4, s>>  BY DEF SkillScore
<1>4. s1 \in Int /\ s2 \in Int /\ s3 \in Int /\ s4 \in Int  BY <1>1, <1>2 DEF One
<1> HIDE DEF s1, s2, s3, s4
<1>5. <<s1, s2, s3, s4, s>> \in [1..5 -> Int]  BY <1>1, <1>4
<1> QED  BY <1>3, <1>5

\* The router's choice is eligible, and every other one scores less.
LEMMA RoutedIsBest ==
  ASSUME NEW m, m.words \in SUBSET Word, release \in Release, NEW r, Eligible(m, r) # {}
  PROVE  /\ Routed(m, r) \in Eligible(m, r)
         /\ \A y \in Eligible(m, r) \ {Routed(m, r)} :
              Below(AgentScore(y, m, r), AgentScore(Routed(m, r), m, r))
<1> DEFINE S == Eligible(m, r)
           f == [a \in S |-> AgentScore(a, m, r)]
<1>1. S \subseteq Agent /\ IsFiniteSet(S) /\ S # {}  BY FS_Subset, SelectionAssumption DEF Eligible
<1>2. \A a \in S : AgentScore(a, m, r) \in [1..6 -> Int] /\ AgentScore(a, m, r)[6] = a
  BY <1>1, AgentScores
<1>3. f \in [S -> [1..6 -> Int]] /\ \A x, y \in S : f[x] = f[y] => x = y
  <2>1. \A x \in S : f[x][6] = x  BY <1>2
  <2> QED  BY <1>2, <2>1
<1>4. \E x \in S : \A y \in S \ {x} : Below(f[y], f[x])
  <2>1. 6 \in Nat  OBVIOUS
  <2> HIDE DEF f, S
  <2> QED  BY <1>1, <1>3, <2>1, BestExists
<1>5. \E x \in S : \A y \in S \ {x} : Below(AgentScore(y, m, r), AgentScore(x, m, r))  BY <1>4
<1>6. Routed(m, r) = CHOOSE x \in S : \A y \in S \ {x} : Below(AgentScore(y, m, r), AgentScore(x, m, r))
  BY DEF Routed, Best
<1> HIDE DEF S
<1>7. /\ Routed(m, r) \in S
      /\ \A y \in S \ {Routed(m, r)} : Below(AgentScore(y, m, r), AgentScore(Routed(m, r), m, r))
  BY <1>5, <1>6
<1> QED  BY <1>7 DEF S

\* The best of some Skills is one of them.
LEMMA BestSkillIsOne ==
  ASSUME NEW m, m.words \in SUBSET Word, NEW S \in SUBSET Skill, S # {}, NEW r
  PROVE  BestSkill(S, m, r) \in S
<1> DEFINE f == [s \in S |-> SkillScore(s, m, r)]
<1>1. IsFiniteSet(S)  BY FS_Subset, SelectionAssumption
<1>2. \A s \in S : SkillScore(s, m, r) \in [1..5 -> Int] /\ SkillScore(s, m, r)[5] = s
  BY SkillScores
<1>3. f \in [S -> [1..5 -> Int]] /\ \A x, y \in S : f[x] = f[y] => x = y
  <2>1. \A x \in S : f[x][5] = x  BY <1>2
  <2> QED  BY <1>2, <2>1
<1>4. \E x \in S : \A y \in S \ {x} : Below(f[y], f[x])
  <2>1. 5 \in Nat  OBVIOUS
  <2> HIDE DEF f
  <2> QED  BY <1>1, <1>3, <2>1, BestExists
<1>5. \E x \in S : \A y \in S \ {x} : Below(SkillScore(y, m, r), SkillScore(x, m, r))  BY <1>4
<1>6. BestSkill(S, m, r) = CHOOSE x \in S : \A y \in S \ {x} : Below(SkillScore(y, m, r), SkillScore(x, m, r))
  BY DEF BestSkill, Best
<1> QED  BY <1>5, <1>6

\* Whoever is specialized is routed to before who is not.
LEMMA SpecialistsFirst ==
  ASSUME NEW m, m.words \in SUBSET Word, release \in Release, NEW r, NEW a \in Eligible(m, r),
         Specialized(a, m, r)
  PROVE  Specialized(Routed(m, r), m, r)
<1> DEFINE b == Routed(m, r)
           s == AgentScore(a, m, r)
           t == AgentScore(b, m, r)
<1> SUFFICES ASSUME ~Specialized(b, m, r) PROVE FALSE  OBVIOUS
<1>1. b \in Eligible(m, r) /\ \A y \in Eligible(m, r) \ {b} : Below(AgentScore(y, m, r), t)  BY RoutedIsBest
<1>2. a \in Agent /\ b \in Agent /\ a # b  BY <1>1 DEF Eligible
<1>3. Below(s, t)  BY <1>1, <1>2
<1>4. s \in [1..6 -> Int] /\ t \in [1..6 -> Int] /\ s[1] = 1 /\ t[1] = 0
  BY <1>2, AgentScores DEF One
<1> HIDE DEF s, t
<1>5. PICK i \in 1..6 : s[i] < t[i] /\ \A j \in 1..6 : j < i => s[j] = t[j]  BY <1>3, <1>4 DEF Below
<1> QED  BY <1>4, <1>5

\* Of two requests of a message, one without its preferences.
LEMMA LikingsOnlyRank ==
  ASSUME NEW m \in Messages, release \in Release, Eligible(m, Prepared(m)) # {}
  PROVE  LET plain == [m EXCEPT !.likes = {}]
             a == Routed(m, Prepared(m))
         IN /\ a \in Eligible(plain, Prepared(plain))
            /\ CardOf(a).default <=> CardOf(Routed(plain, Prepared(plain))).default
<1> DEFINE plain == [m EXCEPT !.likes = {}]
           r == Prepared(m)
           a == Routed(m, r)
           b == Routed(plain, r)
<1>1. /\ plain.how = m.how /\ plain.user = m.user /\ plain.place = m.place /\ plain.words = m.words
      /\ plain.url = m.url /\ plain.asked = m.asked /\ m.words \in SUBSET Word
  BY DEF Messages
<1> HIDE DEF plain
<1>2. Prepared(plain) = r  BY <1>1 DEF Prepared, Request
<1>3. \A x : Specialized(x, plain, r) <=> Specialized(x, m, r)  BY <1>1 DEF Specialized, Hits
<1>4. Eligible(plain, r) = Eligible(m, r)  BY <1>1 DEF Eligible, MayServe, MatchesRoute, Hits
<1> HIDE DEF r
<1>5. a \in Eligible(m, r) /\ b \in Eligible(m, r)
  <2>1. a \in Eligible(m, r)  BY <1>1, RoutedIsBest DEF r
  <2>2. b \in Eligible(plain, r)  BY <1>1, <1>4, RoutedIsBest DEF r
  <2> QED  BY <1>4, <2>1, <2>2
<1>6. ASSUME r.agent # Nil PROVE CardOf(a).default <=> CardOf(b).default
  <2>1. a = b  BY <1>5, <1>6 DEF Eligible, MatchesRoute
  <2> QED  BY <2>1
<1>7. ASSUME r.agent = Nil PROVE CardOf(a).default <=> CardOf(b).default
  <2>1. \A x \in Eligible(m, r) : CardOf(x).default <=> ~Specialized(x, m, r)
    BY <1>7 DEF Eligible, MatchesRoute, Specialized
  <2>2. Specialized(a, m, r) => Specialized(b, plain, r)
    BY <1>1, <1>3, <1>4, <1>5, SpecialistsFirst
  <2>3. Specialized(b, m, r) => Specialized(a, m, r)
    BY <1>1, <1>5, SpecialistsFirst
  <2>4. Specialized(a, m, r) <=> Specialized(b, m, r)  BY <1>3, <2>2, <2>3
  <2> HIDE DEF a, b
  <2> QED  BY <1>5, <2>1, <2>4
<1> QED  BY <1>2, <1>4, <1>5, <1>6, <1>7 DEF plain, r

\* An answer fits: what the steps that serve a message have to show.
Fits == choice'.outcome = "served" => OverlayFits /\ ToolsStayNarrow /\ PreferencesOnlyRank /\ SkillFollowsTheMessage

\* What an answer changes.
LEMMA ServedIs ==
  ASSUME NEW c, Served(c)
  PROVE  choice' = c /\ message' = NoMessage /\ release' = release /\ deployed' = deployed /\ status' = status
BY DEF Served

\* The answer of the default agent fits.
LEMMA DefaultFits ==
  ASSUME message \in Messages, release \in Release, AnswerByDefault(message)
  PROVE  Fits
<1> SUFFICES ASSUME choice'.outcome = "served"
             PROVE  OverlayFits /\ ToolsStayNarrow /\ PreferencesOnlyRank /\ SkillFollowsTheMessage
  BY DEF Fits
<1>1. message.how # "mention"  BY DEF AnswerByDefault
<1>2. choice' = Chosen(DefaultAgent, Nil, Nil, PackageTools(DefaultAgent))
  BY ServedIs DEF AnswerByDefault, Without, NoChoice
<1>3. choice'.overlay = Nil /\ choice'.skill = Nil /\ choice'.agent = DefaultAgent
      /\ choice'.tools = CardOf(DefaultAgent).tools \cap deployed
  BY <1>2 DEF Chosen, PackageTools
<1>4. OverlayFits  BY <1>1, <1>3 DEF OverlayFits
<1>5. ToolsStayNarrow  BY <1>3 DEF ToolsStayNarrow
<1>6. PreferencesOnlyRank /\ SkillFollowsTheMessage
  BY <1>1, <1>3 DEF PreferencesOnlyRank, SkillFollowsTheMessage
<1> QED  BY <1>4, <1>5, <1>6

\* The answer of the routed agent without a Skill fits.
LEMMA WithoutSkillFits ==
  ASSUME message \in Messages, release \in Release, message.how = "mention",
         Eligible(message, Prepared(message)) # {},
         AnswerWithoutSkill(message, Routed(message, Prepared(message)), Prepared(message))
  PROVE  Fits
<1> DEFINE r == Prepared(message)
           a == Routed(message, r)
<1>1. choice' = Chosen(a, Nil, Nil, PackageTools(a))  BY ServedIs DEF AnswerWithoutSkill
<1>2. Allowed(a) = {} \/ r.skill = Nil  BY DEF AnswerWithoutSkill
<1>3. message.asked # Nil => r.skill # Nil
  <2>1. ASSUME message.asked # Nil PROVE r.skill # Nil
    <3>1. message.asked \in Overlay  BY <2>1 DEF Messages
    <3>2. OverlayCard[message.asked].base \in Skill  BY <3>1, SelectionAssumption
    <3>3. r.skill = OverlayCard[message.asked].base  BY <2>1 DEF Prepared, Request
    <3> QED  BY <3>2, <3>3, SelectionAssumption
  <2> QED  BY <2>1
<1>4. PreferencesOnlyRank
  <2>1. choice'.agent = a  BY <1>1 DEF Chosen
  <2> QED  BY <2>1, LikingsOnlyRank DEF PreferencesOnlyRank
<1> HIDE DEF a, r
<1>5. choice'.overlay = Nil /\ choice'.skill = Nil /\ choice'.agent = a
      /\ choice'.tools = CardOf(a).tools \cap deployed
  BY <1>1 DEF Chosen, PackageTools
<1>6. OverlayFits  BY <1>2, <1>3, <1>5 DEF OverlayFits
<1>7. ToolsStayNarrow  BY <1>5 DEF ToolsStayNarrow
<1>8. SkillFollowsTheMessage  BY <1>5 DEF SkillFollowsTheMessage
<1> QED  BY <1>4, <1>6, <1>7, <1>8 DEF Fits

\* The answer of the routed agent with a Skill and its overlay fits.
LEMMA WithSkillFits ==
  ASSUME message \in Messages, release \in Release, message.how = "mention",
         Eligible(message, Prepared(message)) # {},
         AnswerWithSkill(message, Routed(message, Prepared(message)), Prepared(message))
  PROVE  Fits
<1> DEFINE m == message
           r == Prepared(m)
           a == Routed(m, r)
           S == SkillsFor(a, m, r)
           s == BestSkill(S, m, r)
<1>1. PICK o \in Overlays(m, a, s, r) : Served(Chosen(a, s, o, Effective(s, a)))  BY DEF AnswerWithSkill
<1>2. S # {} /\ Usable(s, a)  BY DEF AnswerWithSkill, Fitting
<1>3. m.words \in SUBSET Word  BY DEF Messages
<1>4. a \in Agent  BY <1>3, RoutedIsBest DEF Eligible
<1>5. PreferencesOnlyRank
  <2>1. choice'.agent = a  BY <1>1, ServedIs DEF Chosen
  <2> QED  BY <2>1, LikingsOnlyRank DEF PreferencesOnlyRank
<1> HIDE DEF a, r
<1>6. Allowed(a) \subseteq Skill  BY <1>4, SelectionAssumption DEF Allowed, CardOf
<1>7. S \in SUBSET Skill  BY <1>6 DEF SkillsFor
<1>8. s \in S
  <2> HIDE DEF S
  <2> QED  BY <1>2, <1>3, <1>7, BestSkillIsOne
<1>9. s # Nil  BY <1>7, <1>8, SelectionAssumption
<1>10. choice'.skill = s /\ choice'.overlay = o /\ choice'.agent = a /\ choice'.tools = Effective(s, a)
       /\ status' = status /\ deployed' = deployed
  BY <1>1, ServedIs DEF Chosen
<1>11. r.skill = s \/ r.intent \in SkillCard[s].intents \/ SkillCard[s].words \cap m.words # {}
  <2>1. Cardinality({}) = 0  BY FS_EmptySet
  <2>2. r.skill # Nil => s = r.skill  BY <1>8 DEF SkillsFor
  <2>3. r.skill = Nil => r.intent \in SkillCard[s].intents \/ Hits(SkillCard[s], m) > 0
    BY <1>8 DEF SkillsFor, Triggered, ActivatingIntent
  <2> HIDE DEF s
  <2> QED  BY <2>1, <2>2, <2>3 DEF Hits
<1> HIDE DEF s, S
<1>12. SkillFollowsTheMessage  BY <1>10, <1>11 DEF SkillFollowsTheMessage, r
<1>13. ToolsStayNarrow
  BY <1>2, <1>10 DEF ToolsStayNarrow, Effective, Usable, SkillTools
<1>14. OverlayFits
  <2>1. CASE m.asked # Nil
    <3>1. o = m.asked /\ MayRun(m, o) /\ Binds(o, a, s)  BY <1>1, <2>1 DEF Overlays
    <3> QED  BY <1>10, <3>1 DEF OverlayFits, MayRun, Binds
  <2>2. CASE m.asked = Nil
    <3>1. o = Nil \/ o \in SelfActivating(m, a, s, r)  BY <1>1, <2>2 DEF Overlays, Foremost
    <3>2. o # Nil => MayRun(m, o) /\ Binds(o, a, s)  BY <3>1 DEF SelfActivating
    <3> QED  BY <1>10, <2>2, <3>2 DEF OverlayFits, MayRun, Binds
  <2> QED  BY <2>1, <2>2
<1> QED  BY <1>5, <1>12, <1>13, <1>14 DEF Fits

\* A message that was received stays until it is served, and a process that serves has a release.
LEMMA SelectionMoves == SelectionInv /\ [SelectionNext]_selectionVars => SelectionInv'
<1> SUFFICES ASSUME SelectionInv, [SelectionNext]_selectionVars PROVE SelectionInv'  OBVIOUS
<1>1. CASE UNCHANGED selectionVars  BY <1>1 DEF SelectionInv, selectionVars
<1>2. CASE Serve
  <2>1. message' = NoMessage /\ release' = release
    BY <1>2 DEF Serve, AnswerByDefault, NobodyServes, AnswerWithoutSkill, AnswerWithSkill, RefuseSkill,
                Without, Served
  <2> QED  BY <2>1 DEF SelectionInv
<1>3. CASE StopSelecting  BY <1>3 DEF SelectionInv, StopSelecting
<1>4. ASSUME NEW m \in Messages, Receive(m) PROVE SelectionInv'
  BY <1>4 DEF SelectionInv, Receive
<1>5. ASSUME NEW o \in Overlay, ActivateOverlay(o) \/ ArchiveOverlay(o) PROVE SelectionInv'
  BY <1>5 DEF SelectionInv, ActivateOverlay, ArchiveOverlay
<1>6. ASSUME NEW p \in Release, NEW tools \in Deployment, StartWith(p, tools) PROVE SelectionInv'
  BY <1>6 DEF SelectionInv, StartWith
<1> QED  BY <1>1, <1>2, <1>3, <1>4, <1>5, <1>6 DEF SelectionNext

\* Only the step that serves it ends a message, and what it answers fits.
LEMMA OnlyServeAnswers ==
  ASSUME SelectionInv, SelectionNext, message # NoMessage, message' = NoMessage
  PROVE  Fits
<1>1. message \in Messages  BY DEF SelectionInv
<1>2. Serve
  <2>1. ASSUME NEW m \in Messages, Receive(m) PROVE FALSE  BY <2>1 DEF Receive
  <2>2. ASSUME NEW o \in Overlay, ActivateOverlay(o) \/ ArchiveOverlay(o) PROVE FALSE
    BY <2>2 DEF ActivateOverlay, ArchiveOverlay
  <2>3. ASSUME NEW p \in Release, NEW tools \in Deployment, StartWith(p, tools) PROVE FALSE
    BY <2>3 DEF StartWith
  <2>4. ~StopSelecting  BY DEF StopSelecting
  <2> QED  BY <2>1, <2>2, <2>3, <2>4 DEF SelectionNext
<1>3. release \in Release  BY <1>2 DEF Serve, SelectionInv
<1>4. ASSUME NEW outcome \in {"raised", "refused"}, Without(outcome) PROVE Fits
  <2>1. choice'.outcome = outcome  BY <1>4 DEF Without, Served, NoChoice
  <2> QED  BY <2>1 DEF Fits
<1>5. CASE AnswerByDefault(message)  BY <1>1, <1>3, <1>5, DefaultFits
<1>6. CASE NobodyServes(message)  BY <1>4, <1>6 DEF NobodyServes
<1>7. CASE Denied(message) /\ Without("refused")  BY <1>4, <1>7
<1> DEFINE r == Prepared(message)
           a == Routed(message, r)
<1>8. CASE /\ message.how = "mention" /\ Eligible(message, r) # {}
           /\ AnswerWithoutSkill(message, a, r) \/ AnswerWithSkill(message, a, r) \/ RefuseSkill(message, a, r)
  <2>1. CASE AnswerWithoutSkill(message, a, r)  BY <1>1, <1>3, <1>8, <2>1, WithoutSkillFits
  <2>2. CASE AnswerWithSkill(message, a, r)  BY <1>1, <1>3, <1>8, <2>2, WithSkillFits
  <2>3. CASE RefuseSkill(message, a, r)  BY <1>4, <2>3 DEF RefuseSkill
  <2> QED  BY <1>8, <2>1, <2>2, <2>3
<1> QED  BY <1>2, <1>5, <1>6, <1>7, <1>8 DEF Serve

\* Whatever packages, tools, preferences and personal Skills there are, and however they change while
\* a message waits: its answer's agent, Skill, personal Skill and tools fit each other and the message
\* (AgentRouter, SkillResolver, PersonalSkillResolver).
THEOREM AnswersAlwaysFit == SelectionSpec => AnswersFit
<1>1. SelectionInit => SelectionInv  BY DEF SelectionInit, SelectionInv
<1>2. SelectionInv /\ [SelectionNext]_selectionVars =>
        [message # NoMessage /\ message' = NoMessage /\ choice'.outcome = "served" =>
           OverlayFits /\ ToolsStayNarrow /\ PreferencesOnlyRank /\ SkillFollowsTheMessage]_selectionVars
  <2> SUFFICES ASSUME SelectionInv, SelectionNext, message # NoMessage, message' = NoMessage,
                      choice'.outcome = "served"
               PROVE  OverlayFits /\ ToolsStayNarrow /\ PreferencesOnlyRank /\ SkillFollowsTheMessage
    OBVIOUS
  <2> QED  BY OnlyServeAnswers DEF Fits
<1> QED  BY <1>1, <1>2, SelectionMoves, PTL DEF SelectionSpec, AnswersFit

-----------------------------------------------------------------
(* The services side by side.                                              *)

\* A step of the run is a step of one component, and the others stutter.
LEMMA OneServiceMoves ==
  [Next]_vars =>
    /\ [QuotaNext]_quotaVars /\ [DelegationNext]_delegationVars /\ [SchemaNext]_schemaVars
    /\ [RepliesNext]_repliesVars /\ [ReleasesNext]_releaseVars /\ [SelectionNext]_selectionVars
<1> SUFFICES ASSUME [Next]_vars
             PROVE  /\ [QuotaNext]_quotaVars /\ [DelegationNext]_delegationVars /\ [SchemaNext]_schemaVars
                    /\ [RepliesNext]_repliesVars /\ [ReleasesNext]_releaseVars /\ [SelectionNext]_selectionVars
  OBVIOUS
<1>1. CASE UNCHANGED vars
  BY <1>1 DEF vars, budget, packages
<1>2. CASE Next
  BY <1>2 DEF Next, budget, packages
<1> QED  BY <1>1, <1>2

\* Delegation: a child asks as often as it may. It is about to be asked for where its tool has
\* suspended itself in the running graph, or its resumption ended in a further interrupt.
DelegationRest ==
  /\ task \in ParentState /\ driver \in {"pipeline", "resume"} /\ gates \in [ToolCall -> 0..MaxGates]
  /\ graph = "model" => \A t \in ToolCall : tool[t] = "suspended" => gates[t] < MaxGates
  /\ resumer.pc = "ask" => gates[resumer.call] < MaxGates

\* Gates are counted within their bound, whoever asks: the running graph or a resumer.
LEMMA DelegationRestStays ==
  DelegationInv /\ DelegationRest /\ [DelegationNext]_delegationVars => DelegationRest'
<1> SUFFICES ASSUME DelegationInv, DelegationRest, [DelegationNext]_delegationVars PROVE DelegationRest'
  OBVIOUS
<1>0. /\ MaxGates \in Nat /\ None \notin ToolCall
      /\ tool \in [ToolCall -> Told \cup Dispatching \cup {"none", "again", "agent", "suspended"}]
      /\ resumer \in [pc : Resuming \cup {"idle", "child", "ask"}, call : ToolCall \cup {None}]
      /\ gates \in [ToolCall -> 0..MaxGates] /\ parent \in ParentState
  BY DelegationAssumption DEF DelegationInv, DelegationTypes, DelegationRest
<1>1. CASE UNCHANGED delegationVars
  BY <1>1 DEF delegationVars, executions, childRequests, memory, DelegationRest
<1>2. ASSUME NEW t \in ToolCall, Dispatch(t) PROVE DelegationRest'
  <2>1. tool'[t] # "suspended" /\ \A s \in ToolCall : s # t => tool'[s] = tool[s]
    <3>1. tool[t] \in {"again", "none"} => child[t] # "waiting_approval"
      BY DEF DelegationInv, CallAgrees
    <3> QED  BY <1>0, <1>2, <3>1 DEF Dispatch, Replayed
  <2>2. UNCHANGED <<task, driver, gates, graph, resumer>>
    BY <1>2 DEF Dispatch, executions, childRequests
  <2> QED  BY <2>1, <2>2 DEF DelegationRest
<1>3. ASSUME NEW t \in ToolCall, Claim(t) \/ WaitForChild(t) \/ QueueParent(t) \/ RunParent(t) \/ TimeOut(t)
      PROVE  DelegationRest'
  <2>1. tool'[t] # "suspended" /\ \A s \in ToolCall : s # t => tool'[s] = tool[s]
    BY <1>0, <1>3 DEF Claim, WaitForChild, QueueParent, RunParent, TimeOut, ToolAnswer
  <2>2. UNCHANGED <<task, driver, gates, graph, resumer>>
    BY <1>3 DEF Claim, WaitForChild, QueueParent, RunParent, TimeOut, executions, childRequests
  <2> QED  BY <2>1, <2>2 DEF DelegationRest
<1>4. ASSUME NEW t \in ToolCall, NEW state \in ChildState, ChildEnds(t, state) PROVE DelegationRest'
  <2>1. /\ UNCHANGED <<task, driver, gates, graph, resumer>>
        /\ \A s \in ToolCall : s # t => tool'[s] = tool[s]
        /\ tool'[t] = "suspended" => gates[t] < MaxGates
    BY <1>0, <1>4 DEF ChildEnds, ResumesParent, FinalStates, executions, childRequests
  <2> QED  BY <2>1 DEF DelegationRest
<1>5. ASSUME Return \/ Raise \/ Park PROVE DelegationRest'
  BY <1>5 DEF Return, Raise, Park, Moved, ParentState, DelegationRest, childRequests
<1>6. ASSUME NEW t \in ToolCall, Interrupt(t) PROVE DelegationRest'
  <2>1. /\ gates' = [gates EXCEPT ![t] = gates[t] + 1] /\ gates[t] < MaxGates /\ graph' = "registering"
        /\ UNCHANGED <<task, driver, resumer>> /\ resumer.pc = "idle"
    <3>1. resumer.pc = "idle"
      BY <1>6 DEF Interrupt, DelegationInv, ResumerAgrees
    <3> QED  BY <1>6, <3>1 DEF Interrupt, DelegationRest, executions
  <2> QED  BY <1>0, <2>1 DEF DelegationRest
<1>7. ASSUME NEW t \in ToolCall, NEW word \in {"approved", "rejected", "expired"}, DecideChild(t, word)
      PROVE  DelegationRest'
  <2>1. resumer'.pc # "ask" /\ UNCHANGED <<task, driver, gates, graph, tool>>
    BY <1>7 DEF DecideChild, NoResumer, executions
  <2> QED  BY <2>1 DEF DelegationRest
<1>8. ASSUME QueueChild \/ RunChild \/ ResumedChildRaises \/ FailParent \/ RequeueParent \/ RerunParent
      PROVE  DelegationRest'
  <2>1. resumer'.pc # "ask" /\ UNCHANGED <<driver, gates, tool>> /\ graph' \in {graph, "over"} /\ task' \in {task, "failed"}
    BY <1>0, <1>8 DEF QueueChild, RunChild, ResumedChildRaises, FailParent, RequeueParent, RerunParent, ResumeTo,
                NoResumer, executions, childRequests, Moved
  <2> QED  BY <2>1 DEF DelegationRest, ParentState
<1>9. ASSUME NEW state \in ChildState, ResumedChildEnds(state) PROVE DelegationRest'
  <2>1. /\ UNCHANGED <<task, driver, gates, graph, tool>> /\ resumer'.call = resumer.call
        /\ resumer'.pc = "ask" => gates[resumer.call] < MaxGates
    BY <1>0, <1>9 DEF ResumedChildEnds, ResumeTo, executions, childRequests
  <2> QED  BY <2>1 DEF DelegationRest
<1>10. CASE AskAgain
  <2> DEFINE t == resumer.call
  <2>1. t \in ToolCall /\ graph = "parked"
    BY <1>10 DEF AskAgain, DelegationInv, ResumerAgrees
  <2>2. /\ gates' = [gates EXCEPT ![t] = gates[t] + 1] /\ gates[t] < MaxGates /\ graph' = graph
        /\ resumer' = NoResumer /\ UNCHANGED <<task, driver>>
    BY <1>10 DEF AskAgain, DelegationRest, executions
  <2> HIDE DEF t
  <2> QED  BY <1>0, <2>1, <2>2 DEF DelegationRest, NoResumer
<1>11. CASE ResumeGraph
  <2> DEFINE t == resumer.call
  <2>1. t \in ToolCall /\ tool[t] = "suspended"
    BY <1>11 DEF ResumeGraph, DelegationInv, ResumerAgrees
  <2>2. \A s \in ToolCall : tool'[s] # "suspended"
    BY <1>0, <1>11, <2>1 DEF ResumeGraph, DelegationInv, OneWaits, WaitStates
  <2>3. task' \in ParentState /\ driver' = "resume" /\ resumer' = NoResumer /\ gates' = gates
    BY <1>11 DEF ResumeGraph, Moved, DelegationRest, ParentState, childRequests
  <2> QED  BY <1>0, <2>2, <2>3 DEF DelegationRest, NoResumer
<1>12. CASE KillDelegation
  BY <1>12 DEF KillDelegation, DelegationRest, NoResumer, executions, childRequests
<1>13. CASE RestartDelegation
  BY <1>13 DEF RestartDelegation, Reconciled, Moved, DelegationRest, ParentState, childRequests, memory
<1>14. CASE RunAgain
  <2>1. \A t \in ToolCall : tool[t] # "suspended"
    BY <1>14 DEF RunAgain, DelegationInv, SuspendedAgrees
  <2> QED  BY <1>14, <2>1 DEF RunAgain, DelegationRest, ParentState, childRequests
<1> QED  BY <1>1, <1>2, <1>3, <1>4, <1>5, <1>6, <1>7, <1>8, <1>9, <1>10, <1>11, <1>12, <1>13, <1>14
         DEF DelegationNext, DispatchStep, GraphStep, ResumeStep

\* Replies: what is on the wire is the row that is being sent.
RepliesRest ==
  /\ card \in [Reply -> {"none", "channel", "post"}]
  /\ asking \in {"idle", "draft", "channel", "collected", "error", "done"} /\ asked \in Reply \cup {0}
  /\ \A q \in Reply, k \in Kind : outboxRow[q][k] = "sending" /\ alive => wire.reply = q /\ wire.kind = k

\* Enqueuing sends nothing.
LEMMA EnqueuedWaits ==
  ASSUME NEW q \in Reply, NEW kinds, outboxRow \in [Reply -> [Kind -> RowState]], outboxRow' = Enqueued(outboxRow, q, kinds)
  PROVE  \A p \in Reply, k \in Kind : outboxRow'[p][k] = "sending" => outboxRow[p][k] = "sending"
<1> DEFINE new == [k \in Kind |-> IF k \in kinds /\ outboxRow[q][k] = "none" THEN "pending" ELSE outboxRow[q][k]]
<1>1. outboxRow' = [outboxRow EXCEPT ![q] = new]  BY DEF Enqueued
<1>2. \A k \in Kind : new[k] = "sending" => outboxRow[q][k] = "sending"  OBVIOUS
<1> HIDE DEF new
<1> QED  BY <1>1, <1>2

\* Only the row that is being sent is on the wire, whatever is enqueued or lost.
LEMMA RepliesRestStays ==
  RepliesInv /\ RepliesRest /\ [RepliesNext]_repliesVars => RepliesRest'
<1> SUFFICES ASSUME RepliesInv, RepliesRest, [RepliesNext]_repliesVars PROVE RepliesRest'
  OBVIOUS
<1> DEFINE Sending(q, k) == outboxRow[q][k] = "sending" /\ alive => wire.reply = q /\ wire.kind = k
<1>0. /\ outboxRow \in [Reply -> [Kind -> RowState]] /\ card \in [Reply -> {"none", "channel", "post"}]
      /\ asking \in {"channel", "collected", "error"} => asked \in Reply
      /\ \A q \in Reply, k \in Kind : Sending(q, k)
  BY DEF RepliesInv, ReplyTypes, RepliesRest
<1>1. ASSUME /\ card' \in [Reply -> {"none", "channel", "post"}]
             /\ asking' \in {"idle", "draft", "channel", "collected", "error", "done"} /\ asked' \in Reply \cup {0},
             wire' = wire, alive' \in BOOLEAN, alive' => alive,
             \A q \in Reply, k \in Kind : outboxRow'[q][k] = "sending" => outboxRow[q][k] = "sending"
      PROVE  RepliesRest'
  BY <1>0, <1>1 DEF RepliesRest
<1>2. CASE UNCHANGED repliesVars
  BY <1>2 DEF RepliesRest, repliesVars, replyRequests, outboxRows, process
<1>3. CASE \/ AskPersona \/ DraftFails \/ ChannelFails \/ ChannelOpens \/ ArchiveVersion \/ ExpireDue
           \/ \E q \in Reply :
                \/ CreateReply(q) \/ Retry(q) \/ ReplyFallsDue(q)
                \/ \E text \in Text \cup {"refused"} : DecideReply(q, text)
                \/ \E k \in Kind, state \in {"delivered", "pending", "failed"} : SettleReply(q, k, state)
  <2>1. /\ card' \in [Reply -> {"none", "channel", "post"}] /\ outboxRow' = outboxRow /\ wire' = wire /\ alive' = alive
        /\ asking' \in {"idle", "draft", "channel", "collected", "error", "done"} /\ asked' \in Reply \cup {0}
    <3>1. CASE AskPersona \/ DraftFails \/ ChannelFails \/ ArchiveVersion \/ ExpireDue
      BY <1>0, <3>1 DEF AskPersona, DraftFails, ChannelFails, ArchiveVersion, ExpireDue, RepliesRest, replyRequests,
         outboxRows, process
    <3>2. CASE ChannelOpens
      BY <1>0, <3>2 DEF ChannelOpens, RepliesRest, outboxRows
    <3>3. ASSUME NEW q \in Reply, \/ CreateReply(q) \/ Retry(q) \/ ReplyFallsDue(q)
                                 \/ \E text \in Text \cup {"refused"} : DecideReply(q, text)
          PROVE  /\ UNCHANGED <<card, outboxRow, wire, alive>> /\ asking' \in {asking, "channel"} /\ asked' \in {asked, q}
      BY <3>3 DEF CreateReply, Retry, ReplyFallsDue, DecideReply, replyRequests, outboxRows, process
    <3>4. ASSUME NEW q \in Reply, NEW k \in Kind, NEW state \in {"delivered", "pending", "failed"}, SettleReply(q, k, state)
          PROVE  /\ UNCHANGED <<outboxRow, wire, alive, asking, asked>>
                 /\ card' \in {card, [card EXCEPT ![q] = "post"]}
      BY <3>4 DEF SettleReply, outboxRows
    <3>5. \A q \in Reply : [card EXCEPT ![q] = "post"] \in [Reply -> {"none", "channel", "post"}]
      BY <1>0
    <3>6. asking \in {"idle", "draft", "channel", "collected", "error", "done"} /\ asked \in Reply \cup {0}
      BY DEF RepliesRest
    <3>7. CASE \E q \in Reply : \/ CreateReply(q) \/ Retry(q) \/ ReplyFallsDue(q)
                                \/ \E text \in Text \cup {"refused"} : DecideReply(q, text)
      BY <1>0, <3>3, <3>6, <3>7
    <3>8. CASE \E q \in Reply, k \in Kind, state \in {"delivered", "pending", "failed"} : SettleReply(q, k, state)
      BY <1>0, <3>4, <3>5, <3>6, <3>8
    <3> QED  BY <1>3, <3>1, <3>2, <3>7, <3>8
  <2> QED  BY <2>1, <1>0 DEF RepliesRest
<1>4. ASSUME UNCHANGED <<card, asked, wire, alive>>, asking' \in {asking, "done"},
             NEW q \in Reply, NEW kinds, outboxRow' = Enqueued(outboxRow, q, kinds)
      PROVE  RepliesRest'
  <2>1. \A p \in Reply, k \in Kind : outboxRow'[p][k] = "sending" => outboxRow[p][k] = "sending"
    BY <1>0, <1>4, EnqueuedWaits
  <2> QED  BY <1>4, <2>1 DEF RepliesRest
<1>5. CASE CompleteQuestion
  BY <1>0, <1>4, <1>5 DEF CompleteQuestion, replyRequests
<1>6. ASSUME NEW q \in Reply, EnqueueDecision(q) \/ EnqueueExpired(q) \/ EnqueueOwnerUpdate(q)
      PROVE  RepliesRest'
  <2>1. UNCHANGED <<card, asking, asked, wire, alive>>
        /\ (outboxRow' = outboxRow \/ \E kinds \in SUBSET Kind : outboxRow' = Enqueued(outboxRow, q, kinds))
    BY <1>6 DEF EnqueueDecision, EnqueueExpired, EnqueueOwnerUpdate, replyRequests, Kind
  <2>2. CASE outboxRow' = outboxRow
    BY <2>1, <2>2 DEF RepliesRest
  <2> QED  BY <1>4, <2>1, <2>2
<1>7. ASSUME NEW q \in Reply, RetryDecision(q) PROVE RepliesRest'
  <2>1. UNCHANGED <<card, asking, asked, wire, alive>> /\ outboxRow' = RetriedRow(q)
    BY <1>7 DEF RetryDecision, replyRequests
  <2>2. CASE outboxRow[q]["decision"] = "failed"
    <3>1. \A p \in Reply, k \in Kind : outboxRow'[p][k] = "sending" => outboxRow[p][k] = "sending"
      BY <1>0, <2>1, <2>2 DEF RetriedRow
    <3> QED  BY <2>1, <3>1 DEF RepliesRest
  <2>3. CASE outboxRow[q]["decision"] # "failed"
    BY <1>4, <2>1, <2>3 DEF RetriedRow
  <2> QED  BY <2>2, <2>3
<1>8. ASSUME NEW q \in Reply, NEW k \in Kind, SendRow(q, k) PROVE RepliesRest'
  <2>1. /\ UNCHANGED <<card, asking, asked, alive>> /\ wire = NoDelivery /\ alive
        /\ outboxRow' = [outboxRow EXCEPT ![q][k] = "sending"] /\ wire' = [reply |-> q, kind |-> k, done |-> FALSE]
    BY <1>8 DEF SendRow, replyRequests, Quiet
  <2>2. \A p \in Reply, j \in Kind : outboxRow[p][j] # "sending"
    BY <1>0, <2>1 DEF NoDelivery, Kind
  <2>3. \A p \in Reply, j \in Kind : outboxRow'[p][j] = "sending" => p = q /\ j = k
    BY <1>0, <2>1, <2>2
  <2>4. wire'.reply = q /\ wire'.kind = k
    BY <2>1
  <2> QED  BY <2>1, <2>3, <2>4 DEF RepliesRest
<1>9. ASSUME NEW q \in Reply, NEW k \in Kind, Arrives(q, k) PROVE RepliesRest'
  <2>1. /\ UNCHANGED <<card, asking, asked, alive, outboxRow>> /\ wire = [reply |-> q, kind |-> k, done |-> FALSE]
        /\ wire' = [wire EXCEPT !.done = TRUE]
    BY <1>9 DEF Arrives, replyRequests, outboxRows
  <2>2. wire'.reply = wire.reply /\ wire'.kind = wire.kind
    BY <2>1
  <2> QED  BY <2>1, <2>2 DEF RepliesRest
<1>10. ASSUME NEW q \in Reply, NEW k \in Kind, NEW state \in {"delivered", "pending", "failed"}, DeliverySettles(q, k, state)
       PROVE  RepliesRest'
  <2>1. /\ UNCHANGED <<card, asking, asked, alive>> /\ alive /\ wire.reply = q /\ wire.kind = k
        /\ outboxRow' = [outboxRow EXCEPT ![q][k] = state]
    BY <1>10 DEF DeliverySettles, replyRequests, Quiet
  <2>2. \A p \in Reply, j \in Kind : outboxRow[p][j] = "sending" => p = q /\ j = k
    BY <1>0, <2>1
  <2>3. \A p \in Reply, j \in Kind : outboxRow'[p][j] # "sending"
    BY <1>0, <2>1, <2>2
  <2> QED  BY <2>1, <2>3 DEF RepliesRest
<1>11. CASE CrashReplies
  <2>1. UNCHANGED <<card, asked, outboxRow>> /\ alive' = FALSE /\ asking' \in {"done", "idle"}
    BY <1>11 DEF CrashReplies, replyRequests, outboxRows
  <2> QED  BY <2>1 DEF RepliesRest
<1>12. CASE RestartReplies
  <2>1. /\ UNCHANGED <<card, asking, asked>>
        /\ outboxRow' = [q \in Reply |-> [k \in Kind |-> IF outboxRow[q][k] = "sending" THEN "pending" ELSE outboxRow[q][k]]]
    BY <1>12 DEF RestartReplies, replyRequests
  <2>2. \A q \in Reply, k \in Kind : outboxRow'[q][k] # "sending"
    BY <2>1
  <2> QED  BY <2>1, <2>2 DEF RepliesRest
<1> QED  BY <1>2, <1>3, <1>5, <1>6, <1>7, <1>8, <1>9, <1>10, <1>11, <1>12 DEF RepliesNext

\* Selection: a process that serves has registered its packages.
SelectionRest == SelectionTypeOK /\ (release # Nil => Registers(release))

\* A process that serves has a default agent.
LEMMA DefaultIsRegistered ==
  ASSUME release # Nil, SelectionRest
  PROVE  DefaultAgent \in Agent
<1>1. Cardinality({a \in Agent : CardOf(a).default}) # 0
  BY DEF SelectionRest, Registers, CardOf
<1>2. \E a \in Agent : CardOf(a).default
  BY <1>1, FS_EmptySet
<1> QED  BY <1>2 DEF DefaultAgent

\* A typed choice keeps the types.
LEMMA ServedIsTyped ==
  ASSUME SelectionRest, NEW c, Served(c),
         c.outcome \in {"none", "served", "refused", "raised"}, c.agent \in Agent \cup {Nil}, c.skill \in Skill \cup {Nil},
         c.overlay \in Overlay \cup {Nil}, c.tools \subseteq Tool
  PROVE  SelectionRest'
<1>1. choice' = c /\ UNCHANGED <<release, deployed, status>>
  BY ServedIs
<1> QED  BY <1>1 DEF SelectionRest, SelectionTypeOK, Registers

\* Whatever a message is answered with is typed.
LEMMA ServingIsTyped ==
  ASSUME SelectionInv, SelectionRest, Serve
  PROVE  SelectionRest'
<1>1. message \in Messages /\ release # Nil /\ release \in Release /\ deployed \subseteq Tool
  BY DEF Serve, SelectionInv, SelectionRest, SelectionTypeOK
<1>2. ASSUME NEW outcome \in {"raised", "refused"}, Without(outcome) PROVE SelectionRest'
  <2> DEFINE c == [NoChoice EXCEPT !.outcome = outcome]
  <2>1. c.outcome = outcome /\ c.agent = Nil /\ c.skill = Nil /\ c.overlay = Nil /\ c.tools = {}
    BY DEF NoChoice
  <2>2. Served(c)  BY <1>2 DEF Without
  <2> HIDE DEF c
  <2> QED  BY <2>1, <2>2, ServedIsTyped
<1>3. ASSUME NEW a \in Agent, NEW s \in Skill \cup {Nil}, NEW o \in Overlay \cup {Nil}, NEW tools \in SUBSET deployed,
             Served(Chosen(a, s, o, tools))
      PROVE  SelectionRest'
  <2> DEFINE c == Chosen(a, s, o, tools)
  <2>1. c.outcome = "served" /\ c.agent = a /\ c.skill = s /\ c.overlay = o /\ c.tools = tools
    BY DEF Chosen
  <2>2. Served(c)  BY <1>3
  <2> HIDE DEF c
  <2> QED  BY <1>1, <2>1, <2>2, ServedIsTyped
<1>4. CASE AnswerByDefault(message)
  <2>1. DefaultAgent \in Agent /\ PackageTools(DefaultAgent) \in SUBSET deployed
    BY <1>1, DefaultIsRegistered DEF PackageTools
  <2> QED  BY <1>2, <1>3, <1>4, <2>1 DEF AnswerByDefault
<1>5. CASE NobodyServes(message)  BY <1>2, <1>5 DEF NobodyServes
<1>6. CASE Denied(message) /\ Without("refused")  BY <1>2, <1>6
<1> DEFINE m == message
           r == Prepared(m)
           a == Routed(m, r)
           S == SkillsFor(a, m, r)
           s == BestSkill(S, m, r)
<1>7. CASE /\ message.how = "mention" /\ Eligible(m, r) # {}
           /\ AnswerWithoutSkill(m, a, r) \/ AnswerWithSkill(m, a, r) \/ RefuseSkill(m, a, r)
  <2>1. m.words \in SUBSET Word /\ m.asked \in Overlay \cup {Nil}  BY <1>1 DEF Messages
  <2>2. a \in Agent  BY <1>1, <1>7, <2>1, RoutedIsBest DEF Eligible
  <2> HIDE DEF a, r
  <2>3. CASE AnswerWithoutSkill(m, a, r)
    <3>1. PackageTools(a) \in SUBSET deployed  BY DEF PackageTools
    <3> QED  BY <1>3, <2>2, <2>3, <3>1 DEF AnswerWithoutSkill
  <2>4. CASE AnswerWithSkill(m, a, r)
    <3>1. PICK o \in Overlays(m, a, s, r) : Served(Chosen(a, s, o, Effective(s, a)))  BY <2>4 DEF AnswerWithSkill
    <3>2. S # {}  BY <2>4 DEF AnswerWithSkill
    <3>3. Allowed(a) \subseteq Skill  BY <1>1, <2>2, SelectionAssumption DEF Allowed, CardOf
    <3>4. S \in SUBSET Skill  BY <3>3 DEF SkillsFor
    <3>5. s \in S
      <4> HIDE DEF S
      <4> QED  BY <1>1, <2>1, <3>2, <3>4, BestSkillIsOne
    <3>6. Effective(s, a) \in SUBSET deployed  BY DEF Effective
    <3>7. o \in Overlay \cup {Nil}  BY <2>1, <3>1 DEF Overlays, Foremost, SelfActivating
    <3> HIDE DEF s, S
    <3> QED  BY <1>3, <2>2, <3>1, <3>4, <3>5, <3>6, <3>7
  <2>5. CASE RefuseSkill(m, a, r)  BY <1>2, <2>5 DEF RefuseSkill
  <2> QED  BY <1>7, <2>3, <2>4, <2>5
<1> QED  BY <1>4, <1>5, <1>6, <1>7 DEF Serve

\* Overlays, starts and messages keep the types; one overlay of an identity is active.
LEMMA SelectionRestStays ==
  SelectionInv /\ SelectionRest /\ [SelectionNext]_selectionVars => SelectionRest'
<1> SUFFICES ASSUME SelectionInv, SelectionRest, [SelectionNext]_selectionVars PROVE SelectionRest'
  OBVIOUS
<1>1. CASE UNCHANGED selectionVars
  BY <1>1 DEF selectionVars, SelectionRest, SelectionTypeOK, Registers
<1>2. CASE Serve  BY <1>2, ServingIsTyped
<1>3. CASE StopSelecting
  BY <1>3 DEF StopSelecting, SelectionRest, SelectionTypeOK
<1>4. ASSUME NEW m \in Messages, Receive(m) PROVE SelectionRest'
  <2>1. choice' = NoChoice /\ UNCHANGED <<release, deployed, status>>
    BY <1>4 DEF Receive
  <2> QED  BY <2>1 DEF NoChoice, SelectionRest, SelectionTypeOK, Registers
<1>5. ASSUME NEW o \in Overlay, ActivateOverlay(o) PROVE SelectionRest'
  <2>1. status' = ActiveAlone(o) /\ UNCHANGED <<release, deployed, choice>>
    BY <1>5 DEF ActivateOverlay
  <2>2. /\ status' \in [Overlay -> {"draft", "active", "archived"}] /\ status'[o] = "active"
        /\ \A p \in Overlay : p # o /\ status'[p] = "active" =>
             status[p] = "active" /\ OverlayCard[p].id # OverlayCard[o].id
    BY <2>1 DEF ActiveAlone, SelectionRest, SelectionTypeOK
  <2>3. \A p, q \in Overlay :
          status'[p] = "active" /\ status'[q] = "active" /\ OverlayCard[p].id = OverlayCard[q].id => p = q
    BY <2>2 DEF SelectionRest, SelectionTypeOK
  <2> QED  BY <2>1, <2>2, <2>3 DEF SelectionRest, SelectionTypeOK, Registers
<1>6. ASSUME NEW o \in Overlay, ArchiveOverlay(o) PROVE SelectionRest'
  <2>1. status' = [status EXCEPT ![o] = "archived"] /\ UNCHANGED <<release, deployed, choice>>
    BY <1>6 DEF ArchiveOverlay
  <2>2. /\ status' \in [Overlay -> {"draft", "active", "archived"}]
        /\ \A p \in Overlay : status'[p] = "active" => status[p] = "active"
    BY <2>1 DEF SelectionRest, SelectionTypeOK
  <2> QED  BY <2>1, <2>2 DEF SelectionRest, SelectionTypeOK, Registers
<1>7. ASSUME NEW p \in Release, NEW tools \in Deployment, StartWith(p, tools) PROVE SelectionRest'
  <2>1. release' = p /\ deployed' = tools /\ Registers(p) /\ UNCHANGED <<status, choice>> /\ tools \subseteq Tool
    BY <1>7, SelectionAssumption DEF StartWith
  <2> QED  BY <2>1 DEF SelectionRest, SelectionTypeOK, Registers
<1> QED  BY <1>1, <1>2, <1>3, <1>4, <1>5, <1>6, <1>7 DEF SelectionNext

\* The invariants of the services, and what their steps need to keep the types.
ServicesInv ==
  /\ QuotaInv /\ DelegationInv /\ DelegationRest /\ SchemaInv
  /\ RepliesInv /\ InFlight /\ RepliesRest /\ ReleasesInv /\ SelectionInv /\ SelectionRest

\* They hold at the start.
LEMMA ServicesStart == Init => ServicesInv
<1> SUFFICES ASSUME Init PROVE ServicesInv  OBVIOUS
<1>1. QuotaInit /\ DelegationInit /\ SchemaInit /\ RepliesInit /\ ReleasesInit /\ SelectionInit
  BY DEF Init
<1>2. QuotaInv  BY <1>1, QuotaStarts
<1>3. DelegationInv /\ DelegationRest
  BY <1>1, DelegationStarts, DelegationAssumption DEF DelegationInit, DelegationRest, NoResumer, ParentState
<1>4. SchemaInv  BY <1>1, SchemaStarts
<1>5. RepliesInv /\ InFlight  BY <1>1, RepliesStart
<1>6. RepliesRest  BY <1>1 DEF RepliesInit, RepliesRest
<1>7. ReleasesInv  BY <1>1, ReleasesStart
<1>8. SelectionInv /\ SelectionRest
  BY <1>1 DEF SelectionInit, SelectionInv, SelectionRest, SelectionTypeOK, NoChoice
<1> QED  BY <1>2, <1>3, <1>4, <1>5, <1>6, <1>7, <1>8 DEF ServicesInv

\* A step of the run keeps them, whichever service it is of.
LEMMA ServicesStep == ServicesInv /\ [Next]_vars => ServicesInv'
BY OneServiceMoves, QuotaSteps, DelegationStep, DelegationRestStays, SchemaStep, RepliesStep, RowsStay, RepliesRestStays,
   ReleasesStep, SelectionMoves, SelectionRestStays DEF ServicesInv

\* The invariants of the services have the types in them.
LEMMA ServicesAreTyped == ServicesInv => TypeOK
<1> SUFFICES ASSUME ServicesInv PROVE TypeOK  OBVIOUS
<1>1. QuotaTypeOK  BY DEF ServicesInv, QuotaInv
<1>2. DelegationTypeOK
  BY DEF ServicesInv, DelegationInv, DelegationTypes, DelegationRest, DelegationTypeOK
<1>3. SchemaTypeOK
  <2>1. db \in Database /\ opener \in [Opener -> OpenerRow] /\ legacy \subseteq Row /\ trusted \subseteq Row
    BY DEF ServicesInv, SchemaInv
  <2>2. tx.by \in Opener \cup {"none"}
    BY DEF ServicesInv, SchemaInv, Transaction, Nobody
  <2>3. /\ db.history \subseteq Version /\ db.tables \subseteq Version /\ db.log \subseteq Row /\ db.cache \subseteq Row
    BY <2>1 DEF Database
  <2>4. \A o \in Opener : opener[o].state \in {"new", "migrating", "ready", Failed} /\ opener[o].applied \subseteq Version
    BY <2>1 DEF OpenerRow
  <2> QED  BY <2>1, <2>2, <2>3, <2>4 DEF SchemaTypeOK
<1>4. RepliesTypeOK
  <2>1. /\ reply \in [Reply -> ReplyState] /\ draft \in [Reply -> Text] /\ signed \in [Reply -> BOOLEAN]
        /\ verdict \in [Reply -> Text \cup {"none", "refused"}] /\ outboxRow \in [Reply -> [Kind -> RowState]]
    <3>1. Spoken \cup {"none"} = Text \cup {"none", "refused"}  BY DEF Spoken
    <3> QED  BY <3>1 DEF ServicesInv, RepliesInv, ReplyTypes
  <2> QED  BY <2>1 DEF ServicesInv, RepliesRest, RepliesTypeOK, RowState
<1>5. ReleasesTypeOK
  BY DEF ServicesInv, ReleasesInv, ReleaseTypes, ReleasesTypeOK, ReleaseRow, Releasable
<1>6. SelectionTypeOK  BY DEF ServicesInv, SelectionRest
<1> QED  BY <1>1, <1>2, <1>3, <1>4, <1>5, <1>6 DEF TypeOK

\* TypeOK: amounts, runs, databases, replies, releases and choices have their types, and of the
\* overlays of an identity one is active, whichever service moves, for every number of them.
THEOREM ServicesTypeCorrect == Spec => []TypeOK
<1>1. Init /\ [][Next]_vars => []ServicesInv
  BY ServicesStart, ServicesStep, PTL
<1> QED  BY <1>1, ServicesAreTyped, PTL DEF Spec
=============================================================================
