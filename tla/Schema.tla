------------------------------- MODULE Schema -------------------------------
(***************************************************************************)
(* The SQLite schema and its migrations                                    *)
(* (src/mmag/infrastructure/sqlite/migration.py, migrations/, database.py). *)
(* Each connection that opens the database reads which versions it has,     *)
(* checks them against those of its own build and applies the rest, each in *)
(* a transaction.  The reading is not part of the transaction, and two      *)
(* processes, perhaps of two builds, may open the database at once.         *)
(*                                                                         *)
(* The 26 versions of the code are of five kinds; one version stands for    *)
(* each kind, in the order in which the code first needs it.                *)
(***************************************************************************)
EXTENDS Naturals, FiniteSets, FiniteSetsExt

CONSTANTS
  Opener,            \* connections that are opened
  Row,               \* messages
  MaxOpenerCrashes   \* bound: processes killed while they migrate

ASSUME SchemaAssumption == MaxOpenerCrashes \in Nat /\ "none" \notin Opener

VARIABLES
  db,      \* the committed database
  tx,      \* the open transaction: its opener, its version and the database it would commit
  opener,  \* [Opener -> its build, its state and the versions it has read]
  legacy,  \* history: the messages there were before the first migration
  trusted, \* history: the messages written after the purge
  killed   \* processes killed so far

schemaVars == <<db, tx, opener, legacy, trusted, killed>>

\* The versions, by kind.
Initial == 1      \* tables made IF NOT EXISTS
AddColumns == 2   \* columns added where the table has none
MoveCache == 3    \* message_cache goes into message_log
NewTables == 4    \* tables made, renamed or rebuilt: fails where that was done before
Purge == 5        \* conversational memory without a trusted owner is deleted
Version == 1..5
Nobody == [by |-> "none", version |-> 0]
Failed == "failed"

-----------------------------------------------------------------------------
(* The upgrades.  An upgrade that finds what it wants to make raises.       *)

CreateInitial(d) == [d EXCEPT !.tables = @ \cup {Initial}]

AddMissingColumns(d) == [d EXCEPT !.tables = @ \cup {AddColumns}]

MigrateMessageCache(d) == [d EXCEPT !.log = @ \cup d.cache, !.cache = {}]

CanCreate(d) == NewTables \notin d.tables
CreateTables(d) == [d EXCEPT !.tables = @ \cup {NewTables}]

PurgeMemory(d) == [d EXCEPT !.log = {}]

Upgraded(d, v) ==
  CASE v = Initial -> CreateInitial(d)
    [] v = AddColumns -> AddMissingColumns(d)
    [] v = MoveCache -> MigrateMessageCache(d)
    [] v = NewTables -> CreateTables(d)
    [] v = Purge -> PurgeMemory(d)

-----------------------------------------------------------------------------
(* Opening the database.                                                   *)

\* connect(), apply_migrations(): a history with gaps, or of a newer build, is refused.
ReadHistory(o) ==
  /\ opener[o].state = "new"
  /\ opener' = [opener EXCEPT
       ![o].state = IF db.history \subseteq 1..opener[o].build
                       /\ db.history = 1..Cardinality(db.history)
                    THEN "migrating" ELSE Failed,
       ![o].applied = db.history]
  /\ UNCHANGED <<db, tx, legacy, trusted, killed>>

Pending(o) == (1..opener[o].build) \ opener[o].applied

\* A mutant: what another process has applied in the meantime is passed by in silence.
RowIsIgnored(d, v) == TRUE
\* The row of schema_migrations has the version for its primary key.
RowIsNew(d, v) == v \notin d.history

\* _apply_one(): BEGIN IMMEDIATE takes the only write lock, the upgrade runs.
Begin(o) ==
  /\ opener[o].state = "migrating" /\ Pending(o) # {}
  /\ tx = Nobody
  /\ LET v == Min(Pending(o)) IN
     IF v = NewTables /\ ~CanCreate(db)
     THEN /\ opener' = [opener EXCEPT ![o].state = Failed]
          /\ UNCHANGED tx
     ELSE /\ tx' = [by |-> o, version |-> v, db |-> Upgraded(db, v)]
          /\ UNCHANGED opener
  /\ UNCHANGED <<db, legacy, trusted, killed>>

\* The lock is not free within busy_timeout, or the disk fails: MigrationError.
BeginFails(o) ==
  /\ opener[o].state = "migrating" /\ Pending(o) # {}
  /\ tx.by # "none" /\ tx.by # o
  /\ opener' = [opener EXCEPT ![o].state = Failed]
  /\ UNCHANGED <<db, tx, legacy, trusted, killed>>

Commit(o) ==
  /\ tx.by = o
  /\ tx' = Nobody
  /\ IF RowIsNew(db, tx.version)
     THEN /\ db' = [tx.db EXCEPT !.history = @ \cup {tx.version}]
          /\ opener' = [opener EXCEPT ![o].applied = @ \cup {tx.version}]
     ELSE /\ opener' = [opener EXCEPT ![o].state = Failed]
          /\ UNCHANGED db
  /\ UNCHANGED <<legacy, trusted, killed>>

Ready(o) ==
  /\ opener[o].state = "migrating" /\ Pending(o) = {}
  /\ opener' = [opener EXCEPT ![o].state = "ready"]
  /\ UNCHANGED <<db, tx, legacy, trusted, killed>>

\* The process is killed: its transaction is rolled back.  The service starts it again, and so
\* it does after a failed start.
RestartOpener(o) ==
  /\ opener[o].state # "new" /\ killed < MaxOpenerCrashes
  /\ tx' = IF tx.by = o THEN Nobody ELSE tx
  /\ opener' = [opener EXCEPT ![o].state = "new", ![o].applied = {}]
  /\ killed' = killed + 1
  /\ UNCHANGED <<db, legacy, trusted>>

\* A process that is ready logs a message (Memory.log_message).
WriteRow(o, m) ==
  /\ opener[o].state = "ready" /\ tx = Nobody
  /\ m \notin db.log \cup db.cache \cup legacy
  /\ db' = [db EXCEPT !.log = @ \cup {m}]
  /\ trusted' = IF Purge \in db.history THEN trusted \cup {m} ELSE trusted
  /\ UNCHANGED <<tx, opener, legacy, killed>>

-----------------------------------------------------------------------------

\* The database is new, or was made before there were migrations and has messages in its log
\* or its cache.  Builds differ in the versions they know.
SchemaInit ==
  /\ legacy \in SUBSET Row
  /\ \E cached \in SUBSET legacy :
       db = [history |-> {}, tables |-> IF legacy = {} THEN {} ELSE {Initial},
             log |-> legacy \ cached, cache |-> cached]
  /\ tx = Nobody
  /\ \E b \in [Opener -> {NewTables, Purge}] :
       opener = [o \in Opener |-> [build |-> b[o], state |-> "new", applied |-> {}]]
  /\ trusted = {} /\ killed = 0

SchemaNext ==
  \/ \E o \in Opener : \/ ReadHistory(o) \/ Begin(o) \/ BeginFails(o) \/ Commit(o) \/ Ready(o)
                       \/ RestartOpener(o)
  \/ \E o \in Opener, m \in Row : WriteRow(o, m)

SchemaSpec == SchemaInit /\ [][SchemaNext]_schemaVars

-----------------------------------------------------------------------------
(* Properties.                                                             *)

SchemaTypeOK ==
  /\ db.history \subseteq Version /\ db.tables \subseteq Version
  /\ db.log \cup db.cache \cup legacy \cup trusted \subseteq Row
  /\ tx.by \in Opener \cup {"none"}
  /\ \A o \in Opener : /\ opener[o].state \in {"new", "migrating", "ready", Failed}
                       /\ opener[o].applied \subseteq Version

\* Whatever opens at once, of whichever build, and wherever it is killed: the history has no
\* gap and what it names was done as a whole, and once only.  No message of a database from
\* before the migrations is lost on its way into the log, none written after the purge is
\* purged (a second run of the upgrade, by a process that read the history before the first,
\* is undone by the key of the version), and a process that is ready has all its versions.
MigratedOnce ==
  /\ db.history = 1..Cardinality(db.history)
  /\ db.history \cap {Initial, AddColumns, NewTables} \subseteq db.tables
  /\ db.tables \subseteq db.history \cup {Initial}
  /\ MoveCache \in db.history => db.cache = {}
  /\ Purge \notin db.history => legacy \subseteq db.log \cup db.cache
  /\ trusted \subseteq db.log
  /\ \A o \in Opener : opener[o].state = "ready" => 1..opener[o].build \subseteq db.history
=============================================================================
