----------------------------- MODULE Lifecycle ------------------------------
(***************************************************************************)
(* LifecycleService and the tables behind it: lifecycle_entities, the       *)
(* state_transitions log and the delivery projection (src/mmag/             *)
(* control_plane/lifecycle.py, store.py).                                   *)
(*                                                                          *)
(* transition() first looks up the command and reads the entity, then       *)
(* writes in one transaction.  The connection is shared between threads and *)
(* the lock covers the transaction only, so a caller's reads and its write  *)
(* are two steps here; what it expected to find was read earlier still,     *)
(* typically before an await.                                               *)
(***************************************************************************)
EXTENDS Naturals, LifecycleRules

CONSTANTS
  Id,           \* entity ids
  Caller,       \* whoever calls transition()
  Command,      \* command ids callers choose
  MaxRestarts,  \* bound: how often the process comes up again
  None          \* nothing

ASSUME LifecycleAssumption ==
  /\ MaxRestarts \in Nat
  /\ None \notin EntityType
  /\ Command \cap (Id \X Nat) = {}

VARIABLES
  kind,         \* [Id -> EntityType or None], lifecycle_entities.entity_type
  state,        \* [Id -> State or None], .state
  version,      \* [Id -> Nat], .version
  transitions,  \* the rows of state_transitions
  outbox,       \* [Id -> State or None], outbox_deliveries.status
  call,         \* [Caller -> what it read and is about to write, or None]
  answered,     \* <<command, id, expected version>> for which transition() returned
  phase,        \* of the process
  unreconciled, \* entities reconcile() still has to visit
  restarts

durable == <<kind, state, version, transitions, outbox>>
vars == <<durable, call, answered, phase, unreconciled, restarts>>

CommandId == Command \cup (Id \X Nat)
Book == INSTANCE Ledger WITH NoKind <- None, trail <- transitions

Call == [id: Id, from: State, to: State, version: Nat, command: Command,
         expected: Nat \cup {None}]
Answer(k) == <<k.command, k.id, k.expected>>
Used(command) == \E r \in transitions : r.command = command

-----------------------------------------------------------------------------
\* A mutant of Begins: a kind whose rows would start in another kind's state.
BeginsQueued(t) == IF t = "delivery" THEN "queued" ELSE Initial[t]
Begins(t) == Initial[t]

\* create; a delivery's row and its lifecycle entity are inserted by one transaction.
Create(i, t) ==
  /\ phase = "up"
  /\ kind[i] = None
  /\ kind' = [kind EXCEPT ![i] = t]
  /\ state' = [state EXCEPT ![i] = Begins(t)]
  /\ outbox' = IF t = "delivery" THEN [outbox EXCEPT ![i] = Begins(t)] ELSE outbox
  /\ UNCHANGED <<version, transitions, call, answered, phase, unreconciled, restarts>>

\* The command was carried out before: transition() answers with the entity as it is.
Repeat(i, command) ==
  /\ phase = "up"
  /\ \E r \in transitions : r.id = i /\ r.command = command
  /\ answered' = answered \cup {<<command, i, None>>}
  /\ UNCHANGED <<durable, call, phase, unreconciled, restarts>>

\* The table's check, and a mutant without it.
AnyTarget(i, to) == to \in State
Allowed(i, to) == <<state[i], to>> \in Rules[kind[i]]

\* expected_version, which the caller read before, and a mutant that takes any.
AnyVersion(i, expected) == expected \in Nat \cup {None}
AsExpected(i, expected) == expected \in {None, version[i]}

\* The reads and checks of transition().  Each failed check raises and changes nothing.
Read(c, i, to, command, expected) ==
  /\ phase = "up"
  /\ call[c] = None
  /\ kind[i] # None
  /\ ~Used(command)
  /\ AsExpected(i, expected)
  /\ Allowed(i, to)
  /\ call' = [call EXCEPT ![c] = [id |-> i, from |-> state[i], to |-> to,
                                  version |-> version[i], command |-> command,
                                  expected |-> expected]]
  /\ UNCHANGED <<durable, answered, phase, unreconciled, restarts>>

\* The log row of a change, made of what the caller read.
RowOf(k, recovery) ==
  [id |-> k.id, version |-> k.version + 1, command |-> k.command, from |-> k.from, to |-> k.to,
   recovery |-> recovery]

\* The transaction's effect: projection, entity and log row together.  A mutant forgets
\* the projection of a recovered delivery.
WriteWithoutProjection(k, recovery) ==
  /\ state' = [state EXCEPT ![k.id] = k.to]
  /\ version' = [version EXCEPT ![k.id] = @ + 1]
  /\ transitions' = transitions \cup {RowOf(k, recovery)}
  /\ outbox' = IF kind[k.id] = "delivery" /\ ~recovery THEN [outbox EXCEPT ![k.id] = k.to] ELSE outbox
  /\ UNCHANGED kind

Write(k, recovery) ==
  /\ state' = [state EXCEPT ![k.id] = k.to]
  /\ version' = [version EXCEPT ![k.id] = @ + 1]
  /\ transitions' = transitions \cup {RowOf(k, recovery)}
  /\ outbox' = IF kind[k.id] = "delivery" THEN [outbox EXCEPT ![k.id] = k.to] ELSE outbox
  /\ UNCHANGED kind

\* The row counts of both UPDATEs and the UNIQUE command_id.  The mutants drop one each.
UnversionedWins(k) == ~Used(k.command)
RepeatableWins(k) == version[k.id] = k.version /\ (kind[k.id] = "delivery" => outbox[k.id] = k.from)
Wins(k) ==
  /\ version[k.id] = k.version
  /\ kind[k.id] = "delivery" => outbox[k.id] = k.from
  /\ ~Used(k.command)

\* transition_lifecycle commits and transition() returns ...
Commit(c) ==
  /\ phase = "up"
  /\ call[c] # None
  /\ Wins(call[c])
  /\ Write(call[c], FALSE)
  /\ answered' = answered \cup {Answer(call[c])}
  /\ call' = [call EXCEPT ![c] = None]
  /\ UNCHANGED <<phase, unreconciled, restarts>>

\* ... or it rolls back and transition() raises.

Conflict(c) ==
  /\ phase = "up"
  /\ call[c] # None
  /\ ~Wins(call[c])
  /\ call' = [call EXCEPT ![c] = None]
  /\ UNCHANGED <<durable, answered, phase, unreconciled, restarts>>

-----------------------------------------------------------------------------
Crash ==
  /\ phase # "down" /\ restarts < MaxRestarts
  /\ phase' = "down"
  /\ restarts' = restarts + 1
  /\ call' = [c \in Caller |-> None]
  /\ unreconciled' = {}
  /\ UNCHANGED <<durable, answered>>

\* reconcile() lists the entities before anything else runs.
Restart ==
  /\ phase = "down"
  /\ phase' = "reconciling"
  /\ unreconciled' = {i \in Id : kind[i] # None}
  /\ UNCHANGED <<durable, call, answered, restarts>>

\* A uuid makes the command of a recovery unique; the entity and its next version stand for it.
Recover(i, to) ==
  [id |-> i, from |-> state[i], to |-> to, version |-> version[i],
   command |-> <<i, version[i] + 1>>]

Reconcile(i) ==
  /\ phase = "reconciling"
  /\ i \in unreconciled
  /\ unreconciled' = unreconciled \ {i}
  /\ \/ \E step \in Recovery[kind[i]] :
          step[1] = state[i] /\ Write(Recover(i, step[2]), TRUE)
     \/ (\A step \in Recovery[kind[i]] : step[1] # state[i]) /\ UNCHANGED durable
  /\ UNCHANGED <<call, answered, phase, restarts>>

Reconciled ==
  /\ phase = "reconciling" /\ unreconciled = {}
  /\ phase' = "up"
  /\ UNCHANGED <<durable, call, answered, unreconciled, restarts>>

Init ==
  /\ kind = [i \in Id |-> None] /\ state = [i \in Id |-> None]
  /\ version = [i \in Id |-> 0]
  /\ transitions = {}
  /\ outbox = [i \in Id |-> None]
  /\ call = [c \in Caller |-> None]
  /\ answered = {}
  /\ phase = "up" /\ unreconciled = {} /\ restarts = 0

Next ==
  \/ \E i \in Id, t \in EntityType : Create(i, t)
  \/ \E i \in Id, command \in Command : Repeat(i, command)
  \/ \E c \in Caller, i \in Id, to \in State, command \in Command :
       \E expected \in {None} \cup 0..version[i] : Read(c, i, to, command, expected)
  \/ \E c \in Caller : Commit(c) \/ Conflict(c)
  \/ Crash \/ Restart \/ Reconciled
  \/ \E i \in Id : Reconcile(i)

Spec == Init /\ [][Next]_vars
-----------------------------------------------------------------------------
(* Properties.                                                             *)

\* Every variable holds a value of its kind; an entity is in a state of its own machine.
StateOf(t) == {Initial[t]} \cup {step[2] : step \in Rules[t] \cup Recovery[t]}

TypeOK ==
  /\ kind \in [Id -> EntityType \cup {None}]
  /\ \A i \in Id : kind[i] # None => state[i] \in StateOf(kind[i])
  /\ state \in [Id -> State \cup {None}]
  /\ version \in [Id -> Nat]
  /\ transitions \subseteq Book!Row
  /\ outbox \in [Id -> State \cup {None}]
  /\ call \in [Caller -> Call \cup {None}]
  /\ answered \subseteq Command \X Id \X (Nat \cup {None})
  /\ phase \in {"up", "down", "reconciling"}
  /\ unreconciled \subseteq Id
  /\ restarts \in Nat

\* The log replays to the entity: its rows are numbered 1..version, each starts where the one
\* before ended, the first at the initial state, and the last one ends at the state that is
\* stored, whichever callers raced (transition_lifecycle's optimistic update).
TrailReplays ==
  \A i \in Id :
    LET rows == {r \in transitions : r.id = i} IN
    /\ \A r \in rows : r.version \in 1..version[i]
    /\ \A r, q \in rows : r.version = q.version => r = q
    /\ version[i] > 0 => \E r \in rows : r.version = version[i] /\ r.to = state[i]
    /\ \A r \in rows : IF r.version = 1 THEN r.from = Initial[kind[i]]
                       ELSE \E q \in rows : q.version = r.version - 1 /\ q.to = r.from

\* A command takes effect at most once, on one entity, however often and by whomever it is
\* sent (find_transition and the UNIQUE command_id).
CommandTakesEffectOnce == \A r, q \in transitions : r.command = q.command => r = q

\* Whoever was told that its command succeeded finds it in the log of that entity, also
\* after a crash.
AnsweredIsRecorded ==
  \A a \in answered : \E r \in transitions : r.command = a[1] /\ r.id = a[2]

\* A caller that names the version it decided upon changes that version or none
\* (expected_version, read before an await).
NoStaleDecision ==
  \A a \in answered : a[3] # None =>
    \E r \in transitions : r.command = a[1] /\ r.id = a[2] /\ r.version = a[3] + 1

\* The Outbox row and the lifecycle entity of a delivery never disagree
\* (_update_lifecycle_projection in the same transaction).
ProjectionAgrees ==
  \A i \in Id : outbox[i] = IF kind[i] = "delivery" THEN state[i] ELSE None

\* A verdict is final: nothing a caller sends, no race and no restart leaves it.  Only
\* a failed delivery may be retried.
Final(t) ==
  {"succeeded", "exhausted", "cancelled", "rejected", "approved", "expired", "delivered"}
    \cup (IF t = "delivery" THEN {} ELSE {"failed"})

FinalStaysFinal ==
  [][\A i \in Id : kind[i] # None /\ state[i] \in Final(kind[i]) => state'[i] = state[i]]_vars

\* The service implements the ledger.
Implements == Book!Spec
=============================================================================
