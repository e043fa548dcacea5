------------------------------- MODULE Ledger -------------------------------
(***************************************************************************)
(* What the lifecycle store promises, whoever calls it and whenever the     *)
(* process dies: a ledger.  Entities are opened once; every further row     *)
(* continues the trail of its entity from the state the last row left, by a *)
(* rule of the state machine or by the recovery of a restart, and no        *)
(* command is ever booked twice.                                            *)
(***************************************************************************)
EXTENDS Naturals, LifecycleRules

CONSTANTS Id, CommandId, NoKind

VARIABLES
  kind,  \* [Id -> EntityType, or NoKind before the entity is created]
  trail  \* rows of state_transitions

Row == [id: Id, version: Nat, command: CommandId, from: State, to: State, recovery: BOOLEAN]

\* The entity i is in state s after n changes.
Stands(i, s, n) ==
  /\ kind[i] # NoKind
  /\ \A r \in trail : r.id = i => r.version <= n
  /\ \/ n = 0 /\ s = Initial[kind[i]]
     \/ \E r \in trail : r.id = i /\ r.version = n /\ r.to = s

Open(i, t) ==
  /\ kind[i] = NoKind
  /\ kind' = [kind EXCEPT ![i] = t]
  /\ UNCHANGED trail

Legal(i, r) ==
  <<r.from, r.to>> \in IF r.recovery THEN Recovery[kind[i]] ELSE Rules[kind[i]]

Book(i, r, n) ==
  /\ r.id = i /\ r.version = n + 1
  /\ Stands(i, r.from, n)
  /\ Legal(i, r)
  /\ \A q \in trail : q.command # r.command
  /\ trail' = trail \cup {r}
  /\ UNCHANGED kind

Init == kind = [i \in Id |-> NoKind] /\ trail = {}

\* A new row is whatever was added, so that the model checker need not enumerate Row.
Next ==
  \/ \E i \in Id, t \in EntityType : Open(i, t)
  \/ \E r \in trail' \ trail : r \in Row /\ Book(r.id, r, r.version - 1)

Spec == Init /\ [][Next]_<<kind, trail>>
=============================================================================
