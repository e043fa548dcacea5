-------------------------- MODULE LifecycleProofs ---------------------------
(***************************************************************************)
(* The store of lifecycle entities keeps its invariants, and implements the *)
(* ledger, for every set of entities, callers and commands.                 *)
(***************************************************************************)
EXTENDS Lifecycle, TLAPS

\* Nothing was written for an entity that does not exist, and an entity nobody changed is
\* where its kind begins.
Untouched ==
  \A i \in Id :
    /\ kind[i] = None => version[i] = 0 /\ state[i] = None
    /\ kind[i] # None /\ version[i] = 0 => state[i] = Initial[kind[i]]

\* A caller's command is its own choice, a recovery's names the row it writes.
RowCommands ==
  \A r \in transitions : r.command \in Command \/ r.command = <<r.id, r.version>>

\* Nobody calls while the process is down or recovering; and what a caller has read is what
\* is stored, as long as the version has not moved.
CallsCurrent ==
  \A c \in Caller : call[c] # None =>
    /\ phase = "up"
    /\ kind[call[c].id] # None
    /\ call[c].version <= version[call[c].id]
    /\ call[c].version = version[call[c].id] => call[c].from = state[call[c].id]
    /\ <<call[c].from, call[c].to>> \in Rules[kind[call[c].id]]
    /\ call[c].expected \in {None, call[c].version}

\* reconcile() lists what exists.
Listed == \A i \in unreconciled : kind[i] # None

\* The part of the inductive invariant about the tables ...
TablesTyped ==
  /\ kind \in [Id -> EntityType \cup {None}]
  /\ \A i \in Id : kind[i] # None => state[i] \in StateOf(kind[i])
  /\ state \in [Id -> State \cup {None}]
  /\ version \in [Id -> Nat]
  /\ transitions \subseteq Book!Row
  /\ outbox \in [Id -> State \cup {None}]

Tables ==
  /\ TablesTyped /\ Untouched /\ TrailReplays
  /\ CommandTakesEffectOnce /\ RowCommands /\ ProjectionAgrees

\* ... and the whole of it.
IInv == TypeOK /\ Tables /\ CallsCurrent /\ Listed /\ AnsweredIsRecorded /\ NoStaleDecision

-----------------------------------------------------------------------------
\* The state machines stay within the states there are.
LEMMA RulesTyped ==
  ASSUME NEW t \in EntityType
  PROVE  /\ Rules[t] \subseteq State \X State
         /\ Recovery[t] \subseteq State \X State
         /\ Initial[t] \in State
         /\ StateOf(t) \subseteq State
<1>1. /\ Rules[t] \subseteq State \X State
      /\ Recovery[t] \subseteq State \X State
      /\ Initial[t] \in State
  BY DEF EntityType, Rules, Recovery, Initial, State, TaskRules, AgentRunRules,
         CapabilityCallRules, ApprovalRules, DeliveryRules
<1>2. QED
  BY <1>1 DEF StateOf

\* The ledger speaks of the same state machines.
LEMMA SameRules ==
  /\ Book!Rules = Rules /\ Book!Recovery = Recovery
  /\ Book!Initial = Initial /\ Book!State = State /\ Book!EntityType = EntityType
BY DEF Book!Rules, Book!TaskRules, Book!AgentRunRules, Book!CapabilityCallRules,
       Book!ApprovalRules, Book!DeliveryRules, Book!Recovery, Book!Initial, Book!State,
       Book!EntityType, Rules, TaskRules, AgentRunRules, CapabilityCallRules, ApprovalRules,
       DeliveryRules, Recovery, Initial, State, EntityType

\* The change k describes may be written: it was read from what is stored, and it is legal.
Sound(k, recovery) ==
  /\ k.id \in Id /\ k.command \in CommandId
  /\ kind[k.id] # None
  /\ k.version = version[k.id] /\ k.from = state[k.id]
  /\ <<k.from, k.to>> \in IF recovery THEN Recovery[kind[k.id]] ELSE Rules[kind[k.id]]
  /\ ~Used(k.command)
  /\ IF recovery THEN k.command = <<k.id, k.version + 1>> ELSE k.command \in Command

\* A sound write keeps the tables consistent.
LEMMA WriteKeepsTables ==
  ASSUME NEW k, NEW recovery \in BOOLEAN, Tables, Sound(k, recovery), Write(k, recovery)
  PROVE  Tables'
<1> DEFINE row == RowOf(k, recovery)
<1>1. /\ kind[k.id] \in EntityType
      /\ k.from \in State /\ k.to \in State
      /\ k.to \in StateOf(kind[k.id])
  BY RulesTyped DEF Tables, TablesTyped, Sound, StateOf
<1>2. row \in Book!Row
  BY <1>1, SameRules DEF Sound, RowOf, Book!Row, CommandId, Tables, TablesTyped
<1>3. TablesTyped'
  BY <1>1, <1>2 DEF Tables, TablesTyped, Sound, Write
<1>4. Untouched'
  BY DEF Tables, TablesTyped, Untouched, Sound, Write
<1>5. TrailReplays'
  <2> DEFINE Rows(i) == {r \in transitions : r.id = i}
  <2> SUFFICES ASSUME NEW i \in Id
               PROVE  LET rows == {r \in transitions' : r.id = i} IN
                      /\ \A r \in rows : r.version \in 1..version'[i]
                      /\ \A r, q \in rows : r.version = q.version => r = q
                      /\ version'[i] > 0 =>
                           \E r \in rows : r.version = version'[i] /\ r.to = state'[i]
                      /\ \A r \in rows :
                           IF r.version = 1 THEN r.from = Initial[kind'[i]]
                           ELSE \E q \in rows : q.version = r.version - 1 /\ q.to = r.from
    BY DEF TrailReplays
  <2>1. /\ version[i] \in Nat
        /\ \A r \in Rows(i) : r.version \in 1..version[i]
        /\ \A r, q \in Rows(i) : r.version = q.version => r = q
        /\ version[i] > 0 => \E r \in Rows(i) : r.version = version[i] /\ r.to = state[i]
        /\ \A r \in Rows(i) : IF r.version = 1 THEN r.from = Initial[kind[i]]
                               ELSE \E q \in Rows(i) : q.version = r.version - 1 /\ q.to = r.from
    BY DEF Tables, TablesTyped, TrailReplays
  <2>2. CASE i # k.id
    <3>1. /\ {r \in transitions' : r.id = i} = Rows(i)
          /\ version'[i] = version[i] /\ state'[i] = state[i] /\ kind' = kind
      BY <2>2, <1>3 DEF Write, RowOf, Tables, TablesTyped
    <3>2. QED
      BY <2>1, <3>1
  <2>3. CASE i = k.id
    <3>1. {r \in transitions' : r.id = i} = Rows(i) \cup {row}
      BY <2>3 DEF Write, RowOf
    <3>2. /\ version'[i] = version[i] + 1 /\ state'[i] = k.to /\ kind' = kind
          /\ row.version = version[i] + 1 /\ row.from = state[i] /\ row.to = k.to
      BY <2>3 DEF Write, RowOf, Sound, Tables, TablesTyped
    <3>3. version[i] = 0 => state[i] = Initial[kind[i]]
      BY <2>3 DEF Tables, Untouched, Sound
    <3>4. QED
      BY <2>1, <3>1, <3>2, <3>3
  <2>4. QED
    BY <2>2, <2>3
<1>6. CommandTakesEffectOnce'
  BY DEF Tables, CommandTakesEffectOnce, Sound, Write, RowOf, Used
<1>7. RowCommands'
  BY DEF Tables, RowCommands, Sound, Write, RowOf
<1>8. ProjectionAgrees'
  BY DEF Tables, TablesTyped, ProjectionAgrees, Sound, Write
<1>9. QED
  BY <1>3, <1>4, <1>5, <1>6, <1>7, <1>8 DEF Tables

\* A sound write is a booking of the ledger.
LEMMA WriteBooks ==
  ASSUME NEW k, NEW recovery \in BOOLEAN, Tables, Sound(k, recovery), Write(k, recovery)
  PROVE  Book!Next
<1> DEFINE row == RowOf(k, recovery)
<1>1. row \in Book!Row /\ k.version \in Nat
  BY RulesTyped, SameRules DEF Tables, TablesTyped, Sound, RowOf, Book!Row, CommandId
<1>2. /\ row.id = k.id /\ row.version = k.version + 1 /\ row.from = k.from
      /\ row.to = k.to /\ row.command = k.command /\ row.recovery = recovery
  BY DEF RowOf
<1>3. Book!Stands(k.id, row.from, k.version)
  BY <1>1, <1>2, SameRules
     DEF Tables, TablesTyped, TrailReplays, Untouched, Sound, Book!Stands, Book!Row
<1>4. Book!Legal(k.id, row)
  BY <1>2, SameRules DEF Sound, Book!Legal
<1>5. row \in transitions' \ transitions /\ \A q \in transitions : q.command # row.command
  BY <1>2 DEF Sound, Write, Used
<1>6. Book!Book(row.id, row, row.version - 1)
  BY <1>1, <1>2, <1>3, <1>4, <1>5 DEF Book!Book, Write
<1>7. QED
  BY <1>1, <1>5, <1>6 DEF Book!Next

-----------------------------------------------------------------------------
\* Whatever was answered stays recorded while rows are only added.
LEMMA AnswersKept ==
  ASSUME AnsweredIsRecorded, NoStaleDecision, transitions \subseteq transitions',
         answered' = answered
  PROVE  AnsweredIsRecorded' /\ NoStaleDecision'
BY DEF AnsweredIsRecorded, NoStaleDecision

\* Init establishes the inductive invariant.
LEMMA InitIInv == Init => IInv
<1> SUFFICES ASSUME Init PROVE IInv
  OBVIOUS
<1>1. TypeOK /\ TablesTyped
  BY LifecycleAssumption DEF Init, TypeOK, TablesTyped, Call
<1>2. Untouched /\ RowCommands /\ ProjectionAgrees /\ CommandTakesEffectOnce
  BY LifecycleAssumption
     DEF Init, Untouched, RowCommands, ProjectionAgrees, CommandTakesEffectOnce, EntityType
<1>3. TrailReplays /\ CallsCurrent /\ Listed /\ AnsweredIsRecorded /\ NoStaleDecision
  BY DEF Init, TrailReplays, CallsCurrent, Listed, AnsweredIsRecorded, NoStaleDecision
<1>4. QED
  BY <1>1, <1>2, <1>3 DEF IInv, Tables

\* A caller's change that wins is sound, and so is a recovery.
LEMMA WinnerIsSound ==
  ASSUME IInv, NEW c \in Caller, call[c] # None, Wins(call[c])
  PROVE  Sound(call[c], FALSE)
BY DEF IInv, TypeOK, CallsCurrent, Wins, Sound, Call, CommandId

\* A recovery transition of the table writes a sound next version (LifecycleService.reconcile).
LEMMA RecoveryIsSound ==
  ASSUME IInv, NEW i \in Id, kind[i] # None,
         NEW step \in Recovery[kind[i]], step[1] = state[i]
  PROVE  Sound(Recover(i, step[2]), TRUE)
<1> DEFINE k == Recover(i, step[2])
<1>1. /\ k.id = i /\ k.version = version[i] /\ k.from = state[i] /\ k.to = step[2]
      /\ k.command = <<i, version[i] + 1>>
  BY DEF Recover
<1>2. version[i] \in Nat /\ kind[i] \in EntityType
  BY DEF IInv, TypeOK
<1>3. <<k.from, k.to>> \in Recovery[kind[i]]
  BY <1>1, <1>2, RulesTyped
<1>4. k.command \in CommandId
  BY <1>1, <1>2 DEF CommandId
<1>5. ~Used(k.command)
  <2> SUFFICES ASSUME NEW r \in transitions, r.command = <<i, version[i] + 1>> PROVE FALSE
    BY <1>1 DEF Used
  <2>1. r.command \notin Command
    BY <1>2, LifecycleAssumption
  <2>2. r.id = i /\ r.version = version[i] + 1
    BY <2>1 DEF IInv, Tables, RowCommands
  <2>3. r.version \in 1..version[i]
    BY <2>2 DEF IInv, Tables, TrailReplays
  <2>4. QED
    BY <1>2, <2>2, <2>3
<1>6. QED
  BY <1>1, <1>3, <1>4, <1>5 DEF Sound

\* What a step that does not write any table has to show of the tables.
LEMMA TablesKept ==
  ASSUME Tables, UNCHANGED durable
  PROVE  Tables'
BY DEF Tables, TablesTyped, Untouched, TrailReplays, CommandTakesEffectOnce, RowCommands,
       ProjectionAgrees, durable, Book!Row

\* Every step preserves the inductive invariant.
LEMMA NextIInv == IInv /\ [Next]_vars => IInv'
<1> SUFFICES ASSUME IInv, [Next]_vars PROVE IInv'
  OBVIOUS
<1>1. ASSUME NEW i \in Id, NEW t \in EntityType, Create(i, t)
      PROVE  IInv'
  <2>1. t # None /\ Initial[t] \in State /\ Initial[t] \in StateOf(t)
    BY RulesTyped, LifecycleAssumption DEF StateOf
  <2>2. TypeOK' /\ TablesTyped'
    BY <1>1, <2>1 DEF IInv, TypeOK, TablesTyped, Create, Begins, Tables
  <2>3. Untouched'
    BY <1>1, <2>1 DEF IInv, TypeOK, Tables, Untouched, Create, Begins
  <2>4. \A r \in transitions : r.id # i
    BY <1>1 DEF IInv, TypeOK, Tables, Untouched, TrailReplays, Create, Book!Row
  <2>5. TrailReplays'
    BY <1>1, <2>4 DEF IInv, TypeOK, Tables, TrailReplays, Untouched, Create, Book!Row
  <2>6. CommandTakesEffectOnce' /\ RowCommands' /\ AnsweredIsRecorded' /\ NoStaleDecision'
    BY <1>1 DEF IInv, Tables, CommandTakesEffectOnce, RowCommands, AnsweredIsRecorded,
                NoStaleDecision, Create
  <2>7. ProjectionAgrees'
    <3>1. /\ kind' = [kind EXCEPT ![i] = t] /\ state' = [state EXCEPT ![i] = Initial[t]]
          /\ outbox' = IF t = "delivery" THEN [outbox EXCEPT ![i] = Initial[t]] ELSE outbox
          /\ kind[i] = None
      BY <1>1 DEF Create, Begins
    <3>2. outbox[i] = None
      BY <3>1, LifecycleAssumption DEF IInv, Tables, ProjectionAgrees, EntityType
    <3>3. \A j \in Id : outbox[j] = IF kind[j] = "delivery" THEN state[j] ELSE None
      BY DEF IInv, Tables, ProjectionAgrees
    <3>4. QED
      BY <3>1, <3>2, <3>3 DEF IInv, TypeOK, ProjectionAgrees
  <2>8. CallsCurrent' /\ Listed'
    BY <1>1 DEF IInv, TypeOK, CallsCurrent, Listed, Create, Call
  <2>9. QED
    BY <2>2, <2>3, <2>5, <2>6, <2>7, <2>8 DEF IInv, Tables
<1>2. ASSUME NEW i \in Id, NEW command \in Command, Repeat(i, command)
      PROVE  IInv'
  <2>1. Tables'
    BY <1>2, TablesKept DEF IInv, Repeat
  <2>2. TypeOK' /\ CallsCurrent' /\ Listed'
    BY <1>2 DEF IInv, TypeOK, CallsCurrent, Listed, Repeat, durable, Call
  <2>3. AnsweredIsRecorded' /\ NoStaleDecision'
    BY <1>2 DEF IInv, AnsweredIsRecorded, NoStaleDecision, Repeat, durable
  <2>4. QED
    BY <2>1, <2>2, <2>3 DEF IInv
<1>3. ASSUME NEW c \in Caller, NEW i \in Id, NEW to \in State, NEW command \in Command,
             NEW expected \in {None} \cup 0..version[i], Read(c, i, to, command, expected)
      PROVE  IInv'
  <2>1. Tables'
    BY <1>3, TablesKept DEF IInv, Read
  <2>2. AnsweredIsRecorded' /\ NoStaleDecision'
    BY <1>3, AnswersKept DEF IInv, Read, durable
  <2>3. kind[i] \in EntityType /\ state[i] \in State /\ version[i] \in Nat
    BY <1>3, RulesTyped DEF IInv, TypeOK, Read
  <2>4. [id |-> i, from |-> state[i], to |-> to, version |-> version[i], command |-> command,
         expected |-> expected] \in Call
    BY <1>3, <2>3 DEF Call
  <2>5. TypeOK'
    BY <1>3, <2>4 DEF IInv, TypeOK, Read, durable
  <2>6. CallsCurrent' /\ Listed'
    BY <1>3, <2>3 DEF IInv, TypeOK, CallsCurrent, Listed, Read, Allowed, AsExpected, durable
  <2>7. QED
    BY <2>1, <2>2, <2>5, <2>6 DEF IInv
<1>4. ASSUME NEW c \in Caller, Commit(c)
      PROVE  IInv'
  <2> DEFINE k == call[c]
  <2>1. k \in Call /\ Sound(k, FALSE) /\ Write(k, FALSE)
    BY <1>4, WinnerIsSound DEF IInv, TypeOK, Commit
  <2>2. Tables'
    BY <2>1, WriteKeepsTables DEF IInv
  <2>3. TypeOK'
    BY <1>4, <2>1, <2>2 DEF IInv, TypeOK, Tables, TablesTyped, Commit, Call, Answer
  <2>4. CallsCurrent' /\ Listed'
    <3>1. /\ version' = [version EXCEPT ![k.id] = @ + 1] /\ kind' = kind
          /\ state' = [state EXCEPT ![k.id] = k.to]
          /\ call' = [call EXCEPT ![c] = None] /\ unreconciled' = unreconciled
      BY <1>4, <2>1 DEF Commit, Write
    <3>2. \A d \in Caller : call'[d] # None => call'[d] = call[d] /\ call[d] \in Call
      BY <3>1 DEF IInv, TypeOK
    <3>3. \A i \in Id : IF i = k.id THEN version'[i] = version[i] + 1
                       ELSE version'[i] = version[i] /\ state'[i] = state[i]
      <4>1. k.id \in Id /\ version \in [Id -> Nat] /\ state \in [Id -> State \cup {None}]
        BY <2>1 DEF IInv, TypeOK, Call
      <4> HIDE DEF k
      <4>2. QED
        BY <3>1, <4>1
    <3>4. ASSUME NEW d \in Caller, call'[d] # None,
                 call'[d].version = version'[call'[d].id]
          PROVE  call'[d].from = state'[call'[d].id]
      <4>1. call[d] \in Call /\ call'[d] = call[d] /\ call[d].version \in Nat
            /\ call[d].id \in Id /\ version[call[d].id] \in Nat
        BY <3>2, <3>4 DEF Call, IInv, TypeOK
      <4>2. call[d].version <= version[call[d].id]
        BY <3>4, <4>1 DEF IInv, CallsCurrent
      <4>3. version'[call[d].id] = version[call[d].id] /\ state'[call[d].id] = state[call[d].id]
        BY <3>3, <3>4, <4>1, <4>2
      <4>4. QED
        BY <3>4, <4>1, <4>3 DEF IInv, CallsCurrent
    <3>5. CallsCurrent'
      <4> SUFFICES ASSUME NEW d \in Caller, call'[d] # None
                   PROVE  /\ phase' = "up" /\ kind'[call'[d].id] # None
                          /\ call'[d].version <= version'[call'[d].id]
                          /\ <<call'[d].from, call'[d].to>> \in Rules[kind'[call'[d].id]]
                          /\ call'[d].expected \in {None, call'[d].version}
        BY <3>4 DEF CallsCurrent
      <4>1. /\ call'[d] = call[d] /\ call[d].id \in Id /\ call[d].version \in Nat
            /\ version[call[d].id] \in Nat
        BY <3>2 DEF Call, IInv, TypeOK
      <4>2. version[call[d].id] <= version'[call[d].id]
        BY <3>3, <4>1
      <4>3. phase' = "up"
        BY <1>4 DEF Commit
      <4>4. version'[call[d].id] \in Nat
        BY <3>3, <4>1
      <4>5. QED
        BY <3>1, <4>1, <4>2, <4>3, <4>4 DEF IInv, CallsCurrent
    <3>6. QED
      BY <3>1, <3>5 DEF IInv, Listed
  <2>5. AnsweredIsRecorded' /\ NoStaleDecision'
    <3> DEFINE row == RowOf(k, FALSE)
    <3>1. /\ row \in transitions' /\ transitions \subseteq transitions'
          /\ row.command = k.command /\ row.id = k.id /\ row.version = k.version + 1
      BY <2>1 DEF Write, RowOf
    <3>2. answered' = answered \cup {<<k.command, k.id, k.expected>>}
      BY <1>4 DEF Commit, Answer
    <3>3. k.expected \in {None, k.version}
      BY <1>4 DEF IInv, CallsCurrent, Commit
    <3> HIDE DEF row, k
    <3>4. AnsweredIsRecorded'
      <4> SUFFICES ASSUME NEW a \in answered'
                   PROVE  \E r \in transitions' : r.command = a[1] /\ r.id = a[2]
        BY DEF AnsweredIsRecorded
      <4>1. CASE a \in answered
        BY <3>1, <4>1 DEF IInv, AnsweredIsRecorded
      <4>2. CASE a = <<k.command, k.id, k.expected>>
        BY <3>1, <4>2
      <4>3. QED
        BY <3>2, <4>1, <4>2
    <3>5. NoStaleDecision'
      <4> SUFFICES ASSUME NEW a \in answered', a[3] # None
                   PROVE  \E r \in transitions' :
                            r.command = a[1] /\ r.id = a[2] /\ r.version = a[3] + 1
        BY DEF NoStaleDecision
      <4>1. CASE a \in answered
        BY <3>1, <4>1 DEF IInv, NoStaleDecision
      <4>2. CASE a = <<k.command, k.id, k.expected>>
        BY <3>1, <3>3, <4>2
      <4>3. QED
        BY <3>2, <4>1, <4>2
    <3>6. QED
      BY <3>4, <3>5
  <2>6. QED
    BY <2>2, <2>3, <2>4, <2>5 DEF IInv
<1>5. ASSUME NEW c \in Caller, Conflict(c)
      PROVE  IInv'
  <2>1. Tables'
    BY <1>5, TablesKept DEF IInv, Conflict
  <2>2. AnsweredIsRecorded' /\ NoStaleDecision'
    BY <1>5, AnswersKept DEF IInv, Conflict, durable
  <2>3. TypeOK' /\ CallsCurrent' /\ Listed'
    BY <1>5 DEF IInv, TypeOK, CallsCurrent, Listed, Conflict, durable, Call
  <2>4. QED
    BY <2>1, <2>2, <2>3 DEF IInv
<1>6. ASSUME Crash \/ Restart \/ Reconciled
      PROVE  IInv'
  <2>1. Tables'
    BY <1>6, TablesKept DEF IInv, Crash, Restart, Reconciled
  <2>2. AnsweredIsRecorded' /\ NoStaleDecision'
    BY <1>6, AnswersKept DEF IInv, Crash, Restart, Reconciled, durable
  <2>3. TypeOK'
    BY <1>6 DEF IInv, TypeOK, Crash, Restart, Reconciled, durable
  <2>4. CallsCurrent' /\ Listed'
    BY <1>6 DEF IInv, TypeOK, CallsCurrent, Listed, Crash, Restart, Reconciled, durable, Call
  <2>5. QED
    BY <2>1, <2>2, <2>3, <2>4 DEF IInv
<1>7. ASSUME NEW i \in Id, Reconcile(i)
      PROVE  IInv'
  <2>1. CASE UNCHANGED durable
    <3>1. Tables'
      BY <2>1, TablesKept DEF IInv
    <3>2. AnsweredIsRecorded' /\ NoStaleDecision'
      BY <1>7, <2>1, AnswersKept DEF IInv, Reconcile, durable
    <3>3. TypeOK' /\ CallsCurrent' /\ Listed'
      BY <1>7, <2>1 DEF IInv, TypeOK, CallsCurrent, Listed, Reconcile, durable, Call
    <3>4. QED
      BY <3>1, <3>2, <3>3 DEF IInv
  <2>2. ASSUME NEW step \in Recovery[kind[i]], step[1] = state[i],
               Write(Recover(i, step[2]), TRUE), kind[i] # None
        PROVE  IInv'
    <3> DEFINE k == Recover(i, step[2])
    <3>1. Sound(k, TRUE)
      BY <2>2, RecoveryIsSound
    <3>2. Tables'
      BY <2>2, <3>1, WriteKeepsTables DEF IInv
    <3>3. AnsweredIsRecorded' /\ NoStaleDecision'
      BY <1>7, <2>2, AnswersKept DEF IInv, Reconcile, Write
    <3>4. TypeOK'
      BY <1>7, <3>2 DEF IInv, TypeOK, Tables, TablesTyped, Reconcile, Call
    <3>5. CallsCurrent' /\ Listed'
      <4>1. /\ k.id = i /\ call' = call /\ kind' = kind
            /\ version' = [version EXCEPT ![i] = @ + 1] /\ state' = [state EXCEPT ![i] = k.to]
            /\ unreconciled' \subseteq unreconciled
        BY <1>7, <2>2 DEF Reconcile, Write, Recover
      <4>2. \A c \in Caller : call[c] = None
        BY <1>7 DEF IInv, CallsCurrent, Reconcile
      <4>3. QED
        BY <4>1, <4>2 DEF IInv, CallsCurrent, Listed
    <3>6. QED
      BY <3>2, <3>3, <3>4, <3>5 DEF IInv
  <2>3. kind[i] # None
    BY <1>7 DEF IInv, Listed, Reconcile
  <2>4. QED
    BY <1>7, <2>1, <2>2, <2>3 DEF Reconcile
<1>8. CASE UNCHANGED vars
  <2>1. Tables'
    BY <1>8, TablesKept DEF IInv, vars
  <2>2. AnsweredIsRecorded' /\ NoStaleDecision'
    BY <1>8, AnswersKept DEF IInv, vars, durable
  <2>3. TypeOK' /\ CallsCurrent' /\ Listed'
    BY <1>8 DEF IInv, TypeOK, CallsCurrent, Listed, vars, durable, Call
  <2>4. QED
    BY <2>1, <2>2, <2>3 DEF IInv
<1>9. QED
  BY <1>1, <1>2, <1>3, <1>4, <1>5, <1>6, <1>7, <1>8 DEF Next

\* The invariant holds throughout.
THEOREM Invariant == Spec => []IInv
<1>1. Init => IInv
  BY InitIInv
<1>2. IInv /\ [Next]_vars => IInv'
  BY NextIInv
<1>3. QED
  BY <1>1, <1>2, PTL DEF Spec

\* Type correctness, for every set of entities, callers and commands.
THEOREM TypeCorrect == Spec => []TypeOK
<1>1. IInv => TypeOK
  BY DEF IInv
<1>2. QED
  BY <1>1, Invariant, PTL

\* The log always replays to the stored entity, whichever callers race.
THEOREM TrailAlwaysReplays == Spec => []TrailReplays
<1>1. IInv => TrailReplays
  BY DEF IInv, Tables
<1>2. QED
  BY <1>1, Invariant, PTL

\* No command ever takes effect twice, and no answer is lost in a crash.
THEOREM CommandsAreIdempotent == Spec => [](CommandTakesEffectOnce /\ AnsweredIsRecorded)
<1>1. IInv => CommandTakesEffectOnce /\ AnsweredIsRecorded
  BY DEF IInv, Tables
<1>2. QED
  BY <1>1, Invariant, PTL

\* A decision that names a version changes that version or nothing.
THEOREM NoDecisionIsStale == Spec => []NoStaleDecision
<1>1. IInv => NoStaleDecision
  BY DEF IInv
<1>2. QED
  BY <1>1, Invariant, PTL

\* Outbox and lifecycle never disagree about a delivery.
THEOREM ProjectionAlwaysAgrees == Spec => []ProjectionAgrees
<1>1. IInv => ProjectionAgrees
  BY DEF IInv, Tables
<1>2. QED
  BY <1>1, Invariant, PTL

-----------------------------------------------------------------------------
\* No rule, and no recovery, leaves a final state.
LEMMA FinalHasNoRule ==
  ASSUME NEW t \in EntityType, NEW s \in Final(t), NEW to
  PROVE  <<s, to>> \notin Rules[t] \cup Recovery[t]
BY DEF EntityType, Final, Rules, Recovery, TaskRules, AgentRunRules, CapabilityCallRules,
       ApprovalRules, DeliveryRules

\* A verdict is never left, by any interleaving of callers, crashes and restarts.
THEOREM VerdictsAreFinal == Spec => FinalStaysFinal
<1>1. ASSUME IInv, Next, NEW i \in Id, kind[i] # None, state[i] \in Final(kind[i])
      PROVE  state'[i] = state[i]
  <2>1. kind[i] \in EntityType
    BY <1>1 DEF IInv, TypeOK
  <2>2. ASSUME NEW k, NEW recovery \in BOOLEAN, Sound(k, recovery), Write(k, recovery)
        PROVE  state'[i] = state[i]
    <3>1. i # k.id
      BY <1>1, <2>1, <2>2, FinalHasNoRule DEF Sound
    <3>2. QED
      BY <2>2, <3>1 DEF Write, IInv, TypeOK
  <2>3. ASSUME NEW j \in Id, NEW t \in EntityType, Create(j, t)
        PROVE  state'[i] = state[i]
    BY <1>1, <2>3 DEF Create, IInv, TypeOK
  <2>4. ASSUME NEW c \in Caller, Commit(c)
        PROVE  state'[i] = state[i]
    BY <1>1, <2>2, <2>4, WinnerIsSound DEF Commit
  <2>5. ASSUME NEW j \in Id, Reconcile(j)
        PROVE  state'[i] = state[i]
    <3>1. kind[j] # None
      BY <1>1, <2>5 DEF IInv, Listed, Reconcile
    <3>2. CASE UNCHANGED durable
      BY <3>2 DEF durable
    <3>3. ASSUME NEW step \in Recovery[kind[j]], step[1] = state[j],
                 Write(Recover(j, step[2]), TRUE)
          PROVE  state'[i] = state[i]
      BY <1>1, <2>2, <3>1, <3>3, RecoveryIsSound
    <3>4. QED
      BY <2>5, <3>2, <3>3 DEF Reconcile
  <2>6. QED
    BY <1>1, <2>3, <2>4, <2>5
       DEF Next, Repeat, Read, Conflict, Crash, Restart, Reconciled, durable
<1>2. IInv /\ [Next]_vars =>
        [\A i \in Id : kind[i] # None /\ state[i] \in Final(kind[i]) => state'[i] = state[i]]_vars
  BY <1>1
<1>3. QED
  BY <1>2, Invariant, PTL DEF Spec, FinalStaysFinal

\* The service implements the ledger: every step is a booking, an opening or a stutter.
THEOREM ServiceImplementsLedger == Spec => Implements
<1>1. Init => Book!Init
  BY DEF Init, Book!Init
<1>2. ASSUME IInv, Next
      PROVE  Book!Next \/ UNCHANGED <<kind, transitions>>
  <2>1. ASSUME NEW i \in Id, NEW t \in EntityType, Create(i, t)
        PROVE  Book!Next
    BY <2>1, SameRules DEF Create, Book!Next, Book!Open
  <2>2. ASSUME NEW c \in Caller, Commit(c)
        PROVE  Book!Next
    BY <1>2, <2>2, WinnerIsSound, WriteBooks DEF IInv, Commit
  <2>3. ASSUME NEW i \in Id, Reconcile(i)
        PROVE  Book!Next \/ UNCHANGED <<kind, transitions>>
    <3>1. kind[i] # None
      BY <1>2, <2>3 DEF IInv, Listed, Reconcile
    <3>2. ASSUME NEW step \in Recovery[kind[i]], step[1] = state[i],
                 Write(Recover(i, step[2]), TRUE)
          PROVE  Book!Next
      BY <1>2, <3>1, <3>2, RecoveryIsSound, WriteBooks DEF IInv
    <3>3. QED
      BY <2>3, <3>2 DEF Reconcile, durable
  <2>4. QED
    BY <1>2, <2>1, <2>2, <2>3
       DEF Next, Repeat, Read, Conflict, Crash, Restart, Reconciled, durable
<1>3. IInv /\ [Next]_vars => [Book!Next]_<<kind, transitions>>
  BY <1>2 DEF vars, durable
<1>4. QED
  BY <1>1, <1>3, Invariant, PTL DEF Spec, Implements, Book!Spec
=============================================================================
