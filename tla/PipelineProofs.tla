---------------------------- MODULE PipelineProofs ----------------------------
(***************************************************************************)
(* Proofs about module Pipeline, for every set of events, conversations and *)
(* deliveries and every bound.                                              *)
(***************************************************************************)
EXTENDS Pipeline, SubsequenceProofs

-----------------------------------------------------------------------------
(* Sequences: queues that hold nothing twice.                              *)

Elems(s) == {s[i] : i \in 1..Len(s)}

\* Nothing is in s twice, the sentinel excepted.
NoRepeats(s) == \A i, j \in 1..Len(s) : s[i] = s[j] => i = j \/ s[i] = Stop

\* The empty sequence holds nothing.
LEMMA EmptyElems == Elems(<<>>) = {} /\ NoRepeats(<<>>)
BY DEF Elems, NoRepeats

\* What a sequence holds has its type.
LEMMA ElemsTyped ==
  ASSUME NEW S, NEW s \in Seq(S)
  PROVE  Elems(s) \subseteq S
BY DEF Elems

\* Append adds one element, and repeats none that was not in the sequence.
LEMMA AppendElems ==
  ASSUME NEW S, NEW s \in Seq(S), NEW x \in S
  PROVE  /\ Append(s, x) \in Seq(S)
         /\ Elems(Append(s, x)) = Elems(s) \cup {x}
         /\ NoRepeats(s) /\ (x = Stop \/ x \notin Elems(s)) => NoRepeats(Append(s, x))
<1>1. /\ Append(s, x) \in Seq(S)
      /\ Len(Append(s, x)) = Len(s) + 1
      /\ \A i \in 1..Len(s) : Append(s, x)[i] = s[i]
      /\ Append(s, x)[Len(s) + 1] = x
      /\ Len(s) \in Nat
  OBVIOUS
<1>2. \A i \in 1..(Len(s) + 1) : i \in 1..Len(s) \/ i = Len(s) + 1
  BY <1>1
<1>3. Elems(Append(s, x)) = Elems(s) \cup {x}
  BY <1>1, <1>2 DEF Elems
<1>4. ASSUME NoRepeats(s), x = Stop \/ x \notin Elems(s),
             NEW i \in 1..(Len(s) + 1), NEW j \in 1..(Len(s) + 1), Append(s, x)[i] = Append(s, x)[j]
      PROVE  i = j \/ Append(s, x)[i] = Stop
  BY <1>1, <1>2, <1>4 DEF NoRepeats, Elems
<1> QED  BY <1>1, <1>3, <1>4 DEF NoRepeats

\* Taking the head leaves the others, without the head if nothing was twice in the sequence.
LEMMA TailElems ==
  ASSUME NEW S, NEW s \in Seq(S), s # <<>>
  PROVE  /\ Head(s) \in S /\ Tail(s) \in Seq(S)
         /\ Elems(s) = Elems(Tail(s)) \cup {Head(s)}
         /\ NoRepeats(s) => NoRepeats(Tail(s)) /\ (Head(s) # Stop => Head(s) \notin Elems(Tail(s)))
<1>1. /\ Head(s) \in S /\ Tail(s) \in Seq(S) /\ Head(s) = s[1]
      /\ Len(s) \in Nat /\ Len(s) > 0 /\ Len(Tail(s)) = Len(s) - 1
      /\ \A i \in 1..Len(Tail(s)) : Tail(s)[i] = s[i + 1]
  BY HeadTailProperties
<1>2. ASSUME NEW i \in 1..Len(s), i # 1
      PROVE  i - 1 \in 1..Len(Tail(s)) /\ Tail(s)[i - 1] = s[i]
  <2>1. i - 1 \in 1..Len(Tail(s))  BY <1>1, <1>2
  <2>2. Tail(s)[i - 1] = s[(i - 1) + 1]  BY <1>1, <2>1
  <2> QED  BY <2>1, <2>2
<1>3. Elems(s) \subseteq Elems(Tail(s)) \cup {Head(s)}
  BY <1>1, <1>2 DEF Elems
<1>4. \A i \in 1..Len(Tail(s)) : i + 1 \in 1..Len(s) /\ i + 1 # 1
  BY <1>1
<1>5. Elems(Tail(s)) \cup {Head(s)} \subseteq Elems(s)
  BY <1>1, <1>4 DEF Elems
<1>6. ASSUME NoRepeats(s) PROVE NoRepeats(Tail(s))
  BY <1>1, <1>4, <1>6 DEF NoRepeats
<1>7. ASSUME NoRepeats(s), Head(s) # Stop PROVE Head(s) \notin Elems(Tail(s))
  BY <1>1, <1>4, <1>7 DEF NoRepeats, Elems
<1> QED  BY <1>1, <1>3, <1>5, <1>6, <1>7

-----------------------------------------------------------------------------
(* The recovery query.                                                     *)

\* The query returns what it asks for, each row once, by the position of its arrival.
LEMMA ByArrivalSelects ==
  ASSUME arrival \in Seq(Event), NoRepeats(arrival), Stop \notin Event, NEW S \in SUBSET Event
  PROVE  /\ ByArrival(S) \in Seq(Event)
         /\ NoRepeats(ByArrival(S))
         /\ Elems(ByArrival(S)) = Elems(arrival) \cap S
         /\ \E at \in [1..Len(ByArrival(S)) -> 1..Len(arrival)] :
              \A n \in 1..Len(ByArrival(S)) :
                /\ ByArrival(S)[n] = arrival[at[n]]
                /\ \A m \in 1..Len(ByArrival(S)) : m < n => at[m] < at[n]
<1> DEFINE N == Len(arrival)
           A == {i \in DOMAIN arrival : arrival[i] \in S}
           R == Subsequence(arrival, A)
           C == Len(R)
<1>1. /\ N \in Nat /\ A = {i \in 1..N : arrival[i] \in S} /\ \A i \in 1..N : arrival[i] \in Event
      /\ A \in SUBSET (1..N)
  OBVIOUS
<1>2. ByArrival(S) = R  BY DEF ByArrival
<1>9. A \in SUBSET (1..Len(arrival))  BY <1>1
<1> HIDE DEF A
<1>3. /\ R \in Seq(Event)
      /\ \E at \in [1..C -> A] :
           /\ \A n \in 1..C : /\ R[n] = arrival[at[n]]
                             /\ \A m \in 1..C : m < n => at[m] < at[n]
           /\ \A i \in A : \E n \in 1..C : at[n] = i
  BY <1>9, SubsequenceSelects
<1>4. PICK at \in [1..C -> A] :
        /\ \A n \in 1..C : /\ R[n] = arrival[at[n]]
                          /\ \A m \in 1..C : m < n => at[m] < at[n]
        /\ \A i \in A : \E n \in 1..C : at[n] = i
  BY <1>3
<1> HIDE DEF R
<1>5. C \in Nat /\ DOMAIN R = 1..C  BY <1>3
<1>6. NoRepeats(R)
  <2> SUFFICES ASSUME NEW m \in 1..C, NEW n \in 1..C, R[m] = R[n] PROVE m = n
    BY DEF NoRepeats
  <2>1. arrival[at[m]] = arrival[at[n]] /\ at[m] \in 1..N /\ at[n] \in 1..N
    BY <1>1, <1>4
  <2>2. at[m] = at[n]  BY <1>1, <2>1 DEF NoRepeats
  <2>3. m < n \/ m = n \/ n < m  BY <1>5
  <2> QED  BY <1>1, <1>4, <2>1, <2>2, <2>3
<1>7. Elems(R) = Elems(arrival) \cap S
  <2>1. Elems(R) \subseteq Elems(arrival) \cap S
    BY <1>1, <1>4 DEF Elems
  <2>2. ASSUME NEW i \in 1..N, arrival[i] \in S PROVE arrival[i] \in Elems(R)
    BY <1>1, <1>4, <2>2 DEF Elems
  <2> QED  BY <2>1, <2>2, <1>1 DEF Elems
<1>8. at \in [1..C -> 1..N]  BY <1>1, <1>4
<1> QED  BY <1>2, <1>3, <1>4, <1>6, <1>7, <1>8

-----------------------------------------------------------------------------
(* The types.                                                              *)

RecordTypes ==
  /\ inbox \in [Event -> InboxStatus]
  /\ attempts \in [Event -> Nat]
  /\ arrival \in Seq(Event)
  /\ post \in [Event -> Event]
  /\ task \in [Event -> TaskState] /\ run \in [Event -> TaskState]
  /\ posted \in [Key -> BOOLEAN]
  /\ starts \in Nat /\ manual \in Nat

\* A row's number is the size of the Outbox, which is finite.
OutboxTypes == outbox \in [Key -> Row] /\ IsFiniteSet(Rows)

MemoryTypes ==
  /\ phase \in {"down", "starting", "up", "joining", "closing", "stopping", "exiting", "stopped"}
  /\ recovering \in Seq(Event) /\ admission \in Seq(Event)
  /\ entering \in Event \cup {None} /\ hooks \subseteq Event
  /\ queue \in [Conversation -> Seq(Event \cup {Stop})]
  /\ pc \in [Conversation -> WorkerPc]
  /\ job \in [Conversation -> Event \cup {None}]
  /\ joining \subseteq Conversation
  /\ loop \in [pc : {"off", "poll", "sending", "answer", "settle"}, key : Key \cup {None}]

\* Everything but the count of the pending permits, which needs the invariants below.
Types == RecordTypes /\ OutboxTypes /\ MemoryTypes

\* What the assumption says of events, deliveries and the number of segments.
LEMMA EventConstants ==
  /\ Stop \notin Event /\ None \notin Event \cup Standalone /\ Event \cap Standalone = {}
  /\ ConversationOf \in [Event -> Conversation]
  /\ MaxParts \in Nat \ {0}
BY PipelineAssumption

\* The step of a worker ends at a pc.
LEMMA GotoTyped ==
  ASSUME MemoryTypes, NEW c \in Conversation, NEW n \in WorkerPc, Goto(c, n) \/ Release(c, n)
  PROVE  /\ pc' \in [Conversation -> WorkerPc]
         /\ job' \in [Conversation -> Event \cup {None}]
         /\ queue' \in [Conversation -> Seq(Event \cup {Stop})]
BY DEF MemoryTypes, Goto, Release

\* Submitting an event keeps queues and workers typed (PartitionedScheduler.submit).
LEMMA EnqueueTyped ==
  ASSUME MemoryTypes, NEW e \in Event, Enqueue(e)
  PROVE  /\ pc' \in [Conversation -> WorkerPc]
         /\ job' \in [Conversation -> Event \cup {None}]
         /\ queue' \in [Conversation -> Seq(Event \cup {Stop})]
<1>1. queue[ConversationOf[e]] \in Seq(Event \cup {Stop})
  BY EventConstants DEF MemoryTypes
<1>2. Append(queue[ConversationOf[e]], e) \in Seq(Event \cup {Stop})
  BY <1>1, AppendElems
<1> QED  BY <1>2 DEF MemoryTypes, Enqueue, WorkerPc

\* A new row, with its number.
LEMMA NewRowTyped ==
  ASSUME OutboxTypes, NEW e \in Event \cup Standalone \cup {None}, NEW isError \in BOOLEAN
  PROVE  NewRow(e, isError) \in Row
BY FS_CardinalityType DEF OutboxTypes, NewRow, Row, DeliveryStatus

\* A row is rewritten; the Outbox has no more rows than it had.
LEMMA RewriteTyped ==
  ASSUME OutboxTypes, outbox' \in [Key -> Row],
         \A k \in Key : outbox[k].status = "absent" => outbox'[k].status = "absent"
  PROVE  OutboxTypes'
<1>1. Rows' \in SUBSET Rows  BY DEF Rows
<1> QED  BY <1>1, FS_Subset DEF OutboxTypes

\* Rows that are added are finitely many.
LEMMA AddedTyped ==
  ASSUME OutboxTypes, outbox' \in [Key -> Row], NEW K, IsFiniteSet(K),
         \A k \in Key \ K : outbox'[k] = outbox[k]
  PROVE  OutboxTypes'
<1>1. Rows' \in SUBSET (Rows \cup K)  BY DEF Rows
<1>2. IsFiniteSet(Rows \cup K)  BY FS_Union DEF OutboxTypes
<1> QED  BY <1>1, <1>2, FS_Subset DEF OutboxTypes

\* Who leaves the Outbox alone keeps its types.
LEMMA OutboxFrame ==
  ASSUME OutboxTypes, UNCHANGED outbox
  PROVE  OutboxTypes'
BY DEF OutboxTypes, Rows

\* Next by the party that moves.
IngressStep ==
  \/ \E e \in Event : Accept(e) \/ HookReturns(e)
  \/ \E e, source \in Event : Replay(source, e)
  \/ Ensure \/ Admit
OutboxStep ==
  DeliveryStep \/ RemotePost \/ \E s \in Standalone : EnqueueDelivery(s) \/ RetryDelivery(s)
ProcessStep == Start \/ Recover \/ Started \/ Crash \/ BeginClose \/ CloseStep

\* The steps of Next, by whose they are: ingress, Outbox, process, a conversation's worker.
LEMMA NextByParty ==
  Next <=> \/ IngressStep \/ OutboxStep \/ ProcessStep
           \/ \E c \in Conversation : WorkerStep(c) \/ ProcessorStep(c)
BY DEF Next, IngressStep, OutboxStep, ProcessStep

\* A new event and a replayed one enter by the same insertion (accept_event).
LEMMA AcceptOrReplay ==
  ASSUME RecordTypes, NEW e \in Event,
         Accept(e) \/ \E source \in Event : Replay(source, e)
  PROVE  \E p \in Event : AcceptEvent(e, p)
BY DEF Accept, Replay, RecordTypes

\* Ingress keeps the types.
LEMMA IngressTyped ==
  ASSUME Types, IngressStep
  PROVE  Types'
<1>1. OutboxTypes'
  <2>1. UNCHANGED outbox
    BY DEF IngressStep, Accept, Replay, AcceptEvent, Ensure, HookReturns, Admit, durable
  <2> QED  BY <2>1, OutboxFrame DEF Types
<1>2. ASSUME NEW e \in Event, Accept(e) \/ \E source \in Event : Replay(source, e)
      PROVE  Types'
  <2>1. PICK p \in Event : AcceptEvent(e, p)
    BY <1>2, AcceptOrReplay DEF Types
  <2>2. arrival' \in Seq(Event)
    BY <2>1, AppendElems DEF AcceptEvent, Types, RecordTypes
  <2>3. RecordTypes'
    BY <2>1, <2>2 DEF AcceptEvent, Types, RecordTypes, process, InboxStatus
  <2>4. MemoryTypes'
    BY <2>1 DEF AcceptEvent, Types, MemoryTypes, process, workers
  <2> QED  BY <1>1, <2>3, <2>4 DEF Types
<1>3. CASE Ensure
  <2>1. RecordTypes'
    BY <1>3 DEF Ensure, EnsureEntities, Types, RecordTypes, MemoryTypes, process, TaskState
  <2>2. MemoryTypes'
    BY <1>3 DEF Ensure, Types, MemoryTypes, process, workers
  <2> QED  BY <1>1, <2>1, <2>2 DEF Types
<1>4. ASSUME NEW e \in Event, HookReturns(e) PROVE Types'
  <2>1. RecordTypes'
    BY <1>4 DEF HookReturns, Types, RecordTypes, process, durable
  <2>2. Append(admission, e) \in Seq(Event)
    BY AppendElems DEF Types, MemoryTypes
  <2>3. MemoryTypes'
    BY <1>4, <2>2 DEF HookReturns, Types, MemoryTypes, process, workers
  <2> QED  BY <1>1, <2>1, <2>3 DEF Types
<1>5. CASE Admit
  <2>1. RecordTypes'
    BY <1>5 DEF Admit, Types, RecordTypes, process, durable
  <2>2. Head(admission) \in Event /\ Tail(admission) \in Seq(Event)
    BY <1>5, TailElems DEF Admit, Types, MemoryTypes
  <2>3. /\ pc' \in [Conversation -> WorkerPc]
        /\ job' \in [Conversation -> Event \cup {None}]
        /\ queue' \in [Conversation -> Seq(Event \cup {Stop})]
    BY <1>5, <2>2, EnqueueTyped DEF Admit, Types
  <2>4. MemoryTypes'
    BY <1>5, <2>2, <2>3 DEF Admit, Types, MemoryTypes, process
  <2> QED  BY <1>1, <2>1, <2>4 DEF Types
<1> QED  BY <1>2, <1>3, <1>4, <1>5 DEF IngressStep

\* The steps of a worker and of the processor.
LEMMA WorkerTyped ==
  ASSUME Types, NEW c \in Conversation, WorkerStep(c) \/ ProcessorStep(c)
  PROVE  Types'
<1> USE DEF Types
<1>1. CASE Take(c)
  <2>1. OutboxTypes' /\ RecordTypes'
    BY <1>1, OutboxFrame DEF Take, RecordTypes, durable, process
  <2>2. queue[c] \in Seq(Event \cup {Stop}) /\ queue[c] # <<>>
    BY <1>1 DEF Take, MemoryTypes
  <2>3. Head(queue[c]) \in Event \cup {Stop} /\ Tail(queue[c]) \in Seq(Event \cup {Stop})
    BY <2>2, TailElems
  <2>4. MemoryTypes'
    BY <1>1, <2>3 DEF Take, MemoryTypes, process, ingress, WorkerPc
  <2> QED  BY <2>1, <2>4
<1>2. ASSUME NEW n \in WorkerPc, Goto(c, n) \/ Release(c, n), UNCHANGED <<ingress, process, loop>>
      PROVE  MemoryTypes'
  <2>1. /\ pc' \in [Conversation -> WorkerPc]
        /\ job' \in [Conversation -> Event \cup {None}]
        /\ queue' \in [Conversation -> Seq(Event \cup {Stop})]
    BY <1>2, GotoTyped
  <2> QED  BY <1>2, <2>1 DEF MemoryTypes, ingress, process
<1>3. CASE StartTask(c)
  <2>1. MemoryTypes'  BY <1>2, <1>3 DEF StartTask, WorkerDies, WorkerPc
  <2>2. OutboxTypes' /\ RecordTypes'
    BY <1>3, OutboxFrame DEF StartTask, RecordTypes, process, TaskState
  <2> QED  BY <2>1, <2>2
<1>4. CASE StartRun(c)
  <2>1. MemoryTypes'  BY <1>2, <1>4 DEF StartRun, WorkerDies, WorkerPc
  <2>2. OutboxTypes' /\ RecordTypes'
    BY <1>4, OutboxFrame DEF StartRun, RecordTypes, process, TaskState
  <2> QED  BY <2>1, <2>2
<1>5. CASE MarkProcessing(c)
  <2>1. MemoryTypes'  BY <1>2, <1>5 DEF MarkProcessing, WorkerPc
  <2>2. inbox' \in [Event -> InboxStatus]
    BY <1>5 DEF MarkProcessing, RecordTypes, InboxStatus
  <2>5. attempts' \in [Event -> Nat]
    <3>1. attempts' = [attempts EXCEPT ![job[c]] = @ + 1]  BY <1>5 DEF MarkProcessing
    <3>2. ASSUME NEW e \in Event PROVE attempts[e] \in Nat /\ attempts[e] + 1 \in Nat
      BY DEF RecordTypes
    <3>3. attempts' = [e \in Event |-> IF e = job[c] THEN attempts[e] + 1 ELSE attempts[e]]
      BY <3>1 DEF RecordTypes
    <3> QED  BY <3>2, <3>3
  <2>3. UNCHANGED <<arrival, post, task, run, outbox, process, posted, manual>>
    BY <1>5 DEF MarkProcessing
  <2>4. OutboxTypes' /\ RecordTypes'
    BY <2>2, <2>3, <2>5, OutboxFrame DEF RecordTypes, process
  <2> QED  BY <2>1, <2>4
<1>6. CASE ParkRun(c) \/ ParkTask(c)
  <2>1. MemoryTypes'  BY <1>2, <1>6 DEF ParkRun, ParkTask, WorkerPc
  <2>2. OutboxTypes' /\ RecordTypes'
    BY <1>6, OutboxFrame DEF ParkRun, ParkTask, RecordTypes, process, TaskState
  <2> QED  BY <2>1, <2>2
<1>7. ASSUME NEW n \in 0..MaxParts, NEW isError \in BOOLEAN, Return(c, n, isError)
      PROVE  Types'
  <2> DEFINE K == ReplyKeys(job[c], n)
  <2>1. MemoryTypes'  BY <1>2, <1>7 DEF Return, WorkerPc
  <2>2. RecordTypes'  BY <1>7 DEF Return, RecordTypes, process, InboxStatus
  <2>3. CASE outbox' = [k \in Key |-> IF k \in K THEN NewRow(job[c], isError) ELSE outbox[k]]
    <3>1. IsFiniteSet(K)
      <4>1. n \in Nat /\ IsFiniteSet(1..n)  BY FS_Interval, EventConstants
      <4>2. IsFiniteSet({ThreadRoot[post[job[c]]]})  BY FS_Singleton
      <4> QED  BY <4>1, <4>2, FS_Product DEF ReplyKeys
    <3>2. NewRow(job[c], isError) \in Row  BY NewRowTyped DEF MemoryTypes
    <3> HIDE DEF K
    <3>3. outbox' \in [Key -> Row]  BY <2>3, <3>2 DEF OutboxTypes
    <3> QED  BY <2>1, <2>2, <2>3, <3>1, <3>3, AddedTyped
  <2>4. CASE UNCHANGED outbox
    BY <2>1, <2>2, <2>4, OutboxFrame
  <2> QED  BY <1>7, <2>3, <2>4 DEF Return
<1>8. ASSUME NEW retryable \in BOOLEAN, Raise(c, retryable)
      PROVE  Types'
  <2>1. MemoryTypes'  BY <1>2, <1>8 DEF Raise, WorkerPc
  <2>2. OutboxTypes' /\ RecordTypes'
    BY <1>8, OutboxFrame DEF Raise, RecordTypes, process, InboxStatus
  <2> QED  BY <2>1, <2>2
<1>9. CASE FinishRun(c) \/ FailRun(c)
  <2>1. MemoryTypes'  BY <1>2, <1>9 DEF FinishRun, FailRun, WorkerPc
  <2>2. OutboxTypes' /\ RecordTypes'
    BY <1>9, OutboxFrame DEF FinishRun, FailRun, RecordTypes, process, TaskState
  <2> QED  BY <2>1, <2>2
<1>10. CASE FinishTask(c) \/ FailTask(c)
  <2>1. MemoryTypes'  BY <1>2, <1>10 DEF FinishTask, FailTask, WorkerPc
  <2>2. OutboxTypes' /\ RecordTypes'
    BY <1>10, OutboxFrame DEF FinishTask, FailTask, MoveTask, RecordTypes, process, TaskState
  <2> QED  BY <2>1, <2>2
<1> QED
  BY <1>1, <1>3, <1>4, <1>5, <1>6, <1>7, <1>8, <1>9, <1>10 DEF WorkerStep, ProcessorStep

\* The delivery worker, and what somebody asks of the Outbox.
LEMMA DeliveryTyped ==
  ASSUME Types, OutboxStep
  PROVE  Types'
<1> USE DEF Types
<1>1. UNCHANGED <<inbox, attempts, arrival, post, run, ingress, workers, process>>
  BY DEF OutboxStep, DeliveryStep, BeginDelivery, DeliverySucceeds, DeliveryFails, Settle, RemotePost, EnqueueDelivery,
         RetryDelivery, DeliveryUnchanged
<1>2. ASSUME task' \in [Event -> TaskState], manual' \in Nat, posted' \in [Key -> BOOLEAN],
             loop' \in [pc : {"off", "poll", "sending", "answer", "settle"}, key : Key \cup {None}],
             OutboxTypes'
      PROVE  Types'
  BY <1>1, <1>2 DEF RecordTypes, MemoryTypes, process, ingress, workers
<1>3. ASSUME NEW k \in Key \cup {None}, NEW status \in DeliveryStatus, SetStatus(k, status)
      PROVE  OutboxTypes'
  <2>1. outbox' \in [Key -> Row]
    BY <1>3 DEF SetStatus, OutboxTypes, Row
  <2>2. \A j \in Key \ {k} : outbox'[j] = outbox[j]
    BY <1>3 DEF SetStatus, OutboxTypes
  <2> QED  BY <2>1, <2>2, AddedTyped, FS_Singleton
<1>4. ASSUME NEW k \in Key, BeginDelivery(k) PROVE Types'
  <2>1. outbox' = [outbox EXCEPT ![k].status = "sending", ![k].attempts = @ + 1]
    BY <1>4 DEF BeginDelivery
  <2>2. outbox[k] \in Row  BY DEF OutboxTypes
  <2>3. outbox' = [outbox EXCEPT ![k] = [outbox[k] EXCEPT !.status = "sending", !.attempts = outbox[k].attempts + 1]]
    BY <2>1 DEF OutboxTypes
  <2>6. outbox[k].attempts \in Nat  BY <2>2 DEF Row
  <2>7. outbox[k].attempts + 1 \in Nat  BY <2>6
  <2>4. [outbox[k] EXCEPT !.status = "sending", !.attempts = outbox[k].attempts + 1] \in Row
    BY <2>2, <2>7 DEF Row, DeliveryStatus
  <2>5. OutboxTypes'
    BY <2>3, <2>4, AddedTyped, FS_Singleton DEF OutboxTypes
  <2> QED  BY <1>2, <1>4, <2>5 DEF BeginDelivery, RecordTypes
<1>5. CASE DeliverySucceeds
  <2>1. OutboxTypes'  BY <1>3, <1>5 DEF DeliverySucceeds, MemoryTypes, DeliveryStatus
  <2> QED  BY <1>2, <1>5, <2>1 DEF DeliverySucceeds, RecordTypes, MemoryTypes
<1>6. CASE DeliveryFails
  <2>1. OutboxTypes'  BY <1>3, <1>6 DEF DeliveryFails, MemoryTypes, DeliveryStatus
  <2>2. loop' \in [pc : {"off", "poll", "sending", "answer", "settle"}, key : Key \cup {None}]
    BY <1>6 DEF DeliveryFails, MemoryTypes
  <2> QED  BY <1>2, <1>6, <2>1, <2>2 DEF DeliveryFails, RecordTypes
<1>7. CASE Settle
  <2>1. OutboxTypes'  BY <1>7, OutboxFrame DEF Settle
  <2>2. task' \in [Event -> TaskState]
    BY <1>7 DEF Settle, MoveTask, RecordTypes, TaskState
  <2> QED  BY <1>2, <1>7, <2>1, <2>2 DEF Settle, RecordTypes, MemoryTypes
<1>8. CASE RemotePost
  <2>1. OutboxTypes'  BY <1>8, OutboxFrame DEF RemotePost
  <2> QED  BY <1>2, <1>8, <2>1 DEF RemotePost, RecordTypes, MemoryTypes
<1>9. \A s \in Standalone : <<s, 1>> \in Key  BY EventConstants DEF Key
<1>10. ASSUME NEW s \in Standalone, EnqueueDelivery(s) PROVE Types'
  <2>1. NewRow(s, FALSE) \in Row  BY NewRowTyped
  <2>2. outbox' = [outbox EXCEPT ![<<s, 1>>] = NewRow(s, FALSE)]  BY <1>10 DEF EnqueueDelivery
  <2>3. OutboxTypes'
    BY <1>9, <2>1, <2>2, AddedTyped, FS_Singleton DEF OutboxTypes
  <2> QED  BY <1>2, <1>10, <2>3 DEF EnqueueDelivery, RecordTypes, MemoryTypes
<1>11. ASSUME NEW s \in Standalone, RetryDelivery(s) PROVE Types'
  <2> DEFINE k == <<s, 1>>
  <2>1. outbox' = [outbox EXCEPT ![k].status = "retrying", ![k].attempts = 0]
    BY <1>11 DEF RetryDelivery
  <2>2. outbox[k] \in Row  BY <1>9 DEF OutboxTypes
  <2> HIDE DEF k
  <2>3. outbox' = [outbox EXCEPT ![k] = [outbox[k] EXCEPT !.status = "retrying", !.attempts = 0]]
    BY <2>1 DEF OutboxTypes
  <2>4. [outbox[k] EXCEPT !.status = "retrying", !.attempts = 0] \in Row
    BY <2>2 DEF Row, DeliveryStatus
  <2>5. OutboxTypes'
    BY <2>3, <2>4, AddedTyped, FS_Singleton DEF OutboxTypes
  <2>6. manual' \in Nat /\ UNCHANGED <<task, loop, posted>>
    BY <1>11 DEF RetryDelivery, RecordTypes
  <2>7. task' \in [Event -> TaskState] /\ posted' \in [Key -> BOOLEAN]
        /\ loop' \in [pc : {"off", "poll", "sending", "answer", "settle"}, key : Key \cup {None}]
    BY <2>6 DEF RecordTypes, MemoryTypes
  <2> QED  BY <1>2, <2>5, <2>6, <2>7
<1> QED
  BY <1>4, <1>5, <1>6, <1>7, <1>8, <1>10, <1>11 DEF OutboxStep, DeliveryStep

\* The process.  What a start hands out are events, because the query returns events.
LEMMA ProcessTyped ==
  ASSUME Types, NoRepeats(arrival), ProcessStep
  PROVE  Types'
<1> USE DEF Types
<1>1. CASE Start
  <2>1. recovering' \in Seq(Event)
    <3>1. Handed \in SUBSET Event  BY DEF Handed
    <3> QED  BY <1>1, <3>1, ByArrivalSelects, EventConstants DEF Start, Recoverable, RecordTypes
  <2>2. RecordTypes'
    BY <1>1 DEF Start, ReconciledExecutions, RecordTypes, TaskState, InboxStatus
  <2>3. MemoryTypes'
    BY <1>1, <2>1 DEF Start, MemoryTypes, workers
  <2>4. outbox' \in [Key -> Row]
    BY <1>1 DEF Start, ReconciledDeliveries, OutboxTypes, Row, DeliveryStatus
  <2>5. \A k \in Key : outbox[k].status = "absent" => outbox'[k].status = "absent"
    BY <1>1 DEF Start, ReconciledDeliveries, OutboxTypes
  <2>6. OutboxTypes'  BY <2>4, <2>5, RewriteTyped
  <2> QED  BY <2>2, <2>3, <2>6
<1>2. CASE Recover
  <2>1. RecordTypes' /\ OutboxTypes'
    BY <1>2, OutboxFrame DEF Recover, RecordTypes, process, durable
  <2>2. Head(recovering) \in Event /\ Tail(recovering) \in Seq(Event)
    BY <1>2, TailElems DEF Recover, MemoryTypes
  <2>3. /\ pc' \in [Conversation -> WorkerPc]
        /\ job' \in [Conversation -> Event \cup {None}]
        /\ queue' \in [Conversation -> Seq(Event \cup {Stop})]
    BY <1>2, <2>2, EnqueueTyped DEF Recover
  <2>4. MemoryTypes'
    BY <1>2, <2>2, <2>3 DEF Recover, MemoryTypes, process
  <2> QED  BY <2>1, <2>4
<1>3. CASE Started \/ BeginClose \/ OutboxDrained \/ WorkersGone
          \/ \E c \in Conversation : JoinQueue(c)
  <2>1. RecordTypes' /\ OutboxTypes'
    BY <1>3, OutboxFrame
       DEF Started, BeginClose, OutboxDrained, WorkersGone, JoinQueue, RecordTypes, durable
  <2>2. MemoryTypes'
    BY <1>3 DEF Started, BeginClose, OutboxDrained, WorkersGone, JoinQueue, MemoryTypes, Registered,
                ingress, workers
  <2> QED  BY <2>1, <2>2
<1>4. CASE StopWorkers
  <2>1. RecordTypes' /\ OutboxTypes'
    BY <1>4, OutboxFrame DEF StopWorkers, RecordTypes, durable
  <2>2. \A d \in Conversation : Append(queue[d], Stop) \in Seq(Event \cup {Stop})
    BY AppendElems DEF MemoryTypes
  <2>3. MemoryTypes'
    BY <1>4, <2>2 DEF StopWorkers, MemoryTypes, Registered, ingress
  <2> QED  BY <2>1, <2>3
<1>5. CASE Crash \/ LoopExits
  <2>1. RecordTypes' /\ OutboxTypes'
    BY <1>5, OutboxFrame DEF Crash, LoopExits, RecordTypes, durable
  <2>3. /\ recovering' = <<>> /\ entering' = None /\ hooks' = {} /\ admission' = <<>>
        /\ queue' = [d \in Conversation |-> <<>>]
        /\ pc' = [d \in Conversation |-> "absent"]
        /\ job' = [d \in Conversation |-> None]
        /\ joining' = {} /\ loop' = [pc |-> "off", key |-> None]
        /\ phase' \in {"down", "stopped"}
    BY <1>5 DEF Crash, LoopExits, LoseMemory
  <2>4. <<>> \in Seq(Event) /\ <<>> \in Seq(Event \cup {Stop})  BY EmptySeq
  <2>2. MemoryTypes'
    BY <2>3, <2>4 DEF MemoryTypes, WorkerPc
  <2> QED  BY <2>1, <2>2
<1> QED
  BY <1>1, <1>2, <1>3, <1>4, <1>5 DEF ProcessStep, CloseStep

-----------------------------------------------------------------------------
(* Custody: at every moment one party holds an accepted event, and only one.*)

Unsettled == {"accepted", "processing", "retrying"}
Resting == {"absent", "idle", "dead", "gone"}

Arrived == NoRepeats(arrival) /\ Elems(arrival) = {e \in Event : inbox[e] # "absent"}

\* Memory is empty while there is no process; only a start hands out what was left.
MemoryByPhase ==
  /\ ~Alive => /\ recovering = <<>> /\ entering = None /\ hooks = {} /\ admission = <<>>
               /\ queue = [c \in Conversation |-> <<>>]
               /\ pc = [c \in Conversation |-> "absent"]
               /\ job = [c \in Conversation |-> None]
               /\ loop.pc = "off"
  /\ phase = "starting" => entering = None /\ hooks = {} /\ admission = <<>>
  /\ phase # "starting" => recovering = <<>>

Queued(e) == e \in Elems(queue[ConversationOf[e]])

OwnConversation ==
  \A c \in Conversation :
    /\ job[c] # None => ConversationOf[job[c]] = c
    /\ \A e \in Elems(queue[c]) : e # Stop => ConversationOf[e] = c

HeldOnce ==
  /\ NoRepeats(admission) /\ NoRepeats(recovering)
  /\ \A c \in Conversation : NoRepeats(queue[c])
  /\ \A e \in Event :
       /\ entering = e => e \notin hooks /\ e \notin Elems(admission) /\ ~Queued(e)
       /\ e \in hooks => e \notin Elems(admission) /\ ~Queued(e)
       /\ e \in Elems(admission) \/ e \in Elems(recovering) => ~Queued(e)

\* Somebody holds e and has not begun it.
Waiting(e) ==
  entering = e \/ e \in hooks \/ e \in Elems(admission) \/ e \in Elems(recovering) \/ Queued(e)

WaitingIsAccepted ==
  \A e \in Event : Waiting(e) => inbox[e] = "accepted" /\ job[ConversationOf[e]] # e

\* The Inbox status of the event a worker at p handles.
Fits(p, status) ==
  /\ p \in {"slot", "start_run", "mark"} => status = "accepted"
  /\ p \in {"agent", "park_task", "card"} => status = "processing"
  /\ p = "sleep" => status = "retrying"
  /\ p \in {"finish_run", "finish_task"} => status = "completed"
  /\ p \in {"fail_run", "fail_task"} => status = "failed"

JobByPc ==
  \A c \in Conversation : (job[c] = None <=> pc[c] \in Resting) /\ Fits(pc[c], inbox[job[c]])

\* A synchronous stretch excludes every other one.
OneStretch ==
  /\ \A c, d \in Conversation : pc[c] \in Synchronous /\ pc[d] \in Synchronous => c = d
  /\ \A c \in Conversation : pc[c] \in Synchronous => loop.pc # "settle" /\ entering = None
  /\ loop.pc = "settle" => entering = None

Custody ==
  /\ Types /\ Arrived
  /\ MemoryByPhase /\ OwnConversation /\ HeldOnce /\ WaitingIsAccepted
  /\ JobByPc /\ OneStretch

\* The queues hold events of known conversations only.
LEMMA SequencesTyped ==
  ASSUME Types
  PROVE  /\ Elems(admission) \subseteq Event /\ Elems(recovering) \subseteq Event
         /\ \A c \in Conversation : Elems(queue[c]) \subseteq Event \cup {Stop}
         /\ \A e \in Event : ConversationOf[e] \in Conversation
BY ElemsTyped, EventConstants DEF Types, MemoryTypes

\* A worker goes on with its event, or lets it go.
LEMMA WorkerMoves ==
  ASSUME Custody, Types', NEW c \in Conversation, pc[c] \notin Resting,
         NEW n \in WorkerPc, NEW status \in InboxStatus \ {"absent"},
         inbox' = [inbox EXCEPT ![job[c]] = status],
         \/ Goto(c, n) /\ n \notin Resting /\ Fits(n, status)
         \/ Release(c, n) /\ n \in Resting,
         pc[c] \in Synchronous \/ Free,
         UNCHANGED <<arrival, phase, ingress, loop>>
  PROVE  Custody'
<1> USE DEF Custody
<1>1. job[c] \in Event /\ ConversationOf[job[c]] = c /\ Alive
  BY DEF JobByPc, Types, MemoryTypes, OwnConversation, MemoryByPhase, Resting
<1>2. /\ \A d \in Conversation : d # c => pc'[d] = pc[d] /\ job'[d] = job[d]
      /\ \A d \in Conversation : job[d] = job[c] => d = c
      /\ \A e \in Event : e # job[c] => inbox'[e] = inbox[e]
      /\ inbox'[job[c]] = status /\ pc'[c] = n
      /\ job'[c] = IF n \in Resting THEN None ELSE job[c]
      /\ queue' = queue
  <2>1. /\ pc' = [pc EXCEPT ![c] = n] /\ queue' = queue
        /\ job' = IF n \in Resting THEN [job EXCEPT ![c] = None] ELSE job
    BY DEF Goto, Release
  <2>2. \A d \in Conversation : job[d] = job[c] => d = c
    BY <1>1, EventConstants DEF OwnConversation
  <2>3. DOMAIN pc = Conversation /\ DOMAIN job = Conversation /\ DOMAIN inbox = Event
    BY DEF Types, MemoryTypes, RecordTypes
  <2>4. \A d \in Conversation : d # c => pc'[d] = pc[d] /\ job'[d] = job[d]
    BY <2>1, <2>3
  <2>5. \A e \in Event : e # job[c] => inbox'[e] = inbox[e]
    BY <2>3
  <2>6. inbox'[job[c]] = status /\ pc'[c] = n
    BY <1>1, <2>1, <2>3
  <2>7. job'[c] = IF n \in Resting THEN None ELSE job[c]
    BY <2>1, <2>3
  <2> QED  BY <2>1, <2>2, <2>4, <2>5, <2>6, <2>7
<1>3. Arrived'
  <2>1. inbox[job[c]] # "absent"
    BY DEF JobByPc, Fits, Resting, Types, MemoryTypes, WorkerPc
  <2> QED  BY <1>1, <1>2, <2>1 DEF Arrived
<1>4. MemoryByPhase' /\ OwnConversation'
  BY <1>1, <1>2 DEF MemoryByPhase, OwnConversation, Alive, ingress
<1>5. HeldOnce' /\ WaitingIsAccepted'
  BY <1>1, <1>2, EventConstants DEF HeldOnce, WaitingIsAccepted, Waiting, Queued, ingress
<1>6. JobByPc'
  <2>1. \A d \in Conversation : d # c /\ job[d] # None => inbox'[job[d]] = inbox[job[d]]
    BY <1>1, <1>2 DEF Types, MemoryTypes
  <2>2. \A d \in Conversation : d # c => (job'[d] = None <=> pc'[d] \in Resting) /\ Fits(pc'[d], inbox'[job'[d]])
    BY <1>2, <2>1 DEF JobByPc, Fits, Resting
  <2>3. job'[c] = None <=> n \in Resting
    BY <1>1, <1>2, EventConstants
  <2>4. Fits(n, inbox'[job'[c]])
    <3>1. CASE n \in Resting  BY <3>1 DEF Fits, Resting
    <3>2. CASE n \notin Resting
      <4>1. Fits(n, status)  BY <3>2
      <4> QED  BY <1>2, <3>2, <4>1
    <3> QED  BY <3>1, <3>2
  <2>5. JobByPc' <=> \A d \in Conversation : (job'[d] = None <=> pc'[d] \in Resting) /\ Fits(pc'[d], inbox'[job'[d]])
    BY DEF JobByPc, Fits
  <2> QED  BY <1>2, <2>2, <2>3, <2>4, <2>5
<1>7. OneStretch'
  BY <1>1, <1>2 DEF OneStretch, Free, ingress
<1> QED  BY <1>3, <1>4, <1>5, <1>6, <1>7

\* What leaves the events and their holders alone.
LEMMA OthersMove ==
  ASSUME Custody, Types', UNCHANGED <<arrival, inbox, recovering, entering, hooks, admission,
                                      queue, pc, job>>,
         Alive <=> Alive', phase' = "starting" => phase = "starting",
         phase' = phase \/ recovering = <<>>,
         loop.pc = "off" <=> loop'.pc = "off",
         loop'.pc = "settle" => Free \/ loop.pc = "settle"
  PROVE  Custody'
<1> USE DEF Custody
<1>1. Arrived' /\ OwnConversation' /\ HeldOnce' /\ WaitingIsAccepted' /\ JobByPc'
  BY DEF Arrived, OwnConversation, HeldOnce, WaitingIsAccepted, JobByPc, Waiting, Queued
<1>2. MemoryByPhase' /\ OneStretch'
  BY DEF MemoryByPhase, OneStretch, Free
<1> QED  BY <1>1, <1>2

\* An event arrives at its own queue.
LEMMA EventEnqueued ==
  ASSUME Custody, Types', NEW e \in Event, Enqueue(e), Alive,
         UNCHANGED <<arrival, inbox, phase, entering, hooks, loop>>,
         \/ /\ UNCHANGED recovering /\ admission # <<>>
            /\ e = Head(admission) /\ admission' = Tail(admission)
         \/ /\ UNCHANGED admission /\ recovering # <<>>
            /\ e = Head(recovering) /\ recovering' = Tail(recovering)
  PROVE  Custody'
<1> USE DEF Custody
<1> DEFINE c == ConversationOf[e]
<1>1. c \in Conversation  BY EventConstants
<1>2. /\ queue' = [queue EXCEPT ![c] = Append(queue[c], e)]
      /\ pc' = [pc EXCEPT ![c] = IF pc[c] = "absent" THEN "idle" ELSE pc[c]]
      /\ UNCHANGED job
  BY DEF Enqueue
<1> HIDE DEF c
<1>3. queue[c] \in Seq(Event \cup {Stop})  BY <1>1 DEF Types, MemoryTypes
<1>4. /\ Elems(queue'[c]) = Elems(queue[c]) \cup {e}
      /\ e \notin Elems(queue[c]) => NoRepeats(queue'[c])
      /\ \A d \in Conversation : d # c => queue'[d] = queue[d]
  BY <1>1, <1>2, <1>3, AppendElems DEF HeldOnce, Types, MemoryTypes
<1>5. /\ Elems(admission) \subseteq Event /\ Elems(recovering) \subseteq Event
      /\ admission \in Seq(Event) /\ recovering \in Seq(Event)
  BY SequencesTyped DEF Types, MemoryTypes
<1>6. /\ NoRepeats(admission') /\ NoRepeats(recovering')
      /\ Elems(admission') \subseteq Elems(admission) /\ Elems(recovering') \subseteq Elems(recovering)
      /\ e \notin Elems(admission') /\ e \notin Elems(recovering')
      /\ Waiting(e) /\ ~Queued(e) /\ e # entering /\ e \notin hooks
  <2>1. CASE /\ UNCHANGED recovering /\ admission # <<>>
             /\ e = Head(admission) /\ admission' = Tail(admission)
    <3>1. e \in Elems(admission) /\ e \notin Elems(admission') /\ NoRepeats(admission')
          /\ Elems(admission') \subseteq Elems(admission)
      BY <1>5, <2>1, TailElems, EventConstants DEF HeldOnce
    <3>2. ~Queued(e) /\ e # entering /\ e \notin hooks
      BY <3>1 DEF HeldOnce
    <3>3. e \notin Elems(recovering)
      <4>1. phase # "starting"  BY <1>1, <3>1, EmptyElems DEF MemoryByPhase
      <4> QED  BY <4>1, EmptyElems DEF MemoryByPhase
    <3> QED  BY <2>1, <3>1, <3>2, <3>3 DEF HeldOnce, Waiting
  <2>2. CASE /\ UNCHANGED admission /\ recovering # <<>>
             /\ e = Head(recovering) /\ recovering' = Tail(recovering)
    <3>1. e \in Elems(recovering) /\ e \notin Elems(recovering') /\ NoRepeats(recovering')
          /\ Elems(recovering') \subseteq Elems(recovering) /\ recovering # <<>>
      BY <1>5, <2>2, TailElems, EventConstants DEF HeldOnce
    <3>2. entering = None /\ hooks = {} /\ admission = <<>>
      BY <3>1, EmptyElems DEF MemoryByPhase
    <3> QED  BY <2>2, <3>1, <3>2, EmptyElems, EventConstants DEF HeldOnce, Waiting
  <2> QED  BY <2>1, <2>2
<1>7. inbox[e] = "accepted" /\ job[c] # e
  BY <1>6 DEF WaitingIsAccepted, c
<1>8. Arrived' /\ MemoryByPhase'
  <2>1. phase' = "starting" => admission' = <<>>
    BY EmptyElems DEF MemoryByPhase
  <2>2. phase' # "starting" => recovering' = <<>>
    BY DEF MemoryByPhase
  <2> QED  BY <2>1, <2>2 DEF Arrived, MemoryByPhase, Alive
<1>9. OwnConversation'
  BY <1>1, <1>2, <1>4 DEF OwnConversation, c
<1>10. \A d \in Event : Queued(d)' <=> Queued(d) \/ d = e
  BY <1>4, <1>9, SequencesTyped, EventConstants DEF Queued, OwnConversation, c
<1>11. HeldOnce'
  <2>1. \A d \in Conversation : NoRepeats(queue'[d])
    BY <1>4, <1>6 DEF HeldOnce, Queued, c
  <2> QED  BY <1>6, <1>10, <2>1 DEF HeldOnce
<1>12. WaitingIsAccepted'
  BY <1>2, <1>6, <1>7, <1>10 DEF WaitingIsAccepted, Waiting, c
<1>13. JobByPc' /\ OneStretch'
  <2>1. \A d \in Conversation : \/ pc'[d] = pc[d]
                                \/ pc[d] = "absent" /\ pc'[d] = "idle"
    BY <1>1, <1>2 DEF Types, MemoryTypes
  <2> QED  BY <1>2, <2>1 DEF JobByPc, Fits, Resting, OneStretch, Synchronous
<1> QED  BY <1>8, <1>9, <1>11, <1>12, <1>13

\* An event that is accepted or replayed comes into one pair of hands (accept, _submit).
LEMMA IngressCustody ==
  ASSUME Custody, Types', IngressStep
  PROVE  Custody'
<1> USE DEF Custody
<1>1. ASSUME NEW e \in Event, Accept(e) \/ \E source \in Event : Replay(source, e)
      PROVE  Custody'
  <2>1. PICK p \in Event : AcceptEvent(e, p)
    BY <1>1, AcceptOrReplay DEF Types
  <2>2. /\ phase = "up" /\ Free /\ inbox[e] = "absent" /\ entering = None
        /\ inbox' = [inbox EXCEPT ![e] = "accepted"] /\ arrival' = Append(arrival, e) /\ entering' = e
        /\ UNCHANGED <<recovering, hooks, admission, queue, pc, job, phase, loop>>
    BY <2>1 DEF AcceptEvent, Free, workers, process
  <2>3. Elems(arrival') = Elems(arrival) \cup {e} /\ (e \notin Elems(arrival) => NoRepeats(arrival'))
    BY <2>2, AppendElems DEF Types, RecordTypes, Arrived
  <2>4. Arrived'
    BY <2>2, <2>3 DEF Arrived, Types, RecordTypes
  <2>5. ~Waiting(e) /\ \A c \in Conversation : job[c] # e
    <3>1. \A c \in Conversation : pc[c] \notin Resting => inbox[job[c]] # "absent"
      BY DEF JobByPc, Fits, Resting, Types, MemoryTypes, WorkerPc
    <3>2. \A c \in Conversation : job[c] = e => pc[c] \notin Resting
      BY EventConstants DEF JobByPc
    <3> QED  BY <2>2, <3>1, <3>2 DEF WaitingIsAccepted
  <2>6. MemoryByPhase' /\ OwnConversation' /\ HeldOnce'
    BY <2>2, <2>5, EventConstants DEF MemoryByPhase, OwnConversation, HeldOnce, Alive, Queued, Waiting
  <2>7. WaitingIsAccepted'
    BY <2>2, <2>5, EventConstants DEF WaitingIsAccepted, Waiting, Queued, Types, RecordTypes
  <2>8. JobByPc'
    <3>1. \A c \in Conversation : job[c] # e
      BY <2>5
    <3>2. \A c \in Conversation : job[c] # None => inbox'[job[c]] = inbox[job[c]]
      BY <2>2, <3>1 DEF Types, MemoryTypes, RecordTypes
    <3> QED  BY <2>2, <3>2 DEF JobByPc, Fits, Resting
  <2>9. OneStretch'
    BY <2>2 DEF OneStretch, Free
  <2> QED  BY <2>4, <2>6, <2>7, <2>8, <2>9
<1>2. CASE Ensure
  <2>1. /\ entering \in Event /\ hooks' = hooks \cup {entering} /\ entering' = None
        /\ UNCHANGED <<arrival, inbox, recovering, admission, queue, pc, job, phase, loop>>
    BY <1>2 DEF Ensure, workers, process, Types, MemoryTypes
  <2>2. Arrived' /\ OwnConversation' /\ JobByPc' /\ OneStretch' /\ MemoryByPhase'
    BY <2>1, EventConstants DEF Arrived, OwnConversation, JobByPc, OneStretch, MemoryByPhase, Alive, Fits
  <2>3. HeldOnce' /\ WaitingIsAccepted'
    BY <2>1, EventConstants DEF HeldOnce, WaitingIsAccepted, Waiting, Queued
  <2> QED  BY <2>2, <2>3
<1>3. ASSUME NEW e \in Event, HookReturns(e) PROVE Custody'
  <2>1. /\ e \in hooks /\ hooks' = hooks \ {e} /\ Alive /\ Free
        /\ admission' = IF SchedulerClosed THEN admission ELSE Append(admission, e)
        /\ UNCHANGED <<arrival, inbox, recovering, entering, queue, pc, job, phase, loop>>
    BY <1>3 DEF HookReturns, workers, process, durable
  <2>2. e \notin Elems(admission) /\ phase # "starting"
    BY <2>1 DEF HeldOnce, MemoryByPhase
  <2>3. NoRepeats(admission') /\ Elems(admission') \subseteq Elems(admission) \cup {e}
    BY <2>1, <2>2, AppendElems DEF HeldOnce, Types, MemoryTypes
  <2>4. Arrived' /\ OwnConversation' /\ JobByPc' /\ OneStretch' /\ MemoryByPhase'
    BY <2>1, <2>2 DEF Arrived, OwnConversation, JobByPc, OneStretch, MemoryByPhase, Alive, Fits
  <2>5. HeldOnce' /\ WaitingIsAccepted'
    BY <2>1, <2>3, EventConstants DEF HeldOnce, WaitingIsAccepted, Waiting, Queued
  <2> QED  BY <2>4, <2>5
<1>4. CASE Admit
  <2>1. Head(admission) \in Event
    BY <1>4, TailElems DEF Admit, Types, MemoryTypes
  <2> QED  BY <1>4, <2>1, EventEnqueued DEF Admit, durable, process
<1> QED  BY <1>1, <1>2, <1>3, <1>4 DEF IngressStep

\* A worker hands its event on to nobody while it works at it (_worker, _process).
LEMMA WorkerCustody ==
  ASSUME Custody, Types', NEW c \in Conversation, WorkerStep(c) \/ ProcessorStep(c)
  PROVE  Custody'
<1> USE DEF Custody
<1>1. CASE Take(c)
  <2>1. queue[c] \in Seq(Event \cup {Stop}) /\ queue[c] # <<>> /\ Free /\ pc[c] = "idle"
    BY <1>1 DEF Take, Types, MemoryTypes
  <2> DEFINE h == Head(queue[c])
  <2>2. /\ h \in Event \cup {Stop}
        /\ Elems(queue[c]) = Elems(Tail(queue[c])) \cup {h}
        /\ NoRepeats(Tail(queue[c])) /\ (h # Stop => h \notin Elems(Tail(queue[c])))
    BY <2>1, TailElems DEF HeldOnce
  <2>3. /\ queue' = [queue EXCEPT ![c] = Tail(queue[c])]
        /\ \/ h = Stop /\ pc' = [pc EXCEPT ![c] = "gone"] /\ UNCHANGED job
           \/ h # Stop /\ pc' = [pc EXCEPT ![c] = "slot"] /\ job' = [job EXCEPT ![c] = h]
        /\ UNCHANGED <<arrival, inbox, recovering, entering, hooks, admission, phase, loop>>
    BY <1>1 DEF Take, durable, ingress, process
  <2> HIDE DEF h
  <2>4. /\ Elems(queue[c]) = Elems(queue'[c]) \cup {h} /\ NoRepeats(queue'[c])
        /\ h # Stop => h \notin Elems(queue'[c])
        /\ \A d \in Conversation : d # c => queue'[d] = queue[d] /\ pc'[d] = pc[d] /\ job'[d] = job[d]
    BY <2>2, <2>3 DEF Types, MemoryTypes
  <2>5. h # Stop => h \in Event /\ ConversationOf[h] = c /\ Queued(h) /\ inbox[h] = "accepted"
    BY <2>2, <2>4 DEF OwnConversation, Queued, WaitingIsAccepted, Waiting
  <2>6. /\ pc'[c] = IF h = Stop THEN "gone" ELSE "slot"
        /\ job'[c] = IF h = Stop THEN None ELSE h
        /\ job[c] = None
    BY <2>1, <2>3 DEF Types, MemoryTypes, JobByPc, Resting
  <2>7. Arrived' /\ MemoryByPhase'
    BY <2>1, <2>3 DEF Arrived, MemoryByPhase, Alive
  <2>8. OwnConversation'
    BY <2>4, <2>5, <2>6 DEF OwnConversation
  <2>9. \A e \in Event : Queued(e)' <=> Queued(e) /\ e # h
    BY <2>2, <2>4, <2>5, SequencesTyped, EventConstants DEF Queued, OwnConversation
  <2>10. HeldOnce'
    BY <2>3, <2>4, <2>9 DEF HeldOnce
  <2>11. WaitingIsAccepted'
    <3>1. \A e \in Event : Waiting(e)' => Waiting(e) /\ e # h
      BY <2>3, <2>5, <2>9, EventConstants DEF HeldOnce, Waiting
    <3>2. \A e \in Event : e # h => (job'[ConversationOf[e]] = e => job[ConversationOf[e]] = e)
      BY <2>4, <2>6, SequencesTyped, EventConstants
    <3> QED  BY <2>3, <3>1, <3>2 DEF WaitingIsAccepted
  <2>12. JobByPc' /\ OneStretch'
    <3>1. JobByPc'
      BY <2>3, <2>4, <2>5, <2>6, EventConstants DEF JobByPc, Fits, Resting
    <3>2. OneStretch'
      BY <2>1, <2>3, <2>4, <2>6 DEF OneStretch, Free, Synchronous
    <3> QED  BY <3>1, <3>2
  <2> QED  BY <2>7, <2>8, <2>10, <2>11, <2>12
<1>2. ASSUME pc[c] \notin Resting,
             NEW n \in WorkerPc, NEW status \in InboxStatus \ {"absent"},
             inbox' = [inbox EXCEPT ![job[c]] = status],
             \/ Goto(c, n) /\ n \notin Resting /\ Fits(n, status)
             \/ Release(c, n) /\ n \in Resting,
             pc[c] \in Synchronous \/ Free,
             UNCHANGED <<arrival, phase, ingress, loop>>
      PROVE  Custody'
  BY <1>2, WorkerMoves
<1>3. ASSUME UNCHANGED <<inbox, arrival, phase, ingress, loop>>, pc[c] \notin Resting,
             NEW n \in WorkerPc,
             \/ Goto(c, n) /\ n \notin Resting /\ Fits(n, inbox[job[c]])
             \/ Release(c, n) /\ n \in Resting,
             pc[c] \in Synchronous \/ Free
      PROVE  Custody'
  <2>1. job[c] \in Event
    BY <1>3 DEF JobByPc, Types, MemoryTypes
  <2>2. inbox' = [inbox EXCEPT ![job[c]] = inbox[job[c]]] /\ inbox[job[c]] \in InboxStatus
    BY <1>3, <2>1 DEF Types, RecordTypes
  <2>3. inbox[job[c]] # "absent"
    BY <1>3 DEF JobByPc, Fits, Resting, Types, MemoryTypes, WorkerPc
  <2> QED  BY <1>2, <1>3, <2>2, <2>3
<1>4. Fits(pc[c], inbox[job[c]])  BY DEF JobByPc
<1>5. CASE StartTask(c)
  BY <1>3, <1>4, <1>5 DEF StartTask, WorkerDies, WorkerPc, Resting, Fits, process
<1>6. CASE StartRun(c)
  BY <1>3, <1>4, <1>6 DEF StartRun, WorkerDies, WorkerPc, Resting, Fits, process, Synchronous
<1>7. CASE MarkProcessing(c)
  BY <1>2, <1>7 DEF MarkProcessing, WorkerPc, Resting, Fits, process, Synchronous, InboxStatus
<1>8. CASE ParkRun(c)
  BY <1>3, <1>4, <1>8 DEF ParkRun, WorkerPc, Resting, Fits, process
<1>9. CASE ParkTask(c)
  BY <1>3, <1>4, <1>9 DEF ParkTask, WorkerPc, Resting, Fits, process, Synchronous
<1>10. ASSUME NEW n \in 0..MaxParts, NEW isError \in BOOLEAN, Return(c, n, isError)
       PROVE  Custody'
  <2>1. pc[c] \in {"card", "agent"}
    BY <1>10 DEF Return, Replies
  <2> QED  BY <1>2, <1>10, <2>1 DEF Return, WorkerPc, Resting, Fits, process, InboxStatus
<1>11. ASSUME NEW retryable \in BOOLEAN, Raise(c, retryable)
       PROVE  Custody'
  BY <1>2, <1>11 DEF Raise, WorkerPc, Resting, Fits, process, InboxStatus
<1>12. CASE FinishRun(c)
  BY <1>3, <1>4, <1>12 DEF FinishRun, WorkerPc, Resting, Fits, process, Synchronous
<1>13. CASE FinishTask(c)
  BY <1>3, <1>4, <1>13 DEF FinishTask, WorkerPc, Resting, Fits, process, Synchronous
<1>14. CASE FailRun(c)
  BY <1>3, <1>4, <1>14 DEF FailRun, WorkerPc, Resting, Fits, process, Synchronous
<1>15. CASE FailTask(c)
  BY <1>3, <1>4, <1>15 DEF FailTask, WorkerPc, Resting, Fits, process, Synchronous
<1> QED
  BY <1>1, <1>5, <1>6, <1>7, <1>8, <1>9, <1>10, <1>11, <1>12, <1>13, <1>14, <1>15
     DEF WorkerStep, ProcessorStep

\* Deliveries move no event.
LEMMA DeliveryCustody ==
  ASSUME Custody, Types', OutboxStep
  PROVE  Custody'
<1>1. /\ UNCHANGED <<arrival, inbox, recovering, entering, hooks, admission, queue, pc, job, phase>>
      /\ loop' = loop \/ (loop.pc # "off" /\ loop'.pc # "off")
      /\ loop'.pc = "settle" => Free \/ loop.pc = "settle"
  <2>1. CASE RemotePost
    BY <2>1 DEF RemotePost, DeliveryUnchanged, ingress, workers, process, Custody, Types, MemoryTypes
  <2>2. CASE \E s \in Standalone : EnqueueDelivery(s) \/ RetryDelivery(s)
    BY <2>2 DEF EnqueueDelivery, RetryDelivery, DeliveryUnchanged, ingress, workers, process
  <2>3. ASSUME NEW k \in Key, BeginDelivery(k)
        PROVE  loop.pc = "poll" /\ loop'.pc = "sending" /\ DeliveryUnchanged
    BY <2>3 DEF BeginDelivery
  <2>4. ASSUME DeliverySucceeds
        PROVE  Free /\ loop.pc = "answer" /\ loop'.pc = "settle" /\ DeliveryUnchanged
    BY <2>4 DEF DeliverySucceeds, Custody, Types, MemoryTypes
  <2>5. ASSUME DeliveryFails
        PROVE  Free /\ loop.pc # "off" /\ loop'.pc \in {"settle", "poll"} /\ DeliveryUnchanged
    BY <2>5 DEF DeliveryFails, Custody, Types, MemoryTypes
  <2>6. ASSUME Settle
        PROVE  loop.pc = "settle" /\ loop'.pc = "poll" /\ DeliveryUnchanged
    BY <2>6 DEF Settle, Custody, Types, MemoryTypes
  <2>7. CASE DeliveryStep
    BY <2>3, <2>4, <2>5, <2>6, <2>7 DEF DeliveryStep, DeliveryUnchanged, ingress, workers, process
  <2> QED  BY <2>1, <2>2, <2>7 DEF OutboxStep
<1> QED  BY <1>1, OthersMove DEF Alive

\* A crash drops all that memory held; a start takes up what the Inbox has (recover_inbox).
LEMMA ProcessCustody ==
  ASSUME Custody, Types', ProcessStep
  PROVE  Custody'
<1> USE DEF Custody
<1>1. CASE Start
  <2>1. /\ ~Alive /\ Alive' /\ phase' = "starting" /\ loop'.pc = "poll"
        /\ inbox' = [e \in Event |-> IF inbox[e] \in Interrupted THEN "accepted" ELSE inbox[e]]
        /\ recovering' = ByArrival(Handed)
        /\ UNCHANGED <<arrival, entering, hooks, admission, queue, pc, job>>
    BY <1>1 DEF Start, workers, Alive, Recoverable
  <2>2. NoRepeats(recovering') /\ Elems(recovering') \subseteq Handed
    <3>1. Handed \in SUBSET Event  BY DEF Handed
    <3> QED  BY <2>1, <3>1, ByArrivalSelects, EventConstants DEF Types, RecordTypes, Arrived
  <2>3. /\ entering = None /\ hooks = {} /\ admission = <<>>
        /\ \A c \in Conversation : queue[c] = <<>> /\ pc[c] = "absent" /\ job[c] = None
        /\ Elems(<<>>) = {} /\ NoRepeats(<<>>)
    BY <2>1, EmptyElems DEF MemoryByPhase
  <2>4. Arrived' /\ MemoryByPhase' /\ OwnConversation'
    BY <2>1, <2>3 DEF Arrived, MemoryByPhase, OwnConversation, Interrupted
  <2>5. \A e \in Event : ~Queued(e)'
    BY <2>1, <2>3, EventConstants DEF Queued
  <2>6. HeldOnce'
    BY <2>1, <2>2, <2>3, <2>5, EventConstants DEF HeldOnce
  <2>7. WaitingIsAccepted'
    BY <2>1, <2>2, <2>3, <2>5, EventConstants DEF WaitingIsAccepted, Waiting, Handed
  <2>8. JobByPc' /\ OneStretch'
    BY <2>1, <2>3 DEF JobByPc, OneStretch, Fits, Resting, Synchronous
  <2> QED  BY <2>4, <2>6, <2>7, <2>8
<1>2. CASE Recover
  <2>1. Head(recovering) \in Event
    BY <1>2, TailElems DEF Recover, Types, MemoryTypes
  <2>2. Alive  BY <1>2 DEF Recover, Alive
  <2> QED  BY <1>2, <2>1, <2>2, EventEnqueued DEF Recover, durable, process
<1>3. CASE Started \/ BeginClose \/ OutboxDrained \/ WorkersGone
           \/ \E c \in Conversation : JoinQueue(c)
  <2>1. /\ UNCHANGED <<arrival, inbox, recovering, entering, hooks, admission, queue, pc, job, loop>>
        /\ Alive <=> Alive'
        /\ phase' = "starting" => phase = "starting"
        /\ phase' = phase \/ recovering = <<>>
    BY <1>3 DEF Started, BeginClose, OutboxDrained, WorkersGone, JoinQueue, Alive, durable, ingress,
                workers, MemoryByPhase
  <2> QED  BY <2>1, OthersMove
<1>4. CASE StopWorkers
  <2>1. /\ Alive /\ Alive' /\ Free /\ phase' # "starting" /\ phase # "starting"
        /\ queue' = [c \in Conversation |->
                      IF c \in Registered THEN Append(queue[c], Stop) ELSE queue[c]]
        /\ UNCHANGED <<arrival, inbox, recovering, entering, hooks, admission, pc, job, loop>>
    BY <1>4 DEF StopWorkers, Alive, durable, ingress
  <2>2. ASSUME NEW c \in Conversation
        PROVE  /\ NoRepeats(queue'[c])
               /\ \A e \in Event : e \in Elems(queue'[c]) <=> e \in Elems(queue[c])
               /\ Elems(queue'[c]) \subseteq Event \cup {Stop}
    <3>1. queue[c] \in Seq(Event \cup {Stop}) /\ Stop \in Event \cup {Stop}
      BY DEF Types, MemoryTypes
    <3>2. /\ Elems(Append(queue[c], Stop)) = Elems(queue[c]) \cup {Stop}
          /\ NoRepeats(queue[c]) => NoRepeats(Append(queue[c], Stop))
          /\ Elems(queue[c]) \subseteq Event \cup {Stop}
      BY <3>1, AppendElems, ElemsTyped
    <3>3. queue'[c] = queue[c] \/ queue'[c] = Append(queue[c], Stop)
      BY <2>1
    <3> QED  BY <3>2, <3>3, EventConstants DEF HeldOnce
  <2>3. OwnConversation'
    BY <2>1, <2>2 DEF OwnConversation
  <2>4. HeldOnce' /\ WaitingIsAccepted'
    BY <2>1, <2>2, EventConstants DEF HeldOnce, WaitingIsAccepted, Waiting, Queued
  <2>5. Arrived' /\ MemoryByPhase' /\ JobByPc' /\ OneStretch'
    BY <2>1 DEF Arrived, MemoryByPhase, JobByPc, Fits, OneStretch
  <2> QED  BY <2>3, <2>4, <2>5
<1>5. CASE Crash \/ LoopExits
  <2>1. /\ recovering' = <<>> /\ entering' = None /\ hooks' = {} /\ admission' = <<>>
        /\ queue' = [c \in Conversation |-> <<>>]
        /\ pc' = [c \in Conversation |-> "absent"]
        /\ job' = [c \in Conversation |-> None]
        /\ loop'.pc = "off" /\ phase' \in {"down", "stopped"}
        /\ UNCHANGED <<arrival, inbox>>
    BY <1>5 DEF Crash, LoopExits, LoseMemory, durable
  <2>2. \A e \in Event : ~Waiting(e)'
    BY <2>1, EmptyElems, EventConstants DEF Waiting, Queued
  <2>3. OwnConversation' /\ WaitingIsAccepted'
    BY <2>1, <2>2, EmptyElems, EventConstants DEF OwnConversation, WaitingIsAccepted
  <2>4. HeldOnce'
    BY <2>1, <2>2, EmptyElems DEF HeldOnce, Waiting
  <2>5. Arrived' /\ MemoryByPhase' /\ JobByPc' /\ OneStretch'
    BY <2>1 DEF Arrived, MemoryByPhase, JobByPc, Fits, Resting, OneStretch, Synchronous
  <2> QED  BY <2>3, <2>4, <2>5
<1> QED
  BY <1>1, <1>2, <1>3, <1>4, <1>5 DEF ProcessStep, CloseStep

\* At first nobody holds anything.
LEMMA CustodyInit ==
  ASSUME Init
  PROVE  Custody
<1>1. RecordTypes
  BY EmptySeq DEF Init, RecordTypes, InboxStatus, TaskState
<1>2. OutboxTypes
  <2>1. Rows = {} /\ outbox \in [Key -> Row]
    BY DEF Init, Rows, NoRow, Row, DeliveryStatus
  <2> QED  BY <2>1, FS_EmptySet DEF OutboxTypes
<1>3. MemoryTypes
  BY EmptySeq DEF Init, MemoryTypes, WorkerPc
<1>4. \A e \in Event : ~Waiting(e)
  BY EmptyElems, EventConstants DEF Init, Waiting, Queued
<1>5. OwnConversation /\ WaitingIsAccepted
  BY <1>4, EmptyElems DEF Init, OwnConversation, WaitingIsAccepted
<1>6. HeldOnce
  BY <1>4, EmptyElems DEF Init, HeldOnce, Waiting
<1>7. Arrived /\ MemoryByPhase /\ JobByPc /\ OneStretch
  BY EmptyElems DEF Init, Arrived, MemoryByPhase, JobByPc, Fits, Resting, OneStretch, Synchronous, Alive
<1> QED  BY <1>1, <1>2, <1>3, <1>5, <1>6, <1>7 DEF Custody, Types

\* Every step keeps the types.
LEMMA TypesStep ==
  ASSUME Custody, [Next]_vars
  PROVE  Types'
<1>1. CASE UNCHANGED vars
  BY <1>1 DEF vars, durable, ingress, workers, process, Custody, Types, RecordTypes, OutboxTypes,
              MemoryTypes, Rows
<1>2. CASE Next
  BY <1>2, NextByParty, IngressTyped, WorkerTyped, DeliveryTyped, ProcessTyped DEF Custody, Arrived
<1> QED  BY <1>1, <1>2

\* Every step keeps each event in one pair of hands.
LEMMA CustodyStep ==
  ASSUME Custody, [Next]_vars
  PROVE  Custody'
<1>1. Types'  BY TypesStep
<1>2. CASE UNCHANGED vars
  BY <1>1, <1>2, OthersMove DEF vars, durable, ingress, workers, process, Alive
<1>3. CASE Next
  BY <1>1, <1>3, NextByParty, IngressCustody, WorkerCustody, DeliveryCustody, ProcessCustody
<1> QED  BY <1>2, <1>3

-----------------------------------------------------------------------------
(* Executions: the run and the task of an event against its Inbox row, its  *)
(* worker and its replies.                                                 *)

Open == {"absent", "queued", "running", "waiting_approval"}
IsAt(e, pcs) == job[ConversationOf[e]] = e /\ pc[ConversationOf[e]] \in pcs

\* What the Inbox row says about the run and the task; while the process lives, a running
\* one has a worker.
Execution(e) ==
  /\ inbox[e] = "absent" =>
       run[e] = "absent" /\ task[e] = "absent" /\ attempts[e] = 0 /\ post[e] = e
  /\ inbox[e] \in Unsettled => run[e] \in Open /\ task[e] \in Open
  /\ Alive /\ inbox[e] = "accepted" =>
       /\ run[e] = "running" => IsAt(e, {"mark"})
       /\ task[e] = "running" => run[e] = "waiting_approval" \/ IsAt(e, {"start_run", "mark"})
  /\ Alive /\ inbox[e] \in Interrupted => job[ConversationOf[e]] = e
  /\ Alive /\ inbox[e] = "completed" /\ task[e] = "running" =>
       run[e] \in {"succeeded", "failed"} \/ IsAt(e, {"finish_run"})

\* What a worker's pc says about them.
AtPc(c) ==
  LET e == job[c] IN
  /\ pc[c] = "start_run" => run[e] \in {"queued", "waiting_approval"} /\ task[e] = "running"
  /\ pc[c] \in {"mark", "agent", "sleep"} => run[e] = "running" /\ task[e] = "running"
  /\ pc[c] = "park_task" =>
       task[e] = "running" /\ run[e] = IF post[e] = e THEN "waiting_approval" ELSE "running"
  /\ pc[c] \in {"card", "finish_run"} /\ task[e] = "running" => run[e] = "running"
  /\ pc[c] = "finish_task" /\ RowsOf(e) = {} /\ task[e] = "running" => run[e] = "succeeded"

PostOfSource == \A e \in Event : post[e] = e \/ inbox[post[e]] = "failed"

LoopAgrees ==
  /\ Alive <=> loop.pc # "off"
  /\ loop.pc \in {"sending", "answer"} => loop.key \in Key /\ outbox[loop.key].status = "sending"
  /\ loop.pc = "answer" => posted[loop.key]
  /\ loop.pc = "settle" => loop.key \in Key /\ outbox[loop.key].status \in {"delivered", "failed"}

RowsAreOwned ==
  \A k \in Rows : outbox[k].owner # None /\ (k[1] \in Standalone <=> outbox[k].owner \in Standalone)

Verdict(e) ==
  /\ task[e] = "succeeded" =>
       /\ inbox[e] = "completed" /\ run[e] = "succeeded"
       /\ \A k \in RowsOf(e) : outbox[k].status = "delivered"
  /\ task[e] = "failed" =>
       inbox[e] = "failed" \/ run[e] = "failed" \/ \E k \in RowsOf(e) : outbox[k].status = "failed"

DeadOfParked(c) ==
  pc[c] = "dead" => \E e \in Event : /\ ConversationOf[e] = c
                                     /\ inbox[e] = "accepted" /\ run[e] = "waiting_approval"

Executions ==
  /\ Custody
  /\ \A e \in Event : Execution(e) /\ Verdict(e)
  /\ \A c \in Conversation : AtPc(c) /\ DeadOfParked(c)
  /\ PostOfSource /\ LoopAgrees /\ RowsAreOwned /\ OutboxTruthful

\* What a working worker holds.
LEMMA WorkerHolds ==
  ASSUME Custody, NEW c \in Conversation, pc[c] \notin Resting
  PROVE  /\ job[c] \in Event /\ ConversationOf[job[c]] = c /\ Alive
         /\ \A d \in Conversation : job[d] = job[c] => d = c
<1>1. job[c] \in Event
  BY DEF Custody, JobByPc, Types, MemoryTypes
<1>2. ConversationOf[job[c]] = c /\ \A d \in Conversation : job[d] = job[c] => d = c
  BY <1>1, EventConstants DEF Custody, OwnConversation
<1>3. Alive
  BY DEF Custody, MemoryByPhase, Resting
<1> QED  BY <1>1, <1>2, <1>3

\* A worker moves only its own event, or a source that is dead-lettered.
LEMMA OthersKept ==
  ASSUME Executions, NEW c \in Conversation, pc[c] \notin Resting,
         \A d \in Conversation : d # c => pc'[d] = pc[d] /\ job'[d] = job[d],
         job'[c] = job[c] \/ job'[c] = None,
         UNCHANGED <<post, phase, loop, posted>>,
         \A e \in Event : e # job[c] => inbox'[e] = inbox[e] /\ attempts'[e] = attempts[e],
         inbox[job[c]] \in Settled => inbox'[job[c]] = inbox[job[c]],
         \A e \in Event : \/ e = job[c]
                          \/ run'[e] = run[e] /\ task'[e] = task[e]
                          \/ inbox[e] = "failed" /\ task'[e] # "succeeded",
         Rows \subseteq Rows', \A k \in Rows : outbox'[k] = outbox[k],
         \A k \in Rows' : k \in Rows \/ outbox'[k].owner = job[c]
  PROVE  /\ \A e \in Event : e # job[c] => Execution(e)' /\ Verdict(e)'
         /\ \A d \in Conversation : d # c => AtPc(d)' /\ DeadOfParked(d)'
         /\ PostOfSource' /\ LoopAgrees'
<1> USE DEF Executions
<1>1. /\ job[c] \in Event /\ ConversationOf[job[c]] = c /\ Alive
      /\ \A d \in Conversation : job[d] = job[c] => d = c
  BY WorkerHolds
<1>2. Alive' /\ \A e \in Event : ConversationOf[e] \in Conversation /\ e # None
  BY <1>1, EventConstants DEF Alive
<1>3. ASSUME NEW e \in Event, e # job[c] PROVE RowsOf(e)' = RowsOf(e)
  BY <1>3 DEF RowsOf
<1>4. ASSUME NEW e \in Event, e # job[c] PROVE Execution(e)'
  <2>1. job'[ConversationOf[e]] = e <=> job[ConversationOf[e]] = e
    BY <1>1, <1>2, <1>4
  <2>2. job[ConversationOf[e]] = e => pc'[ConversationOf[e]] = pc[ConversationOf[e]]
    BY <1>1, <1>2, <1>4
  <2>3. \A P : IsAt(e, P)' <=> IsAt(e, P)
    BY <2>1, <2>2 DEF IsAt
  <2>4. inbox'[e] = inbox[e] /\ attempts'[e] = attempts[e] /\ post'[e] = post[e]
    BY <1>4
  <2>5. CASE run'[e] = run[e] /\ task'[e] = task[e]
    BY <1>1, <1>2, <2>1, <2>3, <2>4, <2>5 DEF Execution
  <2>6. CASE inbox[e] = "failed"
    BY <2>4, <2>6 DEF Execution, Unsettled, Interrupted
  <2> QED  BY <1>4, <2>5, <2>6
<1>5. ASSUME NEW e \in Event, e # job[c] PROVE Verdict(e)'
  BY <1>3, <1>5 DEF Verdict, RowsOf
<1>6. ASSUME NEW d \in Conversation, d # c PROVE AtPc(d)'
  <2>1. CASE pc[d] \in Resting
    BY <1>6, <2>1 DEF AtPc, Resting
  <2>2. CASE pc[d] \notin Resting
    <3>1. job[d] \in Event /\ job[d] # job[c] /\ Fits(pc[d], inbox[job[d]])
      BY <1>1, <1>6, <2>2, WorkerHolds DEF Custody, JobByPc
    <3>2. RowsOf(job[d])' = RowsOf(job[d]) /\ pc'[d] = pc[d] /\ job'[d] = job[d]
      BY <1>3, <1>6, <3>1 DEF RowsOf
    <3> QED  BY <3>1, <3>2 DEF AtPc, Fits
  <2> QED  BY <2>1, <2>2
<1>7. ASSUME NEW d \in Conversation, d # c PROVE DeadOfParked(d)'
  BY <1>1, <1>7 DEF DeadOfParked
<1>8. PostOfSource'
  BY DEF PostOfSource, Settled, Custody, Types, RecordTypes
<1>9. LoopAgrees'
  BY <1>1, <1>2 DEF LoopAgrees, Rows
<1> QED  BY <1>4, <1>5, <1>6, <1>7, <1>8, <1>9

\* Who touches no row of the Outbox keeps what is said about rows.
LEMMA RowsKept ==
  ASSUME Executions, UNCHANGED <<outbox, posted>>,
         \A e \in Event : inbox[e] = "completed" => inbox'[e] = "completed"
  PROVE  RowsAreOwned' /\ OutboxTruthful' /\ \A e : RowsOf(e)' = RowsOf(e)
BY DEF Executions, RowsAreOwned, OutboxTruthful, Rows, RowsOf

\* A step of a worker that writes no reply: what it moves is its own event's.
LEMMA OwnStep ==
  ASSUME Executions, Custody', NEW c \in Conversation, pc[c] \notin Resting, NEW e \in Event, job[c] = e,
         NEW n \in WorkerPc, Goto(c, n) \/ Release(c, n),
         UNCHANGED <<post, phase, loop, posted, outbox>>,
         NEW status, inbox' = [inbox EXCEPT ![e] = status] \/ UNCHANGED inbox,
         inbox[e] \in Settled => UNCHANGED inbox,
         \A d \in Event : d # e => attempts'[d] = attempts[d],
         \A d \in Event : \/ d = e
                          \/ run'[d] = run[d] /\ task'[d] = task[d]
                          \/ inbox[d] = "failed" /\ task'[d] # "succeeded",
         Execution(e)', Verdict(e)', AtPc(c)', DeadOfParked(c)'
  PROVE  Executions'
<1> USE DEF Executions
<1>1. /\ \A d \in Conversation : d # c => pc'[d] = pc[d] /\ job'[d] = job[d]
      /\ job'[c] = job[c] \/ job'[c] = None
  BY DEF Goto, Release, Custody, Types, MemoryTypes
<1>2. \A d \in Event : d # e => inbox'[d] = inbox[d]
  BY DEF Custody, Types, RecordTypes
<1>3. \A d \in Event : inbox[d] = "completed" => inbox'[d] = "completed"
  BY <1>2 DEF Settled
<1>4. RowsAreOwned' /\ OutboxTruthful' /\ Rows' = Rows
  BY <1>3, RowsKept DEF Rows
<1>5. /\ \A d \in Event : d # e => Execution(d)' /\ Verdict(d)'
      /\ \A d \in Conversation : d # c => AtPc(d)' /\ DeadOfParked(d)'
      /\ PostOfSource' /\ LoopAgrees'
  BY <1>1, <1>2, <1>4, OthersKept
<1> QED  BY <1>4, <1>5

\* A worker's commits keep run, Task, Inbox row and Outbox rows in step (_process to
\* _fail_execution).
LEMMA WorkerExecutions ==
  ASSUME Executions, Custody', NEW c \in Conversation, pc[c] \notin Resting,
         WorkerStep(c) \/ ProcessorStep(c)
  PROVE  Executions'
<1>0. PICK e \in Event : job[c] = e
  BY WorkerHolds DEF Executions
<1>1. /\ job[c] = e /\ ConversationOf[e] = c /\ Alive
      /\ Fits(pc[c], inbox[e]) /\ Execution(e) /\ Verdict(e) /\ AtPc(c) /\ PostOfSource
      /\ DOMAIN inbox = Event /\ DOMAIN attempts = Event /\ DOMAIN run = Event /\ DOMAIN task = Event
      /\ DOMAIN pc = Conversation /\ DOMAIN job = Conversation
      /\ post[e] \in Event /\ run[e] \in TaskState /\ task[e] \in TaskState /\ inbox[e] \in InboxStatus
  BY <1>0, WorkerHolds DEF Executions, Custody, JobByPc, Types, RecordTypes, MemoryTypes
<1>2. \A x : Goto(c, x) => pc'[c] = x /\ job'[c] = e
  BY <1>1 DEF Goto
<1>3. \A x : Release(c, x) => pc'[c] = x /\ job'[c] = None /\ None # e
  BY <1>1, EventConstants DEF Release
<1>4. UNCHANGED outbox => RowsOf(e)' = RowsOf(e)
  BY DEF RowsOf, Rows
<1>5. CASE StartTask(c)
  <2>1. /\ pc[c] = "slot" /\ inbox[e] = "accepted" /\ run[e] \in Open /\ task[e] \in Open
        /\ run[e] # "running" /\ (task[e] = "running" => run[e] = "waiting_approval")
    BY <1>1, <1>5 DEF StartTask, Execution, Fits, IsAt, Unsettled
  <2>2. /\ UNCHANGED <<inbox, attempts, post, outbox, phase, loop, posted>>
        /\ run' = IF run[e] = "absent" THEN [run EXCEPT ![e] = "queued"] ELSE run
        /\ \/ task[e] # "running" /\ task' = [task EXCEPT ![e] = "running"] /\ Goto(c, "start_run")
           \/ task[e] = "running" /\ UNCHANGED task /\ Release(c, "dead")
    BY <1>0, <1>5, <2>1 DEF StartTask, WorkerDies, process, Open
  <2>3. Execution(e)' /\ Verdict(e)' /\ AtPc(c)' /\ DeadOfParked(c)'
    BY <1>1, <1>2, <1>3, <2>1, <2>2
       DEF Execution, Verdict, AtPc, DeadOfParked, IsAt, Open, Unsettled, Interrupted, Alive
  <2>4. "start_run" \in WorkerPc /\ "dead" \in WorkerPc  BY DEF WorkerPc
  <2>5. \A d \in Event : d # e => run'[d] = run[d] /\ task'[d] = task[d]
    BY <1>1, <2>2
  <2> QED  BY <2>2, <2>3, <2>4, <2>5, <1>1, OwnStep
<1>6. CASE StartRun(c)
  <2>1. /\ pc[c] = "start_run" /\ inbox[e] = "accepted" /\ run[e] \in {"queued", "waiting_approval"}
        /\ task[e] = "running"
    BY <1>1, <1>6 DEF StartRun, Execution, Fits, AtPc, Unsettled
  <2>2. /\ UNCHANGED <<inbox, attempts, post, task, outbox, phase, loop, posted>>
        /\ \/ run[e] = "queued" /\ run' = [run EXCEPT ![e] = "running"] /\ Goto(c, "mark")
           \/ run[e] = "waiting_approval" /\ UNCHANGED run /\ Release(c, "dead")
    BY <1>0, <1>6, <2>1 DEF StartRun, WorkerDies, process
  <2>3. Execution(e)' /\ Verdict(e)' /\ AtPc(c)' /\ DeadOfParked(c)'
    BY <1>1, <1>2, <1>3, <2>1, <2>2
       DEF Execution, Verdict, AtPc, DeadOfParked, IsAt, Open, Unsettled, Interrupted, Alive
  <2>4. "mark" \in WorkerPc /\ "dead" \in WorkerPc  BY DEF WorkerPc
  <2>5. \A d \in Event : d # e => run'[d] = run[d] /\ task'[d] = task[d]
    BY <1>1, <2>2
  <2> QED  BY <2>2, <2>3, <2>4, <2>5, <1>1, OwnStep
<1>7. CASE MarkProcessing(c)
  <2>1. pc[c] \in {"mark", "sleep"} /\ run[e] = "running" /\ task[e] = "running" /\ inbox[e] \in Unsettled
    BY <1>1, <1>7 DEF MarkProcessing, Fits, AtPc, Unsettled
  <2>2. /\ UNCHANGED <<run, post, task, outbox, phase, loop, posted>>
        /\ inbox' = [inbox EXCEPT ![e] = "processing"] /\ attempts' = [attempts EXCEPT ![e] = @ + 1]
        /\ Goto(c, "agent")
    BY <1>0, <1>7 DEF MarkProcessing, process
  <2>3. Execution(e)' /\ Verdict(e)' /\ AtPc(c)' /\ DeadOfParked(c)'
    BY <1>1, <1>2, <2>1, <2>2
       DEF Execution, Verdict, AtPc, DeadOfParked, IsAt, Open, Unsettled, Interrupted, Alive
  <2>4. "agent" \in WorkerPc /\ inbox[e] \notin Settled  BY <2>1 DEF WorkerPc, Unsettled, Settled
  <2>5. \A d \in Event : d # e => run'[d] = run[d] /\ task'[d] = task[d] /\ attempts'[d] = attempts[d]
    BY <1>1, <2>2
  <2> QED  BY <2>2, <2>3, <2>4, <2>5, <1>1, OwnStep
<1>8. CASE ParkRun(c)
  <2> DEFINE p == post[e]
  <2>1. /\ pc[c] = "agent" /\ run[e] = "running" /\ task[e] = "running" /\ inbox[e] = "processing"
        /\ p \in Event /\ (p = e \/ inbox[p] = "failed")
    BY <1>1, <1>8 DEF ParkRun, Fits, AtPc, PostOfSource
  <2>2. /\ UNCHANGED <<inbox, attempts, post, task, outbox, phase, loop, posted>>
        /\ run' = IF run[p] = "running" THEN [run EXCEPT ![p] = "waiting_approval"] ELSE run
        /\ Goto(c, "park_task")
    BY <1>0, <1>8 DEF ParkRun, process
  <2> HIDE DEF p
  <2>3. run'[e] = IF p = e THEN "waiting_approval" ELSE "running"
    BY <1>1, <2>1, <2>2
  <2>4. Execution(e)' /\ Verdict(e)' /\ AtPc(c)' /\ DeadOfParked(c)'
    BY <1>1, <1>2, <2>1, <2>2, <2>3
       DEF Execution, Verdict, AtPc, DeadOfParked, IsAt, Open, Unsettled, Interrupted, Alive, p
  <2>5. "park_task" \in WorkerPc  BY DEF WorkerPc
  <2>6. \A d \in Event : \/ d = e
                         \/ run'[d] = run[d] /\ task'[d] = task[d]
                         \/ inbox[d] = "failed" /\ task'[d] # "succeeded"
    <3>1. p # e => task[p] # "succeeded"
      BY <2>1 DEF Executions, Verdict
    <3> QED  BY <1>1, <2>1, <2>2, <3>1
  <2> QED  BY <2>2, <2>4, <2>5, <2>6, <1>1, OwnStep
<1>9. CASE ParkTask(c)
  <2> DEFINE p == post[e]
  <2>1. /\ pc[c] = "park_task" /\ task[e] = "running" /\ inbox[e] = "processing"
        /\ run[e] = IF p = e THEN "waiting_approval" ELSE "running"
        /\ p \in Event /\ (p = e \/ inbox[p] = "failed")
    BY <1>1, <1>9 DEF ParkTask, Fits, AtPc, PostOfSource
  <2>2. /\ UNCHANGED <<inbox, attempts, post, run, outbox, phase, loop, posted>>
        /\ task' = IF task[p] = "running" THEN [task EXCEPT ![p] = "waiting_approval"] ELSE task
        /\ Goto(c, "card")
    BY <1>0, <1>9 DEF ParkTask, process
  <2> HIDE DEF p
  <2>3. task'[e] = IF p = e THEN "waiting_approval" ELSE "running"
    BY <1>1, <2>1, <2>2
  <2>4. Execution(e)' /\ Verdict(e)' /\ AtPc(c)' /\ DeadOfParked(c)'
    BY <1>1, <1>2, <2>1, <2>2, <2>3
       DEF Execution, Verdict, AtPc, DeadOfParked, IsAt, Open, Unsettled, Interrupted, Alive, p
  <2>5. "card" \in WorkerPc  BY DEF WorkerPc
  <2>6. \A d \in Event : \/ d = e
                         \/ run'[d] = run[d] /\ task'[d] = task[d]
                         \/ inbox[d] = "failed" /\ task'[d] # "succeeded"
    <3>1. p # e => task[p] # "succeeded"
      BY <2>1 DEF Executions, Verdict
    <3> QED  BY <1>1, <2>1, <2>2, <3>1
  <2> QED  BY <2>2, <2>4, <2>5, <2>6, <1>1, OwnStep
<1>10. ASSUME NEW retryable \in BOOLEAN, Raise(c, retryable)
       PROVE  Executions'
  <2>1. /\ pc[c] = "agent" /\ run[e] = "running" /\ task[e] = "running" /\ inbox[e] = "processing"
    BY <1>1, <1>10 DEF Raise, Fits, AtPc
  <2>2. PICK again \in BOOLEAN :
          /\ UNCHANGED <<attempts, post, run, task, outbox, phase, loop, posted>>
          /\ inbox' = [inbox EXCEPT ![e] = IF again THEN "retrying" ELSE "failed"]
          /\ Goto(c, IF again THEN "sleep" ELSE "fail_run")
    BY <1>0, <1>10 DEF Raise, process
  <2>3. Execution(e)' /\ Verdict(e)' /\ AtPc(c)' /\ DeadOfParked(c)'
    BY <1>1, <1>2, <2>1, <2>2
       DEF Execution, Verdict, AtPc, DeadOfParked, IsAt, Open, Unsettled, Interrupted, Alive
  <2>4. "sleep" \in WorkerPc /\ "fail_run" \in WorkerPc /\ inbox[e] \notin Settled
    BY <2>1 DEF WorkerPc, Settled
  <2>5. \A d \in Event : d # e => run'[d] = run[d] /\ task'[d] = task[d] /\ attempts'[d] = attempts[d]
    BY <1>1, <2>2
  <2> QED  BY <2>2, <2>3, <2>4, <2>5, <1>1, OwnStep
<1>11. CASE FinishRun(c)
  <2>1. pc[c] = "finish_run" /\ inbox[e] = "completed" /\ (task[e] = "running" => run[e] = "running")
    BY <1>1, <1>11 DEF FinishRun, Fits, AtPc
  <2>2. /\ UNCHANGED <<inbox, attempts, post, task, outbox, phase, loop, posted>>
        /\ run' = IF run[e] = "running"
                    THEN [run EXCEPT ![e] = IF \E k \in RowsOf(e) : outbox[k].error
                                              THEN "failed" ELSE "succeeded"]
                    ELSE run
        /\ Goto(c, "finish_task")
    BY <1>0, <1>11 DEF FinishRun, process
  <2>3. RowsOf(e)' = RowsOf(e)
    BY <2>2 DEF RowsOf, Rows
  <2>4. Execution(e)' /\ Verdict(e)' /\ AtPc(c)' /\ DeadOfParked(c)'
    BY <1>1, <1>2, <2>1, <2>2, <2>3
       DEF Execution, Verdict, AtPc, DeadOfParked, IsAt, Open, Unsettled, Interrupted, Alive
  <2>5. "finish_task" \in WorkerPc  BY DEF WorkerPc
  <2>6. \A d \in Event : d # e => run'[d] = run[d] /\ task'[d] = task[d]
    BY <1>1, <2>2
  <2> QED  BY <2>2, <2>4, <2>5, <2>6, <1>1, OwnStep
<1>12. CASE FinishTask(c)
  <2>1. /\ pc[c] = "finish_task" /\ inbox[e] = "completed"
        /\ RowsOf(e) = {} /\ task[e] = "running" => run[e] = "succeeded"
    BY <1>1, <1>12 DEF FinishTask, Fits, AtPc
  <2>2. /\ UNCHANGED <<inbox, attempts, post, run, outbox, phase, loop, posted>>
        /\ task' = IF RowsOf(e) = {} /\ task[e] = "running"
                     THEN [task EXCEPT ![e] = "succeeded"] ELSE task
        /\ Release(c, "idle")
    BY <1>0, <1>12 DEF FinishTask, MoveTask, process
  <2>3. RowsOf(e)' = RowsOf(e)
    BY <2>2 DEF RowsOf, Rows
  <2>4. Execution(e)' /\ Verdict(e)' /\ AtPc(c)' /\ DeadOfParked(c)'
    BY <1>1, <1>3, <2>1, <2>2, <2>3
       DEF Execution, Verdict, AtPc, DeadOfParked, IsAt, Open, Unsettled, Interrupted, Alive
  <2>5. "idle" \in WorkerPc  BY DEF WorkerPc
  <2>6. \A d \in Event : d # e => run'[d] = run[d] /\ task'[d] = task[d]
    BY <1>1, <2>2
  <2> QED  BY <2>2, <2>4, <2>5, <2>6, <1>1, OwnStep
<1>13. CASE FailRun(c) \/ FailTask(c)
  <2>1. pc[c] \in {"fail_run", "fail_task"} /\ inbox[e] = "failed"
    BY <1>1, <1>13 DEF FailRun, FailTask, Fits
  <2>2. /\ UNCHANGED <<inbox, attempts, post, outbox, phase, loop, posted>>
        /\ \/ /\ run' = IF run[e] = "running" THEN [run EXCEPT ![e] = "failed"] ELSE run
              /\ UNCHANGED task /\ Goto(c, "fail_task")
           \/ /\ task' = IF task[e] = "running" THEN [task EXCEPT ![e] = "failed"] ELSE task
              /\ UNCHANGED run /\ Release(c, "idle")
    BY <1>0, <1>13 DEF FailRun, FailTask, MoveTask, process
  <2>3. Execution(e)' /\ Verdict(e)' /\ AtPc(c)' /\ DeadOfParked(c)'
    BY <1>1, <1>2, <1>3, <2>1, <2>2
       DEF Execution, Verdict, AtPc, DeadOfParked, IsAt, Unsettled, Interrupted, Alive
  <2>4. "fail_task" \in WorkerPc /\ "idle" \in WorkerPc  BY DEF WorkerPc
  <2>5. \A d \in Event : d # e => run'[d] = run[d] /\ task'[d] = task[d]
    BY <1>1, <2>2
  <2> QED  BY <2>2, <2>3, <2>4, <2>5, <1>1, OwnStep
<1>14. ASSUME NEW n \in 0..MaxParts, NEW isError \in BOOLEAN, Return(c, n, isError)
       PROVE  Executions'
  <2>1. /\ pc[c] \in {"card", "agent"} /\ inbox[e] = "processing" /\ run[e] \in Open /\ task[e] \in Open
        /\ task[e] = "running" => run[e] = "running"
    BY <1>1, <1>14 DEF Return, Replies, Fits, AtPc, Execution, Unsettled
  <2>2. UNCHANGED <<attempts, post, task, run, phase, loop, posted>>
    BY <1>0, <1>14 DEF Return, process
  <2>3. \A d \in Event : d # e => run'[d] = run[d] /\ task'[d] = task[d] /\ attempts'[d] = attempts[d]
    BY <2>2
  <2>4. CASE inbox' = [inbox EXCEPT ![e] = "failed"] /\ Goto(c, "fail_run") /\ UNCHANGED outbox
    <3>1. Execution(e)' /\ Verdict(e)' /\ AtPc(c)' /\ DeadOfParked(c)'
      BY <1>1, <1>2, <2>1, <2>2, <2>4
         DEF Execution, Verdict, AtPc, DeadOfParked, IsAt, Open, Unsettled, Interrupted, Alive
    <3>2. "fail_run" \in WorkerPc /\ inbox[e] \notin Settled  BY <2>1 DEF WorkerPc, Settled
    <3> QED  BY <2>2, <2>3, <2>4, <3>1, <3>2, <1>1, OwnStep
  <2> DEFINE K == ReplyKeys(e, n)
  <2>5. CASE /\ K \cap Rows = {}
             /\ outbox' = [k \in Key |-> IF k \in K THEN NewRow(e, isError) ELSE outbox[k]]
             /\ inbox' = [inbox EXCEPT ![e] = "completed"] /\ Goto(c, "finish_run")
    <3>1. \A k \in K : k[1] \in Event
      BY <1>1, PipelineAssumption DEF ReplyKeys
    <3> HIDE DEF K
    <3>2. /\ \A k \in Key : IF k \in K THEN outbox'[k] = NewRow(e, isError) ELSE outbox'[k] = outbox[k]
          /\ NewRow(e, isError).status = "pending" /\ NewRow(e, isError).owner = e
      BY <2>5 DEF NewRow
    <3>3. /\ Rows \subseteq Rows' /\ \A k \in Rows : outbox'[k] = outbox[k]
          /\ \A k \in Rows' : k \in Rows \/ (k \in K /\ outbox'[k].owner = e /\ outbox'[k].status = "pending")
      BY <2>5, <3>2 DEF Rows
    <3>4. Execution(e)' /\ AtPc(c)' /\ DeadOfParked(c)'
      BY <1>1, <1>2, <2>1, <2>2, <2>5
         DEF Execution, AtPc, DeadOfParked, IsAt, Open, Unsettled, Interrupted, Alive
    <3>5. Verdict(e)'
      BY <2>1, <2>2 DEF Verdict, Open
    <3>6. RowsAreOwned'
      BY <1>1, <3>1, <3>3, EventConstants DEF RowsAreOwned, Executions, Rows
    <3>7. OutboxTruthful'
      BY <1>1, <2>1, <2>2, <2>5, <3>3 DEF OutboxTruthful, Executions
    <3>8. /\ \A d \in Conversation : d # c => pc'[d] = pc[d] /\ job'[d] = job[d]
          /\ job'[c] = e
      BY <1>1, <2>5 DEF Goto
    <3>9. /\ \A d \in Event : d # e => Execution(d)' /\ Verdict(d)'
          /\ \A d \in Conversation : d # c => AtPc(d)' /\ DeadOfParked(d)'
          /\ PostOfSource' /\ LoopAgrees'
      <4>1. \A d \in Event : d # e => inbox'[d] = inbox[d]  BY <1>1, <2>5
      <4>2. inbox[e] \notin Settled  BY <2>1 DEF Settled
      <4> QED  BY <2>2, <2>3, <3>3, <3>8, <4>1, <4>2, <1>1, OthersKept
    <3> QED  BY <3>4, <3>5, <3>6, <3>7, <3>9 DEF Executions
  <2> QED  BY <1>0, <1>14, <2>4, <2>5 DEF Return
<1> QED
  <2>1. ~Take(c)
    BY DEF Take, Resting
  <2> QED
    BY <1>5, <1>6, <1>7, <1>8, <1>9, <1>10, <1>11, <1>12, <1>13, <1>14, <2>1
       DEF WorkerStep, ProcessorStep

\* The steps that hand events on, and the phases of the process.
LEMMA QuietStep ==
  ASSUME Executions, Custody', UNCHANGED <<inbox, attempts, post, task, run, outbox, loop, posted>>,
         Alive <=> Alive',
         \A c \in Conversation :
           \/ pc'[c] = pc[c] /\ job'[c] = job[c]
           \/ pc[c] \in {"absent", "idle"} /\ pc'[c] \in {"idle", "slot", "gone"}
  PROVE  Executions'
<1> USE DEF Executions
<1>1. \A e \in Event : RowsOf(e)' = RowsOf(e)
  BY DEF RowsOf, Rows
<1>2. \A c \in Conversation : pc'[c] # pc[c] \/ job'[c] # job[c] => job[c] = None
  BY DEF Custody, JobByPc, Resting
<1>3. ASSUME NEW e \in Event PROVE Execution(e)' /\ Verdict(e)'
  <2>1. ConversationOf[e] \in Conversation /\ e # None  BY EventConstants
  <2>2. job[ConversationOf[e]] = e =>
          job'[ConversationOf[e]] = e /\ pc'[ConversationOf[e]] = pc[ConversationOf[e]]
    BY <1>2, <2>1
  <2> QED  BY <1>1, <2>2 DEF Execution, Verdict, IsAt
<1>4. ASSUME NEW c \in Conversation PROVE AtPc(c)' /\ DeadOfParked(c)'
  <2>1. CASE pc'[c] = pc[c] /\ job'[c] = job[c]
    BY <2>1 DEF AtPc, DeadOfParked, RowsOf, Rows
  <2>2. CASE pc'[c] \in {"idle", "slot", "gone"}
    BY <2>2 DEF AtPc, DeadOfParked
  <2> QED  BY <2>1, <2>2
<1>5. PostOfSource' /\ LoopAgrees'
  BY DEF PostOfSource, LoopAgrees
<1> QED  BY <1>3, <1>4, <1>5, RowsKept

\* An event's first row has neither run nor replies (accept_event).
LEMMA IngressExecutions ==
  ASSUME Executions, Custody', IngressStep
  PROVE  Executions'
<1> USE DEF Executions
<1>1. ASSUME NEW e \in Event, Accept(e) \/ \E source \in Event : Replay(source, e)
      PROVE  Executions'
  <2>1. /\ inbox[e] = "absent" /\ inbox' = [inbox EXCEPT ![e] = "accepted"] /\ Alive
        /\ UNCHANGED <<attempts, task, run, outbox, pc, job, phase, loop, posted>>
        /\ \E p \in Event : post' = [post EXCEPT ![e] = p] /\ (p = e \/ inbox[p] = "failed")
    <3>1. PICK p \in Event : AcceptEvent(e, p) /\ (p = e \/ inbox[p] = "failed")
      <4>1. CASE Accept(e)  BY <4>1 DEF Accept
      <4>2. ASSUME NEW source \in Event, Replay(source, e)
            PROVE  AcceptEvent(e, post[source]) /\ post[source] \in Event /\ inbox[post[source]] = "failed"
        BY <4>2 DEF Replay, PostOfSource, Custody, Types, RecordTypes
      <4> QED  BY <1>1, <4>1, <4>2
    <3> QED  BY <3>1 DEF AcceptEvent, workers, process, Alive
  <2>2. PICK p \in Event : post' = [post EXCEPT ![e] = p] /\ (p = e \/ inbox[p] = "failed")
    BY <2>1
  <2>3. /\ \A d \in Event : d # e => inbox'[d] = inbox[d] /\ post'[d] = post[d]
        /\ inbox'[e] = "accepted" /\ post'[e] = p
    BY <2>1, <2>2 DEF Custody, Types, RecordTypes
  <2>4. \A c \in Conversation : pc[c] \notin Resting => job[c] \in Event /\ job[c] # e
    <3>1. \A c \in Conversation : pc[c] \notin Resting => Fits(pc[c], inbox[job[c]]) /\ job[c] \in Event
      BY WorkerHolds DEF Custody, JobByPc
    <3> QED  BY <2>1, <3>1 DEF Fits, Resting, Custody, Types, MemoryTypes, WorkerPc
  <2>5. \A d \in Event : RowsOf(d)' = RowsOf(d)
    BY <2>1 DEF RowsOf, Rows
  <2>6. ASSUME NEW d \in Event PROVE Execution(d)' /\ Verdict(d)'
    <3>1. CASE d = e
      BY <2>1, <2>3, <3>1 DEF Execution, Verdict, Interrupted, Open
    <3>2. CASE d # e
      BY <2>1, <2>3, <2>5, <3>2 DEF Execution, Verdict, IsAt, Alive
    <3> QED  BY <3>1, <3>2
  <2>7. ASSUME NEW c \in Conversation PROVE AtPc(c)' /\ DeadOfParked(c)'
    <3>1. AtPc(c)'
      <4>1. CASE pc[c] \in Resting
        BY <2>1, <4>1 DEF AtPc, Resting
      <4>2. CASE pc[c] \notin Resting
        <5>1. RowsOf(job[c])' = RowsOf(job[c])
          BY <2>1 DEF RowsOf, Rows
        <5> QED  BY <2>1, <2>3, <2>4, <4>2, <5>1 DEF AtPc
      <4> QED  BY <4>1, <4>2
    <3>2. DeadOfParked(c)'
      BY <2>1, <2>3 DEF DeadOfParked
    <3> QED  BY <3>1, <3>2
  <2>8. PostOfSource'
    BY <2>1, <2>2, <2>3 DEF PostOfSource, Custody, Types, RecordTypes
  <2>9. LoopAgrees' /\ RowsAreOwned' /\ OutboxTruthful'
    <3>1. \A d \in Event : inbox[d] = "completed" => inbox'[d] = "completed"
      BY <2>1, <2>3
    <3> QED  BY <2>1, <3>1, RowsKept DEF LoopAgrees, Alive
  <2> QED  BY <2>6, <2>7, <2>8, <2>9
<1>2. CASE Ensure
  <2>1. PICK e \in Event : e = entering
    BY <1>2 DEF Ensure, Custody, Types, MemoryTypes
  <2>2. inbox[e] = "accepted" /\ job[ConversationOf[e]] # e
    BY <2>1 DEF Custody, WaitingIsAccepted, Waiting
  <2>3. /\ UNCHANGED <<inbox, attempts, post, outbox, pc, job, phase, loop, posted>>
        /\ \A d \in Event : d # e => run'[d] = run[d] /\ task'[d] = task[d]
        /\ run'[e] = IF run[e] = "absent" THEN "queued" ELSE run[e]
        /\ task'[e] = IF task[e] = "absent" THEN "queued" ELSE task[e]
    BY <1>2, <2>1 DEF Ensure, EnsureEntities, workers, process, Custody, Types, RecordTypes
  <2>4. \A d \in Event : RowsOf(d)' = RowsOf(d)
    BY <2>3 DEF RowsOf, Rows
  <2>5. ASSUME NEW d \in Event PROVE Execution(d)' /\ Verdict(d)'
    <3>1. CASE d = e
      BY <2>2, <2>3, <3>1 DEF Execution, Verdict, IsAt, Open, Unsettled, Interrupted, Alive
    <3>2. CASE d # e
      BY <2>3, <2>4, <3>2 DEF Execution, Verdict, IsAt, Alive
    <3> QED  BY <3>1, <3>2
  <2>6. ASSUME NEW c \in Conversation PROVE AtPc(c)' /\ DeadOfParked(c)'
    <3>1. AtPc(c)'
      <4>1. CASE pc[c] \in Resting
        BY <2>3, <4>1 DEF AtPc, Resting
      <4>2. CASE pc[c] \notin Resting
        <5>1. job[c] \in Event /\ job[c] # e
          BY <2>2, <4>2, WorkerHolds
        <5>2. RowsOf(job[c])' = RowsOf(job[c])
          BY <2>3 DEF RowsOf, Rows
        <5> QED  BY <2>3, <5>1, <5>2 DEF AtPc
      <4> QED  BY <4>1, <4>2
    <3>2. DeadOfParked(c)'
      BY <2>3 DEF DeadOfParked
    <3> QED  BY <3>1, <3>2
  <2>7. PostOfSource' /\ LoopAgrees' /\ RowsAreOwned' /\ OutboxTruthful'
    BY <2>3, RowsKept DEF PostOfSource, LoopAgrees, Alive
  <2> QED  BY <2>5, <2>6, <2>7
<1>3. ASSUME NEW e \in Event, HookReturns(e) PROVE Executions'
  BY <1>3, QuietStep DEF HookReturns, durable, workers, process, Alive
<1>4. CASE Admit
  <2>1. Head(admission) \in Event
    BY <1>4, TailElems DEF Admit, Custody, Types, MemoryTypes
  <2>2. \A c \in Conversation : \/ pc'[c] = pc[c] /\ job'[c] = job[c]
                                \/ pc[c] = "absent" /\ pc'[c] = "idle"
    BY <1>4 DEF Admit, Enqueue, Custody, Types, MemoryTypes
  <2>3. UNCHANGED <<inbox, attempts, post, task, run, outbox, loop, posted, phase>>
    BY <1>4 DEF Admit, durable, process
  <2> QED  BY <2>2, <2>3, QuietStep DEF Alive
<1> QED  BY <1>1, <1>2, <1>3, <1>4 DEF IngressStep

\* Taking an event from its queue changes no row.
LEMMA TakeExecutions ==
  ASSUME Executions, Custody', NEW c \in Conversation, Take(c)
  PROVE  Executions'
<1>1. \A d \in Conversation : \/ pc'[d] = pc[d] /\ job'[d] = job[d]
                              \/ pc[d] = "idle" /\ pc'[d] \in {"slot", "gone"}
  BY DEF Take, Executions, Custody, Types, MemoryTypes
<1>2. UNCHANGED <<inbox, attempts, post, task, run, outbox, loop, posted, phase>>
  BY DEF Take, durable, process
<1> QED  BY <1>1, <1>2, QuietStep DEF Alive

\* A row changes its status, of an event whose verdict it has not decided.
LEMMA RowMoves ==
  ASSUME Executions, UNCHANGED <<inbox, attempts, post, task, run, phase, pc, job>>,
         NEW k \in Key, NEW r, outbox' = [outbox EXCEPT ![k] = r],
         r.owner \in Event \cup Standalone, r.status # "absent",
         k \in Rows => r.owner = outbox[k].owner,
         r.owner \in Event => k \in Rows /\ outbox[k].status \notin {"delivered", "failed"},
         k[1] \in Standalone <=> r.owner \in Standalone,
         r.status = "delivered" => posted'[k],
         \A j \in Rows \ {k} : posted'[j] = posted[j]
  PROVE  /\ \A e \in Event : Execution(e)' /\ Verdict(e)'
         /\ \A c \in Conversation : AtPc(c)' /\ DeadOfParked(c)'
         /\ PostOfSource' /\ RowsAreOwned' /\ OutboxTruthful'
         /\ \A j \in Key : j # k => outbox'[j] = outbox[j]
         /\ outbox'[k] = r
<1> USE DEF Executions
<1>1. (\A j \in Key : j # k => outbox'[j] = outbox[j]) /\ outbox'[k] = r
  BY DEF Custody, Types, OutboxTypes
<1>2. Rows' = Rows \cup {k}
  BY <1>1 DEF Rows
<1>3. ASSUME NEW e \in Event PROVE RowsOf(e)' = RowsOf(e)
  BY <1>1, <1>2, EventConstants DEF RowsOf
<1>4. ASSUME NEW e \in Event PROVE Execution(e)'
  BY DEF Execution, IsAt, Alive
<1>5. ASSUME NEW e \in Event PROVE Verdict(e)'
  <2>1. \A j \in RowsOf(e) : /\ j \in Key
                             /\ outbox[j].status = "delivered" => outbox'[j] = outbox[j]
                             /\ outbox[j].status = "failed" => outbox'[j] = outbox[j]
    BY <1>1, EventConstants DEF RowsOf, Rows
  <2>2. task[e] = "succeeded" => \A j \in RowsOf(e) : outbox'[j].status = "delivered"
    BY <2>1 DEF Verdict
  <2>3. task[e] = "failed" => \/ inbox[e] = "failed" \/ run[e] = "failed"
                              \/ \E j \in RowsOf(e) : outbox'[j].status = "failed"
    BY <2>1 DEF Verdict
  <2> QED  BY <1>3, <2>2, <2>3 DEF Verdict
<1>6. ASSUME NEW c \in Conversation PROVE AtPc(c)' /\ DeadOfParked(c)'
  <2>1. CASE pc[c] \in Resting
    BY <2>1 DEF AtPc, DeadOfParked, Resting
  <2>2. CASE pc[c] \notin Resting
    <3>1. RowsOf(job[c])' = RowsOf(job[c])
      <4>1. job[c] \in Event  BY <2>2, WorkerHolds
      <4> QED  BY <1>1, <1>2, <4>1, EventConstants DEF RowsOf
    <3> QED  BY <3>1 DEF AtPc, DeadOfParked
  <2> QED  BY <2>1, <2>2
<1>7. PostOfSource'
  BY DEF PostOfSource
<1>8. RowsAreOwned'
  BY <1>1, <1>2, EventConstants DEF RowsAreOwned, Rows
<1>9. OutboxTruthful'
  BY <1>1, <1>2 DEF OutboxTruthful, Rows
<1> QED  BY <1>1, <1>4, <1>5, <1>6, <1>7, <1>8, <1>9

\* Deliveries and the settlement keep the verdict of each Task (_deliver_one,
\* _settle_parent_task).
LEMMA OutboxExecutions ==
  ASSUME Executions, Custody', OutboxStep
  PROVE  Executions'
<1> USE DEF Executions
<1>1. outbox \in [Key -> Row] /\ loop.pc \in {"off", "poll", "sending", "answer", "settle"}
      /\ loop \in [pc : {"off", "poll", "sending", "answer", "settle"}, key : Key \cup {None}]
      /\ posted \in [Key -> BOOLEAN]
  BY DEF Custody, Types, OutboxTypes, MemoryTypes, RecordTypes
<1>2. DeliveryUnchanged => UNCHANGED <<inbox, attempts, post, run, phase, pc, job>> /\ (Alive <=> Alive')
  BY DEF DeliveryUnchanged, workers, process, Alive
<1>3. \A k \in Rows : /\ k \in Key /\ outbox[k].owner \in Event \cup Standalone
                      /\ k[1] \in Standalone <=> outbox[k].owner \in Standalone
  BY <1>1 DEF RowsAreOwned, Rows, Row
<1>4. ASSUME NEW k \in Rows, NEW status \in DeliveryStatus \ {"absent"}, SetStatus(k, status)
      PROVE  outbox' = [outbox EXCEPT ![k] = [outbox[k] EXCEPT !.status = status]]
             /\ [outbox[k] EXCEPT !.status = status].status = status
             /\ [outbox[k] EXCEPT !.status = status].owner = outbox[k].owner
  <2>1. outbox[k] \in Row  BY <1>1, <1>3
  <2> QED  BY <1>1, <1>4, <2>1 DEF SetStatus, Row
<1>5. ASSUME NEW k \in Key, BeginDelivery(k) PROVE Executions'
  <2>1. /\ k \in Rows /\ outbox[k].status \in {"pending", "retrying"} /\ loop.pc = "poll"
        /\ loop' = [pc |-> "sending", key |-> k] /\ UNCHANGED <<task, posted>> /\ DeliveryUnchanged
        /\ outbox' = [outbox EXCEPT ![k].status = "sending", ![k].attempts = @ + 1]
    BY <1>5 DEF BeginDelivery, Ready, Rows
  <2> DEFINE r == [outbox[k] EXCEPT !.status = "sending", !.attempts = outbox[k].attempts + 1]
  <2>2. outbox' = [outbox EXCEPT ![k] = r]
    BY <1>1, <2>1
  <2>3. r.status = "sending" /\ r.owner = outbox[k].owner
    BY <1>1 DEF Row
  <2> HIDE DEF r
  <2>4. /\ \A e \in Event : Execution(e)' /\ Verdict(e)'
        /\ \A c \in Conversation : AtPc(c)' /\ DeadOfParked(c)'
        /\ PostOfSource' /\ RowsAreOwned' /\ OutboxTruthful' /\ outbox'[k] = r
    BY <1>2, <1>3, <2>1, <2>2, <2>3, RowMoves
  <2>5. LoopAgrees'
    BY <1>2, <2>1, <2>3, <2>4 DEF LoopAgrees
  <2> QED  BY <2>4, <2>5
<1>6. CASE RemotePost
  <2>1. /\ loop.pc = "sending" /\ loop.key \in Key /\ outbox[loop.key].status = "sending"
        /\ posted' = [posted EXCEPT ![loop.key] = TRUE] /\ loop' = [loop EXCEPT !.pc = "answer"]
        /\ UNCHANGED <<task, outbox>> /\ DeliveryUnchanged
    BY <1>6 DEF RemotePost, LoopAgrees
  <2>2. \A e : RowsOf(e)' = RowsOf(e)
    BY <2>1 DEF RowsOf, Rows
  <2>3. \A e \in Event : Execution(e)' /\ Verdict(e)'
    BY <1>2, <2>1, <2>2 DEF Execution, Verdict, IsAt
  <2>4. ASSUME NEW c \in Conversation PROVE AtPc(c)' /\ DeadOfParked(c)'
    <3>1. RowsOf(job[c])' = RowsOf(job[c])  BY <1>2, <2>1 DEF RowsOf, Rows
    <3> QED  BY <1>2, <2>1, <3>1 DEF AtPc, DeadOfParked
  <2>5. PostOfSource' /\ RowsAreOwned'
    BY <1>2, <2>1 DEF PostOfSource, RowsAreOwned, Rows
  <2>6. \A k \in Key : posted[k] => posted'[k]
    BY <1>1, <2>1
  <2>7. OutboxTruthful'
    BY <1>2, <2>1, <2>6 DEF OutboxTruthful, Rows
  <2>8. LoopAgrees'
    BY <1>1, <1>2, <2>1 DEF LoopAgrees
  <2> QED  BY <2>3, <2>4, <2>5, <2>7, <2>8
<1>7. ASSUME NEW status \in {"delivered", "failed", "retrying"}, NEW k \in Key, k = loop.key,
             loop.pc \in {"sending", "answer"}, SetStatus(k, status), status = "delivered" => loop.pc = "answer",
             \/ loop'.pc = "settle" /\ loop'.key = k /\ status # "retrying"
             \/ loop'.pc = "poll",
             UNCHANGED <<task, posted>>, DeliveryUnchanged
      PROVE  Executions'
  <2>1. k \in Rows /\ outbox[k].status = "sending" /\ status \in DeliveryStatus \ {"absent"}
        /\ (status = "delivered" => posted[k])
    BY <1>7 DEF LoopAgrees, Rows, DeliveryStatus
  <2> DEFINE r == [outbox[k] EXCEPT !.status = status]
  <2>2. outbox' = [outbox EXCEPT ![k] = r] /\ r.status = status /\ r.owner = outbox[k].owner
    BY <1>4, <1>7, <2>1
  <2> HIDE DEF r
  <2>3. /\ \A e \in Event : Execution(e)' /\ Verdict(e)'
        /\ \A c \in Conversation : AtPc(c)' /\ DeadOfParked(c)'
        /\ PostOfSource' /\ RowsAreOwned' /\ OutboxTruthful' /\ outbox'[k] = r
    BY <1>2, <1>3, <1>7, <2>1, <2>2, RowMoves
  <2>4. LoopAgrees'
    BY <1>2, <1>7, <2>2, <2>3 DEF LoopAgrees
  <2> QED  BY <2>3, <2>4
<1>8. CASE DeliverySucceeds
  <2>1. loop.key \in Key /\ loop'.pc = "settle" /\ loop'.key = loop.key
    BY <1>1, <1>8 DEF DeliverySucceeds, LoopAgrees
  <2> QED  BY <1>7, <1>8, <2>1 DEF DeliverySucceeds
<1>9. CASE DeliveryFails
  <2>1. loop.key \in Key
    BY <1>9 DEF DeliveryFails, LoopAgrees
  <2>2. CASE SetStatus(loop.key, "failed") /\ loop' = [loop EXCEPT !.pc = "settle"]
    <3>1. loop'.pc = "settle" /\ loop'.key = loop.key  BY <1>1, <2>2
    <3> QED  BY <1>7, <1>9, <2>1, <2>2, <3>1 DEF DeliveryFails
  <2>3. CASE SetStatus(loop.key, "retrying") /\ loop' = [pc |-> "poll", key |-> loop.key]
    BY <1>7, <1>9, <2>1, <2>3 DEF DeliveryFails
  <2> QED  BY <1>9, <2>2, <2>3 DEF DeliveryFails
<1>10. CASE Settle
  <2> DEFINE k == loop.key
  <2>1. /\ loop.pc = "settle" /\ loop'.pc = "poll" /\ k \in Rows
        /\ outbox[k].status \in {"delivered", "failed"}
        /\ UNCHANGED <<outbox, posted>> /\ DeliveryUnchanged /\ Alive
    BY <1>1, <1>10 DEF Settle, LoopAgrees, Rows
  <2>2. PICK e : e = outbox[k].owner  OBVIOUS
  <2>3. \/ UNCHANGED task
        \/ e \in Event /\ task[e] = "running" /\ outbox[k].status = "failed"
           /\ task' = [task EXCEPT ![e] = "failed"]
        \/ e \in Event /\ task[e] = "running" /\ AllDelivered(e)
           /\ task' = [task EXCEPT ![e] = IF run[e] = "failed" THEN "failed" ELSE "succeeded"]
    BY <1>3, <1>10, <2>1, <2>2 DEF Settle, MoveTask
  <2> HIDE DEF k
  <2>4. \A d : RowsOf(d)' = RowsOf(d)
    BY <2>1 DEF RowsOf, Rows
  <2>5. e \in Event => k \in RowsOf(e) /\ inbox[e] = "completed"
    BY <2>1, <2>2 DEF RowsOf, OutboxTruthful
  <2>6. task[e] = "running" /\ e \in Event => run[e] \in {"succeeded", "failed"}
    <3>1. ASSUME e \in Event PROVE ~IsAt(e, {"finish_run"})
      BY <2>1, <3>1, EventConstants DEF Custody, OneStretch, IsAt, Synchronous
    <3> QED  BY <2>1, <2>5, <3>1 DEF Execution
  <2>7. \A d \in Event : d # e => task'[d] = task[d]
    BY <2>3 DEF Custody, Types, RecordTypes
  <2>8. ASSUME NEW d \in Event PROVE Execution(d)' /\ Verdict(d)'
    <3>1. CASE task'[d] = task[d]
      BY <1>2, <2>1, <2>4, <3>1 DEF Execution, Verdict, IsAt
    <3>2. CASE task'[d] # task[d]
      <4>1. d = e  BY <2>7, <3>2
      <4>2. task[d] = "running" /\ inbox'[d] = "completed" /\ run'[d] = run[d] /\ run[d] \in {"succeeded", "failed"}
        BY <1>2, <2>1, <2>3, <2>5, <2>6, <3>2, <4>1
      <4>3. \/ task'[d] = "failed" /\ outbox[k].status = "failed"
            \/ task'[d] = "failed" /\ run[d] = "failed"
            \/ task'[d] = "succeeded" /\ run[d] # "failed" /\ AllDelivered(d)
        BY <2>3, <3>2, <4>1 DEF Custody, Types, RecordTypes
      <4>4. Verdict(d)'
        BY <2>1, <2>4, <2>5, <4>1, <4>2, <4>3 DEF Verdict, AllDelivered
      <4>5. Execution(d)'
        BY <4>2, <4>3 DEF Execution, Unsettled, Interrupted
      <4> QED  BY <4>4, <4>5
    <3> QED  BY <3>1, <3>2
  <2>9. ASSUME NEW c \in Conversation PROVE AtPc(c)' /\ DeadOfParked(c)'
    <3>1. CASE pc[c] \in Resting
      BY <1>2, <2>1, <3>1 DEF AtPc, DeadOfParked, Resting
    <3>2. CASE pc[c] \notin Resting
      <4>1. job[c] \in Event /\ Fits(pc[c], inbox[job[c]]) /\ pc[c] \notin Synchronous
        BY <2>1, <3>2, WorkerHolds DEF Custody, JobByPc, OneStretch
      <4>2. job[c] = e => pc[c] \notin {"mark", "agent", "sleep", "card", "slot"}
        BY <2>5, <4>1 DEF Fits
      <4>3. pc[c] \in WorkerPc  BY DEF Custody, Types, MemoryTypes
      <4>4. job[c] # e
        BY <3>2, <4>1, <4>2, <4>3 DEF WorkerPc, Synchronous, Resting
      <4>5. RowsOf(job[c])' = RowsOf(job[c])  BY <1>2, <2>1 DEF RowsOf, Rows
      <4> QED  BY <1>2, <2>1, <2>7, <4>1, <4>4, <4>5 DEF AtPc, DeadOfParked
    <3> QED  BY <3>1, <3>2
  <2>10. PostOfSource' /\ LoopAgrees' /\ RowsAreOwned' /\ OutboxTruthful'
    <3>1. UNCHANGED inbox  BY <1>2, <2>1
    <3> QED  BY <1>2, <2>1, <3>1, RowsKept DEF PostOfSource, LoopAgrees
  <2> QED  BY <2>8, <2>9, <2>10
<1>11. ASSUME NEW s \in Standalone, EnqueueDelivery(s) PROVE Executions'
  <2> DEFINE k == <<s, 1>>
  <2>1. k \in Key /\ k[1] = s  BY EventConstants DEF Key
  <2>2. /\ outbox' = [outbox EXCEPT ![k] = NewRow(s, FALSE)] /\ k \notin Rows
        /\ UNCHANGED <<task, loop, posted>> /\ DeliveryUnchanged
    BY <1>11 DEF EnqueueDelivery, Rows
  <2>3. NewRow(s, FALSE).owner = s /\ NewRow(s, FALSE).status = "pending" /\ s \notin Event
    BY EventConstants DEF NewRow
  <2> HIDE DEF k
  <2>4. /\ \A e \in Event : Execution(e)' /\ Verdict(e)'
        /\ \A c \in Conversation : AtPc(c)' /\ DeadOfParked(c)'
        /\ PostOfSource' /\ RowsAreOwned' /\ OutboxTruthful'
        /\ \A j \in Key : j # k => outbox'[j] = outbox[j]
    BY <1>2, <2>1, <2>2, <2>3, RowMoves
  <2>5. LoopAgrees'
    BY <1>2, <2>2, <2>4 DEF LoopAgrees, Rows
  <2> QED  BY <2>4, <2>5
<1>12. ASSUME NEW s \in Standalone, RetryDelivery(s) PROVE Executions'
  <2> DEFINE k == <<s, 1>>
             r == [outbox[k] EXCEPT !.status = "retrying", !.attempts = 0]
  <2>1. k \in Key /\ k[1] = s  BY EventConstants DEF Key
  <2>2. /\ outbox' = [outbox EXCEPT ![k].status = "retrying", ![k].attempts = 0]
        /\ outbox[k].status = "failed" /\ UNCHANGED <<task, loop, posted>> /\ DeliveryUnchanged
        /\ loop.pc # "settle"
    BY <1>12 DEF RetryDelivery, Free
  <2>3. outbox[k] \in Row  BY <1>1, <2>1
  <2>4. k \in Rows  BY <2>1, <2>2 DEF Rows
  <2>5. outbox[k].owner \in Standalone /\ outbox[k].owner \notin Event
    BY <1>3, <2>1, <2>4, EventConstants
  <2> HIDE DEF k
  <2>6. outbox' = [outbox EXCEPT ![k] = r] /\ r.status = "retrying" /\ r.owner = outbox[k].owner
    BY <1>1, <2>2, <2>3 DEF Row
  <2> HIDE DEF r
  <2>7. /\ \A e \in Event : Execution(e)' /\ Verdict(e)'
        /\ \A c \in Conversation : AtPc(c)' /\ DeadOfParked(c)'
        /\ PostOfSource' /\ RowsAreOwned' /\ OutboxTruthful'
        /\ \A j \in Key : j # k => outbox'[j] = outbox[j]
    BY <1>2, <2>1, <2>2, <2>4, <2>5, <2>6, RowMoves
  <2>8. LoopAgrees'
    BY <1>2, <2>2, <2>7 DEF LoopAgrees
  <2> QED  BY <2>7, <2>8
<1> QED
  BY <1>5, <1>6, <1>8, <1>9, <1>10, <1>11, <1>12 DEF OutboxStep, DeliveryStep

\* A crash and the recovery of run, Task and Inbox row keep what the rows say of each other.
LEMMA ProcessExecutions ==
  ASSUME Executions, Custody', ProcessStep
  PROVE  Executions'
<1> USE DEF Executions
<1>1. CASE Start
  <2>1. /\ ~Alive /\ Alive' /\ loop'.pc = "poll" /\ UNCHANGED <<attempts, post, posted, pc, job>>
        /\ run' = ReconciledExecutions(run) /\ task' = ReconciledExecutions(task)
        /\ outbox' = ReconciledDeliveries
        /\ inbox' = [e \in Event |-> IF inbox[e] \in Interrupted THEN "accepted" ELSE inbox[e]]
    BY <1>1 DEF Start, Alive, workers
  <2>2. \A c \in Conversation : pc[c] = "absent" /\ job[c] = None
    BY <2>1 DEF Custody, MemoryByPhase
  <2>3. \A k \in Key : /\ outbox'[k].owner = outbox[k].owner
                       /\ outbox[k].status \in {"absent", "delivered", "failed"} => outbox'[k] = outbox[k]
                       /\ outbox[k].status \notin {"absent", "delivered", "failed"} =>
                            outbox'[k].status \in {"pending", "retrying"}
    <3>1. outbox \in [Key -> Row]  BY DEF Custody, Types, OutboxTypes
    <3> QED  BY <2>1, <3>1 DEF ReconciledDeliveries, Row, DeliveryStatus
  <2>4. Rows' = Rows /\ \A e : RowsOf(e)' = RowsOf(e)
    BY <2>3 DEF Rows, RowsOf
  <2>5. ASSUME NEW e \in Event PROVE Execution(e)' /\ Verdict(e)'
    <3>1. /\ run'[e] = IF run[e] = "running" THEN "queued" ELSE run[e]
          /\ task'[e] = IF task[e] = "running" THEN "queued" ELSE task[e]
          /\ inbox'[e] = IF inbox[e] \in Interrupted THEN "accepted" ELSE inbox[e]
      BY <2>1 DEF ReconciledExecutions
    <3>2. Execution(e)'
      BY <2>1, <3>1 DEF Execution, Open, Unsettled, Interrupted
    <3>3. Verdict(e)'
      BY <2>3, <2>4, <3>1 DEF Verdict, Interrupted, RowsOf, Rows
    <3> QED  BY <3>2, <3>3
  <2>6. \A c \in Conversation : AtPc(c)' /\ DeadOfParked(c)'
    BY <2>1, <2>2 DEF AtPc, DeadOfParked
  <2>7. PostOfSource'
    BY <2>1 DEF PostOfSource, Interrupted, Custody, Types, RecordTypes
  <2>8. LoopAgrees'
    BY <2>1 DEF LoopAgrees
  <2>9. RowsAreOwned' /\ OutboxTruthful'
    BY <2>1, <2>3, <2>4 DEF RowsAreOwned, OutboxTruthful, Rows, Interrupted
  <2> QED  BY <2>5, <2>6, <2>7, <2>8, <2>9
<1>2. CASE Recover
  <2>1. \A c \in Conversation : \/ pc'[c] = pc[c] /\ job'[c] = job[c]
                                \/ pc[c] = "absent" /\ pc'[c] = "idle"
    BY <1>2 DEF Recover, Enqueue, Custody, Types, MemoryTypes
  <2>2. UNCHANGED <<inbox, attempts, post, task, run, outbox, loop, posted, phase>>
    BY <1>2 DEF Recover, durable, process
  <2> QED  BY <2>1, <2>2, QuietStep DEF Alive
<1>3. CASE Started \/ BeginClose \/ OutboxDrained \/ StopWorkers \/ WorkersGone
           \/ \E c \in Conversation : JoinQueue(c)
  <2>1. /\ UNCHANGED <<inbox, attempts, post, task, run, outbox, loop, posted, pc, job>>
        /\ Alive /\ Alive'
    BY <1>3 DEF Started, BeginClose, OutboxDrained, StopWorkers, WorkersGone, JoinQueue, durable,
                workers, Alive
  <2> QED  BY <2>1, QuietStep
<1>4. CASE Crash \/ LoopExits
  <2>1. /\ UNCHANGED <<inbox, attempts, post, task, run, outbox, posted>>
        /\ ~Alive' /\ loop'.pc = "off"
        /\ \A c \in Conversation : pc'[c] = "absent"
    BY <1>4 DEF Crash, LoopExits, LoseMemory, durable, Alive
  <2>2. \A e \in Event : Execution(e)' /\ Verdict(e)'
    BY <2>1 DEF Execution, Verdict, RowsOf, Rows
  <2>3. \A c \in Conversation : AtPc(c)' /\ DeadOfParked(c)'
    BY <2>1 DEF AtPc, DeadOfParked
  <2>4. PostOfSource' /\ LoopAgrees' /\ RowsAreOwned' /\ OutboxTruthful'
    BY <2>1, RowsKept DEF PostOfSource, LoopAgrees
  <2> QED  BY <2>2, <2>3, <2>4
<1> QED
  BY <1>1, <1>2, <1>3, <1>4 DEF ProcessStep, CloseStep

\* At first there are no rows.
LEMMA ExecutionsInit ==
  ASSUME Init
  PROVE  Executions
<1>1. Rows = {}  BY DEF Init, Rows, NoRow
<1>2. \A e \in Event : Execution(e) /\ Verdict(e)
  BY DEF Init, Execution, Verdict, Unsettled, Interrupted
<1>3. \A c \in Conversation : AtPc(c) /\ DeadOfParked(c)
  BY DEF Init, AtPc, DeadOfParked
<1>4. PostOfSource /\ LoopAgrees /\ RowsAreOwned /\ OutboxTruthful
  BY <1>1 DEF Init, PostOfSource, LoopAgrees, RowsAreOwned, OutboxTruthful, Alive
<1> QED  BY <1>2, <1>3, <1>4, CustodyInit DEF Executions

\* Every step keeps the rows of an event in step with each other.
LEMMA ExecutionsStep ==
  ASSUME Executions, [Next]_vars
  PROVE  Executions'
<1>1. Custody'  BY CustodyStep DEF Executions
<1>2. CASE UNCHANGED vars
  <2>1. UNCHANGED <<inbox, attempts, post, task, run, outbox, loop, posted, phase, pc, job>>
    BY <1>2 DEF vars, durable, workers, process
  <2> QED  BY <1>1, <2>1, QuietStep DEF Alive
<1>3. ASSUME NEW c \in Conversation, WorkerStep(c) \/ ProcessorStep(c) PROVE Executions'
  <2>1. CASE pc[c] \notin Resting
    BY <1>1, <1>3, <2>1, WorkerExecutions
  <2>2. CASE pc[c] \in Resting
    <3>1. Take(c)
      BY <1>3, <2>2 DEF Resting, WorkerStep, ProcessorStep, StartTask, StartRun, MarkProcessing, ParkTask,
         FinishRun, FinishTask, FailRun, FailTask, ParkRun, Return, Replies, Raise
    <3> QED  BY <1>1, <3>1, TakeExecutions
  <2> QED  BY <2>1, <2>2
<1>4. CASE Next
  BY <1>1, <1>3, <1>4, NextByParty, IngressExecutions, OutboxExecutions, ProcessExecutions
<1> QED  BY <1>2, <1>4

\* What run, Task, Inbox row and Outbox rows of an event say of each other holds always, whatever
\* the processor answers, wherever the process dies (_process, complete_event, recover_inbox).
THEOREM ExecutionsAreInductive == Spec => []Executions
<1>1. Init => Executions  BY ExecutionsInit
<1>2. Executions /\ [Next]_vars => Executions'  BY ExecutionsStep
<1> QED  BY <1>1, <1>2, PTL DEF Spec

\* OutboxTruthful: the Outbox holds replies of completed events only, and what counts as
\* delivered took effect at Mattermost (complete_event, _deliver_one).
THEOREM OutboxIsTruthful == Spec => []OutboxTruthful
<1>1. Executions => OutboxTruthful  BY DEF Executions
<1> QED  BY <1>1, ExecutionsAreInductive, PTL

\* TaskVerdict: a Task's verdict agrees with what happened to its processing and its replies
\* (_complete_execution, _settle_parent_task, _fail_execution).
THEOREM TaskVerdictsAgree == Spec => []TaskVerdict
<1>1. Executions => TaskVerdict  BY DEF Executions, Verdict, TaskVerdict
<1> QED  BY <1>1, ExecutionsAreInductive, PTL

\* OnlyParkedRunsKillWorkers: a conversation's worker dies only of a run that is parked for
\* an approval while its event is unsettled (_start_execution).
THEOREM OnlyParkedRunsKill == Spec => []OnlyParkedRunsKillWorkers
<1>1. Executions => OnlyParkedRunsKillWorkers
  BY DEF Executions, DeadOfParked, OnlyParkedRunsKillWorkers
<1> QED  BY <1>1, ExecutionsAreInductive, PTL

\* What a step may not do to what is settled.
FinalStep ==
  /\ \A e \in Event : inbox[e] \in Settled =>
        inbox'[e] = inbox[e] /\ attempts'[e] = attempts[e] /\ RowsOf(e)' = RowsOf(e)
  /\ \A k \in Key : outbox[k].status = "delivered" => outbox'[k] = outbox[k]

\* A step that leaves rows and settled events alone undoes nothing.
LEMMA FinalIfUnchanged ==
  ASSUME UNCHANGED <<attempts, outbox>>, \A e \in Event : inbox[e] \in Settled => inbox'[e] = inbox[e]
  PROVE  FinalStep
BY DEF FinalStep, RowsOf, Rows

\* A row whose status changes was not delivered, and keeps its owner.
LEMMA FinalIfMoved ==
  ASSUME UNCHANGED <<attempts, inbox>>, NEW k \in Key, outbox \in [Key -> Row],
         outbox[k].status # "delivered",
         NEW r, outbox' = [outbox EXCEPT ![k] = r], r.status # "absent",
         \/ outbox[k].status # "absent" /\ r.owner = outbox[k].owner
         \/ outbox[k].status = "absent" /\ r.owner \notin Event
  PROVE  FinalStep
<1>1. (\A j \in Key : j # k => outbox'[j] = outbox[j]) /\ outbox'[k] = r
  OBVIOUS
<1>2. \A e \in Event : RowsOf(e)' = RowsOf(e)
  BY <1>1 DEF RowsOf, Rows
<1> QED  BY <1>1, <1>2 DEF FinalStep

\* No step undoes what is settled.
LEMMA SettledIsFinalStep ==
  ASSUME Executions, [Next]_vars
  PROVE  FinalStep
<1> USE DEF Executions, Custody
<1>1. /\ outbox \in [Key -> Row] /\ inbox \in [Event -> InboxStatus] /\ attempts \in [Event -> Nat]
      /\ loop \in [pc : {"off", "poll", "sending", "answer", "settle"}, key : Key \cup {None}]
  BY DEF Types, RecordTypes, OutboxTypes, MemoryTypes
<1>2. CASE UNCHANGED vars
  BY <1>2, FinalIfUnchanged DEF vars, durable
<1>3. CASE IngressStep
  <2>1. ASSUME NEW e \in Event, Accept(e) \/ \E source \in Event : Replay(source, e) PROVE FinalStep
    <3>1. PICK p \in Event : AcceptEvent(e, p)  BY <2>1, AcceptOrReplay DEF Types
    <3>2. \A d \in Event : inbox[d] \in Settled => inbox'[d] = inbox[d]
      BY <1>1, <3>1 DEF AcceptEvent, Settled
    <3> QED  BY <3>1, <3>2, FinalIfUnchanged DEF AcceptEvent
  <2>2. CASE Ensure \/ Admit \/ \E e \in Event : HookReturns(e)
    BY <2>2, FinalIfUnchanged DEF Ensure, Admit, HookReturns, durable
  <2> QED  BY <1>3, <2>1, <2>2 DEF IngressStep
<1>4. ASSUME NEW c \in Conversation, WorkerStep(c) \/ ProcessorStep(c) PROVE FinalStep
  <2>1. Fits(pc[c], inbox[job[c]])  BY DEF JobByPc
  <2>2. CASE Take(c) \/ StartTask(c) \/ StartRun(c) \/ ParkRun(c) \/ ParkTask(c)
             \/ FinishRun(c) \/ FinishTask(c) \/ FailRun(c) \/ FailTask(c)
    <3>1. UNCHANGED <<inbox, attempts, outbox>>
      BY <2>2 DEF Take, StartTask, StartRun, ParkRun, ParkTask, FinishRun, FinishTask, FailRun, FailTask,
                  durable
    <3> QED  BY <3>1, FinalIfUnchanged
  <2>3. CASE MarkProcessing(c)
    <3>1. inbox[job[c]] \notin Settled
      BY <2>1, <2>3 DEF MarkProcessing, Fits, Settled
    <3>2. \A e \in Event : inbox[e] \in Settled => inbox'[e] = inbox[e] /\ attempts'[e] = attempts[e]
      BY <1>1, <2>3, <3>1 DEF MarkProcessing
    <3>3. UNCHANGED outbox  BY <2>3 DEF MarkProcessing
    <3> QED  BY <3>2, <3>3 DEF FinalStep, RowsOf, Rows
  <2>4. ASSUME NEW retryable \in BOOLEAN, Raise(c, retryable) PROVE FinalStep
    <3>1. inbox[job[c]] \notin Settled
      BY <2>1, <2>4 DEF Raise, Fits, Settled
    <3>2. \A e \in Event : inbox[e] \in Settled => inbox'[e] = inbox[e]
      BY <1>1, <2>4, <3>1 DEF Raise
    <3> QED  BY <2>4, <3>2, FinalIfUnchanged DEF Raise
  <2>5. ASSUME NEW n \in 0..MaxParts, NEW isError \in BOOLEAN, Return(c, n, isError) PROVE FinalStep
    <3>1. inbox[job[c]] \notin Settled /\ UNCHANGED attempts
      BY <2>1, <2>5 DEF Return, Replies, Fits, Settled
    <3>2. \A e \in Event : inbox[e] \in Settled => inbox'[e] = inbox[e]
      BY <1>1, <2>5, <3>1 DEF Return
    <3>3. CASE UNCHANGED outbox
      BY <3>1, <3>2, <3>3, FinalIfUnchanged
    <3> DEFINE K == ReplyKeys(job[c], n)
    <3>4. CASE /\ K \cap Rows = {}
               /\ outbox' = [k \in Key |-> IF k \in K THEN NewRow(job[c], isError) ELSE outbox[k]]
      <4> HIDE DEF K
      <4>1. /\ \A k \in Key : IF k \in K THEN outbox'[k].owner = job[c] /\ outbox[k].status = "absent"
                                         ELSE outbox'[k] = outbox[k]
        BY <3>4 DEF NewRow, Rows
      <4>2. \A e \in Event : e # job[c] => RowsOf(e)' = RowsOf(e)
        BY <4>1 DEF RowsOf, Rows
      <4> QED  BY <3>1, <3>2, <4>1, <4>2 DEF FinalStep
    <3> QED  BY <2>5, <3>3, <3>4 DEF Return
  <2> QED  BY <1>4, <2>2, <2>3, <2>4, <2>5 DEF WorkerStep, ProcessorStep
<1>5. CASE OutboxStep
  <2>1. UNCHANGED <<inbox, attempts>>
    BY <1>5 DEF OutboxStep, DeliveryStep, BeginDelivery, DeliverySucceeds, DeliveryFails, Settle, RemotePost,
                EnqueueDelivery, RetryDelivery, DeliveryUnchanged
  <2>2. ASSUME NEW k \in Key, BeginDelivery(k) PROVE FinalStep
    <3> DEFINE r == [outbox[k] EXCEPT !.status = "sending", !.attempts = outbox[k].attempts + 1]
    <3>1. outbox' = [outbox EXCEPT ![k] = r] /\ r.status = "sending" /\ r.owner = outbox[k].owner
      BY <1>1, <2>2 DEF BeginDelivery, Row
    <3>2. outbox[k].status \in {"pending", "retrying"}  BY <2>2 DEF BeginDelivery, Ready
    <3> HIDE DEF r
    <3> QED  BY <1>1, <2>1, <3>1, <3>2, FinalIfMoved
  <2>3. ASSUME DeliverySucceeds \/ DeliveryFails PROVE FinalStep
    <3>1. PICK k \in Key : k = loop.key /\ outbox[k].status = "sending"
      BY <2>3 DEF DeliverySucceeds, DeliveryFails, LoopAgrees
    <3>2. PICK status \in {"delivered", "failed", "retrying"} : SetStatus(k, status)
      BY <2>3, <3>1 DEF DeliverySucceeds, DeliveryFails
    <3> DEFINE r == [outbox[k] EXCEPT !.status = status]
    <3>3. outbox' = [outbox EXCEPT ![k] = r] /\ r.status = status /\ r.owner = outbox[k].owner
      BY <1>1, <3>2 DEF SetStatus, Row
    <3> HIDE DEF r
    <3> QED  BY <1>1, <2>1, <3>1, <3>2, <3>3, FinalIfMoved
  <2>4. CASE Settle \/ RemotePost
    BY <2>1, <2>4, FinalIfUnchanged DEF Settle, RemotePost
  <2>5. ASSUME NEW s \in Standalone, EnqueueDelivery(s) PROVE FinalStep
    <3> DEFINE k == <<s, 1>>
    <3>1. k \in Key /\ s \notin Event  BY EventConstants DEF Key
    <3>2. outbox' = [outbox EXCEPT ![k] = NewRow(s, FALSE)] /\ outbox[k].status = "absent"
      BY <2>5 DEF EnqueueDelivery
    <3>3. NewRow(s, FALSE).owner = s /\ NewRow(s, FALSE).status = "pending"  BY DEF NewRow
    <3> HIDE DEF k
    <3> QED  BY <1>1, <2>1, <3>1, <3>2, <3>3, FinalIfMoved
  <2>6. ASSUME NEW s \in Standalone, RetryDelivery(s) PROVE FinalStep
    <3> DEFINE k == <<s, 1>>
               r == [outbox[k] EXCEPT !.status = "retrying", !.attempts = 0]
    <3>1. k \in Key  BY EventConstants DEF Key
    <3>2. outbox' = [outbox EXCEPT ![k].status = "retrying", ![k].attempts = 0]
          /\ outbox[k].status = "failed"
      BY <2>6 DEF RetryDelivery
    <3> HIDE DEF k
    <3>3. outbox' = [outbox EXCEPT ![k] = r] /\ r.status = "retrying" /\ r.owner = outbox[k].owner
      BY <1>1, <3>1, <3>2 DEF Row
    <3> HIDE DEF r
    <3> QED  BY <1>1, <2>1, <3>1, <3>2, <3>3, FinalIfMoved
  <2> QED  BY <1>5, <2>2, <2>3, <2>4, <2>5, <2>6 DEF OutboxStep, DeliveryStep
<1>6. CASE ProcessStep
  <2>1. CASE Start
    <3>1. /\ UNCHANGED attempts
          /\ \A e \in Event : inbox[e] \in Settled => inbox'[e] = inbox[e]
          /\ \A k \in Key : /\ outbox'[k] = outbox[k] \/ outbox[k].status = "sending"
                            /\ outbox'[k].owner = outbox[k].owner
                            /\ outbox'[k].status = "absent" <=> outbox[k].status = "absent"
      BY <1>1, <2>1 DEF Start, ReconciledDeliveries, Settled, Interrupted, Row
    <3> QED  BY <3>1 DEF FinalStep, RowsOf, Rows
  <2>2. CASE Recover \/ Started \/ Crash \/ BeginClose \/ CloseStep
    <3>1. UNCHANGED <<inbox, attempts, outbox>>
      BY <2>2 DEF Recover, Started, Crash, BeginClose, CloseStep, JoinQueue, OutboxDrained, StopWorkers,
                  WorkersGone, LoopExits, durable
    <3> QED  BY <3>1, FinalIfUnchanged
  <2> QED  BY <1>6, <2>1, <2>2 DEF ProcessStep
<1> QED  BY <1>2, <1>3, <1>4, <1>5, <1>6, NextByParty

\* SettledStaysSettled: whatever is redelivered, replayed or recovered, a completed or
\* dead-lettered event is not run again, its replies are not written twice, and a
\* delivered message is not sent again (accept_event, recover_inbox, complete_event).
THEOREM SettledIsFinal == Spec => SettledStaysSettled
<1>1. Executions /\ [Next]_vars => [FinalStep]_vars
  BY SettledIsFinalStep
<1>2. Spec => [][FinalStep]_vars
  BY <1>1, ExecutionsAreInductive, PTL DEF Spec
<1>3. FinalStep <=> /\ \A e \in Event : inbox[e] \in Settled =>
                         inbox'[e] = inbox[e] /\ attempts'[e] = attempts[e] /\ RowsOf(e)' = RowsOf(e)
                    /\ \A k \in Key : outbox[k].status = "delivered" => outbox'[k] = outbox[k]
  BY DEF FinalStep
<1> QED  BY <1>2, <1>3, PTL DEF SettledStaysSettled

-----------------------------------------------------------------------------
(* The permits of the pending semaphore.                                   *)

QueuedEvents == {e \in Event : Queued(e)}
Jobs == {c \in Conversation : job[c] # None}

\* Every permit belongs to an event that is queued or in a worker, and they are finitely many.
Permits ==
  /\ IsFiniteSet(QueuedEvents) /\ IsFiniteSet(Jobs)
  /\ pending = Cardinality(QueuedEvents) + Cardinality(Jobs)

\* Submitting an event queues that one and no other.
LEMMA QueuedAfterEnqueue ==
  ASSUME Custody, NEW e \in Event, Enqueue(e)
  PROVE  \A d \in Event : Queued(d)' <=> Queued(d) \/ d = e
<1> DEFINE c == ConversationOf[e]
<1>1. c \in Conversation /\ queue[c] \in Seq(Event \cup {Stop})
  BY EventConstants DEF Custody, Types, MemoryTypes
<1>2. queue' = [queue EXCEPT ![c] = Append(queue[c], e)]
  BY DEF Enqueue
<1>3. Elems(Append(queue[c], e)) = Elems(queue[c]) \cup {e}
  BY <1>1, AppendElems
<1> HIDE DEF c
<1>4. \A d \in Conversation : Elems(queue'[d]) = IF d = c THEN Elems(queue[c]) \cup {e} ELSE Elems(queue[d])
  BY <1>1, <1>2, <1>3 DEF Custody, Types, MemoryTypes
<1>5. \A d \in Event : ConversationOf[d] \in Conversation  BY EventConstants
<1> QED  BY <1>4, <1>5 DEF Queued, c

\* A worker takes one event from its queue, or the sentinel.
LEMMA QueuedAfterTake ==
  ASSUME Custody, NEW c \in Conversation, Take(c)
  PROVE  /\ job[c] = None
         /\ \/ UNCHANGED job /\ \A d \in Event : Queued(d)' <=> Queued(d)
            \/ \E h \in Event : /\ job' = [job EXCEPT ![c] = h]
                                /\ Queued(h)
                                /\ \A d \in Event : Queued(d)' <=> Queued(d) /\ d # h
<1> USE DEF Custody
<1> DEFINE h == Head(queue[c])
<1>1. queue[c] \in Seq(Event \cup {Stop}) /\ queue[c] # <<>>
  BY DEF Take, Types, MemoryTypes
<1>2. /\ h \in Event \cup {Stop}
      /\ Elems(queue[c]) = Elems(Tail(queue[c])) \cup {h}
      /\ h # Stop => h \notin Elems(Tail(queue[c]))
  BY <1>1, TailElems DEF HeldOnce
<1>3. /\ queue' = [queue EXCEPT ![c] = Tail(queue[c])]
      /\ IF h = Stop THEN UNCHANGED job ELSE job' = [job EXCEPT ![c] = h]
      /\ job[c] = None
  BY DEF Take, JobByPc, Resting
<1> HIDE DEF h
<1>4. \A d \in Conversation : Elems(queue'[d]) = IF d = c THEN Elems(Tail(queue[c])) ELSE Elems(queue[d])
  BY <1>3 DEF Types, MemoryTypes
<1>5. h # Stop => h \in Event /\ ConversationOf[h] = c /\ Queued(h)
  BY <1>2 DEF OwnConversation, Queued
<1>6. \A d \in Event : ConversationOf[d] \in Conversation /\ d # Stop  BY EventConstants
<1>7. \A d \in Event : Queued(d)' <=> Queued(d) /\ d # h
  BY <1>2, <1>4, <1>5, <1>6 DEF Queued
<1> QED  BY <1>3, <1>5, <1>6, <1>7

\* Who moves no event between queue and worker keeps the permits.
LEMMA PermitsFrame ==
  ASSUME Permits, QueuedEvents' = QueuedEvents, UNCHANGED <<job, pending>>
  PROVE  Permits'
BY DEF Permits, Jobs

\* Every step takes a permit for what it queues and returns one for what it ends.
LEMMA PermitsStep ==
  ASSUME Custody, Permits, [Next]_vars
  PROVE  Permits'
<1> USE DEF Custody
<1>1. /\ Cardinality(QueuedEvents) \in Nat /\ Cardinality(Jobs) \in Nat
      /\ DOMAIN job = Conversation
  BY FS_CardinalityType DEF Permits, Types, MemoryTypes
<1>2. ASSUME UNCHANGED <<queue, job, pending>> PROVE Permits'
  BY <1>2, PermitsFrame DEF QueuedEvents, Queued
<1>3. ASSUME NEW e \in Event, Enqueue(e), e \in Elems(admission) \/ e \in Elems(recovering)
      PROVE  Permits'
  <2>1. e \notin QueuedEvents
    BY <1>3 DEF HeldOnce, QueuedEvents
  <2>2. QueuedEvents' = QueuedEvents \cup {e}
    BY <1>3, QueuedAfterEnqueue DEF QueuedEvents
  <2>3. UNCHANGED Jobs /\ pending' = pending + 1
    BY <1>3 DEF Enqueue, Jobs
  <2>4. IsFiniteSet(QueuedEvents') /\ Cardinality(QueuedEvents') = Cardinality(QueuedEvents) + 1
    BY <2>1, <2>2, FS_AddElement DEF Permits
  <2>5. IsFiniteSet(Jobs') /\ Cardinality(Jobs') = Cardinality(Jobs)
    BY <2>3 DEF Permits
  <2> QED  BY <1>1, <2>3, <2>4, <2>5 DEF Permits
<1>4. ASSUME NEW c \in Conversation, NEW n, Release(c, n), pc[c] \notin Resting PROVE Permits'
  <2>1. c \in Jobs  BY <1>4 DEF JobByPc, Jobs
  <2>2. Jobs' = Jobs \ {c}  BY <1>1, <1>4 DEF Release, Jobs
  <2>3. QueuedEvents' = QueuedEvents /\ pending' = pending - 1
    BY <1>4 DEF Release, QueuedEvents, Queued
  <2>4. IsFiniteSet(Jobs') /\ Cardinality(Jobs') = Cardinality(Jobs) - 1
    BY <2>1, <2>2, FS_RemoveElement DEF Permits
  <2>5. IsFiniteSet(QueuedEvents') /\ Cardinality(QueuedEvents') = Cardinality(QueuedEvents)
    BY <2>3 DEF Permits
  <2> QED  BY <1>1, <2>3, <2>4, <2>5 DEF Permits
<1>5. CASE UNCHANGED vars
  BY <1>2, <1>5 DEF vars, workers
<1>6. CASE IngressStep
  <2>1. CASE Admit
    <3>1. Head(admission) \in Event /\ Head(admission) \in Elems(admission)
      BY <2>1, TailElems DEF Admit, Types, MemoryTypes
    <3> QED  BY <1>3, <2>1, <3>1 DEF Admit
  <2>2. CASE ~Admit
    BY <1>2, <1>6, <2>2 DEF IngressStep, Accept, Replay, AcceptEvent, Ensure, HookReturns, workers
  <2> QED  BY <2>1, <2>2
<1>7. CASE OutboxStep
  BY <1>2, <1>7 DEF OutboxStep, DeliveryStep, BeginDelivery, DeliverySucceeds, DeliveryFails, Settle, RemotePost,
                    EnqueueDelivery, RetryDelivery, DeliveryUnchanged, workers
<1>8. ASSUME NEW c \in Conversation, WorkerStep(c) \/ ProcessorStep(c) PROVE Permits'
  <2>1. CASE Take(c)
    <3>1. CASE UNCHANGED job /\ \A d \in Event : Queued(d)' <=> Queued(d)
      BY <2>1, <3>1, PermitsFrame DEF Take, QueuedEvents
    <3>2. ASSUME NEW h \in Event, job' = [job EXCEPT ![c] = h], Queued(h), job[c] = None,
                 \A d \in Event : Queued(d)' <=> Queued(d) /\ d # h
          PROVE  Permits'
      <4>1. QueuedEvents' = QueuedEvents \ {h} /\ h \in QueuedEvents
        BY <3>2 DEF QueuedEvents
      <4>2. Jobs' = Jobs \cup {c} /\ c \notin Jobs
        BY <1>1, <3>2, EventConstants DEF Jobs
      <4>3. UNCHANGED pending  BY <2>1 DEF Take
      <4>4. IsFiniteSet(QueuedEvents') /\ Cardinality(QueuedEvents') = Cardinality(QueuedEvents) - 1
        BY <4>1, FS_RemoveElement DEF Permits
      <4>5. IsFiniteSet(Jobs') /\ Cardinality(Jobs') = Cardinality(Jobs) + 1
        BY <4>2, FS_AddElement DEF Permits
      <4> QED  BY <1>1, <4>3, <4>4, <4>5 DEF Permits
    <3> QED  BY <2>1, <3>1, <3>2, QueuedAfterTake
  <2>2. CASE ~Take(c)
    <3>1. pc[c] \notin Resting
      BY <1>8, <2>2 DEF Resting, WorkerStep, ProcessorStep, StartTask, StartRun, MarkProcessing, ParkTask,
         FinishRun, FinishTask, FailRun, FailTask, ParkRun, Return, Replies, Raise
    <3>2. \E n : Goto(c, n) \/ Release(c, n)
      BY <1>8, <2>2 DEF WorkerStep, ProcessorStep, StartTask, StartRun, MarkProcessing, ParkTask,
         FinishRun, FinishTask, FailRun, FailTask, ParkRun, Return, Raise, WorkerDies
    <3> QED  BY <1>2, <1>4, <3>1, <3>2 DEF Goto
  <2> QED  BY <2>1, <2>2
<1>9. CASE ProcessStep
  <2>1. CASE Recover
    <3>1. Head(recovering) \in Event /\ Head(recovering) \in Elems(recovering)
      BY <2>1, TailElems DEF Recover, Types, MemoryTypes
    <3> QED  BY <1>3, <2>1, <3>1 DEF Recover
  <2>2. CASE StopWorkers
    <3>1. ASSUME NEW c \in Conversation, NEW e \in Event
          PROVE  e \in Elems(queue'[c]) <=> e \in Elems(queue[c])
      <4>1. queue[c] \in Seq(Event \cup {Stop}) /\ Stop \in Event \cup {Stop}
        BY DEF Types, MemoryTypes
      <4>2. Elems(Append(queue[c], Stop)) = Elems(queue[c]) \cup {Stop}
        BY <4>1, AppendElems
      <4>4. e # Stop  BY EventConstants
      <4>3. queue'[c] = queue[c] \/ queue'[c] = Append(queue[c], Stop)
        BY <2>2 DEF StopWorkers
      <4> QED  BY <4>2, <4>3, <4>4
    <3>2. QueuedEvents' = QueuedEvents
      BY <3>1, EventConstants DEF QueuedEvents, Queued
    <3> QED  BY <2>2, <3>2, PermitsFrame DEF StopWorkers
  <2>3. CASE Crash \/ LoopExits
    <3>1. QueuedEvents' = {} /\ Jobs' = {} /\ pending' = 0
      BY <2>3, EmptyElems, EventConstants DEF Crash, LoopExits, LoseMemory, QueuedEvents, Queued, Jobs
    <3> QED  BY <3>1, FS_EmptySet DEF Permits
  <2>4. CASE Start \/ Started \/ BeginClose \/ OutboxDrained \/ WorkersGone
             \/ \E c \in Conversation : JoinQueue(c)
    BY <1>2, <2>4 DEF Start, Started, BeginClose, OutboxDrained, WorkersGone, JoinQueue, workers
  <2> QED  BY <1>9, <2>1, <2>2, <2>3, <2>4 DEF ProcessStep, CloseStep
<1> QED  BY <1>5, <1>6, <1>7, <1>8, <1>9, NextByParty

\* Each event is in one pair of hands, and holds one permit, always.
LEMMA CustodyIsKept == Spec => [](Custody /\ Permits)
<1>1. ASSUME Init PROVE Permits
  <2>1. QueuedEvents = {} /\ Jobs = {} /\ pending = 0
    BY <1>1, EmptyElems, EventConstants DEF Init, QueuedEvents, Queued, Jobs
  <2> QED  BY <2>1, FS_EmptySet DEF Permits
<1>2. Init => Custody /\ Permits  BY <1>1, CustodyInit
<1>3. Custody /\ Permits /\ [Next]_vars => (Custody /\ Permits)'  BY CustodyStep, PermitsStep
<1> QED  BY <1>2, <1>3, PTL DEF Spec

\* TypeOK: every variable holds a value of its kind.
THEOREM TypeCorrect == Spec => []TypeOK
<1>1. ASSUME Custody, Permits PROVE TypeOK
  <2>1. pending \in Nat
    BY <1>1, FS_CardinalityType DEF Permits
  <2> QED  BY <1>1, <2>1 DEF Custody, Types, RecordTypes, OutboxTypes, MemoryTypes, TypeOK
<1> QED  BY <1>1, CustodyIsKept, PTL

\* PendingConserved: back-pressure is exact, the permits taken are those of the events
\* that are queued or in a worker, also after a worker's task died (scheduler._worker).
THEOREM PermitsAreConserved == Spec => []PendingConserved
<1>1. ASSUME Custody, Permits PROVE PendingConserved
  <2> USE <1>1 DEF Custody
  <2> DEFINE P == UNION {{c} \X {i \in DOMAIN queue[c] : queue[c][i] # Stop} : c \in Conversation}
             at(e) == CHOOSE i \in 1..Len(queue[ConversationOf[e]]) : queue[ConversationOf[e]][i] = e
             f == [e \in QueuedEvents |-> <<ConversationOf[e], at(e)>>]
  <2>1. \A c \in Conversation : /\ queue[c] \in Seq(Event \cup {Stop})
                                /\ DOMAIN queue[c] = 1..Len(queue[c])
    BY DEF Types, MemoryTypes
  <2>2. ASSUME NEW e \in QueuedEvents
        PROVE  /\ ConversationOf[e] \in Conversation /\ e # Stop /\ e \in Event
               /\ at(e) \in 1..Len(queue[ConversationOf[e]]) /\ queue[ConversationOf[e]][at(e)] = e
    <3>1. e \in Event /\ e # Stop /\ ConversationOf[e] \in Conversation
      BY EventConstants DEF QueuedEvents
    <3>2. \E i \in 1..Len(queue[ConversationOf[e]]) : queue[ConversationOf[e]][i] = e
      BY DEF QueuedEvents, Queued, Elems
    <3> QED  BY <3>1, <3>2
  <2>3. \A e \in QueuedEvents : f[e] \in P
    <3> TAKE e \in QueuedEvents
    <3> DEFINE c == ConversationOf[e]
    <3>1. c \in Conversation /\ at(e) \in {i \in DOMAIN queue[c] : queue[c][i] # Stop}
      BY <2>1, <2>2
    <3> HIDE DEF at, c
    <3>2. <<c, at(e)>> \in {c} \X {i \in DOMAIN queue[c] : queue[c][i] # Stop}
      BY <3>1
    <3>3. f[e] = <<c, at(e)>>  BY DEF c
    <3> QED  BY <3>1, <3>2, <3>3
  <2>4. \A x \in P : \E e \in QueuedEvents : f[e] = x
    <3> TAKE x \in P
    <3>1. PICK c \in Conversation : x \in {c} \X {i \in DOMAIN queue[c] : queue[c][i] # Stop}
      OBVIOUS
    <3>2. PICK i \in 1..Len(queue[c]) : x = <<c, i>> /\ queue[c][i] # Stop
      BY <2>1, <3>1
    <3>3. PICK e \in Event : e = queue[c][i]
      BY <2>1, <3>2
    <3>4. e \in Elems(queue[c]) /\ e # Stop /\ ConversationOf[e] = c
      BY <3>2, <3>3 DEF Elems, OwnConversation
    <3>5. e \in QueuedEvents
      BY <3>4 DEF QueuedEvents, Queued
    <3>6. at(e) \in 1..Len(queue[c]) /\ queue[c][at(e)] = e
      BY <2>2, <3>4, <3>5
    <3>7. at(e) = i
      BY <3>2, <3>3, <3>4, <3>6 DEF HeldOnce, NoRepeats
    <3> HIDE DEF at
    <3> QED  BY <3>2, <3>4, <3>5, <3>7
  <2>5. \A d, e \in QueuedEvents : f[d] = f[e] => d = e
    <3> TAKE d, e \in QueuedEvents
    <3>1. /\ f[d] = <<ConversationOf[d], at(d)>> /\ f[e] = <<ConversationOf[e], at(e)>>
      OBVIOUS
    <3>2. queue[ConversationOf[d]][at(d)] = d /\ queue[ConversationOf[e]][at(e)] = e
      BY <2>2
    <3> HIDE DEF at, f
    <3> QED  BY <3>1, <3>2
  <2> HIDE DEF P, at
  <2>6. f \in Bijection(QueuedEvents, P)
    <3>1. f \in [QueuedEvents -> P]  BY <2>3
    <3> HIDE DEF f
    <3> QED  BY <3>1, <2>4, <2>5 DEF Bijection, Injection, Surjection, IsInjective
  <2>7. ExistsBijection(QueuedEvents, P)
    BY <2>6 DEF ExistsBijection
  <2>8. Cardinality(P) = Cardinality(QueuedEvents)
    BY <2>7, FS_Bijection DEF Permits
  <2>9. PendingConserved <=> pending = Cardinality(P) + Cardinality(Jobs)
    BY DEF PendingConserved, P, Jobs
  <2> QED  BY <2>8, <2>9 DEF Permits
<1> QED  BY <1>1, CustodyIsKept, PTL
=============================================================================
