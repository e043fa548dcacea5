------------------------- MODULE PipelineOrderProofs -------------------------
(***************************************************************************)
(* Proof that a conversation is served in order of arrival, across crashes, *)
(* when the WebSocket dispatch loop is the only caller of accept().         *)
(***************************************************************************)
EXTENDS PipelineProofs

-----------------------------------------------------------------------------
(* Positions.                                                              *)

Pos == [e \in Event |-> Position(e)]

\* Position is where an event stands in the order of arrival.
LEMMA PositionIs ==
  ASSUME Custody, NEW i \in 1..Len(arrival)
  PROVE  arrival[i] \in Event /\ inbox[arrival[i]] # "absent" /\ Pos[arrival[i]] = i
<1>1. arrival \in Seq(Event)  BY DEF Custody, Types, RecordTypes
<1>2. arrival[i] \in Event /\ arrival[i] # Stop  BY <1>1, EventConstants
<1>3. inbox[arrival[i]] # "absent"  BY DEF Custody, Arrived, Elems
<1>4. \A j \in 1..Len(arrival) : arrival[j] = arrival[i] => j = i
  BY <1>2 DEF Custody, Arrived, NoRepeats
<1>5. Position(arrival[i]) = i  BY <1>4 DEF Position
<1> QED  BY <1>2, <1>3, <1>5 DEF Pos

\* Every event that has a row stands somewhere.
LEMMA PositionOf ==
  ASSUME Custody, NEW e \in Event, inbox[e] # "absent"
  PROVE  Pos[e] \in 1..Len(arrival) /\ arrival[Pos[e]] = e /\ Pos[e] \in Int /\ Len(arrival) \in Nat
<1>1. Len(arrival) \in Nat  BY DEF Custody, Types, RecordTypes
<1>2. PICK i \in 1..Len(arrival) : arrival[i] = e  BY DEF Custody, Arrived, Elems
<1> QED  BY <1>1, <1>2, PositionIs

\* No two events stand at one place.
LEMMA PositionsDiffer ==
  ASSUME Custody, NEW d \in Event, NEW e \in Event, inbox[d] # "absent", inbox[e] # "absent", d # e
  PROVE  Pos[d] # Pos[e]
BY PositionOf

\* The event that arrives is the last; the others keep their places.
LEMMA PositionsGrow ==
  ASSUME Custody, Custody', NEW e \in Event, inbox[e] = "absent",
         arrival' = Append(arrival, e), inbox' = [inbox EXCEPT ![e] = "accepted"]
  PROVE  /\ \A d \in Event : inbox[d] # "absent" => Pos'[d] = Pos[d]
         /\ Pos'[e] = Len(arrival') /\ Len(arrival') = Len(arrival) + 1 /\ Len(arrival) \in Nat
<1>1. /\ arrival \in Seq(Event) /\ Len(arrival) \in Nat /\ Len(arrival') = Len(arrival) + 1
      /\ arrival'[Len(arrival) + 1] = e
      /\ \A i \in 1..Len(arrival) : arrival'[i] = arrival[i]
  BY DEF Custody, Types, RecordTypes
<1>2. \A i \in 1..Len(arrival') : Pos'[arrival'[i]] = i
  <2>1. \A i \in 1..Len(arrival) : Custody => Pos[arrival[i]] = i
    BY PositionIs
  <2> SUFFICES ASSUME NEW i \in 1..Len(arrival') PROVE Pos'[arrival'[i]] = i
    OBVIOUS
  <2>2. arrival'[i] \in Event /\ arrival'[i] # Stop
    BY EventConstants DEF Custody, Types, RecordTypes
  <2>3. \A j \in 1..Len(arrival') : arrival'[j] = arrival'[i] => j = i
    BY <2>2 DEF Custody, Arrived, NoRepeats
  <2>4. (CHOOSE j \in 1..Len(arrival') : arrival'[j] = arrival'[i]) = i
    BY <2>3
  <2> QED  BY <2>2, <2>4 DEF Pos, Position
<1>3. ASSUME NEW d \in Event, inbox[d] # "absent" PROVE Pos'[d] = Pos[d]
  <2>1. Pos[d] \in 1..Len(arrival) /\ arrival[Pos[d]] = d  BY <1>3, PositionOf
  <2>2. Pos[d] \in 1..Len(arrival') /\ arrival'[Pos[d]] = d  BY <1>1, <2>1
  <2> HIDE DEF Pos
  <2> QED  BY <1>2, <2>2
<1>4. Pos'[e] = Len(arrival')
  <2>1. Len(arrival') \in 1..Len(arrival') /\ arrival'[Len(arrival')] = e  BY <1>1
  <2> QED  BY <1>2, <2>1
<1> QED  BY <1>1, <1>3, <1>4

-----------------------------------------------------------------------------
(* Sequences in the order of a numbering.                                  *)

Sorted(s, at) ==
  \A i, j \in 1..Len(s) : i < j /\ s[i] # Stop /\ s[j] # Stop => at[s[i]] < at[s[j]]

\* What arrived last may be put last.
LEMMA SortedAppend ==
  ASSUME NEW S, NEW s \in Seq(S), NEW x \in S, NEW at, Sorted(s, at),
         x = Stop \/ \A y \in Elems(s) : y # Stop => at[y] < at[x]
  PROVE  Sorted(Append(s, x), at)
<1>1. /\ Len(Append(s, x)) = Len(s) + 1 /\ Len(s) \in Nat
      /\ \A i \in 1..Len(s) : Append(s, x)[i] = s[i] /\ s[i] \in Elems(s)
      /\ Append(s, x)[Len(s) + 1] = x
  BY DEF Elems
<1>2. ASSUME NEW i \in 1..(Len(s) + 1), NEW j \in 1..(Len(s) + 1), i < j
      PROVE  i \in 1..Len(s) /\ (j \in 1..Len(s) \/ j = Len(s) + 1)
  BY <1>1, <1>2
<1> QED  BY <1>1, <1>2 DEF Sorted

\* The head came before all others.
LEMMA SortedTail ==
  ASSUME NEW S, NEW s \in Seq(S), s # <<>>, NEW at, Sorted(s, at)
  PROVE  /\ Sorted(Tail(s), at)
         /\ \A y \in Elems(Tail(s)) : y # Stop /\ Head(s) # Stop => at[Head(s)] < at[y]
<1>1. /\ Tail(s) \in Seq(S) /\ Head(s) = s[1]
      /\ Len(s) \in Nat /\ Len(s) > 0 /\ Len(Tail(s)) = Len(s) - 1
      /\ \A i \in 1..Len(Tail(s)) : Tail(s)[i] = s[i + 1]
  BY HeadTailProperties
<1>2. \A i \in 1..Len(Tail(s)) : i + 1 \in 1..Len(s) /\ 1 < i + 1
  BY <1>1
<1>3. 1 \in 1..Len(s)  BY <1>1
<1>4. \A i, j \in 1..Len(Tail(s)) : i < j => i + 1 < j + 1
  BY <1>1
<1>5. Sorted(Tail(s), at)
  BY <1>1, <1>2, <1>4 DEF Sorted
<1>6. \A y \in Elems(Tail(s)) : y # Stop /\ Head(s) # Stop => at[Head(s)] < at[y]
  BY <1>1, <1>2, <1>3 DEF Sorted, Elems
<1> QED  BY <1>5, <1>6

\* A sequence's order depends on what it holds only.
LEMMA SortedSame ==
  ASSUME NEW s, NEW f, NEW g, Sorted(s, f), \A y \in Elems(s) : y # Stop => g[y] = f[y]
  PROVE  Sorted(s, g)
BY DEF Sorted, Elems

\* The empty sequence is in order.
LEMMA SortedEmpty ==
  ASSUME NEW at
  PROVE  Sorted(<<>>, at)
BY DEF Sorted

-----------------------------------------------------------------------------
(* The order in which events are held.                                     *)

\* The event whose accept() has not submitted it yet.
Entering(e) == entering = e \/ e \in hooks \/ e \in Elems(admission)

LastEnters == \A e \in Event : Entering(e) => Pos[e] = Len(arrival)

QueuesInOrder == Sorted(recovering, Pos) /\ \A c \in Conversation : Sorted(queue[c], Pos)

\* What a worker handles arrived before what is queued behind it, and that before what
\* start() still has to submit.
JobIsFirst ==
  \A e \in Event : Queued(e) /\ job[ConversationOf[e]] # None => Pos[job[ConversationOf[e]]] < Pos[e]
RecoveringIsLast ==
  \A d, e \in Event :
    /\ e \in Elems(recovering) /\ ConversationOf[d] = ConversationOf[e]
    /\ Queued(d) \/ job[ConversationOf[d]] = d
    => Pos[d] < Pos[e]

\* Nobody loses an unsettled event, but a worker that dies and a scheduler that is closed.
Placed(e) ==
  \/ Waiting(e) \/ job[ConversationOf[e]] = e \/ pc[ConversationOf[e]] = "dead"
  \/ SchedulerClosed /\ Pos[e] = Len(arrival)
NoneIsLost == \A e \in Event : Alive /\ inbox[e] \in Unsettled => Placed(e)

Order ==
  /\ Custody
  /\ LastEnters /\ QueuesInOrder /\ JobIsFirst /\ RecoveringIsLast /\ NoneIsLost

\* Everything that is held has arrived.
LEMMA HeldArrived ==
  ASSUME Custody
  PROVE  /\ \A e \in Event : Waiting(e) => inbox[e] # "absent"
         /\ \A c \in Conversation : job[c] # None => job[c] \in Event /\ inbox[job[c]] # "absent"
         /\ \A c \in Conversation : \A e \in Elems(queue[c]) : e # Stop =>
              e \in Event /\ ConversationOf[e] = c /\ Queued(e)
         /\ \A e \in Event : ConversationOf[e] \in Conversation /\ e # None /\ e # Stop
<1>1. \A e \in Event : Waiting(e) => inbox[e] # "absent"
  BY DEF Custody, WaitingIsAccepted
<1>2. \A c \in Conversation : job[c] # None => pc[c] \notin Resting /\ job[c] \in Event
  BY DEF Custody, JobByPc, Types, MemoryTypes
<1>3. \A c \in Conversation : job[c] # None => inbox[job[c]] # "absent"
  BY <1>2 DEF Custody, JobByPc, Fits, Resting, Types, MemoryTypes, WorkerPc
<1>4. \A c \in Conversation : \A e \in Elems(queue[c]) : e # Stop =>
        e \in Event /\ ConversationOf[e] = c /\ Queued(e)
  BY SequencesTyped DEF Custody, OwnConversation, Queued
<1> QED  BY <1>1, <1>2, <1>3, <1>4, EventConstants

\* A worker serves the oldest unsettled event of its conversation.
LEMMA JobIsOldest ==
  ASSUME Order, NEW d \in Event, NEW e \in Event, ConversationOf[d] = ConversationOf[e],
         job[ConversationOf[e]] = e, inbox[d] # "absent", Pos[d] < Pos[e]
  PROVE  inbox[d] \in Settled
<1> USE DEF Order
<1>1. SUFFICES ASSUME inbox[d] \notin Settled PROVE FALSE  OBVIOUS
<1>2. inbox[d] \in Unsettled
  BY <1>1 DEF Settled, Unsettled, Custody, Types, RecordTypes, InboxStatus
<1>3. ConversationOf[e] \in Conversation /\ inbox[e] # "absent" /\ pc[ConversationOf[e]] \notin Resting
  BY HeldArrived DEF Custody, JobByPc
<1>4. Pos[d] \in 1..Len(arrival) /\ Pos[e] \in 1..Len(arrival) /\ Len(arrival) \in Nat
  BY <1>3, PositionOf
<1>5. Alive /\ pc[ConversationOf[d]] # "dead" /\ d # e
  BY <1>3, <1>4, WorkerHolds DEF Resting
<1>6. Pos[d] # Len(arrival)
  BY <1>4
<1>7. Queued(d) \/ d \in Elems(recovering)
  BY <1>2, <1>5, <1>6 DEF NoneIsLost, Placed, Waiting, LastEnters, Entering
<1>8. ~Queued(d)
  BY <1>3, <1>4, HeldArrived DEF JobIsFirst
<1>9. d \notin Elems(recovering)
  BY <1>4 DEF RecoveringIsLast
<1> QED  BY <1>7, <1>8, <1>9

\* Who moves no event, revives no worker and opens no scheduler keeps the order.
LEMMA OrderFrame ==
  ASSUME Order, Custody', UNCHANGED <<arrival, inbox, recovering, entering, hooks, admission, queue, job>>,
         \A c \in Conversation : pc[c] = "dead" => pc'[c] = "dead",
         Alive' => Alive, SchedulerClosed => SchedulerClosed'
  PROVE  Order'
<1> USE DEF Order
<1>1. Pos' = Pos  BY DEF Pos, Position
<1>2. LastEnters' /\ QueuesInOrder' /\ JobIsFirst' /\ RecoveringIsLast'
  BY <1>1 DEF LastEnters, Entering, QueuesInOrder, JobIsFirst, RecoveringIsLast, Queued, Sorted
<1>3. NoneIsLost'
  BY <1>1, HeldArrived DEF NoneIsLost, Placed, Waiting, Queued
<1> QED  BY <1>2, <1>3

\* An event joins its queue behind what arrived before it.
LEMMA EnqueueOrder ==
  ASSUME Order, Custody', NEW e \in Event, Enqueue(e), Alive,
         UNCHANGED <<arrival, inbox, phase, entering, hooks>>,
         \/ /\ UNCHANGED recovering /\ admission # <<>>
            /\ e = Head(admission) /\ admission' = Tail(admission)
         \/ /\ UNCHANGED admission /\ recovering # <<>> /\ phase = "starting"
            /\ e = Head(recovering) /\ recovering' = Tail(recovering)
  PROVE  Order'
<1> USE DEF Order
<1> DEFINE c == ConversationOf[e]
<1>1. Pos' = Pos  BY DEF Pos, Position
<1>2. /\ admission \in Seq(Event) /\ recovering \in Seq(Event)
      /\ c \in Conversation /\ queue[c] \in Seq(Event \cup {Stop}) /\ UNCHANGED job
      /\ \A d \in Conversation : pc[d] = "dead" => pc'[d] = "dead"
  BY HeldArrived DEF Custody, Types, MemoryTypes, Enqueue
<1>3. /\ \A d \in Event : Queued(d)' <=> Queued(d) \/ d = e
      /\ queue' = [queue EXCEPT ![c] = Append(queue[c], e)]
  BY QueuedAfterEnqueue DEF Enqueue
<1> HIDE DEF c
<1>4. /\ Elems(admission') \subseteq Elems(admission) /\ Elems(recovering') \subseteq Elems(recovering)
      /\ Elems(admission) \subseteq Elems(admission') \cup {e}
      /\ Elems(recovering) \subseteq Elems(recovering') \cup {e}
      /\ Sorted(recovering', Pos) /\ Waiting(e) /\ ~Queued(e)
  <2>1. CASE admission # <<>> /\ e = Head(admission) /\ admission' = Tail(admission) /\ UNCHANGED recovering
    BY <1>2, <2>1, TailElems DEF QueuesInOrder, Waiting, Custody, HeldOnce
  <2>2. CASE /\ recovering # <<>> /\ e = Head(recovering) /\ recovering' = Tail(recovering)
             /\ UNCHANGED admission
    BY <1>2, <2>2, TailElems, SortedTail DEF QueuesInOrder, Waiting, Custody, HeldOnce
  <2> QED  BY <2>1, <2>2
<1>5. e # Stop /\ inbox[e] # "absent" /\ job[c] # e
  BY <1>4, HeldArrived DEF Custody, WaitingIsAccepted, c
<1>6. /\ \A d \in Event : Queued(d) /\ ConversationOf[d] = c => Pos[d] < Pos[e]
      /\ job[c] # None => Pos[job[c]] < Pos[e]
      /\ \A r \in Elems(recovering') : Pos[e] < Pos[r]
  <2>1. CASE admission # <<>> /\ e = Head(admission) /\ UNCHANGED recovering
    <3>1. e \in Elems(admission)  BY <1>2, <2>1, TailElems
    <3>2. Pos[e] = Len(arrival)  BY <3>1 DEF LastEnters, Entering
    <3>3. \A d \in Event : inbox[d] # "absent" /\ d # e => Pos[d] < Pos[e]
      BY <1>5, <3>2, PositionOf, PositionsDiffer
    <3>4. \A d \in Event : Queued(d) => Pos[d] < Pos[e]
      BY <1>4, <3>3, HeldArrived DEF Waiting
    <3>5. job[c] # None => Pos[job[c]] < Pos[e]
      BY <1>2, <1>5, <3>3, HeldArrived
    <3>6. recovering' = <<>>
      BY <2>1, <3>1, EmptyElems DEF Custody, MemoryByPhase
    <3> QED  BY <3>4, <3>5, <3>6, EmptyElems
  <2>2. CASE recovering # <<>> /\ e = Head(recovering) /\ recovering' = Tail(recovering)
    <3>1. e \in Elems(recovering) /\ \A r \in Elems(recovering') : r # Stop => Pos[e] < Pos[r]
      BY <1>2, <1>5, <2>2, TailElems, SortedTail DEF QueuesInOrder
    <3>2. \A r \in Elems(recovering') : r # Stop
      BY <1>2, <1>4, ElemsTyped, EventConstants
    <3>3. \A d \in Event : Queued(d) /\ ConversationOf[d] = c => Pos[d] < Pos[e]
      BY <3>1 DEF RecoveringIsLast, c
    <3>4. ASSUME job[c] # None PROVE Pos[job[c]] < Pos[e]
      <4>1. job[c] \in Event /\ ConversationOf[job[c]] = c
        BY <1>2, <3>4, HeldArrived DEF Custody, OwnConversation
      <4> QED  BY <3>1, <4>1 DEF RecoveringIsLast, c
    <3> QED  BY <3>1, <3>2, <3>3, <3>4
  <2> QED  BY <2>1, <2>2
<1>7. LastEnters'
  BY <1>1, <1>4 DEF LastEnters, Entering
<1>8. QueuesInOrder'
  <2>1. \A y \in Elems(queue[c]) : y # Stop => Pos[y] < Pos[e]
    BY <1>2, <1>6, HeldArrived
  <2>2. Sorted(Append(queue[c], e), Pos)
    <3>1. Sorted(queue[c], Pos)  BY <1>2 DEF QueuesInOrder
    <3> DEFINE S == Event \cup {Stop}
    <3>2. queue[c] \in Seq(S) /\ e \in S  BY <1>2
    <3> HIDE DEF S
    <3> QED  BY <2>1, <3>1, <3>2, SortedAppend
  <2>3. \A d \in Conversation : queue'[d] = IF d = c THEN Append(queue[c], e) ELSE queue[d]
    BY <1>3 DEF Custody, Types, MemoryTypes
  <2> QED  BY <1>1, <1>4, <2>2, <2>3 DEF QueuesInOrder
<1>9. JobIsFirst'
  BY <1>1, <1>2, <1>3, <1>6 DEF JobIsFirst, c
<1>10. RecoveringIsLast'
  <2> SUFFICES ASSUME NEW d \in Event, NEW r \in Event, r \in Elems(recovering'),
                      ConversationOf[d] = ConversationOf[r], Queued(d)' \/ job[ConversationOf[d]] = d
               PROVE  Pos[d] < Pos[r]
    BY <1>1, <1>2 DEF RecoveringIsLast
  <2>1. CASE d = e  BY <1>6, <2>1
  <2>2. CASE d # e  BY <1>3, <1>4, <2>2 DEF RecoveringIsLast
  <2> QED  BY <2>1, <2>2
<1>11. NoneIsLost'
  <2>1. \A d \in Event : Waiting(d) => Waiting(d)'
    BY <1>3, <1>4 DEF Waiting
  <2> QED  BY <1>1, <1>2, <2>1, HeldArrived DEF NoneIsLost, Placed, SchedulerClosed
<1> QED  BY <1>7, <1>8, <1>9, <1>10, <1>11

-----------------------------------------------------------------------------
(* The steps.                                                              *)

\* The WebSocket loop awaits each accept: what it submits arrived last (accept, _submit).
LEMMA IngressOrder ==
  ASSUME SequentialIngress, Order, Custody', IngressStep
  PROVE  Order'
<1> USE DEF Order
<1>1. ASSUME NEW e \in Event, Accept(e) \/ \E source \in Event : Replay(source, e)
      PROVE  Order'
  <2>1. PICK p \in Event : AcceptEvent(e, p)
    BY <1>1, AcceptOrReplay DEF Custody, Types
  <2>2. /\ phase = "up" /\ phase' = "up" /\ inbox[e] = "absent"
        /\ hooks = {} /\ admission = <<>> /\ entering = None
        /\ inbox' = [inbox EXCEPT ![e] = "accepted"] /\ arrival' = Append(arrival, e) /\ entering' = e
        /\ UNCHANGED <<recovering, hooks, admission, queue, pc, job>>
    BY <2>1 DEF AcceptEvent, Free, workers, process
  <2>3. /\ \A d \in Event : inbox[d] # "absent" => Pos'[d] = Pos[d]
        /\ Pos'[e] = Len(arrival')
    BY <2>2, PositionsGrow
  <2>4. recovering = <<>> /\ Elems(recovering) = {} /\ Elems(admission) = {}
    BY <2>2, EmptyElems DEF Custody, MemoryByPhase
  <2>5. LastEnters'
    BY <2>2, <2>3, <2>4, EventConstants DEF LastEnters, Entering
  <2>6. QueuesInOrder'
    <3>1. ASSUME NEW c \in Conversation PROVE Sorted(queue[c], Pos')
      <4>1. \A y \in Elems(queue[c]) : y # Stop => Pos'[y] = Pos[y]
        BY <2>3, HeldArrived DEF Waiting
      <4>2. Sorted(queue[c], Pos)  BY DEF QueuesInOrder
      <4> HIDE DEF Pos
      <4> QED  BY <4>1, <4>2, SortedSame
    <3>2. Sorted(recovering', Pos')  BY <2>2, <2>4, SortedEmpty
    <3> QED  BY <2>2, <3>1, <3>2 DEF QueuesInOrder
  <2>7. JobIsFirst'
    <3>1. \A d \in Event : Queued(d)' <=> Queued(d)  BY <2>2 DEF Queued
    <3>2. \A d \in Event : Queued(d) => Pos'[d] = Pos[d]
      BY <2>3, HeldArrived DEF Waiting
    <3>3. \A c \in Conversation : job[c] # None => Pos'[job[c]] = Pos[job[c]]
      BY <2>3, HeldArrived
    <3>4. \A d \in Event : ConversationOf[d] \in Conversation  BY EventConstants
    <3> HIDE DEF Pos
    <3> QED  BY <2>2, <3>1, <3>2, <3>3, <3>4 DEF JobIsFirst
  <2>8. RecoveringIsLast'
    BY <2>2, <2>4 DEF RecoveringIsLast
  <2>9. NoneIsLost'
    <3>1. \A d \in Event : d # e => inbox'[d] = inbox[d]
      BY <2>2 DEF Custody, Types, RecordTypes
    <3>2. \A d \in Event : Waiting(d) => Waiting(d)'
      BY <2>2, EventConstants DEF Waiting, Queued
    <3>3. Waiting(e)'  BY <2>2 DEF Waiting
    <3>4. Alive /\ ~SchedulerClosed  BY <2>2 DEF Alive, SchedulerClosed
    <3> QED  BY <2>2, <3>1, <3>2, <3>3, <3>4 DEF NoneIsLost, Placed
  <2> QED  BY <2>5, <2>6, <2>7, <2>8, <2>9
<1>2. ASSUME Ensure \/ \E e \in Event : HookReturns(e) PROVE Order'
  <2>1. /\ UNCHANGED <<arrival, inbox, recovering, queue, pc, job, phase>>
        /\ \A d \in Event : Entering(d)' => Entering(d)
        /\ \A d \in Event : Entering(d) => Entering(d)' \/ SchedulerClosed
    <3>1. CASE Ensure
      BY <3>1, EventConstants DEF Ensure, Entering, workers, process
    <3>2. ASSUME NEW e \in Event, HookReturns(e)
          PROVE  /\ \A d \in Event : Entering(d)' => Entering(d)
                 /\ \A d \in Event : Entering(d) => Entering(d)' \/ SchedulerClosed
      <4>1. Elems(Append(admission, e)) = Elems(admission) \cup {e}
        BY AppendElems DEF Custody, Types, MemoryTypes
      <4> QED  BY <3>2, <4>1 DEF HookReturns, Entering
    <3>3. CASE \E e \in Event : HookReturns(e)
      BY <3>2, <3>3 DEF HookReturns, durable, workers, process
    <3> QED  BY <1>2, <3>1, <3>3
  <2>2. Pos' = Pos /\ \A d \in Event : Queued(d)' <=> Queued(d)
    BY <2>1 DEF Pos, Position, Queued
  <2>3. \A d \in Event : Waiting(d) <=> Entering(d) \/ d \in Elems(recovering) \/ Queued(d)
    BY DEF Waiting, Entering
  <2>4. \A d \in Event : Waiting(d)' <=> Entering(d)' \/ d \in Elems(recovering)' \/ Queued(d)'
    BY DEF Waiting, Entering
  <2>5. LastEnters' /\ QueuesInOrder' /\ JobIsFirst' /\ RecoveringIsLast'
    BY <2>1, <2>2 DEF LastEnters, QueuesInOrder, JobIsFirst, RecoveringIsLast, Sorted
  <2>6. NoneIsLost'
    BY <2>1, <2>2, <2>3, <2>4 DEF NoneIsLost, Placed, LastEnters, Alive, SchedulerClosed
  <2> QED  BY <2>5, <2>6
<1>3. CASE Admit
  <2>1. Head(admission) \in Event
    BY <1>3, TailElems DEF Admit, Custody, Types, MemoryTypes
  <2> QED  BY <1>3, <2>1, EnqueueOrder DEF Admit, durable, process
<1> QED  BY <1>1, <1>2, <1>3 DEF IngressStep

\* A worker at work goes on with its event, or ends with it; or it dies.
LEMMA WorkingOrder ==
  ASSUME Order, Custody', NEW c \in Conversation, pc[c] \notin Resting,
         UNCHANGED <<arrival, phase, ingress, queue>>,
         \A d \in Conversation : d # c => pc'[d] = pc[d] /\ job'[d] = job[d],
         \A e \in Event : e # job[c] => inbox'[e] = inbox[e],
         \/ job'[c] = job[c]
         \/ job'[c] = None /\ (pc'[c] = "dead" \/ inbox'[job[c]] \in Settled)
  PROVE  Order'
<1> USE DEF Order
<1>1. Pos' = Pos /\ \A e \in Event : Queued(e)' <=> Queued(e)
  BY DEF Pos, Position, Queued
<1>2. /\ job[c] \in Event /\ ConversationOf[job[c]] = c /\ Alive
      /\ \A e \in Event : ConversationOf[e] \in Conversation /\ e # None
  BY WorkerHolds, EventConstants
<1>3. \A d \in Conversation : job'[d] = job[d] \/ job'[d] = None
  OBVIOUS
<1>4. LastEnters' /\ QueuesInOrder'
  BY <1>1 DEF LastEnters, Entering, QueuesInOrder, Sorted, ingress
<1>5. JobIsFirst' /\ RecoveringIsLast'
  BY <1>1, <1>2, <1>3 DEF JobIsFirst, RecoveringIsLast, ingress
<1>6. NoneIsLost'
  <2> SUFFICES ASSUME NEW e \in Event, inbox'[e] \in Unsettled PROVE Placed(e)'
    BY DEF NoneIsLost
  <2>1. CASE e = job[c]
    BY <1>2, <2>1 DEF Placed, Unsettled, Settled
  <2>2. CASE e # job[c]
    <3>1. Placed(e)  BY <1>2, <2>2 DEF NoneIsLost
    <3>2. Waiting(e)' <=> Waiting(e)  BY <1>1 DEF Waiting, ingress
    <3>3. SchedulerClosed' <=> SchedulerClosed  BY DEF SchedulerClosed
    <3>4. pc[ConversationOf[e]] = "dead" => pc'[ConversationOf[e]] = "dead"
      BY <1>2 DEF Resting
    <3>5. job[ConversationOf[e]] = e => job'[ConversationOf[e]] = e
      BY <1>2, <2>2
    <3> QED  BY <1>1, <3>1, <3>2, <3>3, <3>4, <3>5 DEF Placed
  <2> QED  BY <2>1, <2>2
<1> QED  BY <1>4, <1>5, <1>6

\* A worker that works at its event moves no other.
LEMMA WorkerOrder ==
  ASSUME Order, Custody', NEW c \in Conversation, WorkerStep(c) \/ ProcessorStep(c), pc[c] \notin Resting
  PROVE  Order'
<1> USE DEF Order
<1>1. /\ pc \in [Conversation -> WorkerPc] /\ job \in [Conversation -> Event \cup {None}]
      /\ inbox \in [Event -> InboxStatus] /\ job[c] \in Event
  BY WorkerHolds DEF Custody, Types, RecordTypes, MemoryTypes
<1>2. ASSUME NEW n, Goto(c, n) \/ Release(c, n)
      PROVE  /\ \A d \in Conversation : d # c => pc'[d] = pc[d] /\ job'[d] = job[d]
             /\ pc'[c] = n /\ UNCHANGED queue
             /\ Goto(c, n) => job'[c] = job[c]
             /\ Release(c, n) => job'[c] = None
  BY <1>1, <1>2 DEF Goto, Release
<1>3. CASE StartTask(c) \/ StartRun(c)
  <2>1. /\ UNCHANGED <<arrival, phase, ingress, inbox>>
        /\ \E n : Goto(c, n) \/ (n = "dead" /\ Release(c, n))
    BY <1>3 DEF StartTask, StartRun, WorkerDies, process
  <2> QED  BY <1>2, <2>1, WorkingOrder
<1>4. CASE MarkProcessing(c) \/ ParkRun(c) \/ ParkTask(c) \/ FinishRun(c) \/ FailRun(c)
  <2>1. /\ UNCHANGED <<arrival, phase, ingress>>
        /\ \A e \in Event : e # job[c] => inbox'[e] = inbox[e]
        /\ \E n : Goto(c, n)
    BY <1>1, <1>4 DEF MarkProcessing, ParkRun, ParkTask, FinishRun, FailRun, process
  <2> QED  BY <1>2, <2>1, WorkingOrder
<1>5. ASSUME NEW n \in 0..MaxParts, NEW isError \in BOOLEAN, Return(c, n, isError) PROVE Order'
  <2>1. /\ UNCHANGED <<arrival, phase, ingress>>
        /\ \A e \in Event : e # job[c] => inbox'[e] = inbox[e]
        /\ \E p : Goto(c, p)
    BY <1>1, <1>5 DEF Return, process
  <2> QED  BY <1>2, <2>1, WorkingOrder
<1>6. ASSUME NEW retryable \in BOOLEAN, Raise(c, retryable) PROVE Order'
  <2>1. /\ UNCHANGED <<arrival, phase, ingress>>
        /\ \A e \in Event : e # job[c] => inbox'[e] = inbox[e]
        /\ \E p : Goto(c, p)
    BY <1>1, <1>6 DEF Raise, process
  <2> QED  BY <1>2, <2>1, WorkingOrder
<1>7. CASE FinishTask(c) \/ FailTask(c)
  <2>1. /\ UNCHANGED <<arrival, phase, ingress, inbox>>
        /\ Release(c, "idle") /\ pc[c] \in {"finish_task", "fail_task"}
    BY <1>7 DEF FinishTask, FailTask, process
  <2>2. inbox[job[c]] \in Settled
    BY <2>1 DEF Custody, JobByPc, Fits, Settled
  <2> QED  BY <1>2, <2>1, <2>2, WorkingOrder
<1>8. ~Take(c)  BY DEF Take, Resting
<1> QED  BY <1>3, <1>4, <1>5, <1>6, <1>7, <1>8 DEF WorkerStep, ProcessorStep

\* The event a worker takes came before all that wait in its queue.
LEMMA TakeOrder ==
  ASSUME Order, Custody', NEW c \in Conversation, Take(c)
  PROVE  Order'
<1> USE DEF Order
<1> DEFINE h == Head(queue[c])
           S == Event \cup {Stop}
<1>1. /\ queue[c] \in Seq(S) /\ queue[c] # <<>> /\ queue \in [Conversation -> Seq(S)]
      /\ pc[c] = "idle" /\ pc \in [Conversation -> WorkerPc]
      /\ job \in [Conversation -> Event \cup {None}]
      /\ queue' = [queue EXCEPT ![c] = Tail(queue[c])]
      /\ IF h = Stop THEN UNCHANGED job ELSE job' = [job EXCEPT ![c] = h]
      /\ pc' = [pc EXCEPT ![c] = IF h = Stop THEN "gone" ELSE "slot"]
      /\ UNCHANGED <<arrival, inbox, recovering, entering, hooks, admission, phase>>
  BY DEF Take, Custody, Types, MemoryTypes, durable, ingress, process
<1>2. /\ Sorted(Tail(queue[c]), Pos)
      /\ \A y \in Elems(Tail(queue[c])) : y # Stop /\ h # Stop => Pos[h] < Pos[y]
      /\ h \in S
      /\ Elems(queue[c]) = Elems(Tail(queue[c])) \cup {h}
  <2> HIDE DEF S, Pos
  <2> QED  BY <1>1, TailElems, SortedTail DEF QueuesInOrder
<1>3. job[c] = None  BY <1>1 DEF Custody, JobByPc, Resting
<1>4. \A e \in Event : ConversationOf[e] \in Conversation /\ e # Stop /\ e # None
  BY EventConstants
<1>5. h # Stop => h \in Event /\ ConversationOf[h] = c /\ Queued(h)
  BY <1>2, HeldArrived
<1> HIDE DEF h
<1>6. /\ \A d \in Conversation : d # c => queue'[d] = queue[d] /\ job'[d] = job[d] /\ pc'[d] = pc[d]
      /\ queue'[c] = Tail(queue[c]) /\ pc'[c] # "dead"
      /\ job'[c] = IF h = Stop THEN None ELSE h
  BY <1>1, <1>3
<1>7. /\ Pos' = Pos
      /\ \A e \in Event : Queued(e)' => Queued(e)
      /\ \A e \in Event : Queued(e) => Queued(e)' \/ e = h
      /\ \A e \in Event : ConversationOf[e] = c /\ Queued(e)' => e \in Elems(Tail(queue[c]))
  <2>1. Pos' = Pos  BY <1>1 DEF Pos, Position
  <2> QED  BY <1>2, <1>4, <1>6, <2>1 DEF Queued
<1> HIDE DEF Pos
<1>8. LastEnters' /\ QueuesInOrder'
  <2>1. \A d \in Conversation : Sorted(queue'[d], Pos)
    BY <1>2, <1>6 DEF QueuesInOrder
  <2> QED  BY <1>1, <1>7, <2>1 DEF LastEnters, Entering, QueuesInOrder
<1>9. JobIsFirst'
  <2> SUFFICES ASSUME NEW e \in Event, Queued(e)', job'[ConversationOf[e]] # None
               PROVE  Pos[job'[ConversationOf[e]]] < Pos[e]
    BY <1>7 DEF JobIsFirst
  <2>1. CASE ConversationOf[e] = c
    BY <1>2, <1>4, <1>6, <1>7, <2>1
  <2>2. CASE ConversationOf[e] # c
    BY <1>4, <1>6, <1>7, <2>2 DEF JobIsFirst
  <2> QED  BY <2>1, <2>2
<1>10. RecoveringIsLast'
  <2>1. \A d \in Event : job'[ConversationOf[d]] = d => job[ConversationOf[d]] = d \/ Queued(d)
    BY <1>4, <1>5, <1>6
  <2> QED  BY <1>1, <1>7, <2>1 DEF RecoveringIsLast
<1>11. NoneIsLost'
  <2>1. \A e \in Event : Waiting(e) => Waiting(e)' \/ job'[ConversationOf[e]] = e
    BY <1>1, <1>4, <1>5, <1>6, <1>7 DEF Waiting
  <2>2. \A e \in Event : job[ConversationOf[e]] = e => job'[ConversationOf[e]] = e
    BY <1>3, <1>4, <1>6
  <2>3. \A e \in Event : pc[ConversationOf[e]] = "dead" => pc'[ConversationOf[e]] = "dead"
    BY <1>1, <1>4, <1>6
  <2>4. Alive' = Alive /\ SchedulerClosed' = SchedulerClosed
    BY <1>1 DEF Alive, SchedulerClosed
  <2> QED  BY <1>1, <1>7, <2>1, <2>2, <2>3, <2>4 DEF NoneIsLost, Placed
<1> QED  BY <1>8, <1>9, <1>10, <1>11

\* A crash empties the queues; a start hands out the rows as they arrived (recover_inbox).
LEMMA ProcessOrder ==
  ASSUME Order, Custody', ProcessStep
  PROVE  Order'
<1> USE DEF Order
<1>1. CASE Start
  <2>1. /\ ~Alive /\ Alive' /\ recovering' = ByArrival(Handed)
        /\ inbox' = [e \in Event |-> IF inbox[e] \in Interrupted THEN "accepted" ELSE inbox[e]]
        /\ UNCHANGED <<arrival, entering, hooks, admission, queue, pc, job>>
    BY <1>1 DEF Start, workers, Alive, Recoverable
  <2>2. /\ entering = None /\ hooks = {} /\ admission = <<>>
        /\ \A c \in Conversation : queue[c] = <<>> /\ pc[c] = "absent" /\ job[c] = None
        /\ Elems(<<>>) = {}
    BY <2>1, EmptyElems DEF Custody, MemoryByPhase
  <2>3. Pos' = Pos  BY <2>1 DEF Pos, Position
  <2> DEFINE R == ByArrival(Handed)
  <2>4. /\ Elems(R) = Elems(arrival) \cap Handed
        /\ \E at \in [1..Len(R) -> 1..Len(arrival)] :
             \A n \in 1..Len(R) : /\ R[n] = arrival[at[n]]
                                  /\ \A m \in 1..Len(R) : m < n => at[m] < at[n]
    <3>1. Handed \in SUBSET Event  BY DEF Handed
    <3> QED  BY <3>1, ByArrivalSelects, EventConstants DEF Custody, Types, RecordTypes, Arrived
  <2> HIDE DEF R, Pos
  <2>5. Sorted(R, Pos)
    <3>1. PICK at \in [1..Len(R) -> 1..Len(arrival)] :
             \A n \in 1..Len(R) : /\ R[n] = arrival[at[n]]
                                  /\ \A m \in 1..Len(R) : m < n => at[m] < at[n]
      BY <2>4
    <3>2. \A n \in 1..Len(R) : Pos[R[n]] = at[n]
      BY <3>1, PositionIs
    <3> QED  BY <3>1, <3>2 DEF Sorted
  <2>6. \A e \in Event : ~Queued(e)' /\ ~Entering(e)' /\ job'[ConversationOf[e]] # e
    BY <2>1, <2>2, EventConstants DEF Queued, Entering
  <2>7. LastEnters' /\ QueuesInOrder' /\ JobIsFirst' /\ RecoveringIsLast'
    <3>1. \A c \in Conversation : Sorted(queue'[c], Pos)
      BY <2>1, <2>2, SortedEmpty
    <3> QED  BY <2>1, <2>3, <2>5, <2>6, <3>1
        DEF R, LastEnters, QueuesInOrder, JobIsFirst, RecoveringIsLast
  <2>8. NoneIsLost'
    <3> SUFFICES ASSUME NEW e \in Event, inbox'[e] \in Unsettled PROVE e \in Elems(recovering')
      BY DEF NoneIsLost, Placed, Waiting
    <3>1. inbox[e] \in Unsettled /\ inbox[e] # "absent"
      BY <2>1 DEF Unsettled, Interrupted
    <3>2. e \in Handed /\ e \in Elems(arrival)
      BY <3>1 DEF Handed, Unsettled, Interrupted, Custody, Arrived
    <3> QED  BY <2>1, <2>4, <3>2 DEF R
  <2> QED  BY <2>7, <2>8
<1>2. CASE Recover
  <2>1. Head(recovering) \in Event
    BY <1>2, TailElems DEF Recover, Custody, Types, MemoryTypes
  <2>2. Alive  BY <1>2 DEF Recover, Alive
  <2> QED  BY <1>2, <2>1, <2>2, EnqueueOrder DEF Recover, durable, process
<1>3. CASE Started \/ BeginClose \/ OutboxDrained \/ WorkersGone
           \/ \E c \in Conversation : JoinQueue(c)
  <2>1. /\ UNCHANGED <<arrival, inbox, recovering, entering, hooks, admission, queue, pc, job>>
        /\ Alive' => Alive
        /\ SchedulerClosed => SchedulerClosed'
    BY <1>3 DEF Started, BeginClose, OutboxDrained, WorkersGone, JoinQueue, Alive, SchedulerClosed,
                durable, ingress, workers
  <2> QED  BY <2>1, OrderFrame
<1>4. CASE StopWorkers
  <2>1. /\ Alive /\ ~SchedulerClosed
        /\ queue' = [c \in Conversation |->
                      IF c \in Registered THEN Append(queue[c], Stop) ELSE queue[c]]
        /\ UNCHANGED <<arrival, inbox, recovering, entering, hooks, admission, pc, job>>
    BY <1>4 DEF StopWorkers, Alive, SchedulerClosed, durable, ingress
  <2>2. Pos' = Pos  BY <2>1 DEF Pos, Position
  <2> HIDE DEF Pos
  <2>3. ASSUME NEW c \in Conversation
        PROVE  /\ Sorted(queue'[c], Pos)
               /\ \A e \in Event : e \in Elems(queue'[c]) <=> e \in Elems(queue[c])
    <3> DEFINE S == Event \cup {Stop}
    <3>1. queue[c] \in Seq(S) /\ Stop \in S
      BY DEF Custody, Types, MemoryTypes
    <3>2. Sorted(queue[c], Pos)  BY DEF QueuesInOrder
    <3> HIDE DEF S
    <3>3. Elems(Append(queue[c], Stop)) = Elems(queue[c]) \cup {Stop} /\ Sorted(Append(queue[c], Stop), Pos)
      BY <3>1, <3>2, AppendElems, SortedAppend
    <3>4. queue'[c] = queue[c] \/ queue'[c] = Append(queue[c], Stop)
      BY <2>1
    <3>5. \A e \in Event : e # Stop  BY EventConstants
    <3>6. CASE queue'[c] = queue[c]  BY <3>2, <3>6
    <3>7. CASE queue'[c] = Append(queue[c], Stop)
      <4>1. Sorted(queue'[c], Pos) /\ Elems(queue'[c]) = Elems(queue[c]) \cup {Stop}
        BY <3>3, <3>7
      <4> QED  BY <3>5, <4>1
    <3> QED  BY <3>4, <3>6, <3>7
  <2>4. \A e \in Event : Queued(e)' <=> Queued(e)
    BY <2>3, EventConstants DEF Queued
  <2>5. LastEnters' /\ QueuesInOrder' /\ JobIsFirst' /\ RecoveringIsLast'
    BY <2>1, <2>2, <2>3, <2>4 DEF LastEnters, Entering, QueuesInOrder, JobIsFirst, RecoveringIsLast
  <2>6. NoneIsLost'
    <3>1. \A e \in Event : Waiting(e)' <=> Waiting(e)  BY <2>1, <2>4 DEF Waiting
    <3> QED  BY <2>1, <2>2, <3>1 DEF NoneIsLost, Placed
  <2> QED  BY <2>5, <2>6
<1>5. CASE Crash \/ LoopExits
  <2>1. /\ recovering' = <<>> /\ entering' = None /\ hooks' = {} /\ admission' = <<>>
        /\ queue' = [c \in Conversation |-> <<>>]
        /\ job' = [c \in Conversation |-> None]
        /\ phase' \in {"down", "stopped"}
    BY <1>5 DEF Crash, LoopExits, LoseMemory
  <2>2. \A e \in Event : ~Queued(e)' /\ ~Entering(e)'
    BY <2>1, EmptyElems, EventConstants DEF Queued, Entering
  <2>3. LastEnters' /\ QueuesInOrder' /\ JobIsFirst' /\ RecoveringIsLast' /\ NoneIsLost'
    <3>1. Sorted(<<>>, Pos')  BY SortedEmpty
    <3>2. ~Alive'  BY <2>1 DEF Alive
    <3> QED  BY <2>1, <2>2, <3>1, <3>2, EmptyElems
        DEF LastEnters, QueuesInOrder, JobIsFirst, RecoveringIsLast, NoneIsLost
  <2> QED  BY <2>3
<1> QED
  BY <1>1, <1>2, <1>3, <1>4, <1>5 DEF ProcessStep, CloseStep

\* At first nothing has arrived.
LEMMA OrderInit ==
  ASSUME Init
  PROVE  Order
<1>1. \A e \in Event : ~Queued(e) /\ ~Entering(e)
  BY EmptyElems, EventConstants DEF Init, Queued, Entering
<1>2. LastEnters /\ QueuesInOrder /\ JobIsFirst /\ RecoveringIsLast /\ NoneIsLost
  BY <1>1, EmptyElems, SortedEmpty
     DEF Init, LastEnters, QueuesInOrder, JobIsFirst, RecoveringIsLast, NoneIsLost, Alive
<1> QED  BY <1>2, CustodyInit DEF Order

\* Every step keeps queues, admission and recovery in the order of arrival.
LEMMA OrderStep ==
  ASSUME SequentialIngress, Order, [Next]_vars
  PROVE  Order'
<1>1. Custody'  BY CustodyStep DEF Order
<1>2. CASE UNCHANGED vars
  BY <1>1, <1>2, OrderFrame DEF vars, durable, ingress, workers, process, Alive, SchedulerClosed
<1>3. CASE OutboxStep
  <2>1. UNCHANGED <<arrival, inbox, ingress, workers, process>>
    BY <1>3 DEF OutboxStep, DeliveryStep, BeginDelivery, DeliverySucceeds, DeliveryFails, Settle, RemotePost,
                EnqueueDelivery, RetryDelivery, DeliveryUnchanged
  <2> QED  BY <1>1, <2>1, OrderFrame DEF ingress, workers, process, Alive, SchedulerClosed
<1>4. ASSUME NEW c \in Conversation, WorkerStep(c) \/ ProcessorStep(c) PROVE Order'
  <2>1. CASE pc[c] \notin Resting
    BY <1>1, <1>4, <2>1, WorkerOrder
  <2>2. CASE pc[c] \in Resting
    <3>1. Take(c)
      BY <1>4, <2>2 DEF Resting, WorkerStep, ProcessorStep, StartTask, StartRun, MarkProcessing, ParkTask,
         FinishRun, FinishTask, FailRun, FailTask, ParkRun, Return, Replies, Raise
    <3> QED  BY <1>1, <3>1, TakeOrder
  <2> QED  BY <2>1, <2>2
<1> QED  BY <1>1, <1>2, <1>3, <1>4, NextByParty, IngressOrder, ProcessOrder

-----------------------------------------------------------------------------
(* An event is not begun before the earlier ones of its conversation.      *)

\* What arrives is new; what is begun is what a worker holds.
LEMMA ArrivalStep ==
  ASSUME Types, [Next]_vars
  PROVE  UNCHANGED arrival \/ \E e, p \in Event : AcceptEvent(e, p)
<1>1. CASE UNCHANGED vars
  BY <1>1 DEF vars, durable
<1>2. CASE IngressStep
  BY <1>2, AcceptOrReplay DEF IngressStep, Ensure, HookReturns, Admit, durable, Types
<1>3. ASSUME NEW c \in Conversation, WorkerStep(c) \/ ProcessorStep(c) PROVE UNCHANGED arrival
  BY <1>3 DEF WorkerStep, ProcessorStep, Take, StartTask, StartRun, MarkProcessing, ParkTask,
     FinishRun, FinishTask, FailRun, FailTask, ParkRun, Return, Raise, durable
<1>4. CASE OutboxStep \/ ProcessStep
  BY <1>4 DEF OutboxStep, DeliveryStep, BeginDelivery, DeliverySucceeds, DeliveryFails, Settle, RemotePost,
              EnqueueDelivery, RetryDelivery, DeliveryUnchanged, ProcessStep, Start, Recover, Started, Crash,
              BeginClose, CloseStep, JoinQueue, OutboxDrained, StopWorkers, WorkersGone, LoopExits, durable
<1> QED  BY <1>1, <1>2, <1>3, <1>4, NextByParty

\* Only the event its conversation's worker holds is attempted.
LEMMA AttemptsStep ==
  ASSUME Custody, [Next]_vars, NEW e \in Event, attempts'[e] # attempts[e]
  PROVE  job[ConversationOf[e]] = e
<1>1. CASE UNCHANGED vars
  BY <1>1 DEF vars, durable
<1>2. CASE IngressStep
  BY <1>2, AcceptOrReplay DEF IngressStep, AcceptEvent, Ensure, HookReturns, Admit, durable, Custody, Types
<1>3. ASSUME NEW c \in Conversation, WorkerStep(c) \/ ProcessorStep(c)
      PROVE  job[ConversationOf[e]] = e
  <2>1. CASE MarkProcessing(c)
    <3>1. pc[c] \notin Resting  BY <2>1 DEF MarkProcessing, Resting
    <3>2. job[c] \in Event /\ ConversationOf[job[c]] = c  BY <3>1, WorkerHolds
    <3>3. \A d \in Event : d # job[c] => attempts'[d] = attempts[d]
      BY <2>1 DEF MarkProcessing, Custody, Types, RecordTypes
    <3> QED  BY <3>2, <3>3
  <2>2. CASE ~MarkProcessing(c)
    BY <1>3, <2>2 DEF WorkerStep, ProcessorStep, Take, StartTask, StartRun, ParkTask,
       FinishRun, FinishTask, FailRun, FailTask, ParkRun, Return, Raise, durable
  <2> QED  BY <2>1, <2>2
<1>4. CASE OutboxStep \/ ProcessStep
  BY <1>4 DEF OutboxStep, DeliveryStep, BeginDelivery, DeliverySucceeds, DeliveryFails, Settle, RemotePost,
              EnqueueDelivery, RetryDelivery, DeliveryUnchanged, ProcessStep, Start, Recover, Started, Crash,
              BeginClose, CloseStep, JoinQueue, OutboxDrained, StopWorkers, WorkersGone, LoopExits, durable
<1> QED  BY <1>1, <1>2, <1>3, <1>4, NextByParty

\* An event that is begun comes after the settled ones of its conversation only.
BegunInOrder ==
  \A d, e \in Event :
    /\ inbox[d] # "absent" /\ inbox[e] # "absent" /\ ConversationOf[d] = ConversationOf[e]
    /\ Pos[d] < Pos[e] /\ attempts[e] > 0
    => inbox[d] \in Settled

InOrder == Order /\ Executions /\ BegunInOrder

\* An event is begun after those of its conversation that arrived before it.
LEMMA BegunInOrderStep ==
  ASSUME SequentialIngress, InOrder, [Next]_vars
  PROVE  BegunInOrder'
<1> USE DEF InOrder, Order
<1>1. Custody' /\ FinalStep /\ Order'
  BY CustodyStep, SettledIsFinalStep, OrderStep
<1>2. SUFFICES ASSUME NEW d \in Event, NEW e \in Event, inbox'[d] # "absent", inbox'[e] # "absent",
                      ConversationOf[d] = ConversationOf[e], Pos'[d] < Pos'[e], attempts'[e] > 0
               PROVE  inbox'[d] \in Settled
  BY DEF BegunInOrder
<1>3. attempts[e] \in Nat /\ attempts'[e] \in Nat
  BY <1>1 DEF Custody, Types, RecordTypes
<1>4. inbox[d] # "absent" /\ inbox[e] # "absent" /\ Pos[d] < Pos[e]
  <2>1. CASE UNCHANGED arrival
    <3>1. \A x \in Event : inbox'[x] # "absent" <=> inbox[x] # "absent"
      BY <1>1, <2>1 DEF Custody, Arrived
    <3>2. Pos' = Pos  BY <2>1 DEF Pos, Position
    <3> QED  BY <1>2, <3>1, <3>2
  <2>2. ASSUME NEW a \in Event, NEW p \in Event, AcceptEvent(a, p)
        PROVE  inbox[d] # "absent" /\ inbox[e] # "absent" /\ Pos[d] < Pos[e]
    <3>1. /\ inbox[a] = "absent" /\ arrival' = Append(arrival, a)
          /\ inbox' = [inbox EXCEPT ![a] = "accepted"] /\ UNCHANGED attempts
      BY <2>2 DEF AcceptEvent
    <3>2. e # a
      BY <1>2, <3>1 DEF Executions, Execution
    <3>3. inbox[e] # "absent" /\ (d # a => inbox[d] # "absent")
      BY <1>2, <3>1, <3>2 DEF Custody, Types, RecordTypes
    <3>4. /\ \A x \in Event : inbox[x] # "absent" => Pos'[x] = Pos[x]
          /\ Pos'[a] = Len(arrival) + 1 /\ Len(arrival) \in Nat
      BY <1>1, <3>1, PositionsGrow
    <3>5. Pos[e] \in 1..Len(arrival)  BY <3>3, PositionOf
    <3> HIDE DEF Pos
    <3>6. d # a  BY <1>2, <3>3, <3>4, <3>5
    <3> QED  BY <1>2, <3>3, <3>4, <3>6
  <2>3. Types  BY DEF Custody
  <2> QED  BY <2>1, <2>2, <2>3, ArrivalStep
<1>5. inbox[d] \in Settled
  <2>1. CASE attempts[e] > 0
    BY <1>2, <1>4, <2>1 DEF BegunInOrder
  <2>2. CASE ~(attempts[e] > 0)
    <3>1. attempts'[e] # attempts[e]  BY <1>2, <1>3, <2>2
    <3>2. job[ConversationOf[e]] = e  BY <3>1, AttemptsStep
    <3> QED  BY <1>2, <1>4, <3>2, JobIsOldest
  <2> QED  BY <2>1, <2>2
<1> QED  BY <1>1, <1>5 DEF FinalStep

\* ConversationOrder: when the WebSocket dispatch loop is the only caller of accept(), a
\* conversation is served in order of arrival, across crashes: an event is not begun before
\* every earlier one of its conversation is completed or dead-lettered
\* (PartitionedScheduler, the order of recover_inbox).
THEOREM ConversationsAreServedInOrder ==
  ASSUME SequentialIngress
  PROVE  Spec => []ConversationOrder
<1>1. Init => InOrder
  <2>1. ASSUME Init PROVE BegunInOrder
    BY <2>1 DEF Init, BegunInOrder
  <2> QED  BY <2>1, OrderInit, ExecutionsInit DEF InOrder
<1>2. InOrder /\ [Next]_vars => InOrder'
  BY OrderStep, ExecutionsStep, BegunInOrderStep DEF InOrder
<1>3. InOrder => ConversationOrder
  <2>1. \A e \in Event : Pos[e] = Position(e)  BY DEF Pos
  <2> QED  BY <2>1 DEF InOrder, BegunInOrder, ConversationOrder, Earlier
<1> QED  BY <1>1, <1>2, <1>3, PTL DEF Spec
=============================================================================
