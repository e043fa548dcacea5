---------------------------- MODULE ApprovalProofs ----------------------------
(***************************************************************************)
(* Proofs about module Approval, for every number of gates, of coroutines   *)
(* that decide and of crashes: no effect without an approval, one           *)
(* coroutine that resumes, and an open request that keeps the run parked.   *)
(***************************************************************************)
EXTENDS Approval, TLAPS

ApprovalState == {"absent", "pending", "approved", "rejected", "expired"}
CallState == {"absent", "waiting_approval", "requested", "running", "rejected", "succeeded",
              "failed"}

ApprovalTypeOK ==
  /\ approval \in [Gate -> ApprovalState]
  /\ call \in [Gate -> CallState]
  /\ up \in BOOLEAN
  /\ decider \in [Decider -> [pc : Pc, gate : Gate, verb : Verb \cup {None}]]
  /\ effects \in [Gate -> Nat]
  /\ crashes \in Nat

\* A process that is down has crashed and carries no decision.
DownIsIdle == ~up => crashes > 0 /\ \A d \in Decider : decider[d] = Idle

\* Requests are raised one after the other, each for a call that waits.
RequestsInOrder ==
  \A g \in Gate :
    /\ call[g] # "absent" => \A h \in Gate : h < g => call[h] # "absent"
    /\ approval[g] # "absent" => call[g] # "absent"
    /\ approval[g] = "pending" => \A h \in Gate : h > g => approval[h] = "absent"

\* Whoever resumes has decided the only open request; the next one is open only while the
\* run is being parked, which nothing interrupts.
ResumerDecided ==
  \A d \in Decider : Resuming(d) =>
    \A g \in Gate : approval[g] = "pending" => decider[d].pc \in {"park_run", "park_task"}

\* The call and the request of a gate that has been asked for and is not registered yet.
AskedIsNew ==
  \A d \in Decider : decider[d].pc = "asked" =>
    /\ approval[decider[d].gate] = "absent"
    /\ call[decider[d].gate] = "waiting_approval"
    /\ \A h \in Gate : h > decider[d].gate => call[h] = "absent"

\* Where the run is, by where its resumer is ...
RunOfResumer ==
  \A d \in Decider :
    /\ decider[d].pc \in {"reject_calls", "queue_run"} => run \in {"waiting_approval", "queued"}
    /\ decider[d].pc = "start_run" => run = "queued"
    /\ decider[d].pc \in {"start_task", "graph", "start_call", "tool", "effect", "asked",
                          "park_run"} => run = "running"
    /\ decider[d].pc = "park_task" => run = "waiting_approval"

\* ... and when there is none and a request is open: only a crash takes it elsewhere.
RunOfOpenRequest ==
  (\E g \in Gate : approval[g] = "pending") /\ (\A d \in Decider : ~Resuming(d)) =>
    \/ run = "waiting_approval"
    \/ run = "queued" /\ crashes > 0
    \/ run = "running" /\ ~up

\* What the graph carries out has been approved.
CarriedOutIsApproved ==
  \A d \in Decider :
    /\ decider[d].pc \in {"reject_calls", "queue_run", "start_run", "start_task", "graph"} =>
         (decider[d].verb = "approve" => approval[decider[d].gate] = "approved")
    /\ decider[d].pc \in {"start_call", "tool", "effect"} =>
         approval[decider[d].gate] = "approved"
    /\ decider[d].pc = "start_call" => call[decider[d].gate] = "requested"
    /\ decider[d].pc = "tool" => call[decider[d].gate] = "running"
    /\ decider[d].pc \in {"start_call", "tool"} => effects[decider[d].gate] = 0

\* A call that has had its effect never waits again.
EffectsEndTheWait ==
  \A g \in Gate : effects[g] > 0 =>
    /\ effects[g] = 1 /\ approval[g] = "approved"
    /\ call[g] \notin {"absent", "waiting_approval"}

ApprovalInv ==
  /\ ApprovalTypeOK
  /\ OneResumer /\ DownIsIdle /\ RequestsInOrder /\ ResumerDecided /\ AskedIsNew
  /\ RunOfResumer /\ RunOfOpenRequest /\ CarriedOutIsApproved /\ EffectsEndTheWait

-----------------------------------------------------------------------------
(* What the steps have in common.                                          *)

\* The constants, and a coroutine that carries no decision.
LEMMA ApprovalConstants ==
  /\ Gate \subseteq Nat /\ 1 \in Gate
  /\ Idle \in [pc : Pc, gate : Gate, verb : Verb \cup {None}]
BY ApprovalAssumption DEF Gate, Idle, Pc, Synchronous

\* A coroutine that neither resumes nor begins to leaves the run's records as they are.
LEMMA BystanderKeeps ==
  ASSUME ApprovalInv, NEW d \in Decider, up, ~Resuming(d),
         NEW r \in [pc : Pc, gate : Gate, verb : Verb \cup {None}],
         r.pc \in {"idle", "button", "resume"},
         decider' = [decider EXCEPT ![d] = r],
         UNCHANGED <<approval, call, run, up, effects, crashes>>
  PROVE  ApprovalInv'
<1>1. /\ decider \in [Decider -> [pc : Pc, gate : Gate, verb : Verb \cup {None}]]
      /\ decider' \in [Decider -> [pc : Pc, gate : Gate, verb : Verb \cup {None}]]
      /\ decider'[d] = r
      /\ \A e \in Decider \ {d} : decider'[e] = decider[e]
  BY DEF ApprovalInv, ApprovalTypeOK
<1>2. \A e \in Decider : Resuming(e)' <=> Resuming(e)
  BY <1>1 DEF Resuming
<1>3. ApprovalTypeOK' /\ RequestsInOrder' /\ EffectsEndTheWait'
  BY <1>1 DEF ApprovalInv, ApprovalTypeOK, RequestsInOrder, EffectsEndTheWait
<1>4. OneResumer' /\ DownIsIdle' /\ ResumerDecided' /\ RunOfOpenRequest'
  BY <1>1, <1>2 DEF ApprovalInv, OneResumer, DownIsIdle, ResumerDecided, RunOfOpenRequest, Resuming
<1>5. AskedIsNew' /\ RunOfResumer' /\ CarriedOutIsApproved'
  BY <1>1 DEF ApprovalInv, AskedIsNew, RunOfResumer, CarriedOutIsApproved
<1> QED  BY <1>3, <1>4, <1>5 DEF ApprovalInv

\* When somebody resumes, the others do not, before and after a step of his.
LEMMA OnlyResumer ==
  ASSUME ApprovalInv, NEW d \in Decider, Resuming(d),
         NEW r \in [pc : Pc, gate : Gate, verb : Verb \cup {None}],
         decider' = [decider EXCEPT ![d] = r],
         UNCHANGED <<up, crashes>>
  PROVE  /\ up
         /\ OneResumer' /\ DownIsIdle'
         /\ decider' \in [Decider -> [pc : Pc, gate : Gate, verb : Verb \cup {None}]]
         /\ decider'[d] = r
         /\ \A e \in Decider \ {d} : decider'[e] = decider[e] /\ ~Resuming(e) /\ ~Resuming(e)'
<1>1. /\ decider' \in [Decider -> [pc : Pc, gate : Gate, verb : Verb \cup {None}]]
      /\ decider'[d] = r
      /\ \A e \in Decider \ {d} : decider'[e] = decider[e]
  BY DEF ApprovalInv, ApprovalTypeOK
<1>2. up  BY DEF ApprovalInv, DownIsIdle, Resuming, Idle
<1>3. \A e \in Decider \ {d} : ~Resuming(e) /\ ~Resuming(e)'
  BY <1>1 DEF ApprovalInv, OneResumer, Resuming
<1> QED  BY <1>1, <1>2, <1>3 DEF OneResumer, DownIsIdle

\* A step of the resumer preserves the invariant if it does so for his own part of it.
LEMMA ResumerKeeps ==
  ASSUME ApprovalInv, NEW d \in Decider, Resuming(d),
         NEW r \in [pc : Pc, gate : Gate, verb : Verb \cup {None}],
         decider' = [decider EXCEPT ![d] = r],
         UNCHANGED <<up, crashes>>,
         approval' \in [Gate -> ApprovalState], call' \in [Gate -> CallState],
         effects' \in [Gate -> Nat],
         RequestsInOrder', EffectsEndTheWait',
         \A g \in Gate : approval'[g] = "pending" =>
            r.pc \in {"park_run", "park_task"} \/ (r.pc = "card" /\ run' = "waiting_approval"),
         r.pc = "asked" =>
            /\ approval'[r.gate] = "absent" /\ call'[r.gate] = "waiting_approval"
            /\ \A h \in Gate : h > r.gate => call'[h] = "absent",
         r.pc \in {"reject_calls", "queue_run"} => run' \in {"waiting_approval", "queued"},
         r.pc = "start_run" => run' = "queued",
         r.pc \in {"start_task", "graph", "start_call", "tool", "effect", "asked", "park_run"} =>
            run' = "running",
         r.pc = "park_task" => run' = "waiting_approval",
         r.pc \in {"reject_calls", "queue_run", "start_run", "start_task", "graph"} /\ r.verb = "approve" =>
            approval'[r.gate] = "approved",
         r.pc \in {"start_call", "tool", "effect"} => approval'[r.gate] = "approved",
         r.pc = "start_call" => call'[r.gate] = "requested",
         r.pc = "tool" => call'[r.gate] = "running",
         r.pc \in {"start_call", "tool"} => effects'[r.gate] = 0
  PROVE  ApprovalInv'
<1>1. /\ up
      /\ OneResumer' /\ DownIsIdle'
      /\ decider' \in [Decider -> [pc : Pc, gate : Gate, verb : Verb \cup {None}]]
      /\ decider'[d] = r
      /\ \A e \in Decider \ {d} : decider'[e] = decider[e] /\ ~Resuming(e) /\ ~Resuming(e)'
  BY OnlyResumer
<1>2. \A e \in Decider \ {d} :
        decider'[e].pc \notin {"reject_calls", "queue_run", "start_run", "start_task", "graph",
                               "start_call", "tool", "effect", "asked", "park_run", "park_task"}
  BY <1>1 DEF Resuming, Pc, Synchronous
<1>3. ApprovalTypeOK'
  BY <1>1 DEF ApprovalTypeOK, ApprovalInv
<1>4. ResumerDecided'
  BY <1>1 DEF ResumerDecided, Resuming
<1>5. AskedIsNew' /\ RunOfResumer' /\ CarriedOutIsApproved'
  BY <1>1, <1>2 DEF AskedIsNew, RunOfResumer, CarriedOutIsApproved
<1>6. RunOfOpenRequest'
  BY <1>1 DEF RunOfOpenRequest, Resuming, Pc, Synchronous
<1> QED  BY <1>1, <1>3, <1>4, <1>5, <1>6 DEF ApprovalInv

-----------------------------------------------------------------------------
(* The decision.                                                           *)

\* Clicking, typing and being turned away carry nothing out.
LEMMA ArrivalsKeep ==
  ASSUME ApprovalInv, NEW d \in Decider, NEW g \in Gate, NEW verb \in Verb,
         \/ Click(d, g, verb) \/ Type(d, g, verb)
         \/ Consume(d) \/ Refused(d) \/ Denied(d) \/ AlreadyDecided(d)
         \/ ShowCard(d) \/ Reply(d)
  PROVE  ApprovalInv'
<1> DEFINE r == decider'[d]
<1>1. /\ up /\ ~Resuming(d)
      /\ UNCHANGED <<approval, call, run, up, effects, crashes>>
  BY DEF Click, Type, Consume, Refused, Denied, AlreadyDecided, ShowCard, Reply, At, Free, Resuming,
         durable, executions, world
<1>2. /\ r \in [pc : Pc, gate : Gate, verb : Verb \cup {None}]
      /\ r.pc \in {"idle", "button", "resume"}
      /\ decider' = [decider EXCEPT ![d] = r]
  BY ApprovalConstants DEF Click, Type, Consume, Refused, Denied, AlreadyDecided, ShowCard, Reply,
         Goto, Leave, Idle, Pc, ApprovalInv, ApprovalTypeOK
<1> HIDE DEF r
<1> QED  BY <1>1, <1>2, BystanderKeeps

\* The late decision: the request is closed, and the run stays where it is.
LEMMA ExpireKeeps ==
  ASSUME ApprovalInv, NEW d \in Decider, Expire(d)
  PROVE  ApprovalInv'
<1>1. /\ decider' = [decider EXCEPT ![d] = Idle]
      /\ decider[d].pc = "resume" /\ approval[decider[d].gate] = "pending"
      /\ approval' = [approval EXCEPT ![decider[d].gate] = "expired"]
      /\ UNCHANGED <<call, run, up, effects, crashes>>
  BY DEF Expire, At, Undecided, Leave, executions, world
<1>2. ApprovalTypeOK' /\ RequestsInOrder' /\ EffectsEndTheWait'
  BY <1>1, ApprovalConstants DEF ApprovalInv, ApprovalTypeOK, RequestsInOrder, EffectsEndTheWait, ApprovalState
<1>3. OneResumer' /\ DownIsIdle' /\ ResumerDecided' /\ RunOfOpenRequest'
  BY <1>1 DEF ApprovalInv, ApprovalTypeOK, OneResumer, DownIsIdle, ResumerDecided, RunOfOpenRequest,
              Resuming, Idle
<1>4. AskedIsNew' /\ RunOfResumer' /\ CarriedOutIsApproved'
  BY <1>1 DEF ApprovalInv, ApprovalTypeOK, AskedIsNew, RunOfResumer, CarriedOutIsApproved, Idle
<1> QED  BY <1>2, <1>3, <1>4 DEF ApprovalInv

\* The decision that counts.  The request is the only open one and is still open, so nobody
\* resumes the run, which is parked: the coroutine becomes its only resumer.
LEMMA DecideKeeps ==
  ASSUME ApprovalInv, NEW d \in Decider, Decide(d)
  PROVE  ApprovalInv'
<1> DEFINE k == decider[d]
           r == [k EXCEPT !.pc = IF k.verb = "approve" THEN "queue_run" ELSE "reject_calls"]
           outcome == IF k.verb = "approve" THEN "approved" ELSE "rejected"
<1>1. /\ up /\ k.pc = "resume" /\ approval[k.gate] = "pending"
      /\ \A e \in Decider : decider[e].pc \notin Synchronous
      /\ decider' = [decider EXCEPT ![d] = r]
      /\ approval' = [approval EXCEPT ![k.gate] = outcome]
      /\ UNCHANGED <<call, run, up, effects, crashes>>
      /\ k \in [pc : Pc, gate : Gate, verb : Verb \cup {None}]
  BY DEF Decide, At, Free, Undecided, Goto, ApprovalInv, ApprovalTypeOK, executions, world, Synchronous
<1>2. r \in [pc : Pc, gate : Gate, verb : Verb \cup {None}] /\ r.gate = k.gate /\ r.verb = k.verb
      /\ r.pc = (IF k.verb = "approve" THEN "queue_run" ELSE "reject_calls")
  BY <1>1 DEF Pc, Synchronous
<1>3. \A e \in Decider : ~Resuming(e)
  BY <1>1 DEF ApprovalInv, ResumerDecided, Synchronous, Resuming, ApprovalTypeOK
<1>4. run = "waiting_approval" \/ run = "queued"
  BY <1>1, <1>3 DEF ApprovalInv, RunOfOpenRequest
<1>5. /\ decider' \in [Decider -> [pc : Pc, gate : Gate, verb : Verb \cup {None}]]
      /\ decider'[d] = r
      /\ \A e \in Decider \ {d} : decider'[e] = decider[e] /\ ~Resuming(e)'
  BY <1>1, <1>2, <1>3 DEF ApprovalInv, ApprovalTypeOK, Resuming
<1>6. ASSUME NEW g \in Gate PROVE approval'[g] # "pending"
  <2>1. g \in Nat /\ k.gate \in Nat /\ k.gate \in Gate  BY <1>1, ApprovalConstants
  <2>2. CASE g = k.gate  BY <1>1, <2>2 DEF ApprovalInv, ApprovalTypeOK
  <2>3. CASE g # k.gate
    <3>1. approval[g] # "pending"
      BY <1>1, <2>1, <2>3 DEF ApprovalInv, RequestsInOrder
    <3> QED  BY <1>1, <2>3, <3>1 DEF ApprovalInv, ApprovalTypeOK
  <2> QED  BY <2>2, <2>3
<1>7. ApprovalTypeOK' /\ RequestsInOrder' /\ EffectsEndTheWait'
  BY <1>1, <1>5, ApprovalConstants DEF ApprovalInv, ApprovalTypeOK, RequestsInOrder, EffectsEndTheWait,
                                       ApprovalState
<1>8. OneResumer' /\ DownIsIdle' /\ ResumerDecided' /\ RunOfOpenRequest'
  BY <1>1, <1>5, <1>6 DEF OneResumer, DownIsIdle, ResumerDecided, RunOfOpenRequest
<1>9. \A e \in Decider \ {d} : decider'[e].pc \in {"idle", "button", "resume", "card", "reply"}
  BY <1>5 DEF Resuming
<1>10. AskedIsNew' /\ RunOfResumer' /\ CarriedOutIsApproved'
  BY <1>1, <1>2, <1>4, <1>5, <1>9 DEF ApprovalInv, ApprovalTypeOK, AskedIsNew, RunOfResumer, CarriedOutIsApproved
<1> QED  BY <1>7, <1>8, <1>10 DEF ApprovalInv

-----------------------------------------------------------------------------
(* The resumed run.                                                        *)

\* The request's call is closed with it.
LEMMA RejectCallsKeeps ==
  ASSUME ApprovalInv, NEW d \in Decider, RejectCalls(d)
  PROVE  ApprovalInv'
<1> DEFINE k == decider[d]
           r == [k EXCEPT !.pc = "queue_run"]
<1>1. /\ k.pc = "reject_calls" /\ Resuming(d)
      /\ k \in [pc : Pc, gate : Gate, verb : Verb \cup {None}]
      /\ run \in {"waiting_approval", "queued"}
      /\ k.verb = "approve" => approval[k.gate] = "approved"
      /\ \A g \in Gate : approval[g] # "pending"
  BY DEF RejectCalls, At, Resuming, Pc, Synchronous, ApprovalInv, ApprovalTypeOK, RunOfResumer,
         ResumerDecided, CarriedOutIsApproved
<1>2. /\ decider' = [decider EXCEPT ![d] = r]
      /\ call' = [call EXCEPT ![k.gate] = IF @ = "waiting_approval" THEN "rejected" ELSE @]
      /\ UNCHANGED <<approval, run, up, effects, crashes>>
  BY DEF RejectCalls, Goto, executions, world
<1>3. r \in [pc : Pc, gate : Gate, verb : Verb \cup {None}] /\ r.pc = "queue_run"
      /\ r.gate = k.gate /\ r.verb = k.verb
  BY <1>1 DEF Pc, Synchronous
<1>4. call' \in [Gate -> CallState] /\ RequestsInOrder' /\ EffectsEndTheWait'
  BY <1>1, <1>2 DEF ApprovalInv, ApprovalTypeOK, CallState, RequestsInOrder, EffectsEndTheWait
<1> HIDE DEF r
<1> QED  BY <1>1, <1>2, <1>3, <1>4, ResumerKeeps DEF ApprovalInv, ApprovalTypeOK

\* Steps that touch neither a request nor a call: they only move the run and its Task, the
\* way the invariant says.
LEMMA RunMovesKeep ==
  ASSUME ApprovalInv, NEW d \in Decider,
         \/ QueueRun(d) \/ StartRun(d) \/ StartTask(d) \/ ParkRun(d) \/ ParkTask(d)
         \/ FinishRun(d) \/ FinishTask(d) \/ FailRun(d) \/ FailTask(d)
         \/ \E pc \in {"finish_run", "fail_run"} : Return(d, pc)
  PROVE  ApprovalInv'
<1> DEFINE k == decider[d]
           r == decider'[d]
<1>1. k \in [pc : Pc, gate : Gate, verb : Verb \cup {None}]
  BY DEF ApprovalInv, ApprovalTypeOK
<1>2. /\ UNCHANGED <<approval, call, up, effects, crashes>>
      /\ Resuming(d)
  BY DEF QueueRun, StartRun, StartTask, ParkRun, ParkTask, FinishRun, FinishTask, FailRun, FailTask,
         Return, At, Resuming, Pc, Synchronous, durable, executions, world
<1>3. /\ approval' \in [Gate -> ApprovalState] /\ call' \in [Gate -> CallState]
      /\ effects' \in [Gate -> Nat]
      /\ RequestsInOrder' /\ EffectsEndTheWait'
  BY <1>2 DEF ApprovalInv, ApprovalTypeOK, RequestsInOrder, EffectsEndTheWait
<1>4. CASE QueueRun(d) \/ StartRun(d) \/ StartTask(d) \/ \E pc \in {"finish_run", "fail_run"} : Return(d, pc)
  <2>1. /\ decider' = [decider EXCEPT ![d] = r]
        /\ r \in [pc : Pc, gate : Gate, verb : Verb \cup {None}]
        /\ r.gate = k.gate /\ r.verb = k.verb
    BY <1>1, <1>4 DEF QueueRun, StartRun, StartTask, Return, Goto, Pc, Synchronous, ApprovalInv, ApprovalTypeOK
  <2>2. \/ k.pc = "queue_run" /\ r.pc = "start_run" /\ run' = IF run = "waiting_approval" THEN "queued" ELSE run
        \/ k.pc = "start_run" /\ r.pc = "start_task" /\ run' = IF run = "queued" THEN "running" ELSE run
        \/ k.pc = "start_task" /\ r.pc = "graph" /\ run' = run
        \/ k.pc = "graph" /\ r.pc \in {"finish_run", "fail_run"} /\ run' = run
    BY <1>1, <1>4 DEF QueueRun, StartRun, StartTask, Return, At, Goto, ApprovalInv, ApprovalTypeOK,
                      durable, executions
  <2>3. \A g \in Gate : approval[g] # "pending"
    BY <1>2, <2>2 DEF ApprovalInv, ResumerDecided, ApprovalTypeOK
  <2>4. k.pc \in {"queue_run", "start_run", "start_task"} /\ k.verb = "approve" => approval[k.gate] = "approved"
    BY DEF ApprovalInv, CarriedOutIsApproved
  <2>5. /\ r.pc = "start_run" => run' = "queued"
        /\ r.pc \in {"start_task", "graph"} => run' = "running"
    BY <2>2 DEF ApprovalInv, RunOfResumer
  <2> HIDE DEF r
  <2> QED  BY <1>2, <1>3, <2>1, <2>2, <2>3, <2>4, <2>5, ResumerKeeps
<1>5. CASE ParkRun(d) \/ ParkTask(d)
  <2>1. /\ decider' = [decider EXCEPT ![d] = r]
        /\ r \in [pc : Pc, gate : Gate, verb : Verb \cup {None}]
    BY <1>1, <1>5 DEF ParkRun, ParkTask, Goto, Pc, Synchronous, ApprovalInv, ApprovalTypeOK
  <2>2. \/ k.pc = "park_run" /\ r.pc = "park_task" /\ run' = IF run = "running" THEN "waiting_approval" ELSE run
        \/ k.pc = "park_task" /\ r.pc = "card" /\ run' = run
    BY <1>1, <1>5 DEF ParkRun, ParkTask, At, Goto, ApprovalInv, ApprovalTypeOK
  <2>3. run' = "waiting_approval"
    BY <2>2 DEF ApprovalInv, RunOfResumer
  <2> HIDE DEF r
  <2> QED  BY <1>2, <1>3, <2>1, <2>2, <2>3, ResumerKeeps
<1>6. CASE FinishRun(d) \/ FinishTask(d) \/ FailRun(d) \/ FailTask(d)
  <2>1. /\ decider' = [decider EXCEPT ![d] = r]
        /\ r \in [pc : Pc, gate : Gate, verb : Verb \cup {None}]
        /\ r.pc \in {"finish_task", "reply", "fail_task", "idle"}
        /\ k.pc \in {"finish_run", "finish_task", "fail_run", "fail_task"}
    BY <1>1, <1>6, ApprovalConstants DEF FinishRun, FinishTask, FailRun, FailTask, Goto, Leave, At, Pc, Synchronous,
                      Idle, ApprovalInv, ApprovalTypeOK
  <2>2. \A g \in Gate : approval[g] # "pending"
    BY <1>2, <2>1 DEF ApprovalInv, ResumerDecided, ApprovalTypeOK
  <2> HIDE DEF r
  <2> QED  BY <1>2, <1>3, <2>1, <2>2, ResumerKeeps
<1> QED  BY <1>4, <1>5, <1>6

-----------------------------------------------------------------------------
(* The tools.                                                              *)

\* Only a call that still waits is carried out, and what is carried out is approved.
LEMMA InvokeKeeps ==
  ASSUME ApprovalInv, NEW d \in Decider, NEW g \in Gate, Invoke(d, g)
  PROVE  ApprovalInv'
<1> DEFINE r == [decider[d] EXCEPT !.pc = "start_call", !.gate = g]
<1>1. /\ decider[d].pc = "graph" /\ call[g] = "waiting_approval" /\ Approved(d, g)
      /\ decider[d] \in [pc : Pc, gate : Gate, verb : Verb \cup {None}]
      /\ decider' = [decider EXCEPT ![d] = r]
      /\ call' = [call EXCEPT ![g] = "requested"]
      /\ UNCHANGED <<approval, run, up, effects, crashes>>
  BY DEF Invoke, At, Resumable, executions, world, ApprovalInv, ApprovalTypeOK
<1>2. /\ Resuming(d) /\ run = "running"
      /\ \A h \in Gate : approval[h] # "pending"
      /\ approval[g] = "approved"
  BY <1>1 DEF Resuming, Approved, Pc, Synchronous, ApprovalInv, RunOfResumer, ResumerDecided,
              CarriedOutIsApproved
<1>3. /\ r \in [pc : Pc, gate : Gate, verb : Verb \cup {None}]
      /\ r.pc = "start_call" /\ r.gate = g
  BY <1>1 DEF Pc, Synchronous
<1>4. effects[g] = 0
  BY <1>1 DEF ApprovalInv, ApprovalTypeOK, EffectsEndTheWait
<1>5. call' \in [Gate -> CallState] /\ RequestsInOrder' /\ EffectsEndTheWait'
  BY <1>1, <1>4 DEF ApprovalInv, ApprovalTypeOK, CallState, RequestsInOrder, EffectsEndTheWait
<1> HIDE DEF r
<1> QED  BY <1>1, <1>2, <1>3, <1>4, <1>5, ResumerKeeps DEF ApprovalInv, ApprovalTypeOK

\* The tool begins, or the policy refuses it after all; and it ends.
LEMMA CallMovesKeep ==
  ASSUME ApprovalInv, NEW d \in Decider, StartCall(d) \/ \E ok \in BOOLEAN : FinishCall(d, ok)
  PROVE  ApprovalInv'
<1> DEFINE k == decider[d]
           r == decider'[d]
<1>1. /\ k \in [pc : Pc, gate : Gate, verb : Verb \cup {None}]
      /\ k.pc \in {"start_call", "tool", "effect"}
      /\ UNCHANGED <<approval, run, up, effects, crashes>>
  BY DEF StartCall, FinishCall, At, executions, world, ApprovalInv, ApprovalTypeOK
<1>2. /\ decider' = [decider EXCEPT ![d] = r]
      /\ r \in [pc : Pc, gate : Gate, verb : Verb \cup {None}]
      /\ r.gate = k.gate
      /\ r.pc \in {"tool", "graph"}
      /\ r.pc = "tool" => k.pc = "start_call"
  BY <1>1 DEF StartCall, FinishCall, At, Goto, Pc, Synchronous, ApprovalInv, ApprovalTypeOK
<1>3. /\ r.pc = "tool" => call' = [call EXCEPT ![k.gate] = "running"]
      /\ r.pc = "graph" => \E s \in {"rejected", "succeeded", "failed"} : call' = [call EXCEPT ![k.gate] = s]
  BY <1>1 DEF StartCall, FinishCall, At, Goto, ApprovalInv, ApprovalTypeOK
<1>4. /\ Resuming(d) /\ run = "running"
      /\ \A h \in Gate : approval[h] # "pending"
      /\ approval[k.gate] = "approved"
      /\ k.pc = "start_call" => effects[k.gate] = 0
  BY <1>1 DEF Resuming, Pc, Synchronous, ApprovalInv, RunOfResumer, ResumerDecided, CarriedOutIsApproved
<1> HIDE DEF r
<1>5. PICK s \in {"running", "rejected", "succeeded", "failed"} :
        call' = [call EXCEPT ![k.gate] = s] /\ (r.pc = "tool" => s = "running")
  BY <1>2, <1>3
<1>6. call' \in [Gate -> CallState] /\ RequestsInOrder' /\ EffectsEndTheWait'
  BY <1>1, <1>4, <1>5 DEF ApprovalInv, ApprovalTypeOK, CallState, RequestsInOrder, EffectsEndTheWait
<1>7. r.pc = "tool" => call'[r.gate] = "running"
  BY <1>1, <1>2, <1>5 DEF ApprovalInv, ApprovalTypeOK
<1> QED  BY <1>1, <1>2, <1>4, <1>6, <1>7, ResumerKeeps DEF ApprovalInv, ApprovalTypeOK

\* The effect is the first of its gate: its call is running, and was waiting until now.
LEMMA SideEffectKeeps ==
  ASSUME ApprovalInv, NEW d \in Decider, SideEffect(d)
  PROVE  ApprovalInv'
<1> DEFINE k == decider[d]
           r == [k EXCEPT !.pc = "effect"]
<1>1. /\ k \in [pc : Pc, gate : Gate, verb : Verb \cup {None}]
      /\ k.pc = "tool"
      /\ decider' = [decider EXCEPT ![d] = r]
      /\ effects' = [effects EXCEPT ![k.gate] = @ + 1]
      /\ UNCHANGED <<approval, call, run, up, crashes>>
  BY DEF SideEffect, Goto, durable, executions, ApprovalInv, ApprovalTypeOK
<1>2. /\ Resuming(d) /\ run = "running"
      /\ \A h \in Gate : approval[h] # "pending"
      /\ approval[k.gate] = "approved" /\ call[k.gate] = "running" /\ effects[k.gate] = 0
  BY <1>1 DEF Resuming, Pc, Synchronous, ApprovalInv, RunOfResumer, ResumerDecided, CarriedOutIsApproved
<1>3. /\ r \in [pc : Pc, gate : Gate, verb : Verb \cup {None}]
      /\ r.pc = "effect" /\ r.gate = k.gate
  BY <1>1 DEF Pc, Synchronous
<1>4. effects' \in [Gate -> Nat] /\ RequestsInOrder' /\ EffectsEndTheWait'
  BY <1>1, <1>2 DEF ApprovalInv, ApprovalTypeOK, RequestsInOrder, EffectsEndTheWait
<1> HIDE DEF r
<1> QED  BY <1>1, <1>2, <1>3, <1>4, ResumerKeeps DEF ApprovalInv, ApprovalTypeOK

\* The next approval is asked for: its gate is the first that nothing is known of.
LEMMA AskKeeps ==
  ASSUME ApprovalInv, NEW d \in Decider, NEW g \in Gate, Ask(d, g)
  PROVE  ApprovalInv'
<1> DEFINE r == [decider[d] EXCEPT !.pc = "asked", !.gate = g]
<1>1. /\ decider[d].pc = "graph" /\ call[g] = "absent"
      /\ \A h \in 1..(g - 1) : call[h] # "absent"
      /\ decider[d] \in [pc : Pc, gate : Gate, verb : Verb \cup {None}]
      /\ decider' = [decider EXCEPT ![d] = r]
      /\ call' = [call EXCEPT ![g] = "waiting_approval"]
      /\ UNCHANGED <<approval, run, up, effects, crashes>>
  BY DEF Ask, At, executions, world, ApprovalInv, ApprovalTypeOK
<1>2. /\ Resuming(d) /\ run = "running"
      /\ \A h \in Gate : approval[h] # "pending"
  BY <1>1 DEF Resuming, Pc, Synchronous, ApprovalInv, RunOfResumer, ResumerDecided
<1>3. /\ r \in [pc : Pc, gate : Gate, verb : Verb \cup {None}]
      /\ r.pc = "asked" /\ r.gate = g
  BY <1>1 DEF Pc, Synchronous
<1>4. /\ approval[g] = "absent" /\ effects[g] = 0
      /\ \A h \in Gate : h > g => call'[h] = "absent"
  BY <1>1, ApprovalConstants DEF ApprovalInv, ApprovalTypeOK, RequestsInOrder, EffectsEndTheWait
<1>5. \A h \in Gate : h < g => call[h] # "absent"
  BY <1>1, ApprovalAssumption DEF Gate
<1>6. call' \in [Gate -> CallState] /\ RequestsInOrder' /\ EffectsEndTheWait'
  BY <1>1, <1>4, <1>5, ApprovalConstants
     DEF ApprovalInv, ApprovalTypeOK, CallState, RequestsInOrder, EffectsEndTheWait
<1>7. call'[g] = "waiting_approval"  BY <1>1 DEF ApprovalInv, ApprovalTypeOK
<1> HIDE DEF r
<1> QED  BY <1>1, <1>2, <1>3, <1>4, <1>6, <1>7, ResumerKeeps DEF ApprovalInv, ApprovalTypeOK

\* The request is stored, and parking begins in the same stretch of code.
LEMMA RegisterKeeps ==
  ASSUME ApprovalInv, NEW d \in Decider, Register(d)
  PROVE  ApprovalInv'
<1> DEFINE k == decider[d]
           r == [k EXCEPT !.pc = "park_run"]
<1>1. /\ k \in [pc : Pc, gate : Gate, verb : Verb \cup {None}]
      /\ k.pc = "asked"
      /\ decider' = [decider EXCEPT ![d] = r]
      /\ approval' = [approval EXCEPT ![k.gate] = "pending"]
      /\ UNCHANGED <<call, run, up, effects, crashes>>
  BY DEF Register, At, Goto, executions, world, ApprovalInv, ApprovalTypeOK
<1>2. /\ Resuming(d) /\ run = "running"
      /\ \A h \in Gate : approval[h] # "pending"
      /\ approval[k.gate] = "absent" /\ call[k.gate] = "waiting_approval"
      /\ \A h \in Gate : h > k.gate => call[h] = "absent"
  BY <1>1 DEF Resuming, Pc, Synchronous, ApprovalInv, RunOfResumer, ResumerDecided, AskedIsNew
<1>3. /\ r \in [pc : Pc, gate : Gate, verb : Verb \cup {None}]
      /\ r.pc = "park_run" /\ r.gate = k.gate
  BY <1>1 DEF Pc, Synchronous
<1>4. \A h \in Gate : h > k.gate => approval'[h] = "absent"
  BY <1>1, <1>2, ApprovalConstants DEF ApprovalInv, ApprovalTypeOK, RequestsInOrder
<1>5. approval' \in [Gate -> ApprovalState] /\ RequestsInOrder' /\ EffectsEndTheWait'
  BY <1>1, <1>2, <1>4 DEF ApprovalInv, ApprovalTypeOK, ApprovalState, RequestsInOrder, EffectsEndTheWait
<1> HIDE DEF r
<1> QED  BY <1>1, <1>2, <1>3, <1>5, ResumerKeeps DEF ApprovalInv, ApprovalTypeOK

-----------------------------------------------------------------------------
(* The card and the process.                                               *)

\* The card's way through the Outbox moves the Task alone.
LEMMA CardKeeps ==
  ASSUME ApprovalInv, CardStep
  PROVE  ApprovalInv'
<1>1. UNCHANGED <<approval, call, run, up, decider, effects, crashes>>
  BY DEF CardStep, CardPosted, CardSettles, CardFails, CardUnchanged
<1>2. ApprovalTypeOK' /\ OneResumer' /\ DownIsIdle' /\ RequestsInOrder' /\ ResumerDecided'
  BY <1>1 DEF ApprovalInv, ApprovalTypeOK, OneResumer, DownIsIdle, RequestsInOrder, ResumerDecided, Resuming
<1>3. AskedIsNew' /\ RunOfResumer' /\ RunOfOpenRequest' /\ CarriedOutIsApproved' /\ EffectsEndTheWait'
  BY <1>1 DEF ApprovalInv, AskedIsNew, RunOfResumer, RunOfOpenRequest, CarriedOutIsApproved,
              EffectsEndTheWait, Resuming
<1> QED  BY <1>2, <1>3 DEF ApprovalInv

\* A crash may leave a run "running" that asks for an approval; nobody is left to resume it.
LEMMA CrashKeeps ==
  ASSUME ApprovalInv, Crash
  PROVE  ApprovalInv'
<1>1. /\ up /\ up' = FALSE /\ crashes' = crashes + 1
      /\ \A d \in Decider : decider'[d] = Idle
      /\ decider' = [d \in Decider |-> Idle]
      /\ UNCHANGED <<approval, call, run, effects>>
  BY DEF Crash, durable, executions, world
<1>2. \A d \in Decider : ~Resuming(d)' /\ decider'[d].pc = "idle"
  BY <1>1 DEF Resuming, Idle
<1>3. ApprovalTypeOK' /\ OneResumer' /\ DownIsIdle'
  <2>1. crashes' \in Nat /\ crashes' > 0  BY <1>1 DEF ApprovalInv, ApprovalTypeOK
  <2>2. decider' \in [Decider -> [pc : Pc, gate : Gate, verb : Verb \cup {None}]]
    BY <1>1, ApprovalConstants
  <2> QED  BY <1>1, <1>2, <2>1, <2>2 DEF ApprovalInv, ApprovalTypeOK, OneResumer, DownIsIdle
<1>4. RequestsInOrder' /\ EffectsEndTheWait'
  BY <1>1 DEF ApprovalInv, RequestsInOrder, EffectsEndTheWait
<1>5. ResumerDecided' /\ AskedIsNew' /\ RunOfResumer' /\ CarriedOutIsApproved'
  BY <1>2 DEF ResumerDecided, AskedIsNew, RunOfResumer, CarriedOutIsApproved
<1>6. RunOfOpenRequest'
  <2>1. SUFFICES ASSUME NEW g \in Gate, approval[g] = "pending"
                 PROVE  run \in {"waiting_approval", "queued", "running"}
                        /\ (run = "queued" => crashes + 1 > 0)
    BY <1>1 DEF RunOfOpenRequest
  <2>2. crashes + 1 > 0  BY DEF ApprovalInv, ApprovalTypeOK
  <2>3. CASE \A d \in Decider : ~Resuming(d)
    BY <2>1, <2>2, <2>3 DEF ApprovalInv, RunOfOpenRequest
  <2>4. CASE \E d \in Decider : Resuming(d)
    BY <2>1, <2>2, <2>4 DEF ApprovalInv, ResumerDecided, RunOfResumer
  <2> QED  BY <2>3, <2>4
<1> QED  BY <1>3, <1>4, <1>5, <1>6 DEF ApprovalInv

\* The restart queues what ran.
LEMMA RestartKeeps ==
  ASSUME ApprovalInv, Restart
  PROVE  ApprovalInv'
<1>1. /\ ~up /\ up'
      /\ call' = [g \in Gate |-> CallRecovered(call[g])]
      /\ run' = IF run = "running" THEN "queued" ELSE run
      /\ UNCHANGED <<approval, decider, effects, crashes>>
  BY DEF Restart, world
<1>2. /\ \A d \in Decider : decider[d] = Idle /\ ~Resuming(d) /\ ~Resuming(d)'
      /\ crashes > 0
  BY <1>1 DEF ApprovalInv, DownIsIdle, Resuming, Idle
<1>3. ApprovalTypeOK' /\ OneResumer' /\ DownIsIdle'
  BY <1>1, <1>2 DEF ApprovalInv, ApprovalTypeOK, OneResumer, DownIsIdle, CallRecovered, CallState
<1>4. RequestsInOrder' /\ EffectsEndTheWait'
  BY <1>1 DEF ApprovalInv, ApprovalTypeOK, RequestsInOrder, EffectsEndTheWait, CallRecovered
<1>5. ResumerDecided' /\ AskedIsNew' /\ RunOfResumer' /\ CarriedOutIsApproved'
  BY <1>1, <1>2 DEF ResumerDecided, AskedIsNew, RunOfResumer, CarriedOutIsApproved, Idle
<1>6. RunOfOpenRequest'
  BY <1>1, <1>2 DEF ApprovalInv, RunOfOpenRequest
<1> QED  BY <1>3, <1>4, <1>5, <1>6 DEF ApprovalInv

-----------------------------------------------------------------------------
(* The theorems.                                                           *)

\* The parked run and its first request.
LEMMA ApprovalInit == Init => ApprovalInv
<1> SUFFICES ASSUME Init PROVE ApprovalInv
  OBVIOUS
<1>1. \A d \in Decider : decider[d] = Idle /\ ~Resuming(d) /\ decider[d].pc = "idle"
  BY DEF Init, Resuming, Idle
<1>2. ApprovalTypeOK
  BY ApprovalConstants DEF Init, ApprovalTypeOK, ApprovalState, CallState
<1>3. RequestsInOrder /\ EffectsEndTheWait
  BY ApprovalConstants, ApprovalAssumption DEF Init, Gate, RequestsInOrder, EffectsEndTheWait
<1>4. OneResumer /\ DownIsIdle /\ RunOfOpenRequest
  BY <1>1 DEF Init, OneResumer, DownIsIdle, RunOfOpenRequest
<1>5. ResumerDecided /\ AskedIsNew /\ RunOfResumer /\ CarriedOutIsApproved
  BY <1>1 DEF ResumerDecided, AskedIsNew, RunOfResumer, CarriedOutIsApproved
<1> QED  BY <1>2, <1>3, <1>4, <1>5 DEF ApprovalInv

\* Every step keeps the invariant.
LEMMA ApprovalStep == ApprovalInv /\ [Next]_vars => ApprovalInv'
<1> SUFFICES ASSUME ApprovalInv, [Next]_vars PROVE ApprovalInv'
  OBVIOUS
<1>1. ASSUME NEW d \in Decider, NEW g \in Gate, NEW verb \in Verb, Click(d, g, verb) \/ Type(d, g, verb)
      PROVE  ApprovalInv'
  BY <1>1, ArrivalsKeep
<1>2. ASSUME NEW d \in Decider, DecisionStep(d) PROVE ApprovalInv'
  <2>1. 1 \in Gate /\ "approve" \in Verb  BY ApprovalConstants DEF Verb
  <2>2. CASE Consume(d) \/ Refused(d) \/ Denied(d) \/ AlreadyDecided(d)
    BY <2>1, <2>2, ArrivalsKeep
  <2>3. CASE QueueRun(d) \/ StartRun(d) \/ StartTask(d)
    BY <2>3, RunMovesKeep
  <2> QED  BY <1>2, <2>2, <2>3, ExpireKeeps, DecideKeeps, RejectCallsKeeps DEF DecisionStep
<1>3. ASSUME NEW d \in Decider, GraphStep(d) PROVE ApprovalInv'
  <2>1. 1 \in Gate /\ "approve" \in Verb  BY ApprovalConstants DEF Verb
  <2>2. CASE \E pc \in {"finish_run", "fail_run"} : Return(d, pc)  BY <2>2, RunMovesKeep
  <2>3. CASE ParkRun(d) \/ ParkTask(d)  BY <2>3, RunMovesKeep
  <2>4. CASE ShowCard(d)  BY <2>1, <2>4, ArrivalsKeep
  <2>5. CASE StartCall(d) \/ \E ok \in BOOLEAN : FinishCall(d, ok)  BY <2>5, CallMovesKeep
  <2>6. CASE \E g \in Gate : Invoke(d, g) \/ Ask(d, g)  BY <2>6, InvokeKeeps, AskKeeps
  <2>7. CASE Register(d)  BY <2>7, RegisterKeeps
  <2> QED  BY <1>3, <2>2, <2>3, <2>4, <2>5, <2>6, <2>7 DEF GraphStep, ModelStep, ToolStep
<1>4. ASSUME NEW d \in Decider, SideEffect(d) PROVE ApprovalInv'
  BY <1>4, SideEffectKeeps
<1>5. ASSUME NEW d \in Decider, VerdictStep(d) PROVE ApprovalInv'
  <2>1. 1 \in Gate /\ "approve" \in Verb  BY ApprovalConstants DEF Verb
  <2>2. CASE Reply(d)  BY <2>1, <2>2, ArrivalsKeep
  <2> QED  BY <1>5, <2>2, RunMovesKeep DEF VerdictStep
<1>6. CASE CardStep  BY <1>6, CardKeeps
<1>7. CASE Crash  BY <1>7, CrashKeeps
<1>8. CASE Restart  BY <1>8, RestartKeeps
<1>9. CASE UNCHANGED vars
  BY <1>9 DEF vars, durable, executions, world, ApprovalInv, ApprovalTypeOK, OneResumer, DownIsIdle,
              RequestsInOrder, ResumerDecided, AskedIsNew, RunOfResumer, RunOfOpenRequest,
              CarriedOutIsApproved, EffectsEndTheWait, Resuming
<1> QED  BY <1>1, <1>2, <1>3, <1>4, <1>5, <1>6, <1>7, <1>8, <1>9 DEF Next

\* The inductive invariant holds always.
THEOREM ApprovalIsInductive == Spec => []ApprovalInv
BY ApprovalInit, ApprovalStep, PTL DEF Spec

\* At most one coroutine drives the run, however many people decide at once: decide() reads
\* the request again after the awaits and there is no await until the run is queued.
THEOREM OneCoroutineResumes == Spec => []OneResumer
<1>1. ApprovalInv => OneResumer  BY DEF ApprovalInv
<1> QED  BY <1>1, ApprovalIsInductive, PTL

\* A guarded side effect is approved and happens at most once, with any number of clicks,
\* commands, resumptions and crashes: the call it belongs to stops waiting before it.
THEOREM SideEffectsAreApproved == Spec => []EffectsAreApproved
<1>1. ApprovalInv => EffectsAreApproved
  BY DEF ApprovalInv, ApprovalTypeOK, EffectsEndTheWait, EffectsAreApproved
<1> QED  BY <1>1, ApprovalIsInductive, PTL

\* While a request is open the run waits, unless the process died while it was parking it,
\* and nobody drives it; no later request exists.
THEOREM OpenRequestsParkTheRun == Spec => []OpenRequestParksRun
<1>1. ApprovalInv => OpenRequestParksRun
  <2> SUFFICES ASSUME ApprovalInv, Free, NEW g \in Gate, approval[g] = "pending"
               PROVE  /\ run \in {"waiting_approval", "queued"}
                      /\ run = "queued" => crashes > 0
                      /\ \A d \in Decider : ~Resuming(d)
                      /\ \A h \in Gate : h > g => approval[h] = "absent"
    BY DEF OpenRequestParksRun
  <2>1. \A d \in Decider : ~Resuming(d)
    BY DEF ApprovalInv, ResumerDecided, Free, Synchronous
  <2>2. up  BY DEF Free
  <2> QED  BY <2>1, <2>2 DEF ApprovalInv, RunOfOpenRequest, RequestsInOrder
<1> QED  BY <1>1, ApprovalIsInductive, PTL
=============================================================================
