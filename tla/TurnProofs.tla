----------------------------- MODULE TurnProofs -----------------------------
(***************************************************************************)
(* Proofs about module Turn, for any number of turns, users, calls and       *)
(* restarts.  A call that is carried out after a decision may have come      *)
(* from the checkpoint, and so from another turn; the invariant says that    *)
(* then a row names the turn that asked for it, so that the check of the     *)
(* row's identity lets the call pass under its own turn alone.  A second     *)
(* invariant follows the tools of the session all turns share, so that a     *)
(* turn with a skill is carried on with the skill's capabilities.            *)
(***************************************************************************)
EXTENDS Turn, TLAPS

\* The types of the variables, one record set for each kind of entry.

How == {"mention", "ambient"}
Decision == {"none", "approved", "rejected"}
Step == {"off", "build", "begin", "think", "check", "execute"}

TurnRecord == [state : TurnState, actor : Actor, how : How, skill : BOOLEAN]
RequestRecord == [state : {"none", "pending", "approved", "rejected"}, names : 0..MaxCalls]
SessionRecord == [of : 0..MaxTurns, tools : SUBSET PackageCaps]
GraphRecord == [at : Step, fresh : BOOLEAN, call : Calls, decision : Decision,
                of : 0..MaxTurns, tools : SUBSET PackageCaps]
RowRecord == [id : 0..MaxCalls, actor : Actor, turn : Turns, skill : BOOLEAN]
RanRecord == [call : Calls, under : Turns, guarded : BOOLEAN, names : 0..MaxCalls]

Types ==
  /\ turn \in [Turns -> TurnRecord]
  /\ request \in [Turns -> RequestRecord]
  /\ session \in SessionRecord
  /\ checkpoint \in Calls
  /\ asked \in 0..MaxCalls
  /\ graph \in [Turns -> GraphRecord]
  /\ callRows \subseteq RowRecord
  /\ ran \subseteq RanRecord
  /\ turnProcess \in [up : BOOLEAN, crashes : Nat]

Begun(t) == turn[t].state # "new"

\* The row that a call got when its turn was parked for it.
Stored(c) == \E row \in callRows : row.id = c.id /\ row.actor = turn[c.asker].actor /\ row.turn = c.asker

SessionKnown == session # NoSession => session.of \in Turns /\ Begun(session.of)

RequestKnown(t) == request[t].state # "none" => Begun(t) /\ turn[t].how = "mention"

\* The checkpoint has the call of a turn, and if it could register a request, the one that names it.
CheckpointKnown ==
  checkpoint # NoAsk =>
    /\ checkpoint.asker \in Turns /\ Begun(checkpoint.asker) /\ Stored(checkpoint)
    /\ turn[checkpoint.asker].how = "mention" => checkpoint.id = request[checkpoint.asker].names

\* What a graph that runs has in hand: without a decision its own call, with a decision what it
\* found in the checkpoint.
CallKnown(t) ==
  LET c == graph[t].call IN
  /\ c.asker \in Turns /\ Begun(c.asker)
  /\ graph[t].decision = "none" => c.asker = t
  /\ graph[t].decision # "none" => Stored(c) /\ (c.asker = t => c.id = request[t].names)

GraphKnown(t) ==
  /\ graph[t].at = "off" => graph[t].decision = "none"
  /\ graph[t].at # "off" => Begun(t) /\ turnProcess.up
  /\ graph[t].at \notin {"off", "build"} => graph[t].of \in Turns /\ Begun(graph[t].of)
  /\ graph[t].at = "build" => graph[t].decision # "none"
  /\ graph[t].at = "begin" => (graph[t].fresh <=> graph[t].decision = "none")
  /\ graph[t].at = "think" => graph[t].decision = "none"
  /\ graph[t].decision # "none" => turn[t].how = "mention"
  /\ graph[t].at \in {"check", "execute"} => CallKnown(t)
  /\ graph[t].at = "execute" /\ Authorization(graph[t].call.cap) = "approve" => graph[t].decision = "approved"

RanKnown ==
  \A r \in ran : Begun(r.under) /\ r.call.asker \in Turns /\ Begun(r.call.asker)

TurnKnown ==
  /\ SessionKnown /\ CheckpointKnown /\ RanKnown
  /\ \A t \in Turns : RequestKnown(t) /\ GraphKnown(t)

TurnInv == Types /\ TurnKnown /\ ApprovalsStayWithTheirCall

\* The turns are numbers, and 0 is none of them.
LEMMA Consts == MaxTurns \in Nat /\ MaxCalls \in Nat /\ Turns \subseteq Nat /\ Turns \subseteq 0..MaxTurns
BY TurnAssumption DEF Turns

\* A record stays one of its kind when a field is given a value of the field.
LEMMA Records ==
  /\ GraphOff \in GraphRecord /\ NoSession \in SessionRecord /\ NoAsk \in Calls
  /\ \A g \in GraphRecord :
       /\ \A a \in Step : [g EXCEPT !.at = a] \in GraphRecord
       /\ \A c \in Calls : [g EXCEPT !.call = c] \in GraphRecord
       /\ \A d \in Decision : [g EXCEPT !.decision = d] \in GraphRecord
       /\ \A f \in BOOLEAN : [g EXCEPT !.fresh = f] \in GraphRecord
       /\ \A o \in 0..MaxTurns : [g EXCEPT !.of = o] \in GraphRecord
       /\ \A s \in SUBSET PackageCaps : [g EXCEPT !.tools = s] \in GraphRecord
  /\ \A r \in TurnRecord, s \in TurnState : [r EXCEPT !.state = s] \in TurnRecord
  /\ \A r \in RequestRecord, s \in {"approved", "rejected"} : [r EXCEPT !.state = s] \in RequestRecord
<1> USE Consts
<1>1. NoAsk \in Calls
  BY DEF NoAsk, Calls
<1>2. GraphOff \in GraphRecord /\ NoSession \in SessionRecord
  BY <1>1 DEF GraphOff, GraphRecord, NoSession, SessionRecord, Step, Decision
<1>3. ASSUME NEW g \in GraphRecord
      PROVE
       /\ \A a \in Step : [g EXCEPT !.at = a] \in GraphRecord
       /\ \A c \in Calls : [g EXCEPT !.call = c] \in GraphRecord
       /\ \A d \in Decision : [g EXCEPT !.decision = d] \in GraphRecord
       /\ \A f \in BOOLEAN : [g EXCEPT !.fresh = f] \in GraphRecord
       /\ \A o \in 0..MaxTurns : [g EXCEPT !.of = o] \in GraphRecord
       /\ \A s \in SUBSET PackageCaps : [g EXCEPT !.tools = s] \in GraphRecord
  BY DEF GraphRecord
<1>4. \A r \in TurnRecord, s \in TurnState : [r EXCEPT !.state = s] \in TurnRecord
  BY DEF TurnRecord
<1>5. \A r \in RequestRecord, s \in {"approved", "rejected"} : [r EXCEPT !.state = s] \in RequestRecord
  BY DEF RequestRecord
<1> QED BY <1>1, <1>2, <1>3, <1>4, <1>5

\* The types hold at the start.
LEMMA InitTyped == TurnInit => Types
<1> SUFFICES ASSUME TurnInit PROVE Types
  OBVIOUS
<1>1. turn \in [Turns -> TurnRecord]
  BY DEF TurnInit, TurnRecord, TurnState, How
<1>2. request \in [Turns -> RequestRecord]
  BY Consts DEF TurnInit, RequestRecord
<1>3. graph \in [Turns -> GraphRecord] /\ session \in SessionRecord /\ checkpoint \in Calls
  BY Records DEF TurnInit
<1>4. asked \in 0..MaxCalls /\ turnProcess \in [up : BOOLEAN, crashes : Nat]
  BY Consts DEF TurnInit
<1>5. callRows \subseteq RowRecord /\ ran \subseteq RanRecord
  BY DEF TurnInit
<1> QED
  BY <1>1, <1>2, <1>3, <1>4, <1>5 DEF Types

\* What a session and a graph that enters it are made of.
LEMMA SessionFacts ==
  /\ \A t \in Turns, s \in BOOLEAN : Built(t, s) \in SessionRecord
  /\ \A s \in SessionRecord, f \in BOOLEAN, d \in Decision : Entering(s, f, d) \in GraphRecord
<1>1. \A t \in Turns, s \in BOOLEAN : Built(t, s) \in SessionRecord
  BY Consts DEF Built, FactoryTools, SkillCaps, PackageCaps, SessionRecord
<1>2. \A s \in SessionRecord, f \in BOOLEAN, d \in Decision : Entering(s, f, d) \in GraphRecord
  BY Records DEF Entering, SessionRecord, GraphRecord, Step
<1> QED BY <1>1, <1>2

\* The rows stay typed when a call is prepared.
LEMMA PreparedTyped ==
  ASSUME Types, NEW t \in Turns, graph[t].of \in Turns
  PROVE  Prepared(t, graph[t].call.id) \subseteq RowRecord
<1>1. graph[t].call.id \in 0..MaxCalls /\ turn[t].actor \in Actor /\ turn[graph[t].of].skill \in BOOLEAN
  BY DEF Types, GraphRecord, Calls, TurnRecord
<1> QED
  BY <1>1 DEF Prepared, Identity, Types, RowRecord

\* What every step keeps, but for the end and the start of the process.
Keeps ==
  /\ \A u \in Turns : Begun(u) => Begun(u)' /\ turn'[u].actor = turn[u].actor
                                  /\ turn'[u].how = turn[u].how /\ turn'[u].skill = turn[u].skill
  /\ callRows \subseteq callRows'

\* A row that was written stays, and so does the author it was found by.
LEMMA StoredStays ==
  ASSUME Keeps, NEW c \in Calls, c.asker \in Turns, Begun(c.asker), Stored(c)
  PROVE  \E row \in callRows' : row.id = c.id /\ row.actor = turn'[c.asker].actor /\ row.turn = c.asker
BY DEF Keeps, Stored

\* What a graph knows it still knows when another turn has moved.
LEMMA GraphStays ==
  ASSUME Types, Keeps, UNCHANGED <<policyFor, turnProcess>>,
         NEW u \in Turns, GraphKnown(u), graph'[u] = graph[u], request'[u].names = request[u].names
  PROVE  GraphKnown(u)'
<1>1. graph[u] \in GraphRecord /\ graph[u].call \in Calls
  BY DEF Types, GraphRecord
<1>2. graph[u].at # "off" => Begun(u) /\ Begun(u)' /\ turn'[u].how = turn[u].how
  BY DEF GraphKnown, Keeps
<1>3. CallKnown(u) => CallKnown(u)'
  <2> SUFFICES ASSUME CallKnown(u) PROVE CallKnown(u)'
    OBVIOUS
  <2> DEFINE c == graph[u].call
  <2>1. c \in Calls /\ c.asker \in Turns /\ Begun(c.asker) /\ graph'[u].call = c
    BY <1>1 DEF CallKnown
  <2>2. turn'[c.asker].state # "new"
    BY <2>1 DEF Keeps, Begun
  <2>3. Stored(c) => \E row \in callRows' : row.id = c.id /\ row.actor = turn'[c.asker].actor /\ row.turn = c.asker
    BY <2>1, StoredStays
  <2> QED
    BY <2>1, <2>2, <2>3 DEF CallKnown, Stored, Begun
<1>4. graph[u].of \in Turns /\ Begun(graph[u].of) => Begun(graph[u].of)'
  BY DEF Keeps
<1>5. \A cap : Authorization(cap)' = Authorization(cap)
  BY DEF Authorization, PolicySays
<1> QED
  BY <1>1, <1>2, <1>3, <1>4, <1>5 DEF GraphKnown, Begun

\* One entry of the graphs is replaced.
LEMMA GraphMoves ==
  ASSUME Types, NEW t \in Turns, NEW g \in GraphRecord, graph' = [graph EXCEPT ![t] = g]
  PROVE  /\ graph' \in [Turns -> GraphRecord]
         /\ graph'[t] = g
         /\ \A u \in Turns : u # t => graph'[u] = graph[u]
BY DEF Types

\* A change of a turn's state leaves its author, its invocation and its skill.
LEMMA TurnMoves ==
  ASSUME Types, NEW t \in Turns, NEW s \in TurnState \ {"new"}, turn' = [turn EXCEPT ![t].state = s]
  PROVE  /\ turn' \in [Turns -> TurnRecord]
         /\ Begun(t)'
         /\ \A u \in Turns : /\ Begun(u) => Begun(u)'
                             /\ turn'[u].actor = turn[u].actor /\ turn'[u].how = turn[u].how
                             /\ turn'[u].skill = turn[u].skill
<1>1. turn' \in [Turns -> TurnRecord]
  BY Records DEF Types
<1>2. turn' = [turn EXCEPT ![t] = [turn[t] EXCEPT !.state = s]]
  OBVIOUS
<1> DEFINE r == [turn[t] EXCEPT !.state = s]
<1>3. r.state = s /\ r.actor = turn[t].actor /\ r.how = turn[t].how /\ r.skill = turn[t].skill
  BY DEF Types, TurnRecord
<1>4. \A u \in Turns : turn'[u] = IF u = t THEN r ELSE turn[u]
  BY <1>2 DEF Types
<1> QED
  BY <1>1, <1>3, <1>4 DEF Begun

\* The call in the checkpoint stays known as long as its request names the same call.
LEMMA CheckpointStays ==
  ASSUME Types, Keeps, CheckpointKnown, checkpoint' = checkpoint,
         \A u \in Turns : request'[u].names = request[u].names
  PROVE  CheckpointKnown'
<1> SUFFICES ASSUME checkpoint # NoAsk PROVE CheckpointKnown'
  BY DEF CheckpointKnown, NoAsk
<1>1. /\ checkpoint \in Calls /\ checkpoint.asker \in Turns /\ Begun(checkpoint.asker) /\ Stored(checkpoint)
      /\ turn[checkpoint.asker].how = "mention" => checkpoint.id = request[checkpoint.asker].names
  BY DEF CheckpointKnown, Types
<1>2. \E row \in callRows' : row.id = checkpoint.id /\ row.actor = turn'[checkpoint.asker].actor
                             /\ row.turn = checkpoint.asker
  BY <1>1, StoredStays
<1>3. turn'[checkpoint.asker].state # "new" /\ turn'[checkpoint.asker].how = turn[checkpoint.asker].how
  BY <1>1 DEF Keeps, Begun
<1> QED
  BY <1>1, <1>2, <1>3 DEF CheckpointKnown, Stored, Begun

\* What was carried out stays accounted for: nobody becomes the author of another's turn.
LEMMA RanStays ==
  ASSUME Types, Keeps, RanKnown, ApprovalsStayWithTheirCall, ran' = ran
  PROVE  RanKnown' /\ ApprovalsStayWithTheirCall'
<1>1. ASSUME NEW r \in ran
      PROVE  /\ r.under \in Turns /\ r.call.asker \in Turns
             /\ turn'[r.under].state # "new" /\ turn'[r.call.asker].state # "new"
             /\ turn'[r.under].actor = turn[r.under].actor
             /\ turn'[r.call.asker].actor = turn[r.call.asker].actor
  BY DEF Types, RanRecord, RanKnown, Keeps, Begun
<1> QED
  BY <1>1 DEF RanKnown, ApprovalsStayWithTheirCall, Begun

\* What is left to show for a step that moves one turn.
LEMMA OneTurnMoves ==
  ASSUME TurnInv, Types', Keeps, UNCHANGED <<policyFor, turnProcess>>, NEW t \in Turns,
         \A u \in Turns : u # t => graph'[u] = graph[u] /\ request'[u] = request[u],
         GraphKnown(t)', request' = request \/ RequestKnown(t)',
         session' \in {session, NoSession} \/ SessionKnown',
         \/ checkpoint' = NoAsk
         \/ checkpoint' = checkpoint /\ \A u \in Turns : request'[u].names = request[u].names
         \/ CheckpointKnown',
         ran' = ran \/ (RanKnown' /\ ApprovalsStayWithTheirCall')
  PROVE  TurnInv'
<1>1. SessionKnown'
  BY DEF TurnInv, TurnKnown, SessionKnown, Keeps
<1>2. CheckpointKnown'
  <2>1. CASE checkpoint' = checkpoint /\ \A u \in Turns : request'[u].names = request[u].names
    BY <2>1, CheckpointStays DEF TurnInv, TurnKnown
  <2>2. CASE checkpoint' = NoAsk
    BY <2>2 DEF CheckpointKnown, NoAsk
  <2> QED
    BY <2>1, <2>2
<1>3. RanKnown' /\ ApprovalsStayWithTheirCall'
  BY RanStays DEF TurnInv, TurnKnown
<1>4. ASSUME NEW u \in Turns PROVE RequestKnown(u)' /\ GraphKnown(u)'
  <2>1. CASE u = t
    <3>1. RequestKnown(t) /\ request' = request => RequestKnown(t)'
      BY DEF RequestKnown, Keeps, Begun
    <3> QED
      BY <2>1, <3>1 DEF TurnInv, TurnKnown
  <2>2. CASE u # t
    <3>1. RequestKnown(u) /\ GraphKnown(u) /\ Types
      BY DEF TurnInv, TurnKnown
    <3>2. graph'[u] = graph[u] /\ request'[u] = request[u]
      BY <2>2
    <3>3. GraphKnown(u)'
      BY <3>1, <3>2, GraphStays
    <3>4. RequestKnown(u)'
      BY <3>1, <3>2 DEF RequestKnown, Keeps, Begun
    <3> QED
      BY <3>3, <3>4
  <2> QED
    BY <2>1, <2>2
<1> QED
  BY <1>1, <1>2, <1>3, <1>4 DEF TurnInv, TurnKnown

\* A turn's state moves on, and nothing else of the turns.
LEMMA StateMoves ==
  ASSUME Types, NEW t \in Turns, NEW s \in TurnState \ {"new"}, turn' = [turn EXCEPT ![t].state = s],
         callRows \subseteq callRows'
  PROVE  Keeps /\ turn' \in [Turns -> TurnRecord] /\ Begun(t)' /\ turn'[t].how = turn[t].how
BY TurnMoves DEF Keeps

\* A step that leaves the turns alone keeps them.
LEMMA NoMove ==
  ASSUME UNCHANGED turn, callRows \subseteq callRows'
  PROVE  Keeps
BY DEF Keeps, Begun

\* A graph that is over knows nothing.
LEMMA OffKnown == ASSUME NEW t \in Turns, graph'[t] = GraphOff PROVE GraphKnown(t)'
BY DEF GraphKnown, GraphOff

\* The answer, the refusal and the failure of a turn: its graph is over.
LEMMA TurnEnds ==
  ASSUME TurnInv, NEW t \in Turns, NEW s \in TurnState \ {"new"},
         turn' = [turn EXCEPT ![t].state = s], graph' = [graph EXCEPT ![t] = GraphOff],
         session' \in {session, NoSession}, checkpoint' \in {checkpoint, NoAsk},
         UNCHANGED <<request, asked, callRows, ran, policyFor, turnProcess>>
  PROVE  TurnInv'
<1>1. Types
  BY DEF TurnInv
<1>2. Keeps /\ turn' \in [Turns -> TurnRecord]
  BY <1>1, StateMoves
<1>3. /\ graph' \in [Turns -> GraphRecord] /\ graph'[t] = GraphOff
      /\ \A u \in Turns : u # t => graph'[u] = graph[u]
  BY <1>1, Records, GraphMoves
<1>4. Types'
  BY <1>1, <1>2, <1>3, Records DEF Types
<1> QED
  BY <1>2, <1>3, <1>4, OffKnown, OneTurnMoves

\* A turn that is refused never ran.
LEMMA RefuseTurnKeeps ==
  ASSUME TurnInv, NEW t \in Turns, RefuseTurn(t)
  PROVE  TurnInv'
<1>1. Types /\ GraphKnown(t)
  BY DEF TurnInv, TurnKnown
<1>2. Keeps /\ turn' \in [Turns -> TurnRecord]
  BY <1>1, StateMoves DEF RefuseTurn, TurnState
<1>3. Types'
  BY <1>1, <1>2 DEF RefuseTurn, Types
<1>4. GraphKnown(t)'
  BY <1>1, <1>2, GraphStays DEF RefuseTurn
<1> QED
  BY <1>2, <1>3, <1>4, OneTurnMoves DEF RefuseTurn

\* A turn that begins has its own session and no decision; the author of a message that is
\* delivered again is the one it had.
LEMMA BeginTurnKeeps ==
  ASSUME TurnInv, NEW t \in Turns, NEW actor \in Actor, NEW how \in {"mention", "ambient"},
         NEW skill \in BOOLEAN, BeginTurn(t, actor, how, skill)
  PROVE  TurnInv'
<1> DEFINE built == Built(t, skill)
           r == [state |-> "running", actor |-> actor, how |-> how, skill |-> skill]
<1>1. Types
  BY DEF TurnInv
<1>2. r \in TurnRecord
  BY DEF TurnRecord, TurnState, How
<1>3. turn' = [turn EXCEPT ![t] = r]
  BY DEF BeginTurn
<1>4. turn' \in [Turns -> TurnRecord] /\ turn'[t] = r /\ \A u \in Turns : u # t => turn'[u] = turn[u]
  BY <1>1, <1>2, <1>3 DEF Types
<1>5. Begun(t) => actor = turn[t].actor /\ how = turn[t].how /\ skill = turn[t].skill
  BY DEF BeginTurn, MayBegin, Begun
<1>6. Keeps
  <2>1. callRows' = callRows
    BY DEF BeginTurn
  <2> QED
    BY <1>4, <1>5, <2>1 DEF Keeps, Begun
<1>7. built \in SessionRecord /\ Entering(built, TRUE, "none") \in GraphRecord
  BY SessionFacts DEF Decision
<1>8. graph' = [graph EXCEPT ![t] = Entering(built, TRUE, "none")] /\ session' = built
  BY DEF BeginTurn
<1>9. /\ graph' \in [Turns -> GraphRecord] /\ graph'[t] = Entering(built, TRUE, "none")
      /\ \A u \in Turns : u # t => graph'[u] = graph[u]
  BY <1>1, <1>7, <1>8, GraphMoves
<1>10. Types'
  BY <1>1, <1>4, <1>7, <1>8, <1>9 DEF BeginTurn, Types
<1>11. GraphKnown(t)'
  BY <1>4, <1>9 DEF BeginTurn, MayBegin, GraphKnown, Entering, Built, Begun
<1>12. SessionKnown'
  BY <1>4, <1>8 DEF SessionKnown, Built, Begun
<1> QED
  BY <1>6, <1>9, <1>10, <1>11, <1>12, OneTurnMoves DEF BeginTurn

\* A resume takes the call of the checkpoint, whoever asked for it; a new turn drops it.
LEMMA EnterGraphKeeps ==
  ASSUME TurnInv, NEW t \in Turns, EnterGraph(t)
  PROVE  TurnInv'
<1>1. /\ Types /\ GraphKnown(t) /\ CheckpointKnown
      /\ graph[t] \in GraphRecord /\ checkpoint \in Calls /\ callRows' = callRows
      /\ Begun(t) /\ turnProcess.up /\ graph[t].at = "begin" /\ graph[t].of \in Turns /\ Begun(graph[t].of)
      /\ (graph[t].fresh <=> graph[t].decision = "none")
  BY DEF TurnInv, TurnKnown, Types, GraphKnown, EnterGraph, At
<1>2. CASE graph[t].fresh
  <2> DEFINE g == [graph[t] EXCEPT !.at = "think"]
  <2>1. g \in GraphRecord /\ g.at = "think" /\ g.decision = "none" /\ g.of = graph[t].of
    BY <1>1, <1>2 DEF Step, GraphRecord
  <2>2. graph' = [graph EXCEPT ![t] = g] /\ UNCHANGED <<turn, session>> /\ checkpoint' = NoAsk
    BY <1>2 DEF EnterGraph
  <2> HIDE DEF g
  <2>3. graph' \in [Turns -> GraphRecord] /\ graph'[t] = g /\ \A u \in Turns : u # t => graph'[u] = graph[u]
    BY <1>1, <2>1, <2>2, GraphMoves
  <2>4. Keeps
    BY <2>2, <1>1, NoMove
  <2>5. Types'
    BY <1>1, <2>2, <2>3, Records DEF EnterGraph, Types
  <2>6. GraphKnown(t)'
    BY <1>1, <2>1, <2>2, <2>3 DEF EnterGraph, GraphKnown, Begun
  <2> QED
    BY <2>2, <2>3, <2>4, <2>5, <2>6, OneTurnMoves DEF EnterGraph
<1>3. CASE ~graph[t].fresh /\ checkpoint = NoAsk
  BY <1>1, <1>3, TurnEnds DEF EnterGraph, Settle, TurnState
<1>4. CASE ~graph[t].fresh /\ checkpoint # NoAsk
  <2> DEFINE g == [graph[t] EXCEPT !.at = "check", !.call = checkpoint]
  <2>1. /\ g \in GraphRecord /\ g.at = "check" /\ g.decision = graph[t].decision /\ g.of = graph[t].of
        /\ g.call = checkpoint
    BY <1>1 DEF Step, GraphRecord
  <2>2. graph' = [graph EXCEPT ![t] = g] /\ UNCHANGED <<turn, session, checkpoint, request, callRows>>
    BY <1>4 DEF EnterGraph
  <2> HIDE DEF g
  <2>3. graph' \in [Turns -> GraphRecord] /\ graph'[t] = g /\ \A u \in Turns : u # t => graph'[u] = graph[u]
    BY <1>1, <2>1, <2>2, GraphMoves
  <2>4. Keeps
    BY <2>2, <1>1, NoMove
  <2>5. Types'
    BY <1>1, <2>2, <2>3, Records DEF EnterGraph, Types
  <2>6. g.decision # "none" /\ turn[t].how = "mention"
    BY <1>1, <1>4, <2>1 DEF GraphKnown
  <2>7. CallKnown(t)'
    BY <1>1, <1>4, <2>1, <2>2, <2>3, <2>6 DEF CallKnown, CheckpointKnown, Stored, Begun
  <2>8. GraphKnown(t)'
    BY <1>1, <2>1, <2>2, <2>3, <2>6, <2>7 DEF EnterGraph, GraphKnown, Begun
  <2> QED
    BY <2>2, <2>3, <2>4, <2>5, <2>8, OneTurnMoves DEF EnterGraph
<1> QED
  BY <1>2, <1>3, <1>4

\* A call of the model is its turn's own.
LEMMA AskForToolKeeps ==
  ASSUME TurnInv, NEW t \in Turns, NEW cap \in PackageCaps, AskForTool(t, cap)
  PROVE  TurnInv'
<1> DEFINE c == [id |-> asked + 1, cap |-> cap, asker |-> t]
           g == [graph[t] EXCEPT !.at = "check", !.call = c]
<1>1. /\ Types /\ GraphKnown(t) /\ graph[t] \in GraphRecord /\ callRows' = callRows /\ turn' = turn
      /\ Begun(t) /\ turnProcess.up /\ graph[t].at = "think" /\ graph[t].of \in Turns /\ Begun(graph[t].of)
      /\ graph[t].decision = "none" /\ asked \in 0..MaxCalls /\ asked < MaxCalls /\ asked' = asked + 1
  BY DEF TurnInv, TurnKnown, Types, GraphKnown, AskForTool, At
<1>2. asked' \in 0..MaxCalls /\ c \in Calls
  BY <1>1, Consts DEF Calls
<1> HIDE DEF c
<1>3. /\ g \in GraphRecord /\ g.at = "check" /\ g.decision = "none" /\ g.of = graph[t].of /\ g.call = c
  BY <1>1, <1>2 DEF Step, GraphRecord
<1>4. graph' = [graph EXCEPT ![t] = g]
  BY DEF AskForTool, c
<1>5. c.asker = t
  BY DEF c
<1> HIDE DEF g
<1>6. graph' \in [Turns -> GraphRecord] /\ graph'[t] = g /\ \A u \in Turns : u # t => graph'[u] = graph[u]
  BY <1>1, <1>3, <1>4, GraphMoves
<1>7. Keeps
  BY <1>1, NoMove
<1>8. Types'
  BY <1>1, <1>2, <1>6 DEF AskForTool, Types
<1>9. GraphKnown(t)'
  BY <1>1, <1>3, <1>5, <1>6 DEF AskForTool, GraphKnown, CallKnown, Begun
<1> QED
  BY <1>6, <1>7, <1>8, <1>9, OneTurnMoves DEF AskForTool

\* A row that is found or made for a call is the turn's own, unless there is a conflict.
LEMMA PreparedHas ==
  ASSUME NEW t \in Turns, NEW id, ~Conflict(t, id)
  PROVE  /\ callRows \subseteq Prepared(t, id)
         /\ \E row \in Prepared(t, id) : row.id = id /\ row.actor = turn[t].actor /\ row.turn = t
<1>1. CASE Rows(t, id) # {}
  <2>1. PICK row \in Rows(t, id) : TRUE
    BY <1>1
  <2>2. row \in callRows /\ row.id = id /\ row.actor = turn[t].actor /\ row.turn = t
    BY <2>1 DEF Conflict, Rows, SameIdentity, Identity
  <2> QED
    BY <1>1, <2>2 DEF Prepared
<1>2. CASE Rows(t, id) = {}
  <2> DEFINE n == [id |-> id, actor |-> turn[t].actor, turn |-> t, skill |-> turn[graph[t].of].skill]
  <2>1. Prepared(t, id) = callRows \cup {n}
    BY <1>2 DEF Prepared, Identity
  <2>2. n.id = id /\ n.actor = turn[t].actor /\ n.turn = t
    OBVIOUS
  <2> HIDE DEF n
  <2> QED
    BY <2>1, <2>2
<1> QED
  BY <1>1, <1>2

\* What the two ways of parking share.
LEMMA InterruptKeeps ==
  ASSUME TurnInv, NEW t \in Turns, Interrupts(t), NEW s \in TurnState \ {"new"},
         turn' = [turn EXCEPT ![t].state = s]
  PROVE  /\ Types /\ Keeps /\ turn' \in [Turns -> TurnRecord] /\ turn'[t].how = turn[t].how /\ Begun(t)'
         /\ callRows' \subseteq RowRecord /\ checkpoint' \in Calls /\ checkpoint' = graph[t].call
         /\ checkpoint'.asker = t
         /\ graph' \in [Turns -> GraphRecord] /\ graph'[t] = GraphOff
         /\ \A u \in Turns : u # t => graph'[u] = graph[u]
         /\ \E row \in callRows' : row.id = checkpoint'.id /\ row.actor = turn'[t].actor /\ row.turn = t
<1> DEFINE c == graph[t].call
<1>1. /\ Types /\ GraphKnown(t) /\ graph[t] \in GraphRecord /\ c \in Calls
      /\ graph[t].at = "check" /\ graph[t].of \in Turns /\ graph[t].decision = "none"
      /\ ~Conflict(t, c.id) /\ callRows' = Prepared(t, c.id) /\ checkpoint' = c
      /\ graph' = [graph EXCEPT ![t] = GraphOff]
  BY DEF TurnInv, TurnKnown, Types, GraphKnown, Interrupts, At, GraphRecord
<1>2. c.asker = t
  BY <1>1 DEF GraphKnown, CallKnown
<1>3. callRows' \subseteq RowRecord
  BY <1>1, PreparedTyped
<1>4. /\ callRows \subseteq callRows'
      /\ \E row \in callRows' : row.id = c.id /\ row.actor = turn[t].actor /\ row.turn = t
  BY <1>1, PreparedHas
<1>5. Keeps /\ turn' \in [Turns -> TurnRecord] /\ Begun(t)' /\ turn'[t].how = turn[t].how
  BY <1>1, <1>4, StateMoves
<1>6. turn'[t].actor = turn[t].actor
  BY <1>1, TurnMoves
<1>7. /\ graph' \in [Turns -> GraphRecord] /\ graph'[t] = GraphOff
      /\ \A u \in Turns : u # t => graph'[u] = graph[u]
  BY <1>1, Records, GraphMoves
<1> QED
  BY <1>1, <1>2, <1>3, <1>4, <1>5, <1>6, <1>7

\* A turn that parks leaves its call in the checkpoint, with the row and the request that name
\* it.
LEMMA ParkTurnKeeps ==
  ASSUME TurnInv, NEW t \in Turns, ParkTurn(t)
  PROVE  TurnInv'
<1> DEFINE c == graph[t].call
           q == [state |-> "pending", names |-> c.id]
<1>1. /\ Types /\ Keeps /\ turn' \in [Turns -> TurnRecord] /\ turn'[t].how = turn[t].how /\ Begun(t)'
      /\ callRows' \subseteq RowRecord /\ checkpoint' \in Calls /\ checkpoint' = c
      /\ checkpoint'.asker = t
      /\ graph' \in [Turns -> GraphRecord] /\ graph'[t] = GraphOff
      /\ \A u \in Turns : u # t => graph'[u] = graph[u]
      /\ \E row \in callRows' : row.id = checkpoint'.id /\ row.actor = turn'[t].actor /\ row.turn = t
  BY InterruptKeeps DEF ParkTurn, TurnState
<1>2. q \in RequestRecord
  BY <1>1 DEF RequestRecord, Calls
<1>3. request' = [request EXCEPT ![t] = q] /\ turn[t].how = "mention"
  BY DEF ParkTurn
<1>4. /\ request' \in [Turns -> RequestRecord] /\ request'[t] = q
      /\ \A u \in Turns : u # t => request'[u] = request[u]
  BY <1>1, <1>2, <1>3 DEF Types
<1>5. Types'
  BY <1>1, <1>4 DEF ParkTurn, Types
<1>6. CheckpointKnown'
  BY <1>1, <1>4 DEF CheckpointKnown, Stored
<1>7. RequestKnown(t)'
  BY <1>1, <1>3 DEF RequestKnown
<1> QED
  BY <1>1, <1>4, <1>5, <1>6, <1>7, OffKnown, OneTurnMoves DEF ParkTurn

\* An ambient turn leaves its call in the checkpoint without a request.
LEMMA ParkAmbientKeeps ==
  ASSUME TurnInv, NEW t \in Turns, ParkAmbient(t)
  PROVE  TurnInv'
<1>1. /\ Types /\ Keeps /\ turn' \in [Turns -> TurnRecord] /\ turn'[t].how = turn[t].how /\ Begun(t)'
      /\ callRows' \subseteq RowRecord /\ checkpoint' \in Calls
      /\ checkpoint'.asker = t
      /\ graph' \in [Turns -> GraphRecord] /\ graph'[t] = GraphOff
      /\ \A u \in Turns : u # t => graph'[u] = graph[u]
      /\ \E row \in callRows' : row.id = checkpoint'.id /\ row.actor = turn'[t].actor /\ row.turn = t
  BY InterruptKeeps DEF ParkAmbient, TurnState
<1>2. turn[t].how = "ambient"
  BY DEF ParkAmbient
<1>3. Types'
  BY <1>1 DEF ParkAmbient, Types
<1>4. CheckpointKnown'
  BY <1>1, <1>2 DEF CheckpointKnown, Stored
<1> QED
  BY <1>1, <1>3, <1>4, OffKnown, OneTurnMoves DEF ParkAmbient

\* The decision is used up by a rejection; an approval goes on to the call.
LEMMA PassCheckKeeps ==
  ASSUME TurnInv, NEW t \in Turns, PassCheck(t)
  PROVE  TurnInv'
<1> DEFINE c == graph[t].call
           needed == Authorization(c.cap) = "approve"
           rejected == needed /\ graph[t].decision = "rejected"
<1>1. /\ Types /\ GraphKnown(t) /\ CallKnown(t) /\ graph[t] \in GraphRecord /\ turn' = turn
      /\ Begun(t) /\ turnProcess.up /\ graph[t].at = "check" /\ graph[t].of \in Turns /\ Begun(graph[t].of)
      /\ UNCHANGED <<request, session, checkpoint, ran, policyFor, turnProcess>>
  BY DEF TurnInv, TurnKnown, Types, GraphKnown, PassCheck, At
<1>2. CASE rejected
  <2> DEFINE g == [graph[t] EXCEPT !.at = "think", !.decision = "none"]
  <2>1. g \in GraphRecord /\ g.at = "think" /\ g.decision = "none" /\ g.of = graph[t].of
    BY <1>1 DEF Step, GraphRecord, Decision
  <2>2. graph' = [graph EXCEPT ![t] = g] /\ callRows' = Prepared(t, c.id) /\ ~Conflict(t, c.id)
    BY <1>2 DEF PassCheck
  <2> HIDE DEF g
  <2>3. graph' \in [Turns -> GraphRecord] /\ graph'[t] = g /\ \A u \in Turns : u # t => graph'[u] = graph[u]
    BY <1>1, <2>1, <2>2, GraphMoves
  <2>4. callRows' \subseteq RowRecord /\ callRows \subseteq callRows'
    BY <1>1, <2>2, PreparedTyped, PreparedHas
  <2>5. Keeps
    BY <1>1, <2>4, NoMove
  <2>6. Types'
    BY <1>1, <2>3, <2>4 DEF PassCheck, Types
  <2>7. GraphKnown(t)'
    BY <1>1, <2>1, <2>3 DEF GraphKnown, Begun
  <2> QED
    BY <1>1, <2>3, <2>5, <2>6, <2>7, OneTurnMoves
<1>3. CASE ~rejected
  <2> DEFINE g == [graph[t] EXCEPT !.at = "execute"]
  <2>1. /\ g \in GraphRecord /\ g.at = "execute" /\ g.decision = graph[t].decision /\ g.of = graph[t].of
        /\ g.call = c
    BY <1>1 DEF Step, GraphRecord
  <2>2. graph' = [graph EXCEPT ![t] = g] /\ callRows' = callRows /\ (needed => g.decision = "approved")
    BY <1>1, <1>3, <2>1 DEF PassCheck, GraphRecord, Decision
  <2> HIDE DEF g
  <2>3. graph' \in [Turns -> GraphRecord] /\ graph'[t] = g /\ \A u \in Turns : u # t => graph'[u] = graph[u]
    BY <1>1, <2>1, <2>2, GraphMoves
  <2>4. Keeps
    BY <1>1, <2>2, NoMove
  <2>5. Types'
    BY <1>1, <2>2, <2>3 DEF PassCheck, Types
  <2>6. CallKnown(t)'
    BY <1>1, <2>1, <2>2, <2>3 DEF CallKnown, Stored, Begun
  <2>7. GraphKnown(t)'
    BY <1>1, <2>1, <2>2, <2>3, <2>6 DEF GraphKnown, Begun, Authorization, PolicySays
  <2> QED
    BY <1>1, <2>3, <2>4, <2>5, <2>7, OneTurnMoves
<1> QED
  BY <1>2, <1>3

\* The call that is carried out is the one the turn's own request names.
LEMMA ExecuteCallKeeps ==
  ASSUME TurnInv, NEW t \in Turns, ExecuteCall(t)
  PROVE  TurnInv'
<1> DEFINE c == graph[t].call
           g == [graph[t] EXCEPT !.at = "think", !.decision = "none", !.call = NoAsk]
           r == Carried(t)
<1>1. /\ Types /\ GraphKnown(t) /\ CallKnown(t) /\ graph[t] \in GraphRecord /\ turn' = turn
      /\ RanKnown /\ ApprovalsStayWithTheirCall
      /\ Begun(t) /\ turnProcess.up /\ graph[t].at = "execute" /\ graph[t].of \in Turns /\ Begun(graph[t].of)
      /\ UNCHANGED <<request, session, policyFor, turnProcess>> /\ checkpoint' = NoAsk
      /\ ran' \subseteq ran \cup {r} /\ ~Conflict(t, c.id) /\ callRows' = Prepared(t, c.id)
      /\ graph' = [graph EXCEPT ![t] = g]
  BY DEF TurnInv, TurnKnown, Types, GraphKnown, ExecuteCall, At
<1>2. c \in Calls /\ request[t] \in RequestRecord
  BY <1>1 DEF GraphRecord, Types
<1>3. g \in GraphRecord /\ g.at = "think" /\ g.decision = "none" /\ g.of = graph[t].of
  <2>1. NoAsk \in Calls
    BY Records
  <2> QED
    BY <1>1, <2>1 DEF Step, GraphRecord, Decision
<1> HIDE DEF g
<1>4. graph' \in [Turns -> GraphRecord] /\ graph'[t] = g /\ \A u \in Turns : u # t => graph'[u] = graph[u]
  BY <1>1, <1>3, GraphMoves
<1>5. callRows' \subseteq RowRecord /\ callRows \subseteq callRows'
  BY <1>1, PreparedTyped, PreparedHas
<1>6. Keeps
  BY <1>1, <1>5, NoMove
<1>7. /\ r.call = c /\ r.under = t /\ (r.guarded <=> Authorization(c.cap) = "approve")
      /\ r.names = IF graph[t].decision = "approved" THEN request[t].names ELSE 0
  BY DEF Carried
<1>8. r \in RanRecord
  BY <1>2, Consts DEF Carried, RanRecord, RequestRecord
<1>9. r.guarded /\ turn[c.asker].actor = turn[t].actor => c.id = r.names
  <2> SUFFICES ASSUME r.guarded, turn[c.asker].actor = turn[t].actor PROVE c.id = r.names
    OBVIOUS
  <2>1. graph[t].decision = "approved"
    BY <1>1, <1>7 DEF GraphKnown
  <2>2. Stored(c) /\ (c.asker = t => c.id = request[t].names)
    BY <1>1, <2>1 DEF CallKnown
  <2>3. PICK row \in callRows : row.id = c.id /\ row.actor = turn[c.asker].actor /\ row.turn = c.asker
    BY <2>2 DEF Stored
  <2>4. SameIdentity(row, t)
    BY <1>1, <2>3 DEF Conflict, Rows, Identity
  <2>5. c.asker = t
    BY <2>3, <2>4 DEF SameIdentity, Identity
  <2> QED
    BY <1>7, <2>1, <2>2, <2>5
<1> HIDE DEF r
<1>10. RanKnown' /\ ApprovalsStayWithTheirCall'
  BY <1>1, <1>7, <1>9 DEF RanKnown, ApprovalsStayWithTheirCall, Begun, CallKnown
<1>11. Types'
  BY <1>1, <1>4, <1>5, <1>8, Records DEF ExecuteCall, Types
<1>12. GraphKnown(t)'
  BY <1>1, <1>3, <1>4 DEF GraphKnown, Begun
<1> QED
  BY <1>1, <1>4, <1>6, <1>10, <1>11, <1>12, OneTurnMoves

\* A decision reaches the session that is there, or waits for one, or fails.
LEMMA DecideRequestKeeps ==
  ASSUME TurnInv, NEW t \in Turns, NEW d \in {"approved", "rejected"}, DecideRequest(t, d)
  PROVE  TurnInv'
<1> DEFINE g == IF session = NoSession
                THEN [GraphOff EXCEPT !.at = "build", !.decision = d]
                ELSE IF MayResume(session.of, t) THEN Entering(session, FALSE, d) ELSE GraphOff
           q == [request[t] EXCEPT !.state = d]
           s == IF g = GraphOff THEN "failed" ELSE "resuming"
<1>1. /\ Types /\ RequestKnown(t) /\ SessionKnown /\ turnProcess.up /\ request[t].state = "pending"
      /\ request[t] \in RequestRecord /\ session \in SessionRecord
      /\ request' = [request EXCEPT ![t] = q] /\ graph' = [graph EXCEPT ![t] = g]
      /\ turn' = [turn EXCEPT ![t].state = s]
      /\ UNCHANGED <<session, checkpoint, asked, callRows, ran, policyFor, turnProcess>>
  BY DEF TurnInv, TurnKnown, Types, DecideRequest
<1>2. q \in RequestRecord /\ q.names = request[t].names
  BY <1>1 DEF RequestRecord
<1>3. g \in GraphRecord
  <2>1. GraphOff \in GraphRecord /\ Entering(session, FALSE, d) \in GraphRecord
    BY <1>1, Records, SessionFacts DEF Decision
  <2>2. [GraphOff EXCEPT !.at = "build", !.decision = d] \in GraphRecord
    BY <2>1 DEF GraphRecord, Step, Decision
  <2> QED
    BY <2>1, <2>2
<1>4. /\ Begun(t) /\ turn[t].how = "mention"
      /\ session # NoSession => session.of \in Turns /\ Begun(session.of)
  BY <1>1 DEF RequestKnown, SessionKnown
<1>5. \/ g.at = "build" /\ g.decision = d
      \/ g.at = "begin" /\ g.decision = d /\ ~g.fresh /\ g.of \in Turns /\ Begun(g.of)
      \/ g = GraphOff
  BY <1>4 DEF Entering, GraphOff
<1> HIDE DEF g, q
<1>6. Keeps /\ turn' \in [Turns -> TurnRecord] /\ Begun(t)' /\ turn'[t].how = turn[t].how
  <2>1. s \in TurnState \ {"new"}
    BY DEF TurnState
  <2> HIDE DEF s
  <2> QED
    BY <1>1, <2>1, StateMoves
<1>7. graph' \in [Turns -> GraphRecord] /\ graph'[t] = g /\ \A u \in Turns : u # t => graph'[u] = graph[u]
  BY <1>1, <1>3, GraphMoves
<1>8. /\ request' \in [Turns -> RequestRecord] /\ request'[t] = q
      /\ \A u \in Turns : u # t => request'[u] = request[u]
  BY <1>1, <1>2 DEF Types
<1>9. Types'
  BY <1>1, <1>6, <1>7, <1>8 DEF Types
<1>10. GraphKnown(t)'
  <2>1. Begun(g.of) /\ g.of \in Turns => turn'[g.of].state # "new"
    BY <1>6 DEF Keeps, Begun
  <2> QED
    BY <1>1, <1>4, <1>5, <1>6, <1>7, <2>1, OffKnown DEF GraphKnown, GraphOff, Begun
<1>11. RequestKnown(t)'
  BY <1>4, <1>6 DEF RequestKnown
<1>12. \A u \in Turns : request'[u].names = request[u].names
  BY <1>2, <1>8
<1> QED
  BY <1>1, <1>6, <1>7, <1>8, <1>9, <1>10, <1>11, <1>12, OneTurnMoves

\* The session that is rebuilt is the turn's own.
LEMMA RebuildSessionKeeps ==
  ASSUME TurnInv, NEW t \in Turns, RebuildSession(t)
  PROVE  TurnInv'
<1> DEFINE built == Built(t, turn[t].skill)
           g == Entering(built, FALSE, graph[t].decision)
<1>1. /\ Types /\ GraphKnown(t) /\ graph[t] \in GraphRecord /\ turn' = turn /\ turn[t].skill \in BOOLEAN
      /\ Begun(t) /\ turnProcess.up /\ graph[t].at = "build" /\ graph[t].decision # "none"
      /\ turn[t].how = "mention"
      /\ UNCHANGED <<request, checkpoint, asked, callRows, ran, policyFor, turnProcess>>
      /\ session' = built /\ graph' = [graph EXCEPT ![t] = g]
  BY DEF TurnInv, TurnKnown, Types, GraphKnown, RebuildSession, At, TurnRecord
<1>2. built \in SessionRecord /\ g \in GraphRecord
  BY <1>1, SessionFacts DEF GraphRecord
<1>3. built.of = t
  BY DEF Built
<1>4. g.at = "begin" /\ g.decision = graph[t].decision /\ ~g.fresh /\ g.of = t
  BY DEF Entering, Built
<1> HIDE DEF g, built
<1>5. graph' \in [Turns -> GraphRecord] /\ graph'[t] = g /\ \A u \in Turns : u # t => graph'[u] = graph[u]
  BY <1>1, <1>2, GraphMoves
<1>6. Keeps
  BY <1>1, NoMove
<1>7. Types'
  BY <1>1, <1>2, <1>5 DEF Types
<1>8. GraphKnown(t)' /\ SessionKnown'
  BY <1>1, <1>3, <1>4, <1>5 DEF GraphKnown, SessionKnown, Begun
<1> QED
  BY <1>1, <1>5, <1>6, <1>7, <1>8, OneTurnMoves

\* The end of the process takes the graphs and the session and leaves what is stored.
LEMMA EndProcessKeeps ==
  ASSUME TurnInv, EndProcess
  PROVE  TurnInv'
<1>1. /\ Types /\ TurnKnown /\ ApprovalsStayWithTheirCall
      /\ session' = NoSession /\ graph' = [t \in Turns |-> GraphOff]
      /\ UNCHANGED <<request, checkpoint, asked, callRows, ran, policyFor>>
      /\ turnProcess' = [up |-> FALSE, crashes |-> turnProcess.crashes + 1]
  BY DEF TurnInv, EndProcess
<1>2. /\ turn' \in [Turns -> TurnRecord]
      /\ \A t \in Turns : /\ Begun(t) => turn'[t].state # "new"
                          /\ turn'[t].actor = turn[t].actor /\ turn'[t].how = turn[t].how
                          /\ turn'[t].skill = turn[t].skill
  <2> DEFINE s(t) == CASE turn[t].state = "running" -> "again"
                       [] turn[t].state = "resuming" -> "failed"
                       [] OTHER -> turn[t].state
             r(t) == [turn[t] EXCEPT !.state = s(t)]
  <2>1. turn' = [t \in Turns |-> r(t)]
    BY DEF EndProcess
  <2>2. ASSUME NEW t \in Turns
        PROVE  /\ r(t) \in TurnRecord /\ (Begun(t) => r(t).state # "new")
               /\ r(t).actor = turn[t].actor /\ r(t).how = turn[t].how /\ r(t).skill = turn[t].skill
    <3>1. turn[t] \in TurnRecord
      BY <1>1 DEF Types
    <3>2. s(t) \in TurnState /\ (Begun(t) => s(t) # "new")
      BY <3>1 DEF TurnRecord, TurnState, Begun
    <3> HIDE DEF s
    <3> QED
      BY <3>1, <3>2 DEF TurnRecord
  <2> HIDE DEF r
  <2> QED
    BY <2>1, <2>2
<1>3. Keeps
  BY <1>1, <1>2 DEF Keeps, Begun
<1>4. graph' \in [Turns -> GraphRecord]
  BY <1>1, Records
<1>5. turnProcess' \in [up : BOOLEAN, crashes : Nat]
  BY <1>1 DEF Types
<1>6. Types'
  BY <1>1, <1>2, <1>4, <1>5, Records DEF Types
<1>7. ASSUME NEW t \in Turns PROVE GraphKnown(t)' /\ RequestKnown(t)'
  <2>1. graph'[t] = GraphOff /\ RequestKnown(t)
    BY <1>1 DEF TurnKnown
  <2> QED
    BY <1>1, <1>2, <2>1, OffKnown DEF RequestKnown, Begun
<1>8. CheckpointKnown'
  BY <1>1, <1>3, CheckpointStays DEF TurnKnown
<1>9. RanKnown' /\ ApprovalsStayWithTheirCall'
  BY <1>1, <1>3, RanStays DEF TurnKnown
<1> QED
  BY <1>1, <1>6, <1>7, <1>8, <1>9 DEF TurnInv, TurnKnown, SessionKnown

\* A new policy file is read when no graph runs.
LEMMA StartProcessKeeps ==
  ASSUME TurnInv, NEW effect \in Effect, StartProcess(effect)
  PROVE  TurnInv'
<1>1. /\ Types /\ TurnKnown /\ ApprovalsStayWithTheirCall /\ ~turnProcess.up
      /\ UNCHANGED <<turn, request, session, checkpoint, asked, graph, callRows, ran>>
      /\ turnProcess' = [turnProcess EXCEPT !.up = TRUE]
  BY DEF TurnInv, StartProcess
<1>2. Types'
  BY <1>1 DEF Types
<1>3. Keeps
  BY <1>1, NoMove
<1>4. ASSUME NEW t \in Turns PROVE GraphKnown(t)' /\ RequestKnown(t)'
  <2>1. graph[t].at = "off" /\ graph[t].decision = "none" /\ RequestKnown(t)
    BY <1>1 DEF TurnKnown, GraphKnown
  <2> QED
    BY <1>1, <2>1 DEF GraphKnown, RequestKnown, Begun
<1>5. CheckpointKnown'
  BY <1>1, <1>3, CheckpointStays DEF TurnKnown
<1>6. RanKnown' /\ ApprovalsStayWithTheirCall'
  BY <1>1, <1>3, RanStays DEF TurnKnown
<1> QED
  BY <1>1, <1>2, <1>4, <1>5, <1>6 DEF TurnInv, TurnKnown, SessionKnown, Begun

\* The invariant holds at the start.
LEMMA TurnInitKnown == TurnInit => TurnInv
<1> SUFFICES ASSUME TurnInit PROVE TurnInv
  OBVIOUS
<1>1. Types
  BY InitTyped
<1>2. \A t \in Turns : graph[t] = GraphOff /\ request[t].state = "none"
  BY DEF TurnInit
<1>3. \A t \in Turns : GraphKnown(t) /\ RequestKnown(t)
  BY <1>2 DEF GraphKnown, RequestKnown, GraphOff
<1> QED
  BY <1>1, <1>3 DEF TurnInit, TurnInv, TurnKnown, SessionKnown, CheckpointKnown, RanKnown, ApprovalsStayWithTheirCall

\* Every step keeps the invariant.
LEMMA TurnStepKeeps == TurnInv /\ [TurnNext]_turnVars => TurnInv'
<1> SUFFICES ASSUME TurnInv, [TurnNext]_turnVars PROVE TurnInv'
  OBVIOUS
<1>1. ASSUME NEW t \in Turns, NEW actor \in Actor, NEW how \in {"mention", "ambient"},
             NEW skill \in BOOLEAN, BeginTurn(t, actor, how, skill)
      PROVE  TurnInv'
  BY <1>1, BeginTurnKeeps
<1>2. ASSUME NEW t \in Turns, RefuseTurn(t) \/ EnterGraph(t) \/ ParkTurn(t) \/ ParkAmbient(t) \/ PassCheck(t)
      PROVE  TurnInv'
  BY <1>2, RefuseTurnKeeps, EnterGraphKeeps, ParkTurnKeeps, ParkAmbientKeeps, PassCheckKeeps
<1>3. ASSUME NEW t \in Turns, ExecuteCall(t) \/ RebuildSession(t)
      PROVE  TurnInv'
  BY <1>3, ExecuteCallKeeps, RebuildSessionKeeps
<1>4. ASSUME NEW t \in Turns, RefuseCall(t)
      PROVE  TurnInv'
  BY <1>4, TurnEnds DEF RefuseCall, Settle, TurnState
<1>5. ASSUME NEW t \in Turns, NEW cap \in PackageCaps, AskForTool(t, cap)
      PROVE  TurnInv'
  BY <1>5, AskForToolKeeps
<1>6. ASSUME NEW t \in Turns, NEW state \in Verdicts, AnswerTurn(t, state)
      PROVE  TurnInv'
  BY <1>6, TurnEnds DEF AnswerTurn, Settle, TurnState, Verdicts
<1>7. ASSUME NEW t \in Turns, NEW kept \in BOOLEAN, FailRun(t, kept) \/ FailResume(t, kept)
      PROVE  TurnInv'
  BY <1>7, TurnEnds DEF FailRun, FailResume, GraphFails, TurnState
<1>8. ASSUME NEW t \in Turns, NEW decision \in {"approved", "rejected"}, DecideRequest(t, decision)
      PROVE  TurnInv'
  BY <1>8, DecideRequestKeeps
<1>9. CASE EndProcess
  BY <1>9, EndProcessKeeps
<1>10. ASSUME NEW effect \in Effect, StartProcess(effect)
       PROVE  TurnInv'
  BY <1>10, StartProcessKeeps
<1>11. CASE UNCHANGED turnVars
  BY <1>11 DEF turnVars, TurnInv, Types, TurnKnown, SessionKnown, CheckpointKnown, RanKnown, RequestKnown, GraphKnown,
               CallKnown, Stored, Begun, Authorization, PolicySays, ApprovalsStayWithTheirCall
<1> QED
  BY <1>1, <1>2, <1>3, <1>4, <1>5, <1>6, <1>7, <1>8, <1>9, <1>10, <1>11 DEF TurnNext

\* What the turns, the checkpoint and the rows of a thread know of each other, in every thread.
THEOREM TurnKnows == TurnSpec => []TurnInv
<1>1. TurnInit => TurnInv
  BY TurnInitKnown
<1>2. TurnInv /\ [TurnNext]_turnVars => TurnInv'
  BY TurnStepKeeps
<1> QED
  BY <1>1, <1>2, PTL DEF TurnSpec

\* For any number of turns, users, calls and restarts: a guarded call of a user is carried out
\* under the request that names it.
THEOREM ApprovalsAlwaysStay == TurnSpec => []ApprovalsStayWithTheirCall
<1>1. TurnInv => ApprovalsStayWithTheirCall
  BY DEF TurnInv
<1> QED
  BY <1>1, TurnKnows, PTL

-----------------------------------------------------------------------------
(* A turn with a skill.                                                    *)

\* The turn has a skill, and one user writes in the thread.
Bounded(t) == turn[t].skill /\ OneUser(turn[t].actor)

\* A call that waits or waited in the checkpoint: its row names the skill of the turn that
\* asked for it.
SkillCall(c) ==
  Bounded(c.asker) =>
    /\ c.cap \in SkillCaps
    /\ \E row \in callRows : row.id = c.id /\ row.actor = turn[c.asker].actor /\ row.turn = c.asker /\ row.skill

\* The tools of a session are those of the turn it was built for; a graph that is past the
\* decision runs in a session of its own turn, or of one with a skill as well.
GraphBound(t) ==
  /\ graph[t].at \notin {"off", "build"} => graph[t].tools \subseteq FactoryTools(turn[graph[t].of].skill)
  /\ graph[t].at = "begin" /\ graph[t].fresh => graph[t].of = t
  /\ graph[t].at \in {"check", "execute"} /\ graph[t].decision # "none" => SkillCall(graph[t].call)
  /\ graph[t].at \in {"think", "check", "execute"} /\ graph[t].decision = "none" /\ Bounded(t) =>
       /\ turn[graph[t].of].skill
       /\ graph[t].at # "think" => graph[t].call.cap \in SkillCaps

SessionBound == session # NoSession => session.tools \subseteq FactoryTools(turn[session.of].skill)

SkillBounds ==
  /\ SessionBound /\ SkillBoundsItsTurn /\ (checkpoint # NoAsk => SkillCall(checkpoint))
  /\ \A t \in Turns : GraphBound(t)

\* A thread of one user was that before, and with the same skill.
LEMMA BoundedBefore ==
  ASSUME Keeps, NEW t \in Turns, Begun(t), Bounded(t)'
  PROVE  Bounded(t)
<1>1. /\ turn'[t].skill /\ turn'[t].skill = turn[t].skill /\ turn'[t].actor = turn[t].actor
      /\ \A u \in Turns : turn'[u].state # "new" => turn'[u].actor = turn'[t].actor
  BY DEF Keeps, Bounded, OneUser
<1>2. \A u \in Turns : turn[u].state # "new" => turn'[u].state # "new" /\ turn'[u].actor = turn[u].actor
  BY DEF Keeps, Begun
<1> QED
  BY <1>1, <1>2 DEF Bounded, OneUser

\* What a call's row says stays said.
LEMMA SkillCallStays ==
  ASSUME Keeps, NEW c \in Calls, c.asker \in Turns, Begun(c.asker), SkillCall(c)
  PROVE  SkillCall(c)'
<1>1. Bounded(c.asker)' => Bounded(c.asker)
  BY BoundedBefore
<1>2. turn'[c.asker].actor = turn[c.asker].actor /\ callRows \subseteq callRows'
  BY DEF Keeps
<1> QED
  BY <1>1, <1>2 DEF SkillCall

\* What holds of a graph that did not move.
LEMMA GraphBoundStays ==
  ASSUME TurnInv, Keeps, NEW u \in Turns, GraphBound(u), graph'[u] = graph[u]
  PROVE  GraphBound(u)'
<1>1. GraphKnown(u) /\ graph[u] \in GraphRecord /\ graph[u].call \in Calls
  BY DEF TurnInv, TurnKnown, Types, GraphRecord
<1>2. graph[u].at # "off" => Begun(u)
  BY <1>1 DEF GraphKnown
<1>3. graph[u].at \notin {"off", "build"} =>
        graph[u].of \in Turns /\ turn'[graph[u].of].skill = turn[graph[u].of].skill
  BY <1>1 DEF GraphKnown, Keeps
<1>4. graph[u].at \in {"check", "execute"} =>
        graph[u].call.asker \in Turns /\ Begun(graph[u].call.asker)
  BY <1>1 DEF GraphKnown, CallKnown
<1>5. graph[u].at \in {"check", "execute"} /\ SkillCall(graph[u].call) => SkillCall(graph[u].call)'
  <2> SUFFICES ASSUME graph[u].at \in {"check", "execute"}, SkillCall(graph[u].call)
               PROVE  SkillCall(graph[u].call)'
    OBVIOUS
  <2>1. PICK c \in Calls : c = graph[u].call
    BY <1>1
  <2>2. SkillCall(c)'
    BY <1>4, <2>1, SkillCallStays DEF SkillCall
  <2> QED
    BY <2>1, <2>2 DEF SkillCall
<1>6. Begun(u) /\ Bounded(u)' => Bounded(u)
  BY BoundedBefore
<1> QED
  BY <1>1, <1>2, <1>3, <1>4, <1>5, <1>6, Zenon DEF GraphBound

\* What is left to show for a step besides what it does to the graphs.
LEMMA SharedBounds ==
  ASSUME TurnInv, SkillBounds, Keeps, \A u \in Turns : GraphBound(u)',
         session' = session \/ SessionBound',
         checkpoint' \in {checkpoint, NoAsk} \/ SkillCall(checkpoint)',
         ran' = ran \/ SkillBoundsItsTurn'
  PROVE  SkillBounds'
<1>1. SessionBound'
  <2>1. session # NoSession => session.of \in Turns /\ turn'[session.of].skill = turn[session.of].skill
    BY DEF TurnInv, TurnKnown, SessionKnown, Keeps
  <2> QED
    BY <2>1 DEF SkillBounds, SessionBound
<1>2. checkpoint' # NoAsk => SkillCall(checkpoint)'
  <2> SUFFICES ASSUME checkpoint' # NoAsk, checkpoint' = checkpoint PROVE SkillCall(checkpoint)'
    BY DEF NoAsk
  <2>1. PICK c \in Calls : c = checkpoint
    BY DEF TurnInv, Types
  <2>2. c.asker \in Turns /\ Begun(c.asker) /\ SkillCall(c)
    BY <2>1 DEF TurnInv, TurnKnown, CheckpointKnown, SkillBounds, NoAsk, SkillCall
  <2>3. SkillCall(c)'
    BY <2>2, SkillCallStays
  <2> QED
    BY <2>1, <2>3 DEF SkillCall
<1>3. SkillBoundsItsTurn'
  <2> SUFFICES ASSUME ran' = ran PROVE SkillBoundsItsTurn'
    OBVIOUS
  <2>1. ASSUME NEW r \in ran, Bounded(r.under)' PROVE r.call.cap \in SkillCaps
    <3>1. r.under \in Turns /\ Begun(r.under)
      BY DEF TurnInv, Types, TurnKnown, RanKnown, RanRecord
    <3>2. PICK u \in Turns : u = r.under
      BY <3>1
    <3>3. Bounded(u)
      BY <2>1, <3>1, <3>2, BoundedBefore DEF Bounded, OneUser
    <3> QED
      BY <3>2, <3>3 DEF SkillBounds, SkillBoundsItsTurn, Bounded
  <2> QED
    BY <2>1 DEF SkillBoundsItsTurn, Bounded
<1> QED
  BY <1>1, <1>2, <1>3 DEF SkillBounds

\* What is left to show for a step that moves one turn.
LEMMA OneBoundMoves ==
  ASSUME TurnInv, SkillBounds, Keeps, NEW t \in Turns,
         \A u \in Turns : u # t => graph'[u] = graph[u],
         GraphBound(t)',
         session' = session \/ SessionBound',
         checkpoint' \in {checkpoint, NoAsk} \/ SkillCall(checkpoint)',
         ran' = ran \/ SkillBoundsItsTurn'
  PROVE  SkillBounds'
<1>1. \A u \in Turns : GraphBound(u)'
  BY GraphBoundStays DEF SkillBounds
<1> QED
  BY <1>1, SharedBounds

\* A graph that is over or still to be built is bound by nothing.
LEMMA IdleBound ==
  ASSUME NEW t \in Turns, graph'[t].at \in {"off", "build"}
  PROVE  GraphBound(t)'
BY DEF GraphBound

\* Behind a check of the row, a graph that resumed in the thread of one user has its turn's own
\* call, and a session with the skill that the call was asked for with.
LEMMA RowTells ==
  ASSUME TurnInv, SkillBounds, NEW t \in Turns, graph[t].at \in {"check", "execute"},
         ~Conflict(t, graph[t].call.id), Bounded(t)
  PROVE  turn[graph[t].of].skill /\ graph[t].call.cap \in SkillCaps
<1> DEFINE c == graph[t].call
<1>1. GraphKnown(t) /\ GraphBound(t) /\ CallKnown(t) /\ graph[t] \in GraphRecord
  BY DEF TurnInv, TurnKnown, Types, SkillBounds, GraphKnown
<1>2. CASE graph[t].decision = "none"
  BY <1>1, <1>2 DEF GraphBound
<1>3. CASE graph[t].decision # "none"
  <2>1. c.asker \in Turns /\ Begun(c.asker) /\ Stored(c) /\ SkillCall(c)
    BY <1>1, <1>3 DEF CallKnown, GraphBound
  <2>2. turn[c.asker].actor = turn[t].actor
    BY <2>1 DEF Bounded, OneUser, Begun
  <2>3. PICK row \in callRows : row.id = c.id /\ row.actor = turn[c.asker].actor /\ row.turn = c.asker
    BY <2>1 DEF Stored
  <2>4. SameIdentity(row, t)
    BY <2>2, <2>3 DEF Conflict, Rows, Identity
  <2>5. c.asker = t
    BY <2>3, <2>4 DEF SameIdentity, Identity
  <2>6. /\ c.cap \in SkillCaps
        /\ \E r \in callRows : r.id = c.id /\ r.actor = turn[c.asker].actor /\ r.turn = c.asker /\ r.skill
    BY <2>1, <2>5 DEF SkillCall
  <2>7. PICK r \in callRows : r.id = c.id /\ r.actor = turn[t].actor /\ r.skill
    BY <2>5, <2>6
  <2>8. SameIdentity(r, t)
    BY <2>7 DEF Conflict, Rows, Identity
  <2> QED
    BY <2>6, <2>7, <2>8 DEF SameIdentity
<1> QED
  BY <1>2, <1>3

\* Turns that have begun keep author, invocation and skill, and rows are only added.
LEMMA AlwaysKeeps ==
  ASSUME TurnInv, [TurnNext]_turnVars
  PROVE  Keeps
<1>1. Types
  BY DEF TurnInv
<1>2. \A t \in Turns : \A id : callRows \subseteq Prepared(t, id)
  BY DEF Prepared
<1>3. ASSUME NEW t \in Turns, NEW actor \in Actor, NEW how \in {"mention", "ambient"},
             NEW skill \in BOOLEAN, BeginTurn(t, actor, how, skill)
      PROVE  Keeps
  <2> DEFINE r == [state |-> "running", actor |-> actor, how |-> how, skill |-> skill]
  <2>1. turn' = [turn EXCEPT ![t] = r] /\ callRows' = callRows
    BY <1>3 DEF BeginTurn
  <2>2. r.state = "running" /\ r.actor = actor /\ r.how = how /\ r.skill = skill
    OBVIOUS
  <2>3. Begun(t) => actor = turn[t].actor /\ how = turn[t].how /\ skill = turn[t].skill
    BY <1>3 DEF BeginTurn, MayBegin, Begun
  <2> HIDE DEF r
  <2> QED
    BY <1>1, <2>1, <2>2, <2>3 DEF Types, Keeps, Begun
<1>4. ASSUME NEW t \in Turns, NEW s \in TurnState \ {"new"}, turn' = [turn EXCEPT ![t].state = s],
             callRows \subseteq callRows'
      PROVE  Keeps
  BY <1>1, <1>4, StateMoves
<1>5. ASSUME NEW t \in Turns, RefuseTurn(t) \/ ParkTurn(t) \/ ParkAmbient(t) \/ RefuseCall(t)
      PROVE  Keeps
  <2>1. PICK s \in TurnState \ {"new"} : turn' = [turn EXCEPT ![t].state = s] /\ callRows \subseteq callRows'
    BY <1>2, <1>5 DEF RefuseTurn, ParkTurn, ParkAmbient, RefuseCall, Settle, Interrupts, TurnState
  <2> QED
    BY <1>4, <2>1
<1>6. ASSUME NEW t \in Turns, NEW state \in Verdicts, AnswerTurn(t, state)
      PROVE  Keeps
  <2>1. turn' = [turn EXCEPT ![t].state = state] /\ callRows' = callRows /\ state \in TurnState \ {"new"}
    BY <1>6 DEF AnswerTurn, Settle, Verdicts, TurnState
  <2> QED
    BY <1>4, <2>1
<1>7. ASSUME NEW t \in Turns, NEW kept \in BOOLEAN, FailRun(t, kept) \/ FailResume(t, kept)
      PROVE  Keeps
  <2>1. turn' = [turn EXCEPT ![t].state = "failed"] /\ callRows' = callRows /\ "failed" \in TurnState \ {"new"}
    BY <1>7 DEF FailRun, FailResume, GraphFails, TurnState
  <2> QED
    BY <1>4, <2>1
<1>8. ASSUME NEW t \in Turns, NEW decision \in {"approved", "rejected"}, DecideRequest(t, decision)
      PROVE  Keeps
  <2>1. PICK s \in {"failed", "resuming"} : turn' = [turn EXCEPT ![t].state = s]
    BY <1>8 DEF DecideRequest
  <2>2. callRows' = callRows /\ s \in TurnState \ {"new"}
    BY <1>8 DEF DecideRequest, TurnState
  <2> QED
    BY <1>4, <2>1, <2>2
<1>9. ASSUME NEW t \in Turns, EnterGraph(t)
      PROVE  Keeps
  <2>1. callRows' = callRows /\ (turn' = turn \/ turn' = [turn EXCEPT ![t].state = "answered"])
    BY <1>9 DEF EnterGraph, Settle
  <2>2. "answered" \in TurnState \ {"new"}
    BY DEF TurnState
  <2> QED
    BY <1>4, <2>1, <2>2, NoMove
<1>10. ASSUME UNCHANGED turn, callRows \subseteq callRows'
       PROVE  Keeps
  BY <1>10, NoMove
<1>11. ASSUME NEW t \in Turns, PassCheck(t) \/ ExecuteCall(t) \/ RebuildSession(t)
       PROVE  Keeps
  <2>1. turn' = turn /\ \E id : callRows' \in {callRows, Prepared(t, id)}
    BY <1>11, Zenon DEF PassCheck, ExecuteCall, RebuildSession
  <2> QED
    BY <1>2, <1>10, <2>1
<1>12. ASSUME NEW t \in Turns, NEW cap \in PackageCaps, AskForTool(t, cap)
       PROVE  Keeps
  BY <1>10, <1>12 DEF AskForTool
<1>13. CASE EndProcess
  <2> DEFINE s(t) == CASE turn[t].state = "running" -> "again"
                       [] turn[t].state = "resuming" -> "failed"
                       [] OTHER -> turn[t].state
             r(t) == [turn[t] EXCEPT !.state = s(t)]
  <2>1. turn' = [t \in Turns |-> r(t)] /\ callRows' = callRows
    BY <1>13 DEF EndProcess
  <2>2. ASSUME NEW t \in Turns
        PROVE  /\ (Begun(t) => r(t).state # "new")
               /\ r(t).actor = turn[t].actor /\ r(t).how = turn[t].how /\ r(t).skill = turn[t].skill
    <3>1. turn[t] \in TurnRecord
      BY <1>1 DEF Types
    <3>2. Begun(t) => s(t) # "new"
      BY DEF Begun
    <3> HIDE DEF s
    <3> QED
      BY <3>1, <3>2 DEF TurnRecord
  <2> HIDE DEF r
  <2> QED
    BY <2>1, <2>2 DEF Keeps, Begun
<1>14. ASSUME NEW effect \in Effect, StartProcess(effect)
       PROVE  Keeps
  BY <1>10, <1>14 DEF StartProcess
<1>15. CASE UNCHANGED turnVars
  BY <1>10, <1>15 DEF turnVars
<1> QED
  BY <1>3, <1>5, <1>6, <1>7, <1>8, <1>9, <1>11, <1>12, <1>13, <1>14, <1>15 DEF TurnNext

\* A step after which the turn's graph is over, or waits for its session.
LEMMA IdleKeepsBounds ==
  ASSUME TurnInv, SkillBounds, Keeps, NEW t \in Turns, NEW g \in GraphRecord, g.at \in {"off", "build"},
         graph' = [graph EXCEPT ![t] = g], session' \in {session, NoSession},
         checkpoint' \in {checkpoint, NoAsk}, ran' = ran
  PROVE  SkillBounds'
<1>1. graph'[t] = g /\ \A u \in Turns : u # t => graph'[u] = graph[u]
  BY GraphMoves DEF TurnInv
<1>2. SessionBound' \/ session' = session
  BY DEF SessionBound
<1> QED
  BY <1>1, <1>2, IdleBound, OneBoundMoves

\* A turn begins with the tools of its own skill.
LEMMA BeginBounds ==
  ASSUME TurnInv, SkillBounds, Keeps, NEW t \in Turns, NEW actor \in Actor, NEW how \in {"mention", "ambient"},
         NEW skill \in BOOLEAN, BeginTurn(t, actor, how, skill)
  PROVE  SkillBounds'
<1> DEFINE built == Built(t, skill)
           g == Entering(built, TRUE, "none")
<1>1. /\ session' = built /\ graph' = [graph EXCEPT ![t] = g] /\ UNCHANGED <<checkpoint, ran>>
      /\ turn' = [turn EXCEPT ![t] = [state |-> "running", actor |-> actor, how |-> how, skill |-> skill]]
      /\ Types
  BY DEF BeginTurn, TurnInv
<1>2. turn'[t].skill = skill
  BY <1>1 DEF Types
<1>3. built.of = t /\ built.tools = FactoryTools(skill)
  BY DEF Built
<1>4. g \in GraphRecord
  BY SessionFacts DEF Decision
<1>5. g.at = "begin" /\ g.of = t /\ g.tools = FactoryTools(skill) /\ g.decision = "none"
  BY <1>3 DEF Entering
<1> HIDE DEF built, g
<1>6. graph'[t] = g /\ \A u \in Turns : u # t => graph'[u] = graph[u]
  BY <1>1, <1>4, GraphMoves
<1>7. GraphBound(t)'
  <2>1. FactoryTools(turn[t].skill)' = FactoryTools(skill)
    BY <1>2 DEF FactoryTools
  <2> QED
    BY <1>5, <1>6, <2>1 DEF GraphBound
<1>8. SessionBound'
  BY <1>1, <1>2, <1>3 DEF SessionBound, FactoryTools
<1> QED
  BY <1>1, <1>6, <1>7, <1>8, OneBoundMoves

\* A resume takes the call of the checkpoint with what its row says.
LEMMA EnterBounds ==
  ASSUME TurnInv, SkillBounds, Keeps, NEW t \in Turns, EnterGraph(t)
  PROVE  SkillBounds'
<1>1. /\ Types /\ GraphKnown(t) /\ GraphBound(t) /\ graph[t] \in GraphRecord /\ checkpoint \in Calls /\ Begun(t)
      /\ graph[t].at = "begin" /\ graph[t].of \in Turns /\ Begun(graph[t].of) /\ UNCHANGED <<ran, callRows>>
  BY DEF TurnInv, TurnKnown, Types, GraphKnown, EnterGraph, At, SkillBounds
<1>2. CASE graph[t].fresh
  <2>1. PICK g \in GraphRecord : g = [graph[t] EXCEPT !.at = "think"]
    BY <1>1, Records DEF Step
  <2>2. g.at = "think" /\ g.of = t /\ g.tools = graph[t].tools /\ g.decision = "none"
    BY <1>1, <1>2, <2>1 DEF GraphRecord, GraphBound, GraphKnown
  <2>3. graph' = [graph EXCEPT ![t] = g] /\ UNCHANGED <<turn, session>> /\ checkpoint' = NoAsk
    BY <1>2, <2>1 DEF EnterGraph
  <2>4. graph'[t] = g /\ \A u \in Turns : u # t => graph'[u] = graph[u]
    BY <1>1, <2>3, GraphMoves
  <2>5. graph[t].of = t
    BY <1>1, <1>2 DEF GraphBound
  <2>6. GraphBound(t)'
    BY <1>1, <2>2, <2>3, <2>4, <2>5 DEF GraphBound, Bounded
  <2> QED
    BY <1>1, <2>3, <2>4, <2>6, OneBoundMoves
<1>3. CASE ~graph[t].fresh /\ checkpoint = NoAsk
  <2>1. GraphOff \in GraphRecord /\ GraphOff.at = "off"
    BY Records DEF GraphOff
  <2>2. graph' = [graph EXCEPT ![t] = GraphOff] /\ session' = NoSession /\ checkpoint' = checkpoint
    BY <1>3 DEF EnterGraph, Settle
  <2> QED
    BY <1>1, <2>1, <2>2, IdleKeepsBounds
<1>4. CASE ~graph[t].fresh /\ checkpoint # NoAsk
  <2>1. PICK g \in GraphRecord : g = [graph[t] EXCEPT !.at = "check", !.call = checkpoint]
    BY <1>1 DEF GraphRecord, Step
  <2>2. /\ g.at = "check" /\ g.of = graph[t].of /\ g.tools = graph[t].tools /\ g.decision # "none"
        /\ g.call = checkpoint
    BY <1>1, <1>4, <2>1 DEF GraphRecord, GraphKnown
  <2>3. graph' = [graph EXCEPT ![t] = g] /\ UNCHANGED <<turn, session, checkpoint>>
    BY <1>4, <2>1 DEF EnterGraph
  <2>4. graph'[t] = g /\ \A u \in Turns : u # t => graph'[u] = graph[u]
    BY <1>1, <2>3, GraphMoves
  <2>5. SkillCall(checkpoint)
    BY <1>4 DEF SkillBounds
  <2>6. SkillCall(graph[t].call)'
    BY <1>1, <2>2, <2>3, <2>4, <2>5 DEF SkillCall, Bounded, OneUser
  <2>7. GraphBound(t)'
    BY <1>1, <2>2, <2>3, <2>4, <2>6 DEF GraphBound
  <2> QED
    BY <1>1, <2>3, <2>4, <2>7, OneBoundMoves
<1> QED
  BY <1>2, <1>3, <1>4

\* The model of a turn with a skill can ask for the skill's tools only.
LEMMA AskBounds ==
  ASSUME TurnInv, SkillBounds, Keeps, NEW t \in Turns, NEW cap \in PackageCaps, AskForTool(t, cap)
  PROVE  SkillBounds'
<1> DEFINE c == [id |-> asked + 1, cap |-> cap, asker |-> t]
<1>1. /\ Types /\ GraphKnown(t) /\ GraphBound(t) /\ graph[t] \in GraphRecord
      /\ graph[t].at = "think" /\ cap \in graph[t].tools /\ graph[t].decision = "none"
      /\ UNCHANGED <<turn, session, checkpoint, ran>> /\ asked \in 0..MaxCalls /\ asked < MaxCalls
      /\ graph' = [graph EXCEPT ![t].at = "check", ![t].call = c]
  BY DEF TurnInv, TurnKnown, Types, GraphKnown, AskForTool, At, SkillBounds
<1>2. c \in Calls /\ c.cap = cap
  BY <1>1, Consts DEF Calls
<1> HIDE DEF c
<1>3. PICK g \in GraphRecord : g = [graph[t] EXCEPT !.at = "check", !.call = c]
  BY <1>1, <1>2 DEF GraphRecord, Step
<1>4. /\ g.at = "check" /\ g.of = graph[t].of /\ g.tools = graph[t].tools /\ g.decision = "none"
      /\ g.call = c
  BY <1>1, <1>2, <1>3 DEF GraphRecord
<1>5. graph' = [graph EXCEPT ![t] = g]
  BY <1>1, <1>3 DEF Types
<1>6. graph'[t] = g /\ \A u \in Turns : u # t => graph'[u] = graph[u]
  BY <1>1, <1>5, GraphMoves
<1>7. Bounded(t) => turn[graph[t].of].skill /\ cap \in SkillCaps
  BY <1>1 DEF GraphBound, FactoryTools
<1>8. Bounded(t)' = Bounded(t) /\ turn' = turn
  BY <1>1 DEF Bounded, OneUser
<1>9. GraphBound(t)'
  BY <1>1, <1>2, <1>4, <1>6, <1>7, <1>8 DEF GraphBound
<1> QED
  BY <1>1, <1>6, <1>9, OneBoundMoves

\* The row of a call that parks names the skill of the turn that asked for it.
LEMMA ParkBounds ==
  ASSUME TurnInv, SkillBounds, Keeps, NEW t \in Turns, Interrupts(t),
         NEW s \in TurnState \ {"new"}, turn' = [turn EXCEPT ![t].state = s], UNCHANGED <<session, ran>>
  PROVE  SkillBounds'
<1>1. /\ Types /\ GraphKnown(t) /\ CallKnown(t) /\ graph[t] \in GraphRecord /\ Begun(t)
      /\ graph[t].at = "check" /\ graph[t].decision = "none" /\ ~Conflict(t, graph[t].call.id)
      /\ callRows' = Prepared(t, graph[t].call.id) /\ checkpoint' = graph[t].call
      /\ graph' = [graph EXCEPT ![t] = GraphOff]
  BY DEF TurnInv, TurnKnown, Types, GraphKnown, Interrupts, At
<1>2. PICK c \in Calls : c = graph[t].call
  BY <1>1 DEF GraphRecord
<1>3. c.asker = t
  BY <1>1, <1>2 DEF CallKnown
<1>4. \E row \in callRows' : row.id = c.id /\ row.actor = turn[t].actor /\ row.turn = t
                             /\ (Bounded(t) => row.skill)
  <2>1. Bounded(t) => turn[graph[t].of].skill
    BY <1>1, RowTells
  <2>2. CASE Rows(t, c.id) # {}
    <3>1. PICK row \in Rows(t, c.id) : TRUE
      BY <2>2
    <3>2. row \in callRows /\ row.id = c.id /\ row.actor = turn[t].actor /\ SameIdentity(row, t)
      BY <1>1, <1>2, <3>1 DEF Conflict, Rows, Identity
    <3> QED
      BY <1>1, <1>2, <2>1, <2>2, <3>2 DEF Prepared, SameIdentity, Identity
  <2>3. CASE Rows(t, c.id) = {}
    <3> DEFINE n == [id |-> c.id, actor |-> turn[t].actor, turn |-> t, skill |-> turn[graph[t].of].skill]
    <3>1. n \in callRows'
      BY <1>1, <1>2, <2>3 DEF Prepared, Identity
    <3>2. n.id = c.id /\ n.actor = turn[t].actor /\ n.turn = t /\ n.skill = turn[graph[t].of].skill
      OBVIOUS
    <3> HIDE DEF n
    <3> QED
      BY <2>1, <3>1, <3>2
  <2> QED
    BY <2>2, <2>3
<1>5. Bounded(t) => c.cap \in SkillCaps
  BY <1>1, <1>2, RowTells
<1>6. Bounded(t)' => Bounded(t) /\ turn'[t].actor = turn[t].actor
  BY <1>1, BoundedBefore DEF Keeps
<1>7. SkillCall(c)'
  BY <1>3, <1>4, <1>5, <1>6 DEF SkillCall
<1>8. SkillCall(checkpoint)'
  BY <1>1, <1>2, <1>7 DEF SkillCall
<1>9. GraphOff \in GraphRecord /\ GraphOff.at = "off"
  BY Records DEF GraphOff
<1>10. graph'[t] = GraphOff /\ \A u \in Turns : u # t => graph'[u] = graph[u]
  BY <1>1, <1>9, GraphMoves
<1>11. GraphBound(t)'
  BY <1>9, <1>10, IdleBound
<1> QED
  BY <1>8, <1>10, <1>11, OneBoundMoves

\* A rejection uses the decision up behind a check of the row; otherwise the call is unchanged.
LEMMA PassBounds ==
  ASSUME TurnInv, SkillBounds, Keeps, NEW t \in Turns, PassCheck(t)
  PROVE  SkillBounds'
<1> DEFINE c == graph[t].call
           needed == Authorization(c.cap) = "approve"
           rejected == needed /\ graph[t].decision = "rejected"
<1>1. /\ Types /\ GraphKnown(t) /\ CallKnown(t) /\ GraphBound(t) /\ graph[t] \in GraphRecord
      /\ graph[t].at = "check" /\ c \in Calls /\ c.asker \in Turns /\ Begun(c.asker)
      /\ UNCHANGED <<turn, session, checkpoint, ran>>
  BY DEF TurnInv, TurnKnown, Types, GraphKnown, CallKnown, PassCheck, At, SkillBounds, GraphRecord
<1>2. Bounded(t)' = Bounded(t) /\ turn' = turn
  BY <1>1 DEF Bounded, OneUser
<1>3. CASE rejected
  <2>1. ~Conflict(t, c.id) /\ graph' = [graph EXCEPT ![t].at = "think", ![t].decision = "none"]
    BY <1>3 DEF PassCheck
  <2>2. PICK g \in GraphRecord : g = [graph[t] EXCEPT !.at = "think", !.decision = "none"]
    BY <1>1 DEF GraphRecord, Step, Decision
  <2>3. g.at = "think" /\ g.of = graph[t].of /\ g.tools = graph[t].tools /\ g.decision = "none"
    BY <1>1, <2>2 DEF GraphRecord
  <2>4. graph' = [graph EXCEPT ![t] = g]
    BY <1>1, <2>1, <2>2 DEF Types
  <2>5. graph'[t] = g /\ \A u \in Turns : u # t => graph'[u] = graph[u]
    BY <1>1, <2>4, GraphMoves
  <2>6. Bounded(t) => turn[graph[t].of].skill
    BY <1>1, <2>1, RowTells
  <2>7. GraphBound(t)'
    BY <1>1, <1>2, <2>3, <2>5, <2>6 DEF GraphBound
  <2> QED
    BY <1>1, <2>5, <2>7, OneBoundMoves
<1>4. CASE ~rejected
  <2>1. graph' = [graph EXCEPT ![t].at = "execute"] /\ callRows' = callRows
    BY <1>4 DEF PassCheck
  <2>2. PICK g \in GraphRecord : g = [graph[t] EXCEPT !.at = "execute"]
    BY <1>1 DEF GraphRecord, Step
  <2>3. /\ g.at = "execute" /\ g.of = graph[t].of /\ g.tools = graph[t].tools
        /\ g.decision = graph[t].decision /\ g.call = c
    BY <1>1, <2>2 DEF GraphRecord
  <2>4. graph' = [graph EXCEPT ![t] = g]
    BY <1>1, <2>1, <2>2 DEF Types
  <2>5. graph'[t] = g /\ \A u \in Turns : u # t => graph'[u] = graph[u]
    BY <1>1, <2>4, GraphMoves
  <2>6. SkillCall(c) => SkillCall(graph[t].call)'
    BY <1>1, <2>1, <2>3, <2>5 DEF SkillCall, Bounded, OneUser
  <2>7. GraphBound(t)'
    BY <1>1, <1>2, <2>3, <2>5, <2>6 DEF GraphBound
  <2> QED
    BY <1>1, <2>5, <2>7, OneBoundMoves
<1> QED
  BY <1>3, <1>4

\* What is carried out was asked for with the skill.
LEMMA ExecuteBounds ==
  ASSUME TurnInv, SkillBounds, Keeps, NEW t \in Turns, ExecuteCall(t)
  PROVE  SkillBounds'
<1>1. /\ Types /\ GraphBound(t) /\ graph[t] \in GraphRecord
      /\ graph[t].at = "execute" /\ ~Conflict(t, graph[t].call.id)
      /\ UNCHANGED <<turn, session>> /\ checkpoint' = NoAsk
      /\ graph' = [graph EXCEPT ![t].at = "think", ![t].decision = "none", ![t].call = NoAsk]
      /\ ran' \subseteq ran \cup {Carried(t)}
  BY DEF TurnInv, TurnKnown, Types, ExecuteCall, At, SkillBounds
<1>2. Bounded(t) => turn[graph[t].of].skill /\ graph[t].call.cap \in SkillCaps
  BY <1>1, RowTells
<1>3. Bounded(t)' = Bounded(t) /\ turn' = turn
  BY <1>1 DEF Bounded, OneUser
<1>4. PICK g \in GraphRecord : g = [graph[t] EXCEPT !.at = "think", !.decision = "none", !.call = NoAsk]
  <2>1. NoAsk \in Calls
    BY Records
  <2> QED
    BY <1>1, <2>1 DEF GraphRecord, Step, Decision
<1>5. g.at = "think" /\ g.of = graph[t].of /\ g.tools = graph[t].tools /\ g.decision = "none"
  BY <1>1, <1>4 DEF GraphRecord
<1>6. graph' = [graph EXCEPT ![t] = g]
  BY <1>1, <1>4 DEF Types
<1>7. graph'[t] = g /\ \A u \in Turns : u # t => graph'[u] = graph[u]
  BY <1>1, <1>6, GraphMoves
<1>8. GraphBound(t)'
  BY <1>1, <1>2, <1>3, <1>5, <1>7 DEF GraphBound
<1>9. SkillBoundsItsTurn'
  <2>1. Carried(t).under = t /\ Carried(t).call = graph[t].call
    BY DEF Carried
  <2>2. \A r \in ran' : turn[r.under].skill /\ OneUser(turn[r.under].actor) => r.call.cap \in SkillCaps
    BY <1>1, <1>2, <2>1 DEF SkillBounds, SkillBoundsItsTurn, Bounded
  <2> QED
    BY <1>3, <2>2 DEF SkillBoundsItsTurn, OneUser
<1> QED
  BY <1>1, <1>7, <1>8, <1>9, OneBoundMoves

\* A resume gets the session that is there with the tools it was built with, or its own.
LEMMA DecideBounds ==
  ASSUME TurnInv, SkillBounds, Keeps, NEW t \in Turns, NEW d \in {"approved", "rejected"}, DecideRequest(t, d)
  PROVE  SkillBounds'
<1> DEFINE g == IF session = NoSession
                THEN [GraphOff EXCEPT !.at = "build", !.decision = d]
                ELSE IF MayResume(session.of, t) THEN Entering(session, FALSE, d) ELSE GraphOff
<1>1. /\ Types /\ SessionKnown /\ session \in SessionRecord
      /\ graph' = [graph EXCEPT ![t] = g] /\ UNCHANGED <<session, checkpoint, ran>>
  BY DEF TurnInv, TurnKnown, Types, DecideRequest
<1>2. g \in GraphRecord
  <2>1. GraphOff \in GraphRecord /\ Entering(session, FALSE, d) \in GraphRecord
    BY <1>1, Records, SessionFacts DEF Decision
  <2>2. [GraphOff EXCEPT !.at = "build", !.decision = d] \in GraphRecord
    BY <2>1 DEF GraphRecord, Step, Decision
  <2> QED
    BY <2>1, <2>2
<1>3. \/ g.at \in {"off", "build"}
      \/ /\ session # NoSession
         /\ g.at = "begin" /\ g.decision = d /\ ~g.fresh /\ g.of = session.of /\ g.tools = session.tools
  BY DEF Entering, GraphOff
<1> HIDE DEF g
<1>4. graph'[t] = g /\ \A u \in Turns : u # t => graph'[u] = graph[u]
  BY <1>1, <1>2, GraphMoves
<1>5. session # NoSession => turn'[session.of].skill = turn[session.of].skill
  BY <1>1 DEF SessionKnown, Keeps
<1>6. GraphBound(t)'
  BY <1>3, <1>4, <1>5 DEF GraphBound, SkillBounds, SessionBound
<1> QED
  BY <1>1, <1>4, <1>6, OneBoundMoves

\* A session rebuilt after a restart belongs to the turn that is resumed and has the tools of
\* its skill (_restore_runtime_snapshot, _build_session).
LEMMA RebuildBounds ==
  ASSUME TurnInv, SkillBounds, Keeps, NEW t \in Turns, RebuildSession(t)
  PROVE  SkillBounds'
<1> DEFINE built == Built(t, turn[t].skill)
           g == Entering(built, FALSE, graph[t].decision)
<1>1. /\ Types /\ GraphKnown(t) /\ graph[t] \in GraphRecord /\ turn[t].skill \in BOOLEAN
      /\ graph[t].at = "build" /\ UNCHANGED <<turn, checkpoint, ran>>
      /\ session' = built /\ graph' = [graph EXCEPT ![t] = g]
  BY DEF TurnInv, TurnKnown, Types, RebuildSession, At, TurnRecord
<1>2. g \in GraphRecord
  BY <1>1, SessionFacts DEF GraphRecord
<1>3. built.of = t /\ built.tools = FactoryTools(turn[t].skill)
  BY DEF Built
<1>4. g.at = "begin" /\ ~g.fresh /\ g.of = t /\ g.tools = FactoryTools(turn[t].skill)
  BY <1>3 DEF Entering
<1> HIDE DEF g, built
<1>5. graph'[t] = g /\ \A u \in Turns : u # t => graph'[u] = graph[u]
  BY <1>1, <1>2, GraphMoves
<1>6. GraphBound(t)' /\ SessionBound'
  BY <1>1, <1>3, <1>4, <1>5 DEF GraphBound, SessionBound
<1> QED
  BY <1>1, <1>5, <1>6, OneBoundMoves

\* A step that moves no turn's graph, or ends all of them.
LEMMA OthersKeepBounds ==
  ASSUME TurnInv, SkillBounds, Keeps, session' \in {session, NoSession},
         UNCHANGED <<checkpoint, ran>>, graph' \in {graph, [t \in Turns |-> GraphOff]}
  PROVE  SkillBounds'
<1>1. ASSUME NEW u \in Turns PROVE GraphBound(u)'
  <2>1. CASE graph' = graph
    BY <2>1, GraphBoundStays DEF SkillBounds
  <2>2. CASE graph' = [t \in Turns |-> GraphOff]
    <3>1. graph'[u].at = "off"
      BY <2>2 DEF GraphOff
    <3> QED
      BY <3>1, IdleBound
  <2> QED
    BY <2>1, <2>2
<1>2. session' = session \/ SessionBound'
  BY DEF SessionBound
<1> QED
  BY <1>1, <1>2, SharedBounds

\* Every step keeps the bounds.
LEMMA SkillBoundsStep ==
  ASSUME TurnInv, SkillBounds, [TurnNext]_turnVars
  PROVE  SkillBounds'
<1>0. Keeps
  BY AlwaysKeeps
<1>a. GraphOff \in GraphRecord /\ GraphOff.at = "off"
  BY Records DEF GraphOff
<1>1. ASSUME NEW t \in Turns, NEW actor \in Actor, NEW how \in {"mention", "ambient"},
             NEW skill \in BOOLEAN, BeginTurn(t, actor, how, skill)
      PROVE  SkillBounds'
  BY <1>0, <1>1, BeginBounds
<1>2. ASSUME NEW t \in Turns, RefuseTurn(t)
      PROVE  SkillBounds'
  BY <1>0, <1>2, OthersKeepBounds DEF RefuseTurn
<1>3. ASSUME NEW t \in Turns, ParkTurn(t) \/ ParkAmbient(t)
      PROVE  SkillBounds'
  <2>1. PICK s \in TurnState \ {"new"} : turn' = [turn EXCEPT ![t].state = s]
    BY <1>3 DEF ParkTurn, ParkAmbient, TurnState
  <2> QED
    BY <1>0, <1>3, <2>1, ParkBounds DEF ParkTurn, ParkAmbient
<1>4. ASSUME NEW t \in Turns, EnterGraph(t) \/ PassCheck(t) \/ ExecuteCall(t) \/ RebuildSession(t)
      PROVE  SkillBounds'
  BY <1>0, <1>4, EnterBounds, PassBounds, ExecuteBounds, RebuildBounds
<1>5. ASSUME NEW t \in Turns, RefuseCall(t)
      PROVE  SkillBounds'
  BY <1>0, <1>a, <1>5, IdleKeepsBounds DEF RefuseCall, Settle
<1>6. ASSUME NEW t \in Turns, NEW cap \in PackageCaps, AskForTool(t, cap)
      PROVE  SkillBounds'
  BY <1>0, <1>6, AskBounds
<1>7. ASSUME NEW t \in Turns, NEW state \in Verdicts, AnswerTurn(t, state)
      PROVE  SkillBounds'
  BY <1>0, <1>a, <1>7, IdleKeepsBounds DEF AnswerTurn, Settle
<1>8. ASSUME NEW t \in Turns, NEW kept \in BOOLEAN, FailRun(t, kept) \/ FailResume(t, kept)
      PROVE  SkillBounds'
  BY <1>0, <1>a, <1>8, IdleKeepsBounds DEF FailRun, FailResume, GraphFails
<1>9. ASSUME NEW t \in Turns, NEW decision \in {"approved", "rejected"}, DecideRequest(t, decision)
      PROVE  SkillBounds'
  BY <1>0, <1>9, DecideBounds
<1>10. CASE EndProcess
  BY <1>0, <1>10, OthersKeepBounds DEF EndProcess
<1>11. ASSUME NEW effect \in Effect, StartProcess(effect)
       PROVE  SkillBounds'
  BY <1>0, <1>11, OthersKeepBounds DEF StartProcess
<1>12. CASE UNCHANGED turnVars
  BY <1>0, <1>12, OthersKeepBounds DEF turnVars
<1> QED
  BY <1>1, <1>2, <1>3, <1>4, <1>5, <1>6, <1>7, <1>8, <1>9, <1>10, <1>11, <1>12 DEF TurnNext

\* For any number of turns, calls and restarts: in the thread of one user a turn with a skill
\* uses no capability outside the skill, whichever session it is resumed in.
THEOREM SkillsBoundTurns == TurnSpec => []SkillBoundsItsTurn
<1>1. ASSUME TurnInit PROVE SkillBounds
  <2>1. \A t \in Turns : graph[t].at = "off"
    BY <1>1 DEF TurnInit, GraphOff
  <2> QED
    BY <1>1, <2>1 DEF TurnInit, SkillBounds, SessionBound, SkillBoundsItsTurn, GraphBound
<1>2. TurnInv /\ SkillBounds /\ [TurnNext]_turnVars => SkillBounds'
  BY SkillBoundsStep
<1>3. SkillBounds => SkillBoundsItsTurn
  BY DEF SkillBounds
<1> QED
  BY <1>1, <1>2, <1>3, TurnKnows, PTL DEF TurnSpec

=============================================================================
