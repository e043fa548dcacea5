--------------------------------- MODULE Turn ---------------------------------
(***************************************************************************)
(* The turns of one Mattermost thread through an agent                       *)
(* (src/mmag/application/agent_requests.py, agent_packages/runtime.py,       *)
(* agent_packages/factory.py, runtimes/deepagents.py,                        *)
(* control_plane/langgraph_approval.py).                                     *)
(*                                                                           *)
(* The conversation worker answers the messages of a thread one at a time.   *)
(* A turn whose model asks for a guarded capability parks: the worker goes   *)
(* on to the next message, and the turn is resumed when its request is       *)
(* decided, beside whatever the worker does then.  All turns of a thread     *)
(* share one run id, hence one graph checkpoint and one session in memory.   *)
(* What keeps them apart is the session's owner, checked on resume, and the  *)
(* identity of the row of each capability call.                              *)
(*                                                                           *)
(* The graph itself is LangGraph's: new input drops a pending interrupt, a   *)
(* resume continues whatever interrupt the checkpoint holds and re-executes  *)
(* the node that raised it.  A call that succeeded is replayed from its row  *)
(* when a graph re-executes a tool that suspended; module Delegation has the *)
(* only tool that does, and here calls do not suspend.                       *)
(***************************************************************************)
EXTENDS Naturals

CONSTANTS
  MaxTurns,        \* bound: turns of the thread, numbered in the order of their messages
  Actor,           \* users who write in the thread
  MaxCalls,        \* tool calls one thread may ask for (thread_limit, over all its turns)
  MaxTurnCrashes   \* bound on process ends

ASSUME TurnAssumption == {MaxTurns, MaxCalls, MaxTurnCrashes} \subseteq Nat

VARIABLES
  place,       \* "personal" or "channel": the kind of the thread's scope
  turn,        \* [Turns -> state, author, invocation, and whether a skill was activated]
  listed,      \* [Turns -> capabilities recorded as the turn's tool projection]
  request,     \* [Turns -> the turn's approval request: its state and the call it names]
  session,     \* _sessions[thread]: whose request the session in memory was built for
  checkpoint,  \* the thread's pending interrupt (durable)
  asked,       \* tool calls asked for in the thread so far
  graph,       \* [Turns -> the graph run that is under way for the turn]
  callRows,    \* capability_call rows
  ran,         \* history: capability calls carried out
  policyFor,   \* what the policy in force says of "save_knowledge"
  turnProcess  \* [up, crashes]

turnVars == <<place, turn, listed, request, session, checkpoint, asked, graph, callRows, ran,
              policyFor, turnProcess>>

Turns == 1..MaxTurns
PackageCaps == {"get_user_profile", "search_knowledge", "save_knowledge"}
SkillCaps == {"save_knowledge"}
TurnState == {"new", "again", "running", "waiting", "resuming", "answered", "failed", "unasked"}
Effect == {"allow", "approve", "deny"}

NoAsk == [id |-> 0, cap |-> "none", asker |-> 0]
NoSession == [of |-> 0, tools |-> {}]
GraphOff == [at |-> "off", fresh |-> FALSE, call |-> NoAsk, decision |-> "none", of |-> 0,
             tools |-> {}]
Calls == [id : 0..MaxCalls, cap : PackageCaps \cup {"none"}, asker : 0..MaxTurns]

-----------------------------------------------------------------------------
(* What a turn may use.                                                    *)

\* _effective_capabilities, narrowed for shared scopes by respond and decide_and_respond.
\* An answer for a persona, for which the list is empty, is not a turn of this module.
Listed(p, skill) ==
  (IF skill THEN SkillCaps ELSE PackageCaps) \ (IF p = "channel" THEN {"get_user_profile"} ELSE {})

\* The request factory of the agent takes the names of the skill or of the package again, and
\* not those of the request that was prepared.
\* A mutant gives every turn all of the package's.
ToolsOfPackage(skill) == PackageCaps
FactoryTools(skill) == IF skill THEN SkillCaps ELSE PackageCaps

\* SkillResolver: a skill of the package is asked for by name, or activated by the intent or a
\* keyword, or there is none.  An ambient message has no skill.
SkillChoices(how) == IF how = "ambient" THEN {FALSE} ELSE BOOLEAN

\* PolicyEngine: the first rule that matches.
PolicySays(cap) == IF cap = "save_knowledge" THEN policyFor ELSE "allow"

\* RegistryPolicyAuthorizer: the allowlist is the package's, with or without a skill.
Authorization(cap) == IF cap \in PackageCaps THEN PolicySays(cap) ELSE "deny"

\* The context that is bound while a graph runs, for a new turn and for a resume.
Identity(t) == [actor |-> turn[t].actor, turn |-> t]

\* _build_session: the graph and its tools for one request.
Built(t, skill) == [of |-> t, tools |-> FactoryTools(skill)]

\* run() and resume() of a session: its tools; a resume brings the decision.
Entering(s, fresh, decision) ==
  [at |-> "begin", fresh |-> fresh, call |-> NoAsk, decision |-> decision, of |-> s.of, tools |-> s.tools]

\* _assert_identity: the execution key holds the author and the tool call's id; the rest of the
\* trusted identity must be the row's.  The skill named is that of the session's request.
\* A mutant forgets the turn.
SameSkillIsEnough(row, t) == row.skill = turn[graph[t].of].skill
SameIdentity(row, t) == row.turn = Identity(t).turn /\ row.skill = turn[graph[t].of].skill

Rows(t, id) == {row \in callRows : row.id = id /\ row.actor = Identity(t).actor}
Conflict(t, id) == \E row \in Rows(t, id) : ~SameIdentity(row, t)

\* _prepare_capability_call, create_or_get: the row of the call, made if there is none.
Prepared(t, id) ==
  IF Rows(t, id) # {} THEN callRows
  ELSE callRows \cup {[id |-> id, actor |-> Identity(t).actor, turn |-> Identity(t).turn,
                      skill |-> turn[graph[t].of].skill]}

-----------------------------------------------------------------------------
(* A message arrives, and the worker answers it.                           *)

\* The worker takes the next message when the one before is answered or parked.
MayBegin(t) ==
  /\ turnProcess.up /\ turn[t].state \in {"new", "again"}
  /\ \A s \in 1..t - 1 : turn[s].state \notin {"new", "again", "running"}

\* respond: a route, perhaps a skill, the recorded projection, the session of the thread.  A
\* message that is delivered again is routed as it was.
BeginTurn(t, actor, how, skill) ==
  /\ MayBegin(t)
  /\ skill \in SkillChoices(how)
  /\ place = "personal" => actor = turn[t].actor
  /\ turn[t].state = "again" => <<actor, how, skill>> = <<turn[t].actor, turn[t].how, turn[t].skill>>
  /\ LET built == Built(t, skill) IN
     /\ turn' = [turn EXCEPT ![t] = [state |-> "running", actor |-> actor, how |-> how, skill |-> skill]]
     /\ listed' = [listed EXCEPT ![t] = Listed(place, skill)]
     /\ session' = built
     /\ graph' = [graph EXCEPT ![t] = Entering(built, TRUE, "none")]
  /\ UNCHANGED <<place, request, checkpoint, asked, callRows, ran, policyFor, turnProcess>>

\* No agent, no skill, a contract the input breaks: answered by an error, nothing ran.
RefuseTurn(t) ==
  /\ MayBegin(t)
  /\ turn' = [turn EXCEPT ![t].state = "failed"]
  /\ UNCHANGED <<place, listed, request, session, checkpoint, asked, graph, callRows, ran, policyFor,
                 turnProcess>>

-----------------------------------------------------------------------------
(* The graph.                                                              *)

At(t, at) == turnProcess.up /\ graph[t].at = at

\* _to_result for a state without an interrupt: the session of the thread goes, and with it the
\* workspace, whichever turn it was built for.
Settle(t, state) ==
  /\ turn' = [turn EXCEPT ![t].state = state]
  /\ graph' = [graph EXCEPT ![t] = GraphOff]
  /\ session' = NoSession

\* The checkpoint is read.  A resume that finds no interrupt ends with the last answer of the
\* thread, which is another turn's.
EnterGraph(t) ==
  /\ At(t, "begin")
  /\ IF graph[t].fresh
     THEN /\ checkpoint' = NoAsk
          /\ graph' = [graph EXCEPT ![t].at = "think"]
          /\ UNCHANGED <<turn, session>>
     ELSE /\ IF checkpoint = NoAsk
             THEN Settle(t, "answered")
             ELSE /\ graph' = [graph EXCEPT ![t].at = "check", ![t].call = checkpoint]
                  /\ UNCHANGED <<turn, session>>
          /\ UNCHANGED checkpoint
  /\ UNCHANGED <<place, listed, request, asked, callRows, ran, policyFor, turnProcess>>

\* The model asks for one of the tools the graph was built with, within the thread's limit.
AskForTool(t, cap) ==
  /\ At(t, "think") /\ cap \in graph[t].tools /\ asked < MaxCalls
  /\ asked' = asked + 1
  /\ graph' = [graph EXCEPT ![t].at = "check",
                            ![t].call = [id |-> asked + 1, cap |-> cap, asker |-> t]]
  /\ UNCHANGED <<place, turn, listed, request, session, checkpoint, callRows, ran, policyFor, turnProcess>>

\* The contracts of the package and of the skill, and the budget, accept the answer of a run or
\* not; that of a resume is not looked at.
Verdicts == {"answered", "failed"}

\* The model ends with a text.
AnswerTurn(t, state) ==
  /\ At(t, "think") /\ state \in Verdicts /\ (state = "failed" => graph[t].fresh)
  /\ Settle(t, state)
  /\ checkpoint' = NoAsk
  /\ UNCHANGED <<place, listed, request, asked, callRows, ran, policyFor, turnProcess>>

\* Limits, models and tools raise; the turn ends and the checkpoint stays as it is.
GraphFails(t, kept) ==
  /\ turn' = [turn EXCEPT ![t].state = "failed"]
  /\ graph' = [graph EXCEPT ![t] = GraphOff]
  /\ session' = IF kept THEN session ELSE NoSession
  /\ UNCHANGED <<place, listed, request, checkpoint, asked, callRows, ran, policyFor, turnProcess>>

\* A run that reaches its deadline is cancelled, which leaves the session; others drop it.
FailRun(t, cancelled) ==
  /\ turnProcess.up /\ graph[t].at # "off" /\ graph[t].fresh
  /\ GraphFails(t, cancelled)

\* An AgentRuntimeError is passed on with the session left, others drop it.
FailResume(t, runtimeError) ==
  /\ turnProcess.up /\ graph[t].at \notin {"off", "build"} /\ ~graph[t].fresh
  /\ GraphFails(t, runtimeError)

\* _interrupt_rules: the policy wants an approval, and no decision came with this run.  The row
\* waits, the checkpoint keeps the interrupt.
Interrupts(t) ==
  LET c == graph[t].call IN
  /\ At(t, "check")
  /\ Authorization(c.cap) = "approve" /\ graph[t].decision = "none"
  /\ ~Conflict(t, c.id)
  /\ callRows' = Prepared(t, c.id)
  /\ checkpoint' = c
  /\ graph' = [graph EXCEPT ![t] = GraphOff]

\* respond, and the service that resumed the turn, register a request.
ParkTurn(t) ==
  /\ Interrupts(t) /\ turn[t].how = "mention"
  /\ turn' = [turn EXCEPT ![t].state = "waiting"]
  /\ request' = [request EXCEPT ![t] = [state |-> "pending", names |-> graph[t].call.id]]
  /\ UNCHANGED <<place, listed, session, asked, ran, policyFor, turnProcess>>

\* decide_and_respond takes the empty text of a parked turn for silence: nobody is asked.
ParkAmbient(t) ==
  /\ Interrupts(t) /\ turn[t].how = "ambient"
  /\ turn' = [turn EXCEPT ![t].state = "unasked"]
  /\ UNCHANGED <<place, listed, request, session, asked, ran, policyFor, turnProcess>>

\* The node that raised the interrupt runs again and finds the decision; or the policy wants no
\* approval (any more), and the decision is not looked at.  A rejection is told to the model and
\* is used up by that.  (The guarded capability is among the tools of every session.)
PassCheck(t) ==
  LET c == graph[t].call
      needed == Authorization(c.cap) = "approve"
      rejected == needed /\ graph[t].decision = "rejected"
  IN
  /\ At(t, "check")
  /\ needed => graph[t].decision # "none" /\ ~Conflict(t, c.id)
  /\ graph' = IF rejected THEN [graph EXCEPT ![t].at = "think", ![t].decision = "none"]
              ELSE [graph EXCEPT ![t].at = "execute"]
  /\ callRows' = IF rejected THEN Prepared(t, c.id) ELSE callRows
  /\ UNCHANGED <<place, turn, listed, request, session, checkpoint, asked, ran, policyFor, turnProcess>>

\* CapabilityCallConflictError, wherever the row is looked up.
RefuseCall(t) ==
  /\ turnProcess.up /\ graph[t].at \in {"check", "execute"}
  /\ Conflict(t, graph[t].call.id)
  /\ Settle(t, "failed")
  /\ UNCHANGED <<place, listed, request, checkpoint, asked, callRows, ran, policyFor, turnProcess>>

\* The handler is called: with the decision of the request, if the graph got one.
Carried(t) ==
  [call |-> graph[t].call, under |-> t, guarded |-> Authorization(graph[t].call.cap) = "approve",
   names |-> IF graph[t].decision = "approved" THEN request[t].names ELSE 0]

\* _tool: the row, the policy once more, then the handler; at this point only DENY blocks.  The
\* states of the row are module Lifecycle's.
ExecuteCall(t) ==
  LET c == graph[t].call IN
  /\ At(t, "execute") /\ ~Conflict(t, c.id)
  /\ callRows' = Prepared(t, c.id)
  /\ ran' = IF Authorization(c.cap) = "deny" THEN ran ELSE ran \cup {Carried(t)}
  /\ checkpoint' = NoAsk
  /\ graph' = [graph EXCEPT ![t].at = "think", ![t].decision = "none", ![t].call = NoAsk]
  /\ UNCHANGED <<place, turn, listed, request, session, asked, policyFor, turnProcess>>

-----------------------------------------------------------------------------
(* Resumption.                                                             *)

\* _verify_resume_access: the owner of the session's request is the turn's author.
MayResume(of, t) == turn[of].actor = turn[t].actor

\* resume of the approval coordinator up to the runtime's lookup of the session; the checks on
\* who decides are module Approval's.  Without a session one is built, which may wait.
DecideRequest(t, decision) ==
  /\ turnProcess.up /\ request[t].state = "pending"
  /\ request' = [request EXCEPT ![t].state = decision]
  /\ LET next == IF session = NoSession
                 THEN [GraphOff EXCEPT !.at = "build", !.decision = decision]
                 ELSE IF MayResume(session.of, t) THEN Entering(session, FALSE, decision) ELSE GraphOff
     IN
     /\ graph' = [graph EXCEPT ![t] = next]
     /\ turn' = [turn EXCEPT ![t].state = IF next = GraphOff THEN "failed" ELSE "resuming"]
  /\ UNCHANGED <<place, listed, session, checkpoint, asked, callRows, ran, policyFor, turnProcess>>

\* _restore_runtime_snapshot, _build_session: the turn's own request, so that the check on the
\* owner holds whatever the checkpoint has by now.
RebuildSession(t) ==
  LET built == Built(t, turn[t].skill) IN
  /\ At(t, "build")
  /\ session' = built
  /\ graph' = [graph EXCEPT ![t] = Entering(built, FALSE, graph[t].decision)]
  /\ UNCHANGED <<place, turn, listed, request, checkpoint, asked, callRows, ran, policyFor, turnProcess>>

-----------------------------------------------------------------------------
(* The process ends: messages under way are delivered again, a resume is not.  The process that
   starts next may have a newer policy file.                               *)

EndProcess ==
  /\ turnProcess.up /\ turnProcess.crashes < MaxTurnCrashes
  /\ turnProcess' = [up |-> FALSE, crashes |-> turnProcess.crashes + 1]
  /\ session' = NoSession
  /\ graph' = [t \in Turns |-> GraphOff]
  /\ turn' = [t \in Turns |-> [turn[t] EXCEPT !.state = CASE @ = "running" -> "again"
                                                          [] @ = "resuming" -> "failed"
                                                          [] OTHER -> @]]
  /\ UNCHANGED <<place, listed, request, checkpoint, asked, callRows, ran, policyFor>>

StartProcess(effect) ==
  /\ ~turnProcess.up
  /\ turnProcess' = [turnProcess EXCEPT !.up = TRUE]
  /\ policyFor' = effect
  /\ UNCHANGED <<place, turn, listed, request, session, checkpoint, asked, graph, callRows, ran>>

-----------------------------------------------------------------------------
TurnInit ==
  /\ place \in {"personal", "channel"}
  /\ \E author \in Actor :
       turn = [t \in Turns |-> [state |-> "new", actor |-> author, how |-> "mention", skill |-> FALSE]]
  /\ listed = [t \in Turns |-> {}]
  /\ request = [t \in Turns |-> [state |-> "none", names |-> 0]]
  /\ session = NoSession
  /\ checkpoint = NoAsk
  /\ asked = 0
  /\ graph = [t \in Turns |-> GraphOff]
  /\ callRows = {} /\ ran = {}
  /\ policyFor = "approve"
  /\ turnProcess = [up |-> TRUE, crashes |-> 0]

TurnNext ==
  \/ \E t \in Turns :
       \/ \E actor \in Actor, how \in {"mention", "ambient"}, skill \in BOOLEAN :
            BeginTurn(t, actor, how, skill)
       \/ RefuseTurn(t) \/ EnterGraph(t) \/ ParkTurn(t) \/ ParkAmbient(t) \/ PassCheck(t) \/ RefuseCall(t)
       \/ ExecuteCall(t) \/ RebuildSession(t)
       \/ \E cap \in PackageCaps : AskForTool(t, cap)
       \/ \E state \in Verdicts : AnswerTurn(t, state)
       \/ \E kept \in BOOLEAN : FailRun(t, kept) \/ FailResume(t, kept)
       \/ \E decision \in {"approved", "rejected"} : DecideRequest(t, decision)
  \/ EndProcess
  \/ \E effect \in Effect : StartProcess(effect)

TurnSpec == TurnInit /\ [][TurnNext]_turnVars

-----------------------------------------------------------------------------
TurnTypeOK ==
  /\ \A t \in Turns : turn[t].state \in TurnState /\ turn[t].actor \in Actor /\ turn[t].skill \in BOOLEAN
  /\ listed \in [Turns -> SUBSET PackageCaps]
  /\ request \in [Turns -> [state : {"none", "pending", "approved", "rejected"}, names : 0..MaxCalls]]
  /\ session.of \in 0..MaxTurns /\ session.tools \subseteq PackageCaps
  /\ checkpoint \in Calls
  /\ \A t \in Turns : graph[t].call \in Calls

\* A guarded call of a user is carried out under the approval of the request that names it,
\* although the turns of a thread share their checkpoint, any of them may have been interrupted,
\* lost or overtaken, and a resume says only "approved" (deepagents.py resume; capability_calls.py
\* _assert_identity).  It is not claimed between users: the row is found by its author, and the
\* session's owner vouches for nothing once the session was rebuilt from the request's own
\* snapshot, or when a later turn parks before the resumed graph has read the checkpoint.
ApprovalsStayWithTheirCall ==
  \A r \in ran : r.guarded /\ turn[r.call.asker].actor = turn[r.under].actor => r.call.id = r.names

\* As long as one user writes in the thread, a turn with a skill uses no capability outside the
\* skill, although the policy's allowlist is the whole package's and a resume may run with the
\* session, and the tools, of a later turn (factory.py _request_factory, capability_calls.py
\* _assert_identity).  With a second user and three turns it is not so: his parked call in the
\* checkpoint has no row of the first user, so that nothing stops a resume in another turn's
\* session, which goes on with that turn's tools.
OneUser(a) == \A t \in Turns : turn[t].state # "new" => turn[t].actor = a
SkillBoundsItsTurn ==
  \A r \in ran : turn[r.under].skill /\ OneUser(turn[r.under].actor) => r.call.cap \in SkillCaps

\* docs/adr/0010-mattermost-identity-scope-isolation.md:19: in a shared scope the capability
\* that reads a user's profile is not projected to the model.
SharedTurnsSeeNoProfile ==
  place = "channel" => \A t \in Turns : graph[t].at # "off" => "get_user_profile" \notin graph[t].tools
=============================================================================
