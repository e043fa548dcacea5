------------------------------ MODULE Selection ------------------------------
(***************************************************************************)
(* Who answers a message and with what (src/mmag/agent_system/core.py,       *)
(* skill_packages/resolver.py, skill_packages/personal.py,                   *)
(* application/agent_requests.py): the router picks an agent, the resolver   *)
(* one of the agent's Skills, and a personal Skill of the user may be laid    *)
(* over it.                                                                  *)
(*                                                                           *)
(* The choice itself is one step without an await.  What it reads changes     *)
(* around it: the user fixes a personal Skill to run by a message that then  *)
(* waits for its turn, while he activates and archives revisions and the     *)
(* process restarts with other packages or without one of its tool servers.  *)
(*                                                                           *)
(* Names are numbers in their alphabetical order; the text of a message is   *)
(* the set of keywords found in it.                                          *)
(***************************************************************************)
EXTENDS Integers, FiniteSets

CONSTANTS
  Agent,        \* agents, by name
  Skill,        \* Skills, by ref
  Overlay,      \* revisions of personal Skills, the later one with the larger number
  Likings,      \* what preferences may name: sets of agents and Skills
  User, Word, Tool,
  Release,      \* sets of packages a process may find
  AgentCard,    \* [Release -> [Agent -> descriptor, and the Skills its package allows]]
  SkillCard,    \* [Skill -> manifest]
  OverlayCard,  \* [Overlay -> what its row says apart from the status]
  Deployment,   \* sets of tools that may be registered, with the tool servers that answered
  MinutesWord, MinutesAgent, MinutesSkill,   \* _meeting_parameters: triggers, "report", "meeting"
  Nil

ASSUME SelectionAssumption ==
  /\ Agent \subseteq Nat /\ Skill \subseteq Nat /\ Overlay \subseteq Nat
  /\ MinutesAgent \in Agent /\ MinutesSkill \in Skill /\ MinutesWord \subseteq Word
  /\ Agent \cap Skill = {} /\ Nil \notin Agent \cup Skill \cup Overlay
  /\ IsFiniteSet(Agent) /\ IsFiniteSet(Skill) /\ IsFiniteSet(Word)
  /\ \A r \in Release, a \in Agent : AgentCard[r][a].priority \in Int /\ AgentCard[r][a].skills \subseteq Skill
  /\ \A s \in Skill : SkillCard[s].priority \in Int
  /\ \A o \in Overlay : OverlayCard[o].base \in Skill
  /\ Deployment \subseteq SUBSET Tool

VARIABLES
  release,   \* the packages the process has loaded, Nil when it is down
  deployed,  \* the tools that are registered
  status,    \* [Overlay -> state of the row] (durable)
  message,   \* the message whose turn comes next (durable, in the Inbox)
  choice     \* what the last message was answered with

selectionVars == <<release, deployed, status, message, choice>>

NoMessage == [how |-> "none"]
NoChoice == [outcome |-> "none", agent |-> Nil, skill |-> Nil, overlay |-> Nil, tools |-> {}]
Chosen(agent, skill, overlay, tools) ==
  [outcome |-> "served", agent |-> agent, skill |-> skill, overlay |-> overlay, tools |-> tools]

-----------------------------------------------------------------------------
(* The registry of agents.                                                 *)

Signature(card) == <<card.default, card.priority, card.intents, card.words, card.url, card.places>>

\* register() for every package: one default, and no two that are routed alike.
Registers(r) ==
  /\ Cardinality({a \in Agent : AgentCard[r][a].default}) = 1
  /\ \A a, b \in Agent : a # b => Signature(AgentCard[r][a]) # Signature(AgentCard[r][b])

CardOf(a) == AgentCard[release][a]
DefaultAgent == CHOOSE a \in Agent : CardOf(a).default

-----------------------------------------------------------------------------
(* The request.                                                            *)

\* build_agent_request: a mention that asks for the minutes of a meeting names agent and Skill.
Request(m) ==
  IF m.how = "mention" /\ m.words \cap MinutesWord # {}
  THEN [intent |-> "meeting", agent |-> MinutesAgent, skill |-> MinutesSkill]
  ELSE [intent |-> m.how, agent |-> Nil, skill |-> Nil]

\* PersonalSkillResolver.requested with _identity: his own, active, in his direct channel.
MayRun(m, o) == m.place = "personal" /\ OverlayCard[o].owner = m.user /\ status[o] = "active"

\* prepare_personal_request: a personal Skill that was asked for says who answers, with what.
Prepared(m) ==
  IF m.asked = Nil THEN Request(m)
  ELSE [Request(m) EXCEPT !.agent = OverlayCard[m.asked].agent, !.skill = OverlayCard[m.asked].base]

-----------------------------------------------------------------------------
(* AgentRouter.                                                            *)

ExactFor(card, r) == r.intent \in card.intents
Hits(card, m) == Cardinality(card.words \cap m.words)

\* _hard_constraints: scopes and budget.  Packages need no permission, requests of people no
\* particular capability, and every agent is healthy.
MayServe(a, m) == m.place \in CardOf(a).places

MatchesRoute(a, m, r) ==
  IF r.agent # Nil THEN a = r.agent
  ELSE /\ CardOf(a).url => m.url
       /\ CardOf(a).default \/ ExactFor(CardOf(a), r) \/ Hits(CardOf(a), m) > 0

Eligible(m, r) == {a \in Agent : MayServe(a, m) /\ MatchesRoute(a, m, r)}

One(condition) == IF condition THEN 1 ELSE 0

\* Tuples compare from the left.
Below(s, t) == \E i \in DOMAIN s : s[i] < t[i] /\ \A j \in DOMAIN s : j < i => s[j] = t[j]
Best(S, score(_)) == CHOOSE x \in S : \A y \in S \ {x} : Below(score(y), score(x))

Specialized(a, m, r) == ~CardOf(a).default /\ (ExactFor(CardOf(a), r) \/ Hits(CardOf(a), m) > 0)

\* _score.  A mutant looks at the user's likings first.
LikedFirst(a, m, r) ==
  <<One(a \in m.likes \/ a = r.agent), One(Specialized(a, m, r)), CardOf(a).priority,
    One(ExactFor(CardOf(a), r)), Hits(CardOf(a), m), a>>
AgentScore(a, m, r) ==
  <<One(Specialized(a, m, r)), One(a \in m.likes \/ a = r.agent), CardOf(a).priority,
    One(ExactFor(CardOf(a), r)), Hits(CardOf(a), m), a>>

Routed(m, r) == Best(Eligible(m, r), LAMBDA a : AgentScore(a, m, r))

\* The intent the agent is run with: its first one when it does not accept the request's.
Accepted(a, r) == IF ExactFor(CardOf(a), r) THEN r.intent ELSE CardOf(a).first

-----------------------------------------------------------------------------
(* SkillResolver.                                                          *)

Allowed(a) == CardOf(a).skills

\* The intent a Skill is activated by is the message's; a mutant takes the selected agent's.
SelectedIntent(a, r) == Accepted(a, r)
ActivatingIntent(a, r) == r.intent

Triggered(s, a, m, r) ==
  ActivatingIntent(a, r) \in SkillCard[s].intents \/ Hits(SkillCard[s], m) > 0

\* Asked for by name, or activated.
SkillsFor(a, m, r) ==
  IF r.skill # Nil THEN Allowed(a) \cap {r.skill} ELSE {s \in Allowed(a) : Triggered(s, a, m, r)}

SkillScore(s, m, r) ==
  <<One(s \in m.likes), SkillCard[s].priority, One(ExactFor(SkillCard[s], r)), Hits(SkillCard[s], m), s>>

BestSkill(S, m, r) == IF S = {} THEN Nil ELSE Best(S, LAMBDA s : SkillScore(s, m, r))

\* The input schema of a Skill is checked when it is resolved and again when the agent runs.
\* That of the minutes wants the intent and the range that only such a message has.
MeetsContract(s, a, r) ==
  SkillCard[s].strict => {r.intent, Accepted(a, r)} \subseteq SkillCard[s].intents

\* _invocation: every required tool, and of the optional ones those the agent and the process
\* have.  A mutant forgets the agent's allowlist.
SkillTools(s) == SkillCard[s].required \cup SkillCard[s].optional
ToolsDeployed(s, a) == SkillTools(s) \cap deployed
Effective(s, a) == SkillTools(s) \cap CardOf(a).tools \cap deployed
Usable(s, a) == SkillCard[s].required \subseteq CardOf(a).tools \cap deployed

-----------------------------------------------------------------------------
(* PersonalSkillResolver, with the Skill s of agent a.                     *)

\* _binding_matches.  A mutant takes any that is active.
BindsAny(o, a, s) == TRUE
Binds(o, a, s) == OverlayCard[o].base = s /\ OverlayCard[o].agent \in {Nil, a}

PersonalScore(o, m, r) ==
  10 * One(r.intent \in OverlayCard[o].intents) + Cardinality(OverlayCard[o].words \cap m.words)

\* resolve without a request: what activates itself, and the best one if it is alone.
SelfActivating(m, a, s, r) ==
  {o \in Overlay : MayRun(m, o) /\ OverlayCard[o].auto /\ Binds(o, a, s) /\ PersonalScore(o, m, r) > 0}
Foremost(S, m, r) == {o \in S : \A p \in S \ {o} : PersonalScore(p, m, r) < PersonalScore(o, m, r)}

Overlays(m, a, s, r) ==
  IF m.asked # Nil THEN {o \in {m.asked} : MayRun(m, o) /\ Binds(o, a, s)}
  ELSE LET S == Foremost(SelfActivating(m, a, s, r), m, r) IN IF S = {} THEN {Nil} ELSE S

-----------------------------------------------------------------------------
(* A message is served.                                                    *)

\* The default agent answers a message that is no mention whatever it says.
Messages ==
  {m \in [how : {"mention", "chat", "persona"}, user : User, place : {"personal", "channel"},
          words : SUBSET Word, url : BOOLEAN, likes : Likings, asked : Overlay \cup {Nil}] :
     /\ m.how = "chat" => m.place = "channel"
     /\ m.how # "mention" => m.words = {} /\ ~m.url /\ m.likes = {}
     /\ m.place = "channel" => m.likes = {} /\ m.asked = Nil
     /\ m.asked # Nil => OverlayCard[m.asked].owner = m.user}

\* consume_message: a session that was opened for an active revision names the personal Skill
\* to run; then the message waits for the answers to other questions, and after a crash for
\* the next start.
Receive(m) ==
  /\ release # Nil /\ message = NoMessage
  /\ m.asked # Nil => status[m.asked] # "draft"
  /\ message' = m /\ choice' = NoChoice
  /\ UNCHANGED <<release, deployed, status>>

Served(c) ==
  /\ choice' = c /\ message' = NoMessage
  /\ UNCHANGED <<release, deployed, status>>

Without(outcome) == Served([NoChoice EXCEPT !.outcome = outcome])

\* What the agent's factory gives a turn without a Skill.
PackageTools(a) == CardOf(a).tools \cap deployed

Denied(m) == m.asked # Nil /\ ~MayRun(m, m.asked)

\* decide_and_respond, and respond for a persona: the default agent, without a Skill.  The
\* factory takes the tools of the package also for a persona.
AnswerByDefault(m) ==
  /\ m.how # "mention" /\ ~Denied(m)
  /\ IF MayServe(DefaultAgent, m)
     THEN Served(Chosen(DefaultAgent, Nil, Nil, PackageTools(DefaultAgent)))
     ELSE Without("raised")

\* LookupError passes the handlers of respond and fails the event.
NobodyServes(m) ==
  /\ m.how = "mention" /\ ~Denied(m) /\ Eligible(m, Prepared(m)) = {}
  /\ Without("raised")

\* _resolve_skill: without Skills in the package nothing is resolved, not even what was asked for.
AnswerWithoutSkill(m, a, r) ==
  /\ Allowed(a) = {} \/ (r.skill = Nil /\ SkillsFor(a, m, r) = {})
  /\ Served(Chosen(a, Nil, Nil, PackageTools(a)))

Fitting(s, m, a, r) == Usable(s, a) /\ MeetsContract(s, a, r) /\ Overlays(m, a, s, r) # {}

AnswerWithSkill(m, a, r) ==
  /\ SkillsFor(a, m, r) # {}
  /\ LET s == BestSkill(SkillsFor(a, m, r), m, r) IN
       /\ Fitting(s, m, a, r)
       /\ \E o \in Overlays(m, a, s, r) : Served(Chosen(a, s, o, Effective(s, a)))

\* SkillResolutionError and SkillContractError are answered by an error.
RefuseSkill(m, a, r) ==
  /\ Allowed(a) # {}
  /\ IF SkillsFor(a, m, r) = {} THEN r.skill # Nil
     ELSE ~Fitting(BestSkill(SkillsFor(a, m, r), m, r), m, a, r)
  /\ Without("refused")

Serve ==
  /\ release # Nil /\ message # NoMessage
  /\ \/ AnswerByDefault(message) \/ NobodyServes(message)
     \/ Denied(message) /\ Without("refused")
     \/ /\ message.how = "mention" /\ ~Denied(message)
        /\ LET r == Prepared(message) IN
             /\ Eligible(message, r) # {}
             /\ LET a == Routed(message, r) IN
                  AnswerWithoutSkill(message, a, r) \/ AnswerWithSkill(message, a, r) \/ RefuseSkill(message, a, r)

-----------------------------------------------------------------------------
(* What changes around it.                                                 *)

\* activate(): another revision that was active is archived.  A mutant leaves it.
ActiveToo(o) == [status EXCEPT ![o] = "active"]
ActiveAlone(o) ==
  [p \in Overlay |->
     CASE p = o -> "active"
       [] p # o /\ OverlayCard[p].id = OverlayCard[o].id /\ status[p] = "active" -> "archived"
       [] OTHER -> status[p]]

ActivateOverlay(o) ==
  /\ release # Nil
  /\ status' = ActiveAlone(o)
  /\ UNCHANGED <<release, deployed, message, choice>>

ArchiveOverlay(o) ==
  /\ release # Nil
  /\ status' = [status EXCEPT ![o] = "archived"]
  /\ UNCHANGED <<release, deployed, message, choice>>

\* Packages that do not register end the start.
StartWith(r, tools) ==
  /\ release = Nil /\ Registers(r)
  /\ release' = r /\ deployed' = tools
  /\ UNCHANGED <<status, message, choice>>

StopSelecting ==
  /\ release # Nil
  /\ release' = Nil /\ deployed' = {}
  /\ UNCHANGED <<status, message, choice>>

SelectionInit ==
  /\ release = Nil /\ deployed = {}
  /\ status = [o \in Overlay |-> "draft"]
  /\ message = NoMessage /\ choice = NoChoice

SelectionNext ==
  \/ Serve \/ StopSelecting
  \/ \E m \in Messages : Receive(m)
  \/ \E o \in Overlay : ActivateOverlay(o) \/ ArchiveOverlay(o)
  \/ \E r \in Release, tools \in Deployment : StartWith(r, tools)

SelectionSpec == SelectionInit /\ [][SelectionNext]_selectionVars
-----------------------------------------------------------------------------
\* Types; one revision of a personal Skill is active, on which the ranking of those that
\* activate themselves relies (skill_packages/personal.py:50).
SelectionTypeOK ==
  /\ release \in Release \cup {Nil} /\ deployed \subseteq Tool
  /\ status \in [Overlay -> {"draft", "active", "archived"}]
  /\ \A o, p \in Overlay :
       status[o] = "active" /\ status[p] = "active" /\ OverlayCard[o].id = OverlayCard[p].id => o = p
  /\ choice.outcome \in {"none", "served", "refused", "raised"}
  /\ choice.agent \in Agent \cup {Nil} /\ choice.skill \in Skill \cup {Nil}
  /\ choice.overlay \in Overlay \cup {Nil} /\ choice.tools \subseteq Tool

-----------------------------------------------------------------------------
(* What an answer has to be.                                               *)

\* A personal Skill is laid over an answer only in the direct channel of its owner, while it is
\* active, and over the Skill and agent it was made for; who asked for one is answered with it.
\* Exempt is an agent that has no Skills any more: it answers without it, where
\* docs/SKILL_PACKAGES.md:92 promises a refusal (application/agent_requests.py:627).
OverlayFits ==
  /\ choice'.overlay # Nil =>
       LET card == OverlayCard[choice'.overlay] IN
       /\ status[choice'.overlay] = "active"
       /\ message.place = "personal" /\ card.owner = message.user
       /\ card.base = choice'.skill /\ card.agent \in {Nil, choice'.agent}
  /\ message.how = "mention" /\ message.asked # Nil /\ Allowed(choice'.agent) # {} =>
       choice'.overlay = message.asked

\* A Skill never widens what its agent may use, has all it needs, and brings nothing of its
\* own; a personal one changes no tool (skill_packages/resolver.py:158).
ToolsStayNarrow ==
  /\ choice'.tools \subseteq CardOf(choice'.agent).tools \cap deployed
  /\ choice'.skill # Nil =>
       /\ SkillCard[choice'.skill].required \subseteq choice'.tools
       /\ choice'.tools \subseteq SkillTools(choice'.skill)

\* What a user prefers ranks what his message reaches and reaches nothing itself: the same
\* message without preferences is not sent to the default agent when this one goes to a
\* specialist, nor the other way round (agent_system/core.py:238).
PreferencesOnlyRank ==
  message.how = "mention" =>
    LET plain == [message EXCEPT !.likes = {}]
        usual == Routed(plain, Prepared(plain))
    IN /\ choice'.agent \in Eligible(plain, Prepared(plain))
       /\ CardOf(choice'.agent).default <=> CardOf(usual).default

\* A Skill is activated by what the user wrote, never because the agent that was chosen for
\* other words is run with an intent of its own (the comment at agent_requests.py:133).
SkillFollowsTheMessage ==
  choice'.skill # Nil =>
    LET r == Prepared(message) IN
    \/ r.skill = choice'.skill
    \/ r.intent \in SkillCard[choice'.skill].intents
    \/ SkillCard[choice'.skill].words \cap message.words # {}

\* Agent, Skill, personal Skill and tools of an answer fit each other, the packages of the
\* process that answers and the message, although the message may have been written before a
\* revision was archived or other packages were loaded.
AnswersFit ==
  [][message # NoMessage /\ message' = NoMessage /\ choice'.outcome = "served" =>
       OverlayFits /\ ToolsStayNarrow /\ PreferencesOnlyRank /\ SkillFollowsTheMessage]_selectionVars
=============================================================================
