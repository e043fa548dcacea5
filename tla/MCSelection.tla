----------------------------- MODULE MCSelection -----------------------------
(***************************************************************************)
(* A small set of packages for Selection, cut from those of the repository:  *)
(* an agent for links without Skills, the default agent with a Skill for     *)
(* research, and one for reports with two.  The second release replaces the  *)
(* report's Skill by its next version, takes the default agent's Skill and   *)
(* keeps it to direct channels; the third has two agents that are routed     *)
(* alike.                                                                    *)
(*                                                                           *)
(* Drafts made from work cases name their agent and do not activate           *)
(* themselves, as revision 23; the store also takes what 21 and 22 say.       *)
(***************************************************************************)
EXTENDS Selection

Both == {"personal", "channel"}

Link == [default |-> FALSE, priority |-> 100, intents |-> {"link"}, first |-> "link", words |-> {"study"},
         url |-> TRUE, places |-> Both, tools |-> {"crawl"}, skills |-> {}]
Chat == [default |-> TRUE, priority |-> 0, intents |-> {"chat", "mention"}, first |-> "chat", words |-> {},
         url |-> FALSE, places |-> Both, tools |-> {"search"}, skills |-> {13}]
Report == [default |-> FALSE, priority |-> 80, intents |-> {"report", "meeting"}, first |-> "report",
           words |-> {"minutes", "compare"}, url |-> FALSE, places |-> Both, tools |-> {"read", "search"},
           skills |-> {11, 12}]

Agents == [r \in Release |->
  CASE r = "first" -> <<Link, Chat, Report>>
    [] r = "next" -> <<Link, [Chat EXCEPT !.skills = {}, !.places = {"personal"}],
                       [Report EXCEPT !.skills = {11, 14}]>>
    [] OTHER -> <<[Report EXCEPT !.skills = {}], Chat, Report>>]

\* The minutes of a meeting, a report in two versions, and research.
Skills == [s \in Skill |->
  CASE s = 11 -> [intents |-> {"meeting"}, words |-> {"minutes"}, priority |-> 90, strict |-> TRUE,
                  required |-> {"read"}, optional |-> {}]
    [] s = 13 -> [intents |-> {"research"}, words |-> {"study"}, priority |-> 50, strict |-> FALSE,
                  required |-> {"search"}, optional |-> {"crawl"}]
    [] OTHER -> [intents |-> {"report"}, words |-> {"study"}, priority |-> 80, strict |-> FALSE,
                 required |-> {"read"}, optional |-> {"search", "crawl"}]]

Rows == [o \in Overlay |->
  CASE o = 21 -> [id |-> "a", owner |-> "u1", base |-> 12, agent |-> 3, intents |-> {}, words |-> {"study"},
                  auto |-> TRUE]
    [] o = 22 -> [id |-> "b", owner |-> "u1", base |-> 12, agent |-> Nil, intents |-> {},
                  words |-> {"compare"}, auto |-> TRUE]
    [] OTHER -> [id |-> "b", owner |-> "u1", base |-> 13, agent |-> 2, intents |-> {}, words |-> {},
                 auto |-> FALSE]]

SomeTools == {Tool, Tool \ {"read"}}
=============================================================================
