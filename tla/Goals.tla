-------------------------------- MODULE Goals --------------------------------
(***************************************************************************)
(* Goals (src/mmag/capabilities/goals.py, repositories.py), changed by an    *)
(* agent's calls of the capabilities and by the buttons of a goal's card     *)
(* (src/mmag/application/goal_ui.py).                                        *)
(*                                                                           *)
(* A call first waits for the access guard, for the capability's hooks, for  *)
(* the membership of a new owner; what it found when it was made may be      *)
(* stale when it writes.  A card offers what the goal allowed when the card  *)
(* was drawn, and stays in the channel when the goal moves on.               *)
(***************************************************************************)
EXTENDS Naturals, FiniteSets

CONSTANTS
  Goal,        \* the goals there may be, one for each execution key
  Call,        \* calls of a capability that may be under way at once
  MaxDay,      \* bound: start and due are 1..MaxDay, 0 if not set
  MaxTokens    \* bound: open tokens of one kind for one goal

ASSUME GoalsAssumption == MaxDay \in Nat /\ MaxTokens \in Nat

VARIABLES
  goalStatus,  \* [Goal -> status, "absent" before it is made]
  window,      \* [Goal -> start_time and due_time]
  call,        \* [Call -> what the call is to write, and whether it is under way]
  offered      \* [Claim \X Goal -> tokens not used yet]

goalVars == <<goalStatus, window, call, offered>>

Final == {"completed", "cancelled"}
GoalStatus == {"draft", "active"} \cup Final
Claim == {"goal_complete", "goal_cancel", "goal_complete_confirm", "goal_cancel_confirm"}
Day == 0..MaxDay
Goals == {g \in Goal : goalStatus[g] # "absent"}

\* A field that a call does not name is None: it stays the same.
Unset == "none"
Same == MaxDay + 1
NoCall == [on |-> "nothing", status |-> Unset, start |-> Same, due |-> Same]

-----------------------------------------------------------------------------
(* Cards.                                                                  *)

\* _actions(): what the card of a goal offers.
CardClaims(g) ==
  IF goalStatus[g] \in Final THEN {}
  ELSE {"goal_cancel"} \cup (IF goalStatus[g] = "active" THEN {"goal_complete"} ELSE {})

Issued(tokens, claims, g) ==
  [k \in Claim \X Goal |-> IF k[1] \in claims /\ k[2] = g /\ tokens[k] < MaxTokens
                           THEN tokens[k] + 1 ELSE tokens[k]]

\* An agent's answer that created, changed or looked at a goal carries its card, and so does
\* the answer to the button "goal_view", which does nothing else.
ShowGoal(g) ==
  /\ g \in Goals
  /\ offered' = Issued(offered, CardClaims(g), g)
  /\ UNCHANGED <<goalStatus, window, call>>

TokenExpires(c, g) ==
  /\ offered[<<c, g>>] > 0
  /\ offered' = [offered EXCEPT ![<<c, g>>] = @ - 1]
  /\ UNCHANGED <<goalStatus, window, call>>

\* The question "completed?" or "cancelled?" is asked whatever the goal's status is by now.
AskConfirmation(c, g) ==
  LET confirm == IF c = "goal_complete" THEN "goal_complete_confirm" ELSE "goal_cancel_confirm" IN
  /\ c \in {"goal_complete", "goal_cancel"} /\ offered[<<c, g>>] > 0
  /\ offered' = Issued([offered EXCEPT ![<<c, g>>] = @ - 1], {confirm}, g)
  /\ UNCHANGED <<goalStatus, window, call>>

\* Anybody whom the access guard lets into the channel may confirm; the token is used up
\* before the guard is asked.
Confirm(u, c, g) ==
  /\ c \in {"goal_complete_confirm", "goal_cancel_confirm"} /\ offered[<<c, g>>] > 0
  /\ call[u].on = "nothing"
  /\ offered' = [offered EXCEPT ![<<c, g>>] = @ - 1]
  /\ call' = [call EXCEPT ![u] = [NoCall EXCEPT !.on = g,
                                   !.status = IF c = "goal_complete_confirm" THEN "completed" ELSE "cancelled"]]
  /\ UNCHANGED <<goalStatus, window>>

-----------------------------------------------------------------------------
(* Capabilities.                                                           *)

\* create_goal: awaits, then one insert; the key of a repeated call finds the goal.
CreateGoal(g, status, start, due) ==
  /\ start # 0 /\ due # 0 => due >= start
  /\ goalStatus[g] = "absent"
  /\ goalStatus' = [goalStatus EXCEPT ![g] = status]
  /\ window' = [window EXCEPT ![g] = [start |-> start, due |-> due]]
  /\ UNCHANGED <<call, offered>>

\* A call may name any of the fields; the calls below name the start alone,
\* or a status, a due date or both.
BeginUpdate(u, g, status, start, due) ==
  /\ call[u].on = "nothing" /\ g \in Goals
  /\ call' = [call EXCEPT ![u] = [on |-> g, status |-> status, start |-> start, due |-> due]]
  /\ UNCHANGED <<goalStatus, window, offered>>

\* _GOAL_TRANSITIONS.
MayBecome(old, new) ==
  \/ new = old
  \/ old = "draft" /\ new \in {"active", "cancelled"}
  \/ old = "active" /\ new \in Final

\* The window is checked with the values that stay.  A mutant looks at the call's own alone.
OwnWindowFits(g, start, due) ==
  {start, due} \subseteq Day \ {0} => due >= start
WindowFits(g, start, due) ==
  LET s == IF start = Same THEN window[g].start ELSE start
      d == IF due = Same THEN window[g].due ELSE due
  IN s # 0 /\ d # 0 => d >= s

\* Read, check and write of update_goal, after its last await.
FinishUpdate(u) ==
  LET k == call[u]
      g == k.on
      allowed == (k.status = Unset \/ MayBecome(goalStatus[g], k.status)) /\ WindowFits(g, k.start, k.due)
  IN
  /\ g \in Goal
  /\ IF allowed
     THEN /\ goalStatus' = IF k.status = Unset THEN goalStatus ELSE [goalStatus EXCEPT ![g] = k.status]
          /\ window' = [window EXCEPT ![g] = [start |-> IF k.start = Same THEN @.start ELSE k.start,
                                              due |-> IF k.due = Same THEN @.due ELSE k.due]]
     ELSE UNCHANGED <<goalStatus, window>>
  /\ call' = [call EXCEPT ![u] = NoCall]
  /\ UNCHANGED <<offered>>

\* The guard refuses, the owner is no member, the call times out, the process ends.
AbandonUpdate(u) ==
  /\ call[u].on # "nothing"
  /\ call' = [call EXCEPT ![u] = NoCall]
  /\ UNCHANGED <<goalStatus, window, offered>>

-----------------------------------------------------------------------------
GoalsInit ==
  /\ goalStatus = [g \in Goal |-> "absent"]
  /\ window = [g \in Goal |-> [start |-> 0, due |-> 0]]
  /\ call = [u \in Call |-> NoCall]
  /\ offered = [k \in Claim \X Goal |-> 0]

GoalsNext ==
  \/ \E g \in Goal :
       \/ ShowGoal(g)
       \/ \E status \in {"draft", "active"}, start, due \in Day : CreateGoal(g, status, start, due)
       \/ \E c \in Claim : TokenExpires(c, g) \/ AskConfirmation(c, g) \/ \E u \in Call : Confirm(u, c, g)
       \/ \E u \in Call, start \in Day : BeginUpdate(u, g, Unset, start, Same)
       \/ \E u \in Call, status \in GoalStatus \cup {Unset}, due \in Day \cup {Same} :
            BeginUpdate(u, g, status, Same, due)
  \/ \E u \in Call : FinishUpdate(u) \/ AbandonUpdate(u)

GoalsSpec == GoalsInit /\ [][GoalsNext]_goalVars

-----------------------------------------------------------------------------
GoalsTypeOK ==
  /\ goalStatus \in [Goal -> GoalStatus \cup {"absent"}]
  /\ window \in [Goal -> [start : Day, due : Day]]
  /\ offered \in [Claim \X Goal -> 0..MaxTokens]

\* A goal is never due before it starts, whichever calls set the two ends one at a time
\* while others are waiting (create_goal, update_goal).
WindowsAreSound ==
  \A g \in Goal : window[g].start # 0 /\ window[g].due # 0 => window[g].due >= window[g].start
=============================================================================
