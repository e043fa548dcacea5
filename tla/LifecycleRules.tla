--------------------------- MODULE LifecycleRules ---------------------------
(***************************************************************************)
(* The state machines of mmag's durable entities: where each kind begins,   *)
(* which changes of state a command may ask for, and what a restart makes   *)
(* of work that was under way (src/mmag/control_plane/lifecycle.py).        *)
(***************************************************************************)

EntityType == {"task", "agent_run", "capability_call", "approval_request", "delivery"}

Initial ==
  [task |-> "queued", agent_run |-> "queued", capability_call |-> "requested",
   approval_request |-> "pending", delivery |-> "pending"]

TaskRules ==
  ({"queued"} \X {"running", "cancelled"})
    \cup ({"running"} \X {"waiting_approval", "succeeded", "failed", "cancelled"})
    \cup ({"waiting_approval"} \X {"running", "failed", "cancelled"})

AgentRunRules ==
  ({"queued"} \X {"running", "cancelled"})
    \cup ({"running"} \X {"waiting_child", "waiting_approval", "succeeded", "exhausted",
                          "failed", "cancelled"})
    \cup ({"waiting_child", "waiting_approval"} \X {"queued", "failed", "cancelled"})

CapabilityCallRules ==
  ({"requested"} \X {"running", "waiting_approval", "rejected", "cancelled"})
    \cup ({"running"} \X {"waiting_approval", "succeeded", "failed", "cancelled"})
    \cup ({"waiting_approval"} \X {"requested", "rejected", "cancelled"})

ApprovalRules == {"pending"} \X {"approved", "rejected", "expired", "cancelled"}

DeliveryRules ==
  ({"pending"} \X {"sending", "cancelled"})
    \cup ({"sending"} \X {"delivered", "retrying", "failed"})
    \cup ({"retrying"} \X {"sending", "failed", "cancelled"})
    \cup ({"failed"} \X {"retrying"})

\* _TRANSITIONS, as the pairs <<state, next state>> of each kind of entity.
Rules ==
  [task |-> TaskRules, agent_run |-> AgentRunRules, capability_call |-> CapabilityCallRules,
   approval_request |-> ApprovalRules, delivery |-> DeliveryRules]

\* _RECOVERY, as pairs too: the change of state reconcile() forces after a restart.
Recovery ==
  [task |-> {<<"running", "queued">>}, agent_run |-> {<<"running", "queued">>},
   capability_call |-> {<<"running", "requested">>}, approval_request |-> {},
   delivery |-> {<<"sending", "pending">>}]

State ==
  {"queued", "running", "waiting_approval", "waiting_child", "succeeded", "failed", "exhausted",
   "cancelled", "requested", "rejected", "pending", "approved", "expired", "sending",
   "retrying", "delivered"}
=============================================================================
