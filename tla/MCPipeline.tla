----------------------------- MODULE MCPipeline -----------------------------
(* Small instances of Pipeline.                                            *)
EXTENDS Pipeline

CONSTANTS e1, e2, e3, c1, c2, s1

\* e1 and e2 share a conversation, e3 is alone in the other.
TwoConversations == [e \in Event |-> IF e = e3 THEN c2 ELSE c1]

\* Every post starts its own thread.
OwnThreads == [e \in Event |-> e]

\* e2 answers in e1's thread.
OneThread == [e \in Event |-> IF e = e2 THEN e1 ELSE e]
=============================================================================
