--------------------------- MODULE ReplicatedJournal ---------------------------
(***************************************************************************)
(* What the runtime cluster promises: every node stores decisions that     *)
(* some client proposed, the first one it sees under each id, for good.    *)
(* Nodes store independently; they may store different contents under one  *)
(* id.                                                                     *)
(***************************************************************************)
CONSTANTS Node, Decision, idOf

VARIABLES
  proposed,   \* decisions sent by clients
  stored      \* the decisions in the journal of each node

Init ==
  /\ proposed = {}
  /\ stored = [n \in Node |-> {}]

Propose(d) ==
  /\ proposed' = proposed \cup {d}
  /\ UNCHANGED stored

Store(n, d) ==
  /\ d \in proposed
  /\ \A e \in stored[n] : idOf[e] # idOf[d]
  /\ stored' = [stored EXCEPT ![n] = @ \cup {d}]
  /\ UNCHANGED proposed

Next ==
  \/ \E d \in Decision : Propose(d)
  \/ \E n \in Node, d \in Decision : Store(n, d)

Spec == Init /\ [][Next]_<<proposed, stored>>
================================================================================
