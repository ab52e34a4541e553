-------------------------- MODULE MCClusterLifecycle --------------------------
(* ClusterLifecycle on two nodes. *)
EXTENDS ClusterLifecycle, TLC

CONSTANTS n1, n2, r1, r2

MCRank == (ClusterId :> 0) @@ (n1 :> 1) @@ (n2 :> 2)

Defaults ==
  [barrier |-> "STRICT", executor |-> "STRICT", logOnly |-> FALSE, dryRun |-> FALSE,
   timestamp |-> 0, attested |-> FALSE, expected |-> {}]

\* What a caller passes when it passes nothing.
MCDefault == {Defaults}

\* n1 has the events to reach RUNNING, and to fail after a replica refused that
\* because n2 has started meanwhile.
MCOrder == (n1 :> 4) @@ (n2 :> 1)
MCShort == (n1 :> 2) @@ (n2 :> 1)

ReplicaSymmetry == Permutations({r1, r2})
===============================================================================
