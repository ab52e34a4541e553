--------------------------- MODULE ClusterLifecycle ---------------------------
(***************************************************************************)
(* Replicas of the cluster state, each fed by applyLifecycleEvent with the *)
(* lifecycle events of the nodes.  An event may reach a replica late, out  *)
(* of order, several times or never; an event the engine refuses (it       *)
(* throws) leaves the replica as it was and may be offered again.          *)
(*                                                                         *)
(* The nodes are external: each goes through its phases along the allowed  *)
(* transitions and numbers its events, as the tests of the engine do.      *)
(***************************************************************************)
EXTENDS ClusterEvaluation

CONSTANTS
  Replica,    \* holders of a cluster state
  Options,    \* the options of the calls
  MaxEvents   \* bound: the events of each node

ASSUME LifecycleAssumption ==
  /\ Options \subseteq EvaluationOptions
  /\ MaxEvents \in [Node -> Nat]

VARIABLES
  actual,     \* the phase of each node
  counter,    \* the counter of its last event
  emitted,    \* the events of all nodes
  cluster,    \* the cluster state of each replica
  applied     \* history: the events each replica has accepted

vars == <<actual, counter, emitted, cluster, applied>>

Init ==
  /\ actual = [n \in Node |-> "INIT"]
  /\ counter = [n \in Node |-> 0]
  /\ emitted = {}
  /\ cluster = [r \in Replica |-> InitialCluster]
  /\ applied = [r \in Replica |-> {}]

-----------------------------------------------------------------------------
(* The nodes. *)

Emit(n, type, to) ==
  LET e == [type |-> type, node |-> n, from |-> actual[n], to |-> to,
            time |-> [counter |-> counter[n] + 1, node |-> n]]
  IN  /\ counter[n] < MaxEvents[n]
      /\ actual' = [actual EXCEPT ![n] = to]
      /\ counter' = [counter EXCEPT ![n] = @ + 1]
      /\ emitted' = emitted \cup {e}
      /\ UNCHANGED <<cluster, applied>>

ChangePhase(n) ==
  \E to \in AllowedTransitions[actual[n]] :
    /\ to # "FAILED"
    /\ actual[n] = "FAILED" => to # "DEGRADED"
    /\ Emit(n, "NODE_PHASE_CHANGED", to)

\* A failure may be reported again while it lasts.
ReportFailure(n) ==
  /\ actual[n] # "STOPPED"
  /\ Emit(n, "NODE_FAILED", "FAILED")

ReportRecovery(n) ==
  /\ actual[n] = "FAILED"
  /\ Emit(n, "NODE_RECOVERED", "DEGRADED")

-----------------------------------------------------------------------------
(* The replicas. *)

Deliver(r, e, o) ==
  /\ CanApply(cluster[r], e, o)
  /\ cluster' = [cluster EXCEPT ![r] = Apply(cluster[r], e, o)]
  /\ applied' = [applied EXCEPT ![r] = @ \cup {e}]
  /\ UNCHANGED <<actual, counter, emitted>>

Reevaluate(r, o) ==
  /\ CanEvaluate(cluster[r], o)
  /\ cluster' = [cluster EXCEPT ![r] = Evaluate(cluster[r], o)]
  /\ UNCHANGED <<actual, counter, emitted, applied>>

Next ==
  \/ \E n \in Node : ChangePhase(n) \/ ReportFailure(n) \/ ReportRecovery(n)
  \/ \E r \in Replica, o \in Options :
       \/ Reevaluate(r, o)
       \/ \E e \in emitted : Deliver(r, e, o)

Spec == Init /\ [][Next]_vars

-----------------------------------------------------------------------------
(* Properties. *)

NodeState ==
  [phase : NodePhase, time : LogicalTime, lastEventId : {EventId(e) : e \in emitted}]

\* Every variable has its type.
LifecycleTypeOK ==
  /\ actual \in [Node -> NodePhase]
  /\ counter \in [Node -> Nat]
  /\ emitted \subseteq LifecycleEvent
  /\ applied \in [Replica -> SUBSET emitted]
  /\ DOMAIN cluster = Replica
  /\ \A r \in Replica :
       LET c == cluster[r]
       IN  /\ DOMAIN c.nodes \subseteq Node
           /\ \A n \in DOMAIN c.nodes : c.nodes[n] \in NodeState
           /\ c.phase \in ClusterPhase
           /\ c.time \in LogicalTime
           /\ c.executed \subseteq ComplianceAction
           /\ \A i \in DOMAIN c.journal : c.journal[i] \in ComplianceAction

\* The phase of the cluster is the one its nodes determine; it is HALTED only
\* while a node has failed, and a failed node leaves no other phase
\* (barriers and the HALT action rewrite a phase that was derived before).
PhaseFollowsNodes ==
  \A r \in Replica :
    LET c == cluster[r]
    IN  IF "FAILED" \in PhasesOf(c.nodes)
        THEN c.phase \in {"FAILED", "HALTED"}
        ELSE c.phase = DeriveClusterPhase(c.nodes)

\* No barrier is ever violated on the event path, in either mode: the phase
\* evaluateBarrierTransition compares with is already the derived one.
NoBarrierResidue == \A r \in Replica : cluster[r].violations = <<>>

\* Replicas that accepted the same events agree on every node, on the clock
\* and, up to a halt, on the phase, whatever the order, the repetitions and
\* the options of their calls.
SameEventsSameView ==
  \A r, s \in Replica :
    applied[r] = applied[s] =>
      /\ cluster[r].nodes = cluster[s].nodes
      /\ cluster[r].time = cluster[s].time
      /\ \/ cluster[r].phase = cluster[s].phase
         \/ {cluster[r].phase, cluster[s].phase} = {"FAILED", "HALTED"}

\* The report of a failure is never refused, however much of the history of
\* its node the replica has missed or refused.
Newest(r, e) ==
  e.node \in DOMAIN cluster[r].nodes =>
    Precedes(cluster[r].nodes[e.node].time, e.time)

FailureNeverRefused ==
  \A r \in Replica, e \in emitted, o \in Options :
    e.type = "NODE_FAILED" /\ Newest(r, e) => CanApply(cluster[r], e, o)

\* executedActions lists exactly the actions the journal records.
ExecutedIsJournalled ==
  \A r \in Replica :
    cluster[r].executed =
      {cluster[r].journal[i] : i \in DOMAIN cluster[r].journal}

\* A record, once in the journal, is never rewritten or removed by a later
\* decision of the same id, and the clock of a replica never goes back.
HistoryOnlyGrows ==
  [][\A r \in Replica :
       /\ ~Precedes(cluster'[r].time, cluster[r].time)
       /\ \A i \in DOMAIN cluster[r].journal :
            /\ i \in DOMAIN cluster'[r].journal
            /\ cluster'[r].journal[i] = cluster[r].journal[i]]_vars

\* A call that accepts no new event (an event delivered again, a refusal or an
\* evaluation) leaves what the replica shows: the nodes, the clock, the
\* violations and, up to a halt, the phase.  applyLifecycleEvent finds a
\* repetition only after it has evaluated the cluster, so such a call may still
\* decide and execute.
RepeatsShowNothingNew ==
  [][\A r \in Replica :
       applied'[r] = applied[r] =>
         /\ cluster'[r].nodes = cluster[r].nodes
         /\ cluster'[r].time = cluster[r].time
         /\ cluster'[r].violations = cluster[r].violations
         /\ \/ cluster'[r].phase = cluster[r].phase
            \/ {cluster'[r].phase, cluster[r].phase} = {"FAILED", "HALTED"}]_vars

\* A record keeps the action one of the calls made of its decision; and a cluster
\* that has failed without being halted always carries the decision to halt it,
\* and that decision is on record as executed (unless some call was a dry run).
\* So a halt is missing only because executeCore has met its id before.
Recorded(c) ==
  \A i \in DOMAIN c.journal : \E o \in Options : c.journal[i] = EffectiveAction(i.action, o)

HaltAskedFor(c) ==
  /\ c.decision.action = "HALT_CLUSTER"
  /\ DecisionId(c.decision) \in DOMAIN c.journal \/ \E o \in Options : o.dryRun

UnhaltedIsRecorded ==
  \A r \in Replica :
    /\ Recorded(cluster[r])
    /\ cluster[r].phase = "FAILED" => HaltAskedFor(cluster[r])

\* "Cluster FAILED must halt" (cluster_compliance_engine.ts:117).
FailedIsHalted ==
  \A r \in Replica :
    "FAILED" \in PhasesOf(cluster[r].nodes) => cluster[r].phase = "HALTED"
===============================================================================
