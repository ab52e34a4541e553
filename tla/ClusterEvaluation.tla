-------------------------- MODULE ClusterEvaluation --------------------------
(***************************************************************************)
(* The pure functions of the distributed layer that turn lifecycle events  *)
(* into a cluster state: phase derivation, phase barriers, cluster         *)
(* invariants, compliance policies, execution of the selected decision,    *)
(* and the two entry points built from them, evaluateClusterState          *)
(* (Evaluate) and applyLifecycleEvent (Apply).  Both throw or return a new *)
(* state; CanEvaluate and CanApply say when they return.                   *)
(*                                                                         *)
(* Left out: what is recomputed from the state on every evaluation         *)
(* (invariants, overallCompliance, executionMetadata) and the option       *)
(* executionTimestamp, which only relabels the records of the journal.     *)
(***************************************************************************)
EXTENDS Naturals, Sequences, FiniteSets

CONSTANTS
  Node,       \* node ids
  ClusterId,  \* the node id in the clock of an initial cluster
  rank,       \* the place of an id in the order of localeCompare
  None        \* no decision yet

ASSUME EvaluationAssumption ==
  /\ ClusterId \notin Node
  /\ rank \in [Node \cup {ClusterId} -> Nat]
  /\ \A m, n \in Node \cup {ClusterId} : rank[m] = rank[n] => m = n

NodePhase == {"INIT", "BOOTSTRAPPING", "SYNCING", "READY", "RUNNING",
              "DEGRADED", "STOPPING", "STOPPED", "FAILED"}

ClusterPhase == {"INITIALIZING", "PARTIAL", "SYNCING", "READY", "RUNNING",
                 "DEGRADED", "STOPPING", "STOPPED", "FAILED", "HALTED"}

AllowedTransitions ==
  [INIT          |-> {"BOOTSTRAPPING", "FAILED", "STOPPING"},
   BOOTSTRAPPING |-> {"SYNCING", "FAILED", "STOPPING"},
   SYNCING       |-> {"READY", "DEGRADED", "FAILED", "STOPPING"},
   READY         |-> {"RUNNING", "DEGRADED", "FAILED", "STOPPING"},
   RUNNING       |-> {"DEGRADED", "FAILED", "STOPPING"},
   DEGRADED      |-> {"RUNNING", "SYNCING", "FAILED", "STOPPING"},
   STOPPING      |-> {"STOPPED", "FAILED"},
   STOPPED       |-> {},
   FAILED        |-> {"DEGRADED", "STOPPING"}]

\* Fault: a phase may not be entered again.
TransitionAllowedOnce(from, to) == to \in AllowedTransitions[from]

TransitionAllowed(from, to) == from = to \/ to \in AllowedTransitions[from]

-----------------------------------------------------------------------------
(* Logical time: the counter, then the node id. *)

LogicalTime == [counter : Nat, node : Node \cup {ClusterId}]

Precedes(s, t) ==
  \/ s.counter < t.counter
  \/ s.counter = t.counter /\ rank[s.node] < rank[t.node]

LaterTime(s, t) == IF Precedes(s, t) THEN t ELSE s

\* The later of a clock and the clocks of the nodes.
Dominating(t, nodes) ==
  LET times == {t} \cup {nodes[n].time : n \in DOMAIN nodes}
  IN  CHOOSE s \in times : \A u \in times : ~Precedes(s, u)

-----------------------------------------------------------------------------
(* The phase of the cluster and its barriers. *)

PhasesOf(nodes) == {nodes[n].phase : n \in DOMAIN nodes}

\* Fault: a phase all nodes share is returned as it is.
DeriveSharedPhase(nodes) ==
  IF \E p \in NodePhase : PhasesOf(nodes) = {p}
  THEN CHOOSE p \in NodePhase : PhasesOf(nodes) = {p}
  ELSE IF "FAILED" \in PhasesOf(nodes) THEN "FAILED" ELSE "PARTIAL"

DeriveClusterPhase(nodes) ==
  LET phases == PhasesOf(nodes)
  IN  IF phases = {} THEN "INITIALIZING"
      ELSE IF phases = {"STOPPED"} THEN "STOPPED"
      ELSE IF "FAILED" \in phases THEN "FAILED"
      ELSE IF "DEGRADED" \in phases THEN "DEGRADED"
      ELSE IF phases = {"RUNNING"} THEN "RUNNING"
      ELSE IF phases = {"READY"} THEN "READY"
      ELSE IF phases = {"SYNCING"} THEN "SYNCING"
      ELSE IF phases \subseteq {"INIT", "BOOTSTRAPPING"} THEN "INITIALIZING"
      ELSE IF "STOPPING" \in phases THEN "STOPPING"
      ELSE "PARTIAL"

All(nodes, phases) == DOMAIN nodes # {} /\ PhasesOf(nodes) \subseteq phases

\* PHASE_BARRIERS: the phase advances that carry a condition.
BarrierHolds(from, to, prevNodes, nextNodes) ==
  /\ <<from, to>> = <<"INITIALIZING", "READY">> => All(nextNodes, {"READY"})
  /\ <<from, to>> = <<"READY", "RUNNING">> => All(prevNodes, {"READY"})
  /\ <<from, to>> = <<"RUNNING", "STOPPING">> =>
       All(nextNodes, {"RUNNING", "DEGRADED", "STOPPING"})
  /\ <<from, to>> = <<"STOPPING", "STOPPED">> => All(nextNodes, {"STOPPED"})

\* evaluateBarrierTransition: prev is the cluster that was passed in, next the
\* same cluster with its derived phase.  A failure is never held back.
EnforceBarrier(prev, next, mode) ==
  LET desired == DeriveClusterPhase(next.nodes)
      free == \/ desired \in {"FAILED", prev.phase}
              \/ BarrierHolds(prev.phase, desired, prev.nodes, next.nodes)
  IN  IF prev.phase = "HALTED" THEN [next EXCEPT !.phase = "HALTED"]
      ELSE IF free THEN [next EXCEPT !.phase = desired]
      ELSE [next EXCEPT
              !.phase = IF mode = "STRICT" THEN prev.phase ELSE desired,
              !.violations = Append(@, <<prev.phase, desired>>)]

\* validateClusterInvariant: the states that are refused outright.
ValidCluster(c) ==
  LET phases == PhasesOf(c.nodes)
  IN  /\ \A n \in DOMAIN c.nodes : ~Precedes(c.time, c.nodes[n].time)
      /\ ~("RUNNING" \in phases /\ phases \cap {"INIT", "BOOTSTRAPPING"} # {})
      /\ "FAILED" \in phases => c.phase \in {"FAILED", "HALTED"}

-----------------------------------------------------------------------------
(* Cluster invariants and compliance. *)

Convergence(c) ==
  IF c.phase \notin {"HALTED", DeriveClusterPhase(c.nodes)} THEN "NON_COMPLIANT"
  ELSE IF c.attested THEN "COMPLIANT" ELSE "UNKNOWN"

PhaseCoherence(c) ==
  IF c.phase \in {"HALTED", DeriveClusterPhase(c.nodes)} THEN "COMPLIANT"
  ELSE "NON_COMPLIANT"

NodeCompleteness(c) ==
  IF c.expected = {} THEN "UNKNOWN"
  ELSE IF DOMAIN c.nodes = c.expected THEN "COMPLIANT" ELSE "NON_COMPLIANT"

NoIllegalTransitionResidue(c) ==
  IF c.violations = <<>> THEN "COMPLIANT" ELSE "NON_COMPLIANT"

TemporalConsistency(c) ==
  IF DOMAIN c.nodes = {} THEN "UNKNOWN"
  ELSE IF \E n \in DOMAIN c.nodes : Precedes(c.time, c.nodes[n].time)
       THEN "NON_COMPLIANT" ELSE "COMPLIANT"

OverallCompliance(c) ==
  LET results == {Convergence(c), PhaseCoherence(c), NodeCompleteness(c),
                  NoIllegalTransitionResidue(c), TemporalConsistency(c)}
  IN  IF "NON_COMPLIANT" \in results THEN "NON_COMPLIANT"
      ELSE IF results = {"COMPLIANT"} THEN "COMPLIANT" ELSE "UNKNOWN"

CriticalViolations(c) ==
  {i \in {"temporal_consistency", "no_illegal_transition_residue"} :
     IF i = "temporal_consistency" THEN TemporalConsistency(c) = "NON_COMPLIANT"
     ELSE NoIllegalTransitionResidue(c) = "NON_COMPLIANT"}

\* The actions by increasing strength.  The severities of the policies (INFO,
\* WARNING, then CRITICAL) grow with it, so comparing severities first, as
\* stronger does, selects the same action.
ActionsByStrength == <<"NO_OP", "LOG_ONLY", "ESCALATE", "FREEZE_TRANSITIONS",
                       "HALT_CLUSTER", "REQUIRE_MANUAL_INTERVENTION">>

ComplianceAction == {ActionsByStrength[i] : i \in 1 .. 6}

\* COMPLIANCE_POLICIES: the places in ActionsByStrength of what they ask for.
PolicyActions(c) ==
  {1} \cup
  {i \in 2 .. 6 :
     \/ i = 2 /\ (OverallCompliance(c) = "UNKNOWN" \/ Len(c.violations) \in 1 .. 2)
     \/ i = 3 /\ OverallCompliance(c) = "NON_COMPLIANT"
     \/ i = 4 /\ Len(c.violations) >= 3
     \/ i = 5 /\ c.phase = "FAILED"
     \/ i = 6 /\ CriticalViolations(c) # {}}

EvaluateCompliance(c, now) ==
  LET asked == PolicyActions(c)
      strongest == CHOOSE i \in asked : \A j \in asked : j <= i
  IN  [action         |-> ActionsByStrength[strongest],
       invariantIds   |-> IF strongest = 6 THEN CriticalViolations(c) ELSE {},
       violationCount |-> Len(c.violations),
       timestamp      |-> now]

\* deriveComplianceDecisionId: the violation count only counts through the
\* reason text of FREEZE_TRANSITIONS.
DecisionId(d) ==
  [action |-> d.action, invariantIds |-> d.invariantIds,
   count  |-> IF d.action = "FREEZE_TRANSITIONS" THEN d.violationCount ELSE 0,
   timestamp |-> d.timestamp]

-----------------------------------------------------------------------------
(* The execution of a decision. *)

Put(f, k, v) == [x \in DOMAIN f \cup {k} |-> IF x = k THEN v ELSE f[x]]

\* The options of one call.  expected is {} when the call gives no expected
\* nodes, and the set of one set when it does.
EvaluationOptions ==
  [barrier : {"STRICT", "PERMISSIVE"}, executor : {"STRICT", "PERMISSIVE"},
   logOnly : BOOLEAN, dryRun : BOOLEAN, timestamp : Nat,
   attested : BOOLEAN, expected : {{}} \cup {{s} : s \in SUBSET Node}]

Downgrade(action) ==
  CASE action = "HALT_CLUSTER" -> "FREEZE_TRANSITIONS"
    [] action \in {"FREEZE_TRANSITIONS", "REQUIRE_MANUAL_INTERVENTION"} -> "ESCALATE"
    [] OTHER -> action

EffectiveAction(action, o) ==
  IF o.logOnly THEN "LOG_ONLY"
  ELSE IF o.executor = "PERMISSIVE" THEN Downgrade(action) ELSE action

\* applyAction: the marks it leaves on the cluster besides the phase.
MarksOf(action) ==
  CASE action \in {"HALT_CLUSTER", "FREEZE_TRANSITIONS"} -> {"transitionLocks"}
    [] action = "ESCALATE" -> {"escalation"}
    [] action = "REQUIRE_MANUAL_INTERVENTION" -> {"locked", "requiresOperator"}
    [] OTHER -> {}

Perform(c, action) ==
  [c EXCEPT !.phase = IF action = "HALT_CLUSTER" THEN "HALTED" ELSE @,
            !.marks = @ \cup MarksOf(action),
            !.executed = @ \cup {action}]

\* Fault: the record takes the place of the journal it should be merged into.
ExecuteReplacingJournal(c, d, o) ==
  LET action == EffectiveAction(d.action, o)
  IN  IF DecisionId(d) \in DOMAIN c.journal \/ o.dryRun THEN c
      ELSE [Perform(c, action) EXCEPT
              !.journal = [i \in {DecisionId(d)} |-> action]]

\* executeCore, called with c.decision = d, which resolveComplianceConflict
\* resolves to d itself.
Execute(c, d, o) ==
  LET action == EffectiveAction(d.action, o)
  IN  IF DecisionId(d) \in DOMAIN c.journal \/ o.dryRun THEN c
      ELSE [Perform(c, action) EXCEPT
              !.journal = Put(@, DecisionId(d), action)]

-----------------------------------------------------------------------------
(* The two entry points. *)

InitialCluster ==
  [nodes |-> [n \in {} |-> None], phase |-> "INITIALIZING",
   time |-> [counter |-> 0, node |-> ClusterId], violations |-> <<>>,
   expected |-> {}, attested |-> FALSE, decision |-> None,
   executed |-> {}, marks |-> {}, journal |-> [i \in {} |-> None]]

\* freezeCluster with the derived phase: it keeps no marks.
Normalize(c, o) ==
  [c EXCEPT !.time = Dominating(c.time, c.nodes),
            !.phase = DeriveClusterPhase(c.nodes),
            !.expected = IF o.expected = {} THEN @ ELSE UNION o.expected,
            !.attested = @ \/ o.attested,
            !.marks = {}]

\* evaluateClusterState up to the point where it may throw.
Barred(c, o) == EnforceBarrier(c, Normalize(c, o), o.barrier)

CanEvaluate(c, o) == ValidCluster(Barred(c, o))

Evaluate(c, o) ==
  LET barred == Barred(c, o)
      decision == EvaluateCompliance(barred, o.timestamp)
  IN  Execute([barred EXCEPT !.decision = decision], decision, o)

EventType == {"NODE_PHASE_CHANGED", "NODE_FAILED", "NODE_RECOVERED"}

\* from and to are the phases of a NODE_PHASE_CHANGED.  The id is the node,
\* the type and the counter, as in the events of the tests.
LifecycleEvent ==
  [type : EventType, node : Node, from : NodePhase, to : NodePhase,
   time : LogicalTime]

EventId(e) == <<e.node, e.type, e.time.counter>>

PhaseOf(c, n) == IF n \in DOMAIN c.nodes THEN c.nodes[n].phase ELSE "INIT"

Target(e) ==
  CASE e.type = "NODE_PHASE_CHANGED" -> e.to
    [] e.type = "NODE_FAILED" -> "FAILED"
    [] e.type = "NODE_RECOVERED" -> "DEGRADED"

SameEvent(c, e) ==
  e.node \in DOMAIN c.nodes /\ c.nodes[e.node].lastEventId = EventId(e)

\* Fault: an event older than the state of its node is not refused.
EventAcceptedLate(c, e) ==
  LET n == e.node
  IN  /\ e.type = "NODE_PHASE_CHANGED" => e.from = PhaseOf(c, n)
      /\ e.type = "NODE_RECOVERED" => PhaseOf(c, n) = "FAILED"
      /\ TransitionAllowed(PhaseOf(c, n), Target(e))

\* The checks of applyLifecycleEvent on the event itself.
EventAccepted(c, e) ==
  LET n == e.node
  IN  /\ n \in DOMAIN c.nodes => ~Precedes(e.time, c.nodes[n].time)
      /\ e.type = "NODE_PHASE_CHANGED" => e.from = PhaseOf(c, n)
      /\ e.type = "NODE_RECOVERED" => PhaseOf(c, n) = "FAILED"
      /\ TransitionAllowed(PhaseOf(c, n), Target(e))

\* Fault: the phase is left for the evaluation that follows.
WithEventKeepingPhase(c, e, o) ==
  LET nodes == Put(c.nodes, e.node,
                   [phase |-> Target(e), time |-> e.time, lastEventId |-> EventId(e)])
  IN  [c EXCEPT !.nodes = nodes,
                !.time = LaterTime(@, e.time),
                !.expected = IF o.expected = {} THEN @ ELSE UNION o.expected,
                !.attested = @ \/ o.attested,
                !.marks = {}]

WithEvent(c, e, o) ==
  LET nodes == Put(c.nodes, e.node,
                   [phase |-> Target(e), time |-> e.time, lastEventId |-> EventId(e)])
  IN  [c EXCEPT !.nodes = nodes,
                !.time = LaterTime(@, e.time),
                !.phase = DeriveClusterPhase(nodes),
                !.expected = IF o.expected = {} THEN @ ELSE UNION o.expected,
                !.attested = @ \/ o.attested,
                !.marks = {}]

\* The checks see the evaluated cluster, whose nodes are those of c.
CanApply(c, e, o) ==
  /\ CanEvaluate(c, o)
  /\ \/ SameEvent(c, e)
     \/ /\ EventAccepted(c, e)
        /\ CanEvaluate(WithEvent(Evaluate(c, o), e, o), o)

Apply(c, e, o) ==
  LET evaluated == Evaluate(c, o)
  IN  IF SameEvent(c, e) THEN evaluated
      ELSE Evaluate(WithEvent(evaluated, e, o), o)
===============================================================================
