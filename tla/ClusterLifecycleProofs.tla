------------------------ MODULE ClusterLifecycleProofs ------------------------
(***************************************************************************)
(* Proofs about ClusterLifecycle.  The argument has two layers: Sound(c)   *)
(* is what one cluster state satisfies, kept by the pure functions         *)
(* whatever the options; Reflects(r) ties the state of a replica to the    *)
(* set of events it has accepted, so that the set determines the state.    *)
(***************************************************************************)
EXTENDS ClusterLifecycle, TLAPS

USE DEF NodePhase, ClusterPhase

-----------------------------------------------------------------------------
(* Logical time is a total order. *)

\* Two clocks neither of which precedes the other are equal: the rank of
\* localeCompare separates node ids.
LEMMA TimeAntisymmetric ==
  ASSUME NEW s \in LogicalTime, NEW t \in LogicalTime,
         ~Precedes(s, t), ~Precedes(t, s)
  PROVE  s = t
<1>1. s.counter \in Nat /\ t.counter \in Nat
  BY DEF LogicalTime
<1>2. s.node \in Node \cup {ClusterId} /\ t.node \in Node \cup {ClusterId}
  BY DEF LogicalTime
<1>3. rank[s.node] \in Nat /\ rank[t.node] \in Nat
  BY <1>2, EvaluationAssumption
<1>4. s.counter = t.counter /\ rank[s.node] = rank[t.node]
  BY <1>1, <1>3 DEF Precedes
<1>5. s.node = t.node
  BY <1>2, <1>4, EvaluationAssumption
<1> QED
  BY <1>4, <1>5 DEF LogicalTime

\* Not preceding is transitive.
LEMMA TimeTransitive ==
  ASSUME NEW s \in LogicalTime, NEW t \in LogicalTime, NEW u \in LogicalTime,
         ~Precedes(s, t), ~Precedes(t, u)
  PROVE  ~Precedes(s, u)
<1>1. s.counter \in Nat /\ t.counter \in Nat /\ u.counter \in Nat
  BY DEF LogicalTime
<1>2. rank[s.node] \in Nat /\ rank[t.node] \in Nat /\ rank[u.node] \in Nat
  BY EvaluationAssumption DEF LogicalTime
<1> QED
  BY <1>1, <1>2 DEF Precedes

\* No clock precedes itself, and precedence goes one way.
LEMMA TimeIrreflexive ==
  ASSUME NEW s \in LogicalTime, NEW t \in LogicalTime
  PROVE  ~Precedes(s, s) /\ (Precedes(s, t) => ~Precedes(t, s))
<1>1. s.counter \in Nat /\ t.counter \in Nat
  BY DEF LogicalTime
<1>2. rank[s.node] \in Nat /\ rank[t.node] \in Nat
  BY EvaluationAssumption DEF LogicalTime
<1> QED
  BY <1>1, <1>2 DEF Precedes

\* The later of two clocks precedes neither.
LEMMA LaterTimeDominates ==
  ASSUME NEW s \in LogicalTime, NEW t \in LogicalTime
  PROVE  /\ LaterTime(s, t) \in {s, t}
         /\ ~Precedes(LaterTime(s, t), s)
         /\ ~Precedes(LaterTime(s, t), t)
  BY TimeIrreflexive DEF LaterTime

-----------------------------------------------------------------------------
(* One cluster state. *)

Fields == {"nodes", "phase", "time", "violations", "expected", "attested",
           "decision", "executed", "marks", "journal"}

ViewOfNode ==
  [phase : NodePhase, time : LogicalTime,
   lastEventId : Node \X EventType \X Nat]

\* The state an accepted event gives its node.
ViewFrom(e) ==
  [phase |-> Target(e), time |-> e.time, lastEventId |-> EventId(e)]

\* The phases validateClusterInvariant does not accept side by side.
Mixed(nodes) ==
  /\ "RUNNING" \in PhasesOf(nodes)
  /\ PhasesOf(nodes) \cap {"INIT", "BOOTSTRAPPING"} # {}

PhaseFollows(c) ==
  IF "FAILED" \in PhasesOf(c.nodes) THEN c.phase \in {"FAILED", "HALTED"}
  ELSE c.phase = DeriveClusterPhase(c.nodes)

JournalTyped(c) ==
  /\ \A i \in DOMAIN c.journal : c.journal[i] \in ComplianceAction
  /\ c.executed = {c.journal[i] : i \in DOMAIN c.journal}

\* What every cluster state built by the engine satisfies.
Sound(c) ==
  /\ DOMAIN c = Fields
  /\ DOMAIN c.nodes \subseteq Node
  /\ c.nodes \in [DOMAIN c.nodes -> ViewOfNode]
  /\ c.time \in LogicalTime
  /\ \A n \in DOMAIN c.nodes : ~Precedes(c.time, c.nodes[n].time)
  /\ c.violations = <<>>
  /\ PhaseFollows(c)
  /\ JournalTyped(c)

\* The journal of d extends the journal of c.
Extends(d, c) ==
  \A i \in DOMAIN c.journal :
    i \in DOMAIN d.journal /\ d.journal[i] = c.journal[i]

\* A failed node, and nothing else, makes the derived phase FAILED; HALTED is
\* never derived.
LEMMA DerivedPhase ==
  ASSUME NEW nodes
  PROVE  /\ DeriveClusterPhase(nodes) \in ClusterPhase \ {"HALTED"}
         /\ "FAILED" \in PhasesOf(nodes) <=> DeriveClusterPhase(nodes) = "FAILED"
  BY DEF DeriveClusterPhase

\* The clock of a sound state is the one an evaluation computes.
LEMMA DominatingTime ==
  ASSUME NEW t \in LogicalTime, NEW nodes,
         nodes \in [DOMAIN nodes -> ViewOfNode],
         \A n \in DOMAIN nodes : ~Precedes(t, nodes[n].time)
  PROVE  Dominating(t, nodes) = t
<1> DEFINE times == {t} \cup {nodes[n].time : n \in DOMAIN nodes}
           s == CHOOSE x \in times : \A u \in times : ~Precedes(x, u)
<1>1. \A n \in DOMAIN nodes : nodes[n].time \in LogicalTime
  BY DEF ViewOfNode
<1>2. times \subseteq LogicalTime
  BY <1>1
<1>3. \A u \in times : ~Precedes(t, u)
  BY TimeIrreflexive
<1>4. s \in times /\ \A u \in times : ~Precedes(s, u)
  <2>1. \E x \in times : \A u \in times : ~Precedes(x, u)
    BY <1>3
  <2> QED
    BY <2>1
<1>5. s = t
  <2>1. s \in LogicalTime /\ ~Precedes(s, t) /\ ~Precedes(t, s)
    BY <1>2, <1>3, <1>4
  <2> QED
    BY <2>1, TimeAntisymmetric
<1> QED
  BY <1>5 DEF Dominating

\* The initial cluster state is sound and has no nodes.
LEMMA InitialSound == Sound(InitialCluster) /\ DOMAIN InitialCluster.nodes = {}
<1>1. PhasesOf(InitialCluster.nodes) = {}
  BY DEF InitialCluster, PhasesOf
<1>2. PhaseFollows(InitialCluster)
  BY <1>1 DEF PhaseFollows, DeriveClusterPhase, InitialCluster
<1>3. InitialCluster.time \in LogicalTime
  BY DEF InitialCluster, LogicalTime
<1>4. DOMAIN InitialCluster = Fields /\ InitialCluster.violations = <<>>
  BY DEF InitialCluster, Fields
<1>5. JournalTyped(InitialCluster)
  BY DEF JournalTyped, InitialCluster
<1>6. /\ DOMAIN InitialCluster.nodes = {}
      /\ InitialCluster.nodes \in [DOMAIN InitialCluster.nodes -> ViewOfNode]
  BY DEF InitialCluster
<1> QED
  BY <1>2, <1>3, <1>4, <1>5, <1>6 DEF Sound

\* The barrier stage of an evaluation leaves a sound state sound, with the
\* same nodes, clock and journal: the phase it is given is the derived one
\* or HALTED, so no barrier condition is ever reached.
LEMMA BarredSound ==
  ASSUME NEW c, Sound(c), NEW o
  PROVE  /\ Sound(Barred(c, o))
         /\ Barred(c, o).nodes = c.nodes
         /\ Barred(c, o).time = c.time
         /\ Barred(c, o).journal = c.journal
<1> DEFINE n == Normalize(c, o)
           b == Barred(c, o)
<1>1. DOMAIN c = Fields
  BY DEF Sound
<1>2. Dominating(c.time, c.nodes) = c.time
  BY DominatingTime DEF Sound
<1>3. /\ DOMAIN n = Fields
      /\ n.nodes = c.nodes /\ n.time = c.time /\ n.violations = c.violations
      /\ n.phase = DeriveClusterPhase(c.nodes)
      /\ n.executed = c.executed /\ n.journal = c.journal
  BY <1>1, <1>2 DEF Normalize, Fields
<1>4. c.phase = "HALTED" => b = [n EXCEPT !.phase = "HALTED"]
  BY DEF Barred, EnforceBarrier
<1>5. c.phase # "HALTED" => b = [n EXCEPT !.phase = DeriveClusterPhase(c.nodes)]
  <2>1. SUFFICES ASSUME c.phase # "HALTED"
                 PROVE  b = [n EXCEPT !.phase = DeriveClusterPhase(c.nodes)]
    OBVIOUS
  <2>2. DeriveClusterPhase(n.nodes) \in {"FAILED", c.phase}
    BY <1>3, <2>1, DerivedPhase DEF Sound, PhaseFollows
  <2> QED
    BY <1>3, <2>1, <2>2 DEF Barred, EnforceBarrier
<1>6. /\ DOMAIN b = Fields
      /\ b.nodes = c.nodes /\ b.time = c.time /\ b.violations = c.violations
      /\ b.executed = c.executed /\ b.journal = c.journal
      /\ b.phase = IF c.phase = "HALTED" THEN "HALTED" ELSE DeriveClusterPhase(c.nodes)
  BY <1>3, <1>4, <1>5 DEF Fields
<1>7. PhaseFollows(b)
  BY <1>6, DerivedPhase DEF Sound, PhaseFollows
<1>8. JournalTyped(b)
  BY <1>6 DEF Sound, JournalTyped
<1> QED
  BY <1>6, <1>7, <1>8 DEF Sound

\* The policies select one of the actions, and a halt only for a cluster that
\* has FAILED.
LEMMA DecisionTyped ==
  ASSUME NEW c, NEW now
  PROVE  /\ EvaluateCompliance(c, now).action \in ComplianceAction
         /\ EvaluateCompliance(c, now).action = "HALT_CLUSTER" => c.phase = "FAILED"
<1> DEFINE asked == PolicyActions(c)
           strongest == CHOOSE i \in asked : \A j \in asked : j <= i
<1>1. asked \subseteq 1 .. 6 /\ 1 \in asked
  BY DEF PolicyActions
<1>2. \E i \in asked : \A j \in asked : j <= i
  <2>1. CASE 6 \in asked  BY <1>1, <2>1
  <2>2. CASE 6 \notin asked /\ 5 \in asked  BY <1>1, <2>2
  <2>3. CASE 6 \notin asked /\ 5 \notin asked /\ 4 \in asked  BY <1>1, <2>3
  <2>4. CASE asked \subseteq 1 .. 3 /\ 3 \in asked  BY <1>1, <2>4
  <2>5. CASE asked \subseteq 1 .. 2 /\ 2 \in asked  BY <1>1, <2>5
  <2>6. CASE asked = {1}  BY <2>6
  <2> QED
    BY <1>1, <2>1, <2>2, <2>3, <2>4, <2>5, <2>6
<1>3. strongest \in 1 .. 6
  BY <1>1, <1>2
<1>4. EvaluateCompliance(c, now).action = ActionsByStrength[strongest]
  BY DEF EvaluateCompliance
<1>5. \A i \in 1 .. 6 : ActionsByStrength[i] = "HALT_CLUSTER" => i = 5
  <2>1. SUFFICES ASSUME NEW i \in 1 .. 6, i # 5
                 PROVE  ActionsByStrength[i] # "HALT_CLUSTER"
    OBVIOUS
  <2>2. i = 1 \/ i = 2 \/ i = 3 \/ i = 4 \/ i = 6
    BY <2>1
  <2> QED
    BY <2>2 DEF ActionsByStrength
<1>6. 5 \in asked => c.phase = "FAILED"
  BY DEF PolicyActions
<1>7. strongest \in asked
  BY <1>2
<1> QED
  BY <1>3, <1>4, <1>5, <1>6, <1>7 DEF ComplianceAction

\* Whatever its options, an execution performs one of the actions, and no
\* option turns another action into a halt.
LEMMA EffectiveTyped ==
  ASSUME NEW action \in ComplianceAction, NEW o
  PROVE  /\ EffectiveAction(action, o) \in ComplianceAction
         /\ EffectiveAction(action, o) = "HALT_CLUSTER" => action = "HALT_CLUSTER"
<1>1. {"LOG_ONLY", "ESCALATE", "FREEZE_TRANSITIONS"} \subseteq ComplianceAction
  <2>1. /\ ActionsByStrength[2] = "LOG_ONLY"
        /\ ActionsByStrength[3] = "ESCALATE"
        /\ ActionsByStrength[4] = "FREEZE_TRANSITIONS"
    BY DEF ActionsByStrength
  <2> QED
    BY <2>1 DEF ComplianceAction
<1> QED
  BY <1>1 DEF EffectiveAction, Downgrade


\* The execution of a decision keeps a sound state sound, provided it only
\* halts a FAILED cluster, and adds at most one record to the journal.
LEMMA ExecuteSound ==
  ASSUME NEW c, Sound(c), NEW d, d.action \in ComplianceAction,
         d.action = "HALT_CLUSTER" => c.phase = "FAILED", NEW o
  PROVE  /\ Sound(Execute(c, d, o))
         /\ Execute(c, d, o).nodes = c.nodes
         /\ Execute(c, d, o).time = c.time
         /\ Extends(Execute(c, d, o), c)
<1> DEFINE action == EffectiveAction(d.action, o)
           e == Execute(c, d, o)
           p == Perform(c, action)
<1>1. CASE DecisionId(d) \in DOMAIN c.journal \/ o.dryRun
  <2>1. e = c
    BY <1>1 DEF Execute
  <2> QED
    BY <2>1 DEF Extends
<1>2. CASE DecisionId(d) \notin DOMAIN c.journal /\ ~o.dryRun
  <2>1. e = [p EXCEPT !.journal = Put(p.journal, DecisionId(d), action)]
    BY <1>2 DEF Execute
  <2>2. DOMAIN c = Fields
    BY DEF Sound
  <2>3. /\ DOMAIN p = Fields
        /\ p.nodes = c.nodes /\ p.time = c.time /\ p.violations = c.violations
        /\ p.journal = c.journal /\ p.executed = c.executed \cup {action}
        /\ p.phase = IF action = "HALT_CLUSTER" THEN "HALTED" ELSE c.phase
    BY <2>2 DEF Perform, Fields
  <2>4. /\ DOMAIN e = Fields
        /\ e.nodes = c.nodes /\ e.time = c.time /\ e.violations = c.violations
        /\ e.journal = Put(c.journal, DecisionId(d), action)
        /\ e.executed = c.executed \cup {action}
        /\ e.phase = IF action = "HALT_CLUSTER" THEN "HALTED" ELSE c.phase
    BY <2>1, <2>3 DEF Fields
  <2>5. PhaseFollows(e)
    BY <2>4, EffectiveTyped, DerivedPhase DEF Sound, PhaseFollows
  <2>6. /\ DOMAIN e.journal = DOMAIN c.journal \cup {DecisionId(d)}
        /\ e.journal[DecisionId(d)] = action
        /\ \A i \in DOMAIN c.journal : e.journal[i] = c.journal[i]
    BY <1>2, <2>4 DEF Put
  <2>7. JournalTyped(e)
    BY <2>4, <2>6, EffectiveTyped DEF Sound, JournalTyped
  <2> QED
    BY <2>4, <2>5, <2>6, <2>7 DEF Sound, Extends
<1> QED
  BY <1>1, <1>2

\* evaluateClusterState keeps a sound state sound, leaves its nodes and clock
\* alone, and never loses a record.
LEMMA EvaluateSound ==
  ASSUME NEW c, Sound(c), NEW o
  PROVE  /\ Sound(Evaluate(c, o))
         /\ Evaluate(c, o).nodes = c.nodes
         /\ Evaluate(c, o).time = c.time
         /\ Extends(Evaluate(c, o), c)
<1> DEFINE b == Barred(c, o)
           d == EvaluateCompliance(b, o.timestamp)
           w == [b EXCEPT !.decision = d]
<1>1. /\ Sound(b)
      /\ b.nodes = c.nodes /\ b.time = c.time /\ b.journal = c.journal
  BY BarredSound
<1>2. /\ DOMAIN w = Fields
      /\ w.nodes = b.nodes /\ w.phase = b.phase /\ w.time = b.time
      /\ w.violations = b.violations
      /\ w.executed = b.executed /\ w.journal = b.journal
  <2>1. DOMAIN b = Fields
    BY <1>1 DEF Sound
  <2> QED
    BY <2>1 DEF Fields
<1>3. Sound(w)
  BY <1>1, <1>2 DEF Sound, PhaseFollows, JournalTyped
<1>4. d.action \in ComplianceAction /\ (d.action = "HALT_CLUSTER" => w.phase = "FAILED")
  BY <1>2, DecisionTyped
<1>5. Evaluate(c, o) = Execute(w, d, o)
  BY DEF Evaluate
<1> HIDE DEF w, d
<1>6. /\ Sound(Execute(w, d, o))
      /\ Execute(w, d, o).nodes = w.nodes
      /\ Execute(w, d, o).time = w.time
      /\ Extends(Execute(w, d, o), w)
  BY <1>3, <1>4, ExecuteSound
<1> QED
  BY <1>1, <1>2, <1>5, <1>6 DEF Extends

\* Recording an accepted event keeps a sound state sound.
LEMMA WithEventSound ==
  ASSUME NEW c, Sound(c), NEW e \in LifecycleEvent, NEW o
  PROVE  /\ Sound(WithEvent(c, e, o))
         /\ WithEvent(c, e, o).nodes = Put(c.nodes, e.node, ViewFrom(e))
         /\ WithEvent(c, e, o).time = LaterTime(c.time, e.time)
         /\ WithEvent(c, e, o).journal = c.journal
<1> DEFINE w == WithEvent(c, e, o)
           view == ViewFrom(e)
           nodes == Put(c.nodes, e.node, view)
<1>1. /\ DOMAIN w = Fields
      /\ w.nodes = nodes /\ w.time = LaterTime(c.time, e.time)
      /\ w.phase = DeriveClusterPhase(nodes)
      /\ w.violations = c.violations
      /\ w.executed = c.executed /\ w.journal = c.journal
  BY DEF Sound, WithEvent, Fields, ViewFrom
<1>2. view \in ViewOfNode
  <2>1. Target(e) \in NodePhase
    BY DEF LifecycleEvent, EventType, Target
  <2>2. e.time \in LogicalTime /\ EventId(e) \in Node \X EventType \X Nat
    BY DEF LifecycleEvent, EventId, LogicalTime
  <2> QED
    BY <2>1, <2>2 DEF ViewOfNode, ViewFrom
<1>3. /\ e.node \in Node
      /\ DOMAIN nodes = DOMAIN c.nodes \cup {e.node}
      /\ nodes[e.node] = view
      /\ \A n \in DOMAIN c.nodes : n # e.node => nodes[n] = c.nodes[n]
  BY DEF Put, LifecycleEvent
<1>4. DOMAIN nodes \subseteq Node /\ nodes \in [DOMAIN nodes -> ViewOfNode]
  <2>1. \A n \in DOMAIN nodes : nodes[n] \in ViewOfNode
    BY <1>2, <1>3 DEF Sound
  <2>2. nodes = [n \in DOMAIN nodes |-> nodes[n]]
    BY DEF Put
  <2> QED
    BY <1>3, <2>1, <2>2 DEF Sound
<1>5. /\ w.time \in LogicalTime
      /\ ~Precedes(w.time, c.time) /\ ~Precedes(w.time, e.time)
  BY <1>1, LaterTimeDominates DEF Sound, LifecycleEvent
<1>6. \A n \in DOMAIN nodes : ~Precedes(w.time, nodes[n].time)
  <2>1. SUFFICES ASSUME NEW n \in DOMAIN nodes, n # e.node
                 PROVE  ~Precedes(w.time, nodes[n].time)
    BY <1>3, <1>5 DEF ViewFrom
  <2>2. /\ n \in DOMAIN c.nodes /\ nodes[n] = c.nodes[n]
        /\ nodes[n].time \in LogicalTime /\ c.time \in LogicalTime
        /\ ~Precedes(c.time, nodes[n].time)
    BY <1>3, <2>1 DEF Sound, ViewOfNode
  <2> QED
    BY <1>5, <2>2, TimeTransitive
<1>7. PhaseFollows(w)
  BY <1>1, DerivedPhase DEF PhaseFollows
<1>8. JournalTyped(w)
  BY <1>1 DEF Sound, JournalTyped
<1>9. Sound(w)
  BY <1>1, <1>4, <1>5, <1>6, <1>7, <1>8 DEF Sound
<1> QED
  BY <1>1, <1>9


\* A sound state can be evaluated exactly when its phases do not exclude each
\* other.
LEMMA EvaluableUnlessMixed ==
  ASSUME NEW c, Sound(c), NEW o
  PROVE  CanEvaluate(c, o) <=> ~Mixed(c.nodes)
<1>1. Sound(Barred(c, o)) /\ Barred(c, o).nodes = c.nodes
  BY BarredSound
<1> QED
  BY <1>1 DEF CanEvaluate, ValidCluster, Mixed, Sound, PhaseFollows

\* applyLifecycleEvent, when it returns: a sound state in which either the
\* event was already the last of its node, or it has become so.
LEMMA ApplySound ==
  ASSUME NEW c, Sound(c), NEW e \in LifecycleEvent, NEW o, CanApply(c, e, o)
  PROVE  /\ Sound(Apply(c, e, o))
         /\ Extends(Apply(c, e, o), c)
         /\ ~Mixed(Apply(c, e, o).nodes)
         /\ \/ /\ SameEvent(c, e)
               /\ Apply(c, e, o).nodes = c.nodes
               /\ Apply(c, e, o).time = c.time
            \/ /\ EventAccepted(c, e)
               /\ Apply(c, e, o).nodes = Put(c.nodes, e.node, ViewFrom(e))
               /\ Apply(c, e, o).time = LaterTime(c.time, e.time)
<1> DEFINE v == Evaluate(c, o)
           w == WithEvent(v, e, o)
<1>1. Sound(v) /\ v.nodes = c.nodes /\ v.time = c.time /\ Extends(v, c)
  BY EvaluateSound
<1>2. ~Mixed(c.nodes)
  BY EvaluableUnlessMixed DEF CanApply
<1>3. CASE SameEvent(c, e)
  BY <1>1, <1>2, <1>3 DEF Apply
<1>4. CASE ~SameEvent(c, e)
  <2>1. EventAccepted(c, e) /\ CanEvaluate(w, o)
    BY <1>4 DEF CanApply
  <2> HIDE DEF v
  <2>2. /\ Sound(w) /\ w.journal = v.journal
        /\ w.nodes = Put(v.nodes, e.node, ViewFrom(e))
        /\ w.time = LaterTime(v.time, e.time)
    BY <1>1, WithEventSound
  <2> HIDE DEF w
  <2>3. ~Mixed(w.nodes)
    BY <2>1, <2>2, EvaluableUnlessMixed
  <2>4. /\ Sound(Evaluate(w, o)) /\ Extends(Evaluate(w, o), w)
        /\ Evaluate(w, o).nodes = w.nodes /\ Evaluate(w, o).time = w.time
    BY <2>2, EvaluateSound
  <2>5. Apply(c, e, o) = Evaluate(w, o)
    BY <1>4 DEF Apply, v, w
  <2> QED
    BY <1>1, <2>1, <2>2, <2>3, <2>4, <2>5 DEF Extends
<1> QED
  BY <1>3, <1>4


-----------------------------------------------------------------------------
(* The inductive invariant. *)

\* What the nodes have reported: one event per counter, and nothing after a
\* node has stopped.
Reported ==
  /\ actual \in [Node -> NodePhase]
  /\ counter \in [Node -> Nat]
  /\ emitted \subseteq LifecycleEvent
  /\ \A e \in emitted :
       /\ e.to = Target(e)
       /\ e.time.node = e.node
       /\ e.time.counter <= counter[e.node]
       /\ e.to = "STOPPED" =>
            actual[e.node] = "STOPPED" /\ e.time.counter = counter[e.node]
  /\ \A e, f \in emitted : e.node = f.node /\ e.time = f.time => e = f

Replicas ==
  /\ DOMAIN cluster = Replica
  /\ applied \in [Replica -> SUBSET emitted]
  /\ \A r \in Replica : Sound(cluster[r]) /\ ~Mixed(cluster[r].nodes)

\* e is the newest event of its node among those that r has accepted.
NewestApplied(r, e) ==
  /\ e \in applied[r]
  /\ \A f \in applied[r] : f.node = e.node => ~Precedes(e.time, f.time)

\* The state of r is determined by the events it has accepted: each node by
\* its newest event, the clock by the newest of all.
Reflects(r) ==
  LET c == cluster[r]
  IN  /\ \A e \in applied[r] : e.node \in DOMAIN c.nodes
      /\ \A n \in DOMAIN c.nodes : \E e \in applied[r] :
           e.node = n /\ NewestApplied(r, e) /\ c.nodes[n] = ViewFrom(e)
      /\ c.time \in {InitialCluster.time} \cup {e.time : e \in applied[r]}
      /\ \A t \in {InitialCluster.time} \cup {e.time : e \in applied[r]} :
           ~Precedes(c.time, t)

LifecycleInv == Reported /\ Replicas /\ \A r \in Replica : Reflects(r)

LEMMA LifecycleInit == Init => LifecycleInv
<1> SUFFICES ASSUME Init PROVE LifecycleInv
  OBVIOUS
<1>1. Reported
  BY DEF Init, Reported
<1>2. ~Mixed(InitialCluster.nodes)
  BY InitialSound DEF Mixed, PhasesOf
<1>3. Replicas
  BY <1>2, InitialSound DEF Init, Replicas
<1>4. InitialCluster.time \in LogicalTime
  BY InitialSound DEF Sound
<1>5. ASSUME NEW r \in Replica PROVE Reflects(r)
  BY <1>4, InitialSound, TimeIrreflexive DEF Init, Reflects
<1> QED
  BY <1>1, <1>3, <1>5 DEF LifecycleInv

\* A node reports: the replicas have not seen the event yet.
LEMMA EmitKeeps ==
  ASSUME LifecycleInv, NEW n \in Node, NEW type \in EventType, NEW to \in NodePhase,
         Emit(n, type, to), actual[n] # "STOPPED",
         type = "NODE_FAILED" => to = "FAILED",
         type = "NODE_RECOVERED" => to = "DEGRADED"
  PROVE  LifecycleInv'
<1> DEFINE e == [type |-> type, node |-> n, from |-> actual[n], to |-> to,
                 time |-> [counter |-> counter[n] + 1, node |-> n]]
<1> USE DEF LifecycleInv
<1>1. /\ actual' = [actual EXCEPT ![n] = to]
      /\ counter' = [counter EXCEPT ![n] = counter[n] + 1]
      /\ emitted' = emitted \cup {e}
      /\ cluster' = cluster /\ applied' = applied
  BY DEF Emit
<1>2. counter[n] \in Nat /\ actual[n] \in NodePhase
  BY DEF Reported
<1>3. e \in LifecycleEvent /\ e.to = Target(e)
  BY <1>2 DEF LifecycleEvent, LogicalTime, Target, EventType
<1>4. \A f \in emitted : f.node = n => f.time.counter <= counter[n]
  BY DEF Reported
<1>5. \A f \in emitted : f.time.counter \in Nat
  BY DEF Reported, LifecycleEvent, LogicalTime
<1>6. actual' \in [Node -> NodePhase] /\ counter' \in [Node -> Nat]
  BY <1>1, <1>2 DEF Reported
<1>7. ASSUME NEW f \in emitted'
      PROVE  /\ f.to = Target(f) /\ f.time.node = f.node
             /\ f.time.counter <= counter'[f.node]
             /\ f.to = "STOPPED" =>
                  actual'[f.node] = "STOPPED" /\ f.time.counter = counter'[f.node]
  <2>1. CASE f = e
    BY <1>1, <1>2, <1>3, <2>1 DEF Reported
  <2>2. CASE f \in emitted
    <3>1. f.node \in Node
      BY <2>2 DEF Reported, LifecycleEvent
    <3>2. f.to = "STOPPED" => f.node # n
      BY <2>2 DEF Reported
    <3> QED
      BY <1>1, <1>2, <1>5, <2>2, <3>1, <3>2 DEF Reported
  <2> QED
    BY <1>1, <2>1, <2>2
<1>8. ASSUME NEW f \in emitted', NEW g \in emitted', f.node = g.node, f.time = g.time
      PROVE  f = g
  <2>1. \A h \in emitted : h.node = n => h.time.counter # e.time.counter
    BY <1>2, <1>4, <1>5
  <2> QED
    BY <1>1, <1>8, <2>1 DEF Reported
<1>9. Reported'
  BY <1>1, <1>3, <1>6, <1>7, <1>8 DEF Reported
<1>10. Replicas'
  BY <1>1 DEF Replicas
<1>11. \A r \in Replica : Reflects(r)'
  BY <1>1 DEF Reflects, NewestApplied
<1> QED
  BY <1>9, <1>10, <1>11

\* A replica is evaluated again: nothing Reflects looks at changes.
LEMMA ReevaluateKeeps ==
  ASSUME LifecycleInv, NEW r \in Replica, NEW o, Reevaluate(r, o)
  PROVE  LifecycleInv'
<1> DEFINE v == Evaluate(cluster[r], o)
<1> USE DEF LifecycleInv
<1>1. /\ Sound(v) /\ v.nodes = cluster[r].nodes /\ v.time = cluster[r].time
  BY EvaluateSound DEF Replicas
<1> HIDE DEF v
<1>2. /\ cluster' = [cluster EXCEPT ![r] = v]
      /\ actual' = actual /\ counter' = counter
      /\ emitted' = emitted /\ applied' = applied
  BY DEF Reevaluate, v
<1>3. /\ DOMAIN cluster' = Replica
      /\ \A s \in Replica : cluster'[s] = IF s = r THEN v ELSE cluster[s]
  BY <1>2 DEF Replicas
<1>4. Reported'
  BY <1>2 DEF Reported
<1>5. Replicas'
  BY <1>1, <1>2, <1>3 DEF Replicas
<1>6. ASSUME NEW s \in Replica PROVE Reflects(s)'
  <2>1. cluster'[s].nodes = cluster[s].nodes /\ cluster'[s].time = cluster[s].time
    BY <1>1, <1>3
  <2>2. Reflects(s)
    OBVIOUS
  <2> QED
    BY <1>2, <2>1, <2>2 DEF Reflects, NewestApplied
<1> QED
  BY <1>4, <1>5, <1>6


\* An event is its own id: two events of one node with the same counter are
\* the same event.
LEMMA EventIdUnique ==
  ASSUME Reported, NEW e \in emitted, NEW f \in emitted, EventId(e) = EventId(f)
  PROVE  e = f
<1>1. e.node = f.node /\ e.time.counter = f.time.counter
  BY DEF EventId
<1>2. e.time.node = e.node /\ f.time.node = f.node
  BY DEF Reported
<1>3. e.time \in LogicalTime /\ f.time \in LogicalTime
  BY DEF Reported, LifecycleEvent
<1>4. e.time = f.time
  BY <1>1, <1>2, <1>3 DEF LogicalTime
<1> QED
  BY <1>1, <1>4 DEF Reported

\* A replica accepts an event: the first time it becomes the newest of its
\* node, afterwards nothing changes.
LEMMA DeliverKeeps ==
  ASSUME LifecycleInv, NEW r \in Replica, NEW e \in emitted, NEW o, Deliver(r, e, o)
  PROVE  LifecycleInv'
<1> DEFINE c == cluster[r]
           v == Apply(c, e, o)
<1> USE DEF LifecycleInv
<1>1. e \in LifecycleEvent /\ Sound(c) /\ CanApply(c, e, o)
  BY DEF Deliver, Reported, Replicas
<1>2. /\ Sound(v) /\ ~Mixed(v.nodes)
      /\ \/ SameEvent(c, e) /\ v.nodes = c.nodes /\ v.time = c.time
         \/ /\ EventAccepted(c, e)
            /\ v.nodes = Put(c.nodes, e.node, ViewFrom(e))
            /\ v.time = LaterTime(c.time, e.time)
  BY <1>1, ApplySound
<1> HIDE DEF v
<1>3. /\ cluster' = [cluster EXCEPT ![r] = v]
      /\ applied' = [applied EXCEPT ![r] = applied[r] \cup {e}]
      /\ actual' = actual /\ counter' = counter /\ emitted' = emitted
  BY DEF Deliver, v
<1>4. /\ DOMAIN cluster' = Replica
      /\ \A s \in Replica : cluster'[s] = IF s = r THEN v ELSE cluster[s]
      /\ applied' \in [Replica -> SUBSET emitted']
      /\ \A s \in Replica :
           applied'[s] = IF s = r THEN applied[r] \cup {e} ELSE applied[s]
  BY <1>3 DEF Replicas
<1>5. Reported'
  BY <1>3 DEF Reported
<1>6. Replicas'
  BY <1>2, <1>4 DEF Replicas
<1>7. applied[r] \subseteq emitted /\ emitted \subseteq LifecycleEvent
  BY DEF Replicas, Reported
<1>8. \A f \in emitted : f.time \in LogicalTime
  BY <1>7 DEF LifecycleEvent
<1>9. ASSUME NEW s \in Replica, s # r PROVE Reflects(s)'
  <2>1. cluster'[s] = cluster[s] /\ applied'[s] = applied[s] /\ Reflects(s)
    BY <1>4, <1>9
  <2> QED
    BY <2>1 DEF Reflects, NewestApplied
<1>10. CASE SameEvent(c, e) /\ v.nodes = c.nodes /\ v.time = c.time
  <2>1. PICK f \in applied[r] : f.node = e.node /\ c.nodes[e.node] = ViewFrom(f)
    BY <1>10 DEF SameEvent, Reflects
  <2>2. EventId(f) = EventId(e)
    BY <1>10, <2>1 DEF SameEvent, ViewFrom
  <2>3. e = f
    BY <1>7, <2>1, <2>2, EventIdUnique
  <2>4. applied'[r] = applied[r] /\ cluster'[r] = v
    BY <1>4, <2>1, <2>3
  <2>5. Reflects(r)
    OBVIOUS
  <2>6. Reflects(r)'
    BY <1>10, <2>4, <2>5 DEF Reflects, NewestApplied
  <2> QED
    BY <1>5, <1>6, <1>9, <2>6
<1>11. CASE /\ EventAccepted(c, e)
            /\ v.nodes = Put(c.nodes, e.node, ViewFrom(e))
            /\ v.time = LaterTime(c.time, e.time)
  <2>1. applied'[r] = applied[r] \cup {e} /\ cluster'[r] = v
    BY <1>4
  <2>2. /\ DOMAIN v.nodes = DOMAIN c.nodes \cup {e.node}
        /\ v.nodes[e.node] = ViewFrom(e)
        /\ \A n \in DOMAIN c.nodes : n # e.node => v.nodes[n] = c.nodes[n]
    BY <1>11 DEF Put
  <2>3. Reflects(r)
    OBVIOUS
  <2>4. \A f \in applied'[r] : f.node \in DOMAIN v.nodes
    BY <2>1, <2>2, <2>3 DEF Reflects
  <2>5. \A f \in applied[r] : f.node = e.node => ~Precedes(e.time, f.time)
    <3>1. SUFFICES ASSUME NEW f \in applied[r], f.node = e.node
                   PROVE  ~Precedes(e.time, f.time)
      OBVIOUS
    <3>2. e.node \in DOMAIN c.nodes
      BY <2>3, <3>1 DEF Reflects
    <3>3. PICK g \in applied[r] :
            g.node = e.node /\ NewestApplied(r, g) /\ c.nodes[e.node] = ViewFrom(g)
      BY <2>3, <3>2 DEF Reflects
    <3>4. ~Precedes(g.time, f.time)
      BY <3>1, <3>3 DEF NewestApplied
    <3>5. ~Precedes(e.time, g.time)
      BY <1>11, <3>2, <3>3 DEF EventAccepted, ViewFrom
    <3> QED
      BY <1>7, <1>8, <3>4, <3>5, TimeTransitive
  <2>6. NewestApplied(r, e)'
    <3>1. ~Precedes(e.time, e.time)
      BY <1>8, TimeIrreflexive
    <3> QED
      BY <2>1, <2>5, <3>1 DEF NewestApplied
  <2>7. ASSUME NEW n \in DOMAIN v.nodes
        PROVE  \E f \in applied'[r] :
                 f.node = n /\ NewestApplied(r, f)' /\ v.nodes[n] = ViewFrom(f)
    <3>1. CASE n = e.node
      BY <2>1, <2>2, <2>6, <3>1
    <3>2. CASE n # e.node
      <4>1. n \in DOMAIN c.nodes /\ v.nodes[n] = c.nodes[n]
        BY <2>2, <3>2
      <4>2. PICK f \in applied[r] :
              f.node = n /\ NewestApplied(r, f) /\ c.nodes[n] = ViewFrom(f)
        BY <2>3, <4>1 DEF Reflects
      <4>3. NewestApplied(r, f)'
        BY <2>1, <3>2, <4>2 DEF NewestApplied
      <4> QED
        BY <2>1, <4>1, <4>2, <4>3
    <3> QED
      BY <3>1, <3>2
  <2> DEFINE times == {InitialCluster.time} \cup {f.time : f \in applied[r]}
  <2>8. c.time \in LogicalTime /\ e.time \in LogicalTime /\ times \subseteq LogicalTime
    BY <1>1, <1>7, <1>8, InitialSound DEF Sound
  <2>9. c.time \in times /\ \A t \in times : ~Precedes(c.time, t)
    BY <2>3 DEF Reflects
  <2>10. {InitialCluster.time} \cup {f.time : f \in applied'[r]} = times \cup {e.time}
    BY <2>1
  <2>11. /\ v.time \in {c.time, e.time}
         /\ ~Precedes(v.time, c.time) /\ ~Precedes(v.time, e.time)
    BY <1>11, <2>8, LaterTimeDominates
  <2>12. v.time \in times \cup {e.time}
    BY <2>9, <2>11
  <2>13. \A t \in times \cup {e.time} : ~Precedes(v.time, t)
    <3>1. SUFFICES ASSUME NEW t \in times PROVE ~Precedes(v.time, t)
      BY <2>11
    <3>2. ~Precedes(c.time, t)
      BY <2>9
    <3> QED
      BY <2>8, <2>11, <3>2, TimeTransitive
  <2>14. Reflects(r)'
    BY <2>1, <2>4, <2>7, <2>10, <2>12, <2>13 DEF Reflects
  <2> QED
    BY <1>5, <1>6, <1>9, <2>14
<1> QED
  BY <1>2, <1>10, <1>11


\* Every step of a node or a replica keeps the invariant.
LEMMA LifecycleInductive == LifecycleInv /\ [Next]_vars => LifecycleInv'
<1> SUFFICES ASSUME LifecycleInv, [Next]_vars PROVE LifecycleInv'
  OBVIOUS
<1>1. CASE UNCHANGED vars
  BY <1>1 DEF vars, LifecycleInv, Reported, Replicas, Reflects, NewestApplied
<1>2. ASSUME NEW n \in Node, ChangePhase(n) PROVE LifecycleInv'
  <2>1. actual[n] \in NodePhase
    BY DEF LifecycleInv, Reported
  <2>2. PICK to \in AllowedTransitions[actual[n]] : Emit(n, "NODE_PHASE_CHANGED", to)
    BY <1>2 DEF ChangePhase
  <2>3. to \in NodePhase /\ actual[n] # "STOPPED"
    BY <2>1, <2>2 DEF AllowedTransitions
  <2> QED
    BY <2>2, <2>3, EmitKeeps DEF EventType
<1>3. ASSUME NEW n \in Node, ReportFailure(n) PROVE LifecycleInv'
  BY <1>3, EmitKeeps DEF ReportFailure, EventType
<1>4. ASSUME NEW n \in Node, ReportRecovery(n) PROVE LifecycleInv'
  BY <1>4, EmitKeeps DEF ReportRecovery, EventType
<1>5. ASSUME NEW r \in Replica, NEW o \in Options, Reevaluate(r, o)
      PROVE  LifecycleInv'
  BY <1>5, ReevaluateKeeps
<1>6. ASSUME NEW r \in Replica, NEW o \in Options, NEW e \in emitted, Deliver(r, e, o)
      PROVE  LifecycleInv'
  BY <1>6, DeliverKeeps
<1> QED
  BY <1>1, <1>2, <1>3, <1>4, <1>5, <1>6 DEF Next

\* The invariant holds in every reachable state.
THEOREM LifecycleInvariant == Spec => []LifecycleInv
<1>1. Init => LifecycleInv
  BY LifecycleInit
<1>2. LifecycleInv /\ [Next]_vars => LifecycleInv'
  BY LifecycleInductive
<1> QED
  BY <1>1, <1>2, PTL DEF Spec

-----------------------------------------------------------------------------
(* The theorems. *)

\* Types: nodes, replicas and their cluster states stay well formed, whatever
\* the options of the calls (applyLifecycleEvent, evaluateClusterState).
THEOREM LifecycleTypeCorrect == Spec => []LifecycleTypeOK
<1>1. LifecycleInv => LifecycleTypeOK
  <2> SUFFICES ASSUME LifecycleInv PROVE LifecycleTypeOK
    OBVIOUS
  <2> USE DEF LifecycleInv
  <2>1. ASSUME NEW r \in Replica
        PROVE  LET c == cluster[r]
               IN  /\ DOMAIN c.nodes \subseteq Node
                   /\ \A n \in DOMAIN c.nodes : c.nodes[n] \in NodeState
                   /\ c.phase \in ClusterPhase
                   /\ c.time \in LogicalTime
                   /\ c.executed \subseteq ComplianceAction
                   /\ \A i \in DOMAIN c.journal : c.journal[i] \in ComplianceAction
    <3> DEFINE c == cluster[r]
    <3>1. Sound(c)
      BY DEF Replicas
    <3>2. c.phase \in ClusterPhase
      BY <3>1, DerivedPhase DEF Sound, PhaseFollows
    <3>3. ASSUME NEW n \in DOMAIN c.nodes PROVE c.nodes[n] \in NodeState
      <4>1. PICK e \in applied[r] : c.nodes[n] = ViewFrom(e)
        BY DEF Reflects
      <4>2. c.nodes[n] \in ViewOfNode /\ e \in emitted
        BY <3>1 DEF Sound, Replicas
      <4>3. ViewFrom(e).lastEventId \in {EventId(f) : f \in emitted}
        BY <4>2 DEF ViewFrom
      <4> QED
        BY <4>1, <4>2, <4>3 DEF ViewOfNode, NodeState, ViewFrom
    <3> QED
      BY <3>1, <3>2, <3>3 DEF Sound, JournalTyped
  <2> QED
    BY <2>1 DEF LifecycleTypeOK, Reported, Replicas
<1> QED
  BY <1>1, LifecycleInvariant, PTL

\* The phase of a cluster is the one its nodes determine, up to a halt.
THEOREM PhaseSafe == Spec => []PhaseFollowsNodes
<1>1. LifecycleInv => PhaseFollowsNodes
  BY DEF LifecycleInv, Replicas, Sound, PhaseFollows, PhaseFollowsNodes
<1> QED
  BY <1>1, LifecycleInvariant, PTL

\* Phase barriers never come into effect on the event path: no sequence of
\* events and evaluations, in either mode, records a violation.
THEOREM BarriersNeverFire == Spec => []NoBarrierResidue
<1>1. LifecycleInv => NoBarrierResidue
  BY DEF LifecycleInv, Replicas, Sound, NoBarrierResidue
<1> QED
  BY <1>1, LifecycleInvariant, PTL

\* The executed actions of a cluster are those of its journal.
THEOREM JournalSafe == Spec => []ExecutedIsJournalled
<1>1. LifecycleInv => ExecutedIsJournalled
  BY DEF LifecycleInv, Replicas, Sound, JournalTyped, ExecutedIsJournalled
<1> QED
  BY <1>1, LifecycleInvariant, PTL

\* Two replicas that accepted the same events hold the same nodes and clock,
\* and the same phase up to a halt.
THEOREM OrderIndependent == Spec => []SameEventsSameView
<1>1. LifecycleInv => SameEventsSameView
  <2> SUFFICES ASSUME LifecycleInv, NEW r \in Replica, NEW s \in Replica,
                      applied[r] = applied[s]
               PROVE  /\ cluster[r].nodes = cluster[s].nodes
                      /\ cluster[r].time = cluster[s].time
                      /\ \/ cluster[r].phase = cluster[s].phase
                         \/ {cluster[r].phase, cluster[s].phase} = {"FAILED", "HALTED"}
    BY DEF SameEventsSameView
  <2> USE DEF LifecycleInv
  <2>1. Sound(cluster[r]) /\ Sound(cluster[s]) /\ Reflects(r) /\ Reflects(s)
    BY DEF Replicas
  <2>2. applied[r] \subseteq emitted /\ \A e \in emitted : e.time \in LogicalTime
    BY DEF Replicas, Reported, LifecycleEvent
  <2>3. DOMAIN cluster[r].nodes = DOMAIN cluster[s].nodes
    <3>1. ASSUME NEW n PROVE n \in DOMAIN cluster[r].nodes
                               <=> \E e \in applied[r] : e.node = n
      BY <2>1 DEF Reflects
    <3>2. ASSUME NEW n PROVE n \in DOMAIN cluster[s].nodes
                               <=> \E e \in applied[s] : e.node = n
      BY <2>1 DEF Reflects
    <3> QED
      BY <3>1, <3>2
  <2>4. ASSUME NEW n \in DOMAIN cluster[r].nodes
        PROVE  cluster[r].nodes[n] = cluster[s].nodes[n]
    <3>1. PICK e \in applied[r] :
            e.node = n /\ NewestApplied(r, e) /\ cluster[r].nodes[n] = ViewFrom(e)
      BY <2>1 DEF Reflects
    <3>2. PICK f \in applied[s] :
            f.node = n /\ NewestApplied(s, f) /\ cluster[s].nodes[n] = ViewFrom(f)
      BY <2>1, <2>3 DEF Reflects
    <3>3. ~Precedes(e.time, f.time) /\ ~Precedes(f.time, e.time)
      BY <3>1, <3>2 DEF NewestApplied
    <3>4. e.time = f.time
      BY <2>2, <3>3, TimeAntisymmetric
    <3>5. e = f
      BY <2>2, <3>1, <3>2, <3>4 DEF Reported
    <3> QED
      BY <3>1, <3>2, <3>5
  <2>5. cluster[r].nodes = cluster[s].nodes
    BY <2>1, <2>3, <2>4 DEF Sound
  <2>6. cluster[r].time = cluster[s].time
    <3>1. /\ ~Precedes(cluster[r].time, cluster[s].time)
          /\ ~Precedes(cluster[s].time, cluster[r].time)
      BY <2>1 DEF Reflects
    <3> QED
      BY <2>1, <3>1, TimeAntisymmetric DEF Sound
  <2>7. \/ cluster[r].phase = cluster[s].phase
        \/ {cluster[r].phase, cluster[s].phase} = {"FAILED", "HALTED"}
    BY <2>1, <2>5 DEF Sound, PhaseFollows
  <2> QED
    BY <2>5, <2>6, <2>7
<1> QED
  BY <1>1, LifecycleInvariant, PTL

\* The newest failure of a node is accepted by every replica, whatever it has
\* missed before.
THEOREM FailureAccepted == Spec => []FailureNeverRefused
<1>1. LifecycleInv => FailureNeverRefused
  <2> SUFFICES ASSUME LifecycleInv, NEW r \in Replica, NEW e \in emitted, NEW o \in Options,
                      e.type = "NODE_FAILED", Newest(r, e)
               PROVE  CanApply(cluster[r], e, o)
    BY DEF FailureNeverRefused
  <2> USE DEF LifecycleInv
  <2> DEFINE c == cluster[r]
             v == Evaluate(c, o)
             w == WithEvent(v, e, o)
  <2>1. Sound(c) /\ ~Mixed(c.nodes) /\ e \in LifecycleEvent
    BY DEF Replicas, Reported
  <2>2. Sound(v) /\ v.nodes = c.nodes
    BY <2>1, EvaluateSound
  <2>3. CanEvaluate(c, o)
    BY <2>1, EvaluableUnlessMixed
  <2>4. Target(e) = "FAILED"
    BY DEF Target
  <2>5. PhaseOf(c, e.node) \in NodePhase \ {"STOPPED"}
    <3>1. CASE e.node \notin DOMAIN c.nodes
      BY <3>1 DEF PhaseOf
    <3>2. CASE e.node \in DOMAIN c.nodes
      <4>1. PICK f \in applied[r] : f.node = e.node /\ c.nodes[e.node] = ViewFrom(f)
        BY <3>2 DEF Reflects
      <4>2. f \in emitted /\ f.to = Target(f) /\ f.to \in NodePhase
        BY DEF Replicas, Reported, LifecycleEvent
      <4>3. Precedes(f.time, e.time)
        BY <3>2, <4>1 DEF Newest, ViewFrom
      <4>4. f.time.node = e.time.node
        BY <4>1, <4>2 DEF Reported
      <4>5. /\ f.time.counter \in Nat /\ e.time.counter \in Nat
            /\ rank[f.time.node] \in Nat
        BY <2>1, <4>2, EvaluationAssumption DEF Reported, LifecycleEvent, LogicalTime
      <4>6. f.time.counter < e.time.counter
        BY <4>3, <4>4, <4>5 DEF Precedes
      <4>7. e.time.counter <= counter[e.node] /\ counter[e.node] \in Nat
        BY <2>1 DEF Reported, LifecycleEvent
      <4>8. f.to # "STOPPED"
        BY <4>1, <4>2, <4>5, <4>6, <4>7 DEF Reported
      <4> QED
        BY <3>2, <4>1, <4>2, <4>8 DEF PhaseOf, ViewFrom
    <3> QED
      BY <3>1, <3>2
  <2>6. TransitionAllowed(PhaseOf(c, e.node), "FAILED")
    BY <2>5 DEF TransitionAllowed, AllowedTransitions
  <2>7. EventAccepted(c, e)
    <3>1. ASSUME e.node \in DOMAIN c.nodes
          PROVE  ~Precedes(e.time, c.nodes[e.node].time)
      <4>1. c.nodes[e.node].time \in LogicalTime /\ e.time \in LogicalTime
        BY <2>1, <3>1 DEF Sound, ViewOfNode, LifecycleEvent
      <4> QED
        BY <3>1, <4>1, TimeIrreflexive DEF Newest
    <3> QED
      BY <2>4, <2>6, <3>1 DEF EventAccepted
  <2> HIDE DEF v
  <2>8. Sound(w) /\ w.nodes = Put(v.nodes, e.node, ViewFrom(e))
    BY <2>1, <2>2, WithEventSound
  <2>9. PhasesOf(w.nodes) \subseteq PhasesOf(v.nodes) \cup {"FAILED"}
    BY <2>4, <2>8 DEF PhasesOf, Put, ViewFrom
  <2>10. CanEvaluate(w, o)
    <3> HIDE DEF w
    <3>1. ~Mixed(w.nodes)
      BY <2>1, <2>2, <2>9 DEF Mixed
    <3> QED
      BY <2>8, <3>1, EvaluableUnlessMixed
  <2> QED
    BY <2>3, <2>7, <2>10 DEF CanApply, v
<1> QED
  BY <1>1, LifecycleInvariant, PTL

\* No record of the journal is rewritten or lost and no clock goes back.
THEOREM HistoryGrows == Spec => HistoryOnlyGrows
<1> DEFINE Grows ==
      \A r \in Replica :
        /\ ~Precedes(cluster'[r].time, cluster[r].time)
        /\ \A i \in DOMAIN cluster[r].journal :
             /\ i \in DOMAIN cluster'[r].journal
             /\ cluster'[r].journal[i] = cluster[r].journal[i]
<1>1. LifecycleInv /\ [Next]_vars => [Grows]_vars
  <2> SUFFICES ASSUME LifecycleInv, Next PROVE Grows
    OBVIOUS
  <2>1. \A r \in Replica : Sound(cluster[r]) /\ cluster[r].time \in LogicalTime
    BY DEF LifecycleInv, Replicas, Sound
  <2>2. ASSUME cluster' = cluster PROVE Grows
    BY <2>1, <2>2, TimeIrreflexive
  <2>3. ASSUME NEW r \in Replica, NEW v, cluster' = [cluster EXCEPT ![r] = v],
               Extends(v, cluster[r]), ~Precedes(v.time, cluster[r].time)
        PROVE  Grows
    <3>1. \A s \in Replica : cluster'[s] = IF s = r THEN v ELSE cluster[s]
      BY <2>3 DEF LifecycleInv, Replicas
    <3> QED
      BY <2>1, <2>3, <3>1, TimeIrreflexive DEF Extends
  <2>4. ASSUME NEW n \in Node, ChangePhase(n) \/ ReportFailure(n) \/ ReportRecovery(n)
        PROVE  Grows
    <3>1. cluster' = cluster
      BY <2>4 DEF ChangePhase, ReportFailure, ReportRecovery, Emit
    <3> QED
      BY <2>2, <3>1
  <2>5. ASSUME NEW r \in Replica, NEW o \in Options, Reevaluate(r, o) PROVE Grows
    <3>1. /\ Extends(Evaluate(cluster[r], o), cluster[r])
          /\ Evaluate(cluster[r], o).time = cluster[r].time
      BY <2>1, EvaluateSound
    <3>2. ~Precedes(cluster[r].time, cluster[r].time)
      BY <2>1, TimeIrreflexive
    <3>3. cluster' = [cluster EXCEPT ![r] = Evaluate(cluster[r], o)]
      BY <2>5 DEF Reevaluate
    <3> QED
      BY <2>3, <3>1, <3>2, <3>3
  <2>6. ASSUME NEW r \in Replica, NEW o \in Options, NEW e \in emitted, Deliver(r, e, o)
        PROVE  Grows
    <3> DEFINE v == Apply(cluster[r], e, o)
    <3>1. CanApply(cluster[r], e, o) /\ cluster' = [cluster EXCEPT ![r] = v]
      BY <2>6 DEF Deliver
    <3>2. e \in LifecycleEvent /\ e.time \in LogicalTime
      BY DEF LifecycleInv, Reported, LifecycleEvent
    <3>3. Extends(v, cluster[r])
      BY <2>1, <3>1, <3>2, ApplySound
    <3>4. v.time \in {cluster[r].time, LaterTime(cluster[r].time, e.time)}
      BY <2>1, <3>1, <3>2, ApplySound
    <3> HIDE DEF v
    <3>5. ~Precedes(v.time, cluster[r].time)
      BY <2>1, <3>2, <3>4, TimeIrreflexive, LaterTimeDominates
    <3> QED
      BY <2>3, <3>1, <3>3, <3>5
  <2> QED
    BY <2>4, <2>5, <2>6 DEF Next
<1> QED
  BY <1>1, LifecycleInvariant, PTL DEF Spec, HistoryOnlyGrows

\* A repetition shows nothing new: an event accepted before either is the one
\* its node shows or is refused as older than it.
THEOREM RepeatsAreIdle == Spec => RepeatsShowNothingNew
<1> DEFINE Same(c, d) ==
             /\ d.nodes = c.nodes /\ d.time = c.time /\ d.violations = c.violations
             /\ d.phase = c.phase \/ {d.phase, c.phase} = {"FAILED", "HALTED"}
           Idle == \A r \in Replica :
             applied'[r] = applied[r] =>
               /\ cluster'[r].nodes = cluster[r].nodes
               /\ cluster'[r].time = cluster[r].time
               /\ cluster'[r].violations = cluster[r].violations
               /\ \/ cluster'[r].phase = cluster[r].phase
                  \/ {cluster'[r].phase, cluster[r].phase} = {"FAILED", "HALTED"}
<1>1. ASSUME NEW c, NEW d, Sound(c), Sound(d), d.nodes = c.nodes, d.time = c.time
      PROVE  Same(c, d)
  BY <1>1 DEF Sound, PhaseFollows
<1>2. LifecycleInv /\ [Next]_vars => [Idle]_vars
  <2> SUFFICES ASSUME LifecycleInv, [Next]_vars, NEW s \in Replica, applied'[s] = applied[s]
               PROVE  Same(cluster[s], cluster'[s])
    OBVIOUS
  <2> HIDE DEF Same
  <2>1. \A r \in Replica : Sound(cluster[r])
    BY DEF LifecycleInv, Replicas
  <2>2. ASSUME cluster'[s] = cluster[s] PROVE Same(cluster[s], cluster'[s])
    BY <2>2 DEF Same
  <2>3. ASSUME NEW n \in Node, ChangePhase(n) \/ ReportFailure(n) \/ ReportRecovery(n)
        PROVE  Same(cluster[s], cluster'[s])
    BY <2>2, <2>3 DEF ChangePhase, ReportFailure, ReportRecovery, Emit
  <2>4. ASSUME NEW r \in Replica, NEW o \in Options, Reevaluate(r, o)
        PROVE  Same(cluster[s], cluster'[s])
    <3>1. CASE s # r
      BY <2>2, <2>4, <3>1 DEF Reevaluate, LifecycleInv, Replicas
    <3>2. CASE s = r
      <4>1. cluster'[s] = Evaluate(cluster[s], o)
        BY <2>4, <3>2 DEF Reevaluate, LifecycleInv, Replicas
      <4> QED
        BY <1>1, <2>1, <4>1, EvaluateSound
    <3> QED
      BY <3>1, <3>2
  <2>5. ASSUME NEW r \in Replica, NEW o \in Options, NEW e \in emitted, Deliver(r, e, o)
        PROVE  Same(cluster[s], cluster'[s])
    <3>1. CASE s # r
      BY <2>2, <2>5, <3>1 DEF Deliver, LifecycleInv, Replicas
    <3>2. CASE s = r
      <4> DEFINE c == cluster[s]
                 v == Apply(c, e, o)
      <4>1. CanApply(c, e, o) /\ cluster'[s] = v
        BY <2>5, <3>2 DEF Deliver, LifecycleInv, Replicas
      <4>2. e \in applied[s]
        BY <2>5, <3>2 DEF Deliver, LifecycleInv, Replicas
      <4>3. applied[s] \subseteq emitted /\ \A f \in emitted : f \in LifecycleEvent
        BY DEF LifecycleInv, Replicas, Reported
      <4>4. \A f \in emitted : f.time \in LogicalTime
        BY <4>3 DEF LifecycleEvent
      <4>5. Sound(c) /\ Reflects(s)
        BY <2>1 DEF LifecycleInv
      <4>6. /\ Sound(v)
            /\ \/ v.nodes = c.nodes /\ v.time = c.time
               \/ /\ EventAccepted(c, e)
                  /\ v.nodes = Put(c.nodes, e.node, ViewFrom(e))
                  /\ v.time = LaterTime(c.time, e.time)
        BY <4>1, <4>3, <4>5, ApplySound
      <4> HIDE DEF v
      <4>7. ASSUME EventAccepted(c, e), v.nodes = Put(c.nodes, e.node, ViewFrom(e)),
                   v.time = LaterTime(c.time, e.time)
            PROVE  v.nodes = c.nodes /\ v.time = c.time
        <5>1. PICK g \in applied[s] :
                g.node = e.node /\ NewestApplied(s, g) /\ c.nodes[e.node] = ViewFrom(g)
          BY <4>2, <4>5 DEF Reflects
        <5>2. e.node \in DOMAIN c.nodes
          BY <4>2, <4>5 DEF Reflects
        <5>3. ~Precedes(e.time, g.time) /\ ~Precedes(g.time, e.time)
          BY <4>2, <4>7, <5>1, <5>2 DEF EventAccepted, ViewFrom, NewestApplied
        <5>4. e.time = g.time
          BY <4>3, <4>4, <5>3, TimeAntisymmetric
        <5>5. e = g
          BY <4>3, <5>1, <5>4 DEF LifecycleInv, Reported
        <5>6. v.nodes = c.nodes
          BY <4>5, <4>7, <5>1, <5>2, <5>5 DEF Put, Sound
        <5>7. ~Precedes(c.time, e.time)
          BY <4>2, <4>5 DEF Reflects
        <5>8. v.time = c.time
          BY <4>7, <5>7 DEF LaterTime
        <5> QED
          BY <5>6, <5>8
      <4> QED
        BY <1>1, <4>1, <4>5, <4>6, <4>7
    <3> QED
      BY <3>1, <3>2
  <2>6. CASE UNCHANGED vars
    BY <2>2, <2>6 DEF vars
  <2> QED
    BY <2>3, <2>4, <2>5, <2>6 DEF Next
<1> QED
  BY <1>2, LifecycleInvariant, PTL DEF Spec, RepeatsShowNothingNew

\* For a sound FAILED state the policies ask for the halt and nothing stronger.
LEMMA HaltDecided ==
  ASSUME NEW c, Sound(c), c.phase = "FAILED", NEW now
  PROVE  EvaluateCompliance(c, now).action = "HALT_CLUSTER"
<1> DEFINE asked == PolicyActions(c)
           strongest == CHOOSE i \in asked : \A j \in asked : j <= i
<1>1. CriticalViolations(c) = {}
  BY DEF CriticalViolations, TemporalConsistency, NoIllegalTransitionResidue, Sound
<1>2. asked \subseteq 1 .. 5 /\ 5 \in asked
  BY <1>1 DEF PolicyActions
<1> HIDE DEF asked
<1>3. \A j \in asked : j <= 5
  BY <1>2
<1>4. strongest \in asked /\ \A j \in asked : j <= strongest
  BY <1>2, <1>3
<1> HIDE DEF strongest
<1>5. strongest = 5
  BY <1>2, <1>4
<1>6. EvaluateCompliance(c, now).action = ActionsByStrength[strongest]
  BY DEF EvaluateCompliance, strongest, asked
<1> QED
  BY <1>5, <1>6 DEF ActionsByStrength

Explained(c) ==
  /\ Recorded(c)
  /\ c.phase = "FAILED" => HaltAskedFor(c)

\* An evaluation leaves a state explained, whatever the phase it began with.
LEMMA EvaluateExplains ==
  ASSUME NEW c, Sound(c), Recorded(c), NEW o \in Options
  PROVE  Explained(Evaluate(c, o))
<1> DEFINE b == Barred(c, o)
           d == EvaluateCompliance(b, o.timestamp)
           w == [b EXCEPT !.decision = d]
           action == EffectiveAction(d.action, o)
           v == Evaluate(c, o)
<1>1. Sound(b) /\ b.journal = c.journal
  BY BarredSound
<1>2. DOMAIN w = Fields /\ w.journal = c.journal /\ w.phase = b.phase /\ w.decision = d
  BY <1>1 DEF Sound, Fields
<1>3. v = Execute(w, d, o)
  BY DEF Evaluate
<1>4. b.phase = "FAILED" => d.action = "HALT_CLUSTER"
  BY <1>1, HaltDecided
<1>5. DecisionId(d).action = d.action
  BY DEF DecisionId
<1> HIDE DEF w, d, b, v
<1>6. ASSUME DecisionId(d) \in DOMAIN w.journal \/ o.dryRun PROVE Explained(v)
  <2>1. v = w
    BY <1>3, <1>6 DEF Execute
  <2>2. Recorded(v)
    BY <1>2, <2>1 DEF Recorded
  <2> QED
    BY <1>2, <1>4, <1>6, <2>1, <2>2 DEF Explained, HaltAskedFor
<1>7. ASSUME ~(DecisionId(d) \in DOMAIN w.journal \/ o.dryRun) PROVE Explained(v)
  <2>1. v = [Perform(w, action) EXCEPT !.journal = Put(@, DecisionId(d), action)]
    BY <1>3, <1>7 DEF Execute
  <2>2. /\ v.journal = Put(w.journal, DecisionId(d), action)
        /\ v.decision = d
        /\ v.phase \in {b.phase, "HALTED"}
    BY <1>2, <2>1 DEF Perform, Fields
  <2>3. Recorded(v)
    BY <1>2, <1>5, <2>2 DEF Recorded, Put
  <2>4. DecisionId(d) \in DOMAIN v.journal
    BY <2>2 DEF Put
  <2> QED
    BY <1>4, <2>2, <2>3, <2>4 DEF Explained, HaltAskedFor
<1> QED
  BY <1>6, <1>7 DEF v

\* An accepted event, or one that arrives again, leaves a state explained.
LEMMA ApplyExplains ==
  ASSUME NEW c, Sound(c), Recorded(c), NEW e \in LifecycleEvent, NEW o \in Options
  PROVE  Explained(Apply(c, e, o))
<1> DEFINE v == Evaluate(c, o)
           w == WithEvent(v, e, o)
<1>1. Sound(v) /\ Explained(v)
  BY EvaluateSound, EvaluateExplains
<1>2. Apply(c, e, o) = IF SameEvent(c, e) THEN v ELSE Evaluate(w, o)
  BY DEF Apply
<1> HIDE DEF v
<1>3. Sound(w) /\ w.journal = v.journal
  BY <1>1, WithEventSound
<1>4. Recorded(w)
  BY <1>1, <1>3 DEF Explained, Recorded
<1> HIDE DEF w
<1>5. Explained(Evaluate(w, o))
  BY <1>3, <1>4, EvaluateExplains
<1> QED
  BY <1>1, <1>2, <1>5

\* A cluster that failed and is not halted has the halt on record: the exact extent
\* of the finding about "Cluster FAILED must halt" (executeCore).
THEOREM HaltsAreRecorded == Spec => []UnhaltedIsRecorded
<1>1. UnhaltedIsRecorded <=> \A r \in Replica : Explained(cluster[r])
  BY DEF UnhaltedIsRecorded, Explained
<1>2. Init => UnhaltedIsRecorded
  BY DEF Init, InitialCluster, UnhaltedIsRecorded, Recorded
<1>3. LifecycleInv /\ UnhaltedIsRecorded /\ [Next]_vars => UnhaltedIsRecorded'
  <2> SUFFICES ASSUME LifecycleInv, UnhaltedIsRecorded, [Next]_vars, NEW s \in Replica
               PROVE  Explained(cluster'[s])
    BY DEF UnhaltedIsRecorded, Explained, Recorded, HaltAskedFor
  <2>1. /\ \A r \in Replica : Sound(cluster[r]) /\ Explained(cluster[r])
        /\ \A r \in Replica : Recorded(cluster[r])
    BY <1>1 DEF LifecycleInv, Replicas, UnhaltedIsRecorded
  <2>2. ASSUME cluster'[s] = cluster[s] PROVE Explained(cluster'[s])
    BY <2>1, <2>2
  <2>3. ASSUME NEW n \in Node, ChangePhase(n) \/ ReportFailure(n) \/ ReportRecovery(n)
        PROVE  Explained(cluster'[s])
    BY <2>2, <2>3 DEF ChangePhase, ReportFailure, ReportRecovery, Emit
  <2>4. ASSUME NEW r \in Replica, NEW o \in Options, Reevaluate(r, o)
        PROVE  Explained(cluster'[s])
    <3>1. cluster'[s] = IF s = r THEN Evaluate(cluster[s], o) ELSE cluster[s]
      BY <2>4 DEF Reevaluate, LifecycleInv, Replicas
    <3> QED
      BY <2>1, <3>1, EvaluateExplains
  <2>5. ASSUME NEW r \in Replica, NEW o \in Options, NEW e \in emitted, Deliver(r, e, o)
        PROVE  Explained(cluster'[s])
    <3>1. cluster'[s] = IF s = r THEN Apply(cluster[s], e, o) ELSE cluster[s]
      BY <2>5 DEF Deliver, LifecycleInv, Replicas
    <3>2. e \in LifecycleEvent
      BY DEF LifecycleInv, Reported
    <3> QED
      BY <2>1, <3>1, <3>2, ApplyExplains
  <2>6. CASE UNCHANGED vars
    BY <2>2, <2>6 DEF vars
  <2> QED
    BY <2>3, <2>4, <2>5, <2>6 DEF Next
<1> QED
  BY <1>2, <1>3, LifecycleInvariant, PTL DEF Spec
===============================================================================
