------------------------- MODULE RuntimeClusterProofs -------------------------
(***************************************************************************)
(* The cluster is a set of runtime nodes, so that what RuntimeNodeProofs   *)
(* shows of them holds in it; and it implements ReplicatedJournal.         *)
(***************************************************************************)
EXTENDS RuntimeCluster, RuntimeNodeProofs

USE ClusterAssumption

\* A step of the cluster is a step of one runtime node, of one of its requests,
\* or leaves the nodes alone.
LEMMA StepIsNodeStep ==
  ASSUME [Next]_vars
  PROVE  [NodeNext]_nodeVars
<1>1. ASSUME NEW n \in Node, ProcessStep(n)
      PROVE  NodeNext
  BY <1>1 DEF ProcessStep, NodeNext
<1>2. ASSUME NEW t \in Tick, TickFires(t) \/ AttemptSucceeds(t) \/ AttemptFails(t)
      PROVE  UNCHANGED nodeVars
  BY <1>2 DEF TickFires, AttemptSucceeds, AttemptFails
<1>3. ASSUME NEW t \in Tick, NEW n \in Node, NEW b \in Body,
             Deliver(t, n, b) \/ Lose(t, n, b)
      PROVE  NodeNext
  BY <1>3 DEF Deliver, Lose, NodeNext
<1>4. ASSUME NEW c \in Client, NEW n \in Node, NEW d \in Decision,
             ClientDelivers(c, n, d) \/ ClientFails(c, n, d)
      PROVE  NodeNext
  BY <1>4 DEF ClientDelivers, ClientFails, NodeNext, Body
<1>5. ASSUME NEW c \in Caller, BrokenConnection(c)
      PROVE  NodeNext
  BY <1>5 DEF BrokenConnection, NodeNext
<1>6. CASE UNCHANGED vars
  BY <1>6 DEF vars
<1>. QED  BY <1>1, <1>2, <1>3, <1>4, <1>5, <1>6 DEF Next

\* Gossip and clients only make requests that RuntimeNode allows, so every
\* property of NodeSpec holds of the cluster.
THEOREM ClusterIsRuntimeNodes == Spec => NodeSpec
<1>1. ClusterInit => NodeInit
  BY DEF ClusterInit
<1>2. [Next]_vars => [NodeNext]_nodeVars
  BY StepIsNodeStep
<1>. QED  BY <1>1, <1>2, PTL DEF Spec, NodeSpec

-------------------------------------------------------------------------------
(* Gossip *)

\* The round robin of the peers stays in range (PeerManager.nextPeer).
LEMMA RoundRobin ==
  ASSUME NEW i \in Nat, NEW k \in Nat \ {0}
  PROVE  (i % k) + 1 \in Nat \ {0} /\ (i % k) + 1 <= k
OBVIOUS

\* Moving on to the next body leaves a well-typed tick (GossipEngine.tick).
LEMMA NextBodyType ==
  ASSUME ClusterTypeOK, NEW t \in Tick, tick[t] # Quiet, NextBody(t)
  PROVE  tick' \in [Tick -> TickState \cup {Quiet}]
<1>1. tick[t] \in TickState
  BY DEF ClusterTypeOK
<1>2. tick[t].todo \in Seq(Body) /\ tick[t].todo # <<>>
  BY <1>1 DEF TickState
<1>3. CASE Len(tick[t].todo) = 1
  BY <1>3 DEF NextBody, ClusterTypeOK
<1>4. CASE Len(tick[t].todo) # 1
  <2>1. Tail(tick[t].todo) \in Seq(Body) \ {<<>>}
    <3>1. /\ Tail(tick[t].todo) \in Seq(Body)
          /\ Len(Tail(tick[t].todo)) = Len(tick[t].todo) - 1
      BY <1>2, HeadTailProperties
    <3>2. Len(tick[t].todo) \in Nat \ {0}
      BY <1>2, EmptySeq
    <3>3. Len(Tail(tick[t].todo)) # 0
      BY <1>4, <3>1, <3>2
    <3>. QED  BY <3>1, <3>3, EmptySeq
  <2>2. AttemptOf(tick[t].peer, Tail(tick[t].todo), 1) \in TickState
    BY <1>1, <2>1 DEF TickState, AttemptOf
  <2>. QED  BY <1>4, <2>2 DEF NextBody, ClusterTypeOK
<1>. QED  BY <1>3, <1>4

\* The types hold when the cluster is created.
LEMMA ClusterTypeInit == ClusterInit => ClusterTypeOK
<1>1. ClusterInit => TypeOK
  BY TypeInit DEF ClusterInit
<1>2. \A n \in Node : peersOf[n] # <<>> => 1 <= Len(peersOf[n])
  BY EmptySeq
<1>. QED  BY <1>1, <1>2 DEF ClusterInit, ClusterTypeOK

\* Every step of the cluster keeps the types.
LEMMA ClusterTypeStep ==
  ASSUME ClusterTypeOK, [Next]_vars
  PROVE  ClusterTypeOK'
<1>0. TypeOK'
  BY TypeStep, StepIsNodeStep DEF ClusterTypeOK
<1>. DEFINE TickType == tick' \in [Tick -> TickState \cup {Quiet}]
            PeerType == /\ nextPeer' \in [Node -> Nat \ {0}]
                        /\ \A n \in Node :
                             peersOf[n] # <<>> => nextPeer'[n] <= Len(peersOf[n])
            Types == TickType /\ PeerType /\ proposed' \subseteq Decision
<1>1. ASSUME NEW n \in Node, ProcessStep(n)
      PROVE  Types
  <2>1. \A m \in Node : peersOf[m] # <<>> => 1 <= Len(peersOf[m])
    BY EmptySeq
  <2>. QED  BY <1>1, <2>1 DEF ProcessStep, ClusterTypeOK
<1>2. ASSUME NEW t \in Tick, TickFires(t)
      PROVE  Types
  <2>. DEFINE n == home[t]
  <2>1. /\ n \in Node /\ peersOf[n] \in Seq(Node) /\ peersOf[n] # <<>>
        /\ Len(peersOf[n]) \in Nat \ {0}
        /\ nextPeer[n] \in 1 .. Len(peersOf[n])
    BY <1>2, EmptySeq DEF TickFires, ClusterTypeOK
  <2>2. peersOf[n][nextPeer[n]] \in Node
    BY <2>1
  <2>3. recent[n] \o <<StateSync>> \in Seq(Body) \ {<<>>}
    <3>1. recent[n] \in Seq(Body) /\ <<StateSync>> \in Seq(Body)
      BY <2>1, SeqMonotonic DEF ClusterTypeOK, TypeOK, Body
    <3>2. Len(recent[n] \o <<StateSync>>) = Len(recent[n]) + 1
      BY <3>1, ConcatProperties
    <3>. QED  BY <3>1, <3>2
  <2>4. AttemptOf(peersOf[n][nextPeer[n]], recent[n] \o <<StateSync>>, 1) \in TickState
    BY <2>2, <2>3 DEF TickState, AttemptOf
  <2>5. TickType
    BY <1>2, <2>4 DEF TickFires, ClusterTypeOK
  <2>6. PeerType
    <3>. DEFINE next == (nextPeer[n] % Len(peersOf[n])) + 1
    <3>1. next \in Nat \ {0} /\ next <= Len(peersOf[n])
      BY <2>1, RoundRobin
    <3>2. nextPeer' = [nextPeer EXCEPT ![n] = next]
      BY <1>2 DEF TickFires
    <3>. HIDE DEF next
    <3>. QED  BY <2>1, <3>1, <3>2 DEF ClusterTypeOK
  <2>. QED  BY <1>2, <2>5, <2>6 DEF TickFires, ClusterTypeOK
<1>3. ASSUME NEW t \in Tick, AttemptSucceeds(t) \/ AttemptFails(t)
      PROVE  Types
  <2>1. tick[t] # Quiet /\ UNCHANGED <<nextPeer, proposed>>
    BY <1>3 DEF AttemptSucceeds, AttemptFails, Result
  <2>2. CASE NextBody(t)
    BY <2>1, <2>2, NextBodyType DEF ClusterTypeOK
  <2>3. CASE tick[t].attempt < MaxAttempts /\ Retry(t)
    <3>1. tick[t] \in TickState
      BY <2>1 DEF ClusterTypeOK
    <3>2. AttemptOf(tick[t].peer, tick[t].todo, tick[t].attempt + 1) \in TickState
      BY <2>3, <3>1 DEF TickState, AttemptOf
    <3>. QED  BY <2>1, <2>3, <3>2 DEF Retry, ClusterTypeOK
  <2>. QED  BY <1>3, <2>2, <2>3 DEF AttemptSucceeds, AttemptFails
<1>4. ASSUME NEW t \in Tick, NEW n \in Node, NEW b \in Body,
             Deliver(t, n, b) \/ Lose(t, n, b)
      PROVE  Types
  <2>1. Attempt(t, n, b) /\ tick[t] \in TickState
    BY <1>4 DEF Deliver, Lose, Attempt, ClusterTypeOK
  <2>2. [tick[t] EXCEPT !.sent = TRUE] \in TickState
    BY <2>1 DEF TickState
  <2>. QED  BY <2>1, <2>2 DEF Attempt, ClusterTypeOK
<1>5. ASSUME NEW c \in Client, NEW n \in Node, NEW d \in Decision,
             ClientDelivers(c, n, d) \/ ClientFails(c, n, d)
      PROVE  Types
  BY <1>5 DEF ClientDelivers, ClientFails, ClusterTypeOK
<1>6. ASSUME NEW c \in Caller, BrokenConnection(c)
      PROVE  Types
  BY <1>6 DEF BrokenConnection, ClusterTypeOK
<1>7. ASSUME UNCHANGED vars
      PROVE  Types
  <2>1. tick' = tick /\ nextPeer' = nextPeer /\ proposed' = proposed
    BY <1>7 DEF vars
  <2>. QED  BY <2>1 DEF ClusterTypeOK
<1>8. Types
  <2>. HIDE DEF Types
  <2>. QED
    BY <1>1, <1>2, <1>3, <1>4, <1>5, <1>6, <1>7 DEF Next
<1>. QED  BY <1>0, <1>8 DEF ClusterTypeOK

\* The gossip ticks and the peer indices keep their types (GossipEngine,
\* PeerManager; ClusterTypeOK of the run cluster_crash).
THEOREM ClusterTypeCorrect == Spec => []ClusterTypeOK
<1>. QED  BY ClusterTypeInit, ClusterTypeStep, PTL DEF Spec

\* A step gives a tick nothing to send but the recent decisions of its node.
LEMMA TickStep ==
  ASSUME ClusterTypeOK, [Next]_vars, NEW a \in Tick, tick'[a] # Quiet
  PROVE  \/ tick[a] # Quiet /\ tick'[a].todo = tick[a].todo
         \/ tick[a] # Quiet /\ tick'[a].todo = Tail(tick[a].todo)
         \/ tick'[a].todo = recent[home[a]] \o <<StateSync>>
<1>. DEFINE Goal == \/ tick[a] # Quiet /\ tick'[a].todo = tick[a].todo
                    \/ tick[a] # Quiet /\ tick'[a].todo = Tail(tick[a].todo)
                    \/ tick'[a].todo = recent[home[a]] \o <<StateSync>>
<1>1. ASSUME tick'[a] = tick[a]
      PROVE  Goal
  BY <1>1
<1>2. ASSUME NEW n \in Node, ProcessStep(n)
      PROVE  Goal
  BY <1>1, <1>2 DEF ProcessStep
<1>3. ASSUME NEW t \in Tick, TickFires(t)
      PROVE  Goal
  BY <1>1, <1>3 DEF TickFires, AttemptOf, ClusterTypeOK
<1>4. ASSUME NEW t \in Tick, AttemptSucceeds(t) \/ AttemptFails(t)
      PROVE  Goal
  <2>1. tick[t] # Quiet /\ (NextBody(t) \/ Retry(t))
    BY <1>4 DEF AttemptSucceeds, AttemptFails, Result
  <2>2. CASE a # t
    BY <1>1, <2>1, <2>2 DEF NextBody, Retry, ClusterTypeOK
  <2>3. CASE a = t
    <3>1. \/ tick'[a] = AttemptOf(tick[a].peer, Tail(tick[a].todo), 1)
          \/ tick'[a] = AttemptOf(tick[a].peer, tick[a].todo, tick[a].attempt + 1)
      BY <2>1, <2>3 DEF NextBody, Retry, ClusterTypeOK
    <3>2. \/ tick'[a].todo = Tail(tick[a].todo)
          \/ tick'[a].todo = tick[a].todo
      <4>1. \A peer, todo, k : AttemptOf(peer, todo, k).todo = todo
        BY DEF AttemptOf
      <4>. QED  BY <3>1, <4>1
    <3>. QED  BY <2>1, <2>3, <3>2
  <2>. QED  BY <2>2, <2>3
<1>5. ASSUME NEW t \in Tick, NEW n \in Node, NEW b \in Body,
             Deliver(t, n, b) \/ Lose(t, n, b)
      PROVE  Goal
  <2>1. tick[t] \in TickState /\ tick[t] # Quiet
    BY <1>5 DEF Deliver, Lose, Attempt, ClusterTypeOK
  <2>2. tick' = [tick EXCEPT ![t] = [tick[t] EXCEPT !.sent = TRUE]]
    BY <1>5 DEF Deliver, Lose, Attempt
  <2>3. [tick[t] EXCEPT !.sent = TRUE].todo = tick[t].todo
    BY <2>1 DEF TickState
  <2>. QED  BY <1>1, <2>1, <2>2, <2>3 DEF ClusterTypeOK
<1>6. ASSUME \/ \E c \in Client, n \in Node, d \in Decision :
                  ClientDelivers(c, n, d) \/ ClientFails(c, n, d)
             \/ \E c \in Caller : BrokenConnection(c)
             \/ UNCHANGED vars
      PROVE  Goal
  BY <1>1, <1>6 DEF ClientDelivers, ClientFails, BrokenConnection, vars
<1>7. Goal
  <2>. HIDE DEF Goal
  <2>. QED  BY <1>2, <1>3, <1>4, <1>5, <1>6 DEF Next
<1>. QED  BY <1>7

\* A step keeps what every tick carries durable at its node.
LEMMA TicksStep ==
  ASSUME ClusterTypeOK, StorageInv, TicksCarryDurable, [Next]_vars
  PROVE  TicksCarryDurable'
<1>. SUFFICES ASSUME NEW t \in Tick, tick'[t] # Quiet,
                     NEW i \in DOMAIN tick'[t].todo, tick'[t].todo[i] # StateSync
              PROVE  \E e \in ReadJournal(files'[home[t]]) : e.decision = tick'[t].todo[i]
  BY DEF TicksCarryDurable, Durable
<1>1. TypeOK /\ home[t] \in Node
  BY DEF ClusterTypeOK
<1>2. ReadJournal(files[home[t]]) \subseteq ReadJournal(files'[home[t]])
  BY <1>1, StorageStep, StepIsNodeStep DEF Durable
<1>. SUFFICES \E e \in ReadJournal(files[home[t]]) : e.decision = tick'[t].todo[i]
  BY <1>2
<1>3. CASE tick[t] # Quiet /\ tick'[t].todo = tick[t].todo
  BY <1>3 DEF TicksCarryDurable, Durable
<1>4. CASE tick[t] # Quiet /\ tick'[t].todo = Tail(tick[t].todo)
  <2>1. tick[t] \in TickState
    BY <1>4 DEF ClusterTypeOK
  <2>2. tick[t].todo \in Seq(Body) /\ tick[t].todo # <<>>
    BY <2>1 DEF TickState
  <2>3. /\ i + 1 \in DOMAIN tick[t].todo
        /\ Tail(tick[t].todo)[i] = tick[t].todo[i + 1]
    BY <1>4, <2>2
  <2>. QED  BY <1>4, <2>3 DEF TicksCarryDurable, Durable
<1>5. CASE tick'[t].todo = recent[home[t]] \o <<StateSync>>
  <2>1. recent[home[t]] \in Seq(Body) /\ <<StateSync>> \in Seq(Body)
    BY <1>1, SeqMonotonic DEF TypeOK, Body
  <2>2. i \in DOMAIN recent[home[t]] /\ tick'[t].todo[i] = recent[home[t]][i]
    BY <1>5, <2>1
  <2>. QED  BY <1>1, <2>2 DEF StorageInv, NodeSafe, Durable
<1>. QED  BY <1>3, <1>4, <1>5, TickStep

\* A node only sends decisions its journal could replay (GossipEngine.tick).
THEOREM TicksSafe == Spec => []TicksCarryDurable
<1>1. ClusterInit => TicksCarryDurable
  BY DEF ClusterInit, TicksCarryDurable
<1>2. ClusterTypeOK /\ TypeOK /\ StorageInv /\ TicksCarryDurable /\ [Next]_vars =>
        TicksCarryDurable'
  BY TicksStep
<1>. QED
  BY <1>1, <1>2, ClusterTypeCorrect, ClusterIsRuntimeNodes, StorageSafe, PTL DEF Spec

-------------------------------------------------------------------------------
(* What a tick knows of its requests *)

USE RuntimeAssumption

\* A call that is not made anew: it stays, or it is open and ends.
SameCall(a) ==
  \/ call'[a] = call[a]
  \/ /\ call[a] # NoCall /\ call[a].st = "waiting"
     /\ call'[a] # NoCall /\ call'[a].st # "waiting"
     /\ call'[a].node = call[a].node
     /\ call'[a].body = call[a].body

\* A task answers the request it belongs to (EventQueue.drain).
LEMMA AnswerSameCall ==
  ASSUME TypeOK, OneTaskPerCall, NEW n \in Node, NEW c \in Caller \cup {NoCaller},
         NEW i, c \in Caller => i \in PlacesOf(c, n),
         NEW st \in {"ok", "error"}, NEW b \in Body, BodyAt(n, i) = b,
         Answer(n, c, b, st), NEW a \in Caller
  PROVE  SameCall(a)
<1>1. CASE a # c
  BY <1>1 DEF Answer, TypeOK, SameCall
<1>2. CASE a = c
  <2>1. call[a] # NoCall /\ call[a].st = "waiting" /\ call[a].node = n
    BY <1>2, Owner DEF WaitsOn
  <2>2. call[a].body = b
    BY <1>2, Owner
  <2>3. call'[a] = [st |-> st, node |-> n, body |-> b]
    BY <1>2 DEF Answer, TypeOK
  <2>4. call'[a] \in Call
    BY <2>3 DEF Call
  <2>5. call'[a] # NoCall
    BY <2>4
  <2>. QED  BY <2>1, <2>2, <2>3, <2>5 DEF SameCall
<1>. QED  BY <1>1, <1>2

\* A failed request keeps what it asked for.
LEMMA FailedSameCall ==
  ASSUME TypeOK, NEW a \in Caller, call[a] # NoCall, call[a].st = "waiting",
         call'[a] = [call[a] EXCEPT !.st = "error"]
  PROVE  SameCall(a)
<1>1. call[a] \in Call
  BY DEF TypeOK
<1>2. /\ call'[a] \in Call /\ call'[a].st = "error"
      /\ call'[a].node = call[a].node /\ call'[a].body = call[a].body
  BY <1>1, CallUpdate
<1>. QED  BY <1>2 DEF SameCall

\* A step of a process makes no call: it ends some, and those it owns vanish
\* with it.
LEMMA ProcessCalls ==
  ASSUME TypeOK, OneTaskPerCall, NEW n \in Node, NodeStep(n), NEW a \in Caller
  PROVE  \/ SameCall(a)
         \/ /\ home[a] = n /\ life[n] # "STOPPED" /\ life'[n] = "STOPPED"
            /\ call'[a] = NoCall
<1>. DEFINE Goal == \/ SameCall(a)
                    \/ /\ home[a] = n /\ life[n] # "STOPPED" /\ life'[n] = "STOPPED"
                       /\ call'[a] = NoCall
<1>1. CASE Launch(n) \/ FinishStart(n) \/ BeginStop(n) \/ BeginDecision(n)
           \/ AppendDecision(n) \/ PushDecision(n)
  BY <1>1 DEF Launch, FinishStart, BeginStop, BeginDecision, AppendDecision,
              PushDecision, SameCall
<1>2. CASE FinishStop(n) \/ Crash(n)
  <2>1. life[n] # "STOPPED" /\ ProcessGone(n)
    BY <1>2 DEF FinishStop, Crash
  <2>2. CASE home[a] = n
    BY <2>1, <2>2 DEF ProcessGone, TypeOK
  <2>3. CASE home[a] # n /\ WaitsOn(a, n)
    <3>1. call'[a] = [call[a] EXCEPT !.st = "error"]
      BY <2>1, <2>3 DEF ProcessGone
    <3>. QED  BY <2>3, <3>1, FailedSameCall DEF WaitsOn
  <2>4. CASE home[a] # n /\ ~WaitsOn(a, n)
    BY <2>1, <2>4 DEF ProcessGone, SameCall
  <2>. QED  BY <2>2, <2>3, <2>4
<1>3. CASE ResolveAtOnce(n)
  <2>. DEFINE t == Head(queue[n])
  <2>1. t \in Task /\ queue[n] # <<>> /\ 1 \in DOMAIN queue[n] /\ queue[n][1] = t
    BY <1>3, EmptySeq DEF ResolveAtOnce, TypeOK
  <2>2. t.caller \in Caller \cup {NoCaller} /\ t.body \in Body
    BY <2>1 DEF Task
  <2>3. t.caller \in Caller => 1 \in PlacesOf(t.caller, n)
    BY <2>1 DEF PlacesOf
  <2>4. BodyAt(n, 1) = t.body
    BY <2>1 DEF BodyAt
  <2>5. Answer(n, t.caller, t.body, "ok")
    BY <1>3 DEF ResolveAtOnce
  <2>. HIDE DEF t
  <2>6. SameCall(a)
    BY <2>2, <2>3, <2>4, <2>5, AnswerSameCall
  <2>. QED  BY <2>6
<1>4. CASE WriteSnapshot(n) \/ WriteFails(n)
  <2>. DEFINE r == running[n]
  <2>1. r \in Running /\ r # Idle
    BY <1>4 DEF WriteSnapshot, WriteFails, InTask, TypeOK
  <2>2. r.caller \in Caller \cup {NoCaller} /\ r.entry.decision \in Body
    BY <2>1 DEF Running, Entry, Body
  <2>3. r.caller \in Caller => 0 \in PlacesOf(r.caller, n)
    BY <2>1 DEF PlacesOf
  <2>4. BodyAt(n, 0) = r.entry.decision
    BY DEF BodyAt
  <2>5. \E st \in {"ok", "error"} : Answer(n, r.caller, r.entry.decision, st)
    BY <1>4 DEF WriteSnapshot, WriteFails, EndTask
  <2>. HIDE DEF r
  <2>6. SameCall(a)
    BY <2>2, <2>3, <2>4, <2>5, AnswerSameCall
  <2>. QED  BY <2>6
<1>. QED  BY <1>1, <1>2, <1>3, <1>4 DEF NodeStep, Internal

Matches(t) ==
  IF tick[t] # Quiet /\ tick[t].sent
  THEN call[t] # NoCall /\ call[t].node = tick[t].peer /\ call[t].body = Head(tick[t].todo)
  ELSE Free(t)

\* A tick that is left alone while its call at most ends still knows it.
LEMMA MatchKept ==
  ASSUME NEW t \in Tick, Matches(t), tick'[t] = tick[t], SameCall(t)
  PROVE  Matches(t)'
BY DEF Matches, SameCall, Free

\* A step keeps the knowledge of every tick.
LEMMA MatchStep ==
  ASSUME ClusterTypeOK, TypeOK', OneTaskPerCall, TicksMatchCalls, [Next]_vars,
         NEW t \in Tick
  PROVE  Matches(t)'
<1>0. Matches(t) /\ TypeOK /\ t \in Caller
  BY DEF TicksMatchCalls, Matches, ClusterTypeOK
<1>1. ASSUME NEW n \in Node, ProcessStep(n)
      PROVE  Matches(t)'
  <2>1. NodeStep(n)
    BY <1>1 DEF ProcessStep
  <2>2. CASE life[home[t]] # "STOPPED" /\ life'[home[t]] = "STOPPED"
    <3>1. tick'[t] = Quiet
      BY <1>1, <2>2 DEF ProcessStep
    <3>2. Free(t)'
      <4>1. n = home[t]
        BY <2>1, <2>2, <1>0 DEF NodeStep, Launch, FinishStart, BeginStop, FinishStop,
          Crash, ProcessGone, Internal, ResolveAtOnce, BeginDecision, AppendDecision,
          PushDecision, WriteSnapshot, WriteFails, TypeOK
      <4>2. FinishStop(n) \/ Crash(n)
        BY <2>1, <2>2, <4>1 DEF NodeStep, Launch, FinishStart, BeginStop,
          Internal, ResolveAtOnce, BeginDecision, AppendDecision,
          PushDecision, WriteSnapshot, WriteFails, TypeOK, ClusterTypeOK
      <4>3. call'[t] = NoCall
        BY <1>0, <4>1, <4>2 DEF FinishStop, Crash, ProcessGone
      <4>. QED  BY <4>3 DEF Free
    <3>. QED  BY <3>1, <3>2 DEF Matches
  <2>3. CASE ~(life[home[t]] # "STOPPED" /\ life'[home[t]] = "STOPPED")
    <3>1. tick'[t] = tick[t]
      BY <1>1, <2>3 DEF ProcessStep
    <3>2. SameCall(t)
      BY <1>0, <2>1, <2>3, ProcessCalls
    <3>. QED  BY <1>0, <3>1, <3>2, MatchKept
  <2>. QED  BY <2>2, <2>3
<1>2. ASSUME NEW u \in Tick, TickFires(u)
      PROVE  Matches(t)'
  <2>1. call' = call
    BY <1>2 DEF TickFires, nodeVars
  <2>2. CASE t # u
    BY <1>0, <1>2, <2>1, <2>2, MatchKept DEF TickFires, SameCall
  <2>3. CASE t = u
    <3>1. Free(t)'
      BY <1>0, <1>2, <2>1, <2>3 DEF TickFires, Matches, Free
    <3>2. tick'[t].sent = FALSE
      BY <1>2, <2>3 DEF TickFires, AttemptOf, ClusterTypeOK
    <3>. QED  BY <3>1, <3>2 DEF Matches
  <2>. QED  BY <2>2, <2>3
<1>3. ASSUME NEW u \in Tick, AttemptSucceeds(u) \/ AttemptFails(u)
      PROVE  Matches(t)'
  <2>1. call' = call
    BY <1>3 DEF AttemptSucceeds, AttemptFails, nodeVars
  <2>2. /\ tick[u] # Quiet /\ call[u].st # "waiting"
        /\ NextBody(u) \/ Retry(u)
    BY <1>3 DEF AttemptSucceeds, AttemptFails, Result
  <2>3. CASE t # u
    <3>1. tick'[t] = tick[t]
      BY <2>2, <2>3 DEF NextBody, Retry, ClusterTypeOK
    <3>. QED  BY <1>0, <2>1, <3>1, MatchKept DEF SameCall
  <2>4. CASE t = u
    <3>1. Free(t)'
      BY <2>1, <2>2, <2>4 DEF Free
    <3>2. tick'[t] = Quiet \/ tick'[t].sent = FALSE
      BY <2>2, <2>4 DEF NextBody, Retry, AttemptOf, ClusterTypeOK
    <3>. QED  BY <3>1, <3>2 DEF Matches
  <2>. QED  BY <2>3, <2>4
<1>4. ASSUME NEW u \in Tick, NEW n \in Node, NEW b \in Body,
             Deliver(u, n, b) \/ Lose(u, n, b)
      PROVE  Matches(t)'
  <2>1. /\ Attempt(u, n, b)
        /\ \/ call' = [call EXCEPT ![u] = [st |-> "waiting", node |-> n, body |-> b]]
           \/ call' = [call EXCEPT ![u] = [st |-> "error", node |-> n, body |-> b]]
    BY <1>4 DEF Deliver, Lose, Post, PostFails
  <2>2. CASE t # u
    <3>1. tick'[t] = tick[t] /\ call'[t] = call[t]
      BY <2>1, <2>2 DEF Attempt, ClusterTypeOK, TypeOK
    <3>. QED  BY <1>0, <3>1, MatchKept DEF SameCall
  <2>3. CASE t = u
    <3>1. tick[t] \in TickState /\ tick[t].peer = n /\ Head(tick[t].todo) = b
      BY <2>1, <2>3 DEF Attempt, ClusterTypeOK
    <3>2. tick'[t] = [tick[t] EXCEPT !.sent = TRUE]
      BY <2>1, <2>3 DEF Attempt, ClusterTypeOK
    <3>3. /\ tick'[t] \in TickState /\ tick'[t].sent
          /\ tick'[t].peer = n /\ tick'[t].todo = tick[t].todo
      BY <3>1, <3>2 DEF TickState
    <3>4. /\ call'[t] \in Call /\ call'[t].node = n /\ call'[t].body = b
      <4>1. \E st \in {"waiting", "error"} :
              call'[t] = [st |-> st, node |-> n, body |-> b]
        BY <1>0, <2>1, <2>3 DEF TypeOK
      <4>. QED  BY <4>1 DEF Call
    <3>5. tick'[t] # Quiet /\ call'[t] # NoCall
      BY <3>3, <3>4
    <3>. QED  BY <3>1, <3>3, <3>4, <3>5 DEF Matches
  <2>. QED  BY <2>2, <2>3
<1>5. ASSUME NEW c \in Client, NEW n \in Node, NEW d \in Decision,
             ClientDelivers(c, n, d) \/ ClientFails(c, n, d)
      PROVE  Matches(t)'
  <2>1. t # c
    <3>1. home[t] \in Node /\ home[c] = Outside
      OBVIOUS
    <3>. QED  BY <3>1
  <2>2. call'[t] = call[t] /\ tick'[t] = tick[t]
    BY <1>0, <1>5, <2>1 DEF ClientDelivers, ClientFails, Post, PostFails, TypeOK
  <2>. QED  BY <1>0, <2>2, MatchKept DEF SameCall
<1>6. ASSUME NEW c \in Caller, BrokenConnection(c)
      PROVE  Matches(t)'
  <2>1. tick'[t] = tick[t]
    BY <1>6 DEF BrokenConnection
  <2>2. SameCall(t)
    <3>1. CASE c = t
      <4>1. call[t] # NoCall /\ call[t].st = "waiting"
        BY <1>6, <3>1 DEF BrokenConnection, HangUp, Free
      <4>2. call'[t] = [call[t] EXCEPT !.st = "error"]
        BY <1>0, <1>6, <3>1 DEF BrokenConnection, HangUp, TypeOK
      <4>. QED  BY <1>0, <4>1, <4>2, FailedSameCall
    <3>2. CASE c # t
      BY <1>6, <3>2 DEF BrokenConnection, HangUp, SameCall
    <3>. QED  BY <3>1, <3>2
  <2>. QED  BY <1>0, <2>1, <2>2, MatchKept
<1>7. CASE UNCHANGED vars
  BY <1>0, <1>7, MatchKept DEF vars, nodeVars, SameCall
<1>. QED  BY <1>1, <1>2, <1>3, <1>4, <1>5, <1>6, <1>7 DEF Next

\* A tick waits for the answer to its own last request (postWithRetry).
THEOREM TicksKnowTheirCalls == Spec => []TicksMatchCalls
<1>1. ClusterInit => TicksMatchCalls
  BY DEF ClusterInit, NodeInit, TicksMatchCalls, Free
<1>2. ClusterTypeOK /\ TypeOK' /\ OneTaskPerCall /\ TicksMatchCalls /\ [Next]_vars =>
        TicksMatchCalls'
  BY MatchStep DEF TicksMatchCalls, Matches
<1>. QED
  BY <1>1, <1>2, ClusterTypeCorrect, ClusterIsRuntimeNodes, TypeCorrect, EveryCallServed,
     PTL DEF Spec

\* A decision is passed over only when the peer stores it, when all attempts
\* have failed, or when the process exits (GossipEngine.tick, postWithRetry).
THEOREM GossipSkipsNone == Spec => NoneSkipped
<1>. DEFINE Skips(t) == /\ tick[t] # Quiet /\ Head(tick[t].todo) # StateSync
                        /\ tick'[t] # Quiet => tick'[t].todo # tick[t].todo
            Excused(t) == \/ Holds(tick[t].peer, Head(tick[t].todo))
                          \/ tick[t].attempt = MaxAttempts
                          \/ life'[home[t]] = "STOPPED"
<1>1. ASSUME ClusterTypeOK, TicksMatchCalls, AcceptedIsDurable, [Next]_vars,
             NEW t \in Tick, Skips(t)
      PROVE  Excused(t)
  <2>1. tick[t] \in TickState /\ tick'[t] # tick[t] /\ t \in Caller
    BY <1>1 DEF ClusterTypeOK
  <2>2. ASSUME NEW n \in Node, ProcessStep(n)
        PROVE  Excused(t)
    BY <2>1, <2>2 DEF ProcessStep
  <2>3. ASSUME NEW u \in Tick, TickFires(u)
        PROVE  Excused(t)
    <3>1. t = u
      BY <2>1, <2>3 DEF TickFires
    <3>. QED  BY <1>1, <2>3, <3>1 DEF TickFires
  <2>4. ASSUME NEW u \in Tick, AttemptSucceeds(u) \/ AttemptFails(u)
        PROVE  Excused(t)
    <3>1. t = u
      <4>1. NextBody(u) \/ Retry(u)
        BY <2>4 DEF AttemptSucceeds, AttemptFails
      <4>. QED  BY <1>1, <2>1, <4>1 DEF NextBody, Retry, ClusterTypeOK
    <3>2. tick[t].sent
      BY <2>4, <3>1 DEF AttemptSucceeds, AttemptFails, Result
    <3>3. CASE AttemptSucceeds(t)
      <4>1. call[t].st = "ok"
        BY <3>3 DEF AttemptSucceeds, Result
      <4>2. /\ call[t] # NoCall /\ call[t].node = tick[t].peer
            /\ call[t].body = Head(tick[t].todo)
        BY <1>1, <3>2 DEF TicksMatchCalls
      <4>. QED  BY <1>1, <2>1, <4>1, <4>2 DEF AcceptedIsDurable, Holds
    <3>4. CASE AttemptFails(t)
      <4>1. CASE tick[t].attempt < MaxAttempts /\ Retry(t)
        <5>1. tick'[t] = AttemptOf(tick[t].peer, tick[t].todo, tick[t].attempt + 1)
          BY <1>1, <4>1 DEF Retry, ClusterTypeOK
        <5>2. tick'[t].todo = tick[t].todo
          BY <5>1 DEF AttemptOf
        <5>3. tick'[t] \in TickState
          BY <2>1, <4>1, <5>1 DEF TickState, AttemptOf
        <5>4. tick'[t] # Quiet
          BY <5>3
        <5>. QED  BY <1>1, <5>2, <5>4
      <4>2. CASE ~(tick[t].attempt < MaxAttempts)
        BY <2>1, <4>2 DEF TickState
      <4>. QED  BY <3>4, <4>1, <4>2 DEF AttemptFails
    <3>. QED  BY <2>4, <3>1, <3>3, <3>4
  <2>5. ASSUME NEW u \in Tick, NEW n \in Node, NEW b \in Body,
               Deliver(u, n, b) \/ Lose(u, n, b)
        PROVE  Excused(t)
    <3>1. Attempt(u, n, b)
      BY <2>5 DEF Deliver, Lose
    <3>2. t = u
      BY <2>1, <3>1 DEF Attempt
    <3>3. tick'[t] = [tick[t] EXCEPT !.sent = TRUE]
      BY <1>1, <3>1, <3>2 DEF Attempt, ClusterTypeOK
    <3>4. tick'[t] \in TickState /\ tick'[t].todo = tick[t].todo
      BY <2>1, <3>3 DEF TickState
    <3>5. tick'[t] # Quiet
      BY <3>4
    <3>. QED  BY <1>1, <3>4, <3>5
  <2>6. CASE \/ \E c \in Client, n \in Node, d \in Decision :
                  ClientDelivers(c, n, d) \/ ClientFails(c, n, d)
             \/ \E c \in Caller : BrokenConnection(c)
             \/ UNCHANGED vars
    BY <2>1, <2>6 DEF ClientDelivers, ClientFails, BrokenConnection, vars
  <2>. QED  BY <1>1, <2>2, <2>3, <2>4, <2>5, <2>6 DEF Next
<1>2. ClusterTypeOK /\ TicksMatchCalls /\ AcceptedIsDurable /\ [Next]_vars =>
        [\A t \in Tick : Skips(t) => Excused(t)]_vars
  BY <1>1
<1>. QED
  BY <1>2, ClusterTypeCorrect, TicksKnowTheirCalls, ClusterIsRuntimeNodes, AcceptedSafe,
     PTL DEF Spec, NoneSkipped

-------------------------------------------------------------------------------
(* Refinement *)

Bodies(q) == {q[i].body : i \in DOMAIN q}

\* The bodies a node has accepted and not finished with.
Work(n) ==
  Bodies(queue[n])
    \cup (IF running[n] = Idle THEN {} ELSE {running[n].entry.decision})

\* Taking or adding a task changes the bodies waiting by that task only.
LEMMA TailBodies ==
  ASSUME NEW q \in Seq(Task), q # <<>>
  PROVE  Bodies(Tail(q)) \subseteq Bodies(q) /\ Head(q).body \in Bodies(q)
<1>1. \A i \in DOMAIN Tail(q) : i + 1 \in DOMAIN q /\ Tail(q)[i] = q[i + 1]
  OBVIOUS
<1>2. 1 \in DOMAIN q /\ Head(q) = q[1]
  BY EmptySeq
<1>. QED  BY <1>1, <1>2 DEF Bodies

\* Enqueueing a task adds its body (EventQueue.enqueue).
LEMMA AppendBodies ==
  ASSUME NEW q \in Seq(Task), NEW t \in Task
  PROVE  Bodies(Append(q, t)) \subseteq Bodies(q) \cup {t.body}
<1>1. \A i \in DOMAIN Append(q, t) :
        (i \in DOMAIN q /\ Append(q, t)[i] = q[i]) \/ Append(q, t)[i] = t
  OBVIOUS
<1>. QED  BY <1>1 DEF Bodies

\* Detaching callers keeps the bodies waiting.
LEMMA DetachBodies ==
  ASSUME NEW q \in Seq(Task), NEW gone
  PROVE  Bodies(DetachQueue(q, gone)) = Bodies(q)
<1>. DEFINE f == DetachQueue(q, gone)
<1>1. DOMAIN f = DOMAIN q /\ \A i \in DOMAIN q : f[i].body = q[i].body
  BY DetachQueueFacts
<1>. HIDE DEF f
<1>2. Bodies(f) = Bodies(q)
  BY <1>1 DEF Bodies
<1>. QED  BY <1>2 DEF f

\* Only a request brings work to a node.
LEMMA PostWork ==
  ASSUME TypeOK, NEW c \in Caller, NEW n \in Node, NEW b \in Body, Post(c, n, b),
         NEW m \in Node
  PROVE  Work(m)' \subseteq Work(m) \cup {b}
<1>1. [body |-> b, caller |-> c] \in Task /\ queue[n] \in Seq(Task)
  BY DEF Task, TypeOK
<1>2. Bodies(Append(queue[n], [body |-> b, caller |-> c])) \subseteq Bodies(queue[n]) \cup {b}
  BY <1>1, AppendBodies
<1>3. Bodies(queue'[m]) \subseteq Bodies(queue[m]) \cup {b}
  BY <1>2 DEF Post, TypeOK
<1>. QED  BY <1>3 DEF Post, Work

\* A broken connection changes no node's work.
LEMMA DetachWork ==
  ASSUME TypeOK, NEW m \in Node, NEW gone,
         queue'[m] = DetachQueue(queue[m], gone),
         running'[m] = DetachRunning(running[m], gone)
  PROVE  Work(m)' \subseteq Work(m)
<1>1. queue[m] \in Seq(Task) /\ running[m] \in Running \cup {Idle}
  BY DEF TypeOK
<1>2. Bodies(queue'[m]) = Bodies(queue[m])
  BY <1>1, DetachBodies
<1>3. /\ running'[m] = Idle <=> running[m] = Idle
      /\ running[m] # Idle => running'[m].entry = running[m].entry
  BY <1>1, DetachRunningKeeps
<1>. QED  BY <1>2, <1>3 DEF Work

\* A step of a process brings no node new work.
LEMMA ProcessWork ==
  ASSUME TypeOK, NEW n \in Node, NodeStep(n), NEW m \in Node
  PROVE  Work(m)' \subseteq Work(m)
<1>0. ASSUME queue'[m] = queue[m], running'[m] = running[m]
      PROVE  Work(m)' \subseteq Work(m)
  BY <1>0 DEF Work
<1>1. CASE Launch(n) \/ FinishStart(n) \/ BeginStop(n)
  BY <1>0, <1>1 DEF Launch, FinishStart, BeginStop
<1>2. CASE FinishStop(n) \/ Crash(n)
  <2>1. ProcessGone(n)
    BY <1>2 DEF FinishStop, Crash
  <2>2. CASE m = n
    <3>1. queue'[m] = <<>> /\ running'[m] = Idle
      BY <2>1, <2>2 DEF ProcessGone
    <3>. QED  BY <3>1 DEF Work, Bodies
  <2>3. CASE m # n
    <3>1. /\ queue'[m] = DetachQueue(queue[m], RequestsOf(n))
          /\ running'[m] = DetachRunning(running[m], RequestsOf(n))
      BY <2>1, <2>3 DEF ProcessGone
    <3>. QED  BY <3>1, DetachWork
  <2>. QED  BY <2>2, <2>3
<1>3. CASE ResolveAtOnce(n) \/ BeginDecision(n)
  <2>1. CASE m # n
    BY <1>0, <1>3, <2>1 DEF ResolveAtOnce, BeginDecision, TypeOK
  <2>2. CASE m = n
    <3>1. queue[m] \in Seq(Task) /\ queue[m] # <<>> /\ queue'[m] = Tail(queue[m])
      BY <1>3, <2>2 DEF ResolveAtOnce, BeginDecision, TypeOK
    <3>2. Bodies(queue'[m]) \subseteq Bodies(queue[m]) /\ Head(queue[m]).body \in Bodies(queue[m])
      BY <3>1, TailBodies
    <3>3. \/ running'[m] = running[m]
          \/ running'[m].entry.decision = Head(queue[m]).body
      BY <1>3, <2>2 DEF ResolveAtOnce, BeginDecision, TypeOK
    <3>. QED  BY <3>2, <3>3 DEF Work
  <2>. QED  BY <2>1, <2>2
<1>4. CASE AppendDecision(n) \/ PushDecision(n)
  <2>1. CASE m # n
    BY <1>0, <1>4, <2>1 DEF AppendDecision, PushDecision, TypeOK
  <2>2. CASE m = n
    <3>1. running[m] \in Running /\ running[m] # Idle /\ queue'[m] = queue[m]
      BY <1>4, <2>2 DEF AppendDecision, PushDecision, InTask, TypeOK
    <3>2. \/ running'[m] = [running[m] EXCEPT !.next = "push"]
          \/ running'[m] = [running[m] EXCEPT !.next = "snapshot"]
      BY <1>4, <2>2 DEF AppendDecision, PushDecision, TypeOK
    <3>3. running'[m].entry = running[m].entry
      <4>1. \A s \in {"append", "push", "snapshot"} :
              [running[m] EXCEPT !.next = s].entry = running[m].entry
        BY <3>1, NextUpdate
      <4>. QED  BY <3>2, <4>1
    <3>. QED  BY <3>1, <3>3 DEF Work
  <2>. QED  BY <2>1, <2>2
<1>5. CASE WriteSnapshot(n) \/ WriteFails(n)
  BY <1>5 DEF WriteSnapshot, WriteFails, EndTask, Work, TypeOK
<1>. QED  BY <1>1, <1>2, <1>3, <1>4, <1>5 DEF NodeStep, Internal

\* What is stored or on its way was proposed by a client.
ProposedInv ==
  \A n \in Node : /\ Work(n) \subseteq proposed \cup {StateSync}
                  /\ \A e \in Durable(n) : e.decision \in proposed

\* A journal changes by the append of the running task only, which adds a
\* decision with a new id (submitDecision).
LEMMA StoredStep ==
  ASSUME TypeOK, StorageInv, NEW n \in Node, NodeStep(n)
  PROVE  \/ files' = files
         \/ /\ AppendDecision(n)
            /\ running[n].entry.decision \in Decision
            /\ running[n].entry.decision \in Work(n)
            /\ \A e \in Durable(n) :
                 idOf[e.decision] # idOf[running[n].entry.decision]
            /\ Durable(n)' = Durable(n) \cup {running[n].entry}
            /\ \A m \in Node : m # n => Durable(m)' = Durable(m)
<1>1. CASE ~AppendDecision(n)
  BY <1>1 DEF NodeStep, Internal, Launch, FinishStart, BeginStop, FinishStop, Crash,
     ProcessGone, ResolveAtOnce, BeginDecision, PushDecision, WriteSnapshot, WriteFails, disk
<1>2. CASE AppendDecision(n)
  <2>1. running[n] \in Running /\ files[n] \in Directory /\ running[n] # Idle
    BY <1>2 DEF AppendDecision, InTask, TypeOK, Directory
  <2>2. running[n].entry \in Entry /\ running[n].entry.decision \in Decision
    BY <2>1 DEF Running, Entry
  <2>3. running[n].entry.decision \in Work(n)
    BY <2>1 DEF Work
  <2>4. Intact(files[n]) /\ idOf[running[n].entry.decision] \notin IdsOf(Durable(n))
    BY <1>2 DEF AppendDecision, StorageInv, NodeSafe
  <2>5. files'[n] = AppendJournal(files[n], running[n].entry)
    BY <1>2 DEF AppendDecision, TypeOK
  <2>6. Durable(n)' = Durable(n) \cup {running[n].entry}
    BY <2>1, <2>2, <2>4, <2>5, AppendReads DEF Durable
  <2>7. \A m \in Node : m # n => Durable(m)' = Durable(m)
    BY <1>2 DEF AppendDecision, TypeOK, Durable
  <2>. QED  BY <1>2, <2>2, <2>3, <2>4, <2>6, <2>7 DEF IdsOf
<1>. QED  BY <1>1, <1>2

\* What waits, runs or is stored was proposed, and stays so.
LEMMA ProposedStep ==
  ASSUME TypeOK, StorageInv, TicksCarryDurable, ProposedInv, ClusterTypeOK, [Next]_vars
  PROVE  ProposedInv'
<1>. SUFFICES ASSUME NEW m \in Node
              PROVE  /\ Work(m)' \subseteq proposed' \cup {StateSync}
                     /\ \A e \in Durable(m)' : e.decision \in proposed'
  BY DEF ProposedInv
<1>0. /\ Work(m) \subseteq proposed \cup {StateSync}
      /\ \A e \in Durable(m) : e.decision \in proposed
  BY DEF ProposedInv
<1>1. ASSUME Work(m)' \subseteq Work(m), Durable(m)' = Durable(m),
             proposed \subseteq proposed'
      PROVE  /\ Work(m)' \subseteq proposed' \cup {StateSync}
             /\ \A e \in Durable(m)' : e.decision \in proposed'
  BY <1>0, <1>1
<1>2. ASSUME NEW n \in Node, ProcessStep(n)
      PROVE  /\ Work(m)' \subseteq proposed' \cup {StateSync}
             /\ \A e \in Durable(m)' : e.decision \in proposed'
  <2>1. NodeStep(n) /\ proposed' = proposed
    BY <1>2 DEF ProcessStep
  <2>2. Work(m)' \subseteq Work(m)
    BY <2>1, ProcessWork
  <2>3. CASE Durable(m)' = Durable(m)
    BY <1>1, <2>1, <2>2, <2>3
  <2>4. CASE m = n /\ /\ running[n].entry.decision \in Decision
                      /\ running[n].entry.decision \in Work(n)
                      /\ Durable(n)' = Durable(n) \cup {running[n].entry}
    <3>1. running[n].entry.decision \in proposed
      BY <1>0, <2>4, RuntimeAssumption
    <3>. QED  BY <1>0, <2>1, <2>2, <2>4, <3>1
  <2>5. files' = files => Durable(m)' = Durable(m)
    BY DEF Durable
  <2>. QED  BY <2>1, <2>3, <2>4, <2>5, StoredStep
<1>3. ASSUME NEW t \in Tick, TickFires(t) \/ AttemptSucceeds(t) \/ AttemptFails(t)
      PROVE  /\ Work(m)' \subseteq Work(m)
             /\ Durable(m)' = Durable(m) /\ proposed' = proposed
  BY <1>3 DEF TickFires, AttemptSucceeds, AttemptFails, nodeVars, disk, Work, Durable
<1>4. ASSUME NEW c \in Caller, NEW n \in Node, NEW b \in Body,
             Post(c, n, b) \/ PostFails(c, n, b)
      PROVE  Work(m)' \subseteq Work(m) \cup {b} /\ Durable(m)' = Durable(m)
  <2>1. CASE Post(c, n, b)
    BY <2>1, PostWork DEF Post, disk, Durable
  <2>2. CASE PostFails(c, n, b)
    BY <2>2 DEF PostFails, disk, Durable, Work
  <2>. QED  BY <1>4, <2>1, <2>2
<1>5. ASSUME NEW t \in Tick, NEW n \in Node, NEW b \in Body,
             Deliver(t, n, b) \/ Lose(t, n, b)
      PROVE  /\ Work(m)' \subseteq proposed' \cup {StateSync}
             /\ \A e \in Durable(m)' : e.decision \in proposed'
  <2>1. Attempt(t, n, b) /\ (Post(t, n, b) \/ PostFails(t, n, b)) /\ proposed' = proposed
    BY <1>5 DEF Deliver, Lose, Attempt
  <2>2. tick[t] \in TickState /\ tick[t] # Quiet /\ b = Head(tick[t].todo)
    BY <2>1 DEF Attempt, ClusterTypeOK
  <2>3. tick[t].todo \in Seq(Body) /\ tick[t].todo # <<>>
    BY <2>2 DEF TickState
  <2>4. 1 \in DOMAIN tick[t].todo /\ b = tick[t].todo[1]
    BY <2>2, <2>3, EmptySeq
  <2>5. home[t] \in Node
    OBVIOUS
  <2>6. b \in proposed \cup {StateSync}
    <3>1. b # StateSync => \E e \in Durable(home[t]) : e.decision = b
      BY <2>2, <2>4 DEF TicksCarryDurable
    <3>2. \A e \in Durable(home[t]) : e.decision \in proposed
      BY <2>5 DEF ProposedInv
    <3>. QED  BY <3>1, <3>2
  <2>7. t \in Caller
    OBVIOUS
  <2>. QED  BY <1>0, <1>4, <2>1, <2>6, <2>7
<1>6. ASSUME NEW c \in Client, NEW n \in Node, NEW d \in Decision,
             ClientDelivers(c, n, d) \/ ClientFails(c, n, d)
      PROVE  /\ Work(m)' \subseteq proposed' \cup {StateSync}
             /\ \A e \in Durable(m)' : e.decision \in proposed'
  <2>1. (Post(c, n, d) \/ PostFails(c, n, d)) /\ proposed' = proposed \cup {d}
    BY <1>6 DEF ClientDelivers, ClientFails
  <2>2. d \in Body /\ c \in Caller
    BY DEF Body
  <2>. QED  BY <1>0, <1>4, <2>1, <2>2
<1>7. ASSUME NEW c \in Caller, BrokenConnection(c)
      PROVE  /\ Work(m)' \subseteq Work(m)
             /\ Durable(m)' = Durable(m) /\ proposed' = proposed
  <2>1. /\ queue'[m] = DetachQueue(queue[m], {c})
        /\ running'[m] = DetachRunning(running[m], {c})
        /\ files' = files /\ proposed' = proposed
    BY <1>7 DEF BrokenConnection, HangUp, disk
  <2>2. Work(m)' \subseteq Work(m)
    BY <2>1, DetachWork
  <2>. QED  BY <2>1, <2>2 DEF Durable
<1>8. ASSUME UNCHANGED vars
      PROVE  /\ Work(m)' \subseteq Work(m)
             /\ Durable(m)' = Durable(m) /\ proposed' = proposed
  BY <1>8 DEF vars, nodeVars, disk, Work, Durable
<1>. QED  BY <1>1, <1>2, <1>3, <1>5, <1>6, <1>7, <1>8 DEF Next

\* Nothing is stored or waiting when the cluster is created.
LEMMA ProposedInit == ClusterInit => ProposedInv
<1>1. ReadJournal(<<>>) = {}
  BY DEF ReadJournal, ReadableFiles
<1>. QED  BY <1>1 DEF ClusterInit, NodeInit, ProposedInv, Work, Bodies, Durable

\* What the steps preserve together.
Inv == /\ ClusterTypeOK /\ TypeOK /\ StorageInv /\ TicksCarryDurable /\ ProposedInv

\* The invariants the refinement rests on hold throughout.
LEMMA InvHolds == Spec => []Inv
<1>1. ClusterTypeOK /\ TypeOK /\ StorageInv /\ TicksCarryDurable /\ ProposedInv
        /\ [Next]_vars => ProposedInv'
  BY ProposedStep
<1>2. (ClusterTypeOK /\ TypeOK /\ StorageInv /\ TicksCarryDurable /\ ProposedInv) = Inv
  BY DEF Inv
<1>. QED
  BY <1>1, <1>2, ProposedInit, ClusterTypeCorrect, ClusterIsRuntimeNodes, StorageSafe,
     TicksSafe, PTL DEF Spec, Inv

\* A step of the cluster is a step of the replicated set of decisions.
LEMMA StepRefines ==
  ASSUME Inv, [Next]_vars
  PROVE  [Promise!Next]_<<proposed, [n \in Node |-> {e.decision : e \in Durable(n)}]>>
<1>. DEFINE stored == [n \in Node |-> {e.decision : e \in Durable(n)}]
<1>1. ASSUME files' = files
      PROVE  stored' = stored
  BY <1>1 DEF Durable
<1>2. ASSUME NEW n \in Node, ProcessStep(n)
      PROVE  (stored' = stored /\ proposed' = proposed) \/ Promise!Next
  <2>1. NodeStep(n) /\ proposed' = proposed
    BY <1>2 DEF ProcessStep
  <2>2. CASE files' = files
    BY <1>1, <2>1, <2>2
  <2>. DEFINE d == running[n].entry.decision
  <2>3. CASE /\ d \in Decision
             /\ d \in Work(n)
             /\ \A e \in Durable(n) : idOf[e.decision] # idOf[d]
             /\ Durable(n)' = Durable(n) \cup {running[n].entry}
             /\ \A m \in Node : m # n => Durable(m)' = Durable(m)
    <3>1. d \in proposed
      BY <2>3, RuntimeAssumption DEF Inv, ProposedInv
    <3>2. stored'[n] = stored[n] \cup {d}
      BY <2>3
    <3>3. \A m \in Node : m # n => stored'[m] = stored[m]
      BY <2>3
    <3>4. stored' = [stored EXCEPT ![n] = @ \cup {d}]
      BY <3>2, <3>3
    <3>5. /\ d \in Decision
          /\ \A e \in stored[n] : idOf[e] # idOf[d]
      BY <2>3
    <3>. HIDE DEF d, stored
    <3>6. Promise!Next
      <4>1. stored = [m \in Node |-> {e.decision : e \in Durable(m)}]
        BY DEF stored
      <4>. QED
        BY <2>1, <3>1, <3>4, <3>5 DEF stored, Promise!Next, Promise!Store
    <3>. QED  BY <3>6
  <2>. QED  BY <2>1, <2>2, <2>3, StoredStep DEF Inv
<1>3. ASSUME NEW t \in Tick, TickFires(t) \/ AttemptSucceeds(t) \/ AttemptFails(t)
      PROVE  files' = files /\ proposed' = proposed
  BY <1>3 DEF TickFires, AttemptSucceeds, AttemptFails, nodeVars, disk
<1>4. ASSUME NEW t \in Tick, NEW n \in Node, NEW b \in Body,
             Deliver(t, n, b) \/ Lose(t, n, b)
      PROVE  files' = files /\ proposed' = proposed
  BY <1>4 DEF Deliver, Lose, Attempt, Post, PostFails, disk
<1>5. ASSUME NEW c \in Client, NEW n \in Node, NEW d \in Decision,
             ClientDelivers(c, n, d) \/ ClientFails(c, n, d)
      PROVE  Promise!Next
  <2>1. files' = files /\ proposed' = proposed \cup {d}
    BY <1>5 DEF ClientDelivers, ClientFails, Post, PostFails, disk
  <2>. QED  BY <1>1, <2>1 DEF Promise!Next, Promise!Propose
<1>6. ASSUME \/ \E c \in Caller : BrokenConnection(c)
             \/ UNCHANGED vars
      PROVE  files' = files /\ proposed' = proposed
  BY <1>6 DEF BrokenConnection, HangUp, vars, nodeVars, disk
<1>. HIDE DEF stored
<1>7. (stored' = stored /\ proposed' = proposed) \/ Promise!Next
  BY <1>1, <1>2, <1>3, <1>4, <1>5, <1>6 DEF Next
<1>. QED  BY <1>7 DEF stored

\* The cluster implements the replicated set of decisions (ReplicatedJournal):
\* only proposed decisions are stored, the first content of each id, for good.
THEOREM ClusterRefines == Spec => ImplementsReplicatedJournal
<1>1. ClusterInit => Promise!Init
  <2>1. ReadJournal(<<>>) = {}
    BY DEF ReadJournal, ReadableFiles
  <2>. QED  BY <2>1 DEF ClusterInit, NodeInit, Promise!Init, Durable
<1>2. Inv /\ [Next]_vars =>
        [Promise!Next]_<<proposed, [n \in Node |-> {e.decision : e \in Durable(n)}]>>
  BY StepRefines
<1>. QED  BY <1>1, <1>2, InvHolds, PTL DEF Spec, ImplementsReplicatedJournal, Promise!Spec
===============================================================================
