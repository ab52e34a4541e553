---------------------------- MODULE RuntimeCluster ----------------------------
(***************************************************************************)
(* The cluster: RuntimeNode with the two sources of its requests.          *)
(*   - Each running node starts a gossip tick now and then (GossipEngine): *)
(*     it takes the next peer, copies the recent decisions and posts them  *)
(*     to the peer one by one, then its state, each with a bounded number  *)
(*     of attempts (RuntimeHttpClient).  A tick does not wait for the      *)
(*     previous one, so a node has several of them in flight; each is an   *)
(*     element of Tick, owned by the node home[t].                         *)
(*   - Clients post decisions to any node, and may post them again to      *)
(*     close the gaps (the reconciliation of runtime_crash_test_v2.ts).    *)
(***************************************************************************)
EXTENDS RuntimeNode

CONSTANTS
  Tick,         \* gossip ticks in flight
  Client,
  Quiet,        \* a tick that is not in flight
  peersOf,      \* PeerManager.peers of each node
  contacts,     \* the nodes each client posts to
  MaxAttempts   \* maxRetryAttempts of the HTTP client

TickState == [peer : Node, todo : Seq(Body) \ {<<>>}, attempt : 1 .. MaxAttempts,
              sent : BOOLEAN]

ASSUME ClusterAssumption ==
  /\ Caller = Tick \cup Client
  /\ \A t \in Tick : home[t] \in Node
  /\ \A c \in Client : home[c] = Outside
  /\ peersOf \in [Node -> Seq(Node)]
  /\ contacts \in [Client -> SUBSET Node]
  /\ MaxAttempts \in Nat \ {0}
  /\ Quiet \notin TickState

VARIABLES
  tick,       \* the gossip ticks in flight
  nextPeer,   \* PeerManager.index, from 1
  proposed    \* history: the decisions some client has sent

vars == <<nodeVars, tick, nextPeer, proposed>>

ClusterTypeOK ==
  /\ TypeOK
  /\ tick \in [Tick -> TickState \cup {Quiet}]
  /\ nextPeer \in [Node -> Nat \ {0}]
  /\ \A n \in Node : peersOf[n] # <<>> => nextPeer[n] <= Len(peersOf[n])
  /\ proposed \subseteq Decision

ClusterInit ==
  /\ NodeInit
  /\ tick = [t \in Tick |-> Quiet]
  /\ nextPeer = [n \in Node |-> 1]
  /\ proposed = {}

-------------------------------------------------------------------------------
(* Gossip *)

\* The next attempt a tick makes, of the body it has reached.
AttemptOf(peer, todo, k) ==
  [peer |-> peer, todo |-> todo, attempt |-> k, sent |-> FALSE]

\* Fault: the tick sends its state only.
TickFiresStateOnly(t) ==
  LET n == home[t]
  IN  /\ tick[t] = Quiet
      /\ life[n] = "RUNNING"
      /\ peersOf[n] # <<>>
      /\ tick' = [tick EXCEPT ![t] =
                    AttemptOf(peersOf[n][nextPeer[n]], <<StateSync>>, 1)]
      /\ nextPeer' = [nextPeer EXCEPT ![n] = (@ % Len(peersOf[n])) + 1]
      /\ UNCHANGED <<nodeVars, proposed>>

\* tick: the peers take turns; the recent decisions are copied.
TickFires(t) ==
  LET n == home[t]
  IN  /\ tick[t] = Quiet
      /\ life[n] = "RUNNING"
      /\ peersOf[n] # <<>>
      /\ tick' = [tick EXCEPT ![t] =
                    AttemptOf(peersOf[n][nextPeer[n]], recent[n] \o <<StateSync>>, 1)]
      /\ nextPeer' = [nextPeer EXCEPT ![n] = (@ % Len(peersOf[n])) + 1]
      /\ UNCHANGED <<nodeVars, proposed>>

\* One attempt of postWithRetry, which reaches the peer or fails on the way;
\* it waits for the model's queue bound.
Attempt(t, n, b) ==
  /\ tick[t] # Quiet
  /\ ~tick[t].sent
  /\ tick[t].peer = n
  /\ Head(tick[t].todo) = b
  /\ Len(queue[n]) < QueueBound
  /\ tick' = [tick EXCEPT ![t].sent = TRUE]
  /\ UNCHANGED <<nextPeer, proposed>>

Deliver(t, n, b) == Attempt(t, n, b) /\ Post(t, n, b)

Lose(t, n, b) == Attempt(t, n, b) /\ PostFails(t, n, b)

\* Move on to the next body; the last one ends the tick.
NextBody(t) ==
  tick' = [tick EXCEPT ![t] =
             IF Len(@.todo) = 1 THEN Quiet ELSE AttemptOf(@.peer, Tail(@.todo), 1)]

Retry(t) ==
  tick' = [tick EXCEPT ![t] = AttemptOf(@.peer, @.todo, @.attempt + 1)]

Result(t, st) ==
  /\ tick[t] # Quiet
  /\ tick[t].sent
  /\ call[t].st = st

\* Fault: one attempt too many.
AttemptFailsOffByOne(t) ==
  /\ Result(t, "error")
  /\ IF tick[t].attempt <= MaxAttempts THEN Retry(t) ELSE NextBody(t)
  /\ UNCHANGED <<nodeVars, nextPeer, proposed>>

\* res.ok ends the attempts; otherwise the body is retried, and given up after
\* the last attempt, which the tick ignores.
AttemptSucceeds(t) ==
  /\ Result(t, "ok")
  /\ NextBody(t)
  /\ UNCHANGED <<nodeVars, nextPeer, proposed>>

AttemptFails(t) ==
  /\ Result(t, "error")
  /\ IF tick[t].attempt < MaxAttempts THEN Retry(t) ELSE NextBody(t)
  /\ UNCHANGED <<nodeVars, nextPeer, proposed>>

-------------------------------------------------------------------------------
(* Clients *)

ClientDelivers(c, n, d) ==
  /\ n \in contacts[c]
  /\ Post(c, n, d)
  /\ proposed' = proposed \cup {d}
  /\ UNCHANGED <<tick, nextPeer>>

ClientFails(c, n, d) ==
  /\ n \in contacts[c]
  /\ PostFails(c, n, d)
  /\ proposed' = proposed \cup {d}
  /\ UNCHANGED <<tick, nextPeer>>

\* The reconciliation: a decision sent before is sent again.
Reconcile(n, d) ==
  d \in proposed /\ \E c \in Client : ClientDelivers(c, n, d)

-------------------------------------------------------------------------------

\* A process that is gone takes its ticks and its peer index with it.
ProcessStep(n) ==
  /\ NodeStep(n)
  /\ LET Gone(m) == life[m] # "STOPPED" /\ life'[m] = "STOPPED"
     IN  /\ tick' = [t \in Tick |-> IF Gone(home[t]) THEN Quiet ELSE tick[t]]
         /\ nextPeer' = [m \in Node |-> IF Gone(m) THEN 1 ELSE nextPeer[m]]
  /\ UNCHANGED proposed

BrokenConnection(c) == HangUp(c) /\ UNCHANGED <<tick, nextPeer, proposed>>

Next ==
  \/ \E n \in Node : ProcessStep(n)
  \/ \E t \in Tick : TickFires(t) \/ AttemptSucceeds(t) \/ AttemptFails(t)
  \/ \E t \in Tick, n \in Node, b \in Body : Deliver(t, n, b) \/ Lose(t, n, b)
  \/ \E c \in Client, n \in Node, d \in Decision :
       ClientDelivers(c, n, d) \/ ClientFails(c, n, d)
  \/ \E c \in Caller : BrokenConnection(c)

Spec == ClusterInit /\ [][Next]_vars

Peers(n) == {peersOf[n][i] : i \in DOMAIN peersOf[n]}

\* Processes run and are restarted (the supervisor), timers fire, attempts end;
\* a request that is tried over and over is not lost every time.
Fairness ==
  /\ \A n \in Node : /\ WF_vars(Internal(n) /\ ProcessStep(n))
                     /\ WF_vars(Launch(n) /\ ProcessStep(n))
                     /\ WF_vars(FinishStart(n) /\ ProcessStep(n))
                     /\ WF_vars(FinishStop(n) /\ ProcessStep(n))
  /\ \A t \in Tick : /\ WF_vars(TickFires(t))
                     /\ WF_vars(AttemptSucceeds(t) \/ AttemptFails(t))
                     /\ WF_vars(\E n \in Node, b \in Body :
                                  Deliver(t, n, b) \/ Lose(t, n, b))
                     /\ \A n \in Peers(home[t]), d \in Decision :
                          SF_vars(Deliver(t, n, d))

FairSpec == Spec /\ Fairness

\* ... and the clients send what they have sent to every node until it gets there.
ReconcilingSpec ==
  FairSpec /\ \A n \in Node, d \in Decision : SF_vars(Reconcile(n, d))

-------------------------------------------------------------------------------
(* Properties *)

\* What travels between the nodes was stored by the node that sends it: a tick
\* of a live process never carries a decision its journal could not replay.
TicksCarryDurable ==
  \A t \in Tick : tick[t] # Quiet =>
    \A i \in DOMAIN tick[t].todo :
      tick[t].todo[i] # StateSync =>
        \E e \in Durable(home[t]) : e.decision = tick[t].todo[i]

Holds(n, d) == idOf[d] \in IdsOf(Durable(n))

\* A tick waits for the answer to the request it made and for no other: a
\* request in flight is the one of its present peer and body, and none is left
\* from an earlier attempt (postWithRetry).
TicksMatchCalls ==
  \A t \in Tick :
    IF tick[t] # Quiet /\ tick[t].sent
    THEN /\ call[t] # NoCall
         /\ call[t].node = tick[t].peer
         /\ call[t].body = Head(tick[t].todo)
    ELSE Free(t)

\* A tick passes over a decision only when its peer has stored it, when every
\* attempt was used up, or when its own process exits (GossipEngine.tick,
\* postWithRetry).
NoneSkipped ==
  [][\A t \in Tick :
       /\ tick[t] # Quiet /\ Head(tick[t].todo) # StateSync
       /\ tick'[t] # Quiet => tick'[t].todo # tick[t].todo
       => \/ Holds(tick[t].peer, Head(tick[t].todo))
          \/ tick[t].attempt = MaxAttempts
          \/ life'[home[t]] = "STOPPED"]_vars

Offered(n, d) == \E i \in DOMAIN recent[n] : recent[n][i] = d

\* A decision a node keeps offering reaches each of its peers, whatever is lost,
\* retried or restarted meanwhile (GossipEngine.tick, postWithRetry).
OfferedReachesPeers ==
  \A n \in Node, d \in Decision : \A p \in Peers(n) :
    Offered(n, d) ~> Holds(p, d) \/ ~Offered(n, d)

Lacking(p, n) == IdsOf(Durable(n)) \ IdsOf(Durable(p))

\* How many of the decisions that n stored are no longer among its recent ones.
Overflow(n) ==
  LET stored == Cardinality(IdsOf(Durable(n)))
  IN  IF stored > RecentCap THEN stored - RecentCap ELSE 0

\* Gossip alone is no replication: a decision that is pushed out of the recent ones before
\* a tick has copied it is never offered again (execution_queue.ts:81).  But nothing else
\* is lost: until a process exits, a peer comes to lack no more of a node's decisions than
\* have been pushed out, again and again, whatever requests are lost meanwhile.
GossipLosesOnlyOverflow ==
  []<>(exits > 0 \/ \A n \in Node : \A p \in Peers(n) :
                       Cardinality(Lacking(p, n)) <= Overflow(n))

\* What clients keep sending ends up in every journal, through crashes, under
\* some content: once the id is taken, the first content stays.
ReconciliationConverges ==
  \A n \in Node, d \in Decision : d \in proposed ~> Holds(n, d)

-------------------------------------------------------------------------------

\* The cluster implements the replicated set of decisions: a node stores only
\* what a client proposed, at most once per id, and never removes it.
Promise == INSTANCE ReplicatedJournal
             WITH stored <- [n \in Node |-> {e.decision : e \in Durable(n)}]

ImplementsReplicatedJournal == Promise!Spec

===============================================================================
