------------------------------ MODULE CrdtRuntime ------------------------------
(***************************************************************************)
(* CRDT replication over gossip, as IrisNode wires it: every node has a     *)
(* GossipEngine, a CRDTSyncBridge and a CRDTEngine, all in memory, and a    *)
(* list of peers that PeerManager keeps on disk.                            *)
(*   gossip[n]  in, out  what GossipControlPlane counts                     *)
(*              seen     GossipDedupCache                                   *)
(*              hop      GossipLineageGuard: the peer a message came from   *)
(*   bridge[n]  the operations the bridge would call a replay               *)
(*   rep[n]     the replica of CrdtEngine                                   *)
(* sendToPeer is a parameter of the engine.  IrisNode gives it a synchronous *)
(* call, so that whatever a call of the API sends has arrived when the call *)
(* returns (SyncWire); the tests give it a queue.  Either way any copy in    *)
(* `wire` may be the next.  With a queue they have been sent; with SyncWire *)
(* they are those that the loops of forward still have before them, and     *)
(* shouldForward is asked when their turn comes.                            *)
(* Time is left out: the 60 s caches are emptied at any time when MayExpire  *)
(* is set, and the rate limiter refuses what it likes when MayLimit is set.  *)
(* Signatures and trust scores are those of correct nodes, which pass; no   *)
(* node has more peers than the fanout of 5; the in-flight sets are empty   *)
(* again after every send.                                                  *)
(***************************************************************************)
EXTENDS CrdtEngine, FiniteSets

CONSTANTS
  registered,   \* the CRDTs that each node has registered
  Factor,       \* antiAmplificationFactor
  Ttl,          \* DEFAULT_GOSSIP_TTL, also the limits of the two policies
  SyncWire, MayExpire, MayLimit, MayStop,
  MaxOps,       \* bound: operations created
  MaxRepeats,   \* bound: further publications of an operation
  MaxStarts     \* bound: starts of one node

ASSUME RuntimeAssumption ==
  /\ IsFiniteSet(Node)
  /\ registered \in [Node -> SUBSET CrdtId]
  /\ Factor \in Nat /\ Ttl \in Nat
  /\ SyncWire \in BOOLEAN /\ MayExpire \in BOOLEAN /\ MayLimit \in BOOLEAN
  /\ MayStop \in BOOLEAN
  /\ MaxOps \in Nat /\ MaxRepeats \in Nat /\ MaxStarts \in Nat

VARIABLES
  life,     \* "down", "joining" (in runtimeRegistry, runtimeComponents not set), "up"
  peers,    \* PeerManager
  gossip, bridge, rep,
  wire,     \* copies of messages on their way
  sent,     \* the messages published so far
  issued,   \* history: the operations created so far
  starts    \* history: how often each node was started

vars == <<life, peers, gossip, bridge, rep, wire, sent, issued, starts>>

\* A message id is a hash of the source, the time and the payload; `at` is the time.
Message == [src : Node, op : Operation, at : Nat]
Copy == [msg : Message, ttl : Int, from : Node, to : Node]

GossipState == [in : Nat, out : Nat, seen : SUBSET Message,
                hop : SUBSET [msg : Message, peer : Node]]
NewGossip == [in |-> 0, out |-> 0, seen |-> {}, hop |-> {}]

\* The types; what a node sends stays within the anti-amplification limit, which
\* shouldForward checks before every copy.
CrdtTypeOK ==
  /\ life \in [Node -> {"down", "joining", "up"}]
  /\ peers \in [Node -> SUBSET Node]
  /\ gossip \in [Node -> GossipState]
  /\ \A n \in Node : gossip[n].out <= Factor * gossip[n].in + 1
  /\ bridge \in [Node -> SUBSET Operation]
  /\ rep \in [Node -> Replica]
  /\ wire \subseteq Copy
  /\ sent \subseteq Message
  /\ issued \subseteq Operation
  /\ starts \in [Node -> Nat]

Init ==
  /\ life = [n \in Node |-> "down"]
  /\ peers = [n \in Node |-> {}]
  /\ gossip = [n \in Node |-> NewGossip]
  /\ bridge = [n \in Node |-> {}]
  /\ rep = [n \in Node |-> NewReplica]
  /\ wire = {}
  /\ sent = {}
  /\ issued = {}
  /\ starts = [n \in Node |-> 0]

-------------------------------------------------------------------------------
(* Handlers, as functions of the state of one node *)

\* Fault: the message being answered counts before it has arrived.
BudgetAhead(g) == Factor * (g.in + 1) - g.out

\* shouldForward: what a node may still send before it has received more.
Budget(g) == Factor * g.in + 1 - g.out

\* forward: the sets of peers that may get a copy of a message with ttl `ttl`.
\* Which ones come first when the limit cuts them off depends on the trust
\* scores and the ids; here it may be any.
Targets(n, g, from, ttl) ==
  LET candidates == peers[n] \ {from, n}
  IN  IF ttl - 1 \notin 1 .. Ttl THEN {{}}
      ELSE IF SyncWire THEN {candidates}
      ELSE {T \in SUBSET candidates :
              /\ Cardinality(T) <= Budget(g)
              /\ T = candidates \/ Cardinality(T) = Budget(g)}

\* What forward adds to outgoingCount at once.
CountedNow(targets) == IF SyncWire THEN 0 ELSE Cardinality(targets)

\* shouldForward and trackInflight, for a copy whose turn comes with SyncWire.
Blocked(c) == SyncWire /\ gossip[c.from].out > Factor * gossip[c.from].in

Sending(c) == IF SyncWire THEN [gossip EXCEPT ![c.from].out = @ + 1] ELSE gossip

Copies(n, msg, ttl, targets) ==
  {[msg |-> msg, ttl |-> ttl - 1, from |-> n, to |-> p] : p \in targets}

\* GossipLineageGuard.validate: a message is taken from one peer only.
FromAnotherPeer(g, c) == \E h \in g.hop : h.msg = c.msg /\ h.peer # c.from

\* receiveCRDTOperation, on a replica whose clock may just have ticked.
BridgeReceives(n, r, op) ==
  IF op \in bridge[n] THEN
    /\ rep' = [rep EXCEPT ![n] = r]
    /\ UNCHANGED bridge
  ELSE
    /\ rep' = [rep EXCEPT ![n] = ApplyOperation(r, op, registered[n])]
    /\ bridge' = [bridge EXCEPT ![n] = @ \cup {op}]

\* broadcast: the sender marks its message as seen and sends it to its peers.
Broadcast(n, op) ==
  LET msg == [src |-> n, op |-> op, at |-> Cardinality(sent)]
  IN  \E targets \in Targets(n, gossip[n], n, Ttl) :
        /\ sent' = sent \cup {msg}
        /\ gossip' = [gossip EXCEPT ![n].seen = @ \cup {msg},
                                    ![n].out = @ + CountedNow(targets)]
        /\ wire' = wire \cup Copies(n, msg, Ttl, targets)

-------------------------------------------------------------------------------
(* The life of a node *)

\* Fault: only those whose components are set become peers.
JoinReadyOnly(n) ==
  LET others == {m \in Node \ {n} : life[m] = "up"}
  IN  /\ life[n] = "down"
      /\ SyncWire => wire = {}
      /\ starts[n] < MaxStarts
      /\ starts' = [starts EXCEPT ![n] = @ + 1]
      /\ life' = [life EXCEPT ![n] = "joining"]
      /\ gossip' = [gossip EXCEPT ![n] = NewGossip]
      /\ bridge' = [bridge EXCEPT ![n] = {}]
      /\ rep' = [rep EXCEPT ![n] = NewReplica]
      /\ peers' = [m \in Node |->
                     IF m = n THEN peers[n] \cup others
                     ELSE IF life[m] = "up" THEN peers[m] \cup {n}
                     ELSE peers[m]]
      /\ UNCHANGED <<wire, sent, issued>>

\* The end of initializeRuntimeConvergence: everyone in the registry becomes a
\* peer, and so does n of those whose components are set.
Join(n) ==
  LET others == {m \in Node \ {n} : life[m] # "down"}
  IN  /\ life[n] = "down"
      /\ SyncWire => wire = {}
      /\ starts[n] < MaxStarts
      /\ starts' = [starts EXCEPT ![n] = @ + 1]
      /\ life' = [life EXCEPT ![n] = "joining"]
      /\ gossip' = [gossip EXCEPT ![n] = NewGossip]
      /\ bridge' = [bridge EXCEPT ![n] = {}]
      /\ rep' = [rep EXCEPT ![n] = NewReplica]
      /\ peers' = [m \in Node |->
                     IF m = n THEN peers[n] \cup others
                     ELSE IF life[m] = "up" THEN peers[m] \cup {n}
                     ELSE peers[m]]
      /\ UNCHANGED <<wire, sent, issued>>

\* initGossip resumes and sets runtimeComponents.
Ready(n) ==
  /\ life[n] = "joining"
  /\ SyncWire => wire = {}
  /\ life' = [life EXCEPT ![n] = "up"]
  /\ UNCHANGED <<peers, gossip, bridge, rep, wire, sent, issued, starts>>

\* The finally block of stop.
Stop(n) ==
  /\ life[n] = "up"
  /\ MayStop
  /\ SyncWire => wire = {}
  /\ life' = [life EXCEPT ![n] = "down"]
  /\ UNCHANGED <<peers, gossip, bridge, rep, wire, sent, issued, starts>>

\* connectRuntimePeer
Connect(n, m) ==
  /\ life[n] = "up" /\ life[m] # "down" /\ n # m
  /\ SyncWire => wire = {}
  /\ peers' = [peers EXCEPT ![n] = @ \cup {m},
                            ![m] = IF life[m] = "up" THEN @ \cup {n} ELSE @]
  /\ UNCHANGED <<life, gossip, bridge, rep, wire, sent, issued, starts>>

-------------------------------------------------------------------------------
(* Operations and messages *)

\* applyCRDTOperation: create an operation, receive it at the own bridge, publish it.
\* (The files of CRDTPersistence are written next; nothing reads them.)
Apply(n, crdt, type, value, tags) ==
  LET op == [crdt |-> crdt, type |-> type, value |-> value, tags |-> tags,
             ts |-> Stamp(rep[n], n)]
  IN  /\ life[n] = "up"
      /\ SyncWire => wire = {}
      /\ Cardinality(issued) < MaxOps
      /\ issued' = issued \cup {op}
      /\ BridgeReceives(n, Ticked(rep[n]), op)
      /\ Broadcast(n, op)
      /\ UNCHANGED <<life, peers, starts>>

ApplySet(n) == \E v \in Value : Apply(n, "reg", "SET", v, {})

\* A tag is fresh; a removal names additions the replica has seen.
ApplyAdd(n) ==
  \E v \in Value, t \in Tag :
    /\ \A op \in issued : t \notin op.tags
    /\ Apply(n, "set", "ADD", v, {t})

ApplyRemove(n) ==
  \E a \in rep[n].adds : Apply(n, "set", "REMOVE", NoValue, {a.tag})

\* publishCRDTOperation of an operation from the log, as the delta sync would.
Republish(n) ==
  /\ life[n] = "up"
  /\ SyncWire => wire = {}
  /\ Cardinality(sent) < Cardinality(issued) + MaxRepeats
  /\ \E m \in Node : \E op \in MissingOps(rep[n], rep[m].applied) : Broadcast(n, op)
  /\ UNCHANGED <<life, peers, bridge, rep, issued, starts>>

\* GossipEngine.receive up to its early returns: only the counter and the
\* caches change.  (No copy is sent with a ttl out of range.)
Refuse(c) ==
  LET n == c.to
      g == Sending(c)[n]
  IN  /\ FromAnotherPeer(g, c) \/ c.msg \in g.seen \/ MayLimit
      /\ gossip' = [Sending(c) EXCEPT ![n] =
           IF FromAnotherPeer(g, c) THEN [g EXCEPT !.in = @ + 1]
           ELSE [g EXCEPT !.in = @ + 1, !.seen = @ \cup {c.msg},
                          !.hop = @ \cup {[msg |-> c.msg, peer |-> c.from]}]]
      /\ wire' = wire \ {c}
      /\ UNCHANGED <<bridge, rep>>

\* receive to its end: apply the payload, then forward the message.
Accept(c) ==
  LET n == c.to
      g == [Sending(c)[n] EXCEPT !.in = @ + 1, !.seen = @ \cup {c.msg},
                                 !.hop = @ \cup {[msg |-> c.msg, peer |-> c.from]}]
  IN  /\ ~FromAnotherPeer(gossip[n], c)
      /\ c.msg \notin gossip[n].seen
      /\ BridgeReceives(n, rep[n], c.msg.op)
      /\ \E targets \in Targets(n, g, c.from, c.ttl) :
           /\ gossip' = [Sending(c) EXCEPT ![n] = [g EXCEPT !.out = @ + CountedNow(targets)]]
           /\ wire' = (wire \ {c}) \cup Copies(n, c.msg, c.ttl, targets)

\* A copy that is not sent, or that a node without components ignores.
Ignore(c) ==
  /\ gossip' = IF Blocked(c) THEN gossip ELSE Sending(c)
  /\ wire' = wire \ {c}
  /\ UNCHANGED <<bridge, rep>>

Deliver(c) ==
  /\ c \in wire
  /\ IF Blocked(c) \/ life[c.to] # "up" THEN Ignore(c) ELSE Refuse(c) \/ Accept(c)
  /\ UNCHANGED <<life, peers, sent, issued, starts>>

\* A minute passes without traffic: gc empties GossipDedupCache and the replay
\* cache of the bridge.  The lineage guard keeps its entries.
Expire(n) ==
  /\ MayExpire
  /\ gossip[n].seen # {} \/ bridge[n] # {}
  /\ gossip' = [gossip EXCEPT ![n].seen = {}]
  /\ bridge' = [bridge EXCEPT ![n] = {}]
  /\ UNCHANGED <<life, peers, rep, wire, sent, issued, starts>>

Next ==
  \/ \E n \in Node : \/ Join(n) \/ Ready(n) \/ Stop(n)
                     \/ ApplySet(n) \/ ApplyAdd(n) \/ ApplyRemove(n)
                     \/ Republish(n) \/ Expire(n)
                     \/ \E m \in Node : Connect(n, m)
  \/ \E c \in wire : Deliver(c)

Spec == Init /\ [][Next]_vars

\* The nodes have started one by one and connected before the first operation,
\* as in runtime_convergence.test.ts.
ConnectedInit ==
  /\ life = [n \in Node |-> "up"]
  /\ peers = [n \in Node |-> Node \ {n}]
  /\ gossip = [n \in Node |-> NewGossip]
  /\ bridge = [n \in Node |-> {}]
  /\ rep = [n \in Node |-> NewReplica]
  /\ wire = {}
  /\ sent = {}
  /\ issued = {}
  /\ starts = [n \in Node |-> 1]

ConnectedSpec == ConnectedInit /\ [][Next]_vars

-------------------------------------------------------------------------------
(* Properties *)

Authors(ops) == {op.ts.node : op \in ops}

\* Two nodes that applied the same operations have the same register and the
\* same set, in whatever order, from whomever and however often they came
\* (CRDTEngine.applyOperation).  The clock is in memory only, so an author that
\* was restarted may give two operations one timestamp; of these the last wins.
SameOpsSameState ==
  \A n, m \in Node :
    /\ rep[n].applied = rep[m].applied
    /\ \A a \in Authors(rep[n].applied) : starts[a] <= 1
    => /\ rep[n].reg = rep[m].reg
       /\ rep[n].adds = rep[m].adds
       /\ rep[n].removes = rep[m].removes

\* What a node writes is what its register holds when applyCRDTOperation returns,
\* whatever it has seen of the others (CRDTLogicalClock.observe).
OwnWriteWins ==
  [][\A op \in issued' \ issued :
       op.crdt = "reg" /\ "reg" \in registered[op.ts.node] =>
         rep'[op.ts.node].reg = [value |-> op.value, ts |-> op.ts]]_vars

\* An addition leaves the set of a replica only for a removal that came after it:
\* its author had the addition in its own set, so its timestamp is later.  Removals
\* made beside it, copies that come late, twice or before it, and restarts take
\* nothing away (ORSetCRDT.apply, CRDTLogicalClock.observe).
AddWins ==
  \A n \in Node : \A op \in rep[n].applied :
    op.type = "ADD" /\ op.value \notin Members(rep[n]) =>
      \E q \in rep[n].applied :
        q.type = "REMOVE" /\ op.tags \cap q.tags # {} /\ Before(op.ts, q.ts)

\* Of two nodes that run, the one that started last knows the other, even when
\* they started at the same time (initializeRuntimeConvergence).
RunningNodesMeet ==
  \A n, m \in Node :
    life[n] # "down" /\ life[m] # "down" /\ n # m => m \in peers[n] \/ n \in peers[m]

\* When nothing is on its way, running nodes show the same register: what the
\* nodes of ConnectedSpec do is INV-006 of ADR-003.A (getRuntimeCRDTSnapshot).
Converged ==
  wire = {} => \A n, m \in Node :
    life[n] = "up" /\ life[m] = "up" => rep[n].reg = rep[m].reg
===============================================================================
