--------------------------- MODULE CrdtRuntimeProofs ---------------------------
(***************************************************************************)
(* Proofs about CrdtRuntime, for any nodes, values, tags, registries,       *)
(* limits and bounds.  The invariant says that a replica is a function of   *)
(* the operations it applied (Reflects); the lemmas about ApplyOperation    *)
(* carry it over one step, the theorems over a behaviour.                   *)
(***************************************************************************)
EXTENDS CrdtRuntime, FiniteSetTheorems, TLAPS

\* What the additions and removals among ops amount to, in any order.
Added(ops) ==
  {a \in [tag : Tag, value : Value \cup {NoValue}] :
     \E op \in ops : op.crdt = "set" /\ op.type = "ADD" /\ a.tag \in op.tags
                       /\ a.value = op.value}
Removed(ops) ==
  {t \in Tag : \E op \in ops : op.crdt = "set" /\ op.type = "REMOVE" /\ t \in op.tags}

\* The register holds an operation that no other is after.
HoldsLatest(r) ==
  /\ \/ /\ r.reg = [value |-> NoValue, ts |-> Never]
        /\ \A op \in r.applied : op.crdt # "reg"
     \/ \E op \in r.applied : op.crdt = "reg" /\ r.reg = [value |-> op.value, ts |-> op.ts]
  /\ \A op \in r.applied : op.crdt = "reg" => ~Before(r.reg.ts, op.ts)

Reflects(r) ==
  /\ \A op \in r.applied : 0 < op.ts.counter /\ op.ts.counter <= r.clock
  /\ HoldsLatest(r)
  /\ r.adds = Added(r.applied)
  /\ r.removes = Removed(r.applied)

\* What every operation that exists is like.
WellFormed(op) ==
  /\ op.ts.node \in Node
  /\ op.ts.counter > 0
  /\ op.crdt = "reg" => op.type = "SET"
  /\ op.crdt = "set" => op.type \in {"ADD", "REMOVE"}

FreshTags(ops) ==
  \A a, b \in ops : a.type = "ADD" /\ b.type = "ADD" /\ a.tags \cap b.tags # {} => a = b

-------------------------------------------------------------------------------
(* Applying one operation *)

\* applyOperation keeps the shape of a replica, never sets its clock back and
\* adds nothing but the operation to the log.
LEMMA ApplyTyped ==
  ASSUME NEW r \in Replica, NEW op \in Operation, NEW registry
  PROVE  /\ ApplyOperation(r, op, registry) \in Replica
         /\ ApplyOperation(r, op, registry).clock >= r.clock
         /\ ApplyOperation(r, op, registry).applied \subseteq r.applied \cup {op}
<1>. DEFINE s == [r EXCEPT !.clock = Observe(@, op.ts), !.applied = @ \cup {op}]
<1>1. CASE op \in r.applied \/ op.crdt \notin registry
  BY <1>1 DEF ApplyOperation, Replica
<1>2. CASE ~(op \in r.applied \/ op.crdt \notin registry)
  <2>1. s \in Replica /\ s.clock >= r.clock /\ s.applied = r.applied \cup {op}
    <3>1. Observe(r.clock, op.ts) \in Nat /\ Observe(r.clock, op.ts) >= r.clock
      BY DEF Replica, Operation, Timestamp, Observe
    <3>. QED BY <3>1 DEF Replica
  <2>2. WriteRegister(s.reg, op) \in [value : Value \cup {NoValue}, ts : Timestamp]
    BY <2>1 DEF WriteRegister, Replica, Operation
  <2>3. AddTagged(s.adds, op) \in SUBSET [tag : Tag, value : Value \cup {NoValue}]
    BY <2>1 DEF AddTagged, Replica, Operation
  <2>4. s.removes \cup op.tags \in SUBSET Tag
    BY <2>1 DEF Replica, Operation
  <2>5. CASE op.crdt = "reg"
    <3>1. ApplyOperation(r, op, registry) = [s EXCEPT !.reg = WriteRegister(@, op)]
      BY <1>2, <2>5 DEF ApplyOperation
    <3>. QED BY <3>1, <2>1, <2>2 DEF Replica
  <2>6. CASE op.crdt # "reg"
    <3>1. ApplyOperation(r, op, registry) = ChangeSet(s, op)
      BY <1>2, <2>6 DEF ApplyOperation
    <3>. HIDE DEF s
    <3>2. ChangeSet(s, op) \in Replica
      <4>1. [s EXCEPT !.adds = AddTagged(@, op)] \in Replica
        BY <2>1, <2>3 DEF Replica
      <4>2. [s EXCEPT !.removes = @ \cup op.tags] \in Replica
        BY <2>1, <2>4 DEF Replica
      <4>. QED BY <2>1, <4>1, <4>2 DEF ChangeSet
    <3>3. ChangeSet(s, op).clock = s.clock /\ ChangeSet(s, op).applied = s.applied
      BY <2>1 DEF ChangeSet, Replica
    <3>. QED BY <2>1, <3>1, <3>2, <3>3
  <2>. QED BY <2>5, <2>6
<1>. QED BY <1>1, <1>2

\* The null timestamp is before every other one, and Before is a total order.
LEMMA BeforeOrders ==
  ASSUME NEW a \in Timestamp, NEW b \in Timestamp, NEW c \in Timestamp
  PROVE  /\ Before(a, b) => ~Before(b, a)
         /\ ~Before(a, b) /\ ~Before(b, a) => a = b
         /\ ~Before(b, a) /\ ~Before(c, b) => ~Before(c, a)
<1>1. ~Before(a, b) /\ ~Before(b, a) => a.counter = b.counter /\ a.node = b.node
  BY DEF Before, Timestamp
<1>2. a.counter = b.counter /\ a.node = b.node => a = b
  BY DEF Timestamp
<1>. QED BY <1>1, <1>2 DEF Before, Timestamp

\* After an operation was applied the replica is again a function of its log.
LEMMA ApplyReflects ==
  ASSUME NEW r \in Replica, Reflects(r), NEW op \in Operation, WellFormed(op),
         FreshTags(r.applied \cup {op}), r.applied \subseteq Operation, NEW registry
  PROVE  Reflects(ApplyOperation(r, op, registry))
<1>. DEFINE s == [r EXCEPT !.clock = Observe(@, op.ts), !.applied = @ \cup {op}]
            t == ApplyOperation(r, op, registry)
<1>1. CASE op \in r.applied \/ op.crdt \notin registry
  BY <1>1 DEF ApplyOperation
<1>2. CASE ~(op \in r.applied \/ op.crdt \notin registry)
  <2>1. /\ s \in Replica /\ s.applied = r.applied \cup {op}
        /\ s.reg = r.reg /\ s.adds = r.adds /\ s.removes = r.removes
    BY DEF Replica, Operation, Timestamp, Observe
  <2>2. \A o \in s.applied : 0 < o.ts.counter /\ o.ts.counter <= s.clock
    BY DEF Reflects, WellFormed, Replica, Operation, Timestamp, Observe
  <2>3. CASE op.crdt = "reg"
    <3>1. t = [s EXCEPT !.reg = WriteRegister(@, op)]
      BY <1>2, <2>3 DEF ApplyOperation
    <3>2. /\ t.applied = r.applied \cup {op} /\ t.clock = s.clock
          /\ t.reg = WriteRegister(r.reg, op)
          /\ t.adds = r.adds /\ t.removes = r.removes
      BY <3>1, <2>1 DEF Replica
    <3>3. Added(t.applied) = Added(r.applied) /\ Removed(t.applied) = Removed(r.applied)
      BY <3>2, <2>3 DEF Added, Removed
    <3>4. CASE r.reg.ts # Never /\ Before(op.ts, r.reg.ts)
      <4>1. t.reg = r.reg
        BY <3>2, <3>4 DEF WriteRegister
      <4>2. op.ts \in Timestamp /\ r.reg.ts \in Timestamp
        BY DEF Operation, Replica
      <4>3. ~Before(r.reg.ts, op.ts)
        BY <3>4, <4>2, BeforeOrders
      <4>4. HoldsLatest(t)
        BY <4>1, <4>3, <3>2, <3>4 DEF HoldsLatest, Reflects
      <4>. QED BY <4>4, <3>2, <3>3, <2>1, <2>2 DEF Reflects
    <3>5. CASE ~(r.reg.ts # Never /\ Before(op.ts, r.reg.ts))
      <4>1. t.reg = [value |-> op.value, ts |-> op.ts]
        BY <3>2, <3>5 DEF WriteRegister
      <4>2. ASSUME NEW o \in r.applied, o.crdt = "reg" PROVE ~Before(op.ts, o.ts)
        <5>1. o.ts \in Timestamp /\ op.ts \in Timestamp /\ r.reg.ts \in Timestamp
          BY DEF Operation, Replica
        <5>2. r.reg.ts # Never
          <6>1. PICK w \in r.applied : r.reg = [value |-> w.value, ts |-> w.ts]
            BY <4>2 DEF Reflects, HoldsLatest
          <6>2. w.ts.counter > 0 /\ w.ts \in Timestamp
            BY DEF Reflects, Operation
          <6>. QED BY <6>1, <6>2 DEF Never, Timestamp
        <5>3. ~Before(op.ts, r.reg.ts) /\ ~Before(r.reg.ts, o.ts)
          BY <5>2, <3>5, <4>2 DEF Reflects, HoldsLatest
        <5>. QED BY <5>1, <5>3, BeforeOrders
      <4>3. ~Before(op.ts, op.ts)
        BY DEF Before, Operation, Timestamp
      <4>4. HoldsLatest(t)
        BY <4>1, <4>2, <4>3, <3>2, <2>3 DEF HoldsLatest
      <4>. QED BY <4>4, <3>2, <3>3, <2>1, <2>2 DEF Reflects
    <3>. QED BY <3>4, <3>5
  <2>4. CASE op.crdt = "set"
    <3>1. t = ChangeSet(s, op) /\ op.type \in {"ADD", "REMOVE"}
      BY <1>2, <2>4 DEF ApplyOperation, WellFormed
    <3>2. t.applied = s.applied /\ t.clock = s.clock /\ t.reg = r.reg
      BY <3>1, <2>1 DEF ChangeSet, Replica
    <3>3. HoldsLatest(t)
      BY <3>2, <2>1, <2>4 DEF HoldsLatest, Reflects
    <3>4. CASE op.type = "ADD"
      <4>1. t.adds = AddTagged(r.adds, op) /\ t.removes = r.removes
        BY <3>1, <3>4, <2>1 DEF ChangeSet, Replica
      <4>2. \A a \in r.adds : a.tag \notin op.tags
        BY <1>2, <3>4 DEF Reflects, Added, FreshTags
      <4>3. AddTagged(r.adds, op) = Added(r.applied \cup {op})
        BY <4>2, <3>4, <2>4 DEF AddTagged, Added, Reflects, Operation
      <4>4. Removed(r.applied \cup {op}) = Removed(r.applied)
        BY <3>4 DEF Removed
      <4>. QED BY <4>1, <4>3, <4>4, <3>2, <3>3, <2>1, <2>2 DEF Reflects
    <3>5. CASE op.type = "REMOVE"
      <4>1. t.adds = r.adds /\ t.removes = r.removes \cup op.tags
        BY <3>1, <3>5, <2>1 DEF ChangeSet, Replica
      <4>2. Added(r.applied \cup {op}) = Added(r.applied)
        BY <3>5 DEF Added
      <4>3. Removed(r.applied \cup {op}) = r.removes \cup op.tags
        BY <3>5, <2>4 DEF Removed, Reflects, Operation
      <4>. QED BY <4>1, <4>2, <4>3, <3>2, <3>3, <2>1, <2>2 DEF Reflects
    <3>. QED BY <3>1, <3>4, <3>5
  <2>. QED BY <2>3, <2>4 DEF Operation, CrdtId
<1>. QED BY <1>1, <1>2

-------------------------------------------------------------------------------
(* The invariant *)

USE EngineAssumption, RuntimeAssumption

\* Operations are well formed, with fresh tags.
OpsInv ==
  /\ \A op \in issued : WellFormed(op)
  /\ FreshTags(issued)
  /\ \A n \in Node : rep[n].applied \subseteq issued /\ bridge[n] \subseteq issued
  /\ \A c \in wire : c.msg.op \in issued

\* As long as its author was not restarted, an operation has its timestamp for itself.
StampInv ==
  /\ \A n \in Node : life[n] # "down" => starts[n] >= 1
  /\ \A op \in issued :
       /\ starts[op.ts.node] >= 1
       /\ starts[op.ts.node] <= 1 => op.ts.counter <= rep[op.ts.node].clock
  /\ \A a, b \in issued : a.ts = b.ts /\ starts[a.ts.node] <= 1 => a = b

RuntimeInv ==
  /\ CrdtTypeOK
  /\ IsFiniteSet(sent)
  /\ OpsInv
  /\ \A n \in Node : Reflects(rep[n])
  /\ StampInv

\* Whatever peers the limit leaves, the counters stay within it.
LEMMA TargetsTyped ==
  ASSUME CrdtTypeOK, NEW n \in Node, NEW g \in GossipState, g.out <= Factor * g.in + 1,
         NEW from, NEW ttl \in Int, NEW T \in Targets(n, g, from, ttl)
  PROVE  /\ T \subseteq Node
         /\ CountedNow(T) \in Nat
         /\ g.out + CountedNow(T) <= Factor * g.in + 1
         /\ \A msg \in Message : Copies(n, msg, ttl, T) \subseteq Copy
<1>1. T \subseteq Node
  BY DEF Targets, CrdtTypeOK
<1>2. Cardinality(T) \in Nat
  BY <1>1, FS_Subset, FS_CardinalityType
<1>3. g.out \in Nat /\ g.in \in Nat /\ Factor * g.in \in Nat
  BY DEF GossipState
<1>4. \A msg \in Message : Copies(n, msg, ttl, T) \subseteq Copy
  BY <1>1 DEF Copies, Copy
<1>5. CASE T = {} \/ SyncWire
  <2>1. CountedNow(T) = 0
    BY <1>5, FS_EmptySet DEF CountedNow
  <2>. QED BY <2>1, <1>1, <1>3, <1>4
<1>6. CASE T # {} /\ ~SyncWire
  <2>1. Cardinality(T) <= Budget(g)
    BY <1>6 DEF Targets
  <2>2. Budget(g) = Factor * g.in + 1 - g.out
    BY DEF Budget
  <2>3. CountedNow(T) = Cardinality(T)
    BY <1>6 DEF CountedNow
  <2>. QED BY <2>1, <2>2, <2>3, <1>1, <1>2, <1>3, <1>4
<1>. QED BY <1>5, <1>6

\* A copy goes out only below the limit (shouldForward, trackInflight).
LEMMA SendingTyped ==
  ASSUME CrdtTypeOK, NEW c \in Copy, ~Blocked(c)
  PROVE  /\ Sending(c) \in [Node -> GossipState]
         /\ \A m \in Node : Sending(c)[m].out <= Factor * Sending(c)[m].in + 1
<1>1. CASE SyncWire
  <2>. DEFINE g == gossip[c.from]
  <2>1. c.from \in Node /\ g \in GossipState
    BY DEF Copy, CrdtTypeOK
  <2>2. g.out \in Nat /\ g.in \in Nat /\ Factor * g.in \in Nat
    BY <2>1 DEF GossipState
  <2>3. g.out <= Factor * g.in
    BY <1>1, <2>2 DEF Blocked
  <2>4. Sending(c) = [gossip EXCEPT ![c.from] = [g EXCEPT !.out = @ + 1]]
    BY <1>1 DEF Sending
  <2>5. /\ [g EXCEPT !.out = @ + 1] \in GossipState
        /\ [g EXCEPT !.out = @ + 1].out = g.out + 1 /\ [g EXCEPT !.out = @ + 1].in = g.in
    BY <2>1, <2>2 DEF GossipState
  <2>6. [g EXCEPT !.out = @ + 1].out <= Factor * [g EXCEPT !.out = @ + 1].in + 1
    BY <2>2, <2>3, <2>5
  <2>. QED BY <2>1, <2>4, <2>5, <2>6 DEF CrdtTypeOK
<1>2. CASE ~SyncWire
  BY <1>2 DEF Sending, CrdtTypeOK
<1>. QED BY <1>1, <1>2

\* What the bridge of one node does to the replicas (receiveCRDTOperation).
LEMMA BridgeKeeps ==
  ASSUME CrdtTypeOK, OpsInv, \A m \in Node : Reflects(rep[m]),
         NEW n \in Node, NEW r \in Replica, Reflects(r), r.applied \subseteq issued,
         NEW op \in Operation, WellFormed(op), FreshTags(issued \cup {op}),
         BridgeReceives(n, r, op)
  PROVE  /\ rep' \in [Node -> Replica] /\ bridge' \in [Node -> SUBSET Operation]
         /\ \A m \in Node : /\ Reflects(rep'[m])
                            /\ rep'[m].applied \subseteq issued \cup {op}
                            /\ bridge'[m] \subseteq issued \cup {op}
         /\ rep'[n].clock >= r.clock
         /\ \A m \in Node \ {n} : rep'[m] = rep[m]
<1>. DEFINE t == ApplyOperation(r, op, registered[n])
<1>1. t \in Replica /\ t.clock >= r.clock /\ t.applied \subseteq r.applied \cup {op}
  BY ApplyTyped
<1>2. FreshTags(r.applied \cup {op}) /\ r.applied \subseteq Operation
  BY DEF FreshTags, Replica
<1>3. Reflects(t)
  BY <1>2, ApplyReflects
<1>4. r.clock \in Nat
  BY DEF Replica
<1>5. CASE op \in bridge[n]
  <2>1. rep' = [rep EXCEPT ![n] = r] /\ bridge' = bridge
    BY <1>5 DEF BridgeReceives
  <2>. QED BY <2>1, <1>4 DEF CrdtTypeOK, OpsInv
<1>6. CASE op \notin bridge[n]
  <2>1. /\ rep' = [rep EXCEPT ![n] = t]
        /\ bridge' = [bridge EXCEPT ![n] = @ \cup {op}]
    BY <1>6 DEF BridgeReceives
  <2>. QED BY <2>1, <1>1, <1>3 DEF CrdtTypeOK, OpsInv
<1>. QED BY <1>5, <1>6

\* A publication only adds to the messages, the copies and the counters (broadcast).
LEMMA BroadcastKeeps ==
  ASSUME CrdtTypeOK, IsFiniteSet(sent), NEW n \in Node, NEW op \in Operation,
         Broadcast(n, op)
  PROVE  /\ gossip' \in [Node -> GossipState]
         /\ \A m \in Node : gossip'[m].out <= Factor * gossip'[m].in + 1
         /\ wire' \subseteq Copy /\ sent' \subseteq Message /\ IsFiniteSet(sent')
         /\ \A c \in wire' : c \in wire \/ c.msg.op = op
<1>. DEFINE msg == [src |-> n, op |-> op, at |-> Cardinality(sent)]
<1>1. msg \in Message
  BY FS_CardinalityType DEF Message
<1>2. PICK T \in Targets(n, gossip[n], n, Ttl) :
        /\ sent' = sent \cup {msg}
        /\ gossip' = [gossip EXCEPT ![n].seen = @ \cup {msg},
                                    ![n].out = @ + CountedNow(T)]
        /\ wire' = wire \cup Copies(n, msg, Ttl, T)
  BY DEF Broadcast
<1>3. gossip[n] \in GossipState /\ gossip[n].out <= Factor * gossip[n].in + 1
  BY DEF CrdtTypeOK
<1>4. /\ CountedNow(T) \in Nat
      /\ gossip[n].out + CountedNow(T) <= Factor * gossip[n].in + 1
      /\ Copies(n, msg, Ttl, T) \subseteq Copy
  <2>1. Ttl \in Int
    OBVIOUS
  <2>. QED BY <1>1, <1>3, <2>1, TargetsTyped
<1>5. gossip'[n] = [gossip[n] EXCEPT !.seen = @ \cup {msg}, !.out = @ + CountedNow(T)]
  BY <1>2 DEF CrdtTypeOK
<1>6. gossip' \in [Node -> GossipState] /\ \A m \in Node \ {n} : gossip'[m] = gossip[m]
  <2>1. gossip'[n] \in GossipState
    <3>1. gossip[n].out + CountedNow(T) \in Nat
      BY <1>3, <1>4 DEF GossipState
    <3>2. gossip[n].seen \cup {msg} \in SUBSET Message
      BY <1>1, <1>3 DEF GossipState
    <3>. QED BY <3>1, <3>2, <1>3, <1>5 DEF GossipState
  <2>. QED BY <2>1, <1>2 DEF CrdtTypeOK
<1>7. gossip'[n].out <= Factor * gossip'[n].in + 1
  BY <1>3, <1>4, <1>5 DEF GossipState
<1>8. IsFiniteSet(sent')
  BY <1>2, FS_AddElement
<1>9. \A c \in Copies(n, msg, Ttl, T) : c.msg.op = op
  BY DEF Copies
<1>. QED BY <1>1, <1>2, <1>4, <1>6, <1>7, <1>8, <1>9 DEF CrdtTypeOK

\* An operation that is created has a timestamp and tags no other one has.
LEMMA ApplyKeeps ==
  ASSUME RuntimeInv, NEW n \in Node, NEW crdt \in CrdtId,
         NEW type \in {"SET", "ADD", "REMOVE"}, NEW value \in Value \cup {NoValue},
         NEW tags \in SUBSET Tag,
         crdt = "reg" => type = "SET",
         crdt = "set" => type \in {"ADD", "REMOVE"},
         type = "ADD" => \A o \in issued : tags \cap o.tags = {},
         Apply(n, crdt, type, value, tags)
  PROVE  RuntimeInv'
<1>. DEFINE op == [crdt |-> crdt, type |-> type, value |-> value, tags |-> tags,
                   ts |-> Stamp(rep[n], n)]
            r  == Ticked(rep[n])
<1>1. /\ life[n] = "up" /\ issued' = issued \cup {op} /\ BridgeReceives(n, r, op)
      /\ Broadcast(n, op) /\ UNCHANGED <<life, peers, starts>>
  BY DEF Apply
<1>2. rep[n] \in Replica /\ rep[n].clock \in Nat
  BY DEF RuntimeInv, CrdtTypeOK, Replica
<1>3. /\ op \in Operation /\ WellFormed(op)
      /\ op.ts.node = n /\ op.ts.counter = rep[n].clock + 1
  <2>1. op.ts \in Timestamp /\ op.ts.node = n /\ op.ts.counter = rep[n].clock + 1
    BY <1>2 DEF Timestamp, Stamp
  <2>2. op \in Operation
    BY <2>1 DEF Operation
  <2>. QED BY <2>1, <2>2, <1>2 DEF WellFormed
<1>4. FreshTags(issued \cup {op})
  BY DEF FreshTags, RuntimeInv, OpsInv
<1>5. r \in Replica /\ r.applied = rep[n].applied /\ r.clock = rep[n].clock + 1
  BY <1>2 DEF Ticked, Replica
<1>6. Reflects(r)
  <2>1. Reflects(rep[n])
    BY DEF RuntimeInv
  <2>2. r.reg = rep[n].reg /\ r.adds = rep[n].adds /\ r.removes = rep[n].removes
    BY <1>2 DEF Ticked, Replica
  <2>3. \A o \in r.applied : 0 < o.ts.counter /\ o.ts.counter <= r.clock
    BY <2>1, <1>2, <1>5 DEF Reflects, Replica, Operation, Timestamp
  <2>4. HoldsLatest(r)
    BY <2>1, <2>2, <1>5 DEF Reflects, HoldsLatest
  <2>. QED BY <2>1, <2>2, <2>3, <2>4, <1>5 DEF Reflects
<1>7. r.applied \subseteq issued
  BY <1>5 DEF RuntimeInv, OpsInv
<1>8. CrdtTypeOK /\ OpsInv /\ \A m \in Node : Reflects(rep[m])
  BY DEF RuntimeInv
<1>9. /\ rep' \in [Node -> Replica] /\ bridge' \in [Node -> SUBSET Operation]
      /\ \A m \in Node : /\ Reflects(rep'[m])
                         /\ rep'[m].applied \subseteq issued'
                         /\ bridge'[m] \subseteq issued'
      /\ rep'[n].clock >= rep[n].clock + 1
      /\ \A m \in Node \ {n} : rep'[m] = rep[m]
  BY <1>1, <1>3, <1>4, <1>5, <1>6, <1>7, <1>8, BridgeKeeps
<1>10. /\ gossip' \in [Node -> GossipState]
       /\ \A m \in Node : gossip'[m].out <= Factor * gossip'[m].in + 1
       /\ wire' \subseteq Copy /\ sent' \subseteq Message /\ IsFiniteSet(sent')
       /\ \A c \in wire' : c \in wire \/ c.msg.op = op
  BY <1>1, <1>3, BroadcastKeeps DEF RuntimeInv
<1>11. CrdtTypeOK'
  BY <1>1, <1>3, <1>9, <1>10 DEF CrdtTypeOK, RuntimeInv
<1>12. OpsInv'
  BY <1>1, <1>3, <1>4, <1>9, <1>10 DEF OpsInv, RuntimeInv
<1>13. StampInv'
  <2>1. starts[n] >= 1 /\ starts \in [Node -> Nat]
    BY <1>1 DEF RuntimeInv, StampInv, CrdtTypeOK
  <2>2. ASSUME NEW o \in issued, o.ts.node = n, starts[n] <= 1 PROVE o.ts.counter <= rep[n].clock
    BY <2>2 DEF RuntimeInv, StampInv
  <2>3. \A o \in issued : o \in Operation /\ o.ts.counter \in Nat /\ o.ts.node \in Node
    BY DEF RuntimeInv, CrdtTypeOK, OpsInv, WellFormed, Operation, Timestamp
  <2>4. rep'[n].clock \in Nat
    BY <1>9 DEF Replica
  <2>5. \A o \in issued' : /\ starts[o.ts.node] >= 1
                           /\ starts[o.ts.node] <= 1 => o.ts.counter <= rep'[o.ts.node].clock
    <3>1. ASSUME NEW o \in issued, starts[o.ts.node] <= 1
          PROVE  o.ts.counter <= rep'[o.ts.node].clock
      <4>1. CASE o.ts.node = n
        BY <4>1, <3>1, <2>2, <2>3, <2>4, <1>2, <1>9
      <4>2. CASE o.ts.node # n
        BY <4>2, <3>1, <2>3, <1>9 DEF RuntimeInv, StampInv
      <4>. QED BY <4>1, <4>2
    <3>2. op.ts.counter <= rep'[op.ts.node].clock
      BY <1>3, <1>9, <2>4, <1>2
    <3>. QED BY <3>1, <3>2, <2>1, <1>1, <1>3 DEF RuntimeInv, StampInv
  <2>6. \A a, b \in issued' : a.ts = b.ts /\ starts[a.ts.node] <= 1 => a = b
    <3>1. ASSUME NEW a \in issued, a.ts = op.ts, starts[n] <= 1 PROVE FALSE
      BY <3>1, <2>2, <2>3, <1>2, <1>3
    <3>. QED BY <3>1, <1>1, <1>3 DEF RuntimeInv, StampInv
  <2>. QED BY <1>1, <2>5, <2>6 DEF StampInv, RuntimeInv
<1>. QED BY <1>9, <1>10, <1>11, <1>12, <1>13 DEF RuntimeInv

\* A copy that is received, refused or accepted.
LEMMA ReceiveKeeps ==
  ASSUME RuntimeInv, NEW c \in wire,
         Sending(c) \in [Node -> GossipState],
         \A m \in Node : Sending(c)[m].out <= Factor * Sending(c)[m].in + 1,
         Refuse(c) \/ Accept(c),
         UNCHANGED <<life, peers, sent, issued, starts>>
  PROVE  RuntimeInv'
<1>. DEFINE n == c.to
            G == Sending(c)
<1>1. /\ c \in Copy /\ n \in Node /\ c.from \in Node /\ c.ttl \in Int /\ c.msg \in Message
      /\ c.msg.op \in issued /\ c.msg.op \in Operation /\ WellFormed(c.msg.op)
  BY DEF RuntimeInv, CrdtTypeOK, OpsInv, Copy, Message
<1>2. UNCHANGED <<life, peers, sent, issued, starts>>
  OBVIOUS
<1>3. G[n] \in GossipState /\ G[n].out <= Factor * G[n].in + 1
  BY <1>1
<1>. DEFINE hops == G[n].hop \cup {[msg |-> c.msg, peer |-> c.from]}
            g == [G[n] EXCEPT !.in = @ + 1, !.seen = @ \cup {c.msg},
                                   !.hop = @ \cup {[msg |-> c.msg, peer |-> c.from]}]
<1>4. /\ g \in GossipState /\ g.out <= Factor * g.in + 1
      /\ [G[n] EXCEPT !.in = @ + 1] \in GossipState
      /\ G[n].out <= Factor * (G[n].in + 1) + 1
  <2>1. G[n].in \in Nat /\ G[n].out \in Nat
    BY <1>3 DEF GossipState
  <2>2. Factor * (G[n].in + 1) = Factor * G[n].in + Factor
    BY <2>1
  <2>3. G[n].out <= Factor * (G[n].in + 1) + 1
    BY <2>1, <2>2, <1>3
  <2>4. [msg |-> c.msg, peer |-> c.from] \in [msg : Message, peer : Node]
    BY <1>1
  <2>5. g \in GossipState /\ g.out = G[n].out /\ g.in = G[n].in + 1
    <3>1. hops \in SUBSET [msg : Message, peer : Node]
      BY <1>3, <2>4 DEF GossipState
    <3>2. G[n].seen \cup {c.msg} \in SUBSET Message
      BY <1>1, <1>3 DEF GossipState
    <3>3. G[n].in + 1 \in Nat
      BY <2>1
    <3>. QED BY <3>1, <3>2, <3>3, <1>3 DEF GossipState
  <2>6. [G[n] EXCEPT !.in = @ + 1] \in GossipState
    BY <1>3 DEF GossipState
  <2>. QED BY <2>3, <2>5, <2>6
<1>5. CASE Refuse(c)
  <2>1. wire' \subseteq wire /\ UNCHANGED <<bridge, rep>>
    BY <1>5 DEF Refuse
  <2>2. gossip' = [G EXCEPT ![n] = [G[n] EXCEPT !.in = @ + 1]]
        \/ gossip' = [G EXCEPT ![n] = g]
    BY <1>5 DEF Refuse
  <2>3. /\ gossip' \in [Node -> GossipState]
        /\ \A m \in Node : gossip'[m].out <= Factor * gossip'[m].in + 1
    <3>1. G \in [Node -> GossipState] /\ \A m \in Node : G[m].out <= Factor * G[m].in + 1
      OBVIOUS
    <3>. HIDE DEF G
    <3>2. CASE gossip' = [G EXCEPT ![n] = [G[n] EXCEPT !.in = @ + 1]]
      <4>1. gossip'[n] = [G[n] EXCEPT !.in = @ + 1]
        BY <3>1, <3>2, <1>1
      <4>2. gossip'[n].out = G[n].out /\ gossip'[n].in = G[n].in + 1
        BY <4>1, <1>3 DEF GossipState
      <4>. QED BY <3>1, <3>2, <4>2, <1>1, <1>4
    <3>3. CASE gossip' = [G EXCEPT ![n] = g]
      BY <3>1, <3>3, <1>1, <1>4
    <3>. QED BY <2>2, <3>2, <3>3
  <2>4. CrdtTypeOK' /\ OpsInv' /\ StampInv'
    BY <2>1, <2>3, <1>2 DEF RuntimeInv, CrdtTypeOK, OpsInv, StampInv
  <2>. QED BY <2>1, <2>4, <1>2 DEF RuntimeInv
<1>6. CASE Accept(c)
  <2>1. BridgeReceives(n, rep[n], c.msg.op)
    BY <1>6 DEF Accept
  <2>2. PICK T \in Targets(n, g, c.from, c.ttl) :
          /\ gossip' = [G EXCEPT ![n] = [g EXCEPT !.out = @ + CountedNow(T)]]
          /\ wire' = (wire \ {c}) \cup Copies(n, c.msg, c.ttl, T)
    BY <1>6 DEF Accept
  <2>3. /\ CountedNow(T) \in Nat
        /\ g.out + CountedNow(T) <= Factor * g.in + 1
        /\ Copies(n, c.msg, c.ttl, T) \subseteq Copy
    BY <1>1, <1>4, TargetsTyped DEF RuntimeInv
  <2>4. /\ gossip' \in [Node -> GossipState]
        /\ \A m \in Node : gossip'[m].out <= Factor * gossip'[m].in + 1
    <3>1. G \in [Node -> GossipState] /\ \A m \in Node : G[m].out <= Factor * G[m].in + 1
      OBVIOUS
    <3>. HIDE DEF G
    <3>2. gossip'[n] = [g EXCEPT !.out = @ + CountedNow(T)]
      BY <2>2, <3>1, <1>1
    <3>3. g.out + CountedNow(T) \in Nat
      BY <2>3, <1>4 DEF GossipState
    <3>4. gossip'[n] \in GossipState /\ gossip'[n].out = g.out + CountedNow(T)
          /\ gossip'[n].in = g.in
      BY <3>2, <3>3, <1>4 DEF GossipState
    <3>. QED BY <3>1, <3>4, <2>2, <2>3, <1>1
  <2>5. issued \cup {c.msg.op} = issued
    BY <1>1
  <2>6. CrdtTypeOK /\ OpsInv /\ StampInv /\ \A m \in Node : Reflects(rep[m])
    BY DEF RuntimeInv
  <2>7. /\ rep[n] \in Replica /\ Reflects(rep[n]) /\ rep[n].applied \subseteq issued
        /\ FreshTags(issued \cup {c.msg.op})
    BY <1>1, <2>5, <2>6 DEF CrdtTypeOK, OpsInv
  <2>8. /\ rep' \in [Node -> Replica] /\ bridge' \in [Node -> SUBSET Operation]
        /\ \A m \in Node : /\ Reflects(rep'[m])
                           /\ rep'[m].applied \subseteq issued
                           /\ bridge'[m] \subseteq issued
        /\ rep'[n].clock >= rep[n].clock
        /\ \A m \in Node \ {n} : rep'[m] = rep[m]
    BY <1>1, <2>1, <2>5, <2>6, <2>7, BridgeKeeps
  <2>9. \A o \in Copies(n, c.msg, c.ttl, T) : o.msg.op = c.msg.op
    BY DEF Copies
  <2>10. CrdtTypeOK'
    BY <1>2, <2>2, <2>3, <2>4, <2>6, <2>8 DEF CrdtTypeOK
  <2>11. OpsInv'
    BY <1>1, <1>2, <2>2, <2>6, <2>8, <2>9 DEF OpsInv
  <2>12. StampInv'
    <3>1. \A o \in issued : o.ts.counter \in Nat /\ o.ts.node \in Node
      BY <2>6 DEF CrdtTypeOK, OpsInv, WellFormed, Operation, Timestamp
    <3>2. \A m \in Node : rep[m].clock \in Nat /\ rep'[m].clock \in Nat /\ rep'[m].clock >= rep[m].clock
      <4>1. \A m \in Node : rep[m] \in Replica /\ rep'[m] \in Replica
        BY <2>6, <2>8 DEF CrdtTypeOK
      <4>2. \A m \in Node : rep[m].clock \in Nat /\ rep'[m].clock \in Nat
        BY <4>1 DEF Replica
      <4>. QED BY <4>2, <2>8
    <3>. QED BY <3>1, <3>2, <2>6, <1>2 DEF StampInv
  <2>. QED BY <1>2, <2>8, <2>10, <2>11, <2>12 DEF RuntimeInv
<1>. QED BY <1>5, <1>6

\* A copy that is sent or blocked, received or ignored keeps the invariant.
LEMMA DeliverKeeps ==
  ASSUME RuntimeInv, NEW c \in wire, Deliver(c)
  PROVE  RuntimeInv'
<1>. DEFINE n == c.to
<1>1. /\ c \in Copy /\ n \in Node /\ c.from \in Node /\ c.ttl \in Int /\ c.msg \in Message
      /\ c.msg.op \in issued /\ c.msg.op \in Operation /\ WellFormed(c.msg.op)
  BY DEF RuntimeInv, CrdtTypeOK, OpsInv, Copy, Message
<1>2. UNCHANGED <<life, peers, sent, issued, starts>>
  BY DEF Deliver
<1>3. CASE Blocked(c) \/ life[n] # "up"
  <2>1. /\ wire' \subseteq wire /\ UNCHANGED <<bridge, rep>>
        /\ gossip' = IF Blocked(c) THEN gossip ELSE Sending(c)
    BY <1>3 DEF Deliver, Ignore
  <2>2. /\ gossip' \in [Node -> GossipState]
        /\ \A m \in Node : gossip'[m].out <= Factor * gossip'[m].in + 1
    BY <2>1, <1>1, SendingTyped DEF RuntimeInv, CrdtTypeOK
  <2>3. CrdtTypeOK' /\ OpsInv' /\ StampInv'
    BY <2>1, <2>2, <1>2 DEF RuntimeInv, CrdtTypeOK, OpsInv, StampInv
  <2>. QED BY <2>1, <2>3, <1>2 DEF RuntimeInv
<1>4. CASE ~(Blocked(c) \/ life[n] # "up")
  <2>. DEFINE G == Sending(c)
  <2>1. /\ G \in [Node -> GossipState]
        /\ \A m \in Node : G[m].out <= Factor * G[m].in + 1
    BY <1>1, <1>4, SendingTyped DEF RuntimeInv
  <2>2. Refuse(c) \/ Accept(c)
    BY <1>4 DEF Deliver
  <2>. QED BY <1>1, <1>2, <2>1, <2>2, ReceiveKeeps
<1>. QED BY <1>3, <1>4

\* A start gives the node an empty replica; its operations of before keep what the
\* invariant says of them, because the node has been started again.
LEMMA JoinKeeps ==
  ASSUME RuntimeInv, NEW n \in Node, Join(n)
  PROVE  RuntimeInv'
<1>1. /\ starts' = [starts EXCEPT ![n] = @ + 1]
      /\ life[n] = "down" /\ life' = [life EXCEPT ![n] = "joining"]
      /\ gossip' = [gossip EXCEPT ![n] = NewGossip]
      /\ bridge' = [bridge EXCEPT ![n] = {}]
      /\ rep' = [rep EXCEPT ![n] = NewReplica]
      /\ UNCHANGED <<wire, sent, issued>>
  BY DEF Join
<1>2. peers' \in [Node -> SUBSET Node]
  BY DEF Join, RuntimeInv, CrdtTypeOK
<1>3. NewReplica \in Replica /\ NewGossip \in GossipState
  BY DEF NewReplica, Replica, NewGossip, GossipState, Never, Timestamp
<1>4. Reflects(NewReplica)
  BY DEF NewReplica, Reflects, HoldsLatest, Added, Removed
<1>5. NewGossip.out <= Factor * NewGossip.in + 1
  BY DEF NewGossip
<1>6. CrdtTypeOK'
  <2>1. starts' \in [Node -> Nat] /\ life' \in [Node -> {"down", "joining", "up"}]
        /\ bridge' \in [Node -> SUBSET Operation] /\ rep' \in [Node -> Replica]
    BY <1>1, <1>3 DEF RuntimeInv, CrdtTypeOK
  <2>2. gossip' \in [Node -> GossipState]
        /\ \A m \in Node : gossip'[m].out <= Factor * gossip'[m].in + 1
    BY <1>1, <1>3, <1>5 DEF RuntimeInv, CrdtTypeOK
  <2>. QED BY <1>1, <1>2, <2>1, <2>2 DEF RuntimeInv, CrdtTypeOK
<1>7. OpsInv'
  BY <1>1 DEF RuntimeInv, CrdtTypeOK, OpsInv, NewReplica
<1>8. StampInv'
  <2>1. \A m \in Node : starts[m] \in Nat /\ starts'[m] = IF m = n THEN starts[m] + 1 ELSE starts[m]
    BY <1>1 DEF RuntimeInv, CrdtTypeOK
  <2>2. \A o \in issued : o.ts.node \in Node
    BY DEF RuntimeInv, OpsInv, WellFormed
  <2>3. \A m \in Node : life'[m] # "down" => starts'[m] >= 1
    BY <2>1, <1>1 DEF RuntimeInv, StampInv, CrdtTypeOK
  <2>4. \A o \in issued : starts'[o.ts.node] >= 1
    BY <2>1, <2>2 DEF RuntimeInv, StampInv
  <2>5. \A o \in issued : starts'[o.ts.node] <= 1 => o.ts.node # n /\ starts[o.ts.node] <= 1
    <3>. SUFFICES ASSUME NEW o \in issued, starts'[o.ts.node] <= 1
                  PROVE  o.ts.node # n /\ starts[o.ts.node] <= 1
      OBVIOUS
    <3>. DEFINE a == o.ts.node
    <3>1. a \in Node /\ starts[a] >= 1 /\ starts'[a] <= 1
      BY <2>2 DEF RuntimeInv, StampInv
    <3>. HIDE DEF a
    <3>2. a # n /\ starts[a] <= 1
      BY <3>1, <2>1
    <3>. QED BY <3>2 DEF a
  <2>6. \A o \in issued : starts'[o.ts.node] <= 1 => o.ts.counter <= rep'[o.ts.node].clock
    BY <2>5, <2>2, <1>1 DEF RuntimeInv, StampInv, CrdtTypeOK
  <2>. QED BY <2>3, <2>4, <2>5, <2>6, <1>1 DEF StampInv, RuntimeInv
<1>. QED BY <1>1, <1>4, <1>6, <1>7, <1>8 DEF RuntimeInv, CrdtTypeOK

\* Publishing again, and what touches neither operations nor replicas.
LEMMA OthersKeep ==
  ASSUME RuntimeInv, NEW n \in Node,
         \/ Ready(n) \/ Stop(n) \/ Republish(n) \/ Expire(n)
         \/ \E m \in Node : Connect(n, m)
  PROVE  RuntimeInv'
<1>1. CASE Ready(n) \/ Stop(n)
  <2>1. /\ life' \in [Node -> {"down", "joining", "up"}]
        /\ \A m \in Node : life'[m] # "down" => life[m] # "down"
        /\ UNCHANGED <<peers, gossip, bridge, rep, wire, sent, issued, starts>>
    BY <1>1 DEF Ready, Stop, RuntimeInv, CrdtTypeOK
  <2>2. CrdtTypeOK' /\ OpsInv' /\ StampInv'
    BY <2>1 DEF RuntimeInv, CrdtTypeOK, OpsInv, StampInv
  <2>. QED BY <2>1, <2>2 DEF RuntimeInv
<1>2. CASE Republish(n)
  <2>1. PICK op \in rep[n].applied : Broadcast(n, op)
    BY <1>2 DEF Republish, MissingOps
  <2>2. op \in issued /\ op \in Operation
    BY DEF RuntimeInv, OpsInv, CrdtTypeOK
  <2>3. UNCHANGED <<life, peers, bridge, rep, issued, starts>>
    BY <1>2 DEF Republish
  <2>4. /\ gossip' \in [Node -> GossipState]
        /\ \A m \in Node : gossip'[m].out <= Factor * gossip'[m].in + 1
        /\ wire' \subseteq Copy /\ sent' \subseteq Message /\ IsFiniteSet(sent')
        /\ \A c \in wire' : c \in wire \/ c.msg.op = op
    BY <2>1, <2>2, BroadcastKeeps DEF RuntimeInv
  <2>5. CrdtTypeOK' /\ OpsInv' /\ StampInv'
    BY <2>2, <2>3, <2>4 DEF RuntimeInv, CrdtTypeOK, OpsInv, StampInv
  <2>. QED BY <2>3, <2>4, <2>5 DEF RuntimeInv
<1>3. CASE Expire(n)
  <2>1. /\ gossip' = [gossip EXCEPT ![n].seen = {}] /\ bridge' = [bridge EXCEPT ![n] = {}]
        /\ UNCHANGED <<life, peers, rep, wire, sent, issued, starts>>
    BY <1>3 DEF Expire
  <2>2. gossip[n] \in GossipState /\ gossip'[n] = [gossip[n] EXCEPT !.seen = {}]
    BY <2>1 DEF RuntimeInv, CrdtTypeOK
  <2>3. gossip'[n] \in GossipState /\ gossip'[n].in = gossip[n].in /\ gossip'[n].out = gossip[n].out
    BY <2>2 DEF GossipState
  <2>4. CrdtTypeOK'
    BY <2>1, <2>3 DEF RuntimeInv, CrdtTypeOK
  <2>5. OpsInv' /\ StampInv'
    BY <2>1 DEF RuntimeInv, CrdtTypeOK, OpsInv, StampInv
  <2>. QED BY <2>1, <2>4, <2>5 DEF RuntimeInv
<1>4. CASE \E m \in Node : Connect(n, m)
  <2>1. /\ peers' \in [Node -> SUBSET Node]
        /\ UNCHANGED <<life, gossip, bridge, rep, wire, sent, issued, starts>>
    BY <1>4 DEF Connect, RuntimeInv, CrdtTypeOK
  <2>2. CrdtTypeOK' /\ OpsInv' /\ StampInv'
    BY <2>1 DEF RuntimeInv, CrdtTypeOK, OpsInv, StampInv
  <2>. QED BY <2>1, <2>2 DEF RuntimeInv
<1>. QED BY <1>1, <1>2, <1>3, <1>4

\* The three ways to write are cases of ApplyKeeps.
LEMMA WritesKeep ==
  ASSUME RuntimeInv, NEW n \in Node, ApplySet(n) \/ ApplyAdd(n) \/ ApplyRemove(n)
  PROVE  RuntimeInv'
<1>1. CASE ApplySet(n)
  BY <1>1, ApplyKeeps DEF ApplySet, CrdtId
<1>2. CASE ApplyAdd(n)
  <2>1. PICK v \in Value, t \in Tag :
          (\A op \in issued : t \notin op.tags) /\ Apply(n, "set", "ADD", v, {t})
    BY <1>2 DEF ApplyAdd
  <2>2. \A o \in issued : {t} \cap o.tags = {}
    BY <2>1
  <2>. QED BY <2>1, <2>2, ApplyKeeps DEF CrdtId
<1>3. CASE ApplyRemove(n)
  <2>1. PICK a \in rep[n].adds : Apply(n, "set", "REMOVE", NoValue, {a.tag})
    BY <1>3 DEF ApplyRemove
  <2>2. {a.tag} \in SUBSET Tag
    BY DEF RuntimeInv, CrdtTypeOK, Replica
  <2>. QED BY <2>1, <2>2, ApplyKeeps DEF CrdtId
<1>. QED BY <1>1, <1>2, <1>3

\* Nothing has been written at the start, whether or not the nodes are connected.
LEMMA InitKeeps == Init \/ ConnectedInit => RuntimeInv
<1>1. NewReplica \in Replica /\ NewGossip \in GossipState
  BY DEF NewReplica, Replica, NewGossip, GossipState, Never, Timestamp
<1>2. Reflects(NewReplica) /\ NewReplica.applied = {}
  BY DEF NewReplica, Reflects, HoldsLatest, Added, Removed
<1>3. NewGossip.out <= Factor * NewGossip.in + 1
  BY DEF NewGossip
<1>4. CASE Init
  <2>1. CrdtTypeOK
    BY <1>4, <1>1, <1>3 DEF Init, CrdtTypeOK
  <2>2. IsFiniteSet(sent)
    BY <1>4, FS_EmptySet DEF Init
  <2>3. OpsInv /\ StampInv
    BY <1>4, <1>2 DEF Init, OpsInv, StampInv, FreshTags
  <2>. QED BY <1>4, <1>2, <2>1, <2>2, <2>3 DEF RuntimeInv, Init
<1>5. CASE ConnectedInit
  <2>1. CrdtTypeOK
    BY <1>5, <1>1, <1>3 DEF ConnectedInit, CrdtTypeOK
  <2>2. IsFiniteSet(sent)
    BY <1>5, FS_EmptySet DEF ConnectedInit
  <2>3. OpsInv /\ StampInv
    BY <1>5, <1>2 DEF ConnectedInit, OpsInv, StampInv, FreshTags
  <2>. QED BY <1>5, <1>2, <2>1, <2>2, <2>3 DEF RuntimeInv, ConnectedInit
<1>. QED BY <1>4, <1>5

\* Every step keeps the invariant.
LEMMA StepKeeps == RuntimeInv /\ [Next]_vars => RuntimeInv'
<1>. SUFFICES ASSUME RuntimeInv, [Next]_vars PROVE RuntimeInv'
  OBVIOUS
<1>1. CASE \E n \in Node : Join(n)
  BY <1>1, JoinKeeps
<1>2. CASE \E n \in Node : Ready(n) \/ Stop(n) \/ Republish(n) \/ Expire(n)
                             \/ \E m \in Node : Connect(n, m)
  BY <1>2, OthersKeep
<1>3. CASE \E n \in Node : ApplySet(n) \/ ApplyAdd(n) \/ ApplyRemove(n)
  BY <1>3, WritesKeep
<1>4. CASE \E c \in wire : Deliver(c)
  BY <1>4, DeliverKeeps
<1>5. CASE UNCHANGED vars
  <2>1. CrdtTypeOK' /\ OpsInv' /\ StampInv'
    BY <1>5 DEF vars, RuntimeInv, CrdtTypeOK, OpsInv, StampInv
  <2>. QED BY <1>5, <2>1 DEF vars, RuntimeInv
<1>. QED BY <1>1, <1>2, <1>3, <1>4, <1>5 DEF Next

\* The invariant holds of nodes that start at any time, and of connected ones.
LEMMA Invariant == Spec \/ ConnectedSpec => []RuntimeInv
<1>1. Init \/ ConnectedInit => RuntimeInv
  BY InitKeeps
<1>2. RuntimeInv /\ [Next]_vars => RuntimeInv'
  BY StepKeeps
<1>. QED BY <1>1, <1>2, PTL DEF Spec, ConnectedSpec

-------------------------------------------------------------------------------
(* Theorems *)

\* The variables keep their types, and no node sends more than the
\* anti-amplification limit allows (GossipControlPlane.shouldForward).
THEOREM CrdtTypeCorrect == Spec => []CrdtTypeOK
<1>1. RuntimeInv => CrdtTypeOK
  BY DEF RuntimeInv
<1>. QED BY <1>1, Invariant, PTL

\* Replicas with the same operations, of authors that were not restarted, agree.
LEMMA SameOps == RuntimeInv => SameOpsSameState
<1>. SUFFICES ASSUME RuntimeInv, NEW n \in Node, NEW m \in Node,
                     rep[n].applied = rep[m].applied,
                     \A a \in Authors(rep[n].applied) : starts[a] <= 1
              PROVE  /\ rep[n].reg = rep[m].reg
                     /\ rep[n].adds = rep[m].adds
                     /\ rep[n].removes = rep[m].removes
  BY DEF SameOpsSameState
<1>1. Reflects(rep[n]) /\ Reflects(rep[m])
  BY DEF RuntimeInv
<1>2. rep[n].adds = rep[m].adds /\ rep[n].removes = rep[m].removes
  BY <1>1 DEF Reflects
<1>3. rep[n].reg = rep[m].reg
  <2>1. CASE \A op \in rep[n].applied : op.crdt # "reg"
    BY <1>1, <2>1 DEF Reflects, HoldsLatest
  <2>2. CASE \E op \in rep[n].applied : op.crdt = "reg"
    <3>1. PICK a \in rep[n].applied :
            a.crdt = "reg" /\ rep[n].reg = [value |-> a.value, ts |-> a.ts]
      BY <1>1, <2>2 DEF Reflects, HoldsLatest
    <3>2. PICK b \in rep[m].applied :
            b.crdt = "reg" /\ rep[m].reg = [value |-> b.value, ts |-> b.ts]
      BY <1>1, <2>2 DEF Reflects, HoldsLatest
    <3>3. ~Before(a.ts, b.ts) /\ ~Before(b.ts, a.ts)
      BY <1>1, <3>1, <3>2 DEF Reflects, HoldsLatest
    <3>4. a \in issued /\ b \in issued /\ a.ts \in Timestamp /\ b.ts \in Timestamp
      BY DEF RuntimeInv, OpsInv, CrdtTypeOK, Operation
    <3>5. a.ts = b.ts
      BY <3>3, <3>4, BeforeOrders
    <3>6. starts[a.ts.node] <= 1
      BY DEF Authors
    <3>. QED BY <3>1, <3>2, <3>4, <3>5, <3>6 DEF RuntimeInv, StampInv
  <2>. QED BY <2>1, <2>2
<1>. QED BY <1>2, <1>3

\* Strong eventual consistency (CRDTEngine.applyOperation): the same operations in
\* any order, any number of times and over any paths give the same state.
THEOREM StronglyConsistent == Spec => []SameOpsSameState
<1>. QED BY SameOps, Invariant, PTL

\* An operation that was just created has a later timestamp than all its author knows.
LEMMA FreshWriteWins ==
  ASSUME RuntimeInv, NEW n \in Node, NEW crdt \in CrdtId,
         NEW type \in {"SET", "ADD", "REMOVE"}, NEW value \in Value \cup {NoValue},
         NEW tags \in SUBSET Tag, Apply(n, crdt, type, value, tags),
         NEW op \in issued' \ issued, op.crdt = "reg", "reg" \in registered[op.ts.node]
  PROVE  rep'[op.ts.node].reg = [value |-> op.value, ts |-> op.ts]
<1>. DEFINE r == Ticked(rep[n])
            s == [r EXCEPT !.clock = Observe(@, op.ts), !.applied = @ \cup {op}]
<1>1. /\ op = [crdt |-> crdt, type |-> type, value |-> value, tags |-> tags,
               ts |-> Stamp(rep[n], n)]
      /\ BridgeReceives(n, r, op)
  BY DEF Apply
<1>2. rep[n] \in Replica /\ rep[n].clock \in Nat /\ Reflects(rep[n])
  BY DEF RuntimeInv, CrdtTypeOK, Replica
<1>3. op.ts.node = n /\ op.ts.counter = rep[n].clock + 1 /\ op.ts \in Timestamp
  BY <1>1, <1>2 DEF Stamp, Timestamp
<1>4. r \in Replica /\ r.applied = rep[n].applied /\ r.reg = rep[n].reg
  BY <1>2 DEF Ticked, Replica
<1>5. op \notin bridge[n] /\ op \notin r.applied
  BY <1>4 DEF RuntimeInv, OpsInv
<1>6. rep'[n] = ApplyOperation(r, op, registered[n])
  BY <1>1, <1>5 DEF BridgeReceives, RuntimeInv, CrdtTypeOK
<1>7. s \in Replica /\ s.reg = r.reg
  <2>1. op \in Operation
    BY <1>1, <1>3 DEF Operation
  <2>2. Observe(r.clock, op.ts) \in Nat /\ r.applied \cup {op} \in SUBSET Operation
    BY <1>3, <1>4, <2>1 DEF Replica, Timestamp, Observe
  <2>. QED BY <1>4, <2>2 DEF Replica
<1>8. rep'[n].reg = WriteRegister(r.reg, op)
  <2>1. rep'[n] = [s EXCEPT !.reg = WriteRegister(@, op)]
    BY <1>3, <1>5, <1>6 DEF ApplyOperation
  <2>. QED BY <2>1, <1>7 DEF Replica
<1>9. r.reg.ts = Never \/ ~Before(op.ts, r.reg.ts)
  <2>1. CASE \E w \in rep[n].applied : rep[n].reg = [value |-> w.value, ts |-> w.ts]
    <3>1. PICK w \in rep[n].applied : rep[n].reg = [value |-> w.value, ts |-> w.ts]
      BY <2>1
    <3>2. w.ts.counter \in Nat /\ w.ts.counter <= rep[n].clock
      BY <1>2 DEF Reflects, Replica, Operation, Timestamp
    <3>. QED BY <3>1, <3>2, <1>2, <1>3, <1>4 DEF Before
  <2>2. CASE rep[n].reg = [value |-> NoValue, ts |-> Never]
    BY <2>2, <1>4
  <2>. QED BY <1>2, <2>1, <2>2 DEF Reflects, HoldsLatest
<1>. QED BY <1>3, <1>8, <1>9 DEF WriteRegister

\* What a node writes is what it reads (CRDTLogicalClock.observe): no operation of
\* another node can hide a write that is made after it was seen.
THEOREM WritesAreRead == Spec => OwnWriteWins
<1>. DEFINE Won == \A op \in issued' \ issued :
                     op.crdt = "reg" /\ "reg" \in registered[op.ts.node] =>
                       rep'[op.ts.node].reg = [value |-> op.value, ts |-> op.ts]
<1>1. ASSUME RuntimeInv, Next PROVE Won
  <2>1. CASE \E n \in Node : ApplySet(n)
    BY <1>1, <2>1, FreshWriteWins DEF ApplySet, CrdtId
  <2>2. CASE \E n \in Node : ApplyAdd(n) \/ ApplyRemove(n)
    <3>1. PICK n \in Node : ApplyAdd(n) \/ ApplyRemove(n)
      BY <2>2
    <3>2. PICK type, value, tags : Apply(n, "set", type, value, tags)
      BY <3>1 DEF ApplyAdd, ApplyRemove
    <3>3. PICK new : new.crdt = "set" /\ issued' = issued \cup {new}
      BY <3>2 DEF Apply
    <3>. QED BY <3>3
  <2>3. CASE issued' = issued
    BY <2>3
  <2>4. ASSUME NEW n \in Node,
               Join(n) \/ Ready(n) \/ Stop(n) \/ Republish(n) \/ Expire(n)
                 \/ \E m \in Node : Connect(n, m)
        PROVE  issued' = issued
    BY <2>4 DEF Join, Ready, Stop, Republish, Expire, Connect
  <2>5. ASSUME NEW c \in wire, Deliver(c) PROVE issued' = issued
    BY <2>5 DEF Deliver
  <2>. QED BY <1>1, <2>1, <2>2, <2>3, <2>4, <2>5 DEF Next
<1>2. RuntimeInv /\ [Next]_vars => [Won]_vars
  BY <1>1
<1>. QED BY <1>2, Invariant, PTL DEF Spec, OwnWriteWins

\* Every change of a set names tags, and a removal only tags of earlier additions.
TagInv ==
  \A q \in issued :
    /\ q.crdt = "set" => q.tags # {}
    /\ q.type = "REMOVE" =>
         \A t \in q.tags :
           \E o \in issued : o.type = "ADD" /\ t \in o.tags /\ Before(o.ts, q.ts)

\* A new operation that is no removal, or removes what its author has in its set.
LEMMA ApplyTags ==
  ASSUME RuntimeInv, TagInv, NEW n \in Node, NEW crdt, NEW type, NEW value, NEW tags,
         Apply(n, crdt, type, value, tags), crdt = "set" => tags # {},
         type = "REMOVE" => \A t \in tags : \E a \in rep[n].adds : t = a.tag
  PROVE  TagInv'
<1>. DEFINE q == [crdt |-> crdt, type |-> type, value |-> value, tags |-> tags,
                  ts |-> Stamp(rep[n], n)]
<1>1. issued' = issued \cup {q}
  BY DEF Apply
<1>2. ASSUME type = "REMOVE", NEW t \in tags
      PROVE  \E o \in issued : o.type = "ADD" /\ t \in o.tags /\ Before(o.ts, q.ts)
  <2>1. PICK a \in rep[n].adds : t = a.tag
    BY <1>2
  <2>2. PICK o \in rep[n].applied : o.type = "ADD" /\ t \in o.tags
    BY <2>1 DEF RuntimeInv, Reflects, Added
  <2>3. o \in issued /\ o.ts.counter \in Nat /\ rep[n].clock \in Nat
        /\ o.ts.counter <= rep[n].clock
    BY DEF RuntimeInv, OpsInv, CrdtTypeOK, Replica, Reflects, Operation, Timestamp
  <2>. QED BY <2>2, <2>3 DEF Before, Stamp
<1>3. q.crdt = "set" => q.tags # {}
  OBVIOUS
<1>4. q.type = type /\ q.tags = tags
  OBVIOUS
<1>. HIDE DEF q
<1>. QED BY <1>1, <1>2, <1>3, <1>4 DEF TagInv

LEMMA StepTags == RuntimeInv /\ TagInv /\ [Next]_vars => TagInv'
<1>. SUFFICES ASSUME RuntimeInv, TagInv, [Next]_vars PROVE TagInv'
  OBVIOUS
<1>1. ASSUME NEW n \in Node, ApplySet(n) PROVE TagInv'
  BY <1>1, ApplyTags DEF ApplySet
<1>2. ASSUME NEW n \in Node, ApplyAdd(n) PROVE TagInv'
  <2>1. PICK v \in Value, t \in Tag : Apply(n, "set", "ADD", v, {t})
    BY <1>2 DEF ApplyAdd
  <2>. QED BY <2>1, ApplyTags
<1>3. ASSUME NEW n \in Node, ApplyRemove(n) PROVE TagInv'
  <2>1. PICK a \in rep[n].adds : Apply(n, "set", "REMOVE", NoValue, {a.tag})
    BY <1>3 DEF ApplyRemove
  <2>. QED BY <2>1, ApplyTags
<1>4. ASSUME NEW n \in Node,
             Join(n) \/ Ready(n) \/ Stop(n) \/ Republish(n) \/ Expire(n)
               \/ \E m \in Node : Connect(n, m)
      PROVE  issued' = issued
  BY <1>4 DEF Join, Ready, Stop, Republish, Expire, Connect
<1>5. ASSUME NEW c \in wire, Deliver(c) PROVE issued' = issued
  BY <1>5 DEF Deliver
<1>6. UNCHANGED vars => issued' = issued
  BY DEF vars
<1>7. issued' = issued => TagInv'
  BY DEF TagInv
<1>. QED BY <1>1, <1>2, <1>3, <1>4, <1>5, <1>6, <1>7 DEF Next

LEMMA MembersStay == RuntimeInv /\ TagInv => AddWins
<1>. SUFFICES ASSUME RuntimeInv, TagInv, NEW n \in Node, NEW op \in rep[n].applied,
                     op.type = "ADD", op.value \notin Members(rep[n])
              PROVE  \E q \in rep[n].applied :
                       q.type = "REMOVE" /\ op.tags \cap q.tags # {} /\ Before(op.ts, q.ts)
  BY DEF AddWins
<1>1. op \in issued /\ op \in Operation /\ op.crdt = "set" /\ Reflects(rep[n])
  BY DEF RuntimeInv, OpsInv, WellFormed, CrdtTypeOK, Operation, CrdtId
<1>2. PICK t \in op.tags : t \in Tag
  BY <1>1 DEF TagInv, Operation
<1>3. t \in rep[n].removes
  <2>. DEFINE a == [tag |-> t, value |-> op.value]
  <2>1. a \in Added(rep[n].applied) /\ a.tag = t /\ a.value = op.value
    BY <1>1, <1>2 DEF Added, Operation
  <2>. HIDE DEF a
  <2>. QED BY <1>1, <2>1 DEF Reflects, Members
<1>4. PICK q \in rep[n].applied : q.type = "REMOVE" /\ t \in q.tags
  BY <1>1, <1>3 DEF Reflects, Removed
<1>5. q \in issued
  BY DEF RuntimeInv, OpsInv
<1>6. PICK o \in issued : o.type = "ADD" /\ t \in o.tags /\ Before(o.ts, q.ts)
  BY <1>4, <1>5 DEF TagInv
<1>7. o = op
  BY <1>1, <1>2, <1>6 DEF RuntimeInv, OpsInv, FreshTags
<1>. QED BY <1>2, <1>4, <1>6, <1>7

\* A member is lost only to a removal that saw it (ORSetCRDT.apply): the removal of a
\* tag is later than the addition that made it, in the order of the clocks.
THEOREM AdditionsSurvive == Spec => []AddWins
<1>1. Init => TagInv
  BY DEF Init, TagInv
<1>2. Spec => []TagInv
  BY <1>1, StepTags, Invariant, PTL DEF Spec
<1>. QED BY <1>2, MembersStay, Invariant, PTL

\* Nodes that start while others start still find each other
\* (initializeRuntimeConvergence): the one that enters the registry later adds the
\* other one, and nobody is ever dropped.
THEOREM StartedNodesMeet == Spec => []RunningNodesMeet
<1>1. Init => RunningNodesMeet
  BY DEF Init, RunningNodesMeet
<1>2. RunningNodesMeet /\ RuntimeInv /\ [Next]_vars => RunningNodesMeet'
  <2>. SUFFICES ASSUME RunningNodesMeet, RuntimeInv, [Next]_vars PROVE RunningNodesMeet'
    OBVIOUS
  <2>. USE DEF RuntimeInv, CrdtTypeOK
  <2>1. ASSUME NEW n \in Node, Join(n) PROVE RunningNodesMeet'
    <3>1. /\ life' = [life EXCEPT ![n] = "joining"]
          /\ \A m \in Node : peers[m] \subseteq peers'[m]
          /\ {m \in Node \ {n} : life[m] # "down"} \subseteq peers'[n]
      BY <2>1 DEF Join
    <3>. QED BY <3>1 DEF RunningNodesMeet
  <2>2. ASSUME NEW n \in Node, Ready(n) \/ Stop(n) PROVE RunningNodesMeet'
    <3>1. \A m \in Node : life'[m] # "down" => life[m] # "down"
      BY <2>2 DEF Ready, Stop
    <3>2. peers' = peers
      BY <2>2 DEF Ready, Stop
    <3>. QED BY <3>1, <3>2 DEF RunningNodesMeet
  <2>3. ASSUME NEW n \in Node, NEW m \in Node, Connect(n, m) PROVE RunningNodesMeet'
    <3>1. life' = life /\ \A k \in Node : peers[k] \subseteq peers'[k]
      BY <2>3 DEF Connect
    <3>. QED BY <3>1 DEF RunningNodesMeet
  <2>4. CASE UNCHANGED <<life, peers>>
    BY <2>4 DEF RunningNodesMeet
  <2>5. ASSUME NEW n \in Node, ApplySet(n) \/ ApplyAdd(n) \/ ApplyRemove(n)
        PROVE  UNCHANGED <<life, peers>>
    BY <2>5 DEF ApplySet, ApplyAdd, ApplyRemove, Apply
  <2>6. ASSUME NEW n \in Node, Republish(n) \/ Expire(n) PROVE UNCHANGED <<life, peers>>
    BY <2>6 DEF Republish, Expire
  <2>7. ASSUME NEW c \in wire, Deliver(c) PROVE UNCHANGED <<life, peers>>
    BY <2>7 DEF Deliver
  <2>. QED BY <2>1, <2>2, <2>3, <2>4, <2>5, <2>6, <2>7 DEF Next, vars
<1>. QED BY <1>1, <1>2, Invariant, PTL DEF Spec
===============================================================================
