------------------------------ MODULE CrdtEngine ------------------------------
(***************************************************************************)
(* CRDTEngine with its logical clock, LWWRegisterCRDT and ORSetCRDT, as    *)
(* functions of a replica:                                                 *)
(*   clock    the counter of CRDTLogicalClock                              *)
(*   applied  appliedOpIds and the operation log (an operation stands for  *)
(*            its id, which is a hash of all its fields)                   *)
(*   reg      the state of the register                                    *)
(*   adds, removes   the tagged values and the removed tags of the set; the *)
(*            order in which a Map lists its keys is left out              *)
(* Node ids are compared as strings; numbers stand for them, in order.     *)
(***************************************************************************)
EXTENDS Integers

CONSTANTS
  Node,
  Value,
  Tag,        \* what callers mark the additions to a set with
  NoValue     \* null

ASSUME EngineAssumption ==
  /\ Node \subseteq Nat
  /\ NoValue \notin Value

CrdtId == {"reg", "set"}

Timestamp == [counter : Nat, node : Nat]
Operation == [crdt : CrdtId, type : {"SET", "ADD", "REMOVE"}, value : Value \cup {NoValue},
              tags : SUBSET Tag, ts : Timestamp]

\* No operation has counter 0: this is the null timestamp.
Never == [counter |-> 0, node |-> 0]

Replica == [clock : Nat, applied : SUBSET Operation,
            reg : [value : Value \cup {NoValue}, ts : Timestamp],
            adds : SUBSET [tag : Tag, value : Value \cup {NoValue}],
            removes : SUBSET Tag]

NewReplica == [clock |-> 0, applied |-> {}, reg |-> [value |-> NoValue, ts |-> Never],
               adds |-> {}, removes |-> {}]

\* Fault: concurrent writes with one counter are not told apart.
BeforeByCounter(a, b) == a.counter < b.counter

\* compareLogicalTimestamp(a, b) < 0
Before(a, b) ==
  \/ a.counter < b.counter
  \/ a.counter = b.counter /\ a.node < b.node

\* LWWRegisterCRDT.apply
WriteRegister(reg, op) ==
  IF reg.ts # Never /\ Before(op.ts, reg.ts) THEN reg
  ELSE [value |-> op.value, ts |-> op.ts]

\* adds.set(tag, value)
AddTagged(adds, op) ==
  {a \in adds : a.tag \notin op.tags} \cup {[tag |-> t, value |-> op.value] : t \in op.tags}

\* ORSetCRDT.apply
ChangeSet(r, op) ==
  CASE op.type = "ADD"    -> [r EXCEPT !.adds = AddTagged(@, op)]
    [] op.type = "REMOVE" -> [r EXCEPT !.removes = @ \cup op.tags]
    [] OTHER              -> r

\* ORSetCRDT.values
Members(r) == {a.value : a \in {b \in r.adds : b.tag \notin r.removes}}

\* Fault: the clock does not follow the operations of others.
ObserveNothing(clock, ts) == clock

\* CRDTLogicalClock.observe
Observe(clock, ts) == IF ts.counter > clock THEN ts.counter ELSE clock

\* createOperation: now() ticks the clock, whatever becomes of the operation.
Stamp(r, n) == [counter |-> r.clock + 1, node |-> n]
Ticked(r) == [r EXCEPT !.clock = @ + 1]

\* applyOperation; registry holds the ids that were registered.
ApplyOperation(r, op, registry) ==
  IF op \in r.applied \/ op.crdt \notin registry THEN r
  ELSE LET s == [r EXCEPT !.clock = Observe(@, op.ts), !.applied = @ \cup {op}]
       IN  IF op.crdt = "reg" THEN [s EXCEPT !.reg = WriteRegister(@, op)]
           ELSE ChangeSet(s, op)

\* computeMissingDelta
MissingOps(r, known) == r.applied \ known
===============================================================================
