---------------------------- MODULE AuditSyncProofs ----------------------------
(***************************************************************************)
(* Proofs about AuditSync, for any nodes, events and bounds.  The invariant *)
(* relates memory and disk of a node (DiskOrder): the lines begin with the   *)
(* log in memory, or the meta file counts fewer records than there are       *)
(* lines, or a line does not parse; in the last two cases the node does not  *)
(* open.  A second one says that the author of a record still has it         *)
(* (HeldInv).                                                                *)
(***************************************************************************)
EXTENDS AuditSync, SequenceTheorems, WellFoundedInduction, TLAPS

NodeState == [log : Seq(Record), lines : Seq(Record),
              tail : {"ended", "open", "corrupt"}, meta : Meta,
              seen : SUBSET Event, applied : [Event -> Nat]]

\* Every record of a sequence is one that its signer chained, as w has it.
Sourced(q, w) == \A i \in DOMAIN q : q[i] \in w[q[i].item.signer]

\* The file parses, and has what the memory has or more.
DiskAhead(s) ==
  /\ Len(s.log) <= Len(s.lines)
  /\ \/ \A i \in DOMAIN s.log : s.log[i] = s.lines[i]
     \/ /\ s.meta # NoMeta /\ s.meta.total = Len(s.log)
        /\ Len(s.log) < Len(s.lines)

DiskOrder(s) == s.tail = "corrupt" \/ DiskAhead(s)

DiskEqual(s) ==
  /\ s.lines = s.log /\ s.tail = "ended"
  /\ s.meta = IF s.log = <<>> THEN NoMeta ELSE [total |-> Len(s.log), last |-> Tip(s.log)]

\* An event that counts as seen was given to the registry, once, and is in the log.
Marks(s) ==
  \A e \in Event :
    /\ s.applied[e] = IF e \in s.seen THEN 1 ELSE 0
    /\ e \in s.seen => \E i \in DOMAIN s.log : s.log[i].item.event = e

\* t is s with some records written, each of them one that P holds for.
Continues(s, t) ==
  /\ Len(s.log) <= Len(t.log)
  /\ \A i \in DOMAIN s.log : t.log[i] = s.log[i]

-------------------------------------------------------------------------------
(* One write *)

LEMMA TypedItems ==
  /\ \A r \in Record : Hash(r) \in Seq(Item)
  /\ \A q \in Seq(Record) : Tip(q) \in Seq(Item)
  /\ NoMeta \in Meta
<1>1. \A r \in Record : Hash(r) \in Seq(Item)
  BY DEF Hash, Record
<1>2. \A q \in Seq(Record) : Tip(q) \in Seq(Item)
  BY <1>1 DEF Tip
<1>. QED BY <1>1, <1>2 DEF NoMeta, Meta

\* What a write leaves as it is, and what it adds.
LEMMA WriteTyped ==
  ASSUME NEW n \in Node, NEW s \in NodeState, NEW r \in Record, NEW f \in Faults(n)
  PROVE  /\ Written(n, s, r, f) \in NodeState
         /\ Written(n, s, r, f).seen = s.seen
         /\ Written(n, s, r, f).applied = s.applied
         /\ Written(n, s, r, f).log \in {s.log, Append(s.log, r)}
         /\ Written(n, s, r, f).lines \in {s.lines, Append(s.lines, r)}
         /\ f = "none" => Written(n, s, r, f).log = Append(s.log, r)
         /\ n \notin Durable => Written(n, s, r, f).lines = s.lines
<1>1. MetaOf(s, r) \in Meta
  BY TypedItems DEF MetaOf, Meta, NodeState
<1>2. Append(s.log, r) \in Seq(Record) /\ Append(s.lines, r) \in Seq(Record)
  BY DEF NodeState
<1>. DEFINE l == LineAppended(s, r, f)
<1>3. /\ l \in NodeState /\ l.log = s.log /\ l.seen = s.seen /\ l.applied = s.applied
      /\ l.lines \in {s.lines, Append(s.lines, r)}
  BY <1>2 DEF LineAppended, NodeState
<1>. HIDE DEF l
<1>4. CASE f = "none"
  BY <1>1, <1>2, <1>3, <1>4 DEF Written, NodeState, l
<1>5. CASE f # "none"
  BY <1>3, <1>5 DEF Written, Faults, l
<1>. QED BY <1>4, <1>5

LEMMA AppendFacts ==
  ASSUME NEW q \in Seq(Record), NEW r \in Record
  PROVE  /\ Len(Append(q, r)) = Len(q) + 1
         /\ DOMAIN Append(q, r) = 1..(Len(q) + 1)
         /\ DOMAIN q = 1..Len(q)
         /\ \A i \in 1..Len(q) : Append(q, r)[i] = q[i]
         /\ Append(q, r)[Len(q) + 1] = r
         /\ Tip(Append(q, r)) = Hash(r)
         /\ Append(q, r) # <<>>
<1>1. /\ Len(Append(q, r)) = Len(q) + 1
      /\ \A i \in 1..Len(q) : Append(q, r)[i] = q[i]
      /\ Append(q, r)[Len(q) + 1] = r
      /\ Append(q, r) \in Seq(Record)
  OBVIOUS
<1>2. DOMAIN Append(q, r) = 1..(Len(q) + 1) /\ DOMAIN q = 1..Len(q)
  BY <1>1
<1>3. Append(q, r) # <<>>
  BY <1>1
<1>. QED BY <1>1, <1>2, <1>3 DEF Tip

\* A record that continues the chain keeps it one.
LEMMA ChainGrows ==
  ASSUME NEW q \in Seq(Record), NEW r \in Record, Chained(q), r.prev = Tip(q)
  PROVE  Chained(Append(q, r))
<1>. DEFINE p == Append(q, r)
<1>. SUFFICES ASSUME NEW i \in 1..(Len(q) + 1)
             PROVE p[i].prev = IF i = 1 THEN <<>> ELSE Hash(p[i - 1])
  BY AppendFacts DEF Chained
<1>. HIDE DEF p
<1>0. Len(q) \in Nat
  OBVIOUS
<1>1. CASE i \in 1..Len(q)
  <2>1. q[i].prev = IF i = 1 THEN <<>> ELSE Hash(q[i - 1])
    BY <1>1, AppendFacts DEF Chained
  <2>2. p[i] = q[i] /\ (i # 1 => p[i - 1] = q[i - 1])
    BY <1>0, <1>1, AppendFacts DEF p
  <2>. QED BY <2>1, <2>2
<1>2. CASE i = Len(q) + 1
  <2>1. p[i] = r
    BY <1>2, AppendFacts DEF p
  <2>2. CASE q = <<>>
    BY <1>2, <2>1, <2>2 DEF Tip
  <2>3. CASE q # <<>>
    <3>1. Len(q) > 0
      BY <2>3
    <3>2. p[i - 1] = q[Len(q)] /\ i # 1
      BY <1>0, <1>2, <3>1, AppendFacts DEF p
    <3>. QED BY <2>1, <2>3, <3>2 DEF Tip
  <2>. QED BY <2>2, <2>3
<1>. QED BY <1>0, <1>1, <1>2

\* A write that ends well keeps disk and memory in step; a cut one leaves a line more,
\* or a file that does not parse.
LEMMA WriteOnDisk ==
  ASSUME NEW n \in Durable, n \in Node, NEW s \in NodeState, NEW r \in Record,
         NEW f \in Faults(n)
  PROVE  /\ DiskOrder(s) => DiskOrder(Written(n, s, r, f))
         /\ DiskEqual(s) /\ f \notin Torn => DiskEqual(Written(n, s, r, f))
<1>. DEFINE t == Written(n, s, r, f)
            l == LineAppended(s, r, f)
<1>0. /\ s.log \in Seq(Record) /\ s.lines \in Seq(Record) /\ s.meta \in Meta
      /\ Len(s.log) \in Nat /\ Len(s.lines) \in Nat
      /\ DOMAIN s.log = 1..Len(s.log)
  BY DEF NodeState
<1>1. CASE f = "line"
  <2>1. t = s
    BY <1>1 DEF Written, LineAppended
  <2>. QED BY <2>1
<1>2. CASE f = "part"
  <2>1. t.tail = "corrupt"
    BY <1>2 DEF Written, LineAppended, NodeState
  <2>. QED BY <1>2, <2>1 DEF DiskOrder, Torn
<1>3. CASE f \in {"none", "meta", "unended"} /\ s.tail # "ended"
  <2>1. l.tail = "corrupt"
    BY <1>3 DEF LineAppended, NodeState
  <2>2. t.tail = l.tail
    BY DEF Written, LineAppended, NodeState
  <2>. QED BY <1>3, <2>1, <2>2 DEF DiskOrder, DiskEqual
<1>4. CASE f = "none" /\ s.tail = "ended"
  <2>0. l.lines = Append(s.lines, r) /\ l.tail = "ended" /\ l.log = s.log
    BY <1>4 DEF LineAppended, NodeState
  <2>1. /\ t.log = Append(s.log, r) /\ t.lines = Append(s.lines, r)
        /\ t.meta = MetaOf(s, r) /\ t.tail = "ended"
    <3>1. t = [l EXCEPT !.meta = MetaOf(s, r), !.log = Append(s.log, r)]
      BY <1>4, <2>0 DEF Written
    <3>2. l \in NodeState
      <4>1. Append(s.lines, r) \in Seq(Record)
        BY <1>0
      <4>. QED BY <1>4, <4>1 DEF LineAppended, NodeState
    <3>. HIDE DEF l
    <3>. QED BY <2>0, <3>1, <3>2 DEF NodeState
  <2>. HIDE DEF t, l
  <2>2. t.meta.total = Len(s.log) + 1 /\ t.meta.last = Hash(r) /\ t.meta # NoMeta
    BY <1>0, <2>1 DEF MetaOf, NoMeta
  <2>3. ASSUME DiskOrder(s) PROVE DiskOrder(t)
    <3>0. DiskAhead(s)
      BY <1>4, <2>3 DEF DiskOrder
    <3>1. Len(t.log) = Len(s.log) + 1 /\ Len(t.lines) = Len(s.lines) + 1
      BY <1>0, <2>1, AppendFacts
    <3>2. CASE Len(s.log) < Len(s.lines)
      BY <1>0, <2>2, <3>1, <3>2 DEF DiskOrder, DiskAhead
    <3>3. CASE ~(Len(s.log) < Len(s.lines))
      <4>1. Len(s.log) = Len(s.lines) /\ \A i \in DOMAIN s.log : s.log[i] = s.lines[i]
        BY <1>0, <3>0, <3>3 DEF DiskAhead
      <4>2. ASSUME NEW i \in DOMAIN t.log PROVE t.log[i] = t.lines[i]
        <5>1. i \in 1..(Len(s.log) + 1)
          BY <1>0, <2>1, <4>2, AppendFacts
        <5>2. CASE i \in 1..Len(s.log)
          BY <1>0, <2>1, <4>1, <5>2, AppendFacts
        <5>3. CASE i = Len(s.log) + 1
          BY <1>0, <2>1, <4>1, <5>3, AppendFacts
        <5>. QED BY <1>0, <5>1, <5>2, <5>3
      <4>. QED BY <1>0, <3>1, <4>1, <4>2 DEF DiskOrder, DiskAhead
    <3>. QED BY <3>2, <3>3
  <2>4. ASSUME DiskEqual(s) PROVE DiskEqual(t)
    <3>1. t.lines = t.log /\ t.log # <<>> /\ Len(t.log) = Len(s.log) + 1 /\ Tip(t.log) = Hash(r)
      BY <1>0, <2>1, <2>4, AppendFacts DEF DiskEqual
    <3>. QED BY <2>1, <3>1 DEF DiskEqual, MetaOf
  <2>. QED BY <2>3, <2>4 DEF t
<1>5. CASE f \in {"meta", "unended"} /\ s.tail = "ended"
  <2>1. t.log = s.log /\ t.lines = Append(s.lines, r) /\ t.meta = s.meta
    <3>1. t = l
      BY <1>5 DEF Written
    <3>2. l.lines = Append(s.lines, r) /\ l.log = s.log /\ l.meta = s.meta
      BY <1>5 DEF LineAppended, NodeState
    <3>. QED BY <3>1, <3>2
  <2>. HIDE DEF t, l
  <2>2. ASSUME DiskOrder(s) PROVE DiskOrder(t)
    <3>0. DiskAhead(s)
      BY <1>5, <2>2 DEF DiskOrder
    <3>1. Len(t.lines) = Len(s.lines) + 1
      BY <1>0, <2>1, AppendFacts
    <3>2. CASE \A i \in DOMAIN s.log : s.log[i] = s.lines[i]
      <4>1. \A i \in DOMAIN s.log : i \in 1..Len(s.lines)
        BY <1>0, <3>0 DEF DiskAhead
      <4>2. \A i \in DOMAIN t.log : t.log[i] = t.lines[i]
        BY <1>0, <2>1, <3>2, <4>1, AppendFacts
      <4>. QED BY <1>0, <2>1, <3>0, <3>1, <4>2 DEF DiskOrder, DiskAhead
    <3>3. CASE s.meta # NoMeta /\ s.meta.total = Len(s.log) /\ Len(s.log) < Len(s.lines)
      BY <1>0, <2>1, <3>1, <3>3 DEF DiskOrder, DiskAhead
    <3>. QED BY <3>0, <3>2, <3>3 DEF DiskAhead
  <2>. QED BY <1>5, <2>2 DEF t, Torn
<1>. QED BY <1>1, <1>2, <1>3, <1>4, <1>5 DEF Faults

\* What one write does to a chain and to its sources.
LEMMA WriteChained ==
  ASSUME NEW n \in Node, NEW s \in NodeState, NEW r \in Record, NEW f \in Faults(n),
         Chained(s.log), r.prev = Tip(s.log)
  PROVE  /\ Chained(Written(n, s, r, f).log)
         /\ Continues(s, Written(n, s, r, f))
         /\ \A i \in DOMAIN Written(n, s, r, f).log :
              Written(n, s, r, f).log[i] = r \/ i \in DOMAIN s.log
         /\ \A i \in DOMAIN Written(n, s, r, f).lines :
              \/ Written(n, s, r, f).lines[i] = r
              \/ /\ i \in DOMAIN s.lines
                 /\ Written(n, s, r, f).lines[i] = s.lines[i]
<1>. DEFINE t == Written(n, s, r, f)
<1>0. s.log \in Seq(Record) /\ s.lines \in Seq(Record) /\ Len(s.log) \in Nat /\ Len(s.lines) \in Nat
  BY DEF NodeState
<1>1. t.log \in {s.log, Append(s.log, r)} /\ t.lines \in {s.lines, Append(s.lines, r)}
  BY WriteTyped
<1>. HIDE DEF t
<1>2. Chained(t.log)
  BY <1>0, <1>1, ChainGrows
<1>3. Continues(s, t)
  <2>1. CASE t.log = s.log
    BY <1>0, <2>1 DEF Continues
  <2>2. CASE t.log = Append(s.log, r)
    BY <1>0, <2>2, AppendFacts DEF Continues
  <2>. QED BY <1>1, <2>1, <2>2
<1>4. \A i \in DOMAIN t.log : t.log[i] = r \/ i \in DOMAIN s.log
  BY <1>0, <1>1, AppendFacts
<1>5. \A i \in DOMAIN t.lines : t.lines[i] = r \/ (i \in DOMAIN s.lines /\ t.lines[i] = s.lines[i])
  <2>1. CASE t.lines = s.lines
    BY <2>1
  <2>2. CASE t.lines = Append(s.lines, r)
    BY <1>0, <2>2, AppendFacts
  <2>. QED BY <1>1, <2>1, <2>2
<1>. QED BY <1>2, <1>3, <1>4, <1>5 DEF t

-------------------------------------------------------------------------------
(* The writes of one call *)

\* What the calls that write at n make of its state s: t.
Writes(n, s, t) ==
  /\ t \in NodeState
  /\ Chained(t.log)
  /\ Continues(s, t)
  /\ n \in Durable /\ DiskOrder(s) => DiskOrder(t)
  /\ n \notin Durable => t.lines = s.lines
  /\ \A i \in DOMAIN t.log : i \in DOMAIN s.log \/ t.log[i].item.signer = n
  /\ \A i \in DOMAIN t.lines :
       (i \in DOMAIN s.lines /\ t.lines[i] = s.lines[i]) \/ t.lines[i].item.signer = n

LEMMA OneAudit ==
  ASSUME NEW n \in Node, NEW s \in NodeState, NEW e \in Event, NEW v \in BOOLEAN,
         NEW f \in Faults(n), Chained(s.log)
  PROVE  /\ Writes(n, s, Written(n, s, AuditRecord(n, s, e, v), f))
         /\ f = "none" => \E i \in DOMAIN Written(n, s, AuditRecord(n, s, e, v), f).log :
              Written(n, s, AuditRecord(n, s, e, v), f).log[i].item.event = e
<1>. DEFINE r == AuditRecord(n, s, e, v)
            t == Written(n, s, r, f)
<1>1. r \in Record /\ r.prev = Tip(s.log) /\ r.item.signer = n /\ r.item.event = e
  BY TypedItems DEF AuditRecord, Record, Item, NodeState
<1>. HIDE DEF r
<1>2. /\ t \in NodeState /\ (f = "none" => t.log = Append(s.log, r))
      /\ n \notin Durable => t.lines = s.lines
  BY <1>1, WriteTyped
<1>3. /\ Chained(t.log) /\ Continues(s, t)
      /\ \A i \in DOMAIN t.log : t.log[i] = r \/ i \in DOMAIN s.log
      /\ \A i \in DOMAIN t.lines :
           t.lines[i] = r \/ (i \in DOMAIN s.lines /\ t.lines[i] = s.lines[i])
  BY <1>1, WriteChained
<1>4. n \in Durable /\ DiskOrder(s) => DiskOrder(t)
  BY <1>1, WriteOnDisk
<1>. HIDE DEF t
<1>5. Writes(n, s, t)
  BY <1>1, <1>2, <1>3, <1>4 DEF Writes
<1>6. ASSUME f = "none" PROVE \E i \in DOMAIN t.log : t.log[i].item.event = e
  <2>1. s.log \in Seq(Record) /\ Len(s.log) \in Nat
    BY DEF NodeState
  <2>2. Len(s.log) + 1 \in DOMAIN t.log /\ t.log[Len(s.log) + 1] = r
    BY <1>1, <1>2, <1>6, <2>1, AppendFacts
  <2>. QED BY <1>1, <2>2
<1>. QED BY <1>5, <1>6 DEF r, t

LEMMA ContinuesTransitive ==
  ASSUME NEW r \in NodeState, NEW s \in NodeState, NEW t \in NodeState,
         Continues(r, s), Continues(s, t)
  PROVE  Continues(r, t)
<1>1. /\ Len(r.log) \in Nat /\ Len(s.log) \in Nat /\ Len(t.log) \in Nat
      /\ DOMAIN r.log = 1..Len(r.log) /\ DOMAIN s.log = 1..Len(s.log)
  BY DEF NodeState
<1>. QED BY <1>1 DEF Continues

LEMMA ContinuedMarks ==
  ASSUME NEW s \in NodeState, NEW t \in NodeState, Continues(s, t), Marks(s),
         t.seen = s.seen, t.applied = s.applied
  PROVE  Marks(t)
<1>1. DOMAIN s.log = 1..Len(s.log) /\ DOMAIN t.log = 1..Len(t.log)
      /\ Len(s.log) \in Nat /\ Len(t.log) \in Nat
  BY DEF NodeState
<1>2. \A i \in DOMAIN s.log : i \in DOMAIN t.log /\ t.log[i] = s.log[i]
  BY <1>1 DEF Continues
<1>. QED BY <1>2 DEF Marks

\* receive keeps the chain, the disk in order and the marks, whatever fails.
LEMMA AuditedFacts ==
  ASSUME NEW n \in Node, NEW s \in NodeState, NEW e \in Event, NEW ok \in BOOLEAN,
         NEW f \in Faults(n), NEW g \in Faults(n), Chained(s.log), e \notin s.seen
  PROVE  /\ Writes(n, s, Audited(n, s, e, ok, f, g))
         /\ Marks(s) => Marks(Audited(n, s, e, ok, f, g))
         /\ n \in Durable /\ DiskEqual(s) /\ f \notin Torn /\ g \notin Torn =>
              DiskEqual(Audited(n, s, e, ok, f, g))
<1>. DEFINE s1 == Written(n, s, AuditRecord(n, s, e, FALSE), f)
            s2 == IF ok THEN Applied(s1, e) ELSE s1
            s3 == Written(n, s2, AuditRecord(n, s2, e, ok), g)
<1>1. /\ Writes(n, s, s1)
      /\ f = "none" => \E i \in DOMAIN s1.log : s1.log[i].item.event = e
  <2>1. \A v \in BOOLEAN :
          LET t == Written(n, s, AuditRecord(n, s, e, v), f)
          IN  /\ Writes(n, s, t)
              /\ f = "none" => \E i \in DOMAIN t.log : t.log[i].item.event = e
    BY OneAudit
  <2>. QED BY <2>1
<1>2. AuditRecord(n, s, e, FALSE) \in Record
  BY TypedItems DEF AuditRecord, Record, Item, NodeState
<1>3. /\ s1.seen = s.seen /\ s1.applied = s.applied
      /\ n \in Durable /\ DiskEqual(s) /\ f \notin Torn => DiskEqual(s1)
  <2>1. s1.seen = s.seen /\ s1.applied = s.applied
    BY <1>2, WriteTyped
  <2>2. n \in Durable /\ DiskEqual(s) /\ f \notin Torn => DiskEqual(s1)
    BY <1>2, WriteOnDisk
  <2>. QED BY <2>1, <2>2
<1>4. Marks(s) => Marks(s1)
  BY <1>1, <1>3, ContinuedMarks DEF Writes
<1>. HIDE DEF s1
<1>5. CASE f # "none"
  <2>1. Audited(n, s, e, ok, f, g) = s1
    BY <1>5 DEF Audited, s1
  <2>. QED BY <1>1, <1>3, <1>4, <2>1
<1>6. CASE f = "none"
  <2>1. /\ s2 \in NodeState /\ s2.log = s1.log /\ s2.lines = s1.lines /\ s2.meta = s1.meta
        /\ s2.tail = s1.tail
    <3>1. s1 \in NodeState
      BY <1>1 DEF Writes
    <3>2. CASE ok
      <4>1. s2 = Applied(s1, e)
        BY <3>2
      <4>2. [s1.applied EXCEPT ![e] = @ + 1] \in [Event -> Nat] /\ s1.seen \cup {e} \subseteq Event
        BY <3>1 DEF NodeState
      <4>3. Applied(s1, e) = [s1 EXCEPT !.seen = s1.seen \cup {e},
                                        !.applied = [s1.applied EXCEPT ![e] = @ + 1]]
        BY DEF Applied
      <4>. QED BY <3>1, <4>1, <4>2, <4>3 DEF NodeState
    <3>3. CASE ~ok
      BY <3>1, <3>3
    <3>. QED BY <3>2, <3>3
  <2>2. Marks(s) => Marks(s2)
    <3>1. CASE ok
      <4>1. /\ s2.seen = s1.seen \cup {e}
            /\ \A x \in Event : s2.applied[x] = IF x = e THEN s1.applied[x] + 1
                                                        ELSE s1.applied[x]
        BY <1>1, <3>1 DEF Applied, NodeState, Writes
      <4>. HIDE DEF s2
      <4>. QED BY <1>1, <1>3, <1>4, <1>6, <2>1, <4>1 DEF Marks
    <3>2. CASE ~ok
      BY <1>4, <3>2
    <3>. QED BY <3>1, <3>2
  <2>. HIDE DEF s2
  <2>3. Chained(s2.log)
    BY <1>1, <2>1 DEF Writes
  <2>4. Writes(n, s2, s3)
    BY <2>1, <2>3, OneAudit
  <2>5. AuditRecord(n, s2, e, ok) \in Record
    BY <2>1, TypedItems DEF AuditRecord, Record, Item, NodeState
  <2>6. /\ s3.seen = s2.seen /\ s3.applied = s2.applied
        /\ n \in Durable /\ DiskEqual(s2) /\ g \notin Torn => DiskEqual(s3)
    BY <2>1, <2>5, WriteTyped, WriteOnDisk
  <2>7. Audited(n, s, e, ok, f, g) = s3
    BY <1>6 DEF Audited, s1, s2
  <2>. HIDE DEF s3
  <2>8. Marks(s) => Marks(s3)
    BY <2>1, <2>2, <2>4, <2>6, ContinuedMarks DEF Writes
  <2>9. Writes(n, s, s3)
    <3>1. s3 \in NodeState /\ Chained(s3.log) /\ Continues(s2, s3)
      BY <2>4 DEF Writes
    <3>2. Continues(s, s2)
      BY <1>1, <2>1 DEF Writes, Continues
    <3>3. Continues(s, s3)
      BY <2>1, <3>1, <3>2, ContinuesTransitive
    <3>4. n \in Durable /\ DiskOrder(s) => DiskOrder(s3)
      BY <1>1, <2>1, <2>4 DEF Writes, DiskOrder, DiskAhead
    <3>5. /\ s.log \in Seq(Record) /\ s1.log \in Seq(Record) /\ s3.log \in Seq(Record)
          /\ DOMAIN s1.log = 1..Len(s1.log) /\ Len(s1.log) \in Nat
      BY <1>1, <3>1 DEF Writes, NodeState
    <3>6. ASSUME NEW i \in DOMAIN s3.log
          PROVE  i \in DOMAIN s.log \/ s3.log[i].item.signer = n
      <4>1. CASE i \in DOMAIN s1.log
        BY <1>1, <2>1, <3>1, <4>1 DEF Writes, Continues
      <4>2. CASE i \notin DOMAIN s1.log
        BY <2>1, <2>4, <4>2 DEF Writes
      <4>. QED BY <4>1, <4>2
    <3>7. ASSUME NEW i \in DOMAIN s3.lines
          PROVE  (i \in DOMAIN s.lines /\ s3.lines[i] = s.lines[i]) \/ s3.lines[i].item.signer = n
      BY <1>1, <2>1, <2>4 DEF Writes
    <3>8. n \notin Durable => s3.lines = s.lines
      BY <1>1, <2>1, <2>4 DEF Writes
    <3>. QED BY <3>1, <3>3, <3>4, <3>6, <3>7, <3>8 DEF Writes
  <2>10. n \in Durable /\ DiskEqual(s) /\ f \notin Torn /\ g \notin Torn => DiskEqual(s3)
    BY <1>3, <2>1, <2>6 DEF DiskEqual
  <2>. QED BY <2>7, <2>8, <2>9, <2>10
<1>. QED BY <1>5, <1>6

-------------------------------------------------------------------------------
(* Opening *)

LEMMA EqualOpens ==
  ASSUME NEW s \in NodeState, DiskEqual(s), Chained(s.log)
  PROVE  Opens(s)
<1>1. CASE s.log = <<>>
  BY <1>1 DEF Opens, Loads, MetaConsistent, DiskEqual, Chained
<1>2. CASE s.log # <<>>
  BY <1>2 DEF Opens, Loads, MetaConsistent, DiskEqual, Chained, Tip
<1>. QED BY <1>1, <1>2

\* A node that opens finds on its disk at least what it had in memory.
LEMMA OpensKeeps ==
  ASSUME NEW s \in NodeState, DiskOrder(s), Opens(s)
  PROVE  /\ Len(s.log) <= Len(s.lines)
         /\ \A i \in DOMAIN s.log : s.lines[i] = s.log[i]
<1>1. Len(s.log) \in Nat /\ Len(s.lines) \in Nat
  BY DEF NodeState
<1>2. s.meta # NoMeta => s.meta.total = Len(s.lines)
  BY DEF Opens, MetaConsistent
<1>3. DiskAhead(s)
  BY DEF Opens, Loads, DiskOrder
<1>. QED BY <1>1, <1>2, <1>3 DEF DiskAhead

LEMMA ContinuesPrefix ==
  ASSUME NEW p \in Seq(Record), NEW q \in Seq(Record),
         Len(p) <= Len(q), \A i \in DOMAIN p : q[i] = p[i]
  PROVE  IsPrefix(p, q)
<1>1. Len(p) \in Nat /\ Len(q) \in Nat /\ DOMAIN p = 1..Len(p)
  OBVIOUS
<1>2. SubSeq(p, 1, Len(p)) = p
  BY <1>1
<1>3. SubSeq(q, 1, Len(p)) \in Seq(Record) /\ Len(SubSeq(q, 1, Len(p))) = Len(p)
  BY <1>1
<1>4. \A i \in 1..Len(p) : SubSeq(q, 1, Len(p))[i] = p[i]
  BY <1>1
<1>5. SubSeq(q, 1, Len(p)) = p
  BY <1>1, <1>3, <1>4, SeqEqual
<1>. QED BY <1>2, <1>5 DEF IsPrefix

-------------------------------------------------------------------------------
(* The invariant *)

NodeInv ==
  /\ \A n \in Node : Chained(nodes[n].log) /\ Marks(nodes[n])
  /\ \A n \in Durable : DiskOrder(nodes[n])
  /\ \A n \in Durable \ torn : DiskEqual(nodes[n]) /\ status[n] # "refused"
  /\ \A n \in Node \ Durable : nodes[n].lines = <<>>

SourceInv ==
  /\ \A n \in Node : Sourced(nodes[n].log, wrote) /\ Sourced(nodes[n].lines, wrote)
  /\ \A m \in net : m.type = "response" => m.record \in wrote[m.record.item.signer]
  /\ \A c \in verifying : c.response.record \in wrote[c.response.record.item.signer]

IInv == AuditTypeOK /\ NodeInv /\ SourceInv

LEMMA Initially == Init => IInv
<1>. SUFFICES ASSUME Init PROVE IInv
  OBVIOUS
<1>. USE AuditAssumption DEF AuditAssumption
<1>1. NewNode \in NodeState
  BY TypedItems DEF NewNode, NodeState
<1>2. AuditTypeOK
  BY <1>1, TypedItems DEF AuditTypeOK, Init, NodeState, NewNode
<1>3. Chained(NewNode.log) /\ Marks(NewNode) /\ DiskOrder(NewNode) /\ DiskEqual(NewNode)
  BY DEF NewNode, Chained, Marks, DiskOrder, DiskAhead, DiskEqual
<1>4. NodeInv
  BY <1>3 DEF NodeInv, Init, NewNode
<1>5. SourceInv
  BY DEF SourceInv, Init, NewNode, Sourced
<1>. QED BY <1>2, <1>4, <1>5 DEF IInv

\* What AuditTypeOK says of the variables that ProcessGone sets.
WaitsTyped ==
  /\ status \in [Node -> {"stopped", "started", "down", "refused"}]
  /\ pending \in [Node -> Request \cup {NoRequest}]
  /\ signing \subseteq Request /\ verifying \subseteq Call

NothingSeen == \A n \in Node : status[n] = "stopped" => nodes[n].seen = {}

LEMMA GoneTyped ==
  ASSUME NEW n \in Node, WaitsTyped, ProcessGone(n)
  PROVE  /\ WaitsTyped' /\ verifying' \subseteq verifying
         /\ \A m \in Node : status'[m] = "refused" => status[m] = "refused"
         /\ \A m \in Node : status'[m] = "stopped" => m # n /\ status[m] = "stopped"
BY DEF WaitsTyped, ProcessGone

LEMMA SourcedMore ==
  ASSUME NEW q, NEW v, NEW w, Sourced(q, v),
         \A i \in DOMAIN q : v[q[i].item.signer] \subseteq w[q[i].item.signer]
  PROVE  Sourced(q, w)
BY DEF Sourced

\* A step that writes at n: t is what it makes of nodes[n].
LEMMA WritesKeepNodes ==
  ASSUME IInv, NEW n \in Node, NEW t, Writes(n, nodes[n], t), Marks(t),
         nodes' = [nodes EXCEPT ![n] = t],
         torn \subseteq torn',
         n \in Durable \ torn' => DiskEqual(t),
         \A m \in Node : status'[m] = "refused" => status[m] = "refused"
  PROVE  NodeInv'
<1>. USE AuditAssumption DEF AuditAssumption
<1>1. /\ nodes' \in [Node -> NodeState] /\ nodes'[n] = t
      /\ \A m \in Node \ {n} : nodes'[m] = nodes[m]
  BY DEF IInv, AuditTypeOK, NodeState, Writes
<1>2. \A m \in Node : Chained(nodes'[m].log) /\ Marks(nodes'[m])
  BY <1>1 DEF IInv, NodeInv, Writes
<1>3. \A m \in Durable : DiskOrder(nodes'[m])
  BY <1>1 DEF IInv, NodeInv, Writes
<1>4. \A m \in Durable \ torn' : DiskEqual(nodes'[m]) /\ status'[m] # "refused"
  BY <1>1 DEF IInv, NodeInv
<1>5. \A m \in Node \ Durable : nodes'[m].lines = <<>>
  BY <1>1 DEF IInv, NodeInv, Writes
<1>. QED BY <1>2, <1>3, <1>4, <1>5 DEF NodeInv, Chained, Marks, DiskOrder, DiskAhead, DiskEqual

LEMMA ReceiveStep ==
  ASSUME IInv, NEW n \in Node, NEW e \in Event, NEW ok \in BOOLEAN, NEW dies \in BOOLEAN,
         NEW f \in Faults(n), NEW g \in Faults(n), Receive(n, e, ok, f, g, dies)
  PROVE  IInv' /\ Continues(nodes[n], nodes'[n]) /\ (\A m \in Node \ {n} : nodes'[m] = nodes[m])
<1>. USE AuditAssumption DEF AuditAssumption
<1>. DEFINE s == nodes[n]
            t == Audited(n, s, e, ok, f, g)
<1>1. s \in NodeState /\ Chained(s.log) /\ e \notin s.seen /\ Marks(s)
  BY DEF IInv, AuditTypeOK, NodeState, NodeInv, Receive
<1>2. /\ Writes(n, s, t) /\ Marks(t)
      /\ n \in Durable /\ DiskEqual(s) /\ f \notin Torn /\ g \notin Torn => DiskEqual(t)
  BY <1>1, AuditedFacts
<1>3. /\ nodes' = [nodes EXCEPT ![n] = t]
      /\ torn' = IF ({f, g} \ {"none"}) \cap Torn # {} THEN torn \cup {n} ELSE torn
      /\ wrote' = [wrote EXCEPT ![n] = @ \cup
                     {r \in ToSet(t.log) \cup ToSet(t.lines) : r.item.signer = n}]
      /\ work' \in Nat /\ UNCHANGED <<root, net>>
      /\ \/ ProcessGone(n)
         \/ UNCHANGED <<status, pending, signing, verifying>>
  <2>1. work \in Nat
    BY DEF IInv, AuditTypeOK
  <2>2. \E k \in {1, 2} : Spend(k)
    BY DEF Receive
  <2>3. work' \in Nat
    BY <2>1, <2>2 DEF Spend
  <2>. HIDE DEF t
  <2>4. /\ nodes' = [nodes EXCEPT ![n] = t]
        /\ torn' = IF ({f, g} \ {"none"}) \cap Torn # {} THEN torn \cup {n} ELSE torn
        /\ wrote' = [wrote EXCEPT ![n] = @ \cup
                       {r \in ToSet(t.log) \cup ToSet(t.lines) : r.item.signer = n}]
        /\ UNCHANGED <<root, net>>
    BY DEF Receive, t
  <2>5. ProcessGone(n) \/ UNCHANGED <<status, pending, signing, verifying>>
    BY DEF Receive
  <2>. QED BY <2>3, <2>4, <2>5
<1>. HIDE DEF t
<1>4. /\ nodes' \in [Node -> NodeState] /\ nodes'[n] = t
      /\ \A m \in Node \ {n} : nodes'[m] = nodes[m]
  BY <1>2, <1>3 DEF IInv, AuditTypeOK, NodeState, Writes
<1>5. /\ WaitsTyped' /\ verifying' \subseteq verifying
      /\ \A m \in Node : status'[m] = "refused" => status[m] = "refused"
      /\ \A m \in Node : status'[m] = "stopped" => m # n /\ status[m] = "stopped"
  <2>1. WaitsTyped
    BY DEF IInv, AuditTypeOK, WaitsTyped
  <2>2. CASE ProcessGone(n)
    BY <2>1, <2>2, GoneTyped
  <2>3. CASE UNCHANGED <<status, pending, signing, verifying>>
    <3>1. status[n] = "started"
      BY DEF Receive
    <3>. QED BY <2>1, <2>3, <3>1 DEF WaitsTyped
  <2>. QED BY <1>3, <2>2, <2>3
<1>6. torn \subseteq torn' /\ torn' \subseteq Durable
  <2>1. n \notin Durable => f = "none" /\ g = "none"
    BY DEF Faults
  <2>. QED BY <1>3, <2>1 DEF IInv, AuditTypeOK, Torn
<1>7. n \in Durable \ torn' => DiskEqual(t)
  <2>. SUFFICES ASSUME n \in Durable, n \notin torn' PROVE DiskEqual(t)
    OBVIOUS
  <2>1. f \notin Torn /\ g \notin Torn /\ n \notin torn
    BY <1>3, <1>6 DEF Torn
  <2>. QED BY <1>2, <2>1 DEF IInv, NodeInv
<1>8. NodeInv'
  BY <1>2, <1>3, <1>5, <1>6, <1>7, WritesKeepNodes
<1>9. /\ wrote' \in [Node -> SUBSET Record]
      /\ \A m \in Node : wrote[m] \subseteq wrote'[m]
      /\ \A i \in DOMAIN t.log : t.log[i].item.signer = n => t.log[i] \in wrote'[n]
      /\ \A i \in DOMAIN t.lines : t.lines[i].item.signer = n => t.lines[i] \in wrote'[n]
  <2>1. /\ \A i \in DOMAIN t.log : t.log[i] \in ToSet(t.log)
        /\ \A i \in DOMAIN t.lines : t.lines[i] \in ToSet(t.lines)
    BY DEF ToSet
  <2>2. ToSet(t.log) \subseteq Record /\ ToSet(t.lines) \subseteq Record
    BY <1>2 DEF Writes, NodeState, ToSet
  <2>3. wrote \in [Node -> SUBSET Record]
    BY DEF IInv, AuditTypeOK
  <2>. QED BY <1>3, <2>1, <2>2, <2>3
<1>10. AuditTypeOK'
  <2>1. NothingSeen'
    BY <1>4, <1>5 DEF NothingSeen, IInv, AuditTypeOK
  <2>. QED BY <1>3, <1>4, <1>5, <1>6, <1>9, <2>1
         DEF AuditTypeOK, IInv, WaitsTyped, NodeState, NothingSeen
<1>11. SourceInv'
  <2>1. Sourced(t.log, wrote') /\ Sourced(t.lines, wrote')
    <3>1. /\ \A i \in DOMAIN s.log : s.log[i] \in wrote[s.log[i].item.signer] /\ s.log[i] \in Record
          /\ \A i \in DOMAIN s.lines : s.lines[i] \in wrote[s.lines[i].item.signer] /\ s.lines[i] \in Record
      BY <1>1 DEF IInv, SourceInv, Sourced, NodeState
    <3>2. \A r \in Record : r.item.signer \in Node
      BY DEF Record, Item
    <3>3. ASSUME NEW i \in DOMAIN t.log PROVE t.log[i] \in wrote'[t.log[i].item.signer]
      BY <1>2, <1>9, <3>1, <3>2 DEF Writes, Continues
    <3>4. ASSUME NEW i \in DOMAIN t.lines PROVE t.lines[i] \in wrote'[t.lines[i].item.signer]
      BY <1>2, <1>9, <3>1, <3>2 DEF Writes
    <3>. QED BY <3>3, <3>4 DEF Sourced
  <2>2. ASSUME NEW m \in Node \ {n}
        PROVE  Sourced(nodes[m].log, wrote') /\ Sourced(nodes[m].lines, wrote')
    <3>1. nodes[m].log \in Seq(Record) /\ nodes[m].lines \in Seq(Record)
      BY DEF IInv, AuditTypeOK
    <3>2. /\ \A i \in DOMAIN nodes[m].log : nodes[m].log[i].item.signer \in Node
          /\ \A i \in DOMAIN nodes[m].lines : nodes[m].lines[i].item.signer \in Node
      <4>1. /\ \A i \in DOMAIN nodes[m].log : nodes[m].log[i] \in Record
            /\ \A i \in DOMAIN nodes[m].lines : nodes[m].lines[i] \in Record
        BY <3>1
      <4>2. \A r \in Record : r.item.signer \in Node
        BY DEF Record, Item
      <4>. QED BY <4>1, <4>2
    <3>. QED BY <1>9, <3>2, SourcedMore DEF IInv, SourceInv
  <2>3. ASSUME NEW m \in net, m.type = "response" PROVE m.record \in wrote'[m.record.item.signer]
    <3>1. m \in Response
      BY <2>3 DEF IInv, AuditTypeOK, Announcement, Request, Response
    <3>2. m.record.item.signer \in Node
      BY <3>1 DEF Response, Record, Item
    <3>. QED BY <1>9, <2>3, <3>2 DEF IInv, SourceInv
  <2>4. ASSUME NEW c \in verifying
        PROVE  c.response.record \in wrote'[c.response.record.item.signer]
    <3>1. c.response.record.item.signer \in Node
      BY DEF IInv, AuditTypeOK, Call, Response, Record, Item
    <3>. QED BY <1>9, <3>1 DEF IInv, SourceInv
  <2>5. \A m \in Node : Sourced(nodes'[m].log, wrote') /\ Sourced(nodes'[m].lines, wrote')
    BY <1>4, <2>1, <2>2
  <2>. QED BY <1>3, <1>5, <2>3, <2>4, <2>5 DEF SourceInv, Sourced
<1>. QED BY <1>2, <1>4, <1>8, <1>10, <1>11 DEF IInv, Writes

LEMMA FinishResponseStep ==
  ASSUME IInv, NEW c \in verifying, NEW dies \in BOOLEAN, NEW f \in Faults(c.node),
         FinishResponse(c, f, dies)
  PROVE  IInv' /\ (\A m \in Node : Continues(nodes[m], nodes'[m]))
<1>. USE AuditAssumption DEF AuditAssumption
<1>. DEFINE n == c.node
            s == nodes[n]
            r == c.response.record
            accepted == IF ProofFits(c) /\ c.pending.index = Len(s.log) + 1
                        THEN Replica(s, r) ELSE {}
            t == IF accepted = {} THEN s ELSE Written(n, s, CHOOSE x \in accepted : TRUE, f)
<1>1. /\ n \in Node /\ r \in Record /\ c \in Call /\ r.item.signer \in Node
      /\ r \in wrote[r.item.signer]
  BY DEF IInv, AuditTypeOK, SourceInv, Call, Response, Record, Item
<1>2. s \in NodeState /\ Chained(s.log) /\ Marks(s)
  BY <1>1 DEF IInv, AuditTypeOK, NodeState, NodeInv
<1>3. /\ nodes' = [nodes EXCEPT ![n] = t]
      /\ torn' = IF f \in Torn THEN torn \cup {n} ELSE torn
      /\ work' \in Nat /\ UNCHANGED <<root, net, wrote>>
      /\ f # "none" => accepted # {}
  <2>1. work \in Nat
    BY DEF IInv, AuditTypeOK
  <2>2. \E k \in {0, 1} : Spend(k)
    BY DEF FinishResponse
  <2>3. work' \in Nat
    BY <2>1, <2>2 DEF Spend
  <2>. QED BY <2>3 DEF FinishResponse
<1>4. \/ ProcessGone(n)
      \/ /\ pending' = [pending EXCEPT ![n] = NoRequest]
         /\ verifying' = verifying \ {c} /\ UNCHANGED <<status, signing>>
  BY DEF FinishResponse
<1>5. accepted = {} \/ (accepted = {r} /\ r.prev = Tip(s.log))
  BY DEF Replica
<1>6. t = s \/ (t = Written(n, s, r, f) /\ r.prev = Tip(s.log) /\ (accepted # {}))
  <2>1. CASE accepted = {}
    BY <2>1
  <2>2. CASE accepted # {}
    BY <1>5, <2>2
  <2>. QED BY <2>1, <2>2
<1>. HIDE DEF t, accepted
<1>7. /\ t \in NodeState /\ t.seen = s.seen /\ t.applied = s.applied
      /\ Chained(t.log) /\ Continues(s, t)
      /\ \A i \in DOMAIN t.log : t.log[i] = r \/ i \in DOMAIN s.log
      /\ \A i \in DOMAIN t.lines :
           t.lines[i] = r \/ (i \in DOMAIN s.lines /\ t.lines[i] = s.lines[i])
      /\ n \notin Durable => t.lines = s.lines
      /\ n \in Durable /\ DiskOrder(s) => DiskOrder(t)
      /\ n \in Durable /\ DiskEqual(s) /\ f \notin Torn => DiskEqual(t)
  <2>1. CASE t = s
    BY <1>2, <2>1 DEF Continues, NodeState
  <2>2. CASE t = Written(n, s, r, f) /\ r.prev = Tip(s.log)
    <3>1. /\ t \in NodeState /\ t.seen = s.seen /\ t.applied = s.applied
          /\ n \notin Durable => t.lines = s.lines
      BY <1>1, <1>2, <2>2, WriteTyped
    <3>2. /\ Chained(t.log) /\ Continues(s, t)
          /\ \A i \in DOMAIN t.log : t.log[i] = r \/ i \in DOMAIN s.log
          /\ \A i \in DOMAIN t.lines :
               t.lines[i] = r \/ (i \in DOMAIN s.lines /\ t.lines[i] = s.lines[i])
      BY <1>1, <1>2, <2>2, WriteChained
    <3>3. /\ n \in Durable /\ DiskOrder(s) => DiskOrder(t)
          /\ n \in Durable /\ DiskEqual(s) /\ f \notin Torn => DiskEqual(t)
      BY <1>1, <1>2, <2>2, WriteOnDisk
    <3>. QED BY <3>1, <3>2, <3>3
  <2>. QED BY <1>6, <2>1, <2>2
<1>8. Marks(t)
  BY <1>2, <1>7, ContinuedMarks
<1>9. /\ nodes' \in [Node -> NodeState] /\ nodes'[n] = t
      /\ \A m \in Node \ {n} : nodes'[m] = nodes[m]
  BY <1>1, <1>3, <1>7 DEF IInv, AuditTypeOK, NodeState
<1>10. /\ WaitsTyped' /\ verifying' \subseteq verifying
       /\ \A m \in Node : status'[m] = "refused" => status[m] = "refused"
       /\ \A m \in Node : status'[m] = "stopped" => status[m] = "stopped"
  <2>1. WaitsTyped
    BY DEF IInv, AuditTypeOK, WaitsTyped
  <2>2. CASE ProcessGone(n)
    BY <1>1, <2>1, <2>2, GoneTyped
  <2>3. CASE /\ pending' = [pending EXCEPT ![n] = NoRequest]
             /\ verifying' = verifying \ {c} /\ UNCHANGED <<status, signing>>
    BY <1>1, <2>1, <2>3 DEF WaitsTyped
  <2>. QED BY <1>4, <2>2, <2>3
<1>11. torn \subseteq torn' /\ torn' \subseteq Durable
  BY <1>3 DEF Faults, IInv, AuditTypeOK, Torn
<1>12. NodeInv'
  <2>1. \A m \in Node : Chained(nodes'[m].log) /\ Marks(nodes'[m])
    BY <1>7, <1>8, <1>9 DEF IInv, NodeInv
  <2>2. \A m \in Durable : DiskOrder(nodes'[m])
    BY <1>7, <1>9 DEF IInv, NodeInv
  <2>3. \A m \in Durable \ torn' : DiskEqual(nodes'[m]) /\ status'[m] # "refused"
    <3>1. n \in Durable \ torn' => f \notin Torn /\ n \notin torn
      BY <1>3, <1>11
    <3>. QED BY <1>7, <1>9, <1>10, <1>11, <3>1 DEF IInv, NodeInv
  <2>4. \A m \in Node \ Durable : nodes'[m].lines = <<>>
    BY <1>7, <1>9 DEF IInv, NodeInv
  <2>. QED BY <2>1, <2>2, <2>3, <2>4 DEF NodeInv, Chained, Marks, DiskOrder, DiskAhead, DiskEqual
<1>13. AuditTypeOK'
  <2>1. NothingSeen'
    BY <1>7, <1>9, <1>10 DEF NothingSeen, IInv, AuditTypeOK
  <2>. QED BY <1>3, <1>9, <1>10, <1>11, <2>1
         DEF AuditTypeOK, IInv, WaitsTyped, NodeState, NothingSeen
<1>14. SourceInv'
  <2>1. Sourced(s.log, wrote) /\ Sourced(s.lines, wrote)
    BY <1>1 DEF IInv, SourceInv
  <2>2. Sourced(t.log, wrote) /\ Sourced(t.lines, wrote)
    BY <1>1, <1>7, <2>1 DEF Sourced, Continues
  <2>3. \A m \in Node : Sourced(nodes'[m].log, wrote) /\ Sourced(nodes'[m].lines, wrote)
    BY <1>9, <2>2 DEF IInv, SourceInv
  <2>. QED BY <1>3, <1>10, <2>3 DEF IInv, SourceInv, Sourced
<1>15. \A m \in Node : Continues(nodes[m], nodes'[m])
  <2>1. \A m \in Node : Continues(nodes[m], nodes[m])
    BY DEF Continues, IInv, AuditTypeOK
  <2>. QED BY <1>7, <1>9, <2>1
<1>. QED BY <1>12, <1>13, <1>14, <1>15 DEF IInv

LEMMA OpenStep ==
  ASSUME IInv, NEW n \in Node, Open(n)
  PROVE  IInv' /\ (\A m \in Durable : Continues(nodes[m], nodes'[m]))
<1>. USE AuditAssumption DEF AuditAssumption
<1>. DEFINE s == nodes[n]
            t == [NewNode EXCEPT !.log = s.lines, !.lines = s.lines, !.tail = s.tail,
                            !.meta = s.meta]
<1>1. s \in NodeState /\ Chained(s.log)
  BY DEF IInv, AuditTypeOK, NodeState, NodeInv
<1>2. /\ t \in NodeState /\ t.log = s.lines /\ t.lines = s.lines /\ t.meta = s.meta
      /\ t.tail = s.tail /\ t.seen = {} /\ t.applied = [e \in Event |-> 0]
  BY <1>1 DEF NewNode, NodeState
<1>3. Marks(t)
  BY <1>2 DEF Marks
<1>4. root' \in [Node -> [Node -> Seq(Record)]]
  BY DEF Open, IInv, AuditTypeOK
<1>5. \A m \in Node : Continues(nodes[m], nodes[m])
  BY DEF Continues, IInv, AuditTypeOK
<1>6. CASE n \in Durable => Opens(s)
  <2>1. /\ nodes' = [nodes EXCEPT ![n] = t] /\ status' = [status EXCEPT ![n] = "stopped"]
        /\ UNCHANGED <<pending, signing, verifying, net, wrote, torn, work>>
    BY <1>6 DEF Open
  <2>. HIDE DEF t
  <2>2. /\ nodes' \in [Node -> NodeState] /\ nodes'[n] = t
        /\ \A m \in Node \ {n} : nodes'[m] = nodes[m]
    BY <1>2, <2>1 DEF IInv, AuditTypeOK, NodeState
  <2>3. Chained(t.log)
    <3>1. CASE n \in Durable
      BY <1>2, <1>6, <3>1 DEF Opens
    <3>2. CASE n \notin Durable
      BY <1>2, <3>2 DEF IInv, NodeInv, Chained
    <3>. QED BY <3>1, <3>2
  <2>4. n \in Durable => Continues(s, t) /\ DiskOrder(t)
    <3>. SUFFICES ASSUME n \in Durable PROVE Continues(s, t) /\ DiskOrder(t)
      OBVIOUS
    <3>1. Len(s.log) <= Len(s.lines) /\ \A i \in DOMAIN s.log : s.lines[i] = s.log[i]
      BY <1>1, <1>6, OpensKeeps DEF IInv, NodeInv
    <3>2. Len(s.lines) \in Nat
      BY <1>1 DEF NodeState
    <3>. QED BY <1>2, <3>1, <3>2 DEF Continues, DiskOrder, DiskAhead
  <2>5. n \in Durable \ torn => DiskEqual(t)
    <3>. SUFFICES ASSUME n \in Durable \ torn PROVE DiskEqual(t)
      OBVIOUS
    <3>1. DiskEqual(s)
      BY DEF IInv, NodeInv
    <3>. QED BY <1>2, <3>1 DEF DiskEqual
  <2>6. NodeInv'
    <3>1. \A m \in Node : Chained(nodes'[m].log) /\ Marks(nodes'[m])
      BY <1>3, <2>2, <2>3 DEF IInv, NodeInv
    <3>2. \A m \in Durable : DiskOrder(nodes'[m])
      BY <2>2, <2>4 DEF IInv, NodeInv
    <3>3. \A m \in Durable \ torn' : DiskEqual(nodes'[m]) /\ status'[m] # "refused"
      BY <2>1, <2>2, <2>5 DEF IInv, NodeInv, AuditTypeOK
    <3>4. \A m \in Node \ Durable : nodes'[m].lines = <<>>
      BY <1>2, <2>2 DEF IInv, NodeInv
    <3>. QED BY <3>1, <3>2, <3>3, <3>4 DEF NodeInv, Chained, Marks, DiskOrder, DiskAhead, DiskEqual
  <2>7. AuditTypeOK'
    <3>1. NothingSeen'
      BY <1>2, <2>1, <2>2 DEF NothingSeen, IInv, AuditTypeOK
    <3>. QED BY <1>4, <2>1, <2>2, <3>1 DEF AuditTypeOK, IInv, NodeState, NothingSeen
  <2>8. SourceInv'
    <3>1. \A m \in Node : Sourced(nodes'[m].log, wrote) /\ Sourced(nodes'[m].lines, wrote)
      BY <1>2, <2>2 DEF IInv, SourceInv
    <3>. QED BY <2>1, <3>1 DEF IInv, SourceInv, Sourced
  <2>. QED BY <1>5, <2>2, <2>4, <2>6, <2>7, <2>8 DEF IInv
<1>7. CASE ~(n \in Durable => Opens(s))
  <2>1. /\ nodes' = nodes /\ status' = [status EXCEPT ![n] = "refused"]
        /\ status[n] = "down"
        /\ UNCHANGED <<pending, signing, verifying, net, wrote, torn, work>>
    BY <1>7 DEF Open
  <2>2. n \in torn
    <3>1. DiskEqual(s) => Opens(s)
      BY <1>1, EqualOpens
    <3>. QED BY <1>7, <3>1 DEF IInv, NodeInv
  <2>3. NodeInv'
    BY <2>1, <2>2 DEF IInv, NodeInv, AuditTypeOK, Chained, Marks, DiskOrder, DiskAhead, DiskEqual
  <2>4. AuditTypeOK'
    BY <1>4, <2>1 DEF AuditTypeOK, IInv
  <2>5. SourceInv'
    BY <2>1 DEF IInv, SourceInv, Sourced
  <2>. QED BY <1>5, <2>1, <2>3, <2>4, <2>5 DEF IInv
<1>. QED BY <1>6, <1>7

\* stop takes nothing from the log or the disk.
LEMMA StopStep ==
  ASSUME IInv, NEW n \in Node, Stop(n)
  PROVE  IInv' /\ (\A m \in Node : Continues(nodes[m], nodes'[m]))
<1>. USE AuditAssumption DEF AuditAssumption
<1>. DEFINE s == nodes[n]
            t == [s EXCEPT !.seen = {}, !.applied = [e \in Event |-> 0]]
<1>1. s \in NodeState
  BY DEF IInv, AuditTypeOK, NodeState
<1>2. /\ t \in NodeState /\ t.log = s.log /\ t.lines = s.lines /\ t.meta = s.meta
      /\ t.tail = s.tail /\ t.seen = {} /\ t.applied = [e \in Event |-> 0]
  BY <1>1 DEF NodeState
<1>3. /\ nodes' = [nodes EXCEPT ![n] = t] /\ status' = [status EXCEPT ![n] = "stopped"]
      /\ work' \in Nat /\ UNCHANGED <<root, pending, signing, verifying, net, wrote, torn>>
  <2>1. nodes' = [nodes EXCEPT ![n] = t]
    BY <1>1 DEF Stop, IInv, AuditTypeOK, NodeState
  <2>2. work' \in Nat
    BY DEF Stop, Spend, IInv, AuditTypeOK
  <2>3. status' = [status EXCEPT ![n] = "stopped"]
        /\ UNCHANGED <<root, pending, signing, verifying, net, wrote, torn>>
    BY DEF Stop
  <2>. HIDE DEF t
  <2>. QED BY <2>1, <2>2, <2>3
<1>. HIDE DEF t
<1>4. /\ nodes' \in [Node -> NodeState] /\ nodes'[n] = t
      /\ \A m \in Node \ {n} : nodes'[m] = nodes[m]
  BY <1>2, <1>3 DEF IInv, AuditTypeOK, NodeState
<1>5. Marks(t)
  BY <1>2 DEF Marks
<1>6. NodeInv'
  <2>1. \A m \in Node : Chained(nodes'[m].log) /\ Marks(nodes'[m])
    BY <1>2, <1>4, <1>5 DEF IInv, NodeInv, Chained
  <2>2. \A m \in Durable : DiskOrder(nodes'[m])
    BY <1>2, <1>4 DEF IInv, NodeInv, DiskOrder, DiskAhead
  <2>3. \A m \in Durable \ torn' : DiskEqual(nodes'[m]) /\ status'[m] # "refused"
    BY <1>2, <1>3, <1>4 DEF IInv, NodeInv, AuditTypeOK, DiskEqual
  <2>4. \A m \in Node \ Durable : nodes'[m].lines = <<>>
    BY <1>2, <1>4 DEF IInv, NodeInv
  <2>. QED BY <2>1, <2>2, <2>3, <2>4 DEF NodeInv, Chained, Marks, DiskOrder, DiskAhead, DiskEqual
<1>7. AuditTypeOK'
  <2>1. NothingSeen'
    BY <1>2, <1>3, <1>4 DEF NothingSeen, IInv, AuditTypeOK
  <2>. QED BY <1>3, <1>4, <2>1 DEF AuditTypeOK, IInv, NodeState, NothingSeen
<1>8. SourceInv'
  <2>1. \A m \in Node : Sourced(nodes'[m].log, wrote) /\ Sourced(nodes'[m].lines, wrote)
    BY <1>2, <1>4 DEF IInv, SourceInv
  <2>. QED BY <1>3, <2>1 DEF IInv, SourceInv, Sourced
<1>9. \A m \in Node : Continues(nodes[m], nodes'[m])
  <2>1. \A m \in Node : nodes[m].log \in Seq(Record) /\ nodes'[m].log = nodes[m].log
    BY <1>2, <1>4 DEF IInv, AuditTypeOK
  <2>. QED BY <2>1 DEF Continues
<1>. QED BY <1>6, <1>7, <1>8, <1>9 DEF IInv

\* A step that writes nothing keeps what is said of nodes and of records.
LEMMA QuietNodes ==
  ASSUME IInv, UNCHANGED <<nodes, wrote, torn>>,
         \A m \in Node : status'[m] = "refused" => status[m] = "refused"
  PROVE  /\ NodeInv'
         /\ \A m \in Node : Sourced(nodes'[m].log, wrote') /\ Sourced(nodes'[m].lines, wrote')
         /\ \A m \in Node : Continues(nodes[m], nodes'[m])
<1>1. nodes' = nodes /\ wrote' = wrote /\ torn' = torn
  OBVIOUS
<1>2. NodeInv'
  <2>1. NodeInv
    BY DEF IInv
  <2>2. \A m \in Durable \ torn' : status'[m] # "refused"
    BY <1>1, <2>1, AuditAssumption DEF NodeInv, AuditAssumption
  <2>. QED BY <1>1, <2>1, <2>2 DEF NodeInv, Chained, Marks, DiskOrder, DiskAhead, DiskEqual
<1>3. \A m \in Node : Sourced(nodes'[m].log, wrote') /\ Sourced(nodes'[m].lines, wrote')
  BY <1>1 DEF IInv, SourceInv, Sourced
<1>4. \A m \in Node : Continues(nodes[m], nodes'[m])
  BY <1>1 DEF IInv, AuditTypeOK, Continues
<1>. QED BY <1>2, <1>3, <1>4

LEMMA QuietStep ==
  ASSUME IInv,
         \/ \E n \in Node : Start(n) \/ Exit(n) \/ AnnounceRoot(n)
         \/ \E n \in Node, a \in net : a.type = "root" /\ ReceiveRoot(n, a)
         \/ \E n, m \in Node, i \in 1..MaxIndex : BeginRequest(n, m, i)
         \/ \E q \in signing : FinishRequest(q)
         \/ \E q \in net : q.type = "request" /\ CreateProofResponse(q)
         \/ \E n \in Node, r \in net : r.type = "response" /\ BeginResponse(n, r)
         \/ \E c \in verifying : RefuseResponse(c)
         \/ UNCHANGED vars
  PROVE  IInv' /\ (\A m \in Node : Continues(nodes[m], nodes'[m]))
<1>. USE AuditAssumption DEF AuditAssumption
<1>0. /\ \A m \in net : m.type = "root" => m \in Announcement
      /\ \A m \in net : m.type = "request" => m \in Request
      /\ \A m \in net : m.type = "response" => m \in Response
      /\ \A n \in Node : nodes[n].log \in Seq(Record)
      /\ work \in Nat
  BY DEF IInv, AuditTypeOK, Announcement, Request, Response
<1>. SUFFICES /\ AuditTypeOK' /\ UNCHANGED <<nodes, wrote, torn>>
              /\ \A m \in Node : status'[m] = "refused" => status[m] = "refused"
              /\ \A m \in net' : m.type = "response" => m.record \in wrote[m.record.item.signer]
              /\ \A c \in verifying' :
                   c.response.record \in wrote[c.response.record.item.signer]
  BY QuietNodes DEF IInv, SourceInv
<1>0a. ASSUME NEW n \in Node, Start(n)
      PROVE  /\ AuditTypeOK' /\ UNCHANGED <<nodes, wrote, torn, net, verifying>>
             /\ \A m \in Node : status'[m] = "refused" => status[m] = "refused"
  BY <1>0a DEF IInv, AuditTypeOK, Start
<1>1. ASSUME NEW n \in Node, Exit(n)
      PROVE  /\ AuditTypeOK' /\ UNCHANGED <<nodes, wrote, torn, net>>
             /\ verifying' \subseteq verifying
             /\ \A m \in Node : status'[m] = "refused" => status[m] = "refused"
  <2>1. WaitsTyped
    BY DEF IInv, AuditTypeOK, WaitsTyped
  <2>2. ProcessGone(n) /\ work' \in Nat /\ UNCHANGED <<nodes, root, net, wrote, torn>>
    BY <1>0, <1>1 DEF Exit, Spend
  <2>3. /\ WaitsTyped' /\ verifying' \subseteq verifying
        /\ \A m \in Node : status'[m] = "refused" => status[m] = "refused"
        /\ \A m \in Node : status'[m] = "stopped" => m # n /\ status[m] = "stopped"
    BY <2>1, <2>2, GoneTyped
  <2>4. NothingSeen'
    BY <2>2, <2>3 DEF NothingSeen, IInv, AuditTypeOK
  <2>. QED BY <2>2, <2>3, <2>4 DEF IInv, AuditTypeOK, WaitsTyped, NothingSeen
<1>2. ASSUME NEW n \in Node, AnnounceRoot(n)
      PROVE  /\ AuditTypeOK' /\ UNCHANGED <<nodes, wrote, torn, status, verifying>>
             /\ \A m \in net' : m.type = "response" => m \in net
  <2>. DEFINE a == [type |-> "root", from |-> n, root |-> nodes[n].log]
  <2>1. a \in Announcement /\ a.type = "root"
    BY <1>0 DEF Announcement
  <2>2. /\ net' = net \cup {a}
        /\ UNCHANGED <<nodes, status, root, pending, signing, verifying, wrote, torn, work>>
    BY <1>2 DEF AnnounceRoot
  <2>. HIDE DEF a
  <2>3. AuditTypeOK'
    BY <2>1, <2>2 DEF IInv, AuditTypeOK
  <2>. QED BY <2>1, <2>2, <2>3
<1>3. ASSUME NEW n \in Node, NEW a \in net, a.type = "root", ReceiveRoot(n, a)
      PROVE  AuditTypeOK' /\ UNCHANGED <<nodes, wrote, torn, status, verifying, net>>
  <2>1. a.from \in Node /\ a.root \in Seq(Record)
    BY <1>0, <1>3 DEF Announcement
  <2>. QED BY <1>3, <2>1 DEF IInv, AuditTypeOK, ReceiveRoot
<1>4. ASSUME NEW n \in Node, NEW m \in Node, NEW i \in 1..MaxIndex, BeginRequest(n, m, i)
      PROVE  AuditTypeOK' /\ UNCHANGED <<nodes, wrote, torn, status, verifying, net>>
  <2>. DEFINE x == IF root[n][m] # <<>> THEN root[n][m] ELSE nodes[n].log
             q == [type |-> "request", from |-> n, to |-> m, index |-> i, root |-> x]
  <2>1. x \in Seq(Record)
    BY <1>0 DEF IInv, AuditTypeOK
  <2>. HIDE DEF x
  <2>2. q \in Request /\ q.from = n
    BY <2>1 DEF Request
  <2>3. /\ signing' = signing \cup {q} /\ work' \in Nat
        /\ UNCHANGED <<nodes, status, root, pending, verifying, net, wrote, torn>>
    BY <1>0, <1>4 DEF BeginRequest, Spend, x
  <2>. HIDE DEF q
  <2>. QED BY <2>2, <2>3 DEF IInv, AuditTypeOK
<1>5. ASSUME NEW q \in signing, FinishRequest(q)
      PROVE  /\ AuditTypeOK' /\ UNCHANGED <<nodes, wrote, torn, status, verifying>>
             /\ \A m \in net' : m.type = "response" => m \in net
  <2>1. q \in Request /\ q.from \in Node /\ q.type = "request"
    BY DEF IInv, AuditTypeOK, Request
  <2>. QED BY <1>5, <2>1 DEF IInv, AuditTypeOK, FinishRequest
<1>6. ASSUME NEW q \in net, q.type = "request", CreateProofResponse(q)
      PROVE  /\ AuditTypeOK' /\ UNCHANGED <<nodes, wrote, torn, status, verifying>>
             /\ \A m \in net' : m.type = "response" =>
                  m \in net \/ m.record \in wrote[m.record.item.signer]
  <2>. DEFINE log == nodes[q.to].log
             r == [type |-> "response", from |-> q.to, record |-> log[q.index], root |-> log]
  <2>1. q.to \in Node /\ log \in Seq(Record)
    BY <1>0, <1>6 DEF Request
  <2>2. /\ q.index \in DOMAIN log /\ net' = net \cup {r}
        /\ UNCHANGED <<nodes, status, root, pending, signing, verifying, wrote, torn, work>>
    BY <1>6 DEF CreateProofResponse
  <2>3. r \in Response
    BY <2>1, <2>2 DEF Response
  <2>4. r.record \in wrote[r.record.item.signer]
    BY <2>1, <2>2 DEF IInv, SourceInv, Sourced
  <2>. HIDE DEF r
  <2>. QED BY <2>2, <2>3, <2>4 DEF IInv, AuditTypeOK
<1>7. ASSUME NEW n \in Node, NEW r \in net, r.type = "response", BeginResponse(n, r)
      PROVE  /\ AuditTypeOK' /\ UNCHANGED <<nodes, wrote, torn, status, net>>
             /\ \A c \in verifying' :
                  c \in verifying \/ c.response.record \in wrote[c.response.record.item.signer]
  <2>. DEFINE c == [node |-> n, pending |-> pending[n], response |-> r]
  <2>1. /\ pending[n] # NoRequest /\ verifying' = verifying \cup {c}
        /\ UNCHANGED <<nodes, status, root, pending, signing, net, wrote, torn, work>>
    BY <1>7 DEF BeginResponse
  <2>2. c \in Call /\ c.node = n
    BY <1>0, <1>7, <2>1 DEF IInv, AuditTypeOK, Call
  <2>3. c.response.record \in wrote[c.response.record.item.signer]
    BY <1>7 DEF IInv, SourceInv
  <2>. HIDE DEF c
  <2>. QED BY <2>1, <2>2, <2>3 DEF IInv, AuditTypeOK
<1>8. ASSUME NEW c \in verifying, RefuseResponse(c)
      PROVE  /\ AuditTypeOK' /\ UNCHANGED <<nodes, wrote, torn, status, net>>
             /\ verifying' \subseteq verifying
  <2>1. c.node \in Node
    BY DEF IInv, AuditTypeOK, Call
  <2>. QED BY <1>8, <2>1 DEF IInv, AuditTypeOK, RefuseResponse
<1>9. ASSUME UNCHANGED vars
      PROVE  AuditTypeOK' /\ UNCHANGED <<nodes, wrote, torn, status, net, verifying>>
  BY <1>9 DEF IInv, AuditTypeOK, vars
<1>10. /\ \A m \in net : m.type = "response" => m.record \in wrote[m.record.item.signer]
       /\ \A c \in verifying : c.response.record \in wrote[c.response.record.item.signer]
  BY DEF IInv, SourceInv
<1>11. CASE \E n \in Node : Start(n) \/ Exit(n) \/ AnnounceRoot(n)
  BY <1>0a, <1>1, <1>2, <1>10, <1>11
<1>12. CASE \E n \in Node, a \in net : a.type = "root" /\ ReceiveRoot(n, a)
  BY <1>3, <1>10, <1>12
<1>13. CASE \E n, m \in Node, i \in 1..MaxIndex : BeginRequest(n, m, i)
  BY <1>4, <1>10, <1>13
<1>14. CASE \E q \in signing : FinishRequest(q)
  BY <1>5, <1>10, <1>14
<1>15. CASE \E q \in net : q.type = "request" /\ CreateProofResponse(q)
  BY <1>6, <1>10, <1>15
<1>16. CASE \E n \in Node, r \in net : r.type = "response" /\ BeginResponse(n, r)
  BY <1>7, <1>10, <1>16
<1>17. CASE \E c \in verifying : RefuseResponse(c)
  BY <1>8, <1>10, <1>17
<1>18. CASE UNCHANGED vars
  BY <1>9, <1>10, <1>18
<1>. QED BY <1>11, <1>12, <1>13, <1>14, <1>15, <1>16, <1>17, <1>18

LEMMA Inductive ==
  ASSUME IInv, [Next]_vars
  PROVE  IInv' /\ (\A m \in Durable : Continues(nodes[m], nodes'[m]))
<1>. USE AuditAssumption DEF AuditAssumption
<1>1. CASE \E n \in Node, e \in Event, ok, dies \in BOOLEAN :
             \E f, g \in Faults(n) : Receive(n, e, ok, f, g, dies)
  <2>1. PICK n \in Node, e \in Event, ok \in BOOLEAN, dies \in BOOLEAN :
          \E f, g \in Faults(n) : Receive(n, e, ok, f, g, dies)
    BY <1>1
  <2>2. PICK f \in Faults(n), g \in Faults(n) : Receive(n, e, ok, f, g, dies)
    BY <2>1
  <2>3. IInv' /\ Continues(nodes[n], nodes'[n]) /\ (\A m \in Node \ {n} : nodes'[m] = nodes[m])
    BY <2>2, ReceiveStep
  <2>4. \A m \in Node : Continues(nodes[m], nodes[m])
    BY DEF Continues, IInv, AuditTypeOK
  <2>. QED BY <2>3, <2>4
<1>2. CASE \E c \in verifying, dies \in BOOLEAN : \E f \in Faults(c.node) :
             FinishResponse(c, f, dies)
  BY <1>2, FinishResponseStep
<1>3. CASE \E n \in Node : Open(n)
  BY <1>3, OpenStep
<1>5. CASE \E n \in Node : Stop(n)
  BY <1>5, StopStep
<1>4. CASE \/ \E n \in Node : Start(n) \/ Exit(n) \/ AnnounceRoot(n)
           \/ \E n \in Node, a \in net : a.type = "root" /\ ReceiveRoot(n, a)
           \/ \E n, m \in Node, i \in 1..MaxIndex : BeginRequest(n, m, i)
           \/ \E q \in signing : FinishRequest(q)
           \/ \E q \in net : q.type = "request" /\ CreateProofResponse(q)
           \/ \E n \in Node, r \in net : r.type = "response" /\ BeginResponse(n, r)
           \/ \E c \in verifying : RefuseResponse(c)
           \/ UNCHANGED vars
  BY <1>4, QuietStep
<1>. QED BY <1>1, <1>2, <1>3, <1>4, <1>5 DEF Next

LEMMA Invariance == Spec => []IInv
<1>1. IInv /\ [Next]_vars => IInv'
  BY Inductive
<1>. QED BY Initially, <1>1, PTL DEF Spec

-------------------------------------------------------------------------------
(* What an author keeps *)

\* Induction over the places of a log goes by the first place that is wrong.
LEMMA SmallestOne ==
  ASSUME NEW T, T \subseteq Nat, T # {}
  PROVE  \E x \in T : \A y \in T : x <= y
<1>1. PICK x \in T : \A y \in T : <<y, x>> \notin OpToRel(<, Nat)
  BY NatLessThanWellFounded, WFMin
<1>2. \A y \in T : ~(y < x)
  BY <1>1, Zenon DEF OpToRel
<1>. QED BY <1>2

\* A record carries as many items as there are records before it.
LEMMA Levels ==
  ASSUME NEW q \in Seq(Record), Chained(q)
  PROVE  \A i \in DOMAIN q : Len(q[i].prev) = i - 1
<1>. DEFINE Bad == {i \in DOMAIN q : Len(q[i].prev) # i - 1}
<1>0. DOMAIN q = 1..Len(q) /\ Len(q) \in Nat
  OBVIOUS
<1>. SUFFICES ASSUME Bad # {} PROVE FALSE
  OBVIOUS
<1>1. Bad \subseteq Nat
  BY <1>0
<1>. HIDE DEF Bad
<1>2. PICK i \in Bad : \A j \in Bad : i <= j
  BY <1>1, SmallestOne
<1>3. i \in 1..Len(q) /\ Len(q[i].prev) # i - 1
  BY <1>0 DEF Bad
<1>4. q[i].prev = IF i = 1 THEN <<>> ELSE Hash(q[i - 1])
  BY <1>0, <1>3 DEF Chained
<1>5. i # 1
  BY <1>3, <1>4
<1>6. i - 1 \in DOMAIN q /\ i - 1 \notin Bad
  BY <1>0, <1>2, <1>3, <1>5
<1>7. Len(q[i - 1].prev) = i - 2
  BY <1>0, <1>3, <1>6 DEF Bad
<1>8. q[i - 1] \in Record
  BY <1>6
<1>9. q[i - 1].prev \in Seq(Item) /\ q[i - 1].item \in Item
  BY <1>8 DEF Record
<1>10. Len(Hash(q[i - 1])) = i - 1
  BY <1>3, <1>7, <1>9 DEF Hash
<1>. QED BY <1>3, <1>4, <1>5, <1>10

\* The author of r has it in its log, as ns has the nodes, if it has a disk.
AtAuthor(r, ns) ==
  r.item.signer \in Durable => \E i \in DOMAIN ns[r.item.signer].log :
                                ns[r.item.signer].log[i] = r

\* A record that anyone holds, sends or verifies is in its author's log, if the author
\* has a disk.  A line of the author itself may have been written without the rest.
HeldInv ==
  /\ \A n \in Node : \A i \in DOMAIN nodes[n].log : AtAuthor(nodes[n].log[i], nodes)
  /\ \A n \in Node : \A i \in DOMAIN nodes[n].lines :
       nodes[n].lines[i].item.signer = n \/ AtAuthor(nodes[n].lines[i], nodes)
  /\ \A m \in net : m.type = "response" => AtAuthor(m.record, nodes)
  /\ \A c \in verifying : AtAuthor(c.response.record, nodes)

LEMMA AuthorsKeep ==
  ASSUME IInv, [Next]_vars
  PROVE  \A r : AtAuthor(r, nodes) => AtAuthor(r, nodes')
<1>. SUFFICES ASSUME NEW r, AtAuthor(r, nodes), r.item.signer \in Durable
             PROVE  \E i \in DOMAIN nodes'[r.item.signer].log :
                      nodes'[r.item.signer].log[i] = r
  BY DEF AtAuthor
<1>. DEFINE m == r.item.signer
<1>1. IInv' /\ Continues(nodes[m], nodes'[m]) /\ m \in Node
  BY Inductive, AuditAssumption DEF AuditAssumption
<1>2. nodes[m].log \in Seq(Record) /\ nodes'[m].log \in Seq(Record)
  BY <1>1 DEF IInv, AuditTypeOK
<1>3. PICK i \in DOMAIN nodes[m].log : nodes[m].log[i] = r
  BY DEF AtAuthor
<1>4. i \in DOMAIN nodes'[m].log /\ nodes'[m].log[i] = r
  BY <1>1, <1>2, <1>3 DEF Continues
<1>. QED BY <1>4

\* What a step has to show of the records that are new at a node n.
LEMMA HeldAfterWrite ==
  ASSUME IInv, HeldInv, [Next]_vars, NEW n \in Node, NEW t \in NodeState,
         nodes' = [nodes EXCEPT ![n] = t],
         \A i \in DOMAIN t.log : AtAuthor(t.log[i], nodes'),
         \A i \in DOMAIN t.lines :
           t.lines[i].item.signer = n \/ AtAuthor(t.lines[i], nodes'),
         net' = net, verifying' \subseteq verifying
  PROVE  HeldInv'
<1>1. /\ nodes'[n] = t /\ \A m \in Node \ {n} : nodes'[m] = nodes[m]
  BY DEF IInv, AuditTypeOK
<1>2. \A r : AtAuthor(r, nodes) => AtAuthor(r, nodes')
  BY AuthorsKeep
<1>3. ASSUME NEW m \in Node
      PROVE  /\ \A i \in DOMAIN nodes'[m].log : AtAuthor(nodes'[m].log[i], nodes')
             /\ \A i \in DOMAIN nodes'[m].lines :
                  nodes'[m].lines[i].item.signer = m \/ AtAuthor(nodes'[m].lines[i], nodes')
  BY <1>1, <1>2 DEF HeldInv
<1>4. /\ \A m \in net' : m.type = "response" => AtAuthor(m.record, nodes')
      /\ \A c \in verifying' : AtAuthor(c.response.record, nodes')
  BY <1>2 DEF HeldInv
<1>. QED BY <1>3, <1>4 DEF HeldInv

LEMMA HeldReceive ==
  ASSUME IInv, HeldInv, [Next]_vars, NEW n \in Node, NEW e \in Event, NEW ok \in BOOLEAN,
         NEW dies \in BOOLEAN, NEW f \in Faults(n), NEW g \in Faults(n),
         Receive(n, e, ok, f, g, dies)
  PROVE  HeldInv'
<1>. DEFINE s == nodes[n]
            t == Audited(n, s, e, ok, f, g)
<1>1. s \in NodeState /\ Chained(s.log) /\ e \notin s.seen
  BY DEF IInv, AuditTypeOK, NodeState, NodeInv, Receive
<1>2. Writes(n, s, t)
  BY <1>1, AuditedFacts
<1>3. /\ nodes' = [nodes EXCEPT ![n] = t] /\ net' = net
      /\ ProcessGone(n) \/ UNCHANGED verifying
  <2>. HIDE DEF t
  <2>. QED BY DEF Receive, t
<1>. HIDE DEF t
<1>4. verifying' \subseteq verifying
  BY <1>3 DEF ProcessGone
<1>5. nodes'[n] = t /\ t \in NodeState
  BY <1>2, <1>3 DEF IInv, AuditTypeOK, Writes
<1>6. ASSUME NEW i \in DOMAIN t.log PROVE AtAuthor(t.log[i], nodes')
  <2>1. CASE i \in DOMAIN s.log
    <3>1. t.log[i] = s.log[i]
      BY <1>2, <2>1 DEF Writes, Continues
    <3>. QED BY <2>1, <3>1, AuthorsKeep DEF HeldInv
  <2>2. CASE i \notin DOMAIN s.log
    <3>1. t.log[i].item.signer = n
      BY <1>2, <2>2 DEF Writes
    <3>. QED BY <1>5, <3>1 DEF AtAuthor
  <2>. QED BY <2>1, <2>2
<1>7. ASSUME NEW i \in DOMAIN t.lines
      PROVE  t.lines[i].item.signer = n \/ AtAuthor(t.lines[i], nodes')
  BY <1>2, AuthorsKeep DEF HeldInv, Writes
<1>. QED BY <1>3, <1>4, <1>5, <1>6, <1>7, HeldAfterWrite

LEMMA HeldFinishResponse ==
  ASSUME IInv, HeldInv, [Next]_vars, NEW c \in verifying, NEW dies \in BOOLEAN,
         NEW f \in Faults(c.node), FinishResponse(c, f, dies)
  PROVE  HeldInv'
<1>. DEFINE n == c.node
            s == nodes[n]
            r == c.response.record
            accepted == IF ProofFits(c) /\ c.pending.index = Len(s.log) + 1
                        THEN Replica(s, r) ELSE {}
            t == IF accepted = {} THEN s ELSE Written(n, s, CHOOSE x \in accepted : TRUE, f)
<1>1. n \in Node /\ r \in Record
  BY DEF IInv, AuditTypeOK, Call, Response
<1>2. s \in NodeState /\ Chained(s.log)
  BY <1>1 DEF IInv, AuditTypeOK, NodeState, NodeInv
<1>3. nodes' = [nodes EXCEPT ![n] = t] /\ net' = net /\ verifying' \subseteq verifying
  BY DEF FinishResponse, ProcessGone
<1>4. accepted = {} \/ (accepted = {r} /\ r.prev = Tip(s.log))
  BY DEF Replica
<1>5. t = s \/ (t = Written(n, s, r, f) /\ r.prev = Tip(s.log))
  <2>1. CASE accepted = {}
    BY <2>1
  <2>2. CASE accepted # {}
    BY <1>4, <2>2
  <2>. QED BY <2>1, <2>2
<1>. HIDE DEF t, accepted
<1>6. /\ t \in NodeState
      /\ \A i \in DOMAIN t.log : t.log[i] = r \/ (i \in DOMAIN s.log /\ t.log[i] = s.log[i])
      /\ \A i \in DOMAIN t.lines :
           t.lines[i] = r \/ (i \in DOMAIN s.lines /\ t.lines[i] = s.lines[i])
  <2>1. CASE t = s
    BY <1>2, <2>1
  <2>2. CASE t = Written(n, s, r, f) /\ r.prev = Tip(s.log)
    BY <1>1, <1>2, <2>2, WriteTyped, WriteChained DEF Continues
  <2>. QED BY <1>5, <2>1, <2>2
<1>7. AtAuthor(r, nodes')
  BY AuthorsKeep DEF HeldInv
<1>8. \A i \in DOMAIN t.log : AtAuthor(t.log[i], nodes')
  BY <1>1, <1>6, <1>7, AuthorsKeep DEF HeldInv
<1>9. \A i \in DOMAIN t.lines : t.lines[i].item.signer = n \/ AtAuthor(t.lines[i], nodes')
  BY <1>1, <1>6, <1>7, AuthorsKeep DEF HeldInv
<1>. QED BY <1>1, <1>3, <1>6, <1>8, <1>9, HeldAfterWrite

LEMMA HeldOpen ==
  ASSUME IInv, HeldInv, [Next]_vars, NEW n \in Node, Open(n)
  PROVE  HeldInv'
<1>. DEFINE s == nodes[n]
            t == [NewNode EXCEPT !.log = s.lines, !.lines = s.lines, !.tail = s.tail,
                            !.meta = s.meta]
<1>1. s \in NodeState
  BY DEF IInv, AuditTypeOK, NodeState
<1>2. t \in NodeState /\ t.log = s.lines /\ t.lines = s.lines
  BY <1>1 DEF NewNode, NodeState
<1>3. /\ nodes' = [nodes EXCEPT ![n] = t] \/ nodes' = nodes
      /\ net' = net /\ verifying' = verifying
  BY DEF Open
<1>. HIDE DEF t
<1>4. CASE nodes' = nodes
  BY <1>3, <1>4 DEF HeldInv
<1>5. CASE nodes' = [nodes EXCEPT ![n] = t]
  <2>1. nodes'[n] = t
    BY <1>5 DEF IInv, AuditTypeOK
  <2>2. ASSUME NEW i \in DOMAIN s.lines PROVE AtAuthor(s.lines[i], nodes')
    <3>1. CASE s.lines[i].item.signer = n
      BY <1>2, <2>1, <3>1 DEF AtAuthor
    <3>2. CASE s.lines[i].item.signer # n
      BY <3>2, AuthorsKeep DEF HeldInv
    <3>. QED BY <3>1, <3>2
  <2>. QED BY <1>2, <1>3, <1>5, <2>2, HeldAfterWrite
<1>. QED BY <1>3, <1>4, <1>5

LEMMA HeldStop ==
  ASSUME HeldInv, IInv, NEW n \in Node, Stop(n)
  PROVE  HeldInv'
<1>1. \A m \in Node : nodes'[m].log = nodes[m].log /\ nodes'[m].lines = nodes[m].lines
  BY DEF Stop, IInv, AuditTypeOK
<1>2. net' = net /\ verifying' = verifying
  BY DEF Stop
<1>3. \A r : AtAuthor(r, nodes) => AtAuthor(r, nodes')
  BY <1>1, AuditAssumption DEF AtAuthor, AuditAssumption
<1>. QED BY <1>1, <1>2, <1>3 DEF HeldInv

LEMMA HeldQuiet ==
  ASSUME HeldInv, nodes' = nodes,
         \A m \in net' : m.type = "response" => m \in net \/ AtAuthor(m.record, nodes),
         \A c \in verifying' : c \in verifying \/ AtAuthor(c.response.record, nodes)
  PROVE  HeldInv'
BY DEF HeldInv

LEMMA HeldInductive ==
  ASSUME IInv, HeldInv, [Next]_vars
  PROVE  HeldInv'
<1>0. \A n \in Node : nodes[n].log \in Seq(Record)
  BY DEF IInv, AuditTypeOK
<1>1. ASSUME NEW n \in Node, NEW e \in Event, NEW ok \in BOOLEAN, NEW dies \in BOOLEAN,
             NEW f \in Faults(n), NEW g \in Faults(n), Receive(n, e, ok, f, g, dies)
      PROVE  HeldInv'
  BY <1>1, HeldReceive
<1>2. ASSUME NEW n \in Node, Start(n) \/ Stop(n) \/ Exit(n) \/ Open(n) \/ AnnounceRoot(n)
      PROVE  HeldInv'
  <2>0. CASE Start(n)
    BY <2>0, HeldQuiet DEF Start
  <2>1. CASE Exit(n)
    BY <2>1, HeldQuiet DEF Exit, ProcessGone
  <2>4. CASE Stop(n)
    BY <2>4, HeldStop
  <2>2. CASE Open(n)
    BY <2>2, HeldOpen
  <2>3. CASE AnnounceRoot(n)
    <3>1. /\ nodes' = nodes /\ verifying' = verifying
          /\ net' = net \cup {[type |-> "root", from |-> n, root |-> nodes[n].log]}
      BY <2>3 DEF AnnounceRoot
    <3>. QED BY <3>1, HeldQuiet
  <2>. QED BY <1>2, <2>0, <2>1, <2>2, <2>3, <2>4
<1>3. ASSUME NEW n \in Node, NEW a \in net, ReceiveRoot(n, a) PROVE HeldInv'
  BY <1>3, HeldQuiet DEF ReceiveRoot
<1>4. ASSUME NEW n \in Node, NEW m \in Node, NEW i \in 1..MaxIndex, BeginRequest(n, m, i)
      PROVE  HeldInv'
  BY <1>4, HeldQuiet DEF BeginRequest
<1>5. ASSUME NEW q \in signing, FinishRequest(q) PROVE HeldInv'
  <2>1. q.type = "request"
    BY DEF IInv, AuditTypeOK, Request
  <2>2. nodes' = nodes /\ verifying' = verifying /\ net' = net \cup {q}
    BY <1>5 DEF FinishRequest
  <2>. QED BY <2>1, <2>2, HeldQuiet
<1>6. ASSUME NEW q \in net, q.type = "request", CreateProofResponse(q) PROVE HeldInv'
  <2>. DEFINE log == nodes[q.to].log
             r == [type |-> "response", from |-> q.to, record |-> log[q.index], root |-> log]
  <2>1. q.to \in Node
    BY <1>6 DEF IInv, AuditTypeOK, Announcement, Request, Response
  <2>2. /\ q.index \in DOMAIN log /\ nodes' = nodes /\ verifying' = verifying
        /\ net' = net \cup {r}
    BY <1>6 DEF CreateProofResponse
  <2>3. AtAuthor(r.record, nodes)
    BY <2>1, <2>2 DEF HeldInv
  <2>. HIDE DEF r
  <2>. QED BY <2>2, <2>3, HeldQuiet
<1>7. ASSUME NEW n \in Node, NEW r \in net, r.type = "response", BeginResponse(n, r)
      PROVE  HeldInv'
  <2>. DEFINE c == [node |-> n, pending |-> pending[n], response |-> r]
  <2>1. nodes' = nodes /\ net' = net /\ verifying' = verifying \cup {c}
    BY <1>7 DEF BeginResponse
  <2>2. AtAuthor(c.response.record, nodes)
    BY <1>7 DEF HeldInv
  <2>. HIDE DEF c
  <2>. QED BY <2>1, <2>2, HeldQuiet
<1>8. ASSUME NEW c \in verifying, RefuseResponse(c) PROVE HeldInv'
  BY <1>8, HeldQuiet DEF RefuseResponse
<1>9. ASSUME NEW c \in verifying, NEW dies \in BOOLEAN, NEW f \in Faults(c.node),
             FinishResponse(c, f, dies)
      PROVE  HeldInv'
  BY <1>9, HeldFinishResponse
<1>10. CASE UNCHANGED vars
  BY <1>10, HeldQuiet DEF vars
<1>. QED BY <1>1, <1>2, <1>3, <1>4, <1>5, <1>6, <1>7, <1>8, <1>9, <1>10 DEF Next

LEMMA SameAppend ==
  ASSUME NEW u \in Seq(Item), NEW v \in Seq(Item), NEW x \in Item, NEW y \in Item,
         Append(u, x) = Append(v, y)
  PROVE  u = v /\ x = y
<1>. DEFINE U == Append(u, x)
            V == Append(v, y)
<1>1. /\ Len(U) = Len(u) + 1 /\ Len(V) = Len(v) + 1
      /\ Len(u) \in Nat /\ Len(v) \in Nat
  OBVIOUS
<1>2. /\ \A i \in 1..Len(u) : U[i] = u[i]
      /\ \A i \in 1..Len(v) : V[i] = v[i]
      /\ U[Len(u) + 1] = x /\ V[Len(v) + 1] = y
  OBVIOUS
<1>3. U = V
  OBVIOUS
<1>. HIDE DEF U, V
<1>4. Len(u) = Len(v)
  BY <1>1, <1>3
<1>5. \A i \in 1..Len(u) : u[i] = v[i]
  BY <1>2, <1>3, <1>4
<1>6. u = v
  BY <1>4, <1>5, SeqEqual
<1>. QED BY <1>2, <1>3, <1>4, <1>6

LEMMA HashFixes ==
  ASSUME NEW r \in Record, NEW s \in Record, Hash(r) = Hash(s)
  PROVE  r = s
<1>1. /\ r.prev \in Seq(Item) /\ s.prev \in Seq(Item)
      /\ r.item \in Item /\ s.item \in Item
  BY DEF Record
<1>. DEFINE u == r.prev
            v == s.prev
            x == r.item
            y == s.item
<1>2. Append(u, x) = Append(v, y)
  BY DEF Hash
<1>. HIDE DEF u, v, x, y
<1>3. u \in Seq(Item) /\ v \in Seq(Item) /\ x \in Item /\ y \in Item
  BY <1>1 DEF u, v, x, y
<1>4. u = v /\ x = y
  BY <1>2, <1>3, SameAppend
<1>. QED BY <1>4 DEF u, v, x, y, Record

\* Records of two chains that are the same are at the same place of both.
LEMMA SamePlace ==
  ASSUME NEW p \in Seq(Record), NEW q \in Seq(Record), Chained(p), Chained(q),
         NEW i \in DOMAIN p, NEW j \in DOMAIN q, p[i].prev = q[j].prev
  PROVE  i = j
<1>1. Len(p[i].prev) = i - 1 /\ Len(q[j].prev) = j - 1
  BY Levels
<1>. QED BY <1>1

\* What comes before a record of a chain is in its hash.
LEMMA SameBefore ==
  ASSUME NEW p \in Seq(Record), NEW q \in Seq(Record), Chained(p), Chained(q),
         NEW i \in DOMAIN p, i \in DOMAIN q, p[i] = q[i]
  PROVE  \A k \in 1..i : p[k] = q[k]
<1>0. i \in Nat /\ DOMAIN p = 1..Len(p) /\ DOMAIN q = 1..Len(q)
      /\ i <= Len(p) /\ i <= Len(q) /\ Len(p) \in Nat /\ Len(q) \in Nat
  OBVIOUS
<1>. DEFINE Bad == {d \in 0..(i - 1) : p[i - d] # q[i - d]}
<1>1. Bad = {}
  <2>. SUFFICES ASSUME Bad # {} PROVE FALSE
    OBVIOUS
  <2>1. Bad \subseteq Nat
    BY <1>0
  <2>. HIDE DEF Bad
  <2>2. PICK d \in Bad : \A b \in Bad : d <= b
    BY <2>1, SmallestOne
  <2>3. d \in 0..(i - 1) /\ p[i - d] # q[i - d] /\ d - 1 \notin Bad
    BY <1>0, <2>2 DEF Bad
  <2>4. d # 0
    BY <1>0, <2>3
  <2>. DEFINE k == i - d
  <2>5. k \in 1..(i - 1) /\ k + 1 = i - (d - 1)
    BY <1>0, <2>3, <2>4
  <2>6. p[k + 1] = q[k + 1]
    BY <1>0, <2>3, <2>4, <2>5 DEF Bad
  <2>7. p[k] # q[k]
    BY <2>3
  <2>. HIDE DEF k
  <2>8. /\ k \in DOMAIN p /\ k \in DOMAIN q /\ k + 1 \in DOMAIN p /\ k + 1 \in DOMAIN q
        /\ k + 1 # 1 /\ (k + 1) - 1 = k
    BY <1>0, <2>5
  <2>9. p[k + 1].prev = Hash(p[k]) /\ q[k + 1].prev = Hash(q[k])
    BY <2>8 DEF Chained
  <2>10. p[k] \in Record /\ q[k] \in Record
    BY <2>8
  <2>11. Hash(p[k]) = Hash(q[k])
    BY <2>6, <2>9
  <2>12. p[k] = q[k]
    BY <2>10, <2>11, HashFixes
  <2>. QED BY <2>7, <2>12
<1>. HIDE DEF Bad
<1>2. ASSUME NEW k \in 1..i PROVE p[k] = q[k]
  <2>1. i - k \in 0..(i - 1) /\ i - (i - k) = k
    BY <1>0
  <2>. QED BY <1>1, <2>1 DEF Bad
<1>. QED BY <1>2

LEMMA HeldInvariance == Spec => [](IInv /\ HeldInv)
<1>1. Init => HeldInv
  BY DEF Init, HeldInv, NewNode
<1>2. IInv /\ HeldInv /\ [Next]_vars => IInv' /\ HeldInv'
  BY Inductive, HeldInductive
<1>. QED BY Initially, <1>1, <1>2, PTL DEF Spec

-------------------------------------------------------------------------------
(* Theorems *)

\* The types, whatever is cut, lost or repeated (AuditLog, DistributedSyncManager).
THEOREM AuditTypeCorrect == Spec => []AuditTypeOK
<1>1. IInv => AuditTypeOK
  BY DEF IInv
<1>. QED BY <1>1, Invariance, PTL

\* A log is one chain, of records that their signers chained themselves, and the author
\* of a record, if it has a disk, has the same one at the same place: replication over
\* messages in any order and restarts never forge a history or fork one (appendReplica).
THEOREM RecordsAreTheirs == Spec => []Provenance
<1>1. IInv /\ HeldInv => Provenance
  <2>. SUFFICES ASSUME IInv, HeldInv, NEW n \in Node, NEW i \in DOMAIN nodes[n].log,
                      nodes[n].log[i].item.signer \in Durable
               PROVE  /\ i \in DOMAIN nodes[nodes[n].log[i].item.signer].log
                      /\ nodes[nodes[n].log[i].item.signer].log[i] = nodes[n].log[i]
    BY DEF IInv, NodeInv, SourceInv, Sourced, Provenance
  <2>. DEFINE m == nodes[n].log[i].item.signer
  <2>1. PICK j \in DOMAIN nodes[m].log : nodes[m].log[j] = nodes[n].log[i]
    BY DEF HeldInv, AtAuthor
  <2>2. /\ nodes[n].log \in Seq(Record) /\ Chained(nodes[n].log)
        /\ nodes[m].log \in Seq(Record) /\ Chained(nodes[m].log)
    BY AuditAssumption DEF AuditAssumption, IInv, AuditTypeOK, NodeInv
  <2>3. i = j
    BY <2>1, <2>2, SamePlace
  <2>. QED BY <2>1, <2>3
<1>. QED BY <1>1, HeldInvariance, PTL

\* The replicas of an author with a disk never diverge (appendReplica).
THEOREM ReplicasMatch == Spec => []LogsMatch
<1>1. IInv /\ Provenance => LogsMatch
  <2>. SUFFICES ASSUME IInv, Provenance, NEW n \in Node, NEW m \in Node,
                      NEW i \in DOMAIN nodes[n].log, NEW j \in DOMAIN nodes[m].log,
                      nodes[n].log[i].item.signer = nodes[m].log[j].item.signer,
                      nodes[n].log[i].item.signer \in Durable, i <= j
               PROVE  \A k \in 1..i : nodes[n].log[k] = nodes[m].log[k]
    BY DEF LogsMatch
  <2>. DEFINE a == nodes[n].log[i].item.signer
  <2>1. /\ nodes[n].log \in Seq(Record) /\ Chained(nodes[n].log)
        /\ nodes[m].log \in Seq(Record) /\ Chained(nodes[m].log)
        /\ nodes[a].log \in Seq(Record) /\ Chained(nodes[a].log)
    BY AuditAssumption DEF AuditAssumption, IInv, AuditTypeOK, NodeInv
  <2>2. /\ i \in DOMAIN nodes[a].log /\ nodes[a].log[i] = nodes[n].log[i]
        /\ j \in DOMAIN nodes[a].log /\ nodes[a].log[j] = nodes[m].log[j]
    BY DEF Provenance
  <2>3. \A k \in 1..i : nodes[n].log[k] = nodes[a].log[k]
    BY <2>1, <2>2, SameBefore
  <2>4. \A k \in 1..j : nodes[m].log[k] = nodes[a].log[k]
    BY <2>1, <2>2, SameBefore
  <2>5. i \in Nat /\ j \in Nat
    <3>1. \A q \in Seq(Record) : \A k \in DOMAIN q : k \in Nat
      OBVIOUS
    <3>. QED BY <2>1, <3>1
  <2>6. \A k \in 1..i : k \in 1..j
    BY <2>5
  <2>. QED BY <2>3, <2>4, <2>6
<1>. QED BY <1>1, RecordsAreTheirs, Invariance, PTL

\* A log with a disk only grows, also over exits and writes that fail or are cut
\* (append, load).
THEOREM LogsOnlyGrow == Spec => HistoryKept
<1>1. IInv /\ [Next]_vars => [\A n \in Durable : IsPrefix(nodes[n].log, nodes'[n].log)]_vars
  <2>. SUFFICES ASSUME IInv, [Next]_vars, NEW n \in Durable
               PROVE  IsPrefix(nodes[n].log, nodes'[n].log)
    OBVIOUS
  <2>1. IInv' /\ Continues(nodes[n], nodes'[n])
    BY Inductive
  <2>2. nodes[n].log \in Seq(Record) /\ nodes'[n].log \in Seq(Record)
    BY <2>1, AuditAssumption DEF IInv, AuditTypeOK, AuditAssumption
  <2>. QED BY <2>1, <2>2, ContinuesPrefix DEF Continues
<1>. QED BY <1>1, Invariance, PTL DEF Spec, HistoryKept

\* A node none of whose writes was cut, within the line or between the line and the meta
\* file, opens, with what it had in memory: exits, stops, late answers and writes that
\* fail before they begin do not keep it from that (appendAuditRecord, loadAuditLog).
THEOREM UntornOpens == Spec => []OpensUnlessTorn
<1>1. IInv => OpensUnlessTorn
  <2>. SUFFICES ASSUME IInv, NEW n \in Durable \ torn
               PROVE  /\ status[n] # "refused"
                      /\ nodes[n].lines = nodes[n].log /\ Opens(nodes[n])
    BY DEF OpensUnlessTorn
  <2>1. nodes[n] \in NodeState /\ Chained(nodes[n].log)
    BY AuditAssumption DEF IInv, AuditTypeOK, NodeState, NodeInv, AuditAssumption
  <2>2. DiskEqual(nodes[n]) /\ status[n] # "refused"
    BY DEF IInv, NodeInv
  <2>. QED BY <2>1, <2>2, EqualOpens DEF DiskEqual
<1>. QED BY <1>1, Invariance, PTL

\* The registry gets an event at most once between two starts, and after the log has a
\* record of it (TrustSyncEngine.receive, stop).
THEOREM AppliedOnce == Spec => []AppliedOnceAudited
<1>1. IInv => AppliedOnceAudited
  BY DEF IInv, NodeInv, Marks, AppliedOnceAudited
<1>. QED BY <1>1, Invariance, PTL
===============================================================================
