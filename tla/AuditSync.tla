------------------------------- MODULE AuditSync -------------------------------
(***************************************************************************)
(* The trust audit log of the control plane and its replication: each node   *)
(* audits the trust events it receives (TrustSyncEngine), keeps the hash     *)
(* chain in memory and, with a cwd, as lines plus a meta file (AuditLog),    *)
(* and copies records of its peers one proof at a time                       *)
(* (DistributedSyncManager).                                                 *)
(*   nodes[n]    log: the chain in memory                                    *)
(*               lines, tail, meta: the two files on disk; tail is "ended",   *)
(*               "open": the last line lacks its newline, or "corrupt": some  *)
(*               line does not parse                                         *)
(*               seen, applied: seenEvents, and how often each event was     *)
(*               given to the registry since they were last cleared          *)
(*   status[n]   "stopped" or "started": the engine; "down": no process;     *)
(*               "refused": the constructor threw                            *)
(*   root[n][m]  states: the last root that n heard of m                     *)
(*   pending[n]  the one ProofRequest n waits for                            *)
(*   signing     requestProof in its awaits                                  *)
(*   verifying   receiveProofResponse in its await: the response, and the    *)
(*               pending request that it read before                         *)
(*   net         messages under way; they may be late, lost, duplicated and  *)
(*               reordered, so nothing is taken out                          *)
(* A record is its item and the items before it, which its hash covers; the  *)
(* Merkle root of a log stands for the log.  Who trusts whom, and in what    *)
(* domain, is fixed: a refusal for such a reason, a bad signature or age is  *)
(* a refusal at any time.                                                    *)
(***************************************************************************)
EXTENDS Integers, Sequences, SequencesExt

CONSTANTS
  Node, Event,
  Durable,       \* the nodes with a cwd (auditCwd)
  NoRequest,
  MaxWork,       \* bound: events, requests, stops, exits and failing writes, together
  MaxIndex       \* bound: the index they ask for

ASSUME AuditAssumption ==
  /\ Durable \subseteq Node
  /\ MaxWork \in Nat /\ MaxIndex \in Nat

Item == [event : Event, verified : BOOLEAN, signer : Node]
Record == [prev : Seq(Item), item : Item]

\* computeAuditRecordHash, without collisions
Hash(r) == Append(r.prev, r.item)

NoMeta == [total |-> 0, last |-> <<>>]
Meta == [total : Nat, last : Seq(Item)]

Announcement == [type : {"root"}, from : Node, root : Seq(Record)]
Request == [type : {"request"}, from : Node, to : Node, index : Nat \ {0},
            root : Seq(Record)]
\* proof: the record is a leaf of the tree with this root
Response == [type : {"response"}, from : Node, record : Record, root : Seq(Record)]
Call == [node : Node, pending : Request, response : Response]

VARIABLES
  nodes, status, root, pending, signing, verifying, net,
  wrote,    \* history: the records that each node chained itself
  torn,     \* history: nodes one of whose writes was cut halfway
  work      \* history: counted against the bound

vars == <<nodes, status, root, pending, signing, verifying, net, wrote, torn, work>>

-------------------------------------------------------------------------------
(* AuditLog *)

\* verifyChainInternal
Chained(log) ==
  \A i \in DOMAIN log : log[i].prev = IF i = 1 THEN <<>> ELSE Hash(log[i - 1])

\* The previousRecordHash that the next record of a log has to carry.
Tip(log) == IF log = <<>> THEN <<>> ELSE Hash(log[Len(log)])

\* Fault: the meta file counts the records before this one.
MetaOfBefore(s, r) == [total |-> Len(s.log), last |-> Hash(r)]

MetaOf(s, r) == [total |-> Len(s.log) + 1, last |-> Hash(r)]

\* Where a write ends early, by an error or with the process: before the line, within
\* it, before its newline, and before the meta file is replaced.
Faults(n) ==
  {"none"} \cup IF n \in Durable THEN {"line", "part", "unended", "meta"} ELSE {}

\* All but the first leave the two files behind each other, or a file that does not parse.
Torn == {"part", "unended", "meta"}

\* appendFileSync: a line that is cut, or glued to an open one, does not parse.
LineAppended(s, r, fault) ==
  IF fault = "line" THEN s
  ELSE IF fault = "part" \/ s.tail # "ended" THEN [s EXCEPT !.tail = "corrupt"]
  ELSE [s EXCEPT !.lines = Append(@, r),
                 !.tail = IF fault = "unended" THEN "open" ELSE "ended"]

\* Fault: memory first.
WrittenMemoryFirst(n, s, r, fault) ==
  LET memory == [s EXCEPT !.log = Append(@, r)]
  IN  IF n \notin Durable THEN memory
      ELSE LET t == LineAppended(memory, r, fault)
           IN  IF fault = "none" THEN [t EXCEPT !.meta = MetaOf(s, r)] ELSE t

\* Line, meta, memory, in this order.  A write that fails throws past the rest.
Written(n, s, r, fault) ==
  LET t == IF n \in Durable THEN LineAppended(s, r, fault) ELSE s
  IN  IF fault # "none" THEN t
      ELSE [t EXCEPT !.meta = IF n \in Durable THEN MetaOf(s, r) ELSE @,
                     !.log = Append(@, r)]

\* The record that auditEvent appends.
AuditRecord(n, s, e, verified) ==
  [prev |-> Tip(s.log), item |-> [event |-> e, verified |-> verified, signer |-> n]]

\* Fault: a replica is chained to whatever the local tip is.
ReplicaRechained(s, r) == {[r EXCEPT !.prev = Tip(s.log)]}

\* appendReplica: the record as it is, if it continues the local chain; none otherwise.
Replica(s, r) == {x \in {r} : x.prev = Tip(s.log)}

\* assertAuditMetaConsistent; a missing meta file is consistent with any log.
MetaConsistent(lines, meta) ==
  meta # NoMeta =>
    meta.total = Len(lines) /\ (lines # <<>> => meta.last = Hash(lines[Len(lines)]))

\* loadAuditLog: one line that does not parse, and the log is not read at all.
Loads(s) == s.tail # "corrupt"

Opens(s) == Loads(s) /\ MetaConsistent(s.lines, s.meta) /\ Chained(s.lines)

-------------------------------------------------------------------------------
(* Initial state and types *)

NewNode == [log |-> <<>>, lines |-> <<>>, tail |-> "ended", meta |-> NoMeta,
            seen |-> {}, applied |-> [e \in Event |-> 0]]

\* The types; an engine that is not started remembers no event.
AuditTypeOK ==
  /\ nodes \in [Node -> [log : Seq(Record), lines : Seq(Record),
                         tail : {"ended", "open", "corrupt"}, meta : Meta,
                         seen : SUBSET Event, applied : [Event -> Nat]]]
  /\ status \in [Node -> {"stopped", "started", "down", "refused"}]
  /\ root \in [Node -> [Node -> Seq(Record)]]
  /\ pending \in [Node -> Request \cup {NoRequest}]
  /\ signing \subseteq Request /\ verifying \subseteq Call
  /\ net \subseteq Announcement \cup Request \cup Response
  /\ wrote \in [Node -> SUBSET Record] /\ torn \subseteq Durable
  /\ work \in Nat
  /\ \A n \in Node : status[n] = "stopped" => nodes[n].seen = {}

Init ==
  /\ nodes = [n \in Node |-> NewNode]
  /\ status = [n \in Node |-> "stopped"]
  /\ root = [n \in Node |-> [m \in Node |-> <<>>]]
  /\ pending = [n \in Node |-> NoRequest]
  /\ signing = {} /\ verifying = {} /\ net = {}
  /\ wrote = [n \in Node |-> {}] /\ torn = {}
  /\ work = 0

-------------------------------------------------------------------------------
(* TrustSyncEngine *)

Spend(k) == work + k <= MaxWork /\ work' = work + k

\* There is a process, whether its engine is started or not.
Alive(n) == status[n] \in {"stopped", "started"}

\* The process is gone, and with it what it waited for; nodes[n] keeps what the memory
\* held at that moment.
ProcessGone(n) ==
  /\ status' = [status EXCEPT ![n] = "down"]
  /\ pending' = [pending EXCEPT ![n] = NoRequest]
  /\ signing' = {q \in signing : q.from # n}
  /\ verifying' = {c \in verifying : c.node # n}

Start(n) ==
  /\ status[n] = "stopped"
  /\ status' = [status EXCEPT ![n] = "started"]
  /\ UNCHANGED <<nodes, root, pending, signing, verifying, net, wrote, torn, work>>

\* Fault: the events of before are still seen.
StopKeepingSeen(n) ==
  /\ status[n] = "started"
  /\ Spend(1)
  /\ status' = [status EXCEPT ![n] = "stopped"]
  /\ UNCHANGED <<nodes, root, pending, signing, verifying, net, wrote, torn>>

\* stop: the log stays, and so does whatever DistributedSyncManager waits for.
Stop(n) ==
  /\ status[n] = "started"
  /\ Spend(1)
  /\ status' = [status EXCEPT ![n] = "stopped"]
  /\ nodes' = [nodes EXCEPT ![n].seen = {}, ![n].applied = [e \in Event |-> 0]]
  /\ UNCHANGED <<root, pending, signing, verifying, net, wrote, torn>>

\* seenEvents.add, then applyTrustEvent
Applied(s, e) == [s EXCEPT !.seen = @ \cup {e}, !.applied[e] = @ + 1]

\* Fault: applied first, audited once and for all.
AuditedAfter(n, s, e, ok, first, second) ==
  LET s1 == IF ok THEN Applied(s, e) ELSE s
      s2 == Written(n, s1, AuditRecord(n, s1, e, FALSE), first)
  IN  IF first # "none" THEN s2
      ELSE Written(n, s2, AuditRecord(n, s2, e, ok), second)

\* An event is audited as unverified; then it is dropped and audited so again, or it is
\* applied and audited as verified.  A write that fails throws past the rest.
Audited(n, s, e, ok, first, second) ==
  LET s1 == Written(n, s, AuditRecord(n, s, e, FALSE), first)
      s2 == IF ok THEN Applied(s1, e) ELSE s1
  IN  IF first # "none" THEN s1
      ELSE Written(n, s2, AuditRecord(n, s2, e, ok), second)

\* After an exception the process goes on, unless what failed the write ended it too.
Receive(n, e, ok, first, second, dies) ==
  LET s == Audited(n, nodes[n], e, ok, first, second)
      failed == {first, second} \ {"none"}
  IN  /\ status[n] = "started" /\ e \notin nodes[n].seen
      /\ first = "none" \/ second = "none"
      /\ dies => failed # {}
      /\ Spend(IF failed = {} THEN 1 ELSE 2)
      /\ nodes' = [nodes EXCEPT ![n] = s]
      /\ wrote' = [wrote EXCEPT ![n] = @ \cup
                     {r \in ToSet(s.log) \cup ToSet(s.lines) : r.item.signer = n}]
      /\ torn' = IF failed \cap Torn # {} THEN torn \cup {n} ELSE torn
      /\ IF dies THEN ProcessGone(n) ELSE UNCHANGED <<status, pending, signing, verifying>>
      /\ UNCHANGED <<root, net>>

\* The process ends between two calls, by itself or not.
Exit(n) ==
  /\ Alive(n)
  /\ Spend(1)
  /\ ProcessGone(n)
  /\ UNCHANGED <<nodes, root, net, wrote, torn>>

\* new TrustSyncEngine: new AuditLog reads the disk, if there is one, or throws.
Open(n) ==
  /\ status[n] = "down"
  /\ LET s == nodes[n]
         opens == n \in Durable => Opens(s)
     IN  /\ status' = [status EXCEPT ![n] = IF opens THEN "stopped" ELSE "refused"]
         /\ nodes' = IF opens
                     THEN [nodes EXCEPT ![n] = [NewNode EXCEPT !.log = s.lines,
                             !.lines = s.lines, !.tail = s.tail, !.meta = s.meta]]
                     ELSE nodes
         /\ root' = [root EXCEPT ![n] = [m \in Node |-> <<>>]]
  /\ UNCHANGED <<pending, signing, verifying, net, wrote, torn, work>>

-------------------------------------------------------------------------------
(* DistributedSyncManager, which does not ask whether the engine is started *)

AnnounceRoot(n) ==
  /\ Alive(n)
  /\ net' = net \cup {[type |-> "root", from |-> n, root |-> nodes[n].log]}
  /\ UNCHANGED <<nodes, status, root, pending, signing, verifying, wrote, torn, work>>

\* The last announcement that arrives counts, not the last one made.
ReceiveRoot(n, a) ==
  /\ Alive(n) /\ a.from # n
  /\ root' = [root EXCEPT ![n][a.from] = a.root]
  /\ UNCHANGED <<nodes, status, pending, signing, verifying, net, wrote, torn, work>>

\* requestProof up to its awaits.  Without an announcement the own root is expected.
BeginRequest(n, m, i) ==
  /\ Alive(n) /\ n # m
  /\ Spend(1)
  /\ signing' = signing \cup
       {[type |-> "request", from |-> n, to |-> m, index |-> i,
         root |-> IF root[n][m] # <<>> THEN root[n][m] ELSE nodes[n].log]}
  /\ UNCHANGED <<nodes, status, root, pending, verifying, net, wrote, torn>>

\* Whatever was pending is replaced.
FinishRequest(q) ==
  /\ signing' = signing \ {q}
  /\ pending' = [pending EXCEPT ![q.from] = q]
  /\ net' = net \cup {q}
  /\ UNCHANGED <<nodes, status, root, verifying, wrote, torn, work>>

\* createProofResponse: only for the log as it is when the request is verified.
CreateProofResponse(q) ==
  LET log == nodes[q.to].log
  IN  /\ Alive(q.to) /\ q.root = log /\ q.index \in DOMAIN log
      /\ net' = net \cup {[type |-> "response", from |-> q.to, record |-> log[q.index],
                            root |-> log]}
      /\ UNCHANGED <<nodes, status, root, pending, signing, verifying, wrote, torn, work>>

\* receiveProofResponse up to its await
BeginResponse(n, r) ==
  /\ Alive(n) /\ pending[n] # NoRequest /\ r.from = pending[n].to
  /\ verifying' = verifying \cup {[node |-> n, pending |-> pending[n], response |-> r]}
  /\ UNCHANGED <<nodes, status, root, pending, signing, net, wrote, torn, work>>

\* verifyMerkleProof, and the root that was asked for
ProofFits(c) ==
  /\ \E i \in DOMAIN c.response.root : c.response.root[i] = c.response.record
  /\ c.response.root = c.pending.root

\* Every end clears pending, a request made since then included.
FinishResponse(c, fault, dies) ==
  LET n == c.node
      s == nodes[n]
      accepted == IF ProofFits(c) /\ c.pending.index = Len(s.log) + 1
                  THEN Replica(s, c.response.record) ELSE {}
  IN  /\ fault # "none" => accepted # {}
      /\ dies => fault # "none"
      /\ Spend(IF fault = "none" THEN 0 ELSE 1)
      /\ nodes' = [nodes EXCEPT ![n] =
                     IF accepted = {} THEN s
                     ELSE Written(n, s, CHOOSE r \in accepted : TRUE, fault)]
      /\ torn' = IF fault \in Torn THEN torn \cup {n} ELSE torn
      /\ IF dies
         THEN ProcessGone(n)
         ELSE /\ pending' = [pending EXCEPT ![n] = NoRequest]
              /\ verifying' = verifying \ {c}
              /\ UNCHANGED <<status, signing>>
      /\ UNCHANGED <<root, net, wrote>>

\* A refusal: not trusted, wrong domain, bad signature, too old.
RefuseResponse(c) ==
  /\ verifying' = verifying \ {c}
  /\ pending' = [pending EXCEPT ![c.node] = NoRequest]
  /\ UNCHANGED <<nodes, status, root, signing, net, wrote, torn, work>>

Next ==
  \/ \E n \in Node, e \in Event, ok, dies \in BOOLEAN :
       \E first, second \in Faults(n) : Receive(n, e, ok, first, second, dies)
  \/ \E n \in Node : Start(n) \/ Stop(n) \/ Exit(n) \/ Open(n) \/ AnnounceRoot(n)
  \/ \E n \in Node, a \in net : a.type = "root" /\ ReceiveRoot(n, a)
  \/ \E n, m \in Node, i \in 1..MaxIndex : BeginRequest(n, m, i)
  \/ \E q \in signing : FinishRequest(q)
  \/ \E q \in net : q.type = "request" /\ CreateProofResponse(q)
  \/ \E n \in Node, r \in net : r.type = "response" /\ BeginResponse(n, r)
  \/ \E c \in verifying : RefuseResponse(c)
  \/ \E c \in verifying, dies \in BOOLEAN : \E fault \in Faults(c.node) :
       FinishResponse(c, fault, dies)

Spec == Init /\ [][Next]_vars

-------------------------------------------------------------------------------
(* Properties *)

\* Whatever answers arrive late, twice or for another request, a log is one chain, and
\* each record in it is one that its signer chained itself: a replica never holds a
\* history that its author did not write (appendReplica, receiveProofResponse).  An
\* author with a disk still has the record, at the same place, so that a log is the
\* author's own up to there: a restart never chains another record to the old tip.
Provenance ==
  \A n \in Node :
    LET log == nodes[n].log
    IN  (Alive(n) => Chained(log)) /\
        \A i \in DOMAIN log :
          LET author == log[i].item.signer
          IN  /\ log[i] \in wrote[author]
              /\ author \in Durable =>
                   i \in DOMAIN nodes[author].log /\ nodes[author].log[i] = log[i]

\* Two logs that both hold a record of an author with a disk are the same up to the
\* first of the two: the replicas of an author never diverge (appendReplica).
LogsMatch ==
  \A n, m \in Node :
    LET p == nodes[n].log
        q == nodes[m].log
    IN  \A i \in DOMAIN p, j \in DOMAIN q :
          p[i].item.signer = q[j].item.signer /\ p[i].item.signer \in Durable /\ i <= j =>
            \A k \in 1..i : p[k] = q[k]

\* A log only grows, also over a restart: a node with a disk opens with at least what
\* it held in memory, or not at all (the disk-first order of append, the meta check).
HistoryKept ==
  [][\A n \in Durable : IsPrefix(nodes[n].log, nodes'[n].log)]_vars

\* As long as no write was cut within the line or between the line and the meta file, the
\* disk holds just what the memory holds, and the node opens again: writes that fail
\* before they begin, exits, stops and late answers never make a log unreadable.
OpensUnlessTorn ==
  \A n \in Durable \ torn :
    status[n] # "refused" /\ nodes[n].lines = nodes[n].log /\ Opens(nodes[n])

\* However writes fail and events are redelivered, the registry is given an event once
\* between two starts, and never before a record of it is in the log (receive).
AppliedOnceAudited ==
  \A n \in Node, e \in Event :
    /\ nodes[n].applied[e] <= 1
    /\ nodes[n].applied[e] = 1 => \E i \in DOMAIN nodes[n].log : nodes[n].log[i].item.event = e
===============================================================================
