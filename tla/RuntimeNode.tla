------------------------------ MODULE RuntimeNode ------------------------------
(***************************************************************************)
(* The IRIS runtime nodes (src/src/runtime), each a process with           *)
(*   - a lifecycle (NodeLifecycle, IRISNodeRuntime.start / stop),          *)
(*   - an HTTP server that enqueues the bodies posted to it,               *)
(*   - a single-flight task queue (EventQueue) that runs one task at a     *)
(*     time and keeps it across its awaits,                                *)
(*   - an execution queue (ExecutionQueue): journal, recent decisions,     *)
(*   - on its disk, the journal directory and the snapshot file.           *)
(* A decision task is split at its awaits: append to the WAL, push in      *)
(* memory, write the snapshot and answer.  A process may exit between any  *)
(* two steps; the disk survives, the memory does not.                      *)
(*                                                                         *)
(* Who posts what is left open here: any caller may post any body at any   *)
(* time.  RuntimeCluster adds the gossip engine and the clients.           *)
(***************************************************************************)
EXTENDS DecisionJournal

CONSTANTS
  Node,
  Caller,       \* outstanding requests: one per gossip tick and per client
  home,         \* the node whose process makes the request, or Outside
  Outside,
  NoCaller,     \* the reply address of a task whose connection is gone
  NoCall,       \* a caller that has no request
  Idle,         \* the task queue runs no task
  StateSync,    \* the body of POST /state_sync
  RecentCap,    \* 64 in the code
  QueueBound,   \* model bound: waiting tasks per node
  MaxExits,     \* model bound: process exits, all nodes together
  MaxIoErrors   \* model bound: failed disk writes, all nodes together

Body == Decision \cup {StateSync}
Task == [body : Body, caller : Caller \cup {NoCaller}]
\* A decision task between two awaits: what its next await does.
Running == [entry : Entry, caller : Caller \cup {NoCaller},
            next : {"append", "push", "snapshot"}]
Call == [st : {"waiting", "ok", "error"}, node : Node, body : Body]

ASSUME RuntimeAssumption ==
  /\ home \in [Caller -> Node \cup {Outside}]
  /\ Outside \notin Node
  /\ NoCaller \notin Caller
  /\ StateSync \notin Decision
  /\ NoCall \notin Call
  /\ Idle \notin Running
  /\ RecentCap \in Nat \ {0}
  /\ QueueBound \in Nat
  /\ MaxExits \in Nat
  /\ MaxIoErrors \in Nat

VARIABLES
  life,       \* NodeLifecycle.state; "STOPPED" when there is no process
  files,      \* the journal directory
  snapshot,   \* the snapshot file: the journal it is the replay of
  journal,    \* ExecutionQueue.journal (journalIds is its set of ids)
  recent,     \* ExecutionQueue.recent
  clock,      \* the tick of the deterministic clock
  queue,      \* EventQueue.queue
  running,    \* the task EventQueue.drain awaits
  call,       \* the HTTP exchange of each caller
  exits, ioErrors

disk == <<files, snapshot>>
memory == <<journal, recent, clock>>
nodeVars == <<life, disk, memory, queue, running, call, exits, ioErrors>>

TypeOK ==
  /\ life \in [Node -> {"STOPPED", "STARTING", "RUNNING", "STOPPING"}]
  /\ files \in [Node -> Seq(Entry \cup {Corrupt})]
  /\ snapshot \in [Node -> SUBSET Entry]
  /\ journal \in [Node -> SUBSET Entry]
  /\ recent \in [Node -> Seq(Decision)]
  /\ clock \in [Node -> Nat]
  /\ queue \in [Node -> Seq(Task)]
  /\ running \in [Node -> Running \cup {Idle}]
  /\ call \in [Caller -> Call \cup {NoCall}]
  /\ exits \in 0 .. MaxExits
  /\ ioErrors \in 0 .. MaxIoErrors

NodeInit ==
  /\ life = [n \in Node |-> "STOPPED"]
  /\ files = [n \in Node |-> <<>>]
  /\ snapshot = [n \in Node |-> {}]
  /\ journal = [n \in Node |-> {}]
  /\ recent = [n \in Node |-> <<>>]
  /\ clock = [n \in Node |-> 0]
  /\ queue = [n \in Node |-> <<>>]
  /\ running = [n \in Node |-> Idle]
  /\ call = [c \in Caller |-> NoCall]
  /\ exits = 0
  /\ ioErrors = 0

--------------------------------------------------------------------------------
(* Lifecycle *)

\* beginStart, in a fresh process.
Launch(n) ==
  /\ life[n] = "STOPPED"
  /\ life' = [life EXCEPT ![n] = "STARTING"]
  /\ UNCHANGED <<disk, memory, queue, running, call, exits, ioErrors>>

\* Fault: recovery leaves the journal in memory empty.
FinishStartWithoutJournal(n) ==
  /\ life[n] = "STARTING"
  /\ life' = [life EXCEPT ![n] = "RUNNING"]
  /\ UNCHANGED <<disk, memory, queue, running, call, exits, ioErrors>>

\* Fault: recovery trusts the snapshot file.
FinishStartFromSnapshot(n) ==
  /\ life[n] = "STARTING"
  /\ journal' = [journal EXCEPT ![n] = snapshot[n]]
  /\ life' = [life EXCEPT ![n] = "RUNNING"]
  /\ UNCHANGED <<disk, recent, clock, queue, running, call, exits, ioErrors>>

\* Fault: recovery empties the journal directory once the snapshot is written.
FinishStartTruncating(n) ==
  /\ life[n] = "STARTING"
  /\ journal' = [journal EXCEPT ![n] = ReadJournal(files[n])]
  /\ snapshot' = [snapshot EXCEPT ![n] = ReadJournal(files[n])]
  /\ files' = [files EXCEPT ![n] = <<>>]
  /\ life' = [life EXCEPT ![n] = "RUNNING"]
  /\ UNCHANGED <<recent, clock, queue, running, call, exits, ioErrors>>

\* start after beginStart: recover reads the journal and rewrites the
\* snapshot, then the server listens, gossip starts and markRunning is called.
\* Neither `recent` nor the clock is recovered.
FinishStart(n) ==
  /\ life[n] = "STARTING"
  /\ journal' = [journal EXCEPT ![n] = ReadJournal(files[n])]
  /\ snapshot' = [snapshot EXCEPT ![n] = ReadJournal(files[n])]
  /\ life' = [life EXCEPT ![n] = "RUNNING"]
  /\ UNCHANGED <<files, recent, clock, queue, running, call, exits, ioErrors>>

\* beginStop: the server refuses new requests and waits for the open ones.
BeginStop(n) ==
  /\ life[n] = "RUNNING"
  /\ exits < MaxExits
  /\ exits' = exits + 1
  /\ life' = [life EXCEPT ![n] = "STOPPING"]
  /\ UNCHANGED <<disk, memory, queue, running, call, ioErrors>>

WaitsOn(c, n) == call[c] # NoCall /\ call[c].st = "waiting" /\ call[c].node = n

\* Tasks whose caller is gone keep running without a reply address.
Detach(t, gone) ==
  IF t.caller \in gone THEN [t EXCEPT !.caller = NoCaller] ELSE t

DetachQueue(q, gone) == [i \in DOMAIN q |-> Detach(q[i], gone)]

DetachRunning(r, gone) == IF r = Idle THEN Idle ELSE Detach(r, gone)

RequestsOf(n) == {c \in Caller : home[c] = n}

\* The process of n is gone: its memory, its queue and its own requests with
\* it.  The requests it was serving fail; the ones it was making lose their
\* reply address.
ProcessGone(n) ==
  /\ life' = [life EXCEPT ![n] = "STOPPED"]
  /\ journal' = [journal EXCEPT ![n] = {}]
  /\ recent' = [recent EXCEPT ![n] = <<>>]
  /\ clock' = [clock EXCEPT ![n] = 0]
  /\ queue' = [m \in Node |->
                 IF m = n THEN <<>> ELSE DetachQueue(queue[m], RequestsOf(n))]
  /\ running' = [m \in Node |->
                   IF m = n THEN Idle ELSE DetachRunning(running[m], RequestsOf(n))]
  /\ call' = [c \in Caller |->
                IF home[c] = n THEN NoCall
                ELSE IF WaitsOn(c, n) THEN [call[c] EXCEPT !.st = "error"]
                ELSE call[c]]
  /\ UNCHANGED <<disk, ioErrors>>

\* The process is killed, or start rejects and nobody handles it.
Crash(n) ==
  /\ life[n] # "STOPPED"
  /\ exits < MaxExits
  /\ exits' = exits + 1
  /\ ProcessGone(n)

\* httpServer.stop resolves once no request is open; then process.exit.
FinishStop(n) ==
  /\ life[n] = "STOPPING"
  /\ \A c \in Caller : ~WaitsOn(c, n)
  /\ exits' = exits
  /\ ProcessGone(n)

--------------------------------------------------------------------------------
(* HTTP *)

Free(c) == call[c] # NoCall => call[c].st # "waiting"

\* POST /decision or /state_sync: the handler enqueues a task and awaits it.
Post(c, n, b) ==
  /\ Free(c)
  /\ life[n] = "RUNNING"
  /\ Len(queue[n]) < QueueBound
  /\ queue' = [queue EXCEPT ![n] = Append(@, [body |-> b, caller |-> c])]
  /\ call' = [call EXCEPT ![c] = [st |-> "waiting", node |-> n, body |-> b]]
  /\ UNCHANGED <<life, disk, memory, running, exits, ioErrors>>

\* Connection refused, request lost, rate limit (429): no task is enqueued.
PostFails(c, n, b) ==
  /\ Free(c)
  /\ call' = [call EXCEPT ![c] = [st |-> "error", node |-> n, body |-> b]]
  /\ UNCHANGED <<life, disk, memory, queue, running, exits, ioErrors>>

\* The connection breaks before the answer: the task keeps running.
HangUp(c) ==
  /\ ~Free(c)
  /\ call' = [call EXCEPT ![c].st = "error"]
  /\ queue' = [n \in Node |-> DetachQueue(queue[n], {c})]
  /\ running' = [n \in Node |-> DetachRunning(running[n], {c})]
  /\ UNCHANGED <<life, disk, memory, exits, ioErrors>>

\* resolve() or reject(e) of a task of n: 202 or 400 to the caller, if any.
Answer(n, c, b, st) ==
  call' = IF c = NoCaller THEN call
          ELSE [call EXCEPT ![c] = [st |-> st, node |-> n, body |-> b]]

--------------------------------------------------------------------------------
(* The task queue and the execution queue *)

\* Fault: duplicates are recognised by content instead of by id.
KnownByContent(n, d) == \E e \in journal[n] : e.decision = d

Known(n, d) == idOf[d] \in IdsOf(journal[n])

\* A remote state is ignored; a decision already in the journal is accepted
\* without being executed again.
ResolveAtOnce(n) ==
  /\ running[n] = Idle
  /\ queue[n] # <<>>
  /\ \/ Head(queue[n]).body = StateSync
     \/ Head(queue[n]).body # StateSync /\ Known(n, Head(queue[n]).body)
  /\ queue' = [queue EXCEPT ![n] = Tail(@)]
  /\ Answer(n, Head(queue[n]).caller, Head(queue[n]).body, "ok")
  /\ UNCHANGED <<life, disk, memory, running, exits, ioErrors>>

\* Fault: the decision is pushed in memory first and appended afterwards.
BeginDecisionInMemory(n) ==
  /\ running[n] = Idle
  /\ queue[n] # <<>>
  /\ Head(queue[n]).body # StateSync
  /\ ~Known(n, Head(queue[n]).body)
  /\ clock' = [clock EXCEPT ![n] = @ + 1]
  /\ queue' = [queue EXCEPT ![n] = Tail(@)]
  /\ running' = [running EXCEPT ![n] =
                   [entry |-> [decision |-> Head(queue[n]).body,
                               ts |-> clock[n] + 1],
                    caller |-> Head(queue[n]).caller,
                    next |-> "push"]]
  /\ UNCHANGED <<life, disk, journal, recent, call, exits, ioErrors>>

\* Fault: the decision is offered to the peers before it is appended.
BeginDecisionGossipsEarly(n) ==
  /\ running[n] = Idle
  /\ queue[n] # <<>>
  /\ Head(queue[n]).body # StateSync
  /\ ~Known(n, Head(queue[n]).body)
  /\ clock' = [clock EXCEPT ![n] = @ + 1]
  /\ recent' = [recent EXCEPT ![n] = Append(@, Head(queue[n]).body)]
  /\ queue' = [queue EXCEPT ![n] = Tail(@)]
  /\ running' = [running EXCEPT ![n] =
                   [entry |-> [decision |-> Head(queue[n]).body,
                               ts |-> clock[n] + 1],
                    caller |-> Head(queue[n]).caller,
                    next |-> "append"]]
  /\ UNCHANGED <<life, disk, journal, call, exits, ioErrors>>

\* A new decision takes a clock tick and starts its append.
BeginDecision(n) ==
  /\ running[n] = Idle
  /\ queue[n] # <<>>
  /\ Head(queue[n]).body # StateSync
  /\ ~Known(n, Head(queue[n]).body)
  /\ clock' = [clock EXCEPT ![n] = @ + 1]
  /\ queue' = [queue EXCEPT ![n] = Tail(@)]
  /\ running' = [running EXCEPT ![n] =
                   [entry |-> [decision |-> Head(queue[n]).body,
                               ts |-> clock[n] + 1],
                    caller |-> Head(queue[n]).caller,
                    next |-> "append"]]
  /\ UNCHANGED <<life, disk, journal, recent, call, exits, ioErrors>>

InTask(n, step) == running[n] # Idle /\ running[n].next = step

\* appendDecision: the rename makes the entry durable.
AppendDecision(n) ==
  /\ InTask(n, "append")
  /\ files' = [files EXCEPT ![n] = AppendJournal(@, running[n].entry)]
  /\ running' = [running EXCEPT ![n].next = "push"]
  /\ UNCHANGED <<life, snapshot, memory, queue, call, exits, ioErrors>>

\* Fault: the journal in memory is read back from the disk.
PushDecisionFromDisk(n) ==
  /\ InTask(n, "push")
  /\ journal' = [journal EXCEPT ![n] = ReadJournal(files[n])]
  /\ recent' = [recent EXCEPT ![n] =
                  LET r == Append(@, running[n].entry.decision)
                  IN  IF Len(r) > RecentCap THEN Tail(r) ELSE r]
  /\ running' = [running EXCEPT ![n].next = "snapshot"]
  /\ UNCHANGED <<life, disk, clock, queue, call, exits, ioErrors>>

\* Fault: `recent` receives the stored entry instead of its decision.
PushDecisionStored(n) ==
  /\ InTask(n, "push")
  /\ journal' = [journal EXCEPT ![n] = @ \cup {running[n].entry}]
  /\ recent' = [recent EXCEPT ![n] = <<running[n].entry>>]
  /\ running' = [running EXCEPT ![n].next = "snapshot"]
  /\ UNCHANGED <<life, disk, clock, queue, call, exits, ioErrors>>

\* Fault: the list of recent decisions holds one less than it may.
PushDecisionTrimmingEarly(n) ==
  /\ InTask(n, "push")
  /\ journal' = [journal EXCEPT ![n] = @ \cup {running[n].entry}]
  /\ recent' = [recent EXCEPT ![n] =
                  LET r == Append(@, running[n].entry.decision)
                  IN  IF Len(r) >= RecentCap THEN Tail(r) ELSE r]
  /\ running' = [running EXCEPT ![n].next = "snapshot"]
  /\ UNCHANGED <<life, disk, clock, queue, call, exits, ioErrors>>

\* The appended entry enters the journal and the bounded list of recent ones;
\* the cluster state becomes the replay of the journal.
PushDecision(n) ==
  /\ InTask(n, "push")
  /\ journal' = [journal EXCEPT ![n] = @ \cup {running[n].entry}]
  /\ recent' = [recent EXCEPT ![n] =
                  LET r == Append(@, running[n].entry.decision)
                  IN  IF Len(r) > RecentCap THEN Tail(r) ELSE r]
  /\ running' = [running EXCEPT ![n].next = "snapshot"]
  /\ UNCHANGED <<life, disk, clock, queue, call, exits, ioErrors>>

EndTask(n, st) ==
  /\ running' = [running EXCEPT ![n] = Idle]
  /\ Answer(n, running[n].caller, running[n].entry.decision, st)

\* writeSnapshot, then the task resolves.
WriteSnapshot(n) ==
  /\ InTask(n, "snapshot")
  /\ snapshot' = [snapshot EXCEPT ![n] = journal[n]]
  /\ EndTask(n, "ok")
  /\ UNCHANGED <<life, files, memory, queue, exits, ioErrors>>

\* Fault: the error of a write is swallowed and the task resolves.
WriteFailsSilently(n) ==
  /\ InTask(n, "append") \/ InTask(n, "snapshot")
  /\ ioErrors < MaxIoErrors
  /\ ioErrors' = ioErrors + 1
  /\ EndTask(n, "ok")
  /\ UNCHANGED <<life, disk, memory, queue, exits>>

\* Fault: a rejected task leaves its caller without an answer.
WriteFailsUnanswered(n) ==
  /\ InTask(n, "append") \/ InTask(n, "snapshot")
  /\ ioErrors < MaxIoErrors
  /\ ioErrors' = ioErrors + 1
  /\ running' = [running EXCEPT ![n] = Idle]
  /\ UNCHANGED <<life, disk, memory, queue, call, exits>>

\* Fault: the id of a decision whose write failed stays known.
WriteFailsKeepingId(n) ==
  /\ InTask(n, "append") \/ InTask(n, "snapshot")
  /\ ioErrors < MaxIoErrors
  /\ ioErrors' = ioErrors + 1
  /\ journal' = [journal EXCEPT ![n] = @ \cup {running[n].entry}]
  /\ EndTask(n, "error")
  /\ UNCHANGED <<life, disk, recent, clock, queue, exits>>

\* A write that throws rejects the task: before the rename the journal is as
\* it was, after it the decision stays executed.
WriteFails(n) ==
  /\ InTask(n, "append") \/ InTask(n, "snapshot")
  /\ ioErrors < MaxIoErrors
  /\ ioErrors' = ioErrors + 1
  /\ EndTask(n, "error")
  /\ UNCHANGED <<life, disk, memory, queue, exits>>

--------------------------------------------------------------------------------

Internal(n) ==
  \/ ResolveAtOnce(n)
  \/ BeginDecision(n)
  \/ AppendDecision(n)
  \/ PushDecision(n)
  \/ WriteSnapshot(n)

NodeStep(n) ==
  \/ Launch(n)
  \/ FinishStart(n)
  \/ BeginStop(n)
  \/ FinishStop(n)
  \/ Crash(n)
  \/ Internal(n)
  \/ WriteFails(n)

NodeNext ==
  \/ \E n \in Node : NodeStep(n)
  \/ \E c \in Caller, n \in Node, b \in Body : Post(c, n, b) \/ PostFails(c, n, b)
  \/ \E c \in Caller : HangUp(c)

NodeSpec == NodeInit /\ [][NodeNext]_nodeVars

--------------------------------------------------------------------------------
(* Properties *)

\* What the next start would recover.
Durable(n) == ReadJournal(files[n])

Appended(n) == IF InTask(n, "push") THEN {running[n].entry} ELSE {}

\* A live node knows exactly the decisions of its journal directory, up to the
\* one whose append has just returned: nothing lives in memory only, and a
\* restart at any point forgets nothing (recover, submitDecision).
MemoryMatchesDisk ==
  \A n \in Node : life[n] \in {"RUNNING", "STOPPING"} =>
    Durable(n) = journal[n] \cup Appended(n)

\* The snapshot never contains a decision the journal could not replay: the
\* WAL is written first (submitDecision, recover).
SnapshotNeverAhead == \A n \in Node : snapshot[n] \subseteq Durable(n)

\* Every file of the directory is one that recovery keeps: a decision id is
\* stored once, however often and in whichever content it was posted, so the
\* number of entries read is the number of files (submitDecision, readJournal).
EveryFileCounts == \A n \in Node : ReadableFiles(files[n]) = DOMAIN files[n]

\* 202 means the decision is in the journal of the node that said so, and it
\* stays there through every later restart (POST /decision, submitDecision).
AcceptedIsDurable ==
  \A c \in Caller :
    call[c] # NoCall /\ call[c].st = "ok" /\ call[c].body # StateSync =>
      idOf[call[c].body] \in IdsOf(Durable(call[c].node))

\* A node only offers its peers decisions it could replay after a crash, in
\* the content it stored (recentDecisions).
GossipsOnlyDurable ==
  \A n \in Node : \A i \in DOMAIN recent[n] :
    \E e \in Durable(n) : e.decision = recent[n][i]

\* No step, an exit included, removes or rewrites an entry of a journal.
JournalAppendOnly ==
  [][\A n \in Node : Durable(n) \subseteq Durable(n)']_nodeVars

\* Where the tasks of a caller are on node n: 0 stands for the task that runs,
\* i for the i-th that waits.
PlacesOf(c, n) ==
  {i \in DOMAIN queue[n] : queue[n][i].caller = c} \cup
  {i \in {0} : running[n] # Idle /\ running[n].caller = c}

BodyAt(n, i) ==
  IF i = 0 THEN running[n].entry.decision ELSE queue[n][i].body

\* A request that is still open has exactly one task that will answer it, with
\* the body that was posted and on the node it was posted to; a request that has
\* ended has none, so no late answer can meet the next request of its caller
\* (POST /decision, EventQueue.enqueue, EventQueue.drain, httpServer.stop).
OneTaskPerCall ==
  \A c \in Caller, n \in Node :
    IF WaitsOn(c, n)
    THEN \E i \in 0 .. Len(queue[n]) :
           PlacesOf(c, n) = {i} /\ BodyAt(n, i) = call[c].body
    ELSE PlacesOf(c, n) = {}

\* The tasks of a node run one at a time in the order they were posted: while a
\* request waits, no step puts its task further back, so none overtakes it
\* (EventQueue.drain).
TasksInOrder ==
  [][\A c \in Caller, n \in Node : WaitsOn(c, n) /\ WaitsOn(c, n)' =>
       \E i \in PlacesOf(c, n) : \E j \in PlacesOf(c, n)' : j <= i]_nodeVars

\* Every request is answered or fails: no task is left behind by the queue,
\* whatever fails before it (EventQueue.drain, submitDecision).
EveryCallEnds == \A c \in Caller : ~Free(c) ~> Free(c)

\* A stop that has begun finishes (IRISNodeRuntime.stop).
EveryStopEnds ==
  \A n \in Node : life[n] = "STOPPING" ~> life[n] = "STOPPED"
================================================================================
