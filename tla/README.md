# IRIS runtime: TLA+ models, checks and proofs

The repository holds several products (a distributed compliance runtime, a
messaging API, a simulator, a Flutter client). This project verifies the parts
whose correctness depends on interleavings, crashes, lost messages and the order
of events:

- the **runtime node** of `src/src/runtime` and the **cluster** such nodes form;
- the **cluster lifecycle** of `src/src/distributed`, the deterministic layer that
  turns lifecycle events into a cluster state and a compliance action;
- the synchronisation protocols of the second network stack, `src/iris-sim`:
  **CRDT replication** over gossip, **rekeying** of the secure transport, and the
  **audit log** with its proof exchange.

## 1. The system

### The runtime (modelled)

| Part | State | Operations | What makes it correct |
|---|---|---|---|
| Decision journal, `persistence/file_store.ts`, `storage_engine.ts`, `atomic_writer.ts` | `state/journal/<number>.json`, one stored decision per file; `state/runtime_snapshot.json` | `appendJournal`, `readJournal`, `writeSnapshot`, each through an atomic tmp + rename | an entry once written is never lost, rewritten or duplicated; the snapshot is never ahead of the journal |
| Execution queue, `queue/execution_queue.ts`, `queue/event_queue.ts`, `clock/deterministic_clock.ts` | task FIFO, `running`, `journal`, `journalIds`, `recent` (64), state, clock tick | `recover`, `submitDecision`, `mergeRemoteState`, `drain` | memory and disk agree at every await and after every restart; a decision id is executed once; every task ends |
| Lifecycle, `node_lifecycle.ts`, `node_runtime.ts` | STOPPED / STARTING / RUNNING / STOPPING | `start`, `stop`, signals, process exit | a stop finishes; an exit at any point is recoverable |
| HTTP, `network/http_server.ts`, `network/http_client.ts` | open requests; attempt number | `POST /decision`, `POST /state_sync`, `postWithRetry` | a 202 is a durable promise; retries do no harm |
| Gossip, `gossip/gossip_engine.ts`, `gossip/peer_manager.ts` | timer, peer index, copy of `recent` per tick | `start`, `stop`, `tick`, `nextPeer` | only durable decisions travel; what a node keeps offering arrives |
| Supervision and scripts, `ops/node_supervisor.ts`, `scripts/runtime_crash_test_v2.ts` | child handle | restart after a crash; reconciliation | a restarted cluster converges |

How they interact: a client or a peer's gossip tick posts a body; the HTTP
handler enqueues a task and awaits it; the single-flight `EventQueue` runs the
task, which appends to the WAL, pushes the entry in memory, writes the
snapshot and resolves; the handler answers 202 (400 if the task rejected). A
timer starts a gossip tick every interval, whether or not the previous one has
ended: it copies the recent decisions and sends them to the next peer one
after the other, each with up to `maxRetryAttempts` attempts, then the state,
which peers ignore (`execution_queue.ts:96`).

Hard behaviours: a task is suspended at three awaits, and requests, ticks,
exits and write errors fall between them; requests are lost, duplicated and
retried; several ticks of a node overlap; the memory of a process is lost while
its disk survives and `recent` is never recovered; a file may stop parsing.

### The cluster lifecycle (modelled)

| Part | State | Operations | What makes it correct |
|---|---|---|---|
| Lifecycle engine, `distributed/cluster_lifecycle_engine.ts`, `logical_time.ts` | the `ClusterState`: phase, clock and last event of each node, phase and clock of the cluster | `applyLifecycleEvent`, `evaluateClusterState` | illegal transitions are refused, the clock dominates, those who accepted the same events agree |
| Phase barriers, `phase_barrier_engine.ts` | `violations` | `evaluateBarrierTransition`, strict or permissive | a phase the nodes do not justify is never reported |
| Cluster invariants, `cluster_invariant_engine.ts` | none (recomputed) | five invariants and their aggregate | feed the policies |
| Compliance engine, `cluster_compliance_engine.ts` | `complianceDecision` | six policies, the strongest wins | "Cluster FAILED must halt" |
| Executor, `cluster_compliance_executor.ts` | `executionJournal`, `executedActions`, locks and marks | `executeCore` | each decision is executed once; the journal says what was done |

All of it is pure: a caller holds a `ClusterState`, passes it to
`applyLifecycleEvent` with an event and options, and gets a new state or an
exception. One call evaluates the state it got (derive the phase, apply the
barriers, validate, evaluate invariants and policies, execute the decision),
checks the event against the result, changes the node, and evaluates again.

Hard behaviours: events arrive late, twice, out of order or not at all; the
validation refuses legal events while other nodes are still starting, so a holder
has gaps in its history; an executed decision is not executed again; barriers and
the halt rewrite a phase that was derived before; callers mix options.

### The synchronisation protocols of `iris-sim` (modelled in part)

| Part | State | Operations | What makes it correct |
|---|---|---|---|
| CRDT engine and bridge, `state/crdt` | clock, applied operations, register and set; ids the bridge has received | `createOperation`, `applyOperation`, `receiveCRDTOperation` | nodes with the same operations agree; a node reads its own writes |
| Gossip, `network/gossip` | counters, seen messages, the hop of each message | `broadcast`, `receive`, `forward` | bounded amplification; nothing arrives twice with an effect |
| Wiring, `sdk/iris_node.ts` | the registry of running nodes, peers (on disk), the components | start, stop, `connectRuntimePeer`, `applyCRDTOperation` | running nodes know each other; what one writes the others show |
| Secure connection, `network/secure_transport/secure_connection.ts`, `session_control_plane.ts` | two states, keys and epoch, the pending request | `send`, `requestRekey`, `handleIncomingEncrypted`, timeouts, `close` | both ends stay within one switch of each other; every frame can be read; a rekey ends |
| Audit log, `control_plane/audit_log.ts` and its helpers | the hash chain in memory, as lines and as a meta file | `append`, `appendReplica`, opening | a chain; the disk never behind the memory |
| Distributed sync, `distributed_sync.ts`, `trust_sync_engine.ts` | the last root of each peer, one pending request; started, seen events | `start`, `stop`, `receive`, `announceRoot`, `receiveRoot`, `requestProof`, `createProofResponse`, `receiveProofResponse` | a log holds only what its signers wrote; an event is applied once |

How they interact: `IrisNode` gives its gossip engine a `sendToPeer` that calls the
other node directly, so an operation runs through all nodes before
`applyCRDTOperation` returns; the engine itself, and its tests, allow any
transport. The server of the secure transport joins the two ends of a session in
the same way. The proof exchange is a library: the application carries its messages.

Hard behaviours: two starts overlap at an await; copies of a message take several
paths and fall under caches, limits and budgets; clocks restart at 0; requests for
a new key cross on the wire while data is under way under three keys; a send is
suspended while the key changes; an answer is verified across an await while the log
grows and another request becomes pending; a line is written in part, or its
meta file not; the engine stops while an answer is in its await.

### The rest of the repository (not modelled yet, or not at all)

| Part | Why it matters / why not |
|---|---|
| Replay (`replayDeterministically`, `runtime/execution`) | the state of a node is its replay over the journal; pure; next step |
| Decision lattice, conflict merge (`distributed/conflict`) | algebraic claims (commutative, associative, idempotent); next step |
| Event model, causal graph, merge algebra, state engine, simulated network (`distributed/*`) | causal order and convergence over small graphs; step 5 of the plan |
| Node supervisor | child handle against exit events; next step |
| Message codec, byzantine metrics, byzantine node, retry queue | pure validation, counters, test double, unused class |
| `runtime/config`, `startup`, `shutdown`, `threads`, `featureFlags` | belong to the messaging API server |
| Logging, index and audit; SDK | a hash-chained index over rotated archives; replay and export over it |
| Messaging API (`api`, `app`, `persistence`), read platform, core execution and plugins | the messaging product: handlers over a store, in-process registries, a projection runner with retries |
| `iris`, `product`, `semantic-layer`, `messaging-system`, `infra`, `architecture`, `platform`, `observability`, `phase-*` | stateless pipelines, rules and presentation |
| `iris-sim` handshake, server and client sessions; node consensus; federation and keys | the handshake is a straight exchange of two messages; the others are pure checks and tables |
| `iris-sim` simulation, governance, the rest of the SDK; `flutter_app`, `ui`, `demo` | numeric simulation, reports; user interface |

## 2. The modules

| Module | Role |
|---|---|
| `DecisionJournal` | the journal directory as a sequence of files; reading and appending as functions of it |
| `RuntimeNode` | the processes: lifecycle, HTTP, task queue, execution queue, disk |
| `JournalBitRot` | `RuntimeNode` on a disk that damages files |
| `ReplicatedJournal` | abstract: what the cluster promises its clients |
| `RuntimeCluster` | `RuntimeNode` composed with gossip, retries, clients; refines `ReplicatedJournal` |
| `ClusterEvaluation` | the pure functions of the lifecycle, as operators on a cluster state |
| `ClusterLifecycle` | replicas of the cluster state and the nodes whose events they receive |
| `CrdtEngine` | clock, register, set and engine, as functions of a replica |
| `CrdtRuntime` | the nodes with gossip, bridge and engine: starts, peering, operations, copies |
| `SessionKeys` | abstract: what a rekey promises the two ends of a session |
| `SecureConnection` | the two ends of a session: data, rekeying, timeouts, closes; refines `SessionKeys` |
| `AuditSync` | audit logs in memory and on disk, trust events, the proof exchange |
| `DecisionJournalProofs`, `RuntimeNodeProofs`, `JournalBitRotProofs`, `RuntimeClusterProofs`, `ClusterLifecycleProofs`, `CrdtRuntimeProofs`, `AuditSyncProofs`, `SecureConnectionProofs` | the theorems |
| `MCRuntimeNode`, `MCJournalBitRot`, `MCRuntimeCluster`, `MCClusterLifecycle`, `MCCrdtRuntime`, `MCSecureConnection`, `MCAuditSync` | the small instances TLC checks |

### DecisionJournal

`Entry` is `StoredDecision`. The id is a function `idOf` of the decision, and
two decisions may share an id, because `deriveComplianceDecisionId` does not
cover the violation count (`cluster_compliance_executor.ts:59-69`).
`ReadableFiles` are the files `readJournal` keeps (those that parse, the first
of each id), `ReadJournal` the entries as a set: every reader sorts them by id,
so their order is not observable. `AppendJournal` numbers the file after the
entries it could *read*, as the code does; `WriteFile` is the rename, which
replaces a file that exists. Temporary files are not read and not modelled.

### RuntimeNode

One set of variables per node. `life`, `files`, `snapshot`, `journal`,
`recent`, `queue` carry the names of the code; `running` is the task
`EventQueue.drain` awaits, with the await it is suspended at:

| Action | Code |
|---|---|
| `Launch`, `FinishStart` | `beginStart`; `recover`, listen, gossip, `markRunning` |
| `BeginStop`, `FinishStop` | `beginStop`; the server has closed, `process.exit` |
| `Crash` | the process is killed or ends by an unhandled rejection, at any point, while starting or stopping too |
| `Post`, `PostFails`, `HangUp` | the handler enqueues a task; the request is refused, lost, rate-limited or does not decode; the connection breaks while the task runs on |
| `ResolveAtOnce` | a state sync, or a decision whose id is in the journal |
| `BeginDecision`, `AppendDecision`, `PushDecision`, `WriteSnapshot` | the parts of `submitDecision` between its awaits |
| `WriteFails` | the append or the snapshot throws; the task rejects |

Actions of one node touch the others only through `call` (requests in flight)
and the reply addresses of tasks. `ProcessGone` is what an exit does to both.
The replay of the journal is abstracted to the journal: the state of a node is
a function of the set of stored decisions, so `snapshot` is that set.

### RuntimeCluster

`Caller` is split into gossip ticks and clients. A tick (`tick[t]`, owned by
`home[t]`) holds its peer, the bodies left to send, the attempt number and
whether a request is in flight. Each of its sends is `Deliver` or `Lose`, a
`Post` or `PostFails` of `RuntimeNode`; `AttemptSucceeds` and `AttemptFails` are
the two ends of an iteration of `postWithRetry`. `ProcessStep` is a step of a
process; one that is gone takes its ticks and its peer index with it.
`proposed` is a history variable for the refinement.

### ReplicatedJournal

Each node holds a set of decisions. A step adds to `proposed`, or stores at one
node one proposed decision whose id the node does not have. Nothing is ever
removed. The mapping: `stored[n]` is what the next start of `n` would recover
from its disk.

### ClusterEvaluation and ClusterLifecycle

A cluster state is a record. `nodes` maps the known nodes to their phase, time and
last event; `phase`, `time`, `violations`, `decision`, `executed`, `journal` are
`globalPhase`, `logicalTime` and so on; `marks` is the set of the flags
`applyAction` sets; `attested` says that there is an `invariantContextHash`;
`expected` is `expectedNodeIds`. A logical time is a counter and a node id, ordered
by `rank`, the order of `localeCompare`. A function that throws is split in two:
`CanEvaluate` and `CanApply` say when `Evaluate` and `Apply` return.

| Definition | Code |
|---|---|
| `Normalize`, `EnforceBarrier`, `ValidCluster` | the first half of `evaluateClusterState` |
| `OverallCompliance`, `EvaluateCompliance`, `Execute` | the second half: invariants, policies, `executeCore` |
| `Evaluate`, `Apply` | `evaluateClusterState`, `applyLifecycleEvent`, whole |
| `EventAccepted`, `WithEvent` | the checks of an event; the state with it, before the second evaluation |
| `Deliver(r, e, o)`, `Reevaluate(r, o)` | replica `r` calls one of the two with options `o` |
| `ChangePhase`, `ReportFailure`, `ReportRecovery` | external: a node emits its next event |

The nodes follow the allowed transitions and number their events, as the helper
`ev` of `tests/distributed/cluster_lifecycle_engine.test.ts:24-39` does. Any
emitted event may be delivered to any replica at any time and as often as one
likes. A call that throws leaves the replica as it was, and is no step. `applied`
is a history variable for the statement of agreement.

`evaluateClusterState` calls the executor with the decision the cluster already
carries, so `resolveComplianceConflict` resolves it with itself; the model takes
the decision. Left out: what every evaluation recomputes (`invariants`,
`overallCompliance`, `executionMetadata`), texts, and `executionTimestamp`, which
only relabels records.

### CrdtEngine and CrdtRuntime

An operation stands for its id, a hash of all its fields. A replica is a record of
clock, applied operations, register and set. `Before` is `compareLogicalTimestamp`;
node ids are numbers in their order as strings.

| Action | Code |
|---|---|
| `Join`, `Ready` | `initializeRuntimeConvergence` up to its return, which registers the node and its peers; the assignment of `runtimeComponents` after the await |
| `Stop`, `Connect` | the `finally` of `stop`; `connectRuntimePeer` |
| `ApplySet`, `ApplyAdd`, `ApplyRemove` | `applyCRDTOperation`: create, receive at the own bridge, broadcast |
| `Republish` | `publishCRDTOperation` of an operation from the log, as a delta sync would |
| `Accept`, `Refuse`, `Ignore` | `GossipEngine.receive` to its end with apply and forward; its early returns; a node without components, or a copy the sender's limit blocks |
| `Expire` | a minute passes and the caches are emptied |

`SyncWire` says which transport the engine has. With a queue, `forward` decides at
once which copies leave within the anti-amplification budget. With the calls of
`IrisNode`, the loop of `forward` asks again before every peer, so a copy in `wire`
is one whose turn is still to come, and the check is made when it is taken; no other
call of the API starts before `wire` is empty. The order in which the turns come is
any order, more than the nesting of the calls allows; with two nodes it is the same.

### SecureConnection

Each end is a record with the fields of `createSecureConnection`; `wire[s]` are the
frames on their way to `s`, in order. A frame carries the key it is encrypted with,
its epoch and, for a rekey, the ephemeral key of the request and the new key. Time
passes in ticks: a frame takes at most `MaxDelay`, the previous key lives `PrevTtl`,
a request is given up after `PendingTimeout`. `BeginSend` and `FinishSend` are the
two halves of `send` around its await, `BeginSendRekeying` and `FinishSendRekeying`
the same with the rekey that `maybeAutoRekey` begins and waits for.
`handleIncomingEncrypted` is one action for each kind of frame, and one for frames
that a closed, overdue or wrongly keyed end does not take. Rate limit, replayed
nonces, trust, idleness and age only ever close the session: that is `Close`.

### SessionKeys

Each end has a state, an epoch and a key; there is no wire and no clock. An end may ask
(`Ask`); an end that shares its key with a peer that has asked makes a new one (`Lead`);
the asker takes exactly that key (`Follow`); when both ask, the end with the greater id
gives way. Under the mapping an end's key is its present sending key and `made` counts
the keys ever made; requests, answers, data, old keys and time are stutters.

### AuditSync

A record is its item and the items before it, which is what its hash covers; a
Merkle root stands for the log it was computed from. `Written` is the common end of
`append` and `appendReplica`: line, meta file, memory, with a fault that cuts it off
before the line, within it, before its newline, or before the meta file is replaced.
What is left of a line is in `tail`: the next line is glued to an `"open"` one, and a log
with a line that does not parse is `"corrupt"` and refused by `loadAuditLog`. The
process may survive the fault or end with it. `Receive` is the whole of
`TrustSyncEngine.receive` with its two audit records and the failures of their
writes. `BeginRequest` and `FinishRequest`, `BeginResponse` and `FinishResponse` or
`RefuseResponse` are the handlers of the proof exchange before and after their
awaits; any number may be in flight. Messages are never taken out of `net`, so they
may come late, repeatedly, in any order or not at all. `Start` and `Stop` are the
engine's: `stop` clears the seen events and nothing else, so the proof exchange, which
does not ask whether the engine is started, goes on, and what is in an await comes back
later. Only `Exit`, or a fault that ends the process, takes the memory and all that
waits; `Open` is the constructor of the next process.

Operators whose comment begins with "Fault:" are not part of any
specification. Each is a plausible bug in the definition beside it and shows
that a property depends on that definition (`mutants` in `PROJECT.json`).

## 3. What is checked

| Run | Instance | Properties |
|---|---|---|
| `node_wal` | 1 node, 2 callers, 3 decisions (2 share an id), queue 2, 2 exits, 1 failing write, `recent` 1 | `TypeOK`, `MemoryMatchesDisk`, `SnapshotNeverAhead`, `EveryFileCounts`, `OneTaskPerCall`, `AcceptedIsDurable`, `GossipsOnlyDurable`, `JournalAppendOnly` |
| `bit_rot` | 1 node, 1 caller, 3 decisions, 2 exits, 1 damaged file | `ReadableIsKnown`, `LiveJournalGrows` |
| `bit_rot_loss` | the same | `SkippingLosesNothingElse` (violated) |
| `cluster_crash` | 2 nodes, two overlapping ticks of one, 2 attempts per body, 1 client, 2 contents of one id, 1 exit | `ClusterTypeOK`, `TicksCarryDurable`, `ImplementsReplicatedJournal` |
| `gossip_delivery` | 2 nodes, one gossips 2 decisions, `recent` 1, 1 exit, lost requests | `OfferedReachesPeers`, `GossipLosesOnlyOverflow` |
| `reconciliation` | 1 node, queue 2, 2 exits, 1 failing write, 2 clients that repeat themselves, 2 contents of one id | `ReconciliationConverges`, `EveryCallEnds`, `EveryStopEnds` |
| `lifecycle_order` | 2 replicas, nodes with 4 and 1 events, default options | `LifecycleTypeOK`, `PhaseFollowsNodes`, `NoBarrierResidue`, `SameEventsSameView`, `FailureNeverRefused`, `ExecutedIsJournalled`, `HistoryOnlyGrows` |
| `lifecycle_halt` | 1 replica, nodes with 2 and 1 events, default options | `FailedIsHalted` (violated) |
| `crdt_ops` | 2 nodes, register and set, a queue, 2 operations, 1 repetition, 2 starts per node, budget factor 3 | `CrdtTypeOK`, `SameOpsSameState`, `RunningNodesMeet`, `OwnWriteWins` |
| `crdt_pair` | 2 connected nodes, the register, direct calls, nothing lost | `Converged` (violated) |
| `rekey` | PFS rekeying, data during a rekey, 3 requests, 2 sends, 1 close, delay 1, previous key 3, timeout 2 | `TransportTypeOK`, `KeysAgree`, `FramesReadable`, `AnsweredInTime`, `ImplementsSessionKeys`, `RekeyEnds` |
| `audit_sync` | 2 nodes with disks, 1 event, indices 1 and 2, 4 units of work (an event, a request, a stop, an exit, a fault each take one) | `AuditTypeOK`, `Provenance`, `OpensUnlessTorn`, `AppliedOnceAudited`, `HistoryKept` |

What they show:

- **Durability.** At every await, and after an exit at any of them, the memory
  of a live node is its disk plus at most the entry whose append has just
  returned. A 202 is never given for a decision that a later restart could lose.
  A decision may be stored although its caller got an error (the snapshot
  failed): sending it again is answered 202 without storing it twice.
- **One request, one answer.** A request that is open has exactly one task, on the node
  it was posted to and with its body, and a request that has ended has none, through
  failing writes, broken connections and exits. So nothing is answered twice, and a
  late answer never meets the next request of its caller.
- **One id, one file.** Duplicates, retries and the second content of an id
  never lead to a second file. This rests on the single-flight queue.
- **Gossip** only carries what its sender could replay after a crash.
- **The cluster implements the abstract journal**: nodes store only proposed
  decisions, the first content they see of each id, for good. It does not
  promise that two nodes keep the same *content* of an id.
- **Delivery.** A decision that stays among the recent ones of a node reaches
  each of its peers, whatever is lost or restarted meanwhile. One that newer decisions
  push out of the list (`execution_queue.ts:81`) before a tick has copied it is never
  offered again and may never reach a peer, although nothing failed; but until the first
  exit nothing else is lost: again and again a peer lacks no more decisions of a node
  than were pushed out there (`GossipLosesOnlyOverflow`). After an exit the
  list is empty and nothing fills it again: not the recovery, and not posting
  the decision to the same node, whose journal already has the id. So gossip alone
  never makes two nodes equal for sure; that needs a client that posts to *every* node,
  which is what `runtime_crash_test_v2.ts:420-427` does (`ReconciliationConverges`: the
  run has one node, the one posted to).
- **Liveness.** Requests and stops end, whatever write fails before them.
- **Order.** Two replicas that accepted the same events agree on nodes, clock and
  phase, in whatever order they got them and whatever they refused in between. A
  phase may differ only in FAILED against HALTED, which is the second finding.
- **Gaps.** A replica may never catch up with a node: once an event was refused or
  missed, later phase changes are refused for their `from`. But the report of a
  failure is never refused, so a failed node is always seen as such.
- **Phases.** The phase of the cluster always follows from its nodes. The reason is
  that `applyLifecycleEvent` derives the phase before it evaluates: the barrier
  compares a derived phase with itself. So on this path no barrier is ever
  violated (`NoBarrierResidue`), `FREEZE_TRANSITIONS` and
  `REQUIRE_MANUAL_INTERVENTION` are never decided, and the branches of the
  barriers only serve callers that build a `ClusterState` by hand.
- **Execution.** Whatever modes the calls mix, the journal records what was done
  and a record is final. (The run uses the default options; the mix is proved.)
- **CRDTs.** Two nodes that applied the same operations show the same register and
  set, over whatever paths and however often these came. The clock is in memory only:
  an author that was restarted may give two operations one timestamp, and then the
  last to arrive wins, so the statement is about authors started once.
  `applyCRDTOperation` has taken effect locally when it returns: the clock follows what
  it sees. Two nodes that start at the same time know each other at least one way.
- **Rekeying.** The two ends are never more than one switch apart, and when they are,
  the answer that closes the gap is on the wire. Every frame that reaches an open end is
  under a key it still has, crossed requests included: the request of the end with the
  smaller id wins, the other end gives up its own and answers. A request to a peer that
  is still there is answered within a round trip, so the timeout only ends sessions
  whose peer has gone. The two ends implement `SessionKeys`: no key is made that nobody
  asked for, and none is taken but the peer's. This needs `2 * MaxDelay < PrevTtl` (5 s
  in the code) and a wire that keeps the order.
- **The audit log.** Late, repeated or crossing answers never put a record into a log
  that its signer did not write, or break the chain. After a crash the log has at least
  what the memory had, or the node refuses to open; it refuses only if a write was cut
  within the line or between the line and the meta file (`OpensUnlessTorn`). Then it may
  well refuse, with AUDIT_LOG_CORRUPT or for the meta file, and nothing in the code repairs
  the files. The log survives a stop of the engine, and so does a proof that waits for its
  signature check: it may still be appended afterwards. So a signer with a disk never chains two records to
  one tip: each log is its own up to its last record there, and replicas of it are all
  prefixes of one log. A signer without a disk (no `auditCwd`) starts again with an empty
  log after a restart, and its peers hold a history that it no longer has.

### The findings

`bit_rot_loss`: `appendJournal` numbers a new file after the entries that could
be read (`file_store.ts:64-65`). When `readJournal` has skipped a damaged file
(`file_store.ts:89`: "skip invalid/truncated entry and continue recovery"), that
number belongs to an existing file, and the rename replaces it. In the trace the
node stores two decisions in files 1 and 2, file 1 is damaged, and the third
decision is written over file 2, which could still be read. Until the next start
the memory still has the lost decision (`LiveJournalGrows` holds), so nothing
shows. Without damage the two numbers agree: that is `EveryFileCounts`, proved
below. How far the loss goes is proved too: the number of readable files never falls by
an append (`NeverFewerReadable`), and while a damaged file is there the directory does
not grow (`DamagedIsFull`). So unless the damaged file is the very one replaced, every
later decision gets the same number and replaces the one before.

`lifecycle_halt`: a cluster with a failed node does not stay HALTED. In the trace
the failure of `n2` halts the cluster. Then another event is accepted (the other
node enters BOOTSTRAPPING, or the failure is reported again); `applyLifecycleEvent`
derives the phase FAILED from the nodes (`cluster_lifecycle_engine.ts:392`), the
policy again asks for `HALT_CLUSTER`, and `executeCore` finds the id of that
decision in its journal (`cluster_compliance_executor.ts:143`), because the
timestamp in the id is 0 by default, and does nothing. The cluster carries the
decision to halt and is not halted, against "Cluster FAILED must halt"
(`cluster_compliance_engine.ts:117`). `HaltsAreRecorded` shows that this is the whole
extent of it: whatever the options and the history, a FAILED cluster always carries the
decision to halt, and unless some call was a dry run its id is in the journal, with the
action a call made of it. With strict options the journal then says HALT_CLUSTER.

`crdt_pair`: in a cluster of two, only the first operation of a node arrives. The
control plane of gossip blocks a copy when more than three times as many were sent as
were received (`gossip_control_plane.ts:53`). The peer has nobody to forward to, so
the author receives nothing; after one copy it stands at 1 against 0, for good. In
the trace a node writes twice and its peer keeps the first value, against INV-006
(`docs/adr/ADR-003-A-invariants.md:178`): connected nodes show the same
`getRuntimeCRDTSnapshot()`. The test of that invariant
(`runtime/tests/runtime_convergence.test.ts:50`) applies one operation.

### Bounds

`QueueBound` (waiting tasks per node), `MaxExits`, `MaxIoErrors` and `MaxRot`
are bounds of the model; `RecentCap` and `MaxAttempts` are constants of the code
(64, and a configuration value) with small values. Two callers give a running
task and a waiting one, so every order of a duplicate and its original, and of
a write and an exit, occurs. Two decisions with one id and one with another
give all cases of the duplicate check. Two exits let a restart meet the leavings
of an earlier one. With `RecentCap = 1` the second decision of a node
pushes the first out of the list, before or after a tick has copied it (`node_wal`,
`gossip_delivery`). One attempt per body makes every failure the last one;
`cluster_crash` has two, and the proofs cover every `MaxAttempts`. In `cluster_crash`
the client posts to one node; that two nodes may keep different contents of one id is
covered by the proof of the refinement. The safety properties are also proved for all
bounds.

In the lifecycle runs `MaxEvents` bounds the events of each node. With four
events `n1` can reach RUNNING, or reach it by a failure and a recovery and then
fail again; the one event of `n2`, its start or its failure, falls anywhere between
them. So two replicas accept the same events in different orders, refuse some of
them (RUNNING after the start of `n2`, the start of `n2` after RUNNING), have gaps,
and then get a failure. The READY to RUNNING barrier comes into play too. The softer
modes, other timestamps, a context hash and expected nodes are not in the run; its
properties are proved for all options and all `MaxEvents`.

`crdt_ops` has one value and one tag: a write and a later write differ in their
timestamps, and an addition meets its removal. Two operations, one repetition, two
starts and the expiry of the caches give the duplicate that is accepted once more, the
concurrent writes, and the author that starts again. Factor 3 and ttl are the values of
the code (ttl 2 in `crdt_ops`: two nodes need one hop). In `rekey` three requests are a
crossed pair and one more after it, two sends are one on each side of a switch; the
times are the smallest for which `TransportAssumption` holds with a cooldown and a
delay. In `audit_sync` four units of work are, for example, an event at each node, a
request and an exit, or an event whose write is cut, a stop and an exit; one event gives a log of two records, whose second depends on the
first; the proofs cover the rest.

`CHECK_DEADLOCK` is FALSE in `crdt_ops` and `crdt_pair`, where the bounded operations are
used up and all nodes may have stopped, and in `audit_sync`, where both nodes may refuse
to open; it is on everywhere else. Symmetry is used in runs without liveness properties
only.

### Fairness

- `Internal(n)`: the event loop runs a task that is ready.
- `FinishStart`, `FinishStop`: a start and a close return. `Launch`: the supervisor
  restarts a process that exited.
- `TickFires`: `setInterval`. The next iteration of a tick and its end: promises
  settle (`fetch` has a time limit of its own).
- Strong fairness of `Deliver(t, n, d)`: a decision that is sent again and again
  is not lost every time. Only this makes delivery possible at all; it also
  stands for the rate limit of 200 requests in 15 minutes, which opens again.
- `ReconcilingSpec` adds that the client keeps sending what it has sent, to every
  node (`runtime_crash_test_v2.ts:420-427`).

In `reconciliation` the same fairness gives `EveryCallEnds` and `EveryStopEnds`: the
event loop, the closing of the server and the end of a process are what they rest on.

- `TransportFairness` (`rekey`): the clock runs, a frame on the wire is delivered, and
  the loop of `waitRekeySettled` is scheduled (`setImmediate`, or a frame that
  arrives). Nothing makes an end send, ask or close. The assumption that a frame
  arrives within `MaxDelay` is in `Tick`, not in the fairness.

The cluster lifecycle, the CRDT runtime and the audit log have no fairness: their
functions do nothing by themselves, and the code does not say who delivers an event or
carries a message again, so no liveness is claimed.

No fairness on clients otherwise, on stops, exits, errors or broken connections.

## 4. What is proved

All theorems hold for any sets of nodes, callers and decisions, any `idOf` and
any bounds, from the assumptions named in the modules (`JournalAssumption`,
`RuntimeAssumption`, `BitRotAssumption`, `ClusterAssumption`, `EvaluationAssumption`,
`LifecycleAssumption`, `EngineAssumption`, `RuntimeAssumption` of `CrdtRuntime`,
`AuditAssumption`, `TransportAssumption`): the constants have their types, finite where
the code has finite lists, and the special values are different from the ordinary ones.
`TransportAssumption` also bounds the delay of the wire by the constants of the code: the
previous key (5 s, `secure_connection.ts:175`) lives longer than two delays, and a
request is not given up within two. `FramesStayReadable` needs the first: on a slower
wire a frame may outlive its key, and the session closes.

| Theorem | Statement |
|---|---|
| `TypeCorrect` | `NodeSpec => []TypeOK` |
| `StorageSafe` | `NodeSpec => [](TypeOK /\ StorageInv)`, the inductive invariant |
| `MemorySafe`, `SnapshotSafe`, `OneFilePerId`, `GossipSafe` | `[]` of `MemoryMatchesDisk`, `SnapshotNeverAhead`, `EveryFileCounts`, `GossipsOnlyDurable` |
| `AppendOnly` | `NodeSpec => JournalAppendOnly` |
| `AcceptedSafe` | `NodeSpec => []AcceptedIsDurable` |
| `EveryCallServed` | `NodeSpec => []OneTaskPerCall` |
| `InOrder` | `NodeSpec => TasksInOrder`: the place of a waiting request never moves back |
| `OpenCallsCanEnd` | a request is open only at a live node whose queue has work it can do |
| `ClusterIsRuntimeNodes` | `Spec => NodeSpec`: the cluster only makes requests the nodes allow, so all of the above holds of it |
| `ClusterTypeCorrect`, `TicksSafe` | `Spec => []ClusterTypeOK`, `Spec => []TicksCarryDurable` |
| `TicksKnowTheirCalls` | `Spec => []TicksMatchCalls`: a tick waits for the request it made, and for no other |
| `GossipSkipsNone` | `Spec => NoneSkipped`: a tick passes over a decision only if its peer has it, after the last attempt, or at an exit |
| `ClusterRefines` | `Spec => ImplementsReplicatedJournal` |
| `LifecycleInvariant` | `Spec => []LifecycleInv` of the lifecycle, the inductive invariant |
| `LifecycleTypeCorrect`, `PhaseSafe`, `BarriersNeverFire`, `JournalSafe`, `FailureAccepted` | `[]` of `LifecycleTypeOK`, `PhaseFollowsNodes`, `NoBarrierResidue`, `ExecutedIsJournalled`, `FailureNeverRefused` |
| `OrderIndependent` | `Spec => []SameEventsSameView` |
| `HistoryGrows` | `Spec => HistoryOnlyGrows` |
| `HaltsAreRecorded` | `Spec => []UnhaltedIsRecorded`: a FAILED cluster carries the decision to halt, which is on record as executed |
| `RepeatsAreIdle` | `Spec => RepeatsShowNothingNew`: a repetition changes neither nodes, clock nor violations, nor, up to a halt, the phase |
| `CrdtTypeCorrect`, `StronglyConsistent`, `StartedNodesMeet` | `[]` of `CrdtTypeOK`, `SameOpsSameState`, `RunningNodesMeet` |
| `WritesAreRead` | `Spec => OwnWriteWins` |
| `AdditionsSurvive` | `Spec => []AddWins`: only a later removal that had seen an addition takes it out |
| `AuditTypeCorrect`, `RecordsAreTheirs`, `ReplicasMatch`, `UntornOpens`, `AppliedOnce` | `[]` of `AuditTypeOK`, `Provenance`, `LogsMatch`, `OpensUnlessTorn`, `AppliedOnceAudited` |
| `LogsOnlyGrow` | `Spec => HistoryKept` |
| `KeysInvariant`, `TimeInvariant` | `[]` of `KeyInv` and `TimeInv` of the secure connection, the inductive invariants |
| `TransportTypeCorrect`, `KeysStayTogether`, `FramesStayReadable`, `RekeyAnsweredInTime` | `[]` of `TransportTypeOK`, `KeysAgree`, `FramesReadable`, `AnsweredInTime` |
| `RekeyNeverFails` | `Spec => RekeyMakesProgress`: an end leaves a rekey with a new key or closed |
| `RefinesSessionKeys` | `Spec => ImplementsSessionKeys` |
| `RotInvariant`, `ReadableStaysKnown` | `RotSpec => []RotInv`, the inductive invariant, and `[]ReadableIsKnown` |
| `DamageForgetsNothing` | `RotSpec => LiveJournalGrows` |
| `NeverFewerReadable`, `DamagedIsFull` | `RotSpec => ReadableNeverFewer`, `RotSpec => DamagedNeverGrows` |

The argument. `MemoryMatchesDisk` alone is not inductive: an append adds exactly
one entry only if the directory is *intact* (every file parses, no id twice), and
it stays intact only if the id of the task about to append is new. So `NodeSafe`
adds both; that a task about to write the snapshot has pushed its entry; and that
a process that does not run has no task, queue or recent decisions. The lemmas
about the journal carry the arithmetic: on an intact directory reading returns
every file (`IntactReadsAll`), hence the number of entries is the number of
files, hence the append creates a new last file (`IntactAppend`) and reading
returns one entry more (`AppendReads`). This is the point at which the proof
would fail on a damaged directory. `AppendOnly` and `AcceptedSafe` follow from
the steps of the same invariant.

Open requests. `OneTaskPerCall` is inductive as it stands, given the types: the places
of a request's task in the queue (0 for the running one) are a set with one member while
its caller waits there and empty otherwise. `Post` adds the last place, starting a task
moves every place one forward, ending one empties it and frees its caller, and an exit
or a broken connection takes the connection and the reply address together. `InOrder`
reads off the same steps. `OpenCallsCanEnd` needs `StorageInv` as well, for a process
that is gone has no tasks; it is the safety half of `EveryStopEnds`: a stop that waits,
waits for a queue that can take a step.

The ticks of gossip. `TicksMatchCalls` ties what a tick believes to the connection. With
`EveryCallServed` an answer is the answer to the body the tick is at, and a 202 means
durable at its peer (`AcceptedSafe`), so a tick that goes on after a success leaves
nothing behind (`GossipSkipsNone`); this is as much of delivery as holds without fairness.

The refinement needs that whatever waits in a queue, runs or is stored was
proposed (`ProposedInv`): requests of clients propose, and requests of ticks
carry decisions durable at their sender (`TicksCarryDurable`). Then an append is
`Store`, a client's request `Propose`, and every other step a stutter.

The lifecycle. Its invariant has three parts. `Reported`: an event is determined by
its node and its time, and a STOPPED node emits nothing more. `Replicas`: every
state is `Sound` (typed, the clock dominates, no violations, the phase follows
from the nodes, the journal records the executed actions) and not `Mixed`
(RUNNING beside INIT or BOOTSTRAPPING); the lemmas about the pure functions show
that an evaluation and an accepted event keep a state sound. `Reflects`: a replica
shows of each node the newest event it has accepted, and its clock is the newest
of all. Agreement follows, because the order of times is total: the newest event of
a set does not depend on the order of acceptance. `FailureAccepted` needs `Reported`
as well: no transition leads from STOPPED to FAILED, and a node known as STOPPED
has no later event.

CRDT replication (`RuntimeInv`). `SameOpsSameState` says nothing about a single replica,
so the invariant does: `Reflects`: the register of a replica is the latest write among
the operations it has applied, its additions and removals are the union of theirs, and
its clock is ahead of all of them. What is applied was issued (`OpsInv`). Two issued
operations with one timestamp are the same one as long as their author was started once
(`StampInv`), so the latest write is unique, and two replicas with the same operations
agree. `WritesAreRead` needs only `Reflects`: a stamp is past the clock, and so past
everything applied.

`AdditionsSurvive` adds `TagInv`: a removal names only tags its author had seen, and those
additions have earlier timestamps, since the author's clock was past them (`Reflects`).

The audit log (`IInv`). The disk is never behind the memory, unless a line of it does not
parse, and then it is never read again (`DiskOrder`); it is equal to the memory as long as
no write was torn (`DiskEqual`), and every chain is one (`Chained`); so a
restart opens with a continuation of what the memory held, or refuses. `Sourced`:
whatever is in a log, on a disk, in a response or in a verification under way was
chained by its signer; so it does not matter which answer meets which request.
`AppliedOnceAudited` follows from `Marks`: an event that was applied is in `seen` and in
the log. `HeldInv` comes on top: whatever anyone holds, sends or verifies is in the log of
its author, if the author has a disk, because that log only grows (`Inductive` says so of
each step); only a line of a node's own disk may be one that its memory never took. A
record carries one item for each record before it (`Levels`), so the author has it at the
same place (`SamePlace`), and the hash fixes all that comes before (`SameBefore`); hence
`LogsMatch`. Both go by induction over the places of a log, as an argument about the first
place that is wrong: the smallest element of a set of numbers (`SmallestOne`).

The secure connection. `KeysAgree` says nothing about what else is on the wires, so
`KeyInv` describes a wire as its receiver sees it. An epoch tells the key of a frame
(`FrameOK`), epochs never fall along a wire, and nothing of an older epoch follows a
response (`OrderOK`). At most one request of the sender's current epoch is out, and only
while the sender is not ACTIVE; a request of an older epoch is on the wire only when it
lost a collision, and only towards the leader, which is still rekeying and ignores it.
An end that is behind is REKEYING and has the response on its wire. So every response
that arrives verifies, which `RekeyNeverFails` and even the types need.
`TimeInv` bounds clocks by what is on the wires: ages fall along a wire; as long as a
frame of the last epoch is out, or the peer has not followed, the previous key is the
right one and no older than a frame still to arrive and one delay (`PreviousOK`); and a
pending rekey is as old as its request, or no older than the response or than the
request that beat it and one delay (`PendingOK`). Both theorems about time follow from
the frames arriving within `MaxDelay`.

The refinement of `SessionKeys` needs little more than `KeyInv`. A request that arrives at
an end of its epoch finds equal keys, so the switch is `Lead`; a response that arrives is
of the epoch after, made by a peer that has not moved on, so taking it is `Follow`. In a
collision the end that gives way is REKEYING and the greater one.

The missing halt (`HaltsAreRecorded`). A sound FAILED state has no violations and a
clock that dominates, so nothing stronger than the halt is asked for (`HaltDecided`); an
execution either performs it or finds its id (`EvaluateExplains`); and every state a
replica can be in, but the first, is what an evaluation returned.

A repetition (`RepeatsAreIdle`). An event accepted before is either the one its node
shows, or older, and then refused: by `Reflects` the node shows the newest of all.

A damaged disk. `AppendReads` fails there: an append may replace a file that holds
another decision (the run `bit_rot_loss`). What is left is that no two files that parse
hold one id (`NoTwins`), so an append or a damaged file never uncovers an entry that the
process does not know, and what is read never exceeds what is in memory. The new file
takes the place of at most one that could be read, hence `NeverFewerReadable`; and its
number is at most the length of the directory as soon as one file is not counted, hence
`DamagedIsFull`.

No configuration lists the properties `TasksInOrder`, `TicksMatchCalls`, `NoneSkipped`,
`RepeatsShowNothingNew`, `UnhaltedIsRecorded`, `AddWins`, `RekeyMakesProgress`,
`ReadableNeverFewer`, `DamagedNeverGrows` and `LogsMatch`. They stand beside the others
in their modules; TLC finds no violation of them on the instances of section 3 either,
and the proofs make a run of each superfluous.

What stays with TLC: liveness, that is `EveryCallEnds`, `EveryStopEnds`, `RekeyEnds` and
the convergence of the cluster (fairness and ENABLED are outside the prover), and the
three properties that are found violated.

## 5. What is not modelled

- The value of the cluster state and its hash: the state is a function of the
  stored decisions. That the replay really is one is the next step's first task.
- The order of the journal, reads (`GET`), logging, metrics, message decoding.
- A failing `readdir` or `readFile` that succeeds again later (`file_store.ts:93`),
  which would make `appendJournal` start again at file 1.
- `evaluateClusterFromEventGraph` and `mergeAndEvaluateCluster`, which fold
  `applyLifecycleEvent` over a sorted event graph: they come with the graph. There an
  event that is refused ends the whole evaluation.
- The resolution of two different decisions, the merge of two cluster states and
  the replay of a decision journal.
- Two processes on one directory.
- A request that arrives after its sender has exited: any caller may post any
  body in `RuntimeNode`, so the node theorems cover it; `RuntimeCluster` does not
  produce it.
- The real-time side: intervals, back-off, the wall clock of non-deterministic mode.
- CRDTs: the order in which a set lists its elements (`getState` follows arrival, so two
  agreeing sets may print differently); the files of `CRDTPersistence`, which nothing
  reads; the merge of whole states, which nothing calls; more peers than the fanout.
- Gossip: invalid signatures, isolation and low trust, which end in an early return
  like those of `Refuse`; convergence of more than two nodes.
- The secure transport: the handshake and the server's table of sessions; metrics;
  `SYMMETRIC` rekeying is in the module (`Pfs`) and not in the run; a wire that reorders.
- The audit log: reputation, isolation, quorum, the federation policy and the registry,
  which appear as a free choice between acceptance and refusal; an event that `broadcast`
  marks as seen and sends without applying it; records rewritten by hand. `IrisNode` gives
  its engine no `auditCwd` (`iris_node.ts:1159-1167`): its log is that of a node outside
  `Durable`.

## 6. Plan

1. (done) `DecisionJournal`, `RuntimeNode`, `RuntimeCluster`, `ReplicatedJournal`,
   `JournalBitRot`; the node and cluster safety theorems; the refinement.
2. (done) `ClusterEvaluation`, `ClusterLifecycle`: phases, barriers, invariants,
   policies and execution; agreement of replicas, with proofs.
3. (done) `CrdtEngine`, `CrdtRuntime`, `SecureConnection`, `AuditSync`, with their
   theorems; the theorems about `JournalBitRot`.
4. `ComplianceReplay`: `replayDeterministically` with folds over the executor of
   `ClusterEvaluation`, against a reference. `ComplianceLattice`:
   `resolveComplianceConflict` and `mergeClusterStates` against the join of the lattice.
   `NodeSupervisor`: at most one live child per node.
5. `EventGraph`: validation, causal order, canonical order, merge algebra, the state
   engine and the simulated network.
6. The handshake of the secure transport; the log index; the messaging API.
