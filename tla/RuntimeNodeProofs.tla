--------------------------- MODULE RuntimeNodeProofs ---------------------------
(***************************************************************************)
(* Safety of the runtime nodes, for any set of nodes, callers and          *)
(* decisions and any bounds.                                               *)
(***************************************************************************)
EXTENDS RuntimeNode, DecisionJournalProofs

\* Rewriting the elements of a sequence in place yields a sequence.
LEMMA MapSeqType ==
  ASSUME NEW S, NEW T, NEW q \in Seq(S), NEW f,
         f = [i \in DOMAIN q |-> f[i]],
         \A i \in DOMAIN q : f[i] \in T
  PROVE  f \in Seq(T) /\ Len(f) = Len(q) /\ DOMAIN f = DOMAIN q
<1>1. Len(q) \in Nat /\ DOMAIN q = 1 .. Len(q)
  OBVIOUS
<1>2. f \in [1 .. Len(q) -> T]
  BY <1>1
<1>3. f \in Seq(T)
  BY <1>1, <1>2, IsASeq
<1>. QED  BY <1>1, <1>2, <1>3

USE JournalAssumption, RuntimeAssumption

\* The types hold when the nodes are created.
LEMMA TypeInit == NodeInit => TypeOK
BY DEF NodeInit, TypeOK, Body, Task, Call, Running, Entry

\* Updates of the records keep their types.
LEMMA CallUpdate ==
  ASSUME NEW r \in Call, NEW st \in {"waiting", "ok", "error"}
  PROVE  /\ [r EXCEPT !.st = st] \in Call
         /\ [r EXCEPT !.st = st].st = st
         /\ [r EXCEPT !.st = st].node = r.node
         /\ [r EXCEPT !.st = st].body = r.body
BY DEF Call

\* Giving a task another caller keeps its type and its body.
LEMMA TaskUpdate ==
  ASSUME NEW t \in Task, NEW c \in Caller \cup {NoCaller}
  PROVE  /\ [t EXCEPT !.caller = c] \in Task
         /\ [t EXCEPT !.caller = c].body = t.body
         /\ [t EXCEPT !.caller = c].caller = c
BY DEF Task

\* Giving the running task another caller keeps its type and what it does.
LEMMA RunningUpdate ==
  ASSUME NEW r \in Running, NEW c \in Caller \cup {NoCaller}
  PROVE  /\ [r EXCEPT !.caller = c] \in Running
         /\ [r EXCEPT !.caller = c].entry = r.entry
         /\ [r EXCEPT !.caller = c].next = r.next
         /\ [r EXCEPT !.caller = c].caller = c
BY DEF Running, Entry

\* Moving the running task to its next await keeps its type and its entry.
LEMMA NextUpdate ==
  ASSUME NEW r \in Running, NEW next \in {"append", "push", "snapshot"}
  PROVE  /\ [r EXCEPT !.next = next] \in Running
         /\ [r EXCEPT !.next = next].entry = r.entry
         /\ [r EXCEPT !.next = next].next = next
         /\ [r EXCEPT !.next = next].caller = r.caller
BY DEF Running, Entry

\* Detaching callers keeps the tasks, their order and what they carry.
LEMMA DetachQueueFacts ==
  ASSUME NEW q \in Seq(Task), NEW gone
  PROVE  /\ DetachQueue(q, gone) \in Seq(Task)
         /\ Len(DetachQueue(q, gone)) = Len(q)
         /\ DOMAIN DetachQueue(q, gone) = DOMAIN q
         /\ \A i \in DOMAIN q :
              /\ DetachQueue(q, gone)[i].body = q[i].body
              /\ DetachQueue(q, gone)[i].caller =
                   IF q[i].caller \in gone THEN NoCaller ELSE q[i].caller
<1>. DEFINE f == DetachQueue(q, gone)
<1>1. f = [i \in DOMAIN q |-> f[i]] /\ \A i \in DOMAIN q : f[i] = Detach(q[i], gone)
  BY DEF DetachQueue
<1>2. \A i \in DOMAIN q : q[i] \in Task
  OBVIOUS
<1>3. ASSUME NEW i \in DOMAIN q
      PROVE  /\ Detach(q[i], gone) \in Task
             /\ Detach(q[i], gone).body = q[i].body
             /\ Detach(q[i], gone).caller =
                  IF q[i].caller \in gone THEN NoCaller ELSE q[i].caller
  BY <1>2, TaskUpdate DEF Detach
<1>4. f \in Seq(Task) /\ Len(f) = Len(q) /\ DOMAIN f = DOMAIN q
  <2>. HIDE DEF f
  <2>. QED  BY <1>1, <1>3, MapSeqType
<1>. QED  BY <1>1, <1>3, <1>4

\* Detaching callers keeps what the running task does.
LEMMA DetachRunningFacts ==
  ASSUME NEW r \in Running \cup {Idle}, NEW gone
  PROVE  /\ DetachRunning(r, gone) \in Running \cup {Idle}
         /\ DetachRunning(r, gone) = Idle <=> r = Idle
         /\ r # Idle =>
              /\ DetachRunning(r, gone).entry = r.entry
              /\ DetachRunning(r, gone).next = r.next
              /\ DetachRunning(r, gone).caller =
                   IF r.caller \in gone THEN NoCaller ELSE r.caller
<1>1. CASE r = Idle
  BY <1>1 DEF DetachRunning
<1>2. CASE r # Idle /\ r.caller \in gone
  <2>1. DetachRunning(r, gone) = [r EXCEPT !.caller = NoCaller]
    BY <1>2 DEF DetachRunning, Detach
  <2>2. r \in Running /\ NoCaller \in Caller \cup {NoCaller}
    BY <1>2
  <2>. QED  BY <1>2, <2>1, <2>2, RunningUpdate
<1>3. CASE r # Idle /\ r.caller \notin gone
  BY <1>3 DEF DetachRunning, Detach
<1>. QED  BY <1>1, <1>2, <1>3

\* A detached task is the same task.
LEMMA DetachRunningKeeps ==
  ASSUME NEW r \in Running \cup {Idle}, NEW gone
  PROVE  /\ DetachRunning(r, gone) = Idle <=> r = Idle
         /\ r # Idle => DetachRunning(r, gone).entry = r.entry
BY DetachRunningFacts

-------------------------------------------------------------------------------
(* Type correctness *)

\* An answer leaves well-typed calls (POST /decision).
LEMMA AnswerType ==
  ASSUME TypeOK, NEW n \in Node, NEW c \in Caller \cup {NoCaller},
         NEW b \in Body, NEW st \in {"ok", "error"}, Answer(n, c, b, st)
  PROVE  call' \in [Caller -> Call \cup {NoCall}]
<1>1. [st |-> st, node |-> n, body |-> b] \in Call
  BY DEF Call
<1>. QED  BY <1>1 DEF Answer, TypeOK

\* A process that is gone leaves well-typed memory and calls behind.
LEMMA ProcessGoneType ==
  ASSUME TypeOK, NEW n \in Node, ProcessGone(n), exits' \in 0 .. MaxExits
  PROVE  TypeOK'
<1>1. queue' \in [Node -> Seq(Task)]
  <2>1. \A m \in Node : queue[m] \in Seq(Task) /\ <<>> \in Seq(Task)
    BY DEF TypeOK
  <2>2. \A m \in Node : DetachQueue(queue[m], RequestsOf(n)) \in Seq(Task)
    BY <2>1, DetachQueueFacts
  <2>. QED  BY <2>1, <2>2 DEF ProcessGone
<1>2. running' \in [Node -> Running \cup {Idle}]
  <2>1. \A m \in Node : running[m] \in Running \cup {Idle}
    BY DEF TypeOK
  <2>2. \A m \in Node : DetachRunning(running[m], RequestsOf(n)) \in Running \cup {Idle}
    BY <2>1, DetachRunningFacts
  <2>. QED  BY <2>2 DEF ProcessGone
<1>3. call' \in [Caller -> Call \cup {NoCall}]
  <2>1. ASSUME NEW c \in Caller, WaitsOn(c, n)
        PROVE  [call[c] EXCEPT !.st = "error"] \in Call
    <3>1. call[c] \in Call
      BY <2>1 DEF WaitsOn, TypeOK
    <3>. QED  BY <3>1, CallUpdate
  <2>2. \A c \in Caller : call[c] \in Call \cup {NoCall}
    BY DEF TypeOK
  <2>. QED  BY <2>1, <2>2 DEF ProcessGone
<1>4. /\ life' \in [Node -> {"STOPPED", "STARTING", "RUNNING", "STOPPING"}]
      /\ files' \in [Node -> Seq(Entry \cup {Corrupt})]
      /\ snapshot' \in [Node -> SUBSET Entry]
      /\ journal' \in [Node -> SUBSET Entry]
      /\ recent' \in [Node -> Seq(Decision)]
      /\ clock' \in [Node -> Nat]
      /\ ioErrors' \in 0 .. MaxIoErrors
  <2>1. /\ life' \in [Node -> {"STOPPED", "STARTING", "RUNNING", "STOPPING"}]
        /\ files' \in [Node -> Seq(Entry \cup {Corrupt})]
        /\ snapshot' \in [Node -> SUBSET Entry]
        /\ ioErrors' \in 0 .. MaxIoErrors
    BY DEF TypeOK, ProcessGone, disk
  <2>2. /\ journal' \in [Node -> SUBSET Entry]
        /\ recent' \in [Node -> Seq(Decision)]
        /\ clock' \in [Node -> Nat]
    BY DEF TypeOK, ProcessGone
  <2>. QED  BY <2>1, <2>2
<1>. QED  BY <1>1, <1>2, <1>3, <1>4 DEF TypeOK

\* Every step keeps the types.
LEMMA TypeStep ==
  ASSUME TypeOK, [NodeNext]_nodeVars
  PROVE  TypeOK'
<1>1. ASSUME NEW n \in Node, Launch(n)
      PROVE  TypeOK'
  BY <1>1 DEF Launch, TypeOK, disk, memory
<1>2. ASSUME NEW n \in Node, FinishStart(n)
      PROVE  TypeOK'
  <2>1. ReadJournal(files[n]) \in SUBSET Entry
    BY DEF TypeOK, ReadJournal, ReadableFiles
  <2>. QED  BY <1>2, <2>1 DEF FinishStart, TypeOK
<1>3. ASSUME NEW n \in Node, BeginStop(n)
      PROVE  TypeOK'
  BY <1>3 DEF BeginStop, TypeOK, disk, memory
<1>4. ASSUME NEW n \in Node, FinishStop(n)
      PROVE  TypeOK'
  <2>1. exits' \in 0 .. MaxExits /\ ProcessGone(n)
    BY <1>4 DEF FinishStop, TypeOK
  <2>. QED  BY <2>1, ProcessGoneType
<1>5. ASSUME NEW n \in Node, Crash(n)
      PROVE  TypeOK'
  <2>1. exits' \in 0 .. MaxExits /\ ProcessGone(n)
    BY <1>5 DEF Crash, TypeOK
  <2>. QED  BY <2>1, ProcessGoneType
<1>6. ASSUME NEW n \in Node, ResolveAtOnce(n)
      PROVE  TypeOK'
  <2>1. Head(queue[n]) \in Task /\ Tail(queue[n]) \in Seq(Task)
    BY <1>6 DEF ResolveAtOnce, TypeOK
  <2>2. Head(queue[n]).caller \in Caller \cup {NoCaller} /\ Head(queue[n]).body \in Body
    BY <2>1 DEF Task
  <2>3. call' \in [Caller -> Call \cup {NoCall}]
    BY <1>6, <2>2, AnswerType DEF ResolveAtOnce
  <2>. QED  BY <1>6, <2>1, <2>3 DEF ResolveAtOnce, TypeOK, disk, memory
<1>7. ASSUME NEW n \in Node, BeginDecision(n)
      PROVE  TypeOK'
  <2>1. Head(queue[n]) \in Task /\ Tail(queue[n]) \in Seq(Task)
    BY <1>7 DEF BeginDecision, TypeOK
  <2>2. Head(queue[n]).caller \in Caller \cup {NoCaller} /\ Head(queue[n]).body \in Decision
    BY <1>7, <2>1 DEF Task, Body, BeginDecision
  <2>3. clock[n] + 1 \in Nat
    BY DEF TypeOK
  <2>4. [entry |-> [decision |-> Head(queue[n]).body, ts |-> clock[n] + 1],
         caller |-> Head(queue[n]).caller, next |-> "append"] \in Running
    BY <2>2, <2>3 DEF Running, Entry
  <2>. QED  BY <1>7, <2>1, <2>3, <2>4 DEF BeginDecision, TypeOK, disk
<1>8. ASSUME NEW n \in Node, AppendDecision(n)
      PROVE  TypeOK'
  <2>1. running[n] \in Running /\ files[n] \in Directory
    BY <1>8 DEF AppendDecision, InTask, TypeOK, Directory
  <2>2. AppendJournal(files[n], running[n].entry) \in Directory
    BY <2>1, AppendType DEF Running
  <2>3. [running[n] EXCEPT !.next = "push"] \in Running
    BY <2>1, NextUpdate
  <2>. QED  BY <1>8, <2>2, <2>3 DEF AppendDecision, TypeOK, memory, Directory
<1>9. ASSUME NEW n \in Node, PushDecision(n)
      PROVE  TypeOK'
  <2>1. running[n] \in Running
    BY <1>9 DEF PushDecision, InTask, TypeOK
  <2>2. running[n].entry \in Entry /\ running[n].entry.decision \in Decision
    BY <2>1 DEF Running, Entry
  <2>3. [running[n] EXCEPT !.next = "snapshot"] \in Running
    BY <2>1, NextUpdate
  <2>4. Append(recent[n], running[n].entry.decision) \in Seq(Decision)
    BY <2>2 DEF TypeOK
  <2>5. Tail(Append(recent[n], running[n].entry.decision)) \in Seq(Decision)
    <3>1. recent[n] \in Seq(Decision)
      BY DEF TypeOK
    <3>2. Append(recent[n], running[n].entry.decision) # <<>>
      BY <2>2, <3>1, AppendProperties
    <3>. QED  BY <2>4, <3>2, HeadTailProperties
  <2>. QED  BY <1>9, <2>2, <2>3, <2>4, <2>5 DEF PushDecision, TypeOK, disk
<1>10. ASSUME NEW n \in Node, NEW st \in {"ok", "error"}, EndTask(n, st),
              running[n] # Idle
       PROVE  /\ running' \in [Node -> Running \cup {Idle}]
              /\ call' \in [Caller -> Call \cup {NoCall}]
  <2>1. running[n] \in Running
    BY <1>10 DEF TypeOK
  <2>2. /\ running[n].caller \in Caller \cup {NoCaller}
        /\ running[n].entry.decision \in Body
    BY <2>1 DEF Running, Entry, Body
  <2>3. call' \in [Caller -> Call \cup {NoCall}]
    BY <1>10, <2>2, AnswerType DEF EndTask
  <2>. QED  BY <1>10, <2>3 DEF EndTask, TypeOK
<1>11. ASSUME NEW n \in Node, WriteSnapshot(n)
       PROVE  TypeOK'
  <2>1. EndTask(n, "ok") /\ running[n] # Idle
    BY <1>11 DEF WriteSnapshot, InTask
  <2>2. /\ running' \in [Node -> Running \cup {Idle}]
        /\ call' \in [Caller -> Call \cup {NoCall}]
    BY <2>1, <1>10
  <2>. QED  BY <1>11, <2>2 DEF WriteSnapshot, TypeOK, memory
<1>12. ASSUME NEW n \in Node, WriteFails(n)
       PROVE  TypeOK'
  <2>1. EndTask(n, "error") /\ running[n] # Idle
    BY <1>12 DEF WriteFails, InTask
  <2>2. /\ running' \in [Node -> Running \cup {Idle}]
        /\ call' \in [Caller -> Call \cup {NoCall}]
    BY <2>1, <1>10
  <2>. QED  BY <1>12, <2>2 DEF WriteFails, TypeOK, disk, memory
<1>13. ASSUME NEW c \in Caller, NEW n \in Node, NEW b \in Body, Post(c, n, b)
       PROVE  TypeOK'
  <2>1. [body |-> b, caller |-> c] \in Task
    BY DEF Task
  <2>2. [st |-> "waiting", node |-> n, body |-> b] \in Call
    BY DEF Call
  <2>. QED  BY <1>13, <2>1, <2>2 DEF Post, TypeOK, disk, memory
<1>14. ASSUME NEW c \in Caller, NEW n \in Node, NEW b \in Body, PostFails(c, n, b)
       PROVE  TypeOK'
  <2>1. [st |-> "error", node |-> n, body |-> b] \in Call
    BY DEF Call
  <2>. QED  BY <1>14, <2>1 DEF PostFails, TypeOK, disk, memory
<1>15. ASSUME NEW c \in Caller, HangUp(c)
       PROVE  TypeOK'
  <2>1. call[c] \in Call
    BY <1>15 DEF HangUp, Free, TypeOK
  <2>2. [call[c] EXCEPT !.st = "error"] \in Call
    BY <2>1, CallUpdate
  <2>3. \A n \in Node : queue[n] \in Seq(Task) /\ running[n] \in Running \cup {Idle}
    BY DEF TypeOK
  <2>4. \A n \in Node : /\ DetachQueue(queue[n], {c}) \in Seq(Task)
                        /\ DetachRunning(running[n], {c}) \in Running \cup {Idle}
    BY <2>3, DetachQueueFacts, DetachRunningFacts
  <2>. QED  BY <1>15, <2>2, <2>4 DEF HangUp, TypeOK, disk, memory
<1>16. CASE UNCHANGED nodeVars
  BY <1>16 DEF nodeVars, disk, memory, TypeOK
<1>. QED
  BY <1>1, <1>2, <1>3, <1>4, <1>5, <1>6, <1>7, <1>8, <1>9, <1>11, <1>12, <1>13,
     <1>14, <1>15, <1>16 DEF NodeNext, NodeStep, Internal

\* Every variable keeps its type, whatever the nodes, callers and bounds
\* (TypeOK of the run node_wal).
THEOREM TypeCorrect == NodeSpec => []TypeOK
<1>. QED  BY TypeInit, TypeStep, PTL DEF NodeSpec

-------------------------------------------------------------------------------
(* Storage *)

\* What holds of each node between any two steps.  The invariants of the runs
\* are not inductive by themselves: they need that the directory has no two
\* files with one id, that a task about to append has a new id, that a task
\* about to write the snapshot has been pushed, and that a process that does
\* not run yet has no task.
NodeSafe(n) ==
  /\ Intact(files[n])
  /\ life[n] \notin {"RUNNING", "STOPPING"} =>
       running[n] = Idle /\ queue[n] = <<>> /\ recent[n] = <<>>
  /\ life[n] \in {"RUNNING", "STOPPING"} =>
       Durable(n) = journal[n] \cup Appended(n)
  /\ InTask(n, "append") =>
       idOf[running[n].entry.decision] \notin IdsOf(Durable(n))
  /\ InTask(n, "snapshot") => running[n].entry \in journal[n]
  /\ snapshot[n] \subseteq Durable(n)
  /\ \A i \in DOMAIN recent[n] : \E e \in Durable(n) : e.decision = recent[n][i]

StorageInv == \A n \in Node : NodeSafe(n)

\* A step that leaves the process of n and its storage alone, up to the reply
\* addresses of its tasks.
Untouched(n) ==
  /\ life'[n] = life[n]
  /\ files'[n] = files[n]
  /\ snapshot'[n] = snapshot[n]
  /\ journal'[n] = journal[n]
  /\ recent'[n] = recent[n]
  /\ life[n] \notin {"RUNNING", "STOPPING"} => queue'[n] = queue[n]
  /\ running'[n] = Idle <=> running[n] = Idle
  /\ running[n] # Idle => /\ running'[n].entry = running[n].entry
                          /\ running'[n].next = running[n].next

\* A node whose storage, memory and task are untouched stays safe.
LEMMA UntouchedSafe ==
  ASSUME NEW n \in Node, NodeSafe(n), Untouched(n)
  PROVE  NodeSafe(n)'
<1>1. Durable(n)' = Durable(n)
  BY DEF Untouched, Durable
<1>2. Appended(n)' = Appended(n)
  BY DEF Untouched, Appended, InTask
<1>3. \A s : InTask(n, s)' <=> InTask(n, s)
  BY DEF Untouched, InTask
<1>. QED  BY <1>1, <1>2, <1>3 DEF Untouched, NodeSafe, InTask

\* The storage is safe when the nodes are created.
LEMMA StorageInit == NodeInit => StorageInv
<1>. SUFFICES ASSUME NodeInit, NEW n \in Node PROVE NodeSafe(n)
  BY DEF StorageInv
<1>. QED  BY DEF NodeInit, NodeSafe, Durable, Intact, InTask

\* An exit leaves the storage of every node safe.
LEMMA ProcessGoneSafe ==
  ASSUME TypeOK, StorageInv, NEW n \in Node, ProcessGone(n), NEW m \in Node
  PROVE  NodeSafe(m)'
<1>1. NodeSafe(m) /\ Intact(files[m])' /\ Durable(m)' = Durable(m)
  BY DEF StorageInv, NodeSafe, ProcessGone, Durable, disk
<1>2. CASE m = n
  <2>1. /\ life'[m] = "STOPPED" /\ running'[m] = Idle /\ queue'[m] = <<>>
        /\ recent'[m] = <<>> /\ snapshot'[m] = snapshot[m]
    BY <1>2 DEF ProcessGone, TypeOK, disk
  <2>. QED  BY <1>1, <2>1 DEF NodeSafe, InTask
<1>3. CASE m # n
  <2>1. queue[m] \in Seq(Task) /\ running[m] \in Running \cup {Idle}
    BY DEF TypeOK
  <2>2. queue[m] = <<>> => queue'[m] = queue[m]
    <3>1. queue'[m] = DetachQueue(queue[m], RequestsOf(n))
      BY <1>3 DEF ProcessGone
    <3>2. queue'[m] \in Seq(Task) /\ Len(queue'[m]) = Len(queue[m])
      BY <2>1, <3>1, DetachQueueFacts
    <3>. QED  BY <2>1, <3>2, EmptySeq
  <2>3. running'[m] = DetachRunning(running[m], RequestsOf(n))
    BY <1>3 DEF ProcessGone
  <2>4. /\ running'[m] = Idle <=> running[m] = Idle
        /\ running[m] # Idle => /\ running'[m].entry = running[m].entry
                                /\ running'[m].next = running[m].next
    BY <2>1, <2>3, DetachRunningFacts
  <2>5. Untouched(m)
    BY <1>1, <1>3, <2>2, <2>4 DEF ProcessGone, TypeOK, disk, Untouched, NodeSafe
  <2>. QED  BY <1>1, <2>5, UntouchedSafe
<1>. QED  BY <1>2, <1>3

\* Every step keeps the storage of every node safe and its journal growing.
LEMMA StorageStep ==
  ASSUME TypeOK, StorageInv, [NodeNext]_nodeVars, NEW m \in Node
  PROVE  NodeSafe(m)' /\ Durable(m) \subseteq Durable(m)'
<1>. USE DEF disk, memory
<1>0. NodeSafe(m)
  BY DEF StorageInv
<1>1. ASSUME Untouched(m)
      PROVE  NodeSafe(m)' /\ Durable(m) \subseteq Durable(m)'
  BY <1>0, <1>1, UntouchedSafe DEF Untouched, Durable
<1>2. ASSUME NEW n \in Node, Launch(n)
      PROVE  NodeSafe(m)' /\ Durable(m) \subseteq Durable(m)'
  <2>1. CASE m # n
    BY <1>1, <1>2, <2>1 DEF Launch, Untouched, TypeOK
  <2>2. CASE m = n
    BY <1>0, <1>2, <2>2 DEF Launch, NodeSafe, Durable, InTask, TypeOK
  <2>. QED  BY <2>1, <2>2
<1>3. ASSUME NEW n \in Node, FinishStart(n)
      PROVE  NodeSafe(m)' /\ Durable(m) \subseteq Durable(m)'
  <2>1. CASE m # n
    BY <1>1, <1>3, <2>1 DEF FinishStart, Untouched, TypeOK
  <2>2. CASE m = n
    <3>1. /\ running'[m] = Idle /\ journal'[m] = Durable(m) /\ snapshot'[m] = Durable(m)
          /\ recent'[m] = <<>> /\ Durable(m)' = Durable(m) /\ life'[m] = "RUNNING"
          /\ Intact(files[m])'
      BY <1>0, <1>3, <2>2 DEF FinishStart, NodeSafe, Durable, TypeOK
    <3>. QED  BY <3>1 DEF NodeSafe, InTask, Appended
  <2>. QED  BY <2>1, <2>2
<1>4. ASSUME NEW n \in Node, BeginStop(n)
      PROVE  NodeSafe(m)' /\ Durable(m) \subseteq Durable(m)'
  <2>1. CASE m # n
    BY <1>1, <1>4, <2>1 DEF BeginStop, Untouched, TypeOK
  <2>2. CASE m = n
    BY <1>0, <1>4, <2>2 DEF BeginStop, NodeSafe, Durable, InTask, Appended, TypeOK
  <2>. QED  BY <2>1, <2>2
<1>5. ASSUME NEW n \in Node, FinishStop(n) \/ Crash(n)
      PROVE  NodeSafe(m)' /\ Durable(m) \subseteq Durable(m)'
  <2>1. ProcessGone(n)
    BY <1>5 DEF FinishStop, Crash
  <2>. QED  BY <2>1, ProcessGoneSafe DEF ProcessGone, Durable
<1>6. ASSUME NEW n \in Node, ResolveAtOnce(n)
      PROVE  NodeSafe(m)' /\ Durable(m) \subseteq Durable(m)'
  <2>1. life[n] \in {"RUNNING", "STOPPING"}
    BY <1>6 DEF ResolveAtOnce, StorageInv, NodeSafe
  <2>. QED  BY <1>1, <1>6, <2>1 DEF ResolveAtOnce, Untouched, TypeOK
<1>7. ASSUME NEW n \in Node, BeginDecision(n)
      PROVE  NodeSafe(m)' /\ Durable(m) \subseteq Durable(m)'
  <2>1. CASE m # n
    BY <1>1, <1>7, <2>1 DEF BeginDecision, Untouched, TypeOK
  <2>2. CASE m = n
    <3>1. /\ running[m] = Idle /\ life[m] \in {"RUNNING", "STOPPING"}
          /\ Durable(m) = journal[m]
      BY <1>0, <1>7, <2>2 DEF BeginDecision, NodeSafe, Appended, InTask
    <3>2. /\ running'[m].next = "append"
          /\ running'[m].entry.decision = Head(queue[m]).body
          /\ idOf[Head(queue[m]).body] \notin IdsOf(Durable(m))
      BY <1>7, <2>2, <3>1 DEF BeginDecision, TypeOK, Known
    <3>3. Durable(m)' = Durable(m) /\ Appended(m)' = {}
      BY <1>7, <3>2 DEF BeginDecision, Durable, Appended, InTask
    <3>. QED  BY <1>0, <1>7, <3>1, <3>2, <3>3 DEF BeginDecision, NodeSafe, InTask
  <2>. QED  BY <2>1, <2>2
<1>8. ASSUME NEW n \in Node, AppendDecision(n)
      PROVE  NodeSafe(m)' /\ Durable(m) \subseteq Durable(m)'
  <2>1. CASE m # n
    BY <1>1, <1>8, <2>1 DEF AppendDecision, Untouched, TypeOK
  <2>2. CASE m = n
    <3>1. running[m] \in Running /\ files[m] \in Directory /\ running[m].entry \in Entry
      BY <1>8, <2>2 DEF AppendDecision, InTask, TypeOK, Directory, Running
    <3>2. life[m] \in {"RUNNING", "STOPPING"} /\ Durable(m) = journal[m]
      BY <1>0, <1>8, <2>2 DEF AppendDecision, NodeSafe, InTask, Appended
    <3>3. files'[m] = AppendJournal(files[m], running[m].entry)
      BY <1>8, <2>2 DEF AppendDecision, TypeOK
    <3>4. Durable(m)' = Durable(m) \cup {running[m].entry} /\ Intact(files'[m])
      BY <1>0, <1>8, <2>2, <3>1, <3>3, AppendReads
      DEF AppendDecision, NodeSafe, Durable
    <3>5. running'[m] = [running[m] EXCEPT !.next = "push"]
      BY <1>8, <2>2 DEF AppendDecision, TypeOK
    <3>6. /\ running'[m].next = "push"
          /\ running'[m].entry = running[m].entry
          /\ running'[m] \in Running
      <4>1. running[m] \in Running
        BY <3>1
      <4>. QED  BY <3>5, <4>1, NextUpdate
    <3>7. Appended(m)' = {running[m].entry}
      BY <3>6, RuntimeAssumption DEF Appended, InTask
    <3>. QED
      BY <1>0, <1>8, <3>2, <3>4, <3>6, <3>7 DEF AppendDecision, NodeSafe, InTask
  <2>. QED  BY <2>1, <2>2
<1>9. ASSUME NEW n \in Node, PushDecision(n)
      PROVE  NodeSafe(m)' /\ Durable(m) \subseteq Durable(m)'
  <2>1. CASE m # n
    BY <1>1, <1>9, <2>1 DEF PushDecision, Untouched, TypeOK
  <2>2. CASE m = n
    <3>1. running[m] \in Running /\ running[m].entry.decision \in Decision
      BY <1>9, <2>2 DEF PushDecision, InTask, TypeOK, Running, Entry
    <3>2. /\ life[m] \in {"RUNNING", "STOPPING"}
          /\ Durable(m) = journal[m] \cup {running[m].entry}
      BY <1>0, <1>9, <2>2 DEF PushDecision, NodeSafe, InTask, Appended
    <3>3. Durable(m)' = Durable(m) /\ journal'[m] = Durable(m)
      BY <1>9, <2>2, <3>2 DEF PushDecision, Durable, TypeOK
    <3>4. running'[m] = [running[m] EXCEPT !.next = "snapshot"]
      BY <1>9, <2>2 DEF PushDecision, TypeOK
    <3>5. running'[m].next = "snapshot" /\ running'[m].entry = running[m].entry
      BY <3>1, <3>4, NextUpdate
    <3>6. Appended(m)' = {}
      BY <3>5 DEF Appended, InTask
    <3>7. \A i \in DOMAIN recent'[m] : \E e \in Durable(m) : e.decision = recent'[m][i]
      <4>. DEFINE r == Append(recent[m], running[m].entry.decision)
      <4>1. recent[m] \in Seq(Decision)
        BY DEF TypeOK
      <4>2. r \in Seq(Decision) /\ r # <<>>
        BY <3>1, <4>1, AppendProperties
      <4>3. \A i \in DOMAIN r : \E e \in Durable(m) : e.decision = r[i]
        <5>1. ASSUME NEW i \in DOMAIN r
              PROVE  (i \in DOMAIN recent[m] /\ r[i] = recent[m][i])
                     \/ r[i] = running[m].entry.decision
          BY <3>1, <4>1
        <5>. QED  BY <1>0, <3>2, <5>1 DEF NodeSafe
      <4>4. recent'[m] = IF Len(r) > RecentCap THEN Tail(r) ELSE r
        BY <1>9, <2>2 DEF PushDecision, TypeOK
      <4>5. \A i \in DOMAIN Tail(r) : i + 1 \in DOMAIN r /\ Tail(r)[i] = r[i + 1]
        <5>. HIDE DEF r
        <5>. QED  BY <4>2
      <4>. QED  BY <4>3, <4>4, <4>5
    <3>. QED
      BY <1>0, <1>9, <3>2, <3>3, <3>5, <3>6, <3>7 DEF PushDecision, NodeSafe, InTask
  <2>. QED  BY <2>1, <2>2
<1>10. ASSUME NEW n \in Node, WriteSnapshot(n)
       PROVE  NodeSafe(m)' /\ Durable(m) \subseteq Durable(m)'
  <2>1. CASE m # n
    BY <1>1, <1>10, <2>1 DEF WriteSnapshot, EndTask, Untouched, TypeOK
  <2>2. CASE m = n
    <3>1. life[m] \in {"RUNNING", "STOPPING"} /\ Durable(m) = journal[m]
      BY <1>0, <1>10, <2>2 DEF WriteSnapshot, NodeSafe, InTask, Appended
    <3>2. /\ Durable(m)' = Durable(m) /\ running'[m] = Idle /\ journal'[m] = journal[m]
          /\ snapshot'[m] = journal[m] /\ life'[m] = life[m] /\ recent'[m] = recent[m]
          /\ Intact(files[m])'
      BY <1>0, <1>10, <2>2 DEF WriteSnapshot, EndTask, NodeSafe, Durable, TypeOK
    <3>. QED  BY <1>0, <3>1, <3>2 DEF NodeSafe, InTask, Appended
  <2>. QED  BY <2>1, <2>2
<1>11. ASSUME NEW n \in Node, WriteFails(n)
       PROVE  NodeSafe(m)' /\ Durable(m) \subseteq Durable(m)'
  <2>1. CASE m # n
    BY <1>1, <1>11, <2>1 DEF WriteFails, EndTask, Untouched, TypeOK
  <2>2. CASE m = n
    <3>1. life[m] \in {"RUNNING", "STOPPING"} /\ Durable(m) = journal[m]
      BY <1>0, <1>11, <2>2 DEF WriteFails, NodeSafe, InTask, Appended
    <3>2. /\ Durable(m)' = Durable(m) /\ running'[m] = Idle /\ journal'[m] = journal[m]
          /\ snapshot'[m] = snapshot[m] /\ life'[m] = life[m] /\ recent'[m] = recent[m]
          /\ Intact(files[m])'
      BY <1>0, <1>11, <2>2 DEF WriteFails, EndTask, NodeSafe, Durable, TypeOK
    <3>. QED  BY <1>0, <3>1, <3>2 DEF NodeSafe, InTask, Appended
  <2>. QED  BY <2>1, <2>2
<1>12. ASSUME NEW c \in Caller, NEW n \in Node, NEW b \in Body, Post(c, n, b)
       PROVE  NodeSafe(m)' /\ Durable(m) \subseteq Durable(m)'
  BY <1>1, <1>12 DEF Post, Untouched, TypeOK
<1>13. ASSUME NEW c \in Caller, NEW n \in Node, NEW b \in Body, PostFails(c, n, b)
       PROVE  NodeSafe(m)' /\ Durable(m) \subseteq Durable(m)'
  BY <1>1, <1>13 DEF PostFails, Untouched
<1>14. ASSUME NEW c \in Caller, HangUp(c)
       PROVE  NodeSafe(m)' /\ Durable(m) \subseteq Durable(m)'
  <2>1. queue[m] \in Seq(Task) /\ running[m] \in Running \cup {Idle}
    BY DEF TypeOK
  <2>2. queue[m] = <<>> => queue'[m] = queue[m]
    <3>1. queue'[m] = DetachQueue(queue[m], {c})
      BY <1>14 DEF HangUp
    <3>2. queue'[m] \in Seq(Task) /\ Len(queue'[m]) = Len(queue[m])
      BY <2>1, <3>1, DetachQueueFacts
    <3>. QED  BY <2>1, <3>2, EmptySeq
  <2>3. running'[m] = DetachRunning(running[m], {c})
    BY <1>14 DEF HangUp
  <2>4. /\ running'[m] = Idle <=> running[m] = Idle
        /\ running[m] # Idle => /\ running'[m].entry = running[m].entry
                                /\ running'[m].next = running[m].next
    BY <2>1, <2>3, DetachRunningFacts
  <2>. QED  BY <1>0, <1>1, <1>14, <2>2, <2>4 DEF HangUp, Untouched, NodeSafe
<1>15. CASE UNCHANGED nodeVars
  BY <1>1, <1>15 DEF nodeVars, Untouched
<1>. QED
  BY <1>2, <1>3, <1>4, <1>5, <1>6, <1>7, <1>8, <1>9, <1>10, <1>11, <1>12, <1>13,
     <1>14, <1>15 DEF NodeNext, NodeStep, Internal

\* Between any two steps the storage of every node is safe (StorageInv).
THEOREM StorageSafe == NodeSpec => [](TypeOK /\ StorageInv)
<1>1. NodeInit => TypeOK /\ StorageInv
  BY TypeInit, StorageInit
<1>2. TypeOK /\ StorageInv /\ [NodeNext]_nodeVars => (TypeOK /\ StorageInv)'
  BY TypeStep, StorageStep DEF StorageInv
<1>. QED  BY <1>1, <1>2, PTL DEF NodeSpec

\* Nothing lives in the memory of a node only, and a restart at any point
\* forgets nothing (recover, submitDecision).
THEOREM MemorySafe == NodeSpec => []MemoryMatchesDisk
<1>1. StorageInv => MemoryMatchesDisk
  BY DEF StorageInv, NodeSafe, MemoryMatchesDisk
<1>. QED  BY <1>1, StorageSafe, PTL

\* The snapshot is never ahead of the journal (submitDecision).
THEOREM SnapshotSafe == NodeSpec => []SnapshotNeverAhead
<1>1. StorageInv => SnapshotNeverAhead
  BY DEF StorageInv, NodeSafe, SnapshotNeverAhead
<1>. QED  BY <1>1, StorageSafe, PTL

\* Each decision id is in one file and each file counts (readJournal).
THEOREM OneFilePerId == NodeSpec => []EveryFileCounts
<1>1. TypeOK /\ StorageInv => EveryFileCounts
  BY IntactReadsAll DEF TypeOK, StorageInv, NodeSafe, EveryFileCounts, Directory
<1>. QED  BY <1>1, StorageSafe, PTL

\* What a node gossips could be replayed after a crash (recentDecisions).
THEOREM GossipSafe == NodeSpec => []GossipsOnlyDurable
<1>1. StorageInv => GossipsOnlyDurable
  BY DEF StorageInv, NodeSafe, GossipsOnlyDurable
<1>. QED  BY <1>1, StorageSafe, PTL

\* No step removes or rewrites an entry of a journal (appendJournal).
THEOREM AppendOnly == NodeSpec => JournalAppendOnly
<1>1. TypeOK /\ StorageInv /\ [NodeNext]_nodeVars =>
        [\A n \in Node : Durable(n) \subseteq Durable(n)']_nodeVars
  BY StorageStep
<1>. QED  BY <1>1, StorageSafe, PTL DEF NodeSpec, JournalAppendOnly

-------------------------------------------------------------------------------
(* What 202 means *)

\* Accepted requests stay accepted, and the new ones are known to be durable.
LEMMA AcceptedKept ==
  ASSUME TypeOK', AcceptedIsDurable,
         \A m \in Node : Durable(m) \subseteq Durable(m)',
         \A a \in Caller :
           call'[a] # NoCall /\ call'[a].st = "ok" /\ call'[a].body # StateSync =>
             \/ call'[a] = call[a]
             \/ idOf[call'[a].body] \in IdsOf(ReadJournal(files[call'[a].node]))
  PROVE  AcceptedIsDurable'
<1>. SUFFICES ASSUME NEW a \in Caller, call'[a] # NoCall, call'[a].st = "ok",
                     call'[a].body # StateSync
              PROVE  idOf[call'[a].body] \in IdsOf(ReadJournal(files'[call'[a].node]))
  BY DEF AcceptedIsDurable, Durable
<1>1. call'[a].node \in Node
  BY DEF TypeOK, Call
<1>2. idOf[call'[a].body] \in IdsOf(ReadJournal(files[call'[a].node]))
  BY DEF AcceptedIsDurable, Durable
<1>3. ReadJournal(files[call'[a].node]) \subseteq ReadJournal(files'[call'[a].node])
  BY <1>1 DEF Durable
<1>. QED  BY <1>2, <1>3 DEF IdsOf

\* An answer changes the call of its caller only.
LEMMA AnswerAccepted ==
  ASSUME TypeOK, NEW n \in Node, NEW c \in Caller \cup {NoCaller}, NEW b, NEW st,
         Answer(n, c, b, st), NEW a \in Caller
  PROVE  call'[a] = call[a] \/ call'[a] = [st |-> st, node |-> n, body |-> b]
BY DEF Answer, TypeOK

\* Every step keeps what was accepted durable.
LEMMA AcceptedStep ==
  ASSUME TypeOK, StorageInv, TypeOK', AcceptedIsDurable, [NodeNext]_nodeVars
  PROVE  AcceptedIsDurable'
<1>. DEFINE New(a) ==
       call'[a] # NoCall /\ call'[a].st = "ok" /\ call'[a].body # StateSync =>
         \/ call'[a] = call[a]
         \/ idOf[call'[a].body] \in IdsOf(ReadJournal(files[call'[a].node]))
<1>. SUFFICES ASSUME NEW a \in Caller PROVE New(a)
  BY StorageStep, AcceptedKept
<1>1. ASSUME NEW n \in Node, Launch(n) \/ FinishStart(n) \/ BeginStop(n)
                             \/ BeginDecision(n) \/ AppendDecision(n) \/ PushDecision(n)
      PROVE  New(a)
  BY <1>1 DEF Launch, FinishStart, BeginStop, BeginDecision, AppendDecision, PushDecision
<1>2. ASSUME NEW n \in Node, FinishStop(n) \/ Crash(n)
      PROVE  New(a)
  <2>1. CASE home[a] = n \/ ~WaitsOn(a, n)
    BY <1>2, <2>1 DEF FinishStop, Crash, ProcessGone
  <2>2. CASE home[a] # n /\ WaitsOn(a, n)
    <3>1. call'[a] = [call[a] EXCEPT !.st = "error"]
      BY <1>2, <2>2 DEF FinishStop, Crash, ProcessGone
    <3>2. call[a] \in Call
      BY <2>2 DEF WaitsOn, TypeOK
    <3>. QED  BY <3>1, <3>2, CallUpdate
  <2>. QED  BY <2>1, <2>2
<1>3. ASSUME NEW n \in Node, ResolveAtOnce(n)
      PROVE  New(a)
  <2>. DEFINE t == Head(queue[n])
  <2>1. t \in Task
    BY <1>3 DEF ResolveAtOnce, TypeOK
  <2>2. t.caller \in Caller \cup {NoCaller}
    BY <2>1 DEF Task
  <2>3. call'[a] = call[a] \/ call'[a] = [st |-> "ok", node |-> n, body |-> t.body]
    BY <1>3, <2>2, AnswerAccepted DEF ResolveAtOnce
  <2>4. t.body = StateSync \/ idOf[t.body] \in IdsOf(journal[n])
    BY <1>3 DEF ResolveAtOnce, Known
  <2>5. life[n] \in {"RUNNING", "STOPPING"} /\ journal[n] \subseteq Durable(n)
    BY <1>3 DEF ResolveAtOnce, StorageInv, NodeSafe
  <2>6. IdsOf(journal[n]) \subseteq IdsOf(ReadJournal(files[n]))
    BY <2>5 DEF Durable, IdsOf
  <2>. HIDE DEF t
  <2>. QED  BY <2>3, <2>4, <2>6
<1>4. ASSUME NEW n \in Node, NEW st \in {"ok", "error"}, EndTask(n, st),
             running[n] # Idle,
             st = "ok" => running[n].entry \in Durable(n)
      PROVE  New(a)
  <2>1. running[n] \in Running
    BY <1>4 DEF TypeOK
  <2>2. running[n].caller \in Caller \cup {NoCaller}
    BY <2>1 DEF Running
  <2>3. \/ call'[a] = call[a]
        \/ call'[a] = [st |-> st, node |-> n, body |-> running[n].entry.decision]
    BY <1>4, <2>2, AnswerAccepted DEF EndTask
  <2>4. st = "ok" => idOf[running[n].entry.decision] \in IdsOf(ReadJournal(files[n]))
    BY <1>4 DEF Durable, IdsOf
  <2>. QED  BY <2>3, <2>4
<1>5. ASSUME NEW n \in Node, WriteSnapshot(n)
      PROVE  New(a)
  <2>1. /\ EndTask(n, "ok")
        /\ running[n] # Idle
        /\ running[n].entry \in Durable(n)
    BY <1>5 DEF WriteSnapshot, InTask, StorageInv, NodeSafe
  <2>. QED  BY <1>4, <2>1
<1>6. ASSUME NEW n \in Node, WriteFails(n)
      PROVE  New(a)
  <2>1. EndTask(n, "error") /\ running[n] # Idle
    BY <1>6 DEF WriteFails, InTask
  <2>. QED  BY <1>4, <2>1
<1>7. ASSUME NEW c \in Caller, NEW n \in Node, NEW b \in Body,
             Post(c, n, b) \/ PostFails(c, n, b)
      PROVE  New(a)
  <2>1. \/ call'[a] = call[a]
        \/ call'[a] = [st |-> "waiting", node |-> n, body |-> b]
        \/ call'[a] = [st |-> "error", node |-> n, body |-> b]
    BY <1>7 DEF Post, PostFails, TypeOK
  <2>. QED  BY <2>1
<1>8. ASSUME NEW c \in Caller, HangUp(c)
      PROVE  New(a)
  <2>1. CASE a # c
    BY <1>8, <2>1 DEF HangUp, TypeOK
  <2>2. CASE a = c
    <3>1. call'[a] = [call[a] EXCEPT !.st = "error"] /\ call[a] \in Call
      BY <1>8, <2>2 DEF HangUp, Free, TypeOK
    <3>. QED  BY <3>1, CallUpdate
  <2>. QED  BY <2>1, <2>2
<1>9. CASE UNCHANGED nodeVars
  BY <1>9 DEF nodeVars
<1>. QED
  BY <1>1, <1>2, <1>3, <1>5, <1>6, <1>7, <1>8, <1>9 DEF NodeNext, NodeStep, Internal

\* A decision answered with 202 is in the journal of the node that answered,
\* and stays there (POST /decision).
THEOREM AcceptedSafe == NodeSpec => []AcceptedIsDurable
<1>1. NodeInit => AcceptedIsDurable
  BY DEF NodeInit, AcceptedIsDurable
<1>2. TypeOK /\ StorageInv /\ TypeOK' /\ AcceptedIsDurable /\ [NodeNext]_nodeVars =>
        AcceptedIsDurable'
  BY AcceptedStep
<1>. QED  BY <1>1, <1>2, StorageSafe, PTL DEF NodeSpec

-------------------------------------------------------------------------------
(* Open requests *)

OneTask(a, m) ==
  IF WaitsOn(a, m)
  THEN \E i \in 0 .. Len(queue[m]) :
         PlacesOf(a, m) = {i} /\ BodyAt(m, i) = call[a].body
  ELSE PlacesOf(a, m) = {}

Advances(a, m) ==
  WaitsOn(a, m) /\ WaitsOn(a, m)' =>
    \E i \in PlacesOf(a, m) : \E j \in PlacesOf(a, m)' : j <= i

\* The places of a caller are numbers up to the length of the queue.
LEMMA PlaceRange ==
  ASSUME TypeOK, NEW a, NEW m \in Node
  PROVE  /\ PlacesOf(a, m) \subseteq 0 .. Len(queue[m])
         /\ Len(queue[m]) \in Nat
         /\ DOMAIN queue[m] = 1 .. Len(queue[m])
<1>1. Len(queue[m]) \in Nat /\ DOMAIN queue[m] = 1 .. Len(queue[m])
  BY DEF TypeOK
<1>. QED  BY <1>1 DEF PlacesOf

\* A task with a reply address belongs to an open request, is its only task,
\* and the request has none on any other node.
LEMMA Owner ==
  ASSUME OneTaskPerCall, NEW a \in Caller, NEW n \in Node, NEW i \in PlacesOf(a, n)
  PROVE  /\ WaitsOn(a, n)
         /\ PlacesOf(a, n) = {i}
         /\ BodyAt(n, i) = call[a].body
         /\ \A m \in Node \ {n} : ~WaitsOn(a, m) /\ PlacesOf(a, m) = {}
<1>1. WaitsOn(a, n)
  BY DEF OneTaskPerCall
<1>2. \A m \in Node \ {n} : ~WaitsOn(a, m)
  BY <1>1 DEF WaitsOn
<1>. QED  BY <1>1, <1>2 DEF OneTaskPerCall

\* A step that moves the task of an open request by s places keeps it the only
\* one, and does not move it back.
LEMMA Moved ==
  ASSUME TypeOK, TypeOK', NEW a \in Caller, NEW m \in Node, OneTask(a, m),
         NEW s \in {0, 1},
         WaitsOn(a, m)' <=> WaitsOn(a, m),
         WaitsOn(a, m) => call'[a].body = call[a].body,
         PlacesOf(a, m)' = {i - s : i \in PlacesOf(a, m)},
         \A i \in PlacesOf(a, m) : BodyAt(m, i - s)' = BodyAt(m, i)
  PROVE  OneTask(a, m)' /\ Advances(a, m)
<1>1. /\ PlacesOf(a, m) \subseteq 0 .. Len(queue[m]) /\ Len(queue[m]) \in Nat
      /\ PlacesOf(a, m)' \subseteq 0 .. Len(queue[m])' /\ Len(queue[m])' \in Nat
  <2>1. Len(queue'[m]) \in Nat /\ DOMAIN queue'[m] = 1 .. Len(queue'[m])
    BY DEF TypeOK
  <2>. QED  BY <2>1, PlaceRange DEF PlacesOf
<1>2. CASE ~WaitsOn(a, m)
  BY <1>2 DEF OneTask, Advances
<1>3. CASE WaitsOn(a, m)
  <2>1. PICK i \in 0 .. Len(queue[m]) :
          PlacesOf(a, m) = {i} /\ BodyAt(m, i) = call[a].body
    BY <1>3 DEF OneTask
  <2>2. PlacesOf(a, m)' = {i - s} /\ BodyAt(m, i - s)' = call'[a].body
    BY <1>3, <2>1
  <2>3. i - s \in 0 .. Len(queue[m])' /\ i - s <= i
    BY <1>1, <2>1, <2>2
  <2>. QED  BY <1>3, <2>1, <2>2, <2>3 DEF OneTask, Advances
<1>. QED  BY <1>2, <1>3

\* A node whose tasks are untouched, and a request whose call is.
LEMMA Unmoved ==
  ASSUME TypeOK, TypeOK', NEW a \in Caller, NEW m \in Node, OneTask(a, m),
         WaitsOn(a, m)' <=> WaitsOn(a, m),
         WaitsOn(a, m) => call'[a].body = call[a].body,
         PlacesOf(a, m)' = PlacesOf(a, m),
         \A i \in PlacesOf(a, m) : BodyAt(m, i)' = BodyAt(m, i)
  PROVE  OneTask(a, m)' /\ Advances(a, m)
<1>1. \A i \in PlacesOf(a, m) : i - 0 = i
  BY PlaceRange
<1>2. PlacesOf(a, m)' = {i - 0 : i \in PlacesOf(a, m)}
  BY <1>1
<1>. QED  BY <1>1, <1>2, Moved

\* The same when queue, running task and call do not change.
LEMMA SameTasks ==
  ASSUME TypeOK, TypeOK', NEW a \in Caller, NEW m \in Node, OneTask(a, m),
         queue'[m] = queue[m], running'[m] = running[m], call'[a] = call[a]
  PROVE  OneTask(a, m)' /\ Advances(a, m)
<1>1. WaitsOn(a, m)' <=> WaitsOn(a, m)
  BY DEF WaitsOn
<1>2. PlacesOf(a, m)' = PlacesOf(a, m)
  BY DEF PlacesOf
<1>3. \A i : BodyAt(m, i)' = BodyAt(m, i)
  BY DEF BodyAt
<1>. QED  BY <1>1, <1>2, <1>3, Unmoved

\* A request that is not open after the step and has no task then.
LEMMA Ended ==
  ASSUME NEW a, NEW m, ~WaitsOn(a, m)', PlacesOf(a, m)' = {}
  PROVE  OneTask(a, m)' /\ Advances(a, m)
BY DEF OneTask, Advances

\* The head of the queue leaves it: every other task moves up by one.
LEMMA Dequeued ==
  ASSUME TypeOK, NEW n \in Node, queue[n] # <<>>, queue'[n] = Tail(queue[n])
  PROVE  /\ 1 \in DOMAIN queue[n] /\ queue[n][1] = Head(queue[n])
         /\ DOMAIN queue[n] = 1 .. Len(queue[n]) /\ Len(queue[n]) \in Nat
         /\ DOMAIN queue'[n] = 1 .. Len(queue[n]) - 1
         /\ \A i \in DOMAIN queue'[n] : queue'[n][i] = queue[n][i + 1]
<1>1. queue[n] \in Seq(Task)
  BY DEF TypeOK
<1>2. Len(queue[n]) \in Nat \ {0} /\ DOMAIN queue[n] = 1 .. Len(queue[n])
  BY <1>1
<1>3. /\ Len(queue'[n]) = Len(queue[n]) - 1
      /\ \A i \in 1 .. Len(queue[n]) - 1 : queue'[n][i] = queue[n][i + 1]
      /\ DOMAIN queue'[n] = 1 .. Len(queue[n]) - 1
  BY <1>1, <1>2
<1>. QED  BY <1>2, <1>3

\* Its tasks move up too when the head is somebody else's.
LEMMA DequeuedOther ==
  ASSUME TypeOK, NEW n \in Node, NEW a \in Caller, running[n] = Idle,
         queue[n] # <<>>, queue'[n] = Tail(queue[n]), running'[n] = Idle,
         Head(queue[n]).caller # a
  PROVE  /\ PlacesOf(a, n)' = {i - 1 : i \in PlacesOf(a, n)}
         /\ \A i \in PlacesOf(a, n) : BodyAt(n, i - 1)' = BodyAt(n, i)
<1>. DEFINE q == queue[n]
            r == queue'[n]
<1>1. /\ 1 \in DOMAIN q /\ q[1].caller # a
      /\ DOMAIN q = 1 .. Len(q) /\ Len(q) \in Nat
      /\ DOMAIN r = 1 .. Len(q) - 1
      /\ \A i \in DOMAIN r : r[i] = q[i + 1]
  BY Dequeued
<1>2. PlacesOf(a, n) = {i \in DOMAIN q : q[i].caller = a}
  BY DEF PlacesOf
<1>3. PlacesOf(a, n)' = {i \in DOMAIN r : r[i].caller = a}
  BY DEF PlacesOf
<1>. HIDE DEF q, r
<1>4. \A i \in PlacesOf(a, n) : i \in DOMAIN q /\ i - 1 \in DOMAIN r /\ r[i - 1] = q[i]
                                /\ i # 0 /\ i - 1 # 0
  BY <1>1, <1>2
<1>5. \A i \in DOMAIN r : r[i].caller = a => i + 1 \in PlacesOf(a, n) /\ i = (i + 1) - 1
  BY <1>1, <1>2
<1>6. PlacesOf(a, n)' = {i - 1 : i \in PlacesOf(a, n)}
  <2>1. ASSUME NEW i \in PlacesOf(a, n)
        PROVE  i - 1 \in DOMAIN r /\ r[i - 1].caller = a
    BY <1>2, <1>4, <2>1
  <2>. QED  BY <1>3, <1>5, <2>1
<1>7. \A i \in PlacesOf(a, n) : BodyAt(n, i - 1)' = BodyAt(n, i)
  BY <1>4 DEF BodyAt, q, r
<1>. QED  BY <1>6, <1>7

\* All of them do when the head starts to run.
LEMMA DequeuedToRun ==
  ASSUME TypeOK, NEW n \in Node, NEW a \in Caller, running[n] = Idle,
         queue[n] # <<>>, queue'[n] = Tail(queue[n]), running'[n] # Idle,
         running'[n].caller = Head(queue[n]).caller,
         running'[n].entry.decision = Head(queue[n]).body
  PROVE  /\ PlacesOf(a, n)' = {i - 1 : i \in PlacesOf(a, n)}
         /\ \A i \in PlacesOf(a, n) : BodyAt(n, i - 1)' = BodyAt(n, i)
<1>. DEFINE q == queue[n]
            r == queue'[n]
<1>1. /\ 1 \in DOMAIN q /\ q[1] = Head(q)
      /\ DOMAIN q = 1 .. Len(q) /\ Len(q) \in Nat
      /\ DOMAIN r = 1 .. Len(q) - 1
      /\ \A i \in DOMAIN r : r[i] = q[i + 1]
  BY Dequeued
<1>2. PlacesOf(a, n) = {i \in DOMAIN q : q[i].caller = a}
  BY DEF PlacesOf
<1>3. PlacesOf(a, n)' = {i \in DOMAIN r : r[i].caller = a} \cup
                        {i \in {0} : q[1].caller = a}
  BY <1>1 DEF PlacesOf
<1>4. running'[n].entry.decision = q[1].body
  BY <1>1
<1>. HIDE DEF q, r
<1>5. \A i \in PlacesOf(a, n) :
        \/ i = 1 /\ i - 1 = 0
        \/ i \in DOMAIN q /\ i - 1 \in DOMAIN r /\ r[i - 1] = q[i] /\ i # 0 /\ i - 1 # 0
  BY <1>1, <1>2
<1>6. PlacesOf(a, n)' = {i - 1 : i \in PlacesOf(a, n)}
  <2>1. ASSUME NEW i \in PlacesOf(a, n)
        PROVE  i - 1 \in PlacesOf(a, n)'
    BY <1>2, <1>3, <1>5, <2>1
  <2>2. ASSUME NEW j \in PlacesOf(a, n)'
        PROVE  j + 1 \in PlacesOf(a, n) /\ j = (j + 1) - 1
    BY <1>1, <1>2, <1>3, <2>2
  <2>. QED  BY <2>1, <2>2
<1>7. \A i \in PlacesOf(a, n) : BodyAt(n, i - 1)' = BodyAt(n, i)
  BY <1>4, <1>5 DEF BodyAt, q, r
<1>. QED  BY <1>6, <1>7

\* Detached callers have no task any more; the tasks of the others stay put.
LEMMA Detached ==
  ASSUME TypeOK, NEW m \in Node, NEW a \in Caller, NEW gone,
         queue'[m] = DetachQueue(queue[m], gone),
         running'[m] = DetachRunning(running[m], gone)
  PROVE  /\ a \in gone => PlacesOf(a, m)' = {}
         /\ a \notin gone => PlacesOf(a, m)' = PlacesOf(a, m)
         /\ \A i \in PlacesOf(a, m) : BodyAt(m, i)' = BodyAt(m, i)
<1>1. queue[m] \in Seq(Task) /\ running[m] \in Running \cup {Idle}
  BY DEF TypeOK
<1>2. /\ DOMAIN queue'[m] = DOMAIN queue[m]
      /\ \A i \in DOMAIN queue[m] :
           /\ queue'[m][i].body = queue[m][i].body
           /\ queue'[m][i].caller =
                IF queue[m][i].caller \in gone THEN NoCaller ELSE queue[m][i].caller
  BY <1>1, DetachQueueFacts
<1>3. /\ running'[m] = Idle <=> running[m] = Idle
      /\ running[m] # Idle =>
           /\ running'[m].entry = running[m].entry
           /\ running'[m].caller =
                IF running[m].caller \in gone THEN NoCaller ELSE running[m].caller
  BY <1>1, DetachRunningFacts
<1>4. a # NoCaller
  OBVIOUS
<1>5. a \in gone => PlacesOf(a, m)' = {}
  BY <1>2, <1>3, <1>4 DEF PlacesOf
<1>6. a \notin gone => PlacesOf(a, m)' = PlacesOf(a, m)
  BY <1>2, <1>3, <1>4 DEF PlacesOf
<1>7. \A i \in PlacesOf(a, m) : BodyAt(m, i)' = BodyAt(m, i)
  BY <1>2, <1>3 DEF BodyAt, PlacesOf
<1>. QED  BY <1>5, <1>6, <1>7

\* An answer to c ends the request of c and touches no other.
LEMMA Answered ==
  ASSUME TypeOK, NEW n \in Node, NEW c \in Caller \cup {NoCaller}, NEW b,
         NEW st \in {"ok", "error"}, Answer(n, c, b, st), NEW a \in Caller
  PROVE  /\ a # c => call'[a] = call[a]
         /\ a = c => \A m \in Node : ~WaitsOn(a, m)'
<1>1. CASE a # c
  BY <1>1 DEF Answer, TypeOK
<1>2. CASE a = c
  <2>1. call'[a] = [st |-> st, node |-> n, body |-> b]
    BY <1>2 DEF Answer, TypeOK
  <2>. QED  BY <1>2, <2>1 DEF WaitsOn
<1>. QED  BY <1>1, <1>2

\* An answered task is the only one of its caller: it leaves none behind.
LEMMA EndTaskTasks ==
  ASSUME TypeOK, TypeOK', OneTaskPerCall, NEW n \in Node, NEW st \in {"ok", "error"},
         running[n] # Idle, EndTask(n, st), queue' = queue,
         NEW a \in Caller, NEW m \in Node
  PROVE  OneTask(a, m)' /\ Advances(a, m)
<1>0. OneTask(a, m)
  BY DEF OneTaskPerCall, OneTask
<1>1. running[n].caller \in Caller \cup {NoCaller}
  BY DEF TypeOK, Running
<1>2. /\ a # running[n].caller => call'[a] = call[a]
      /\ a = running[n].caller => ~WaitsOn(a, m)'
  BY <1>1, Answered DEF EndTask
<1>3. running'[n] = Idle /\ \A k \in Node \ {n} : running'[k] = running[k]
  BY DEF EndTask, TypeOK
<1>4. CASE a = running[n].caller
  <2>1. 0 \in PlacesOf(a, n)
    BY <1>4 DEF PlacesOf
  <2>2. PlacesOf(a, n) = {0} /\ \A k \in Node \ {n} : PlacesOf(a, k) = {}
    BY <2>1, Owner
  <2>3. PlacesOf(a, m)' \subseteq PlacesOf(a, m) /\ (m = n => 0 \notin PlacesOf(a, m)')
    <3>1. 0 \notin DOMAIN queue[m]
      <4>1. DOMAIN queue[m] = 1 .. Len(queue[m]) /\ Len(queue[m]) \in Nat
        BY PlaceRange
      <4>. QED  BY <4>1
    <3>. QED  BY <1>3, <3>1 DEF PlacesOf
  <2>4. PlacesOf(a, m)' = {}
    BY <2>2, <2>3
  <2>. QED  BY <1>2, <1>4, <2>4, Ended
<1>5. CASE a # running[n].caller
  <2>1. WaitsOn(a, m)' <=> WaitsOn(a, m)
    BY <1>2, <1>5 DEF WaitsOn
  <2>2. PlacesOf(a, m)' = PlacesOf(a, m)
    BY <1>3, <1>5 DEF PlacesOf
  <2>3. \A i \in PlacesOf(a, m) : BodyAt(m, i)' = BodyAt(m, i)
    <3>1. m = n => 0 \notin PlacesOf(a, m)
      <4>1. 0 \notin DOMAIN queue[m]
        <5>1. DOMAIN queue[m] = 1 .. Len(queue[m]) /\ Len(queue[m]) \in Nat
          BY PlaceRange
        <5>. QED  BY <5>1
      <4>. QED  BY <1>5, <4>1 DEF PlacesOf
    <3>. QED  BY <1>3, <3>1 DEF BodyAt
  <2>. QED  BY <1>0, <1>2, <1>5, <2>1, <2>2, <2>3, Unmoved
<1>. QED  BY <1>4, <1>5

\* When a process is gone, so are its tasks and its own requests; those it
\* served have failed.
LEMMA ProcessGoneTasks ==
  ASSUME TypeOK, TypeOK', OneTaskPerCall, NEW n \in Node, ProcessGone(n),
         NEW a \in Caller, NEW m \in Node
  PROVE  OneTask(a, m)' /\ Advances(a, m)
<1>0. OneTask(a, m)
  BY DEF OneTaskPerCall, OneTask
<1>1. WaitsOn(a, m)' => home[a] # n /\ m # n /\ call'[a] = call[a]
  <2>1. CASE home[a] # n /\ WaitsOn(a, n)
    <3>1. call'[a] = [call[a] EXCEPT !.st = "error"]
      BY <2>1 DEF ProcessGone
    <3>2. call[a] \in Call
      BY <2>1 DEF WaitsOn, TypeOK
    <3>3. call'[a].st = "error"
      BY <3>1, <3>2, CallUpdate
    <3>. QED  BY <3>3 DEF WaitsOn
  <2>2. CASE home[a] # n /\ ~WaitsOn(a, n)
    <3>1. call'[a] = call[a]
      BY <2>2 DEF ProcessGone
    <3>. QED  BY <2>2, <3>1 DEF WaitsOn
  <2>3. CASE home[a] = n
    BY <2>3 DEF ProcessGone, WaitsOn
  <2>. QED  BY <2>1, <2>2, <2>3
<1>2. CASE m = n
  <2>1. queue'[m] = <<>> /\ running'[m] = Idle
    BY <1>2 DEF ProcessGone, TypeOK
  <2>2. PlacesOf(a, m)' = {}
    BY <2>1 DEF PlacesOf
  <2>. QED  BY <1>1, <1>2, <2>2, Ended
<1>3. CASE m # n
  <2>1. /\ queue'[m] = DetachQueue(queue[m], RequestsOf(n))
        /\ running'[m] = DetachRunning(running[m], RequestsOf(n))
    BY <1>3 DEF ProcessGone
  <2>2. /\ a \in RequestsOf(n) => PlacesOf(a, m)' = {}
        /\ a \notin RequestsOf(n) => PlacesOf(a, m)' = PlacesOf(a, m)
        /\ \A i \in PlacesOf(a, m) : BodyAt(m, i)' = BodyAt(m, i)
    BY <2>1, Detached
  <2>3. CASE home[a] = n
    <3>1. PlacesOf(a, m)' = {}
      BY <2>2, <2>3 DEF RequestsOf
    <3>. QED  BY <1>1, <2>3, <3>1, Ended
  <2>4. CASE home[a] # n
    <3>1. PlacesOf(a, m)' = PlacesOf(a, m)
      BY <2>2, <2>4 DEF RequestsOf
    <3>2. WaitsOn(a, m) => call'[a] = call[a]
      BY <1>3, <2>4 DEF ProcessGone, WaitsOn
    <3>3. WaitsOn(a, m)' <=> WaitsOn(a, m)
      BY <1>1, <3>2 DEF WaitsOn
    <3>. QED  BY <1>0, <2>2, <3>1, <3>2, <3>3, Unmoved
  <2>. QED  BY <2>3, <2>4
<1>. QED  BY <1>2, <1>3

\* Every step keeps one task per open request, and none of them moves back.
LEMMA TasksStep ==
  ASSUME TypeOK, TypeOK', OneTaskPerCall, [NodeNext]_nodeVars,
         NEW a \in Caller, NEW m \in Node
  PROVE  OneTask(a, m)' /\ Advances(a, m)
<1>0. OneTask(a, m)
  BY DEF OneTaskPerCall, OneTask
<1>1. ASSUME NEW n \in Node, Launch(n) \/ FinishStart(n) \/ BeginStop(n)
      PROVE  OneTask(a, m)' /\ Advances(a, m)
  BY <1>0, <1>1, SameTasks DEF Launch, FinishStart, BeginStop
<1>2. ASSUME NEW n \in Node, FinishStop(n) \/ Crash(n)
      PROVE  OneTask(a, m)' /\ Advances(a, m)
  BY <1>2, ProcessGoneTasks DEF FinishStop, Crash
<1>3. ASSUME NEW n \in Node, ResolveAtOnce(n)
      PROVE  OneTask(a, m)' /\ Advances(a, m)
  <2>. DEFINE t == Head(queue[n])
  <2>1. t.caller \in Caller \cup {NoCaller}
    <3>1. t \in Task
      BY <1>3 DEF ResolveAtOnce, TypeOK
    <3>. QED  BY <3>1 DEF Task
  <2>2. /\ a # t.caller => call'[a] = call[a]
        /\ a = t.caller => ~WaitsOn(a, m)'
    BY <1>3, <2>1, Answered DEF ResolveAtOnce
  <2>3. /\ running[n] = Idle /\ running' = running /\ queue[n] # <<>>
        /\ queue'[n] = Tail(queue[n])
        /\ \A k \in Node \ {n} : queue'[k] = queue[k]
    BY <1>3 DEF ResolveAtOnce, TypeOK
  <2>4. CASE a # t.caller /\ m = n
    <3>1. /\ PlacesOf(a, m)' = {i - 1 : i \in PlacesOf(a, m)}
          /\ \A i \in PlacesOf(a, m) : BodyAt(m, i - 1)' = BodyAt(m, i)
      BY <2>3, <2>4, DequeuedOther
    <3>2. (WaitsOn(a, m)' <=> WaitsOn(a, m)) /\ call'[a] = call[a]
      BY <2>2, <2>4 DEF WaitsOn
    <3>. QED  BY <1>0, <3>1, <3>2, Moved
  <2>5. CASE a # t.caller /\ m # n
    BY <1>0, <2>2, <2>3, <2>5, SameTasks
  <2>6. CASE a = t.caller
    <3>1. 1 \in PlacesOf(a, n)
      BY <2>3, <2>6, Dequeued DEF PlacesOf
    <3>2. PlacesOf(a, n) = {1} /\ \A k \in Node \ {n} : PlacesOf(a, k) = {}
      BY <3>1, Owner
    <3>3. PlacesOf(a, m)' = {}
      <4>1. CASE m = n
        <5>1. /\ DOMAIN queue[n] = 1 .. Len(queue[n]) /\ Len(queue[n]) \in Nat
              /\ DOMAIN queue'[n] = 1 .. Len(queue[n]) - 1
              /\ \A i \in DOMAIN queue'[n] : queue'[n][i] = queue[n][i + 1]
          BY <2>3, Dequeued
        <5>2. \A i \in DOMAIN queue'[n] : i + 1 \in DOMAIN queue[n] /\ i + 1 # 1
          BY <5>1
        <5>3. \A i \in DOMAIN queue'[n] : queue'[n][i].caller # a
          BY <3>2, <5>1, <5>2 DEF PlacesOf
        <5>. QED  BY <2>3, <4>1, <5>3 DEF PlacesOf
      <4>2. CASE m # n
        BY <2>3, <3>2, <4>2 DEF PlacesOf
      <4>. QED  BY <4>1, <4>2
    <3>. QED  BY <2>2, <2>6, <3>3, Ended
  <2>. QED  BY <2>4, <2>5, <2>6
<1>4. ASSUME NEW n \in Node, BeginDecision(n)
      PROVE  OneTask(a, m)' /\ Advances(a, m)
  <2>1. /\ running[n] = Idle /\ queue[n] # <<>> /\ call' = call
        /\ queue'[n] = Tail(queue[n])
        /\ \A k \in Node \ {n} : queue'[k] = queue[k] /\ running'[k] = running[k]
    BY <1>4 DEF BeginDecision, TypeOK
  <2>2. /\ running'[n].caller = Head(queue[n]).caller
        /\ running'[n].entry.decision = Head(queue[n]).body
    BY <1>4 DEF BeginDecision, TypeOK
  <2>3. running'[n] # Idle
    <3>1. Head(queue[n]) \in Task
      BY <1>4 DEF BeginDecision, TypeOK
    <3>2. /\ clock[n] + 1 \in Nat
          /\ Head(queue[n]).caller \in Caller \cup {NoCaller}
          /\ Head(queue[n]).body \in Decision
      BY <1>4, <3>1 DEF BeginDecision, TypeOK, Task, Body
    <3>3. running'[n] \in Running
      BY <1>4, <3>1, <3>2 DEF BeginDecision, TypeOK, Running, Entry
    <3>. QED  BY <3>3
  <2>4. CASE m = n
    <3>1. /\ PlacesOf(a, m)' = {i - 1 : i \in PlacesOf(a, m)}
          /\ \A i \in PlacesOf(a, m) : BodyAt(m, i - 1)' = BodyAt(m, i)
      BY <2>1, <2>2, <2>3, <2>4, DequeuedToRun
    <3>2. WaitsOn(a, m)' <=> WaitsOn(a, m)
      BY <2>1 DEF WaitsOn
    <3>. QED  BY <1>0, <2>1, <3>1, <3>2, Moved
  <2>5. CASE m # n
    BY <1>0, <2>1, <2>5, SameTasks
  <2>. QED  BY <2>4, <2>5
<1>5. ASSUME NEW n \in Node, AppendDecision(n) \/ PushDecision(n)
      PROVE  OneTask(a, m)' /\ Advances(a, m)
  <2>1. queue' = queue /\ call' = call
    BY <1>5 DEF AppendDecision, PushDecision
  <2>2. CASE m # n
    <3>1. running'[m] = running[m]
      BY <1>5, <2>2 DEF AppendDecision, PushDecision, TypeOK
    <3>. QED  BY <1>0, <2>1, <3>1, SameTasks
  <2>3. CASE m = n
    <3>1. running[m] # Idle /\ running[m] \in Running
      BY <1>5, <2>3 DEF AppendDecision, PushDecision, InTask, TypeOK
    <3>2. PICK next \in {"append", "push", "snapshot"} :
            running'[m] = [running[m] EXCEPT !.next = next]
      BY <1>5, <2>3 DEF AppendDecision, PushDecision, TypeOK
    <3>3. /\ running'[m] \in Running
          /\ running'[m].entry = running[m].entry
          /\ running'[m].caller = running[m].caller
      <4>. DEFINE r == running[m]
      <4>1. r \in Running
        BY <3>1
      <4>. HIDE DEF r
      <4>2. /\ [r EXCEPT !.next = next] \in Running
            /\ [r EXCEPT !.next = next].entry = r.entry
            /\ [r EXCEPT !.next = next].caller = r.caller
        BY <4>1, NextUpdate
      <4>. QED  BY <3>2, <4>2 DEF r
    <3>4. running'[m] # Idle
      BY <3>3
    <3>5. PlacesOf(a, m)' = PlacesOf(a, m)
      BY <2>1, <3>1, <3>3, <3>4 DEF PlacesOf
    <3>6. \A i \in PlacesOf(a, m) : BodyAt(m, i)' = BodyAt(m, i)
      BY <2>1, <3>3 DEF BodyAt
    <3>7. WaitsOn(a, m)' <=> WaitsOn(a, m)
      BY <2>1 DEF WaitsOn
    <3>. QED  BY <1>0, <2>1, <3>5, <3>6, <3>7, Unmoved
  <2>. QED  BY <2>2, <2>3
<1>6. ASSUME NEW n \in Node, WriteSnapshot(n) \/ WriteFails(n)
      PROVE  OneTask(a, m)' /\ Advances(a, m)
  <2>1. running[n] # Idle /\ queue' = queue
    BY <1>6 DEF WriteSnapshot, WriteFails, InTask
  <2>2. EndTask(n, "ok") \/ EndTask(n, "error")
    BY <1>6 DEF WriteSnapshot, WriteFails
  <2>. QED  BY <2>1, <2>2, EndTaskTasks
<1>7. ASSUME NEW c \in Caller, NEW n \in Node, NEW b \in Body, Post(c, n, b)
      PROVE  OneTask(a, m)' /\ Advances(a, m)
  <2>. DEFINE t == [body |-> b, caller |-> c]
  <2>1. /\ queue'[n] = Append(queue[n], t) /\ running' = running
        /\ \A k \in Node \ {n} : queue'[k] = queue[k]
        /\ call'[c] = [st |-> "waiting", node |-> n, body |-> b]
        /\ a # c => call'[a] = call[a]
    BY <1>7 DEF Post, TypeOK
  <2>2. \A k \in Node : PlacesOf(c, k) = {} /\ ~WaitsOn(c, k)
    BY <1>7 DEF Post, Free, WaitsOn, OneTaskPerCall
  <2>3. /\ DOMAIN queue[n] = 1 .. Len(queue[n]) /\ Len(queue[n]) \in Nat
        /\ DOMAIN queue'[n] = 1 .. Len(queue[n]) + 1 /\ Len(queue'[n]) = Len(queue[n]) + 1
        /\ \A i \in DOMAIN queue[n] : queue'[n][i] = queue[n][i]
        /\ queue'[n][Len(queue[n]) + 1] = t
    <3>1. queue[n] \in Seq(Task) /\ t \in Task
      BY DEF TypeOK, Task
    <3>. HIDE DEF t
    <3>. QED  BY <2>1, <3>1
  <2>4. t.caller = c /\ t.body = b
    OBVIOUS
  <2>. HIDE DEF t
  <2>5. CASE m # n /\ a # c
    BY <1>0, <2>1, <2>5, SameTasks
  <2>6. CASE m # n /\ a = c
    <3>1. ~WaitsOn(a, m)'
      BY <2>1, <2>6 DEF WaitsOn
    <3>2. PlacesOf(a, m)' = {}
      BY <2>1, <2>2, <2>6 DEF PlacesOf
    <3>. QED  BY <3>1, <3>2, Ended
  <2>7. CASE m = n /\ a # c
    <3>1. WaitsOn(a, m)' <=> WaitsOn(a, m)
      BY <2>1, <2>7 DEF WaitsOn
    <3>2. PlacesOf(a, m)' = PlacesOf(a, m)
      <4>1. \A i \in DOMAIN queue'[n] : i \in DOMAIN queue[n] \/ i = Len(queue[n]) + 1
        BY <2>3
      <4>2. {i \in DOMAIN queue'[n] : queue'[n][i].caller = a} =
            {i \in DOMAIN queue[n] : queue[n][i].caller = a}
        BY <2>3, <2>4, <2>7, <4>1
      <4>. QED  BY <2>1, <2>7, <4>2 DEF PlacesOf
    <3>3. \A i \in PlacesOf(a, m) : BodyAt(m, i)' = BodyAt(m, i)
      BY <2>1, <2>3, <2>7 DEF BodyAt, PlacesOf
    <3>. QED  BY <1>0, <2>1, <2>7, <3>1, <3>2, <3>3, Unmoved
  <2>8. CASE m = n /\ a = c
    <3>0. PICK k \in Nat : k = Len(queue[n]) + 1
      BY <2>3
    <3>1. PlacesOf(a, m)' = {k}
      <4>1. \A i \in DOMAIN queue'[n] : i \in DOMAIN queue[n] \/ i = k
        BY <2>3, <3>0
      <4>2. \A i \in DOMAIN queue[n] : queue'[n][i].caller # a
        BY <2>2, <2>3, <2>8 DEF PlacesOf
      <4>3. ~(running'[n] # Idle /\ running'[n].caller = a)
        BY <2>1, <2>2, <2>8 DEF PlacesOf
      <4>4. k \in DOMAIN queue'[n] /\ queue'[n][k].caller = a
        BY <2>3, <2>4, <2>8, <3>0
      <4>. QED  BY <2>8, <4>1, <4>2, <4>3, <4>4 DEF PlacesOf
    <3>2. BodyAt(m, k)' = b /\ k \in 0 .. Len(queue[m])'
      <4>1. k # 0 /\ k \in 0 .. Len(queue'[m])
        BY <2>3, <2>8, <3>0
      <4>2. queue'[m][k].body = b
        BY <2>3, <2>4, <2>8, <3>0
      <4>. QED  BY <4>1, <4>2 DEF BodyAt
    <3>3. call'[a].body = b
      BY <2>1, <2>8
    <3>4. ~WaitsOn(a, m)
      BY <2>2, <2>8
    <3>5. WaitsOn(a, m)'
      <4>1. call'[a] \in Call
        BY <2>1, <2>8 DEF Call
      <4>2. call'[a] # NoCall
        BY <4>1
      <4>. QED  BY <2>1, <2>8, <4>2 DEF WaitsOn
    <3>6. OneTask(a, m)'
      BY <3>1, <3>2, <3>3, <3>5 DEF OneTask
    <3>. QED  BY <3>4, <3>6 DEF Advances
  <2>. QED  BY <2>5, <2>6, <2>7, <2>8
<1>8. ASSUME NEW c \in Caller, NEW n \in Node, NEW b \in Body, PostFails(c, n, b)
      PROVE  OneTask(a, m)' /\ Advances(a, m)
  <2>1. queue' = queue /\ running' = running
    BY <1>8 DEF PostFails
  <2>2. CASE a # c
    <3>1. call'[a] = call[a]
      BY <1>8, <2>2 DEF PostFails, TypeOK
    <3>. QED  BY <1>0, <2>1, <3>1, SameTasks
  <2>3. CASE a = c
    <3>1. ~WaitsOn(a, m)' /\ ~WaitsOn(a, m)
      BY <1>8, <2>3 DEF PostFails, TypeOK, WaitsOn, Free
    <3>2. PlacesOf(a, m)' = PlacesOf(a, m)
      BY <2>1 DEF PlacesOf
    <3>. QED  BY <1>0, <3>1, <3>2, Ended DEF OneTask
  <2>. QED  BY <2>2, <2>3
<1>9. ASSUME NEW c \in Caller, HangUp(c)
      PROVE  OneTask(a, m)' /\ Advances(a, m)
  <2>1. /\ queue'[m] = DetachQueue(queue[m], {c})
        /\ running'[m] = DetachRunning(running[m], {c})
    BY <1>9 DEF HangUp
  <2>2. /\ a \in {c} => PlacesOf(a, m)' = {}
        /\ a \notin {c} => PlacesOf(a, m)' = PlacesOf(a, m)
        /\ \A i \in PlacesOf(a, m) : BodyAt(m, i)' = BodyAt(m, i)
    BY <2>1, Detached
  <2>3. CASE a # c
    <3>1. call'[a] = call[a]
      BY <1>9, <2>3 DEF HangUp, TypeOK
    <3>2. WaitsOn(a, m)' <=> WaitsOn(a, m)
      BY <3>1 DEF WaitsOn
    <3>. QED  BY <1>0, <2>2, <2>3, <3>1, <3>2, Unmoved
  <2>4. CASE a = c
    <3>1. call'[a] = [call[a] EXCEPT !.st = "error"] /\ call[a] \in Call
      BY <1>9, <2>4 DEF HangUp, Free, TypeOK
    <3>2. ~WaitsOn(a, m)'
      BY <3>1, CallUpdate DEF WaitsOn
    <3>. QED  BY <2>2, <2>4, <3>2, Ended
  <2>. QED  BY <2>3, <2>4
<1>10. CASE UNCHANGED nodeVars
  BY <1>0, <1>10, SameTasks DEF nodeVars
<1>. QED
  BY <1>1, <1>2, <1>3, <1>4, <1>5, <1>6, <1>7, <1>8, <1>9, <1>10
  DEF NodeNext, NodeStep, Internal

\* Every open request has exactly one task that will answer it, and no task
\* answers a request that has ended (EventQueue).
THEOREM EveryCallServed == NodeSpec => []OneTaskPerCall
<1>1. NodeInit => OneTaskPerCall
  BY DEF NodeInit, OneTaskPerCall, WaitsOn, PlacesOf
<1>2. TypeOK /\ TypeOK' /\ OneTaskPerCall /\ [NodeNext]_nodeVars => OneTaskPerCall'
  BY TasksStep DEF OneTaskPerCall, OneTask
<1>. QED  BY <1>1, <1>2, TypeCorrect, PTL DEF NodeSpec

\* The tasks of a node run in the order they were posted: none is put back
\* (EventQueue.drain).
THEOREM InOrder == NodeSpec => TasksInOrder
<1>1. TypeOK /\ TypeOK' /\ OneTaskPerCall /\ [NodeNext]_nodeVars =>
        [\A c \in Caller, n \in Node : WaitsOn(c, n) /\ WaitsOn(c, n)' =>
           \E i \in PlacesOf(c, n) : \E j \in PlacesOf(c, n)' : j <= i]_nodeVars
  BY TasksStep DEF Advances
<1>. QED  BY <1>1, TypeCorrect, EveryCallServed, PTL DEF NodeSpec, TasksInOrder

\* The task queue of n can take a step: of the four kinds a task can be at, it
\* is at one.
CanWork(n) ==
  \/ running[n] = Idle /\ queue[n] # <<>>
  \/ \E step \in {"append", "push", "snapshot"} : InTask(n, step)

\* A request is open only at a live process whose queue has work to do, so a
\* stop that waits for it waits for a step that can be taken
\* (httpServer.stop, EventQueue.drain).
THEOREM OpenCallsCanEnd ==
  NodeSpec => [](\A c \in Caller, n \in Node :
                   WaitsOn(c, n) => life[n] \in {"RUNNING", "STOPPING"} /\ CanWork(n))
<1>1. TypeOK /\ StorageInv /\ OneTaskPerCall =>
        \A c \in Caller, n \in Node :
          WaitsOn(c, n) => life[n] \in {"RUNNING", "STOPPING"} /\ CanWork(n)
  <2>. SUFFICES ASSUME TypeOK, StorageInv, OneTaskPerCall,
                       NEW c \in Caller, NEW n \in Node, WaitsOn(c, n)
                PROVE  life[n] \in {"RUNNING", "STOPPING"} /\ CanWork(n)
    OBVIOUS
  <2>1. PICK i \in 0 .. Len(queue[n]) : PlacesOf(c, n) = {i}
    BY DEF OneTaskPerCall
  <2>2. running[n] # Idle \/ queue[n] # <<>>
    <3>1. CASE i \in DOMAIN queue[n]
      BY <3>1
    <3>2. CASE i \notin DOMAIN queue[n]
      BY <2>1, <3>2 DEF PlacesOf
    <3>. QED  BY <3>1, <3>2
  <2>3. running[n] # Idle => \E step \in {"append", "push", "snapshot"} : InTask(n, step)
    BY DEF TypeOK, Running, InTask
  <2>4. life[n] \in {"RUNNING", "STOPPING"}
    BY <2>2 DEF StorageInv, NodeSafe
  <2>. QED  BY <2>2, <2>3, <2>4 DEF CanWork
<1>. QED  BY <1>1, StorageSafe, EveryCallServed, PTL
================================================================================
