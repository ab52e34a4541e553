-------------------------- MODULE JournalBitRotProofs --------------------------
(***************************************************************************)
(* What survives of the journal on a disk that damages files, for any      *)
(* nodes, callers and decisions and any number of damaged files.  Reading   *)
(* loses an entry only to the damage, never to another file: no two files   *)
(* that parse hold one id (NoTwins), although an append may replace a file   *)
(* that holds another one.                                                  *)
(***************************************************************************)
EXTENDS JournalBitRot, RuntimeNodeProofs

USE JournalAssumption, RuntimeAssumption

NoTwins(dir) ==
  \A i, j \in DOMAIN dir :
    /\ dir[i] # Corrupt /\ dir[j] # Corrupt
    /\ idOf[dir[i].decision] = idOf[dir[j].decision]
    => i = j

OneEach(entries) ==
  \A e, f \in entries : idOf[e.decision] = idOf[f.decision] => e = f

Live(n) == life[n] \in {"RUNNING", "STOPPING"}

\* The invariants of the run are not inductive by themselves: they need NoTwins, that
\* a task about to append or to push carries a new id, and that a process that does
\* not run yet has no task and knows nothing.
RotSafe(n) ==
  /\ NoTwins(files[n])
  /\ OneEach(journal[n])
  /\ ~Live(n) => running[n] = Idle /\ queue[n] = <<>> /\ journal[n] = {}
  /\ Live(n) => Durable(n) \subseteq journal[n] \cup Appended(n)
  /\ InTask(n, "append") \/ InTask(n, "push") =>
       idOf[running[n].entry.decision] \notin IdsOf(journal[n])

RotInv == TypeOK /\ rotten \in Nat /\ \A n \in Node : RotSafe(n)

-------------------------------------------------------------------------------
(* Directories with damaged files *)

\* What is read has one entry of an id (readJournal).
LEMMA ReadOneEach ==
  ASSUME NEW dir \in Directory
  PROVE  ReadJournal(dir) \in SUBSET Entry /\ OneEach(ReadJournal(dir))
<1>1. Len(dir) \in Nat /\ DOMAIN dir = 1 .. Len(dir)
  BY DEF Directory
<1>2. ASSUME NEW i \in ReadableFiles(dir), NEW j \in ReadableFiles(dir),
             idOf[dir[i].decision] = idOf[dir[j].decision]
      PROVE  i = j
  <2>1. i \in Nat /\ j \in Nat /\ 1 <= i /\ 1 <= j /\ dir[i] # Corrupt /\ dir[j] # Corrupt
    BY <1>1 DEF ReadableFiles
  <2>2. ~(i < j)
    BY <1>2, <2>1 DEF ReadableFiles
  <2>3. ~(j < i)
    BY <1>2, <2>1 DEF ReadableFiles
  <2>. QED  BY <2>1, <2>2, <2>3
<1>3. OneEach(ReadJournal(dir))
  BY <1>2 DEF OneEach, ReadJournal
<1>4. ReadJournal(dir) \in SUBSET Entry
  BY <1>1 DEF ReadJournal, ReadableFiles, Directory
<1>. QED  BY <1>3, <1>4

\* Without twins, every file that parses is read.
LEMMA TwinlessReadsAll ==
  ASSUME NEW dir \in Directory, NoTwins(dir)
  PROVE  ReadableFiles(dir) = {i \in DOMAIN dir : dir[i] # Corrupt}
<1>1. Len(dir) \in Nat /\ DOMAIN dir = 1 .. Len(dir)
  BY DEF Directory
<1>. QED  BY <1>1 DEF ReadableFiles, NoTwins

\* An append changes one file, which may be one that was there (appendJournal).
LEMMA AppendWrites ==
  ASSUME NEW dir \in Directory, NEW e \in Entry
  PROVE  \A i \in DOMAIN AppendJournal(dir, e) :
           \/ i \in DOMAIN dir /\ AppendJournal(dir, e)[i] = dir[i]
           \/ /\ i = Cardinality(ReadableFiles(dir)) + 1
              /\ AppendJournal(dir, e)[i] = e
<1>1. /\ Len(dir) \in Nat /\ DOMAIN dir = 1 .. Len(dir)
      /\ Cardinality(ReadableFiles(dir)) \in Nat
      /\ Cardinality(ReadableFiles(dir)) <= Len(dir)
  BY ReadableBound DEF Directory
<1>. DEFINE k == Cardinality(ReadableFiles(dir)) + 1
<1>. HIDE DEF k
<1>2. k \in Nat /\ k <= Len(dir) + 1 /\ AppendJournal(dir, e) = WriteFile(dir, k, e)
  BY <1>1 DEF k, AppendJournal
<1>3. CASE k <= Len(dir)
  <2>1. WriteFile(dir, k, e) = [dir EXCEPT ![k] = e]
    BY <1>3 DEF WriteFile
  <2>. QED  BY <1>1, <1>2, <2>1 DEF k
<1>4. CASE ~(k <= Len(dir))
  <2>1. WriteFile(dir, k, e) = Append(dir, e) /\ k = Len(dir) + 1
    BY <1>1, <1>2, <1>4 DEF WriteFile
  <2>2. /\ DOMAIN Append(dir, e) = 1 .. Len(dir) + 1
        /\ \A i \in 1 .. Len(dir) : Append(dir, e)[i] = dir[i]
        /\ Append(dir, e)[Len(dir) + 1] = e
    BY <1>1 DEF Directory
  <2>. QED  BY <1>1, <1>2, <2>1, <2>2 DEF k
<1>. QED  BY <1>3, <1>4

\* Appending a new id adds at most that entry to what is read, and makes no twins.
LEMMA AppendAddsOne ==
  ASSUME NEW dir \in Directory, NEW e \in Entry, NoTwins(dir),
         idOf[e.decision] \notin IdsOf(ReadJournal(dir))
  PROVE  /\ NoTwins(AppendJournal(dir, e))
         /\ ReadJournal(AppendJournal(dir, e)) \subseteq ReadJournal(dir) \cup {e}
<1>. DEFINE new == AppendJournal(dir, e)
            k == Cardinality(ReadableFiles(dir)) + 1
<1>1. \A i \in DOMAIN new : (i \in DOMAIN dir /\ new[i] = dir[i]) \/ (i = k /\ new[i] = e)
  BY AppendWrites
<1>. HIDE DEF new, k
<1>2. \A i \in DOMAIN dir : dir[i] # Corrupt => dir[i] \in ReadJournal(dir)
  BY TwinlessReadsAll DEF ReadJournal
<1>3. \A i \in DOMAIN dir : dir[i] # Corrupt => idOf[dir[i].decision] # idOf[e.decision]
  BY <1>2 DEF IdsOf
<1>4. NoTwins(new)
  BY <1>1, <1>3 DEF NoTwins
<1>5. \A i \in ReadableFiles(new) : i \in DOMAIN new /\ new[i] # Corrupt
  BY DEF ReadableFiles
<1>6. ReadJournal(new) \subseteq ReadJournal(dir) \cup {e}
  BY <1>1, <1>2, <1>5 DEF ReadJournal
<1>. QED  BY <1>4, <1>6 DEF new

\* Damage only takes entries away, and makes no twins.
LEMMA DamageTakes ==
  ASSUME NEW dir \in Directory, NoTwins(dir), NEW i \in DOMAIN dir
  PROVE  /\ [dir EXCEPT ![i] = Corrupt] \in Directory
         /\ NoTwins([dir EXCEPT ![i] = Corrupt])
         /\ ReadJournal([dir EXCEPT ![i] = Corrupt]) \subseteq ReadJournal(dir)
<1>. DEFINE new == [dir EXCEPT ![i] = Corrupt]
<1>1. new \in Directory /\ DOMAIN new = DOMAIN dir
  BY DEF Directory
<1>2. \A j \in DOMAIN new : new[j] # Corrupt => new[j] = dir[j]
  OBVIOUS
<1>. HIDE DEF new
<1>3. NoTwins(new)
  BY <1>1, <1>2 DEF NoTwins
<1>4. \A j \in ReadableFiles(new) : j \in DOMAIN dir /\ new[j] = dir[j] /\ dir[j] # Corrupt
  BY <1>1, <1>2 DEF ReadableFiles
<1>5. ReadJournal(new) \subseteq ReadJournal(dir)
  BY <1>4, TwinlessReadsAll DEF ReadJournal
<1>. QED  BY <1>1, <1>3, <1>5 DEF new

\* The new file can be read, and so can every other one that could be (appendJournal).
LEMMA AppendKeepsReadable ==
  ASSUME NEW dir \in Directory, NEW e \in Entry, NoTwins(dir),
         idOf[e.decision] \notin IdsOf(ReadJournal(dir))
  PROVE  Cardinality(ReadableFiles(dir)) <= Cardinality(ReadableFiles(AppendJournal(dir, e)))
<1>. DEFINE new == AppendJournal(dir, e)
            k == Cardinality(ReadableFiles(dir)) + 1
<1>1. new \in Directory /\ NoTwins(new)
  BY AppendType, AppendAddsOne
<1>2. \A i \in DOMAIN new : (i \in DOMAIN dir /\ new[i] = dir[i]) \/ (i = k /\ new[i] = e)
  BY AppendWrites
<1>3. DOMAIN dir \subseteq DOMAIN new
  <2>1. CASE k <= Len(dir)
    BY <2>1 DEF AppendJournal, WriteFile
  <2>2. CASE ~(k <= Len(dir))
    <3>1. new = Append(dir, e)
      BY <2>2 DEF AppendJournal, WriteFile
    <3>2. DOMAIN dir = 1 .. Len(dir) /\ DOMAIN Append(dir, e) = 1 .. Len(dir) + 1 /\ Len(dir) \in Nat
      BY DEF Directory
    <3>. QED  BY <3>1, <3>2
  <2>. QED  BY <2>1, <2>2
<1>4. e # Corrupt
  BY JournalAssumption DEF Entry
<1>. HIDE DEF new, k
<1>5. ReadableFiles(dir) \subseteq ReadableFiles(new)
  BY <1>1, <1>2, <1>3, <1>4, TwinlessReadsAll
<1>6. IsFiniteSet(ReadableFiles(new))
  <2>1. Len(new) \in Nat /\ DOMAIN new = 1 .. Len(new)
    BY <1>1 DEF Directory
  <2>2. IsFiniteSet(1 .. Len(new))
    BY <2>1, FirstNumbers
  <2>3. ReadableFiles(new) \subseteq 1 .. Len(new)
    BY <2>1 DEF ReadableFiles
  <2>. QED  BY <2>2, <2>3, FS_Subset
<1>7. Cardinality(ReadableFiles(dir)) <= Cardinality(ReadableFiles(new))
  BY <1>5, <1>6, FS_Subset
<1>. QED  BY <1>7 DEF new

\* A damaged file takes up a number, so the next one is not beyond the last.
LEMMA AppendToDamaged ==
  ASSUME NEW dir \in Directory, NEW e \in Entry, NEW i \in DOMAIN dir, dir[i] = Corrupt
  PROVE  Len(AppendJournal(dir, e)) = Len(dir)
<1>. DEFINE k == Cardinality(ReadableFiles(dir)) + 1
<1>1. Len(dir) \in Nat /\ DOMAIN dir = 1 .. Len(dir) /\ i \in 1 .. Len(dir)
  BY DEF Directory
<1>2. IsFiniteSet(1 .. Len(dir)) /\ Cardinality(1 .. Len(dir)) = Len(dir)
  BY <1>1, FirstNumbers
<1>3. ReadableFiles(dir) \subseteq 1 .. Len(dir) /\ i \notin ReadableFiles(dir)
  BY <1>1 DEF ReadableFiles
<1>4. Cardinality(ReadableFiles(dir)) < Len(dir)
  <2>1. ReadableFiles(dir) # 1 .. Len(dir)
    BY <1>1, <1>3
  <2>. QED  BY <1>1, <1>2, <1>3, <2>1, FS_Subset, FS_CardinalityType
<1>5. Cardinality(ReadableFiles(dir)) \in Nat
  BY ReadableBound
<1>6. k \in 1 .. Len(dir) /\ AppendJournal(dir, e) = WriteFile(dir, k, e)
  BY <1>1, <1>4, <1>5 DEF AppendJournal
<1>. HIDE DEF k
<1>7. AppendJournal(dir, e) = [dir EXCEPT ![k] = e]
  BY <1>1, <1>6 DEF WriteFile
<1>. QED  BY <1>1, <1>7 DEF Directory

-------------------------------------------------------------------------------
(* The steps *)

\* What a step does to node m: it stays safe, and only an exit makes it forget.
Keeps(m) == RotSafe(m)' /\ (life'[m] # "STOPPED" => journal[m] \subseteq journal'[m])

LEMMA UntouchedKeeps ==
  ASSUME NEW m \in Node, RotSafe(m), Untouched(m)
  PROVE  Keeps(m)
<1>1. Durable(m)' = Durable(m) /\ (Live(m)' <=> Live(m))
  BY DEF Untouched, Durable, Live
<1>2. Appended(m)' = Appended(m) /\ \A s : InTask(m, s)' <=> InTask(m, s)
  BY DEF Untouched, Appended, InTask
<1>. QED  BY <1>1, <1>2 DEF Untouched, RotSafe, Keeps, InTask, Live

\* An exit empties the memory of its node and leaves every disk alone.
LEMMA ExitKeeps ==
  ASSUME RotInv, NEW n \in Node, ProcessGone(n), NEW m \in Node
  PROVE  Keeps(m)
<1>1. RotSafe(m) /\ TypeOK
  BY DEF RotInv
<1>2. files' = files
  BY DEF ProcessGone, disk
<1>3. CASE m = n
  <2>1. /\ life'[m] = "STOPPED" /\ running'[m] = Idle /\ queue'[m] = <<>>
        /\ journal'[m] = {}
    BY <1>1, <1>3 DEF ProcessGone, TypeOK
  <2>. QED  BY <1>1, <1>2, <2>1 DEF RotSafe, Keeps, InTask, Live, OneEach
<1>4. CASE m # n
  <2>1. queue[m] \in Seq(Task) /\ running[m] \in Running \cup {Idle}
    BY <1>1 DEF TypeOK
  <2>2. queue[m] = <<>> => queue'[m] = queue[m]
    <3>1. queue'[m] = DetachQueue(queue[m], RequestsOf(n))
      BY <1>4 DEF ProcessGone
    <3>2. queue'[m] \in Seq(Task) /\ Len(queue'[m]) = Len(queue[m])
      BY <2>1, <3>1, DetachQueueFacts
    <3>. QED  BY <2>1, <3>2, EmptySeq
  <2>3. running'[m] = DetachRunning(running[m], RequestsOf(n))
    BY <1>4 DEF ProcessGone
  <2>4. /\ running'[m] = Idle <=> running[m] = Idle
        /\ running[m] # Idle => /\ running'[m].entry = running[m].entry
                                /\ running'[m].next = running[m].next
    BY <2>1, <2>3, DetachRunningFacts
  <2>5. Untouched(m)
    BY <1>1, <1>4, <2>2, <2>4
    DEF ProcessGone, TypeOK, disk, Untouched, RotSafe, Live
  <2>. QED  BY <1>1, <2>5, UntouchedKeeps
<1>. QED  BY <1>3, <1>4

\* Start, stop and the disk.
LEMMA LifecycleKeeps ==
  ASSUME RotInv, NEW n \in Node, NEW m \in Node,
         Launch(n) \/ FinishStart(n) \/ BeginStop(n) \/ FinishStop(n) \/ Crash(n)
  PROVE  Keeps(m)
<1>. USE DEF disk, memory
<1>1. RotSafe(m) /\ TypeOK /\ files[m] \in Directory
  BY DEF RotInv, TypeOK, Directory
<1>2. CASE m # n /\ ~(FinishStop(n) \/ Crash(n))
  <2>1. Untouched(m)
    BY <1>1, <1>2 DEF Launch, FinishStart, BeginStop, Untouched, TypeOK
  <2>. QED  BY <1>1, <2>1, UntouchedKeeps
<1>3. CASE FinishStop(n) \/ Crash(n)
  BY <1>3, ExitKeeps DEF FinishStop, Crash
<1>4. CASE m = n /\ Launch(n)
  BY <1>1, <1>4 DEF Launch, RotSafe, Keeps, Durable, InTask, Live, TypeOK
<1>5. CASE m = n /\ FinishStart(n)
  <2>1. /\ running'[m] = Idle /\ journal[m] = {} /\ journal'[m] = Durable(m)
        /\ Durable(m)' = Durable(m) /\ life'[m] = "RUNNING" /\ files'[m] = files[m]
    BY <1>1, <1>5 DEF FinishStart, RotSafe, Durable, TypeOK, Live
  <2>2. OneEach(journal[m])'
    BY <1>1, <2>1, ReadOneEach DEF Durable, OneEach
  <2>. QED  BY <1>1, <2>1, <2>2 DEF RotSafe, Keeps, InTask, Live
<1>6. CASE m = n /\ BeginStop(n)
  BY <1>1, <1>6
  DEF BeginStop, RotSafe, Keeps, Durable, Appended, InTask, Live, TypeOK
<1>. QED  BY <1>2, <1>3, <1>4, <1>5, <1>6

\* The task queue and the execution queue.
LEMMA TaskKeeps ==
  ASSUME RotInv, NEW n \in Node, NEW m \in Node, Internal(n) \/ WriteFails(n)
  PROVE  Keeps(m)
<1>. USE DEF disk, memory
<1>1. RotSafe(m) /\ RotSafe(n) /\ TypeOK /\ files[m] \in Directory
  BY DEF RotInv, TypeOK, Directory
<1>2. CASE m # n
  <2>1. Untouched(m)
    BY <1>1, <1>2 DEF Internal, ResolveAtOnce, BeginDecision, AppendDecision,
       PushDecision, WriteSnapshot, WriteFails, EndTask, Untouched, TypeOK
  <2>. QED  BY <1>1, <2>1, UntouchedKeeps
<1>3. CASE m = n /\ ResolveAtOnce(n)
  <2>1. Live(m)
    BY <1>1, <1>3 DEF ResolveAtOnce, RotSafe
  <2>2. Untouched(m)
    BY <1>1, <1>3, <2>1 DEF ResolveAtOnce, Untouched, TypeOK, Live
  <2>. QED  BY <1>1, <2>2, UntouchedKeeps
<1>4. CASE m = n /\ BeginDecision(n)
  <2>1. running[m] = Idle /\ Live(m) /\ Durable(m) \subseteq journal[m]
    BY <1>1, <1>4 DEF BeginDecision, RotSafe, Appended, InTask
  <2>2. /\ running'[m].next = "append"
        /\ running'[m].entry.decision = Head(queue[m]).body
        /\ idOf[Head(queue[m]).body] \notin IdsOf(journal[m])
    BY <1>1, <1>4 DEF BeginDecision, TypeOK, Known
  <2>3. /\ Durable(m)' = Durable(m) /\ journal'[m] = journal[m]
        /\ life'[m] = life[m] /\ files'[m] = files[m]
    BY <1>4 DEF BeginDecision, Durable
  <2>. QED  BY <1>1, <2>1, <2>2, <2>3 DEF RotSafe, Keeps, InTask, Live
<1>5. CASE m = n /\ AppendDecision(n)
  <2>1. running[m] \in Running /\ running[m].entry \in Entry
    BY <1>1, <1>5 DEF AppendDecision, InTask, TypeOK, Running
  <2>2. /\ Live(m) /\ Durable(m) \subseteq journal[m]
        /\ idOf[running[m].entry.decision] \notin IdsOf(journal[m])
    BY <1>1, <1>5 DEF AppendDecision, RotSafe, InTask, Appended
  <2>3. /\ files'[m] = AppendJournal(files[m], running[m].entry)
        /\ running'[m] = [running[m] EXCEPT !.next = "push"]
        /\ journal'[m] = journal[m] /\ life'[m] = life[m]
    BY <1>1, <1>5 DEF AppendDecision, TypeOK
  <2>4. NoTwins(files'[m]) /\ Durable(m)' \subseteq Durable(m) \cup {running[m].entry}
    <3>1. idOf[running[m].entry.decision] \notin IdsOf(ReadJournal(files[m]))
      BY <2>2 DEF IdsOf, Durable
    <3>. QED  BY <1>1, <2>1, <2>3, <3>1, AppendAddsOne DEF RotSafe, Durable
  <2>5. /\ running'[m].next = "push"
        /\ running'[m].entry = running[m].entry
        /\ running'[m] \in Running
    <3>1. running'[m] = [running[m] EXCEPT !.next = "push"] /\ running[m] \in Running
      BY <2>1, <2>3
    <3>. QED  BY <3>1, NextUpdate
  <2>6. InTask(m, "push")' /\ Appended(m)' = {running[m].entry}
    BY <2>5, RuntimeAssumption DEF Appended, InTask
  <2>. QED  BY <1>1, <2>2, <2>3, <2>4, <2>5, <2>6 DEF RotSafe, Keeps, Live, InTask
<1>6. CASE m = n /\ PushDecision(n)
  <2>1. running[m] \in Running
    BY <1>1, <1>6 DEF PushDecision, InTask, TypeOK
  <2>2. /\ Live(m) /\ Durable(m) \subseteq journal[m] \cup {running[m].entry}
        /\ idOf[running[m].entry.decision] \notin IdsOf(journal[m])
    BY <1>1, <1>6 DEF PushDecision, RotSafe, InTask, Appended
  <2>3. /\ journal'[m] = journal[m] \cup {running[m].entry} /\ life'[m] = life[m]
        /\ running'[m] = [running[m] EXCEPT !.next = "snapshot"]
        /\ files'[m] = files[m] /\ Durable(m)' = Durable(m)
    BY <1>1, <1>6 DEF PushDecision, TypeOK, Durable
  <2>4. running'[m].next = "snapshot"
    BY <2>1, <2>3, NextUpdate
  <2>5. OneEach(journal'[m])
    BY <1>1, <2>2, <2>3 DEF RotSafe, OneEach, IdsOf
  <2>. QED  BY <1>1, <2>2, <2>3, <2>4, <2>5 DEF RotSafe, Keeps, Live, InTask
<1>7. CASE m = n /\ (WriteSnapshot(n) \/ WriteFails(n))
  <2>1. Live(m) /\ Durable(m) \subseteq journal[m]
    BY <1>1, <1>7 DEF WriteSnapshot, WriteFails, RotSafe, InTask, Appended
  <2>2. /\ running'[m] = Idle /\ journal'[m] = journal[m] /\ life'[m] = life[m]
        /\ files'[m] = files[m] /\ Durable(m)' = Durable(m)
    BY <1>1, <1>7 DEF WriteSnapshot, WriteFails, EndTask, TypeOK, Durable
  <2>. QED  BY <1>1, <2>1, <2>2 DEF RotSafe, Keeps, Live, InTask
<1>. QED  BY <1>2, <1>3, <1>4, <1>5, <1>6, <1>7 DEF Internal

\* HTTP.
LEMMA CallKeeps ==
  ASSUME RotInv, NEW m \in Node,
         \/ \E c \in Caller, n \in Node, b \in Body : Post(c, n, b) \/ PostFails(c, n, b)
         \/ \E c \in Caller : HangUp(c)
  PROVE  Keeps(m)
<1>1. RotSafe(m) /\ TypeOK
  BY DEF RotInv
<1>2. ASSUME NEW c \in Caller, NEW n \in Node, NEW b \in Body,
             Post(c, n, b) \/ PostFails(c, n, b)
      PROVE  Untouched(m)
  BY <1>1, <1>2 DEF Post, PostFails, Untouched, TypeOK, disk, memory
<1>3. ASSUME NEW c \in Caller, HangUp(c)
      PROVE  Untouched(m)
  <2>1. queue[m] \in Seq(Task) /\ running[m] \in Running \cup {Idle}
    BY <1>1 DEF TypeOK
  <2>2. queue[m] = <<>> => queue'[m] = queue[m]
    <3>1. queue'[m] = DetachQueue(queue[m], {c})
      BY <1>3 DEF HangUp
    <3>2. queue'[m] \in Seq(Task) /\ Len(queue'[m]) = Len(queue[m])
      BY <2>1, <3>1, DetachQueueFacts
    <3>. QED  BY <2>1, <3>2, EmptySeq
  <2>3. running'[m] = DetachRunning(running[m], {c})
    BY <1>3 DEF HangUp
  <2>4. /\ running'[m] = Idle <=> running[m] = Idle
        /\ running[m] # Idle => /\ running'[m].entry = running[m].entry
                                /\ running'[m].next = running[m].next
    BY <2>1, <2>3, DetachRunningFacts
  <2>. QED  BY <1>1, <1>3, <2>2, <2>4 DEF HangUp, Untouched, RotSafe, Live, disk, memory
<1>. QED  BY <1>1, <1>2, <1>3, UntouchedKeeps

\* A file that stops parsing.
LEMMA DamageKeeps ==
  ASSUME RotInv, NEW n \in Node, Damage(n)
  PROVE  TypeOK' /\ \A m \in Node : Keeps(m)
<1>1. PICK i \in DOMAIN files[n] : files' = [files EXCEPT ![n][i] = Corrupt]
  BY DEF Damage
<1>2. TypeOK /\ files[n] \in Directory /\ NoTwins(files[n])
  BY DEF RotInv, RotSafe, TypeOK, Directory
<1>3. files'[n] = [files[n] EXCEPT ![i] = Corrupt] /\ \A m \in Node : m # n => files'[m] = files[m]
  BY <1>1, <1>2 DEF TypeOK
<1>4. /\ files'[n] \in Directory /\ NoTwins(files'[n])
      /\ ReadJournal(files'[n]) \subseteq ReadJournal(files[n])
  BY <1>2, <1>3, DamageTakes
<1>5. TypeOK'
  <2>1. files' \in [Node -> Seq(Entry \cup {Corrupt})]
    BY <1>1, <1>2, <1>3, <1>4 DEF TypeOK, Directory
  <2>. QED  BY <1>2, <2>1 DEF Damage, TypeOK, memory
<1>6. ASSUME NEW m \in Node PROVE Keeps(m)
  <2>1. RotSafe(m)
    BY DEF RotInv
  <2>2. /\ life' = life /\ journal' = journal /\ running' = running /\ queue' = queue
    BY DEF Damage, memory
  <2>3. NoTwins(files'[m]) /\ ReadJournal(files'[m]) \subseteq ReadJournal(files[m])
    BY <1>3, <1>4, <2>1 DEF RotSafe
  <2>. QED  BY <2>1, <2>2, <2>3 DEF RotSafe, Keeps, Durable, Appended, InTask, Live
<1>. QED  BY <1>5, <1>6

LEMMA RotStep ==
  ASSUME RotInv, [RotNext]_rotVars
  PROVE  TypeOK' /\ \A m \in Node : Keeps(m)
<1>1. CASE NodeNext
  <2>1. TypeOK'
    BY <1>1, TypeStep DEF RotInv
  <2>2. ASSUME NEW n \in Node, NodeStep(n), NEW m \in Node PROVE Keeps(m)
    BY <2>2, LifecycleKeeps, TaskKeeps DEF NodeStep
  <2>. QED  BY <1>1, <2>1, <2>2, CallKeeps DEF NodeNext
<1>2. ASSUME NEW n \in Node, Damage(n)
      PROVE  TypeOK' /\ \A m \in Node : Keeps(m)
  BY <1>2, DamageKeeps
<1>3. CASE UNCHANGED rotVars
  <2>1. [NodeNext]_nodeVars
    BY <1>3 DEF rotVars
  <2>2. \A m \in Node : RotSafe(m) /\ Untouched(m)
    BY <1>3 DEF RotInv, rotVars, nodeVars, disk, memory, Untouched
  <2>. QED  BY <2>1, <2>2, TypeStep, UntouchedKeeps DEF RotInv
<1>. QED  BY <1>1, <1>2, <1>3 DEF RotNext

\* Between any two steps of the nodes and of the damage, RotInv holds.
THEOREM RotInvariant == RotSpec => []RotInv
<1>1. RotInit => RotInv
  <2>. SUFFICES ASSUME RotInit PROVE RotInv
    OBVIOUS
  <2>1. TypeOK
    BY TypeInit DEF RotInit
  <2>2. ASSUME NEW n \in Node PROVE RotSafe(n)
    BY DEF RotInit, NodeInit, RotSafe, NoTwins, OneEach, Live, InTask
  <2>. QED  BY <2>1, <2>2 DEF RotInv, RotInit
<1>2. RotInv /\ [RotNext]_rotVars => RotInv'
  <2>1. RotInv /\ [RotNext]_rotVars => rotten' \in Nat
    BY DEF RotInv, RotNext, Damage, rotVars
  <2>. QED  BY <2>1, RotStep DEF RotInv, Keeps
<1>. QED  BY <1>1, <1>2, PTL DEF RotSpec

\* Whatever is damaged, a live node knows every decision that can still be read from
\* its disk, each under its own id, so it never executes one of them again (recover,
\* readJournal and appendJournal of file_store.ts).
THEOREM ReadableStaysKnown == RotSpec => []ReadableIsKnown
<1>1. RotInv => ReadableIsKnown
  BY DEF RotInv, RotSafe, ReadableIsKnown, Live, OneEach
<1>. QED  BY <1>1, RotInvariant, PTL

\* A damaged file takes nothing from the memory of a process that runs: a node
\* forgets a decision only by exiting (submitDecision never reads the disk again).
THEOREM DamageForgetsNothing == RotSpec => LiveJournalGrows
<1>1. RotInv /\ [RotNext]_rotVars =>
        [\A n \in Node : life'[n] # "STOPPED" => journal[n] \subseteq journal'[n]]_rotVars
  BY RotStep DEF Keeps
<1>. QED  BY <1>1, RotInvariant, PTL DEF RotSpec, LiveJournalGrows

\* What a step may do to the files of a node: append the entry of its task, damage one,
\* or nothing.
LEMMA FilesStep ==
  ASSUME RotInv, RotNext, NEW m \in Node, files'[m] # files[m]
  PROVE  \/ AppendDecision(m) /\ files'[m] = AppendJournal(files[m], running[m].entry)
         \/ Damage(m) /\ rotten' # rotten
<1>1. TypeOK
  BY DEF RotInv
<1>2. ASSUME NEW n \in Node, NodeStep(n)
      PROVE  AppendDecision(m) /\ files'[m] = AppendJournal(files[m], running[m].entry)
  <2>1. AppendDecision(n)
    BY <1>2 DEF NodeStep, Launch, FinishStart, BeginStop, FinishStop, Crash, ProcessGone,
       Internal, ResolveAtOnce, BeginDecision, PushDecision, WriteSnapshot, WriteFails, disk
  <2>. QED  BY <1>1, <2>1 DEF AppendDecision, TypeOK
<1>3. ASSUME NEW c \in Caller, NEW n \in Node, NEW b \in Body,
             Post(c, n, b) \/ PostFails(c, n, b)
      PROVE  FALSE
  BY <1>3 DEF Post, PostFails, disk
<1>4. ASSUME NEW c \in Caller, HangUp(c) PROVE FALSE
  BY <1>4 DEF HangUp, disk
<1>5. ASSUME NEW n \in Node, Damage(n)
      PROVE  Damage(m) /\ rotten' # rotten
  <2>1. n = m
    BY <1>1, <1>5 DEF Damage, TypeOK
  <2>2. rotten' # rotten
    BY <1>5 DEF Damage, RotInv
  <2>. QED  BY <1>5, <2>1, <2>2
<1>. QED  BY <1>2, <1>3, <1>4, <1>5 DEF RotNext, NodeNext

\* A node never loses more to its appends than it gains: the number of files it can
\* read falls by damage alone (appendJournal of file_store.ts).
THEOREM NeverFewerReadable == RotSpec => ReadableNeverFewer
<1>. DEFINE Held == rotten' = rotten => \A n \in Node :
                      Cardinality(ReadableFiles(files[n])) <= Cardinality(ReadableFiles(files[n]))'
<1>1. ASSUME RotInv, RotNext, rotten' = rotten, NEW m \in Node
      PROVE  Cardinality(ReadableFiles(files[m])) <= Cardinality(ReadableFiles(files'[m]))
  <2>1. files[m] \in Directory /\ RotSafe(m) /\ TypeOK
    BY <1>1 DEF RotInv, TypeOK, Directory
  <2>2. CASE files'[m] = files[m]
    BY <2>1, <2>2, ReadableBound
  <2>3. CASE files'[m] # files[m]
    <3>1. AppendDecision(m) /\ files'[m] = AppendJournal(files[m], running[m].entry)
      BY <1>1, <2>3, FilesStep
    <3>2. InTask(m, "append") /\ running[m] \in Running /\ running[m].entry \in Entry
      BY <2>1, <3>1 DEF AppendDecision, InTask, TypeOK, Running
    <3>3. idOf[running[m].entry.decision] \notin IdsOf(ReadJournal(files[m]))
      BY <2>1, <3>2 DEF RotSafe, Durable, Appended, InTask, IdsOf
    <3>. QED  BY <2>1, <3>1, <3>2, <3>3, AppendKeepsReadable DEF RotSafe
  <2>. QED  BY <2>2, <2>3
<1>2. RotInv /\ [RotNext]_rotVars => [Held]_rotVars
  BY <1>1
<1>. QED  BY <1>2, RotInvariant, PTL DEF RotSpec, ReadableNeverFewer

\* A directory with a damaged file is full: every later decision takes a number that is
\* in use (appendJournal of file_store.ts; the finding of bit_rot_loss).
THEOREM DamagedIsFull == RotSpec => DamagedNeverGrows
<1>. DEFINE Full == \A n \in Node : (\E i \in DOMAIN files[n] : files[n][i] = Corrupt) =>
                      Len(files'[n]) = Len(files[n])
<1>1. ASSUME RotInv, RotNext, NEW m \in Node, NEW i \in DOMAIN files[m], files[m][i] = Corrupt
      PROVE  Len(files'[m]) = Len(files[m])
  <2>1. files[m] \in Directory /\ TypeOK
    BY <1>1 DEF RotInv, TypeOK, Directory
  <2>2. CASE files'[m] # files[m] /\ Damage(m)
    <3>1. PICK j \in DOMAIN files[m] : files' = [files EXCEPT ![m][j] = Corrupt]
      BY <2>2 DEF Damage
    <3>2. files'[m] = [files[m] EXCEPT ![j] = Corrupt]
      BY <2>1, <3>1 DEF TypeOK
    <3>. QED  BY <2>1, <3>2 DEF Directory
  <2>3. CASE files'[m] # files[m] /\ ~Damage(m)
    <3>1. AppendDecision(m) /\ files'[m] = AppendJournal(files[m], running[m].entry)
      BY <1>1, <2>3, FilesStep
    <3>2. running[m].entry \in Entry
      BY <2>1, <3>1 DEF AppendDecision, InTask, TypeOK, Running
    <3>. QED  BY <1>1, <2>1, <3>1, <3>2, AppendToDamaged
  <2>. QED  BY <2>2, <2>3
<1>2. RotInv /\ [RotNext]_rotVars => [Full]_rotVars
  BY <1>1
<1>. QED  BY <1>2, RotInvariant, PTL DEF RotSpec, DamagedNeverGrows
===============================================================================
