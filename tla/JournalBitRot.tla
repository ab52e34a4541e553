---------------------------- MODULE JournalBitRot ----------------------------
(***************************************************************************)
(* The runtime nodes on a disk that damages journal files: a file written  *)
(* earlier stops parsing (truncated, overwritten by hand), and recovery    *)
(* skips it.                                                               *)
(***************************************************************************)
EXTENDS RuntimeNode

CONSTANT MaxRot     \* model bound: damaged files

ASSUME BitRotAssumption == MaxRot \in Nat

VARIABLE rotten     \* how many files were damaged so far

rotVars == <<nodeVars, rotten>>

Damage(n) ==
  /\ rotten < MaxRot
  /\ rotten' = rotten + 1
  /\ \E i \in DOMAIN files[n] :
       /\ files[n][i] # Corrupt
       /\ files' = [files EXCEPT ![n][i] = Corrupt]
  /\ UNCHANGED <<life, snapshot, memory, queue, running, call, exits, ioErrors>>

RotInit == NodeInit /\ rotten = 0

RotNext == (NodeNext /\ rotten' = rotten) \/ \E n \in Node : Damage(n)

RotSpec == RotInit /\ [][RotNext]_rotVars

------------------------------------------------------------------------------

\* On a damaged disk a live node still knows every decision that can be read
\* there, so it never executes one of them again; and no id is there twice.
ReadableIsKnown ==
  \A n \in Node : life[n] \in {"RUNNING", "STOPPING"} =>
    /\ Durable(n) \subseteq journal[n] \cup Appended(n)
    /\ \A e, f \in journal[n] : idOf[e.decision] = idOf[f.decision] => e = f

\* Damage on disk never reaches the journal of a process that is running: it
\* forgets a decision only by exiting.
LiveJournalGrows ==
  [][\A n \in Node : life'[n] # "STOPPED" => journal[n] \subseteq journal'[n]]_rotVars

\* A node never makes the damage worse in number: what it writes takes the place of at
\* most one file it could read, and can be read itself (appendJournal).
ReadableNeverFewer ==
  [][rotten' = rotten => \A n \in Node :
       Cardinality(ReadableFiles(files[n])) <= Cardinality(ReadableFiles(files[n]))']_rotVars

\* While a damaged file is there the directory does not grow: what is appended from then
\* on goes to a number that is taken, again and again to the same one unless that
\* is the damaged file (appendJournal).
DamagedNeverGrows ==
  [][\A n \in Node :
       (\E i \in DOMAIN files[n] : files[n][i] = Corrupt) =>
         Len(files'[n]) = Len(files[n])]_rotVars

\* What file_store.ts:89 promises: an entry that does not parse is skipped and
\* recovery continues with the others, so a step of the node (and not of the
\* disk) keeps every entry that can still be read.
SkippingLosesNothingElse ==
  [][rotten' = rotten => \A n \in Node : Durable(n) \subseteq Durable(n)']_rotVars
==============================================================================
