--------------------------- MODULE DecisionJournal ---------------------------
(***************************************************************************)
(* The write-ahead journal of a node (RuntimeFileStore): a directory of    *)
(* numbered files, one stored decision per file.  A directory is a         *)
(* sequence: file i of the sequence is <i>.json.  Only the names ending in *)
(* .json are read, so the .tmp file of an interrupted atomic write is not  *)
(* part of the state.                                                      *)
(*                                                                         *)
(* The order in which readJournal returns the entries is never observable  *)
(* (every reader sorts them by decision id), so a journal that has been    *)
(* read is the SET of its entries.                                         *)
(***************************************************************************)
EXTENDS Naturals, Sequences, FiniteSets

CONSTANTS
  Decision,     \* compliance decisions, content included
  DecisionId,   \* the digests deriveComplianceDecisionId can produce
  idOf,         \* the id of each decision; two decisions may share one
  Corrupt       \* content of a file that no longer parses

ASSUME JournalAssumption ==
  /\ idOf \in [Decision -> DecisionId]
  /\ Corrupt \notin [decision : Decision, ts : Nat]

\* StoredDecision: the id is a function of the decision.
Entry == [decision : Decision, ts : Nat]

IdsOf(entries) == {idOf[e.decision] : e \in entries}

\* The files readJournal keeps: those that parse, the first of each id.
ReadableFiles(dir) ==
  {i \in DOMAIN dir :
     /\ dir[i] # Corrupt
     /\ \A j \in 1 .. i - 1 :
          dir[j] # Corrupt => idOf[dir[j].decision] # idOf[dir[i].decision]}

ReadJournal(dir) == {dir[i] : i \in ReadableFiles(dir)}

\* appendJournal numbers the new file after the entries it could READ, and
\* the atomic rename replaces a file that already has that number.
WriteFile(dir, i, e) ==
  IF i <= Len(dir) THEN [dir EXCEPT ![i] = e] ELSE Append(dir, e)

AppendJournalOffByOne(dir, e) ==
  LET n == Cardinality(ReadableFiles(dir))
  IN  WriteFile(dir, IF n = 0 THEN 1 ELSE n, e)

AppendJournal(dir, e) ==
  WriteFile(dir, Cardinality(ReadableFiles(dir)) + 1, e)

\* A directory whose files all parse and hold distinct ids.
Intact(dir) ==
  /\ \A i \in DOMAIN dir : dir[i] # Corrupt
  /\ \A i, j \in DOMAIN dir :
       idOf[dir[i].decision] = idOf[dir[j].decision] => i = j

=============================================================================
