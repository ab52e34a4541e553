------------------------ MODULE DecisionJournalProofs ------------------------
(***************************************************************************)
(* What reading and appending do to an intact journal directory.           *)
(***************************************************************************)
EXTENDS DecisionJournal, FiniteSetTheorems, SequenceTheorems, TLAPS

Directory == Seq(Entry \cup {Corrupt})

\* The numbers the files of a directory have.
LEMMA FirstNumbers ==
  ASSUME NEW n \in Nat
  PROVE  IsFiniteSet(1 .. n) /\ Cardinality(1 .. n) = n
<1>1. Cardinality(1 .. n) = IF 1 > n THEN 0 ELSE n - 1 + 1
  BY FS_Interval
<1>. QED  BY <1>1, FS_Interval

\* Recovery keeps every file of an intact directory (readJournal).
LEMMA IntactReadsAll ==
  ASSUME NEW dir \in Directory, Intact(dir)
  PROVE  /\ ReadableFiles(dir) = DOMAIN dir
         /\ DOMAIN dir = 1 .. Len(dir)
         /\ Len(dir) \in Nat
         /\ \A i \in DOMAIN dir : dir[i] \in Entry
<1>1. Len(dir) \in Nat /\ DOMAIN dir = 1 .. Len(dir)
  BY DEF Directory
<1>2. \A i \in DOMAIN dir : dir[i] \in Entry
  BY <1>1 DEF Directory, Intact
<1>3. ReadableFiles(dir) = DOMAIN dir
  BY <1>1 DEF ReadableFiles, Intact
<1>. QED  BY <1>1, <1>2, <1>3

\* A set of files that can be read is finite and at most as large as the
\* directory, damaged or not, so an append never leaves a gap (appendJournal).
LEMMA ReadableBound ==
  ASSUME NEW dir \in Directory
  PROVE  /\ Cardinality(ReadableFiles(dir)) \in Nat
         /\ Cardinality(ReadableFiles(dir)) <= Len(dir)
<1>1. Len(dir) \in Nat /\ DOMAIN dir = 1 .. Len(dir)
  BY DEF Directory
<1>2. IsFiniteSet(1 .. Len(dir)) /\ Cardinality(1 .. Len(dir)) = Len(dir)
  BY <1>1, FirstNumbers
<1>3. ReadableFiles(dir) \subseteq 1 .. Len(dir)
  BY <1>1 DEF ReadableFiles
<1>4. /\ IsFiniteSet(ReadableFiles(dir))
      /\ Cardinality(ReadableFiles(dir)) <= Cardinality(1 .. Len(dir))
  BY <1>2, <1>3, FS_Subset
<1>. QED  BY <1>2, <1>4, FS_CardinalityType

\* An append to any directory yields a directory (appendJournal).
LEMMA AppendType ==
  ASSUME NEW dir \in Directory, NEW e \in Entry
  PROVE  AppendJournal(dir, e) \in Directory
<1>1. CASE Cardinality(ReadableFiles(dir)) + 1 <= Len(dir)
  BY <1>1, ReadableBound DEF AppendJournal, WriteFile, Directory
<1>2. CASE ~(Cardinality(ReadableFiles(dir)) + 1 <= Len(dir))
  BY <1>2 DEF AppendJournal, WriteFile, Directory
<1>. QED  BY <1>1, <1>2

\* On an intact directory an append adds a new last file (appendJournal).
LEMMA IntactAppend ==
  ASSUME NEW dir \in Directory, NEW e \in Entry, Intact(dir)
  PROVE  AppendJournal(dir, e) = Append(dir, e)
<1>1. ReadableFiles(dir) = 1 .. Len(dir) /\ Len(dir) \in Nat
  BY IntactReadsAll
<1>2. Cardinality(ReadableFiles(dir)) = Len(dir)
  BY <1>1, FirstNumbers
<1>. QED  BY <1>1, <1>2 DEF AppendJournal, WriteFile

\* Reading an intact directory after appending a decision with a new id gives
\* exactly one entry more, and the directory stays intact.
LEMMA AppendReads ==
  ASSUME NEW dir \in Directory, NEW e \in Entry, Intact(dir),
         idOf[e.decision] \notin IdsOf(ReadJournal(dir))
  PROVE  /\ ReadJournal(AppendJournal(dir, e)) = ReadJournal(dir) \cup {e}
         /\ Intact(AppendJournal(dir, e))
<1>. DEFINE new == AppendJournal(dir, e)
<1>1. /\ ReadableFiles(dir) = DOMAIN dir
      /\ DOMAIN dir = 1 .. Len(dir)
      /\ Len(dir) \in Nat
      /\ \A i \in DOMAIN dir : dir[i] \in Entry
  BY IntactReadsAll
<1>2. new = Append(dir, e) /\ new \in Directory
  BY IntactAppend, AppendType
<1>3. /\ DOMAIN new = 1 .. Len(dir) + 1
      /\ \A i \in 1 .. Len(dir) : new[i] = dir[i]
      /\ new[Len(dir) + 1] = e
  BY <1>1, <1>2 DEF Directory
<1>4. \A i \in DOMAIN dir : idOf[dir[i].decision] # idOf[e.decision]
  BY <1>1 DEF ReadJournal, IdsOf
<1>5. Corrupt \notin Entry
  BY JournalAssumption DEF Entry
<1>6. Intact(new)
  <2>1. \A i \in DOMAIN new : new[i] # Corrupt
    BY <1>1, <1>3, <1>5
  <2>2. ASSUME NEW i \in DOMAIN new, NEW j \in DOMAIN new,
               idOf[new[i].decision] = idOf[new[j].decision]
        PROVE  i = j
    <3>1. CASE i = Len(dir) + 1 /\ j # Len(dir) + 1
      BY <1>1, <1>3, <1>4, <2>2, <3>1
    <3>2. CASE i # Len(dir) + 1 /\ j = Len(dir) + 1
      BY <1>1, <1>3, <1>4, <2>2, <3>2
    <3>3. CASE i # Len(dir) + 1 /\ j # Len(dir) + 1
      BY <1>1, <1>3, <2>2, <3>3 DEF Intact
    <3>. QED  BY <3>1, <3>2, <3>3
  <2>. QED  BY <2>1, <2>2 DEF Intact
<1>7. ReadableFiles(new) = DOMAIN new
  BY <1>2, <1>6, IntactReadsAll
<1>8. ReadJournal(new) = {new[i] : i \in 1 .. Len(dir) + 1}
  BY <1>3, <1>7 DEF ReadJournal
<1>9. ReadJournal(dir) = {dir[i] : i \in 1 .. Len(dir)}
  BY <1>1 DEF ReadJournal
<1>10. {new[i] : i \in 1 .. Len(dir) + 1} = {dir[i] : i \in 1 .. Len(dir)} \cup {e}
  BY <1>1, <1>3
<1>. QED  BY <1>6, <1>8, <1>9, <1>10
=============================================================================
