------------------------ MODULE InstanceFiles_proofs ------------------------
(***************************************************************************)
(* Proofs about InstanceFiles.  The inductive invariant says, for every     *)
(* step of a transaction, of a rollback and of a restart, which of the     *)
(* files hold the committed contents at that step.                         *)
(***************************************************************************)
EXTENDS InstanceFiles, SequenceTheorems, TLAPS

-----------------------------------------------------------------------------
(* The inductive invariant.                                                 *)

\* An absent file has no contents.
FilesOK ==
    /\ index.file = "none" => index.entries = <<>>
    /\ indexRb.file = "none" => indexRb = NoIndex
    /\ dataRb.file = "none" => dataRb = NoSize

\* The operation is known while its transaction works.
OperationOK ==
    /\ pc \in {"begin", "beginIndex", "headIndex", "copyIndex", "beginData", "begun",
              "append", "entry"} => op \in Operations
    /\ pc = "append" => op.kind # "delete"

\* The committed index is in the rollback file if there is one.
IndexKept ==
    IF indexRb.file = "none" THEN index.entries = saved.entries
    ELSE indexRb.entries = saved.entries

\* The committed data file is what comes before the size in the rollback file.
DataKept ==
    \/ dataRb.file = "none" /\ data = saved.data
    \/ /\ dataRb.file = "whole" /\ dataRb.size = Len(saved.data)
       /\ Resized(data, Len(saved.data)) = saved.data

\* The contents of the files are the committed ones, in each phase.
Beginning == state = {"begin"} /\ IndexKept /\ data = saved.data
Committing == state = {"commit"} /\ index.entries = saved.entries /\ data = saved.data
Undoing == state \subseteq {"rollback"} /\ IndexKept /\ DataKept
Working == Undoing /\ state = {} /\ indexRb.file # "none" /\ dataRb.file = "whole"
Resting == /\ index.entries = saved.entries /\ data = saved.data
           /\ indexRb = NoIndex /\ dataRb = NoSize /\ state = {}

\* The files at each step.
FilesAt ==
    /\ pc \in {"idle", "begin"} => Resting
    /\ pc = "beginIndex" => Beginning /\ indexRb = NoIndex /\ dataRb = NoSize
    /\ pc \in {"headIndex", "copyIndex", "beginData"} =>
           Beginning /\ indexRb.file # "none" /\ dataRb = NoSize
    /\ pc \in {"headIndex", "beginData"} => index.entries = saved.entries
    /\ pc = "headIndex" => indexRb = TornIndex
    /\ pc = "begun" => /\ Beginning /\ indexRb.file # "none"
                       /\ dataRb = [file |-> "whole", size |-> Len(saved.data)]
    /\ pc \in {"append", "entry", "compactData", "commit", "undo"} => Working
    /\ pc = "append" => data = saved.data
    /\ pc \in Compacting => state = {}
    /\ pc \in {"dropIndexRb", "dropDataRb", "committed"} => Committing
    /\ pc \in {"dropDataRb", "committed"} => indexRb = NoIndex
    /\ pc \in {"undoIndex", "undoData", "undoDrop", "undone"} => Undoing
    /\ pc \in {"undoData", "undoDrop", "undone"} => indexRb = NoIndex
    /\ pc = "undoDrop" => data = saved.data
    /\ pc \in {"unbeginIndex", "unbeginRename", "unbeginData", "unbegun"} => Beginning
    /\ pc = "unbeginRename" => indexRb.file # "none"
    /\ pc \in {"unbeginData", "unbegun"} => indexRb = NoIndex
    /\ pc \in {"committed", "undone", "unbegun"} => dataRb = NoSize
    /\ pc = "down" => Beginning \/ Committing \/ Undoing
    /\ pc # "unreadable"

IInv == TypeOK /\ FilesOK /\ OperationOK /\ FilesAt

\* Nothing fails and nothing stops between the compaction of the data file and
\* the commit.
NoFaultCompacting == CrashAt \cap Compacting = {} /\ FailAt \cap Compacting = {}

-----------------------------------------------------------------------------
(* Contents of files.                                                       *)

LEMMA Facts ==
    /\ SizeOf \in [Values -> Nat \ {0}]
    /\ NoIndex \in IndexFile /\ TornIndex \in IndexFile /\ EmptyIndex \in IndexFile
    /\ NoSize \in SizeFile /\ TornSize \in SizeFile
    /\ NoTmp \in TmpFile
BY SizesAreSizes DEF IndexFile, FileStates, NoIndex, TornIndex, EmptyIndex, SizeFile,
   NoSize, TornSize, NoTmp, TmpFile

\* An encoded instance is a sequence of cells, and so is a part of it.
LEMMA EncodedType ==
    ASSUME NEW v \in Values
    PROVE  /\ Encoded(v) \in Seq(Cells) /\ Len(Encoded(v)) = SizeOf[v]
           /\ \A k \in 1 .. SizeOf[v] - 1 : SubSeq(Encoded(v), 1, k) \in Seq(Cells)
<1>1. SizeOf[v] \in Nat
  BY SizesAreSizes
<1>2. \A j \in 1 .. SizeOf[v] : <<v, j>> \in Cells
  BY <1>1 DEF Cells
<1>3. Encoded(v) \in Seq(Cells) /\ Len(Encoded(v)) = SizeOf[v]
  BY <1>1, <1>2 DEF Encoded
<1>4. ASSUME NEW k \in 1 .. SizeOf[v] - 1
      PROVE  SubSeq(Encoded(v), 1, k) \in Seq(Cells)
  <2>1. \A i \in 1 .. k : Encoded(v)[i] \in Cells
    BY <1>1, <1>3
  <2> QED
    BY <2>1, <1>1, SubSeqProperties
<1> QED
  BY <1>3, <1>4

\* What is cut off or extended is a data file; what was appended is cut off.
LEMMA ResizedData ==
    ASSUME NEW d \in Seq(Cells)
    PROVE  /\ \A n \in Nat : Resized(d, n) \in Seq(Cells) /\ Len(Resized(d, n)) = n
           /\ Resized(d, Len(d)) = d
           /\ \A x \in Seq(Cells), n \in Nat :
                  n <= Len(d) => Resized(d \o x, n) = Resized(d, n)
<1>1. <<Absent, 0>> \in Cells
  BY DEF Cells
<1>2. ASSUME NEW n \in Nat
      PROVE  Resized(d, n) \in Seq(Cells) /\ Len(Resized(d, n)) = n
  <2>1. \A j \in 1 .. n : (IF j <= Len(d) THEN d[j] ELSE <<Absent, 0>>) \in Cells
    BY <1>1
  <2> QED
    BY <2>1 DEF Resized
<1>3. Resized(d, Len(d)) = d
  BY DEF Resized
<1>4. ASSUME NEW x \in Seq(Cells), NEW n \in Nat, n <= Len(d)
      PROVE  Resized(d \o x, n) = Resized(d, n)
  <2>1. \A j \in 1 .. n : j <= Len(d) /\ j <= Len(d \o x) /\ (d \o x)[j] = d[j]
    BY <1>4
  <2> QED
    BY <2>1 DEF Resized
<1> QED
  BY <1>2, <1>3, <1>4

\* Resizing twice to the same length changes nothing.
LEMMA ResizedTwice ==
    ASSUME NEW d \in Seq(Cells), NEW n \in Nat
    PROVE  Resized(Resized(d, n), n) = Resized(d, n)
<1>1. Resized(d, n) \in Seq(Cells) /\ Len(Resized(d, n)) = n
  BY ResizedData
<1> QED
  BY <1>1, ResizedData

\* Entries that are added or freed make an index.
LEMMA WithEntryType ==
    ASSUME NEW f \in IndexFile, NEW n \in Names, NEW at \in Int, NEW size \in Nat
    PROVE  /\ WithEntry(f, n, at, size) \in IndexFile
           /\ WithEntry(f, n, at, size).file # "none"
<1> DEFINE e == [name |-> n, free |-> FALSE, at |-> at, size |-> size]
<1>1. e \in Entry
  BY DEF Entry
<1>2. Append(f.entries, e) \in Seq(Entry)
  BY <1>1 DEF IndexFile
<1> HIDE DEF e
<1>3. WithEntry(f, n, at, size) =
        IF f.file = "torn" THEN f
        ELSE [f EXCEPT !.file = "whole", !.entries = Append(f.entries, e)]
  BY DEF WithEntry, e
<1>4. [f EXCEPT !.file = "whole", !.entries = Append(f.entries, e)] \in IndexFile
  BY <1>2 DEF IndexFile, FileStates
<1>5. [f EXCEPT !.file = "whole", !.entries = Append(f.entries, e)].file = "whole"
  BY DEF IndexFile
<1> QED
  BY <1>3, <1>4, <1>5

LEMMA FreedType ==
    ASSUME NEW f \in IndexFile, NEW n \in Names
    PROVE  /\ Freed(f, n) \in IndexFile /\ Freed(f, n).file = f.file
           /\ f.entries = <<>> => Freed(f, n).entries = <<>>
<1> DEFINE es == MarkedFree(f, n)
<1>1. f.entries \in Seq(Entry) /\ f.count \in Nat /\ DOMAIN f.entries = 1 .. Len(f.entries)
  BY DEF IndexFile
<1>2. ASSUME NEW i \in 1 .. Len(f.entries)
      PROVE  [f.entries[i] EXCEPT !.free = TRUE] \in Entry /\ f.entries[i] \in Entry
  <2>1. f.entries[i] \in Entry
    BY <1>1
  <2> QED
    BY <2>1 DEF Entry
<1>3. \A i \in 1 .. Len(f.entries) :
        (IF i \in Found(f, n) THEN [f.entries[i] EXCEPT !.free = TRUE]
         ELSE f.entries[i]) \in Entry
  BY <1>2, Zenon
<1>4. es \in [1 .. Len(f.entries) -> Entry]
  BY <1>1, <1>3 DEF MarkedFree
<1>5. es \in Seq(Entry)
  BY <1>4, <1>1
<1>6. f.entries = <<>> => es = <<>>
  <2>1. f.entries = <<>> => 1 .. Len(f.entries) = {}
    OBVIOUS
  <2> QED
    BY <1>4, <2>1, <1>5
<1> DEFINE c == f.count + 1
<1>7. c \in Nat
  BY <1>1
<1> HIDE DEF es, c
<1>8. Freed(f, n) = [file |-> f.file, count |-> c, entries |-> es]
  <2>1. Freed(f, n) = [f EXCEPT !.count = c, !.entries = es]
    BY DEF Freed, es, c
  <2> QED
    BY <2>1 DEF IndexFile
<1>9. [file |-> f.file, count |-> c, entries |-> es] \in IndexFile
  BY <1>7, <1>5 DEF IndexFile
<1> QED
  BY <1>6, <1>8, <1>9

LEMMA UpdatedIndexType ==
    ASSUME TypeOK, op \in Operations, ~Refused,
           index.file = "none" => index.entries = <<>>
    PROVE  UpdatedIndex \in IndexFile /\ UpdatedIndex.file # "none"
<1>1. op.name \in Names /\ index \in IndexFile /\ Len(data) \in Nat
  BY DEF TypeOK, Operations
<1>2. Freed(index, op.name) \in IndexFile /\ Freed(index, op.name).file = index.file
  BY <1>1, FreedType
<1>3. op.kind # "create" => index.file # "none"
  BY DEF Refused, Found
<1>4. CASE op.kind = "delete"
  <2>1. UpdatedIndex = Freed(index, op.name)
    BY <1>4 DEF UpdatedIndex
  <2> QED
    BY <2>1, <1>2, <1>3, <1>4
<1>5. CASE op.kind # "delete"
  <2>1. op.value \in Values /\ op.kind \in {"create", "modify"}
    BY <1>5 DEF Operations
  <2>2. SizeOf[op.value] \in Nat
    BY <2>1, Facts
  <2> DEFINE place == Len(data) - SizeOf[op.value]
  <2>3. place \in Int
    BY <1>1, <2>2
  <2>4. UpdatedIndex = WithEntry(IF op.kind = "create" THEN index ELSE Freed(index, op.name),
                                 op.name, place, SizeOf[op.value])
    BY <2>1 DEF UpdatedIndex
  <2> HIDE DEF place
  <2> QED
    BY <2>2, <2>3, <2>4, <1>1, <1>2, WithEntryType
<1> QED
  BY <1>4, <1>5

LEMMA TmpFileType ==
    ASSUME NEW t \in TmpFile, NEW r \in Nat
    PROVE  /\ \A c \in Seq(Cells) : [t EXCEPT !.read = r, !.cells = c] \in TmpFile
           /\ \A a \in Nat : [t EXCEPT !.read = r, !.adjust = a] \in TmpFile
           /\ \A e \in Seq(Entry) : [t EXCEPT !.read = r, !.entries = e] \in TmpFile
BY DEF TmpFile

-----------------------------------------------------------------------------
(* The steps.                                                               *)

\* What an inductive step establishes.
LEMMA StartStep ==
    ASSUME IInv, StartOperation
    PROVE  IInv'
<1> USE DEF IInv, StartOperation, files
<1>1. TypeOK'
  BY DEF TypeOK, Steps
<1>2. FilesOK' /\ OperationOK'
  BY DEF FilesOK, OperationOK
<1>3. FilesAt'
  BY DEF FilesAt, Resting, Compacting
<1> QED
  BY <1>1, <1>2, <1>3

LEMMA BeginSteps ==
    ASSUME IInv, Begin
    PROVE  IInv'
<1> USE DEF IInv, Goto, LoopTo
<1>1. CASE BeginState
  <2> USE <1>1 DEF BeginState
  <2>1. TypeOK'
    BY DEF TypeOK, Steps
  <2>2. FilesOK' /\ OperationOK'
    BY DEF FilesOK, OperationOK
  <2>3. FilesAt'
    BY DEF FilesAt, Compacting, Resting, Beginning, IndexKept, NoIndex
  <2> QED
    BY <2>1, <2>2, <2>3
<1>2. CASE BeginIndex
  <2> USE <1>2 DEF BeginIndex
  <2>1. TypeOK'
    BY Facts DEF TypeOK, Steps
  <2>2. FilesOK' /\ OperationOK'
    BY DEF FilesOK, OperationOK, NoIndex, TornIndex
  <2>3. FilesAt'
    BY DEF FilesAt, Compacting, Beginning, IndexKept, NoIndex, TornIndex, FilesOK
  <2> QED
    BY <2>1, <2>2, <2>3
<1>3. CASE HeadIndex
  <2> USE <1>3 DEF HeadIndex
  <2>0. indexRb' \in {EmptyIndex, TornIndex}
    OBVIOUS
  <2>1. TypeOK'
    BY <2>0, Facts DEF TypeOK, Steps
  <2>2. FilesOK' /\ OperationOK'
    BY <2>0 DEF FilesOK, OperationOK, EmptyIndex, TornIndex
  <2>3. FilesAt'
    BY <2>0 DEF FilesAt, Compacting, Beginning, IndexKept, EmptyIndex, TornIndex, NoIndex
  <2> QED
    BY <2>1, <2>2, <2>3
<1>4. CASE CopyIndex
  <2> USE <1>4 DEF CopyIndex
  <2>1. TypeOK'
    BY DEF TypeOK, Steps
  <2>2. FilesOK' /\ OperationOK'
    BY DEF FilesOK, OperationOK, FilesAt
  <2>3. FilesAt'
    BY DEF FilesAt, Compacting, Beginning, IndexKept
  <2> QED
    BY <2>1, <2>2, <2>3
<1>5. CASE BeginData
  <2> USE <1>5 DEF BeginData
  <2>0. Len(data) \in Nat
    BY DEF TypeOK
  <2>1. TypeOK'
    BY <2>0 DEF TypeOK, Steps, SizeFile, FileStates
  <2>2. FilesOK' /\ OperationOK'
    BY DEF FilesOK, OperationOK
  <2>3. FilesAt'
    BY DEF FilesAt, Compacting, Beginning, IndexKept
  <2> QED
    BY <2>1, <2>2, <2>3
<1>6. CASE Begun
  <2> USE <1>6 DEF Begun
  <2>1. TypeOK'
    BY DEF TypeOK, Steps
  <2>2. FilesOK' /\ OperationOK'
    BY DEF FilesOK, OperationOK
  <2>3. Resized(data, Len(data)) = data
    BY ResizedData DEF TypeOK
  <2>4. FilesAt'
    BY <2>3 DEF FilesAt, Compacting, Beginning, Working, Undoing, IndexKept, DataKept
  <2> QED
    BY <2>1, <2>2, <2>4
<1> QED
  BY <1>1, <1>2, <1>3, <1>4, <1>5, <1>6 DEF Begin

LEMMA BodySteps ==
    ASSUME IInv, Body
    PROVE  IInv'
<1> USE DEF IInv, Goto, LoopTo
<1>1. CASE AppendInstance
  <2> USE <1>1 DEF AppendInstance
  <2>1. op.value \in Values
    BY DEF OperationOK, Operations
  <2> DEFINE x == Encoded(op.value)
  <2>2. x \in Seq(Cells)
    BY <2>1, EncodedType
  <2> HIDE DEF x
  <2>3. data' = data \o x
    BY DEF x
  <2>4. data \in Seq(Cells) /\ Len(data) \in Nat
    BY DEF TypeOK
  <2>5. data' \in Seq(Cells)
    BY <2>2, <2>3, <2>4
  <2>6. TypeOK'
    BY <2>5 DEF TypeOK, Steps
  <2>7. FilesOK' /\ OperationOK'
    BY DEF FilesOK, OperationOK
  <2>8. Resized(data', Len(data)) = data
    BY <2>2, <2>3, <2>4, ResizedData
  <2>9. FilesAt'
    BY <2>8 DEF FilesAt, Compacting, Working, Undoing, IndexKept, DataKept
  <2> QED
    BY <2>6, <2>7, <2>9
<1>2. CASE RefuseOperation
  <2> USE <1>2 DEF RefuseOperation, files
  <2>1. TypeOK'
    BY DEF TypeOK, Steps
  <2>2. FilesOK' /\ OperationOK'
    BY DEF FilesOK, OperationOK
  <2>3. FilesAt'
    BY DEF FilesAt, Compacting, Working, Undoing, IndexKept, DataKept
  <2> QED
    BY <2>1, <2>2, <2>3
<1>3. CASE UpdateEntry
  <2> USE <1>3 DEF UpdateEntry
  <2>1. op \in Operations
    BY DEF OperationOK
  <2>2. index' \in IndexFile /\ index'.file # "none"
    BY <2>1, UpdatedIndexType DEF FilesOK
  <2>3. pc' \in {"compactData", "commit"}
    OBVIOUS
  <2>4. TypeOK'
    BY <2>2, <2>3 DEF TypeOK, Steps
  <2>5. FilesOK' /\ OperationOK'
    BY <2>2, <2>3 DEF FilesOK, OperationOK
  <2>6. FilesAt'
    BY <2>3 DEF FilesAt, Compacting, Working, Undoing, IndexKept, DataKept
  <2> QED
    BY <2>4, <2>5, <2>6
<1>4. CASE CopyInstance
  <2> USE <1>4 DEF CopyInstance, files
  <2>1. tmp' \in TmpFile
    <3>1. CASE NextEntry.free \/ Readable(NextEntry, data)
      <4> DEFINE cells == IF NextEntry.free THEN tmp.cells
                          ELSE tmp.cells \o CellsOf(NextEntry, data)
      <4>1. NextEntry \in Entry
        BY DEF NextEntry, EntriesLeft, TypeOK, IndexFile, TmpFile
      <4>2. ASSUME ~NextEntry.free PROVE CellsOf(NextEntry, data) \in Seq(Cells)
        <5> DEFINE m == NextEntry.at + 1
                   n == NextEntry.at + NextEntry.size
        <5>1. Readable(NextEntry, data)
          BY <3>1, <4>2
        <5>2. m \in Int /\ n \in Int /\ m >= 1 /\ n <= Len(data)
          BY <4>1, <5>1 DEF Readable, Entry
        <5> HIDE DEF m, n
        <5>3. \A i \in m .. n : data[i] \in Cells
          BY <5>2 DEF TypeOK
        <5>4. SubSeq(data, m, n) \in Seq(Cells)
          BY <5>2, <5>3, SubSeqProperties
        <5> QED
          BY <5>4 DEF CellsOf, m, n
      <4>3. cells \in Seq(Cells)
        BY <4>2 DEF TypeOK, TmpFile
      <4>4. tmp' = [tmp EXCEPT !.read = tmp.read + 1, !.cells = cells]
        BY <3>1
      <4>5. tmp \in TmpFile /\ tmp.read + 1 \in Nat
        BY DEF TypeOK, TmpFile
      <4> HIDE DEF cells, CopyInstance
      <4> QED
        BY <4>3, <4>4, <4>5, TmpFileType, Zenon
    <3>2. CASE ~(NextEntry.free \/ Readable(NextEntry, data))
      BY <3>2, Facts
    <3> QED
      BY <3>1, <3>2
  <2>2. pc' \in {"compactData", "undo"}
    OBVIOUS
  <2>3. UNCHANGED <<index, indexRb, data, dataRb, state, op, saved>>
    OBVIOUS
  <2>4. TypeOK'
    BY <2>1, <2>2, <2>3 DEF TypeOK, Steps
  <2>5. FilesOK' /\ OperationOK'
    BY <2>2, <2>3 DEF FilesOK, OperationOK
  <2>6. FilesAt'
    BY <2>2, <2>3 DEF FilesAt, Compacting, Working, Undoing, IndexKept, DataKept
  <2> QED
    BY <2>4, <2>5, <2>6
<1>5. CASE ReplaceData
  <2> USE <1>5 DEF ReplaceData
  <2>1. TypeOK'
    BY Facts DEF TypeOK, Steps, TmpFile
  <2>2. FilesOK' /\ OperationOK'
    BY DEF FilesOK, OperationOK
  <2>3. FilesAt'
    BY DEF FilesAt, Compacting, Working
  <2> QED
    BY <2>1, <2>2, <2>3
<1>6. CASE CopyEntry
  <2> USE <1>6 DEF CopyEntry, files
  <2>1. tmp' \in TmpFile
    <3>1. NextEntry \in Entry
      BY DEF NextEntry, EntriesLeft, TypeOK, IndexFile, TmpFile
    <3>0. tmp \in TmpFile /\ tmp.read + 1 \in Nat
      BY DEF TypeOK, TmpFile
    <3>2. CASE NextEntry.free
      <4> DEFINE adjust == tmp.adjust + NextEntry.size
      <4>1. adjust \in Nat
        BY <3>1 DEF TypeOK, TmpFile, Entry
      <4>2. tmp' = [tmp EXCEPT !.read = tmp.read + 1, !.adjust = adjust]
        BY <3>2
      <4> HIDE DEF adjust, CopyEntry
      <4> QED
        BY <3>0, <4>1, <4>2, TmpFileType, Zenon
    <3>3. CASE ~NextEntry.free
      <4> DEFINE at == NextEntry.at - tmp.adjust
                 moved == [NextEntry EXCEPT !.at = at]
                 entries == Append(tmp.entries, moved)
      <4>1. at \in Int
        BY <3>1 DEF TypeOK, TmpFile, Entry
      <4>2. tmp' = [tmp EXCEPT !.read = tmp.read + 1, !.entries = entries]
        BY <3>3
      <4> HIDE DEF at
      <4>3. moved \in Entry
        BY <3>1, <4>1 DEF Entry
      <4> HIDE DEF moved
      <4>4. entries \in Seq(Entry)
        BY <4>3 DEF TypeOK, TmpFile
      <4> HIDE DEF entries, CopyEntry
      <4> QED
        BY <3>0, <4>2, <4>4, TmpFileType, Zenon
    <3> QED
      BY <3>2, <3>3
  <2>2. TypeOK'
    BY <2>1 DEF TypeOK, Steps
  <2>3. FilesOK' /\ OperationOK'
    BY DEF FilesOK, OperationOK
  <2>4. FilesAt'
    BY DEF FilesAt, Compacting
  <2> QED
    BY <2>2, <2>3, <2>4
<1>7. CASE ReplaceIndex
  <2> USE <1>7 DEF ReplaceIndex
  <2>1. index' \in IndexFile /\ index'.file = "whole"
    BY DEF TypeOK, IndexFile, FileStates, TmpFile
  <2>2. TypeOK'
    BY <2>1, Facts DEF TypeOK, Steps
  <2>3. FilesOK' /\ OperationOK'
    BY <2>1 DEF FilesOK, OperationOK
  <2>4. FilesAt'
    BY DEF FilesAt, Compacting
  <2> QED
    BY <2>2, <2>3, <2>4
<1> QED
  BY <1>1, <1>2, <1>3, <1>4, <1>5, <1>6, <1>7 DEF Body

LEMMA CommitSteps ==
    ASSUME IInv, Commit
    PROVE  IInv'
<1> USE DEF IInv, Goto, LoopTo, Ends
<1>1. CASE CommitState
  <2> USE <1>1 DEF CommitState
  <2>1. TypeOK'
    BY DEF TypeOK, Steps, IndexFile
  <2>2. FilesOK' /\ OperationOK'
    BY DEF FilesOK, OperationOK
  <2>3. FilesAt'
    BY DEF FilesAt, Compacting, Working, Undoing, Committing
  <2> QED
    BY <2>1, <2>2, <2>3
<1>2. CASE DropIndexRb
  <2> USE <1>2 DEF DropIndexRb
  <2>1. TypeOK'
    BY Facts DEF TypeOK, Steps
  <2>2. FilesOK' /\ OperationOK'
    BY DEF FilesOK, OperationOK, NoIndex
  <2>3. FilesAt'
    BY DEF FilesAt, Compacting, Committing
  <2> QED
    BY <2>1, <2>2, <2>3
<1>3. CASE DropDataRb
  <2> USE <1>3 DEF DropDataRb
  <2>1. TypeOK'
    BY Facts DEF TypeOK, Steps
  <2>2. FilesOK' /\ OperationOK'
    BY DEF FilesOK, OperationOK, NoSize
  <2>3. FilesAt'
    BY DEF FilesAt, Compacting, Committing
  <2> QED
    BY <2>1, <2>2, <2>3
<1>4. CASE Committed
  <2> USE <1>4 DEF Committed
  <2>1. TypeOK'
    BY DEF TypeOK, Steps
  <2>2. FilesOK' /\ OperationOK'
    BY DEF FilesOK, OperationOK
  <2>3. FilesAt'
    BY DEF FilesAt, Compacting, Committing, Resting
  <2> QED
    BY <2>1, <2>2, <2>3
<1> QED
  BY <1>1, <1>2, <1>3, <1>4 DEF Commit

LEMMA UndoSteps ==
    ASSUME IInv, Undo
    PROVE  IInv'
<1> USE DEF IInv, Goto, LoopTo, Ends
<1>1. CASE UndoState
  <2> USE <1>1 DEF UndoState
  <2>1. TypeOK'
    BY DEF TypeOK, Steps
  <2>2. FilesOK' /\ OperationOK'
    BY DEF FilesOK, OperationOK
  <2>3. FilesAt'
    BY DEF FilesAt, Compacting, Working, Undoing, IndexKept, DataKept
  <2> QED
    BY <2>1, <2>2, <2>3
<1>2. CASE UndoIndex
  <2> USE <1>2 DEF UndoIndex
  <2>1. TypeOK'
    BY Facts DEF TypeOK, Steps
  <2>2. FilesOK' /\ OperationOK'
    BY DEF FilesOK, OperationOK, FilesAt, Undoing, NoIndex
  <2>3. FilesAt'
    BY DEF FilesAt, Compacting, Undoing, IndexKept, DataKept, FilesOK, NoIndex
  <2> QED
    BY <2>1, <2>2, <2>3
<1>3. CASE UndoData
  <2> USE <1>3 DEF UndoData
  <2>1. data \in Seq(Cells) /\ dataRb.size \in Nat
    BY DEF TypeOK, SizeFile
  <2>2. Resized(data, dataRb.size) \in Seq(Cells)
    BY <2>1, ResizedData
  <2>3. Resized(Resized(data, dataRb.size), dataRb.size) = Resized(data, dataRb.size)
    BY <2>1, ResizedTwice
  <2>4. dataRb.file \in {"none", "whole"}
    BY DEF FilesAt, Undoing, DataKept
  <2>5. \/ dataRb.file = "none" /\ data' = data /\ pc' = "undone"
        \/ dataRb.file = "whole" /\ data' = Resized(data, dataRb.size) /\ pc' = "undoDrop"
    BY <2>4
  <2>6. UNCHANGED <<index, indexRb, dataRb, state, op, saved, tmp>>
    BY <2>4
  <2> HIDE DEF UndoData
  <2>7. TypeOK'
    BY <2>2, <2>5, <2>6 DEF TypeOK, Steps
  <2>8. FilesOK' /\ OperationOK'
    BY <2>5, <2>6 DEF FilesOK, OperationOK
  <2>9. FilesAt'
    BY <2>3, <2>5, <2>6, <1>3 DEF UndoData, FilesAt, Compacting, Undoing, IndexKept, DataKept,
       FilesOK
  <2> QED
    BY <2>7, <2>8, <2>9
<1>4. CASE UndoDrop
  <2> USE <1>4 DEF UndoDrop
  <2>1. TypeOK'
    BY Facts DEF TypeOK, Steps
  <2>2. FilesOK' /\ OperationOK'
    BY DEF FilesOK, OperationOK, NoSize
  <2>3. FilesAt'
    BY DEF FilesAt, Compacting, Undoing, IndexKept, DataKept, NoSize
  <2> QED
    BY <2>1, <2>2, <2>3
<1>5. CASE Undone
  <2> USE <1>5 DEF Undone
  <2>1. TypeOK'
    BY DEF TypeOK, Steps
  <2>2. FilesOK' /\ OperationOK'
    BY DEF FilesOK, OperationOK
  <2>3. FilesAt'
    BY DEF FilesAt, Compacting, Undoing, IndexKept, DataKept, Resting, NoIndex, NoSize
  <2> QED
    BY <2>1, <2>2, <2>3
<1> QED
  BY <1>1, <1>2, <1>3, <1>4, <1>5 DEF Undo

LEMMA UnbeginSteps ==
    ASSUME IInv, Unbegin
    PROVE  IInv'
<1> USE DEF IInv, Goto, LoopTo, Ends
<1>1. CASE UnbeginIndex
  <2> USE <1>1 DEF UnbeginIndex
  <2>1. TypeOK'
    BY Facts DEF TypeOK, Steps
  <2>2. FilesOK' /\ OperationOK'
    BY DEF FilesOK, OperationOK, NoIndex
  <2>3. FilesAt'
    BY DEF FilesAt, Compacting, Beginning, IndexKept, FilesOK, NoIndex
  <2> QED
    BY <2>1, <2>2, <2>3
<1>2. CASE UnbeginRename
  <2> USE <1>2 DEF UnbeginRename
  <2>1. TypeOK'
    BY Facts DEF TypeOK, Steps
  <2>2. FilesOK' /\ OperationOK'
    BY DEF FilesOK, OperationOK, FilesAt, NoIndex
  <2>3. FilesAt'
    BY DEF FilesAt, Compacting, Beginning, IndexKept, NoIndex
  <2> QED
    BY <2>1, <2>2, <2>3
<1>3. CASE UnbeginData
  <2> USE <1>3 DEF UnbeginData
  <2>1. TypeOK'
    BY Facts DEF TypeOK, Steps
  <2>2. FilesOK' /\ OperationOK'
    BY DEF FilesOK, OperationOK, NoSize
  <2>3. FilesAt'
    BY DEF FilesAt, Compacting, Beginning, IndexKept
  <2> QED
    BY <2>1, <2>2, <2>3
<1>4. CASE Unbegun
  <2> USE <1>4 DEF Unbegun
  <2>1. TypeOK'
    BY DEF TypeOK, Steps
  <2>2. FilesOK' /\ OperationOK'
    BY DEF FilesOK, OperationOK
  <2>3. FilesAt'
    BY DEF FilesAt, Compacting, Beginning, IndexKept, Resting, NoIndex
  <2> QED
    BY <2>1, <2>2, <2>3
<1> QED
  BY <1>1, <1>2, <1>3, <1>4 DEF Unbegin

-----------------------------------------------------------------------------
(* Failures, crashes and restarts.                                          *)

\* Outside of a compaction the files always hold the committed contents, in
\* one of three ways.
LEMMA PhaseOfFiles ==
    ASSUME IInv, pc \notin Compacting
    PROVE  Beginning \/ Committing \/ Undoing
<1>1. CASE pc \in {"idle", "begin"}
  BY <1>1 DEF IInv, FilesAt, Resting, Undoing, IndexKept, DataKept, NoIndex, NoSize
<1>2. CASE pc \notin {"idle", "begin"}
  BY <1>2 DEF IInv, FilesAt, Working, Compacting, TypeOK, Steps
<1> QED
  BY <1>1, <1>2

\* What an interrupted write leaves takes nothing from the committed contents.
LEMMA InterruptedKeeps ==
    ASSUME IInv, Interrupted, UNCHANGED saved
    PROVE  /\ index' \in IndexFile /\ indexRb' = indexRb /\ state' = state
           /\ data' \in Seq(Cells) /\ dataRb' \in SizeFile
           /\ FilesOK'
           /\ Beginning => Beginning'
           /\ Committing => Committing'
           /\ Undoing => Undoing'
           /\ pc = "append" => Working'
           /\ pc \in {"entry", "compactData", "commit"} => Working'
<1> USE DEF IInv
<1> DEFINE Kept == /\ index' \in IndexFile /\ indexRb' = indexRb /\ state' = state
                   /\ data' \in Seq(Cells) /\ dataRb' \in SizeFile
                   /\ FilesOK'
                   /\ Beginning => Beginning'
                   /\ Committing => Committing'
                   /\ Undoing => Undoing'
                   /\ pc \in {"append", "entry", "compactData", "commit"} => Working'
<1>1. CASE pc = "copyIndex" /\ index' = TornIndex /\ UNCHANGED <<indexRb, data, dataRb, state>>
  <2>1. index' \in IndexFile /\ FilesOK'
    BY <1>1, Facts DEF FilesOK, TornIndex
  <2>2. Beginning' /\ ~Committing /\ ~Undoing
    BY <1>1 DEF FilesAt, Beginning, Committing, Undoing, IndexKept
  <2> QED
    BY <1>1, <2>1, <2>2 DEF TypeOK
<1>2. CASE pc = "beginData" /\ dataRb' = TornSize /\ UNCHANGED <<index, indexRb, data, state>>
  <2>1. dataRb' \in SizeFile /\ FilesOK'
    BY <1>2, Facts DEF FilesOK, TornSize
  <2>2. Beginning' /\ ~Committing /\ ~Undoing
    BY <1>2 DEF FilesAt, Beginning, Committing, Undoing, IndexKept
  <2> QED
    BY <1>2, <2>1, <2>2 DEF TypeOK
<1>3. CASE /\ pc = "append"
           /\ \E k \in 1 .. SizeOf[op.value] - 1 :
                 data' = data \o SubSeq(Encoded(op.value), 1, k)
           /\ UNCHANGED <<index, indexRb, dataRb, state>>
  <2>1. op.value \in Values
    BY <1>3 DEF OperationOK, Operations
  <2>2. PICK k \in 1 .. SizeOf[op.value] - 1 : data' = data \o SubSeq(Encoded(op.value), 1, k)
    BY <1>3
  <2> DEFINE x == SubSeq(Encoded(op.value), 1, k)
  <2>3. x \in Seq(Cells)
    BY <2>1, <2>2, EncodedType
  <2>4. data' = data \o x
    BY <2>2
  <2> HIDE DEF x
  <2>5. data \in Seq(Cells) /\ data = saved.data /\ Len(data) \in Nat
    BY <1>3 DEF TypeOK, FilesAt
  <2>6. data' \in Seq(Cells) /\ Resized(data', Len(data)) = data
    BY <2>3, <2>4, <2>5, ResizedData
  <2>7. FilesOK' /\ Working'
    BY <1>3, <2>5, <2>6 DEF FilesOK, FilesAt, Working, Undoing, IndexKept, DataKept
  <2>8. ~Beginning /\ ~Committing
    BY <1>3 DEF FilesAt, Beginning, Committing, Working
  <2> QED
    BY <1>3, <2>6, <2>7, <2>8 DEF TypeOK, Working
<1>4. CASE pc = "entry" /\ index' = TornIndex /\ UNCHANGED <<indexRb, data, dataRb, state>>
  <2>1. index' \in IndexFile /\ FilesOK'
    BY <1>4, Facts DEF FilesOK, TornIndex
  <2>2. Working' /\ ~Beginning /\ ~Committing
    BY <1>4 DEF FilesAt, Beginning, Committing, Working, Undoing, IndexKept, DataKept
  <2> QED
    BY <1>4, <2>1, <2>2 DEF TypeOK, Working
<1>5. CASE UNCHANGED files
  <2>1. /\ FilesOK'
        /\ Beginning => Beginning'
        /\ Committing => Committing'
        /\ Undoing => Undoing'
        /\ Working => Working'
    BY <1>5 DEF files, FilesOK, Beginning, Committing, Working, Undoing, IndexKept, DataKept
  <2>2. pc \in {"append", "entry", "compactData", "commit"} => Working
    BY DEF FilesAt
  <2> QED
    BY <1>5, <2>1, <2>2 DEF files, TypeOK
<1>6. Kept
  BY <1>1, <1>2, <1>3, <1>4, <1>5 DEF Interrupted
<1> QED
  BY <1>6

LEMMA CrashSteps ==
    ASSUME IInv, NoFaultCompacting, Crash \/ FailUndo \/ Restart
    PROVE  IInv'
<1> USE DEF IInv
<1>1. CASE Crash
  <2> USE <1>1 DEF Crash
  <2>1. pc \notin Compacting
    BY DEF NoFaultCompacting
  <2>2. (Beginning \/ Committing \/ Undoing)'
    BY <2>1, PhaseOfFiles, InterruptedKeeps
  <2>3. TypeOK' /\ FilesOK'
    BY Facts, InterruptedKeeps DEF TypeOK
  <2>4. OperationOK'
    BY DEF OperationOK
  <2>5. FilesAt'
    BY <2>2 DEF FilesAt, Compacting
  <2> QED
    BY <2>3, <2>4, <2>5
<1>2. CASE FailUndo
  <2> USE <1>2 DEF FailUndo, files
  <2>1. TypeOK' /\ FilesOK' /\ OperationOK'
    BY DEF TypeOK, FilesOK, OperationOK
  <2>2. FilesAt'
    BY DEF FilesAt, Compacting, Working, Undoing, IndexKept, DataKept
  <2> QED
    BY <2>1, <2>2
<1>3. CASE Restart
  <2> USE <1>3 DEF Restart, files, Goto, LoopTo
  <2>1. UNCHANGED <<index, indexRb, data, dataRb, state, tmp, op, saved>>
    OBVIOUS
  <2>2. \/ Beginning /\ pc' = "unbeginIndex"
        \/ Committing /\ pc' = "dropIndexRb"
        \/ Undoing /\ pc' = "undoIndex"
    BY DEF FilesAt, Beginning, Committing, Undoing
  <2>3. TypeOK' /\ FilesOK' /\ OperationOK'
    BY <2>1, <2>2 DEF TypeOK, FilesOK, OperationOK, Steps
  <2>4. FilesAt'
    BY <2>1, <2>2 DEF FilesAt, Compacting, Beginning, Committing, Undoing, IndexKept, DataKept
  <2> QED
    BY <2>3, <2>4
<1> QED
  BY <1>1, <1>2, <1>3

LEMMA FailSteps ==
    ASSUME IInv, NoFaultCompacting,
           FailBegin \/ FailBeginIndex \/ FailCopyIndex \/ FailBeginData \/ FailBody
    PROVE  IInv'
<1> USE DEF IInv, Goto, LoopTo, Ends
<1>1. CASE FailBegin
  <2> USE <1>1 DEF FailBegin, files
  <2>1. TypeOK' /\ FilesOK' /\ OperationOK'
    BY DEF TypeOK, FilesOK, OperationOK
  <2>2. FilesAt'
    BY DEF FilesAt, Compacting, Resting
  <2> QED
    BY <2>1, <2>2
<1>2. CASE FailBeginIndex
  <2> USE <1>2 DEF FailBeginIndex, files
  <2>1. TypeOK' /\ FilesOK' /\ OperationOK'
    BY DEF TypeOK, FilesOK, OperationOK, Steps
  <2>2. FilesAt'
    BY DEF FilesAt, Compacting, Beginning, IndexKept
  <2> QED
    BY <2>1, <2>2
<1>3. CASE FailCopyIndex
  <2> USE <1>3 DEF FailCopyIndex
  <2>1. Beginning'
    BY InterruptedKeeps DEF FilesAt
  <2>2. TypeOK' /\ FilesOK' /\ OperationOK'
    BY InterruptedKeeps DEF TypeOK, OperationOK, Steps
  <2>3. FilesAt'
    BY <2>1 DEF FilesAt, Compacting
  <2> QED
    BY <2>2, <2>3
<1>4. CASE FailBeginData
  <2> USE <1>4 DEF FailBeginData, files
  <2>1. TypeOK' /\ FilesOK' /\ OperationOK'
    BY DEF TypeOK, FilesOK, OperationOK, Steps
  <2>2. FilesAt'
    BY DEF FilesAt, Compacting, Beginning, IndexKept
  <2> QED
    BY <2>1, <2>2
<1>5. CASE FailBody
  <2> USE <1>5 DEF FailBody
  <2>1. pc \in {"append", "entry", "compactData", "commit"}
    BY DEF NoFaultCompacting, Compacting
  <2>2. Working'
    BY <2>1, InterruptedKeeps
  <2>3. TypeOK' /\ FilesOK' /\ OperationOK'
    BY Facts, InterruptedKeeps DEF TypeOK, OperationOK, Steps
  <2>4. FilesAt'
    BY <2>2 DEF FilesAt, Compacting
  <2> QED
    BY <2>3, <2>4
<1> QED
  BY <1>1, <1>2, <1>3, <1>4, <1>5

-----------------------------------------------------------------------------
(* The theorems.                                                            *)

LEMMA InitIInv == Init => IInv
<1> SUFFICES ASSUME Init PROVE IInv
  OBVIOUS
<1> USE DEF Init
<1>1. saved \in [entries : Seq(Entry), data : Seq(Cells)]
  OBVIOUS
<1>2. TypeOK
  BY <1>1, Facts DEF TypeOK
<1>3. FilesOK /\ OperationOK
  BY DEF FilesOK, OperationOK, NoIndex
<1>4. FilesAt
  BY DEF FilesAt, Resting, Compacting, NoIndex
<1> QED
  BY <1>2, <1>3, <1>4 DEF IInv

LEMMA NextIInv ==
    ASSUME IInv, NoFaultCompacting, [Next]_vars
    PROVE  IInv'
<1>1. CASE Next
  BY <1>1, StartStep, BeginSteps, BodySteps, CommitSteps, UndoSteps, UnbeginSteps,
     FailSteps, CrashSteps DEF Next, Continue, Fail
<1>2. CASE UNCHANGED vars
  BY <1>2 DEF vars, IInv, TypeOK, FilesOK, OperationOK, FilesAt, Resting, Beginning,
     Committing, Undoing, Working, IndexKept, DataKept
<1> QED
  BY <1>1, <1>2

THEOREM Invariance == ASSUME NoFaultCompacting PROVE Spec => []IInv
<1>1. IInv /\ [Next]_vars => IInv'
  BY NextIInv
<1> QED
  BY <1>1, InitIInv, PTL DEF Spec

\* The files have their types, and a server that starts never finds a rollback
\* file that it cannot read (pc is never "unreadable").
THEOREM TypeCorrect ==
    ASSUME NoFaultCompacting PROVE Spec => [](TypeOK /\ pc # "unreadable")
<1>1. IInv => TypeOK /\ pc # "unreadable"
  BY DEF IInv, FilesAt
<1> QED
  BY <1>1, Invariance, PTL

\* Wherever the server stops, in a transaction, a rollback or a restart, what
\* is on disk determines the last committed contents.
THEOREM RecoverableAlways == ASSUME NoFaultCompacting PROVE Spec => []Recoverable
<1>1. ASSUME IInv PROVE Recoverable
  <2> SUFFICES ASSUME pc \notin Compacting
               PROVE  RecoveredEntries = saved.entries /\ RecoveredData = saved.data
    BY DEF Recoverable
  <2>1. Beginning \/ Committing \/ Undoing
    BY <1>1, PhaseOfFiles
  <2> QED
    BY <2>1 DEF RecoveredEntries, RecoveredData, Beginning, Committing, Undoing,
       IndexKept, DataKept
<1> QED
  BY <1>1, Invariance, PTL

\* Between operations the files are the committed ones and no trace of a
\* transaction is left, whatever failed or stopped before.
THEOREM RestIsClean == ASSUME NoFaultCompacting PROVE Spec => []CleanAtRest
<1>1. IInv => CleanAtRest
  BY DEF IInv, FilesAt, Resting, CleanAtRest
<1> QED
  BY <1>1, Invariance, PTL
=============================================================================
