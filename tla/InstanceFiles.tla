---------------------------- MODULE InstanceFiles ----------------------------
(***************************************************************************)
(* The files that hold the instances of one class (Repository/             *)
(* FileBasedStore.cpp, InstanceIndexFile.cpp, InstanceDataFile.cpp): an    *)
(* index file of entries and a data file of encoded instances.  A writer   *)
(* holds the repository's write lock, so that one operation runs at a      *)
(* time; it works in a transaction with a rollback file for each of the    *)
(* two files and a state file for each phase (begin, commit, rollback).    *)
(* Each action is one change of the file system.  The server may stop      *)
(* between any two of them, or in the middle of a write, and a write or    *)
(* the creation of a file may fail.                                        *)
(***************************************************************************)
EXTENDS Integers, FiniteSets, Sequences

CONSTANTS Names,         \* instance names (keys)
          Values,        \* instances
          SizeOf,        \* the length of each instance's encoding
          MaxFreeCount,  \* _MAX_FREE_COUNT: free entries that call for compaction
          CrashAt,       \* the steps before or in which the server may stop
          FailAt,        \* the steps that may fail
          Absent         \* no instance

Steps == {"begin", "beginIndex", "headIndex", "copyIndex", "beginData", "begun", "append",
          "entry", "compactData", "compactIndex", "commit", "commitCompacted",
          "dropIndexRb", "dropDataRb", "committed", "undo", "undoIndex",
          "undoData", "undoDrop", "undone", "unbeginIndex", "unbeginRename",
          "unbeginData", "unbegun"}

\* The steps at which the data file is compacted and nothing is committed yet.
Compacting == {"compactIndex", "commitCompacted"}

ASSUME SizesAreSizes == SizeOf \in [Values -> Nat \ {0}]
ASSUME FreeCountIsNat == MaxFreeCount \in Nat \ {0}
ASSUME AbsentIsNoValue == Absent \notin Values
ASSUME FaultsAtSteps == CrashAt \subseteq Steps /\ FailAt \subseteq Steps

VARIABLES index,    \* the index file <class>.idx
          indexRb,  \* <class>.idx.rollback
          data,     \* the data file <class>.instances; an absent one is empty
          dataRb,   \* <class>.instances.rollback
          state,    \* the state files: "begin", "commit", "rollback".progress
          tmp,      \* the file that compaction writes, and its loop
          pc, op,   \* the operation under way and its next step
          saved     \* what the files held when the last operation was
                    \* committed (history)

files == <<index, indexRb, data, dataRb, state>>
vars == <<index, indexRb, data, dataRb, state, tmp, pc, op, saved>>

-----------------------------------------------------------------------------
(* Files and their contents.                                               *)

\* A file is absent, torn (created, its contents incomplete) or whole.
FileStates == {"none", "torn", "whole"}

\* An entry of the index: a name, whether it is free, and the place of its
\* instance in the data file.
Entry == [name : Names, free : BOOLEAN, at : Int, size : Nat]

IndexFile == [file : FileStates, count : Nat, entries : Seq(Entry)]
NoIndex == [file |-> "none", count |-> 0, entries |-> <<>>]
TornIndex == [file |-> "torn", count |-> 0, entries |-> <<>>]
EmptyIndex == [file |-> "whole", count |-> 0, entries |-> <<>>]

SizeFile == [file : FileStates, size : Nat]
NoSize == [file |-> "none", size |-> 0]
TornSize == [file |-> "torn", size |-> 0]

\* The data file is a sequence of cells: the pieces of encoded instances, and
\* the zeros of a file that was extended.
Cells == (Values \cup {Absent}) \X Nat
Encoded(v) == [j \in 1 .. SizeOf[v] |-> <<v, j>>]

Operations == {o \in [kind : {"create", "modify", "delete"}, name : Names,
                      value : Values \cup {Absent}] :
                  o.value = Absent <=> o.kind = "delete"}
NoOp == [kind |-> "none"]

\* InstanceIndexFile::_lookupEntry: the positions of the entry of a name.
Found(f, n) == {i \in DOMAIN f.entries : f.entries[i].name = n /\ ~f.entries[i].free}

\* What is read of a data file at the place of an entry, if it is there.
Readable(e, d) == e.at >= 0 /\ e.at + e.size <= Len(d)
CellsOf(e, d) == SubSeq(d, e.at + 1, e.at + e.size)

\* loadInstance and the decoding of what it read: the instance at an entry,
\* Absent if what is there is no encoded instance.
Loaded(e, d) ==
    LET read == {v \in Values : Readable(e, d) /\ CellsOf(e, d) = Encoded(v)}
    IN  IF read = {} THEN Absent ELSE CHOOSE v \in read : TRUE

\* getInstance: what an index and a data file hold of each name.
Contents(f, d) ==
    [n \in Names |-> IF Found(f, n) = {} THEN Absent
                     ELSE Loaded(f.entries[CHOOSE i \in Found(f, n) : TRUE], d)]

-----------------------------------------------------------------------------
(* The changes an operation makes to the index and data files.             *)

\* _appendEntry; what is appended to an index without a header is not read.
WithEntry(f, n, at, size) ==
    IF f.file = "torn" THEN f
    ELSE [f EXCEPT !.file = "whole",
                   !.entries = Append(@, [name |-> n, free |-> FALSE,
                                          at |-> at, size |-> size])]

\* _markEntryFree.
MarkedFree(f, n) ==
    [i \in DOMAIN f.entries |-> IF i \in Found(f, n) THEN [f.entries[i] EXCEPT !.free = TRUE]
                                ELSE f.entries[i]]

\* Variant: the number of free entries is counted down.
FreedCountedDown(f, n) == [f EXCEPT !.count = f.count - 1, !.entries = MarkedFree(f, n)]

\* _markEntryFree and _incrementFreeCount.
Freed(f, n) == [f EXCEPT !.count = f.count + 1, !.entries = MarkedFree(f, n)]

\* The loop of a compaction: the entries read, the sizes of the free ones, and
\* what was written to the temporary file.
TmpFile == [read : Nat, adjust : Nat, cells : Seq(Cells), entries : Seq(Entry)]
NoTmp == [read |-> 0, adjust |-> 0, cells |-> <<>>, entries |-> <<>>]

-----------------------------------------------------------------------------
Init ==
    /\ index = NoIndex /\ indexRb = NoIndex
    /\ data = <<>> /\ dataRb = NoSize
    /\ state = {} /\ tmp = NoTmp
    /\ pc = "idle" /\ op = NoOp
    /\ saved = [entries |-> <<>>, data |-> <<>>]

LoopTo(step) == pc' = step /\ UNCHANGED <<op, saved>>
Goto(step) == LoopTo(step) /\ UNCHANGED tmp
Ends == pc' = "idle" /\ op' = NoOp /\ UNCHANGED <<tmp, saved>>

\* createInstance, modifyInstance and deleteInstance up to the constructor of
\* InstanceTransactionHandler.  modifyInstance looks the instance up first.
\* The constructor finds no rollback files to undo (CleanAtRest).
StartOperation ==
    /\ pc = "idle"
    /\ \E o \in Operations :
          /\ o.kind = "modify" => Found(index, o.name) # {}
          /\ op' = o
    /\ pc' = "begin"
    /\ UNCHANGED <<files, tmp, saved>>

(* _beginInstanceTransaction.                                              *)

BeginState ==
    /\ pc = "begin"
    /\ state' = state \cup {"begin"}
    /\ Goto("beginIndex")
    /\ UNCHANGED <<index, indexRb, data, dataRb>>

\* InstanceIndexFile::beginTransaction: an index becomes the rollback file and
\* is then copied back; without one the rollback file is created, and its
\* header written.
BeginIndex ==
    /\ pc = "beginIndex"
    /\ IF index.file = "none"
       THEN indexRb' = TornIndex /\ Goto("headIndex") /\ UNCHANGED index
       ELSE indexRb' = index /\ index' = NoIndex /\ Goto("copyIndex")
    /\ UNCHANGED <<data, dataRb, state>>

\* _openFile does not look at the result of the write.
HeadIndex ==
    /\ pc = "headIndex"
    /\ \E f \in {EmptyIndex} \cup (IF pc \in FailAt THEN {TornIndex} ELSE {}) :
          indexRb' = f
    /\ Goto("beginData")
    /\ UNCHANGED <<index, data, dataRb, state>>

CopyIndex ==
    /\ pc = "copyIndex"
    /\ index' = indexRb
    /\ Goto("beginData")
    /\ UNCHANGED <<indexRb, data, dataRb, state>>

BeginData ==
    /\ pc = "beginData"
    /\ dataRb' = [file |-> "whole", size |-> Len(data)]
    /\ Goto("begun")
    /\ UNCHANGED <<index, indexRb, data, state>>

Begun ==
    /\ pc = "begun"
    /\ state' = state \ {"begin"}
    /\ Goto(IF op.kind = "delete" THEN "entry" ELSE "append")
    /\ UNCHANGED <<index, indexRb, data, dataRb>>

(* The body of the transaction.                                            *)

\* appendInstance: the instance goes to the end of the data file.
AppendInstance ==
    /\ pc = "append"
    /\ data' = data \o Encoded(op.value)
    /\ Goto("entry")
    /\ UNCHANGED <<index, indexRb, dataRb, state>>

\* createEntry fails if there is an entry, lookupEntry of deleteInstance if
\* there is none: the destructor of the handler rolls back.
Refused == IF op.kind = "create" THEN Found(index, op.name) # {}
           ELSE Found(index, op.name) = {}

RefuseOperation ==
    /\ pc = "entry" /\ Refused
    /\ Goto("undo")
    /\ UNCHANGED files

\* The index after createEntry, modifyEntry or deleteEntry.  The instance was
\* appended last: its place is that of the last cells.
UpdatedIndex ==
    LET added(f) == WithEntry(f, op.name, Len(data) - SizeOf[op.value], SizeOf[op.value])
    IN  CASE op.kind = "create" -> added(index)
          [] op.kind = "modify" -> added(Freed(index, op.name))
          [] OTHER -> Freed(index, op.name)

UpdateEntry ==
    /\ pc = "entry" /\ ~Refused
    /\ index' = UpdatedIndex
    /\ Goto(IF op.kind # "create" /\ UpdatedIndex.count >= MaxFreeCount
            THEN "compactData" ELSE "commit")
    /\ UNCHANGED <<indexRb, data, dataRb, state>>

(* _CompactInstanceRepository.  Each file is written anew entry by entry,   *)
(* then renamed over the old one.                                          *)

NextEntry == index.entries[tmp.read + 1]
EntriesLeft == tmp.read < Len(index.entries)

\* Variant: the loop skips a free entry without going on to the next one.
CopyInstanceStays ==
    /\ pc = "compactData" /\ EntriesLeft
    /\ IF ~NextEntry.free
       THEN tmp' = [tmp EXCEPT !.read = @ + 1, !.cells = @ \o CellsOf(NextEntry, data)]
       ELSE UNCHANGED tmp
    /\ LoopTo("compactData")
    /\ UNCHANGED files

\* InstanceDataFile::compact copies what belongs to entries that are not free;
\* it fails if there is nothing to read at the place of one.
CopyInstance ==
    /\ pc = "compactData" /\ EntriesLeft
    /\ IF NextEntry.free \/ Readable(NextEntry, data)
       THEN /\ tmp' = [tmp EXCEPT
                    !.read = @ + 1,
                    !.cells = IF NextEntry.free THEN @
                              ELSE @ \o CellsOf(NextEntry, data)]
            /\ LoopTo("compactData")
       ELSE tmp' = NoTmp /\ LoopTo("undo")
    /\ UNCHANGED files

ReplaceData ==
    /\ pc = "compactData" /\ ~EntriesLeft
    /\ data' = tmp.cells /\ tmp' = NoTmp
    /\ LoopTo("compactIndex")
    /\ UNCHANGED <<index, indexRb, dataRb, state>>

\* Variant: the places of the entries are left as they are.
CopyEntryInPlace ==
    /\ pc = "compactIndex" /\ EntriesLeft
    /\ tmp' = [tmp EXCEPT !.read = @ + 1,
                  !.entries = IF NextEntry.free THEN @ ELSE Append(@, NextEntry)]
    /\ LoopTo("compactIndex")
    /\ UNCHANGED files

\* InstanceIndexFile::compact drops the free entries, and moves the places of
\* the entries after them up by their sizes.
CopyEntry ==
    /\ pc = "compactIndex" /\ EntriesLeft
    /\ tmp' = IF NextEntry.free
              THEN [tmp EXCEPT !.read = @ + 1, !.adjust = @ + NextEntry.size]
              ELSE [tmp EXCEPT !.read = @ + 1,
                       !.entries = Append(@, [NextEntry EXCEPT !.at = @ - tmp.adjust])]
    /\ LoopTo("compactIndex")
    /\ UNCHANGED files

ReplaceIndex ==
    /\ pc = "compactIndex" /\ ~EntriesLeft
    /\ index' = [file |-> "whole", count |-> 0, entries |-> tmp.entries]
    /\ tmp' = NoTmp
    /\ LoopTo("commitCompacted")
    /\ UNCHANGED <<indexRb, data, dataRb, state>>

(* _commitInstanceTransaction.  Once its state file exists, a restart       *)
(* completes the transaction.                                               *)

\* Variant: the rollback files are removed without a state file.
CommitUnmarked ==
    /\ pc \in {"commit", "commitCompacted"}
    /\ saved' = [entries |-> index.entries, data |-> data]
    /\ pc' = "dropIndexRb"
    /\ UNCHANGED <<files, tmp, op>>

CommitState ==
    /\ pc \in {"commit", "commitCompacted"}
    /\ state' = state \cup {"commit"}
    /\ saved' = [entries |-> index.entries, data |-> data]
    /\ pc' = "dropIndexRb"
    /\ UNCHANGED <<index, indexRb, data, dataRb, tmp, op>>

DropIndexRb ==
    /\ pc = "dropIndexRb"
    /\ indexRb' = NoIndex
    /\ Goto("dropDataRb")
    /\ UNCHANGED <<index, data, dataRb, state>>

DropDataRb ==
    /\ pc = "dropDataRb"
    /\ dataRb' = NoSize
    /\ Goto("committed")
    /\ UNCHANGED <<index, indexRb, data, state>>

Committed ==
    /\ pc = "committed"
    /\ state' = state \ {"commit"}
    /\ Ends
    /\ UNCHANGED <<index, indexRb, data, dataRb>>

(* _rollbackInstanceTransaction.                                            *)

UndoState ==
    /\ pc = "undo"
    /\ state' = state \cup {"rollback"}
    /\ Goto("undoIndex")
    /\ UNCHANGED <<index, indexRb, data, dataRb>>

UndoIndex ==
    /\ pc = "undoIndex"
    /\ IF indexRb.file = "none" THEN UNCHANGED <<index, indexRb>>
       ELSE index' = indexRb /\ indexRb' = NoIndex
    /\ Goto("undoData")
    /\ UNCHANGED <<data, dataRb, state>>

\* truncate() extends a file that is shorter, with zeros.
Resized(d, n) == [j \in 1 .. n |-> IF j <= Len(d) THEN d[j] ELSE <<Absent, 0>>]

\* A size that cannot be read fails the rollback, and with it the start of
\* the server: no step follows.
UndoData ==
    /\ pc = "undoData"
    /\ CASE dataRb.file = "none" -> UNCHANGED data /\ Goto("undone")
         [] dataRb.file = "whole" -> data' = Resized(data, dataRb.size) /\ Goto("undoDrop")
         [] OTHER -> UNCHANGED data /\ Goto("unreadable")
    /\ UNCHANGED <<index, indexRb, dataRb, state>>

UndoDrop ==
    /\ pc = "undoDrop"
    /\ dataRb' = NoSize
    /\ Goto("undone")
    /\ UNCHANGED <<index, indexRb, data, state>>

Undone ==
    /\ pc = "undone"
    /\ state' = state \ {"rollback"}
    /\ Ends
    /\ UNCHANGED <<index, indexRb, data, dataRb>>

(* undoBeginTransaction of both files, then the removal of the state file.  *)

UnbeginIndex ==
    /\ pc = "unbeginIndex"
    /\ IF indexRb.file = "none" THEN Goto("unbeginData") /\ UNCHANGED index
       ELSE Goto("unbeginRename") /\ index' = NoIndex
    /\ UNCHANGED <<indexRb, data, dataRb, state>>

UnbeginRename ==
    /\ pc = "unbeginRename"
    /\ index' = indexRb /\ indexRb' = NoIndex
    /\ Goto("unbeginData")
    /\ UNCHANGED <<data, dataRb, state>>

UnbeginData ==
    /\ pc = "unbeginData"
    /\ dataRb' = NoSize
    /\ Goto("unbegun")
    /\ UNCHANGED <<index, indexRb, data, state>>

Unbegun ==
    /\ pc = "unbegun"
    /\ state' = state \ {"begin"}
    /\ Ends
    /\ UNCHANGED <<index, indexRb, data, dataRb>>

-----------------------------------------------------------------------------
(* Failures and crashes.                                                   *)

\* What a step that writes a file may leave of it when it does not complete.
Interrupted ==
    \/ /\ pc = "copyIndex"
       /\ index' = TornIndex
       /\ UNCHANGED <<indexRb, data, dataRb, state>>
    \/ /\ pc = "beginData"
       /\ dataRb' = TornSize
       /\ UNCHANGED <<index, indexRb, data, state>>
    \/ /\ pc = "append"
       /\ \E k \in 1 .. SizeOf[op.value] - 1 :
             data' = data \o SubSeq(Encoded(op.value), 1, k)
       /\ UNCHANGED <<index, indexRb, dataRb, state>>
    \/ /\ pc = "entry" /\ ~Refused
       /\ index' = TornIndex
       /\ UNCHANGED <<indexRb, data, dataRb, state>>
    \/ UNCHANGED files

\* The server stops: what is left are the files.
Crash ==
    /\ pc \in CrashAt
    /\ Interrupted
    /\ pc' = "down" /\ op' = NoOp /\ tmp' = NoTmp
    /\ UNCHANGED saved

\* A failed begin takes back what it did, a failed body is rolled back.
FailBegin ==
    /\ pc = "begin" /\ pc \in FailAt
    /\ Ends
    /\ UNCHANGED files

FailBeginIndex ==
    /\ pc = "beginIndex" /\ pc \in FailAt
    /\ Goto("unbegun")
    /\ UNCHANGED files

FailCopyIndex ==
    /\ pc = "copyIndex" /\ pc \in FailAt
    /\ Interrupted
    /\ Goto("unbeginIndex")

FailBeginData ==
    /\ pc = "beginData" /\ pc \in FailAt
    /\ Goto("unbeginIndex")
    /\ UNCHANGED files

FailBody ==
    /\ pc \in FailAt \cap {"append", "entry", "compactData", "compactIndex",
                           "commit", "commitCompacted"}
    /\ Interrupted
    /\ tmp' = NoTmp /\ LoopTo("undo")

\* The destructor of InstanceTransactionHandler throws while an exception is
\* handled: the process is terminated.
FailUndo ==
    /\ pc = "undo" /\ pc \in FailAt
    /\ pc' = "down" /\ op' = NoOp
    /\ UNCHANGED <<files, tmp, saved>>

Fail == FailBegin \/ FailBeginIndex \/ FailCopyIndex
            \/ FailBeginData \/ FailBody \/ FailUndo

\* Variant: the constructor only completes what has a state file.
RestartMarkedOnly ==
    /\ pc = "down"
    /\ Goto(CASE "begin" \in state -> "unbeginIndex"
               [] "commit" \in state -> "dropIndexRb"
               [] "rollback" \in state -> "undoIndex"
               [] OTHER -> "idle")
    /\ UNCHANGED files

\* FileBasedStore's constructor: _completeTransactions does what the state
\* file calls for, _rollbackIncompleteTransactions rolls back what has
\* rollback files.
Restart ==
    /\ pc = "down"
    /\ Goto(CASE "begin" \in state -> "unbeginIndex"
               [] "commit" \in state -> "dropIndexRb"
               [] OTHER -> "undoIndex")
    /\ UNCHANGED files

Begin == BeginState \/ BeginIndex \/ HeadIndex \/ CopyIndex
            \/ BeginData \/ Begun
Body == AppendInstance \/ RefuseOperation \/ UpdateEntry
            \/ CopyInstance \/ ReplaceData \/ CopyEntry \/ ReplaceIndex
Commit == CommitState \/ DropIndexRb \/ DropDataRb \/ Committed
Undo == UndoState \/ UndoIndex \/ UndoData \/ UndoDrop \/ Undone
Unbegin == UnbeginIndex \/ UnbeginRename \/ UnbeginData \/ Unbegun
Continue == Begin \/ Body \/ Commit \/ Undo \/ Unbegin

Next == StartOperation \/ Continue \/ Fail \/ Crash \/ Restart

Spec == Init /\ [][Next]_vars

\* A writer that has the lock goes on, and a server that stopped is started.
FairSpec == Spec /\ WF_vars(Continue) /\ WF_vars(Restart)

-----------------------------------------------------------------------------
TypeOK ==
    /\ index \in IndexFile /\ indexRb \in IndexFile
    /\ data \in Seq(Cells)
    /\ dataRb \in SizeFile
    /\ state \subseteq {"begin", "commit", "rollback"}
    /\ tmp \in TmpFile
    /\ pc \in Steps \cup {"idle", "down", "unreadable"}
    /\ op \in Operations \cup {NoOp}
    /\ saved \in [entries : Seq(Entry), data : Seq(Cells)]

\* What a restart would make of the files as they are.
RecoveredEntries ==
    IF "commit" \notin state /\ indexRb.file # "none"
    THEN indexRb.entries ELSE index.entries
RecoveredData ==
    IF state \cap {"begin", "commit"} = {} /\ dataRb.file = "whole"
    THEN Resized(data, dataRb.size) ELSE data

\* Wherever the server may stop, the files on disk still determine the last
\* committed contents: the rollback and state files of the transaction
\* (FileBasedStore.cpp:702-735) never lose them, in a recovery that is itself
\* cut short neither.
Recoverable ==
    pc \notin Compacting =>
        RecoveredEntries = saved.entries /\ RecoveredData = saved.data

\* Between operations the files are exactly the last committed ones, and no
\* rollback or state file is left (the constructor of the next
\* InstanceTransactionHandler has nothing to roll back): a reader sees no
\* part of an operation that failed.
CleanAtRest ==
    pc = "idle" =>
        /\ index.entries = saved.entries /\ data = saved.data
        /\ indexRb = NoIndex /\ dataRb = NoSize /\ state = {}

\* Where the first i entries end in the data file, and the entries that are free.
EndOf(e, i) == IF i = 0 THEN 0 ELSE e[i].at + e[i].size
FreeEntries(e) == {i \in DOMAIN e : e[i].free}

\* The entries of the committed index, free ones included, tile the data file
\* in order, a name has at most one that is not free, and there are fewer free
\* ones than call for a compaction.  The arithmetic of InstanceIndexFile::compact, which
\* moves an entry up by the sizes of the free ones before it, relies on it.
EntriesTileData ==
    LET e == saved.entries
    IN  /\ \A i \in DOMAIN e : e[i].at = EndOf(e, i - 1)
        /\ Len(saved.data) = EndOf(e, Len(e))
        /\ \A i, j \in DOMAIN e :
              e[i].name = e[j].name /\ ~e[i].free /\ ~e[j].free => i = j
        /\ Cardinality(FreeEntries(e)) < MaxFreeCount

\* createInstance, modifyInstance and deleteInstance change the stored
\* instances at once or not at all, whatever fails or stops them.
Store == INSTANCE InstanceStore WITH store <- Contents(saved, saved.data)
ImplementsInstanceStore == Store!Spec

\* Every operation and every recovery comes to an end, unless the server
\* stops again and again.
OperationsEnd == []<><<Crash \/ FailUndo>>_vars \/ []<>(pc = "idle")
==============================================================================
