------------------------- MODULE InstanceStore_proofs -------------------------
(***************************************************************************)
(* Proof that InstanceFiles implements InstanceStore, and that the entries *)
(* of the committed index tile the data file.  The invariant says what the *)
(* entries of an index show in a data file, and how far each loop of a     *)
(* compaction has brought it.                                              *)
(***************************************************************************)
EXTENDS InstanceFiles_proofs, FiniteSetTheorems

-----------------------------------------------------------------------------
(* Instances in a data file.                                                *)

\* The cells of v are in d from place a on.
Stored(d, a, v) ==
    /\ a >= 0 /\ a + SizeOf[v] <= Len(d)
    /\ \A j \in 1 .. SizeOf[v] : d[a + j] = <<v, j>>

LEMMA Sizes == \A v \in Values : SizeOf[v] \in Nat /\ SizeOf[v] >= 1
BY SizesAreSizes

LEMMA StoredExtends ==
    ASSUME NEW d \in Seq(Cells), NEW x \in Seq(Cells), NEW a \in Int, NEW v \in Values,
           Stored(d, a, v)
    PROVE  Stored(d \o x, a, v)
<1>1. /\ Len(d \o x) = Len(d) + Len(x) /\ Len(d) \in Nat /\ Len(x) \in Nat
      /\ \A i \in 1 .. Len(d) : (d \o x)[i] = d[i]
  OBVIOUS
<1>2. \A j \in 1 .. SizeOf[v] : a + j \in 1 .. Len(d)
  BY <1>1, Sizes DEF Stored
<1> QED
  BY <1>1, <1>2, Sizes DEF Stored

\* What is appended is stored at the end.
LEMMA StoredAppended ==
    ASSUME NEW d \in Seq(Cells), NEW x \in Seq(Cells), NEW v \in Values,
           Len(x) = SizeOf[v], \A j \in 1 .. SizeOf[v] : x[j] = <<v, j>>
    PROVE  Stored(d \o x, Len(d), v)
<1>1. /\ Len(d \o x) = Len(d) + Len(x) /\ Len(d) \in Nat /\ Len(x) \in Nat
      /\ \A i \in 1 .. Len(d) + Len(x) :
            (d \o x)[i] = IF i <= Len(d) THEN d[i] ELSE x[i - Len(d)]
  BY ConcatProperties, SMTT(30)
<1>2. ASSUME NEW j \in 1 .. Len(x)
      PROVE  (d \o x)[Len(d) + j] = x[j]
  <2>1. Len(d) + j \in 1 .. Len(d) + Len(x) /\ ~(Len(d) + j <= Len(d))
        /\ (Len(d) + j) - Len(d) = j
    BY <1>1
  <2> QED
    BY <1>1, <2>1
<1> QED
  BY <1>1, <1>2, Sizes DEF Stored

LEMMA EncodedCells ==
    ASSUME NEW v \in Values
    PROVE  /\ Encoded(v) \in Seq(Cells) /\ Len(Encoded(v)) = SizeOf[v]
           /\ \A j \in 1 .. SizeOf[v] : Encoded(v)[j] = <<v, j>>
BY EncodedType DEF Encoded

LEMMA AppendedData ==
    ASSUME NEW v \in Values, NEW d \in Seq(Cells)
    PROVE  /\ Encoded(v) \in Seq(Cells) /\ Len(Encoded(v)) = SizeOf[v]
           /\ d \o Encoded(v) \in Seq(Cells)
           /\ Len(d \o Encoded(v)) = Len(d) + SizeOf[v]
           /\ Len(d) \in Nat /\ SizeOf[v] \in Nat
           /\ \A j \in 1 .. SizeOf[v] : Encoded(v)[j] = <<v, j>>
<1>1. /\ Encoded(v) \in Seq(Cells) /\ Len(Encoded(v)) = SizeOf[v] /\ SizeOf[v] \in Nat
      /\ \A j \in 1 .. SizeOf[v] : Encoded(v)[j] = <<v, j>>
  BY EncodedCells, Sizes
<1> PICK c \in Seq(Cells) : c = Encoded(v)
  BY <1>1
<1>2. d \o c \in Seq(Cells) /\ Len(d \o c) = Len(d) + Len(c) /\ Len(d) \in Nat
  OBVIOUS
<1> QED
  BY <1>1, <1>2

\* What is copied is what was stored.
LEMMA CopiedCells ==
    ASSUME NEW d \in Seq(Cells), NEW a \in Nat, NEW k \in Nat, a + k <= Len(d)
    PROVE  /\ SubSeq(d, a + 1, a + k) \in Seq(Cells) /\ Len(SubSeq(d, a + 1, a + k)) = k
           /\ \A j \in 1 .. k : SubSeq(d, a + 1, a + k)[j] = d[a + j]
<1> PICK m \in Nat : m = a + 1
  OBVIOUS
<1> PICK n \in Nat : n = a + k
  OBVIOUS
<1>1. \A i \in m .. n : d[i] \in Cells
  OBVIOUS
<1>2. /\ SubSeq(d, m, n) \in Seq(Cells)
      /\ Len(SubSeq(d, m, n)) = IF m <= n THEN n - m + 1 ELSE 0
      /\ \A i \in 1 .. n - m + 1 : SubSeq(d, m, n)[i] = d[m + i - 1]
  BY <1>1, SubSeqProperties
<1>3. n - m + 1 = k /\ \A i \in 1 .. k : m + i - 1 = a + i
  OBVIOUS
<1> QED
  BY <1>2, <1>3

\* An instance that is stored at the place of an entry is the one that is loaded.
LEMMA StoredLoaded ==
    ASSUME NEW d \in Seq(Cells), NEW e \in Entry, NEW v \in Values,
           Stored(d, e.at, v), e.size = SizeOf[v]
    PROVE  Loaded(e, d) = v
<1>1. e.at \in Nat /\ e.size \in Nat /\ e.size >= 1 /\ e.at + e.size <= Len(d)
  BY Sizes DEF Stored, Entry
<1>2. /\ CellsOf(e, d) \in Seq(Cells) /\ Len(CellsOf(e, d)) = e.size
      /\ \A j \in 1 .. e.size : CellsOf(e, d)[j] = d[e.at + j]
  BY <1>1, CopiedCells DEF CellsOf
<1>3. CellsOf(e, d) = Encoded(v)
  <2>1. \A j \in 1 .. e.size : CellsOf(e, d)[j] = Encoded(v)[j]
    BY <1>2, EncodedCells DEF Stored
  <2> QED
    BY <1>2, <2>1, EncodedCells, SeqEqual
<1>4. Readable(e, d)
  BY <1>1 DEF Readable
<1> DEFINE read == {w \in Values : Readable(e, d) /\ CellsOf(e, d) = Encoded(w)}
<1>5. ASSUME NEW w \in read
      PROVE  w = v
  <2>1. Encoded(w) = Encoded(v) /\ w \in Values
    BY <1>3
  <2>2. Encoded(w)[1] = <<w, 1>> /\ Encoded(v)[1] = <<v, 1>>
    BY <2>1, EncodedCells, Sizes
  <2> QED
    BY <2>1, <2>2
<1>6. v \in read
  BY <1>3, <1>4
<1>7. Loaded(e, d) = CHOOSE w \in read : TRUE
  BY <1>6 DEF Loaded
<1> HIDE DEF read
<1> QED
  BY <1>5, <1>6, <1>7


-----------------------------------------------------------------------------
(* The invariant.                                                           *)

\* A name has at most one entry that is not free.
Unique(e) ==
    \A i, j \in DOMAIN e : e[i].name = e[j].name /\ ~e[i].free /\ ~e[j].free => i = j

\* The entries follow each other in the data file.
Tiled(e) == \A i \in DOMAIN e : e[i].at = EndOf(e, i - 1)

\* Every name that m has an instance of has an entry.
Covers(e, m) ==
    \A n \in Names : m[n] # Absent => \E i \in DOMAIN e : e[i].name = n /\ ~e[i].free

\* What m has for the name of entry x is in d at place a.
Holds(x, d, a, m) ==
    m[x.name] # Absent /\ x.size = SizeOf[m[x.name]] /\ Stored(d, a, m[x.name])

\* The entries e of an index are in order, and show in the data file d exactly
\* the instances of m.
Fits(e, d, m) ==
    /\ Tiled(e) /\ EndOf(e, Len(e)) = Len(d)
    /\ Unique(e) /\ Covers(e, m)
    /\ \A i \in DOMAIN e : ~e[i].free => Holds(e[i], d, e[i].at, m)

\* The place that a compaction gives to each of the first r entries, and the
\* end of the last one.
Packed(e, r, p) ==
    /\ Len(p) = r + 1 /\ p[1] = 0
    /\ \A i \in 1 .. r : p[i + 1] = p[i] + (IF e[i].free THEN 0 ELSE e[i].size)

\* The instances of the first r entries are at those places of a data file.
CellsAt(e, r, p, d, m) ==
    /\ Len(d) = p[r + 1]
    /\ \A i \in 1 .. r : ~e[i].free => Holds(e[i], d, p[i], m)

\* The entries t are those of the first r that are not free, with those places.
Moved(x, a) == [name |-> x.name, free |-> FALSE, at |-> a, size |-> x.size]
EntriesAt(e, r, p, t) ==
    /\ Tiled(t) /\ EndOf(t, Len(t)) = p[r + 1] /\ Unique(t)
    /\ \A j \in DOMAIN t : \E i \in 1 .. r : ~e[i].free /\ t[j] = Moved(e[i], p[i])
    /\ \A i \in 1 .. r : ~e[i].free => \E j \in DOMAIN t : t[j] = Moved(e[i], p[i])

\* The committed instances, and what the operation makes of them.
StoredInstances == Contents(saved, saved.data)
Expected == [StoredInstances EXCEPT ![op.name] = op.value]

\* The committed files show the committed instances, and there are fewer free
\* entries than call for a compaction.
SavedInv ==
    /\ Fits(saved.entries, saved.data, StoredInstances)
    /\ Cardinality(FreeEntries(saved.entries)) < MaxFreeCount

\* The header of an index file counts its free entries.
CountInv ==
    /\ index.count = Cardinality(FreeEntries(index.entries))
    /\ indexRb.count = Cardinality(FreeEntries(indexRb.entries))

\* The steps of the transaction that find the committed index in place, and
\* those at which the index has been changed.
Unchanged == {"idle", "begin", "beginIndex", "headIndex", "beginData", "begun", "append",
              "entry"}
Changed == {"commit", "compactData", "compactIndex", "commitCompacted"}

\* An index is torn only while its rollback file is whole, and that one only
\* until its header is written.
TornInv ==
    /\ index.file = "torn" => indexRb.file = "whole" /\ "commit" \notin state
    /\ indexRb.file = "torn" => pc = "headIndex"
    /\ pc \in Unchanged => index.entries = saved.entries /\ index.file # "torn"
    /\ pc \in Changed => index.file = "whole"

\* The instance was appended to the committed data file.
AppendedInv ==
    pc = "entry" => data = IF op.kind = "delete" THEN saved.data
                           ELSE saved.data \o Encoded(op.value)

\* The operation is allowed, and the files are on the way to what it makes of
\* the instances.
ChangedInv ==
    pc \in Changed => /\ op \in Operations
                      /\ op.kind = "create" <=> StoredInstances[op.name] = Absent

FitsInv ==
    /\ pc \in {"commit", "compactData", "commitCompacted"} =>
           Fits(index.entries, data, Expected)
    /\ pc \in {"commit", "commitCompacted"} =>
           Cardinality(FreeEntries(index.entries)) < MaxFreeCount

\* No loop is under way but those of a compaction.
TmpInv == pc \notin {"compactData", "compactIndex"} => tmp = NoTmp

\* How far the loops of a compaction have come.
DataLoopInv ==
    pc = "compactData" =>
        /\ tmp.read <= Len(index.entries)
        /\ \E p \in Seq(Nat) : /\ Packed(index.entries, tmp.read, p)
                               /\ CellsAt(index.entries, tmp.read, p, tmp.cells, Expected)
                               
\* The data file has the places p when its entries e are moved.
IndexLoop(e, p) ==
    /\ Packed(e, Len(e), p) /\ CellsAt(e, Len(e), p, data, Expected)
    /\ tmp.adjust = EndOf(e, tmp.read) - p[tmp.read + 1]
    /\ EntriesAt(e, tmp.read, p, tmp.entries)
IndexLoopInv ==
    pc = "compactIndex" =>
        /\ tmp.read <= Len(index.entries)
        /\ Tiled(index.entries) /\ Unique(index.entries) /\ Covers(index.entries, Expected)
        /\ \E p \in Seq(Nat) : IndexLoop(index.entries, p)

StoreInv == SavedInv /\ CountInv /\ TornInv /\ AppendedInv /\ ChangedInv /\ FitsInv
                /\ TmpInv /\ DataLoopInv /\ IndexLoopInv

-----------------------------------------------------------------------------
(* What an index that fits shows.                                           *)

\* What can be stored: an instance or nothing for each name.
Stores == [Names -> Values \cup {Absent}]

LEMMA ContentsType ==
    ASSUME NEW f, NEW d
    PROVE  Contents(f, d) \in Stores
<1>1. ASSUME NEW e
      PROVE  Loaded(e, d) \in Values \cup {Absent}
  <2> DEFINE read == {v \in Values : Readable(e, d) /\ CellsOf(e, d) = Encoded(v)}
  <2>1. Loaded(e, d) = IF read = {} THEN Absent ELSE CHOOSE v \in read : TRUE
    BY DEF Loaded
  <2>2. read \subseteq Values
    OBVIOUS
  <2> HIDE DEF read
  <2>3. read # {} => (CHOOSE v \in read : TRUE) \in read
    OBVIOUS
  <2> QED
    BY <2>1, <2>2, <2>3
<1> QED
  BY <1>1 DEF Contents, Stores

\* The entry of a name is the only one.
LEMMA FoundOne ==
    ASSUME NEW f, f.entries \in Seq(Entry), Unique(f.entries), NEW n \in Names
    PROVE  /\ Found(f, n) \subseteq 1 .. Len(f.entries)
           /\ Found(f, n) # {} => \E k \in 1 .. Len(f.entries) : Found(f, n) = {k}
           /\ \A k \in Found(f, n) : f.entries[k].name = n /\ ~f.entries[k].free
<1>1. DOMAIN f.entries = 1 .. Len(f.entries)
  OBVIOUS
<1>2. \A i, j \in Found(f, n) : i = j
  BY DEF Found, Unique
<1> QED
  BY <1>1, <1>2 DEF Found

\* What fits is what is read.
LEMMA FitsContents ==
    ASSUME NEW f, f.entries \in Seq(Entry), NEW d \in Seq(Cells), NEW m \in Stores,
           Fits(f.entries, d, m)
    PROVE  Contents(f, d) = m
<1>0. Unique(f.entries) /\ DOMAIN f.entries = 1 .. Len(f.entries)
  BY DEF Fits
<1>1. ASSUME NEW n \in Names
      PROVE  Contents(f, d)[n] = m[n]
  <2>1. Contents(f, d)[n] = IF Found(f, n) = {} THEN Absent
                            ELSE Loaded(f.entries[CHOOSE i \in Found(f, n) : TRUE], d)
    BY DEF Contents
  <2>2. CASE Found(f, n) = {}
    <3>1. m[n] = Absent
      BY <2>2 DEF Fits, Covers, Found
    <3> QED
      BY <2>1, <2>2, <3>1
  <2>3. CASE Found(f, n) # {}
    <3>1. PICK k \in 1 .. Len(f.entries) : Found(f, n) = {k}
      BY <1>0, <2>3, FoundOne
    <3>2. f.entries[k].name = n /\ ~f.entries[k].free /\ f.entries[k] \in Entry
      BY <1>0, <3>1, FoundOne
    <3>3. Holds(f.entries[k], d, f.entries[k].at, m)
      BY <1>0, <3>2 DEF Fits
    <3>4. m[n] \in Values
      BY <3>2, <3>3 DEF Stores, Holds
    <3>5. Loaded(f.entries[k], d) = m[n]
      BY <3>2, <3>3, <3>4, StoredLoaded DEF Holds
    <3>6. (CHOOSE i \in Found(f, n) : TRUE) = k
      BY <3>1
    <3> QED
      BY <2>1, <2>3, <3>5, <3>6
  <2> QED
    BY <2>2, <2>3
<1>2. Contents(f, d) = [n \in Names |-> Contents(f, d)[n]]
  BY DEF Contents
<1>3. m = [n \in Names |-> m[n]]
  BY DEF Stores
<1> QED
  BY <1>1, <1>2, <1>3

-----------------------------------------------------------------------------
(* The changes of an index.                                                 *)

\* To free a name changes nothing but that.
LEMMA FreedEntries ==
    ASSUME NEW f, f.entries \in Seq(Entry), NEW n \in Names
    PROVE  /\ MarkedFree(f, n) \in Seq(Entry) /\ Len(MarkedFree(f, n)) = Len(f.entries)
           /\ \A i \in 1 .. Len(f.entries) :
                 /\ MarkedFree(f, n)[i].name = f.entries[i].name
                 /\ MarkedFree(f, n)[i].at = f.entries[i].at
                 /\ MarkedFree(f, n)[i].size = f.entries[i].size
                 /\ MarkedFree(f, n)[i].free <=> f.entries[i].free \/ i \in Found(f, n)
<1>1. DOMAIN f.entries = 1 .. Len(f.entries)
  OBVIOUS
<1> DEFINE g == MarkedFree(f, n)
<1>2. g = [i \in 1 .. Len(f.entries) |->
              IF i \in Found(f, n) THEN [f.entries[i] EXCEPT !.free = TRUE]
              ELSE f.entries[i]]
  BY <1>1 DEF MarkedFree
<1>3. ASSUME NEW i \in 1 .. Len(f.entries)
      PROVE  /\ g[i] \in Entry
             /\ g[i].name = f.entries[i].name /\ g[i].at = f.entries[i].at
             /\ g[i].size = f.entries[i].size
             /\ g[i].free <=> f.entries[i].free \/ i \in Found(f, n)
  <2>1. g[i] = IF i \in Found(f, n) THEN [f.entries[i] EXCEPT !.free = TRUE]
               ELSE f.entries[i]
    BY <1>2
  <2>2. f.entries[i] \in Entry
    OBVIOUS
  <2> HIDE DEF g
  <2>3. CASE i \in Found(f, n)
    BY <2>1, <2>2, <2>3 DEF Entry
  <2>4. CASE i \notin Found(f, n)
    BY <2>1, <2>2, <2>4
  <2> QED
    BY <2>3, <2>4
<1>4. g \in [1 .. Len(f.entries) -> Entry]
  BY <1>2, <1>3
<1> HIDE DEF g
<1>5. g \in Seq(Entry) /\ Len(g) = Len(f.entries)
  BY <1>4
<1> QED
  BY <1>3, <1>5 DEF g

\* A set of positions of free entries is finite.
LEMMA FreeFinite ==
    ASSUME NEW e \in Seq(Entry)
    PROVE  /\ FreeEntries(e) \subseteq 1 .. Len(e) /\ IsFiniteSet(FreeEntries(e))
           /\ Cardinality(FreeEntries(e)) \in Nat
<1>1. FreeEntries(e) \subseteq 1 .. Len(e) /\ Len(e) \in Nat
  BY DEF FreeEntries
<1>2. IsFiniteSet(1 .. Len(e))
  BY <1>1, FS_Interval
<1> QED
  BY <1>1, <1>2, FS_Subset, FS_CardinalityType

\* An index in which a name is freed shows the instances without it.
LEMMA FreeFits ==
    ASSUME NEW f, f.entries \in Seq(Entry), NEW d \in Seq(Cells), NEW m \in Stores,
           NEW n \in Names, Fits(f.entries, d, m), Found(f, n) # {}
    PROVE  /\ Fits(MarkedFree(f, n), d, [m EXCEPT ![n] = Absent])
           /\ Cardinality(FreeEntries(MarkedFree(f, n)))
                 = Cardinality(FreeEntries(f.entries)) + 1
<1> PICK e \in Seq(Entry) : e = f.entries
  OBVIOUS
<1> PICK g \in Seq(Entry) : g = MarkedFree(f, n)
  BY FreedEntries
<1> PICK w : w = [m EXCEPT ![n] = Absent]
  OBVIOUS
<1>1. /\ Len(g) = Len(e) /\ Len(e) \in Nat /\ DOMAIN g = 1 .. Len(e) /\ DOMAIN e = 1 .. Len(e)
      /\ \A i \in 1 .. Len(e) : /\ g[i].name = e[i].name
                                /\ g[i].at = e[i].at
                                /\ g[i].size = e[i].size
                                /\ g[i].free <=> e[i].free \/ i \in Found(f, n)
  BY FreedEntries
<1>2. \A i \in 0 .. Len(e) : EndOf(g, i) = EndOf(e, i)
  BY <1>1 DEF EndOf
<1>3. Tiled(g) /\ EndOf(g, Len(g)) = Len(d)
  <2>1. \A i \in 1 .. Len(e) : i - 1 \in 0 .. Len(e)
    BY <1>1
  <2>2. Tiled(e) /\ EndOf(e, Len(e)) = Len(d) /\ Len(e) \in 0 .. Len(e)
    BY <1>1 DEF Fits
  <2> QED
    BY <1>1, <1>2, <2>1, <2>2 DEF Tiled
<1>4. Unique(e)
  BY DEF Fits
<1>5. Unique(g)
  BY <1>1, <1>4 DEF Unique
<1>6. \A i \in 1 .. Len(e) : i \in Found(f, n) <=> e[i].name = n /\ ~e[i].free
  BY <1>1 DEF Found
<1>7. w[n] = Absent /\ \A x \in Names \ {n} : w[x] = m[x]
  BY DEF Stores
<1>8. Covers(g, w)
  <2> SUFFICES ASSUME NEW x \in Names, w[x] # Absent
               PROVE  \E i \in DOMAIN g : g[i].name = x /\ ~g[i].free
    BY DEF Covers
  <2>1. x # n /\ m[x] # Absent
    BY <1>7
  <2>2. PICK i \in 1 .. Len(e) : e[i].name = x /\ ~e[i].free
    BY <1>1, <2>1 DEF Fits, Covers
  <2> QED
    BY <1>1, <1>6, <2>1, <2>2
<1>9. \A i \in DOMAIN g : ~g[i].free => Holds(g[i], d, g[i].at, w)
  <2> SUFFICES ASSUME NEW i \in 1 .. Len(e), ~g[i].free
               PROVE  Holds(g[i], d, g[i].at, w)
    BY <1>1
  <2>0. e[i] \in Entry
    OBVIOUS
  <2>1. ~e[i].free /\ e[i].name # n
    BY <1>1, <1>6
  <2>4. e[i].name \in Names
    BY <2>0 DEF Entry
  <2>2. Holds(e[i], d, e[i].at, m)
    BY <1>1, <2>1 DEF Fits
  <2>3. w[e[i].name] = m[e[i].name]
    BY <1>7, <2>1, <2>4
  <2> QED
    BY <1>1, <2>2, <2>3 DEF Holds
<1>10. Fits(g, d, w)
  BY <1>3, <1>5, <1>8, <1>9 DEF Fits
<1>11. Cardinality(FreeEntries(g)) = Cardinality(FreeEntries(e)) + 1
  <2>1. PICK k \in 1 .. Len(e) : Found(f, n) = {k} /\ ~e[k].free
    BY <1>4, FoundOne
  <2>2. FreeEntries(g) = FreeEntries(e) \cup {k} /\ k \notin FreeEntries(e)
    BY <1>1, <2>1 DEF FreeEntries
  <2> QED
    BY <2>2, FreeFinite, FS_AddElement
<1> QED
  BY <1>10, <1>11

\* An entry at the end of the data file, for an instance that is appended there,
\* shows that instance.
LEMMA AppendFits ==
    ASSUME NEW e \in Seq(Entry), NEW d \in Seq(Cells), NEW m \in Stores,
           NEW n \in Names, NEW v \in Values, Fits(e, d, m), m[n] = Absent
    PROVE  LET x == [name |-> n, free |-> FALSE, at |-> Len(d), size |-> SizeOf[v]]
           IN  /\ Fits(Append(e, x), d \o Encoded(v), [m EXCEPT ![n] = v])
               /\ FreeEntries(Append(e, x)) = FreeEntries(e)
<1>a. PICK x : x = [name |-> n, free |-> FALSE, at |-> Len(d), size |-> SizeOf[v]]
  OBVIOUS
<1>b. PICK w : w = [m EXCEPT ![n] = v]
  OBVIOUS
<1>c. PICK c : c = Encoded(v)
  OBVIOUS
<1>1. x.name = n /\ ~x.free /\ x.at = Len(d) /\ x.size = SizeOf[v] /\ x \in Entry
  <2>1. Len(d) \in Int /\ SizeOf[v] \in Nat
    BY Sizes
  <2> QED
    BY <1>a, <2>1 DEF Entry
<1>2. /\ c \in Seq(Cells) /\ Len(c) = SizeOf[v] /\ d \o c \in Seq(Cells)
      /\ Len(d \o c) = Len(d) + SizeOf[v] /\ Len(d) \in Nat /\ SizeOf[v] \in Nat
      /\ \A j \in 1 .. SizeOf[v] : c[j] = <<v, j>>
  BY <1>c, AppendedData, Zenon
<1>d. Append(e, x) \in Seq(Entry)
  BY <1>1, AppendProperties
<1> PICK g \in Seq(Entry) : g = Append(e, x)
  BY <1>d
<1>3. /\ Len(g) = Len(e) + 1 /\ Len(e) \in Nat
      /\ DOMAIN g = 1 .. Len(e) + 1 /\ DOMAIN e = 1 .. Len(e)
      /\ g[Len(e) + 1] = x /\ \A i \in 1 .. Len(e) : g[i] = e[i]
  OBVIOUS
<1>4. \A i \in 1 .. Len(e) + 1 : i \in 1 .. Len(e) \/ i = Len(e) + 1
  BY <1>3
<1>5. \A i \in 0 .. Len(e) : EndOf(g, i) = EndOf(e, i)
  BY <1>3 DEF EndOf
<1>6. Tiled(g) /\ EndOf(g, Len(g)) = Len(d \o c)
  <2>1. EndOf(g, Len(g)) = x.at + x.size
    BY <1>3 DEF EndOf
  <2>2. Tiled(e) /\ EndOf(e, Len(e)) = Len(d)
    BY DEF Fits
  <2>3. ASSUME NEW i \in 1 .. Len(e)
        PROVE  g[i].at = EndOf(g, i - 1)
    <3>1. i - 1 \in 0 .. Len(e)
      BY <1>3
    <3> QED
      BY <1>3, <1>5, <2>2, <3>1 DEF Tiled
  <2>4. x.at = EndOf(g, Len(e))
    <3>1. Len(e) \in 0 .. Len(e)
      BY <1>3
    <3> QED
      BY <1>1, <1>5, <2>2, <3>1
  <2>5. (Len(e) + 1) - 1 = Len(e)
    BY <1>3
  <2>6. Tiled(g)
    BY <1>3, <1>4, <2>3, <2>4, <2>5 DEF Tiled
  <2> QED
    BY <1>1, <1>2, <2>1, <2>6
<1>7. \A i \in 1 .. Len(e) : ~e[i].free => e[i].name # n
  BY <1>3 DEF Fits, Holds
<1>8. Unique(g)
  BY <1>1, <1>3, <1>4, <1>7 DEF Fits, Unique
<1>9. w[n] = v /\ v # Absent /\ \A y \in Names \ {n} : w[y] = m[y]
  BY <1>b, AbsentIsNoValue DEF Stores
<1>10. Covers(g, w)
  <2> SUFFICES ASSUME NEW y \in Names, w[y] # Absent
               PROVE  \E i \in DOMAIN g : g[i].name = y /\ ~g[i].free
    BY DEF Covers
  <2>1. CASE y = n
    <3>1. Len(e) + 1 \in DOMAIN g
      BY <1>3
    <3> QED
      BY <1>1, <1>3, <2>1, <3>1
  <2>2. CASE y # n
    <3>1. m[y] # Absent
      BY <1>9, <2>2
    <3>2. PICK i \in 1 .. Len(e) : e[i].name = y /\ ~e[i].free
      BY <1>3, <3>1 DEF Fits, Covers
    <3>3. i \in DOMAIN g
      BY <1>3
    <3> QED
      BY <1>3, <3>2, <3>3
  <2> QED
    BY <2>1, <2>2
<1>11. \A i \in DOMAIN g : ~g[i].free => Holds(g[i], d \o c, g[i].at, w)
  <2>1. ASSUME NEW i \in 1 .. Len(e), ~e[i].free
        PROVE  Holds(e[i], d \o c, e[i].at, w)
    <3>1. Holds(e[i], d, e[i].at, m)
      BY <1>3, <2>1 DEF Fits
    <3>2. e[i] \in Entry
      OBVIOUS
    <3>3. e[i].name \in Names \ {n} /\ e[i].at \in Int
      BY <1>7, <2>1, <3>2 DEF Entry
    <3>4. w[e[i].name] = m[e[i].name] /\ m[e[i].name] \in Values
      BY <1>9, <3>1, <3>3 DEF Holds, Stores
    <3>5. Stored(d \o c, e[i].at, m[e[i].name])
      BY <1>2, <3>1, <3>3, <3>4, StoredExtends DEF Holds
    <3> QED
      BY <3>1, <3>4, <3>5 DEF Holds
  <2>2. Holds(x, d \o c, x.at, w)
    <3>1. Stored(d \o c, Len(d), v)
      BY <1>2, StoredAppended
    <3> QED
      BY <1>1, <1>9, <3>1 DEF Holds
  <2> QED
    BY <1>3, <1>4, <2>1, <2>2
<1>12. Fits(g, d \o c, w)
  BY <1>6, <1>8, <1>10, <1>11 DEF Fits
<1>13. FreeEntries(g) = FreeEntries(e)
  BY <1>1, <1>3, <1>4 DEF FreeEntries
<1> QED
  BY <1>12, <1>13, <1>a, <1>b, <1>c, Zenon

-----------------------------------------------------------------------------
(* The loops of a compaction.                                               *)

LEMMA PackedStart ==
    ASSUME NEW e \in Seq(Entry), NEW m
    PROVE  /\ <<0>> \in Seq(Nat) /\ Packed(e, 0, <<0>>)
           /\ CellsAt(e, 0, <<0>>, <<>>, m)
BY DEF Packed, CellsAt

\* An instance that is copied goes to the end of what was copied, and can be read.
LEMMA CopyCells ==
    ASSUME NEW e \in Seq(Entry), NEW d \in Seq(Cells), NEW m \in Stores,
           NEW r \in Nat, r < Len(e), NEW p \in Seq(Nat), NEW c \in Seq(Cells),
           Fits(e, d, m), Packed(e, r, p), CellsAt(e, r, p, c, m)
    PROVE  /\ e[r + 1].free \/ Readable(e[r + 1], d)
           /\ \E q \in Seq(Nat) :
                 /\ Packed(e, r + 1, q)
                 /\ CellsAt(e, r + 1, q, IF e[r + 1].free THEN c
                                         ELSE c \o CellsOf(e[r + 1], d), m)
<1>1. r + 1 \in 1 .. Len(e) /\ r + 1 \in DOMAIN e
  OBVIOUS
<1>2. PICK x \in Entry : x = e[r + 1]
  BY <1>1
<1>3. x.size \in Nat /\ x.at \in Int /\ x.name \in Names
  BY DEF Entry
<1> PICK z \in Nat : z = IF x.free THEN 0 ELSE x.size
  BY <1>3
<1>4. p[r + 1] \in Nat /\ Len(p) = r + 1 /\ Len(c) = p[r + 1]
  BY <1>1 DEF Packed, CellsAt
<1>5. PICK s \in Nat : s = p[r + 1] + z
  BY <1>4
<1>6. Append(p, s) \in Seq(Nat)
  BY AppendProperties
<1>7. PICK q \in Seq(Nat) : q = Append(p, s)
  BY <1>6
<1>8. /\ Len(q) = (r + 1) + 1 /\ q[(r + 1) + 1] = s
      /\ \A i \in 1 .. r + 1 : q[i] = p[i]
  BY <1>4, <1>7
<1>9. \A i \in 1 .. r + 1 : i \in 1 .. r \/ i = r + 1
  OBVIOUS
<1>10. Packed(e, r + 1, q)
  <2>1. q[1] = 0
    <3>1. 1 \in 1 .. r + 1
      OBVIOUS
    <3> QED
      BY <3>1, <1>8 DEF Packed
  <2>2. ASSUME NEW i \in 1 .. r
        PROVE  q[i + 1] = q[i] + (IF e[i].free THEN 0 ELSE e[i].size)
    <3>1. i \in 1 .. r + 1 /\ i + 1 \in 1 .. r + 1
      OBVIOUS
    <3>2. p[i + 1] = p[i] + (IF e[i].free THEN 0 ELSE e[i].size)
      BY DEF Packed
    <3> QED
      BY <1>8, <3>1, <3>2
  <2>3. q[(r + 1) + 1] = q[r + 1] + (IF e[r + 1].free THEN 0 ELSE e[r + 1].size)
    BY <1>2, <1>5, <1>8
  <2> QED
    BY <1>8, <1>9, <2>1, <2>2, <2>3 DEF Packed
<1>11. CASE x.free
  <2>1. CellsAt(e, r + 1, q, c, m)
    <3>1. Len(c) = q[(r + 1) + 1]
      BY <1>4, <1>5, <1>8, <1>11
    <3>2. ASSUME NEW i \in 1 .. r + 1, ~e[i].free
          PROVE  Holds(e[i], c, q[i], m)
      <4>1. i \in 1 .. r
        BY <1>2, <1>9, <1>11, <3>2
      <4>2. Holds(e[i], c, p[i], m)
        BY <3>2, <4>1 DEF CellsAt
      <4> QED
        BY <1>8, <4>2
    <3> QED
      BY <3>1, <3>2 DEF CellsAt
  <2> QED
    BY <1>2, <1>10, <1>11, <2>1
<1>12. CASE ~x.free
  <2>1. Holds(x, d, x.at, m)
    BY <1>1, <1>2, <1>12 DEF Fits
  <2>2. m[x.name] \in Values
    BY <1>3, <2>1 DEF Holds, Stores
  <2>3. x.at \in Nat /\ x.at + x.size <= Len(d) /\ x.size = SizeOf[m[x.name]]
    BY <1>3, <2>1 DEF Holds, Stored
  <2>4. /\ CellsOf(x, d) \in Seq(Cells) /\ Len(CellsOf(x, d)) = x.size
        /\ \A j \in 1 .. x.size : CellsOf(x, d)[j] = d[x.at + j]
    BY <1>3, <2>3, CopiedCells DEF CellsOf
  <2>5. PICK y \in Seq(Cells) : y = CellsOf(x, d)
    BY <2>4
  <2>6. \A j \in 1 .. SizeOf[m[x.name]] : y[j] = <<m[x.name], j>>
    BY <2>1, <2>3, <2>4, <2>5 DEF Holds, Stored
  <2>7. Stored(c \o y, Len(c), m[x.name])
    BY <2>2, <2>3, <2>4, <2>5, <2>6, StoredAppended
  <2>8. Len(c \o y) = Len(c) + x.size
    BY <2>4, <2>5
  <2>9. CellsAt(e, r + 1, q, c \o y, m)
    <3>1. Len(c \o y) = q[(r + 1) + 1]
      BY <1>4, <1>5, <1>8, <1>12, <2>8
    <3>2. ASSUME NEW i \in 1 .. r, ~e[i].free
          PROVE  Holds(e[i], c \o y, q[i], m)
      <4>0. i \in DOMAIN e /\ e[i] \in Entry /\ i \in 1 .. r + 1
        OBVIOUS
      <4>1. Holds(e[i], c, p[i], m)
        BY <3>2 DEF CellsAt
      <4>2. m[e[i].name] \in Values
        BY <4>0, <4>1 DEF Holds, Stores, Entry
      <4>3. p[i] \in Int
        BY <1>4, <4>0
      <4>4. Stored(c \o y, p[i], m[e[i].name])
        BY <4>1, <4>2, <4>3, StoredExtends DEF Holds
      <4>5. q[i] = p[i]
        BY <1>8, <4>0
      <4> QED
        BY <4>1, <4>4, <4>5 DEF Holds
    <3>3. Holds(e[r + 1], c \o y, q[r + 1], m)
      BY <1>2, <1>4, <1>8, <2>1, <2>7 DEF Holds
    <3> QED
      BY <1>9, <3>1, <3>2, <3>3 DEF CellsAt
  <2>10. Readable(x, d)
    BY <2>3 DEF Readable
  <2> QED
    BY <1>2, <1>10, <1>12, <2>5, <2>9, <2>10
<1> QED
  BY <1>11, <1>12

LEMMA EntriesStart ==
    ASSUME NEW e \in Seq(Entry), NEW p, p[1] = 0
    PROVE  EntriesAt(e, 0, p, <<>>)
BY DEF EntriesAt, Tiled, Unique, EndOf

\* The entries read so far are those before, and the next one.
LEMMA MovePast ==
    ASSUME NEW e \in Seq(Entry), NEW r \in Nat, r < Len(e), NEW p \in Seq(Nat),
           Packed(e, Len(e), p), Tiled(e), NEW a \in Nat, a = EndOf(e, r) - p[r + 1],
           NEW s \in Nat, s = r + 1, NEW x \in Entry, x = e[s]
    PROVE  /\ x.at - a = p[s] /\ p[s] \in Nat
           /\ x.free => a + x.size = EndOf(e, s) - p[s + 1] /\ p[s + 1] = p[s]
           /\ ~x.free => a = EndOf(e, s) - p[s + 1] /\ p[s + 1] = p[s] + x.size
<1>1. s \in 1 .. Len(e) /\ s \in DOMAIN e /\ s # 0 /\ s - 1 = r
  OBVIOUS
<1>2. x.size \in Nat /\ x.at \in Int
  BY DEF Entry
<1>3. x.at = EndOf(e, r)
  BY <1>1 DEF Tiled
<1>4. EndOf(e, s) = x.at + x.size
  BY <1>1 DEF EndOf
<1>5. Len(p) = Len(e) + 1 /\ p[s + 1] = p[s] + (IF x.free THEN 0 ELSE x.size)
  BY <1>1 DEF Packed
<1>6. p[s] \in Nat
  BY <1>1, <1>5
<1>7. x.at - a = p[s]
  BY <1>2, <1>3, <1>6
<1>8. ASSUME x.free
      PROVE  a + x.size = EndOf(e, s) - p[s + 1] /\ p[s + 1] = p[s]
  <2>1. p[s + 1] = p[s]
    BY <1>5, <1>6, <1>8
  <2> QED
    <3>1. PICK i \in Int, j \in Nat, k \in Nat : i = x.at /\ j = x.size /\ k = p[s]
      BY <1>2, <1>6
    <3>2. i - a = k
      BY <1>7, <3>1
    <3>3. a + j = (i + j) - k
      BY ONLY <3>2, a \in Nat, i \in Int, j \in Nat, k \in Nat
    <3> QED
      BY <1>4, <2>1, <3>1, <3>3
<1>9. ASSUME ~x.free
      PROVE  a = EndOf(e, s) - p[s + 1] /\ p[s + 1] = p[s] + x.size
  <2>1. p[s + 1] = p[s] + x.size
    BY <1>5, <1>9
  <2> QED
    BY <1>2, <1>4, <1>6, <1>7, <2>1
<1> QED
  BY <1>6, <1>7, <1>8, <1>9

\* A free entry is left out.
LEMMA LeaveEntry ==
    ASSUME NEW e \in Seq(Entry), NEW r \in Nat, NEW p, NEW t,
           EntriesAt(e, r, p, t), e[r + 1].free, p[(r + 1) + 1] = p[r + 1]
    PROVE  EntriesAt(e, r + 1, p, t)
<1>1. \A i \in 1 .. r + 1 : i \in 1 .. r \/ i = r + 1
  OBVIOUS
<1>2. \A i \in 1 .. r : i \in 1 .. r + 1
  OBVIOUS
<1> QED
  BY <1>1, <1>2 DEF EntriesAt

\* One that is not free is written with its new place.
LEMMA MoveEntry ==
    ASSUME NEW e \in Seq(Entry), NEW r \in Nat, r < Len(e), NEW p, NEW t \in Seq(Entry),
           EntriesAt(e, r, p, t), Unique(e), NEW x \in Entry, x = e[r + 1], ~x.free,
           p[r + 1] \in Nat, p[(r + 1) + 1] = p[r + 1] + x.size,
           NEW y \in Entry, y = Moved(x, p[r + 1])
    PROVE  EntriesAt(e, r + 1, p, Append(t, y))
<1>1. y.name = x.name /\ ~y.free /\ y.at = p[r + 1] /\ y.size = x.size
  BY DEF Moved
<1>2. Append(t, y) \in Seq(Entry)
  BY AppendProperties
<1>3. PICK g \in Seq(Entry) : g = Append(t, y)
  BY <1>2
<1>4. /\ Len(g) = Len(t) + 1 /\ Len(t) \in Nat
      /\ DOMAIN g = 1 .. Len(t) + 1 /\ DOMAIN t = 1 .. Len(t)
      /\ g[Len(t) + 1] = y /\ \A i \in 1 .. Len(t) : g[i] = t[i]
  BY <1>3
<1>5. \A i \in 1 .. Len(t) + 1 : i \in 1 .. Len(t) \/ i = Len(t) + 1
  BY <1>4
<1>6. \A i \in 1 .. r + 1 : i \in 1 .. r \/ i = r + 1
  OBVIOUS
<1>7. /\ Tiled(t) /\ EndOf(t, Len(t)) = p[r + 1] /\ Unique(t)
      /\ \A j \in DOMAIN t : \E i \in 1 .. r : ~e[i].free /\ t[j] = Moved(e[i], p[i])
      /\ \A i \in 1 .. r : ~e[i].free => \E j \in DOMAIN t : t[j] = Moved(e[i], p[i])
  BY DEF EntriesAt
<1>8. \A i \in 0 .. Len(t) : EndOf(g, i) = EndOf(t, i)
  BY <1>4 DEF EndOf
<1>9. Tiled(g) /\ EndOf(g, Len(g)) = p[(r + 1) + 1]
  <2>1. EndOf(g, Len(g)) = y.at + y.size
    BY <1>4 DEF EndOf
  <2>2. ASSUME NEW i \in 1 .. Len(t)
        PROVE  g[i].at = EndOf(g, i - 1)
    <3>1. i - 1 \in 0 .. Len(t)
      BY <1>4
    <3> QED
      BY <1>4, <1>7, <1>8, <3>1 DEF Tiled
  <2>3. y.at = EndOf(g, Len(t))
    <3>1. Len(t) \in 0 .. Len(t)
      BY <1>4
    <3> QED
      BY <1>1, <1>7, <1>8, <3>1
  <2>4. (Len(t) + 1) - 1 = Len(t)
    BY <1>4
  <2>5. Tiled(g)
    BY <1>4, <1>5, <2>2, <2>3, <2>4 DEF Tiled
  <2> QED
    BY <1>1, <2>1, <2>5
<1>10. r + 1 \in DOMAIN e /\ \A i \in 1 .. r : i \in DOMAIN e /\ i # r + 1
  OBVIOUS
<1>11. \A j \in 1 .. Len(t) : t[j].name # x.name
  <2> SUFFICES ASSUME NEW j \in 1 .. Len(t), t[j].name = x.name
               PROVE  FALSE
    OBVIOUS
  <2>1. PICK i \in 1 .. r : ~e[i].free /\ t[j] = Moved(e[i], p[i])
    BY <1>4, <1>7
  <2>2. t[j].name = e[i].name
    BY <2>1 DEF Moved
  <2> QED
    BY <1>10, <2>1, <2>2 DEF Unique
<1>12. Unique(g)
  <2> SUFFICES ASSUME NEW i \in 1 .. Len(t) + 1, NEW j \in 1 .. Len(t) + 1,
                      g[i].name = g[j].name, ~g[i].free, ~g[j].free
               PROVE  i = j
    BY <1>4 DEF Unique
  <2>1. CASE i \in 1 .. Len(t) /\ j \in 1 .. Len(t)
    BY <1>4, <1>7, <2>1 DEF Unique
  <2>2. CASE i = Len(t) + 1
    BY <1>1, <1>4, <1>5, <1>11, <2>2
  <2>3. CASE j = Len(t) + 1
    BY <1>1, <1>4, <1>5, <1>11, <2>3
  <2> QED
    BY <1>5, <2>1, <2>2, <2>3
<1>13. ASSUME NEW j \in DOMAIN g
       PROVE  \E i \in 1 .. r + 1 : ~e[i].free /\ g[j] = Moved(e[i], p[i])
  <2>1. CASE j \in 1 .. Len(t)
    <3>1. PICK i \in 1 .. r : ~e[i].free /\ t[j] = Moved(e[i], p[i])
      BY <1>4, <1>7, <2>1
    <3>2. i \in 1 .. r + 1 /\ g[j] = t[j]
      BY <1>4, <2>1
    <3> QED
      BY <3>1, <3>2
  <2>2. CASE j = Len(t) + 1
    <3>1. r + 1 \in 1 .. r + 1
      OBVIOUS
    <3> QED
      BY <1>4, <2>2, <3>1
  <2> QED
    BY <1>4, <1>5, <2>1, <2>2
<1>14. ASSUME NEW i \in 1 .. r + 1, ~e[i].free
       PROVE  \E j \in DOMAIN g : g[j] = Moved(e[i], p[i])
  <2>1. CASE i \in 1 .. r
    <3>1. PICK j \in 1 .. Len(t) : t[j] = Moved(e[i], p[i])
      BY <1>4, <1>7, <1>14, <2>1
    <3>2. j \in DOMAIN g
      BY <1>4
    <3> QED
      BY <1>4, <3>1, <3>2
  <2>2. CASE i = r + 1
    <3>1. Len(t) + 1 \in DOMAIN g
      BY <1>4
    <3> QED
      BY <1>4, <2>2, <3>1
  <2> QED
    BY <1>6, <2>1, <2>2
<1>15. EntriesAt(e, r + 1, p, g)
  BY <1>9, <1>12, <1>13, <1>14 DEF EntriesAt
<1> QED
  BY <1>3, <1>15

LEMMA MovedEntry ==
    ASSUME NEW x \in Entry, NEW a \in Int
    PROVE  /\ Moved(x, a) \in Entry
           /\ ~x.free => [x EXCEPT !.at = a] = Moved(x, a)
<1>1. x.name \in Names /\ x.size \in Nat /\ x.free \in BOOLEAN
      /\ x = [name |-> x.name, free |-> x.free, at |-> x.at, size |-> x.size]
  BY DEF Entry
<1>2. Moved(x, a) \in Entry
  BY <1>1 DEF Moved, Entry
<1>3. ASSUME ~x.free PROVE [x EXCEPT !.at = a] = Moved(x, a)
  <2>1. x.free = FALSE
    BY <1>1, <1>3
  <2>2. [x EXCEPT !.at = a] \in Entry
    BY DEF Entry
  <2>3. /\ [x EXCEPT !.at = a].at = a /\ [x EXCEPT !.at = a].name = x.name
        /\ [x EXCEPT !.at = a].size = x.size /\ [x EXCEPT !.at = a].free = x.free
    BY DEF Entry
  <2>4. PICK y \in Entry : y = [x EXCEPT !.at = a]
    BY <2>2
  <2>5. y = [name |-> y.name, free |-> y.free, at |-> y.at, size |-> y.size]
    BY DEF Entry
  <2> QED
    BY <2>1, <2>3, <2>4, <2>5 DEF Moved
<1> QED
  BY <1>2, <1>3

\* When both loops have ended, the new index fits the new data file.
LEMMA PackedFits ==
    ASSUME NEW e \in Seq(Entry), NEW d \in Seq(Cells), NEW m \in Stores,
           NEW p \in Seq(Nat), NEW t \in Seq(Entry),
           Packed(e, Len(e), p), CellsAt(e, Len(e), p, d, m), Covers(e, m),
           EntriesAt(e, Len(e), p, t)
    PROVE  Fits(t, d, m) /\ FreeEntries(t) = {}
<1>1. DOMAIN e = 1 .. Len(e)
  OBVIOUS
<1>2. \A j \in DOMAIN t : \E i \in 1 .. Len(e) : ~e[i].free /\ t[j] = Moved(e[i], p[i])
  BY DEF EntriesAt
<1>3. Tiled(t) /\ EndOf(t, Len(t)) = Len(d) /\ Unique(t)
  BY DEF EntriesAt, CellsAt
<1>4. FreeEntries(t) = {}
  BY <1>2 DEF FreeEntries, Moved
<1>5. Covers(t, m)
  <2> SUFFICES ASSUME NEW n \in Names, m[n] # Absent
               PROVE  \E j \in DOMAIN t : t[j].name = n /\ ~t[j].free
    BY DEF Covers
  <2>1. PICK i \in 1 .. Len(e) : e[i].name = n /\ ~e[i].free
    BY <1>1 DEF Covers
  <2>2. PICK j \in DOMAIN t : t[j] = Moved(e[i], p[i])
    BY <2>1 DEF EntriesAt
  <2> QED
    BY <2>1, <2>2 DEF Moved
<1>6. ASSUME NEW j \in DOMAIN t
      PROVE  Holds(t[j], d, t[j].at, m)
  <2>1. PICK i \in 1 .. Len(e) : ~e[i].free /\ t[j] = Moved(e[i], p[i])
    BY <1>2
  <2>2. Holds(e[i], d, p[i], m)
    BY <2>1 DEF CellsAt
  <2>3. t[j].name = e[i].name /\ t[j].size = e[i].size /\ t[j].at = p[i]
    BY <2>1 DEF Moved
  <2> QED
    BY <2>2, <2>3 DEF Holds
<1> QED
  BY <1>3, <1>4, <1>5, <1>6 DEF Fits

-----------------------------------------------------------------------------
(* The steps.                                                               *)

\* No step fails, and the server stops at none, from which the code does not
\* recover: the steps between the compaction of the data file and the commit,
\* and the write of the header of an index file.
SafeFaults == (CrashAt \cup FailAt) \cap (Compacting \cup {"headIndex"}) = {}

LEMMA NoIndexCount ==
    /\ NoIndex.count = Cardinality(FreeEntries(NoIndex.entries))
    /\ TornIndex.count = Cardinality(FreeEntries(TornIndex.entries))
    /\ EmptyIndex.count = Cardinality(FreeEntries(EmptyIndex.entries))
<1>1. FreeEntries(<<>>) = {}
  BY DEF FreeEntries
<1> QED
  BY <1>1, FS_EmptySet DEF NoIndex, TornIndex, EmptyIndex

\* A step that leads to no step at which the index is to be changed or has been
\* changed only has to keep its files whole.
LEMMA QuietStep ==
    ASSUME StoreInv, UNCHANGED saved, pc' \notin Changed \cup {"entry"}, TornInv',
           index' \in {index, indexRb, NoIndex, TornIndex, EmptyIndex},
           indexRb' \in {index, indexRb, NoIndex, TornIndex, EmptyIndex},
           tmp' = NoTmp \/ (UNCHANGED tmp /\ pc \notin {"compactData", "compactIndex"})
    PROVE  StoreInv'
<1>1. SavedInv'
  BY DEF StoreInv, SavedInv, StoredInstances
<1>2. CountInv'
  BY NoIndexCount DEF StoreInv, CountInv
<1>3. AppendedInv' /\ ChangedInv' /\ FitsInv' /\ DataLoopInv' /\ IndexLoopInv'
  BY DEF AppendedInv, ChangedInv, FitsInv, DataLoopInv, IndexLoopInv, Changed
<1>4. TmpInv'
  BY DEF StoreInv, TmpInv
<1> QED
  BY <1>1, <1>2, <1>3, <1>4 DEF StoreInv

\* What the two invariants say of torn files at every step.
LEMMA WholeFiles ==
    ASSUME IInv, TornInv
    PROVE  /\ index.file \in FileStates /\ indexRb.file \in FileStates
           /\ pc # "headIndex" => indexRb.file \in {"none", "whole"}
           /\ indexRb.file = "none" => index.file # "torn"
           /\ pc \in {"dropIndexRb", "dropDataRb", "committed"} => index.file # "torn"
BY DEF IInv, TypeOK, IndexFile, FileStates, TornInv, FilesAt, Committing

LEMMA TornBegin ==
    ASSUME IInv, TornInv, SafeFaults, IInv', StartOperation \/ Begin
    PROVE  /\ TornInv'
           /\ index' \in {index, indexRb, NoIndex, TornIndex, EmptyIndex}
           /\ indexRb' \in {index, indexRb, NoIndex, TornIndex, EmptyIndex}
<1> USE WholeFiles DEF Goto, LoopTo, files
<1>0. /\ NoIndex.file = "none" /\ TornIndex.file = "torn" /\ EmptyIndex.file = "whole"
      /\ NoIndex.entries = <<>> /\ EmptyIndex.entries = <<>>
  BY DEF NoIndex, TornIndex, EmptyIndex
<1>1. CASE StartOperation
  BY <1>1 DEF StartOperation, TornInv, Unchanged, Changed
<1>2. CASE BeginState
  BY <1>2 DEF BeginState, TornInv, Unchanged, Changed
<1>3. CASE BeginIndex
  <2>1. index.file # "torn" /\ index.entries = saved.entries /\ pc' \in {"headIndex", "copyIndex"}
    BY <1>3 DEF BeginIndex, TornInv, Unchanged
  <2>2. pc' = "headIndex" => index' = index
    BY <1>3 DEF BeginIndex
  <2>3. pc' = "copyIndex" => indexRb' = index
    BY <1>3 DEF BeginIndex
  <2>4. index' \in {index, NoIndex} /\ indexRb' \in {index, TornIndex} /\ saved' = saved
    BY <1>3 DEF BeginIndex
  <2> QED
    BY <2>1, <2>2, <2>3, <2>4, <1>0 DEF TornInv, Unchanged, Changed
<1>4. CASE HeadIndex
  <2>1. indexRb' = EmptyIndex
    BY <1>4 DEF HeadIndex, SafeFaults
  <2> QED
    BY <1>0, <1>4, <2>1 DEF HeadIndex, TornInv, Unchanged, Changed
<1>5. CASE CopyIndex
  <2>1. index'.entries = saved'.entries
    BY <1>5 DEF CopyIndex, IInv, FilesAt
  <2> QED
    BY <1>5, <2>1 DEF CopyIndex, TornInv, Unchanged, Changed
<1>6. CASE BeginData
  BY <1>6 DEF BeginData, TornInv, Unchanged, Changed
<1>7. CASE Begun
  BY <1>7 DEF Begun, TornInv, Unchanged, Changed
<1> QED
  BY <1>1, <1>2, <1>3, <1>4, <1>5, <1>6, <1>7 DEF Begin

LEMMA TornEnd ==
    ASSUME IInv, TornInv, IInv', DropIndexRb \/ DropDataRb \/ Committed \/ Undo \/ Unbegin
    PROVE  /\ TornInv'
           /\ index' \in {index, indexRb, NoIndex, TornIndex, EmptyIndex}
           /\ indexRb' \in {index, indexRb, NoIndex, TornIndex, EmptyIndex}
<1> USE WholeFiles DEF Goto, LoopTo, Ends
<1>0. NoIndex.file = "none"
  BY DEF NoIndex
<1>1. CASE DropIndexRb
  BY <1>0, <1>1 DEF DropIndexRb, TornInv, Unchanged, Changed
<1>2. CASE DropDataRb
  BY <1>2 DEF DropDataRb, TornInv, Unchanged, Changed
<1>3. CASE Committed
  <2>1. index'.entries = saved'.entries
    BY <1>3 DEF Committed, IInv, FilesAt, Resting
  <2> QED
    BY <1>3, <2>1 DEF Committed, TornInv, Unchanged, Changed
<1>4. CASE UndoState
  BY <1>4 DEF UndoState, TornInv, Unchanged, Changed
<1>5. CASE UndoIndex
  <2>1. CASE indexRb.file = "none"
    BY <1>5, <2>1 DEF UndoIndex, TornInv, Unchanged, Changed
  <2>2. CASE indexRb.file # "none"
    BY <1>0, <1>5, <2>2 DEF UndoIndex, TornInv, Unchanged, Changed
  <2> QED
    BY <2>1, <2>2
<1>6. CASE UndoData
  <2>1. /\ pc' \in {"undone", "undoDrop", "unreadable"}
        /\ UNCHANGED <<index, indexRb, state>> /\ pc = "undoData"
    BY <1>6 DEF UndoData
  <2> QED
    BY <2>1 DEF TornInv, Unchanged, Changed
<1>7. CASE UndoDrop
  BY <1>7 DEF UndoDrop, TornInv, Unchanged, Changed
<1>8. CASE Undone
  <2>1. index'.entries = saved'.entries /\ indexRb' = NoIndex
    BY <1>8 DEF Undone, IInv, FilesAt, Resting
  <2> QED
    BY <1>0, <1>8, <2>1 DEF Undone, TornInv, Unchanged, Changed
<1>9. CASE UnbeginIndex
  <2>1. CASE indexRb.file = "none"
    BY <1>9, <2>1 DEF UnbeginIndex, TornInv, Unchanged, Changed
  <2>2. CASE indexRb.file # "none"
    BY <1>0, <1>9, <2>2 DEF UnbeginIndex, TornInv, Unchanged, Changed
  <2> QED
    BY <2>1, <2>2
<1>10. CASE UnbeginRename
  BY <1>0, <1>10 DEF UnbeginRename, TornInv, Unchanged, Changed
<1>11. CASE UnbeginData
  BY <1>11 DEF UnbeginData, TornInv, Unchanged, Changed
<1>12. CASE Unbegun
  <2>1. index'.entries = saved'.entries /\ indexRb' = NoIndex
    BY <1>12 DEF Unbegun, IInv, FilesAt, Resting
  <2> QED
    BY <1>0, <1>12, <2>1 DEF Unbegun, TornInv, Unchanged, Changed
<1> QED
  BY <1>1, <1>2, <1>3, <1>4, <1>5, <1>6, <1>7, <1>8, <1>9, <1>10, <1>11, <1>12
     DEF Undo, Unbegin

LEMMA TornFault ==
    ASSUME IInv, TornInv, SafeFaults, IInv', Fail \/ Crash \/ Restart
    PROVE  /\ TornInv'
           /\ index' \in {index, indexRb, NoIndex, TornIndex, EmptyIndex}
           /\ indexRb' \in {index, indexRb, NoIndex, TornIndex, EmptyIndex}
<1> USE WholeFiles DEF Goto, LoopTo, Ends, files
<1>1. ASSUME Interrupted, pc # "headIndex"
      PROVE  /\ index' \in {index, TornIndex} /\ indexRb' = indexRb /\ state' = state
             /\ index' # index => indexRb.file = "whole" /\ "commit" \notin state
  <2>1. pc = "copyIndex" => indexRb.file = "whole" /\ "commit" \notin state
    BY DEF IInv, FilesAt, Beginning
  <2>2. pc = "entry" => indexRb.file = "whole" /\ "commit" \notin state
    BY DEF IInv, FilesAt, Working
  <2> QED
    BY <1>1, <2>1, <2>2 DEF Interrupted
<1>2. CASE Crash
  <2>1. Interrupted /\ pc # "headIndex" /\ pc' = "down"
    BY <1>2 DEF Crash, SafeFaults
  <2> QED
    BY <1>1, <2>1 DEF TornInv, Unchanged, Changed
<1>3. CASE FailCopyIndex
  <2>1. Interrupted /\ pc # "headIndex" /\ pc' = "unbeginIndex"
    BY <1>3 DEF FailCopyIndex
  <2> QED
    BY <1>1, <2>1 DEF TornInv, Unchanged, Changed
<1>4. CASE FailBody
  <2>1. Interrupted /\ pc # "headIndex" /\ pc' = "undo"
    BY <1>4 DEF FailBody
  <2> QED
    BY <1>1, <2>1 DEF TornInv, Unchanged, Changed
<1>5. CASE FailBegin
  BY <1>5 DEF FailBegin, TornInv, Unchanged, Changed
<1>6. CASE FailBeginIndex
  BY <1>6 DEF FailBeginIndex, TornInv, Unchanged, Changed
<1>7. CASE FailBeginData
  BY <1>7 DEF FailBeginData, TornInv, Unchanged, Changed
<1>8. CASE FailUndo
  BY <1>8 DEF FailUndo, TornInv, Unchanged, Changed
<1>9. CASE Restart
  <2>1. pc' \in {"unbeginIndex", "dropIndexRb", "undoIndex"} /\ pc # "headIndex"
    BY <1>9 DEF Restart
  <2> QED
    BY <1>9, <2>1 DEF Restart, TornInv, Unchanged, Changed
<1> QED
  BY <1>2, <1>3, <1>4, <1>5, <1>6, <1>7, <1>8, <1>9 DEF Fail

\* The steps that change neither the committed files nor the index for the operation.
LEMMA QuietSteps ==
    ASSUME IInv, StoreInv, SafeFaults, IInv',
           \/ StartOperation \/ (Begin /\ pc' # "entry")
           \/ DropIndexRb \/ DropDataRb \/ Committed \/ Undo \/ Unbegin
           \/ Fail \/ Crash \/ Restart
    PROVE  StoreInv' /\ UNCHANGED saved
<1>1. TornInv
  BY DEF StoreInv
<1>2. /\ UNCHANGED saved /\ pc' \notin Changed \cup {"entry"}
      /\ tmp' = NoTmp \/ (UNCHANGED tmp /\ pc \notin {"compactData", "compactIndex"})
  <2> USE DEF Goto, LoopTo, Ends, Changed
  <2>1. CASE StartOperation \/ (Begin /\ pc' # "entry")
    BY <2>1 DEF StartOperation, Begin, BeginState, BeginIndex, HeadIndex, CopyIndex,
       BeginData, Begun
  <2>2. CASE DropIndexRb \/ DropDataRb \/ Committed \/ Unbegin
    BY <2>2 DEF DropIndexRb, DropDataRb, Committed, Unbegin, UnbeginIndex, UnbeginRename,
       UnbeginData, Unbegun
  <2>3. CASE Undo
    BY <2>3 DEF Undo, UndoState, UndoIndex, UndoData, UndoDrop, Undone
  <2>4. CASE Fail \/ Crash \/ Restart
    BY <2>4 DEF Fail, FailBegin, FailBeginIndex, FailCopyIndex, FailBeginData, FailBody,
       FailUndo, Crash, Restart
  <2> QED
    BY <2>1, <2>2, <2>3, <2>4
<1>3. /\ TornInv'
      /\ index' \in {index, indexRb, NoIndex, TornIndex, EmptyIndex}
      /\ indexRb' \in {index, indexRb, NoIndex, TornIndex, EmptyIndex}
  BY <1>1, TornBegin, TornEnd, TornFault
<1> QED
  BY <1>2, <1>3, QuietStep

\* A transaction that begins with the entry has appended nothing.
LEMMA BegunStep ==
    ASSUME IInv, StoreInv, SafeFaults, IInv', Begun
    PROVE  StoreInv' /\ UNCHANGED saved
<1>1. UNCHANGED saved /\ pc' \in {"entry", "append"} /\ pc = "begun"
      /\ UNCHANGED <<index, indexRb, data, op, tmp>>
      /\ (pc' = "entry" <=> op.kind = "delete")
  BY DEF Begun, Goto, LoopTo
<1>2. TornInv'
  BY TornBegin DEF Begin, StoreInv
<1>3. SavedInv' /\ CountInv'
  BY <1>1 DEF StoreInv, SavedInv, CountInv, StoredInstances
<1>4. AppendedInv'
  BY <1>1 DEF AppendedInv, IInv, FilesAt, Beginning
<1>5. ChangedInv' /\ FitsInv' /\ DataLoopInv' /\ IndexLoopInv'
  BY <1>1 DEF ChangedInv, FitsInv, DataLoopInv, IndexLoopInv, Changed
<1>6. TmpInv'
  BY <1>1 DEF StoreInv, TmpInv
<1> QED
  BY <1>1, <1>2, <1>3, <1>4, <1>5, <1>6 DEF StoreInv

LEMMA AppendStep ==
    ASSUME IInv, StoreInv, AppendInstance
    PROVE  StoreInv' /\ UNCHANGED saved
<1>1. UNCHANGED saved /\ pc' = "entry" /\ pc = "append"
      /\ UNCHANGED <<index, indexRb, state, op, tmp>>
      /\ data' = data \o Encoded(op.value)
  BY DEF AppendInstance, Goto, LoopTo
<1>2. TornInv'
  BY <1>1 DEF StoreInv, TornInv, Unchanged, Changed
<1>3. SavedInv' /\ CountInv'
  BY <1>1 DEF StoreInv, SavedInv, CountInv, StoredInstances
<1>4. AppendedInv'
  <2>1. data = saved.data /\ op.kind # "delete"
    BY <1>1 DEF IInv, FilesAt, OperationOK
  <2> QED
    BY <1>1, <2>1 DEF AppendedInv
<1>5. ChangedInv' /\ FitsInv' /\ DataLoopInv' /\ IndexLoopInv'
  BY <1>1 DEF ChangedInv, FitsInv, DataLoopInv, IndexLoopInv, Changed
<1>6. TmpInv'
  BY <1>1 DEF StoreInv, TmpInv
<1> QED
  BY <1>1, <1>2, <1>3, <1>4, <1>5, <1>6 DEF StoreInv

LEMMA RefuseStep ==
    ASSUME IInv, StoreInv, RefuseOperation
    PROVE  StoreInv' /\ UNCHANGED saved
<1>1. /\ UNCHANGED saved /\ pc' = "undo" /\ UNCHANGED <<index, indexRb, state, tmp>>
      /\ pc = "entry"
  BY DEF RefuseOperation, Goto, LoopTo, files
<1>2. TornInv'
  BY <1>1 DEF StoreInv, TornInv, Unchanged, Changed
<1> QED
  BY <1>1, <1>2, QuietStep DEF Changed

\* The committed instances, their index and what is asked of them.
LEMMA AtEntry ==
    ASSUME IInv, StoreInv, UpdateEntry
    PROVE  /\ op \in Operations /\ op.name \in Names
           /\ op.value \in Values \/ (op.value = Absent /\ op.kind = "delete")
           /\ op.kind = "delete" => op.value = Absent
           /\ StoredInstances \in Stores
           /\ index \in IndexFile /\ index.entries = saved.entries /\ index.file # "torn"
           /\ index.entries \in Seq(Entry) /\ saved.data \in Seq(Cells)
           /\ Fits(index.entries, saved.data, StoredInstances)
           /\ Cardinality(FreeEntries(index.entries)) < MaxFreeCount
           /\ index.count = Cardinality(FreeEntries(index.entries)) /\ index.count \in Nat
           /\ op.kind = "create" <=> Found(index, op.name) = {}
           /\ StoredInstances[op.name] = Absent <=> Found(index, op.name) = {}
<1>1. pc = "entry" /\ ~Refused
  BY DEF UpdateEntry
<1>2. op \in Operations
  BY <1>1 DEF IInv, OperationOK
<1>3. op.name \in Names /\ (op.value = Absent <=> op.kind = "delete")
      /\ op.value \in Values \cup {Absent}
  BY <1>2 DEF Operations
<1>4. StoredInstances \in Stores
  BY ContentsType DEF StoredInstances
<1>5. index.entries = saved.entries /\ index.file # "torn"
  BY <1>1 DEF StoreInv, TornInv, Unchanged
<1>6. /\ index \in IndexFile /\ index.entries \in Seq(Entry) /\ index.count \in Nat
      /\ saved.data \in Seq(Cells)
  BY DEF IInv, TypeOK, IndexFile
<1>7. /\ Fits(index.entries, saved.data, StoredInstances)
      /\ Cardinality(FreeEntries(index.entries)) < MaxFreeCount
      /\ index.count = Cardinality(FreeEntries(index.entries))
  BY <1>5 DEF StoreInv, SavedInv, CountInv
<1>8. op.kind = "create" <=> Found(index, op.name) = {}
  BY <1>1 DEF Refused
<1>9. StoredInstances[op.name] = Absent <=> Found(index, op.name) = {}
  <2>1. ASSUME StoredInstances[op.name] # Absent PROVE Found(index, op.name) # {}
    BY <1>3, <1>7, <2>1 DEF Fits, Covers, Found
  <2>2. ASSUME Found(index, op.name) # {} PROVE StoredInstances[op.name] # Absent
    BY <1>7, <2>2 DEF Fits, Holds, Found
  <2> QED
    BY <2>1, <2>2
<1> QED
  BY <1>2, <1>3, <1>4, <1>5, <1>6, <1>7, <1>8, <1>9

\* The index after the operation shows what the operation makes of the instances.
LEMMA UpdatedFits ==
    ASSUME IInv, StoreInv, UpdateEntry
    PROVE  /\ UpdatedIndex.file = "whole"
           /\ Fits(UpdatedIndex.entries, data, Expected)
           /\ UpdatedIndex.count = Cardinality(FreeEntries(UpdatedIndex.entries))
           /\ op.kind = "create" => UpdatedIndex.count < MaxFreeCount
<1> USE AtEntry
<1> PICK n \in Names : n = op.name
  OBVIOUS
<1> PICK m \in Stores : m = StoredInstances
  OBVIOUS
<1>1. Freed(index, n) = [file |-> index.file, count |-> index.count + 1,
                         entries |-> MarkedFree(index, n)]
  <2> DEFINE c == index.count + 1
             g == MarkedFree(index, n)
  <2>1. Freed(index, n) = [index EXCEPT !.count = c, !.entries = g]
    BY DEF Freed
  <2> HIDE DEF c, g
  <2>2. Freed(index, n) = [file |-> index.file, count |-> c, entries |-> g]
    BY <2>1 DEF IndexFile
  <2> QED
    BY <2>2 DEF c, g
<1>2. /\ Freed(index, n).file = index.file /\ Freed(index, n).count = index.count + 1
      /\ Freed(index, n).entries = MarkedFree(index, n)
  BY <1>1
<1>3. Found(index, n) # {} => index.file = "whole"
  BY DEF IInv, FilesOK, IndexFile, FileStates, Found
<1> PICK w : w = [m EXCEPT ![n] = Absent]
  OBVIOUS
<1>4. w \in Stores /\ w[n] = Absent
  BY DEF Stores
<1>5. ASSUME Found(index, n) # {}
      PROVE  /\ Fits(Freed(index, n).entries, saved.data, w)
             /\ Freed(index, n).count = Cardinality(FreeEntries(Freed(index, n).entries))
             /\ Freed(index, n).entries \in Seq(Entry)
  <2>1. /\ Fits(MarkedFree(index, n), saved.data, w)
        /\ Cardinality(FreeEntries(MarkedFree(index, n)))
              = Cardinality(FreeEntries(index.entries)) + 1
    BY <1>5, FreeFits
  <2>2. MarkedFree(index, n) \in Seq(Entry)
    BY FreedEntries
  <2> QED
    BY <1>2, <2>1, <2>2
<1>6. CASE op.kind = "delete"
  <2>1. UpdatedIndex = Freed(index, n)
    BY <1>6 DEF UpdatedIndex
  <2>2. Found(index, n) # {}
    BY <1>6
  <2>3. data = saved.data
    BY <1>6 DEF UpdateEntry, StoreInv, AppendedInv
  <2>4. Expected = w
    BY <1>6 DEF Expected
  <2> QED
    BY <1>2, <1>3, <1>5, <1>6, <2>1, <2>2, <2>3, <2>4
<1>7. ASSUME NEW f, NEW u \in Stores, NEW v \in Values, v = op.value, op.kind # "delete",
             f = IF op.kind = "create" THEN index ELSE Freed(index, n),
             u = IF op.kind = "create" THEN m ELSE w
      PROVE  /\ UpdatedIndex.file = "whole"
             /\ Fits(UpdatedIndex.entries, data, Expected)
             /\ UpdatedIndex.count = f.count
             /\ FreeEntries(UpdatedIndex.entries) = FreeEntries(f.entries)
  <2>1. op.kind # "create" => Found(index, n) # {} /\ index.file = "whole"
    BY <1>3
  <2>2. /\ f.entries \in Seq(Entry) /\ Fits(f.entries, saved.data, u) /\ f.file # "torn"
        /\ u[n] = Absent
    BY <1>2, <1>4, <1>5, <1>7, <2>1
  <2>3. f \in IndexFile
    <3>1. Freed(index, n) \in IndexFile
      BY FreedType
    <3> QED
      BY <1>7, <3>1
  <2>4. data = saved.data \o Encoded(v)
    BY <1>7 DEF UpdateEntry, StoreInv, AppendedInv
  <2>5. Len(data) - SizeOf[v] = Len(saved.data) /\ SizeOf[v] \in Nat /\ Len(saved.data) \in Int
    <3>1. /\ Len(data) = Len(saved.data) + SizeOf[v]
          /\ Len(saved.data) \in Nat /\ SizeOf[v] \in Nat
      BY <2>4, AppendedData, Zenon
    <3> QED
      BY <3>1
  <2> PICK x : x = [name |-> n, free |-> FALSE, at |-> Len(saved.data), size |-> SizeOf[v]]
    OBVIOUS
  <2>6. UpdatedIndex = WithEntry(f, n, Len(saved.data), SizeOf[v])
    <3>1. op.kind \in {"create", "modify"}
      BY <1>7 DEF Operations
    <3> QED
      BY <1>7, <2>5, <3>1 DEF UpdatedIndex
  <2>7. UpdatedIndex = [f EXCEPT !.file = "whole", !.entries = Append(f.entries, x)]
    BY <2>2, <2>6, Zenon DEF WithEntry
  <2> PICK g : g = Append(f.entries, x)
    OBVIOUS
  <2>8. UpdatedIndex.file = "whole" /\ UpdatedIndex.entries = g /\ UpdatedIndex.count = f.count
    BY <2>3, <2>7 DEF IndexFile
  <2> PICK z : z = [u EXCEPT ![n] = v]
    OBVIOUS
  <2>9. Fits(g, data, z) /\ FreeEntries(g) = FreeEntries(f.entries)
    BY <2>2, <2>4, AppendFits, ZenonT(40)
  <2>10. z = Expected
    <3>1. Expected = [m EXCEPT ![n] = v]
      BY <1>7 DEF Expected
    <3>2. CASE op.kind = "create"
      BY <1>7, <3>1, <3>2
    <3>3. CASE op.kind # "create"
      BY <1>7, <3>1, <3>3 DEF Stores
    <3> QED
      BY <3>2, <3>3
  <2> QED
    BY <2>8, <2>9, <2>10
<1>8. CASE op.kind # "delete"
  <2> PICK f : f = IF op.kind = "create" THEN index ELSE Freed(index, n)
    OBVIOUS
  <2> PICK u : u = IF op.kind = "create" THEN m ELSE w
    OBVIOUS
  <2>1. u \in Stores /\ op.value \in Values
    BY <1>4, <1>8
  <2>2. /\ UpdatedIndex.file = "whole"
        /\ Fits(UpdatedIndex.entries, data, Expected)
        /\ UpdatedIndex.count = f.count
        /\ FreeEntries(UpdatedIndex.entries) = FreeEntries(f.entries)
    BY <1>7, <1>8, <2>1
  <2>3. f.count = Cardinality(FreeEntries(f.entries))
        /\ (op.kind = "create" => f.count < MaxFreeCount)
    <3>1. CASE op.kind = "create"
      BY <3>1
    <3>2. CASE op.kind # "create"
      BY <1>5, <3>2
    <3> QED
      BY <3>1, <3>2
  <2> QED
    BY <2>2, <2>3
<1> QED
  BY <1>6, <1>8

LEMMA UpdateStep ==
    ASSUME IInv, StoreInv, UpdateEntry
    PROVE  StoreInv' /\ UNCHANGED saved
<1>1. /\ UNCHANGED <<saved, op, indexRb, data, state, tmp>> /\ pc = "entry"
      /\ pc' \in {"compactData", "commit"} /\ index' = UpdatedIndex
      /\ (pc' = "compactData" <=> op.kind # "create" /\ UpdatedIndex.count >= MaxFreeCount)
  BY DEF UpdateEntry, Goto, LoopTo
<1>2. UNCHANGED <<StoredInstances, Expected>>
  BY <1>1 DEF StoredInstances, Expected
<1>3. /\ index'.file = "whole" /\ Fits(index'.entries, data', Expected')
      /\ index'.count = Cardinality(FreeEntries(index'.entries))
      /\ op.kind = "create" => index'.count < MaxFreeCount
  BY <1>1, <1>2, UpdatedFits
<1>4. index'.entries \in Seq(Entry) /\ index'.count \in Nat
  <2>1. UpdatedIndex \in IndexFile
    BY AtEntry, UpdatedIndexType DEF IInv, FilesOK, UpdateEntry
  <2> QED
    BY <1>1, <2>1 DEF IndexFile
<1>5. TornInv'
  BY <1>1, <1>3 DEF StoreInv, TornInv, Unchanged, Changed
<1>6. SavedInv'
  BY <1>1, <1>2 DEF StoreInv, SavedInv
<1>7. CountInv'
  BY <1>1, <1>3 DEF StoreInv, CountInv
<1>8. AppendedInv' /\ IndexLoopInv' /\ TmpInv'
  BY <1>1 DEF AppendedInv, IndexLoopInv, StoreInv, TmpInv
<1>9. ChangedInv'
  BY <1>1, <1>2, AtEntry DEF ChangedInv
<1>10. FitsInv'
  <2>1. pc' = "commit" => Cardinality(FreeEntries(index'.entries)) < MaxFreeCount
    BY <1>1, <1>3, <1>4, FreeCountIsNat
  <2> QED
    BY <1>1, <1>3, <2>1 DEF FitsInv
<1>11. DataLoopInv'
  <2>1. tmp'.read = 0 /\ tmp'.cells = <<>>
    BY <1>1 DEF StoreInv, TmpInv, NoTmp
  <2> PICK e \in Seq(Entry) : e = index'.entries
    BY <1>4
  <2> PICK m : m = Expected'
    OBVIOUS
  <2>2. 0 <= Len(e)
    OBVIOUS
  <2>3. /\ <<0>> \in Seq(Nat) /\ Packed(e, 0, <<0>>)
        /\ CellsAt(e, 0, <<0>>, <<>>, m)
    BY PackedStart
  <2> QED
    BY <2>1, <2>2, <2>3 DEF DataLoopInv
<1> QED
  BY <1>1, <1>5, <1>6, <1>7, <1>8, <1>9, <1>10, <1>11 DEF StoreInv

\* What is known while the data file is compacted.
LEMMA InDataLoop ==
    ASSUME IInv, StoreInv, pc = "compactData"
    PROVE  /\ Expected \in Stores /\ index.entries \in Seq(Entry) /\ data \in Seq(Cells)
           /\ tmp.read \in Nat /\ tmp.cells \in Seq(Cells)
           /\ Fits(index.entries, data, Expected)
<1>1. op \in Operations
  BY DEF StoreInv, ChangedInv, Changed
<1>2. StoredInstances \in Stores
  BY ContentsType DEF StoredInstances
<1>3. Expected \in Stores
  BY <1>1, <1>2 DEF Expected, Stores, Operations
<1> QED
  BY <1>3 DEF StoreInv, FitsInv, IInv, TypeOK, IndexFile, TmpFile

\* What belongs to an entry that is not free can be read: the loop does not fail.
LEMMA CopyInstanceStep ==
    ASSUME IInv, StoreInv, CopyInstance
    PROVE  StoreInv' /\ UNCHANGED saved
<1>1. pc = "compactData" /\ tmp.read < Len(index.entries)
      /\ UNCHANGED <<saved, op, index, indexRb, data, dataRb, state>>
  BY DEF CopyInstance, LoopTo, files, EntriesLeft
<1>2. UNCHANGED <<StoredInstances, Expected>>
  BY <1>1 DEF StoredInstances, Expected
<1> PICK e \in Seq(Entry) : e = index.entries
  BY <1>1, InDataLoop
<1> PICK r \in Nat : r = tmp.read
  BY <1>1, InDataLoop
<1> PICK m \in Stores : m = Expected
  BY <1>1, InDataLoop
<1> PICK c \in Seq(Cells) : c = tmp.cells
  BY <1>1, InDataLoop
<1>3. PICK p \in Seq(Nat) : Packed(e, r, p) /\ CellsAt(e, r, p, c, m)
  BY <1>1 DEF StoreInv, DataLoopInv
<1>4. r < Len(e) /\ Fits(e, data, m) /\ data \in Seq(Cells)
  BY <1>1, InDataLoop
<1>5. /\ e[r + 1].free \/ Readable(e[r + 1], data)
      /\ \E q \in Seq(Nat) :
            /\ Packed(e, r + 1, q)
            /\ CellsAt(e, r + 1, q, IF e[r + 1].free THEN c
                                    ELSE c \o CellsOf(e[r + 1], data), m)
  BY <1>3, <1>4, CopyCells
<1>6. NextEntry = e[r + 1]
  BY DEF NextEntry
<1> PICK k : k = IF e[r + 1].free THEN c ELSE c \o CellsOf(e[r + 1], data)
  OBVIOUS
<1> PICK s \in Nat : s = r + 1
  OBVIOUS
<1>7. tmp' = [tmp EXCEPT !.read = s, !.cells = k] /\ pc' = "compactData"
  BY <1>5, <1>6 DEF CopyInstance, LoopTo
<1>8. tmp'.read = s /\ tmp'.cells = k
  <2>1. tmp \in TmpFile
    BY DEF IInv, TypeOK
  <2> QED
    BY <1>7, <2>1 DEF TmpFile
<1>9. DataLoopInv'
  <2>1. s <= Len(e)
    BY <1>4
  <2>2. PICK q \in Seq(Nat) : Packed(e, s, q) /\ CellsAt(e, s, q, k, m)
    BY <1>5
  <2> QED
    BY <1>1, <1>2, <1>8, <2>1, <2>2 DEF DataLoopInv
<1>10. TornInv' /\ CountInv'
  BY <1>1, <1>7 DEF StoreInv, TornInv, CountInv, Unchanged, Changed
<1>11. SavedInv'
  BY <1>1, <1>2 DEF StoreInv, SavedInv
<1>12. FitsInv' /\ ChangedInv'
  BY <1>1, <1>2, <1>7 DEF StoreInv, FitsInv, ChangedInv, Changed
<1>13. AppendedInv' /\ IndexLoopInv' /\ TmpInv'
  BY <1>7 DEF AppendedInv, IndexLoopInv, TmpInv
<1> QED
  BY <1>1, <1>9, <1>10, <1>11, <1>12, <1>13 DEF StoreInv

LEMMA ReplaceDataStep ==
    ASSUME IInv, StoreInv, ReplaceData
    PROVE  StoreInv' /\ UNCHANGED saved
<1>1. /\ pc = "compactData" /\ pc' = "compactIndex" /\ ~(tmp.read < Len(index.entries))
      /\ UNCHANGED <<saved, op, index, indexRb, dataRb, state>>
      /\ data' = tmp.cells /\ tmp' = NoTmp
  BY DEF ReplaceData, LoopTo, EntriesLeft
<1>2. UNCHANGED <<StoredInstances, Expected>>
  BY <1>1 DEF StoredInstances, Expected
<1> PICK e \in Seq(Entry) : e = index.entries
  BY <1>1, InDataLoop
<1> PICK m \in Stores : m = Expected
  BY <1>1, InDataLoop
<1>3. PICK p \in Seq(Nat) : Packed(e, tmp.read, p) /\ CellsAt(e, tmp.read, p, tmp.cells, m)
  BY <1>1 DEF StoreInv, DataLoopInv
<1>4. tmp.read = Len(e) /\ Len(e) \in Nat
  <2>1. tmp.read <= Len(e) /\ tmp.read \in Nat /\ Len(e) \in Nat
    BY <1>1, InDataLoop DEF StoreInv, DataLoopInv
  <2> QED
    BY <1>1, <2>1
<1>5. Fits(e, data, m)
  BY <1>1, InDataLoop
<1>6. IndexLoopInv'
  <2>1. tmp'.read = 0 /\ tmp'.adjust = 0 /\ tmp'.entries = <<>>
    BY <1>1 DEF NoTmp
  <2>2. Packed(e, Len(e), p) /\ CellsAt(e, Len(e), p, data', m)
    BY <1>1, <1>3, <1>4
  <2>3. p[1] = 0 /\ EndOf(e, 0) = 0
    BY <1>3 DEF Packed, EndOf
  <2>4. EntriesAt(e, 0, p, <<>>)
    BY <2>3, EntriesStart
  <2>5. 0 = EndOf(e, 0) - p[0 + 1] /\ 0 <= Len(e)
    BY <1>4, <2>3
  <2>6. IndexLoop(e, p)'
    BY <1>1, <1>2, <2>1, <2>2, <2>4, <2>5 DEF IndexLoop
  <2>7. Tiled(e) /\ Unique(e) /\ Covers(e, m)
    BY <1>5 DEF Fits
  <2> QED
    BY <1>1, <1>2, <2>1, <2>5, <2>6, <2>7 DEF IndexLoopInv
<1>7. TornInv' /\ CountInv'
  BY <1>1 DEF StoreInv, TornInv, CountInv, Unchanged, Changed
<1>8. SavedInv'
  BY <1>1, <1>2 DEF StoreInv, SavedInv
<1>9. ChangedInv'
  BY <1>1, <1>2 DEF StoreInv, ChangedInv, Changed
<1>10. FitsInv' /\ AppendedInv' /\ DataLoopInv' /\ TmpInv'
  BY <1>1 DEF FitsInv, AppendedInv, DataLoopInv, TmpInv
<1> QED
  BY <1>1, <1>6, <1>7, <1>8, <1>9, <1>10 DEF StoreInv

\* What is known while the index file is compacted.
LEMMA InIndexLoop ==
    ASSUME IInv, StoreInv, pc = "compactIndex"
    PROVE  /\ Expected \in Stores /\ index.entries \in Seq(Entry) /\ data \in Seq(Cells)
           /\ tmp \in TmpFile /\ tmp.read \in Nat /\ tmp.entries \in Seq(Entry)
           /\ tmp.adjust \in Nat /\ tmp.read <= Len(index.entries)
           /\ Tiled(index.entries) /\ Unique(index.entries) /\ Covers(index.entries, Expected)
<1>1. op \in Operations
  BY DEF StoreInv, ChangedInv, Changed
<1>2. StoredInstances \in Stores
  BY ContentsType DEF StoredInstances
<1>3. Expected \in Stores
  BY <1>1, <1>2 DEF Expected, Stores, Operations
<1> QED
  BY <1>3 DEF StoreInv, IndexLoopInv, IInv, TypeOK, IndexFile, TmpFile

LEMMA CopyEntryStep ==
    ASSUME IInv, StoreInv, CopyEntry
    PROVE  StoreInv' /\ UNCHANGED saved
<1>1. /\ pc = "compactIndex" /\ pc' = "compactIndex" /\ tmp.read < Len(index.entries)
      /\ UNCHANGED <<saved, op, index, indexRb, data, dataRb, state>>
  BY DEF CopyEntry, LoopTo, files, EntriesLeft
<1>2. UNCHANGED <<StoredInstances, Expected>>
  BY <1>1 DEF StoredInstances, Expected
<1>a. PICK e \in Seq(Entry) : e = index.entries
  BY <1>1, InIndexLoop
<1>b. PICK r \in Nat : r = tmp.read
  BY <1>1, InIndexLoop
<1>c. PICK m \in Stores : m = Expected
  BY <1>1, InIndexLoop
<1>d. PICK t \in Seq(Entry) : t = tmp.entries
  BY <1>1, InIndexLoop
<1>e. PICK a \in Nat : a = tmp.adjust
  BY <1>1, InIndexLoop
<1>3. PICK p \in Seq(Nat) : IndexLoop(e, p)
  BY <1>1, <1>a DEF StoreInv, IndexLoopInv
<1>4. /\ r < Len(e) /\ Tiled(e) /\ Unique(e) /\ Covers(e, m)
      /\ Packed(e, Len(e), p) /\ CellsAt(e, Len(e), p, data, m)
      /\ a = EndOf(e, r) - p[r + 1] /\ EntriesAt(e, r, p, t)
  BY <1>1, <1>3, <1>a, <1>b, <1>c, <1>d, <1>e, InIndexLoop DEF IndexLoop
<1>5. PICK x \in Entry : x = e[r + 1] /\ x = NextEntry
  <2>1. r + 1 \in 1 .. Len(e)
    BY <1>4
  <2>2. NextEntry = e[r + 1]
    BY <1>a, <1>b DEF NextEntry
  <2> QED
    BY <2>1, <2>2
<1>f. PICK s \in Nat : s = r + 1
  OBVIOUS
<1>6. /\ x.at - a = p[s] /\ p[s] \in Nat
      /\ x.free => a + x.size = EndOf(e, s) - p[s + 1] /\ p[s + 1] = p[s]
      /\ ~x.free => a = EndOf(e, s) - p[s + 1] /\ p[s + 1] = p[s] + x.size
  <2>1. /\ r < Len(e) /\ Packed(e, Len(e), p) /\ Tiled(e)
        /\ a = EndOf(e, r) - p[r + 1] /\ x = e[s] /\ s = r + 1
    BY <1>4, <1>5, <1>f
  <2> QED
    BY <2>1, MovePast, SMTT(30)
<1>g. x.size \in Nat /\ x.name \in Names
  BY DEF Entry
<1>h. a + x.size \in Nat
  BY <1>g
<1>7. PICK b \in Nat : b = IF x.free THEN a + x.size ELSE a
  BY <1>h
<1>8. PICK y \in Entry : y = Moved(x, p[s])
  BY <1>6, MovedEntry
<1>9. PICK u \in Seq(Entry) : u = IF x.free THEN t ELSE Append(t, y)
  <2>1. Append(t, y) \in Seq(Entry)
    BY AppendProperties
  <2> QED
    BY <2>1
<1>10. EntriesAt(e, s, p, u)
  <2>1. CASE x.free
    <3>1. p[(r + 1) + 1] = p[r + 1]
      BY <1>6, <1>f, <2>1
    <3> QED
      BY <1>4, <1>5, <1>9, <1>f, <2>1, <3>1, LeaveEntry
  <2>2. CASE ~x.free
    <3>1. p[r + 1] \in Nat /\ p[(r + 1) + 1] = p[r + 1] + x.size
      BY <1>6, <1>f, <2>2
    <3>2. EntriesAt(e, r + 1, p, Append(t, y))
      BY <1>4, <1>5, <1>8, <1>f, <2>2, <3>1, MoveEntry
    <3> QED
      BY <1>9, <1>f, <2>2, <3>2
  <2> QED
    BY <2>1, <2>2
<1>11. tmp'.read = s /\ tmp'.adjust = b /\ tmp'.entries = u
  <2>0. tmp \in TmpFile
    BY DEF IInv, TypeOK
  <2>1. CASE x.free
    <3>1. tmp' = [tmp EXCEPT !.read = s, !.adjust = b]
      BY <1>5, <1>7, <1>b, <1>e, <1>f, <2>1 DEF CopyEntry
    <3> QED
      BY <1>9, <1>d, <2>0, <2>1, <3>1 DEF TmpFile
  <2>2. CASE ~x.free
    <3>1. [x EXCEPT !.at = x.at - a] = y
      <4> PICK z \in Int : z = p[s] /\ z = x.at - a
        BY <1>6
      <4>1. [x EXCEPT !.at = z] = Moved(x, z)
        BY <2>2, MovedEntry
      <4> QED
        BY <1>8, <4>1
    <3>2. tmp' = [tmp EXCEPT !.read = s, !.entries = u]
      BY <1>5, <1>9, <1>b, <1>d, <1>e, <1>f, <2>2, <3>1 DEF CopyEntry
    <3> QED
      BY <1>7, <1>e, <2>0, <2>2, <3>2 DEF TmpFile
  <2> QED
    BY <2>1, <2>2
<1>12. IndexLoopInv'
  <2>1. IndexLoop(e, p)'
    BY <1>1, <1>2, <1>4, <1>6, <1>7, <1>10, <1>11, <1>c DEF IndexLoop
  <2>2. s <= Len(e)
    BY <1>4, <1>f
  <2> QED
    BY <1>1, <1>2, <1>4, <1>11, <1>a, <1>c, <2>1, <2>2 DEF IndexLoopInv
<1>13. TornInv' /\ CountInv'
  BY <1>1 DEF StoreInv, TornInv, CountInv, Unchanged, Changed
<1>14. SavedInv'
  BY <1>1, <1>2 DEF StoreInv, SavedInv
<1>15. ChangedInv'
  BY <1>1, <1>2 DEF StoreInv, ChangedInv, Changed
<1>16. FitsInv' /\ AppendedInv' /\ DataLoopInv' /\ TmpInv'
  BY <1>1 DEF FitsInv, AppendedInv, DataLoopInv, TmpInv
<1> QED
  BY <1>1, <1>12, <1>13, <1>14, <1>15, <1>16 DEF StoreInv

LEMMA ReplaceIndexStep ==
    ASSUME IInv, StoreInv, ReplaceIndex
    PROVE  StoreInv' /\ UNCHANGED saved
<1>1. /\ pc = "compactIndex" /\ pc' = "commitCompacted" /\ ~(tmp.read < Len(index.entries))
      /\ UNCHANGED <<saved, op, indexRb, data, dataRb, state>>
      /\ index' = [file |-> "whole", count |-> 0, entries |-> tmp.entries] /\ tmp' = NoTmp
  BY DEF ReplaceIndex, LoopTo, EntriesLeft
<1>2. UNCHANGED <<StoredInstances, Expected>>
  BY <1>1 DEF StoredInstances, Expected
<1>3. index'.file = "whole" /\ index'.count = 0 /\ index'.entries = tmp.entries
  BY <1>1
<1> PICK e \in Seq(Entry) : e = index.entries
  BY <1>1, InIndexLoop
<1> PICK m \in Stores : m = Expected
  BY <1>1, InIndexLoop
<1> PICK t \in Seq(Entry) : t = tmp.entries
  BY <1>1, InIndexLoop
<1>4. PICK p \in Seq(Nat) : IndexLoop(e, p)
  BY <1>1 DEF StoreInv, IndexLoopInv
<1>5. tmp.read = Len(e)
  <2>1. tmp.read <= Len(e) /\ tmp.read \in Nat /\ Len(e) \in Nat
    BY <1>1, InIndexLoop
  <2> QED
    BY <1>1, <2>1
<1>6. /\ Covers(e, m) /\ Packed(e, Len(e), p) /\ CellsAt(e, Len(e), p, data, m)
      /\ EntriesAt(e, Len(e), p, t) /\ data \in Seq(Cells)
  BY <1>1, <1>4, <1>5, InIndexLoop DEF IndexLoop
<1>7. Fits(t, data, m) /\ FreeEntries(t) = {}
  BY <1>6, PackedFits
<1>8. Cardinality(FreeEntries(index'.entries)) = 0
  BY <1>3, <1>7, FS_EmptySet
<1>9. FitsInv'
  BY <1>1, <1>2, <1>3, <1>7, <1>8, FreeCountIsNat DEF FitsInv
<1>10. CountInv'
  BY <1>1, <1>3, <1>8 DEF StoreInv, CountInv
<1>11. TornInv'
  BY <1>1, <1>3 DEF StoreInv, TornInv, Unchanged, Changed
<1>12. SavedInv'
  BY <1>1, <1>2 DEF StoreInv, SavedInv
<1>13. ChangedInv'
  BY <1>1, <1>2 DEF StoreInv, ChangedInv, Changed
<1>14. IndexLoopInv' /\ AppendedInv' /\ DataLoopInv' /\ TmpInv'
  BY <1>1 DEF IndexLoopInv, AppendedInv, DataLoopInv, TmpInv
<1> QED
  BY <1>1, <1>9, <1>10, <1>11, <1>12, <1>13, <1>14 DEF StoreInv

\* What is committed are the instances as the operation changes them.
LEMMA CommitStep ==
    ASSUME IInv, StoreInv, CommitState
    PROVE  /\ StoreInv' /\ StoredInstances' = Expected
           /\ op \in Operations /\ (op.kind = "create" <=> StoredInstances[op.name] = Absent)
<1>1. /\ pc \in {"commit", "commitCompacted"} /\ pc' = "dropIndexRb"
      /\ saved' = [entries |-> index.entries, data |-> data]
      /\ state' = state \cup {"commit"}
      /\ UNCHANGED <<index, indexRb, data, dataRb, tmp, op>>
  BY DEF CommitState
<1>2. saved'.entries = index.entries /\ saved'.data = data
  BY <1>1
<1>3. op \in Operations /\ (op.kind = "create" <=> StoredInstances[op.name] = Absent)
  BY <1>1 DEF StoreInv, ChangedInv, Changed
<1>4. index.entries \in Seq(Entry) /\ data \in Seq(Cells)
  BY DEF IInv, TypeOK, IndexFile
<1>5. StoredInstances \in Stores
  BY ContentsType DEF StoredInstances
<1>6. Expected \in Stores
  BY <1>3, <1>5 DEF Expected, Stores, Operations
<1>7. Fits(index.entries, data, Expected) /\ Cardinality(FreeEntries(index.entries)) < MaxFreeCount
  BY <1>1 DEF StoreInv, FitsInv
<1> PICK m \in Stores : m = Expected
  BY <1>6
<1> PICK f : f = saved'
  OBVIOUS
<1>8. Contents(f, data) = m
  BY <1>2, <1>4, <1>7, FitsContents
<1>9. StoredInstances' = Expected
  BY <1>2, <1>8 DEF StoredInstances
<1>10. SavedInv'
  BY <1>2, <1>7, <1>9 DEF SavedInv
<1>11. TornInv' /\ CountInv'
  <2>1. index.file = "whole"
    BY <1>1 DEF StoreInv, TornInv, Changed
  <2> QED
    BY <1>1, <2>1 DEF StoreInv, TornInv, CountInv, Unchanged, Changed
<1>12. ChangedInv' /\ FitsInv' /\ AppendedInv' /\ DataLoopInv' /\ IndexLoopInv'
  BY <1>1 DEF ChangedInv, FitsInv, AppendedInv, DataLoopInv, IndexLoopInv, Changed
<1>13. TmpInv'
  BY <1>1 DEF StoreInv, TmpInv
<1> QED
  BY <1>3, <1>9, <1>10, <1>11, <1>12, <1>13 DEF StoreInv

LEMMA InitStoreInv == Init => StoreInv /\ StoredInstances = [n \in Names |-> Absent]
<1> SUFFICES ASSUME Init
             PROVE  StoreInv /\ StoredInstances = [n \in Names |-> Absent]
  OBVIOUS
<1>1. /\ saved.entries = <<>> /\ saved.data = <<>> /\ index = NoIndex /\ indexRb = NoIndex
      /\ pc = "idle" /\ tmp = NoTmp /\ state = {} /\ index.entries = <<>>
      /\ index.file = "none" /\ indexRb.file = "none"
  BY DEF Init, NoIndex
<1>2. StoredInstances = [n \in Names |-> Absent]
  <2>1. \A n \in Names : Found(saved, n) = {}
    BY <1>1 DEF Found
  <2> QED
    BY <2>1 DEF StoredInstances, Contents
<1>3. FreeEntries(<<>>) = {}
  BY DEF FreeEntries
<1>4. Fits(<<>>, <<>>, StoredInstances)
  BY <1>2 DEF Fits, Tiled, Unique, Covers, EndOf
<1>5. SavedInv
  <2>1. Cardinality(FreeEntries(<<>>)) = 0
    BY <1>3, FS_EmptySet
  <2>2. 0 < MaxFreeCount
    BY FreeCountIsNat
  <2>3. Fits(saved.entries, saved.data, StoredInstances)
    BY <1>1, <1>4, Zenon
  <2> QED
    BY <1>1, <2>1, <2>2, <2>3 DEF SavedInv
<1>6. CountInv
  BY <1>1, NoIndexCount DEF CountInv
<1>7. TornInv
  BY <1>1 DEF TornInv, Changed
<1>8. AppendedInv /\ ChangedInv /\ FitsInv /\ TmpInv /\ DataLoopInv /\ IndexLoopInv
  BY <1>1 DEF AppendedInv, ChangedInv, Changed, FitsInv, TmpInv, DataLoopInv, IndexLoopInv
<1> QED
  BY <1>2, <1>5, <1>6, <1>7, <1>8 DEF StoreInv

\* Every step keeps the invariant, and all but the commit keep the instances.
LEMMA NextStoreInv ==
    ASSUME IInv, StoreInv, SafeFaults, [Next]_vars
    PROVE  /\ StoreInv'
           /\ ~CommitState => UNCHANGED StoredInstances
<1>1. NoFaultCompacting
  BY DEF SafeFaults, NoFaultCompacting
<1>2. IInv'
  BY <1>1, NextIInv
<1>3. CASE CommitState
  BY <1>3, CommitStep
<1>4. ASSUME UNCHANGED saved PROVE UNCHANGED StoredInstances
  BY <1>4 DEF StoredInstances
<1>5. CASE UNCHANGED vars
  <2> USE <1>5 DEF vars
  <2>2. UNCHANGED StoredInstances
    BY <1>4
  <2>3. UNCHANGED Expected
    BY <2>2 DEF Expected
  <2>4. SavedInv' /\ CountInv' /\ TornInv' /\ AppendedInv' /\ ChangedInv' /\ TmpInv'
    BY <2>2 DEF StoreInv, SavedInv, CountInv, TornInv, AppendedInv, ChangedInv, TmpInv
  <2>5. FitsInv'
    BY <2>3 DEF StoreInv, FitsInv
  <2>6. DataLoopInv'
    BY <2>3 DEF StoreInv, DataLoopInv
  <2>7. IndexLoopInv'
    BY <2>3 DEF StoreInv, IndexLoopInv, IndexLoop
  <2>1. StoreInv'
    BY <2>4, <2>5, <2>6, <2>7 DEF StoreInv
  <2> QED
    BY <1>4, <1>5, <2>1 DEF vars
<1>6. CASE \/ StartOperation \/ (Begin /\ pc' # "entry")
           \/ DropIndexRb \/ DropDataRb \/ Committed \/ Undo \/ Unbegin
           \/ Fail \/ Crash \/ Restart
  BY <1>2, <1>4, <1>6, QuietSteps
<1>7. CASE Begin /\ pc' = "entry"
  <2>1. Begun
    BY <1>7 DEF Begin, BeginState, BeginIndex, HeadIndex, CopyIndex, BeginData, Goto, LoopTo
  <2> QED
    BY <1>2, <1>4, <2>1, BegunStep
<1>8. CASE Body
  <2>1. StoreInv' /\ UNCHANGED saved
    BY <1>8, AppendStep, RefuseStep, UpdateStep, CopyInstanceStep, ReplaceDataStep,
       CopyEntryStep, ReplaceIndexStep DEF Body
  <2> QED
    BY <1>4, <2>1
<1>9. CASE Begin
  BY <1>6, <1>7, <1>9, Zenon
<1>10. CASE Commit
  BY <1>3, <1>6, <1>10, Zenon DEF Commit
<1>11. CASE StartOperation \/ Fail \/ Crash \/ Restart \/ Undo \/ Unbegin
  BY <1>6, <1>11, Zenon
<1> QED
  BY <1>5, <1>8, <1>9, <1>10, <1>11, Zenon DEF Next, Continue

-----------------------------------------------------------------------------
(* Theorems.                                                                *)

\* The committed index and data file fit, and every loop and every torn file is
\* as the invariant says.
THEOREM StoreInvariance == ASSUME SafeFaults PROVE Spec => [](IInv /\ StoreInv)
<1>1. Init => IInv /\ StoreInv
  BY InitIInv, InitStoreInv
<1>2. IInv /\ StoreInv /\ [Next]_vars => (IInv /\ StoreInv)'
  <2>1. NoFaultCompacting
    BY DEF SafeFaults, NoFaultCompacting
  <2> QED
    BY <2>1, NextIInv, NextStoreInv
<1> QED
  BY <1>1, <1>2, PTL DEF Spec

\* The entries of a committed index tile its data file, whatever fails and
\* wherever the server stops: the arithmetic of a compaction can rely on it.
THEOREM EntriesTile == ASSUME SafeFaults PROVE Spec => []EntriesTileData
<1>1. IInv /\ StoreInv => EntriesTileData
  <2> SUFFICES ASSUME StoreInv PROVE EntriesTileData
    OBVIOUS
  <2> PICK e : e = saved.entries
    OBVIOUS
  <2>1. /\ Tiled(e) /\ EndOf(e, Len(e)) = Len(saved.data) /\ Unique(e)
        /\ Cardinality(FreeEntries(e)) < MaxFreeCount
    BY DEF StoreInv, SavedInv, Fits
  <2> QED
    BY <2>1 DEF Tiled, Unique, EntriesTileData
<1> QED
  BY <1>1, StoreInvariance, PTL

\* createInstance, modifyInstance and deleteInstance change the instances of a
\* class as a whole or not at all: the files implement the store.
THEOREM InstanceStoreImplemented == ASSUME SafeFaults PROVE Spec => ImplementsInstanceStore
<1>1. Init => Store!Init
  BY InitStoreInv DEF Store!Init, StoredInstances
<1>2. ASSUME IInv, StoreInv, [Next]_vars
      PROVE  [Store!Next]_(Contents(saved, saved.data))
  <2>1. CASE ~CommitState
    BY <1>2, <2>1, NextStoreInv DEF StoredInstances
  <2>2. CASE CommitState
    <3>1. StoredInstances' = [StoredInstances EXCEPT ![op.name] = op.value]
          /\ op \in Operations /\ (op.kind = "create" <=> StoredInstances[op.name] = Absent)
      BY <1>2, <2>2, CommitStep DEF Expected
    <3>2. PICK n \in Names : n = op.name
      BY <3>1 DEF Operations
    <3>3. CASE op.kind = "delete"
      <4>1. op.value = Absent
        BY <3>1, <3>3 DEF Operations
      <4>2. Store!Delete(n)
        BY <3>1, <3>2, <3>3, <4>1 DEF Store!Delete, StoredInstances
      <4> QED
        BY <4>2 DEF Store!Next
    <3>4. CASE op.kind # "delete"
      <4>1. PICK v \in Values : v = op.value
        BY <3>1, <3>4 DEF Operations
      <4>2. Store!Create(n, v) \/ Store!Modify(n, v)
        BY <3>1, <3>2, <4>1 DEF Store!Create, Store!Modify, StoredInstances
      <4> QED
        BY <4>2 DEF Store!Next
    <3> QED
      BY <3>3, <3>4
  <2> QED
    BY <2>1, <2>2
<1>3. IInv /\ StoreInv /\ [Next]_vars => [Store!Next]_(Contents(saved, saved.data))
  BY <1>2
<1> QED
  BY <1>1, <1>3, StoreInvariance, PTL DEF Spec, ImplementsInstanceStore, Store!Spec
=============================================================================
