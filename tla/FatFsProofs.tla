---------------------------- MODULE FatFsProofs ----------------------------
(***************************************************************************)
(* Theorems about FatFs for every size of the disk, of its directories and *)
(* of the allocation table, and any number of power losses.                *)
(***************************************************************************)
EXTENDS FatFs, NaturalsInduction, WellFoundedInduction, TLAPS

Table     == [Clusters -> Clusters \cup {Free, EndOfChain}]
DirEntry  == [mark : {"end", "erased", "used"}, name : Names,
              attr : {"file", "dir"}, start : Clusters \cup {Free},
              size : 0 .. MaxChunks]
CallType  == [kind : {"none", "touch", "create", "write", "rm", "rmdir"},
              name : Names, chunks : 0 .. MaxChunks,
              start : Clusters \cup {NoCluster}, prev : Clusters \cup {NoCluster},
              written : 0 .. MaxChunks,
              todo : SUBSET ((1 .. DirSlots + 1) \X Names)]

Types ==
  /\ DOMAIN dirs = {"root", "sub"}
  /\ dirs["root"] \in [Slots.root -> DirEntry]
  /\ dirs["sub"] \in [Slots.sub -> DirEntry]
  /\ fatTable \in Table
  /\ fat = <<fat[1], fat[2]>> /\ fat[1] \in Table /\ fat[2] \in Table
  /\ data \in [Clusters -> [SectorNos -> Names \X (0 .. MaxChunks)]]
  /\ cwd \in {"root", "sub"}
  /\ op \in CallType /\ op.written <= op.chunks
  /\ pc \in {"idle", "chunk", "sweep", "erase", "fat", "entry", "outside"}
  /\ sector \in 0 .. 2 * FatSectors - 1
  /\ next \in {"idle", "sweep", "erase", "entry"}
  /\ events \subseteq {"overwrite", "lost clusters", "power loss", "torn touch"}
  /\ losses \in 0 .. MaxLosses

(* What an operation may still have to do, and what it has allocated.      *)
CallInv ==
  /\ pc \in {"idle", "outside"} => op = NoCall
  /\ pc = "chunk" => op.kind = "write"
  /\ pc = "sweep" => op.kind = "rmdir"
  /\ pc = "entry" => op.kind \in {"touch", "create", "write"}
  /\ pc # "fat" => sector = 0 /\ next = "idle"
  /\ pc = "erase" => op.kind # "none"
  /\ pc = "fat" => <<op.kind, next>> \in
       {<<"rm", "idle">>, <<"rmdir", "sweep">>, <<"create", "erase">>,
        <<"create", "entry">>, <<"write", "erase">>, <<"write", "entry">>,
        <<"touch", "entry">>, <<"touch", "idle">>}
  /\ op.start = NoCluster => op.kind \in {"none", "rm", "rmdir"} \/ pc = "chunk"
  /\ op.kind \in {"none", "rm", "rmdir"} => op.start = NoCluster
  /\ pc = "chunk" => (op.start = NoCluster <=> op.prev = NoCluster)

-----------------------------------------------------------------------------
(* The copies of the allocation table.                                     *)

Agree == fat[1] = fatTable /\ ("power loss" \notin events => fat[2] = fatTable)

(* Before touch_ has written the table, the memory is ahead of the disk;   *)
(* so it is from the first cluster write_ has taken.                       *)
CopiesInv ==
  /\ pc \in {"idle", "sweep"} => Agree
  /\ pc \in {"erase", "entry"} /\ op.kind # "touch" => Agree
  /\ pc = "chunk" /\ op.start = NoCluster => Agree
  /\ pc = "fat" => \A c \in Clusters :
       /\ 2 * (c \div EntriesPerSector) < sector => fat[1][c] = fatTable[c]
       /\ 2 * (c \div EntriesPerSector) + 1 < sector => fat[2][c] = fatTable[c]

-----------------------------------------------------------------------------
(* Chains.                                                                 *)

Safe == events \cap {"overwrite", "torn touch"} = {}

ChainAt(e) == Chain(fatTable, Entry(e).start)

(* Every cluster of the file that starts at c is allocated.                *)
Holds(c) == c \in Clusters /\ \A x \in Chain(fatTable, c) : fatTable[x] # Free

(* The clusters of a file that has no entry yet.                           *)
Pending == op.start # NoCluster /\ ~TouchWindow
NewChain == IF Pending THEN Chain(fatTable, op.start) ELSE {}

ChainsInv ==
  Safe =>
    /\ \A e \in Live : Holds(Entry(e).start)
    /\ \A e, f \in Live : e # f => ChainAt(e) \cap ChainAt(f) = {}
    /\ Pending => Holds(op.start) /\ \A e \in Live : ChainAt(e) \cap NewChain = {}
    /\ pc = "chunk" /\ Pending => op.prev \in NewChain /\ fatTable[op.prev] = EndOfChain
    /\ ~TouchWindow => \A e \in Live : \A x \in ChainAt(e) : fat[1][x] = fatTable[x]

Allocated  == {c \in Clusters : fatTable[c] # Free}
InFiles    == UNION {ChainAt(e) : e \in Live}
AccountInv == events = {} => Allocated = InFiles \cup NewChain

-----------------------------------------------------------------------------
(* Contents.                                                               *)

(* The label of the first sector of cluster x.                             *)
Label(d, x) == d[x][0]

(* The table may describe clusters that the disk does not have.            *)
OnDisk(S) == \A x \in S : x < DirCluster + DataClusters

(* With table t and sectors d, the file that starts at c begins with the   *)
(* label of its first sector, and its links lead from each label to the    *)
(* next, as long as the disk has its clusters.                             *)
Labelled(t, d, c, size, name) ==
  OnDisk(Chain(t, c)) =>
    /\ size # 0 => c \in Clusters /\ Label(d, c) = <<name, 1>>
    /\ \A x \in Chain(t, c) : \A j \in 1 .. size - 1 :
         Label(d, x) = <<name, j>> =>
           t[x] \in Clusters /\ Label(d, t[x]) = <<name, j + 1>>

LabelledEntry(e) == Labelled(fatTable, data, Entry(e).start, Entry(e).size, Entry(e).name)

(* write_ has just written the cluster at the end of the new chain, which  *)
(* has the greatest label.                                                 *)
LastWritten ==
  OnDisk(NewChain) =>
    /\ Label(data, op.prev) = <<op.name, op.written>>
    /\ \A x \in NewChain : \A j \in Nat :
         x # op.prev /\ Label(data, x) = <<op.name, j>> => j < op.written

LabelsInv ==
  Safe =>
    /\ \A e \in Live : LabelledEntry(e)
    /\ Pending => Labelled(fatTable, data, op.start, op.written, op.name)
    /\ pc = "chunk" => IF Pending THEN op.written # 0 /\ LastWritten ELSE op.written = 0

IInv == /\ Types /\ CallInv /\ CopiesInv
        /\ NothingBehindEnd /\ CurrentDirExists
        /\ ChainsInv /\ AccountInv /\ LabelsInv

-----------------------------------------------------------------------------
(* Constants.                                                              *)

Dirs == {"root", "sub"}

(* What the assumptions say of the constants.                              *)
LEMMA Sizes ==
  /\ DirName \in Names
  /\ RootSlots \in Nat \ {0} /\ DirSlots \in Nat \ {0}
  /\ FatSectors \in Nat \ {0} /\ EntriesPerSector \in Nat \ {0}
  /\ MaxChunks \in Nat \ {0} /\ MaxLosses \in Nat
  /\ DirCluster \in Clusters /\ Clusters \subseteq Nat
  /\ Free \notin Clusters /\ EndOfChain \notin Clusters /\ NoCluster \notin Clusters
  /\ Free # EndOfChain
<1>1. /\ RootSlots \in Nat \ {0} /\ DirSlots \in Nat \ {0}
      /\ DirName \in Names /\ MaxLosses \in Nat
      /\ FatSectors \in Nat /\ EntriesPerSector \in Nat \ {0}
      /\ MaxChunks \in Nat \ {0}
      /\ FatSectors * EntriesPerSector > 2
      /\ FatSectors * EntriesPerSector <= 65528
  BY FatAssumption DEF FatAssumption
<1>2. FatSectors # 0
  BY <1>1
<1>3. FatSectors * EntriesPerSector \in Nat
  BY <1>1
<1>4. /\ DirCluster \in Clusters /\ Clusters \subseteq Nat
      /\ Free \notin Clusters /\ EndOfChain \notin Clusters /\ NoCluster \notin Clusters
      /\ Free # EndOfChain
  BY <1>1, <1>3 DEF Clusters, DirCluster, Free, EndOfChain, NoCluster
<1> QED
  BY <1>1, <1>2, <1>4

(* The two directories and their slots.                                    *)
LEMMA SlotSets ==
  /\ Slots["root"] = 1 .. RootSlots /\ Slots["sub"] = 1 .. DirSlots
  /\ Slots.root = 1 .. RootSlots /\ Slots.sub = 1 .. DirSlots
  /\ Places = Dirs
  /\ \A p \in Dirs : Slots[p] \subseteq Nat \ {0}
BY Sizes DEF Slots, Places, Dirs

-----------------------------------------------------------------------------
(* Chains.                                                                 *)

Closed(t, c, T) == /\ c \in Clusters => c \in T
                   /\ \A x \in T : t[x] \in Clusters => t[x] \in T

(* Chain is the least set that follows the links.                          *)
LEMMA ChainIs ==
  ASSUME NEW t, NEW c
  PROVE  /\ Chain(t, c) \subseteq Clusters
         /\ Closed(t, c, Chain(t, c))
         /\ \A T \in SUBSET Clusters : Closed(t, c, T) => Chain(t, c) \subseteq T
<1>1. \A x : x \in Chain(t, c) <=>
        x \in Clusters /\ \A T \in SUBSET Clusters : Closed(t, c, T) => x \in T
  BY DEF Chain, Closed
<1>2. Closed(t, c, Chain(t, c))
  BY <1>1 DEF Closed
<1> QED
  BY <1>1, <1>2

(* A table that has not changed along a chain leaves it as it was.         *)
LEMMA ChainSame ==
  ASSUME NEW t, NEW u, NEW c, \A x \in Chain(t, c) : u[x] = t[x]
  PROVE  Chain(u, c) = Chain(t, c)
<1>1. Closed(u, c, Chain(t, c))
  BY ChainIs DEF Closed
<1>2. Chain(u, c) \subseteq Chain(t, c)
  BY <1>1, ChainIs
<1>3. Closed(t, c, Chain(u, c))
  BY <1>2, ChainIs DEF Closed
<1> QED
  BY <1>2, <1>3, ChainIs

(* A chain of one cluster.                                                 *)
LEMMA ChainOfOne ==
  ASSUME NEW t, NEW c \in Clusters, t[c] \notin Clusters
  PROVE  Chain(t, c) = {c}
<1>1. Closed(t, c, {c})
  BY DEF Closed
<1>2. Chain(t, c) \subseteq {c}
  BY <1>1, ChainIs
<1>3. c \in Chain(t, c)
  BY ChainIs DEF Closed
<1> QED
  BY <1>2, <1>3

(* What write_ does to the chain of its file: a free cluster is linked     *)
(* behind the last one.                                                    *)
LEMMA ChainExtended ==
  ASSUME NEW t, NEW u, NEW s, NEW last \in Chain(t, s), NEW c \in Clusters,
         t[last] \notin Clusters, t[c] \notin Clusters,
         u[last] = c, u[c] \notin Clusters,
         \A x \in Clusters : x # last /\ x # c => u[x] = t[x]
  PROVE  Chain(u, s) = Chain(t, s) \cup {c}
<1>1. /\ Chain(t, s) \subseteq Clusters /\ Chain(u, s) \subseteq Clusters
      /\ Closed(t, s, Chain(t, s)) /\ Closed(u, s, Chain(u, s))
  BY ChainIs
<1>2. Closed(u, s, Chain(t, s) \cup {c})
  BY <1>1 DEF Closed
<1>3. Chain(u, s) \subseteq Chain(t, s) \cup {c}
  BY <1>1, <1>2, ChainIs
<1>4. Closed(t, s, Chain(u, s))
  BY <1>1 DEF Closed
<1>5. Chain(t, s) \subseteq Chain(u, s)
  BY <1>1, <1>4, ChainIs
<1>6. c \in Chain(u, s)
  BY <1>1, <1>5 DEF Closed
<1> QED
  BY <1>3, <1>5, <1>6

-----------------------------------------------------------------------------
(* Directories.                                                            *)

(* The slots of a directory that are in use.                               *)
LEMMA UsedIs ==
  ASSUME Types, NEW p \in Dirs
  PROVE  /\ dirs[p] \in [Slots[p] -> DirEntry]
         /\ Used(p) \subseteq Slots[p]
         /\ \A i \in Slots[p] : i \in Used(p) <=> dirs[p][i].mark = "used"
BY DEF Types, Dirs, Used, Slots

(* Which entries can be reached.                                           *)
Reached ==
  \A p, i : <<p, i>> \in Live <=> p \in Dirs /\ i \in Used(p) /\ (p = "sub" => SubExists)

(* Membership of Live, for one entry.                                      *)
LEMMA LiveIs == Reached
<1> SUFFICES ASSUME NEW p, NEW i
             PROVE  <<p, i>> \in Live <=>
                      p \in Dirs /\ i \in Used(p) /\ (p = "sub" => SubExists)
  BY DEF Reached
<1>1. "root" # "sub"
  OBVIOUS
<1>2. ASSUME SubExists
      PROVE  <<p, i>> \in Live <=> p \in Dirs /\ i \in Used(p)
  BY <1>2 DEF Live, Dirs
<1>3. ASSUME ~SubExists
      PROVE  <<p, i>> \in Live <=> p = "root" /\ i \in Used(p)
  BY <1>3 DEF Live
<1> QED
  BY <1>1, <1>2, <1>3 DEF Dirs

(* The members of Live are a directory and a slot in use.                  *)
LEMMA LivePairs ==
  \A e \in Live : \E p \in Dirs : \E i \in Used(p) : e = <<p, i>>
BY DEF Live, Dirs

(* One slot of a directory is stored.                                      *)
Stored(p, i, entry) == dirs' = [dirs EXCEPT ![p][i] = entry]

(* A stored entry keeps the type of the directories.                       *)
LEMMA StoredSlot ==
  ASSUME Types, NEW p \in Dirs, NEW i \in Slots[p], NEW entry \in DirEntry,
         Stored(p, i, entry)
  PROVE  /\ DOMAIN dirs' = {"root", "sub"}
         /\ dirs'["root"] \in [Slots.root -> DirEntry]
         /\ dirs'["sub"] \in [Slots.sub -> DirEntry]
         /\ \A q \in Dirs : \A j \in Slots[q] :
              dirs'[q][j] = IF q = p /\ j = i THEN entry ELSE dirs[q][j]
<1>1. /\ Slots["root"] = Slots.root /\ Slots["sub"] = Slots.sub
      /\ DOMAIN dirs = {"root", "sub"}
      /\ dirs["root"] \in [Slots["root"] -> DirEntry]
      /\ dirs["sub"] \in [Slots["sub"] -> DirEntry]
  BY SlotSets DEF Types
<1>2. CASE p = "root"
  BY <1>1, <1>2 DEF Stored, Dirs
<1>3. CASE p = "sub"
  BY <1>1, <1>3 DEF Stored, Dirs
<1> QED
  BY <1>2, <1>3 DEF Dirs

(* The two entries that are not in use.                                    *)
LEMMA Marks ==
  /\ Erased \in DirEntry /\ End \in DirEntry
  /\ Erased.mark = "erased" /\ End.mark = "end"
BY Sizes DEF Erased, End, Slot, DirEntry, Free

(* Where the victim of delete_ can be.                                     *)
LEMMA VictimIs ==
  ASSUME NEW n, NEW v \in Victim(n), cwd \in Dirs
  PROVE  \E p \in Dirs : \E i \in Used(p) :
           /\ v = <<p, i>>
           /\ cwd = "sub" => p = "sub"
           /\ p = "sub" => cwd = "sub" \/ SubExists
<1> DEFINE below(i) == dirs.root[i].attr = "dir" /\ Named("sub", n) # {}
           hits     == {i \in Used("root") : below(i) \/ dirs.root[i].name = n}
           inSub    == {<<"sub", i>> : i \in {k \in Named("sub", n) :
                                               Least(Named("sub", n), k)}}
<1>1. Named("sub", n) \subseteq Used("sub")
  BY DEF Named, Visible
<1>2. \A w \in inSub : \E i \in Used("sub") : w = <<"sub", i>>
  BY <1>1
<1>3. CASE cwd = "sub"
  <2>1. v \in inSub
    BY <1>3 DEF Victim
  <2> QED
    BY <1>2, <1>3, <2>1 DEF Dirs
<1>4. CASE cwd = "root"
  <2>1. v \in UNION {IF below(i) THEN inSub ELSE {<<"root", i>>} :
                       i \in {k \in hits : Least(hits, k)}}
    BY <1>4 DEF Victim
  <2>2. PICK i \in hits : v \in IF below(i) THEN inSub ELSE {<<"root", i>>}
    BY <2>1
  <2>3. i \in Used("root")
    OBVIOUS
  <2>4. CASE below(i)
    <3>1. SubExists
      BY <2>3, <2>4 DEF SubExists
    <3>2. v \in inSub
      BY <2>2, <2>4
    <3> HIDE DEF inSub, below, hits
    <3>3. PICK k \in Used("sub") : v = <<"sub", k>>
      BY <1>2, <3>2
    <3> QED
      BY <1>4, <3>1, <3>3 DEF Dirs
  <2>5. CASE ~below(i)
    <3>1. v = <<"root", i>>
      BY <2>2, <2>5
    <3> QED
      BY <1>4, <2>3, <3>1 DEF Dirs
  <2> QED
    BY <2>4, <2>5
<1> QED
  BY <1>3, <1>4 DEF Dirs

-----------------------------------------------------------------------------
(* Operations.                                                             *)

(* An operation that starts.                                               *)
LEMMA CallIs ==
  ASSUME NEW kind \in {"none", "touch", "create", "write", "rm", "rmdir"},
         NEW n \in Names, NEW chunks \in 0 .. MaxChunks
  PROVE  /\ Call(kind, n, chunks) \in CallType
         /\ Call(kind, n, chunks).kind = kind
         /\ Call(kind, n, chunks).start = NoCluster
         /\ Call(kind, n, chunks).prev = NoCluster
         /\ Call(kind, n, chunks).written = 0
         /\ Call(kind, n, chunks).chunks = chunks
<1>1. 0 \in 0 .. MaxChunks
  BY Sizes
<1> QED
  BY <1>1 DEF Call, CallType

(* No operation.                                                           *)
LEMMA NoCallIs ==
  /\ NoCall \in CallType /\ NoCall.written <= NoCall.chunks
  /\ NoCall.kind = "none" /\ NoCall.start = NoCluster /\ NoCall.prev = NoCluster
<1>1. 0 \in 0 .. MaxChunks
  BY Sizes
<1> QED
  BY <1>1, Sizes, CallIs DEF NoCall

(* A step that stores nothing in a directory.                              *)
LEMMA SameDirs ==
  ASSUME dirs' = dirs
  PROVE  /\ \A p : Used(p)' = Used(p)
         /\ Live' = Live /\ SubExists' = SubExists
         /\ \A e : Entry(e)' = Entry(e)
         /\ NothingBehindEnd => NothingBehindEnd'
<1>1. \A p : Used(p)' = Used(p)
  BY DEF Used
<1>2. SubExists' = SubExists
  BY <1>1 DEF SubExists
<1> QED
  BY <1>1, <1>2 DEF Live, Entry, NothingBehindEnd

(* A step that changes neither a directory nor the allocation table leaves *)
(* the files as they are.                                                  *)
LEMMA SameChains ==
  ASSUME ChainsInv, AccountInv, UNCHANGED <<dirs, fat, fatTable, events>>,
         TouchWindow' = TouchWindow,
         op'.start = op.start,
         pc' = "chunk" /\ Pending => pc = "chunk" /\ op'.prev = op.prev
  PROVE  ChainsInv' /\ AccountInv'
<1>1. Pending' = Pending /\ Safe' = Safe /\ Live' = Live
  BY SameDirs DEF Pending, Safe
<1>2. \A e : Entry(e)' = Entry(e) /\ ChainAt(e)' = ChainAt(e)
  BY SameDirs DEF ChainAt
<1>3. NewChain' = NewChain
  BY <1>1 DEF NewChain
<1>4. \A c : Holds(c)' = Holds(c)
  BY DEF Holds
<1>5. ChainsInv'
  BY <1>1, <1>2, <1>3, <1>4 DEF ChainsInv
<1>6. AccountInv'
  <2>1. Allocated' = Allocated /\ InFiles' = InFiles
    BY <1>1, <1>2 DEF Allocated, InFiles
  <2> QED
    BY <1>1, <1>2, <1>3, <2>1 DEF AccountInv
<1> QED
  BY <1>5, <1>6

(* A file keeps its labels when neither its links nor its sectors change.  *)
LEMMA LabelsSame ==
  ASSUME NEW t, NEW u, NEW d, NEW g, NEW c, NEW size, NEW name,
         Labelled(t, d, c, size, name),
         \A x \in Chain(t, c) : u[x] = t[x] /\ g[x] = d[x]
  PROVE  Labelled(u, g, c, size, name)
<1>1. Chain(u, c) = Chain(t, c) /\ Closed(t, c, Chain(t, c))
  BY ChainSame, ChainIs
<1> QED
  BY <1>1 DEF Labelled, Label, Closed

(* A step that changes no sector, no link and no entry.                    *)
LEMMA SameLabels ==
  ASSUME LabelsInv, UNCHANGED <<dirs, data, fatTable>>, Safe' => Safe,
         Pending' => /\ Pending
                     /\ op'.start = op.start /\ op'.written = op.written
                     /\ op'.name = op.name,
         pc' = "chunk" => ~Pending' /\ op'.written = 0
  PROVE  LabelsInv'
<1>1. Live' = Live /\ \A e : Entry(e)' = Entry(e)
  BY SameDirs
<1>2. \A e : LabelledEntry(e)' <=> LabelledEntry(e)
  BY <1>1 DEF LabelledEntry, Labelled
<1> QED
  BY <1>1, <1>2 DEF LabelsInv

(* Entries that stay keep their labels when their chains do.               *)
LEMMA EntriesKept ==
  ASSUME LabelsInv, Safe, Live' \subseteq Live,
         \A e \in Live' : Entry(e)' = Entry(e),
         \A e \in Live' : \A x \in ChainAt(e) :
           fatTable'[x] = fatTable[x] /\ data'[x] = data[x]
  PROVE  \A e \in Live' : LabelledEntry(e)'
<1> SUFFICES ASSUME NEW e \in Live'
             PROVE  LabelledEntry(e)'
  OBVIOUS
<1>1. Labelled(fatTable, data, Entry(e).start, Entry(e).size, Entry(e).name)
  BY DEF LabelsInv, LabelledEntry
<1>2. PICK f : f = Entry(e)
  OBVIOUS
<1>3. \A x \in Chain(fatTable, f.start) : fatTable'[x] = fatTable[x] /\ data'[x] = data[x]
  BY <1>2 DEF ChainAt
<1>4. Labelled(fatTable', data', f.start, f.size, f.name)
  BY <1>1, <1>2, <1>3, LabelsSame
<1>5. Entry(e)' = f
  BY <1>2
<1> QED
  BY <1>4, <1>5 DEF LabelledEntry

(* A step that leaves the disk and the memory of the table as they are and *)
(* the operation in a state of the right type.                             *)
LEMMA SameDisk ==
  ASSUME Types, NothingBehindEnd,
         UNCHANGED <<diskVars, fatTable, events, losses, sector>>,
         cwd' \in Dirs, op' \in CallType, op'.written <= op'.chunks,
         pc' \in {"idle", "chunk", "sweep", "erase", "fat", "entry", "outside"},
         next' \in {"idle", "sweep", "erase", "entry"}
  PROVE  Types' /\ NothingBehindEnd'
BY SameDirs DEF Types, diskVars, Dirs

(* updateFatTable before its first sector.                                 *)
LEMMA NothingWritten ==
  ASSUME pc' = "fat", sector' = 0
  PROVE  CopiesInv'
<1>1. \A c \in Clusters : c \div EntriesPerSector \in Nat
  BY Sizes
<1>2. \A k \in Nat : ~(2 * k < 0) /\ ~(2 * k + 1 < 0)
  OBVIOUS
<1> QED
  BY <1>1, <1>2 DEF CopiesInv

(* rm starts.                                                              *)
LEMMA RemoveStep ==
  ASSUME IInv, NEW n \in Names, RemoveFile(n)
  PROVE  IInv'
<1>1. /\ Types /\ CallInv /\ CopiesInv /\ NothingBehindEnd
      /\ CurrentDirExists /\ ChainsInv /\ AccountInv /\ LabelsInv
  BY DEF IInv
<1>2. /\ pc = "idle" /\ pc' = "erase" /\ op' = Call("rm", n, 0)
      /\ UNCHANGED <<diskVars, dirs, fat, fatTable, cwd, sector, next, events, losses>>
      /\ op.start = NoCluster /\ sector = 0 /\ next = "idle"
  BY <1>1, NoCallIs DEF RemoveFile, Goto, history, CallInv, diskVars
<1>3. /\ op' \in CallType /\ op'.written <= op'.chunks /\ op'.kind = "rm"
      /\ op'.start = NoCluster /\ op'.prev = NoCluster
  <2>1. 0 \in 0 .. MaxChunks
    BY Sizes
  <2> QED
    BY <1>2, <2>1, CallIs
<1>4. Types' /\ NothingBehindEnd'
  BY <1>1, <1>2, <1>3, SameDisk DEF Types, Dirs
<1>5. CallInv'
  BY <1>2, <1>3 DEF CallInv
<1>6. CopiesInv'
  BY <1>1, <1>2, <1>3 DEF CopiesInv, Agree
<1>7. CurrentDirExists'
  BY <1>1, <1>2, SameDirs DEF CurrentDirExists
<1>8. ChainsInv' /\ AccountInv'
  BY <1>1, <1>2, <1>3, SameChains DEF TouchWindow
<1>9. LabelsInv'
  BY <1>1, <1>2, <1>3, SameLabels DEF Pending, Safe, diskVars
<1> QED
  BY <1>4, <1>5, <1>6, <1>7, <1>8, <1>9 DEF IInv

(* write starts.                                                           *)
LEMMA WriteStep ==
  ASSUME IInv, NEW n \in Names, NEW chunks \in 1 .. MaxChunks, Write(n, chunks)
  PROVE  IInv'
<1>1. /\ Types /\ CallInv /\ CopiesInv /\ NothingBehindEnd
      /\ CurrentDirExists /\ ChainsInv /\ AccountInv /\ LabelsInv
  BY DEF IInv
<1>2. /\ pc = "idle" /\ pc' = "chunk" /\ op' = Call("write", n, chunks)
      /\ UNCHANGED <<diskVars, dirs, fat, fatTable, cwd, sector, next, events, losses>>
      /\ op.start = NoCluster /\ sector = 0 /\ next = "idle"
  BY <1>1, NoCallIs DEF Write, Goto, history, CallInv, diskVars
<1>3. /\ op' \in CallType /\ op'.written <= op'.chunks /\ op'.kind = "write"
      /\ op'.start = NoCluster /\ op'.prev = NoCluster /\ op'.written = 0
  <2>1. chunks \in 0 .. MaxChunks
    BY Sizes
  <2> QED
    BY <1>2, <2>1, CallIs
<1>4. Types' /\ NothingBehindEnd'
  BY <1>1, <1>2, <1>3, SameDisk DEF Types, Dirs
<1>5. CallInv'
  BY <1>2, <1>3 DEF CallInv
<1>6. CopiesInv'
  BY <1>1, <1>2, <1>3 DEF CopiesInv, Agree
<1>7. CurrentDirExists'
  BY <1>1, <1>2, SameDirs DEF CurrentDirExists
<1>8. ChainsInv' /\ AccountInv'
  <2>1. ~Pending
    BY <1>2 DEF Pending
  <2> QED
    BY <1>1, <1>2, <1>3, <2>1, SameChains DEF TouchWindow
<1>9. LabelsInv'
  BY <1>1, <1>2, <1>3, SameLabels DEF Pending, Safe, diskVars
<1> QED
  BY <1>4, <1>5, <1>6, <1>7, <1>8, <1>9 DEF IInv

(* The store to fatTable[-1].                                              *)
LEMMA StoreOutsideStep ==
  ASSUME IInv, StoreOutside
  PROVE  IInv'
<1>1. /\ Types /\ CallInv /\ CopiesInv /\ NothingBehindEnd
      /\ CurrentDirExists /\ ChainsInv /\ AccountInv /\ LabelsInv
  BY DEF IInv
<1>2. /\ pc = "idle" /\ pc' = "outside"
      /\ UNCHANGED <<diskVars, dirs, fat, fatTable, cwd, op, sector, next, events, losses>>
      /\ op = NoCall /\ sector = 0 /\ next = "idle"
  BY <1>1 DEF StoreOutside, history, CallInv, diskVars
<1>3. Types' /\ NothingBehindEnd'
  BY <1>1, <1>2, SameDisk DEF Types, Dirs
<1>4. CallInv'
  BY <1>1, <1>2, NoCallIs DEF CallInv
<1>5. CopiesInv'
  BY <1>1, <1>2 DEF CopiesInv, Agree
<1>6. CurrentDirExists'
  BY <1>1, <1>2, SameDirs DEF CurrentDirExists
<1>7. ChainsInv' /\ AccountInv'
  BY <1>1, <1>2, SameChains DEF TouchWindow
<1>8. LabelsInv'
  BY <1>1, <1>2, NoCallIs, SameLabels DEF Pending, Safe, diskVars
<1> QED
  BY <1>3, <1>4, <1>5, <1>6, <1>7, <1>8 DEF IInv

(* cd, to a directory that is there.                                       *)
LEMMA ChangeDirStep ==
  ASSUME IInv, ChangeDir
  PROVE  IInv'
<1>1. /\ Types /\ CallInv /\ CopiesInv /\ NothingBehindEnd
      /\ CurrentDirExists /\ ChainsInv /\ AccountInv /\ LabelsInv
  BY DEF IInv
<1>2. /\ pc = "idle"
      /\ UNCHANGED <<diskVars, dirs, fat, fatTable, op, pc, sector, next, events, losses>>
      /\ cwd' \in Dirs
      /\ cwd' = "sub" => SubExists
  BY <1>1 DEF ChangeDir, history, diskVars, Visible, SubExists, Dirs
<1>3. Types' /\ NothingBehindEnd'
  BY <1>1, <1>2, SameDisk DEF Types, Dirs
<1>4. CallInv' /\ CopiesInv'
  BY <1>1, <1>2 DEF CallInv, CopiesInv, Agree
<1>5. CurrentDirExists'
  BY <1>1, <1>2, SameDirs DEF CurrentDirExists
<1>6. ChainsInv' /\ AccountInv'
  BY <1>1, <1>2, SameChains DEF TouchWindow
<1>7. LabelsInv'
  BY <1>1, <1>2, SameLabels DEF Pending, Safe, diskVars, TouchWindow
<1> QED
  BY <1>3, <1>4, <1>5, <1>6, <1>7 DEF IInv

(* rmdir starts with the names it has read.                                *)
LEMMA RemoveDirStep ==
  ASSUME IInv, RemoveDir
  PROVE  IInv'
<1> DEFINE todo == NamesIn("sub") \cup {<<DirSlots + 1, DirName>>}
<1>1. /\ Types /\ CallInv /\ CopiesInv /\ NothingBehindEnd
      /\ CurrentDirExists /\ ChainsInv /\ AccountInv /\ LabelsInv
  BY DEF IInv
<1>2. /\ pc = "idle" /\ pc' = "sweep"
      /\ op' = [Call("rmdir", DirName, 0) EXCEPT !.todo = todo]
      /\ UNCHANGED <<diskVars, dirs, fat, fatTable, cwd, sector, next, events, losses>>
      /\ op.start = NoCluster /\ sector = 0 /\ next = "idle"
  BY <1>1, NoCallIs DEF RemoveDir, Goto, history, CallInv, diskVars
<1>3. todo \subseteq (1 .. DirSlots + 1) \X Names
  <2>1. \A i \in Visible("sub") : i \in 1 .. DirSlots /\ dirs["sub"][i].name \in Names
    BY <1>1, UsedIs DEF Visible, Dirs, DirEntry, Slots
  <2> QED
    BY <2>1, Sizes DEF NamesIn
<1> HIDE DEF todo
<1>4. /\ op' \in CallType /\ op'.written <= op'.chunks /\ op'.kind = "rmdir"
      /\ op'.start = NoCluster /\ op'.prev = NoCluster
  <2> DEFINE call == Call("rmdir", DirName, 0)
  <2>1. /\ call \in CallType /\ call.kind = "rmdir" /\ call.written = 0
        /\ call.chunks = 0 /\ call.start = NoCluster /\ call.prev = NoCluster
    <3>1. 0 \in 0 .. MaxChunks
      BY Sizes
    <3> QED
      BY <3>1, Sizes, CallIs
  <2> HIDE DEF call
  <2>2. op' = [call EXCEPT !.todo = todo]
    BY <1>2 DEF call
  <2> QED
    BY <1>3, <2>1, <2>2 DEF CallType
<1>5. Types' /\ NothingBehindEnd'
  BY <1>1, <1>2, <1>4, SameDisk DEF Types, Dirs
<1>6. CallInv'
  BY <1>2, <1>4 DEF CallInv
<1>7. CopiesInv'
  BY <1>1, <1>2, <1>4 DEF CopiesInv, Agree
<1>8. CurrentDirExists'
  BY <1>1, <1>2, SameDirs DEF CurrentDirExists
<1>9. ChainsInv' /\ AccountInv'
  BY <1>1, <1>2, <1>4, SameChains DEF TouchWindow
<1>10. LabelsInv'
  BY <1>1, <1>2, <1>4, SameLabels DEF Pending, Safe, diskVars
<1> QED
  BY <1>5, <1>6, <1>7, <1>8, <1>9, <1>10 DEF IInv

(* rmdir goes on with the next name.                                       *)
LEMMA SweepStep ==
  ASSUME IInv, Sweep
  PROVE  IInv'
<1>1. /\ Types /\ CallInv /\ CopiesInv /\ NothingBehindEnd
      /\ CurrentDirExists /\ ChainsInv /\ AccountInv /\ LabelsInv
  BY DEF IInv
<1>2. /\ pc = "sweep" /\ op.kind = "rmdir" /\ op.start = NoCluster
      /\ UNCHANGED <<diskVars, dirs, fat, fatTable, sector, next, events, losses>>
      /\ sector = 0 /\ next = "idle" /\ op \in CallType /\ op.written <= op.chunks
  BY <1>1 DEF Sweep, history, CallInv, diskVars, Types
<1>3. \/ pc' = "idle" /\ op' = NoCall /\ cwd' = cwd
      \/ /\ pc' = "erase" /\ cwd' \in {cwd, "root"}
         /\ \E first \in op.todo :
              op' = [op EXCEPT !.name = first[2], !.todo = @ \ {first}]
  BY DEF Sweep, Goto
<1>4. /\ op' \in CallType /\ op'.written <= op'.chunks /\ op'.start = NoCluster
      /\ op'.kind \in {"none", "rmdir"} /\ (pc' = "erase" => op'.kind = "rmdir")
      /\ pc' = "idle" => op' = NoCall
  <2>1. CASE op' = NoCall /\ pc' = "idle"
    BY <2>1, NoCallIs
  <2>2. ASSUME NEW first \in op.todo, pc' = "erase",
               op' = [op EXCEPT !.name = first[2], !.todo = @ \ {first}]
        PROVE  /\ op' \in CallType /\ op'.written <= op'.chunks
               /\ op'.start = NoCluster /\ op'.kind = "rmdir"
    <3>1. first[2] \in Names
      BY <1>2 DEF CallType
    <3> QED
      BY <1>2, <2>2, <3>1 DEF CallType
  <2> QED
    BY <1>3, <2>1, <2>2
<1>5. Types' /\ NothingBehindEnd'
  <2>1. cwd' \in Dirs /\ pc' \in {"idle", "erase"}
    BY <1>1, <1>3 DEF Types, Dirs
  <2> QED
    BY <1>1, <1>2, <1>4, <2>1, SameDisk DEF Types
<1>6. CallInv'
  BY <1>2, <1>3, <1>4 DEF CallInv
<1>7. CopiesInv'
  BY <1>1, <1>2, <1>3, <1>4 DEF CopiesInv, Agree
<1>8. CurrentDirExists'
  BY <1>1, <1>2, <1>3, SameDirs DEF CurrentDirExists
<1>9. ChainsInv' /\ AccountInv'
  <2>1. ~Pending
    BY <1>2 DEF Pending
  <2> QED
    BY <1>1, <1>2, <1>3, <1>4, <2>1, SameChains DEF TouchWindow
<1>10. LabelsInv'
  BY <1>1, <1>2, <1>3, <1>4, SameLabels DEF Pending, Safe, diskVars
<1> QED
  BY <1>5, <1>6, <1>7, <1>8, <1>9, <1>10 DEF IInv

(* write_ leaves its loop.                                                 *)
LEMMA EndChunksStep ==
  ASSUME IInv, EndChunks
  PROVE  IInv'
<1>1. /\ Types /\ CallInv /\ CopiesInv /\ NothingBehindEnd
      /\ CurrentDirExists /\ ChainsInv /\ AccountInv /\ LabelsInv
  BY DEF IInv
<1>2. /\ pc = "chunk" /\ op.kind = "write"
      /\ UNCHANGED <<diskVars, dirs, fat, fatTable, cwd, sector, events, losses>>
      /\ sector = 0 /\ next = "idle" /\ op \in CallType /\ op.written <= op.chunks
  BY <1>1 DEF EndChunks, history, CallInv, diskVars, Types
<1>3. \/ op.start = NoCluster /\ pc' = "idle" /\ op' = NoCall /\ next' = next
      \/ op.start # NoCluster /\ pc' = "fat" /\ op' = op /\ next' = "erase"
  BY DEF EndChunks, Goto
<1>4. Types' /\ NothingBehindEnd'
  BY <1>1, <1>2, <1>3, NoCallIs, SameDisk DEF Types, Dirs
<1>5. CallInv'
  BY <1>2, <1>3, NoCallIs DEF CallInv
<1>6. CopiesInv'
  <2>1. CASE pc' = "idle"
    BY <1>1, <1>2, <1>3, <2>1 DEF CopiesInv, Agree
  <2>2. CASE pc' = "fat"
    BY <1>2, <2>2, NothingWritten
  <2> QED
    BY <1>3, <2>1, <2>2
<1>7. CurrentDirExists'
  BY <1>1, <1>2, SameDirs DEF CurrentDirExists
<1>8. ChainsInv' /\ AccountInv'
  BY <1>1, <1>2, <1>3, NoCallIs, SameChains DEF TouchWindow
<1>9. LabelsInv'
  BY <1>1, <1>2, <1>3, NoCallIs, SameLabels DEF Pending, Safe, diskVars, TouchWindow
<1> QED
  BY <1>4, <1>5, <1>6, <1>7, <1>8, <1>9 DEF IInv

-----------------------------------------------------------------------------
(* Operations that change the allocation table.                            *)

(* Files whose chains a step does not touch stay apart.                    *)
LEMMA FilesKept ==
  ASSUME ChainsInv, Safe, Live' \subseteq Live,
         \A e \in Live' : Entry(e)' = Entry(e),
         \A e \in Live' : \A x \in ChainAt(e) : fatTable'[x] = fatTable[x]
  PROVE  /\ \A e \in Live' : ChainAt(e)' = ChainAt(e) /\ Holds(Entry(e).start)'
         /\ \A e, f \in Live' : e # f => ChainAt(e)' \cap ChainAt(f)' = {}
<1>1. \A e \in Live' : ChainAt(e)' = ChainAt(e)
  BY ChainSame DEF ChainAt
<1>2. \A e \in Live' : Holds(Entry(e).start)'
  <2> TAKE e \in Live'
  <2>1. Holds(Entry(e).start)
    BY DEF ChainsInv
  <2>2. Chain(fatTable', Entry(e).start) = Chain(fatTable, Entry(e).start)
    BY ChainSame DEF ChainAt
  <2> QED
    BY <2>1, <2>2 DEF Holds, ChainAt
<1>3. \A e, f \in Live' : e # f => ChainAt(e)' \cap ChainAt(f)' = {}
  BY <1>1 DEF ChainsInv
<1> QED
  BY <1>1, <1>2, <1>3

(* A file whose cluster has just been allocated.                           *)
LEMMA AllocateStep ==
  ASSUME IInv, NEW n \in Names, NEW kind, NEW p,
         \/ kind = "touch" /\ p = "erase" /\ next' = next
         \/ kind = "create" /\ p = "fat" /\ next' = "erase",
         Allocate(p, Call(kind, n, 0))
  PROVE  IInv'
<1>1. /\ Types /\ CallInv /\ CopiesInv /\ NothingBehindEnd
      /\ CurrentDirExists /\ ChainsInv /\ AccountInv /\ LabelsInv
  BY DEF IInv
<1>2. PICK c \in Clusters : /\ FreeCluster(c)
                            /\ fatTable' = [fatTable EXCEPT ![c] = EndOfChain]
                            /\ Goto(p, [Call(kind, n, 0) EXCEPT !.start = c])
  BY DEF Allocate
<1>3. /\ pc = "idle" /\ pc' = p
      /\ op' = [Call(kind, n, 0) EXCEPT !.start = c]
      /\ UNCHANGED <<diskVars, dirs, fat, data, cwd, sector, events, losses>>
      /\ op.start = NoCluster /\ sector = 0 /\ next = "idle"
  BY <1>1, <1>2, NoCallIs DEF Allocate, Goto, history, CallInv, diskVars
<1>4. /\ op' \in CallType /\ op'.written <= op'.chunks /\ op'.kind = kind
      /\ op'.written = 0
      /\ op'.start = c /\ op'.prev = NoCluster
  <2> DEFINE call == Call(kind, n, 0)
  <2>1. /\ call \in CallType /\ call.kind = kind /\ call.written = 0
        /\ call.chunks = 0 /\ call.start = NoCluster /\ call.prev = NoCluster
    <3>1. 0 \in 0 .. MaxChunks
      BY Sizes
    <3> QED
      BY <3>1, Sizes, CallIs
  <2> HIDE DEF call
  <2>2. op' = [call EXCEPT !.start = c]
    BY <1>3 DEF call
  <2> QED
    BY <2>1, <2>2 DEF CallType
<1>5. /\ fatTable[c] = Free /\ c # NoCluster /\ fatTable \in Table
      /\ fatTable' \in Table /\ fatTable'[c] = EndOfChain
      /\ \A x \in Clusters \ {c} : fatTable'[x] = fatTable[x]
      /\ fatTable'[c] \notin Clusters
  BY <1>1, <1>2, Sizes DEF FreeCluster, Least, Types, Table
<1>6. Types' /\ NothingBehindEnd'
  BY <1>1, <1>3, <1>4, <1>5, SameDirs DEF Types
<1>7. CallInv'
  BY <1>3, <1>4, <1>5 DEF CallInv
<1>8. CopiesInv'
  <2>1. CASE p = "erase"
    BY <1>3, <1>4, <2>1 DEF CopiesInv
  <2>2. CASE p = "fat"
    BY <1>3, <2>2, NothingWritten
  <2> QED
    BY <2>1, <2>2
<1>9. CurrentDirExists'
  BY <1>1, <1>3, SameDirs DEF CurrentDirExists
<1>10. Pending' /\ NewChain' = {c}
  <2>1. Pending'
    BY <1>3, <1>4, <1>5 DEF Pending, TouchWindow
  <2> QED
    BY <1>4, <1>5, <2>1, ChainOfOne DEF NewChain
<1>11. ~Pending /\ NewChain = {} /\ ~TouchWindow /\ ~TouchWindow'
  BY <1>3, <1>4 DEF Pending, NewChain, TouchWindow
<1>12. ASSUME Safe
       PROVE  /\ \A e \in Live' : ChainAt(e)' = ChainAt(e) /\ Holds(Entry(e).start)'
              /\ \A e, f \in Live' : e # f => ChainAt(e)' \cap ChainAt(f)' = {}
              /\ \A e \in Live' : \A x \in ChainAt(e) :
                   x # c /\ x \in Clusters /\ fatTable'[x] = fatTable[x]
  <2>1. \A e \in Live : \A x \in ChainAt(e) :
           x # c /\ x \in Clusters /\ fatTable'[x] = fatTable[x]
    BY <1>1, <1>5, <1>12, ChainIs DEF ChainsInv, Holds, ChainAt
  <2>2. Live' = Live /\ \A e : Entry(e)' = Entry(e)
    BY <1>3, SameDirs
  <2> QED
    BY <1>1, <1>12, <2>1, <2>2, FilesKept
<1>13. ChainsInv'
  <2> SUFFICES ASSUME Safe'
               PROVE  ChainsInv'
    BY DEF ChainsInv
  <2>1. Safe
    BY <1>3 DEF Safe
  <2>2. Holds(op.start)'
    BY <1>4, <1>5, <1>10, Sizes DEF Holds, NewChain
  <2>3. \A e \in Live' : ChainAt(e)' \cap NewChain' = {}
    BY <1>10, <1>12, <2>1
  <2>4. \A e \in Live' : \A x \in ChainAt(e)' : fat[1]'[x] = fatTable'[x]
    BY <1>1, <1>3, <1>12, <2>1 DEF CopiesInv, Agree
  <2>5. pc' # "chunk"
    BY <1>3
  <2> QED
    BY <1>12, <2>1, <2>2, <2>3, <2>4, <2>5 DEF ChainsInv
<1>14. AccountInv'
  <2> SUFFICES ASSUME events' = {}
               PROVE  AccountInv'
    BY DEF AccountInv
  <2>1. events = {} /\ Safe
    BY <1>3 DEF Safe
  <2>2. Allocated' = Allocated \cup {c}
    BY <1>5, Sizes DEF Allocated
  <2>3. InFiles' = InFiles
    BY <1>3, <1>12, <2>1, SameDirs DEF InFiles
  <2>4. Allocated = InFiles
    BY <1>1, <1>11, <2>1 DEF AccountInv
  <2> QED
    BY <1>10, <2>2, <2>3, <2>4 DEF AccountInv
<1>15. LabelsInv'
  <2> SUFFICES ASSUME Safe'
               PROVE  LabelsInv'
    BY DEF LabelsInv
  <2>1. Safe
    BY <1>3 DEF Safe
  <2>2. Live' = Live /\ \A e : Entry(e)' = Entry(e)
    BY <1>3, SameDirs
  <2>3. \A e \in Live' : LabelledEntry(e)'
    BY <1>1, <1>3, <1>12, <2>1, <2>2, EntriesKept
  <2>4. Labelled(fatTable', data', op'.start, op'.written, op'.name)
    BY <1>4 DEF Labelled
  <2>5. pc' # "chunk"
    BY <1>3
  <2> QED
    BY <2>3, <2>4, <2>5 DEF LabelsInv
<1> QED
  BY <1>15, <1>6, <1>7, <1>8, <1>9, <1>13, <1>14 DEF IInv

(* touch_ has its cluster.                                                 *)
LEMMA TouchStep ==
  ASSUME IInv, NEW n \in Names, Touch(n)
  PROVE  IInv'
BY AllocateStep DEF Touch

(* create_ has its cluster.                                                *)
LEMMA CreateStep ==
  ASSUME IInv, NEW n \in Names, Create(n)
  PROVE  IInv'
BY AllocateStep DEF Create

(* write_ has one more cluster, behind the others of its file.             *)
LEMMA WriteChunkStep ==
  ASSUME IInv, WriteChunk
  PROVE  IInv'
<1>1. /\ Types /\ CallInv /\ CopiesInv /\ NothingBehindEnd
      /\ CurrentDirExists /\ ChainsInv /\ AccountInv /\ LabelsInv
  BY DEF IInv
<1>2. PICK c \in Clusters :
        /\ ChunkCluster(c)
        /\ fatTable' = [x \in Clusters |-> IF x = op.prev THEN c
                                           ELSE IF x = c THEN EndOfChain
                                                         ELSE fatTable[x]]
        /\ ChunkWritten(c)
  BY DEF WriteChunk
<1>3. /\ pc = "chunk" /\ op.kind = "write" /\ op.written < op.chunks
      /\ UNCHANGED <<dirs, fat, cwd, pc, sector, next, losses>>
      /\ sector = 0 /\ next = "idle" /\ op \in CallType
      /\ op.start = NoCluster <=> op.prev = NoCluster
  BY <1>1 DEF WriteChunk, MoreChunks, CallInv, Types
<1>4. op' = [op EXCEPT !.start = IF @ = NoCluster THEN c ELSE @,
                       !.prev = c, !.written = @ + 1]
  BY <1>2 DEF ChunkWritten
<1>5. /\ op' \in CallType /\ op'.written <= op'.chunks /\ op'.kind = "write"
      /\ op'.start = IF op.start = NoCluster THEN c ELSE op.start
      /\ op'.prev = c /\ op'.start # NoCluster /\ c # NoCluster
      /\ op.written + 1 \in 0 .. MaxChunks
  <2>1. op.written + 1 \in 0 .. MaxChunks /\ op.written + 1 <= op.chunks
    BY <1>3, Sizes DEF CallType
  <2> QED
    BY <1>3, <1>4, <2>1, Sizes DEF CallType
<1>6. fatTable \in Table /\ fatTable' \in Table
  BY <1>1, <1>2 DEF Types, Table
<1>7. Types' /\ NothingBehindEnd'
  <2>1. data' \in [Clusters -> [SectorNos -> Names \X (0 .. MaxChunks)]]
    <3>1. data \in [Clusters -> [SectorNos -> Names \X (0 .. MaxChunks)]]
      BY <1>1 DEF Types
    <3>2. op.name \in Names
      BY <1>3 DEF CallType
    <3>3. <<op.name, op.written + 1>> \in Names \X (0 .. MaxChunks)
      BY <1>5, <3>2
    <3> DEFINE labels == Names \X (0 .. MaxChunks)
               label  == <<op.name, op.written + 1>>
    <3>4. \/ data' = [data EXCEPT ![c][0] = label]
          \/ data' = data
      BY <1>2 DEF ChunkWritten
    <3>5. data \in [Clusters -> [SectorNos -> labels]] /\ label \in labels
      BY <3>1, <3>3
    <3> HIDE DEF labels, label
    <3>6. [data[c] EXCEPT ![0] = label] \in [SectorNos -> labels]
      BY <3>5
    <3>7. data' \in [Clusters -> [SectorNos -> labels]]
      BY <3>4, <3>5, <3>6
    <3> QED
      BY <3>7 DEF labels
  <2>2. events' \subseteq {"overwrite", "lost clusters", "power loss", "torn touch"}
    BY <1>1, <1>2 DEF ChunkWritten, Types
  <2> QED
    BY <1>1, <1>3, <1>5, <1>6, <2>1, <2>2, SameDirs DEF Types
<1>8. CallInv'
  BY <1>3, <1>5 DEF CallInv
<1>9. CopiesInv'
  BY <1>3, <1>5 DEF CopiesInv
<1>10. CurrentDirExists'
  BY <1>1, <1>3, SameDirs DEF CurrentDirExists
<1>11. CASE EntryInCurrentDir(op.name) # {}
  <2>1. "overwrite" \in events'
    BY <1>2, <1>11 DEF ChunkWritten
  <2> QED
    BY <1>7, <1>8, <1>9, <1>10, <2>1 DEF IInv, ChainsInv, AccountInv, LabelsInv, Safe
<1>12. CASE EntryInCurrentDir(op.name) = {}
  <2>1. fatTable[c] = Free /\ events' = events /\ c \notin {NoCluster, Free, EndOfChain}
    BY <1>2, <1>12, Sizes DEF ChunkCluster, FreeCluster, Least, ChunkWritten
  <2>2. /\ Pending <=> op.start # NoCluster
        /\ Pending' /\ ~TouchWindow /\ ~TouchWindow'
    BY <1>3, <1>5 DEF Pending, TouchWindow
  <2>3. ASSUME Safe
        PROVE  /\ NewChain' = NewChain \cup {c} /\ fatTable'[c] = EndOfChain
               /\ \A x \in NewChain' : fatTable'[x] # Free
               /\ \A x \in Clusters \ {c, op.prev} : fatTable'[x] = fatTable[x]
               /\ op.prev \in Clusters => op.prev \in NewChain /\ fatTable'[op.prev] = c
    <3>1. CASE op.start = NoCluster
      <4>1. op.prev \notin Clusters
        BY <1>3, <3>1, Sizes
      <4>2. /\ fatTable'[c] = EndOfChain
            /\ \A x \in Clusters \ {c} : fatTable'[x] = fatTable[x]
        BY <1>2, <4>1
      <4>3. NewChain = {}
        BY <2>2, <3>1 DEF NewChain
      <4>4. NewChain' = {c}
        BY <1>5, <2>2, <3>1, <4>2, Sizes, ChainOfOne DEF NewChain
      <4> QED
        BY <4>1, <4>2, <4>3, <4>4, Sizes
    <3>2. CASE op.start # NoCluster
      <4>1. /\ op.prev \in NewChain /\ fatTable[op.prev] = EndOfChain
            /\ \A x \in NewChain : fatTable[x] # Free
            /\ NewChain = Chain(fatTable, op.start) /\ NewChain \subseteq Clusters
        BY <1>1, <1>3, <2>2, <2>3, <3>2, ChainIs DEF ChainsInv, Holds, NewChain
      <4>2. c \notin NewChain /\ c # op.prev
        BY <2>1, <4>1
      <4>3. /\ fatTable'[c] = EndOfChain /\ fatTable'[op.prev] = c
            /\ \A x \in Clusters \ {c, op.prev} : fatTable'[x] = fatTable[x]
        BY <1>2, <4>1, <4>2
      <4>4. Chain(fatTable', op.start) = Chain(fatTable, op.start) \cup {c}
        <5> DEFINE t == fatTable
                   u == fatTable'
                   s == op.start
                   last == op.prev
        <5>1. /\ last \in Chain(t, s) /\ t[last] \notin Clusters /\ t[c] \notin Clusters
              /\ u[last] = c /\ u[c] \notin Clusters
              /\ \A x \in Clusters : x # last /\ x # c => u[x] = t[x]
          BY <2>1, <4>1, <4>3, Sizes
        <5> HIDE DEF t, u, s, last
        <5>2. Chain(u, s) = Chain(t, s) \cup {c}
          BY <5>1, ChainExtended
        <5> QED
          BY <5>2 DEF t, u, s
      <4>5. NewChain' = NewChain \cup {c}
        BY <1>5, <2>2, <3>2, <4>1, <4>4 DEF NewChain
      <4> QED
        BY <2>1, <4>1, <4>2, <4>3, <4>5, Sizes
    <3> QED
      BY <3>1, <3>2
  <2>4. ASSUME Safe
        PROVE  /\ \A e \in Live' : ChainAt(e)' = ChainAt(e) /\ Holds(Entry(e).start)'
               /\ \A e, f \in Live' : e # f => ChainAt(e)' \cap ChainAt(f)' = {}
               /\ \A e \in Live' : \A x \in ChainAt(e) :
                    x # c /\ x \notin NewChain /\ x \in Clusters
                    /\ fatTable'[x] = fatTable[x]
    <3>1. \A e \in Live : \A x \in ChainAt(e) :
            x # c /\ x \notin NewChain /\ x \in Clusters
      BY <1>1, <2>1, <2>4, ChainIs DEF ChainsInv, Holds, ChainAt, NewChain
    <3>2. \A e \in Live : \A x \in ChainAt(e) : fatTable'[x] = fatTable[x]
      BY <2>3, <2>4, <3>1
    <3>3. Live' = Live /\ \A e : Entry(e)' = Entry(e)
      BY <1>3, SameDirs
    <3> QED
      BY <1>1, <2>4, <3>1, <3>2, <3>3, FilesKept
  <2>5. ChainsInv'
    <3> SUFFICES ASSUME Safe'
                 PROVE  ChainsInv'
      BY DEF ChainsInv
    <3>1. Safe
      BY <2>1 DEF Safe
    <3>2. Holds(op.start)'
      <4>1. op'.start \in Clusters
        BY <1>3, <1>5 DEF CallType
      <4> QED
        BY <2>2, <2>3, <3>1, <4>1 DEF Holds, NewChain
    <3>3. \A e \in Live' : ChainAt(e)' \cap NewChain' = {}
      BY <2>3, <2>4, <3>1
    <3>4. op'.prev \in NewChain' /\ fatTable'[op'.prev] = EndOfChain
      BY <1>5, <2>3, <3>1
    <3>5. \A e \in Live' : \A x \in ChainAt(e)' : fat[1]'[x] = fatTable'[x]
      <4>1. Live' = Live
        BY <1>3, SameDirs
      <4>2. \A e \in Live : \A x \in ChainAt(e) : fat[1][x] = fatTable[x]
        BY <1>1, <2>2, <3>1 DEF ChainsInv
      <4> QED
        BY <1>3, <2>4, <3>1, <4>1, <4>2
    <3> QED
      BY <2>4, <3>1, <3>2, <3>3, <3>4, <3>5 DEF ChainsInv
  <2>6. AccountInv'
    <3> SUFFICES ASSUME events' = {}
                 PROVE  AccountInv'
      BY DEF AccountInv
    <3>1. events = {} /\ Safe
      BY <2>1 DEF Safe
    <3>2. op.prev \in Clusters => fatTable[op.prev] # Free
      BY <1>1, <1>3, <2>2, <3>1, Sizes DEF ChainsInv
    <3>3. \A x \in Clusters : fatTable'[x] # Free <=> fatTable[x] # Free \/ x = c
      BY <2>1, <2>3, <3>1, <3>2, Sizes
    <3>4. Allocated' = Allocated \cup {c}
      BY <3>3 DEF Allocated
    <3>5. InFiles' = InFiles
      BY <1>3, <2>4, <3>1, SameDirs DEF InFiles
    <3>6. Allocated = InFiles \cup NewChain
      BY <1>1, <3>1 DEF AccountInv
    <3> QED
      BY <2>3, <3>1, <3>4, <3>5, <3>6 DEF AccountInv
  <2>7. LabelsInv'
    <3> SUFFICES ASSUME Safe'
                 PROVE  LabelsInv'
      BY DEF LabelsInv
    <3>1. Safe
      BY <2>1 DEF Safe
    <3>2. /\ OnDisk({c}) => Label(data', c) = <<op.name, op.written + 1>>
          /\ \A x \in Clusters \ {c} : data'[x] = data[x]
      <4>2. /\ OnDisk({c}) => data' = [data EXCEPT ![c][0] = <<op.name, op.written + 1>>]
            /\ ~OnDisk({c}) => data' = data
        BY <1>2 DEF ChunkWritten, OnDisk
      <4>3. data \in [Clusters -> [SectorNos -> Names \X (0 .. MaxChunks)]]
        BY <1>1 DEF Types
      <4>4. 0 \in SectorNos
        BY FatAssumption DEF SectorNos
      <4> QED
        BY <4>2, <4>3, <4>4 DEF Label
    <3>3. op'.written = op.written + 1 /\ op'.name = op.name /\ op.written \in Nat
      BY <1>3, <1>4, Sizes DEF CallType
    <3>4. \A e \in Live' : LabelledEntry(e)'
      <4>1. Live' = Live /\ \A e : Entry(e)' = Entry(e)
        BY <1>3, SameDirs
      <4>2. \A e \in Live' : \A x \in ChainAt(e) : fatTable'[x] = fatTable[x] /\ data'[x] = data[x]
        BY <2>4, <3>1, <3>2
      <4> QED
        BY <1>1, <3>1, <4>1, <4>2, EntriesKept
    <3>5. c \notin NewChain /\ NewChain \subseteq Clusters
      <4>1. \A x \in NewChain : fatTable[x] # Free
        BY <1>1, <3>1 DEF ChainsInv, NewChain, Holds
      <4> QED
        BY <2>1, <4>1, ChainIs DEF NewChain
    <3>6. /\ NewChain' = NewChain \cup {c} /\ fatTable'[c] = EndOfChain
          /\ NewChain' = Chain(fatTable', op'.start)
          /\ OnDisk(NewChain') => OnDisk(NewChain) /\ OnDisk({c})
      BY <2>2, <2>3, <3>1 DEF NewChain, OnDisk
    <3>7. LastWritten'
      <4> SUFFICES ASSUME OnDisk(NewChain')
                   PROVE  LastWritten'
        BY DEF LastWritten, OnDisk
      <4>1. \A x \in NewChain : \A j \in Nat :
              Label(data', x) = <<op.name, j>> => j < op.written + 1
        <5>1. \A x \in NewChain : Label(data', x) = Label(data, x)
          BY <3>2, <3>5 DEF Label
        <5>2. CASE op.start = NoCluster
          BY <2>2, <5>2 DEF NewChain
        <5>3. CASE op.start # NoCluster
          <6>1. LastWritten /\ OnDisk(NewChain)
            BY <1>1, <1>3, <2>2, <3>1, <3>6, <5>3 DEF LabelsInv
          <6> QED
            BY <3>3, <5>1, <6>1 DEF LastWritten
        <5> QED
          BY <5>2, <5>3
      <4> QED
        BY <1>5, <3>2, <3>3, <3>6, <4>1 DEF LastWritten
    <3>8. Labelled(fatTable', data', op'.start, op'.written, op'.name)
      <4> SUFFICES ASSUME OnDisk(NewChain')
                   PROVE  Labelled(fatTable', data', op'.start, op'.written, op'.name)
        BY <3>6 DEF Labelled
      <4>1. OnDisk(NewChain) /\ Label(data', c) = <<op.name, op.written + 1>>
        BY <3>2, <3>6
      <4>2. CASE op.start = NoCluster
        <5>1. op.written = 0 /\ op'.start = c
          BY <1>1, <1>3, <1>5, <2>2, <3>1, <4>2 DEF LabelsInv
        <5> QED
          BY <3>3, <4>1, <5>1 DEF Labelled
      <4>3. CASE op.start # NoCluster
        <5>1. /\ Labelled(fatTable, data, op.start, op.written, op.name)
              /\ LastWritten /\ op.written # 0
              /\ op'.start = op.start /\ op.prev \in NewChain
              /\ NewChain = Chain(fatTable, op.start)
          BY <1>1, <1>3, <1>5, <2>2, <3>1, <4>3 DEF LabelsInv, ChainsInv, NewChain
        <5>2. /\ op.start \in Clusters /\ Label(data, op.start) = <<op.name, 1>>
              /\ op.start \in NewChain
              /\ \A x \in NewChain : fatTable[x] \in Clusters => fatTable[x] \in NewChain
          BY <4>1, <5>1, ChainIs DEF Labelled, Closed
        <5>3. \A x \in NewChain : Label(data', x) = Label(data, x)
          BY <3>2, <3>5 DEF Label
        <5>4. ASSUME NEW x \in NewChain', NEW j \in 1 .. op.written,
                     Label(data', x) = <<op.name, j>>
              PROVE  fatTable'[x] \in Clusters /\ Label(data', fatTable'[x]) = <<op.name, j + 1>>
          <6>1. x # c
            BY <3>3, <4>1, <5>4
          <6>2. x \in NewChain /\ Label(data, x) = <<op.name, j>>
            BY <3>6, <5>3, <5>4, <6>1
          <6>3. CASE x = op.prev
            <7>1. j = op.written
              BY <4>1, <5>1, <6>2, <6>3 DEF LastWritten
            <7>2. fatTable'[x] = c
              BY <2>3, <3>1, <3>5, <5>1, <6>3
            <7> QED
              BY <4>1, <7>1, <7>2
          <6>4. CASE x # op.prev
            <7>1. j \in 1 .. op.written - 1
              BY <3>3, <4>1, <5>1, <6>2, <6>4 DEF LastWritten
            <7>2. fatTable[x] \in Clusters /\ Label(data, fatTable[x]) = <<op.name, j + 1>>
              BY <4>1, <5>1, <6>2, <7>1 DEF Labelled
            <7>3. fatTable'[x] = fatTable[x]
              BY <2>3, <3>1, <3>5, <6>1, <6>2, <6>4
            <7> QED
              BY <5>2, <5>3, <6>2, <7>2, <7>3
          <6> QED
            BY <6>3, <6>4
        <5>5. op'.written - 1 = op.written
          BY <3>3
        <5>6. Label(data', op'.start) = <<op'.name, 1>> /\ op'.start \in Clusters
          BY <3>3, <5>1, <5>2, <5>3
        <5> QED
          BY <3>3, <3>6, <5>4, <5>5, <5>6 DEF Labelled
      <4> QED
        BY <4>2, <4>3
    <3> QED
      BY <2>2, <3>3, <3>4, <3>7, <3>8 DEF LabelsInv
  <2> QED
    BY <1>7, <1>8, <1>9, <1>10, <2>5, <2>6, <2>7 DEF IInv
<1> QED
  BY <1>11, <1>12

-----------------------------------------------------------------------------
(* Operations that write the table, and what a boot reads.                 *)

(* The memory after a boot is the first copy.                              *)
LEMMA PowerLossStep ==
  ASSUME IInv, PowerLoss
  PROVE  IInv'
<1>1. /\ Types /\ CallInv /\ CopiesInv /\ NothingBehindEnd
      /\ CurrentDirExists /\ ChainsInv /\ AccountInv /\ LabelsInv
  BY DEF IInv
<1>2. /\ UNCHANGED <<diskVars, dirs, fat, data>>
      /\ fatTable' = fat[1] /\ cwd' = "root" /\ op' = NoCall /\ pc' = "idle"
      /\ sector' = 0 /\ next' = "idle" /\ losses' \in 0 .. MaxLosses
      /\ events' = events \cup {"power loss"}
                          \cup IF TouchWindow THEN {"torn touch"} ELSE {}
  <2>1. losses \in 0 .. MaxLosses /\ losses < MaxLosses /\ losses' = losses + 1
    BY <1>1 DEF PowerLoss, Types
  <2>2. losses' \in 0 .. MaxLosses
    BY <2>1, Sizes
  <2> QED
    BY <2>2 DEF PowerLoss, diskVars
<1>3. Types' /\ NothingBehindEnd'
  <2>1. 0 \in 0 .. 2 * FatSectors - 1
    BY Sizes
  <2> QED
    BY <1>1, <1>2, <2>1, SameDirs, NoCallIs DEF Types
<1>4. CallInv'
  BY <1>2, NoCallIs DEF CallInv
<1>5. CopiesInv'
  BY <1>2 DEF CopiesInv, Agree
<1>6. CurrentDirExists'
  BY <1>2 DEF CurrentDirExists
<1>7. ~Pending' /\ NewChain' = {}
  BY <1>2, NoCallIs DEF Pending, NewChain
<1>8. ChainsInv'
  <2> SUFFICES ASSUME Safe'
               PROVE  ChainsInv'
    BY DEF ChainsInv
  <2>1. Safe /\ ~TouchWindow
    BY <1>2 DEF Safe
  <2>2. Live' = Live /\ \A e : Entry(e)' = Entry(e)
    BY <1>2, SameDirs
  <2>3. \A e \in Live : \A x \in ChainAt(e) : fatTable'[x] = fatTable[x]
    BY <1>1, <1>2, <2>1 DEF ChainsInv
  <2>4. /\ \A e \in Live' : ChainAt(e)' = ChainAt(e) /\ Holds(Entry(e).start)'
        /\ \A e, f \in Live' : e # f => ChainAt(e)' \cap ChainAt(f)' = {}
    BY <1>1, <2>1, <2>2, <2>3, FilesKept
  <2>5. pc' # "chunk" /\ fat[1]' = fatTable'
    BY <1>2
  <2> QED
    BY <1>7, <2>4, <2>5 DEF ChainsInv
<1>9. AccountInv'
  BY <1>2 DEF AccountInv
<1>10. LabelsInv'
  <2> SUFFICES ASSUME Safe'
               PROVE  LabelsInv'
    BY DEF LabelsInv
  <2>1. Safe /\ ~TouchWindow
    BY <1>2 DEF Safe
  <2>2. Live' = Live /\ \A e : Entry(e)' = Entry(e)
    BY <1>2, SameDirs
  <2>3. \A e \in Live' : \A x \in ChainAt(e) : fatTable'[x] = fatTable[x] /\ data'[x] = data[x]
    BY <1>1, <1>2, <2>1, <2>2 DEF ChainsInv
  <2>4. \A e \in Live' : LabelledEntry(e)'
    BY <1>1, <2>1, <2>2, <2>3, EntriesKept
  <2> QED
    BY <1>2, <1>7, <2>4 DEF LabelsInv
<1> QED
  BY <1>10, <1>3, <1>4, <1>5, <1>6, <1>8, <1>9 DEF IInv

(* Which copy, and which part of it, a sector of updateFatTable is.        *)
LEMMA SectorOf ==
  ASSUME NEW k \in Nat, NEW s \in Nat
  PROVE  /\ s = 2 * k => 1 + (s % 2) = 1 /\ s \div 2 = k
         /\ s = 2 * k + 1 => 1 + (s % 2) = 2 /\ s \div 2 = k
         /\ 2 * k < s + 1 => 2 * k < s \/ s = 2 * k
         /\ 2 * k + 1 < s + 1 => 2 * k + 1 < s \/ s = 2 * k + 1
         /\ 1 + (s % 2) \in {1, 2}
OBVIOUS

(* One sector brings the copies as far as CopiesInv says.                  *)
LEMMA SectorCopied ==
  ASSUME Types, CopiesInv, pc = "fat", FatSectorWritten(1 + (sector % 2))
  PROVE  /\ fat' = <<fat'[1], fat'[2]>> /\ fat'[1] \in Table /\ fat'[2] \in Table
         /\ \A c \in Clusters : /\ fat'[1][c] \in {fat[1][c], fatTable[c]}
                                /\ fat'[2][c] \in {fat[2][c], fatTable[c]}
         /\ \A c \in Clusters :
              /\ 2 * (c \div EntriesPerSector) < sector + 1 => fat'[1][c] = fatTable[c]
              /\ 2 * (c \div EntriesPerSector) + 1 < sector + 1 => fat'[2][c] = fatTable[c]
<1> DEFINE new(copy) == [c \in Clusters |->
                           IF c \div EntriesPerSector = sector \div 2
                             THEN fatTable[c] ELSE fat[copy][c]]
<1>1. /\ fatTable \in Table /\ fat[1] \in Table /\ fat[2] \in Table
      /\ fat = <<fat[1], fat[2]>> /\ sector \in Nat
  <2>1. sector \in 0 .. 2 * FatSectors - 1
    BY DEF Types
  <2>2. sector \in Nat
    BY <2>1, Sizes
  <2> QED
    BY <2>2 DEF Types
<1>2. \A c \in Clusters : c \div EntriesPerSector \in Nat
  BY Sizes
<1>3. \A c \in Clusters :
        /\ 2 * (c \div EntriesPerSector) < sector => fat[1][c] = fatTable[c]
        /\ 2 * (c \div EntriesPerSector) + 1 < sector => fat[2][c] = fatTable[c]
  BY DEF CopiesInv
<1>4. new(1) \in Table /\ new(2) \in Table
  BY <1>1 DEF Table
<1>5. CASE 1 + (sector % 2) = 1
  <2>1. fat' = <<new(1), fat[2]>>
    BY <1>1, <1>5 DEF FatSectorWritten
  <2>2. \A c \in Clusters :
          2 * (c \div EntriesPerSector) < sector + 1 => new(1)[c] = fatTable[c]
    BY <1>1, <1>2, <1>3, SectorOf
  <2>3. \A c \in Clusters :
          2 * (c \div EntriesPerSector) + 1 < sector + 1 => fat[2][c] = fatTable[c]
    BY <1>1, <1>2, <1>3, <1>5, SectorOf
  <2>4. \A c \in Clusters : new(1)[c] \in {fat[1][c], fatTable[c]}
    OBVIOUS
  <2> HIDE DEF new
  <2> QED
    BY <1>1, <1>4, <2>1, <2>2, <2>3, <2>4
<1>6. CASE 1 + (sector % 2) = 2
  <2>1. fat' = <<fat[1], new(2)>>
    BY <1>1, <1>6 DEF FatSectorWritten
  <2>2. \A c \in Clusters :
          2 * (c \div EntriesPerSector) < sector + 1 => fat[1][c] = fatTable[c]
    BY <1>1, <1>2, <1>3, <1>6, SectorOf
  <2>3. \A c \in Clusters :
          2 * (c \div EntriesPerSector) + 1 < sector + 1 => new(2)[c] = fatTable[c]
    BY <1>1, <1>2, <1>3, SectorOf
  <2>4. \A c \in Clusters : new(2)[c] \in {fat[2][c], fatTable[c]}
    OBVIOUS
  <2> HIDE DEF new
  <2> QED
    BY <1>1, <1>4, <2>1, <2>2, <2>3, <2>4
<1> QED
  BY <1>1, <1>5, <1>6, SectorOf

(* The last sector is behind every cluster of the table.                   *)
LEMMA LastSector ==
  ASSUME NEW c \in Clusters, NEW s \in Nat, s + 1 >= 2 * FatSectors
  PROVE  /\ 2 * (c \div EntriesPerSector) < s + 1
         /\ 2 * (c \div EntriesPerSector) + 1 < s + 1
<1>1. /\ FatSectors \in Nat /\ EntriesPerSector \in Nat \ {0} /\ c \in Nat
      /\ c < FatSectors * EntriesPerSector
  <2>1. FatSectors * EntriesPerSector \in Nat
    BY Sizes
  <2> QED
    BY <2>1, Sizes DEF Clusters
<1>2. c \div EntriesPerSector < FatSectors
  <2> DEFINE q == c \div EntriesPerSector
  <2>1. q \in Nat /\ q * EntriesPerSector <= c
    BY <1>1
  <2>2. q >= FatSectors => q * EntriesPerSector >= FatSectors * EntriesPerSector
    BY <1>1, <2>1
  <2>3. q * EntriesPerSector \in Nat /\ FatSectors * EntriesPerSector \in Nat
    BY <1>1, <2>1
  <2> HIDE DEF q
  <2>4. q < FatSectors
    BY <1>1, <2>1, <2>2, <2>3
  <2> QED
    BY <2>4 DEF q
<1>3. c \div EntriesPerSector \in Nat
  BY <1>1
<1> QED
  BY <1>1, <1>2, <1>3

(* updateFatTable writes a sector.                                         *)
LEMMA WriteFatStep ==
  ASSUME IInv, WriteFat
  PROVE  IInv'
<1>1. /\ Types /\ CallInv /\ CopiesInv /\ NothingBehindEnd
      /\ CurrentDirExists /\ ChainsInv /\ AccountInv /\ LabelsInv
  BY DEF IInv
<1>2. /\ pc = "fat" /\ op \in CallType /\ op.written <= op.chunks
      /\ UNCHANGED <<dirs, data, fatTable, cwd, events, losses>>
      /\ sector \in Nat /\ sector < 2 * FatSectors
  <2>1. sector \in 0 .. 2 * FatSectors - 1
    BY <1>1 DEF Types
  <2>2. sector \in Nat /\ sector < 2 * FatSectors
    BY <2>1, Sizes
  <2> QED
    BY <1>1, <2>2 DEF WriteFat, history, Types
<1>3. /\ fat' = <<fat'[1], fat'[2]>> /\ fat'[1] \in Table /\ fat'[2] \in Table
      /\ \A c \in Clusters : /\ fat'[1][c] \in {fat[1][c], fatTable[c]}
                             /\ fat'[2][c] \in {fat[2][c], fatTable[c]}
      /\ \A c \in Clusters :
           /\ 2 * (c \div EntriesPerSector) < sector + 1 => fat'[1][c] = fatTable[c]
           /\ 2 * (c \div EntriesPerSector) + 1 < sector + 1 => fat'[2][c] = fatTable[c]
  BY <1>1, SectorCopied DEF WriteFat
<1>4. \/ /\ sector + 1 < 2 * FatSectors /\ sector' = sector + 1
         /\ UNCHANGED <<op, pc, next>>
      \/ /\ sector + 1 >= 2 * FatSectors /\ sector' = 0
         /\ pc' = next /\ op' = IF next = "idle" THEN NoCall ELSE op
         /\ next' = "idle"
  <2>1. sector + 1 < 2 * FatSectors \/ sector + 1 >= 2 * FatSectors
    BY <1>2, Sizes
  <2>2. FatWritten
    BY DEF WriteFat
  <2>3. ~(sector + 1 >= 2 * FatSectors /\ sector + 1 < 2 * FatSectors)
    BY <1>2, Sizes
  <2> QED
    BY <2>1, <2>2, <2>3 DEF FatWritten, Goto
<1>5. next \in {"idle", "sweep", "erase", "entry"}
  BY <1>1 DEF Types
<1>6. Types' /\ NothingBehindEnd'
  <2>1. sector' \in 0 .. 2 * FatSectors - 1
    BY <1>2, <1>4, Sizes
  <2>2. op' \in CallType /\ op'.written <= op'.chunks
    BY <1>2, <1>4, NoCallIs
  <2>3. /\ pc' \in {"idle", "chunk", "sweep", "erase", "fat", "entry", "outside"}
        /\ next' \in {"idle", "sweep", "erase", "entry"}
    BY <1>2, <1>4, <1>5
  <2> QED
    BY <1>1, <1>2, <1>3, <2>1, <2>2, <2>3, SameDirs DEF Types
<1>7. <<op.kind, next>> \in
        {<<"rm", "idle">>, <<"rmdir", "sweep">>, <<"create", "erase">>,
         <<"create", "entry">>, <<"write", "erase">>, <<"write", "entry">>,
         <<"touch", "entry">>, <<"touch", "idle">>}
  BY <1>1, <1>2 DEF CallInv
<1>8. CallInv'
  <2>1. CASE UNCHANGED <<op, pc, next>>
    BY <1>1, <1>2, <2>1 DEF CallInv
  <2>2. CASE /\ sector' = 0 /\ pc' = next /\ next' = "idle"
             /\ op' = IF next = "idle" THEN NoCall ELSE op
    <3>1. op.start = NoCluster => op.kind \in {"none", "rm", "rmdir"}
      BY <1>1, <1>2 DEF CallInv
    <3>2. op.kind \in {"none", "rm", "rmdir"} => op.start = NoCluster
      BY <1>1 DEF CallInv
    <3> QED
      BY <1>7, <2>2, <3>1, <3>2, NoCallIs DEF CallInv
  <2> QED
    BY <1>4, <2>1, <2>2
<1>9. ASSUME pc' # "fat"
      PROVE  Agree'
  <2>1. sector + 1 >= 2 * FatSectors
    BY <1>2, <1>4, <1>9
  <2>2. \A c \in Clusters : fat'[1][c] = fatTable[c] /\ fat'[2][c] = fatTable[c]
    BY <1>2, <1>3, <2>1, LastSector
  <2>3. fatTable \in Table
    BY <1>1 DEF Types
  <2>4. fat'[1] = fatTable /\ fat'[2] = fatTable
    BY <1>3, <2>2, <2>3 DEF Table
  <2> QED
    BY <1>2, <2>4 DEF Agree
<1>10. CopiesInv'
  <2>1. CASE pc' = "fat"
    <3>1. sector' = sector + 1
      BY <1>4, <1>5, <2>1
    <3> QED
      BY <1>2, <1>3, <2>1, <3>1 DEF CopiesInv
  <2>2. CASE pc' # "fat"
    BY <1>9, <2>2 DEF CopiesInv
  <2> QED
    BY <2>1, <2>2
<1>11. CurrentDirExists'
  BY <1>1, <1>2, SameDirs DEF CurrentDirExists
<1>12. /\ pc' # "chunk"
       /\ Pending' => Pending /\ op'.start = op.start
       /\ Pending => Pending'
       /\ TouchWindow /\ ~TouchWindow' => pc' # "fat"
  <2>1. CASE UNCHANGED <<op, pc, next>>
    BY <1>2, <2>1 DEF Pending, TouchWindow
  <2>2. CASE /\ pc' = next /\ next' = "idle"
             /\ op' = IF next = "idle" THEN NoCall ELSE op
    <3>1. op.kind \in {"none", "rm", "rmdir"} => op.start = NoCluster
      BY <1>1 DEF CallInv
    <3> QED
      BY <1>2, <1>7, <2>2, <3>1, NoCallIs DEF Pending, TouchWindow
  <2> QED
    BY <1>4, <2>1, <2>2
<1>13. /\ NewChain' = NewChain /\ Live' = Live /\ Safe' = Safe
       /\ \A e : Entry(e)' = Entry(e) /\ ChainAt(e)' = ChainAt(e)
       /\ \A c : Holds(c)' = Holds(c)
  BY <1>2, <1>12, SameDirs DEF NewChain, Safe, ChainAt, Holds
<1>14. ChainsInv'
  <2> SUFFICES ASSUME Safe'
               PROVE  ChainsInv'
    BY DEF ChainsInv
  <2>1. /\ \A e \in Live' : Holds(Entry(e).start)'
        /\ \A e, f \in Live' : e # f => ChainAt(e)' \cap ChainAt(f)' = {}
        /\ Pending' => Holds(op.start)' /\ \A e \in Live' : ChainAt(e)' \cap NewChain' = {}
    BY <1>1, <1>12, <1>13 DEF ChainsInv
  <2>2. ASSUME ~TouchWindow'
        PROVE  \A e \in Live' : \A x \in ChainAt(e)' : fat[1]'[x] = fatTable'[x]
    <3>1. CASE TouchWindow
      <4>1. fat[1]' = fatTable'
        BY <1>9, <1>12, <2>2, <3>1 DEF Agree
      <4> QED
        BY <4>1
    <3>2. CASE ~TouchWindow
      <4>1. \A e \in Live : \A x \in ChainAt(e) :
              x \in Clusters /\ fat[1][x] = fatTable[x]
        BY <1>1, <1>13, <3>2, ChainIs DEF ChainsInv, ChainAt
      <4> QED
        BY <1>2, <1>3, <1>13, <4>1
    <3> QED
      BY <3>1, <3>2
  <2> QED
    BY <1>12, <2>1, <2>2 DEF ChainsInv
<1>15. AccountInv'
  <2>1. Allocated' = Allocated /\ InFiles' = InFiles
    BY <1>2, <1>13 DEF Allocated, InFiles
  <2> QED
    BY <1>1, <1>2, <1>13, <2>1 DEF AccountInv
<1>16. LabelsInv'
  <2>1. Pending' => Pending /\ op' = op
    <3>1. CASE UNCHANGED <<op, pc, next>>
      BY <3>1 DEF Pending, TouchWindow
    <3>2. CASE next = "idle" /\ op' = NoCall
      BY <3>2, NoCallIs DEF Pending
    <3>3. CASE next # "idle" /\ op' = op
      BY <3>3 DEF Pending, TouchWindow
    <3> QED
      BY <1>4, <3>1, <3>2, <3>3
  <2>2. pc' # "chunk"
    BY <1>2, <1>4, <1>5
  <2> QED
    BY <1>1, <1>2, <2>1, <2>2, SameLabels DEF Safe
<1> QED
  BY <1>16, <1>6, <1>8, <1>10, <1>11, <1>14, <1>15 DEF IInv

-----------------------------------------------------------------------------
(* Operations that store an entry.                                         *)

(* What a stored entry changes: the slot, and whether it is in use.        *)
LEMMA StoredEntry ==
  ASSUME Types, NEW p \in Dirs, NEW i \in Slots[p], NEW entry \in DirEntry,
         Stored(p, i, entry)
  PROVE  /\ \A q \in Dirs : \A j : j \in Used(q)' <=>
              IF q = p /\ j = i THEN entry.mark = "used" ELSE j \in Used(q)
         /\ \A q \in Dirs : \A j \in Slots[q] :
              Entry(<<q, j>>)' = IF q = p /\ j = i THEN entry ELSE Entry(<<q, j>>)
<1>1. \A q \in Dirs : \A j \in Slots[q] :
        dirs'[q][j] = IF q = p /\ j = i THEN entry ELSE dirs[q][j]
  BY StoredSlot
<1>2. \A q \in Dirs : \A j : j \in Used(q)' <=> j \in Slots[q] /\ dirs'[q][j].mark = "used"
  BY DEF Used, Slots
<1>3. \A q \in Dirs : \A j : j \in Used(q) <=> j \in Slots[q] /\ dirs[q][j].mark = "used"
  BY DEF Used, Slots
<1>4. \A q \in Dirs : \A j \in Slots[q] :
        Entry(<<q, j>>)' = dirs'[q][j] /\ Entry(<<q, j>>) = dirs[q][j]
  BY DEF Entry
<1> QED
  BY <1>1, <1>2, <1>3, <1>4

(* An entry stored where delete_ and findFirstFreeEntry store one.         *)
LEMMA StoredBehind ==
  ASSUME Types, NothingBehindEnd, NEW p \in Dirs, NEW i \in Slots[p],
         NEW entry \in DirEntry, Stored(p, i, entry), entry.mark # "end",
         dirs[p][i].mark = "used" \/ (FreeSlot(i) /\ cwd = p)
  PROVE  NothingBehindEnd'
<1>1. \A q \in Dirs : \A j \in Slots[q] :
        dirs'[q][j] = IF q = p /\ j = i THEN entry ELSE dirs[q][j]
  BY StoredSlot
<1>2. \A q \in Dirs : \A j, k \in Slots[q] :
        dirs[q][j].mark = "end" /\ j < k => dirs[q][k].mark = "end"
  BY SlotSets DEF NothingBehindEnd
<1>3. \A j \in Slots[p] : j < i => dirs[p][j].mark # "end"
  <2> TAKE j \in Slots[p]
  <2> HAVE j < i
  <2>1. CASE dirs[p][i].mark = "used"
    BY <1>2, <2>1
  <2>2. CASE FreeSlot(i) /\ cwd = p
    <3>1. \A k \in Slots[p] \ Used(p) : i <= k
      BY <2>2 DEF FreeSlot, Least
    <3>2. j \in Nat /\ i \in Nat
      BY SlotSets
    <3>3. j \in Used(p)
      BY <3>1, <3>2
    <3> QED
      BY <3>3 DEF Used
  <2> QED
    BY <2>1, <2>2
<1>4. \A q \in Dirs : \A j, k \in Slots[q] :
        dirs'[q][j].mark = "end" /\ j < k => dirs'[q][k].mark = "end"
  BY <1>1, <1>2, <1>3
<1> QED
  BY <1>4, SlotSets DEF NothingBehindEnd, Slots, Places

(* findFirstFreeEntry.                                                     *)
LEMMA WriteEntryStep ==
  ASSUME IInv, WriteEntry
  PROVE  IInv'
<1> DEFINE entry == Slot("used", op.name, "file", op.start, op.written)
<1>1. /\ Types /\ CallInv /\ CopiesInv /\ NothingBehindEnd
      /\ CurrentDirExists /\ ChainsInv /\ AccountInv /\ LabelsInv
  BY DEF IInv
<1>2. /\ pc = "entry" /\ sector = 0 /\ next = "idle"
      /\ UNCHANGED <<fat, data, fatTable, cwd, sector, next, losses>>
      /\ op \in CallType /\ op.written <= op.chunks /\ cwd \in Dirs
      /\ op.kind \in {"touch", "create", "write"} /\ op.start \in Clusters
  <2>1. op.start # NoCluster
    BY <1>1 DEF CallInv, WriteEntry
  <2> QED
    BY <1>1, <2>1 DEF WriteEntry, CallInv, Types, CallType, Dirs
<1>3. IF op.kind = "touch" THEN pc' = "fat" /\ op' = op
                           ELSE pc' = "idle" /\ op' = NoCall
  BY DEF WriteEntry, Goto
<1>4. \/ events' = events \cup {"lost clusters"} /\ dirs' = dirs
      \/ events' = events /\ \E i \in Slots[cwd] : FreeSlot(i) /\ Stored(cwd, i, entry)
  BY DEF WriteEntry, Stored
<1>5. entry \in DirEntry /\ entry.mark = "used" /\ entry.attr = "file"
      /\ entry.start = op.start /\ entry.size = op.written /\ entry.name = op.name
  <2>1. op.written \in 0 .. MaxChunks /\ op.name \in Names
    BY <1>2 DEF CallType
  <2> QED
    BY <1>2, <2>1 DEF Slot, DirEntry
<1> HIDE DEF entry
<1>6. /\ ~Pending' /\ NewChain' = {}
      /\ Pending /\ NewChain = Chain(fatTable, op.start)
      /\ ~TouchWindow /\ (~TouchWindow' => op.kind # "touch")
      /\ pc' # "chunk"
  BY <1>2, <1>3, NoCallIs, Sizes DEF Pending, NewChain, TouchWindow
<1>7. op' \in CallType /\ op'.written <= op'.chunks
  BY <1>2, <1>3, NoCallIs
<1>8. CallInv'
  BY <1>2, <1>3, NoCallIs, Sizes DEF CallInv
<1>9. CopiesInv'
  <2>1. CASE op.kind = "touch"
    BY <1>2, <1>3, <2>1, NothingWritten
  <2>2. CASE op.kind # "touch"
    <3>1. Agree
      BY <1>1, <1>2, <2>2 DEF CopiesInv
    <3>2. Agree'
      BY <1>2, <1>4, <3>1 DEF Agree
    <3> QED
      BY <1>3, <2>2, <3>2 DEF CopiesInv
  <2> QED
    BY <2>1, <2>2
<1>10. \A e : ~TouchWindow' => \A x \in Clusters : fat[1]'[x] = fatTable'[x]
  BY <1>1, <1>2, <1>6 DEF CopiesInv, Agree
<1>11. ASSUME events' = events \cup {"lost clusters"}, dirs' = dirs
       PROVE  IInv'
  <2>1. Types' /\ NothingBehindEnd'
    BY <1>1, <1>2, <1>3, <1>7, <1>11, SameDirs DEF Types
  <2>2. CurrentDirExists'
    BY <1>1, <1>2, <1>11, SameDirs DEF CurrentDirExists
  <2>3. /\ Live' = Live /\ Safe' = Safe
        /\ \A e : Entry(e)' = Entry(e) /\ ChainAt(e)' = ChainAt(e)
        /\ \A c : Holds(c)' = Holds(c)
    BY <1>2, <1>11, SameDirs DEF Safe, ChainAt, Holds
  <2>4. \A e : ChainAt(e) \subseteq Clusters
    BY ChainIs DEF ChainAt
  <2>5. ChainsInv'
    BY <1>1, <1>6, <1>10, <2>3, <2>4 DEF ChainsInv
  <2>6. AccountInv'
    BY <1>11 DEF AccountInv
  <2>7. LabelsInv'
    BY <1>1, <1>2, <1>6, <1>11, <2>3, SameLabels
  <2> QED
    BY <1>8, <1>9, <2>1, <2>2, <2>5, <2>6, <2>7 DEF IInv
<1>12. ASSUME NEW i \in Slots[cwd], events' = events, FreeSlot(i), Stored(cwd, i, entry)
       PROVE  IInv'
  <2>1. Types'
    <3>1. /\ DOMAIN dirs' = {"root", "sub"}
          /\ dirs'["root"] \in [Slots.root -> DirEntry]
          /\ dirs'["sub"] \in [Slots.sub -> DirEntry]
      BY <1>1, <1>2, <1>5, <1>12, StoredSlot
    <3> QED
      BY <1>1, <1>2, <1>3, <1>7, <1>12, <3>1 DEF Types
  <2>2. NothingBehindEnd'
    BY <1>1, <1>2, <1>5, <1>12, StoredBehind
  <2>3. /\ \A q \in Dirs : \A j : j \in Used(q)' <=> (q = cwd /\ j = i) \/ j \in Used(q)
        /\ \A q \in Dirs : \A j \in Slots[q] :
             Entry(<<q, j>>)' = IF q = cwd /\ j = i THEN entry ELSE Entry(<<q, j>>)
        /\ i \notin Used(cwd)
    BY <1>1, <1>2, <1>5, <1>12, StoredEntry DEF FreeSlot, Least
  <2>4. \A q \in Dirs : Used(q) \subseteq Slots[q]
    BY DEF Used
  <2>5. SubExists' <=> SubExists
    <3>1. \A j : j \in Used("root") => j \in Used("root")' /\ dirs'["root"][j] = dirs["root"][j]
      BY <2>3, <2>4 DEF Entry, Dirs
    <3>2. \A j : j \in Used("root")' => \/ dirs'["root"][j].attr = "file"
                                        \/ j \in Used("root")
      BY <1>2, <1>5, <2>3 DEF Entry, Dirs
    <3> QED
      BY <3>1, <3>2 DEF SubExists
  <2>6. CurrentDirExists'
    BY <1>1, <1>2, <2>5 DEF CurrentDirExists
  <2> PICK new : new = <<cwd, i>>
    OBVIOUS
  <2>7. \A e : e \in Live' <=> e \in Live \/ e = new
    <3>0. Reached'
      BY LiveIs, PTL
    <3>1. \A q \in Dirs : \A j : <<q, j>> \in Live' <=> j \in Used(q)' /\ (q = "sub" => SubExists')
      BY <3>0 DEF Reached
    <3>2. \A q \in Dirs : \A j : <<q, j>> \in Live <=> j \in Used(q) /\ (q = "sub" => SubExists)
      BY LiveIs DEF Reached
    <3>3. cwd = "sub" => SubExists
      BY <1>1 DEF CurrentDirExists
    <3>4. \A q \in Dirs : \A j : <<q, j>> \in Live' <=> <<q, j>> \in Live \/ (q = cwd /\ j = i)
      BY <2>3, <2>5, <3>1, <3>2, <3>3
    <3>5. \A e \in Live : \E q \in Dirs : \E j : e = <<q, j>>
      BY LivePairs
    <3>6. \A e \in Live' : \E q \in Dirs : \E j : e = <<q, j>>
      BY DEF Live, Dirs
    <3> QED
      BY <1>2, <3>4, <3>5, <3>6
  <2>8. new \notin Live
    BY <1>2, <2>3, LiveIs DEF Reached
  <2>9. \A e \in Live : Entry(e)' = Entry(e) /\ ChainAt(e)' = ChainAt(e)
    <3>1. \A e \in Live : Entry(e)' = Entry(e)
      <4> TAKE e \in Live
      <4>1. PICK q \in Dirs : \E j \in Used(q) : e = <<q, j>>
        BY LivePairs
      <4>2. PICK j \in Used(q) : e = <<q, j>>
        BY <4>1
      <4>3. ~(q = cwd /\ j = i) /\ j \in Slots[q]
        BY <2>3, <2>4
      <4> QED
        BY <2>3, <4>2, <4>3
    <3> QED
      BY <1>2, <3>1 DEF ChainAt
  <2>10. Entry(new)' = entry /\ ChainAt(new)' = NewChain
    <3>1. Entry(new)' = entry
      BY <1>2, <2>3
    <3>2. ChainAt(new)' = Chain(fatTable, op.start)
      BY <1>2, <1>5, <3>1 DEF ChainAt
    <3> QED
      BY <1>6, <3>1, <3>2
  <2>11. ChainsInv'
    <3> SUFFICES ASSUME Safe'
                 PROVE  ChainsInv'
      BY DEF ChainsInv
    <3>1. Safe
      BY <1>12 DEF Safe
    <3>2. \A e \in Live' : Holds(Entry(e).start)'
      <4>1. \A e \in Live : Holds(Entry(e).start)
        BY <1>1, <3>1 DEF ChainsInv
      <4>2. Holds(op.start)
        BY <1>1, <1>6, <3>1 DEF ChainsInv
      <4>3. \A c : Holds(c)' <=> Holds(c)
        BY <1>2 DEF Holds
      <4>4. \A e \in Live' : \/ Entry(e)' = Entry(e) /\ Holds(Entry(e).start)
                             \/ Entry(e)'.start = op.start
        BY <1>5, <2>7, <2>9, <2>10, <4>1
      <4> QED
        BY <1>2, <4>2, <4>4 DEF Holds
    <3>3. \A e, f \in Live' : e # f => ChainAt(e)' \cap ChainAt(f)' = {}
      <4>1. \A e, f \in Live : e # f => ChainAt(e) \cap ChainAt(f) = {}
        BY <1>1, <3>1 DEF ChainsInv
      <4>2. \A e \in Live : ChainAt(e) \cap NewChain = {}
        BY <1>1, <1>6, <3>1 DEF ChainsInv
      <4> QED
        BY <2>7, <2>8, <2>9, <2>10, <4>1, <4>2
    <3>4. ~TouchWindow' => \A e \in Live' : \A x \in ChainAt(e)' : fat[1]'[x] = fatTable'[x]
      <4>1. \A e : ChainAt(e)' \subseteq Clusters
        BY ChainIs DEF ChainAt
      <4> QED
        BY <1>10, <4>1
    <3> QED
      BY <1>6, <3>2, <3>3, <3>4 DEF ChainsInv
  <2>12. AccountInv'
    <3> SUFFICES ASSUME events' = {}
                 PROVE  AccountInv'
      BY DEF AccountInv
    <3>1. Allocated' = Allocated
      BY <1>2 DEF Allocated
    <3>2. Allocated = InFiles \cup NewChain
      BY <1>1, <1>12 DEF AccountInv
    <3>3. InFiles' = InFiles \cup NewChain
      BY <2>7, <2>9, <2>10 DEF InFiles
    <3> QED
      BY <1>6, <3>1, <3>2, <3>3 DEF AccountInv
  <2>13. LabelsInv'
    <3> SUFFICES ASSUME Safe'
                 PROVE  LabelsInv'
      BY DEF LabelsInv
    <3>1. Safe
      BY <1>12 DEF Safe
    <3>2. \A e \in Live : LabelledEntry(e)'
      BY <1>1, <1>2, <2>9, <3>1 DEF LabelsInv, LabelledEntry
    <3>3. LabelledEntry(new)'
      <4>1. Labelled(fatTable, data, op.start, op.written, op.name)
        BY <1>1, <1>6, <3>1 DEF LabelsInv
      <4> QED
        BY <1>2, <1>5, <2>10, <4>1 DEF LabelledEntry
    <3> QED
      BY <1>6, <2>7, <3>2, <3>3 DEF LabelsInv
  <2> QED
    BY <1>8, <1>9, <2>1, <2>2, <2>6, <2>11, <2>12, <2>13 DEF IInv
<1> QED
  BY <1>4, <1>11, <1>12

(* delete_, where there is nothing of that name.                           *)
LEMMA EraseNothing ==
  ASSUME IInv, Erase, Victim(op.name) = {}
  PROVE  IInv'
<1>1. /\ Types /\ CallInv /\ CopiesInv /\ NothingBehindEnd
      /\ CurrentDirExists /\ ChainsInv /\ AccountInv /\ LabelsInv
  BY DEF IInv
<1>2. /\ pc = "erase" /\ op.kind # "none" /\ sector = 0 /\ next = "idle"
      /\ op \in CallType /\ op.written <= op.chunks
      /\ UNCHANGED <<diskVars, dirs, fat, fatTable, cwd, sector, next, events, losses>>
  BY <1>1 DEF Erase, CallInv, Types, diskVars
<1>3. \/ op.kind = "rm" /\ pc' = "idle" /\ op' = NoCall
      \/ op.kind = "rmdir" /\ pc' = "sweep" /\ op' = op
      \/ op.kind \in {"touch", "create", "write"} /\ pc' = "entry" /\ op' = op
  BY <1>2 DEF Erase, Goto, AfterErase, CallType
<1>4. /\ op.kind \in {"rm", "rmdir"} => op.start = NoCluster
      /\ op.start = NoCluster => op.kind \in {"none", "rm", "rmdir"}
  BY <1>1, <1>2 DEF CallInv
<1>5. Types' /\ NothingBehindEnd'
  BY <1>1, <1>2, <1>3, NoCallIs, SameDisk DEF Types, Dirs
<1>6. CallInv'
  BY <1>2, <1>3, <1>4, NoCallIs DEF CallInv
<1>7. CopiesInv'
  BY <1>1, <1>2, <1>3 DEF CopiesInv, Agree
<1>8. CurrentDirExists'
  BY <1>1, <1>2, SameDirs DEF CurrentDirExists
<1>9. ChainsInv' /\ AccountInv'
  BY <1>1, <1>2, <1>3, <1>4, NoCallIs, SameChains DEF TouchWindow
<1>10. LabelsInv'
  BY <1>1, <1>2, <1>3, NoCallIs, SameLabels DEF Pending, Safe, diskVars, TouchWindow
<1> QED
  BY <1>5, <1>6, <1>7, <1>8, <1>9, <1>10 DEF IInv

(* delete_, of an entry: its slot is erased and its chain freed.           *)
LEMMA EraseFound ==
  ASSUME IInv, Erase, Victim(op.name) # {}
  PROVE  IInv'
<1>1. /\ Types /\ CallInv /\ CopiesInv /\ NothingBehindEnd
      /\ CurrentDirExists /\ ChainsInv /\ AccountInv /\ LabelsInv
  BY DEF IInv
<1>2. /\ pc = "erase" /\ op.kind # "none" /\ sector = 0
      /\ op \in CallType /\ op.written <= op.chunks /\ cwd \in Dirs
      /\ UNCHANGED <<fat, cwd, sector, losses>>
  BY <1>1 DEF Erase, CallInv, Types, Dirs
<1>3. PICK v \in Victim(op.name) :
        /\ dirs' = [dirs EXCEPT ![v[1]][v[2]] = Erased]
        /\ fatTable' = FreeChain(fatTable, dirs[v[1]][v[2]].start)
        /\ data' = [c \in Clusters |->
             IF c \in Chain(fatTable, dirs[v[1]][v[2]].start) \ {op.prev}
               THEN [s \in SectorNos |-> NoSector] ELSE data[c]]
        /\ Goto("fat", op) /\ next' = AfterErase
        /\ events' = events \cup
             IF dirs[v[1]][v[2]].attr = "dir" /\ Used("sub") # {}
               THEN {"lost clusters"} ELSE {}
  BY DEF Erase
<1>40. PICK p \in Dirs : \E i \in Used(p) :
         /\ v = <<p, i>>
         /\ cwd = "sub" => p = "sub"
         /\ p = "sub" => cwd = "sub" \/ SubExists
  BY <1>2, VictimIs
<1>4. PICK i \in Used(p) :
        /\ v = <<p, i>>
        /\ cwd = "sub" => p = "sub"
        /\ p = "sub" => cwd = "sub" \/ SubExists
  BY <1>40
<1>5. /\ pc' = "fat" /\ op' = op /\ i \in Slots[p] /\ Erased \in DirEntry
      /\ Stored(p, i, Erased) /\ Entry(v) = dirs[p][i] /\ dirs[p][i].mark = "used"
      /\ \A x \in Clusters :
           fatTable'[x] = IF x \in ChainAt(v) THEN Free ELSE fatTable[x]
      /\ fatTable' \in [Clusters -> {fatTable[x] : x \in Clusters} \cup {Free}]
      /\ v \in Live
  <2>1. pc' = "fat" /\ op' = op
    BY <1>3 DEF Goto
  <2>2. Entry(v) = dirs[p][i] /\ i \in Slots[p] /\ dirs[p][i].mark = "used"
    BY <1>4 DEF Entry, Used
  <2>3. Stored(p, i, Erased)
    BY <1>3, <1>4 DEF Stored
  <2>4. /\ \A x \in Clusters :
             fatTable'[x] = IF x \in ChainAt(v) THEN Free ELSE fatTable[x]
        /\ fatTable' \in [Clusters -> {fatTable[x] : x \in Clusters} \cup {Free}]
    BY <1>3, <1>4, <2>2 DEF FreeChain, ChainAt
  <2>5. v \in Live
    BY <1>1, <1>4, LiveIs DEF Reached, CurrentDirExists
  <2> QED
    BY <2>1, <2>2, <2>3, <2>4, <2>5, Marks
<1>6. <<op.kind, next'>> \in {<<"rm", "idle">>, <<"rmdir", "sweep">>,
        <<"create", "entry">>, <<"write", "entry">>, <<"touch", "entry">>}
  BY <1>2, <1>3 DEF AfterErase, CallType
<1>7. Types'
  <2>1. fatTable' \in Table
    BY <1>1, <1>5 DEF Types, Table
  <2>2. data' \in [Clusters -> [SectorNos -> Names \X (0 .. MaxChunks)]]
    <3>1. NoSector \in Names \X (0 .. MaxChunks)
      BY Sizes DEF NoSector
    <3> DEFINE label == Names \X (0 .. MaxChunks)
               empty == [s \in SectorNos |-> NoSector]
               freed == Chain(fatTable, dirs[v[1]][v[2]].start) \ {op.prev}
    <3>2. empty \in [SectorNos -> label] /\ data \in [Clusters -> [SectorNos -> label]]
      BY <1>1, <3>1 DEF Types
    <3>3. data' = [c \in Clusters |-> IF c \in freed THEN empty ELSE data[c]]
      BY <1>3
    <3> HIDE DEF label, empty, freed
    <3>4. data' \in [Clusters -> [SectorNos -> label]]
      BY <3>2, <3>3
    <3> QED
      BY <3>4 DEF label
  <2>3. /\ DOMAIN dirs' = {"root", "sub"}
        /\ dirs'["root"] \in [Slots.root -> DirEntry]
        /\ dirs'["sub"] \in [Slots.sub -> DirEntry]
    BY <1>1, <1>5, StoredSlot
  <2>4. next' \in {"idle", "sweep", "erase", "entry"}
    BY <1>6
  <2>5. events' \subseteq {"overwrite", "lost clusters", "power loss", "torn touch"}
    BY <1>1, <1>3 DEF Types
  <2> QED
    BY <1>1, <1>2, <1>5, <2>1, <2>2, <2>3, <2>4, <2>5 DEF Types
<1>8. NothingBehindEnd'
  <2>1. Erased.mark # "end"
    BY Marks
  <2> QED
    BY <1>1, <1>5, <2>1, StoredBehind
<1>9. CallInv'
  <2>1. /\ op.start = NoCluster => op.kind \in {"none", "rm", "rmdir"}
        /\ op.kind \in {"none", "rm", "rmdir"} => op.start = NoCluster
    BY <1>1, <1>2 DEF CallInv
  <2> QED
    BY <1>5, <1>6, <2>1 DEF CallInv
<1>10. CopiesInv'
  BY <1>2, <1>5, NothingWritten
<1>11. /\ \A q \in Dirs : \A j : j \in Used(q)' <=> j \in Used(q) /\ ~(q = p /\ j = i)
       /\ \A q \in Dirs : \A j \in Slots[q] :
            ~(q = p /\ j = i) => Entry(<<q, j>>)' = Entry(<<q, j>>)
  BY <1>1, <1>4, <1>5, Marks, StoredEntry
<1>12. \A q \in Dirs : Used(q) \subseteq Slots[q]
  BY DEF Used
<1>13. \A j : j \in Used("root")' => j \in Used("root") /\ dirs'["root"][j] = dirs["root"][j]
  BY <1>11, <1>12 DEF Entry, Dirs
<1>14. SubExists' => SubExists
  BY <1>13 DEF SubExists
<1>15. p = "sub" \/ dirs[p][i].attr # "dir" => (SubExists => SubExists')
  <2>1. \A j \in Used("root") : ~(p = "root" /\ j = i) =>
          j \in Used("root")' /\ dirs'["root"][j] = dirs["root"][j]
    BY <1>11, <1>12 DEF Entry, Dirs
  <2> QED
    BY <2>1 DEF SubExists, Dirs
<1>16. CurrentDirExists'
  BY <1>1, <1>2, <1>4, <1>15 DEF CurrentDirExists
<1>17. /\ \A e \in Live' : e \in Live /\ e # v
       /\ (dirs[p][i].attr = "dir" => Used("sub") = {}) =>
            \A e \in Live : e # v => e \in Live'
  <2>0. Reached'
    BY LiveIs, PTL
  <2>1. \A q \in Dirs : \A j : <<q, j>> \in Live' <=> j \in Used(q)' /\ (q = "sub" => SubExists')
    BY <2>0 DEF Reached
  <2>2. \A q \in Dirs : \A j : <<q, j>> \in Live <=> j \in Used(q) /\ (q = "sub" => SubExists)
    BY LiveIs DEF Reached
  <2>3. \A q \in Dirs : \A j : <<q, j>> \in Live' => <<q, j>> \in Live /\ ~(q = p /\ j = i)
    BY <1>11, <1>14, <2>1, <2>2
  <2>4. (dirs[p][i].attr = "dir" => Used("sub") = {}) =>
          \A q \in Dirs : \A j :
            <<q, j>> \in Live /\ ~(q = p /\ j = i) => <<q, j>> \in Live'
    BY <1>11, <1>15, <2>1, <2>2 DEF Dirs
  <2>5. \A e \in Live : \E q \in Dirs : \E j : e = <<q, j>>
    BY LivePairs
  <2>6. \A e \in Live' : \E q \in Dirs : \E j : e = <<q, j>>
    BY DEF Live, Dirs
  <2>7. \A e \in Live' : e \in Live /\ e # v
    BY <1>4, <2>3, <2>6
  <2>8. (dirs[p][i].attr = "dir" => Used("sub") = {}) =>
          \A e \in Live : e # v => e \in Live'
    BY <1>4, <2>4, <2>5
  <2> QED
    BY <2>7, <2>8
<1>18. \A e \in Live' : Entry(e)' = Entry(e)
  <2> TAKE e \in Live'
  <2>1. e \in Live /\ e # v
    BY <1>17
  <2>2. PICK q \in Dirs : \E j \in Used(q) : e = <<q, j>>
    BY <2>1, LivePairs
  <2>3. PICK j \in Used(q) : e = <<q, j>>
    BY <2>2
  <2>4. ~(q = p /\ j = i) /\ j \in Slots[q]
    BY <1>4, <1>12, <2>1, <2>3
  <2> QED
    BY <1>11, <2>3, <2>4
<1>19. ASSUME Safe
       PROVE  /\ \A e \in Live' : ChainAt(e)' = ChainAt(e) /\ Holds(Entry(e).start)'
              /\ \A e, f \in Live' : e # f => ChainAt(e)' \cap ChainAt(f)' = {}
              /\ \A e \in Live' : \A x \in ChainAt(e) :
                   x \notin ChainAt(v) /\ x \in Clusters /\ fatTable'[x] = fatTable[x]
  <2>1. \A e \in Live' : \A x \in ChainAt(e) :
          x \notin ChainAt(v) /\ x \in Clusters
    BY <1>1, <1>5, <1>17, <1>19, ChainIs DEF ChainsInv, ChainAt
  <2>2. \A e \in Live' : \A x \in ChainAt(e) : fatTable'[x] = fatTable[x]
    BY <1>5, <2>1
  <2>3. Live' \subseteq Live
    BY <1>17
  <2> QED
    BY <1>1, <1>18, <1>19, <2>1, <2>2, <2>3, FilesKept
<1>20. Pending' = Pending /\ ~TouchWindow /\ ~TouchWindow'
  BY <1>2, <1>5, <1>6 DEF Pending, TouchWindow
<1>21. ASSUME Safe
       PROVE  /\ NewChain' = NewChain
              /\ \A x \in NewChain : x \in Clusters /\ fatTable'[x] = fatTable[x]
              /\ NewChain \cap ChainAt(v) = {}
  <2>1. CASE ~Pending
    BY <1>20, <2>1 DEF NewChain
  <2>2. CASE Pending
    <3>1. NewChain \cap ChainAt(v) = {} /\ NewChain = Chain(fatTable, op.start)
      BY <1>1, <1>5, <1>21, <2>2 DEF ChainsInv, NewChain
    <3>2. \A x \in NewChain : x \in Clusters /\ fatTable'[x] = fatTable[x]
      BY <1>5, <3>1, ChainIs
    <3>3. Chain(fatTable', op.start) = Chain(fatTable, op.start)
      BY <3>1, <3>2, ChainSame
    <3> QED
      BY <1>5, <1>20, <2>2, <3>1, <3>2, <3>3 DEF NewChain
  <2> QED
    BY <2>1, <2>2
<1>22. ChainsInv'
  <2> SUFFICES ASSUME Safe'
               PROVE  ChainsInv'
    BY DEF ChainsInv
  <2>1. Safe
    BY <1>3 DEF Safe
  <2>2. Pending' => Holds(op.start)'
    <3> SUFFICES ASSUME Pending'
                 PROVE  Holds(op.start)'
      OBVIOUS
    <3>1. Holds(op.start) /\ Pending
      BY <1>1, <1>20, <2>1 DEF ChainsInv
    <3>2. NewChain = Chain(fatTable, op.start) /\ NewChain' = Chain(fatTable', op'.start)
      BY <1>20, <3>1 DEF NewChain
    <3> QED
      BY <1>5, <1>21, <2>1, <3>1, <3>2 DEF Holds
  <2>3. Pending' => \A e \in Live' : ChainAt(e)' \cap NewChain' = {}
    BY <1>1, <1>17, <1>19, <1>20, <1>21, <2>1 DEF ChainsInv
  <2>4. \A e \in Live' : \A x \in ChainAt(e)' : fat[1]'[x] = fatTable'[x]
    <3>1. \A e \in Live : \A x \in ChainAt(e) : fat[1][x] = fatTable[x]
      BY <1>1, <1>20, <2>1 DEF ChainsInv
    <3> QED
      BY <1>2, <1>17, <1>19, <2>1, <3>1
  <2>5. pc' # "chunk"
    BY <1>5
  <2> QED
    BY <1>19, <2>1, <2>2, <2>3, <2>4, <2>5 DEF ChainsInv
<1>23. AccountInv'
  <2> SUFFICES ASSUME events' = {}
               PROVE  AccountInv'
    BY DEF AccountInv
  <2>1. /\ events = {} /\ Safe
        /\ dirs[p][i].attr = "dir" => Used("sub") = {}
    BY <1>3, <1>4 DEF Safe
  <2>2. Allocated = InFiles \cup NewChain
    BY <1>1, <2>1 DEF AccountInv
  <2>3. Allocated' = Allocated \ ChainAt(v)
    BY <1>5 DEF Allocated
  <2>4. InFiles = InFiles' \cup ChainAt(v)
    <3>1. \A e : e \in Live <=> e \in Live' \/ e = v
      BY <1>5, <1>17, <2>1
    <3>2. \A x : x \in InFiles <=> \E e \in Live : x \in ChainAt(e)
      BY DEF InFiles
    <3>3. \A x : x \in InFiles' <=> \E e \in Live' : x \in ChainAt(e)
      BY <1>19, <2>1 DEF InFiles
    <3> QED
      BY <3>1, <3>2, <3>3
  <2>5. InFiles' \cap ChainAt(v) = {}
    BY <1>19, <2>1 DEF InFiles
  <2> QED
    BY <1>21, <2>1, <2>2, <2>3, <2>4, <2>5 DEF AccountInv
<1>24. LabelsInv'
  <2> SUFFICES ASSUME Safe'
               PROVE  LabelsInv'
    BY DEF LabelsInv
  <2>1. Safe
    BY <1>3 DEF Safe
  <2>2. \A x \in Clusters : x \notin ChainAt(v) => data'[x] = data[x]
    BY <1>3, <1>4, <1>5 DEF ChainAt
  <2>3. \A e \in Live' : LabelledEntry(e)'
    BY <1>1, <1>17, <1>18, <1>19, <2>1, <2>2, EntriesKept
  <2>4. Pending' => Labelled(fatTable', data', op'.start, op'.written, op'.name)
    <3> SUFFICES ASSUME Pending'
                 PROVE  Labelled(fatTable', data', op.start, op.written, op.name)
      BY <1>5
    <3>1. Labelled(fatTable, data, op.start, op.written, op.name)
      BY <1>1, <1>20, <2>1 DEF LabelsInv
    <3>2. NewChain = Chain(fatTable, op.start)
      BY <1>20 DEF NewChain
    <3>3. \A x \in Chain(fatTable, op.start) : fatTable'[x] = fatTable[x] /\ data'[x] = data[x]
      BY <1>21, <2>1, <2>2, <3>2
    <3> QED
      BY <3>1, <3>3, LabelsSame
  <2>5. pc' # "chunk"
    BY <1>5
  <2> QED
    BY <2>3, <2>4, <2>5 DEF LabelsInv
<1> QED
  BY <1>24, <1>7, <1>8, <1>9, <1>10, <1>16, <1>22, <1>23 DEF IInv

(* delete_.                                                                *)
LEMMA EraseStep ==
  ASSUME IInv, Erase
  PROVE  IInv'
BY EraseNothing, EraseFound

-----------------------------------------------------------------------------
(* Theorems.                                                               *)

(* The disk a boot finds is a state of the invariant.                      *)
LEMMA InitStep == Init => IInv
<1> SUFFICES ASSUME Init
             PROVE  IInv
  OBVIOUS
<1> DEFINE entry == Slot("used", DirName, "dir", DirCluster, 0)
<1>1. /\ dirs = [root |-> [i \in 1 .. RootSlots |-> IF i = 1 THEN entry ELSE End],
                 sub  |-> [i \in 1 .. DirSlots |-> End]]
      /\ fatTable = [c \in Clusters |-> IF c = DirCluster THEN EndOfChain ELSE Free]
      /\ fat = <<fatTable, fatTable>>
      /\ data = [c \in Clusters |-> [s \in SectorNos |-> NoSector]]
      /\ cwd = "root" /\ op = NoCall /\ pc = "idle"
      /\ sector = 0 /\ next = "idle" /\ events = {} /\ losses = 0
  BY SlotSets DEF Init
<1>2. /\ entry \in DirEntry /\ entry.mark = "used" /\ entry.start = DirCluster
      /\ entry.size = 0
      /\ End \in DirEntry /\ End.mark = "end"
  BY Sizes, Marks DEF Slot, DirEntry
<1> HIDE DEF entry
<1>3. /\ dirs["root"] = [i \in Slots.root |-> IF i = 1 THEN entry ELSE End]
      /\ dirs["sub"] = [i \in Slots.sub |-> End]
      /\ DOMAIN dirs = {"root", "sub"}
      /\ 1 \in Slots.root
  BY <1>1, SlotSets, Sizes
<1>4. Types
  <2>1. fatTable \in Table
    BY <1>1, Sizes DEF Table
  <2>2. data \in [Clusters -> [SectorNos -> Names \X (0 .. MaxChunks)]]
    <3>1. NoSector \in Names \X (0 .. MaxChunks)
      BY Sizes DEF NoSector
    <3> QED
      BY <1>1, <3>1
  <2>3. 0 \in 0 .. 2 * FatSectors - 1 /\ 0 \in 0 .. MaxLosses
    BY Sizes
  <2> QED
    BY <1>1, <1>2, <1>3, <2>1, <2>2, <2>3, NoCallIs DEF Types
<1>5. CallInv /\ CurrentDirExists
  BY <1>1, NoCallIs DEF CallInv, CurrentDirExists
<1>6. CopiesInv
  BY <1>1 DEF CopiesInv, Agree
<1>7. NothingBehindEnd
  <2>1. \A j \in 1 .. RootSlots : \A k \in 1 .. RootSlots :
          dirs["root"][j].mark = "end" /\ j < k => dirs["root"][k].mark = "end"
    <3>1. \A j \in 1 .. RootSlots : j # 1 => dirs["root"][j].mark = "end"
      BY <1>2, <1>3, SlotSets
    <3>2. \A j, k \in 1 .. RootSlots : j < k => k # 1
      BY Sizes
    <3> QED
      BY <3>1, <3>2
  <2>2. \A j \in 1 .. DirSlots : dirs["sub"][j].mark = "end"
    BY <1>2, <1>3, SlotSets
  <2> QED
    BY <2>1, <2>2, SlotSets DEF NothingBehindEnd, Dirs
<1>8. Used("root") = {1} /\ Used("sub") = {}
  <2>1. \A i \in Slots.root : dirs["root"][i].mark = "used" <=> i = 1
    BY <1>2, <1>3
  <2>2. \A i \in Slots.sub : dirs["sub"][i].mark # "used"
    BY <1>2, <1>3
  <2>3. Slots["root"] = Slots.root /\ Slots["sub"] = Slots.sub
    BY SlotSets
  <2> QED
    BY <1>3, <2>1, <2>2, <2>3 DEF Used
<1>9. Live = {<<"root", 1>>}
  BY <1>8 DEF Live
<1>10. Entry(<<"root", 1>>).start = DirCluster
  BY <1>2, <1>3 DEF Entry
<1>11. ChainAt(<<"root", 1>>) = {DirCluster} /\ fatTable[DirCluster] = EndOfChain
  BY <1>1, <1>10, Sizes, ChainOfOne DEF ChainAt
<1>12. ~Pending /\ NewChain = {}
  BY <1>1, NoCallIs DEF Pending, NewChain
<1>13. ChainsInv
  <2>1. \A e \in Live : Holds(Entry(e).start)
    BY <1>9, <1>10, <1>11, Sizes DEF Holds, ChainAt
  <2>2. \A e, f \in Live : e # f => ChainAt(e) \cap ChainAt(f) = {}
    BY <1>9
  <2> QED
    BY <1>1, <1>12, <2>1, <2>2 DEF ChainsInv
<1>14. AccountInv
  <2>1. Allocated = {DirCluster}
    BY <1>1, Sizes DEF Allocated
  <2>2. InFiles = {DirCluster}
    BY <1>9, <1>11 DEF InFiles
  <2> QED
    BY <1>12, <2>1, <2>2 DEF AccountInv
<1>15. LabelsInv
  <2>1. Entry(<<"root", 1>>).size = 0
    BY <1>2, <1>3 DEF Entry
  <2>2. \A e \in Live : LabelledEntry(e)
    BY <1>9, <2>1 DEF LabelledEntry, Labelled
  <2> QED
    BY <1>1, <1>12, <2>2 DEF LabelsInv
<1> QED
  BY <1>15, <1>4, <1>5, <1>6, <1>7, <1>13, <1>14 DEF IInv

(* Every step keeps the invariant.                                         *)
LEMMA NextStep ==
  ASSUME IInv, [Next]_vars
  PROVE  IInv'
<1>1. CASE \E n \in Names : Touch(n)
  BY <1>1, TouchStep
<1>2. CASE \E n \in Names : Create(n)
  BY <1>2, CreateStep
<1>3. CASE \E n \in Names : RemoveFile(n)
  BY <1>3, RemoveStep
<1>4. CASE \E n \in Names : \E chunks \in 1 .. MaxChunks : Write(n, chunks)
  BY <1>4, WriteStep
<1>5. CASE StoreOutside
  BY <1>5, StoreOutsideStep
<1>6. CASE RemoveDir
  BY <1>6, RemoveDirStep
<1>7. CASE ChangeDir
  BY <1>7, ChangeDirStep
<1>8. CASE WriteChunk
  BY <1>8, WriteChunkStep
<1>9. CASE EndChunks
  BY <1>9, EndChunksStep
<1>10. CASE Sweep
  BY <1>10, SweepStep
<1>11. CASE Erase
  BY <1>11, EraseStep
<1>12. CASE WriteFat
  BY <1>12, WriteFatStep
<1>13. CASE WriteEntry
  BY <1>13, WriteEntryStep
<1>14. CASE PowerLoss
  BY <1>14, PowerLossStep
<1>15. CASE UNCHANGED vars
  <2>1. UNCHANGED <<dirs, fat, data, fatTable, cwd, op, pc, sector, next, events, losses>>
    BY <1>15 DEF vars, diskVars, history
  <2>2. Types' /\ CallInv' /\ CopiesInv'
    BY <2>1, ZenonT(30) DEF IInv, Types, CallInv, CopiesInv, Agree
  <2>3. NothingBehindEnd' /\ CurrentDirExists'
    BY <2>1, SameDirs DEF IInv, CurrentDirExists
  <2>4. ChainsInv' /\ AccountInv'
    BY <2>1, SameChains DEF IInv, TouchWindow
  <2>5. LabelsInv'
    BY <2>1, SameDirs DEF IInv, LabelsInv, LabelledEntry, LastWritten, Pending,
       TouchWindow, NewChain, Safe
  <2> QED
    BY <2>2, <2>3, <2>4, <2>5 DEF IInv
<1> QED
  BY <1>1, <1>2, <1>3, <1>4, <1>5, <1>6, <1>7, <1>8, <1>9, <1>10, <1>11, <1>12,
     <1>13, <1>14, <1>15 DEF Next

(* The inductive invariant of the file system.                             *)
THEOREM Invariance == Spec => []IInv
BY InitStep, NextStep, PTL DEF Spec

(* Entries, tables, sectors and the operation's variables keep their types;*)
(* in particular no entry and no link ever names a cluster that the table  *)
(* does not have, and updateFatTable stays inside the two copies.          *)
THEOREM TypeCorrect == Spec => []TypeOK
<1>1. ASSUME IInv PROVE TypeOK
  <2>1. Types
    BY <1>1 DEF IInv
  <2>2. \A p \in Places : \A i \in Slots[p] : dirs[p][i] \in DirEntry
    BY <2>1, SlotSets, UsedIs DEF Dirs
  <2>3. cwd \in Places
    BY <2>1, SlotSets DEF Types, Dirs
  <2> QED
    BY <2>1, <2>2, <2>3 DEF Types, TypeOK, DirEntry, CallType, Table
<1> QED
  BY <1>1, Invariance, PTL

(* The scans that stop at the first end mark and those that do not see the *)
(* same entries.                                                           *)
THEOREM ScansAgree == Spec => []NothingBehindEnd
<1>1. IInv => NothingBehindEnd
  BY DEF IInv
<1> QED
  BY <1>1, Invariance, PTL

(* The directory one is in has not been deleted.                           *)
THEOREM CurrentDirStays == Spec => []CurrentDirExists
<1>1. IInv => CurrentDirExists
  BY DEF IInv
<1> QED
  BY <1>1, Invariance, PTL

(* Between two operations the copies of the table and the memory agree.    *)
THEOREM CopiesAgree == Spec => []TablesAgree
<1>1. IInv => TablesAgree
  BY DEF IInv, CopiesInv, Agree, TablesAgree
<1> QED
  BY <1>1, Invariance, PTL

(* At whichever sector the power goes, the disk has no file whose clusters *)
(* are free or shared, unless a file was written over or touch_ was cut.   *)
THEOREM FilesStayApart == Spec => []ChainsDisjoint
<1>1. ASSUME IInv PROVE ChainsDisjoint
  <2> SUFFICES ASSUME Consistent
               PROVE  \A e \in Live :
                 /\ Entry(e).start \in Chain(fat[1], Entry(e).start)
                 /\ \A c \in Chain(fat[1], Entry(e).start) : fat[1][c] # Free
                 /\ \A f \in Live \ {e} :
                      Chain(fat[1], Entry(e).start) \cap Chain(fat[1], Entry(f).start) = {}
    BY DEF ChainsDisjoint
  <2>1. /\ \A e \in Live : Holds(Entry(e).start)
        /\ \A e, f \in Live : e # f => ChainAt(e) \cap ChainAt(f) = {}
        /\ \A e \in Live : \A x \in ChainAt(e) : fat[1][x] = fatTable[x]
    BY <1>1 DEF Consistent, Safe, IInv, ChainsInv
  <2>2. \A e \in Live : Chain(fat[1], Entry(e).start) = ChainAt(e)
    BY <2>1, ChainSame DEF ChainAt
  <2>3. \A e \in Live : Entry(e).start \in ChainAt(e)
    BY <2>1, ChainIs DEF Holds, ChainAt, Closed
  <2>4. \A e \in Live : \A c \in ChainAt(e) : fat[1][c] # Free
    BY <2>1 DEF Holds, ChainAt
  <2> QED
    BY <2>1, <2>2, <2>3, <2>4
<1> QED
  BY <1>1, Invariance, PTL

(* Between two operations every allocated cluster belongs to a file, unless*)
(* one of the four things that are known to lose space has happened.       *)
THEOREM SpaceIsKept == Spec => []NoLeaks
<1>1. ASSUME IInv PROVE NoLeaks
  <2> SUFFICES ASSUME pc = "idle", events = {}
               PROVE  {c \in Clusters : fatTable[c] # Free}
                        = UNION {Chain(fatTable, Entry(e).start) : e \in Live}
    BY DEF NoLeaks
  <2>1. ~Pending
    BY <1>1, NoCallIs DEF IInv, CallInv, Pending
  <2> QED
    BY <1>1, <2>1 DEF IInv, AccountInv, Allocated, InFiles, ChainAt, NewChain
<1> QED
  BY <1>1, Invariance, PTL

-----------------------------------------------------------------------------
(* Reading a file.                                                         *)

(* A non-empty set of natural numbers has a least element.                 *)
LEMMA HasLeast ==
  ASSUME NEW S, S \subseteq Nat, S # {}
  PROVE  \E x \in S : \A y \in S : x <= y
<1>1. PICK x \in S : \A y \in S : ~ (<<y, x>> \in OpToRel(<, Nat))
  BY WFMin, NatLessThanWellFounded
<1>2. \A y \in S : ~(y < x)
  BY <1>1 DEF OpToRel
<1> QED
  BY <1>2

Follows(f, n, c, step) == f[0] = c /\ \A i \in 1 .. n : f[i] = step[f[i - 1]]

(* From every start any number of steps can be taken.                      *)
LEMMA Followed ==
  ASSUME NEW V, NEW c \in V, NEW step \in [V -> V], NEW m \in Nat
  PROVE  \E f \in [0 .. m -> V] : Follows(f, m, c, step)
<1> DEFINE Goes(n) == \E f \in [0 .. n -> V] : Follows(f, n, c, step)
           Bad == {n \in Nat : ~Goes(n)}
<1>1. SUFFICES ASSUME Bad # {} PROVE FALSE
  BY Zenon
<1>2. PICK n \in Bad : \A k \in Bad : n <= k
  <2>1. Bad \subseteq Nat
    OBVIOUS
  <2> HIDE DEF Bad
  <2> QED
    BY <1>1, <2>1, HasLeast
<1>3. n \in Nat /\ ~Goes(n)
  BY Zenon
<1>4. CASE n = 0
  <2> DEFINE f == [i \in 0 .. n |-> c]
  <2>1. f \in [0 .. n -> V] /\ f[0] = c /\ 1 .. n = {}
    BY <1>4
  <2> HIDE DEF f
  <2> QED
    BY <1>3, <2>1 DEF Follows
<1>5. CASE n # 0
  <2>1. n - 1 \in Nat /\ ~(n <= n - 1)
    BY <1>3, <1>5
  <2>2. Goes(n - 1)
    <3> HIDE DEF Goes
    <3> QED
      BY <1>2, <2>1
  <2>3. PICK g \in [0 .. n - 1 -> V] : Follows(g, n - 1, c, step)
    BY <2>2
  <2> DEFINE f == [i \in 0 .. n |-> IF i < n THEN g[i] ELSE step[g[n - 1]]]
  <2>4. f \in [0 .. n -> V]
    BY <1>3, <2>1
  <2>5. f[0] = c
    BY <1>3, <1>5, <2>3 DEF Follows
  <2>6. \A i \in 1 .. n : f[i] = step[f[i - 1]]
    BY <1>3, <1>5, <2>3 DEF Follows
  <2> HIDE DEF f
  <2> QED
    BY <1>3, <2>4, <2>5, <2>6 DEF Follows
<1> QED
  BY <1>4, <1>5

(* They lead to one place.                                                 *)
LEMMA FollowedOnce ==
  ASSUME NEW c, NEW step, NEW m \in Nat, NEW n \in Nat, NEW f, NEW g,
         Follows(f, m, c, step), Follows(g, n, c, step),
         NEW k \in Nat, k <= m, k <= n
  PROVE  f[k] = g[k]
<1> DEFINE Bad == {i \in Nat : i <= m /\ i <= n /\ f[i] # g[i]}
<1>1. SUFFICES ASSUME Bad # {} PROVE FALSE
  OBVIOUS
<1>2. PICK i \in Bad : \A j \in Bad : i <= j
  <2>1. Bad \subseteq Nat
    OBVIOUS
  <2> HIDE DEF Bad
  <2> QED
    BY <1>1, <2>1, HasLeast
<1>3. i \in Nat /\ i <= m /\ i <= n /\ f[i] # g[i]
  OBVIOUS
<1>4. i # 0
  BY <1>3 DEF Follows
<1>5. i - 1 \in Nat /\ i - 1 <= m /\ i - 1 <= n /\ ~(i <= i - 1)
      /\ i \in 1 .. m /\ i \in 1 .. n
  BY <1>3, <1>4
<1>6. f[i - 1] = g[i - 1]
  BY <1>2, <1>5
<1> QED
  BY <1>3, <1>5, <1>6 DEF Follows

(* The cluster a link leads to.                                            *)
LinkOf(t, v) == IF v \in Clusters THEN t[v] ELSE EndOfChain

(* Walk is what its recursion says.                                        *)
LEMMA WalkIs ==
  ASSUME NEW t \in Table, NEW c \in Clusters
  PROVE  /\ Walk(t, c)[0] = c
         /\ \A j \in Nat \ {0} : Walk(t, c)[j] = LinkOf(t, Walk(t, c)[j - 1])
<1> DEFINE V == Clusters \cup {Free, EndOfChain}
           step == [v \in V |-> LinkOf(t, v)]
           Way(n) == CHOOSE f \in [0 .. n -> V] : Follows(f, n, c, step)
           f == [n \in Nat |-> Way(n)[n]]
           Eq(h) == h = [j \in Nat |-> IF j = 0 THEN c
                                        ELSE LET before == h[j - 1]
                                             IN  IF before \in Clusters THEN t[before]
                                                                        ELSE EndOfChain]
<1>1. step \in [V -> V]
  BY DEF Table, LinkOf
<1>2. \A n \in Nat : Way(n) \in [0 .. n -> V] /\ Follows(Way(n), n, c, step)
  <2> TAKE n \in Nat
  <2> HIDE DEF step
  <2>1. \E h \in [0 .. n -> V] : Follows(h, n, c, step)
    BY <1>1, Followed
  <2> QED
    BY <2>1
<1>3. f[0] = c
  BY <1>2 DEF Follows
<1>4. ASSUME NEW j \in Nat \ {0}
      PROVE  f[j] = LinkOf(t, f[j - 1])
  <2>1. j - 1 \in Nat /\ j - 1 \in 0 .. j /\ j \in 1 .. j
    OBVIOUS
  <2>2. /\ Way(j) \in [0 .. j -> V] /\ Follows(Way(j), j, c, step)
        /\ Follows(Way(j - 1), j - 1, c, step)
    <3> HIDE DEF Way, step
    <3> QED
      BY <1>2, <2>1
  <2>3. f[j] = Way(j)[j] /\ f[j - 1] = Way(j - 1)[j - 1]
    <3> HIDE DEF Way
    <3> QED
      BY <2>1
  <2> HIDE DEF f, Way
  <2>4. Way(j)[j - 1] = Way(j - 1)[j - 1]
    <3> HIDE DEF step
    <3>1. PICK x, y : x = Way(j) /\ y = Way(j - 1)
      OBVIOUS
    <3>2. x[j - 1] = y[j - 1]
      <4>1. PICK i \in Nat : i = j - 1
        BY <2>1
      <4>2. i <= j /\ j \in Nat /\ Follows(x, j, c, step) /\ Follows(y, i, c, step)
        BY <2>2, <3>1, <4>1
      <4>3. x[i] = y[i]
        BY <4>2, FollowedOnce
      <4> QED
        BY <4>1, <4>3
    <3> QED
      BY <3>1, <3>2
  <2>5. Way(j)[j] = step[Way(j)[j - 1]] /\ Way(j)[j - 1] \in V
    BY <2>1, <2>2 DEF Follows
  <2> QED
    BY <2>3, <2>4, <2>5
<1>5. Eq(f)
  <2>1. \A j \in Nat : f[j] = IF j = 0 THEN c
                              ELSE LET before == f[j - 1]
                                   IN  IF before \in Clusters THEN t[before]
                                                              ELSE EndOfChain
    <3> HIDE DEF f
    <3> QED
      BY <1>3, <1>4 DEF LinkOf
  <2>2. f = [j \in Nat |-> f[j]]
    <3> HIDE DEF Way
    <3> QED
      OBVIOUS
  <2> HIDE DEF f
  <2> QED
    BY <2>1, <2>2
<1>6. PICK g : g = CHOOSE h : Eq(h)
  OBVIOUS
<1>7. Eq(g)
  <2> HIDE DEF Eq, f
  <2> QED
    BY <1>5, <1>6
<1>8. Walk(t, c) = g
  BY <1>6 DEF Walk
<1>9. g[0] = c
  BY <1>7
<1>10. \A j \in Nat \ {0} : g[j] = LinkOf(t, g[j - 1])
  BY <1>7 DEF LinkOf
<1> QED
  BY <1>8, <1>9, <1>10

(* At whichever sector the power went: following the chain of a file whose *)
(* clusters the disk has, a boot finds its sectors in the order in which   *)
(* write_ got them and none of another file.                               *)
SectorsInOrder ==
  Consistent =>
    \A e \in Live : OnDisk(Chain(fat[1], Entry(e).start)) =>
      \A j \in 1 .. Entry(e).size :
        /\ Walk(fat[1], Entry(e).start)[j - 1] \in Clusters
        /\ Label(data, Walk(fat[1], Entry(e).start)[j - 1]) = <<Entry(e).name, j>>

(* No sector of a file is lost, repeated or exchanged, for any number of   *)
(* sectors per cluster and of clusters in the table.                       *)
THEOREM FilesInOrder == Spec => []SectorsInOrder
<1>1. ASSUME IInv PROVE SectorsInOrder
  <2> SUFFICES ASSUME Consistent, NEW e \in Live, Entry(e).size # 0,
                      OnDisk(Chain(fat[1], Entry(e).start))
               PROVE  \A j \in 1 .. Entry(e).size :
                 /\ Walk(fat[1], Entry(e).start)[j - 1] \in Clusters
                 /\ Label(data, Walk(fat[1], Entry(e).start)[j - 1]) = <<Entry(e).name, j>>
    BY DEF SectorsInOrder
  <2> DEFINE t == fat[1]
             start == Entry(e).start
             size == Entry(e).size
             name == Entry(e).name
             at(j) == Walk(t, start)[j - 1]
             Right(j) == at(j) \in Chain(t, start) /\ Label(data, at(j)) = <<name, j>>
             Wrong == {j \in 1 .. size : ~Right(j)}
  <2>1. /\ t \in Table /\ data \in [Clusters -> [SectorNos -> Names \X (0 .. MaxChunks)]]
        /\ size \in Nat
    <3>1. Types
      BY <1>1 DEF IInv
    <3>2. \E p \in Dirs : \E i \in Used(p) : e = <<p, i>> /\ dirs[p][i] \in DirEntry
      BY <3>1, LivePairs, UsedIs
    <3>3. Entry(e) \in DirEntry
      BY <3>2 DEF Entry
    <3> QED
      <4>1. Entry(e).size \in Nat
        BY <3>3, Sizes DEF DirEntry
      <4>2. /\ fat[1] \in Table
            /\ data \in [Clusters -> [SectorNos -> Names \X (0 .. MaxChunks)]]
        BY <3>1 DEF Types
      <4> QED
        BY <4>1, <4>2
  <2>2. \A x \in ChainAt(e) : fat[1][x] = fatTable[x]
    BY <1>1 DEF Consistent, Safe, IInv, ChainsInv
  <2>3. Labelled(fatTable, data, start, size, name)
    BY <1>1 DEF Consistent, Safe, IInv, LabelsInv, LabelledEntry
  <2>4. Labelled(t, data, start, size, name)
    BY <2>2, <2>3, LabelsSame DEF ChainAt
  <2> HIDE DEF t, start, size, name
  <2>5. /\ start \in Clusters /\ start \in Chain(t, start) /\ Label(data, start) = <<name, 1>>
        /\ \A x \in Chain(t, start) : t[x] \in Clusters => t[x] \in Chain(t, start)
        /\ Chain(t, start) \subseteq Clusters /\ OnDisk(Chain(t, start))
    BY <2>4, ChainIs DEF Labelled, Closed, t, start, size
  <2>6. /\ Walk(t, start)[0] = start
        /\ \A j \in Nat \ {0} : Walk(t, start)[j] = LinkOf(t, Walk(t, start)[j - 1])
    BY <2>1, <2>5, WalkIs
  <2>7. Wrong = {}
    <3> SUFFICES ASSUME Wrong # {} PROVE FALSE
      OBVIOUS
    <3>1. PICK j \in Wrong : \A k \in Wrong : j <= k
      <4>1. Wrong \subseteq Nat
        OBVIOUS
      <4> HIDE DEF Wrong
      <4> QED
        BY <4>1, HasLeast
    <3>2. j \in 1 .. size /\ ~Right(j)
      BY Zenon
    <3>3. j # 1
      BY <2>5, <2>6, <3>2
    <3>4. j - 1 \in 1 .. size /\ j - 1 \in 1 .. size - 1 /\ j - 1 \in Nat \ {0} /\ ~(j <= j - 1)
      BY <2>1, <3>2, <3>3
    <3>5. Right(j - 1)
      <4> HIDE DEF Right
      <4> QED
        BY <3>1, <3>4
    <3>6. at(j) = LinkOf(t, at(j - 1))
      BY <2>6, <3>4
    <3> HIDE DEF at
    <3>7. at(j - 1) \in Clusters /\ at(j) = t[at(j - 1)]
      BY <2>5, <3>5, <3>6 DEF LinkOf
    <3>8. /\ t[at(j - 1)] \in Clusters
          /\ Label(data, t[at(j - 1)]) = <<name, (j - 1) + 1>>
      BY <2>4, <2>5, <3>4, <3>5 DEF Labelled
    <3>9. (j - 1) + 1 = j
      BY <3>2
    <3>10. Right(j)
      BY <2>5, <3>5, <3>7, <3>8, <3>9
    <3> QED
      BY <3>2, <3>10
  <2>8. \A j \in 1 .. size : at(j) \in Clusters /\ Label(data, at(j)) = <<name, j>>
    BY <2>5, <2>7
  <2> QED
    BY <2>8 DEF t, start, size, name
<1> QED
  BY <1>1, Invariance, PTL

(* readFileContent, with one sector in a cluster and no more clusters in   *)
(* the table than on the disk, reads every file as it was written.         *)
THEOREM FilesAreRead ==
  ASSUME SectorsPerCluster = 1,
         FatSectors * EntriesPerSector <= DirCluster + DataClusters
  PROVE  Spec => []FilesReadBack
<1>1. \A S \in SUBSET Clusters : OnDisk(S)
  BY FatAssumption DEF OnDisk, Clusters, DirCluster
<1>2. ASSUME SectorsInOrder PROVE FilesReadBack
  <2> SUFFICES ASSUME Consistent, NEW e \in Live, NEW j \in 1 .. Entry(e).size
               PROVE  SectorRead(fat[1], Entry(e).start, j - 1) = <<Entry(e).name, j>>
    BY DEF FilesReadBack
  <2>1. OnDisk(Chain(fat[1], Entry(e).start))
    BY <1>1, ChainIs
  <2>2. /\ Walk(fat[1], Entry(e).start)[j - 1] \in Clusters
        /\ Label(data, Walk(fat[1], Entry(e).start)[j - 1]) = <<Entry(e).name, j>>
    BY <1>2, <2>1 DEF SectorsInOrder
  <2>3. (j - 1) \div SectorsPerCluster = j - 1 /\ (j - 1) % SectorsPerCluster = 0
    OBVIOUS
  <2> QED
    BY <2>2, <2>3 DEF SectorRead, Label
<1> QED
  BY <1>2, FilesInOrder, PTL
=============================================================================
