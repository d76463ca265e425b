-------------------------------- MODULE Paths -------------------------------
(***************************************************************************)
(* Paths: what the commands of the shell and the callbacks of the FUSE     *)
(* front end (diskAccess/main.c) do with them in a tree of directories.    *)
(*                                                                         *)
(* diskAccess.c is compiled twice, with two versions of stringCompare:     *)
(* SameText and SameBeginning.  A tree maps directories to sequences of    *)
(* entries, free slots left out; a path and a name are sequences of        *)
(* characters.  Clusters, sizes of arrays and what is printed besides      *)
(* names are left out.                                                     *)
(***************************************************************************)
EXTENDS Integers, SequencesExt

CONSTANTS
  Same(_, _),   \* stringCompare(listed name, given name) = 0
  Characters,
  Trees,        \* disks may come with
  Lines,        \* a user may type as paths
  NewNames,     \* files may get
  MaxEntries,   \* of a directory
  Depth         \* to which trees are looked at

VARIABLES
  disk,         \* the tree on it
  currentDir    \* where it stands, and the prompt

pathVars == <<disk, currentDir>>

Root    == 0    \* dirLBA is -1
Nowhere == -1   \* what cluster 0 in the entry ".." stands for

Slash == "/"

-----------------------------------------------------------------------------
(* Texts.                                                                  *)

(* Of the kernel, and of the FUSE program, which stops at the end of       *)
(* either.                                                                 *)
SameText(s, t)      == s = t
SameBeginning(s, t) == IsPrefix(s, t) \/ IsPrefix(t, s)

Slashes(path) == {i \in DOMAIN path : path[i] = Slash}

(* stringFindChar(path, '/', true, skip); 0 where it returns -1.           *)
LastSlash(path, skip) ==
  LET S == {i \in Slashes(path) : Cardinality({k \in Slashes(path) : k > i}) = skip}
  IN  IF S = {} THEN 0 ELSE CHOOSE i \in S : TRUE

(* Mutation: the slash before the last name is not looked for.             *)
getParentPath_Whole(path) == path

getParentPath(path) ==
  LET slash == LastSlash(path, 0)
  IN  IF Len(path) <= 1 \/ slash <= 1 THEN <<Slash>>
                                      ELSE SubSeq(path, 1, slash - 1)

(* Up to the next slash or the end.                                        *)
NameFrom(path, i) ==
  LET ends == {k \in i .. Len(path) : path[k] = Slash} \cup {Len(path) + 1}
  IN  SubSeq(path, i, (CHOOSE k \in ends : \A m \in ends : k <= m) - 1)

(* Mutation: the name begins at the slash.                                 *)
stringParseFilename_Slash(path) == SubSeq(path, LastSlash(path, 0), Len(path))

stringParseFilename(path) ==
  LET last == LastSlash(path, 0)
  IN  NameFrom(path, (IF last # 0 /\ last = Len(path) THEN LastSlash(path, 1)
                                                      ELSE last) + 1)

(* The loop of changeDirAbsolute_, which does not look at the first        *)
(* character: names so far, and currentDirBuf.                             *)
Flushed(s) == IF s.word = <<>> THEN s.names ELSE Append(s.names, s.word)

Scan(path) ==
  LET scan[i \in 0 .. Len(path)] ==
        IF i <= 1 THEN [names |-> <<>>, word |-> <<>>]
        ELSE IF path[i] = Slash THEN [names |-> Flushed(scan[i - 1]), word |-> <<>>]
        ELSE [names |-> scan[i - 1].names, word |-> Append(scan[i - 1].word, path[i])]
  IN  scan[Len(path)]

(* Mutation: only a slash ends a name.                                     *)
Components_Slash(path) == Scan(path).names

Components(path) == Flushed(Scan(path))

-----------------------------------------------------------------------------
(* Directories.                                                            *)

IsDir(entry)   == entry.kind = "dir"
Hidden(entry)  == entry.name \in {<<".">>, <<".", ".">>}
NoEntry        == [name |-> <<>>, kind |-> "none", at |-> Nowhere]

(* The first of the sequence that passes the test, or NoEntry.             *)
First(entries, Test(_)) ==
  LET found == {i \in DOMAIN entries : Test(entries[i])}
  IN  IF found = {} THEN NoEntry
      ELSE entries[CHOOSE i \in found : \A k \in found : i <= k]

(* Mutation: a name that is not there is added to the prompt.              *)
changeDirIterative_KeepsName(tree, dir, name) ==
  LET entry == First(tree[dir.at], LAMBDA e : Same(e.name, name) /\ IsDir(e))
  IN  [at |-> IF entry = NoEntry THEN dir.at ELSE entry.at,
       filename |-> dir.filename \o name \o <<Slash>>]

(* currentDir after the next name of a path; a name that is not there is   *)
(* skipped.                                                                *)
changeDirIterative(tree, dir, name) ==
  LET entry == First(tree[dir.at], LAMBDA e : Same(e.name, name) /\ IsDir(e))
  IN  IF entry = NoEntry THEN dir
      ELSE [at |-> entry.at, filename |-> dir.filename \o name \o <<Slash>>]

AtRoot == [at |-> Root, filename |-> <<Slash>>]

(* One name of the path after the other, from the root.                    *)
WalkNames(tree, names) ==
  LET dir[n \in 0 .. Len(names)] ==
        IF n = 0 THEN AtRoot
        ELSE changeDirIterative(tree, dir[n - 1], names[n])
  IN  dir[Len(names)]

changeDirAbsolute_(tree, path) == WalkNames(tree, Components(path))

(* The prompt.                                                             *)
getCurrentDir(dir) == IF dir.at = Root THEN <<Slash>> ELSE dir.filename

getCurrentEntries(tree, at) == tree[at]

LastPart(path) == SubSeq(path, LastSlash(path, 0) + 1, Len(path))

findEntryInCurrentDir(tree, at, path) ==
  IF LastPart(path) = <<>> THEN NoEntry
  ELSE First(getCurrentEntries(tree, at), LAMBDA e : Same(e.name, LastPart(path)))

(* The entries of which read_ outputs the contents, one after the other.   *)
read_(tree, at, name) ==
  LET out[i \in 0 .. Len(tree[at])] ==
        IF i = 0 THEN <<>>
        ELSE IF Same(tree[at][i].name, name) THEN Append(out[i - 1], tree[at][i])
                                             ELSE out[i - 1]
  IN  out[Len(tree[at])]

(* What exec loads: found as a path, but read as a name.                   *)
execCommand(tree, at, param) ==
  IF findEntryInCurrentDir(tree, at, param).kind # "file" THEN <<>>
  ELSE read_(tree, at, param)

(* Slots below a directory, each behind those of the directory it names.   *)
SlotsBelow(tree, top) ==
  LET below[depth \in 0 .. Depth] ==
        IF depth = 0 THEN [d \in DOMAIN tree |-> <<>>]
        ELSE [d \in DOMAIN tree |-> FlattenSeq([i \in DOMAIN tree[d] |->
               (IF IsDir(tree[d][i]) /\ ~Hidden(tree[d][i])
                  THEN below[depth - 1][tree[d][i].at] ELSE <<>>)
               \o <<[dir |-> d, slot |-> i]>>])]
  IN  below[Depth][top]

EntryAt(tree, place) == tree[place.dir][place.slot]

(* Where findEntryAndErase looks, in order: the root is searched with all  *)
(* that is below it.                                                       *)
Searched(tree, at) ==
  IF at = Root THEN SlotsBelow(tree, Root)
               ELSE [i \in DOMAIN tree[at] |-> [dir |-> at, slot |-> i]]

delete_(tree, at, name) ==
  LET places == Searched(tree, at)
      hits == {n \in DOMAIN places : LET e == EntryAt(tree, places[n])
                                     IN  ~Hidden(e) /\ Same(e.name, name)}
      hit  == places[CHOOSE n \in hits : \A k \in hits : n <= k]
  IN  IF hits = {} THEN tree ELSE [tree EXCEPT ![hit.dir] = RemoveAt(@, hit.slot)]

(* An entry for the name, if a slot is free; which one is left out.        *)
create_(tree, at, name) ==
  LET rest == delete_(tree, at, name)
  IN  IF Len(rest[at]) = MaxEntries THEN rest
      ELSE [rest EXCEPT ![at] = Append(@, [name |-> name, kind |-> "file", at |-> Nowhere])]

(* Everything in the current directory.                                    *)
Emptied(tree, at) ==
  LET left[i \in 0 .. Len(tree[at])] ==
        IF i = 0 THEN tree
        ELSE IF Hidden(tree[at][i]) THEN left[i - 1]
        ELSE delete_(left[i - 1], at, tree[at][i].name)
  IN  left[Len(tree[at])]

(* Mutation: the directory is searched in itself.                          *)
rmCurrentDir__Here(tree, at, name) == delete_(Emptied(tree, at), at, name)

(* Then, from the root, the directory.                                     *)
rmCurrentDir_(tree, at, name) == delete_(Emptied(tree, at), Root, name)

(* Mutation: the entry of the parent is shown.                             *)
printTree_Parent(tree) ==
  LET shown[depth \in 0 .. Depth] ==
        IF depth = 0 THEN [d \in DOMAIN tree |-> <<>>]
        ELSE [d \in DOMAIN tree |-> FlattenSeq([i \in DOMAIN tree[d] |->
               IF tree[d][i].name = <<".">> THEN <<>>
               ELSE <<tree[d][i]>> \o
                    IF IsDir(tree[d][i]) THEN shown[depth - 1][tree[d][i].at]
                                         ELSE <<>>])]
  IN  shown[Depth][Root]

(* The entries in the order in which printTree shows them.                 *)
printTree(tree) ==
  LET shown[depth \in 0 .. Depth] ==
        IF depth = 0 THEN [d \in DOMAIN tree |-> <<>>]
        ELSE [d \in DOMAIN tree |-> FlattenSeq([i \in DOMAIN tree[d] |->
               IF Hidden(tree[d][i]) THEN <<>>
               ELSE <<tree[d][i]>> \o
                    IF IsDir(tree[d][i]) THEN shown[depth - 1][tree[d][i].at]
                                         ELSE <<>>])]
  IN  shown[Depth][Root]

-----------------------------------------------------------------------------
(* The callbacks.                                                          *)

set_context_by_path(tree, path) ==
  changeDirAbsolute_(tree, getParentPath(path)).at

(* The entry of getattrCallback and openCallback.                          *)
Lookup(tree, path) ==
  findEntryInCurrentDir(tree, set_context_by_path(tree, path),
                        stringParseFilename(path))

readCallback(tree, path) ==
  read_(tree, set_context_by_path(tree, path), Lookup(tree, path).name)

readdirCallback(tree, path) ==
  getCurrentEntries(tree, changeDirAbsolute_(tree, path).at)

unlinkCallback(tree, path) ==
  delete_(tree, set_context_by_path(tree, path), stringParseFilename(path))

(* And writeCallback, whose contents are left out.                         *)
createCallback(tree, path) ==
  create_(tree, set_context_by_path(tree, path), stringParseFilename(path))

rmDirCallback(tree, path) ==
  rmCurrentDir_(tree, changeDirAbsolute_(tree, path).at, stringParseFilename(path))

-----------------------------------------------------------------------------
(* What a tree is: the paths of its entries, as sequences of names.        *)

Listed(tree, d) == {i \in DOMAIN tree[d] : ~Hidden(tree[d][i])}

RootItself == [path |-> <<>>, entry |-> [name |-> <<>>, kind |-> "dir", at |-> Root]]

InDir(tree, x) ==
  {[path |-> Append(x.path, tree[x.entry.at][i].name), entry |-> tree[x.entry.at][i]] :
     i \in Listed(tree, x.entry.at)}

(* The entries at a depth; at depth 0 the root.                            *)
Level(tree, depth) ==
  LET level[n \in 0 .. depth] ==
        IF n = 0 THEN {RootItself}
        ELSE UNION {InDir(tree, x) : x \in {y \in level[n - 1] : IsDir(y.entry)}}
  IN  level[depth]

Contents(tree) == UNION {Level(tree, n) : n \in 1 .. Depth}

DirsOf(tree) == {x \in {RootItself} \cup Contents(tree) : IsDir(x.entry)}

Spelled(names) == FlattenSeq([i \in DOMAIN names |-> <<Slash>> \o names[i]])

(* A tree as the program makes them: names are not empty and begin with no *)
(* dot, but for those of "." and "..", and have no slashes.                *)
LegalName(name) ==
  name \in Seq(Characters) /\ name # <<>> /\ name[1] # "." /\ Slashes(name) = {}

WellFormed(tree) ==
  /\ {Root, Nowhere} \subseteq DOMAIN tree
  /\ \A d \in DOMAIN tree :
       /\ tree[d] \in Seq([name : Seq(Characters), kind : {"dir", "file"}, at : Int])
       /\ \A i \in DOMAIN tree[d] :
            LET e == tree[d][i]
            IN  /\ IsDir(e) => e.at \in DOMAIN tree
                /\ IF Hidden(e) THEN IsDir(e) ELSE LegalName(e.name)

ASSUME PathsAssumption ==
  /\ MaxEntries \in Nat /\ Depth \in Nat /\ Slash \in Characters
  /\ \A tree \in Trees : WellFormed(tree)
  /\ Lines \subseteq Seq(Characters)
  /\ \A name \in NewNames : LegalName(name)

(* Directories lie in each other to at most that depth: what is listed in  *)
(* a directory ranks higher than it.                                       *)
Ranks(tree, rank) ==
  \A d \in DOMAIN tree : \A i \in Listed(tree, d) :
    IsDir(tree[d][i]) => rank[d] < rank[tree[d][i].at]

Ranked(tree) == \E rank \in [DOMAIN tree -> 0 .. Depth] : Ranks(tree, rank)

(* No directory lies in two places or as deep as trees are looked at, and  *)
(* none has more entries than fit.                                         *)
Proper(tree) ==
  /\ \A x, y \in DirsOf(tree) : x.entry.at = y.entry.at => x = y
  /\ \A x \in DirsOf(tree) : Len(x.path) < Depth
  /\ \A d \in DOMAIN tree : Len(tree[d]) <= MaxEntries

(* A path without the names "." and "..".                                  *)
NoDots(path) ==
  \A i \in DOMAIN Components(path) : Components(path)[i] \notin {<<".">>, <<".", ".">>}

-----------------------------------------------------------------------------
(* The shell.                                                              *)

PathsInit == disk \in Trees /\ currentDir = AtRoot

Cd(path) == currentDir' = changeDirAbsolute_(disk, path) /\ UNCHANGED disk
TouchFile(name) ==
  disk' = create_(disk, currentDir.at, name) /\ UNCHANGED currentDir
Rm(name) == disk' = delete_(disk, currentDir.at, name) /\ UNCHANGED currentDir

ShellNext ==
  \/ \E path \in Lines : Cd(path)
  \/ \E name \in NewNames : TouchFile(name) \/ Rm(name)

ShellSpec == PathsInit /\ [][ShellNext]_pathVars

-----------------------------------------------------------------------------
(* The FUSE front end.  Linux asks for the entry before all else, so that  *)
(* it is there, or, before create, that it is not.                         *)

InContext(path) == currentDir' = changeDirAbsolute_(disk, getParentPath(path))

(* getattr, open and read.                                                 *)
Look(path)    == InContext(path) /\ UNCHANGED disk
Readdir(path) == currentDir' = changeDirAbsolute_(disk, path) /\ UNCHANGED disk
CreateOrWrite(path) == InContext(path) /\ disk' = createCallback(disk, path)
Unlink(path) == InContext(path) /\ disk' = unlinkCallback(disk, path)

(* changeDir("/") appends to the name.                                     *)
Rmdir(path) ==
  /\ disk' = rmDirCallback(disk, path)
  /\ currentDir' = [at |-> Root,
                    filename |-> changeDirAbsolute_(disk, path).filename \o <<Slash>>]

New(tree) ==
  {Append(d.path, name) : d \in DirsOf(tree), name \in NewNames}
    \ {x.path : x \in Contents(tree)}

FuseNext ==
  \/ Readdir(<<Slash>>)
  \/ \E x \in Contents(disk) : LET path == Spelled(x.path) IN
       \/ Look(path)
       \/ IsDir(x.entry) /\ (Readdir(path) \/ Rmdir(path))
       \/ ~IsDir(x.entry) /\ (CreateOrWrite(path) \/ Unlink(path))
  \/ \E names \in New(disk) : CreateOrWrite(Spelled(names))

FuseSpec == PathsInit /\ [][FuseNext]_pathVars

-----------------------------------------------------------------------------
(* Correctness.                                                            *)

(* The tree stays as the program makes them (no name is empty, has a       *)
(* slash or could be mistaken for "." or "..", directories lead to         *)
(* directories of the tree), and the current directory is one of it.       *)
PathsTypeOK == WellFormed(disk) /\ currentDir.at \in DOMAIN disk

(* No name is taken for one beside it.                                     *)
SiblingsApart(tree) ==
  \A d \in DOMAIN tree : \A i, k \in Listed(tree, d) :
    i # k => ~Same(tree[d][i].name, tree[d][k].name)

(* cd goes to the directory a path names, also when slashes are doubled or *)
(* trail, and exec loads the file of a directory that is named.            *)
ShellFindsPaths ==
  SiblingsApart(disk) => \A d \in DirsOf(disk) :
    /\ \A path \in {Spelled(d.path), Spelled(d.path) \o <<Slash>>,
                     <<Slash>> \o Spelled(d.path)} :
         changeDirAbsolute_(disk, path).at = d.entry.at
    /\ \A i \in DOMAIN disk[d.entry.at] :
         LET e == disk[d.entry.at][i]
         IN  e.kind = "file" => execCommand(disk, d.entry.at, e.name) = <<e>>

(* Wherever a line that was typed leads, and whatever is removed after it, *)
(* the prompt tells the path of the directory that commands then work in.  *)
PromptIsPath ==
  \E d \in DirsOf(disk) :
    /\ currentDir.at = d.entry.at
    /\ getCurrentDir(currentDir) = Spelled(d.path) \o <<Slash>>

(* tree shows every entry once.                                            *)
TreeShowsAll ==
  SiblingsApart(disk) =>
  /\ ToSet(printTree(disk)) = {x.entry : x \in Contents(disk)}
  /\ Len(printTree(disk)) = Cardinality(Contents(disk))

(* The callbacks that look find the entry whose path they are given, and   *)
(* its contents: parent path, current directory and last name, which are   *)
(* found in three different ways, agree.                                   *)
CallbacksFindPaths ==
  SiblingsApart(disk) => \A x \in Contents(disk) :
    LET path == Spelled(x.path)
    IN  /\ Lookup(disk, path) = x.entry
        /\ IF IsDir(x.entry) THEN readdirCallback(disk, path) = disk[x.entry.at]
                             ELSE readCallback(disk, path) = <<x.entry>>

(* No name is taken for one anywhere in the tree.                          *)
AllApart(tree) ==
  /\ SiblingsApart(tree)
  /\ \A x, y \in Contents(tree) : x # y => ~Same(Last(x.path), Last(y.path))

PathsOf(tree) == {x.path : x \in Contents(tree)}

(* If all names are apart, a callback that removes an entry removes the    *)
(* one whose path it is given, with all below it, and no other; one that   *)
(* writes a file leaves the paths as they are, and one that creates a file *)
(* of a name that is apart too, with a slot free for it, adds its path.    *)
FollowsPath ==
  AllApart(disk) =>
    /\ \A x \in Contents(disk) : LET path == Spelled(x.path) IN
         /\ (IF IsDir(x.entry) THEN Rmdir(path) ELSE Unlink(path)) =>
              Contents(disk') = {y \in Contents(disk) : ~IsPrefix(x.path, y.path)}
         /\ ~IsDir(x.entry) /\ CreateOrWrite(path) => PathsOf(disk') = PathsOf(disk)
    /\ \A names \in New(disk) :
         /\ CreateOrWrite(Spelled(names)) /\ Len(disk[currentDir'.at]) < MaxEntries
         /\ \A x \in Contents(disk) : ~Same(Last(x.path), Last(names))
         => PathsOf(disk') = PathsOf(disk) \cup {names}

CallbacksFollowPath == [][FollowsPath]_pathVars
=============================================================================
