----------------------------- MODULE InodeTree ------------------------------
(***************************************************************************)
(* The master's namespace: the InodeTree over its RocksDB store.           *)
(*                                                                         *)
(* The store has every inode, and an edge (parent, name) -> child for each *)
(* entry of a directory.  Memory has the directories with their entries;   *)
(* files are read from the store when needed.  Each operation holds mu_    *)
(* throughout and commits one batch before it changes memory; only         *)
(* CreateDirectory commits once per component of its path, so it is        *)
(* several steps here, a crash possible between them.                      *)
(*                                                                         *)
(* An operation whose commit fails, or which is refused, and leaves no     *)
(* trace is not an action.  The two traces it may leave are: an id is      *)
(* spent, and operator[] enters a default inode for a file that was used   *)
(* as a directory.                                                         *)
(***************************************************************************)
EXTENDS Maps, Seqs, FiniteSetsExt, Naturals

CONSTANTS
    Names,         \* the components of paths
    Sizes,         \* Sizes[kernel]: sizes that clients of that kind give files
    Batch,         \* kIdAllocBatchSize
    CounterFails,  \* TRUE: the store may fail to save or to read the bound of the ids
    MaxDepth,      \* bound: length of the paths in requests
    MaxId          \* bound: the last id given out

ASSUME BatchAssumption == Batch \in Nat \ {0}
ASSUME SizesAssumption == Sizes \in [BOOLEAN -> SUBSET Nat]
ASSUME BoundsAssumption == MaxDepth \in Nat /\ MaxId \in Nat

VARIABLES
    dirs,      \* dir_inodes_: id -> [inode, kids], kids: name -> id
    nextId, allocEnd,
    inodes,    \* the inodes of the store
    edges,     \* its edges: <<parent, name>> -> id
    stored,    \* its next_id, 0 when absent
    mkdir,     \* the CreateDirectory that holds mu_: where it is, and what is left
    up,        \* the master runs
    kernel,    \* clients are behind FUSE, where the kernel refuses a path through a file
               \* and a rename of a directory to below itself; FALSE: any clients
    given      \* the ids of inodes committed so far: history, and ids clients may send

memory == <<dirs, nextId, allocEnd>>
ids == <<nextId, allocEnd, stored, given>>
store == <<inodes, edges, stored>>
vars == <<dirs, nextId, allocEnd, inodes, edges, stored, mkdir, up, kernel, given>>

NoId == 0
Root == 1
Inode(parent, name, isdir) ==
    [parent |-> parent, name |-> name, isdir |-> isdir, size |-> 0, done |-> isdir]
RootEntry == [inode |-> Inode(NoId, "", TRUE), kids |-> EmptyMap]

\* A default Inode: not a directory, complete.
DefaultEntry == [inode |-> [Inode(NoId, "", FALSE) EXCEPT !.done = TRUE], kids |-> EmptyMap]

NoMkdir == [cur |-> NoId, rest |-> <<>>, rec |-> FALSE]
Unlocked == up /\ mkdir = NoMkdir

-----------------------------------------------------------------------------
\* Paths

IsDir(id) == id \in DOMAIN dirs /\ dirs[id].inode.isdir

\* The entries of the directories in memory: <<directory, name>> -> id.
Entries ==
    [e \in UNION {{d} \X DOMAIN dirs[d].kids : d \in {i \in DOMAIN dirs : IsDir(i)}} |->
       dirs[e[1]].kids[e[2]]]

\* Where a path leads from the root, one entry after the other.
Kid(entries, id, name) == IF <<id, name>> \in DOMAIN entries THEN entries[<<id, name>>] ELSE NoId
Walk(entries, path) ==
    LET at[p \in Seq(Names)] == IF p = <<>> THEN Root ELSE Kid(entries, at[Front(p)], Last(p))
    IN at[path]

\* ResolvePathLocked, and the loops that resolve a parent.  They differ in that
\* the loops do not ask whether an inode in dir_inodes_ is a directory; one that
\* is not has no entries.
Resolve(path) == Walk(Entries, path)

ParentOf(path) == Resolve(Front(path))

\* id and what is below it, as CollectSubtreeForDeletion and
\* RemoveDirSubtreeFromMemory walk it.
Subtree(id) ==
    LET all == {id} \cup UNION {Range(dirs[d].kids) : d \in DOMAIN dirs}
        Closed(S) == \A d \in S \cap DOMAIN dirs : Range(dirs[d].kids) \subseteq S
    IN {x \in all : \A S \in SUBSET all : id \in S /\ Closed(S) => x \in S}

\* dir_inodes_[id], which enters a default inode where there is none.
At(map, id) == IF id \in DOMAIN map THEN map[id] ELSE DefaultEntry
AddKid(map, id, name, kid) == Put(map, id, [At(map, id) EXCEPT !.kids = Put(@, name, kid)])
DelKid(map, id, name) == Put(map, id, [At(map, id) EXCEPT !.kids = Del(@, name)])

-----------------------------------------------------------------------------
\* Operations

\* Slip: the new bound is stored only once the batch is spent.
AllocateId_Late(reserved) ==
    /\ nextId <= MaxId
    /\ nextId' = nextId + 1
    /\ IF nextId >= allocEnd
       THEN /\ allocEnd' = nextId + Batch
            /\ stored' = nextId
       ELSE UNCHANGED <<allocEnd, stored>>

\* AllocateId; the commit is best-effort.
AllocateId(reserved) ==
    /\ nextId <= MaxId
    /\ reserved \/ (CounterFails /\ nextId >= allocEnd)
    /\ nextId' = nextId + 1
    /\ IF nextId >= allocEnd
       THEN /\ allocEnd' = nextId + Batch
            /\ stored' = IF reserved THEN nextId + Batch ELSE stored
       ELSE UNCHANGED <<allocEnd, stored>>

\* Slip: the edge gets the name of the directory.
CommitNew_ParentName(pid, name, inode) ==
    /\ inodes' = Put(inodes, nextId, inode)
    /\ edges' = Put(edges, <<pid, dirs[pid].inode.name>>, nextId)
    /\ given' = given \cup {nextId}

\* A new inode and its edge, in one batch.
CommitNew(pid, name, inode) ==
    /\ inodes' = Put(inodes, nextId, inode)
    /\ edges' = Put(edges, <<pid, name>>, nextId)
    /\ given' = given \cup {nextId}

CreateFile(path, reserved) ==
    /\ Unlocked /\ path # <<>>
    /\ LET pid == ParentOf(path)
           name == Last(path)
       IN /\ IsDir(pid) /\ name \notin DOMAIN dirs[pid].kids
          /\ AllocateId(reserved)
          /\ CommitNew(pid, name, Inode(pid, name, FALSE))
          /\ dirs' = AddKid(dirs, pid, name, nextId)
    /\ UNCHANGED <<mkdir, up, kernel>>

\* CreateFile whose commit fails.
CreateFileFails(path, reserved) ==
    /\ Unlocked /\ path # <<>>
    /\ IsDir(ParentOf(path)) /\ Last(path) \notin DOMAIN dirs[ParentOf(path)].kids
    /\ AllocateId(reserved)
    /\ UNCHANGED <<dirs, inodes, edges, given, mkdir, up, kernel>>

\* CreateFile, or Rename of something, to below a file.
BelowFile(path) ==
    /\ ~kernel /\ Unlocked /\ path # <<>>
    /\ ParentOf(path) # NoId /\ ParentOf(path) \notin DOMAIN dirs
    /\ dirs' = Put(dirs, ParentOf(path), DefaultEntry)
    /\ UNCHANGED <<ids, inodes, edges, mkdir, up, kernel>>

\* CreateDirectory takes the lock.
Mkdir(path, rec) ==
    /\ Unlocked /\ path # <<>>
    /\ ~kernel \/ \A i \in 1 .. Len(path) - 1 :
                       LET id == Resolve(SubSeq(path, 1, i)) IN id = NoId \/ IsDir(id)
    /\ mkdir' = [cur |-> Root, rest |-> path, rec |-> rec]
    /\ UNCHANGED <<memory, store, up, given, kernel>>

\* One turn of its loop: not a directory; an entry that exists; a parent that does
\* not; a new directory; a commit that fails.
MkdirRefused ==
    /\ up /\ mkdir # NoMkdir /\ ~IsDir(mkdir.cur)
    /\ dirs' = Put(dirs, mkdir.cur, At(dirs, mkdir.cur))
    /\ mkdir' = NoMkdir
    /\ UNCHANGED <<ids, inodes, edges, up, kernel>>

Missing == IsDir(mkdir.cur) /\ Head(mkdir.rest) \notin DOMAIN dirs[mkdir.cur].kids
Advance(id) ==
    mkdir' = IF Len(mkdir.rest) = 1 THEN NoMkdir
             ELSE [mkdir EXCEPT !.cur = id, !.rest = Tail(@)]

MkdirEnter ==
    /\ up /\ mkdir # NoMkdir /\ IsDir(mkdir.cur) /\ ~Missing
    /\ Advance(dirs[mkdir.cur].kids[Head(mkdir.rest)])
    /\ UNCHANGED <<memory, store, up, given, kernel>>

MkdirNoParent ==
    /\ up /\ mkdir # NoMkdir /\ Missing
    /\ ~mkdir.rec /\ Len(mkdir.rest) > 1
    /\ mkdir' = NoMkdir
    /\ UNCHANGED <<memory, store, up, given, kernel>>

MkdirMake(reserved) ==
    /\ up /\ mkdir # NoMkdir /\ Missing
    /\ mkdir.rec \/ Len(mkdir.rest) = 1
    /\ LET inode == Inode(mkdir.cur, Head(mkdir.rest), TRUE)
       IN /\ AllocateId(reserved)
          /\ CommitNew(mkdir.cur, inode.name, inode)
          /\ dirs' = Put(AddKid(dirs, mkdir.cur, inode.name, nextId), nextId,
                         [inode |-> inode, kids |-> EmptyMap])
    /\ Advance(nextId)
    /\ UNCHANGED <<up, kernel>>

MkdirFails(reserved) ==
    /\ up /\ mkdir # NoMkdir /\ Missing
    /\ mkdir.rec \/ Len(mkdir.rest) = 1
    /\ AllocateId(reserved)
    /\ mkdir' = NoMkdir
    /\ UNCHANGED <<dirs, inodes, edges, given, up, kernel>>

\* The client sends the id it got from CreateFile.
CompleteFile(id, size) ==
    /\ Unlocked
    /\ id \in DOMAIN inodes /\ ~inodes[id].isdir
    /\ inodes' = [inodes EXCEPT ![id] = [@ EXCEPT !.size = size, !.done = TRUE]]
    /\ UNCHANGED <<memory, edges, stored, mkdir, up, given, kernel>>

\* The parent of a directory is the one its inode names, that of a file the one
\* on the path.
OwnParent(path) ==
    LET id == Resolve(path)
    IN IF id \in DOMAIN dirs THEN dirs[id].inode.parent ELSE ParentOf(path)
OwnName(path) ==
    LET id == Resolve(path)
    IN IF id \in DOMAIN dirs THEN dirs[id].inode.name ELSE Last(path)

\* Slip: only the directory itself is deleted from the store.
Delete_KeepsSubtree(path, rec) ==
    /\ Unlocked /\ path # <<>> /\ Resolve(path) # NoId
    /\ LET id == Resolve(path)
           pid == OwnParent(path)
           tree == Subtree(id)
           rest == IF pid \in DOMAIN dirs THEN DelKid(dirs, pid, Last(path)) ELSE dirs
       IN /\ rec \/ DOMAIN At(dirs, id).kids = {}
          /\ inodes' = Del(inodes, id)
          /\ edges' = Del(edges, <<pid, Last(path)>>)
          /\ dirs' = [d \in DOMAIN rest \ tree |-> rest[d]]
    /\ UNCHANGED <<ids, mkdir, up, kernel>>

Delete(path, rec) ==
    /\ Unlocked /\ path # <<>> /\ Resolve(path) # NoId
    /\ LET id == Resolve(path)
           pid == OwnParent(path)
           tree == Subtree(id)
           gone == {<<pid, Last(path)>>} \cup UNION {{d} \X DOMAIN dirs[d].kids : d \in tree \cap DOMAIN dirs}
           rest == IF pid \in DOMAIN dirs THEN DelKid(dirs, pid, Last(path)) ELSE dirs
       IN /\ rec \/ DOMAIN At(dirs, id).kids = {}
          /\ inodes' = [i \in DOMAIN inodes \ tree |-> inodes[i]]
          /\ edges' = [e \in DOMAIN edges \ gone |-> edges[e]]
          /\ dirs' = [d \in DOMAIN rest \ tree |-> rest[d]]
    /\ UNCHANGED <<ids, mkdir, up, kernel>>

\* Slip: the inode keeps the name and the parent it had.
Moved_KeepsInode(inode, pid, name) == inode
Moved(inode, pid, name) == [inode EXCEPT !.parent = pid, !.name = name]

\* Slip: the old edge is kept.
MovedEdges_Adds(old, new, id) == Put(edges, new, id)
MovedEdges(old, new, id) == Put(Del(edges, old), new, id)

Rename(src, dst) ==
    /\ Unlocked /\ src # <<>> /\ dst # <<>>
    /\ ~kernel \/ ~IsPrefix(src, dst)
    /\ LET id == Resolve(src)
           pid == ParentOf(dst)
           name == Last(dst)
           inMemory == id \in DOMAIN dirs
           inode == Moved(IF inMemory THEN dirs[id].inode ELSE inodes[id], pid, name)
           from == DelKid(dirs, OwnParent(src), OwnName(src))
           to == AddKid(from, pid, name, id)
       IN /\ id # NoId /\ IsDir(pid) /\ name \notin DOMAIN dirs[pid].kids
          /\ inMemory \/ id \in DOMAIN inodes
          /\ inodes' = Put(inodes, id, inode)
          /\ edges' = MovedEdges(<<OwnParent(src), OwnName(src)>>, <<pid, name>>, id)
          /\ dirs' = IF inMemory THEN [to EXCEPT ![id].inode = inode] ELSE to
    /\ UNCHANGED <<ids, mkdir, up, kernel>>

\* The ids that looking a file up may have yielded: that of a default inode is NoId.
Found(id) == id \in given \/ (id = NoId /\ \E d \in DOMAIN dirs : d # NoId /\ ~IsDir(d))

\* TruncateFile looks the file up, then calls UpdateSize with the id it found; in
\* between anything may have happened to the file.
UpdateSize(id, size) ==
    /\ Unlocked
    /\ Found(id) /\ id \in DOMAIN inodes /\ id \notin DOMAIN dirs
    /\ inodes' = [inodes EXCEPT ![id].size = size]
    /\ UNCHANGED <<memory, edges, stored, mkdir, up, given, kernel>>

\* Where memory has an inode that is no directory, it is changed there first; the
\* commit may fail.
UpdateSizeInMemory(id, size, ok) ==
    /\ Unlocked
    /\ Found(id) /\ id \in DOMAIN dirs /\ ~IsDir(id)
    /\ dirs' = [dirs EXCEPT ![id].inode.size = size]
    /\ inodes' = IF ok THEN Put(inodes, id, dirs'[id].inode) ELSE inodes
    /\ UNCHANGED <<ids, edges, mkdir, up, kernel>>

-----------------------------------------------------------------------------
\* Crash and recovery

\* The directories of the store, with the entries its edges give them.
Rebuilt ==
    [id \in {i \in DOMAIN inodes : inodes[i].isdir} |->
       [inode |-> inodes[id],
        kids |-> [n \in {n \in Names : <<id, n>> \in DOMAIN edges} |-> edges[<<id, n>>]]]]

\* The id a recovered tree starts from; without the stored one, or when GetNextId
\* fails, the id after that of the last directory.
ScannedId == Max(DOMAIN Rebuilt \cup {Root}) + 1
RecoveredId == IF stored > 0 THEN stored ELSE ScannedId
RecoveredIds == {RecoveredId} \cup IF CounterFails THEN {ScannedId} ELSE {}

\* FileSystemMaster::Init.  The first time there is no root yet.
Recover ==
    /\ ~up
    /\ up' = TRUE
    /\ nextId' \in RecoveredIds /\ allocEnd' = nextId'
    /\ IF Root \in DOMAIN Rebuilt
       THEN /\ dirs' = Rebuilt
            /\ UNCHANGED inodes
       ELSE /\ dirs' = Put(Rebuilt, Root, RootEntry)
            /\ inodes' = Put(inodes, Root, RootEntry.inode)
    /\ UNCHANGED <<edges, stored, mkdir, given, kernel>>

\* The process dies; what was committed stays.
Crash ==
    /\ up
    /\ up' = FALSE /\ mkdir' = NoMkdir
    /\ dirs' = EmptyMap /\ nextId' = 2 /\ allocEnd' = 2
    /\ UNCHANGED <<store, given, kernel>>

-----------------------------------------------------------------------------

Init ==
    /\ dirs = EmptyMap /\ nextId = 2 /\ allocEnd = 2
    /\ inodes = EmptyMap /\ edges = EmptyMap /\ stored = 0
    /\ mkdir = NoMkdir /\ up = FALSE /\ given = {} /\ kernel \in BOOLEAN

Paths == BoundedSeq(Names, MaxDepth)

Next ==
    \/ \E p \in Paths, r \in BOOLEAN : CreateFile(p, r)
    \/ \E p \in Paths, r \in BOOLEAN : CreateFileFails(p, r)
    \/ \E p \in Paths : BelowFile(p)
    \/ \E p \in Paths, rec \in BOOLEAN : Mkdir(p, rec)
    \/ MkdirRefused
    \/ MkdirEnter
    \/ MkdirNoParent
    \/ \E r \in BOOLEAN : MkdirMake(r)
    \/ \E r \in BOOLEAN : MkdirFails(r)
    \/ \E id \in given, size \in Sizes[kernel] : CompleteFile(id, size)
    \/ \E p \in Paths, rec \in BOOLEAN : Delete(p, rec)
    \/ \E p, q \in Paths : Rename(p, q)
    \/ \E id \in given \cup {NoId}, size \in Sizes[kernel] : UpdateSize(id, size)
    \/ \E id \in given \cup {NoId}, size \in Sizes[kernel], ok \in BOOLEAN : UpdateSizeInMemory(id, size, ok)
    \/ Recover
    \/ Crash

Spec == Init /\ [][Next]_vars

-----------------------------------------------------------------------------
\* Properties

InodeRecord == [parent : Nat, name : Names \cup {""}, isdir : BOOLEAN, size : Nat, done : BOOLEAN]

TypeOK ==
    /\ \A id \in DOMAIN dirs : /\ id \in Nat /\ dirs[id].inode \in InodeRecord
                               /\ dirs[id].kids \in [DOMAIN dirs[id].kids -> Nat \ {NoId}]
                               /\ DOMAIN dirs[id].kids \subseteq Names
    /\ inodes \in [DOMAIN inodes -> InodeRecord] /\ DOMAIN inodes \subseteq Nat
    /\ edges \in [DOMAIN edges -> Nat \ {NoId}] /\ DOMAIN edges \subseteq Nat \X Names
    /\ nextId \in Nat /\ allocEnd \in Nat /\ stored \in Nat /\ given \in SUBSET Nat
    /\ up \in BOOLEAN /\ kernel \in BOOLEAN
    /\ mkdir \in [cur : Nat, rest : Seq(Names), rec : BOOLEAN]

\* "Persist first, then update memory": at every moment, whatever clients ask for
\* and whichever commits fail, the directories in memory are those a restart would
\* read from the store, with the same entries.
MemoryMatchesStore ==
    up => Rebuilt = [id \in {d \in DOMAIN dirs : IsDir(d)} |-> dirs[id]]

\* A block's id is made of its file's inode id, and neither workers nor BlockMaster
\* forget the blocks of a deleted directory: an inode id is never given out again,
\* not even after a crash at this moment.
IdsAreUnique == \A id \in given : id < RecoveredId /\ (up => id < nextId)

\* Behind FUSE the store is a tree: an edge leads from a directory to an inode that names it as
\* its parent, every inode but the root has its edge, and going from parent to parent
\* leads to the root: no inodes other than it have all their parents among them.  So
\* Delete and Rename, which go by the inode for directories and by the path for
\* files, mean the same edge.
TreeIsSound == kernel =>
    /\ \A e \in DOMAIN edges : /\ e[1] \in DOMAIN inodes /\ inodes[e[1]].isdir
                               /\ edges[e] \in DOMAIN inodes
                               /\ <<inodes[edges[e]].parent, inodes[edges[e]].name>> = e
    /\ \A id \in DOMAIN inodes \ {Root} :
          /\ <<inodes[id].parent, inodes[id].name>> \in DOMAIN edges
          /\ edges[<<inodes[id].parent, inodes[id].name>>] = id
    /\ \A S \in SUBSET (DOMAIN inodes \ {Root}) : (\A id \in S : inodes[id].parent \in S) => S = {}

\* What the store has at a path.
StoredAt(path) == Walk(edges, path)

Attributes(id) == [isdir |-> inodes[id].isdir, size |-> inodes[id].size, done |-> inodes[id].done]

\* The paths that lead to something, none longer than there are edges.
StoredPaths == {p \in BoundedSeq(Names, Cardinality(DOMAIN edges)) : StoredAt(p) # NoId}

DurableTree ==
    [p \in StoredPaths |->
       IF p = <<>> THEN [isdir |-> TRUE, size |-> 0, done |-> TRUE] ELSE Attributes(StoredAt(p))]

Abstract == INSTANCE FileTree WITH tree <- DurableTree, Sizes <- Sizes[TRUE]

\* For clients behind FUSE, what the store has is a FileTree: create, mkdir, delete,
\* rename, truncate and complete change it as their names say and at one moment, and
\* neither crashes nor recovery change it at all.
ImplementsFileTree == Abstract!Init /\ [][kernel => Abstract!Next]_DurableTree

=============================================================================
