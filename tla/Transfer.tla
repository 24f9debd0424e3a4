------------------------------ MODULE Transfer ------------------------------
(***************************************************************************)
(* Blocks and the under file system: DataMover's tasks (worker/            *)
(* data_mover.cpp, ExecuteTask) and the worker's CacheBlock, which move    *)
(* bytes between a file and a block, beside callers that delete, rename    *)
(* and make directories there.                                             *)
(*                                                                         *)
(* A task is a thread's call on the block store or the under file system   *)
(* at a time; between two of them the others run.  The block store is the  *)
(* memory tier, a block the bytes it was allocated; eviction may take one  *)
(* at any time.  MaxFaults requests may fail that need not have.           *)
(***************************************************************************)
EXTENDS Ufs, FiniteSets

CONSTANTS Tasks,       \* threads
          Blocks,
          Paths,       \* paths in requests
          Cwd,         \* the worker's working directory
          Offsets, Lengths,
          Files,       \* path -> bytes: the files at the start
          Cached,      \* block -> bytes: the blocks at the start
          MaxCalls, MaxFaults

ASSUME CachedAssumption == DOMAIN Cached \subseteq Blocks

VARIABLES blocks,   \* block -> bytes
          task,     \* what each thread is doing
          calls, faults,
          solo      \* a task that has been alone since it began, and what there was then

vars == <<ufs, blocks, task, calls, faults, solo>>

Idle == [pc |-> "idle", op |-> "none", path |-> <<>>, to |-> <<>>, block |-> CHOOSE b \in Blocks : TRUE,
         off |-> 0, len |-> 0, buf |-> <<>>, todo |-> {}, rec |-> FALSE, failed |-> FALSE, faulted |-> FALSE]
Nobody == [task |-> {}, files |-> EmptyMap, dirs |-> {}, blocks |-> EmptyMap]

Init ==
    /\ kind \in {"local", "s3"}
    /\ \E paths \in {SetToSeq(DOMAIN Files)} :
          /\ data = [i \in DOMAIN paths |-> Files[paths[i]]]
          /\ names = [p \in DOMAIN Files \cup (IF kind = "local" THEN UNION {Ancestors(f) : f \in DOMAIN Files} ELSE {}) |->
                        IF p \in DOMAIN Files THEN CHOOSE i \in DOMAIN paths : paths[i] = p ELSE Dir]
    /\ open = EmptyMap
    /\ blocks = Cached
    /\ task = [t \in Tasks |-> Idle]
    /\ calls = 0 /\ faults = 0
    /\ solo = Nobody

-----------------------------------------------------------------------------
(* Calls *)

Begin(t, s) ==
    /\ task[t].pc = "idle"
    /\ calls < MaxCalls
    /\ calls' = calls + 1
    /\ task' = [task EXCEPT ![t] = s]
    /\ solo' = IF \A u \in Tasks : task[u].pc = "idle"
               THEN [task |-> {t}, files |-> Contents, dirs |-> Directories, blocks |-> blocks]
               ELSE Nobody
    /\ UNCHANGED <<ufs, blocks, faults>>

BeginPreload(t) ==
    \E p \in Paths, b \in Blocks, o \in Offsets, n \in Lengths :
        Begin(t, [Idle EXCEPT !.pc = "open", !.op = "preload", !.path = p, !.block = b, !.off = o, !.len = n])

\* CacheBlock makes an under file system at all but the last name of the path.  At
\* the root of the local one that is "", and the name is looked up in Cwd.
CacheBlock(t) ==
    \E p \in Paths, b \in Blocks, o \in Offsets, n \in Lengths :
        Begin(t, [Idle EXCEPT !.pc = "open", !.op = "cache", !.block = b, !.off = o, !.len = n,
                              !.path = IF kind = "local" /\ Len(p) = 1 THEN Cwd \o p ELSE p])

BeginPersist(t) ==
    \E p \in Paths, b \in Blocks, o \in Offsets :
        Begin(t, [Idle EXCEPT !.pc = "meta", !.op = "persist", !.path = p, !.block = b, !.off = o])

\* A recursive Delete of objects lists them first.
BeginDelete(t) ==
    \E p \in Paths, rec \in BOOLEAN :
        Begin(t, [Idle EXCEPT !.pc = IF rec THEN "sweep" ELSE "self", !.op = "delete", !.path = p, !.rec = rec,
                              !.todo = IF rec /\ kind = "s3" THEN Below(p) ELSE {}])

BeginRename(t) ==
    \E p, q \in Paths : Begin(t, [Idle EXCEPT !.pc = "rename", !.op = "rename", !.path = p, !.to = q])

BeginMkdir(t) ==
    \E p \in Paths, rec \in BOOLEAN :
        Begin(t, [Idle EXCEPT !.pc = "mkdir", !.op = "mkdir", !.path = p, !.rec = rec])

\* The block is evicted, from under a task if there is one.
Evict(b) ==
    /\ b \in DOMAIN blocks
    /\ blocks' = Del(blocks, b)
    /\ solo' = Nobody
    /\ UNCHANGED <<ufs, task, calls, faults>>

-----------------------------------------------------------------------------
(* Steps.  A step that fails has failed TRUE from then on. *)

Goto(t, l) == task' = [task EXCEPT ![t] = [@ EXCEPT !.pc = l]]
Fail(t, l) == task' = [task EXCEPT ![t] = [@ EXCEPT !.pc = l, !.failed = TRUE]]
Quiet == UNCHANGED <<kind, calls, faults, solo>>
File(t) == task[t].path

\* Neither the task nor the DataMover has an under file system.
NoUfs(t) ==
    /\ task[t].pc \in {"open", "meta"} /\ task[t].op # "cache"
    /\ task' = [task EXCEPT ![t] = [@ EXCEPT !.pc = "ret", !.failed = TRUE, !.faulted = TRUE]]
    /\ Quiet /\ UNCHANGED <<names, data, open, blocks>>

OpenFileStep(t) ==
    /\ task[t].pc = "open"
    /\ IF CanOpen(File(t)) THEN Open(t, File(t)) /\ Goto(t, "read")
       ELSE Fail(t, "ret") /\ UNCHANGED <<names, data, open>>
    /\ Quiet /\ UNCHANGED blocks

\* mistake: a failed read returns before the file is closed
ReadStep_Leaks(t) ==
    /\ task[t].pc = "read"
    /\ IF CanRead(t)
       THEN /\ task' = [task EXCEPT ![t] = [@ EXCEPT !.pc = "close", !.buf = ReadBytes(t, task[t].off, task[t].len)]]
            /\ AfterRead(t)
       ELSE Fail(t, "ret") /\ UNCHANGED <<names, data, open>>
    /\ Quiet /\ UNCHANGED blocks

ReadStep(t) ==
    /\ task[t].pc = "read"
    /\ IF CanRead(t)
       THEN /\ task' = [task EXCEPT ![t] = [@ EXCEPT !.pc = "close", !.buf = ReadBytes(t, task[t].off, task[t].len)]]
            /\ AfterRead(t)
       ELSE Fail(t, "close") /\ UNCHANGED <<names, data, open>>
    /\ Quiet /\ UNCHANGED blocks

\* Close's result is ignored.
AfterClose(t) == IF task[t].failed \/ task[t].op = "persist" THEN "ret" ELSE "ensure"
CloseStep(t) ==
    /\ task[t].pc = "close"
    /\ Close(t, TRUE)
    /\ Goto(t, AfterClose(t))
    /\ Quiet /\ UNCHANGED blocks

\* EnsureBlock of the bytes read
Ensure(t) ==
    /\ task[t].pc = "ensure"
    /\ blocks' = IF task[t].block \in DOMAIN blocks THEN blocks
                 ELSE Put(blocks, task[t].block, Zeros(Len(task[t].buf)))
    /\ Goto(t, "store")
    /\ Quiet /\ UNCHANGED <<names, data, open>>

\* WriteBlock: the block may be gone, or too small
Store(t) ==
    /\ task[t].pc = "store"
    /\ LET b == task[t].block
       IN IF b \in DOMAIN blocks /\ Len(task[t].buf) <= Len(blocks[b])
          THEN /\ blocks' = [blocks EXCEPT ![b] = Overlay(@, 0, task[t].buf)]
               /\ Goto(t, "ret")
          ELSE Fail(t, "ret") /\ UNCHANGED blocks
    /\ Quiet /\ UNCHANGED <<names, data, open>>

\* GetBlockMeta
Meta(t) ==
    /\ task[t].pc = "meta"
    /\ IF task[t].block \in DOMAIN blocks
       THEN task' = [task EXCEPT ![t] = [@ EXCEPT !.pc = "fetch", !.len = Len(blocks[task[t].block])]]
       ELSE Fail(t, "ret")
    /\ Quiet /\ UNCHANGED <<names, data, open, blocks>>

\* ReadBlock of the length the block had; zeros beyond the one it has
Fetch(t) ==
    /\ task[t].pc = "fetch"
    /\ IF task[t].block \in DOMAIN blocks
       THEN task' = [task EXCEPT ![t] =
                       [@ EXCEPT !.pc = "create",
                                 !.buf = Overlay(Zeros(task[t].len), 0, Slice(blocks[task[t].block], 0, task[t].len))]]
       ELSE Fail(t, "ret")
    /\ Quiet /\ UNCHANGED <<names, data, open, blocks>>

CreateStep(t) ==
    /\ task[t].pc = "create"
    /\ IF CanCreate(File(t)) THEN Create(t, File(t)) /\ Goto(t, "write")
       ELSE Fail(t, "ret") /\ UNCHANGED <<names, data, open>>
    /\ Quiet /\ UNCHANGED blocks

WriteStep(t) ==
    /\ task[t].pc = "write"
    /\ Write(t, task[t].buf, task[t].off)
    /\ Goto(t, "close")
    /\ Quiet /\ UNCHANGED blocks

-----------------------------------------------------------------------------
(* Delete, Rename, Mkdir *)

\* remove_all takes the leaves it finds, S3's Delete the objects it listed
SweepStep(t) ==
    /\ task[t].pc = "sweep"
    /\ \E q \in IF kind = "local" THEN LocalRemovable(File(t)) ELSE task[t].todo :
          /\ IF kind = "local" THEN LocalRemove(q) ELSE S3Remove(q)
          /\ task' = [task EXCEPT ![t] = [@ EXCEPT !.todo = @ \ {q}]]
    /\ Quiet /\ UNCHANGED blocks

SweepEnds(t) ==
    /\ task[t].pc = "sweep"
    /\ (IF kind = "local" THEN LocalRemovable(File(t)) ELSE task[t].todo) = {}
    /\ Goto(t, "self")
    /\ Quiet /\ UNCHANGED <<names, data, open, blocks>>

\* the path itself; there need be nothing
DeleteSelf(t) ==
    /\ task[t].pc = "self"
    /\ IF kind = "s3" THEN S3Remove(File(t)) /\ Goto(t, "ret")
       ELSE IF LocalCanRemove(File(t)) THEN LocalRemove(File(t)) /\ Goto(t, "ret")
       ELSE Fail(t, "ret") /\ UNCHANGED <<names, data, open>>
    /\ Quiet /\ UNCHANGED blocks

\* mistake: a copy that fails is taken for one that succeeded
RenameStep_Unchecked(t) ==
    /\ task[t].pc = "rename"
    /\ IF kind = "local" /\ LocalCanRename(File(t), task[t].to)
       THEN LocalRename(File(t), task[t].to) /\ Goto(t, "ret")
       ELSE IF kind = "s3" /\ S3CanCopy(File(t), task[t].to)
       THEN S3Copy(File(t), task[t].to) /\ Goto(t, "drop")
       ELSE Goto(t, "drop") /\ UNCHANGED <<names, data, open>>
    /\ Quiet /\ UNCHANGED blocks

RenameStep(t) ==
    /\ task[t].pc = "rename"
    /\ IF kind = "local" /\ LocalCanRename(File(t), task[t].to)
       THEN LocalRename(File(t), task[t].to) /\ Goto(t, "ret")
       ELSE IF kind = "s3" /\ S3CanCopy(File(t), task[t].to)
       THEN S3Copy(File(t), task[t].to) /\ Goto(t, "drop")
       ELSE Fail(t, "ret") /\ UNCHANGED <<names, data, open>>
    /\ Quiet /\ UNCHANGED blocks

DropSource(t) ==
    /\ task[t].pc = "drop"
    /\ S3Remove(File(t))
    /\ Goto(t, "ret")
    /\ Quiet /\ UNCHANGED blocks

MkdirStep(t) ==
    /\ task[t].pc = "mkdir"
    /\ IF kind = "s3" THEN S3Mkdir(File(t)) /\ Goto(t, "ret")
       ELSE IF LocalCanMkdir(File(t), task[t].rec) THEN LocalMkdir(File(t)) /\ Goto(t, "ret")
       ELSE Fail(t, "ret") /\ UNCHANGED <<names, data, open>>
    /\ Quiet /\ UNCHANGED blocks

Return(t) ==
    /\ task[t].pc = "ret"
    /\ task' = [task EXCEPT ![t] = Idle]
    /\ solo' = IF t \in solo.task THEN Nobody ELSE solo
    /\ UNCHANGED <<ufs, blocks, calls, faults>>

-----------------------------------------------------------------------------
(* Faults: a request or a system call that fails *)

Fault(t, l, failed) ==
    /\ faults < MaxFaults
    /\ faults' = faults + 1
    /\ task' = [task EXCEPT ![t] = [@ EXCEPT !.pc = l, !.failed = failed \/ @, !.faulted = TRUE]]
    /\ UNCHANGED <<kind, blocks, calls, solo>>

\* Most end the call.  A read or a write is still followed by Close, and S3's Delete
\* does not look at what the last RemoveObject says.
StepFails(t) ==
    /\ \/ /\ task[t].pc \in {"open", "ensure", "meta", "fetch", "create", "sweep", "rename", "drop", "mkdir"}
          /\ Fault(t, "ret", TRUE)
       \/ task[t].pc = "self" /\ Fault(t, "ret", kind = "local")
       \/ task[t].pc \in {"read", "write"} /\ Fault(t, "close", TRUE)
    /\ UNCHANGED <<names, data, open>>

\* Create fails when it has made the directories.
CreateFails(t) ==
    /\ task[t].pc = "create" /\ kind = "local" /\ LocalCanCreate(File(t))
    /\ Fault(t, "ret", TRUE)
    /\ LocalCreateFails(File(t))

\* Close fails, and nobody looks.
CloseFails(t) ==
    /\ task[t].pc = "close"
    /\ Fault(t, AfterClose(t), FALSE)
    /\ Close(t, FALSE)

\* pwrite(2) writes less than asked for, and nobody looks.
ShortWrite(t) ==
    /\ task[t].pc = "write" /\ kind = "local" /\ Len(task[t].buf) > 1
    /\ Fault(t, "close", FALSE)
    /\ Write(t, Front(task[t].buf), task[t].off)

-----------------------------------------------------------------------------

Next ==
    \/ \E b \in Blocks : Evict(b)
    \/ \E t \in Tasks :
         \/ BeginPreload(t) \/ CacheBlock(t) \/ BeginPersist(t)
         \/ BeginDelete(t) \/ BeginRename(t) \/ BeginMkdir(t)
         \/ NoUfs(t) \/ OpenFileStep(t) \/ ReadStep(t) \/ CloseStep(t) \/ Ensure(t) \/ Store(t)
         \/ Meta(t) \/ Fetch(t) \/ CreateStep(t) \/ WriteStep(t)
         \/ SweepStep(t) \/ SweepEnds(t) \/ DeleteSelf(t) \/ RenameStep(t) \/ DropSource(t) \/ MkdirStep(t)
         \/ StepFails(t) \/ CreateFails(t) \/ CloseFails(t) \/ ShortWrite(t) \/ Return(t)

Spec == Init /\ [][Next]_vars

-----------------------------------------------------------------------------
(* Properties *)

TypeOK ==
    /\ kind \in {"local", "s3"}
    /\ \A p \in DOMAIN names : names[p] \in DOMAIN data \cup (IF kind = "local" THEN {Dir} ELSE {})
    /\ data \in Seq(Seq(Nat))
    /\ DOMAIN open \subseteq Tasks
    /\ DOMAIN blocks \subseteq Blocks /\ \A b \in DOMAIN blocks : blocks[b] \in Seq(Nat)
    /\ \A t \in Tasks : task[t].buf \in Seq(Nat) /\ task[t].path \in Seq(STRING)
    /\ calls \in 0 .. MaxCalls /\ faults \in 0 .. MaxFaults

\* Whichever step of a task fails, the handle it opened is closed before the task
\* returns: the tables of open files do not grow.
HandlesAreHeld == \A t \in DOMAIN open : task[t].pc \in {"read", "write", "close"}

\* What somebody reads of an object is what one persist or one rename stored, whole:
\* objects do not change, and one takes a key with all the bytes of the task that
\* closes its handle, or all those of the object renamed.
ObjectsAppearWhole ==
    [][kind = "s3" =>
         /\ \A i \in DOMAIN data : data'[i] = data[i]
         /\ \A p \in DOMAIN names' : (p \in DOMAIN names /\ names'[p] = names[p]) \/
               \E t \in Tasks :
                  \/ /\ task[t].pc = "close" /\ task[t].path = p
                     /\ data'[names'[p]] = Zeros(task[t].off) \o task[t].buf
                  \/ /\ task[t].pc = "rename" /\ task[t].to = p /\ task[t].path \in DOMAIN names
                     /\ data'[names'[p]] = data[names[task[t].path]]]_vars

Alone(t) == t \in solo.task /\ task[t].pc = "ret"
FilesAsBefore == Contents = solo.files /\ Directories = solo.dirs

\* A task that runs alone does to files and blocks what it is for.  A preload stores
\* the bytes it was asked for, to the end of the file, over the beginning of the
\* block, and fails only for cause.  A persist leaves in the file the block and
\* nothing else, zeros before it; when a request failed the object is as before, while
\* a local file may have lost its bytes.  The directories are those of before, and of a
\* local file those above it, which stay when the file cannot be made.
TransferIsExact ==
    \A t \in Tasks : Alone(t) =>
        LET me == task[t]
            bytes == Slice(solo.files[me.path], me.off, me.len)
            fits == me.block \notin DOMAIN solo.blocks \/ Len(bytes) <= Len(solo.blocks[me.block])
            stored == Zeros(me.off) \o solo.blocks[me.block]
        IN /\ me.op \in {"preload", "cache"} =>
                 /\ FilesAsBefore
                 /\ IF me.failed THEN blocks = solo.blocks
                    ELSE blocks = Put(solo.blocks, me.block,
                                      IF me.block \in DOMAIN solo.blocks
                                      THEN Overlay(solo.blocks[me.block], 0, bytes) ELSE bytes)
                 /\ ~me.faulted => (me.failed <=> me.path \notin DOMAIN solo.files \/ ~fits)
           /\ me.op = "persist" =>
                 /\ blocks = solo.blocks
                 /\ Del(Contents, me.path) = Del(solo.files, me.path)
                 /\ ~me.failed /\ ~me.faulted => Contents[me.path] = stored
                 /\ me.failed \/ me.faulted =>
                       \/ Contents = solo.files
                       \/ kind = "local" /\ IsPrefix(Contents[me.path], stored)
                 /\ Directories \in {solo.dirs} \cup IF kind = "local" THEN {solo.dirs \cup Ancestors(me.path)} ELSE {}

\* A caller that is alone finds what it asked for.  After Delete nothing is there or
\* below, unless a request failed, and nothing else is gone; after Rename the bytes are
\* under the new name, and when it fails they are still under the old one; and what
\* Exists, GetFileInfo and ListDir, which ask in different ways, say of a path agrees,
\* but for the size of a directory.
AdminIsExact ==
    \A t \in Tasks : Alone(t) =>
        LET me == task[t]
            gone == {p \in DOMAIN solo.files : p = me.path \/ IsStrictPrefix(me.path, p)}
        IN /\ me.op = "delete" =>
                 /\ \A p \in DOMAIN solo.files \ gone : p \in DOMAIN Contents
                 /\ \A p \in DOMAIN Contents : p \in DOMAIN solo.files /\ Contents[p] = solo.files[p]
                 /\ ~me.failed /\ ~me.faulted /\ (me.rec \/ kind = "local") =>
                       ~Exists(me.path) /\ ListDir(me.path) = {}
           /\ me.op = "rename" =>
                 /\ me.failed => \A p \in DOMAIN solo.files \ {me.to} :
                                     p \in DOMAIN Contents /\ Contents[p] = solo.files[p]
                 /\ ~me.failed /\ me.path \in DOMAIN solo.files =>
                       Contents = Put(Del(solo.files, me.path), me.to, solo.files[me.path])
           /\ me.op = "mkdir" => Contents = solo.files
           /\ \A p \in Paths : /\ Exists(p) <=> GetFileInfo(p) # {}
                               /\ Exists(p) <=> \E e \in ListDir(Front(p)) : e.name = Last(p)
                               /\ \A i \in GetFileInfo(p) : \E e \in ListDir(Front(p)) :
                                     e.name = Last(p) /\ e.dir = i.dir /\ (i.dir \/ e.size = i.size)

=============================================================================
