-------------------------------- MODULE Ufs ---------------------------------
(***************************************************************************)
(* The under file systems: the UnderFileSystem interface (ufs/ufs.h) as    *)
(* LocalUnderFileSystem and S3UnderFileSystem implement it.                *)
(*                                                                         *)
(* A path is a sequence of names.  names has the directories and files of  *)
(* the local file system, or the objects of the bucket.  A local file is   *)
(* changed in place, under any handle on it; an object is never changed, a *)
(* new one takes its key.  A handle is told apart by the caller that holds *)
(* it, who has one at a time.                                              *)
(***************************************************************************)
EXTENDS Maps, SequencesExt, Naturals

VARIABLES kind,    \* "local" or "s3": which one UfsFactory made
          names,   \* path -> Dir, or a position of data
          data,    \* the contents of files and objects
          open     \* fd_map_ or open_files_: handle -> what it is open on

ufs == <<kind, names, data, open>>

Dir == 0
Zeros(n) == [i \in 1 .. n |-> 0]
Smaller(a, b) == IF a < b THEN a ELSE b

\* the bytes at [off, off + n) of s, as many as there are
Slice(s, off, n) == SubSeq(s, off + 1, Smaller(off + n, Len(s)))

\* s with bytes written at off, a gap before them filled with zeros
Overlay(s, off, bytes) ==
    LET end == off + Len(bytes)
        room == IF Len(s) < end THEN s \o Zeros(end - Len(s)) ELSE s
    IN [i \in DOMAIN room |-> IF i \in off + 1 .. end THEN bytes[i - off] ELSE room[i]]

Ancestors(p) == {SubSeq(p, 1, i) : i \in 1 .. Len(p) - 1}
Below(p) == {q \in DOMAIN names : IsStrictPrefix(p, q)}
IsFile(p) == p \in DOMAIN names /\ names[p] # Dir
IsDirectory(p) == p = <<>> \/ (p \in DOMAIN names /\ names[p] = Dir)

\* the contents of the files, by path
Contents == [p \in {q \in DOMAIN names : IsFile(q)} |-> data[names[p]]]
Directories == {p \in DOMAIN names : ~IsFile(p)}

-----------------------------------------------------------------------------
(* LocalUnderFileSystem; a call that fails changes nothing, except Create *)

\* open(2) for reading, of a directory too
LocalOpen(h, p) ==
    /\ open' = Put(open, h, [file |-> names[p]])
    /\ UNCHANGED <<names, data>>

\* mistake: an existing file keeps its bytes
LocalCreate_Keeps(h, p) ==
    IF IsFile(p)
    THEN /\ open' = Put(open, h, [file |-> names[p]])
         /\ UNCHANGED <<names, data>>
    ELSE /\ names' = [q \in DOMAIN names \cup Ancestors(p) \cup {p} |->
                         IF q = p THEN Len(data) + 1 ELSE IF q \in DOMAIN names THEN names[q] ELSE Dir]
         /\ data' = Append(data, <<>>)
         /\ open' = Put(open, h, [file |-> Len(data) + 1])

\* create_directories, then open(2) with O_CREAT and O_TRUNC
LocalCanCreate(p) == ~IsDirectory(p) /\ \A a \in Ancestors(p) : ~IsFile(a)
LocalCreate(h, p) ==
    IF IsFile(p)
    THEN /\ open' = Put(open, h, [file |-> names[p]])
         /\ data' = [data EXCEPT ![names[p]] = <<>>]
         /\ UNCHANGED names
    ELSE /\ names' = [q \in DOMAIN names \cup Ancestors(p) \cup {p} |->
                         IF q = p THEN Len(data) + 1 ELSE IF q \in DOMAIN names THEN names[q] ELSE Dir]
         /\ data' = Append(data, <<>>)
         /\ open' = Put(open, h, [file |-> Len(data) + 1])

\* open(2) fails, and the directories have been made
LocalCreateFails(p) ==
    /\ names' = [q \in DOMAIN names \cup Ancestors(p) |-> IF q \in DOMAIN names THEN names[q] ELSE Dir]
    /\ UNCHANGED <<data, open>>

\* pread(2), which fails on a directory
LocalCanRead(h) == open[h].file # Dir
LocalRead(h, off, n) == Slice(data[open[h].file], off, n)

\* pwrite(2); no bytes do not extend a file
LocalWrite(h, bytes, off) ==
    /\ data' = IF bytes = <<>> THEN data ELSE [data EXCEPT ![open[h].file] = Overlay(@, off, bytes)]
    /\ UNCHANGED <<names, open>>

LocalClose(h) ==
    /\ open' = Del(open, h)
    /\ UNCHANGED <<names, data>>

\* remove, and the last step of remove_all
LocalCanRemove(p) == Below(p) = {}
LocalRemove(p) ==
    /\ names' = Del(names, p)
    /\ UNCHANGED <<data, open>>

\* a step of remove_all: it takes what it finds, from the leaves up
LocalRemovable(p) == {q \in Below(p) : Below(q) = {}}

\* rename(2): src takes the place of dst, with what is below it
LocalCanRename(src, dst) ==
    /\ src \in DOMAIN names
    /\ IsDirectory(Front(dst))
    /\ ~IsStrictPrefix(src, dst)
    /\ src = dst \/ dst \notin DOMAIN names
         \/ (IF IsFile(src) THEN IsFile(dst) ELSE IsDirectory(dst) /\ Below(dst) = {})

LocalRename(src, dst) ==
    LET moved(q) == dst \o SubSeq(q, Len(src) + 1, Len(q))
        old(q) == src \o SubSeq(q, Len(dst) + 1, Len(q))
        gone == Below(src) \cup {src}
        new == {moved(q) : q \in gone}
    IN /\ names' = [q \in (DOMAIN names \ gone) \cup new |-> IF q \in new THEN names[old(q)] ELSE names[q]]
       /\ UNCHANGED <<data, open>>

\* create_directory, or create_directories
LocalCanMkdir(p, rec) ==
    /\ ~IsFile(p)
    /\ \A a \in Ancestors(p) : ~IsFile(a)
    /\ rec \/ IsDirectory(Front(p))
LocalMkdir(p) ==
    /\ names' = [q \in DOMAIN names \cup Ancestors(p) \cup {p} |->
                    IF q \in DOMAIN names THEN names[q] ELSE Dir]
    /\ UNCHANGED <<data, open>>

LocalListDir(p) ==
    {[name |-> Last(q), dir |-> ~IsFile(q), size |-> IF IsFile(q) THEN Len(data[names[q]]) ELSE 0] :
        q \in {r \in Below(p) : Len(r) = Len(p) + 1}}
\* stat(2), which has a size for directories too
DirSize == 4096
LocalGetFileInfo(p) ==
    IF p \in DOMAIN names
    THEN {[dir |-> ~IsFile(p), size |-> IF IsFile(p) THEN Len(data[names[p]]) ELSE DirSize]} ELSE {}
LocalExists(p) == p \in DOMAIN names

-----------------------------------------------------------------------------
(* S3UnderFileSystem *)

OpenFile(key, writable) ==
    [key |-> key, buffer |-> <<>>, writable |-> writable, dirty |-> FALSE, downloaded |-> writable]

\* StatObject
S3Open(h, p) ==
    /\ open' = Put(open, h, OpenFile(p, FALSE))
    /\ UNCHANGED <<names, data>>

S3Create(h, p) ==
    /\ open' = Put(open, h, OpenFile(p, TRUE))
    /\ UNCHANGED <<names, data>>

\* The object is fetched whole by the first read: the one that has the key then.
S3CanRead(h) == open[h].downloaded \/ open[h].key \in DOMAIN names
S3Buffer(h) == IF open[h].downloaded THEN open[h].buffer ELSE data[names[open[h].key]]
S3Read(h, off, n) == Slice(S3Buffer(h), off, n)
S3Download(h) ==
    /\ open' = [open EXCEPT ![h] = [@ EXCEPT !.buffer = S3Buffer(h), !.downloaded = TRUE]]
    /\ UNCHANGED <<names, data>>

\* mistake: each write goes to the bucket
S3Write_Through(h, bytes, off) ==
    /\ names' = Put(names, open[h].key, Len(data) + 1)
    /\ data' = Append(data, bytes)
    /\ UNCHANGED open

S3Write(h, bytes, off) ==
    /\ open' = [open EXCEPT ![h] = [@ EXCEPT !.buffer = Overlay(open[h].buffer, off, bytes), !.dirty = TRUE]]
    /\ UNCHANGED <<names, data>>

\* PutObject of a dirty buffer; the handle is gone whether it succeeds or not
S3Close(h, ok) ==
    /\ open' = Del(open, h)
    /\ IF open[h].dirty /\ ok
       THEN /\ names' = Put(names, open[h].key, Len(data) + 1)
            /\ data' = Append(data, open[h].buffer)
       ELSE UNCHANGED <<names, data>>

\* RemoveObject
S3Remove(p) ==
    /\ names' = Del(names, p)
    /\ UNCHANGED <<data, open>>

\* CopyObject: a bucket refuses to copy an object to itself
S3CanCopy(src, dst) == src \in DOMAIN names /\ src # dst
S3Copy(src, dst) ==
    /\ names' = Put(names, dst, Len(data) + 1)
    /\ data' = Append(data, data[names[src]])
    /\ UNCHANGED open

\* mistake: a marker that is no object
S3Mkdir_Marker(p) ==
    /\ names' = Put(names, p, Dir)
    /\ UNCHANGED <<data, open>>

S3Mkdir(p) == UNCHANGED <<names, data, open>>

\* ListObjects, not recursive: objects, and the common prefixes
S3ListDir(p) ==
    {[name |-> Last(q), dir |-> FALSE, size |-> Len(data[names[q]])] : q \in {r \in Below(p) : Len(r) = Len(p) + 1}}
      \cup {[name |-> q[Len(p) + 1], dir |-> TRUE, size |-> 0] : q \in {r \in Below(p) : Len(r) > Len(p) + 1}}

\* StatObject, then ListObjects for a prefix
S3GetFileInfo(p) ==
    IF p \in DOMAIN names THEN {[dir |-> FALSE, size |-> Len(data[names[p]])]}
    ELSE IF S3ListDir(p) # {} THEN {[dir |-> TRUE, size |-> 0]} ELSE {}
S3Exists(p) == p \in DOMAIN names \/ S3ListDir(p) # {}

-----------------------------------------------------------------------------
(* UnderFileSystem *)

CanOpen(p) == p \in DOMAIN names
CanCreate(p) == kind = "s3" \/ LocalCanCreate(p)
Open(h, p) == IF kind = "local" THEN LocalOpen(h, p) ELSE S3Open(h, p)
Create(h, p) == IF kind = "local" THEN LocalCreate(h, p) ELSE S3Create(h, p)
CanRead(h) == IF kind = "local" THEN LocalCanRead(h) ELSE S3CanRead(h)
ReadBytes(h, off, n) == IF kind = "local" THEN LocalRead(h, off, n) ELSE S3Read(h, off, n)
AfterRead(h) == IF kind = "local" THEN UNCHANGED <<names, data, open>> ELSE S3Download(h)
Write(h, bytes, off) == IF kind = "local" THEN LocalWrite(h, bytes, off) ELSE S3Write(h, bytes, off)
Close(h, ok) == IF kind = "local" THEN LocalClose(h) ELSE S3Close(h, ok)
ListDir(p) == IF kind = "local" THEN LocalListDir(p) ELSE S3ListDir(p)
GetFileInfo(p) == IF kind = "local" THEN LocalGetFileInfo(p) ELSE S3GetFileInfo(p)
Exists(p) == IF kind = "local" THEN LocalExists(p) ELSE S3Exists(p)

=============================================================================
