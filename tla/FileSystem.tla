----------------------------- MODULE FileSystem -----------------------------
(***************************************************************************)
(* Files end to end: commands of the CLI (tools/anycache_cli_main.cpp) and *)
(* FUSE operations, the ReadFile and WriteFile loops of FileSystemClient,  *)
(* FileSystemMaster over a flat name space and BlockMaster, and workers    *)
(* that hold blocks in memory.                                             *)
(*                                                                         *)
(* A client makes one remote call at a time; each is an action, and so is  *)
(* each critical section of the master's methods that have several.  A     *)
(* command that is refused has failed TRUE.  InodeTree has the name space  *)
(* in full; here files have names in one directory.                        *)
(***************************************************************************)
EXTENDS BlockMaster, Seqs, FiniteSets

CONSTANTS Clients, Workers,
          Paths,
          BlockSize,      \* kDefaultBlockSize
          IndexLimit,     \* kMaxBlockIndex + 1: the block indexes that fit into a block id
          Capacity,       \* bytes a worker has
          Contents,       \* what clients write: sequences of non-zero bytes
          Offsets, Lengths, Sizes, \* arguments of FUSE calls, of head and tail, and of truncate
          MaxCalls,
          MaxLosses       \* bound on evictions and failed calls

ASSUME BlockSizeAssumption == BlockSize \in Nat \ {0}
ASSUME IndexLimitAssumption == IndexLimit \in Nat \ {0}
ASSUME CapacityAssumption == Capacity \in Nat /\ Capacity >= BlockSize
ASSUME ArgumentsAssumption ==
    /\ Contents \subseteq Seq(Nat \ {0})
    /\ Offsets \subseteq Nat /\ Lengths \subseteq Nat /\ Sizes \subseteq Nat
ASSUME BoundsAssumption == MaxCalls \in Nat /\ MaxLosses \in Nat

VARIABLES names,    \* path -> inode id
          sizes,    \* inode id -> size
          nextIno,
          store,    \* worker -> block id -> bytes
          free,     \* worker -> bytes it last reported free
          cl,       \* what each client is doing
          late,     \* WriteBlock calls under way whose client has given up
          calls, losses,
          wrote,    \* <<inode id, position, byte>> sent to a worker so far
          solo      \* a client that has been alone since it began, and what there was then

inodeVars == <<names, sizes, nextIno>>
vars == <<names, sizes, nextIno, locs, wblocks, store, free, cl, late, calls, losses, wrote, solo>>

None == "none"
Nobody == [client |-> {}, files |-> EmptyMap, sizes |-> EmptyMap, behind |-> EmptyMap, whole |-> TRUE]
Lesser(a, b) == IF a < b THEN a ELSE b
Zeros(n) == [i \in 1 .. n |-> 0]

Idle == [pc |-> "idle", op |-> "none", path |-> None, to |-> None,
         data |-> <<>>, off |-> 0, n |-> 0, size |-> 0, ino |-> 0, got |-> <<>>, count |-> 0,
         assigned |-> None, target |-> None, todo |-> {}, failed |-> FALSE]

-----------------------------------------------------------------------------
(* Block ids *)

\* mistake: the two parts of an id are added
MakeBlockId_Sum(ino, i) == <<0, ino + i>>

\* An index that does not fit is cut off: nothing compares it with kMaxBlockIndex.
MakeBlockId(ino, i) == <<ino, i % IndexLimit>>
GetBlockCount(size) == (size + BlockSize - 1) \div BlockSize

\* the block at a position of a file, and the part of it up to n bytes
BlockAt(ino, pos) == MakeBlockId(ino, pos \div BlockSize)
InBlock(pos) == pos % BlockSize

\* the size up to which the blocks of a file have ids of their own: 1 PB
FileLimit == IndexLimit * BlockSize
Chunk(pos, n) == Lesser(n, BlockSize - InBlock(pos))

-----------------------------------------------------------------------------

\* The bytes that blocks have together
Bytes(blocks) == Cardinality(UNION {{b} \X DOMAIN blocks[b] : b \in DOMAIN blocks})

\* MaybeAutoEvict, with the default of the high watermark
BelowHigh(n) == 100 * n <= 95 * Capacity

\* Nothing, or one file that a write has stored, so small that nothing was evicted for it.
Init ==
    /\ cl = [c \in Clients |-> Idle]
    /\ late = {} /\ calls = 0 /\ losses = 0 /\ solo = Nobody
    /\ free = [w \in Workers |-> Capacity]
    /\ \/ /\ names = EmptyMap /\ sizes = EmptyMap /\ nextIno = 2
          /\ BlockMasterInit
          /\ store = [w \in Workers |-> EmptyMap]
          /\ wrote = {}
       \/ \E p \in Paths, w \in Workers, d \in Contents :
             LET indexes == 0 .. GetBlockCount(Len(d)) - 1
                 blocks == {MakeBlockId(2, i) : i \in indexes}
                 Part(i) == SubSeq(d, i * BlockSize + 1, Lesser((i + 1) * BlockSize, Len(d)))
             IN /\ BelowHigh(Len(d)) /\ Len(d) <= FileLimit
                /\ names = [x \in {p} |-> 2] /\ sizes = [x \in {2} |-> Len(d)] /\ nextIno = 3
                /\ locs = [b \in blocks |-> {[worker |-> w, address |-> w, tier |-> "mem"]}]
                /\ wblocks = [x \in {w} |-> blocks]
                /\ store = [x \in Workers |->
                              IF x # w THEN EmptyMap
                              ELSE [b \in blocks |-> Part(CHOOSE i \in indexes : b = MakeBlockId(2, i))]]
                /\ wrote = {<<2, i - 1, d[i]>> : i \in DOMAIN d}

-----------------------------------------------------------------------------
(* What a file reads as: its bytes, to the end or to the first block that is *)
(* on no worker it is listed for.                                            *)

Held(b) == \E l \in LocsOf(b) : b \in DOMAIN store[l.worker]
HeldBytes(b) == store[(CHOOSE l \in LocsOf(b) : b \in DOMAIN store[l.worker]).worker][b]
ByteAt(ino, i) ==
    LET bytes == HeldBytes(BlockAt(ino, i))
    IN IF InBlock(i) < Len(bytes) THEN bytes[InBlock(i) + 1] ELSE 0
FileBytes(ino) ==
    LET ends == {i \in 0 .. sizes[ino] : i = sizes[ino] \/ ~Held(BlockAt(ino, i))}
        end == CHOOSE i \in ends : \A j \in ends : i <= j
    IN [i \in 1 .. end |-> ByteAt(ino, i - 1)]

\* the positions behind the end of a block that is shorter than the file's size has it
Behind(ino) ==
    {i \in 0 .. sizes[ino] - 1 : Held(BlockAt(ino, i)) /\ InBlock(i) > Len(HeldBytes(BlockAt(ino, i)))}

-----------------------------------------------------------------------------
(* Calls *)

Begin(c, s) ==
    /\ cl[c].pc = "idle"
    /\ calls < MaxCalls
    /\ calls' = calls + 1
    /\ cl' = [cl EXCEPT ![c] = s]
    /\ solo' = IF \A d \in Clients : cl[d].pc = "idle"
               THEN [client |-> {c}, files |-> [p \in DOMAIN names |-> FileBytes(names[p])],
                     sizes |-> [p \in DOMAIN names |-> sizes[names[p]]],
                     behind |-> [p \in DOMAIN names |-> Behind(names[p])], whole |-> TRUE]
               ELSE Nobody
    /\ UNCHANGED <<inodeVars, blockVars, store, free, late, losses, wrote>>

CatCmd(c) == \E p \in Paths : Begin(c, [Idle EXCEPT !.pc = "stat", !.op = "cat", !.path = p])
HeadCmd(c) == \E p \in Paths, n \in Lengths :
    Begin(c, [Idle EXCEPT !.pc = "stat", !.op = "head", !.path = p, !.n = n])
TailCmd(c) == \E p \in Paths, n \in Lengths :
    Begin(c, [Idle EXCEPT !.pc = "stat", !.op = "tail", !.path = p, !.n = n])
TouchCmd(c) == \E p \in Paths : Begin(c, [Idle EXCEPT !.pc = "create", !.op = "touch", !.path = p])
WriteCmd(c) == \E p \in Paths, d \in Contents :
    Begin(c, [Idle EXCEPT !.pc = "winfo", !.op = "write", !.path = p, !.data = d])
CpCmd(c) == \E p, q \in Paths : Begin(c, [Idle EXCEPT !.pc = "stat", !.op = "cp", !.path = p, !.to = q])

\* cp of a directory: the copy of a child, of the size it was listed with
CpChild(c) == \E p \in DOMAIN names, q \in Paths :
    Begin(c, [Idle EXCEPT !.pc = "info", !.op = "child", !.path = p, !.to = q, !.n = sizes[names[p]]])

RmCmd(c) == \E p \in Paths : Begin(c, [Idle EXCEPT !.pc = "dlook", !.op = "rm", !.path = p])
MvCmd(c) == \E p, q \in Paths : Begin(c, [Idle EXCEPT !.pc = "mv", !.op = "mv", !.path = p, !.to = q])

FuseCreate(c) == \E p \in Paths : Begin(c, [Idle EXCEPT !.pc = "create", !.op = "fcreate", !.path = p])
FuseRead(c) == \E p \in Paths, o \in Offsets, n \in Lengths :
    Begin(c, [Idle EXCEPT !.pc = "info", !.op = "fread", !.path = p, !.off = o, !.n = n])
FuseWrite(c) == \E p \in Paths, o \in Offsets, d \in Contents :
    Begin(c, [Idle EXCEPT !.pc = "winfo", !.op = "fwrite", !.path = p, !.off = o, !.data = d])
FuseTruncate(c) == \E p \in Paths, n \in Sizes :
    Begin(c, [Idle EXCEPT !.pc = "tlook", !.op = "truncate", !.path = p, !.size = n])

-----------------------------------------------------------------------------
(* Steps.  A client's next record follows from its own. *)

Becomes(c, s) == cl' = [cl EXCEPT ![c] = s]
Fails(r) == [r EXCEPT !.pc = "ret", !.failed = TRUE]
Quiet == UNCHANGED <<calls, losses, solo, free, late>>
Reads == UNCHANGED <<inodeVars, blockVars, store, wrote>> /\ Quiet

\* GetFileInfo before cat, head, tail and cp
Stat(c) ==
    /\ cl[c].pc = "stat"
    /\ LET r == cl[c]
           size == sizes[names[r.path]]
           n == IF r.op \in {"head", "tail"} THEN Lesser(r.n, size) ELSE size
       IN Becomes(c, IF r.path \notin DOMAIN names THEN Fails(r)
                   ELSE IF (n = 0 /\ r.op = "head") \/ (size = 0 /\ r.op = "tail") THEN [r EXCEPT !.pc = "ret"]
                   ELSE [r EXCEPT !.pc = "info", !.n = n, !.size = size,
                                  !.off = IF r.op = "tail" THEN size - n ELSE 0])
    /\ Reads

\* The loop of WriteFile has ended.
WriteEnds(r) == [r EXCEPT !.pc = IF r.op = "fwrite" THEN "ret" ELSE "cstat"]

\* The loop of ReadFile has ended: cp writes what was read, if it is all.
ReadEnds(r) ==
    IF r.op = "cp" /\ Len(r.got) # r.size THEN Fails(r)
    ELSE IF r.op \in {"cp", "child"} THEN [r EXCEPT !.pc = "winfo", !.data = r.got]
    ELSE [r EXCEPT !.pc = "ret"]

\* GetFileInfo of ReadFile, and how much there is to read
ReadInfo(c) ==
    /\ cl[c].pc = "info"
    /\ LET r == cl[c]
           size == sizes[names[r.path]]
           n == IF r.off >= size THEN 0 ELSE Lesser(r.n, size - r.off)
           s == [r EXCEPT !.ino = names[r.path], !.n = n]
       IN Becomes(c, IF r.path \notin DOMAIN names THEN Fails(r)
                   ELSE IF n = 0 THEN ReadEnds(s) ELSE [s EXCEPT !.pc = "rloc"])
    /\ Reads

\* mistake: the offset is left out
ReadPos_NoOffset(r) == Len(r.got)
ReadPos(r) == r.off + Len(r.got)

\* GetBlockLocations
ReadLocate(c) ==
    /\ cl[c].pc = "rloc"
    /\ LET ls == LocsOf(BlockAt(cl[c].ino, ReadPos(cl[c])))
       IN IF ls = {} THEN Becomes(c, ReadEnds(cl[c]))
          ELSE \E l \in ls : Becomes(c, [cl[c] EXCEPT !.pc = "rblk", !.target = l.worker])
    /\ Reads

\* A worker dies, and is started again without a block.  The calls it was carrying out
\* end: a client's with a failure, one nobody waits for without a trace.
Dies(w, c, s) ==
    /\ cl' = [d \in Clients |-> IF d = c THEN s
                               ELSE IF cl[d].pc = "wrep" /\ cl[d].target = w THEN WriteEnds(cl[d]) ELSE cl[d]]
    /\ late' = {r \in late : r.target # w}
    /\ store' = [store EXCEPT ![w] = EmptyMap]

\* ReadBlock: as much as the block has, zeros beyond.  Behind the end of the block
\* the length to copy wraps around, and the worker dies.
ReadBlk(c) ==
    /\ cl[c].pc = "rblk"
    /\ LET r == cl[c]
           b == BlockAt(r.ino, ReadPos(r))
           o == InBlock(ReadPos(r))
           n == Chunk(ReadPos(r), r.n - Len(r.got))
           bytes == store[r.target][b]
           s == [r EXCEPT !.got = r.got \o [i \in 1 .. n |-> IF o + i <= Len(bytes) THEN bytes[o + i] ELSE 0]]
       IN IF b \notin DOMAIN store[r.target] THEN Becomes(c, ReadEnds(r)) /\ UNCHANGED <<store, late>>
          ELSE IF o > Len(bytes) THEN Dies(r.target, c, ReadEnds(r))
          ELSE /\ Becomes(c, IF Len(s.got) = r.n THEN ReadEnds(s) ELSE [s EXCEPT !.pc = "rloc"])
               /\ UNCHANGED <<store, late>>
    /\ UNCHANGED <<inodeVars, blockVars, free, calls, losses, wrote, solo>>

WriteGoesOn(r) == IF r.count = Len(r.data) THEN WriteEnds(r) ELSE [r EXCEPT !.pc = "wloc"]
Target(r) == IF r.op \in {"cp", "child"} THEN r.to ELSE r.path
WriteOff(r) == IF r.op = "fwrite" THEN r.off ELSE 0
WritePos(r) == WriteOff(r) + r.count

\* GetFileInfo of WriteFile
WriteInfo(c) ==
    /\ cl[c].pc = "winfo"
    /\ Becomes(c, IF Target(cl[c]) \in DOMAIN names
                THEN WriteGoesOn([cl[c] EXCEPT !.ino = names[Target(cl[c])]])
                ELSE [cl[c] EXCEPT !.pc = "create"])
    /\ Reads

\* SelectWorkerForWrite: a worker with most bytes free, if any has some
SelectWorkerForWrite ==
    LET best == {w \in Workers : free[w] > 0 /\ \A v \in Workers : free[v] <= free[w]}
    IN IF best = {} THEN {None} ELSE best

\* CreateFile
Create(c) ==
    /\ cl[c].pc = "create"
    /\ LET r == cl[c]
           p == Target(r)
       IN IF p \in DOMAIN names THEN Becomes(c, Fails(r)) /\ UNCHANGED inodeVars
          ELSE /\ names' = Put(names, p, nextIno)
               /\ sizes' = Put(sizes, nextIno, 0)
               /\ nextIno' = nextIno + 1
               /\ \E w \in SelectWorkerForWrite :
                     LET s == [r EXCEPT !.ino = nextIno, !.assigned = w]
                     IN Becomes(c, CASE r.op = "touch" -> [s EXCEPT !.pc = "complete"]
                                     [] r.op = "fcreate" -> [s EXCEPT !.pc = "cstat"]
                                     [] OTHER -> WriteGoesOn(s))
    /\ UNCHANGED <<blockVars, store, wrote>> /\ Quiet

\* GetBlockLocations: the worker of the block, or the one assigned, or block 0's
WriteLocate(c) ==
    /\ cl[c].pc = "wloc"
    /\ LET r == cl[c]
           b == BlockAt(r.ino, WritePos(r))
       IN \/ \E l \in LocsOf(b) : Becomes(c, [r EXCEPT !.pc = "wblk", !.target = l.worker])
          \/ /\ LocsOf(b) = {}
             /\ Becomes(c, IF r.assigned # None THEN [r EXCEPT !.pc = "wblk", !.target = r.assigned]
                           ELSE IF WritePos(r) \div BlockSize > 0 THEN [r EXCEPT !.pc = "wloc0"] ELSE Fails(r))
    /\ Reads

WriteLocate0(c) ==
    /\ cl[c].pc = "wloc0"
    /\ LET ls == LocsOf(MakeBlockId(cl[c].ino, 0))
       IN IF ls = {} THEN Becomes(c, Fails(cl[c]))
          ELSE \E l \in ls : Becomes(c, [cl[c] EXCEPT !.pc = "wblk", !.target = l.worker])
    /\ Reads

WriteLen(r) == Chunk(WritePos(r), Len(r.data) - r.count)
Piece(r) == SubSeq(r.data, r.count + 1, r.count + WriteLen(r))
Used(w) == Bytes(store[w])

\* EvictBlocks takes blocks in the policy's order, which is CachePolicy's and any here,
\* until n bytes are freed or nothing is left.
Without(blocks, victims) == [b \in DOMAIN blocks \ victims |-> blocks[b]]
EvictBlocks(blocks, n) ==
    {Without(blocks, victims) : victims \in
        {vs \in SUBSET DOMAIN blocks :
            LET freed(gone) == Bytes(blocks) - Bytes(Without(blocks, gone))
            IN IF freed(vs) < n THEN vs = DOMAIN blocks ELSE \E v \in vs : freed(vs \ {v}) < n}}

\* CreateBlock, as long as the bytes written; with the defaults of the two watermarks
MakeRoom(blocks, n) == IF Bytes(blocks) + n <= Capacity THEN {blocks} ELSE EvictBlocks(blocks, n)
MaybeAutoEvict(blocks) ==
    IF BelowHigh(Bytes(blocks)) THEN {blocks}
    ELSE EvictBlocks(blocks, Bytes(blocks) - (80 * Capacity) \div 100)
CreateBlock(blocks, b, n) == UNION {MaybeAutoEvict(Put(room, b, Zeros(n))) : room \in MakeRoom(blocks, n)}

\* what EnsureBlock may leave on the worker
Ensured(w, b, n) == IF b \in DOMAIN store[w] THEN {store[w]} ELSE CreateBlock(store[w], b, n)

\* bytes with piece at o
Patched(bytes, o, piece) ==
    [i \in DOMAIN bytes |-> IF i \in o + 1 .. o + Len(piece) THEN piece[i - o] ELSE bytes[i]]

\* WriteBlock of the worker for the record r of its client.  A block does not grow, so
\* that what does not fit is refused, and the new block may have been evicted again.
Block(r) == BlockAt(r.ino, WritePos(r))
Refused(r, blocks) ==
    Block(r) \notin DOMAIN blocks \/ InBlock(WritePos(r)) + WriteLen(r) > Len(blocks[Block(r)])
WriteBlock(r, blocks) ==
    IF Refused(r, blocks) THEN store' = [store EXCEPT ![r.target] = blocks] /\ UNCHANGED wrote
    ELSE /\ store' = [store EXCEPT ![r.target] =
                        [blocks EXCEPT ![Block(r)] = Patched(@, InBlock(WritePos(r)), Piece(r))]]
         /\ wrote' = wrote \cup {<<r.ino, WritePos(r) + i - 1, Piece(r)[i]>> : i \in 1 .. WriteLen(r)}

WriteBlk(c) ==
    /\ cl[c].pc = "wblk"
    /\ LET r == cl[c]
       IN \E blocks \in Ensured(r.target, Block(r), WriteLen(r)) :
             /\ WriteBlock(r, blocks)
             /\ Becomes(c, IF Refused(r, blocks) THEN WriteEnds(r) ELSE [r EXCEPT !.pc = "wrep"])
             /\ solo' = [solo EXCEPT !.whole = @ /\ DOMAIN store[r.target] \subseteq DOMAIN blocks]
    /\ UNCHANGED <<inodeVars, blockVars, calls, losses, free, late>>

\* ReportBlockLocation, before the worker answers
WriteReport(c) ==
    /\ cl[c].pc = "wrep"
    /\ LET r == cl[c]
       IN /\ AddBlockLocation(Block(r), r.target, r.target, "mem")
          /\ Becomes(c, WriteGoesOn([r EXCEPT !.count = @ + WriteLen(r)]))
    /\ UNCHANGED <<inodeVars, store, wrote>> /\ Quiet

\* write and cp look the file up again, and so does FUSE's create, for the handle;
\* cp of a directory does not mind
CompleteStat(c) ==
    /\ cl[c].pc = "cstat"
    /\ LET r == cl[c]
       IN Becomes(c, IF Target(r) \in DOMAIN names
                     THEN [r EXCEPT !.pc = IF r.op = "fcreate" THEN "ret" ELSE "complete", !.ino = names[Target(r)]]
                     ELSE IF r.op = "child" THEN [r EXCEPT !.pc = "ret"] ELSE Fails(r))
    /\ Reads

\* mistake: the inode is written back without a look whether it is there
Complete_Blind(c) ==
    /\ cl[c].pc = "complete"
    /\ Becomes(c, [cl[c] EXCEPT !.pc = "ret"])
    /\ sizes' = Put(sizes, cl[c].ino, cl[c].count)
    /\ UNCHANGED <<names, nextIno, blockVars, store, wrote>> /\ Quiet

\* CompleteFile
Complete(c) ==
    /\ cl[c].pc = "complete"
    /\ LET r == cl[c]
       IN IF r.ino \in DOMAIN sizes
          THEN Becomes(c, [r EXCEPT !.pc = "ret"]) /\ sizes' = [sizes EXCEPT ![r.ino] = r.count]
          ELSE /\ Becomes(c, IF r.op = "child" THEN [r EXCEPT !.pc = "ret"] ELSE Fails(r))
               /\ UNCHANGED sizes
    /\ UNCHANGED <<names, nextIno, blockVars, store, wrote>> /\ Quiet

-----------------------------------------------------------------------------
(* FileSystemMaster: DeleteFile, TruncateFile, RenameFile *)

\* DeleteFile looks the file up for its blocks
DeleteLook(c) ==
    /\ cl[c].pc = "dlook"
    /\ LET r == cl[c]
           ino == names[r.path]
       IN Becomes(c, IF r.path \in DOMAIN names
                     THEN [r EXCEPT !.pc = "blocks", !.ino = ino,
                                    !.todo = 0 .. GetBlockCount(sizes[ino]) - 1]
                     ELSE [r EXCEPT !.pc = "blocks"])
    /\ Reads

\* mistake: the block that the new end lies in is dropped too
Beyond_Last(size) == size \div BlockSize
Beyond(size) == GetBlockCount(size)

TruncateLook(c) ==
    /\ cl[c].pc = "tlook"
    /\ LET r == cl[c]
           ino == names[r.path]
       IN Becomes(c, IF r.path \notin DOMAIN names THEN Fails(r)
                     ELSE [r EXCEPT !.pc = "blocks", !.ino = ino,
                                    !.todo = IF r.size < sizes[ino]
                                             THEN Beyond(r.size) .. GetBlockCount(sizes[ino]) - 1
                                             ELSE {}])
    /\ Reads

\* RemoveBlock of each, in order
DropBlock(c) ==
    /\ cl[c].pc = "blocks"
    /\ \E i \in cl[c].todo :
          /\ \A j \in cl[c].todo : i <= j
          /\ RemoveBlock(MakeBlockId(cl[c].ino, i))
          /\ Becomes(c, [cl[c] EXCEPT !.todo = @ \ {i}])
    /\ UNCHANGED <<inodeVars, store, wrote>> /\ Quiet

\* Delete of whatever has the name by now
DeleteName(c) ==
    /\ cl[c].pc = "blocks" /\ cl[c].todo = {} /\ cl[c].op = "rm"
    /\ LET r == cl[c]
       IN IF r.path \in DOMAIN names
          THEN /\ names' = Del(names, r.path) /\ sizes' = Del(sizes, names[r.path])
               /\ Becomes(c, [r EXCEPT !.pc = "ret"])
          ELSE Becomes(c, Fails(r)) /\ UNCHANGED <<names, sizes>>
    /\ UNCHANGED <<nextIno, blockVars, store, wrote>> /\ Quiet

\* UpdateSize of the inode found
UpdateSize(c) ==
    /\ cl[c].pc = "blocks" /\ cl[c].todo = {} /\ cl[c].op = "truncate"
    /\ LET r == cl[c]
       IN IF r.ino \in DOMAIN sizes
          THEN sizes' = [sizes EXCEPT ![r.ino] = r.size] /\ Becomes(c, [r EXCEPT !.pc = "ret"])
          ELSE Becomes(c, Fails(r)) /\ UNCHANGED sizes
    /\ UNCHANGED <<names, nextIno, blockVars, store, wrote>> /\ Quiet

\* Rename refuses a name that is taken
RenameFile(c) ==
    /\ cl[c].pc = "mv"
    /\ LET r == cl[c]
       IN IF r.path \in DOMAIN names /\ r.to \notin DOMAIN names
          THEN /\ names' = Put(Del(names, r.path), r.to, names[r.path])
               /\ Becomes(c, [r EXCEPT !.pc = "ret"])
          ELSE Becomes(c, Fails(r)) /\ UNCHANGED names
    /\ UNCHANGED <<sizes, nextIno, blockVars, store, wrote>> /\ Quiet

Return(c) ==
    /\ cl[c].pc = "ret"
    /\ cl' = [cl EXCEPT ![c] = Idle]
    /\ solo' = IF c \in solo.client THEN Nobody ELSE solo
    /\ UNCHANGED <<inodeVars, blockVars, store, free, late, calls, losses, wrote>>

-----------------------------------------------------------------------------
(* What nobody asked for *)

Loss ==
    /\ losses < MaxLosses
    /\ losses' = losses + 1
    /\ solo' = Nobody
    /\ UNCHANGED <<free, calls>>

\* A worker evicts a block for a file that is not in the model; the master is not told.
Evict(w) ==
    /\ \E b \in DOMAIN store[w] : store' = [store EXCEPT ![w] = Del(@, b)]
    /\ Loss
    /\ UNCHANGED <<inodeVars, blockVars, cl, late, wrote>>

\* A call does not reach the server.  WriteFile takes that for a file that does not
\* exist, and both loops end as if there were no more.  When it is the master's answer
\* that is lost, things are as if the client's next call had not reached the server.
CallFails(c) ==
    /\ LET r == cl[c]
       IN \/ r.pc = "winfo" /\ Becomes(c, [r EXCEPT !.pc = "create"])
          \/ r.pc = "rblk" /\ Becomes(c, ReadEnds(r))
          \/ r.pc = "wblk" /\ Becomes(c, WriteEnds(r))
          \/ /\ r.pc \in {"cstat", "complete"}
             /\ Becomes(c, IF r.op = "child" THEN [r EXCEPT !.pc = "ret"] ELSE Fails(r))
          \/ /\ r.pc \in {"stat", "info", "rloc", "create", "wloc", "wloc0", "dlook", "tlook", "mv"}
             /\ Becomes(c, Fails(r))
    /\ Loss
    /\ UNCHANGED <<inodeVars, blockVars, store, late, wrote>>

\* The worker's report is lost, and it answers all the same.
ReportFails(c) ==
    /\ cl[c].pc = "wrep"
    /\ Becomes(c, WriteGoesOn([cl[c] EXCEPT !.count = @ + WriteLen(cl[c])]))
    /\ Loss
    /\ UNCHANGED <<inodeVars, blockVars, store, late, wrote>>

\* The deadline of WriteBlock passes: the client goes on with less than will have been
\* stored, while the worker carries the call out.
DeadlinePasses(c) ==
    /\ cl[c].pc \in {"wblk", "wrep"}
    /\ late' = late \cup {cl[c]}
    /\ Becomes(c, WriteEnds(cl[c]))
    /\ Loss
    /\ UNCHANGED <<inodeVars, blockVars, store, wrote>>

LateWrite(r) ==
    /\ r.pc = "wblk"
    /\ \E blocks \in Ensured(r.target, Block(r), WriteLen(r)) :
          /\ WriteBlock(r, blocks)
          /\ late' = (late \ {r}) \cup (IF Refused(r, blocks) THEN {} ELSE {[r EXCEPT !.pc = "wrep"]})
    /\ solo' = Nobody
    /\ UNCHANGED <<inodeVars, blockVars, free, cl, calls, losses>>

LateReport(r) ==
    /\ r.pc = "wrep"
    /\ AddBlockLocation(Block(r), r.target, r.target, "mem")
    /\ late' = late \ {r}
    /\ solo' = Nobody
    /\ UNCHANGED <<inodeVars, store, free, cl, calls, losses, wrote>>

\* A heartbeat carries what is used.
Heartbeat(w) ==
    /\ free[w] # Capacity - Used(w)
    /\ free' = [free EXCEPT ![w] = Capacity - Used(w)]
    /\ UNCHANGED <<inodeVars, blockVars, store, cl, late, calls, losses, wrote, solo>>

-----------------------------------------------------------------------------

Next ==
    \/ \E w \in Workers : Evict(w) \/ Heartbeat(w)
    \/ \E r \in late : LateWrite(r) \/ LateReport(r)
    \/ \E c \in Clients :
         \/ CatCmd(c) \/ HeadCmd(c) \/ TailCmd(c) \/ TouchCmd(c) \/ WriteCmd(c) \/ CpCmd(c) \/ CpChild(c)
         \/ RmCmd(c) \/ MvCmd(c) \/ FuseCreate(c) \/ FuseRead(c) \/ FuseWrite(c) \/ FuseTruncate(c)
         \/ Stat(c) \/ ReadInfo(c) \/ ReadLocate(c) \/ ReadBlk(c)
         \/ WriteInfo(c) \/ Create(c) \/ WriteLocate(c) \/ WriteLocate0(c) \/ WriteBlk(c) \/ WriteReport(c)
         \/ CompleteStat(c) \/ Complete(c)
         \/ DeleteLook(c) \/ TruncateLook(c) \/ DropBlock(c) \/ DeleteName(c) \/ UpdateSize(c) \/ RenameFile(c)
         \/ CallFails(c) \/ ReportFails(c) \/ DeadlinePasses(c) \/ Return(c)

Spec == Init /\ [][Next]_vars

-----------------------------------------------------------------------------
(* Properties *)

\* Besides the types: an inode has a size as long as it has a name, and no longer,
\* although CompleteFile and UpdateSize go by an id looked up earlier.
TypeOK ==
    /\ names \in [DOMAIN names -> 2 .. nextIno - 1] /\ DOMAIN names \subseteq Paths
    /\ DOMAIN sizes = {names[p] : p \in DOMAIN names} /\ \A i \in DOMAIN sizes : sizes[i] \in Nat
    /\ \A w \in Workers : \A b \in DOMAIN store[w] : store[w][b] \in Seq(Nat) /\ Len(store[w][b]) <= BlockSize
    /\ free \in [Workers -> 0 .. Capacity]
    /\ \A c \in Clients : cl[c].count <= Len(cl[c].data) /\ Len(cl[c].got) <= cl[c].n
    /\ calls \in 0 .. MaxCalls /\ losses \in 0 .. MaxLosses

ReadOps == {"cat", "head", "tail", "fread"}

\* Every byte a client reads of a file was written to that file at that position, or
\* is zero: never another file's, whatever is created, deleted, renamed, truncated,
\* copied, evicted and lost meanwhile.  Blocks of deleted files stay on the workers,
\* and their locations with the master when the size was not known yet.  Positions a
\* multiple of FileLimit apart have one block id, and are one position to the workers.
NoForeignBytes ==
    \A c \in Clients : cl[c].op \notin {"cp", "child"} => \A i \in DOMAIN cl[c].got :
        cl[c].got[i] = 0 \/
        \E x \in wrote : /\ x[1] = cl[c].ino /\ x[3] = cl[c].got[i]
                        /\ x[2] % FileLimit = (cl[c].off + i - 1) % FileLimit

Alone(c) == c \in solo.client /\ cl[c].pc = "ret" /\ ~cl[c].failed
Had(p) == IF p \in DOMAIN solo.files THEN solo.files[p] ELSE <<>>
Has(p) == FileBytes(names[p])
WasWhole(p) == p \in DOMAIN solo.files /\ Len(solo.files[p]) = solo.sizes[p]
WasBehind(p, off) == p \in DOMAIN solo.behind /\ off \in solo.behind[p]
Slice(s, off, n) == SubSeq(s, off + 1, Lesser(off + n, Len(s)))
Keeps(now, before) == IF solo.whole THEN now = before ELSE IsPrefix(now, before)

\* A client that is alone, nothing failing, reads the range it asked for, across
\* blocks and to the end of the file; of a file that has lost a block, cat and head
\* show what is before it.  One read gets nothing, and takes the worker down: that of a
\* file longer than its blocks, from behind the end of one on.
ReadsAreExact ==
    \A c \in Clients : Alone(c) /\ cl[c].op \in ReadOps =>
        LET r == cl[c]
        IN r.off = 0 \/ WasWhole(r.path) =>
              r.got = IF WasBehind(r.path, r.off) THEN <<>> ELSE Slice(Had(r.path), r.off, r.n)

\* what a command reads or writes has blocks of its own
WithinLimit(r) ==
    /\ WriteOff(r) + Len(r.data) <= FileLimit /\ r.size <= FileLimit
    /\ \A p \in DOMAIN solo.sizes : solo.sizes[p] <= FileLimit

\* A command that is alone, nothing failing, on files below FileLimit, changes the file
\* it names as it says and no other.  write, cp and touch leave the bytes they report,
\* and only these; a FUSE write changes the bytes it reports, and no others below the
\* size the file had; truncate keeps what is below the new size; rm leaves no location
\* for a block of the file; mv takes the bytes along.  When a worker had to evict blocks
\* for it, files may end earlier, and read the same up to there.
UpdatesAreExact ==
    \A c \in Clients : Alone(c) /\ cl[c].op \notin ReadOps /\ WithinLimit(cl[c]) =>
        LET r == cl[c]
            p == Target(r)
            touched == {p} \cup (IF r.op = "mv" THEN {r.path, r.to} ELSE {})
        IN /\ \A q \in (DOMAIN names \cup DOMAIN solo.files) \ touched :
                 q \in DOMAIN names /\ q \in DOMAIN solo.files /\ Keeps(Has(q), solo.files[q])
           /\ r.op = "write" => Keeps(Has(p), SubSeq(r.data, 1, r.count)) /\ sizes[names[p]] = r.count
           /\ r.op \in {"cp", "child"} => Keeps(Has(p), SubSeq(Had(r.path), 1, r.count)) /\ sizes[names[p]] = r.count
           /\ r.op \in {"touch", "fcreate"} => sizes[names[p]] = 0
           /\ r.op = "fwrite" /\ WasWhole(p) =>
                 Keeps(Slice(Has(p), 0, Len(Had(p))),
                       [i \in DOMAIN Had(p) |->
                          IF i \in r.off + 1 .. r.off + r.count THEN r.data[i - r.off] ELSE Had(p)[i]])
           /\ r.op = "truncate" =>
                 /\ sizes[names[p]] = r.size
                 /\ WasWhole(p) => Slice(Has(p), 0, Len(Had(p))) = Slice(Had(p), 0, r.size)
           /\ r.op = "rm" => /\ p \notin DOMAIN names
                            /\ \A i \in 0 .. GetBlockCount(solo.sizes[p]) - 1 : LocsOf(MakeBlockId(r.ino, i)) = {}
           /\ r.op = "mv" => r.path \notin DOMAIN names /\ Has(r.to) = Had(r.path)

=============================================================================
