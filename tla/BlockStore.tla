----------------------------- MODULE BlockStore -----------------------------
(***************************************************************************)
(* The block store of a worker: StorageTier, MetaStore, CacheManager and   *)
(* the BlockStore that joins them, called by the threads of the gRPC       *)
(* server and of the DataMover.                                            *)
(*                                                                         *)
(* There is no lock around a BlockStore operation.  Each StorageTier, the  *)
(* CacheManager, the MetaStore and the block_tier_map_ has a mutex (or the *)
(* database) of its own, held for one call.  So one such call is one       *)
(* action here, and an operation is the sequence of actions a thread       *)
(* passes through, program counter th[t].pc, interleaved with the others.  *)
(*                                                                         *)
(* A stored block is a sequence of byte values.  A process crash forgets   *)
(* everything but the files of the disk tiers and the RocksDB metadata.    *)
(*                                                                         *)
(* Definitions named X_Slip are X with a plausible mistake in it, for the  *)
(* mutation runs; no action uses them.                                     *)
(***************************************************************************)
EXTENDS CachePolicy

CONSTANTS
    Threads, Blocks,
    Vals,              \* byte values a client may write
    Zero,              \* the byte of a fresh allocation
    Absent,            \* the content of a block that is not cached
    Tiers,             \* the configured tiers, fastest first (sorted by the constructor)
    Capacity,          \* capacity of each tier in bytes
    Spans,             \* the <<offset, length>> pairs clients write
    Ops,               \* the calls clients make, a subset of {"write", "read", "remove"}
    PolicyType,        \* "LRU" or "LFU"
    PromoteThreshold,  \* auto_promote_access_threshold
    HighPct, LowPct,   \* the eviction watermarks, in percent
    Word,              \* where size_t wraps (2^64), above every sum of sizes
    MaxCount,          \* access_count saturates here, at or above PromoteThreshold:
                       \* only its comparison with the threshold is ever used
    MaxTotal,          \* bound: no write once total_cached_bytes_ has drifted past this
    MaxFaults,         \* bound on failures of the metadata database
    MaxCrashes         \* bound on crashes of the worker process

TierSet == ToSet(Tiers)
Fastest == Tiers[1]
Faster == [k \in {"HDD", "SSD"} |-> IF k = "HDD" THEN "SSD" ELSE "Memory"]

ASSUME TiersAssumption ==
    /\ Tiers \in Seq({"Memory", "SSD", "HDD"}) /\ Len(Tiers) > 0 /\ IsInjective(Tiers)
    /\ Capacity \in [TierSet -> Nat]

ASSUME SpansAssumption == Spans \subseteq Nat \X Nat

ASSUME MaxCountAssumption == MaxCount \in Nat

VARIABLES
    blocks,    \* per tier, blocks_: id -> capacity of its handle
    used,      \* per tier, used_bytes_
    data,      \* per tier, the bytes behind a handle: heap memory, or a file
    meta,      \* the MetaStore: id -> [length, tier, count]
    map,       \* block_tier_map_: id -> tier
    cm,        \* the CacheManager
    th,        \* the threads: program counter and local variables
    cands,     \* per thread, the eviction candidates it has yet to deal with
    up,        \* the worker has started and recovered
    faults, crashes

tierVars == <<blocks, used, data>>
sys == <<up, faults, crashes>>
env == <<cands, sys>>
vars == <<blocks, used, data, meta, map, cm, th, cands, up, faults, crashes>>

Bytes == Vals \cup {Zero}
NoMeta == [length |-> 0, tier |-> Fastest, count |-> 0]

Idle == [pc |-> "idle", op |-> "none", id |-> Zero, span |-> <<0, 0>>, val |-> Zero,
         tier |-> Fastest, meta |-> NoMeta, buf |-> <<>>, after |-> "idle"]

\* EnsureBlock is called with the length of the data that is about to be written.
SizeFor(t) == th[t].span[2]

Avail(k) == Capacity[k] - used[k]

-----------------------------------------------------------------------------
\* Control.  A thread that has finished is idle; its local variables are gone.

At(t, pc) == up /\ th[t].pc = pc
Goto(t, pc) == th' = [th EXCEPT ![t].pc = pc]
Return(t) == th' = [th EXCEPT ![t] = Idle]
GotoOrReturn(t, cond, pc) == IF cond THEN Goto(t, pc) ELSE Return(t)
GotoWithTier(t, pc, k) == th' = [th EXCEPT ![t] = [@ EXCEPT !.pc = pc, !.tier = k]]

-----------------------------------------------------------------------------
\* StorageTier: one call under the tier's mutex.

Fits(k, size) == used[k] + size <= Capacity[k]

\* AllocateBlock where it succeeds: zeroed memory, or a truncated file.
Allocate(k, id, size) ==
    /\ blocks' = [blocks EXCEPT ![k] = Put(@, id, size)]
    /\ used' = [used EXCEPT ![k] = @ + size]
    /\ data' = [data EXCEPT ![k] = Put(@, id, [i \in 1..size |-> Zero])]

\* Slip: AllocateBlock relies on the caller's look at the free space.
CanAllocate_AnySize(k, id, size) == id \notin DOMAIN blocks[k]

CanAllocate(k, id, size) == id \notin DOMAIN blocks[k] /\ Fits(k, size)

\* Slip: the bytes of a removed block are not given back.
Release_KeepsUsed(k, id) ==
    IF id \in DOMAIN blocks[k]
    THEN /\ blocks' = [blocks EXCEPT ![k] = Del(@, id)]
         /\ data' = [data EXCEPT ![k] = Del(@, id)]
         /\ UNCHANGED used
    ELSE UNCHANGED tierVars

\* RemoveBlock: NotFound changes nothing; a file is unlinked.
Release(k, id) ==
    IF id \in DOMAIN blocks[k]
    THEN /\ used' = [used EXCEPT ![k] = @ - blocks[k][id]]
         /\ blocks' = [blocks EXCEPT ![k] = Del(@, id)]
         /\ data' = [data EXCEPT ![k] = Del(@, id)]
    ELSE UNCHANGED tierVars

\* Slip: the write truncates the file.
Overlay_Truncates(d, off, bytes) ==
    [i \in 1 .. off + Len(bytes) |->
        IF off < i THEN bytes[i - off] ELSE IF i <= Len(d) THEN d[i] ELSE Zero]

\* d with the bytes off+1 .. off+Len(bytes) overwritten, zeros in a gap.
Overlay(d, off, bytes) ==
    [i \in 1..Max({Len(d), off + Len(bytes)}) |->
        IF off < i /\ i <= off + Len(bytes) THEN bytes[i - off]
        ELSE IF i <= Len(d) THEN d[i] ELSE Zero]

\* WriteMem refuses a write beyond the capacity; WriteDisk grows the file.
CanWrite(k, id, off, n) ==
    /\ id \in DOMAIN blocks[k]
    /\ k = "Memory" => off + n <= blocks[k][id]

WriteTier(k, id, off, bytes) ==
    /\ data' = [data EXCEPT ![k] = Put(@, id, Overlay(data[k][id], off, bytes))]
    /\ UNCHANGED <<blocks, used>>

\* ExportBlock reads as many bytes as the handle's capacity.
Exported(k, id) == SubSeq(data[k][id], 1, blocks[k][id])

-----------------------------------------------------------------------------
\* A client call is handed to an idle thread, which takes its first step: the
\* look-up of the block in block_tier_map_.

Start(op, id) == [Idle EXCEPT !.op = op, !.id = id]

\* WorkerService WriteBlock and CacheBlock, DataMover preload: EnsureBlock, then
\* WriteBlock.  EnsureBlock creates the block unless HasBlock.
CallWrite(t, id, span, v) ==
    /\ At(t, "idle") /\ "write" \in Ops /\ cm.total <= MaxTotal
    /\ th' = [th EXCEPT ![t] =
                 [Start("write", id) EXCEPT !.pc = IF id \in DOMAIN map THEN "w_find" ELSE "pick",
                                               !.span = span, !.val = v]]
    /\ UNCHANGED <<tierVars, meta, map, cm, env>>

\* A read of a block that is not indexed returns NotFound and does nothing.
CallRead(t, id) ==
    /\ At(t, "idle") /\ "read" \in Ops
    /\ id \in DOMAIN map
    /\ th' = [th EXCEPT ![t] = [Start("read", id) EXCEPT !.pc = "r_tier", !.tier = map[id]]]
    /\ UNCHANGED <<tierVars, meta, map, cm, env>>

\* A block that is not indexed still loses its policy entry and metadata.
CallRemove(t, id) ==
    /\ At(t, "idle") /\ "remove" \in Ops
    /\ th' = [th EXCEPT ![t] =
                 IF id \in DOMAIN map
                 THEN [Start("remove", id) EXCEPT !.pc = "d_tier", !.tier = map[id]]
                 ELSE [Start("remove", id) EXCEPT !.pc = "d_policy"]]
    /\ UNCHANGED <<tierVars, meta, map, cm, env>>

-----------------------------------------------------------------------------
\* CreateBlock

\* One turn of the loop over the tiers, which reads used_bytes_ without the
\* tier's mutex; when no tier has room, EvictBlocks on the fastest one.
Pick(t) ==
    /\ At(t, "pick")
    /\ LET i == CHOOSE n \in DOMAIN Tiers : Tiers[n] = th[t].tier
       IN  IF Avail(th[t].tier) >= SizeFor(t) THEN Goto(t, "alloc")
           ELSE IF i < Len(Tiers) THEN GotoWithTier(t, "pick", Tiers[i + 1])
           ELSE GotoWithTier(t, "evict_full", Fastest)
    /\ UNCHANGED <<tierVars, meta, map, cm, env>>

Recheck(t) ==
    /\ At(t, "recheck")
    /\ GotoOrReturn(t, Avail(th[t].tier) >= SizeFor(t), "alloc")
    /\ UNCHANGED <<tierVars, meta, map, cm, env>>

\* AllocateBlock: AlreadyExists and ResourceExhausted end the call.
Alloc(t) ==
    /\ At(t, "alloc")
    /\ LET k == th[t].tier
       IN  IF CanAllocate(k, th[t].id, SizeFor(t))
           THEN Allocate(k, th[t].id, SizeFor(t)) /\ Goto(t, "put_meta")
           ELSE Return(t) /\ UNCHANGED tierVars
    /\ UNCHANGED <<meta, map, cm, env>>

PutMeta(t) ==
    /\ At(t, "put_meta")
    /\ meta' = Put(meta, th[t].id, [length |-> SizeFor(t), tier |-> th[t].tier, count |-> 0])
    /\ Goto(t, "set_map")
    /\ UNCHANGED <<tierVars, map, cm, env>>

SetMap(t) ==
    /\ At(t, "set_map")
    /\ map' = Put(map, th[t].id, th[t].tier)
    /\ Goto(t, "insert")
    /\ UNCHANGED <<tierVars, meta, cm, env>>

InsertPolicy(t) ==
    /\ At(t, "insert")
    /\ cm' = OnBlockInsert(cm, th[t].id, SizeFor(t))
    /\ Goto(t, "auto_evict")
    /\ UNCHANGED <<tierVars, meta, map, env>>

-----------------------------------------------------------------------------
\* EvictBlocks(th[t].tier, need), after which the thread goes on at pc after.

TakeCandidates(t, need, after) ==
    LET r == GetEvictionCandidates(cm, need)
    IN  /\ cm' = r.cm
        /\ cands' = [cands EXCEPT ![t] = r.victims]
        /\ th' = [th EXCEPT ![t] =
                     [@ EXCEPT !.after = after,
                               !.pc = IF r.victims = <<>> THEN after ELSE "evict_find"]]

\* CreateBlock found no room anywhere.
EvictForSpace(t) ==
    /\ At(t, "evict_full")
    /\ TakeCandidates(t, SizeFor(t), "recheck")
    /\ UNCHANGED <<tierVars, meta, map, sys>>

\* MaybeAutoEvict: above the high watermark, free down to the low one.  The
\* bytes to free are computed from a later, unlocked read of used_bytes_: when
\* another thread has freed blocks meanwhile, the unsigned difference wraps.
LowMark(k) == (Capacity[k] * LowPct) \div 100

AutoEvict(t) ==
    /\ At(t, "auto_evict")
    /\ LET k == th[t].tier
       IN  Goto(t, IF used[k] * 100 > HighPct * Capacity[k] /\ used[k] > LowMark(k)
                   THEN "auto_free" ELSE "w_find")
    /\ UNCHANGED <<tierVars, meta, map, cm, env>>

AutoFree(t) ==
    /\ At(t, "auto_free")
    /\ LET to_free == (used[th[t].tier] - LowMark(th[t].tier)) % Word
       IN  IF to_free = 0 THEN Goto(t, "w_find") /\ UNCHANGED <<cm, cands>>
           ELSE TakeCandidates(t, to_free, "w_find")
    /\ UNCHANGED <<tierVars, meta, map, sys>>

Candidate(t) == Head(cands[t])

NextCandidate(t) ==
    /\ cands' = [cands EXCEPT ![t] = Tail(@)]
    /\ Goto(t, IF Len(cands[t]) = 1 THEN th[t].after ELSE "evict_find")

\* FindBlockTier: a candidate that is not in this tier is skipped.
EvictFind(t) ==
    /\ At(t, "evict_find")
    /\ IF Candidate(t) \in DOMAIN map /\ map[Candidate(t)] = th[t].tier
       THEN Goto(t, "evict_drop") /\ UNCHANGED cands ELSE NextCandidate(t)
    /\ UNCHANGED <<tierVars, meta, map, cm, sys>>

EvictDrop(t) ==
    /\ At(t, "evict_drop")
    /\ Release(th[t].tier, Candidate(t))
    /\ Goto(t, "evict_meta")
    /\ UNCHANGED <<meta, map, cm, env>>

EvictMeta(t) ==
    /\ At(t, "evict_meta")
    /\ meta' = Del(meta, Candidate(t))
    /\ Goto(t, "evict_erase")
    /\ UNCHANGED <<tierVars, map, cm, env>>

\* Slip: an evicted block stays in block_tier_map_.
EvictErase_KeepsMap(t) ==
    /\ At(t, "evict_erase")
    /\ NextCandidate(t)
    /\ UNCHANGED <<tierVars, meta, map, cm, sys>>

EvictErase(t) ==
    /\ At(t, "evict_erase")
    /\ map' = Del(map, Candidate(t))
    /\ NextCandidate(t)
    /\ UNCHANGED <<tierVars, meta, cm, sys>>

-----------------------------------------------------------------------------
\* WriteBlock

WriteFind(t) ==
    /\ At(t, "w_find")
    /\ IF th[t].id \in DOMAIN map
       THEN GotoWithTier(t, "w_tier", map[th[t].id]) ELSE Return(t)
    /\ UNCHANGED <<tierVars, meta, map, cm, env>>

WriteData(t) ==
    /\ At(t, "w_tier")
    /\ LET k == th[t].tier
           off == th[t].span[1]
           n == th[t].span[2]
       IN  IF CanWrite(k, th[t].id, off, n)
           THEN /\ WriteTier(k, th[t].id, off, [i \in 1..n |-> th[t].val])
                /\ Goto(t, "touch")
           ELSE Return(t) /\ UNCHANGED tierVars
    /\ UNCHANGED <<meta, map, cm, env>>

\* OnBlockAccess, of WriteBlock and of ReadBlock.
Touch(t) ==
    /\ At(t, "touch")
    /\ cm' = OnBlockAccess(cm, th[t].id)
    /\ GotoOrReturn(t, th[t].op = "read", "r_meta")
    /\ UNCHANGED <<tierVars, meta, map, env>>

-----------------------------------------------------------------------------
\* ReadBlock

ReadData(t) ==
    /\ At(t, "r_tier")
    /\ GotoOrReturn(t, th[t].id \in DOMAIN blocks[th[t].tier], "touch")
    /\ UNCHANGED <<tierVars, meta, map, cm, env>>

\* access_count++
Counted(m) == [m EXCEPT !.count = Min({@ + 1, MaxCount})]

\* GetBlockMeta into a local copy, whose access_count is then incremented.
ReadMeta(t) ==
    /\ At(t, "r_meta")
    /\ IF th[t].id \in DOMAIN meta
       THEN th' = [th EXCEPT ![t] =
                    [@ EXCEPT !.pc = "r_put", !.meta = Counted(meta[th[t].id])]]
       ELSE Return(t)
    /\ UNCHANGED <<tierVars, meta, map, cm, env>>

ReadPutMeta(t) ==
    /\ At(t, "r_put")
    /\ meta' = Put(meta, th[t].id, th[t].meta)
    /\ Goto(t, "p_check")
    /\ UNCHANGED <<tierVars, map, cm, env>>

\* MaybeAutoPromote up to the look-up of the current tier.
Promotable(t) ==
    /\ PromoteThreshold > 0
    /\ th[t].meta.count >= PromoteThreshold
    /\ th[t].id \in DOMAIN map
    /\ map[th[t].id] # "Memory"
    /\ Faster[map[th[t].id]] \in TierSet

PromoteCheck(t) ==
    /\ At(t, "p_check")
    /\ IF Promotable(t)
       THEN GotoWithTier(t, "p_room", Faster[map[th[t].id]]) ELSE Return(t)
    /\ UNCHANGED <<tierVars, meta, map, cm, env>>

PromoteRoom(t) ==
    /\ At(t, "p_room")
    /\ GotoOrReturn(t, Avail(th[t].tier) >= th[t].meta.length, "p_find")
    /\ UNCHANGED <<tierVars, meta, map, cm, env>>

-----------------------------------------------------------------------------
\* PromoteBlock(id, th[t].tier); the source tier is kept in th[t].meta.tier.

PromoteFind(t) ==
    /\ At(t, "p_find")
    /\ IF th[t].id \in DOMAIN map /\ map[th[t].id] # th[t].tier
       THEN th' = [th EXCEPT ![t] = [@ EXCEPT !.pc = "p_export", !.meta.tier = map[th[t].id]]]
       ELSE Return(t)
    /\ UNCHANGED <<tierVars, meta, map, cm, env>>

Source(t) == th[t].meta.tier

PromoteExport(t) ==
    /\ At(t, "p_export")
    /\ IF th[t].id \in DOMAIN blocks[Source(t)]
       THEN th' = [th EXCEPT ![t] = [@ EXCEPT !.pc = "p_alloc", !.buf = Exported(Source(t), th[t].id)]]
       ELSE Return(t)
    /\ UNCHANGED <<tierVars, meta, map, cm, env>>

\* ImportBlock: AllocateBlock, then WriteBlock, each under the tier's mutex.
PromoteAlloc(t) ==
    /\ At(t, "p_alloc")
    /\ LET k == th[t].tier
       IN  IF CanAllocate(k, th[t].id, Len(th[t].buf))
           THEN Allocate(k, th[t].id, Len(th[t].buf)) /\ Goto(t, "p_import")
           ELSE Return(t) /\ UNCHANGED tierVars
    /\ UNCHANGED <<meta, map, cm, env>>

\* Slip: the bytes are not copied.
PromoteImport_Skips(t) ==
    /\ At(t, "p_import")
    /\ Goto(t, "p_drop")
    /\ UNCHANGED <<tierVars, meta, map, cm, env>>

PromoteImport(t) ==
    /\ At(t, "p_import")
    /\ LET k == th[t].tier
       IN  IF CanWrite(k, th[t].id, 0, Len(th[t].buf))
           THEN WriteTier(k, th[t].id, 0, th[t].buf) /\ Goto(t, "p_drop")
           ELSE Return(t) /\ UNCHANGED tierVars
    /\ UNCHANGED <<meta, map, cm, env>>

\* Slip: the block is not removed from its old tier.
PromoteDrop_KeepsSource(t) ==
    /\ At(t, "p_drop")
    /\ Goto(t, "p_meta")
    /\ UNCHANGED <<tierVars, meta, map, cm, env>>

PromoteDrop(t) ==
    /\ At(t, "p_drop")
    /\ Release(Source(t), th[t].id)
    /\ Goto(t, "p_meta")
    /\ UNCHANGED <<meta, map, cm, env>>

PromoteMeta(t) ==
    /\ At(t, "p_meta")
    /\ IF th[t].id \in DOMAIN meta
       THEN th' = [th EXCEPT ![t] =
                    [@ EXCEPT !.pc = "p_put",
                              !.meta = [meta[th[t].id] EXCEPT !.tier = th[t].tier]]]
       ELSE Goto(t, "p_map")
    /\ UNCHANGED <<tierVars, meta, map, cm, env>>

PromotePutMeta(t) ==
    /\ At(t, "p_put")
    /\ meta' = Put(meta, th[t].id, th[t].meta)
    /\ Goto(t, "p_map")
    /\ UNCHANGED <<tierVars, map, cm, env>>

\* Slip: the promoted block is counted as a new one.
PromoteMap_Counts(t) ==
    /\ At(t, "p_map")
    /\ map' = Put(map, th[t].id, th[t].tier)
    /\ cm' = OnBlockInsert(cm, th[t].id, blocks[th[t].tier][th[t].id])
    /\ Return(t)
    /\ UNCHANGED <<tierVars, meta, env>>

PromoteMap(t) ==
    /\ At(t, "p_map")
    /\ map' = Put(map, th[t].id, th[t].tier)
    /\ Return(t)
    /\ UNCHANGED <<tierVars, meta, cm, env>>

-----------------------------------------------------------------------------
\* RemoveBlock

RemoveData(t) ==
    /\ At(t, "d_tier")
    /\ Release(th[t].tier, th[t].id)
    /\ Goto(t, "d_policy")
    /\ UNCHANGED <<meta, map, cm, env>>

\* Slip: the policy goes on tracking a removed block.
RemovePolicy_Skips(t) ==
    /\ At(t, "d_policy")
    /\ Goto(t, "d_meta")
    /\ UNCHANGED <<tierVars, meta, map, cm, env>>

RemovePolicy(t) ==
    /\ At(t, "d_policy")
    /\ cm' = OnBlockRemove(cm, th[t].id)
    /\ Goto(t, "d_meta")
    /\ UNCHANGED <<tierVars, meta, map, env>>

RemoveMeta(t) ==
    /\ At(t, "d_meta")
    /\ meta' = Del(meta, th[t].id)
    /\ Goto(t, "d_map")
    /\ UNCHANGED <<tierVars, map, cm, env>>

RemoveMap(t) ==
    /\ At(t, "d_map")
    /\ map' = Del(map, th[t].id)
    /\ Return(t)
    /\ UNCHANGED <<tierVars, meta, cm, env>>

-----------------------------------------------------------------------------
\* Failures and restart

\* The metadata database refuses a call.  Only CreateBlock looks at the result
\* of a Put; a failed Get is taken for an absent entry.
MetaFault(t) ==
    /\ up /\ faults < MaxFaults
    /\ faults' = faults + 1
    /\ \/ th[t].pc \in {"put_meta", "r_meta"} /\ Return(t)
       \/ th[t].pc = "r_put" /\ Goto(t, "p_check")
       \/ th[t].pc \in {"p_meta", "p_put"} /\ Goto(t, "p_map")
       \/ th[t].pc = "evict_meta" /\ Goto(t, "evict_erase")
       \/ th[t].pc = "d_meta" /\ Goto(t, "d_map")
    /\ UNCHANGED <<tierVars, meta, map, cm, cands, up, crashes>>

\* The process dies.  The next one builds its tiers with empty blocks_ (no
\* scan of the directory); files and database are as they were left.
Crash ==
    /\ up /\ crashes < MaxCrashes
    /\ up' = FALSE /\ crashes' = crashes + 1
    /\ blocks' = [k \in TierSet |-> EmptyMap]
    /\ used' = [k \in TierSet |-> 0]
    /\ data' = [k \in TierSet |-> IF k = "Memory" THEN EmptyMap ELSE data[k]]
    /\ map' = EmptyMap
    /\ cm' = NewCacheManager(PolicyType)
    /\ th' = [t \in Threads |-> Idle]
    /\ cands' = [t \in Threads |-> <<>>]
    /\ UNCHANGED <<meta, faults>>

\* Recover, before the server starts: an entry whose tier does not hold the
\* block is deleted.
Recoverable == {id \in DOMAIN meta : /\ meta[id].tier \in TierSet
                                     /\ id \in DOMAIN blocks[meta[id].tier]}

Recover ==
    /\ ~up
    /\ up' = TRUE
    /\ map' = [id \in Recoverable |-> meta[id].tier]
    /\ cm' = FoldLeft(LAMBDA c, id : OnBlockInsert(c, id, meta[id].length), cm,
                      SetToSeq(Recoverable))
    /\ meta' = Restrict(meta, Recoverable)
    /\ UNCHANGED <<tierVars, th, cands, faults, crashes>>

\* ScanAll fails: WorkerServer::Start logs that and goes on.
RecoverFails ==
    /\ ~up /\ faults < MaxFaults
    /\ up' = TRUE /\ faults' = faults + 1
    /\ UNCHANGED <<tierVars, meta, map, cm, th, cands, crashes>>

-----------------------------------------------------------------------------

Init ==
    /\ blocks = [k \in TierSet |-> EmptyMap]
    /\ used = [k \in TierSet |-> 0]
    /\ data = [k \in TierSet |-> EmptyMap]
    /\ meta = EmptyMap
    /\ map = EmptyMap
    /\ cm = NewCacheManager(PolicyType)
    /\ th = [t \in Threads |-> Idle]
    /\ cands = [t \in Threads |-> <<>>]
    /\ up = FALSE
    /\ faults = 0 /\ crashes = 0

\* The next step inside the call that thread t is executing.
Step(t) ==
    \/ Pick(t) \/ Recheck(t) \/ Alloc(t) \/ PutMeta(t) \/ SetMap(t)
    \/ InsertPolicy(t) \/ AutoEvict(t) \/ AutoFree(t) \/ EvictForSpace(t)
    \/ EvictFind(t) \/ EvictDrop(t) \/ EvictMeta(t) \/ EvictErase(t)
    \/ WriteFind(t) \/ WriteData(t) \/ Touch(t)
    \/ ReadData(t) \/ ReadMeta(t) \/ ReadPutMeta(t)
    \/ PromoteCheck(t) \/ PromoteRoom(t) \/ PromoteFind(t) \/ PromoteExport(t)
    \/ PromoteAlloc(t) \/ PromoteImport(t) \/ PromoteDrop(t) \/ PromoteMeta(t)
    \/ PromotePutMeta(t) \/ PromoteMap(t)
    \/ RemoveData(t) \/ RemovePolicy(t) \/ RemoveMeta(t) \/ RemoveMap(t)

Next ==
    \/ \E t \in Threads, id \in Blocks, span \in Spans, v \in Vals : CallWrite(t, id, span, v)
    \/ \E t \in Threads, id \in Blocks : CallRead(t, id)
    \/ \E t \in Threads, id \in Blocks : CallRemove(t, id)
    \/ \E t \in Threads : Step(t)
    \/ \E t \in Threads : MetaFault(t)
    \/ Crash
    \/ Recover
    \/ RecoverFails

Spec == Init /\ [][Next]_vars

-----------------------------------------------------------------------------
\* Properties

MetaRecord == [length : Nat, tier : TierSet, count : Nat]

Pcs == {"idle", "pick", "recheck", "alloc", "put_meta", "set_map", "insert",
        "evict_full", "auto_evict", "auto_free",
        "evict_find", "evict_drop", "evict_meta", "evict_erase",
        "w_find", "w_tier", "touch", "r_tier", "r_meta", "r_put",
        "p_check", "p_room", "p_find", "p_export", "p_alloc", "p_import", "p_drop",
        "p_meta", "p_put", "p_map", "d_tier", "d_policy", "d_meta", "d_map"}

ThreadState == [pc : Pcs, op : Ops \cup {"none"}, id : Blocks \cup {Zero}, span : Nat \X Nat,
                val : Bytes, tier : TierSet, meta : MetaRecord, buf : Seq(Bytes),
                after : Pcs]

\* A handle has at least its capacity in memory, or in a file, behind it.
TiersOK ==
    /\ blocks = [k \in TierSet |-> blocks[k]]
    /\ data = [k \in TierSet |-> data[k]]
    /\ used \in [TierSet -> Int]
    /\ \A k \in TierSet : /\ blocks[k] \in [DOMAIN blocks[k] -> Nat]
                          /\ data[k] \in [DOMAIN data[k] -> Seq(Bytes)]
                          /\ \A id \in DOMAIN blocks[k] :
                                id \in DOMAIN data[k] /\ blocks[k][id] <= Len(data[k][id])

\* The types of the tiers, the metadata, the index and the threads' variables.
TypeOK ==
    /\ TiersOK
    /\ meta \in [DOMAIN meta -> MetaRecord]
    /\ map \in [DOMAIN map -> TierSet]
    /\ th \in [Threads -> ThreadState]

\* The bytes behind a tier's handles: pairs of a block and the index of a byte.
BytesOf(handles) == UNION {{id} \X (1 .. handles[id]) : id \in DOMAIN handles}

\* StorageTier: used_bytes_ is at every moment the number of bytes handed out,
\* and never exceeds the capacity, although CreateBlock and MaybeAutoPromote
\* read it without the tier's mutex before they allocate.
TierAccounting ==
    \A k \in TierSet : used[k] = Cardinality(BytesOf(blocks[k])) /\ used[k] <= Capacity[k]

Quiet == up /\ \A t \in Threads : th[t].pc = "idle"

StoredIn(id) == {k \in TierSet : id \in DOMAIN blocks[k]}

\* Between calls, block_tier_map_ never points to a tier that does not hold the
\* block, so that a read of an indexed block finds it.
IndexedIsStored == Quiet => \A id \in DOMAIN map : id \in DOMAIN blocks[map[id]]

\* Between calls, as long as the database has not failed: a block is in exactly
\* the tier block_tier_map_ names, in no tier when it is not indexed, and its
\* metadata is there, with that tier and the length of its allocation.
IndexConsistent ==
    Quiet /\ faults = 0 =>
        /\ DOMAIN meta = DOMAIN map
        /\ \A id \in Blocks : StoredIn(id) = IF id \in DOMAIN map THEN {map[id]} ELSE {}
        /\ \A id \in DOMAIN map : /\ meta[id].tier = map[id]
                                  /\ meta[id].length = blocks[map[id]][id]

\* Between calls, the eviction policy offers only blocks that are cached.
PolicyOffersCached == Quiet => PolicyIds(cm.policy) \subseteq DOMAIN map

\* With one caller at a time, between calls: total_cached_bytes_, which the worker
\* reports as its used bytes in every heartbeat, is what the blocks that the policy
\* tracks have allocated in their tiers, whatever was evicted, promoted, removed,
\* refused by the database or lost in a crash before.
TotalIsExact ==
    Quiet => cm.total = SumFunction([id \in PolicyIds(cm.policy) |-> blocks[map[id]][id]])

\* EnsureBlock: "create it if absent, no-op if already present".  Between calls,
\* a block that is not indexed occupies no tier; if it did, AllocateBlock would
\* refuse it as AlreadyExists on every later attempt.
AbsentCanBeCreated == Quiet => \A id \in Blocks : StoredIn(id) # {} => id \in DOMAIN map

-----------------------------------------------------------------------------
\* The cache a caller sees.

\* A thread has taken id out of its source tier and not yet re-indexed it.
Moving(id) == {t \in Threads : th[t].id = id /\ th[t].pc \in {"p_meta", "p_put", "p_map"}}

HomeOf(id) == IF Moving(id) = {} THEN map[id] ELSE th[CHOOSE t \in Moving(id) : TRUE].tier

\* The accounted bytes of an indexed block.
Content == [id \in Blocks |->
              IF id \in DOMAIN map /\ id \in DOMAIN blocks[HomeOf(id)]
              THEN Exported(HomeOf(id), id) ELSE Absent]

Cache == INSTANCE BlockCache WITH content <- Content

\* With one caller at a time the store implements BlockCache: promotion between
\* tiers, auto-eviction, database failures and restarts never change the
\* accounted bytes of a block that stays cached.
ImplementsCache == Cache!Spec

=============================================================================
