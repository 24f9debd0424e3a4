------------------------- MODULE BlockStore_proofs -------------------------
(***************************************************************************)
(* For every number of threads, blocks, tiers and capacities: the types of *)
(* the block store's state, and the accounting of its storage tiers.       *)
(***************************************************************************)
EXTENDS BlockStore, TLAPS, FiniteSetTheorems

\* A fresh handle of size n adds n bytes to those handed out.
LEMMA AllocateAddsBytes ==
    ASSUME NEW h, NEW id, NEW n \in Nat, id \notin DOMAIN h, IsFiniteSet(BytesOf(h))
    PROVE  /\ IsFiniteSet(BytesOf(Put(h, id, n)))
           /\ Cardinality(BytesOf(Put(h, id, n))) = Cardinality(BytesOf(h)) + n
<1> DEFINE new == {id} \X (1 .. n)
<1>1. BytesOf(Put(h, id, n)) = BytesOf(h) \cup new
  <2>1. BytesOf(Put(h, id, n)) \subseteq BytesOf(h) \cup new
    BY Zenon DEF BytesOf, Put
  <2>2. BytesOf(h) \cup new \subseteq BytesOf(Put(h, id, n))
    BY DEF BytesOf, Put
  <2> QED BY <2>1, <2>2
<1>2. BytesOf(h) \cap new = {}
  BY DEF BytesOf
<1>3. IsFiniteSet(new) /\ Cardinality(new) = n
  <2>1. IsFiniteSet({id}) /\ Cardinality({id}) = 1
    BY FS_Singleton, Zenon
  <2>2. IsFiniteSet(1 .. n) /\ Cardinality(1 .. n) = n
    BY FS_Interval
  <2>3. IsFiniteSet(new) /\ Cardinality(new) = Cardinality({id}) * Cardinality(1 .. n)
    BY <2>1, <2>2, FS_Product, Zenon
  <2> QED BY <2>1, <2>2, <2>3
<1>4. Cardinality(BytesOf(h)) \in Nat
  BY FS_CardinalityType
<1>5. Cardinality(BytesOf(h) \cap new) = 0
  BY <1>2, FS_EmptySet
<1>6. /\ IsFiniteSet(BytesOf(h) \cup new)
      /\ Cardinality(BytesOf(h) \cup new) =
            Cardinality(BytesOf(h)) + Cardinality(new) - Cardinality(BytesOf(h) \cap new)
  BY <1>3, FS_Union
<1> QED BY <1>1, <1>3, <1>4, <1>5, <1>6

\* Dropping a handle takes its bytes, no more and no fewer, off those handed out.
LEMMA ReleaseTakesBytes ==
    ASSUME NEW h, NEW id \in DOMAIN h, h[id] \in Nat, IsFiniteSet(BytesOf(h))
    PROVE  /\ IsFiniteSet(BytesOf(Del(h, id)))
           /\ Cardinality(BytesOf(Del(h, id))) = Cardinality(BytesOf(h)) - h[id]
<1> DEFINE old == {id} \X (1 .. h[id])
<1>1. BytesOf(Del(h, id)) = BytesOf(h) \ old
  <2>1. BytesOf(Del(h, id)) \subseteq BytesOf(h) \ old
    BY DEF BytesOf, Del
  <2>2. BytesOf(h) \ old \subseteq BytesOf(Del(h, id))
    BY DEF BytesOf, Del
  <2> QED BY <2>1, <2>2
<1>2. BytesOf(h) \cap old = old
  BY DEF BytesOf
<1>3. IsFiniteSet(old) /\ Cardinality(old) = h[id]
  <2>1. IsFiniteSet({id}) /\ Cardinality({id}) = 1
    BY FS_Singleton, Zenon
  <2>2. IsFiniteSet(1 .. h[id]) /\ Cardinality(1 .. h[id]) = h[id]
    BY FS_Interval
  <2>3. IsFiniteSet(old) /\ Cardinality(old) = Cardinality({id}) * Cardinality(1 .. h[id])
    BY <2>1, <2>2, FS_Product, Zenon
  <2> QED BY <2>1, <2>2, <2>3
<1>4. /\ IsFiniteSet(BytesOf(h) \ old)
      /\ Cardinality(BytesOf(h) \ old) = Cardinality(BytesOf(h)) - Cardinality(BytesOf(h) \cap old)
  BY FS_Difference, Zenon
<1> QED BY <1>1, <1>2, <1>3, <1>4, Zenon

-----------------------------------------------------------------------------
\* The calls of a tier

\* The inductive part of TierAccounting: without the finiteness of the bytes a
\* tier has handed out, their number says nothing.
Accounted(k) ==
    /\ IsFiniteSet(BytesOf(blocks[k]))
    /\ used[k] = Cardinality(BytesOf(blocks[k]))
    /\ used[k] <= Capacity[k]

TiersInv == TiersOK /\ \A k \in TierSet : Accounted(k)

\* Changing what a function maps one argument to leaves it a function on its domain.
LEMMA ExceptIsFunction ==
    ASSUME NEW S, NEW f, f = [x \in S |-> f[x]], NEW a, NEW v, NEW g, g = [f EXCEPT ![a] = v]
    PROVE  g = [x \in S |-> g[x]]
<1>1. DOMAIN f = S
  OBVIOUS
<1>2. g = [x \in S |-> IF x = a THEN v ELSE f[x]]
  BY <1>1
<1>3. \A x \in S : g[x] = IF x = a THEN v ELSE f[x]
  BY <1>2
<1> QED BY <1>2, <1>3

\* AllocateBlock keeps the books when the block is new and fits.
LEMMA AllocateKeeps ==
    ASSUME TiersInv, NEW k \in TierSet, NEW id, NEW n \in Nat,
           CanAllocate(k, id, n), Allocate(k, id, n)
    PROVE  TiersInv'
<1>1. TiersOK'
  <2> DEFINE zeros == [i \in 1..n |-> Zero]
  <2>1. zeros \in Seq(Bytes) /\ Len(zeros) = n
    BY DEF Bytes
  <2> HIDE DEF zeros
  <2>2. /\ blocks' = [blocks EXCEPT ![k] = Put(@, id, n)]
        /\ used' = [used EXCEPT ![k] = @ + n]
        /\ data' = [data EXCEPT ![k] = Put(@, id, zeros)]
    BY DEF Allocate, zeros
  <2>3. /\ blocks' = [j \in TierSet |-> blocks'[j]]
        /\ data' = [j \in TierSet |-> data'[j]]
        /\ used' \in [TierSet -> Int]
    <3>1. blocks' = [j \in TierSet |-> blocks'[j]]
      BY <2>2, ExceptIsFunction, SMTT(30) DEF TiersInv, TiersOK
    <3>2. data' = [j \in TierSet |-> data'[j]]
      BY <2>2, ExceptIsFunction, SMTT(30) DEF TiersInv, TiersOK
    <3>3. used' \in [TierSet -> Int]
      BY <2>2 DEF TiersInv, TiersOK
    <3> QED BY <3>1, <3>2, <3>3
  <2>4. ASSUME NEW j \in TierSet
        PROVE  /\ blocks'[j] \in [DOMAIN blocks'[j] -> Nat]
               /\ data'[j] \in [DOMAIN data'[j] -> Seq(Bytes)]
               /\ \A i \in DOMAIN blocks'[j] :
                     i \in DOMAIN data'[j] /\ blocks'[j][i] <= Len(data'[j][i])
    <3>1. CASE j = k
      <4>1. blocks'[k] = Put(blocks[k], id, n) /\ data'[k] = Put(data[k], id, zeros)
        BY <2>2 DEF TiersInv, TiersOK
      <4> QED BY <2>1, <3>1, <4>1 DEF TiersInv, TiersOK, Put
    <3>2. CASE j # k
      BY <2>2, <3>2 DEF TiersInv, TiersOK
    <3> QED BY <3>1, <3>2
  <2> QED BY <2>3, <2>4 DEF TiersOK
<1>2. ASSUME NEW j \in TierSet PROVE Accounted(j)'
  <2>1. CASE j = k
    <3>1. blocks'[k] = Put(blocks[k], id, n) /\ used'[k] = used[k] + n
      BY DEF TiersInv, TiersOK, Allocate
    <3>2. /\ IsFiniteSet(BytesOf(Put(blocks[k], id, n)))
          /\ Cardinality(BytesOf(Put(blocks[k], id, n))) = Cardinality(BytesOf(blocks[k])) + n
      BY AllocateAddsBytes DEF TiersInv, Accounted, CanAllocate
    <3> QED BY <2>1, <3>1, <3>2 DEF TiersInv, Accounted, CanAllocate, Fits
  <2>2. CASE j # k
    <3>1. blocks'[j] = blocks[j] /\ used'[j] = used[j]
      BY <2>2 DEF TiersInv, TiersOK, Allocate
    <3> QED BY <3>1 DEF TiersInv, Accounted
  <2> QED BY <2>1, <2>2
<1> QED BY <1>1, <1>2 DEF TiersInv

\* RemoveBlock keeps the books, whether or not the tier holds the block.
LEMMA ReleaseKeeps ==
    ASSUME TiersInv, NEW k \in TierSet, NEW id, Release(k, id)
    PROVE  TiersInv'
<1>1. CASE id \notin DOMAIN blocks[k]
  <2>1. UNCHANGED tierVars
    BY <1>1 DEF Release
  <2> QED BY <2>1 DEF tierVars, TiersInv, TiersOK, Accounted
<1>2. CASE id \in DOMAIN blocks[k]
  <2>1. /\ blocks' = [blocks EXCEPT ![k] = Del(@, id)]
        /\ used' = [used EXCEPT ![k] = @ - blocks[k][id]]
        /\ data' = [data EXCEPT ![k] = Del(@, id)]
        /\ blocks[k][id] \in Nat
    BY <1>2, Zenon DEF Release, TiersInv, TiersOK
  <2>2. TiersOK'
    <3>1. /\ blocks' = [j \in TierSet |-> blocks'[j]]
          /\ data' = [j \in TierSet |-> data'[j]]
          /\ used' \in [TierSet -> Int]
      <4>1. blocks' = [j \in TierSet |-> blocks'[j]]
        BY <2>1, ExceptIsFunction DEF TiersInv, TiersOK
      <4>2. data' = [j \in TierSet |-> data'[j]]
        BY <2>1, ExceptIsFunction DEF TiersInv, TiersOK
      <4>3. used' \in [TierSet -> Int]
        BY <2>1 DEF TiersInv, TiersOK
      <4> QED BY <4>1, <4>2, <4>3
    <3>2. ASSUME NEW j \in TierSet
          PROVE  /\ blocks'[j] \in [DOMAIN blocks'[j] -> Nat]
                 /\ data'[j] \in [DOMAIN data'[j] -> Seq(Bytes)]
                 /\ \A i \in DOMAIN blocks'[j] :
                       i \in DOMAIN data'[j] /\ blocks'[j][i] <= Len(data'[j][i])
      BY <2>1 DEF TiersInv, TiersOK, Del
    <3> QED BY <3>1, <3>2 DEF TiersOK
  <2>3. ASSUME NEW j \in TierSet PROVE Accounted(j)'
    <3>1. CASE j = k
      <4>1. blocks'[k] = Del(blocks[k], id) /\ used'[k] = used[k] - blocks[k][id]
        BY <2>1 DEF TiersInv, TiersOK
      <4>2. /\ IsFiniteSet(BytesOf(Del(blocks[k], id)))
            /\ Cardinality(BytesOf(Del(blocks[k], id)))
                 = Cardinality(BytesOf(blocks[k])) - blocks[k][id]
        BY <1>2, <2>1, ReleaseTakesBytes DEF TiersInv, Accounted
      <4>3. used[k] \in Int /\ Capacity[k] \in Nat
        BY TiersAssumption DEF TiersInv, TiersOK
      <4> QED BY <2>1, <3>1, <4>1, <4>2, <4>3 DEF TiersInv, Accounted
    <3>2. CASE j # k
      <4>1. blocks'[j] = blocks[j] /\ used'[j] = used[j]
        BY <2>1, <3>2 DEF TiersInv, TiersOK
      <4> QED BY <4>1 DEF TiersInv, Accounted
    <3> QED BY <3>1, <3>2
  <2> QED BY <2>2, <2>3 DEF TiersInv
<1> QED BY <1>1, <1>2

\* What std::min and std::max return.
LEMMA MaxOfTwo ==
    ASSUME NEW a \in Nat, NEW b \in Nat
    PROVE  Max({a, b}) \in {a, b} /\ Max({a, b}) >= a /\ Max({a, b}) >= b
<1>1. \E x \in {a, b} : \A y \in {a, b} : x >= y
  <2>1. CASE a >= b BY <2>1
  <2>2. CASE b >= a BY <2>2
  <2> QED BY <2>1, <2>2
<1> QED BY <1>1 DEF Max

\* access_count, which saturates, stays a number.
LEMMA MinOfTwo ==
    ASSUME NEW a \in Nat, NEW b \in Nat
    PROVE  Min({a, b}) \in Nat
<1>1. \E x \in {a, b} : \A y \in {a, b} : x <= y
  <2>1. CASE a <= b BY <2>1
  <2>2. CASE b <= a BY <2>2
  <2> QED BY <2>1, <2>2
<1> QED BY <1>1 DEF Min

\* A write leaves a block's bytes bytes, and never makes the block shorter.
LEMMA OverlayTyped ==
    ASSUME NEW d \in Seq(Bytes), NEW off \in Nat, NEW bytes \in Seq(Bytes)
    PROVE  Overlay(d, off, bytes) \in Seq(Bytes) /\ Len(Overlay(d, off, bytes)) >= Len(d)
<1> DEFINE m == Max({Len(d), off + Len(bytes)})
<1>1. m \in Nat /\ m >= Len(d) /\ m \in {Len(d), off + Len(bytes)}
  BY MaxOfTwo
<1> DEFINE byte(i) == IF off < i /\ i <= off + Len(bytes) THEN bytes[i - off]
                      ELSE IF i <= Len(d) THEN d[i] ELSE Zero
<1>2. \A i \in 1..m : byte(i) \in Bytes
  BY <1>1 DEF Bytes
<1>3. Overlay(d, off, bytes) = [i \in 1..m |-> byte(i)]
  BY DEF Overlay
<1> HIDE DEF m, byte
<1> QED BY <1>1, <1>2, <1>3

\* WriteBlock leaves handles and books alone, and grows data at most.
LEMMA WriteKeeps ==
    ASSUME TiersInv, NEW k \in TierSet, NEW id \in DOMAIN blocks[k],
           NEW off \in Nat, NEW bytes \in Seq(Bytes), WriteTier(k, id, off, bytes)
    PROVE  TiersInv'
<1>1. UNCHANGED <<blocks, used>>
  BY DEF WriteTier
<1> DEFINE new == Put(data[k], id, Overlay(data[k][id], off, bytes))
<1>2. data' = [data EXCEPT ![k] = new]
  BY DEF WriteTier
<1>3. /\ id \in DOMAIN data[k] /\ data[k][id] \in Seq(Bytes)
      /\ data[k] \in [DOMAIN data[k] -> Seq(Bytes)]
      /\ blocks[k][id] \in Nat /\ blocks[k][id] <= Len(data[k][id])
  BY DEF TiersInv, TiersOK
<1>4. /\ Overlay(data[k][id], off, bytes) \in Seq(Bytes)
      /\ Len(Overlay(data[k][id], off, bytes)) >= Len(data[k][id])
  BY <1>3, OverlayTyped
<1>5. /\ new \in [DOMAIN data[k] -> Seq(Bytes)]
      /\ \A i \in DOMAIN blocks[k] : i \in DOMAIN new /\ blocks[k][i] <= Len(new[i])
  BY <1>3, <1>4 DEF TiersInv, TiersOK, Put
<1> HIDE DEF new
<1>6. data' = [j \in TierSet |-> data'[j]]
  BY <1>2, ExceptIsFunction, Zenon DEF TiersInv, TiersOK
<1>7. ASSUME NEW j \in TierSet
      PROVE  /\ data'[j] \in [DOMAIN data'[j] -> Seq(Bytes)]
             /\ \A i \in DOMAIN blocks[j] : i \in DOMAIN data'[j] /\ blocks[j][i] <= Len(data'[j][i])
  <2>1. CASE j = k
    <3>1. data'[k] = new
      BY <1>2 DEF TiersInv, TiersOK
    <3>2. DOMAIN new = DOMAIN data[k]
      BY <1>5
    <3> QED BY <1>5, <2>1, <3>1, <3>2
  <2>2. CASE j # k
    <3>1. data'[j] = data[j]
      BY <1>2, <2>2 DEF TiersInv, TiersOK
    <3> QED BY <3>1 DEF TiersInv, TiersOK
  <2> QED BY <2>1, <2>2
<1>8. TiersOK'
  BY <1>1, <1>6, <1>7 DEF TiersInv, TiersOK
<1>9. \A j \in TierSet : Accounted(j)'
  BY <1>1 DEF TiersInv, Accounted
<1> QED BY <1>8, <1>9 DEF TiersInv

\* The tiers are as they were when nothing of them changes.
LEMMA UnchangedKeeps ==
    ASSUME TiersInv, UNCHANGED tierVars
    PROVE  TiersInv'
BY DEF tierVars, TiersInv, TiersOK, Accounted

-----------------------------------------------------------------------------
\* The threads' local variables

MetaOK == meta \in [DOMAIN meta -> MetaRecord]
MapOK == map \in [DOMAIN map -> TierSet]
ThOK == th \in [Threads -> ThreadState]

\* The tier CreateBlock falls back on, tiers_.front(), is one of the tiers.
LEMMA FastestIsTier == Fastest \in TierSet
BY TiersAssumption DEF Fastest, TierSet, ToSet

\* A thread between two calls.
LEMMA IdleTyped == Idle \in ThreadState
<1>1. NoMeta \in MetaRecord
  BY FastestIsTier DEF NoMeta, MetaRecord
<1> DEFINE span == <<0, 0>>  buf == <<>>
<1>2. buf \in Seq(Bytes) /\ span \in Nat \X Nat /\ Zero \in Bytes /\ "idle" \in Pcs
  BY DEF Bytes, Pcs
<1>3. Idle = [pc |-> "idle", op |-> "none", id |-> Zero, span |-> span, val |-> Zero,
              tier |-> Fastest, meta |-> NoMeta, buf |-> buf, after |-> "idle"]
  BY DEF Idle
<1> HIDE DEF span, buf
<1> QED BY <1>1, <1>2, <1>3, FastestIsTier DEF ThreadState

\* A thread moves on with its local variables as they are.
LEMMA GotoTyped ==
    ASSUME ThOK, NEW t \in Threads, NEW pc \in Pcs, Goto(t, pc)
    PROVE  ThOK'
<1>1. th[t] \in ThreadState
  BY DEF ThOK
<1>2. [th[t] EXCEPT !.pc = pc] \in ThreadState
  BY <1>1 DEF ThreadState
<1>3. th' = [th EXCEPT ![t] = [th[t] EXCEPT !.pc = pc]]
  BY DEF Goto
<1> QED BY <1>2, <1>3 DEF ThOK

\* A call returns.
LEMMA ReturnTyped ==
    ASSUME ThOK, NEW t \in Threads, Return(t)
    PROVE  ThOK'
BY IdleTyped DEF ThOK, Return

\* A call goes on or returns, as a condition says.
LEMMA GotoOrReturnTyped ==
    ASSUME ThOK, NEW t \in Threads, NEW cond, NEW pc \in Pcs, GotoOrReturn(t, cond, pc)
    PROVE  ThOK'
<1>1. Goto(t, pc) \/ Return(t)
  BY Zenon DEF GotoOrReturn
<1> QED BY <1>1, GotoTyped, ReturnTyped

\* A thread moves on with another tier in hand.
LEMMA GotoWithTierTyped ==
    ASSUME ThOK, NEW t \in Threads, NEW pc \in Pcs, NEW k \in TierSet, GotoWithTier(t, pc, k)
    PROVE  ThOK'
<1>1. th[t] \in ThreadState
  BY DEF ThOK
<1>2. [th[t] EXCEPT !.pc = pc, !.tier = k] \in ThreadState
  BY <1>1, Zenon DEF ThreadState
<1> QED BY <1>2 DEF ThOK, GotoWithTier

\* A thread moves on with a copy of a block's metadata.
LEMMA GotoWithMetaTyped ==
    ASSUME ThOK, NEW t \in Threads, NEW pc \in Pcs, NEW m \in MetaRecord,
           th' = [th EXCEPT ![t] = [@ EXCEPT !.pc = pc, !.meta = m]]
    PROVE  ThOK'
<1>1. th[t] \in ThreadState
  BY DEF ThOK
<1>2. [th[t] EXCEPT !.pc = pc, !.meta = m] \in ThreadState
  BY <1>1, Zenon DEF ThreadState
<1> QED BY <1>2 DEF ThOK

\* A thread moves on with a copy of a block's bytes.
LEMMA GotoWithBufTyped ==
    ASSUME ThOK, NEW t \in Threads, NEW pc \in Pcs, NEW b \in Seq(Bytes),
           th' = [th EXCEPT ![t] = [@ EXCEPT !.pc = pc, !.buf = b]]
    PROVE  ThOK'
<1>1. th[t] \in ThreadState
  BY DEF ThOK
<1>2. [th[t] EXCEPT !.pc = pc, !.buf = b] \in ThreadState
  BY <1>1, Zenon DEF ThreadState
<1> QED BY <1>2 DEF ThOK

\* Incrementing access_count leaves metadata metadata.
LEMMA CountedTyped ==
    ASSUME NEW m \in MetaRecord
    PROVE  Counted(m) \in MetaRecord
<1>1. m.count \in Nat /\ m.count + 1 \in Nat
  BY DEF MetaRecord
<1>2. Min({m.count + 1, MaxCount}) \in Nat
  BY <1>1, MinOfTwo, MaxCountAssumption
<1> QED BY <1>2 DEF MetaRecord, Counted

\* A thread that has just been handed a call.
LEMMA StartTyped ==
    ASSUME NEW op \in Ops, NEW id \in Blocks
    PROVE  Start(op, id) \in ThreadState
BY IdleTyped, Zenon DEF Start, ThreadState

\* What the types say of one thread's local variables.
LEMMA LocalsTyped ==
    ASSUME ThOK, NEW t \in Threads
    PROVE  /\ th[t] \in ThreadState /\ SizeFor(t) \in Nat /\ th[t].tier \in TierSet
           /\ th[t].span[1] \in Nat /\ th[t].span[2] \in Nat /\ th[t].val \in Bytes
           /\ th[t].meta \in MetaRecord /\ th[t].meta.tier \in TierSet
           /\ th[t].buf \in Seq(Bytes) /\ th[t].after \in Pcs
BY DEF ThOK, ThreadState, MetaRecord, SizeFor

\* PutBlockMeta.
LEMMA PutMetaTyped ==
    ASSUME MetaOK, NEW id, NEW m \in MetaRecord, meta' = Put(meta, id, m)
    PROVE  MetaOK'
BY DEF MetaOK, Put

\* DeleteBlockMeta.
LEMMA DelMetaTyped ==
    ASSUME MetaOK, NEW id, meta' = Del(meta, id)
    PROVE  MetaOK'
BY DEF MetaOK, Del

\* An assignment to an entry of block_tier_map_.
LEMMA PutMapTyped ==
    ASSUME MapOK, NEW id, NEW k \in TierSet, map' = Put(map, id, k)
    PROVE  MapOK'
BY DEF MapOK, Put

\* The erasure of an entry of block_tier_map_.
LEMMA DelMapTyped ==
    ASSUME MapOK, NEW id, map' = Del(map, id)
    PROVE  MapOK'
BY DEF MapOK, Del

\* The bytes ExportBlock returns are bytes: the handle never promises more of
\* them than the tier holds.
LEMMA ExportedTyped ==
    ASSUME TiersInv, NEW k \in TierSet, NEW id \in DOMAIN blocks[k]
    PROVE  Exported(k, id) \in Seq(Bytes)
BY DEF TiersInv, TiersOK, Exported

\* EvictBlocks asks the CacheManager for candidates.
LEMMA TakeCandidatesTyped ==
    ASSUME ThOK, NEW t \in Threads, NEW need, NEW after \in Pcs, TakeCandidates(t, need, after)
    PROVE  ThOK'
<1>1. PICK pc \in Pcs : th' = [th EXCEPT ![t] = [@ EXCEPT !.after = after, !.pc = pc]]
  <2> DEFINE none == GetEvictionCandidates(cm, need).victims = <<>>
  <2>1. th' = [th EXCEPT ![t] = [@ EXCEPT !.after = after,
                                        !.pc = IF none THEN after ELSE "evict_find"]]
    BY DEF TakeCandidates
  <2> HIDE DEF none
  <2>2. CASE none BY <2>1, <2>2, Zenon
  <2>3. CASE ~none BY <2>1, <2>3 DEF Pcs
  <2> QED BY <2>2, <2>3, Zenon
<1>2. th[t] \in ThreadState
  BY DEF ThOK
<1>3. [th[t] EXCEPT !.after = after, !.pc = pc] \in ThreadState
  BY <1>2, Zenon DEF ThreadState
<1> QED BY <1>1, <1>3 DEF ThOK

\* EvictBlocks turns to its next candidate, or is done.
LEMMA NextCandidateTyped ==
    ASSUME ThOK, NEW t \in Threads, NextCandidate(t)
    PROVE  ThOK'
<1>1. th[t].after \in Pcs
  BY LocalsTyped
<1>2. Goto(t, th[t].after) \/ Goto(t, "evict_find")
  BY DEF NextCandidate
<1>3. "evict_find" \in Pcs
  BY DEF Pcs
<1> QED BY <1>1, <1>2, <1>3, GotoTyped

-----------------------------------------------------------------------------
\* Every step keeps the inductive invariant

IInv == TiersInv /\ MetaOK /\ MapOK /\ ThOK

\* The invariant holds when the worker starts for the first time.
LEMMA InitEstablishes == Init => IInv
<1> SUFFICES ASSUME Init PROVE IInv
  OBVIOUS
<1>1. TiersOK
  <2>1. DOMAIN EmptyMap = {}
    BY DEF EmptyMap
  <2> QED BY <2>1 DEF Init, TiersOK, EmptyMap
<1>2. ASSUME NEW k \in TierSet PROVE Accounted(k)
  <2>1. BytesOf(blocks[k]) = {} /\ used[k] = 0
    BY DEF Init, BytesOf, EmptyMap
  <2>2. Capacity[k] \in Nat
    BY TiersAssumption
  <2> QED BY <2>1, <2>2, FS_EmptySet DEF Accounted
<1>3. MetaOK /\ MapOK
  BY DEF Init, MetaOK, MapOK, EmptyMap
<1>4. ThOK
  BY IdleTyped DEF Init, ThOK
<1> QED BY <1>1, <1>2, <1>3, <1>4 DEF IInv, TiersInv

\* Nothing but the program counter and the local variables changes.
LEMMA LocalStep ==
    ASSUME IInv, UNCHANGED <<tierVars, meta, map>>, ThOK'
    PROVE  IInv'
BY UnchangedKeeps DEF IInv, MetaOK, MapOK

\* A client call that writes.
LEMMA CallWriteKeeps ==
    ASSUME IInv, NEW t \in Threads, NEW id \in Blocks, NEW span \in Spans, NEW v \in Vals,
           CallWrite(t, id, span, v)
    PROVE  IInv'
<1>1. PICK pc \in Pcs : th' = [th EXCEPT ![t] =
              [Start("write", id) EXCEPT !.pc = pc, !.span = span, !.val = v]]
  <2>1. CASE id \in DOMAIN map BY <2>1 DEF CallWrite, Pcs
  <2>2. CASE id \notin DOMAIN map BY <2>2 DEF CallWrite, Pcs
  <2> QED BY <2>1, <2>2, Zenon
<1>2. Start("write", id) \in ThreadState /\ span \in Nat \X Nat /\ v \in Bytes
  BY StartTyped, SpansAssumption DEF CallWrite, Bytes
<1>3. ThOK'
  BY <1>1, <1>2, Zenon DEF IInv, ThOK, ThreadState
<1> QED BY <1>3, LocalStep DEF CallWrite

\* A client call that reads.
LEMMA CallReadKeeps ==
    ASSUME IInv, NEW t \in Threads, NEW id \in Blocks, CallRead(t, id)
    PROVE  IInv'
<1>1. Start("read", id) \in ThreadState /\ map[id] \in TierSet /\ "r_tier" \in Pcs
  BY StartTyped DEF CallRead, IInv, MapOK, Pcs
<1>2. ThOK'
  BY <1>1, Zenon DEF CallRead, IInv, ThOK, ThreadState
<1> QED BY <1>2, LocalStep DEF CallRead

\* A client call that removes.
LEMMA CallRemoveKeeps ==
    ASSUME IInv, NEW t \in Threads, NEW id \in Blocks, CallRemove(t, id)
    PROVE  IInv'
<1>1. Start("remove", id) \in ThreadState /\ "d_tier" \in Pcs /\ "d_policy" \in Pcs
  BY StartTyped DEF CallRemove, Pcs
<1>2. CASE id \in DOMAIN map
  <2>1. map[id] \in TierSet
    BY <1>2 DEF IInv, MapOK
  <2>2. ThOK'
    BY <1>1, <1>2, <2>1, Zenon DEF CallRemove, IInv, ThOK, ThreadState
  <2> QED BY <2>2, LocalStep DEF CallRemove
<1>3. CASE id \notin DOMAIN map
  <2>1. ThOK'
    BY <1>1, <1>3, Zenon DEF CallRemove, IInv, ThOK, ThreadState
  <2> QED BY <2>1, LocalStep DEF CallRemove
<1> QED BY <1>2, <1>3

\* The steps of CreateBlock.
LEMMA CreateKeeps ==
    ASSUME IInv, NEW t \in Threads,
           \/ Pick(t) \/ Recheck(t) \/ Alloc(t) \/ PutMeta(t) \/ SetMap(t) \/ InsertPolicy(t)
    PROVE  IInv'
<1> USE LocalsTyped DEF IInv
<1>1. CASE Pick(t)
  <2> DEFINE i == CHOOSE n \in DOMAIN Tiers : Tiers[n] = th[t].tier
  <2>1. i \in DOMAIN Tiers /\ DOMAIN Tiers = 1 .. Len(Tiers) /\ Len(Tiers) \in Nat
    BY TiersAssumption DEF TierSet, ToSet
  <2>2. \/ Goto(t, "alloc")
        \/ i < Len(Tiers) /\ GotoWithTier(t, "pick", Tiers[i + 1])
        \/ GotoWithTier(t, "evict_full", Fastest)
    BY <1>1 DEF Pick
  <2> HIDE DEF i
  <2>3. ASSUME i < Len(Tiers) PROVE Tiers[i + 1] \in TierSet
    <3>1. i + 1 \in DOMAIN Tiers
      BY <2>1, <2>3
    <3> QED BY <3>1 DEF TierSet, ToSet
  <2>4. "alloc" \in Pcs /\ "pick" \in Pcs /\ "evict_full" \in Pcs
    BY DEF Pcs
  <2>5. ThOK'
    BY <2>2, <2>3, <2>4, FastestIsTier, GotoTyped, GotoWithTierTyped
  <2> QED BY <1>1, <2>5, LocalStep DEF Pick
<1>2. CASE Recheck(t)
  <2>1. "alloc" \in Pcs
    BY DEF Pcs
  <2>2. ThOK'
    BY <1>2, <2>1, GotoOrReturnTyped DEF Recheck
  <2> QED BY <1>2, <2>2, LocalStep DEF Recheck
<1>3. CASE Alloc(t)
  <2>1. "put_meta" \in Pcs
    BY DEF Pcs
  <2>2. ThOK'
    BY <1>3, <2>1, GotoTyped, ReturnTyped DEF Alloc
  <2>3. TiersInv'
    BY <1>3, AllocateKeeps, UnchangedKeeps DEF Alloc
  <2> QED BY <1>3, <2>2, <2>3 DEF Alloc, MetaOK, MapOK
<1>4. CASE PutMeta(t)
  <2>1. [length |-> SizeFor(t), tier |-> th[t].tier, count |-> 0] \in MetaRecord
    BY DEF MetaRecord
  <2>2. MetaOK'
    BY <1>4, <2>1, PutMetaTyped DEF PutMeta
  <2>3. "set_map" \in Pcs
    BY DEF Pcs
  <2>4. ThOK'
    BY <1>4, <2>3, GotoTyped DEF PutMeta
  <2> QED BY <1>4, <2>2, <2>4, UnchangedKeeps DEF PutMeta, MapOK
<1>5. CASE SetMap(t)
  <2>1. MapOK'
    BY <1>5, PutMapTyped DEF SetMap
  <2>2. "insert" \in Pcs
    BY DEF Pcs
  <2>3. ThOK'
    BY <1>5, <2>2, GotoTyped DEF SetMap
  <2> QED BY <1>5, <2>1, <2>3, UnchangedKeeps DEF SetMap, MetaOK
<1>6. CASE InsertPolicy(t)
  <2>1. "auto_evict" \in Pcs
    BY DEF Pcs
  <2>2. ThOK'
    BY <1>6, <2>1, GotoTyped DEF InsertPolicy
  <2> QED BY <1>6, <2>2, LocalStep DEF InsertPolicy
<1> QED BY <1>1, <1>2, <1>3, <1>4, <1>5, <1>6

\* The steps of EvictBlocks and MaybeAutoEvict.
LEMMA EvictKeeps ==
    ASSUME IInv, NEW t \in Threads,
           \/ AutoEvict(t) \/ AutoFree(t) \/ EvictForSpace(t)
           \/ EvictFind(t) \/ EvictDrop(t) \/ EvictMeta(t) \/ EvictErase(t)
    PROVE  IInv'
<1> USE LocalsTyped DEF IInv
<1>0. {"auto_free", "w_find", "recheck", "evict_drop", "evict_meta", "evict_erase"} \subseteq Pcs
  BY DEF Pcs
<1>1. CASE AutoEvict(t)
  <2>1. Goto(t, "auto_free") \/ Goto(t, "w_find")
    BY <1>1 DEF AutoEvict
  <2>2. ThOK'
    BY <1>0, <2>1, GotoTyped
  <2> QED BY <1>1, <2>2, LocalStep DEF AutoEvict
<1>2. CASE AutoFree(t)
  <2>1. PICK n : Goto(t, "w_find") \/ TakeCandidates(t, n, "w_find")
    BY <1>2, Zenon DEF AutoFree
  <2>2. ThOK'
    BY <1>0, <2>1, GotoTyped, TakeCandidatesTyped
  <2> QED BY <1>2, <2>2, LocalStep, Zenon DEF AutoFree
<1>3. CASE EvictForSpace(t)
  <2>1. ThOK'
    BY <1>0, <1>3, TakeCandidatesTyped, Zenon DEF EvictForSpace
  <2> QED BY <1>3, <2>1, LocalStep DEF EvictForSpace
<1>4. CASE EvictFind(t)
  <2>1. Goto(t, "evict_drop") \/ NextCandidate(t)
    BY <1>4 DEF EvictFind
  <2>2. ThOK'
    BY <1>0, <2>1, GotoTyped, NextCandidateTyped
  <2> QED BY <1>4, <2>2, LocalStep DEF EvictFind
<1>5. CASE EvictDrop(t)
  <2>1. ThOK'
    BY <1>0, <1>5, GotoTyped DEF EvictDrop
  <2>2. TiersInv'
    BY <1>5, ReleaseKeeps DEF EvictDrop
  <2> QED BY <1>5, <2>1, <2>2 DEF EvictDrop, MetaOK, MapOK
<1>6. CASE EvictMeta(t)
  <2>1. ThOK'
    BY <1>0, <1>6, GotoTyped DEF EvictMeta
  <2>2. MetaOK'
    BY <1>6, DelMetaTyped DEF EvictMeta
  <2> QED BY <1>6, <2>1, <2>2, UnchangedKeeps DEF EvictMeta, MapOK
<1>7. CASE EvictErase(t)
  <2>1. ThOK'
    BY <1>7, NextCandidateTyped DEF EvictErase
  <2>2. MapOK'
    BY <1>7, DelMapTyped DEF EvictErase
  <2> QED BY <1>7, <2>1, <2>2, UnchangedKeeps DEF EvictErase, MetaOK
<1> QED BY <1>1, <1>2, <1>3, <1>4, <1>5, <1>6, <1>7

\* The steps of WriteBlock and RemoveBlock.
LEMMA WriteAndRemoveKeep ==
    ASSUME IInv, NEW t \in Threads,
           \/ WriteFind(t) \/ WriteData(t) \/ Touch(t)
           \/ RemoveData(t) \/ RemovePolicy(t) \/ RemoveMeta(t) \/ RemoveMap(t)
    PROVE  IInv'
<1> USE LocalsTyped DEF IInv
<1>0. {"w_tier", "touch", "r_meta", "d_policy", "d_meta", "d_map"} \subseteq Pcs
  BY DEF Pcs
<1>1. CASE WriteFind(t)
  <2>1. th[t].id \in DOMAIN map => map[th[t].id] \in TierSet
    BY DEF MapOK
  <2>2. ThOK'
    BY <1>0, <1>1, <2>1, GotoWithTierTyped, ReturnTyped DEF WriteFind
  <2> QED BY <1>1, <2>2, LocalStep DEF WriteFind
<1>2. CASE WriteData(t)
  <2> DEFINE k == th[t].tier
             bytes == [i \in 1 .. th[t].span[2] |-> th[t].val]
  <2>1. bytes \in Seq(Bytes)
    OBVIOUS
  <2>2. \/ /\ th[t].id \in DOMAIN blocks[k] /\ WriteTier(k, th[t].id, th[t].span[1], bytes)
           /\ Goto(t, "touch")
        \/ Return(t) /\ UNCHANGED tierVars
    BY <1>2, Zenon DEF WriteData, CanWrite
  <2>3. ThOK'
    BY <1>0, <2>2, GotoTyped, ReturnTyped
  <2> HIDE DEF bytes
  <2>4. TiersInv'
    BY <2>1, <2>2, WriteKeeps, UnchangedKeeps
  <2> QED BY <1>2, <2>3, <2>4 DEF WriteData, MetaOK, MapOK
<1>3. CASE Touch(t)
  <2>1. ThOK'
    BY <1>0, <1>3, GotoOrReturnTyped DEF Touch
  <2> QED BY <1>3, <2>1, LocalStep DEF Touch
<1>4. CASE RemoveData(t)
  <2>1. ThOK'
    BY <1>0, <1>4, GotoTyped DEF RemoveData
  <2>2. TiersInv'
    BY <1>4, ReleaseKeeps DEF RemoveData
  <2> QED BY <1>4, <2>1, <2>2 DEF RemoveData, MetaOK, MapOK
<1>5. CASE RemovePolicy(t)
  <2>1. ThOK'
    BY <1>0, <1>5, GotoTyped DEF RemovePolicy
  <2> QED BY <1>5, <2>1, LocalStep DEF RemovePolicy
<1>6. CASE RemoveMeta(t)
  <2>1. ThOK'
    BY <1>0, <1>6, GotoTyped, Zenon DEF RemoveMeta
  <2>2. MetaOK'
    BY <1>6, DelMetaTyped DEF RemoveMeta
  <2> QED BY <1>6, <2>1, <2>2, UnchangedKeeps DEF RemoveMeta, MapOK
<1>7. CASE RemoveMap(t)
  <2>1. ThOK'
    BY <1>7, ReturnTyped DEF RemoveMap
  <2>2. MapOK'
    BY <1>7, DelMapTyped DEF RemoveMap
  <2> QED BY <1>7, <2>1, <2>2, UnchangedKeeps DEF RemoveMap, MetaOK
<1> QED BY <1>1, <1>2, <1>3, <1>4, <1>5, <1>6, <1>7

\* The steps of ReadBlock and MaybeAutoPromote.
LEMMA ReadKeeps ==
    ASSUME IInv, NEW t \in Threads,
           \/ ReadData(t) \/ ReadMeta(t) \/ ReadPutMeta(t) \/ PromoteCheck(t) \/ PromoteRoom(t)
    PROVE  IInv'
<1> USE LocalsTyped DEF IInv
<1>0. {"touch", "r_put", "p_check", "p_room", "p_find"} \subseteq Pcs
  BY DEF Pcs
<1>1. CASE ReadData(t)
  <2>1. ThOK'
    BY <1>0, <1>1, GotoOrReturnTyped DEF ReadData
  <2> QED BY <1>1, <2>1, LocalStep DEF ReadData
<1>2. CASE ReadMeta(t)
  <2>1. CASE th[t].id \in DOMAIN meta
    <3> DEFINE m == Counted(meta[th[t].id])
    <3>1. m \in MetaRecord
      BY <2>1, CountedTyped DEF MetaOK
    <3>2. th' = [th EXCEPT ![t] = [@ EXCEPT !.pc = "r_put", !.meta = m]]
      BY <1>2, <2>1 DEF ReadMeta
    <3> HIDE DEF m
    <3>3. ThOK'
      BY <1>0, <3>1, <3>2, GotoWithMetaTyped, Zenon
    <3> QED BY <1>2, <3>3, LocalStep DEF ReadMeta
  <2>2. CASE th[t].id \notin DOMAIN meta
    <3>1. ThOK'
      BY <1>2, <2>2, ReturnTyped DEF ReadMeta
    <3> QED BY <1>2, <3>1, LocalStep DEF ReadMeta
  <2> QED BY <2>1, <2>2
<1>3. CASE ReadPutMeta(t)
  <2>1. MetaOK'
    BY <1>3, PutMetaTyped DEF ReadPutMeta
  <2>2. ThOK'
    BY <1>0, <1>3, GotoTyped DEF ReadPutMeta
  <2> QED BY <1>3, <2>1, <2>2, UnchangedKeeps DEF ReadPutMeta, MapOK
<1>4. CASE PromoteCheck(t)
  <2>1. Promotable(t) => Faster[map[th[t].id]] \in TierSet
    BY DEF Promotable
  <2>2. ThOK'
    BY <1>0, <1>4, <2>1, GotoWithTierTyped, ReturnTyped, Zenon DEF PromoteCheck
  <2> QED BY <1>4, <2>2, LocalStep DEF PromoteCheck
<1>5. CASE PromoteRoom(t)
  <2>1. ThOK'
    BY <1>0, <1>5, GotoOrReturnTyped DEF PromoteRoom
  <2> QED BY <1>5, <2>1, LocalStep DEF PromoteRoom
<1> QED BY <1>1, <1>2, <1>3, <1>4, <1>5

\* The steps of PromoteBlock.
LEMMA PromoteKeeps ==
    ASSUME IInv, NEW t \in Threads,
           \/ PromoteFind(t) \/ PromoteExport(t) \/ PromoteAlloc(t) \/ PromoteImport(t)
           \/ PromoteDrop(t) \/ PromoteMeta(t) \/ PromotePutMeta(t) \/ PromoteMap(t)
    PROVE  IInv'
<1> USE LocalsTyped DEF IInv
<1>0. {"p_export", "p_alloc", "p_import", "p_drop", "p_meta", "p_put", "p_map"} \subseteq Pcs
  BY DEF Pcs
<1>1. CASE PromoteFind(t)
  <2>1. CASE th[t].id \in DOMAIN map /\ map[th[t].id] # th[t].tier
    <3> DEFINE m == [th[t].meta EXCEPT !.tier = map[th[t].id]]
    <3>1. m \in MetaRecord
      BY <2>1 DEF MapOK, MetaRecord
    <3>2. th' = [th EXCEPT ![t] = [@ EXCEPT !.pc = "p_export", !.meta = m]]
      BY <1>1, <2>1 DEF PromoteFind
    <3> HIDE DEF m
    <3>3. ThOK'
      BY <1>0, <3>1, <3>2, GotoWithMetaTyped, Zenon
    <3> QED BY <1>1, <3>3, LocalStep DEF PromoteFind
  <2>2. CASE ~(th[t].id \in DOMAIN map /\ map[th[t].id] # th[t].tier)
    <3>1. ThOK'
      BY <1>1, <2>2, ReturnTyped DEF PromoteFind
    <3> QED BY <1>1, <3>1, LocalStep DEF PromoteFind
  <2> QED BY <2>1, <2>2
<1>2. CASE PromoteExport(t)
  <2>1. CASE th[t].id \in DOMAIN blocks[Source(t)]
    <3>1. Exported(Source(t), th[t].id) \in Seq(Bytes)
      BY <2>1, ExportedTyped DEF Source
    <3>2. ThOK'
      BY <1>0, <1>2, <2>1, <3>1, GotoWithBufTyped, Zenon DEF PromoteExport
    <3> QED BY <1>2, <3>2, LocalStep DEF PromoteExport
  <2>2. CASE th[t].id \notin DOMAIN blocks[Source(t)]
    <3>1. ThOK'
      BY <1>2, <2>2, ReturnTyped DEF PromoteExport
    <3> QED BY <1>2, <3>1, LocalStep DEF PromoteExport
  <2> QED BY <2>1, <2>2
<1>3. CASE PromoteAlloc(t)
  <2>1. Len(th[t].buf) \in Nat
    OBVIOUS
  <2>2. ThOK'
    BY <1>0, <1>3, GotoTyped, ReturnTyped, Zenon DEF PromoteAlloc
  <2>3. TiersInv'
    BY <1>3, <2>1, AllocateKeeps, UnchangedKeeps DEF PromoteAlloc
  <2> QED BY <1>3, <2>2, <2>3 DEF PromoteAlloc, MetaOK, MapOK
<1>4. CASE PromoteImport(t)
  <2>1. \/ /\ th[t].id \in DOMAIN blocks[th[t].tier]
           /\ WriteTier(th[t].tier, th[t].id, 0, th[t].buf) /\ Goto(t, "p_drop")
        \/ Return(t) /\ UNCHANGED tierVars
    BY <1>4, Zenon DEF PromoteImport, CanWrite
  <2>2. ThOK'
    BY <1>0, <2>1, GotoTyped, ReturnTyped
  <2>3. TiersInv'
    BY <2>1, WriteKeeps, UnchangedKeeps
  <2> QED BY <1>4, <2>2, <2>3 DEF PromoteImport, MetaOK, MapOK
<1>5. CASE PromoteDrop(t)
  <2>1. ThOK'
    BY <1>0, <1>5, GotoTyped DEF PromoteDrop
  <2>2. TiersInv'
    BY <1>5, ReleaseKeeps DEF PromoteDrop, Source
  <2> QED BY <1>5, <2>1, <2>2 DEF PromoteDrop, MetaOK, MapOK
<1>6. CASE PromoteMeta(t)
  <2>1. CASE th[t].id \in DOMAIN meta
    <3> DEFINE m == [meta[th[t].id] EXCEPT !.tier = th[t].tier]
    <3>1. m \in MetaRecord
      BY <2>1 DEF MetaOK, MetaRecord
    <3>2. th' = [th EXCEPT ![t] = [@ EXCEPT !.pc = "p_put", !.meta = m]]
      BY <1>6, <2>1 DEF PromoteMeta
    <3> HIDE DEF m
    <3>3. ThOK'
      BY <1>0, <3>1, <3>2, GotoWithMetaTyped, Zenon
    <3> QED BY <1>6, <3>3, LocalStep DEF PromoteMeta
  <2>2. CASE th[t].id \notin DOMAIN meta
    <3>1. ThOK'
      BY <1>0, <1>6, <2>2, GotoTyped DEF PromoteMeta
    <3> QED BY <1>6, <3>1, LocalStep DEF PromoteMeta
  <2> QED BY <2>1, <2>2
<1>7. CASE PromotePutMeta(t)
  <2>1. MetaOK'
    BY <1>7, PutMetaTyped DEF PromotePutMeta
  <2>2. ThOK'
    BY <1>0, <1>7, GotoTyped DEF PromotePutMeta
  <2> QED BY <1>7, <2>1, <2>2, UnchangedKeeps DEF PromotePutMeta, MapOK
<1>8. CASE PromoteMap(t)
  <2>1. MapOK'
    BY <1>8, PutMapTyped DEF PromoteMap
  <2>2. ThOK'
    BY <1>8, ReturnTyped DEF PromoteMap
  <2> QED BY <1>8, <2>1, <2>2, UnchangedKeeps DEF PromoteMap, MetaOK
<1> QED BY <1>1, <1>2, <1>3, <1>4, <1>5, <1>6, <1>7, <1>8

\* A failed call of the database changes no more than the caller's path.
LEMMA MetaFaultKeeps ==
    ASSUME IInv, NEW t \in Threads, MetaFault(t)
    PROVE  IInv'
<1>1. {"p_check", "p_map", "evict_erase", "d_map"} \subseteq Pcs
  BY DEF Pcs
<1>2. \/ Return(t) \/ Goto(t, "p_check") \/ Goto(t, "p_map")
      \/ Goto(t, "evict_erase") \/ Goto(t, "d_map")
  BY DEF MetaFault
<1>3. ThOK'
  BY <1>1, <1>2, GotoTyped, ReturnTyped DEF IInv
<1> QED BY <1>3, LocalStep DEF MetaFault

\* A crash leaves empty tiers; what is in their directories is not accounted for.
LEMMA CrashKeeps ==
    ASSUME IInv, Crash
    PROVE  IInv'
<1>1. TiersOK'
  <2>1. /\ blocks' = [k \in TierSet |-> EmptyMap]
        /\ used' = [k \in TierSet |-> 0]
        /\ data' = [k \in TierSet |-> IF k = "Memory" THEN EmptyMap ELSE data[k]]
    BY DEF Crash
  <2>2. EmptyMap \in [DOMAIN EmptyMap -> Nat] /\ EmptyMap \in [DOMAIN EmptyMap -> Seq(Bytes)]
    BY DEF EmptyMap
  <2>3. DOMAIN EmptyMap = {}
    BY DEF EmptyMap
  <2>4. ASSUME NEW k \in TierSet PROVE data'[k] \in [DOMAIN data'[k] -> Seq(Bytes)]
    <3>1. data'[k] = EmptyMap \/ data'[k] = data[k]
      BY <2>1
    <3> QED BY <2>2, <3>1 DEF IInv, TiersInv, TiersOK
  <2>5. used' \in [TierSet -> Int] /\ blocks' = [k \in TierSet |-> blocks'[k]]
    BY <2>1
  <2>6. data' = [k \in TierSet |-> data'[k]]
    BY <2>1
  <2> QED BY <2>1, <2>2, <2>3, <2>4, <2>5, <2>6 DEF TiersOK
<1>2. ASSUME NEW k \in TierSet PROVE Accounted(k)'
  <2>1. BytesOf(blocks'[k]) = {} /\ used'[k] = 0
    BY DEF Crash, BytesOf, EmptyMap
  <2>2. Capacity[k] \in Nat
    BY TiersAssumption
  <2> QED BY <2>1, <2>2, FS_EmptySet DEF Accounted
<1>3. MetaOK' /\ MapOK'
  BY DEF Crash, IInv, MetaOK, MapOK, EmptyMap
<1>4. ThOK'
  BY IdleTyped DEF Crash, ThOK
<1> QED BY <1>1, <1>2, <1>3, <1>4 DEF IInv, TiersInv

\* Recover drops metadata and index entries, and adds none.
LEMMA RecoverKeeps ==
    ASSUME IInv, Recover
    PROVE  IInv'
<1>1. Recoverable \subseteq DOMAIN meta
  BY DEF Recoverable
<1>2. MapOK'
  <2>1. map' = [id \in Recoverable |-> meta[id].tier]
    BY Zenon DEF Recover
  <2>2. \A id \in Recoverable : meta[id].tier \in TierSet
    BY DEF Recoverable
  <2> QED BY <2>1, <2>2 DEF MapOK
<1>3. MetaOK'
  <2>1. meta' = [id \in Recoverable |-> meta[id]]
    BY Zenon DEF Recover, Restrict
  <2> QED BY <1>1, <2>1 DEF IInv, MetaOK
<1>4. TiersInv' /\ ThOK'
  BY UnchangedKeeps, Zenon DEF Recover, IInv, ThOK
<1> QED BY <1>2, <1>3, <1>4 DEF IInv

\* One step of the worker, action by action.
LEMMA NextKeeps == IInv /\ [Next]_vars => IInv'
<1> SUFFICES ASSUME IInv, [Next]_vars PROVE IInv'
  OBVIOUS
<1>1. CASE \E t \in Threads, id \in Blocks, span \in Spans, v \in Vals : CallWrite(t, id, span, v)
  BY <1>1, CallWriteKeeps
<1>2. CASE \E t \in Threads, id \in Blocks : CallRead(t, id)
  BY <1>2, CallReadKeeps
<1>3. CASE \E t \in Threads, id \in Blocks : CallRemove(t, id)
  BY <1>3, CallRemoveKeeps
<1>4. CASE \E t \in Threads : Step(t)
  BY <1>4, CreateKeeps, EvictKeeps, WriteAndRemoveKeep, ReadKeeps, PromoteKeeps DEF Step
<1>5. CASE \E t \in Threads : MetaFault(t)
  BY <1>5, MetaFaultKeeps
<1>6. CASE Crash
  BY <1>6, CrashKeeps
<1>7. CASE Recover
  BY <1>7, RecoverKeeps
<1>8. CASE RecoverFails
  BY <1>8, LocalStep DEF RecoverFails, IInv, ThOK
<1>9. CASE UNCHANGED vars
  BY <1>9, UnchangedKeeps DEF vars, tierVars, IInv, MetaOK, MapOK, ThOK
<1> QED BY <1>1, <1>2, <1>3, <1>4, <1>5, <1>6, <1>7, <1>8, <1>9 DEF Next

\* The invariant holds in every reachable state.
LEMMA Invariance == Spec => []IInv
BY InitEstablishes, NextKeeps, PTL DEF Spec

\* In every interleaving of any number of threads, with database failures and
\* crashes: tiers, metadata, index and threads' variables keep their types, and
\* no handle promises more bytes than its memory or file holds.
THEOREM TypesHold == Spec => []TypeOK
<1>1. IInv => TypeOK
  BY DEF IInv, TiersInv, MetaOK, MapOK, ThOK, TypeOK
<1> QED BY <1>1, Invariance, PTL

\* In every interleaving of any number of threads: used_bytes_ of a tier is the
\* number of bytes it has handed out and stays within the capacity, although
\* CreateBlock and MaybeAutoPromote look at it without the tier's mutex.
THEOREM AccountingHolds == Spec => []TierAccounting
<1>1. IInv => TierAccounting
  BY DEF IInv, TiersInv, Accounted, TierAccounting
<1> QED BY <1>1, Invariance, PTL

=============================================================================
