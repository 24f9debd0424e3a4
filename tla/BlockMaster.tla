----------------------------- MODULE BlockMaster -----------------------------
(***************************************************************************)
(* The master's record of which workers hold which blocks.  It is kept     *)
(* twice, per block (what clients ask for) and per worker (what is dropped *)
(* when the worker goes down).  Every method holds the one mutex, so a     *)
(* call is one action.                                                     *)
(***************************************************************************)
EXTENDS Naturals, Maps

VARIABLES
    locs,      \* block_locations_: block id -> set of location records
    wblocks    \* worker_blocks_: worker id -> set of block ids

blockVars == <<locs, wblocks>>

\* operator[] of the maps: an absent entry reads as the empty set.
LocsOf(b) == IF b \in DOMAIN locs THEN locs[b] ELSE {}
BlocksOf(w) == IF w \in DOMAIN wblocks THEN wblocks[w] ELSE {}

At(ls, w) == {l \in ls : l.worker = w}
NotAt(ls, w) == {l \in ls : l.worker # w}

BlockMasterInit == locs = EmptyMap /\ wblocks = EmptyMap

\* Slip: a worker that re-reports a block is not entered in worker_blocks_ when
\* the block already has another location.
AddBlockLocation_FirstOnly(b, w, addr, tier) ==
    /\ locs' = Put(locs, b, NotAt(LocsOf(b), w) \cup
                              {[worker |-> w, address |-> addr, tier |-> tier]})
    /\ wblocks' = IF LocsOf(b) = {} THEN Put(wblocks, w, BlocksOf(w) \cup {b}) ELSE wblocks

\* A worker that is listed for the block keeps its entry, but for the tier.
AddBlockLocation(b, w, addr, tier) ==
    IF At(LocsOf(b), w) # {}
    THEN /\ locs' = Put(locs, b, {IF l.worker = w THEN [l EXCEPT !.tier = tier] ELSE l :
                                     l \in LocsOf(b)})
         /\ UNCHANGED wblocks
    ELSE /\ locs' = Put(locs, b, LocsOf(b) \cup
                                   {[worker |-> w, address |-> addr, tier |-> tier]})
         /\ wblocks' = Put(wblocks, w, BlocksOf(w) \cup {b})

\* The locations of the blocks bs without worker w; a block that has none left
\* is erased.
LocsWithout(bs, w) ==
    [b \in {c \in DOMAIN locs : c \in bs => NotAt(locs[c], w) # {}} |->
        IF b \in bs THEN NotAt(locs[b], w) ELSE locs[b]]

RemoveBlockLocation(b, w) ==
    /\ locs' = LocsWithout({b}, w)
    /\ wblocks' = IF w \in DOMAIN wblocks THEN Put(wblocks, w, wblocks[w] \ {b}) ELSE wblocks

RemoveWorkerBlocks(w) ==
    /\ locs' = LocsWithout(BlocksOf(w), w)
    /\ wblocks' = Del(wblocks, w)

RemoveBlock(b) ==
    /\ locs' = Del(locs, b)
    /\ wblocks' = [w \in DOMAIN wblocks |->
                     IF At(LocsOf(b), w) # {} THEN wblocks[w] \ {b} ELSE wblocks[w]]

=============================================================================
