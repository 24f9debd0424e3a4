----------------------------- MODULE CachePolicy -----------------------------
(***************************************************************************)
(* The eviction policies of the worker (LRUPolicy, LFUPolicy) and the      *)
(* CacheManager that wraps one of them, as functions on their state.  Each *)
(* CacheManager method holds the manager's mutex from beginning to end, so *)
(* a call is one atomic step of whoever makes it.                          *)
(*                                                                         *)
(* LRU state:  order  (front = least recently used).                       *)
(* LFU state:  freq   (freq_map_), lists (freq_lists_, front = oldest at   *)
(*             that frequency), min (min_freq_).                           *)
(* Manager:    policy, sizes (block_sizes_), total (total_cached_bytes_).  *)
(*                                                                         *)
(* Definitions named X_Slip are X with a plausible mistake in it, for the  *)
(* mutation runs; no module uses them.                                     *)
(***************************************************************************)
EXTENDS Integers, FiniteSets, Maps, SequencesExt

NewPolicy(type) ==
    IF type = "LRU"
    THEN [type |-> "LRU", order |-> <<>>]
    ELSE [type |-> "LFU", freq |-> EmptyMap, lists |-> EmptyMap, min |-> 0]

PolicyIds(p) == IF p.type = "LRU" THEN ToSet(p.order) ELSE DOMAIN p.freq

-----------------------------------------------------------------------------
\* LRU

LRUOnInsert(p, id) == [p EXCEPT !.order = Append(Remove(@, id), id)]

\* Slip: an access does not move the block to the back.
LRUOnAccess_Stays(p, id) == p

LRUOnAccess(p, id) == IF Contains(p.order, id) THEN LRUOnInsert(p, id) ELSE p

LRUOnRemove(p, id) == [p EXCEPT !.order = Remove(@, id)]

LRUEvict(p) == [victim |-> Head(p.order), policy |-> [p EXCEPT !.order = Tail(@)]]

-----------------------------------------------------------------------------
\* LFU

\* Take id off the list of frequency f; an emptied list is erased.
Unlist(lists, f, id) ==
    LET rest == Remove(lists[f], id)
    IN  IF rest = <<>> THEN Del(lists, f) ELSE Put(lists, f, rest)

\* freq_lists_[f].push_back(id)
Enlist(lists, f, id) ==
    Put(lists, f, Append(IF f \in DOMAIN lists THEN lists[f] ELSE <<>>, id))

LFUOnAccess(p, id) ==
    IF id \notin DOMAIN p.freq THEN p
    ELSE LET f    == p.freq[id]
             rest == Unlist(p.lists, f, id)
         IN  [p EXCEPT !.freq[id] = f + 1,
                       !.lists = Enlist(rest, f + 1, id),
                       !.min = IF f \notin DOMAIN rest /\ @ = f THEN f + 1 ELSE @]

\* Slip: min_freq_ is not reset for the new block.
LFUOnInsert_KeepsMin(p, id) ==
    IF id \in DOMAIN p.freq THEN LFUOnAccess(p, id)
    ELSE [p EXCEPT !.freq = Put(@, id, 1), !.lists = Enlist(@, 1, id)]

LFUOnInsert(p, id) ==
    IF id \in DOMAIN p.freq THEN LFUOnAccess(p, id)
    ELSE [p EXCEPT !.freq = Put(@, id, 1), !.lists = Enlist(@, 1, id), !.min = 1]

LFUOnRemove(p, id) ==
    IF id \notin DOMAIN p.freq THEN p
    ELSE [p EXCEPT !.freq = Del(@, id), !.lists = Unlist(@, p.freq[id], id)]

\* The frequencies at which the search that starts at min_freq_ and counts
\* upwards would stop.  The search does not end when there is none.
EvictStops(p) == {f \in DOMAIN p.lists : f >= p.min}

LFUEvict(p) ==
    LET f == Min(EvictStops(p))
        v == Head(p.lists[f])
    IN  [victim |-> v,
         policy |-> [p EXCEPT !.freq = Del(@, v),
                              !.lists = Unlist(@, f, v),
                              !.min = f]]

-----------------------------------------------------------------------------
\* The virtual calls

OnAccess(p, id) == IF p.type = "LRU" THEN LRUOnAccess(p, id) ELSE LFUOnAccess(p, id)
OnInsert(p, id) == IF p.type = "LRU" THEN LRUOnInsert(p, id) ELSE LFUOnInsert(p, id)
OnRemove(p, id) == IF p.type = "LRU" THEN LRUOnRemove(p, id) ELSE LFUOnRemove(p, id)
Evict(p)        == IF p.type = "LRU" THEN LRUEvict(p)        ELSE LFUEvict(p)

-----------------------------------------------------------------------------
\* CacheManager

NewCacheManager(type) == [policy |-> NewPolicy(type), sizes |-> EmptyMap, total |-> 0]

OnBlockAccess(cm, id) == [cm EXCEPT !.policy = OnAccess(@, id)]

\* Slip: the bytes of a block that is already recorded are not counted again,
\* although its recorded size changes.
OnBlockInsert_CountsOnce(cm, id, size) ==
    [policy |-> OnInsert(cm.policy, id),
     sizes  |-> Put(cm.sizes, id, size),
     total  |-> IF id \in DOMAIN cm.sizes THEN cm.total ELSE cm.total + size]

OnBlockInsert(cm, id, size) ==
    [policy |-> OnInsert(cm.policy, id),
     sizes  |-> Put(cm.sizes, id, size),
     total  |-> cm.total + size]

\* The bytes a block is recorded with, 0 when it is not recorded.
SizeOf(cm, id) == IF id \in DOMAIN cm.sizes THEN cm.sizes[id] ELSE 0

\* Slip: block_sizes_ keeps the entry of a removed block.
OnBlockRemove_KeepsSize(cm, id) ==
    [cm EXCEPT !.policy = OnRemove(@, id), !.total = @ - SizeOf(cm, id)]

OnBlockRemove(cm, id) ==
    [policy |-> OnRemove(cm.policy, id),
     sizes  |-> Del(cm.sizes, id),
     total  |-> cm.total - SizeOf(cm, id)]

\* One iteration of the loop of GetEvictionCandidates.
EvictOne(s) ==
    LET e == Evict(s.cm.policy)
    IN  [cm      |-> [policy |-> e.policy,
                      sizes  |-> Del(s.cm.sizes, e.victim),
                      total  |-> s.cm.total - SizeOf(s.cm, e.victim)],
         victims |-> Append(s.victims, e.victim),
         freed   |-> s.freed + SizeOf(s.cm, e.victim)]

\* Pop victims until bytes_needed bytes are freed or the policy is empty.
GetEvictionCandidates(cm, bytes_needed) ==
    LET n == Cardinality(PolicyIds(cm.policy))
        loop[i \in 0..n] ==
            IF i = 0 THEN [cm |-> cm, victims |-> <<>>, freed |-> 0]
            ELSE LET s == loop[i - 1]
                 IN  IF s.freed < bytes_needed /\ PolicyIds(s.cm.policy) # {}
                     THEN EvictOne(s) ELSE s
    IN  loop[n]

=============================================================================
