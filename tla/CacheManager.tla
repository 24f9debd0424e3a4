---------------------------- MODULE CacheManager ----------------------------
(***************************************************************************)
(* The CacheManager of a worker on its own, called in every order by the   *)
(* threads that share it.  The policy (LRU or LFU) is fixed when the       *)
(* manager is built; both are explored.                                    *)
(*                                                                         *)
(* log is a history variable: the calls made so far.  The reference        *)
(* definitions read which blocks are tracked, how often and how recently   *)
(* they were used, from the log alone, never from the policy's lists.      *)
(***************************************************************************)
EXTENDS CachePolicy

CONSTANTS Blocks,     \* block ids
          Sizes,      \* block sizes a caller may pass
          Needs,      \* bytes_needed a caller may pass
          MaxCalls    \* bound on the number of calls

VARIABLES cm, log

vars == <<cm, log>>

Room == Len(log) < MaxCalls
Called(entry) == log' = Append(log, entry)

Init == /\ \E type \in {"LRU", "LFU"} : cm = NewCacheManager(type)
        /\ log = <<>>

Access(id) == /\ Room
              /\ cm' = OnBlockAccess(cm, id)
              /\ Called([op |-> "access", id |-> id])

Insert(id, size) == /\ Room
                    /\ cm' = OnBlockInsert(cm, id, size)
                    /\ Called([op |-> "insert", id |-> id, size |-> size])

RemoveCall(id) == /\ Room
                  /\ cm' = OnBlockRemove(cm, id)
                  /\ Called([op |-> "remove", id |-> id])

EvictCall(need) == /\ Room
                   /\ LET r == GetEvictionCandidates(cm, need)
                      IN  /\ cm' = r.cm
                          /\ Called([op |-> "evict", need |-> need, victims |-> r.victims])

Next == \/ \E id \in Blocks : Access(id)
        \/ \E id \in Blocks, size \in Sizes : Insert(id, size)
        \/ \E id \in Blocks : RemoveCall(id)
        \/ \E need \in Needs : EvictCall(need)

Spec == Init /\ [][Next]_vars

-----------------------------------------------------------------------------
\* Reference definitions, over a log l.

Forgets(e, id) == \/ e.op = "remove" /\ e.id = id
                  \/ e.op = "evict" /\ id \in ToSet(e.victims)

\* The position of the insertion that made id tracked, 0 when id is not.
Since(l, id) ==
    LET inserts == {i \in DOMAIN l :
                        /\ l[i].op = "insert" /\ l[i].id = id
                        /\ \A j \in i + 1 .. Len(l) : ~Forgets(l[j], id)}
    IN  IF inserts = {} THEN 0 ELSE Min(inserts)

Tracked(l) == {id \in Blocks : Since(l, id) # 0}

\* The uses (insertions and accesses) of a tracked block.
UsesOf(l, id) == {i \in Since(l, id) .. Len(l) : l[i].op \in {"insert", "access"} /\ l[i].id = id}

\* The size given by the latest insertion.
RecordedSize(l, id) == l[Max({i \in DOMAIN l : l[i].op = "insert" /\ l[i].id = id})].size

\* u leaves the cache before v.
Before(type, l, u, v) ==
    LET nu == Cardinality(UsesOf(l, u))
        nv == Cardinality(UsesOf(l, v))
    IN  \/ type = "LFU" /\ nu < nv
        \/ (type = "LFU" => nu = nv) /\ Max(UsesOf(l, u)) < Max(UsesOf(l, v))

\* The shortest run of blocks, in eviction order, that frees enough.
ExpectedVictims(type, l, need) ==
    LET order    == SetToSortSeq(Tracked(l), LAMBDA u, v : Before(type, l, u, v))
        Freed(k) == MapThenSumSet(LAMBDA i : RecordedSize(l, order[i]), 1..k)
        enough   == {k \in 0..Len(order) : Freed(k) >= need}
    IN  IF enough = {} THEN order ELSE SubSeq(order, 1, Min(enough))

-----------------------------------------------------------------------------

\* GetEvictionCandidates returns exactly the blocks its policy promises: the
\* least recently used ones (LRU), or the least frequently used, oldest first
\* (LFU), as few as free bytes_needed, or all of them when that is not enough.
VictimsAreThePolicys ==
    \A i \in DOMAIN log :
        log[i].op = "evict" =>
            log[i].victims = ExpectedVictims(cm.policy.type, SubSeq(log, 1, i - 1), log[i].need)

\* The policy's lists and block_sizes_ hold exactly the tracked blocks, with
\* the size of their latest insertion: no block is popped without its size,
\* none stays behind when it is removed.
BooksAgree ==
    /\ PolicyIds(cm.policy) = Tracked(log)
    /\ DOMAIN cm.sizes = Tracked(log)
    /\ \A id \in DOMAIN cm.sizes : cm.sizes[id] = RecordedSize(log, id)

\* LFUPolicy::Evict counts min_freq_ upwards until it meets a list: the loop,
\* which runs under the manager's mutex, ends whenever there is a block.
EvictionSearchEnds ==
    cm.policy.type = "LFU" /\ DOMAIN cm.policy.freq # {} => EvictStops(cm.policy) # {}

\* total_cached_bytes_ (an unsigned counter) is never below the sum of the
\* recorded sizes, so no subtraction of it wraps.  It can be above: inserting a
\* block again adds its size without taking the old one off.
TotalCoversSizes == cm.total >= SumFunction(cm.sizes)

=============================================================================
