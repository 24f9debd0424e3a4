----------------------------- MODULE PageStore -----------------------------
(***************************************************************************)
(* worker/page_store.cpp and the client's page cache on top of it          *)
(* (client/cache/cache_client.cpp): an LRU of pages filled by a fetcher,   *)
(* and an index from files to their pages by which a file is invalidated.  *)
(*                                                                         *)
(* The LRU and the index have a mutex each and an operation takes them one *)
(* after the other; each critical section is an action.  A fetch holds     *)
(* neither.  The map_ of the LRU is pages, its order_ is order.  A page is *)
(* a sequence of bytes, short or empty at the end of the file.  Whoever    *)
(* changes a file in the backing store invalidates it afterwards.          *)
(***************************************************************************)
EXTENDS Naturals, Seqs, FiniteSets, Maps

CONSTANTS Threads,
          Files,
          PageSize,      \* page_size_
          MaxPages,      \* max_entries_
          Pages,         \* page indexes in use
          Old, New,      \* file -> its bytes before and after it is rewritten
          Reads,         \* (offset, size) pairs passed to ReadCached
          Dirt,          \* a page passed to WritePage
          MaxCalls       \* bound on calls

ASSUME PageSizeAssumption == PageSize \in Nat \ {0}
ASSUME MaxPagesAssumption == MaxPages \in Nat \ {0}
ASSUME PagesAssumption == Pages \subseteq Nat
ASSUME FilesAssumption == Files # {}
ASSUME ReadsAssumption == Reads \subseteq Nat \X Nat

VARIABLES pages,     \* map_: (file, page index) -> bytes
          order,     \* order_: keys, least recently used first
          index,     \* file_page_index_: file -> page indexes
          backing,   \* file -> bytes: the store the fetcher reads
          th,        \* what each thread is doing
          unsure,    \* keys the cache may hold other bytes for than the backing store:
                     \* written, or fetched before the file changed
          calls      \* calls so far

vars == <<pages, order, index, backing, th, unsure, calls>>

Keys == Files \X Pages
Byte == UNION {{Old[f][i] : i \in DOMAIN Old[f]} \cup {New[f][i] : i \in DOMAIN New[f]} : f \in Files}
            \cup {Dirt[i] : i \in DOMAIN Dirt}

ASSUME BytesAssumption == Old \in [Files -> Seq(Byte)] /\ New \in [Files -> Seq(Byte)] /\ Dirt \in Seq(Byte)

Lesser(a, b) == IF a < b THEN a ELSE b

\* the bytes at [off, off + n) of s, as many as there are
Slice(s, off, n) == SubSeq(s, off + 1, Lesser(off + n, Len(s)))

\* what the fetcher returns for a page
PageOf(s, i) == Slice(s, i * PageSize, PageSize)

Idle == [pc |-> "idle", op |-> "none", file |-> CHOOSE f \in Files : TRUE, page |-> 0,
         off |-> 0, size |-> 0, got |-> <<>>, data |-> <<>>, todo |-> {}, failed |-> FALSE]

Init ==
    /\ pages = EmptyMap
    /\ order = <<>>
    /\ index = [f \in Files |-> {}]
    /\ backing = Old
    /\ th = [t \in Threads |-> Idle]
    /\ unsure = {}
    /\ calls = 0

Key(t) == <<th[t].file, th[t].page>>
Goto(t, l) == th' = [th EXCEPT ![t] = [@ EXCEPT !.pc = l]]

-----------------------------------------------------------------------------
(* ConcurrentLRUCache *)

\* the iterator that map_ has for k, and the list without it
Position(k) == CHOOSE i \in DOMAIN order : order[i] = k
Without(k) == IF k \in DOMAIN pages THEN RemoveAt(order, Position(k)) ELSE order

\* Get on a hit: the entry becomes the most recently used
Touch(k) == order' = Append(Without(k), k)

\* mistake: a full cache makes no room
PutPage_NoEviction(k, v) ==
    /\ pages' = Put(pages, k, v)
    /\ order' = Append(Without(k), k)

\* Put: replace the value, or evict the front of a full cache and append
PutPage(k, v) ==
    IF k \in DOMAIN pages
    THEN pages' = Put(pages, k, v) /\ Touch(k)
    ELSE IF Cardinality(DOMAIN pages) >= MaxPages
         THEN /\ pages' = Put(Del(pages, Head(order)), k, v)
              /\ order' = Append(Tail(order), k)
         ELSE /\ pages' = Put(pages, k, v)
              /\ order' = Append(order, k)

Erase(k) == pages' = Del(pages, k) /\ order' = Without(k)

\* EvictN: drop the n least recently used entries, or all
EvictN(n) ==
    LET gone == {order[i] : i \in 1..Lesser(n, Len(order))}
    IN /\ pages' = [k \in DOMAIN pages \ gone |-> pages[k]]
       /\ order' = SubSeq(order, Lesser(n, Len(order)) + 1, Len(order))

-----------------------------------------------------------------------------
(* Calls *)

Call(t, s) ==
    /\ th[t].pc = "idle"
    /\ calls < MaxCalls
    /\ calls' = calls + 1
    /\ th' = [th EXCEPT ![t] = s]

\* CacheClient::ReadCached; the worker's ReadPage is the read of one whole page.
\* A read of no bytes reads no page.
ReadCached(t) ==
    /\ \E f \in Files, r \in Reads :
          Call(t, [Idle EXCEPT !.pc = IF r[2] = 0 THEN "ret" ELSE "get", !.op = "read", !.file = f,
                               !.off = r[1], !.size = r[2], !.page = r[1] \div PageSize])
    /\ UNCHANGED <<pages, order, index, backing, unsure>>

WritePage(t) ==
    /\ \E k \in Keys :
          /\ Call(t, [Idle EXCEPT !.pc = "put", !.op = "write", !.file = k[1], !.page = k[2], !.data = Dirt])
          /\ unsure' = unsure \cup {k}
    /\ UNCHANGED <<pages, order, index, backing>>

\* PrefetchPages from a page to the last one in use
PrefetchPages(t) ==
    /\ \E k \in Keys :
          Call(t, [Idle EXCEPT !.pc = "contains", !.op = "prefetch", !.file = k[1], !.page = k[2]])
    /\ UNCHANGED <<pages, order, index, backing, unsure>>

\* InvalidateFile of the store or of the client
InvalidateFile(t) ==
    /\ \E f \in Files : Call(t, [Idle EXCEPT !.pc = "invalidate", !.op = "invalidate", !.file = f])
    /\ UNCHANGED <<pages, order, index, backing, unsure>>

Evict(t) ==
    /\ Call(t, Idle)
    /\ \E n \in 1..MaxPages : EvictN(n)
    /\ UNCHANGED <<index, backing, unsure>>

\* the owner of a file rewrites it and will invalidate it next; fetches of its
\* pages that are under way carry the old bytes
Rewrite(t) ==
    \E f \in Files :
        /\ backing[f] # New[f]
        /\ Call(t, [Idle EXCEPT !.pc = "invalidate", !.op = "rewrite", !.file = f])
        /\ backing' = [backing EXCEPT ![f] = New[f]]
        /\ unsure' = unsure \cup {Key(u) : u \in {v \in Threads : th[v].pc \in {"put", "track"} /\ th[v].file = f}}
        /\ UNCHANGED <<pages, order, index>>

-----------------------------------------------------------------------------
(* ReadPage, and the loop of ReadCached around it *)

GetHit(t) ==
    /\ th[t].pc = "get"
    /\ Key(t) \in DOMAIN pages
    /\ Touch(Key(t))
    /\ th' = [th EXCEPT ![t] = [@ EXCEPT !.pc = "copy", !.data = pages[Key(t)]]]
    /\ UNCHANGED <<pages, index, backing, unsure, calls>>

GetMiss(t) ==
    /\ th[t].pc = "get"
    /\ Key(t) \notin DOMAIN pages
    /\ Goto(t, "fetch")
    /\ UNCHANGED <<pages, order, index, backing, unsure, calls>>

\* mistake: the page keeps the size it was allocated with
Fetch_NotResized(t) ==
    LET read == PageOf(backing[th[t].file], th[t].page)
    IN /\ th[t].pc = "fetch"
       /\ th' = [th EXCEPT ![t] = [@ EXCEPT !.pc = "put",
                    !.data = [i \in 1..PageSize |-> IF i <= Len(read) THEN read[i] ELSE "zero"]]]
       /\ UNCHANGED <<pages, order, index, backing, unsure, calls>>

Fetch(t) ==
    /\ th[t].pc = "fetch"
    /\ th' = [th EXCEPT ![t] = [@ EXCEPT !.pc = "put", !.data = PageOf(backing[th[t].file], th[t].page)]]
    /\ UNCHANGED <<pages, order, index, backing, unsure, calls>>

\* where an operation goes when it is done with one page
AfterPage(t) ==
    CASE th[t].op = "read" -> "copy"
      [] th[t].op = "prefetch" -> "next"
      [] OTHER -> "ret"

\* no fetcher is set, or it fails: a read ends with what it has, a prefetch
\* goes on with the next page
FetchFails(t) ==
    /\ th[t].pc = "fetch"
    /\ th' = [th EXCEPT ![t] = [@ EXCEPT !.pc = IF th[t].op = "read" THEN "ret" ELSE "next",
                                         !.failed = TRUE]]
    /\ UNCHANGED <<pages, order, index, backing, unsure, calls>>

PutStep(t) ==
    /\ th[t].pc = "put"
    /\ PutPage(Key(t), th[t].data)
    /\ Goto(t, "track")
    /\ UNCHANGED <<index, backing, unsure, calls>>

\* mistake: only the first page of a file is tracked
TrackPage_First(t) ==
    /\ th[t].pc = "track"
    /\ index' = [index EXCEPT ![th[t].file] = IF @ = {} THEN {th[t].page} ELSE @]
    /\ Goto(t, AfterPage(t))
    /\ UNCHANGED <<pages, order, backing, unsure, calls>>

TrackPage(t) ==
    /\ th[t].pc = "track"
    /\ index' = [index EXCEPT ![th[t].file] = @ \cup {th[t].page}]
    /\ Goto(t, AfterPage(t))
    /\ UNCHANGED <<pages, order, backing, unsure, calls>>

\* mistake: a page is copied from its start, whatever the offset
Copy_FromStart(t) ==
    LET got == th[t].got \o Slice(th[t].data, 0, th[t].size - Len(th[t].got))
    IN /\ th[t].pc = "copy"
       /\ th' = [th EXCEPT ![t] =
                   [@ EXCEPT !.got = got,
                             !.page = (th[t].off + Len(got)) \div PageSize,
                             !.pc = IF Len(th[t].data) < PageSize \/ Len(got) >= th[t].size
                                    THEN "ret" ELSE "get"]]
       /\ UNCHANGED <<pages, order, index, backing, unsure, calls>>

\* the body of the loop behind ReadPage: copy, and stop at a short page
Copy(t) ==
    LET at == th[t].off + Len(th[t].got)
        from == at % PageSize
        got == th[t].got \o Slice(th[t].data, from, th[t].size - Len(th[t].got))
    IN /\ th[t].pc = "copy"
       /\ th' = [th EXCEPT ![t] =
                   IF Len(th[t].data) <= from THEN [@ EXCEPT !.pc = "ret"]
                   ELSE [@ EXCEPT !.got = got,
                                  !.page = (th[t].off + Len(got)) \div PageSize,
                                  !.pc = IF Len(th[t].data) < PageSize \/ Len(got) >= th[t].size
                                         THEN "ret" ELSE "get"]]
       /\ UNCHANGED <<pages, order, index, backing, unsure, calls>>

Return(t) ==
    /\ th[t].pc = "ret"
    /\ th' = [th EXCEPT ![t] = Idle]
    /\ UNCHANGED <<pages, order, index, backing, unsure, calls>>

-----------------------------------------------------------------------------
(* PrefetchPages *)

ContainsPage(t) ==
    /\ th[t].pc = "contains"
    /\ Goto(t, IF Key(t) \in DOMAIN pages THEN "next" ELSE "fetch")
    /\ UNCHANGED <<pages, order, index, backing, unsure, calls>>

NextPage(t) ==
    /\ th[t].pc = "next"
    /\ th' = [th EXCEPT ![t] = IF th[t].page + 1 \in Pages
                               THEN [@ EXCEPT !.pc = "contains", !.page = th[t].page + 1]
                               ELSE [@ EXCEPT !.pc = "ret"]]
    /\ UNCHANGED <<pages, order, index, backing, unsure, calls>>

-----------------------------------------------------------------------------
(* InvalidateFile: take the file's pages from the index, then erase them *)

InvalidateTake(t) ==
    /\ th[t].pc = "invalidate"
    /\ th' = [th EXCEPT ![t] = [@ EXCEPT !.pc = "erase", !.todo = index[th[t].file]]]
    /\ index' = [index EXCEPT ![th[t].file] = {}]
    /\ UNCHANGED <<pages, order, backing, unsure, calls>>

\* mistake: the loop ends after the first page
InvalidateErase_First(t) ==
    /\ th[t].pc = "erase"
    /\ \E i \in th[t].todo :
          /\ Erase(<<th[t].file, i>>)
          /\ th' = [th EXCEPT ![t] = [@ EXCEPT !.todo = {}]]
    /\ UNCHANGED <<index, backing, unsure, calls>>

InvalidateErase(t) ==
    /\ th[t].pc = "erase"
    /\ \E i \in th[t].todo :
          /\ Erase(<<th[t].file, i>>)
          /\ th' = [th EXCEPT ![t] = [@ EXCEPT !.todo = th[t].todo \ {i}]]
    /\ UNCHANGED <<index, backing, unsure, calls>>

InvalidateEnds(t) ==
    /\ th[t].pc = "erase"
    /\ th[t].todo = {}
    /\ Goto(t, "ret")
    /\ UNCHANGED <<pages, order, index, backing, unsure, calls>>

-----------------------------------------------------------------------------

Next == \E t \in Threads :
    \/ ReadCached(t) \/ WritePage(t) \/ PrefetchPages(t) \/ Evict(t)
    \/ InvalidateFile(t) \/ Rewrite(t)
    \/ GetHit(t) \/ GetMiss(t) \/ Fetch(t) \/ FetchFails(t) \/ PutStep(t) \/ TrackPage(t)
    \/ Copy(t) \/ Return(t) \/ ContainsPage(t) \/ NextPage(t)
    \/ InvalidateTake(t) \/ InvalidateErase(t) \/ InvalidateEnds(t)

Spec == Init /\ [][Next]_vars

-----------------------------------------------------------------------------
(* Properties *)

ThreadState ==
    [pc : {"idle", "get", "fetch", "put", "track", "copy", "contains", "next", "invalidate", "erase", "ret"},
     op : {"none", "read", "write", "prefetch", "invalidate", "rewrite"},
     file : Files, page : Nat, off : Nat, size : Nat, got : Seq(Byte), data : Seq(Byte),
     todo : SUBSET Nat, failed : BOOLEAN]

TypeOK ==
    /\ DOMAIN pages \subseteq Files \X Nat
    /\ \A k \in DOMAIN pages : pages[k] \in Seq(Byte)
    /\ order \in Seq(Files \X Nat)
    /\ index \in [Files -> SUBSET Nat]
    /\ backing \in [Files -> Seq(Byte)]
    /\ th \in [Threads -> ThreadState]
    /\ unsure \subseteq Files \X Nat
    /\ calls \in Nat

\* The list and the map of the LRU hold the same keys, each once, and never
\* more than max_entries_, whatever calls interleave.
LruIsSound ==
    /\ {order[i] : i \in DOMAIN order} = DOMAIN pages
    /\ Len(order) = Cardinality(DOMAIN pages)
    /\ Len(order) <= MaxPages

\* A cached page can always be found by an invalidation of its file: it is in
\* the index, or its reader is about to enter it, or an invalidation has it
\* on its list.  The index and the LRU are changed under different mutexes.
CachedIsTracked ==
    \A k \in DOMAIN pages :
        \/ k[2] \in index[k[1]]
        \/ \E t \in Threads : th[t].pc = "track" /\ Key(t) = k
        \/ \E t \in Threads : th[t].pc = "erase" /\ th[t].file = k[1] /\ k[2] \in th[t].todo

\* A page that is not what the backing store has was written to the cache,
\* or its file is about to be invalidated, or it was fetched before the file
\* changed and entered while it was being invalidated.
StaleOnlyIfRaced ==
    \A k \in DOMAIN pages :
        \/ pages[k] = PageOf(backing[k[1]], k[2])
        \/ k \in unsure
        \/ \E t \in Threads : /\ th[t].file = k[1]
                            /\ \/ th[t].pc = "invalidate"
                               \/ (th[t].pc = "erase" /\ k[2] \in th[t].todo)

\* ReadCached of a file that nobody changes returns the bytes of the range
\* asked for, to its end or to the end of the file, whatever is evicted,
\* prefetched or invalidated meanwhile; after a failed fetch, a prefix of them.
ReadCachedIsExact ==
    \A t \in Threads :
        th[t].pc = "ret" /\ th[t].op = "read" /\ backing[th[t].file] = Old[th[t].file]
          /\ (\A k \in unsure : k[1] # th[t].file) =>
            LET wanted == Slice(Old[th[t].file], th[t].off, th[t].size)
            IN IF th[t].failed THEN th[t].got = Slice(wanted, 0, Len(th[t].got)) ELSE th[t].got = wanted

=============================================================================
