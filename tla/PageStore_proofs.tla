-------------------------- MODULE PageStore_proofs --------------------------
(***************************************************************************)
(* For any number of threads, files, pages and calls and any capacity: the *)
(* LRU's list and map agree and stay within max_entries_, every cached     *)
(* page can be found by an invalidation, a page that is not what the       *)
(* backing store has was written to the cache or raced an invalidation,    *)
(* and ReadCached of a file that nobody changes returns the bytes asked    *)
(* for.                                                                    *)
(*                                                                         *)
(* LruIsSound follows from Lru, which says the list has no duplicates.     *)
(* CachedIsTracked is inductive given the types.  StaleOnlyIfRaced is not: *)
(* a file is invalidated by way of the index, so a stale page has to be in *)
(* the index as long as its invalidation is pending (Stale), which at a    *)
(* rewrite is CachedIsTracked; and what a reader carries to the cache has  *)
(* to be known too (Carried).  ReadCachedIsExact needs what a reader has   *)
(* read so far and the page it is at, and that nobody carries or caches    *)
(* anything but the file's own pages (Exact).                              *)
(***************************************************************************)
EXTENDS PageStore, SequenceTheorems, FiniteSetTheorems, FunctionTheorems, TLAPS

K == Files \X Nat

\* o lists the keys in S, each once, and no more than fit.
LruOf(o, S) ==
    /\ o \in Seq(K)
    /\ IsInjective(o)
    /\ Range(o) = S
    /\ Len(o) <= MaxPages

Lru == LruOf(order, DOMAIN pages)

\* A page on its way into the cache is current, or known not to be.
Carried ==
    \A t \in Threads : th[t].pc = "put" =>
        th[t].data = PageOf(backing[th[t].file], th[t].page) \/ Key(t) \in unsure

\* StaleOnlyIfRaced, and a page whose invalidation is pending is in the index.
Stale ==
    \A k \in DOMAIN pages :
        \/ pages[k] = PageOf(backing[k[1]], k[2])
        \/ k \in unsure
        \/ \E t \in Threads : th[t].pc = "invalidate" /\ th[t].file = k[1] /\ k[2] \in index[k[1]]
        \/ \E t \in Threads : th[t].pc = "erase" /\ th[t].file = k[1] /\ k[2] \in th[t].todo

IInv == TypeOK /\ Lru /\ CachedIsTracked /\ Carried /\ Stale

-----------------------------------------------------------------------------
(* Sequences without duplicates *)

\* A sequence without duplicates is as long as its set of elements is large.
LEMMA InjectiveLength ==
    ASSUME NEW S, NEW s \in Seq(S), IsInjective(s)
    PROVE  IsFiniteSet(Range(s)) /\ Cardinality(Range(s)) = Len(s)
<1>1. Len(s) \in Nat /\ DOMAIN s = 1 .. Len(s) /\ s \in [1 .. Len(s) -> S]
  BY LenProperties
<1>2. s \in [1 .. Len(s) -> Range(s)]
  BY <1>1 DEF Range
<1>3. s \in Injection(1 .. Len(s), Range(s))
  BY <1>1, <1>2 DEF IsInjective, Injection
<1>4. s \in Surjection(1 .. Len(s), Range(s))
  BY <1>1, <1>2 DEF Range, Surjection
<1>5. ExistsBijection(1 .. Len(s), Range(s))
  BY <1>3, <1>4 DEF ExistsBijection, Bijection
<1>6. IsFiniteSet(1 .. Len(s)) /\ Cardinality(1 .. Len(s)) = Len(s)
  BY <1>1, FS_Interval, SMTT(30)
<1> QED
  BY <1>5, <1>6, FS_Bijection

\* Appending a new element.
LEMMA AppendNew ==
    ASSUME NEW S, NEW s \in Seq(S), IsInjective(s), NEW e \in S, e \notin Range(s)
    PROVE  /\ Append(s, e) \in Seq(S)
           /\ IsInjective(Append(s, e))
           /\ Range(Append(s, e)) = Range(s) \cup {e}
           /\ Len(Append(s, e)) = Len(s) + 1
<1> DEFINE r == Append(s, e)
<1>1. Len(s) \in Nat /\ DOMAIN s = 1 .. Len(s)
  BY LenProperties
<1>2. /\ r \in Seq(S) /\ Len(r) = Len(s) + 1 /\ DOMAIN r = 1 .. Len(s) + 1
      /\ \A i \in 1 .. Len(s) : r[i] = s[i]
      /\ r[Len(s) + 1] = e
  BY AppendProperties, LenProperties
<1> HIDE DEF r
<1>3. IsInjective(r)
  BY <1>1, <1>2 DEF IsInjective, Range
<1>4. Range(r) = Range(s) \cup {e}
  <2>1. \A i \in DOMAIN r : i \in DOMAIN s \/ i = Len(s) + 1
    BY <1>1, <1>2
  <2>2. \A i \in DOMAIN s : i \in DOMAIN r /\ r[i] = s[i]
    BY <1>1, <1>2
  <2>3. Len(s) + 1 \in DOMAIN r
    BY <1>1, <1>2
  <2> QED
    BY <1>2, <2>1, <2>2, <2>3 DEF Range
<1> QED
  BY <1>2, <1>3, <1>4 DEF r

\* Dropping the first m elements.
LEMMA SuffixOf ==
    ASSUME NEW S, NEW s \in Seq(S), IsInjective(s), NEW m \in 0 .. Len(s)
    PROVE  /\ SubSeq(s, m + 1, Len(s)) \in Seq(S)
           /\ IsInjective(SubSeq(s, m + 1, Len(s)))
           /\ Range(SubSeq(s, m + 1, Len(s))) = Range(s) \ {s[i] : i \in 1 .. m}
           /\ Len(SubSeq(s, m + 1, Len(s))) = Len(s) - m
<1> DEFINE r == SubSeq(s, m + 1, Len(s))
<1>1. Len(s) \in Nat /\ DOMAIN s = 1 .. Len(s) /\ m \in Nat /\ m <= Len(s)
  BY LenProperties
<1>2. \A i \in m + 1 .. Len(s) : s[i] \in S
  BY <1>1, ElementOfSeq
<1>3. m + 1 \in Int /\ Len(s) \in Int
  BY <1>1
<1>4. /\ r \in Seq(S)
      /\ Len(r) = IF m + 1 <= Len(s) THEN Len(s) - (m + 1) + 1 ELSE 0
      /\ \A i \in 1 .. Len(s) - (m + 1) + 1 : r[i] = s[m + 1 + i - 1]
  BY <1>2, <1>3, SubSeqProperties
<1>5. DOMAIN r = 1 .. Len(r)
  BY <1>4, LenProperties
<1> HIDE DEF r
<1>6. Len(r) = Len(s) - m
  <2>1. Len(r) = IF m + 1 <= Len(s) THEN Len(s) - (m + 1) + 1 ELSE 0
    BY <1>4
  <2>2. Len(s) \in Nat /\ m \in Nat /\ m <= Len(s)
    BY <1>1
  <2>3. (IF m + 1 <= Len(s) THEN Len(s) - (m + 1) + 1 ELSE 0) = Len(s) - m
    BY <2>2
  <2> QED
    BY <2>1, <2>3
<1>7. \A i \in DOMAIN r : r[i] = s[m + i] /\ m + i \in DOMAIN s
  <2> TAKE i \in DOMAIN r
  <2>1. i \in 1 .. Len(s) - (m + 1) + 1 /\ m + 1 + i - 1 = m + i /\ m + i \in 1 .. Len(s)
    BY <1>1, <1>5, <1>6
  <2> QED
    BY <1>1, <1>4, <2>1, Zenon
<1>8. IsInjective(r)
  BY <1>1, <1>5, <1>6, <1>7 DEF IsInjective
<1>9. Range(r) = Range(s) \ {s[i] : i \in 1 .. m}
  <2>1. \A i \in DOMAIN r : r[i] \in Range(s) \ {s[j] : j \in 1 .. m}
    BY <1>1, <1>5, <1>6, <1>7 DEF Range, IsInjective
  <2>2. \A j \in DOMAIN s : j \in 1 .. m \/ (j - m \in DOMAIN r /\ r[j - m] = s[j])
    BY <1>1, <1>5, <1>6, <1>7
  <2> QED
    BY <2>1, <2>2 DEF Range
<1> QED
  BY <1>4, <1>6, <1>8, <1>9 DEF r

\* Removing one element.
LEMMA RemoveAtOf ==
    ASSUME NEW S, NEW s \in Seq(S), IsInjective(s), NEW i \in DOMAIN s
    PROVE  /\ RemoveAt(s, i) \in Seq(S)
           /\ IsInjective(RemoveAt(s, i))
           /\ Range(RemoveAt(s, i)) = Range(s) \ {s[i]}
           /\ Len(RemoveAt(s, i)) = Len(s) - 1
<1> DEFINE a == SubSeq(s, 1, i - 1)
           b == SubSeq(s, i + 1, Len(s))
           r == a \o b
<1>1. Len(s) \in Nat /\ DOMAIN s = 1 .. Len(s) /\ i \in 1 .. Len(s)
  BY LenProperties
<1>2. /\ i - 1 \in Int /\ 1 \in Int /\ i + 1 \in Int /\ Len(s) \in Int
      /\ \A j \in 1 .. i - 1 : s[j] \in S
      /\ \A j \in i + 1 .. Len(s) : s[j] \in S
  BY <1>1, ElementOfSeq
<1>3. /\ a \in Seq(S)
      /\ Len(a) = IF 1 <= i - 1 THEN i - 1 - 1 + 1 ELSE 0
      /\ \A j \in 1 .. i - 1 - 1 + 1 : a[j] = s[1 + j - 1]
  BY <1>2, SubSeqProperties
<1>4. /\ b \in Seq(S)
      /\ Len(b) = IF i + 1 <= Len(s) THEN Len(s) - (i + 1) + 1 ELSE 0
      /\ \A j \in 1 .. Len(s) - (i + 1) + 1 : b[j] = s[i + 1 + j - 1]
  BY <1>2, SubSeqProperties
<1>5. /\ r \in Seq(S) /\ Len(r) = Len(a) + Len(b)
      /\ \A j \in 1 .. Len(a) + Len(b) : r[j] = IF j <= Len(a) THEN a[j] ELSE b[j - Len(a)]
  BY <1>3, <1>4, ConcatProperties, SMTT(30)
<1>6. DOMAIN r = 1 .. Len(r)
  BY <1>5, LenProperties
<1>7. RemoveAt(s, i) = r
  BY DEF RemoveAt
<1> HIDE DEF a, b, r
<1>8. Len(a) = i - 1 /\ Len(b) = Len(s) - i /\ Len(r) = Len(s) - 1
  <2>1. Len(a) = IF 1 <= i - 1 THEN i - 1 - 1 + 1 ELSE 0
    BY <1>3
  <2>2. Len(b) = IF i + 1 <= Len(s) THEN Len(s) - (i + 1) + 1 ELSE 0
    BY <1>4
  <2>3. Len(r) = Len(a) + Len(b)
    BY <1>5
  <2> QED
    BY <1>1, <2>1, <2>2, <2>3, SMTT(30)
<1>9. \A j \in DOMAIN r : r[j] = s[IF j < i THEN j ELSE j + 1]
  <2> TAKE j \in DOMAIN r
  <2>1. j \in 1 .. Len(s) - 1
    BY <1>6, <1>8
  <2>2. CASE j < i
    BY <1>1, <1>3, <1>5, <1>8, <2>1, <2>2, SMTT(30)
  <2>3. CASE ~(j < i)
    <3>1. r[j] = b[j - Len(a)] /\ j - Len(a) = j - i + 1
      <4>1. j \in 1 .. Len(a) + Len(b) /\ ~(j <= Len(a)) /\ j - Len(a) = j - i + 1
        BY <1>1, <1>8, <2>1, <2>3
      <4> QED
        BY <1>5, <4>1
    <3>2. j - i + 1 \in 1 .. Len(s) - (i + 1) + 1 /\ i + 1 + (j - i + 1) - 1 = j + 1
      BY <1>1, <2>1, <2>3
    <3> QED
      BY <1>4, <2>3, <3>1, <3>2, SMTT(30)
  <2> QED
    BY <2>2, <2>3
<1>10. IsInjective(r)
  <2> SUFFICES ASSUME NEW x \in DOMAIN r, NEW y \in DOMAIN r, r[x] = r[y] PROVE x = y
    BY DEF IsInjective
  <2> DEFINE p == IF x < i THEN x ELSE x + 1
             q == IF y < i THEN y ELSE y + 1
  <2>1. p \in DOMAIN s /\ q \in DOMAIN s
    BY <1>1, <1>6, <1>8, SMTT(30)
  <2>2. p = q
    BY <1>9, <2>1 DEF IsInjective
  <2> QED
    BY <1>1, <1>6, <1>8, <2>2
<1>11. Range(r) = Range(s) \ {s[i]}
  <2>1. \A j \in DOMAIN r : (IF j < i THEN j ELSE j + 1) \in DOMAIN s /\ (IF j < i THEN j ELSE j + 1) # i
    BY <1>1, <1>6, <1>8
  <2>2. \A j \in DOMAIN r : r[j] \in Range(s) \ {s[i]}
    BY <1>9, <2>1 DEF Range, IsInjective
  <2>3. \A j \in DOMAIN s : j < i => j \in DOMAIN r /\ r[j] = s[j]
    BY <1>1, <1>6, <1>8, <1>9
  <2>4. \A j \in DOMAIN s : j > i => j - 1 \in DOMAIN r /\ r[j - 1] = s[j]
    <3> SUFFICES ASSUME NEW j \in DOMAIN s, j > i PROVE j - 1 \in DOMAIN r /\ r[j - 1] = s[j]
      OBVIOUS
    <3>1. j - 1 \in DOMAIN r /\ ~(j - 1 < i) /\ (j - 1) + 1 = j
      BY <1>1, <1>6, <1>8
    <3> QED
      BY <1>9, <3>1
  <2>5. \A j \in DOMAIN s : j < i \/ j = i \/ j > i
    BY <1>1
  <2> QED
    BY <2>2, <2>3, <2>4, <2>5 DEF Range
<1> QED
  BY <1>5, <1>7, <1>8, <1>10, <1>11

-----------------------------------------------------------------------------
(* The operations of the LRU *)

\* pages' holds nothing that pages does not.
Shrinks == /\ DOMAIN pages' \subseteq DOMAIN pages
           /\ \A k \in DOMAIN pages' : pages'[k] = pages[k]

\* Without(k) lists the other keys.
LEMMA WithoutLists ==
    ASSUME Lru, NEW k
    PROVE  /\ Without(k) \in Seq(K)
           /\ IsInjective(Without(k))
           /\ Range(Without(k)) = DOMAIN pages \ {k}
           /\ Len(Without(k)) = IF k \in DOMAIN pages THEN Len(order) - 1 ELSE Len(order)
<1>1. CASE k \in DOMAIN pages
  <2>1. \E i \in DOMAIN order : order[i] = k
    BY <1>1 DEF Lru, LruOf, Range
  <2>2. Position(k) \in DOMAIN order /\ order[Position(k)] = k
    BY <2>1 DEF Position
  <2> QED
    BY <1>1, <2>2, RemoveAtOf DEF Lru, LruOf, Without
<1>2. CASE k \notin DOMAIN pages
  BY <1>2 DEF Lru, LruOf, Without
<1> QED
  BY <1>1, <1>2

\* Get keeps the list in step with the map.
LEMMA TouchKeepsLru ==
    ASSUME Lru, NEW k \in DOMAIN pages, k \in K, Touch(k)
    PROVE  LruOf(order', DOMAIN pages)
<1> DEFINE w == Without(k)
<1>1. w \in Seq(K) /\ IsInjective(w) /\ Range(w) = DOMAIN pages \ {k} /\ Len(w) = Len(order) - 1
  BY WithoutLists
<1>2. Len(order) \in Nat /\ Len(order) <= MaxPages
  BY LenProperties DEF Lru, LruOf
<1>3. order' = Append(w, k)
  BY DEF Touch
<1> HIDE DEF w
<1>4. /\ Append(w, k) \in Seq(K) /\ IsInjective(Append(w, k))
      /\ Range(Append(w, k)) = Range(w) \cup {k}
      /\ Len(Append(w, k)) = Len(w) + 1
  <2>1. k \notin Range(w)
    BY <1>1
  <2> QED
    BY <1>1, <2>1, AppendNew
<1>5. Len(w) + 1 <= MaxPages
  <2>1. Len(w) = Len(order) - 1
    BY <1>1
  <2> QED
    BY <1>2, <2>1, MaxPagesAssumption
<1>6. Range(w) \cup {k} = DOMAIN pages
  BY <1>1, Zenon
<1> QED
  BY <1>3, <1>4, <1>5, <1>6 DEF LruOf

\* Put enters the page, and drops at most another one.
LEMMA PutKeepsLru ==
    ASSUME Lru, NEW k \in K, NEW v, PutPage(k, v)
    PROVE  /\ Lru'
           /\ k \in DOMAIN pages' /\ pages'[k] = v
           /\ \A x \in DOMAIN pages' \ {k} : x \in DOMAIN pages /\ pages'[x] = pages[x]
<1>0. /\ Len(order) \in Nat /\ Len(order) <= MaxPages
      /\ IsFiniteSet(DOMAIN pages) /\ Cardinality(DOMAIN pages) = Len(order)
  BY InjectiveLength, LenProperties DEF Lru, LruOf
<1>1. CASE k \in DOMAIN pages
  <2>1. LruOf(order', DOMAIN pages)
    BY <1>1, TouchKeepsLru DEF PutPage
  <2>2. pages' = Put(pages, k, v)
    BY <1>1 DEF PutPage
  <2>3. DOMAIN pages' = DOMAIN pages
    BY <1>1, <2>2 DEF Put
  <2> QED
    BY <1>1, <2>1, <2>2, <2>3 DEF Put, Lru
<1>2. CASE k \notin DOMAIN pages /\ Cardinality(DOMAIN pages) >= MaxPages
  <2>1. pages' = Put(Del(pages, Head(order)), k, v) /\ order' = Append(Tail(order), k)
    BY <1>2 DEF PutPage
  <2>2. 1 <= Len(order) /\ order \in Seq(K) /\ IsInjective(order) /\ Range(order) = DOMAIN pages
    BY <1>0, <1>2, MaxPagesAssumption DEF Lru, LruOf
  <2>3. Tail(order) = SubSeq(order, 1 + 1, Len(order)) /\ Head(order) = order[1]
    BY <2>2, TailIsSubSeq, EmptySeq
  <2>4. 1 \in 0 .. Len(order) /\ {order[i] : i \in 1 .. 1} = {order[1]}
    BY <1>0, <2>2
  <2> DEFINE r == Tail(order)
  <2>5. r \in Seq(K) /\ IsInjective(r) /\ Range(r) = DOMAIN pages \ {Head(order)} /\ Len(r) = Len(order) - 1
    <3>1. /\ SubSeq(order, 1 + 1, Len(order)) \in Seq(K)
          /\ IsInjective(SubSeq(order, 1 + 1, Len(order)))
          /\ Range(SubSeq(order, 1 + 1, Len(order))) = Range(order) \ {order[i] : i \in 1 .. 1}
          /\ Len(SubSeq(order, 1 + 1, Len(order))) = Len(order) - 1
      BY <2>2, <2>4, SuffixOf, Zenon
    <3> QED
      BY <2>2, <2>3, <2>4, <3>1, Zenon
  <2> HIDE DEF r
  <2>6. /\ Append(r, k) \in Seq(K) /\ IsInjective(Append(r, k))
        /\ Range(Append(r, k)) = (DOMAIN pages \ {Head(order)}) \cup {k}
        /\ Len(Append(r, k)) = Len(r) + 1
    BY <1>2, <2>5, AppendNew
  <2>7. Len(r) + 1 <= MaxPages
    <3>1. Len(r) = Len(order) - 1
      BY <2>5
    <3> QED
      BY <1>0, <3>1, MaxPagesAssumption
  <2>8. order' = Append(r, k)
    BY <2>1 DEF r
  <2>9. DOMAIN pages' = (DOMAIN pages \ {Head(order)}) \cup {k}
    BY <2>1 DEF Put, Del
  <2>10. /\ pages'[k] = v
         /\ \A x \in DOMAIN pages' \ {k} : x \in DOMAIN pages /\ pages'[x] = pages[x]
    BY <2>1 DEF Put, Del
  <2> QED
    BY <2>6, <2>7, <2>8, <2>9, <2>10 DEF Lru, LruOf
<1>3. CASE k \notin DOMAIN pages /\ ~(Cardinality(DOMAIN pages) >= MaxPages)
  <2>1. pages' = Put(pages, k, v) /\ order' = Append(order, k)
    BY <1>3 DEF PutPage
  <2>2. order \in Seq(K) /\ IsInjective(order) /\ Range(order) = DOMAIN pages
    BY DEF Lru, LruOf
  <2>3. /\ Append(order, k) \in Seq(K) /\ IsInjective(Append(order, k))
        /\ Range(Append(order, k)) = DOMAIN pages \cup {k}
        /\ Len(Append(order, k)) = Len(order) + 1
    BY <1>3, <2>2, AppendNew
  <2>4. Len(order) + 1 <= MaxPages
    BY <1>0, <1>3, MaxPagesAssumption
  <2>5. DOMAIN pages' = DOMAIN pages \cup {k}
    BY <2>1 DEF Put
  <2>6. pages'[k] = v /\ \A x \in DOMAIN pages' \ {k} : x \in DOMAIN pages /\ pages'[x] = pages[x]
    BY <2>1 DEF Put
  <2> QED
    BY <2>1, <2>3, <2>4, <2>5, <2>6 DEF Lru, LruOf
<1> QED
  BY <1>1, <1>2, <1>3

\* Erase removes the page and nothing else.
LEMMA EraseKeepsLru ==
    ASSUME Lru, NEW k, Erase(k)
    PROVE  Lru' /\ Shrinks /\ k \notin DOMAIN pages'
<1>1. /\ order' \in Seq(K) /\ IsInjective(order') /\ Range(order') = DOMAIN pages \ {k}
      /\ Len(order') = IF k \in DOMAIN pages THEN Len(order) - 1 ELSE Len(order)
  BY WithoutLists DEF Erase
<1>2. Len(order) \in Nat /\ Len(order) <= MaxPages
  BY LenProperties DEF Lru, LruOf
<1>3. Len(order') <= MaxPages
  <2>1. Len(order') = IF k \in DOMAIN pages THEN Len(order) - 1 ELSE Len(order)
    BY <1>1
  <2> QED
    BY <1>2, <2>1, MaxPagesAssumption
<1>4. DOMAIN pages' = DOMAIN pages \ {k} /\ Shrinks
  BY DEF Erase, Del, Shrinks
<1> QED
  BY <1>1, <1>3, <1>4 DEF Lru, LruOf

\* EvictN removes from both the same pages.
LEMMA EvictKeepsLru ==
    ASSUME Lru, NEW n \in Nat, EvictN(n)
    PROVE  Lru' /\ Shrinks
<1> DEFINE m == Lesser(n, Len(order))
<1>1. Len(order) \in Nat /\ Len(order) <= MaxPages
  BY LenProperties DEF Lru, LruOf
<1>2. m \in 0 .. Len(order)
  BY <1>1 DEF Lesser
<1>3. /\ order' = SubSeq(order, m + 1, Len(order))
      /\ pages' = [k \in DOMAIN pages \ {order[i] : i \in 1 .. m} |-> pages[k]]
  BY DEF EvictN
<1> HIDE DEF m
<1>4. /\ order' \in Seq(K) /\ IsInjective(order')
      /\ Range(order') = DOMAIN pages \ {order[i] : i \in 1 .. m}
      /\ Len(order') = Len(order) - m
  BY <1>2, <1>3, SuffixOf DEF Lru, LruOf
<1>5. Len(order') <= MaxPages
  <2>1. Len(order') = Len(order) - m
    BY <1>4
  <2> QED
    BY <1>1, <1>2, <2>1, MaxPagesAssumption
<1>6. DOMAIN pages' = DOMAIN pages \ {order[i] : i \in 1 .. m} /\ Shrinks
  BY <1>3 DEF Shrinks
<1> QED
  BY <1>4, <1>5, <1>6 DEF Lru, LruOf

-----------------------------------------------------------------------------
(* The invariant *)

\* A part of a file is a sequence of bytes.
LEMMA SliceType ==
    ASSUME NEW s \in Seq(Byte), NEW off \in Nat, NEW n \in Int
    PROVE  Slice(s, off, n) \in Seq(Byte)
<1>1. Len(s) \in Nat
  BY LenProperties
<1>2. /\ off + 1 \in Int /\ Lesser(off + n, Len(s)) \in Int
      /\ off + 1 >= 1 /\ Lesser(off + n, Len(s)) <= Len(s)
  BY <1>1 DEF Lesser
<1>3. \A i \in off + 1 .. Lesser(off + n, Len(s)) : i \in 1 .. Len(s)
  BY <1>1, <1>2
<1>4. \A i \in off + 1 .. Lesser(off + n, Len(s)) : s[i] \in Byte
  BY <1>3, ElementOfSeq
<1> QED
  BY <1>2, <1>4, SubSeqProperties DEF Slice

\* What the fetcher returns is a sequence of bytes.
LEMMA PageOfType ==
    ASSUME NEW s \in Seq(Byte), NEW i \in Nat
    PROVE  PageOf(s, i) \in Seq(Byte)
<1>1. i * PageSize \in Nat /\ PageSize \in Int
  BY PageSizeAssumption
<1> QED
  BY <1>1, SliceType, Zenon DEF PageOf

\* The state between calls.
LEMMA IdleType == Idle \in ThreadState /\ Idle.pc = "idle"
<1>1. (CHOOSE f \in Files : TRUE) \in Files
  BY FilesAssumption
<1>2. <<>> \in Seq(Byte)
  BY EmptySeq
<1> QED
  BY <1>1, <1>2 DEF Idle, ThreadState

\* The invariant holds at the start.
LEMMA InitInv == Init => IInv
<1> SUFFICES ASSUME Init PROVE IInv
  OBVIOUS
<1>1. DOMAIN pages = {} /\ order = <<>>
  BY DEF Init, EmptyMap
<1>2. order \in Seq(K) /\ Len(order) = 0 /\ DOMAIN order = {}
  BY <1>1, EmptySeq
<1>3. Lru
  BY <1>1, <1>2, MaxPagesAssumption DEF Lru, LruOf, IsInjective, Range
<1>4. th \in [Threads -> ThreadState] /\ \A t \in Threads : th[t].pc = "idle"
  BY IdleType DEF Init
<1>5. TypeOK
  <2>1. backing \in [Files -> Seq(Byte)]
    BY BytesAssumption DEF Init
  <2>2. index \in [Files -> SUBSET Nat] /\ unsure \subseteq Files \X Nat /\ calls \in Nat
    BY DEF Init
  <2> QED
    BY <1>1, <1>2, <1>4, <2>1, <2>2 DEF TypeOK, K
<1>6. CachedIsTracked /\ Stale
  BY <1>1 DEF CachedIsTracked, Stale
<1>7. Carried
  BY <1>4 DEF Carried
<1> QED
  BY <1>3, <1>5, <1>6, <1>7 DEF IInv

\* The steps that enter no page, rewrite no file and leave the index alone:
\* thread t goes on to s, the cache may lose pages, and t drops from its list
\* of pages to erase only those that are not cached.
LEMMA ThreadStep ==
    ASSUME IInv, NEW t \in Threads, NEW s \in ThreadState,
           th' = [th EXCEPT ![t] = s],
           UNCHANGED <<index, backing>>,
           Lru', Shrinks, calls' \in Nat,
           unsure \subseteq unsure', unsure' \subseteq Files \X Nat,
           th[t].pc \notin {"track", "invalidate"},
           th[t].pc = "erase" => \A i \in th[t].todo :
               \/ <<th[t].file, i>> \notin DOMAIN pages'
               \/ s.pc = "erase" /\ s.file = th[t].file /\ i \in s.todo,
           s.pc = "put" => s.data = PageOf(backing[s.file], s.page) \/ <<s.file, s.page>> \in unsure'
    PROVE  IInv'
<1>1. th \in [Threads -> ThreadState] /\ DOMAIN pages \subseteq Files \X Nat
  BY DEF IInv, TypeOK
<1>2. th'[t] = s /\ \A u \in Threads : u # t => th'[u] = th[u]
  BY <1>1
<1>3. TypeOK'
  <2>1. th' \in [Threads -> ThreadState]
    BY <1>1
  <2>2. DOMAIN pages' \subseteq Files \X Nat /\ \A k \in DOMAIN pages' : pages'[k] \in Seq(Byte)
    BY DEF IInv, TypeOK, Shrinks
  <2>3. order' \in Seq(Files \X Nat)
    BY DEF Lru, LruOf, K
  <2>4. index' \in [Files -> SUBSET Nat] /\ backing' \in [Files -> Seq(Byte)]
    BY DEF IInv, TypeOK
  <2> QED
    BY <2>1, <2>2, <2>3, <2>4 DEF TypeOK
<1>4. CachedIsTracked'
  <2> SUFFICES ASSUME NEW k \in DOMAIN pages'
               PROVE  \/ k[2] \in index'[k[1]]
                      \/ \E u \in Threads : th'[u].pc = "track" /\ Key(u)' = k
                      \/ \E u \in Threads : th'[u].pc = "erase" /\ th'[u].file = k[1] /\ k[2] \in th'[u].todo
    BY DEF CachedIsTracked
  <2>1. k \in DOMAIN pages /\ k = <<k[1], k[2]>>
    BY <1>1 DEF Shrinks
  <2>2. CASE k[2] \in index[k[1]]
    BY <2>2
  <2>3. CASE \E u \in Threads : th[u].pc = "track" /\ Key(u) = k
    BY <1>2, <2>3 DEF Key
  <2>4. CASE \E u \in Threads : th[u].pc = "erase" /\ th[u].file = k[1] /\ k[2] \in th[u].todo
    BY <1>2, <2>1, <2>4
  <2> QED
    BY <2>1, <2>2, <2>3, <2>4 DEF IInv, CachedIsTracked
<1>5. Carried'
  <2> SUFFICES ASSUME NEW u \in Threads, th'[u].pc = "put"
               PROVE  th'[u].data = PageOf(backing'[th'[u].file], th'[u].page) \/ Key(u)' \in unsure'
    BY DEF Carried
  <2>1. CASE u = t
    BY <1>2, <2>1 DEF Key
  <2>2. CASE u # t
    BY <1>2, <2>2 DEF Key, IInv, Carried
  <2> QED
    BY <2>1, <2>2
<1>6. Stale'
  <2> SUFFICES ASSUME NEW k \in DOMAIN pages'
               PROVE  \/ pages'[k] = PageOf(backing'[k[1]], k[2])
                      \/ k \in unsure'
                      \/ \E u \in Threads : th'[u].pc = "invalidate" /\ th'[u].file = k[1] /\ k[2] \in index'[k[1]]
                      \/ \E u \in Threads : th'[u].pc = "erase" /\ th'[u].file = k[1] /\ k[2] \in th'[u].todo
    BY DEF Stale
  <2>1. k \in DOMAIN pages /\ pages'[k] = pages[k] /\ k = <<k[1], k[2]>>
    BY <1>1 DEF Shrinks
  <2>2. CASE pages[k] = PageOf(backing[k[1]], k[2]) \/ k \in unsure
    BY <2>1, <2>2
  <2>3. CASE \E u \in Threads : th[u].pc = "invalidate" /\ th[u].file = k[1] /\ k[2] \in index[k[1]]
    BY <1>2, <2>3
  <2>4. CASE \E u \in Threads : th[u].pc = "erase" /\ th[u].file = k[1] /\ k[2] \in th[u].todo
    BY <1>2, <2>1, <2>4
  <2> QED
    BY <2>1, <2>2, <2>3, <2>4 DEF IInv, Stale
<1> QED
  BY <1>3, <1>4, <1>5, <1>6 DEF IInv

\* Put of a page: its thread is about to track it, and it is what was carried.
LEMMA PutStepInv ==
    ASSUME IInv, NEW t \in Threads, PutStep(t)
    PROVE  IInv'
<1> DEFINE s == [th[t] EXCEPT !.pc = "track"]
<1>1. th \in [Threads -> ThreadState] /\ th[t] \in ThreadState /\ th[t].pc = "put"
  BY DEF IInv, TypeOK, PutStep
<1>2. s \in ThreadState /\ s.pc = "track" /\ s.file = th[t].file /\ s.page = th[t].page
  BY <1>1, Zenon DEF ThreadState
<1>3. th' = [th EXCEPT ![t] = s] /\ UNCHANGED <<index, backing, unsure, calls>>
  BY DEF PutStep, Goto
<1> HIDE DEF s
<1>4. th'[t] = s /\ \A u \in Threads : u # t => th'[u] = th[u]
  BY <1>1, <1>3
<1>5. Key(t) \in K /\ Key(t)' = Key(t) /\ th[t].data \in Seq(Byte)
  BY <1>1, <1>2, <1>4 DEF Key, K, ThreadState
<1>6. /\ Lru' /\ pages'[Key(t)] = th[t].data
      /\ \A x \in DOMAIN pages' : x # Key(t) => x \in DOMAIN pages /\ pages'[x] = pages[x]
  BY <1>5, PutKeepsLru DEF IInv, PutStep
<1>7. TypeOK'
  <2>1. th' \in [Threads -> ThreadState]
    BY <1>1, <1>2, <1>3
  <2>2. DOMAIN pages' \subseteq Files \X Nat /\ \A k \in DOMAIN pages' : pages'[k] \in Seq(Byte)
    BY <1>5, <1>6, Zenon DEF IInv, TypeOK, K
  <2>3. order' \in Seq(Files \X Nat)
    BY <1>6 DEF Lru, LruOf, K
  <2> QED
    BY <1>3, <2>1, <2>2, <2>3 DEF IInv, TypeOK
<1>8. CachedIsTracked'
  <2> SUFFICES ASSUME NEW k \in DOMAIN pages'
               PROVE  \/ k[2] \in index'[k[1]]
                      \/ \E u \in Threads : th'[u].pc = "track" /\ Key(u)' = k
                      \/ \E u \in Threads : th'[u].pc = "erase" /\ th'[u].file = k[1] /\ k[2] \in th'[u].todo
    BY DEF CachedIsTracked
  <2>1. CASE k = Key(t)
    BY <1>2, <1>4, <1>5, <2>1
  <2>2. CASE k # Key(t)
    <3>1. k \in DOMAIN pages
      BY <1>6, <2>2
    <3> QED
      BY <1>1, <1>3, <1>4, <3>1 DEF IInv, CachedIsTracked, Key
  <2> QED
    BY <2>1, <2>2
<1>9. Carried'
  BY <1>2, <1>3, <1>4 DEF IInv, Carried, Key
<1>10. Stale'
  <2> SUFFICES ASSUME NEW k \in DOMAIN pages'
               PROVE  \/ pages'[k] = PageOf(backing'[k[1]], k[2])
                      \/ k \in unsure'
                      \/ \E u \in Threads : th'[u].pc = "invalidate" /\ th'[u].file = k[1] /\ k[2] \in index'[k[1]]
                      \/ \E u \in Threads : th'[u].pc = "erase" /\ th'[u].file = k[1] /\ k[2] \in th'[u].todo
    BY DEF Stale
  <2>1. CASE k = Key(t)
    <3>1. th[t].data = PageOf(backing[th[t].file], th[t].page) \/ Key(t) \in unsure
      BY <1>1 DEF IInv, Carried
    <3> QED
      BY <1>3, <1>6, <2>1, <3>1 DEF Key
  <2>2. CASE k # Key(t)
    <3>1. k \in DOMAIN pages /\ pages'[k] = pages[k]
      BY <1>6, <2>2
    <3> QED
      BY <1>1, <1>3, <1>4, <3>1 DEF IInv, Stale
  <2> QED
    BY <2>1, <2>2
<1> QED
  BY <1>6, <1>7, <1>8, <1>9, <1>10 DEF IInv

\* TrackPage: what the thread answered for is in the index now.
LEMMA TrackPageInv ==
    ASSUME IInv, NEW t \in Threads, TrackPage(t)
    PROVE  IInv'
<1> DEFINE s == [th[t] EXCEPT !.pc = AfterPage(t)]
<1>1. th \in [Threads -> ThreadState] /\ th[t] \in ThreadState /\ th[t].pc = "track"
  BY DEF IInv, TypeOK, TrackPage
<1>2. AfterPage(t) \in {"copy", "next", "ret"}
  BY DEF AfterPage
<1>3. s \in ThreadState /\ s.pc = AfterPage(t)
  BY <1>1, <1>2, Zenon DEF ThreadState
<1>4. /\ th' = [th EXCEPT ![t] = s] /\ UNCHANGED <<pages, order, backing, unsure, calls>>
      /\ index' = [index EXCEPT ![th[t].file] = @ \cup {th[t].page}]
  BY DEF TrackPage, Goto
<1> HIDE DEF s
<1>5. th'[t] = s /\ \A u \in Threads : u # t => th'[u] = th[u]
  BY <1>1, <1>4
<1>6. index \in [Files -> SUBSET Nat] /\ th[t].file \in Files /\ th[t].page \in Nat
  BY <1>1 DEF IInv, TypeOK, ThreadState
<1>7. th[t].page \in index'[th[t].file] /\ \A f \in Files : index[f] \subseteq index'[f]
  BY <1>4, <1>6
<1>8. DOMAIN pages \subseteq Files \X Nat
  BY DEF IInv, TypeOK
<1>9. TypeOK'
  <2>1. th' \in [Threads -> ThreadState]
    BY <1>1, <1>3, <1>4
  <2>2. index' \in [Files -> SUBSET Nat]
    BY <1>4, <1>6
  <2> QED
    BY <1>4, <2>1, <2>2 DEF IInv, TypeOK
<1>10. CachedIsTracked'
  <2> SUFFICES ASSUME NEW k \in DOMAIN pages
               PROVE  \/ k[2] \in index'[k[1]]
                      \/ \E u \in Threads : th'[u].pc = "track" /\ Key(u)' = k
                      \/ \E u \in Threads : th'[u].pc = "erase" /\ th'[u].file = k[1] /\ k[2] \in th'[u].todo
    BY <1>4 DEF CachedIsTracked
  <2>1. k[1] \in Files
    BY <1>8
  <2>2. CASE k[2] \in index[k[1]]
    BY <1>7, <2>1, <2>2
  <2>3. CASE \E u \in Threads : th[u].pc = "track" /\ Key(u) = k
    <3>1. PICK u \in Threads : th[u].pc = "track" /\ Key(u) = k
      BY <2>3
    <3>2. CASE u = t
      BY <1>7, <3>1, <3>2 DEF Key
    <3>3. CASE u # t
      BY <1>5, <3>1, <3>3 DEF Key
    <3> QED
      BY <3>2, <3>3
  <2>4. CASE \E u \in Threads : th[u].pc = "erase" /\ th[u].file = k[1] /\ k[2] \in th[u].todo
    BY <1>1, <1>5, <2>4
  <2> QED
    BY <2>2, <2>3, <2>4 DEF IInv, CachedIsTracked
<1>11. Carried'
  BY <1>2, <1>3, <1>4, <1>5 DEF IInv, Carried, Key
<1>12. Stale'
  <2> SUFFICES ASSUME NEW k \in DOMAIN pages
               PROVE  \/ pages[k] = PageOf(backing[k[1]], k[2])
                      \/ k \in unsure
                      \/ \E u \in Threads : th'[u].pc = "invalidate" /\ th'[u].file = k[1] /\ k[2] \in index'[k[1]]
                      \/ \E u \in Threads : th'[u].pc = "erase" /\ th'[u].file = k[1] /\ k[2] \in th'[u].todo
    BY <1>4 DEF Stale
  <2>1. k[1] \in Files
    BY <1>8
  <2> QED
    BY <1>1, <1>5, <1>7, <2>1 DEF IInv, Stale
<1>13. Lru'
  BY <1>4 DEF IInv, Lru
<1> QED
  BY <1>9, <1>10, <1>11, <1>12, <1>13 DEF IInv

\* InvalidateFile takes the file's pages: they go from the index to its list.
LEMMA InvalidateTakeInv ==
    ASSUME IInv, NEW t \in Threads, InvalidateTake(t)
    PROVE  IInv'
<1> DEFINE f == th[t].file
           s == [th[t] EXCEPT !.pc = "erase", !.todo = index[f]]
<1>1. /\ th \in [Threads -> ThreadState] /\ th[t] \in ThreadState /\ th[t].pc = "invalidate"
      /\ index \in [Files -> SUBSET Nat] /\ DOMAIN pages \subseteq Files \X Nat
  BY DEF IInv, TypeOK, InvalidateTake
<1>2. f \in Files /\ index[f] \in SUBSET Nat
  BY <1>1 DEF ThreadState
<1>3. s \in ThreadState /\ s.pc = "erase" /\ s.file = f /\ s.todo = index[f]
  BY <1>1, <1>2, Zenon DEF ThreadState
<1>4. /\ th' = [th EXCEPT ![t] = s] /\ UNCHANGED <<pages, order, backing, unsure, calls>>
      /\ index' = [index EXCEPT ![f] = {}]
  BY DEF InvalidateTake
<1> HIDE DEF s, f
<1>5. th'[t] = s /\ \A u \in Threads : u # t => th'[u] = th[u]
  BY <1>1, <1>4
<1>6. \A g \in Files : g # f => index'[g] = index[g]
  BY <1>1, <1>4
<1>7. TypeOK'
  <2>1. th' \in [Threads -> ThreadState]
    BY <1>1, <1>3, <1>4
  <2>2. index' \in [Files -> SUBSET Nat]
    BY <1>1, <1>4, Zenon
  <2> QED
    BY <1>4, <2>1, <2>2 DEF IInv, TypeOK
<1>8. CachedIsTracked'
  <2> SUFFICES ASSUME NEW k \in DOMAIN pages
               PROVE  \/ k[2] \in index'[k[1]]
                      \/ \E u \in Threads : th'[u].pc = "track" /\ Key(u)' = k
                      \/ \E u \in Threads : th'[u].pc = "erase" /\ th'[u].file = k[1] /\ k[2] \in th'[u].todo
    BY <1>4 DEF CachedIsTracked
  <2>1. k[1] \in Files
    BY <1>1
  <2>2. CASE k[2] \in index[k[1]]
    BY <1>3, <1>5, <1>6, <2>1, <2>2
  <2>3. CASE \E u \in Threads : th[u].pc = "track" /\ Key(u) = k
    BY <1>1, <1>5, <2>3 DEF Key
  <2>4. CASE \E u \in Threads : th[u].pc = "erase" /\ th[u].file = k[1] /\ k[2] \in th[u].todo
    BY <1>1, <1>5, <2>4
  <2> QED
    BY <2>2, <2>3, <2>4 DEF IInv, CachedIsTracked
<1>9. Carried'
  BY <1>3, <1>4, <1>5 DEF IInv, Carried, Key
<1>10. Stale'
  <2> SUFFICES ASSUME NEW k \in DOMAIN pages
               PROVE  \/ pages[k] = PageOf(backing[k[1]], k[2])
                      \/ k \in unsure
                      \/ \E u \in Threads : th'[u].pc = "invalidate" /\ th'[u].file = k[1] /\ k[2] \in index'[k[1]]
                      \/ \E u \in Threads : th'[u].pc = "erase" /\ th'[u].file = k[1] /\ k[2] \in th'[u].todo
    BY <1>4 DEF Stale
  <2>1. k[1] \in Files
    BY <1>1
  <2>2. CASE \E u \in Threads : th[u].pc = "invalidate" /\ th[u].file = k[1] /\ k[2] \in index[k[1]]
    <3>1. CASE k[1] = f
      BY <1>3, <1>5, <2>2, <3>1
    <3>2. CASE k[1] # f
      BY <1>5, <1>6, <2>1, <2>2, <3>2 DEF f
    <3> QED
      BY <3>1, <3>2
  <2>3. CASE \E u \in Threads : th[u].pc = "erase" /\ th[u].file = k[1] /\ k[2] \in th[u].todo
    BY <1>1, <1>5, <2>3, SMTT(30)
  <2> QED
    BY <2>2, <2>3 DEF IInv, Stale
<1>11. Lru'
  BY <1>4 DEF IInv, Lru
<1> QED
  BY <1>7, <1>8, <1>9, <1>10, <1>11 DEF IInv

\* A rewrite makes the cached pages of the file stale: they are in the index,
\* on a list, or known to be unsure, as CachedIsTracked has it.
LEMMA RewriteInv ==
    ASSUME IInv, NEW t \in Threads, Rewrite(t)
    PROVE  IInv'
<1>1. PICK f \in Files :
        /\ Call(t, [Idle EXCEPT !.pc = "invalidate", !.op = "rewrite", !.file = f])
        /\ backing' = [backing EXCEPT ![f] = New[f]]
        /\ unsure' = unsure \cup {Key(u) : u \in {v \in Threads : th[v].pc \in {"put", "track"} /\ th[v].file = f}}
        /\ UNCHANGED <<pages, order, index>>
  BY Zenon DEF Rewrite
<1> DEFINE s == [Idle EXCEPT !.pc = "invalidate", !.op = "rewrite", !.file = f]
<1>2. s \in ThreadState /\ s.pc = "invalidate" /\ s.file = f
  BY IdleType, Zenon DEF ThreadState
<1>3. th' = [th EXCEPT ![t] = s] /\ th[t].pc = "idle" /\ calls' = calls + 1
  BY <1>1 DEF Call
<1> HIDE DEF s
<1>4. /\ th \in [Threads -> ThreadState] /\ backing \in [Files -> Seq(Byte)]
      /\ DOMAIN pages \subseteq Files \X Nat /\ calls \in Nat /\ unsure \subseteq Files \X Nat
  BY DEF IInv, TypeOK
<1>5. th'[t] = s /\ \A u \in Threads : u # t => th'[u] = th[u]
  BY <1>3, <1>4
<1>6. \A g \in Files : g # f => backing'[g] = backing[g]
  BY <1>1, <1>4
<1>7. /\ unsure \subseteq unsure'
      /\ \A u \in Threads : th[u].pc \in {"put", "track"} /\ th[u].file = f => Key(u) \in unsure'
  BY <1>1
<1>8. \A u \in Threads : th[u] \in ThreadState /\ th[u].file \in Files /\ th[u].page \in Nat
  BY <1>4 DEF ThreadState
<1>9. TypeOK'
  <2>1. th' \in [Threads -> ThreadState]
    BY <1>2, <1>3, <1>4
  <2>2. backing' \in [Files -> Seq(Byte)]
    BY <1>1, <1>4, BytesAssumption
  <2>3. unsure' \subseteq Files \X Nat
    BY <1>1, <1>4, <1>8 DEF Key
  <2>4. calls' \in Nat
    BY <1>3, <1>4
  <2> QED
    BY <1>1, <2>1, <2>2, <2>3, <2>4 DEF IInv, TypeOK
<1>10. CachedIsTracked'
  BY <1>1, <1>3, <1>5 DEF IInv, CachedIsTracked, Key
<1>11. Carried'
  <2> SUFFICES ASSUME NEW u \in Threads, th'[u].pc = "put"
               PROVE  th'[u].data = PageOf(backing'[th'[u].file], th'[u].page) \/ Key(u)' \in unsure'
    BY DEF Carried
  <2>1. u # t /\ th'[u] = th[u] /\ Key(u)' = Key(u) /\ th[u].file \in Files
    BY <1>2, <1>5, <1>8 DEF Key
  <2>2. CASE th[u].file = f
    BY <1>7, <2>1, <2>2
  <2>3. CASE th[u].file # f
    BY <1>6, <1>7, <2>1, <2>3 DEF IInv, Carried
  <2> QED
    BY <2>2, <2>3
<1>12. Stale'
  <2> SUFFICES ASSUME NEW k \in DOMAIN pages
               PROVE  \/ pages[k] = PageOf(backing'[k[1]], k[2])
                      \/ k \in unsure'
                      \/ \E u \in Threads : th'[u].pc = "invalidate" /\ th'[u].file = k[1] /\ k[2] \in index[k[1]]
                      \/ \E u \in Threads : th'[u].pc = "erase" /\ th'[u].file = k[1] /\ k[2] \in th'[u].todo
    BY <1>1 DEF Stale
  <2>1. k[1] \in Files
    BY <1>4
  <2>2. CASE k[1] = f
    <3>1. CASE k[2] \in index[k[1]]
      BY <1>2, <1>5, <2>2, <3>1
    <3>2. CASE \E u \in Threads : th[u].pc = "track" /\ Key(u) = k
      BY <1>7, <2>2, <3>2 DEF Key
    <3>3. CASE \E u \in Threads : th[u].pc = "erase" /\ th[u].file = k[1] /\ k[2] \in th[u].todo
      BY <1>3, <1>5, <3>3
    <3> QED
      BY <3>1, <3>2, <3>3 DEF IInv, CachedIsTracked
  <2>3. CASE k[1] # f
    BY <1>3, <1>5, <1>6, <1>7, <2>1, <2>3 DEF IInv, Stale
  <2> QED
    BY <2>2, <2>3
<1>13. Lru'
  BY <1>1 DEF IInv, Lru
<1> QED
  BY <1>9, <1>10, <1>11, <1>12, <1>13 DEF IInv

\* Every step keeps the invariant.
LEMMA InvStep ==
    ASSUME IInv, [Next]_vars
    PROVE  IInv'
<1> USE DEF IInv
<1>1. /\ th \in [Threads -> ThreadState] /\ calls \in Nat /\ unsure \subseteq Files \X Nat
      /\ DOMAIN pages \subseteq Files \X Nat /\ \A k \in DOMAIN pages : pages[k] \in Seq(Byte)
      /\ backing \in [Files -> Seq(Byte)] /\ index \in [Files -> SUBSET Nat]
  BY DEF TypeOK
<1>2. ASSUME UNCHANGED <<pages, order>> PROVE Lru' /\ Shrinks
  BY <1>2 DEF Lru, Shrinks
<1> HIDE DEF IInv
<1>3. \A t \in Threads : th[t] \in ThreadState
  BY <1>1
<1>4. \A t \in Threads : /\ th[t].file \in Files /\ th[t].page \in Nat /\ th[t].off \in Nat
                         /\ th[t].size \in Nat /\ th[t].got \in Seq(Byte) /\ th[t].data \in Seq(Byte)
                         /\ th[t].todo \in SUBSET Nat
  BY <1>3 DEF ThreadState
<1>5. \A t \in Threads : Key(t) \in K
  BY <1>4 DEF Key, K
<1>6. ASSUME NEW t \in Threads, ReadCached(t) PROVE IInv'
  <2>1. PICK f \in Files, r \in Reads :
          Call(t, [Idle EXCEPT !.pc = IF r[2] = 0 THEN "ret" ELSE "get", !.op = "read", !.file = f,
                               !.off = r[1], !.size = r[2], !.page = r[1] \div PageSize])
    BY <1>6, Zenon DEF ReadCached
  <2> DEFINE s == [Idle EXCEPT !.pc = IF r[2] = 0 THEN "ret" ELSE "get", !.op = "read", !.file = f,
                               !.off = r[1], !.size = r[2], !.page = r[1] \div PageSize]
  <2>2. r[1] \in Nat /\ r[2] \in Nat
    BY ReadsAssumption
  <2>3. r[1] \div PageSize \in Nat
    BY <2>2, PageSizeAssumption
  <2>4. s \in ThreadState /\ s.pc \in {"ret", "get"}
    BY <2>2, <2>3, IdleType, Zenon DEF ThreadState
  <2>5. th' = [th EXCEPT ![t] = s] /\ th[t].pc = "idle" /\ calls' = calls + 1
    BY <2>1 DEF Call
  <2> HIDE DEF s
  <2>6. UNCHANGED <<pages, order, index, backing, unsure>> /\ calls' \in Nat
    BY <1>6, <1>1, <2>5 DEF ReadCached
  <2> QED
    BY <1>1, <1>2, <2>4, <2>5, <2>6, ThreadStep, Zenon
<1>7. ASSUME NEW t \in Threads, WritePage(t) PROVE IInv'
  <2>1. PICK k \in Keys :
          /\ Call(t, [Idle EXCEPT !.pc = "put", !.op = "write", !.file = k[1], !.page = k[2], !.data = Dirt])
          /\ unsure' = unsure \cup {k}
    BY <1>7, Zenon DEF WritePage
  <2> DEFINE s == [Idle EXCEPT !.pc = "put", !.op = "write", !.file = k[1], !.page = k[2], !.data = Dirt]
  <2>2. k[1] \in Files /\ k[2] \in Nat /\ k = <<k[1], k[2]>>
    <3>1. k[1] \in Files /\ k[2] \in Pages /\ k = <<k[1], k[2]>>
      BY DEF Keys
    <3> QED
      BY <3>1, PagesAssumption
  <2>3. s \in ThreadState /\ s.file = k[1] /\ s.page = k[2]
    BY <2>2, IdleType, BytesAssumption, Zenon DEF ThreadState
  <2>4. th' = [th EXCEPT ![t] = s] /\ th[t].pc = "idle" /\ calls' = calls + 1
    BY <2>1 DEF Call
  <2> HIDE DEF s
  <2>5. UNCHANGED <<pages, order, index, backing>> /\ calls' \in Nat
    BY <1>7, <1>1, <2>4 DEF WritePage
  <2>6. k \in Files \X Nat /\ <<s.file, s.page>> = k
    BY <2>2, <2>3
  <2>7. unsure \subseteq unsure' /\ unsure' \subseteq Files \X Nat /\ <<s.file, s.page>> \in unsure'
    BY <1>1, <2>1, <2>6
  <2> QED
    BY <1>2, <2>3, <2>4, <2>5, <2>7, ThreadStep, Zenon
<1>8. ASSUME NEW t \in Threads, PrefetchPages(t) PROVE IInv'
  <2>1. PICK k \in Keys :
          Call(t, [Idle EXCEPT !.pc = "contains", !.op = "prefetch", !.file = k[1], !.page = k[2]])
    BY <1>8, Zenon DEF PrefetchPages
  <2> DEFINE s == [Idle EXCEPT !.pc = "contains", !.op = "prefetch", !.file = k[1], !.page = k[2]]
  <2>2. s \in ThreadState /\ s.pc = "contains"
    BY IdleType, PagesAssumption, Zenon DEF ThreadState, Keys
  <2>3. th' = [th EXCEPT ![t] = s] /\ th[t].pc = "idle" /\ calls' = calls + 1
    BY <2>1 DEF Call
  <2> HIDE DEF s
  <2>4. UNCHANGED <<pages, order, index, backing, unsure>> /\ calls' \in Nat
    BY <1>8, <1>1, <2>3 DEF PrefetchPages
  <2> QED
    BY <1>1, <1>2, <2>2, <2>3, <2>4, ThreadStep, Zenon
<1>9. ASSUME NEW t \in Threads, InvalidateFile(t) PROVE IInv'
  <2>1. PICK f \in Files :
          Call(t, [Idle EXCEPT !.pc = "invalidate", !.op = "invalidate", !.file = f])
    BY <1>9, Zenon DEF InvalidateFile
  <2> DEFINE s == [Idle EXCEPT !.pc = "invalidate", !.op = "invalidate", !.file = f]
  <2>2. s \in ThreadState /\ s.pc = "invalidate"
    BY IdleType, Zenon DEF ThreadState
  <2>3. th' = [th EXCEPT ![t] = s] /\ th[t].pc = "idle" /\ calls' = calls + 1
    BY <2>1 DEF Call
  <2> HIDE DEF s
  <2>4. UNCHANGED <<pages, order, index, backing, unsure>> /\ calls' \in Nat
    BY <1>9, <1>1, <2>3 DEF InvalidateFile
  <2> QED
    BY <1>1, <1>2, <2>2, <2>3, <2>4, ThreadStep, Zenon
<1>10. ASSUME NEW t \in Threads, Evict(t) PROVE IInv'
  <2>1. th' = [th EXCEPT ![t] = Idle] /\ th[t].pc = "idle" /\ calls' \in Nat
    BY <1>10, <1>1 DEF Evict, Call
  <2>2. PICK n \in 1 .. MaxPages : EvictN(n)
    BY <1>10 DEF Evict
  <2>3. Lru' /\ Shrinks
    BY <2>2, MaxPagesAssumption, EvictKeepsLru DEF IInv
  <2>4. UNCHANGED <<index, backing, unsure>>
    BY <1>10 DEF Evict
  <2> QED
    BY <1>1, <2>1, <2>3, <2>4, IdleType, ThreadStep, Zenon
<1>11. ASSUME NEW t \in Threads, GetHit(t) PROVE IInv'
  <2> DEFINE s == [th[t] EXCEPT !.pc = "copy", !.data = pages[Key(t)]]
  <2>1. Key(t) \in DOMAIN pages /\ th[t].pc = "get" /\ Touch(Key(t))
    BY <1>11 DEF GetHit
  <2>2. s \in ThreadState /\ s.pc = "copy"
    BY <1>1, <1>3, <2>1, ZenonT(40) DEF ThreadState
  <2>3. th' = [th EXCEPT ![t] = s] /\ UNCHANGED <<pages, index, backing, unsure, calls>>
    BY <1>11 DEF GetHit
  <2> HIDE DEF s
  <2>4. LruOf(order', DOMAIN pages)
    BY <1>5, <2>1, TouchKeepsLru DEF IInv
  <2>5. Lru' /\ Shrinks
    BY <2>3, <2>4 DEF Lru, Shrinks
  <2> QED
    BY <1>1, <2>1, <2>2, <2>3, <2>5, ThreadStep, Zenon
<1>12. ASSUME NEW t \in Threads, GetMiss(t) PROVE IInv'
  <2> DEFINE s == [th[t] EXCEPT !.pc = "fetch"]
  <2>1. s \in ThreadState /\ s.pc = "fetch"
    BY <1>3 DEF ThreadState
  <2>2. th' = [th EXCEPT ![t] = s] /\ th[t].pc = "get"
    BY <1>12 DEF GetMiss, Goto
  <2> HIDE DEF s
  <2>3. UNCHANGED <<pages, order, index, backing, unsure, calls>>
    BY <1>12 DEF GetMiss
  <2> QED
    BY <1>1, <1>2, <2>1, <2>2, <2>3, ThreadStep, Zenon
<1>13. ASSUME NEW t \in Threads, Fetch(t) PROVE IInv'
  <2> DEFINE s == [th[t] EXCEPT !.pc = "put", !.data = PageOf(backing[th[t].file], th[t].page)]
  <2>0. PageOf(backing[th[t].file], th[t].page) \in Seq(Byte)
    BY <1>1, <1>4, PageOfType, Zenon
  <2>1. s \in ThreadState /\ s.data = PageOf(backing[s.file], s.page)
    BY <1>3, <2>0, Zenon DEF ThreadState
  <2>2. th' = [th EXCEPT ![t] = s] /\ th[t].pc = "fetch"
    BY <1>13 DEF Fetch, Goto
  <2> HIDE DEF s
  <2>3. UNCHANGED <<pages, order, index, backing, unsure, calls>>
    BY <1>13 DEF Fetch
  <2> QED
    BY <1>1, <1>2, <2>1, <2>2, <2>3, ThreadStep, Zenon
<1>14. ASSUME NEW t \in Threads, FetchFails(t) PROVE IInv'
  <2> DEFINE s == [th[t] EXCEPT !.pc = IF th[t].op = "read" THEN "ret" ELSE "next", !.failed = TRUE]
  <2>1. s \in ThreadState /\ s.pc \in {"ret", "next"}
    BY <1>3, Zenon DEF ThreadState
  <2>2. th' = [th EXCEPT ![t] = s] /\ th[t].pc = "fetch"
    BY <1>14 DEF FetchFails, Goto
  <2> HIDE DEF s
  <2>3. UNCHANGED <<pages, order, index, backing, unsure, calls>>
    BY <1>14 DEF FetchFails
  <2> QED
    BY <1>1, <1>2, <2>1, <2>2, <2>3, ThreadStep, Zenon
<1>15. ASSUME NEW t \in Threads, PutStep(t) PROVE IInv'
  BY <1>15, PutStepInv
<1>16. ASSUME NEW t \in Threads, TrackPage(t) PROVE IInv'
  BY <1>16, TrackPageInv
<1>17. ASSUME NEW t \in Threads, Copy(t) PROVE IInv'
  <2> DEFINE at == th[t].off + Len(th[t].got)
             from == at % PageSize
             got == th[t].got \o Slice(th[t].data, from, th[t].size - Len(th[t].got))
             next == (th[t].off + Len(got)) \div PageSize
             l == IF Len(th[t].data) < PageSize \/ Len(got) >= th[t].size THEN "ret" ELSE "get"
             s == IF Len(th[t].data) <= from THEN [th[t] EXCEPT !.pc = "ret"]
                  ELSE [th[t] EXCEPT !.got = got, !.page = next, !.pc = l]
  <2>1. Len(th[t].got) \in Nat /\ th[t].size - Len(th[t].got) \in Int
    BY <1>4, LenProperties
  <2>2. from \in Nat
    <3>1. at \in Nat
      BY <1>4, <2>1
    <3> QED
      BY <3>1, PageSizeAssumption
  <2> HIDE DEF from
  <2>3. got \in Seq(Byte)
    <3>1. Slice(th[t].data, from, th[t].size - Len(th[t].got)) \in Seq(Byte)
      BY <1>4, <2>1, <2>2, SliceType, Zenon
    <3> QED
      BY <1>4, <3>1, ConcatProperties
  <2> HIDE DEF got
  <2>4. next \in Nat
    <3>1. Len(got) \in Nat /\ th[t].off \in Nat
      BY <1>4, <2>3, LenProperties
    <3> DEFINE n == th[t].off + Len(got)
    <3>2. n \in Nat
      BY <3>1
    <3> HIDE DEF n
    <3>3. n \div PageSize \in Nat
      BY <3>2, PageSizeAssumption
    <3> QED
      BY <3>3 DEF n
  <2> HIDE DEF next
  <2>5. l \in {"ret", "get"}
    OBVIOUS
  <2> HIDE DEF l
  <2>6. s \in ThreadState /\ s.pc \in {"ret", "get"}
    BY <1>3, <2>3, <2>4, <2>5, ZenonT(40) DEF ThreadState
  <2>7. th' = [th EXCEPT ![t] = s] /\ th[t].pc = "copy"
    BY <1>17 DEF Copy, from, got, next, l
  <2> HIDE DEF s
  <2>8. UNCHANGED <<pages, order, index, backing, unsure, calls>>
    BY <1>17 DEF Copy
  <2> QED
    BY <1>1, <1>2, <2>6, <2>7, <2>8, ThreadStep, Zenon
<1>18. ASSUME NEW t \in Threads, Return(t) PROVE IInv'
  <2>1. /\ th' = [th EXCEPT ![t] = Idle] /\ th[t].pc = "ret"
        /\ UNCHANGED <<pages, order, index, backing, unsure, calls>>
    BY <1>18 DEF Return
  <2> QED
    BY <1>1, <1>2, <2>1, IdleType, ThreadStep, Zenon
<1>19. ASSUME NEW t \in Threads, ContainsPage(t) PROVE IInv'
  <2> DEFINE s == [th[t] EXCEPT !.pc = IF Key(t) \in DOMAIN pages THEN "next" ELSE "fetch"]
  <2>1. s \in ThreadState /\ s.pc \in {"next", "fetch"}
    BY <1>3, SMTT(30) DEF ThreadState
  <2>2. th' = [th EXCEPT ![t] = s] /\ th[t].pc = "contains"
    BY <1>19 DEF ContainsPage, Goto
  <2> HIDE DEF s
  <2>3. UNCHANGED <<pages, order, index, backing, unsure, calls>>
    BY <1>19 DEF ContainsPage
  <2> QED
    BY <1>1, <1>2, <2>1, <2>2, <2>3, ThreadStep, Zenon
<1>20. ASSUME NEW t \in Threads, NextPage(t) PROVE IInv'
  <2> DEFINE s == IF th[t].page + 1 \in Pages THEN [th[t] EXCEPT !.pc = "contains", !.page = th[t].page + 1]
                  ELSE [th[t] EXCEPT !.pc = "ret"]
  <2>0. th[t].page + 1 \in Nat
    BY <1>4
  <2>1. s \in ThreadState /\ s.pc \in {"contains", "ret"}
    BY <1>3, <2>0, Zenon DEF ThreadState
  <2>2. th' = [th EXCEPT ![t] = s] /\ th[t].pc = "next"
    BY <1>20 DEF NextPage, Goto
  <2> HIDE DEF s
  <2>3. UNCHANGED <<pages, order, index, backing, unsure, calls>>
    BY <1>20 DEF NextPage
  <2> QED
    BY <1>1, <1>2, <2>1, <2>2, <2>3, ThreadStep, Zenon
<1>21. ASSUME NEW t \in Threads, InvalidateTake(t) PROVE IInv'
  BY <1>21, InvalidateTakeInv
<1>22. ASSUME NEW t \in Threads, InvalidateErase(t) PROVE IInv'
  <2>1. PICK i \in th[t].todo :
          Erase(<<th[t].file, i>>) /\ th' = [th EXCEPT ![t] = [@ EXCEPT !.todo = th[t].todo \ {i}]]
    BY <1>22, Zenon DEF InvalidateErase
  <2> DEFINE s == [th[t] EXCEPT !.todo = th[t].todo \ {i}]
  <2>2. s \in ThreadState
    BY <1>3, <1>4 DEF ThreadState
  <2>3. s.pc = th[t].pc /\ s.file = th[t].file /\ s.todo = th[t].todo \ {i}
    BY <1>3 DEF ThreadState
  <2>4. th' = [th EXCEPT ![t] = s] /\ th[t].pc = "erase" /\ UNCHANGED <<index, backing, unsure, calls>>
    BY <1>22, <2>1, Zenon DEF InvalidateErase
  <2> HIDE DEF s
  <2>5. Lru' /\ Shrinks /\ <<th[t].file, i>> \notin DOMAIN pages'
    BY <2>1, EraseKeepsLru DEF IInv
  <2>6. \A j \in th[t].todo :
           <<th[t].file, j>> \notin DOMAIN pages' \/ (s.pc = "erase" /\ s.file = th[t].file /\ j \in s.todo)
    <3> TAKE j \in th[t].todo
    <3>1. CASE j = i
      BY <2>5, <3>1
    <3>2. CASE j # i
      BY <2>3, <2>4, <3>2
    <3> QED
      BY <3>1, <3>2
  <2> QED
    BY <1>1, <2>2, <2>3, <2>4, <2>5, <2>6, ThreadStep, Zenon
<1>23. ASSUME NEW t \in Threads, InvalidateEnds(t) PROVE IInv'
  <2> DEFINE s == [th[t] EXCEPT !.pc = "ret"]
  <2>1. s \in ThreadState /\ s.pc = "ret" /\ th[t].todo = {}
    BY <1>3, <1>23 DEF ThreadState, InvalidateEnds
  <2>2. th' = [th EXCEPT ![t] = s] /\ th[t].pc = "erase"
    BY <1>23 DEF InvalidateEnds, Goto
  <2> HIDE DEF s
  <2>3. UNCHANGED <<pages, order, index, backing, unsure, calls>>
    BY <1>23 DEF InvalidateEnds
  <2> QED
    BY <1>1, <1>2, <2>1, <2>2, <2>3, ThreadStep, Zenon
<1>24. ASSUME NEW t \in Threads, Rewrite(t) PROVE IInv'
  BY <1>24, RewriteInv
<1>25. CASE UNCHANGED vars
  BY <1>25 DEF vars, IInv, TypeOK, Lru, CachedIsTracked, Carried, Stale, Key
<1> QED
  BY <1>6, <1>7, <1>8, <1>9, <1>10, <1>11, <1>12, <1>13, <1>14, <1>15, <1>16, <1>17, <1>18, <1>19, <1>20, <1>21, <1>22, <1>23, <1>24, <1>25 DEF Next

\* The invariant holds always.
LEMMA InvHolds == Spec => []IInv
<1>1. Init => IInv
  BY InitInv
<1>2. IInv /\ [Next]_vars => IInv'
  BY InvStep
<1> QED
  BY <1>1, <1>2, PTL DEF Spec

-----------------------------------------------------------------------------
(* What a read of a file that nobody changes has read so far.              *)

\* The files that nobody rewrote or wrote a page of to the cache.
Clean == {f \in Files : backing[f] = Old[f] /\ \A k \in unsure : k[1] # f}

\* s is the part of o behind position b.
Matches(s, o, b) == \A j \in 1 .. Len(s) : s[j] = o[b + j]

\* got is the file from the offset on, and within the size asked for.
Reading(s) ==
    /\ Len(s.got) <= s.size
    /\ Len(s.got) = 0 \/ s.off + Len(s.got) <= Len(Old[s.file])
    /\ Matches(s.got, Old[s.file], s.off)

\* Nothing more is to be read.
Complete(s) == Len(s.got) = s.size \/ Len(Old[s.file]) <= s.off + Len(s.got)

\* The state of a thread that works on a clean file.
ThreadOK(s) ==
    /\ s.pc \in {"put", "track", "copy"} => s.data = PageOf(Old[s.file], s.page)
    /\ s.op = "read" =>
          /\ s.pc \in {"get", "fetch", "put", "track", "copy", "ret"}
          /\ Reading(s)
          /\ s.pc = "ret" /\ ~s.failed => Complete(s)
          /\ s.pc # "ret" => s.page = (s.off + Len(s.got)) \div PageSize

\* A clean file was never anything else, its cached pages are its pages, and
\* its readers are on the way to the bytes asked for.
Exact ==
    /\ \A f \in Files : backing[f] \in {Old[f], New[f]}
    /\ \A k \in DOMAIN pages : k[1] \in Clean => pages[k] = PageOf(Old[k[1]], k[2])
    /\ \A t \in Threads : th[t].file \in Clean => ThreadOK(th[t])

-----------------------------------------------------------------------------
(* The bytes of a range *)

\* What Slice returns: the bytes from off on, n of them unless the sequence
\* ends before.
LEMMA SliceFacts ==
    ASSUME NEW s \in Seq(Byte), NEW off \in Nat, NEW n \in Nat
    PROVE  /\ Slice(s, off, n) \in Seq(Byte)
           /\ Len(Slice(s, off, n)) \in Nat /\ Len(Slice(s, off, n)) <= n
           /\ Matches(Slice(s, off, n), s, off)
           /\ Len(Slice(s, off, n)) = 0 \/ off + Len(Slice(s, off, n)) <= Len(s)
           /\ Len(Slice(s, off, n)) < n => Len(s) <= off + Len(Slice(s, off, n))
<1> DEFINE d == Slice(s, off, n)
           m == Lesser(off + n, Len(s))
           a == off + 1
<1>1. Len(s) \in Nat
  BY LenProperties
<1>2. /\ m \in Nat /\ m <= off + n /\ m <= Len(s)
      /\ m = off + n \/ m = Len(s)
  BY <1>1 DEF Lesser
<1>3. d = SubSeq(s, a, m) /\ a \in Int /\ m \in Int
  BY <1>2 DEF Slice
<1> HIDE DEF m
<1>4. \A i \in a .. m : i \in 1 .. Len(s)
  BY <1>1, <1>2
<1>5. \A i \in a .. m : s[i] \in Byte
  BY <1>4, ElementOfSeq
<1> HIDE DEF d, a
<1>6. /\ d \in Seq(Byte)
      /\ Len(d) = IF a <= m THEN m - a + 1 ELSE 0
      /\ \A i \in 1 .. m - a + 1 : d[i] = s[a + i - 1]
  BY <1>3, <1>5, SubSeqProperties
<1>7. a <= m => Len(d) = m - off
  BY <1>2, <1>6 DEF a
<1>8. ~(a <= m) => Len(d) = 0 /\ m <= off
  BY <1>2, <1>6 DEF a
<1>9. Len(d) \in Nat /\ Len(d) <= n
  BY <1>2, <1>7, <1>8 DEF a
<1>10. \A j \in 1 .. Len(d) : d[j] = s[off + j]
  <2> TAKE j \in 1 .. Len(d)
  <2>1. j \in 1 .. m - a + 1 /\ a + j - 1 = off + j
    BY <1>2, <1>7, <1>8, <1>9 DEF a
  <2> QED
    BY <1>6, <2>1
<1>11. Len(d) = 0 \/ off + Len(d) <= Len(s)
  BY <1>1, <1>2, <1>7, <1>8
<1>12. Len(d) < n => Len(s) <= off + Len(d)
  BY <1>1, <1>2, <1>7, <1>8 DEF a
<1> QED
  BY <1>6, <1>9, <1>10, <1>11, <1>12 DEF d, Matches

\* Two sequences that SliceFacts says the same about are the same.
LEMMA SliceIs ==
    ASSUME NEW s \in Seq(Byte), NEW off \in Nat, NEW n \in Nat, NEW g \in Seq(Byte),
           Len(g) <= n,
           Matches(g, s, off),
           Len(g) = 0 \/ off + Len(g) <= Len(s),
           Len(g) = n \/ Len(s) <= off + Len(g)
    PROVE  g = Slice(s, off, n)
<1> DEFINE d == Slice(s, off, n)
<1>1. /\ d \in Seq(Byte) /\ Len(d) \in Nat /\ Len(d) <= n
      /\ Matches(d, s, off)
      /\ Len(d) = 0 \/ off + Len(d) <= Len(s)
      /\ Len(d) < n => Len(s) <= off + Len(d)
  BY SliceFacts
<1> HIDE DEF d
<1>2. Len(s) \in Nat /\ Len(g) \in Nat
  BY LenProperties
<1>3. Len(g) = Len(d)
  BY <1>1, <1>2
<1>4. \A i \in 1 .. Len(g) : g[i] = d[i]
  BY <1>1, <1>3 DEF Matches
<1>5. g = d
  BY <1>1, <1>3, <1>4, SeqEqual
<1> QED
  BY <1>5 DEF d

\* A position is the start of its page and the position within it.
LEMMA PagePosition ==
    ASSUME NEW pos \in Nat
    PROVE  /\ pos \div PageSize \in Nat /\ pos % PageSize \in Nat /\ pos % PageSize < PageSize
           /\ pos = (pos \div PageSize) * PageSize + (pos % PageSize)
           /\ (pos \div PageSize) * PageSize \in Nat
BY PageSizeAssumption, SMTT(30)

\* The lengths in one turn of the loop of ReadCached: lo bytes in the file, lg
\* read so far from off on, ld in the page at base, of which the first from
\* are not wanted, and la copied from it.
Turn(lo, lg, ld, la, off, size, base, from) ==
    /\ lg <= size /\ off + lg = base + from /\ from < PageSize
    /\ ld = 0 \/ base + ld <= lo
    /\ ld < PageSize => lo <= base + ld
    /\ la <= size - lg
    /\ la = 0 \/ from + la <= ld
    /\ la < size - lg => ld <= from + la

\* If the page ends before the next byte, so does the file; otherwise there is
\* as much to copy, and a short page or a full buffer ends the loop.
Turned(lo, lg, ld, la, off, size, base, from) ==
    /\ ld <= from => lo <= off + lg
    /\ ~(ld <= from) => lg + la <= size /\ off + (lg + la) <= lo
    /\ ld < PageSize \/ lg + la >= size => lg + la = size \/ lo <= off + (lg + la)
    /\ \A i \in 1 .. lg + la : ~(i <= lg) =>
          i - lg \in 1 .. la /\ from + (i - lg) \in 1 .. ld /\ base + (from + (i - lg)) = off + i

\* A turn that sees such lengths ends with such lengths.
LEMMA CopyLengths ==
    ASSUME NEW lo \in Nat, NEW lg \in Nat, NEW ld \in Nat, NEW la \in Nat, NEW off \in Nat, NEW size \in Nat,
           NEW base \in Nat, NEW from \in Nat, Turn(lo, lg, ld, la, off, size, base, from)
    PROVE  Turned(lo, lg, ld, la, off, size, base, from)
BY PageSizeAssumption DEF Turn, Turned

\* The bytes in one turn of the loop: those added are the next ones.
LEMMA CopyBytes ==
    ASSUME NEW o \in Seq(Byte), NEW off \in Nat, NEW size \in Nat, NEW got \in Seq(Byte),
           NEW base \in Nat, NEW from \in Nat, NEW d \in Seq(Byte), NEW add \in Seq(Byte),
           Turn(Len(o), Len(got), Len(d), Len(add), off, size, base, from),
           Matches(got, o, off), Matches(d, o, base), Matches(add, d, from)
    PROVE  /\ Len(d) <= from => Len(o) <= off + Len(got)
           /\ ~(Len(d) <= from) =>
                 /\ Len(got \o add) <= size
                 /\ off + Len(got \o add) <= Len(o)
                 /\ Matches(got \o add, o, off)
                 /\ Len(d) < PageSize \/ Len(got \o add) >= size =>
                       Len(got \o add) = size \/ Len(o) <= off + Len(got \o add)
<1> DEFINE g == got \o add
<1>1. Len(o) \in Nat /\ Len(got) \in Nat /\ Len(d) \in Nat /\ Len(add) \in Nat /\ PageSize \in Nat
  BY LenProperties, PageSizeAssumption
<1>2. g \in Seq(Byte) /\ Len(g) = Len(got) + Len(add)
  BY ConcatProperties
<1>3. \A i \in 1 .. Len(got) + Len(add) : g[i] = IF i <= Len(got) THEN got[i] ELSE add[i - Len(got)]
  BY ConcatProperties
<1> HIDE DEF g
<1>4. Turned(Len(o), Len(got), Len(d), Len(add), off, size, base, from)
  BY <1>1, CopyLengths, Zenon
<1>5. ASSUME NEW i \in 1 .. Len(g) PROVE g[i] = o[off + i]
  <2>1. CASE i <= Len(got)
    <3>1. i \in 1 .. Len(got)
      BY <1>1, <1>2, <2>1
    <3> QED
      BY <1>2, <1>3, <2>1, <3>1, Zenon DEF Matches
  <2>2. CASE ~(i <= Len(got))
    <3>1. /\ i - Len(got) \in 1 .. Len(add) /\ from + (i - Len(got)) \in 1 .. Len(d)
          /\ base + (from + (i - Len(got))) = off + i
      BY <1>2, <1>4, <2>2, Zenon DEF Turned
    <3>2. g[i] = add[i - Len(got)]
      BY <1>2, <1>3, <2>2, Zenon
    <3>3. add[i - Len(got)] = d[from + (i - Len(got))]
      BY <3>1 DEF Matches
    <3>4. d[from + (i - Len(got))] = o[base + (from + (i - Len(got)))]
      BY <3>1 DEF Matches
    <3> QED
      BY <3>1, <3>2, <3>3, <3>4, Zenon
  <2> QED
    BY <2>1, <2>2
<1>6. Matches(g, o, off)
  BY <1>5 DEF Matches
<1> QED
  BY <1>2, <1>4, <1>6, Zenon DEF g, Turned

\* The same of the position, the page and the part of it that Copy computes.
LEMMA CopyFacts ==
    ASSUME NEW o \in Seq(Byte), NEW off \in Nat, NEW size \in Nat, NEW got \in Seq(Byte),
           Len(got) <= size,
           Len(got) = 0 \/ off + Len(got) <= Len(o),
           Matches(got, o, off)
    PROVE  LET at == off + Len(got)
               from == at % PageSize
               d == PageOf(o, at \div PageSize)
               g == got \o Slice(d, from, size - Len(got))
           IN /\ Len(d) <= from => Len(o) <= off + Len(got)
              /\ ~(Len(d) <= from) =>
                    /\ Len(g) <= size /\ off + Len(g) <= Len(o)
                    /\ Matches(g, o, off)
                    /\ Len(d) < PageSize \/ Len(g) >= size => Len(g) = size \/ Len(o) <= off + Len(g)
<1> DEFINE at == off + Len(got)
           base == (at \div PageSize) * PageSize
           from == at % PageSize
           d == PageOf(o, at \div PageSize)
           m == size - Len(got)
           add == Slice(d, from, m)
<1>1. Len(got) \in Nat
  BY LenProperties
<1>2. at \in Nat /\ m \in Nat
  BY <1>1
<1>3. base \in Nat /\ from \in Nat /\ from < PageSize /\ at = base + from
  <2> HIDE DEF at
  <2> QED
    BY <1>2, PagePosition, Zenon
<1>4. d = Slice(o, base, PageSize) /\ PageSize \in Nat
  BY PageSizeAssumption DEF PageOf
<1> HIDE DEF base, from, d, m
<1>5. /\ d \in Seq(Byte)
      /\ Matches(d, o, base)
      /\ Len(d) = 0 \/ base + Len(d) <= Len(o)
      /\ Len(d) < PageSize => Len(o) <= base + Len(d)
  BY <1>3, <1>4, SliceFacts, Zenon
<1>6. /\ add \in Seq(Byte) /\ Len(add) <= m
      /\ Matches(add, d, from)
      /\ Len(add) = 0 \/ from + Len(add) <= Len(d)
      /\ Len(add) < m => Len(d) <= from + Len(add)
  BY <1>2, <1>3, <1>5, SliceFacts, Zenon
<1> HIDE DEF add
<1>7. /\ Len(d) <= from => Len(o) <= off + Len(got)
      /\ ~(Len(d) <= from) =>
            /\ Len(got \o add) <= size
            /\ off + Len(got \o add) <= Len(o)
            /\ Matches(got \o add, o, off)
            /\ Len(d) < PageSize \/ Len(got \o add) >= size =>
                  Len(got \o add) = size \/ Len(o) <= off + Len(got \o add)
  <2>1. Turn(Len(o), Len(got), Len(d), Len(add), off, size, base, from)
    BY <1>3, <1>5, <1>6 DEF Turn, m
  <2> QED
    BY <1>3, <1>5, <1>6, <2>1, CopyBytes, Zenon
<1> QED
  BY <1>7, Zenon DEF from, d, m, add

-----------------------------------------------------------------------------
(* Reads of clean files *)

\* A thread that goes on with the same page and has read the same.
LEMMA GoesOn ==
    ASSUME NEW r, NEW s, ThreadOK(r),
           s.op = r.op, s.file = r.file, s.page = r.page, s.off = r.off, s.size = r.size, s.got = r.got,
           s.pc \in {"put", "track", "copy"} => s.data = PageOf(Old[s.file], s.page),
           s.op = "read" => /\ r.pc # "ret"
                            /\ s.pc \in {"get", "fetch", "put", "track", "copy"} \/ (s.pc = "ret" /\ s.failed)
    PROVE  ThreadOK(s)
<1>1. s.op = "read" => Reading(s)
  BY DEF ThreadOK, Reading
<1> QED
  BY <1>1 DEF ThreadOK

\* A thread that is not reading and carries no page.
LEMMA NoReader ==
    ASSUME NEW s, s.op # "read", s.pc \notin {"put", "track", "copy"}
    PROVE  ThreadOK(s)
BY DEF ThreadOK

\* A step of thread t to s, after which no file is clean that was not before,
\* and the cached pages of those that are, are theirs.
LEMMA ExactStep ==
    ASSUME TypeOK, Exact, NEW t \in Threads, NEW s \in ThreadState, th' = [th EXCEPT ![t] = s],
           \A f \in Files : backing'[f] \in {Old[f], New[f]},
           Clean' \subseteq Clean,
           \A k \in DOMAIN pages' : k[1] \in Clean => pages'[k] = PageOf(Old[k[1]], k[2]),
           s.file \in Clean' => ThreadOK(s)
    PROVE  Exact'
<1>1. th \in [Threads -> ThreadState]
  BY DEF TypeOK
<1>2. th'[t] = s /\ \A u \in Threads : u # t => th'[u] = th[u]
  BY <1>1
<1>3. \A k \in DOMAIN pages' : k[1] \in Clean' => pages'[k] = PageOf(Old[k[1]], k[2])
  OBVIOUS
<1>4. \A u \in Threads : th'[u].file \in Clean' => ThreadOK(th'[u])
  <2> TAKE u \in Threads
  <2>1. CASE u = t
    BY <1>2, <2>1
  <2>2. CASE u # t
    BY <1>2, <2>2 DEF Exact
  <2> QED
    BY <2>1, <2>2
<1> QED
  BY <1>3, <1>4 DEF Exact

\* A step that changes no file and enters no page.
LEMMA QuietStep ==
    ASSUME IInv, Exact, NEW t \in Threads, NEW s \in ThreadState, th' = [th EXCEPT ![t] = s],
           UNCHANGED <<backing, unsure>>, Shrinks,
           s.file \in Clean => ThreadOK(s)
    PROVE  Exact'
<1>1. Clean' = Clean
  BY DEF Clean
<1>2. \A f \in Files : backing'[f] \in {Old[f], New[f]}
  BY DEF Exact
<1>3. \A k \in DOMAIN pages' : k[1] \in Clean => pages'[k] = PageOf(Old[k[1]], k[2])
  BY DEF Exact, Shrinks
<1> QED
  BY <1>1, <1>2, <1>3, ExactStep, Zenon DEF IInv

\* The invariant holds at the start.
LEMMA InitExact == Init => Exact
<1> SUFFICES ASSUME Init PROVE Exact
  OBVIOUS
<1>1. DOMAIN pages = {} /\ backing = Old
  BY DEF Init, EmptyMap
<1>2. \A t \in Threads : th[t] = Idle
  BY DEF Init
<1>3. Idle.op = "none" /\ Idle.pc = "idle"
  BY DEF Idle
<1>4. ThreadOK(Idle)
  BY <1>3, NoReader, Zenon
<1> QED
  BY <1>1, <1>2, <1>4 DEF Exact

\* A read starts with nothing read; a read of nothing is complete.
LEMMA ReadCachedExact ==
    ASSUME IInv, Exact, NEW t \in Threads, ReadCached(t)
    PROVE  Exact'
<1>1. PICK f \in Files, r \in Reads :
        Call(t, [Idle EXCEPT !.pc = IF r[2] = 0 THEN "ret" ELSE "get", !.op = "read", !.file = f,
                             !.off = r[1], !.size = r[2], !.page = r[1] \div PageSize])
  BY Zenon DEF ReadCached
<1> DEFINE l == IF r[2] = 0 THEN "ret" ELSE "get"
           p == r[1] \div PageSize
           s == [Idle EXCEPT !.pc = l, !.op = "read", !.file = f, !.off = r[1], !.size = r[2], !.page = p]
<1>2. r[1] \in Nat /\ r[2] \in Nat
  BY ReadsAssumption
<1>3. p \in Nat /\ p = (r[1] + 0) \div PageSize
  BY <1>2, PageSizeAssumption
<1>4. l \in {"ret", "get"} /\ (l = "ret" => r[2] = 0)
  OBVIOUS
<1>5. th' = [th EXCEPT ![t] = s]
  BY <1>1, Zenon DEF Call
<1> HIDE DEF l, p
<1>6. /\ s \in ThreadState /\ s.pc = l /\ s.op = "read" /\ s.file = f /\ s.off = r[1] /\ s.size = r[2]
      /\ s.page = p /\ s.got = Idle.got
  BY <1>2, <1>3, <1>4, IdleType, Zenon DEF ThreadState
<1> HIDE DEF s
<1>7. s.got = <<>> /\ Len(s.got) = 0
  BY <1>6 DEF Idle
<1>8. Reading(s) /\ (s.pc = "ret" => Complete(s)) /\ s.page = (s.off + Len(s.got)) \div PageSize
  BY <1>2, <1>3, <1>4, <1>6, <1>7 DEF Reading, Complete, Matches
<1>9. ThreadOK(s)
  BY <1>4, <1>6, <1>8 DEF ThreadOK
<1>10. UNCHANGED <<backing, unsure>> /\ Shrinks
  BY DEF ReadCached, Shrinks
<1> QED
  BY <1>5, <1>6, <1>9, <1>10, QuietStep, Zenon

\* The loop adds the next bytes, or ends with all of them.
LEMMA CopyExact ==
    ASSUME IInv, Exact, NEW t \in Threads, Copy(t)
    PROVE  Exact'
<1> DEFINE r == th[t]
           from == (r.off + Len(r.got)) % PageSize
           got == r.got \o Slice(r.data, from, r.size - Len(r.got))
           next == (r.off + Len(got)) \div PageSize
           l == IF Len(r.data) < PageSize \/ Len(got) >= r.size THEN "ret" ELSE "get"
           s == IF Len(r.data) <= from THEN [r EXCEPT !.pc = "ret"]
                ELSE [r EXCEPT !.got = got, !.page = next, !.pc = l]
<1>1. r \in ThreadState /\ r.pc = "copy" /\ th \in [Threads -> ThreadState]
  BY DEF Copy, IInv, TypeOK
<1>2. th' = [th EXCEPT ![t] = s]
  BY Zenon DEF Copy
<1>3. s \in ThreadState
  <2>1. IInv'
    BY InvStep, Zenon DEF Next
  <2> HIDE DEF s
  <2>2. s = th'[t] /\ th' \in [Threads -> ThreadState]
    BY <1>1, <1>2, <2>1 DEF IInv, TypeOK
  <2> QED
    BY <2>2
<1>4. l \in {"ret", "get"} /\ (l = "ret" => Len(r.data) < PageSize \/ Len(got) >= r.size)
  BY Zenon
<1>5. /\ r.file \in Files /\ r.off \in Nat /\ r.size \in Nat /\ r.got \in Seq(Byte)
      /\ Old[r.file] \in Seq(Byte)
  BY <1>1, BytesAssumption DEF ThreadState
<1> HIDE DEF r, l
<1>6. ASSUME r.op = "read", ThreadOK(r) PROVE ThreadOK(s)
  <2>1. /\ Reading(r) /\ r.page = (r.off + Len(r.got)) \div PageSize
        /\ r.data = PageOf(Old[r.file], (r.off + Len(r.got)) \div PageSize)
    BY <1>1, <1>6 DEF ThreadOK
  <2>2. /\ Len(r.data) <= from => Len(Old[r.file]) <= r.off + Len(r.got)
        /\ ~(Len(r.data) <= from) =>
              /\ Len(got) <= r.size /\ r.off + Len(got) <= Len(Old[r.file])
              /\ Matches(got, Old[r.file], r.off)
              /\ Len(r.data) < PageSize \/ Len(got) >= r.size =>
                    Len(got) = r.size \/ Len(Old[r.file]) <= r.off + Len(got)
    BY <1>5, <2>1, CopyFacts, Zenon DEF Reading
  <2> HIDE DEF from, got
  <2>3. CASE Len(r.data) <= from
    <3>1. /\ s.pc = "ret" /\ s.op = "read" /\ s.off = r.off /\ s.size = r.size
          /\ s.got = r.got /\ s.file = r.file
      BY <1>1, <1>6, <2>3, Zenon DEF ThreadState
    <3> HIDE DEF s
    <3>2. Reading(s) /\ Complete(s)
      BY <2>1, <2>2, <2>3, <3>1 DEF Reading, Complete
    <3> QED
      BY <3>1, <3>2 DEF ThreadOK
  <2>4. CASE ~(Len(r.data) <= from)
    <3> HIDE DEF next
    <3>1. /\ s.pc = l /\ s.op = "read" /\ s.off = r.off /\ s.size = r.size
          /\ s.got = got /\ s.file = r.file /\ s.page = next
      BY <1>1, <1>6, <2>4, Zenon DEF ThreadState
    <3> HIDE DEF s
    <3>2. Reading(s) /\ (s.pc = "ret" => Complete(s))
      BY <1>4, <2>2, <2>4, <3>1 DEF Reading, Complete
    <3>3. s.page = (s.off + Len(s.got)) \div PageSize
      BY <3>1 DEF next
    <3> QED
      BY <1>4, <3>1, <3>2, <3>3 DEF ThreadOK
  <2> QED
    BY <2>3, <2>4
<1>7. s.file = r.file /\ s.op = r.op /\ s.pc \in {"ret", "get"}
  <2> HIDE DEF from, got, next
  <2> QED
    BY <1>1, <1>4, Zenon DEF ThreadState
<1>8. r.file \in Clean => ThreadOK(r)
  BY DEF Exact, r
<1> HIDE DEF s
<1>9. r.op # "read" => ThreadOK(s)
  BY <1>7, NoReader
<1>10. UNCHANGED <<backing, unsure>> /\ Shrinks
  BY DEF Copy, Shrinks
<1> QED
  BY <1>2, <1>3, <1>6, <1>7, <1>8, <1>9, <1>10, QuietStep, Zenon

\* A page that enters the cache is its file's, or the file is not clean.
LEMMA PutStepExact ==
    ASSUME IInv, Exact, NEW t \in Threads, PutStep(t)
    PROVE  Exact'
<1> DEFINE s == [th[t] EXCEPT !.pc = "track"]
<1>1. th[t] \in ThreadState /\ th[t].pc = "put" /\ th' = [th EXCEPT ![t] = s]
  BY DEF IInv, TypeOK, PutStep, Goto
<1>2. /\ s \in ThreadState /\ s.pc = "track" /\ s.op = th[t].op /\ s.file = th[t].file /\ s.page = th[t].page
      /\ s.off = th[t].off /\ s.size = th[t].size /\ s.got = th[t].got /\ s.data = th[t].data
  BY <1>1, Zenon DEF ThreadState
<1> HIDE DEF s
<1>3. Key(t) \in K
  BY <1>1 DEF Key, K, ThreadState
<1>4. /\ pages'[Key(t)] = th[t].data
      /\ \A x \in DOMAIN pages' : x # Key(t) => x \in DOMAIN pages /\ pages'[x] = pages[x]
  BY <1>3, PutKeepsLru DEF IInv, PutStep
<1>5. th[t].file \in Clean => ThreadOK(th[t]) /\ th[t].data = PageOf(Old[th[t].file], th[t].page)
  BY <1>1 DEF Exact, ThreadOK
<1>6. \A k \in DOMAIN pages' : k[1] \in Clean => pages'[k] = PageOf(Old[k[1]], k[2])
  BY <1>4, <1>5 DEF Key, Exact
<1>7. s.file \in Clean => ThreadOK(s)
  BY <1>1, <1>2, <1>5, GoesOn
<1>8. Clean' = Clean /\ \A f \in Files : backing'[f] \in {Old[f], New[f]}
  BY DEF PutStep, Clean, Exact
<1> QED
  BY <1>1, <1>2, <1>6, <1>7, <1>8, ExactStep, Zenon DEF IInv

\* A file that is written to, in the cache or in the backing store, is not
\* clean any more, and the others are as they were.
LEMMA WritesExact ==
    ASSUME IInv, Exact, NEW t \in Threads, WritePage(t) \/ Rewrite(t)
    PROVE  Exact'
<1>1. IInv' /\ th \in [Threads -> ThreadState] /\ backing \in [Files -> Seq(Byte)]
  BY InvStep, Zenon DEF Next, IInv, TypeOK
<1>2. th'[t] \in ThreadState
  BY <1>1 DEF IInv, TypeOK
<1>3. UNCHANGED pages
  BY Zenon DEF WritePage, Rewrite
<1>4. \A k \in DOMAIN pages' : k[1] \in Clean => pages'[k] = PageOf(Old[k[1]], k[2])
  BY <1>3 DEF Exact
<1>5. CASE WritePage(t)
  <2>1. PICK k \in Keys :
          /\ Call(t, [Idle EXCEPT !.pc = "put", !.op = "write", !.file = k[1], !.page = k[2], !.data = Dirt])
          /\ unsure' = unsure \cup {k}
    BY <1>5, Zenon DEF WritePage
  <2> DEFINE s == [Idle EXCEPT !.pc = "put", !.op = "write", !.file = k[1], !.page = k[2], !.data = Dirt]
  <2>2. s.file = k[1] /\ th' = [th EXCEPT ![t] = s]
    BY <2>1, IdleType, Zenon DEF Call, ThreadState
  <2> HIDE DEF s
  <2>3. s \in ThreadState
    BY <1>1, <1>2, <2>2
  <2>4. s.file \notin Clean' /\ Clean' \subseteq Clean /\ \A f \in Files : backing'[f] \in {Old[f], New[f]}
    BY <1>5, <2>1, <2>2, Zenon DEF WritePage, Clean, Exact
  <2> QED
    BY <1>4, <2>2, <2>3, <2>4, ExactStep, Zenon DEF IInv
<1>6. CASE Rewrite(t)
  <2>1. PICK f \in Files :
          /\ backing[f] # New[f]
          /\ Call(t, [Idle EXCEPT !.pc = "invalidate", !.op = "rewrite", !.file = f])
          /\ backing' = [backing EXCEPT ![f] = New[f]]
          /\ unsure' = unsure \cup {Key(u) : u \in {v \in Threads : th[v].pc \in {"put", "track"} /\ th[v].file = f}}
    BY <1>6, Zenon DEF Rewrite
  <2> DEFINE s == [Idle EXCEPT !.pc = "invalidate", !.op = "rewrite", !.file = f]
  <2>2. s.pc = "invalidate" /\ s.op = "rewrite" /\ th' = [th EXCEPT ![t] = s]
    BY <2>1, IdleType, Zenon DEF Call, ThreadState
  <2> HIDE DEF s
  <2>3. s \in ThreadState
    BY <1>1, <1>2, <2>2
  <2>4. backing'[f] = New[f] /\ \A g \in Files : g # f => backing'[g] = backing[g]
    BY <1>1, <2>1
  <2>5. \A g \in Files : backing'[g] \in {Old[g], New[g]}
    BY <2>4 DEF Exact
  <2>6. unsure \subseteq unsure' /\ New[f] # Old[f]
    BY <2>1 DEF Exact
  <2>7. Clean' \subseteq Clean
    BY <2>4, <2>6 DEF Clean
  <2>8. ThreadOK(s)
    BY <2>2, NoReader
  <2> QED
    BY <1>4, <2>2, <2>3, <2>5, <2>7, <2>8, ExactStep, Zenon DEF IInv
<1> QED
  BY <1>5, <1>6

\* Every step keeps the invariant.
LEMMA ExactNext ==
    ASSUME IInv, Exact, [Next]_vars
    PROVE  Exact'
<1>1. \A t \in Threads : th[t] \in ThreadState /\ th[t].file \in Files
  BY DEF IInv, TypeOK, ThreadState
<1>2. ASSUME UNCHANGED pages PROVE Shrinks
  BY <1>2 DEF Shrinks
<1>3. ASSUME NEW t \in Threads, NEW s, s \in ThreadState, th' = [th EXCEPT ![t] = s], s.op # "read",
             s.pc \notin {"put", "track", "copy"}, UNCHANGED <<backing, unsure>>, Shrinks
      PROVE  Exact'
  <2>1. ThreadOK(s)
    BY <1>3, NoReader
  <2> QED
    BY <1>3, <2>1, QuietStep, Zenon
<1>4. \A t \in Threads : th[t].file \in Clean => ThreadOK(th[t])
  BY DEF Exact
<1>5. ASSUME NEW t \in Threads, PrefetchPages(t) \/ InvalidateFile(t) PROVE Exact'
  <2>1. CASE PrefetchPages(t)
    <3>1. PICK k \in Keys :
            Call(t, [Idle EXCEPT !.pc = "contains", !.op = "prefetch", !.file = k[1], !.page = k[2]])
      BY <2>1, Zenon DEF PrefetchPages
    <3> DEFINE s == [Idle EXCEPT !.pc = "contains", !.op = "prefetch", !.file = k[1], !.page = k[2]]
    <3>2. k[1] \in Files /\ k[2] \in Nat
      BY PagesAssumption, Zenon DEF Keys
    <3>3. s \in ThreadState /\ s.pc = "contains" /\ s.op = "prefetch" /\ th' = [th EXCEPT ![t] = s]
      BY <3>1, <3>2, IdleType, Zenon DEF ThreadState, Call
    <3> HIDE DEF s
    <3>4. UNCHANGED <<pages, backing, unsure>>
      BY <2>1 DEF PrefetchPages
    <3> QED
      BY <1>2, <1>3, <3>3, <3>4, Zenon
  <2>2. CASE InvalidateFile(t)
    <3>1. PICK f \in Files :
            Call(t, [Idle EXCEPT !.pc = "invalidate", !.op = "invalidate", !.file = f])
      BY <2>2, Zenon DEF InvalidateFile
    <3> DEFINE s == [Idle EXCEPT !.pc = "invalidate", !.op = "invalidate", !.file = f]
    <3>2. s \in ThreadState /\ s.pc = "invalidate" /\ s.op = "invalidate" /\ th' = [th EXCEPT ![t] = s]
      BY <3>1, IdleType, Zenon DEF ThreadState, Call
    <3> HIDE DEF s
    <3>3. UNCHANGED <<pages, backing, unsure>>
      BY <2>2 DEF InvalidateFile
    <3> QED
      BY <1>2, <1>3, <3>2, <3>3, Zenon
  <2> QED
    BY <1>5, <2>1, <2>2
<1>6. ASSUME NEW t \in Threads, Evict(t) \/ Return(t) PROVE Exact'
  <2>1. th' = [th EXCEPT ![t] = Idle] /\ UNCHANGED <<backing, unsure>>
    BY <1>6 DEF Evict, Return, Call
  <2>2. Shrinks
    <3>1. CASE Evict(t)
      <4>1. PICK n \in 1 .. MaxPages : EvictN(n)
        BY <3>1 DEF Evict
      <4> QED
        BY <4>1, MaxPagesAssumption, EvictKeepsLru DEF IInv
    <3>2. CASE Return(t)
      BY <1>2, <3>2 DEF Return
    <3> QED
      BY <1>6, <3>1, <3>2
  <2>3. Idle.op = "none"
    BY DEF Idle
  <2> QED
    BY <1>3, <2>1, <2>2, <2>3, IdleType, Zenon
<1>7. ASSUME NEW t \in Threads, GetHit(t) \/ Fetch(t) PROVE Exact'
  <2> DEFINE d == IF GetHit(t) THEN pages[Key(t)] ELSE PageOf(backing[th[t].file], th[t].page)
             l == IF GetHit(t) THEN "copy" ELSE "put"
             s == [th[t] EXCEPT !.pc = l, !.data = d]
  <2>1. th' = [th EXCEPT ![t] = s] /\ UNCHANGED <<pages, backing, unsure>> /\ th[t].pc \in {"get", "fetch"}
    BY <1>7, Zenon DEF GetHit, Fetch
  <2>2. th[t].file \in Clean => d = PageOf(Old[th[t].file], th[t].page)
    BY <1>7 DEF GetHit, Key, Exact, Clean
  <2>3. l \in {"copy", "put"}
    OBVIOUS
  <2> HIDE DEF l, d
  <2>4. s \in ThreadState
    <3>1. IInv'
      BY <1>7, InvStep, Zenon DEF Next
    <3> HIDE DEF s
    <3> QED
      BY <2>1, <3>1 DEF IInv, TypeOK
  <2>5. /\ s.pc = l /\ s.data = d /\ s.op = th[t].op /\ s.file = th[t].file /\ s.page = th[t].page
        /\ s.off = th[t].off /\ s.size = th[t].size /\ s.got = th[t].got
    BY <1>1, Zenon DEF ThreadState
  <2> HIDE DEF s
  <2>6. s.file \in Clean => ThreadOK(s)
    BY <1>4, <2>1, <2>2, <2>3, <2>5, GoesOn
  <2> QED
    BY <1>2, <2>1, <2>4, <2>6, QuietStep, Zenon
<1>8. ASSUME NEW t \in Threads, GetMiss(t) PROVE Exact'
  <2> DEFINE s == [th[t] EXCEPT !.pc = "fetch"]
  <2>1. th' = [th EXCEPT ![t] = s] /\ UNCHANGED <<pages, backing, unsure>> /\ th[t].pc = "get"
    BY <1>8 DEF GetMiss, Goto
  <2>2. /\ s \in ThreadState /\ s.pc = "fetch" /\ s.op = th[t].op /\ s.file = th[t].file /\ s.page = th[t].page
        /\ s.off = th[t].off /\ s.size = th[t].size /\ s.got = th[t].got
    BY <1>1, Zenon DEF ThreadState
  <2> HIDE DEF s
  <2>3. s.file \in Clean => ThreadOK(s)
    BY <1>4, <2>1, <2>2, GoesOn
  <2> QED
    BY <1>2, <2>1, <2>2, <2>3, QuietStep, Zenon
<1>9. ASSUME NEW t \in Threads, FetchFails(t) PROVE Exact'
  <2> DEFINE l == IF th[t].op = "read" THEN "ret" ELSE "next"
             s == [th[t] EXCEPT !.pc = l, !.failed = TRUE]
  <2>1. th' = [th EXCEPT ![t] = s] /\ UNCHANGED <<pages, backing, unsure>> /\ th[t].pc = "fetch"
    BY <1>9 DEF FetchFails
  <2>2. l \in {"ret", "next"} /\ (th[t].op = "read" => l = "ret")
    OBVIOUS
  <2> HIDE DEF l
  <2>3. /\ s \in ThreadState /\ s.pc = l /\ s.op = th[t].op /\ s.file = th[t].file /\ s.page = th[t].page
        /\ s.off = th[t].off /\ s.size = th[t].size /\ s.got = th[t].got /\ s.failed
    BY <1>1, <2>2, Zenon DEF ThreadState
  <2> HIDE DEF s
  <2>4. s.file \in Clean => ThreadOK(s)
    BY <1>4, <2>1, <2>2, <2>3, GoesOn
  <2> QED
    BY <1>2, <2>1, <2>3, <2>4, QuietStep, Zenon
<1>10. ASSUME NEW t \in Threads, TrackPage(t) PROVE Exact'
  <2> DEFINE l == AfterPage(t)
             s == [th[t] EXCEPT !.pc = l]
  <2>1. th' = [th EXCEPT ![t] = s] /\ UNCHANGED <<pages, backing, unsure>> /\ th[t].pc = "track"
    BY <1>10 DEF TrackPage, Goto
  <2>2. l \in {"copy", "next", "ret"} /\ (th[t].op = "read" <=> l = "copy")
    BY DEF AfterPage
  <2> HIDE DEF l
  <2>3. /\ s \in ThreadState /\ s.pc = l /\ s.op = th[t].op /\ s.file = th[t].file /\ s.page = th[t].page
        /\ s.off = th[t].off /\ s.size = th[t].size /\ s.got = th[t].got /\ s.data = th[t].data
    BY <1>1, <2>2, Zenon DEF ThreadState
  <2> HIDE DEF s
  <2>4. th[t].file \in Clean => th[t].data = PageOf(Old[th[t].file], th[t].page)
    BY <1>4, <2>1 DEF ThreadOK
  <2>5. s.file \in Clean => ThreadOK(s)
    BY <1>4, <2>1, <2>2, <2>3, <2>4, GoesOn
  <2> QED
    BY <1>2, <2>1, <2>3, <2>5, QuietStep, Zenon
<1>11. ASSUME NEW t \in Threads, ContainsPage(t) PROVE Exact'
  <2> DEFINE l == IF Key(t) \in DOMAIN pages THEN "next" ELSE "fetch"
             s == [th[t] EXCEPT !.pc = l]
  <2>1. th' = [th EXCEPT ![t] = s] /\ UNCHANGED <<pages, backing, unsure>> /\ th[t].pc = "contains"
    BY <1>11 DEF ContainsPage, Goto
  <2>2. l \in {"next", "fetch"}
    OBVIOUS
  <2> HIDE DEF l
  <2>3. s \in ThreadState /\ s.pc = l /\ s.op = th[t].op /\ s.file = th[t].file
    BY <1>1, <2>2, Zenon DEF ThreadState
  <2> HIDE DEF s
  <2>4. s.file \in Clean => ThreadOK(s)
    BY <1>4, <2>1, <2>2, <2>3 DEF ThreadOK
  <2> QED
    BY <1>2, <2>1, <2>3, <2>4, QuietStep, Zenon
<1>12. ASSUME NEW t \in Threads, NextPage(t) PROVE Exact'
  <2> DEFINE s == IF th[t].page + 1 \in Pages THEN [th[t] EXCEPT !.pc = "contains", !.page = th[t].page + 1]
                  ELSE [th[t] EXCEPT !.pc = "ret"]
  <2>0. th[t].page + 1 \in Nat
    BY <1>1 DEF ThreadState
  <2>1. th' = [th EXCEPT ![t] = s] /\ UNCHANGED <<pages, backing, unsure>> /\ th[t].pc = "next"
    BY <1>12 DEF NextPage
  <2>2. s \in ThreadState /\ s.pc \in {"contains", "ret"} /\ s.op = th[t].op /\ s.file = th[t].file
    BY <1>1, <2>0, Zenon DEF ThreadState
  <2> HIDE DEF s
  <2>3. s.file \in Clean => ThreadOK(s)
    BY <1>4, <2>1, <2>2 DEF ThreadOK
  <2> QED
    BY <1>2, <2>1, <2>2, <2>3, QuietStep, Zenon
<1>13. ASSUME NEW t \in Threads, InvalidateTake(t) PROVE Exact'
  <2> DEFINE s == [th[t] EXCEPT !.pc = "erase", !.todo = index[th[t].file]]
  <2>1. th' = [th EXCEPT ![t] = s] /\ UNCHANGED <<pages, backing, unsure>> /\ th[t].pc = "invalidate"
    BY <1>13 DEF InvalidateTake
  <2>2. index[th[t].file] \in SUBSET Nat
    BY <1>1 DEF IInv, TypeOK
  <2>3. s \in ThreadState /\ s.pc = "erase" /\ s.op = th[t].op /\ s.file = th[t].file
    BY <1>1, <2>2, Zenon DEF ThreadState
  <2> HIDE DEF s
  <2>4. s.file \in Clean => ThreadOK(s)
    BY <1>4, <2>1, <2>3 DEF ThreadOK
  <2> QED
    BY <1>2, <2>1, <2>3, <2>4, QuietStep, Zenon
<1>14. ASSUME NEW t \in Threads, InvalidateErase(t) PROVE Exact'
  <2>1. PICK i \in th[t].todo :
          Erase(<<th[t].file, i>>) /\ th' = [th EXCEPT ![t] = [@ EXCEPT !.todo = th[t].todo \ {i}]]
    BY <1>14, Zenon DEF InvalidateErase
  <2> DEFINE s == [th[t] EXCEPT !.todo = th[t].todo \ {i}]
  <2>2. s \in ThreadState /\ s.pc = th[t].pc /\ s.op = th[t].op /\ s.file = th[t].file
    <3>1. th[t].todo \ {i} \in SUBSET Nat
      BY <1>1 DEF ThreadState
    <3> QED
      BY <1>1, <3>1, Zenon DEF ThreadState
  <2>3. th' = [th EXCEPT ![t] = s] /\ th[t].pc = "erase" /\ UNCHANGED <<backing, unsure>>
    BY <1>14, <2>1, Zenon DEF InvalidateErase
  <2> HIDE DEF s
  <2>4. Shrinks
    BY <2>1, EraseKeepsLru DEF IInv
  <2>5. s.file \in Clean => ThreadOK(s)
    BY <1>4, <2>2, <2>3 DEF ThreadOK
  <2> QED
    BY <2>2, <2>3, <2>4, <2>5, QuietStep, Zenon
<1>15. ASSUME NEW t \in Threads, InvalidateEnds(t) PROVE Exact'
  <2> DEFINE s == [th[t] EXCEPT !.pc = "ret"]
  <2>1. th' = [th EXCEPT ![t] = s] /\ UNCHANGED <<pages, backing, unsure>> /\ th[t].pc = "erase"
    BY <1>15 DEF InvalidateEnds, Goto
  <2>2. s \in ThreadState /\ s.pc = "ret" /\ s.op = th[t].op /\ s.file = th[t].file
    BY <1>1, Zenon DEF ThreadState
  <2> HIDE DEF s
  <2>3. s.file \in Clean => ThreadOK(s)
    BY <1>4, <2>1, <2>2 DEF ThreadOK
  <2> QED
    BY <1>2, <2>1, <2>2, <2>3, QuietStep, Zenon
<1>16. CASE UNCHANGED vars
  BY <1>16 DEF vars, Exact, Clean
<1> QED
  BY <1>5, <1>6, <1>7, <1>8, <1>9, <1>10, <1>11, <1>12, <1>13, <1>14, <1>15, <1>16,
     ReadCachedExact, CopyExact, PutStepExact, WritesExact DEF Next

-----------------------------------------------------------------------------

\* The types hold always.
THEOREM TypesHold == Spec => []TypeOK
<1>1. IInv => TypeOK
  BY DEF IInv
<1> QED
  BY <1>1, InvHolds, PTL

\* order_ and map_ have the same keys, each once and at most max_entries_ of
\* them, always.
THEOREM LruStaysSound == Spec => []LruIsSound
<1>1. IInv => LruIsSound
  <2> SUFFICES ASSUME IInv PROVE LruIsSound
    OBVIOUS
  <2>1. order \in Seq(K) /\ IsInjective(order) /\ Range(order) = DOMAIN pages /\ Len(order) <= MaxPages
    BY DEF IInv, Lru, LruOf
  <2>2. Cardinality(Range(order)) = Len(order)
    BY <2>1, InjectiveLength
  <2> QED
    BY <2>1, <2>2 DEF LruIsSound, Range
<1> QED
  BY <1>1, InvHolds, PTL

\* Every cached page can be found by an invalidation of its file, always.
THEOREM PagesStayTracked == Spec => []CachedIsTracked
<1>1. IInv => CachedIsTracked
  BY DEF IInv
<1> QED
  BY <1>1, InvHolds, PTL

\* A page that differs from the backing store was written to the cache, or
\* its invalidation is pending, or its fetch raced the rewrite.
THEOREM StalePagesRaced == Spec => []StaleOnlyIfRaced
<1>1. IInv => StaleOnlyIfRaced
  <2> SUFFICES ASSUME IInv, NEW k \in DOMAIN pages
               PROVE  \/ pages[k] = PageOf(backing[k[1]], k[2])
                      \/ k \in unsure
                      \/ \E t \in Threads : /\ th[t].file = k[1]
                                          /\ \/ th[t].pc = "invalidate"
                                             \/ (th[t].pc = "erase" /\ k[2] \in th[t].todo)
    BY DEF StaleOnlyIfRaced
  <2> QED
    BY DEF IInv, Stale
<1> QED
  BY <1>1, InvHolds, PTL

\* ReadCached of a file that nobody changes returns the bytes asked for, for
\* any page size, capacity and range, whatever else the cache does meanwhile;
\* when a fetch fails, a prefix of them.
THEOREM ReadsStayExact == Spec => []ReadCachedIsExact
<1>1. Init => IInv /\ Exact
  BY InitInv, InitExact
<1>2. IInv /\ Exact /\ [Next]_vars => (IInv /\ Exact)'
  BY InvStep, ExactNext
<1>3. IInv /\ Exact => ReadCachedIsExact
  <2> SUFFICES ASSUME IInv, Exact, NEW t \in Threads,
                      th[t].pc = "ret", th[t].op = "read", backing[th[t].file] = Old[th[t].file],
                      \A k \in unsure : k[1] # th[t].file
               PROVE  LET wanted == Slice(Old[th[t].file], th[t].off, th[t].size)
                      IN IF th[t].failed THEN th[t].got = Slice(wanted, 0, Len(th[t].got)) ELSE th[t].got = wanted
    BY DEF ReadCachedIsExact
  <2> DEFINE o == Old[th[t].file]
             off == th[t].off
             size == th[t].size
             got == th[t].got
             wanted == Slice(o, off, size)
  <2>1. th[t].file \in Files /\ off \in Nat /\ size \in Nat /\ got \in Seq(Byte) /\ o \in Seq(Byte)
    BY BytesAssumption DEF IInv, TypeOK, ThreadState
  <2>2. ThreadOK(th[t])
    BY <2>1 DEF Exact, Clean
  <2>3. /\ Len(got) <= size /\ Matches(got, o, off)
        /\ Len(got) = 0 \/ off + Len(got) <= Len(o)
        /\ ~th[t].failed => Len(got) = size \/ Len(o) <= off + Len(got)
    BY <2>2 DEF ThreadOK, Reading, Complete
  <2> HIDE DEF o, off, size, got
  <2>4. ~th[t].failed => got = wanted
    BY <2>1, <2>3, SliceIs, Zenon
  <2>5. got = Slice(wanted, 0, Len(got))
    <3>1. /\ wanted \in Seq(Byte) /\ Len(wanted) \in Nat /\ Matches(wanted, o, off)
          /\ Len(wanted) < size => Len(o) <= off + Len(wanted)
      BY <2>1, SliceFacts, Zenon
    <3> HIDE DEF wanted
    <3>2. Len(got) \in Nat /\ Len(o) \in Nat
      BY <2>1, LenProperties
    <3>3. Len(got) <= Len(wanted)
      BY <2>1, <2>3, <3>1, <3>2
    <3>4. Matches(got, wanted, 0)
      BY <2>3, <3>1, <3>2, <3>3 DEF Matches
    <3>5. 0 \in Nat /\ Len(got) <= Len(got) /\ 0 + Len(got) <= Len(wanted)
      BY <3>2, <3>3
    <3> QED
      BY <2>1, <3>1, <3>2, <3>4, <3>5, SliceIs, Zenon
  <2> QED
    BY <2>4, <2>5 DEF o, off, size, got
<1> QED
  BY <1>1, <1>2, <1>3, PTL DEF Spec

=============================================================================
