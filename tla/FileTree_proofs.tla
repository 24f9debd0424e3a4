--------------------------- MODULE FileTree_proofs ---------------------------
(***************************************************************************)
(* The refinement: behind FUSE, the tree that the store holds is the tree  *)
(* of FileTree.  A commit is one step of FileTree, at the path of the inode *)
(* it is about; whatever only touches memory, a crash and a recovery        *)
(* included, is none.                                                      *)
(***************************************************************************)
EXTENDS SoundTree_proofs, FiniteSetTheorems

\* What the store is behind FUSE: the inductive invariant of TreeHolds, and finitely
\* many edges.
Good ==
    /\ Types /\ Numbers /\ Ids /\ Mem
    /\ EdgesSound /\ InodesSound /\ NoCycle /\ Rooted
    /\ IsFiniteSet(DOMAIN edges)

-----------------------------------------------------------------------------
(* Sequences *)

\* BoundedSeq is the sequences up to a length.
LEMMA BoundedSeqFacts ==
    ASSUME NEW S, NEW n \in Nat
    PROVE  \A p : p \in BoundedSeq(S, n) <=> p \in Seq(S) /\ Len(p) <= n
<1>1. ASSUME NEW p \in BoundedSeq(S, n)
      PROVE  p \in Seq(S) /\ Len(p) <= n
  <2>1. PICK m \in 0 .. n : p \in [1 .. m -> S]
    BY DEF BoundedSeq
  <2>2. p \in Seq(S) /\ Len(p) = m
    BY <2>1
  <2> QED
    BY <2>2
<1>2. ASSUME NEW p \in Seq(S), Len(p) <= n
      PROVE  p \in BoundedSeq(S, n)
  <2>1. Len(p) \in 0 .. n /\ p \in [1 .. Len(p) -> S]
    BY <1>2
  <2> QED
    BY <2>1, Zenon DEF BoundedSeq
<1> QED
  BY <1>1, <1>2

\* A sequence is a prefix of another or, if not the same, of what is before its last.
LEMMA PrefixOfFront ==
    ASSUME NEW S, NEW p \in Seq(S), NEW r \in Seq(S), IsPrefix(p, r), p # r
    PROVE  r # <<>> /\ Front(r) \in Seq(S) /\ IsPrefix(p, Front(r))
<1>1. Len(p) \in Nat /\ Len(r) \in Nat /\ Len(p) <= Len(r) /\ p = SubSeq(r, 1, Len(p))
  BY DEF IsPrefix
<1>2. Len(p) # Len(r)
  <2>1. SubSeq(r, 1, Len(r)) = r
    OBVIOUS
  <2> QED
    BY <1>1, <2>1, Zenon
<1>3. Len(p) <= Len(r) - 1 /\ Len(r) # 0
  BY <1>1, <1>2
<1>4. r # <<>>
  BY <1>3
<1>5. Front(r) \in Seq(S) /\ Len(Front(r)) = Len(r) - 1
  BY <1>4, FrontLast
<1>6. SubSeq(Front(r), 1, Len(p)) = SubSeq(r, 1, Len(p))
  BY <1>1, <1>3 DEF Front
<1> QED
  BY <1>1, <1>3, <1>4, <1>5, <1>6 DEF IsPrefix

\* What is a prefix of a parent is one of its child, and not the child.
LEMMA FrontIsPrefix ==
    ASSUME NEW S, NEW p \in Seq(S), NEW r \in Seq(S), r # <<>>, IsPrefix(p, Front(r))
    PROVE  IsPrefix(p, r) /\ p # r
<1>1. Front(r) \in Seq(S) /\ Len(Front(r)) = Len(r) - 1 /\ Len(r) \in Nat \ {0} /\ Len(p) \in Nat
  BY FrontLast
<1>2. Len(p) <= Len(r) - 1 /\ p = SubSeq(Front(r), 1, Len(p))
  BY <1>1 DEF IsPrefix
<1>3. SubSeq(Front(r), 1, Len(p)) = SubSeq(r, 1, Len(p))
  BY <1>1, <1>2 DEF Front
<1>4. Len(p) <= Len(r) /\ Len(p) # Len(r)
  <2>1. \A a, b \in Nat : a <= b - 1 => a <= b /\ a # b
    OBVIOUS
  <2> QED
    BY <1>1, <1>2, <2>1, Zenon
<1>5. p # r
  BY <1>4
<1>6. p = SubSeq(r, 1, Len(p))
  BY <1>2, <1>3
<1> QED
  BY <1>4, <1>5, <1>6 DEF IsPrefix

\* Sequences with the same elements are the same.
LEMMA SameElements ==
    ASSUME NEW S, NEW s \in Seq(S), NEW t \in Seq(S), Len(s) = Len(t), \A i \in 1 .. Len(s) : s[i] = t[i]
    PROVE  s = t
  OBVIOUS

\* A prefix, element by element
LEMMA PrefixElements ==
    ASSUME NEW S, NEW s \in Seq(S), NEW t \in Seq(S)
    PROVE  IsPrefix(s, t) <=> Len(s) <= Len(t) /\ \A i \in 1 .. Len(s) : s[i] = t[i]
<1>1. ASSUME Len(s) <= Len(t)
      PROVE  /\ SubSeq(t, 1, Len(s)) \in Seq(S) /\ Len(SubSeq(t, 1, Len(s))) = Len(s)
             /\ \A i \in 1 .. Len(s) : SubSeq(t, 1, Len(s))[i] = t[i]
  BY <1>1
<1>2. ASSUME IsPrefix(s, t)
      PROVE  Len(s) <= Len(t) /\ \A i \in 1 .. Len(s) : s[i] = t[i]
  <2>1. Len(s) <= Len(t) /\ s = SubSeq(t, 1, Len(s))
    BY <1>2 DEF IsPrefix
  <2> DEFINE u == SubSeq(t, 1, Len(s))
  <2>2. \A i \in 1 .. Len(s) : u[i] = t[i]
    BY <1>1, <2>1
  <2>3. s = u
    BY <2>1
  <2> HIDE DEF u
  <2> QED
    BY <2>1, <2>2, <2>3
<1>3. ASSUME Len(s) <= Len(t), \A i \in 1 .. Len(s) : s[i] = t[i]
      PROVE  IsPrefix(s, t)
  <2> DEFINE u == SubSeq(t, 1, Len(s))
  <2>1. u \in Seq(S) /\ Len(u) = Len(s) /\ \A i \in 1 .. Len(s) : u[i] = t[i]
    BY <1>1, <1>3
  <2>2. s = u
    <3> HIDE DEF u
    <3> QED
      BY <1>3, <2>1, SameElements
  <2> QED
    BY <1>3, <2>2 DEF IsPrefix
<1> QED
  BY <1>2, <1>3

\* r, which begins with q, with p in place of q.
Onto(p, q, r) == p \o SubSeq(r, Len(q) + 1, Len(r))

IsOnto(S, p, q, r, o) ==
    /\ o \in Seq(S)
    /\ Len(o) = Len(p) + (Len(r) - Len(q))
    /\ \A i \in 1 .. Len(p) : o[i] = p[i]
    /\ \A i \in 1 .. Len(r) - Len(q) : o[Len(p) + i] = r[Len(q) + i]

\* Onto, element by element
LEMMA OntoElements ==
    ASSUME NEW S, NEW p \in Seq(S), NEW q \in Seq(S), NEW r \in Seq(S), Len(q) <= Len(r)
    PROVE  IsOnto(S, p, q, r, Onto(p, q, r))
<1> DEFINE t == SubSeq(r, Len(q) + 1, Len(r))
           k == Len(r) - Len(q)
<1>1. Len(p) \in Nat /\ Len(q) \in Nat /\ Len(r) \in Nat /\ k \in Nat
  OBVIOUS
<1>2. t \in Seq(S) /\ Len(t) = k
  OBVIOUS
<1>3. \A i \in 1 .. k : t[i] = r[Len(q) + i]
  <2> SUFFICES ASSUME NEW i \in 1 .. k
               PROVE  t[i] = r[Len(q) + i]
    OBVIOUS
  <2>1. i \in 1 .. Len(r) - (Len(q) + 1) + 1 /\ (Len(q) + 1) + i - 1 = Len(q) + i
    BY <1>1
  <2> QED
    BY <1>1, <2>1
<1> HIDE DEF t, k
<1>4. p \o t \in Seq(S) /\ Len(p \o t) = Len(p) + k
  BY <1>1, <1>2
<1>5. \A i \in 1 .. Len(p) : (p \o t)[i] = p[i]
  BY <1>1, <1>2
<1>6. \A i \in 1 .. k : (p \o t)[Len(p) + i] = t[i]
  BY <1>1, <1>2
<1>7. Onto(p, q, r) = p \o t
  BY DEF Onto, t
<1> QED
  BY <1>3, <1>4, <1>5, <1>6, <1>7 DEF k, IsOnto

\* Onto goes back and forth, keeps the last name and commutes with the parent.
LEMMA OntoFacts ==
    ASSUME NEW S, NEW p \in Seq(S), NEW q \in Seq(S), NEW r \in Seq(S), IsPrefix(q, r)
    PROVE  /\ Onto(p, q, r) \in Seq(S) /\ IsPrefix(p, Onto(p, q, r))
           /\ Onto(q, p, Onto(p, q, r)) = r
           /\ r = q => Onto(p, q, r) = p
           /\ r # q => /\ Onto(p, q, r) # <<>> /\ Front(Onto(p, q, r)) = Onto(p, q, Front(r))
                       /\ Last(Onto(p, q, r)) = Last(r)
<1> DEFINE a == Len(p)
           b == Len(q)
           c == Len(r)
           o == Onto(p, q, r)
<1>1. a \in Nat /\ b \in Nat /\ c \in Nat /\ b <= c /\ \A i \in 1 .. b : q[i] = r[i]
  BY PrefixElements
<1>2. /\ o \in Seq(S) /\ Len(o) = a + (c - b) /\ \A i \in 1 .. a : o[i] = p[i]
      /\ \A i \in 1 .. c - b : o[a + i] = r[b + i]
  <2>1. IsOnto(S, p, q, r, o)
    BY <1>1, OntoElements
  <2> QED
    BY <2>1 DEF IsOnto
<1> HIDE DEF o
<1>3. IsPrefix(p, o)
  <2>1. a <= a + (c - b)
    BY <1>1
  <2> QED
    BY <1>2, <2>1, PrefixElements
<1>4. Onto(q, p, o) = r
  <2> DEFINE u == Onto(q, p, o)
  <2>0. Len(p) <= Len(o)
    BY <1>1, <1>2
  <2>1. /\ u \in Seq(S) /\ Len(u) = b + ((a + (c - b)) - a) /\ \A i \in 1 .. b : u[i] = q[i]
        /\ \A i \in 1 .. (a + (c - b)) - a : u[b + i] = o[a + i]
    <3>1. IsOnto(S, q, p, o, u)
      BY <1>2, <2>0, OntoElements
    <3> HIDE DEF u
    <3> QED
      BY <1>2, <3>1 DEF IsOnto
  <2> HIDE DEF u, a, b, c
  <2>2. b + ((a + (c - b)) - a) = c /\ (a + (c - b)) - a = c - b
    BY <1>1
  <2>3. ASSUME NEW i \in 1 .. c
        PROVE  u[i] = r[i]
    <3>1. CASE i <= b
      <4>1. i \in 1 .. b
        BY <1>1, <3>1
      <4> QED
        BY <1>1, <2>1, <4>1
    <3>2. CASE i > b
      <4>1. i - b \in 1 .. c - b /\ b + (i - b) = i
        BY <1>1, <3>2
      <4>2. u[b + (i - b)] = o[a + (i - b)] /\ o[a + (i - b)] = r[b + (i - b)]
        BY <1>2, <2>1, <2>2, <4>1
      <4> QED
        BY <4>1, <4>2
    <3> QED
      BY <1>1, <3>1, <3>2
  <2>4. Len(u) = Len(r)
    BY <2>1, <2>2 DEF c
  <2>5. u = r
    BY <2>1, <2>3, <2>4, SameElements DEF c
  <2> QED
    BY <2>5 DEF u
<1>5. ASSUME r = q
      PROVE  o = p
  <2>1. c = b /\ a + (c - b) = a
    BY <1>1, <1>5
  <2>2. Len(o) = Len(p)
    BY <1>2, <2>1
  <2> QED
    BY <1>2, <2>2, SameElements
<1>6. ASSUME r # q
      PROVE  o # <<>> /\ Front(o) = Onto(p, q, Front(r)) /\ Last(o) = Last(r)
  <2> DEFINE f == Front(r)
             u == Onto(p, q, f)
             g == Front(o)
  <2>1. r # <<>> /\ f \in Seq(S) /\ IsPrefix(q, f)
    BY <1>6, PrefixOfFront
  <2>2. Len(f) = c - 1 /\ c # 0
    BY <2>1, FrontLast
  <2>3. Len(q) <= Len(f)
    BY <2>1, PrefixElements
  <2>4. b <= c - 1
    BY <2>2, <2>3
  <2>5. \A i \in 1 .. c - 1 : f[i] = r[i]
    BY <1>1 DEF Front
  <2>6. /\ u \in Seq(S) /\ Len(u) = a + ((c - 1) - b) /\ \A i \in 1 .. a : u[i] = p[i]
        /\ \A i \in 1 .. (c - 1) - b : u[a + i] = f[b + i]
    <3>1. IsOnto(S, p, q, f, u)
      BY <2>1, <2>3, OntoElements
    <3> HIDE DEF u, f
    <3> QED
      BY <2>2, <3>1 DEF IsOnto
  <2>7. Len(o) # 0
    BY <1>1, <1>2, <2>4
  <2>8. o # <<>>
    BY <2>7
  <2>9. g \in Seq(S) /\ Len(g) = Len(o) - 1
    BY <1>2, <2>8, FrontLast, Zenon
  <2>10. \A i \in 1 .. Len(o) - 1 : g[i] = o[i]
    BY <1>2 DEF Front
  <2>11. Last(o) = o[a + (c - b)] /\ Last(r) = r[c]
    BY <1>2 DEF Last
  <2> HIDE DEF a, b, c, f, u, g
  <2>12. c - b \in 1 .. c - b /\ b + (c - b) = c
    BY <1>1, <2>4
  <2>13. Last(o) = Last(r)
    BY <1>2, <2>11, <2>12
  <2>14. Len(u) = Len(g)
    <3>1. a + ((c - 1) - b) = (a + (c - b)) - 1
      BY <1>1
    <3> QED
      BY <1>2, <2>6, <2>9, <3>1
  <2>15. ASSUME NEW i \in 1 .. Len(u)
         PROVE  u[i] = g[i]
    <3>0. i \in 1 .. a + ((c - 1) - b) /\ i \in 1 .. (a + (c - b)) - 1
      BY <1>1, <2>6
    <3>1. g[i] = o[i]
      BY <1>2, <2>10, <3>0
    <3>2. CASE i <= a
      <4>1. i \in 1 .. a
        BY <1>1, <3>0, <3>2
      <4> QED
        BY <1>2, <2>6, <3>1, <4>1
    <3>3. CASE i > a
      <4> DEFINE j == i - a
      <4>1. j \in 1 .. (c - 1) - b /\ j \in 1 .. c - b /\ a + j = i /\ b + j \in 1 .. c - 1
        BY <1>1, <3>0, <3>3
      <4> HIDE DEF j
      <4>2. u[a + j] = f[b + j] /\ o[a + j] = r[b + j] /\ f[b + j] = r[b + j]
        BY <1>2, <2>5, <2>6, <4>1
      <4> QED
        BY <3>1, <4>1, <4>2
    <3> QED
      BY <1>1, <3>0, <3>2, <3>3
  <2>16. u = g
    BY <2>6, <2>9, <2>14, <2>15, SameElements
  <2> QED
    BY <2>8, <2>13, <2>16 DEF u, g, f
<1> QED
  BY <1>2, <1>3, <1>4, <1>5, <1>6 DEF o

\* What is true of every path whose parent it is true of, and of p, is true below p.
LEMMA PathInduction ==
    ASSUME NEW T, NEW p \in Seq(Names), p \in T,
           \A r \in Seq(Names) : r # <<>> /\ IsPrefix(p, Front(r)) /\ Front(r) \in T => r \in T
    PROVE  \A r \in Seq(Names) : IsPrefix(p, r) => r \in T
<1> DEFINE S == {n \in Nat : \A r \in Seq(Names) : Len(r) = n /\ IsPrefix(p, r) => r \in T}
<1>1. ASSUME NEW r \in Seq(Names), IsPrefix(p, r), p # r,
             \A s \in Seq(Names) : Len(s) = Len(r) - 1 /\ IsPrefix(p, s) => s \in T
      PROVE  r \in T
  <2>1. r # <<>> /\ Front(r) \in Seq(Names) /\ IsPrefix(p, Front(r))
    BY <1>1, PrefixOfFront
  <2>2. Len(Front(r)) = Len(r) - 1
    BY <2>1, FrontLast
  <2> QED
    BY <1>1, <2>1, <2>2
<1>2. 0 \in S
  <2> SUFFICES ASSUME NEW r \in Seq(Names), Len(r) = 0, IsPrefix(p, r)
               PROVE  r \in T
    OBVIOUS
  <2>1. r = <<>>
    OBVIOUS
  <2> QED
    BY <2>1, PrefixOfFront, Zenon
<1>3. ASSUME NEW n \in S
      PROVE  n + 1 \in S
  <2> SUFFICES ASSUME NEW r \in Seq(Names), Len(r) = n + 1, IsPrefix(p, r)
               PROVE  r \in T
    OBVIOUS
  <2>0. n \in Nat
    OBVIOUS
  <2>1. Len(r) - 1 = n
    <3>1. \A l : l = n + 1 => l - 1 = n
      BY <2>0
    <3> QED
      BY <3>1
  <2>2. \A s \in Seq(Names) : Len(s) = Len(r) - 1 /\ IsPrefix(p, s) => s \in T
    BY <2>1
  <2> QED
    BY <1>1, <2>2
<1>4. \A n \in Nat : n \in S
  <2>1. S \subseteq Nat
    OBVIOUS
  <2> HIDE DEF S
  <2> QED
    BY <1>2, <1>3, <2>1, SetInduction
<1> QED
  <2> SUFFICES ASSUME NEW r \in Seq(Names), IsPrefix(p, r)
               PROVE  r \in T
    OBVIOUS
  <2>1. Len(r) \in Nat
    OBVIOUS
  <2> QED
    BY <1>4, <2>1

\* What is true of the root, and of every path whose parent it is true of, is true.
LEMMA AllPaths ==
    ASSUME NEW T, <<>> \in T, \A r \in Seq(Names) : r # <<>> /\ Front(r) \in T => r \in T
    PROVE  \A r \in Seq(Names) : r \in T
<1>1. \A r \in Seq(Names) : IsPrefix(<<>>, r)
  BY DEF IsPrefix
<1>2. <<>> \in Seq(Names)
  OBVIOUS
<1> QED
  BY <1>1, <1>2, PathInduction, Zenon

-----------------------------------------------------------------------------
(* The paths of the store *)

\* What a path leads to.
LEMMA GoodPaths ==
    ASSUME Good, NEW p \in Seq(Names)
    PROVE  /\ StoredAt(<<>>) = Root
           /\ p # <<>> => /\ Front(p) \in Seq(Names) /\ Last(p) \in Names
                          /\ StoredAt(p) = Kid(edges, StoredAt(Front(p)), Last(p))
           /\ p # <<>> /\ StoredAt(p) # NoId =>
                 /\ StoredAt(p) \in DOMAIN inodes /\ StoredAt(p) # Root
                 /\ inodes[StoredAt(p)].parent = StoredAt(Front(p)) /\ inodes[StoredAt(p)].name = Last(p)
                 /\ StoredAt(Front(p)) # NoId
                 /\ StoredAt(Front(p)) \in DOMAIN inodes /\ inodes[StoredAt(Front(p))].isdir
                 /\ <<StoredAt(Front(p)), Last(p)>> \in DOMAIN edges
                 /\ edges[<<StoredAt(Front(p)), Last(p)>>] = StoredAt(p)
<1>1. Types /\ Numbers /\ Ids /\ EdgesSound /\ NoId \notin DOMAIN inodes
  BY DEF Good, Rooted
<1> QED
  BY <1>1, StoredAtFacts

\* An inode is at one path.
LEMMA UniquePaths ==
    ASSUME Good, NEW p \in Seq(Names), NEW q \in Seq(Names), StoredAt(p) = StoredAt(q), StoredAt(p) # NoId
    PROVE  p = q
<1>1. Types /\ Numbers /\ Ids /\ EdgesSound /\ NoId \notin DOMAIN inodes
  BY DEF Good, Rooted
<1> QED
  BY <1>1, PathsAreUnique

\* Below what is not there, there is nothing.
LEMMA NothingBelow ==
    ASSUME Good, NEW p \in Seq(Names), StoredAt(p) = NoId
    PROVE  \A r \in Seq(Names) : IsPrefix(p, r) => StoredAt(r) = NoId
<1> DEFINE T == {r \in Seq(Names) : StoredAt(r) = NoId}
<1>1. p \in T
  OBVIOUS
<1>2. \A r \in Seq(Names) : r # <<>> /\ IsPrefix(p, Front(r)) /\ Front(r) \in T => r \in T
  BY GoodPaths, Zenon
<1>3. \A r \in Seq(Names) : IsPrefix(p, r) => r \in T
  <2> HIDE DEF T
  <2> QED
    BY <1>1, <1>2, PathInduction
<1> QED
  BY <1>3

\* A path passes one edge after the other, none twice.
LEMMA PathLength ==
    ASSUME Good, NEW p \in Seq(Names), StoredAt(p) # NoId
    PROVE  Len(p) <= Cardinality(DOMAIN edges)
<1> DEFINE n == Len(p)
           s(i) == SubSeq(p, 1, i)
           f == [i \in 1 .. n |-> <<StoredAt(s(i - 1)), p[i]>>]
<1>1. n \in Nat
  OBVIOUS
<1>2. ASSUME NEW i \in 0 .. n
      PROVE  s(i) \in Seq(Names) /\ Len(s(i)) = i /\ StoredAt(s(i)) # NoId
  <2>1. s(i) \in Seq(Names) /\ Len(s(i)) = i
    OBVIOUS
  <2>2. IsPrefix(s(i), p)
    BY <2>1 DEF IsPrefix
  <2> HIDE DEF s
  <2> QED
    BY <2>1, <2>2, NothingBelow
<1>3. ASSUME NEW i \in 1 .. n
      PROVE  f[i] \in DOMAIN edges
  <2>1. i \in 0 .. n /\ i - 1 \in 0 .. n
    BY <1>1
  <2>2. s(i) # <<>> /\ Front(s(i)) = s(i - 1) /\ Last(s(i)) = p[i]
    <3>1. Len(s(i)) = i /\ i # 0
      BY <1>2, <2>1
    <3>2. s(i) # <<>>
      BY <3>1
    <3>3. Front(s(i)) = s(i - 1)
      BY <3>1 DEF Front
    <3>4. Last(s(i)) = p[i]
      BY <3>1 DEF Last
    <3> QED
      BY <3>2, <3>3, <3>4
  <2>3. s(i) \in Seq(Names) /\ StoredAt(s(i)) # NoId
    BY <1>2, <2>1
  <2> HIDE DEF s
  <2>4. <<StoredAt(Front(s(i))), Last(s(i))>> \in DOMAIN edges
    BY <2>2, <2>3, GoodPaths
  <2> QED
    BY <2>2, <2>4
<1>4. ASSUME NEW i \in 1 .. n, NEW j \in 1 .. n, f[i] = f[j]
      PROVE  i = j
  <2>1. i - 1 \in 0 .. n /\ j - 1 \in 0 .. n
    BY <1>1
  <2>2. /\ s(i - 1) \in Seq(Names) /\ Len(s(i - 1)) = i - 1 /\ StoredAt(s(i - 1)) # NoId
        /\ s(j - 1) \in Seq(Names) /\ Len(s(j - 1)) = j - 1
    BY <1>2, <2>1
  <2> HIDE DEF s
  <2>3. StoredAt(s(i - 1)) = StoredAt(s(j - 1))
    BY <1>4
  <2>4. s(i - 1) = s(j - 1)
    BY <2>2, <2>3, UniquePaths
  <2>5. i - 1 = j - 1
    BY <2>2, <2>4
  <2> QED
    BY <2>5
<1>5. f \in Injection(1 .. n, DOMAIN edges)
  <2>1. f \in [1 .. n -> DOMAIN edges]
    BY <1>3
  <2> QED
    BY <1>4, <2>1 DEF Injection, IsInjective
<1>6. Cardinality(1 .. n) <= Cardinality(DOMAIN edges)
  <2>1. IsFiniteSet(DOMAIN edges)
    BY DEF Good
  <2> HIDE DEF f, n
  <2> QED
    BY <1>5, <2>1, FS_Injection
<1>7. Cardinality(1 .. n) = n
  <2> HIDE DEF n
  <2> QED
    BY <1>1, FS_Interval
<1> QED
  BY <1>6, <1>7

\* The tree of the store: the paths that lead somewhere, with the attributes of what
\* is there.
View ==
    /\ DurableTree = [p \in DOMAIN DurableTree |-> DurableTree[p]]
    /\ \A p : p \in DOMAIN DurableTree <=> p \in Seq(Names) /\ StoredAt(p) # NoId
    /\ \A p \in DOMAIN DurableTree :
          DurableTree[p] = IF p = <<>> THEN [isdir |-> TRUE, size |-> 0, done |-> TRUE] ELSE Attributes(StoredAt(p))

\* DurableTree, which takes paths up to a bound, has every path that leads somewhere:
\* the store is finite and has no cycle, so no path is longer than the edges are many.
LEMMA ViewHolds == Good => View
<1> SUFFICES ASSUME Good
             PROVE  View
  OBVIOUS
<1>1. Cardinality(DOMAIN edges) \in Nat
  BY FS_CardinalityType DEF Good
<1>2. \A p : p \in BoundedSeq(Names, Cardinality(DOMAIN edges)) <=>
               p \in Seq(Names) /\ Len(p) <= Cardinality(DOMAIN edges)
  BY <1>1, BoundedSeqFacts
<1>3. \A p : p \in StoredPaths <=> p \in Seq(Names) /\ StoredAt(p) # NoId
  BY <1>2, PathLength DEF StoredPaths
<1> QED
  BY <1>3 DEF View, DurableTree

-----------------------------------------------------------------------------
(* Operations on paths *)

\* Every inode is somewhere: the inodes that no path leads to would have all their
\* parents among them.
LEMMA EveryInodeHasAPath ==
    ASSUME Good, NEW id \in DOMAIN inodes
    PROVE  \E p \in Seq(Names) : StoredAt(p) = id
<1> DEFINE S == {i \in DOMAIN inodes \ {Root} : ~\E p \in Seq(Names) : StoredAt(p) = i}
<1>0. <<>> \in Seq(Names) /\ StoredAt(<<>>) = Root
  BY WalkStep DEF StoredAt
<1>1. ASSUME NEW i \in S
      PROVE  inodes[i].parent \in S
  <2> DEFINE d == inodes[i].parent
             n == inodes[i].name
  <2>1. <<d, n>> \in DOMAIN edges /\ edges[<<d, n>>] = i
    BY DEF Good, InodesSound
  <2> HIDE DEF d, n
  <2>2. n \in Names /\ d \in DOMAIN inodes
    BY <2>1 DEF Good, Types, EdgesSound
  <2>3. ASSUME NEW p \in Seq(Names), StoredAt(p) = d
        PROVE  FALSE
    <3> DEFINE t == Append(p, n)
    <3>1. t \in Seq(Names) /\ t # <<>> /\ Front(t) = p /\ Last(t) = n
      BY <2>2, FrontOfAppend
    <3> HIDE DEF t
    <3>2. StoredAt(t) = i
      BY <2>1, <2>3, <3>1, GoodPaths DEF Kid
    <3> QED
      BY <3>1, <3>2
  <2>4. d # Root
    BY <1>0, <2>3, Zenon
  <2> QED
    BY <2>2, <2>3, <2>4 DEF d
<1>2. S = {}
  <2> HIDE DEF S
  <2>1. S \in SUBSET (DOMAIN inodes \ {Root})
    BY DEF S
  <2> QED
    BY <1>1, <2>1 DEF Good, NoCycle
<1>3. CASE id = Root
  BY <1>0, <1>3, Zenon
<1>4. CASE id # Root
  BY <1>2, <1>4
<1> QED
  BY <1>3, <1>4

\* What is below id are the inodes at the paths that begin with that of id.
LEMMA SubtreeIsBelow ==
    ASSUME Good, up, NEW p \in Seq(Names), StoredAt(p) # NoId
    PROVE  \A r \in Seq(Names) : StoredAt(r) # NoId =>
              (StoredAt(r) \in Subtree(StoredAt(p)) <=> IsPrefix(p, r))
<1> DEFINE id == StoredAt(p)
<1>4. ASSUME NEW r \in Seq(Names), StoredAt(r) # NoId, StoredAt(r) \in Subtree(id)
      PROVE  IsPrefix(p, r)
  <2>1. PICK s \in Seq(Names) : IsPrefix(p, s) /\ StoredAt(s) = StoredAt(r)
    BY <1>4, SubtreeHasPaths DEF Good
  <2>2. s = r
    BY <1>4, <2>1, UniquePaths
  <2> QED
    BY <2>1, <2>2
<1> DEFINE T == {r \in Seq(Names) : StoredAt(r) # NoId => StoredAt(r) \in Subtree(id)}
<1>5. p \in T
  BY SubtreeFacts
<1>6. ASSUME NEW r \in Seq(Names), r # <<>>, Front(r) \in T
      PROVE  r \in T
  <2> SUFFICES ASSUME StoredAt(r) # NoId
               PROVE  StoredAt(r) \in Subtree(id)
    OBVIOUS
  <2> DEFINE d == StoredAt(Front(r))
             n == Last(r)
  <2>1. /\ d # NoId /\ d \in DOMAIN inodes /\ inodes[d].isdir
        /\ <<d, n>> \in DOMAIN edges /\ edges[<<d, n>>] = StoredAt(r)
    BY <1>6, GoodPaths
  <2>2. d \in Subtree(id)
    BY <1>6, <2>1
  <2> HIDE DEF d, n, id
  <2>3. d \in DOMAIN dirs /\ n \in DOMAIN dirs[d].kids /\ dirs[d].kids[n] = StoredAt(r)
    BY <2>1 DEF Good, Mem, IsDir
  <2> QED
    BY <2>2, <2>3, SubtreeFacts DEF Closed
<1>7. \A r \in Seq(Names) : IsPrefix(p, r) => r \in T
  <2> HIDE DEF T
  <2> QED
    BY <1>5, <1>6, PathInduction
<1> QED
  BY <1>4, <1>7

\* A path and its parent, before and after a step.
LEMMA ParentPath ==
    ASSUME NEW r \in Seq(Names), r # <<>>
    PROVE  /\ StoredAt(r) = Kid(edges, StoredAt(Front(r)), Last(r))
           /\ StoredAt(r)' = Kid(edges', StoredAt(Front(r))', Last(r))
           /\ Front(r) \in Seq(Names) /\ Last(r) \in Names /\ r = Append(Front(r), Last(r)) /\ Front(r) # r
<1>1. /\ Front(r) \in Seq(Names) /\ Last(r) \in Names /\ r = Append(Front(r), Last(r))
      /\ Len(r) \in Nat \ {0} /\ Len(Front(r)) = Len(r) - 1
  BY FrontLast
<1>2. Len(Front(r)) # Len(r)
  <2>1. \A n \in Nat : n - 1 # n
    OBVIOUS
  <2> QED
    BY <1>1, <2>1
<1>3. Front(r) # r
  BY <1>2
<1>4. /\ StoredAt(r) = Kid(edges, StoredAt(Front(r)), Last(r))
      /\ StoredAt(r)' = Kid(edges', StoredAt(Front(r))', Last(r))
  BY WalkStep, Zenon DEF StoredAt
<1> QED
  BY <1>1, <1>3, <1>4

\* Where paths lead after a new inode: where they led before, and to it.
LEMMA WalksAfterNew ==
    ASSUME Good, NEW pid, NEW name, NEW isdir \in BOOLEAN, MakesNew(pid, name, isdir),
           NEW p \in Seq(Names), p # <<>>, StoredAt(Front(p)) = pid, Last(p) = name
    PROVE  /\ StoredAt(p) = NoId
           /\ \A r \in Seq(Names) : StoredAt(r)' = IF r = p THEN nextId ELSE StoredAt(r)
<1>1. Types /\ Numbers /\ Ids /\ Mem /\ Rooted
  BY DEF Good
<1>2. /\ DOMAIN edges' = DOMAIN edges \cup {<<pid, name>>}
      /\ \A e \in DOMAIN edges : e # <<pid, name>> => edges'[e] = edges[e]
      /\ edges'[<<pid, name>>] = nextId
  BY <1>1, MakesNewStore, Zenon
<1>3. /\ nextId \notin Known /\ \A n : <<nextId, n>> \notin DOMAIN edges
      /\ up /\ IsDir(pid) /\ name \notin DOMAIN dirs[pid].kids
  BY <1>1, NextIdIsFresh DEF MakesNew
<1>4. pid \in DOMAIN inodes /\ <<pid, name>> \notin DOMAIN edges
  BY <1>1, <1>3 DEF Mem
<1>5. pid # NoId /\ pid # nextId
  BY <1>1, <1>3, <1>4 DEF Rooted, Ids
<1>6. StoredAt(p) = NoId
  BY <1>4, GoodPaths DEF Kid
<1>7. \A d, n : Kid(edges', d, n) = IF d = pid /\ n = name THEN nextId ELSE Kid(edges, d, n)
  BY <1>2, <1>4 DEF Kid
<1>8. \A n : Kid(edges, nextId, n) = NoId /\ Kid(edges, NoId, n) = NoId
  <2>1. \A n : <<NoId, n>> \notin DOMAIN edges
    BY <1>1 DEF Ids, Rooted
  <2> QED
    BY <1>3, <2>1 DEF Kid
<1> DEFINE T == {r \in Seq(Names) : StoredAt(r)' = IF r = p THEN nextId ELSE StoredAt(r)}
<1>9. <<>> \in T
  <2>1. StoredAt(<<>>) = Root /\ StoredAt(<<>>)' = Root
    BY WalkStep DEF StoredAt
  <2> QED
    BY <2>1
<1>10. ASSUME NEW r \in Seq(Names), r # <<>>, Front(r) \in T
       PROVE  r \in T
  <2> DEFINE s == Front(r)
             n == Last(r)
  <2>1. /\ StoredAt(r) = Kid(edges, StoredAt(s), n) /\ StoredAt(r)' = Kid(edges', StoredAt(s)', n)
        /\ s \in Seq(Names) /\ n \in Names /\ r = Append(s, n) /\ s # r
    BY <1>10, ParentPath
  <2>2. p = Append(Front(p), name) /\ Front(p) \in Seq(Names)
    BY FrontLast
  <2>3. CASE s = p
    <3>1. StoredAt(s)' = nextId /\ StoredAt(s) = NoId
      BY <1>6, <1>10, <2>3
    <3>2. StoredAt(r) = NoId /\ StoredAt(r)' = NoId
      BY <1>5, <1>7, <1>8, <2>1, <3>1
    <3>3. r # p
      BY <2>1, <2>3
    <3> QED
      BY <3>2, <3>3
  <2>4. CASE s # p
    <3>1. StoredAt(s)' = StoredAt(s)
      BY <1>10, <2>4
    <3>2. CASE StoredAt(s) = pid /\ n = name
      <4>1. s = Front(p)
        BY <1>5, <2>1, <2>2, <3>2, UniquePaths
      <4>2. r = p
        BY <2>1, <2>2, <3>2, <4>1
      <4> QED
        BY <1>7, <2>1, <3>1, <3>2, <4>2
    <3>3. CASE ~(StoredAt(s) = pid /\ n = name)
      <4>1. r # p
        BY <3>3
      <4> QED
        BY <1>7, <2>1, <3>1, <3>3, <4>1
    <3> QED
      BY <3>2, <3>3
  <2> QED
    BY <2>3, <2>4
<1>11. \A r \in Seq(Names) : r \in T
  <2> HIDE DEF T
  <2> QED
    BY <1>9, <1>10, AllPaths
<1> QED
  BY <1>6, <1>11

\* Where paths lead after Delete: no longer to what was below the path deleted.
LEMMA WalksAfterDelete ==
    ASSUME Good, NEW p \in Paths, NEW rec \in BOOLEAN, Delete(p, rec)
    PROVE  /\ p \in Seq(Names) /\ p # <<>> /\ StoredAt(p) # NoId
           /\ \A r \in Seq(Names) : StoredAt(r)' = IF IsPrefix(p, r) THEN NoId ELSE StoredAt(r)
           /\ \A i \in DOMAIN inodes' : inodes'[i] = inodes[i]
           /\ \A r \in Seq(Names) : r # <<>> /\ StoredAt(r)' # NoId => StoredAt(r)' \in DOMAIN inodes'
<1> DEFINE id == StoredAt(p)
           tree == Subtree(id)
<1>0. Types /\ Numbers /\ Ids /\ Mem /\ Rooted /\ EdgesSound /\ InodesSound /\ NoCycle
  BY DEF Good
<1>1. DeleteEffect(p, Subtree(Resolve(p)), OwnParent(p))
  BY <1>0, DeleteFacts
<1>2. up /\ p \in Seq(Names) /\ p # <<>> /\ Resolve(p) # NoId
  BY <1>1 DEF DeleteEffect
<1>3. Resolve(p) = id
  BY <1>0, <1>2, ResolveIsStoredAt
<1>4. \A e \in DOMAIN edges : e \in DOMAIN edges' <=> edges[e] \notin tree
  BY <1>0, <1>3, DeletedEdges
<1>5. /\ \A i \in DOMAIN inodes' : inodes'[i] = inodes[i]
      /\ DOMAIN inodes' = DOMAIN inodes \ tree
      /\ DOMAIN edges' \subseteq DOMAIN edges
      /\ \A e \in DOMAIN edges' : edges'[e] = edges[e]
  BY <1>1, <1>3 DEF DeleteEffect
<1>6. \A r \in Seq(Names) : StoredAt(r) # NoId => (StoredAt(r) \in tree <=> IsPrefix(p, r))
  BY <1>2, <1>3, SubtreeIsBelow
<1> HIDE DEF id, tree
<1>7. \A n : <<NoId, n>> \notin DOMAIN edges
  BY <1>0 DEF Ids, Rooted
<1> DEFINE T == {r \in Seq(Names) : StoredAt(r)' = IF IsPrefix(p, r) THEN NoId ELSE StoredAt(r)}
<1>8. <<>> \in T
  <2>1. StoredAt(<<>>) = Root /\ StoredAt(<<>>)' = Root
    BY WalkStep DEF StoredAt
  <2>2. <<>> \in Seq(Names) /\ ~IsPrefix(p, <<>>)
    <3>1. Len(p) \in Nat \ {0} /\ Len(<<>>) = 0
      BY <1>2
    <3> QED
      BY <3>1 DEF IsPrefix
  <2> QED
    BY <2>1, <2>2
<1>9. ASSUME NEW r \in Seq(Names), r # <<>>, Front(r) \in T
      PROVE  r \in T
  <2> DEFINE s == Front(r)
             n == Last(r)
  <2>1. /\ StoredAt(r) = Kid(edges, StoredAt(s), n) /\ StoredAt(r)' = Kid(edges', StoredAt(s)', n)
        /\ s \in Seq(Names) /\ n \in Names /\ r = Append(s, n) /\ s # r
    BY <1>9, ParentPath
  <2>2. CASE IsPrefix(p, s)
    <3>1. IsPrefix(p, r)
      BY <1>2, <1>9, <2>2, FrontIsPrefix
    <3>2. StoredAt(s)' = NoId
      BY <1>9, <2>2
    <3>3. StoredAt(r)' = NoId
      BY <1>5, <1>7, <2>1, <3>2 DEF Kid
    <3> QED
      BY <3>1, <3>3
  <2>3. CASE ~IsPrefix(p, s)
    <3>1. StoredAt(s)' = StoredAt(s)
      BY <1>9, <2>3
    <3> DEFINE e == <<StoredAt(s), n>>
    <3>2. CASE e \notin DOMAIN edges
      <4>1. StoredAt(r) = NoId /\ StoredAt(r)' = NoId
        BY <1>5, <2>1, <3>1, <3>2 DEF Kid
      <4> QED
        BY <4>1
    <3>3. CASE e \in DOMAIN edges
      <4>1. StoredAt(r) = edges[e]
        BY <2>1, <3>3 DEF Kid
      <4>2. edges[e] # NoId
        BY <1>0, <3>3 DEF Types
      <4>3. e \in DOMAIN edges' <=> ~IsPrefix(p, r)
        BY <1>4, <1>6, <3>3, <4>1, <4>2
      <4>4. StoredAt(r)' = IF e \in DOMAIN edges' THEN edges'[e] ELSE NoId
        BY <2>1, <3>1 DEF Kid
      <4> QED
        BY <1>5, <4>1, <4>3, <4>4
    <3> QED
      BY <3>2, <3>3
  <2> QED
    BY <2>2, <2>3
<1>10. \A r \in Seq(Names) : r \in T
  <2> HIDE DEF T
  <2> QED
    BY <1>8, <1>9, AllPaths
<1>11. ASSUME NEW r \in Seq(Names), r # <<>>, StoredAt(r)' # NoId
       PROVE  StoredAt(r)' \in DOMAIN inodes'
  <2>1. StoredAt(r)' = StoredAt(r) /\ StoredAt(r) # NoId /\ ~IsPrefix(p, r)
    BY <1>10, <1>11
  <2>2. StoredAt(r) \in DOMAIN inodes
    BY <1>11, <2>1, GoodPaths, Zenon
  <2> QED
    BY <1>5, <1>6, <2>1, <2>2
<1> QED
  BY <1>2, <1>3, <1>5, <1>10, <1>11 DEF id

\* Where paths lead after Rename: what was below p is below q.
RenamedPaths(p, q) ==
    /\ p \in Seq(Names) /\ p # <<>> /\ StoredAt(p) # NoId
    /\ q \in Seq(Names) /\ q # <<>> /\ StoredAt(q) = NoId /\ ~IsPrefix(p, q)
    /\ StoredAt(Front(q)) \in DOMAIN inodes /\ inodes[StoredAt(Front(q))].isdir
    /\ \A r \in Seq(Names) :
          StoredAt(r)' = IF IsPrefix(q, r) THEN StoredAt(Onto(p, q, r))
                         ELSE IF IsPrefix(p, r) THEN NoId ELSE StoredAt(r)
    /\ DOMAIN inodes' = DOMAIN inodes
    /\ \A i \in DOMAIN inodes : /\ inodes'[i].isdir = inodes[i].isdir /\ inodes'[i].size = inodes[i].size
                                 /\ inodes'[i].done = inodes[i].done

\* After a rename the paths below the old name are below the new one, and no others moved.
LEMMA WalksAfterRename ==
    ASSUME Good, kernel, NEW p \in Paths, NEW q \in Paths, Rename(p, q)
    PROVE  RenamedPaths(p, q)
<1>0. Types /\ Numbers /\ Ids /\ Mem /\ Rooted /\ EdgesSound /\ InodesSound /\ NoCycle
  BY DEF Good
<1>1. PICK id, pid, name, opid, oname, inode :
         /\ id = Resolve(p) /\ pid = ParentOf(q) /\ name = Last(q) /\ opid = OwnParent(p) /\ oname = OwnName(p)
         /\ inode = Moved(IF id \in DOMAIN dirs THEN dirs[id].inode ELSE inodes[id], pid, name)
         /\ RenameEffect(p, q, id, pid, name, opid, oname, inode)
  BY <1>0, RenameFacts
<1>2. /\ up /\ p \in Seq(Names) /\ p # <<>> /\ q \in Seq(Names) /\ q # <<>> /\ ~IsPrefix(p, q)
      /\ id # NoId /\ IsDir(pid) /\ name \notin DOMAIN dirs[pid].kids
      /\ DOMAIN inodes' = DOMAIN inodes \cup {id}
      /\ inodes'[id] = inode /\ \A i \in DOMAIN inodes : i # id => inodes'[i] = inodes[i]
  BY <1>1 DEF RenameEffect
<1>3. /\ \A e : e \in DOMAIN edges' <=> (e \in DOMAIN edges /\ e # <<opid, oname>>) \/ e = <<pid, name>>
      /\ \A e \in DOMAIN edges' : edges'[e] = IF e = <<pid, name>> THEN id ELSE edges[e]
  BY <1>1 DEF RenameEffect
<1>4. \A s : Resolve(s) = StoredAt(s)
  BY <1>0, <1>2, ResolveIsStoredAt
<1>5. /\ id \in DOMAIN inodes /\ id # Root
      /\ opid = ParentOf(p) /\ oname = Last(p)
      /\ <<opid, oname>> \in DOMAIN edges /\ edges[<<opid, oname>>] = id
  BY <1>0, <1>1, <1>2, ResolvedFacts, Zenon
<1>6. /\ id = StoredAt(p) /\ pid = StoredAt(Front(q)) /\ name = Last(q)
      /\ opid = StoredAt(Front(p)) /\ oname = Last(p)
  BY <1>1, <1>4, <1>5 DEF ParentOf
<1>7. pid \in DOMAIN inodes /\ inodes[pid].isdir /\ <<pid, name>> \notin DOMAIN edges /\ pid # NoId
  BY <1>0, <1>2 DEF Mem, Rooted
<1>8. opid # NoId
  BY <1>0, <1>5 DEF Ids, Rooted
<1>9. StoredAt(q) = NoId
  BY <1>2, <1>6, <1>7, ParentPath, Zenon DEF Kid
<1>10. \A d, n : Kid(edges', d, n) = IF d = pid /\ n = name THEN id
                                    ELSE IF d = opid /\ n = oname THEN NoId ELSE Kid(edges, d, n)
  BY <1>3 DEF Kid
<1>11. \A n : Kid(edges', NoId, n) = NoId /\ Kid(edges, NoId, n) = NoId
  <2>1. \A n : <<NoId, n>> \notin DOMAIN edges
    BY <1>0 DEF Ids, Rooted
  <2> QED
    BY <1>7, <1>8, <1>10, <2>1 DEF Kid
<1>12. /\ Front(p) \in Seq(Names) /\ p = Append(Front(p), oname)
       /\ Front(q) \in Seq(Names) /\ q = Append(Front(q), name)
  BY <1>2, <1>6, FrontLast, Zenon
<1>13. \A s \in Seq(Names) : /\ StoredAt(s) = pid => s = Front(q)
                             /\ StoredAt(s) = opid => s = Front(p)
  BY <1>6, <1>7, <1>8, <1>12, UniquePaths
<1>14. ~IsPrefix(p, Front(q)) /\ ~IsPrefix(q, Front(q)) /\ ~IsPrefix(p, Front(p))
  BY <1>2, FrontIsPrefix
<1> DEFINE New(r) == IF IsPrefix(q, r) THEN StoredAt(Onto(p, q, r))
                     ELSE IF IsPrefix(p, r) THEN NoId ELSE StoredAt(r)
           T == {r \in Seq(Names) : StoredAt(r)' = New(r)}
<1>15. <<>> \in T
  <2>1. StoredAt(<<>>) = Root /\ StoredAt(<<>>)' = Root
    BY WalkStep DEF StoredAt
  <2>2. <<>> \in Seq(Names) /\ ~IsPrefix(p, <<>>) /\ ~IsPrefix(q, <<>>)
    <3>1. Len(p) \in Nat \ {0} /\ Len(q) \in Nat \ {0} /\ Len(<<>>) = 0
      BY <1>2
    <3> QED
      BY <3>1 DEF IsPrefix
  <2> QED
    BY <2>1, <2>2
<1>16. ASSUME NEW r \in Seq(Names), r # <<>>, Front(r) \in T
       PROVE  r \in T
  <2> DEFINE s == Front(r)
             n == Last(r)
             x == StoredAt(s)
  <2>1. /\ StoredAt(r) = Kid(edges, x, n) /\ StoredAt(r)' = Kid(edges', StoredAt(s)', n)
        /\ s \in Seq(Names) /\ n \in Names /\ r = Append(s, n)
    BY <1>16, ParentPath
  <2>2. StoredAt(s)' = New(s)
    BY <1>16
  <2>3. /\ IsPrefix(q, s) => IsPrefix(q, r) /\ q # r
        /\ IsPrefix(p, s) => IsPrefix(p, r)
        /\ IsPrefix(q, r) /\ q # r => IsPrefix(q, s)
        /\ IsPrefix(p, r) /\ p # r => IsPrefix(p, s)
    BY <1>2, <1>16, FrontIsPrefix, PrefixOfFront
  <2> SUFFICES StoredAt(r)' = New(r)
    OBVIOUS
  <2>4. CASE r = q
    <3>1. s = Front(q) /\ n = name
      BY <1>6, <2>4
    <3>2. StoredAt(s)' = pid
      BY <1>6, <1>14, <2>2, <3>1
    <3>3. StoredAt(r)' = id
      BY <1>10, <2>1, <3>1, <3>2
    <3>4. IsPrefix(q, r) /\ Onto(p, q, r) = p
      <4>1. IsPrefix(q, q)
        BY <1>2 DEF IsPrefix
      <4> QED
        BY <1>2, <2>4, <4>1, OntoFacts
    <3> QED
      BY <1>6, <3>3, <3>4
  <2>5. CASE r # q /\ IsPrefix(q, r)
    <3> DEFINE o == Onto(p, q, r)
               y == StoredAt(Onto(p, q, s))
    <3>1. IsPrefix(q, s)
      BY <2>3, <2>5
    <3>2. StoredAt(s)' = y
      BY <2>2, <3>1
    <3>3. o \in Seq(Names) /\ o # <<>> /\ Front(o) = Onto(p, q, s) /\ Last(o) = n
      BY <1>2, <1>16, <2>5, OntoFacts
    <3>4. Onto(p, q, s) \in Seq(Names) /\ IsPrefix(p, Onto(p, q, s))
      BY <1>2, <2>1, <3>1, OntoFacts
    <3>5. StoredAt(o) = Kid(edges, y, n)
      BY <3>3, ParentPath
    <3>6. y # pid /\ y # opid
      BY <1>13, <1>14, <3>4
    <3>7. Kid(edges', y, n) = Kid(edges, y, n)
      BY <1>10, <3>6
    <3> QED
      BY <2>1, <2>5, <3>2, <3>5, <3>7
  <2>6. CASE ~IsPrefix(q, r) /\ IsPrefix(p, s)
    <3>1. StoredAt(s)' = NoId /\ IsPrefix(p, r)
      BY <2>2, <2>3, <2>6
    <3> QED
      BY <1>11, <2>1, <2>6, <3>1
  <2>7. CASE ~IsPrefix(q, r) /\ ~IsPrefix(p, s) /\ r # q
    <3>1. StoredAt(s)' = x
      BY <2>2, <2>3, <2>7
    <3>2. CASE r = p
      <4>1. s = Front(p) /\ n = oname /\ x = opid
        BY <1>6, <3>2
      <4>2. ~(x = pid /\ n = name)
        BY <1>13, <2>1, <2>7, <4>1, <1>12
      <4>3. StoredAt(r)' = NoId
        BY <1>10, <2>1, <3>1, <4>1, <4>2
      <4>4. IsPrefix(p, r)
        BY <1>2, <3>2 DEF IsPrefix
      <4> QED
        BY <2>7, <4>3, <4>4
    <3>3. CASE r # p
      <4>1. ~IsPrefix(p, r)
        BY <2>3, <2>7, <3>3
      <4>2. ~(x = pid /\ n = name)
        BY <1>12, <1>13, <2>1, <2>7
      <4>3. ~(x = opid /\ n = oname)
        BY <1>12, <1>13, <2>1, <3>3, Zenon
      <4>4. StoredAt(r)' = StoredAt(r)
        BY <1>10, <2>1, <3>1, <4>2, <4>3
      <4> QED
        BY <2>7, <4>1, <4>4
    <3> QED
      BY <3>2, <3>3
  <2>8. IsPrefix(q, q)
    BY <1>2 DEF IsPrefix
  <2> QED
    BY <2>4, <2>5, <2>6, <2>7
<1>17. \A r \in Seq(Names) : r \in T
  <2> HIDE DEF T
  <2> QED
    BY <1>15, <1>16, AllPaths
<1>18. DOMAIN inodes' = DOMAIN inodes
  BY <1>2, <1>5, Zenon
<1>19. ASSUME NEW i \in DOMAIN inodes
       PROVE  /\ inodes'[i].isdir = inodes[i].isdir /\ inodes'[i].size = inodes[i].size
              /\ inodes'[i].done = inodes[i].done
  <2>1. CASE i # id
    BY <1>2, <2>1
  <2>2. CASE i = id
    <3>1. (IF id \in DOMAIN dirs THEN dirs[id].inode ELSE inodes[id]) = inodes[id]
      BY <1>0, <1>2 DEF Mem, Rooted
    <3>2. inodes'[id] = Moved(inodes[id], pid, name)
      BY <1>1, <1>2, <3>1
    <3>3. inodes[id] \in InodeRecord
      BY <1>0, <1>5 DEF Types
    <3> QED
      BY <2>2, <3>2, <3>3, Zenon DEF Moved, InodeRecord
  <2> QED
    BY <2>1, <2>2
<1> QED
  BY <1>2, <1>6, <1>7, <1>9, <1>17, <1>18, <1>19 DEF RenamedPaths

-----------------------------------------------------------------------------
(* Each operation is one of FileTree *)

\* The abstract specification's operators on sequences are these.
LEMMA SameOperators ==
    /\ \A s : Abstract!Front(s) = Front(s)
    /\ \A s, t : Abstract!IsPrefix(s, t) <=> IsPrefix(s, t)
  BY DEF Abstract!Front, Front, Abstract!IsPrefix, IsPrefix

\* At a path: the root, or an inode of the store.
LEMMA ViewAt ==
    ASSUME Good, View, NEW r \in DOMAIN DurableTree
    PROVE  /\ r \in Seq(Names) /\ StoredAt(r) # NoId
           /\ r = <<>> => DurableTree[r] = [isdir |-> TRUE, size |-> 0, done |-> TRUE]
           /\ r # <<>> => StoredAt(r) \in DOMAIN inodes /\ DurableTree[r] = Attributes(StoredAt(r))
  BY GoodPaths, Zenon DEF View

\* The making of an inode is a Create at its path.
LEMMA CreateStep ==
    ASSUME Good, View, View', NEW pid, NEW name, NEW isdir \in BOOLEAN, MakesNew(pid, name, isdir),
           NEW p \in Seq(Names), p # <<>>, StoredAt(Front(p)) = pid, Last(p) = name
    PROVE  /\ Abstract!Create(p, IF isdir THEN Abstract!Directory ELSE Abstract!NewFile)
           /\ p \in DOMAIN DurableTree'
<1> DEFINE attr == IF isdir THEN Abstract!Directory ELSE Abstract!NewFile
<1>1. StoredAt(p) = NoId /\ \A r \in Seq(Names) : StoredAt(r)' = IF r = p THEN nextId ELSE StoredAt(r)
  BY WalksAfterNew
<1>2. /\ \A i \in DOMAIN inodes : inodes'[i] = inodes[i]
      /\ inodes'[nextId] = Inode(pid, name, isdir)
  BY MakesNewStore, Zenon DEF Good
<1>3. nextId # NoId
  BY NextIdIsFresh DEF Good, MakesNew, Known
<1>4. DOMAIN DurableTree' = DOMAIN DurableTree \cup {p}
  <2>1. \A r : r \in DOMAIN DurableTree' <=> r \in Seq(Names) /\ StoredAt(r)' # NoId
    BY DEF View
  <2>2. \A r : r \in DOMAIN DurableTree <=> r \in Seq(Names) /\ StoredAt(r) # NoId
    BY DEF View
  <2> QED
    BY <1>1, <1>3, <2>1, <2>2, Zenon
<1>5. \A r \in DOMAIN DurableTree' :
         DurableTree'[r] = IF r = <<>> THEN [isdir |-> TRUE, size |-> 0, done |-> TRUE] ELSE Attributes(StoredAt(r))'
  BY DEF View
<1>6. ASSUME NEW r \in DOMAIN DurableTree
      PROVE  r # p /\ DurableTree'[r] = DurableTree[r]
  <2>1. /\ r \in Seq(Names) /\ StoredAt(r) # NoId
        /\ r = <<>> => DurableTree[r] = [isdir |-> TRUE, size |-> 0, done |-> TRUE]
        /\ r # <<>> => StoredAt(r) \in DOMAIN inodes /\ DurableTree[r] = Attributes(StoredAt(r))
    BY ViewAt
  <2>2. r # p /\ StoredAt(r)' = StoredAt(r) /\ r \in DOMAIN DurableTree'
    BY <1>1, <1>4, <2>1
  <2>3. r # <<>> => Attributes(StoredAt(r))' = Attributes(StoredAt(r))
    BY <1>2, <2>1, <2>2 DEF Attributes
  <2> QED
    BY <1>5, <2>1, <2>2, <2>3, Zenon
<1>7. p \in DOMAIN DurableTree' /\ DurableTree'[p] = attr
  <2>1. p \in DOMAIN DurableTree' /\ DurableTree'[p] = Attributes(StoredAt(p))'
    BY <1>4, <1>5
  <2>2. StoredAt(p)' = nextId
    BY <1>1
  <2>3. Attributes(StoredAt(p))' = [isdir |-> isdir, size |-> 0, done |-> isdir]
    BY <1>2, <2>2 DEF Attributes, Inode
  <2> QED
    BY <2>1, <2>3, Zenon DEF Abstract!Directory, Abstract!NewFile
<1>8. DurableTree' = [r \in DOMAIN DurableTree \cup {p} |-> IF r = p THEN attr ELSE DurableTree[r]]
  <2>1. DurableTree' = [r \in DOMAIN DurableTree' |-> DurableTree'[r]]
    BY DEF View
  <2> HIDE DEF attr
  <2> QED
    BY <1>4, <1>6, <1>7, <2>1
<1>9. Abstract!Free(p)
  <2>1. p \notin DOMAIN DurableTree
    BY <1>6
  <2>2. IsDir(pid) /\ up
    BY DEF MakesNew
  <2>3. pid \in DOMAIN inodes /\ inodes[pid].isdir /\ pid # NoId
    BY <2>2 DEF Good, Mem, Rooted
  <2>4. Front(p) \in Seq(Names)
    BY FrontLast
  <2>5. Front(p) \in DOMAIN DurableTree
    BY <2>3, <2>4 DEF View
  <2>6. DurableTree[Front(p)].isdir
    <3>1. CASE Front(p) = <<>>
      BY <2>5, <3>1, ViewAt
    <3>2. CASE Front(p) # <<>>
      <4>1. DurableTree[Front(p)] = Attributes(pid)
        BY <2>5, <3>2, ViewAt
      <4> QED
        BY <2>3, <4>1 DEF Attributes
    <3> QED
      BY <3>1, <3>2
  <2> QED
    BY <2>1, <2>5, <2>6, SameOperators DEF Abstract!Free
<1> QED
  BY <1>7, <1>8, <1>9 DEF Abstract!Create

\* Delete is an Unlink.
LEMMA UnlinkStep ==
    ASSUME Good, View, View', NEW p \in Paths, NEW rec \in BOOLEAN, Delete(p, rec)
    PROVE  Abstract!Unlink(p) /\ p \in DOMAIN DurableTree
<1>1. /\ p \in Seq(Names) /\ p # <<>> /\ StoredAt(p) # NoId
      /\ \A r \in Seq(Names) : StoredAt(r)' = IF IsPrefix(p, r) THEN NoId ELSE StoredAt(r)
      /\ \A i \in DOMAIN inodes' : inodes'[i] = inodes[i]
      /\ \A r \in Seq(Names) : r # <<>> /\ StoredAt(r)' # NoId => StoredAt(r)' \in DOMAIN inodes'
  BY WalksAfterDelete
<1>2. p \in DOMAIN DurableTree
  BY <1>1 DEF View
<1>3. Abstract!Below(p) = {r \in DOMAIN DurableTree : IsPrefix(p, r)}
  BY SameOperators DEF Abstract!Below
<1>4. DOMAIN DurableTree' = DOMAIN DurableTree \ Abstract!Below(p)
  <2>1. \A r : r \in DOMAIN DurableTree' <=> r \in Seq(Names) /\ StoredAt(r)' # NoId
    BY DEF View
  <2>2. \A r : r \in DOMAIN DurableTree <=> r \in Seq(Names) /\ StoredAt(r) # NoId
    BY DEF View
  <2> QED
    BY <1>1, <1>3, <2>1, <2>2, Zenon
<1>5. ASSUME NEW r \in DOMAIN DurableTree'
      PROVE  DurableTree'[r] = DurableTree[r]
  <2>1. DurableTree'[r] = IF r = <<>> THEN [isdir |-> TRUE, size |-> 0, done |-> TRUE] ELSE Attributes(StoredAt(r))'
    BY DEF View
  <2>2. r \in DOMAIN DurableTree /\ ~IsPrefix(p, r)
    BY <1>3, <1>4
  <2>3. /\ r \in Seq(Names) /\ StoredAt(r) # NoId
        /\ r = <<>> => DurableTree[r] = [isdir |-> TRUE, size |-> 0, done |-> TRUE]
        /\ r # <<>> => DurableTree[r] = Attributes(StoredAt(r))
    BY <2>2, ViewAt
  <2>4. StoredAt(r)' = StoredAt(r)
    BY <1>1, <2>2, <2>3
  <2>5. r # <<>> => Attributes(StoredAt(r))' = Attributes(StoredAt(r))
    BY <1>1, <2>3, <2>4 DEF Attributes
  <2> QED
    BY <2>1, <2>3, <2>5
<1>6. DurableTree' = [r \in DOMAIN DurableTree' |-> DurableTree'[r]]
  BY DEF View
<1>7. DurableTree' = [r \in DOMAIN DurableTree \ Abstract!Below(p) |-> DurableTree[r]]
  BY <1>4, <1>5, <1>6
<1> QED
  BY <1>1, <1>2, <1>7 DEF Abstract!Unlink

\* Rename is a Move.
LEMMA MoveStep ==
    ASSUME Good, View, View', kernel, NEW p \in Paths, NEW q \in Paths, Rename(p, q)
    PROVE  Abstract!Move(p, q) /\ p \in DOMAIN DurableTree /\ q \in DOMAIN DurableTree'
<1>0. RenamedPaths(p, q)
  BY WalksAfterRename
<1>1. /\ p \in Seq(Names) /\ p # <<>> /\ StoredAt(p) # NoId
      /\ q \in Seq(Names) /\ q # <<>> /\ StoredAt(q) = NoId /\ ~IsPrefix(p, q)
      /\ StoredAt(Front(q)) \in DOMAIN inodes /\ inodes[StoredAt(Front(q))].isdir
  BY <1>0 DEF RenamedPaths
<1>2. \A r \in Seq(Names) :
         StoredAt(r)' = IF IsPrefix(q, r) THEN StoredAt(Onto(p, q, r))
                        ELSE IF IsPrefix(p, r) THEN NoId ELSE StoredAt(r)
  BY <1>0 DEF RenamedPaths
<1>3. \A i \in DOMAIN inodes : /\ inodes'[i].isdir = inodes[i].isdir /\ inodes'[i].size = inodes[i].size
                              /\ inodes'[i].done = inodes[i].done
  BY <1>0 DEF RenamedPaths
<1> DEFINE B == {r \in DOMAIN DurableTree : IsPrefix(p, r)}
           D == (DOMAIN DurableTree \ B) \cup {Onto(q, p, r) : r \in B}
<1>4. Abstract!Below(p) = B
  BY SameOperators DEF Abstract!Below
<1>5. \A r : r \in DOMAIN DurableTree' <=> r \in Seq(Names) /\ StoredAt(r)' # NoId
  BY DEF View
<1>6. \A r : r \in DOMAIN DurableTree <=> r \in Seq(Names) /\ StoredAt(r) # NoId
  BY DEF View
<1>7. \A r \in DOMAIN DurableTree : ~IsPrefix(q, r)
  BY <1>1, <1>6, NothingBelow
<1>8. \A r \in Seq(Names) : IsPrefix(q, r) =>
         Onto(p, q, r) \in Seq(Names) /\ IsPrefix(p, Onto(p, q, r)) /\ Onto(q, p, Onto(p, q, r)) = r
  BY <1>1, OntoFacts
<1>9. \A r \in Seq(Names) : IsPrefix(p, r) =>
         Onto(q, p, r) \in Seq(Names) /\ IsPrefix(q, Onto(q, p, r)) /\ Onto(p, q, Onto(q, p, r)) = r
  BY <1>1, OntoFacts
<1>10. ASSUME NEW r \in DOMAIN DurableTree'
       PROVE  r \in D
  <2>1. r \in Seq(Names) /\ StoredAt(r)' # NoId
    BY <1>5
  <2>2. CASE IsPrefix(q, r)
    <3>1. Onto(p, q, r) \in B
      BY <1>2, <1>6, <1>8, <2>1, <2>2
    <3> QED
      BY <1>8, <2>1, <2>2, <3>1
  <2>3. CASE ~IsPrefix(q, r)
    BY <1>2, <1>6, <2>1, <2>3
  <2> QED
    BY <2>2, <2>3
<1>11. ASSUME NEW r \in D
       PROVE  r \in DOMAIN DurableTree'
  <2>1. CASE r \in DOMAIN DurableTree \ B
    BY <1>2, <1>5, <1>6, <1>7, <2>1
  <2>2. CASE r \in {Onto(q, p, t) : t \in B}
    <3>1. PICK t \in B : r = Onto(q, p, t)
      BY <2>2
    <3>2. t \in Seq(Names) /\ StoredAt(t) # NoId /\ IsPrefix(p, t)
      BY <1>6
    <3> QED
      BY <1>2, <1>5, <1>9, <3>1, <3>2
  <2> QED
    BY <2>1, <2>2
<1>12. DOMAIN DurableTree' = D
  <2> HIDE DEF D
  <2> QED
    BY <1>10, <1>11
<1>13. \A r \in DOMAIN DurableTree' :
         DurableTree'[r] = IF r = <<>> THEN [isdir |-> TRUE, size |-> 0, done |-> TRUE] ELSE Attributes(StoredAt(r))'
  BY DEF View
<1>14. ASSUME NEW s \in Seq(Names), NEW r \in Seq(Names), s # <<>>, StoredAt(r)' = StoredAt(s), StoredAt(s) # NoId
       PROVE  Attributes(StoredAt(r))' = DurableTree[s]
  <2>1. StoredAt(s) \in DOMAIN inodes /\ DurableTree[s] = Attributes(StoredAt(s))
    BY <1>6, <1>14, ViewAt
  <2> QED
    BY <1>3, <1>14, <2>1 DEF Attributes
<1>15. ASSUME NEW r \in DOMAIN DurableTree'
       PROVE  DurableTree'[r] = IF r \in DOMAIN DurableTree \ B THEN DurableTree[r] ELSE DurableTree[Onto(p, q, r)]
  <2>1. r \in Seq(Names) /\ StoredAt(r)' # NoId
    BY <1>5
  <2>2. CASE r \in DOMAIN DurableTree \ B
    <3>1. StoredAt(r)' = StoredAt(r) /\ StoredAt(r) # NoId
      BY <1>2, <1>6, <1>7, <2>2
    <3>2. CASE r = <<>>
      BY <1>13, <2>2, <3>2, ViewAt, Zenon
    <3>3. CASE r # <<>>
      BY <1>13, <1>14, <2>1, <2>2, <3>1, <3>3
    <3> QED
      BY <3>2, <3>3
  <2>3. CASE r \notin DOMAIN DurableTree \ B
    <3> DEFINE o == Onto(p, q, r)
    <3>1. IsPrefix(q, r)
      BY <1>2, <1>6, <2>1, <2>3
    <3>2. StoredAt(r)' = StoredAt(o) /\ o \in Seq(Names) /\ IsPrefix(p, o) /\ StoredAt(o) # NoId
      BY <1>2, <1>8, <2>1, <3>1
    <3>3. r # <<>> /\ o # <<>>
      <4>1. Len(p) \in Nat \ {0} /\ Len(q) \in Nat \ {0} /\ Len(<<>>) = 0
        BY <1>1
      <4>2. ~IsPrefix(p, <<>>) /\ ~IsPrefix(q, <<>>)
        BY <4>1 DEF IsPrefix
      <4> QED
        BY <3>1, <3>2, <4>2
    <3> HIDE DEF o
    <3>4. Attributes(StoredAt(r))' = DurableTree[o]
      BY <1>14, <2>1, <3>2, <3>3
    <3>5. DurableTree'[r] = DurableTree[o]
      BY <1>13, <3>3, <3>4
    <3> QED
      BY <2>3, <3>5 DEF o
  <2> QED
    BY <2>2, <2>3
<1>16. DurableTree' = [r \in D |-> IF r \in DOMAIN DurableTree \ B THEN DurableTree[r] ELSE DurableTree[Onto(p, q, r)]]
  <2>1. DurableTree' = [r \in DOMAIN DurableTree' |-> DurableTree'[r]]
    BY DEF View
  <2> HIDE DEF B, D
  <2> QED
    BY <1>12, <1>15, <2>1
<1>17. p \in DOMAIN DurableTree
  BY <1>1, <1>6
<1>18. q \in DOMAIN DurableTree'
  <2>1. IsPrefix(q, q) /\ IsPrefix(p, p)
    BY <1>1 DEF IsPrefix
  <2>2. Onto(p, q, q) = p
    BY <1>1, <2>1, OntoFacts
  <2> QED
    BY <1>1, <1>2, <1>5, <2>1, <2>2
<1>19. Abstract!Free(q)
  <2>1. q \notin DOMAIN DurableTree
    BY <1>1, <1>6
  <2>2. Front(q) \in Seq(Names)
    BY <1>1, FrontLast
  <2>3. StoredAt(Front(q)) # NoId
    BY <1>1 DEF Good, Rooted
  <2>4. Front(q) \in DOMAIN DurableTree
    BY <1>6, <2>2, <2>3
  <2>5. DurableTree[Front(q)].isdir
    <3>1. CASE Front(q) = <<>>
      BY <2>4, <3>1, ViewAt
    <3>2. CASE Front(q) # <<>>
      BY <1>1, <2>4, <3>2, ViewAt DEF Attributes
    <3> QED
      BY <3>1, <3>2
  <2> QED
    BY <1>1, <2>1, <2>4, <2>5, SameOperators DEF Abstract!Free
<1>20. ~Abstract!IsPrefix(p, q)
  BY <1>1, SameOperators
<1> QED
  BY <1>1, <1>4, <1>16, <1>17, <1>18, <1>19, <1>20 DEF Abstract!Move, Onto

\* A change of a file's size, or its completion, is a Resize at its one path.
LEMMA ResizeStep ==
    ASSUME Good, View, View', NEW id \in DOMAIN inodes, ~inodes[id].isdir, NEW size \in Nat, NEW done \in BOOLEAN,
           edges' = edges, \A i \in DOMAIN inodes : i # id => inodes'[i] = inodes[i],
           inodes'[id].isdir = inodes[id].isdir, inodes'[id].size = size, inodes'[id].done = done,
           inodes[id].done => done
    PROVE  \E p \in DOMAIN DurableTree : Abstract!Resize(p, size, done)
<1>1. PICK p \in Seq(Names) : StoredAt(p) = id
  BY EveryInodeHasAPath
<1>2. id # NoId /\ id # Root
  BY DEF Good, Rooted
<1>3. p # <<>>
  BY <1>1, <1>2, GoodPaths, Zenon
<1>4. p \in DOMAIN DurableTree /\ DurableTree[p] = Attributes(id)
  <2>1. p \in DOMAIN DurableTree
    BY <1>1, <1>2 DEF View
  <2> QED
    BY <1>1, <1>3, <2>1, ViewAt
<1>5. \A r : StoredAt(r)' = StoredAt(r)
  BY DEF StoredAt
<1>6. DOMAIN DurableTree' = DOMAIN DurableTree
  <2>1. \A r : r \in DOMAIN DurableTree' <=> r \in Seq(Names) /\ StoredAt(r)' # NoId
    BY DEF View
  <2>2. \A r : r \in DOMAIN DurableTree <=> r \in Seq(Names) /\ StoredAt(r) # NoId
    BY DEF View
  <2> QED
    BY <1>5, <2>1, <2>2, Zenon
<1>7. \A r \in DOMAIN DurableTree' :
         DurableTree'[r] = IF r = <<>> THEN [isdir |-> TRUE, size |-> 0, done |-> TRUE] ELSE Attributes(StoredAt(r))'
  BY DEF View
<1>8. DurableTree'[p] = [DurableTree[p] EXCEPT !.size = size, !.done = done]
  <2>1. DurableTree'[p] = [isdir |-> inodes[id].isdir, size |-> size, done |-> done]
    BY <1>1, <1>3, <1>4, <1>5, <1>6, <1>7 DEF Attributes
  <2> DEFINE R == [isdir : BOOLEAN, size : Nat, done : BOOLEAN]
             x == DurableTree[p]
             y == [x EXCEPT !.size = size, !.done = done]
  <2>2. inodes[id] \in InodeRecord
    BY DEF Good, Types
  <2>a. /\ inodes[id].isdir \in BOOLEAN /\ inodes[id].size \in Nat /\ inodes[id].done \in BOOLEAN
    BY <2>2, Zenon DEF InodeRecord
  <2>b. x = [isdir |-> inodes[id].isdir, size |-> inodes[id].size, done |-> inodes[id].done]
    BY <1>4 DEF Attributes
  <2>3. x \in R /\ x.isdir = inodes[id].isdir
    BY <2>a, <2>b
  <2> HIDE DEF x
  <2>4. y \in R /\ y.isdir = x.isdir /\ y.size = size /\ y.done = done
    BY <2>3, Zenon
  <2>5. DurableTree'[p] \in R
    BY <2>1, <2>a
  <2> HIDE DEF y
  <2>6. DurableTree'[p] = y
    BY <2>1, <2>3, <2>4, <2>5
  <2> QED
    BY <2>6 DEF x, y
<1>9. ASSUME NEW r \in DOMAIN DurableTree, r # p
      PROVE  DurableTree'[r] = DurableTree[r]
  <2>1. /\ r \in Seq(Names) /\ StoredAt(r) # NoId
        /\ r = <<>> => DurableTree[r] = [isdir |-> TRUE, size |-> 0, done |-> TRUE]
        /\ r # <<>> => StoredAt(r) \in DOMAIN inodes /\ DurableTree[r] = Attributes(StoredAt(r))
    BY ViewAt
  <2>2. StoredAt(r) # id
    BY <1>1, <1>9, <2>1, UniquePaths
  <2>3. r # <<>> => Attributes(StoredAt(r))' = Attributes(StoredAt(r))
    <3>1. StoredAt(r)' = StoredAt(r)
      BY <1>5
    <3> QED
      BY <2>1, <2>2, <3>1 DEF Attributes
  <2> QED
    BY <1>6, <1>7, <2>1, <2>3, Zenon
<1>10. DurableTree' = [DurableTree EXCEPT ![p] = [@ EXCEPT !.size = size, !.done = done]]
  <2>1. /\ DurableTree' = [r \in DOMAIN DurableTree' |-> DurableTree'[r]]
        /\ DurableTree = [r \in DOMAIN DurableTree |-> DurableTree[r]]
    BY DEF View
  <2> QED
    BY <1>4, <1>6, <1>8, <1>9, <2>1
<1>11. ~DurableTree[p].isdir /\ (DurableTree[p].done => done)
  BY <1>4 DEF Attributes
<1> QED
  BY <1>4, <1>10, <1>11, Zenon DEF Abstract!Resize

\* Steps that change no edge, and no inode that is there, change nothing.
LEMMA StutterStep ==
    ASSUME Good, View, View', edges' = edges, \A i \in DOMAIN inodes : inodes'[i] = inodes[i]
    PROVE  DurableTree' = DurableTree
<1>1. \A r : StoredAt(r)' = StoredAt(r)
  BY DEF StoredAt
<1>2. DOMAIN DurableTree' = DOMAIN DurableTree
  <2>1. \A r : r \in DOMAIN DurableTree' <=> r \in Seq(Names) /\ StoredAt(r)' # NoId
    BY DEF View
  <2>2. \A r : r \in DOMAIN DurableTree <=> r \in Seq(Names) /\ StoredAt(r) # NoId
    BY DEF View
  <2> QED
    BY <1>1, <2>1, <2>2, Zenon
<1>3. \A r \in DOMAIN DurableTree' :
         DurableTree'[r] = IF r = <<>> THEN [isdir |-> TRUE, size |-> 0, done |-> TRUE] ELSE Attributes(StoredAt(r))'
  BY DEF View
<1>4. ASSUME NEW r \in DOMAIN DurableTree
      PROVE  DurableTree'[r] = DurableTree[r]
  <2>1. /\ r = <<>> => DurableTree[r] = [isdir |-> TRUE, size |-> 0, done |-> TRUE]
        /\ r # <<>> => StoredAt(r) \in DOMAIN inodes /\ DurableTree[r] = Attributes(StoredAt(r))
    BY ViewAt
  <2>2. r # <<>> => Attributes(StoredAt(r))' = Attributes(StoredAt(r))
    <3>1. StoredAt(r)' = StoredAt(r)
      BY <1>1
    <3> QED
      BY <2>1, <3>1 DEF Attributes
  <2>3. CASE r = <<>>
    BY <1>2, <1>3, <2>1, <2>3, Zenon
  <2>4. CASE r # <<>>
    BY <1>2, <1>3, <2>1, <2>2, <2>4
  <2> QED
    BY <2>3, <2>4
<1>5. /\ DurableTree' = [r \in DOMAIN DurableTree' |-> DurableTree'[r]]
      /\ DurableTree = [r \in DOMAIN DurableTree |-> DurableTree[r]]
  BY DEF View
<1> QED
  BY <1>2, <1>4, <1>5

-----------------------------------------------------------------------------
(* The refinement *)

\* Every operation leaves finitely many edges.
LEMMA FiniteStep ==
    ASSUME Types, IsFiniteSet(DOMAIN edges), [Next]_vars
    PROVE  IsFiniteSet(DOMAIN edges')
<1> USE DEF ids, memory, store
<1>1. CASE UNCHANGED edges
  BY <1>1
<1>2. ASSUME NEW pid, NEW name, NEW inode, CommitNew(pid, name, inode)
      PROVE  IsFiniteSet(DOMAIN edges')
  <2>1. DOMAIN edges' = DOMAIN edges \cup {<<pid, name>>}
    BY <1>2 DEF CommitNew, Put
  <2> QED
    BY <2>1, FS_AddElement
<1>3. ASSUME NEW p \in Paths, NEW r \in BOOLEAN, CreateFile(p, r)
      PROVE  IsFiniteSet(DOMAIN edges')
  BY <1>2, <1>3, Zenon DEF CreateFile
<1>4. ASSUME NEW r \in BOOLEAN, MkdirMake(r)
      PROVE  IsFiniteSet(DOMAIN edges')
  BY <1>2, <1>4, Zenon DEF MkdirMake
<1>5. ASSUME NEW p \in Paths, NEW rec \in BOOLEAN, Delete(p, rec)
      PROVE  IsFiniteSet(DOMAIN edges')
  <2>1. DOMAIN edges' \in SUBSET (DOMAIN edges)
    BY <1>5 DEF Delete
  <2> QED
    BY <2>1, FS_Subset
<1>6. ASSUME NEW p \in Paths, NEW q \in Paths, Rename(p, q)
      PROVE  IsFiniteSet(DOMAIN edges')
  <2>1. PICK old, new, id : edges' = MovedEdges(old, new, id)
    BY <1>6 DEF Rename
  <2>2. DOMAIN edges' = (DOMAIN edges \ {old}) \cup {new}
    BY <2>1 DEF MovedEdges, Put, Del
  <2>3. IsFiniteSet(DOMAIN edges \ {old})
    BY FS_RemoveElement
  <2> QED
    BY <2>2, <2>3, FS_AddElement
<1> QED
  BY <1>1, <1>3, <1>4, <1>5, <1>6, Zenon DEF Next, vars, CreateFileFails, BelowFile, Mkdir, MkdirRefused, MkdirEnter,
     MkdirNoParent, MkdirFails, CompleteFile, UpdateSize, UpdateSizeInMemory, Recover, Crash

\* A step behind FUSE is a step of FileTree or changes nothing.
LEMMA AbstractStep ==
    ASSUME Good, View, View', kernel, [Next]_vars
    PROVE  Abstract!Next \/ DurableTree' = DurableTree
<1> USE DEF ids, memory, store
<1> DEFINE Goal == Abstract!Next \/ DurableTree' = DurableTree
<1>0. Sizes[kernel] = Sizes[TRUE] /\ Sizes[TRUE] \in SUBSET Nat
  <2>1. kernel = TRUE
    BY DEF Good, Types
  <2> QED
    BY <2>1, SizesAssumption, Zenon
<1>1. CASE UNCHANGED <<inodes, edges>>
  BY <1>1, StutterStep
<1>2. ASSUME NEW pid, NEW name, NEW isdir \in BOOLEAN, MakesNew(pid, name, isdir),
             NEW p \in Seq(Names), p # <<>>, StoredAt(Front(p)) = pid, Last(p) = name
      PROVE  Goal
  <2>1. /\ Abstract!Create(p, IF isdir THEN Abstract!Directory ELSE Abstract!NewFile)
        /\ p \in DOMAIN DurableTree'
    BY <1>2, CreateStep
  <2> QED
    BY <2>1, Zenon DEF Abstract!Next
<1>3. ASSUME NEW p \in Paths, NEW r \in BOOLEAN, CreateFile(p, r)
      PROVE  Goal
  <2>1. p \in Seq(Names) /\ p # <<>> /\ up
    BY <1>3, PathsAreSeqs DEF CreateFile, Unlocked
  <2>2. ParentOf(p) \in Nat /\ Last(p) \in Names /\ ParentOf(p) = StoredAt(Front(p))
    BY <2>1, ResolveFacts, ResolveIsStoredAt DEF Good, ParentOf
  <2>3. MakesNew(ParentOf(p), Last(p), FALSE)
    BY <1>3, <2>2 DEF CreateFile, CommitNew, MakesNew, Unlocked
  <2> QED
    BY <1>2, <2>1, <2>2, <2>3, Zenon
<1>4. ASSUME NEW r \in BOOLEAN, MkdirMake(r)
      PROVE  Goal
  <2> DEFINE cur == mkdir.cur
             name == Head(mkdir.rest)
  <2>1. cur \in Nat /\ name \in Names /\ Inode(cur, name, TRUE).name = name
    BY <1>4 DEF MkdirMake, Good, Types, Inode
  <2>2. MakesNew(cur, name, TRUE)
    BY <1>4, <2>1, Zenon DEF MkdirMake, CommitNew, MakesNew, Missing
  <2> HIDE DEF cur, name
  <2>3. cur \in DOMAIN inodes
    BY <2>2 DEF MakesNew, Good, Mem
  <2>4. PICK s \in Seq(Names) : StoredAt(s) = cur
    BY <2>3, EveryInodeHasAPath
  <2> DEFINE p == Append(s, name)
  <2>5. p \in Seq(Names) /\ p # <<>> /\ Front(p) = s /\ Last(p) = name
    BY <2>1, FrontOfAppend
  <2> HIDE DEF p
  <2> QED
    BY <1>2, <2>2, <2>4, <2>5, Zenon
<1>5. ASSUME NEW p \in Paths, NEW rec \in BOOLEAN, Delete(p, rec)
      PROVE  Goal
  BY <1>5, UnlinkStep, Zenon DEF Abstract!Next
<1>6. ASSUME NEW p \in Paths, NEW q \in Paths, Rename(p, q)
      PROVE  Goal
  BY <1>6, MoveStep, Zenon DEF Abstract!Next
<1>7. ASSUME NEW id \in given, NEW size \in Sizes[kernel], CompleteFile(id, size)
      PROVE  Goal
  <2>1. id \in DOMAIN inodes /\ ~inodes[id].isdir /\ inodes[id] \in InodeRecord /\ edges' = edges
    BY <1>7 DEF CompleteFile, Good, Types
  <2>2. /\ \A i \in DOMAIN inodes : i # id => inodes'[i] = inodes[i]
        /\ inodes'[id].isdir = inodes[id].isdir /\ inodes'[id].size = size /\ inodes'[id].done = TRUE
    BY <1>7, <2>1, Zenon DEF CompleteFile, InodeRecord
  <2>3. size \in Sizes[TRUE] /\ size \in Nat
    BY <1>0, Zenon
  <2>4. \E p \in DOMAIN DurableTree : Abstract!Resize(p, size, TRUE)
    BY <2>1, <2>2, <2>3, ResizeStep, Zenon
  <2> QED
    BY <2>3, <2>4, Zenon DEF Abstract!Next
<1>8. ASSUME NEW id \in given \cup {NoId}, NEW size \in Sizes[kernel], UpdateSize(id, size)
      PROVE  Goal
  <2>1. id \in DOMAIN inodes /\ inodes[id] \in InodeRecord /\ edges' = edges /\ up /\ id \notin DOMAIN dirs
    BY <1>8 DEF UpdateSize, Good, Types, Unlocked
  <2>2. ~inodes[id].isdir
    BY <2>1 DEF Good, Mem, IsDir
  <2> DEFINE done == inodes[id].done
  <2>3. /\ \A i \in DOMAIN inodes : i # id => inodes'[i] = inodes[i]
        /\ inodes'[id].isdir = inodes[id].isdir /\ inodes'[id].size = size /\ inodes'[id].done = done
    BY <1>8, <2>1, Zenon DEF UpdateSize, InodeRecord
  <2>4. size \in Sizes[TRUE] /\ size \in Nat /\ done \in BOOLEAN
    BY <1>0, <2>1, Zenon DEF InodeRecord
  <2>5. inodes[id].done => done
    OBVIOUS
  <2> HIDE DEF done
  <2>6. \E p \in DOMAIN DurableTree : Abstract!Resize(p, size, done)
    BY <2>1, <2>2, <2>3, <2>4, <2>5, ResizeStep
  <2> QED
    BY <2>4, <2>6, Zenon DEF Abstract!Next
<1>9. ASSUME NEW id \in given \cup {NoId}, NEW size \in Sizes[kernel], NEW ok \in BOOLEAN,
             UpdateSizeInMemory(id, size, ok)
      PROVE  Goal
  BY <1>9 DEF UpdateSizeInMemory, Unlocked, Good, Rooted
<1>10. ASSUME Recover
       PROVE  Goal
  <2>1. edges' = edges
    BY <1>10 DEF Recover
  <2>2. \A i \in DOMAIN inodes : inodes'[i] = inodes[i]
    <3>1. CASE Root \in DOMAIN Rebuilt
      BY <1>10, <3>1 DEF Recover
    <3>2. CASE Root \notin DOMAIN Rebuilt
      BY <3>2, RebuiltFacts DEF Good, Rooted
    <3> QED
      BY <3>1, <3>2
  <2> QED
    BY <2>1, <2>2, StutterStep
<1>11. ASSUME UNCHANGED vars
       PROVE  Goal
  BY <1>1, <1>11 DEF vars
<1> QED
  BY <1>1, <1>3, <1>4, <1>5, <1>6, <1>7, <1>8, <1>9, <1>10, <1>11, Zenon DEF Next, CreateFileFails, BelowFile, Mkdir,
     MkdirRefused, MkdirEnter, MkdirNoParent, MkdirFails, Crash

\* ImplementsFileTree: for clients behind FUSE the store is a FileTree, each
\* operation taking effect at the moment its batch is committed, whichever commits
\* fail and whenever the master crashes and recovers.
THEOREM TreeIsImplemented == ASSUME ~CounterFails PROVE Spec => ImplementsFileTree
<1> DEFINE IInv == Types /\ Numbers /\ Ids /\ Mem /\ Sound /\ IsFiniteSet(DOMAIN edges)
           Seen == kernel => View
<1>1. Init => IInv /\ Good
  <2> SUFFICES ASSUME Init
               PROVE  IInv /\ Good
    OBVIOUS
  <2>1. EdgesSound /\ InodesSound /\ NoCycle /\ Rooted /\ Way
    BY EmptyMapFacts DEF Init, EdgesSound, InodesSound, NoCycle, Rooted, Way
  <2>2. IsFiniteSet(DOMAIN edges)
    BY EmptyMapFacts, FS_EmptySet DEF Init
  <2> QED
    BY <2>1, <2>2, InitTypes, InitIdsMem DEF Sound, Good
<1>2. IInv /\ [Next]_vars => IInv'
  BY TypesStep, NumbersStep, IdsMemStep, SoundStep, FiniteStep
<1>3. IInv /\ kernel => Good
  BY DEF Sound, Good
<1>4. IInv => Seen
  BY <1>3, ViewHolds
<1>5. Init => Abstract!Init
  <2> SUFFICES ASSUME Init
               PROVE  DurableTree = [p \in {<<>>} |-> Abstract!Directory]
    BY DEF Abstract!Init
  <2>1. View
    BY <1>1, ViewHolds
  <2>2. \A p \in Seq(Names) : p # <<>> => StoredAt(p) = NoId
    BY ParentPath, EmptyMapFacts, Zenon DEF Init, Kid
  <2>3. <<>> \in Seq(Names) /\ StoredAt(<<>>) = Root /\ Root # NoId
    BY WalkStep DEF StoredAt, Root, NoId
  <2>4. DOMAIN DurableTree = {<<>>}
    BY <2>1, <2>2, <2>3, Zenon DEF View
  <2>5. DurableTree[<<>>] = Abstract!Directory
    BY <2>1, <2>4 DEF View, Abstract!Directory
  <2>6. DurableTree = [p \in DOMAIN DurableTree |-> DurableTree[p]]
    BY <2>1 DEF View
  <2> QED
    BY <2>4, <2>5, <2>6
<1>6. IInv /\ Seen /\ Seen' /\ [Next]_vars => [kernel => Abstract!Next]_DurableTree
  <2> SUFFICES ASSUME IInv, Seen, Seen', [Next]_vars, kernel
               PROVE  Abstract!Next \/ DurableTree' = DurableTree
    OBVIOUS
  <2>1. kernel' = kernel
    BY Zenon DEF Next, vars, CreateFile, CreateFileFails, BelowFile, Mkdir, MkdirRefused, MkdirEnter, MkdirNoParent,
           MkdirMake, MkdirFails, CompleteFile, Delete, Rename, UpdateSize, UpdateSizeInMemory, Recover, Crash
  <2>2. Good /\ View /\ View'
    BY <1>3, <2>1
  <2> HIDE DEF IInv, Seen
  <2> QED
    BY <2>2, AbstractStep
<1> QED
  <2> HIDE DEF IInv, Seen
  <2> QED
    BY <1>1, <1>2, <1>4, <1>5, <1>6, PTL DEF Spec, ImplementsFileTree

=============================================================================
