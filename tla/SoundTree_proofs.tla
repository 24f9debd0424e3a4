-------------------------- MODULE SoundTree_proofs --------------------------
(***************************************************************************)
(* Proofs that, behind FUSE, the store of the namespace is a tree.         *)
(***************************************************************************)
EXTENDS InodeTree_proofs

\* Behind FUSE: the three parts of TreeIsSound; memory has directories only, the root
\* among them; and what a CreateDirectory on its way has before it are directories.
EdgesSound == \A e \in DOMAIN edges :
    /\ e[1] \in DOMAIN inodes /\ inodes[e[1]].isdir
    /\ edges[e] \in DOMAIN inodes
    /\ <<inodes[edges[e]].parent, inodes[edges[e]].name>> = e
InodesSound == \A id \in DOMAIN inodes \ {Root} :
    /\ <<inodes[id].parent, inodes[id].name>> \in DOMAIN edges
    /\ edges[<<inodes[id].parent, inodes[id].name>>] = id
NoCycle == \A S \in SUBSET (DOMAIN inodes \ {Root}) : (\A id \in S : inodes[id].parent \in S) => S = {}
Rooted ==
    /\ NoId \notin DOMAIN inodes
    /\ DOMAIN inodes # {} => Root \in DOMAIN inodes /\ inodes[Root].isdir
    /\ up => Root \in DOMAIN dirs /\ \A d \in DOMAIN dirs : IsDir(d)
Way == mkdir # NoMkdir => \E w \in [1 .. Len(mkdir.rest) -> Nat] :
    /\ w[1] = mkdir.cur
    /\ \A i \in 1 .. Len(mkdir.rest) - 1 : w[i + 1] = Kid(edges, w[i], mkdir.rest[i])
    /\ \A i \in 1 .. Len(mkdir.rest) : w[i] = NoId \/ (w[i] \in DOMAIN inodes /\ inodes[w[i]].isdir)
Sound == kernel => EdgesSound /\ InodesSound /\ NoCycle /\ Rooted /\ Way

-----------------------------------------------------------------------------
(* The tree *)

\* In step, memory and the store lead to the same places.
LEMMA ResolveIsStoredAt ==
    ASSUME Types, Ids, Mem, up, NEW p
    PROVE  Resolve(p) = StoredAt(p)
<1>1. \A d, n : <<d, n>> \in DOMAIN Entries <=> <<d, n>> \in DOMAIN edges
  BY EntriesFacts, Zenon DEF Ids, Mem
<1>2. \A e \in DOMAIN Entries : e = <<e[1], e[2]>>
  BY DEF Entries
<1>3. \A e \in DOMAIN edges : e = <<e[1], e[2]>>
  BY DEF Types
<1>4. DOMAIN Entries = DOMAIN edges
  BY <1>1, <1>2, <1>3
<1>5. ASSUME NEW e \in DOMAIN edges
      PROVE  Entries[e] = edges[e]
  <2>1. e = <<e[1], e[2]>> /\ <<e[1], e[2]>> \in DOMAIN Entries
    BY <1>3, <1>4
  <2> QED
    BY <2>1, EntriesFacts DEF Mem
<1>6. Entries = [e \in DOMAIN Entries |-> Entries[e]] /\ edges = [e \in DOMAIN edges |-> edges[e]]
  BY DEF Entries, Types
<1>7. Entries = edges
  BY <1>4, <1>5, <1>6
<1> QED
  BY <1>7 DEF Resolve, StoredAt

\* Where a path leads, but for the root, there is an inode.
LEMMA StoredAtFacts ==
    ASSUME Types, Numbers, Ids, EdgesSound, NoId \notin DOMAIN inodes, NEW p \in Seq(Names)
    PROVE  /\ StoredAt(<<>>) = Root
           /\ p # <<>> => /\ Front(p) \in Seq(Names) /\ Last(p) \in Names
                          /\ StoredAt(p) = Kid(edges, StoredAt(Front(p)), Last(p))
           /\ p # <<>> /\ StoredAt(p) # NoId =>
                 /\ StoredAt(p) \in DOMAIN inodes /\ StoredAt(p) # Root
                 /\ inodes[StoredAt(p)].parent = StoredAt(Front(p)) /\ inodes[StoredAt(p)].name = Last(p)
                 /\ StoredAt(Front(p)) # NoId
                 /\ StoredAt(Front(p)) \in DOMAIN inodes /\ inodes[StoredAt(Front(p))].isdir
                 /\ <<StoredAt(Front(p)), Last(p)>> \in DOMAIN edges
                 /\ edges[<<StoredAt(Front(p)), Last(p)>>] = StoredAt(p)
<1>1. StoredAt(<<>>) = Root
  BY WalkStep DEF StoredAt
<1>2. ASSUME p # <<>>
      PROVE  /\ Front(p) \in Seq(Names) /\ Last(p) \in Names
             /\ StoredAt(p) = Kid(edges, StoredAt(Front(p)), Last(p))
  BY <1>2, WalkStep, FrontLast, Zenon DEF StoredAt
<1>3. ASSUME p # <<>>, StoredAt(p) # NoId
      PROVE  /\ <<StoredAt(Front(p)), Last(p)>> \in DOMAIN edges
             /\ edges[<<StoredAt(Front(p)), Last(p)>>] = StoredAt(p)
  BY <1>2, <1>3 DEF Kid
<1>4. ASSUME p # <<>>, StoredAt(p) # NoId
      PROVE  /\ StoredAt(p) \in DOMAIN inodes /\ StoredAt(p) # Root
             /\ inodes[StoredAt(p)].parent = StoredAt(Front(p)) /\ inodes[StoredAt(p)].name = Last(p)
             /\ StoredAt(Front(p)) \in DOMAIN inodes /\ inodes[StoredAt(Front(p))].isdir
  <2> DEFINE e == <<StoredAt(Front(p)), Last(p)>>
  <2>1. e \in DOMAIN edges /\ edges[e] = StoredAt(p) /\ e[1] = StoredAt(Front(p)) /\ e[2] = Last(p)
    BY <1>3, <1>4
  <2>2. edges[e] \in given
    BY <2>1 DEF Ids
  <2>3. edges[e] # Root
    BY <2>2 DEF Numbers, Types, Root
  <2>4. /\ e[1] \in DOMAIN inodes /\ inodes[e[1]].isdir /\ edges[e] \in DOMAIN inodes
        /\ <<inodes[edges[e]].parent, inodes[edges[e]].name>> = e
    BY <2>1 DEF EdgesSound
  <2> HIDE DEF e
  <2> QED
    BY <2>1, <2>3, <2>4
<1> QED
  BY <1>1, <1>2, <1>3, <1>4

\* A prefix of a path is one of its extensions.
LEMMA PrefixOfAppend ==
    ASSUME NEW S, NEW p \in Seq(S), NEW s \in Seq(S), NEW n \in S, IsPrefix(p, s)
    PROVE  IsPrefix(p, Append(s, n))
<1>1. Len(p) \in Nat /\ Len(s) \in Nat /\ Len(p) <= Len(s) /\ p = SubSeq(s, 1, Len(p))
  BY DEF IsPrefix
<1>2. Len(Append(s, n)) = Len(s) + 1 /\ Append(s, n) \in Seq(S)
  OBVIOUS
<1>3. SubSeq(Append(s, n), 1, Len(p)) = SubSeq(s, 1, Len(p))
  BY <1>1
<1>4. Len(p) <= Len(s) + 1
  BY <1>1
<1> QED
  BY <1>1, <1>2, <1>3, <1>4 DEF IsPrefix

\* No two paths lead to one inode.
LEMMA PathsAreUnique ==
    ASSUME Types, Numbers, Ids, EdgesSound, NoId \notin DOMAIN inodes,
           NEW p \in Seq(Names), NEW q \in Seq(Names), StoredAt(p) = StoredAt(q), StoredAt(p) # NoId
    PROVE  p = q
<1> DEFINE S == {n \in Nat : \A s, t \in Seq(Names) :
                    Len(s) = n /\ StoredAt(s) = StoredAt(t) /\ StoredAt(s) # NoId => s = t}
<1>1. 0 \in S
  <2> SUFFICES ASSUME NEW s \in Seq(Names), NEW t \in Seq(Names), Len(s) = 0, StoredAt(s) = StoredAt(t),
                      StoredAt(s) # NoId
               PROVE  s = t
    OBVIOUS
  <2>1. s = <<>>
    OBVIOUS
  <2> QED
    BY <2>1, StoredAtFacts, Zenon
<1>2. ASSUME NEW n \in S
      PROVE  n + 1 \in S
  <2> SUFFICES ASSUME NEW s \in Seq(Names), NEW t \in Seq(Names), Len(s) = n + 1, StoredAt(s) = StoredAt(t),
                      StoredAt(s) # NoId
               PROVE  s = t
    OBVIOUS
  <2>0. n \in Nat
    OBVIOUS
  <2>1. s # <<>>
    BY <2>0
  <2>a. StoredAt(s) # Root
    BY <2>1, StoredAtFacts, Zenon
  <2>2. t # <<>>
    BY <2>a, StoredAtFacts, Zenon
  <2>3. /\ Front(s) \in Seq(Names) /\ Front(t) \in Seq(Names) /\ StoredAt(Front(s)) # NoId
        /\ StoredAt(Front(s)) = StoredAt(Front(t)) /\ Last(s) = Last(t)
    <3>1. /\ Front(s) \in Seq(Names) /\ StoredAt(Front(s)) # NoId
          /\ inodes[StoredAt(s)].parent = StoredAt(Front(s)) /\ inodes[StoredAt(s)].name = Last(s)
      BY <2>1, StoredAtFacts, Zenon
    <3>2. /\ Front(t) \in Seq(Names)
          /\ inodes[StoredAt(t)].parent = StoredAt(Front(t)) /\ inodes[StoredAt(t)].name = Last(t)
      BY <2>2, StoredAtFacts, Zenon
    <3> QED
      BY <3>1, <3>2
  <2>4. Len(Front(s)) = n
    <3>1. Len(Front(s)) = Len(s) - 1
      BY <2>1, FrontLast, Zenon
    <3>2. \A l : l = n + 1 => l - 1 = n
      BY <2>0
    <3> QED
      BY <3>1, <3>2
  <2>5. Front(s) = Front(t)
    BY <2>3, <2>4
  <2>6. s = Append(Front(s), Last(s)) /\ t = Append(Front(t), Last(t))
    BY <2>1, <2>2, FrontLast, Zenon
  <2> QED
    BY <2>3, <2>5, <2>6, Zenon
<1>3. \A n \in Nat : n \in S
  <2>1. S \subseteq Nat
    OBVIOUS
  <2> HIDE DEF S
  <2> QED
    BY <1>1, <1>2, <2>1, SetInduction
<1> QED
  BY <1>3, Len(p) \in Nat

\* Behind FUSE, what a path leads to has that path's parent and name.
LEMMA ResolvedFacts ==
    ASSUME Types, Numbers, Ids, Mem, EdgesSound, Rooted, up, NEW p \in Seq(Names), p # <<>>, Resolve(p) # NoId
    PROVE  /\ Resolve(p) \in DOMAIN inodes /\ Resolve(p) \in given /\ Resolve(p) # Root
           /\ OwnParent(p) = ParentOf(p) /\ OwnName(p) = Last(p)
           /\ inodes[Resolve(p)].parent = ParentOf(p) /\ inodes[Resolve(p)].name = Last(p)
           /\ IsDir(ParentOf(p)) /\ <<ParentOf(p), Last(p)>> \in DOMAIN edges
           /\ edges[<<ParentOf(p), Last(p)>>] = Resolve(p)
<1>1. Resolve(p) = StoredAt(p) /\ ParentOf(p) = StoredAt(Front(p))
  BY ResolveIsStoredAt DEF ParentOf
<1>2. /\ Resolve(p) \in DOMAIN inodes /\ Resolve(p) # Root
      /\ inodes[Resolve(p)].parent = ParentOf(p) /\ inodes[Resolve(p)].name = Last(p)
      /\ ParentOf(p) \in DOMAIN inodes /\ inodes[ParentOf(p)].isdir
      /\ <<ParentOf(p), Last(p)>> \in DOMAIN edges
      /\ edges[<<ParentOf(p), Last(p)>>] = Resolve(p)
  BY <1>1, StoredAtFacts DEF Rooted
<1>3. IsDir(ParentOf(p)) /\ Resolve(p) \in given
  BY <1>2 DEF Mem, Ids
<1>4. Resolve(p) \in DOMAIN dirs => dirs[Resolve(p)].inode = inodes[Resolve(p)]
  BY DEF Mem, Rooted
<1> QED
  BY <1>2, <1>3, <1>4 DEF OwnParent, OwnName

\* A new inode is an entry of its parent, which is reached from the root.
LEMMA MakesNewSound ==
    ASSUME Types, Numbers, Ids, Mem, EdgesSound, InodesSound, NoCycle, Rooted,
           NEW pid, NEW name, NEW isdir \in BOOLEAN, MakesNew(pid, name, isdir)
    PROVE  EdgesSound' /\ InodesSound' /\ NoCycle' /\ Rooted'
<1>d. /\ DOMAIN dirs' = DOMAIN dirs \cup (IF isdir THEN {nextId} ELSE {})
      /\ \A d \in DOMAIN dirs : d # pid => dirs'[d] = dirs[d]
      /\ dirs'[pid].inode = dirs[pid].inode
      /\ isdir => dirs'[nextId] = [inode |-> Inode(pid, name, isdir), kids |-> EmptyMap]
  BY MakesNewDirs, Zenon
<1>s. /\ DOMAIN inodes' = DOMAIN inodes \cup {nextId}
      /\ \A i \in DOMAIN inodes : inodes'[i] = inodes[i]
      /\ inodes'[nextId] = Inode(pid, name, isdir)
      /\ DOMAIN edges' = DOMAIN edges \cup {<<pid, name>>}
      /\ \A e \in DOMAIN edges : e # <<pid, name>> => edges'[e] = edges[e]
      /\ edges'[<<pid, name>>] = nextId
      /\ Known' = Known \cup {nextId}
  BY MakesNewStore, Zenon
<1>1. /\ Inode(pid, name, isdir).parent = pid /\ Inode(pid, name, isdir).name = name
      /\ Inode(pid, name, isdir).isdir = isdir
  BY DEF Inode
<1>2. /\ nextId \notin Known /\ nextId \notin DOMAIN inodes /\ nextId \notin DOMAIN dirs
      /\ up /\ up' = up /\ IsDir(pid) /\ name \notin DOMAIN dirs[pid].kids
  BY NextIdIsFresh DEF MakesNew
<1>3. pid \in DOMAIN inodes /\ inodes[pid].isdir /\ <<pid, name>> \notin DOMAIN edges /\ pid # nextId
  BY <1>2 DEF Mem
<1>4. EdgesSound'
  <2> SUFFICES ASSUME NEW e \in DOMAIN edges'
               PROVE  /\ e[1] \in DOMAIN inodes' /\ inodes'[e[1]].isdir /\ edges'[e] \in DOMAIN inodes'
                      /\ <<inodes'[edges'[e]].parent, inodes'[edges'[e]].name>> = e
    BY DEF EdgesSound
  <2>1. CASE e = <<pid, name>>
    BY <1>1, <1>3, <1>s, <2>1
  <2>2. CASE e \in DOMAIN edges
    <3>1. edges'[e] = edges[e] /\ edges[e] \in DOMAIN inodes /\ e[1] \in DOMAIN inodes
      BY <1>3, <1>s, <2>2 DEF EdgesSound
    <3> QED
      BY <1>s, <2>2, <3>1 DEF EdgesSound
  <2> QED
    BY <1>s, <2>1, <2>2
<1>5. InodesSound'
  <2> SUFFICES ASSUME NEW i \in DOMAIN inodes', i # Root
               PROVE  /\ <<inodes'[i].parent, inodes'[i].name>> \in DOMAIN edges'
                      /\ edges'[<<inodes'[i].parent, inodes'[i].name>>] = i
    BY Zenon DEF InodesSound
  <2>1. CASE i = nextId
    BY <1>1, <1>s, <2>1
  <2>2. CASE i \in DOMAIN inodes
    <3>1. /\ inodes'[i] = inodes[i] /\ <<inodes[i].parent, inodes[i].name>> \in DOMAIN edges
          /\ edges[<<inodes[i].parent, inodes[i].name>>] = i
      BY <1>s, <2>2 DEF InodesSound
    <3>2. <<inodes[i].parent, inodes[i].name>> # <<pid, name>>
      BY <1>3, <3>1
    <3> QED
      BY <1>s, <3>1, <3>2
  <2> QED
    BY <1>s, <2>1, <2>2
<1>6. NoCycle'
  <2> SUFFICES ASSUME NEW S \in SUBSET (DOMAIN inodes' \ {Root}), \A i \in S : inodes'[i].parent \in S
               PROVE  S = {}
    BY DEF NoCycle
  <2>1. \A i \in S \ {nextId} : i \in DOMAIN inodes \ {Root} /\ inodes[i].parent \in S \ {nextId}
    BY <1>2, <1>s DEF Ids
  <2>2. S \ {nextId} = {}
    BY <2>1, Zenon DEF NoCycle
  <2>3. nextId \in S => pid \in S
    BY <1>1, <1>s
  <2> QED
    BY <1>3, <2>2, <2>3
<1>7. Rooted'
  <2>1. NoId \notin DOMAIN inodes' /\ Root \in DOMAIN inodes' /\ inodes'[Root].isdir
    BY <1>2, <1>3, <1>s DEF Rooted, Known
  <2>2. \A d \in DOMAIN dirs' : dirs'[d].inode.isdir
    BY <1>1, <1>2, <1>d DEF Rooted, IsDir
  <2>3. Root \in DOMAIN dirs'
    BY <1>2, <1>d DEF Rooted
  <2> QED
    BY <2>1, <2>2, <2>3 DEF Rooted, IsDir
<1> QED
  BY <1>4, <1>5, <1>6, <1>7

\* Delete takes from the store exactly the edges to what it deletes.
LEMMA DeletedEdges ==
    ASSUME Types, Ids, Mem, Numbers, EdgesSound, Rooted,
           NEW p \in Paths, NEW rec \in BOOLEAN, Delete(p, rec)
    PROVE  /\ \A e \in DOMAIN edges : e \in DOMAIN edges' <=> edges[e] \notin Subtree(Resolve(p))
           /\ \A e \in DOMAIN edges' : e[1] \notin Subtree(Resolve(p))
<1> DEFINE id == Resolve(p)
           tree == Subtree(id)
           pid == ParentOf(p)
           name == Last(p)
<1>1. DeleteEffect(p, tree, OwnParent(p))
  BY DeleteFacts
<1>2. up /\ up' = up /\ p \in Seq(Names) /\ p # <<>> /\ id # NoId
  BY <1>1 DEF DeleteEffect
<1>3. /\ OwnParent(p) = pid /\ inodes[id].parent = pid /\ inodes[id].name = name
      /\ <<pid, name>> \in DOMAIN edges /\ edges[<<pid, name>>] = id
  BY <1>2, ResolvedFacts
<1>4. /\ id \in tree /\ Closed(tree)
      /\ \A x \in tree : x # id => \E d \in tree \cap DOMAIN dirs : \E n \in DOMAIN dirs[d].kids : dirs[d].kids[n] = x
  BY SubtreeFacts
<1> HIDE DEF id, tree, pid, name
<1>6. \A d, n : <<d, n>> \in DOMAIN edges' <=>
         <<d, n>> \in DOMAIN edges /\ <<d, n>> # <<pid, name>>
         /\ ~(d \in tree /\ d \in DOMAIN dirs /\ n \in DOMAIN dirs[d].kids)
  BY <1>1, <1>3, Zenon DEF DeleteEffect, name
<1>7. \A e \in DOMAIN edges : e = <<e[1], e[2]>>
  BY DEF Types
\* in memory as in the store
<1>8. \A d, n : <<d, n>> \in DOMAIN edges <=> d \in DOMAIN dirs /\ n \in DOMAIN dirs[d].kids
  BY <1>2, Zenon DEF Mem, Rooted, EdgesSound, IsDir
<1>9. \A d \in DOMAIN dirs : \A n \in DOMAIN dirs[d].kids : dirs[d].kids[n] = edges[<<d, n>>]
  BY <1>2, Zenon DEF Mem, Rooted
<1>10. \A d, n : <<d, n>> \in DOMAIN edges' <=> <<d, n>> \in DOMAIN edges /\ <<d, n>> # <<pid, name>> /\ d \notin tree
  BY <1>6, <1>8, Zenon
\* an edge is gone exactly where what it leads to is
<1>11. ASSUME NEW e \in DOMAIN edges
       PROVE  e \in DOMAIN edges' <=> edges[e] \notin tree
  <2>1. e = <<e[1], e[2]>> /\ <<inodes[edges[e]].parent, inodes[edges[e]].name>> = e
    BY <1>7 DEF EdgesSound
  <2>2. ASSUME e[1] \in tree
        PROVE  edges[e] \in tree
    BY <1>4, <1>8, <1>9, <2>1, <2>2 DEF Closed
  <2>3. ASSUME edges[e] \in tree, edges[e] # id
        PROVE  e[1] \in tree
    <3>1. PICK d \in tree \cap DOMAIN dirs : \E n \in DOMAIN dirs[d].kids : dirs[d].kids[n] = edges[e]
      BY <1>4, <2>3
    <3>2. PICK n \in DOMAIN dirs[d].kids : dirs[d].kids[n] = edges[e]
      BY <3>1
    <3>3. <<d, n>> \in DOMAIN edges /\ edges[<<d, n>>] = edges[e]
      BY <1>8, <1>9, <3>2
    <3>4. <<d, n>> = e
      BY <2>1, <3>3 DEF EdgesSound
    <3> QED
      BY <3>1, <3>4
  <2>4. edges[e] = id => e = <<pid, name>>
    BY <1>3, <2>1
  <2>5. e \in DOMAIN edges' <=> e # <<pid, name>> /\ e[1] \notin tree
    BY <1>10, <2>1, Zenon
  <2>6. e = <<pid, name>> => edges[e] \in tree
    BY <1>3, <1>4, Zenon
  <2> QED
    BY <2>2, <2>3, <2>4, <2>5, <2>6, Zenon
<1>12. ASSUME NEW e \in DOMAIN edges'
       PROVE  e[1] \notin tree
  <2>1. e \in DOMAIN edges
    BY <1>1 DEF DeleteEffect
  <2> QED
    BY <1>7, <1>10, <2>1
<1> QED
  BY <1>11, <1>12 DEF id, tree

\* Delete leaves a tree: it takes whole subtrees.
LEMMA DeleteSound ==
    ASSUME Types, Numbers, Ids, Mem, EdgesSound, InodesSound, NoCycle, Rooted,
           NEW p \in Paths, NEW rec \in BOOLEAN, Delete(p, rec)
    PROVE  EdgesSound' /\ InodesSound' /\ NoCycle' /\ Rooted'
<1> DEFINE id == Resolve(p)
           tree == Subtree(id)
           pid == ParentOf(p)
           name == Last(p)
<1>1. DeleteEffect(p, tree, OwnParent(p))
  BY DeleteFacts
<1>2. up /\ up' = up /\ p \in Seq(Names) /\ p # <<>> /\ id # NoId
  BY <1>1 DEF DeleteEffect
<1>3. /\ id \in DOMAIN inodes /\ id \in given /\ id # Root /\ OwnParent(p) = pid
      /\ inodes[id].parent = pid /\ inodes[id].name = name
      /\ <<pid, name>> \in DOMAIN edges /\ edges[<<pid, name>>] = id
  BY <1>2, ResolvedFacts
<1>4. /\ id \in tree /\ Closed(tree)
      /\ \A x \in tree : x # id => \E d \in tree \cap DOMAIN dirs : \E n \in DOMAIN dirs[d].kids : dirs[d].kids[n] = x
  BY SubtreeFacts
<1> HIDE DEF id, tree, pid, name
<1>5. /\ DOMAIN inodes' = DOMAIN inodes \ tree
      /\ \A i \in DOMAIN inodes' : inodes'[i] = inodes[i]
      /\ DOMAIN edges' \subseteq DOMAIN edges
      /\ \A e \in DOMAIN edges' : edges'[e] = edges[e]
      /\ DOMAIN dirs' = DOMAIN dirs \ tree
      /\ \A d \in DOMAIN dirs' : dirs'[d].inode = dirs[d].inode
  BY <1>1 DEF DeleteEffect
<1>7. \A e \in DOMAIN edges : e = <<e[1], e[2]>>
  BY DEF Types
<1>11. /\ \A e \in DOMAIN edges : e \in DOMAIN edges' <=> edges[e] \notin tree
       /\ \A e \in DOMAIN edges' : e[1] \notin tree
  BY DeletedEdges DEF id, tree
<1>12. EdgesSound'
  <2> SUFFICES ASSUME NEW e \in DOMAIN edges'
               PROVE  /\ e[1] \in DOMAIN inodes' /\ inodes'[e[1]].isdir /\ edges'[e] \in DOMAIN inodes'
                      /\ <<inodes'[edges'[e]].parent, inodes'[edges'[e]].name>> = e
    BY DEF EdgesSound
  <2>1. e \in DOMAIN edges /\ edges'[e] = edges[e] /\ e = <<e[1], e[2]>> /\ edges[e] \notin tree
    BY <1>5, <1>7, <1>11
  <2>2. e[1] \notin tree
    BY <1>11
  <2> QED
    BY <1>5, <2>1, <2>2 DEF EdgesSound
<1>13. InodesSound'
  BY <1>5, <1>11 DEF InodesSound
<1>14. NoCycle'
  <2> SUFFICES ASSUME NEW S \in SUBSET (DOMAIN inodes' \ {Root}), \A i \in S : inodes'[i].parent \in S
               PROVE  S = {}
    BY DEF NoCycle
  <2>1. S \in SUBSET (DOMAIN inodes \ {Root}) /\ \A i \in S : inodes[i].parent \in S
    BY <1>5
  <2> QED
    BY <2>1 DEF NoCycle
<1>15. Root \notin tree
  <2> SUFFICES ASSUME Root \in tree
               PROVE  FALSE
    OBVIOUS
  <2>1. PICK d \in tree \cap DOMAIN dirs : \E n \in DOMAIN dirs[d].kids : dirs[d].kids[n] = Root
    BY <1>3, <1>4
  <2>2. Root \in given
    BY <2>1 DEF Ids
  <2> QED
    BY <2>2 DEF Numbers, Types, Root
<1>16. Rooted'
  BY <1>2, <1>5, <1>15 DEF Rooted, IsDir
<1> QED
  BY <1>12, <1>13, <1>14, <1>16

\* Paths that begin with p lead to everything below what p leads to.
LEMMA SubtreeHasPaths ==
    ASSUME Types, Mem, Rooted, up, NEW p \in Seq(Names)
    PROVE  \A x \in Subtree(StoredAt(p)) : \E s \in Seq(Names) : IsPrefix(p, s) /\ StoredAt(s) = x
<1> DEFINE E == {StoredAt(s) : s \in {s \in Seq(Names) : IsPrefix(p, s)}}
<1>1. StoredAt(p) \in E
  BY DEF IsPrefix
<1>2. Closed(E)
  <2> SUFFICES ASSUME NEW d \in E \cap DOMAIN dirs, NEW n \in DOMAIN dirs[d].kids
               PROVE  dirs[d].kids[n] \in E
    BY DEF Closed
  <2>1. PICK s \in Seq(Names) : IsPrefix(p, s) /\ StoredAt(s) = d
    OBVIOUS
  <2>2. n \in Names
    BY DEF Types, IsDirs, IsEntry
  <2>3. <<d, n>> \in DOMAIN edges /\ edges[<<d, n>>] = dirs[d].kids[n]
    BY DEF Rooted, Mem
  <2> DEFINE t == Append(s, n)
  <2>4. t \in Seq(Names) /\ t # <<>> /\ Front(t) = s /\ Last(t) = n
    BY <2>2, FrontOfAppend
  <2>5. IsPrefix(p, t)
    BY <2>1, <2>2, PrefixOfAppend
  <2> HIDE DEF t
  <2>6. StoredAt(t) = Kid(edges, d, n)
    BY <2>1, <2>4, WalkStep DEF StoredAt
  <2> QED
    BY <2>3, <2>4, <2>5, <2>6 DEF Kid
<1>3. Subtree(StoredAt(p)) \subseteq E
  <2> HIDE DEF E
  <2> QED
    BY <1>1, <1>2, SubtreeFacts
<1> QED
  BY <1>3

\* Rename leaves a tree, for the kernel moves no directory below itself.
LEMMA RenameSound ==
    ASSUME Types, Numbers, Ids, Mem, EdgesSound, InodesSound, NoCycle, Rooted, kernel,
           NEW p \in Paths, NEW q \in Paths, Rename(p, q)
    PROVE  EdgesSound' /\ InodesSound' /\ NoCycle' /\ Rooted'
<1>1. PICK id, pid, name, opid, oname, inode :
         /\ id = Resolve(p) /\ pid = ParentOf(q) /\ name = Last(q) /\ opid = OwnParent(p) /\ oname = OwnName(p)
         /\ RenameEffect(p, q, id, pid, name, opid, oname, inode)
  BY RenameFacts
<1>2. /\ up /\ up' = up /\ p \in Seq(Names) /\ p # <<>> /\ q \in Seq(Names) /\ q # <<>> /\ ~IsPrefix(p, q)
      /\ id # NoId /\ IsDir(pid) /\ name \notin DOMAIN dirs[pid].kids
      /\ DOMAIN inodes' = DOMAIN inodes \cup {id}
      /\ inodes'[id] = inode /\ \A i \in DOMAIN inodes : i # id => inodes'[i] = inodes[i]
      /\ inode.parent = pid /\ inode.name = name
      /\ inode.isdir = (IF id \in DOMAIN dirs THEN dirs[id].inode ELSE inodes[id]).isdir
  BY <1>1 DEF RenameEffect
<1>3. /\ \A e : e \in DOMAIN edges' <=> (e \in DOMAIN edges /\ e # <<opid, oname>>) \/ e = <<pid, name>>
      /\ \A e \in DOMAIN edges' : edges'[e] = IF e = <<pid, name>> THEN id ELSE edges[e]
      /\ DOMAIN dirs' = DOMAIN dirs \cup {opid}
  BY <1>1 DEF RenameEffect
<1>4. \A d \in DOMAIN dirs' : dirs'[d].inode = IF d = id /\ id \in DOMAIN dirs THEN inode ELSE At(dirs, d).inode
  BY <1>1 DEF RenameEffect
<1>5. /\ id \in DOMAIN inodes /\ id # Root /\ inodes[id].parent = opid /\ inodes[id].name = oname
      /\ IsDir(opid) /\ <<opid, oname>> \in DOMAIN edges /\ edges[<<opid, oname>>] = id
  BY <1>1, <1>2, ResolvedFacts, Zenon
<1>6. pid \in DOMAIN inodes /\ inodes[pid].isdir /\ <<pid, name>> \notin DOMAIN edges
  BY <1>2 DEF Mem
<1>7. DOMAIN inodes' = DOMAIN inodes /\ DOMAIN dirs' = DOMAIN dirs
  <2>1. DOMAIN inodes' = DOMAIN inodes \cup {id} /\ id \in DOMAIN inodes
    BY <1>2, <1>5, Zenon
  <2>2. DOMAIN dirs' = DOMAIN dirs \cup {opid} /\ opid \in DOMAIN dirs
    BY <1>3, <1>5, Zenon DEF IsDir
  <2>3. QED
    BY <2>1, <2>2
<1>8. \A i \in DOMAIN inodes : inodes'[i].isdir = inodes[i].isdir
  <2>1. id \in DOMAIN dirs => dirs[id].inode = inodes[id]
    BY <1>2, Zenon DEF Mem, Rooted
  <2>2. inode.isdir = inodes[id].isdir
    BY <1>2, <2>1
  <2>3. QED
    BY <1>2, <2>2, Zenon
<1>9. EdgesSound'
  <2> SUFFICES ASSUME NEW e \in DOMAIN edges'
               PROVE  /\ e[1] \in DOMAIN inodes' /\ inodes'[e[1]].isdir /\ edges'[e] \in DOMAIN inodes'
                      /\ <<inodes'[edges'[e]].parent, inodes'[edges'[e]].name>> = e
    BY DEF EdgesSound
  <2>1. CASE e = <<pid, name>>
    BY <1>2, <1>3, <1>5, <1>6, <1>7, <1>8, <2>1
  <2>2. CASE e # <<pid, name>>
    <3>1. e \in DOMAIN edges /\ e # <<opid, oname>> /\ edges'[e] = edges[e]
      BY <1>3, <2>2
    <3>2. /\ e[1] \in DOMAIN inodes /\ inodes[e[1]].isdir /\ edges[e] \in DOMAIN inodes
          /\ <<inodes[edges[e]].parent, inodes[edges[e]].name>> = e
      BY <3>1 DEF EdgesSound
    <3>3. edges[e] # id
      BY <1>5, <3>1, <3>2
    <3> QED
      BY <1>2, <1>7, <1>8, <3>1, <3>2, <3>3
  <2> QED
    BY <2>1, <2>2
<1>10. InodesSound'
  <2> SUFFICES ASSUME NEW i \in DOMAIN inodes', i # Root
               PROVE  /\ <<inodes'[i].parent, inodes'[i].name>> \in DOMAIN edges'
                      /\ edges'[<<inodes'[i].parent, inodes'[i].name>>] = i
    BY Zenon DEF InodesSound
  <2>1. CASE i = id
    BY <1>2, <1>3, <2>1
  <2>2. CASE i # id
    <3> DEFINE e == <<inodes[i].parent, inodes[i].name>>
    <3>1. e \in DOMAIN edges /\ edges[e] = i /\ inodes'[i] = inodes[i]
      BY <1>2, <1>7, <2>2 DEF InodesSound
    <3> HIDE DEF e
    <3>2. e # <<opid, oname>> /\ e # <<pid, name>>
      BY <1>5, <1>6, <2>2, <3>1
    <3>3. e \in DOMAIN edges' /\ edges'[e] = i
      BY <1>3, <3>1, <3>2
    <3> QED
      BY <3>1, <3>3 DEF e
  <2> QED
    BY <2>1, <2>2
\* what is below id is where paths that begin with p lead
<1>11. pid \notin Subtree(id)
  <2>1. \A s : Resolve(s) = StoredAt(s)
    BY <1>2, ResolveIsStoredAt
  <2> SUFFICES ASSUME pid \in Subtree(id)
               PROVE  FALSE
    OBVIOUS
  <2>5. PICK s \in Seq(Names) : IsPrefix(p, s) /\ StoredAt(s) = pid
    BY <1>1, <1>2, <2>1, SubtreeHasPaths
  <2>6. Front(q) \in Seq(Names) /\ StoredAt(Front(q)) = pid /\ pid # NoId
    BY <1>1, <1>2, <1>6, <2>1, FrontLast, Zenon DEF ParentOf, Rooted
  <2>7. s = Front(q)
    BY <2>5, <2>6, PathsAreUnique DEF Rooted
  <2>8. q = Append(s, Last(q)) /\ Last(q) \in Names
    BY <1>2, <2>7, FrontLast
  <2>9. IsPrefix(p, q)
    <3>1. \A n \in Names : IsPrefix(p, Append(s, n))
      BY <1>2, <2>5, PrefixOfAppend
    <3> QED
      BY <2>8, <3>1, Zenon
  <2> QED
    BY <1>2, <2>9
<1>12. NoCycle'
  <2> SUFFICES ASSUME NEW S \in SUBSET (DOMAIN inodes' \ {Root}), \A i \in S : inodes'[i].parent \in S, S # {}
               PROVE  FALSE
    BY DEF NoCycle
  <2> DEFINE T == S \ Subtree(id)
  <2>1. T \in SUBSET (DOMAIN inodes \ {Root})
    BY <1>7
  <2>2. ASSUME NEW i \in T
        PROVE  inodes[i].parent \in T
    <3>1. i # id /\ i \in DOMAIN inodes /\ i # Root
      BY <1>7, SubtreeFacts
    <3>2. inodes[i].parent \in S
      BY <1>2, <3>1
    <3> DEFINE d == inodes[i].parent
               n == inodes[i].name
    <3>3. <<d, n>> \in DOMAIN edges /\ edges[<<d, n>>] = i
      BY <3>1 DEF InodesSound
    <3> HIDE DEF d, n
    <3>4. d \in DOMAIN dirs /\ n \in DOMAIN dirs[d].kids /\ dirs[d].kids[n] = i
      <4>1. <<d, n>>[1] \in DOMAIN inodes /\ inodes[<<d, n>>[1]].isdir
        BY <3>3 DEF EdgesSound
      <4>2. d \in DOMAIN inodes /\ inodes[d].isdir
        BY <4>1, Zenon
      <4>3. IsDir(d)
        BY <1>2, <4>2, Zenon DEF Mem
      <4>4. \A k : /\ k \in DOMAIN dirs[d].kids <=> <<d, k>> \in DOMAIN edges
                   /\ k \in DOMAIN dirs[d].kids => dirs[d].kids[k] = edges[<<d, k>>]
        BY <1>2, <4>3, Zenon DEF Mem
      <4> QED
        BY <3>3, <4>3, <4>4, Zenon DEF IsDir
    <3>5. d \notin Subtree(id)
      BY <3>4, SubtreeFacts DEF Closed
    <3> QED
      BY <3>2, <3>5 DEF d
  <2>3. T = {}
    BY <2>1, <2>2, Zenon DEF NoCycle
  <2>4. id \in S
    <3> SUFFICES ASSUME id \notin S
                 PROVE  FALSE
      OBVIOUS
    <3>1. S \in SUBSET (DOMAIN inodes \ {Root}) /\ \A i \in S : inodes[i].parent \in S
      BY <1>2, <1>7
    <3> QED
      BY <3>1 DEF NoCycle
  <2>5. pid \in S
    BY <1>2, <2>4
  <2> QED
    BY <1>11, <2>3, <2>5
<1>13. Rooted'
  <2>1. ASSUME NEW d \in DOMAIN dirs'
        PROVE  IsDir(d)'
    <3>1. d \in DOMAIN dirs /\ dirs[d].inode.isdir /\ At(dirs, d) = dirs[d]
      BY <1>2, <1>7 DEF Rooted, IsDir, At
    <3>2. dirs'[d].inode.isdir
      BY <1>2, <1>4, <3>1
    <3> QED
      BY <3>2 DEF IsDir
  <2> QED
    BY <1>2, <1>7, <1>8, <2>1 DEF Rooted
<1> QED
  BY <1>9, <1>10, <1>12, <1>13

\* A CreateDirectory behind FUSE is at a directory.
LEMMA AtADirectory ==
    ASSUME Types, Mem, Way, up, mkdir # NoMkdir
    PROVE  IsDir(mkdir.cur)
<1>1. Len(mkdir.rest) \in Nat \ {0} /\ mkdir.cur # NoId
  BY DEF Types
<1> QED
  BY <1>1 DEF Way, Mem

\* A turn of its loop that goes on to an entry, or to a new directory.
LEMMA AdvanceWay ==
    ASSUME Types, Way, mkdir # NoMkdir, mkdir' # NoMkdir, NEW id, Advance(id), UNCHANGED inodes, UNCHANGED edges,
           id = Kid(edges, mkdir.cur, Head(mkdir.rest))
    PROVE  Way'
<1> DEFINE rest == mkdir.rest
           n == Len(rest)
<1>1. rest \in Seq(Names) /\ rest # <<>>
  BY DEF Types
<1>2. mkdir' = [mkdir EXCEPT !.cur = id, !.rest = Tail(@)] /\ n # 1
  BY DEF Advance
<1>3. mkdir'.cur = id /\ mkdir'.rest = Tail(rest)
  BY <1>2 DEF Types
<1>4. n \in Nat /\ n # 0 /\ Len(Tail(rest)) = n - 1 /\ \A i \in 1 .. n - 1 : Tail(rest)[i] = rest[i + 1]
  BY <1>1
<1>5. Head(rest) = rest[1]
  BY <1>1
<1>6. PICK w \in [1 .. n -> Nat] :
         /\ w[1] = mkdir.cur
         /\ \A i \in 1 .. n - 1 : w[i + 1] = Kid(edges, w[i], rest[i])
         /\ \A i \in 1 .. n : w[i] = NoId \/ (w[i] \in DOMAIN inodes /\ inodes[w[i]].isdir)
  BY DEF Way
<1>7. id = Kid(edges, mkdir.cur, rest[1])
  BY <1>5
<1> HIDE DEF rest, n
<1> DEFINE v == [i \in 1 .. n - 1 |-> w[i + 1]]
<1>8. n > 1
  BY <1>2, <1>4
<1>9. v \in [1 .. n - 1 -> Nat]
  BY <1>4
<1>10. v[1] = id
  <2>1. 1 \in 1 .. n - 1
    BY <1>4, <1>8
  <2>2. w[1 + 1] = Kid(edges, w[1], rest[1])
    BY <1>6, <2>1
  <2> QED
    BY <1>6, <1>7, <2>1, <2>2
<1>11. ASSUME NEW i \in 1 .. (n - 1) - 1
       PROVE  v[i + 1] = Kid(edges, v[i], Tail(rest)[i])
  <2>1. i \in 1 .. n - 1 /\ i + 1 \in 1 .. n - 1
    BY <1>4
  <2>2. v[i] = w[i + 1] /\ v[i + 1] = w[(i + 1) + 1] /\ Tail(rest)[i] = rest[i + 1]
    BY <1>4, <2>1
  <2> QED
    BY <1>6, <2>1, <2>2, Zenon
<1>12. ASSUME NEW i \in 1 .. n - 1
       PROVE  v[i] = NoId \/ (v[i] \in DOMAIN inodes /\ inodes[v[i]].isdir)
  <2>1. i + 1 \in 1 .. n
    BY <1>4
  <2> QED
    BY <1>6, <2>1
<1>13. Len(mkdir'.rest) = n - 1
  BY <1>3, <1>4
<1> HIDE DEF v
<1>14. \E u \in [1 .. n - 1 -> Nat] :
         /\ u[1] = id
         /\ \A i \in 1 .. (n - 1) - 1 : u[i + 1] = Kid(edges', u[i], Tail(rest)[i])
         /\ \A i \in 1 .. n - 1 : u[i] = NoId \/ (u[i] \in DOMAIN inodes' /\ inodes'[u[i]].isdir)
  BY <1>9, <1>10, <1>11, <1>12, Zenon
<1> QED
  BY <1>3, <1>13, <1>14, Zenon DEF Way

\* Below a new directory there is nothing yet.
LEMMA NewWay ==
    ASSUME Types, Types', mkdir # NoMkdir, Advance(nextId),
           nextId \in DOMAIN inodes', inodes'[nextId].isdir,
           \A n : <<nextId, n>> \notin DOMAIN edges', \A n : <<NoId, n>> \notin DOMAIN edges'
    PROVE  Way'
<1> SUFFICES ASSUME mkdir' # NoMkdir
             PROVE  Way'
  BY DEF Way
<1> DEFINE n == Len(mkdir'.rest)
           v == [i \in 1 .. n |-> IF i = 1 THEN nextId ELSE NoId]
<1>1. mkdir'.cur = nextId
  BY DEF Advance, Types
<1>2. n \in Nat \ {0}
  BY DEF Types
<1> HIDE DEF n
<1>3. v \in [1 .. n -> Nat] /\ v[1] = nextId
  BY <1>2 DEF Types, NoId
<1>4. \A x : Kid(edges', nextId, x) = NoId /\ Kid(edges', NoId, x) = NoId
  BY DEF Kid
<1>5. ASSUME NEW i \in 1 .. n - 1
      PROVE  v[i + 1] = Kid(edges', v[i], mkdir'.rest[i])
  <2>1. i \in 1 .. n /\ i + 1 \in 1 .. n /\ i + 1 # 1
    BY <1>2
  <2> QED
    BY <1>4, <2>1
<1>6. \A i \in 1 .. n : v[i] = NoId \/ (v[i] \in DOMAIN inodes' /\ inodes'[v[i]].isdir)
  OBVIOUS
<1> HIDE DEF v
<1>7. \E w \in [1 .. n -> Nat] :
         /\ w[1] = nextId
         /\ \A i \in 1 .. n - 1 : w[i + 1] = Kid(edges', w[i], mkdir'.rest[i])
         /\ \A i \in 1 .. n : w[i] = NoId \/ (w[i] \in DOMAIN inodes' /\ inodes'[w[i]].isdir)
  BY <1>3, <1>5, <1>6, Zenon
<1> QED
  BY <1>1, <1>7 DEF Way, n

\* The kernel has looked up the path of a CreateDirectory.
LEMMA FirstWay ==
    ASSUME Types, Ids, Mem, Rooted, kernel, NEW p \in Paths, NEW rec \in BOOLEAN, Mkdir(p, rec)
    PROVE  Way'
<1>1. /\ up /\ p # <<>> /\ p \in Seq(Names) /\ inodes' = inodes /\ edges' = edges
      /\ mkdir'.cur = Root /\ mkdir'.rest = p
      /\ \A i \in 1 .. Len(p) - 1 : Resolve(SubSeq(p, 1, i)) = NoId \/ IsDir(Resolve(SubSeq(p, 1, i)))
  BY PathsAreSeqs DEF Mkdir, Unlocked, memory, store
<1> DEFINE n == Len(p)
           v == [i \in 1 .. n |-> StoredAt(SubSeq(p, 1, i - 1))]
<1>2. n \in Nat \ {0}
  BY <1>1
<1>3. \A i \in 1 .. n : SubSeq(p, 1, i - 1) \in Seq(Names) /\ Resolve(SubSeq(p, 1, i - 1)) = StoredAt(SubSeq(p, 1, i - 1))
  BY <1>1, ResolveIsStoredAt
<1>4. v \in [1 .. n -> Nat]
  BY <1>1, <1>3, ResolveFacts, Zenon
<1>5. v[1] = Root
  <2>1. v[1] = StoredAt(SubSeq(p, 1, 1 - 1))
    BY <1>2
  <2>2. SubSeq(p, 1, 1 - 1) = <<>>
    BY <1>1
  <2> QED
    BY <2>1, <2>2, WalkStep, Zenon DEF StoredAt
<1>6. ASSUME NEW i \in 1 .. n - 1
      PROVE  v[i + 1] = Kid(edges, v[i], p[i])
  <2> DEFINE s == SubSeq(p, 1, i)
  <2>0. i \in 1 .. n /\ i + 1 \in 1 .. n /\ (i + 1) - 1 = i /\ i \in Nat /\ i # 0
    BY <1>2
  <2>1. s \in Seq(Names) /\ s # <<>> /\ Front(s) = SubSeq(p, 1, i - 1) /\ Last(s) = p[i]
    <3>1. s \in Seq(Names) /\ Len(s) = i
      BY <1>1, <2>0
    <3>2. s # <<>>
      BY <2>0, <3>1
    <3>3. Front(s) = SubSeq(p, 1, i - 1)
      BY <1>1, <2>0, <3>1 DEF Front
    <3>4. Last(s) = p[i]
      <4>1. s[i] = p[i]
        BY <1>1, <2>0
      <4> HIDE DEF s
      <4>2. Last(s) = s[i]
        BY <3>1, Zenon DEF Last
      <4> QED
        BY <4>1, <4>2
    <3> QED
      BY <3>1, <3>2, <3>3, <3>4
  <2> HIDE DEF s
  <2>2. StoredAt(s) = Kid(edges, StoredAt(Front(s)), Last(s))
    BY <2>1, WalkStep, Zenon DEF StoredAt
  <2>3. v[i + 1] = StoredAt(s) /\ v[i] = StoredAt(Front(s))
    BY <2>0, <2>1, Zenon DEF s
  <2> QED
    BY <2>1, <2>2, <2>3
<1>7. ASSUME NEW i \in 1 .. n
      PROVE  v[i] = NoId \/ (v[i] \in DOMAIN inodes /\ inodes[v[i]].isdir)
  <2>1. CASE i = 1
    BY <1>1, <1>5, <2>1 DEF Rooted, Mem
  <2>2. CASE i # 1
    <3>1. i - 1 \in 1 .. n - 1
      BY <1>2, <2>2
    <3>2. v[i] = Resolve(SubSeq(p, 1, i - 1))
      BY <1>3
    <3>3. v[i] = NoId \/ IsDir(v[i])
      BY <1>1, <3>1, <3>2
    <3> QED
      BY <1>1, <3>3 DEF Mem
  <2> QED
    BY <2>1, <2>2
<1> HIDE DEF v
<1>8. \E w \in [1 .. n -> Nat] :
         /\ w[1] = Root
         /\ \A i \in 1 .. n - 1 : w[i + 1] = Kid(edges', w[i], p[i])
         /\ \A i \in 1 .. n : w[i] = NoId \/ (w[i] \in DOMAIN inodes' /\ inodes'[w[i]].isdir)
  BY <1>1, <1>4, <1>5, <1>6, <1>7
<1> QED
  BY <1>1, <1>8, Zenon DEF Way

\* Behind FUSE every operation keeps the tree.
LEMMA SoundStep ==
    ASSUME Types, Types', Numbers, Ids, Mem, Sound, [Next]_vars
    PROVE  Sound'
<1> USE DEF ids, memory, store
<1>0. kernel' = kernel
  BY Zenon DEF Next, vars, CreateFile, CreateFileFails, BelowFile, Mkdir, MkdirRefused, MkdirEnter, MkdirNoParent,
         MkdirMake, MkdirFails, CompleteFile, Delete, Rename, UpdateSize, UpdateSizeInMemory, Recover, Crash
<1> SUFFICES ASSUME kernel
             PROVE  EdgesSound' /\ InodesSound' /\ NoCycle' /\ Rooted' /\ Way'
  BY <1>0 DEF Sound
<1>a. EdgesSound /\ InodesSound /\ NoCycle /\ Rooted /\ Way
  BY DEF Sound
<1> DEFINE Goal == EdgesSound' /\ InodesSound' /\ NoCycle' /\ Rooted' /\ Way'
<1>b. ASSUME UNCHANGED <<dirs, inodes, edges, up>>
      PROVE  EdgesSound' /\ InodesSound' /\ NoCycle' /\ Rooted'
  BY <1>a, <1>b DEF EdgesSound, InodesSound, NoCycle, Rooted, IsDir
<1>c. mkdir' = NoMkdir => Way'
  BY DEF Way
<1>1. CASE UNCHANGED vars
  BY <1>1, <1>a, <1>b DEF vars, Way
<1>2. ASSUME NEW p \in Paths, NEW r \in BOOLEAN, CreateFile(p, r)
      PROVE  Goal
  <2>1. ParentOf(p) \in Nat /\ Last(p) \in Names
    BY <1>2, PathsAreSeqs, ResolveFacts DEF CreateFile, ParentOf
  <2>2. MakesNew(ParentOf(p), Last(p), FALSE) /\ mkdir' = NoMkdir
    BY <1>2, <2>1 DEF CreateFile, CommitNew, MakesNew, Unlocked
  <2> QED
    BY <1>a, <1>c, <2>2, MakesNewSound, Zenon
<1>3. ASSUME NEW p \in Paths, NEW r \in BOOLEAN, CreateFileFails(p, r)
      PROVE  Goal
  BY <1>3, <1>b, <1>c DEF CreateFileFails, Unlocked
<1>4. ASSUME NEW p \in Paths, BelowFile(p)
      PROVE  Goal
  BY <1>4 DEF BelowFile
<1>5. ASSUME NEW p \in Paths, NEW rec \in BOOLEAN, Mkdir(p, rec)
      PROVE  Goal
  BY <1>5, <1>a, <1>b, FirstWay DEF Mkdir
<1>6. ASSUME MkdirRefused
      PROVE  Goal
  BY <1>6, <1>a, AtADirectory DEF MkdirRefused
<1>7. ASSUME MkdirEnter
      PROVE  Goal
  <2> DEFINE id == dirs[mkdir.cur].kids[Head(mkdir.rest)]
  <2>1. /\ up /\ mkdir # NoMkdir /\ IsDir(mkdir.cur) /\ Head(mkdir.rest) \in DOMAIN dirs[mkdir.cur].kids
        /\ Advance(id) /\ UNCHANGED <<dirs, inodes, edges, up>>
    BY <1>7 DEF MkdirEnter, Missing
  <2>2. id = Kid(edges, mkdir.cur, Head(mkdir.rest))
    BY <2>1 DEF Mem, Kid
  <2> HIDE DEF id
  <2>3. Way'
    BY <1>a, <1>c, <2>1, <2>2, AdvanceWay
  <2> QED
    BY <1>b, <2>1, <2>3
<1>8. ASSUME MkdirNoParent
      PROVE  Goal
  BY <1>8, <1>b, <1>c DEF MkdirNoParent
<1>9. ASSUME NEW r \in BOOLEAN, MkdirMake(r)
      PROVE  Goal
  <2> DEFINE cur == mkdir.cur
             name == Head(mkdir.rest)
  <2>1. cur \in Nat /\ name \in Names /\ Inode(cur, name, TRUE).name = name /\ Inode(cur, name, TRUE).isdir
    <3>1. mkdir # NoMkdir
      BY <1>9, Zenon DEF MkdirMake
    <3>2. cur \in Nat /\ mkdir.rest \in Seq(Names) /\ mkdir.rest # <<>>
      BY <3>1 DEF Types
    <3>3. name \in Names
      BY <3>2
    <3>4. name \in Names \cup {""} /\ TRUE \in BOOLEAN
      BY <3>3
    <3> HIDE DEF cur, name
    <3>5. Inode(cur, name, TRUE).name = name /\ Inode(cur, name, TRUE).isdir = TRUE
      BY <3>2, <3>4, NewInode, Zenon
    <3>6. QED
      BY <3>2, <3>3, <3>5, Zenon
  <2>2. MakesNew(cur, name, TRUE) /\ Advance(nextId) /\ mkdir # NoMkdir /\ up
    BY <1>9, <2>1, Zenon DEF MkdirMake, CommitNew, MakesNew, Missing
  <2> HIDE DEF cur, name
  <2>3. EdgesSound' /\ InodesSound' /\ NoCycle' /\ Rooted'
    BY <1>a, <2>2, MakesNewSound, Zenon
  <2>4. /\ nextId \in DOMAIN inodes' /\ inodes'[nextId] = Inode(cur, name, TRUE)
        /\ DOMAIN edges' = DOMAIN edges \cup {<<cur, name>>}
    BY <2>2 DEF MakesNew, Put
  <2>5. \A n : <<nextId, n>> \notin DOMAIN edges'
    BY <2>2, <2>4, NextIdIsFresh DEF MakesNew, IsDir
  <2>6. \A n : <<NoId, n>> \notin DOMAIN edges'
    BY <2>3 DEF EdgesSound, Rooted
  <2> QED
    BY <2>1, <2>2, <2>3, <2>4, <2>5, <2>6, NewWay, Zenon
<1>10. ASSUME NEW r \in BOOLEAN, MkdirFails(r)
       PROVE  Goal
  BY <1>10, <1>b, <1>c DEF MkdirFails
\* a file of the store gets another size
<1>11. ASSUME NEW id \in DOMAIN inodes, UNCHANGED <<dirs, edges, up>>, mkdir' = NoMkdir,
              DOMAIN inodes' = DOMAIN inodes, \A i \in DOMAIN inodes : i # id => inodes'[i] = inodes[i],
              inodes'[id].parent = inodes[id].parent, inodes'[id].isdir = inodes[id].isdir,
              inodes'[id].name = inodes[id].name
       PROVE  Goal
  <2>1. \A i \in DOMAIN inodes : /\ inodes'[i].parent = inodes[i].parent /\ inodes'[i].name = inodes[i].name
                                 /\ inodes'[i].isdir = inodes[i].isdir
    BY <1>11
  <2>2. EdgesSound'
    BY <1>11, <1>a, <2>1 DEF EdgesSound
  <2>3. InodesSound'
    BY <1>11, <1>a, <2>1 DEF InodesSound
  <2>4. NoCycle'
    <3> SUFFICES ASSUME NEW S \in SUBSET (DOMAIN inodes \ {Root}), \A i \in S : inodes'[i].parent \in S
                 PROVE  S = {}
      BY <1>11 DEF NoCycle
    <3> QED
      BY <1>a, <2>1 DEF NoCycle
  <2>5. Rooted'
    BY <1>11, <1>a, <2>1 DEF Rooted, IsDir
  <2> QED
    BY <1>11, <1>c, <2>2, <2>3, <2>4, <2>5
<1>12. ASSUME NEW id \in given, NEW size \in Sizes[kernel], CompleteFile(id, size)
       PROVE  Goal
  <2>1. id \in DOMAIN inodes /\ inodes[id] \in InodeRecord
    BY <1>12 DEF CompleteFile, Types
  <2>2. /\ DOMAIN inodes' = DOMAIN inodes /\ \A i \in DOMAIN inodes : i # id => inodes'[i] = inodes[i]
        /\ inodes'[id].parent = inodes[id].parent /\ inodes'[id].isdir = inodes[id].isdir
        /\ inodes'[id].name = inodes[id].name
        /\ UNCHANGED <<dirs, edges, up>> /\ mkdir' = NoMkdir
    BY <1>12, <2>1, Zenon DEF CompleteFile, InodeRecord, Unlocked
  <2> QED
    BY <1>11, <2>1, <2>2
<1>13. ASSUME NEW p \in Paths, NEW rec \in BOOLEAN, Delete(p, rec)
       PROVE  Goal
  <2>1. mkdir' = NoMkdir
    BY <1>13 DEF Delete, Unlocked
  <2> QED
    BY <1>13, <1>a, <1>c, <2>1, DeleteSound
<1>14. ASSUME NEW p \in Paths, NEW q \in Paths, Rename(p, q)
       PROVE  Goal
  <2>1. mkdir' = NoMkdir
    BY <1>14 DEF Rename, Unlocked
  <2> QED
    BY <1>14, <1>a, <1>c, <2>1, RenameSound
<1>15. ASSUME NEW id \in given \cup {NoId}, NEW size \in Sizes[kernel], UpdateSize(id, size)
       PROVE  Goal
  <2>1. id \in DOMAIN inodes /\ inodes[id] \in InodeRecord
    BY <1>15 DEF UpdateSize, Types
  <2>2. /\ DOMAIN inodes' = DOMAIN inodes /\ \A i \in DOMAIN inodes : i # id => inodes'[i] = inodes[i]
        /\ inodes'[id].parent = inodes[id].parent /\ inodes'[id].isdir = inodes[id].isdir
        /\ inodes'[id].name = inodes[id].name
        /\ UNCHANGED <<dirs, edges, up>> /\ mkdir' = NoMkdir
    BY <1>15, <2>1, Zenon DEF UpdateSize, InodeRecord, Unlocked
  <2> QED
    BY <1>11, <2>1, <2>2
<1>16. ASSUME NEW id \in given \cup {NoId}, NEW size \in Sizes[kernel], NEW ok \in BOOLEAN,
              UpdateSizeInMemory(id, size, ok)
       PROVE  Goal
  BY <1>16, <1>a DEF UpdateSizeInMemory, Unlocked, Rooted
<1>17. ASSUME Recover
       PROVE  Goal
  <2>1. ~up /\ up' /\ edges' = edges /\ mkdir' = mkdir
    BY <1>17 DEF Recover
  <2>2. CASE Root \in DOMAIN Rebuilt
    <3>1. dirs' = Rebuilt /\ inodes' = inodes
      BY <1>17, <2>2 DEF Recover
    <3>2. \A i \in DOMAIN Rebuilt : i \in DOMAIN inodes /\ inodes[i].isdir /\ Rebuilt[i].inode = inodes[i]
      BY RebuiltFacts
    <3>3. Rooted'
      BY <1>a, <2>1, <2>2, <3>1, <3>2 DEF Rooted, IsDir
    <3>4. EdgesSound' /\ InodesSound' /\ NoCycle' /\ Way'
      BY <1>a, <2>1, <3>1 DEF EdgesSound, InodesSound, NoCycle, Way
    <3> QED
      BY <3>3, <3>4
  <2>3. CASE Root \notin DOMAIN Rebuilt
    <3>1. DOMAIN inodes = {} /\ DOMAIN Rebuilt = {}
      BY <1>a, <2>3, RebuiltFacts DEF Rooted
    <3>2. DOMAIN edges = {}
      BY <1>a, <3>1, Zenon DEF EdgesSound
    <3>3. /\ DOMAIN dirs' = {Root} /\ dirs'[Root] = RootEntry
          /\ DOMAIN inodes' = {Root} /\ inodes'[Root] = RootEntry.inode
      BY <1>17, <2>3, <3>1 DEF Recover, Put
    <3>4. RootEntry.inode.isdir /\ Root # NoId
      <4>1. RootEntry.inode.isdir
        BY Zenon DEF RootEntry, Inode
      <4>2. Root # NoId
        BY DEF Root, NoId
      <4> QED
        BY <4>1, <4>2
    <3>5. Rooted'
      <4>1. NoId \notin DOMAIN inodes' /\ Root \in DOMAIN inodes' /\ inodes'[Root].isdir
        BY <3>3, <3>4
      <4>2. Root \in DOMAIN dirs' /\ \A d \in DOMAIN dirs' : dirs'[d].inode.isdir
        BY <3>3, <3>4
      <4> QED
        BY <4>1, <4>2 DEF Rooted, IsDir
    <3>6. EdgesSound' /\ InodesSound' /\ NoCycle'
      <4>1. EdgesSound' /\ InodesSound'
        BY <2>1, <3>2, <3>3 DEF EdgesSound, InodesSound
      <4>2. DOMAIN inodes' \ {Root} = {}
        BY <3>3
      <4>3. NoCycle'
        BY <4>2 DEF NoCycle
      <4> QED
        BY <4>1, <4>3
    <3>7. Way'
      <4> SUFFICES ASSUME mkdir # NoMkdir
                   PROVE  FALSE
        BY <2>1 DEF Way
      <4>1. Len(mkdir.rest) \in Nat \ {0} /\ mkdir.cur # NoId
        BY DEF Types
      <4> QED
        BY <1>a, <3>1, <4>1 DEF Way
    <3> QED
      BY <3>5, <3>6, <3>7
  <2> QED
    BY <2>2, <2>3
<1>18. ASSUME Crash
       PROVE  Goal
  <2>1. ~up' /\ UNCHANGED <<inodes, edges>> /\ mkdir' = NoMkdir
    BY <1>18 DEF Crash
  <2> QED
    BY <1>a, <1>c, <2>1 DEF EdgesSound, InodesSound, NoCycle, Rooted
<1> QED
  BY <1>1, <1>2, <1>3, <1>4, <1>5, <1>6, <1>7, <1>8, <1>9, <1>10, <1>12, <1>13, <1>14, <1>15, <1>16, <1>17, <1>18, Zenon
     DEF Next

\* TreeIsSound: behind FUSE the store stays a tree, whatever is created, renamed and
\* deleted, whichever commits of operations fail, and wherever a crash cuts a
\* CreateDirectory short.
THEOREM TreeHolds == ASSUME ~CounterFails PROVE Spec => []TreeIsSound
<1> DEFINE IInv == Types /\ Numbers /\ Ids /\ Mem /\ Sound
<1>1. Init => IInv
  <2>1. Init => Sound
    BY EmptyMapFacts DEF Init, Sound, EdgesSound, InodesSound, NoCycle, Rooted, Way
  <2> QED
    BY <2>1, InitTypes, InitIdsMem
<1>2. IInv => TreeIsSound
  BY DEF Sound, TreeIsSound, EdgesSound, InodesSound, NoCycle
<1>3. IInv /\ [Next]_vars => IInv'
  BY TypesStep, NumbersStep, IdsMemStep, SoundStep
<1> QED
  BY <1>1, <1>2, <1>3, PTL DEF Spec
=============================================================================
