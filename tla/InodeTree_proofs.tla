-------------------------- MODULE InodeTree_proofs --------------------------
(***************************************************************************)
(* Proofs about the master's namespace.  The inductive invariant is built  *)
(* up in the order in which its parts need each other: Types; Numbers (no  *)
(* id is given twice); Ids (whatever is in use was given); Mem (memory is  *)
(* the store).                                                             *)
(***************************************************************************)
EXTENDS InodeTree, WellFoundedInduction, TLAPS

IsEntry(x) ==
    /\ x = [inode |-> x.inode, kids |-> x.kids]
    /\ x.inode \in InodeRecord
    /\ x.kids \in [DOMAIN x.kids -> Nat \ {NoId}]
    /\ DOMAIN x.kids \subseteq Names

IsDirs(map) ==
    /\ map = [d \in DOMAIN map |-> map[d]]
    /\ DOMAIN map \subseteq Nat
    /\ \A d \in DOMAIN map : IsEntry(map[d])

\* TypeOK, the maps being maps; and there is a last inode id, for recovery.
Types ==
    /\ IsDirs(dirs)
    /\ inodes \in [DOMAIN inodes -> InodeRecord] /\ DOMAIN inodes \subseteq Nat
    /\ edges \in [DOMAIN edges -> Nat \ {NoId}] /\ DOMAIN edges \subseteq Nat \X Names
    /\ nextId \in Nat \ {0} /\ allocEnd \in Nat /\ stored \in Nat /\ given \in SUBSET Nat
    /\ up \in BOOLEAN /\ kernel \in BOOLEAN
    /\ mkdir \in [cur : Nat, rest : Seq(Names), rec : BOOLEAN]
    /\ mkdir # NoMkdir => mkdir.cur # NoId /\ mkdir.rest # <<>>
    /\ \E m \in Nat : \A i \in DOMAIN inodes : i <= m

\* An id given out is below the bound in the store and below the next one; ids are
\* taken from memory only while that bound is in the store.
Numbers ==
    /\ \A id \in given : id >= 2 /\ id < stored /\ (up => id < nextId)
    /\ up => nextId >= 2 /\ (nextId < allocEnd => stored = allocEnd)
    /\ stored # 1

\* Memory and the store know no ids but those given out, the root's, and that of a
\* default inode; and only directories have edges.
Known == given \cup {NoId, Root}
Ids ==
    /\ DOMAIN dirs \subseteq Known /\ DOMAIN inodes \subseteq Known
    /\ \A d \in DOMAIN dirs : /\ dirs[d].inode.parent \in Known
                              /\ \A n \in DOMAIN dirs[d].kids : dirs[d].kids[n] \in given
    /\ \A i \in DOMAIN inodes : inodes[i].parent \in Known
    /\ \A e \in DOMAIN edges : edges[e] \in given /\ e[1] \in DOMAIN inodes /\ inodes[e[1]].isdir
    /\ mkdir.cur \in Known

\* The directories of the store are those of memory, with the same entries.
Mem == up =>
    /\ \A d : (d \in DOMAIN inodes /\ inodes[d].isdir) <=> IsDir(d)
    /\ \A d : IsDir(d) =>
         /\ dirs[d].inode = inodes[d]
         /\ \A n : /\ n \in DOMAIN dirs[d].kids <=> <<d, n>> \in DOMAIN edges
                   /\ n \in DOMAIN dirs[d].kids => dirs[d].kids[n] = edges[<<d, n>>]

-----------------------------------------------------------------------------
(* Induction *)

\* A set of numbers that is not empty has a least one.
LEMMA LeastElement ==
    ASSUME NEW T \in SUBSET Nat, T # {}
    PROVE  \E n \in T : \A m \in T : n <= m
<1> DEFINE R == OpToRel(<, Nat)
<1>1. IsWellFoundedOn(R, Nat)
  BY NatLessThanWellFounded, Zenon
<1>2. \A m, n \in Nat : m < n => <<m, n>> \in R
  BY DEF OpToRel
<1> HIDE DEF R
<1>3. PICK n \in T : \A m \in T : ~ (<<m, n>> \in R)
  BY <1>1, WFMin, Zenon
<1>4. \A m \in T : ~(m < n)
  BY <1>2, <1>3, Zenon
<1>5. \A m \in T : n <= m
  BY <1>4
<1> QED
  BY <1>5

\* A set that has 0, and n + 1 whenever it has n, has every number.
LEMMA SetInduction ==
    ASSUME NEW S, 0 \in S, \A n \in Nat : n \in S => n + 1 \in S
    PROVE  \A n \in Nat : n \in S
<1>1. SUFFICES ASSUME Nat \ S # {} PROVE FALSE
  OBVIOUS
<1>2. PICK n \in Nat \ S : \A m \in Nat \ S : n <= m
  BY <1>1, LeastElement, Zenon
<1>3. n - 1 \in Nat /\ n - 1 \in S
  BY <1>2
<1> QED
  BY <1>2, <1>3

-----------------------------------------------------------------------------
(* Paths *)

\* A path is its front and its last name.
LEMMA FrontLast ==
    ASSUME NEW S, NEW p \in Seq(S), p # <<>>
    PROVE  /\ Front(p) \in Seq(S) /\ Last(p) \in S
           /\ Len(p) \in Nat \ {0} /\ Len(Front(p)) = Len(p) - 1
           /\ p = Append(Front(p), Last(p))
<1>1. Len(p) \in Nat \ {0} /\ DOMAIN p = 1 .. Len(p)
  OBVIOUS
<1>2. Last(p) \in S
  BY <1>1 DEF Last
<1>3. \A i \in 1 .. Len(p) - 1 : p[i] \in S
  BY <1>1
<1>4. /\ Front(p) \in Seq(S) /\ Len(Front(p)) = Len(p) - 1
      /\ \A i \in 1 .. Len(p) - 1 : Front(p)[i] = p[i]
  BY <1>1, <1>3 DEF Front
<1> DEFINE q == Append(Front(p), Last(p))
<1>5. p = q
  <2>1. /\ q \in Seq(S) /\ Len(q) = Len(Front(p)) + 1
        /\ \A i \in 1 .. Len(Front(p)) : q[i] = Front(p)[i]
        /\ q[Len(Front(p)) + 1] = Last(p)
    BY <1>2, <1>4
  <2>2. Len(q) = Len(p)
    BY <1>1, <1>4, <2>1
  <2> HIDE DEF q
  <2>3. ASSUME NEW i \in 1 .. Len(p) PROVE p[i] = q[i]
    <3>1. CASE i = Len(p)
      BY <1>1, <1>4, <2>1, <3>1 DEF Last
    <3>2. CASE i # Len(p)
      <4>0. \A n \in Nat : \A j \in 1 .. n : j # n => j \in 1 .. n - 1
        OBVIOUS
      <4>1. i \in 1 .. Len(p) - 1
        BY <1>1, <3>2, <4>0, Zenon
      <4>2. i \in 1 .. Len(Front(p))
        BY <1>4, <4>1, Zenon
      <4> QED
        BY <1>4, <2>1, <4>1, <4>2
    <3> QED
      BY <3>1, <3>2
  <2> QED
    BY <2>1, <2>2, <2>3
<1> QED
  BY <1>1, <1>2, <1>4, <1>5, Zenon

\* And the other way round.
LEMMA FrontOfAppend ==
    ASSUME NEW S, NEW p \in Seq(S), NEW n \in S
    PROVE  /\ Append(p, n) \in Seq(S) /\ Append(p, n) # <<>>
           /\ Front(Append(p, n)) = p /\ Last(Append(p, n)) = n
           /\ Len(Append(p, n)) = Len(p) + 1
<1> DEFINE q == Append(p, n)
<1>1. /\ Len(p) \in Nat /\ q \in Seq(S) /\ Len(q) = Len(p) + 1
      /\ \A i \in 1 .. Len(p) : q[i] = p[i]
      /\ q[Len(p) + 1] = n
  OBVIOUS
<1> HIDE DEF q
<1>2. q # <<>>
  BY <1>1
<1>3. Last(q) = n
  BY <1>1 DEF Last
<1>4. /\ Front(q) \in Seq(S) /\ Len(Front(q)) = Len(p)
      /\ \A i \in 1 .. Len(p) : Front(q)[i] = p[i]
  <2>1. \A i \in 1 .. Len(q) - 1 : q[i] \in S
    BY <1>1
  <2>2. /\ Front(q) \in Seq(S) /\ Len(Front(q)) = Len(q) - 1
        /\ \A i \in 1 .. Len(q) - 1 : Front(q)[i] = q[i]
    BY <1>1, <2>1 DEF Front
  <2> QED
    BY <1>1, <2>2
<1>5. Front(q) = p
  BY <1>1, <1>4
<1> QED
  BY <1>1, <1>2, <1>3, <1>5 DEF q

-----------------------------------------------------------------------------
(* Walks *)

\* f leads along the paths of up to n names as Walk does.
Leads(f, entries, n) ==
    f = [p \in {q \in Seq(Names) : Len(q) <= n} |->
           IF p = <<>> THEN Root ELSE Kid(entries, f[Front(p)], Last(p))]

\* There is such an f for every n.
LEMMA LeadsExists ==
    ASSUME NEW entries
    PROVE  \A n \in Nat : \E f : Leads(f, entries, n)
<1> DEFINE Upto(n) == {q \in Seq(Names) : Len(q) <= n}
           S == {n \in Nat : \E f : Leads(f, entries, n)}
<1>1. 0 \in S
  <2> DEFINE f == [p \in Upto(0) |-> Root]
  <2>1. \A p \in Upto(0) : p = <<>>
    OBVIOUS
  <2>2. f = [p \in Upto(0) |-> IF p = <<>> THEN Root ELSE Kid(entries, f[Front(p)], Last(p))]
    BY <2>1
  <2> QED
    BY <2>2, Zenon DEF Leads
<1>2. ASSUME NEW n \in Nat, n \in S PROVE n + 1 \in S
  <2>1. PICK f : Leads(f, entries, n)
    BY <1>2
  <2> DEFINE g == [p \in Upto(n + 1) |-> IF p = <<>> THEN Root ELSE Kid(entries, f[Front(p)], Last(p))]
  <2>2. ASSUME NEW p \in Upto(n + 1), p # <<>> PROVE Front(p) \in Upto(n)
    BY <2>2, FrontLast
  <2>3. \A q \in Upto(n) : q \in Upto(n + 1) /\ f[q] = g[q]
    <3>1. \A q \in Upto(n) : q \in Upto(n + 1)
      OBVIOUS
    <3>2. \A q \in Upto(n) : f[q] = IF q = <<>> THEN Root ELSE Kid(entries, f[Front(q)], Last(q))
      BY <2>1, Zenon DEF Leads
    <3>3. \A q \in Upto(n + 1) : g[q] = IF q = <<>> THEN Root ELSE Kid(entries, f[Front(q)], Last(q))
      OBVIOUS
    <3> HIDE DEF g, Upto
    <3> QED
      BY <3>1, <3>2, <3>3
  <2>4. \A p \in Upto(n + 1) : p # <<>> => f[Front(p)] = g[Front(p)]
    BY <2>2, <2>3, Zenon
  <2>5. g = [p \in Upto(n + 1) |-> IF p = <<>> THEN Root ELSE Kid(entries, g[Front(p)], Last(p))]
    BY <2>4
  <2>6. Leads(g, entries, n + 1)
    BY <2>5 DEF Leads
  <2> HIDE DEF g
  <2> QED
    BY <2>6
<1> HIDE DEF S
<1>3. \A n \in Nat : n \in S
  BY <1>1, <1>2, SetInduction
<1> QED
  BY <1>3 DEF S

\* Two of them agree.
LEMMA LeadsUnique ==
    ASSUME NEW entries, NEW m \in Nat, NEW n \in Nat, NEW f, NEW g,
           Leads(f, entries, m), Leads(g, entries, n),
           NEW p \in Seq(Names), Len(p) <= m, Len(p) <= n
    PROVE  f[p] = g[p]
<1> DEFINE Agree(q) == Len(q) <= m /\ Len(q) <= n => f[q] = g[q]
           S == {k \in Nat : \A q \in Seq(Names) : Len(q) = k => Agree(q)}
<1>1. \A q \in Seq(Names) : Len(q) <= m =>
          f[q] = IF q = <<>> THEN Root ELSE Kid(entries, f[Front(q)], Last(q))
  BY Zenon DEF Leads
<1>2. \A q \in Seq(Names) : Len(q) <= n =>
          g[q] = IF q = <<>> THEN Root ELSE Kid(entries, g[Front(q)], Last(q))
  BY Zenon DEF Leads
<1>3. 0 \in S
  BY <1>1, <1>2
<1>4. ASSUME NEW k \in Nat, k \in S PROVE k + 1 \in S
  <2> SUFFICES ASSUME NEW q \in Seq(Names), Len(q) = k + 1, Len(q) <= m, Len(q) <= n
               PROVE  f[q] = g[q]
    OBVIOUS
  <2>1. q # <<>>
    OBVIOUS
  <2>2. Front(q) \in Seq(Names) /\ Len(Front(q)) = k
    BY <2>1, FrontLast
  <2>3. f[Front(q)] = g[Front(q)]
    BY <1>4, <2>2
  <2> QED
    BY <1>1, <1>2, <2>1, <2>3
<1> HIDE DEF S
<1>5. Len(p) \in S
  BY <1>3, <1>4, SetInduction
<1> QED
  BY <1>5 DEF S

\* Walk goes one entry further with every name.
LEMMA WalkStep ==
    ASSUME NEW entries
    PROVE  /\ Walk(entries, <<>>) = Root
           /\ \A p \in Seq(Names) : p # <<>> =>
                 Walk(entries, p) = Kid(entries, Walk(entries, Front(p)), Last(p))
<1> DEFINE at[p \in Seq(Names)] == IF p = <<>> THEN Root ELSE Kid(entries, at[Front(p)], Last(p))
           some(n) == CHOOSE f : Leads(f, entries, n)
           F == [p \in Seq(Names) |-> some(Len(p))[p]]
<1>1. \A n \in Nat : Leads(some(n), entries, n)
  BY LeadsExists
<1> HIDE DEF some
<1>2. ASSUME NEW p \in Seq(Names)
      PROVE  F[p] = IF p = <<>> THEN Root ELSE Kid(entries, F[Front(p)], Last(p))
  <2>1. Len(p) \in Nat /\ F[p] = some(Len(p))[p]
    OBVIOUS
  <2> DEFINE f == some(Len(p))
  <2>2. F[p] = IF p = <<>> THEN Root ELSE Kid(entries, f[Front(p)], Last(p))
    <3>1. Leads(f, entries, Len(p))
      BY <1>1, <2>1
    <3> HIDE DEF f
    <3>2. \A q \in Seq(Names) : Len(q) <= Len(p) =>
             f[q] = IF q = <<>> THEN Root ELSE Kid(entries, f[Front(q)], Last(q))
      BY <3>1, Zenon DEF Leads
    <3>3. f[p] = IF p = <<>> THEN Root ELSE Kid(entries, f[Front(p)], Last(p))
      BY <2>1, <3>2
    <3> QED
      BY <2>1, <3>3 DEF f
  <2>3. ASSUME p # <<>> PROVE some(Len(p))[Front(p)] = F[Front(p)]
    <3>1. Front(p) \in Seq(Names) /\ Len(Front(p)) \in Nat /\ Len(Front(p)) <= Len(p)
      BY <2>1, <2>3, FrontLast
    <3>2. Leads(some(Len(p)), entries, Len(p)) /\ Leads(some(Len(Front(p))), entries, Len(Front(p)))
      BY <1>1, <2>1, <3>1
    <3> QED
      BY <2>1, <3>1, <3>2, LeadsUnique
  <2> QED
    BY <2>2, <2>3
<1>3. F = [p \in Seq(Names) |-> IF p = <<>> THEN Root ELSE Kid(entries, F[Front(p)], Last(p))]
  BY <1>2, Zenon
<1> HIDE DEF F
<1>4. at = [p \in Seq(Names) |-> IF p = <<>> THEN Root ELSE Kid(entries, at[Front(p)], Last(p))]
  BY <1>3, Zenon
<1>5. \A p \in Seq(Names) : Walk(entries, p) = at[p]
  BY DEF Walk
<1> HIDE DEF at
<1>6. <<>> \in Seq(Names)
  OBVIOUS
<1>7. \A p \in Seq(Names) : p # <<>> => Front(p) \in Seq(Names)
  BY FrontLast
<1> QED
  BY <1>4, <1>5, <1>6, <1>7, Zenon

-----------------------------------------------------------------------------
(* Directories in memory *)

\* The map without keys
LEMMA EmptyMapFacts == DOMAIN EmptyMap = {} /\ EmptyMap = [x \in {} |-> EmptyMap[x]]
  BY DEF EmptyMap

\* A new inode has its type, its parent and its name, and a new directory no entries.
LEMMA NewInode ==
    ASSUME NEW parent \in Nat, NEW name \in Names \cup {""}, NEW isdir \in BOOLEAN
    PROVE  /\ Inode(parent, name, isdir) \in InodeRecord
           /\ Inode(parent, name, isdir).parent = parent
           /\ Inode(parent, name, isdir).name = name
           /\ Inode(parent, name, isdir).isdir = isdir
           /\ IsEntry([inode |-> Inode(parent, name, isdir), kids |-> EmptyMap])
  BY EmptyMapFacts, Zenon DEF Inode, InodeRecord, IsEntry, NoId

\* What the table of directories makes up for an id it does not have
LEMMA DefaultIsEntry ==
    /\ IsEntry(DefaultEntry) /\ ~DefaultEntry.inode.isdir
    /\ DefaultEntry.inode.parent = NoId /\ DOMAIN DefaultEntry.kids = {}
  BY EmptyMapFacts, Zenon DEF DefaultEntry, Inode, InodeRecord, IsEntry, NoId

\* What the table of directories answers is an entry, made up or not.
LEMMA AtIsEntry ==
    ASSUME NEW map, IsDirs(map), NEW id
    PROVE  IsEntry(At(map, id))
  BY DefaultIsEntry DEF At, IsDirs

\* A directory with other entries.
LEMMA OtherKids ==
    ASSUME NEW x, IsEntry(x), NEW kids, kids \in [DOMAIN kids -> Nat \ {NoId}], DOMAIN kids \subseteq Names
    PROVE  /\ IsEntry([x EXCEPT !.kids = kids])
           /\ [x EXCEPT !.kids = kids].inode = x.inode
           /\ [x EXCEPT !.kids = kids].kids = kids
  BY DEF IsEntry

\* A directory with another inode.
LEMMA OtherInode ==
    ASSUME NEW x, IsEntry(x), NEW inode \in InodeRecord
    PROVE  /\ IsEntry([x EXCEPT !.inode = inode])
           /\ [x EXCEPT !.inode = inode].inode = inode
           /\ [x EXCEPT !.inode = inode].kids = x.kids
  BY DEF IsEntry

\* A table without directories has its type.
LEMMA NoDirs == IsDirs(EmptyMap)
  BY DEF IsDirs, EmptyMap

\* AddKid leaves the other directories.
LEMMA AddKidOthers ==
    ASSUME NEW map, NEW id, NEW name, NEW kid
    PROVE  /\ DOMAIN AddKid(map, id, name, kid) = DOMAIN map \cup {id}
           /\ \A d \in DOMAIN map : d # id => AddKid(map, id, name, kid)[d] = map[d]
  BY DEF AddKid, Put

\* AddKid leaves the directory its inode and adds one name.
LEMMA AddKidAt ==
    ASSUME NEW map, NEW id, NEW name, NEW kid, IsEntry(At(map, id))
    PROVE  /\ AddKid(map, id, name, kid)[id].inode = At(map, id).inode
           /\ AddKid(map, id, name, kid)[id].kids = Put(At(map, id).kids, name, kid)
<1> DEFINE x == At(map, id)
           y == [x EXCEPT !.kids = Put(x.kids, name, kid)]
<1>1. AddKid(map, id, name, kid)[id] = y
  BY DEF AddKid, Put
<1>2. x = [inode |-> x.inode, kids |-> x.kids]
  BY DEF IsEntry
<1> HIDE DEF x
<1>3. y.inode = x.inode /\ y.kids = Put(x.kids, name, kid)
  BY <1>2
<1> QED
  BY <1>1, <1>3 DEF x

\* AddKid keeps the type of the table.
LEMMA AddKidIsDirs ==
    ASSUME NEW map, IsDirs(map), NEW id \in Nat, NEW name \in Names, NEW kid \in Nat \ {NoId}
    PROVE  IsDirs(AddKid(map, id, name, kid))
<1> DEFINE x == At(map, id)
           kids == Put(x.kids, name, kid)
           y == [x EXCEPT !.kids = kids]
           new == Put(map, id, y)
<1>1. IsEntry(x)
  BY AtIsEntry
<1> HIDE DEF x
<1>2. kids \in [DOMAIN kids -> Nat \ {NoId}] /\ DOMAIN kids \subseteq Names
  BY <1>1 DEF IsEntry, Put
<1> HIDE DEF kids
<1>3. IsEntry(y) /\ y.inode = x.inode /\ y.kids = kids
  BY <1>1, <1>2, OtherKids
<1> HIDE DEF y
<1>4. /\ DOMAIN new = DOMAIN map \cup {id} /\ new = [d \in DOMAIN new |-> new[d]]
      /\ new[id] = y /\ \A d \in DOMAIN map : d # id => new[d] = map[d]
  BY DEF Put
<1> HIDE DEF new
<1>5. IsDirs(new)
  BY <1>3, <1>4 DEF IsDirs
<1>6. new = AddKid(map, id, name, kid)
  BY DEF new, AddKid, y, kids, x
<1> QED
  BY <1>5, <1>6

\* DelKid leaves the other directories.
LEMMA DelKidOthers ==
    ASSUME NEW map, NEW id, NEW name
    PROVE  /\ DOMAIN DelKid(map, id, name) = DOMAIN map \cup {id}
           /\ \A d \in DOMAIN map : d # id => DelKid(map, id, name)[d] = map[d]
  BY DEF DelKid, Put

\* DelKid leaves the directory its inode and removes one name.
LEMMA DelKidAt ==
    ASSUME NEW map, NEW id, NEW name, IsEntry(At(map, id))
    PROVE  /\ DelKid(map, id, name)[id].inode = At(map, id).inode
           /\ DelKid(map, id, name)[id].kids = Del(At(map, id).kids, name)
<1> DEFINE x == At(map, id)
           y == [x EXCEPT !.kids = Del(x.kids, name)]
<1>1. DelKid(map, id, name)[id] = y
  BY DEF DelKid, Put
<1>2. x = [inode |-> x.inode, kids |-> x.kids]
  BY DEF IsEntry
<1> HIDE DEF x
<1>3. y.inode = x.inode /\ y.kids = Del(x.kids, name)
  BY <1>2
<1> QED
  BY <1>1, <1>3 DEF x

\* DelKid keeps the type of the table.
LEMMA DelKidIsDirs ==
    ASSUME NEW map, IsDirs(map), NEW id \in Nat, NEW name
    PROVE  IsDirs(DelKid(map, id, name))
<1> DEFINE x == At(map, id)
           kids == Del(x.kids, name)
           y == [x EXCEPT !.kids = kids]
           new == Put(map, id, y)
<1>1. IsEntry(x)
  BY AtIsEntry
<1> HIDE DEF x
<1>2. kids \in [DOMAIN kids -> Nat \ {NoId}] /\ DOMAIN kids \subseteq Names
  BY <1>1 DEF IsEntry, Del
<1> HIDE DEF kids
<1>3. IsEntry(y) /\ y.inode = x.inode /\ y.kids = kids
  BY <1>1, <1>2, OtherKids
<1> HIDE DEF y
<1>4. /\ DOMAIN new = DOMAIN map \cup {id} /\ new = [d \in DOMAIN new |-> new[d]]
      /\ new[id] = y /\ \A d \in DOMAIN map : d # id => new[d] = map[d]
  BY DEF Put
<1> HIDE DEF new
<1>5. IsDirs(new)
  BY <1>3, <1>4 DEF IsDirs
<1>6. new = DelKid(map, id, name)
  BY DEF new, DelKid, y, kids, x
<1> QED
  BY <1>5, <1>6

\* What the entries of memory are.
LEMMA EntriesFacts ==
    ASSUME Types
    PROVE  /\ \A d, n : <<d, n>> \in DOMAIN Entries <=> IsDir(d) /\ n \in DOMAIN dirs[d].kids
           /\ \A d, n : <<d, n>> \in DOMAIN Entries => Entries[<<d, n>>] = dirs[d].kids[n]
  BY DEF Entries, IsDir, Types

\* Resolve goes from directory to directory.
LEMMA ResolveFacts ==
    ASSUME Types, NEW p \in Seq(Names)
    PROVE  /\ Resolve(<<>>) = Root
           /\ Resolve(p) \in Nat
           /\ p # <<>> => /\ Front(p) \in Seq(Names) /\ Last(p) \in Names
                          /\ Resolve(p) = IF IsDir(ParentOf(p)) /\ Last(p) \in DOMAIN dirs[ParentOf(p)].kids
                                          THEN dirs[ParentOf(p)].kids[Last(p)] ELSE NoId
<1>1. Resolve(<<>>) = Root
  BY WalkStep DEF Resolve
<1>2. ASSUME p # <<>>
      PROVE  /\ Front(p) \in Seq(Names) /\ Last(p) \in Names
             /\ Resolve(p) = IF IsDir(ParentOf(p)) /\ Last(p) \in DOMAIN dirs[ParentOf(p)].kids
                             THEN dirs[ParentOf(p)].kids[Last(p)] ELSE NoId
  <2>1. Front(p) \in Seq(Names) /\ Last(p) \in Names
    BY <1>2, FrontLast
  <2>2. Resolve(p) = Kid(Entries, ParentOf(p), Last(p))
    BY <1>2, WalkStep DEF Resolve, ParentOf
  <2> QED
    BY <2>1, <2>2, EntriesFacts DEF Kid
<1>3. Resolve(p) \in Nat
  BY <1>1, <1>2 DEF Types, IsDirs, IsEntry, IsDir, Root, NoId
<1> QED
  BY <1>1, <1>2, <1>3

-----------------------------------------------------------------------------
(* Types *)

\* A path is a sequence of names.
LEMMA PathsAreSeqs == Paths \subseteq Seq(Names)
  BY BoundsAssumption DEF Paths, BoundedSeq

\* A set of numbers with an upper bound has a greatest.
LEMMA MaxFacts ==
    ASSUME NEW S \in SUBSET Nat, S # {}, NEW m \in Nat, \A i \in S : i <= m
    PROVE  Max(S) \in S /\ \A i \in S : i <= Max(S)
<1> DEFINE U == {u \in Nat : \A i \in S : i <= u}
<1>1. PICK u \in U : \A v \in U : u <= v
  <2>1. U \subseteq Nat /\ U # {}
    OBVIOUS
  <2> HIDE DEF U
  <2> QED
    BY <2>1, LeastElement
<1>2. \E x \in S : \A y \in S : x >= y
  <2>1. CASE u \in S
    BY <1>1, <2>1
  <2>2. CASE u \notin S
    <3>1. PICK x \in S : TRUE
      BY Zenon
    <3>2. x < u /\ u \in Nat /\ x \in Nat
      BY <1>1, <2>2, <3>1
    <3>3. u - 1 \in Nat /\ \A i \in S : i <= u - 1
      BY <1>1, <2>2, <3>2
    <3>4. u <= u - 1
      BY <1>1, <3>3
    <3> QED
      BY <3>2, <3>4
  <2> QED
    BY <2>1, <2>2
<1> QED
  BY <1>2, Zenon DEF Max

\* RecoverFromStore reads the directories of the store, with the entries of the edges.
LEMMA RebuiltFacts ==
    ASSUME Types
    PROVE  /\ IsDirs(Rebuilt)
           /\ \A i : i \in DOMAIN Rebuilt <=> i \in DOMAIN inodes /\ inodes[i].isdir
           /\ \A i \in DOMAIN Rebuilt : 
                 /\ Rebuilt[i].inode = inodes[i]
                 /\ \A n : n \in DOMAIN Rebuilt[i].kids <=> n \in Names /\ <<i, n>> \in DOMAIN edges
                 /\ \A n \in DOMAIN Rebuilt[i].kids : Rebuilt[i].kids[n] = edges[<<i, n>>]
<1>1. \A i \in DOMAIN Rebuilt :
         /\ i \in DOMAIN inodes /\ i \in Nat
         /\ Rebuilt[i] = [inode |-> inodes[i],
               kids |-> [n \in {n \in Names : <<i, n>> \in DOMAIN edges} |-> edges[<<i, n>>]]]
  BY DEF Rebuilt, Types
<1>2. ASSUME NEW i \in DOMAIN Rebuilt
      PROVE  IsEntry(Rebuilt[i])
  <2> DEFINE kids == [n \in {n \in Names : <<i, n>> \in DOMAIN edges} |-> edges[<<i, n>>]]
  <2>1. kids \in [DOMAIN kids -> Nat \ {NoId}] /\ DOMAIN kids \subseteq Names
    BY DEF Types
  <2>2. inodes[i] \in InodeRecord
    BY <1>1, Zenon DEF Types
  <2>3. Rebuilt[i] = [inode |-> inodes[i], kids |-> kids]
    BY <1>1
  <2> HIDE DEF kids
  <2> QED
    BY <2>1, <2>2, <2>3 DEF IsEntry
<1>3. IsDirs(Rebuilt)
  BY <1>1, <1>2, Zenon DEF IsDirs, Rebuilt
<1>4. \A i : i \in DOMAIN Rebuilt <=> i \in DOMAIN inodes /\ inodes[i].isdir
  BY DEF Rebuilt
<1>5. ASSUME NEW i \in DOMAIN Rebuilt
      PROVE  /\ Rebuilt[i].inode = inodes[i]
             /\ \A n : n \in DOMAIN Rebuilt[i].kids <=> n \in Names /\ <<i, n>> \in DOMAIN edges
             /\ \A n \in DOMAIN Rebuilt[i].kids : Rebuilt[i].kids[n] = edges[<<i, n>>]
  <2> DEFINE kids == [n \in {n \in Names : <<i, n>> \in DOMAIN edges} |-> edges[<<i, n>>]]
  <2>1. Rebuilt[i] = [inode |-> inodes[i], kids |-> kids]
    BY <1>1
  <2>2. /\ \A n : n \in DOMAIN kids <=> n \in Names /\ <<i, n>> \in DOMAIN edges
        /\ \A n \in DOMAIN kids : kids[n] = edges[<<i, n>>]
    OBVIOUS
  <2> HIDE DEF kids
  <2> QED
    BY <2>1, <2>2
<1> QED
  BY <1>3, <1>4, <1>5

\* The next id after a recovery is the stored bound or, without one, beyond every directory.
LEMMA RecoveredIdFacts ==
    ASSUME Types
    PROVE  /\ RecoveredId \in Nat \ {0} /\ ScannedId \in Nat \ {0}
           /\ stored > 0 => RecoveredId = stored
           /\ stored = 0 => RecoveredId >= 2 /\ \A i \in DOMAIN Rebuilt : i < RecoveredId
<1>1. PICK m \in Nat : \A i \in DOMAIN inodes : i <= m
  BY DEF Types
<1> DEFINE S == DOMAIN Rebuilt \cup {Root}
<1>2. S \subseteq Nat /\ S # {} /\ \A i \in S : i <= m + 1
  BY <1>1, RebuiltFacts DEF IsDirs, Root, Types
<1>3. Max(S) \in S /\ \A i \in S : i <= Max(S)
  <2> HIDE DEF S
  <2> QED
    BY <1>2, MaxFacts, m + 1 \in Nat, Zenon
<1>4. Max(S) \in Nat /\ Max(S) >= 1 /\ \A i \in DOMAIN Rebuilt : i \in Nat /\ i <= Max(S)
  BY <1>2, <1>3 DEF Root
<1> HIDE DEF S
<1>5. stored \in Nat
  BY DEF Types
<1>6. ScannedId = Max(S) + 1 /\ RecoveredId = IF stored > 0 THEN stored ELSE Max(S) + 1
  BY DEF RecoveredId, ScannedId, S
<1> QED
  BY <1>4, <1>5, <1>6

\* AllocateId keeps the counters numbers.
LEMMA AllocateIdTypes ==
    ASSUME Types, NEW r \in BOOLEAN, AllocateId(r)
    PROVE  nextId' \in Nat \ {0} /\ allocEnd' \in Nat /\ stored' \in Nat
  BY BatchAssumption DEF Types, AllocateId

\* An inode put in the store leaves it of its type, and bounded.
LEMMA PutInodesTypes ==
    ASSUME Types, NEW id \in Nat, NEW inode \in InodeRecord, inodes' = Put(inodes, id, inode)
    PROVE  /\ inodes' \in [DOMAIN inodes' -> InodeRecord] /\ DOMAIN inodes' \subseteq Nat
           /\ \E m \in Nat : \A i \in DOMAIN inodes' : i <= m
<1>1. PICK m \in Nat : \A i \in DOMAIN inodes : i <= m
  BY DEF Types
<1>2. inodes' \in [DOMAIN inodes' -> InodeRecord] /\ DOMAIN inodes' \subseteq Nat
  BY DEF Types, Put
<1>3. m + id \in Nat /\ \A i \in DOMAIN inodes' : i <= m + id
  BY <1>1 DEF Types, Put
<1> QED
  BY <1>2, <1>3

\* The batch of a new inode leaves the store of its type.
LEMMA CommitNewTypes ==
    ASSUME Types, NEW pid \in Nat, NEW name \in Names, NEW inode \in InodeRecord,
           CommitNew(pid, name, inode)
    PROVE  /\ inodes' \in [DOMAIN inodes' -> InodeRecord] /\ DOMAIN inodes' \subseteq Nat
           /\ edges' \in [DOMAIN edges' -> Nat \ {NoId}] /\ DOMAIN edges' \subseteq Nat \X Names
           /\ given' \in SUBSET Nat
           /\ \E m \in Nat : \A i \in DOMAIN inodes' : i <= m
<1>1. nextId \in Nat
  BY DEF Types
<1>2. /\ inodes' \in [DOMAIN inodes' -> InodeRecord] /\ DOMAIN inodes' \subseteq Nat
      /\ \E m \in Nat : \A i \in DOMAIN inodes' : i <= m
  BY <1>1, PutInodesTypes DEF CommitNew
<1>3. edges' \in [DOMAIN edges' -> Nat \ {NoId}] /\ DOMAIN edges' \subseteq Nat \X Names
  BY DEF Types, CommitNew, Put, NoId
<1>4. given' \in SUBSET Nat
  BY DEF Types, CommitNew
<1> QED
  BY <1>2, <1>3, <1>4

\* Every operation keeps the types.
LEMMA TypesStep ==
    ASSUME Types, [Next]_vars
    PROVE  Types'
<1> USE DEF ids, memory, store
<1>a. IsDirs(dirs)
  BY DEF Types
<1>0. CASE UNCHANGED vars
  BY <1>0 DEF Types, IsDirs, IsEntry, vars
<1>1. ASSUME NEW p \in Paths, NEW r \in BOOLEAN, CreateFile(p, r)
      PROVE  Types'
  <2> DEFINE pid == ParentOf(p)
             name == Last(p)
  <2>1. pid \in Nat /\ name \in Names
    BY <1>1, PathsAreSeqs, ResolveFacts DEF CreateFile, ParentOf
  <2>2. Inode(pid, name, FALSE) \in InodeRecord
    BY <2>1, NewInode, Zenon
  <2>3. /\ AllocateId(r) /\ CommitNew(pid, name, Inode(pid, name, FALSE))
        /\ dirs' = AddKid(dirs, pid, name, nextId)
        /\ mkdir' = mkdir /\ up' = up /\ kernel' = kernel
    BY <1>1, Zenon DEF CreateFile
  <2> HIDE DEF pid, name
  <2>4. IsDirs(dirs')
    BY <2>1, <2>3, AddKidIsDirs DEF Types, NoId
  <2> QED
    BY <2>1, <2>2, <2>3, <2>4, AllocateIdTypes, CommitNewTypes, Zenon DEF Types
<1>2. ASSUME NEW p \in Paths, NEW r \in BOOLEAN, CreateFileFails(p, r)
      PROVE  Types'
  BY <1>2, AllocateIdTypes DEF CreateFileFails, Types, IsDirs, IsEntry
<1>3. ASSUME NEW p \in Paths, BelowFile(p)
      PROVE  Types'
  <2>1. ParentOf(p) \in Nat
    BY <1>3, PathsAreSeqs, ResolveFacts DEF BelowFile, ParentOf
  <2>2. IsDirs(dirs')
    BY <1>3, <2>1, DefaultIsEntry DEF BelowFile, Types, IsDirs, Put
  <2> QED
    BY <1>3, <2>2 DEF BelowFile, Types
<1>4. ASSUME NEW p \in Paths, NEW rec \in BOOLEAN, Mkdir(p, rec)
      PROVE  Types'
  <2>1. mkdir' \in [cur : Nat, rest : Seq(Names), rec : BOOLEAN] /\ mkdir'.cur # NoId /\ mkdir'.rest # <<>>
    BY <1>4, PathsAreSeqs DEF Mkdir, Root, NoId
  <2> QED
    BY <1>4, <2>1 DEF Mkdir, Types, IsDirs, IsEntry
<1>5. NoMkdir \in [cur : Nat, rest : Seq(Names), rec : BOOLEAN]
  BY DEF NoMkdir, NoId
<1>6. ASSUME MkdirRefused
      PROVE  Types'
  <2>1. IsDirs(dirs')
    BY <1>6, AtIsEntry, Zenon DEF MkdirRefused, Types, IsDirs, Put
  <2> QED
    BY <1>5, <1>6, <2>1 DEF MkdirRefused, Types
<1>7. ASSUME NEW id \in Nat \ {NoId}, Advance(id), mkdir # NoMkdir
      PROVE  /\ mkdir' \in [cur : Nat, rest : Seq(Names), rec : BOOLEAN]
             /\ mkdir' # NoMkdir => mkdir'.cur # NoId /\ mkdir'.rest # <<>>
  <2>1. CASE Len(mkdir.rest) = 1
    BY <1>5, <1>7, <2>1 DEF Advance, Types
  <2>2. CASE Len(mkdir.rest) # 1
    <3>1. mkdir.rest \in Seq(Names) /\ mkdir.rest # <<>>
      BY <1>7 DEF Types
    <3>2. Tail(mkdir.rest) \in Seq(Names) /\ Tail(mkdir.rest) # <<>>
      <4> DEFINE rest == mkdir.rest
      <4>1. rest \in Seq(Names) /\ rest # <<>> /\ Len(rest) # 1
        BY <2>2, <3>1
      <4> HIDE DEF rest
      <4>2. Len(rest) \in Nat /\ Len(rest) # 0 /\ Tail(rest) \in Seq(Names) /\ Len(Tail(rest)) = Len(rest) - 1
        BY <4>1
      <4>3. Len(Tail(rest)) # 0
        BY <4>1, <4>2
      <4>4. Tail(rest) # <<>>
        <5>1. Len(<<>>) = 0
          OBVIOUS
        <5> QED
          BY <4>3, <5>1, Zenon
      <4> QED
        BY <4>2, <4>4 DEF rest
    <3> QED
      BY <1>7, <2>2, <3>2, Zenon DEF Advance, Types
  <2> QED
    BY <2>1, <2>2
<1>8. ASSUME MkdirEnter
      PROVE  Types'
  <2>1. dirs[mkdir.cur].kids[Head(mkdir.rest)] \in Nat \ {NoId}
    BY <1>8 DEF MkdirEnter, Missing, IsDir, Types, IsDirs, IsEntry
  <2> QED
    BY <1>7, <1>8, <2>1 DEF MkdirEnter, Types, IsDirs, IsEntry
<1>9. ASSUME MkdirNoParent
      PROVE  Types'
  BY <1>5, <1>9 DEF MkdirNoParent, Types, IsDirs, IsEntry
<1>10. ASSUME NEW r \in BOOLEAN, MkdirMake(r)
       PROVE  Types'
  <2> DEFINE cur == mkdir.cur
             name == Head(mkdir.rest)
             inode == Inode(cur, name, TRUE)
  <2>1. cur \in Nat /\ name \in Names
    BY <1>10 DEF MkdirMake, Types
  <2> HIDE DEF cur, name
  <2>2. inode \in InodeRecord /\ inode.name = name /\ IsEntry([inode |-> inode, kids |-> EmptyMap])
    BY <2>1, NewInode, name \in Names \cup {""}, TRUE \in BOOLEAN, Zenon
  <2>3. /\ AllocateId(r) /\ CommitNew(cur, inode.name, inode)
        /\ dirs' = Put(AddKid(dirs, cur, inode.name, nextId), nextId, [inode |-> inode, kids |-> EmptyMap])
        /\ mkdir # NoMkdir /\ Advance(nextId) /\ up' = up /\ kernel' = kernel
    BY <1>10, Zenon DEF MkdirMake, cur, name
  <2> HIDE DEF inode
  <2>4. nextId \in Nat \ {NoId}
    BY DEF Types, NoId
  <2>5. IsDirs(AddKid(dirs, cur, inode.name, nextId))
    BY <2>1, <2>2, <2>4, AddKidIsDirs DEF Types
  <2>6. IsDirs(dirs')
    BY <2>2, <2>3, <2>4, <2>5 DEF IsDirs, Put
  <2>7. /\ mkdir' \in [cur : Nat, rest : Seq(Names), rec : BOOLEAN]
        /\ mkdir' # NoMkdir => mkdir'.cur # NoId /\ mkdir'.rest # <<>>
    BY <1>7, <2>3, <2>4
  <2> QED
    BY <2>1, <2>2, <2>3, <2>6, <2>7, AllocateIdTypes, CommitNewTypes, Zenon DEF Types
<1>11. ASSUME NEW r \in BOOLEAN, MkdirFails(r)
       PROVE  Types'
  BY <1>5, <1>11, AllocateIdTypes, Zenon DEF MkdirFails, Types, IsDirs, IsEntry
<1>12. Sizes[kernel] \subseteq Nat
  BY SizesAssumption DEF Types
<1>13. ASSUME NEW id \in given, NEW size \in Sizes[kernel], CompleteFile(id, size)
       PROVE  Types'
  <2>1. inodes' \in [DOMAIN inodes' -> InodeRecord] /\ DOMAIN inodes' = DOMAIN inodes
    BY <1>12, <1>13, Zenon DEF CompleteFile, Types, InodeRecord
  <2> QED
    BY <1>13, <2>1 DEF CompleteFile, Types, IsDirs, IsEntry
<1>14. ASSUME NEW p \in Paths, NEW rec \in BOOLEAN, Delete(p, rec)
       PROVE  Types'
  <2> DEFINE pid == OwnParent(p)
             rest == IF pid \in DOMAIN dirs THEN DelKid(dirs, pid, Last(p)) ELSE dirs
             tree == Subtree(Resolve(p))
             gone == {<<pid, Last(p)>>} \cup UNION {{d} \X DOMAIN dirs[d].kids : d \in tree \cap DOMAIN dirs}
  <2>1. IsDirs(rest)
    <3> HIDE DEF pid
    <3>1. ASSUME pid \in DOMAIN dirs
          PROVE  IsDirs(DelKid(dirs, pid, Last(p)))
      BY <1>a, <3>1, DelKidIsDirs DEF IsDirs
    <3> QED
      BY <1>a, <3>1
  <2>2. /\ inodes' = [i \in DOMAIN inodes \ tree |-> inodes[i]]
        /\ edges' = [e \in DOMAIN edges \ gone |-> edges[e]]
        /\ dirs' = [d \in DOMAIN rest \ tree |-> rest[d]]
        /\ UNCHANGED <<ids, mkdir, up, kernel>>
    BY <1>14 DEF Delete
  <2> HIDE DEF pid, rest, tree, gone
  <2>3. IsDirs(dirs')
    BY <2>1, <2>2 DEF IsDirs
  <2>4. /\ inodes' \in [DOMAIN inodes' -> InodeRecord] /\ DOMAIN inodes' \subseteq DOMAIN inodes
        /\ edges' \in [DOMAIN edges' -> Nat \ {NoId}] /\ DOMAIN edges' \subseteq DOMAIN edges
    BY <2>2 DEF Types
  <2> QED
    BY <2>2, <2>3, <2>4 DEF Types
<1>15. ASSUME NEW p \in Paths, NEW q \in Paths, Rename(p, q)
       PROVE  Types'
  <2> DEFINE id == Resolve(p)
             pid == ParentOf(q)
             name == Last(q)
             opid == OwnParent(p)
             oname == OwnName(p)
             old == IF id \in DOMAIN dirs THEN dirs[id].inode ELSE inodes[id]
             inode == Moved(old, pid, name)
             from == DelKid(dirs, opid, oname)
             to == AddKid(from, pid, name, id)
  <2>1. /\ id # NoId /\ (id \in DOMAIN dirs \/ id \in DOMAIN inodes)
        /\ inodes' = Put(inodes, id, inode)
        /\ edges' = MovedEdges(<<opid, oname>>, <<pid, name>>, id)
        /\ dirs' = IF id \in DOMAIN dirs THEN [to EXCEPT ![id].inode = inode] ELSE to
        /\ UNCHANGED <<ids, mkdir, up, kernel>>
    BY <1>15 DEF Rename
  <2>2. p \in Seq(Names) /\ p # <<>> /\ q \in Seq(Names) /\ q # <<>>
    BY <1>15, PathsAreSeqs DEF Rename
  <2>3. id \in Nat /\ pid \in Nat /\ name \in Names /\ ParentOf(p) \in Nat
    BY <2>2, ResolveFacts DEF ParentOf
  <2>4. opid \in Nat
    BY <2>3, Zenon DEF OwnParent, Types, IsDirs, IsEntry, InodeRecord
  <2>5. old \in InodeRecord
    BY <2>1 DEF Types, IsDirs, IsEntry
  <2> HIDE DEF old
  <2>6. inode \in InodeRecord
    BY <2>3, <2>5, Zenon DEF Moved, InodeRecord
  <2> HIDE DEF id, pid, name, opid, oname, inode
  <2>7. IsDirs(from) /\ DOMAIN from = DOMAIN dirs \cup {opid}
    BY <1>a, <2>4, DelKidIsDirs, DelKidOthers, Zenon
  <2> HIDE DEF from
  <2>8. IsDirs(to) /\ DOMAIN to = DOMAIN from \cup {pid}
    <3>1. id \in Nat \ {NoId}
      BY <2>1, <2>3
    <3>2. IsDirs(from) /\ pid \in Nat /\ name \in Names
      BY <2>3, <2>7
    <3>3. IsDirs(AddKid(from, pid, name, id))
      BY <3>1, <3>2, AddKidIsDirs
    <3>4. DOMAIN AddKid(from, pid, name, id) = DOMAIN from \cup {pid}
      BY AddKidOthers, Zenon
    <3> QED
      BY <3>3, <3>4
  <2> HIDE DEF to
  <2>9. IsDirs(dirs')
    <3>1. CASE id \in DOMAIN dirs
      <4>1. dirs' = [to EXCEPT ![id].inode = inode]
        BY <2>1, <3>1
      <4>2. IsEntry([to[id] EXCEPT !.inode = inode])
        <5>1. IsEntry(to[id])
          BY <2>7, <2>8, <3>1 DEF IsDirs
        <5> QED
          BY <2>6, <5>1, OtherInode
      <4> QED
        BY <2>8, <4>1, <4>2, Zenon DEF IsDirs
    <3>2. CASE id \notin DOMAIN dirs
      BY <2>1, <2>8, <3>2
    <3> QED
      BY <3>1, <3>2
  <2>10. edges' \in [DOMAIN edges' -> Nat \ {NoId}] /\ DOMAIN edges' \subseteq Nat \X Names
    BY <2>1, <2>3 DEF Types, MovedEdges, Put, Del
  <2> QED
    BY <2>1, <2>3, <2>6, <2>9, <2>10, PutInodesTypes, Zenon DEF Types
<1>16. ASSUME NEW id \in given \cup {NoId}, NEW size \in Sizes[kernel], UpdateSize(id, size)
       PROVE  Types'
  <2>1. inodes' \in [DOMAIN inodes' -> InodeRecord] /\ DOMAIN inodes' = DOMAIN inodes
    BY <1>12, <1>16, Zenon DEF UpdateSize, Types, InodeRecord
  <2> QED
    BY <1>16, <2>1 DEF UpdateSize, Types, IsDirs, IsEntry
<1>17. ASSUME NEW id \in given \cup {NoId}, NEW size \in Sizes[kernel], NEW ok \in BOOLEAN,
              UpdateSizeInMemory(id, size, ok)
       PROVE  Types'
  <2> DEFINE x == [dirs[id] EXCEPT !.inode = [@ EXCEPT !.size = size]]
  <2>1. IsEntry(x)
    <3>1. IsEntry(dirs[id])
      BY <1>17 DEF UpdateSizeInMemory, Types, IsDirs
    <3>2. [dirs[id].inode EXCEPT !.size = size] \in InodeRecord
      BY <1>12, <3>1, Zenon DEF IsEntry, InodeRecord
    <3> QED
      BY <3>1, <3>2, OtherInode
  <2>2. dirs' = [dirs EXCEPT ![id] = x]
    BY <1>17 DEF UpdateSizeInMemory
  <2> HIDE DEF x
  <2>3. IsDirs(dirs') /\ dirs'[id].inode \in InodeRecord
    <3>1. id \in DOMAIN dirs /\ IsDirs(dirs)
      BY <1>17, Zenon DEF UpdateSizeInMemory, Types
    <3>2. /\ DOMAIN dirs' = DOMAIN dirs /\ dirs'[id] = x /\ dirs' = [d \in DOMAIN dirs' |-> dirs'[d]]
          /\ \A d \in DOMAIN dirs : d # id => dirs'[d] = dirs[d]
      BY <2>2, <3>1
    <3>3. x.inode \in InodeRecord
      BY <2>1, Zenon DEF IsEntry
    <3>4. IsDirs(dirs')
      BY <2>1, <3>1, <3>2, Zenon DEF IsDirs
    <3> QED
      BY <3>2, <3>3, <3>4, Zenon
  <2>4. id \in Nat
    BY DEF Types, NoId
  <2>5. /\ inodes' \in [DOMAIN inodes' -> InodeRecord] /\ DOMAIN inodes' \subseteq Nat
        /\ \E m \in Nat : \A i \in DOMAIN inodes' : i <= m
    <3>1. CASE ok
      BY <1>17, <2>3, <2>4, <3>1, PutInodesTypes, Zenon DEF UpdateSizeInMemory
    <3>2. CASE ~ok
      BY <1>17, <3>2 DEF UpdateSizeInMemory, Types
    <3> QED
      BY <3>1, <3>2
  <2> QED
    BY <1>17, <2>3, <2>5, Zenon DEF UpdateSizeInMemory, Types
<1>18. ASSUME Recover
       PROVE  Types'
  <2>1. RootEntry.inode \in InodeRecord /\ IsEntry(RootEntry)
    BY NewInode, Zenon DEF RootEntry, NoId
  <2>2. IsDirs(Put(Rebuilt, Root, RootEntry))
    BY <2>1, RebuiltFacts DEF IsDirs, Put, Root
  <2>3. IsDirs(dirs')
    BY <1>18, <2>2, RebuiltFacts DEF Recover
  <2>4. /\ inodes' \in [DOMAIN inodes' -> InodeRecord] /\ DOMAIN inodes' \subseteq Nat
        /\ \E m \in Nat : \A i \in DOMAIN inodes' : i <= m
    <3>1. CASE Root \in DOMAIN Rebuilt
      BY <1>18, <3>1 DEF Recover, Types
    <3>2. CASE Root \notin DOMAIN Rebuilt
      BY <1>18, <2>1, <3>2, PutInodesTypes, Root \in Nat DEF Recover, Root
    <3> QED
      BY <3>1, <3>2
  <2>5. nextId' \in Nat \ {0} /\ allocEnd' \in Nat
    <3>1. nextId' \in {RecoveredId, ScannedId} /\ allocEnd' = nextId'
      BY <1>18 DEF Recover, RecoveredIds
    <3> QED
      BY <3>1, RecoveredIdFacts
  <2> QED
    BY <1>18, <2>3, <2>4, <2>5 DEF Recover, Types
<1>19. ASSUME Crash
       PROVE  Types'
  <2>1. IsDirs(dirs')
    BY <1>19, NoDirs DEF Crash
  <2> QED
    <3>1. up' \in BOOLEAN
      BY <1>19, Zenon DEF Crash
    <3>2. /\ nextId' \in Nat \ {0} /\ allocEnd' \in Nat /\ stored' \in Nat
          /\ mkdir' = NoMkdir /\ UNCHANGED <<inodes, edges, stored, given, kernel>>
      BY <1>19 DEF Crash, Types
    <3> QED
      BY <1>5, <2>1, <3>1, <3>2 DEF Types
<1> QED
  BY <1>0, <1>1, <1>2, <1>3, <1>4, <1>6, <1>8, <1>9, <1>10, <1>11, <1>13, <1>14, <1>15, <1>16, <1>17,
     <1>18, <1>19 DEF Next

\* The initial state has its types.
LEMMA InitTypes == Init => Types
<1> SUFFICES ASSUME Init PROVE Types
  OBVIOUS
<1>1. IsDirs(dirs)
  BY NoDirs DEF Init
<1>2. inodes \in [DOMAIN inodes -> InodeRecord] /\ DOMAIN inodes = {}
  BY DEF Init, EmptyMap
<1>3. edges \in [DOMAIN edges -> Nat \ {NoId}] /\ DOMAIN edges = {}
  BY DEF Init, EmptyMap
<1>4. up \in BOOLEAN /\ kernel \in BOOLEAN
  BY Zenon DEF Init
<1>5. /\ nextId \in Nat \ {0} /\ allocEnd \in Nat /\ stored \in Nat
      /\ mkdir = NoMkdir /\ given = {}
  BY DEF Init
<1>6. mkdir \in [cur : Nat, rest : Seq(Names), rec : BOOLEAN]
  BY <1>5 DEF NoMkdir, NoId
<1> QED
  BY <1>1, <1>2, <1>3, <1>4, <1>5, <1>6 DEF Types

\* TypeOK, for any clients and whichever commits fail: no operation makes an entry
\* without an id or under a name that is none, and recovery finds a next id.
THEOREM TypesHold == Spec => []TypeOK
<1>1. Types => TypeOK
  BY DEF Types, TypeOK, IsDirs, IsEntry
<1> QED
  BY InitTypes, <1>1, TypesStep, PTL DEF Spec

-----------------------------------------------------------------------------
(* Ids *)

\* AllocateId gives an id only below the bound in the store.
LEMMA AllocateIdNumbers ==
    ASSUME Types, Numbers, ~CounterFails, NEW r \in BOOLEAN, AllocateId(r),
           up, up' = up, given' \subseteq given \cup {nextId}
    PROVE  Numbers'
<1>1. \A id \in given : id \in Nat
  BY DEF Types
<1>2. nextId \in Nat /\ allocEnd \in Nat /\ stored \in Nat
  BY DEF Types
<1>3. /\ nextId' = nextId + 1
      /\ IF nextId >= allocEnd THEN allocEnd' = nextId + Batch /\ stored' = nextId + Batch
                               ELSE allocEnd' = allocEnd /\ stored' = stored
  BY DEF AllocateId
<1>4. nextId >= 2 /\ (nextId < allocEnd => stored = allocEnd) /\ stored # 1
  BY DEF Numbers
<1>5. \A id \in given : id >= 2 /\ id < stored /\ id < nextId
  BY DEF Numbers
<1>6. nextId' >= 2 /\ (nextId' < allocEnd' => stored' = allocEnd') /\ stored' # 1 /\ nextId < stored'
      /\ \A id \in given : id < stored'
  BY <1>1, <1>2, <1>3, <1>4, <1>5, BatchAssumption
<1>7. \A id \in given' : id >= 2 /\ id < stored' /\ id < nextId'
  BY <1>1, <1>2, <1>3, <1>4, <1>5, <1>6
<1> QED
  BY <1>6, <1>7 DEF Numbers

\* Every operation keeps the ids given below the next one and the stored bound.
LEMMA NumbersStep ==
    ASSUME Types, Numbers, ~CounterFails, [Next]_vars
    PROVE  Numbers'
<1> USE DEF ids, memory, store
<1>0. CASE UNCHANGED vars
  BY <1>0 DEF Numbers, vars
<1>1. ASSUME NEW p \in Paths, NEW r \in BOOLEAN, CreateFile(p, r)
      PROVE  Numbers'
  BY <1>1, AllocateIdNumbers DEF CreateFile, CommitNew, Unlocked
<1>2. ASSUME NEW p \in Paths, NEW r \in BOOLEAN, CreateFileFails(p, r)
      PROVE  Numbers'
  BY <1>2, AllocateIdNumbers DEF CreateFileFails, Unlocked
<1>3. ASSUME NEW r \in BOOLEAN, MkdirMake(r)
      PROVE  Numbers'
  BY <1>3, AllocateIdNumbers DEF MkdirMake, CommitNew
<1>4. ASSUME NEW r \in BOOLEAN, MkdirFails(r)
      PROVE  Numbers'
  BY <1>4, AllocateIdNumbers DEF MkdirFails
<1>5. ASSUME UNCHANGED <<ids, up>>
      PROVE  Numbers'
  BY <1>5 DEF Numbers
<1>6. CASE \E p \in Paths : BelowFile(p)
  BY <1>5, <1>6 DEF BelowFile
<1>7. CASE \E p \in Paths, rec \in BOOLEAN : Mkdir(p, rec)
  BY <1>5, <1>7 DEF Mkdir
<1>8. CASE MkdirRefused \/ MkdirEnter \/ MkdirNoParent
  BY <1>5, <1>8 DEF MkdirRefused, MkdirEnter, MkdirNoParent
<1>9. CASE \E id \in given, size \in Sizes[kernel] : CompleteFile(id, size)
  BY <1>5, <1>9 DEF CompleteFile
<1>10. CASE \E p \in Paths, rec \in BOOLEAN : Delete(p, rec)
  BY <1>5, <1>10 DEF Delete
<1>11. CASE \E p, q \in Paths : Rename(p, q)
  BY <1>5, <1>11 DEF Rename
<1>12. CASE \E id \in given \cup {NoId}, size \in Sizes[kernel] : UpdateSize(id, size)
  BY <1>5, <1>12 DEF UpdateSize
<1>13. CASE \E id \in given \cup {NoId}, size \in Sizes[kernel], ok \in BOOLEAN : UpdateSizeInMemory(id, size, ok)
  BY <1>5, <1>13 DEF UpdateSizeInMemory
<1>14. CASE Recover
  <2>1. given' = given /\ stored' = stored /\ nextId' = RecoveredId /\ allocEnd' = nextId'
    BY <1>14 DEF Recover, RecoveredIds
  <2>2. RecoveredId >= 2 /\ \A id \in given : id >= 2 /\ id < stored /\ id < RecoveredId
    BY RecoveredIdFacts DEF Numbers, Types
  <2> QED
    BY <2>1, <2>2, RecoveredIdFacts DEF Numbers
<1>15. CASE Crash
  BY <1>15 DEF Crash, Numbers
<1> QED
  BY <1>0, <1>1, <1>2, <1>3, <1>4, <1>6, <1>7, <1>8, <1>9, <1>10, <1>11, <1>12, <1>13, <1>14, <1>15 DEF Next

\* IdsAreUnique, where the commit that reserves a batch of ids succeeds: no inode
\* gets an id that another has had, whatever is deleted and whenever the master
\* crashes.  (Where that commit may fail it does not hold: AllocateId goes on with
\* ids that the store does not know of.)
THEOREM IdsHold == ASSUME ~CounterFails PROVE Spec => []IdsAreUnique
<1>1. Init => Types /\ Numbers
  BY InitTypes DEF Init, Numbers
<1>2. Types /\ Numbers => IdsAreUnique
  <2> SUFFICES ASSUME Types, Numbers, NEW id \in given
               PROVE  id < RecoveredId /\ (up => id < nextId)
    BY DEF IdsAreUnique
  <2> QED
    BY RecoveredIdFacts DEF Numbers, Types
<1>3. Types /\ Numbers /\ [Next]_vars => (Types /\ Numbers)'
  BY TypesStep, NumbersStep
<1> QED
  BY <1>1, <1>2, <1>3, PTL DEF Spec

-----------------------------------------------------------------------------
(* Memory and store *)

\* What a path resolves to is in memory, or a file.
LEMMA ResolveKnown ==
    ASSUME Types, Ids, NEW p \in Seq(Names)
    PROVE  /\ Resolve(p) \in Known
           /\ p # <<>> /\ Resolve(p) # NoId => /\ Resolve(p) \in given
                                               /\ IsDir(ParentOf(p)) /\ Last(p) \in DOMAIN dirs[ParentOf(p)].kids
                                               /\ Resolve(p) = dirs[ParentOf(p)].kids[Last(p)]
  BY ResolveFacts DEF Ids, Known, IsDir

\* A new inode: what CreateFile and a turn of CreateDirectory do.
MakesNew(pid, name, isdir) ==
    /\ up /\ up' = up
    /\ pid \in Nat /\ name \in Names
    /\ IsDir(pid) /\ name \notin DOMAIN dirs[pid].kids
    /\ inodes' = Put(inodes, nextId, Inode(pid, name, isdir))
    /\ edges' = Put(edges, <<pid, name>>, nextId)
    /\ given' = given \cup {nextId}
    /\ dirs' = LET map == AddKid(dirs, pid, name, nextId)
               IN  IF isdir THEN Put(map, nextId, [inode |-> Inode(pid, name, isdir), kids |-> EmptyMap]) ELSE map

\* The next id is in use nowhere.
LEMMA NextIdIsFresh ==
    ASSUME Types, Numbers, Ids, up
    PROVE  /\ nextId \in Nat /\ nextId \notin Known
           /\ nextId \notin DOMAIN dirs /\ nextId \notin DOMAIN inodes
           /\ \A n : <<nextId, n>> \notin DOMAIN edges
  BY DEF Types, Numbers, Ids, Known, Root, NoId

\* What the making of an inode does to memory
LEMMA MakesNewDirs ==
    ASSUME Types, Numbers, Ids, NEW pid, NEW name, NEW isdir \in BOOLEAN, MakesNew(pid, name, isdir)
    PROVE  /\ DOMAIN dirs' = DOMAIN dirs \cup (IF isdir THEN {nextId} ELSE {})
           /\ \A d \in DOMAIN dirs : d # pid => dirs'[d] = dirs[d]
           /\ dirs'[pid].inode = dirs[pid].inode
           /\ dirs'[pid].kids = Put(dirs[pid].kids, name, nextId)
           /\ isdir => dirs'[nextId] = [inode |-> Inode(pid, name, isdir), kids |-> EmptyMap]
<1> DEFINE map == AddKid(dirs, pid, name, nextId)
<1>1. /\ nextId \in Nat \ {NoId} /\ nextId \notin DOMAIN dirs /\ pid \in DOMAIN dirs /\ IsDirs(dirs)
      /\ pid \in Nat /\ name \in Names
  BY NextIdIsFresh DEF MakesNew, IsDir, Types, NoId
<1>2. /\ DOMAIN map = DOMAIN dirs
      /\ \A d \in DOMAIN dirs : d # pid => map[d] = dirs[d]
      /\ map[pid].inode = dirs[pid].inode
      /\ map[pid].kids = Put(dirs[pid].kids, name, nextId)
  <2>1. DOMAIN map = DOMAIN dirs \cup {pid}
    BY AddKidOthers, Zenon
  <2>2. \A d \in DOMAIN dirs : d # pid => map[d] = dirs[d]
    BY DEF AddKid, Put
  <2>3. At(dirs, pid) = dirs[pid]
    BY <1>1 DEF At
  <2>4. map[pid].inode = At(dirs, pid).inode /\ map[pid].kids = Put(At(dirs, pid).kids, name, nextId)
    BY <1>1, AtIsEntry, AddKidAt
  <2> QED
    BY <1>1, <2>1, <2>2, <2>3, <2>4
<1>3. dirs' = IF isdir THEN Put(map, nextId, [inode |-> Inode(pid, name, isdir), kids |-> EmptyMap]) ELSE map
  BY DEF MakesNew
<1> HIDE DEF map
<1> QED
  BY <1>1, <1>2, <1>3 DEF Put

\* What the making of an inode does to the store
LEMMA MakesNewStore ==
    ASSUME Types, Numbers, Ids, NEW pid, NEW name, NEW isdir \in BOOLEAN, MakesNew(pid, name, isdir)
    PROVE  /\ DOMAIN inodes' = DOMAIN inodes \cup {nextId}
           /\ \A i \in DOMAIN inodes : inodes'[i] = inodes[i]
           /\ inodes'[nextId] = Inode(pid, name, isdir)
           /\ DOMAIN edges' = DOMAIN edges \cup {<<pid, name>>}
           /\ \A e \in DOMAIN edges : e # <<pid, name>> => edges'[e] = edges[e]
           /\ edges'[<<pid, name>>] = nextId
           /\ Known' = Known \cup {nextId}
  BY NextIdIsFresh DEF MakesNew, Put, Known

\* The making of an inode keeps Ids.
LEMMA MakesNewIds ==
    ASSUME Types, Numbers, Ids, Mem, NEW pid, NEW name, NEW isdir \in BOOLEAN, MakesNew(pid, name, isdir),
           mkdir'.cur \in Known'
    PROVE  Ids'
<1>d. /\ DOMAIN dirs' = DOMAIN dirs \cup (IF isdir THEN {nextId} ELSE {})
      /\ \A d \in DOMAIN dirs : d # pid => dirs'[d] = dirs[d]
      /\ dirs'[pid].inode = dirs[pid].inode
      /\ dirs'[pid].kids = Put(dirs[pid].kids, name, nextId)
      /\ isdir => dirs'[nextId] = [inode |-> Inode(pid, name, isdir), kids |-> EmptyMap]
  BY MakesNewDirs, Zenon
<1>s. /\ DOMAIN inodes' = DOMAIN inodes \cup {nextId}
      /\ \A i \in DOMAIN inodes : inodes'[i] = inodes[i]
      /\ inodes'[nextId] = Inode(pid, name, isdir)
      /\ DOMAIN edges' = DOMAIN edges \cup {<<pid, name>>}
      /\ \A e \in DOMAIN edges : e # <<pid, name>> => edges'[e] = edges[e]
      /\ edges'[<<pid, name>>] = nextId
      /\ Known' = Known \cup {nextId}
  BY MakesNewStore, Zenon
<1>1. /\ given' = given \cup {nextId} /\ pid \in DOMAIN dirs /\ pid \in DOMAIN inodes /\ inodes[pid].isdir
      /\ pid \in Nat /\ name \in Names
  BY DEF MakesNew, Mem, IsDir
<1>2. /\ Inode(pid, name, isdir).parent = pid /\ Inode(pid, name, isdir).isdir = isdir
  BY DEF Inode
<1>3. DOMAIN dirs' \subseteq Known' /\ DOMAIN inodes' \subseteq Known'
  BY <1>d, <1>s DEF Ids
<1>4. pid \in Known'
  BY <1>1, <1>s DEF Ids
<1>5. ASSUME NEW d \in DOMAIN dirs'
      PROVE  dirs'[d].inode.parent \in Known' /\ \A n \in DOMAIN dirs'[d].kids : dirs'[d].kids[n] \in given'
  <2>1. CASE d = nextId /\ isdir /\ d # pid
    <3>1. dirs'[d].inode = Inode(pid, name, isdir) /\ DOMAIN dirs'[d].kids = {}
      <4>1. dirs'[d] = [inode |-> Inode(pid, name, isdir), kids |-> EmptyMap]
        BY <1>d, <2>1, Zenon
      <4> QED
        BY <4>1 DEF EmptyMap
    <3> QED
      BY <1>2, <1>4, <3>1
  <2>2. CASE d = pid
    <3>1. dirs'[d].inode = dirs[d].inode /\ dirs'[d].kids = Put(dirs[d].kids, name, nextId)
      BY <2>2, <1>d
    <3> QED
      BY <1>1, <2>2, <3>1, <1>s DEF Ids, Put
  <2>3. CASE d # pid /\ d \in DOMAIN dirs
    <3>1. dirs'[d] = dirs[d]
      BY <2>3, <1>d
    <3> QED
      BY <1>1, <2>3, <3>1, <1>s DEF Ids
  <2> QED
    BY <2>1, <2>2, <2>3, <1>d
<1>6. ASSUME NEW i \in DOMAIN inodes'
      PROVE  inodes'[i].parent \in Known'
  BY <1>2, <1>4, <1>s DEF Ids
<1>7. ASSUME NEW e \in DOMAIN edges'
      PROVE  edges'[e] \in given' /\ e[1] \in DOMAIN inodes' /\ inodes'[e[1]].isdir
  <2>1. CASE e = <<pid, name>>
    BY <1>1, <2>1, <1>s
  <2>2. CASE e # <<pid, name>>
    <3>1. e \in DOMAIN edges /\ edges'[e] = edges[e]
      BY <2>2, <1>s
    <3>2. edges[e] \in given /\ e[1] \in DOMAIN inodes /\ inodes[e[1]].isdir
      BY <3>1 DEF Ids
    <3> QED
      BY <1>1, <3>1, <3>2, <1>s
  <2> QED
    BY <2>1, <2>2
<1> QED
  BY <1>3, <1>5, <1>6, <1>7 DEF Ids

\* The making of an inode keeps memory and store in step.
LEMMA MakesNewMem ==
    ASSUME Types, Numbers, Ids, Mem, NEW pid, NEW name, NEW isdir \in BOOLEAN, MakesNew(pid, name, isdir)
    PROVE  Mem'
<1>d. /\ DOMAIN dirs' = DOMAIN dirs \cup (IF isdir THEN {nextId} ELSE {})
      /\ \A d \in DOMAIN dirs : d # pid => dirs'[d] = dirs[d]
      /\ dirs'[pid].inode = dirs[pid].inode
      /\ dirs'[pid].kids = Put(dirs[pid].kids, name, nextId)
      /\ isdir => dirs'[nextId] = [inode |-> Inode(pid, name, isdir), kids |-> EmptyMap]
  BY MakesNewDirs, Zenon
<1>s. /\ DOMAIN inodes' = DOMAIN inodes \cup {nextId}
      /\ \A i \in DOMAIN inodes : inodes'[i] = inodes[i]
      /\ inodes'[nextId] = Inode(pid, name, isdir)
      /\ DOMAIN edges' = DOMAIN edges \cup {<<pid, name>>}
      /\ \A e \in DOMAIN edges : e # <<pid, name>> => edges'[e] = edges[e]
      /\ edges'[<<pid, name>>] = nextId
      /\ Known' = Known \cup {nextId}
  BY MakesNewStore, Zenon
<1>1. /\ pid \in DOMAIN dirs /\ pid \in Nat /\ name \in Names /\ up /\ IsDir(pid)
      /\ nextId \notin DOMAIN dirs /\ nextId \notin DOMAIN inodes /\ \A n : <<nextId, n>> \notin DOMAIN edges
  BY NextIdIsFresh DEF MakesNew, IsDir
<1>2. Inode(pid, name, isdir).isdir = isdir
  BY DEF Inode
<1>3. ASSUME NEW d
      PROVE  IsDir(d)' <=> IsDir(d) \/ (isdir /\ d = nextId)
  BY <1>1, <1>2, <1>d DEF IsDir
<1>4. ASSUME NEW d
      PROVE  (d \in DOMAIN inodes' /\ inodes'[d].isdir) <=> IsDir(d)'
  BY <1>1, <1>2, <1>3, <1>s DEF Mem
<1>5. ASSUME NEW d, IsDir(d)'
      PROVE  /\ dirs'[d].inode = inodes'[d]
             /\ \A n : /\ n \in DOMAIN dirs'[d].kids <=> <<d, n>> \in DOMAIN edges'
                       /\ n \in DOMAIN dirs'[d].kids => dirs'[d].kids[n] = edges'[<<d, n>>]
  <2>1. CASE isdir /\ d = nextId
    <3>1. dirs'[d].inode = inodes'[d] /\ DOMAIN dirs'[d].kids = {}
      <4>1. dirs'[d] = [inode |-> inodes'[d], kids |-> EmptyMap]
        BY <1>d, <1>s, <2>1, Zenon
      <4> QED
        BY <4>1 DEF EmptyMap
    <3>2. \A n : <<d, n>> \notin DOMAIN edges'
      BY <1>1, <2>1, <1>s
    <3> QED
      BY <3>1, <3>2
  <2>2. CASE d # nextId /\ IsDir(d)
    <3>1. /\ dirs[d].inode = inodes[d] /\ d \in DOMAIN dirs /\ d \in DOMAIN inodes
          /\ \A n : /\ n \in DOMAIN dirs[d].kids <=> <<d, n>> \in DOMAIN edges
                    /\ n \in DOMAIN dirs[d].kids => dirs[d].kids[n] = edges[<<d, n>>]
      BY <1>1, <2>2 DEF Mem, IsDir
    <3>2. CASE d # pid
      BY <3>1, <3>2, <1>d, <1>s
    <3>3. CASE d = pid
      <4>1. dirs'[d].inode = inodes'[d]
        BY <3>1, <3>3, <1>d, <1>s
      <4>2. dirs'[d].kids = Put(dirs[d].kids, name, nextId)
        BY <3>3, <1>d
      <4>3. \A n : n \in DOMAIN dirs'[d].kids <=> n \in DOMAIN dirs[d].kids \/ n = name
        BY <4>2 DEF Put
      <4>4. \A n : <<d, n>> \in DOMAIN edges' <=> <<d, n>> \in DOMAIN edges \/ n = name
        BY <3>3, <1>s
      <4>5. ASSUME NEW n \in DOMAIN dirs'[d].kids
            PROVE  dirs'[d].kids[n] = edges'[<<d, n>>]
        BY <3>1, <3>3, <4>2, <4>3, <4>4, <1>s DEF Put
      <4> QED
        BY <3>1, <4>1, <4>3, <4>4, <4>5
    <3> QED
      BY <3>2, <3>3
  <2> QED
    BY <1>1, <1>3, <1>5, <2>1, <2>2 DEF IsDir
<1> QED
  BY <1>4, <1>5 DEF Mem

\* A set that has the kids of the directories in it.
Closed(S) == \A d \in S \cap DOMAIN dirs : \A n \in DOMAIN dirs[d].kids : dirs[d].kids[n] \in S

\* Subtree(id) is the least such set with id in it; but for id itself, it has nothing
\* that is not an entry of a directory in it.
LEMMA SubtreeFacts ==
    ASSUME NEW id
    PROVE  /\ id \in Subtree(id) /\ Closed(Subtree(id))
           /\ \A S : id \in S /\ Closed(S) => Subtree(id) \subseteq S
           /\ \A x \in Subtree(id) : x # id =>
                 \E d \in Subtree(id) \cap DOMAIN dirs : \E n \in DOMAIN dirs[d].kids : dirs[d].kids[n] = x
<1> DEFINE all == {id} \cup UNION {Range(dirs[d].kids) : d \in DOMAIN dirs}
           tree == {x \in all : \A S \in SUBSET all : id \in S /\ Closed(S) => x \in S}
<1>1. \A S : (\A d \in S \cap DOMAIN dirs : Range(dirs[d].kids) \subseteq S) <=> Closed(S)
  BY DEF Closed, Range
<1>2. Subtree(id) = tree
  BY <1>1 DEF Subtree
<1>3. \A d \in DOMAIN dirs : \A n \in DOMAIN dirs[d].kids : dirs[d].kids[n] \in all
  BY DEF Range
<1>4. id \in all
  OBVIOUS
<1> HIDE DEF all
<1>5. id \in tree /\ tree \subseteq all
  BY <1>4
<1>6. Closed(tree)
  <2> SUFFICES ASSUME NEW d \in tree \cap DOMAIN dirs, NEW n \in DOMAIN dirs[d].kids,
                      NEW S \in SUBSET all, id \in S, Closed(S)
               PROVE  dirs[d].kids[n] \in S
    BY <1>3 DEF Closed
  <2> QED
    BY DEF Closed
<1>7. ASSUME NEW S, id \in S, Closed(S)
      PROVE  tree \subseteq S
  <2>1. Closed(S \cap all)
    BY <1>3, <1>7 DEF Closed
  <2>2. id \in S \cap all /\ S \cap all \in SUBSET all
    BY <1>4, <1>7
  <2> QED
    BY <2>1, <2>2
<1> HIDE DEF tree
<1>8. ASSUME NEW x \in tree, x # id
      PROVE  \E d \in tree \cap DOMAIN dirs : \E n \in DOMAIN dirs[d].kids : dirs[d].kids[n] = x
  <2> SUFFICES ASSUME ~\E d \in tree \cap DOMAIN dirs : \E n \in DOMAIN dirs[d].kids : dirs[d].kids[n] = x
               PROVE  FALSE
    OBVIOUS
  <2>1. Closed(tree \ {x})
    BY <1>6 DEF Closed
  <2> QED
    BY <1>5, <1>7, <1>8, <2>1
<1> QED
  BY <1>2, <1>5, <1>6, <1>7, <1>8

\* What Delete does.
DeleteEffect(p, tree, pid) ==
    /\ up /\ up' = up /\ kernel' = kernel /\ given' = given /\ mkdir' = mkdir /\ mkdir = NoMkdir
    /\ p \in Seq(Names) /\ p # <<>> /\ Resolve(p) # NoId
    /\ DOMAIN inodes' = DOMAIN inodes \ tree
    /\ \A i \in DOMAIN inodes' : inodes'[i] = inodes[i]
    /\ \A d, n : <<d, n>> \in DOMAIN edges' <=>
          <<d, n>> \in DOMAIN edges /\ <<d, n>> # <<pid, Last(p)>>
          /\ ~(d \in tree /\ d \in DOMAIN dirs /\ n \in DOMAIN dirs[d].kids)
    /\ DOMAIN edges' \subseteq DOMAIN edges
    /\ \A e \in DOMAIN edges' : edges'[e] = edges[e]
    /\ DOMAIN dirs' = DOMAIN dirs \ tree
    /\ \A d \in DOMAIN dirs' : /\ dirs'[d].inode = dirs[d].inode
                               /\ d # pid => dirs'[d] = dirs[d]
                               /\ d = pid => dirs'[d].kids = Del(dirs[d].kids, Last(p))

\* What Delete does, to memory and to the store
LEMMA DeleteFacts ==
    ASSUME Types, Ids, NEW p \in Paths, NEW rec \in BOOLEAN, Delete(p, rec)
    PROVE  DeleteEffect(p, Subtree(Resolve(p)), OwnParent(p))
<1> DEFINE tree == Subtree(Resolve(p))
           pid == OwnParent(p)
           rest == IF pid \in DOMAIN dirs THEN DelKid(dirs, pid, Last(p)) ELSE dirs
           gone == {<<pid, Last(p)>>} \cup UNION {{d} \X DOMAIN dirs[d].kids : d \in tree \cap DOMAIN dirs}
<1>1. /\ inodes' = [i \in DOMAIN inodes \ tree |-> inodes[i]]
      /\ edges' = [e \in DOMAIN edges \ gone |-> edges[e]]
      /\ dirs' = [d \in DOMAIN rest \ tree |-> rest[d]]
      /\ up /\ up' = up /\ kernel' = kernel /\ given' = given /\ mkdir' = mkdir /\ mkdir = NoMkdir
      /\ p # <<>> /\ Resolve(p) # NoId
  BY DEF Delete, Unlocked, ids
<1> HIDE DEF tree, pid
<1>2. p \in Seq(Names)
  BY PathsAreSeqs
<1>3. \A d, n : <<d, n>> \in gone <=> \/ <<d, n>> = <<pid, Last(p)>>
                                      \/ d \in tree /\ d \in DOMAIN dirs /\ n \in DOMAIN dirs[d].kids
  OBVIOUS
<1>4. /\ DOMAIN rest = DOMAIN dirs
      /\ \A d \in DOMAIN dirs : /\ rest[d].inode = dirs[d].inode
                                /\ d # pid => rest[d] = dirs[d]
                                /\ d = pid => rest[d].kids = Del(dirs[d].kids, Last(p))
  <2>1. CASE pid \in DOMAIN dirs
    <3>1. rest = DelKid(dirs, pid, Last(p)) /\ At(dirs, pid) = dirs[pid] /\ IsEntry(At(dirs, pid))
      BY <2>1, AtIsEntry DEF At, Types
    <3>2. DOMAIN rest = DOMAIN dirs /\ \A d \in DOMAIN dirs : d # pid => rest[d] = dirs[d]
      BY <2>1 DEF DelKid, Put
    <3>3. rest[pid].inode = dirs[pid].inode /\ rest[pid].kids = Del(dirs[pid].kids, Last(p))
      BY <3>1, DelKidAt
    <3> HIDE DEF rest
    <3> QED
      BY <2>1, <3>2, <3>3
  <2>2. CASE pid \notin DOMAIN dirs
    BY <2>2
  <2> QED
    BY <2>1, <2>2
<1> HIDE DEF rest, gone
<1>5. /\ DOMAIN dirs' = DOMAIN dirs \ tree
      /\ \A d \in DOMAIN dirs' : /\ dirs'[d].inode = dirs[d].inode
                                 /\ d # pid => dirs'[d] = dirs[d]
                                 /\ d = pid => dirs'[d].kids = Del(dirs[d].kids, Last(p))
  BY <1>1, <1>4
<1>6. /\ DOMAIN edges' \subseteq DOMAIN edges
      /\ \A e \in DOMAIN edges' : edges'[e] = edges[e]
      /\ \A e : e \in DOMAIN edges' <=> e \in DOMAIN edges /\ e \notin gone
  BY <1>1
<1>7. \A d, n : <<d, n>> \in DOMAIN edges' <=>
         <<d, n>> \in DOMAIN edges /\ <<d, n>> # <<pid, Last(p)>>
         /\ ~(d \in tree /\ d \in DOMAIN dirs /\ n \in DOMAIN dirs[d].kids)
  BY <1>3, <1>6, Zenon
<1>8. DOMAIN inodes' = DOMAIN inodes \ tree /\ \A i \in DOMAIN inodes' : inodes'[i] = inodes[i]
  BY <1>1
<1>9. DeleteEffect(p, tree, pid)
  BY <1>1, <1>2, <1>5, <1>6, <1>7, <1>8 DEF DeleteEffect
<1> QED
  BY <1>9 DEF tree, pid

\* Delete keeps memory and store in step: what leaves one leaves the other.
LEMMA DeleteKeeps ==
    ASSUME Types, Ids, Mem, NEW p \in Paths, NEW rec \in BOOLEAN, Delete(p, rec)
    PROVE  Ids' /\ Mem'
<1> DEFINE tree == Subtree(Resolve(p))
           pid == OwnParent(p)
<1>0. DeleteEffect(p, tree, pid)
  BY DeleteFacts
<1> HIDE DEF tree, pid
<1>1. /\ up /\ up' = up /\ given' = given /\ mkdir' = mkdir /\ Known' = Known
      /\ DOMAIN inodes' = DOMAIN inodes \ tree
      /\ \A i \in DOMAIN inodes' : inodes'[i] = inodes[i]
      /\ DOMAIN edges' \subseteq DOMAIN edges
      /\ \A e \in DOMAIN edges' : edges'[e] = edges[e]
      /\ DOMAIN dirs' = DOMAIN dirs \ tree
  BY <1>0 DEF DeleteEffect, Known
<1>2. \A d \in DOMAIN dirs' : /\ dirs'[d].inode = dirs[d].inode
                              /\ d # pid => dirs'[d] = dirs[d]
                              /\ d = pid => dirs'[d].kids = Del(dirs[d].kids, Last(p))
  BY <1>0 DEF DeleteEffect
<1>3. \A d, n : <<d, n>> \in DOMAIN edges' <=>
         <<d, n>> \in DOMAIN edges /\ <<d, n>> # <<pid, Last(p)>>
         /\ ~(d \in tree /\ d \in DOMAIN dirs /\ n \in DOMAIN dirs[d].kids)
  BY <1>0, Zenon DEF DeleteEffect
<1>4. \A d \in DOMAIN dirs' : \A n :
         /\ n \in DOMAIN dirs'[d].kids <=> n \in DOMAIN dirs[d].kids /\ ~(d = pid /\ n = Last(p))
         /\ n \in DOMAIN dirs'[d].kids => dirs'[d].kids[n] = dirs[d].kids[n]
  BY <1>2, Zenon DEF Del
<1>5. \A e \in DOMAIN edges : e = <<e[1], e[2]>>
  BY DEF Types
\* the edges of the directories that are gone are gone
<1>6. \A e \in DOMAIN edges' : e[1] \notin tree
  <2> SUFFICES ASSUME NEW e \in DOMAIN edges', e[1] \in tree
               PROVE  FALSE
    OBVIOUS
  <2>1. e \in DOMAIN edges /\ e = <<e[1], e[2]>> /\ e[1] \in DOMAIN inodes /\ inodes[e[1]].isdir
    BY <1>1, <1>5 DEF Ids
  <2>2. IsDir(e[1])
    BY <1>1, <2>1 DEF Mem
  <2>3. e[1] \in DOMAIN dirs /\ e[2] \in DOMAIN dirs[e[1]].kids
    BY <1>1, <2>1, <2>2 DEF Mem, IsDir
  <2> QED
    BY <1>3, <2>1, <2>3
<1>7. Ids'
  <2>1. DOMAIN dirs' \subseteq Known' /\ DOMAIN inodes' \subseteq Known' /\ mkdir'.cur \in Known'
    BY <1>1 DEF Ids
  <2>2. \A d \in DOMAIN dirs' : /\ dirs'[d].inode.parent \in Known'
                                /\ \A n \in DOMAIN dirs'[d].kids : dirs'[d].kids[n] \in given'
    BY <1>1, <1>2, <1>4 DEF Ids
  <2>3. \A i \in DOMAIN inodes' : inodes'[i].parent \in Known'
    BY <1>1 DEF Ids
  <2>4. \A e \in DOMAIN edges' : edges'[e] \in given' /\ e[1] \in DOMAIN inodes' /\ inodes'[e[1]].isdir
    BY <1>1, <1>6 DEF Ids
  <2> QED
    BY <2>1, <2>2, <2>3, <2>4 DEF Ids
<1>8. \A d : IsDir(d)' <=> IsDir(d) /\ d \notin tree
  BY <1>1, <1>2 DEF IsDir
<1>9. \A d : (d \in DOMAIN inodes' /\ inodes'[d].isdir) <=> IsDir(d)'
  BY <1>1, <1>8 DEF Mem
<1>10. ASSUME NEW d, IsDir(d)'
       PROVE  /\ dirs'[d].inode = inodes'[d]
              /\ \A n : /\ n \in DOMAIN dirs'[d].kids <=> <<d, n>> \in DOMAIN edges'
                        /\ n \in DOMAIN dirs'[d].kids => dirs'[d].kids[n] = edges'[<<d, n>>]
  <2>1. d \in DOMAIN dirs' /\ d \notin tree /\ IsDir(d) /\ d \in DOMAIN inodes'
    BY <1>1, <1>8, <1>9, <1>10 DEF IsDir
  <2>2. /\ dirs[d].inode = inodes[d]
        /\ \A n : /\ n \in DOMAIN dirs[d].kids <=> <<d, n>> \in DOMAIN edges
                  /\ n \in DOMAIN dirs[d].kids => dirs[d].kids[n] = edges[<<d, n>>]
    BY <1>1, <2>1 DEF Mem
  <2> QED
    BY <1>1, <1>2, <1>3, <1>4, <2>1, <2>2
<1> QED
  BY <1>7, <1>9, <1>10 DEF Mem

\* What Rename does: the inode of id, moved, from <<opid, oname>> to <<pid, name>>.
RenameEffect(p, q, id, pid, name, opid, oname, inode) ==
    /\ up /\ up' = up /\ kernel' = kernel /\ given' = given /\ mkdir' = mkdir /\ mkdir = NoMkdir
    /\ p \in Seq(Names) /\ p # <<>> /\ q \in Seq(Names) /\ q # <<>> /\ (~kernel \/ ~IsPrefix(p, q))
    /\ id \in Nat /\ id # NoId /\ pid \in Nat /\ name \in Names /\ opid \in Nat
    /\ IsDir(pid) /\ name \notin DOMAIN dirs[pid].kids
    /\ id \in DOMAIN dirs \/ id \in DOMAIN inodes
    /\ DOMAIN inodes' = DOMAIN inodes \cup {id}
    /\ inodes'[id] = inode /\ \A i \in DOMAIN inodes : i # id => inodes'[i] = inodes[i]
    /\ inode.parent = pid /\ inode.name = name
    /\ inode.isdir = (IF id \in DOMAIN dirs THEN dirs[id].inode ELSE inodes[id]).isdir
    /\ \A e : e \in DOMAIN edges' <=> (e \in DOMAIN edges /\ e # <<opid, oname>>) \/ e = <<pid, name>>
    /\ \A e \in DOMAIN edges' : edges'[e] = IF e = <<pid, name>> THEN id ELSE edges[e]
    /\ DOMAIN dirs' = DOMAIN dirs \cup {opid}
    /\ \A d \in DOMAIN dirs' :
          /\ dirs'[d].inode = IF d = id /\ id \in DOMAIN dirs THEN inode ELSE At(dirs, d).inode
          /\ \A n : n \in DOMAIN dirs'[d].kids <=>
                (n \in DOMAIN At(dirs, d).kids /\ ~(d = opid /\ n = oname)) \/ (d = pid /\ n = name)
          /\ \A n \in DOMAIN dirs'[d].kids :
                dirs'[d].kids[n] = IF d = pid /\ n = name THEN id ELSE At(dirs, d).kids[n]

\* What Rename does, to memory and to the store
LEMMA RenameFacts ==
    ASSUME Types, NEW p \in Paths, NEW q \in Paths, Rename(p, q)
    PROVE  \E id, pid, name, opid, oname, inode :
              /\ id = Resolve(p) /\ pid = ParentOf(q) /\ name = Last(q)
              /\ opid = OwnParent(p) /\ oname = OwnName(p)
              /\ inode = Moved(IF id \in DOMAIN dirs THEN dirs[id].inode ELSE inodes[id], pid, name)
              /\ RenameEffect(p, q, id, pid, name, opid, oname, inode)
<1> DEFINE id == Resolve(p)
           pid == ParentOf(q)
           name == Last(q)
           opid == OwnParent(p)
           oname == OwnName(p)
           old == IF id \in DOMAIN dirs THEN dirs[id].inode ELSE inodes[id]
           inode == Moved(old, pid, name)
           from == DelKid(dirs, opid, oname)
           to == AddKid(from, pid, name, id)
<1>1. /\ id # NoId /\ (id \in DOMAIN dirs \/ id \in DOMAIN inodes)
      /\ inodes' = Put(inodes, id, inode)
      /\ edges' = MovedEdges(<<opid, oname>>, <<pid, name>>, id)
      /\ dirs' = IF id \in DOMAIN dirs THEN [to EXCEPT ![id].inode = inode] ELSE to
      /\ IsDir(pid) /\ name \notin DOMAIN dirs[pid].kids
      /\ up /\ up' = up /\ kernel' = kernel /\ given' = given /\ mkdir' = mkdir /\ mkdir = NoMkdir
      /\ p # <<>> /\ q # <<>> /\ (~kernel \/ ~IsPrefix(p, q))
  BY DEF Rename, Unlocked, ids
<1>2. p \in Seq(Names) /\ q \in Seq(Names)
  BY PathsAreSeqs
<1>3. id \in Nat /\ pid \in Nat /\ name \in Names /\ ParentOf(p) \in Nat
  BY <1>1, <1>2, ResolveFacts DEF ParentOf
<1>4. opid \in Nat
  BY <1>3, Zenon DEF OwnParent, Types, IsDirs, IsEntry, InodeRecord
<1>5. old \in InodeRecord
  BY <1>1 DEF Types, IsDirs, IsEntry
<1>6. inode = [old EXCEPT !.parent = pid, !.name = name]
  BY DEF Moved
<1> HIDE DEF old, id, pid, name, opid, oname, inode
<1>7. inode.parent = pid /\ inode.name = name /\ inode.isdir = old.isdir /\ inode \in InodeRecord
  BY <1>3, <1>5, <1>6, Zenon DEF InodeRecord
<1>8. /\ DOMAIN inodes' = DOMAIN inodes \cup {id}
      /\ inodes'[id] = inode /\ \A i \in DOMAIN inodes : i # id => inodes'[i] = inodes[i]
  BY <1>1 DEF Put
<1>9. /\ \A e : e \in DOMAIN edges' <=> (e \in DOMAIN edges /\ e # <<opid, oname>>) \/ e = <<pid, name>>
      /\ \A e \in DOMAIN edges' : edges'[e] = IF e = <<pid, name>> THEN id ELSE edges[e]
  BY <1>1 DEF MovedEdges, Put, Del
<1>10. /\ DOMAIN from = DOMAIN dirs \cup {opid}
       /\ \A d \in DOMAIN from :
             /\ from[d].inode = At(dirs, d).inode
             /\ \A n : n \in DOMAIN from[d].kids <=> n \in DOMAIN At(dirs, d).kids /\ ~(d = opid /\ n = oname)
             /\ \A n \in DOMAIN from[d].kids : from[d].kids[n] = At(dirs, d).kids[n]
  <2>1. DOMAIN from = DOMAIN dirs \cup {opid}
    BY DelKidOthers, Zenon
  <2>2. ASSUME NEW d \in DOMAIN from, d # opid
        PROVE  from[d] = At(dirs, d)
    BY <2>1, <2>2 DEF At, DelKid, Put
  <2>3. IsEntry(At(dirs, opid))
    BY AtIsEntry DEF Types
  <2>4. from[opid].inode = At(dirs, opid).inode /\ from[opid].kids = Del(At(dirs, opid).kids, oname)
    BY <2>3, DelKidAt
  <2> HIDE DEF from
  <2> QED
    BY <2>1, <2>2, <2>4 DEF Del
<1>11. IsDirs(from)
  BY <1>4, DelKidIsDirs DEF Types
<1> HIDE DEF from
<1>12. /\ DOMAIN to = DOMAIN dirs \cup {opid}
       /\ \A d \in DOMAIN to : d # pid => to[d] = from[d]
       /\ to[pid].inode = from[pid].inode /\ to[pid].kids = Put(from[pid].kids, name, id)
  <2>1. pid \in DOMAIN from /\ At(from, pid) = from[pid]
    BY <1>1, <1>10 DEF IsDir, At
  <2>2. IsEntry(At(from, pid))
    BY <1>11, AtIsEntry
  <2>3. DOMAIN to = DOMAIN dirs \cup {opid}
    <3>1. DOMAIN to = DOMAIN from \cup {pid}
      BY AddKidOthers, Zenon
    <3> QED
      BY <1>10, <2>1, <3>1
  <2>4. ASSUME NEW d \in DOMAIN to, d # pid
        PROVE  to[d] = from[d]
    BY <1>10, <2>3, <2>4 DEF AddKid, Put
  <2>5. to[pid].inode = At(from, pid).inode /\ to[pid].kids = Put(At(from, pid).kids, name, id)
    BY <2>2, AddKidAt
  <2> QED
    BY <2>1, <2>3, <2>4, <2>5
<1>13. IsDirs(to)
  <2>1. id \in Nat \ {NoId}
    BY <1>1, <1>3
  <2> QED
    BY <1>3, <1>11, <2>1, AddKidIsDirs
<1> HIDE DEF to
<1>14. \A d \in DOMAIN to :
          /\ to[d].inode = At(dirs, d).inode
          /\ \A n : n \in DOMAIN to[d].kids <=>
                (n \in DOMAIN At(dirs, d).kids /\ ~(d = opid /\ n = oname)) \/ (d = pid /\ n = name)
          /\ \A n \in DOMAIN to[d].kids : to[d].kids[n] = IF d = pid /\ n = name THEN id ELSE At(dirs, d).kids[n]
  <2> SUFFICES ASSUME NEW d \in DOMAIN to
               PROVE  /\ to[d].inode = At(dirs, d).inode
                      /\ \A n : n \in DOMAIN to[d].kids <=>
                            (n \in DOMAIN At(dirs, d).kids /\ ~(d = opid /\ n = oname)) \/ (d = pid /\ n = name)
                      /\ \A n \in DOMAIN to[d].kids :
                            to[d].kids[n] = IF d = pid /\ n = name THEN id ELSE At(dirs, d).kids[n]
    OBVIOUS
  <2>1. /\ from[d].inode = At(dirs, d).inode
        /\ \A n : n \in DOMAIN from[d].kids <=> n \in DOMAIN At(dirs, d).kids /\ ~(d = opid /\ n = oname)
        /\ \A n \in DOMAIN from[d].kids : from[d].kids[n] = At(dirs, d).kids[n]
    BY <1>10, <1>12
  <2>2. CASE d = pid
    <3>1. to[d].inode = from[d].inode /\ to[d].kids = Put(from[d].kids, name, id)
      BY <1>12, <2>2
    <3>2. /\ \A n : n \in DOMAIN to[d].kids <=> n \in DOMAIN from[d].kids \/ n = name
          /\ \A n \in DOMAIN to[d].kids : to[d].kids[n] = IF n = name THEN id ELSE from[d].kids[n]
      BY <3>1 DEF Put
    <3> QED
      BY <2>1, <2>2, <3>1, <3>2
  <2>3. CASE d # pid
    BY <1>12, <2>1, <2>3
  <2> QED
    BY <2>2, <2>3
<1>15. /\ DOMAIN dirs' = DOMAIN to
       /\ \A d \in DOMAIN to : /\ dirs'[d].kids = to[d].kids
                               /\ dirs'[d].inode = IF d = id /\ id \in DOMAIN dirs THEN inode ELSE to[d].inode
  <2>1. CASE id \in DOMAIN dirs
    <3>1. dirs' = [to EXCEPT ![id] = [to[id] EXCEPT !.inode = inode]] /\ id \in DOMAIN to
      BY <1>1, <1>12, <2>1
    <3>2. IsEntry(to[id])
      BY <1>13, <3>1 DEF IsDirs
    <3> DEFINE x == [to[id] EXCEPT !.inode = inode]
    <3>3. x.inode = inode /\ x.kids = to[id].kids
      BY <1>7, <3>2, OtherInode
    <3> HIDE DEF x
    <3>4. dirs' = [to EXCEPT ![id] = x]
      BY <3>1 DEF x
    <3> QED
      BY <2>1, <3>1, <3>3, <3>4
  <2>2. CASE id \notin DOMAIN dirs
    BY <1>1, <2>2
  <2> QED
    BY <2>1, <2>2
<1>16. \A d \in DOMAIN dirs' :
          /\ dirs'[d].inode = IF d = id /\ id \in DOMAIN dirs THEN inode ELSE At(dirs, d).inode
          /\ \A n : n \in DOMAIN dirs'[d].kids <=>
                (n \in DOMAIN At(dirs, d).kids /\ ~(d = opid /\ n = oname)) \/ (d = pid /\ n = name)
          /\ \A n \in DOMAIN dirs'[d].kids :
                dirs'[d].kids[n] = IF d = pid /\ n = name THEN id ELSE At(dirs, d).kids[n]
  BY <1>14, <1>15
<1> QED
  <2> RenameEffect(p, q, id, pid, name, opid, oname, inode)
    BY <1>1, <1>2, <1>3, <1>4, <1>7, <1>8, <1>9, <1>12, <1>15, <1>16, Zenon DEF old, RenameEffect
  <2> QED
    BY DEF id, pid, name, opid, oname, inode, old

\* Rename keeps memory and store in step.
LEMMA RenameKeeps ==
    ASSUME Types, Ids, Mem, NEW p \in Paths, NEW q \in Paths, Rename(p, q)
    PROVE  Ids' /\ Mem'
<1>1. PICK id, pid, name, opid, oname, inode :
         /\ id = Resolve(p) /\ pid = ParentOf(q) /\ opid = OwnParent(p)
         /\ RenameEffect(p, q, id, pid, name, opid, oname, inode)
  BY RenameFacts
<1>2. /\ up /\ up' = up /\ given' = given /\ mkdir' = mkdir /\ Known' = Known
      /\ p \in Seq(Names) /\ p # <<>> /\ IsDir(pid)
      /\ id # NoId /\ (id \in DOMAIN dirs \/ id \in DOMAIN inodes)
      /\ DOMAIN inodes' = DOMAIN inodes \cup {id}
      /\ inodes'[id] = inode /\ \A i \in DOMAIN inodes : i # id => inodes'[i] = inodes[i]
      /\ inode.parent = pid /\ inode.isdir = (IF id \in DOMAIN dirs THEN dirs[id].inode ELSE inodes[id]).isdir
  BY <1>1 DEF RenameEffect, Known
<1>3. /\ \A e : e \in DOMAIN edges' <=> (e \in DOMAIN edges /\ e # <<opid, oname>>) \/ e = <<pid, name>>
      /\ \A e \in DOMAIN edges' : edges'[e] = IF e = <<pid, name>> THEN id ELSE edges[e]
  BY <1>1 DEF RenameEffect
<1>4. DOMAIN dirs' = DOMAIN dirs \cup {opid}
  BY <1>1 DEF RenameEffect
<1>5. \A d \in DOMAIN dirs' :
         /\ dirs'[d].inode = IF d = id /\ id \in DOMAIN dirs THEN inode ELSE At(dirs, d).inode
         /\ \A n : n \in DOMAIN dirs'[d].kids <=>
               (n \in DOMAIN At(dirs, d).kids /\ ~(d = opid /\ n = oname)) \/ (d = pid /\ n = name)
         /\ \A n \in DOMAIN dirs'[d].kids :
               dirs'[d].kids[n] = IF d = pid /\ n = name THEN id ELSE At(dirs, d).kids[n]
  BY <1>1 DEF RenameEffect
<1>6. \A d : At(dirs, d) = IF d \in DOMAIN dirs THEN dirs[d] ELSE DefaultEntry
  BY DEF At
<1>7. id \in given
  BY <1>1, <1>2, ResolveKnown
<1>8. pid \in Known /\ pid \in DOMAIN inodes /\ inodes[pid].isdir
  BY <1>2 DEF Ids, Mem, IsDir
<1>9. opid \in Known
  BY <1>1, <1>2, ResolveKnown DEF OwnParent, Ids, IsDir
<1>10. \A d : (d \in DOMAIN inodes' /\ inodes'[d].isdir) <=> (d \in DOMAIN inodes /\ inodes[d].isdir)
  BY <1>2 DEF Mem, IsDir
<1>11. Ids'
  <2>1. DOMAIN dirs' \subseteq Known' /\ DOMAIN inodes' \subseteq Known' /\ mkdir'.cur \in Known'
    BY <1>2, <1>4, <1>7, <1>9 DEF Ids, Known
  <2>2. ASSUME NEW d \in DOMAIN dirs'
        PROVE  dirs'[d].inode.parent \in Known' /\ \A n \in DOMAIN dirs'[d].kids : dirs'[d].kids[n] \in given'
    <3>1. At(dirs, d).inode.parent \in Known /\ \A n \in DOMAIN At(dirs, d).kids : At(dirs, d).kids[n] \in given
      BY <1>6, DefaultIsEntry DEF Ids, Known
    <3> QED
      BY <1>2, <1>5, <1>7, <1>8, <3>1
  <2>3. \A i \in DOMAIN inodes' : inodes'[i].parent \in Known'
    BY <1>2, <1>8 DEF Ids
  <2>4. \A e \in DOMAIN edges' : edges'[e] \in given' /\ e[1] \in DOMAIN inodes' /\ inodes'[e[1]].isdir
    BY <1>2, <1>3, <1>7, <1>8, <1>10 DEF Ids
  <2> QED
    BY <2>1, <2>2, <2>3, <2>4 DEF Ids
<1>12. \A d : IsDir(d)' <=> IsDir(d)
  BY <1>2, <1>4, <1>5, <1>6, DefaultIsEntry DEF IsDir
<1>13. ASSUME NEW d, IsDir(d)'
       PROVE  /\ dirs'[d].inode = inodes'[d]
              /\ \A n : /\ n \in DOMAIN dirs'[d].kids <=> <<d, n>> \in DOMAIN edges'
                        /\ n \in DOMAIN dirs'[d].kids => dirs'[d].kids[n] = edges'[<<d, n>>]
  <2>1. IsDir(d) /\ d \in DOMAIN dirs /\ d \in DOMAIN dirs' /\ At(dirs, d) = dirs[d]
    BY <1>4, <1>6, <1>12, <1>13 DEF IsDir
  <2>2. /\ dirs[d].inode = inodes[d] /\ d \in DOMAIN inodes
        /\ \A n : /\ n \in DOMAIN dirs[d].kids <=> <<d, n>> \in DOMAIN edges
                  /\ n \in DOMAIN dirs[d].kids => dirs[d].kids[n] = edges[<<d, n>>]
    BY <1>2, <2>1 DEF Mem
  <2>3. dirs'[d].inode = inodes'[d]
    BY <1>2, <1>5, <2>1, <2>2
  <2>4. ASSUME NEW n
        PROVE  n \in DOMAIN dirs'[d].kids <=> <<d, n>> \in DOMAIN edges'
    BY <1>3, <1>5, <2>1, <2>2
  <2>5. ASSUME NEW n \in DOMAIN dirs'[d].kids
        PROVE  dirs'[d].kids[n] = edges'[<<d, n>>]
    <3>1. <<d, n>> \in DOMAIN edges'
      BY <2>4
    <3>2. dirs'[d].kids[n] = IF d = pid /\ n = name THEN id ELSE dirs[d].kids[n]
      BY <1>5, <2>1
    <3>3. edges'[<<d, n>>] = IF d = pid /\ n = name THEN id ELSE edges[<<d, n>>]
      BY <1>3, <3>1
    <3>4. ~(d = pid /\ n = name) => n \in DOMAIN dirs[d].kids
      BY <1>5, <2>1
    <3> QED
      BY <2>2, <3>2, <3>3, <3>4
  <2> QED
    BY <2>3, <2>4, <2>5
<1> QED
  BY <1>2, <1>10, <1>11, <1>12, <1>13 DEF Mem

\* Every operation keeps memory and store in step.
LEMMA IdsMemStep ==
    ASSUME Types, Numbers, Ids, Mem, [Next]_vars
    PROVE  Ids' /\ Mem'
<1> USE DEF ids, memory, store
<1>0. ASSUME UNCHANGED <<dirs, inodes, edges, up, given>>, mkdir'.cur \in Known
      PROVE  Ids' /\ Mem'
  <2>1. dirs' = dirs /\ inodes' = inodes /\ edges' = edges /\ up' = up /\ given' = given /\ Known' = Known
    BY <1>0 DEF Known
  <2>2. Ids'
    BY <1>0, <2>1, Zenon DEF Ids
  <2>3. Mem'
    BY <2>1, Zenon DEF Mem, IsDir
  <2> QED
    BY <2>2, <2>3
<1>a. Root \in Known /\ NoMkdir.cur \in Known /\ mkdir.cur \in Known
  BY DEF Known, NoMkdir, Ids
<1>b. ASSUME NEW id \in given \cup {nextId}, Advance(id)
      PROVE  mkdir'.cur \in Known \cup {nextId}
  BY <1>a, <1>b DEF Advance, Known, Types
<1>1. CASE UNCHANGED vars
  BY <1>0, <1>1, <1>a DEF vars
<1>2. ASSUME NEW p \in Paths, NEW r \in BOOLEAN, CreateFile(p, r)
      PROVE  Ids' /\ Mem'
  <2>1. ParentOf(p) \in Nat /\ Last(p) \in Names
    BY <1>2, PathsAreSeqs, ResolveFacts DEF CreateFile, ParentOf
  <2>2. MakesNew(ParentOf(p), Last(p), FALSE) /\ mkdir' = mkdir
    BY <1>2, <2>1 DEF CreateFile, CommitNew, MakesNew, Unlocked
  <2>3. mkdir'.cur \in Known'
    BY <1>a, <2>2 DEF Known, MakesNew
  <2> QED
    BY <2>2, <2>3, MakesNewIds, MakesNewMem, Zenon
<1>3. ASSUME NEW p \in Paths, NEW r \in BOOLEAN, CreateFileFails(p, r)
      PROVE  Ids' /\ Mem'
  BY <1>0, <1>3, <1>a DEF CreateFileFails
<1>4. ASSUME NEW p \in Paths, BelowFile(p)
      PROVE  Ids' /\ Mem'
  <2>1. ParentOf(p) \in Known /\ ParentOf(p) \notin DOMAIN dirs
    BY <1>4, PathsAreSeqs, ResolveFacts, ResolveKnown DEF BelowFile, ParentOf
  <2> DEFINE pid == ParentOf(p)
  <2> HIDE DEF pid
  <2>2. DOMAIN dirs' = DOMAIN dirs \cup {pid} /\ dirs'[pid] = DefaultEntry /\ \A d \in DOMAIN dirs : dirs'[d] = dirs[d]
    BY <1>4, <2>1 DEF BelowFile, Put, pid
  <2>3. up' = up /\ inodes' = inodes /\ edges' = edges /\ given' = given /\ mkdir' = mkdir
    BY <1>4 DEF BelowFile
  <2>4. Ids'
    BY <1>a, <2>1, <2>2, <2>3, DefaultIsEntry DEF Ids, Known, pid
  <2>5. \A d : IsDir(d)' <=> IsDir(d)
    BY <2>1, <2>2, DefaultIsEntry DEF IsDir, pid
  <2> QED
    BY <2>2, <2>3, <2>4, <2>5 DEF Mem, IsDir
<1>5. ASSUME NEW p \in Paths, NEW rec \in BOOLEAN, Mkdir(p, rec)
      PROVE  Ids' /\ Mem'
  BY <1>0, <1>5, <1>a DEF Mkdir
<1>6. ASSUME MkdirRefused
      PROVE  Ids' /\ Mem'
  <2> DEFINE cur == mkdir.cur
  <2>1. cur \in Known /\ ~IsDir(cur)
    BY <1>6, <1>a DEF MkdirRefused
  <2>2. /\ DOMAIN dirs' = DOMAIN dirs \cup {cur}
        /\ dirs'[cur] = At(dirs, cur) /\ \A d \in DOMAIN dirs : dirs'[d] = dirs[d]
    BY <1>6 DEF MkdirRefused, Put, At
  <2>3. up' = up /\ inodes' = inodes /\ edges' = edges /\ given' = given /\ mkdir' = NoMkdir
    BY <1>6 DEF MkdirRefused
  <2> HIDE DEF cur
  <2>4. Ids'
    BY <1>a, <2>1, <2>2, <2>3, DefaultIsEntry DEF Ids, Known, At
  <2>5. \A d : IsDir(d)' <=> IsDir(d)
    BY <2>1, <2>2, DefaultIsEntry DEF IsDir, At
  <2> QED
    BY <2>2, <2>3, <2>4, <2>5 DEF Mem, IsDir
<1>7. ASSUME MkdirEnter
      PROVE  Ids' /\ Mem'
  <2>1. dirs[mkdir.cur].kids[Head(mkdir.rest)] \in given
    BY <1>7 DEF MkdirEnter, Missing, IsDir, Ids
  <2>2. mkdir'.cur \in Known
    BY <1>7, <1>a, <2>1 DEF MkdirEnter, Advance, Known, Types
  <2> QED
    BY <1>0, <1>7, <2>2 DEF MkdirEnter
<1>8. ASSUME MkdirNoParent
      PROVE  Ids' /\ Mem'
  BY <1>0, <1>8, <1>a DEF MkdirNoParent
<1>9. ASSUME NEW r \in BOOLEAN, MkdirMake(r)
      PROVE  Ids' /\ Mem'
  <2> DEFINE name == Head(mkdir.rest)
  <2>1. mkdir.cur \in Nat /\ name \in Names /\ Inode(mkdir.cur, name, TRUE).name = name
    BY <1>9 DEF MkdirMake, Types, Inode
  <2>2. MakesNew(mkdir.cur, name, TRUE) /\ Advance(nextId)
    BY <1>9, <2>1, Zenon DEF MkdirMake, CommitNew, MakesNew, Missing
  <2>3. mkdir'.cur \in Known'
    BY <1>b, <2>2 DEF Known, MakesNew
  <2> QED
    BY <2>2, <2>3, MakesNewIds, MakesNewMem, Zenon
<1>10. ASSUME NEW r \in BOOLEAN, MkdirFails(r)
       PROVE  Ids' /\ Mem'
  BY <1>0, <1>10, <1>a DEF MkdirFails
\* an inode of the store that is no directory gets another size
<1>11. ASSUME NEW id \in DOMAIN inodes, ~inodes[id].isdir, UNCHANGED <<dirs, edges, up, given, mkdir>>,
              DOMAIN inodes' = DOMAIN inodes, \A i \in DOMAIN inodes : i # id => inodes'[i] = inodes[i],
              inodes'[id].parent = inodes[id].parent, inodes'[id].isdir = inodes[id].isdir
       PROVE  Ids' /\ Mem'
  <2>1. Ids'
    BY <1>11 DEF Ids, Known
  <2>2. \A d : (d \in DOMAIN inodes' /\ inodes'[d].isdir) <=> (d \in DOMAIN inodes /\ inodes[d].isdir)
    BY <1>11
  <2>3. up => \A d : IsDir(d) => inodes'[d] = inodes[d]
    BY <1>11 DEF Mem
  <2> QED
    BY <1>11, <2>1, <2>2, <2>3 DEF Mem, IsDir
<1>12. ASSUME NEW id \in given, NEW size \in Sizes[kernel], CompleteFile(id, size)
       PROVE  Ids' /\ Mem'
  <2>1. id \in DOMAIN inodes /\ ~inodes[id].isdir /\ inodes[id] \in InodeRecord
    BY <1>12 DEF CompleteFile, Types
  <2>2. /\ DOMAIN inodes' = DOMAIN inodes /\ \A i \in DOMAIN inodes : i # id => inodes'[i] = inodes[i]
        /\ inodes'[id].parent = inodes[id].parent /\ inodes'[id].isdir = inodes[id].isdir
        /\ UNCHANGED <<dirs, edges, up, given, mkdir>>
    BY <1>12, <2>1, Zenon DEF CompleteFile, InodeRecord
  <2> QED
    BY <1>11, <2>1, <2>2
<1>13. ASSUME NEW p \in Paths, NEW rec \in BOOLEAN, Delete(p, rec)
       PROVE  Ids' /\ Mem'
  BY <1>13, DeleteKeeps
<1>14. ASSUME NEW p \in Paths, NEW q \in Paths, Rename(p, q)
       PROVE  Ids' /\ Mem'
  BY <1>14, RenameKeeps
<1>15. ASSUME NEW id \in given \cup {NoId}, NEW size \in Sizes[kernel], UpdateSize(id, size)
       PROVE  Ids' /\ Mem'
  <2>1. id \in DOMAIN inodes /\ ~inodes[id].isdir /\ inodes[id] \in InodeRecord
    BY <1>15 DEF UpdateSize, Types, Unlocked, Mem, IsDir
  <2>2. /\ DOMAIN inodes' = DOMAIN inodes /\ \A i \in DOMAIN inodes : i # id => inodes'[i] = inodes[i]
        /\ inodes'[id].parent = inodes[id].parent /\ inodes'[id].isdir = inodes[id].isdir
        /\ UNCHANGED <<dirs, edges, up, given, mkdir>>
    BY <1>15, <2>1, Zenon DEF UpdateSize, InodeRecord
  <2> QED
    BY <1>11, <2>1, <2>2
<1>16. ASSUME NEW id \in given \cup {NoId}, NEW size \in Sizes[kernel], NEW ok \in BOOLEAN,
              UpdateSizeInMemory(id, size, ok)
       PROVE  Ids' /\ Mem'
  <2> DEFINE x == [dirs[id] EXCEPT !.inode = [@ EXCEPT !.size = size]]
  <2>1. id \in DOMAIN dirs /\ ~IsDir(id) /\ up /\ up' = up /\ edges' = edges /\ given' = given /\ mkdir' = mkdir
        /\ dirs' = [dirs EXCEPT ![id] = x] /\ inodes' = IF ok THEN Put(inodes, id, dirs'[id].inode) ELSE inodes
    BY <1>16 DEF UpdateSizeInMemory, Unlocked
  <2>2. x.kids = dirs[id].kids /\ x.inode.parent = dirs[id].inode.parent /\ ~x.inode.isdir
    <3>1. IsEntry(dirs[id])
      BY <2>1 DEF Types, IsDirs
    <3>2. ~dirs[id].inode.isdir
      BY <2>1 DEF IsDir
    <3> QED
      BY <3>1, <3>2, Zenon DEF IsEntry, InodeRecord
  <2> HIDE DEF x
  <2>3. DOMAIN dirs' = DOMAIN dirs /\ dirs'[id] = x /\ \A d \in DOMAIN dirs : d # id => dirs'[d] = dirs[d]
    BY <2>1
  <2>4. /\ DOMAIN inodes' \subseteq DOMAIN inodes \cup {id} /\ DOMAIN inodes \subseteq DOMAIN inodes'
        /\ \A i \in DOMAIN inodes : i # id => inodes'[i] = inodes[i]
        /\ id \in DOMAIN inodes' => inodes'[id] = x.inode \/ (id \in DOMAIN inodes /\ inodes'[id] = inodes[id])
    BY <2>1, <2>3 DEF Put
  <2>5. ~(id \in DOMAIN inodes /\ inodes[id].isdir)
    BY <2>1 DEF Mem
  <2>6. id \in Known
    BY DEF Known
  <2>7. \A d : (d \in DOMAIN inodes' /\ inodes'[d].isdir) <=> (d \in DOMAIN inodes /\ inodes[d].isdir)
    BY <2>2, <2>4, <2>5
  <2>8. \A d : IsDir(d)' <=> IsDir(d)
    BY <2>1, <2>2, <2>3 DEF IsDir
  <2>9. Ids'
    <3>1. Known' = Known /\ DOMAIN dirs' \subseteq Known' /\ DOMAIN inodes' \subseteq Known' /\ mkdir'.cur \in Known'
      BY <2>1, <2>3, <2>4, <2>6 DEF Ids, Known
    <3>2. \A d \in DOMAIN dirs' : /\ dirs'[d].inode.parent \in Known'
                                  /\ \A n \in DOMAIN dirs'[d].kids : dirs'[d].kids[n] \in given'
      BY <2>1, <2>2, <2>3, <3>1 DEF Ids
    <3>3. \A i \in DOMAIN inodes' : inodes'[i].parent \in Known'
      BY <2>1, <2>2, <2>4, <3>1 DEF Ids
    <3>4. \A e \in DOMAIN edges' : edges'[e] \in given' /\ e[1] \in DOMAIN inodes' /\ inodes'[e[1]].isdir
      BY <2>1, <2>7 DEF Ids
    <3> QED
      BY <3>1, <3>2, <3>3, <3>4 DEF Ids
  <2>10. \A d : IsDir(d) => d # id /\ dirs'[d] = dirs[d] /\ inodes'[d] = inodes[d]
    BY <2>1, <2>3, <2>4 DEF Mem, IsDir
  <2> QED
    BY <2>1, <2>7, <2>8, <2>9, <2>10 DEF Mem
<1>17. ASSUME Recover
       PROVE  Ids' /\ Mem'
  <2>1. up' = TRUE /\ edges' = edges /\ given' = given /\ mkdir' = mkdir
    BY <1>17 DEF Recover
  <2>2. /\ \A i : i \in DOMAIN Rebuilt <=> i \in DOMAIN inodes /\ inodes[i].isdir
        /\ \A i \in DOMAIN Rebuilt :
              /\ Rebuilt[i].inode = inodes[i]
              /\ \A n : n \in DOMAIN Rebuilt[i].kids <=> n \in Names /\ <<i, n>> \in DOMAIN edges
              /\ \A n \in DOMAIN Rebuilt[i].kids : Rebuilt[i].kids[n] = edges[<<i, n>>]
    BY RebuiltFacts
  <2>3. \A d, n : <<d, n>> \in DOMAIN edges => n \in Names
    BY DEF Types
  <2>4. ASSUME NEW d \in DOMAIN Rebuilt
        PROVE  /\ d \in Known /\ Rebuilt[d].inode.parent \in Known
               /\ \A n \in DOMAIN Rebuilt[d].kids : Rebuilt[d].kids[n] \in given
    <3>1. d \in DOMAIN inodes /\ Rebuilt[d].inode = inodes[d]
      BY <2>2
    <3>2. \A n \in DOMAIN Rebuilt[d].kids : <<d, n>> \in DOMAIN edges /\ Rebuilt[d].kids[n] = edges[<<d, n>>]
      BY <2>2
    <3> QED
      BY <3>1, <3>2, Zenon DEF Ids
  <2>5. CASE Root \in DOMAIN Rebuilt
    <3>1. dirs' = Rebuilt /\ inodes' = inodes
      BY <1>17, <2>5 DEF Recover
    <3>2. Ids'
      BY <2>1, <2>4, <3>1 DEF Ids, Known
    <3>3. Mem'
      BY <2>1, <2>2, <2>3, <3>1 DEF Mem, IsDir
    <3> QED
      BY <3>2, <3>3
  <2>6. CASE Root \notin DOMAIN Rebuilt
    <3> DEFINE root == RootEntry.inode
    <3>1. /\ DOMAIN dirs' = DOMAIN Rebuilt \cup {Root} /\ dirs'[Root] = RootEntry
          /\ \A d \in DOMAIN Rebuilt : dirs'[d] = Rebuilt[d]
          /\ DOMAIN inodes' = DOMAIN inodes \cup {Root} /\ inodes'[Root] = root
          /\ \A i \in DOMAIN inodes : i # Root => inodes'[i] = inodes[i]
      BY <1>17, <2>6 DEF Recover, Put
    <3>2. root.isdir /\ root.parent = NoId /\ RootEntry.inode = root /\ DOMAIN RootEntry.kids = {}
      BY Zenon DEF RootEntry, Inode, EmptyMap
    <3> HIDE DEF root
    <3>3. \A n : <<Root, n>> \notin DOMAIN edges
      BY <2>2, <2>6 DEF Ids
    <3>4. Known' = Known
      BY <2>1 DEF Known
    <3>5. Ids'
      <4>1. DOMAIN dirs' \subseteq Known' /\ DOMAIN inodes' \subseteq Known' /\ mkdir'.cur \in Known'
        BY <1>a, <2>1, <2>2, <3>1, <3>4 DEF Ids
      <4>2. ASSUME NEW d \in DOMAIN dirs'
            PROVE  /\ dirs'[d].inode.parent \in Known'
                   /\ \A n \in DOMAIN dirs'[d].kids : dirs'[d].kids[n] \in given'
        BY <2>1, <2>4, <3>1, <3>2, <3>4 DEF Known
      <4>3. \A i \in DOMAIN inodes' : inodes'[i].parent \in Known'
        BY <3>1, <3>2, <3>4 DEF Ids, Known
      <4>4. \A e \in DOMAIN edges' : edges'[e] \in given' /\ e[1] \in DOMAIN inodes' /\ inodes'[e[1]].isdir
        BY <2>1, <3>1, <3>2 DEF Ids
      <4> QED
        BY <4>1, <4>2, <4>3, <4>4 DEF Ids
    <3>6. \A d : IsDir(d)' <=> d = Root \/ (d \in DOMAIN inodes /\ inodes[d].isdir)
      <4>1. IsDir(Root)'
        BY <3>1, <3>2, Zenon DEF IsDir
      <4>2. ASSUME NEW d, d # Root
            PROVE  IsDir(d)' <=> d \in DOMAIN inodes /\ inodes[d].isdir
        <5>1. d \in DOMAIN dirs' <=> d \in DOMAIN Rebuilt
          BY <3>1, <4>2, Zenon
        <5>2. d \in DOMAIN Rebuilt => dirs'[d].inode = inodes[d]
          BY <2>2, <3>1, Zenon
        <5>3. QED
          BY <2>2, <5>1, <5>2, Zenon DEF IsDir
      <4>3. QED
        BY <4>1, <4>2, Zenon
    <3>7. \A d : (d \in DOMAIN inodes' /\ inodes'[d].isdir) <=> IsDir(d)'
      BY <3>1, <3>2, <3>6
    <3>8. ASSUME NEW d, IsDir(d)'
          PROVE  /\ dirs'[d].inode = inodes'[d]
                 /\ \A n : /\ n \in DOMAIN dirs'[d].kids <=> <<d, n>> \in DOMAIN edges'
                           /\ n \in DOMAIN dirs'[d].kids => dirs'[d].kids[n] = edges'[<<d, n>>]
      <4>1. CASE d = Root
        <5>1. dirs'[d].inode = inodes'[d] /\ DOMAIN dirs'[d].kids = {}
          BY <3>1, <3>2, <4>1
        <5> QED
          BY <2>1, <3>3, <4>1, <5>1
      <4>2. CASE d # Root
        <5>1. d \in DOMAIN Rebuilt /\ d \in DOMAIN inodes
          BY <2>2, <3>6, <3>8, <4>2
        <5> QED
          BY <2>1, <2>2, <2>3, <3>1, <4>2, <5>1
      <4> QED
        BY <4>1, <4>2
    <3> QED
      BY <3>5, <3>7, <3>8 DEF Mem
  <2> QED
    BY <2>5, <2>6
<1>18. ASSUME Crash
       PROVE  Ids' /\ Mem'
  <2>1. DOMAIN dirs' = {} /\ UNCHANGED <<inodes, edges, given>> /\ mkdir' = NoMkdir /\ ~up'
    BY <1>18, EmptyMapFacts DEF Crash
  <2> QED
    BY <1>a, <2>1 DEF Ids, Mem, Known
<1> QED
  BY <1>1, <1>2, <1>3, <1>4, <1>5, <1>6, <1>7, <1>8, <1>9, <1>10, <1>12, <1>13, <1>14, <1>15, <1>16, <1>17, <1>18
     DEF Next

\* The initial state, an empty store and a master that is down
LEMMA InitIdsMem == Init => Numbers /\ Ids /\ Mem
  BY EmptyMapFacts DEF Init, Numbers, Ids, Mem, Known, NoMkdir

\* MemoryMatchesStore, for any clients: every operation that reaches memory has
\* committed the same to the store, and a recovery reads back what memory had.  The
\* ids must be unique: a directory made under an id in use would take its entries.
THEOREM MemoryHolds == ASSUME ~CounterFails PROVE Spec => []MemoryMatchesStore
<1>1. Init => Types /\ Numbers /\ Ids /\ Mem
  BY InitTypes, InitIdsMem
<1>2. Types /\ Ids /\ Mem => MemoryMatchesStore
  <2> SUFFICES ASSUME Types, Ids, Mem, up
               PROVE  Rebuilt = [id \in {d \in DOMAIN dirs : IsDir(d)} |-> dirs[id]]
    BY DEF MemoryMatchesStore
  <2> DEFINE mem == [id \in {d \in DOMAIN dirs : IsDir(d)} |-> dirs[id]]
  <2>1. \A d : d \in DOMAIN Rebuilt <=> d \in DOMAIN mem
    BY RebuiltFacts DEF Mem, IsDir
  <2>2. ASSUME NEW d \in DOMAIN Rebuilt
        PROVE  Rebuilt[d] = dirs[d]
    <3>1. IsDir(d) /\ d \in DOMAIN dirs
      BY RebuiltFacts DEF Mem, IsDir
    <3>2. IsEntry(dirs[d]) /\ IsEntry(Rebuilt[d])
      BY <3>1, RebuiltFacts DEF Types, IsDirs
    <3>3. /\ dirs[d].inode = inodes[d]
          /\ \A n : /\ n \in DOMAIN dirs[d].kids <=> <<d, n>> \in DOMAIN edges
                    /\ n \in DOMAIN dirs[d].kids => dirs[d].kids[n] = edges[<<d, n>>]
      BY <3>1 DEF Mem
    <3>4. /\ Rebuilt[d].inode = inodes[d]
          /\ \A n : n \in DOMAIN Rebuilt[d].kids <=> n \in Names /\ <<d, n>> \in DOMAIN edges
          /\ \A n \in DOMAIN Rebuilt[d].kids : Rebuilt[d].kids[n] = edges[<<d, n>>]
      BY RebuiltFacts
    <3>5. DOMAIN dirs[d].kids = DOMAIN Rebuilt[d].kids
      BY <3>2, <3>3, <3>4, Zenon DEF IsEntry
    <3>6. dirs[d].kids = Rebuilt[d].kids
      <4>1. /\ dirs[d].kids = [n \in DOMAIN dirs[d].kids |-> dirs[d].kids[n]]
            /\ Rebuilt[d].kids = [n \in DOMAIN Rebuilt[d].kids |-> Rebuilt[d].kids[n]]
        BY <3>2 DEF IsEntry
      <4>2. \A n \in DOMAIN dirs[d].kids : dirs[d].kids[n] = Rebuilt[d].kids[n]
        BY <3>3, <3>4, <3>5, Zenon
      <4> QED
        BY <3>5, <4>1, <4>2
    <3> QED
      BY <3>2, <3>3, <3>4, <3>6 DEF IsEntry
  <2>3. Rebuilt = [d \in DOMAIN Rebuilt |-> Rebuilt[d]]
    BY RebuiltFacts DEF IsDirs
  <2>4. DOMAIN Rebuilt = DOMAIN mem
    BY <2>1
  <2> QED
    BY <2>2, <2>3, <2>4
<1>3. Types /\ Numbers /\ Ids /\ Mem /\ [Next]_vars => (Types /\ Numbers /\ Ids /\ Mem)'
  BY TypesStep, NumbersStep, IdsMemStep
<1> QED
  BY <1>1, <1>2, <1>3, PTL DEF Spec

=============================================================================
