-------------------------- MODULE FileSystem_proofs --------------------------
(***************************************************************************)
(* Proofs about the file system client, the master and the workers         *)
(* together: its types, and that a byte read of a file was written to it.   *)
(*                                                                         *)
(* NoForeignBytes says something of what clients have received only.  What *)
(* makes it so is that the workers hold genuine bytes only, under the id   *)
(* that MakeBlockId makes of inode and index, and that an inode id is never *)
(* given again: blocks of deleted files stay on the workers.  MakeBlockId  *)
(* cuts the index off, so that a position counts modulo FileLimit.         *)
(* Capacity comes into the invariant because EnsureSpace and CreateBlock   *)
(* keep it.                                                                *)
(***************************************************************************)
EXTENDS FileSystem, FiniteSetTheorems, TLAPS

-----------------------------------------------------------------------------
(* The inductive invariant *)

Copies == {"cp", "child"}
Ops == ReadOps \cup Copies \cup {"none", "touch", "write", "rm", "mv", "fcreate", "fwrite", "truncate"}
Pcs == {"idle", "stat", "info", "rloc", "rblk", "winfo", "create", "wloc", "wloc0", "wblk", "wrep",
        "cstat", "complete", "dlook", "tlook", "blocks", "mv", "ret"}

ClientType ==
    [pc : Pcs, op : Ops, path : Paths \cup {None}, to : Paths \cup {None},
     data : Seq(Nat), off : Nat, n : Nat, size : Nat, ino : Nat, got : Seq(Nat), count : Nat,
     assigned : Workers \cup {None}, target : Workers \cup {None}, todo : SUBSET Nat,
     failed : BOOLEAN]

\* What a client's record says of itself, whatever the others do.
ClientOK(r) ==
    /\ r \in ClientType
    /\ r.count <= Len(r.data) /\ Len(r.got) <= r.n
    /\ r.pc \in {"idle", "stat", "info", "rloc", "rblk"} => r.count = 0
    /\ r.pc \in {"idle", "stat", "info"} => r.got = <<>>
    /\ r.pc \in {"rloc", "rblk", "ret"} \/ r.op \in Copies \/ r.got = <<>>
    /\ r.pc \in {"rblk", "wblk", "wrep"} => r.target \in Workers
    /\ r.pc # "idle" => r.path \in Paths
    /\ r.op \in Copies \cup {"mv"} => r.to \in Paths
    /\ r.pc = "mv" => r.op = "mv"

\* What was written, at the positions that the workers tell apart
Folded(W) == {<<x[1], x[2] % FileLimit, x[3]>> : x \in W}

\* The bytes a client has got are the file's, for what W says was written.
HonestIn(r, W) ==
    \A i \in DOMAIN r.got :
        r.got[i] = 0 \/ <<r.ino, (r.off + i - 1) % FileLimit, r.got[i]>> \in Folded(W) \/ r.op \in Copies
Honest(r) == HonestIn(r, wrote)

ClientsOK ==
    /\ cl = [c \in Clients |-> cl[c]]
    /\ \A c \in Clients : ClientOK(cl[c]) /\ Honest(cl[c])
    /\ \A r \in late : ClientOK(r)

BlocksOK(m) ==
    /\ m = [b \in DOMAIN m |-> m[b]] /\ IsFiniteSet(DOMAIN m)
    /\ \A b \in DOMAIN m : m[b] \in Seq(Nat) /\ Len(m[b]) <= BlockSize

\* Every byte a worker holds of a file was written to that file at that position.
Genuine(m) ==
    \A b \in DOMAIN m : \A i \in DOMAIN m[b] :
        m[b][i] = 0 \/ <<b[1], b[2] * BlockSize + i - 1, m[b][i]>> \in Folded(wrote)

Storage ==
    /\ store = [w \in Workers |-> store[w]]
    /\ \A w \in Workers : BlocksOK(store[w]) /\ Genuine(store[w]) /\ Bytes(store[w]) <= Capacity
    /\ free \in [Workers -> 0 .. Capacity]

\* A name is the only one of its inode.
Namespace ==
    /\ nextIno \in Nat /\ nextIno >= 2
    /\ names \in [DOMAIN names -> 2 .. nextIno - 1] /\ DOMAIN names \subseteq Paths
    /\ \A p, q \in DOMAIN names : names[p] = names[q] => p = q
    /\ DOMAIN sizes = {names[p] : p \in DOMAIN names} /\ \A i \in DOMAIN sizes : sizes[i] \in Nat

Locations == \A b \in DOMAIN locs : locs[b] \subseteq [worker : Workers, address : Workers, tier : {"mem"}]

Counters == calls \in 0 .. MaxCalls /\ losses \in 0 .. MaxLosses

Inv == ClientsOK /\ Storage /\ Namespace /\ Locations /\ Counters

-----------------------------------------------------------------------------
(* A client's record *)

\* What more was written, what was written before is part of.
LEMMA FoldedMore ==
    ASSUME NEW V, NEW W, V \subseteq W
    PROVE  Folded(V) \subseteq Folded(W)
BY Zenon DEF Folded

\* What a step changes of a client is its record; what was written stays written.
LEMMA ClientStep ==
    ASSUME ClientsOK, NEW c \in Clients, NEW s, cl' = [cl EXCEPT ![c] = s], wrote \subseteq wrote',
           ClientOK(s), HonestIn(s, wrote'), \A r \in late' : ClientOK(r)
    PROVE  ClientsOK'
<1>0. Folded(wrote) \subseteq Folded(wrote')
  BY FoldedMore
<1>1. ASSUME NEW d \in Clients PROVE ClientOK(cl'[d]) /\ Honest(cl[d])'
  <2>1. CASE d = c
    <3>1. cl'[c] = s
      BY DEF ClientsOK
    <3>2. QED
      BY <3>1, <2>1 DEF HonestIn, Honest
  <2>2. CASE d # c
    <3>1. cl'[d] = cl[d]
      BY <2>2 DEF ClientsOK
    <3>2. QED
      BY <1>0, <3>1 DEF HonestIn, Honest, ClientsOK
  <2>3. QED
    BY <2>1, <2>2
<1>2. cl' = [d \in Clients |-> cl'[d]]
  BY DEF ClientsOK
<1>3. QED
  BY <1>1, <1>2 DEF ClientsOK

\* What was written is where the workers have its position.
LEMMA FoldedHas ==
    ASSUME NEW W, NEW ino, NEW pos, NEW v, <<ino, pos, v>> \in W
    PROVE  <<ino, pos % FileLimit, v>> \in Folded(W)
<1> DEFINE x == <<ino, pos, v>>
<1>1. x \in W /\ x[1] = ino /\ x[2] = pos /\ x[3] = v
  OBVIOUS
<1> HIDE DEF x
<1>2. QED
  BY <1>1, Zenon DEF Folded

\* A step that changes nothing but a client's record
LEMMA ReadsKeep ==
    ASSUME Inv, NEW c \in Clients, NEW s, Becomes(c, s), Reads, ClientOK(s), Honest(s)
    PROVE  Inv'
<1>1. ClientsOK'
  <2>1. HonestIn(s, wrote')
    BY DEF HonestIn, Honest, Reads
  <2>2. QED
    BY <2>1, ClientStep DEF Inv, Becomes, Reads, Quiet, ClientsOK
<1>2. Storage'
  BY DEF Inv, Storage, Reads, Quiet, Genuine
<1>3. Namespace'
  BY DEF Inv, Namespace, Reads, inodeVars
<1>4. Locations' /\ Counters'
  BY DEF Inv, Locations, Counters, Reads, Quiet, blockVars
<1>5. QED
  BY <1>1, <1>2, <1>3, <1>4 DEF Inv

\* A number is a multiple and what is left over.
LEMMA Division ==
    ASSUME NEW n \in Nat \ {0}, NEW x \in Nat
    PROVE  /\ x \div n \in Nat /\ x % n \in 0 .. n - 1
           /\ x = (x \div n) * n + (x % n)
           /\ (x \div n) * n \in Nat /\ x % n \in Nat
OBVIOUS

\* A position is that of its block and the place within it.
LEMMA Arithmetic ==
    ASSUME NEW pos \in Nat
    PROVE  /\ pos \div BlockSize \in Nat /\ pos % BlockSize \in 0 .. BlockSize - 1
           /\ pos = (pos \div BlockSize) * BlockSize + (pos % BlockSize)
           /\ (pos \div BlockSize) * BlockSize \in Nat /\ pos % BlockSize \in Nat
BY BlockSizeAssumption, Division

\* A multiple ends before the next one begins.
LEMMA Multiples ==
    ASSUME NEW n \in Nat \ {0}, NEW i \in Nat, NEW j \in Nat, i < j
    PROVE  i * n \in Nat /\ j * n \in Nat /\ i * n + n <= j * n
<1>1. i + 1 <= j
  OBVIOUS
<1>2. (i + 1) * n <= j * n
  BY <1>1
<1>3. (i + 1) * n = i * n + n
  OBVIOUS
<1>4. i * n \in Nat /\ j * n \in Nat
  OBVIOUS
<1>5. QED
  BY <1>2, <1>3, <1>4

\* A number lies in one multiple, at one place.
LEMMA PlacesDiffer ==
    ASSUME NEW n \in Nat \ {0}, NEW i \in Nat, NEW j \in Nat, NEW k \in 0 .. n - 1, NEW l \in 0 .. n - 1,
           i * n + k = j * n + l
    PROVE  i = j /\ k = l
<1>1. ~(i < j)
  BY Multiples
<1>2. ~(j < i)
  BY Multiples
<1>3. i = j
  BY <1>1, <1>2
<1>4. i * n = j * n /\ i * n \in Nat
  BY <1>3
<1>5. k = l
  BY <1>4
<1>6. QED
  BY <1>3, <1>5

\* What is smaller than a number is what is left over of it.
LEMMA Small ==
    ASSUME NEW n \in Nat \ {0}, NEW x \in 0 .. n - 1
    PROVE  x % n = x
OBVIOUS

\* Where a position is stored: in the block of that id and at that place
LEMMA StoredAt ==
    ASSUME NEW pos \in Nat
    PROVE  pos % FileLimit = ((pos \div BlockSize) % IndexLimit) * BlockSize + (pos % BlockSize)
<1> DEFINE q == pos \div BlockSize
           o == pos % BlockSize
           k == q \div IndexLimit
           j == q % IndexLimit
<1>1. q \in Nat /\ o \in 0 .. BlockSize - 1 /\ pos = q * BlockSize + o
  BY Arithmetic, Zenon
<1>2. k \in Nat /\ j \in 0 .. IndexLimit - 1 /\ q = k * IndexLimit + j
  BY <1>1, IndexLimitAssumption, Division, Zenon
<1>3. FileLimit \in Nat \ {0}
  BY BlockSizeAssumption, IndexLimitAssumption DEF FileLimit
<1> HIDE DEF o, k, j, q
<1>4. pos = k * FileLimit + (j * BlockSize + o)
  <2>1. k * IndexLimit \in Nat /\ j \in Nat
    BY <1>2, IndexLimitAssumption
  <2>2. q * BlockSize = (k * IndexLimit) * BlockSize + j * BlockSize
    BY <1>2, <2>1, BlockSizeAssumption
  <2>3. (k * IndexLimit) * BlockSize = k * (IndexLimit * BlockSize)
    BY <1>2, BlockSizeAssumption, IndexLimitAssumption
  <2>4. j * BlockSize \in Nat /\ k * (IndexLimit * BlockSize) \in Nat
    BY <1>2, <2>1, BlockSizeAssumption, IndexLimitAssumption
  <2>5. QED
    BY <1>1, <2>2, <2>3, <2>4, BlockSizeAssumption DEF FileLimit
<1>5. j * BlockSize + o \in 0 .. FileLimit - 1
  <2>1. j \in Nat /\ j < IndexLimit /\ BlockSize \in Nat \ {0} /\ IndexLimit \in Nat
    BY <1>2, BlockSizeAssumption, IndexLimitAssumption
  <2>2. j * BlockSize \in Nat /\ j * BlockSize + BlockSize <= IndexLimit * BlockSize
    BY <2>1, Multiples
  <2>3. QED
    BY <1>1, <1>3, <2>1, <2>2 DEF FileLimit
<1>6. pos \div FileLimit \in Nat /\ pos % FileLimit \in 0 .. FileLimit - 1
      /\ pos = (pos \div FileLimit) * FileLimit + (pos % FileLimit)
  BY <1>3, Division, Zenon
<1> DEFINE y == j * BlockSize + o
           z == pos % FileLimit
           x == pos \div FileLimit
<1>7. x * FileLimit + z = k * FileLimit + y /\ x \in Nat /\ z \in 0 .. FileLimit - 1 /\ y \in 0 .. FileLimit - 1
  BY <1>4, <1>5, <1>6
<1> HIDE DEF x, y, z
<1>8. z = y
  BY <1>2, <1>3, <1>7, PlacesDiffer
<1>9. QED
  BY <1>8 DEF j, o, q, y, z

\* Where a block begins
LEMMA BlockStart ==
    ASSUME NEW pos \in Nat
    PROVE  ((pos \div BlockSize) % IndexLimit) * BlockSize \in Nat
<1> DEFINE j == (pos \div BlockSize) % IndexLimit
<1>1. j \in Nat
  BY Arithmetic, Division, IndexLimitAssumption, Zenon
<1> HIDE DEF j
<1>2. j * BlockSize \in Nat
  BY <1>1, BlockSizeAssumption
<1>3. QED
  BY <1>2 DEF j

\* Positions that follow in one block are stored one behind the other.
LEMMA StoredNext ==
    ASSUME NEW pos \in Nat, NEW i \in Nat, (pos % BlockSize) + i < BlockSize
    PROVE  (pos + i) % FileLimit = ((pos \div BlockSize) % IndexLimit) * BlockSize + (pos % BlockSize) + i
<1> DEFINE q == pos \div BlockSize
           o == pos % BlockSize
           j == q % IndexLimit
<1>1. q \in Nat /\ o \in 0 .. BlockSize - 1 /\ q * BlockSize \in Nat /\ pos = q * BlockSize + o
  BY Arithmetic, Zenon
<1>2. /\ (pos + i) \div BlockSize \in Nat /\ (pos + i) % BlockSize \in 0 .. BlockSize - 1
      /\ pos + i = ((pos + i) \div BlockSize) * BlockSize + ((pos + i) % BlockSize)
  <2>1. pos + i \in Nat
    OBVIOUS
  <2>2. QED
    BY <2>1, Arithmetic, Zenon
<1>3. o + i \in 0 .. BlockSize - 1
  BY <1>1, BlockSizeAssumption
<1>4. pos + i = q * BlockSize + (o + i)
  BY <1>1
<1> HIDE DEF q, o
<1>5. (pos + i) \div BlockSize = q /\ (pos + i) % BlockSize = o + i
  BY <1>1, <1>2, <1>3, <1>4, PlacesDiffer, BlockSizeAssumption
<1>6. j * BlockSize \in Nat
  BY <1>1, BlockSizeAssumption, IndexLimitAssumption, Division
<1>7. (pos + i) % FileLimit = j * BlockSize + (o + i)
  BY <1>5, StoredAt
<1> HIDE DEF j
<1>8. j * BlockSize + (o + i) = j * BlockSize + o + i
  BY <1>1, <1>6
<1>9. QED
  BY <1>7, <1>8 DEF j, q, o

\* A file that has a name has a size.
LEMMA Named ==
    ASSUME Namespace, NEW p \in DOMAIN names
    PROVE  names[p] \in Nat /\ names[p] \in DOMAIN sizes /\ sizes[names[p]] \in Nat /\ p \in Paths
BY DEF Namespace

Busy == {"winfo", "create", "wloc", "wloc0", "wblk", "wrep", "cstat", "complete", "dlook", "tlook", "blocks", "mv"}

\* t is r further on in the same call: it has the call's arguments and what was read.
SameCall(r, t) ==
    /\ t \in ClientType
    /\ t.op = r.op /\ t.path = r.path /\ t.to = r.to /\ t.data = r.data /\ t.got = r.got /\ t.n = r.n

\* A call that does not read, or has done so, may go on to any step that does not.
LEMMA GoesOn ==
    ASSUME NEW r, NEW t, ClientOK(r), r.pc \in Busy, SameCall(r, t), t.count <= Len(t.data),
           t.pc \in (Busy \ {"mv"}) \cup {"ret"}, t.pc \in {"wblk", "wrep"} => t.target \in Workers
    PROVE  ClientOK(t) /\ Honest(t)
<1>1. r.op \in Copies \/ r.got = <<>>
  BY DEF ClientOK, Busy
<1>2. ClientOK(t)
  <2>1. /\ t.pc \notin {"idle", "stat", "info", "rloc", "rblk", "mv"}
        /\ r.pc # "idle"
    BY DEF Busy
  <2>2. QED
    BY <1>1, <2>1 DEF ClientOK, SameCall
<1>3. Honest(t)
  BY <1>1 DEF HonestIn, Honest, SameCall
<1>4. QED
  BY <1>2, <1>3

\* Any call may end, and with it the client is as honest as it was.
LEMMA EndsOK ==
    ASSUME NEW r, ClientOK(r), Honest(r), r.pc # "idle"
    PROVE  /\ ClientOK(Fails(r)) /\ Honest(Fails(r))
           /\ ClientOK([r EXCEPT !.pc = "ret"]) /\ Honest([r EXCEPT !.pc = "ret"])
<1>0. ASSUME NEW t \in ClientType, t.pc = "ret", t.op = r.op, t.path = r.path, t.to = r.to,
             t.data = r.data, t.got = r.got, t.n = r.n, t.count = r.count
      PROVE  ClientOK(t)
  BY <1>0 DEF ClientOK
<1>1. ClientOK(Fails(r)) /\ ClientOK([r EXCEPT !.pc = "ret"])
  <2>1. Fails(r) \in ClientType /\ [r EXCEPT !.pc = "ret"] \in ClientType
    BY Zenon DEF ClientOK, ClientType, Fails, Pcs
  <2>2. ClientOK(Fails(r))
    BY <1>0, <2>1 DEF ClientOK, ClientType, Fails
  <2>3. ClientOK([r EXCEPT !.pc = "ret"])
    BY <1>0, <2>1, Zenon DEF ClientOK, ClientType
  <2>4. QED
    BY <2>2, <2>3
<1>2. /\ Fails(r).got = r.got /\ Fails(r).ino = r.ino /\ Fails(r).off = r.off /\ Fails(r).op = r.op
      /\ [r EXCEPT !.pc = "ret"].got = r.got /\ [r EXCEPT !.pc = "ret"].ino = r.ino
      /\ [r EXCEPT !.pc = "ret"].off = r.off /\ [r EXCEPT !.pc = "ret"].op = r.op
  BY DEF ClientOK, Fails, ClientType
<1>3. Honest(Fails(r)) /\ Honest([r EXCEPT !.pc = "ret"])
  BY <1>2, Zenon DEF HonestIn, Honest
<1>4. QED
  BY <1>1, <1>3

\* The end of the loop of ReadFile
LEMMA ReadEndsOK ==
    ASSUME NEW r, ClientOK(r), Honest(r), r.pc \in {"info", "rloc", "rblk"}
    PROVE  ClientOK(ReadEnds(r)) /\ Honest(ReadEnds(r))
<1>1. CASE r.op = "cp" /\ Len(r.got) # r.size
  <2>1. ReadEnds(r) = Fails(r)
    BY <1>1 DEF ReadEnds
  <2>2. r.pc # "idle"
    OBVIOUS
  <2>3. QED
    BY <2>1, <2>2, EndsOK, Zenon
<1>2. CASE ~(r.op = "cp" /\ Len(r.got) # r.size) /\ r.op \in Copies
  <2> DEFINE t == [r EXCEPT !.pc = "winfo", !.data = r.got]
  <2>1. ReadEnds(r) = t
    BY <1>2 DEF ReadEnds, Copies
  <2>2. /\ t \in ClientType /\ t.pc = "winfo" /\ t.data = r.got /\ t.got = r.got /\ t.n = r.n
        /\ t.count = r.count /\ t.op = r.op /\ t.path = r.path /\ t.to = r.to
    BY Zenon DEF ClientOK, ClientType, Pcs
  <2> HIDE DEF t
  <2>3. ClientOK(t)
    <3>1. t.count = 0 /\ Len(t.data) \in Nat
      BY <2>2 DEF ClientOK, ClientType
    <3>2. QED
      BY <2>2, <1>2, <3>1 DEF ClientOK
  <2>4. QED
    BY <2>1, <2>2, <2>3, <1>2 DEF HonestIn, Honest
<1>3. CASE r.op \notin Copies
  BY <1>3, EndsOK DEF ReadEnds, Copies
<1>4. QED
  BY <1>1, <1>2, <1>3

\* The end of the loop of WriteFile, and its next round
LEMMA WriteGoesOnOK ==
    ASSUME NEW r, NEW t, ClientOK(r), r.pc \in Busy, SameCall(r, t), t.count <= Len(t.data)
    PROVE  /\ ClientOK(WriteEnds(t)) /\ Honest(WriteEnds(t))
           /\ ClientOK(WriteGoesOn(t)) /\ Honest(WriteGoesOn(t))
<1>1. ASSUME NEW l \in {"ret", "cstat", "wloc"}
      PROVE  ClientOK([t EXCEPT !.pc = l]) /\ Honest([t EXCEPT !.pc = l])
  <2> DEFINE u == [t EXCEPT !.pc = l]
  <2>1. SameCall(r, u) /\ u.pc = l /\ u.count = t.count
    BY <1>1, Zenon DEF SameCall, ClientType, Pcs
  <2>2. u.data = t.data
    BY <2>1 DEF SameCall
  <2> HIDE DEF u
  <2>3. ClientOK(u) /\ Honest(u)
    BY <1>1, <2>1, <2>2, GoesOn DEF Busy
  <2>4. QED
    BY <2>3 DEF u
<1>2. QED
  BY <1>1 DEF WriteEnds, WriteGoesOn

\* Stat, before a cat, head, tail or cp: the size read is the file's, or the call fails.
LEMMA StatOK ==
    ASSUME Inv, NEW c \in Clients, Stat(c)
    PROVE  Inv'
<1> DEFINE r == cl[c]
           size == sizes[names[r.path]]
           n == IF r.op \in {"head", "tail"} THEN Lesser(r.n, size) ELSE size
           s == IF r.path \notin DOMAIN names THEN Fails(r)
                ELSE IF (n = 0 /\ r.op = "head") \/ (size = 0 /\ r.op = "tail") THEN [r EXCEPT !.pc = "ret"]
                ELSE [r EXCEPT !.pc = "info", !.n = n, !.size = size,
                               !.off = IF r.op = "tail" THEN size - n ELSE 0]
<1>1. ClientOK(r) /\ r.pc = "stat"
  BY DEF Inv, ClientsOK, Stat
<1>2. r.path \in DOMAIN names => size \in Nat /\ n \in Nat /\ (r.op = "tail" => size - n \in Nat)
  <2>1. r.path \in DOMAIN names => size \in Nat
    BY Named DEF Inv
  <2>2. r.n \in Nat
    BY <1>1 DEF ClientOK, ClientType
  <2> HIDE DEF size
  <2>3. QED
    BY <2>1, <2>2 DEF Lesser
<1>3. ClientOK(s) /\ s.got = <<>>
  <2> HIDE DEF size, n
  <2>1. ClientOK(Fails(r)) /\ Fails(r).got = <<>>
    BY <1>1, Zenon DEF ClientOK, ClientType, Fails, Pcs
  <2>2. ClientOK([r EXCEPT !.pc = "ret"]) /\ [r EXCEPT !.pc = "ret"].got = <<>>
    BY <1>1, Zenon DEF ClientOK, ClientType, Pcs
  <2>3. ASSUME r.path \in DOMAIN names, NEW o \in Nat
        PROVE  /\ ClientOK([r EXCEPT !.pc = "info", !.n = n, !.size = size, !.off = o])
               /\ [r EXCEPT !.pc = "info", !.n = n, !.size = size, !.off = o].got = <<>>
    <3> DEFINE t == [r EXCEPT !.pc = "info", !.n = n, !.size = size, !.off = o]
    <3>1. /\ t \in ClientType
          /\ t.pc = "info" /\ t.n = n /\ t.got = r.got /\ t.data = r.data /\ t.count = r.count
          /\ t.path = r.path /\ t.to = r.to /\ t.op = r.op
      BY <1>1, <1>2, <2>3, Zenon DEF ClientOK, ClientType, Pcs
    <3> HIDE DEF t
    <3>2. ClientOK(t) /\ t.got = <<>>
      BY <1>1, <1>2, <2>3, <3>1 DEF ClientOK
    <3>3. QED
      BY <3>2 DEF t
  <2>4. QED
    BY <2>1, <2>2, <2>3, <1>2, Zenon
<1>4. Becomes(c, s) /\ Reads
  BY Zenon DEF Stat
<1> HIDE DEF s
<1>5. Honest(s)
  BY <1>3 DEF HonestIn, Honest
<1>6. QED
  BY <1>3, <1>4, <1>5, ReadsKeep

\* ReadInfo: the range to read is cut at the size the master has now.
LEMMA ReadInfoOK ==
    ASSUME Inv, NEW c \in Clients, ReadInfo(c)
    PROVE  Inv'
<1> DEFINE r == cl[c]
           size == sizes[names[r.path]]
           n == IF r.off >= size THEN 0 ELSE Lesser(r.n, size - r.off)
           s == [r EXCEPT !.ino = names[r.path], !.n = n]
           t == IF r.path \notin DOMAIN names THEN Fails(r)
                ELSE IF n = 0 THEN ReadEnds(s) ELSE [s EXCEPT !.pc = "rloc"]
<1>1. ClientOK(r) /\ Honest(r) /\ r.pc = "info"
  BY DEF Inv, ClientsOK, ReadInfo
<1>2. ClientOK(t) /\ Honest(t)
  <2>1. CASE r.path \notin DOMAIN names
    BY <1>1, <2>1, EndsOK, Zenon
  <2>2. CASE r.path \in DOMAIN names
    <3>1. size \in Nat /\ names[r.path] \in Nat
      BY <2>2, Named DEF Inv
    <3>2. n \in Nat
      <4>1. r.off \in Nat /\ r.n \in Nat
        BY <1>1 DEF ClientOK, ClientType
      <4> HIDE DEF r, size
      <4>2. QED
        BY <3>1, <4>1 DEF Lesser
    <3> HIDE DEF n, size
    <3>3. /\ s \in ClientType /\ s.pc = "info" /\ s.got = <<>> /\ s.count = 0 /\ s.n = n
          /\ s.path = r.path /\ s.to = r.to /\ s.op = r.op /\ s.data = r.data
      BY <1>1, <3>1, <3>2, Zenon DEF ClientOK, ClientType, Pcs
    <3> HIDE DEF s
    <3>4. ClientOK(s) /\ Honest(s)
      BY <1>1, <3>2, <3>3 DEF ClientOK, HonestIn, Honest
    <3>5. ClientOK(ReadEnds(s)) /\ Honest(ReadEnds(s))
      BY <3>3, <3>4, ReadEndsOK
    <3> DEFINE u == [s EXCEPT !.pc = "rloc"]
    <3>6. /\ u \in ClientType /\ u.pc = "rloc" /\ u.got = <<>> /\ u.count = 0 /\ u.n = n
          /\ u.path = r.path /\ u.to = r.to /\ u.op = r.op /\ u.data = r.data
      BY <3>3 DEF ClientType, Pcs
    <3> HIDE DEF u
    <3>7. ClientOK(u) /\ Honest(u)
      BY <1>1, <3>2, <3>6 DEF ClientOK, HonestIn, Honest
    <3>8. QED
      BY <2>2, <3>5, <3>7 DEF u
  <2>3. QED
    BY <2>1, <2>2
<1>3. Becomes(c, t) /\ Reads
  BY Zenon DEF ReadInfo
<1> HIDE DEF t
<1>4. QED
  BY <1>2, <1>3, ReadsKeep

\* Locations name workers.
LEMMA Located ==
    ASSUME Locations, NEW b, NEW l \in LocsOf(b)
    PROVE  l.worker \in Workers
BY DEF Locations, LocsOf

\* ReadLocate: the worker a read goes to is one that is listed for the block.
LEMMA ReadLocateOK ==
    ASSUME Inv, NEW c \in Clients, ReadLocate(c)
    PROVE  Inv'
<1> DEFINE r == cl[c]
           ls == LocsOf(BlockAt(r.ino, ReadPos(r)))
<1>1. ClientOK(r) /\ Honest(r) /\ r.pc = "rloc"
  BY Zenon DEF Inv, ClientsOK, ReadLocate
<1>2. CASE ls = {}
  <2>1. Becomes(c, ReadEnds(r)) /\ Reads
    BY <1>2, Zenon DEF ReadLocate
  <2>2. QED
    BY <1>1, <2>1, ReadEndsOK, ReadsKeep
<1>3. CASE ls # {}
  <2>1. PICK l \in ls : Becomes(c, [r EXCEPT !.pc = "rblk", !.target = l.worker])
    BY <1>3, Zenon DEF ReadLocate
  <2>2. l.worker \in Workers /\ Reads
    BY Located, Zenon DEF Inv, ReadLocate
  <2> DEFINE t == [r EXCEPT !.pc = "rblk", !.target = l.worker]
  <2>3. /\ t \in ClientType /\ t.pc = "rblk" /\ t.target = l.worker /\ t.got = r.got /\ t.count = r.count /\ t.n = r.n
        /\ t.path = r.path /\ t.to = r.to /\ t.op = r.op /\ t.data = r.data /\ t.ino = r.ino /\ t.off = r.off
    BY <1>1, <2>2, Zenon DEF ClientOK, ClientType, Pcs
  <2> HIDE DEF t
  <2>4. ClientOK(t) /\ Honest(t)
    BY <1>1, <2>2, <2>3 DEF ClientOK, HonestIn, Honest
  <2>5. QED
    BY <2>1, <2>2, <2>4, ReadsKeep DEF t
<1>4. QED
  BY <1>2, <1>3

\* WriteInfo: the inode to write to is the one the name has; without one it is created.
LEMMA WriteInfoOK ==
    ASSUME Inv, NEW c \in Clients, WriteInfo(c)
    PROVE  Inv'
<1> DEFINE r == cl[c]
<1>1. ClientOK(r) /\ r.pc = "winfo" /\ r.pc \in Busy /\ Reads
  BY DEF Inv, ClientsOK, WriteInfo, Busy
<1>2. CASE Target(r) \in DOMAIN names
  <2> DEFINE t == [r EXCEPT !.ino = names[Target(r)]]
  <2>1. names[Target(r)] \in Nat
    BY <1>2, Named DEF Inv
  <2>2. SameCall(r, t) /\ t.count = r.count
    BY <1>1, <2>1, Zenon DEF SameCall, ClientOK, ClientType
  <2>3. Becomes(c, WriteGoesOn(t))
    BY <1>2, Zenon DEF WriteInfo
  <2> HIDE DEF t
  <2>4. t.count <= Len(t.data)
    BY <1>1, <2>2 DEF SameCall, ClientOK
  <2>5. QED
    BY <1>1, <2>2, <2>3, <2>4, WriteGoesOnOK, ReadsKeep
<1>3. CASE Target(r) \notin DOMAIN names
  <2> DEFINE t == [r EXCEPT !.pc = "create"]
  <2>1. SameCall(r, t) /\ t.count = r.count /\ t.pc = "create"
    BY <1>1, Zenon DEF SameCall, ClientOK, ClientType, Pcs
  <2>2. Becomes(c, t)
    BY <1>3, Zenon DEF WriteInfo
  <2> HIDE DEF t
  <2>3. t.count <= Len(t.data) /\ t.pc \in Busy \ {"mv"}
    BY <1>1, <2>1 DEF SameCall, ClientOK, Busy
  <2>4. ClientOK(t) /\ Honest(t)
    BY <1>1, <2>1, <2>3, GoesOn
  <2>5. QED
    BY <1>1, <2>2, <2>4, ReadsKeep
<1>4. QED
  BY <1>2, <1>3

\* A call that writes is sent to a worker.
LEMMA SentOK ==
    ASSUME NEW r, NEW w \in Workers, ClientOK(r), r.pc \in Busy
    PROVE  /\ ClientOK([r EXCEPT !.pc = "wblk", !.target = w])
           /\ Honest([r EXCEPT !.pc = "wblk", !.target = w])
<1> DEFINE t == [r EXCEPT !.pc = "wblk", !.target = w]
<1>1. SameCall(r, t) /\ t.count = r.count /\ t.pc = "wblk" /\ t.target = w
  BY Zenon DEF SameCall, ClientOK, ClientType, Pcs
<1> HIDE DEF t
<1>2. t.count <= Len(t.data) /\ t.pc \in Busy \ {"mv"}
  BY <1>1 DEF SameCall, ClientOK, Busy
<1>3. ClientOK(t) /\ Honest(t)
  BY <1>1, <1>2, GoesOn
<1>4. QED
  BY <1>3 DEF t

\* WriteLocate: a write goes to a listed worker, or to one the master assigns.
LEMMA WriteLocateOK ==
    ASSUME Inv, NEW c \in Clients, WriteLocate(c)
    PROVE  Inv'
<1> DEFINE r == cl[c]
           b == BlockAt(r.ino, WritePos(r))
<1>1. ClientOK(r) /\ Honest(r) /\ r.pc = "wloc" /\ r.pc \in Busy /\ r.pc # "idle" /\ Reads
  BY Zenon DEF Inv, ClientsOK, WriteLocate, Busy
<1>2. CASE \E l \in LocsOf(b) : Becomes(c, [r EXCEPT !.pc = "wblk", !.target = l.worker])
  <2>1. PICK l \in LocsOf(b) : Becomes(c, [r EXCEPT !.pc = "wblk", !.target = l.worker])
    BY <1>2, Zenon
  <2>2. l.worker \in Workers
    BY Located DEF Inv
  <2>3. QED
    BY <1>1, <2>1, <2>2, SentOK, ReadsKeep, Zenon
<1>3. CASE Becomes(c, IF r.assigned # None THEN [r EXCEPT !.pc = "wblk", !.target = r.assigned]
                      ELSE IF WritePos(r) \div BlockSize > 0 THEN [r EXCEPT !.pc = "wloc0"] ELSE Fails(r))
  <2>1. CASE r.assigned # None
    <3>1. r.assigned \in Workers
      BY <1>1, <2>1 DEF ClientOK, ClientType
    <3>2. QED
      BY <1>1, <1>3, <2>1, <3>1, SentOK, ReadsKeep, Zenon
  <2>2. CASE r.assigned = None /\ WritePos(r) \div BlockSize > 0
    <3> DEFINE t == [r EXCEPT !.pc = "wloc0"]
    <3>1. SameCall(r, t) /\ t.count = r.count /\ t.pc = "wloc0"
      BY <1>1, Zenon DEF SameCall, ClientOK, ClientType, Pcs
    <3>2. Becomes(c, t)
      BY <1>3, <2>2
    <3> HIDE DEF t
    <3>3. t.count <= Len(t.data) /\ t.pc \in Busy \ {"mv"}
      BY <1>1, <3>1 DEF SameCall, ClientOK, Busy
    <3>4. ClientOK(t) /\ Honest(t)
      BY <1>1, <3>1, <3>3, GoesOn
    <3>5. QED
      BY <1>1, <3>2, <3>4, ReadsKeep
  <2>3. CASE r.assigned = None /\ ~(WritePos(r) \div BlockSize > 0)
    BY <1>1, <1>3, <2>3, EndsOK, ReadsKeep, Zenon
  <2>4. QED
    BY <2>1, <2>2, <2>3
<1>4. QED
  BY <1>2, <1>3, Zenon DEF WriteLocate

\* WriteLocate0: a block without a location goes to a worker of block 0.
LEMMA WriteLocate0OK ==
    ASSUME Inv, NEW c \in Clients, WriteLocate0(c)
    PROVE  Inv'
<1> DEFINE r == cl[c]
           ls == LocsOf(MakeBlockId(r.ino, 0))
<1>1. ClientOK(r) /\ Honest(r) /\ r.pc = "wloc0" /\ r.pc \in Busy /\ r.pc # "idle" /\ Reads
  BY Zenon DEF Inv, ClientsOK, WriteLocate0, Busy
<1>2. CASE ls = {}
  <2>1. Becomes(c, Fails(r))
    BY <1>2, Zenon DEF WriteLocate0
  <2>2. QED
    BY <1>1, <2>1, EndsOK, ReadsKeep, Zenon
<1>3. CASE ls # {}
  <2>1. PICK l \in ls : Becomes(c, [r EXCEPT !.pc = "wblk", !.target = l.worker])
    BY <1>3, Zenon DEF WriteLocate0
  <2>2. l.worker \in Workers
    BY Located DEF Inv
  <2>3. QED
    BY <1>1, <2>1, <2>2, SentOK, ReadsKeep, Zenon
<1>4. QED
  BY <1>2, <1>3

\* CompleteStat: the file to complete is looked up again.
LEMMA CompleteStatOK ==
    ASSUME Inv, NEW c \in Clients, CompleteStat(c)
    PROVE  Inv'
<1> DEFINE r == cl[c]
<1>1. ClientOK(r) /\ Honest(r) /\ r.pc = "cstat" /\ r.pc \in Busy /\ r.pc # "idle" /\ Reads
  BY DEF Inv, ClientsOK, CompleteStat, Busy
<1>2. CASE Target(r) \in DOMAIN names
  <2>1. PICK l \in {"ret", "complete"} : Becomes(c, [r EXCEPT !.pc = l, !.ino = names[Target(r)]])
    BY <1>2, Zenon DEF CompleteStat
  <2> DEFINE t == [r EXCEPT !.pc = l, !.ino = names[Target(r)]]
  <2>2. names[Target(r)] \in Nat
    BY <1>2, Named DEF Inv
  <2>3. SameCall(r, t) /\ t.count = r.count /\ t.pc = l
    BY <1>1, <2>2, Zenon DEF SameCall, ClientOK, ClientType, Pcs
  <2> HIDE DEF t
  <2>4. t.count <= Len(t.data) /\ t.pc \in (Busy \ {"mv"}) \cup {"ret"} /\ t.pc \notin {"wblk", "wrep"}
    BY <1>1, <2>3 DEF SameCall, ClientOK, Busy
  <2>5. ClientOK(t) /\ Honest(t)
    BY <1>1, <2>3, <2>4, GoesOn
  <2>6. QED
    BY <1>1, <2>1, <2>5, ReadsKeep DEF t
<1>3. CASE Target(r) \notin DOMAIN names
  <2>1. Becomes(c, [r EXCEPT !.pc = "ret"]) \/ Becomes(c, Fails(r))
    BY <1>3, Zenon DEF CompleteStat
  <2>2. QED
    BY <1>1, <2>1, EndsOK, ReadsKeep
<1>4. QED
  BY <1>2, <1>3

\* A size has a number of blocks.
LEMMA BlockCount ==
    ASSUME NEW size \in Nat
    PROVE  GetBlockCount(size) \in Nat
BY BlockSizeAssumption DEF GetBlockCount

\* DeleteFile and TruncateFile have found the blocks to drop.
LEMMA LookedUp ==
    ASSUME NEW r, ClientOK(r), r.pc \in Busy, NEW ino \in Nat, NEW todo \in SUBSET Nat
    PROVE  /\ ClientOK([r EXCEPT !.pc = "blocks", !.ino = ino, !.todo = todo])
           /\ Honest([r EXCEPT !.pc = "blocks", !.ino = ino, !.todo = todo])
<1> DEFINE t == [r EXCEPT !.pc = "blocks", !.ino = ino, !.todo = todo]
<1>1. SameCall(r, t) /\ t.count = r.count /\ t.pc = "blocks"
  BY Zenon DEF SameCall, ClientOK, ClientType, Pcs
<1> HIDE DEF t
<1>2. t.count <= Len(t.data) /\ t.pc \in Busy \ {"mv"}
  BY <1>1 DEF SameCall, ClientOK, Busy
<1>3. ClientOK(t) /\ Honest(t)
  BY <1>1, <1>2, GoesOn
<1>4. QED
  BY <1>3 DEF t

\* DeleteLook: the blocks to drop are those of the size the master has now.
LEMMA DeleteLookOK ==
    ASSUME Inv, NEW c \in Clients, DeleteLook(c)
    PROVE  Inv'
<1> DEFINE r == cl[c]
           ino == names[r.path]
           todo == 0 .. GetBlockCount(sizes[ino]) - 1
<1>1. ClientOK(r) /\ r.pc = "dlook" /\ r.pc \in Busy /\ Reads
  BY DEF Inv, ClientsOK, DeleteLook, Busy
<1>2. CASE r.path \in DOMAIN names
  <2>1. ino \in Nat /\ todo \in SUBSET Nat
    BY <1>2, Named, BlockCount DEF Inv
  <2>2. Becomes(c, [r EXCEPT !.pc = "blocks", !.ino = ino, !.todo = todo])
    BY <1>2, Zenon DEF DeleteLook
  <2> HIDE DEF ino, todo
  <2>3. QED
    BY <1>1, <2>1, <2>2, LookedUp, ReadsKeep, Zenon
<1>3. CASE r.path \notin DOMAIN names
  <2> DEFINE t == [r EXCEPT !.pc = "blocks"]
  <2>1. Becomes(c, t)
    BY <1>3, Zenon DEF DeleteLook
  <2>2. SameCall(r, t) /\ t.count = r.count /\ t.pc = "blocks"
    BY <1>1, Zenon DEF SameCall, ClientOK, ClientType, Pcs
  <2> HIDE DEF t
  <2>3. t.count <= Len(t.data) /\ t.pc \in Busy \ {"mv"}
    BY <1>1, <2>2 DEF SameCall, ClientOK, Busy
  <2>4. ClientOK(t) /\ Honest(t)
    BY <1>1, <2>2, <2>3, GoesOn
  <2>5. QED
    BY <1>1, <2>1, <2>4, ReadsKeep
<1>4. QED
  BY <1>2, <1>3

\* TruncateLook: the blocks to drop are those beyond the new size.
LEMMA TruncateLookOK ==
    ASSUME Inv, NEW c \in Clients, TruncateLook(c)
    PROVE  Inv'
<1> DEFINE r == cl[c]
           ino == names[r.path]
           todo == IF r.size < sizes[ino]
                   THEN Beyond(r.size) .. GetBlockCount(sizes[ino]) - 1 ELSE {}
<1>1. ClientOK(r) /\ Honest(r) /\ r.pc = "tlook" /\ r.pc \in Busy /\ r.pc # "idle" /\ Reads
  BY DEF Inv, ClientsOK, TruncateLook, Busy
<1>2. CASE r.path \in DOMAIN names
  <2>1. ino \in Nat /\ sizes[ino] \in Nat /\ r.size \in Nat
    BY <1>1, <1>2, Named DEF Inv, ClientOK, ClientType
  <2>2. todo \in SUBSET Nat
    BY <2>1, BlockCount DEF Beyond
  <2>3. Becomes(c, [r EXCEPT !.pc = "blocks", !.ino = ino, !.todo = todo])
    BY <1>2, Zenon DEF TruncateLook
  <2> HIDE DEF ino, todo
  <2>4. QED
    BY <1>1, <2>1, <2>2, <2>3, LookedUp, ReadsKeep, Zenon
<1>3. CASE r.path \notin DOMAIN names
  <2>1. Becomes(c, Fails(r))
    BY <1>3, Zenon DEF TruncateLook
  <2>2. QED
    BY <1>1, <2>1, EndsOK, ReadsKeep, Zenon
<1>4. QED
  BY <1>2, <1>3

-----------------------------------------------------------------------------
(* Calls *)

\* A call begins with nothing read and nothing sent.
LEMMA BeginKeeps ==
    ASSUME Inv, NEW c \in Clients, NEW s \in ClientType, Begin(c, s),
           s.count = 0, s.got = <<>>, s.path \in Paths, s.pc \in {"stat", "info", "winfo", "create", "dlook", "mv", "tlook"},
           s.op \in Copies \cup {"mv"} => s.to \in Paths, s.pc = "mv" => s.op = "mv"
    PROVE  Inv'
<1>1. ClientOK(s)
  <2>1. Len(s.data) \in Nat /\ s.n \in Nat /\ Len(s.got) = 0
    BY DEF ClientType
  <2>2. QED
    BY <2>1 DEF ClientOK
<1>2. HonestIn(s, wrote')
  BY DEF HonestIn, Honest
<1>3. ClientsOK'
  BY <1>1, <1>2, ClientStep DEF Inv, Begin, ClientsOK
<1>4. Storage'
  BY DEF Inv, Storage, Begin, Genuine
<1>5. Namespace'
  BY DEF Inv, Namespace, Begin, inodeVars
<1>6. Locations'
  BY DEF Inv, Locations, Begin, blockVars
<1>7. Counters'
  BY BoundsAssumption DEF Inv, Counters, Begin
<1>8. QED
  BY <1>3, <1>4, <1>5, <1>6, <1>7 DEF Inv

\* Before a call there is a client at rest.
LEMMA IdleType ==
    /\ Idle \in ClientType
    /\ Idle.pc = "idle" /\ Idle.op = "none" /\ Idle.data = <<>> /\ Idle.got = <<>> /\ Idle.count = 0 /\ Idle.n = 0
BY DEF Idle, ClientType, Pcs, Ops

\* A client that is not in a call has got no bytes, so none of another file.
LEMMA IdleOK == ClientOK(Idle) /\ Honest(Idle)
<1>1. Len(<<>>) = 0
  OBVIOUS
<1>2. QED
  BY <1>1, IdleType DEF ClientOK, HonestIn, Honest, Copies

\* Each of the thirteen calls begins with arguments of its type.
LEMMA CommandKeeps ==
    ASSUME Inv, NEW c \in Clients,
           \/ CatCmd(c) \/ HeadCmd(c) \/ TailCmd(c) \/ TouchCmd(c) \/ WriteCmd(c) \/ CpCmd(c) \/ CpChild(c)
           \/ RmCmd(c) \/ MvCmd(c) \/ FuseCreate(c) \/ FuseRead(c) \/ FuseWrite(c) \/ FuseTruncate(c)
    PROVE  Inv'
<1>0. /\ Offsets \subseteq Nat /\ Lengths \subseteq Nat /\ Sizes \subseteq Nat
      /\ \A d \in Contents : d \in Seq(Nat)
  BY ArgumentsAssumption
<1>1. CASE CatCmd(c)
  <2>1. PICK p \in Paths : Begin(c, [Idle EXCEPT !.pc = "stat", !.op = "cat", !.path = p])
    BY <1>1, Zenon DEF CatCmd
  <2> DEFINE s == [Idle EXCEPT !.pc = "stat", !.op = "cat", !.path = p]
  <2>2. s \in ClientType /\ s.pc = "stat" /\ s.op = "cat" /\ s.path = p /\ s.count = 0 /\ s.got = <<>>
    BY <1>0, IdleType, Zenon DEF ClientType, Pcs, Ops, Copies, ReadOps
  <2> HIDE DEF s
  <2>3. s.op \in Copies \cup {"mv"} => s.to \in Paths
    BY <2>2 DEF Copies
  <2>4. QED
    BY <2>1, <2>2, <2>3, BeginKeeps, Zenon DEF s
<1>2. CASE HeadCmd(c)
  <2>1. PICK p \in Paths, n \in Lengths : Begin(c, [Idle EXCEPT !.pc = "stat", !.op = "head", !.path = p, !.n = n])
    BY <1>2, Zenon DEF HeadCmd
  <2> DEFINE s == [Idle EXCEPT !.pc = "stat", !.op = "head", !.path = p, !.n = n]
  <2>2. s \in ClientType /\ s.pc = "stat" /\ s.op = "head" /\ s.path = p /\ s.count = 0 /\ s.got = <<>>
    BY <1>0, IdleType, Zenon DEF ClientType, Pcs, Ops, Copies, ReadOps
  <2> HIDE DEF s
  <2>3. s.op \in Copies \cup {"mv"} => s.to \in Paths
    BY <2>2 DEF Copies
  <2>4. QED
    BY <2>1, <2>2, <2>3, BeginKeeps, Zenon DEF s
<1>3. CASE TailCmd(c)
  <2>1. PICK p \in Paths, n \in Lengths : Begin(c, [Idle EXCEPT !.pc = "stat", !.op = "tail", !.path = p, !.n = n])
    BY <1>3, Zenon DEF TailCmd
  <2> DEFINE s == [Idle EXCEPT !.pc = "stat", !.op = "tail", !.path = p, !.n = n]
  <2>2. s \in ClientType /\ s.pc = "stat" /\ s.op = "tail" /\ s.path = p /\ s.count = 0 /\ s.got = <<>>
    BY <1>0, IdleType, Zenon DEF ClientType, Pcs, Ops, Copies, ReadOps
  <2> HIDE DEF s
  <2>3. s.op \in Copies \cup {"mv"} => s.to \in Paths
    BY <2>2 DEF Copies
  <2>4. QED
    BY <2>1, <2>2, <2>3, BeginKeeps, Zenon DEF s
<1>4. CASE TouchCmd(c)
  <2>1. PICK p \in Paths : Begin(c, [Idle EXCEPT !.pc = "create", !.op = "touch", !.path = p])
    BY <1>4, Zenon DEF TouchCmd
  <2> DEFINE s == [Idle EXCEPT !.pc = "create", !.op = "touch", !.path = p]
  <2>2. s \in ClientType /\ s.pc = "create" /\ s.op = "touch" /\ s.path = p /\ s.count = 0 /\ s.got = <<>>
    BY <1>0, IdleType, Zenon DEF ClientType, Pcs, Ops, Copies, ReadOps
  <2> HIDE DEF s
  <2>3. s.op \in Copies \cup {"mv"} => s.to \in Paths
    BY <2>2 DEF Copies
  <2>4. QED
    BY <2>1, <2>2, <2>3, BeginKeeps, Zenon DEF s
<1>5. CASE WriteCmd(c)
  <2>1. PICK p \in Paths, d \in Contents : Begin(c, [Idle EXCEPT !.pc = "winfo", !.op = "write", !.path = p, !.data = d])
    BY <1>5, Zenon DEF WriteCmd
  <2> DEFINE s == [Idle EXCEPT !.pc = "winfo", !.op = "write", !.path = p, !.data = d]
  <2>2. s \in ClientType /\ s.pc = "winfo" /\ s.op = "write" /\ s.path = p /\ s.count = 0 /\ s.got = <<>>
    BY <1>0, IdleType, Zenon DEF ClientType, Pcs, Ops, Copies, ReadOps
  <2> HIDE DEF s
  <2>3. s.op \in Copies \cup {"mv"} => s.to \in Paths
    BY <2>2 DEF Copies
  <2>4. QED
    BY <2>1, <2>2, <2>3, BeginKeeps, Zenon DEF s
<1>6. CASE CpCmd(c)
  <2>1. PICK p \in Paths, q \in Paths : Begin(c, [Idle EXCEPT !.pc = "stat", !.op = "cp", !.path = p, !.to = q])
    BY <1>6, Zenon DEF CpCmd
  <2> DEFINE s == [Idle EXCEPT !.pc = "stat", !.op = "cp", !.path = p, !.to = q]
  <2>2. s \in ClientType /\ s.pc = "stat" /\ s.op = "cp" /\ s.path = p /\ s.count = 0 /\ s.got = <<>> /\ s.to = q
    BY <1>0, IdleType, Zenon DEF ClientType, Pcs, Ops, Copies, ReadOps
  <2> HIDE DEF s
  <2>3. s.op \in Copies \cup {"mv"} => s.to \in Paths
    BY <2>2 DEF Copies
  <2>4. QED
    BY <2>1, <2>2, <2>3, BeginKeeps, Zenon DEF s
<1>7. CASE CpChild(c)
  <2>1. PICK p \in DOMAIN names, q \in Paths : Begin(c, [Idle EXCEPT !.pc = "info", !.op = "child", !.path = p, !.to = q, !.n = sizes[names[p]]])
    BY <1>7, Zenon DEF CpChild
  <2>0. p \in Paths /\ sizes[names[p]] \in Nat
    BY Named DEF Inv
  <2> DEFINE s == [Idle EXCEPT !.pc = "info", !.op = "child", !.path = p, !.to = q, !.n = sizes[names[p]]]
  <2>2. s \in ClientType /\ s.pc = "info" /\ s.op = "child" /\ s.path = p /\ s.count = 0 /\ s.got = <<>> /\ s.to = q
    BY <2>0, <1>0, IdleType, Zenon DEF ClientType, Pcs, Ops, Copies, ReadOps
  <2> HIDE DEF s
  <2>3. s.op \in Copies \cup {"mv"} => s.to \in Paths
    BY <2>2 DEF Copies
  <2>4. QED
    BY <2>0, <2>1, <2>2, <2>3, BeginKeeps, Zenon DEF s
<1>8. CASE RmCmd(c)
  <2>1. PICK p \in Paths : Begin(c, [Idle EXCEPT !.pc = "dlook", !.op = "rm", !.path = p])
    BY <1>8, Zenon DEF RmCmd
  <2> DEFINE s == [Idle EXCEPT !.pc = "dlook", !.op = "rm", !.path = p]
  <2>2. s \in ClientType /\ s.pc = "dlook" /\ s.op = "rm" /\ s.path = p /\ s.count = 0 /\ s.got = <<>>
    BY <1>0, IdleType, Zenon DEF ClientType, Pcs, Ops, Copies, ReadOps
  <2> HIDE DEF s
  <2>3. s.op \in Copies \cup {"mv"} => s.to \in Paths
    BY <2>2 DEF Copies
  <2>4. QED
    BY <2>1, <2>2, <2>3, BeginKeeps, Zenon DEF s
<1>9. CASE MvCmd(c)
  <2>1. PICK p \in Paths, q \in Paths : Begin(c, [Idle EXCEPT !.pc = "mv", !.op = "mv", !.path = p, !.to = q])
    BY <1>9, Zenon DEF MvCmd
  <2> DEFINE s == [Idle EXCEPT !.pc = "mv", !.op = "mv", !.path = p, !.to = q]
  <2>2. s \in ClientType /\ s.pc = "mv" /\ s.op = "mv" /\ s.path = p /\ s.count = 0 /\ s.got = <<>> /\ s.to = q
    BY <1>0, IdleType, Zenon DEF ClientType, Pcs, Ops, Copies, ReadOps
  <2> HIDE DEF s
  <2>3. s.op \in Copies \cup {"mv"} => s.to \in Paths
    BY <2>2 DEF Copies
  <2>4. QED
    BY <2>1, <2>2, <2>3, BeginKeeps, Zenon DEF s
<1>10. CASE FuseCreate(c)
  <2>1. PICK p \in Paths : Begin(c, [Idle EXCEPT !.pc = "create", !.op = "fcreate", !.path = p])
    BY <1>10, Zenon DEF FuseCreate
  <2> DEFINE s == [Idle EXCEPT !.pc = "create", !.op = "fcreate", !.path = p]
  <2>2. s \in ClientType /\ s.pc = "create" /\ s.op = "fcreate" /\ s.path = p /\ s.count = 0 /\ s.got = <<>>
    BY <1>0, IdleType, Zenon DEF ClientType, Pcs, Ops, Copies, ReadOps
  <2> HIDE DEF s
  <2>3. s.op \in Copies \cup {"mv"} => s.to \in Paths
    BY <2>2 DEF Copies
  <2>4. QED
    BY <2>1, <2>2, <2>3, BeginKeeps, Zenon DEF s
<1>11. CASE FuseRead(c)
  <2>1. PICK p \in Paths, o \in Offsets, n \in Lengths : Begin(c, [Idle EXCEPT !.pc = "info", !.op = "fread", !.path = p, !.off = o, !.n = n])
    BY <1>11, Zenon DEF FuseRead
  <2> DEFINE s == [Idle EXCEPT !.pc = "info", !.op = "fread", !.path = p, !.off = o, !.n = n]
  <2>2. s \in ClientType /\ s.pc = "info" /\ s.op = "fread" /\ s.path = p /\ s.count = 0 /\ s.got = <<>>
    BY <1>0, IdleType, Zenon DEF ClientType, Pcs, Ops, Copies, ReadOps
  <2> HIDE DEF s
  <2>3. s.op \in Copies \cup {"mv"} => s.to \in Paths
    BY <2>2 DEF Copies
  <2>4. QED
    BY <2>1, <2>2, <2>3, BeginKeeps, Zenon DEF s
<1>12. CASE FuseWrite(c)
  <2>1. PICK p \in Paths, o \in Offsets, d \in Contents : Begin(c, [Idle EXCEPT !.pc = "winfo", !.op = "fwrite", !.path = p, !.off = o, !.data = d])
    BY <1>12, Zenon DEF FuseWrite
  <2> DEFINE s == [Idle EXCEPT !.pc = "winfo", !.op = "fwrite", !.path = p, !.off = o, !.data = d]
  <2>2. s \in ClientType /\ s.pc = "winfo" /\ s.op = "fwrite" /\ s.path = p /\ s.count = 0 /\ s.got = <<>>
    BY <1>0, IdleType, Zenon DEF ClientType, Pcs, Ops, Copies, ReadOps
  <2> HIDE DEF s
  <2>3. s.op \in Copies \cup {"mv"} => s.to \in Paths
    BY <2>2 DEF Copies
  <2>4. QED
    BY <2>1, <2>2, <2>3, BeginKeeps, Zenon DEF s
<1>13. CASE FuseTruncate(c)
  <2>1. PICK p \in Paths, n \in Sizes : Begin(c, [Idle EXCEPT !.pc = "tlook", !.op = "truncate", !.path = p, !.size = n])
    BY <1>13, Zenon DEF FuseTruncate
  <2> DEFINE s == [Idle EXCEPT !.pc = "tlook", !.op = "truncate", !.path = p, !.size = n]
  <2>2. s \in ClientType /\ s.pc = "tlook" /\ s.op = "truncate" /\ s.path = p /\ s.count = 0 /\ s.got = <<>>
    BY <1>0, IdleType, Zenon DEF ClientType, Pcs, Ops, Copies, ReadOps
  <2> HIDE DEF s
  <2>3. s.op \in Copies \cup {"mv"} => s.to \in Paths
    BY <2>2 DEF Copies
  <2>4. QED
    BY <2>1, <2>2, <2>3, BeginKeeps, Zenon DEF s
<1>14. QED
  BY <1>1, <1>2, <1>3, <1>4, <1>5, <1>6, <1>7, <1>8, <1>9, <1>10, <1>11, <1>12, <1>13

-----------------------------------------------------------------------------
(* The bytes of blocks *)

ByteSet(m) == UNION {{b} \X DOMAIN m[b] : b \in DOMAIN m}

\* A worker holds a finite number of bytes.
LEMMA BytesFinite ==
    ASSUME NEW m, BlocksOK(m)
    PROVE  IsFiniteSet(ByteSet(m)) /\ Bytes(m) \in Nat
<1>1. IsFiniteSet(1 .. BlockSize)
  BY FS_Interval, BlockSizeAssumption
<1>2. IsFiniteSet((DOMAIN m) \X (1 .. BlockSize))
  BY <1>1, FS_Product, Zenon DEF BlocksOK
<1>3. ByteSet(m) \subseteq (DOMAIN m) \X (1 .. BlockSize)
  <2>1. ASSUME NEW b \in DOMAIN m PROVE DOMAIN m[b] \subseteq 1 .. BlockSize
    BY <2>1, BlockSizeAssumption DEF BlocksOK
  <2>2. QED
    BY <2>1 DEF ByteSet
<1>4. IsFiniteSet(ByteSet(m))
  BY <1>2, <1>3, FS_Subset
<1>5. QED
  BY <1>4, FS_CardinalityType DEF Bytes, ByteSet

\* Fewer blocks have no more bytes.
LEMMA FewerBytes ==
    ASSUME NEW m, BlocksOK(m), NEW D \in SUBSET DOMAIN m
    PROVE  LET e == [b \in D |-> m[b]] IN BlocksOK(e) /\ Bytes(e) <= Bytes(m)
<1> DEFINE e == [b \in D |-> m[b]]
<1>1. DOMAIN e = D /\ \A b \in D : e[b] = m[b]
  OBVIOUS
<1>2. BlocksOK(e)
  <2>1. IsFiniteSet(D)
    BY FS_Subset DEF BlocksOK
  <2>2. QED
    BY <1>1, <2>1 DEF BlocksOK
<1>3. ByteSet(e) \subseteq ByteSet(m)
  BY <1>1 DEF ByteSet
<1>4. Cardinality(ByteSet(e)) <= Cardinality(ByteSet(m))
  BY <1>3, BytesFinite, FS_Subset
<1>5. QED
  BY <1>2, <1>4 DEF Bytes, ByteSet

\* Two maps with blocks of the same lengths
LEMMA SameBytes ==
    ASSUME NEW m, NEW e, DOMAIN e = DOMAIN m, \A b \in DOMAIN m : DOMAIN e[b] = DOMAIN m[b]
    PROVE  Bytes(e) = Bytes(m)
<1>1. ByteSet(e) = ByteSet(m)
  BY DEF ByteSet
<1>2. QED
  BY <1>1 DEF Bytes, ByteSet

\* No blocks, no bytes.
LEMMA NoBytes ==
    ASSUME NEW m, DOMAIN m = {}
    PROVE  Bytes(m) = 0
<1>1. ByteSet(m) = {}
  BY DEF ByteSet
<1>2. QED
  BY <1>1, FS_EmptySet DEF Bytes, ByteSet

\* A block put beside the others adds its own bytes.
LEMMA MoreBytes ==
    ASSUME NEW m, BlocksOK(m), NEW b, b \notin DOMAIN m, NEW x \in Seq(Nat), Len(x) <= BlockSize
    PROVE  BlocksOK(Put(m, b, x)) /\ Bytes(Put(m, b, x)) = Bytes(m) + Len(x)
<1> DEFINE e == Put(m, b, x)
           new == {b} \X (1 .. Len(x))
<1>1. DOMAIN e = DOMAIN m \cup {b} /\ e[b] = x /\ \A d \in DOMAIN m : e[d] = m[d]
  BY DEF Put
<1>2. BlocksOK(e)
  <2>1. IsFiniteSet(DOMAIN m \cup {b})
    BY FS_AddElement DEF BlocksOK
  <2>2. e = [d \in DOMAIN e |-> e[d]]
    BY DEF Put
  <2> HIDE DEF e
  <2>3. QED
    BY <1>1, <2>1, <2>2 DEF BlocksOK
<1>3. ByteSet(e) = ByteSet(m) \cup new
  <2>1. DOMAIN x = 1 .. Len(x)
    OBVIOUS
  <2> HIDE DEF e
  <2>2. ByteSet(e) \subseteq ByteSet(m) \cup new
    BY <1>1, <2>1 DEF ByteSet
  <2>3. ByteSet(m) \subseteq ByteSet(e)
    BY <1>1 DEF ByteSet
  <2>4. new \subseteq ByteSet(e)
    BY <1>1, <2>1 DEF ByteSet
  <2>5. QED
    BY <2>2, <2>3, <2>4
<1>4. ByteSet(m) \cap new = {}
  BY DEF ByteSet
<1>5. IsFiniteSet(new) /\ Cardinality(new) = Len(x)
  <2>1. IsFiniteSet(1 .. Len(x)) /\ Cardinality(1 .. Len(x)) = Len(x)
    <3>1. \A k \in Nat : IsFiniteSet(1 .. k) /\ Cardinality(1 .. k) = k
      BY FS_Interval
    <3>2. QED
      BY <3>1
  <2>2. IsFiniteSet({b}) /\ Cardinality({b}) = 1
    BY FS_Singleton, Zenon
  <2>3. IsFiniteSet(new) /\ Cardinality(new) = Cardinality({b}) * Cardinality(1 .. Len(x))
    BY <2>1, <2>2, FS_Product, Zenon
  <2>4. QED
    BY <2>1, <2>2, <2>3
<1>6. Cardinality(ByteSet(m) \cup new) = Cardinality(ByteSet(m)) + Cardinality(new) - Cardinality(ByteSet(m) \cap new)
  BY <1>5, BytesFinite, FS_Union, Zenon
<1>7. Cardinality(ByteSet(m) \cap new) = 0
  BY <1>4, FS_EmptySet, Zenon
<1>8. Cardinality(ByteSet(e)) = Cardinality(ByteSet(m)) + Len(x)
  <2>1. Cardinality(ByteSet(m)) \in Nat
    BY BytesFinite, FS_CardinalityType
  <2>2. QED
    BY <2>1, <1>3, <1>5, <1>6, <1>7
<1>9. QED
  BY <1>2, <1>8 DEF Bytes, ByteSet

\* Eviction takes blocks away: the bytes asked for, or all.
LEMMA EvictBlocksOK ==
    ASSUME NEW m, BlocksOK(m), NEW n \in Nat, NEW e \in EvictBlocks(m, n)
    PROVE  /\ BlocksOK(e) /\ Bytes(e) <= Bytes(m)
           /\ DOMAIN e \subseteq DOMAIN m /\ \A b \in DOMAIN e : e[b] = m[b]
           /\ Bytes(e) + n <= Bytes(m) \/ Bytes(e) = 0
<1> DEFINE freed(gone) == Bytes(m) - Bytes(Without(m, gone))
<1>1. PICK vs \in SUBSET DOMAIN m :
         /\ e = Without(m, vs)
         /\ IF freed(vs) < n THEN vs = DOMAIN m ELSE \E v \in vs : freed(vs \ {v}) < n
  BY Zenon DEF EvictBlocks
<1>2. e = [b \in DOMAIN m \ vs |-> m[b]]
  BY <1>1, Zenon DEF Without
<1>3. BlocksOK(e) /\ Bytes(e) <= Bytes(m)
  BY <1>2, FewerBytes
<1>4. DOMAIN e \subseteq DOMAIN m /\ \A b \in DOMAIN e : e[b] = m[b]
  BY <1>2
<1>5. Bytes(m) \in Nat /\ Bytes(e) \in Nat
  BY <1>3, BytesFinite
<1>6. CASE freed(vs) < n
  <2>1. DOMAIN e = {}
    BY <1>1, <1>2, <1>6
  <2>2. QED
    BY <2>1, <1>3, <1>4, NoBytes
<1>7. CASE ~(freed(vs) < n)
  <2>1. freed(vs) = Bytes(m) - Bytes(e)
    BY <1>1
  <2> HIDE DEF freed
  <2>2. Bytes(e) + n <= Bytes(m)
    BY <1>5, <1>7, <2>1
  <2>3. QED
    BY <2>2, <1>3, <1>4
<1>8. QED
  BY <1>6, <1>7

\* A new block fits, whatever has to go for it, and the worker keeps to its capacity;
\* what stays is as it was.
LEMMA CreateBlockOK ==
    ASSUME NEW m, BlocksOK(m), Bytes(m) <= Capacity, NEW b, b \notin DOMAIN m,
           NEW n \in 0 .. BlockSize, NEW e \in CreateBlock(m, b, n)
    PROVE  /\ BlocksOK(e) /\ Bytes(e) <= Capacity
           /\ \A d \in DOMAIN e : (d \in DOMAIN m /\ e[d] = m[d]) \/ (d = b /\ e[d] = Zeros(n))
<1>0. n \in Nat /\ Capacity \in Nat /\ BlockSize \in Nat /\ BlockSize <= Capacity /\ n <= BlockSize
  BY BlockSizeAssumption, CapacityAssumption
<1>1. PICK room \in MakeRoom(m, n) : e \in MaybeAutoEvict(Put(room, b, Zeros(n)))
  BY DEF CreateBlock
<1>2. /\ BlocksOK(room) /\ Bytes(room) + n <= Capacity
      /\ DOMAIN room \subseteq DOMAIN m /\ \A d \in DOMAIN room : room[d] = m[d]
  <2>1. CASE Bytes(m) + n <= Capacity
    BY <2>1, <1>1 DEF MakeRoom
  <2>2. CASE ~(Bytes(m) + n <= Capacity)
    <3>1. room \in EvictBlocks(m, n)
      BY <2>2, <1>1 DEF MakeRoom
    <3>2. /\ BlocksOK(room) /\ (Bytes(room) + n <= Bytes(m) \/ Bytes(room) = 0)
          /\ DOMAIN room \subseteq DOMAIN m /\ \A d \in DOMAIN room : room[d] = m[d]
      BY <3>1, <1>0, EvictBlocksOK
    <3>3. Bytes(m) \in Nat /\ Bytes(room) \in Nat
      BY <3>2, BytesFinite
    <3>4. QED
      BY <3>2, <3>3, <1>0
  <2>3. QED
    BY <2>1, <2>2
<1> DEFINE full == Put(room, b, Zeros(n))
<1>3. Zeros(n) \in Seq(Nat) /\ Len(Zeros(n)) = n
  BY <1>0 DEF Zeros
<1>4. BlocksOK(full) /\ Bytes(full) <= Capacity
  <2>1. BlocksOK(full) /\ Bytes(full) = Bytes(room) + Len(Zeros(n))
    BY <1>0, <1>2, <1>3, MoreBytes
  <2>2. QED
    BY <2>1, <1>2, <1>3
<1>5. \A d \in DOMAIN full : (d \in DOMAIN m /\ full[d] = m[d]) \/ (d = b /\ full[d] = Zeros(n))
  BY <1>2 DEF Put
<1>6. e \in MaybeAutoEvict(full)
  BY <1>1
<1> HIDE DEF full
<1>7. /\ BlocksOK(e) /\ Bytes(e) <= Bytes(full)
      /\ DOMAIN e \subseteq DOMAIN full /\ \A d \in DOMAIN e : e[d] = full[d]
  <2>1. Bytes(full) \in Nat
    BY <1>4, BytesFinite
  <2>2. CASE BelowHigh(Bytes(full))
    BY <2>1, <2>2, <1>4, <1>6 DEF MaybeAutoEvict
  <2>3. CASE ~BelowHigh(Bytes(full))
    <3> DEFINE k == Bytes(full) - (80 * Capacity) \div 100
    <3>1. e \in EvictBlocks(full, k)
      BY <2>3, <1>6 DEF MaybeAutoEvict
    <3>2. k \in Nat
      BY <2>1, <2>3, <1>0 DEF BelowHigh
    <3> HIDE DEF k
    <3>3. QED
      BY <3>1, <3>2, <1>4, EvictBlocksOK
  <2>4. QED
    BY <2>2, <2>3
<1>8. Bytes(e) \in Nat /\ Bytes(full) \in Nat
  BY <1>4, <1>7, BytesFinite
<1>9. QED
  BY <1>0, <1>4, <1>5, <1>7, <1>8

-----------------------------------------------------------------------------
(* WriteBlock *)

\* EnsureSpace and CreateBlock leave blocks that are sound and fit.
LEMMA EnsuredOK ==
    ASSUME Storage, NEW w \in Workers, NEW b, NEW n \in 0 .. BlockSize, NEW e \in Ensured(w, b, n)
    PROVE  BlocksOK(e) /\ Bytes(e) <= Capacity /\ Genuine(e)
<1>1. BlocksOK(store[w]) /\ Bytes(store[w]) <= Capacity /\ Genuine(store[w])
  BY DEF Storage
<1>2. CASE b \in DOMAIN store[w]
  BY <1>1, <1>2 DEF Ensured
<1>3. CASE b \notin DOMAIN store[w]
  <2>1. e \in CreateBlock(store[w], b, n)
    BY <1>3 DEF Ensured
  <2>2. /\ BlocksOK(e) /\ Bytes(e) <= Capacity
        /\ \A d \in DOMAIN e : (d \in DOMAIN store[w] /\ e[d] = store[w][d]) \/ (d = b /\ e[d] = Zeros(n))
    BY <1>1, <1>3, <2>1, CreateBlockOK
  <2>3. \A i \in DOMAIN Zeros(n) : Zeros(n)[i] = 0
    BY DEF Zeros
  <2>4. Genuine(e)
    BY <1>1, <2>2, <2>3 DEF Genuine
  <2>5. QED
    BY <2>2, <2>4
<1>4. QED
  BY <1>2, <1>3

\* What a call of WriteBlock carries is a piece of the client's data, within a block.
LEMMA PieceOK ==
    ASSUME NEW r, ClientOK(r)
    PROVE  /\ WritePos(r) \in Nat /\ r.count \in Nat /\ Len(r.data) \in Nat
           /\ WriteLen(r) \in 0 .. BlockSize /\ r.count + WriteLen(r) <= Len(r.data)
           /\ Piece(r) \in Seq(Nat) /\ Len(Piece(r)) = WriteLen(r)
<1>1. r.off \in Nat /\ r.count \in Nat /\ r.data \in Seq(Nat) /\ Len(r.data) \in Nat /\ r.count <= Len(r.data)
  BY DEF ClientOK, ClientType
<1>2. WritePos(r) \in Nat
  BY <1>1 DEF WritePos, WriteOff
<1>3. WriteLen(r) \in 0 .. BlockSize /\ r.count + WriteLen(r) <= Len(r.data)
  <2>1. InBlock(WritePos(r)) \in 0 .. BlockSize - 1
    BY <1>2, Arithmetic DEF InBlock
  <2>2. QED
    BY <1>1, <2>1, BlockSizeAssumption DEF WriteLen, Chunk, Lesser
<1>4. Piece(r) \in Seq(Nat) /\ Len(Piece(r)) = WriteLen(r)
  <2>1. ASSUME NEW d \in Seq(Nat), NEW k \in Nat, NEW n \in Nat, k + n <= Len(d)
        PROVE  SubSeq(d, k + 1, k + n) \in Seq(Nat) /\ Len(SubSeq(d, k + 1, k + n)) = n
    BY <2>1
  <2>2. WriteLen(r) \in Nat
    BY <1>3, BlockSizeAssumption
  <2>3. QED
    BY <1>1, <1>3, <2>1, <2>2, Zenon DEF Piece
<1>5. QED
  BY <1>1, <1>2, <1>3, <1>4

\* Bytes written into a block leave its length.
LEMMA PatchedOK ==
    ASSUME NEW x \in Seq(Nat), NEW o \in Nat, NEW y \in Seq(Nat)
    PROVE  /\ Patched(x, o, y) \in Seq(Nat) /\ Len(Patched(x, o, y)) = Len(x)
           /\ DOMAIN Patched(x, o, y) = DOMAIN x
<1>1. Len(y) \in Nat /\ Len(x) \in Nat /\ DOMAIN x = 1 .. Len(x)
  OBVIOUS
<1>2. \A i \in 1 .. Len(x) : (IF i \in o + 1 .. o + Len(y) THEN y[i - o] ELSE x[i]) \in Nat
  <2>1. ASSUME NEW i \in 1 .. Len(x), i \in o + 1 .. o + Len(y) PROVE y[i - o] \in Nat
    <3>1. i - o \in 1 .. Len(y)
      BY <1>1, <2>1
    <3>2. QED
      BY <3>1
  <2>2. QED
    BY <2>1
<1>3. Patched(x, o, y) \in [1 .. Len(x) -> Nat]
  BY <1>1, <1>2 DEF Patched
<1>4. QED
  BY <1>1, <1>3 DEF Patched

\* WriteBlock stores what the client sent where it belongs, or nothing.
LEMMA WriteBlockOK ==
    ASSUME Storage, NEW r, ClientOK(r), r.target \in Workers,
           NEW blocks \in Ensured(r.target, Block(r), WriteLen(r)),
           WriteBlock(r, blocks), free' = free
    PROVE  Storage' /\ wrote \subseteq wrote'
<1> DEFINE b == Block(r)
           o == InBlock(WritePos(r))
           piece == Piece(r)
           patched == [blocks EXCEPT ![b] = Patched(@, o, piece)]
<1>1. BlocksOK(blocks) /\ Bytes(blocks) <= Capacity /\ Genuine(blocks)
  BY EnsuredOK, PieceOK
<1>2. ASSUME NEW m, store' = [store EXCEPT ![r.target] = m], wrote \subseteq wrote',
             BlocksOK(m), Bytes(m) <= Capacity, Genuine(m)'
      PROVE  Storage'
  <2>0. Folded(wrote) \subseteq Folded(wrote')
    BY <1>2, FoldedMore
  <2>1. ASSUME NEW w \in Workers PROVE BlocksOK(store'[w]) /\ Genuine(store[w])' /\ Bytes(store'[w]) <= Capacity
    <3>1. CASE w = r.target
      <4>1. store'[w] = m
        BY <1>2, <3>1 DEF Storage
      <4>2. QED
        BY <1>2, <4>1 DEF Genuine
    <3>2. CASE w # r.target
      <4>1. store'[w] = store[w]
        BY <1>2, <3>2 DEF Storage
      <4>2. QED
        BY <2>0, <4>1 DEF Storage, Genuine
    <3>3. QED
      BY <3>1, <3>2
  <2>2. store' = [w \in Workers |-> store'[w]]
    BY <1>2 DEF Storage
  <2>3. QED
    BY <2>1, <2>2 DEF Storage
<1>3. CASE Refused(r, blocks)
  <2>1. store' = [store EXCEPT ![r.target] = blocks] /\ wrote' = wrote
    BY <1>3 DEF WriteBlock
  <2>2. Genuine(blocks)'
    BY <1>1, <2>1 DEF Genuine
  <2>3. QED
    BY <1>1, <1>2, <2>1, <2>2, Zenon
<1>4. CASE ~Refused(r, blocks)
  <2>1. /\ store' = [store EXCEPT ![r.target] = patched]
        /\ wrote' = wrote \cup {<<r.ino, WritePos(r) + i - 1, piece[i]>> : i \in 1 .. WriteLen(r)}
    BY <1>4, Zenon DEF WriteBlock
  <2>2. b \in DOMAIN blocks
    BY <1>4 DEF Refused
  <2>3. /\ WritePos(r) \in Nat /\ piece \in Seq(Nat) /\ Len(piece) = WriteLen(r) /\ Len(piece) \in Nat
        /\ o \in 0 .. BlockSize - 1 /\ o \in Nat
    <3>1. WritePos(r) \in Nat /\ piece \in Seq(Nat) /\ Len(piece) = WriteLen(r) /\ Len(piece) \in Nat
      BY PieceOK
    <3>2. QED
      BY <3>1, Arithmetic DEF InBlock
  <2> HIDE DEF b, o, piece
  <2>4. blocks[b] \in Seq(Nat) /\ Len(blocks[b]) <= BlockSize
    BY <1>1, <2>2 DEF BlocksOK
  <2> DEFINE p == Patched(blocks[b], o, piece)
  <2>5. /\ p \in Seq(Nat) /\ Len(p) = Len(blocks[b]) /\ DOMAIN p = DOMAIN blocks[b]
        /\ \A i \in DOMAIN blocks[b] : p[i] = IF i \in o + 1 .. o + Len(piece) THEN piece[i - o] ELSE blocks[b][i]
    <3>1. p \in Seq(Nat) /\ Len(p) = Len(blocks[b]) /\ DOMAIN p = DOMAIN blocks[b]
      BY <2>3, <2>4, PatchedOK
    <3>2. QED
      BY <3>1 DEF Patched
  <2>6. /\ b[1] = r.ino /\ b[2] * BlockSize \in Nat
        /\ \A k \in Nat : o + k < BlockSize => (WritePos(r) + k) % FileLimit = b[2] * BlockSize + o + k
    <3>1. b[1] = r.ino /\ b[2] = (WritePos(r) \div BlockSize) % IndexLimit
      BY DEF b, Block, BlockAt, MakeBlockId
    <3>2. b[2] * BlockSize \in Nat
      BY <2>3, <3>1, BlockStart
    <3>3. QED
      BY <2>3, <3>1, <3>2, StoredNext, Zenon DEF o, InBlock
  <2>7. DOMAIN patched = DOMAIN blocks /\ patched[b] = p /\ \A d \in DOMAIN blocks : d # b => patched[d] = blocks[d]
    BY <1>1, <2>2 DEF BlocksOK
  <2>8. patched = [d \in DOMAIN patched |-> patched[d]]
    OBVIOUS
  <2> HIDE DEF patched, p
  <2>9. BlocksOK(patched)
    BY <1>1, <2>4, <2>5, <2>7, <2>8, Zenon DEF BlocksOK
  <2>10. Bytes(patched) <= Capacity
    <3>1. \A d \in DOMAIN blocks : DOMAIN patched[d] = DOMAIN blocks[d]
      BY <2>5, <2>7
    <3>2. Bytes(patched) = Bytes(blocks)
      BY <2>7, <3>1, SameBytes
    <3>3. QED
      BY <1>1, <3>2
  <2>11. wrote \subseteq wrote'
    BY <2>1
  <2>12. Genuine(patched)'
    <3>1. ASSUME NEW d \in DOMAIN patched, NEW i \in DOMAIN patched[d]
          PROVE  patched[d][i] = 0 \/ <<d[1], d[2] * BlockSize + i - 1, patched[d][i]>> \in Folded(wrote')
      <4>1. CASE d = b /\ i \in o + 1 .. o + Len(piece)
        <5>1. i \in Nat /\ i - o \in 1 .. WriteLen(r) /\ i <= BlockSize
          <6>1. DOMAIN blocks[b] = 1 .. Len(blocks[b]) /\ Len(blocks[b]) \in Nat
            BY <2>4
          <6>2. i \in DOMAIN blocks[b]
            BY <3>1, <4>1, <2>5, <2>7
          <6>3. QED
            BY <4>1, <2>3, <2>4, <6>1, <6>2, BlockSizeAssumption
        <5>2. patched[d][i] = piece[i - o]
          BY <3>1, <4>1, <2>5, <2>7
        <5> DEFINE k == i - o - 1
        <5>3. k \in Nat /\ o + k < BlockSize /\ WritePos(r) + (i - o) - 1 = WritePos(r) + k
          BY <5>1, <2>3, BlockSizeAssumption
        <5>4. <<r.ino, WritePos(r) + (i - o) - 1, piece[i - o]>> \in wrote'
          BY <5>1, <2>1
        <5>5. <<r.ino, (WritePos(r) + (i - o) - 1) % FileLimit, piece[i - o]>> \in Folded(wrote')
          BY <5>4, FoldedHas
        <5>6. b[2] * BlockSize + o + k = b[2] * BlockSize + i - 1
          BY <5>1, <2>3, <2>6
        <5>7. (WritePos(r) + (i - o) - 1) % FileLimit = b[2] * BlockSize + i - 1
          BY <5>3, <5>6, <2>6
        <5>8. QED
          BY <5>2, <5>5, <5>7, <4>1, <2>6
      <4>2. CASE ~(d = b /\ i \in o + 1 .. o + Len(piece))
        <5>1. d \in DOMAIN blocks /\ i \in DOMAIN blocks[d] /\ patched[d][i] = blocks[d][i]
          BY <3>1, <4>2, <2>5, <2>7
        <5>2. Folded(wrote) \subseteq Folded(wrote')
          BY <2>11, FoldedMore
        <5>3. QED
          BY <1>1, <5>1, <5>2 DEF Genuine
      <4>3. QED
        BY <4>1, <4>2
    <3>2. QED
      BY <3>1 DEF Genuine
  <2>13. QED
    BY <1>2, <2>1, <2>9, <2>10, <2>11, <2>12, Zenon
<1>5. QED
  BY <1>3, <1>4

-----------------------------------------------------------------------------
(* The other steps of a client *)

\* What does not touch the workers keeps their part of the invariant.
LEMMA StorageKept ==
    ASSUME Storage, UNCHANGED <<store, free>>, wrote \subseteq wrote'
    PROVE  Storage'
<1>1. Folded(wrote) \subseteq Folded(wrote')
  BY FoldedMore
<1>2. QED
  BY <1>1 DEF Storage, Genuine

\* What does not touch the inodes keeps their part.
LEMMA NamespaceKept ==
    ASSUME Namespace, UNCHANGED inodeVars
    PROVE  Namespace'
BY DEF Namespace, inodeVars

\* What does not touch the block master keeps its part.
LEMMA LocationsKept ==
    ASSUME Locations, UNCHANGED blockVars
    PROVE  Locations'
BY DEF Locations, blockVars

\* What does not count keeps the counters.
LEMMA CountersKept ==
    ASSUME Counters, UNCHANGED <<calls, losses>>
    PROVE  Counters'
BY DEF Counters

\* A worker that reports a block is listed for it.
LEMMA AddedLocation ==
    ASSUME Locations, NEW b, NEW w \in Workers, AddBlockLocation(b, w, w, "mem")
    PROVE  Locations'
<1> DEFINE Loc == [worker : Workers, address : Workers, tier : {"mem"}]
<1>1. LocsOf(b) \subseteq Loc
  BY DEF Locations, LocsOf
<1>2. ASSUME NEW ls \in SUBSET Loc, locs' = Put(locs, b, ls) PROVE Locations'
  <2>1. \A d \in DOMAIN locs' : locs'[d] = ls \/ (d \in DOMAIN locs /\ locs'[d] = locs[d])
    BY <1>2 DEF Put
  <2>2. QED
    BY <1>2, <2>1 DEF Locations
<1>3. CASE At(LocsOf(b), w) # {}
  <2> DEFINE ls == {IF l.worker = w THEN [l EXCEPT !.tier = "mem"] ELSE l : l \in LocsOf(b)}
  <2>1. locs' = Put(locs, b, ls)
    BY <1>3 DEF AddBlockLocation
  <2>2. \A l \in Loc : [l EXCEPT !.tier = "mem"] \in Loc
    OBVIOUS
  <2>3. ls \subseteq Loc
    BY <1>1, <2>2
  <2>4. QED
    BY <1>2, <2>1, <2>3
<1>4. CASE At(LocsOf(b), w) = {}
  <2> DEFINE ls == LocsOf(b) \cup {[worker |-> w, address |-> w, tier |-> "mem"]}
  <2>1. locs' = Put(locs, b, ls)
    BY <1>4 DEF AddBlockLocation
  <2>2. ls \subseteq Loc
    BY <1>1
  <2>3. QED
    BY <1>2, <2>1, <2>2
<1>5. QED
  BY <1>3, <1>4

\* The position of what a client reads next
LEMMA ReadFacts ==
    ASSUME NEW r, ClientOK(r)
    PROVE  LET n == Chunk(ReadPos(r), r.n - Len(r.got))
           IN /\ ReadPos(r) \in Nat /\ n \in Nat /\ Len(r.got) + n <= r.n
              /\ InBlock(ReadPos(r)) \in Nat /\ InBlock(ReadPos(r)) + n <= BlockSize
<1>1. r.off \in Nat /\ r.n \in Nat /\ Len(r.got) \in Nat /\ Len(r.got) <= r.n
  BY DEF ClientOK, ClientType
<1>2. ReadPos(r) \in Nat
  BY <1>1 DEF ReadPos
<1>3. InBlock(ReadPos(r)) \in 0 .. BlockSize - 1
  BY <1>2, Arithmetic DEF InBlock
<1>4. QED
  BY <1>1, <1>2, <1>3, BlockSizeAssumption DEF Chunk, Lesser

\* What a worker answers a client is what was written at those positions of the file.
LEMMA AnswerOK ==
    ASSUME Inv, NEW r, ClientOK(r), Honest(r), r.pc = "rblk",
           BlockAt(r.ino, ReadPos(r)) \in DOMAIN store[r.target]
    PROVE  LET o == InBlock(ReadPos(r))
               n == Chunk(ReadPos(r), r.n - Len(r.got))
               bytes == store[r.target][BlockAt(r.ino, ReadPos(r))]
               s == [r EXCEPT !.got = r.got \o [i \in 1 .. n |-> IF o + i <= Len(bytes) THEN bytes[o + i] ELSE 0]]
           IN ClientOK(s) /\ Honest(s) /\ s.pc = "rblk"
<1> DEFINE pos == ReadPos(r)
           b == BlockAt(r.ino, pos)
           o == InBlock(pos)
           n == Chunk(pos, r.n - Len(r.got))
           bytes == store[r.target][b]
           answer == [i \in 1 .. n |-> IF o + i <= Len(bytes) THEN bytes[o + i] ELSE 0]
           s == [r EXCEPT !.got = r.got \o answer]
<1>1. pos \in Nat /\ n \in Nat /\ Len(r.got) + n <= r.n /\ o \in Nat /\ o + n <= BlockSize
  BY ReadFacts
<1>2. r.off \in Nat /\ r.got \in Seq(Nat) /\ Len(r.got) \in Nat /\ r.target \in Workers
  BY DEF ClientOK, ClientType
<1>3. bytes \in Seq(Nat) /\ Len(bytes) \in Nat /\ Genuine(store[r.target])
  BY <1>2 DEF Inv, Storage, BlocksOK
<1>4. pos = r.off + Len(r.got)
  BY DEF ReadPos
<1>5. /\ b[1] = r.ino /\ b[2] * BlockSize \in Nat
      /\ \A k \in Nat : o + k < BlockSize => (pos + k) % FileLimit = b[2] * BlockSize + o + k
  <2>1. b[1] = r.ino /\ b[2] = (pos \div BlockSize) % IndexLimit
    BY DEF b, BlockAt, MakeBlockId
  <2>2. b[2] * BlockSize \in Nat
    BY <1>1, <2>1, BlockStart
  <2> HIDE DEF pos, b
  <2>3. QED
    BY <1>1, <2>1, <2>2, StoredNext, Zenon DEF o, InBlock
<1> HIDE DEF n, o, pos, b
<1>6. ASSUME NEW i \in 1 .. n
      PROVE  answer[i] \in Nat /\ (answer[i] = 0 \/ <<r.ino, (pos + i - 1) % FileLimit, answer[i]>> \in Folded(wrote))
  <2>1. CASE o + i <= Len(bytes)
    <3>1. o + i \in DOMAIN bytes /\ answer[i] = bytes[o + i]
      BY <1>1, <1>3, <2>1
    <3>2. bytes[o + i] \in Nat
      BY <1>3, <3>1
    <3>3. bytes[o + i] = 0 \/ <<b[1], b[2] * BlockSize + (o + i) - 1, bytes[o + i]>> \in Folded(wrote)
      BY <1>3, <3>1 DEF Genuine, b, pos
    <3>4. b[2] * BlockSize + (o + i) - 1 = (pos + i - 1) % FileLimit
      <4> DEFINE k == i - 1
      <4>1. k \in Nat /\ o + k < BlockSize /\ pos + i - 1 = pos + k
        BY <1>1, BlockSizeAssumption
      <4>2. b[2] * BlockSize + (o + i) - 1 = b[2] * BlockSize + o + k
        BY <1>1, <1>5
      <4> HIDE DEF k
      <4>3. QED
        BY <1>5, <4>1, <4>2
    <3>5. QED
      BY <1>5, <3>1, <3>2, <3>3, <3>4
  <2>2. CASE ~(o + i <= Len(bytes))
    BY <2>2
  <2>3. QED
    BY <2>1, <2>2
<1>7. answer \in Seq(Nat) /\ Len(answer) = n
  <2>1. answer \in [1 .. n -> Nat]
    BY <1>6, Zenon
  <2> HIDE DEF answer
  <2>2. QED
    BY <1>1, <2>1
<1> HIDE DEF answer
<1>8. /\ r.got \o answer \in Seq(Nat) /\ Len(r.got \o answer) = Len(r.got) + n
      /\ \A i \in DOMAIN (r.got \o answer) :
            \/ i \in DOMAIN r.got /\ (r.got \o answer)[i] = r.got[i]
            \/ i - Len(r.got) \in 1 .. n /\ (r.got \o answer)[i] = answer[i - Len(r.got)]
  <2>1. r.got \o answer \in Seq(Nat) /\ Len(r.got \o answer) = Len(r.got) + n
    <3>1. ASSUME NEW x \in Seq(Nat), NEW y \in Seq(Nat)
          PROVE  x \o y \in Seq(Nat) /\ Len(x \o y) = Len(x) + Len(y)
      OBVIOUS
    <3>2. QED
      BY <1>2, <1>7, <3>1, Zenon
  <2>2. ASSUME NEW i \in DOMAIN (r.got \o answer)
        PROVE  \/ i \in DOMAIN r.got /\ (r.got \o answer)[i] = r.got[i]
               \/ i - Len(r.got) \in 1 .. n /\ (r.got \o answer)[i] = answer[i - Len(r.got)]
    <3>1. i \in 1 .. Len(r.got) + n
      BY <2>1
    <3>2. QED
      BY <1>1, <1>2, <1>7, <3>1
  <2>3. QED
    BY <2>1, <2>2
<1>9. /\ s \in ClientType /\ s.pc = r.pc /\ s.got = r.got \o answer /\ s.n = r.n /\ s.count = r.count /\ s.data = r.data
      /\ s.path = r.path /\ s.to = r.to /\ s.op = r.op /\ s.ino = r.ino /\ s.off = r.off /\ s.target = r.target
  BY <1>8, Zenon DEF ClientOK, ClientType
<1> HIDE DEF s
<1>10. ClientOK(s)
  BY <1>1, <1>8, <1>9 DEF ClientOK
<1>11. Honest(s)
  <2>1. ASSUME NEW i \in DOMAIN s.got
        PROVE  s.got[i] = 0 \/ <<s.ino, (s.off + i - 1) % FileLimit, s.got[i]>> \in Folded(wrote) \/ s.op \in Copies
    <3>1. CASE i \in DOMAIN r.got /\ s.got[i] = r.got[i]
      BY <1>9, <3>1 DEF HonestIn, Honest
    <3>2. CASE i - Len(r.got) \in 1 .. n /\ s.got[i] = answer[i - Len(r.got)]
      <4>1. i \in Nat
        BY <1>8, <1>9
      <4>2. pos + (i - Len(r.got)) - 1 = s.off + i - 1
        BY <1>2, <1>4, <1>9, <4>1
      <4>3. QED
        BY <1>6, <1>9, <3>2, <4>2
    <3>3. QED
      BY <1>8, <1>9, <3>1, <3>2, Zenon
  <2>2. QED
    BY <2>1 DEF HonestIn, Honest
<1>12. QED
  BY <1>9, <1>10, <1>11, Zenon DEF s, answer, n, o, b, pos

\* A worker that dies loses blocks only, and ends calls.
LEMMA DiesOK ==
    ASSUME ClientsOK, Storage, NEW w \in Workers, NEW c \in Clients, NEW s, ClientOK(s), Honest(s),
           Dies(w, c, s), wrote' = wrote, free' = free
    PROVE  ClientsOK' /\ Storage'
<1>1. /\ cl' = [d \in Clients |-> IF d = c THEN s
                                  ELSE IF cl[d].pc = "wrep" /\ cl[d].target = w THEN WriteEnds(cl[d]) ELSE cl[d]]
      /\ late' \subseteq late /\ store' = [store EXCEPT ![w] = EmptyMap]
  BY DEF Dies
<1>2. ClientsOK'
  <2>1. ASSUME NEW d \in Clients PROVE ClientOK(cl'[d]) /\ Honest(cl'[d])
    <3>1. ClientOK(cl[d]) /\ Honest(cl[d])
      BY DEF ClientsOK
    <3>2. cl'[d] \in {s, cl[d]} \/ (cl[d].pc = "wrep" /\ cl'[d] = WriteEnds(cl[d]))
      BY <1>1
    <3>3. ASSUME cl[d].pc = "wrep" PROVE ClientOK(WriteEnds(cl[d])) /\ Honest(WriteEnds(cl[d]))
      <4>1. SameCall(cl[d], cl[d]) /\ cl[d].count <= Len(cl[d].data) /\ cl[d].pc \in Busy
        BY <3>1, <3>3 DEF SameCall, ClientOK, Busy
      <4>2. QED
        BY <3>1, <4>1, WriteGoesOnOK
    <3>4. QED
      BY <3>1, <3>2, <3>3, Zenon
  <2>2. ASSUME NEW d \in Clients PROVE Honest(cl[d])'
    BY <2>1 DEF Honest
  <2>3. cl' = [d \in Clients |-> cl'[d]]
    BY <1>1
  <2>4. QED
    BY <1>1, <2>1, <2>2, <2>3 DEF ClientsOK
<1>3. BlocksOK(EmptyMap) /\ Genuine(EmptyMap)' /\ Bytes(EmptyMap) <= Capacity
  <2>1. DOMAIN EmptyMap = {} /\ EmptyMap = [k \in DOMAIN EmptyMap |-> EmptyMap[k]]
    BY DEF EmptyMap
  <2>2. QED
    BY <2>1, NoBytes, FS_EmptySet, CapacityAssumption DEF BlocksOK, Genuine
<1>4. Storage'
  <2>1. ASSUME NEW x \in Workers PROVE BlocksOK(store'[x]) /\ Genuine(store[x])' /\ Bytes(store'[x]) <= Capacity
    <3>1. store'[x] = EmptyMap \/ store'[x] = store[x]
      BY <1>1 DEF Storage
    <3>2. QED
      BY <1>3, <3>1 DEF Storage, Genuine
  <2>2. store' = [x \in Workers |-> store'[x]]
    BY <1>1 DEF Storage
  <2>3. QED
    BY <2>1, <2>2 DEF Storage
<1>5. QED
  BY <1>2, <1>4

\* ReadBlk: the bytes a worker answers with are the file's, for the block is the one of
\* this inode at this position and the worker holds genuine bytes only.
LEMMA ReadBlkOK ==
    ASSUME Inv, NEW c \in Clients, ReadBlk(c)
    PROVE  Inv'
<1> DEFINE r == cl[c]
           b == BlockAt(r.ino, ReadPos(r))
           o == InBlock(ReadPos(r))
           n == Chunk(ReadPos(r), r.n - Len(r.got))
           bytes == store[r.target][b]
           s == [r EXCEPT !.got = r.got \o [i \in 1 .. n |-> IF o + i <= Len(bytes) THEN bytes[o + i] ELSE 0]]
<1>1. ClientOK(r) /\ Honest(r) /\ r.pc = "rblk"
  BY DEF Inv, ClientsOK, ReadBlk
<1>2. /\ UNCHANGED <<inodeVars, blockVars, free, calls, losses>> /\ wrote' = wrote
      /\ Namespace' /\ Locations' /\ Counters'
  BY NamespaceKept, LocationsKept, CountersKept, Zenon DEF Inv, ReadBlk
<1>3. ASSUME NEW t, Becomes(c, t), late' = late, ClientOK(t), Honest(t) PROVE ClientsOK'
  <2>1. HonestIn(t, wrote')
    BY <1>2, <1>3 DEF HonestIn, Honest
  <2>2. QED
    BY <1>2, <1>3, <2>1, ClientStep DEF Inv, Becomes, ClientsOK
<1>4. ClientOK(ReadEnds(r)) /\ Honest(ReadEnds(r))
  BY <1>1, ReadEndsOK
<1>5. CASE b \notin DOMAIN store[r.target]
  <2>1. Becomes(c, ReadEnds(r)) /\ store' = store /\ late' = late
    BY <1>5, Zenon DEF ReadBlk
  <2>2. QED
    BY <1>2, <1>3, <1>4, <2>1, StorageKept DEF Inv
<1>6. CASE b \in DOMAIN store[r.target] /\ o > Len(bytes)
  <2>1. Dies(r.target, c, ReadEnds(r))
    BY <1>6, Zenon DEF ReadBlk
  <2>2. r.target \in Workers
    BY <1>1 DEF ClientOK
  <2>3. QED
    BY <1>2, <1>4, <2>1, <2>2, DiesOK DEF Inv
<1>7. CASE b \in DOMAIN store[r.target] /\ ~(o > Len(bytes))
  <2>1. store' = store /\ late' = late /\ Becomes(c, IF Len(s.got) = r.n THEN ReadEnds(s) ELSE [s EXCEPT !.pc = "rloc"])
    BY <1>7, Zenon DEF ReadBlk
  <2>2. ClientOK(s) /\ Honest(s) /\ s.pc = "rblk"
    BY <1>1, <1>7, AnswerOK, Zenon
  <2> HIDE DEF s
  <2> DEFINE u == [s EXCEPT !.pc = "rloc"]
  <2>3. ClientOK(ReadEnds(s)) /\ Honest(ReadEnds(s))
    BY <2>2, ReadEndsOK
  <2>4. /\ u \in ClientType /\ u.pc = "rloc" /\ u.got = s.got /\ u.count = s.count /\ u.n = s.n
        /\ u.path = s.path /\ u.to = s.to /\ u.op = s.op /\ u.data = s.data /\ u.ino = s.ino /\ u.off = s.off
    BY <2>2, Zenon DEF ClientOK, ClientType, Pcs
  <2>5. ClientOK(u) /\ Honest(u)
    <3> HIDE DEF u
    <3>1. QED
      BY <2>2, <2>4 DEF ClientOK, HonestIn, Honest
  <2>6. QED
    BY <1>2, <1>3, <2>1, <2>3, <2>5, StorageKept DEF Inv
<1>8. QED
  BY <1>5, <1>6, <1>7

\* WriteBlk: what the worker stores is what the client sends, at its position.
LEMMA WriteBlkOK ==
    ASSUME Inv, NEW c \in Clients, WriteBlk(c)
    PROVE  Inv'
<1> DEFINE r == cl[c]
           sent == [r EXCEPT !.pc = "wrep"]
<1>1. ClientOK(r) /\ r.pc = "wblk" /\ r.target \in Workers /\ r.pc \in Busy /\ r.count <= Len(r.data)
  BY DEF Inv, ClientsOK, WriteBlk, ClientOK, Busy
<1>2. UNCHANGED <<inodeVars, blockVars, calls, losses, free, late>>
  BY Zenon DEF WriteBlk
<1>3. PICK blocks \in Ensured(r.target, Block(r), WriteLen(r)) :
         WriteBlock(r, blocks) /\ Becomes(c, IF Refused(r, blocks) THEN WriteEnds(r) ELSE sent)
  BY Zenon DEF WriteBlk
<1>4. Storage' /\ wrote \subseteq wrote'
  BY <1>1, <1>2, <1>3, WriteBlockOK DEF Inv
<1>5. /\ ClientOK(WriteEnds(r)) /\ HonestIn(WriteEnds(r), wrote')
      /\ ClientOK(sent) /\ HonestIn(sent, wrote')
  <2>1. SameCall(r, r)
    BY <1>1 DEF SameCall, ClientOK
  <2>2. ClientOK(WriteEnds(r)) /\ Honest(WriteEnds(r))
    BY <1>1, <2>1, WriteGoesOnOK
  <2>3. SameCall(r, sent) /\ sent.pc = "wrep" /\ sent.target = r.target /\ sent.count = r.count
    BY <1>1, Zenon DEF SameCall, ClientOK, ClientType, Pcs
  <2> HIDE DEF sent
  <2>4. sent.count <= Len(sent.data) /\ sent.pc \in Busy \ {"mv"}
    BY <1>1, <2>3 DEF SameCall, Busy
  <2>5. ClientOK(sent) /\ Honest(sent)
    BY <1>1, <2>3, <2>4, GoesOn
  <2>6. Folded(wrote) \subseteq Folded(wrote')
    BY <1>4, FoldedMore
  <2>7. QED
    BY <2>2, <2>5, <2>6 DEF HonestIn, Honest
<1>6. ClientsOK'
  BY <1>2, <1>3, <1>4, <1>5, ClientStep DEF Inv, Becomes, ClientsOK
<1>7. QED
  BY <1>2, <1>4, <1>6, NamespaceKept, LocationsKept, CountersKept DEF Inv

\* A client whose write is reported goes on behind it.
LEMMA WrittenOK ==
    ASSUME NEW r, ClientOK(r), r.pc = "wrep"
    PROVE  LET t == [r EXCEPT !.count = @ + WriteLen(r)]
           IN ClientOK(WriteGoesOn(t)) /\ Honest(WriteGoesOn(t))
<1> DEFINE t == [r EXCEPT !.count = @ + WriteLen(r)]
<1>1. WriteLen(r) \in Nat /\ r.count \in Nat /\ r.count + WriteLen(r) \in Nat /\ r.count + WriteLen(r) <= Len(r.data)
  BY PieceOK, BlockSizeAssumption
<1>2. SameCall(r, t) /\ t.count = r.count + WriteLen(r)
  BY <1>1, Zenon DEF SameCall, ClientOK, ClientType
<1> HIDE DEF t
<1>3. t.count <= Len(t.data) /\ r.pc \in Busy
  BY <1>1, <1>2 DEF SameCall, Busy
<1>4. ClientOK(WriteGoesOn(t)) /\ Honest(WriteGoesOn(t))
  BY <1>2, <1>3, WriteGoesOnOK
<1>5. QED
  BY <1>4 DEF t

\* WriteReport: the worker is listed for the block.
LEMMA WriteReportOK ==
    ASSUME Inv, NEW c \in Clients, WriteReport(c)
    PROVE  Inv'
<1> DEFINE r == cl[c]
           s == WriteGoesOn([r EXCEPT !.count = @ + WriteLen(r)])
<1>1. ClientOK(r) /\ r.pc = "wrep" /\ r.target \in Workers
  BY DEF Inv, ClientsOK, WriteReport, ClientOK
<1>2. /\ AddBlockLocation(Block(r), r.target, r.target, "mem") /\ cl' = [cl EXCEPT ![c] = s]
      /\ UNCHANGED <<inodeVars, store, wrote, calls, losses, free, late>>
  BY Zenon DEF WriteReport, Quiet, Becomes
<1>3. ClientOK(s) /\ Honest(s)
  BY <1>1, WrittenOK
<1>4. HonestIn(s, wrote') /\ wrote \subseteq wrote' /\ \A x \in late' : ClientOK(x)
  BY <1>2, <1>3 DEF HonestIn, Honest, Inv, ClientsOK
<1> HIDE DEF s
<1>5. ClientsOK'
  BY <1>2, <1>3, <1>4, ClientStep, Zenon DEF Inv
<1>6. Locations'
  BY <1>1, <1>2, AddedLocation DEF Inv
<1>7. QED
  BY <1>2, <1>5, <1>6, StorageKept, NamespaceKept, CountersKept DEF Inv

-----------------------------------------------------------------------------
(* The name space *)

\* A name for a new inode: its id was never given before.
LEMMA CreatedName ==
    ASSUME Namespace, NEW p \in Paths, p \notin DOMAIN names,
           names' = Put(names, p, nextIno), sizes' = Put(sizes, nextIno, 0), nextIno' = nextIno + 1
    PROVE  Namespace'
<1>1. /\ DOMAIN names' = DOMAIN names \cup {p} /\ names'[p] = nextIno /\ \A q \in DOMAIN names : names'[q] = names[q]
      /\ DOMAIN sizes' = DOMAIN sizes \cup {nextIno} /\ sizes'[nextIno] = 0
      /\ \A i \in DOMAIN sizes : i # nextIno => sizes'[i] = sizes[i]
  BY DEF Put
<1>2. \A q \in DOMAIN names : names[q] \in 2 .. nextIno - 1 /\ names[q] # nextIno
  BY DEF Namespace
<1>3. names' \in [DOMAIN names' -> 2 .. nextIno' - 1]
  <2>1. names' = [q \in DOMAIN names' |-> names'[q]]
    BY DEF Put
  <2>2. \A q \in DOMAIN names' : names'[q] \in 2 .. nextIno' - 1
    BY <1>1, <1>2 DEF Namespace
  <2>3. QED
    BY <2>1, <2>2
<1>4. DOMAIN sizes' = {names'[q] : q \in DOMAIN names'}
  BY <1>1 DEF Namespace
<1>5. \A i \in DOMAIN sizes' : sizes'[i] \in Nat
  BY <1>1 DEF Namespace
<1>6. \A q, s \in DOMAIN names' : names'[q] = names'[s] => q = s
  BY <1>1, <1>2 DEF Namespace
<1>7. QED
  BY <1>1, <1>3, <1>4, <1>5, <1>6 DEF Namespace

\* A new size is for an inode that has a name.
LEMMA ResizedFile ==
    ASSUME Namespace, NEW i \in DOMAIN sizes, NEW n \in Nat, sizes' = [sizes EXCEPT ![i] = n],
           UNCHANGED <<names, nextIno>>
    PROVE  Namespace'
<1>1. DOMAIN sizes' = DOMAIN sizes /\ \A j \in DOMAIN sizes : sizes'[j] \in Nat
  BY DEF Namespace
<1>2. QED
  BY <1>1 DEF Namespace

\* A name goes together with the size of its inode.
LEMMA DeletedName ==
    ASSUME Namespace, NEW p \in DOMAIN names, names' = Del(names, p), sizes' = Del(sizes, names[p]),
           nextIno' = nextIno
    PROVE  Namespace'
<1>1. /\ DOMAIN names' = DOMAIN names \ {p} /\ \A q \in DOMAIN names' : names'[q] = names[q]
      /\ DOMAIN sizes' = DOMAIN sizes \ {names[p]} /\ \A i \in DOMAIN sizes' : sizes'[i] = sizes[i]
  BY DEF Del
<1>2. names' \in [DOMAIN names' -> 2 .. nextIno' - 1]
  BY <1>1 DEF Namespace, Del
<1>3. DOMAIN sizes' = {names'[q] : q \in DOMAIN names'}
  <2>1. ASSUME NEW q \in DOMAIN names' PROVE names'[q] \in DOMAIN sizes'
    BY <1>1, <2>1 DEF Namespace
  <2>2. ASSUME NEW i \in DOMAIN sizes' PROVE \E q \in DOMAIN names' : i = names'[q]
    BY <1>1, <2>2 DEF Namespace
  <2>3. QED
    BY <2>1, <2>2
<1>4. QED
  BY <1>1, <1>2, <1>3 DEF Namespace

\* A name moves with its inode.
LEMMA RenamedFile ==
    ASSUME Namespace, NEW p \in DOMAIN names, NEW q \in Paths, q \notin DOMAIN names,
           names' = Put(Del(names, p), q, names[p]), UNCHANGED <<sizes, nextIno>>
    PROVE  Namespace'
<1>1. /\ DOMAIN names' = (DOMAIN names \ {p}) \cup {q} /\ names'[q] = names[p]
      /\ \A x \in DOMAIN names \ {p} : names'[x] = names[x]
  BY DEF Put, Del
<1>2. names' \in [DOMAIN names' -> 2 .. nextIno' - 1]
  <2>1. names' = [x \in DOMAIN names' |-> names'[x]]
    BY DEF Put
  <2>2. \A x \in DOMAIN names' : names'[x] \in 2 .. nextIno' - 1
    BY <1>1 DEF Namespace
  <2>3. QED
    BY <2>1, <2>2
<1>3. DOMAIN sizes' = {names'[x] : x \in DOMAIN names'}
  <2>1. ASSUME NEW x \in DOMAIN names' PROVE names'[x] \in DOMAIN sizes
    BY <1>1, <2>1 DEF Namespace
  <2>2. ASSUME NEW i \in DOMAIN sizes PROVE \E x \in DOMAIN names' : i = names'[x]
    BY <1>1, <2>2 DEF Namespace
  <2>3. QED
    BY <2>1, <2>2
<1>4. \A x, y \in DOMAIN names' : names'[x] = names'[y] => x = y
  BY <1>1 DEF Namespace
<1>5. QED
  BY <1>1, <1>2, <1>3, <1>4 DEF Namespace

\* A step of a client that leaves blocks, their locations and other calls alone
LEMMA MasterStep ==
    ASSUME Inv, NEW c \in Clients, NEW s, Becomes(c, s), ClientOK(s), Honest(s), Namespace',
           UNCHANGED <<blockVars, store, wrote>>, Quiet
    PROVE  Inv'
<1>1. HonestIn(s, wrote')
  BY DEF Honest
<1>2. ClientsOK'
  BY <1>1, ClientStep DEF Inv, Becomes, Quiet, ClientsOK
<1>3. QED
  BY <1>2, StorageKept, LocationsKept, CountersKept DEF Inv, Quiet

\* Create: the name is new, and so is its inode.
LEMMA CreateOK ==
    ASSUME Inv, NEW c \in Clients, Create(c)
    PROVE  Inv'
<1> DEFINE r == cl[c]
           p == Target(r)
<1>1. ClientOK(r) /\ Honest(r) /\ r.pc = "create" /\ r.pc # "idle" /\ r.pc \in Busy
  BY Zenon DEF Inv, ClientsOK, Create, Busy
<1>2. UNCHANGED <<blockVars, store, wrote>> /\ Quiet
  BY Zenon DEF Create
<1>3. CASE p \in DOMAIN names
  <2>1. Becomes(c, Fails(r)) /\ UNCHANGED inodeVars
    BY <1>3, Zenon DEF Create
  <2>2. QED
    BY <1>1, <1>2, <2>1, EndsOK, MasterStep, NamespaceKept, Zenon DEF Inv
<1>4. CASE p \notin DOMAIN names
  <2>1. PICK w \in SelectWorkerForWrite :
           LET s == [r EXCEPT !.ino = nextIno, !.assigned = w]
           IN Becomes(c, CASE r.op = "touch" -> [s EXCEPT !.pc = "complete"]
                           [] r.op = "fcreate" -> [s EXCEPT !.pc = "cstat"]
                           [] OTHER -> WriteGoesOn(s))
    BY <1>4, Zenon DEF Create
  <2>2. p \in Paths /\ nextIno \in Nat /\ w \in Workers \cup {None}
    <3>1. p \in Paths
      BY <1>1 DEF ClientOK, Target, Copies
    <3>2. w \in Workers \cup {None}
      BY DEF SelectWorkerForWrite
    <3>3. QED
      BY <3>1, <3>2 DEF Inv, Namespace
  <2>3. Namespace'
    <3>1. names' = Put(names, p, nextIno) /\ sizes' = Put(sizes, nextIno, 0) /\ nextIno' = nextIno + 1
      BY <1>4, Zenon DEF Create
    <3>2. QED
      BY <1>4, <2>2, <3>1, CreatedName DEF Inv
  <2> DEFINE s == [r EXCEPT !.ino = nextIno, !.assigned = w]
  <2>4. SameCall(r, s) /\ s.count = r.count
    BY <1>1, <2>2, Zenon DEF SameCall, ClientOK, ClientType
  <2> HIDE DEF s
  <2>5. s.count <= Len(s.data)
    BY <1>1, <2>4 DEF SameCall, ClientOK
  <2>6. ClientOK(WriteGoesOn(s)) /\ Honest(WriteGoesOn(s))
    BY <1>1, <2>4, <2>5, WriteGoesOnOK
  <2>7. ASSUME NEW l \in {"complete", "cstat"}
        PROVE  ClientOK([s EXCEPT !.pc = l]) /\ Honest([s EXCEPT !.pc = l])
    <3> DEFINE t == [s EXCEPT !.pc = l]
    <3>1. SameCall(r, t) /\ t.count = s.count /\ t.pc = l /\ t.data = s.data
      BY <2>4, <2>7 DEF SameCall, ClientType, Pcs
    <3> HIDE DEF t
    <3>2. t.count <= Len(t.data) /\ t.pc \in Busy \ {"mv"} /\ t.pc \notin {"wblk", "wrep"}
      BY <2>5, <2>7, <3>1 DEF Busy
    <3>3. ClientOK(t) /\ Honest(t)
      BY <1>1, <3>1, <3>2, GoesOn
    <3>4. QED
      BY <3>3 DEF t
  <2>8. \/ Becomes(c, [s EXCEPT !.pc = "complete"]) \/ Becomes(c, [s EXCEPT !.pc = "cstat"])
        \/ Becomes(c, WriteGoesOn(s))
    <3>1. CASE r.op = "touch"
      BY <2>1, <3>1 DEF s
    <3>2. CASE r.op = "fcreate"
      BY <2>1, <3>2 DEF s
    <3>3. CASE r.op \notin {"touch", "fcreate"}
      BY <2>1, <3>3 DEF s
    <3>4. QED
      BY <3>1, <3>2, <3>3
  <2>9. QED
    BY <1>2, <2>3, <2>6, <2>7, <2>8, MasterStep
<1>5. QED
  BY <1>3, <1>4

\* CompleteFile, Delete, UpdateSize and Rename, on whatever has the id or the name by then
LEMMA NameStepOK ==
    ASSUME Inv, NEW c \in Clients, Complete(c) \/ DeleteName(c) \/ UpdateSize(c) \/ RenameFile(c)
    PROVE  Inv'
<1> DEFINE r == cl[c]
<1>1. ClientOK(r) /\ Honest(r) /\ r.pc \in {"complete", "blocks", "mv"} /\ r.pc # "idle"
  BY DEF Inv, ClientsOK, Complete, DeleteName, UpdateSize, RenameFile
<1>2. UNCHANGED <<blockVars, store, wrote>> /\ Quiet
  BY Zenon DEF Complete, DeleteName, UpdateSize, RenameFile
<1>3. r.count \in Nat /\ r.size \in Nat
  BY <1>1 DEF ClientOK, ClientType
<1>4. Becomes(c, Fails(r)) \/ Becomes(c, [r EXCEPT !.pc = "ret"])
  BY Zenon DEF Complete, DeleteName, UpdateSize, RenameFile
<1>5. Namespace'
  <2>1. CASE UNCHANGED inodeVars
    BY <2>1, NamespaceKept DEF Inv
  <2>2. CASE Complete(c) /\ r.ino \in DOMAIN sizes
    BY <1>3, <2>2, ResizedFile DEF Inv, Complete
  <2>3. CASE UpdateSize(c) /\ r.ino \in DOMAIN sizes
    BY <1>3, <2>3, ResizedFile DEF Inv, UpdateSize
  <2>4. CASE DeleteName(c) /\ r.path \in DOMAIN names
    BY <2>4, DeletedName DEF Inv, DeleteName
  <2>5. CASE RenameFile(c) /\ r.path \in DOMAIN names /\ r.to \notin DOMAIN names
    <3>1. r.to \in Paths
      BY <1>1, <2>5 DEF ClientOK, RenameFile
    <3>2. QED
      BY <2>5, <3>1, RenamedFile DEF Inv, RenameFile
  <2>6. QED
    BY <2>1, <2>2, <2>3, <2>4, <2>5 DEF Complete, DeleteName, UpdateSize, RenameFile, inodeVars
<1>6. QED
  BY <1>1, <1>2, <1>4, <1>5, EndsOK, MasterStep

\* DropBlock: a block less to drop, and no location of it.
LEMMA DropBlockOK ==
    ASSUME Inv, NEW c \in Clients, DropBlock(c)
    PROVE  Inv'
<1> DEFINE r == cl[c]
<1>1. ClientOK(r) /\ r.pc = "blocks" /\ r.pc \in Busy
  BY DEF Inv, ClientsOK, DropBlock, Busy
<1>2. UNCHANGED <<inodeVars, store, wrote>> /\ Quiet
  BY Zenon DEF DropBlock
<1>3. PICK i \in r.todo : RemoveBlock(MakeBlockId(r.ino, i)) /\ Becomes(c, [r EXCEPT !.todo = @ \ {i}])
  BY Zenon DEF DropBlock
<1> DEFINE s == [r EXCEPT !.todo = @ \ {i}]
<1>4. SameCall(r, s) /\ s.count = r.count /\ s.pc = r.pc
  BY <1>1, Zenon DEF SameCall, ClientOK, ClientType
<1> HIDE DEF s
<1>5. s.count <= Len(s.data) /\ s.pc \in Busy \ {"mv"} /\ s.pc \notin {"wblk", "wrep"}
  BY <1>1, <1>4 DEF SameCall, ClientOK, Busy
<1>6. ClientOK(s) /\ Honest(s)
  BY <1>1, <1>4, <1>5, GoesOn
<1>7. ClientsOK'
  <2>1. HonestIn(s, wrote')
    BY <1>2, <1>6 DEF Honest
  <2>2. QED
    BY <1>2, <1>3, <1>6, <2>1, ClientStep, Zenon DEF Inv, Becomes, Quiet, ClientsOK, s
<1>8. Locations'
  BY <1>3 DEF Inv, Locations, RemoveBlock, Del
<1>9. QED
  BY <1>2, <1>7, <1>8, StorageKept, NamespaceKept, CountersKept DEF Inv, Quiet

\* Return: the client is idle again.
LEMMA ReturnOK ==
    ASSUME Inv, NEW c \in Clients, Return(c)
    PROVE  Inv'
<1>1. UNCHANGED <<inodeVars, blockVars, store, free, late, calls, losses, wrote>> /\ cl' = [cl EXCEPT ![c] = Idle]
  BY DEF Return
<1>2. HonestIn(Idle, wrote') /\ ClientOK(Idle)
  BY <1>1, IdleOK DEF Honest
<1>3. ClientsOK'
  BY <1>1, <1>2, ClientStep DEF Inv, ClientsOK
<1>4. QED
  BY <1>1, <1>3, StorageKept, NamespaceKept, LocationsKept, CountersKept DEF Inv

-----------------------------------------------------------------------------
(* What nobody asked for *)

\* A failure counts as a loss.
LEMMA LossCounts ==
    ASSUME Counters, Loss
    PROVE  Counters' /\ free' = free
BY BoundsAssumption DEF Counters, Loss

\* A step of a client that a failed call makes
LEMMA FailureStep ==
    ASSUME Inv, NEW c \in Clients, NEW s, Becomes(c, s), ClientOK(s), Honest(s), Loss,
           UNCHANGED <<inodeVars, blockVars, store, wrote>>, \A r \in late' : ClientOK(r)
    PROVE  Inv'
<1>1. HonestIn(s, wrote')
  BY DEF Honest
<1>2. ClientsOK'
  BY <1>1, ClientStep, Zenon DEF Inv, Becomes
<1>3. Counters' /\ free' = free
  BY LossCounts DEF Inv
<1>4. QED
  BY <1>2, <1>3, StorageKept, LocationsKept, NamespaceKept DEF Inv

\* CallFails: a call that fails ends with what it has, or ends the command.
LEMMA CallFailsOK ==
    ASSUME Inv, NEW c \in Clients, CallFails(c)
    PROVE  Inv'
<1> DEFINE r == cl[c]
<1>1. ClientOK(r) /\ Honest(r)
  BY DEF Inv, ClientsOK
<1>2. Loss /\ UNCHANGED <<inodeVars, blockVars, store, wrote>> /\ \A x \in late' : ClientOK(x)
  BY DEF CallFails, Inv, ClientsOK
<1>3. CASE r.pc = "winfo" /\ Becomes(c, [r EXCEPT !.pc = "create"])
  <2> DEFINE t == [r EXCEPT !.pc = "create"]
  <2>1. SameCall(r, t) /\ t.count = r.count /\ t.pc = "create" /\ r.pc \in Busy
    BY <1>1, <1>3, Zenon DEF SameCall, ClientOK, ClientType, Pcs, Busy
  <2> HIDE DEF t
  <2>2. t.count <= Len(t.data) /\ t.pc \in Busy \ {"mv"}
    BY <1>1, <2>1 DEF SameCall, ClientOK, Busy
  <2>3. ClientOK(t) /\ Honest(t)
    BY <1>1, <2>1, <2>2, GoesOn
  <2>4. QED
    BY <1>2, <1>3, <2>3, FailureStep DEF t
<1>4. CASE r.pc = "rblk" /\ Becomes(c, ReadEnds(r))
  BY <1>1, <1>2, <1>4, ReadEndsOK, FailureStep
<1>5. CASE r.pc = "wblk" /\ Becomes(c, WriteEnds(r))
  <2>1. SameCall(r, r) /\ r.count <= Len(r.data) /\ r.pc \in Busy
    BY <1>1, <1>5 DEF SameCall, ClientOK, Busy
  <2>2. ClientOK(WriteEnds(r)) /\ Honest(WriteEnds(r))
    BY <1>1, <2>1, WriteGoesOnOK
  <2>3. QED
    BY <1>2, <1>5, <2>2, FailureStep
<1>6. CASE r.pc # "idle" /\ (Becomes(c, Fails(r)) \/ Becomes(c, [r EXCEPT !.pc = "ret"]))
  BY <1>1, <1>2, <1>6, EndsOK, FailureStep
<1>7. QED
  BY <1>3, <1>4, <1>5, <1>6 DEF CallFails

\* ReportFails: the worker has the bytes and the master does not know.
LEMMA ReportFailsOK ==
    ASSUME Inv, NEW c \in Clients, ReportFails(c)
    PROVE  Inv'
<1> DEFINE r == cl[c]
           s == WriteGoesOn([r EXCEPT !.count = @ + WriteLen(r)])
<1>1. ClientOK(r) /\ r.pc = "wrep"
  BY DEF Inv, ClientsOK, ReportFails
<1>2. Loss /\ UNCHANGED <<inodeVars, blockVars, store, wrote>> /\ \A x \in late' : ClientOK(x)
  BY DEF ReportFails, Inv, ClientsOK
<1>3. Becomes(c, s)
  BY Zenon DEF ReportFails
<1>4. ClientOK(s) /\ Honest(s)
  BY <1>1, WrittenOK
<1> HIDE DEF s
<1>5. QED
  BY <1>2, <1>3, <1>4, FailureStep

\* DeadlinePasses: the client goes on and its request is still on its way.
LEMMA DeadlinePassesOK ==
    ASSUME Inv, NEW c \in Clients, DeadlinePasses(c)
    PROVE  Inv'
<1> DEFINE r == cl[c]
<1>1. ClientOK(r) /\ r.pc \in {"wblk", "wrep"}
  BY DEF Inv, ClientsOK, DeadlinePasses
<1>2. Loss /\ UNCHANGED <<inodeVars, blockVars, store, wrote>> /\ Becomes(c, WriteEnds(r)) /\ late' = late \cup {r}
  BY DEF DeadlinePasses
<1>3. \A x \in late' : ClientOK(x)
  BY <1>1, <1>2 DEF Inv, ClientsOK
<1>4. SameCall(r, r) /\ r.count <= Len(r.data) /\ r.pc \in Busy
  BY <1>1 DEF SameCall, ClientOK, Busy
<1>5. ClientOK(WriteEnds(r)) /\ Honest(WriteEnds(r))
  BY <1>1, <1>4, WriteGoesOnOK
<1>6. QED
  BY <1>2, <1>3, <1>5, FailureStep

\* The worker carries out a call whose client has given up.
LEMMA LateWriteOK ==
    ASSUME Inv, NEW r \in late, LateWrite(r)
    PROVE  Inv'
<1> DEFINE t == [r EXCEPT !.pc = "wrep"]
<1>1. ClientOK(r) /\ r.pc = "wblk" /\ r.target \in Workers
  BY DEF Inv, ClientsOK, LateWrite, ClientOK
<1>2. UNCHANGED <<inodeVars, blockVars, free, cl, calls, losses>>
  BY Zenon DEF LateWrite
<1>3. PICK blocks \in Ensured(r.target, Block(r), WriteLen(r)) :
         WriteBlock(r, blocks) /\ late' = (late \ {r}) \cup (IF Refused(r, blocks) THEN {} ELSE {t})
  BY Zenon DEF LateWrite
<1>4. Storage' /\ wrote \subseteq wrote'
  BY <1>1, <1>2, <1>3, WriteBlockOK DEF Inv
<1>5. ClientOK(t)
  <2>1. SameCall(r, t) /\ t.pc = "wrep" /\ t.target = r.target /\ t.count = r.count
    BY <1>1, Zenon DEF SameCall, ClientOK, ClientType, Pcs
  <2> HIDE DEF t
  <2>2. t.count <= Len(t.data) /\ t.pc \in Busy \ {"mv"} /\ r.pc \in Busy
    BY <1>1, <2>1 DEF SameCall, ClientOK, Busy
  <2>3. QED
    BY <1>1, <2>1, <2>2, GoesOn
<1> HIDE DEF t
<1>6. ClientsOK'
  <2>1. Folded(wrote) \subseteq Folded(wrote')
    BY <1>4, FoldedMore
  <2>2. QED
    BY <1>2, <1>3, <1>5, <2>1 DEF Inv, ClientsOK, Honest, HonestIn
<1>7. QED
  BY <1>2, <1>4, <1>6, NamespaceKept, LocationsKept, CountersKept DEF Inv

\* LateReport: a worker is listed for a block after the client gave up.
LEMMA LateReportOK ==
    ASSUME Inv, NEW r \in late, LateReport(r)
    PROVE  Inv'
<1>1. ClientOK(r) /\ r.target \in Workers
  BY DEF Inv, ClientsOK, LateReport, ClientOK
<1>2. /\ UNCHANGED <<inodeVars, store, free, cl, calls, losses, wrote>> /\ late' = late \ {r}
      /\ AddBlockLocation(Block(r), r.target, r.target, "mem")
  BY Zenon DEF LateReport
<1>3. ClientsOK'
  BY <1>2 DEF Inv, ClientsOK, Honest
<1>4. Locations'
  BY <1>1, <1>2, AddedLocation DEF Inv
<1>5. QED
  BY <1>2, <1>3, <1>4, StorageKept, NamespaceKept, CountersKept DEF Inv

\* Evict: blocks go, none changes.
LEMMA EvictOK ==
    ASSUME Inv, NEW w \in Workers, Evict(w)
    PROVE  Inv'
<1>1. Loss /\ UNCHANGED <<inodeVars, blockVars, cl, late, wrote>>
  BY Zenon DEF Evict
<1>2. PICK b \in DOMAIN store[w] : store' = [store EXCEPT ![w] = Del(store[w], b)]
  BY Zenon DEF Evict
<1> DEFINE e == Del(store[w], b)
<1>3. BlocksOK(e) /\ Bytes(e) <= Capacity /\ Genuine(e)
  <2>1. BlocksOK(store[w]) /\ Genuine(store[w]) /\ Bytes(store[w]) <= Capacity
    BY DEF Inv, Storage
  <2>2. BlocksOK(e) /\ Bytes(e) <= Bytes(store[w])
    BY <2>1, FewerBytes DEF Del
  <2>3. Bytes(e) \in Nat /\ Bytes(store[w]) \in Nat
    BY <2>1, <2>2, BytesFinite
  <2>4. Genuine(e)
    BY <2>1 DEF Genuine, Del
  <2>5. QED
    BY <2>1, <2>2, <2>3, <2>4, CapacityAssumption
<1>4. Counters' /\ free' = free
  BY <1>1, LossCounts DEF Inv
<1>5. Storage'
  <2>1. ASSUME NEW x \in Workers PROVE BlocksOK(store'[x]) /\ Genuine(store[x])' /\ Bytes(store'[x]) <= Capacity
    <3>1. store'[x] = e \/ store'[x] = store[x]
      BY <1>2 DEF Inv, Storage
    <3> HIDE DEF e
    <3>2. QED
      BY <1>1, <1>3, <3>1 DEF Inv, Storage, Genuine
  <2>2. store' = [x \in Workers |-> store'[x]]
    BY <1>2 DEF Inv, Storage
  <2>3. QED
    BY <1>4, <2>1, <2>2 DEF Inv, Storage
<1>6. ClientsOK'
  BY <1>1 DEF Inv, ClientsOK, Honest
<1>7. QED
  BY <1>1, <1>4, <1>5, <1>6, NamespaceKept, LocationsKept DEF Inv

\* Heartbeat: the free space a worker reports is within its capacity.
LEMMA HeartbeatOK ==
    ASSUME Inv, NEW w \in Workers, Heartbeat(w)
    PROVE  Inv'
<1>1. /\ UNCHANGED <<inodeVars, blockVars, store, cl, late, calls, losses, wrote>>
      /\ free' = [free EXCEPT ![w] = Capacity - Used(w)]
  BY DEF Heartbeat
<1>2. Used(w) \in Nat /\ Used(w) <= Capacity
  BY BytesFinite DEF Inv, Storage, Used
<1>3. Storage'
  BY <1>1, <1>2, CapacityAssumption DEF Inv, Storage, Genuine
<1>4. ClientsOK'
  BY <1>1 DEF Inv, ClientsOK, Honest
<1>5. QED
  BY <1>1, <1>3, <1>4, NamespaceKept, LocationsKept, CountersKept DEF Inv

-----------------------------------------------------------------------------
(* The initial states: a file cut into blocks *)

\* A position lies in one block, at one place.
LEMMA PositionsDiffer ==
    ASSUME NEW i \in Nat, NEW j \in Nat, NEW k \in 1 .. BlockSize, NEW l \in 1 .. BlockSize,
           i * BlockSize + k = j * BlockSize + l
    PROVE  i = j /\ k = l
<1>1. i * BlockSize \in Nat /\ j * BlockSize \in Nat
  BY BlockSizeAssumption
<1>2. i * BlockSize + (k - 1) = j * BlockSize + (l - 1) /\ k - 1 \in 0 .. BlockSize - 1 /\ l - 1 \in 0 .. BlockSize - 1
  BY <1>1, BlockSizeAssumption
<1>3. i = j /\ k - 1 = l - 1
  BY <1>2, PlacesDiffer, BlockSizeAssumption
<1>4. QED
  BY <1>3

\* Block i of a file of n bytes begins within it.
LEMMA BlockBegins ==
    ASSUME NEW n \in Nat, NEW i \in 0 .. GetBlockCount(n) - 1
    PROVE  i \in Nat /\ i * BlockSize \in Nat /\ i * BlockSize < n
<1> DEFINE q == (n + BlockSize - 1) \div BlockSize
<1>1. q \in Nat /\ q * BlockSize <= n + BlockSize - 1 /\ q * BlockSize \in Nat
  <2>1. n + BlockSize - 1 \in Nat
    BY BlockSizeAssumption
  <2>2. QED
    BY <2>1, Arithmetic, BlockSizeAssumption
<1>2. i \in Nat /\ i < q
  BY <1>1 DEF GetBlockCount
<1> HIDE DEF q
<1>3. i * BlockSize \in Nat /\ i * BlockSize + BlockSize <= q * BlockSize
  BY <1>1, <1>2, Multiples, BlockSizeAssumption
<1>4. QED
  BY <1>1, <1>2, <1>3, BlockSizeAssumption

\* The blocks of a file that is not too long have indexes that fit.
LEMMA IndexFits ==
    ASSUME NEW n \in Nat, n <= FileLimit, NEW i \in 0 .. GetBlockCount(n) - 1
    PROVE  i % IndexLimit = i
<1>1. i \in Nat /\ i * BlockSize \in Nat /\ i * BlockSize < IndexLimit * BlockSize
  <2>1. IndexLimit * BlockSize \in Nat
    BY BlockSizeAssumption, IndexLimitAssumption
  <2>2. QED
    BY <2>1, BlockBegins DEF FileLimit
<1>2. ~(IndexLimit < i) /\ IndexLimit # i
  BY <1>1, Multiples, BlockSizeAssumption, IndexLimitAssumption
<1>3. i \in 0 .. IndexLimit - 1
  BY <1>1, <1>2, IndexLimitAssumption
<1>4. QED
  BY <1>3, Small, IndexLimitAssumption

\* What a worker holds of a file that it has stored whole: block i has the file's bytes
\* from i * BlockSize on.
FilePart(d, i, s) ==
    /\ s \in Seq(Nat) /\ Len(s) <= BlockSize
    /\ \A k \in 1 .. Len(s) : i * BlockSize + k \in 1 .. Len(d) /\ s[k] = d[i * BlockSize + k]

\* A file cut into blocks
LEMMA PartOK ==
    ASSUME NEW d \in Seq(Nat), NEW i \in 0 .. GetBlockCount(Len(d)) - 1
    PROVE  FilePart(d, i, SubSeq(d, i * BlockSize + 1, Lesser((i + 1) * BlockSize, Len(d))))
<1> DEFINE x == i * BlockSize
           y == Lesser((i + 1) * BlockSize, Len(d))
<1>1. Len(d) \in Nat
  OBVIOUS
<1>2. i \in Nat /\ x \in Nat /\ x < Len(d)
  BY <1>1, BlockBegins
<1>3. (i + 1) * BlockSize = x + BlockSize
  BY <1>2, BlockSizeAssumption
<1>4. y \in Nat /\ x < y /\ y <= x + BlockSize /\ y <= Len(d)
  BY <1>1, <1>2, <1>3, BlockSizeAssumption DEF Lesser
<1> HIDE DEF x, y
<1>5. /\ SubSeq(d, x + 1, y) \in Seq(Nat) /\ Len(SubSeq(d, x + 1, y)) = y - x
      /\ \A k \in 1 .. y - x : SubSeq(d, x + 1, y)[k] = d[x + k]
  BY <1>1, <1>2, <1>4
<1>6. y - x \in Nat /\ y - x <= BlockSize /\ \A k \in 1 .. y - x : x + k \in 1 .. Len(d)
  BY <1>1, <1>2, <1>4, BlockSizeAssumption
<1>7. FilePart(d, i, SubSeq(d, x + 1, y))
  BY <1>5, <1>6 DEF FilePart, x
<1>8. QED
  BY <1>7 DEF x, y

\* They are sound, and no larger than the file.
LEMMA FileBlocksOK ==
    ASSUME NEW d \in Seq(Nat), BelowHigh(Len(d)), Len(d) <= FileLimit, wrote = {<<2, i - 1, d[i]>> : i \in DOMAIN d},
           NEW indexes \in SUBSET Nat, IsFiniteSet(indexes),
           NEW m, m = [b \in DOMAIN m |-> m[b]], DOMAIN m = {<<2, i>> : i \in indexes},
           \A i \in indexes : FilePart(d, i, m[<<2, i>>])
    PROVE  BlocksOK(m) /\ Genuine(m) /\ Bytes(m) <= Capacity
<1>1. Len(d) \in Nat
  OBVIOUS
<1>3. ASSUME NEW i \in indexes
      PROVE  /\ m[<<2, i>>] \in Seq(Nat) /\ Len(m[<<2, i>>]) <= BlockSize /\ Len(m[<<2, i>>]) \in Nat
             /\ \A k \in 1 .. Len(m[<<2, i>>]) :
                   i * BlockSize + k \in 1 .. Len(d) /\ m[<<2, i>>][k] = d[i * BlockSize + k]
  BY <1>3 DEF FilePart
<1>4. BlocksOK(m)
  <2>1. IsFiniteSet(DOMAIN m)
    <3>1. IsFiniteSet({2} \X indexes)
      BY FS_Singleton, FS_Product, Zenon
    <3>2. DOMAIN m \subseteq {2} \X indexes
      OBVIOUS
    <3>3. QED
      BY <3>1, <3>2, FS_Subset
  <2>2. ASSUME NEW b \in DOMAIN m PROVE m[b] \in Seq(Nat) /\ Len(m[b]) <= BlockSize
    <3>1. PICK i \in indexes : b = <<2, i>>
      OBVIOUS
    <3>2. QED
      BY <1>3, <3>1
  <2>3. QED
    BY <2>1, <2>2 DEF BlocksOK
<1>5. Genuine(m)
  <2>1. ASSUME NEW i \in indexes, NEW k \in DOMAIN m[<<2, i>>]
        PROVE  <<2, i * BlockSize + k - 1, m[<<2, i>>][k]>> \in Folded(wrote)
    <3> DEFINE z == i * BlockSize + k
    <3>1. k \in 1 .. Len(m[<<2, i>>]) /\ DOMAIN d = 1 .. Len(d)
      BY <1>3, <2>1
    <3>2. z \in DOMAIN d /\ m[<<2, i>>][k] = d[z]
      BY <1>3, <2>1, <3>1, Zenon
    <3> HIDE DEF z
    <3>3. <<2, z - 1, d[z]>> \in wrote
      BY <3>2
    <3>4. <<2, z - 1, m[<<2, i>>][k]>> \in Folded(wrote)
      <4>1. FileLimit \in Nat \ {0}
        BY BlockSizeAssumption, IndexLimitAssumption DEF FileLimit
      <4>2. z - 1 \in 0 .. FileLimit - 1
        BY <1>1, <3>1, <3>2, <4>1
      <4>3. (z - 1) % FileLimit = z - 1
        BY <4>1, <4>2, Small
      <4>4. <<2, (z - 1) % FileLimit, d[z]>> \in Folded(wrote)
        BY <3>3, FoldedHas
      <4>5. QED
        BY <3>2, <4>3, <4>4
    <3>5. i * BlockSize \in Nat /\ k \in Nat
      BY <1>3, <2>1, <3>1, BlockSizeAssumption
    <3>6. z - 1 = i * BlockSize + k - 1
      BY <3>5 DEF z
    <3>7. QED
      BY <3>4, <3>6
  <2>2. ASSUME NEW b \in DOMAIN m, NEW k \in DOMAIN m[b]
        PROVE  <<b[1], b[2] * BlockSize + k - 1, m[b][k]>> \in Folded(wrote)
    <3>1. PICK i \in indexes : b = <<2, i>>
      OBVIOUS
    <3>2. b[1] = 2 /\ b[2] = i
      BY <3>1
    <3>3. QED
      BY <2>1, <2>2, <3>1, <3>2
  <2>3. QED
    BY <2>2 DEF Genuine
<1>6. Bytes(m) <= Capacity
  <2> DEFINE f == [p \in ByteSet(m) |-> p[1][2] * BlockSize + p[2]]
  <2>1. ASSUME NEW p \in ByteSet(m)
        PROVE  \E i \in indexes : \E k \in 1 .. Len(m[<<2, i>>]) : p = <<<<2, i>>, k>>
    <3>0. PICK b \in DOMAIN m : p \in {b} \X DOMAIN m[b]
      BY <2>1 DEF ByteSet
    <3>1. PICK k \in DOMAIN m[b] : p = <<b, k>>
      BY <3>0
    <3>2. PICK i \in indexes : b = <<2, i>>
      OBVIOUS
    <3>3. DOMAIN m[<<2, i>>] = 1 .. Len(m[<<2, i>>])
      BY <1>3
    <3>4. QED
      BY <3>1, <3>2, <3>3, Zenon
  <2>2. f \in [ByteSet(m) -> 1 .. Len(d)]
    <3>1. ASSUME NEW p \in ByteSet(m) PROVE p[1][2] * BlockSize + p[2] \in 1 .. Len(d)
      <4>1. PICK i \in indexes : \E k \in 1 .. Len(m[<<2, i>>]) : p = <<<<2, i>>, k>>
        BY <2>1, <3>1, Zenon
      <4>2. PICK k \in 1 .. Len(m[<<2, i>>]) : p = <<<<2, i>>, k>>
        BY <4>1
      <4>3. p[1][2] = i /\ p[2] = k
        BY <4>2
      <4>4. QED
        BY <1>3, <4>3
    <3>2. QED
      BY <3>1
  <2>3. ASSUME NEW p \in ByteSet(m), NEW q \in ByteSet(m), f[p] = f[q] PROVE p = q
    <3>1a. PICK i \in indexes : \E k \in 1 .. Len(m[<<2, i>>]) : p = <<<<2, i>>, k>>
      BY <2>1, Zenon
    <3>1. PICK k \in 1 .. Len(m[<<2, i>>]) : p = <<<<2, i>>, k>>
      BY <3>1a
    <3>2a. PICK j \in indexes : \E l \in 1 .. Len(m[<<2, j>>]) : q = <<<<2, j>>, l>>
      BY <2>1, Zenon
    <3>2. PICK l \in 1 .. Len(m[<<2, j>>]) : q = <<<<2, j>>, l>>
      BY <3>2a
    <3>3. i * BlockSize + k = j * BlockSize + l
      BY <2>3, <3>1, <3>2
    <3>4a. /\ Len(m[<<2, i>>]) \in Nat /\ Len(m[<<2, i>>]) <= BlockSize
           /\ Len(m[<<2, j>>]) \in Nat /\ Len(m[<<2, j>>]) <= BlockSize
      BY <1>3, Zenon
    <3>4. i \in Nat /\ j \in Nat /\ k \in 1 .. BlockSize /\ l \in 1 .. BlockSize
      BY <3>4a, BlockSizeAssumption
    <3>5. QED
      BY <3>1, <3>2, <3>3, <3>4, PositionsDiffer
  <2>4. f \in Injection(ByteSet(m), 1 .. Len(d))
    BY <2>2, <2>3 DEF Injection, IsInjective
  <2>5. IsFiniteSet(1 .. Len(d)) /\ Cardinality(1 .. Len(d)) = Len(d)
    <3>1. 1 \in Int /\ Len(d) \in Int
      BY <1>1
    <3>2. /\ IsFiniteSet(1 .. Len(d))
          /\ Cardinality(1 .. Len(d)) = IF 1 > Len(d) THEN 0 ELSE Len(d) - 1 + 1
      BY <3>1, FS_Interval, Zenon
    <3>3. QED
      BY <1>1, <3>2
  <2>6. Cardinality(ByteSet(m)) <= Cardinality(1 .. Len(d))
    BY <2>4, <2>5, FS_Injection
  <2>7. Bytes(m) <= Len(d) /\ Bytes(m) \in Nat
    BY <1>4, <2>5, <2>6, BytesFinite, Zenon DEF Bytes, ByteSet
  <2>8. QED
    BY <1>1, <2>7, CapacityAssumption DEF BelowHigh
<1>7. QED
  BY <1>4, <1>5, <1>6

\* A worker without blocks is sound.
LEMMA EmptyMapOK ==
    EmptyMap = [b \in {} |-> EmptyMap[b]] /\ DOMAIN EmptyMap = {} /\ BlocksOK(EmptyMap) /\ Genuine(EmptyMap)
<1>1. DOMAIN EmptyMap = {} /\ EmptyMap = [b \in {} |-> EmptyMap[b]]
  BY DEF EmptyMap
<1>2. IsFiniteSet({})
  BY FS_EmptySet
<1>3. QED
  BY <1>1, <1>2 DEF BlocksOK, Genuine

\* The initial states have the invariant: no files, or one that is stored whole.
LEMMA InitOK == Init => Inv
<1> SUFFICES ASSUME Init PROVE Inv
  OBVIOUS
<1>1. /\ cl = [c \in Clients |-> Idle] /\ late = {} /\ calls = 0 /\ losses = 0
      /\ free = [w \in Workers |-> Capacity]
  BY Zenon DEF Init
<1>2. ClientsOK
  BY <1>1, IdleOK, Zenon DEF ClientsOK
<1>3. Counters
  BY <1>1, BoundsAssumption DEF Counters
<1>4. free \in [Workers -> 0 .. Capacity]
  BY <1>1, CapacityAssumption
<1>5. Bytes(EmptyMap) <= Capacity
  <2>1. Bytes(EmptyMap) = 0
    BY EmptyMapOK, NoBytes
  <2>2. QED
    BY <2>1, CapacityAssumption
<1>6. CASE /\ names = EmptyMap /\ sizes = EmptyMap /\ nextIno = 2 /\ BlockMasterInit
           /\ store = [w \in Workers |-> EmptyMap] /\ wrote = {}
  <2>1. Storage
    BY <1>4, <1>5, <1>6, EmptyMapOK DEF Storage
  <2>2. Namespace
    BY <1>6 DEF Namespace, EmptyMap
  <2>3. Locations
    BY <1>6 DEF Locations, BlockMasterInit, EmptyMap
  <2>4. QED
    BY <1>2, <1>3, <2>1, <2>2, <2>3 DEF Inv
<1>7. ASSUME NEW p \in Paths, NEW w \in Workers, NEW d \in Contents,
             LET indexes == 0 .. GetBlockCount(Len(d)) - 1
                 blocks == {MakeBlockId(2, i) : i \in indexes}
                 Part(i) == SubSeq(d, i * BlockSize + 1, Lesser((i + 1) * BlockSize, Len(d)))
             IN /\ BelowHigh(Len(d)) /\ Len(d) <= FileLimit
                /\ names = [x \in {p} |-> 2] /\ sizes = [x \in {2} |-> Len(d)] /\ nextIno = 3
                /\ locs = [b \in blocks |-> {[worker |-> w, address |-> w, tier |-> "mem"]}]
                /\ wblocks = [x \in {w} |-> blocks]
                /\ store = [x \in Workers |->
                              IF x # w THEN EmptyMap
                              ELSE [b \in blocks |-> Part(CHOOSE i \in indexes : b = MakeBlockId(2, i))]]
                /\ wrote = {<<2, i - 1, d[i]>> : i \in DOMAIN d}
      PROVE  Inv
  <2> DEFINE indexes == 0 .. GetBlockCount(Len(d)) - 1
             blocks == {MakeBlockId(2, i) : i \in indexes}
             Part(i) == SubSeq(d, i * BlockSize + 1, Lesser((i + 1) * BlockSize, Len(d)))
             m == [b \in blocks |-> Part(CHOOSE i \in indexes : b = MakeBlockId(2, i))]
  <2>1. d \in Seq(Nat) /\ Len(d) \in Nat
    BY ArgumentsAssumption
  <2>2. GetBlockCount(Len(d)) \in Nat
    BY <2>1, BlockCount
  <2>3. indexes \in SUBSET Nat /\ IsFiniteSet(indexes)
    <3>1. indexes \in SUBSET Nat /\ 0 \in Int /\ GetBlockCount(Len(d)) - 1 \in Int
      BY <2>2
    <3>2. QED
      BY <3>1, FS_Interval, Zenon
  <2>4. \A i \in indexes : FilePart(d, i, Part(i))
    BY <2>1, PartOK
  <2> HIDE DEF Part
  <2>5. blocks = {<<2, i>> : i \in indexes} /\ \A i \in indexes : m[<<2, i>>] = Part(i)
    <3>0. \A i \in indexes : MakeBlockId(2, i) = <<2, i>>
      BY <1>7, <2>1, IndexFits DEF MakeBlockId
    <3>1. blocks = {<<2, i>> : i \in indexes}
      BY <3>0
    <3>2. ASSUME NEW i \in indexes PROVE m[<<2, i>>] = Part(i)
      <4> DEFINE j == CHOOSE k \in indexes : <<2, i>> = MakeBlockId(2, k)
      <4>1. <<2, i>> = MakeBlockId(2, i)
        BY <3>0
      <4>2. j \in indexes /\ <<2, i>> = MakeBlockId(2, j)
        BY <3>2, <4>1, Zenon
      <4>3. j = i
        BY <3>0, <4>2
      <4>4. m[<<2, i>>] = Part(j)
        BY <3>1, <3>2, Zenon
      <4>5. QED
        BY <4>3, <4>4, Zenon
    <3>3. QED
      BY <3>1, <3>2, Zenon
  <2>6. m = [b \in DOMAIN m |-> m[b]] /\ DOMAIN m = blocks
    OBVIOUS
  <2>7. /\ BelowHigh(Len(d)) /\ Len(d) <= FileLimit
        /\ names = [x \in {p} |-> 2] /\ sizes = [x \in {2} |-> Len(d)] /\ nextIno = 3
        /\ locs = [b \in blocks |-> {[worker |-> w, address |-> w, tier |-> "mem"]}]
        /\ store = [x \in Workers |-> IF x # w THEN EmptyMap ELSE m]
        /\ wrote = {<<2, i - 1, d[i]>> : i \in DOMAIN d}
    BY <1>7, Zenon DEF Part
  <2> HIDE DEF m, indexes
  <2>8. BlocksOK(m) /\ Genuine(m) /\ Bytes(m) <= Capacity
    <3>1. DOMAIN m = {<<2, i>> : i \in indexes} /\ \A i \in indexes : FilePart(d, i, m[<<2, i>>])
      BY <2>4, <2>5, <2>6
    <3>2. QED
      BY <2>1, <2>3, <2>6, <2>7, <3>1, FileBlocksOK, Zenon
  <2>9. Storage
    <3>1. \A x \in Workers : store[x] = EmptyMap \/ store[x] = m
      BY <2>7
    <3>2. store = [x \in Workers |-> store[x]]
      BY <2>7
    <3>3. QED
      BY <1>4, <1>5, <2>8, <3>1, <3>2, EmptyMapOK, Zenon DEF Storage
  <2>10. Namespace
    BY <2>1, <2>7 DEF Namespace
  <2>11. Locations
    BY <2>7 DEF Locations
  <2>12. QED
    BY <1>2, <1>3, <2>9, <2>10, <2>11 DEF Inv
<1>8. QED
  BY <1>6, <1>7, Zenon DEF Init

\* Every step keeps the invariant.
LEMMA NextOK == Inv /\ [Next]_vars => Inv'
<1> SUFFICES ASSUME Inv, [Next]_vars PROVE Inv'
  OBVIOUS
<1>1. ASSUME NEW w \in Workers, Evict(w) \/ Heartbeat(w) PROVE Inv'
  BY <1>1, EvictOK, HeartbeatOK, Zenon
<1>2. ASSUME NEW r \in late, LateWrite(r) \/ LateReport(r) PROVE Inv'
  BY <1>2, LateWriteOK, LateReportOK, Zenon
<1>3. ASSUME NEW c \in Clients,
             \/ CatCmd(c) \/ HeadCmd(c) \/ TailCmd(c) \/ TouchCmd(c) \/ WriteCmd(c) \/ CpCmd(c) \/ CpChild(c)
             \/ RmCmd(c) \/ MvCmd(c) \/ FuseCreate(c) \/ FuseRead(c) \/ FuseWrite(c) \/ FuseTruncate(c)
      PROVE  Inv'
  BY <1>3, CommandKeeps, Zenon
<1>4. ASSUME NEW c \in Clients, Stat(c) \/ ReadInfo(c) \/ ReadLocate(c) \/ ReadBlk(c) PROVE Inv'
  BY <1>4, StatOK, ReadInfoOK, ReadLocateOK, ReadBlkOK, Zenon
<1>5. ASSUME NEW c \in Clients,
             \/ WriteInfo(c) \/ Create(c) \/ WriteLocate(c) \/ WriteLocate0(c) \/ WriteBlk(c) \/ WriteReport(c)
      PROVE  Inv'
  BY <1>5, WriteInfoOK, CreateOK, WriteLocateOK, WriteLocate0OK, WriteBlkOK, WriteReportOK, Zenon
<1>6. ASSUME NEW c \in Clients,
             \/ CompleteStat(c) \/ Complete(c)
             \/ DeleteLook(c) \/ TruncateLook(c) \/ DropBlock(c) \/ DeleteName(c) \/ UpdateSize(c) \/ RenameFile(c)
      PROVE  Inv'
  BY <1>6, CompleteStatOK, NameStepOK, DeleteLookOK, TruncateLookOK, DropBlockOK, Zenon
<1>7. ASSUME NEW c \in Clients, CallFails(c) \/ ReportFails(c) \/ DeadlinePasses(c) \/ Return(c) PROVE Inv'
  BY <1>7, CallFailsOK, ReportFailsOK, DeadlinePassesOK, ReturnOK, Zenon
<1>8. CASE UNCHANGED vars
  <2>1. UNCHANGED <<names, sizes, nextIno, locs, store, free, cl, late, calls, losses, wrote>>
    BY <1>8 DEF vars
  <2>2. ClientsOK'
    BY <2>1 DEF Inv, ClientsOK, Honest, HonestIn
  <2>3. Storage'
    BY <2>1 DEF Inv, Storage, Genuine
  <2>4. Namespace' /\ Locations' /\ Counters'
    BY <2>1 DEF Inv, Namespace, Locations, Counters
  <2>5. QED
    BY <2>2, <2>3, <2>4 DEF Inv
<1>9. QED
  BY <1>1, <1>2, <1>3, <1>4, <1>5, <1>6, <1>7, <1>8, Zenon DEF Next

\* The invariant holds at every moment.
LEMMA Invariance == Spec => []Inv
<1>1. QED
  BY InitOK, NextOK, PTL DEF Spec

\* At every moment, for any number of clients, workers, paths and calls: what the
\* state holds is of its type, a file has a size exactly as long as it has a name, no
\* block is larger than the block size and no client has received more than it asked
\* for or sent more than it had.
THEOREM TypesHold == Spec => []TypeOK
<1>1. Inv => TypeOK
  <2> SUFFICES ASSUME Inv PROVE TypeOK
    OBVIOUS
  <2>1. \A w \in Workers : \A b \in DOMAIN store[w] : store[w][b] \in Seq(Nat) /\ Len(store[w][b]) <= BlockSize
    BY Zenon DEF Inv, Storage, BlocksOK
  <2>2. \A c \in Clients : cl[c].count <= Len(cl[c].data) /\ Len(cl[c].got) <= cl[c].n
    BY Zenon DEF Inv, ClientsOK, ClientOK
  <2>3. QED
    BY <2>1, <2>2, Zenon DEF TypeOK, Inv, Storage, Namespace, Counters
<1>2. QED
  BY <1>1, Invariance, PTL

\* Whatever is created, deleted, renamed, truncated, copied, evicted and lost
\* meanwhile, and however many clients and workers there are: a byte that a client
\* reads of a file is zero or was written to that file at that position, or at one a
\* multiple of FileLimit away: however long files get, no byte of another file is read.
THEOREM BytesAreOwn == Spec => []NoForeignBytes
<1>1. Inv => NoForeignBytes
  <2> SUFFICES ASSUME Inv, NEW c \in Clients, cl[c].op \notin Copies, NEW i \in DOMAIN cl[c].got, cl[c].got[i] # 0
               PROVE  \E x \in wrote : /\ x[1] = cl[c].ino /\ x[3] = cl[c].got[i]
                                      /\ x[2] % FileLimit = (cl[c].off + i - 1) % FileLimit
    BY Zenon DEF NoForeignBytes, Copies
  <2>1. <<cl[c].ino, (cl[c].off + i - 1) % FileLimit, cl[c].got[i]>> \in Folded(wrote)
    BY Zenon DEF Inv, ClientsOK, Honest, HonestIn
  <2>2. QED
    BY <2>1 DEF Folded
<1>2. QED
  BY <1>1, Invariance, PTL

=============================================================================
