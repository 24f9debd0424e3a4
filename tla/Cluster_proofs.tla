--------------------------- MODULE Cluster_proofs ---------------------------
(***************************************************************************)
(* For any number of workers, blocks, crashes and restarts: the two        *)
(* indexes of BlockMaster agree; and ids stay with their workers until the *)
(* master restarts.                                                        *)
(***************************************************************************)
EXTENDS Cluster, TLAPS

\* The types of BlockMaster's maps.
MapsOK ==
    /\ DOMAIN locs \subseteq Blocks /\ \A b \in DOMAIN locs : locs[b] \in SUBSET Location
    /\ DOMAIN wblocks \subseteq Nat /\ \A w \in DOMAIN wblocks : wblocks[w] \in SUBSET Blocks

IndexInv == MapsOK /\ IndexesAgree

\* AddBlockLocation enters the block in both indexes, or in neither.
LEMMA AddKeepsIndex ==
    ASSUME IndexInv, NEW b \in Blocks, NEW w \in Nat, NEW addr \in Addrs,
           AddBlockLocation(b, w, addr, "Memory")
    PROVE  IndexInv'
<1>1. LocsOf(b) \in SUBSET Location
  BY DEF IndexInv, MapsOK, LocsOf
<1>2. CASE At(LocsOf(b), w) # {}
  <2>1. b \in DOMAIN locs /\ LocsOf(b) = locs[b]
    BY <1>2 DEF LocsOf, At
  <2>2. \A l \in locs[b] : [l EXCEPT !.tier = "Memory"] = l
    BY <1>1, <2>1 DEF Location
  <2>3. {IF l.worker = w THEN [l EXCEPT !.tier = "Memory"] ELSE l : l \in LocsOf(b)} = locs[b]
    BY <2>1, <2>2
  <2>4. locs' = Put(locs, b, locs[b]) /\ wblocks' = wblocks
    BY <1>2, <2>3 DEF AddBlockLocation
  <2>5. DOMAIN locs' = DOMAIN locs /\ \A c \in DOMAIN locs : locs'[c] = locs[c]
    BY <2>1, <2>4 DEF Put
  <2> QED BY <2>4, <2>5 DEF IndexInv, MapsOK, IndexesAgree, LocsOf, BlocksOf, At
<1>3. CASE At(LocsOf(b), w) = {}
  <2> DEFINE new == [worker |-> w, address |-> addr, tier |-> "Memory"]
  <2>1. new \in Location /\ new.worker = w
    BY DEF Location
  <2>2. /\ locs' = Put(locs, b, LocsOf(b) \cup {new})
        /\ wblocks' = Put(wblocks, w, BlocksOf(w) \cup {b})
    BY <1>3 DEF AddBlockLocation
  <2> HIDE DEF new
  <2>3. /\ DOMAIN locs' = DOMAIN locs \cup {b}
        /\ \A c \in DOMAIN locs' : locs'[c] = IF c = b THEN LocsOf(b) \cup {new} ELSE locs[c]
        /\ DOMAIN wblocks' = DOMAIN wblocks \cup {w}
        /\ \A v \in DOMAIN wblocks' :
              wblocks'[v] = IF v = w THEN BlocksOf(w) \cup {b} ELSE wblocks[v]
    BY <2>2 DEF Put
  <2>4. MapsOK'
    BY <1>1, <2>1, <2>3 DEF IndexInv, MapsOK, BlocksOf
  <2>5. IndexesAgree'
    <3>1. ASSUME NEW c \in DOMAIN locs', NEW l \in locs'[c]
          PROVE  c \in BlocksOf(l.worker)'
      BY <2>1, <2>3 DEF IndexInv, IndexesAgree, BlocksOf, LocsOf
    <3>2. ASSUME NEW v \in DOMAIN wblocks', NEW c \in wblocks'[v]
          PROVE  At(LocsOf(c), v)' # {}
      BY <2>1, <2>3 DEF IndexInv, IndexesAgree, BlocksOf, LocsOf, At
    <3>3. ASSUME NEW c \in DOMAIN locs', NEW l \in locs'[c], NEW m \in locs'[c],
                 l.worker = m.worker
          PROVE  l = m
      BY <1>3, <2>1, <2>3, <3>3 DEF IndexInv, IndexesAgree, LocsOf, At
    <3> QED BY <3>1, <3>2, <3>3 DEF IndexesAgree
  <2> QED BY <2>4, <2>5 DEF IndexInv
<1> QED BY <1>2, <1>3

\* RemoveWorkerBlocks goes by worker_blocks_ and finds all the locations.
LEMMA RemoveWorkerKeepsIndex ==
    ASSUME IndexInv, NEW w \in Nat, RemoveWorkerBlocks(w)
    PROVE  IndexInv'
<1>1. /\ DOMAIN locs' = {c \in DOMAIN locs : c \in BlocksOf(w) => NotAt(locs[c], w) # {}}
      /\ \A c \in DOMAIN locs' :
            locs'[c] = IF c \in BlocksOf(w) THEN NotAt(locs[c], w) ELSE locs[c]
      /\ DOMAIN wblocks' = DOMAIN wblocks \ {w}
      /\ \A v \in DOMAIN wblocks' : wblocks'[v] = wblocks[v]
  BY DEF RemoveWorkerBlocks, LocsWithout, Del
<1>2. MapsOK'
  BY <1>1 DEF IndexInv, MapsOK, NotAt
<1>3. ASSUME NEW c \in DOMAIN locs', NEW l \in locs'[c]
      PROVE  l \in locs[c] /\ c \in BlocksOf(l.worker)'
  <2>1. c \in DOMAIN locs /\ l \in locs[c]
    BY <1>1 DEF NotAt
  <2>2. c \in BlocksOf(l.worker)
    BY <2>1 DEF IndexInv, IndexesAgree
  <2>3. l.worker # w
    BY <1>1, <2>2 DEF NotAt
  <2>4. BlocksOf(l.worker)' = BlocksOf(l.worker)
    BY <1>1, <2>3 DEF BlocksOf
  <2> QED BY <2>1, <2>2, <2>4
<1>4. ASSUME NEW v \in DOMAIN wblocks', NEW c \in wblocks'[v]
      PROVE  At(LocsOf(c), v)' # {}
  <2>1. v # w /\ c \in wblocks[v] /\ v \in DOMAIN wblocks
    BY <1>1
  <2>2. PICK l \in LocsOf(c) : l.worker = v
    BY <2>1 DEF IndexInv, IndexesAgree, At
  <2>3. c \in DOMAIN locs /\ l \in locs[c] /\ l \in NotAt(locs[c], w)
    BY <2>1, <2>2 DEF LocsOf, NotAt
  <2>4. c \in DOMAIN locs' /\ l \in locs'[c]
    BY <1>1, <2>3
  <2> QED BY <2>2, <2>4 DEF LocsOf, At
<1>5. \A c \in DOMAIN locs' : \A l, m \in locs'[c] : l.worker = m.worker => l = m
  BY <1>1, <1>3 DEF IndexInv, IndexesAgree
<1> QED BY <1>2, <1>3, <1>4, <1>5 DEF IndexInv, IndexesAgree

\* RemoveBlock goes by block_locations_ and finds all the workers.
LEMMA RemoveBlockKeepsIndex ==
    ASSUME IndexInv, NEW b, RemoveBlock(b)
    PROVE  IndexInv'
<1>1. /\ DOMAIN locs' = DOMAIN locs \ {b}
      /\ \A c \in DOMAIN locs' : locs'[c] = locs[c]
      /\ DOMAIN wblocks' = DOMAIN wblocks
      /\ \A v \in DOMAIN wblocks' :
            wblocks'[v] = IF At(LocsOf(b), v) # {} THEN wblocks[v] \ {b} ELSE wblocks[v]
  BY DEF RemoveBlock, Del
<1>2. MapsOK'
  BY <1>1 DEF IndexInv, MapsOK
<1>3. ASSUME NEW c \in DOMAIN locs', NEW l \in locs'[c]
      PROVE  c \in BlocksOf(l.worker)'
  BY <1>1 DEF IndexInv, IndexesAgree, BlocksOf
<1>4. ASSUME NEW v \in DOMAIN wblocks', NEW c \in wblocks'[v]
      PROVE  At(LocsOf(c), v)' # {}
  <2>1. c \in wblocks[v] /\ c # b
    BY <1>1 DEF IndexInv, IndexesAgree
  <2>2. At(LocsOf(c), v) # {}
    BY <1>1, <2>1 DEF IndexInv, IndexesAgree
  <2>3. LocsOf(c)' = LocsOf(c)
    BY <1>1, <2>1 DEF LocsOf
  <2> QED BY <2>2, <2>3 DEF At
<1>5. \A c \in DOMAIN locs' : \A l, m \in locs'[c] : l.worker = m.worker => l = m
  BY <1>1 DEF IndexInv, IndexesAgree
<1> QED BY <1>2, <1>3, <1>4, <1>5 DEF IndexInv, IndexesAgree

\* RemoveBlockLocation, which no caller uses yet, keeps the indexes in step too.
LEMMA RemoveLocationKeepsIndex ==
    ASSUME IndexInv, NEW b \in Blocks, NEW w \in Nat, RemoveBlockLocation(b, w)
    PROVE  IndexInv'
<1>1. /\ DOMAIN locs' = {c \in DOMAIN locs : c = b => NotAt(locs[c], w) # {}}
      /\ \A c \in DOMAIN locs' : locs'[c] = IF c = b THEN NotAt(locs[c], w) ELSE locs[c]
  BY DEF RemoveBlockLocation, LocsWithout
<1>2. /\ DOMAIN wblocks' = DOMAIN wblocks
      /\ \A v \in DOMAIN wblocks' : wblocks'[v] = IF v = w THEN wblocks[v] \ {b} ELSE wblocks[v]
  BY DEF RemoveBlockLocation, Put
<1>3. MapsOK'
  BY <1>1, <1>2 DEF IndexInv, MapsOK, NotAt
<1>4. ASSUME NEW c \in DOMAIN locs', NEW l \in locs'[c]
      PROVE  l \in locs[c] /\ c \in BlocksOf(l.worker)'
  <2>1. c \in DOMAIN locs /\ l \in locs[c] /\ (c = b => l.worker # w)
    BY <1>1 DEF NotAt
  <2>2. c \in BlocksOf(l.worker)
    BY <2>1 DEF IndexInv, IndexesAgree
  <2> QED BY <1>2, <2>1, <2>2 DEF BlocksOf
<1>5. ASSUME NEW v \in DOMAIN wblocks', NEW c \in wblocks'[v]
      PROVE  At(LocsOf(c), v)' # {}
  <2>1. v \in DOMAIN wblocks /\ c \in wblocks[v] /\ (c = b => v # w)
    BY <1>2
  <2>2. PICK l \in LocsOf(c) : l.worker = v
    BY <2>1 DEF IndexInv, IndexesAgree, At
  <2>3. c \in DOMAIN locs /\ l \in locs[c] /\ (c = b => l \in NotAt(locs[c], w))
    BY <2>1, <2>2 DEF LocsOf, NotAt
  <2>4. c \in DOMAIN locs' /\ l \in locs'[c]
    BY <1>1, <2>3
  <2> QED BY <2>2, <2>4 DEF LocsOf, At
<1>6. \A c \in DOMAIN locs' : \A l, m \in locs'[c] : l.worker = m.worker => l = m
  BY <1>1, <1>4 DEF IndexInv, IndexesAgree
<1> QED BY <1>3, <1>4, <1>5, <1>6 DEF IndexInv, IndexesAgree

\* Steps that leave BlockMaster alone.
LEMMA UnchangedKeepsIndex ==
    ASSUME IndexInv, UNCHANGED blockVars
    PROVE  IndexInv'
BY DEF IndexInv, MapsOK, IndexesAgree, LocsOf, BlocksOf, At, blockVars

-----------------------------------------------------------------------------
\* Ids

\* The worker and the address are the master's.
Knows(w, a) == w \in DOMAIN workers /\ workers[w].address = a

\* Ids in use are below the next one, so that a new worker gets a fresh id.
TableOK ==
    /\ nextId \in Nat \ {0}
    /\ \A id \in DOMAIN workers : id \in Nat \ {0} /\ id < nextId
    /\ \A id \in DOMAIN workers :
          workers[id] \in [address : Addrs, age : 0 .. Timeout + 1, alive : BOOLEAN]

\* A step of the WorkerManager forgets no worker.
Keeps == \A w, a : Knows(w, a) => Knows(w, a)'

\* RegisterWorker yields an id that is the address's own, old or fresh.
LEMMA RegisterKeepsTable ==
    ASSUME TableOK, NEW a \in Addrs, NEW id, RegisterWorker(a, id)
    PROVE  TableOK' /\ Keeps /\ Knows(id, a)' /\ id \in Nat \ {0}
<1>1. Heard(a) \in [address : Addrs, age : 0 .. Timeout + 1, alive : BOOLEAN]
  BY TimeoutAssumption DEF Heard
<1>2. /\ DOMAIN workers' = DOMAIN workers \cup {id}
      /\ \A w \in DOMAIN workers' : workers'[w] = IF w = id THEN Heard(a) ELSE workers[w]
  BY DEF RegisterWorker, Put
<1>3. Heard(a).address = a
  BY DEF Heard
<1>4. CASE IdsAt(a) # {}
  <2>1. id \in DOMAIN workers /\ workers[id].address = a /\ nextId' = nextId
    BY <1>4 DEF RegisterWorker, IdsAt
  <2>2. TableOK'
    BY <1>1, <1>2, <2>1 DEF TableOK
  <2>3. Keeps /\ Knows(id, a)'
    BY <1>2, <1>3, <2>1 DEF Keeps, Knows
  <2> QED BY <2>1, <2>2, <2>3 DEF TableOK
<1>5. CASE IdsAt(a) = {}
  <2>1. id = nextId /\ nextId' = nextId + 1 /\ id \notin DOMAIN workers
    BY <1>5 DEF RegisterWorker, TableOK
  <2>2. TableOK'
    BY <1>1, <1>2, <2>1 DEF TableOK
  <2>3. Keeps /\ Knows(id, a)'
    BY <1>2, <1>3, <2>1 DEF Keeps, Knows
  <2> QED BY <2>1, <2>2, <2>3 DEF TableOK
<1> QED BY <1>4, <1>5

\* Heartbeat changes a worker's age and liveness, never its address.
LEMMA HeartbeatKeepsTable ==
    ASSUME TableOK, NEW id, Heartbeat(id)
    PROVE  TableOK' /\ Keeps
<1>1. CASE id \notin DOMAIN workers
  BY <1>1 DEF Heartbeat, TableOK, Keeps, Knows
<1>2. CASE id \in DOMAIN workers
  <2>1. /\ DOMAIN workers' = DOMAIN workers /\ nextId' = nextId
        /\ \A w \in DOMAIN workers :
              workers'[w] = IF w = id THEN Heard(workers[w].address) ELSE workers[w]
    BY <1>2 DEF Heartbeat, Put
  <2>2. /\ Heard(workers[id].address) \in [address : Addrs, age : 0 .. Timeout + 1, alive : BOOLEAN]
        /\ Heard(workers[id].address).address = workers[id].address
    BY <1>2, TimeoutAssumption DEF Heard, TableOK
  <2> QED BY <2>1, <2>2 DEF TableOK, Keeps, Knows
<1> QED BY <1>1, <1>2

\* CheckHeartbeats marks workers dead, and keeps them in the table.
LEMMA CheckKeepsTable ==
    ASSUME TableOK, CheckHeartbeats
    PROVE  TableOK' /\ Keeps
<1>1. /\ DOMAIN workers' = DOMAIN workers /\ nextId' = nextId
      /\ \A w \in DOMAIN workers :
            workers'[w] = IF w \in TimedOut THEN [workers[w] EXCEPT !.alive = FALSE] ELSE workers[w]
  BY DEF CheckHeartbeats
<1>2. \A w \in DOMAIN workers :
         /\ workers'[w] \in [address : Addrs, age : 0 .. Timeout + 1, alive : BOOLEAN]
         /\ workers'[w].address = workers[w].address
  BY <1>1 DEF TableOK
<1> QED BY <1>1, <1>2 DEF TableOK, Keeps, Knows

\* Time only makes the entries older.
LEMMA TickKeepsTable ==
    ASSUME TableOK, Tick
    PROVE  TableOK' /\ Keeps
<1>1. /\ DOMAIN workers' = DOMAIN workers /\ nextId' = nextId
      /\ \A w \in DOMAIN workers :
            workers'[w] = IF workers[w].age <= Timeout
                          THEN [workers[w] EXCEPT !.age = @ + 1] ELSE workers[w]
  BY DEF Tick
<1>2. \A w \in DOMAIN workers :
         /\ workers'[w] \in [address : Addrs, age : 0 .. Timeout + 1, alive : BOOLEAN]
         /\ workers'[w].address = workers[w].address
  BY <1>1, TimeoutAssumption DEF TableOK
<1> QED BY <1>1, <1>2 DEF TableOK, Keeps, Knows

\* Steps that leave WorkerManager alone.
LEMMA UnchangedKeepsTable ==
    ASSUME TableOK, UNCHANGED workerVars
    PROVE  TableOK' /\ Keeps
BY DEF TableOK, Keeps, Knows, workerVars

-----------------------------------------------------------------------------
\* The inductive invariant

\* The types of what the processes and the network hold.
ProcessOK ==
    /\ pending \in SUBSET Nat /\ masterUp \in BOOLEAN
    /\ up \in [Addrs -> BOOLEAN] /\ wid \in [Addrs -> Nat] /\ svc \in [Addrs -> Nat]
    /\ held \in [Addrs -> SUBSET Blocks]
    /\ reports \in SUBSET [block : Blocks, worker : Nat \ {0}, address : Addrs]
    /\ restarts \in Nat

\* The ids the processes hold, and those in reports, are the master's.
IdsKnown ==
    /\ \A a \in Addrs : wid[a] # 0 => Knows(wid[a], a)
    /\ \A a \in Addrs : svc[a] # 0 => Knows(svc[a], a)
    /\ \A m \in reports : Knows(m.worker, m.address)

LocsKnown == \A b \in DOMAIN locs : \A l \in locs[b] : Knows(l.worker, l.address)

Own == restarts = 0 => IdsKnown /\ LocsKnown

IInv == IndexInv /\ TableOK /\ ProcessOK /\ Own

\* No location appears.
Shrinks ==
    /\ DOMAIN locs' \subseteq DOMAIN locs
    /\ \A b \in DOMAIN locs' : locs'[b] \subseteq locs[b]

\* The removals of BlockMaster add no location.
LEMMA RemovalsShrink ==
    ASSUME NEW b, NEW w, RemoveWorkerBlocks(w) \/ RemoveBlock(b) \/ UNCHANGED blockVars
    PROVE  Shrinks
<1>1. CASE RemoveWorkerBlocks(w)
  BY <1>1 DEF RemoveWorkerBlocks, LocsWithout, NotAt, Shrinks
<1>2. CASE RemoveBlock(b)
  BY <1>2 DEF RemoveBlock, Del, Shrinks
<1>3. CASE UNCHANGED blockVars
  BY <1>3 DEF blockVars, Shrinks
<1> QED BY <1>1, <1>2, <1>3

\* AddBlockLocation adds at most the location it is given.
LEMMA AddAddsOne ==
    ASSUME MapsOK, NEW b, NEW w, NEW a, AddBlockLocation(b, w, a, "Memory"),
           NEW c \in DOMAIN locs', NEW l \in locs'[c]
    PROVE  \/ c \in DOMAIN locs /\ l \in locs[c]
           \/ l.worker = w /\ l.address = a
<1>1. CASE c # b
  BY <1>1 DEF AddBlockLocation, Put
<1>2. CASE c = b /\ At(LocsOf(b), w) # {}
  <2>1. b \in DOMAIN locs /\ LocsOf(b) = locs[b]
    BY <1>2 DEF LocsOf, At
  <2>2. \A k \in locs[b] : [k EXCEPT !.tier = "Memory"] = k
    BY <2>1 DEF MapsOK, Location
  <2>3. l \in {IF k.worker = w THEN [k EXCEPT !.tier = "Memory"] ELSE k : k \in LocsOf(b)}
    BY <1>2 DEF AddBlockLocation, Put
  <2> QED BY <1>2, <2>1, <2>2, <2>3
<1>3. CASE c = b /\ At(LocsOf(b), w) = {}
  BY <1>3 DEF AddBlockLocation, Put, LocsOf
<1> QED BY <1>1, <1>2, <1>3

\* Locations that stay where they were remain known.
LEMMA ShrinkKeepsKnown ==
    ASSUME LocsKnown, Keeps, Shrinks
    PROVE  LocsKnown'
BY DEF LocsKnown, Keeps, Shrinks

\* Ids that stay where they were remain known.
LEMMA SameIdsKnown ==
    ASSUME IdsKnown, Keeps, UNCHANGED <<wid, svc>>, reports' \subseteq reports
    PROVE  IdsKnown'
BY DEF IdsKnown, Keeps

\* The invariant holds when nothing has started yet.
LEMMA InitEstablishes == Init => IInv
<1> SUFFICES ASSUME Init PROVE IInv
  OBVIOUS
<1>1. DOMAIN locs = {} /\ DOMAIN wblocks = {} /\ DOMAIN workers = {} /\ nextId = 1
  BY DEF Init, BlockMasterInit, WorkerManagerInit, EmptyMap
<1>2. IndexInv
  BY <1>1 DEF IndexInv, MapsOK, IndexesAgree
<1>3. TableOK
  BY <1>1 DEF TableOK
<1>4. ProcessOK /\ Own
  BY <1>1 DEF Init, ProcessOK, Own, IdsKnown, LocsKnown
<1> QED BY <1>2, <1>3, <1>4 DEF IInv

\* The steps in which the master registers a worker.
LEMMA RegistrationKeeps ==
    ASSUME IInv, NEW a \in Addrs, NEW id,
           StartRegistered(a, id) \/ RegisterAnswerLost(a, id) \/ LateRegister(a, id)
    PROVE  IInv'
<1>1. /\ RegisterWorker(a, id) /\ UNCHANGED <<blockVars, masterUp, pending, held, reports, restarts>>
      /\ up' = up \/ up' = [up EXCEPT ![a] = TRUE]
      /\ wid' = [wid EXCEPT ![a] = id] \/ wid' = [wid EXCEPT ![a] = 0]
      /\ svc' = [svc EXCEPT ![a] = id] \/ svc' = [svc EXCEPT ![a] = 0] \/ svc' = svc
  BY DEF StartRegistered, RegisterAnswerLost, LateRegister, counters
<1>2. TableOK' /\ Keeps /\ Knows(id, a)' /\ id \in Nat \ {0}
  BY <1>1, RegisterKeepsTable DEF IInv
<1>3. IndexInv' /\ Shrinks
  BY <1>1, UnchangedKeepsIndex, RemovalsShrink DEF IInv
<1>4. ProcessOK'
  <2>1. up' \in [Addrs -> BOOLEAN]
    BY <1>1 DEF IInv, ProcessOK
  <2>2. wid' \in [Addrs -> Nat] /\ svc' \in [Addrs -> Nat]
    BY <1>1, <1>2 DEF IInv, ProcessOK
  <2> QED BY <1>1, <2>1, <2>2 DEF IInv, ProcessOK
<1>5. IdsKnown => IdsKnown'
  BY <1>1, <1>2 DEF IInv, ProcessOK, IdsKnown, Keeps
<1>6. Own'
  BY <1>1, <1>2, <1>3, <1>5, ShrinkKeepsKnown DEF IInv, Own
<1> QED BY <1>2, <1>3, <1>4, <1>6 DEF IInv

\* The steps of a worker by itself.
LEMMA WorkerKeeps ==
    ASSUME IInv, NEW a \in Addrs, NEW b,
           \/ StartUnregistered(a) \/ WorkerCrash(a)
           \/ b \in Blocks /\ (CacheBlock(a, b) \/ DropBlock(a, b))
    PROVE  IInv'
<1>1. UNCHANGED <<blockVars, workerVars, pending, masterUp, restarts>>
  BY DEF StartUnregistered, CacheBlock, DropBlock, WorkerCrash, masterVars, counters
<1>2. IndexInv' /\ TableOK' /\ Keeps /\ Shrinks
  BY <1>1, UnchangedKeepsIndex, UnchangedKeepsTable, RemovalsShrink DEF IInv
<1>3. CASE StartUnregistered(a) \/ WorkerCrash(a)
  <2>1. ProcessOK'
    <3>1. up' = [up EXCEPT ![a] = TRUE] \/ up' = [up EXCEPT ![a] = FALSE]
      BY <1>3 DEF StartUnregistered, WorkerCrash
    <3>2. up' \in [Addrs -> BOOLEAN]
      BY <3>1 DEF IInv, ProcessOK
    <3>3. /\ wid' \in [Addrs -> Nat] /\ svc' \in [Addrs -> Nat]
          /\ held' \in [Addrs -> SUBSET Blocks] /\ reports' = reports
      BY <1>3 DEF IInv, ProcessOK, StartUnregistered, WorkerCrash
    <3> QED BY <1>1, <3>2, <3>3 DEF IInv, ProcessOK
  <2>2. IdsKnown => IdsKnown'
    BY <1>2, <1>3 DEF IInv, ProcessOK, IdsKnown, Keeps, StartUnregistered, WorkerCrash
  <2> QED BY <1>1, <1>2, <2>1, <2>2, ShrinkKeepsKnown DEF IInv, Own
<1>4. CASE b \in Blocks /\ (CacheBlock(a, b) \/ DropBlock(a, b))
  <2>1. /\ UNCHANGED <<up, wid, svc>> /\ held' \in [Addrs -> SUBSET Blocks]
        /\ \A m \in reports' : \/ m \in reports
                               \/ /\ m = [block |-> b, worker |-> svc[a], address |-> a]
                                  /\ svc[a] # 0
    BY <1>4 DEF CacheBlock, DropBlock, IInv, ProcessOK
  <2>2. ProcessOK'
    <3>1. svc[a] # 0 => [block |-> b, worker |-> svc[a], address |-> a]
                          \in [block : Blocks, worker : Nat \ {0}, address : Addrs]
      BY <1>4 DEF IInv, ProcessOK
    <3>2. reports' \in SUBSET [block : Blocks, worker : Nat \ {0}, address : Addrs]
      BY <2>1, <3>1 DEF IInv, ProcessOK
    <3> QED BY <1>1, <2>1, <3>2 DEF IInv, ProcessOK
  <2>3. IdsKnown => IdsKnown'
    BY <1>2, <2>1 DEF IdsKnown, Keeps
  <2> QED BY <1>1, <1>2, <2>2, <2>3, ShrinkKeepsKnown DEF IInv, Own
<1> QED BY <1>3, <1>4

\* A report reaches the master, or does not.
LEMMA ReportKeeps ==
    ASSUME IInv, NEW m \in reports, ReportBlockLocation(m) \/ LoseReport(m)
    PROVE  IInv'
<1>1. m.block \in Blocks /\ m.worker \in Nat /\ m.address \in Addrs
  BY DEF IInv, ProcessOK
<1>2. UNCHANGED <<workerVars, pending, masterUp, up, wid, svc, held, restarts>>
      /\ reports' \subseteq reports
  BY DEF ReportBlockLocation, LoseReport, masterVars, processVars, counters
<1>3. TableOK' /\ Keeps
  BY <1>2, UnchangedKeepsTable DEF IInv
<1>4. ProcessOK'
  BY <1>2 DEF IInv, ProcessOK
<1>5. CASE ReportBlockLocation(m)
  <2>1. AddBlockLocation(m.block, m.worker, m.address, "Memory")
    BY <1>5 DEF ReportBlockLocation
  <2>2. IndexInv'
    BY <1>1, <2>1, AddKeepsIndex DEF IInv
  <2>3. IdsKnown /\ LocsKnown => LocsKnown'
    BY <1>3, <2>1, AddAddsOne DEF IInv, IndexInv, IdsKnown, LocsKnown, Keeps
  <2> QED BY <1>2, <1>3, <1>4, <2>2, <2>3, SameIdsKnown DEF IInv, Own
<1>6. CASE LoseReport(m)
  <2>1. IndexInv' /\ Shrinks
    BY <1>6, UnchangedKeepsIndex, RemovalsShrink DEF IInv, LoseReport, masterVars
  <2> QED BY <1>2, <1>3, <1>4, <2>1, SameIdsKnown, ShrinkKeepsKnown DEF IInv, Own
<1> QED BY <1>5, <1>6

\* The heartbeat, and the steps of the master by itself.
LEMMA MasterKeeps ==
    ASSUME IInv, NEW a, NEW b, NEW id,
           \/ SendHeartbeat(a) \/ FindDead \/ PassTime \/ MasterStart \/ DropDead(id)
           \/ b \in Blocks /\ DeleteBlock(b)
    PROVE  IInv'
<1>1. UNCHANGED <<up, wid, svc, held, reports, restarts>> /\ masterUp' \in BOOLEAN
  BY DEF SendHeartbeat, FindDead, PassTime, MasterStart, DropDead, DeleteBlock,
         processVars, counters, IInv, ProcessOK
<1>2. TableOK' /\ Keeps
  BY HeartbeatKeepsTable, CheckKeepsTable, TickKeepsTable, UnchangedKeepsTable
     DEF SendHeartbeat, FindDead, PassTime, MasterStart, DropDead, DeleteBlock,
         masterVars, IInv
<1>3. \/ UNCHANGED blockVars
      \/ id \in Nat /\ RemoveWorkerBlocks(id)
      \/ b \in Blocks /\ RemoveBlock(b)
  BY DEF SendHeartbeat, FindDead, PassTime, MasterStart, DropDead, DeleteBlock,
         masterVars, IInv, ProcessOK
<1>4. IndexInv' /\ Shrinks
  BY <1>3, UnchangedKeepsIndex, RemoveWorkerKeepsIndex, RemoveBlockKeepsIndex, RemovalsShrink
     DEF IInv
<1>5. pending' \in SUBSET Nat
  BY DEF SendHeartbeat, FindDead, PassTime, MasterStart, DropDead, DeleteBlock,
         masterVars, IInv, ProcessOK, TableOK, TimedOut
<1>6. ProcessOK'
  BY <1>1, <1>5 DEF IInv, ProcessOK
<1> QED BY <1>1, <1>2, <1>4, <1>6, SameIdsKnown, ShrinkKeepsKnown DEF IInv, Own

\* A crash of the master empties what it holds in memory.
LEMMA MasterCrashKeeps ==
    ASSUME IInv, MasterCrash
    PROVE  IInv'
<1>1. DOMAIN locs' = {} /\ DOMAIN wblocks' = {} /\ DOMAIN workers' = {} /\ nextId' = 1
  BY DEF MasterCrash, EmptyMap
<1>2. IndexInv' /\ TableOK'
  BY <1>1 DEF IndexInv, MapsOK, IndexesAgree, TableOK
<1>3. /\ masterUp' \in BOOLEAN /\ pending' = {} /\ reports' = {}
      /\ UNCHANGED <<up, wid, svc, held>>
  BY DEF MasterCrash, processVars
<1>4. restarts' \in Nat /\ restarts' # 0
  BY DEF MasterCrash, IInv, ProcessOK
<1>5. ProcessOK'
  BY <1>3, <1>4 DEF IInv, ProcessOK
<1> QED BY <1>2, <1>4, <1>5 DEF IInv, Own

\* A step that changes nothing.
LEMMA StutterKeeps ==
    ASSUME IInv, UNCHANGED vars
    PROVE  IInv'
<1>1. IndexInv' /\ TableOK' /\ Keeps /\ Shrinks
  BY UnchangedKeepsIndex, UnchangedKeepsTable, RemovalsShrink
     DEF vars, blockVars, workerVars, IInv
<1>2. ProcessOK'
  BY DEF vars, IInv, ProcessOK
<1>3. Own'
  BY <1>1, SameIdsKnown, ShrinkKeepsKnown DEF vars, IInv, Own
<1> QED BY <1>1, <1>2, <1>3 DEF IInv

\* One step of the system, action by action.
LEMMA NextKeeps == IInv /\ [Next]_vars => IInv'
<1> SUFFICES ASSUME IInv, [Next]_vars PROVE IInv'
  OBVIOUS
<1>1. CASE \E a \in Addrs : \E id \in Ids :
              StartRegistered(a, id) \/ RegisterAnswerLost(a, id) \/ LateRegister(a, id)
  BY <1>1, RegistrationKeeps
<1>2. CASE \E a \in Addrs : StartUnregistered(a) \/ WorkerCrash(a)
  BY <1>2, WorkerKeeps
<1>3. CASE \E a \in Addrs, b \in Blocks : CacheBlock(a, b) \/ DropBlock(a, b)
  BY <1>3, WorkerKeeps
<1>4. CASE \E m \in reports : ReportBlockLocation(m) \/ LoseReport(m)
  BY <1>4, ReportKeeps
<1>5. CASE \/ \E a \in Addrs : SendHeartbeat(a)
           \/ FindDead \/ PassTime \/ MasterStart
           \/ \E id \in pending : DropDead(id)
           \/ \E b \in Blocks : DeleteBlock(b)
  BY <1>5, MasterKeeps
<1>6. CASE MasterCrash
  BY <1>6, MasterCrashKeeps
<1>7. CASE UNCHANGED vars
  BY <1>7, StutterKeeps
<1> QED BY <1>1, <1>2, <1>3, <1>4, <1>5, <1>6, <1>7 DEF Next

\* The invariant holds in every reachable state.
LEMMA Invariance == Spec => []IInv
BY InitEstablishes, NextKeeps, PTL DEF Spec

\* For any number of workers, blocks and failures, the state of the master, the
\* workers and the calls under way has its type; in particular no service
\* reports a block under the invalid worker id.
THEOREM TypesHold == Spec => []TypeOK
<1>1. IInv => TypeOK
  BY DEF IInv, IndexInv, MapsOK, TableOK, ProcessOK, TypeOK
<1> QED BY <1>1, Invariance, PTL

\* block_locations_ and worker_blocks_ never disagree, so RemoveWorkerBlocks
\* takes every location of a dead worker.
THEOREM IndexesNeverDisagree == Spec => []IndexesAgree
<1>1. IInv => IndexesAgree
  BY DEF IInv, IndexInv
<1> QED BY <1>1, Invariance, PTL

\* Until the master restarts, a worker's id is the master's id for its address,
\* and every location names the worker at its address.
THEOREM IdsStayOwn == Spec => []IdsAreOwn
<1>1. IInv => IdsAreOwn
  BY DEF IInv, Own, IdsKnown, LocsKnown, Knows, IdsAreOwn, IdsAt
<1> QED BY <1>1, Invariance, PTL

=============================================================================
