------------------------------- MODULE Cluster -------------------------------
(***************************************************************************)
(* The master and its workers: registration, heartbeats, the reports of    *)
(* block locations, and the removal of workers that fall silent.           *)
(*                                                                         *)
(* The master keeps its BlockMaster and WorkerManager in memory only.  A   *)
(* call between the processes is executed at most once; it may be executed *)
(* late, and its answer may be lost.  What a worker caches is a set here   *)
(* (the BlockStore module has the detail); it is empty after a restart.    *)
(***************************************************************************)
EXTENDS BlockMaster, WorkerManager

CONSTANTS
    Addrs,         \* addresses, one per worker process
    Blocks,
    MaxRestarts,   \* bound on crashes of the master
    MaxFaults      \* bound on crashes of workers, lost answers to RegisterWorker
                   \* and blocks deleted by clients, together

VARIABLES
    masterUp,
    pending,    \* the dead workers HeartbeatCheckLoop has still to drop
    up,         \* per address: the worker process runs
    wid,        \* per address: worker_id_ of the WorkerServer
    svc,        \* per address: worker_id_ of its WorkerServiceImpl, copied at start
    held,       \* per address: the blocks its BlockStore has
    reports,    \* ReportBlockLocation calls under way
    restarts, faults

masterVars == <<blockVars, workerVars, pending>>
processVars == <<up, wid, svc, held>>
counters == <<restarts, faults>>
vars == <<locs, wblocks, workers, nextId, masterUp, pending, up, wid, svc, held, reports,
          restarts, faults>>

-----------------------------------------------------------------------------
\* Workers

\* WorkerServer::Start.  The id that registration yields, 0 when it fails, is
\* copied into the service; HeartbeatLoop may change wid later, not svc.
StartRegistered(a, id) ==
    /\ masterUp /\ ~up[a]
    /\ RegisterWorker(a, id)
    /\ up' = [up EXCEPT ![a] = TRUE]
    /\ wid' = [wid EXCEPT ![a] = id] /\ svc' = [svc EXCEPT ![a] = id]
    /\ UNCHANGED <<blockVars, masterUp, pending, held, reports, counters>>

StartUnregistered(a) ==
    /\ ~up[a]
    /\ up' = [up EXCEPT ![a] = TRUE]
    /\ wid' = [wid EXCEPT ![a] = 0] /\ svc' = [svc EXCEPT ![a] = 0]
    /\ UNCHANGED <<masterVars, masterUp, held, reports, counters>>

\* The master registers the worker, which does not get the answer: at start,
\* or in HeartbeatLoop.
RegisterAnswerLost(a, id) ==
    /\ masterUp /\ faults < MaxFaults
    /\ up[a] => wid[a] = 0
    /\ RegisterWorker(a, id)
    /\ up' = [up EXCEPT ![a] = TRUE]
    /\ wid' = [wid EXCEPT ![a] = 0] /\ svc' = [svc EXCEPT ![a] = 0]
    /\ faults' = faults + 1
    /\ UNCHANGED <<blockVars, masterUp, pending, held, reports, restarts>>

\* One turn of HeartbeatLoop of a worker that has no id.
LateRegister(a, id) ==
    /\ masterUp /\ up[a] /\ wid[a] = 0
    /\ RegisterWorker(a, id)
    /\ wid' = [wid EXCEPT ![a] = id]
    /\ UNCHANGED <<blockVars, masterUp, pending, up, svc, held, reports, counters>>

\* And of one that has.  A failure, NotFound included, is only logged.
SendHeartbeat(a) ==
    /\ masterUp /\ up[a] /\ wid[a] # 0
    /\ Heartbeat(wid[a])
    /\ UNCHANGED <<blockVars, masterUp, pending, processVars, reports, counters>>

\* Slip: the report is sent although the service has no id.
CacheBlock_Always(a, b) ==
    /\ up[a]
    /\ held' = [held EXCEPT ![a] = @ \cup {b}]
    /\ reports' = reports \cup {[block |-> b, worker |-> svc[a], address |-> a]}
    /\ UNCHANGED <<masterVars, masterUp, up, wid, svc, counters>>

\* WriteBlock and CacheBlock: store the block, then report it as a block in
\* memory, unless the service has no id.
CacheBlock(a, b) ==
    /\ up[a]
    /\ held' = [held EXCEPT ![a] = @ \cup {b}]
    /\ reports' = IF svc[a] = 0 THEN reports
                  ELSE reports \cup {[block |-> b, worker |-> svc[a], address |-> a]}
    /\ UNCHANGED <<masterVars, masterUp, up, wid, svc, counters>>

\* Eviction and RemoveBlock, which nobody tells the master.
DropBlock(a, b) ==
    /\ up[a] /\ b \in held[a]
    /\ held' = [held EXCEPT ![a] = @ \ {b}]
    /\ UNCHANGED <<masterVars, masterUp, up, wid, svc, reports, counters>>

WorkerCrash(a) ==
    /\ up[a] /\ faults < MaxFaults
    /\ faults' = faults + 1
    /\ up' = [up EXCEPT ![a] = FALSE]
    /\ wid' = [wid EXCEPT ![a] = 0] /\ svc' = [svc EXCEPT ![a] = 0]
    /\ held' = [held EXCEPT ![a] = {}]
    /\ UNCHANGED <<masterVars, masterUp, reports, restarts>>

-----------------------------------------------------------------------------
\* The master

ReportBlockLocation(m) ==
    /\ masterUp
    /\ AddBlockLocation(m.block, m.worker, m.address, "Memory")
    /\ reports' = reports \ {m}
    /\ UNCHANGED <<workerVars, masterUp, pending, processVars, counters>>

\* The call fails; the worker ignores that.
LoseReport(m) ==
    /\ reports' = reports \ {m}
    /\ UNCHANGED <<masterVars, masterUp, processVars, counters>>

\* HeartbeatCheckLoop: CheckHeartbeats, then RemoveWorkerBlocks for each worker
\* found dead, in no particular order.
FindDead ==
    /\ masterUp /\ pending = {} /\ TimedOut # {}
    /\ CheckHeartbeats
    /\ pending' = TimedOut
    /\ UNCHANGED <<blockVars, masterUp, processVars, reports, counters>>

DropDead(id) ==
    /\ masterUp /\ id \in pending
    /\ RemoveWorkerBlocks(id)
    /\ pending' = pending \ {id}
    /\ UNCHANGED <<workerVars, masterUp, processVars, reports, counters>>

\* DeleteFile and TruncateFile drop a block.
DeleteBlock(b) ==
    /\ masterUp /\ faults < MaxFaults
    /\ faults' = faults + 1
    /\ RemoveBlock(b)
    /\ UNCHANGED <<workerVars, masterUp, pending, processVars, reports, restarts>>

\* Time passes for the master.
PassTime ==
    /\ masterUp
    /\ Tick
    /\ UNCHANGED <<blockVars, masterUp, pending, processVars, reports, counters>>

\* Calls under way fail with the master.
MasterCrash ==
    /\ masterUp /\ restarts < MaxRestarts
    /\ masterUp' = FALSE /\ restarts' = restarts + 1
    /\ locs' = EmptyMap /\ wblocks' = EmptyMap
    /\ workers' = EmptyMap /\ nextId' = 1
    /\ pending' = {} /\ reports' = {}
    /\ UNCHANGED <<processVars, faults>>

MasterStart ==
    /\ ~masterUp
    /\ masterUp' = TRUE
    /\ UNCHANGED <<masterVars, processVars, reports, counters>>

-----------------------------------------------------------------------------

Init ==
    /\ BlockMasterInit /\ WorkerManagerInit
    /\ masterUp = FALSE /\ pending = {}
    /\ up = [a \in Addrs |-> FALSE]
    /\ wid = [a \in Addrs |-> 0] /\ svc = [a \in Addrs |-> 0]
    /\ held = [a \in Addrs |-> {}]
    /\ reports = {}
    /\ restarts = 0 /\ faults = 0

\* The ids a registration may yield.
Ids == DOMAIN workers \cup {nextId}

Next ==
    \/ \E a \in Addrs : \E id \in Ids : StartRegistered(a, id)
    \/ \E a \in Addrs : StartUnregistered(a)
    \/ \E a \in Addrs : \E id \in Ids : RegisterAnswerLost(a, id)
    \/ \E a \in Addrs : \E id \in Ids : LateRegister(a, id)
    \/ \E a \in Addrs : SendHeartbeat(a)
    \/ \E a \in Addrs, b \in Blocks : CacheBlock(a, b)
    \/ \E a \in Addrs, b \in Blocks : DropBlock(a, b)
    \/ \E a \in Addrs : WorkerCrash(a)
    \/ \E m \in reports : ReportBlockLocation(m)
    \/ \E m \in reports : LoseReport(m)
    \/ FindDead
    \/ \E id \in pending : DropDead(id)
    \/ \E b \in Blocks : DeleteBlock(b)
    \/ PassTime
    \/ MasterCrash
    \/ MasterStart

Spec == Init /\ [][Next]_vars

\* Processes that run keep running: the master comes up and its check loop turns,
\* workers' heartbeat loops turn, and a call that is not lost is executed.
Fairness ==
    /\ WF_vars(MasterStart) /\ WF_vars(PassTime) /\ WF_vars(FindDead)
    /\ WF_vars(\E id \in pending : DropDead(id))
    /\ WF_vars(\E m \in reports : ReportBlockLocation(m))
    /\ \A a \in Addrs : /\ WF_vars(\E id \in Ids : LateRegister(a, id))
                        /\ WF_vars(SendHeartbeat(a))

FairSpec == Spec /\ Fairness

-----------------------------------------------------------------------------
\* Properties

Location == [worker : Nat, address : Addrs, tier : {"Memory"}]

TypeOK ==
    /\ DOMAIN locs \subseteq Blocks /\ \A b \in DOMAIN locs : locs[b] \in SUBSET Location
    /\ DOMAIN wblocks \subseteq Nat /\ \A w \in DOMAIN wblocks : wblocks[w] \in SUBSET Blocks
    /\ DOMAIN workers \subseteq Nat
    /\ \A id \in DOMAIN workers :
          workers[id] \in [address : Addrs, age : 0 .. Timeout + 1, alive : BOOLEAN]
    /\ nextId \in Nat \ {0} /\ pending \in SUBSET Nat /\ masterUp \in BOOLEAN
    /\ up \in [Addrs -> BOOLEAN] /\ wid \in [Addrs -> Nat] /\ svc \in [Addrs -> Nat]
    /\ held \in [Addrs -> SUBSET Blocks]
    /\ reports \in SUBSET [block : Blocks, worker : Nat \ {0}, address : Addrs]

\* block_locations_ and worker_blocks_ say the same: RemoveWorkerBlocks, which
\* goes by the second, leaves no location of a dead worker behind in the first.
\* No worker is listed twice for a block.
IndexesAgree ==
    /\ \A b \in DOMAIN locs : \A l \in locs[b] : b \in BlocksOf(l.worker)
    /\ \A w \in DOMAIN wblocks : \A b \in wblocks[w] : At(LocsOf(b), w) # {}
    /\ \A b \in DOMAIN locs : \A l, m \in locs[b] : l.worker = m.worker => l = m

\* As long as the master has not restarted: the id a worker sends with its
\* heartbeats is the one the master has for its address, and a location carries
\* the address of the worker it names.  So no worker keeps another one alive,
\* and the death of one never takes the locations of another.
IdsAreOwn ==
    restarts = 0 =>
        /\ \A a \in Addrs : wid[a] # 0 => wid[a] \in IdsAt(a)
        /\ \A b \in DOMAIN locs : \A l \in locs[b] : l.worker \in IdsAt(l.address)

\* A worker that is down for good is in the end marked dead (CheckHeartbeats),
\* unless the master restarts.
DownIsNoticed ==
    \A a \in Addrs :
        [](restarts = 0) /\ <>[]~up[a] => <>[](\A id \in IdsAt(a) : ~workers[id].alive)

=============================================================================
