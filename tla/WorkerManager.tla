---------------------------- MODULE WorkerManager ----------------------------
(***************************************************************************)
(* The master's table of workers.  Every method holds the table's mutex.   *)
(* The time since a worker was last heard of is counted in ticks, and the  *)
(* count stops once it exceeds the timeout: only that comparison is used.  *)
(* The capacities workers report are left out.                             *)
(***************************************************************************)
EXTENDS Naturals, Maps

CONSTANT Timeout     \* heartbeat_timeout_ms_, in ticks

ASSUME TimeoutAssumption == Timeout \in Nat

VARIABLES
    workers,    \* workers_: worker id -> [address, age, alive]
    nextId      \* next_id_; 0 is kInvalidWorkerId

workerVars == <<workers, nextId>>

WorkerManagerInit == workers = EmptyMap /\ nextId = 1

Heard(addr) == [address |-> addr, age |-> 0, alive |-> TRUE]

IdsAt(addr) == {id \in DOMAIN workers : workers[id].address = addr}

\* Slip: next_id_ is read but not incremented.
RegisterWorker_SameId(addr, id) ==
    /\ IF IdsAt(addr) # {} THEN id \in IdsAt(addr) ELSE id = nextId
    /\ workers' = Put(workers, id, Heard(addr))
    /\ UNCHANGED nextId

\* An address that is known keeps its id.
RegisterWorker(addr, id) ==
    /\ IF IdsAt(addr) # {} THEN id \in IdsAt(addr) /\ UNCHANGED nextId
       ELSE id = nextId /\ nextId' = nextId + 1
    /\ workers' = Put(workers, id, Heard(addr))

\* NotFound leaves the table alone.
Heartbeat(id) ==
    /\ workers' = IF id \in DOMAIN workers
                  THEN Put(workers, id, Heard(workers[id].address)) ELSE workers
    /\ UNCHANGED nextId

TimedOut == {id \in DOMAIN workers : workers[id].alive /\ workers[id].age > Timeout}

\* Slip: a silent worker is reported, and not marked.
CheckHeartbeats_Forgets == UNCHANGED workerVars

CheckHeartbeats ==
    /\ workers' = [id \in DOMAIN workers |->
                     IF id \in TimedOut THEN [workers[id] EXCEPT !.alive = FALSE]
                     ELSE workers[id]]
    /\ UNCHANGED nextId

\* The clock moves on.
Tick ==
    /\ \E id \in DOMAIN workers : workers[id].age <= Timeout
    /\ workers' = [id \in DOMAIN workers |->
                     IF workers[id].age <= Timeout THEN [workers[id] EXCEPT !.age = @ + 1]
                     ELSE workers[id]]
    /\ UNCHANGED nextId

=============================================================================
