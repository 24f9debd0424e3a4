----------------------------- MODULE DataMover -----------------------------
(* The queue of worker/data_mover.cpp: RPC threads submit tasks, the mover's  *)
(* threads execute them in the background, WaitAll and Stop wait for them.    *)
(*                                                                            *)
(* mu_ is the variable mu.  A wait on a condition variable is three steps, as *)
(* in the library: the predicate is evaluated with mu_ held, the thread goes  *)
(* to sleep and gives mu_ up at once, and a woken thread takes mu_ again.     *)
(* notify_one, notify_all, running_ and active_tasks_ are used without mu_ by *)
(* the code, so those steps do not look at mu.  A woken thread may be woken   *)
(* for nothing (Spurious).  What a task does is module Transfer's; its result *)
(* is only logged and the queue does not depend on it.                        *)
EXTENDS Naturals, Sequences, FiniteSets

CONSTANTS Movers,        \* threads_
          Callers,       \* threads that call Submit, WaitAll and Stop
          MaxTasks,      \* bound on submissions
          MaxSpurious    \* bound on spurious wake-ups

ASSUME MoversAssumption == Movers # {} /\ IsFiniteSet(Movers)
ASSUME CallersAssumption == Movers \cap Callers = {}
ASSUME BoundsAssumption == MaxTasks \in Nat /\ MaxSpurious \in Nat

VARIABLES mu,         \* who holds mu_
          tasks,      \* tasks_, numbered in the order of submission
          running,    \* running_
          active,     \* active_tasks_
          pc,         \* where each thread is
          cur,        \* the task a mover executes
          submitted,  \* how many tasks were ever pushed
          finished,   \* the tasks whose execution has ended
          seen,       \* how many tasks a caller of WaitAll waits for at least
          spurious    \* spurious wake-ups so far

vars == <<mu, tasks, running, active, pc, cur, submitted, finished, seen, spurious>>

Threads == Movers \cup Callers
Nobody == "nobody"

ASSUME NobodyAssumption == Nobody \notin Threads

MoverLabels == {"loop", "lock", "check", "block", "asleep", "take", "run", "done", "tell", "exit"}
CallerLabels == {"idle", "notify", "wlock", "wcheck", "wblock", "wasleep", "snotify", "join"}

\* the sections in which a thread holds mu_ across steps
Holding == {"check", "block", "take", "wcheck", "wblock"}

\* the threads asleep on cv_ and on done_cv_
OnCv == {m \in Movers : pc[m] = "asleep"}
OnDoneCv == {c \in Callers : pc[c] = "wasleep"}

Init ==
    /\ mu = Nobody
    /\ tasks = <<>>
    /\ running = TRUE
    /\ active = 0
    /\ pc = [t \in Threads |-> IF t \in Movers THEN "loop" ELSE "idle"]
    /\ cur = [m \in Movers |-> 0]
    /\ submitted = 0
    /\ finished = {}
    /\ seen = [c \in Callers |-> 0]
    /\ spurious = 0

Goto(t, l) == pc' = [pc EXCEPT ![t] = l]

Acquire(t) == mu = Nobody /\ mu' = t
Release(t) == mu = t /\ mu' = Nobody

-----------------------------------------------------------------------------
(* Submission *)

\* mistake: the notification is sent before the push, so that nobody hears of the task
Submit_NotifiesFirst(c) ==
    /\ pc[c] = "idle"
    /\ submitted < MaxTasks
    /\ mu = Nobody
    /\ submitted' = submitted + 1
    /\ tasks' = Append(tasks, submitted + 1)
    /\ Goto(c, "idle")
    /\ UNCHANGED <<mu, running, active, cur, finished, seen, spurious>>

\* SubmitPreload and SubmitPersist: push under mu_ ...
Submit(c) ==
    /\ pc[c] = "idle"
    /\ submitted < MaxTasks
    /\ mu = Nobody
    /\ submitted' = submitted + 1
    /\ tasks' = Append(tasks, submitted + 1)
    /\ Goto(c, "notify")
    /\ UNCHANGED <<mu, running, active, cur, finished, seen, spurious>>

\* ... and cv_.notify_one() after it: one sleeper wakes, if there is one
NotifyOne(c) ==
    /\ pc[c] = "notify"
    /\ \/ OnCv = {} /\ Goto(c, "idle")
       \/ \E m \in OnCv : pc' = [pc EXCEPT ![c] = "idle", ![m] = "lock"]
    /\ UNCHANGED <<mu, tasks, running, active, cur, submitted, finished, seen, spurious>>

-----------------------------------------------------------------------------
(* WorkerLoop *)

\* while (running_)
Loop(m) ==
    /\ pc[m] = "loop"
    /\ Goto(m, IF running THEN "lock" ELSE "exit")
    /\ UNCHANGED <<mu, tasks, running, active, cur, submitted, finished, seen, spurious>>

Lock(m) ==
    /\ pc[m] = "lock"
    /\ Acquire(m)
    /\ Goto(m, "check")
    /\ UNCHANGED <<tasks, running, active, cur, submitted, finished, seen, spurious>>

\* the predicate of cv_.wait
Check(m) ==
    /\ pc[m] = "check"
    /\ Goto(m, IF tasks # <<>> \/ ~running THEN "take" ELSE "block")
    /\ UNCHANGED <<mu, tasks, running, active, cur, submitted, finished, seen, spurious>>

Block(m) ==
    /\ pc[m] = "block"
    /\ Release(m)
    /\ Goto(m, "asleep")
    /\ UNCHANGED <<tasks, running, active, cur, submitted, finished, seen, spurious>>

\* if (!running_ && tasks_.empty()) return
Leave(m) ==
    /\ pc[m] = "take"
    /\ ~running /\ tasks = <<>>
    /\ Release(m)
    /\ Goto(m, "exit")
    /\ UNCHANGED <<tasks, running, active, cur, submitted, finished, seen, spurious>>

\* mistake: active_tasks_ is counted up by ExecuteTask, after mu_ is released
Take_CountsLate(m) ==
    /\ pc[m] = "take"
    /\ running \/ tasks # <<>>
    /\ cur' = [cur EXCEPT ![m] = Head(tasks)]
    /\ tasks' = Tail(tasks)
    /\ Release(m)
    /\ Goto(m, "run")
    /\ UNCHANGED <<running, active, submitted, finished, seen, spurious>>

\* mistake: the task is looked at but not popped
Take_KeepsFront(m) ==
    /\ pc[m] = "take"
    /\ running \/ tasks # <<>>
    /\ cur' = [cur EXCEPT ![m] = Head(tasks)]
    /\ active' = active + 1
    /\ Release(m)
    /\ Goto(m, "run")
    /\ UNCHANGED <<tasks, running, submitted, finished, seen, spurious>>

Take(m) ==
    /\ pc[m] = "take"
    /\ running \/ tasks # <<>>
    /\ cur' = [cur EXCEPT ![m] = Head(tasks)]
    /\ tasks' = Tail(tasks)
    /\ active' = active + 1
    /\ Release(m)
    /\ Goto(m, "run")
    /\ UNCHANGED <<running, submitted, finished, seen, spurious>>

Execute(m) ==
    /\ pc[m] = "run"
    /\ finished' = finished \cup {cur[m]}
    /\ Goto(m, "done")
    /\ UNCHANGED <<mu, tasks, running, active, cur, submitted, seen, spurious>>

\* active_tasks_--, without mu_
Done(m) ==
    /\ pc[m] = "done"
    /\ active' = active - 1
    /\ Goto(m, "tell")
    /\ UNCHANGED <<mu, tasks, running, cur, submitted, finished, seen, spurious>>

\* done_cv_.notify_all(), without mu_
Tell(m) ==
    /\ pc[m] = "tell"
    /\ pc' = [t \in Threads |-> IF t = m THEN "loop" ELSE IF t \in OnDoneCv THEN "wlock" ELSE pc[t]]
    /\ UNCHANGED <<mu, tasks, running, active, cur, submitted, finished, seen, spurious>>
-----------------------------------------------------------------------------
(* WaitAll *)

WaitAll(c) ==
    /\ pc[c] = "idle"
    /\ seen' = [seen EXCEPT ![c] = submitted]
    /\ Goto(c, "wlock")
    /\ UNCHANGED <<mu, tasks, running, active, cur, submitted, finished, spurious>>

WaitLock(c) ==
    /\ pc[c] = "wlock"
    /\ Acquire(c)
    /\ Goto(c, "wcheck")
    /\ UNCHANGED <<tasks, running, active, cur, submitted, finished, seen, spurious>>

\* the predicate of done_cv_.wait
AllDone == tasks = <<>> /\ active = 0

WaitReturns(c) ==
    /\ pc[c] = "wcheck"
    /\ AllDone
    /\ Release(c)
    /\ Goto(c, "idle")
    /\ UNCHANGED <<tasks, running, active, cur, submitted, finished, seen, spurious>>

WaitGoesOn(c) ==
    /\ pc[c] = "wcheck"
    /\ ~AllDone
    /\ Goto(c, "wblock")
    /\ UNCHANGED <<mu, tasks, running, active, cur, submitted, finished, seen, spurious>>

WaitBlock(c) ==
    /\ pc[c] = "wblock"
    /\ Release(c)
    /\ Goto(c, "wasleep")
    /\ UNCHANGED <<tasks, running, active, cur, submitted, finished, seen, spurious>>

-----------------------------------------------------------------------------
(* Stop: the server calls it once, while RPC threads may still submit *)

Stop(c) ==
    /\ pc[c] = "idle"
    /\ running
    /\ running' = FALSE
    /\ Goto(c, "snotify")
    /\ UNCHANGED <<mu, tasks, active, cur, submitted, finished, seen, spurious>>

\* cv_.notify_all(), without mu_
StopNotify(c) ==
    /\ pc[c] = "snotify"
    /\ pc' = [t \in Threads |-> IF t = c THEN "join" ELSE IF t \in OnCv THEN "lock" ELSE pc[t]]
    /\ UNCHANGED <<mu, tasks, running, active, cur, submitted, finished, seen, spurious>>

\* mistake: Stop waits for one of the threads
Join_One(c) ==
    /\ pc[c] = "join"
    /\ \E m \in Movers : pc[m] = "exit"
    /\ Goto(c, "idle")
    /\ UNCHANGED <<mu, tasks, running, active, cur, submitted, finished, seen, spurious>>

Join(c) ==
    /\ pc[c] = "join"
    /\ \A m \in Movers : pc[m] = "exit"
    /\ Goto(c, "idle")
    /\ UNCHANGED <<mu, tasks, running, active, cur, submitted, finished, seen, spurious>>

-----------------------------------------------------------------------------

\* A wait may return although nobody notified.
Spurious(t) ==
    /\ spurious < MaxSpurious
    /\ \/ t \in OnCv /\ Goto(t, "lock")
       \/ t \in OnDoneCv /\ Goto(t, "wlock")
    /\ spurious' = spurious + 1
    /\ UNCHANGED <<mu, tasks, running, active, cur, submitted, finished, seen>>

MoverStep(m) ==
    \/ Loop(m) \/ Lock(m) \/ Check(m) \/ Block(m) \/ Leave(m)
    \/ Take(m) \/ Execute(m) \/ Done(m) \/ Tell(m)

\* what a caller does once it is in a call
CallStep(c) ==
    \/ NotifyOne(c) \/ WaitLock(c) \/ WaitReturns(c) \/ WaitGoesOn(c) \/ WaitBlock(c)
    \/ StopNotify(c) \/ Join(c)

Next ==
    \/ \E m \in Movers : MoverStep(m)
    \/ \E c \in Callers : Submit(c) \/ WaitAll(c) \/ Stop(c) \/ CallStep(c)
    \/ \E t \in Threads : Spurious(t)

\* Threads are scheduled; nobody has to call, and nobody has to be woken.
Fairness ==
    /\ \A m \in Movers : WF_vars(MoverStep(m))
    /\ \A c \in Callers : WF_vars(CallStep(c))

Spec == Init /\ [][Next]_vars
FairSpec == Spec /\ Fairness

\* In addition, a mutex that is free again and again is acquired in the end.
FairLocksSpec ==
    /\ FairSpec
    /\ \A m \in Movers : SF_vars(Lock(m))
    /\ \A c \in Callers : SF_vars(WaitLock(c))

-----------------------------------------------------------------------------
(* Properties *)

TypeOK ==
    /\ mu \in Threads \cup {Nobody}
    /\ tasks \in Seq(Nat)
    /\ running \in BOOLEAN
    /\ active \in Nat
    /\ pc \in [Threads -> MoverLabels \cup CallerLabels]
    /\ \A m \in Movers : pc[m] \in MoverLabels
    /\ \A c \in Callers : pc[c] \in CallerLabels
    /\ cur \in [Movers -> Nat]
    /\ submitted \in Nat
    /\ finished \subseteq Nat
    /\ seen \in [Callers -> Nat]
    /\ spurious \in Nat

\* Every task ever submitted is in one place: queued in order of submission,
\* executed by one mover, or finished; none is taken twice, none gets lost
\* between the queue and the movers, also when Stop races the loop.
InOnePlace ==
    /\ \A i \in 1..Len(tasks) : tasks[i] = submitted - Len(tasks) + i
    /\ \A t \in 1..(submitted - Len(tasks)) :
          (t \in finished) <=> ~(\E m \in Movers : pc[m] = "run" /\ cur[m] = t)
    /\ \A m, n \in Movers : pc[m] = "run" /\ pc[n] = "run" /\ cur[m] = cur[n] => m = n

\* No task waits for a wake-up that nobody will send: as long as the mover
\* runs, a queued task has a mover that is awake, or a submitter that is about
\* to notify.  Pushing under mu_ and notifying outside of it is enough.
WorkIsSeen ==
    running /\ tasks # <<>> =>
        \/ \E m \in Movers : pc[m] \notin {"asleep", "exit"}
        \/ \E c \in Callers : pc[c] = "notify"

\* WaitAll is a barrier: when it returns, every task that was submitted before
\* the call has been executed to its end, although active_tasks_ is counted
\* without the mutex.
WaitAllIsABarrier ==
    [][\A c \in Callers : pc[c] = "wcheck" /\ pc'[c] = "idle" => 1..seen[c] \subseteq finished]_vars

\* Stop returns only when no mover thread is left and no task is under way.
StopIsFinal ==
    [][\A c \in Callers : pc[c] = "join" /\ pc'[c] = "idle" =>
          active' = 0 /\ \A m \in Movers : pc'[m] = "exit"]_vars

\* A submitted task is executed in the end, unless the mover is stopped.
EveryTaskRuns ==
    \A t \in 1..MaxTasks : (t <= submitted) ~> (t \in finished \/ ~running)

\* WaitAll, unless the mover is stopped meanwhile, and Stop return in the end:
\* no wait is left without the notification it waits for.
CallsReturn ==
    \A c \in Callers : /\ (pc[c] = "wlock") ~> (pc[c] = "idle" \/ ~running)
                      /\ (pc[c] = "snotify") ~> (pc[c] = "idle")

=============================================================================
