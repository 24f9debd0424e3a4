-------------------------- MODULE DataMover_proofs --------------------------
(***************************************************************************)
(* For any number of movers, callers, tasks and spurious wake-ups: the     *)
(* types hold, no task is lost or executed twice, no task is left to       *)
(* movers that are all asleep, WaitAll is a barrier and Stop is final.     *)
(*                                                                         *)
(* None of these is inductive.  The invariant IInv adds what the mutex     *)
(* gives (Mutex, Waits), that active_tasks_ counts the movers between      *)
(* their increment and their decrement (Counted), and how the tasks in the *)
(* queue, in the movers and behind them make up those submitted (Places).  *)
(***************************************************************************)
EXTENDS DataMover, FiniteSetTheorems, TLAPS

Busy == {m \in Movers : pc[m] \in {"run", "done"}}

\* The types, but for that of active_tasks_, which is Counted's.
Types ==
    /\ mu \in Threads \cup {Nobody}
    /\ tasks \in Seq(Nat)
    /\ running \in BOOLEAN
    /\ pc \in [Threads -> MoverLabels \cup CallerLabels]
    /\ \A m \in Movers : pc[m] \in MoverLabels
    /\ \A c \in Callers : pc[c] \in CallerLabels
    /\ cur \in [Movers -> Nat]
    /\ submitted \in Nat
    /\ finished \subseteq Nat
    /\ seen \in [Callers -> Nat]
    /\ spurious \in Nat

\* A thread holds mu_ in the sections that say so, and in no other.
Mutex == \A t \in Threads : pc[t] \in Holding <=> mu = t

\* What a mover has found out about the queue stays true while it holds mu_.
Waits == \A m \in Movers : /\ pc[m] = "block" => tasks = <<>>
                           /\ pc[m] = "take" => tasks # <<>> \/ ~running
                           /\ pc[m] = "exit" => ~running

Counted == active = Cardinality(Busy)

\* The queue ends with the last task submitted; those taken are run or finished.
Places ==
    /\ Len(tasks) <= submitted
    /\ finished \subseteq 1 .. submitted - Len(tasks)
    /\ \A m \in Movers : pc[m] = "run" => cur[m] \in 1 .. submitted - Len(tasks)
    /\ \A c \in Callers : seen[c] <= submitted

IInv == Types /\ Mutex /\ Waits /\ Counted /\ Places /\ InOnePlace /\ WorkIsSeen

USE DEF Threads

\* Every step keeps the types.
LEMMA TypesStep ==
    ASSUME Types, Waits, [Next]_vars
    PROVE  Types'
<1>1. ASSUME NEW m \in Movers, Loop(m) PROVE Types'
  BY <1>1 DEF Loop, Goto, Types, MoverLabels, CallerLabels, Waits
<1>2. ASSUME NEW m \in Movers, Lock(m) PROVE Types'
  BY <1>2 DEF Lock, Goto, Acquire, Types, MoverLabels, CallerLabels, Waits
<1>3. ASSUME NEW m \in Movers, Check(m) PROVE Types'
  BY <1>3 DEF Check, Goto, Types, MoverLabels, CallerLabels, Waits
<1>4. ASSUME NEW m \in Movers, Block(m) PROVE Types'
  BY <1>4 DEF Block, Goto, Release, Types, MoverLabels, CallerLabels, Waits
<1>5. ASSUME NEW m \in Movers, Leave(m) PROVE Types'
  BY <1>5 DEF Leave, Goto, Release, Types, MoverLabels, CallerLabels, Waits
<1>6. ASSUME NEW m \in Movers, Take(m) PROVE Types'
  BY <1>6 DEF Take, Goto, Release, Types, MoverLabels, CallerLabels, Waits
<1>7. ASSUME NEW m \in Movers, Execute(m) PROVE Types'
  BY <1>7 DEF Execute, Goto, Types, MoverLabels, CallerLabels, Waits
<1>8. ASSUME NEW m \in Movers, Done(m) PROVE Types'
  BY <1>8 DEF Done, Goto, Types, MoverLabels, CallerLabels, Waits
<1>9. ASSUME NEW m \in Movers, Tell(m) PROVE Types'
  BY <1>9 DEF Tell, OnDoneCv, Types, MoverLabels, CallerLabels, Waits
<1>10. ASSUME NEW c \in Callers, Submit(c) PROVE Types'
  BY <1>10 DEF Submit, Goto, Types, MoverLabels, CallerLabels, Waits
<1>11. ASSUME NEW c \in Callers, WaitAll(c) PROVE Types'
  BY <1>11 DEF WaitAll, Goto, Types, MoverLabels, CallerLabels, Waits
<1>12. ASSUME NEW c \in Callers, Stop(c) PROVE Types'
  BY <1>12 DEF Stop, Goto, Types, MoverLabels, CallerLabels, Waits
<1>13. ASSUME NEW c \in Callers, NotifyOne(c) PROVE Types'
  BY <1>13 DEF NotifyOne, Goto, OnCv, Types, MoverLabels, CallerLabels, Waits
<1>14. ASSUME NEW c \in Callers, WaitLock(c) PROVE Types'
  BY <1>14 DEF WaitLock, Goto, Acquire, Types, MoverLabels, CallerLabels, Waits
<1>15. ASSUME NEW c \in Callers, WaitReturns(c) PROVE Types'
  BY <1>15 DEF WaitReturns, Goto, Release, AllDone, Types, MoverLabels, CallerLabels, Waits
<1>16. ASSUME NEW c \in Callers, WaitGoesOn(c) PROVE Types'
  BY <1>16 DEF WaitGoesOn, Goto, AllDone, Types, MoverLabels, CallerLabels, Waits
<1>17. ASSUME NEW c \in Callers, WaitBlock(c) PROVE Types'
  BY <1>17 DEF WaitBlock, Goto, Release, Types, MoverLabels, CallerLabels, Waits
<1>18. ASSUME NEW c \in Callers, StopNotify(c) PROVE Types'
  BY <1>18 DEF StopNotify, OnCv, Types, MoverLabels, CallerLabels, Waits
<1>19. ASSUME NEW c \in Callers, Join(c) PROVE Types'
  BY <1>19 DEF Join, Goto, Types, MoverLabels, CallerLabels, Waits
<1>20. ASSUME NEW t \in Threads, Spurious(t) PROVE Types'
  <2>1. CASE t \in Movers /\ pc[t] = "asleep" /\ Goto(t, "lock")
    BY <1>20, <2>1 DEF Spurious, Types, Goto, MoverLabels, CallerLabels
  <2>2. CASE t \in Callers /\ pc[t] = "wasleep" /\ Goto(t, "wlock")
    BY <1>20, <2>2 DEF Spurious, Types, Goto, MoverLabels, CallerLabels
  <2>3. QED
    BY <1>20, <2>1, <2>2 DEF Spurious, OnCv, OnDoneCv
<1>21. ASSUME UNCHANGED vars PROVE Types'
  BY <1>21 DEF vars, Types, MoverLabels, CallerLabels, Waits
<1>22. QED
  BY <1>1, <1>2, <1>3, <1>4, <1>5, <1>6, <1>7, <1>8, <1>9, <1>10, <1>11, <1>12, <1>13, <1>14, <1>15, <1>16, <1>17, <1>18, <1>19, <1>20, <1>21 DEF Next, MoverStep, CallStep

\* Every step keeps the mutex exclusive.
LEMMA MutexStep ==
    ASSUME Types, Mutex, [Next]_vars
    PROVE  Mutex'
<1>1. ASSUME NEW m \in Movers, Loop(m) PROVE Mutex'
  BY <1>1, CallersAssumption, NobodyAssumption DEF Loop, Goto, Types, Mutex, Holding
<1>2. ASSUME NEW m \in Movers, Lock(m) PROVE Mutex'
  BY <1>2, CallersAssumption, NobodyAssumption DEF Lock, Goto, Acquire, Types, Mutex, Holding
<1>3. ASSUME NEW m \in Movers, Check(m) PROVE Mutex'
  BY <1>3, CallersAssumption, NobodyAssumption DEF Check, Goto, Types, Mutex, Holding
<1>4. ASSUME NEW m \in Movers, Block(m) PROVE Mutex'
  BY <1>4, CallersAssumption, NobodyAssumption DEF Block, Goto, Release, Types, Mutex, Holding
<1>5. ASSUME NEW m \in Movers, Leave(m) PROVE Mutex'
  BY <1>5, CallersAssumption, NobodyAssumption DEF Leave, Goto, Release, Types, Mutex, Holding
<1>6. ASSUME NEW m \in Movers, Take(m) PROVE Mutex'
  BY <1>6, CallersAssumption, NobodyAssumption DEF Take, Goto, Release, Types, Mutex, Holding
<1>7. ASSUME NEW m \in Movers, Execute(m) PROVE Mutex'
  BY <1>7, CallersAssumption, NobodyAssumption DEF Execute, Goto, Types, Mutex, Holding
<1>8. ASSUME NEW m \in Movers, Done(m) PROVE Mutex'
  BY <1>8, CallersAssumption, NobodyAssumption DEF Done, Goto, Types, Mutex, Holding
<1>9. ASSUME NEW m \in Movers, Tell(m) PROVE Mutex'
  BY <1>9, CallersAssumption, NobodyAssumption DEF Tell, OnDoneCv, Types, Mutex, Holding
<1>10. ASSUME NEW c \in Callers, Submit(c) PROVE Mutex'
  BY <1>10, CallersAssumption, NobodyAssumption DEF Submit, Goto, Types, Mutex, Holding
<1>11. ASSUME NEW c \in Callers, WaitAll(c) PROVE Mutex'
  BY <1>11, CallersAssumption, NobodyAssumption DEF WaitAll, Goto, Types, Mutex, Holding
<1>12. ASSUME NEW c \in Callers, Stop(c) PROVE Mutex'
  BY <1>12, CallersAssumption, NobodyAssumption DEF Stop, Goto, Types, Mutex, Holding
<1>13. ASSUME NEW c \in Callers, NotifyOne(c) PROVE Mutex'
  BY <1>13, CallersAssumption, NobodyAssumption DEF NotifyOne, Goto, OnCv, Types, Mutex, Holding
<1>14. ASSUME NEW c \in Callers, WaitLock(c) PROVE Mutex'
  BY <1>14, CallersAssumption, NobodyAssumption DEF WaitLock, Goto, Acquire, Types, Mutex, Holding
<1>15. ASSUME NEW c \in Callers, WaitReturns(c) PROVE Mutex'
  BY <1>15, CallersAssumption, NobodyAssumption DEF WaitReturns, Goto, Release, AllDone, Types, Mutex, Holding
<1>16. ASSUME NEW c \in Callers, WaitGoesOn(c) PROVE Mutex'
  BY <1>16, CallersAssumption, NobodyAssumption DEF WaitGoesOn, Goto, AllDone, Types, Mutex, Holding
<1>17. ASSUME NEW c \in Callers, WaitBlock(c) PROVE Mutex'
  BY <1>17, CallersAssumption, NobodyAssumption DEF WaitBlock, Goto, Release, Types, Mutex, Holding
<1>18. ASSUME NEW c \in Callers, StopNotify(c) PROVE Mutex'
  BY <1>18, CallersAssumption, NobodyAssumption DEF StopNotify, OnCv, Types, Mutex, Holding
<1>19. ASSUME NEW c \in Callers, Join(c) PROVE Mutex'
  BY <1>19, CallersAssumption, NobodyAssumption DEF Join, Goto, Types, Mutex, Holding
<1>20. ASSUME NEW t \in Threads, Spurious(t) PROVE Mutex'
  BY <1>20, CallersAssumption, NobodyAssumption DEF Spurious, Goto, OnCv, OnDoneCv, Types, Mutex, Holding
<1>21. ASSUME UNCHANGED vars PROVE Mutex'
  BY <1>21, CallersAssumption, NobodyAssumption DEF vars, Types, Mutex, Holding
<1>22. QED
  BY <1>1, <1>2, <1>3, <1>4, <1>5, <1>6, <1>7, <1>8, <1>9, <1>10, <1>11, <1>12, <1>13, <1>14, <1>15, <1>16, <1>17, <1>18, <1>19, <1>20, <1>21 DEF Next, MoverStep, CallStep

\* Every step keeps what movers know of the queue.
LEMMA WaitsStep ==
    ASSUME Types, Mutex, Waits, [Next]_vars
    PROVE  Waits'
<1>1. ASSUME NEW m \in Movers, Loop(m) PROVE Waits'
  BY <1>1, CallersAssumption, NobodyAssumption DEF Loop, Goto, Types, Mutex, Holding, Waits
<1>2. ASSUME NEW m \in Movers, Lock(m) PROVE Waits'
  BY <1>2, CallersAssumption, NobodyAssumption DEF Lock, Goto, Acquire, Types, Mutex, Holding, Waits
<1>3. ASSUME NEW m \in Movers, Check(m) PROVE Waits'
  BY <1>3, CallersAssumption, NobodyAssumption DEF Check, Goto, Types, Mutex, Holding, Waits
<1>4. ASSUME NEW m \in Movers, Block(m) PROVE Waits'
  BY <1>4, CallersAssumption, NobodyAssumption DEF Block, Goto, Release, Types, Mutex, Holding, Waits
<1>5. ASSUME NEW m \in Movers, Leave(m) PROVE Waits'
  BY <1>5, CallersAssumption, NobodyAssumption DEF Leave, Goto, Release, Types, Mutex, Holding, Waits
<1>6. ASSUME NEW m \in Movers, Take(m) PROVE Waits'
  BY <1>6, CallersAssumption, NobodyAssumption DEF Take, Goto, Release, Types, Mutex, Holding, Waits
<1>7. ASSUME NEW m \in Movers, Execute(m) PROVE Waits'
  BY <1>7, CallersAssumption, NobodyAssumption DEF Execute, Goto, Types, Mutex, Holding, Waits
<1>8. ASSUME NEW m \in Movers, Done(m) PROVE Waits'
  BY <1>8, CallersAssumption, NobodyAssumption DEF Done, Goto, Types, Mutex, Holding, Waits
<1>9. ASSUME NEW m \in Movers, Tell(m) PROVE Waits'
  BY <1>9, CallersAssumption, NobodyAssumption DEF Tell, OnDoneCv, Types, Mutex, Holding, Waits
<1>10. ASSUME NEW c \in Callers, Submit(c) PROVE Waits'
  BY <1>10, CallersAssumption, NobodyAssumption DEF Submit, Goto, Types, Mutex, Holding, Waits
<1>11. ASSUME NEW c \in Callers, WaitAll(c) PROVE Waits'
  BY <1>11, CallersAssumption, NobodyAssumption DEF WaitAll, Goto, Types, Mutex, Holding, Waits
<1>12. ASSUME NEW c \in Callers, Stop(c) PROVE Waits'
  BY <1>12, CallersAssumption, NobodyAssumption DEF Stop, Goto, Types, Mutex, Holding, Waits
<1>13. ASSUME NEW c \in Callers, NotifyOne(c) PROVE Waits'
  BY <1>13, CallersAssumption, NobodyAssumption, SMTT(30) DEF NotifyOne, Goto, OnCv, Types, Mutex, Holding, Waits
<1>14. ASSUME NEW c \in Callers, WaitLock(c) PROVE Waits'
  BY <1>14, CallersAssumption, NobodyAssumption DEF WaitLock, Goto, Acquire, Types, Mutex, Holding, Waits
<1>15. ASSUME NEW c \in Callers, WaitReturns(c) PROVE Waits'
  BY <1>15, CallersAssumption, NobodyAssumption DEF WaitReturns, Goto, Release, AllDone, Types, Mutex, Holding, Waits
<1>16. ASSUME NEW c \in Callers, WaitGoesOn(c) PROVE Waits'
  BY <1>16, CallersAssumption, NobodyAssumption DEF WaitGoesOn, Goto, AllDone, Types, Mutex, Holding, Waits
<1>17. ASSUME NEW c \in Callers, WaitBlock(c) PROVE Waits'
  BY <1>17, CallersAssumption, NobodyAssumption DEF WaitBlock, Goto, Release, Types, Mutex, Holding, Waits
<1>18. ASSUME NEW c \in Callers, StopNotify(c) PROVE Waits'
  BY <1>18, CallersAssumption, NobodyAssumption DEF StopNotify, OnCv, Types, Mutex, Holding, Waits
<1>19. ASSUME NEW c \in Callers, Join(c) PROVE Waits'
  BY <1>19, CallersAssumption, NobodyAssumption DEF Join, Goto, Types, Mutex, Holding, Waits
<1>20. ASSUME NEW t \in Threads, Spurious(t) PROVE Waits'
  BY <1>20, CallersAssumption, NobodyAssumption DEF Spurious, Goto, OnCv, OnDoneCv, Types, Mutex, Holding, Waits
<1>21. ASSUME UNCHANGED vars PROVE Waits'
  BY <1>21, CallersAssumption, NobodyAssumption DEF vars, Types, Mutex, Holding, Waits
<1>22. QED
  BY <1>1, <1>2, <1>3, <1>4, <1>5, <1>6, <1>7, <1>8, <1>9, <1>10, <1>11, <1>12, <1>13, <1>14, <1>15, <1>16, <1>17, <1>18, <1>19, <1>20, <1>21 DEF Next, MoverStep, CallStep

\* Every step keeps the tasks in their places.
LEMMA PlacesStep ==
    ASSUME Types, Waits, Places, InOnePlace, [Next]_vars
    PROVE  Places'
<1>1. ASSUME NEW m \in Movers, Loop(m) PROVE Places'
  BY <1>1, CallersAssumption DEF Loop, Goto, Types, Waits, Places
<1>2. ASSUME NEW m \in Movers, Lock(m) PROVE Places'
  BY <1>2, CallersAssumption DEF Lock, Goto, Acquire, Types, Waits, Places
<1>3. ASSUME NEW m \in Movers, Check(m) PROVE Places'
  BY <1>3, CallersAssumption DEF Check, Goto, Types, Waits, Places
<1>4. ASSUME NEW m \in Movers, Block(m) PROVE Places'
  BY <1>4, CallersAssumption DEF Block, Goto, Release, Types, Waits, Places
<1>5. ASSUME NEW m \in Movers, Leave(m) PROVE Places'
  BY <1>5, CallersAssumption DEF Leave, Goto, Release, Types, Waits, Places
<1>6. ASSUME NEW m \in Movers, Take(m) PROVE Places'
  <2>1. Len(tasks) \in Nat /\ Len(tasks) > 0 /\ tasks' = Tail(tasks) /\ Len(tasks') = Len(tasks) - 1
    BY <1>6 DEF Take, Types, Waits
  <2>2. \A i \in 1 .. Len(tasks) : tasks[i] = submitted - Len(tasks) + i
    BY DEF InOnePlace
  <2>3. Head(tasks) = submitted - Len(tasks) + 1
    BY <2>1, <2>2 DEF Types
  <2>4. \A n \in Movers : pc'[n] = "run" => cur'[n] \in 1 .. submitted' - Len(tasks')
    BY <1>6, <2>1, <2>3 DEF Take, Goto, Types, Places
  <2>5. QED
    BY <1>6, <2>1, <2>4 DEF Take, Types, Places
<1>7. ASSUME NEW m \in Movers, Execute(m) PROVE Places'
  BY <1>7, CallersAssumption DEF Execute, Goto, Types, Waits, Places
<1>8. ASSUME NEW m \in Movers, Done(m) PROVE Places'
  BY <1>8, CallersAssumption DEF Done, Goto, Types, Waits, Places
<1>9. ASSUME NEW m \in Movers, Tell(m) PROVE Places'
  BY <1>9, CallersAssumption DEF Tell, OnDoneCv, Types, Waits, Places
<1>10. ASSUME NEW c \in Callers, Submit(c) PROVE Places'
  BY <1>10, CallersAssumption DEF Submit, Goto, Types, Waits, Places
<1>11. ASSUME NEW c \in Callers, WaitAll(c) PROVE Places'
  BY <1>11, CallersAssumption DEF WaitAll, Goto, Types, Waits, Places
<1>12. ASSUME NEW c \in Callers, Stop(c) PROVE Places'
  BY <1>12, CallersAssumption DEF Stop, Goto, Types, Waits, Places
<1>13. ASSUME NEW c \in Callers, NotifyOne(c) PROVE Places'
  BY <1>13, CallersAssumption DEF NotifyOne, Goto, OnCv, Types, Waits, Places
<1>14. ASSUME NEW c \in Callers, WaitLock(c) PROVE Places'
  BY <1>14, CallersAssumption DEF WaitLock, Goto, Acquire, Types, Waits, Places
<1>15. ASSUME NEW c \in Callers, WaitReturns(c) PROVE Places'
  BY <1>15, CallersAssumption DEF WaitReturns, Goto, Release, AllDone, Types, Waits, Places
<1>16. ASSUME NEW c \in Callers, WaitGoesOn(c) PROVE Places'
  BY <1>16, CallersAssumption DEF WaitGoesOn, Goto, AllDone, Types, Waits, Places
<1>17. ASSUME NEW c \in Callers, WaitBlock(c) PROVE Places'
  BY <1>17, CallersAssumption DEF WaitBlock, Goto, Release, Types, Waits, Places
<1>18. ASSUME NEW c \in Callers, StopNotify(c) PROVE Places'
  BY <1>18, CallersAssumption DEF StopNotify, OnCv, Types, Waits, Places
<1>19. ASSUME NEW c \in Callers, Join(c) PROVE Places'
  BY <1>19, CallersAssumption DEF Join, Goto, Types, Waits, Places
<1>20. ASSUME NEW t \in Threads, Spurious(t) PROVE Places'
  BY <1>20, CallersAssumption DEF Spurious, Goto, OnCv, OnDoneCv, Types, Waits, Places
<1>21. ASSUME UNCHANGED vars PROVE Places'
  BY <1>21, CallersAssumption DEF vars, Types, Waits, Places
<1>22. QED
  BY <1>1, <1>2, <1>3, <1>4, <1>5, <1>6, <1>7, <1>8, <1>9, <1>10, <1>11, <1>12, <1>13, <1>14, <1>15, <1>16, <1>17, <1>18, <1>19, <1>20, <1>21 DEF Next, MoverStep, CallStep

\* No step loses or doubles a task.
LEMMA InOnePlaceStep ==
    ASSUME Types, Waits, Places, InOnePlace, [Next]_vars
    PROVE  InOnePlace'
<1>1. ASSUME NEW m \in Movers, Loop(m) PROVE InOnePlace'
  BY <1>1, CallersAssumption DEF Loop, Goto, Types, Waits, Places, InOnePlace
<1>2. ASSUME NEW m \in Movers, Lock(m) PROVE InOnePlace'
  BY <1>2, CallersAssumption DEF Lock, Goto, Acquire, Types, Waits, Places, InOnePlace
<1>3. ASSUME NEW m \in Movers, Check(m) PROVE InOnePlace'
  BY <1>3, CallersAssumption DEF Check, Goto, Types, Waits, Places, InOnePlace
<1>4. ASSUME NEW m \in Movers, Block(m) PROVE InOnePlace'
  BY <1>4, CallersAssumption DEF Block, Goto, Release, Types, Waits, Places, InOnePlace
<1>5. ASSUME NEW m \in Movers, Leave(m) PROVE InOnePlace'
  BY <1>5, CallersAssumption DEF Leave, Goto, Release, Types, Waits, Places, InOnePlace
<1>6. ASSUME NEW m \in Movers, Take(m) PROVE InOnePlace'
  <2>0. Len(tasks) \in Nat /\ Len(tasks) > 0 /\ tasks' = Tail(tasks)
    BY <1>6 DEF Take, Types, Waits
  <2>1. Len(tasks) \in Nat /\ Len(tasks) > 0 /\ Len(tasks') = Len(tasks) - 1
    BY <2>0 DEF Types
  <2>2. \A i \in 1 .. Len(tasks) : tasks[i] = submitted - Len(tasks) + i
    BY DEF InOnePlace
  <2> DEFINE k == submitted - Len(tasks) + 1
  <2>3. Head(tasks) = k
    BY <2>1, <2>2 DEF Types
  <2>4. ASSUME NEW i \in 1 .. Len(tasks') PROVE tasks'[i] = submitted - Len(tasks') + i
    <3>1. tasks'[i] = tasks[i + 1] /\ i + 1 \in 1 .. Len(tasks)
      BY <2>0 DEF Types
    <3>2. tasks[i + 1] = submitted - Len(tasks) + (i + 1)
      BY <2>2, <3>1
    <3>3. submitted \in Int /\ i \in Int /\ Len(tasks) \in Int
      BY <2>1 DEF Types
    <3>4. QED
      BY <2>1, <3>1, <3>2, <3>3
  <2>5. /\ UNCHANGED <<submitted, finished>>
        /\ cur' = [cur EXCEPT ![m] = k] /\ pc' = [pc EXCEPT ![m] = "run"] /\ pc[m] = "take"
    BY <1>6, <2>3 DEF Take, Goto
  <2>6. k \in Nat /\ submitted' - Len(tasks') = k /\ \A t \in 1 .. k : t # k => t \in 1 .. k - 1
    <3>1. submitted \in Nat /\ submitted' = submitted /\ Len(tasks) <= submitted
      BY <2>5 DEF Types, Places
    <3>2. k \in Nat /\ submitted' - Len(tasks') = k
      BY <2>1, <3>1
    <3>3. QED
      BY <3>2
  <2>7. /\ \A n \in Movers : pc'[n] = "run" <=> pc[n] = "run" \/ n = m
        /\ cur'[m] = k /\ \A n \in Movers \ {m} : cur'[n] = cur[n]
    BY <2>5 DEF Types
  <2>8. k \notin finished /\ \A n \in Movers : pc[n] = "run" => cur[n] # k
    BY <2>1 DEF Types, Places
  <2> HIDE DEF k
  <2>9. \A t \in 1 .. k : (t \in finished') <=> ~(\E n \in Movers : pc'[n] = "run" /\ cur'[n] = t)
    <3>1. (k \in finished') <=> ~(\E n \in Movers : pc'[n] = "run" /\ cur'[n] = k)
      BY <2>5, <2>7, <2>8
    <3>2. ASSUME NEW t \in 1 .. k - 1
          PROVE  (t \in finished') <=> ~(\E n \in Movers : pc'[n] = "run" /\ cur'[n] = t)
      <4>1. (t \in finished) <=> ~(\E n \in Movers : pc[n] = "run" /\ cur[n] = t)
        <5>1. t \in 1 .. submitted - Len(tasks)
          BY <2>1 DEF Types, k
        <5>2. QED
          BY <5>1 DEF InOnePlace
      <4>2. t # k
        BY <2>6
      <4>3. (\E n \in Movers : pc'[n] = "run" /\ cur'[n] = t) <=> (\E n \in Movers : pc[n] = "run" /\ cur[n] = t)
        BY <2>5, <2>7, <4>2
      <4>4. t \in finished' <=> t \in finished
        BY <2>5
      <4>5. QED
        BY <4>1, <4>3, <4>4
    <3>3. QED
      BY <2>6, <3>1, <3>2
  <2>10. \A n, o \in Movers : pc'[n] = "run" /\ pc'[o] = "run" /\ cur'[n] = cur'[o] => n = o
    BY <2>7, <2>8 DEF InOnePlace
  <2>11. QED
    BY <2>4, <2>5, <2>6, <2>9, <2>10 DEF InOnePlace
<1>7. ASSUME NEW m \in Movers, Execute(m) PROVE InOnePlace'
  <2>1. \A n \in Movers : pc'[n] = "run" <=> pc[n] = "run" /\ n # m
    BY <1>7 DEF Execute, Goto, Types
  <2>2. UNCHANGED <<tasks, submitted, cur>> /\ finished' = finished \cup {cur[m]} /\ pc[m] = "run"
    BY <1>7 DEF Execute
  <2>3. ASSUME NEW t \in 1 .. submitted - Len(tasks)
        PROVE  (t \in finished') <=> ~(\E n \in Movers : pc'[n] = "run" /\ cur'[n] = t)
    <3>1. CASE t = cur[m]
      BY <2>1, <2>2, <3>1 DEF InOnePlace
    <3>2. CASE t # cur[m]
      <4>1. (t \in finished) <=> ~(\E n \in Movers : pc[n] = "run" /\ cur[n] = t)
        BY DEF InOnePlace
      <4>2. t \in finished' <=> t \in finished
        BY <2>2, <3>2
      <4>3. (\E n \in Movers : pc'[n] = "run" /\ cur'[n] = t) <=> (\E n \in Movers : pc[n] = "run" /\ cur[n] = t)
        BY <2>1, <2>2, <3>2
      <4>4. QED
        BY <4>1, <4>2, <4>3
    <3>3. QED
      BY <3>1, <3>2
  <2>4. QED
    BY <2>1, <2>2, <2>3 DEF InOnePlace
<1>8. ASSUME NEW m \in Movers, Done(m) PROVE InOnePlace'
  BY <1>8, CallersAssumption DEF Done, Goto, Types, Waits, Places, InOnePlace
<1>9. ASSUME NEW m \in Movers, Tell(m) PROVE InOnePlace'
  BY <1>9, CallersAssumption DEF Tell, OnDoneCv, Types, Waits, Places, InOnePlace
<1>10. ASSUME NEW c \in Callers, Submit(c) PROVE InOnePlace'
  <2>1. \A n \in Movers : pc'[n] = "run" <=> pc[n] = "run"
    BY <1>10, CallersAssumption DEF Submit, Goto, Types
  <2>2. /\ tasks' = Append(tasks, submitted + 1) /\ submitted' = submitted + 1
        /\ UNCHANGED <<finished, cur>>
    BY <1>10 DEF Submit
  <2>3. /\ Len(tasks) \in Nat /\ Len(tasks') = Len(tasks) + 1
        /\ submitted' - Len(tasks') = submitted - Len(tasks)
    BY <2>2 DEF Types
  <2>4. \A i \in 1 .. Len(tasks') : tasks'[i] = submitted' - Len(tasks') + i
    BY <2>2, <2>3, SMTT(30) DEF Types, InOnePlace
  <2>5. QED
    BY <2>1, <2>2, <2>3, <2>4 DEF InOnePlace
<1>11. ASSUME NEW c \in Callers, WaitAll(c) PROVE InOnePlace'
  BY <1>11, CallersAssumption DEF WaitAll, Goto, Types, Waits, Places, InOnePlace
<1>12. ASSUME NEW c \in Callers, Stop(c) PROVE InOnePlace'
  BY <1>12, CallersAssumption DEF Stop, Goto, Types, Waits, Places, InOnePlace
<1>13. ASSUME NEW c \in Callers, NotifyOne(c) PROVE InOnePlace'
  <2>1. \A n \in Movers : pc'[n] = "run" <=> pc[n] = "run"
    BY <1>13, CallersAssumption DEF NotifyOne, Goto, OnCv, Types
  <2>2. UNCHANGED <<tasks, submitted, finished, cur>>
    BY <1>13 DEF NotifyOne
  <2>3. QED
    BY <2>1, <2>2 DEF InOnePlace
<1>14. ASSUME NEW c \in Callers, WaitLock(c) PROVE InOnePlace'
  BY <1>14, CallersAssumption DEF WaitLock, Goto, Acquire, Types, Waits, Places, InOnePlace
<1>15. ASSUME NEW c \in Callers, WaitReturns(c) PROVE InOnePlace'
  BY <1>15, CallersAssumption DEF WaitReturns, Goto, Release, AllDone, Types, Waits, Places, InOnePlace
<1>16. ASSUME NEW c \in Callers, WaitGoesOn(c) PROVE InOnePlace'
  BY <1>16, CallersAssumption DEF WaitGoesOn, Goto, AllDone, Types, Waits, Places, InOnePlace
<1>17. ASSUME NEW c \in Callers, WaitBlock(c) PROVE InOnePlace'
  BY <1>17, CallersAssumption DEF WaitBlock, Goto, Release, Types, Waits, Places, InOnePlace
<1>18. ASSUME NEW c \in Callers, StopNotify(c) PROVE InOnePlace'
  BY <1>18, CallersAssumption DEF StopNotify, OnCv, Types, Waits, Places, InOnePlace
<1>19. ASSUME NEW c \in Callers, Join(c) PROVE InOnePlace'
  BY <1>19, CallersAssumption DEF Join, Goto, Types, Waits, Places, InOnePlace
<1>20. ASSUME NEW t \in Threads, Spurious(t) PROVE InOnePlace'
  <2>1. \A n \in Movers : pc'[n] = "run" <=> pc[n] = "run"
    BY <1>20, CallersAssumption DEF Spurious, Goto, OnCv, OnDoneCv, Types
  <2>2. UNCHANGED <<tasks, submitted, finished, cur>>
    BY <1>20 DEF Spurious
  <2>3. QED
    BY <2>1, <2>2 DEF InOnePlace
<1>21. ASSUME UNCHANGED vars PROVE InOnePlace'
  BY <1>21, CallersAssumption DEF vars, Types, Waits, Places, InOnePlace
<1>22. QED
  BY <1>1, <1>2, <1>3, <1>4, <1>5, <1>6, <1>7, <1>8, <1>9, <1>10, <1>11, <1>12, <1>13, <1>14, <1>15, <1>16, <1>17, <1>18, <1>19, <1>20, <1>21 DEF Next, MoverStep, CallStep

\* No step leaves a task to movers that are all asleep.
LEMMA WorkIsSeenStep ==
    ASSUME Types, Waits, WorkIsSeen, [Next]_vars
    PROVE  WorkIsSeen'
<1>1. ASSUME NEW m \in Movers, Loop(m) PROVE WorkIsSeen'
  BY <1>1, CallersAssumption, MoversAssumption DEF Loop, Goto, Types, Waits, WorkIsSeen, MoverLabels, CallerLabels
<1>2. ASSUME NEW m \in Movers, Lock(m) PROVE WorkIsSeen'
  BY <1>2, CallersAssumption, MoversAssumption DEF Lock, Goto, Acquire, Types, Waits, WorkIsSeen, MoverLabels, CallerLabels
<1>3. ASSUME NEW m \in Movers, Check(m) PROVE WorkIsSeen'
  BY <1>3, CallersAssumption, MoversAssumption DEF Check, Goto, Types, Waits, WorkIsSeen, MoverLabels, CallerLabels
<1>4. ASSUME NEW m \in Movers, Block(m) PROVE WorkIsSeen'
  BY <1>4, CallersAssumption, MoversAssumption DEF Block, Goto, Release, Types, Waits, WorkIsSeen, MoverLabels, CallerLabels
<1>5. ASSUME NEW m \in Movers, Leave(m) PROVE WorkIsSeen'
  BY <1>5, CallersAssumption, MoversAssumption DEF Leave, Goto, Release, Types, Waits, WorkIsSeen, MoverLabels, CallerLabels
<1>6. ASSUME NEW m \in Movers, Take(m) PROVE WorkIsSeen'
  BY <1>6, CallersAssumption, MoversAssumption DEF Take, Goto, Release, Types, Waits, WorkIsSeen, MoverLabels, CallerLabels
<1>7. ASSUME NEW m \in Movers, Execute(m) PROVE WorkIsSeen'
  BY <1>7, CallersAssumption, MoversAssumption DEF Execute, Goto, Types, Waits, WorkIsSeen, MoverLabels, CallerLabels
<1>8. ASSUME NEW m \in Movers, Done(m) PROVE WorkIsSeen'
  BY <1>8, CallersAssumption, MoversAssumption DEF Done, Goto, Types, Waits, WorkIsSeen, MoverLabels, CallerLabels
<1>9. ASSUME NEW m \in Movers, Tell(m) PROVE WorkIsSeen'
  BY <1>9, CallersAssumption, MoversAssumption DEF Tell, OnDoneCv, Types, Waits, WorkIsSeen, MoverLabels, CallerLabels
<1>10. ASSUME NEW c \in Callers, Submit(c) PROVE WorkIsSeen'
  BY <1>10, CallersAssumption, MoversAssumption DEF Submit, Goto, Types, Waits, WorkIsSeen, MoverLabels, CallerLabels
<1>11. ASSUME NEW c \in Callers, WaitAll(c) PROVE WorkIsSeen'
  BY <1>11, CallersAssumption, MoversAssumption DEF WaitAll, Goto, Types, Waits, WorkIsSeen, MoverLabels, CallerLabels
<1>12. ASSUME NEW c \in Callers, Stop(c) PROVE WorkIsSeen'
  BY <1>12, CallersAssumption, MoversAssumption DEF Stop, Goto, Types, Waits, WorkIsSeen, MoverLabels, CallerLabels
<1>13. ASSUME NEW c \in Callers, NotifyOne(c) PROVE WorkIsSeen'
  <2>1. CASE OnCv = {} /\ Goto(c, "idle")
    <3>1. \A m \in Movers : pc[m] # "asleep" /\ m # c /\ pc'[m] = pc[m] /\ (pc[m] = "exit" => ~running)
      BY <1>13, <2>1, CallersAssumption DEF Goto, OnCv, Types, Waits
    <3>2. running' = running
      BY <1>13 DEF NotifyOne
    <3>3. QED
      BY <3>1, <3>2, MoversAssumption DEF WorkIsSeen
  <2>2. ASSUME NEW m \in OnCv, pc' = [pc EXCEPT ![c] = "idle", ![m] = "lock"] PROVE WorkIsSeen'
    <3>1. m \in Movers /\ pc'[m] = "lock"
      BY <2>2 DEF OnCv, Types, Threads
    <3>2. QED
      BY <3>1 DEF WorkIsSeen
  <2>3. QED
    BY <1>13, <2>1, <2>2 DEF NotifyOne
<1>14. ASSUME NEW c \in Callers, WaitLock(c) PROVE WorkIsSeen'
  BY <1>14, CallersAssumption, MoversAssumption DEF WaitLock, Goto, Acquire, Types, Waits, WorkIsSeen, MoverLabels, CallerLabels
<1>15. ASSUME NEW c \in Callers, WaitReturns(c) PROVE WorkIsSeen'
  BY <1>15, CallersAssumption, MoversAssumption DEF WaitReturns, Goto, Release, AllDone, Types, Waits, WorkIsSeen, MoverLabels, CallerLabels
<1>16. ASSUME NEW c \in Callers, WaitGoesOn(c) PROVE WorkIsSeen'
  BY <1>16, CallersAssumption, MoversAssumption DEF WaitGoesOn, Goto, AllDone, Types, Waits, WorkIsSeen, MoverLabels, CallerLabels
<1>17. ASSUME NEW c \in Callers, WaitBlock(c) PROVE WorkIsSeen'
  BY <1>17, CallersAssumption, MoversAssumption DEF WaitBlock, Goto, Release, Types, Waits, WorkIsSeen, MoverLabels, CallerLabels
<1>18. ASSUME NEW c \in Callers, StopNotify(c) PROVE WorkIsSeen'
  BY <1>18, CallersAssumption, MoversAssumption DEF StopNotify, OnCv, Types, Waits, WorkIsSeen, MoverLabels, CallerLabels
<1>19. ASSUME NEW c \in Callers, Join(c) PROVE WorkIsSeen'
  BY <1>19, CallersAssumption, MoversAssumption DEF Join, Goto, Types, Waits, WorkIsSeen, MoverLabels, CallerLabels
<1>20. ASSUME NEW t \in Threads, Spurious(t) PROVE WorkIsSeen'
  BY <1>20, CallersAssumption, MoversAssumption DEF Spurious, Goto, OnCv, OnDoneCv, Types, Waits, WorkIsSeen, MoverLabels, CallerLabels
<1>21. ASSUME UNCHANGED vars PROVE WorkIsSeen'
  BY <1>21, CallersAssumption, MoversAssumption DEF vars, Types, Waits, WorkIsSeen, MoverLabels, CallerLabels
<1>22. QED
  BY <1>1, <1>2, <1>3, <1>4, <1>5, <1>6, <1>7, <1>8, <1>9, <1>10, <1>11, <1>12, <1>13, <1>14, <1>15, <1>16, <1>17, <1>18, <1>19, <1>20, <1>21 DEF Next, MoverStep, CallStep

\* There are finitely many movers at work.
LEMMA BusyFinite == IsFiniteSet(Busy) /\ Cardinality(Busy) \in Nat
  BY MoversAssumption, FS_Subset, FS_CardinalityType DEF Busy

\* Every step keeps active_tasks_ the number of movers that execute.
LEMMA CountedStep ==
    ASSUME Types, Counted, [Next]_vars
    PROVE  Counted'
<1>1. ASSUME NEW m \in Movers, Loop(m) PROVE Counted'
  <2>1. Busy' = Busy /\ active' = active
    BY <1>1, CallersAssumption DEF Loop, Goto, Busy, Types
  <2>2. QED
    BY <2>1 DEF Counted
<1>2. ASSUME NEW m \in Movers, Lock(m) PROVE Counted'
  <2>1. Busy' = Busy /\ active' = active
    BY <1>2, CallersAssumption DEF Lock, Goto, Acquire, Busy, Types
  <2>2. QED
    BY <2>1 DEF Counted
<1>3. ASSUME NEW m \in Movers, Check(m) PROVE Counted'
  <2>1. Busy' = Busy /\ active' = active
    BY <1>3, CallersAssumption DEF Check, Goto, Busy, Types
  <2>2. QED
    BY <2>1 DEF Counted
<1>4. ASSUME NEW m \in Movers, Block(m) PROVE Counted'
  <2>1. Busy' = Busy /\ active' = active
    BY <1>4, CallersAssumption DEF Block, Goto, Release, Busy, Types
  <2>2. QED
    BY <2>1 DEF Counted
<1>5. ASSUME NEW m \in Movers, Leave(m) PROVE Counted'
  <2>1. Busy' = Busy /\ active' = active
    BY <1>5, CallersAssumption DEF Leave, Goto, Release, Busy, Types
  <2>2. QED
    BY <2>1 DEF Counted
<1>6. ASSUME NEW m \in Movers, Take(m) PROVE Counted'
  <2>1. Busy' = Busy \cup {m} /\ m \notin Busy /\ active' = active + 1
    BY <1>6 DEF Take, Goto, Busy, Types
  <2>2. QED
    BY <2>1, BusyFinite, FS_AddElement DEF Counted
<1>7. ASSUME NEW m \in Movers, Execute(m) PROVE Counted'
  <2>1. Busy' = Busy /\ active' = active
    BY <1>7, CallersAssumption DEF Execute, Goto, Busy, Types
  <2>2. QED
    BY <2>1 DEF Counted
<1>8. ASSUME NEW m \in Movers, Done(m) PROVE Counted'
  <2>1. Busy' = Busy \ {m} /\ m \in Busy /\ active' = active - 1
    BY <1>8 DEF Done, Goto, Busy, Types
  <2>2. QED
    BY <2>1, BusyFinite, FS_RemoveElement DEF Counted
<1>9. ASSUME NEW m \in Movers, Tell(m) PROVE Counted'
  <2>1. Busy' = Busy /\ active' = active
    BY <1>9, CallersAssumption DEF Tell, OnDoneCv, Busy, Types
  <2>2. QED
    BY <2>1 DEF Counted
<1>10. ASSUME NEW c \in Callers, Submit(c) PROVE Counted'
  <2>1. Busy' = Busy /\ active' = active
    BY <1>10, CallersAssumption DEF Submit, Goto, Busy, Types
  <2>2. QED
    BY <2>1 DEF Counted
<1>11. ASSUME NEW c \in Callers, WaitAll(c) PROVE Counted'
  <2>1. Busy' = Busy /\ active' = active
    BY <1>11, CallersAssumption DEF WaitAll, Goto, Busy, Types
  <2>2. QED
    BY <2>1 DEF Counted
<1>12. ASSUME NEW c \in Callers, Stop(c) PROVE Counted'
  <2>1. Busy' = Busy /\ active' = active
    BY <1>12, CallersAssumption DEF Stop, Goto, Busy, Types
  <2>2. QED
    BY <2>1 DEF Counted
<1>13. ASSUME NEW c \in Callers, NotifyOne(c) PROVE Counted'
  <2>1. Busy' = Busy /\ active' = active
    BY <1>13, CallersAssumption DEF NotifyOne, Goto, OnCv, Busy, Types
  <2>2. QED
    BY <2>1 DEF Counted
<1>14. ASSUME NEW c \in Callers, WaitLock(c) PROVE Counted'
  <2>1. Busy' = Busy /\ active' = active
    BY <1>14, CallersAssumption DEF WaitLock, Goto, Acquire, Busy, Types
  <2>2. QED
    BY <2>1 DEF Counted
<1>15. ASSUME NEW c \in Callers, WaitReturns(c) PROVE Counted'
  <2>1. Busy' = Busy /\ active' = active
    BY <1>15, CallersAssumption DEF WaitReturns, Goto, Release, AllDone, Busy, Types
  <2>2. QED
    BY <2>1 DEF Counted
<1>16. ASSUME NEW c \in Callers, WaitGoesOn(c) PROVE Counted'
  <2>1. Busy' = Busy /\ active' = active
    BY <1>16, CallersAssumption DEF WaitGoesOn, Goto, AllDone, Busy, Types
  <2>2. QED
    BY <2>1 DEF Counted
<1>17. ASSUME NEW c \in Callers, WaitBlock(c) PROVE Counted'
  <2>1. Busy' = Busy /\ active' = active
    BY <1>17, CallersAssumption DEF WaitBlock, Goto, Release, Busy, Types
  <2>2. QED
    BY <2>1 DEF Counted
<1>18. ASSUME NEW c \in Callers, StopNotify(c) PROVE Counted'
  <2>1. Busy' = Busy /\ active' = active
    BY <1>18, CallersAssumption DEF StopNotify, OnCv, Busy, Types
  <2>2. QED
    BY <2>1 DEF Counted
<1>19. ASSUME NEW c \in Callers, Join(c) PROVE Counted'
  <2>1. Busy' = Busy /\ active' = active
    BY <1>19, CallersAssumption DEF Join, Goto, Busy, Types
  <2>2. QED
    BY <2>1 DEF Counted
<1>20. ASSUME NEW t \in Threads, Spurious(t) PROVE Counted'
  <2>1. Busy' = Busy /\ active' = active
    BY <1>20, CallersAssumption DEF Spurious, Goto, OnCv, OnDoneCv, Busy, Types
  <2>2. QED
    BY <2>1 DEF Counted
<1>21. ASSUME UNCHANGED vars PROVE Counted'
  <2>1. Busy' = Busy /\ active' = active
    BY <1>21, CallersAssumption DEF vars, Busy, Types
  <2>2. QED
    BY <2>1 DEF Counted
<1>22. QED
  BY <1>1, <1>2, <1>3, <1>4, <1>5, <1>6, <1>7, <1>8, <1>9, <1>10, <1>11, <1>12, <1>13, <1>14, <1>15, <1>16, <1>17, <1>18, <1>19, <1>20, <1>21 DEF Next, MoverStep, CallStep

-----------------------------------------------------------------------------

\* The invariant holds when the mover has been built.
LEMMA InitInv == Init => IInv
<1> SUFFICES ASSUME Init PROVE IInv
  OBVIOUS
<1>1. Types
  BY CallersAssumption DEF Init, Types, MoverLabels, CallerLabels
<1>2. Mutex /\ Waits
  BY NobodyAssumption DEF Init, Mutex, Waits, Holding
<1>3. Counted
  <2>1. Busy = {} /\ active = 0
    BY DEF Init, Busy
  <2>2. QED
    BY <2>1, FS_EmptySet DEF Counted
<1>4. Places /\ InOnePlace /\ WorkIsSeen
  BY DEF Init, Places, InOnePlace, WorkIsSeen
<1>5. QED
  BY <1>1, <1>2, <1>3, <1>4 DEF IInv

\* Every step keeps it.
LEMMA InvStep == IInv /\ [Next]_vars => IInv'
  BY TypesStep, MutexStep, WaitsStep, PlacesStep, InOnePlaceStep, WorkIsSeenStep, CountedStep DEF IInv

\* So it always holds.
LEMMA InvHolds == Spec => []IInv
  BY InitInv, InvStep, PTL DEF Spec

\* The types hold, so that active_tasks_ never falls below zero, although it is
\* counted without mu_ (TypeOK).
THEOREM TypesHold == Spec => []TypeOK
<1>1. IInv => TypeOK
  BY BusyFinite DEF IInv, Types, Counted, TypeOK
<1>2. QED
  BY <1>1, InvHolds, PTL

\* Every task submitted is in the queue, in one mover or finished (InOnePlace).
THEOREM TasksStayInOnePlace == Spec => []InOnePlace
<1>1. IInv => InOnePlace
  BY DEF IInv
<1>2. QED
  BY <1>1, InvHolds, PTL

\* Until Stop, a queued task has a mover awake or a notification under way, although
\* Submit notifies after it has released mu_ (WorkIsSeen).
THEOREM WorkIsAlwaysSeen == Spec => []WorkIsSeen
<1>1. IInv => WorkIsSeen
  BY DEF IInv
<1>2. QED
  BY <1>1, InvHolds, PTL

\* When active_tasks_ is zero no mover executes.
LEMMA NoneBusy == ASSUME Counted, active = 0 PROVE Busy = {}
  BY BusyFinite, FS_EmptySet DEF Counted

\* A caller leaves WaitAll by WaitReturns and Stop by Join.
Returns(d) ==
    /\ pc[d] = "wcheck" /\ pc'[d] = "idle" => WaitReturns(d)
    /\ pc[d] = "join" /\ pc'[d] = "idle" => Join(d)

\* No other step ends a call.
LEMMA ReturnsStep ==
    ASSUME Types, NEW d \in Callers, [Next]_vars
    PROVE  Returns(d)
<1>1. ASSUME NEW m \in Movers, Loop(m) PROVE Returns(d)
  BY <1>1, CallersAssumption DEF Loop, Goto, Types, Returns
<1>2. ASSUME NEW m \in Movers, Lock(m) PROVE Returns(d)
  BY <1>2, CallersAssumption DEF Lock, Goto, Acquire, Types, Returns
<1>3. ASSUME NEW m \in Movers, Check(m) PROVE Returns(d)
  BY <1>3, CallersAssumption DEF Check, Goto, Types, Returns
<1>4. ASSUME NEW m \in Movers, Block(m) PROVE Returns(d)
  BY <1>4, CallersAssumption DEF Block, Goto, Release, Types, Returns
<1>5. ASSUME NEW m \in Movers, Leave(m) PROVE Returns(d)
  BY <1>5, CallersAssumption DEF Leave, Goto, Release, Types, Returns
<1>6. ASSUME NEW m \in Movers, Take(m) PROVE Returns(d)
  BY <1>6, CallersAssumption DEF Take, Goto, Release, Types, Returns
<1>7. ASSUME NEW m \in Movers, Execute(m) PROVE Returns(d)
  BY <1>7, CallersAssumption DEF Execute, Goto, Types, Returns
<1>8. ASSUME NEW m \in Movers, Done(m) PROVE Returns(d)
  BY <1>8, CallersAssumption DEF Done, Goto, Types, Returns
<1>9. ASSUME NEW m \in Movers, Tell(m) PROVE Returns(d)
  BY <1>9, CallersAssumption DEF Tell, OnDoneCv, Types, Returns
<1>10. ASSUME NEW c \in Callers, Submit(c) PROVE Returns(d)
  BY <1>10, CallersAssumption DEF Submit, Goto, Types, Returns
<1>11. ASSUME NEW c \in Callers, WaitAll(c) PROVE Returns(d)
  BY <1>11, CallersAssumption DEF WaitAll, Goto, Types, Returns
<1>12. ASSUME NEW c \in Callers, Stop(c) PROVE Returns(d)
  BY <1>12, CallersAssumption DEF Stop, Goto, Types, Returns
<1>13. ASSUME NEW c \in Callers, NotifyOne(c) PROVE Returns(d)
  BY <1>13, CallersAssumption DEF NotifyOne, Goto, OnCv, Types, Returns
<1>14. ASSUME NEW c \in Callers, WaitLock(c) PROVE Returns(d)
  BY <1>14, CallersAssumption DEF WaitLock, Goto, Acquire, Types, Returns
<1>15. ASSUME NEW c \in Callers, WaitReturns(c) PROVE Returns(d)
  <2>1. CASE d = c
    BY <1>15, <2>1 DEF Returns, WaitReturns
  <2>2. CASE d # c
    BY <1>15, <2>2 DEF Returns, WaitReturns, Goto, Release, AllDone, Types
  <2>3. QED
    BY <2>1, <2>2
<1>16. ASSUME NEW c \in Callers, WaitGoesOn(c) PROVE Returns(d)
  BY <1>16, CallersAssumption DEF WaitGoesOn, Goto, AllDone, Types, Returns
<1>17. ASSUME NEW c \in Callers, WaitBlock(c) PROVE Returns(d)
  BY <1>17, CallersAssumption DEF WaitBlock, Goto, Release, Types, Returns
<1>18. ASSUME NEW c \in Callers, StopNotify(c) PROVE Returns(d)
  BY <1>18, CallersAssumption DEF StopNotify, OnCv, Types, Returns
<1>19. ASSUME NEW c \in Callers, Join(c) PROVE Returns(d)
  <2>1. CASE d = c
    BY <1>19, <2>1 DEF Returns, Join
  <2>2. CASE d # c
    BY <1>19, <2>2 DEF Returns, Join, Goto, Types
  <2>3. QED
    BY <2>1, <2>2
<1>20. ASSUME NEW t \in Threads, Spurious(t) PROVE Returns(d)
  BY <1>20, CallersAssumption DEF Spurious, Goto, OnCv, OnDoneCv, Types, Returns
<1>21. ASSUME UNCHANGED vars PROVE Returns(d)
  BY <1>21, CallersAssumption DEF vars, Types, Returns
<1>22. QED
  BY <1>1, <1>2, <1>3, <1>4, <1>5, <1>6, <1>7, <1>8, <1>9, <1>10, <1>11, <1>12, <1>13, <1>14, <1>15, <1>16, <1>17, <1>18, <1>19, <1>20, <1>21 DEF Next, MoverStep, CallStep

\* WaitAll returns only when the tasks submitted before it are finished (WaitAllIsABarrier).
THEOREM WaitAllWaitsForAll == Spec => WaitAllIsABarrier
<1>1. ASSUME IInv, [Next]_vars, NEW c \in Callers, pc[c] = "wcheck", pc'[c] = "idle"
      PROVE  1 .. seen[c] \subseteq finished
  <2>1. tasks = <<>> /\ active = 0
    BY <1>1, ReturnsStep DEF IInv, Returns, WaitReturns, AllDone
  <2>2. \A m \in Movers : pc[m] # "run"
    BY <1>1, <2>1, NoneBusy DEF IInv, Busy
  <2>3. Len(tasks) = 0 /\ submitted \in Nat /\ seen[c] \in Nat /\ seen[c] <= submitted
    BY <1>1, <2>1 DEF IInv, Types, Places
  <2>4. \A t \in 1 .. submitted : t \in finished
    BY <1>1, <2>2, <2>3 DEF IInv, InOnePlace
  <2>5. QED
    BY <2>3, <2>4
<1>2. IInv /\ [Next]_vars => [\A c \in Callers : pc[c] = "wcheck" /\ pc'[c] = "idle" => 1 .. seen[c] \subseteq finished]_vars
  BY <1>1
<1>3. QED
  BY <1>2, InvHolds, PTL DEF Spec, WaitAllIsABarrier

\* Stop returns only when every mover has left and none executes a task (StopIsFinal).
THEOREM StopWaitsForMovers == Spec => StopIsFinal
<1>1. ASSUME IInv, IInv', [Next]_vars, NEW c \in Callers, pc[c] = "join", pc'[c] = "idle"
      PROVE  active' = 0 /\ \A m \in Movers : pc'[m] = "exit"
  <2>1. Join(c)
    BY <1>1, ReturnsStep DEF IInv, Returns
  <2>2. \A m \in Movers : pc'[m] = "exit"
    BY <1>1, <2>1, CallersAssumption DEF IInv, Types, Join, Goto
  <2>3. Busy' = {}
    BY <2>2 DEF Busy
  <2>4. active' = 0
    BY <1>1, <2>3, FS_EmptySet DEF IInv, Counted
  <2>5. QED
    BY <2>2, <2>4
<1>2. IInv /\ IInv' /\ [Next]_vars =>
        [\A c \in Callers : pc[c] = "join" /\ pc'[c] = "idle" =>
            active' = 0 /\ \A m \in Movers : pc'[m] = "exit"]_vars
  BY <1>1
<1>3. QED
  BY <1>2, InvHolds, InvStep, PTL DEF Spec, StopIsFinal

=============================================================================
