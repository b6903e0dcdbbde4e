-------------------------- MODULE RunControlProofs --------------------------
(* Theorems about RunControl, for every set of runs, every mix of commands *)
(* and every fault.                                                        *)
EXTENDS RunControl, TLAPS

-----------------------------------------------------------------------------
(* Types.                                                                  *)

LEMMA ControlTypeInit == Init => TypeOK
BY ControlAssumption DEF Init, TypeOK, Statuses, PCs

\* Taking the handle of a run for another one, or for none.
LEMMA TakeType ==
  ASSUME TypeOK, NEW c \in Commands, NEW r \in Runs,
         NEW h \in Handles \cup {NoHandle}, TakeHandle(c, r, h)
  PROVE  /\ handle' \in [Runs -> Handles \cup {NoHandle}]
         /\ cancelled' \subseteq {"lease", "run"} \X Commands
         /\ joins' \in [Commands -> Commands \cup {Nobody}]
<1>1. handle[r] # NoHandle => /\ handle[r].token \in {"lease", "run"} \X Commands
                              /\ handle[r].token[2] \in Commands
  BY DEF TypeOK, Handles
<1>2. Scheduler(r) \in Commands \cup {Nobody}
  BY <1>1 DEF Scheduler
<1>3. handle' \in [Runs -> Handles \cup {NoHandle}]
  BY DEF TakeHandle, TypeOK
<1>4. joins' \in [Commands -> Commands \cup {Nobody}]
  BY <1>2 DEF TakeHandle, TypeOK
<1>5. cancelled' \subseteq {"lease", "run"} \X Commands
  BY <1>1 DEF TakeHandle, CancelToken, TypeOK
<1> QED
  BY <1>3, <1>4, <1>5

\* Every step keeps the types.
LEMMA ControlTypeStep ==
  ASSUME TypeOK, [Next]_vars
  PROVE  TypeOK'
<1> USE DEF TypeOK
<1>1. ASSUME NEW c \in Commands
      PROVE  /\ RunOf(c) \in Runs
             /\ status[RunOf(c)] \in Statuses
             /\ generation[RunOf(c)] \in Nat /\ generation[RunOf(c)] + 1 \in Nat
             /\ epoch[c] \in Nat
             /\ restore[c] \in Statuses
  BY <1>1 DEF RunOf
<1>2. ASSUME NEW c \in Commands, NEW gen \in Nat
      PROVE  Waiting(c, gen) \in Handles /\ Launched(c, gen) \in Handles
  BY <1>2 DEF Waiting, Launched, Handles
<1>3. ASSUME NEW c \in Commands, NEW next \in PCs, Goto(c, next)
      PROVE  pc' \in [Commands -> PCs]
  BY <1>3 DEF Goto
<1>4. ASSUME NEW r \in Runs, NEW s \in Statuses, SetStatus(r, s)
      PROVE  status' \in [Runs -> Statuses]
  BY <1>4 DEF SetStatus
<1>5. ASSUME NEW r \in Runs, Bump(r)
      PROVE  generation' \in [Runs -> Nat]
  BY <1>5 DEF Bump
<1>6. \A p \in Guarded \cup Cancelling \cup Resetting \cup Ended \cup {"lock"} : p \in PCs
  BY DEF PCs
<1>7. {"Pending", "Waiting", "Running", "Paused", "Completed", "Failed"} \subseteq Statuses
  BY DEF Statuses
<1>8. ASSUME NEW c \in Commands, NEW next \in Alive \cup {"ended"}, MoveSched(c, next)
      PROVE  sched' \in [Commands -> Alive \cup {"none", "ended"}]
  BY <1>8 DEF MoveSched
<1>9. ASSUME NEW c \in Commands, NEW next \in PCs, Goto(c, next),
             UNCHANGED <<registry, cancelled, locals, sched>>,
             lifecycle' \in {c, Nobody, lifecycle}, lease' \in {c, Nobody, lease}
      PROVE  TypeOK'
  <2>1. pc' \in [Commands -> PCs]
    BY <1>3, <1>9
  <2> QED
    BY <1>9, <2>1 DEF registry, locals
<1>10. ASSUME NEW c \in Commands, Issue(c) \/ Reject(c) \/ JoinPrior(c) \/ Acquire(c)
              \/ AcquireCancelled(c) \/ AcquireFails(c) \/ Relock(c) \/ Reconcile(c)
              \/ Overtaken(c) \/ Unwind(c) \/ ResetAcquire(c) \/ ResetFails(c)
       PROVE  TypeOK'
  BY <1>6, <1>9, <1>10 DEF Issue, Reject, JoinPrior, Acquire, AcquireCancelled,
     AcquireFails, Relock, Reconcile, Overtaken, Unwind, ResetAcquire, ResetFails,
     locks, Guarded, Resetting, Ended
<1>11. ASSUME NEW c \in Commands, Pause(c)
       PROVE  TypeOK'
  BY <1>1, <1>3, <1>4, <1>6, <1>7, <1>11 DEF Pause, locks, locals, Ended
<1>12. ASSUME NEW c \in Commands, AdmitStart(c)
       PROVE  TypeOK'
  <2>1. /\ TakeHandle(c, RunOf(c), Waiting(c, generation[RunOf(c)]))
        /\ SetStatus(RunOf(c), "Waiting") /\ Goto(c, "join")
        /\ restore' = [restore EXCEPT ![c] = status[RunOf(c)]]
        /\ status[RunOf(c)] \in Statuses \ {"Waiting", "Running"}
        /\ UNCHANGED <<generation, cancelError, locks, request, epoch, sched>>
    BY <1>1, <1>12 DEF AdmitStart, Startable, Remember
  <2>2. handle' \in [Runs -> Handles \cup {NoHandle}] /\ cancelled' \subseteq {"lease", "run"} \X Commands
        /\ joins' \in [Commands -> Commands \cup {Nobody}]
    BY <1>1, <1>2, <2>1, TakeType
  <2>3. pc' \in [Commands -> PCs] /\ status' \in [Runs -> Statuses]
    BY <1>1, <1>3, <1>4, <1>6, <1>7, <2>1 DEF Guarded
  <2>4. restore' \in [Commands -> Statuses \ {"Waiting", "Running"}]
    BY <2>1
  <2> QED
    BY <2>1, <2>2, <2>3, <2>4 DEF locks
<1>13. ASSUME NEW c \in Commands, AdmitRetry(c)
       PROVE  TypeOK'
  <2>1. /\ TakeHandle(c, RunOf(c), Waiting(c, generation[RunOf(c)] + 1))
        /\ SetStatus(RunOf(c), "Waiting") /\ Goto(c, "join") /\ Bump(RunOf(c))
        /\ restore' = [restore EXCEPT ![c] = status[RunOf(c)]]
        /\ status[RunOf(c)] \in Statuses \ {"Waiting", "Running"}
        /\ epoch' = [epoch EXCEPT ![c] = generation[RunOf(c)] + 1]
        /\ UNCHANGED <<cancelError, locks, request, sched>>
    BY <1>1, <1>13 DEF AdmitRetry, Retryable, Remember
  <2>2. handle' \in [Runs -> Handles \cup {NoHandle}] /\ cancelled' \subseteq {"lease", "run"} \X Commands
        /\ joins' \in [Commands -> Commands \cup {Nobody}]
    BY <1>1, <1>2, <2>1, TakeType
  <2>3. pc' \in [Commands -> PCs] /\ status' \in [Runs -> Statuses] /\ generation' \in [Runs -> Nat]
    BY <1>1, <1>3, <1>4, <1>5, <1>6, <1>7, <2>1 DEF Guarded
  <2>4. restore' \in [Commands -> Statuses \ {"Waiting", "Running"}] /\ epoch' \in [Commands -> Nat]
    BY <1>1, <2>1
  <2> QED
    BY <2>1, <2>2, <2>3, <2>4 DEF locks
<1>14. ASSUME NEW c \in Commands, AdmitFails(c)
       PROVE  TypeOK'
  <2>1. handle' \in [Runs -> Handles \cup {NoHandle}] /\ cancelled' \subseteq {"lease", "run"} \X Commands
        /\ joins' \in [Commands -> Commands \cup {Nobody}]
    BY <1>1, <1>14, TakeType DEF AdmitFails
  <2>2. pc' \in [Commands -> PCs] /\ generation' \in [Runs -> Nat]
    BY <1>1, <1>3, <1>5, <1>6, <1>14 DEF AdmitFails, Ended
  <2> QED
    BY <1>14, <2>1, <2>2 DEF AdmitFails, locks
<1>15. ASSUME NEW c \in Commands, InstallStart(c)
       PROVE  TypeOK'
  <2>1. handle' \in [Runs -> Handles \cup {NoHandle}] /\ cancelled' \subseteq {"lease", "run"} \X Commands
        /\ joins' \in [Commands -> Commands \cup {Nobody}]
    BY <1>1, <1>2, <1>15, TakeType DEF InstallStart
  <2>2. pc' \in [Commands -> PCs] /\ status' \in [Runs -> Statuses] /\ generation' \in [Runs -> Nat]
    BY <1>1, <1>3, <1>4, <1>5, <1>6, <1>7, <1>15 DEF InstallStart, Guarded
  <2>3. epoch' \in [Commands -> Nat]
    BY <1>1, <1>15 DEF InstallStart
  <2> QED
    BY <1>15, <2>1, <2>2, <2>3 DEF InstallStart, locks
<1>16. ASSUME NEW c \in Commands, InstallRetry(c)
       PROVE  TypeOK'
  <2>1. pc' \in [Commands -> PCs] /\ status' \in [Runs -> Statuses]
    BY <1>1, <1>3, <1>4, <1>6, <1>7, <1>16 DEF InstallRetry, Guarded
  <2>2. handle' \in [Runs -> Handles \cup {NoHandle}]
    BY <1>1, <1>2, <1>16 DEF InstallRetry
  <2> QED
    BY <1>16, <2>1, <2>2 DEF InstallRetry, locks, locals
<1>17. ASSUME NEW c \in Commands, Spawn(c)
       PROVE  TypeOK'
  <2>1. pc' \in [Commands -> PCs]
    BY <1>3, <1>6, <1>17 DEF Spawn, Guarded
  <2> QED
    BY <1>17, <2>1 DEF Spawn, registry, locks, locals, Alive
<1>18. ASSUME NEW c \in Commands, StoreJoin(c)
       PROVE  TypeOK'
  <2>1. pc' \in [Commands -> PCs]
    BY <1>3, <1>6, <1>18 DEF StoreJoin, Guarded
  <2>2. handle' \in [Runs -> Handles \cup {NoHandle}]
    <3>1. CASE Owns(c)
      <4>1. handle[RunOf(c)] \in Handles
        BY <1>1, <3>1 DEF Owns
      <4>2. [handle[RunOf(c)] EXCEPT !.joined = TRUE] \in Handles
        BY <4>1 DEF Handles
      <4> QED
        BY <1>1, <1>18, <3>1, <4>2 DEF StoreJoin
    <3>2. CASE ~Owns(c)
      BY <1>18, <3>2 DEF StoreJoin
    <3> QED
      BY <3>1, <3>2
  <2> QED
    BY <1>18, <2>1, <2>2 DEF StoreJoin, locals
<1>19. ASSUME NEW c \in Commands, Restore(c)
       PROVE  TypeOK'
  <2>1. pc' \in [Commands -> PCs]
    BY <1>3, <1>6, <1>19 DEF Restore, Ended
  <2>2. status' \in [Runs -> Statuses] /\ handle' \in [Runs -> Handles \cup {NoHandle}]
    BY <1>1, <1>4, <1>19 DEF Restore
  <2> QED
    BY <1>19, <2>1, <2>2 DEF Restore, locks, locals
<1>20. ASSUME NEW c \in Commands, AdmitCancel(c) \/ AdmitReset(c)
       PROVE  TypeOK'
  <2>1. handle' \in [Runs -> Handles \cup {NoHandle}] /\ cancelled' \subseteq {"lease", "run"} \X Commands
        /\ joins' \in [Commands -> Commands \cup {Nobody}]
    BY <1>1, <1>20, TakeType DEF AdmitCancel, AdmitReset
  <2>2. pc' \in [Commands -> PCs] /\ generation' \in [Runs -> Nat]
    BY <1>1, <1>3, <1>5, <1>6, <1>20 DEF AdmitCancel, AdmitReset, Cancelling, Resetting
  <2> QED
    BY <1>20, <2>1, <2>2 DEF AdmitCancel, AdmitReset
<1>21. ASSUME NEW c \in Commands, EndCancel(c)
       PROVE  TypeOK'
  <2>1. pc' \in [Commands -> PCs]
    BY <1>3, <1>6, <1>21 DEF EndCancel, Ended
  <2>2. status' \in [Runs -> Statuses] /\ generation' \in [Runs -> Nat]
    BY <1>1, <1>4, <1>5, <1>7, <1>21 DEF EndCancel
  <2> QED
    BY <1>1, <1>21, <2>1, <2>2 DEF EndCancel, locals
<1>22. ASSUME NEW c \in Commands, ResetJoined(c)
       PROVE  TypeOK'
  <2>1. pc' \in [Commands -> PCs]
    BY <1>3, <1>6, <1>22 DEF ResetJoined, Ended, Resetting
  <2> QED
    BY <1>1, <1>22, <2>1 DEF ResetJoined, locals
<1>23. ASSUME NEW c \in Commands, EndReset(c)
       PROVE  TypeOK'
  <2>1. pc' \in [Commands -> PCs]
    BY <1>3, <1>6, <1>23 DEF EndReset, Ended
  <2>2. status' \in [Runs -> Statuses] /\ handle' \in [Runs -> Handles \cup {NoHandle}]
    BY <1>1, <1>4, <1>7, <1>23 DEF EndReset
  <2> QED
    BY <1>23, <2>1, <2>2 DEF EndReset, locals
<1>24. ASSUME NEW c \in Commands, SchedulerStep(c)
       PROVE  TypeOK'
  <2>1. sched' \in [Commands -> Alive \cup {"none", "ended"}]
    BY <1>8, <1>24 DEF SchedulerStep, RunGraph, Publish, Finalize, FinalWrite, Release, Alive
  <2>2. CASE RunGraph(c)
    BY <2>1, <2>2 DEF RunGraph, registry, locks, locals
  <2>3. CASE Publish(c)
    BY <1>1, <2>1, <2>3 DEF Publish, locks, locals
  <2>4. CASE Finalize(c)
    BY <1>1, <2>1, <2>4 DEF Finalize, locks, locals
  <2>5. CASE FinalWrite(c)
    <3>1. status' \in [Runs -> Statuses]
      BY <1>1, <1>4, <1>7, <2>5 DEF FinalWrite
    <3>2. handle' \in [Runs -> Handles \cup {NoHandle}]
      BY <1>1, <2>5 DEF FinalWrite
    <3> QED
      BY <2>1, <2>5, <3>1, <3>2 DEF FinalWrite, locks, locals
  <2>6. CASE Release(c)
    BY <2>1, <2>6 DEF Release, registry, locals
  <2> QED
    BY <1>24, <2>2, <2>3, <2>4, <2>5, <2>6 DEF SchedulerStep
<1>25. CASE UNCHANGED vars
  BY <1>25 DEF vars, registry, locks, locals
<1> QED
  BY <1>10, <1>11, <1>12, <1>13, <1>14, <1>15, <1>16, <1>17, <1>18, <1>19, <1>20,
     <1>21, <1>22, <1>23, <1>24, <1>25 DEF Next, CommandStep, CommandFails

\* Every variable keeps its type; a guard never restores Waiting or Running.
THEOREM ControlTypeCorrect == Spec => []TypeOK
<1>1. TypeOK /\ [Next]_vars => TypeOK'
  BY ControlTypeStep
<1> QED
  BY ControlTypeInit, <1>1, PTL DEF Spec

-----------------------------------------------------------------------------
(* Who waits.                                                              *)

\* What a command may do to the status of its run and to its own place.  A
\* run comes to wait only by a command that enters its guard, and a command
\* leaves its guard only when its run does not wait any more.
LEMMA WaitingStep ==
  ASSUME TypeOK, [Next]_vars, NEW r \in Runs, status'[r] = "Waiting"
  PROVE  \/ \E c \in Commands : RunOf(c) = r /\ request' = request /\ pc'[c] \in Guarded
         \/ /\ status[r] = "Waiting" /\ request' = request
            /\ \A c \in Commands : RunOf(c) = r /\ pc[c] \in Guarded => pc'[c] \in Guarded
<1> USE DEF TypeOK, RunOf
<1>1. ASSUME NEW c \in Commands, Issue(c) \/ JoinPrior(c) \/ Acquire(c) \/ AcquireCancelled(c)
             \/ AcquireFails(c) \/ Relock(c) \/ Reconcile(c) \/ Overtaken(c) \/ Spawn(c)
             \/ StoreJoin(c) \/ Unwind(c)
      PROVE  status' = status /\ request' = request
             /\ \A d \in Commands : pc[d] \in Guarded => pc'[d] \in Guarded
  BY <1>1 DEF Issue, JoinPrior, Acquire, AcquireCancelled, AcquireFails, Relock, Reconcile,
     Overtaken, Spawn, StoreJoin, Unwind, Goto, Guarded, registry, locals
<1>2. ASSUME NEW c \in Commands, Reject(c) \/ AdmitFails(c) \/ ResetJoined(c)
             \/ ResetAcquire(c) \/ ResetFails(c) \/ AdmitCancel(c) \/ AdmitReset(c)
      PROVE  status' = status /\ request' = request
             /\ \A d \in Commands : pc[d] \in Guarded => pc'[d] \in Guarded
  BY <1>2 DEF Reject, AdmitFails, ResetJoined, ResetAcquire, ResetFails, AdmitCancel,
     AdmitReset, AtLock, Goto, Guarded, registry, locals
<1>3. ASSUME NEW c \in Commands, AdmitStart(c) \/ AdmitRetry(c)
      PROVE  /\ request' = request /\ pc'[c] \in Guarded
             /\ RunOf(c) # r => /\ status[r] = "Waiting"
                                /\ \A d \in Commands : pc[d] \in Guarded => pc'[d] \in Guarded
  BY <1>3 DEF AdmitStart, AdmitRetry, SetStatus, Goto, Guarded
<1>4. ASSUME NEW c \in Commands, Pause(c) \/ InstallStart(c) \/ InstallRetry(c)
             \/ EndCancel(c) \/ EndReset(c)
      PROVE  status[r] = "Waiting" /\ request' = request
             /\ \A d \in Commands : pc[d] \in Guarded => pc'[d] \in Guarded
  BY <1>4 DEF Pause, InstallStart, InstallRetry, EndCancel, EndReset, AtLock, SetStatus,
     Goto, Guarded, locals
<1>5. ASSUME NEW c \in Commands, Restore(c)
      PROVE  status[r] = "Waiting" /\ request' = request
             /\ \A d \in Commands : RunOf(d) = r /\ pc[d] \in Guarded => pc'[d] \in Guarded
  BY <1>5 DEF Restore, SetStatus, Goto, Guarded, locals
<1>6. ASSUME NEW c \in Commands, SchedulerStep(c)
      PROVE  status[r] = "Waiting" /\ request' = request /\ pc' = pc
  BY <1>6 DEF SchedulerStep, RunGraph, Publish, Finalize, FinalWrite, Release, SetStatus,
     registry, locals
<1>7. CASE UNCHANGED vars
  BY <1>7 DEF vars, registry, locals
<1> QED
  BY <1>1, <1>2, <1>3, <1>4, <1>5, <1>6, <1>7 DEF Next, CommandStep, CommandFails

\* A run shown as waiting has a command behind it.
THEOREM WaitingRunIsQueued == Spec => []WaitingIsQueued
<1>1. Init => WaitingIsQueued
  BY DEF Init, WaitingIsQueued
<1>2. TypeOK /\ WaitingIsQueued /\ [Next]_vars => WaitingIsQueued'
  BY WaitingStep DEF WaitingIsQueued, RunOf
<1> QED
  BY <1>1, <1>2, ControlTypeCorrect, PTL DEF Spec

-----------------------------------------------------------------------------
(* Who holds the lifecycle lock and the lease.                             *)

HoldsLock == {"reconcile", "install", "spawn", "store"} \cup Cancelling \cup Resetting

HoldsLease == {"relock", "reconcile", "install", "spawn", "unwind", "rebuild"}

LockInv == \A c \in Commands : (lifecycle = c) <=> pc[c] \in HoldsLock

\* The lease is the command's until it spawns, and then its scheduler's.
LeaseInv == \A c \in Commands : (lease = c) <=> pc[c] \in HoldsLease \/ sched[c] \in Alive

\* A command has a scheduler once it has spawned it, and never works again.
SchedInv ==
  \A c \in Commands :
    /\ sched[c] # "none" => pc[c] \in {"store", "restore", "done"}
    /\ pc[c] = "store" => sched[c] # "none"

LocksInv == LockInv /\ LeaseInv /\ SchedInv

\* The steps of the commands keep the ownership of both locks.
LEMMA LocksStep ==
  ASSUME TypeOK, LocksInv, [Next]_vars
  PROVE  LocksInv'
<1> USE ControlAssumption DEF TypeOK, LocksInv, LockInv, LeaseInv, SchedInv, HoldsLock, HoldsLease,
    Cancelling, Resetting, Alive
<1>1. ASSUME NEW c \in Commands, Issue(c) \/ Reject(c) \/ Pause(c) \/ AdmitStart(c)
             \/ AdmitRetry(c) \/ AdmitFails(c) \/ JoinPrior(c)
      PROVE  LocksInv'
  <2>1. /\ pc[c] \in {"idle", "lock", "join"}
        /\ \E next \in {"lock", "done", "join", "acquire"} : pc' = [pc EXCEPT ![c] = next]
        /\ UNCHANGED <<lifecycle, lease, sched>>
    BY <1>1 DEF Issue, Reject, Pause, AdmitStart, AdmitRetry, AdmitFails, JoinPrior, AtLock,
       Goto, locks
  <2> QED
    BY <2>1
<1>2. ASSUME NEW c \in Commands, Acquire(c) \/ AcquireCancelled(c) \/ AcquireFails(c)
             \/ Relock(c) \/ Reconcile(c)
      PROVE  LocksInv'
  BY <1>2 DEF Acquire, AcquireCancelled, AcquireFails, Relock, Reconcile, Goto, locks, locals
<1>3. ASSUME NEW c \in Commands, InstallStart(c) \/ Overtaken(c) \/ InstallRetry(c)
             \/ Spawn(c) \/ StoreJoin(c) \/ Unwind(c) \/ Restore(c)
      PROVE  LocksInv'
  <2>1. CASE InstallStart(c) \/ InstallRetry(c)
    BY <2>1 DEF InstallStart, InstallRetry, Goto, locks
  <2>2. CASE Overtaken(c)
    BY <2>2 DEF Overtaken, Goto
  <2>3. CASE Spawn(c)
    BY <2>3 DEF Spawn, Goto, locks
  <2>4. CASE StoreJoin(c)
    BY <2>4 DEF StoreJoin, Goto
  <2>5. CASE Unwind(c)
    BY <2>5 DEF Unwind, Goto
  <2>6. CASE Restore(c)
    BY <2>6 DEF Restore, Goto, locks
  <2> QED
    BY <1>3, <2>1, <2>2, <2>3, <2>4, <2>5, <2>6
<1>4. ASSUME NEW c \in Commands, AdmitCancel(c) \/ EndCancel(c) \/ AdmitReset(c)
             \/ ResetJoined(c) \/ ResetAcquire(c) \/ ResetFails(c) \/ EndReset(c)
      PROVE  LocksInv'
  <2>1. CASE AdmitCancel(c)
    BY <2>1 DEF AdmitCancel, AtLock, Goto
  <2>2. CASE EndCancel(c)
    <3>1. /\ pc[c] = "cancelJoin"
          /\ \E next \in {"unpublished", "done"} : pc' = [pc EXCEPT ![c] = next]
          /\ lifecycle' = Nobody
          /\ UNCHANGED <<lease, sched>>
      BY <2>2 DEF EndCancel, Goto
    <3> QED
      BY <3>1
  <2>3. CASE AdmitReset(c)
    BY <2>3 DEF AdmitReset, AtLock, Goto
  <2>4. CASE ResetJoined(c)
    <3>1. /\ pc[c] = "resetJoin"
          /\ \/ lifecycle' = Nobody /\ pc' = [pc EXCEPT ![c] = "unpublished"]
             \/ lifecycle' = lifecycle /\ pc' = [pc EXCEPT ![c] = "resetAcquire"]
          /\ UNCHANGED <<lease, sched>>
      BY <2>4 DEF ResetJoined, Goto
    <3>2. lifecycle = c /\ lease # c /\ sched[c] = "none"
      BY <3>1
    <3>3. LockInv'
      BY <3>1, <3>2
    <3>4. LeaseInv' /\ SchedInv'
      BY <3>1, <3>2
    <3> QED
      BY <3>3, <3>4
  <2>5. CASE ResetAcquire(c) \/ ResetFails(c)
    BY <2>5 DEF ResetAcquire, ResetFails, Goto
  <2>6. CASE EndReset(c)
    BY <2>6 DEF EndReset, Goto
  <2> QED
    BY <1>4, <2>1, <2>2, <2>3, <2>4, <2>5, <2>6
<1>5. ASSUME NEW c \in Commands, SchedulerStep(c)
      PROVE  LocksInv'
  BY <1>5 DEF SchedulerStep, RunGraph, Publish, Finalize, FinalWrite, Release, MoveSched,
     locks, locals
<1>6. CASE UNCHANGED vars
  BY <1>6 DEF vars, locks, locals
<1> QED
  BY <1>1, <1>2, <1>3, <1>4, <1>5, <1>6 DEF Next, CommandStep, CommandFails

LEMMA LocksCorrect == Spec => []LocksInv
<1>1. Init => LocksInv
  BY ControlAssumption DEF Init, LocksInv, LockInv, LeaseInv, SchedInv, HoldsLock, HoldsLease,
     Cancelling, Resetting, Alive
<1>2. TypeOK /\ LocksInv /\ [Next]_vars => LocksInv'
  BY LocksStep
<1> QED
  BY <1>1, <1>2, ControlTypeCorrect, PTL DEF Spec

\* A run that is being reset has no handle and is not Running: whoever could
\* give it one holds, or needs, the lifecycle lock.
ResetInv ==
  \A c \in Commands : pc[c] \in Resetting =>
    handle[RunOf(c)] = NoHandle /\ status[RunOf(c)] # "Running"

LEMMA ResetStep ==
  ASSUME TypeOK, LocksInv, ResetInv, [Next]_vars
  PROVE  ResetInv'
<1> SUFFICES ASSUME NEW d \in Commands, pc'[d] \in Resetting
             PROVE  /\ handle'[request'[d].run] = NoHandle
                    /\ status'[request'[d].run] # "Running"
  BY DEF ResetInv, RunOf
<1> USE DEF TypeOK, RunOf, Resetting
<1>1. pc[d] \in Resetting => /\ lifecycle = d
                             /\ handle[request[d].run] = NoHandle
                             /\ status[request[d].run] # "Running"
  BY DEF LocksInv, LockInv, HoldsLock, ResetInv
<1>2. ASSUME NEW c \in Commands, Issue(c) \/ Reject(c) \/ JoinPrior(c) \/ Acquire(c)
             \/ AcquireCancelled(c) \/ AcquireFails(c) \/ Relock(c) \/ Reconcile(c)
             \/ Overtaken(c) \/ Spawn(c) \/ Unwind(c) \/ ResetJoined(c) \/ ResetAcquire(c)
             \/ ResetFails(c)
      PROVE  /\ pc[d] \in Resetting
             /\ UNCHANGED <<status, handle, request>>
  BY <1>2 DEF Issue, Reject, JoinPrior, Acquire, AcquireCancelled, AcquireFails, Relock,
     Reconcile, Overtaken, Spawn, Unwind, ResetJoined, ResetAcquire, ResetFails, Goto,
     registry, locals
<1>3. ASSUME NEW c \in Commands, Pause(c) \/ AdmitStart(c) \/ AdmitRetry(c) \/ AdmitFails(c)
             \/ AdmitCancel(c)
      PROVE  pc'[d] \notin Resetting
  BY <1>1, <1>3, ControlAssumption DEF Pause, AdmitStart, AdmitRetry, AdmitFails,
     AdmitCancel, AtLock, Goto
<1>4. ASSUME NEW c \in Commands, InstallStart(c) \/ InstallRetry(c) \/ StoreJoin(c)
             \/ EndCancel(c)
      PROVE  pc'[d] \notin Resetting
  <2>1. lifecycle = c /\ pc[c] \notin Resetting
    BY <1>4 DEF InstallStart, InstallRetry, StoreJoin, EndCancel, LocksInv, LockInv,
       HoldsLock, Cancelling
  <2> QED
    BY <1>1, <1>4, <2>1 DEF InstallStart, InstallRetry, StoreJoin, EndCancel, Goto
<1>5. ASSUME NEW c \in Commands, AdmitReset(c)
      PROVE  /\ handle'[request'[d].run] = NoHandle
             /\ status'[request'[d].run] # "Running"
  BY <1>1, <1>5, ControlAssumption DEF AdmitReset, AtLock, TakeHandle, Goto
<1>6. ASSUME NEW c \in Commands, Restore(c) \/ EndReset(c)
      PROVE  /\ handle'[request'[d].run] = NoHandle
             /\ status'[request'[d].run] # "Running"
  BY <1>1, <1>6 DEF Restore, EndReset, SetStatus, Goto, locals
<1>7. ASSUME NEW c \in Commands, SchedulerStep(c)
      PROVE  /\ handle'[request'[d].run] = NoHandle
             /\ status'[request'[d].run] # "Running"
  BY <1>1, <1>7 DEF SchedulerStep, RunGraph, Publish, Finalize, FinalWrite, Release,
     SetStatus, registry, locals
<1>8. CASE UNCHANGED vars
  BY <1>1, <1>8 DEF vars, registry, locals
<1> QED
  BY <1>1, <1>2, <1>3, <1>4, <1>5, <1>6, <1>7, <1>8 DEF Next, CommandStep, CommandFails

\* Nothing of any run is alive while a reset rebuilds.
THEOREM ResetIsAlone == Spec => []ResetAlone
<1>1. Init => ResetInv
  BY DEF Init, ResetInv, Resetting
<1>2. TypeOK /\ LocksInv /\ ResetInv /\ [Next]_vars => ResetInv'
  BY ResetStep
<1>3. LocksInv /\ ResetInv => ResetAlone
  <2> SUFFICES ASSUME LocksInv, ResetInv, NEW c \in Commands, pc[c] = "rebuild"
               PROVE  /\ \A d \in Commands : sched[d] \notin Alive
                      /\ handle[RunOf(c)] = NoHandle
                      /\ status[RunOf(c)] # "Running"
    BY DEF ResetAlone
  <2>1. lease = c /\ sched[c] = "none"
    BY DEF LocksInv, LeaseInv, SchedInv, HoldsLease
  <2>2. \A d \in Commands : sched[d] \notin Alive
    BY <2>1 DEF LocksInv, LeaseInv, Alive
  <2> QED
    BY <2>2 DEF ResetInv, Resetting
<1> QED
  BY <1>1, <1>2, <1>3, ControlTypeCorrect, LocksCorrect, PTL DEF Spec

-----------------------------------------------------------------------------
(* Whose the handles are.                                                  *)

\* The command that made the token has come as far as making it.
Issued(t) ==
  \/ t[1] = "lease" /\ pc[t[2]] \in Guarded \cup Ended
  \/ t[1] = "run" /\ pc[t[2]] \in {"spawn", "store", "restore", "done"}

\* A handle belongs to a command of its run, and the handle of a scheduler
\* has the generation that its command drew.
HandleInv ==
  \A r \in Runs : handle[r] # NoHandle =>
    /\ Issued(handle[r].token)
    /\ RunOf(handle[r].token[2]) = r
    /\ handle[r].token[1] = "run" => handle[r].gen = epoch[handle[r].token[2]]

CancelledInv == \A t \in cancelled : Issued(t)

TokenInv == HandleInv /\ CancelledInv /\ OnlyLiveHandles

\* A command that moves on keeps what it has issued.
LEMMA IssuedStays ==
  ASSUME TypeOK, NEW t \in {"lease", "run"} \X Commands, Issued(t),
         NEW c \in Commands, NEW next \in PCs, Goto(c, next),
         pc[c] \in Guarded => next \in Guarded \cup Ended,
         pc[c] \in {"spawn", "store", "restore"} => next \in {"store", "restore", "done"},
         pc[c] \notin Ended
  PROVE  Issued(t)'
BY DEF TypeOK, Issued, Goto, Guarded, Ended

\* Every step of a command goes somewhere, and never back.
LEMMA CommandMoves ==
  ASSUME TypeOK, NEW c \in Commands, Issue(c) \/ CommandStep(c) \/ CommandFails(c),
         NEW t \in {"lease", "run"} \X Commands, Issued(t)
  PROVE  Issued(t)'
<1>1. \E next \in PCs :
        /\ Goto(c, next)
        /\ pc[c] \in Guarded => next \in Guarded \cup Ended
        /\ pc[c] \in {"spawn", "store", "restore"} => next \in {"store", "restore", "done"}
        /\ pc[c] \notin Ended
  <2> USE DEF Guarded, Ended, PCs, Cancelling, Resetting
  <2>1. CASE Issue(c) \/ Reject(c) \/ Pause(c) \/ AdmitStart(c) \/ AdmitRetry(c) \/ AdmitFails(c)
    BY <2>1 DEF Issue, Reject, Pause, AdmitStart, AdmitRetry, AdmitFails, AtLock
  <2>2. CASE JoinPrior(c) \/ Acquire(c) \/ AcquireCancelled(c) \/ AcquireFails(c) \/ Relock(c)
             \/ Reconcile(c)
    BY <2>2 DEF JoinPrior, Acquire, AcquireCancelled, AcquireFails, Relock, Reconcile
  <2>3. CASE InstallStart(c) \/ Overtaken(c) \/ InstallRetry(c) \/ Spawn(c) \/ StoreJoin(c)
             \/ Unwind(c) \/ Restore(c)
    BY <2>3 DEF InstallStart, Overtaken, InstallRetry, Spawn, StoreJoin, Unwind, Restore
  <2>4. CASE AdmitCancel(c) \/ EndCancel(c) \/ AdmitReset(c) \/ ResetJoined(c)
             \/ ResetAcquire(c) \/ ResetFails(c) \/ EndReset(c)
    BY <2>4 DEF AdmitCancel, EndCancel, AdmitReset, ResetJoined, ResetAcquire, ResetFails,
       EndReset, AtLock
  <2> QED
    BY <2>1, <2>2, <2>3, <2>4 DEF CommandStep, CommandFails
<1> QED
  BY <1>1, IssuedStays

\* A handle is replaced, its token perhaps cancelled: what replaces it is new.
LEMMA TakenTokens ==
  ASSUME TypeOK, TokenInv, NEW c \in Commands, NEW r \in Runs,
         NEW h \in Handles \cup {NoHandle}, handle' = [handle EXCEPT ![r] = h],
         cancelled' \subseteq cancelled \cup (IF handle[r] = NoHandle THEN {} ELSE {handle[r].token}),
         request' = request,
         h # NoHandle => /\ h.token[2] = c /\ RunOf(c) = r /\ ~Issued(h.token) /\ Issued(h.token)'
                         /\ h.token[1] = "run" => h.gen = epoch'[c],
         \A t \in {"lease", "run"} \X Commands : Issued(t) => Issued(t)',
         \A d \in Commands : epoch'[d] # epoch[d] => ~Issued(<<"run", d>>)
  PROVE  TokenInv'
<1>1. \A q \in Runs : handle[q] # NoHandle =>
        /\ handle[q].token \in {"lease", "run"} \X Commands
        /\ handle[q].token[2] \in Commands
        /\ handle[q].token[1] \in {"lease", "run"}
        /\ handle[q].token = <<handle[q].token[1], handle[q].token[2]>>
  BY DEF TypeOK, Handles
<1>2. \A q \in Runs : handle'[q] = IF q = r THEN h ELSE handle[q]
  BY DEF TypeOK
<1>3. HandleInv'
  <2> DEFINE Good(q) == /\ Issued(handle[q].token)
                        /\ RunOf(handle[q].token[2]) = q
                        /\ handle[q].token[1] = "run" => handle[q].gen = epoch[handle[q].token[2]]
  <2>1. ASSUME NEW q \in Runs, handle'[q] # NoHandle
        PROVE  Good(q)'
    <3>1. CASE q = r
      <4>1. handle'[q] = h /\ h # NoHandle
        BY <1>2, <2>1, <3>1
      <4> QED
        BY <3>1, <4>1 DEF Issued, RunOf
    <3>2. CASE q # r
      <4>1. handle'[q] = handle[q] /\ handle[q] # NoHandle
        BY <1>2, <2>1, <3>2
      <4>2. Good(q)
        BY <4>1 DEF TokenInv, HandleInv
      <4> DEFINE t == handle[q].token
      <4>3. t' = t /\ t \in {"lease", "run"} \X Commands /\ t = <<t[1], t[2]>>
        BY <1>1, <4>1
      <4>4. t[1] = "run" => epoch'[t[2]] = epoch[t[2]]
        BY <1>1, <4>1, <4>2, <4>3
      <4>5. Issued(t)'
        BY <4>2, <4>3 DEF Issued
      <4> QED
        BY <4>1, <4>2, <4>3, <4>4, <4>5 DEF RunOf
    <3> QED
      BY <3>1, <3>2
  <2> QED
    BY <2>1 DEF HandleInv
<1>4. CancelledInv'
  BY <1>1 DEF TokenInv, CancelledInv, HandleInv, TypeOK
<1>5. OnlyLiveHandles'
  <2> SUFFICES ASSUME NEW q \in Runs, handle'[q] # NoHandle, handle'[q].token \in cancelled'
               PROVE  FALSE
    BY DEF OnlyLiveHandles
  <2>1. \/ handle'[q].token \in cancelled
        \/ handle[r] # NoHandle /\ handle'[q].token = handle[r].token
    OBVIOUS
  <2>2. \E t \in {"lease", "run"} \X Commands : t = handle'[q].token /\ Issued(t)
    BY <1>1, <2>1 DEF TokenInv, CancelledInv, HandleInv, TypeOK
  <2>3. q # r /\ handle'[q] = handle[q] /\ handle[q] # NoHandle
    BY <1>2, <2>2
  <2>4. handle[q].token \notin cancelled
    BY <2>3 DEF TokenInv, OnlyLiveHandles
  <2>5. handle[r] # NoHandle /\ handle[q].token = handle[r].token
    BY <2>1, <2>3, <2>4
  <2> QED
    BY <2>3, <2>5 DEF TokenInv, HandleInv
<1> QED
  BY <1>3, <1>4, <1>5 DEF TokenInv

\* A handle stays, or is dropped.
LEMMA KeptTokens ==
  ASSUME TypeOK, TokenInv, request' = request, epoch' = epoch, cancelled' = cancelled,
         \A q \in Runs : handle'[q] # NoHandle =>
           /\ handle[q] # NoHandle
           /\ handle'[q].token = handle[q].token
           /\ handle'[q].gen = handle[q].gen,
         \A t \in {"lease", "run"} \X Commands : Issued(t) => Issued(t)'
  PROVE  TokenInv'
<1>1. \A q \in Runs : handle[q] # NoHandle => handle[q].token \in {"lease", "run"} \X Commands
  BY DEF TypeOK, Handles
<1>2. HandleInv'
  <2> DEFINE Good(q) == /\ Issued(handle[q].token)
                        /\ RunOf(handle[q].token[2]) = q
                        /\ handle[q].token[1] = "run" => handle[q].gen = epoch[handle[q].token[2]]
  <2>1. ASSUME NEW q \in Runs, handle'[q] # NoHandle
        PROVE  Good(q)'
    <3>1. Good(q)
      BY <2>1 DEF TokenInv, HandleInv
    <3> DEFINE t == handle[q].token
    <3>2. t' = t /\ t \in {"lease", "run"} \X Commands
      BY <1>1, <2>1
    <3>3. Issued(t)'
      BY <3>1, <3>2 DEF Issued
    <3> QED
      BY <2>1, <3>1, <3>2, <3>3 DEF RunOf
  <2> QED
    BY <2>1 DEF HandleInv
<1>3. CancelledInv'
  BY DEF TokenInv, CancelledInv, TypeOK
<1>4. OnlyLiveHandles'
  BY DEF TokenInv, OnlyLiveHandles
<1> QED
  BY <1>2, <1>3, <1>4 DEF TokenInv

LEMMA TokenStep ==
  ASSUME TypeOK, TokenInv, [Next]_vars
  PROVE  TokenInv'
<1>1. ASSUME NEW c \in Commands
      PROVE  /\ RunOf(c) \in Runs
             /\ generation[RunOf(c)] \in Nat /\ generation[RunOf(c)] + 1 \in Nat
             /\ epoch[c] \in Nat
  BY <1>1 DEF TypeOK, RunOf
<1>2. ASSUME NEW c \in Commands, NEW gen \in Nat
      PROVE  /\ Waiting(c, gen) \in Handles /\ Waiting(c, gen).token = <<"lease", c>>
             /\ Launched(c, gen) \in Handles /\ Launched(c, gen).token = <<"run", c>>
             /\ Launched(c, gen).gen = gen
  BY <1>2 DEF Waiting, Launched, Handles
<1>3. ASSUME NEW c \in Commands, Issue(c) \/ Reject(c) \/ Pause(c) \/ JoinPrior(c)
             \/ Acquire(c) \/ AcquireCancelled(c) \/ AcquireFails(c) \/ Relock(c)
             \/ Reconcile(c) \/ Overtaken(c) \/ Spawn(c) \/ Unwind(c) \/ EndCancel(c)
             \/ ResetJoined(c) \/ ResetAcquire(c) \/ ResetFails(c)
      PROVE  TokenInv'
  <2>1. UNCHANGED <<handle, cancelled, request, epoch>>
    BY <1>3 DEF Issue, Reject, Pause, JoinPrior, Acquire, AcquireCancelled, AcquireFails,
       Relock, Reconcile, Overtaken, Spawn, Unwind, EndCancel, ResetJoined, ResetAcquire,
       ResetFails, registry, locals
  <2>2. \A t \in {"lease", "run"} \X Commands : Issued(t) => Issued(t)'
    BY <1>3, CommandMoves DEF CommandStep, CommandFails
  <2> QED
    BY <2>1, <2>2, KeptTokens
<1>4. ASSUME NEW c \in Commands, StoreJoin(c) \/ Restore(c) \/ EndReset(c)
      PROVE  TokenInv'
  <2>1. UNCHANGED <<cancelled, request, epoch>>
    BY <1>4 DEF StoreJoin, Restore, EndReset, locals
  <2>2. \A q \in Runs : handle'[q] # NoHandle =>
           /\ handle[q] # NoHandle
           /\ handle'[q].token = handle[q].token
           /\ handle'[q].gen = handle[q].gen
    <3>1. CASE Restore(c) \/ EndReset(c)
      BY <1>1, <3>1 DEF Restore, EndReset, TypeOK
    <3>2. CASE StoreJoin(c)
      <4>1. CASE Owns(c)
        BY <1>1, <3>2, <4>1 DEF StoreJoin, Owns, TypeOK, Handles
      <4>2. CASE ~Owns(c)
        BY <3>2, <4>2 DEF StoreJoin
      <4> QED
        BY <4>1, <4>2
    <3> QED
      BY <1>4, <3>1, <3>2
  <2>3. \A t \in {"lease", "run"} \X Commands : Issued(t) => Issued(t)'
    BY <1>4, CommandMoves DEF CommandStep
  <2> QED
    BY <2>1, <2>2, <2>3, KeptTokens
<1>5. ASSUME NEW c \in Commands, AdmitStart(c) \/ AdmitRetry(c)
      PROVE  TokenInv'
  <2>1. \E gen \in Nat : TakeHandle(c, RunOf(c), Waiting(c, gen))
    BY <1>1, <1>5 DEF AdmitStart, AdmitRetry
  <2>2. pc[c] = "lock" /\ pc'[c] = "join" /\ request' = request
    BY <1>5 DEF AdmitStart, AdmitRetry, AtLock, Goto, TypeOK
  <2>3. \A d \in Commands : epoch'[d] # epoch[d] => ~Issued(<<"run", d>>)
    BY <1>5, <2>2 DEF AdmitStart, AdmitRetry, Issued, TypeOK
  <2>4. ~Issued(<<"lease", c>>) /\ Issued(<<"lease", c>>)'
    BY <2>2 DEF Issued, Guarded, Ended
  <2>5. \A t \in {"lease", "run"} \X Commands : Issued(t) => Issued(t)'
    BY <1>5, CommandMoves DEF CommandStep
  <2>6. PICK gen \in Nat : TakeHandle(c, RunOf(c), Waiting(c, gen))
    BY <2>1
  <2>7. Waiting(c, gen) \in Handles /\ Waiting(c, gen).token = <<"lease", c>>
    BY <1>2
  <2> DEFINE h == Waiting(c, gen)
  <2>8. /\ h.token[2] = c /\ RunOf(c) = RunOf(c) /\ ~Issued(h.token) /\ Issued(h.token)'
        /\ h.token[1] = "run" => h.gen = epoch'[c]
    BY <2>4, <2>7 DEF Issued, Waiting
  <2> QED
    BY <1>1, <2>2, <2>3, <2>5, <2>6, <2>7, <2>8, TakenTokens DEF TakeHandle, CancelToken
<1>6. ASSUME NEW c \in Commands, AdmitFails(c) \/ AdmitCancel(c) \/ AdmitReset(c)
      PROVE  TokenInv'
  <2>1. TakeHandle(c, RunOf(c), NoHandle) /\ UNCHANGED <<request, epoch>>
    BY <1>6 DEF AdmitFails, AdmitCancel, AdmitReset
  <2>2. \A t \in {"lease", "run"} \X Commands : Issued(t) => Issued(t)'
    BY <1>6, CommandMoves DEF CommandStep, CommandFails
  <2> QED
    BY <1>1, <2>1, <2>2, TakenTokens DEF TakeHandle, CancelToken
<1>7. ASSUME NEW c \in Commands, InstallStart(c) \/ InstallRetry(c)
      PROVE  TokenInv'
  <2>1. \E e \in Nat :
          /\ epoch'[c] = e
          /\ handle' = [handle EXCEPT ![RunOf(c)] = Launched(c, e)]
    BY <1>1, <1>7 DEF InstallStart, InstallRetry, TakeHandle, TypeOK, locals
  <2>2. PICK e \in Nat :
          /\ epoch'[c] = e
          /\ handle' = [handle EXCEPT ![RunOf(c)] = Launched(c, e)]
    BY <2>1
  <2> DEFINE r == RunOf(c)
             h == Launched(c, e)
  <2>3. /\ cancelled' \subseteq cancelled \cup (IF handle[r] = NoHandle THEN {} ELSE {handle[r].token})
        /\ \A d \in Commands : epoch'[d] # epoch[d] => d = c
    BY <1>1, <1>7 DEF InstallStart, InstallRetry, TakeHandle, CancelToken, TypeOK, locals
  <2>4. pc[c] = "install" /\ pc'[c] = "spawn" /\ request' = request
    BY <1>7 DEF InstallStart, InstallRetry, Goto, TypeOK, locals
  <2>5. h \in Handles /\ h.token = <<"run", c>> /\ h.gen = e
    BY <1>2
  <2>6. ~Issued(<<"run", c>>) /\ Issued(<<"run", c>>)'
    BY <2>4 DEF Issued
  <2>7. \A t \in {"lease", "run"} \X Commands : Issued(t) => Issued(t)'
    BY <1>7, CommandMoves DEF CommandStep
  <2>8. /\ h.token[2] = c /\ ~Issued(h.token) /\ Issued(h.token)'
        /\ h.token[1] = "run" => h.gen = epoch'[c]
    BY <2>2, <2>5, <2>6 DEF Issued, Launched
  <2>9. \A d \in Commands : epoch'[d] # epoch[d] => ~Issued(<<"run", d>>)
    BY <2>3, <2>6
  <2> QED
    BY <1>1, <2>2, <2>3, <2>4, <2>5, <2>7, <2>8, <2>9, TakenTokens
<1>8. ASSUME NEW c \in Commands, SchedulerStep(c)
      PROVE  TokenInv'
  <2>1. UNCHANGED <<cancelled, request, epoch, pc>>
    BY <1>8 DEF SchedulerStep, RunGraph, Publish, Finalize, FinalWrite, Release, locals
  <2>2. \A q \in Runs : handle'[q] \in {handle[q], NoHandle}
    BY <1>1, <1>8 DEF SchedulerStep, RunGraph, Publish, Finalize, FinalWrite, Release,
       registry, TypeOK
  <2>3. \A t \in {"lease", "run"} \X Commands : Issued(t) => Issued(t)'
    BY <2>1 DEF Issued
  <2> QED
    BY <2>1, <2>2, <2>3, KeptTokens
<1>9. CASE UNCHANGED vars
  BY <1>9, KeptTokens DEF vars, registry, locals, Issued
<1> QED
  BY <1>3, <1>4, <1>5, <1>6, <1>7, <1>8, <1>9 DEF Next, CommandStep, CommandFails

LEMMA TokensCorrect == Spec => []TokenInv
<1>1. Init => TokenInv
  BY DEF Init, TokenInv, HandleInv, CancelledInv, OnlyLiveHandles
<1>2. TypeOK /\ TokenInv /\ [Next]_vars => TokenInv'
  BY TokenStep
<1> QED
  BY <1>1, <1>2, ControlTypeCorrect, PTL DEF Spec

\* No registered handle has been cancelled: the branch of finalize_run_status
\* for one is never taken.
THEOREM HandlesAreLive == Spec => []OnlyLiveHandles
<1>1. TokenInv => OnlyLiveHandles
  BY DEF TokenInv
<1> QED
  BY <1>1, TokensCorrect, PTL

-----------------------------------------------------------------------------
(* Who dispatches.                                                         *)

Owner(c, r) ==
  /\ handle[r] # NoHandle
  /\ handle[r].token = <<"run", c>>
  /\ RunOf(c) = r
  /\ lease = c
  /\ Dispatching(c)

\* RunningOwned of one run.
Owned(r) ==
  \/ Stale(r)
  \/ handle[r] = NoHandle /\ CancelPending(r)
  \/ \E c \in Commands : Owner(c, r)

\* A step that leaves the handle and the generation of a run alone, lets a
\* cancel be and the dispatcher work on.
LEMMA KeptOwner ==
  ASSUME TypeOK, NEW r \in Runs, Owned(r), request' = request,
         generation'[r] = generation[r],
         \/ handle'[r] = handle[r]
         \/ /\ handle[r] # NoHandle /\ handle'[r] # NoHandle
            /\ handle'[r].token = handle[r].token /\ handle'[r].gen = handle[r].gen,
         \A d \in Commands : RunOf(d) = r =>
           /\ pc[d] \in {"cancelJoin", "unpublished"} => pc'[d] \in {"cancelJoin", "unpublished"}
           /\ lease = d /\ Dispatching(d) => lease' = d /\ Dispatching(d)'
  PROVE  Owned(r)'
<1>1. CASE Stale(r)
  BY <1>1 DEF Owned, Stale
<1>2. CASE handle[r] = NoHandle /\ CancelPending(r)
  BY <1>2 DEF Owned, CancelPending, RunOf
<1>3. CASE \E c \in Commands : Owner(c, r)
  <2>1. PICK c \in Commands : Owner(c, r)
    BY <1>3
  <2>2. Owner(c, r)'
    BY <2>1 DEF Owner, RunOf
  <2> QED
    BY <2>2 DEF Owned
<1> QED
  BY <1>1, <1>2, <1>3 DEF Owned

LEMMA RunningStep ==
  ASSUME TypeOK, LocksInv, TokenInv, RunningOwned, [Next]_vars,
         NEW r \in Runs, status'[r] = "Running"
  PROVE  Owned(r)'
<1>1. status[r] = "Running" => Owned(r)
  BY DEF RunningOwned, Owned, Owner
<1>2. \A c \in Commands : RunOf(c) \in Runs /\ (lease = c => lease # Nobody)
  BY ControlAssumption DEF TypeOK, RunOf
<1>3. ASSUME NEW c \in Commands, Issue(c) \/ Reject(c) \/ JoinPrior(c) \/ Acquire(c)
             \/ AcquireCancelled(c) \/ AcquireFails(c) \/ Relock(c) \/ Reconcile(c)
             \/ Overtaken(c) \/ Spawn(c) \/ ResetJoined(c) \/ ResetAcquire(c) \/ ResetFails(c)
      PROVE  Owned(r)'
  <2>1. UNCHANGED <<status, handle, generation, request>>
    BY <1>3 DEF Issue, Reject, JoinPrior, Acquire, AcquireCancelled, AcquireFails, Relock,
       Reconcile, Overtaken, Spawn, ResetJoined, ResetAcquire, ResetFails, registry, locals
  <2>2. \A d \in Commands :
          pc[d] \in {"cancelJoin", "unpublished"} => pc'[d] \in {"cancelJoin", "unpublished"}
    BY <1>3 DEF Issue, Reject, JoinPrior, Acquire, AcquireCancelled, AcquireFails, Relock,
       Reconcile, Overtaken, Spawn, ResetJoined, ResetAcquire, ResetFails, AtLock, Goto, TypeOK
  <2>3. \A d \in Commands : lease = d => lease' = d
    BY <1>2, <1>3 DEF Issue, Reject, JoinPrior, Acquire, AcquireCancelled, AcquireFails, Relock,
       Reconcile, Overtaken, Spawn, ResetJoined, ResetAcquire, ResetFails, locks
  <2>4. \A d \in Commands : Dispatching(d) => Dispatching(d)'
    BY <1>3 DEF Issue, Reject, JoinPrior, Acquire, AcquireCancelled, AcquireFails, Relock,
       Reconcile, Overtaken, Spawn, ResetJoined, ResetAcquire, ResetFails, AtLock, Goto,
       Dispatching, TypeOK
  <2> QED
    BY <1>1, <2>1, <2>2, <2>3, <2>4, KeptOwner
<1>4. ASSUME NEW c \in Commands, AdmitStart(c) \/ AdmitRetry(c) \/ AdmitFails(c) \/ Pause(c)
             \/ AdmitReset(c)
      PROVE  Owned(r)'
  <2>1. RunOf(c) # r
    BY <1>4 DEF AdmitStart, AdmitRetry, AdmitFails, Pause, AdmitReset, SetStatus, Startable,
       Retryable, TypeOK
  <2>2. status[r] = "Running" /\ handle'[r] = handle[r] /\ generation'[r] = generation[r]
        /\ UNCHANGED <<request, lease, sched>>
    BY <1>2, <1>4, <2>1 DEF AdmitStart, AdmitRetry, AdmitFails, Pause, AdmitReset, SetStatus,
       TakeHandle, Bump, TypeOK, locks, locals
  <2>3. \A d \in Commands : RunOf(d) = r => pc'[d] = pc[d]
    BY <1>4, <2>1 DEF AdmitStart, AdmitRetry, AdmitFails, Pause, AdmitReset, Goto, TypeOK
  <2> QED
    BY <1>1, <2>2, <2>3, KeptOwner DEF Dispatching
<1>5. ASSUME NEW c \in Commands, AdmitCancel(c)
      PROVE  Owned(r)'
  <2>1. CASE RunOf(c) = r
    <3>1. handle'[r] = NoHandle /\ pc'[c] = "cancelJoin" /\ request' = request
          /\ request[c].kind = "cancel"
      BY <1>5, <2>1 DEF AdmitCancel, TakeHandle, AtLock, Goto, TypeOK
    <3> QED
      BY <2>1, <3>1 DEF Owned, CancelPending, RunOf
  <2>2. CASE RunOf(c) # r
    <3>1. /\ handle'[r] = handle[r]
          /\ UNCHANGED <<status, generation, request, lease, sched>>
      BY <1>2, <1>5, <2>2 DEF AdmitCancel, TakeHandle, TypeOK
    <3>2. \A d \in Commands : RunOf(d) = r => pc'[d] = pc[d]
      BY <1>5, <2>2 DEF AdmitCancel, Goto, TypeOK
    <3> QED
      BY <1>1, <3>1, <3>2, KeptOwner DEF Dispatching
  <2> QED
    BY <2>1, <2>2
<1>6. ASSUME NEW c \in Commands, EndCancel(c)
      PROVE  Owned(r)'
  <2>1. /\ status[r] = "Running" /\ handle' = handle
        /\ UNCHANGED <<request, lease, sched>>
        /\ \/ generation' = generation /\ pc' = [pc EXCEPT ![c] = "unpublished"]
           \/ RunOf(c) # r /\ generation'[r] = generation[r] /\ pc' = [pc EXCEPT ![c] = "done"]
        /\ pc[c] = "cancelJoin"
    BY <1>2, <1>6 DEF EndCancel, SetStatus, Bump, Goto, TypeOK, locals
  <2>2. \A d \in Commands : RunOf(d) = r =>
          /\ pc[d] \in {"cancelJoin", "unpublished"} => pc'[d] \in {"cancelJoin", "unpublished"}
          /\ Dispatching(d) => Dispatching(d)'
    BY <2>1 DEF TypeOK, Dispatching
  <2> QED
    BY <1>1, <2>1, <2>2, KeptOwner
<1>7. ASSUME NEW c \in Commands, Unwind(c) \/ EndReset(c)
      PROVE  Owned(r)'
  <2>1. lease = c /\ ~Dispatching(c)
    BY <1>7 DEF Unwind, EndReset, LocksInv, LeaseInv, SchedInv, HoldsLease, Dispatching
  <2>2. status[r] = "Running" /\ generation'[r] = generation[r] /\ request' = request
    BY <1>2, <1>7 DEF Unwind, EndReset, SetStatus, TypeOK, registry, locals
  <2>3. \A d \in Commands :
          pc[d] \in {"cancelJoin", "unpublished"} => pc'[d] \in {"cancelJoin", "unpublished"}
    BY <1>7 DEF Unwind, EndReset, Goto, TypeOK
  <2>4. \/ handle'[r] = handle[r]
        \/ EndReset(c) /\ RunOf(c) = r
    BY <1>7 DEF Unwind, EndReset, TypeOK, registry
  <2>5. EndReset(c) /\ RunOf(c) = r => handle'[r] = handle[r]
    BY <2>2, <1>7 DEF EndReset, SetStatus, TypeOK
  <2> QED
    BY <1>1, <2>1, <2>2, <2>3, <2>4, <2>5, KeptOwner
<1>8. ASSUME NEW c \in Commands, InstallStart(c) \/ InstallRetry(c)
      PROVE  Owned(r)'
  <2>1. lease = c /\ sched[c] = "none"
    BY <1>8 DEF InstallStart, InstallRetry, LocksInv, LeaseInv, SchedInv, HoldsLease
  <2>2. UNCHANGED <<lease, sched, request>> /\ pc[c] = "install" /\ pc' = [pc EXCEPT ![c] = "spawn"]
    BY <1>8 DEF InstallStart, InstallRetry, Goto, locks, locals
  <2>3. CASE RunOf(c) = r
    <3>1. \E e \in Nat : handle'[r] = Launched(c, e)
      BY <1>2, <1>8, <2>3 DEF InstallStart, InstallRetry, TakeHandle, TypeOK
    <3>2. PICK e \in Nat : handle'[r] = Launched(c, e)
      BY <3>1
    <3>3. handle'[r] # NoHandle /\ handle'[r].token = <<"run", c>>
      <4>1. Launched(c, e) \in Handles /\ Launched(c, e).token = <<"run", c>>
        BY DEF Launched, Handles
      <4> QED
        BY <3>2, <4>1, HandleAssumption
    <3>4. Owner(c, r)'
      BY <2>1, <2>2, <2>3, <3>3 DEF Owner, Dispatching, RunOf, TypeOK
    <3> QED
      BY <3>4 DEF Owned
  <2>4. CASE RunOf(c) # r
    <3>1. status[r] = "Running" /\ handle'[r] = handle[r] /\ generation'[r] = generation[r]
      BY <1>2, <1>8, <2>4 DEF InstallStart, InstallRetry, TakeHandle, SetStatus, Bump, TypeOK
    <3>2. \A d \in Commands : RunOf(d) = r => pc'[d] = pc[d]
      BY <2>2, <2>4 DEF TypeOK
    <3> QED
      BY <1>1, <2>2, <3>1, <3>2, KeptOwner DEF Dispatching
  <2> QED
    BY <2>3, <2>4
<1>9. ASSUME NEW c \in Commands, StoreJoin(c)
      PROVE  Owned(r)'
  <2>1. UNCHANGED <<status, generation, request, lease, sched>> /\ pc[c] = "store"
        /\ pc' = [pc EXCEPT ![c] = "restore"]
    BY <1>9 DEF StoreJoin, Goto, locals
  <2>2. \/ handle'[r] = handle[r]
        \/ /\ handle[r] # NoHandle /\ handle'[r] # NoHandle
           /\ handle'[r].token = handle[r].token /\ handle'[r].gen = handle[r].gen
    <3>1. CASE Owns(c) /\ RunOf(c) = r
      <4>1. handle[r] \in Handles /\ handle'[r].token = handle[r].token
            /\ handle'[r].gen = handle[r].gen
        BY <1>9, <3>1 DEF StoreJoin, Owns, TypeOK, Handles
      <4>2. handle'[r] \in Handles
        BY <1>9, <3>1, <4>1 DEF StoreJoin, TypeOK, Handles
      <4> QED
        BY <4>1, <4>2, HandleAssumption
    <3>2. CASE ~(Owns(c) /\ RunOf(c) = r)
      BY <1>9, <3>2 DEF StoreJoin, TypeOK
    <3> QED
      BY <3>1, <3>2
  <2>3. \A d \in Commands :
          /\ pc[d] \in {"cancelJoin", "unpublished"} => pc'[d] \in {"cancelJoin", "unpublished"}
          /\ Dispatching(d) => Dispatching(d)'
    BY <2>1 DEF TypeOK, Dispatching
  <2> QED
    BY <1>1, <2>1, <2>2, <2>3, KeptOwner
<1>10. ASSUME NEW c \in Commands, Restore(c)
       PROVE  Owned(r)'
  <2>1. status[r] = "Running" /\ handle'[r] = handle[r] /\ generation' = generation
        /\ UNCHANGED <<request, lease, sched>> /\ pc[c] = "restore" /\ pc' = [pc EXCEPT ![c] = "done"]
    BY <1>2, <1>10 DEF Restore, SetStatus, Goto, TypeOK, locks, locals
  <2>2. \A d \in Commands :
          /\ pc[d] \in {"cancelJoin", "unpublished"} => pc'[d] \in {"cancelJoin", "unpublished"}
          /\ Dispatching(d) => Dispatching(d)'
    BY <2>1 DEF TypeOK, Dispatching
  <2> QED
    BY <1>1, <2>1, <2>2, KeptOwner
<1>11. ASSUME NEW c \in Commands, RunGraph(c) \/ Publish(c)
       PROVE  Owned(r)'
  <2>1. UNCHANGED <<status, handle, generation, request, lease, pc>>
    BY <1>11 DEF RunGraph, Publish, registry, locks, locals
  <2>2. \A d \in Commands : Dispatching(d) => Dispatching(d)'
    BY <1>11, <2>1 DEF RunGraph, Publish, MoveSched, Dispatching, TypeOK
  <2> QED
    BY <1>1, <2>1, <2>2, KeptOwner
<1>12. ASSUME NEW c \in Commands, Finalize(c) \/ FinalWrite(c)
       PROVE  Owned(r)'
  <2>1. status[r] = "Running" /\ UNCHANGED <<generation, request, lease, pc>>
    BY <1>2, <1>12 DEF Finalize, FinalWrite, SetStatus, TypeOK, locks, locals
  <2>2. ~(FinalWrite(c) /\ Owns(c) /\ RunOf(c) = r)
    BY <1>2, <2>1 DEF FinalWrite, SetStatus, TypeOK
  <2>3. handle'[r] = handle[r]
    BY <1>12, <2>2 DEF Finalize, FinalWrite, Owns, TokenInv, OnlyLiveHandles, TypeOK
  <2>4. \A d \in Commands : d # c /\ Dispatching(d) => Dispatching(d)'
    BY <1>12, <2>1 DEF Finalize, FinalWrite, MoveSched, Dispatching, TypeOK
  <2>5. CASE Owner(c, r) /\ ~Owns(c)
    <3>1. handle[r].gen = epoch[c]
      BY <2>5 DEF Owner, TokenInv, HandleInv
    <3>2. Stale(r)'
      BY <2>1, <2>3, <2>5, <3>1 DEF Stale, Owner, Owns
    <3> QED
      BY <3>2 DEF Owned
  <2>6. CASE Owner(c, r) /\ Owns(c)
    <3>1. Finalize(c) /\ RunOf(c) = r /\ handle[r].token \notin cancelled
      BY <1>12, <2>2, <2>6 DEF Owner, TokenInv, OnlyLiveHandles
    <3>2. Dispatching(c)'
      BY <2>6, <3>1 DEF Finalize, MoveSched, Dispatching, TypeOK
    <3>3. Owner(c, r)'
      BY <2>1, <2>3, <2>6, <3>2 DEF Owner, RunOf
    <3> QED
      BY <3>3 DEF Owned
  <2>7. CASE ~Owner(c, r)
    <3>1. CASE \E d \in Commands : Owner(d, r)
      <4>1. PICK d \in Commands : Owner(d, r) /\ d # c
        BY <2>7, <3>1
      <4>2. Owner(d, r)'
        BY <2>1, <2>3, <2>4, <4>1 DEF Owner, RunOf
      <4> QED
        BY <4>2 DEF Owned
    <3>2. CASE Stale(r)
      BY <2>1, <2>3, <3>2 DEF Owned, Stale
    <3>3. CASE handle[r] = NoHandle /\ CancelPending(r)
      BY <2>1, <2>3, <3>3 DEF Owned, CancelPending, RunOf
    <3> QED
      BY <1>1, <2>1, <3>1, <3>2, <3>3 DEF Owned
  <2> QED
    BY <2>5, <2>6, <2>7
<1>13. ASSUME NEW c \in Commands, Release(c)
       PROVE  Owned(r)'
  <2>1. lease = c /\ ~Dispatching(c)
    BY <1>13 DEF Release, LocksInv, LeaseInv, SchedInv, Dispatching, Alive
  <2>2. UNCHANGED <<status, handle, generation, request, pc>>
    BY <1>13 DEF Release, registry, locals
  <2> QED
    BY <1>1, <2>1, <2>2, KeptOwner
<1>14. CASE UNCHANGED vars
  BY <1>1, <1>14, KeptOwner DEF vars, registry, locks, locals, Dispatching
<1> QED
  BY <1>3, <1>4, <1>5, <1>6, <1>7, <1>8, <1>9, <1>10, <1>11, <1>12, <1>13, <1>14
     DEF Next, CommandStep, CommandFails, SchedulerStep

\* A Running run is dispatched under the lease, or its handle is stale, or it
\* is being cancelled.
THEOREM RunningRunIsOwned == Spec => []RunningOwned
<1>1. Init => RunningOwned
  BY DEF Init, RunningOwned
<1>2. TypeOK /\ LocksInv /\ TokenInv /\ RunningOwned /\ [Next]_vars => RunningOwned'
  BY RunningStep DEF RunningOwned, Owned, Owner
<1> QED
  BY <1>1, <1>2, ControlTypeCorrect, LocksCorrect, TokensCorrect, PTL DEF Spec
=============================================================================
