--------------------------- MODULE SchedulerProofs ---------------------------
(* Theorems about Scheduler, for every graph, concurrency, cap and fault.  *)
EXTENDS Scheduler, FiniteSetTheorems, TLAPS

-----------------------------------------------------------------------------
(* The state machine.                                                      *)

\* An event leaves a task in a state of the machine.
LEMMA AfterType ==
  ASSUME NEW s \in TaskStates, NEW e \in Events
  PROVE  After(s, e) \in TaskStates
BY DEF After, Legal, Events, Target, TaskStates, ActiveStates, SettledStates, SeedStates

\* Only an approval makes a task Done.
LEMMA AfterDone ==
  ASSUME NEW s, NEW e \in Events, After(s, e) = "Done"
  PROVE  s = "Done" \/ e = "ReviewerApproved"
BY DEF After, Legal, Events, Target

\* The names of the events are events.
LEMMA EventNames ==
  /\ "DependenciesSatisfied" \in Events /\ "Dispatched" \in Events
  /\ "GateFailed" \in Events /\ "GatesPassed" \in Events /\ "GateCapReached" \in Events
  /\ "HardError" \in Events /\ "WallClockCapReached" \in Events
  /\ "ReviewerRejected" \in Events /\ "ReviewerApproved" \in Events
  /\ "ReviewCapReached" \in Events /\ "MergeConflict" \in Events
  /\ "DependencyFailed" \in Events /\ "RetryRequested" \in Events
  /\ "DependencyReset" \in Events
BY DEF Events, Target

-----------------------------------------------------------------------------
(* Types.                                                                  *)

\* Initially every variable has its type.
LEMMA TypeInit == Init => TypeOK
<1> SUFFICES ASSUME Init PROVE TypeOK
  OBVIOUS
<1>1. \A t \in Tasks : SeedState(t) \in TaskStates
  BY DEF SeedState, SeedStates, TaskStates, ActiveStates
<1>2. TaskTypes
  BY <1>1 DEF Init, PCs, TaskTypes
<1>3. GitTypes
  BY DEF Init, Commits, Phases, GitTypes
<1>4. SchedTypes
  BY DEF Init, SchedPCs, SchedTypes
<1>5. RunTypes
  <2>1. MaxReruns \in Nat
    BY ModeAssumption
  <2>2. reruns \in 0 .. MaxReruns
    BY <2>1 DEF Init
  <2> QED
    BY <2>2, Zenon DEF Init, RunTypes
<1> QED
  BY <1>2, <1>3, <1>4, <1>5 DEF TypeOK

\* Every place a driver can stand is a program counter.
LEMMA PCNames == \A p \in Working \cup Finished \cup {"idle"} : p \in PCs
BY DEF PCs

\* Firing an event of the machine keeps state and pc in their types.
LEMMA FireType ==
  ASSUME TaskTypes, NEW t \in Tasks, NEW e \in Events, NEW next \in PCs, Fire(t, e, next)
  PROVE  state' \in [Tasks -> TaskStates] /\ pc' \in [Tasks -> PCs]
<1>1. After(state[t], e) \in TaskStates
  BY AfterType DEF TaskTypes
<1>2. "err" \in PCs
  BY PCNames DEF Finished
<1> QED
  BY <1>1, <1>2 DEF Fire, TaskTypes

\* So does moving on.
LEMMA GotoType ==
  ASSUME TaskTypes, NEW t \in Tasks, NEW next \in PCs, Goto(t, next)
  PROVE  state' \in [Tasks -> TaskStates] /\ pc' \in [Tasks -> PCs]
BY DEF Goto, TaskTypes

\* Skipping the dependents of a task yields task states.
LEMMA SkipType ==
  ASSUME NEW st \in [Tasks -> TaskStates], NEW t \in Tasks
  PROVE  SkipDependents(st, t) \in [Tasks -> TaskStates]
BY AfterType, EventNames DEF SkipDependents

\* A rejected round keeps the types of the task variables.
LEMMA SendBackType ==
  ASSUME TaskTypes, NEW t \in Tasks, SendBack(t)
  PROVE  TaskTypes'
<1>1. "closeFailed" \in PCs /\ "develop" \in PCs
  BY PCNames DEF Working
<1>2. state' \in [Tasks -> TaskStates] /\ pc' \in [Tasks -> PCs]
  BY <1>1, FireType, EventNames DEF SendBack
<1>3. reviewIter' \in [Tasks -> Nat]
  BY DEF SendBack, TaskTypes
<1> QED
  BY <1>2, <1>3 DEF SendBack, TaskTypes

\* A driver changes neither the scheduler nor the run.
LEMMA DriverFrame ==
  ASSUME SchedTypes, RunTypes, UNCHANGED <<schedVars, runVars, endVars>>
  PROVE  SchedTypes' /\ RunTypes'
BY DEF SchedTypes, RunTypes, schedVars, runVars, endVars

\* A driver's step keeps the types.
LEMMA DriverType ==
  ASSUME TypeOK, NEW t \in Tasks, DriverStep(t)
  PROVE  TypeOK'
<1> USE DEF TypeOK
<1>0. /\ \A p \in Working \cup Finished : p \in PCs
      /\ \A p \in Phases : [phase |-> p, task |-> t] \in Commits
  BY PCNames DEF Commits
<1>1. UNCHANGED <<schedVars, runVars, endVars>>
  BY DEF DriverStep, Claim, CreateWorktree, DevelopTurn, RunGates, GateCapReached, ReviewTurn,
     AcquireMergeLock, Merge, PhaseB, Approve, SettleDone, Close
<1>2. TaskTypes'
  <2>1. CASE Claim(t)
    <3>1. After(state[t], "HardError") \in TaskStates
      BY AfterType, EventNames DEF TaskTypes
    <3> QED
      BY <2>1, <3>1, <1>0, GotoType DEF Claim, TaskTypes, Working
  <2>2. CASE CreateWorktree(t)
    BY <2>2, <1>0, FireType, GotoType, EventNames DEF CreateWorktree, TaskTypes, Working, Finished
  <2>3. CASE DevelopTurn(t)
    BY <2>3, <1>0, FireType, GotoType, EventNames DEF DevelopTurn, TaskTypes, Working
  <2>4. CASE RunGates(t)
    <3>1. gateIter' \in [Tasks -> Nat]
      BY <2>4 DEF RunGates, TaskTypes
    <3>2. state' \in [Tasks -> TaskStates] /\ pc' \in [Tasks -> PCs]
      BY <2>4, <1>0, FireType, EventNames DEF RunGates, Working
    <3> QED
      BY <2>4, <3>1, <3>2 DEF RunGates, TaskTypes
  <2>5. CASE GateCapReached(t)
    BY <2>5, <1>0, FireType, EventNames DEF GateCapReached, TaskTypes, Working
  <2>6. CASE ReviewTurn(t)
    BY <2>6, <1>0, FireType, GotoType, SendBackType, EventNames
    DEF ReviewTurn, TaskTypes, Working
  <2>7. CASE AcquireMergeLock(t)
    BY <2>7, <1>0, GotoType, SendBackType DEF AcquireMergeLock, TaskTypes, Working
  <2>8. CASE Merge(t)
    BY <2>8, <1>0, FireType, GotoType, SendBackType, EventNames DEF Merge, TaskTypes, Working
  <2>9. CASE PhaseB(t)
    BY <2>9, <1>0, GotoType DEF PhaseB, TaskTypes, Working, Finished
  <2>10. CASE Approve(t)
    BY <2>10, <1>0, FireType, EventNames DEF Approve, TaskTypes, Working
  <2>11. CASE SettleDone(t)
    <3>1. "InReview" \in TaskStates
      BY DEF TaskStates, ActiveStates
    <3> QED
      BY <2>11, <3>1, <1>0, GotoType DEF SettleDone, TaskTypes, Working, Finished
  <2>12. CASE Close(t)
    BY <2>12, <1>0, GotoType DEF Close, TaskTypes, Finished
  <2> QED
    BY <2>1, <2>2, <2>3, <2>4, <2>5, <2>6, <2>7, <2>8, <2>9, <2>10, <2>11, <2>12 DEF DriverStep
<1>3. GitTypes'
  BY <1>0 DEF DriverStep, Claim, CreateWorktree, DevelopTurn, RunGates, GateCapReached,
     ReviewTurn, AcquireMergeLock, Merge, PhaseB, Approve, SettleDone, Close, GitTypes, gitVars,
     Commit, Phases
<1> QED
  BY <1>1, <1>2, <1>3, DriverFrame

\* A scheduler's step keeps the types.
LEMMA SchedulerType ==
  ASSUME TypeOK, SchedulerStep
  PROVE  TypeOK'
<1> USE DEF TypeOK
<1>1. GitTypes'
  BY DEF SchedulerStep, LoopTop, StopFilling, EnterWait, WakeOnCancel, Integrate, Publish, Launch,
     Join, JoinDone, JoinFailed, JoinErr, JoinTimedOut, JoinAborted, JoinPanicked, GitTypes, gitVars
<1>2. CASE LoopTop
  <2>1. TaskTypes'
    BY <1>2 DEF LoopTop, TaskTypes, taskVars
  <2>2. SchedTypes'
    BY <1>2, Zenon DEF LoopTop, SchedTypes, SchedPCs
  <2>3. RunTypes'
    BY <1>2, Zenon DEF LoopTop, RunTypes, runVars, endVars
  <2> QED
    BY <1>1, <2>1, <2>2, <2>3
<1>3. CASE StopFilling \/ EnterWait \/ WakeOnCancel
  <2>1. TaskTypes'
    BY <1>3 DEF StopFilling, EnterWait, WakeOnCancel, TaskTypes, taskVars
  <2>2. SchedTypes'
    BY <1>3, Zenon DEF StopFilling, EnterWait, WakeOnCancel, SchedTypes, SchedPCs
  <2>3. RunTypes'
    BY <1>3, Zenon DEF StopFilling, EnterWait, WakeOnCancel, RunTypes, runVars, endVars
  <2> QED
    BY <1>1, <2>1, <2>2, <2>3
<1>4. CASE Integrate \/ Publish
  <2>1. TaskTypes'
    BY <1>4 DEF Integrate, Publish, TaskTypes, taskVars
  <2>2. SchedTypes'
    BY <1>4, Zenon DEF Integrate, Publish, SchedTypes, SchedPCs
  <2>3. AggregateStatus \in {"Running", "Completed", "Failed"}
    BY DEF AggregateStatus
  <2>4. integrated' \in BOOLEAN
    BY <1>4, Zenon DEF Integrate, Publish, RunTypes
  <2>5. published' \in {"Running", "Completed", "Failed"}
    BY <1>4, <2>3, Zenon DEF Integrate, Publish, RunTypes
  <2>6. UNCHANGED <<cancel, pause, reruns>>
    BY <1>4 DEF Integrate, Publish, runVars
  <2> QED
    BY <1>1, <2>1, <2>2, <2>4, <2>5, <2>6, Zenon DEF RunTypes
<1>5. ASSUME NEW t \in Tasks, Launch(t)
      PROVE  TypeOK'
  <2>1. After(state[t], "DependenciesSatisfied") \in TaskStates
    BY AfterType, EventNames DEF TaskTypes
  <2>2. "claim" \in PCs /\ "worktree" \in PCs
    BY PCNames DEF Working
  <2>3. TaskTypes'
    BY <1>5, <2>1, <2>2 DEF Launch, TaskTypes
  <2>4. inFlight' \in SUBSET Tasks /\ launched' \in SUBSET Tasks
    BY <1>5 DEF Launch, SchedTypes
  <2>5. SchedTypes'
    BY <1>5, <2>4, Zenon DEF Launch, SchedTypes
  <2>6. RunTypes'
    BY <1>5, Zenon DEF Launch, RunTypes, runVars, endVars
  <2> QED
    BY <1>1, <2>3, <2>5, <2>6
<1>6. ASSUME NEW t \in Tasks, Join(t)
      PROVE  TypeOK'
  <2> USE DEF JoinDone, JoinFailed, JoinErr, JoinTimedOut, JoinAborted, JoinPanicked, Joins
  <2>1. "idle" \in PCs
    BY PCNames
  <2>2. pc' \in [Tasks -> PCs] /\ UNCHANGED <<gateIter, reviewIter>>
    BY <1>6, <2>1 DEF Join, TaskTypes, taskVars
  <2>3. state' \in [Tasks -> TaskStates]
    <3>1. After(state[t], "WallClockCapReached") \in TaskStates /\ Settle(state[t], cancel) \in TaskStates
      BY AfterType, EventNames DEF TaskTypes, Settle
    <3>2. /\ [state EXCEPT ![t] = After(@, "WallClockCapReached")] \in [Tasks -> TaskStates]
          /\ [state EXCEPT ![t] = Settle(@, cancel)] \in [Tasks -> TaskStates]
      BY <3>1 DEF TaskTypes
    <3>3. CASE JoinDone(t) \/ JoinAborted(t) \/ JoinPanicked(t)
      BY <3>3 DEF TaskTypes, taskVars
    <3>4. CASE JoinFailed(t)
      BY <3>4, SkipType, Zenon DEF TaskTypes
    <3>5. CASE JoinErr(t)
      BY <3>5, <3>2, SkipType, Zenon
    <3>6. CASE JoinTimedOut(t)
      BY <3>6, <3>2, SkipType, Zenon
    <3> QED
      BY <1>6, <3>3, <3>4, <3>5, <3>6 DEF Join
  <2>4. inFlight' \in SUBSET Tasks
    BY <1>6 DEF Join, SchedTypes
  <2>5. /\ sched' = "top" /\ launched' = launched /\ abortAll' = abortAll
        /\ UNCHANGED <<runVars, endVars>>
    BY <1>6, Zenon DEF Join
  <2>6. stopLaunching' \in BOOLEAN /\ fatal' \in BOOLEAN
    <3>1. \/ fatal' = TRUE /\ stopLaunching' = TRUE
          \/ fatal' = fatal /\ stopLaunching' = stopLaunching
      BY <1>6, Zenon DEF Join
    <3> QED
      BY <3>1, Zenon DEF SchedTypes
  <2>7. SchedTypes'
    BY <2>4, <2>5, <2>6, Zenon DEF SchedTypes, SchedPCs
  <2>8. RunTypes'
    BY <2>5, Zenon DEF RunTypes, runVars, endVars
  <2> QED
    BY <1>1, <2>2, <2>3, <2>7, <2>8 DEF TaskTypes
<1> QED
  BY <1>2, <1>3, <1>4, <1>5, <1>6 DEF SchedulerStep

\* A command, a failed write or a rerun keeps the types.
LEMMA EnvType ==
  ASSUME TypeOK,
         \/ Cancel \/ Pause \/ SupersedePaused \/ PersistFails \/ Resume
         \/ \E reset \in SUBSET Tasks : Retry(reset)
  PROVE  TypeOK'
<1> USE DEF TypeOK
<1>1. GitTypes'
  BY DEF Cancel, Pause, SupersedePaused, PersistFails, Resume, Retry, Respawn, GitTypes, gitVars
<1>2. CASE Cancel \/ Pause \/ SupersedePaused
  <2>1. TaskTypes' /\ SchedTypes'
    BY <1>2, Zenon DEF Cancel, Pause, SupersedePaused, TaskTypes, SchedTypes, taskVars, schedVars
  <2>2. RunTypes'
    BY <1>2, Zenon DEF Cancel, Pause, SupersedePaused, RunTypes, endVars
  <2> QED
    BY <1>1, <2>1, <2>2
<1>3. CASE PersistFails
  <2>1. TaskTypes'
    BY <1>3 DEF PersistFails, TaskTypes, TaskStates, SettledStates
  <2>2. SchedTypes' /\ RunTypes'
    BY <1>3, Zenon DEF PersistFails, SchedTypes, schedVars, RunTypes, endVars
  <2> QED
    BY <1>1, <2>1, <2>2
<1>4. ASSUME NEW st \in [Tasks -> TaskStates], Respawn(st)
      PROVE  SchedTypes' /\ RunTypes' /\ state' \in [Tasks -> TaskStates] /\ pc' = pc
  <2>1. MaxReruns \in Nat
    BY ModeAssumption
  <2>2. reruns' \in 0 .. MaxReruns
    BY <1>4, <2>1 DEF Respawn, RunTypes
  <2>3. SchedTypes'
    BY <1>4, Zenon DEF Respawn, SchedTypes, SchedPCs
  <2>4. RunTypes'
    BY <1>4, <2>2, Zenon DEF Respawn, RunTypes
  <2> QED
    BY <1>4, <2>3, <2>4 DEF Respawn
<1>5. CASE Resume
  BY <1>1, <1>4, <1>5 DEF Resume, TaskTypes
<1>6. ASSUME NEW reset \in SUBSET Tasks, Retry(reset)
      PROVE  TypeOK'
  <2> DEFINE again   == [t \in Tasks |-> IF t \in reset THEN After(state[t], "RetryRequested")
                                         ELSE state[t]]
             revived == Revived(again, reset)
             reset2  == [t \in Tasks |-> IF t \in revived THEN After(again[t], "DependencyReset")
                                         ELSE again[t]]
  <2>1. again \in [Tasks -> TaskStates]
    BY AfterType, EventNames DEF TaskTypes
  <2> HIDE DEF again
  <2>2. reset2 \in [Tasks -> TaskStates]
    BY <2>1, AfterType, EventNames
  <2> HIDE DEF reset2
  <2>3. RemarkReady(reset2) \in [Tasks -> TaskStates]
    BY <2>2, AfterType, EventNames DEF RemarkReady
  <2>4. Respawn(RemarkReady(reset2))
    BY <1>6 DEF Retry, again, reset2
  <2>5. gateIter' \in [Tasks -> Nat] /\ reviewIter' \in [Tasks -> Nat]
    BY <1>6 DEF Retry, TaskTypes
  <2> QED
    BY <1>1, <1>4, <2>3, <2>4, <2>5 DEF TaskTypes
<1> QED
  BY <1>2, <1>3, <1>5, <1>6

\* A driver that is dropped or unwinds keeps the types.
LEMMA DropType ==
  ASSUME TypeOK, NEW t \in Tasks, Abort(t) \/ Timeout(t) \/ Panic(t)
  PROVE  TypeOK'
<1> USE DEF TypeOK
<1>1. "aborted" \in PCs /\ "timedOut" \in PCs /\ "panicked" \in PCs
  BY PCNames DEF Finished
<1>2. TaskTypes'
  BY <1>1, GotoType DEF Abort, Timeout, Panic, Drop, TaskTypes
<1>3. GitTypes'
  BY DEF Abort, Timeout, Panic, Drop, ReleaseLock, GitTypes
<1>4. SchedTypes' /\ RunTypes'
  BY DriverFrame DEF Abort, Timeout, Panic, Drop
<1> QED
  BY <1>2, <1>3, <1>4

\* Every step keeps the types.
LEMMA TypeStep ==
  ASSUME TypeOK, [Next]_vars
  PROVE  TypeOK'
<1>1. CASE UNCHANGED vars
  BY <1>1, Zenon DEF TypeOK, TaskTypes, GitTypes, SchedTypes, RunTypes, vars, taskVars, gitVars,
     schedVars, runVars, endVars
<1>2. CASE Next
  BY <1>1, <1>2, SchedulerType, DriverType, DropType, EnvType DEF Next, Ended
<1> QED
  BY <1>1, <1>2

\* Every variable keeps its type through every driver, scheduler and command
\* step, every dropped driver and every rerun of the graph.
THEOREM TypeCorrect == Spec => []TypeOK
<1>1. TypeOK /\ [Next]_vars => TypeOK'
  BY TypeStep
<1> QED
  BY TypeInit, <1>1, PTL DEF Spec

-----------------------------------------------------------------------------
(* Done is final.                                                          *)

\* The events that cannot make a task Done.
Setbacks == Events \ {"ReviewerApproved"}

\* Done has no way out, and only an approval leads to it.
LEMMA DoneByApproval ==
  ASSUME NEW s, NEW e \in Setbacks
  PROVE  After(s, e) = "Done" <=> s = "Done"
BY DEF After, Legal, Events, Target, From, Setbacks

\* An approval does not undo Done either.
LEMMA DoneKept == After("Done", "ReviewerApproved") = "Done"
BY DEF After, Legal, Events, Target, From

LEMMA SetbackNames ==
  /\ "DependenciesSatisfied" \in Setbacks /\ "Dispatched" \in Setbacks
  /\ "GateFailed" \in Setbacks /\ "GatesPassed" \in Setbacks /\ "GateCapReached" \in Setbacks
  /\ "HardError" \in Setbacks /\ "WallClockCapReached" \in Setbacks
  /\ "ReviewerRejected" \in Setbacks /\ "ReviewCapReached" \in Setbacks
  /\ "MergeConflict" \in Setbacks /\ "DependencyFailed" \in Setbacks
  /\ "RetryRequested" \in Setbacks /\ "DependencyReset" \in Setbacks
BY EventNames DEF Setbacks

\* What a driver may do to the state of its task.
LEMMA DriverState ==
  ASSUME NEW u \in Tasks, DriverStep(u)
  PROVE  \/ UNCHANGED state
         \/ \E e \in Setbacks : state' = [state EXCEPT ![u] = After(@, e)]
         \/ Approve(u)
         \/ SettleDone(u)
<1> USE SetbackNames DEF Fire, Goto
<1>1. CASE Claim(u)
  BY <1>1, Zenon DEF Claim
<1>2. CASE CreateWorktree(u)
  BY <1>2, Zenon DEF CreateWorktree
<1>3. CASE DevelopTurn(u)
  BY <1>3, Zenon DEF DevelopTurn
<1>4. CASE RunGates(u)
  BY <1>4, Zenon DEF RunGates
<1>5. CASE GateCapReached(u)
  BY <1>5, Zenon DEF GateCapReached
<1>6. CASE ReviewTurn(u)
  BY <1>6, Zenon DEF ReviewTurn, SendBack
<1>7. CASE AcquireMergeLock(u)
  BY <1>7, Zenon DEF AcquireMergeLock, SendBack
<1>8. CASE Merge(u)
  BY <1>8, Zenon DEF Merge, SendBack
<1>9. CASE PhaseB(u)
  BY <1>9, Zenon DEF PhaseB
<1>10. CASE Close(u)
  BY <1>10, Zenon DEF Close
<1> QED
  BY <1>1, <1>2, <1>3, <1>4, <1>5, <1>6, <1>7, <1>8, <1>9, <1>10, Zenon DEF DriverStep

\* Skipping dependents makes nothing Done and undoes nothing Done.
LEMMA SkipDone ==
  ASSUME NEW st \in [Tasks -> TaskStates], NEW t \in Tasks, NEW u \in Tasks
  PROVE  SkipDependents(st, t)[u] = "Done" <=> st[u] = "Done"
BY DoneByApproval, SetbackNames DEF SkipDependents, IsTerminal, SettledStates

\* A task enters Done by an approval, and leaves it only by the cancelled
\* driver that has not settled it yet.
LEMMA DoneStep ==
  ASSUME TypeOK, [Next]_vars, NEW t \in Tasks
  PROVE  /\ state[t] = "Done" => state'[t] = "Done" \/ (cancel /\ pc[t] = "settle")
         /\ state'[t] = "Done" => state[t] = "Done" \/ Approve(t)
<1> DEFINE Keeps == state'[t] = "Done" <=> state[t] = "Done"
<1>0. state \in [Tasks -> TaskStates]
  BY DEF TypeOK, TaskTypes
<1>1. ASSUME UNCHANGED state
      PROVE  Keeps
  BY <1>1
<1>2. ASSUME NEW u \in Tasks, DriverStep(u)
      PROVE  Keeps \/ Approve(t) \/ (SettleDone(t) /\ cancel /\ state'[t] = "InReview")
  <2>1. ASSUME NEW e \in Setbacks, state' = [state EXCEPT ![u] = After(@, e)]
        PROVE  Keeps
    BY <2>1, <1>0, DoneByApproval
  <2>2. CASE Approve(u)
    BY <2>2, <1>0 DEF Approve, Fire
  <2>3. CASE SettleDone(u)
    BY <2>3, <1>0 DEF SettleDone, Goto
  <2> QED
    BY <1>1, <1>2, <2>1, <2>2, <2>3, DriverState
<1>3. ASSUME NEW u \in Tasks, Abort(u) \/ Timeout(u) \/ Panic(u)
      PROVE  Keeps
  BY <1>3 DEF Abort, Timeout, Panic, Drop, Goto
<1>4. ASSUME SchedulerStep
      PROVE  Keeps
  <2>1. ASSUME NEW u \in Tasks, Launch(u)
        PROVE  Keeps
    BY <2>1, <1>0, DoneByApproval, SetbackNames DEF Launch
  <2>2. ASSUME NEW u \in Tasks, Join(u)
        PROVE  Keeps
    <3> DEFINE settled == [state EXCEPT ![u] = Settle(@, cancel)]
               late    == [state EXCEPT ![u] = After(@, "WallClockCapReached")]
    <3>1. settled \in [Tasks -> TaskStates] /\ (settled[t] = "Done" <=> state[t] = "Done")
      BY <1>0, AfterType, EventNames, DoneByApproval, SetbackNames DEF Settle
    <3>2. late \in [Tasks -> TaskStates] /\ (late[t] = "Done" <=> state[t] = "Done")
      BY <1>0, AfterType, EventNames, DoneByApproval, SetbackNames
    <3> HIDE DEF settled, late
    <3>3. \/ UNCHANGED state
          \/ state' = SkipDependents(state, u)
          \/ state' = SkipDependents(settled, u)
          \/ state' = SkipDependents(late, u)
      BY <2>2, Zenon DEF Join, JoinDone, JoinFailed, JoinErr, JoinTimedOut, JoinAborted,
         JoinPanicked, taskVars, settled, late
    <3> QED
      BY <1>0, <3>1, <3>2, <3>3, SkipDone
  <2> QED
    BY <1>4, <2>1, <2>2 DEF SchedulerStep, LoopTop, StopFilling, EnterWait, WakeOnCancel,
       Integrate, Publish, taskVars
<1>5. ASSUME Cancel \/ Pause \/ SupersedePaused \/ PersistFails \/ Resume
      PROVE  Keeps
  BY <1>5, <1>0 DEF Cancel, Pause, SupersedePaused, PersistFails, Resume, Respawn, taskVars,
     ActiveStates
<1>6. ASSUME NEW reset \in SUBSET Tasks, Retry(reset)
      PROVE  Keeps
  <2> DEFINE again   == [u \in Tasks |-> IF u \in reset THEN After(state[u], "RetryRequested")
                                         ELSE state[u]]
             revived == Revived(again, reset)
             reset2  == [u \in Tasks |-> IF u \in revived THEN After(again[u], "DependencyReset")
                                         ELSE again[u]]
  <2>1. again[t] = "Done" <=> state[t] = "Done"
    BY DoneByApproval, SetbackNames
  <2> HIDE DEF again
  <2>2. reset2[t] = "Done" <=> again[t] = "Done"
    BY DoneByApproval, SetbackNames
  <2> HIDE DEF reset2
  <2>3. RemarkReady(reset2)[t] = "Done" <=> reset2[t] = "Done"
    BY DoneByApproval, SetbackNames DEF RemarkReady
  <2>4. state' = RemarkReady(reset2)
    BY <1>6 DEF Retry, Respawn, again, reset2
  <2> QED
    BY <2>1, <2>2, <2>3, <2>4
<1>7. Keeps \/ Approve(t) \/ (SettleDone(t) /\ cancel /\ state'[t] = "InReview")
  BY <1>1, <1>2, <1>3, <1>4, <1>5, <1>6, Zenon DEF Next, Ended, vars, taskVars
<1>8. ASSUME Approve(t), state[t] = "Done"
      PROVE  state'[t] = "Done"
  BY <1>8, <1>0, DoneKept DEF Approve, Fire
<1> QED
  BY <1>7, <1>8 DEF SettleDone

\* No late timeout, driver error, failed prerequisite, failed checkpoint write
\* or retry takes Done away from a task that has settled.
THEOREM DoneStaysDone == Spec => DoneIsFinal
<1>1. TypeOK /\ [Next]_vars =>
        [\A t \in Tasks : state[t] = "Done" =>
           state'[t] = "Done" \/ (cancel /\ pc[t] = "settle")]_vars
  BY DoneStep
<1> QED
  BY TypeCorrect, <1>1, PTL DEF Spec, DoneIsFinal

-----------------------------------------------------------------------------
(* The JoinSet and in_flight.                                              *)

\* A driver that has not been joined is in in_flight, and the loop is over only
\* once every driver has been joined.
DriversTracked ==
  /\ \A t \in Tasks : pc[t] # "idle" => t \in inFlight
  /\ sched \in {"integrate", "publish", "done"} => JoinSetEmpty

LEMMA TrackInit == Init => DriversTracked
BY DEF Init, DriversTracked

\* A driver that steps or is dropped was launched and not joined.
LEMMA DriverMoves ==
  ASSUME TypeOK, NEW u \in Tasks, DriverStep(u) \/ Abort(u) \/ Timeout(u) \/ Panic(u)
  PROVE  pc[u] # "idle" /\ \A t \in Tasks \ {u} : pc'[t] = pc[t]
<1>1. pc \in [Tasks -> PCs]
  BY DEF TypeOK, TaskTypes
<1>2. CASE Abort(u) \/ Timeout(u) \/ Panic(u)
  BY <1>1, <1>2 DEF Abort, Timeout, Panic, Drop, Running, Working, Goto
<1>3. CASE DriverStep(u)
  <2>1. pc[u] # "idle"
    BY <1>3 DEF DriverStep, Claim, CreateWorktree, DevelopTurn, RunGates, GateCapReached,
       ReviewTurn, AcquireMergeLock, Merge, PhaseB, Approve, SettleDone, Close
  <2>2. \E next : pc' = [pc EXCEPT ![u] = next]
    BY <1>3, Zenon DEF DriverStep, Claim, CreateWorktree, DevelopTurn, RunGates, GateCapReached,
       ReviewTurn, AcquireMergeLock, Merge, PhaseB, Approve, SettleDone, Close, Fire, Goto, SendBack
  <2> QED
    BY <1>1, <2>1, <2>2
<1> QED
  BY <1>2, <1>3

LEMMA TrackStep ==
  ASSUME TypeOK, DriversTracked, [Next]_vars
  PROVE  DriversTracked'
<1>0. pc \in [Tasks -> PCs]
  BY DEF TypeOK, TaskTypes
<1>1. ASSUME UNCHANGED <<pc, inFlight, sched>>
      PROVE  DriversTracked'
  BY <1>1 DEF DriversTracked, JoinSetEmpty
<1>2. ASSUME NEW u \in Tasks, DriverStep(u) \/ Abort(u) \/ Timeout(u) \/ Panic(u)
      PROVE  DriversTracked'
  <2>1. UNCHANGED <<sched, inFlight>>
    BY <1>2 DEF DriverStep, Claim, CreateWorktree, DevelopTurn, RunGates, GateCapReached,
       ReviewTurn, AcquireMergeLock, Merge, PhaseB, Approve, SettleDone, Close, Abort, Timeout,
       Panic, Drop, schedVars
  <2>2. pc[u] # "idle" /\ \A t \in Tasks \ {u} : pc'[t] = pc[t]
    BY <1>2, DriverMoves
  <2> QED
    BY <2>1, <2>2 DEF DriversTracked, JoinSetEmpty
<1>3. CASE SchedulerStep
  <2>1. ASSUME NEW u \in Tasks, Launch(u)
        PROVE  DriversTracked'
    BY <1>0, <2>1 DEF Launch, DriversTracked
  <2>2. ASSUME NEW u \in Tasks, Join(u)
        PROVE  DriversTracked'
    <3>1. /\ pc' = [pc EXCEPT ![u] = "idle"]
          /\ sched' = "top"
      BY <2>2, Zenon DEF Join, JoinDone, JoinFailed, JoinErr, JoinTimedOut, JoinAborted,
         JoinPanicked, Joins
    <3>2. inFlight' = inFlight \/ inFlight' = inFlight \ {u}
      BY <2>2, Zenon DEF Join, JoinDone, JoinFailed, JoinErr, JoinTimedOut, JoinAborted, JoinPanicked
    <3> QED
      BY <1>0, <3>1, <3>2 DEF DriversTracked
  <2>3. CASE LoopTop \/ StopFilling \/ EnterWait \/ WakeOnCancel \/ Integrate \/ Publish
    BY <2>3 DEF LoopTop, StopFilling, EnterWait, WakeOnCancel, Integrate, Publish, DriversTracked,
       JoinSetEmpty
  <2> QED
    BY <1>3, <2>1, <2>2, <2>3 DEF SchedulerStep
<1>4. CASE Cancel \/ Pause \/ SupersedePaused \/ PersistFails
  BY <1>1, <1>4 DEF Cancel, Pause, SupersedePaused, PersistFails, schedVars
<1>5. CASE Resume \/ \E reset \in SUBSET Tasks : Retry(reset)
  BY <1>5 DEF Resume, Retry, Respawn, DriversTracked, JoinSetEmpty
<1> QED
  BY <1>1, <1>2, <1>3, <1>4, <1>5 DEF Next, Ended, vars, schedVars

-----------------------------------------------------------------------------
(* The merge lock.                                                         *)

\* Initially no driver is in Phase A and nobody holds the lock.
LEMMA LockInit == Init => MergeLockOwned
BY TasksAssumption DEF Init, MergeLockOwned

\* A step of a driver, or its drop, keeps the lock with the driver in Phase A.
LEMMA LockStep ==
  ASSUME TypeOK, DriversTracked, MergeLockOwned, [Next]_vars
  PROVE  MergeLockOwned'
<1>0. /\ pc \in [Tasks -> PCs] /\ mergeLock \in Tasks \cup {Nobody} /\ Nobody \notin Tasks
      /\ \A t \in Tasks : pc[t] = "merging" <=> mergeLock = t
  BY TasksAssumption DEF TypeOK, TaskTypes, GitTypes, MergeLockOwned
<1>1. ASSUME UNCHANGED <<pc, mergeLock>>
      PROVE  MergeLockOwned'
  BY <1>1 DEF MergeLockOwned
<1>2. ASSUME NEW u \in Tasks, NEW next, next # "merging", pc[u] # "merging",
             pc' = [pc EXCEPT ![u] = next], UNCHANGED mergeLock
      PROVE  MergeLockOwned'
  BY <1>0, <1>2 DEF MergeLockOwned
<1>3. ASSUME NEW u \in Tasks, NEW next, next # "merging", pc[u] = "merging",
             pc' = [pc EXCEPT ![u] = next], mergeLock' = Nobody
      PROVE  MergeLockOwned'
  BY <1>0, <1>3 DEF MergeLockOwned
<1>4. ASSUME NEW u \in Tasks, DriverStep(u)
      PROVE  MergeLockOwned'
  <2> USE DEF Fire, Goto, SendBack
  <2>1. CASE Claim(u) \/ CreateWorktree(u) \/ DevelopTurn(u) \/ RunGates(u) \/ GateCapReached(u)
    BY <1>2, <2>1 DEF Claim, CreateWorktree, DevelopTurn, RunGates, GateCapReached, gitVars
  <2>2. CASE ReviewTurn(u) \/ PhaseB(u) \/ Approve(u) \/ SettleDone(u) \/ Close(u)
    BY <1>2, <2>2 DEF ReviewTurn, PhaseB, Approve, SettleDone, Close, gitVars
  <2>3. CASE AcquireMergeLock(u)
    <3>1. CASE mergeLock' = u
      BY <1>0, <2>3, <3>1 DEF AcquireMergeLock, MergeLockOwned
    <3>2. CASE mergeLock' # u
      BY <1>2, <2>3, <3>2 DEF AcquireMergeLock
    <3> QED
      BY <3>1, <3>2
  <2>4. CASE Merge(u)
    BY <1>3, <2>4 DEF Merge
  <2> QED
    BY <1>4, <2>1, <2>2, <2>3, <2>4 DEF DriverStep
<1>5. ASSUME NEW u \in Tasks, Abort(u) \/ Timeout(u) \/ Panic(u)
      PROVE  MergeLockOwned'
  <2>1. PICK next \in {"aborted", "timedOut", "panicked"} : Drop(u, next)
    BY <1>5 DEF Abort, Timeout, Panic
  <2>2. CASE pc[u] = "merging"
    BY <1>0, <1>3, <2>1, <2>2 DEF Drop, Goto, ReleaseLock
  <2>3. CASE pc[u] # "merging"
    BY <1>0, <1>2, <2>1, <2>3 DEF Drop, Goto, ReleaseLock
  <2> QED
    BY <2>2, <2>3
<1>6. ASSUME SchedulerStep
      PROVE  MergeLockOwned'
  <2>1. ASSUME NEW u \in Tasks, Launch(u) \/ Join(u)
        PROVE  MergeLockOwned'
    <3>1. pc[u] # "merging" /\ UNCHANGED mergeLock
      <4>1. CASE Join(u)
        BY <4>1 DEF Join, JoinDone, JoinFailed, JoinErr, JoinTimedOut, JoinAborted, JoinPanicked,
           Joins, gitVars
      <4>2. CASE Launch(u)
        BY <4>2 DEF Launch, NextReady, DriversTracked, gitVars
      <4> QED
        BY <2>1, <4>1, <4>2
    <3>2. PICK next \in {"claim", "worktree", "idle"} : pc' = [pc EXCEPT ![u] = next]
      BY <2>1, Zenon DEF Launch, Join, JoinDone, JoinFailed, JoinErr, JoinTimedOut, JoinAborted,
         JoinPanicked, Joins
    <3> QED
      BY <1>2, <3>1, <3>2
  <2> QED
    BY <1>1, <1>6, <2>1 DEF SchedulerStep, LoopTop, StopFilling, EnterWait, WakeOnCancel,
       Integrate, Publish, gitVars
<1>7. ASSUME \/ Cancel \/ Pause \/ SupersedePaused \/ PersistFails \/ Resume
             \/ \E reset \in SUBSET Tasks : Retry(reset)
      PROVE  MergeLockOwned'
  BY <1>1, <1>7 DEF Cancel, Pause, SupersedePaused, PersistFails, Resume, Retry, Respawn, gitVars
<1> QED
  BY <1>1, <1>4, <1>5, <1>6, <1>7 DEF Next, Ended, vars, gitVars

\* No abort, timeout, panic, correction or rerun leaks the merge lock, and no
\* two drivers are in Phase A at once.
THEOREM MergeLockSafe == Spec => []MergeLockOwned
<1> DEFINE Inv == TypeOK /\ DriversTracked /\ MergeLockOwned
<1>1. Init => Inv
  BY TypeInit, TrackInit, LockInit
<1>2. Inv /\ [Next]_vars => Inv'
  BY TypeStep, TrackStep, LockStep
<1> QED
  BY <1>1, <1>2, PTL DEF Spec

-----------------------------------------------------------------------------
(* Done means landed, and work starts on landed prerequisites.             *)

\* The places between Phase A and the approval stand on what was committed.
PhasesRecorded ==
  /\ \A t \in Tasks : pc[t] \in {"landed", "bookkept"} => t \in landed
  /\ \A t \in Tasks : pc[t] = "bookkept" => t \in bookkept

LandingInv == TypeOK /\ PhasesRecorded /\ DoneIsLanded /\ PrerequisitesLanded

LEMMA LandingInit == Init => LandingInv
<1> SUFFICES ASSUME Init PROVE LandingInv
  OBVIOUS
<1>1. \A t \in Tasks : SeedState(t) # "Done"
  BY DEF SeedState, SeedStates
<1>2. PhasesRecorded /\ DoneIsLanded /\ PrerequisitesLanded
  BY <1>1 DEF Init, PhasesRecorded, DoneIsLanded, PrerequisitesLanded, Running, Working
<1> QED
  BY <1>2, TypeInit DEF LandingInv

\* The plan ref only grows: no commit is ever taken back.
LEMMA LandedGrows ==
  ASSUME TypeOK, [Next]_vars
  PROVE  landed \subseteq landed' /\ bookkept \subseteq bookkept'
<1>1. ASSUME UNCHANGED gitVars
      PROVE  landed \subseteq landed' /\ bookkept \subseteq bookkept'
  BY <1>1 DEF gitVars
<1>2. ASSUME NEW u \in Tasks, DriverStep(u) \/ Abort(u) \/ Timeout(u) \/ Panic(u)
      PROVE  landed \subseteq landed' /\ bookkept \subseteq bookkept'
  BY <1>2 DEF DriverStep, Claim, CreateWorktree, DevelopTurn, RunGates, GateCapReached, ReviewTurn,
     AcquireMergeLock, Merge, PhaseB, Approve, SettleDone, Close, Abort, Timeout, Panic, Drop, gitVars
<1>3. CASE SchedulerStep
  BY <1>1, <1>3 DEF SchedulerStep, LoopTop, StopFilling, EnterWait, WakeOnCancel, Integrate,
     Publish, Launch, Join, JoinDone, JoinFailed, JoinErr, JoinTimedOut, JoinAborted, JoinPanicked
<1>4. ASSUME \/ Cancel \/ Pause \/ SupersedePaused \/ PersistFails \/ Resume
             \/ \E reset \in SUBSET Tasks : Retry(reset)
      PROVE  landed \subseteq landed' /\ bookkept \subseteq bookkept'
  BY <1>1, <1>4 DEF Cancel, Pause, SupersedePaused, PersistFails, Resume, Retry, Respawn, gitVars
<1> QED
  BY <1>1, <1>2, <1>3, <1>4 DEF Next, Ended, vars

\* Only a landing leads to "landed", only a Phase B to "bookkept".
LEMMA PhaseEntered ==
  ASSUME TypeOK, [Next]_vars, NEW t \in Tasks
  PROVE  /\ pc'[t] = "landed" => pc[t] = "landed" \/ t \in landed'
         /\ pc'[t] = "bookkept" => pc[t] = "bookkept" \/ (pc[t] = "landed" /\ t \in bookkept')
<1> DEFINE Entered ==
      /\ pc'[t] = "landed" => pc[t] = "landed" \/ t \in landed'
      /\ pc'[t] = "bookkept" => pc[t] = "bookkept" \/ (pc[t] = "landed" /\ t \in bookkept')
<1>0. pc \in [Tasks -> PCs]
  BY DEF TypeOK, TaskTypes
<1>1. ASSUME UNCHANGED pc
      PROVE  Entered
  BY <1>1
<1>2. ASSUME NEW u \in Tasks, NEW next, next \notin {"landed", "bookkept"},
             pc' = [pc EXCEPT ![u] = next]
      PROVE  Entered
  BY <1>0, <1>2
<1>3. ASSUME NEW u \in Tasks, DriverStep(u)
      PROVE  Entered
  <2> USE DEF Fire, Goto, SendBack
  <2>1. CASE Claim(u) \/ CreateWorktree(u) \/ DevelopTurn(u) \/ RunGates(u) \/ GateCapReached(u)
    BY <1>2, <2>1 DEF Claim, CreateWorktree, DevelopTurn, RunGates, GateCapReached
  <2>2. CASE ReviewTurn(u) \/ AcquireMergeLock(u)
    BY <1>2, <2>2 DEF ReviewTurn, AcquireMergeLock
  <2>3. CASE Approve(u) \/ SettleDone(u) \/ Close(u)
    BY <1>2, <2>3 DEF Approve, SettleDone, Close
  <2>4. CASE Merge(u)
    BY <1>0, <2>4 DEF Merge
  <2>5. CASE PhaseB(u)
    BY <1>0, <2>5 DEF PhaseB
  <2> QED
    BY <1>3, <2>1, <2>2, <2>3, <2>4, <2>5 DEF DriverStep
<1>4. ASSUME NEW u \in Tasks, Abort(u) \/ Timeout(u) \/ Panic(u)
      PROVE  Entered
  BY <1>2, <1>4 DEF Abort, Timeout, Panic, Drop, Goto
<1>5. ASSUME NEW u \in Tasks, Launch(u) \/ Join(u)
      PROVE  Entered
  <2>1. PICK next \in {"claim", "worktree", "idle"} : pc' = [pc EXCEPT ![u] = next]
    BY <1>5, Zenon DEF Launch, Join, JoinDone, JoinFailed, JoinErr, JoinTimedOut, JoinAborted,
       JoinPanicked, Joins
  <2> QED
    BY <1>2, <2>1
<1>6. CASE SchedulerStep
  BY <1>1, <1>5, <1>6 DEF SchedulerStep, LoopTop, StopFilling, EnterWait, WakeOnCancel, Integrate,
     Publish
<1>7. ASSUME \/ Cancel \/ Pause \/ SupersedePaused \/ PersistFails \/ Resume
             \/ \E reset \in SUBSET Tasks : Retry(reset)
      PROVE  Entered
  BY <1>1, <1>7 DEF Cancel, Pause, SupersedePaused, PersistFails, Resume, Retry, Respawn
<1> QED
  BY <1>1, <1>3, <1>4, <1>6, <1>7 DEF Next, Ended, vars

\* A task starts to be worked on only when it is launched.
LEMMA WorkStarts ==
  ASSUME TypeOK, [Next]_vars, NEW t \in Tasks, Running(t)', ~Running(t)
  PROVE  Launch(t)
<1>0. pc \in [Tasks -> PCs] /\ pc'[t] \in Working /\ pc[t] \notin Working
  BY DEF TypeOK, TaskTypes, Running
<1>1. \A u \in Tasks : DriverStep(u) => pc[u] \in Working
  BY DEF DriverStep, Claim, CreateWorktree, DevelopTurn, RunGates, GateCapReached, ReviewTurn,
     AcquireMergeLock, Merge, PhaseB, Approve, SettleDone, Close, Working
<1>2. ASSUME NEW u \in Tasks, DriverStep(u) \/ Abort(u) \/ Timeout(u) \/ Panic(u)
      PROVE  FALSE
  <2>1. pc[u] \in Working
    BY <1>1, <1>2 DEF Abort, Timeout, Panic, Drop, Running
  <2>2. pc'[t] = pc[t]
    BY <1>0, <1>2, <2>1, DriverMoves
  <2> QED
    BY <1>0, <2>2
<1>3. ASSUME UNCHANGED pc
      PROVE  FALSE
  BY <1>0, <1>3
<1>4. ASSUME NEW u \in Tasks, Join(u)
      PROVE  FALSE
  <2>1. pc' = [pc EXCEPT ![u] = "idle"]
    BY <1>4, Zenon DEF Join, JoinDone, JoinFailed, JoinErr, JoinTimedOut, JoinAborted,
       JoinPanicked, Joins
  <2> QED
    BY <1>0, <2>1 DEF Working
<1>5. ASSUME NEW u \in Tasks, Launch(u), u # t
      PROVE  FALSE
  BY <1>0, <1>5 DEF Launch
<1>6. CASE SchedulerStep
  BY <1>3, <1>4, <1>5, <1>6 DEF SchedulerStep, LoopTop, StopFilling, EnterWait, WakeOnCancel,
     Integrate, Publish
<1>7. ASSUME \/ Cancel \/ Pause \/ SupersedePaused \/ PersistFails \/ Resume
             \/ \E reset \in SUBSET Tasks : Retry(reset)
      PROVE  FALSE
  BY <1>3, <1>7 DEF Cancel, Pause, SupersedePaused, PersistFails, Resume, Retry, Respawn
<1> QED
  BY <1>2, <1>3, <1>6, <1>7 DEF Next, Ended, vars

\* Only the step after the loop integrates, and only when every task is Done.
LEMMA Integrated ==
  ASSUME TypeOK, [Next]_vars, integrated', ~integrated
  PROVE  \A t \in Tasks : state[t] = "Done"
<1>1. CASE Integrate
  BY <1>1 DEF Integrate, AggregateStatus
<1>2. CASE UNCHANGED integrated
  BY <1>2
<1>3. Integrate \/ UNCHANGED integrated
  <2>1. ASSUME NEW u \in Tasks, DriverStep(u) \/ Abort(u) \/ Timeout(u) \/ Panic(u)
        PROVE  UNCHANGED integrated
    BY <2>1 DEF DriverStep, Claim, CreateWorktree, DevelopTurn, RunGates, GateCapReached,
       ReviewTurn, AcquireMergeLock, Merge, PhaseB, Approve, SettleDone, Close, Abort, Timeout,
       Panic, Drop, endVars
  <2>2. CASE SchedulerStep
    BY <2>2, Zenon DEF SchedulerStep, LoopTop, StopFilling, EnterWait, WakeOnCancel, Publish, Launch,
       Join, JoinDone, JoinFailed, JoinErr, JoinTimedOut, JoinAborted, JoinPanicked, endVars
  <2>3. ASSUME \/ Cancel \/ Pause \/ SupersedePaused \/ PersistFails \/ Resume
               \/ \E reset \in SUBSET Tasks : Retry(reset)
        PROVE  UNCHANGED integrated
    BY <2>3 DEF Cancel, Pause, SupersedePaused, PersistFails, Resume, Retry, Respawn, endVars
  <2> QED
    BY <2>1, <2>2, <2>3, Zenon DEF Next, Ended, vars, endVars
<1> QED
  BY <1>1, <1>2, <1>3

LEMMA LandingStep ==
  ASSUME LandingInv, [Next]_vars
  PROVE  LandingInv'
<1> USE DEF LandingInv
<1>1. TypeOK'
  BY TypeStep
<1>2. landed \subseteq landed' /\ bookkept \subseteq bookkept'
  BY LandedGrows
<1>3. PhasesRecorded'
  BY <1>2, PhaseEntered DEF PhasesRecorded
<1>4. ASSUME NEW t \in Tasks, state'[t] = "Done"
      PROVE  t \in landed' /\ (Typed => t \in bookkept')
  <2>1. state[t] = "Done" \/ Approve(t)
    BY <1>4, DoneStep
  <2>2. CASE state[t] = "Done"
    BY <1>2, <2>2 DEF DoneIsLanded
  <2>3. CASE Approve(t)
    BY <1>2, <2>3 DEF Approve, PhasesRecorded
  <2> QED
    BY <2>1, <2>2, <2>3
<1>5. integrated' => landed' = Tasks
  <2>1. landed' \subseteq Tasks
    BY <1>1 DEF TypeOK, GitTypes
  <2>2. CASE integrated
    BY <1>2, <2>1, <2>2 DEF DoneIsLanded
  <2>3. CASE integrated' /\ ~integrated
    BY <1>2, <2>1, <2>3, Integrated DEF DoneIsLanded
  <2> QED
    BY <2>2, <2>3
<1>6. ASSUME NEW t \in Tasks, Running(t)', NEW d \in DependsOn[t]
      PROVE  d \in landed' /\ (Typed => d \in bookkept')
  <2>1. CASE Running(t)
    BY <1>2, <2>1 DEF PrerequisitesLanded
  <2>2. CASE ~Running(t)
    <3>1. Launch(t)
      BY <1>6, <2>2, WorkStarts
    <3>2. d \in Tasks /\ state[d] = "Done"
      BY <3>1, TasksAssumption DEF Launch, NextReady
    <3> QED
      BY <1>2, <3>2 DEF DoneIsLanded
  <2> QED
    BY <2>1, <2>2
<1> QED
  BY <1>1, <1>3, <1>4, <1>5, <1>6 DEF DoneIsLanded, PrerequisitesLanded

\* In every run: a task shows Done only when its work is on the integration
\* branch and, in a typed run, recorded by Phase B; an integrated run has
\* landed all its tasks.
THEOREM DoneMeansLanded == Spec => []DoneIsLanded
<1>1. LandingInv => DoneIsLanded
  BY DEF LandingInv
<1>2. LandingInv /\ [Next]_vars => LandingInv'
  BY LandingStep
<1> QED
  BY LandingInit, <1>1, <1>2, PTL DEF Spec

\* In every run: a driver works only on a task whose prerequisites have landed,
\* so its worktree is forked from a branch that holds them.
THEOREM WorkStandsOnLanded == Spec => []PrerequisitesLanded
<1>1. LandingInv => PrerequisitesLanded
  BY DEF LandingInv
<1>2. LandingInv /\ [Next]_vars => LandingInv'
  BY LandingStep
<1> QED
  BY LandingInit, <1>1, <1>2, PTL DEF Spec

-----------------------------------------------------------------------------
(* The graph helpers, for every graph: Downstream and Revived are least sets. *)

Below(t, S) == \A v \in Tasks : DependsOn[v] \cap (S \cup {t}) # {} => v \in S

\* The tasks downstream of t are the dependents of t and of each other.
LEMMA DownstreamFacts ==
  ASSUME NEW t \in Tasks
  PROVE  /\ Downstream[t] \subseteq Tasks \ {t}
         /\ \A v \in Tasks \ {t} : DependsOn[v] \cap (Downstream[t] \cup {t}) # {} => v \in Downstream[t]
         /\ \A u \in Downstream[t] : DependsOn[u] \cap (Downstream[t] \cup {t}) # {}
         /\ \A S \in SUBSET Tasks : Below(t, S) => Downstream[t] \subseteq S
<1> DEFINE D == Downstream[t]
<1>1. D = {u \in Tasks \ {t} : \A S \in SUBSET Tasks : Below(t, S) => u \in S}
  BY DEF Downstream, Below
<1> HIDE DEF D
<1>2. D \subseteq Tasks \ {t}
  BY <1>1
<1>3. ASSUME NEW v \in Tasks \ {t}, DependsOn[v] \cap (D \cup {t}) # {}
      PROVE  v \in D
  <2>1. ASSUME NEW S \in SUBSET Tasks, Below(t, S)
        PROVE  v \in S
    <3>1. D \subseteq S
      BY <1>1, <2>1
    <3>2. DependsOn[v] \cap (S \cup {t}) # {}
      BY <1>3, <3>1
    <3> QED
      BY <2>1, <3>2 DEF Below
  <2> QED
    BY <1>1, <2>1
<1>4. ASSUME NEW u \in D, DependsOn[u] \cap (D \cup {t}) = {}
      PROVE  FALSE
  <2> DEFINE S == (D \cup {t}) \ {u}
  <2>1. S \in SUBSET Tasks
    BY <1>2
  <2>2. ASSUME NEW v \in Tasks, DependsOn[v] \cap (S \cup {t}) # {}
        PROVE  v \in S
    <3>1. DependsOn[v] \cap (D \cup {t}) # {}
      BY <2>2
    <3>2. v # u
      BY <1>4, <3>1
    <3> QED
      BY <1>3, <3>1, <3>2
  <2>3. u \in S
    BY <1>1, <1>4, <2>1, <2>2 DEF Below
  <2> QED
    BY <2>3
<1>5. \A S \in SUBSET Tasks : Below(t, S) => D \subseteq S
  BY <1>1
<1> QED
  BY <1>2, <1>3, <1>4, <1>5 DEF D

\* Skipping touches the active tasks downstream, and no other.
LEMMA SkipCases ==
  ASSUME NEW st \in [Tasks -> TaskStates], NEW t \in Tasks, NEW u \in Tasks
  PROVE  /\ u \in Downstream[t] /\ st[u] \in ActiveStates => SkipDependents(st, t)[u] = "Skipped"
         /\ ~(u \in Downstream[t] /\ st[u] \in ActiveStates) => SkipDependents(st, t)[u] = st[u]
<1>1. st[u] \in TaskStates
  OBVIOUS
<1>2. st[u] \in ActiveStates => ~IsTerminal(st[u]) /\ After(st[u], "DependencyFailed") = "Skipped"
  BY DEF ActiveStates, IsTerminal, SettledStates, After, Legal, From, Target
<1>3. st[u] \notin ActiveStates => After(st[u], "DependencyFailed") = st[u]
  BY DEF ActiveStates, After, Legal, From
<1> QED
  BY <1>2, <1>3 DEF SkipDependents

\* What Revived asks of a Skipped task before it may wait again.
Free(st, R, v) ==
  /\ st[v] = "Skipped"
  /\ DependsOn[v] \cap R # {}
  /\ \A d \in DependsOn[v] : st[d] # "Failed" /\ (st[d] = "Skipped" => d \in R)

\* The revived tasks are the reset ones and the freed ones, and all of these.
LEMMA RevivedFacts ==
  ASSUME NEW st, NEW reset \in SUBSET Tasks
  PROVE  /\ reset \subseteq Revived(st, reset) /\ Revived(st, reset) \subseteq Tasks
         /\ \A v \in Tasks : Free(st, Revived(st, reset), v) => v \in Revived(st, reset)
         /\ \A v \in Revived(st, reset) : v \in reset \/ Free(st, Revived(st, reset), v)
<1> DEFINE V == Revived(st, reset)
           Closed(R) == reset \subseteq R /\ \A v \in Tasks : Free(st, R, v) => v \in R
<1>1. V = {u \in Tasks : \A R \in SUBSET Tasks : Closed(R) => u \in R}
  BY DEF Revived, Free
<1> HIDE DEF V
<1>2. reset \subseteq V /\ V \subseteq Tasks
  BY <1>1
<1>3. ASSUME NEW v \in Tasks, Free(st, V, v)
      PROVE  v \in V
  <2>1. ASSUME NEW R \in SUBSET Tasks, Closed(R)
        PROVE  v \in R
    <3>1. V \subseteq R
      BY <1>1, <2>1
    <3>2. Free(st, R, v)
      BY <1>3, <3>1 DEF Free
    <3> QED
      BY <2>1, <3>2
  <2> HIDE DEF Closed
  <2> QED
    BY <1>1, <2>1
<1>4. ASSUME NEW v \in V
      PROVE  v \in reset \/ Free(st, V, v)
  <2> DEFINE R == {u \in V : u \in reset \/ Free(st, V, u)}
  <2>1. R \in SUBSET Tasks /\ R \subseteq V
    BY <1>2
  <2>2. ASSUME NEW u \in Tasks, Free(st, R, u)
        PROVE  u \in R
    <3>1. Free(st, V, u)
      BY <2>1, <2>2 DEF Free
    <3> QED
      BY <1>3, <3>1
  <2>3. reset \subseteq R
    BY <1>2
  <2> HIDE DEF R
  <2>4. Closed(R)
    BY <2>2, <2>3
  <2> HIDE DEF Closed
  <2>5. v \in R
    BY <1>1, <1>4, <2>1, <2>4
  <2> QED
    BY <2>5 DEF R
<1> QED
  BY <1>2, <1>3, <1>4 DEF V

-----------------------------------------------------------------------------
(* The steps, by what they leave alone.                                    *)

\* The steps of the scheduler loop that touch no task.
LoopStep == LoopTop \/ StopFilling \/ EnterWait \/ WakeOnCancel \/ Integrate \/ Publish

LEMMA StepCases ==
  ASSUME [Next]_vars
  PROVE  \/ UNCHANGED vars
         \/ LoopStep
         \/ \E u \in Tasks : DriverStep(u) \/ Abort(u) \/ Timeout(u) \/ Panic(u)
         \/ \E u \in Tasks : Launch(u)
         \/ \E u \in Tasks : Join(u)
         \/ Cancel \/ Pause \/ SupersedePaused
         \/ PersistFails
         \/ Resume
         \/ \E reset \in SUBSET Tasks : Retry(reset)
BY Zenon DEF Next, SchedulerStep, LoopStep, Ended

\* A driver works on its own task only, until it has finished.
LEMMA DriverShape ==
  ASSUME TypeOK, NEW u \in Tasks, DriverStep(u) \/ Abort(u) \/ Timeout(u) \/ Panic(u)
  PROVE  /\ pc[u] \in Working /\ pc'[u] \in Working \cup Finished
         /\ \A t \in Tasks \ {u} : pc'[t] = pc[t] /\ state'[t] = state[t]
         /\ UNCHANGED <<schedVars, runVars, endVars>>
<1>1. pc \in [Tasks -> PCs] /\ state \in [Tasks -> TaskStates]
  BY DEF TypeOK, TaskTypes
<1>2. UNCHANGED <<schedVars, runVars, endVars>>
  BY DEF DriverStep, Claim, CreateWorktree, DevelopTurn, RunGates, GateCapReached, ReviewTurn,
     AcquireMergeLock, Merge, PhaseB, Approve, SettleDone, Close, Abort, Timeout, Panic, Drop
<1>3. pc[u] \in Working
  BY DEF DriverStep, Claim, CreateWorktree, DevelopTurn, RunGates, GateCapReached, ReviewTurn,
     AcquireMergeLock, Merge, PhaseB, Approve, SettleDone, Close, Abort, Timeout, Panic, Drop,
     Working, Running
<1>4. \E next \in Working \cup Finished : pc' = [pc EXCEPT ![u] = next]
  <2> USE DEF Fire, Goto, SendBack, Working, Finished
  <2>1. CASE Claim(u) \/ CreateWorktree(u) \/ DevelopTurn(u) \/ RunGates(u) \/ GateCapReached(u)
    BY <2>1 DEF Claim, CreateWorktree, DevelopTurn, RunGates, GateCapReached
  <2>2. CASE ReviewTurn(u) \/ AcquireMergeLock(u) \/ Merge(u)
    BY <2>2 DEF ReviewTurn, AcquireMergeLock, Merge
  <2>3. CASE PhaseB(u) \/ Approve(u) \/ SettleDone(u) \/ Close(u)
    BY <2>3 DEF PhaseB, Approve, SettleDone, Close
  <2>4. CASE Abort(u) \/ Timeout(u) \/ Panic(u)
    BY <2>4 DEF Abort, Timeout, Panic, Drop
  <2> QED
    BY <2>1, <2>2, <2>3, <2>4 DEF DriverStep
<1>5. \E s : state' = [state EXCEPT ![u] = s]
  <2>1. UNCHANGED state => state' = [state EXCEPT ![u] = state[u]]
    BY <1>1
  <2>2. CASE DriverStep(u)
    BY <2>1, <2>2, DriverState DEF Approve, SettleDone, Fire, Goto
  <2>3. CASE Abort(u) \/ Timeout(u) \/ Panic(u)
    BY <2>1, <2>3 DEF Abort, Timeout, Panic, Drop, Goto
  <2> QED
    BY <2>2, <2>3
<1> QED
  BY <1>1, <1>2, <1>3, <1>4, <1>5

\* What a driver can make of its task.
Reached == {"InProgress", "InReview", "Failed", "Done"}

LEMMA DriverTarget ==
  ASSUME TypeOK, NEW u \in Tasks, DriverStep(u) \/ Abort(u) \/ Timeout(u) \/ Panic(u)
  PROVE  state'[u] = state[u] \/ state'[u] \in Reached
<1> DEFINE Own == {e \in Events : Target[e] \in Reached}
<1>1. state \in [Tasks -> TaskStates]
  BY DEF TypeOK, TaskTypes
<1>2. /\ "Dispatched" \in Own /\ "GateFailed" \in Own /\ "GatesPassed" \in Own
      /\ "GateCapReached" \in Own /\ "HardError" \in Own /\ "ReviewerRejected" \in Own
      /\ "ReviewerApproved" \in Own /\ "ReviewCapReached" \in Own /\ "MergeConflict" \in Own
  BY DEF Events, Target, Reached
<1>3. \A s, e : e \in Own => After(s, e) = s \/ After(s, e) \in Reached
  BY DEF After
<1> HIDE DEF Own
<1> DEFINE Moves == \E e \in Own : state' = [state EXCEPT ![u] = After(@, e)]
<1>4. ASSUME Moves PROVE state'[u] = state[u] \/ state'[u] \in Reached
  BY <1>1, <1>3, <1>4
<1>5. UNCHANGED state \/ Moves \/ SettleDone(u)
  <2> USE <1>2 DEF Fire, Goto
  <2>1. CASE Claim(u)
    BY <2>1, Zenon DEF Claim
  <2>2. CASE CreateWorktree(u)
    BY <2>2, Zenon DEF CreateWorktree
  <2>3. CASE DevelopTurn(u)
    BY <2>3, Zenon DEF DevelopTurn
  <2>4. CASE RunGates(u)
    BY <2>4, Zenon DEF RunGates
  <2>5. CASE GateCapReached(u)
    BY <2>5, Zenon DEF GateCapReached
  <2>6. CASE ReviewTurn(u)
    BY <2>6, Zenon DEF ReviewTurn, SendBack
  <2>7. CASE AcquireMergeLock(u)
    BY <2>7, Zenon DEF AcquireMergeLock, SendBack
  <2>8. CASE Merge(u)
    BY <2>8, Zenon DEF Merge, SendBack
  <2>9. CASE PhaseB(u)
    BY <2>9, Zenon DEF PhaseB
  <2>10. CASE Approve(u)
    BY <2>10, Zenon DEF Approve
  <2>11. CASE Close(u)
    BY <2>11, Zenon DEF Close
  <2>12. CASE Abort(u) \/ Timeout(u) \/ Panic(u)
    BY <2>12, Zenon DEF Abort, Timeout, Panic, Drop
  <2> QED
    BY <2>1, <2>2, <2>3, <2>4, <2>5, <2>6, <2>7, <2>8, <2>9, <2>10, <2>11, <2>12, Zenon
    DEF DriverStep
<1>6. CASE SettleDone(u)
  BY <1>1, <1>6 DEF SettleDone, Goto, Reached
<1>7. CASE UNCHANGED state
  BY <1>7
<1> QED
  BY <1>4, <1>5, <1>6, <1>7

\* The state the joined task is left in, before its dependents are skipped.
Joined(u) ==
  IF JoinErr(u) THEN Settle(state[u], cancel)
  ELSE IF JoinTimedOut(u) THEN After(state[u], "WallClockCapReached")
  ELSE state[u]

\* A join ends one driver and skips, if at all, active tasks downstream.
LEMMA JoinShape ==
  ASSUME TypeOK, NEW u \in Tasks, Join(u)
  PROVE  /\ pc[u] \in Finished /\ pc' = [pc EXCEPT ![u] = "idle"] /\ sched' = "top"
         /\ state'[u] = Joined(u)
         /\ \A t \in Tasks \ {u} :
              \/ state'[t] = state[t]
              \/ t \in Downstream[u] /\ state[t] \in ActiveStates /\ state'[t] = "Skipped"
         /\ JoinFailed(u) \/ JoinErr(u) \/ JoinTimedOut(u) =>
              \A t \in Downstream[u] : state[t] \in ActiveStates => state'[t] = "Skipped"
         /\ JoinDone(u) \/ JoinAborted(u) \/ JoinPanicked(u) => UNCHANGED state
         /\ UNCHANGED <<gateIter, reviewIter, launched, cancel, pause, abortAll, gitVars, endVars>>
<1> USE DEF JoinDone, JoinFailed, JoinErr, JoinTimedOut, JoinAborted, JoinPanicked, Joins
<1>1. state \in [Tasks -> TaskStates] /\ Downstream[u] \subseteq Tasks \ {u}
  BY DownstreamFacts DEF TypeOK, TaskTypes
<1>2. /\ pc[u] \in Finished /\ pc' = [pc EXCEPT ![u] = "idle"] /\ sched' = "top"
      /\ UNCHANGED <<gateIter, reviewIter, launched, cancel, pause, abortAll, gitVars, endVars>>
  BY DEF Join, Finished, taskVars, runVars
<1>3. Settle(state[u], cancel) \in TaskStates /\ After(state[u], "WallClockCapReached") \in TaskStates
  BY <1>1, AfterType, EventNames DEF Settle
<1> DEFINE settled == [state EXCEPT ![u] = Joined(u)]
<1>4. Joined(u) \in TaskStates /\ settled \in [Tasks -> TaskStates] /\ settled[u] = Joined(u)
      /\ \A t \in Tasks \ {u} : settled[t] = state[t]
  <2>1. Joined(u) \in TaskStates
    BY <1>1, <1>3 DEF Joined
  <2> HIDE DEF Joined
  <2> QED
    BY <1>1, <2>1
<1>5. CASE JoinDone(u) \/ JoinAborted(u) \/ JoinPanicked(u)
  <2>1. UNCHANGED state /\ ~JoinErr(u) /\ ~JoinTimedOut(u) /\ ~JoinFailed(u)
    BY <1>5 DEF taskVars
  <2>2. Joined(u) = state[u]
    BY <2>1, Zenon DEF Joined
  <2> HIDE DEF Joined, JoinDone, JoinFailed, JoinErr, JoinTimedOut, JoinAborted, JoinPanicked, Joins
  <2> QED
    BY <1>2, <2>1, <2>2
<1>6. CASE JoinFailed(u) \/ JoinErr(u) \/ JoinTimedOut(u)
  <2>1. state' = SkipDependents(settled, u)
    <3>1. CASE JoinFailed(u)
      <4>1. ~JoinErr(u) /\ ~JoinTimedOut(u)
        BY <3>1
      <4>2. Joined(u) = state[u]
        BY <4>1, Zenon DEF Joined
      <4>3. settled = state
        BY <1>1, <4>2
      <4> QED
        BY <3>1, <4>3
    <3>2. CASE JoinErr(u)
      <4>1. Joined(u) = Settle(state[u], cancel)
        BY <3>2, Zenon DEF Joined
      <4> QED
        BY <1>1, <3>2, <4>1
    <3>3. CASE JoinTimedOut(u)
      <4>1. ~JoinErr(u)
        BY <3>3
      <4>2. Joined(u) = After(state[u], "WallClockCapReached")
        BY <3>3, <4>1, Zenon DEF Joined
      <4> QED
        BY <1>1, <3>3, <4>2
    <3> QED
      BY <1>6, <3>1, <3>2, <3>3
  <2>2. ~(JoinDone(u) \/ JoinAborted(u) \/ JoinPanicked(u))
    BY <1>6
  <2> HIDE DEF Joined, settled, JoinDone, JoinFailed, JoinErr, JoinTimedOut, JoinAborted, JoinPanicked, Joins
  <2>3. state'[u] = Joined(u)
    BY <1>1, <1>4, <2>1, SkipCases
  <2>4. \A t \in Tasks \ {u} :
          /\ t \in Downstream[u] /\ state[t] \in ActiveStates => state'[t] = "Skipped"
          /\ ~(t \in Downstream[u] /\ state[t] \in ActiveStates) => state'[t] = state[t]
    BY <1>4, <2>1, SkipCases
  <2> QED
    BY <1>1, <1>2, <2>2, <2>3, <2>4
<1> QED
  BY <1>5, <1>6 DEF Join

\* A rerun: no driver is left, and tasks only go back to waiting.
LEMMA RetryShape ==
  ASSUME TypeOK, DriversTracked, NEW reset \in SUBSET Tasks, Retry(reset)
  PROVE  /\ \A t \in Tasks : pc[t] = "idle" /\ pc'[t] = "idle"
         /\ inFlight' = {} /\ launched' = {} /\ sched' = "top" /\ ~stopLaunching' /\ ~abortAll'
         /\ ~fatal' /\ ~cancel' /\ ~pause' /\ MaxReruns # 0
         /\ \A t \in reset : state[t] = "Failed"
         /\ \E again \in [Tasks -> TaskStates] :
              /\ \A t \in Tasks : again[t] = IF t \in reset THEN "New" ELSE state[t]
              /\ \A t \in Tasks :
                   LET waits == t \in Revived(again, reset) \/ again[t] = "New" IN
                   /\ waits => state'[t] \in {"New", "Ready"}
                   /\ ~waits => state'[t] = state[t]
         /\ \A t \in reset : gateIter'[t] = 0 /\ reviewIter'[t] = 0
         /\ \A t \in Tasks \ reset : gateIter'[t] = gateIter[t] /\ reviewIter'[t] = reviewIter[t]
<1>0. state \in [Tasks -> TaskStates]
  BY DEF TypeOK, TaskTypes
<1>1. \A t \in Tasks : pc[t] = "idle" /\ pc'[t] = "idle"
  BY DEF Retry, Respawn, DriversTracked, JoinSetEmpty
<1>2. /\ inFlight' = {} /\ launched' = {} /\ sched' = "top" /\ ~stopLaunching' /\ ~abortAll'
      /\ ~fatal' /\ ~cancel' /\ ~pause'
  BY DEF Retry, Respawn
<1>3. MaxReruns # 0
  <2>1. reruns \in 0..MaxReruns /\ reruns < MaxReruns
    BY DEF Retry, Respawn, TypeOK, RunTypes
  <2> QED
    BY <2>1
<1>4. \A t \in reset : state[t] = "Failed"
  BY DEF Retry
<1>5. /\ \A t \in reset : gateIter'[t] = 0 /\ reviewIter'[t] = 0
      /\ \A t \in Tasks \ reset : gateIter'[t] = gateIter[t] /\ reviewIter'[t] = reviewIter[t]
  BY DEF Retry
<1> DEFINE again   == [t \in Tasks |-> IF t \in reset THEN After(state[t], "RetryRequested")
                                       ELSE state[t]]
           revived == Revived(again, reset)
           freed   == [t \in Tasks |-> IF t \in revived THEN After(again[t], "DependencyReset")
                                       ELSE again[t]]
<1>6. state' = RemarkReady(freed)
  BY DEF Retry, Respawn
<1>7. After("Failed", "RetryRequested") = "New"
  BY DEF After, Legal, From, Target
<1>8. \A t \in Tasks : again[t] = IF t \in reset THEN "New" ELSE state[t]
  BY <1>4, <1>7
<1>9. again \in [Tasks -> TaskStates]
  BY <1>0, <1>8 DEF TaskStates, ActiveStates
<1> HIDE DEF again
<1>10. \A t \in revived : t \in Tasks /\ again[t] \in {"New", "Skipped"}
  <2>1. revived \subseteq Tasks /\ reset \subseteq revived
        /\ \A v \in revived : v \in reset \/ Free(again, revived, v)
    BY RevivedFacts
  <2> QED
    BY <1>8, <2>1 DEF Free
<1>11. After("Skipped", "DependencyReset") = "New" /\ After("New", "DependencyReset") = "New"
  BY DEF After, Legal, From, Target
<1>12. \A t \in Tasks : freed[t] = IF t \in revived THEN "New" ELSE again[t]
  BY <1>10, <1>11
<1> HIDE DEF freed
<1>13. \A t \in Tasks : state'[t] = freed[t] \/ (freed[t] = "New" /\ state'[t] = "Ready")
  <2>1. After("New", "DependenciesSatisfied") = "Ready"
    BY DEF After, Legal, From, Target
  <2> QED
    BY <1>6, <2>1 DEF RemarkReady
<1>14. ASSUME NEW t \in Tasks
       PROVE  /\ t \in revived \/ again[t] = "New" => state'[t] \in {"New", "Ready"}
              /\ ~(t \in revived \/ again[t] = "New") => state'[t] = state[t]
  BY <1>8, <1>12, <1>13
<1>15. \E again_1 \in [Tasks -> TaskStates] :
         /\ \A t \in Tasks : again_1[t] = IF t \in reset THEN "New" ELSE state[t]
         /\ \A t \in Tasks :
              LET waits == t \in Revived(again_1, reset) \/ again_1[t] = "New" IN
              /\ waits => state'[t] \in {"New", "Ready"}
              /\ ~waits => state'[t] = state[t]
  BY <1>8, <1>9, <1>14
<1> QED
  BY <1>1, <1>2, <1>3, <1>4, <1>5, <1>15

-----------------------------------------------------------------------------
(* What a driver leaves behind, and what the scheduler's books say of it.   *)

\* A driver that closes has settled its task.
Closes(t) ==
  /\ pc[t] \in {"settle", "closeDone", "okDone"} => state[t] = "Done"
  /\ pc[t] \in {"closeFailed", "okFailed"} => IsTerminal(state[t])

Outcome(t) ==
  /\ pc[t] # "idle" => state[t] # "New"
  /\ Closes(t)
  /\ state[t] \in SeedStates => ~Dispatchable(t)

Outcomes == \A t \in Tasks : Outcome(t)

\* No command and no panic has disturbed the run.
Calm == ~cancel /\ ~fatal

Books ==
  /\ inFlight \subseteq launched
  /\ \A t \in launched : Dispatchable(t)
  /\ stopLaunching => cancel \/ fatal
  /\ fatal => stopLaunching
  /\ abortAll => cancel
  /\ Calm => \A t \in Tasks :
       /\ t \in launched /\ pc[t] = "idle" => IsTerminal(state[t])
       /\ t \in inFlight => pc[t] # "idle"
       /\ pc[t] # "aborted"

LEMMA OutcomesInit == Init => Outcomes /\ Books
BY DEF Init, Outcomes, Outcome, Closes, Books, SeedState, Dispatchable, SeedStates

\* A driver that closes has settled its task.
LEMMA DriverCloses ==
  ASSUME TypeOK, NEW u \in Tasks, Outcome(u), DriverStep(u) \/ Abort(u) \/ Timeout(u) \/ Panic(u)
  PROVE  Outcome(u)'
<1>1. /\ pc \in [Tasks -> PCs] /\ state \in [Tasks -> TaskStates]
      /\ pc[u] # "idle" /\ state[u] # "New"
  BY DriverMoves DEF TypeOK, TaskTypes, Outcome
<1>2. state'[u] # "New" /\ (state'[u] \in SeedStates => state[u] \in SeedStates)
  BY <1>1, DriverTarget DEF Reached, SeedStates
<1>3. ASSUME NEW e, NEW next, Fire(u, e, next),
             next \in {"closeFailed", "okFailed"} => Target[e] = "Failed",
             next \in {"settle", "closeDone", "okDone"} => Target[e] = "Done"
      PROVE  Closes(u)'
  <2>1. (pc'[u] = next /\ state'[u] = Target[e]) \/ pc'[u] = "err"
    BY <1>1, <1>3 DEF Fire, After
  <2>2. IsTerminal("Failed")
    BY DEF IsTerminal, SettledStates
  <2> QED
    BY <1>3, <2>1, <2>2 DEF Closes
<1>4. ASSUME NEW next, Goto(u, next),
             next \notin {"settle", "closeDone", "okDone", "closeFailed", "okFailed"}
      PROVE  Closes(u)'
  BY <1>1, <1>4 DEF Goto, Closes
<1>5. /\ Target["MergeConflict"] = "Failed" /\ Target["ReviewCapReached"] = "Failed"
      /\ Target["GateCapReached"] = "Failed" /\ Target["ReviewerApproved"] = "Done"
  BY DEF Target
<1> SUFFICES Closes(u)'
  BY <1>2 DEF Outcome, Dispatchable
<1>6. CASE Claim(u)
  <2>1. pc'[u] \in {"worktree", "closeErr"}
    BY <1>1, <1>6 DEF Claim, Goto
  <2> QED
    BY <2>1 DEF Closes
<1>7. CASE CreateWorktree(u) \/ DevelopTurn(u)
  BY <1>3, <1>4, <1>7 DEF CreateWorktree, DevelopTurn
<1>8. CASE RunGates(u) \/ GateCapReached(u)
  BY <1>3, <1>5, <1>8 DEF RunGates, GateCapReached
<1>9. CASE ReviewTurn(u) \/ AcquireMergeLock(u)
  BY <1>3, <1>4, <1>5, <1>9 DEF ReviewTurn, AcquireMergeLock, SendBack
<1>10. CASE Merge(u) \/ PhaseB(u)
  BY <1>3, <1>4, <1>5, <1>10 DEF Merge, PhaseB, SendBack
<1>11. CASE Approve(u)
  BY <1>3, <1>5, <1>11 DEF Approve
<1>12. CASE SettleDone(u)
  <2>1. state[u] = "Done"
    BY <1>12 DEF SettleDone, Outcome, Closes
  <2> QED
    BY <1>1, <1>12, <2>1 DEF SettleDone, Goto, Closes
<1>13. CASE Close(u)
  BY <1>1, <1>13 DEF Close, Goto, Closes, Outcome
<1>14. CASE Abort(u) \/ Timeout(u) \/ Panic(u)
  BY <1>4, <1>14 DEF Abort, Timeout, Panic, Drop
<1> QED
  BY <1>6, <1>7, <1>8, <1>9, <1>10, <1>11, <1>12, <1>13, <1>14 DEF DriverStep

\* A joined task is settled, in a run nothing has disturbed.
LEMMA JoinedSettled ==
  ASSUME TypeOK, NEW u \in Tasks, Join(u), Outcome(u), Dispatchable(u)
  PROVE  /\ Joined(u) = state[u] \/ Joined(u) = "Failed"
         /\ IsTerminal(state[u]) => Joined(u) = state[u]
         /\ JoinDone(u) => state[u] = "Done"
         /\ JoinDone(u) \/ JoinFailed(u) \/ JoinTimedOut(u) \/ (JoinErr(u) /\ ~cancel)
              => IsTerminal(Joined(u))
<1> DEFINE s == state[u]
<1>1. s \in TaskStates /\ s # "New" /\ s \notin SeedStates
  BY DEF TypeOK, TaskTypes, Outcome, Dispatchable, Join, JoinDone, JoinFailed, JoinErr,
         JoinTimedOut, JoinAborted, JoinPanicked, Joins
<1>2. IsTerminal(s) <=> s \in SettledStates
  BY <1>1 DEF IsTerminal, SeedStates
<1>3. s \notin SettledStates => s \in {"Ready", "InProgress", "InReview"}
  BY <1>1 DEF TaskStates, ActiveStates
<1>4. /\ s \in SettledStates => After(s, "HardError") = s /\ After(s, "WallClockCapReached") = s
      /\ s \notin SettledStates => After(s, "HardError") = "Failed" /\ After(s, "WallClockCapReached") = "Failed"
  BY <1>3 DEF After, Legal, From, Target, SettledStates
<1>5. IsTerminal("Failed")
  BY DEF IsTerminal, SettledStates
<1>6. /\ JoinDone(u) => s = "Done" /\ ~JoinErr(u) /\ ~JoinTimedOut(u)
      /\ JoinFailed(u) => IsTerminal(s) /\ ~JoinErr(u) /\ ~JoinTimedOut(u)
      /\ JoinTimedOut(u) => ~JoinErr(u)
  BY DEF JoinDone, JoinFailed, JoinErr, JoinTimedOut, Joins, Outcome, Closes
<1>7. IsTerminal("Done")
  BY DEF IsTerminal, SettledStates
<1>8. \/ Joined(u) = Settle(s, cancel) /\ JoinErr(u)
      \/ Joined(u) = After(s, "WallClockCapReached") /\ JoinTimedOut(u) /\ ~JoinErr(u)
      \/ Joined(u) = s /\ ~JoinErr(u) /\ ~JoinTimedOut(u)
  BY Zenon DEF Joined
<1>9. Settle(s, cancel) = s \/ (Settle(s, cancel) = "Failed" /\ ~IsTerminal(s))
  BY <1>2, <1>4 DEF Settle
<1>10. ~cancel => IsTerminal(Settle(s, cancel))
  BY <1>2, <1>4, <1>5 DEF Settle
<1> HIDE DEF s
<1>11. s = state[u]
  BY DEF s
<1> QED
  BY <1>2, <1>4, <1>5, <1>6, <1>7, <1>8, <1>9, <1>10, <1>11

\* A task that waits to be launched, is running or was given up is no seed.
LEMMA OutcomesStep ==
  ASSUME TypeOK, DriversTracked, Outcomes, Books, [Next]_vars
  PROVE  Outcomes'
<1>0. state \in [Tasks -> TaskStates] /\ pc \in [Tasks -> PCs]
  BY DEF TypeOK, TaskTypes
<1>1. ASSUME UNCHANGED <<state, pc>>
      PROVE  Outcomes'
  BY <1>1 DEF Outcomes, Outcome, Closes, Dispatchable
<1>2. CASE LoopStep \/ Cancel \/ Pause \/ SupersedePaused \/ Resume
  BY <1>1, <1>2 DEF LoopStep, LoopTop, StopFilling, EnterWait, WakeOnCancel, Integrate, Publish,
     Cancel, Pause, SupersedePaused, Resume, Respawn, taskVars
<1>3. ASSUME NEW u \in Tasks, DriverStep(u) \/ Abort(u) \/ Timeout(u) \/ Panic(u)
      PROVE  Outcomes'
  <2>1. Outcome(u)'
    BY <1>3, DriverCloses DEF Outcomes
  <2>2. \A t \in Tasks \ {u} : pc'[t] = pc[t] /\ state'[t] = state[t]
    BY <1>3, DriverShape
  <2>3. \A t \in Tasks \ {u} : Outcome(t)'
    BY <2>2 DEF Outcomes, Outcome, Closes, Dispatchable
  <2> QED
    BY <2>1, <2>3 DEF Outcomes
<1>4. ASSUME NEW u \in Tasks, Launch(u)
      PROVE  Outcomes'
  <2>1. state[u] \in {"New", "Ready"} /\ state' = [state EXCEPT ![u] = After(@, "DependenciesSatisfied")]
        /\ pc' = [pc EXCEPT ![u] = IF Typed THEN "claim" ELSE "worktree"]
    BY <1>4 DEF Launch, NextReady
  <2>2. After("New", "DependenciesSatisfied") = "Ready" /\ After("Ready", "DependenciesSatisfied") = "Ready"
    BY DEF After, Legal, From, Target
  <2>3. state'[u] = "Ready" /\ pc'[u] \in {"claim", "worktree"}
        /\ \A t \in Tasks \ {u} : state'[t] = state[t] /\ pc'[t] = pc[t]
    BY <1>0, <2>1, <2>2
  <2> QED
    BY <2>3 DEF Outcomes, Outcome, Closes, Dispatchable, SeedStates
<1>5. ASSUME NEW u \in Tasks, Join(u)
      PROVE  Outcomes'
  <2>1. /\ pc'[u] = "idle" /\ \A t \in Tasks \ {u} : pc'[t] = pc[t]
        /\ state'[u] = Joined(u)
        /\ \A t \in Tasks \ {u} :
             \/ state'[t] = state[t]
             \/ state'[t] = "Skipped" /\ state[t] \in ActiveStates
    <3>1. pc' = [pc EXCEPT ![u] = "idle"]
      BY <1>5, JoinShape
    <3>2. pc'[u] = "idle" /\ \A t \in Tasks \ {u} : pc'[t] = pc[t]
      BY <1>0, <3>1
    <3>3. /\ state'[u] = Joined(u)
          /\ \A t \in Tasks \ {u} :
               \/ state'[t] = state[t]
               \/ state'[t] = "Skipped" /\ state[t] \in ActiveStates
      BY <1>5, JoinShape
    <3> QED
      BY <3>2, <3>3
  <2>2. Dispatchable(u)
    <3>1. pc[u] # "idle"
      BY <1>5 DEF Join, JoinDone, JoinFailed, JoinErr, JoinTimedOut, JoinAborted, JoinPanicked, Joins
    <3> QED
      BY <3>1 DEF DriversTracked, Books
  <2>3. Joined(u) = state[u] \/ Joined(u) = "Failed"
    BY <1>5, <2>2, JoinedSettled DEF Outcomes
  <2>4. "Skipped" \notin SeedStates /\ "Failed" \notin SeedStates /\ IsTerminal("Skipped")
    BY DEF SeedStates, IsTerminal, SettledStates
  <2>5. Outcome(u)'
    BY <2>1, <2>2, <2>3, <2>4 DEF Outcomes, Outcome, Closes, Dispatchable
  <2>6. ASSUME NEW t \in Tasks \ {u} PROVE Outcome(t)'
    <3>1. state[t] \in ActiveStates => state[t] # "Done"
      BY DEF ActiveStates
    <3> QED
      BY <2>1, <2>4, <3>1 DEF Outcomes, Outcome, Closes, Dispatchable
  <2> QED
    BY <2>5, <2>6 DEF Outcomes
<1>6. CASE PersistFails
  <2>1. UNCHANGED pc /\ \A t \in Tasks : \/ state'[t] = state[t]
                                         \/ state[t] \in ActiveStates /\ state'[t] = "Failed"
    BY <1>6 DEF PersistFails
  <2>2. IsTerminal("Failed") /\ "Done" \notin ActiveStates /\ "Failed" \notin SeedStates
    BY DEF IsTerminal, SettledStates, ActiveStates, SeedStates
  <2> QED
    BY <2>1, <2>2 DEF Outcomes, Outcome, Closes, Dispatchable
<1>7. ASSUME NEW reset \in SUBSET Tasks, Retry(reset)
      PROVE  Outcomes'
  <2>1. \A t \in Tasks : pc'[t] = "idle" /\ (state'[t] = state[t] \/ state'[t] \in {"New", "Ready"})
    BY <1>7, RetryShape
  <2> QED
    BY <2>1 DEF Outcomes, Outcome, Closes, Dispatchable, SeedStates
<1> QED
  BY <1>1, <1>2, <1>3, <1>4, <1>5, <1>6, <1>7, StepCases DEF vars, taskVars

LEMMA BooksStep ==
  ASSUME TypeOK, DriversTracked, Outcomes, Books, [Next]_vars
  PROVE  Books'
<1>0. state \in [Tasks -> TaskStates] /\ pc \in [Tasks -> PCs]
  BY DEF TypeOK, TaskTypes
<1>1. ASSUME UNCHANGED <<state, pc, inFlight, launched, stopLaunching, fatal, abortAll, cancel>>
      PROVE  Books'
  BY <1>1 DEF Books, Calm, Dispatchable
<1>2. CASE StopFilling \/ EnterWait \/ WakeOnCancel \/ Integrate \/ Publish \/ Pause
  BY <1>1, <1>2 DEF StopFilling, EnterWait, WakeOnCancel, Integrate, Publish, Pause, taskVars,
     schedVars, runVars
<1>3. CASE LoopTop
  <2>1. /\ UNCHANGED <<state, pc, inFlight, launched, fatal, cancel>>
        /\ stopLaunching' = (stopLaunching \/ (cancel /\ ~stopLaunching))
        /\ abortAll' = (abortAll \/ (cancel /\ ~stopLaunching))
    BY <1>3 DEF LoopTop, taskVars, runVars
  <2> QED
    BY <2>1 DEF Books, Calm, Dispatchable
<1>4. CASE Cancel \/ SupersedePaused \/ PersistFails
  <2>1. cancel' /\ UNCHANGED <<inFlight, launched, stopLaunching, fatal, abortAll>>
    BY <1>4 DEF Cancel, SupersedePaused, PersistFails, schedVars
  <2> QED
    BY <2>1 DEF Books, Calm, Dispatchable
<1>5. CASE Resume \/ \E reset \in SUBSET Tasks : Retry(reset)
  <2>1. inFlight' = {} /\ launched' = {} /\ ~stopLaunching' /\ ~fatal' /\ ~abortAll'
        /\ \A t \in Tasks : pc'[t] = "idle"
    BY <1>5 DEF Resume, Retry, Respawn, DriversTracked, JoinSetEmpty
  <2> QED
    BY <2>1 DEF Books
<1>6. ASSUME NEW u \in Tasks, DriverStep(u) \/ Abort(u) \/ Timeout(u) \/ Panic(u)
      PROVE  Books'
  <2>1. /\ pc[u] # "idle" /\ pc'[u] # "idle"
        /\ \A t \in Tasks \ {u} : pc'[t] = pc[t] /\ state'[t] = state[t]
        /\ UNCHANGED <<inFlight, launched, stopLaunching, fatal, abortAll, cancel>>
    BY <1>6, DriverShape DEF Working, Finished, schedVars, runVars
  <2>2. pc'[u] = "aborted" => cancel
    <3>1. CASE DriverStep(u)
      <4>1. pc'[u] # "aborted"
        <5> USE <1>0 DEF Fire, Goto, SendBack
        <5>1. CASE Claim(u) \/ CreateWorktree(u) \/ DevelopTurn(u) \/ RunGates(u) \/ GateCapReached(u)
          BY <5>1 DEF Claim, CreateWorktree, DevelopTurn, RunGates, GateCapReached
        <5>2. CASE ReviewTurn(u) \/ AcquireMergeLock(u) \/ Merge(u)
          BY <5>2 DEF ReviewTurn, AcquireMergeLock, Merge
        <5>3. CASE PhaseB(u) \/ Approve(u) \/ SettleDone(u) \/ Close(u)
          BY <5>3 DEF PhaseB, Approve, SettleDone, Close
        <5> QED
          BY <3>1, <5>1, <5>2, <5>3 DEF DriverStep
      <4> QED
        BY <4>1
    <3>2. CASE Abort(u)
      BY <3>2 DEF Abort, Books
    <3>3. CASE Timeout(u) \/ Panic(u)
      BY <1>0, <3>3 DEF Timeout, Panic, Drop, Goto
    <3> QED
      BY <1>6, <3>1, <3>2, <3>3
  <2> QED
    BY <2>1, <2>2 DEF Books, Calm, Dispatchable
<1>7. ASSUME NEW u \in Tasks, Launch(u)
      PROVE  Books'
  <2>1. /\ pc'[u] # "idle" /\ pc'[u] # "aborted" /\ Dispatchable(u)
        /\ \A t \in Tasks \ {u} : pc'[t] = pc[t] /\ state'[t] = state[t]
        /\ inFlight' = inFlight \cup {u} /\ launched' = launched \cup {u}
        /\ UNCHANGED <<stopLaunching, fatal, abortAll, cancel>>
    BY <1>0, <1>7 DEF Launch, NextReady, runVars
  <2> QED
    BY <2>1 DEF Books, Calm, Dispatchable
<1>8. ASSUME NEW u \in Tasks, Join(u)
      PROVE  Books'
  <2>1. /\ pc[u] # "idle" /\ pc'[u] = "idle" /\ \A t \in Tasks \ {u} : pc'[t] = pc[t]
        /\ state'[u] = Joined(u)
        /\ \A t \in Tasks \ {u} : state'[t] = state[t] \/ state'[t] = "Skipped"
        /\ UNCHANGED <<launched, cancel, abortAll>>
    <3>1. pc' = [pc EXCEPT ![u] = "idle"] /\ pc[u] \in Finished
      BY <1>8, JoinShape
    <3> QED
      BY <1>0, <1>8, <3>1, JoinShape DEF Finished
  <2>2. u \in inFlight /\ u \in launched /\ Dispatchable(u)
    BY <2>1 DEF DriversTracked, Books
  <2>3. /\ JoinPanicked(u) => fatal' /\ stopLaunching' /\ inFlight' = inFlight
        /\ ~JoinPanicked(u) => UNCHANGED <<fatal, stopLaunching>>
        /\ inFlight' \subseteq inFlight
        /\ ~JoinPanicked(u) /\ ~JoinAborted(u) => inFlight' = inFlight \ {u}
    BY <1>8, Zenon DEF Join, JoinDone, JoinFailed, JoinErr, JoinTimedOut, JoinAborted, JoinPanicked
  <2>4. ASSUME Calm'
        PROVE  /\ Calm /\ inFlight' = inFlight \ {u} /\ IsTerminal(state'[u])
    <3>1. ~JoinPanicked(u) /\ Calm
      BY <2>1, <2>3, <2>4 DEF Calm
    <3>2. ~JoinAborted(u)
      BY <3>1 DEF JoinAborted, Joins, Books
    <3>3. JoinDone(u) \/ JoinFailed(u) \/ JoinTimedOut(u) \/ (JoinErr(u) /\ ~cancel)
      BY <1>8, <3>1, <3>2, Zenon DEF Join, Calm
    <3>4. IsTerminal(Joined(u))
      BY <1>8, <2>2, <3>3, JoinedSettled DEF Outcomes
    <3> QED
      BY <2>1, <2>3, <3>1, <3>2, <3>4
  <2>5. IsTerminal("Skipped")
    BY DEF IsTerminal, SettledStates
  <2>6. (Calm' => \A t \in Tasks :
           /\ t \in launched' /\ pc'[t] = "idle" => IsTerminal(state'[t])
           /\ t \in inFlight' => pc'[t] # "idle"
           /\ pc'[t] # "aborted")
    BY <2>1, <2>4, <2>5 DEF Books
  <2> QED
    BY <2>1, <2>3, <2>6 DEF Books, Dispatchable
<1> QED
  BY <1>1, <1>2, <1>3, <1>4, <1>5, <1>6, <1>7, <1>8, StepCases DEF LoopStep, vars, taskVars,
     schedVars, runVars

-----------------------------------------------------------------------------
(* Who waits, and for what.                                                 *)

Waiting(t) == state[t] \in {"New", "Ready"}

\* A driver is at work on the task, or one has been.
Begun(t) == pc[t] # "idle" \/ t \in inFlight \/ state[t] \in Reached

\* In a graph-only run a task that was begun stands on finished prerequisites.
Standing ==
  ~Typed => \A t \in Tasks :
    /\ pc[t] \notin {"claim", "bookkept", "settle"}
    /\ Begun(t) => \A d \in DependsOn[t] : state[d] = "Done"

\* A task that waits has no prerequisite that was skipped, nor one whose failure
\* this scheduler has joined: a typed run that was disturbed may leave both.
Behind ==
  \A t \in Tasks : Waiting(t) => \A d \in DependsOn[t] :
    /\ Calm \/ ~Typed => state[d] # "Skipped"
    /\ Calm /\ d \in launched /\ pc[d] = "idle" => state[d] # "Failed"

\* A loop about to end, and one that has ended, found nothing more to launch.
Filled ==
  Calm /\ ~pause /\ sched \in {"enter", "integrate", "publish", "done"} /\ JoinSetEmpty
    => \A t \in Tasks : ~NextReady(t)

RunBooks == TypeOK /\ DriversTracked /\ Outcomes /\ Books /\ Standing

LEMMA StandingInit == Init => Standing /\ Behind /\ Filled
<1> SUFFICES ASSUME Init PROVE Standing /\ Behind /\ Filled
  OBVIOUS
<1>1. /\ \A t \in Tasks : pc[t] = "idle" /\ state[t] = SeedState(t)
      /\ sched = "top" /\ inFlight = {}
  BY DEF Init
<1>2. \A t \in Tasks : SeedState(t) \in {"New", "Gated", "Blocked", "Dropped"}
  BY DEF SeedState, SeedStates
<1>3. Standing
  BY <1>1, <1>2 DEF Standing, Begun, Reached
<1>4. Behind
  BY <1>1, <1>2, TasksAssumption DEF Behind
<1> QED
  BY <1>1, <1>3, <1>4 DEF Filled

LEMMA BegunStep ==
  ASSUME TypeOK, DriversTracked, ~Typed, [Next]_vars, NEW t \in Tasks, Begun(t)'
  PROVE  Begun(t) \/ Launch(t)
<1>0. pc \in [Tasks -> PCs] /\ state \in [Tasks -> TaskStates]
  BY DEF TypeOK, TaskTypes
<1>1. ASSUME UNCHANGED <<pc, state>>, inFlight' \subseteq inFlight
      PROVE  Begun(t)
  BY <1>1 DEF Begun
<1>2. CASE LoopStep \/ Cancel \/ Pause \/ SupersedePaused \/ Resume
  BY <1>1, <1>2 DEF LoopStep, LoopTop, StopFilling, EnterWait, WakeOnCancel, Integrate, Publish,
     Cancel, Pause, SupersedePaused, Resume, Respawn, taskVars, schedVars
<1>3. ASSUME NEW u \in Tasks, DriverStep(u) \/ Abort(u) \/ Timeout(u) \/ Panic(u)
      PROVE  Begun(t)
  <2>1. /\ pc[u] # "idle" /\ UNCHANGED inFlight
        /\ \A v \in Tasks \ {u} : pc'[v] = pc[v] /\ state'[v] = state[v]
    BY <1>3, DriverShape, DriverMoves DEF schedVars
  <2> QED
    BY <2>1 DEF Begun
<1>4. ASSUME NEW u \in Tasks, Launch(u)
      PROVE  Begun(t) \/ Launch(t)
  <2>1. inFlight' = inFlight \cup {u} /\ \A v \in Tasks \ {u} : pc'[v] = pc[v] /\ state'[v] = state[v]
    BY <1>0, <1>4 DEF Launch
  <2> QED
    BY <1>4, <2>1 DEF Begun
<1>5. ASSUME NEW u \in Tasks, Join(u)
      PROVE  Begun(t)
  <2>1. pc[u] # "idle" /\ \A v \in Tasks \ {u} : state'[v] = state[v] \/ state'[v] = "Skipped"
    BY <1>5, JoinShape DEF Finished
  <2>2. \A v \in Tasks \ {u} : pc'[v] = pc[v]
    <3>1. pc' = [pc EXCEPT ![u] = "idle"]
      BY <1>5, JoinShape
    <3> QED
      BY <1>0, <3>1
  <2>3. inFlight' \subseteq inFlight
    BY <1>5, Zenon DEF Join, JoinDone, JoinFailed, JoinErr, JoinTimedOut, JoinAborted, JoinPanicked
  <2> QED
    BY <2>1, <2>2, <2>3 DEF Begun, Reached
<1>6. ~PersistFails
  BY DEF PersistFails
<1>7. ASSUME NEW reset \in SUBSET Tasks, Retry(reset)
      PROVE  Begun(t)
  <2>1. inFlight' = {} /\ pc'[t] = "idle" /\ (state'[t] = state[t] \/ state'[t] \in {"New", "Ready"})
    BY <1>7, RetryShape
  <2> QED
    BY <2>1 DEF Begun, Reached
<1> QED
  BY <1>1, <1>2, <1>3, <1>4, <1>5, <1>6, <1>7, StepCases DEF vars, taskVars, schedVars

\* A graph-only driver makes no claim and no Phase B.
LEMMA GraphOnlyPlaces ==
  ASSUME TypeOK, DriversTracked, ~Typed, [Next]_vars, NEW t \in Tasks,
         pc[t] \notin {"claim", "bookkept", "settle"}
  PROVE  pc'[t] \notin {"claim", "bookkept", "settle"}
<1>0. pc \in [Tasks -> PCs]
  BY DEF TypeOK, TaskTypes
<1>1. ASSUME UNCHANGED pc
      PROVE  pc'[t] \notin {"claim", "bookkept", "settle"}
  BY <1>1
<1>2. ASSUME NEW u \in Tasks, NEW next, pc' = [pc EXCEPT ![u] = next],
             next \notin {"claim", "bookkept", "settle"}
      PROVE  pc'[t] \notin {"claim", "bookkept", "settle"}
  BY <1>0, <1>2
<1>3. CASE LoopStep \/ Cancel \/ Pause \/ SupersedePaused \/ PersistFails \/ Resume
  BY <1>1, <1>3 DEF LoopStep, LoopTop, StopFilling, EnterWait, WakeOnCancel, Integrate, Publish,
     Cancel, Pause, SupersedePaused, PersistFails, Resume, Respawn
<1>4. ASSUME NEW u \in Tasks, Launch(u)
      PROVE  pc'[t] \notin {"claim", "bookkept", "settle"}
  BY <1>0, <1>4 DEF Launch
<1>5. ASSUME NEW u \in Tasks, Join(u)
      PROVE  pc'[t] \notin {"claim", "bookkept", "settle"}
  BY <1>2, <1>5, JoinShape
<1>6. ASSUME NEW reset \in SUBSET Tasks, Retry(reset)
      PROVE  pc'[t] \notin {"claim", "bookkept", "settle"}
  BY <1>6, RetryShape
<1>7. ASSUME NEW u \in Tasks, DriverStep(u)
      PROVE  pc'[t] \notin {"claim", "bookkept", "settle"}
  <2> USE <1>0 DEF Fire, Goto, SendBack
  <2>1. CASE Claim(u) \/ CreateWorktree(u) \/ DevelopTurn(u) \/ RunGates(u) \/ GateCapReached(u)
    BY <2>1 DEF Claim, CreateWorktree, DevelopTurn, RunGates, GateCapReached
  <2>2. CASE ReviewTurn(u) \/ AcquireMergeLock(u) \/ Merge(u)
    BY <2>2 DEF ReviewTurn, AcquireMergeLock, Merge
  <2>3. CASE PhaseB(u) \/ Approve(u) \/ SettleDone(u) \/ Close(u)
    BY <2>3 DEF PhaseB, Approve, SettleDone, Close
  <2> QED
    BY <1>7, <2>1, <2>2, <2>3 DEF DriverStep
<1>8. ASSUME NEW u \in Tasks, Abort(u) \/ Timeout(u) \/ Panic(u)
      PROVE  pc'[t] \notin {"claim", "bookkept", "settle"}
  BY <1>2, <1>8 DEF Abort, Timeout, Panic, Drop, Goto
<1> QED
  BY <1>1, <1>3, <1>4, <1>5, <1>6, <1>7, <1>8, StepCases DEF vars

LEMMA StandingStep ==
  ASSUME TypeOK, DriversTracked, Standing, [Next]_vars
  PROVE  Standing'
<1> SUFFICES ASSUME ~Typed, NEW t \in Tasks
             PROVE  /\ pc'[t] \notin {"claim", "bookkept", "settle"}
                    /\ Begun(t)' => \A d \in DependsOn[t] : state'[d] = "Done"
  BY DEF Standing
<1>1. pc'[t] \notin {"claim", "bookkept", "settle"}
  BY GraphOnlyPlaces DEF Standing
<1>2. ASSUME Begun(t)', NEW d \in DependsOn[t]
      PROVE  state'[d] = "Done"
  <2>1. Begun(t) \/ Launch(t)
    BY <1>2, BegunStep
  <2>2. d \in Tasks /\ state[d] = "Done" /\ pc[d] # "settle"
    BY <2>1, TasksAssumption DEF Standing, Launch, NextReady
  <2> QED
    BY <2>2, DoneStep
<1> QED
  BY <1>1, <1>2

LEMMA BookStep ==
  ASSUME RunBooks, [Next]_vars
  PROVE  RunBooks'
BY TypeStep, TrackStep, OutcomesStep, BooksStep, StandingStep DEF RunBooks

\* A joined driver was launched on a task it settled or left as it was.
LEMMA JoinedState ==
  ASSUME RunBooks, NEW u \in Tasks, Join(u)
  PROVE  /\ pc[u] # "idle" /\ u \in inFlight /\ u \in launched
         /\ state'[u] = state[u] \/ state'[u] = "Failed"
         /\ Calm' => IsTerminal(state'[u])
<1>1. pc[u] # "idle" /\ state'[u] = Joined(u) /\ pc' = [pc EXCEPT ![u] = "idle"]
      /\ UNCHANGED launched
  BY JoinShape DEF RunBooks, Finished
<1>2. u \in inFlight /\ u \in launched /\ Dispatchable(u)
  BY <1>1 DEF RunBooks, DriversTracked, Books
<1>3. state'[u] = state[u] \/ state'[u] = "Failed"
  BY <1>1, <1>2, JoinedSettled DEF RunBooks, Outcomes
<1>4. Join(u) => [Next]_vars
  BY DEF Next, SchedulerStep
<1>5. ASSUME Calm' PROVE IsTerminal(state'[u])
  <2>1. Books'
    BY <1>4, BooksStep DEF RunBooks
  <2>2. pc'[u] = "idle" /\ u \in launched'
    BY <1>1, <1>2 DEF RunBooks, TypeOK, TaskTypes
  <2> QED
    BY <1>5, <2>1, <2>2 DEF Books
<1> QED
  BY <1>1, <1>2, <1>3, <1>5

\* Only a retry makes a task wait.
LEMMA WaitStep ==
  ASSUME RunBooks, [Next]_vars, NEW t \in Tasks, Waiting(t)'
  PROVE  Waiting(t) \/ \E reset \in SUBSET Tasks : Retry(reset)
<1>0. pc \in [Tasks -> PCs] /\ state \in [Tasks -> TaskStates]
  BY DEF RunBooks, TypeOK, TaskTypes
<1>1. ASSUME UNCHANGED state
      PROVE  Waiting(t)
  BY <1>1 DEF Waiting
<1>2. CASE LoopStep \/ Cancel \/ Pause \/ SupersedePaused \/ Resume
  BY <1>1, <1>2 DEF LoopStep, LoopTop, StopFilling, EnterWait, WakeOnCancel, Integrate, Publish,
     Cancel, Pause, SupersedePaused, Resume, Respawn, taskVars
<1>3. ASSUME NEW u \in Tasks, DriverStep(u) \/ Abort(u) \/ Timeout(u) \/ Panic(u)
      PROVE  Waiting(t)
  <2>1. state'[t] = state[t] \/ state'[t] \in Reached
    BY <1>3, DriverShape, DriverTarget DEF RunBooks
  <2> QED
    BY <2>1 DEF Waiting, Reached
<1>4. ASSUME NEW u \in Tasks, Launch(u)
      PROVE  Waiting(t)
  <2>1. Waiting(u) /\ \A v \in Tasks \ {u} : state'[v] = state[v]
    BY <1>0, <1>4 DEF Launch, NextReady, Waiting
  <2> QED
    BY <2>1 DEF Waiting
<1>5. ASSUME NEW u \in Tasks, Join(u)
      PROVE  Waiting(t)
  <2>1. state'[t] = state[t] \/ state'[t] \in {"Failed", "Skipped"}
    BY <1>5, JoinedState, JoinShape DEF RunBooks
  <2> QED
    BY <2>1 DEF Waiting
<1>6. CASE PersistFails
  BY <1>6 DEF PersistFails, Waiting
<1> QED
  BY <1>1, <1>2, <1>3, <1>4, <1>5, <1>6, StepCases DEF vars, taskVars

\* A task is skipped by the join of a failure upstream of it.
LEMMA SkippedBy ==
  ASSUME RunBooks, [Next]_vars, NEW d \in Tasks, state'[d] = "Skipped", state[d] # "Skipped"
  PROVE  \E u \in Tasks : /\ Join(u) /\ d \in Downstream[u] /\ state[d] \in ActiveStates
                          /\ JoinFailed(u) \/ JoinErr(u) \/ JoinTimedOut(u)
<1>0. pc \in [Tasks -> PCs] /\ state \in [Tasks -> TaskStates]
  BY DEF RunBooks, TypeOK, TaskTypes
<1>1. ASSUME UNCHANGED state
      PROVE  FALSE
  BY <1>1
<1>2. CASE LoopStep \/ Cancel \/ Pause \/ SupersedePaused \/ Resume
  BY <1>1, <1>2 DEF LoopStep, LoopTop, StopFilling, EnterWait, WakeOnCancel, Integrate, Publish,
     Cancel, Pause, SupersedePaused, Resume, Respawn, taskVars
<1>3. ASSUME NEW u \in Tasks, DriverStep(u) \/ Abort(u) \/ Timeout(u) \/ Panic(u)
      PROVE  FALSE
  <2>1. state'[d] = state[d] \/ state'[d] \in Reached
    BY <1>3, DriverShape, DriverTarget DEF RunBooks
  <2> QED
    BY <2>1 DEF Reached
<1>4. ASSUME NEW u \in Tasks, Launch(u)
      PROVE  FALSE
  <2>1. state' = [state EXCEPT ![u] = After(@, "DependenciesSatisfied")]
    BY <1>4 DEF Launch
  <2>2. \A s : After(s, "DependenciesSatisfied") = s \/ After(s, "DependenciesSatisfied") = "Ready"
    BY DEF After, Target
  <2> QED
    BY <1>0, <2>1, <2>2
<1>5. ASSUME NEW u \in Tasks, Join(u)
      PROVE  /\ d \in Downstream[u] /\ state[d] \in ActiveStates
             /\ JoinFailed(u) \/ JoinErr(u) \/ JoinTimedOut(u)
  <2>1. d # u
    BY <1>5, JoinedState
  <2>2. d \in Downstream[u] /\ state[d] \in ActiveStates
    BY <1>5, <2>1, JoinShape DEF RunBooks
  <2>3. ~(JoinDone(u) \/ JoinAborted(u) \/ JoinPanicked(u))
    BY <1>5, JoinShape DEF RunBooks
  <2> QED
    BY <1>5, <2>2, <2>3 DEF Join
<1>6. CASE PersistFails
  BY <1>6 DEF PersistFails
<1>7. ASSUME NEW reset \in SUBSET Tasks, Retry(reset)
      PROVE  FALSE
  <2>1. state'[d] = state[d] \/ state'[d] \in {"New", "Ready"}
    BY <1>7, RetryShape DEF RunBooks
  <2> QED
    BY <2>1
<1> QED
  BY <1>1, <1>2, <1>3, <1>4, <1>5, <1>6, <1>7, StepCases DEF vars, taskVars

\* Whatever depends on a task whose failure is joined, or is skipped by the
\* same join, does not wait any longer.
LEMMA SkipReaches ==
  ASSUME RunBooks, NEW u \in Tasks, Join(u), JoinFailed(u) \/ JoinErr(u) \/ JoinTimedOut(u),
         NEW t \in Tasks \ {u}, DependsOn[t] \cap (Downstream[u] \cup {u}) # {}
  PROVE  ~Waiting(t)'
<1>1. t \in Downstream[u]
  BY DownstreamFacts
<1>2. state[t] \in ActiveStates => state'[t] = "Skipped"
  BY <1>1, JoinShape DEF RunBooks
<1>3. state[t] \notin ActiveStates => state'[t] = state[t]
  BY JoinShape DEF RunBooks
<1> QED
  BY <1>2, <1>3 DEF Waiting, ActiveStates

\* Calm returns only with a new scheduler, over a graph that is not typed.
LEMMA CalmStep ==
  ASSUME RunBooks, [Next]_vars
  PROVE  /\ Calm' => Calm \/ (~Typed /\ launched' = {})
         /\ Resume \/ (\E reset \in SUBSET Tasks : Retry(reset)) =>
              ~Typed /\ launched' = {} /\ sched' = "top"
<1>1. ASSUME Resume \/ \E reset \in SUBSET Tasks : Retry(reset)
      PROVE  ~Typed /\ launched' = {} /\ sched' = "top"
  <2>1. launched' = {} /\ sched' = "top" /\ reruns < MaxReruns /\ reruns \in 0..MaxReruns
    BY <1>1 DEF Resume, Retry, Respawn, RunBooks, TypeOK, RunTypes
  <2>2. MaxReruns # 0
    BY <2>1
  <2> QED
    BY <2>1, <2>2, ModeAssumption
<1>2. ASSUME UNCHANGED <<cancel, fatal>>
      PROVE  Calm' => Calm
  BY <1>2 DEF Calm
<1>3. ASSUME LoopStep \/ Pause
      PROVE  Calm' => Calm
  BY <1>2, <1>3 DEF LoopStep, LoopTop, StopFilling, EnterWait, WakeOnCancel, Integrate, Publish,
     Pause, schedVars, runVars
<1>4. ASSUME Cancel \/ SupersedePaused \/ PersistFails
      PROVE  Calm' => Calm
  BY <1>4 DEF Cancel, SupersedePaused, PersistFails, Calm
<1>5. ASSUME NEW u \in Tasks, DriverStep(u) \/ Abort(u) \/ Timeout(u) \/ Panic(u)
      PROVE  Calm' => Calm
  BY <1>2, <1>5, DriverShape DEF schedVars, runVars, RunBooks
<1>6. ASSUME NEW u \in Tasks, Launch(u)
      PROVE  Calm' => Calm
  BY <1>2, <1>6 DEF Launch, runVars
<1>7. ASSUME NEW u \in Tasks, Join(u)
      PROVE  Calm' => Calm
  <2>1. UNCHANGED cancel
    BY <1>7, JoinShape DEF RunBooks
  <2>2. fatal' = fatal \/ fatal'
    BY <1>7, Zenon DEF Join, JoinDone, JoinFailed, JoinErr, JoinTimedOut, JoinAborted, JoinPanicked
  <2> QED
    BY <2>1, <2>2 DEF Calm
<1> QED
  BY <1>1, <1>2, <1>3, <1>4, <1>5, <1>6, <1>7, StepCases DEF vars, schedVars, runVars

\* A failure is joined, or was joined already.
LEMMA FailedIdle ==
  ASSUME RunBooks, [Next]_vars, Calm, Calm', NEW d \in Tasks,
         state'[d] = "Failed", d \in launched', pc'[d] = "idle"
  PROVE  \/ state[d] = "Failed" /\ d \in launched /\ pc[d] = "idle"
         \/ Join(d) /\ (JoinFailed(d) \/ JoinErr(d) \/ JoinTimedOut(d))
<1>0. pc \in [Tasks -> PCs] /\ state \in [Tasks -> TaskStates]
  BY DEF RunBooks, TypeOK, TaskTypes
<1>1. ASSUME UNCHANGED <<pc, state, launched>>
      PROVE  state[d] = "Failed" /\ d \in launched /\ pc[d] = "idle"
  BY <1>1
<1>2. CASE LoopStep \/ Pause
  BY <1>1, <1>2 DEF LoopStep, LoopTop, StopFilling, EnterWait, WakeOnCancel, Integrate, Publish,
     Pause, taskVars, schedVars
<1>3. ASSUME NEW u \in Tasks, DriverStep(u) \/ Abort(u) \/ Timeout(u) \/ Panic(u)
      PROVE  state[d] = "Failed" /\ d \in launched /\ pc[d] = "idle"
  BY <1>3, DriverShape DEF RunBooks, schedVars, Working, Finished
<1>4. ASSUME NEW u \in Tasks, Launch(u)
      PROVE  state[d] = "Failed" /\ d \in launched /\ pc[d] = "idle"
  <2>1. pc'[u] # "idle" /\ launched' = launched \cup {u}
        /\ \A v \in Tasks \ {u} : pc'[v] = pc[v] /\ state'[v] = state[v]
    BY <1>0, <1>4 DEF Launch
  <2> QED
    BY <2>1
<1>5. ASSUME NEW u \in Tasks, Join(u), u # d
      PROVE  state[d] = "Failed" /\ d \in launched /\ pc[d] = "idle"
  <2>1. pc' = [pc EXCEPT ![u] = "idle"] /\ UNCHANGED launched
    BY <1>5, JoinShape DEF RunBooks
  <2>2. state'[d] = state[d]
    BY <1>5, JoinShape DEF RunBooks
  <2> QED
    BY <1>0, <1>5, <2>1, <2>2
<1>6. CASE Join(d)
  <2>1. JoinDone(d) => UNCHANGED state /\ state[d] = "Done"
    BY <1>6, JoinedSettled, JoinShape, JoinedState DEF RunBooks, Outcomes, Books
  <2>2. ~JoinPanicked(d)
    BY DEF Calm, JoinPanicked
  <2>3. ~JoinAborted(d)
    BY DEF JoinAborted, Joins, RunBooks, Books
  <2> QED
    BY <1>6, <2>1, <2>2, <2>3 DEF Join
<1>7. ~(Cancel \/ SupersedePaused \/ PersistFails)
  BY DEF Cancel, SupersedePaused, PersistFails, Calm
<1>8. ~(Resume \/ \E reset \in SUBSET Tasks : Retry(reset))
  BY CalmStep
<1> QED
  BY <1>1, <1>2, <1>3, <1>4, <1>5, <1>6, <1>7, <1>8, StepCases DEF vars, taskVars, schedVars

LEMMA BehindStep ==
  ASSUME RunBooks, Behind, [Next]_vars
  PROVE  Behind'
<1> SUFFICES ASSUME NEW t \in Tasks, Waiting(t)', NEW d \in DependsOn[t]
             PROVE  /\ Calm' \/ ~Typed => state'[d] # "Skipped"
                    /\ Calm' /\ d \in launched' /\ pc'[d] = "idle" => state'[d] # "Failed"
  BY DEF Behind
<1>0. d \in Tasks
  BY TasksAssumption
<1>1. CASE \E reset \in SUBSET Tasks : Retry(reset)
  <2>1. ~Typed /\ launched' = {}
    BY <1>1, CalmStep
  <2>2. PICK reset \in SUBSET Tasks : Retry(reset)
    BY <1>1
  <2>3. PICK again \in [Tasks -> TaskStates] :
          /\ \A v \in Tasks : again[v] = IF v \in reset THEN "New" ELSE state[v]
          /\ \A v \in Tasks :
               LET waits == v \in Revived(again, reset) \/ again[v] = "New" IN
               /\ waits => state'[v] \in {"New", "Ready"}
               /\ ~waits => state'[v] = state[v]
    BY <2>2, RetryShape DEF RunBooks
  <2>4. \A v \in reset : state[v] = "Failed"
    BY <2>2, RetryShape DEF RunBooks
  <2> DEFINE V == Revived(again, reset)
  <2>5. ASSUME state'[d] = "Skipped"
        PROVE  FALSE
    <3>1. d \notin V /\ d \notin reset /\ state[d] = "Skipped" /\ again[d] = "Skipped"
      BY <1>0, <2>3, <2>4, <2>5
    <3>2. ~Waiting(t)
      BY <1>0, <2>1, <3>1 DEF Behind
    <3>3. t \in V \/ t \in reset
      BY <2>3, <3>2 DEF Waiting
    <3>4. t \notin reset
      BY <2>1, <2>4, <3>1 DEF RunBooks, Standing, Begun, Reached
    <3>5. Free(again, V, t)
      BY <3>3, <3>4, RevivedFacts
    <3> QED
      BY <3>1, <3>5 DEF Free
  <2> QED
    BY <2>1, <2>5
<1>2. CASE ~\E reset \in SUBSET Tasks : Retry(reset)
  <2>1. Waiting(t)
    BY <1>2, WaitStep
  <2>2. ASSUME Calm' \/ ~Typed, state'[d] = "Skipped"
        PROVE  FALSE
    <3>1. state[d] # "Skipped"
      BY <1>0, <2>1, <2>2, CalmStep DEF Behind
    <3>2. PICK u \in Tasks : /\ Join(u) /\ d \in Downstream[u] /\ state[d] \in ActiveStates
                             /\ JoinFailed(u) \/ JoinErr(u) \/ JoinTimedOut(u)
      BY <1>0, <2>2, <3>1, SkippedBy
    <3>3. t = u
      BY <3>2, SkipReaches
    <3>4. Typed
      <4>1. ~Typed => state[d] = "Done"
        BY <3>2, <3>3, JoinedState DEF RunBooks, Standing, Begun
      <4> QED
        BY <3>2, <4>1 DEF ActiveStates
    <3>5. IsTerminal(state'[t])
      BY <2>2, <3>2, <3>3, <3>4, JoinedState
    <3> QED
      BY <3>5 DEF IsTerminal, SettledStates, Waiting
  <2>3. ASSUME Calm', d \in launched', pc'[d] = "idle", state'[d] = "Failed"
        PROVE  FALSE
    <3>1. Calm
      BY <2>3, CalmStep
    <3>2. CASE state[d] = "Failed" /\ d \in launched /\ pc[d] = "idle"
      BY <1>0, <2>1, <3>1, <3>2 DEF Behind
    <3>3. CASE Join(d) /\ (JoinFailed(d) \/ JoinErr(d) \/ JoinTimedOut(d))
      <4>1. CASE t = d
        BY <2>3, <4>1 DEF Waiting
      <4>2. CASE t # d
        BY <1>0, <3>3, <4>2, SkipReaches
      <4> QED
        BY <4>1, <4>2
    <3> QED
      BY <1>0, <2>3, <3>1, <3>2, <3>3, FailedIdle
  <2> QED
    BY <2>2, <2>3
<1> QED
  BY <1>1, <1>2

LEMMA FilledStep ==
  ASSUME RunBooks, Filled, [Next]_vars
  PROVE  Filled'
<1>0. pc \in [Tasks -> PCs] /\ state \in [Tasks -> TaskStates]
  BY DEF RunBooks, TypeOK, TaskTypes
<1> DEFINE Over == {"enter", "integrate", "publish", "done"}
<1>1. ASSUME UNCHANGED <<state, pc, inFlight>>, sched \in Over, Calm' => Calm, ~pause' /\ Calm' => ~pause
      PROVE  Filled'
  BY <1>1 DEF Filled, JoinSetEmpty, NextReady, Dispatchable
<1>2. ASSUME sched' \notin Over
      PROVE  Filled'
  BY <1>2 DEF Filled
<1>3. CASE LoopTop
  <2>1. Calm' => Calm /\ ~stopLaunching'
    BY <1>3 DEF LoopTop, Calm, runVars, RunBooks, Books
  <2>2. ~stopLaunching' /\ ~pause' => sched' = "fill"
    BY <1>3 DEF LoopTop, runVars
  <2> QED
    BY <2>1, <2>2 DEF Filled
<1>4. CASE StopFilling
  <2>1. JoinSetEmpty => RunningTasks = {}
    BY DEF JoinSetEmpty, RunningTasks, Running, Working
  <2>2. JoinSetEmpty => HasPermit
    BY <2>1, FS_EmptySet, ConfigAssumption DEF HasPermit
  <2>3. UNCHANGED <<state, pc, inFlight>>
    BY <1>4 DEF StopFilling, taskVars
  <2>4. JoinSetEmpty => \A t \in Tasks : ~NextReady(t)
    BY <1>4, <2>2 DEF StopFilling
  <2> QED
    BY <2>3, <2>4 DEF Filled, JoinSetEmpty, NextReady, Dispatchable
<1>5. CASE EnterWait \/ Integrate \/ Publish
  BY <1>1, <1>5 DEF EnterWait, Integrate, Publish, taskVars, schedVars, runVars, Calm
<1>6. CASE WakeOnCancel
  BY <1>2, <1>6 DEF WakeOnCancel
<1>7. CASE Cancel \/ SupersedePaused \/ PersistFails \/ Pause
  BY <1>7 DEF Cancel, SupersedePaused, PersistFails, Pause, Filled, Calm
<1>8. ASSUME NEW u \in Tasks, DriverStep(u) \/ Abort(u) \/ Timeout(u) \/ Panic(u)
      PROVE  Filled'
  BY <1>8, DriverShape DEF RunBooks, Filled, JoinSetEmpty, Working, Finished
<1>9. ASSUME NEW u \in Tasks, Launch(u)
      PROVE  Filled'
  BY <1>2, <1>9 DEF Launch
<1>10. ASSUME NEW u \in Tasks, Join(u)
       PROVE  Filled'
  BY <1>2, <1>10, JoinShape DEF RunBooks
<1>11. CASE Resume \/ \E reset \in SUBSET Tasks : Retry(reset)
  BY <1>2, <1>11, CalmStep
<1>12. CASE UNCHANGED vars
  BY <1>12 DEF vars, taskVars, schedVars, runVars, Filled, Calm, JoinSetEmpty, NextReady, Dispatchable
<1> QED
  BY <1>3, <1>4, <1>5, <1>6, <1>7, <1>8, <1>9, <1>10, <1>11, <1>12, StepCases DEF LoopStep

\* When a run has ended undisturbed, none of its tasks is left unsettled and
\* none is left waiting that it could still have launched or should have
\* skipped.
THEOREM NothingStranded == Spec => []NoTaskStranded
<1> DEFINE Inv == RunBooks /\ Behind /\ Filled
<1>1. Init => Inv
  BY TypeInit, TrackInit, OutcomesInit, StandingInit DEF RunBooks
<1>2. Inv /\ [Next]_vars => Inv'
  BY BookStep, BehindStep, FilledStep
<1>3. Inv => NoTaskStranded
  <2> SUFFICES ASSUME Inv, UndisturbedEnd, NEW t \in Tasks, ~IsTerminal(state[t])
               PROVE  /\ t \notin launched
                      /\ \/ ~Dispatchable(t)
                         \/ state[t] \in {"InProgress", "InReview"}
                         \/ \E d \in DependsOn[t] :
                              state[d] \notin SettledStates \/ (state[d] = "Failed" /\ d \notin launched)
    BY DEF NoTaskStranded
  <2>1. Calm /\ ~pause /\ sched = "done" /\ JoinSetEmpty
    BY DEF UndisturbedEnd, Calm, RunBooks, DriversTracked
  <2>2. \A d \in Tasks : pc[d] = "idle"
    BY <2>1 DEF JoinSetEmpty
  <2>3. t \notin launched
    BY <2>1, <2>2 DEF RunBooks, Books
  <2>4. ~NextReady(t)
    BY <2>1 DEF Filled
  <2>5. t \notin inFlight
    BY <2>3 DEF RunBooks, Books
  <2>6. state[t] \in ActiveStates \cup {"Gated"}
    BY DEF RunBooks, TypeOK, TaskTypes, TaskStates, SeedStates, IsTerminal
  <2>7. Dispatchable(t) => state[t] \in ActiveStates
    BY <2>6 DEF RunBooks, Outcomes, Outcome, SeedStates
  <2>8. ASSUME Dispatchable(t), Waiting(t)
        PROVE  \E d \in DependsOn[t] :
                 state[d] \notin SettledStates \/ (state[d] = "Failed" /\ d \notin launched)
    <3>1. PICK d \in DependsOn[t] : state[d] # "Done"
      BY <2>4, <2>5, <2>8 DEF NextReady, Waiting
    <3>2. d \in Tasks
      BY TasksAssumption
    <3>3. state[d] # "Skipped" /\ (d \in launched => state[d] # "Failed")
      BY <2>1, <2>2, <2>8, <3>2 DEF Behind
    <3> QED
      BY <3>1, <3>3 DEF SettledStates
  <2> QED
    BY <2>3, <2>7, <2>8 DEF Waiting, ActiveStates
<1> QED
  BY <1>1, <1>2, <1>3, PTL DEF Spec

-----------------------------------------------------------------------------
(* A graph-only run without late timeouts: a driver's place tells its task's  *)
(* state, and only tasks that were never begun are skipped.                   *)

Clean == ~Typed /\ "wallclock" \notin Faults

AlignedAt(t) ==
  /\ pc[t] = "worktree" => state[t] = "Ready"
  /\ pc[t] \in {"develop", "gates", "gateCap"} => state[t] = "InProgress"
  /\ pc[t] \in {"review", "approved", "merging", "landed"} => state[t] = "InReview"
  /\ pc[t] \in {"closeFailed", "okFailed", "closeErr", "err"} => state[t] = "Failed"
  /\ pc[t] # "timedOut"
  /\ state[t] = "Skipped" => pc[t] = "idle"

Aligned == Clean => \A t \in Tasks : AlignedAt(t)

\* The transitions a driver makes when nothing interferes.
LEMMA Moves ==
  /\ Legal("Ready", "Dispatched") /\ After("Ready", "Dispatched") = "InProgress"
  /\ Legal("InProgress", "GatesPassed") /\ After("InProgress", "GatesPassed") = "InReview"
  /\ Legal("InProgress", "GateFailed") /\ After("InProgress", "GateFailed") = "InProgress"
  /\ Legal("InProgress", "GateCapReached") /\ After("InProgress", "GateCapReached") = "Failed"
  /\ Legal("InReview", "ReviewerRejected") /\ After("InReview", "ReviewerRejected") = "InProgress"
  /\ Legal("InReview", "ReviewCapReached") /\ After("InReview", "ReviewCapReached") = "Failed"
  /\ Legal("InReview", "MergeConflict") /\ After("InReview", "MergeConflict") = "Failed"
  /\ Legal("InReview", "ReviewerApproved") /\ After("InReview", "ReviewerApproved") = "Done"
  /\ \A s \in {"Ready", "InProgress", "InReview"} : Legal(s, "HardError") /\ After(s, "HardError") = "Failed"
BY DEF Legal, After, From, Target

LEMMA AlignedDriver ==
  ASSUME RunBooks, Clean, NEW u \in Tasks, AlignedAt(u),
         DriverStep(u) \/ Abort(u) \/ Timeout(u) \/ Panic(u)
  PROVE  /\ AlignedAt(u)'
         /\ state[u] = "Failed" => state'[u] = "Failed"
         /\ state[u] # "Skipped"
<1>1. /\ pc \in [Tasks -> PCs] /\ state \in [Tasks -> TaskStates] /\ ~Typed
      /\ pc[u] \notin {"claim", "bookkept", "settle"} /\ pc[u] \in Working
  BY DriverShape DEF RunBooks, TypeOK, TaskTypes, Clean, Standing
<1>2. state[u] # "Skipped"
  BY <1>1 DEF AlignedAt, Working
<1>3. ~Timeout(u)
  BY DEF Timeout, Clean
<1>4. ~Claim(u) /\ ~PhaseB(u) /\ ~SettleDone(u)
  BY <1>1 DEF Claim, PhaseB, SettleDone
<1>5. ASSUME NEW e, Fire(u, e, "closeErr") \/ Fire(u, e, "closeFailed"),
             Legal(state[u], e), After(state[u], e) = "Failed"
      PROVE  AlignedAt(u)'
  BY <1>1, <1>5 DEF Fire, AlignedAt
<1>6. ASSUME state[u] \in {"Ready", "InProgress", "InReview"}, Fire(u, "HardError", "closeErr")
      PROVE  AlignedAt(u)'
  BY <1>5, <1>6, Moves
<1>7. ASSUME state[u] = "InReview", SendBack(u)
      PROVE  AlignedAt(u)'
  <2>1. Fire(u, "ReviewCapReached", "closeFailed") \/ Fire(u, "ReviewerRejected", "develop")
    BY <1>7 DEF SendBack
  <2>2. CASE Fire(u, "ReviewCapReached", "closeFailed")
    BY <1>5, <1>7, <2>2, Moves
  <2>3. CASE Fire(u, "ReviewerRejected", "develop")
    BY <1>1, <1>7, <2>3, Moves DEF Fire, AlignedAt
  <2> QED
    BY <2>1, <2>2, <2>3
<1>8. ASSUME CreateWorktree(u)
      PROVE  AlignedAt(u)' /\ state[u] # "Failed"
  <2>1. state[u] = "Ready"
    BY <1>8 DEF CreateWorktree, AlignedAt
  <2>2. CASE Fire(u, "Dispatched", "develop")
    BY <1>1, <2>1, <2>2, Moves DEF Fire, AlignedAt
  <2> QED
    BY <1>1, <1>6, <1>8, <2>1, <2>2 DEF CreateWorktree
<1>9. ASSUME DevelopTurn(u) \/ RunGates(u) \/ GateCapReached(u)
      PROVE  AlignedAt(u)' /\ state[u] # "Failed"
  <2>1. state[u] = "InProgress"
    BY <1>9 DEF DevelopTurn, RunGates, GateCapReached, AlignedAt
  <2>2. CASE Goto(u, "gates")
    BY <1>1, <2>1, <2>2 DEF Goto, AlignedAt
  <2>3. CASE Fire(u, "GatesPassed", "review")
    BY <1>1, <2>1, <2>3, Moves DEF Fire, AlignedAt
  <2>4. CASE Fire(u, "GateFailed", "gateCap") \/ Fire(u, "GateFailed", "develop")
    BY <1>1, <2>1, <2>4, Moves DEF Fire, AlignedAt
  <2>5. CASE Fire(u, "GateCapReached", "closeFailed")
    BY <1>5, <2>1, <2>5, Moves
  <2>6. \/ Goto(u, "gates") \/ Fire(u, "GatesPassed", "review")
        \/ Fire(u, "GateFailed", "gateCap") \/ Fire(u, "GateFailed", "develop")
        \/ Fire(u, "GateCapReached", "closeFailed") \/ Fire(u, "HardError", "closeErr")
    BY <1>9 DEF DevelopTurn, RunGates, GateCapReached
  <2> QED
    BY <1>6, <2>1, <2>2, <2>3, <2>4, <2>5, <2>6
<1>10. ASSUME ReviewTurn(u) \/ AcquireMergeLock(u) \/ Merge(u) \/ Approve(u)
       PROVE  AlignedAt(u)' /\ state[u] # "Failed"
  <2>1. state[u] = "InReview"
    BY <1>1, <1>10 DEF ReviewTurn, AcquireMergeLock, Merge, Approve, AlignedAt
  <2>2. CASE Goto(u, "approved") \/ Goto(u, "merging") \/ Goto(u, "landed")
    BY <1>1, <2>1, <2>2 DEF Goto, AlignedAt
  <2>3. CASE Fire(u, "MergeConflict", "closeFailed")
    BY <1>5, <2>1, <2>3, Moves
  <2>4. CASE Fire(u, "ReviewerApproved", "closeDone")
    BY <1>1, <2>1, <2>4, Moves DEF Fire, AlignedAt
  <2>5. \/ Goto(u, "approved") \/ Goto(u, "merging") \/ Goto(u, "landed")
        \/ Fire(u, "MergeConflict", "closeFailed") \/ Fire(u, "ReviewerApproved", "closeDone")
        \/ SendBack(u) \/ Fire(u, "HardError", "closeErr")
    BY <1>1, <1>10 DEF ReviewTurn, AcquireMergeLock, Merge, Approve
  <2> QED
    BY <1>6, <1>7, <2>1, <2>2, <2>3, <2>4, <2>5
<1>11. ASSUME Close(u) \/ Abort(u) \/ Panic(u)
       PROVE  AlignedAt(u)' /\ UNCHANGED state
  BY <1>1, <1>2, <1>11 DEF Close, Abort, Panic, Drop, Goto, AlignedAt
<1> QED
  BY <1>2, <1>3, <1>4, <1>8, <1>9, <1>10, <1>11 DEF DriverStep

\* A failure joined: nothing downstream of it was begun.
LEMMA NothingBegun ==
  ASSUME RunBooks, Aligned, Clean, NEW u \in Tasks, Join(u),
         JoinFailed(u) \/ JoinErr(u) \/ JoinTimedOut(u)
  PROVE  /\ state[u] = "Failed" /\ state'[u] = "Failed"
         /\ \A d \in Downstream[u] : ~Begun(d)
<1>1. state[u] = "Failed"
  BY DEF Aligned, AlignedAt, JoinFailed, JoinErr, JoinTimedOut, Joins
<1>2. state'[u] = "Failed"
  BY <1>1, JoinedState
<1> DEFINE Fresh == {v \in Tasks : ~Begun(v)}
<1>3. ASSUME NEW v \in Tasks, DependsOn[v] \cap (Fresh \cup {u}) # {}
      PROVE  v \in Fresh
  <2>1. PICK d \in DependsOn[v] : d \in Fresh \/ d = u
    BY <1>3
  <2>2. state[d] # "Done"
    BY <1>1, <2>1 DEF Begun, Reached
  <2> QED
    BY <2>1, <2>2 DEF RunBooks, Standing, Clean
<1>4. Downstream[u] \subseteq Fresh
  <2>1. Below(u, Fresh) /\ Fresh \in SUBSET Tasks
    BY <1>3 DEF Below
  <2> HIDE DEF Fresh
  <2> QED
    BY <2>1, DownstreamFacts
<1> QED
  BY <1>1, <1>2, <1>4

LEMMA AlignedInit == Init => Aligned
<1> SUFFICES ASSUME Init, NEW t \in Tasks PROVE AlignedAt(t)
  BY DEF Aligned
<1>1. pc[t] = "idle"
  BY DEF Init
<1> QED
  BY <1>1 DEF AlignedAt

LEMMA AlignedStep ==
  ASSUME RunBooks, Aligned, [Next]_vars
  PROVE  Aligned'
<1> SUFFICES ASSUME Clean, NEW t \in Tasks
             PROVE  AlignedAt(t)'
  BY DEF Aligned, Clean
<1>0. /\ pc \in [Tasks -> PCs] /\ state \in [Tasks -> TaskStates]
      /\ \A v \in Tasks : AlignedAt(v)
  BY DEF RunBooks, TypeOK, TaskTypes, Aligned
<1>1. ASSUME pc'[t] = pc[t], state'[t] = state[t]
      PROVE  AlignedAt(t)'
  BY <1>0, <1>1 DEF AlignedAt
<1>2. CASE LoopStep \/ Cancel \/ Pause \/ SupersedePaused \/ Resume
  BY <1>1, <1>2 DEF LoopStep, LoopTop, StopFilling, EnterWait, WakeOnCancel, Integrate, Publish,
     Cancel, Pause, SupersedePaused, Resume, Respawn, taskVars
<1>3. ASSUME NEW u \in Tasks, DriverStep(u) \/ Abort(u) \/ Timeout(u) \/ Panic(u)
      PROVE  AlignedAt(t)'
  <2>1. CASE t = u
    BY <1>0, <1>3, <2>1, AlignedDriver
  <2>2. CASE t # u
    BY <1>1, <1>3, <2>2, DriverShape DEF RunBooks
  <2> QED
    BY <2>1, <2>2
<1>4. ASSUME NEW u \in Tasks, Launch(u)
      PROVE  AlignedAt(t)'
  <2>1. After("New", "DependenciesSatisfied") = "Ready" /\ After("Ready", "DependenciesSatisfied") = "Ready"
    BY DEF After, Legal, From, Target
  <2>2. /\ state'[u] = "Ready" /\ pc'[u] = "worktree"
        /\ \A v \in Tasks \ {u} : state'[v] = state[v] /\ pc'[v] = pc[v]
    BY <1>0, <1>4, <2>1 DEF Launch, NextReady, Clean
  <2>3. CASE t = u
    BY <2>2, <2>3 DEF AlignedAt
  <2> QED
    BY <1>1, <2>2, <2>3
<1>5. ASSUME NEW u \in Tasks, Join(u)
      PROVE  AlignedAt(t)'
  <2>1. pc'[u] = "idle" /\ \A v \in Tasks \ {u} : pc'[v] = pc[v]
    <3>1. pc' = [pc EXCEPT ![u] = "idle"]
      BY <1>5, JoinShape DEF RunBooks
    <3> QED
      BY <1>0, <3>1
  <2>2. CASE t = u
    BY <2>1, <2>2 DEF AlignedAt
  <2>3. CASE t # u /\ state'[t] = state[t]
    BY <1>1, <2>1, <2>3
  <2>4. CASE t # u /\ state'[t] # state[t]
    <3>1. t \in Downstream[u]
      BY <1>5, <2>4, JoinShape DEF RunBooks
    <3>2. JoinFailed(u) \/ JoinErr(u) \/ JoinTimedOut(u)
      BY <1>5, <2>4, JoinShape DEF RunBooks, Join
    <3>3. pc[t] = "idle"
      BY <1>5, <3>1, <3>2, NothingBegun DEF Begun
    <3> QED
      BY <2>1, <2>4, <3>3 DEF AlignedAt
  <2> QED
    BY <2>2, <2>3, <2>4
<1>6. ~PersistFails
  BY DEF PersistFails, Clean
<1>7. ASSUME NEW reset \in SUBSET Tasks, Retry(reset)
      PROVE  AlignedAt(t)'
  <2>1. pc'[t] = "idle"
    BY <1>7, RetryShape DEF RunBooks
  <2> QED
    BY <2>1 DEF AlignedAt
<1> QED
  BY <1>1, <1>2, <1>3, <1>4, <1>5, <1>6, <1>7, StepCases DEF vars, taskVars

\* A task that failed or was skipped stays so until a retry.
LEMMA SetbackKept ==
  ASSUME RunBooks, Aligned, Clean, [Next]_vars, ~\E reset \in SUBSET Tasks : Retry(reset),
         NEW d \in Tasks, state[d] \in {"Failed", "Skipped"}
  PROVE  state'[d] \in {"Failed", "Skipped"}
<1>0. /\ pc \in [Tasks -> PCs] /\ state \in [Tasks -> TaskStates]
      /\ \A v \in Tasks : AlignedAt(v)
  BY DEF RunBooks, TypeOK, TaskTypes, Aligned
<1>1. ASSUME UNCHANGED state
      PROVE  state'[d] \in {"Failed", "Skipped"}
  BY <1>1
<1>2. CASE LoopStep \/ Cancel \/ Pause \/ SupersedePaused \/ Resume
  BY <1>1, <1>2 DEF LoopStep, LoopTop, StopFilling, EnterWait, WakeOnCancel, Integrate, Publish,
     Cancel, Pause, SupersedePaused, Resume, Respawn, taskVars
<1>3. ASSUME NEW u \in Tasks, DriverStep(u) \/ Abort(u) \/ Timeout(u) \/ Panic(u)
      PROVE  state'[d] \in {"Failed", "Skipped"}
  <2>1. CASE d = u
    BY <1>0, <1>3, <2>1, AlignedDriver
  <2>2. CASE d # u
    BY <1>3, <2>2, DriverShape DEF RunBooks
  <2> QED
    BY <2>1, <2>2
<1>4. ASSUME NEW u \in Tasks, Launch(u)
      PROVE  state'[d] \in {"Failed", "Skipped"}
  BY <1>0, <1>4 DEF Launch, NextReady
<1>5. ASSUME NEW u \in Tasks, Join(u)
      PROVE  state'[d] \in {"Failed", "Skipped"}
  BY <1>5, JoinedState, JoinShape DEF RunBooks
<1>6. ~PersistFails
  BY DEF PersistFails, Clean
<1> QED
  BY <1>1, <1>2, <1>3, <1>4, <1>5, <1>6, StepCases DEF vars, taskVars

LEMMA SkippedStep ==
  ASSUME RunBooks, Aligned, Clean, SkippedBehindFailure, [Next]_vars
  PROVE  SkippedBehindFailure'
<1> SUFFICES ASSUME NEW t \in Tasks, state'[t] = "Skipped"
             PROVE  \E d \in DependsOn[t] : state'[d] \in {"Failed", "Skipped"}
  BY DEF SkippedBehindFailure
<1>0. DependsOn[t] \subseteq Tasks
  BY TasksAssumption
<1>1. CASE state[t] # "Skipped"
  <2>1. PICK u \in Tasks : /\ Join(u) /\ t \in Downstream[u]
                           /\ JoinFailed(u) \/ JoinErr(u) \/ JoinTimedOut(u)
    BY <1>1, SkippedBy
  <2>2. PICK d \in DependsOn[t] : d \in Downstream[u] \/ d = u
    BY <2>1, DownstreamFacts
  <2>3. CASE d = u
    BY <2>1, <2>2, <2>3, NothingBegun
  <2>4. CASE d \in Downstream[u]
    <3>1. ~Begun(d)
      BY <2>1, <2>4, NothingBegun
    <3>2. state[d] \in TaskStates /\ Dispatchable(d)
      BY <1>0, <2>2, ModeAssumption DEF RunBooks, TypeOK, TaskTypes, Clean, Dispatchable
    <3>3. state[d] \in {"New", "Ready", "Skipped"}
      BY <1>0, <2>2, <3>1, <3>2 DEF Begun, Reached, TaskStates, ActiveStates, SettledStates, RunBooks,
         Outcomes, Outcome
    <3>4. state[d] \in ActiveStates => state'[d] = "Skipped"
      BY <2>1, <2>4, JoinShape DEF RunBooks
    <3>5. d # u
      BY <2>4, DownstreamFacts
    <3>6. state[d] \notin ActiveStates => state'[d] = state[d]
      BY <1>0, <2>1, <2>2, <3>5, JoinShape DEF RunBooks
    <3> QED
      BY <3>3, <3>4, <3>6 DEF ActiveStates
  <2> QED
    BY <2>2, <2>3, <2>4
<1>2. CASE state[t] = "Skipped" /\ ~\E reset \in SUBSET Tasks : Retry(reset)
  BY <1>0, <1>2, SetbackKept DEF SkippedBehindFailure
<1>3. CASE state[t] = "Skipped" /\ \E reset \in SUBSET Tasks : Retry(reset)
  <2>1. PICK reset \in SUBSET Tasks : Retry(reset)
    BY <1>3
  <2>2. PICK again \in [Tasks -> TaskStates] :
          /\ \A v \in Tasks : again[v] = IF v \in reset THEN "New" ELSE state[v]
          /\ \A v \in Tasks :
               LET waits == v \in Revived(again, reset) \/ again[v] = "New" IN
               /\ waits => state'[v] \in {"New", "Ready"}
               /\ ~waits => state'[v] = state[v]
    BY <2>1, RetryShape DEF RunBooks
  <2> DEFINE V == Revived(again, reset)
  <2>3. /\ reset \subseteq V
        /\ \A v \in Tasks : Free(again, V, v) => v \in V
        /\ \A v \in V : v \in reset \/ Free(again, V, v)
    BY RevivedFacts
  <2>4. t \notin V /\ again[t] = "Skipped" /\ ~Free(again, V, t)
    BY <1>3, <2>2, <2>3
  <2>5. \A d \in Tasks \ V : again[d] = state[d] /\ (state[d] \in {"Failed", "Skipped"} => state'[d] = state[d])
    BY <2>2, <2>3
  <2>6. PICK e \in DependsOn[t] : state[e] \in {"Failed", "Skipped"}
    BY <1>3 DEF SkippedBehindFailure
  <2>7. CASE DependsOn[t] \cap V = {}
    BY <1>0, <2>5, <2>6, <2>7
  <2>8. CASE DependsOn[t] \cap V # {}
    <3>1. PICK d \in DependsOn[t] : again[d] = "Failed" \/ (again[d] = "Skipped" /\ d \notin V)
      BY <2>4, <2>8 DEF Free
    <3>2. d \notin V
      <4>1. ASSUME again[d] = "Failed", d \in V
            PROVE  FALSE
        <5>1. d \in Tasks
          BY <1>0
        <5>2. d \notin reset
          BY <2>2, <4>1, <5>1
        <5> QED
          BY <2>3, <4>1, <5>2 DEF Free
      <4> QED
        BY <3>1, <4>1
    <3> QED
      BY <1>0, <2>5, <3>1, <3>2
  <2> QED
    BY <2>7, <2>8
<1> QED
  BY <1>1, <1>2, <1>3

\* In a graph-only run whose timeouts are not late a task is Skipped only behind
\* a prerequisite that failed or was skipped, over every retry of the graph.
THEOREM SkipsHaveCause ==
  ASSUME Clean
  PROVE  Spec => []SkippedBehindFailure
<1> DEFINE Inv == RunBooks /\ Aligned /\ SkippedBehindFailure
<1>1. Init => Inv
  <2>1. Init => SkippedBehindFailure
    <3>1. \A t \in Tasks : SeedState(t) # "Skipped"
      BY DEF SeedState, SeedStates
    <3> QED
      BY <3>1 DEF Init, SkippedBehindFailure
  <2> QED
    BY <2>1, TypeInit, TrackInit, OutcomesInit, StandingInit, AlignedInit DEF RunBooks
<1>2. Inv /\ [Next]_vars => Inv'
  BY BookStep, AlignedStep, SkippedStep
<1>3. Inv => SkippedBehindFailure
  OBVIOUS
<1> QED
  BY <1>1, <1>2, <1>3, PTL DEF Spec

-----------------------------------------------------------------------------
(* The permits and the budgets.                                             *)

\* Work in progress never exceeds the permits.
PermitsKept == Cardinality(RunningTasks) <= Concurrency

LEMMA PermitsStep ==
  ASSUME TypeOK, PermitsKept, [Next]_vars
  PROVE  PermitsKept'
<1>0. RunningTasks \subseteq Tasks /\ IsFiniteSet(RunningTasks) /\ Cardinality(RunningTasks) \in Nat
      /\ Concurrency \in Nat
  BY TasksAssumption, ConfigAssumption, FS_Subset, FS_CardinalityType DEF RunningTasks
<1>1. \A t \in Tasks : Running(t)' => Running(t) \/ Launch(t)
  BY WorkStarts
<1>2. CASE \A t \in Tasks : ~Launch(t)
  <2>1. RunningTasks' \subseteq RunningTasks
    BY <1>1, <1>2 DEF RunningTasks
  <2>2. Cardinality(RunningTasks') <= Cardinality(RunningTasks) /\ Cardinality(RunningTasks') \in Nat
    BY <1>0, <2>1, FS_Subset, FS_CardinalityType
  <2> QED
    BY <1>0, <2>2 DEF PermitsKept
<1>3. ASSUME NEW u \in Tasks, Launch(u)
      PROVE  PermitsKept'
  <2>1. \A t \in Tasks \ {u} : pc'[t] = pc[t]
    BY <1>3 DEF Launch, TypeOK, TaskTypes
  <2>2. RunningTasks' \subseteq RunningTasks \cup {u}
    BY <2>1 DEF RunningTasks, Running
  <2>3. IsFiniteSet(RunningTasks \cup {u})
        /\ Cardinality(RunningTasks \cup {u}) <= Cardinality(RunningTasks) + 1
        /\ Cardinality(RunningTasks \cup {u}) \in Nat
    <3>1. /\ IsFiniteSet(RunningTasks \cup {u})
          /\ Cardinality(RunningTasks \cup {u}) =
               IF u \in RunningTasks THEN Cardinality(RunningTasks) ELSE Cardinality(RunningTasks) + 1
      BY <1>0, FS_AddElement
    <3> QED
      BY <1>0, <3>1
  <2>4. Cardinality(RunningTasks') <= Cardinality(RunningTasks \cup {u}) /\ Cardinality(RunningTasks') \in Nat
    BY <2>2, <2>3, FS_Subset, FS_CardinalityType
  <2>5. Cardinality(RunningTasks) < Concurrency
    BY <1>3 DEF Launch, HasPermit
  <2> QED
    BY <1>0, <2>3, <2>4, <2>5 DEF PermitsKept
<1> QED
  BY <1>2, <1>3

\* Where a round is under way, or may still be.
Rounds == {"claim", "worktree", "develop", "gates", "review", "approved", "merging"}

Fresh(t) == gateIter[t] = 0 /\ reviewIter[t] = 0

\* A task past its worktree does not wait; one that waits has its whole budget,
\* and so has a skipped one that a rerun may revive; a round has budget left.
BudgetAt(t) ==
  /\ pc[t] \in {"develop", "gates", "gateCap", "review", "approved", "merging"} => ~Waiting(t)
  /\ Waiting(t) \/ (MaxReruns # 0 /\ state[t] = "Skipped") => Fresh(t)
  /\ pc[t] \in Rounds => gateIter[t] < GateCap /\ reviewIter[t] < ReviewCap

Budgets == \A t \in Tasks : BudgetAt(t)

LEMMA BudgetsInit == Init => Budgets
BY DEF Init, Budgets, BudgetAt, Fresh, Rounds

\* One round spends at most one of each budget, and the task does not wait.
LEMMA RoundSpent ==
  ASSUME RunBooks, Aligned, NEW u \in Tasks, BudgetAt(u),
         MaxReruns = 0 \/ "wallclock" \notin Faults,
         DriverStep(u) \/ Abort(u) \/ Timeout(u) \/ Panic(u)
  PROVE  BudgetAt(u)' /\ \A t \in Tasks \ {u} : gateIter'[t] = gateIter[t] /\ reviewIter'[t] = reviewIter[t]
<1>1. /\ pc \in [Tasks -> PCs] /\ state \in [Tasks -> TaskStates] /\ pc[u] \in Working
      /\ gateIter \in [Tasks -> Nat] /\ reviewIter \in [Tasks -> Nat]
      /\ GateCap \in Nat \ {0} /\ ReviewCap \in Nat \ {0}
  BY DriverShape, ConfigAssumption DEF RunBooks, TypeOK, TaskTypes
<1>2. \A t \in Tasks \ {u} : gateIter'[t] = gateIter[t] /\ reviewIter'[t] = reviewIter[t]
  <2> USE <1>1
  <2>1. CASE Claim(u) \/ CreateWorktree(u) \/ DevelopTurn(u) \/ RunGates(u) \/ GateCapReached(u)
    BY <2>1 DEF Claim, CreateWorktree, DevelopTurn, RunGates, GateCapReached
  <2>2. CASE ReviewTurn(u) \/ AcquireMergeLock(u) \/ Merge(u)
    BY <2>2 DEF ReviewTurn, AcquireMergeLock, Merge, SendBack
  <2>3. CASE PhaseB(u) \/ Approve(u) \/ SettleDone(u) \/ Close(u) \/ Abort(u) \/ Timeout(u) \/ Panic(u)
    BY <2>3 DEF PhaseB, Approve, SettleDone, Close, Abort, Timeout, Panic, Drop
  <2> QED
    BY <2>1, <2>2, <2>3 DEF DriverStep
<1> SUFFICES BudgetAt(u)'
  BY <1>2
<1>3. MaxReruns # 0 => Clean
  BY ModeAssumption DEF Clean
<1>4. MaxReruns # 0 => state[u] # "Skipped" /\ state'[u] # "Skipped"
  <2>1. ASSUME Clean PROVE state[u] # "Skipped" /\ AlignedAt(u)'
    BY <2>1, AlignedDriver DEF Aligned
  <2>2. pc'[u] # "idle"
    BY DriverShape DEF RunBooks, Working, Finished
  <2> QED
    BY <1>3, <2>1, <2>2 DEF AlignedAt
<1>5. state'[u] = state[u] \/ ~Waiting(u)'
  BY DriverTarget DEF RunBooks, Waiting, Reached
<1>6. ASSUME UNCHANGED <<gateIter, reviewIter>>,
             pc'[u] \in Rounds => pc[u] \in Rounds,
             pc'[u] \in {"develop", "gates", "gateCap", "review", "approved", "merging"} =>
               ~Waiting(u)'
      PROVE  BudgetAt(u)'
  BY <1>4, <1>5, <1>6 DEF BudgetAt, Fresh, Waiting
<1>7. ASSUME NEW e, NEW next, Fire(u, e, next), UNCHANGED <<gateIter, reviewIter>>,
             next \in Rounds => pc[u] \in Rounds,
             next \in {"develop", "review"} => Target[e] \in {"InProgress", "InReview"},
             next \notin {"gates", "gateCap", "approved", "merging"}
      PROVE  BudgetAt(u)'
  <2>1. (pc'[u] = next /\ state'[u] = Target[e]) \/ pc'[u] = "err"
    BY <1>1, <1>7 DEF Fire, After
  <2>2. "err" \notin Rounds
    BY DEF Rounds
  <2> QED
    BY <1>6, <1>7, <2>1, <2>2 DEF Waiting
<1>8. ASSUME NEW next, Goto(u, next), UNCHANGED <<gateIter, reviewIter>>,
             next \in Rounds => pc[u] \in Rounds,
             next \in {"develop", "gates", "gateCap", "review", "approved", "merging"} => ~Waiting(u)
      PROVE  BudgetAt(u)'
  BY <1>1, <1>6, <1>8 DEF Goto, Waiting
<1>9. /\ Target["Dispatched"] = "InProgress" /\ Target["GatesPassed"] = "InReview"
      /\ Target["GateFailed"] = "InProgress" /\ Target["ReviewerRejected"] = "InProgress"
  BY DEF Target
<1>10. ASSUME SendBack(u), pc[u] \in {"review", "approved", "merging"}
      PROVE  BudgetAt(u)'
  <2>1. ~Waiting(u) /\ gateIter[u] < GateCap
    BY <1>10 DEF BudgetAt, Rounds
  <2>2. UNCHANGED gateIter
    BY <1>10 DEF SendBack
  <2>3. CASE reviewIter[u] + 1 >= ReviewCap
    <3>1. pc'[u] \in {"closeFailed", "err"} /\ ~Waiting(u)'
      BY <1>1, <1>5, <1>10, <2>1, <2>3 DEF SendBack, Fire, Waiting
    <3> QED
      BY <1>4, <3>1 DEF BudgetAt, Rounds
  <2>4. CASE ~(reviewIter[u] + 1 >= ReviewCap)
    <3>1. Fire(u, "ReviewerRejected", "develop")
      BY <1>10, <2>4 DEF SendBack
    <3>2. reviewIter'[u] = reviewIter[u] \/ reviewIter'[u] = reviewIter[u] + 1
      BY <1>1, <1>10, <2>4 DEF SendBack
    <3>3. reviewIter'[u] < ReviewCap
      BY <1>1, <2>4, <3>2, <1>10 DEF BudgetAt, Rounds
    <3>4. (pc'[u] = "develop" /\ state'[u] = "InProgress") \/ pc'[u] = "err"
      BY <1>1, <1>9, <3>1 DEF Fire, After
    <3>5. ~Waiting(u)'
      BY <1>5, <2>1 DEF Waiting
    <3> QED
      BY <1>4, <2>1, <2>2, <3>3, <3>4, <3>5 DEF BudgetAt, Rounds
  <2> QED
    BY <2>3, <2>4
<1>11. CASE Claim(u)
  <2>1. pc'[u] \in {"worktree", "closeErr"} /\ UNCHANGED <<gateIter, reviewIter>> /\ pc[u] = "claim"
    BY <1>1, <1>11 DEF Claim, Goto
  <2> QED
    BY <1>6, <2>1 DEF Rounds, Claim
<1>12. CASE CreateWorktree(u)
  <2>1. UNCHANGED <<gateIter, reviewIter>> /\ pc[u] \in Rounds
    BY <1>12 DEF CreateWorktree, Rounds
  <2>2. Fire(u, "Dispatched", "develop") \/ Fire(u, "HardError", "closeErr") \/ Goto(u, "err")
    BY <1>12 DEF CreateWorktree
  <2> QED
    BY <1>7, <1>8, <1>9, <2>1, <2>2
<1>13. CASE DevelopTurn(u)
  <2>1. UNCHANGED <<gateIter, reviewIter>> /\ pc[u] \in Rounds /\ ~Waiting(u)
    BY <1>13 DEF DevelopTurn, Rounds, BudgetAt
  <2>2. Goto(u, "gates") \/ Fire(u, "HardError", "closeErr")
    BY <1>13 DEF DevelopTurn
  <2> QED
    BY <1>7, <1>8, <2>1, <2>2
<1>14. CASE RunGates(u)
  <2>1. pc[u] \in Rounds /\ ~Waiting(u) /\ pc[u] = "gates" /\ UNCHANGED reviewIter
    BY <1>14 DEF RunGates, Rounds, BudgetAt
  <2>2. CASE UNCHANGED gateIter /\ (Fire(u, "GatesPassed", "review") \/ Fire(u, "HardError", "closeErr"))
    BY <1>7, <1>9, <2>1, <2>2
  <2>3. CASE /\ Fire(u, "GateFailed", IF gateIter[u] + 1 >= GateCap THEN "gateCap" ELSE "develop")
             /\ gateIter' = [gateIter EXCEPT ![u] = IF Legal(state[u], "GateFailed") THEN gateIter[u] + 1 ELSE @]
    <3>1. \/ pc'[u] = "err"
          \/ pc'[u] = "gateCap" /\ state'[u] = "InProgress"
          \/ pc'[u] = "develop" /\ state'[u] = "InProgress" /\ gateIter'[u] < GateCap
      <4>1. CASE Legal(state[u], "GateFailed")
        BY <1>1, <1>9, <2>3, <4>1 DEF Fire, After
      <4>2. CASE ~Legal(state[u], "GateFailed")
        BY <1>1, <2>3, <4>2 DEF Fire
      <4> QED
        BY <4>1, <4>2
    <3>2. ~Waiting(u)'
      BY <1>5, <2>1 DEF Waiting
    <3>3. reviewIter'[u] < ReviewCap
      BY <2>1 DEF BudgetAt
    <3>4. "err" \notin Rounds /\ "gateCap" \notin Rounds
      BY DEF Rounds
    <3>5. pc'[u] \in Rounds => gateIter'[u] < GateCap
      BY <3>1, <3>4
    <3>6. ~(Waiting(u)' \/ (MaxReruns # 0 /\ state'[u] = "Skipped"))
      BY <1>4, <3>2
    <3> QED
      BY <3>3, <3>5, <3>6 DEF BudgetAt
  <2> QED
    BY <1>14, <2>2, <2>3 DEF RunGates
<1>15. CASE GateCapReached(u)
  <2>1. UNCHANGED <<gateIter, reviewIter>> /\ Fire(u, "GateCapReached", "closeFailed")
    BY <1>15 DEF GateCapReached
  <2>2. "closeFailed" \notin Rounds
    BY DEF Rounds
  <2> QED
    BY <1>7, <2>1, <2>2
<1>16. CASE ReviewTurn(u) \/ AcquireMergeLock(u) \/ Merge(u)
  <2>1. pc[u] \in {"review", "approved", "merging"} /\ pc[u] \in Rounds /\ ~Waiting(u)
    BY <1>16 DEF ReviewTurn, AcquireMergeLock, Merge, Rounds, BudgetAt
  <2>2. \/ SendBack(u)
        \/ /\ UNCHANGED <<gateIter, reviewIter>>
           /\ \/ Goto(u, "approved") \/ Goto(u, "merging") \/ Goto(u, "landed")
              \/ Fire(u, "MergeConflict", "closeFailed") \/ Fire(u, "HardError", "closeErr")
    BY <1>16 DEF ReviewTurn, AcquireMergeLock, Merge
  <2>3. "landed" \notin Rounds /\ "closeFailed" \notin Rounds /\ "closeErr" \notin Rounds
    BY DEF Rounds
  <2>4. ASSUME UNCHANGED <<gateIter, reviewIter>>,
               Goto(u, "approved") \/ Goto(u, "merging") \/ Goto(u, "landed")
        PROVE  BudgetAt(u)'
    BY <1>8, <2>1, <2>4
  <2>5. ASSUME UNCHANGED <<gateIter, reviewIter>>,
               Fire(u, "MergeConflict", "closeFailed") \/ Fire(u, "HardError", "closeErr")
        PROVE  BudgetAt(u)'
    BY <1>7, <2>3, <2>5
  <2>6. SendBack(u) => BudgetAt(u)'
    BY <1>10, <2>1
  <2> QED
    BY <2>2, <2>4, <2>5, <2>6, Zenon
<1>17. CASE PhaseB(u) \/ Approve(u) \/ SettleDone(u) \/ Close(u) \/ Abort(u) \/ Timeout(u) \/ Panic(u)
  <2>1. /\ UNCHANGED <<gateIter, reviewIter>>
        /\ pc'[u] \in {"bookkept", "err", "settle", "closeDone", "okDone", "okFailed", "aborted",
                       "timedOut", "panicked"}
    BY <1>1, <1>17 DEF PhaseB, Approve, SettleDone, Close, Abort, Timeout, Panic, Drop, Goto, Fire
  <2> QED
    BY <1>6, <2>1 DEF Rounds
<1> QED
  BY <1>11, <1>12, <1>13, <1>14, <1>15, <1>16, <1>17 DEF DriverStep

LEMMA BudgetsStep ==
  ASSUME RunBooks, Aligned, Budgets, MaxReruns = 0 \/ "wallclock" \notin Faults, [Next]_vars
  PROVE  Budgets'
<1> SUFFICES ASSUME NEW t \in Tasks
             PROVE  BudgetAt(t)'
  BY DEF Budgets
<1>0. /\ pc \in [Tasks -> PCs] /\ state \in [Tasks -> TaskStates] /\ BudgetAt(t)
      /\ GateCap \in Nat \ {0} /\ ReviewCap \in Nat \ {0}
  BY ConfigAssumption DEF RunBooks, TypeOK, TaskTypes, Budgets
<1>1. ASSUME pc'[t] = pc[t] \/ pc'[t] \in Finished \cup {"idle"},
             Waiting(t)' => Waiting(t), MaxReruns # 0 /\ state'[t] = "Skipped" => Fresh(t),
             gateIter'[t] = gateIter[t], reviewIter'[t] = reviewIter[t]
      PROVE  BudgetAt(t)'
  BY <1>0, <1>1 DEF BudgetAt, Fresh, Rounds, Finished
<1>2. ASSUME pc'[t] = pc[t], state'[t] = state[t], gateIter'[t] = gateIter[t], reviewIter'[t] = reviewIter[t]
      PROVE  BudgetAt(t)'
  BY <1>0, <1>2 DEF BudgetAt, Fresh, Waiting
<1>3. CASE LoopStep \/ Cancel \/ Pause \/ SupersedePaused \/ Resume
  BY <1>2, <1>3 DEF LoopStep, LoopTop, StopFilling, EnterWait, WakeOnCancel, Integrate, Publish,
     Cancel, Pause, SupersedePaused, Resume, Respawn, taskVars
<1>4. ASSUME NEW u \in Tasks, DriverStep(u) \/ Abort(u) \/ Timeout(u) \/ Panic(u)
      PROVE  BudgetAt(t)'
  <2>1. CASE t = u
    BY <1>0, <1>4, <2>1, RoundSpent
  <2>2. CASE t # u
    <3>1. gateIter'[t] = gateIter[t] /\ reviewIter'[t] = reviewIter[t]
      BY <1>4, <2>2, RoundSpent DEF Budgets
    <3>2. pc'[t] = pc[t] /\ state'[t] = state[t]
      BY <1>4, <2>2, DriverShape DEF RunBooks
    <3> QED
      BY <1>2, <3>1, <3>2
  <2> QED
    BY <2>1, <2>2
<1>5. ASSUME NEW u \in Tasks, Launch(u)
      PROVE  BudgetAt(t)'
  <2>1. UNCHANGED <<gateIter, reviewIter>>
        /\ \A v \in Tasks \ {u} : state'[v] = state[v] /\ pc'[v] = pc[v]
    BY <1>0, <1>5 DEF Launch
  <2>2. CASE t = u
    <3>1. Waiting(u) /\ pc'[u] \in {"claim", "worktree"} /\ state' = [state EXCEPT ![u] = After(@, "DependenciesSatisfied")]
      BY <1>0, <1>5 DEF Launch, NextReady, Waiting
    <3>2. state'[u] # "Skipped"
      BY <1>0, <3>1 DEF After, Target, Waiting
    <3>3. Fresh(u) /\ Fresh(u)'
      BY <1>0, <2>1, <2>2, <3>1 DEF BudgetAt, Fresh
    <3> QED
      BY <1>0, <2>2, <3>1, <3>2, <3>3 DEF BudgetAt, Fresh
  <2>3. CASE t # u
    BY <1>2, <2>1, <2>3
  <2> QED
    BY <2>2, <2>3
<1>6. ASSUME NEW u \in Tasks, Join(u)
      PROVE  BudgetAt(t)'
  <2>1. Waiting(t)' => Waiting(t)
    BY <1>6, JoinedState, JoinShape DEF RunBooks, Waiting
  <2>2. pc'[t] = pc[t] \/ pc'[t] = "idle"
    <3>1. pc' = [pc EXCEPT ![u] = "idle"]
      BY <1>6, JoinShape DEF RunBooks
    <3> QED
      BY <1>0, <3>1
  <2>3. gateIter'[t] = gateIter[t] /\ reviewIter'[t] = reviewIter[t]
    BY <1>6, JoinShape DEF RunBooks
  <2>4. ASSUME MaxReruns # 0, state'[t] = "Skipped"
        PROVE  Fresh(t)
    <3>1. CASE state[t] = "Skipped"
      BY <1>0, <2>4, <3>1 DEF BudgetAt
    <3>2. CASE state[t] # "Skipped"
      <4>1. [Next]_vars
        OBVIOUS
      <4>2. PICK v \in Tasks : /\ Join(v) /\ t \in Downstream[v] /\ state[t] \in ActiveStates
                               /\ JoinFailed(v) \/ JoinErr(v) \/ JoinTimedOut(v)
        BY <2>4, <3>2, SkippedBy
      <4>3. ~Begun(t)
        BY <2>4, <4>2, ModeAssumption, NothingBegun DEF Clean
      <4> QED
        BY <1>0, <4>2, <4>3 DEF Begun, Reached, ActiveStates, Waiting, BudgetAt
    <3> QED
      BY <3>1, <3>2
  <2> QED
    BY <1>1, <2>1, <2>2, <2>3, <2>4
<1>7. CASE PersistFails
  <2>1. UNCHANGED <<pc, gateIter, reviewIter>> /\ (state'[t] = state[t] \/ state'[t] = "Failed")
    BY <1>7 DEF PersistFails
  <2> QED
    BY <1>0, <2>1 DEF BudgetAt, Fresh, Waiting
<1>8. ASSUME NEW reset \in SUBSET Tasks, Retry(reset)
      PROVE  BudgetAt(t)'
  <2>1. pc'[t] = "idle" /\ MaxReruns # 0
    BY <1>8, RetryShape DEF RunBooks
  <2>2. PICK again \in [Tasks -> TaskStates] :
          /\ \A v \in Tasks : again[v] = IF v \in reset THEN "New" ELSE state[v]
          /\ \A v \in Tasks :
               LET waits == v \in Revived(again, reset) \/ again[v] = "New" IN
               /\ waits => state'[v] \in {"New", "Ready"}
               /\ ~waits => state'[v] = state[v]
    BY <1>8, RetryShape DEF RunBooks
  <2>3. CASE t \in reset
    <3>1. gateIter'[t] = 0 /\ reviewIter'[t] = 0
      BY <1>8, <2>3, RetryShape DEF RunBooks
    <3> QED
      BY <2>1, <3>1 DEF BudgetAt, Fresh, Rounds
  <2>4. CASE t \notin reset
    <3>1. gateIter'[t] = gateIter[t] /\ reviewIter'[t] = reviewIter[t]
      BY <1>8, <2>4, RetryShape DEF RunBooks
    <3>2. t \in Revived(again, reset) => state[t] = "Skipped"
      BY <2>2, <2>4, RevivedFacts DEF Free
    <3>3. state'[t] \in {"New", "Ready", "Skipped"} => state[t] \in {"New", "Ready", "Skipped"}
      BY <2>2, <2>4, <3>2
    <3>4. Waiting(t)' \/ state'[t] = "Skipped" => Fresh(t)
      BY <1>0, <2>1, <3>3 DEF Waiting, BudgetAt
    <3> QED
      BY <2>1, <3>1, <3>4 DEF BudgetAt, Fresh, Rounds
  <2> QED
    BY <2>3, <2>4
<1> QED
  BY <1>2, <1>3, <1>4, <1>5, <1>6, <1>7, <1>8, StepCases DEF vars, taskVars

\* Unless late timeouts and retries come together, no driver works without a
\* permit and none starts a round its task has no budget for.
THEOREM LimitsKept ==
  ASSUME MaxReruns = 0 \/ "wallclock" \notin Faults
  PROVE  Spec => []WithinLimits
<1> DEFINE Inv == RunBooks /\ Aligned /\ Budgets /\ PermitsKept
<1>1. Init => Inv
  <2>1. Init => PermitsKept
    <3>1. Init => RunningTasks = {}
      BY DEF Init, RunningTasks, Running, Working
    <3> QED
      BY <3>1, FS_EmptySet, ConfigAssumption DEF PermitsKept
  <2> QED
    BY <2>1, TypeInit, TrackInit, OutcomesInit, StandingInit, AlignedInit, BudgetsInit DEF RunBooks
<1>2. Inv /\ [Next]_vars => Inv'
  BY BookStep, AlignedStep, BudgetsStep, PermitsStep DEF RunBooks
<1>3. Inv => WithinLimits
  BY DEF PermitsKept, Budgets, BudgetAt, Rounds, WithinLimits
<1> QED
  BY <1>1, <1>2, <1>3, PTL DEF Spec

-----------------------------------------------------------------------------
(* The board of a graph-only run.                                           *)

ColumnFacts(t) ==
  /\ Column(t) = "waiting" <=> state[t] = "New" \/ (state[t] = "Ready" /\ t \notin inFlight)
  /\ Column(t) = "done" <=> state[t] = "Done"
  /\ Column(t) = "failed" <=> state[t] = "Failed"
  /\ Column(t) = "skipped" <=> state[t] = "Skipped"
  /\ Column(t) \in {"waiting", "running", "done", "failed", "skipped"}

LEMMA ColumnIs == \A t \in Tasks : ColumnFacts(t) /\ ColumnFacts(t)'
BY DEF ColumnFacts, Column

LEMMA ColumnKept ==
  ASSUME NEW t \in Tasks, state'[t] = state[t], t \in inFlight' <=> t \in inFlight
  PROVE  Column(t)' = Column(t)
BY DEF Column

\* A task in a state that does not depend on the books of the scheduler.
LEMMA ColumnFixed ==
  ASSUME NEW t \in Tasks, state'[t] = state[t], state[t] # "Ready"
  PROVE  Column(t)' = Column(t)
BY DEF Column

TheBoard == [t \in Tasks |-> Column(t)]

\* What a driver does shows as a finish, a failure or nothing.
LEMMA BoardDriver ==
  ASSUME RunBooks, Aligned, Clean, NEW u \in Tasks,
         DriverStep(u) \/ Abort(u) \/ Timeout(u) \/ Panic(u)
  PROVE  [Board!Next]_TheBoard
<1>1. /\ pc[u] # "idle" /\ u \in inFlight /\ UNCHANGED inFlight
      /\ \A t \in Tasks \ {u} : state'[t] = state[t]
  BY DriverMoves, DriverShape DEF RunBooks, DriversTracked, schedVars
<1>2. \A t \in Tasks \ {u} : Column(t)' = Column(t)
  BY <1>1, ColumnKept
<1>3. state[u] # "New" /\ state[u] # "Skipped" /\ (state[u] = "Failed" => state'[u] = "Failed")
  BY <1>1, AlignedDriver DEF Aligned, RunBooks, Outcomes, Outcome
<1>4. state[u] = "Done" => state'[u] = "Done"
  <2>1. [Next]_vars
    BY DEF Next
  <2> QED
    BY <1>1, <2>1, DoneStep DEF RunBooks, Standing, Clean
<1>5. state'[u] = state[u] \/ state'[u] \in Reached
  BY DriverTarget DEF RunBooks
<1>6. ColumnFacts(u) /\ ColumnFacts(u)'
  BY ColumnIs
<1>7. \/ Column(u)' = Column(u)
      \/ Column(u) = "running" /\ Column(u)' \in {"done", "failed"}
  BY <1>1, <1>3, <1>4, <1>5, <1>6 DEF ColumnFacts, Reached
<1>8. CASE Column(u)' = Column(u)
  <2>1. TheBoard' = TheBoard
    BY <1>2, <1>8 DEF TheBoard
  <2> QED
    BY <2>1
<1>9. CASE Column(u) = "running" /\ Column(u)' = "done"
  <2>1. TheBoard[u] = "running" /\ TheBoard' = [TheBoard EXCEPT ![u] = "done"]
    BY <1>2, <1>9 DEF TheBoard
  <2>2. Board!Finish(u)
    BY <2>1 DEF Board!Finish, TheBoard
  <2> QED
    BY <2>2 DEF Board!Next
<1>10. CASE Column(u) = "running" /\ Column(u)' = "failed"
  <2>1. /\ TheBoard[u] = "running"
        /\ TheBoard' = [t \in Tasks |-> IF t \in {u} THEN "failed" ELSE IF t \in {} THEN "skipped"
                                        ELSE TheBoard[t]]
    BY <1>2, <1>10 DEF TheBoard
  <2>2. Board!Lose({u}, {})
    BY <2>1 DEF Board!Lose, TheBoard
  <2>3. {u} \in SUBSET Tasks /\ {} \in SUBSET Tasks
    OBVIOUS
  <2> QED
    BY <2>2, <2>3 DEF Board!Next
<1> QED
  BY <1>7, <1>8, <1>9, <1>10

LEMMA BoardLaunch ==
  ASSUME RunBooks, NEW u \in Tasks, Launch(u)
  PROVE  Board!Start(u)
<1>0. state \in [Tasks -> TaskStates] /\ DependsOn[u] \subseteq Tasks
  BY TasksAssumption DEF RunBooks, TypeOK, TaskTypes
<1>1. /\ state[u] \in {"New", "Ready"} /\ u \notin inFlight
      /\ \A d \in DependsOn[u] : state[d] = "Done"
      /\ inFlight' = inFlight \cup {u}
      /\ state' = [state EXCEPT ![u] = After(@, "DependenciesSatisfied")]
  BY DEF Launch, NextReady
<1>2. After("New", "DependenciesSatisfied") = "Ready" /\ After("Ready", "DependenciesSatisfied") = "Ready"
  BY DEF After, Legal, From, Target
<1>3. state'[u] = "Ready" /\ u \in inFlight' /\ \A t \in Tasks \ {u} : state'[t] = state[t]
  BY <1>0, <1>1, <1>2
<1>4. \A t \in Tasks \ {u} : Column(t)' = Column(t)
  BY <1>1, <1>3, ColumnKept
<1>5. Column(u) = "waiting" /\ \A d \in DependsOn[u] : Column(d) = "done"
  BY <1>0, <1>1, ColumnIs DEF ColumnFacts
<1>6. Column(u)' = "running"
  BY <1>3 DEF Column
<1>7. /\ TheBoard[u] = "waiting" /\ \A d \in DependsOn[u] : TheBoard[d] = "done"
      /\ TheBoard' = [TheBoard EXCEPT ![u] = "running"]
  BY <1>0, <1>4, <1>5, <1>6 DEF TheBoard
<1> QED
  BY <1>7 DEF Board!Start, TheBoard

\* A join shows as the waiting tasks it gives up.
LEMMA BoardJoin ==
  ASSUME RunBooks, Aligned, Clean, SkippedBehindFailure', NEW u \in Tasks, Join(u)
  PROVE  \E skipping \in SUBSET Tasks : Board!Lose({}, skipping)
<1>0. DependsOn \in [Tasks -> SUBSET Tasks]
  BY TasksAssumption
<1> DEFINE skipping == {t \in Tasks : state'[t] = "Skipped" /\ state[t] # "Skipped"}
<1>1. inFlight' = inFlight \/ (inFlight' = inFlight \ {u} /\ state[u] # "Ready")
  <2>1. ASSUME JoinFailed(u) \/ JoinErr(u) \/ JoinTimedOut(u)
        PROVE  inFlight' = inFlight \ {u} /\ state[u] # "Ready"
    BY <2>1, NothingBegun DEF JoinFailed, JoinErr, JoinTimedOut
  <2>2. ASSUME JoinDone(u)
        PROVE  inFlight' = inFlight \ {u} /\ state[u] # "Ready"
    BY <2>2, JoinedSettled, JoinedState DEF JoinDone, RunBooks, Outcomes, Books
  <2>3. ASSUME JoinAborted(u) \/ JoinPanicked(u)
        PROVE  inFlight' = inFlight
    BY <2>3 DEF JoinAborted, JoinPanicked
  <2> QED
    BY <2>1, <2>2, <2>3 DEF Join
<1>2. state'[u] = state[u]
  <2>1. ASSUME JoinFailed(u) \/ JoinErr(u) \/ JoinTimedOut(u)
        PROVE  state'[u] = state[u]
    BY <2>1, NothingBegun
  <2> QED
    BY <2>1, JoinShape DEF Join, RunBooks
<1>3. \A t \in Tasks : t \in skipping \/ state'[t] = state[t]
  BY <1>2, JoinShape DEF RunBooks
<1>4. ASSUME NEW t \in skipping
      PROVE  Column(t) = "waiting" /\ Column(t)' = "skipped"
  <2>1. t \in Downstream[u] /\ state[t] \in ActiveStates /\ t \in Tasks
    BY <1>2, <1>4, JoinShape DEF RunBooks
  <2>2. JoinFailed(u) \/ JoinErr(u) \/ JoinTimedOut(u)
    BY <1>4, JoinShape DEF RunBooks, Join
  <2>3. ~Begun(t)
    BY <2>1, <2>2, NothingBegun
  <2>4. state[t] \in {"New", "Ready"} /\ t \notin inFlight
    BY <2>1, <2>3 DEF Begun, Reached, ActiveStates
  <2> QED
    BY <1>4, <2>1, <2>4, ColumnIs DEF ColumnFacts
<1>5. ASSUME NEW t \in Tasks \ skipping
      PROVE  Column(t)' = Column(t)
  <2>1. state'[t] = state[t]
    BY <1>3
  <2>2. (t \in inFlight' <=> t \in inFlight) \/ state[t] # "Ready"
    BY <1>1
  <2> QED
    BY <2>1, <2>2, ColumnKept, ColumnFixed
<1>6. \A t \in skipping : \E d \in DependsOn[t] : d \in Tasks /\ Column(d)' \in {"failed", "skipped"}
  <2>1. \A t \in skipping : t \in Tasks /\ \E d \in DependsOn[t] : state'[d] \in {"Failed", "Skipped"}
    BY DEF SkippedBehindFailure
  <2>2. \A d \in Tasks : state'[d] \in {"Failed", "Skipped"} => Column(d)' \in {"failed", "skipped"}
    BY ColumnIs DEF ColumnFacts
  <2> QED
    BY <1>0, <2>1, <2>2
<1>7. skipping \in SUBSET Tasks
  OBVIOUS
<1> HIDE DEF skipping
<1>8. /\ \A t \in skipping : TheBoard[t] = "waiting"
      /\ TheBoard' = [t \in Tasks |-> IF t \in {} THEN "failed" ELSE IF t \in skipping THEN "skipped"
                                      ELSE TheBoard[t]]
      /\ \A t \in skipping : \E d \in DependsOn[t] : TheBoard'[d] \in {"failed", "skipped"}
  BY <1>4, <1>5, <1>6, <1>7 DEF TheBoard
<1>9. Board!Lose({}, skipping)
  BY <1>8 DEF Board!Lose, Board!Lost, TheBoard
<1> QED
  BY <1>7, <1>9

\* A rerun shows as the tasks it lets wait again.
LEMMA BoardRerun ==
  ASSUME RunBooks, SkippedBehindFailure', inFlight' = {},
         NEW V \in SUBSET Tasks,
         \A t \in V : state'[t] \in {"New", "Ready"} /\ state[t] \in {"New", "Failed", "Skipped"},
         \A t \in Tasks \ V : state'[t] = state[t],
         \A t \in V : state[t] = "Skipped" =>
           \A d \in DependsOn[t] : state'[d] \notin {"Failed", "Skipped"}
  PROVE  \E reset \in SUBSET Tasks : Board!Reopen(reset)
<1>0. DependsOn \in [Tasks -> SUBSET Tasks]
  BY TasksAssumption
<1> DEFINE reset == {t \in Tasks : Column(t)' = "waiting" /\ Column(t) # "waiting"}
<1>1. \A t \in Tasks : ColumnFacts(t) /\ ColumnFacts(t)'
  BY ColumnIs
<1>2. ASSUME NEW t \in reset
      PROVE  Column(t) \in {"failed", "skipped", "running"}
  <2>1. state[t] # "Done"
    BY <1>1, <1>2 DEF ColumnFacts
  <2> QED
    BY <1>1, <1>2, <2>1 DEF ColumnFacts
<1>3. ASSUME NEW t \in Tasks \ reset
      PROVE  Column(t)' = Column(t)
  <2>1. CASE Column(t)' = "waiting"
    BY <2>1
  <2>2. CASE Column(t)' # "waiting"
    <3>1. state'[t] \notin {"New", "Ready"}
      BY <1>1, <2>2 DEF ColumnFacts
    <3>2. state'[t] = state[t]
      BY <3>1
    <3> QED
      BY <3>1, <3>2, ColumnFixed
  <2> QED
    BY <2>1, <2>2
<1>4. ASSUME NEW t \in Tasks, Column(t)' = "skipped"
      PROVE  \E d \in DependsOn[t] : d \in Tasks /\ Column(d)' \in {"failed", "skipped"}
  <2>1. PICK d \in DependsOn[t] : state'[d] \in {"Failed", "Skipped"}
    BY <1>1, <1>4 DEF ColumnFacts, SkippedBehindFailure
  <2> QED
    BY <1>0, <1>1, <2>1 DEF ColumnFacts
<1>5. ASSUME NEW t \in reset, Column(t) = "skipped"
      PROVE  \A d \in DependsOn[t] : d \in Tasks /\ Column(d)' \notin {"failed", "skipped"}
  <2>1. state[t] = "Skipped" /\ state'[t] # "Skipped"
    BY <1>1, <1>5 DEF ColumnFacts
  <2>2. t \in V
    BY <2>1
  <2> QED
    BY <1>0, <1>1, <2>1, <2>2 DEF ColumnFacts
<1>6. reset \in SUBSET Tasks /\ \A t \in reset : Column(t)' = "waiting"
  OBVIOUS
<1> HIDE DEF reset
<1>7. /\ \A t \in reset : TheBoard[t] \in {"failed", "skipped"} \cup {"running"}
      /\ TheBoard' = [t \in Tasks |-> IF t \in reset THEN "waiting" ELSE TheBoard[t]]
  BY <1>2, <1>3, <1>6 DEF TheBoard
<1>8. \A t \in Tasks :
        /\ TheBoard'[t] = "skipped" => \E d \in DependsOn[t] : TheBoard'[d] \in {"failed", "skipped"}
        /\ t \in reset /\ TheBoard[t] = "skipped" =>
             \A d \in DependsOn[t] : TheBoard'[d] \notin {"failed", "skipped"}
  BY <1>4, <1>5, <1>6 DEF TheBoard
<1>9. Board!Reopen(reset)
  BY <1>7, <1>8 DEF Board!Reopen, Board!Lost, TheBoard
<1> QED
  BY <1>6, <1>9

LEMMA BoardStep ==
  ASSUME RunBooks, Aligned, Clean, SkippedBehindFailure', [Next]_vars
  PROVE  [Board!Next]_TheBoard
<1>1. ASSUME UNCHANGED <<state, inFlight>>
      PROVE  [Board!Next]_TheBoard
  <2>1. \A t \in Tasks : Column(t)' = Column(t)
    BY <1>1, ColumnKept
  <2>2. TheBoard' = TheBoard
    BY <2>1 DEF TheBoard
  <2> QED
    BY <2>2
<1>2. CASE LoopStep \/ Cancel \/ Pause \/ SupersedePaused
  BY <1>1, <1>2 DEF LoopStep, LoopTop, StopFilling, EnterWait, WakeOnCancel, Integrate, Publish,
     Cancel, Pause, SupersedePaused, taskVars, schedVars
<1>3. ASSUME NEW u \in Tasks, DriverStep(u) \/ Abort(u) \/ Timeout(u) \/ Panic(u)
      PROVE  [Board!Next]_TheBoard
  BY <1>3, BoardDriver
<1>4. ASSUME NEW u \in Tasks, Launch(u)
      PROVE  [Board!Next]_TheBoard
  BY <1>4, BoardLaunch DEF Board!Next
<1>5. ASSUME NEW u \in Tasks, Join(u)
      PROVE  [Board!Next]_TheBoard
  <2>1. PICK skipping \in SUBSET Tasks : Board!Lose({}, skipping)
    BY <1>5, BoardJoin
  <2>2. {} \in SUBSET Tasks
    OBVIOUS
  <2> QED
    BY <2>1, <2>2 DEF Board!Next
<1>6. ~PersistFails
  BY DEF PersistFails, Clean
<1>7. CASE Resume
  <2>1. UNCHANGED state /\ inFlight' = {} /\ {} \in SUBSET Tasks
    BY <1>7 DEF Resume, Respawn
  <2>2. \E reset \in SUBSET Tasks : Board!Reopen(reset)
    BY <2>1, BoardRerun
  <2> QED
    BY <2>2 DEF Board!Next
<1>8. ASSUME NEW reset \in SUBSET Tasks, Retry(reset)
      PROVE  [Board!Next]_TheBoard
  <2>1. PICK again \in [Tasks -> TaskStates] :
          /\ \A v \in Tasks : again[v] = IF v \in reset THEN "New" ELSE state[v]
          /\ \A v \in Tasks :
               LET waits == v \in Revived(again, reset) \/ again[v] = "New" IN
               /\ waits => state'[v] \in {"New", "Ready"}
               /\ ~waits => state'[v] = state[v]
    BY <1>8, RetryShape DEF RunBooks
  <2>2. inFlight' = {} /\ \A v \in reset : state[v] = "Failed"
    BY <1>8, RetryShape DEF RunBooks
  <2> DEFINE R == Revived(again, reset)
             V == {v \in Tasks : v \in R \/ again[v] = "New"}
  <2>3. reset \subseteq R /\ R \subseteq Tasks /\ \A v \in R : v \in reset \/ Free(again, R, v)
    BY RevivedFacts
  <2>4. \A v \in V : state'[v] \in {"New", "Ready"} /\ state[v] \in {"New", "Failed", "Skipped"}
    <3> SUFFICES ASSUME NEW v \in V
                 PROVE  state'[v] \in {"New", "Ready"} /\ state[v] \in {"New", "Failed", "Skipped"}
      OBVIOUS
    <3>1. state'[v] \in {"New", "Ready"}
      BY <2>1
    <3>2. v \notin reset => again[v] = state[v] /\ again[v] \in {"New", "Skipped"}
      BY <2>1, <2>3 DEF Free
    <3> QED
      BY <2>2, <3>1, <3>2
  <2>5. \A v \in Tasks \ V : state'[v] = state[v]
    BY <2>1
  <2>6. ASSUME NEW v \in V, state[v] = "Skipped", NEW d \in DependsOn[v]
        PROVE  state'[d] \notin {"Failed", "Skipped"}
    <3>1. d \in Tasks
      BY TasksAssumption
    <3>2. v \notin reset /\ again[v] = "Skipped"
      BY <2>1, <2>2, <2>6
    <3>3. again[d] # "Failed" /\ (again[d] = "Skipped" => d \in R)
      BY <2>3, <2>6, <3>2 DEF Free
    <3>4. d \in V => state'[d] \in {"New", "Ready"}
      BY <2>4
    <3>5. d \notin V => state'[d] = state[d] /\ d \notin R /\ d \notin reset /\ again[d] = state[d]
      BY <2>1, <2>3, <2>5, <3>1
    <3> QED
      BY <3>3, <3>4, <3>5
  <2>7. V \in SUBSET Tasks
    OBVIOUS
  <2> HIDE DEF V
  <2>8. \E again_reset \in SUBSET Tasks : Board!Reopen(again_reset)
    BY <2>2, <2>4, <2>5, <2>6, <2>7, BoardRerun
  <2> QED
    BY <2>8 DEF Board!Next
<1> QED
  BY <1>1, <1>2, <1>3, <1>4, <1>5, <1>6, <1>7, <1>8, StepCases DEF vars, taskVars, schedVars

\* A graph-only run whose timeouts are not late implements PlanBoard: behind
\* every pause, cancel, panic, abort and retry a task starts only once all its
\* prerequisites are done, done is final, and what never ran is given up only
\* behind a loss.
THEOREM RunImplementsBoard ==
  ASSUME Clean
  PROVE  Spec => BoardSpec
<1> DEFINE Inv == RunBooks /\ Aligned /\ SkippedBehindFailure
<1>1. Init => Inv /\ Board!Init
  <2> SUFFICES ASSUME Init PROVE Inv /\ Board!Init
    OBVIOUS
  <2>1. \A t \in Tasks : SeedState(t) = "New" /\ state[t] = SeedState(t)
    BY ModeAssumption DEF Clean, SeedState, SeedStates, Init
  <2>2. SkippedBehindFailure
    BY <2>1 DEF SkippedBehindFailure
  <2>3. \A t \in Tasks : Column(t) = "waiting"
    BY <2>1, ColumnIs DEF ColumnFacts
  <2>4. Board!Init
    BY <2>3 DEF Board!Init
  <2> QED
    BY <2>2, <2>4, TypeInit, TrackInit, OutcomesInit, StandingInit, AlignedInit DEF RunBooks
<1>2. Inv /\ [Next]_vars => Inv' /\ [Board!Next]_TheBoard
  BY BookStep, AlignedStep, SkippedStep, BoardStep
<1>3. Inv /\ [Next]_vars => [Board!Next]_([t \in Tasks |-> Column(t)])
  BY <1>2 DEF TheBoard
<1> QED
  BY <1>1, <1>2, <1>3, PTL DEF Spec, BoardSpec, Board!Spec

-----------------------------------------------------------------------------
(* What the promise of PlanBoard amounts to over a whole run. *)

BoardInv == Board!TypeOK /\ Board!StandsOnDone /\ Board!SkippedBehindLost

LEMMA BoardInvStep ==
  ASSUME BoardInv, [Board!Next]_TheBoard
  PROVE  BoardInv'
<1> DEFINE B == TheBoard
<1>0. /\ B \in [Tasks -> Board!Columns]
      /\ \A t \in Tasks : B[t] \in {"running", "done"} =>
           \A d \in DependsOn[t] : B[d] = "done"
      /\ \A t \in Tasks : B[t] = "skipped" =>
           \E d \in DependsOn[t] : B[d] \in Board!Lost
  BY DEF BoardInv, Board!TypeOK, Board!StandsOnDone, Board!SkippedBehindLost, TheBoard
<1>1. SUFFICES /\ B' \in [Tasks -> Board!Columns]
               /\ \A t \in Tasks : B'[t] \in {"running", "done"} =>
                    \A d \in DependsOn[t] : B'[d] = "done"
               /\ \A t \in Tasks : B'[t] = "skipped" =>
                    \E d \in DependsOn[t] : B'[d] \in Board!Lost
  BY DEF BoardInv, Board!TypeOK, Board!StandsOnDone, Board!SkippedBehindLost, TheBoard
<1>2. \/ B' = B
      \/ \E t \in Tasks : /\ B[t] = "waiting"
                          /\ \A d \in DependsOn[t] : B[d] = "done"
                          /\ B' = [B EXCEPT ![t] = "running"]
      \/ \E t \in Tasks : B[t] = "running" /\ B' = [B EXCEPT ![t] = "done"]
      \/ \E failing, skipping \in SUBSET Tasks :
           /\ \A t \in failing  : B[t] = "running"
           /\ \A t \in skipping : B[t] = "waiting"
           /\ B' = [t \in Tasks |-> IF t \in failing THEN "failed"
                                    ELSE IF t \in skipping THEN "skipped" ELSE B[t]]
           /\ \A t \in skipping : \E d \in DependsOn[t] : B'[d] \in Board!Lost
      \/ \E reset \in SUBSET Tasks :
           /\ \A t \in reset : B[t] \in Board!Lost \cup {"running"}
           /\ B' = [t \in Tasks |-> IF t \in reset THEN "waiting" ELSE B[t]]
           /\ \A t \in Tasks : B'[t] = "skipped" =>
                \E d \in DependsOn[t] : B'[d] \in Board!Lost
  BY DEF Board!Next, Board!Start, Board!Finish, Board!Lose, Board!Reopen, TheBoard
<1> HIDE DEF B
<1> USE <1>0, TasksAssumption DEF Board!Columns, Board!Lost
<1>3. CASE B' = B
  BY <1>3
<1>4. CASE \E t \in Tasks : /\ B[t] = "waiting"
                            /\ \A d \in DependsOn[t] : B[d] = "done"
                            /\ B' = [B EXCEPT ![t] = "running"]
  BY <1>4
<1>5. CASE \E t \in Tasks : B[t] = "running" /\ B' = [B EXCEPT ![t] = "done"]
  BY <1>5
<1>6. CASE \E failing, skipping \in SUBSET Tasks :
             /\ \A t \in failing  : B[t] = "running"
             /\ \A t \in skipping : B[t] = "waiting"
             /\ B' = [t \in Tasks |-> IF t \in failing THEN "failed"
                                      ELSE IF t \in skipping THEN "skipped" ELSE B[t]]
             /\ \A t \in skipping : \E d \in DependsOn[t] : B'[d] \in Board!Lost
  BY <1>6
<1>7. CASE \E reset \in SUBSET Tasks :
             /\ \A t \in reset : B[t] \in Board!Lost \cup {"running"}
             /\ B' = [t \in Tasks |-> IF t \in reset THEN "waiting" ELSE B[t]]
             /\ \A t \in Tasks : B'[t] = "skipped" =>
                  \E d \in DependsOn[t] : B'[d] \in Board!Lost
  BY <1>7
<1> QED
  BY <1>2, <1>3, <1>4, <1>5, <1>6, <1>7

\* Through every pause, cancel, panic and retry of a graph-only run whose
\* timeouts are not late, a task that runs or is done has nothing but done
\* tasks behind it, and one that was given up has a lost one behind it.
THEOREM BoardStandsOnDone ==
  ASSUME Clean
  PROVE  Spec => [](Board!StandsOnDone /\ Board!SkippedBehindLost)
<1>1. Board!Init => BoardInv
  BY DEF Board!Init, BoardInv, Board!TypeOK, Board!Columns, Board!StandsOnDone,
         Board!SkippedBehindLost
<1>2. BoardInv /\ [Board!Next]_([t \in Tasks |-> Column(t)]) => BoardInv'
  BY BoardInvStep DEF TheBoard
<1>3. BoardInv => Board!StandsOnDone /\ Board!SkippedBehindLost
  BY DEF BoardInv
<1> QED
  BY <1>1, <1>2, <1>3, RunImplementsBoard, PTL DEF BoardSpec, Board!Spec
=============================================================================
