------------------------------ MODULE Scheduler ------------------------------
(***************************************************************************)
(* One run of a task graph: the scheduler loop of actors/supervisor.rs and *)
(* the task drivers it spawns.                                             *)
(*                                                                         *)
(* The scheduler holds the graph, a semaphore of Concurrency permits and a *)
(* JoinSet of driver futures; each driver owns one task from its claim to  *)
(* its terminal state.  A step of this module is one critical section over *)
(* the shared graph together with the outcome of the await that precedes   *)
(* it (an agent turn, a gate run, a git command): the graph lock is never  *)
(* held across an await, so those sections interleave freely.  A driver    *)
(* may be dropped at any await, by abort_all or by its wall clock.         *)
(*                                                                         *)
(* A typed run (checkpoint_identity is Some) brackets each task by a claim *)
(* commit, a landing commit (Phase A) and a status commit (Phase B) on the *)
(* plan ref; a graph-only run has only the landing.                        *)
(***************************************************************************)
EXTENDS TaskFSM, Integers, FiniteSets

CONSTANTS
  Tasks,        \* the tasks of the graph
  DependsOn,    \* DependsOn[t]: the prerequisites of t (Task::depends_on)
  Concurrency,  \* config.concurrency: permits of the semaphore
  GateCap,      \* config.caps.gate_iterations
  ReviewCap,    \* config.caps.reviewer_iterations
  Typed,        \* TRUE: a registered plan; FALSE: a graph-only run
  Seed,         \* Seed[t]: the authored outcome of t (AuthoredSeedOutcome)
  Faults,       \* the disturbances the environment may inject
  MaxReruns,    \* bound: how many times the graph is run again
  Nobody        \* the holder of a free merge lock

\* Authored outcomes of from_document: only "Planned" is dispatchable.
\* "Unverified" is a done or in-progress task whose evidence is not consulted.
Seeds == {"Planned", "Gated", "Blocked", "Dropped", "Unverified"}

FaultKinds == {"cancel", "pause", "wallclock", "panic", "persist", "git"}

ASSUME TasksAssumption ==
  /\ IsFiniteSet(Tasks)
  /\ Nobody \notin Tasks
  /\ DependsOn \in [Tasks -> SUBSET Tasks]
  /\ Seed \in [Tasks -> Seeds]

\* Config::validate refuses zero permits and zero caps.
ASSUME ConfigAssumption ==
  /\ Concurrency \in Nat \ {0}
  /\ GateCap \in Nat \ {0}
  /\ ReviewCap \in Nat \ {0}

\* Only a typed run has authored seeds; only a graph-only run is rerun on the
\* graph it left (reconcile_run_under_repository_lease returns it unchanged).
ASSUME ModeAssumption ==
  /\ Typed \in BOOLEAN
  /\ Faults \subseteq FaultKinds
  /\ MaxReruns \in Nat
  /\ ~Typed => \A t \in Tasks : Seed[t] = "Planned"
  /\ Typed => MaxReruns = 0

VARIABLES
  state,         \* Task::state
  gateIter,      \* Task::gate_iterations
  reviewIter,    \* Task::review_iterations
  pc,            \* where the driver of each task stands
  mergeLock,     \* DriverContext::merge_lock: its holder across Phase A
  tip,           \* the last commit of the plan ref
  landed,        \* tasks whose work is on the integration branch (Phase A)
  bookkept,      \* tasks with a Phase-B commit
  sched,         \* where the scheduler loop stands
  inFlight,      \* scheduler's in_flight set
  stopLaunching, \* scheduler's stop_launching flag
  abortAll,      \* JoinSet::abort_all was called
  fatal,         \* scheduler's fatal_error is Some
  cancel,        \* RunControl::cancel
  pause,         \* RunControl::pause
  integrated,    \* the final merge, or Phase P of a typed run
  published,     \* the last RunStatusChanged the run emitted
  launched,      \* history: tasks launched by this scheduler
  reruns         \* bounded by MaxReruns

taskVars  == <<state, gateIter, reviewIter>>
gitVars   == <<mergeLock, tip, landed, bookkept>>
schedVars == <<sched, inFlight, stopLaunching, abortAll, fatal, launched>>
runVars   == <<cancel, pause>>
endVars   == <<integrated, published, reruns>>
vars      == <<taskVars, pc, gitVars, schedVars, runVars, endVars>>

-----------------------------------------------------------------------------
(* Where a driver can stand.                                               *)

Working ==
  {"claim", "worktree", "develop", "gates", "gateCap", "review", "approved",
   "merging", "landed", "bookkept", "settle",
   "closeDone", "closeFailed", "closeErr"}

\* A finished future the JoinSet has not handed to the scheduler yet.
Finished == {"okDone", "okFailed", "err", "timedOut", "aborted", "panicked"}

PCs == {"idle"} \cup Working \cup Finished

SchedPCs ==
  {"top", "fill", "enter", "waitArmed", "waitJoin", "integrate", "publish", "done"}

Phases == {"registration", "claim", "landing", "status"}

Commits == [phase : Phases, task : Tasks \cup {Nobody}]

Running(t)    == pc[t] \in Working
RunningTasks  == {t \in Tasks : Running(t)}

\* Mutant: one permit too many.
HasPermitTooMany == Cardinality(RunningTasks) <= Concurrency

\* A permit lives in the driver future: it is back before the join is drained.
HasPermit == Cardinality(RunningTasks) < Concurrency

JoinSetEmpty == \A t \in Tasks : pc[t] = "idle"

Dispatchable(t) == Seed[t] = "Planned"

\* Mutant: a prerequisite that is merely in review counts as done.
NextReadyEager(t) ==
  /\ state[t] \in {"New", "Ready"}
  /\ Dispatchable(t)
  /\ t \notin inFlight
  /\ \A d \in DependsOn[t] : state[d] \in {"Done", "InReview"}

\* next_ready_task_id's filter; which of the candidates is first in authored
\* order is left open.
NextReady(t) ==
  /\ state[t] \in {"New", "Ready"}
  /\ Dispatchable(t)
  /\ t \notin inFlight
  /\ \A d \in DependsOn[t] : state[d] = "Done"

-----------------------------------------------------------------------------
(* The graph helpers.                                                      *)

\* mark_dependents_skipped's reverse-edge search: the least set that holds the
\* dependents of t and the dependents of its own members.
Downstream ==
  [t \in Tasks |->
     {u \in Tasks \ {t} :
        \A S \in SUBSET Tasks :
          (\A v \in Tasks : DependsOn[v] \cap (S \cup {t}) # {} => v \in S) => u \in S}]

\* Mutant: the dependents of a failure are left waiting.
SkipNone(st, t) == st

\* mark_dependents_skipped on the states st: every downstream task for which
\* DependencyFailed is legal, the terminal ones excepted.
SkipDependents(st, t) ==
  [u \in Tasks |-> IF u \in Downstream[t] /\ ~IsTerminal(st[u])
                   THEN After(st[u], "DependencyFailed")
                   ELSE st[u]]

\* Mutant: a driver error is only recorded.
SettleNothing(s, cancelled) == s

\* settle_driver_error_locked: the state of a task whose driver returned Err.
Settle(s, cancelled) ==
  IF ~IsTerminal(s) /\ ~cancelled THEN After(s, "HardError") ELSE s

\* Mutant: only the retried tasks are revived.
RevivedResetOnly(st, reset) == reset

\* unskip_dependents_locked: the least set that holds the reset tasks and every
\* Skipped task that depends on a member and on no Failed or still Skipped one.
Revived(st, reset) ==
  {u \in Tasks :
     \A R \in SUBSET Tasks :
       ( /\ reset \subseteq R
         /\ \A v \in Tasks :
              ( /\ st[v] = "Skipped"
                /\ DependsOn[v] \cap R # {}
                /\ \A d \in DependsOn[v] : st[d] # "Failed" /\ (st[d] = "Skipped" => d \in R) )
              => v \in R )
       => u \in R}

\* remark_ready_locked.
RemarkReady(st) ==
  [u \in Tasks |-> IF st[u] = "New" /\ \A d \in DependsOn[u] : st[d] = "Done"
                   THEN After(st[u], "DependenciesSatisfied")
                   ELSE st[u]]

\* aggregate_run_status.
AggregateStatus ==
  IF \A t \in Tasks : state[t] = "Done" THEN "Completed"
  ELSE IF \E t \in Tasks : state[t] = "Failed" THEN "Failed"
  ELSE "Running"

\* The state from_document gives an authored task.
SeedState(t) ==
  IF Seed[t] \in SeedStates THEN Seed[t] ELSE "New"

-----------------------------------------------------------------------------
Init ==
  /\ state = [t \in Tasks |-> SeedState(t)]
  /\ gateIter = [t \in Tasks |-> 0]
  /\ reviewIter = [t \in Tasks |-> 0]
  /\ pc = [t \in Tasks |-> "idle"]
  /\ mergeLock = Nobody
  /\ tip = [phase |-> "registration", task |-> Nobody]
  /\ landed = {}
  /\ bookkept = {}
  /\ sched = "top"
  /\ inFlight = {}
  /\ stopLaunching = FALSE
  /\ abortAll = FALSE
  /\ fatal = FALSE
  /\ cancel = FALSE
  /\ pause = FALSE
  /\ integrated = FALSE
  /\ published = "Running"
  /\ launched = {}
  /\ reruns = 0

-----------------------------------------------------------------------------
(* Steps every driver is built from.                                       *)

\* apply_event_locked(t, e)? : the driver goes on at next, or returns the
\* IllegalTransition as its error with the task left as it was.
Fire(t, e, next) ==
  /\ state' = [state EXCEPT ![t] = After(@, e)]
  /\ pc' = [pc EXCEPT ![t] = IF Legal(state[t], e) THEN next ELSE "err"]

Goto(t, next) ==
  /\ pc' = [pc EXCEPT ![t] = next]
  /\ UNCHANGED state

\* A rejected round: the reviewer's, or a footprint correction
\* (return_footprint_correction), which spends the same budget.
SendBack(t) ==
  /\ IF reviewIter[t] + 1 >= ReviewCap
     THEN /\ reviewIter' = [reviewIter EXCEPT ![t] = @ + 1]
          /\ Fire(t, "ReviewCapReached", "closeFailed")
     ELSE /\ Fire(t, "ReviewerRejected", "develop")
          /\ reviewIter' = [reviewIter EXCEPT
                              ![t] = IF Legal(state[t], "ReviewerRejected") THEN @ + 1 ELSE @]
  /\ UNCHANGED gateIter

\* The commit that becomes the tip of the plan ref.
Commit(phase, t) == tip' = [phase |-> phase, task |-> t]

\* Mutant: a dropped driver keeps the lock.
KeepLock(t) == UNCHANGED mergeLock

\* A driver future that ends, or is dropped, releases the merge lock it holds.
ReleaseLock(t) == mergeLock' = IF mergeLock = t THEN Nobody ELSE mergeLock

-----------------------------------------------------------------------------
(* task_driver.                                                            *)

\* commit_claim under the merge lock: it reads the tip and replaces it.
Claim(t) ==
  /\ pc[t] = "claim"
  /\ mergeLock = Nobody
  /\ \/ /\ Commit("claim", t)
        /\ Goto(t, "worktree")
     \/ \* a failed claim drives the task to Failed, whatever its state allows
        /\ state' = [state EXCEPT ![t] = After(@, "HardError")]
        /\ pc' = [pc EXCEPT ![t] = "closeErr"]
        /\ UNCHANGED tip
  /\ UNCHANGED <<gateIter, reviewIter, mergeLock, landed, bookkept, schedVars, runVars, endVars>>

\* WorktreeManager::create, the branch base lookup of a typed task, Dispatched.
CreateWorktree(t) ==
  /\ pc[t] = "worktree"
  /\ \/ Fire(t, "Dispatched", "develop")
     \/ Fire(t, "HardError", "closeErr")
     \/ Typed /\ Goto(t, "err")
  /\ UNCHANGED <<gateIter, reviewIter, gitVars, schedVars, runVars, endVars>>

\* The developer's turn.
DevelopTurn(t) ==
  /\ pc[t] = "develop"
  /\ \/ Goto(t, "gates")
     \/ Fire(t, "HardError", "closeErr")
  /\ UNCHANGED <<gateIter, reviewIter, gitVars, schedVars, runVars, endVars>>

\* Mutant: the cap is compared with the count before this round.
RunGatesLate(t) ==
  /\ pc[t] = "gates"
  /\ \/ Fire(t, "GatesPassed", "review") /\ UNCHANGED gateIter
     \/ /\ Fire(t, "GateFailed", IF gateIter[t] >= GateCap THEN "gateCap" ELSE "develop")
        /\ gateIter' = [gateIter EXCEPT ![t] = @ + 1]
  /\ UNCHANGED <<reviewIter, gitVars, schedVars, runVars, endVars>>

\* All gates of one round: passed, one failed, or one not launchable.
RunGates(t) ==
  /\ pc[t] = "gates"
  /\ \/ Fire(t, "GatesPassed", "review") /\ UNCHANGED gateIter
     \/ LET spent == gateIter[t] + 1 IN
        /\ Fire(t, "GateFailed", IF spent >= GateCap THEN "gateCap" ELSE "develop")
        /\ gateIter' = [gateIter EXCEPT
                          ![t] = IF Legal(state[t], "GateFailed") THEN spent ELSE @]
     \/ Fire(t, "HardError", "closeErr") /\ UNCHANGED gateIter
  /\ UNCHANGED <<reviewIter, gitVars, schedVars, runVars, endVars>>

\* The second critical section of the failing round that reaches the cap.
GateCapReached(t) ==
  /\ pc[t] = "gateCap"
  /\ Fire(t, "GateCapReached", "closeFailed")
  /\ UNCHANGED <<gateIter, reviewIter, gitVars, schedVars, runVars, endVars>>

\* The reviewer's turn.
ReviewTurn(t) ==
  /\ pc[t] = "review"
  /\ \/ Goto(t, "approved") /\ UNCHANGED <<gateIter, reviewIter>>
     \/ SendBack(t)
     \/ Fire(t, "HardError", "closeErr") /\ UNCHANGED <<gateIter, reviewIter>>
  /\ UNCHANGED <<gitVars, schedVars, runVars, endVars>>

\* An approved task: the footprint check of a typed task sends it back, or the
\* driver waits for the merge lock.
AcquireMergeLock(t) ==
  /\ pc[t] = "approved"
  /\ \/ /\ Typed
        /\ SendBack(t)
        /\ UNCHANGED mergeLock
     \/ /\ mergeLock = Nobody
        /\ mergeLock' = t
        /\ Goto(t, "merging")
        /\ UNCHANGED <<gateIter, reviewIter>>
  /\ UNCHANGED <<tip, landed, bookkept, schedVars, runVars, endVars>>

\* Phase A under the merge lock: the second footprint check, then
\* squash_merge_with_evidence or squash_merge.
Merge(t) ==
  /\ pc[t] = "merging"
  /\ mergeLock' = Nobody
  /\ \/ /\ landed' = landed \cup {t}
        /\ IF Typed THEN Commit("landing", t) ELSE UNCHANGED tip
        /\ Goto(t, "landed")
        /\ UNCHANGED <<gateIter, reviewIter>>
     \/ /\ \/ Fire(t, "MergeConflict", "closeFailed")
           \/ Fire(t, "HardError", "closeErr")
        /\ UNCHANGED <<gateIter, reviewIter, tip, landed>>
     \/ Typed /\ SendBack(t) /\ UNCHANGED <<tip, landed>>
  /\ UNCHANGED <<bookkept, schedVars, runVars, endVars>>

\* Mutant: a failed Phase B is logged and the driver goes on.
PhaseBUnchecked(t) ==
  /\ Typed
  /\ pc[t] = "landed"
  /\ mergeLock = Nobody
  /\ Goto(t, "bookkept")
  /\ IF tip = [phase |-> "landing", task |-> t]
     THEN Commit("status", t) /\ bookkept' = bookkept \cup {t}
     ELSE UNCHANGED <<tip, bookkept>>
  /\ UNCHANGED <<gateIter, reviewIter, mergeLock, landed, schedVars, runVars, endVars>>

\* commit_phase_b under a second hold of the merge lock.  Its CAS expects the
\* task's own landing to be the tip still; anything else, or a git failure,
\* returns Err through `?` with the task in InReview.
PhaseB(t) ==
  /\ Typed
  /\ pc[t] = "landed"
  /\ mergeLock = Nobody
  /\ \/ /\ tip = [phase |-> "landing", task |-> t]
        /\ Commit("status", t)
        /\ bookkept' = bookkept \cup {t}
        /\ Goto(t, "bookkept")
     \/ /\ tip # [phase |-> "landing", task |-> t] \/ "git" \in Faults
        /\ Goto(t, "err")
        /\ UNCHANGED <<tip, bookkept>>
  /\ UNCHANGED <<gateIter, reviewIter, mergeLock, landed, schedVars, runVars, endVars>>

\* Mutant: the approval is recorded before the merge.
ApproveFirst(t) ==
  /\ \/ Typed /\ pc[t] = "landed" /\ Fire(t, "ReviewerApproved", "settle")
     \/ ~Typed /\ pc[t] = "approved" /\ Fire(t, "ReviewerApproved", "closeDone")
  /\ UNCHANGED <<gateIter, reviewIter, gitVars, schedVars, runVars, endVars>>

\* ReviewerApproved: after Phase B, or right after a graph-only merge.
Approve(t) ==
  /\ \/ Typed /\ pc[t] = "bookkept" /\ Fire(t, "ReviewerApproved", "settle")
     \/ ~Typed /\ pc[t] = "landed" /\ Fire(t, "ReviewerApproved", "closeDone")
  /\ UNCHANGED <<gateIter, reviewIter, gitVars, schedVars, runVars, endVars>>

\* The check after the Done checkpoint: a cancelled driver puts the task back
\* to InReview and returns Err.
SettleDone(t) ==
  /\ pc[t] = "settle"
  /\ IF cancel
     THEN /\ state' = [state EXCEPT ![t] = "InReview"]
          /\ pc' = [pc EXCEPT ![t] = "err"]
     ELSE Goto(t, "closeDone")
  /\ UNCHANGED <<gateIter, reviewIter, gitVars, schedVars, runVars, endVars>>

\* The awaits after the last transition: persist and remove_worktree.
Close(t) ==
  /\ \/ pc[t] = "closeDone"   /\ Goto(t, "okDone")
     \/ pc[t] = "closeFailed" /\ Goto(t, "okFailed")
     \/ pc[t] = "closeErr"    /\ Goto(t, "err")
  /\ UNCHANGED <<gateIter, reviewIter, gitVars, schedVars, runVars, endVars>>

DriverStep(t) ==
  \/ Claim(t) \/ CreateWorktree(t) \/ DevelopTurn(t) \/ RunGates(t)
  \/ GateCapReached(t) \/ ReviewTurn(t) \/ AcquireMergeLock(t) \/ Merge(t)
  \/ PhaseB(t) \/ Approve(t) \/ SettleDone(t) \/ Close(t)

\* The driver future is dropped or unwinds at an await.  What an interrupted
\* git command had already done is the step before the drop.
Drop(t, outcome) ==
  /\ Running(t)
  /\ Goto(t, outcome)
  /\ ReleaseLock(t)
  /\ UNCHANGED <<gateIter, reviewIter, tip, landed, bookkept, schedVars, runVars, endVars>>

Abort(t)   == abortAll /\ Drop(t, "aborted")
Timeout(t) == "wallclock" \in Faults /\ Drop(t, "timedOut")
Panic(t)   == "panic" \in Faults /\ Drop(t, "panicked")

-----------------------------------------------------------------------------
(* scheduler.                                                              *)

\* The top of the loop: the cancel check, then the one read of the pause flag
\* that decides whether this round fills.
LoopTop ==
  /\ sched = "top"
  /\ LET aborting == cancel /\ ~stopLaunching IN
     /\ stopLaunching' = (stopLaunching \/ aborting)
     /\ abortAll' = (abortAll \/ aborting)
     /\ sched' = IF ~stopLaunching' /\ ~pause THEN "fill" ELSE "enter"
  /\ UNCHANGED <<taskVars, pc, gitVars, inFlight, fatal, launched, runVars, endVars>>

\* One turn of the fill loop: take a permit, pick a ready task, advance it to
\* Ready and spawn its driver.
Launch(t) ==
  /\ sched = "fill"
  /\ HasPermit
  /\ NextReady(t)
  /\ state' = [state EXCEPT ![t] = After(@, "DependenciesSatisfied")]
  /\ pc' = [pc EXCEPT ![t] = IF Typed THEN "claim" ELSE "worktree"]
  /\ inFlight' = inFlight \cup {t}
  /\ launched' = launched \cup {t}
  /\ UNCHANGED <<gateIter, reviewIter, gitVars, sched, stopLaunching, abortAll, fatal,
                 runVars, endVars>>

\* No permit or no ready task.
StopFilling ==
  /\ sched = "fill"
  /\ ~HasPermit \/ \A t \in Tasks : ~NextReady(t)
  /\ sched' = "enter"
  /\ UNCHANGED <<taskVars, pc, gitVars, inFlight, stopLaunching, abortAll, fatal, launched,
                 runVars, endVars>>

\* Mutant: the cancel arm stays armed once the token is cancelled.
EnterWaitArmed ==
  /\ sched = "enter"
  /\ sched' = IF JoinSetEmpty THEN "integrate" ELSE "waitArmed"
  /\ UNCHANGED <<taskVars, pc, gitVars, inFlight, stopLaunching, abortAll, fatal, launched,
                 runVars, endVars>>

\* An empty JoinSet ends the loop.  Otherwise the select is entered, with its
\* cancel arm disabled when the token is cancelled already.
EnterWait ==
  /\ sched = "enter"
  /\ sched' = IF JoinSetEmpty THEN "integrate" ELSE IF cancel THEN "waitJoin" ELSE "waitArmed"
  /\ UNCHANGED <<taskVars, pc, gitVars, inFlight, stopLaunching, abortAll, fatal, launched,
                 runVars, endVars>>

\* The biased select takes the cancel arm first.
WakeOnCancel ==
  /\ sched = "waitArmed"
  /\ cancel
  /\ sched' = "top"
  /\ UNCHANGED <<taskVars, pc, gitVars, inFlight, stopLaunching, abortAll, fatal, launched,
                 runVars, endVars>>

\* join_next hands over t, whose future ended as outcome.
Joins(t, outcome) ==
  /\ sched = "waitJoin" \/ (sched = "waitArmed" /\ ~cancel)
  /\ pc[t] = outcome
  /\ pc' = [pc EXCEPT ![t] = "idle"]
  /\ sched' = "top"

JoinDone(t) ==
  /\ Joins(t, "okDone")
  /\ inFlight' = inFlight \ {t}
  /\ UNCHANGED <<taskVars, gitVars, stopLaunching, abortAll, fatal, launched, runVars, endVars>>

\* A cap was reached, or a merge conflicted: Ok(Failed).
JoinFailed(t) ==
  /\ Joins(t, "okFailed")
  /\ inFlight' = inFlight \ {t}
  /\ state' = SkipDependents(state, t)
  /\ UNCHANGED <<gateIter, reviewIter, gitVars, stopLaunching, abortAll, fatal, launched,
                 runVars, endVars>>

\* Err(e): the task is settled, its dependents skipped.
JoinErr(t) ==
  /\ Joins(t, "err")
  /\ inFlight' = inFlight \ {t}
  /\ state' = SkipDependents([state EXCEPT ![t] = Settle(@, cancel)], t)
  /\ UNCHANGED <<gateIter, reviewIter, gitVars, stopLaunching, abortAll, fatal, launched,
                 runVars, endVars>>

\* Mutant: the timeout wins over whatever the driver had reached.
JoinTimedOutForced(t) ==
  /\ Joins(t, "timedOut")
  /\ inFlight' = inFlight \ {t}
  /\ state' = SkipDependents([state EXCEPT ![t] = "Failed"], t)
  /\ UNCHANGED <<gateIter, reviewIter, gitVars, stopLaunching, abortAll, fatal, launched,
                 runVars, endVars>>

\* The wall clock elapsed.  A task it finds settled keeps its state.
JoinTimedOut(t) ==
  /\ Joins(t, "timedOut")
  /\ inFlight' = inFlight \ {t}
  /\ state' = SkipDependents([state EXCEPT ![t] = After(@, "WallClockCapReached")], t)
  /\ UNCHANGED <<gateIter, reviewIter, gitVars, stopLaunching, abortAll, fatal, launched,
                 runVars, endVars>>

\* A cancelled join records nothing; a panic is fatal to the run.
JoinAborted(t) ==
  /\ Joins(t, "aborted")
  /\ UNCHANGED <<taskVars, gitVars, inFlight, stopLaunching, abortAll, fatal, launched,
                 runVars, endVars>>

JoinPanicked(t) ==
  /\ Joins(t, "panicked")
  /\ fatal' = TRUE
  /\ stopLaunching' = TRUE
  /\ UNCHANGED <<taskVars, gitVars, inFlight, abortAll, launched, runVars, endVars>>

Join(t) ==
  \/ JoinDone(t) \/ JoinFailed(t) \/ JoinErr(t)
  \/ JoinTimedOut(t) \/ JoinAborted(t) \/ JoinPanicked(t)

\* After the loop: the final merge of a graph-only run, or Phase P of a typed
\* one.  It needs a scheduler result and a Completed aggregate, and may fail.
Integrate ==
  /\ sched = "integrate"
  /\ sched' = "publish"
  /\ IF ~fatal /\ AggregateStatus = "Completed"
     THEN integrated' \in {integrated, TRUE}
     ELSE UNCHANGED integrated
  /\ UNCHANGED <<taskVars, pc, gitVars, inFlight, stopLaunching, abortAll, fatal, launched,
                 runVars, published, reruns>>

\* The aggregate status, unless the caller owns it.
Publish ==
  /\ sched = "publish"
  /\ sched' = "done"
  /\ published' = IF ~cancel /\ ~pause THEN AggregateStatus ELSE published
  /\ UNCHANGED <<taskVars, pc, gitVars, inFlight, stopLaunching, abortAll, fatal, launched,
                 runVars, integrated, reruns>>

SchedulerStep ==
  \/ LoopTop \/ StopFilling \/ EnterWait \/ WakeOnCancel \/ Integrate \/ Publish
  \/ \E t \in Tasks : Launch(t) \/ Join(t)

-----------------------------------------------------------------------------
(* The environment: commands, and the disk.                                *)

\* cancel_run; pause_run; start_run on a paused run whose scheduler still
\* drains, which cancels that scheduler and joins it first.
Cancel ==
  /\ "cancel" \in Faults
  /\ sched # "done"
  /\ ~cancel
  /\ cancel' = TRUE
  /\ pause' = FALSE
  /\ UNCHANGED <<taskVars, pc, gitVars, schedVars, endVars>>

Pause ==
  /\ "pause" \in Faults
  /\ sched # "done"
  /\ ~cancel /\ ~pause
  /\ pause' = TRUE
  /\ UNCHANGED <<taskVars, pc, gitVars, schedVars, cancel, endVars>>

SupersedePaused ==
  /\ sched # "done"
  /\ pause /\ ~cancel
  /\ cancel' = TRUE
  /\ UNCHANGED <<taskVars, pc, gitVars, schedVars, pause, endVars>>

\* A checkpoint write of a typed run fails (fail_for_persistence): every write
\* follows a step of the scheduler or of a driver.
PersistFails ==
  /\ Typed
  /\ "persist" \in Faults
  /\ sched # "done"
  /\ ~cancel
  /\ cancel' = TRUE
  /\ state' = [t \in Tasks |-> IF state[t] \in ActiveStates THEN "Failed" ELSE state[t]]
  /\ UNCHANGED <<gateIter, reviewIter, pc, gitVars, schedVars, pause, endVars>>

\* A fresh scheduler over the graph st: new control, new semaphore, new sets.
Respawn(st) ==
  /\ sched = "done"
  /\ reruns < MaxReruns
  /\ state' = st
  /\ sched' = "top"
  /\ inFlight' = {}
  /\ stopLaunching' = FALSE
  /\ abortAll' = FALSE
  /\ fatal' = FALSE
  /\ launched' = {}
  /\ cancel' = FALSE
  /\ pause' = FALSE
  /\ published' = "Running"
  /\ reruns' = reruns + 1
  /\ UNCHANGED <<pc, gitVars, integrated>>

\* start_run on a paused run.
Resume ==
  /\ pause
  /\ Respawn(state)
  /\ UNCHANGED <<gateIter, reviewIter>>

\* retry_impl: one failed task or all of them, with a fresh budget; then the
\* dependents they alone had skipped, then readiness.
Retry(reset) ==
  /\ reset # {}
  /\ LET failed == {t \in Tasks : state[t] = "Failed"} IN
     reset = failed \/ (reset \subseteq failed /\ Cardinality(reset) = 1)
  /\ LET again   == [t \in Tasks |-> IF t \in reset THEN After(state[t], "RetryRequested")
                                     ELSE state[t]]
         revived == Revived(again, reset)
     IN Respawn(RemarkReady(
          [t \in Tasks |-> IF t \in revived THEN After(again[t], "DependencyReset")
                           ELSE again[t]]))
  /\ gateIter' = [t \in Tasks |-> IF t \in reset THEN 0 ELSE gateIter[t]]
  /\ reviewIter' = [t \in Tasks |-> IF t \in reset THEN 0 ELSE reviewIter[t]]

\* A run that has ended stays as it is.
Ended ==
  /\ sched = "done"
  /\ UNCHANGED vars

Next ==
  \/ SchedulerStep
  \/ \E t \in Tasks : DriverStep(t) \/ Abort(t) \/ Timeout(t) \/ Panic(t)
  \/ Cancel \/ Pause \/ SupersedePaused \/ PersistFails
  \/ Resume
  \/ \E reset \in SUBSET Tasks : Retry(reset)
  \/ Ended

Spec == Init /\ [][Next]_vars

\* The scheduler task is polled, every agent turn and command ends (the idle
\* timeout and the wall clock bound them), an aborted future is dropped.
Fairness ==
  /\ WF_vars(SchedulerStep)
  /\ \A t \in Tasks : WF_vars(DriverStep(t)) /\ WF_vars(Abort(t))

FairSpec == Spec /\ Fairness

-----------------------------------------------------------------------------
(* Properties.                                                             *)

TaskTypes ==
  /\ state \in [Tasks -> TaskStates]
  /\ gateIter \in [Tasks -> Nat]
  /\ reviewIter \in [Tasks -> Nat]
  /\ pc \in [Tasks -> PCs]

GitTypes ==
  /\ mergeLock \in Tasks \cup {Nobody}
  /\ tip \in Commits
  /\ landed \in SUBSET Tasks
  /\ bookkept \in SUBSET Tasks

SchedTypes ==
  /\ sched \in SchedPCs
  /\ inFlight \in SUBSET Tasks
  /\ launched \in SUBSET Tasks
  /\ stopLaunching \in BOOLEAN
  /\ abortAll \in BOOLEAN
  /\ fatal \in BOOLEAN

RunTypes ==
  /\ cancel \in BOOLEAN
  /\ pause \in BOOLEAN
  /\ integrated \in BOOLEAN
  /\ published \in {"Running", "Completed", "Failed"}
  /\ reruns \in 0 .. MaxReruns

\* Every variable keeps its type, through every interruption.
TypeOK == TaskTypes /\ GitTypes /\ SchedTypes /\ RunTypes

\* A task is worked on only while all its prerequisites are on the integration
\* branch, in a typed run with their Phase-B record: its worktree forks from it.
PrerequisitesLanded ==
  \A t \in Tasks : Running(t) =>
    \A d \in DependsOn[t] : d \in landed /\ (Typed => d \in bookkept)

\* A task shows Done only when its work is on the integration branch and, in a
\* typed run, recorded there; an integrated run has all of them.
DoneIsLanded ==
  /\ \A t \in Tasks : state[t] = "Done" => t \in landed /\ (Typed => t \in bookkept)
  /\ integrated => landed = Tasks

\* A task is Skipped only behind a prerequisite that failed or was skipped
\* itself (the TaskState::Skipped doc of task.rs).
SkippedBehindFailure ==
  \A t \in Tasks : state[t] = "Skipped" =>
    \E d \in DependsOn[t] : state[d] \in {"Failed", "Skipped"}

\* A run that ended by itself leaves no task of its own unsettled, and none it
\* could still have started or should have skipped: whatever waits may not be
\* dispatched, or waits for a task that is unsettled or that an earlier,
\* interrupted run of the graph failed (settle_driver_error_locked's doc).
UndisturbedEnd == sched = "done" /\ ~cancel /\ ~pause /\ ~fatal

NoTaskStranded ==
  UndisturbedEnd =>
    \A t \in Tasks :
      \/ IsTerminal(state[t])
      \/ /\ t \notin launched
         /\ \/ ~Dispatchable(t)
            \/ state[t] \in {"InProgress", "InReview"}
            \/ \E d \in DependsOn[t] :
                 state[d] \notin SettledStates \/ (state[d] = "Failed" /\ d \notin launched)

\* The merge lock is held by the driver inside Phase A and by no other: no
\* abort, timeout, panic or correction leaks it.
MergeLockOwned ==
  \A t \in Tasks : pc[t] = "merging" <=> mergeLock = t

\* Work in progress never exceeds the permits, nor a task its budgets.
WithinLimits ==
  /\ Cardinality(RunningTasks) <= Concurrency
  /\ \A t \in Tasks :
       /\ pc[t] \in {"claim", "worktree", "develop", "gates"} => gateIter[t] < GateCap
       /\ pc[t] \in {"develop", "gates", "review", "approved", "merging"}
            => reviewIter[t] < ReviewCap

\* One scheduler launches a task at most once, and never while a driver of an
\* earlier launch is still held by the JoinSet.
LaunchedOnce ==
  [][\A t \in Tasks : Launch(t) => t \notin launched /\ pc[t] = "idle"]_vars

\* Done is final: no late timeout, error or failed neighbour undoes it.  Only
\* the task's own driver, cancelled before it settled, takes it back.
DoneIsFinal ==
  [][\A t \in Tasks : state[t] = "Done" =>
       state'[t] = "Done" \/ (cancel /\ pc[t] = "settle")]_vars

\* What the run shows of a task.  A task a scheduler was given Ready waits
\* until that scheduler launches it.
Column(t) ==
  CASE state[t] = "Done"    -> "done"
    [] state[t] = "Failed"  -> "failed"
    [] state[t] = "Skipped" -> "skipped"
    [] state[t] = "New"     -> "waiting"
    [] state[t] = "Ready" /\ t \notin inFlight -> "waiting"
    [] OTHER -> "running"

Board == INSTANCE PlanBoard WITH board <- [t \in Tasks |-> Column(t)]

\* A graph-only run keeps the promises of PlanBoard.
BoardSpec == Board!Spec

\* Landed work is never written off: between Phase A and Phase B a task keeps
\* its InReview boundary, whatever error its driver meets ("From this point any
\* error must retain the task workspace and runtime InReview for exact-B
\* recovery", supervisor.rs).
LandingRetained ==
  Typed => \A t \in landed \ bookkept : state[t] = "InReview"

\* Every run ends.
RunEnds == <>(sched = "done")
=============================================================================
