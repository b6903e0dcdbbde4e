----------------------------- MODULE RunControl -----------------------------
(***************************************************************************)
(* The lifecycle commands of CoreApi (orchestrator.rs): start, pause,      *)
(* cancel, retry and reset of the open runs of one repository, and the     *)
(* background schedulers they spawn, join and cancel.                      *)
(*                                                                         *)
(* Three locks.  The registry mutex is never held across an await: each    *)
(* action below is one of its critical sections.  lifecycle_lock is an     *)
(* async mutex that some commands hold across awaits.  The repository      *)
(* lease (RepositoryLease.tla) passes from a command to its scheduler.     *)
(*                                                                         *)
(* A scheduler is named after the command that spawned it.  What it does   *)
(* in between (Scheduler.tla) is one step here: it ends.                   *)
(***************************************************************************)
EXTENDS Naturals, FiniteSets

CONSTANTS
  Runs,
  Commands,  \* the calls of Api::execute; each is made once (the bound)
  Mixes,     \* the mixes of commands of this instance
  Faults,    \* "io": the lease, reconciliation or a reset fails, or a retry
             \* has nothing to do; "publish": a cancellation cannot be
             \* committed to the plan
  Nobody,
  NoHandle

CommandKinds == {"start", "pause", "cancel", "retry", "reset"}

ASSUME ControlAssumption ==
  /\ Mixes \subseteq [Commands -> [kind : CommandKinds, run : Runs]]
  /\ Faults \subseteq {"io", "publish"}
  /\ Nobody \notin Commands

VARIABLES
  status,       \* RunEntry::status, per run
  handle,       \* RunEntry::handle, per run
  generation,   \* RunEntry::scheduler_generation, per run
  cancelError,  \* RunEntry::cancellation_status_error.is_some(), per run
  lifecycle,    \* the command that holds CoreState::lifecycle_lock
  lease,        \* the command that holds the lease, itself or its scheduler
  cancelled,    \* the CancellationTokens that are cancelled
  pc,           \* where each command stands
  request,      \* the kind and the run of each command
  restore,      \* StartWaitingGuard::restore_status
  epoch,        \* the generation a command works for
  joins,        \* the scheduler whose JoinHandle the command took
  sched         \* where the scheduler of each command stands

registry == <<status, handle, generation, cancelError>>
locks == <<lifecycle, lease>>
locals == <<request, restore, epoch, joins>>
vars == <<registry, locks, cancelled, pc, locals, sched>>

Statuses == {"Pending", "Waiting", "Running", "Paused", "Completed", "Failed"}

\* RunHandle: its token belongs to the wait for the lease or to the scheduler
\* of the command that installed it.
Handles == [gen : Nat, token : {"lease", "run"} \X Commands, joined : BOOLEAN]

ASSUME HandleAssumption == NoHandle \notin Handles

RunOf(c) == request[c].run

\* A command between its admission and the end of its StartWaitingGuard.
Guarded == {"join", "acquire", "relock", "reconcile", "install", "spawn",
            "store", "unwind", "restore"}

Cancelling == {"cancelJoin"}
Resetting == {"resetJoin", "resetAcquire", "rebuild"}
Ended == {"done", "unpublished"}
PCs == {"idle", "lock"} \cup Guarded \cup Cancelling \cup Resetting \cup Ended

\* A scheduler that may still work on the repository or finalize its run.
Alive == {"running", "publish", "finalize", "write", "release"}

Init ==
  /\ status = [r \in Runs |-> "Pending"]
  /\ handle = [r \in Runs |-> NoHandle]
  /\ generation = [r \in Runs |-> 0]
  /\ cancelError = [r \in Runs |-> FALSE]
  /\ lifecycle = Nobody
  /\ lease = Nobody
  /\ cancelled = {}
  /\ pc = [c \in Commands |-> "idle"]
  /\ request \in Mixes
  /\ restore = [c \in Commands |-> "Pending"]
  /\ epoch = [c \in Commands |-> 0]
  /\ joins = [c \in Commands |-> Nobody]
  /\ sched = [c \in Commands |-> "none"]

Goto(c, next) == pc' = [pc EXCEPT ![c] = next]

SetStatus(r, s) == status' = [status EXCEPT ![r] = s]

-----------------------------------------------------------------------------
(* Handles, joins and the lifecycle lock.                                  *)

\* The scheduler whose JoinHandle is stored with the run.
Scheduler(r) ==
  IF handle[r] # NoHandle /\ handle[r].joined THEN handle[r].token[2] ELSE Nobody

CancelToken(r) ==
  cancelled' = cancelled \cup (IF handle[r] = NoHandle THEN {} ELSE {handle[r].token})

\* Mutant: a handle that nothing replaces is cancelled where it stands.
CancelInPlace(c, r, h) ==
  /\ handle' = [handle EXCEPT ![r] = IF h = NoHandle THEN @ ELSE h]
  /\ CancelToken(r)
  /\ joins' = [joins EXCEPT ![c] = Scheduler(r)]

\* handle.take(), its token cancelled and its JoinHandle kept; h replaces it.
TakeHandle(c, r, h) ==
  /\ handle' = [handle EXCEPT ![r] = h]
  /\ CancelToken(r)
  /\ joins' = [joins EXCEPT ![c] = Scheduler(r)]

\* The JoinHandle the command took, if any, has resolved.
Joined(c) == joins[c] # Nobody => sched[joins[c]] = "ended"

AtLock(c, k) ==
  /\ pc[c] = "lock"
  /\ request[c].kind = k
  /\ lifecycle = Nobody

Startable == {"Pending", "Paused"}
Retryable == {"Failed", "Paused", "Completed"}

Bump(r) == generation' = [generation EXCEPT ![r] = @ + 1]

Issue(c) ==
  /\ pc[c] = "idle"
  /\ Goto(c, "lock")
  /\ UNCHANGED <<registry, locks, cancelled, locals, sched>>

\* The status does not allow the command: InvalidCommand.
Reject(c) ==
  /\ \/ AtLock(c, "start") /\ status[RunOf(c)] \notin Startable
     \/ AtLock(c, "retry") /\ status[RunOf(c)] \notin Retryable
     \/ AtLock(c, "pause") /\ status[RunOf(c)] \notin {"Pending", "Running"}
     \/ AtLock(c, "pause") /\ status[RunOf(c)] = "Running" /\ handle[RunOf(c)] = NoHandle
     \/ AtLock(c, "reset") /\ status[RunOf(c)] = "Running"
  /\ Goto(c, "done")
  /\ UNCHANGED <<registry, locks, cancelled, locals, sched>>

\* The scheduler stops launching: when it ends is left open either way.
Pause(c) ==
  /\ AtLock(c, "pause")
  /\ \/ status[RunOf(c)] = "Pending"
     \/ status[RunOf(c)] = "Running" /\ handle[RunOf(c)] # NoHandle
  /\ SetStatus(RunOf(c), "Paused")
  /\ Goto(c, "done")
  /\ UNCHANGED <<handle, generation, cancelError, locks, cancelled, locals, sched>>

-----------------------------------------------------------------------------
(* start_run and retry_impl.                                               *)

Waiting(c, gen) == [gen |-> gen, token |-> <<"lease", c>>, joined |-> FALSE]

Remember(c, r) == restore' = [restore EXCEPT ![c] = status[r]]

\* First section of start_run: the handle of the wait shares the generation
\* of the scheduler it supersedes.
AdmitStart(c) ==
  LET r == RunOf(c) IN
  /\ AtLock(c, "start")
  /\ status[r] \in Startable
  /\ TakeHandle(c, r, Waiting(c, generation[r]))
  /\ SetStatus(r, "Waiting")
  /\ Remember(c, r)
  /\ Goto(c, "join")
  /\ UNCHANGED <<generation, cancelError, locks, request, epoch, sched>>

\* First section of retry_impl: a generation of its own.
AdmitRetry(c) ==
  LET r == RunOf(c) IN
  /\ AtLock(c, "retry")
  /\ status[r] \in Retryable
  /\ TakeHandle(c, r, Waiting(c, generation[r] + 1))
  /\ Bump(r)
  /\ epoch' = [epoch EXCEPT ![c] = generation[r] + 1]
  /\ SetStatus(r, "Waiting")
  /\ Remember(c, r)
  /\ Goto(c, "join")
  /\ UNCHANGED <<cancelError, locks, request, sched>>

\* owner_for failed after the handle was taken: its JoinHandle is dropped.
AdmitFails(c) ==
  LET r == RunOf(c) IN
  /\ "io" \in Faults
  /\ \/ AtLock(c, "start") /\ status[r] \in Startable /\ UNCHANGED generation
     \/ AtLock(c, "retry") /\ status[r] \in Retryable /\ Bump(r)
  /\ TakeHandle(c, r, NoHandle)
  /\ Goto(c, "done")
  /\ UNCHANGED <<status, cancelError, locks, request, restore, epoch, sched>>

JoinPrior(c) ==
  /\ pc[c] = "join"
  /\ Joined(c)
  /\ Goto(c, "acquire")
  /\ UNCHANGED <<registry, locks, cancelled, locals, sched>>

Acquire(c) ==
  /\ pc[c] = "acquire"
  /\ lease = Nobody
  /\ lease' = c
  /\ Goto(c, "relock")
  /\ UNCHANGED <<registry, lifecycle, cancelled, locals, sched>>

\* The wait was cancelled: `?`.
AcquireCancelled(c) ==
  /\ pc[c] = "acquire"
  /\ <<"lease", c>> \in cancelled
  /\ Goto(c, "restore")
  /\ UNCHANGED <<registry, locks, cancelled, locals, sched>>

\* The lock file failed: `?`.
AcquireFails(c) ==
  /\ pc[c] = "acquire"
  /\ "io" \in Faults
  /\ Goto(c, "restore")
  /\ UNCHANGED <<registry, locks, cancelled, locals, sched>>

Relock(c) ==
  /\ pc[c] = "relock"
  /\ lifecycle = Nobody
  /\ lifecycle' = c
  /\ Goto(c, "reconcile")
  /\ UNCHANGED <<registry, lease, cancelled, locals, sched>>

\* reconcile_run_under_repository_lease, the ingestion report and the targets
\* of a retry; the lifecycle lock is the first guard to be dropped.
Reconcile(c) ==
  /\ pc[c] = "reconcile"
  /\ \/ Goto(c, "install") /\ UNCHANGED lifecycle
     \/ /\ "io" \in Faults
        /\ lifecycle' = Nobody
        /\ Goto(c, "unwind")
  /\ UNCHANGED <<registry, lease, cancelled, locals, sched>>

Launched(c, gen) == [gen |-> gen, token |-> <<"run", c>>, joined |-> FALSE]

InstallStart(c) ==
  LET r == RunOf(c) IN
  /\ pc[c] = "install"
  /\ request[c].kind = "start"
  /\ status[r] = "Waiting"
  /\ TakeHandle(c, r, Launched(c, generation[r] + 1))
  /\ Bump(r)
  /\ epoch' = [epoch EXCEPT ![c] = generation[r] + 1]
  /\ SetStatus(r, "Running")
  /\ Goto(c, "spawn")
  /\ UNCHANGED <<cancelError, locks, request, restore, sched>>

\* Another command has moved the run on since this one began to wait.
Overtaken(c) ==
  /\ pc[c] = "install"
  /\ request[c].kind = "start"
  /\ status[RunOf(c)] # "Waiting"
  /\ lifecycle' = Nobody
  /\ Goto(c, "unwind")
  /\ UNCHANGED <<registry, lease, cancelled, locals, sched>>

\* retry_impl looks at neither the status nor the generation again.
InstallRetry(c) ==
  LET r == RunOf(c) IN
  /\ pc[c] = "install"
  /\ request[c].kind = "retry"
  /\ handle' = [handle EXCEPT ![r] = Launched(c, epoch[c])]
  /\ SetStatus(r, "Running")
  /\ Goto(c, "spawn")
  /\ UNCHANGED <<generation, cancelError, locks, cancelled, locals, sched>>

\* Mutant: the lease guard stays with the command and is dropped with it.
SpawnUnleased(c) ==
  /\ pc[c] = "spawn"
  /\ Joined(c)
  /\ sched' = [sched EXCEPT ![c] = "running"]
  /\ lease' = Nobody
  /\ Goto(c, "store")
  /\ UNCHANGED <<registry, lifecycle, cancelled, locals>>

\* tokio::spawn: the lease moves into the task.
Spawn(c) ==
  /\ pc[c] = "spawn"
  /\ Joined(c)
  /\ sched' = [sched EXCEPT ![c] = "running"]
  /\ Goto(c, "store")
  /\ UNCHANGED <<registry, locks, cancelled, locals>>

\* The entry still names the generation of the command.
Owns(c) ==
  LET r == RunOf(c) IN
  /\ generation[r] = epoch[c]
  /\ handle[r] # NoHandle
  /\ handle[r].gen = epoch[c]

StoreJoin(c) ==
  /\ pc[c] = "store"
  /\ handle' = IF Owns(c) THEN [handle EXCEPT ![RunOf(c)].joined = TRUE] ELSE handle
  /\ lifecycle' = Nobody
  /\ Goto(c, "restore")
  /\ UNCHANGED <<status, generation, cancelError, lease, cancelled, locals, sched>>

\* Mutant: a command that failed keeps the lease.
UnwindLeaky(c) ==
  /\ pc[c] = "unwind"
  /\ Goto(c, "restore")
  /\ UNCHANGED <<registry, locks, cancelled, locals, sched>>

\* The lease guard of a command that failed is dropped.
Unwind(c) ==
  /\ pc[c] = "unwind"
  /\ lease' = Nobody
  /\ Goto(c, "restore")
  /\ UNCHANGED <<registry, lifecycle, cancelled, locals, sched>>

\* Mutant: the guard restores only what its own command installed.
RestoreOwn(c) ==
  LET r == RunOf(c) IN
  /\ pc[c] = "restore"
  /\ IF /\ status[r] = "Waiting"
        /\ handle[r] # NoHandle /\ handle[r].token = <<"lease", c>>
     THEN SetStatus(r, restore[c]) /\ handle' = [handle EXCEPT ![r] = NoHandle]
     ELSE UNCHANGED <<status, handle>>
  /\ Goto(c, "done")
  /\ UNCHANGED <<generation, cancelError, locks, cancelled, locals, sched>>

\* StartWaitingGuard::drop: whichever command made the run wait.
Restore(c) ==
  LET r == RunOf(c) IN
  /\ pc[c] = "restore"
  /\ IF status[r] = "Waiting"
     THEN SetStatus(r, restore[c]) /\ handle' = [handle EXCEPT ![r] = NoHandle]
     ELSE UNCHANGED <<status, handle>>
  /\ Goto(c, "done")
  /\ UNCHANGED <<generation, cancelError, locks, cancelled, locals, sched>>

-----------------------------------------------------------------------------
(* cancel_run and reset_run: the lifecycle lock is held to the end.        *)

AdmitCancel(c) ==
  /\ AtLock(c, "cancel")
  /\ lifecycle' = c
  /\ TakeHandle(c, RunOf(c), NoHandle)
  /\ Goto(c, "cancelJoin")
  /\ UNCHANGED <<status, generation, cancelError, lease, request, restore, epoch, sched>>

EndCancel(c) ==
  LET r == RunOf(c) IN
  /\ pc[c] = "cancelJoin"
  /\ Joined(c)
  /\ lifecycle' = Nobody
  /\ IF cancelError[r]
     THEN /\ cancelError' = [cancelError EXCEPT ![r] = FALSE]
          /\ Goto(c, "unpublished")
          /\ UNCHANGED <<status, generation>>
     ELSE /\ SetStatus(r, "Failed")
          /\ Bump(r)
          /\ Goto(c, "done")
          /\ UNCHANGED cancelError
  /\ UNCHANGED <<handle, lease, cancelled, locals, sched>>

AdmitReset(c) ==
  LET r == RunOf(c) IN
  /\ AtLock(c, "reset")
  /\ status[r] # "Running"
  /\ lifecycle' = c
  /\ TakeHandle(c, r, NoHandle)
  /\ Bump(r)
  /\ Goto(c, "resetJoin")
  /\ UNCHANGED <<status, cancelError, lease, request, restore, epoch, sched>>

ResetJoined(c) ==
  LET r == RunOf(c) IN
  /\ pc[c] = "resetJoin"
  /\ Joined(c)
  /\ IF cancelError[r]
     THEN lifecycle' = Nobody /\ Goto(c, "unpublished")
     ELSE UNCHANGED lifecycle /\ Goto(c, "resetAcquire")
  /\ cancelError' = [cancelError EXCEPT ![r] = FALSE]
  /\ UNCHANGED <<status, handle, generation, lease, cancelled, locals, sched>>

\* Mutant: a reset does not wait for the lease.
ResetAtOnce(c) ==
  /\ pc[c] = "resetAcquire"
  /\ Goto(c, "rebuild")
  /\ UNCHANGED <<registry, locks, cancelled, locals, sched>>

\* With a token that nobody cancels.
ResetAcquire(c) ==
  /\ pc[c] = "resetAcquire"
  /\ lease = Nobody
  /\ lease' = c
  /\ Goto(c, "rebuild")
  /\ UNCHANGED <<registry, lifecycle, cancelled, locals, sched>>

\* The lock file failed.
ResetFails(c) ==
  /\ pc[c] = "resetAcquire"
  /\ "io" \in Faults
  /\ lifecycle' = Nobody
  /\ Goto(c, "done")
  /\ UNCHANGED <<registry, lease, cancelled, locals, sched>>

\* The worktrees and the plan branch are removed and the plan is read anew,
\* or one of the steps fails; both guards are dropped.
EndReset(c) ==
  LET r == RunOf(c) IN
  /\ pc[c] = "rebuild"
  /\ \/ SetStatus(r, "Pending") /\ handle' = [handle EXCEPT ![r] = NoHandle]
     \/ "io" \in Faults /\ UNCHANGED <<status, handle>>
  /\ lease' = Nobody
  /\ lifecycle' = Nobody
  /\ Goto(c, "done")
  /\ UNCHANGED <<generation, cancelError, cancelled, locals, sched>>

-----------------------------------------------------------------------------
(* The background task of spawn_run_scheduler.                             *)

MoveSched(c, next) == sched' = [sched EXCEPT ![c] = next]

RunGraph(c) ==
  /\ sched[c] = "running"
  /\ MoveSched(c, IF <<"run", c>> \in cancelled THEN "publish" ELSE "finalize")
  /\ UNCHANGED <<registry, locks, cancelled, pc, locals>>

\* commit_authored_cancellation, while the lease is still held.
Publish(c) ==
  /\ sched[c] = "publish"
  /\ \/ UNCHANGED cancelError
     \/ "publish" \in Faults /\ cancelError' = [cancelError EXCEPT ![RunOf(c)] = TRUE]
  /\ MoveSched(c, "finalize")
  /\ UNCHANGED <<status, handle, generation, locks, cancelled, pc, locals>>

\* Mutant: a run whose JoinHandle is not stored yet is taken for superseded.
FinalizeJoined(c) ==
  /\ sched[c] = "finalize"
  /\ MoveSched(c, IF Owns(c) /\ handle[RunOf(c)].joined THEN "write" ELSE "release")
  /\ UNCHANGED <<registry, locks, cancelled, pc, locals>>

\* finalize_run_status, first section: superseded, cancelled or on its way.
Finalize(c) ==
  LET r == RunOf(c) IN
  /\ sched[c] = "finalize"
  /\ IF ~Owns(c)
     THEN MoveSched(c, "release") /\ UNCHANGED handle
     ELSE IF handle[r].token \in cancelled
     THEN MoveSched(c, "release") /\ handle' = [handle EXCEPT ![r] = NoHandle]
     ELSE MoveSched(c, "write") /\ UNCHANGED handle
  /\ UNCHANGED <<status, generation, cancelError, locks, cancelled, pc, locals>>

\* After the graph was read: the verdict on a run that is still Running.
FinalWrite(c) ==
  LET r == RunOf(c) IN
  /\ sched[c] = "write"
  /\ handle' = IF Owns(c) THEN [handle EXCEPT ![r] = NoHandle] ELSE handle
  /\ IF Owns(c) /\ status[r] = "Running"
     THEN \E s \in {"Completed", "Failed"} : SetStatus(r, s)
     ELSE UNCHANGED status
  /\ MoveSched(c, "release")
  /\ UNCHANGED <<generation, cancelError, locks, cancelled, pc, locals>>

\* The task's last local is the lease; then its JoinHandle resolves.
Release(c) ==
  /\ sched[c] = "release"
  /\ lease' = Nobody
  /\ MoveSched(c, "ended")
  /\ UNCHANGED <<registry, lifecycle, cancelled, pc, locals>>

-----------------------------------------------------------------------------
CommandStep(c) ==
  \/ Reject(c) \/ Pause(c)
  \/ AdmitStart(c) \/ AdmitRetry(c) \/ JoinPrior(c) \/ Acquire(c) \/ AcquireCancelled(c)
  \/ Relock(c) \/ Reconcile(c) \/ InstallStart(c) \/ Overtaken(c) \/ InstallRetry(c)
  \/ Spawn(c) \/ StoreJoin(c) \/ Unwind(c) \/ Restore(c)
  \/ AdmitCancel(c) \/ EndCancel(c)
  \/ AdmitReset(c) \/ ResetJoined(c) \/ ResetAcquire(c) \/ EndReset(c)

\* Nothing makes these happen.
CommandFails(c) == AdmitFails(c) \/ AcquireFails(c) \/ ResetFails(c)

SchedulerStep(c) ==
  RunGraph(c) \/ Publish(c) \/ Finalize(c) \/ FinalWrite(c) \/ Release(c)

Next ==
  \E c \in Commands : Issue(c) \/ CommandStep(c) \/ CommandFails(c) \/ SchedulerStep(c)

\* Every task the runtime can poll is polled; that a run ends is RunEnds of
\* Scheduler.tla.  Nothing makes a user issue a command.
Fairness ==
  \A c \in Commands : WF_vars(CommandStep(c)) /\ WF_vars(SchedulerStep(c))

Spec == Init /\ [][Next]_vars

FairSpec == Spec /\ Fairness

-----------------------------------------------------------------------------
(* Properties.                                                             *)

TypeOK ==
  /\ status \in [Runs -> Statuses]
  /\ handle \in [Runs -> Handles \cup {NoHandle}]
  /\ generation \in [Runs -> Nat]
  /\ cancelError \in [Runs -> BOOLEAN]
  /\ lifecycle \in Commands \cup {Nobody}
  /\ lease \in Commands \cup {Nobody}
  /\ cancelled \subseteq {"lease", "run"} \X Commands
  /\ pc \in [Commands -> PCs]
  /\ request \in [Commands -> [kind : CommandKinds, run : Runs]]
  /\ restore \in [Commands -> Statuses \ {"Waiting", "Running"}]
  /\ epoch \in [Commands -> Nat]
  /\ joins \in [Commands -> Commands \cup {Nobody}]
  /\ sched \in [Commands -> Alive \cup {"none", "ended"}]

\* The handle of r names a generation that the run has left behind.
Stale(r) == handle[r] # NoHandle /\ handle[r].gen # generation[r]

\* c will spawn, or has spawned, a scheduler that has not finalized yet.
Dispatching(c) == pc[c] = "spawn" \/ sched[c] \in {"running", "publish", "finalize", "write"}

\* A cancel of r is under way, or has answered that it was not persisted.
CancelPending(r) ==
  \E c \in Commands :
    /\ RunOf(c) = r
    /\ request[c].kind = "cancel"
    /\ pc[c] \in {"cancelJoin", "unpublished"}

\* A Running run is dispatched by the scheduler its handle names, which holds
\* the repository lease; unless a retry that was overtaken by a cancel
\* installed a stale handle (RunningIsDispatched), or a cancel is pending.
\* (start_run and retry_impl publish the handle and the status before the
\* spawn, and finalize_run_status withdraws them in two sections.)
RunningOwned ==
  \A r \in Runs : status[r] = "Running" =>
    \/ Stale(r)
    \/ handle[r] = NoHandle /\ CancelPending(r)
    \/ \E c \in Commands :
         /\ handle[r] # NoHandle
         /\ handle[r].token = <<"run", c>>
         /\ RunOf(c) = r
         /\ lease = c
         /\ Dispatching(c)

\* A run shown as waiting for the repository has a command that will start it
\* or restore its status, although guards act on whatever wait they find and
\* finalization may have taken the handle of the wait (StartWaitingGuard).
WaitingIsQueued ==
  \A r \in Runs : status[r] = "Waiting" =>
    \E c \in Commands : RunOf(c) = r /\ pc[c] \in Guarded

\* The handle in the registry is never one whose token is cancelled: whoever
\* cancels takes it first.  finalize_run_status has a branch for the contrary.
OnlyLiveHandles ==
  \A r \in Runs : handle[r] # NoHandle => handle[r].token \notin cancelled

\* While a reset removes worktrees and branches no scheduler of any run is
\* alive, and the run has no handle and is not Running (reset_run joins, then
\* acquires, under the lifecycle lock).
ResetAlone ==
  \A c \in Commands : pc[c] = "rebuild" =>
    /\ \A d \in Commands : sched[d] \notin Alive
    /\ handle[RunOf(c)] = NoHandle
    /\ status[RunOf(c)] # "Running"

\* A reset holds the lifecycle lock and waits for the lease, while a start or
\* a retry holds the lease and waits for the lifecycle lock.
Entangled ==
  \E c, d \in Commands :
    /\ lifecycle = c /\ pc[c] = "resetAcquire"
    /\ lease = d /\ pc[d] = "relock"

Underway(c) == pc[c] \notin {"idle"} \cup Ended

\* Every command is answered, whatever the others and the schedulers do,
\* unless the two locks are taken in opposite orders.
Answered ==
  \A c \in Commands : Underway(c) ~> (~Underway(c) \/ Entangled)

\* A Running run ends, is paused, or is left to a stale handle or to a cancel
\* that could not be persisted: finalize_run_status recognises its scheduler.
RunEnds ==
  \A r \in Runs : status[r] = "Running" ~>
    (status[r] # "Running" \/ Stale(r) \/ handle[r] = NoHandle)

\* api.rs:482, CancelRun: "Immediately cancel a Run, stopping all in-flight
\* agents and releasing resources."  A cancel is answered.
CancelAnswered ==
  \A c \in Commands :
    (request[c].kind = "cancel" /\ Underway(c)) ~> ~Underway(c)

\* api.rs:313, Running: "Actively running -- agents are being dispatched."
RunningIsDispatched ==
  \A r \in Runs : status[r] = "Running" =>
    \/ CancelPending(r)
    \/ \E c \in Commands : RunOf(c) = r /\ Dispatching(c)

\* orchestrator.rs:6274, cancel_run: "Runtime cancellation is persisted only
\* after worker quiescence."
CancelQuiesces ==
  [][\A c \in Commands :
       (pc[c] = "cancelJoin" /\ pc'[c] = "done") =>
         \A d \in Commands : RunOf(d) = RunOf(c) => sched[d] \notin {"running", "publish"}]_vars
=============================================================================
