# Makina in TLA+

Makina drives coding agents over a plan: a coordinator dispatches the plan's tasks, each in a worktree of its
own, and lands what they produce on a branch. These modules model the parts of `src/crates` where that can go
wrong: the scheduler and its drivers, the lease on the repository, the lifecycle commands, the evidence a plan
keeps of itself on its Git ref, the landing of a plan on its base branch, the contract server, the agent
sessions and the plan-authoring conversation. TLC checks them on small instances (`tlc -config X.cfg
MCModule`); TLAPS proves the theorems of the `*Proofs` modules for every value of the constants (`tlapm
M.tla`).

## 1. The system

| Component | State it keeps | Operations | Interacts through | What is hard | What makes it correct |
|---|---|---|---|---|---|
| Task state machine (`state_machine.rs`, `task.rs`) | `Task::state`, `gate_iterations`, `review_iterations` | `transition`, `legal_events`, `is_terminal` | called by `apply_event_locked`, retry, skip | every caller decides for itself what an illegal event means | Done is final, Skipped only behind a failure |
| Scheduler (`actors/supervisor.rs` 1581-1989) | `JoinSet`, `in_flight`, `stop_launching`, `fatal_error`, permits | launch, join, skip dependents, wall clock, `abort_all` | the shared graph, `RunControl`, driver futures | a finished future waits for its join while others run; a cancel is seen late; a timeout races the last step | a task starts only on landed prerequisites; nothing is stranded; every run ends |
| Task driver (2088-3062) | where it stands in claim, worktree, develop, gates, review, merge, Phase B | one step per await | graph lock (never held across an await), merge lock, plan ref | dropped at any await; errors returned through `?` | the merge lock does not leak; Done is landed and recorded |
| Repository lease (`repository_lease.rs`) | entry per process (owner, waiters, `changed`), lock file | `acquire`, `try_acquire`, guard drop, inherited descriptor | mutex, `Notify`, `flock` | check-then-wait; cancel races wake-up; orphaned Git children | one mutator; no stale ticket; fair; no waiter forgotten |
| Run control (`orchestrator.rs`) | handle per run: control token, scheduler join handle, lifecycle lock, checkpoint | `start_run`, `pause_run`, `cancel_run`, `retry*`, `reset*`, `reinterpret` | scheduler, lease, checkpoint, plan ref | commands during the wait for the lease; a paused scheduler that still drains | a command acts on the run it was issued for; one scheduler per run |
| Landing transactions (`landing.rs`, `merge.rs`) | the plan ref: registration, claim, landing (A), status (B), disposition; Phases P, F, C of the plan as a whole | `commit_claim`, `squash_merge_with_evidence`, `commit_status`, `inspect_task_evidence`, `find_*` | CAS on a Git ref, trailers in commit messages | a publication whose answer is lost; evidence superseded by later commits | at most one of each; what the evidence says is what happened |
| Checkpoints and reconciliation (`checkpoint.rs`, `plan_runtime.rs`) | run checkpoint with digests | atomic write, load, overlay, projection of authored seeds | start, resume | a checkpoint behind or ahead of Git | only what Git confirms is overlaid |
| Worktrees (`worktree.rs`) | directories, branches | create, remove, prune, adopt | driver, plan branch | leftovers of a crash | a task's work is not lost by cleanup |
| Gates and roles (`gate.rs`, `roles.rs`, `actors/*`) | none across calls | run a gate, run a turn with idle timeout | driver | the outcome only | |
| Plan documents (`plan.rs`, `plan_status.rs`, `dependency.rs`, ...) | none | parse, validate, render | digests, `depends_on` | pure functions | round trip, acyclicity |
| Plan contract server (`plan_contract.rs`) | one session with its lease, workers, Git children, sentinels, permits | start, begin and end of a worker, task operations, prepare, integrate, complete, close, recover | Unix socket, inherited lock | the server dies while its children run; a request is repeated because its answer was lost | nothing of one session runs beside another owner; a repeated request has one effect |
| Config, discovery, preflight, audit, log | files | load, validate | everything | | |
| ACP backend (`makina-acp`) | pending requests, notification channel, process group, reaper's registry | `connect`, `prompt`, `cancel`, `terminate`, drop, reader task | JSON-RPC on stdio, signals | the answer overtakes the updates before it; the caller is aborted at any await | a turn that ended delivered everything; a session that is over left no process |
| TUI, CLI (`makina`) | view state; the plan-authoring conversation, its record on disk | events, commands, background tasks | core API, one background channel | results of a conversation arrive when another is current | nothing the operator said is lost; an answer goes to the question it was typed under |

How they meet: a command (`start_run`) waits for the repository lease, reconciles the graph with the plan ref
and the checkpoint, and spawns a scheduler. The scheduler spawns drivers. A driver talks to agents over ACP
sessions, runs gates, writes claim, landing and status commits to the plan ref under the merge lock, and
changes the shared graph. The scheduler learns of a driver's end through the `JoinSet`. When the run ends it
is integrated (Phase P, or the final merge of a graph-only run) and a status is published. A client that is
not Makina's own scheduler does the same through the contract server, which takes the same lease for a whole
session. The terminal issues the commands and drafts plans in a conversation with a planner agent. The hazards
this code is exposed to are listed with their lines in `PROJECT.json`.

## 2. Modules

| Module | Models |
|---|---|
| `TaskFSM` | `TaskState`, `TaskEvent`, the transition table, `apply_event_locked`'s effect |
| `Scheduler` | one run: scheduler loop, drivers, commands, faults, rerun by resume and retry |
| `PlanBoard` | abstract: what a run promises (start on done prerequisites, done is final, given up only behind a loss) |
| `RepositoryLease` | all calls of all processes on one repository's lease |
| `RunControl` | the lifecycle commands of `CoreApi` on the open runs, and the schedulers they spawn, join and cancel |
| `Landing` | the log of a plan ref: boards, commits, trailers, and every function that reads evidence from it (no state) |
| `PlanLedger` | everything that writes one plan ref: contract sessions, runs, dispositions, resets, crashes |
| `Finalization` | Phases P, F and C of one plan, from four fronts, while others push to the base |
| `ContractSession` | the contract server's session, its workers and Git children, sentinels, permits, recovery |
| `AcpSession` | one agent session: process group, transport, turns, caller, terminate, reaper |
| `PlanAuthoring` | the terminal's planning conversations, their records, planner sessions and bundle generations |
| `MC*` | graphs, mixes of commands, processes and symmetries for TLC |
| `*Proofs` | the theorems (section 6) |

`Scheduler` extends `TaskFSM` and instantiates `PlanBoard` as its abstract specification; `PlanLedger` extends
`Landing`. Where two modules meet, one of them abstracts the other to what its clients see: a scheduler is one
step of `RunControl`, the lease a lock of `RunControl`, `PlanLedger`, `Finalization` and `ContractSession`, a
plan ref a tip and two sets in `Scheduler`.

### `TaskFSM` and `Scheduler`

`From[e]` and `Target[e]` are the rows of `transition`; `Legal` is `legal_events`; `After(s, e)` is what
`apply_event_locked` leaves: the new state, or the old one when the event is illegal. The states of
`Scheduler` are the shared graph (`state`, `gateIter`, `reviewIter`), the plan ref (`tip`, `landed`,
`bookkept`, `mergeLock`), where each driver stands (`pc`), the locals of `scheduler` (`sched`, `inFlight`,
`stopLaunching`, `abortAll`, `fatal`), `RunControl` (`cancel`, `pause`) and what the run reported
(`integrated`, `published`). `launched` is a history variable, `reruns` a bounded counter.

One action is one critical section over the graph together with the outcome of the await before it; that is
where the real tasks interleave, as `apply_event_locked` holds the graph lock for a single event and no lock
is held across agent turns, gates and Git commands (except the merge lock, which is modelled). The outcome of
a turn, a gate run, a review, a footprint check or a Git command is an alternative of its action. `pc` values
`okDone` ... `panicked` are futures that ended and that the `JoinSet` has not yet returned: the permit is
free, the task still in flight. `Timeout`, `Abort` and `Panic` drop a driver at any await. `PersistFails` is
`fail_for_persistence`. `Resume` and `Retry` run a graph-only graph again; a typed run is reconciled with Git
first, which is in `PlanLedger`.

What is abstracted: which ready task comes first (any), the text of turns, footprints (their checks are
outcomes), `RunReport`, events other than the final status, and the worktree on disk. `PersistFails` may come
at any time, a superset of the writes the code makes.

### `RepositoryLease`

A request walks the lines of `acquire` (`DrawTicket`, `Enroll`, `Check`, `Listen`, then `Wake` or `Leave`) or
of `try_acquire` (`TryClaim`), then of both: `Flock`, `Poll`, and on the way out `Release`, `NotifyWaiters`
and the closing of the file. `Listen` is the creation of `notified()`, after the mutex was dropped (line 187):
`notify_waiters` stores no permit, so that only calls that stand at `wait` hear it and become `woken`. `owner`
and `waiters` are the entry of each process. `flock` is the call whose file description holds the lock;
`child` are the calls with a Git child that inherited a duplicate of it, which keeps the lock when the guard
closes its own descriptor. A crash kills every call of a process, not its children.

### `RunControl`

A command is a process that walks through `start_run`, `retry_impl`, `cancel_run`, `reset_run` or `pause_run`;
`pc` is the await it stands at, and each action is one critical section of the registry mutex, which is never
held across an await. `lifecycle` is `lifecycle_lock`, which a start and a retry take twice (admission, then
from reconciliation to the stored join handle) and a cancel and a reset hold to the end. `lease` is the
repository lease, which passes from the command to its scheduler. `status`, `handle`, `generation`,
`cancelError` are the fields of `RunEntry`; a handle is its generation, its token (that of a command's wait
for the lease, or that of its scheduler) and whether the `JoinHandle` has been stored. `TakeHandle` is the
idiom every command opens with: take the handle, cancel its token, keep its join handle (`joins`). `Guarded`
are the places at which a `StartWaitingGuard` is alive, `Restore` is its `drop`. A scheduler is named after
the command that spawned it: `RunGraph`, `Publish` (`commit_authored_cancellation`), `Finalize` and
`FinalWrite` (the two sections of `finalize_run_status`) and `Release` (the lease is the task's last local).

What is abstracted: what happens inside a scheduler (`Scheduler.tla`) is one step, it ends; hence a pause only
changes the status. The lease is granted to any waiting command when it is free (its queue and the lost
wake-up are `RepositoryLease`'s). `reinterpret`, registration, finalization of plans and purge, which also
take the lease, are left out here. A command that fails drops its guards in the order of the code; the two
guards of a reset go in one step.

### `Landing` and `PlanLedger`

`log` is the first-parent lineage of `refs/heads/plan/<plan>`; an oid is a position in it, 0 is no oid. A
commit carries its phase, task, run, the oid a trailer links it to, the action of its transition, and the
board (task frontmatter and `STATUS.md`) of its tree. `Coherent` is `verify_rendered_status`: what the loader
accepts. `ClaimBoard`, `DoneBoard`, `RequeueBoard`, ... are the renderers of `landing.rs`, and `InspectTask`
is `inspect_task_evidence`; `ClaimsOfRun`, `LandingsOfRun`, `StatusesOf` and `TransitionsOf` are the lookups
that answer a repeated request (`find_claim`, `find_task_landing`, `find_status_landing` and that of
`commit_source_transition`). `DropAnchor` says whether `STATUS.md` has the section that a disposition appends
to.

`PlanLedger` has three kinds of writers. A contract session (`session`, `waiting`; `GrantSession`,
`ClaimTask`, `LandTask`, `LandPhaseA`, ...) keeps what the server's `Session` keeps, so that a repeated
request is answered from it or from the log. A run of the core (`pc`, `todo`, `drv`) is reconciled first
(stale claims requeued, retried tasks named in `retrying` requeued), then its drivers claim, land and record.
The user's dispositions write between them; `ResetRun` is the one writer that does not append: it puts the ref
back to the registration. `branch` is the task branch as `create`, reuse and cleanup leave it. `ServerCrash`
and `CoreCrash` keep the log and the branches and forget the rest; `drv` after it is what the checkpoint holds
(`known` says whether the process that minted the run still lives). A step is one publication by
compare-and-swap; `LandTask` publishes twice. A refused request changes nothing and is no step.

### `Finalization`

`plan` and `base` are the two lineages, a tree is the outside work, the rows of other plans on the root board,
and the plan's own status. `op` is the one operation that holds the lease, at its `step`: preparing P, looking
for an earlier F, publishing F, looking for an earlier C, publishing C. The fronts are the contract session,
`FinalizePlan`, `ReprepareFinalization` and the end of a run. `OutsideWork`, `OutsideRow` and `ManualFinal`
are people, who take no lease. `session` is what the server retains of its answers, `receipts` what was
acknowledged.

### `ContractSession`

A session holds the lease; every worker and Git child it runs has a sentinel, a shell that inherits the lock.
`child` says whose sentinel it is: of the session's table (`held`) or of nobody (`orphan`); `host` says for
which session the registered process itself runs. `ServerDies` orphans the table; `ReapOrphan` brings its
sentinel to rest. Close goes in four steps: `CloseVerified` (the repository), `CloseChecked` (the session and
its tables, under the state mutex), `ClosePermitted` or `PermitFails` (the permit, persisted without the
mutex), `CloseTornDown` (the session, under the mutex again); any other request may come between them, and
`child[c].late` remembers which process was registered after the check. `sleeper` are the `sleep 3600`
processes that a killed sentinel leaves. `foreign` is another process that owns the lock.

### `AcpSession`

The agent (`leader`, `kid`) may at any time read, stop, answer, ask for a permission, send an update, fork,
close its stdout or exit; it has one request of its own open at a time. The reader task forwards answers to
`outcome` and updates to `notes`; the turn's worker moves them to `buffered` and `events`; the caller takes
them (`got`). `req` walks the lines of `send_request` (check, insert, write, wait). A message fits the pipe or
it does not: then its writer, a request (`req.step = "writing"`) or the reader with an answer (`reader =
"writing"`), keeps the writer lock until the agent has read; `WriterFree` says that nobody does. No deadline
covers the lock or the write. `caller` walks a session: connect, prompt, drain, and the ways out of it
(`terminate`, abort, drop, shutdown); `registered` is the reaper's registry. `SpawnAgent` and `RegisterAgent`
are two steps, and so are `ReapDrains` and `ReapKills`, the two halves of `kill_all_agents`, which runs in
another thread; a program that survives its panic may run it more than once.

### `PlanAuthoring`

`live` is the one conversation the terminal shows (`App::plan_authoring`), `disk` and `written` its records. A
planner session and a bundle generation are tasks that report through `inbox`, in messages without the
conversation's name; `about` remembers what a session was spawned for. `said`, `crossed`, `overwritten`,
`failed` and `lost` are history: what the operator said, whether the tab, since it was opened or spawned its
session, was told something meant for another session, which conversations were reopened from a record that
lacked its last words, whether the last write of the tab failed, and which conversations were left in that
state. `Save(ok)` writes or fails; in both cases `dirty` is cleared, and a close or a displacement goes on. A
transcript is the set of the operator's messages.

The bounds of these modules are constants commented as such; all but `Kids` start with `Max`, and occur only
in guards of actions that start something new or of a fault. `EventCap`, `MaxRepairs`, `MaxRejections` and the
caps are limits of the code.

## 3. Runs

| Run | Instance | Shows |
|---|---|---|
| `sched_graph` | graph-only; `c` waits for `a` and `b`; 2 permits; gate cap 2, review cap 1; pauses, panics, one rerun | `PrerequisitesLanded`, `SkippedBehindFailure`, `NoTaskStranded`, `WithinLimits`, and that it implements `PlanBoard` (`BoardSpec`) |
| `sched_typed` | registered plan; `a` and `c` free, `d` behind `a` and not dispatchable; 2 permits; gate cap 1, review cap 2; cancel, wall clock, panic, failed checkpoint write, failed Git; fair | `DoneIsLanded`, `MergeLockOwned`, `DoneIsFinal`, `RunEnds` |
| `sched_landing_race` | two free tasks, typed, no fault | violates `LandingRetained` (finding 1) |
| `lease_queue` | three `acquire` and one `try_acquire` in two processes; cancel, I/O errors, kills | `OneMutator`, `EntryAlive`, `NoOvertaking` |
| `lease_live` | two calls of one process, one of another; same faults; fair | `CancelEnds`, `AloneAnswered` |
| `control_commands` | every mix of three commands on two runs; I/O errors, cancellations that cannot be published; fair | `RunningOwned`, `WaitingIsQueued`, `OnlyLiveHandles`, `ResetAlone`, `Answered`, `RunEnds` |
| `ledger` | two tasks, one of them gated; one client run, one core run; crashes, dispositions, resets; five commits | `BoardLoads`, `ClaimsHold`, `DoneIsCurrent`, `LandedOnce`, `AuthoredMoves` |
| `finalization` | two runs, modes squash and manual; one outside work, one foreign row; three commits of the plan, five of the base | `IntegratedOnce`, `PreparedKeepsBase`, `CompletionsHold`, `DelayedKeepsBase` |
| `finalization_reuse` | one run, no foreign row, four commits of the base | violates `BaseWorkKept` (finding 2) |
| `contract_session` | two workers, one Git child; three sessions; one foreign owner; fair | `OneOwner`, `PermitCoversEarlier`, `StartAnswered` |
| `acp` | one control request, two turns of one update; queues of one; an agent that may stop reading at any time, ask whenever it likes and fork a child deaf to SIGTERM; idle timeouts; `kill_all_agents` at any moment; fair | `TurnDelivered`, `Released`, `Reapable`, `CallsEnd` |
| `authoring` | one project, two conversations, two planner sessions, three messages, one repair, one rejection; writes that fail, at most one conversation left unwritten; fair | `TranscriptKept`, `AnswersItsQuestion`, `BusyEnds`, `SessionsEnd` |

*Bounds.* Three tasks with a join or a fork give everything the graph helpers tell apart: a free task, a
prerequisite, a dependent of two, a dependent that may not run. Two permits and two ready tasks are enough for
two drivers to meet at the merge lock and at the plan ref; a cap of 2 lets a task fail a round and go on, a
cap of 1 makes the first failure final. One rerun (`MaxReruns`) reaches the graph a partial failure leaves.
Four calls of the lease are a holder, a waiter, one that enrols late and one that barges; two processes meet
at the file lock. Three commands are a scheduler, the command that supersedes it and one that comes between;
two runs meet at the lease and at the lifecycle lock; mixes are enumerated up to the order of commands of one
run, which are interchangeable. Five commits of a plan ref are one full life of a task (registration, claim,
landing, status) and the commit that undoes it, or a claim, its requeue and the next claim by the other kind
of writer. Five commits of the base are a Phase F, a Phase C and two pushes before, between or after them.
Three sessions are one that dies, one that recovers it and the next; two workers and a Git child orphan at
different times. Two turns show whether an update leaks into the next; queues of one are full at once. Two
conversations displace each other; the second of three messages answers the first one's question or meets a
planner that failed meanwhile, the third may find that the session it answers has ended. No further write
fails once one conversation was left unwritten (`MaxLost`). A pipe that is full is one message the agent has
not read. Safety does not rest on these bounds: the theorems of section 6 hold without them.

*Fairness.* `Scheduler`: weak fairness of the scheduler loop, of each driver and of the drop of an aborted
future. The runtime polls a woken task (tokio, `rt-multi-thread`), every agent turn ends by its idle timeout
and every driver by its wall clock. Weak fairness of a driver suffices at the merge lock because no driver
takes it twice without the run's finite budget shrinking. `RepositoryLease`: each call's own steps and the
exit of a child. `RunControl`: each command's steps and each scheduler's, as a run ends (`RunEnds` of
`Scheduler`); weak fairness suffices for the two locks since the commands are finitely many.
`ContractSession`: the end of a registered process, the reaping of an orphan whose identity is known, the end
of a sleeper, the departure of a foreign owner, the grant of the lease. `AcpSession`: the reader task, the
task of a request or a turn, and the caller, whose timeouts fire when they are due; strong fairness of a
request at the writer lock, since tokio's mutex is handed on in the order of its waiters; the second half of
`kill_all_agents`; nothing of the agent. `PlanAuthoring`: the event loop, each generation, and each planner
session as far as it waits for a message or for the end of its channel (`Resumes`). A planner's turn has no
fairness, since nothing in the code ends it: `BusyEnds` and `SessionsEnd` except a planner that stays in one
turn. Nowhere is there fairness of a fault, a crash, a cancellation, a command, an operator or a person at the
repository.

*Deadlock.* The scheduler runs check it (`Ended` stutters once the run is over). The others do not: when every
call has been answered, or a bound is reached, nothing is left to do. That nobody is left waiting is what
`CancelEnds`, `AloneAnswered`, `Answered`, `StartAnswered`, `CallsEnd`, `BusyEnds` and `SessionsEnd` say.

## 4. Findings

1. *Phase A and Phase B* (`sched_landing_race`). `task_driver` releases the merge lock between the landing and
   the status commit; `commit_phase_b` expects the landing to be the tip. Another driver's claim in between
   moves it, the driver returns `Err`, the scheduler settles the task as Failed and skips its dependents,
   although the work is on the plan branch and `supervisor.rs:2630` says that any error must retain InReview.
2. *A Phase P for another base* (`finalization_reuse`). `commit_finalization_prepared` (`landing.rs:236`)
   answers a second Prepare with the earlier P and the base of now; the integration of that P passes its
   compare-and-swap and drops what was pushed in between. `ARCHITECTURE.md:675` of plan 0048 asks for a new P.
   `PreparedKeepsBase` and `DelayedKeepsBase` are what holds: an F on the base its P was prepared on, and
   every F of `FinalizePlan`, keeps the base's work.

## 5. Statements the code does not keep

The modules also state what a comment or a document says and the code does not do. No run is kept for these;
each is violated on the instance named, or on that of the module's run where none is.

| Statement | Module and instance | Why it fails |
|---|---|---|
| `EveryoneAnswered` | `RepositoryLease`: `lease_live` without faults | `acquire` drops the mutex before it creates `notified()` (`repository_lease.rs:187`); a release between the two is not heard. `AloneAnswered` is what remains |
| `RunningIsDispatched` | `RunControl`: `RetryCancelled` of `MCRunControl` | `retry_impl` does not look at the status again after its wait (`orchestrator.rs:7204`); a cancel in between is undone and the run stays Running under a generation `finalize_run_status` never matches |
| `CancelQuiesces` | `RunControl`: `ResumeCancelled` | a start takes over the join handle of a draining scheduler (`orchestrator.rs:6247`); the next cancel finds the handle of the wait and answers before the workers have stopped |
| `CancelAnswered` | `RunControl`: `ResetBesideStart` | `reset_run` waits for the lease under the lifecycle lock with a token nobody cancels (`orchestrator.rs:6652`), `start_run` for the lifecycle lock with the lease in hand. `Answered` shows that this state (`Entangled`) is the only way not to be answered |
| `EvidenceFollowsHistory` | `PlanLedger`: one task, two core runs, six commits | after a requeue, `inspect_task_evidence` answers "registration only" even when a newer claim or landing stands (`landing.rs:583`) |
| `SlotReclaimed` | same | a leftover task branch with work is refused as `RecoveryEvidence`, where the comment at `worktree.rs:467` says the slot is reset |
| `RetryDispatches` | same | reconciliation has requeued the failed task already, so that the retry's transition changes no file and its `git commit` fails (`landing.rs:959`): `RetryTask` of a typed plan cannot succeed (`orchestrator.rs:6365` says it dispatches) |
| `PermitsQuiescent` | `ContractSession`: one worker, no Git child, one session | Close checks the workers, persists the permit without the state mutex and tears the session down in another critical section (`plan_contract.rs:2332`, `2353`, `2357`); a worker begun in between outlives the session. `PermitCoversEarlier` is what remains |
| `ReapedReleases` | same | `terminate_sentinel` kills the shell; the `sleep 3600` it forked (`plan_contract.rs:967`) keeps the lock |
| `DroppedIsFreed` | `AcpSession`: one turn, no update, no kid, no watchdog | the turn's task owns the client until the agent reads or answers (`backend.rs:620`); when neither happens nothing drops it |
| `EndedWakes` | `AcpSession`: the run's | `send_request` checks for the end before it inserts its request (`transport.rs:307`); a reader that ends in between wakes nobody |
| `ConnectEnds` | same | the deadline of a control request covers the receive only (`transport.rs:349`), not the writer lock and the write (`transport.rs:325`): an agent that does not read stalls the handshake. `CallsEnd` says that this is the only way |
| `NoOrphan` | `AcpSession`: the run's | the leader exits in the grace period and no SIGKILL follows (`client.rs:709`); or an agent is spawned, or registered, after `kill_all_agents` has drained the registry (`exit.rs:92`, `client.rs:858`, `reaper.rs:101`). `Reapable` is what remains |
| `FailureHeard` | `PlanAuthoring`: the run's | `app.rs:3687` says that the operator hears of a failed write before closing; `dirty` is cleared before the write, and `report_authoring_save` only logs (`event.rs:256`). `TranscriptKept` says that, with a record read too early, this is the only way to lose a word |
| `PlanReachable` | `PlanAuthoring`: the run's | a generation's result is recorded in whichever conversation is current (`authoring_session.rs:17`) |

Seen while modelling:

- *Scheduler.* A late wall clock skips the dependents of a task that reached Done before its driver was
  dropped (`supervisor.rs:1938`), and such a dependent, revived by a later retry, keeps its spent budget. Done
  tasks of a typed resume are projected as New (`plan_runtime.rs:59`). Under cancellation the Err arm keeps
  InReview but skips dependents. A driver that panics leaves its task unsettled; a resume of a draining run
  strands what was in progress.
- *Run control.* A draining scheduler may clear the handle of the wait that supersedes it, as `start_run`
  draws no generation for it; a guard restores whatever wait it finds, another command's too
  (`WaitingIsQueued` holds all the same); `cancellation_status_error` outlives the scheduler that set it.
- *Landing.* Claim and worktree creation are in separate sections of the merge lock. A landing repeated under
  a new run id leaves the evidence ambiguous for good. A reused claim or landing sets the session's `plan_oid`
  to a commit that is not the tip. `StartSession` resolves the ref before it waits for the lease.
  Reconciliation refuses a landing without a status, which the architecture document says it completes
  (`orchestrator.rs:5625`). A planned task can never be dropped, and a Phase B is refused when only blocked
  tasks remain, since `Coherent` fails.
- *Finalization.* P and C render the root board from the plan tip's board, so that other plans' rows are
  reverted. After a completion a Reprepare or the end of a run may integrate again. C cannot be committed once
  the base has moved past F, and a manual F after another Prepare cannot be verified. The base may be checked
  out between the look and the update of the ref.
- *Contract server.* A worker's sentinel without identity can never be reaped after the server's death
  (`plan_contract.rs:1085`). A lost answer to BeginWorker is not replayed. Early errors of authoring advance
  the last request id.
- *ACP.* `transport.rs:20` says malformed lines end the transport; the reader skips them. `reclaim_client` in
  `prompt` has no time limit. `discovery.rs` and `interpreter.rs` drop a client without `terminate`.
- *Terminal.* Results of a planner are applied to whichever conversation is current. `save_authoring_session`
  clears `dirty` before a save that may fail; `ResumePlanConversation` reads the record before it writes the
  live one. A planner's turn has no time limit. The event loop sends to its own 64-slot channel, which the
  model leaves unbounded.

## 6. Proofs

*Assumptions.* Each module names what it assumes of its constants: `TasksAssumption`, `ConfigAssumption` (what
`Config::validate` guarantees), `ModeAssumption` (only a typed run has authored seeds, only a graph-only one
is rerun on the graph it left), `LeaseAssumption`, `ControlAssumption`, `HandleAssumption`,
`LandingAssumption`, `LedgerAssumption`, `FinalizationAssumption`, `ContractAssumption`, `AcpAssumption`,
`AuthoringAssumption`. They say what kind of value a constant is, and TLC evaluates each on the runs'
constants. Nothing else is assumed, but for the hypotheses that four theorems of `SchedulerProofs` state and
the next paragraphs explain. Every proof follows one pattern: the invariant is strengthened until it is
inductive, each conjunct is a lemma with one case per action, frame lemmas say what an action leaves alone.
TLC checked the inductive invariants on small instances first.

Every invariant and every action property that a passing run checks is a theorem, and so is the refinement of
`PlanBoard`.

*`SchedulerProofs`*, for every graph, cap, number of permits and set of faults:

- `TypeCorrect`. The work is in the graph helpers: `SkipDependents`, `Revived`, `RemarkReady` keep the type of
  `state`.
- `DoneStaysDone` (`DoneIsFinal`): no row of the transition table leaves Done except the driver's own
  restoration under cancellation.
- `MergeLockSafe`: inductive with `TypeOK` and `DriversTracked` (a working driver is in flight, an unlaunched
  task is idle), since `Launch` must not reuse the `pc` of a driver that holds the lock.
- `DoneMeansLanded`, `WorkStandsOnLanded`: `PhasesRecorded` (at every `pc` after Phase A the task is in
  `landed`, after Phase B in `bookkept`, and only there is Done reached) carries the landing across the steps
  between `Merge` and `Approve`, where `state` does not show it.
- `NothingStranded` (`NoTaskStranded`), without hypotheses, cyclic graphs included. The invariant is
  `RunBooks` (types, drivers tracked, what each driver's place tells of its task, the counters of the loop,
  what a begun task stands on) with `Behind` (a waiting task has no skipped prerequisite, and no failed one
  that has been joined) and `Filled` (a loop that is about to end, or has ended, found nothing more to
  launch). `Downstream` and `Revived` are least fixpoints; the proofs use that they are closed and least, not
  how they are computed.
- `SkipsHaveCause` (`SkippedBehindFailure`) and `RunImplementsBoard` (`BoardSpec`) assume `Clean`: a
  graph-only run without wall clocks. Both are false otherwise: a join after a late timeout skips the
  dependents of a Done task, and in a cancelled typed run an Err keeps its task InReview but skips dependents.
  `Aligned` says what the place of a driver tells about the state of its task. The refinement maps each task
  to a column of the board: `BoardDriver`, `BoardRerun` and the lemmas beside them show that every step is a
  step of the board or a stutter.
- `BoardStandsOnDone`: what the board promises over a whole run, from the invariant of `PlanBoard` itself
  carried over by the refinement: what runs or is done has only done tasks behind it, what was given up has a
  lost one.
- `LimitsKept` (`WithinLimits`) assumes that wall clocks and reruns do not come together, because a dependent
  that a late timeout skipped in the middle of its rounds keeps its spent budget when a retry revives it.
  `Budgets` bounds the counters at every `pc`, `PermitsKept` the number of running tasks (cardinalities).

*`RepositoryLeaseProofs`*, for every set of processes and calls: `LeaseTypeCorrect`; `OneMutatorSafe` (a
mutating call has a descriptor of the file lock, and the descriptors of one description share its holder:
`MutatorHasFlock`); `EntryNeverStale` (owner and tickets are of calls that are still there); `QueueIsFair`
(`NoOvertaking`, from `TicketsDistinct`: the order of tickets is total among those alive).

*`RunControlProofs`*, for every set of runs, every number and mix of commands and every fault:

- `ControlTypeCorrect`, which also says that a guard never remembers Waiting or Running.
- `WaitingRunIsQueued`: inductive with the types alone, by `WaitingStep`: a run comes to wait only by a
  command that enters its guard, and a guard is left only through `Restore`, which ends whatever wait it
  finds.
- `ResetIsAlone`: `LocksInv` says who holds the two locks at which `pc`; `ResetInv` carries the empty handle
  from the admission of a reset to its rebuild.
- `HandlesAreLive`: `TokenInv`: a token, once issued, stays that of one command of one run.
- `RunningRunIsOwned`: from all of these. `KeptOwner` says what a step must leave alone; the cases that need
  the invariants are the steps that give the lease away and the finalization, which passes over its own handle
  only when it is stale.

*`PlanLedgerProofs`*, for every plan, every set of clients, every number of runs and commits. The inductive
invariant is `Ledger`: `TypeOK`; `Leases` (a session and a run exclude each other); `Drivers` (what a driver's
place says of the log); `HeldLandings` (a landing that a session remembers is one of its own); and
`Chronicle(log)`, which speaks of the lineage alone. Its parts: the tip's board is coherent; a planned task
stands on no claim (`Withdrawn`); a task in progress is backed by a standing claim (`Backed`); claims of a
task are separated by requeues (`Separated`); a status names an older commit (`Linked`); a done task is
credited with a landing of the status's run that no requeue came after (`Current`); landings and credits are
unique (`LandsOnce`, `CreditsOnce`). `Entry(l, c)` lists the six kinds of commit any writer appends, with what
the writer checked. The proof has two halves that do not mix: every action of `PlanLedger` appends an entry,
appends a landing and its status, resets, or leaves the log alone (`LogStep`); every entry keeps the
chronicle. From `Ledger` follow `BoardsLoad`, `ClaimsStand`, `DoneStands` and `LandingsOnce`; `MovesAuthored`
(an action property) follows from `LogStep`.

*`FinalizationProofs`*, without a bound on either lineage. `IInv` is `Lineages` (each P, F and C names what it
should on the two lineages, no P integrated twice), `SessionSound`, `OpSound` and `ReceiptsHold`. The heart is
`OpSound` at `publishF`: if the base is still what the operation expects, then no earlier F of this P is on
it, so that the compare-and-swap makes the lookup and the update one step. `IntegratedOnceSafe`,
`PreparedKeepsBaseSafe`, `CompletionsHoldSafe` and `DelayedKeepsBaseSafe` follow.

*`ContractSessionProofs`*: `LockInv` says whose sentinel holds what: a registered process has a sentinel of
the same session, the table is the session's, orphans are of one dead session and exclude a live one, a
foreign owner excludes everything. `OneOwnerSafe` follows. `PermitInv` adds what the permits need: from
Close's check on, what runs for its session was registered `late` (`CheckedCovers`), through the gap in which
the permit is persisted; a session that still stands although it has a permit is the one at which Close stands
(`PermitClosing`); and sessions are granted in the order of their numbers. `PermitSafe` follows.

*`AcpSessionProofs`*, for every number of turns, updates, queue slots, control requests and every agent:
`AgentsReapable` is inductive alone; `TerminateReleases` needs `Spawned`; `TurnsDelivered` needs `Flow`. Until
the session is registered nothing has been asked of the agent (`Blank`). While the session is in use
(`Engaged`), `InFlight` accounts for every update of the turn on its way through five queues (what the caller
has, the event channel, the buffer, the notifications, the agent's stdout): concatenated they are the prefix
of what was sent, and the answer never overtakes it. When the session is given up, only `Ordered` remains:
what was taken is a prefix.

*`PlanAuthoringProofs`*: `TranscriptsKept` by `Words` (what was said in a conversation that was neither `lost`
nor `overwritten` is in the tab while it is live, and on disk too unless the tab is dirty or its last write
failed); `OperatorAnswers` by `Turns`: the tab and its planner session take turns, and of a message in the
inbox, an answer, a verdict and a running generation there is at most one, which says whose turn it is.

*Only model-checked.* The liveness properties: `RunEnds` (of a run and of a running scheduler), `CancelEnds`,
`AloneAnswered`, `Answered`, `StartAnswered`, `CallsEnd`, `BusyEnds`, `SessionsEnd`. Liveness under fairness
and `ENABLED` are out of the prover's reach. So is, for `SkippedBehindFailure` and `BoardSpec`, anything about
the runs that are not `Clean`, of which they are false, and for `WithinLimits` the runs with wall clocks and
reruns together.

## 7. What is left out

Not modelled: configuration, discovery, preflight, audit and logging (pure data and I/O); the syntax of plan
documents (what the renderers of a board say is in `Landing`); gates and roles except for their outcomes; the
files of worktrees, pruning and adoption; file-level merges (a conflict is a refusal); the registration
transaction; purge; the message encoding of ACP and the verdict of its permission policy; in the terminal
everything but the authoring conversation. A scheduler's typed rerun is in `PlanLedger` at the level of
commits and not in `Scheduler`.

Next, in this order:

1. An abstract lock that `RepositoryLease` implements and that `RunControl`, `PlanLedger`, `Finalization` and
   `ContractSession` use, so that the lease they assume is the lease that is proved.
2. A corollary across modules: a driver of `Scheduler` at a `pc` after Phase A is a driver of `PlanLedger` at
   the corresponding state, so that `DoneIsLanded` and `DoneIsCurrent` speak of one run.
3. The navigation state of the terminal (the runs it shows against the events it gets), and worktree slots.
