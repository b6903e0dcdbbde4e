------------------------------ MODULE PlanLedger ------------------------------
(***************************************************************************)
(* Everything that writes one registered plan: an execution session of the *)
(* plan contract (plan_contract.rs over PlanContractCoordinator), a run of *)
(* the core (orchestrator.rs, actors/supervisor.rs), and the user's        *)
(* dispositions and resets.  They share the plan ref, of which `log' is    *)
(* the first-parent lineage, and the task branches; the repository lease   *)
(* lets one session or one run in at a time, and processes die at any      *)
(* moment without being able to undo a commit.                             *)
(*                                                                         *)
(* A step is one publication on the plan ref (prepared detached, published *)
(* by compare-and-swap) or one worktree operation.  A refused request      *)
(* changes nothing here and is not a step.                                 *)
(***************************************************************************)
EXTENDS Landing

CONSTANTS
  InitGated,      \* the tasks registered with gated = true
  ContractRuns,   \* run ids the clients of the contract use
  MaxCoreRuns,    \* bound: how many run ids the core mints
  MaxLog,         \* bound: the longest lineage explored
  NoRun           \* the run of no session, and of the registration

\* The core mints its run ids; no client can guess them.
CoreRun(i) == <<"core", i>>

ASSUME LedgerAssumption ==
  /\ InitGated \subseteq Task
  /\ IsFiniteSet(ContractRuns)
  /\ NoRun \notin ContractRuns
  /\ MaxCoreRuns \in Nat
  /\ MaxLog \in Nat \ {0}

VARIABLES
  log,       \* first-parent lineage of refs/heads/plan/<plan>
  branch,    \* task/<plan>--<task>: 0 absent, n at commit n, -1 with own work
  session,   \* the contract server's Session, or NoSession
  waiting,   \* StartSession between resolve_ref and its lease: 0, or the oid
  pc,        \* what the core does with the lease
  retrying,  \* the tasks RetryTask or RetryFailedTasks named; {}: StartRun
  minted,    \* run ids the core has minted
  known,     \* TRUE: the process that minted the last one still runs
  todo,      \* stale claims, or retried tasks, still to be requeued
  drv        \* the driver of each task, or what the checkpoint has of it

contractVars == <<session, waiting>>
coreVars == <<pc, retrying, minted, known, todo, drv>>
vars == <<log, branch, session, waiting, pc, retrying, minted, known, todo, drv>>

NoSession == [run |-> NoRun, plan |-> 0,
              phaseA |-> [t \in Task |-> 0]]

DriverStates == {"none", "idle", "claimed", "working", "landed", "done",
                 "failed", "stranded"}

RunIds == ContractRuns \cup {NoRun} \cup {CoreRun(i) : i \in 1..MaxCoreRuns}

Commits == [phase : Phases, task : Task \cup {EveryTask}, run : RunIds,
            link : Nat, action : Actions, board : Boards]

TypeOK ==
  /\ log \in Seq(Commits) /\ log # <<>>
  /\ branch \in [Task -> Int]
  /\ session \in [run : ContractRuns \cup {NoRun}, plan : Nat,
                  phaseA : [Task -> Nat]]
  /\ waiting \in Nat
  /\ pc \in {"off", "reconcile", "retry", "running"}
  /\ retrying \subseteq Task
  /\ known \in BOOLEAN
  /\ minted \in 0..MaxCoreRuns
  /\ todo \subseteq Task
  /\ drv \in [Task -> DriverStates]

Registration ==
  CommitOf("registration", EveryTask, NoRun, 0, "register",
           [state |-> "planned", status |-> [t \in Task |-> "Planned"],
            merged |-> [t \in Task |-> 0], gated |-> InitGated, open |-> {}])

Init ==
  /\ log = <<Registration>>
  /\ branch = [t \in Task |-> 0]
  /\ session = NoSession
  /\ waiting = 0
  /\ pc = "off"
  /\ retrying = {}
  /\ minted = 0
  /\ known = FALSE
  /\ todo = {}
  /\ drv = [t \in Task |-> "none"]

Board == TipBoard(log)

Run == CoreRun(minted)

LeaseFree == session = NoSession /\ pc = "off"

-----------------------------------------------------------------------------
(* Publications.  Each operator is the set of outcomes of one attempt: the   *)
(* new lineage and the oid its caller is told.  The empty set is an error.   *)

Published(commit) == [log |-> Append(log, commit), oid |-> Len(log) + 1]

Reused(oid) == [log |-> log, oid |-> oid]

\* A lookup that reuses evidence refuses to choose among several.
LookUp(hits, otherwise) ==
  IF hits = {} THEN otherwise
  ELSE IF Cardinality(hits) = 1 THEN {Reused(TheOnly(hits))} ELSE {}

\* The compare-and-swap: the caller's expected oid is the tip.
Swap(expected, commit) ==
  IF expected = Tip(log) /\ Len(log) < MaxLog THEN {Published(commit)} ELSE {}

\* commit_task_claim.
Claimed(t, r, expected) ==
  LET board == ClaimBoard(Board, t)
  IN  IF Coherent(board)
        THEN LookUp(ClaimsOfRun(log, t, r),
               Swap(expected, CommitOf("task-claim", t, r, 0, "", board)))
        ELSE {}

\* Mutant: a repeated Phase A merges again instead of looking for its landing.
LandedAgain(t, r) ==
  IF branch[t] = 0 THEN {}
  ELSE Swap(Tip(log), CommitOf("landing", t, r, 0, "", Board))

\* squash_merge_with_evidence: no expected oid of the caller's; an existing
\* landing of the same run is returned without a merge.
Landed(t, r) ==
  IF branch[t] = 0 THEN {}
  ELSE LookUp(LandingsOfRun(log, t, r),
              Swap(Tip(log), CommitOf("landing", t, r, 0, "", Board)))

\* Mutant: the rendered board is published without reading it back.
RequeuedUnread(t, r, expected, action, board) ==
  LookUp(TransitionsOf(log, t, r, action, expected),
    IF board = Board THEN {}
    ELSE Swap(expected, CommitOf("task-transition", t, r, expected, action, board)))

\* Mutant: a requeue recorded under the wrong phase.
RequeuedAsDisposition(t, r, expected, action, board) ==
  IF Coherent(board)
    THEN LookUp(TransitionsOf(log, t, r, action, expected),
           IF board = Board THEN {}
           ELSE Swap(expected,
                     CommitOf("task-disposition", t, r, expected, action, board)))
    ELSE {}

\* commit_source_transition: no --allow-empty, so an unchanged board is an error.
Requeued(t, r, expected, action, board) ==
  IF Coherent(board)
    THEN LookUp(TransitionsOf(log, t, r, action, expected),
           IF board = Board THEN {}
           ELSE Swap(expected,
                     CommitOf("task-transition", t, r, expected, action, board)))
    ELSE {}

\* commit_task_disposition: never reused.
Disposed(t, r, expected, action, board) ==
  IF Coherent(board) /\ board # Board
    THEN Swap(expected, CommitOf("task-disposition", t, r, 0, action, board))
    ELSE {}

-----------------------------------------------------------------------------
(* An execution session of the plan contract *)

\* StartSession resolves the ref, compares it with the client's oid, and only
\* then waits for the lease.
AskSession ==
  /\ session = NoSession /\ waiting = 0
  /\ waiting' = Tip(log)
  /\ UNCHANGED <<log, branch, session, coreVars>>

GrantSession(r) ==
  /\ waiting # 0 /\ LeaseFree
  /\ session' = [NoSession EXCEPT !.run = r, !.plan = waiting]
  /\ waiting' = 0
  /\ UNCHANGED <<log, branch, coreVars>>

CancelSession ==
  /\ session # NoSession
  /\ session' = NoSession
  /\ UNCHANGED <<log, branch, waiting, coreVars>>

\* claim_task, then ensure_task_worktree, which refuses a leftover branch: the
\* claim is published either way.
ClaimTask(t) ==
  /\ session # NoSession
  /\ Board.status[t] = "Planned"
  /\ InspectTask(log, t).state = "RegistrationOnly"
  /\ \E out \in Claimed(t, session.run, session.plan) :
       /\ log' = out.log
       /\ session' = [session EXCEPT !.plan = out.oid]
       /\ branch' = [branch EXCEPT ![t] = IF @ = 0 THEN Len(out.log) ELSE @]
  /\ UNCHANGED <<waiting, coreVars>>

\* The worker of the session commits on its branch.
WorkOn(t) ==
  /\ session # NoSession
  /\ branch[t] > 0
  /\ branch' = [branch EXCEPT ![t] = -1]
  /\ UNCHANGED <<log, contractVars, coreVars>>

\* complete_task, judged on the lineage `l' that Phase A left.
Completable(l, t, landing) ==
  /\ TipBoard(l).status[t] = "InProgress"
  /\ InspectTask(l, t) = Evidence("LandingPending", landing)
  /\ Coherent(DoneBoard(TipBoard(l), t, landing))

\* Mutant: the status links the tip instead of the landing.
StatusOfTip(l, t, r, landing) ==
  CommitOf("task-status", t, r, Len(l), "", DoneBoard(TipBoard(l), t, landing))

StatusCommit(l, t, r, landing) ==
  CommitOf("task-status", t, r, landing, "", DoneBoard(TipBoard(l), t, landing))

\* CheckCandidate, which needs the branch and hands out a token, then LandTask
\* with that token: Phase A, then Phase B against the landing; when B is refused or
\* fails the landing stays and the session does not learn of it.
LandTask(t) ==
  /\ session # NoSession
  /\ \E a \in Landed(t, session.run) :
       \/ /\ Len(a.log) = a.oid /\ Len(a.log) < MaxLog
          /\ Completable(a.log, t, a.oid)
          /\ log' = Append(a.log, StatusCommit(a.log, t, session.run, a.oid))
          /\ session' = [session EXCEPT !.plan = Len(a.log) + 1]
       \/ log' = a.log /\ UNCHANGED session
  /\ UNCHANGED <<branch, waiting, coreVars>>

LandPhaseA(t) ==
  /\ session # NoSession
  /\ \E a \in Landed(t, session.run) :
       /\ log' = a.log
       /\ session' = [session EXCEPT !.plan = a.oid, !.phaseA[t] = a.oid]
  /\ UNCHANGED <<branch, waiting, coreVars>>

CommitPhaseB(t) ==
  /\ session # NoSession
  /\ session.phaseA[t] # 0
  /\ Completable(log, t, session.phaseA[t])
  /\ \E out \in Swap(session.plan,
                     StatusCommit(log, t, session.run, session.phaseA[t])) :
       /\ log' = out.log
       /\ session' = [session EXCEPT !.plan = out.oid]
  /\ UNCHANGED <<branch, waiting, coreVars>>

\* The transitions a client may ask for: the boards they lead to.
SourceTransitions(t) ==
  LET s == Board.status[t]
  IN  {a \in {<<"blocker", BlockBoard(Board, t)>>} : s \notin {"Done", "Dropped", "Blocked"}}
      \cup {<<"retry", RequeueBoard(Board, t)>>, <<"requeue", RequeueBoard(Board, t)>>}
      \cup {a \in {<<"cancel", SetStatus(Board, t, "Planned", 0)>>} : s = "InProgress"}

\* answered: the checkout that follows the publication may fail, and then the
\* client is told of an error and the session keeps the old oid.
TransitionTask(t) ==
  /\ session # NoSession
  /\ \E a \in SourceTransitions(t) :
     \E out \in Requeued(t, session.run, session.plan, a[1], a[2]),
        answered \in BOOLEAN :
       /\ log' = out.log
       /\ session' = IF answered
                       THEN [session EXCEPT !.plan = out.oid, !.phaseA[t] = 0]
                       ELSE session
  /\ UNCHANGED <<branch, waiting, coreVars>>

\* set_disposition: ungate a planned gated task, drop one that is not started.
Dispositions(t) ==
  LET s == Board.status[t]
  IN  {a \in {<<"ungate", UngateBoard(Board, t)>>} : s = "Planned" /\ t \in Board.gated}
      \cup {a \in {<<"drop", DropBoard(Board, t)>>} :
              s \notin {"Done", "InProgress"} /\ DropAnchor}

SetDisposition(t) ==
  /\ session # NoSession
  /\ \E a \in Dispositions(t) :
     \E out \in Disposed(t, session.run, session.plan, a[1], a[2]),
        answered \in BOOLEAN :
       /\ log' = out.log
       /\ session' = IF answered THEN [session EXCEPT !.plan = out.oid] ELSE session
  /\ UNCHANGED <<branch, waiting, coreVars>>

\* The server dies: its session goes with it, and so does a waiting request.
ServerCrash ==
  /\ session # NoSession \/ waiting # 0
  /\ session' = NoSession
  /\ waiting' = 0
  /\ UNCHANGED <<log, branch, coreVars>>

Contract ==
  \/ AskSession
  \/ \E r \in ContractRuns : GrantSession(r)
  \/ CancelSession
  \/ ServerCrash
  \/ \E t \in Task :
       \/ ClaimTask(t)
       \/ WorkOn(t)
       \/ LandTask(t)
       \/ LandPhaseA(t)
       \/ CommitPhaseB(t)
       \/ TransitionTask(t)
       \/ SetDisposition(t)

-----------------------------------------------------------------------------
(* A run of the core, under the lease *)

\* The refusals of reconcile_run_under_repository_lease, task by task.
Startable ==
  \A t \in Task :
    LET evidence == InspectTask(log, t)
        status == Board.status[t]
    IN  /\ evidence.state # "Ambiguous"
        /\ status = "Done" => evidence = Evidence("Complete", Board.merged[t])
        /\ status = "InProgress" =>
             \* prove_stale_claim_clean: no branch, or one still at the claim
             evidence.state = "Claimed" /\ branch[t] \in {0, evidence.oid}
        /\ status # "InProgress" => evidence.state # "LandingPending"

Stale == {t \in Task : Board.status[t] = "InProgress"}

Failed == {t \in Task : drv[t] = "failed"}

\* What the next start takes from the checkpoint: which tasks had failed.
Saved == [t \in Task |-> IF t \in Failed THEN "failed" ELSE "none"]

StartRun(again) ==
  /\ LeaseFree /\ Startable
  /\ IF again THEN known /\ UNCHANGED minted
              ELSE minted < MaxCoreRuns /\ minted' = minted + 1
  /\ known' = TRUE
  /\ pc' = "reconcile"
  /\ todo' = Stale
  /\ retrying' = {}
  /\ UNCHANGED <<log, branch, contractVars, drv>>

\* retry_impl reconciles first, like a start, under the run id it has.
RetryRun(targets) ==
  /\ LeaseFree /\ Startable
  /\ known
  /\ pc' = "reconcile"
  /\ todo' = Stale
  /\ retrying' = targets
  /\ UNCHANGED <<log, branch, contractVars, minted, known, drv>>

\* commit_retry_source_transitions(.., "reconcile"): one commit per stale claim.
Reconcile(t) ==
  /\ pc = "reconcile" /\ t \in todo
  /\ \E out \in Requeued(t, Run, Tip(log), "reconcile", RequeueBoard(Board, t)),
        answered \in BOOLEAN :
       /\ log' = out.log
       /\ todo' = IF answered THEN todo \ {t} ELSE {}
       /\ pc' = IF answered THEN pc ELSE "off"
       /\ retrying' = IF answered THEN retrying ELSE {}
  /\ UNCHANGED <<branch, contractVars, minted, known, drv>>

\* from_document and overlay_compatible: a task that is planned and not gated
\* may run, unless the checkpoint has it failed.
Projected(t) ==
  IF Board.status[t] # "Planned" \/ t \in Board.gated THEN "none"
  ELSE IF drv[t] = "failed" THEN "failed" ELSE "idle"

Project ==
  /\ pc = "reconcile" /\ todo = {}
  /\ LET targets == {t \in retrying : Projected(t) = "failed"}
     IN  /\ todo' = targets
         /\ retrying' = targets
         /\ pc' = IF retrying = {} THEN "running"
                  ELSE IF targets = {} THEN "off" ELSE "retry"
         /\ drv' = IF retrying # {} /\ targets = {} THEN Saved
                   ELSE [t \in Task |-> Projected(t)]
  /\ UNCHANGED <<log, branch, contractVars, minted, known>>

\* The "retry" transitions; the first that fails ends the request, and only
\* when all are published are the tasks reset and dispatched.
RetryStep(t) ==
  LET outs == Requeued(t, Run, Tip(log), "retry", RequeueBoard(Board, t))
      left == todo \ {t}
  IN  /\ pc = "retry" /\ t \in todo
      /\ log' = IF outs = {} THEN log ELSE TheOnly(outs).log
      /\ todo' = IF outs = {} THEN {} ELSE left
      /\ pc' = IF outs = {} THEN "off" ELSE IF left = {} THEN "running" ELSE pc
      /\ drv' = IF outs = {} THEN Saved
                ELSE IF left # {} THEN drv
                ELSE [u \in Task |-> IF u \in retrying THEN "idle" ELSE drv[u]]
      /\ retrying' = IF outs = {} THEN {} ELSE retrying
      /\ UNCHANGED <<branch, contractVars, minted, known>>

\* commit_claim under the merge lock; any git command of it may fail.
DriverClaim(t) ==
  /\ pc = "running" /\ drv[t] = "idle"
  /\ \/ \E out \in Claimed(t, Run, Tip(log)) :
          log' = out.log /\ drv' = [drv EXCEPT ![t] = "claimed"]
     \/ drv' = [drv EXCEPT ![t] = "failed"] /\ UNCHANGED log
  /\ UNCHANGED <<branch, contractVars, pc, retrying, minted, known, todo>>

\* WorktreeManager::create, after the merge lock: the branch forks at whatever
\* the plan ref is by then, and a leftover branch is an error.
CreateWorktree(t) ==
  /\ pc = "running" /\ drv[t] = "claimed"
  /\ drv' = [drv EXCEPT ![t] = IF branch[t] = 0 THEN "working" ELSE "failed"]
  /\ branch' = [branch EXCEPT ![t] = IF @ = 0 THEN Tip(log) ELSE @]
  /\ UNCHANGED <<log, contractVars, pc, retrying, minted, known, todo>>

Develop(t) ==
  /\ pc = "running" /\ drv[t] = "working" /\ branch[t] > 0
  /\ branch' = [branch EXCEPT ![t] = -1]
  /\ UNCHANGED <<log, contractVars, coreVars>>

\* Gates, caps, a conflict, an agent: the worktree goes, the task ref stays.
DriverFail(t) ==
  /\ pc = "running" /\ drv[t] = "working"
  /\ drv' = [drv EXCEPT ![t] = "failed"]
  /\ UNCHANGED <<log, branch, contractVars, pc, retrying, minted, known, todo>>

DriverPhaseA(t) ==
  /\ pc = "running" /\ drv[t] = "working"
  /\ \E out \in Landed(t, Run) : log' = out.log
  /\ drv' = [drv EXCEPT ![t] = "landed"]
  /\ UNCHANGED <<branch, contractVars, pc, retrying, minted, known, todo>>

\* commit_phase_b expects the landing to be the tip still; an error retains the
\* landing, the branch and the task in review.
DriverPhaseB(t) ==
  LET landing == TheOnly(LandingsOfRun(log, t, Run))
      board == DoneBoard(Board, t, landing)
  IN  /\ pc = "running" /\ drv[t] = "landed"
      /\ \/ /\ Coherent(board)
            /\ \E out \in LookUp(StatusesOf(log, t, Run, landing),
                            Swap(landing, StatusCommit(log, t, Run, landing))) :
                 log' = out.log
            /\ drv' = [drv EXCEPT ![t] = "done"]
         \/ drv' = [drv EXCEPT ![t] = "stranded"] /\ UNCHANGED log
      /\ UNCHANGED <<branch, contractVars, pc, retrying, minted, known, todo>>

Active == {t \in Task : drv[t] \in {"claimed", "working", "landed"}}

EndRun ==
  /\ pc = "running" /\ Active = {}
  /\ pc' = "off"
  /\ drv' = Saved
  /\ retrying' = {}
  /\ UNCHANGED <<log, branch, contractVars, minted, known, todo>>

\* Cancellation, or the resume of a paused run: the drivers are aborted, then
\* commit_authored_cancellation requeues what is in progress, if it can.
CancelRun ==
  /\ pc = "running"
  /\ pc' = "off"
  /\ drv' = Saved
  /\ retrying' = {}
  /\ \/ \E out \in Requeued(EveryTask, Run, Tip(log), "cancel", CancelBoard(Board)) :
          log' = out.log
     \/ UNCHANGED log
  /\ UNCHANGED <<branch, contractVars, minted, known, todo>>

\* The process dies: the log, the branches and the checkpoint survive.
CoreCrash ==
  /\ known
  /\ known' = FALSE
  /\ pc' = "off"
  /\ todo' = {}
  /\ retrying' = {}
  /\ drv' = Saved
  /\ UNCHANGED <<log, branch, contractVars, minted>>

\* set_task_disposition: the same transaction under the run's id; it archives
\* the checkpoint, and with it what the checkpoint had failed.
UserDisposition(t) ==
  /\ LeaseFree /\ known
  /\ \E a \in Dispositions(t) : \E out \in Disposed(t, Run, Tip(log), a[1], a[2]) :
       log' = out.log
  /\ drv' = [u \in Task |-> "none"]
  /\ UNCHANGED <<branch, contractVars, pc, retrying, minted, known, todo>>

\* reset_run deletes the plan ref, which is registered anew; it removes the
\* worktrees but, like every typed cleanup, leaves the task refs.
ResetRun ==
  /\ LeaseFree /\ known
  /\ Len(log) > 1
  /\ log' = <<Registration>>
  /\ branch' = [t \in Task |-> IF branch[t] = 0 THEN 0 ELSE -1]
  /\ UNCHANGED <<contractVars, coreVars>>

Core ==
  \/ \E again \in BOOLEAN : StartRun(again)
  \/ RetryRun(Failed) /\ Failed # {}
  \/ Project
  \/ EndRun
  \/ CancelRun
  \/ CoreCrash
  \/ ResetRun
  \/ \E t \in Task :
       \/ RetryRun({t}) /\ t \in Failed
       \/ Reconcile(t)
       \/ RetryStep(t)
       \/ DriverClaim(t)
       \/ CreateWorktree(t)
       \/ Develop(t)
       \/ DriverFail(t)
       \/ DriverPhaseA(t)
       \/ DriverPhaseB(t)
       \/ UserDisposition(t)

Next == Contract \/ Core

Spec == Init /\ [][Next]_vars

-----------------------------------------------------------------------------
(* Properties *)

\* Whoever published last, the loader accepts the tip: no writer commits a
\* board that the next claim, start or session could not read.
BoardLoads == Coherent(Board)

\* An authored claim is backed by evidence: a task in progress was claimed
\* since it was last requeued or completed.
ClaimBacked ==
  \A t \in Task : Board.status[t] = "InProgress" =>
    \E i \in Having(log, "task-claim", t) :
      \A j \in Transitions(log, t) \cup Having(log, "task-status", t) : j < i

\* A done task is credited with work of its last attempt: its merged_as is a
\* landing of the task, bookkept by a status of the same run, and no requeue of
\* the task or of the plan came between the two, or of the task after them.
DoneIsCurrent ==
  \A t \in Task : Board.status[t] = "Done" =>
    \E i \in Having(log, "task-status", t) :
      /\ log[i].link = Board.merged[t]
      /\ log[i].link \in LandingsOfRun(log, t, log[i].run)
      /\ log[i].link < i
      /\ \A j \in Transitions(log, t) : j < log[i].link \/ j > i
      /\ \A j \in Having(log, "task-transition", t) : j < i

\* Two claims of a task are separated by a requeue of it: neither a second
\* client nor a restarted run claims what is still claimed.
ClaimsSeparated ==
  \A t \in Task : \A i, j \in Having(log, "task-claim", t) : i < j =>
    \E k \in Transitions(log, t) : i < k /\ k < j

\* An authored claim stands on one published claim, and on no more than one.
ClaimsHold == ClaimBacked /\ ClaimsSeparated

\* However often a request is repeated, a run lands a task once and bookkeeps
\* that landing once.
LandedOnce ==
  \A t \in Task :
    /\ \A i, j \in Having(log, "landing", t) : log[i].run = log[j].run => i = j
    /\ \A i, j \in Having(log, "task-status", t) : log[i].link = log[j].link => i = j

\* Only a landing makes a task done, only a requeue of that task (or a reset of
\* the plan) undoes it, and nothing but a requeue unblocks: no other writer of
\* the board moves a task it does not name.
AuthoredMoves ==
  [][\A t \in Task :
       LET was == TipBoard(log).status[t]
           is == TipBoard(log').status[t]
           last == log'[Len(log')]
       IN  (was # is /\ Len(log') > 1) =>
             /\ last.task = t \/ (last.task = EveryTask /\ was = "InProgress")
             /\ is = "Done" => last.phase = "task-status" /\ was # "Blocked" /\ was # "Dropped"
             /\ was \in {"Done", "Blocked"} => is \in {"Planned", "Dropped"}]_vars

\* What landing.rs says of its early return, that a transition supersedes the
\* older evidence: then a claim or landing made after a requeue counts.
EvidenceFollowsHistory ==
  \A t \in Task : InspectTask(log, t) = InspectSince(log, t)

\* What WorktreeManager::create says of a leftover branch: the slot is reset
\* fresh, so the claimed task gets its worktree.
SlotReclaimed ==
  [][\A t \in Task : ~(drv[t] = "claimed" /\ drv'[t] = "failed")]_vars

\* What RetryTask says of itself: the failed task is reset and dispatched.
RetryDispatches ==
  [][pc = "retry" => pc' # "off" \/ ~known']_vars
=============================================================================
