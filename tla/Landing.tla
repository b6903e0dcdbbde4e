------------------------------- MODULE Landing -------------------------------
(***************************************************************************)
(* The evidence a registered plan keeps of itself: the first-parent log of *)
(* its ref and the board (task frontmatter and STATUS.md) each commit      *)
(* carries, as landing.rs, merge.rs, plan.rs and plan_status.rs read and   *)
(* write them.  There is no state here: a log is a sequence of commits,    *)
(* the oid of a commit is its position, and 0 is no oid.                   *)
(*                                                                         *)
(* Every caller derives what happened to a task from this log alone, so    *)
(* the operators below decide what a restarted run may do, and when a      *)
(* repeated request is answered from a commit that is already there.       *)
(***************************************************************************)
EXTENDS Integers, FiniteSets, Sequences

CONSTANTS
  Task,        \* the task ids of the plan
  EveryTask,   \* the task trailer of a plan-wide transition ("all")
  DropAnchor   \* TRUE: STATUS.md has the section a disposition appends to

ASSUME LandingAssumption ==
  /\ IsFiniteSet(Task)
  /\ EveryTask \notin Task
  /\ DropAnchor \in BOOLEAN

AuthoredStatus == {"Planned", "InProgress", "Done", "Blocked", "Dropped"}

IntegrationState == {"planned", "assembling", "awaiting"}

\* What one commit says of the plan: the lifecycle state, the status, merged_as
\* and gate of each task, and the tasks with an open entry under Exceptions.
Boards == [state  : IntegrationState,
           status : [Task -> AuthoredStatus],
           merged : [Task -> Nat],
           gated  : SUBSET Task,
           open   : SUBSET Task]

\* verify_rendered_status: no renderer commits a board the loader refuses.
Coherent(b) ==
  /\ b.state = "planned" => \A t \in Task : b.status[t] = "Planned"
  /\ b.state = "assembling" =>
       \E t \in Task : b.status[t] \in {"Planned", "InProgress"}
  /\ b.state = "awaiting" => \A t \in Task : b.status[t] # "InProgress"
  /\ b.open = {t \in Task : b.status[t] \in {"Blocked", "Dropped"}}

\* update_bookkeeping: only a done task has a merged_as.
SetStatus(b, t, status, oid) ==
  [b EXCEPT !.status[t] = status, !.merged[t] = oid]

ClaimBoard(b, t) ==
  [SetStatus(b, t, "InProgress", 0) EXCEPT !.state = "assembling"]

DoneBoard(b, t, oid) ==
  LET done == SetStatus(b, t, "Done", oid)
      terminal == \A u \in Task : done.status[u] \in {"Done", "Dropped"}
  IN  [done EXCEPT !.state = IF terminal THEN "awaiting" ELSE "assembling"]

\* append_blocker_exception adds an entry; a second open entry is malformed.
BlockBoard(b, t) ==
  [SetStatus(b, t, "Blocked", 0) EXCEPT !.open = @ \cup {t}]

\* Mutant: a requeue leaves the task in progress.
RequeueInProgress(b, t) ==
  [SetStatus(b, t, "InProgress", 0)
     EXCEPT !.open = IF b.status[t] = "Blocked" THEN @ \ {t} ELSE @]

\* Retry and Requeue resolve the entry of a blocked task only.
RequeueBoard(b, t) ==
  [SetStatus(b, t, "Planned", 0)
     EXCEPT !.open = IF b.status[t] = "Blocked" THEN @ \ {t} ELSE @]

\* Mutant: the cancellation of a run requeues what it had finished as well.
CancelDone(b) ==
  [b EXCEPT !.status = [t \in Task |->
     IF b.status[t] \in {"InProgress", "Done"} THEN "Planned" ELSE b.status[t]]]

\* Cancellation of a run returns every task in progress to planned.
CancelBoard(b) ==
  [b EXCEPT !.status = [t \in Task |->
     IF b.status[t] = "InProgress" THEN "Planned" ELSE b.status[t]]]

UngateBoard(b, t) == [b EXCEPT !.gated = @ \ {t}]

\* append_disposition_exception writes a section of its own, not the bullet
\* that validate_plan_status counts: the open entries stay as they were.
DropBoard(b, t) == SetStatus(b, t, "Dropped", 0)

-----------------------------------------------------------------------------
(* Commits and their trailers *)

Phases == {"registration", "task-claim", "landing", "task-status",
           "task-transition", "task-disposition"}

\* What a commit is said to do: a closed set, which the core and the contract's
\* coordinator name; a claim, a landing and a status need no name.
Actions == {"", "register", "blocker", "retry", "requeue", "cancel", "reconcile",
            "ungate", "drop"}

\* link: Makina-Landing of a status, Makina-Previous-Plan of a transition.
CommitOf(phase, task, run, link, action, board) ==
  [phase |-> phase, task |-> task, run |-> run, link |-> link,
   action |-> action, board |-> board]

Tip(log) == Len(log)

TipBoard(log) == log[Len(log)].board

Having(log, phase, t) ==
  {i \in 1..Len(log) : log[i].phase = phase /\ log[i].task = t}

\* A transition of the task, or of the whole plan.
Transitions(log, t) ==
  Having(log, "task-transition", t) \cup Having(log, "task-transition", EveryTask)

TheOnly(S) == CHOOSE x \in S : TRUE

-----------------------------------------------------------------------------
(* inspect_task_evidence *)

Evidence(state, oid) == [state |-> state, oid |-> oid]

\* The verdict on the claims, landings and statuses found.
Judge(log, claims, landings, statuses) ==
  IF \E S \in {claims, landings, statuses} : Cardinality(S) > 1
    THEN Evidence("Ambiguous", 0)
  ELSE IF landings # {} /\ statuses # {}
    THEN IF log[TheOnly(statuses)].link = TheOnly(landings)
           THEN Evidence("Complete", TheOnly(landings))
           ELSE Evidence("Ambiguous", 0)
  ELSE IF landings # {} THEN Evidence("LandingPending", TheOnly(landings))
  ELSE IF statuses # {} THEN Evidence("Ambiguous", 0)
  ELSE IF claims # {} THEN Evidence("Claimed", TheOnly(claims))
  ELSE Evidence("RegistrationOnly", 0)

\* A transition anywhere in the lineage ends the walk at "registration only",
\* whatever was claimed or landed after it.
InspectTask(log, t) ==
  IF Transitions(log, t) # {} THEN Evidence("RegistrationOnly", 0)
  ELSE Judge(log, Having(log, "task-claim", t), Having(log, "landing", t),
             Having(log, "task-status", t))

\* What the comment above the early return promises: a transition supersedes
\* the claims and landings that are older than it.
InspectSince(log, t) ==
  LET Later(S) == {i \in S : \A j \in Transitions(log, t) : i > j}
  IN  Judge(log, Later(Having(log, "task-claim", t)),
            Later(Having(log, "landing", t)), Later(Having(log, "task-status", t)))

-----------------------------------------------------------------------------
(* The lookups that answer a repeated request from the log *)

\* find_claim, find_task_landing: exact plan, task and run.
ClaimsOfRun(log, t, r) ==
  {i \in Having(log, "task-claim", t) : log[i].run = r}

LandingsOfRun(log, t, r) ==
  {i \in Having(log, "landing", t) : log[i].run = r}

\* find_status_landing: the run and the landing must match too.
StatusesOf(log, t, r, landing) ==
  {i \in Having(log, "task-status", t) :
     log[i].run = r /\ log[i].link = landing}

\* commit_source_transition reuses the commit with the same previous plan oid.
TransitionsOf(log, t, r, action, previous) ==
  {i \in Having(log, "task-transition", t) :
     log[i].run = r /\ log[i].action = action /\ log[i].link = previous}
=============================================================================
