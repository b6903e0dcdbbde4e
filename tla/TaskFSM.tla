------------------------------- MODULE TaskFSM -------------------------------
(***************************************************************************)
(* The per-task finite-state machine of makina-core (state_machine.rs and  *)
(* the TaskState enum of task.rs).  The machine is pure: every event has   *)
(* one target and a set of source states, and any other pair is an         *)
(* IllegalTransition that leaves the task as it was.                       *)
(***************************************************************************)

\* States a scheduled task moves through.
ActiveStates == {"New", "Ready", "InProgress", "InReview"}

\* States a run does not leave, except through the two reset edges.
SettledStates == {"Done", "Failed", "Skipped"}

\* Seed states of authored tasks the scheduler never dispatches.
SeedStates == {"Gated", "Blocked", "Dropped"}

TaskStates == ActiveStates \cup SettledStates \cup SeedStates

\* From[e]: the states in which transition(s, e) is Ok.
From ==
  [ DependenciesSatisfied |-> {"New"},
    Dispatched            |-> {"Ready"},
    GateFailed            |-> {"InProgress"},
    GatesPassed           |-> {"InProgress"},
    GateCapReached        |-> {"InProgress"},
    HardError             |-> {"Ready", "InProgress", "InReview"},
    WallClockCapReached   |-> {"Ready", "InProgress", "InReview"},
    ReviewerRejected      |-> {"InReview"},
    ReviewerApproved      |-> {"InReview"},
    ReviewCapReached      |-> {"InReview"},
    MergeConflict         |-> {"InReview"},
    DependencyFailed      |-> {"New", "Ready", "InProgress", "InReview"},
    RetryRequested        |-> {"Failed"},
    DependencyReset       |-> {"Skipped"} ]

\* Target[e]: the state a legal e leads to.
Target ==
  [ DependenciesSatisfied |-> "Ready",
    Dispatched            |-> "InProgress",
    GateFailed            |-> "InProgress",
    GatesPassed           |-> "InReview",
    GateCapReached        |-> "Failed",
    HardError             |-> "Failed",
    WallClockCapReached   |-> "Failed",
    ReviewerRejected      |-> "InProgress",
    ReviewerApproved      |-> "Done",
    ReviewCapReached      |-> "Failed",
    MergeConflict         |-> "Failed",
    DependencyFailed      |-> "Skipped",
    RetryRequested        |-> "New",
    DependencyReset       |-> "New" ]

Events == DOMAIN Target

Legal(s, e) == s \in From[e]

\* apply_event_locked's effect on one task: an illegal event changes nothing.
After(s, e) == IF Legal(s, e) THEN Target[e] ELSE s

\* is_terminal: Gated is not among them.
IsTerminal(s) == s \in SettledStates \cup {"Blocked", "Dropped"}
=============================================================================
