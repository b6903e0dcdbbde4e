------------------------------ MODULE PlanBoard ------------------------------
(***************************************************************************)
(* What a run of a task graph promises, whatever the scheduler does inside *)
(* it: a task starts once all its prerequisites are done, done is final,   *)
(* and a task that never ran is given up only behind one that failed.      *)
(* Scheduler implements it for graph-only runs (PROPERTY Board!Spec).      *)
(***************************************************************************)
EXTENDS FiniteSets

CONSTANTS
  Tasks,
  DependsOn

VARIABLE board

Columns == {"waiting", "running", "done", "failed", "skipped"}

Lost == {"failed", "skipped"}

Init == board = [t \in Tasks |-> "waiting"]

\* A driver is launched for t.
Start(t) ==
  /\ board[t] = "waiting"
  /\ \A d \in DependsOn[t] : board[d] = "done"
  /\ board' = [board EXCEPT ![t] = "running"]

Finish(t) ==
  /\ board[t] = "running"
  /\ board' = [board EXCEPT ![t] = "done"]

\* Running tasks fail, and waiting ones are given up behind a lost prerequisite.
Lose(failing, skipping) ==
  /\ \A t \in failing  : board[t] = "running"
  /\ \A t \in skipping : board[t] = "waiting"
  /\ board' = [t \in Tasks |-> IF t \in failing THEN "failed"
                               ELSE IF t \in skipping THEN "skipped"
                               ELSE board[t]]
  /\ \A t \in skipping : \E d \in DependsOn[t] : board'[d] \in Lost

\* The graph is run again: failed tasks wait again, with the skipped ones that
\* no lost prerequisite holds back any more; an interrupted task may too.
Reopen(reset) ==
  /\ \A t \in reset : board[t] \in Lost \cup {"running"}
  /\ board' = [t \in Tasks |-> IF t \in reset THEN "waiting" ELSE board[t]]
  /\ \A t \in Tasks :
       /\ board'[t] = "skipped" => \E d \in DependsOn[t] : board'[d] \in Lost
       /\ t \in reset /\ board[t] = "skipped" => \A d \in DependsOn[t] : board'[d] \notin Lost

Next ==
  \/ \E t \in Tasks : Start(t) \/ Finish(t)
  \/ \E failing, skipping \in SUBSET Tasks : Lose(failing, skipping)
  \/ \E reset \in SUBSET Tasks : Reopen(reset)

Spec == Init /\ [][Next]_board

-----------------------------------------------------------------------------
TypeOK == board \in [Tasks -> Columns]

\* A task that runs or is done stands on done prerequisites, for good.
StandsOnDone ==
  \A t \in Tasks : board[t] \in {"running", "done"} =>
    \A d \in DependsOn[t] : board[d] = "done"

\* A task is given up only behind a lost prerequisite.
SkippedBehindLost ==
  \A t \in Tasks : board[t] = "skipped" => \E d \in DependsOn[t] : board[d] \in Lost
=============================================================================
