-------------------------- MODULE PlanLedgerProofs --------------------------
(***************************************************************************)
(* Theorems about PlanLedger, for every plan, every set of clients and     *)
(* every number of runs and commits.                                       *)
(*                                                                         *)
(* Nothing of what the ledger promises is about the writers: it is about   *)
(* the lineage they leave.  Chronicle says of a lineage, whoever wrote it, *)
(* what the next writer may rely on; Entry says what commits a writer may  *)
(* append.  Every entry keeps the chronicle, and every step of the         *)
(* contract or of the core appends entries, publishes nothing, or starts   *)
(* the lineage anew.  For the last fact one must know who may write:       *)
(* Leases keeps the session and the run apart, Drivers says what a driver  *)
(* knows of the board, HeldLandings what a session remembers.              *)
(***************************************************************************)
EXTENDS PlanLedger, TLAPS

(* What the lineage says *)

\* A planned task stands on no claim: each was followed by a requeue of it.
Withdrawn(l) ==
  \A t \in Task : TipBoard(l).status[t] = "Planned" =>
    \A i \in Having(l, "task-claim", t) : \E k \in Transitions(l, t) : i < k

Backed(l) ==
  \A t \in Task : TipBoard(l).status[t] = "InProgress" =>
    \E i \in Having(l, "task-claim", t) :
      \A j \in Transitions(l, t) \cup Having(l, "task-status", t) : j < i

Separated(l) ==
  \A t \in Task : \A i, j \in Having(l, "task-claim", t) : i < j =>
    \E k \in Transitions(l, t) : i < k /\ k < j

\* A status names an older commit.
Linked(l) == \A t \in Task : \A i \in Having(l, "task-status", t) : l[i].link < i

\* Status i of task t credits work of its last attempt.
Credits(l, t, i) ==
  /\ l[i].link = TipBoard(l).merged[t]
  /\ l[i].link \in LandingsOfRun(l, t, l[i].run)
  /\ l[i].link < i
  /\ \A j \in Transitions(l, t) : j < l[i].link \/ j > i
  /\ \A j \in Having(l, "task-transition", t) : j < i

Current(l) ==
  \A t \in Task : TipBoard(l).status[t] = "Done" =>
    \E i \in Having(l, "task-status", t) : Credits(l, t, i)

LandsOnce(l) ==
  \A t \in Task :
    \A i, j \in Having(l, "landing", t) : l[i].run = l[j].run => i = j

CreditsOnce(l) ==
  \A t \in Task :
    \A i, j \in Having(l, "task-status", t) : l[i].link = l[j].link => i = j

Chronicle(l) ==
  /\ Coherent(TipBoard(l))
  /\ Withdrawn(l) /\ Backed(l) /\ Separated(l)
  /\ Linked(l) /\ Current(l) /\ LandsOnce(l) /\ CreditsOnce(l)

(* What a writer appends *)

ClaimEntry(l, c) ==
  \E t \in Task, r \in RunIds :
    /\ c = CommitOf("task-claim", t, r, 0, "", ClaimBoard(TipBoard(l), t))
    /\ TipBoard(l).status[t] = "Planned"

LandingEntry(l, c) ==
  \E t \in Task, r \in RunIds :
    /\ c = CommitOf("landing", t, r, 0, "", TipBoard(l))
    /\ LandingsOfRun(l, t, r) = {}

\* A status of a landing that nothing has taken back, nor credited, since.
StatusEntry(l, c) ==
  \E t \in Task, r \in RunIds, o \in Nat :
    /\ c = CommitOf("task-status", t, r, o, "", DoneBoard(TipBoard(l), t, o))
    /\ TipBoard(l).status[t] \in {"Planned", "InProgress"}
    /\ o \in LandingsOfRun(l, t, r)
    /\ \A j \in Transitions(l, t) : j < o
    /\ \A i \in Having(l, "task-status", t) : l[i].link # o

TransitionBoards(b, t) ==
  {RequeueBoard(b, t), SetStatus(b, t, "Planned", 0)}
    \cup {x \in {BlockBoard(b, t)} : b.status[t] \notin {"Done", "Dropped", "Blocked"}}

TransitionEntry(l, c) ==
  \E t \in Task, r \in RunIds, o \in Nat, a \in Actions :
    \E b \in TransitionBoards(TipBoard(l), t) :
      c = CommitOf("task-transition", t, r, o, a, b)

CancelEntry(l, c) ==
  \E r \in RunIds, o \in Nat :
    c = CommitOf("task-transition", EveryTask, r, o, "cancel", CancelBoard(TipBoard(l)))

DispositionEntry(l, c) ==
  \E t \in Task, r \in RunIds, a \in Actions, b \in Boards :
    /\ c = CommitOf("task-disposition", t, r, 0, a, b)
    /\ \/ b = UngateBoard(TipBoard(l), t)
       \/ /\ b = DropBoard(TipBoard(l), t)
          /\ TipBoard(l).status[t] \notin {"Done", "InProgress"}

Entry(l, c) ==
  /\ Coherent(c.board)
  /\ \/ ClaimEntry(l, c)
     \/ LandingEntry(l, c)
     \/ StatusEntry(l, c)
     \/ TransitionEntry(l, c)
     \/ CancelEntry(l, c)
     \/ DispositionEntry(l, c)

Extends(l, m) == \E c \in Commits : Entry(l, c) /\ m = Append(l, c)

\* What a step may do to the lineage; only LandTask publishes twice.
LogStep(l, m) ==
  \/ m = l
  \/ Extends(l, m)
  \/ \E c \in Commits :
       Entry(l, c) /\ LandingEntry(l, c) /\ Extends(Append(l, c), m)
  \/ m = <<Registration>>

(* What the writers know *)

\* The repository lease keeps a session and a run apart, and only a run that
\* has an id works.
Leases ==
  /\ session # NoSession => pc = "off"
  /\ pc # "off" => known
  /\ known => minted # 0

\* What a driver knows of the board, and of the landing it published.
Drivers ==
  /\ pc \in {"off", "reconcile"} => \A t \in Task : drv[t] \in {"none", "failed"}
  /\ pc = "retry" =>
       /\ \A t \in Task : drv[t] \in {"none", "failed", "idle"}
       /\ \A t \in retrying : Board.status[t] = "Planned"
  /\ \A t \in Task : drv[t] = "idle" => Board.status[t] = "Planned"
  /\ \A t \in Task : drv[t] \in {"claimed", "working", "landed"} =>
       Board.status[t] \in {"Planned", "InProgress"}
  /\ \A t \in Task : drv[t] = "landed" => LandingsOfRun(log, t, Run) # {}

\* The landing a session remembers is one of its own.
HeldLandings ==
  \A t \in Task : session.phaseA[t] # 0 =>
    session.phaseA[t] \in LandingsOfRun(log, t, session.run)

Ledger == TypeOK /\ Leases /\ Drivers /\ HeldLandings /\ Chronicle(log)

-----------------------------------------------------------------------------
(* Reading a lineage that grew by one commit *)

LEMMA Reading ==
  ASSUME NEW l \in Seq(Commits), NEW p, NEW t, NEW i \in Having(l, p, t)
  PROVE  i \in Nat /\ i # 0 /\ i <= Len(l) /\ l[i].phase = p /\ l[i].task = t
BY DEF Having

\* m is l with one commit more, which leaves what is older where it was.
Grows(l, c, m) ==
  l \in Seq(Commits) /\ l # <<>> /\ c \in Commits /\ m = Append(l, c)

LEMMA Grown ==
  ASSUME NEW l, NEW c, NEW m, Grows(l, c, m)
  PROVE  /\ m \in Seq(Commits) /\ m # <<>>
         /\ Len(l) \in Nat /\ Len(l) # 0 /\ Len(m) = Len(l) + 1
         /\ m[Len(m)] = c
         /\ TipBoard(m) = c.board
         /\ \A i \in 1 .. Len(l) : m[i] = l[i]
BY DEF TipBoard, Grows

\* What it has of a task is what was there, and perhaps the new commit.
LEMMA GrownHaving ==
  ASSUME NEW l, NEW c, NEW m, Grows(l, c, m), NEW p, NEW t
  PROVE  /\ \A i \in Having(l, p, t) : i \in Having(m, p, t) /\ m[i] = l[i]
         /\ \A i \in Having(m, p, t) :
              i \in Having(l, p, t) \/ (i = Len(m) /\ c.phase = p /\ c.task = t)
         /\ (c.phase = p /\ c.task = t) => Len(m) \in Having(m, p, t)
<1>1. /\ Len(l) \in Nat /\ Len(m) = Len(l) + 1 /\ m[Len(m)] = c
      /\ \A i \in 1 .. Len(l) : m[i] = l[i]
  BY Grown
<1>2. \A i \in 1 .. Len(m) : i \in 1 .. Len(l) \/ i = Len(m)
  BY <1>1
<1>3. 1 .. Len(l) \subseteq 1 .. Len(m) /\ Len(m) \in 1 .. Len(m)
  BY <1>1
<1>4. \A i \in Having(l, p, t) : i \in Having(m, p, t) /\ m[i] = l[i]
  BY <1>1, <1>3 DEF Having
<1>5. \A i \in Having(m, p, t) :
        i \in Having(l, p, t) \/ (i = Len(m) /\ c.phase = p /\ c.task = t)
  BY <1>1, <1>2 DEF Having
<1>6. (c.phase = p /\ c.task = t) => Len(m) \in Having(m, p, t)
  BY <1>1, <1>3 DEF Having
<1> QED BY <1>4, <1>5, <1>6

LEMMA GrownLandings ==
  ASSUME NEW l, NEW c, NEW m, Grows(l, c, m), NEW t, NEW r
  PROVE  /\ \A i \in LandingsOfRun(l, t, r) : i \in LandingsOfRun(m, t, r)
         /\ (c.phase = "landing" /\ c.task = t /\ c.run = r) =>
              Len(m) \in LandingsOfRun(m, t, r)
<1>1. m[Len(m)] = c
  BY Grown
<1>2. \A i \in Having(l, "landing", t) : i \in Having(m, "landing", t) /\ m[i] = l[i]
  BY GrownHaving
<1>3. (c.phase = "landing" /\ c.task = t) => Len(m) \in Having(m, "landing", t)
  BY GrownHaving
<1> QED BY <1>1, <1>2, <1>3 DEF LandingsOfRun

LEMMA GrownTransitions ==
  ASSUME NEW l, NEW c, NEW m, Grows(l, c, m), NEW t
  PROVE  /\ \A j \in Transitions(l, t) : j \in Transitions(m, t)
         /\ \A j \in Transitions(m, t) :
              j \in Transitions(l, t)
                \/ (j = Len(m) /\ c.phase = "task-transition" /\ c.task \in {t, EveryTask})
         /\ (c.phase = "task-transition" /\ c.task \in {t, EveryTask}) =>
              Len(m) \in Transitions(m, t)
<1>1. /\ \A j \in Having(l, "task-transition", t) : j \in Having(m, "task-transition", t)
      /\ \A j \in Having(l, "task-transition", EveryTask) :
           j \in Having(m, "task-transition", EveryTask)
  BY GrownHaving
<1>2. /\ \A j \in Having(m, "task-transition", t) :
           j \in Having(l, "task-transition", t)
             \/ (j = Len(m) /\ c.phase = "task-transition" /\ c.task = t)
      /\ \A j \in Having(m, "task-transition", EveryTask) :
           j \in Having(l, "task-transition", EveryTask)
             \/ (j = Len(m) /\ c.phase = "task-transition" /\ c.task = EveryTask)
  BY GrownHaving
<1>3. /\ (c.phase = "task-transition" /\ c.task = t) =>
           Len(m) \in Having(m, "task-transition", t)
      /\ (c.phase = "task-transition" /\ c.task = EveryTask) =>
           Len(m) \in Having(m, "task-transition", EveryTask)
  BY GrownHaving
<1> QED BY <1>1, <1>2, <1>3 DEF Transitions

LEMMA TransitionsRead ==
  ASSUME NEW l \in Seq(Commits), NEW t, NEW i \in Transitions(l, t)
  PROVE  i \in Nat /\ i # 0 /\ i <= Len(l) /\ l[i].phase = "task-transition"
BY Reading DEF Transitions

LEMMA TheOnlyMember == ASSUME NEW S, S # {} PROVE TheOnly(S) \in S
BY DEF TheOnly

-----------------------------------------------------------------------------
(* The boards *)

LEMMA BoardsMade ==
  ASSUME NEW b \in Boards, NEW t \in Task, NEW o \in Nat
  PROVE  /\ ClaimBoard(b, t) \in Boards
         /\ DoneBoard(b, t, o) \in Boards
         /\ BlockBoard(b, t) \in Boards
         /\ RequeueBoard(b, t) \in Boards
         /\ SetStatus(b, t, "Planned", 0) \in Boards
         /\ CancelBoard(b) \in Boards
         /\ UngateBoard(b, t) \in Boards
         /\ DropBoard(b, t) \in Boards
<1>1. \A s \in AuthoredStatus, n \in Nat : SetStatus(b, t, s, n) \in Boards
  BY DEF Boards, SetStatus
<1>2. /\ "Planned" \in AuthoredStatus /\ "InProgress" \in AuthoredStatus
      /\ "Done" \in AuthoredStatus /\ "Blocked" \in AuthoredStatus
      /\ "Dropped" \in AuthoredStatus
  BY DEF AuthoredStatus
<1>3. \A x \in Boards, s \in IntegrationState : [x EXCEPT !.state = s] \in Boards
  BY DEF Boards
<1>4. \A x \in Boards, S \in SUBSET Task : [x EXCEPT !.open = S] \in Boards
  BY DEF Boards
<1>5. "assembling" \in IntegrationState /\ "awaiting" \in IntegrationState
  BY DEF IntegrationState
<1>6. ClaimBoard(b, t) \in Boards
  BY <1>1, <1>2, <1>3, <1>5 DEF ClaimBoard
<1>7. DoneBoard(b, t, o) \in Boards
  BY <1>1, <1>2, <1>3, <1>5 DEF DoneBoard
<1>8. \A x \in Boards : x.open \subseteq Task
  BY DEF Boards
<1>9. BlockBoard(b, t) \in Boards
  <2>1. SetStatus(b, t, "Blocked", 0) \in Boards
    BY <1>1, <1>2
  <2> QED BY <2>1, <1>4, <1>8 DEF BlockBoard
<1>10. RequeueBoard(b, t) \in Boards
  <2>1. SetStatus(b, t, "Planned", 0) \in Boards
    BY <1>1, <1>2
  <2> QED BY <2>1, <1>4, <1>8 DEF RequeueBoard
<1>11. CancelBoard(b) \in Boards
  BY <1>2 DEF CancelBoard, Boards
<1>12. UngateBoard(b, t) \in Boards
  BY DEF UngateBoard, Boards
<1>13. DropBoard(b, t) \in Boards
  BY <1>1, <1>2 DEF DropBoard
<1> QED BY <1>1, <1>2, <1>6, <1>7, <1>9, <1>10, <1>11, <1>12, <1>13

\* What each board says of the task it names, and of the others.
LEMMA BoardsRead ==
  ASSUME NEW b \in Boards, NEW t \in Task
  PROVE  /\ ClaimBoard(b, t).status = [b.status EXCEPT ![t] = "InProgress"]
         /\ ClaimBoard(b, t).merged = [b.merged EXCEPT ![t] = 0]
         /\ BlockBoard(b, t).status = [b.status EXCEPT ![t] = "Blocked"]
         /\ BlockBoard(b, t).merged = [b.merged EXCEPT ![t] = 0]
         /\ RequeueBoard(b, t).status = [b.status EXCEPT ![t] = "Planned"]
         /\ RequeueBoard(b, t).merged = [b.merged EXCEPT ![t] = 0]
         /\ SetStatus(b, t, "Planned", 0).status = [b.status EXCEPT ![t] = "Planned"]
         /\ SetStatus(b, t, "Planned", 0).merged = [b.merged EXCEPT ![t] = 0]
         /\ CancelBoard(b).merged = b.merged
         /\ UngateBoard(b, t).status = b.status
         /\ UngateBoard(b, t).merged = b.merged
         /\ DropBoard(b, t).status = [b.status EXCEPT ![t] = "Dropped"]
         /\ DropBoard(b, t).merged = [b.merged EXCEPT ![t] = 0]
<1>1. \A s, n : /\ SetStatus(b, t, s, n).status = [b.status EXCEPT ![t] = s]
                /\ SetStatus(b, t, s, n).merged = [b.merged EXCEPT ![t] = n]
                /\ DOMAIN SetStatus(b, t, s, n)
                     = {"state", "status", "merged", "gated", "open"}
  BY DEF Boards, SetStatus
<1>2. ClaimBoard(b, t).status = [b.status EXCEPT ![t] = "InProgress"]
      /\ ClaimBoard(b, t).merged = [b.merged EXCEPT ![t] = 0]
  BY <1>1 DEF ClaimBoard
<1>4. BlockBoard(b, t).status = [b.status EXCEPT ![t] = "Blocked"]
      /\ BlockBoard(b, t).merged = [b.merged EXCEPT ![t] = 0]
  BY <1>1 DEF BlockBoard
<1>5. RequeueBoard(b, t).status = [b.status EXCEPT ![t] = "Planned"]
      /\ RequeueBoard(b, t).merged = [b.merged EXCEPT ![t] = 0]
  BY <1>1 DEF RequeueBoard
<1>6. CancelBoard(b).merged = b.merged
  BY DEF CancelBoard, Boards
<1>7. UngateBoard(b, t).status = b.status /\ UngateBoard(b, t).merged = b.merged
  BY DEF UngateBoard, Boards
<1>8. DropBoard(b, t).status = [b.status EXCEPT ![t] = "Dropped"]
      /\ DropBoard(b, t).merged = [b.merged EXCEPT ![t] = 0]
  BY <1>1 DEF DropBoard
<1> QED BY <1>1, <1>2, <1>4, <1>5, <1>6, <1>7, <1>8

LEMMA DoneRead ==
  ASSUME NEW b \in Boards, NEW t \in Task, NEW o
  PROVE  /\ DoneBoard(b, t, o).status = [b.status EXCEPT ![t] = "Done"]
         /\ DoneBoard(b, t, o).merged = [b.merged EXCEPT ![t] = o]
<1>1. /\ SetStatus(b, t, "Done", o).status = [b.status EXCEPT ![t] = "Done"]
      /\ SetStatus(b, t, "Done", o).merged = [b.merged EXCEPT ![t] = o]
      /\ DOMAIN SetStatus(b, t, "Done", o)
           = {"state", "status", "merged", "gated", "open"}
  BY DEF Boards, SetStatus
<1> QED BY <1>1 DEF DoneBoard

LEMMA CancelRead ==
  ASSUME NEW b \in Boards, NEW u \in Task
  PROVE  CancelBoard(b).status[u] =
           IF b.status[u] = "InProgress" THEN "Planned" ELSE b.status[u]
BY DEF CancelBoard, Boards

-----------------------------------------------------------------------------
(* What an entry does to one task *)

Requeues(c, u) == c.phase = "task-transition" /\ c.task \in {u, EveryTask}

Credited(c, u) == c.phase = "task-status" /\ c.task = u

Claims(c, u) == c.phase = "task-claim" /\ c.task = u

\* The move of task u from one board to the next, and the commit that made it.
Moved(c, u, was, is) ==
  was # is =>
    /\ c.task = u \/ (c.task = EveryTask /\ was = "InProgress")
    /\ is = "Done" => c.phase = "task-status" /\ was # "Blocked" /\ was # "Dropped"
    /\ was \in {"Done", "Blocked"} => is \in {"Planned", "Dropped"}

Treats(l, c, u) ==
  LET was == TipBoard(l).status[u]
      is == c.board.status[u]
  IN  /\ is = "Planned" => ~Claims(c, u) /\ (was = "Planned" \/ Requeues(c, u))
      /\ is = "InProgress" =>
           Claims(c, u) \/ (was = "InProgress" /\ ~Requeues(c, u) /\ ~Credited(c, u))
      /\ is = "Done" =>
           \/ Credited(c, u) /\ c.board.merged[u] = c.link
           \/ /\ was = "Done" /\ c.board.merged[u] = TipBoard(l).merged[u]
              /\ ~Credited(c, u) /\ ~(c.phase = "task-transition" /\ c.task = u)
      /\ Claims(c, u) => was = "Planned"
      /\ (c.phase = "landing" /\ c.task = u) => LandingsOfRun(l, u, c.run) = {}
      /\ Credited(c, u) =>
           /\ c.link \in LandingsOfRun(l, u, c.run)
           /\ \A j \in Transitions(l, u) : j < c.link
           /\ \A i \in Having(l, "task-status", u) : l[i].link # c.link
      /\ Moved(c, u, was, is)

LEMMA TipTyped ==
  ASSUME NEW l \in Seq(Commits), l # <<>>
  PROVE  /\ TipBoard(l) \in Boards
         /\ TipBoard(l).status \in [Task -> AuthoredStatus]
         /\ TipBoard(l).merged \in [Task -> Nat]
<1>1. l[Len(l)] \in Commits
  OBVIOUS
<1>2. TipBoard(l) \in Boards
  BY <1>1 DEF TipBoard, Commits
<1> QED BY <1>2 DEF Boards

LEMMA EntryTreats ==
  ASSUME NEW l \in Seq(Commits), l # <<>>, NEW c, Entry(l, c), NEW u \in Task
  PROVE  Treats(l, c, u)
<1> DEFINE b == TipBoard(l)
<1>1. /\ b \in Boards /\ b.status \in [Task -> AuthoredStatus]
      /\ b.merged \in [Task -> Nat]
  BY TipTyped
<1>2. EveryTask \notin Task
  BY LandingAssumption
<1> HIDE DEF b
<1>3. CASE ClaimEntry(l, c)
  <2>1. PICK t \in Task, r \in RunIds :
          /\ c = CommitOf("task-claim", t, r, 0, "", ClaimBoard(b, t))
          /\ b.status[t] = "Planned"
    BY <1>3 DEF ClaimEntry, b
  <2>2. /\ c.phase = "task-claim" /\ c.task = t
        /\ c.board.status = [b.status EXCEPT ![t] = "InProgress"]
        /\ c.board.merged = [b.merged EXCEPT ![t] = 0]
    <3>1. c.phase = "task-claim" /\ c.task = t /\ c.board = ClaimBoard(b, t)
      BY <2>1 DEF CommitOf
    <3>2. /\ ClaimBoard(b, t).status = [b.status EXCEPT ![t] = "InProgress"]
          /\ ClaimBoard(b, t).merged = [b.merged EXCEPT ![t] = 0]
      BY <1>1, BoardsRead
    <3> QED BY <3>1, <3>2
  <2>3. CASE u = t
    BY <1>1, <1>2, <2>1, <2>2, <2>3 DEF Treats, Moved, Claims, Requeues, Credited, b
  <2>4. CASE u # t
    BY <1>1, <1>2, <2>1, <2>2, <2>4 DEF Treats, Moved, Claims, Requeues, Credited, b
  <2> QED BY <2>3, <2>4
<1>4. CASE LandingEntry(l, c)
  <2>1. PICK t \in Task, r \in RunIds :
          /\ c = CommitOf("landing", t, r, 0, "", b)
          /\ LandingsOfRun(l, t, r) = {}
    BY <1>4 DEF LandingEntry, b
  <2>2. c.phase = "landing" /\ c.task = t /\ c.run = r /\ c.board = b
    BY <2>1 DEF CommitOf
  <2> QED BY <1>1, <1>2, <2>1, <2>2 DEF Treats, Moved, Claims, Requeues, Credited, b
<1>5. CASE StatusEntry(l, c)
  <2>1. PICK t \in Task, r \in RunIds, o \in Nat :
          /\ c = CommitOf("task-status", t, r, o, "", DoneBoard(b, t, o))
          /\ b.status[t] \in {"Planned", "InProgress"}
          /\ o \in LandingsOfRun(l, t, r)
          /\ \A j \in Transitions(l, t) : j < o
          /\ \A i \in Having(l, "task-status", t) : l[i].link # o
    BY <1>5 DEF StatusEntry, b
  <2>2. /\ c.phase = "task-status" /\ c.task = t /\ c.run = r /\ c.link = o
        /\ c.board.status = [b.status EXCEPT ![t] = "Done"]
        /\ c.board.merged = [b.merged EXCEPT ![t] = o]
    <3>1. /\ c.phase = "task-status" /\ c.task = t /\ c.run = r /\ c.link = o
          /\ c.board = DoneBoard(b, t, o)
      BY <2>1 DEF CommitOf
    <3>2. DoneBoard(b, t, o).status = [b.status EXCEPT ![t] = "Done"]
      BY <1>1, DoneRead
    <3>3. DoneBoard(b, t, o).merged = [b.merged EXCEPT ![t] = o]
      BY <1>1 DEF DoneBoard, SetStatus, Boards
    <3> QED BY <3>1, <3>2, <3>3
  <2>3. CASE u = t
    <3>1. b.status[u] \in {"Planned", "InProgress"} /\ c.board.status[u] = "Done"
      BY <1>1, <2>1, <2>2, <2>3
    <3>2. c.board.merged[u] = o /\ c.task = u
      BY <1>1, <2>2, <2>3
    <3>3. ~Claims(c, u) /\ ~Requeues(c, u) /\ Credited(c, u)
      BY <2>2, <2>3 DEF Claims, Requeues, Credited
    <3>4. Moved(c, u, b.status[u], c.board.status[u])
      BY <2>2, <3>1, <3>2 DEF Moved
    <3>5. /\ c.link \in LandingsOfRun(l, u, c.run)
          /\ \A j \in Transitions(l, u) : j < c.link
          /\ \A i \in Having(l, "task-status", u) : l[i].link # c.link
      BY <2>1, <2>2, <2>3
    <3> QED BY <2>2, <3>1, <3>2, <3>3, <3>4, <3>5 DEF Treats, b
  <2>4. CASE u # t
    BY <1>1, <1>2, <2>1, <2>2, <2>4 DEF Treats, Moved, Claims, Requeues, Credited, b
  <2> QED BY <2>3, <2>4
<1>6. CASE TransitionEntry(l, c)
  <2>0. PICK t \in Task, r \in RunIds, o \in Nat, a \in Actions :
          \E x \in TransitionBoards(b, t) : c = CommitOf("task-transition", t, r, o, a, x)
    BY <1>6 DEF TransitionEntry, b
  <2>1. PICK x \in TransitionBoards(b, t) : c = CommitOf("task-transition", t, r, o, a, x)
    BY <2>0
  <2>2. c.phase = "task-transition" /\ c.task = t /\ c.board = x
    BY <2>1 DEF CommitOf
  <2>3. CASE x.status = [b.status EXCEPT ![t] = "Planned"]
              /\ x.merged = [b.merged EXCEPT ![t] = 0]
    <3>1. CASE u = t
      BY <1>1, <1>2, <2>2, <2>3, <3>1 DEF Treats, Moved, Claims, Requeues, Credited, b
    <3>2. CASE u # t
      BY <1>1, <1>2, <2>2, <2>3, <3>2 DEF Treats, Moved, Claims, Requeues, Credited, b
    <3> QED BY <3>1, <3>2
  <2>4. CASE /\ x.status = [b.status EXCEPT ![t] = "Blocked"]
             /\ x.merged = [b.merged EXCEPT ![t] = 0]
             /\ b.status[t] \notin {"Done", "Dropped", "Blocked"}
    <3>1. CASE u = t
      BY <1>1, <1>2, <2>2, <2>4, <3>1 DEF Treats, Moved, Claims, Requeues, Credited, b
    <3>2. CASE u # t
      BY <1>1, <1>2, <2>2, <2>4, <3>2 DEF Treats, Moved, Claims, Requeues, Credited, b
    <3> QED BY <3>1, <3>2
  <2>5. \/ x = RequeueBoard(b, t)
        \/ x = SetStatus(b, t, "Planned", 0)
        \/ x = BlockBoard(b, t) /\ b.status[t] \notin {"Done", "Dropped", "Blocked"}
    BY <2>1 DEF TransitionBoards
  <2>6. /\ BlockBoard(b, t).status = [b.status EXCEPT ![t] = "Blocked"]
        /\ BlockBoard(b, t).merged = [b.merged EXCEPT ![t] = 0]
        /\ RequeueBoard(b, t).status = [b.status EXCEPT ![t] = "Planned"]
        /\ RequeueBoard(b, t).merged = [b.merged EXCEPT ![t] = 0]
        /\ SetStatus(b, t, "Planned", 0).status = [b.status EXCEPT ![t] = "Planned"]
        /\ SetStatus(b, t, "Planned", 0).merged = [b.merged EXCEPT ![t] = 0]
    BY <1>1, BoardsRead
  <2> QED BY <2>3, <2>4, <2>5, <2>6
<1>7. CASE CancelEntry(l, c)
  <2>1. PICK r \in RunIds, o \in Nat :
          c = CommitOf("task-transition", EveryTask, r, o, "cancel", CancelBoard(b))
    BY <1>7 DEF CancelEntry, b
  <2>2. /\ c.phase = "task-transition" /\ c.task = EveryTask
        /\ c.board.merged = b.merged
        /\ c.board.status[u]
             = IF b.status[u] = "InProgress" THEN "Planned" ELSE b.status[u]
    BY <1>1, <2>1, BoardsRead, CancelRead DEF CommitOf
  <2> QED BY <1>1, <1>2, <2>2 DEF Treats, Moved, Claims, Requeues, Credited, b
<1>8. CASE DispositionEntry(l, c)
  <2>1. PICK t \in Task, r \in RunIds, a \in Actions, x \in Boards :
          /\ c = CommitOf("task-disposition", t, r, 0, a, x)
          /\ \/ x = UngateBoard(b, t)
             \/ x = DropBoard(b, t) /\ b.status[t] \notin {"Done", "InProgress"}
    BY <1>8 DEF DispositionEntry, b
  <2>2. c.phase = "task-disposition" /\ c.task = t /\ c.board = x
    BY <2>1 DEF CommitOf
  <2>3. CASE x.status = b.status /\ x.merged = b.merged
    BY <1>1, <1>2, <2>2, <2>3 DEF Treats, Moved, Claims, Requeues, Credited, b
  <2>4. CASE /\ x.status = [b.status EXCEPT ![t] = "Dropped"]
             /\ x.merged = [b.merged EXCEPT ![t] = 0]
             /\ b.status[t] \notin {"Done", "InProgress"}
    <3>1. CASE u = t
      BY <1>1, <1>2, <2>2, <2>4, <3>1 DEF Treats, Moved, Claims, Requeues, Credited, b
    <3>2. CASE u # t
      BY <1>1, <1>2, <2>2, <2>4, <3>2 DEF Treats, Moved, Claims, Requeues, Credited, b
    <3> QED BY <3>1, <3>2
  <2>5. /\ UngateBoard(b, t).status = b.status
        /\ UngateBoard(b, t).merged = b.merged
        /\ DropBoard(b, t).status = [b.status EXCEPT ![t] = "Dropped"]
        /\ DropBoard(b, t).merged = [b.merged EXCEPT ![t] = 0]
    BY <1>1, BoardsRead
  <2> QED BY <2>1, <2>3, <2>4, <2>5
<1> QED BY <1>3, <1>4, <1>5, <1>6, <1>7, <1>8 DEF Entry

-----------------------------------------------------------------------------
(* Every entry keeps the chronicle *)

LEMMA EntryGrows ==
  ASSUME NEW l, NEW c, NEW m, Grows(l, c, m), Entry(l, c), NEW t \in Task
  PROVE  /\ Treats(l, c, t)
         /\ l \in Seq(Commits) /\ m \in Seq(Commits)
         /\ Len(l) \in Nat /\ Len(m) = Len(l) + 1
         /\ m[Len(m)] = c /\ TipBoard(m) = c.board
<1>1. l \in Seq(Commits) /\ l # <<>>
  BY DEF Grows
<1>2. Treats(l, c, t)
  BY <1>1, EntryTreats
<1> QED BY <1>1, <1>2, Grown

LEMMA WithdrawnGrows ==
  ASSUME NEW l, NEW c, NEW m, Grows(l, c, m), Entry(l, c), Withdrawn(l)
  PROVE  Withdrawn(m)
<1> SUFFICES ASSUME NEW t \in Task, TipBoard(m).status[t] = "Planned",
                    NEW i \in Having(m, "task-claim", t)
             PROVE  \E k \in Transitions(m, t) : i < k
  BY DEF Withdrawn
<1>1. /\ Treats(l, c, t) /\ l \in Seq(Commits)
      /\ Len(l) \in Nat /\ Len(m) = Len(l) + 1 /\ TipBoard(m) = c.board
  BY EntryGrows
<1>2. ~Claims(c, t) /\ (TipBoard(l).status[t] = "Planned" \/ Requeues(c, t))
  BY <1>1 DEF Treats
<1>3. i \in Having(l, "task-claim", t)
  BY <1>2, GrownHaving DEF Claims
<1>4. i \in Nat /\ i <= Len(l)
  BY <1>1, <1>3, Reading
<1>5. CASE TipBoard(l).status[t] = "Planned"
  <2>1. PICK k \in Transitions(l, t) : i < k
    BY <1>3, <1>5 DEF Withdrawn
  <2> QED BY <2>1, GrownTransitions
<1>6. CASE Requeues(c, t)
  <2>1. Len(m) \in Transitions(m, t)
    BY <1>6, GrownTransitions DEF Requeues
  <2> QED BY <1>1, <1>4, <2>1
<1> QED BY <1>2, <1>5, <1>6

LEMMA BackedGrows ==
  ASSUME NEW l, NEW c, NEW m, Grows(l, c, m), Entry(l, c), Backed(l)
  PROVE  Backed(m)
<1> SUFFICES ASSUME NEW t \in Task, TipBoard(m).status[t] = "InProgress"
             PROVE  \E i \in Having(m, "task-claim", t) :
                      \A j \in Transitions(m, t) \cup Having(m, "task-status", t) : j < i
  BY DEF Backed
<1>1. /\ Treats(l, c, t) /\ l \in Seq(Commits)
      /\ Len(l) \in Nat /\ Len(m) = Len(l) + 1 /\ TipBoard(m) = c.board
  BY EntryGrows
<1>2. \/ Claims(c, t)
      \/ TipBoard(l).status[t] = "InProgress" /\ ~Requeues(c, t) /\ ~Credited(c, t)
  BY <1>1 DEF Treats
<1>3. ASSUME ~Requeues(c, t), ~Credited(c, t)
      PROVE  \A j \in Transitions(m, t) \cup Having(m, "task-status", t) :
               j \in Transitions(l, t) \cup Having(l, "task-status", t)
  <2>1. \A j \in Transitions(m, t) : j \in Transitions(l, t)
    BY <1>3, GrownTransitions DEF Requeues
  <2>2. \A j \in Having(m, "task-status", t) : j \in Having(l, "task-status", t)
    BY <1>3, GrownHaving DEF Credited
  <2> QED BY <2>1, <2>2
<1>4. CASE Claims(c, t)
  <2>1. Len(m) \in Having(m, "task-claim", t)
    BY <1>4, GrownHaving DEF Claims
  <2>2. ~Requeues(c, t) /\ ~Credited(c, t)
    BY <1>4 DEF Claims, Requeues, Credited
  <2>3. ASSUME NEW j \in Transitions(m, t) \cup Having(m, "task-status", t)
        PROVE  j < Len(m)
    <3>1. j \in Transitions(l, t) \cup Having(l, "task-status", t)
      BY <1>3, <2>2
    <3>2. j \in Nat /\ j <= Len(l)
      BY <1>1, <3>1, Reading, TransitionsRead
    <3> QED BY <1>1, <3>2
  <2> QED BY <2>1, <2>3
<1>5. CASE TipBoard(l).status[t] = "InProgress" /\ ~Requeues(c, t) /\ ~Credited(c, t)
  <2>1. PICK i \in Having(l, "task-claim", t) :
          \A j \in Transitions(l, t) \cup Having(l, "task-status", t) : j < i
    BY <1>5 DEF Backed
  <2>2. i \in Having(m, "task-claim", t)
    BY GrownHaving
  <2> QED BY <1>3, <1>5, <2>1, <2>2
<1> QED BY <1>2, <1>4, <1>5

LEMMA SeparatedGrows ==
  ASSUME NEW l, NEW c, NEW m, Grows(l, c, m), Entry(l, c), Withdrawn(l), Separated(l)
  PROVE  Separated(m)
<1> SUFFICES ASSUME NEW t \in Task, NEW i \in Having(m, "task-claim", t),
                    NEW j \in Having(m, "task-claim", t), i < j
             PROVE  \E k \in Transitions(m, t) : i < k /\ k < j
  BY DEF Separated
<1>1. /\ Treats(l, c, t) /\ l \in Seq(Commits) /\ m \in Seq(Commits)
      /\ Len(l) \in Nat /\ Len(m) = Len(l) + 1
  BY EntryGrows
<1>2. i \in Nat /\ j \in Nat /\ i <= Len(m) /\ j <= Len(m)
  BY <1>1, Reading
<1>3. i \in Having(l, "task-claim", t)
  <2>1. i # Len(m)
    BY <1>1, <1>2
  <2> QED BY <2>1, GrownHaving
<1>4. CASE j \in Having(l, "task-claim", t)
  <2>1. PICK k \in Transitions(l, t) : i < k /\ k < j
    BY <1>3, <1>4 DEF Separated
  <2> QED BY <2>1, GrownTransitions
<1>5. CASE j = Len(m) /\ Claims(c, t)
  <2>1. TipBoard(l).status[t] = "Planned"
    BY <1>1, <1>5 DEF Treats
  <2>2. PICK k \in Transitions(l, t) : i < k
    BY <1>3, <2>1 DEF Withdrawn
  <2>3. k \in Nat /\ k <= Len(l)
    BY <1>1, TransitionsRead
  <2>4. k \in Transitions(m, t)
    BY GrownTransitions
  <2> QED BY <1>1, <1>5, <2>2, <2>3, <2>4
<1> QED BY <1>4, <1>5, GrownHaving DEF Claims

\* The landing that a new status credits is older than the status.
LEMMA CreditedLanding ==
  ASSUME NEW l, NEW c, NEW m, Grows(l, c, m), Entry(l, c), NEW t \in Task, Credited(c, t)
  PROVE  /\ c.link \in LandingsOfRun(l, t, c.run)
         /\ c.link \in Nat /\ c.link < Len(m)
<1>1. /\ Treats(l, c, t) /\ l \in Seq(Commits)
      /\ Len(l) \in Nat /\ Len(m) = Len(l) + 1
  BY EntryGrows
<1>2. c.link \in LandingsOfRun(l, t, c.run)
  BY <1>1 DEF Treats
<1>3. c.link \in Having(l, "landing", t)
  BY <1>2 DEF LandingsOfRun
<1>4. c.link \in Nat /\ c.link <= Len(l)
  BY <1>1, <1>3, Reading
<1> QED BY <1>1, <1>2, <1>4

LEMMA LinkedGrows ==
  ASSUME NEW l, NEW c, NEW m, Grows(l, c, m), Entry(l, c), Linked(l)
  PROVE  Linked(m)
<1> SUFFICES ASSUME NEW t \in Task, NEW i \in Having(m, "task-status", t)
             PROVE  m[i].link < i
  BY DEF Linked
<1>1. m[Len(m)] = c
  BY EntryGrows
<1>2. CASE i \in Having(l, "task-status", t)
  BY <1>2, GrownHaving DEF Linked
<1>3. CASE i = Len(m) /\ Credited(c, t)
  BY <1>1, <1>3, CreditedLanding
<1> QED BY <1>2, <1>3, GrownHaving DEF Credited

LEMMA CurrentGrows ==
  ASSUME NEW l, NEW c, NEW m, Grows(l, c, m), Entry(l, c), Current(l)
  PROVE  Current(m)
<1> SUFFICES ASSUME NEW t \in Task, TipBoard(m).status[t] = "Done"
             PROVE  \E i \in Having(m, "task-status", t) : Credits(m, t, i)
  BY DEF Current
<1>1. /\ Treats(l, c, t) /\ l \in Seq(Commits)
      /\ Len(l) \in Nat /\ Len(m) = Len(l) + 1
      /\ m[Len(m)] = c /\ TipBoard(m) = c.board
  BY EntryGrows
<1>2. \/ Credited(c, t) /\ c.board.merged[t] = c.link
      \/ /\ TipBoard(l).status[t] = "Done"
         /\ c.board.merged[t] = TipBoard(l).merged[t]
         /\ ~Credited(c, t) /\ ~(c.phase = "task-transition" /\ c.task = t)
  BY <1>1 DEF Treats
<1>3. CASE Credited(c, t) /\ c.board.merged[t] = c.link
  <2>1. Len(m) \in Having(m, "task-status", t)
    BY <1>3, GrownHaving DEF Credited
  <2>2. /\ c.link \in LandingsOfRun(m, t, c.run)
        /\ c.link \in Nat /\ c.link < Len(m)
    BY <1>3, CreditedLanding, GrownLandings
  <2>3. \A j \in Transitions(m, t) : j < c.link
    <3>1. \A j \in Transitions(m, t) : j \in Transitions(l, t)
      BY <1>3, GrownTransitions DEF Credited
    <3> QED BY <1>1, <1>3, <3>1 DEF Treats
  <2>4. ASSUME NEW j \in Having(m, "task-transition", t)
        PROVE  j < Len(m)
    <3>1. j \in Having(l, "task-transition", t)
      BY <1>3, GrownHaving DEF Credited
    <3>2. j \in Nat /\ j <= Len(l)
      BY <1>1, <3>1, Reading
    <3> QED BY <1>1, <3>2
  <2>5. Credits(m, t, Len(m))
    BY <1>1, <1>3, <2>2, <2>3, <2>4 DEF Credits
  <2> QED BY <2>1, <2>5
<1>4. CASE /\ TipBoard(l).status[t] = "Done"
           /\ c.board.merged[t] = TipBoard(l).merged[t]
           /\ ~Credited(c, t) /\ ~(c.phase = "task-transition" /\ c.task = t)
  <2>1. PICK i \in Having(l, "task-status", t) : Credits(l, t, i)
    BY <1>4 DEF Current
  <2>2. i \in Having(m, "task-status", t) /\ m[i] = l[i]
    BY GrownHaving
  <2>3. l[i].link \in LandingsOfRun(m, t, l[i].run)
    BY <2>1, GrownLandings DEF Credits
  <2>4. i \in Nat /\ i < Len(m)
    <3>1. i \in Nat /\ i <= Len(l)
      BY <1>1, Reading
    <3> QED BY <1>1, <3>1
  <2>5. \A j \in Transitions(m, t) : j < l[i].link \/ j > i
    <3>1. \A j \in Transitions(m, t) : j \in Transitions(l, t) \/ j = Len(m)
      BY GrownTransitions
    <3>2. \A j \in Transitions(l, t) : j < l[i].link \/ j > i
      BY <2>1 DEF Credits
    <3>3. Len(m) > i
      BY <1>1, <2>4
    <3> QED BY <3>1, <3>2, <3>3
  <2>6. \A j \in Having(m, "task-transition", t) : j < i
    <3>1. \A j \in Having(m, "task-transition", t) : j \in Having(l, "task-transition", t)
      BY <1>4, GrownHaving
    <3> QED BY <2>1, <3>1 DEF Credits
  <2>7. Credits(m, t, i)
    BY <1>1, <1>4, <2>1, <2>2, <2>3, <2>5, <2>6 DEF Credits
  <2> QED BY <2>2, <2>7
<1> QED BY <1>2, <1>3, <1>4

LEMMA LandsOnceGrows ==
  ASSUME NEW l, NEW c, NEW m, Grows(l, c, m), Entry(l, c), LandsOnce(l)
  PROVE  LandsOnce(m)
<1> SUFFICES ASSUME NEW t \in Task, NEW i \in Having(m, "landing", t),
                    NEW j \in Having(m, "landing", t), m[i].run = m[j].run
             PROVE  i = j
  BY DEF LandsOnce
<1>1. Treats(l, c, t) /\ m[Len(m)] = c
  BY EntryGrows
<1>2. \A k \in Having(m, "landing", t) :
        \/ k \in Having(l, "landing", t) /\ m[k] = l[k]
        \/ k = Len(m) /\ c.phase = "landing" /\ c.task = t
  BY GrownHaving
<1>3. ASSUME c.phase = "landing", c.task = t, NEW k \in Having(l, "landing", t)
      PROVE  l[k].run # c.run
  BY <1>1, <1>3 DEF Treats, LandingsOfRun
<1> QED BY <1>1, <1>2, <1>3 DEF LandsOnce

LEMMA CreditsOnceGrows ==
  ASSUME NEW l, NEW c, NEW m, Grows(l, c, m), Entry(l, c), CreditsOnce(l)
  PROVE  CreditsOnce(m)
<1> SUFFICES ASSUME NEW t \in Task, NEW i \in Having(m, "task-status", t),
                    NEW j \in Having(m, "task-status", t), m[i].link = m[j].link
             PROVE  i = j
  BY DEF CreditsOnce
<1>1. Treats(l, c, t) /\ m[Len(m)] = c
  BY EntryGrows
<1>2. \A k \in Having(m, "task-status", t) :
        \/ k \in Having(l, "task-status", t) /\ m[k] = l[k]
        \/ k = Len(m) /\ Credited(c, t)
  BY GrownHaving DEF Credited
<1>3. ASSUME Credited(c, t), NEW k \in Having(l, "task-status", t)
      PROVE  l[k].link # c.link
  BY <1>1, <1>3 DEF Treats
<1> QED BY <1>1, <1>2, <1>3 DEF CreditsOnce

LEMMA ChronicleGrows ==
  ASSUME NEW l, NEW c, NEW m, Grows(l, c, m), Entry(l, c), Chronicle(l)
  PROVE  Chronicle(m)
<1>1. Coherent(TipBoard(m))
  BY Grown DEF Entry
<1>2. Withdrawn(m) /\ Backed(m) /\ Separated(m)
  BY WithdrawnGrows, BackedGrows, SeparatedGrows DEF Chronicle
<1>3. Linked(m) /\ Current(m) /\ LandsOnce(m) /\ CreditsOnce(m)
  BY LinkedGrows, CurrentGrows, LandsOnceGrows, CreditsOnceGrows DEF Chronicle
<1> QED BY <1>1, <1>2, <1>3 DEF Chronicle

-----------------------------------------------------------------------------
(* What a publication leaves *)

Publishes(out, c) ==
  /\ c \in Commits /\ Entry(log, c)
  /\ out.log = Append(log, c) /\ out.oid = Len(log) + 1

Told(out, oids) == out.log = log /\ out.oid \in oids

LEMMA LookUpOut ==
  ASSUME NEW hits, NEW S, NEW out \in LookUp(hits, S)
  PROVE  (hits = {} /\ out \in S) \/ Told(out, hits)
<1>1. CASE hits = {}
  BY <1>1 DEF LookUp
<1>2. CASE hits # {}
  <2>1. out = Reused(TheOnly(hits))
    BY <1>2 DEF LookUp
  <2>2. out.log = log /\ out.oid = TheOnly(hits)
    BY <2>1 DEF Reused
  <2> QED BY <1>2, <2>2, TheOnlyMember DEF Told
<1> QED BY <1>1, <1>2

LEMMA SwapOut ==
  ASSUME NEW expected, NEW c, NEW out \in Swap(expected, c)
  PROVE  expected = Len(log) /\ out.log = Append(log, c) /\ out.oid = Len(log) + 1
BY DEF Swap, Published, Tip

LEMMA HavingNat ==
  ASSUME TypeOK, NEW p, NEW t
  PROVE  Having(log, p, t) \subseteq Nat
BY Reading DEF TypeOK

LEMMA RunTyped ==
  ASSUME TypeOK, Leases, known
  PROVE  Run \in RunIds
BY DEF TypeOK, Leases, Run, RunIds

LEMMA LogTyped ==
  ASSUME TypeOK
  PROVE  /\ log \in Seq(Commits) /\ log # <<>> /\ Len(log) \in Nat
         /\ Board = TipBoard(log) /\ Board \in Boards
         /\ Board.status \in [Task -> AuthoredStatus]
         /\ session.run \in RunIds /\ session.plan \in Nat
<1>1. log \in Seq(Commits) /\ log # <<>>
  BY DEF TypeOK
<1>2. session.run \in RunIds /\ session.plan \in Nat
  BY DEF TypeOK, RunIds
<1> QED BY <1>1, <1>2, TipTyped DEF Board

LEMMA Named ==
  /\ "task-claim" \in Phases /\ "landing" \in Phases /\ "task-status" \in Phases
  /\ "task-transition" \in Phases /\ "task-disposition" \in Phases
  /\ "" \in Actions /\ "cancel" \in Actions
  /\ "ungate" \in Actions /\ "drop" \in Actions
  /\ 0 \in Nat
BY DEF Phases, Actions

LEMMA ClaimedOut ==
  ASSUME TypeOK, NEW t \in Task, NEW r \in RunIds, Board.status[t] = "Planned",
         NEW expected, NEW out \in Claimed(t, r, expected)
  PROVE  \/ Told(out, Nat)
         \/ Publishes(out, CommitOf("task-claim", t, r, 0, "", ClaimBoard(Board, t)))
<1> DEFINE c == CommitOf("task-claim", t, r, 0, "", ClaimBoard(Board, t))
<1>1. /\ Coherent(ClaimBoard(Board, t))
      /\ out \in LookUp(ClaimsOfRun(log, t, r), Swap(expected, c))
  BY DEF Claimed
<1>2. ASSUME out \in Swap(expected, c)
      PROVE  Publishes(out, c)
  <2>1. out.log = Append(log, c) /\ out.oid = Len(log) + 1
    BY <1>2, SwapOut
  <2>2. ClaimBoard(Board, t) \in Boards
    BY LogTyped, BoardsMade
  <2>3. c \in Commits /\ c.board = ClaimBoard(Board, t)
    BY <2>2, Named DEF CommitOf, Commits
  <2>4. ClaimEntry(log, c)
    BY DEF ClaimEntry, Board
  <2> HIDE DEF c
  <2>5. Entry(log, c)
    BY <1>1, <2>3, <2>4 DEF Entry
  <2> QED BY <2>1, <2>3, <2>5 DEF Publishes
<1>3. ASSUME Told(out, ClaimsOfRun(log, t, r))
      PROVE  Told(out, Nat)
  BY <1>3, HavingNat DEF Told, ClaimsOfRun
<1> QED BY <1>1, <1>2, <1>3, LookUpOut

LEMMA LandedOut ==
  ASSUME TypeOK, Coherent(Board), NEW t \in Task, NEW r \in RunIds, NEW out \in Landed(t, r)
  PROVE  \/ Told(out, LandingsOfRun(log, t, r))
         \/ /\ Publishes(out, CommitOf("landing", t, r, 0, "", Board))
            /\ LandingEntry(log, CommitOf("landing", t, r, 0, "", Board))
<1> DEFINE c == CommitOf("landing", t, r, 0, "", Board)
<1>1. out \in LookUp(LandingsOfRun(log, t, r), Swap(Tip(log), c))
  BY DEF Landed
<1>2. ASSUME LandingsOfRun(log, t, r) = {}, out \in Swap(Tip(log), c)
      PROVE  Publishes(out, c) /\ LandingEntry(log, c)
  <2>1. out.log = Append(log, c) /\ out.oid = Len(log) + 1
    BY <1>2, SwapOut
  <2>2. c \in Commits /\ c.board = Board
    BY LogTyped, Named DEF CommitOf, Commits
  <2>3. LandingEntry(log, c)
    BY <1>2 DEF LandingEntry, Board
  <2> HIDE DEF c
  <2>4. Entry(log, c)
    BY <2>2, <2>3 DEF Entry
  <2> QED BY <2>1, <2>2, <2>3, <2>4 DEF Publishes
<1> QED BY <1>1, <1>2, LookUpOut

LEMMA RequeuedOut ==
  ASSUME TypeOK, NEW t \in Task, NEW r \in RunIds, NEW expected \in Nat, NEW a \in Actions,
         NEW b \in TransitionBoards(Board, t), NEW out \in Requeued(t, r, expected, a, b)
  PROVE  \/ Told(out, Nat)
         \/ Publishes(out, CommitOf("task-transition", t, r, expected, a, b))
<1> DEFINE c == CommitOf("task-transition", t, r, expected, a, b)
<1>1. /\ Coherent(b)
      /\ out \in LookUp(TransitionsOf(log, t, r, a, expected),
                        IF b = Board THEN {} ELSE Swap(expected, c))
  BY DEF Requeued
<1>2. ASSUME out \in Swap(expected, c)
      PROVE  Publishes(out, c)
  <2>1. out.log = Append(log, c) /\ out.oid = Len(log) + 1
    BY <1>2, SwapOut
  <2>2. b \in Boards
    BY LogTyped, BoardsMade DEF TransitionBoards
  <2>3. c \in Commits /\ c.board = b
    BY <2>2, Named DEF CommitOf, Commits
  <2>4. TransitionEntry(log, c)
    BY DEF TransitionEntry, Board
  <2> HIDE DEF c
  <2>5. Entry(log, c)
    BY <1>1, <2>3, <2>4 DEF Entry
  <2> QED BY <2>1, <2>3, <2>5 DEF Publishes
<1>3. ASSUME Told(out, TransitionsOf(log, t, r, a, expected))
      PROVE  Told(out, Nat)
  BY <1>3, HavingNat DEF Told, TransitionsOf
<1> QED BY <1>1, <1>2, <1>3, LookUpOut

LEMMA CancelOut ==
  ASSUME TypeOK, NEW r \in RunIds, NEW expected \in Nat,
         NEW out \in Requeued(EveryTask, r, expected, "cancel", CancelBoard(Board))
  PROVE  \/ Told(out, Nat)
         \/ \E c \in Commits : Publishes(out, c)
<1> DEFINE c == CommitOf("task-transition", EveryTask, r, expected, "cancel", CancelBoard(Board))
<1>1. /\ Coherent(CancelBoard(Board))
      /\ out \in LookUp(TransitionsOf(log, EveryTask, r, "cancel", expected),
                        IF CancelBoard(Board) = Board THEN {} ELSE Swap(expected, c))
  BY DEF Requeued
<1>2. ASSUME out \in Swap(expected, c)
      PROVE  c \in Commits /\ Publishes(out, c)
  <2>1. out.log = Append(log, c) /\ out.oid = Len(log) + 1
    BY <1>2, SwapOut
  <2>2. CancelBoard(Board) \in Boards
    BY LogTyped DEF CancelBoard, Boards, AuthoredStatus
  <2>3. c \in Commits /\ c.board = CancelBoard(Board)
    BY <2>2, Named DEF CommitOf, Commits
  <2>4. CancelEntry(log, c)
    BY DEF CancelEntry, Board
  <2> HIDE DEF c
  <2>5. Entry(log, c)
    BY <1>1, <2>3, <2>4 DEF Entry
  <2> QED BY <2>1, <2>3, <2>5 DEF Publishes
<1>3. ASSUME Told(out, TransitionsOf(log, EveryTask, r, "cancel", expected))
      PROVE  Told(out, Nat)
  BY <1>3, HavingNat DEF Told, TransitionsOf
<1> HIDE DEF c
<1> QED BY <1>1, <1>2, <1>3, LookUpOut

LEMMA DisposedOut ==
  ASSUME TypeOK, NEW t \in Task, NEW r \in RunIds, NEW expected,
         NEW d \in Dispositions(t), NEW out \in Disposed(t, r, expected, d[1], d[2])
  PROVE  \E c \in Commits : Publishes(out, c)
<1> DEFINE c == CommitOf("task-disposition", t, r, 0, d[1], d[2])
<1>1. Coherent(d[2]) /\ out \in Swap(expected, c)
  BY DEF Disposed
<1>2. \/ d[1] = "ungate" /\ d[2] = UngateBoard(Board, t)
      \/ /\ d[1] = "drop" /\ d[2] = DropBoard(Board, t)
         /\ Board.status[t] \notin {"Done", "InProgress"}
  BY DEF Dispositions
<1>3. out.log = Append(log, c) /\ out.oid = Len(log) + 1
  BY <1>1, SwapOut
<1>4. UngateBoard(Board, t) \in Boards /\ DropBoard(Board, t) \in Boards
  BY LogTyped, BoardsMade
<1>5. d[2] \in Boards /\ d[1] \in Actions
  <2>1. d[2] \in Boards
    BY <1>2, <1>4
  <2>2. d[1] \in Actions
    BY <1>2, Named
  <2> QED BY <2>1, <2>2
<1>6. c \in Commits /\ c.board = d[2]
  BY <1>5, Named DEF CommitOf, Commits
<1>7. DispositionEntry(log, c)
  BY <1>2, <1>5 DEF DispositionEntry, Board
<1> HIDE DEF c
<1>8. Entry(log, c)
  BY <1>1, <1>6, <1>7 DEF Entry
<1> QED BY <1>3, <1>6, <1>8 DEF Publishes

\* A pending landing has not been taken back, and no status credits it.
LEMMA Pending ==
  ASSUME NEW l, NEW t, NEW o, InspectTask(l, t) = Evidence("LandingPending", o)
  PROVE  Transitions(l, t) = {} /\ Having(l, "task-status", t) = {}
<1>1. Evidence("LandingPending", o).state = "LandingPending"
  BY DEF Evidence
<1>2. Transitions(l, t) = {}
  BY <1>1 DEF InspectTask, Evidence
<1>3. Judge(l, Having(l, "task-claim", t), Having(l, "landing", t),
            Having(l, "task-status", t)).state = "LandingPending"
  BY <1>1, <1>2 DEF InspectTask
<1> QED BY <1>2, <1>3 DEF Judge, Evidence

LEMMA StatusIsEntry ==
  ASSUME NEW l \in Seq(Commits), l # <<>>, NEW t \in Task, NEW r \in RunIds,
         NEW o \in LandingsOfRun(l, t, r), Coherent(DoneBoard(TipBoard(l), t, o)),
         TipBoard(l).status[t] \in {"Planned", "InProgress"},
         \A j \in Transitions(l, t) : j < o,
         \A i \in Having(l, "task-status", t) : l[i].link # o
  PROVE  StatusCommit(l, t, r, o) \in Commits /\ Entry(l, StatusCommit(l, t, r, o))
<1> DEFINE c == StatusCommit(l, t, r, o)
<1>1. o \in Nat
  BY Reading DEF LandingsOfRun
<1>2. DoneBoard(TipBoard(l), t, o) \in Boards
  BY <1>1, TipTyped, BoardsMade
<1>3. c \in Commits /\ c.board = DoneBoard(TipBoard(l), t, o)
  BY <1>1, <1>2, Named DEF StatusCommit, CommitOf, Commits
<1>4. StatusEntry(l, c)
  BY <1>1 DEF StatusEntry, StatusCommit
<1> HIDE DEF c
<1>5. Entry(l, c)
  BY <1>3, <1>4 DEF Entry
<1> QED BY <1>3, <1>5 DEF c

LEMMA CompletableIsEntry ==
  ASSUME NEW l \in Seq(Commits), l # <<>>, NEW t \in Task, NEW r \in RunIds,
         NEW o \in LandingsOfRun(l, t, r), Completable(l, t, o)
  PROVE  StatusCommit(l, t, r, o) \in Commits /\ Entry(l, StatusCommit(l, t, r, o))
<1>1. Transitions(l, t) = {} /\ Having(l, "task-status", t) = {}
  BY Pending DEF Completable
<1>2. /\ Coherent(DoneBoard(TipBoard(l), t, o))
      /\ TipBoard(l).status[t] \in {"Planned", "InProgress"}
  BY DEF Completable
<1> QED BY <1>1, <1>2, StatusIsEntry

-----------------------------------------------------------------------------
(* Every step of every writer is a step of the log *)

LEMMA RegistrationStands ==
  /\ <<Registration>> \in Seq(Commits) /\ <<Registration>> # <<>>
  /\ Chronicle(<<Registration>>)
<1> DEFINE l == <<Registration>>
<1>1. /\ Registration.phase = "registration" /\ Registration.board \in Boards
      /\ Registration.board.state = "planned"
      /\ Registration.board.status = [t \in Task |-> "Planned"]
      /\ Registration.board.open = {}
  BY LedgerAssumption DEF Registration, CommitOf, Boards, AuthoredStatus, IntegrationState
<1>2. Registration \in Commits
  BY <1>1, Named DEF Registration, CommitOf, Commits, RunIds, Phases, Actions
<1>3. l \in Seq(Commits) /\ l # <<>> /\ Len(l) = 1 /\ l[1] = Registration
  BY <1>2
<1> HIDE DEF l
<1>4. TipBoard(l) = Registration.board
  BY <1>3 DEF TipBoard
<1>5. Coherent(TipBoard(l))
  BY <1>1, <1>4 DEF Coherent
<1>6. \A p, t : p # "registration" => Having(l, p, t) = {}
  BY <1>1, <1>3 DEF Having
<1>7. \A t \in Task : TipBoard(l).status[t] = "Planned"
  BY <1>1, <1>4
<1>8. /\ \A t : Having(l, "task-claim", t) = {}
      /\ \A t : Having(l, "landing", t) = {}
      /\ \A t : Having(l, "task-status", t) = {}
  BY <1>6
<1>9. Withdrawn(l) /\ Backed(l) /\ Separated(l) /\ Linked(l) /\ Current(l)
        /\ LandsOnce(l) /\ CreditsOnce(l)
  BY <1>7, <1>8
     DEF Withdrawn, Backed, Separated, Linked, Current, LandsOnce, CreditsOnce
<1> QED BY <1>3, <1>5, <1>9 DEF Chronicle, l

LEMMA ExtendsStands ==
  ASSUME NEW l \in Seq(Commits), l # <<>>, NEW m, Extends(l, m), Chronicle(l)
  PROVE  m \in Seq(Commits) /\ m # <<>> /\ Chronicle(m)
<1>1. PICK c \in Commits : Entry(l, c) /\ m = Append(l, c)
  BY DEF Extends
<1>2. Grows(l, c, m)
  BY <1>1 DEF Grows
<1> QED BY <1>1, <1>2, Grown, ChronicleGrows

LEMMA LogStepStands ==
  ASSUME NEW l \in Seq(Commits), l # <<>>, NEW m, LogStep(l, m), Chronicle(l)
  PROVE  m \in Seq(Commits) /\ m # <<>> /\ Chronicle(m)
<1>1. CASE m = l
  BY <1>1
<1>2. CASE Extends(l, m)
  BY <1>2, ExtendsStands
<1>3. CASE \E c \in Commits :
             Entry(l, c) /\ LandingEntry(l, c) /\ Extends(Append(l, c), m)
  <2>1. PICK c \in Commits :
          Entry(l, c) /\ LandingEntry(l, c) /\ Extends(Append(l, c), m)
    BY <1>3
  <2>2. Extends(l, Append(l, c))
    BY <2>1 DEF Extends
  <2>3. Append(l, c) \in Seq(Commits) /\ Append(l, c) # <<>> /\ Chronicle(Append(l, c))
    BY <2>2, ExtendsStands
  <2> QED BY <2>1, <2>3, ExtendsStands
<1>4. CASE m = <<Registration>>
  BY <1>4, RegistrationStands
<1> QED BY <1>1, <1>2, <1>3, <1>4 DEF LogStep

LEMMA PublishesSteps ==
  ASSUME NEW c, NEW out, Publishes(out, c)
  PROVE  Extends(log, out.log) /\ LogStep(log, out.log)
BY DEF Publishes, Extends, LogStep

LEMMA ToldSteps ==
  ASSUME NEW oids, NEW out, Told(out, oids)
  PROVE  LogStep(log, out.log)
BY DEF Told, LogStep

\* A landing that is published, or found, is one of its run.
LEMMA LandedIsOurs ==
  ASSUME TypeOK, Coherent(Board), NEW t \in Task, NEW r \in RunIds, NEW out \in Landed(t, r)
  PROVE  /\ LogStep(log, out.log)
         /\ out.log \in Seq(Commits) /\ out.log # <<>>
         /\ out.oid \in LandingsOfRun(out.log, t, r)
         /\ TipBoard(out.log) = Board
         /\ \A u, s : \A i \in LandingsOfRun(log, u, s) : i \in LandingsOfRun(out.log, u, s)
<1> DEFINE c == CommitOf("landing", t, r, 0, "", Board)
<1>1. CASE Told(out, LandingsOfRun(log, t, r))
  BY <1>1, ToldSteps, LogTyped DEF Told
<1>2. CASE Publishes(out, c) /\ LandingEntry(log, c)
  <2>1. c.phase = "landing" /\ c.task = t /\ c.run = r /\ c.board = Board
    BY DEF CommitOf
  <2> HIDE DEF c
  <2>2. Grows(log, c, out.log)
    BY <1>2, LogTyped DEF Publishes, Grows
  <2>3. out.oid = Len(out.log)
    BY <1>2, <2>2, Grown DEF Publishes
  <2>4. Len(out.log) \in LandingsOfRun(out.log, t, r)
    BY <2>1, <2>2, GrownLandings
  <2> QED BY <1>2, <2>1, <2>2, <2>3, <2>4, Grown, GrownLandings, PublishesSteps
<1> QED BY <1>1, <1>2, LandedOut

\* What every caller may count on, whatever it is told.
Outcome(out) ==
  /\ LogStep(log, out.log) /\ out.log \in Seq(Commits) /\ out.log # <<>>
  /\ out.oid \in Nat
  /\ \A u, r : \A i \in LandingsOfRun(log, u, r) : i \in LandingsOfRun(out.log, u, r)

LEMMA PublishedOutcome ==
  ASSUME TypeOK, Chronicle(log), NEW c, NEW out, Publishes(out, c)
  PROVE  Outcome(out) /\ Grows(log, c, out.log)
<1>1. Grows(log, c, out.log)
  BY LogTyped DEF Publishes, Grows
<1>2. LogStep(log, out.log)
  BY PublishesSteps
<1>3. out.oid \in Nat
  BY LogTyped DEF Publishes
<1> QED BY <1>1, <1>2, <1>3, Grown, GrownLandings DEF Outcome

LEMMA ToldOutcome ==
  ASSUME TypeOK, NEW out, Told(out, Nat)
  PROVE  Outcome(out)
BY LogTyped, ToldSteps DEF Outcome, Told

\* Session s stands on lineage l.
SessionStands(l, s) ==
  /\ s \in [run : ContractRuns \cup {NoRun}, plan : Nat, phaseA : [Task -> Nat]]
  /\ \A u \in Task : s.phaseA[u] # 0 => s.phaseA[u] \in LandingsOfRun(l, u, s.run)

LEMMA NoSessionStands == \A l : SessionStands(l, NoSession)
BY DEF SessionStands, NoSession

LEMMA SessionNow ==
  ASSUME TypeOK, HeldLandings
  PROVE  SessionStands(log, session)
BY DEF SessionStands, HeldLandings, TypeOK

LEMMA SessionMoves ==
  ASSUME TypeOK, HeldLandings, NEW out, Outcome(out)
  PROVE  /\ SessionStands(out.log, session)
         /\ SessionStands(out.log, [session EXCEPT !.plan = out.oid])
         /\ \A t \in Task :
              SessionStands(out.log, [session EXCEPT !.plan = out.oid, !.phaseA[t] = 0])
BY DEF SessionStands, HeldLandings, TypeOK, Outcome

LEMMA ContractStep ==
  ASSUME Ledger, Contract
  PROVE  LogStep(log, log') /\ SessionStands(log', session')
<1>1. TypeOK /\ HeldLandings /\ Chronicle(log) /\ Coherent(Board)
  BY DEF Ledger, Chronicle, Board
<1>2. session.run \in RunIds /\ session.plan \in Nat
  BY <1>1, LogTyped
<1>3. ASSUME AskSession \/ (\E t \in Task : WorkOn(t))
      PROVE  LogStep(log, log') /\ SessionStands(log', session')
  BY <1>1, <1>3, SessionNow DEF AskSession, WorkOn, contractVars, LogStep
<1>4. ASSUME NEW r \in ContractRuns, GrantSession(r)
      PROVE  LogStep(log, log') /\ SessionStands(log', session')
  <2>1. log' = log /\ session' = [NoSession EXCEPT !.run = r, !.plan = waiting]
    BY <1>4 DEF GrantSession
  <2>2. SessionStands(log, [NoSession EXCEPT !.run = r, !.plan = waiting])
    BY <1>1 DEF SessionStands, NoSession, TypeOK
  <2> QED BY <2>1, <2>2 DEF LogStep
<1>5. ASSUME CancelSession \/ ServerCrash
      PROVE  LogStep(log, log') /\ SessionStands(log', session')
  BY <1>5, NoSessionStands DEF CancelSession, ServerCrash, LogStep
<1>6. ASSUME NEW t \in Task, ClaimTask(t)
      PROVE  LogStep(log, log') /\ SessionStands(log', session')
  <2>1. PICK out \in Claimed(t, session.run, session.plan) :
          log' = out.log /\ session' = [session EXCEPT !.plan = out.oid]
    BY <1>6 DEF ClaimTask
  <2>2. Board.status[t] = "Planned"
    BY <1>6 DEF ClaimTask
  <2>3. Outcome(out)
    BY <1>1, <1>2, <2>2, ClaimedOut, PublishedOutcome, ToldOutcome
  <2> QED BY <1>1, <2>1, <2>3, SessionMoves DEF Outcome
<1>7. ASSUME NEW t \in Task, LandTask(t)
      PROVE  LogStep(log, log') /\ SessionStands(log', session')
  <2>1. PICK a \in Landed(t, session.run) :
          \/ /\ Len(a.log) = a.oid /\ Len(a.log) < MaxLog
             /\ Completable(a.log, t, a.oid)
             /\ log' = Append(a.log, StatusCommit(a.log, t, session.run, a.oid))
             /\ session' = [session EXCEPT !.plan = Len(a.log) + 1]
          \/ log' = a.log /\ UNCHANGED session
    BY <1>7 DEF LandTask
  <2>2. /\ LogStep(log, a.log) /\ a.log \in Seq(Commits) /\ a.log # <<>>
        /\ a.oid \in LandingsOfRun(a.log, t, session.run)
        /\ \A u, s : \A i \in LandingsOfRun(log, u, s) : i \in LandingsOfRun(a.log, u, s)
    BY <1>1, <1>2, LandedIsOurs
  <2>3. CASE log' = a.log /\ UNCHANGED session
    BY <1>1, <2>2, <2>3 DEF SessionStands, HeldLandings, TypeOK
  <2>4. CASE /\ Completable(a.log, t, a.oid)
             /\ log' = Append(a.log, StatusCommit(a.log, t, session.run, a.oid))
             /\ session' = [session EXCEPT !.plan = Len(a.log) + 1]
    <3> DEFINE c == StatusCommit(a.log, t, session.run, a.oid)
    <3>1. c \in Commits /\ Entry(a.log, c)
      BY <1>2, <2>2, <2>4, CompletableIsEntry
    <3> HIDE DEF c
    <3>2. log' = Append(a.log, c)
      BY <2>4 DEF c
    <3>3. Extends(a.log, log') /\ Grows(a.log, c, log')
      BY <2>2, <3>1, <3>2 DEF Extends, Grows
    <3>4. \A u, s : \A i \in LandingsOfRun(log, u, s) : i \in LandingsOfRun(log', u, s)
      BY <2>2, <3>3, GrownLandings
    <3>5. Len(a.log) + 1 \in Nat
      BY <2>2
    <3>6. SessionStands(log', session')
      BY <1>1, <2>4, <3>4, <3>5 DEF SessionStands, HeldLandings, TypeOK
    <3>7. CASE a.log = log
      BY <3>3, <3>6, <3>7 DEF LogStep
    <3>8. CASE \E d \in Commits :
                 Entry(log, d) /\ LandingEntry(log, d) /\ a.log = Append(log, d)
      BY <3>3, <3>6, <3>8 DEF LogStep
    <3> QED BY <1>1, <1>2, <3>7, <3>8, LandedOut DEF Told, Publishes
  <2> QED BY <2>1, <2>3, <2>4
<1>8. ASSUME NEW t \in Task, LandPhaseA(t)
      PROVE  LogStep(log, log') /\ SessionStands(log', session')
  <2>1. PICK a \in Landed(t, session.run) :
          /\ log' = a.log
          /\ session' = [session EXCEPT !.plan = a.oid, !.phaseA[t] = a.oid]
    BY <1>8 DEF LandPhaseA
  <2>2. /\ LogStep(log, a.log) /\ a.log \in Seq(Commits) /\ a.log # <<>>
        /\ a.oid \in LandingsOfRun(a.log, t, session.run)
        /\ \A u, s : \A i \in LandingsOfRun(log, u, s) : i \in LandingsOfRun(a.log, u, s)
    BY <1>1, <1>2, LandedIsOurs
  <2>3. a.oid \in Nat
    BY <2>2, Reading DEF LandingsOfRun
  <2>4. SessionStands(log', session')
    BY <1>1, <2>1, <2>2, <2>3 DEF SessionStands, HeldLandings, TypeOK
  <2> QED BY <2>1, <2>2, <2>4
<1>9. ASSUME NEW t \in Task, CommitPhaseB(t)
      PROVE  LogStep(log, log') /\ SessionStands(log', session')
  <2> DEFINE o == session.phaseA[t]
             c == StatusCommit(log, t, session.run, o)
  <2>1. PICK out \in Swap(session.plan, c) :
          log' = out.log /\ session' = [session EXCEPT !.plan = out.oid]
    BY <1>9 DEF CommitPhaseB
  <2>2. o # 0 /\ Completable(log, t, o)
    BY <1>9 DEF CommitPhaseB
  <2>3. o \in LandingsOfRun(log, t, session.run)
    BY <1>1, <2>2 DEF HeldLandings
  <2>4. c \in Commits /\ Entry(log, c)
    BY <1>1, <1>2, <2>2, <2>3, LogTyped, CompletableIsEntry
  <2> HIDE DEF c
  <2>5. Publishes(out, c)
    BY <2>4, SwapOut DEF Publishes
  <2> QED BY <1>1, <2>1, <2>5, PublishedOutcome, SessionMoves DEF Outcome
<1>10. ASSUME NEW t \in Task, TransitionTask(t)
       PROVE  LogStep(log, log') /\ SessionStands(log', session')
  <2>1. PICK a \in SourceTransitions(t) :
          \E out \in Requeued(t, session.run, session.plan, a[1], a[2]) :
            /\ log' = out.log
            /\ \/ session' = [session EXCEPT !.plan = out.oid, !.phaseA[t] = 0]
               \/ session' = session
    BY <1>10 DEF TransitionTask
  <2>2. PICK out \in Requeued(t, session.run, session.plan, a[1], a[2]) :
          /\ log' = out.log
          /\ \/ session' = [session EXCEPT !.plan = out.oid, !.phaseA[t] = 0]
             \/ session' = session
    BY <2>1
  <2>3. a[1] \in Actions /\ a[2] \in TransitionBoards(Board, t)
    <3>1. \/ a = <<"blocker", BlockBoard(Board, t)>>
               /\ Board.status[t] \notin {"Done", "Dropped", "Blocked"}
          \/ a = <<"retry", RequeueBoard(Board, t)>>
          \/ a = <<"requeue", RequeueBoard(Board, t)>>
          \/ a = <<"cancel", SetStatus(Board, t, "Planned", 0)>>
      BY DEF SourceTransitions
    <3>2. a[1] \in {"blocker", "retry", "requeue", "cancel"}
      BY <3>1
    <3>3. \/ a[2] = BlockBoard(Board, t)
               /\ Board.status[t] \notin {"Done", "Dropped", "Blocked"}
          \/ a[2] = RequeueBoard(Board, t)
          \/ a[2] = SetStatus(Board, t, "Planned", 0)
      BY <3>1
    <3> QED BY <3>2, <3>3 DEF TransitionBoards, Actions
  <2>4. Outcome(out)
    BY <1>1, <1>2, <2>3, RequeuedOut, PublishedOutcome, ToldOutcome
  <2>5. /\ SessionStands(out.log, session)
        /\ SessionStands(out.log, [session EXCEPT !.plan = out.oid, !.phaseA[t] = 0])
    BY <1>1, <2>4, SessionMoves
  <2> QED BY <2>2, <2>4, <2>5 DEF Outcome
<1>11. ASSUME NEW t \in Task, SetDisposition(t)
       PROVE  LogStep(log, log') /\ SessionStands(log', session')
  <2>1. PICK a \in Dispositions(t) :
          \E out \in Disposed(t, session.run, session.plan, a[1], a[2]) :
            /\ log' = out.log
            /\ session' = [session EXCEPT !.plan = out.oid] \/ session' = session
    BY <1>11 DEF SetDisposition
  <2>2. PICK out \in Disposed(t, session.run, session.plan, a[1], a[2]) :
          /\ log' = out.log
          /\ session' = [session EXCEPT !.plan = out.oid] \/ session' = session
    BY <2>1
  <2>3. Outcome(out)
    BY <1>1, <1>2, DisposedOut, PublishedOutcome
  <2> QED BY <1>1, <2>2, <2>3, SessionMoves DEF Outcome
<1> QED BY <1>3, <1>4, <1>5, <1>6, <1>7, <1>8, <1>9, <1>10, <1>11 DEF Contract

-----------------------------------------------------------------------------
(* The steps of the core *)

\* A commit that names one task leaves the status of every other.
LEMMA NamesOne ==
  ASSUME TypeOK, NEW c, NEW out, Publishes(out, c), c.task \in Task,
         NEW u \in Task, u # c.task
  PROVE  TipBoard(out.log).status[u] = Board.status[u]
<1>1. log \in Seq(Commits) /\ log # <<>> /\ Board = TipBoard(log)
  BY LogTyped
<1>2. Treats(log, c, u)
  BY <1>1, EntryTreats DEF Publishes
<1>3. Grows(log, c, out.log)
  BY <1>1 DEF Publishes, Grows
<1>4. TipBoard(out.log) = c.board
  BY <1>3, Grown
<1> QED BY <1>1, <1>2, <1>4, LandingAssumption DEF Treats, Moved

\* What a claim, a requeue and a landing leave of the board.
LEMMA ClaimedBoard ==
  ASSUME TypeOK, NEW t \in Task, NEW r \in RunIds, Board.status[t] = "Planned",
         NEW expected, NEW out \in Claimed(t, r, expected), NEW u \in Task
  PROVE  /\ u # t => TipBoard(out.log).status[u] = Board.status[u]
         /\ TipBoard(out.log).status[t] \in {"Planned", "InProgress"}
<1> DEFINE c == CommitOf("task-claim", t, r, 0, "", ClaimBoard(Board, t))
<1>1. CASE Told(out, Nat)
  BY <1>1, LogTyped DEF Told
<1>2. CASE Publishes(out, c)
  <2>1. c.task = t /\ c.board = ClaimBoard(Board, t)
    BY DEF CommitOf
  <2> HIDE DEF c
  <2>2. Grows(log, c, out.log)
    BY <1>2, LogTyped DEF Publishes, Grows
  <2>3. TipBoard(out.log) = ClaimBoard(Board, t)
    BY <2>1, <2>2, Grown
  <2>4. ClaimBoard(Board, t).status = [Board.status EXCEPT ![t] = "InProgress"]
    BY LogTyped, BoardsRead
  <2>5. TipBoard(out.log).status[t] = "InProgress"
    BY <2>3, <2>4, LogTyped
  <2> QED BY <1>2, <2>1, <2>5, NamesOne
<1> QED BY <1>1, <1>2, ClaimedOut

LEMMA RequeuedBoard ==
  ASSUME TypeOK, NEW t \in Task, NEW r \in RunIds, NEW expected \in Nat,
         NEW a \in Actions, NEW out \in Requeued(t, r, expected, a, RequeueBoard(Board, t))
  PROVE  /\ LogStep(log, out.log)
         /\ \A u \in Task : Board.status[u] = "Planned" =>
                              TipBoard(out.log).status[u] = "Planned"
<1> DEFINE b == RequeueBoard(Board, t)
           c == CommitOf("task-transition", t, r, expected, a, b)
<1>1. b \in TransitionBoards(Board, t)
  BY DEF TransitionBoards
<1>2. Told(out, Nat) \/ Publishes(out, c)
  BY <1>1, RequeuedOut
<1>3. CASE Told(out, Nat)
  BY <1>3, ToldSteps, LogTyped DEF Told
<1>4. CASE Publishes(out, c)
  <2>1. c.task = t /\ c.board = b
    BY DEF CommitOf
  <2>2. b.status = [Board.status EXCEPT ![t] = "Planned"]
    BY LogTyped, BoardsRead
  <2> HIDE DEF c, b
  <2>3. Grows(log, c, out.log)
    BY <1>4, LogTyped DEF Publishes, Grows
  <2>4. TipBoard(out.log) = b
    BY <2>1, <2>3, Grown
  <2> QED BY <1>4, <2>2, <2>4, LogTyped, PublishesSteps
<1> QED BY <1>2, <1>3, <1>4

LEMMA DriversOff ==
  ASSUME pc' \in {"off", "reconcile"}, \A t \in Task : drv'[t] \in {"none", "failed"}
  PROVE  Drivers'
BY DEF Drivers

LEMMA SavedOff == \A t \in Task : Saved[t] \in {"none", "failed"}
BY DEF Saved

\* What Drivers asks of one driver.
DriverStands(t) ==
  /\ drv[t] = "idle" => Board.status[t] = "Planned"
  /\ drv[t] \in {"claimed", "working", "landed"} =>
       Board.status[t] \in {"Planned", "InProgress"}
  /\ drv[t] = "landed" => LandingsOfRun(log, t, Run) # {}

LEMMA DriversRun ==
  ASSUME pc' = "running", \A t \in Task : DriverStands(t)'
  PROVE  Drivers'
BY DEF Drivers, DriverStands

LEMMA DriversNow ==
  ASSUME Drivers, NEW t \in Task
  PROVE  DriverStands(t)
BY DEF Drivers, DriverStands

\* A driver that does nothing keeps its standing when its task keeps its
\* status and the lineage only grows.
LEMMA DriverKept ==
  ASSUME Drivers, NEW t \in Task, drv'[t] = drv[t], minted' = minted,
         TipBoard(log').status[t] = Board.status[t],
         \A u, r : \A i \in LandingsOfRun(log, u, r) : i \in LandingsOfRun(log', u, r)
  PROVE  DriverStands(t)'
BY DriversNow DEF DriverStands, Board, Run

-----------------------------------------------------------------------------

Kept == LogStep(log, log') /\ Drivers'

LEMMA Idling ==
  ASSUME Ledger, pc \in {"off", "reconcile"}, pc' \in {"off", "reconcile"}, drv' = drv,
         LogStep(log, log')
  PROVE  Kept
BY DriversOff DEF Ledger, Drivers, Kept

LEMMA ReconcileStep ==
  ASSUME Ledger, NEW t \in Task, Reconcile(t)
  PROVE  Kept
<1>1. TypeOK /\ Leases /\ pc = "reconcile"
  BY DEF Ledger, Reconcile
<1>2. Run \in RunIds
  BY <1>1, RunTyped DEF Leases
<1>3. PICK out \in Requeued(t, Run, Tip(log), "reconcile", RequeueBoard(Board, t)) :
        log' = out.log
  BY DEF Reconcile
<1>4. Tip(log) \in Nat /\ "reconcile" \in Actions
  BY <1>1, LogTyped DEF Tip, Actions
<1>5. LogStep(log, log')
  BY <1>1, <1>2, <1>3, <1>4, RequeuedBoard
<1>6. pc' \in {"off", "reconcile"} /\ drv' = drv
  BY <1>1 DEF Reconcile
<1> QED BY <1>1, <1>5, <1>6, Idling

LEMMA ProjectStep ==
  ASSUME Ledger, Project
  PROVE  Kept
<1>1. TypeOK /\ log' = log /\ minted' = minted
  BY DEF Ledger, Project
<1>2. \A t \in Task : /\ Projected(t) \in {"none", "failed", "idle"}
                      /\ Projected(t) # "none" => Board.status[t] = "Planned"
  BY DEF Projected
<1>3. CASE drv' = Saved /\ pc' = "off"
  BY <1>1, <1>3, SavedOff, DriversOff DEF Kept, LogStep
<1>4. CASE /\ drv' = [t \in Task |-> Projected(t)] /\ pc' \in {"running", "retry"}
           /\ retrying' = {t \in retrying : Projected(t) = "failed"}
  <2>1. \A t \in Task : drv'[t] = Projected(t)
    BY <1>4
  <2>2. Board' = Board
    BY <1>1 DEF Board
  <2>3. retrying \subseteq Task
    BY <1>1 DEF TypeOK
  <2>4. \A t \in retrying' : Board.status[t] = "Planned"
    BY <1>2, <1>4, <2>3
  <2>5. Drivers'
    BY <1>2, <1>4, <2>1, <2>2, <2>4 DEF Drivers
  <2> QED BY <1>1, <2>5 DEF Kept, LogStep
<1>5. \/ retrying # {} /\ {t \in retrying : Projected(t) = "failed"} = {}
      \/ ~(retrying # {} /\ {t \in retrying : Projected(t) = "failed"} = {})
  OBVIOUS
<1> QED BY <1>3, <1>4, <1>5 DEF Project

LEMMA RetryStepStep ==
  ASSUME Ledger, NEW t \in Task, RetryStep(t)
  PROVE  Kept
<1> DEFINE outs == Requeued(t, Run, Tip(log), "retry", RequeueBoard(Board, t))
<1>1. TypeOK /\ Leases /\ Drivers /\ pc = "retry" /\ minted' = minted
  BY DEF Ledger, RetryStep
<1>2. Run \in RunIds
  BY <1>1, RunTyped DEF Leases
<1>3. Tip(log) \in Nat /\ "retry" \in Actions
  BY <1>1, LogTyped DEF Tip, Actions
<1>4. CASE outs = {}
  <2>1. log' = log /\ pc' = "off" /\ drv' = Saved
    BY <1>4 DEF RetryStep
  <2> QED BY <2>1, SavedOff, DriversOff DEF Kept, LogStep
<1>5. CASE outs # {}
  <2> DEFINE out == TheOnly(outs)
  <2>1. out \in outs
    BY <1>5, TheOnlyMember
  <2>2. /\ log' = out.log
        /\ pc' \in {"running", "retry"} /\ retrying' = retrying
        /\ pc' = "retry" => drv' = drv
        /\ \/ drv' = drv
           \/ drv' = [u \in Task |-> IF u \in retrying THEN "idle" ELSE drv[u]]
    BY <1>1, <1>5 DEF RetryStep
  <2> HIDE DEF out, outs
  <2>3. /\ LogStep(log, log')
        /\ \A u \in Task : Board.status[u] = "Planned" => Board'.status[u] = "Planned"
    BY <1>1, <1>2, <1>3, <2>1, <2>2, RequeuedBoard DEF outs, Board
  <2>4. /\ \A u \in Task : drv[u] \in {"none", "failed", "idle"}
        /\ \A u \in Task : drv[u] = "idle" => Board.status[u] = "Planned"
        /\ \A u \in retrying : Board.status[u] = "Planned"
        /\ retrying \subseteq Task
    BY <1>1 DEF Drivers, TypeOK
  <2>5. CASE drv' = drv
    BY <2>2, <2>3, <2>4, <2>5 DEF Kept, Drivers
  <2>6. CASE drv' = [u \in Task |-> IF u \in retrying THEN "idle" ELSE drv[u]]
    <3>1. /\ \A u \in Task : drv'[u] \in {"none", "failed", "idle"}
          /\ \A u \in Task : drv'[u] = "idle" => Board'.status[u] = "Planned"
      BY <2>3, <2>4, <2>6
    <3>2. \A u \in retrying' : Board'.status[u] = "Planned"
      BY <2>2, <2>3, <2>4
    <3> QED BY <2>2, <2>3, <3>1, <3>2 DEF Kept, Drivers
  <2> QED BY <2>2, <2>5, <2>6
<1> QED BY <1>4, <1>5

LEMMA DriverClaimStep ==
  ASSUME Ledger, NEW t \in Task, DriverClaim(t)
  PROVE  Kept
<1>1. /\ TypeOK /\ Leases /\ Drivers /\ Chronicle(log)
      /\ pc = "running" /\ pc' = "running" /\ minted' = minted /\ drv[t] = "idle"
  BY DEF Ledger, DriverClaim
<1>2. Run \in RunIds
  BY <1>1, RunTyped DEF Leases
<1>3. Board.status[t] = "Planned"
  BY <1>1 DEF Drivers
<1>4. drv \in [Task -> DriverStates]
  BY <1>1 DEF TypeOK
<1>5. CASE drv' = [drv EXCEPT ![t] = "failed"] /\ UNCHANGED log
  <2>1. ASSUME NEW u \in Task
        PROVE  DriverStands(u)'
    <3>1. CASE u = t
      BY <1>4, <1>5, <3>1 DEF DriverStands
    <3>2. CASE u # t
      BY <1>1, <1>4, <1>5, <3>2, DriverKept DEF Board
    <3> QED BY <3>1, <3>2
  <2> QED BY <1>1, <1>5, <2>1, DriversRun DEF Kept, LogStep
<1>6. ASSUME NEW out \in Claimed(t, Run, Tip(log)),
             log' = out.log, drv' = [drv EXCEPT ![t] = "claimed"]
      PROVE  Kept
  <2>1. Outcome(out)
    BY <1>1, <1>2, <1>3, ClaimedOut, PublishedOutcome, ToldOutcome
  <2>2. \A u, r : \A i \in LandingsOfRun(log, u, r) : i \in LandingsOfRun(log', u, r)
    BY <1>6, <2>1 DEF Outcome
  <2>3. /\ \A u \in Task : u # t => TipBoard(log').status[u] = Board.status[u]
        /\ TipBoard(log').status[t] \in {"Planned", "InProgress"}
    BY <1>1, <1>2, <1>3, <1>6, ClaimedBoard
  <2>4. ASSUME NEW u \in Task
        PROVE  DriverStands(u)'
    <3>1. CASE u = t
      BY <1>4, <1>6, <2>3, <3>1 DEF DriverStands, Board
    <3>2. CASE u # t
      BY <1>1, <1>4, <1>6, <2>2, <2>3, <3>2, DriverKept
    <3> QED BY <3>1, <3>2
  <2> QED BY <1>1, <1>6, <2>1, <2>4, DriversRun DEF Kept, Outcome
<1> QED BY <1>5, <1>6 DEF DriverClaim

\* A driver that leaves the lineage alone only has itself to account for.
LEMMA DriverAlone ==
  ASSUME Ledger, NEW t \in Task, NEW s, pc' = "running", log' = log, minted' = minted,
         drv' = [drv EXCEPT ![t] = s], s \in {"working", "failed", "stranded", "done"},
         s = "working" => drv[t] = "claimed"
  PROVE  Kept
<1>1. TypeOK /\ Drivers
  BY DEF Ledger
<1>2. drv \in [Task -> DriverStates]
  BY <1>1 DEF TypeOK
<1>3. ASSUME NEW u \in Task
      PROVE  DriverStands(u)'
  <2>1. CASE u = t
    <3>1. drv'[u] = s /\ Board' = Board
      BY <1>2, <2>1 DEF Board
    <3>2. DriverStands(u)
      BY <1>1, DriversNow
    <3> QED BY <2>1, <3>1, <3>2 DEF DriverStands
  <2>2. CASE u # t
    BY <1>1, <1>2, <2>2, DriverKept DEF Board
  <2> QED BY <2>1, <2>2
<1> QED BY <1>3, DriversRun DEF Kept, LogStep

LEMMA DriverPhaseAStep ==
  ASSUME Ledger, NEW t \in Task, DriverPhaseA(t)
  PROVE  Kept
<1>1. /\ TypeOK /\ Leases /\ Drivers /\ Coherent(Board)
      /\ pc = "running" /\ pc' = "running" /\ minted' = minted /\ drv[t] = "working"
      /\ drv' = [drv EXCEPT ![t] = "landed"]
  BY DEF Ledger, DriverPhaseA, Chronicle, Board
<1>2. Run \in RunIds
  BY <1>1, RunTyped DEF Leases
<1>3. PICK out \in Landed(t, Run) : log' = out.log
  BY DEF DriverPhaseA
<1>4. /\ LogStep(log, log') /\ out.oid \in LandingsOfRun(log', t, Run)
      /\ TipBoard(log') = Board
      /\ \A u, r : \A i \in LandingsOfRun(log, u, r) : i \in LandingsOfRun(log', u, r)
  BY <1>1, <1>2, <1>3, LandedIsOurs
<1>5. drv \in [Task -> DriverStates]
  BY <1>1 DEF TypeOK
<1>6. ASSUME NEW u \in Task
      PROVE  DriverStands(u)'
  <2>1. CASE u = t
    <3>1. drv'[u] = "landed"
      BY <1>1, <1>5, <2>1
    <3>2. Board'.status[u] \in {"Planned", "InProgress"}
      BY <1>1, <1>4, <2>1 DEF Drivers, Board
    <3>3. LandingsOfRun(log', u, Run') # {}
      BY <1>1, <1>4, <2>1 DEF Run
    <3> QED BY <3>1, <3>2, <3>3 DEF DriverStands
  <2>2. CASE u # t
    BY <1>1, <1>4, <1>5, <2>2, DriverKept
  <2> QED BY <2>1, <2>2
<1> QED BY <1>1, <1>4, <1>6, DriversRun DEF Kept

LEMMA DriverPhaseBStep ==
  ASSUME Ledger, NEW t \in Task, DriverPhaseB(t)
  PROVE  Kept
<1> DEFINE o == TheOnly(LandingsOfRun(log, t, Run))
           c == StatusCommit(log, t, Run, o)
<1>1. /\ TypeOK /\ Leases /\ Drivers /\ Chronicle(log)
      /\ pc = "running" /\ pc' = "running" /\ minted' = minted /\ drv[t] = "landed"
  BY DEF Ledger, DriverPhaseB
<1>2. Run \in RunIds
  BY <1>1, RunTyped DEF Leases
<1>3. CASE drv' = [drv EXCEPT ![t] = "stranded"] /\ UNCHANGED log
  BY <1>1, <1>3, DriverAlone
<1>4. ASSUME Coherent(DoneBoard(Board, t, o)), drv' = [drv EXCEPT ![t] = "done"],
             NEW out \in LookUp(StatusesOf(log, t, Run, o), Swap(o, c)), log' = out.log
      PROVE  Kept
  <2>1. o \in LandingsOfRun(log, t, Run)
    <3>1. LandingsOfRun(log, t, Run) # {}
      BY <1>1 DEF Drivers
    <3> QED BY <3>1, TheOnlyMember
  <2>2. Board.status[t] \in {"Planned", "InProgress"}
    BY <1>1 DEF Drivers
  <2> HIDE DEF o
  <2>3. CASE Told(out, StatusesOf(log, t, Run, o))
    BY <1>1, <1>4, <2>3, DriverAlone DEF Told
  <2>4. CASE out \in Swap(o, c)
    <3>1. o = Len(log) /\ out.log = Append(log, c) /\ out.oid = Len(log) + 1
      BY <2>4, SwapOut
    <3>2. log \in Seq(Commits) /\ log # <<>> /\ Board = TipBoard(log)
      BY <1>1, LogTyped
    <3>3. ASSUME NEW j \in Transitions(log, t)
          PROVE  j < o
      <4>1. j \in Nat /\ j <= Len(log) /\ log[j].phase = "task-transition"
        BY <3>2, TransitionsRead
      <4>2. log[o].phase = "landing"
        BY <2>1, <3>2, Reading DEF LandingsOfRun
      <4>3. j # o
        BY <4>1, <4>2
      <4>4. Len(log) \in Nat
        BY <3>2
      <4> QED BY <3>1, <4>1, <4>3, <4>4
    <3>4. ASSUME NEW i \in Having(log, "task-status", t)
          PROVE  log[i].link # o
      <4>1. i \in Nat /\ i <= Len(log)
        BY <3>2, Reading
      <4>2. log[i].link < i
        BY <1>1 DEF Chronicle, Linked
      <4>3. Len(log) \in Nat
        BY <3>2
      <4>4. log[i].link \in Nat
        <5>1. i \in 1 .. Len(log)
          BY DEF Having
        <5>2. log[i] \in Commits
          BY <3>2, <5>1
        <5> QED BY <5>2 DEF Commits
      <4> QED BY <3>1, <4>1, <4>2, <4>3, <4>4
    <3>5. c \in Commits /\ Entry(log, c)
      BY <1>2, <1>4, <2>1, <2>2, <3>2, <3>3, <3>4, StatusIsEntry
    <3>6. c.task = t
      BY DEF StatusCommit, CommitOf
    <3> HIDE DEF c
    <3>7. Publishes(out, c)
      BY <3>1, <3>5 DEF Publishes
    <3>8. Outcome(out)
      BY <1>1, <3>7, PublishedOutcome
    <3>9. \A u, r : \A i \in LandingsOfRun(log, u, r) : i \in LandingsOfRun(log', u, r)
      BY <1>4, <3>8 DEF Outcome
    <3>10. drv \in [Task -> DriverStates]
      BY <1>1 DEF TypeOK
    <3>11. ASSUME NEW u \in Task
           PROVE  DriverStands(u)'
      <4>1. CASE u = t
        BY <1>4, <3>10, <4>1 DEF DriverStands
      <4>2. CASE u # t
        <5>1. TipBoard(log').status[u] = Board.status[u]
          BY <1>1, <1>4, <3>6, <3>7, <4>2, NamesOne
        <5> QED BY <1>1, <1>4, <3>9, <3>10, <4>2, <5>1, DriverKept
      <4> QED BY <4>1, <4>2
    <3> QED BY <1>1, <1>4, <3>8, <3>11, DriversRun DEF Kept, Outcome
  <2> QED BY <1>4, <2>3, <2>4, LookUpOut
<1> QED BY <1>3, <1>4 DEF DriverPhaseB

LEMMA CancelRunStep ==
  ASSUME Ledger, CancelRun
  PROVE  Kept
<1>1. /\ TypeOK /\ Leases /\ pc = "running" /\ pc' = "off" /\ drv' = Saved
      /\ Chronicle(log)
  BY DEF Ledger, CancelRun
<1>2. Run \in RunIds
  BY <1>1, RunTyped DEF Leases
<1>3. Drivers'
  BY <1>1, SavedOff, DriversOff
<1>4. CASE UNCHANGED log
  BY <1>3, <1>4 DEF Kept, LogStep
<1>5. ASSUME NEW out \in Requeued(EveryTask, Run, Tip(log), "cancel", CancelBoard(Board)),
             log' = out.log
      PROVE  Kept
  <2>1. Tip(log) \in Nat
    BY <1>1, LogTyped DEF Tip
  <2>2. Outcome(out)
    BY <1>1, <1>2, <2>1, CancelOut, PublishedOutcome, ToldOutcome
  <2> QED BY <1>3, <1>5, <2>2 DEF Kept, Outcome
<1> QED BY <1>4, <1>5 DEF CancelRun

LEMMA UserDispositionStep ==
  ASSUME Ledger, NEW t \in Task, UserDisposition(t)
  PROVE  Kept
<1>1. /\ TypeOK /\ Leases /\ Chronicle(log) /\ known
      /\ pc = "off" /\ pc' = "off" /\ drv' = [u \in Task |-> "none"]
  BY DEF Ledger, UserDisposition, LeaseFree
<1>2. Run \in RunIds
  BY <1>1, RunTyped
<1>3. PICK d \in Dispositions(t) :
        \E out \in Disposed(t, Run, Tip(log), d[1], d[2]) : log' = out.log
  BY DEF UserDisposition
<1>4. PICK out \in Disposed(t, Run, Tip(log), d[1], d[2]) : log' = out.log
  BY <1>3
<1>5. Outcome(out)
  BY <1>1, <1>2, DisposedOut, PublishedOutcome
<1>6. Drivers'
  BY <1>1, DriversOff
<1> QED BY <1>4, <1>5, <1>6 DEF Kept, Outcome

LEMMA CoreStep ==
  ASSUME Ledger, Core
  PROVE  Kept
<1>1. TypeOK /\ Leases /\ Drivers
  BY DEF Ledger
<1>2. ASSUME NEW again \in BOOLEAN, StartRun(again)
      PROVE  Kept
  BY <1>2, Idling DEF StartRun, LeaseFree, LogStep
<1>3. ASSUME NEW S, RetryRun(S)
      PROVE  Kept
  BY <1>3, Idling DEF RetryRun, LeaseFree, LogStep
<1>4. ASSUME EndRun \/ CoreCrash
      PROVE  Kept
  BY <1>4, SavedOff, DriversOff DEF EndRun, CoreCrash, Kept, LogStep
<1>5. ASSUME ResetRun
      PROVE  Kept
  BY <1>5, Idling DEF ResetRun, LeaseFree, coreVars, LogStep
<1>6. ASSUME NEW t \in Task, CreateWorktree(t)
      PROVE  Kept
  BY <1>6, DriverAlone DEF CreateWorktree
<1>7. ASSUME NEW t \in Task, Develop(t)
      PROVE  Kept
  <2>1. pc' = "running" /\ log' = log /\ minted' = minted /\ drv' = drv
    BY <1>7 DEF Develop, coreVars
  <2>2. \A u \in Task : DriverStands(u)'
    BY <1>1, <2>1, DriverKept DEF Board
  <2> QED BY <2>1, <2>2, DriversRun DEF Kept, LogStep
<1>8. ASSUME NEW t \in Task, DriverFail(t)
      PROVE  Kept
  BY <1>8, DriverAlone DEF DriverFail
<1> QED
  BY <1>2, <1>3, <1>4, <1>5, <1>6, <1>7, <1>8, ProjectStep, CancelRunStep,
     ReconcileStep, RetryStepStep, DriverClaimStep, DriverPhaseAStep, DriverPhaseBStep,
     UserDispositionStep
  DEF Core

-----------------------------------------------------------------------------
(* The invariant *)

LEMMA ContractKeepsDrivers ==
  ASSUME Ledger, Contract
  PROVE  Drivers'
<1>1. Leases /\ Drivers
  BY DEF Ledger
<1>2. pc' = pc /\ retrying' = retrying /\ minted' = minted /\ drv' = drv
  BY DEF Contract, AskSession, GrantSession, CancelSession, ServerCrash, ClaimTask,
         WorkOn, LandTask, LandPhaseA, CommitPhaseB, TransitionTask, SetDisposition,
         coreVars
<1>3. log' = log \/ session # NoSession
  BY DEF Contract, AskSession, GrantSession, CancelSession, ServerCrash, ClaimTask,
         WorkOn, LandTask, LandPhaseA, CommitPhaseB, TransitionTask, SetDisposition
<1>4. CASE log' = log
  BY <1>1, <1>2, <1>4 DEF Drivers, Board, Run
<1>5. CASE session # NoSession
  BY <1>1, <1>2, <1>5, DriversOff DEF Leases, Drivers
<1> QED BY <1>3, <1>4, <1>5

LEMMA CoreKeepsSession ==
  ASSUME Ledger, Core
  PROVE  session' = session /\ (log' = log \/ session = NoSession)
<1>1. Leases
  BY DEF Ledger
<1>2. session' = session
  BY DEF Core, StartRun, RetryRun, Project, EndRun, CancelRun, CoreCrash, ResetRun,
         Reconcile, RetryStep, DriverClaim, CreateWorktree, Develop, DriverFail,
         DriverPhaseA, DriverPhaseB, UserDisposition, contractVars
<1>3. log' = log \/ pc # "off" \/ session = NoSession
  BY DEF Core, StartRun, RetryRun, Project, EndRun, CancelRun, CoreCrash, ResetRun,
         Reconcile, RetryStep, DriverClaim, CreateWorktree, Develop, DriverFail,
         DriverPhaseA, DriverPhaseB, UserDisposition, contractVars, LeaseFree
<1> QED BY <1>1, <1>2, <1>3 DEF Leases

LEMMA LeasesStep ==
  ASSUME Ledger, Next
  PROVE  Leases'
<1>1. TypeOK /\ Leases
  BY DEF Ledger
<1>2. CASE Contract
  <2>1. pc' = pc /\ known' = known /\ minted' = minted
    BY <1>2 DEF Contract, AskSession, GrantSession, CancelSession, ServerCrash, ClaimTask,
         WorkOn, LandTask, LandPhaseA, CommitPhaseB, TransitionTask, SetDisposition,
         coreVars
  <2>2. session' # NoSession => session # NoSession \/ pc = "off"
    BY <1>2 DEF Contract, AskSession, GrantSession, CancelSession, ServerCrash, ClaimTask,
         WorkOn, LandTask, LandPhaseA, CommitPhaseB, TransitionTask, SetDisposition,
         LeaseFree
  <2> QED BY <1>1, <2>1, <2>2 DEF Leases
<1>3. CASE Core
  <2>1. session' = session
    BY <1>3, CoreKeepsSession
  <2>2. pc' # "off" => pc # "off" \/ session = NoSession
    BY <1>3 DEF Core, StartRun, RetryRun, Project, EndRun, CancelRun, CoreCrash, ResetRun,
         Reconcile, RetryStep, DriverClaim, CreateWorktree, Develop, DriverFail,
         DriverPhaseA, DriverPhaseB, UserDisposition, LeaseFree, coreVars
  <2>3. /\ pc' # "off" => known'
        /\ \/ known' /\ minted' = minted + 1
           \/ minted' = minted /\ (known' => known)
    <3>1. pc # "off" => known
      BY <1>1 DEF Leases
    <3> QED
      BY <1>3, <3>1
      DEF Core, StartRun, RetryRun, Project, EndRun, CancelRun, CoreCrash, ResetRun,
         Reconcile, RetryStep, DriverClaim, CreateWorktree, Develop, DriverFail,
         DriverPhaseA, DriverPhaseB, UserDisposition, LeaseFree, coreVars
  <2>4. minted \in Nat
    BY <1>1 DEF TypeOK
  <2>5. known' => minted' # 0
    BY <1>1, <2>3, <2>4 DEF Leases
  <2> QED BY <1>1, <2>1, <2>2, <2>3, <2>5 DEF Leases
<1> QED BY <1>2, <1>3 DEF Next

\* The variables that are neither the lineage nor the session.
LEMMA OthersTyped ==
  ASSUME TypeOK, Next, log' \in Seq(Commits), session' \in [run : ContractRuns \cup {NoRun},
         plan : Nat, phaseA : [Task -> Nat]], log' # <<>>
  PROVE  TypeOK'
<1>1. Len(log) \in Nat /\ Len(log') \in Nat /\ Tip(log) \in Nat
  BY LogTyped DEF Tip
<1>2. branch' \in [Task -> Int]
  <2>1. CASE Contract
    <3>1. ASSUME NEW t \in Task, ClaimTask(t)
          PROVE  branch' \in [Task -> Int]
      BY <1>1, <3>1 DEF ClaimTask, TypeOK
    <3>2. ASSUME NEW t \in Task, WorkOn(t)
          PROVE  branch' \in [Task -> Int]
      BY <3>2 DEF WorkOn, TypeOK
    <3>3. ASSUME \/ AskSession \/ CancelSession \/ ServerCrash
                 \/ \E r \in ContractRuns : GrantSession(r)
                 \/ \E t \in Task : \/ LandTask(t) \/ LandPhaseA(t) \/ CommitPhaseB(t)
                                    \/ TransitionTask(t) \/ SetDisposition(t)
          PROVE  branch' = branch
      BY <3>3 DEF AskSession, GrantSession, CancelSession, ServerCrash, LandTask, LandPhaseA,
                  CommitPhaseB, TransitionTask, SetDisposition
    <3>4. branch \in [Task -> Int]
      BY DEF TypeOK
    <3> QED BY <2>1, <3>1, <3>2, <3>3, <3>4 DEF Contract
  <2>2. CASE Core
    <3>1. ASSUME NEW t \in Task, CreateWorktree(t)
          PROVE  branch' \in [Task -> Int]
      BY <1>1, <3>1 DEF CreateWorktree, TypeOK
    <3>2. ASSUME ResetRun
          PROVE  branch' \in [Task -> Int]
      BY <3>2 DEF ResetRun, TypeOK
    <3> QED
      BY <2>2, <3>1, <3>2
      DEF Core, StartRun, RetryRun, Project, EndRun, CancelRun, CoreCrash,
         Reconcile, RetryStep, DriverClaim, Develop, DriverFail,
         DriverPhaseA, DriverPhaseB, UserDisposition, TypeOK
  <2> QED BY <2>1, <2>2 DEF Next
<1>3. waiting' \in Nat
  <2>1. waiting \in Nat
    BY DEF TypeOK
  <2>2. CASE Contract
    <3>1. waiting' \in {waiting, 0, Tip(log)}
      BY <2>2 DEF Contract, AskSession, GrantSession, CancelSession, ServerCrash, ClaimTask,
         WorkOn, LandTask, LandPhaseA, CommitPhaseB, TransitionTask, SetDisposition,
         contractVars
    <3> QED BY <1>1, <2>1, <3>1
  <2>3. CASE Core
    <3>1. waiting' = waiting
      BY <2>3 DEF Core, StartRun, RetryRun, Project, EndRun, CancelRun, CoreCrash, ResetRun,
         Reconcile, RetryStep, DriverClaim, CreateWorktree, Develop, DriverFail,
         DriverPhaseA, DriverPhaseB, UserDisposition, contractVars
    <3> QED BY <2>1, <3>1
  <2> QED BY <2>2, <2>3 DEF Next
<1>4. /\ pc' \in {"off", "reconcile", "retry", "running"}
      /\ known' \in BOOLEAN
  <2>1. pc \in {"off", "reconcile", "retry", "running"} /\ known \in BOOLEAN
    BY DEF TypeOK
  <2>2. CASE Contract
    <3>1. pc' = pc /\ known' = known
      BY <2>2 DEF Contract, AskSession, GrantSession, CancelSession, ServerCrash, ClaimTask,
         WorkOn, LandTask, LandPhaseA, CommitPhaseB, TransitionTask, SetDisposition,
         coreVars
    <3> QED BY <2>1, <3>1
  <2>3. CASE Core
    <3>1. /\ pc' = pc \/ pc' \in {"off", "reconcile", "retry", "running"}
          /\ known' \in {known, TRUE, FALSE}
      BY <2>3 DEF Core, StartRun, RetryRun, Project, EndRun, CancelRun, CoreCrash, ResetRun,
         Reconcile, RetryStep, DriverClaim, CreateWorktree, Develop, DriverFail,
         DriverPhaseA, DriverPhaseB, UserDisposition, coreVars
    <3> QED BY <2>1, <3>1
  <2> QED BY <2>2, <2>3 DEF Next
<1>5. minted' \in 0 .. MaxCoreRuns
  <2>1. minted \in 0 .. MaxCoreRuns /\ MaxCoreRuns \in Nat
    BY LedgerAssumption DEF TypeOK
  <2>2. minted' = minted \/ (minted < MaxCoreRuns /\ minted' = minted + 1)
    BY DEF Next, Contract, AskSession, GrantSession, CancelSession, ServerCrash,
         ClaimTask, WorkOn, LandTask, LandPhaseA, CommitPhaseB, TransitionTask,
         SetDisposition,
         Core, StartRun, RetryRun, Project, EndRun, CancelRun, CoreCrash, ResetRun,
         Reconcile, RetryStep, DriverClaim, CreateWorktree, Develop, DriverFail,
         DriverPhaseA, DriverPhaseB, UserDisposition, coreVars
  <2> QED BY <2>1, <2>2
<1>6. retrying' \subseteq Task /\ todo' \subseteq Task
  <2>1. retrying \subseteq Task /\ todo \subseteq Task /\ Stale \subseteq Task /\ Failed \subseteq Task
    BY DEF TypeOK, Stale, Failed
  <2>2. CASE Contract
    BY <2>1, <2>2 DEF Contract, AskSession, GrantSession, CancelSession, ServerCrash,
         ClaimTask, WorkOn, LandTask, LandPhaseA, CommitPhaseB, TransitionTask,
         SetDisposition, coreVars
  <2>3. CASE Core
    BY <2>1, <2>3 DEF Core, StartRun, RetryRun, Project, EndRun, CancelRun, CoreCrash,
         ResetRun, Reconcile, RetryStep, DriverClaim, CreateWorktree, Develop, DriverFail,
         DriverPhaseA, DriverPhaseB, UserDisposition, coreVars
  <2> QED BY <2>2, <2>3 DEF Next
<1>7. drv' \in [Task -> DriverStates]
  <2>1. drv \in [Task -> DriverStates]
    BY DEF TypeOK
  <2>2. /\ "none" \in DriverStates /\ "failed" \in DriverStates /\ "idle" \in DriverStates
        /\ "claimed" \in DriverStates /\ "working" \in DriverStates
        /\ "landed" \in DriverStates /\ "stranded" \in DriverStates /\ "done" \in DriverStates
    BY DEF DriverStates
  <2>3. Saved \in [Task -> DriverStates]
    BY <2>2 DEF Saved
  <2>4. [t \in Task |-> Projected(t)] \in [Task -> DriverStates]
    BY <2>2 DEF Projected
  <2>5. [u \in Task |-> IF u \in retrying THEN "idle" ELSE drv[u]] \in [Task -> DriverStates]
    BY <2>1, <2>2
  <2>6. [u \in Task |-> "none"] \in [Task -> DriverStates]
    BY <2>2
  <2>7. \A s \in DriverStates, t \in Task : [drv EXCEPT ![t] = s] \in [Task -> DriverStates]
    BY <2>1
  <2>8. CASE Contract
    BY <2>1, <2>8 DEF Contract, AskSession, GrantSession, CancelSession, ServerCrash,
         ClaimTask, WorkOn, LandTask, LandPhaseA, CommitPhaseB, TransitionTask,
         SetDisposition, coreVars
  <2>9. CASE \/ \E again \in BOOLEAN : StartRun(again)
             \/ \E S : RetryRun(S)
             \/ Project \/ EndRun \/ CancelRun \/ CoreCrash \/ ResetRun
    BY <2>1, <2>3, <2>4, <2>9 DEF StartRun, RetryRun, Project, EndRun, CancelRun,
         CoreCrash, ResetRun, coreVars
  <2>10. ASSUME NEW t \in Task,
                Reconcile(t) \/ RetryStep(t) \/ Develop(t) \/ UserDisposition(t)
         PROVE  drv' \in [Task -> DriverStates]
    BY <2>1, <2>3, <2>5, <2>6, <2>10 DEF Reconcile, RetryStep, Develop, UserDisposition,
         coreVars
  <2>11. ASSUME NEW t \in Task,
                DriverClaim(t) \/ CreateWorktree(t) \/ DriverFail(t) \/ DriverPhaseA(t)
                  \/ DriverPhaseB(t)
         PROVE  drv' \in [Task -> DriverStates]
    <3>1. \/ drv' = [drv EXCEPT ![t] = "claimed"] \/ drv' = [drv EXCEPT ![t] = "failed"]
          \/ drv' = [drv EXCEPT ![t] = "working"] \/ drv' = [drv EXCEPT ![t] = "landed"]
          \/ drv' = [drv EXCEPT ![t] = "done"] \/ drv' = [drv EXCEPT ![t] = "stranded"]
      BY <2>11 DEF DriverClaim, CreateWorktree, DriverFail, DriverPhaseA, DriverPhaseB
    <3> QED BY <2>2, <2>7, <3>1
  <2> QED BY <2>8, <2>9, <2>10, <2>11 DEF Next, Core
<1> QED BY <1>2, <1>3, <1>4, <1>5, <1>6, <1>7 DEF TypeOK

LEMMA LedgerInit == Init => Ledger
<1> SUFFICES ASSUME Init PROVE Ledger
  OBVIOUS
<1>1. log \in Seq(Commits) /\ log # <<>> /\ Chronicle(log)
  BY RegistrationStands DEF Init
<1>2. SessionStands(log, session)
  BY NoSessionStands DEF Init
<1>3. HeldLandings
  BY <1>2 DEF HeldLandings, SessionStands
<1>5. branch \in [Task -> Int] /\ drv \in [Task -> DriverStates]
  BY DEF Init, DriverStates
<1>6. minted \in 0 .. MaxCoreRuns /\ waiting \in Nat
  BY LedgerAssumption DEF Init
<1>7. TypeOK
  BY <1>1, <1>2, <1>5, <1>6 DEF Init, TypeOK, SessionStands
<1>4. Leases /\ Drivers
  BY DEF Init, Leases, Drivers
<1> QED BY <1>1, <1>3, <1>4, <1>7 DEF Ledger

LEMMA LedgerStep == Ledger /\ [Next]_vars => Ledger' /\ LogStep(log, log')
<1> SUFFICES ASSUME Ledger, [Next]_vars PROVE Ledger' /\ LogStep(log, log')
  OBVIOUS
<1>1. TypeOK /\ Chronicle(log) /\ HeldLandings
  BY DEF Ledger
<1>2. CASE UNCHANGED vars
  <2>1. /\ TypeOK' /\ Leases' /\ Drivers' /\ HeldLandings'
    BY <1>2 DEF vars, Ledger, TypeOK, Leases, Drivers, HeldLandings, Board, Run
  <2>2. log' = log
    BY <1>2 DEF vars
  <2> QED BY <1>1, <2>1, <2>2 DEF Ledger, LogStep
<1>3. CASE Next
  <2>1. LogStep(log, log') /\ SessionStands(log', session') /\ Drivers'
    <3>1. CASE Contract
      BY <3>1, ContractStep, ContractKeepsDrivers
    <3>2. CASE Core
      <4>1. LogStep(log, log') /\ Drivers'
        BY <3>2, CoreStep DEF Kept
      <4>2. SessionStands(log', session')
        BY <1>1, <3>2, CoreKeepsSession, SessionNow, NoSessionStands
      <4> QED BY <4>1, <4>2
    <3> QED BY <1>3, <3>1, <3>2 DEF Next
  <2>2. log' \in Seq(Commits) /\ log' # <<>> /\ Chronicle(log')
    BY <1>1, <2>1, LogTyped, LogStepStands
  <2>3. Leases'
    BY <1>3, LeasesStep
  <2>4. TypeOK'
    BY <1>1, <1>3, <2>1, <2>2, OthersTyped DEF SessionStands
  <2>5. HeldLandings'
    BY <2>1 DEF SessionStands, HeldLandings
  <2> QED BY <2>1, <2>2, <2>3, <2>4, <2>5 DEF Ledger
<1> QED BY <1>2, <1>3

\* What every writer may rely on: the chronicle of the lineage, the exclusion of
\* sessions and runs, and what drivers and sessions remember of it.
THEOREM LedgerInvariant == Spec => []Ledger
<1>1. Ledger /\ [Next]_vars => Ledger'
  BY LedgerStep
<1> QED BY <1>1, LedgerInit, PTL DEF Spec

-----------------------------------------------------------------------------
(* The theorems *)

\* Every variable of the ledger keeps its type.
THEOREM LedgerTypeCorrect == Spec => []TypeOK
<1>1. Ledger => TypeOK
  BY DEF Ledger
<1> QED BY <1>1, LedgerInvariant, PTL

\* Whoever published last, the plan can be loaded: for every number of clients,
\* runs and resets, no writer of landing.rs commits a board that the loader of
\* plan.rs refuses.
THEOREM BoardsLoad == Spec => []BoardLoads
<1>1. Ledger => BoardLoads
  BY DEF Ledger, Chronicle, BoardLoads, Board
<1> QED BY <1>1, LedgerInvariant, PTL

\* A task in progress stands on a published claim that nothing has taken back,
\* and no two claims of a task stand at once, through crashes and restarts.
THEOREM ClaimsStand == Spec => []ClaimsHold
<1>1. Ledger => ClaimsHold
  BY DEF Ledger, Chronicle, Backed, Separated, ClaimsHold, ClaimBacked, ClaimsSeparated, Board
<1> QED BY <1>1, LedgerInvariant, PTL

\* A done task is credited with a landing of its last attempt, by a status of
\* the run that landed it: no requeue came in between, nor since.
THEOREM DoneStands == Spec => []DoneIsCurrent
<1>1. Ledger => DoneIsCurrent
  BY DEF Ledger, Chronicle, Current, Credits, DoneIsCurrent, Board
<1> QED BY <1>1, LedgerInvariant, PTL

\* However often a request is repeated, by whichever process, a run lands a task
\* once and no landing is credited twice.
THEOREM LandingsOnce == Spec => []LandedOnce
<1>1. Ledger => LandedOnce
  BY DEF Ledger, Chronicle, LandsOnce, CreditsOnce, LandedOnce
<1> QED BY <1>1, LedgerInvariant, PTL

LEMMA ExtendsMoves ==
  ASSUME NEW l \in Seq(Commits), l # <<>>, NEW m, Extends(l, m), NEW t \in Task
  PROVE  /\ m \in Seq(Commits) /\ m # <<>>
         /\ Moved(m[Len(m)], t, TipBoard(l).status[t], TipBoard(m).status[t])
<1>1. PICK c \in Commits : Entry(l, c) /\ m = Append(l, c)
  BY DEF Extends
<1>2. Grows(l, c, m)
  BY <1>1 DEF Grows
<1>3. Treats(l, c, t) /\ m[Len(m)] = c /\ TipBoard(m) = c.board
  BY <1>1, <1>2, EntryGrows
<1> QED BY <1>2, <1>3, Grown DEF Treats

LEMMA LogStepMoves ==
  ASSUME NEW l \in Seq(Commits), l # <<>>, NEW m, LogStep(l, m), NEW t \in Task, Len(m) > 1
  PROVE  Moved(m[Len(m)], t, TipBoard(l).status[t], TipBoard(m).status[t])
<1>1. CASE m = l
  BY <1>1 DEF Moved
<1>2. CASE Extends(l, m)
  BY <1>2, ExtendsMoves
<1>3. CASE \E c \in Commits :
             Entry(l, c) /\ LandingEntry(l, c) /\ Extends(Append(l, c), m)
  <2>1. PICK c \in Commits :
          Entry(l, c) /\ LandingEntry(l, c) /\ Extends(Append(l, c), m)
    BY <1>3
  <2> DEFINE k == Append(l, c)
  <2>2. Grows(l, c, k)
    BY DEF Grows
  <2>3. c.board = TipBoard(l)
    <3>1. PICK t0 \in Task, r \in RunIds : c = CommitOf("landing", t0, r, 0, "", TipBoard(l))
      BY <2>1 DEF LandingEntry
    <3> QED BY <3>1 DEF CommitOf
  <2> HIDE DEF k
  <2>4. k \in Seq(Commits) /\ k # <<>> /\ TipBoard(k) = TipBoard(l)
    BY <2>2, <2>3, Grown
  <2>5. Extends(k, m)
    BY <2>1 DEF k
  <2> QED BY <2>4, <2>5, ExtendsMoves
<1>4. CASE m = <<Registration>>
  BY <1>4
<1> QED BY <1>1, <1>2, <1>3, <1>4 DEF LogStep

\* A task becomes done only by a status of its landing, leaves done and blocked
\* only by a requeue or a drop, and moves only by a commit that names it or by
\* the cancellation of the run it was in progress in.
THEOREM MovesAuthored == Spec => AuthoredMoves
<1>1. ASSUME Ledger, [Next]_vars
      PROVE  [\A t \in Task :
                LET was == TipBoard(log).status[t]
                    is == TipBoard(log').status[t]
                    last == log'[Len(log')]
                IN  (was # is /\ Len(log') > 1) =>
                      /\ last.task = t \/ (last.task = EveryTask /\ was = "InProgress")
                      /\ is = "Done" =>
                           last.phase = "task-status" /\ was # "Blocked" /\ was # "Dropped"
                      /\ was \in {"Done", "Blocked"} => is \in {"Planned", "Dropped"}]_vars
  <2>1. log \in Seq(Commits) /\ log # <<>> /\ LogStep(log, log')
    BY <1>1, LedgerStep, LogTyped DEF Ledger
  <2>2. \A t \in Task : Len(log') > 1 =>
          Moved(log'[Len(log')], t, TipBoard(log).status[t], TipBoard(log').status[t])
    BY <2>1, LogStepMoves
  <2> QED BY <2>2 DEF Moved
<1> QED BY <1>1, LedgerInvariant, PTL DEF Spec, AuthoredMoves
=============================================================================
