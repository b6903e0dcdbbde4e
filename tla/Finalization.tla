----------------------------- MODULE Finalization -----------------------------
(***************************************************************************)
(* How a plan whose tasks are all done or dropped reaches the base branch: *)
(* Phase P is a commit on the plan ref whose tree is the plan merged with  *)
(* the base, Phase F puts that tree on the base, Phase C records F on top  *)
(* of it (landing.rs).  A contract session (plan_contract.rs over          *)
(* PlanContractCoordinator), the core's delayed commands (orchestrator.rs) *)
(* and the end of a run (supervisor.rs) all do it, under the repository    *)
(* lease; people push to the base, and land Manual plans, without it.      *)
(*                                                                         *)
(* A step is one look at the refs or one ref update, so that whatever is   *)
(* not under the lease, and a crash, comes between any two of them.        *)
(***************************************************************************)
EXTENDS Naturals, Sequences

CONSTANTS
  Run,        \* run ids
  Mode,       \* the configured final-merge modes
  Manual,     \* the mode in which a person makes Phase F
  Work,       \* what outside commits add to the base
  Row,        \* rows that other plans write to the root board
  Nobody,     \* no run, no mode
  MaxPlan,    \* bound: the longest lineage of the plan ref explored
  MaxBase     \* bound: the longest lineage of the base ref explored

ASSUME FinalizationAssumption ==
  /\ Manual \in Mode
  /\ Nobody \notin Run \cup Mode
  /\ MaxPlan \in Nat \ {0}
  /\ MaxBase \in Nat \ {0}

VARIABLES
  plan,        \* first-parent lineage of the plan ref, from its last task on
  base,        \* first-parent lineage of the base ref
  checkedOut,  \* the base is checked out in some worktree
  setting,     \* runtime_settings.final_merge
  session,     \* what the contract server retains of its session
  op,          \* the finalization operation in flight
  receipts     \* completions that an answer or the run's metadata vouches for

vars == <<plan, base, checkedOut, setting, session, op, receipts>>

\* What a tree holds: the outside work, the other plans' rows of the root
\* board, and the plan's own STATUS.
Open == [state |-> "open", run |-> Nobody, mode |-> Nobody, final |-> 0]

Pending(r, m) == [state |-> "pending", run |-> r, mode |-> m, final |-> 0]

Complete(r, m, f) == [state |-> "complete", run |-> r, mode |-> m, final |-> f]

Statuses == [state : {"open", "pending", "complete"}, run : Run \cup {Nobody},
             mode : Mode \cup {Nobody}, final : Nat]

Trees == [work : SUBSET Work, rows : SUBSET Row, status : Statuses]

\* A commit and its trailers: tip is Makina-Plan-Tip, final is
\* Makina-Final-Commit, onto is Makina-Expected-Base.  Oids are positions.
Commits == [phase : {"work", "prepared", "final", "completion"},
            run : Run \cup {Nobody}, mode : Mode \cup {Nobody},
            onto : Nat, tip : Nat, final : Nat, tree : Trees]

CommitOf(phase, r, m, onto, tip, final, tree) ==
  [phase |-> phase, run |-> r, mode |-> m, onto |-> onto, tip |-> tip,
   final |-> final, tree |-> tree]

Ordinary(tree) == CommitOf("work", Nobody, Nobody, 0, 0, 0, tree)

NoSession == [run |-> Nobody, plan |-> 0, prepared |-> 0, mode |-> Nobody,
              onto |-> 0, final |-> 0]

\* by: the front that runs it; tip: the plan commit it works on; onto: the base
\* oid it expects.
Idle == [by |-> "nobody", step |-> "none", run |-> Nobody, mode |-> Nobody,
         tip |-> 0, onto |-> 0, final |-> 0]

Fronts == {"nobody", "session", "reprepare", "finalize", "runend"}

Steps == {"none", "prepare", "integrate", "verify", "publishF", "complete", "publishC"}

TypeOK ==
  /\ plan \in Seq(Commits) /\ plan # <<>>
  /\ base \in Seq(Commits) /\ base # <<>>
  /\ checkedOut \in BOOLEAN
  /\ setting \in Mode
  /\ session \in [run : Run \cup {Nobody}, plan : Nat, prepared : Nat,
                  mode : Mode \cup {Nobody}, onto : Nat, final : Nat]
  /\ op \in [by : Fronts, step : Steps, run : Run \cup {Nobody},
             mode : Mode \cup {Nobody}, tip : Nat, onto : Nat, final : Nat]
  /\ receipts \subseteq [run : Run, final : Nat, completion : Nat]

Init ==
  /\ plan = <<Ordinary([work |-> {}, rows |-> {}, status |-> Open])>>
  /\ base = <<Ordinary([work |-> {}, rows |-> {}, status |-> Open])>>
  /\ checkedOut \in BOOLEAN
  /\ setting \in Mode
  /\ session = NoSession
  /\ op = Idle
  /\ receipts = {}

PlanTip == Len(plan)

BaseTip == Len(base)

LeaseFree == session = NoSession /\ op = Idle

-----------------------------------------------------------------------------
(* Evidence on the two lineages.                                             *)

\* inspect_finalization_evidence.
PreparedBy(r, m) ==
  {p \in 1..PlanTip : plan[p].phase = "prepared" /\ plan[p].run = r
                      /\ plan[p].mode = m}

\* The last one of the lineage, if there is one.
Newest(commits) == {p \in commits : \A q \in commits : q <= p}

\* The lookup at the head of commit_final_integration.
Integrations(r, p) ==
  {n \in 1..BaseTip : base[n].phase = "final" /\ base[n].run = r
                      /\ base[n].tip = p}

IsCompletion(n, r, f) ==
  base[n].phase = "completion" /\ base[n].run = r /\ base[n].final = f

\* The tree of Phase P: the base squash-merged into the plan, the plan's STATUS
\* pending.  The root board is rendered anew over the plan's board by the
\* contract's coordinator, over the base's board by the core.
PreparedTree(by, r, m, p, b) ==
  [work   |-> plan[p].tree.work \cup base[b].tree.work,
   rows   |-> IF by = "session" THEN plan[p].tree.rows ELSE base[b].tree.rows,
   status |-> Pending(r, m)]

\* The tree of Phase C: that of F with the two status documents rewritten, by
\* the contract's coordinator from those of the P its session retains.
CompletedTree(o) ==
  LET tree == base[o.final].tree
  IN  [work   |-> tree.work,
       rows   |-> IF o.by = "session" THEN plan[o.tip].tree.rows ELSE tree.rows,
       status |-> Complete(o.run, o.mode, o.final)]

-----------------------------------------------------------------------------
(* The world outside the lease.                                              *)

Pushed(tree) ==
  /\ BaseTip < MaxBase
  /\ base' = Append(base, Ordinary(tree))
  /\ UNCHANGED <<plan, checkedOut, setting, session, op, receipts>>

OutsideWork(w) ==
  LET tree == base[BaseTip].tree
  IN  w \notin tree.work /\ Pushed([tree EXCEPT !.work = @ \cup {w}])

\* Another plan reaches the base.
OutsideRow(o) ==
  LET tree == base[BaseTip].tree
  IN  o \notin tree.rows /\ Pushed([tree EXCEPT !.rows = @ \cup {o}])

\* A person follows the recipe of a Manual P.
ManualFinal(p) ==
  /\ BaseTip < MaxBase
  /\ plan[p].phase = "prepared" /\ plan[p].mode = Manual
  /\ plan[p].onto = BaseTip
  /\ base' = Append(base, CommitOf("final", plan[p].run, Manual, 0, p, 0,
                                   plan[p].tree))
  /\ UNCHANGED <<plan, checkedOut, setting, session, op, receipts>>

SwitchCheckout ==
  /\ checkedOut' = ~checkedOut
  /\ UNCHANGED <<plan, base, setting, session, op, receipts>>

ChangeSetting(m) ==
  /\ m # setting
  /\ setting' = m
  /\ UNCHANGED <<plan, base, checkedOut, session, op, receipts>>

-----------------------------------------------------------------------------
(* The three fronts.                                                         *)

StartSession(r) ==
  /\ LeaseFree
  /\ session' = [NoSession EXCEPT !.run = r, !.plan = PlanTip]
  /\ UNCHANGED <<plan, base, checkedOut, setting, op, receipts>>

\* A session asks for one thing at a time: its requests hold the state mutex.
Asked(request) ==
  /\ session # NoSession
  /\ op = Idle
  /\ op' = request
  /\ UNCHANGED <<plan, base, checkedOut, setting, session, receipts>>

AskPrepare(m) ==
  Asked([by |-> "session", step |-> "prepare", run |-> session.run, mode |-> m,
         tip |-> session.plan, onto |-> BaseTip, final |-> 0])

\* With or without the oid of a manual commit.
AskIntegrate(step) ==
  /\ session.prepared # 0
  /\ step \in {"integrate", "verify"}
  /\ Asked([by |-> "session", step |-> step, run |-> session.run,
            mode |-> session.mode, tip |-> session.prepared,
            onto |-> session.onto, final |-> 0])

AskComplete ==
  /\ session.prepared # 0 /\ session.final # 0
  /\ Asked([by |-> "session", step |-> "complete", run |-> session.run,
            mode |-> session.mode, tip |-> session.prepared,
            onto |-> session.onto, final |-> session.final])

CancelSession ==
  /\ session # NoSession /\ op = Idle
  /\ session' = NoSession
  /\ UNCHANGED <<plan, base, checkedOut, setting, op, receipts>>

\* Close, with the completion its client claims.
CloseSession(f) ==
  /\ session # NoSession /\ op = Idle
  /\ IsCompletion(BaseTip, session.run, f)
  /\ receipts' = receipts \cup {[run |-> session.run, final |-> f,
                                 completion |-> BaseTip]}
  /\ session' = NoSession
  /\ UNCHANGED <<plan, base, checkedOut, setting, op>>

\* A core command that names the current plan tip has the lease.
Started(by, step, r, p, b) ==
  /\ LeaseFree
  /\ op' = [by |-> by, step |-> step, run |-> r, mode |-> setting, tip |-> p,
            onto |-> b, final |-> 0]
  /\ UNCHANGED <<plan, base, checkedOut, setting, session, receipts>>

Reprepare(r) == Started("reprepare", "prepare", r, PlanTip, BaseTip)

EndOfRun(r) == Started("runend", "prepare", r, PlanTip, BaseTip)

\* A plausible bug: FinalizePlan expects the base as it is now.
FinalizeOnCurrentBase(r) ==
  /\ plan[PlanTip].phase = "prepared"
  /\ plan[PlanTip].run = r /\ plan[PlanTip].mode = setting
  /\ Started("finalize", IF setting = Manual THEN "verify" ELSE "integrate",
             r, PlanTip, BaseTip)

\* FinalizePlan: the tip must be exact Phase P evidence of the run and mode; the
\* base it expects is the one the evidence names.
Finalize(r) ==
  /\ plan[PlanTip].phase = "prepared"
  /\ plan[PlanTip].run = r /\ plan[PlanTip].mode = setting
  /\ Started("finalize", IF setting = Manual THEN "verify" ELSE "integrate",
             r, PlanTip, plan[PlanTip].onto)

ServerCrash ==
  /\ session # NoSession
  /\ session' = NoSession
  /\ op' = Idle
  /\ UNCHANGED <<plan, base, checkedOut, setting, receipts>>

\* An error answer (a ref moved, a conflict outside the coordinator's documents,
\* the base checked out, a git failure), or the death of the core.
Refused ==
  /\ op # Idle
  /\ op' = Idle
  /\ UNCHANGED <<plan, base, checkedOut, setting, session, receipts>>

-----------------------------------------------------------------------------
(* Phase P: commit_finalization_prepared.                                    *)

\* What the front does with the P it is given.  The contract's session pairs it
\* with the base it has just read.
WithPrepared(p) ==
  /\ op' = Idle
  /\ session' = IF op.by = "session"
                  THEN [session EXCEPT !.plan = p, !.prepared = p,
                                       !.mode = op.mode, !.onto = op.onto]
                  ELSE session

Reusable == IF op.by = "reprepare" THEN {} ELSE PreparedBy(op.run, op.mode)

ReusePrepared ==
  /\ op.step = "prepare"
  /\ \E p \in Newest(Reusable) : WithPrepared(p)
  /\ UNCHANGED <<plan, base, checkedOut, setting, receipts>>

PreparedCommit(onto) ==
  CommitOf("prepared", op.run, op.mode, onto, 0, 0,
           PreparedTree(op.by, op.run, op.mode, op.tip, op.onto))

\* A plausible bug: the trailer names the base as it is at the commit, and the
\* transaction does not verify the one that was merged.
PublishUnverified ==
  /\ op.step = "prepare"
  /\ Reusable = {}
  /\ op.tip = PlanTip
  /\ PlanTip < MaxPlan
  /\ plan' = Append(plan, PreparedCommit(BaseTip))
  /\ WithPrepared(PlanTip + 1)
  /\ UNCHANGED <<base, checkedOut, setting, receipts>>

\* One ref transaction verifies the base and moves the plan ref.  A tree that
\* does not change is not committed.
PublishPrepared ==
  /\ op.step = "prepare"
  /\ Reusable = {}
  /\ op.tip = PlanTip /\ op.onto = BaseTip
  /\ PreparedCommit(op.onto).tree # plan[PlanTip].tree
  /\ PlanTip < MaxPlan
  /\ plan' = Append(plan, PreparedCommit(op.onto))
  /\ WithPrepared(PlanTip + 1)
  /\ UNCHANGED <<base, checkedOut, setting, receipts>>

-----------------------------------------------------------------------------
(* Phase F: commit_final_integration, verify_manual_final_integration.       *)

\* FinalizePlan goes on to Phase C; the session keeps the oid for its client.
WithFinal(f) ==
  IF op.by = "session"
    THEN op' = Idle /\ session' = [session EXCEPT !.final = f]
    ELSE op' = [op EXCEPT !.step = "complete", !.final = f] /\ UNCHANGED session

ReuseFinal ==
  /\ op.step = "integrate"
  /\ \E f \in Integrations(op.run, op.tip) :
       Integrations(op.run, op.tip) = {f} /\ WithFinal(f)
  /\ UNCHANGED <<plan, base, checkedOut, setting, receipts>>

\* A plausible bug: no lookup of an earlier Phase F.
CheckFinalAgain ==
  /\ op.step = "integrate"
  /\ op.onto = BaseTip /\ ~checkedOut
  /\ op' = [op EXCEPT !.step = "publishF"]
  /\ UNCHANGED <<plan, base, checkedOut, setting, session, receipts>>

CheckFinal ==
  /\ op.step = "integrate"
  /\ Integrations(op.run, op.tip) = {}
  /\ op.onto = BaseTip /\ ~checkedOut
  /\ op' = [op EXCEPT !.step = "publishF"]
  /\ UNCHANGED <<plan, base, checkedOut, setting, session, receipts>>

PublishFinal ==
  /\ op.step = "publishF"
  /\ op.onto = BaseTip
  /\ BaseTip < MaxBase
  /\ base' = Append(base, CommitOf("final", op.run, op.mode, 0, op.tip, 0,
                                   plan[op.tip].tree))
  /\ WithFinal(BaseTip + 1)
  /\ UNCHANGED <<plan, checkedOut, setting, receipts>>

VerifyManual ==
  /\ op.step = "verify"
  /\ BaseTip \in Integrations(op.run, op.tip)
  /\ BaseTip = op.onto + 1
  /\ base[BaseTip].tree = plan[op.tip].tree
  /\ WithFinal(BaseTip)
  /\ UNCHANGED <<plan, base, checkedOut, setting, receipts>>

-----------------------------------------------------------------------------
(* Phase C: commit_finalization_completion.                                  *)

Receipt(c) == [run |-> op.run, final |-> op.final, completion |-> c]

\* A plausible bug: any completion at the tip answers the request.
ReuseAnyCompletion ==
  /\ op.step = "complete"
  /\ base[BaseTip].phase = "completion"
  /\ receipts' = receipts \cup {Receipt(BaseTip)}
  /\ op' = Idle
  /\ UNCHANGED <<plan, base, checkedOut, setting, session>>

ReuseCompletion ==
  /\ op.step = "complete"
  /\ IsCompletion(BaseTip, op.run, op.final)
  /\ receipts' = receipts \cup {Receipt(BaseTip)}
  /\ op' = Idle
  /\ UNCHANGED <<plan, base, checkedOut, setting, session>>

CheckCompletion ==
  /\ op.step = "complete"
  /\ ~IsCompletion(BaseTip, op.run, op.final)
  /\ op.final = BaseTip /\ ~checkedOut
  /\ op' = [op EXCEPT !.step = "publishC"]
  /\ UNCHANGED <<plan, base, checkedOut, setting, session, receipts>>

\* A plausible bug: the update of the base ref expects no old value.
PublishCompletionAnyway ==
  /\ op.step = "publishC"
  /\ BaseTip < MaxBase
  /\ base' = Append(base, CommitOf("completion", op.run, Nobody, 0, 0, op.final,
                                   CompletedTree(op)))
  /\ UNCHANGED receipts
  /\ op' = Idle
  /\ UNCHANGED <<plan, checkedOut, setting, session>>

\* C is on the base; the answer and the run's metadata may still be lost.
PublishCompletion ==
  /\ op.step = "publishC"
  /\ op.final = BaseTip
  /\ BaseTip < MaxBase
  /\ base' = Append(base, CommitOf("completion", op.run, Nobody, 0, 0, op.final,
                                   CompletedTree(op)))
  /\ \/ receipts' = receipts \cup {Receipt(BaseTip + 1)}
     \/ UNCHANGED receipts
  /\ op' = Idle
  /\ UNCHANGED <<plan, checkedOut, setting, session>>

-----------------------------------------------------------------------------
Outside ==
  \/ \E w \in Work : OutsideWork(w)
  \/ \E o \in Row : OutsideRow(o)
  \/ \E p \in 1..PlanTip : ManualFinal(p)
  \/ SwitchCheckout
  \/ \E m \in Mode : ChangeSetting(m)

Contract ==
  \/ \E r \in Run : StartSession(r)
  \/ \E m \in Mode : AskPrepare(m)
  \/ \E step \in {"integrate", "verify"} : AskIntegrate(step)
  \/ AskComplete
  \/ CancelSession
  \/ \E f \in 1..BaseTip : CloseSession(f)
  \/ ServerCrash

Core == \E r \in Run : Reprepare(r) \/ EndOfRun(r) \/ Finalize(r)

Transaction ==
  \/ ReusePrepared \/ PublishPrepared
  \/ ReuseFinal \/ CheckFinal \/ PublishFinal \/ VerifyManual
  \/ ReuseCompletion \/ CheckCompletion \/ PublishCompletion
  \/ Refused

Next == Outside \/ Contract \/ Core \/ Transaction

Spec == Init /\ [][Next]_vars

-----------------------------------------------------------------------------
(* Properties.                                                               *)

Finals == {n \in 1..BaseTip : base[n].phase = "final"}

\* No Phase P reaches the base twice, whichever fronts and people try, however
\* often they are interrupted: the Plan-Tip trailer identifies one commit.
IntegratedOnce ==
  \A m, n \in Finals : base[m].tip = base[n].tip => m = n

\* A Phase F whose parent is the base its P was prepared against loses nothing
\* of what others put on that base.
PreparedKeepsBase ==
  \A n \in Finals :
    plan[base[n].tip].onto = n - 1
      => base[n - 1].tree.work \subseteq base[n].tree.work

\* A Phase C stands on the Phase F it records, for the run of that F, and
\* changes no work.
CompletionRecordsFinal ==
  \A n \in 1..BaseTip : base[n].phase = "completion" =>
    /\ base[n].final = n - 1 /\ n - 1 \in Finals
    /\ base[n].run = base[n - 1].run
    /\ base[n].tree.status.final = n - 1
    /\ base[n].tree.work = base[n - 1].tree.work

\* Every completion an answer, a Close or the run's metadata vouches for is on
\* the base, stands for its Phase F, and that F integrates a P of the run.
ReceiptsHold ==
  \A receipt \in receipts :
    /\ receipt.completion \in 1..BaseTip
    /\ IsCompletion(receipt.completion, receipt.run, receipt.final)
    /\ receipt.final \in Finals
    /\ plan[base[receipt.final].tip].run = receipt.run

\* A plan that is recorded as finished, on the base or in an answer, is.
CompletionsHold == CompletionRecordsFinal /\ ReceiptsHold

\* FinalizePlan never takes from the base what others put there, whoever
\* prepared the P it integrates.
DelayedKeepsBase ==
  [][ op.by = "finalize" /\ base' # base
        => base[BaseTip].tree.work \subseteq base'[BaseTip'].tree.work ]_vars

\* ARCHITECTURE.md: if the base advanced after any prepared P, every mode
\* requires a new P made from the current base.  So no Phase F drops what is on
\* the base.
BaseWorkKept ==
  \A n \in Finals : base[n - 1].tree.work \subseteq base[n].tree.work
=============================================================================
