-------------------------- MODULE FinalizationProofs --------------------------
(* Theorems about Finalization, for every set of runs and modes, whatever   *)
(* others push to the base, and without a bound on either lineage.          *)
EXTENDS Finalization, SequenceTheorems, TLAPS

-----------------------------------------------------------------------------
(* The inductive invariant.                                                *)

\* A Phase P holds what the base held when it was prepared.
PreparedSound ==
  \A p \in 1..PlanTip : plan[p].phase = "prepared" =>
    /\ plan[p].run \in Run
    /\ plan[p].onto \in 1..BaseTip
    /\ base[plan[p].onto].tree.work \subseteq plan[p].tree.work

IsPrepared(p, r) ==
  p \in 1..PlanTip /\ plan[p].phase = "prepared" /\ plan[p].run = r

\* A Phase F is its Phase P, put on the base later than the commit that P was
\* prepared on.
FinalsSound ==
  \A n \in Finals :
    /\ n - 1 \in 1..BaseTip
    /\ IsPrepared(base[n].tip, base[n].run)
    /\ base[n].tree = plan[base[n].tip].tree
    /\ plan[base[n].tip].onto <= n - 1

IsFinal(n, r) == n \in Finals /\ base[n].run = r

\* What the contract server retains of its session is on the two lineages,
\* although it need not belong together.
SessionSound ==
  /\ session # NoSession => session.run \in Run
  /\ session.prepared # 0 => IsPrepared(session.prepared, session.run)
  /\ session.final # 0 => IsFinal(session.final, session.run)

Late == {"integrate", "verify", "publishF", "complete", "publishC"}

\* So is what an operation works on.  Between its lookup of an earlier Phase F
\* and its update of the base ref the base may grow, and then the update fails.
OpSound ==
  /\ op.step # "none" => op.run \in Run
  /\ op.step # "none" /\ op.by = "session" => session # NoSession /\ op.run = session.run
  /\ op.step \in Late => IsPrepared(op.tip, op.run)
  /\ op.step \in Late /\ op.by = "finalize" => op.onto = plan[op.tip].onto
  /\ op.step \in {"complete", "publishC"} => IsFinal(op.final, op.run)
  /\ op.step = "publishF" =>
       /\ op.onto <= BaseTip
       /\ op.onto = BaseTip => \A n \in Finals : base[n].tip # op.tip

\* What the two lineages hold.
Lineages ==
  TypeOK /\ PreparedSound /\ FinalsSound /\ IntegratedOnce /\ CompletionRecordsFinal

IInv == Lineages /\ SessionSound /\ OpSound /\ ReceiptsHold

LEMMA FinalizationInit == Init => IInv
<1> SUFFICES ASSUME Init PROVE IInv
  OBVIOUS
<1> USE FinalizationAssumption
<1> DEFINE tree == [work |-> {}, rows |-> {}, status |-> Open]
<1>1. tree \in Trees
  BY DEF Trees, Statuses, Open
<1>2. Ordinary(tree) \in Commits /\ Ordinary(tree).phase = "work"
  BY <1>1 DEF Ordinary, CommitOf, Commits
<1> HIDE DEF tree
<1>3. /\ plan = <<Ordinary(tree)>> /\ base = <<Ordinary(tree)>>
      /\ session = NoSession /\ op = Idle /\ receipts = {}
  BY DEF Init, tree
<1>4. TypeOK
  <2>1. plan \in Seq(Commits) /\ plan # <<>> /\ base \in Seq(Commits) /\ base # <<>>
    BY <1>2, <1>3
  <2> QED
    BY <1>3, <2>1 DEF TypeOK, Init, NoSession, Idle, Fronts, Steps
<1>5. PlanTip = 1 /\ BaseTip = 1 /\ plan[1].phase = "work" /\ base[1].phase = "work"
  BY <1>2, <1>3 DEF PlanTip, BaseTip
<1>6. Finals = {}
  BY <1>5 DEF Finals
<1>7. PreparedSound /\ FinalsSound /\ IntegratedOnce /\ CompletionRecordsFinal
  BY <1>5, <1>6 DEF PreparedSound, FinalsSound, IntegratedOnce, CompletionRecordsFinal
<1>8. SessionSound /\ OpSound /\ ReceiptsHold
  BY <1>3 DEF SessionSound, OpSound, ReceiptsHold, NoSession, Idle, Late
<1> QED
  BY <1>4, <1>7, <1>8 DEF IInv, Lineages

-----------------------------------------------------------------------------
(* What a commit on either lineage leaves as it was.                       *)

LEMMA Tips ==
  ASSUME TypeOK
  PROVE  /\ PlanTip \in Nat /\ PlanTip \in 1..PlanTip
         /\ BaseTip \in Nat /\ BaseTip \in 1..BaseTip
         /\ \A p \in 1..PlanTip : plan[p] \in Commits
         /\ \A n \in 1..BaseTip : base[n] \in Commits
BY DEF TypeOK, PlanTip, BaseTip

Longer(s, t) == Len(t) \in Nat /\ Len(s) <= Len(t) /\ \A i \in 1..Len(s) : t[i] = s[i]

\* Evidence lasts, as the two refs only grow.
LEMMA EvidenceLasts ==
  ASSUME TypeOK, Longer(plan, plan'), Longer(base, base')
  PROVE  /\ \A p, r : IsPrepared(p, r) => IsPrepared(p, r)' /\ plan'[p] = plan[p]
         /\ \A n, r : IsFinal(n, r) => IsFinal(n, r)'
         /\ Finals \subseteq Finals' /\ \A n \in Finals : base'[n] = base[n]
BY Tips DEF Longer, IsPrepared, IsFinal, Finals, PlanTip, BaseTip

LEMMA ReceiptsLast ==
  ASSUME TypeOK, FinalsSound, ReceiptsHold, Longer(plan, plan'), Longer(base, base')
  PROVE  \A receipt \in receipts :
           /\ receipt.completion \in 1..BaseTip'
           /\ IsCompletion(receipt.completion, receipt.run, receipt.final)'
           /\ receipt.final \in Finals'
           /\ plan'[base'[receipt.final].tip].run = receipt.run
<1> SUFFICES ASSUME NEW receipt \in receipts
             PROVE  /\ receipt.completion \in 1..BaseTip'
                    /\ IsCompletion(receipt.completion, receipt.run, receipt.final)'
                    /\ receipt.final \in Finals'
                    /\ plan'[base'[receipt.final].tip].run = receipt.run
  OBVIOUS
<1>1. /\ receipt.completion \in 1..BaseTip
      /\ IsCompletion(receipt.completion, receipt.run, receipt.final)
      /\ receipt.final \in Finals
      /\ plan[base[receipt.final].tip].run = receipt.run
  BY DEF ReceiptsHold
<1>2. IsPrepared(base[receipt.final].tip, base[receipt.final].run)
  BY <1>1 DEF FinalsSound
<1>3. /\ receipt.final \in Finals' /\ base'[receipt.final] = base[receipt.final]
      /\ plan'[base[receipt.final].tip] = plan[base[receipt.final].tip]
  BY <1>1, <1>2, EvidenceLasts
<1>4. receipt.completion \in 1..BaseTip' /\ base'[receipt.completion] = base[receipt.completion]
  BY <1>1, Tips DEF Longer, BaseTip
<1> QED
  BY <1>1, <1>3, <1>4 DEF IsCompletion

Extends(s, t, c) == t = Append(s, c)

LEMMA ExtendsLonger ==
  ASSUME NEW s \in Seq(Commits), NEW t, NEW c \in Commits, Extends(s, t, c)
  PROVE  /\ Longer(s, t) /\ t \in Seq(Commits) /\ t # <<>>
         /\ Len(t) = Len(s) + 1 /\ t[Len(s) + 1] = c
BY AppendProperties DEF Extends, Longer

LEMMA SameLonger == ASSUME TypeOK PROVE Longer(plan, plan) /\ Longer(base, base)
BY DEF Longer, TypeOK

-----------------------------------------------------------------------------
(* Each kind of commit keeps the two lineages sound.                       *)

\* What a Phase P was prepared on stays under a longer base.
LEMMA PreparedStays ==
  ASSUME Lineages, plan' = plan, Longer(base, base')
  PROVE  PreparedSound'
<1>1. BaseTip \in Nat /\ BaseTip' \in Nat /\ BaseTip <= BaseTip' /\ PlanTip' = PlanTip
  BY Tips DEF Lineages, Longer, BaseTip, PlanTip
<1> SUFFICES ASSUME NEW p \in 1..PlanTip, plan[p].phase = "prepared"
             PROVE  /\ plan[p].run \in Run
                    /\ plan[p].onto \in 1..BaseTip'
                    /\ base'[plan[p].onto].tree.work \subseteq plan[p].tree.work
  BY <1>1 DEF PreparedSound
<1>2. /\ plan[p].run \in Run
      /\ plan[p].onto \in 1..BaseTip
      /\ base[plan[p].onto].tree.work \subseteq plan[p].tree.work
  BY DEF Lineages, PreparedSound
<1>3. base'[plan[p].onto] = base[plan[p].onto]
  BY <1>2 DEF Longer, BaseTip
<1> QED
  BY <1>1, <1>2, <1>3

\* An ordinary commit of somebody else.
LEMMA OutsideKeeps ==
  ASSUME Lineages, NEW c \in Commits, c.phase = "work", Extends(base, base', c),
         UNCHANGED <<plan, checkedOut, setting, session, op, receipts>>
  PROVE  Lineages'
<1>1. /\ base \in Seq(Commits) /\ BaseTip \in Nat /\ BaseTip' = BaseTip + 1
      /\ base' \in Seq(Commits) /\ base' # <<>> /\ Longer(base, base')
      /\ base'[BaseTip + 1] = c /\ \A i \in 1..BaseTip : base'[i] = base[i]
  BY ExtendsLonger, Tips DEF Lineages, TypeOK, BaseTip, Longer
<1>2. TypeOK'
  BY <1>1 DEF Lineages, TypeOK
<1>3. Finals' = Finals /\ \A n \in Finals : n \in 1..BaseTip /\ base'[n] = base[n]
  BY <1>1 DEF Finals
<1>4. PreparedSound'
  BY <1>1, PreparedStays
<1>5. FinalsSound'
  <2>1. ASSUME NEW n \in Finals
        PROVE  /\ n - 1 \in 1..BaseTip
               /\ IsPrepared(base[n].tip, base[n].run)
               /\ base[n].tree = plan[base[n].tip].tree
               /\ plan[base[n].tip].onto <= n - 1
    BY DEF Lineages, FinalsSound
  <2>2. \A p, r : IsPrepared(p, r) <=> IsPrepared(p, r)'
    BY DEF IsPrepared, PlanTip
  <2> QED
    BY <1>1, <1>3, <2>1, <2>2 DEF FinalsSound
<1>6. IntegratedOnce'
  BY <1>3 DEF Lineages, IntegratedOnce
<1>7. CompletionRecordsFinal'
  <2>1. ASSUME NEW n \in 1..BaseTip, base[n].phase = "completion"
        PROVE  n - 1 \in Finals /\ n - 1 \in 1..BaseTip
    BY <1>3, <2>1 DEF Lineages, CompletionRecordsFinal
  <2>2. ASSUME NEW n \in 1..BaseTip', base'[n].phase = "completion"
        PROVE  n \in 1..BaseTip /\ base'[n] = base[n] /\ base'[n - 1] = base[n - 1]
    <3>1. n \in 1..BaseTip \/ n = BaseTip + 1
      BY <1>1, <2>2
    <3>2. n # BaseTip + 1
      BY <1>1, <2>2
    <3>3. n \in 1..BaseTip /\ base'[n] = base[n]
      BY <1>1, <3>1, <3>2
    <3>4. n - 1 \in 1..BaseTip
      BY <2>1, <2>2, <3>3
    <3> QED
      BY <1>1, <3>3, <3>4
  <2>3. ASSUME NEW n \in 1..BaseTip', base'[n].phase = "completion"
        PROVE  /\ base'[n].final = n - 1 /\ n - 1 \in Finals
               /\ base'[n].run = base'[n - 1].run
               /\ base'[n].tree.status.final = n - 1
               /\ base'[n].tree.work = base'[n - 1].tree.work
    <3>1. n \in 1..BaseTip /\ base[n].phase = "completion"
      BY <2>2, <2>3
    <3> QED
      BY <2>2, <2>3, <3>1 DEF Lineages, CompletionRecordsFinal
  <2> QED
    BY <1>3, <2>3 DEF CompletionRecordsFinal
<1> QED
  BY <1>2, <1>4, <1>5, <1>6, <1>7 DEF Lineages

\* A Phase F, the first one of its Phase P.
LEMMA FinalKeeps ==
  ASSUME Lineages, NEW r \in Run, NEW c \in Commits, NEW p,
         IsPrepared(p, r), \A n \in Finals : base[n].tip # p,
         c.phase = "final", c.run = r, c.tip = p, c.tree = plan[p].tree,
         Extends(base, base', c), plan' = plan
  PROVE  /\ PreparedSound' /\ FinalsSound' /\ IntegratedOnce' /\ CompletionRecordsFinal'
         /\ base' \in Seq(Commits) /\ base' # <<>>
         /\ Longer(base, base') /\ BaseTip' = BaseTip + 1 /\ IsFinal(BaseTip, r)'
<1>1. /\ base \in Seq(Commits) /\ BaseTip \in Nat /\ BaseTip' = BaseTip + 1
      /\ base' \in Seq(Commits) /\ base' # <<>> /\ Longer(base, base')
      /\ base'[BaseTip + 1] = c /\ \A i \in 1..BaseTip : base'[i] = base[i]
  BY ExtendsLonger, Tips DEF Lineages, TypeOK, BaseTip, Longer
<1>2. Finals' = Finals \cup {BaseTip + 1}
  BY <1>1 DEF Finals
<1>3. \A n \in Finals : n \in 1..BaseTip /\ base'[n] = base[n]
  BY <1>1 DEF Finals
<1>4. PreparedSound'
  BY <1>1, PreparedStays
<1>5. FinalsSound'
  <2>1. ASSUME NEW n \in Finals
        PROVE  /\ n - 1 \in 1..BaseTip'
               /\ IsPrepared(base[n].tip, base[n].run)
               /\ base[n].tree = plan[base[n].tip].tree
               /\ plan[base[n].tip].onto <= n - 1
    BY <1>1, Tips DEF Lineages, FinalsSound
  <2>2. plan[p].onto \in 1..BaseTip
    BY DEF Lineages, PreparedSound, IsPrepared
  <2>3. /\ BaseTip \in 1..BaseTip'
        /\ plan[p].onto <= BaseTip
    BY <1>1, <2>2, Tips DEF Lineages
  <2>4. \A q, s : IsPrepared(q, s) <=> IsPrepared(q, s)'
    BY DEF IsPrepared, PlanTip
  <2> QED
    BY <1>1, <1>2, <1>3, <2>1, <2>3, <2>4 DEF FinalsSound
<1>6. IntegratedOnce'
  BY <1>1, <1>2, <1>3 DEF Lineages, IntegratedOnce
<1>7. CompletionRecordsFinal'
  <2>1. ASSUME NEW n \in 1..BaseTip, base[n].phase = "completion"
        PROVE  n - 1 \in Finals /\ n - 1 \in 1..BaseTip
    BY <1>3, <2>1 DEF Lineages, CompletionRecordsFinal
  <2>2. ASSUME NEW n \in 1..BaseTip', base'[n].phase = "completion"
        PROVE  n \in 1..BaseTip /\ base'[n] = base[n] /\ base'[n - 1] = base[n - 1]
    <3>1. n \in 1..BaseTip \/ n = BaseTip + 1
      BY <1>1, <2>2
    <3>2. n # BaseTip + 1
      BY <1>1, <2>2
    <3>3. n \in 1..BaseTip /\ base'[n] = base[n]
      BY <1>1, <3>1, <3>2
    <3>4. n - 1 \in 1..BaseTip
      BY <2>1, <2>2, <3>3
    <3> QED
      BY <1>1, <3>3, <3>4
  <2> QED
    BY <1>1, <1>2, <2>2 DEF Lineages, CompletionRecordsFinal
<1>8. IsFinal(BaseTip, r)'
  BY <1>1, <1>2 DEF IsFinal
<1> QED
  BY <1>1, <1>4, <1>5, <1>6, <1>7, <1>8

\* A Phase C, on the Phase F it records.
LEMMA CompletionKeeps ==
  ASSUME Lineages, NEW r \in Run, NEW c \in Commits, IsFinal(BaseTip, r),
         c.phase = "completion", c.run = r, c.final = BaseTip,
         c.tree.status.final = BaseTip, c.tree.work = base[BaseTip].tree.work,
         Extends(base, base', c), plan' = plan
  PROVE  /\ PreparedSound' /\ FinalsSound' /\ IntegratedOnce' /\ CompletionRecordsFinal'
         /\ base' \in Seq(Commits) /\ base' # <<>>
         /\ Longer(base, base') /\ BaseTip' = BaseTip + 1
         /\ IsCompletion(BaseTip, r, BaseTip - 1)'
         /\ base'[BaseTip + 1].tree.work = base[BaseTip].tree.work
<1>1. /\ base \in Seq(Commits) /\ BaseTip \in Nat /\ BaseTip' = BaseTip + 1
      /\ base' \in Seq(Commits) /\ base' # <<>> /\ Longer(base, base')
      /\ base'[BaseTip + 1] = c /\ \A i \in 1..BaseTip : base'[i] = base[i]
      /\ BaseTip \in 1..BaseTip
  BY ExtendsLonger, Tips DEF Lineages, TypeOK, BaseTip, Longer
<1>2. Finals' = Finals /\ \A n \in Finals : n \in 1..BaseTip /\ base'[n] = base[n]
  BY <1>1 DEF Finals
<1>3. PreparedSound'
  BY <1>1, PreparedStays
<1>4. FinalsSound'
  <2>1. ASSUME NEW n \in Finals
        PROVE  /\ n - 1 \in 1..BaseTip
               /\ IsPrepared(base[n].tip, base[n].run)
               /\ base[n].tree = plan[base[n].tip].tree
               /\ plan[base[n].tip].onto <= n - 1
    BY DEF Lineages, FinalsSound
  <2>2. \A q, s : IsPrepared(q, s) <=> IsPrepared(q, s)'
    BY DEF IsPrepared, PlanTip
  <2> QED
    BY <1>1, <1>2, <2>1, <2>2 DEF FinalsSound
<1>5. IntegratedOnce'
  BY <1>2 DEF Lineages, IntegratedOnce
<1>6. CompletionRecordsFinal'
  <2>1. ASSUME NEW n \in 1..BaseTip, base[n].phase = "completion"
        PROVE  n - 1 \in Finals /\ n - 1 \in 1..BaseTip
    BY <1>2, <2>1 DEF Lineages, CompletionRecordsFinal
  <2>2. BaseTip \in Finals /\ base[BaseTip].run = r
    BY DEF IsFinal
  <2>3. ASSUME NEW n \in 1..BaseTip', base'[n].phase = "completion"
        PROVE  /\ base'[n].final = n - 1 /\ n - 1 \in Finals
               /\ base'[n].run = base'[n - 1].run
               /\ base'[n].tree.status.final = n - 1
               /\ base'[n].tree.work = base'[n - 1].tree.work
    <3>1. CASE n \in 1..BaseTip
      <4>1. base'[n] = base[n] /\ base'[n - 1] = base[n - 1]
        BY <1>1, <2>1, <2>3, <3>1
      <4> QED
        BY <2>3, <3>1, <4>1 DEF Lineages, CompletionRecordsFinal
    <3>2. CASE n = BaseTip + 1
      <4>1. base'[n] = c
        BY <1>1, <3>2
      <4>2. n - 1 = BaseTip
        BY <1>1, <3>2
      <4>3. base'[n - 1] = base[BaseTip]
        BY <1>1, <4>2
      <4> QED
        BY <2>2, <4>1, <4>2, <4>3
    <3> QED
      BY <1>1, <3>1, <3>2
  <2> QED
    BY <1>2, <2>3 DEF CompletionRecordsFinal
<1>7. IsCompletion(BaseTip, r, BaseTip - 1)'
  BY <1>1 DEF IsCompletion
<1> QED
  BY <1>1, <1>3, <1>4, <1>5, <1>6, <1>7

\* A Phase P, prepared on the base as it is.
LEMMA PreparedKeeps ==
  ASSUME Lineages, NEW r \in Run, NEW c \in Commits,
         c.phase = "prepared", c.run = r, c.onto = BaseTip,
         base[BaseTip].tree.work \subseteq c.tree.work,
         Extends(plan, plan', c), base' = base
  PROVE  /\ PreparedSound' /\ FinalsSound' /\ IntegratedOnce' /\ CompletionRecordsFinal'
         /\ plan' \in Seq(Commits) /\ plan' # <<>>
         /\ Longer(plan, plan') /\ PlanTip' = PlanTip + 1 /\ IsPrepared(PlanTip, r)'
<1>1. /\ plan \in Seq(Commits) /\ PlanTip \in Nat /\ PlanTip' = PlanTip + 1
      /\ plan' \in Seq(Commits) /\ plan' # <<>> /\ Longer(plan, plan')
      /\ plan'[PlanTip + 1] = c /\ \A i \in 1..PlanTip : plan'[i] = plan[i]
      /\ BaseTip \in 1..BaseTip
  BY ExtendsLonger, Tips DEF Lineages, TypeOK, PlanTip, Longer
<1>2. BaseTip' = BaseTip /\ Finals' = Finals
  BY DEF Finals, BaseTip
<1>3. PreparedSound'
  <2>1. ASSUME NEW p \in 1..PlanTip', plan'[p].phase = "prepared"
        PROVE  /\ plan'[p].run \in Run
               /\ plan'[p].onto \in 1..BaseTip
               /\ base[plan'[p].onto].tree.work \subseteq plan'[p].tree.work
    <3>1. CASE p \in 1..PlanTip
      BY <1>1, <2>1, <3>1 DEF Lineages, PreparedSound
    <3>2. CASE p = PlanTip + 1
      BY <1>1, <3>2
    <3> QED
      BY <1>1, <3>1, <3>2
  <2> QED
    BY <1>2, <2>1 DEF PreparedSound
<1>4. FinalsSound'
  <2>1. ASSUME NEW n \in Finals
        PROVE  /\ n - 1 \in 1..BaseTip
               /\ IsPrepared(base[n].tip, base[n].run)'
               /\ base[n].tree = plan'[base[n].tip].tree
               /\ plan'[base[n].tip].onto <= n - 1
    BY <1>1, <2>1 DEF Lineages, FinalsSound, IsPrepared
  <2> QED
    BY <1>2, <2>1 DEF FinalsSound
<1>5. IntegratedOnce'
  BY <1>2 DEF Lineages, IntegratedOnce
<1>6. CompletionRecordsFinal'
  BY <1>2 DEF Lineages, CompletionRecordsFinal
<1>7. IsPrepared(PlanTip, r)'
  BY <1>1 DEF IsPrepared
<1> QED
  BY <1>1, <1>3, <1>4, <1>5, <1>6, <1>7

-----------------------------------------------------------------------------
(* The lineages keep sound.                                                *)

\* Everything that a step which commits nothing must preserve.
LEMMA NothingCommitted ==
  ASSUME Lineages, UNCHANGED <<plan, base>>, TypeOK'
  PROVE  Lineages'
<1>1. PlanTip' = PlanTip /\ BaseTip' = BaseTip /\ Finals' = Finals
  BY DEF PlanTip, BaseTip, Finals
<1>2. \A p, r : IsPrepared(p, r) <=> IsPrepared(p, r)'
  BY <1>1 DEF IsPrepared
<1>3. PreparedSound'
  BY <1>1 DEF Lineages, PreparedSound
<1>4. FinalsSound'
  BY <1>1, <1>2 DEF Lineages, FinalsSound
<1>5. IntegratedOnce' /\ CompletionRecordsFinal'
  BY <1>1 DEF Lineages, IntegratedOnce, CompletionRecordsFinal
<1> QED
  BY <1>3, <1>4, <1>5 DEF Lineages

LEMMA IInvParts ==
  ASSUME IInv
  PROVE  /\ Lineages /\ TypeOK /\ PreparedSound /\ FinalsSound /\ IntegratedOnce
         /\ CompletionRecordsFinal /\ SessionSound /\ OpSound /\ ReceiptsHold
BY DEF IInv, Lineages

\* What a session and an operation stand on lasts, when they do not change.
LEMMA RestLasts ==
  ASSUME IInv, Longer(plan, plan'), Longer(base, base')
  PROVE  /\ session' = session => SessionSound'
         /\ op' = op /\ session' = session => OpSound'
         /\ op'.step = "none" => OpSound'
         /\ receipts' = receipts => ReceiptsHold'
<1> USE IInvParts
<1>1. /\ \A p, r : IsPrepared(p, r) => IsPrepared(p, r)' /\ plan'[p] = plan[p]
      /\ \A n, r : IsFinal(n, r) => IsFinal(n, r)'
      /\ BaseTip \in Nat /\ BaseTip' \in Nat /\ BaseTip <= BaseTip'
  BY EvidenceLasts, Tips DEF Longer, BaseTip
<1>2. ASSUME session' = session
      PROVE  SessionSound'
  BY <1>1, <1>2 DEF SessionSound
<1>3. ASSUME op' = op, session' = session
      PROVE  OpSound'
  <2>1. ASSUME op.step = "publishF", op.onto = BaseTip'
        PROVE  \A n \in Finals' : base'[n].tip # op.tip
    <3>1. BaseTip' = BaseTip /\ op.onto = BaseTip
      BY <1>1, <2>1 DEF OpSound, TypeOK
    <3>2. Finals' = Finals /\ \A n \in Finals : base'[n] = base[n]
      BY <3>1 DEF Finals, Longer, BaseTip
    <3> QED
      BY <2>1, <3>1, <3>2 DEF OpSound
  <2>2. op.step = "publishF" => op.onto <= BaseTip'
    BY <1>1 DEF OpSound, TypeOK
  <2>3. op.step \in Late => IsPrepared(op.tip, op.run)' /\ plan'[op.tip] = plan[op.tip]
    BY <1>1, <1>3 DEF OpSound
  <2>4. op.step \in {"complete", "publishC"} => IsFinal(op.final, op.run)'
    BY <1>1, <1>3 DEF OpSound
  <2> QED
    BY <1>3, <2>1, <2>2, <2>3, <2>4 DEF OpSound
<1>4. ASSUME op'.step = "none"
      PROVE  OpSound'
  BY <1>4 DEF OpSound, Late
<1>5. ASSUME receipts' = receipts
      PROVE  ReceiptsHold'
  BY <1>5, ReceiptsLast DEF ReceiptsHold
<1> QED
  BY <1>2, <1>3, <1>4, <1>5

-----------------------------------------------------------------------------
(* Every step keeps the invariant.                                         *)

Operations == [by : Fronts, step : Steps, run : Run \cup {Nobody},
               mode : Mode \cup {Nobody}, tip : Nat, onto : Nat, final : Nat]

Sessions == [run : Run \cup {Nobody}, plan : Nat, prepared : Nat,
             mode : Mode \cup {Nobody}, onto : Nat, final : Nat]

\* A step that moves neither ref and vouches for nothing new.
LEMMA QuietStep ==
  ASSUME IInv, UNCHANGED <<plan, base, receipts>>, SessionSound', OpSound',
         checkedOut' \in BOOLEAN, setting' \in Mode, session' \in Sessions,
         op' \in Operations
  PROVE  IInv'
<1>1. TypeOK'
  BY IInvParts DEF TypeOK, Sessions, Operations
<1>2. Lineages'
  BY <1>1, IInvParts, NothingCommitted
<1>3. ReceiptsHold'
  BY IInvParts, RestLasts, SameLonger
<1> QED
  BY <1>2, <1>3 DEF IInv

LEMMA OutsideStep ==
  ASSUME IInv, Outside
  PROVE  IInv'
<1> USE IInvParts
<1>1. ASSUME NEW tree, Pushed(tree), tree \in Trees
      PROVE  IInv'
  <2>1. Ordinary(tree) \in Commits /\ Ordinary(tree).phase = "work"
    BY <1>1, FinalizationAssumption DEF Ordinary, CommitOf, Commits
  <2>2. Extends(base, base', Ordinary(tree))
    BY <1>1 DEF Pushed, Extends
  <2>3. /\ UNCHANGED <<plan, checkedOut, setting, session, op, receipts>>
        /\ Longer(plan, plan') /\ Longer(base, base')
    BY <1>1, <2>1, <2>2, SameLonger, ExtendsLonger DEF Pushed, TypeOK
  <2>4. Lineages'
    BY <2>1, <2>2, <2>3, OutsideKeeps
  <2> QED
    BY <2>3, <2>4, RestLasts DEF IInv
<1>2. base[BaseTip].tree \in Trees
  BY Tips DEF Commits
<1>3. ASSUME NEW w \in Work, OutsideWork(w)
      PROVE  IInv'
  <2>1. [base[BaseTip].tree EXCEPT !.work = @ \cup {w}] \in Trees
    BY <1>2 DEF Trees
  <2> QED
    BY <1>1, <1>3, <2>1 DEF OutsideWork
<1>4. ASSUME NEW o \in Row, OutsideRow(o)
      PROVE  IInv'
  <2>1. [base[BaseTip].tree EXCEPT !.rows = @ \cup {o}] \in Trees
    BY <1>2 DEF Trees
  <2> QED
    BY <1>1, <1>4, <2>1 DEF OutsideRow
<1>5. ASSUME NEW p \in 1..PlanTip, ManualFinal(p)
      PROVE  IInv'
  <2> DEFINE c == CommitOf("final", plan[p].run, Manual, 0, p, 0, plan[p].tree)
  <2>1. /\ IsPrepared(p, plan[p].run) /\ plan[p].run \in Run /\ plan[p].onto = BaseTip
        /\ plan[p].tree \in Trees /\ p \in Nat
    BY <1>5, Tips DEF ManualFinal, IsPrepared, PreparedSound, Commits
  <2>2. /\ c \in Commits /\ c.phase = "final" /\ c.run = plan[p].run /\ c.tip = p
        /\ c.tree = plan[p].tree
    BY <2>1, FinalizationAssumption DEF CommitOf, Commits
  <2>3. \A n \in Finals : base[n].tip # p
    BY <2>1, Tips DEF FinalsSound, Finals
  <2>4. Extends(base, base', c) /\ UNCHANGED <<plan, checkedOut, setting, session, op, receipts>>
    BY <1>5 DEF ManualFinal, Extends
  <2> HIDE DEF c
  <2>5. /\ PreparedSound' /\ FinalsSound' /\ IntegratedOnce' /\ CompletionRecordsFinal'
        /\ base' \in Seq(Commits) /\ base' # <<>> /\ Longer(base, base') /\ Longer(plan, plan')
    BY <2>1, <2>2, <2>3, <2>4, FinalKeeps, SameLonger
  <2>6. TypeOK'
    BY <2>4, <2>5 DEF TypeOK
  <2> QED
    BY <2>4, <2>5, <2>6, RestLasts DEF IInv, Lineages
<1>6. CASE SwitchCheckout
  <2>1. UNCHANGED <<plan, base, setting, session, op, receipts>> /\ checkedOut' \in BOOLEAN
    BY <1>6 DEF SwitchCheckout, TypeOK
  <2> QED
    BY <2>1, QuietStep, RestLasts, SameLonger DEF TypeOK, Sessions, Operations
<1>7. ASSUME NEW m \in Mode, ChangeSetting(m)
      PROVE  IInv'
  <2>1. UNCHANGED <<plan, base, checkedOut, session, op, receipts>> /\ setting' \in Mode
    BY <1>7 DEF ChangeSetting
  <2> QED
    BY <2>1, QuietStep, RestLasts, SameLonger DEF TypeOK, Sessions, Operations
<1> QED
  BY <1>3, <1>4, <1>5, <1>6, <1>7 DEF Outside

LEMMA ContractStep ==
  ASSUME IInv, Contract
  PROVE  IInv'
<1> USE IInvParts
<1>0. /\ NoSession \in Sessions /\ Idle \in Operations /\ Idle.step = "none"
      /\ session \in Sessions /\ op \in Operations
      /\ NoSession.prepared = 0 /\ NoSession.final = 0
  BY DEF NoSession, Idle, Sessions, Operations, Fronts, Steps, TypeOK
<1>1. ASSUME NEW r \in Run, StartSession(r)
      PROVE  IInv'
  <2>1. /\ session' = [NoSession EXCEPT !.run = r, !.plan = PlanTip]
        /\ op = Idle /\ UNCHANGED <<plan, base, checkedOut, setting, op, receipts>>
    BY <1>1 DEF StartSession, LeaseFree
  <2>2. /\ session' \in Sessions /\ session'.run = r /\ session'.prepared = 0
        /\ session'.final = 0
    BY <2>1, Tips DEF Sessions, NoSession
  <2>3. SessionSound' /\ OpSound'
    BY <1>0, <2>1, <2>2, RestLasts, SameLonger DEF SessionSound
  <2> QED
    BY <1>0, <2>1, <2>2, <2>3, QuietStep DEF TypeOK
<1>2. ASSUME NEW request \in Operations, Asked(request), request.by = "session",
             request.run = session.run,
             request.step \in {"prepare", "integrate", "verify", "complete"},
             request.step # "prepare" => IsPrepared(request.tip, session.run),
             request.step = "complete" => IsFinal(request.final, session.run)
      PROVE  IInv'
  <2>1. /\ op' = request /\ UNCHANGED <<plan, base, checkedOut, setting, session, receipts>>
        /\ session # NoSession
    BY <1>2 DEF Asked
  <2>2. /\ \A p, r : IsPrepared(p, r) => plan'[p] = plan[p]
        /\ IsPrepared(request.tip, session.run) => IsPrepared(op.tip, op.run)'
        /\ IsFinal(request.final, session.run) => IsFinal(op.final, op.run)'
    BY <1>2, <2>1 DEF IsPrepared, IsFinal, Finals, PlanTip, BaseTip
  <2>3. OpSound'
    BY <1>2, <2>1, <2>2 DEF OpSound, SessionSound, Late
  <2>4. SessionSound'
    BY <2>1, RestLasts, SameLonger
  <2> QED
    BY <1>0, <2>1, <2>3, <2>4, QuietStep DEF TypeOK
<1>3. ASSUME NEW m \in Mode, AskPrepare(m)
      PROVE  IInv'
  <2> DEFINE request == [by |-> "session", step |-> "prepare", run |-> session.run, mode |-> m,
                         tip |-> session.plan, onto |-> BaseTip, final |-> 0]
  <2>1. request \in Operations
    BY <1>0, Tips DEF Sessions, Operations, Fronts, Steps
  <2> QED
    BY <1>2, <1>3, <2>1 DEF AskPrepare
<1>4. ASSUME NEW step \in {"integrate", "verify"}, AskIntegrate(step)
      PROVE  IInv'
  <2> DEFINE request == [by |-> "session", step |-> step, run |-> session.run,
                         mode |-> session.mode, tip |-> session.prepared,
                         onto |-> session.onto, final |-> 0]
  <2>1. request \in Operations
    BY <1>0 DEF Sessions, Operations, Fronts, Steps
  <2>2. IsPrepared(session.prepared, session.run)
    BY <1>4 DEF AskIntegrate, SessionSound
  <2> QED
    BY <1>2, <1>4, <2>1, <2>2 DEF AskIntegrate
<1>5. CASE AskComplete
  <2> DEFINE request == [by |-> "session", step |-> "complete", run |-> session.run,
                         mode |-> session.mode, tip |-> session.prepared,
                         onto |-> session.onto, final |-> session.final]
  <2>1. request \in Operations
    BY <1>0 DEF Sessions, Operations, Fronts, Steps
  <2>2. IsPrepared(session.prepared, session.run) /\ IsFinal(session.final, session.run)
    BY <1>5 DEF AskComplete, SessionSound
  <2> QED
    BY <1>2, <1>5, <2>1, <2>2 DEF AskComplete
<1>6. ASSUME session' = NoSession, op' = Idle
      PROVE  SessionSound' /\ session' \in Sessions /\ op' \in Operations
             /\ op'.step = "none"
  BY <1>0, <1>6 DEF SessionSound
<1>7. ASSUME session' = NoSession, op' = Idle, UNCHANGED <<plan, base, checkedOut, setting, receipts>>
      PROVE  IInv'
  <2>1. OpSound'
    BY <1>6, <1>7, RestLasts, SameLonger
  <2> QED
    BY <1>6, <1>7, <2>1, QuietStep DEF TypeOK
<1>9. CASE CancelSession
  BY <1>7, <1>9 DEF CancelSession
<1>10. CASE ServerCrash
  BY <1>7, <1>10 DEF ServerCrash
<1>8. ASSUME NEW f \in 1..BaseTip, CloseSession(f)
      PROVE  IInv'
  <2> DEFINE receipt == [run |-> session.run, final |-> f, completion |-> BaseTip]
  <2>1. /\ session' = NoSession /\ op' = Idle
        /\ UNCHANGED <<plan, base, checkedOut, setting>>
        /\ receipts' = receipts \cup {receipt}
        /\ IsCompletion(BaseTip, session.run, f) /\ session.run \in Run
    BY <1>8 DEF CloseSession, SessionSound
  <2>2. /\ f \in Finals /\ base[f].run = session.run /\ f \in Nat
    BY <2>1, Tips DEF IsCompletion, CompletionRecordsFinal
  <2>3. plan[base[f].tip].run = session.run
    BY <2>2 DEF FinalsSound, IsPrepared
  <2>4. ReceiptsHold'
    <3>1. /\ BaseTip' = BaseTip /\ Finals' = Finals
          /\ \A n, r, g : IsCompletion(n, r, g) <=> IsCompletion(n, r, g)'
      BY <2>1 DEF BaseTip, Finals, IsCompletion
    <3> QED
      BY <2>1, <2>2, <2>3, <3>1, Tips DEF ReceiptsHold
  <2>5. TypeOK'
    <3>1. session' \in Sessions /\ op' \in Operations
      BY <1>6, <2>1
    <3>2. receipt \in [run : Run, final : Nat, completion : Nat]
      BY <2>1, <2>2, Tips
    <3> QED
      BY <2>1, <3>1, <3>2 DEF TypeOK, Sessions, Operations
  <2>6. OpSound' /\ SessionSound'
    BY <1>6, <2>1, RestLasts, SameLonger
  <2> QED
    BY <2>1, <2>4, <2>5, <2>6, NothingCommitted DEF IInv
<1> QED
  BY <1>1, <1>3, <1>4, <1>5, <1>8, <1>9, <1>10 DEF Contract

LEMMA CoreStep ==
  ASSUME IInv, Core
  PROVE  IInv'
<1> USE IInvParts
<1>1. ASSUME NEW by \in Fronts \ {"session"}, NEW step \in {"prepare", "integrate", "verify"},
             NEW r \in Run, NEW b \in Nat, Started(by, step, r, PlanTip, b),
             step # "prepare" => IsPrepared(PlanTip, r) /\ b = plan[PlanTip].onto
      PROVE  IInv'
  <2>1. /\ op' = [by |-> by, step |-> step, run |-> r, mode |-> setting, tip |-> PlanTip,
                  onto |-> b, final |-> 0]
        /\ UNCHANGED <<plan, base, checkedOut, setting, session, receipts>>
    BY <1>1 DEF Started
  <2>2. op' \in Operations
    BY <2>1, Tips DEF Operations, Steps, TypeOK
  <2>3. step # "prepare" => IsPrepared(op.tip, op.run)' /\ op'.onto = plan'[op'.tip].onto
    BY <1>1, <2>1 DEF IsPrepared, PlanTip
  <2>4. OpSound'
    BY <2>1, <2>3 DEF OpSound, Late
  <2>5. SessionSound'
    BY <2>1, RestLasts, SameLonger
  <2> QED
    BY <2>1, <2>2, <2>4, <2>5, QuietStep DEF TypeOK, Sessions
<1>2. ASSUME NEW r \in Run, Reprepare(r) \/ EndOfRun(r)
      PROVE  IInv'
  BY <1>1, <1>2, Tips DEF Reprepare, EndOfRun, Fronts
<1>3. ASSUME NEW r \in Run, Finalize(r)
      PROVE  IInv'
  <2>1. IsPrepared(PlanTip, r) /\ plan[PlanTip].onto \in Nat
    BY <1>3, Tips DEF Finalize, IsPrepared, Commits
  <2> QED
    BY <1>1, <1>3, <2>1 DEF Finalize, Fronts
<1> QED
  BY <1>2, <1>3 DEF Core

\* A transaction that hands a Phase P to its front.
LEMMA PreparedStep ==
  ASSUME IInv, ReusePrepared \/ PublishPrepared
  PROVE  IInv'
<1> USE IInvParts
<1>0. /\ op \in Operations /\ session \in Sessions /\ Idle \in Operations
      /\ Idle.step = "none" /\ op.step = "prepare" /\ op.run \in Run
      /\ op.by = "session" => session # NoSession /\ op.run = session.run
  BY DEF ReusePrepared, PublishPrepared, TypeOK, Operations, Sessions, OpSound, Idle,
         Fronts, Steps
<1>1. ASSUME NEW p \in Nat, NEW r \in Run, r = op.run, WithPrepared(p), IsPrepared(p, r)',
             Longer(plan, plan'), Longer(base, base')
      PROVE  SessionSound' /\ OpSound' /\ session' \in Sessions /\ op' \in Operations
  <2>1. CASE op.by # "session"
    BY <1>0, <1>1, <2>1, RestLasts DEF WithPrepared
  <2>2. CASE op.by = "session"
    <3>1. /\ op' = Idle
          /\ session' = [session EXCEPT !.plan = p, !.prepared = p, !.mode = op.mode,
                                        !.onto = op.onto]
      BY <1>1, <2>2 DEF WithPrepared
    <3>2. /\ session' \in Sessions /\ session'.run = op.run /\ session'.prepared = p
          /\ session'.final = session.final
      BY <1>0, <2>2, <3>1 DEF Sessions, Operations
    <3>3. session.final # 0 => IsFinal(session.final, r)
      BY <1>0, <1>1, <2>2 DEF SessionSound
    <3>4. session'.prepared # 0 => IsPrepared(session.prepared, session.run)'
      BY <1>1, <3>2 DEF IsPrepared
    <3>5. session'.final # 0 => IsFinal(session.final, session.run)'
      <4>1. \A n : IsFinal(n, r) => IsFinal(n, r)'
        BY <1>1, EvidenceLasts
      <4> QED
        BY <1>1, <3>2, <3>3, <4>1 DEF IsFinal
    <3> QED
      BY <1>0, <1>1, <3>1, <3>2, <3>4, <3>5, RestLasts DEF SessionSound
  <2> QED
    BY <2>1, <2>2
<1>2. CASE ReusePrepared
  <2>1. PICK p \in Newest(Reusable) : WithPrepared(p)
    BY <1>2 DEF ReusePrepared
  <2>2. UNCHANGED <<plan, base, checkedOut, setting, receipts>>
    BY <1>2 DEF ReusePrepared
  <2>3. p \in Nat /\ p \in 1..PlanTip /\ plan[p].phase = "prepared" /\ plan[p].run = op.run
    BY Tips DEF Newest, Reusable, PreparedBy
  <2>4. ASSUME NEW r \in Run, r = op.run
        PROVE  IsPrepared(p, r)'
    BY <2>2, <2>3, <2>4 DEF IsPrepared, PlanTip
  <2>5. SessionSound' /\ OpSound' /\ session' \in Sessions /\ op' \in Operations
    BY <1>0, <1>1, <2>1, <2>2, <2>3, <2>4, SameLonger
  <2> QED
    BY <2>2, <2>5, QuietStep DEF TypeOK
<1>3. CASE PublishPrepared
  <2> DEFINE c == PreparedCommit(op.onto)
  <2>1. /\ UNCHANGED <<base, checkedOut, setting, receipts>> /\ WithPrepared(PlanTip + 1)
        /\ Extends(plan, plan', c) /\ op.tip = PlanTip /\ op.onto = BaseTip
    BY <1>3 DEF PublishPrepared, Extends
  <2>2. /\ plan[PlanTip].tree \in Trees /\ base[BaseTip].tree \in Trees
        /\ op.mode \in Mode \cup {Nobody} /\ op.onto \in Nat
    BY <1>0, Tips DEF Commits, Operations
  <2>3. /\ PreparedTree(op.by, op.run, op.mode, op.tip, op.onto) \in Trees
        /\ base[BaseTip].tree.work
             \subseteq PreparedTree(op.by, op.run, op.mode, op.tip, op.onto).work
    <3>1. Pending(op.run, op.mode) \in Statuses
      BY <1>0, <2>2 DEF Pending, Statuses
    <3> QED
      BY <2>1, <2>2, <3>1 DEF PreparedTree, Trees
  <2>4. /\ c \in Commits /\ c.phase = "prepared" /\ c.run = op.run /\ c.onto = BaseTip
        /\ base[BaseTip].tree.work \subseteq c.tree.work
    BY <1>0, <2>1, <2>2, <2>3 DEF PreparedCommit, CommitOf, Commits
  <2> HIDE DEF c
  <2>5. ASSUME NEW r \in Run, r = op.run
        PROVE  /\ PreparedSound' /\ FinalsSound' /\ IntegratedOnce'
               /\ CompletionRecordsFinal' /\ plan' \in Seq(Commits) /\ plan' # <<>>
               /\ Longer(plan, plan') /\ PlanTip' = PlanTip + 1 /\ IsPrepared(PlanTip, r)'
    BY <2>1, <2>4, <2>5, PreparedKeeps
  <2>6. Longer(base, base')
    BY <2>1, SameLonger
  <2>7. SessionSound' /\ OpSound' /\ session' \in Sessions /\ op' \in Operations
    <3>1. PlanTip + 1 \in Nat
      BY Tips
    <3>2. ASSUME NEW p \in Nat, p = PlanTip + 1, NEW r \in Run, r = op.run
          PROVE  IsPrepared(p, r)'
      BY <2>5, <3>2 DEF IsPrepared
    <3>3. ASSUME NEW p \in Nat, p = PlanTip + 1, NEW r \in Run, r = op.run
          PROVE  SessionSound' /\ OpSound' /\ session' \in Sessions /\ op' \in Operations
      BY <1>1, <2>1, <2>5, <2>6, <3>2, <3>3
    <3> QED
      BY <1>0, <3>1, <3>3
  <2>8. TypeOK'
    BY <1>0, <2>1, <2>5, <2>7 DEF TypeOK, Sessions, Operations
  <2>9. ReceiptsHold'
    BY <1>0, <2>1, <2>5, <2>6, RestLasts
  <2> QED
    BY <1>0, <2>5, <2>7, <2>8, <2>9 DEF IInv, Lineages
<1> QED
  BY <1>2, <1>3

\* A transaction that hands a Phase F to its front.
LEMMA FinalStep ==
  ASSUME IInv, ReuseFinal \/ CheckFinal \/ PublishFinal \/ VerifyManual
  PROVE  IInv'
<1> USE IInvParts
<1>0. /\ op \in Operations /\ session \in Sessions /\ Idle \in Operations
      /\ Idle.step = "none" /\ op.step \in {"integrate", "publishF", "verify"}
      /\ op.run \in Run /\ IsPrepared(op.tip, op.run)
      /\ op.by = "session" => session # NoSession /\ op.run = session.run
      /\ op.by = "finalize" => op.onto = plan[op.tip].onto
  BY DEF ReuseFinal, CheckFinal, PublishFinal, VerifyManual, TypeOK, Operations, Sessions,
         OpSound, Late, Idle, Fronts, Steps
<1>1. ASSUME NEW f \in Nat, NEW r \in Run, r = op.run, WithFinal(f), IsFinal(f, r)',
             plan' = plan, Longer(base, base')
      PROVE  SessionSound' /\ OpSound' /\ session' \in Sessions /\ op' \in Operations
  <2>0. Longer(plan, plan')
    BY <1>1, SameLonger
  <2>1. CASE op.by # "session"
    <3>1. op' = [op EXCEPT !.step = "complete", !.final = f] /\ session' = session
      BY <1>1, <2>1 DEF WithFinal
    <3>2. /\ op' \in Operations /\ op'.step = "complete" /\ op'.run = op.run /\ op'.tip = op.tip
          /\ op'.by = op.by /\ op'.onto = op.onto /\ op'.final = f
      BY <1>0, <3>1 DEF Operations, Steps
    <3>3. IsPrepared(op.tip, op.run)' /\ plan'[op'.tip].onto = plan[op.tip].onto
      BY <1>0, <1>1, <3>2 DEF IsPrepared, PlanTip
    <3>4. IsFinal(op.final, op.run)'
      BY <1>1, <3>2 DEF IsFinal
    <3>5. OpSound'
      BY <1>0, <2>1, <3>2, <3>3, <3>4 DEF OpSound
    <3> QED
      BY <1>0, <1>1, <2>0, <3>1, <3>2, <3>5, RestLasts
  <2>2. CASE op.by = "session"
    <3>1. op' = Idle /\ session' = [session EXCEPT !.final = f]
      BY <1>1, <2>2 DEF WithFinal
    <3>2. /\ session' \in Sessions /\ session'.run = op.run /\ session'.final = f
          /\ session'.prepared = session.prepared
      BY <1>0, <2>2, <3>1 DEF Sessions
    <3>3. session.prepared # 0 => IsPrepared(session.prepared, session.run)
      BY DEF SessionSound
    <3>4. session'.prepared # 0 => IsPrepared(session.prepared, session.run)'
      BY <1>0, <1>1, <2>2, <3>2, <3>3 DEF IsPrepared, PlanTip
    <3>5. IsFinal(session.final, session.run)'
      BY <1>1, <3>2 DEF IsFinal
    <3> QED
      BY <1>0, <1>1, <2>0, <3>1, <3>2, <3>4, <3>5, RestLasts DEF SessionSound
  <2> QED
    BY <2>1, <2>2
<1>2. ASSUME NEW f \in Integrations(op.run, op.tip), WithFinal(f),
             UNCHANGED <<plan, base, checkedOut, setting, receipts>>
      PROVE  IInv'
  <2>1. f \in Nat /\ f \in 1..BaseTip /\ base[f].phase = "final" /\ base[f].run = op.run
    BY <1>2, Tips DEF Integrations
  <2>2. ASSUME NEW r \in Run, r = op.run
        PROVE  IsFinal(f, r)'
    BY <1>2, <2>1, <2>2 DEF IsFinal, Finals, BaseTip
  <2>3. SessionSound' /\ OpSound' /\ session' \in Sessions /\ op' \in Operations
    BY <1>0, <1>1, <1>2, <2>1, <2>2, SameLonger
  <2> QED
    BY <1>2, <2>3, QuietStep DEF TypeOK
<1>3. CASE ReuseFinal
  BY <1>2, <1>3 DEF ReuseFinal
<1>4. CASE VerifyManual
  BY <1>2, <1>4 DEF VerifyManual
<1>5. CASE CheckFinal
  <2>1. /\ op' = [op EXCEPT !.step = "publishF"]
        /\ UNCHANGED <<plan, base, checkedOut, setting, session, receipts>>
        /\ Integrations(op.run, op.tip) = {} /\ op.onto = BaseTip
    BY <1>5 DEF CheckFinal
  <2>2. /\ op' \in Operations /\ op'.step = "publishF" /\ op'.run = op.run /\ op'.tip = op.tip
        /\ op'.by = op.by /\ op'.onto = op.onto
    BY <1>0, <2>1 DEF Operations, Steps
  <2>3. ASSUME NEW n \in Finals
        PROVE  base[n].tip # op.tip
    <3>1. IsPrepared(base[n].tip, base[n].run)
      BY DEF FinalsSound
    <3> QED
      BY <1>0, <2>1, <3>1 DEF IsPrepared, Integrations, Finals
  <2>4. IsPrepared(op.tip, op.run)' /\ plan'[op'.tip].onto = plan[op.tip].onto
    BY <1>0, <2>1, <2>2 DEF IsPrepared, PlanTip
  <2>5. BaseTip' = BaseTip /\ Finals' = Finals /\ BaseTip \in Nat
    BY <2>1, Tips DEF BaseTip, Finals
  <2>6. OpSound'
    BY <1>0, <2>1, <2>2, <2>3, <2>4, <2>5 DEF OpSound, Late
  <2>7. SessionSound'
    BY <2>1, RestLasts, SameLonger
  <2> QED
    BY <1>0, <2>1, <2>2, <2>6, <2>7, QuietStep DEF TypeOK
<1>6. CASE PublishFinal
  <2> DEFINE c == CommitOf("final", op.run, op.mode, 0, op.tip, 0, plan[op.tip].tree)
  <2>1. /\ UNCHANGED <<plan, checkedOut, setting, receipts>> /\ WithFinal(BaseTip + 1)
        /\ Extends(base, base', c) /\ op.onto = BaseTip
        /\ \A n \in Finals : base[n].tip # op.tip
    BY <1>6 DEF PublishFinal, Extends, OpSound
  <2>2. /\ c \in Commits /\ c.phase = "final" /\ c.run = op.run /\ c.tip = op.tip
        /\ c.tree = plan[op.tip].tree
    <3>1. plan[op.tip].tree \in Trees /\ op.mode \in Mode \cup {Nobody} /\ op.tip \in Nat
      BY <1>0, Tips DEF IsPrepared, Commits, Operations
    <3> QED
      BY <1>0, <3>1 DEF CommitOf, Commits
  <2> HIDE DEF c
  <2>3. ASSUME NEW r \in Run, r = op.run, NEW p, p = op.tip
        PROVE  /\ PreparedSound' /\ FinalsSound' /\ IntegratedOnce'
               /\ CompletionRecordsFinal' /\ base' \in Seq(Commits) /\ base' # <<>>
               /\ Longer(base, base') /\ BaseTip' = BaseTip + 1 /\ IsFinal(BaseTip, r)'
    <3>1. /\ IsPrepared(p, r) /\ \A n \in Finals : base[n].tip # p
          /\ c.run = r /\ c.tip = p /\ c.tree = plan[p].tree
      BY <1>0, <2>1, <2>2, <2>3
    <3> QED
      BY <2>1, <2>2, <3>1, FinalKeeps
  <2>4. Longer(plan, plan')
    BY <2>1, SameLonger
  <2>5. SessionSound' /\ OpSound' /\ session' \in Sessions /\ op' \in Operations
    <3>1. BaseTip + 1 \in Nat
      BY Tips
    <3>2. ASSUME NEW f \in Nat, f = BaseTip + 1, NEW r \in Run, r = op.run
          PROVE  IsFinal(f, r)'
      BY <2>3, <3>2 DEF IsFinal
    <3>3. ASSUME NEW f \in Nat, f = BaseTip + 1, NEW r \in Run, r = op.run
          PROVE  SessionSound' /\ OpSound' /\ session' \in Sessions /\ op' \in Operations
      BY <1>1, <2>1, <2>3, <3>2, <3>3
    <3> QED
      BY <1>0, <3>1, <3>3
  <2>6. TypeOK'
    BY <1>0, <2>1, <2>3, <2>5 DEF TypeOK, Sessions, Operations
  <2>7. ReceiptsHold'
    BY <1>0, <2>1, <2>3, <2>4, RestLasts
  <2> QED
    BY <1>0, <2>3, <2>5, <2>6, <2>7 DEF IInv, Lineages
<1> QED
  BY <1>3, <1>4, <1>5, <1>6

\* A transaction that ends a finalization.
LEMMA CompletionStep ==
  ASSUME IInv, ReuseCompletion \/ CheckCompletion \/ PublishCompletion
  PROVE  IInv'
<1> USE IInvParts
<1>0. /\ op \in Operations /\ session \in Sessions /\ Idle \in Operations
      /\ Idle.step = "none" /\ op.step \in {"complete", "publishC"}
      /\ op.run \in Run /\ IsPrepared(op.tip, op.run) /\ IsFinal(op.final, op.run)
      /\ op.by = "session" => session # NoSession /\ op.run = session.run
      /\ op.by = "finalize" => op.onto = plan[op.tip].onto
  BY DEF ReuseCompletion, CheckCompletion, PublishCompletion, TypeOK, Operations, Sessions,
         OpSound, Late, Idle, Fronts, Steps
<1>1. plan[base[op.final].tip].run = op.run /\ op.final \in Nat
  BY <1>0 DEF FinalsSound, IsFinal, IsPrepared, Operations
<1>2. CASE ReuseCompletion
  <2>1. /\ op' = Idle /\ UNCHANGED <<plan, base, checkedOut, setting, session>>
        /\ receipts' = receipts \cup {Receipt(BaseTip)} /\ IsCompletion(BaseTip, op.run, op.final)
    BY <1>2 DEF ReuseCompletion
  <2>2. TypeOK'
    BY <1>0, <1>1, <2>1, Tips DEF TypeOK, Sessions, Operations, Receipt
  <2>3. SessionSound' /\ OpSound'
    BY <1>0, <2>1, RestLasts, SameLonger
  <2>4. ReceiptsHold'
    <3>1. /\ BaseTip' = BaseTip /\ Finals' = Finals
          /\ \A n, r, g : IsCompletion(n, r, g) <=> IsCompletion(n, r, g)'
      BY <2>1 DEF BaseTip, Finals, IsCompletion
    <3> QED
      BY <1>0, <1>1, <2>1, <3>1, Tips DEF ReceiptsHold, Receipt, IsFinal
  <2> QED
    BY <2>1, <2>2, <2>3, <2>4, NothingCommitted DEF IInv
<1>3. CASE CheckCompletion
  <2>1. /\ op' = [op EXCEPT !.step = "publishC"]
        /\ UNCHANGED <<plan, base, checkedOut, setting, session, receipts>>
    BY <1>3 DEF CheckCompletion
  <2>2. /\ op' \in Operations /\ op'.step = "publishC" /\ op'.run = op.run /\ op'.tip = op.tip
        /\ op'.by = op.by /\ op'.onto = op.onto /\ op'.final = op.final
    BY <1>0, <2>1 DEF Operations, Steps
  <2>3. /\ IsPrepared(op.tip, op.run)' /\ IsFinal(op.final, op.run)'
        /\ plan'[op'.tip].onto = plan[op.tip].onto
    BY <1>0, <2>1, <2>2 DEF IsPrepared, PlanTip, IsFinal, Finals, BaseTip
  <2>4. OpSound'
    BY <1>0, <2>1, <2>2, <2>3 DEF OpSound, Late
  <2>5. SessionSound'
    BY <2>1, RestLasts, SameLonger
  <2> QED
    BY <1>0, <2>1, <2>2, <2>4, <2>5, QuietStep DEF TypeOK
<1>4. CASE PublishCompletion
  <2> DEFINE c == CommitOf("completion", op.run, Nobody, 0, 0, op.final, CompletedTree(op))
  <2>1. /\ UNCHANGED <<plan, checkedOut, setting, session>> /\ op' = Idle
        /\ Extends(base, base', c) /\ op.final = BaseTip
        /\ receipts' \in {receipts, receipts \cup {Receipt(BaseTip + 1)}}
    BY <1>4 DEF PublishCompletion, Extends
  <2>2. /\ c \in Commits /\ c.phase = "completion" /\ c.run = op.run /\ c.final = BaseTip
        /\ c.tree.status.final = BaseTip /\ c.tree.work = base[BaseTip].tree.work
    <3>1. /\ plan[op.tip].tree \in Trees /\ base[op.final].tree \in Trees
          /\ op.mode \in Mode \cup {Nobody}
      BY <1>0, Tips DEF IsPrepared, IsFinal, Finals, Commits, Operations
    <3>2. Complete(op.run, op.mode, op.final) \in Statuses
      BY <1>0, <1>1, <3>1 DEF Complete, Statuses
    <3>3. /\ CompletedTree(op) \in Trees /\ CompletedTree(op).status.final = op.final
          /\ CompletedTree(op).work = base[op.final].tree.work
      BY <3>1, <3>2 DEF CompletedTree, Trees, Complete
    <3> QED
      BY <1>0, <1>1, <2>1, <3>3 DEF CommitOf, Commits
  <2> HIDE DEF c
  <2>3. ASSUME NEW r \in Run, r = op.run
        PROVE  /\ PreparedSound' /\ FinalsSound' /\ IntegratedOnce'
               /\ CompletionRecordsFinal' /\ base' \in Seq(Commits) /\ base' # <<>>
               /\ Longer(base, base') /\ BaseTip' = BaseTip + 1
               /\ IsCompletion(BaseTip, r, BaseTip - 1)'
    BY <1>0, <2>1, <2>2, <2>3, CompletionKeeps
  <2>4. Longer(plan, plan')
    BY <2>1, SameLonger
  <2>5. SessionSound' /\ OpSound'
    BY <1>0, <2>1, <2>3, <2>4, RestLasts
  <2>6. TypeOK'
    <3>1. Receipt(BaseTip + 1) \in [run : Run, final : Nat, completion : Nat]
      BY <1>0, <1>1, Tips DEF Receipt
    <3>2. receipts' \subseteq [run : Run, final : Nat, completion : Nat]
      BY <2>1, <3>1 DEF TypeOK
    <3> QED
      BY <1>0, <2>1, <2>3, <3>2 DEF TypeOK, Sessions, Operations
  <2>7. ASSUME NEW receipt \in receipts'
        PROVE  /\ receipt.completion \in 1..BaseTip'
               /\ IsCompletion(receipt.completion, receipt.run, receipt.final)'
               /\ receipt.final \in Finals'
               /\ plan'[base'[receipt.final].tip].run = receipt.run
    <3>1. CASE receipt \in receipts
      BY <1>0, <2>3, <2>4, <3>1, ReceiptsLast
    <3>2. CASE receipt = Receipt(BaseTip + 1)
      <4>1. /\ receipt.run = op.run /\ receipt.final = BaseTip /\ receipt.completion = BaseTip + 1
        BY <2>1, <3>2 DEF Receipt
      <4>2. BaseTip \in Finals' /\ base'[BaseTip] = base[BaseTip]
        BY <1>0, <2>1, <2>3, <2>4, EvidenceLasts DEF IsFinal
      <4>3. /\ base'[BaseTip + 1].phase = "completion" /\ base'[BaseTip + 1].run = op.run
            /\ base'[BaseTip + 1].final = BaseTip
        BY <1>0, <2>3, Tips DEF IsCompletion
      <4> QED
        BY <1>0, <1>1, <2>1, <2>3, <4>1, <4>2, <4>3, Tips DEF IsCompletion
    <3> QED
      BY <2>1, <3>1, <3>2
  <2>8. ReceiptsHold'
    BY <2>7 DEF ReceiptsHold
  <2> QED
    BY <1>0, <2>3, <2>5, <2>6, <2>8 DEF IInv, Lineages
<1> QED
  BY <1>2, <1>3, <1>4

LEMMA StepKeeps == IInv /\ [Next]_vars => IInv'
<1> SUFFICES ASSUME IInv, [Next]_vars
             PROVE  IInv'
  OBVIOUS
<1>1. CASE Refused
  <2>1. op' = Idle /\ UNCHANGED <<plan, base, checkedOut, setting, session, receipts>>
    BY <1>1 DEF Refused
  <2>2. Idle \in Operations /\ Idle.step = "none"
    BY DEF Idle, Operations, Fronts, Steps
  <2>3. SessionSound' /\ OpSound'
    BY <2>1, <2>2, IInvParts, RestLasts, SameLonger
  <2> QED
    BY <2>1, <2>2, <2>3, IInvParts, QuietStep DEF TypeOK, Sessions
<1>2. CASE UNCHANGED vars
  <2>1. UNCHANGED <<plan, base, checkedOut, setting, session, op, receipts>>
    BY <1>2 DEF vars
  <2>2. SessionSound' /\ OpSound'
    BY <2>1, IInvParts, RestLasts, SameLonger
  <2> QED
    BY <2>1, <2>2, IInvParts, QuietStep DEF TypeOK, Sessions, Operations
<1> QED
  BY <1>1, <1>2, OutsideStep, ContractStep, CoreStep, PreparedStep, FinalStep, CompletionStep
     DEF Next, Transaction

-----------------------------------------------------------------------------
(* The theorems.                                                           *)

\* Every reachable state has the invariant: a front never works on evidence that
\* is not on the two lineages.
THEOREM FinalizationInvariant == Spec => []IInv
BY FinalizationInit, StepKeeps, PTL DEF Spec

\* The variables keep their types.
THEOREM FinalizationTypeCorrect == Spec => []TypeOK
<1>1. IInv => TypeOK
  BY IInvParts
<1> QED
  BY <1>1, FinalizationInvariant, PTL

\* commit_final_integration and the manual recipe put no Phase P on the base
\* twice, although their lookup and their ref update are two steps.
THEOREM IntegratedOnceSafe == Spec => []IntegratedOnce
<1>1. IInv => IntegratedOnce
  BY IInvParts
<1> QED
  BY <1>1, FinalizationInvariant, PTL

\* A Phase F on the base its Phase P was prepared on keeps all of that base.
THEOREM PreparedKeepsBaseSafe == Spec => []PreparedKeepsBase
<1>1. IInv => PreparedKeepsBase
  <2> SUFFICES ASSUME IInv, NEW n \in Finals, plan[base[n].tip].onto = n - 1
               PROVE  base[n - 1].tree.work \subseteq base[n].tree.work
    BY DEF PreparedKeepsBase
  <2>1. IsPrepared(base[n].tip, base[n].run) /\ base[n].tree = plan[base[n].tip].tree
    BY IInvParts DEF FinalsSound
  <2> QED
    BY <2>1, IInvParts DEF PreparedSound, IsPrepared
<1> QED
  BY <1>1, FinalizationInvariant, PTL

\* A recorded or acknowledged completion stands for a Phase F that integrates a
\* Phase P of its run.
THEOREM CompletionsHoldSafe == Spec => []CompletionsHold
<1>1. IInv => CompletionsHold
  BY IInvParts DEF CompletionsHold
<1> QED
  BY <1>1, FinalizationInvariant, PTL

\* The core's FinalizePlan takes nothing from the base, for the base it expects
\* is the one its Phase P names.
THEOREM DelayedKeepsBaseSafe == Spec => DelayedKeepsBase
<1> DEFINE Kept == base[BaseTip].tree.work \subseteq base'[BaseTip'].tree.work
<1>1. ASSUME IInv, Next, op.by = "finalize", base' # base
      PROVE  Kept
  <2> USE <1>1, IInvParts
  <2>0. base \in Seq(Commits) /\ BaseTip \in Nat /\ BaseTip \in 1..BaseTip
    BY Tips DEF TypeOK
  <2>1. ASSUME NEW c, Extends(base, base', c), base[BaseTip].tree.work \subseteq c.tree.work
        PROVE  Kept
    <3>1. Len(base') = Len(base) + 1 /\ base'[Len(base) + 1] = c
      BY <2>0, <2>1 DEF Extends
    <3> QED
      BY <2>1, <3>1 DEF BaseTip
  <2>2. CASE Outside
    <3>1. ASSUME NEW tree, Pushed(tree), base[BaseTip].tree.work \subseteq tree.work
          PROVE  Kept
      <4>1. Extends(base, base', Ordinary(tree)) /\ Ordinary(tree).tree = tree
        BY <3>1 DEF Pushed, Extends, Ordinary, CommitOf
      <4> QED
        BY <2>1, <3>1, <4>1
    <3>2. base[BaseTip].tree \in Trees
      BY Tips DEF Commits
    <3>3. ASSUME NEW w \in Work, OutsideWork(w)
          PROVE  Kept
      <4>1. base[BaseTip].tree.work \subseteq [base[BaseTip].tree EXCEPT !.work = @ \cup {w}].work
        BY <3>2 DEF Trees
      <4> QED
        BY <3>1, <3>3, <4>1 DEF OutsideWork
    <3>4. ASSUME NEW o \in Row, OutsideRow(o)
          PROVE  Kept
      <4>1. base[BaseTip].tree.work \subseteq [base[BaseTip].tree EXCEPT !.rows = @ \cup {o}].work
        BY <3>2 DEF Trees
      <4> QED
        BY <3>1, <3>4, <4>1 DEF OutsideRow
    <3>5. ASSUME NEW p \in 1..PlanTip, ManualFinal(p)
          PROVE  Kept
      <4>1. base[BaseTip].tree.work \subseteq plan[p].tree.work
        BY <3>5 DEF ManualFinal, PreparedSound
      <4>2. Extends(base, base', CommitOf("final", plan[p].run, Manual, 0, p, 0, plan[p].tree))
        BY <3>5 DEF ManualFinal, Extends
      <4>3. CommitOf("final", plan[p].run, Manual, 0, p, 0, plan[p].tree).tree = plan[p].tree
        BY DEF CommitOf
      <4> QED
        BY <2>1, <4>1, <4>2, <4>3
    <3>6. ~SwitchCheckout /\ \A m \in Mode : ~ChangeSetting(m)
      BY DEF SwitchCheckout, ChangeSetting
    <3> QED
      BY <2>2, <3>3, <3>4, <3>5, <3>6 DEF Outside
  <2>3. CASE PublishFinal
    <3>1. /\ op.onto = BaseTip /\ IsPrepared(op.tip, op.run) /\ op.onto = plan[op.tip].onto
          /\ Extends(base, base', CommitOf("final", op.run, op.mode, 0, op.tip, 0,
                                           plan[op.tip].tree))
      BY <2>3 DEF PublishFinal, Extends, OpSound, Late
    <3>2. base[BaseTip].tree.work \subseteq plan[op.tip].tree.work
      BY <3>1 DEF PreparedSound, IsPrepared
    <3>3. CommitOf("final", op.run, op.mode, 0, op.tip, 0, plan[op.tip].tree).tree
            = plan[op.tip].tree
      BY DEF CommitOf
    <3> QED
      BY <2>1, <3>1, <3>2, <3>3
  <2>4. CASE PublishCompletion
    <3>1. /\ op.final = BaseTip
          /\ Extends(base, base', CommitOf("completion", op.run, Nobody, 0, 0, op.final,
                                           CompletedTree(op)))
      BY <2>4 DEF PublishCompletion, Extends
    <3>2. CommitOf("completion", op.run, Nobody, 0, 0, op.final, CompletedTree(op)).tree.work
            = base[BaseTip].tree.work
      BY <3>1 DEF CommitOf, CompletedTree
    <3> QED
      BY <2>1, <3>1, <3>2
  <2>5. ~Contract
    BY DEF Contract, StartSession, AskPrepare, AskIntegrate, AskComplete, Asked, CancelSession,
           CloseSession, ServerCrash
  <2>6. ~Core
    BY DEF Core, Reprepare, EndOfRun, Finalize, Started
  <2>7. ~ReusePrepared /\ ~PublishPrepared /\ ~ReuseFinal /\ ~CheckFinal /\ ~VerifyManual
        /\ ~ReuseCompletion /\ ~CheckCompletion /\ ~Refused
    BY DEF ReusePrepared, PublishPrepared, ReuseFinal, CheckFinal, VerifyManual,
           ReuseCompletion, CheckCompletion, Refused
  <2> QED
    BY <2>2, <2>3, <2>4, <2>5, <2>6, <2>7 DEF Next, Transaction
<1>2. IInv /\ [Next]_vars => [op.by = "finalize" /\ base' # base => Kept]_vars
  BY <1>1
<1> QED
  BY <1>2, FinalizationInvariant, PTL DEF Spec, DelayedKeepsBase
=============================================================================
