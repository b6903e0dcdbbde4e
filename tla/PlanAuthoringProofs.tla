------------------------- MODULE PlanAuthoringProofs -------------------------
(* Theorems about PlanAuthoring, for every set of projects and every number *)
(* of conversations, planner sessions, messages and attempts.               *)
EXTENDS PlanAuthoring, SequenceTheorems, TLAPS

-----------------------------------------------------------------------------
(* Types.                                                                   *)

Mail == [kind : Kinds, session : Session]
Plan == [conversation : Conversation, project : Project]

\* Whoever has spoken for a session was spawned for a conversation.
Spawned(s) == phase[s] # "none" /\ about[s] \in Plan

SpawnedOnly ==
  /\ \A s \in Session : phase[s] # "none" \/ generations[s] > 0 => Spawned(s)
  /\ \A i \in 1..Len(inbox) : Spawned(inbox[i].session)

Typed == TypeOK /\ SpawnedOnly

LEMMA Constants ==
  /\ MaxConversations \in Nat /\ MaxSessions \in Nat /\ MaxSubmits \in Nat
  /\ MaxRepairs \in Nat /\ MaxRejections \in Nat /\ Nothing \notin Tab \cup Record
  /\ Conversation \subseteq Nat /\ 0 \notin Conversation
  /\ Session \subseteq Nat /\ 0 \notin Session
BY AuthoringAssumption DEF Conversation, Session

LEMMA TailFacts ==
  ASSUME NEW S, NEW s \in Seq(S), s # <<>>
  PROVE  /\ Len(s) \in Nat /\ Len(s) >= 1 /\ 1 \in 1..Len(s)
         /\ Head(s) = s[1] /\ Head(s) \in S
         /\ Tail(s) \in Seq(S) /\ Len(Tail(s)) = Len(s) - 1
         /\ \A i \in 1..Len(s) - 1 : i + 1 \in 1..Len(s) /\ Tail(s)[i] = s[i + 1]
<1>1. Len(s) \in Nat /\ Len(s) >= 1
  BY EmptySeq
<1>2. Head(s) = s[1] /\ Head(s) \in S /\ Tail(s) \in Seq(S) /\ Len(Tail(s)) = Len(s) - 1
  BY HeadTailProperties, ElementOfSeq, <1>1
<1>3. \A i \in 1..Len(s) - 1 : Tail(s)[i] = s[i + 1]
  BY HeadTailProperties
<1> QED
  BY <1>1, <1>2, <1>3

LEMMA AppendFacts ==
  ASSUME NEW S, NEW s \in Seq(S), NEW e \in S
  PROVE  /\ Len(s) \in Nat
         /\ Append(s, e) \in Seq(S) /\ Len(Append(s, e)) = Len(s) + 1
         /\ Append(s, e)[Len(s) + 1] = e
         /\ \A i \in 1..Len(s) : Append(s, e)[i] = s[i]
BY AppendProperties

\* The order of the records on disk stays one of conversations.
LEMMA WithoutTyped ==
  ASSUME NEW order \in Seq(Conversation), NEW c
  PROVE  Without(order, c) \in Seq(Conversation)
<1>1. CASE \E i \in 1..Len(order) : order[i] = c
  <2> DEFINE i == CHOOSE i \in 1..Len(order) : order[i] = c
  <2>1. i \in 1..Len(order)
    BY <1>1
  <2>2. Without(order, c) = SubSeq(order, 1, i - 1) \o SubSeq(order, i + 1, Len(order))
    BY <1>1 DEF Without, RemoveAt
  <2>3. Len(order) \in Nat
    BY LenProperties
  <2> HIDE DEF i
  <2>4. /\ SubSeq(order, 1, i - 1) \in Seq(Conversation)
        /\ SubSeq(order, i + 1, Len(order)) \in Seq(Conversation)
    BY <2>1, <2>3, SubSeqProperties
  <2> QED
    BY <2>2, <2>4, ConcatProperties
<1>2. CASE ~\E i \in 1..Len(order) : order[i] = c
  BY <1>2 DEF Without
<1> QED
  BY <1>1, <1>2

LEMMA SaveTyped ==
  ASSUME TypeOK
  PROVE  /\ Saved \in [Conversation -> {Nothing} \cup Record]
         /\ SavedOrder \in Seq(Conversation)
<1>1. CASE live # Nothing /\ live.dirty
  <2>1. live \in Tab
    BY <1>1 DEF TypeOK
  <2>2. [project |-> live.project, plans |-> live.plans, log |-> live.log] \in Record
    BY <2>1 DEF Tab, Record
  <2>3. Saved \in [Conversation -> {Nothing} \cup Record]
    BY <1>1, <2>1, <2>2 DEF TypeOK, Saved, Tab
  <2>4. live.conversation \in Conversation /\ written \in Seq(Conversation)
    BY <2>1 DEF TypeOK, Tab
  <2>5. Without(written, live.conversation) \in Seq(Conversation)
    BY <2>4, WithoutTyped
  <2>6. SavedOrder \in Seq(Conversation)
    BY <1>1, <2>4, <2>5, AppendFacts DEF SavedOrder
  <2> QED
    BY <2>3, <2>6
<1>2. CASE ~(live # Nothing /\ live.dirty)
  BY <1>2 DEF TypeOK, Saved, SavedOrder
<1> QED
  BY <1>1, <1>2

LEMMA WriteTyped ==
  ASSUME TypeOK, NEW ok \in BOOLEAN
  PROVE  /\ Save(ok) => /\ disk' \in [Conversation -> {Nothing} \cup Record]
                        /\ written' \in Seq(Conversation)
         /\ Leave(ok) => /\ Save(ok) /\ failed' = FALSE /\ crossed' = FALSE
                         /\ lost' \subseteq Conversation
<1>1. Save(ok) => /\ disk' \in [Conversation -> {Nothing} \cup Record]
                  /\ written' \in Seq(Conversation)
  BY SaveTyped DEF Save, TypeOK
<1>2. live # Nothing => live.conversation \in Conversation
  BY DEF TypeOK, Tab
<1>3. lost \subseteq Conversation
  BY DEF TypeOK
<1> QED
  BY <1>1, <1>2, <1>3 DEF Leave, Unwritten

\* The newest record wanted is wanted.
LEMMA NewestWanted ==
  ASSUME NEW order, NEW wanted
  PROVE  Newest(order, wanted) = 0 \/ Newest(order, wanted) \in wanted
BY DEF Newest

LEMMA FreshTyped ==
  ASSUME NEW c \in Conversation, NEW project \in Project
  PROVE  Fresh(c, project) \in Tab
BY Constants DEF Fresh, Tab

LEMMA ResumedTyped ==
  ASSUME NEW c \in Conversation, NEW record \in Record
  PROVE  Resumed(c, record) \in Tab
<1>1. record.project \in Project /\ record.plans \subseteq Conversation
      /\ record.log \subseteq Message
  BY DEF Record
<1>2. Fresh(c, record.project) \in Tab
  BY <1>1, FreshTyped
<1> QED
  BY <1>1, <1>2 DEF Resumed, Tab

\* Where the planner's side is left alone, the operator's steps keep its types.
OperatorTyped ==
  /\ live \in {Nothing} \cup Tab
  /\ disk \in [Conversation -> {Nothing} \cup Record] /\ written \in Seq(Conversation)
  /\ begun \in 0..MaxConversations /\ submits \in 0..MaxSubmits
  /\ said \in [Conversation -> SUBSET Message]
  /\ crossed \in BOOLEAN /\ overwritten \subseteq Conversation
  /\ failed \in BOOLEAN /\ lost \subseteq Conversation

PlannerTyped ==
  /\ phase \in [Session -> Phases] /\ about \in [Session -> {Nothing} \cup Plan]
  /\ repairs \in [Session -> 0..MaxRepairs] /\ rejections \in [Session -> 0..MaxRejections]
  /\ answers \in [Session -> Nat] /\ verdicts \in [Session -> Nat]
  /\ generations \in [Session -> Nat]
  /\ inbox \in Seq(Mail) /\ published \subseteq Plan

LEMMA TypeGroups == TypeOK <=> OperatorTyped /\ PlannerTyped
BY DEF TypeOK, OperatorTyped, PlannerTyped, Mail, Plan

LEMMA TypeGroupsNext == OperatorTyped' /\ PlannerTyped' => TypeOK'
BY DEF TypeOK, OperatorTyped, PlannerTyped, Mail, Plan

LEMMA TypedInit == Init => Typed
<1> SUFFICES ASSUME Init PROVE Typed
  OBVIOUS
<1>1. TypeOK
  <2>1. <<>> \in Seq(Conversation) /\ <<>> \in Seq([kind : Kinds, session : Session])
    BY EmptySeq
  <2>2. OperatorTyped
    <3>1. 0 \in 0..MaxConversations /\ 0 \in 0..MaxSubmits
      BY Constants
    <3>2. /\ disk \in [Conversation -> {Nothing} \cup Record]
          /\ said \in [Conversation -> SUBSET Message]
      BY DEF Init
    <3> QED
      BY <2>1, <3>1, <3>2, Zenon DEF Init, OperatorTyped
  <2>3. PlannerTyped
    BY <2>1, Constants DEF Init, PlannerTyped, Phases, Mail
  <2> QED
    BY <2>2, <2>3, TypeGroups
<1>2. SpawnedOnly
  BY DEF Init, SpawnedOnly
<1> QED
  BY <1>1, <1>2 DEF Typed

LEMMA SameSpawned ==
  ASSUME SpawnedOnly, UNCHANGED <<phase, about, generations, inbox>>
  PROVE  SpawnedOnly'
BY DEF SpawnedOnly, Spawned

LEMMA BeginTyped ==
  ASSUME TypeOK, NEW project \in Project, Begin(project)
  PROVE  live' \in {Nothing} \cup Tab /\ begun' \in 0..MaxConversations
<1>1. begun + 1 \in Conversation /\ begun' = begun + 1 /\ begun + 1 \in 0..MaxConversations
  BY Constants DEF TypeOK, Begin, Conversation
<1> QED
  BY <1>1, FreshTyped DEF Begin

\* Opening, resuming, closing and writing a conversation.
LEMMA TabTypedStep ==
  ASSUME Typed, \/ \E p \in Project : Open(p) \/ New(p)
                \/ \E plan \in published : Reopen(plan)
                \/ Close \/ Tick
  PROVE  Typed'
<1> USE DEF Typed
<1>1. OperatorTyped /\ PlannerTyped
  BY TypeGroups
<1>2. ASSUME UNCHANGED <<submits, planner, channels, generations, inbox, published, said>>,
             NEW ok \in BOOLEAN, Save(ok), failed' \in BOOLEAN, lost' \subseteq Conversation,
             crossed' \in BOOLEAN,
             live' \in {Nothing} \cup Tab, begun' \in 0..MaxConversations,
             overwritten' \subseteq Conversation
      PROVE  Typed'
  <2>1. OperatorTyped'
    BY <1>1, <1>2, WriteTyped DEF OperatorTyped
  <2>2. PlannerTyped' /\ SpawnedOnly'
    BY <1>1, <1>2, SameSpawned DEF PlannerTyped, planner, channels
  <2> QED
    BY <2>1, <2>2, TypeGroupsNext
<1>3. begun \in 0..MaxConversations /\ overwritten \subseteq Conversation
  BY <1>1 DEF OperatorTyped
<1>4. ASSUME NEW p \in Project, Open(p) PROVE Typed'
  <2>0. PICK ok \in BOOLEAN : Leave(ok)
    BY <1>4 DEF Open
  <2>1. /\ disk' \in [Conversation -> {Nothing} \cup Record]
        /\ Save(ok) /\ failed' \in BOOLEAN /\ lost' \subseteq Conversation
        /\ crossed' \in BOOLEAN
    BY <2>0, WriteTyped
  <2>2. UNCHANGED <<submits, planner, channels, generations, inbox, published, said,
                    overwritten>>
    BY <1>4 DEF Open
  <2> DEFINE c == LatestUnfinished(disk', written', p)
  <2>3. c = 0 \/ (c \in Conversation /\ disk'[c] # Nothing)
    BY NewestWanted DEF LatestUnfinished
  <2>4. CASE c = 0
    <3>1. Begin(p)
      BY <1>4, <2>4 DEF Open
    <3> QED
      BY <1>2, <1>3, <2>1, <2>2, <3>1, BeginTyped
  <2>5. CASE c # 0
    <3>1. live' = Resumed(c, disk'[c]) /\ begun' = begun
      BY <1>4, <2>5 DEF Open
    <3>2. live' \in Tab
      <4>1. c \in Conversation /\ disk'[c] \in Record
        BY <2>1, <2>3, <2>5
      <4> HIDE DEF c
      <4> QED
        BY <3>1, <4>1, ResumedTyped
    <3> QED
      BY <1>2, <1>3, <2>1, <2>2, <3>1, <3>2
  <2> QED
    BY <2>4, <2>5
<1>5. ASSUME NEW p \in Project, New(p) PROVE Typed'
  <2>1. /\ Begin(p)
        /\ UNCHANGED <<submits, planner, channels, generations, inbox, published, said,
                       overwritten>>
    BY <1>5 DEF New
  <2>2. PICK ok \in BOOLEAN : Leave(ok)
    BY <1>5 DEF New
  <2> QED
    BY <1>2, <1>3, <2>1, <2>2, BeginTyped, WriteTyped
<1>6. ASSUME NEW plan \in published, Reopen(plan) PROVE Typed'
  <2> DEFINE c == ForPlan(disk, written, plan.project, plan.conversation)
  <2>1. c # 0 /\ live' = Resumed(c, disk[c]) /\ overwritten' \subseteq overwritten \cup {c}
        /\ UNCHANGED <<begun, submits, planner, channels, generations, inbox, published,
                       said>>
    BY <1>6 DEF Reopen
  <2>0. PICK ok \in BOOLEAN : Leave(ok)
    BY <1>6 DEF Reopen
  <2>2. c \in Conversation /\ disk[c] # Nothing
    BY <2>1, NewestWanted DEF ForPlan
  <2>3. disk[c] \in Record
    BY <1>1, <2>2 DEF OperatorTyped
  <2> HIDE DEF c
  <2>4. live' \in Tab
    BY <2>1, <2>2, <2>3, ResumedTyped
  <2> QED
    BY <1>2, <1>3, <2>0, <2>1, <2>2, <2>4, WriteTyped
<1>7. CASE Close
  <2>1. PICK ok \in BOOLEAN : Leave(ok)
    BY <1>7 DEF Close
  <2> QED
    BY <1>2, <1>3, <1>7, <2>1, WriteTyped DEF Close
<1>8. CASE Tick
  <2>1. PICK ok \in BOOLEAN : Save(ok) /\ failed' = ~ok
    BY <1>8 DEF Tick
  <2>2. live' \in Tab
    BY <1>1, <1>8 DEF Tick, OperatorTyped, Tab
  <2>3. failed' \in BOOLEAN /\ lost' \subseteq Conversation /\ crossed' \in BOOLEAN
    BY <1>1, <1>8, <2>1 DEF Tick, OperatorTyped
  <2> QED
    BY <1>2, <1>3, <1>8, <2>1, <2>2, <2>3 DEF Tick
<1> QED
  BY <1>4, <1>5, <1>6, <1>7, <1>8

\* What the operator's messages have in common.
LEMMA SpokenTyped ==
  ASSUME TypeOK, Speaks
  PROVE  /\ live \in Tab /\ submits + 1 \in Message
         /\ Spoken \in Tab
         /\ said' \in [Conversation -> SUBSET Message]
         /\ submits' \in 0..MaxSubmits
<1>1. live \in Tab /\ live.conversation \in Conversation
  BY DEF TypeOK, Speaks, Tab
<1>2. submits + 1 \in Message /\ submits + 1 \in 0..MaxSubmits
  BY Constants DEF TypeOK, Speaks, Message
<1>3. Spoken \in Tab
  BY <1>1, <1>2 DEF Spoken, Tab
<1>4. said' \in [Conversation -> SUBSET Message]
  BY <1>1, <1>2 DEF TypeOK, Speaks
<1> QED
  BY <1>1, <1>2, <1>3, <1>4 DEF Speaks

LEMMA SubmitTypedStep ==
  ASSUME Typed, \/ SubmitAnswer \/ SubmitToEnded \/ SubmitUnconfigured
                \/ \E s \in Session : SubmitOpening(s)
  PROVE  Typed'
<1> USE DEF Typed
<1>1. OperatorTyped /\ PlannerTyped
  BY TypeGroups
<1>2. Speaks
  BY DEF SubmitAnswer, SubmitToEnded, SubmitUnconfigured, SubmitOpening
<1>3. /\ live \in Tab /\ Spoken \in Tab /\ live.session \in 0..MaxSessions
      /\ live.conversation \in Conversation /\ live.project \in Project
      /\ said' \in [Conversation -> SUBSET Message] /\ submits' \in 0..MaxSubmits
  BY <1>2, SpokenTyped DEF Tab
<1>4. ASSUME live' \in Tab PROVE OperatorTyped'
  <2>1. crossed' \in BOOLEAN
    BY <1>1 DEF SubmitAnswer, SubmitToEnded, SubmitUnconfigured, SubmitOpening, OperatorTyped
  <2> QED
    BY <1>1, <1>2, <1>3, <1>4, <2>1 DEF Speaks, store, unkept, OperatorTyped
<1>5. CASE SubmitAnswer
  <2>1. live' \in Tab
    BY <1>3, <1>5 DEF SubmitAnswer
  <2>2. PlannerTyped'
    <3>1. live.session \in Session
      BY <1>3, <1>5 DEF SubmitAnswer, Session
    <3>2. answers[live.session] + 1 \in Nat /\ answers \in [Session -> Nat]
      BY <1>1, <3>1 DEF PlannerTyped
    <3>3. answers' \in [Session -> Nat]
      BY <1>5, <3>2 DEF SubmitAnswer
    <3> QED
      BY <1>1, <1>2, <1>5, <3>3 DEF SubmitAnswer, Speaks, PlannerTyped
  <2>3. SpawnedOnly'
    BY <1>2, <1>5, SameSpawned DEF SubmitAnswer, Speaks
  <2> QED
    BY <1>4, <2>1, <2>2, <2>3, TypeGroupsNext
<1>6. CASE SubmitToEnded \/ SubmitUnconfigured
  <2>1. live' \in Tab
    <3>1. [Spoken EXCEPT !.waiting = FALSE] \in Tab
          /\ [Spoken EXCEPT !.waiting = FALSE, !.session = 0] \in Tab
      <4>1. 0 \in 0..MaxSessions
        BY Constants
      <4> HIDE DEF Spoken
      <4> QED
        BY <1>3, <4>1 DEF Tab
    <3> QED
      BY <1>6, <3>1 DEF SubmitToEnded, SubmitUnconfigured
  <2>2. PlannerTyped' /\ SpawnedOnly'
    BY <1>1, <1>2, <1>6, SameSpawned DEF SubmitToEnded, SubmitUnconfigured, Speaks, PlannerTyped
  <2> QED
    BY <1>4, <2>1, <2>2, TypeGroupsNext
<1>7. ASSUME NEW s \in Session, SubmitOpening(s) PROVE Typed'
  <2>1. live' \in Tab
    BY <1>3, <1>7 DEF SubmitOpening, Tab, Session
  <2>2. [conversation |-> live.conversation, project |-> live.project] \in Plan
    BY <1>3 DEF Plan
  <2>3. /\ phase' = [phase EXCEPT ![s] = "turn"]
        /\ about' = [about EXCEPT ![s] =
             [conversation |-> live.conversation, project |-> live.project]]
        /\ UNCHANGED <<repairs, rejections, answers, verdicts, generations, inbox, published>>
    BY <1>2, <1>7 DEF SubmitOpening, Speaks
  <2>4. PlannerTyped'
    BY <1>1, <2>2, <2>3 DEF PlannerTyped, Phases
  <2>5. SpawnedOnly'
    <3>1. \A r \in Session : Spawned(r) => Spawned(r)'
      BY <1>1, <2>2, <2>3 DEF Spawned, PlannerTyped
    <3>2. Spawned(s)'
      BY <1>1, <2>2, <2>3 DEF Spawned, PlannerTyped
    <3>3. \A r \in Session : phase'[r] # "none" \/ generations'[r] > 0 => Spawned(r)'
      BY <1>1, <2>3, <3>1, <3>2 DEF SpawnedOnly, PlannerTyped
    <3>4. \A i \in 1..Len(inbox') : Spawned(inbox[i].session)'
      <4> SUFFICES ASSUME NEW i \in 1..Len(inbox') PROVE Spawned(inbox[i].session)'
        OBVIOUS
      <4>1. inbox' = inbox /\ inbox[i] \in Mail /\ Spawned(inbox[i].session)
        BY <1>1, <2>3, ElementOfSeq DEF SpawnedOnly, PlannerTyped
      <4>2. inbox[i].session \in Session /\ inbox'[i].session = inbox[i].session
        BY <4>1 DEF Mail
      <4> QED
        BY <3>1, <4>1, <4>2 DEF Spawned
    <3> QED
      BY <3>3, <3>4 DEF SpawnedOnly
  <2> QED
    BY <1>4, <2>1, <2>4, <2>5, TypeGroupsNext
<1> QED
  BY <1>5, <1>6, <1>7

\* A message of a session that was spawned joins the channel.
LEMMA ReportTyped ==
  ASSUME NEW s \in Session, NEW kind \in Kinds, inbox \in Seq(Mail), Reports(s, kind)
  PROVE  /\ inbox' \in Seq(Mail) /\ Len(inbox) \in Nat /\ Len(inbox') = Len(inbox) + 1
         /\ inbox'[Len(inbox) + 1] = [kind |-> kind, session |-> s]
         /\ \A i \in 1..Len(inbox) : inbox'[i] = inbox[i]
<1>1. [kind |-> kind, session |-> s] \in Mail
  BY DEF Mail
<1> QED
  BY <1>1, AppendFacts DEF Reports

LEMMA SpawnedReport ==
  ASSUME NEW s \in Session, NEW kind \in Kinds, inbox \in Seq(Mail),
         Reports(s, kind) \/ UNCHANGED inbox, SpawnedOnly, Spawned(s),
         UNCHANGED about, phase' = [phase EXCEPT ![s] = phase'[s]], phase'[s] # "none",
         phase \in [Session -> Phases],
         \A r \in Session : generations'[r] > 0 => r = s \/ generations[r] > 0
  PROVE  SpawnedOnly'
<1>1. \A r \in Session : Spawned(r) => Spawned(r)'
  BY DEF Spawned
<1>2. \A r \in Session : phase'[r] # "none" \/ generations'[r] > 0 => Spawned(r)'
  BY <1>1 DEF SpawnedOnly, Spawned
<1>3. \A i \in 1..Len(inbox') : Spawned(inbox[i].session)'
  <2>1. CASE Reports(s, kind)
    <3>0. /\ Len(inbox) \in Nat /\ Len(inbox') = Len(inbox) + 1
          /\ inbox'[Len(inbox) + 1] = [kind |-> kind, session |-> s]
          /\ \A i \in 1..Len(inbox) : inbox'[i] = inbox[i]
      BY <2>1, ReportTyped
    <3> SUFFICES ASSUME NEW i \in 1..Len(inbox') PROVE Spawned(inbox[i].session)'
      OBVIOUS
    <3>1. i = Len(inbox) + 1 \/ i \in 1..Len(inbox)
      BY <3>0
    <3>2. CASE i = Len(inbox) + 1
      <4>1. inbox'[i].session = s
        BY <3>2, <3>0
      <4> QED
        BY <1>1, <4>1 DEF Spawned
    <3>3. CASE i \in 1..Len(inbox)
      <4>1. inbox'[i] = inbox[i] /\ Spawned(inbox[i].session) /\ inbox[i] \in Mail
        BY <3>0, <3>3, ElementOfSeq DEF SpawnedOnly
      <4>2. inbox'[i].session = inbox[i].session /\ inbox[i].session \in Session
        BY <4>1 DEF Mail
      <4> QED
        BY <1>1, <4>1, <4>2 DEF Spawned
    <3> QED
      BY <3>1, <3>2, <3>3
  <2>2. CASE UNCHANGED inbox
    <3> SUFFICES ASSUME NEW i \in 1..Len(inbox') PROVE Spawned(inbox[i].session)'
      OBVIOUS
    <3>1. inbox' = inbox /\ inbox[i] \in Mail /\ Spawned(inbox[i].session)
      BY <2>2, ElementOfSeq DEF SpawnedOnly
    <3>2. inbox'[i].session = inbox[i].session /\ inbox[i].session \in Session
      BY <3>1 DEF Mail
    <3> QED
      BY <3>1, <3>2 DEF Spawned
  <2> QED
    BY <2>1, <2>2
<1> QED
  BY <1>2, <1>3 DEF SpawnedOnly

\* What a planner session or a generation never touches.
LEMMA ElsewhereTyped ==
  ASSUME OperatorTyped, UNCHANGED <<live, store, begun, submits, crossed, history>>
  PROVE  OperatorTyped'
BY DEF OperatorTyped, store, history, unkept

LEMMA SessionTypedStep ==
  ASSUME Typed, NEW s \in Session, SessionStep(s)
  PROVE  Typed'
<1> USE DEF Typed
<1>1. OperatorTyped /\ PlannerTyped
  BY TypeGroups
<1>2. OperatorTyped'
  BY <1>1, ElsewhereTyped
  DEF SessionStep, Ask, Propose, TurnFails, Malformed, ReadAnswer, ReadVerdict, HungUp, Over,
      Elsewhere
<1>3. UNCHANGED <<about, generations, published>>
  BY DEF SessionStep, Ask, Propose, TurnFails, Malformed, ReadAnswer, ReadVerdict, HungUp,
         Over, Elsewhere
<1>4. phase[s] # "none"
  BY DEF SessionStep, Ask, Propose, TurnFails, Malformed, ReadAnswer, ReadVerdict, HungUp, Over
<1>5. PICK kind \in Kinds : Reports(s, kind) \/ UNCHANGED inbox
  BY DEF SessionStep, Ask, Propose, TurnFails, Malformed, ReadAnswer, ReadVerdict, HungUp,
         Over, Kinds
<1>6. inbox' \in Seq(Mail)
  BY <1>1, <1>5, ReportTyped DEF PlannerTyped
<1>7. phase' = [phase EXCEPT ![s] = phase'[s]] /\ phase'[s] \in Phases /\ phase'[s] # "none"
  <2>1. CASE UNCHANGED phase
    BY <1>1, <1>4, <2>1 DEF PlannerTyped
  <2>2. CASE \E p \in Phases \ {"none"} : phase' = [phase EXCEPT ![s] = p]
    BY <1>1, <2>2 DEF PlannerTyped
  <2>3. \/ UNCHANGED phase
        \/ \E p \in Phases \ {"none"} : phase' = [phase EXCEPT ![s] = p]
    <3>1. {"turn", "asked", "proposed", "over"} \subseteq Phases \ {"none"}
      BY DEF Phases
    <3> QED
      BY <3>1 DEF SessionStep, Ask, Propose, TurnFails, Malformed, ReadAnswer, ReadVerdict,
                  HungUp, Over
  <2> QED
    BY <2>1, <2>2, <2>3
<1>8. repairs' \in [Session -> 0..MaxRepairs] /\ rejections' \in [Session -> 0..MaxRejections]
  <2> USE <1>1 DEF PlannerTyped
  <2>0. 0 \in 0..MaxRepairs /\ 0 \in 0..MaxRejections
    BY Constants
  <2>1. CASE Ask(s) \/ Propose(s)
    BY <2>0, <2>1 DEF Ask, Propose
  <2>5. CASE Over(s)
    BY <2>0, <2>5 DEF Over
  <2>2. CASE Malformed(s)
    <3>1. repairs[s] < MaxRepairs => repairs[s] + 1 \in 0..MaxRepairs
      BY Constants
    <3> QED
      BY <2>2, <2>5, <3>1 DEF Malformed
  <2>3. CASE ReadVerdict(s)
    <3>1. rejections[s] < MaxRejections => rejections[s] + 1 \in 0..MaxRejections
      BY Constants
    <3> QED
      BY <2>3, <2>5, <3>1 DEF ReadVerdict
  <2>4. CASE TurnFails(s) \/ ReadAnswer(s) \/ HungUp(s)
    BY <2>4, <2>5 DEF TurnFails, ReadAnswer, HungUp
  <2> QED
    BY <2>1, <2>2, <2>3, <2>4 DEF SessionStep
<1>9. answers' \in [Session -> Nat] /\ verdicts' \in [Session -> Nat]
  <2> USE <1>1 DEF PlannerTyped
  <2>1. CASE ReadAnswer(s)
    <3>1. answers[s] - 1 \in Nat
      BY <2>1 DEF ReadAnswer
    <3> QED
      BY <2>1, <3>1 DEF ReadAnswer
  <2>2. CASE ReadVerdict(s)
    <3>1. verdicts[s] - 1 \in Nat
      BY <2>2 DEF ReadVerdict
    <3> QED
      BY <2>2, <3>1 DEF ReadVerdict
  <2>3. CASE UNCHANGED channels
    BY <2>3 DEF channels
  <2> QED
    BY <2>1, <2>2, <2>3 DEF SessionStep, Ask, Propose, TurnFails, Malformed, HungUp, Over
<1>10. PlannerTyped'
  <2>1. phase' \in [Session -> Phases]
    BY <1>1, <1>7 DEF PlannerTyped
  <2> QED
    BY <1>1, <1>3, <1>6, <1>8, <1>9, <2>1 DEF PlannerTyped
<1>11. SpawnedOnly'
  <2>1. Spawned(s)
    BY <1>4 DEF SpawnedOnly
  <2> QED
    BY <1>1, <1>3, <1>5, <1>7, <2>1, SpawnedReport DEF PlannerTyped
<1> QED
  BY <1>2, <1>10, <1>11, TypeGroupsNext

LEMMA GenerationTypedStep ==
  ASSUME Typed, NEW s \in Session, GenerationEnds(s)
  PROVE  Typed'
<1> USE DEF Typed
<1>1. OperatorTyped /\ PlannerTyped
  BY TypeGroups
<1>2. OperatorTyped'
  BY <1>1, ElsewhereTyped DEF GenerationEnds
<1>3. PICK kind \in Kinds : Reports(s, kind)
  BY DEF GenerationEnds, Kinds
<1>4. Spawned(s)
  BY DEF GenerationEnds, SpawnedOnly
<1>5. generations' \in [Session -> Nat]
  <2>1. generations[s] - 1 \in Nat
    BY <1>1 DEF GenerationEnds, PlannerTyped
  <2> QED
    BY <1>1, <2>1 DEF GenerationEnds, PlannerTyped
<1>6. published' \subseteq Plan
  BY <1>1, <1>4 DEF GenerationEnds, Spawned, PlannerTyped
<1>7. UNCHANGED <<phase, about, repairs, rejections, answers, verdicts>>
  BY DEF GenerationEnds, planner, channels
<1>8. PlannerTyped'
  BY <1>1, <1>3, <1>5, <1>6, <1>7, ReportTyped DEF PlannerTyped
<1>9. SpawnedOnly'
  <2>1. phase' = [phase EXCEPT ![s] = phase'[s]] /\ phase'[s] # "none"
    BY <1>1, <1>4, <1>7 DEF PlannerTyped, Spawned
  <2>2. \A r \in Session : generations'[r] > 0 => r = s \/ generations[r] > 0
    BY <1>1 DEF GenerationEnds, PlannerTyped
  <2> QED
    BY <1>1, <1>3, <1>4, <1>7, <2>1, <2>2, SpawnedReport DEF PlannerTyped
<1> QED
  BY <1>2, <1>8, <1>9, TypeGroupsNext

\* The message the loop takes was sent by a session that was spawned.
LEMMA TookTyped ==
  ASSUME Typed, NEW kind, Took(kind)
  PROVE  /\ inbox \in Seq(Mail) /\ inbox' \in Seq(Mail)
         /\ Len(inbox) \in Nat /\ Len(inbox) >= 1 /\ Len(inbox') = Len(inbox) - 1
         /\ Head(inbox) = inbox[1]
         /\ Head(inbox) \in Mail /\ Head(inbox).session \in Session
         /\ Spawned(Head(inbox).session)
         /\ \A i \in 1..Len(inbox') : i + 1 \in 1..Len(inbox) /\ inbox'[i] = inbox[i + 1]
<1>1. inbox \in Seq(Mail) /\ inbox # <<>> /\ inbox' = Tail(inbox)
  BY DEF Typed, TypeOK, Mail, Took
<1>2. /\ Len(inbox) \in Nat /\ Len(inbox) >= 1 /\ 1 \in 1..Len(inbox)
      /\ Head(inbox) = inbox[1] /\ Head(inbox) \in Mail
      /\ Tail(inbox) \in Seq(Mail) /\ Len(Tail(inbox)) = Len(inbox) - 1
      /\ \A i \in 1..Len(inbox) - 1 : i + 1 \in 1..Len(inbox) /\ Tail(inbox)[i] = inbox[i + 1]
  BY <1>1, TailFacts
<1>3. Spawned(Head(inbox).session) /\ Head(inbox).session \in Session
  BY <1>2 DEF Typed, SpawnedOnly, Mail
<1> QED
  BY <1>1, <1>2, <1>3

\* What is told to a live conversation leaves it one.
LEMMA HandedOverTyped ==
  ASSUME live \in Tab
  PROVE  /\ HandedOver(live) \in Tab
         /\ HandedOver(live).log = live.log
         /\ HandedOver(live).conversation = live.conversation
         /\ HandedOver(live).session = 0 /\ HandedOver(live).dirty
<1>1. 0 \in 0..MaxSessions
  BY Constants
<1> QED
  BY <1>1 DEF HandedOver, Tab

LEMMA TakeTypedStep ==
  ASSUME Typed, Take
  PROVE  Typed'
<1>1. OperatorTyped /\ PlannerTyped
  BY TypeGroups DEF Typed
<1>2. PICK kind \in Kinds : Took(kind)
  BY DEF Take, TakeQuestion, TakeFailure, TakeBlueprint, TakePlan, TakeRejection, TakeBlocked,
         Kinds
<1> DEFINE s == Head(inbox).session
<1>3. s \in Session /\ Spawned(s) /\ inbox' \in Seq(Mail)
  BY <1>2, TookTyped
<1>4. live' \in {Nothing} \cup Tab
  <2>1. CASE live = Nothing
    BY <2>1 DEF Take, TakeQuestion, TakeFailure, TakeBlueprint, TakePlan, TakeRejection,
                TakeBlocked, Told
  <2>2. CASE live # Nothing
    <3>1. live \in Tab
      BY <1>1, <2>2 DEF OperatorTyped
    <3>2. CASE TakeQuestion
      BY <2>2, <3>1, <3>2 DEF TakeQuestion, Told, Tab
    <3>3. CASE TakeFailure \/ TakeBlocked
      BY <2>2, <3>1, <3>3, HandedOverTyped DEF TakeFailure, TakeBlocked, Told
    <3>4. CASE TakeBlueprint
      BY <2>2, <3>1, <3>4 DEF TakeBlueprint, Told, Tab
    <3>5. CASE TakePlan
      <4> DEFINE left == HandedOver(live)
      <4>1. live' = [left EXCEPT !.plans = @ \cup {about[s].conversation}]
        BY <2>2, <3>5 DEF TakePlan, Told
      <4>2. about[s].conversation \in Conversation
        BY <1>3 DEF Spawned, Plan
      <4>3. left \in Tab
        BY <3>1, HandedOverTyped
      <4> HIDE DEF left, s
      <4> QED
        BY <4>1, <4>2, <4>3 DEF Tab
    <3>6. CASE TakeRejection
      <4>1. [live EXCEPT !.generating = FALSE, !.waiting = TRUE, !.dirty = TRUE] \in Tab
        BY <3>1 DEF Tab
      <4> QED
        BY <2>2, <3>1, <3>6, <4>1, HandedOverTyped DEF TakeRejection, Told
    <3> QED
      BY <3>2, <3>3, <3>4, <3>5, <3>6 DEF Take
  <2> QED
    BY <2>1, <2>2
<1>5. crossed' \in BOOLEAN
  BY <1>1, <1>2 DEF Took, OperatorTyped, Tab
<1>6. OperatorTyped'
  BY <1>1, <1>2, <1>4, <1>5 DEF Took, store, unkept, OperatorTyped
<1>7. verdicts' \in [Session -> Nat]
  <2>1. CASE UNCHANGED verdicts
    BY <1>1, <2>1 DEF PlannerTyped
  <2>2. CASE live # Nothing /\ verdicts' = [verdicts EXCEPT ![live.session] = @ + 1]
             /\ live.session # 0
    <3>1. live.session \in Session
      BY <1>1, <2>2 DEF OperatorTyped, Tab, Session
    <3>2. verdicts[live.session] + 1 \in Nat
      BY <1>1, <3>1 DEF PlannerTyped
    <3> QED
      BY <1>1, <2>2, <3>2 DEF PlannerTyped
  <2> QED
    BY <2>1, <2>2
    DEF Take, TakeQuestion, TakeFailure, TakeBlueprint, TakePlan, TakeRejection, TakeBlocked
<1>8. generations' \in [Session -> Nat]
      /\ \A r \in Session : generations'[r] > 0 => r = s \/ generations[r] > 0
  <2>1. CASE UNCHANGED generations
    BY <1>1, <2>1 DEF PlannerTyped
  <2>2. CASE generations' = [generations EXCEPT ![s] = @ + 1]
    <3>1. generations[s] + 1 \in Nat
      BY <1>1, <1>3 DEF PlannerTyped
    <3> HIDE DEF s
    <3> QED
      BY <1>1, <2>2, <3>1 DEF PlannerTyped
  <2> QED
    BY <2>1, <2>2
    DEF Take, TakeQuestion, TakeFailure, TakeBlueprint, TakePlan, TakeRejection, TakeBlocked
<1>9. UNCHANGED <<phase, about, repairs, rejections, answers, published>>
  BY <1>2 DEF Took, planner
<1>10. PlannerTyped'
  BY <1>1, <1>3, <1>7, <1>8, <1>9 DEF PlannerTyped
<1>11. SpawnedOnly'
  <2>1. \A r : Spawned(r) => Spawned(r)'
    BY <1>9 DEF Spawned
  <2>2. \A r \in Session : phase'[r] # "none" \/ generations'[r] > 0 => Spawned(r)'
    BY <1>3, <1>8, <1>9, <2>1 DEF Typed, SpawnedOnly
  <2>3. \A i \in 1..Len(inbox') : Spawned(inbox[i].session)'
    <3> SUFFICES ASSUME NEW i \in 1..Len(inbox') PROVE Spawned(inbox[i].session)'
      OBVIOUS
    <3>1. i + 1 \in 1..Len(inbox) /\ inbox'[i] = inbox[i + 1]
      BY <1>2, TookTyped
    <3>2. Spawned(inbox[i + 1].session)
      BY <3>1 DEF Typed, SpawnedOnly
    <3> QED
      BY <1>9, <3>1, <3>2 DEF Spawned
  <2> QED
    BY <2>2, <2>3 DEF SpawnedOnly
<1> QED
  BY <1>6, <1>10, <1>11, TypeGroupsNext DEF Typed

LEMMA TypedStep == Typed /\ [Next]_vars => Typed'
<1> SUFFICES ASSUME Typed, [Next]_vars PROVE Typed'
  OBVIOUS
<1>1. CASE Operator
  BY <1>1, TabTypedStep, SubmitTypedStep DEF Operator
<1>2. CASE Tick \/ Take
  BY <1>2, TabTypedStep, TakeTypedStep
<1>3. CASE \E s \in Session : SessionStep(s) \/ GenerationEnds(s)
  BY <1>3, SessionTypedStep, GenerationTypedStep
<1>4. CASE UNCHANGED vars
  <2>1. TypeOK'
    BY <1>4 DEF Typed, TypeOK, vars
  <2>2. SpawnedOnly'
    BY <1>4, SameSpawned DEF Typed, vars
  <2> QED
    BY <2>1, <2>2 DEF Typed
<1> QED
  BY <1>1, <1>2, <1>3, <1>4 DEF Next

LEMMA AlwaysTyped == Spec => []Typed
<1> QED
  BY TypedInit, TypedStep, PTL DEF Spec

\* Every conversation, record, session and message has its type in every
\* state the terminal can reach, however the planners' reports interleave with
\* the operator's steps.
THEOREM AuthoringTypeCorrect == Spec => []TypeOK
<1>1. Typed => TypeOK
  BY DEF Typed
<1> QED
  BY <1>1, AlwaysTyped, PTL

-----------------------------------------------------------------------------
(* The operator's words.  The tab holds everything said in its conversation, *)
(* and the disk everything said in the others and in a tab that was written  *)
(* since it changed.                                                         *)

DiskLog(record) == IF record = Nothing THEN {} ELSE record.log

\* Conversations are numbered as they begin: a later one has said nothing.
Numbered ==
  /\ live # Nothing => live.conversation <= begun
  /\ \A c \in Conversation : disk[c] # Nothing => c <= begun
  /\ \A c \in Conversation : c > begun => said[c] = {}

InTab ==
  live # Nothing /\ live.conversation \notin overwritten \cup lost =>
    said[live.conversation] \subseteq live.log

OnDisk ==
  \A c \in Conversation \ (overwritten \cup lost) :
    ~(live # Nothing /\ live.conversation = c /\ (live.dirty \/ failed)) =>
      said[c] \subseteq DiskLog(disk[c])

Words == Typed /\ Numbered /\ InTab /\ OnDisk

LEMMA WordsKept == Words => TranscriptKept
<1> SUFFICES ASSUME Words, NEW c \in Conversation \ (overwritten \cup lost)
             PROVE  said[c] \subseteq Kept(c)
  BY DEF TranscriptKept
<1>1. CASE live # Nothing /\ live.conversation = c
  BY <1>1 DEF Words, InTab, Kept
<1>2. CASE ~(live # Nothing /\ live.conversation = c)
  BY <1>2 DEF Words, OnDisk, Kept, DiskLog
<1> QED
  BY <1>1, <1>2

LEMMA WordsInit == Init => Words
<1> SUFFICES ASSUME Init PROVE Words
  OBVIOUS
<1>1. live = Nothing /\ said = [c \in Conversation |-> {}] /\ disk = [c \in Conversation |-> Nothing]
  BY DEF Init
<1> QED
  BY <1>1, TypedInit DEF Words, Numbered, InTab, OnDisk

\* Once the live conversation is written, the disk holds every word.
LEMMA SavedKeepsWords ==
  ASSUME Words, live # Nothing, live.dirty, disk' = Saved
  PROVE  /\ \A c \in Conversation : disk'[c] # Nothing => c <= begun
         /\ \A c \in Conversation \ (overwritten \cup lost) : said[c] \subseteq DiskLog(disk'[c])
<1> DEFINE record == [project |-> live.project, plans |-> live.plans, log |-> live.log]
<1>1. /\ disk \in [Conversation -> {Nothing} \cup Record]
      /\ live \in Tab /\ live.conversation \in Conversation
  BY DEF Words, Typed, TypeOK, Tab
<1>2. record \in Record /\ record.log = live.log
  BY <1>1 DEF Tab, Record
<1>3. record # Nothing
  BY <1>2, Constants
<1>4. disk' = [disk EXCEPT ![live.conversation] = record]
  BY DEF Saved
<1> HIDE DEF record
<1>5. \A c \in Conversation : disk'[c] # Nothing => c <= begun
  BY <1>1, <1>4 DEF Words, Numbered
<1>6. ASSUME NEW c \in Conversation \ (overwritten \cup lost)
      PROVE  said[c] \subseteq DiskLog(disk'[c])
  <2>1. CASE c = live.conversation
    <3>1. disk'[c] = record /\ said[c] \subseteq live.log
      BY <1>1, <1>4, <1>6, <2>1 DEF Words, InTab
    <3> QED
      BY <1>2, <1>3, <3>1 DEF DiskLog
  <2>2. CASE c # live.conversation
    BY <1>1, <1>4, <1>6, <2>2 DEF Words, OnDisk
  <2> QED
    BY <2>1, <2>2
<1> QED
  BY <1>5, <1>6

\* A tab that is left has its words on disk, or is counted as lost.
LEMMA LeaveKeepsWords ==
  ASSUME Words, NEW ok \in BOOLEAN, Leave(ok)
  PROVE  /\ \A c \in Conversation : disk'[c] # Nothing => c <= begun
         /\ \A c \in Conversation \ (overwritten \cup lost') : said[c] \subseteq DiskLog(disk'[c])
         /\ lost \subseteq lost'
<1>1. lost \subseteq lost' /\ disk' = IF ok THEN Saved ELSE disk
  BY DEF Leave, Save
<1>2. CASE live # Nothing /\ live.dirty /\ ok
  BY <1>1, <1>2, SavedKeepsWords
<1>3. CASE ~(live # Nothing /\ live.dirty /\ ok)
  <2>1. disk' = disk
    BY <1>1, <1>3 DEF Saved
  <2>2. ASSUME NEW c \in Conversation \ (overwritten \cup lost')
        PROVE  ~(live # Nothing /\ live.conversation = c /\ (live.dirty \/ failed))
    BY <1>3, <2>2 DEF Leave, Unwritten
  <2> QED
    BY <1>1, <2>1, <2>2 DEF Words, Numbered, OnDisk
<1> QED
  BY <1>2, <1>3

\* A conversation that begins is empty, and its number is new.
LEMMA BeginKeepsWords ==
  ASSUME Words, NEW ok \in BOOLEAN, Leave(ok), NEW project \in Project, Begin(project),
         UNCHANGED <<said, overwritten>>
  PROVE  Numbered' /\ InTab' /\ OnDisk'
<1> DEFINE c == begun + 1
<1>1. c \in Conversation /\ c > begun /\ begun \in Nat /\ begun' = c
  BY Constants DEF Words, Typed, TypeOK, Begin, Conversation
<1>2. live' = Fresh(c, project)
  BY DEF Begin
<1>3. Fresh(c, project) \in Tab /\ Fresh(c, project).conversation = c /\ ~Fresh(c, project).dirty
  BY <1>1, FreshTyped DEF Fresh
<1> HIDE DEF c
<1>4. said[c] = {}
  BY <1>1 DEF Words, Numbered
<1>5. \A d \in Conversation : d \in Nat /\ (d <= begun => d <= c) /\ (d > c => d > begun)
  BY <1>1 DEF Conversation
<1>6. Numbered'
  <2>1. live'.conversation <= begun'
    BY <1>1, <1>2, <1>3, <1>5
  <2>2. \A d \in Conversation : disk'[d] # Nothing => d <= begun'
    BY <1>1, <1>5, LeaveKeepsWords
  <2>3. \A d \in Conversation : d > begun' => said'[d] = {}
    BY <1>1, <1>5 DEF Words, Numbered
  <2> QED
    BY <2>1, <2>2, <2>3 DEF Numbered
<1>7. InTab'
  BY <1>2, <1>3, <1>4 DEF InTab
<1>8. OnDisk'
  BY LeaveKeepsWords DEF OnDisk
<1> QED
  BY <1>6, <1>7, <1>8

\* A conversation resumed from a record that is on disk holds its words.
LEMMA ResumeKeepsWords ==
  ASSUME Words, NEW ok \in BOOLEAN, Leave(ok),
         NEW c \in Conversation, NEW record \in Record, live' = Resumed(c, record),
         disk[c] # Nothing \/ disk'[c] # Nothing,
         disk'[c] = record \/ c \in overwritten', overwritten \subseteq overwritten',
         UNCHANGED <<begun, said>>
  PROVE  Numbered' /\ InTab' /\ OnDisk'
<1>1. Resumed(c, record) \in Tab /\ Resumed(c, record).conversation = c
      /\ Resumed(c, record).log = record.log /\ ~Resumed(c, record).dirty
  BY ResumedTyped DEF Resumed, Fresh
<1>2. c <= begun
  BY LeaveKeepsWords DEF Words, Numbered
<1>3. Numbered'
  BY <1>1, <1>2, LeaveKeepsWords DEF Words, Numbered
<1>4. InTab'
  <2> SUFFICES ASSUME c \notin overwritten' \cup lost' PROVE said[c] \subseteq record.log
    BY <1>1 DEF InTab
  <2>1. disk'[c] = record /\ record # Nothing /\ c \notin overwritten \cup lost'
    BY Constants
  <2> QED
    BY <2>1, LeaveKeepsWords DEF DiskLog
<1>5. OnDisk'
  BY LeaveKeepsWords DEF OnDisk
<1> QED
  BY <1>3, <1>4, <1>5

LEMMA TabWordsStep ==
  ASSUME Words, \/ \E p \in Project : Open(p) \/ New(p)
                \/ \E plan \in published : Reopen(plan)
                \/ Close \/ Tick
  PROVE  Numbered' /\ InTab' /\ OnDisk'
<1>1. TypeOK /\ disk \in [Conversation -> {Nothing} \cup Record]
  BY DEF Words, Typed, TypeOK
<1>2. ASSUME NEW ok \in BOOLEAN, Leave(ok)
      PROVE  disk' \in [Conversation -> {Nothing} \cup Record]
  BY <1>1, <1>2, WriteTyped
<1>3. ASSUME NEW p \in Project, Open(p) PROVE Numbered' /\ InTab' /\ OnDisk'
  <2> DEFINE c == LatestUnfinished(disk', written', p)
  <2>0. PICK ok \in BOOLEAN : Leave(ok)
    BY <1>3 DEF Open
  <2>1. UNCHANGED <<said, overwritten>>
    BY <1>3 DEF Open
  <2>2. CASE c = 0
    <3>1. Begin(p)
      BY <1>3, <2>2 DEF Open
    <3> QED
      BY <2>0, <2>1, <3>1, BeginKeepsWords
  <2>3. CASE c # 0
    <3>1. live' = Resumed(c, disk'[c]) /\ begun' = begun
      BY <1>3, <2>3 DEF Open
    <3>2. c \in Conversation /\ disk'[c] # Nothing
      BY <2>3, NewestWanted DEF LatestUnfinished
    <3>3. disk'[c] \in Record
      BY <1>2, <2>0, <3>2
    <3> HIDE DEF c
    <3> QED
      BY <2>0, <2>1, <3>1, <3>2, <3>3, ResumeKeepsWords
  <2> QED
    BY <2>2, <2>3
<1>4. ASSUME NEW p \in Project, New(p) PROVE Numbered' /\ InTab' /\ OnDisk'
  <2>1. Begin(p) /\ UNCHANGED <<said, overwritten>>
    BY <1>4 DEF New
  <2>2. PICK ok \in BOOLEAN : Leave(ok)
    BY <1>4 DEF New
  <2> QED
    BY <2>1, <2>2, BeginKeepsWords
<1>5. ASSUME NEW plan \in published, Reopen(plan) PROVE Numbered' /\ InTab' /\ OnDisk'
  <2> DEFINE c == ForPlan(disk, written, plan.project, plan.conversation)
  <2>0. PICK ok \in BOOLEAN : Leave(ok)
    BY <1>5 DEF Reopen
  <2>1. c # 0 /\ live' = Resumed(c, disk[c]) /\ UNCHANGED <<begun, said>>
        /\ overwritten' = IF disk'[c] = disk[c] THEN overwritten ELSE overwritten \cup {c}
    BY <1>5 DEF Reopen
  <2>2. c \in Conversation /\ disk[c] # Nothing
    BY <2>1, NewestWanted DEF ForPlan
  <2> HIDE DEF c
  <2>3. disk[c] \in Record
    BY <1>1, <2>2
  <2>4. (disk'[c] = disk[c] \/ c \in overwritten') /\ overwritten \subseteq overwritten'
    BY <2>1
  <2> QED
    BY <2>0, <2>1, <2>2, <2>3, <2>4, ResumeKeepsWords
<1>6. CASE Close
  <2>1. live' = Nothing /\ UNCHANGED <<begun, said, overwritten>>
    BY <1>6 DEF Close
  <2>2. PICK ok \in BOOLEAN : Leave(ok)
    BY <1>6 DEF Close
  <2> QED
    BY <2>1, <2>2, LeaveKeepsWords DEF Words, Numbered, InTab, OnDisk
<1>7. CASE Tick
  <2>1. live \in Tab /\ live # Nothing /\ live.dirty
    BY <1>1, <1>7 DEF Tick, TypeOK
  <2>2. /\ live' = [live EXCEPT !.dirty = FALSE]
        /\ UNCHANGED <<begun, said, overwritten, lost>>
    BY <1>7 DEF Tick
  <2>3. live' \in Tab /\ live'.conversation = live.conversation /\ live'.log = live.log
        /\ ~live'.dirty
    BY <2>1, <2>2 DEF Tab
  <2>4. \/ disk' = Saved /\ failed' = FALSE
        \/ disk' = disk /\ failed' = TRUE
    BY <1>7 DEF Tick, Save
  <2>5. CASE disk' = Saved
    BY <2>1, <2>2, <2>3, <2>5, SavedKeepsWords DEF Words, Numbered, InTab, OnDisk
  <2>6. CASE disk' = disk /\ failed' = TRUE
    BY <2>1, <2>2, <2>3, <2>6, Constants DEF Words, Numbered, InTab, OnDisk
  <2> QED
    BY <2>4, <2>5, <2>6
<1> QED
  BY <1>3, <1>4, <1>5, <1>6, <1>7

\* A message is written down in the conversation it is said in.
LEMMA SubmitWordsStep ==
  ASSUME Words, \/ SubmitAnswer \/ SubmitToEnded \/ SubmitUnconfigured
                \/ \E s \in Session : SubmitOpening(s)
  PROVE  Numbered' /\ InTab' /\ OnDisk'
<1>1. Speaks /\ live # Nothing
  BY DEF SubmitAnswer, SubmitToEnded, SubmitUnconfigured, SubmitOpening, Speaks
<1>2. /\ live \in Tab /\ Spoken \in Tab /\ live.conversation \in Conversation
      /\ said \in [Conversation -> SUBSET Message]
  BY <1>1, SpokenTyped DEF Words, Typed, TypeOK, Tab
<1>3. Spoken.conversation = live.conversation /\ Spoken.log = live.log \cup {submits + 1}
      /\ Spoken.dirty
  BY <1>2 DEF Spoken, Tab
<1>4. /\ live' # Nothing /\ live'.conversation = live.conversation
      /\ live'.log = live.log \cup {submits + 1} /\ live'.dirty
  <2>1. \/ live' = Spoken
        \/ live' = [Spoken EXCEPT !.waiting = FALSE, !.session = 0]
        \/ live' = [Spoken EXCEPT !.waiting = FALSE]
        \/ \E s \in Session : live' = [Spoken EXCEPT !.session = s]
    BY DEF SubmitAnswer, SubmitToEnded, SubmitUnconfigured, SubmitOpening
  <2>2. 0 \in 0..MaxSessions /\ Session \subseteq 0..MaxSessions
    BY Constants DEF Session
  <2>3. /\ live' \in Tab /\ live'.conversation = Spoken.conversation
        /\ live'.log = Spoken.log /\ live'.dirty = Spoken.dirty
    <3> HIDE DEF Spoken
    <3> QED
      BY <1>2, <2>1, <2>2 DEF Tab
  <2> QED
    BY <1>3, <2>3, Constants
<1>5. /\ said' = [said EXCEPT ![live.conversation] = @ \cup {submits + 1}]
      /\ UNCHANGED <<disk, begun, overwritten, failed, lost>>
  BY <1>1 DEF Speaks, store, unkept
<1>6. Numbered'
  <2>1. live.conversation <= begun /\ begun \in Nat /\ live.conversation \in Nat
    <3>1. live.conversation <= begun /\ begun \in 0..MaxConversations
      BY <1>1 DEF Words, Numbered, Typed, TypeOK
    <3>2. live.conversation \in Nat
      BY <1>2 DEF Conversation
    <3>3. begun \in Nat
      BY <3>1
    <3> QED
      BY <3>1, <3>2, <3>3
  <2>2. \A c \in Conversation : c \in Nat /\ (c > begun => c # live.conversation)
    BY <2>1, Constants
  <2> QED
    BY <1>2, <1>4, <1>5, <2>1, <2>2 DEF Words, Numbered
<1>7. InTab'
  BY <1>1, <1>2, <1>4, <1>5 DEF Words, InTab
<1>8. OnDisk'
  BY <1>1, <1>2, <1>4, <1>5 DEF Words, OnDisk
<1> QED
  BY <1>6, <1>7, <1>8

\* What the planner reports leaves the transcript alone.
LEMMA TakeWordsStep ==
  ASSUME Words, Take
  PROVE  Numbered' /\ InTab' /\ OnDisk'
<1>1. UNCHANGED <<disk, begun, said, overwritten, failed, lost>>
  BY DEF Take, TakeQuestion, TakeFailure, TakeBlueprint, TakePlan, TakeRejection, TakeBlocked,
         Took, store, unkept
<1>2. CASE live = Nothing
  <2>1. live' = Nothing
    BY <1>2 DEF Take, TakeQuestion, TakeFailure, TakeBlueprint, TakePlan, TakeRejection,
                TakeBlocked, Told
  <2> QED
    BY <1>1, <1>2, <2>1 DEF Words, Numbered, InTab, OnDisk
<1>3. CASE live # Nothing
  <2>1. live \in Tab
    BY <1>3 DEF Words, Typed, TypeOK
  <2>2. /\ HandedOver(live) \in Tab /\ HandedOver(live).log = live.log
        /\ HandedOver(live).conversation = live.conversation /\ HandedOver(live).dirty
    BY <2>1, HandedOverTyped
  <2>3. /\ live' \in Tab /\ live'.conversation = live.conversation /\ live'.log = live.log
        /\ live.dirty => live'.dirty
    <3>1. CASE TakeQuestion
      BY <1>3, <2>1, <3>1 DEF TakeQuestion, Told, Tab
    <3>2. CASE TakeFailure \/ TakeBlocked
      BY <1>3, <2>2, <3>2 DEF TakeFailure, TakeBlocked, Told
    <3>3. CASE TakeBlueprint
      BY <1>3, <2>1, <3>3 DEF TakeBlueprint, Told, Tab
    <3>4. CASE TakePlan
      <4> DEFINE left == HandedOver(live)
                 named == about[Head(inbox).session].conversation
      <4>1. live' = [left EXCEPT !.plans = @ \cup {named}]
        BY <1>3, <3>4 DEF TakePlan, Told
      <4>2. live' \in Tab
        <5>1. Typed'
          BY TakeTypedStep DEF Words
        <5>2. live' \in {Nothing} \cup Tab
          BY <5>1 DEF Typed, TypeOK
        <5>3. named \in Conversation
          BY <3>4, TookTyped DEF TakePlan, Words, Spawned, Plan
        <5> HIDE DEF left, named
        <5> QED
          BY <2>2, <4>1, <5>3 DEF left, Tab
      <4>3. left \in Tab /\ left.conversation = live.conversation /\ left.log = live.log
            /\ left.dirty
        BY <2>2
      <4> HIDE DEF left, named
      <4> QED
        BY <4>1, <4>2, <4>3 DEF Tab
    <3>5. CASE TakeRejection
      <4>1. [live EXCEPT !.generating = FALSE, !.waiting = TRUE, !.dirty = TRUE] \in Tab
        BY <2>1 DEF Tab
      <4> QED
        BY <1>3, <2>1, <2>2, <3>5, <4>1 DEF TakeRejection, Told, Tab
    <3> QED
      BY <3>1, <3>2, <3>3, <3>4, <3>5 DEF Take
  <2>4. live' # Nothing
    BY <2>3, Constants
  <2> QED
    BY <1>1, <1>3, <2>3, <2>4 DEF Words, Numbered, InTab, OnDisk
<1> QED
  BY <1>2, <1>3

\* Everything else leaves the transcripts alone.
LEMMA SameWords ==
  ASSUME Words, UNCHANGED <<live, disk, begun, said, overwritten, failed, lost>>
  PROVE  Numbered' /\ InTab' /\ OnDisk'
BY DEF Words, Numbered, InTab, OnDisk

LEMMA WordsStep == Words /\ [Next]_vars => Words'
<1> SUFFICES ASSUME Words, [Next]_vars PROVE Words'
  OBVIOUS
<1>1. Typed'
  BY TypedStep DEF Words
<1>2. CASE Operator
  BY <1>1, <1>2, TabWordsStep, SubmitWordsStep DEF Operator, Words
<1>3. CASE Tick \/ Take
  BY <1>1, <1>3, TabWordsStep, TakeWordsStep DEF Words
<1>4. ASSUME NEW s \in Session, SessionStep(s) \/ GenerationEnds(s) PROVE Words'
  <2>1. UNCHANGED <<live, disk, begun, said, overwritten, failed, lost>>
    BY <1>4
    DEF SessionStep, Ask, Propose, TurnFails, Malformed, ReadAnswer, ReadVerdict, HungUp, Over,
        GenerationEnds, Elsewhere, store, history, unkept
  <2> QED
    BY <1>1, <2>1, SameWords DEF Words
<1>5. CASE UNCHANGED vars
  BY <1>1, <1>5, SameWords DEF Words, vars
<1> QED
  BY <1>2, <1>3, <1>4, <1>5 DEF Next

\* What the operator said in a conversation is in its tab or in its record,
\* however conversations displace each other and whichever writes fail, unless
\* its tab was left when its last write had failed, or it was reopened from a
\* record read before its last words were written.
THEOREM TranscriptsKept == Spec => []TranscriptKept
<1> QED
  BY WordsInit, WordsStep, WordsKept, PTL DEF Spec

-----------------------------------------------------------------------------
(* A tab that heard only its own session: the session and the tab            *)
(* take turns, and at most one message, one answer, one verdict or one       *)
(* generation is under way between them.                                     *)

NoMail(s) == \A i \in 1..Len(inbox) : inbox[i].session # s

OneMail(s, kinds) ==
  \E i \in 1..Len(inbox) :
    /\ inbox[i].session = s /\ inbox[i].kind \in kinds
    /\ \A j \in 1..Len(inbox) : inbox[j].session = s => j = i

Owes(s, answered, ruled, generating) ==
  answers[s] = answered /\ verdicts[s] = ruled /\ generations[s] = generating

\* A session that was never spawned has sent and was sent nothing.
Unstarted == \A s \in Session : phase[s] = "none" => NoMail(s) /\ Owes(s, 0, 0, 0)

\* Only while it waits for an answer, its question taken, may the operator speak.
Stage(s) ==
  \/ phase[s] = "turn" /\ NoMail(s) /\ Owes(s, 0, 0, 0) /\ Busy
  \/ phase[s] = "asked" /\ OneMail(s, {"question"}) /\ Owes(s, 0, 0, 0) /\ Busy
  \/ phase[s] = "asked" /\ NoMail(s) /\ Owes(s, 0, 0, 0)
  \/ phase[s] = "asked" /\ NoMail(s) /\ Owes(s, 1, 0, 0) /\ Busy
  \/ phase[s] = "proposed" /\ OneMail(s, {"blueprint"}) /\ Owes(s, 0, 0, 0) /\ Busy
  \/ phase[s] = "proposed" /\ NoMail(s) /\ Owes(s, 0, 0, 1) /\ Busy
  \/ /\ phase[s] = "proposed" /\ OneMail(s, {"generated", "rejected", "blocked"})
     /\ Owes(s, 0, 0, 0) /\ Busy
  \/ phase[s] = "proposed" /\ NoMail(s) /\ Owes(s, 0, 1, 0) /\ Busy
  \/ phase[s] = "over" /\ OneMail(s, {"failed"}) /\ Owes(s, 0, 0, 0) /\ Busy

Staged ==
  live # Nothing /\ live.session # 0 /\ ~crossed => Stage(live.session)

Turns == Typed /\ Unstarted /\ Staged

LEMMA TurnsAnswer == Turns => AnswersItsQuestion
BY DEF Turns, Staged, Stage, Owes, AnswersItsQuestion

LEMMA TurnsInit == Init => Turns
<1> SUFFICES ASSUME Init PROVE Turns
  OBVIOUS
<1>1. live = Nothing /\ inbox = <<>> /\ Len(<<>>) = 0
  BY EmptySeq DEF Init
<1>2. Unstarted
  BY <1>1 DEF Init, Unstarted, NoMail, Owes
<1> QED
  BY <1>1, <1>2, TypedInit DEF Turns, Staged

\* The mail of one session is not touched by another's report.
LEMMA OtherMail ==
  ASSUME NEW s \in Session, NEW t \in Session, t # s, NEW kind \in Kinds, inbox \in Seq(Mail),
         Reports(t, kind) \/ UNCHANGED inbox
  PROVE  /\ NoMail(s) => NoMail(s)'
         /\ \A kinds : OneMail(s, kinds) => OneMail(s, kinds)'
<1>1. CASE Reports(t, kind)
  <2>1. /\ Len(inbox) \in Nat /\ Len(inbox') = Len(inbox) + 1
        /\ inbox'[Len(inbox) + 1].session = t
        /\ \A i \in 1..Len(inbox) : inbox'[i] = inbox[i]
    <3>1. /\ Len(inbox) \in Nat /\ Len(inbox') = Len(inbox) + 1
          /\ inbox'[Len(inbox) + 1] = [kind |-> kind, session |-> t]
          /\ \A i \in 1..Len(inbox) : inbox'[i] = inbox[i]
      BY <1>1, ReportTyped
    <3> QED
      BY <3>1
  <2>2. \A i \in 1..Len(inbox') : i = Len(inbox) + 1 \/ i \in 1..Len(inbox)
    BY <2>1
  <2>3. \A i \in 1..Len(inbox) : i \in 1..Len(inbox')
    BY <2>1
  <2>4. NoMail(s) => NoMail(s)'
    BY <2>1, <2>2 DEF NoMail
  <2>5. ASSUME NEW kinds, OneMail(s, kinds) PROVE OneMail(s, kinds)'
    BY <2>1, <2>2, <2>3, <2>5 DEF OneMail
  <2> QED
    BY <2>4, <2>5
<1>2. CASE UNCHANGED inbox
  BY <1>2 DEF NoMail, OneMail
<1> QED
  BY <1>1, <1>2

\* A report of a session without mail is its only mail.
LEMMA OwnMail ==
  ASSUME NEW s \in Session, NEW kind \in Kinds, inbox \in Seq(Mail), Reports(s, kind), NoMail(s),
         NEW kinds, kind \in kinds
  PROVE  OneMail(s, kinds)'
<1>1. /\ Len(inbox) \in Nat /\ Len(inbox') = Len(inbox) + 1
      /\ inbox'[Len(inbox) + 1] = [kind |-> kind, session |-> s]
      /\ \A i \in 1..Len(inbox) : inbox'[i] = inbox[i]
  BY ReportTyped
<1>2. \A i \in 1..Len(inbox') : i = Len(inbox) + 1 \/ i \in 1..Len(inbox)
  BY <1>1
<1>3. Len(inbox) + 1 \in 1..Len(inbox')
  BY <1>1
<1> QED
  BY <1>1, <1>2, <1>3 DEF NoMail, OneMail

\* Taking a message takes it from its sender's mail.
LEMMA TakenMail ==
  ASSUME Typed, NEW kind, Took(kind), NEW s \in Session
  PROVE  /\ NoMail(s) => NoMail(s)' /\ Head(inbox).session # s
         /\ Head(inbox).session = s =>
              \A kinds : OneMail(s, kinds) => kind \in kinds /\ NoMail(s)'
<1>1. /\ Len(inbox) \in Nat /\ Len(inbox) >= 1 /\ Len(inbox') = Len(inbox) - 1
      /\ Head(inbox) = inbox[1] /\ inbox[1].kind = kind
      /\ \A i \in 1..Len(inbox') : i + 1 \in 1..Len(inbox) /\ inbox'[i] = inbox[i + 1]
  BY TookTyped DEF Took
<1>2. 1 \in 1..Len(inbox) /\ \A i \in 1..Len(inbox') : i + 1 # 1
  BY <1>1
<1>3. NoMail(s) => NoMail(s)' /\ Head(inbox).session # s
  BY <1>1, <1>2 DEF NoMail
<1>4. ASSUME Head(inbox).session = s, NEW kinds, OneMail(s, kinds)
      PROVE  kind \in kinds /\ NoMail(s)'
  BY <1>1, <1>2, <1>4 DEF NoMail, OneMail
<1> QED
  BY <1>3, <1>4

LEMMA UnstartedStep ==
  ASSUME Turns, [Next]_vars
  PROVE  Unstarted'
<1>1. OperatorTyped /\ PlannerTyped /\ Typed
  BY TypeGroups DEF Turns, Typed
<1> SUFFICES ASSUME NEW s \in Session, phase'[s] = "none" PROVE NoMail(s)' /\ Owes(s, 0, 0, 0)'
  BY DEF Unstarted
<1>2. ASSUME phase[s] = "none" PROVE NoMail(s) /\ Owes(s, 0, 0, 0)
  BY <1>2 DEF Turns, Unstarted
<1>3. ASSUME UNCHANGED <<phase, inbox, answers, verdicts, generations>>
      PROVE  NoMail(s)' /\ Owes(s, 0, 0, 0)'
  BY <1>2, <1>3 DEF NoMail, Owes
<1>4. CASE Operator
  <2>1. CASE \/ \E p \in Project : Open(p) \/ New(p)
             \/ \E plan \in published : Reopen(plan)
             \/ Close \/ SubmitToEnded \/ SubmitUnconfigured
    BY <1>3, <2>1
    DEF Open, New, Reopen, Close, SubmitToEnded, SubmitUnconfigured, Speaks, planner, channels
  <2>2. CASE SubmitAnswer
    <3>1. /\ phase[live.session] # "none" /\ UNCHANGED <<phase, inbox, verdicts, generations>>
          /\ answers' = [answers EXCEPT ![live.session] = @ + 1]
      BY <2>2 DEF SubmitAnswer, Speaks, Listening
    <3>2. s # live.session
      BY <3>1
    <3> QED
      BY <1>1, <1>2, <3>1, <3>2 DEF NoMail, Owes, PlannerTyped
  <2>3. ASSUME NEW t \in Session, SubmitOpening(t) PROVE NoMail(s)' /\ Owes(s, 0, 0, 0)'
    BY <1>1, <1>2, <2>3 DEF SubmitOpening, Speaks, NoMail, Owes, PlannerTyped
  <2> QED
    BY <1>4, <2>1, <2>2, <2>3 DEF Operator
<1>5. CASE Tick
  BY <1>3, <1>5 DEF Tick, planner, channels
<1>6. CASE Take
  <2>1. PICK kind \in Kinds : Took(kind)
    BY <1>6
    DEF Take, TakeQuestion, TakeFailure, TakeBlueprint, TakePlan, TakeRejection, TakeBlocked,
        Kinds
  <2>2. phase[s] = "none" /\ UNCHANGED answers
    BY <2>1 DEF Took, planner
  <2>3. NoMail(s)' /\ Head(inbox).session # s
    BY <1>1, <1>2, <2>1, <2>2, TakenMail
  <2>4. generations'[s] = 0
    <3>1. \/ UNCHANGED generations
          \/ generations' = [generations EXCEPT ![Head(inbox).session] = @ + 1]
      BY <1>6
      DEF Take, TakeQuestion, TakeFailure, TakeBlueprint, TakePlan, TakeRejection, TakeBlocked
    <3> QED
      BY <1>1, <1>2, <2>2, <2>3, <3>1 DEF Owes, PlannerTyped
  <2>5. verdicts'[s] = 0
    <3>1. \/ UNCHANGED verdicts
          \/ Listening(live.session) /\ verdicts' = [verdicts EXCEPT ![live.session] = @ + 1]
      BY <1>6
      DEF Take, TakeQuestion, TakeFailure, TakeBlueprint, TakePlan, TakeRejection, TakeBlocked
    <3> QED
      BY <1>1, <1>2, <2>2, <3>1 DEF Owes, PlannerTyped, Listening
  <2> QED
    BY <1>2, <2>2, <2>3, <2>4, <2>5 DEF Owes
<1>7. ASSUME NEW t \in Session, SessionStep(t) PROVE NoMail(s)' /\ Owes(s, 0, 0, 0)'
  <2>1. phase[t] # "none" /\ UNCHANGED generations
    BY <1>7
    DEF SessionStep, Ask, Propose, TurnFails, Malformed, ReadAnswer, ReadVerdict, HungUp, Over,
        Elsewhere
  <2>2. PICK kind \in Kinds : Reports(t, kind) \/ UNCHANGED inbox
    BY <1>7
    DEF SessionStep, Ask, Propose, TurnFails, Malformed, ReadAnswer, ReadVerdict, HungUp, Over,
        Kinds
  <2>3. /\ phase' \in {[phase EXCEPT ![t] = p] : p \in Phases \ {"none"}} \cup {phase}
        /\ answers' \in {[answers EXCEPT ![t] = @ - 1], answers}
        /\ verdicts' \in {[verdicts EXCEPT ![t] = @ - 1], verdicts}
    <3>1. {"turn", "asked", "proposed", "over"} \subseteq Phases \ {"none"}
      BY DEF Phases
    <3> QED
      BY <1>7, <3>1
      DEF SessionStep, Ask, Propose, TurnFails, Malformed, ReadAnswer, ReadVerdict, HungUp,
          Over, channels
  <2>4. t # s /\ phase[s] = "none"
    BY <1>1, <2>1, <2>3 DEF PlannerTyped
  <2>5. NoMail(s)'
    BY <1>1, <1>2, <2>2, <2>4, OtherMail DEF PlannerTyped
  <2> QED
    BY <1>1, <1>2, <2>1, <2>3, <2>4, <2>5 DEF Owes, PlannerTyped
<1>8. ASSUME NEW t \in Session, GenerationEnds(t) PROVE NoMail(s)' /\ Owes(s, 0, 0, 0)'
  <2>1. /\ generations[t] > 0 /\ generations' = [generations EXCEPT ![t] = @ - 1]
        /\ UNCHANGED <<phase, answers, verdicts>>
    BY <1>8 DEF GenerationEnds, planner, channels
  <2>2. t # s
    BY <1>2, <2>1 DEF Owes
  <2>3. PICK kind \in Kinds : Reports(t, kind)
    BY <1>8 DEF GenerationEnds, Kinds
  <2>4. NoMail(s)'
    BY <1>1, <1>2, <2>1, <2>2, <2>3, OtherMail DEF PlannerTyped
  <2> QED
    BY <1>1, <1>2, <2>1, <2>2, <2>4 DEF Owes, PlannerTyped
<1>9. CASE UNCHANGED vars
  BY <1>3, <1>9 DEF vars
<1> QED
  BY <1>4, <1>5, <1>6, <1>7, <1>8, <1>9 DEF Next

\* A step that leaves the session, its mail and the tab's flags alone.
LEMMA SameStage ==
  ASSUME NEW s, Stage(s), UNCHANGED <<phase, inbox, answers, verdicts, generations>>, Busy => Busy'
  PROVE  Stage(s)'
<1>1. NoMail(s) => NoMail(s)'
  BY DEF NoMail
<1>2. \A kinds : OneMail(s, kinds) => OneMail(s, kinds)'
  BY DEF OneMail
<1>3. \A a, v, g : Owes(s, a, v, g) => Owes(s, a, v, g)'
  BY DEF Owes
<1> QED
  BY <1>1, <1>2, <1>3 DEF Stage

\* So does a step of another session, whatever it reports.
LEMMA OtherStage ==
  ASSUME NEW s \in Session, NEW t \in Session, t # s, Stage(s), inbox \in Seq(Mail),
         NEW kind \in Kinds, Reports(t, kind) \/ UNCHANGED inbox,
         phase'[s] = phase[s], answers'[s] = answers[s], verdicts'[s] = verdicts[s],
         generations'[s] = generations[s], Busy => Busy'
  PROVE  Stage(s)'
<1>1. (NoMail(s) => NoMail(s)') /\ \A kinds : OneMail(s, kinds) => OneMail(s, kinds)'
  BY OtherMail
<1>2. \A a, v, g : Owes(s, a, v, g) => Owes(s, a, v, g)'
  BY DEF Owes
<1> QED
  BY <1>1, <1>2 DEF Stage

LEMMA NamedStage ==
  ASSUME NEW s, live'.session = s, Stage(s)'
  PROVE  Stage(live.session)'
BY DEF Stage, NoMail, OneMail, Owes

\* The operator speaks to a session that waits for an answer.
LEMMA OperatorStage ==
  ASSUME Turns, Operator, live' # Nothing, live'.session # 0, ~crossed'
  PROVE  Stage(live.session)'
<1>1. OperatorTyped /\ PlannerTyped
  BY TypeGroups DEF Turns, Typed
<1>2. \A c, p : Fresh(c, p).session = 0
  BY DEF Fresh
<1>3. \A c, r : Resumed(c, r).session = 0
  BY DEF Resumed, Fresh
<1>4. CASE \E p \in Project : Open(p) \/ New(p)
  BY <1>2, <1>3, <1>4 DEF Open, New, Begin
<1>5. CASE \E plan \in published : Reopen(plan)
  BY <1>3, <1>5 DEF Reopen
<1>6. CASE Close
  BY <1>6 DEF Close
<1>7. ASSUME Speaks
      PROVE  /\ live \in Tab /\ live # Nothing /\ ~Busy
             /\ Spoken \in Tab /\ Spoken.session = live.session /\ Spoken.waiting
             /\ Spoken.conversation = live.conversation
  <2>1. live \in Tab /\ Spoken \in Tab
    BY <1>7, SpokenTyped DEF Turns, Typed
  <2> QED
    BY <1>7, <2>1 DEF Speaks, Spoken, Tab
<1>8. CASE SubmitToEnded \/ SubmitUnconfigured
  <2>1. Speaks
    BY <1>8 DEF SubmitToEnded, SubmitUnconfigured
  <2>2. Spoken \in Tab /\ Spoken.session = live.session
    BY <1>7, <2>1
  <2>3. SubmitUnconfigured => live.session = 0
    BY DEF SubmitUnconfigured
  <2>4. live' = [Spoken EXCEPT !.waiting = FALSE, !.session = 0]
        \/ (live' = [Spoken EXCEPT !.waiting = FALSE] /\ live.session = 0)
    BY <1>8, <2>3 DEF SubmitToEnded, SubmitUnconfigured
  <2> HIDE DEF Spoken
  <2>5. live'.session = 0
    BY <2>2, <2>4 DEF Tab
  <2> QED
    BY <2>5
<1>9. CASE SubmitAnswer
  <2>0. PICK s : s = live.session
    OBVIOUS
  <2>1. Speaks /\ live' = Spoken
    BY <1>9 DEF SubmitAnswer
  <2>2. live \in Tab /\ live # Nothing /\ ~Busy /\ Spoken.waiting
        /\ Spoken.session = s /\ Spoken.conversation = live.conversation
    BY <1>7, <2>0, <2>1
  <2>3. UNCHANGED <<phase, inbox, crossed, verdicts, generations>>
        /\ answers' = [answers EXCEPT ![s] = @ + 1] /\ s # 0
    BY <1>9, <2>0, <2>1 DEF SubmitAnswer, Speaks
  <2>4. s \in Session
    BY <2>0, <2>2, <2>3 DEF Tab, Session
  <2>5. Stage(s)
    BY <2>0, <2>1, <2>2, <2>3 DEF Turns, Staged
  <2>6. phase[s] = "asked" /\ NoMail(s) /\ Owes(s, 0, 0, 0)
    BY <2>2, <2>5 DEF Stage
  <2>7. NoMail(s)'
    BY <2>3, <2>6, <2>1, <2>2 DEF NoMail
  <2>8. Busy'
    BY <2>1, <2>2 DEF Busy
  <2>9. live'.session = s
    BY <2>1, <2>2
  <2>10. answers'[s] = 1 /\ verdicts'[s] = 0 /\ generations'[s] = 0 /\ phase'[s] = "asked"
    BY <1>1, <2>3, <2>4, <2>6 DEF Owes, PlannerTyped
  <2>11. Owes(s, 1, 0, 0)'
    BY <2>10 DEF Owes
  <2>12. Stage(s)'
    BY <2>7, <2>8, <2>10, <2>11 DEF Stage
  <2> QED
    BY <2>9, <2>12, NamedStage
<1>10. ASSUME NEW s \in Session, SubmitOpening(s) PROVE Stage(live.session)'
  <2>1. Speaks /\ live' = [Spoken EXCEPT !.session = s] /\ phase[s] = "none"
        /\ phase' = [phase EXCEPT ![s] = "turn"] /\ UNCHANGED answers
    BY <1>10 DEF SubmitOpening
  <2>2. UNCHANGED <<inbox, verdicts, generations>>
    BY <2>1 DEF Speaks
  <2>3. Spoken \in Tab /\ Spoken.waiting
    BY <1>7, <2>1
  <2>4. live'.session = s /\ live'.waiting
    <3> HIDE DEF Spoken
    <3> QED
      BY <2>1, <2>3 DEF Tab
  <2>5. NoMail(s) /\ Owes(s, 0, 0, 0)
    BY <2>1 DEF Turns, Unstarted
  <2>6. phase'[s] = "turn" /\ Busy'
    BY <1>1, <2>1, <2>4 DEF PlannerTyped, Busy
  <2> QED
    BY <2>1, <2>2, <2>4, <2>5, <2>6 DEF Stage, NoMail, Owes
<1> QED
  BY <1>4, <1>5, <1>6, <1>8, <1>9, <1>10 DEF Operator

\* The session takes its turn, waits for what was asked, or ends.
LEMMA OwnStage ==
  ASSUME Turns, NEW s \in Session, SessionStep(s), Held(s), Stage(s)
  PROVE  Stage(s)'
<1>1. PlannerTyped /\ inbox \in Seq(Mail)
  BY TypeGroups DEF Turns, Typed, PlannerTyped
<1>2. Busy => Busy'
  BY DEF SessionStep, Ask, Propose, TurnFails, Malformed, ReadAnswer, ReadVerdict, HungUp, Over,
         Elsewhere, Busy
<1>3. UNCHANGED generations
  BY DEF SessionStep, Ask, Propose, TurnFails, Malformed, ReadAnswer, ReadVerdict, HungUp,
         Over, Elsewhere
<1>4. ASSUME UNCHANGED inbox, NoMail(s) PROVE NoMail(s)'
  BY <1>4 DEF NoMail
<1>5. CASE phase[s] = "turn"
  <2>1. NoMail(s) /\ Owes(s, 0, 0, 0) /\ Busy'
    BY <1>2, <1>5 DEF Stage
  <2>2. UNCHANGED channels
    BY <1>5 DEF SessionStep, Ask, Propose, TurnFails, Malformed, ReadAnswer, ReadVerdict,
                HungUp, Over
  <2>3. Owes(s, 0, 0, 0)'
    BY <1>3, <2>1, <2>2 DEF Owes, channels
  <2>4. CASE Ask(s)
    <3>1. phase'[s] = "asked" /\ Reports(s, "question")
      BY <1>1, <2>4 DEF Ask, PlannerTyped
    <3>2. OneMail(s, {"question"})'
      BY <1>1, <2>1, <3>1, OwnMail DEF Kinds
    <3> QED
      BY <2>1, <2>3, <3>1, <3>2 DEF Stage
  <2>5. CASE Propose(s)
    <3>1. phase'[s] = "proposed" /\ Reports(s, "blueprint")
      BY <1>1, <2>5 DEF Propose, PlannerTyped
    <3>2. OneMail(s, {"blueprint"})'
      BY <1>1, <2>1, <3>1, OwnMail DEF Kinds
    <3> QED
      BY <2>1, <2>3, <3>1, <3>2 DEF Stage
  <2>6. CASE TurnFails(s) \/ (Malformed(s) /\ phase' # phase)
    <3>1. phase'[s] = "over" /\ Reports(s, "failed")
      BY <1>1, <2>6 DEF TurnFails, Malformed, Over, PlannerTyped
    <3>2. OneMail(s, {"failed"})'
      BY <1>1, <2>1, <3>1, OwnMail DEF Kinds
    <3> QED
      BY <2>1, <2>3, <3>1, <3>2 DEF Stage
  <2>7. CASE Malformed(s) /\ phase' = phase
    <3>1. UNCHANGED inbox
      <4>1. repairs[s] < MaxRepairs \/ phase' = [phase EXCEPT ![s] = "over"]
        BY <2>7 DEF Malformed, Over
      <4>2. repairs[s] < MaxRepairs
        BY <1>1, <1>5, <2>7, <4>1 DEF PlannerTyped
      <4> QED
        BY <2>7, <4>2 DEF Malformed
    <3> QED
      BY <1>4, <1>5, <2>1, <2>3, <2>7, <3>1 DEF Stage
  <2> QED
    BY <1>5, <2>4, <2>5, <2>6, <2>7 DEF SessionStep, ReadAnswer, ReadVerdict, HungUp, Over
<1>6. CASE ReadAnswer(s)
  <2>1. /\ phase[s] = "asked" /\ answers[s] > 0 /\ UNCHANGED <<inbox, verdicts>>
        /\ answers' = [answers EXCEPT ![s] = @ - 1] /\ phase' = [phase EXCEPT ![s] = "turn"]
    BY <1>6 DEF ReadAnswer
  <2>2. NoMail(s) /\ Owes(s, 1, 0, 0) /\ Busy
    BY <2>1 DEF Stage, Owes
  <2>3. phase'[s] = "turn" /\ answers'[s] = 0
    BY <1>1, <2>1, <2>2 DEF PlannerTyped, Owes
  <2>4. Owes(s, 0, 0, 0)'
    BY <1>3, <2>1, <2>2, <2>3 DEF Owes
  <2> QED
    BY <1>2, <1>4, <2>1, <2>2, <2>3, <2>4 DEF Stage
<1>7. CASE ReadVerdict(s)
  <2>1. /\ phase[s] = "proposed" /\ verdicts[s] > 0 /\ UNCHANGED answers
        /\ verdicts' = [verdicts EXCEPT ![s] = @ - 1]
    BY <1>7 DEF ReadVerdict
  <2>2. NoMail(s) /\ Owes(s, 0, 1, 0) /\ Busy
    BY <2>1 DEF Stage, Owes
  <2>3. verdicts'[s] = 0
    BY <1>1, <2>1, <2>2 DEF PlannerTyped, Owes
  <2>4. Owes(s, 0, 0, 0)'
    BY <1>3, <2>1, <2>2, <2>3 DEF Owes
  <2>5. CASE rejections[s] < MaxRejections
    <3>1. phase'[s] = "turn" /\ UNCHANGED inbox
      BY <1>1, <1>7, <2>5 DEF ReadVerdict, PlannerTyped
    <3> QED
      BY <1>2, <1>4, <2>2, <2>4, <3>1 DEF Stage
  <2>6. CASE ~(rejections[s] < MaxRejections)
    <3>1. phase'[s] = "over" /\ Reports(s, "failed")
      BY <1>1, <1>7, <2>6 DEF ReadVerdict, Over, PlannerTyped
    <3>2. OneMail(s, {"failed"})'
      BY <1>1, <2>2, <3>1, OwnMail DEF Kinds
    <3> QED
      BY <1>2, <2>2, <2>4, <3>1, <3>2 DEF Stage
  <2> QED
    BY <2>5, <2>6
<1> QED
  BY <1>5, <1>6, <1>7 DEF SessionStep, Ask, Propose, TurnFails, Malformed, HungUp, Over

\* The loop hears the live session and answers it.
LEMMA TakeStage ==
  ASSUME Turns, Take, live' # Nothing, live'.session # 0, ~crossed'
  PROVE  Stage(live.session)'
<1>1. OperatorTyped /\ PlannerTyped /\ Typed
  BY TypeGroups DEF Turns, Typed
<1>2. PICK kind \in Kinds : Took(kind)
  BY DEF Take, TakeQuestion, TakeFailure, TakeBlueprint, TakePlan, TakeRejection, TakeBlocked,
         Kinds
<1>3. live # Nothing /\ live \in Tab
  <2>1. live # Nothing
    BY DEF Take, TakeQuestion, TakeFailure, TakeBlueprint, TakePlan, TakeRejection,
           TakeBlocked, Told
  <2> QED
    BY <1>1, <2>1 DEF OperatorTyped
<1>0. PICK s : s = live.session
  OBVIOUS
<1>4. HandedOver(live) \in Tab /\ HandedOver(live).session = 0
  BY <1>3, HandedOverTyped
<1>5. /\ ~TakeFailure /\ ~TakeBlocked /\ ~TakePlan
      /\ TakeRejection => s # 0 /\ Listening(s)
  <2>1. ~TakeFailure /\ ~TakeBlocked
    BY <1>3, <1>4 DEF TakeFailure, TakeBlocked, Told
  <2>2. ~TakePlan
    <3> DEFINE left == HandedOver(live)
               named == about[Head(inbox).session].conversation
    <3>1. TakePlan => live' = [left EXCEPT !.plans = @ \cup {named}]
      BY <1>3 DEF TakePlan, Told
    <3> HIDE DEF left, named
    <3>2. left \in Tab /\ left.session = 0
      BY <1>4 DEF left
    <3> QED
      BY <3>1, <3>2 DEF Tab
  <2>3. TakeRejection => s # 0 /\ Listening(s)
    BY <1>3, <1>4, <1>0 DEF TakeRejection, Told
  <2> QED
    BY <2>1, <2>2, <2>3
<1>6. /\ live'.session = s /\ live'.conversation = live.conversation
      /\ live'.waiting = IF TakeQuestion \/ TakeBlueprint THEN FALSE ELSE TRUE
      /\ TakeBlueprint => live'.generating
  <2>1. CASE TakeQuestion
    <3>1. ~TakeBlueprint
      BY <2>1 DEF TakeQuestion, TakeBlueprint, Took
    <3> QED
      BY <1>3, <1>0, <2>1, <3>1 DEF TakeQuestion, Told, Tab
  <2>2. CASE TakeBlueprint
    BY <1>3, <1>0, <2>2 DEF TakeBlueprint, Told, Tab
  <2>3. CASE TakeRejection
    <3>1. Head(inbox).kind = "rejected"
      BY <2>3 DEF TakeRejection, Took
    <3>2. ~TakeQuestion /\ ~TakeBlueprint
      BY <3>1 DEF TakeQuestion, TakeBlueprint, Took
    <3> QED
      BY <1>3, <1>5, <1>0, <2>3, <3>2 DEF TakeRejection, Tab
  <2> QED
    BY <1>5, <2>1, <2>2, <2>3 DEF Take
<1>7. s # 0 /\ s \in Session
  BY <1>3, <1>6, <1>0 DEF Tab, Session
<1>8. Head(inbox).session = s
  BY <1>2, <1>3, <1>6, <1>0 DEF Took
<1>9. ~crossed
  BY <1>2, <1>3, <1>6 DEF Took
<1>10. Stage(s)
  BY <1>3, <1>7, <1>9, <1>0 DEF Turns, Staged
<1>11. UNCHANGED <<phase, answers>>
  BY <1>2 DEF Took, planner
<1>12. ~NoMail(s)
  BY <1>1, <1>2, <1>7, <1>8, TakenMail
<1>13. \A kinds : OneMail(s, kinds) => NoMail(s)' /\ Head(inbox).kind \in kinds
  <2>1. \A kinds : OneMail(s, kinds) => kind \in kinds /\ NoMail(s)'
    BY <1>1, <1>2, <1>7, <1>8, TakenMail
  <2> QED
    BY <1>2, <2>1 DEF Took
<1>14. Busy' <=> live'.waiting \/ live'.generating
  BY DEF Busy
<1>15. CASE TakeQuestion
  <2>1. Head(inbox).kind = "question" /\ UNCHANGED <<verdicts, generations>>
    BY <1>15 DEF TakeQuestion, Took
  <2>2. phase[s] = "asked" /\ NoMail(s)' /\ Owes(s, 0, 0, 0)
    BY <1>10, <1>12, <1>13, <2>1 DEF Stage
  <2>3. Owes(s, 0, 0, 0)'
    BY <1>11, <2>1, <2>2 DEF Owes
  <2>4. phase'[s] = "asked"
    BY <1>11, <2>2
  <2>5. Stage(s)'
    BY <2>2, <2>3, <2>4 DEF Stage
  <2> QED
    BY <1>6, <2>5, NamedStage
<1>16. CASE TakeBlueprint
  <2>1. /\ Head(inbox).kind = "blueprint" /\ UNCHANGED verdicts
        /\ generations' = [generations EXCEPT ![s] = @ + 1]
    BY <1>8, <1>16 DEF TakeBlueprint, Took
  <2>2. phase[s] = "proposed" /\ NoMail(s)' /\ Owes(s, 0, 0, 0)
    BY <1>10, <1>12, <1>13, <2>1 DEF Stage
  <2>3. Owes(s, 0, 0, 1)'
    BY <1>1, <1>7, <1>11, <2>1, <2>2 DEF Owes, PlannerTyped
  <2>4. phase'[s] = "proposed" /\ Busy'
    BY <1>6, <1>11, <1>14, <1>16, <2>2
  <2>5. Stage(s)'
    BY <2>2, <2>3, <2>4 DEF Stage
  <2> QED
    BY <1>6, <2>5, NamedStage
<1>17. CASE TakeRejection
  <2>1. Head(inbox).kind = "rejected" /\ UNCHANGED generations
    BY <1>17 DEF TakeRejection, Took
  <2>2. verdicts' = [verdicts EXCEPT ![s] = @ + 1]
    BY <1>3, <1>5, <1>17, <1>0 DEF TakeRejection
  <2>3. phase[s] = "proposed" /\ NoMail(s)' /\ Owes(s, 0, 0, 0)
    BY <1>10, <1>12, <1>13, <2>1 DEF Stage
  <2>4. Owes(s, 0, 1, 0)'
    BY <1>1, <1>7, <1>11, <2>1, <2>2, <2>3 DEF Owes, PlannerTyped
  <2>5. phase'[s] = "proposed" /\ Busy'
    <3>1. ~TakeQuestion /\ ~TakeBlueprint
      BY <2>1 DEF TakeQuestion, TakeBlueprint, Took
    <3> QED
      BY <1>6, <1>11, <1>14, <2>3, <3>1
  <2>6. Stage(s)'
    BY <2>3, <2>4, <2>5 DEF Stage
  <2> QED
    BY <1>6, <2>6, NamedStage
<1> QED
  BY <1>5, <1>15, <1>16, <1>17 DEF Take

\* A generation ends with one message for the conversation that waits for it.
LEMMA GenerationStage ==
  ASSUME Turns, NEW s \in Session, GenerationEnds(s), Stage(s)
  PROVE  Stage(s)'
<1>1. PlannerTyped /\ inbox \in Seq(Mail)
  BY TypeGroups DEF Turns, Typed, PlannerTyped
<1>2. /\ generations[s] > 0 /\ generations' = [generations EXCEPT ![s] = @ - 1]
      /\ UNCHANGED <<live, phase, answers, verdicts>>
  BY DEF GenerationEnds, planner, channels
<1>3. phase[s] = "proposed" /\ NoMail(s) /\ Owes(s, 0, 0, 1) /\ Busy
  BY <1>2 DEF Stage, Owes
<1>4. PICK kind \in {"generated", "rejected", "blocked"} : Reports(s, kind)
  BY DEF GenerationEnds
<1>5. OneMail(s, {"generated", "rejected", "blocked"})'
  BY <1>1, <1>3, <1>4, OwnMail DEF Kinds
<1>6. Owes(s, 0, 0, 0)'
  BY <1>1, <1>2, <1>3 DEF Owes, PlannerTyped
<1>7. Busy' /\ phase'[s] = "proposed"
  BY <1>2, <1>3 DEF Busy
<1> QED
  BY <1>5, <1>6, <1>7 DEF Stage

LEMMA StagedStep ==
  ASSUME Turns, [Next]_vars
  PROVE  Staged'
<1> SUFFICES ASSUME live' # Nothing, live'.session # 0, ~crossed'
             PROVE  Stage(live.session)'
  BY DEF Staged
<1>1. OperatorTyped /\ PlannerTyped
  BY TypeGroups DEF Turns, Typed
<1>2. CASE Operator
  BY <1>2, OperatorStage
<1>3. CASE Take
  BY <1>3, TakeStage
<1>4. CASE Tick
  <2>1. live \in Tab /\ live # Nothing /\ live' = [live EXCEPT !.dirty = FALSE]
        /\ UNCHANGED <<phase, inbox, answers, verdicts, generations, crossed>>
    BY <1>1, <1>4 DEF Tick, OperatorTyped, planner, channels, history
  <2>2. live'.session = live.session /\ live'.conversation = live.conversation
        /\ live'.waiting = live.waiting /\ live'.generating = live.generating
    BY <2>1 DEF Tab
  <2>3. Stage(live.session)
    BY <2>1, <2>2 DEF Turns, Staged
  <2>4. Busy => Busy'
    BY <2>1, <2>2 DEF Busy
  <2> DEFINE s == live.session
  <2> HIDE DEF s
  <2>5. Stage(s)
    BY <2>3 DEF s
  <2>6. phase'[s] = phase[s] /\ answers'[s] = answers[s] /\ verdicts'[s] = verdicts[s]
        /\ generations'[s] = generations[s] /\ inbox' = inbox
    BY <2>1
  <2>7. live'.session = s
    BY <2>2 DEF s
  <2> QED
    BY <2>4, <2>5, <2>6, <2>7 DEF Stage, NoMail, OneMail, Owes
<1>5. ASSUME NEW t \in Session, SessionStep(t) \/ GenerationEnds(t) PROVE Stage(live.session)'
  <2>1. UNCHANGED <<live, crossed>>
    BY <1>5
    DEF SessionStep, Ask, Propose, TurnFails, Malformed, ReadAnswer, ReadVerdict, HungUp, Over,
        GenerationEnds, Elsewhere, history
  <2>2. live.session \in Session /\ Stage(live.session)
    BY <1>1, <2>1 DEF OperatorTyped, Tab, Session, Turns, Staged
  <2>3. ASSUME NEW s \in Session, s = live.session PROVE Stage(s)'
    <3>1. Stage(s) /\ Held(s)
      BY <2>1, <2>2, <2>3 DEF Held
    <3>2. CASE t = s
      BY <1>5, <3>1, <3>2, OwnStage, GenerationStage
    <3>3. CASE t # s
      <4>1. PICK kind \in Kinds : Reports(t, kind) \/ UNCHANGED inbox
        BY <1>5
        DEF SessionStep, Ask, Propose, TurnFails, Malformed, ReadAnswer, ReadVerdict, HungUp,
            Over,
            GenerationEnds, Kinds
      <4>2. phase'[s] = phase[s]
        BY <1>1, <1>5, <3>3
        DEF SessionStep, Ask, Propose, TurnFails, Malformed, ReadAnswer, ReadVerdict, HungUp,
            Over,
            GenerationEnds, planner, PlannerTyped
      <4>3. answers'[s] = answers[s] /\ verdicts'[s] = verdicts[s]
        BY <1>1, <1>5, <3>3
        DEF SessionStep, Ask, Propose, TurnFails, Malformed, ReadAnswer, ReadVerdict, HungUp,
            Over,
            GenerationEnds, channels, PlannerTyped
      <4>4. generations'[s] = generations[s]
        BY <1>1, <1>5, <3>3
        DEF SessionStep, Ask, Propose, TurnFails, Malformed, ReadAnswer, ReadVerdict, HungUp,
            Over,
            GenerationEnds, Elsewhere, PlannerTyped
      <4>5. Busy => Busy'
        BY <2>1 DEF Busy
      <4> QED
        BY <1>1, <3>1, <3>3, <4>1, <4>2, <4>3, <4>4, <4>5, OtherStage DEF PlannerTyped
    <3> QED
      BY <3>2, <3>3
  <2>4. live'.session = live.session
    BY <2>1
  <2> QED
    BY <2>2, <2>3, <2>4 DEF Stage, NoMail, OneMail, Owes
<1>6. CASE UNCHANGED vars
  <2>1. Stage(live.session)
    BY <1>6 DEF vars, Turns, Staged
  <2> QED
    BY <1>6, <2>1 DEF vars, Stage, NoMail, OneMail, Owes, Busy
<1> QED
  BY <1>2, <1>3, <1>4, <1>5, <1>6 DEF Next

LEMMA TurnsStep == Turns /\ [Next]_vars => Turns'
<1> QED
  BY TypedStep, UnstartedStep, StagedStep DEF Turns

\* In a tab that heard only its own session, the operator may speak
\* exactly when the planner waits for an answer, and no message or verdict is
\* left over for a question or a blueprint that comes later.
THEOREM OperatorAnswers == Spec => []AnswersItsQuestion
<1> QED
  BY TurnsInit, TurnsStep, TurnsAnswer, PTL DEF Spec
=============================================================================
