--------------------------- MODULE PlanAuthoring ---------------------------
(***************************************************************************)
(* The conversation in which the operator and a planner agent draft a plan *)
(* (makina/src/app.rs, PlanAuthoring; event.rs, resolve_io and              *)
(* spawn_plan_authoring; authoring_session.rs).  The terminal's event loop *)
(* owns one live conversation.  A planner session and a bundle generation  *)
(* run as tasks of their own and report through the loop's background      *)
(* channel, in messages that do not say which conversation they belong to. *)
(* A transcript is the set of the operator's messages: what the planner    *)
(* says only marks the conversation dirty.                                 *)
(***************************************************************************)
EXTENDS Naturals, Sequences, FiniteSets, SequencesExt

CONSTANTS
  Project,           \* project roots
  MaxConversations,  \* bound: conversations started
  MaxSessions,       \* bound: planner sessions spawned
  MaxSubmits,        \* bound: messages submitted
  MaxLost,           \* bound: conversations left when a write of theirs had failed
  MaxRepairs,        \* PLAN_AUTHOR_REPAIR_ATTEMPTS
  MaxRejections,     \* PLAN_AUTHOR_GENERATION_ATTEMPTS
  Nothing            \* no conversation, no record

Conversation == 1..MaxConversations
Session      == 1..MaxSessions
Message      == 1..MaxSubmits

Tab ==
  [conversation : Conversation, project : Project, session : 0..MaxSessions,
   waiting : BOOLEAN, generating : BOOLEAN, dirty : BOOLEAN,
   plans : SUBSET Conversation, log : SUBSET Message]

Record == [project : Project, plans : SUBSET Conversation, log : SUBSET Message]

ASSUME AuthoringAssumption ==
  /\ MaxConversations \in Nat /\ MaxSessions \in Nat /\ MaxSubmits \in Nat
  /\ MaxLost \in Nat /\ MaxRepairs \in Nat /\ MaxRejections \in Nat
  /\ Nothing \notin Tab \cup Record

VARIABLES
  live,         \* App::plan_authoring
  disk,         \* conversation -> its record under .makina/authoring
  written,      \* conversations on disk, in the order of updated_at
  begun,        \* conversations started so far
  submits,      \* messages submitted so far
  phase,        \* where each planner session stands
  about,        \* the conversation and the project a session was spawned for
  repairs,      \* malformed replies since the last usable one
  rejections,   \* blueprints the session had rejected
  answers,      \* queued on the session's answer channel
  verdicts,     \* queued on the session's rejection channel
  generations,  \* bundle generations that run for a session's blueprints
  inbox,        \* the background channel
  published,    \* the plans generated, each named after who asked for it
  said,         \* history: what the operator said in each conversation
  crossed,      \* history: the tab was told something meant for another session
  overwritten,  \* history: conversations resumed from a record read too early
  failed,       \* history: the last write of the live conversation failed
  lost          \* history: conversations left after a write of theirs had failed

vars == <<live, disk, written, begun, submits, phase, about, repairs, rejections,
          answers, verdicts, generations, inbox, published, said, crossed,
          overwritten, failed, lost>>

store    == <<disk, written>>
planner  == <<phase, about, repairs, rejections>>
channels == <<answers, verdicts>>
unkept   == <<failed, lost>>
history  == <<said, overwritten, unkept>>

Phases == {"none", "turn", "asked", "proposed", "over"}
Kinds  == {"question", "failed", "blueprint", "generated", "rejected", "blocked"}

TypeOK ==
  /\ live \in {Nothing} \cup Tab
  /\ disk \in [Conversation -> {Nothing} \cup Record]
  /\ written \in Seq(Conversation)
  /\ begun \in 0..MaxConversations /\ submits \in 0..MaxSubmits
  /\ phase \in [Session -> Phases]
  /\ about \in [Session -> {Nothing} \cup [conversation : Conversation, project : Project]]
  /\ repairs \in [Session -> 0..MaxRepairs]
  /\ rejections \in [Session -> 0..MaxRejections]
  /\ answers \in [Session -> Nat] /\ verdicts \in [Session -> Nat]
  /\ generations \in [Session -> Nat]
  /\ inbox \in Seq([kind : Kinds, session : Session])
  /\ published \subseteq [conversation : Conversation, project : Project]
  /\ said \in [Conversation -> SUBSET Message]
  /\ crossed \in BOOLEAN /\ overwritten \subseteq Conversation
  /\ failed \in BOOLEAN /\ lost \subseteq Conversation

Fresh(c, project) ==
  [conversation |-> c, project |-> project, session |-> 0, waiting |-> FALSE,
   generating |-> FALSE, dirty |-> FALSE, plans |-> {}, log |-> {}]

Resumed(c, record) ==
  [Fresh(c, record.project) EXCEPT !.plans = record.plans, !.log = record.log]

\* A plausible bug: a bundle being generated does not count.
BusyWaitingOnly == live # Nothing /\ live.waiting

Busy == live # Nothing /\ (live.waiting \/ live.generating)

\* The planner's end of the channels is open.
Listening(s) == phase[s] \notin {"none", "over"}

\* The conversation holds the session's sending ends.
Held(s) == live # Nothing /\ live.session = s

Init ==
  /\ live = Nothing
  /\ disk = [c \in Conversation |-> Nothing]
  /\ written = <<>> /\ begun = 0 /\ submits = 0
  /\ phase = [s \in Session |-> "none"]
  /\ about = [s \in Session |-> Nothing]
  /\ repairs = [s \in Session |-> 0]
  /\ rejections = [s \in Session |-> 0]
  /\ answers = [s \in Session |-> 0]
  /\ verdicts = [s \in Session |-> 0]
  /\ generations = [s \in Session |-> 0]
  /\ inbox = <<>>
  /\ published = {}
  /\ said = [c \in Conversation |-> {}]
  /\ crossed = FALSE /\ overwritten = {}
  /\ failed = FALSE /\ lost = {}

-----------------------------------------------------------------------------
(* The records on disk. *)

\* save_authoring_session: writes a conversation that changed since it was
\* last written.
Saved ==
  IF live # Nothing /\ live.dirty
  THEN [disk EXCEPT ![live.conversation] =
          [project |-> live.project, plans |-> live.plans, log |-> live.log]]
  ELSE disk

\* An order without the place of a conversation that is in it.
Without(order, c) ==
  IF \E i \in 1..Len(order) : order[i] = c
  THEN RemoveAt(order, CHOOSE i \in 1..Len(order) : order[i] = c)
  ELSE order

SavedOrder ==
  IF live # Nothing /\ live.dirty
  THEN Append(Without(written, live.conversation), live.conversation)
  ELSE written

\* The write may fail: the records stay as they are, `dirty' is cleared all the
\* same, and the error is only logged.
Save(ok) ==
  /\ ~ok => live # Nothing /\ live.dirty /\ Cardinality(lost) < MaxLost
  /\ disk' = IF ok THEN Saved ELSE disk
  /\ written' = IF ok THEN SavedOrder ELSE written

\* The tab has words that its last write failed to put on disk.
Unwritten(ok) == live # Nothing /\ IF live.dirty THEN ~ok ELSE failed

\* The tab is closed or displaced, whatever became of the write.  The next one
\* has heard nothing yet.
Leave(ok) ==
  /\ Save(ok)
  /\ failed' = FALSE
  /\ crossed' = FALSE
  /\ lost' = IF Unwritten(ok) THEN lost \cup {live.conversation} ELSE lost

\* load_all lists the records newest first; 0 when none is wanted.
Newest(order, wanted) ==
  LET newest(i) == order[i] \in wanted /\ \A j \in i + 1..Len(order) : order[j] \notin wanted
  IN  IF \E i \in 1..Len(order) : newest(i)
      THEN order[CHOOSE i \in 1..Len(order) : newest(i)]
      ELSE 0

LatestUnfinished(records, order, project) ==
  Newest(order, {c \in Conversation : /\ records[c] # Nothing
                                      /\ records[c].project = project
                                      /\ records[c].plans = {}})

ForPlan(records, order, project, plan) ==
  Newest(order, {c \in Conversation : /\ records[c] # Nothing
                                      /\ records[c].project = project
                                      /\ plan \in records[c].plans})

-----------------------------------------------------------------------------
(* The operator. *)

\* The tick of the loop.
Tick ==
  /\ live # Nothing /\ live.dirty
  /\ \E ok \in BOOLEAN : Save(ok) /\ failed' = ~ok
  /\ live' = [live EXCEPT !.dirty = FALSE]
  /\ UNCHANGED <<begun, submits, planner, channels, generations, inbox, published, said,
                 crossed, overwritten, lost>>

Begin(project) ==
  /\ begun < MaxConversations
  /\ begun' = begun + 1
  /\ live' = Fresh(begun + 1, project)

\* OpenPlanAuthoring for a project the tab is not about: whatever it held is
\* written, and the project's newest unfinished conversation is resumed.
Open(project) ==
  /\ live # Nothing => live.project # project
  /\ \E ok \in BOOLEAN : Leave(ok)
  /\ LET c == LatestUnfinished(disk', written', project)
     IN  IF c = 0 THEN Begin(project)
         ELSE live' = Resumed(c, disk'[c]) /\ UNCHANGED begun
  /\ UNCHANGED <<submits, planner, channels, generations, inbox, published, said,
                 overwritten>>

New(project) ==
  /\ \E ok \in BOOLEAN : Leave(ok)
  /\ Begin(project)
  /\ UNCHANGED <<submits, planner, channels, generations, inbox, published, said,
                 overwritten>>

\* ResumePlanConversation for a plan in context: the record is read first, and
\* only then is the live conversation written.
Reopen(plan) ==
  LET c == ForPlan(disk, written, plan.project, plan.conversation)
  IN  /\ c # 0
      /\ \E ok \in BOOLEAN : Leave(ok)
      /\ live' = Resumed(c, disk[c])
      /\ overwritten' = IF disk'[c] = disk[c] THEN overwritten ELSE overwritten \cup {c}
      /\ UNCHANGED <<begun, submits, planner, channels, generations, inbox, published,
                     said>>

\* A plausible bug: Esc closes the tab without writing it.
CloseUnsaved ==
  /\ live # Nothing
  /\ live' = Nothing
  /\ UNCHANGED <<store, begun, submits, planner, channels, generations, inbox, published,
                 crossed, history>>

Close ==
  /\ live # Nothing
  /\ \E ok \in BOOLEAN : Leave(ok)
  /\ live' = Nothing
  /\ UNCHANGED <<begun, submits, planner, channels, generations, inbox, published, said,
                 overwritten>>

\* What every submission does before it looks for the planner.
Spoken == [live EXCEPT !.log = @ \cup {submits + 1}, !.dirty = TRUE, !.waiting = TRUE]

Speaks ==
  /\ live # Nothing /\ ~Busy
  /\ submits < MaxSubmits
  /\ submits' = submits + 1
  /\ said' = [said EXCEPT ![live.conversation] = @ \cup {submits + 1}]
  /\ UNCHANGED <<store, begun, repairs, rejections, verdicts, generations, inbox, published,
                 overwritten, unkept>>

\* The live session takes the message as the answer to its question.
SubmitAnswer ==
  /\ Speaks
  /\ live.session # 0 /\ Listening(live.session)
  /\ live' = Spoken
  /\ answers' = [answers EXCEPT ![live.session] = @ + 1]
  /\ UNCHANGED <<phase, about, crossed>>

\* The session is gone: the operator has to submit again.
SubmitToEnded ==
  /\ Speaks
  /\ live.session # 0 /\ ~Listening(live.session)
  /\ live' = [Spoken EXCEPT !.waiting = FALSE, !.session = 0]
  /\ UNCHANGED <<phase, about, answers, crossed>>

\* No session: a new one gets the transcript as its first prompt.
SubmitOpening(s) ==
  /\ Speaks
  /\ live.session = 0
  /\ phase[s] = "none" /\ \A r \in Session : r < s => phase[r] # "none"
  /\ live' = [Spoken EXCEPT !.session = s]
  /\ phase' = [phase EXCEPT ![s] = "turn"]
  /\ about' = [about EXCEPT ![s] =
                 [conversation |-> live.conversation, project |-> live.project]]
  /\ crossed' = FALSE
  /\ UNCHANGED answers

\* No planner backend or model is configured.
SubmitUnconfigured ==
  /\ Speaks
  /\ live.session = 0
  /\ live' = [Spoken EXCEPT !.waiting = FALSE]
  /\ UNCHANGED <<phase, about, answers, crossed>>

-----------------------------------------------------------------------------
(* A planner session. *)

Reports(s, kind) == inbox' = Append(inbox, [kind |-> kind, session |-> s])

Elsewhere == <<live, store, begun, submits, generations, published, crossed, history>>

\* The task ends, and its counters with it.
Over(s) ==
  /\ phase' = [phase EXCEPT ![s] = "over"]
  /\ repairs' = [repairs EXCEPT ![s] = 0]
  /\ rejections' = [rejections EXCEPT ![s] = 0]

Ask(s) ==
  /\ phase[s] = "turn"
  /\ phase' = [phase EXCEPT ![s] = "asked"]
  /\ repairs' = [repairs EXCEPT ![s] = 0]
  /\ Reports(s, "question")
  /\ UNCHANGED <<Elsewhere, about, rejections, channels>>

Propose(s) ==
  /\ phase[s] = "turn"
  /\ phase' = [phase EXCEPT ![s] = "proposed"]
  /\ repairs' = [repairs EXCEPT ![s] = 0]
  /\ Reports(s, "blueprint")
  /\ UNCHANGED <<Elsewhere, about, rejections, channels>>

\* The agent cannot be started, the turn fails.
TurnFails(s) ==
  /\ phase[s] = "turn"
  /\ Over(s)
  /\ Reports(s, "failed")
  /\ UNCHANGED <<Elsewhere, about, channels>>

\* plan_author_recovery
Malformed(s) ==
  /\ phase[s] = "turn"
  /\ IF repairs[s] < MaxRepairs
     THEN /\ repairs' = [repairs EXCEPT ![s] = @ + 1]
          /\ UNCHANGED <<phase, rejections, inbox>>
     ELSE /\ Over(s)
          /\ Reports(s, "failed")
  /\ UNCHANGED <<Elsewhere, about, channels>>

ReadAnswer(s) ==
  /\ phase[s] = "asked" /\ answers[s] > 0
  /\ answers' = [answers EXCEPT ![s] = @ - 1]
  /\ phase' = [phase EXCEPT ![s] = "turn"]
  /\ UNCHANGED <<Elsewhere, about, repairs, rejections, verdicts, inbox>>

\* plan_generation_recovery
ReadVerdict(s) ==
  /\ phase[s] = "proposed" /\ verdicts[s] > 0
  /\ verdicts' = [verdicts EXCEPT ![s] = @ - 1]
  /\ IF rejections[s] < MaxRejections
     THEN /\ rejections' = [rejections EXCEPT ![s] = @ + 1]
          /\ phase' = [phase EXCEPT ![s] = "turn"]
          /\ UNCHANGED <<repairs, inbox>>
     ELSE /\ Over(s)
          /\ Reports(s, "failed")
  /\ UNCHANGED <<Elsewhere, about, answers>>

\* A plausible bug: a session that waits for a verdict does not notice.
HungUpAsked(s) ==
  /\ ~Held(s)
  /\ phase[s] = "asked" /\ answers[s] = 0
  /\ Over(s)
  /\ UNCHANGED <<Elsewhere, about, channels, inbox>>

\* The conversation dropped its ends and the channel is drained.
HungUp(s) ==
  /\ ~Held(s)
  /\ \/ phase[s] = "asked" /\ answers[s] = 0
     \/ phase[s] = "proposed" /\ verdicts[s] = 0
  /\ Over(s)
  /\ UNCHANGED <<Elsewhere, about, channels, inbox>>

SessionStep(s) ==
  \/ Ask(s) \/ Propose(s) \/ TurnFails(s) \/ Malformed(s)
  \/ ReadAnswer(s) \/ ReadVerdict(s) \/ HungUp(s)

-----------------------------------------------------------------------------
(* A bundle generation. *)

GenerationEnds(s) ==
  /\ generations[s] > 0
  /\ generations' = [generations EXCEPT ![s] = @ - 1]
  /\ \/ /\ Reports(s, "generated")
        /\ published' = published \cup {about[s]}
     \/ /\ Reports(s, "rejected")
        /\ UNCHANGED published
     \/ /\ Reports(s, "blocked")
        /\ UNCHANGED published
  /\ UNCHANGED <<live, store, begun, submits, planner, channels, crossed, history>>

-----------------------------------------------------------------------------
(* The event loop takes the next message; it is told to whichever          *)
(* conversation is live.                                                   *)

Took(kind) ==
  /\ inbox # <<>> /\ Head(inbox).kind = kind
  /\ inbox' = Tail(inbox)
  /\ crossed' = (crossed \/ (live # Nothing /\ live.session # Head(inbox).session))
  /\ UNCHANGED <<store, begun, submits, planner, answers, published, said, overwritten,
                 unkept>>

Told(update) == live' = IF live = Nothing THEN Nothing ELSE update

\* A plausible bug: the generation flag survives the failure.
HandedOverBusy(conversation) ==
  [conversation EXCEPT !.waiting = FALSE, !.session = 0, !.dirty = TRUE]

HandedOver(conversation) ==
  [conversation EXCEPT !.waiting = FALSE, !.generating = FALSE, !.session = 0, !.dirty = TRUE]

TakeQuestion ==
  /\ Took("question")
  /\ Told([live EXCEPT !.waiting = FALSE, !.dirty = TRUE])
  /\ UNCHANGED <<verdicts, generations>>

TakeFailure ==
  /\ Took("failed")
  /\ Told(HandedOver(live))
  /\ UNCHANGED <<verdicts, generations>>

TakeBlueprint ==
  /\ Took("blueprint")
  /\ Told([live EXCEPT !.waiting = FALSE, !.generating = TRUE])
  /\ generations' = [generations EXCEPT ![Head(inbox).session] = @ + 1]
  /\ UNCHANGED verdicts

TakePlan ==
  /\ Took("generated")
  /\ Told([HandedOver(live) EXCEPT !.plans = @ \cup {about[Head(inbox).session].conversation}])
  /\ UNCHANGED <<verdicts, generations>>

\* blueprint_fault: the fault is the planner's to correct, if one listens.
TakeRejection ==
  /\ Took("rejected")
  /\ IF live # Nothing /\ live.session # 0 /\ Listening(live.session)
     THEN /\ live' = [live EXCEPT !.generating = FALSE, !.waiting = TRUE, !.dirty = TRUE]
          /\ verdicts' = [verdicts EXCEPT ![live.session] = @ + 1]
     ELSE /\ Told(HandedOver(live))
          /\ UNCHANGED verdicts
  /\ UNCHANGED generations

TakeBlocked ==
  /\ Took("blocked")
  /\ Told(HandedOver(live))
  /\ UNCHANGED <<verdicts, generations>>

Take == TakeQuestion \/ TakeFailure \/ TakeBlueprint \/ TakePlan \/ TakeRejection \/ TakeBlocked

-----------------------------------------------------------------------------
Operator ==
  \/ \E p \in Project : Open(p) \/ New(p)
  \/ \E plan \in published : Reopen(plan)
  \/ Close \/ SubmitAnswer \/ SubmitToEnded \/ SubmitUnconfigured
  \/ \E s \in Session : SubmitOpening(s)

Next ==
  \/ Operator \/ Tick \/ Take
  \/ \E s \in Session : SessionStep(s) \/ GenerationEnds(s)

Spec == Init /\ [][Next]_vars

\* The session's task goes on without the agent: it has a message to read, or
\* its channel is closed.
Resumes(s) == ReadAnswer(s) \/ ReadVerdict(s) \/ HungUp(s)

\* The loop and the tasks run, generations end.  Nothing ends a planner's turn.
Fairness ==
  /\ WF_vars(Take)
  /\ \A s \in Session : WF_vars(Resumes(s)) /\ WF_vars(GenerationEnds(s))

FairSpec == Spec /\ Fairness

-----------------------------------------------------------------------------
(* Properties. *)

Kept(c) ==
  (IF disk[c] = Nothing THEN {} ELSE disk[c].log)
    \cup (IF live # Nothing /\ live.conversation = c THEN live.log ELSE {})

\* What the operator said in a conversation is in the tab or on disk, however
\* conversations displace each other, but for two cases: the tab was left when
\* its last write had failed, or the conversation was reopened from a record
\* that was read before its last words were written.
TranscriptKept ==
  \A c \in Conversation \ (overwritten \cup lost) : said[c] \subseteq Kept(c)

\* In a tab that heard only its own session, the operator may speak
\* exactly when the planner waits for an answer, no message waits for a later
\* question, and no verdict for a later blueprint.
AnswersItsQuestion ==
  live # Nothing /\ live.session # 0 /\ ~crossed =>
    LET s == live.session IN
      /\ ~Busy => phase[s] = "asked" /\ answers[s] = 0
      /\ answers[s] > 0 => phase[s] = "asked" /\ answers[s] = 1
      /\ verdicts[s] > 0 => phase[s] = "proposed" /\ verdicts[s] = 1

\* The planner of the live conversation works on a turn.
InTurn == live # Nothing /\ live.session # 0 /\ phase[live.session] = "turn"

\* A tab that heard only its own session does not stay busy, unless
\* its planner stays in one turn.
BusyEnds ==
  \/ []<>(~Busy \/ crossed)
  \/ <>[]InTurn

\* A planner session whose conversation has let go of it ends, whatever it is
\* told meanwhile, unless it stays in one turn: no agent is left waiting for an
\* answer or a verdict behind a closed or displaced tab.
SessionsEnd ==
  \A s \in Session :
    \/ []<>(Listening(s) => Held(s))
    \/ <>[](phase[s] = "turn")

\* app.rs: the operator hears of a conversation that cannot be persisted before
\* the tab is closed.  So none is left with words that were not written.
FailureHeard == lost = {}

\* authoring_session.rs: a conversation that produced a plan stays reachable
\* through it.
PlanReachable ==
  \A plan \in published :
    LET c == plan.conversation IN
    \/ \E i \in DOMAIN inbox :
         inbox[i].kind = "generated" /\ about[inbox[i].session] = plan
    \/ live # Nothing /\ live.conversation = c /\ c \in live.plans
    \/ disk[c] # Nothing /\ c \in disk[c].plans
=============================================================================
