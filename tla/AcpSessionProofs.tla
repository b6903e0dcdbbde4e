--------------------------- MODULE AcpSessionProofs ---------------------------
(* Theorems about AcpSession, for every number of control requests, turns    *)
(* and updates, every capacity of the channels and whatever the agent forks. *)
EXTENDS AcpSession, SequenceTheorems, TLAPS

-----------------------------------------------------------------------------
(* Queues.                                                                   *)

LEMMA TailFacts ==
  ASSUME NEW S, NEW s \in Seq(S), s # <<>>
  PROVE  /\ Len(s) \in Nat /\ Len(s) >= 1
         /\ Head(s) = s[1] /\ Head(s) \in S
         /\ Tail(s) \in Seq(S) /\ Len(Tail(s)) = Len(s) - 1
         /\ \A i \in 1..Len(s) - 1 : Tail(s)[i] = s[i + 1]
<1>1. Len(s) \in Nat /\ Len(s) >= 1
  BY EmptySeq
<1>2. Head(s) = s[1] /\ Head(s) \in S /\ Tail(s) \in Seq(S) /\ Len(Tail(s)) = Len(s) - 1
  BY HeadTailProperties, ElementOfSeq, <1>1
<1>3. \A i \in 1..Len(s) - 1 : Tail(s)[i] = s[i + 1]
  BY HeadTailProperties
<1> QED
  BY <1>1, <1>2, <1>3

LEMMA AppendFacts ==
  ASSUME NEW S, NEW s \in Seq(S), NEW e \in S
  PROVE  /\ Len(s) \in Nat
         /\ Append(s, e) \in Seq(S) /\ Len(Append(s, e)) = Len(s) + 1
         /\ Append(s, e)[Len(s) + 1] = e
         /\ \A i \in 1..Len(s) : Append(s, e)[i] = s[i]
BY AppendProperties

LEMMA EmptyFacts == ASSUME NEW S PROVE <<>> \in Seq(S) /\ Len(<<>>) = 0
BY EmptySeq

-----------------------------------------------------------------------------
(* Types.                                                                    *)

Event == Update \cup [what : {"complete", "error"}]

\* A request under way has a number.
ReqNamed == req.step # "none" => req.id \in Id

\* A turn that is about to start has a number left.
PromptBounded == caller = "prompting" => turn < MaxTurns

Typed == TypeOK /\ ReqNamed /\ PromptBounded

LEMMA Constants ==
  /\ Controls \in Nat /\ Controls >= 1 /\ MaxTurns \in Nat /\ MaxChunks \in Nat
  /\ EventCap \in Nat /\ EventCap >= 1 /\ OutCap \in Nat /\ OutCap >= 1
  /\ Kids \subseteq {"mild", "stubborn"}
BY AcpAssumption

LEMMA TypedInit == Init => Typed
<1> SUFFICES ASSUME Init PROVE Typed
  OBVIOUS
<1>1. 0 \in 0..MaxChunks /\ 0 \in 0..MaxTurns
  BY Constants
<1>2. /\ stdin \in Seq(Inbound) /\ stdout \in Seq(Outbound) /\ Len(stdout) <= OutCap
      /\ notes \in Seq(Update) /\ buffered \in Seq(Update) /\ got \in Seq(Update)
      /\ events \in Seq(Event) /\ Len(events) <= EventCap
  BY Constants, EmptyFacts DEF Init
<1> QED
  BY <1>1, <1>2 DEF Init, Typed, TypeOK, Event, NoReq, ReqNamed, PromptBounded

\* The queues and what is in them.
LEMMA MessageFacts ==
  /\ \A m \in Outbound : m.what = "update" => m \in Update
  /\ \A m \in Outbound : m.what = "response" => m.id \in Id
  /\ \A m \in Inbound : m.what = "request" => m.id \in Id
  /\ \A t \in 1..MaxTurns, n \in 1..MaxChunks :
       LET u == [what |-> "update", turn |-> t, n |-> n] IN u \in Update /\ u \in Outbound
  /\ \A i \in Id, ok \in BOOLEAN : [what |-> "response", id |-> i, ok |-> ok] \in Outbound
  /\ [what |-> "permission"] \in Outbound
  /\ \A i \in Id : [what |-> "request", id |-> i] \in Inbound
  /\ [what |-> "answer"] \in Inbound /\ [what |-> "cancel"] \in Inbound
  /\ Update \subseteq Event /\ Update \subseteq Outbound
  /\ [what |-> "complete"] \in Event /\ [what |-> "error"] \in Event
  /\ \A e \in Event : e.what \in {"update", "complete", "error"}
  /\ \A e \in Event : e.what = "update" => e \in Update
<1>1. \A m \in Outbound : m.what = "update" => m \in Update
  BY DEF Outbound, Update
<1>2. \A m \in Outbound : m.what = "response" => m.id \in Id
  BY DEF Outbound, Update
<1>3. \A m \in Inbound : m.what = "request" => m.id \in Id
  BY DEF Inbound
<1>4. \A t \in 1..MaxTurns, n \in 1..MaxChunks :
        LET u == [what |-> "update", turn |-> t, n |-> n] IN u \in Update /\ u \in Outbound
  BY DEF Outbound, Update
<1>5. \A i \in Id, ok \in BOOLEAN : [what |-> "response", id |-> i, ok |-> ok] \in Outbound
  BY DEF Outbound
<1>6. [what |-> "permission"] \in Outbound
  BY DEF Outbound
<1>7. /\ \A i \in Id : [what |-> "request", id |-> i] \in Inbound
      /\ [what |-> "answer"] \in Inbound /\ [what |-> "cancel"] \in Inbound
  BY DEF Inbound
<1>8. Update \subseteq Event /\ Update \subseteq Outbound
  BY DEF Event, Outbound
<1>9. [what |-> "complete"] \in Event /\ [what |-> "error"] \in Event
  BY DEF Event
<1>10. /\ \A e \in Event : e.what \in {"update", "complete", "error"}
       /\ \A e \in Event : e.what = "update" => e \in Update
  BY DEF Event, Update
<1> QED
  BY <1>1, <1>2, <1>3, <1>4, <1>5, <1>6, <1>7, <1>8, <1>9, <1>10

LEMMA IdNat == \A i \in {0} \cup Id : i \in Nat
BY DEF Id

LEMMA IdFacts ==
  /\ Id \subseteq Nat /\ 0 \notin Id /\ 1 \in Id
  /\ \A i \in Nat : i < Controls => i + 1 \in Id
  /\ \A t \in Nat : t < MaxTurns => PromptOf(t + 1) \in Id
  /\ \A i \in Id : i > Controls => i - Controls \in 1..MaxTurns
BY Constants DEF Id, PromptOf

\* The types by group, as the frames of the actions name them.
AgentTyped ==
  /\ owes \in {0} \cup Id /\ asked \in BOOLEAN
  /\ sent \in [1..MaxTurns -> 0..MaxChunks] /\ muted \in BOOLEAN
  /\ stdin \in Seq(Inbound) /\ stdout \in Seq(Outbound) /\ Len(stdout) <= OutCap

GroupTyped ==
  /\ leader \in {"none", "up", "dead"} /\ kid \in {"none", "mild", "stubborn"}
  /\ registered \in BOOLEAN

LinkTyped ==
  /\ reader \in {"none", "reading", "answering", "writing", "eof", "marked", "stopped"}
  /\ ended \in BOOLEAN /\ pending \subseteq Id
  /\ outcome \in [Id -> {"none", "ok", "error"}] /\ notes \in Seq(Update)

TurnTyped ==
  /\ req \in [step : {"none", "check", "insert", "write", "writing", "wait", "failed"},
              id : {0} \cup Id]
  /\ worker \in {"none", "streaming", "polled", "flushing", "stopping"}
  /\ buffered \in Seq(Update)
  /\ events \in Seq(Event) /\ Len(events) <= EventCap
  /\ got \in Seq(Update) /\ turn \in 0..MaxTurns

CallerTyped ==
  /\ app \in {"running", "reaping", "reaped", "exited"}
  /\ caller \in {"new", "spawned", "connecting", "idle", "prompting", "draining",
                 "cancelling", "reclaiming", "aborting", "closing", "grace", "over",
                 "dropped"}
  /\ client \in {"none", "session", "worker", "returned"}

LEMMA TypeGroups ==
  TypeOK <=> AgentTyped /\ GroupTyped /\ LinkTyped /\ TurnTyped /\ CallerTyped
BY DEF TypeOK, AgentTyped, GroupTyped, LinkTyped, TurnTyped, CallerTyped, Event

LEMMA TypeGroupsNext ==
  AgentTyped' /\ GroupTyped' /\ LinkTyped' /\ TurnTyped' /\ CallerTyped' => TypeOK'
BY DEF TypeOK, AgentTyped, GroupTyped, LinkTyped, TurnTyped, CallerTyped, Event

LEMMA AgentFrame ==
  ASSUME AgentStep
  PROVE  UNCHANGED <<app, registered, linkVars, turnVars, caller, client>>
<1>1. ASSUME NEW ok \in BOOLEAN, AgentAnswers(ok)
      PROVE  UNCHANGED <<app, registered, linkVars, turnVars, caller, client>>
  BY <1>1 DEF AgentAnswers, Says, groupVars
<1>2. ASSUME NEW k \in Kids, AgentForks(k)
      PROVE  UNCHANGED <<app, registered, linkVars, turnVars, caller, client>>
  BY <1>2 DEF AgentForks
<1>3. CASE AgentReads \/ AgentCloses \/ AgentExits
  BY <1>3 DEF AgentReads, AgentCloses, AgentExits, groupVars
<1>4. CASE AgentUpdates \/ AgentAsks
  BY <1>4 DEF AgentUpdates, AgentAsks, Says, groupVars
<1> QED
  BY <1>1, <1>2, <1>3, <1>4 DEF AgentStep

\* An agent's step keeps the types.
LEMMA AgentTypedStep ==
  ASSUME Typed, AgentStep
  PROVE  Typed'
<1> USE DEF Typed, groupVars, linkVars, turnVars
<1>1. AgentTyped /\ GroupTyped /\ LinkTyped /\ TurnTyped /\ CallerTyped
  BY TypeGroups
<1>2. LinkTyped' /\ TurnTyped' /\ CallerTyped' /\ UNCHANGED <<req, caller, turn>>
  BY <1>1, AgentFrame DEF LinkTyped, TurnTyped, CallerTyped
<1>3. GroupTyped'
  <2>1. ASSUME NEW k \in Kids, AgentForks(k)
        PROVE  GroupTyped'
    BY <1>1, <2>1, Constants DEF GroupTyped, AgentForks
  <2>2. \/ leader' \in {leader, "dead"} /\ kid' = kid
        \/ \E k \in Kids : AgentForks(k)
    BY DEF AgentStep, AgentReads, AgentUpdates, AgentAsks, AgentCloses, AgentExits,
           AgentAnswers, Says
  <2> QED
    BY <1>1, <2>1, <2>2, AgentFrame DEF GroupTyped
<1>4. AgentTyped'
  <2> USE <1>1 DEF AgentTyped
  <2>1. CASE AgentReads
    <3>1. Head(stdin) \in Inbound /\ Tail(stdin) \in Seq(Inbound)
      BY <2>1, TailFacts DEF AgentReads
    <3> QED
      BY <2>1, <3>1, MessageFacts DEF AgentReads
  <2>2. ASSUME NEW m \in Outbound, Says(m)
        PROVE  stdout' \in Seq(Outbound) /\ Len(stdout') <= OutCap /\ UNCHANGED <<muted, stdin>>
    BY <2>2, AppendFacts, Constants DEF Says
  <2>3. CASE AgentUpdates
    <3> DEFINE t == owes - Controls
               u == [what |-> "update", turn |-> t, n |-> sent'[t]]
    <3>1. t \in 1..MaxTurns /\ sent[t] \in 0..MaxChunks /\ sent[t] < MaxChunks
      BY <2>3, IdFacts, Constants DEF AgentUpdates
    <3>2. /\ sent' = [sent EXCEPT ![t] = @ + 1] /\ Says(u) /\ UNCHANGED <<owes, asked>>
      BY <2>3 DEF AgentUpdates
    <3>3. sent'[t] = sent[t] + 1 /\ sent'[t] \in 1..MaxChunks
      BY <3>1, <3>2, Constants
    <3>4. u \in Outbound
      BY <3>1, <3>3, MessageFacts
    <3>5. sent' \in [1..MaxTurns -> 0..MaxChunks]
      BY <3>1, <3>2, Constants
    <3> QED
      BY <2>2, <3>2, <3>4, <3>5
  <2>4. CASE AgentAsks
    BY <2>2, <2>4, MessageFacts DEF AgentAsks
  <2>5. ASSUME NEW ok \in BOOLEAN, AgentAnswers(ok)
        PROVE  AgentTyped'
    <3>1. [what |-> "response", id |-> owes, ok |-> ok] \in Outbound
      BY <2>5, MessageFacts DEF AgentAnswers
    <3> QED
      BY <2>2, <2>5, <3>1 DEF AgentAnswers
  <2>6. CASE AgentCloses \/ AgentExits \/ \E k \in Kids : AgentForks(k)
    BY <2>6 DEF AgentCloses, AgentExits, AgentForks, agentVars
  <2> QED
    BY <2>1, <2>3, <2>4, <2>5, <2>6 DEF AgentStep
<1>5. ReqNamed' /\ PromptBounded'
  BY <1>2 DEF ReqNamed, PromptBounded
<1> QED
  BY <1>2, <1>3, <1>4, <1>5, TypeGroupsNext

LEMMA ReaderTypedStep ==
  ASSUME Typed, ReaderStep
  PROVE  Typed'
<1> USE DEF Typed, groupVars, turnVars
<1>1. AgentTyped /\ GroupTyped /\ LinkTyped /\ TurnTyped /\ CallerTyped
  BY TypeGroups
<1>2. ASSUME UNCHANGED <<app, groupVars, turnVars, caller, client>>, AgentTyped', LinkTyped'
      PROVE  Typed'
  <2>1. GroupTyped' /\ TurnTyped' /\ CallerTyped'
    BY <1>1, <1>2 DEF GroupTyped, TurnTyped, CallerTyped
  <2>2. ReqNamed' /\ PromptBounded'
    BY <1>2 DEF ReqNamed, PromptBounded
  <2> QED
    BY <1>2, <2>1, <2>2, TypeGroupsNext
<1>3. ASSUME stdout # <<>>, stdout' = Tail(stdout), UNCHANGED <<owes, asked, sent, muted, stdin>>
      PROVE  AgentTyped' /\ Head(stdout) \in Outbound
  BY <1>1, <1>3, TailFacts, Constants DEF AgentTyped
<1>4. CASE ReaderUpdates
  <2>1. AgentTyped' /\ Head(stdout) \in Update
    BY <1>3, <1>4, MessageFacts DEF ReaderUpdates
  <2>2. LinkTyped'
    BY <1>1, <1>4, <2>1, AppendFacts DEF ReaderUpdates, LinkTyped
  <2> QED
    BY <1>2, <1>4, <2>1, <2>2 DEF ReaderUpdates
<1>5. CASE ReaderResponds
  <2>1. AgentTyped' /\ Head(stdout).id \in Id
    BY <1>3, <1>5, MessageFacts DEF ReaderResponds
  <2>2. LinkTyped'
    BY <1>1, <1>5, <2>1 DEF ReaderResponds, LinkTyped
  <2> QED
    BY <1>2, <1>5, <2>1, <2>2 DEF ReaderResponds
<1>6. CASE ReaderAsked
  BY <1>1, <1>2, <1>3, <1>6 DEF ReaderAsked, LinkTyped
<1>7. CASE ReaderAnswers
  <2>1. AgentTyped'
    BY <1>1, <1>7, AppendFacts, MessageFacts DEF ReaderAnswers, ReaderAt, AgentTyped
  <2> QED
    BY <1>1, <1>2, <1>7, <2>1 DEF ReaderAnswers, ReaderAt, LinkTyped
<1>8. CASE ReaderEnds \/ ReaderMarks \/ ReaderWakes
  <2>1. AgentTyped'
    BY <1>1, <1>8 DEF ReaderEnds, ReaderMarks, ReaderWakes, AgentTyped, agentVars
  <2>2. LinkTyped'
    BY <1>1, <1>8 DEF ReaderEnds, ReaderMarks, ReaderWakes, LinkTyped
  <2> QED
    BY <1>2, <1>8, <2>1, <2>2 DEF ReaderEnds, ReaderMarks, ReaderWakes
<1>9. CASE ReaderFlushed \/ ReaderBroken
  BY <1>1, <1>2, <1>9 DEF ReaderFlushed, ReaderBroken, ReaderAt, AgentTyped, LinkTyped
<1> QED
  BY <1>4, <1>5, <1>6, <1>7, <1>8, <1>9 DEF ReaderStep

LEMMA RequestTypedStep ==
  ASSUME Typed, RequestStep
  PROVE  Typed'
<1> USE DEF Typed, groupVars
<1>1. AgentTyped /\ GroupTyped /\ LinkTyped /\ TurnTyped /\ CallerTyped
  BY TypeGroups
<1>2. ASSUME NEW step \in {"insert", "write", "writing", "wait", "failed"}, ReqAt(step),
             req.step # "none", pending' \subseteq Id, stdin' \in Seq(Inbound), outcome' = outcome
      PROVE  Typed'
  <2>1. /\ UNCHANGED <<app, groupVars, owes, asked, sent, muted, stdout, reader, ended, notes,
                       worker, buffered, events, got, turn, caller, client>>
        /\ req' = [req EXCEPT !.step = step]
    BY <1>2 DEF ReqAt
  <2>2. AgentTyped' /\ GroupTyped' /\ LinkTyped' /\ CallerTyped'
    BY <1>1, <1>2, <2>1 DEF AgentTyped, GroupTyped, LinkTyped, CallerTyped
  <2>3. TurnTyped'
    BY <1>1, <1>2, <2>1 DEF TurnTyped
  <2>4. ReqNamed' /\ PromptBounded'
    BY <1>1, <1>2, <2>1 DEF ReqNamed, PromptBounded, TurnTyped
  <2> QED
    BY <2>2, <2>3, <2>4, TypeGroupsNext
<1>3. pending \subseteq Id /\ stdin \in Seq(Inbound)
  BY <1>1 DEF AgentTyped, LinkTyped
<1>4. CASE ReqChecked
  BY <1>2, <1>3, <1>4 DEF ReqChecked, Requesting
<1>5. CASE ReqInserted
  BY <1>2, <1>3, <1>5 DEF ReqInserted, Requesting, ReqNamed
<1>6. CASE ReqWritten
  <2>1. stdin' \in Seq(Inbound)
    BY <1>3, <1>6, AppendFacts, MessageFacts DEF ReqWritten, Requesting, ReqNamed
  <2> QED
    BY <1>2, <1>3, <1>6, <2>1 DEF ReqWritten, Requesting
<1>7. CASE ReqFlushed
  BY <1>2, <1>3, <1>7 DEF ReqFlushed, Requesting
<1>8. CASE ReqBroken
  BY <1>2, <1>3, <1>8 DEF ReqBroken, Requesting
<1> QED
  BY <1>4, <1>5, <1>6, <1>7, <1>8 DEF RequestStep

\* The end of the client keeps the types.
LEMMA LinkGoneTyped ==
  ASSUME Typed, LinkGone, turn' \in {0, turn}, CallerTyped', GroupTyped', sent' = sent,
         caller' # "prompting" \/ caller' = caller
  PROVE  Typed'
<1>1. AgentTyped /\ LinkTyped /\ TurnTyped
  BY TypeGroups DEF Typed
<1>2. AgentTyped'
  <2>1. <<>> \in Seq(Inbound) /\ <<>> \in Seq(Outbound) /\ Len(<<>>) <= OutCap
    BY EmptyFacts, Constants
  <2> QED
    BY <1>1, <2>1 DEF LinkGone, AgentTyped
<1>3. LinkTyped'
  BY EmptyFacts DEF LinkGone, LinkTyped
<1>4. TurnTyped'
  BY <1>1, EmptyFacts, Constants DEF LinkGone, TurnTyped, NoReq
<1>5. ReqNamed' /\ PromptBounded'
  BY <1>1, Constants DEF Typed, LinkGone, NoReq, ReqNamed, PromptBounded, TurnTyped
<1> QED
  BY <1>2, <1>3, <1>4, <1>5, TypeGroupsNext DEF Typed

LEMMA DropClientTyped ==
  ASSUME Typed, DropClient, caller' \in {caller, "over", "dropped"}
  PROVE  Typed'
<1>1. GroupTyped /\ CallerTyped
  BY TypeGroups DEF Typed
<1>2. GroupTyped' /\ CallerTyped'
  BY <1>1 DEF DropClient, ClientGone, GroupKilled, LinkGone, GroupTyped, CallerTyped
<1> QED
  BY <1>2, LinkGoneTyped DEF DropClient, ClientGone

LEMMA WorkerTypedStep ==
  ASSUME Typed, WorkerStep
  PROVE  Typed'
<1> USE DEF Typed, groupVars, agentVars, linkVars
<1>1. AgentTyped /\ GroupTyped /\ LinkTyped /\ TurnTyped /\ CallerTyped
  BY TypeGroups
<1>2. ASSUME UNCHANGED <<app, groupVars, agentVars, reader, ended, pending, outcome, got, turn,
                         caller>>,
             client' \in {client, "returned"}, req' \in {req, NoReq},
             worker' \in {"none", "streaming", "polled", "flushing", "stopping"},
             notes' \in Seq(Update), buffered' \in Seq(Update),
             events' \in Seq(Event), Len(events') <= EventCap
      PROVE  Typed'
  <2>1. AgentTyped' /\ GroupTyped' /\ LinkTyped'
    BY <1>1, <1>2 DEF AgentTyped, GroupTyped, LinkTyped
  <2>2. TurnTyped' /\ CallerTyped'
    BY <1>1, <1>2 DEF TurnTyped, CallerTyped, NoReq
  <2>3. ReqNamed' /\ PromptBounded'
    BY <1>2 DEF ReqNamed, PromptBounded, NoReq
  <2> QED
    BY <2>1, <2>2, <2>3, TypeGroupsNext
<1>3. /\ notes \in Seq(Update) /\ buffered \in Seq(Update) /\ <<>> \in Seq(Update)
      /\ events \in Seq(Event) /\ Len(events) <= EventCap
  BY <1>1, EmptyFacts DEF LinkTyped, TurnTyped
<1>4. ASSUME NEW e \in Event, Sends(e)
      PROVE  events' \in Seq(Event) /\ Len(events') <= EventCap
  <2>1. Append(events, e) \in Seq(Event) /\ Len(Append(events, e)) = Len(events) + 1
    BY <1>3, AppendFacts
  <2>2. Len(events) \in Nat
    BY <1>3, LenProperties
  <2> QED
    <3>1. CASE Heard
      <4>1. events' = Append(events, e) /\ Len(events) < EventCap
        BY <1>4, <3>1 DEF Sends
      <4> QED
        BY <2>1, <2>2, <4>1, Constants
    <3>2. CASE ~Heard
      BY <1>3, <1>4, <3>2 DEF Sends
    <3> QED
      BY <3>1, <3>2
<1>5. CASE StreamForwards
  <2>1. Head(notes) \in Event /\ Tail(notes) \in Seq(Update)
    BY <1>3, <1>5, TailFacts, MessageFacts DEF StreamForwards
  <2>2. events' \in Seq(Event) /\ Len(events') <= EventCap
    BY <1>4, <1>5, <2>1 DEF StreamForwards
  <2> QED
    BY <1>2, <1>3, <1>5, <2>1, <2>2 DEF StreamForwards, WorkerAt
<1>6. CASE StreamEmpty \/ StreamWoken
  BY <1>2, <1>3, <1>6 DEF StreamEmpty, StreamWoken, WorkerAt
<1>7. CASE StreamAnswered
  BY <1>2, <1>3, <1>7 DEF StreamAnswered, WorkerAt
<1>8. CASE StreamFlushes
  <2>1. Head(buffered) \in Event /\ Tail(buffered) \in Seq(Update)
    BY <1>3, <1>8, TailFacts, MessageFacts DEF StreamFlushes
  <2>2. events' \in Seq(Event) /\ Len(events') <= EventCap
    BY <1>4, <1>8, <2>1 DEF StreamFlushes
  <2> QED
    BY <1>2, <1>3, <1>8, <2>1, <2>2 DEF StreamFlushes, WorkerAt
<1>9. CASE StreamCompletes
  <2>1. events' \in Seq(Event) /\ Len(events') <= EventCap
    BY <1>4, <1>9, MessageFacts DEF StreamCompletes
  <2> QED
    BY <1>2, <1>3, <1>9, <2>1 DEF StreamCompletes, WorkerAt
<1>10. CASE StreamFails
  <2>1. events' \in Seq(Event) /\ Len(events') <= EventCap
    BY <1>4, <1>10, MessageFacts DEF StreamFails
  <2> QED
    BY <1>2, <1>3, <1>10, <2>1 DEF StreamFails, WorkerAt
<1>11. CASE WorkerReturns
  <2>1. CASE DropClient /\ UNCHANGED caller
    BY <2>1, DropClientTyped
  <2>2. CASE ~(DropClient /\ UNCHANGED caller)
    BY <1>2, <1>3, <1>11, <2>2 DEF WorkerReturns
  <2> QED
    BY <2>1, <2>2
<1> QED
  BY <1>5, <1>6, <1>7, <1>8, <1>9, <1>10, <1>11 DEF WorkerStep

LEMMA CallerTypedStep ==
  ASSUME Typed, CallerStep \/ ReapDrains \/ ReapKills \/ Exit
  PROVE  Typed'
<1> USE DEF Typed, groupVars, agentVars, linkVars, turnVars
<1>1. AgentTyped /\ GroupTyped /\ LinkTyped /\ TurnTyped /\ CallerTyped
  BY TypeGroups
<1>2. ASSUME UNCHANGED <<owes, asked, sent, muted, stdout, ended, pending, outcome, notes>>,
             stdin' \in Seq(Inbound), reader' \in {reader, "reading"},
             GroupTyped', TurnTyped', CallerTyped', ReqNamed', PromptBounded'
      PROVE  Typed'
  <2>1. AgentTyped' /\ LinkTyped'
    BY <1>1, <1>2 DEF AgentTyped, LinkTyped
  <2> QED
    BY <1>2, <2>1, TypeGroupsNext
<1>3. stdin \in Seq(Inbound)
  BY <1>1 DEF AgentTyped
<1>4. CASE RegisterAgent
  <2>1. TurnTyped'
    BY <1>1, <1>4, IdFacts DEF RegisterAgent, TurnTyped
  <2>2. GroupTyped' /\ CallerTyped' /\ ReqNamed' /\ PromptBounded'
    BY <1>1, <1>4, IdFacts DEF RegisterAgent, GroupTyped, CallerTyped, ReqNamed, PromptBounded
  <2> QED
    BY <1>2, <1>3, <1>4, <2>1, <2>2 DEF RegisterAgent
<1>5. CASE ControlAnswered
  <2>1. req.id \in Nat /\ req.id < Controls => req.id + 1 \in Id
    BY IdFacts
  <2>2. req.id \in Nat
    <3>1. req.id \in {0} \cup Id
      BY <1>1 DEF TurnTyped
    <3> QED
      BY <3>1, IdNat
  <2>3. TurnTyped'
    BY <1>1, <1>5, <2>1, <2>2 DEF ControlAnswered, CallerAt, TurnTyped, NoReq
  <2>4. GroupTyped' /\ CallerTyped' /\ ReqNamed' /\ PromptBounded'
    BY <1>1, <1>5, <2>1, <2>2 DEF ControlAnswered, CallerAt, GroupTyped, CallerTyped, ReqNamed,
                            PromptBounded, NoReq
  <2> QED
    BY <1>2, <1>3, <1>5, <2>3, <2>4 DEF ControlAnswered, CallerAt
<1>6. CASE ConnectFails \/ ControlTimesOut \/ Aborts
  BY <1>6, DropClientTyped DEF ConnectFails, ControlTimesOut, Aborts
<1>7. CASE SpawnAgent \/ Prompt
  BY <1>1, <1>2, <1>3, <1>7 DEF SpawnAgent, Prompt, CallerAt, GroupTyped, TurnTyped, CallerTyped,
     ReqNamed, PromptBounded
<1>8. CASE TurnStarts
  <2>1. turn \in Nat /\ turn < MaxTurns /\ PromptOf(turn + 1) \in Id /\ turn + 1 \in 0..MaxTurns
    BY <1>1, <1>8, IdFacts, Constants DEF TurnStarts, At, PromptBounded, TurnTyped
  <2>2. TurnTyped'
    BY <1>1, <1>8, <2>1, EmptyFacts, Constants DEF TurnStarts, TurnTyped
  <2>3. GroupTyped' /\ CallerTyped' /\ ReqNamed' /\ PromptBounded'
    BY <1>1, <1>8, <2>1 DEF TurnStarts, GroupTyped, CallerTyped, ReqNamed, PromptBounded
  <2> QED
    BY <1>2, <1>3, <1>8, <2>2, <2>3 DEF TurnStarts
<1>9. CASE Drains
  <2>1. /\ Head(events) \in Event /\ events' = Tail(events)
        /\ Tail(events) \in Seq(Event) /\ Len(Tail(events)) <= EventCap
    BY <1>1, <1>9, TailFacts, Constants DEF Drains, TurnTyped
  <2>2. got' \in Seq(Update)
    BY <1>1, <1>9, <2>1, AppendFacts, MessageFacts DEF Drains, TurnTyped
  <2>3. caller' \in {"draining", "idle", "cancelling"}
    BY <1>9, <2>1, MessageFacts DEF Drains
  <2>4. UNCHANGED <<app, groupVars, agentVars, linkVars, req, worker, buffered, turn, client>>
    BY <1>9 DEF Drains
  <2>5. TurnTyped'
    BY <1>1, <2>1, <2>2, <2>4 DEF TurnTyped
  <2>6. GroupTyped' /\ CallerTyped' /\ ReqNamed' /\ PromptBounded'
    BY <1>1, <2>3, <2>4 DEF GroupTyped, CallerTyped, ReqNamed, PromptBounded
  <2> QED
    BY <1>2, <1>3, <2>4, <2>5, <2>6
<1>10. CASE IdleTimeout \/ Terminate \/ ReclaimTimesOut \/ Reclaims
  <2>1. TurnTyped'
    BY <1>1, <1>10 DEF IdleTimeout, Terminate, ReclaimTimesOut, Reclaims, CallerAt, TurnTyped
  <2>2. GroupTyped' /\ CallerTyped' /\ ReqNamed' /\ PromptBounded'
    BY <1>1, <1>10 DEF IdleTimeout, Terminate, ReclaimTimesOut, Reclaims, CallerAt, GroupTyped,
                       CallerTyped, ReqNamed, PromptBounded
  <2> QED
    BY <1>2, <1>3, <1>10, <2>1, <2>2 DEF IdleTimeout, Terminate, ReclaimTimesOut, Reclaims,
                                         CallerAt
<1>11. CASE Cancels
  <2>1. stdin' \in Seq(Inbound)
    <3>1. Append(stdin, [what |-> "cancel"]) \in Seq(Inbound)
      BY <1>3, AppendFacts, MessageFacts
    <3> QED
      BY <1>3, <1>11, <3>1 DEF Cancels
  <2>2. GroupTyped' /\ TurnTyped' /\ CallerTyped' /\ ReqNamed' /\ PromptBounded'
    BY <1>1, <1>11 DEF Cancels, GroupTyped, TurnTyped, CallerTyped, ReqNamed, PromptBounded
  <2> QED
    BY <1>2, <1>11, <2>1, <2>2 DEF Cancels
<1>12. CASE ShutsDown
  BY <1>1, <1>2, <1>3, <1>12 DEF ShutsDown, CallerAt, GroupTyped, TurnTyped, CallerTyped,
     ReqNamed, PromptBounded
<1>13. CASE GraceEnds
  <2>1. GroupTyped' /\ CallerTyped'
    BY <1>1, <1>13 DEF GraceEnds, ClientGone, GroupKilled, LinkGone, GroupTyped, CallerTyped
  <2> QED
    BY <1>13, <2>1, LinkGoneTyped DEF GraceEnds, ClientGone
<1>14. CASE Abandon
  <2>1. CASE DropClient
    BY <1>14, <2>1, DropClientTyped DEF Abandon
  <2>2. CASE ~DropClient
    <3>1. /\ events' = <<>> /\ caller' = "dropped"
          /\ UNCHANGED <<app, groupVars, agentVars, linkVars, req, worker, buffered, got,
                         turn, client>>
      BY <1>14, <2>2 DEF Abandon
    <3>2. TurnTyped'
      BY <1>1, <3>1, EmptyFacts, Constants DEF TurnTyped
    <3>3. GroupTyped' /\ CallerTyped' /\ ReqNamed' /\ PromptBounded'
      BY <1>1, <3>1 DEF GroupTyped, CallerTyped, ReqNamed, PromptBounded
    <3> QED
      BY <1>2, <1>3, <3>1, <3>2, <3>3
  <2> QED
    BY <2>1, <2>2
<1>15. CASE ReapDrains \/ ReapKills
  <2>1. AgentTyped' /\ LinkTyped' /\ TurnTyped'
    BY <1>1, <1>15 DEF ReapDrains, ReapKills, AgentTyped, LinkTyped, TurnTyped
  <2>2. GroupTyped' /\ CallerTyped' /\ ReqNamed' /\ PromptBounded'
    BY <1>1, <1>15 DEF ReapDrains, ReapKills, GroupKilled, GroupTyped, CallerTyped, ReqNamed,
                       PromptBounded
  <2> QED
    BY <2>1, <2>2, TypeGroupsNext
<1>16. CASE Exit
  <2>1. GroupTyped' /\ CallerTyped'
    BY <1>1, <1>16 DEF Exit, LinkGone, GroupTyped, CallerTyped
  <2> QED
    BY <1>16, <2>1, LinkGoneTyped DEF Exit
<1> QED
  BY <1>4, <1>5, <1>6, <1>7, <1>8, <1>9, <1>10, <1>11, <1>12, <1>13, <1>14, <1>15, <1>16
     DEF CallerStep, ConnectStep, TerminateStep

LEMMA TypedStep == ASSUME Typed, [Next]_vars PROVE Typed'
<1>1. CASE UNCHANGED vars
  <2>1. AgentTyped /\ GroupTyped /\ LinkTyped /\ TurnTyped /\ CallerTyped
    BY TypeGroups DEF Typed
  <2>2. AgentTyped' /\ GroupTyped' /\ LinkTyped' /\ TurnTyped' /\ CallerTyped'
    BY <1>1, <2>1 DEF vars, groupVars, agentVars, linkVars, turnVars, AgentTyped, GroupTyped,
                      LinkTyped, TurnTyped, CallerTyped
  <2>3. ReqNamed' /\ PromptBounded'
    BY <1>1 DEF Typed, vars, turnVars, ReqNamed, PromptBounded
  <2> QED
    BY <2>2, <2>3, TypeGroupsNext DEF Typed
<1> QED
  BY <1>1, AgentTypedStep, ReaderTypedStep, RequestTypedStep, WorkerTypedStep, CallerTypedStep
     DEF Next

\* Every variable keeps its type, and a request under way its number.
THEOREM AcpTypeCorrect == Spec => []TypeOK
<1>1. Typed /\ [Next]_vars => Typed'
  BY TypedStep
<1>2. Typed => TypeOK
  BY DEF Typed
<1> QED
  BY TypedInit, <1>1, <1>2, PTL DEF Spec

-----------------------------------------------------------------------------
(* What terminate and a failed connect leave behind.                         *)

\* There is an agent from the moment that the caller has spawned one.
Spawned == leader = "none" => caller = "new"

LEMMA SpawnedStep == ASSUME Spawned, [Next]_vars PROVE Spawned'
<1> USE DEF Spawned
<1>1. CASE AgentStep
  <2>1. leader' = leader \/ leader' = "dead"
    BY <1>1 DEF AgentStep, AgentReads, AgentUpdates, AgentAsks, AgentCloses, AgentExits,
                AgentAnswers, AgentForks, Says, groupVars
  <2> QED
    BY <1>1, <2>1, AgentFrame
<1>2. CASE ReaderStep \/ RequestStep
  BY <1>2 DEF ReaderStep, ReaderUpdates, ReaderResponds, ReaderAsked, ReaderAnswers, ReaderFlushed, ReaderBroken, ReaderAt, ReaderEnds,
              ReaderMarks, ReaderWakes, RequestStep, ReqChecked, ReqInserted, ReqWritten,
              ReqFlushed, ReqBroken, ReqAt, groupVars
<1>3. CASE WorkerStep
  BY <1>3 DEF WorkerStep, StreamForwards, StreamEmpty, StreamWoken, StreamAnswered,
              StreamFlushes, StreamCompletes, StreamFails, WorkerReturns, WorkerAt,
              DropClient, GroupKilled, groupVars
<1>4. CASE CallerStep \/ ReapDrains \/ ReapKills \/ Exit
  BY <1>4 DEF CallerStep, SpawnAgent, RegisterAgent, ConnectStep, ControlAnswered, ConnectFails,
              ControlTimesOut, Prompt, TurnStarts, Drains, IdleTimeout, Terminate,
              TerminateStep, Cancels, Reclaims, ReclaimTimesOut, Aborts, ShutsDown, GraceEnds,
              Abandon, ReapDrains, ReapKills, Exit, At, CallerAt, DropClient, GroupKilled, groupVars
<1>5. CASE UNCHANGED vars
  BY <1>5 DEF vars, groupVars
<1> QED
  BY <1>1, <1>2, <1>3, <1>4, <1>5 DEF Next

LEMMA ReapableStep == ASSUME Reapable, [Next]_vars PROVE Reapable'
<1> USE DEF Reapable
<1>1. CASE AgentStep
  <2>1. leader' = leader \/ leader' = "dead"
    BY <1>1 DEF AgentStep, AgentReads, AgentUpdates, AgentAsks, AgentCloses, AgentExits,
                AgentAnswers, AgentForks, Says, groupVars
  <2> QED
    BY <1>1, <2>1, AgentFrame
<1>2. CASE ReaderStep \/ RequestStep
  BY <1>2 DEF ReaderStep, ReaderUpdates, ReaderResponds, ReaderAsked, ReaderAnswers, ReaderFlushed, ReaderBroken, ReaderAt, ReaderEnds,
              ReaderMarks, ReaderWakes, RequestStep, ReqChecked, ReqInserted, ReqWritten,
              ReqFlushed, ReqBroken, ReqAt, groupVars
<1>3. CASE WorkerStep
  BY <1>3 DEF WorkerStep, StreamForwards, StreamEmpty, StreamWoken, StreamAnswered,
              StreamFlushes, StreamCompletes, StreamFails, WorkerReturns, WorkerAt,
              DropClient, GroupKilled, groupVars
<1>4. CASE CallerStep \/ ReapDrains \/ ReapKills \/ Exit
  BY <1>4 DEF CallerStep, SpawnAgent, RegisterAgent, ConnectStep, ControlAnswered, ConnectFails,
              ControlTimesOut, Prompt, TurnStarts, Drains, IdleTimeout, Terminate,
              TerminateStep, Cancels, Reclaims, ReclaimTimesOut, Aborts, ShutsDown, GraceEnds,
              Abandon, ReapDrains, ReapKills, Exit, At, CallerAt, DropClient, ClientGone, GroupKilled,
              groupVars
<1>5. CASE UNCHANGED vars
  BY <1>5 DEF vars, groupVars
<1> QED
  BY <1>1, <1>2, <1>3, <1>4, <1>5 DEF Next

\* A running agent can be found by kill_all_agents, has just been found by it, or
\* is about to be registered: through every way in which a client ends, and
\* whenever another thread drains the registry.
THEOREM AgentsReapable == Spec => []Reapable
<1>1. Init => Reapable
  BY DEF Init, Reapable
<1>2. Reapable /\ [Next]_vars => Reapable'
  BY ReapableStep
<1> QED
  BY <1>1, <1>2, PTL DEF Spec

LEMMA ReleasedStep == ASSUME Typed, Spawned, Released, [Next]_vars PROVE Released'
<1> SUFFICES ASSUME caller' = "over"
             PROVE  leader' = "dead" /\ client' = "none" /\ worker' = "none"
                    /\ reader' = "stopped"
  BY DEF Released
<1> USE DEF Released
<1>1. CASE caller # "over"
  <2>1. ConnectFails \/ ControlTimesOut \/ Aborts \/ GraceEnds
    <3>1. CASE AgentStep
      BY <1>1, <3>1, AgentFrame
    <3>2. CASE ReaderStep \/ RequestStep \/ WorkerStep
      BY <1>1, <3>2 DEF ReaderStep, ReaderUpdates, ReaderResponds, ReaderAsked, ReaderAnswers,
         ReaderFlushed, ReaderBroken, ReaderAt, ReaderEnds, ReaderMarks, ReaderWakes, RequestStep, ReqChecked, ReqInserted, ReqWritten,
         ReqFlushed, ReqBroken, ReqAt, WorkerStep, StreamForwards, StreamEmpty, StreamWoken,
         StreamAnswered, StreamFlushes, StreamCompletes, StreamFails, WorkerReturns, WorkerAt
    <3>3. CASE CallerStep \/ ReapDrains \/ ReapKills \/ Exit
      <4>1. CASE Drains
        <5>1. Head(events) \in Event
          BY <4>1, TailFacts, TypeGroups DEF Typed, TurnTyped, Drains
        <5> QED
          BY <1>1, <4>1, <5>1, MessageFacts DEF Drains
      <4> QED
        BY <1>1, <3>3, <4>1 DEF CallerStep, SpawnAgent, RegisterAgent, ConnectStep, ControlAnswered, Prompt,
           TurnStarts, IdleTimeout, Terminate, TerminateStep, Cancels, Reclaims,
           ReclaimTimesOut, ShutsDown, Abandon, ReapDrains, ReapKills, Exit, CallerAt
    <3>4. CASE UNCHANGED vars
      BY <1>1, <3>4 DEF vars
    <3> QED
      BY <3>1, <3>2, <3>3, <3>4 DEF Next
  <2>2. leader' = "dead"
    <3>1. leader \in {"none", "up", "dead"}
      BY DEF Typed, TypeOK
    <3> QED
      BY <2>1, <3>1 DEF ConnectFails, ControlTimesOut, Aborts, GraceEnds, DropClient,
                        GroupKilled, Spawned, At
  <2> QED
    BY <2>1, <2>2 DEF ConnectFails, ControlTimesOut, Aborts, GraceEnds, DropClient, ClientGone,
                      LinkGone
<1>2. CASE caller = "over"
  <2>1. leader = "dead" /\ client = "none" /\ worker = "none" /\ reader = "stopped"
    BY <1>2
  <2>2. CASE AgentStep
    BY <2>1, <2>2 DEF AgentStep, AgentReads, AgentUpdates, AgentAsks, AgentCloses, AgentExits,
                      AgentAnswers, AgentForks, Says
  <2>3. CASE ReaderStep \/ RequestStep \/ WorkerStep
    BY <1>2, <2>1, <2>3 DEF ReaderStep, ReaderUpdates, ReaderResponds, ReaderAsked,
       ReaderAnswers, ReaderFlushed, ReaderBroken, ReaderAt, ReaderEnds, ReaderMarks, ReaderWakes, Reading, RequestStep, ReqChecked,
       ReqInserted, ReqWritten, ReqFlushed, ReqBroken, Requesting, WorkerStep, StreamForwards,
       StreamEmpty, StreamWoken, StreamAnswered, StreamFlushes, StreamCompletes, StreamFails,
       WorkerReturns, Working
  <2>4. CASE CallerStep
    BY <1>2, <2>4 DEF CallerStep, SpawnAgent, RegisterAgent, ConnectStep, ControlAnswered, ConnectFails,
       ControlTimesOut, Prompt, TurnStarts, Drains, IdleTimeout, Terminate, TerminateStep,
       Cancels, Reclaims, ReclaimTimesOut, Aborts, ShutsDown, GraceEnds, Abandon, At
  <2>5. CASE ReapDrains \/ ReapKills
    BY <2>1, <2>5 DEF ReapDrains, ReapKills, GroupKilled, linkVars, turnVars
  <2>6. CASE Exit
    BY <2>1, <2>6 DEF Exit, LinkGone, groupVars
  <2>7. CASE UNCHANGED vars
    BY <2>1, <2>7 DEF vars, groupVars, linkVars, turnVars
  <2> QED
    BY <2>2, <2>3, <2>4, <2>5, <2>6, <2>7 DEF Next
<1> QED
  BY <1>1, <1>2

\* When terminate has returned, or a connect has failed, the agent is dead and
\* nothing of the client is left: also when the worker held the client, when
\* the agent died during the grace, and when another task reaps.
THEOREM TerminateReleases == Spec => []Released
<1>1. Init => Typed /\ Spawned /\ Released
  BY TypedInit DEF Init, Spawned, Released
<1>2. Typed /\ Spawned /\ Released /\ [Next]_vars => Typed' /\ Spawned' /\ Released'
  BY TypedStep, SpawnedStep, ReleasedStep
<1> QED
  BY <1>1, <1>2, PTL DEF Spec

-----------------------------------------------------------------------------
(* The updates of a turn on their way to the caller.                         *)

None(s, what) == \A k \in 1..Len(s) : s[k].what # what

Upd(t, n) == [what |-> "update", turn |-> t, n |-> n]

\* The session is in use: no call has failed, timed out or been given up.
Engaged == Running /\ caller \in {"connecting", "idle", "prompting", "draining"}

\* The last request.
Cur ==
  IF turn # 0 THEN PromptOf(turn)
  ELSE IF caller = "connecting" THEN req.id ELSE Controls

Streams == worker \in {"streaming", "polled", "flushing"}

Unwritten == req.step \in {"check", "insert", "write"}

\* Nothing is asked of the agent before it is registered; it may speak by itself.
Blank ==
  Running /\ caller \in {"new", "spawned"} =>
    /\ reader = "none" /\ worker = "none" /\ req = NoReq /\ turn = 0 /\ owes = 0
    /\ stdin = <<>> /\ notes = <<>> /\ buffered = <<>>
    /\ None(stdout, "update") /\ None(stdout, "response")
    /\ pending = {} /\ outcome = [i \in Id |-> "none"]
    /\ sent = [t \in 1..MaxTurns |-> 0]

\* How far the caller, the request and the worker are.
Phases ==
  /\ caller = "connecting" =>
       turn = 0 /\ worker = "none" /\ req.step # "none" /\ req.id \in 1..Controls
  /\ caller \in {"idle", "prompting"} =>
       worker \in {"stopping", "none"} /\ outcome[Cur] = "ok"
  /\ caller = "draining" => turn # 0
  /\ caller # "draining" => notes = <<>> /\ buffered = <<>> /\ None(stdout, "update")
  /\ worker # "none" => turn # 0
  /\ Streams => caller = "draining" /\ req.step # "none"
  /\ req.step # "none" => req.id = Cur

\* The agent has nothing to answer, and has left no answer.
Quiet == owes = 0 /\ None(stdin, "request") /\ None(stdout, "response")

\* The last request is in one place at a time: to be written, in the agent's
\* stdin, with the agent, or answered in its stdout with no update behind it.
Tokens ==
  /\ \A k \in 1..Len(stdin) : stdin[k].what = "request" =>
       /\ stdin[k].id = Cur
       /\ owes = 0 /\ None(stdout, "response")
       /\ \A l \in 1..Len(stdin) : stdin[l].what = "request" => l = k
  /\ owes \in {0, Cur}
  /\ \A k \in 1..Len(stdout) : stdout[k].what = "response" =>
       /\ stdout[k].id = Cur /\ owes = 0
       /\ \A l \in 1..Len(stdout) : k < l => stdout[l].what = "permission"
  /\ Unwritten => Quiet /\ outcome[Cur] # "ok"
  /\ outcome[Cur] = "ok" => Cur \notin pending /\ Quiet /\ None(stdout, "update")

\* Nothing is known of requests and turns to come.
Unasked ==
  /\ \A i \in Id : i > Cur => outcome[i] = "none" /\ i \notin pending
  /\ \A t \in 1..MaxTurns : t > turn => sent[t] = 0

\* What the caller has.
Ordered == turn # 0 => \A i \in 1..Len(got) : got[i] = Upd(turn, i)

\* What the event channel holds for it; the end of the turn comes last.
Held ==
  caller = "draining" =>
    /\ \A i \in 1..Len(events) :
         events[i].what = "update" => events[i] = Upd(turn, Len(got) + i)
    /\ \A i \in 1..Len(events) : events[i].what # "update" => i = Len(events) /\ ~Streams
    /\ \A i \in 1..Len(events) : events[i].what = "complete" =>
         /\ outcome[Cur] = "ok" /\ notes = <<>> /\ buffered = <<>>
         /\ Len(got) + Len(events) = sent[turn] + 1

Passed == Len(got) + Len(events)
Taken == Passed + Len(buffered) + Len(notes)

\* The updates that the client holds continue them without a gap.
Lined ==
  Streams =>
    /\ worker # "flushing" => buffered = <<>>
    /\ worker = "flushing" => notes = <<>> /\ outcome[Cur] = "ok"
    /\ \A i \in 1..Len(buffered) : buffered[i] = Upd(turn, Passed + i)
    /\ \A i \in 1..Len(notes) : notes[i] = Upd(turn, Passed + Len(buffered) + i)

\* The agent's stdout holds the rest of what it sent, in order.
Piped ==
  Streams =>
    /\ Taken <= sent[turn]
    /\ \A k \in 1..Len(stdout) : stdout[k].what = "update" =>
         /\ stdout[k].turn = turn
         /\ Taken < stdout[k].n /\ stdout[k].n <= sent[turn]
    /\ \A k, l \in 1..Len(stdout) :
         stdout[k].what = "update" /\ stdout[l].what = "update" /\ k < l
         => stdout[k].n < stdout[l].n
    /\ \A n \in (Taken + 1)..sent[turn] :
         \E k \in 1..Len(stdout) : stdout[k].what = "update" /\ stdout[k].n = n

\* A turn that is over was delivered.
Delivered == caller \in {"idle", "prompting"} /\ turn # 0 => Len(got) = sent[turn]

InFlight == Phases /\ Tokens /\ Unasked /\ Held /\ Lined /\ Piped /\ Delivered

Exited == ~Running => turn = 0

Flow == Typed /\ Blank /\ Exited /\ Ordered /\ (Engaged => InFlight)

LEMMA FlowInit == Init => Flow
BY TypedInit DEF Init, Flow, Blank, None, Exited, Running, Ordered, Engaged

LEMMA FlowDelivers == Flow => TurnDelivered
<1> SUFFICES ASSUME Flow, turn # 0
             PROVE  /\ got = Prefix(turn, Len(got))
                    /\ caller \in {"idle", "prompting"} => Len(got) = sent[turn]
  BY DEF TurnDelivered
<1>1. got \in Seq(Update)
  BY DEF Flow, Typed, TypeOK
<1>2. got = Prefix(turn, Len(got))
  <2>1. \A i \in 1..Len(got) : got[i] = Prefix(turn, Len(got))[i]
    BY <1>1 DEF Flow, Ordered, Prefix, Upd
  <2>2. got = [i \in 1..Len(got) |-> got[i]]
    BY <1>1
  <2> QED
    BY <2>1, <2>2 DEF Prefix
<1>3. ASSUME caller \in {"idle", "prompting"} PROVE Len(got) = sent[turn]
  <2>1. CASE Running
    BY <1>3, <2>1 DEF Flow, Engaged, InFlight, Delivered
  <2>2. CASE ~Running
    BY <2>2 DEF Flow, Exited
  <2> QED
    BY <2>1, <2>2
<1> QED
  BY <1>2, <1>3

\* The steps after which the session is in use.
Proceeds ==
  \/ AgentStep \/ ReaderStep \/ RequestStep
  \/ StreamForwards \/ StreamEmpty \/ StreamWoken \/ StreamAnswered
  \/ StreamFlushes \/ StreamCompletes \/ StreamFails \/ WorkerReturns
  \/ ControlAnswered \/ Prompt \/ TurnStarts \/ Drains \/ ReapDrains \/ ReapKills
  \/ UNCHANGED vars

LEMMA EndsOrProceeds ==
  ASSUME Typed, [Next]_vars
  PROVE  /\ Running' => Running
         /\ caller' \in {"new", "spawned"} => caller \in {"new", "spawned"}
         /\ Engaged' => RegisterAgent \/ (Engaged /\ Proceeds)
         /\ ~RegisterAgent /\ ~Proceeds => ~Engaged'
<1> USE DEF Proceeds, Engaged, Running
<1>1. CASE AgentStep \/ UNCHANGED vars
  BY <1>1, AgentFrame DEF vars
<1>2. CASE ReaderStep
  BY <1>2 DEF ReaderStep, ReaderUpdates, ReaderResponds, ReaderAsked, ReaderAnswers, ReaderFlushed, ReaderBroken, ReaderAt, ReaderEnds,
              ReaderMarks, ReaderWakes
<1>3. CASE RequestStep
  BY <1>3 DEF RequestStep, ReqChecked, ReqInserted, ReqWritten, ReqFlushed, ReqBroken, ReqAt
<1>4. CASE WorkerStep
  BY <1>4 DEF WorkerStep, StreamForwards, StreamEmpty, StreamWoken, StreamAnswered,
     StreamFlushes, StreamCompletes, StreamFails, WorkerReturns, WorkerAt, DropClient, ClientGone
<1>5. CASE Drains
  <2>1. Head(events) \in Event
    BY <1>5, TailFacts, TypeGroups DEF Typed, TurnTyped, Drains
  <2> QED
    BY <1>5, <2>1, MessageFacts DEF Drains, At
<1>6. CASE RegisterAgent \/ ControlAnswered \/ Prompt \/ TurnStarts
  <2>1. app' = app /\ caller' \in {"connecting", "idle", "prompting", "draining"}
    BY <1>6 DEF RegisterAgent, ControlAnswered, Prompt, TurnStarts, CallerAt
  <2>2. CASE ControlAnswered
    BY <2>1, <2>2 DEF ControlAnswered, At
  <2>3. CASE Prompt
    BY <2>1, <2>3 DEF Prompt, At
  <2>4. CASE TurnStarts
    BY <2>1, <2>4 DEF TurnStarts, At
  <2>5. CASE RegisterAgent
    <3>1. At("spawned")
      BY <2>5 DEF RegisterAgent
    <3> QED
      BY <2>1, <2>5, <3>1 DEF At
  <2> QED
    BY <1>6, <2>2, <2>3, <2>4, <2>5
<1>7. CASE ConnectFails \/ ControlTimesOut \/ Aborts \/ GraceEnds
  BY <1>7 DEF ConnectFails, ControlTimesOut, Aborts, GraceEnds, DropClient, ClientGone
<1>8. CASE IdleTimeout \/ Terminate \/ Cancels \/ Reclaims \/ ReclaimTimesOut \/ ShutsDown
  BY <1>8 DEF IdleTimeout, Terminate, Cancels, Reclaims, ReclaimTimesOut, ShutsDown, CallerAt
<1>9. CASE Abandon
  BY <1>9 DEF Abandon, DropClient, ClientGone
<1>10. CASE ReapDrains \/ ReapKills \/ Exit
  BY <1>10 DEF ReapDrains, ReapKills, Exit
<1>11. CASE SpawnAgent
  BY <1>11 DEF SpawnAgent, At, CallerAt
<1> QED
  BY <1>1, <1>2, <1>3, <1>4, <1>5, <1>6, <1>7, <1>8, <1>9, <1>10, <1>11
     DEF Next, CallerStep, ConnectStep, TerminateStep

\* Before the handshake, only the agent and the end of the program can come.
LEMMA NewStep ==
  ASSUME Typed, Blank, caller \in {"new", "spawned"}, Running, Next
  PROVE  AgentStep \/ SpawnAgent \/ RegisterAgent \/ ReapDrains \/ ReapKills \/ Exit
<1>1. reader = "none" /\ worker = "none"
  BY DEF Blank
<1>2. ~ReaderStep /\ ~RequestStep /\ ~WorkerStep
  BY <1>1 DEF ReaderStep, ReaderUpdates, ReaderResponds, ReaderAsked, ReaderAnswers,
     ReaderFlushed, ReaderBroken, ReaderEnds, ReaderMarks, ReaderWakes, Reading, RequestStep,
     ReqChecked, ReqInserted, ReqWritten, ReqFlushed, ReqBroken, Requesting, WorkerStep,
     StreamForwards, StreamEmpty, StreamWoken, StreamAnswered, StreamFlushes, StreamCompletes,
     StreamFails, WorkerReturns, Working
<1>3. CallerStep => SpawnAgent \/ RegisterAgent
  BY DEF CallerStep, ConnectStep, ControlAnswered, ConnectFails, ControlTimesOut, Prompt,
     TurnStarts, Drains, IdleTimeout, Terminate, TerminateStep, Cancels, Reclaims,
     ReclaimTimesOut, Aborts, ShutsDown, GraceEnds, Abandon, At
<1> QED
  BY <1>2, <1>3 DEF Next

\* An agent of which nothing was asked can only ask for permissions.
LEMMA BlankAgent ==
  ASSUME Typed, Blank, caller \in {"new", "spawned"}, Running, AgentStep
  PROVE  Blank'
<1>1. /\ reader = "none" /\ worker = "none" /\ req = NoReq /\ turn = 0 /\ owes = 0
      /\ stdin = <<>> /\ notes = <<>> /\ buffered = <<>>
      /\ None(stdout, "update") /\ None(stdout, "response")
      /\ pending = {} /\ outcome = [i \in Id |-> "none"]
      /\ sent = [t \in 1..MaxTurns |-> 0]
  BY DEF Blank
<1>2. UNCHANGED <<linkVars, turnVars>>
  BY AgentFrame
<1>3. /\ owes' = 0 /\ stdin' = <<>> /\ sent' = sent
      /\ None(stdout', "update") /\ None(stdout', "response")
  <2>1. ~AgentReads /\ ~AgentUpdates /\ ~\E ok \in BOOLEAN : AgentAnswers(ok)
    BY <1>1, Constants DEF AgentReads, AgentUpdates, AgentAnswers
  <2>2. CASE AgentAsks
    <3> DEFINE m == [what |-> "permission"]
    <3>1. m \in Outbound /\ m.what = "permission" /\ Says(m) /\ UNCHANGED <<owes, sent>>
      BY <2>2, MessageFacts DEF AgentAsks
    <3>2. /\ Len(stdout') = Len(stdout) + 1 /\ stdout'[Len(stdout) + 1] = m
          /\ \A i \in 1..Len(stdout) : stdout'[i] = stdout[i]
          /\ stdin' = stdin /\ Len(stdout) \in Nat
      BY <3>1, AppendFacts DEF Says, Typed, TypeOK
    <3> HIDE DEF m
    <3> QED
      BY <1>1, <3>1, <3>2 DEF None
  <2>3. CASE AgentCloses \/ AgentExits \/ \E k \in Kids : AgentForks(k)
    BY <1>1, <2>3 DEF AgentCloses, AgentExits, AgentForks, agentVars
  <2> QED
    BY <2>1, <2>2, <2>3 DEF AgentStep
<1> QED
  BY <1>1, <1>2, <1>3 DEF Blank, linkVars, turnVars

LEMMA BlankStep == ASSUME Typed, Blank, [Next]_vars PROVE Blank'
<1> SUFFICES ASSUME Running', caller' \in {"new", "spawned"} PROVE Blank'
  BY DEF Blank
<1>1. caller \in {"new", "spawned"} /\ Running
  BY EndsOrProceeds
<1>2. CASE UNCHANGED vars
  BY <1>1, <1>2 DEF Blank, None, vars, agentVars, groupVars, linkVars, turnVars
<1>3. CASE Next
  <2>1. ~RegisterAgent /\ ~Exit
    BY DEF RegisterAgent, Exit, Running
  <2>2. CASE AgentStep
    BY <1>1, <2>2, BlankAgent
  <2>3. CASE SpawnAgent
    BY <1>1, <2>3 DEF Blank, None, SpawnAgent, CallerAt, agentVars, linkVars
  <2>4. CASE ReapDrains \/ ReapKills
    BY <1>1, <2>4 DEF Blank, None, ReapDrains, ReapKills, agentVars, linkVars, turnVars
  <2> QED
    BY <1>1, <1>3, <2>1, <2>2, <2>3, <2>4, NewStep
<1> QED
  BY <1>2, <1>3

LEMMA ExitedStep == ASSUME Exited, [Next]_vars PROVE Exited'
<1> USE DEF Exited, Running
<1>1. CASE AgentStep \/ UNCHANGED vars
  BY <1>1, AgentFrame DEF vars, turnVars
<1>2. CASE ReaderStep \/ RequestStep
  BY <1>2 DEF ReaderStep, ReaderUpdates, ReaderResponds, ReaderAsked, ReaderAnswers, ReaderFlushed, ReaderBroken, ReaderAt, ReaderEnds,
              ReaderMarks, ReaderWakes, Reading, RequestStep, ReqChecked, ReqInserted,
              ReqWritten, ReqFlushed, ReqBroken, ReqAt, turnVars
<1>3. CASE WorkerStep
  BY <1>3 DEF WorkerStep, StreamForwards, StreamEmpty, StreamWoken, StreamAnswered,
     StreamFlushes, StreamCompletes, StreamFails, WorkerReturns, WorkerAt, DropClient, ClientGone
<1>4. CASE CallerStep
  BY <1>4 DEF CallerStep, SpawnAgent, RegisterAgent, ConnectStep, ControlAnswered, ConnectFails,
     ControlTimesOut, Prompt, TurnStarts, Drains, IdleTimeout, Terminate, TerminateStep,
     Cancels, Reclaims, ReclaimTimesOut, Aborts, ShutsDown, GraceEnds, Abandon, CallerAt, At,
     DropClient, ClientGone, turnVars
<1>5. CASE ReapDrains \/ ReapKills \/ Exit
  BY <1>5 DEF ReapDrains, ReapKills, Exit, turnVars
<1> QED
  BY <1>1, <1>2, <1>3, <1>4, <1>5 DEF Next

\* The caller takes an update.
LEMMA DrainsOrdered ==
  ASSUME Typed, Ordered, Engaged => InFlight, Drains
  PROVE  Ordered'
<1>1. events # <<>> /\ caller = "draining" /\ turn' = turn /\ Running
  BY DEF Drains, At
<1>2. Held /\ turn # 0
  BY <1>1 DEF Engaged, InFlight, Phases
<1>3. /\ Head(events) = events[1] /\ events[1] \in Event /\ 1 \in 1..Len(events)
      /\ got \in Seq(Update)
  BY <1>1, TailFacts, TypeGroups DEF Typed, TurnTyped
<1>4. CASE events[1].what = "update"
  <2>1. got' = Append(got, events[1]) /\ events[1] \in Update
    BY <1>3, <1>4, MessageFacts DEF Drains
  <2>2. events[1] = Upd(turn, Len(got) + 1)
    BY <1>1, <1>2, <1>3, <1>4 DEF Held
  <2>3. /\ Len(got) \in Nat /\ Len(got') = Len(got) + 1
        /\ got'[Len(got) + 1] = events[1] /\ \A i \in 1..Len(got) : got'[i] = got[i]
    BY <1>3, <2>1, AppendFacts
  <2>4. ASSUME NEW i \in 1..Len(got') PROVE got'[i] = Upd(turn, i)
    <3>1. i \in 1..Len(got) \/ i = Len(got) + 1
      BY <2>3
    <3>2. CASE i \in 1..Len(got)
      BY <1>2, <2>3, <3>2 DEF Ordered
    <3>3. CASE i = Len(got) + 1
      BY <2>2, <2>3, <3>3
    <3> QED
      BY <3>1, <3>2, <3>3
  <2> QED
    BY <1>1, <2>4 DEF Ordered, Upd
<1>5. CASE events[1].what # "update"
  BY <1>1, <1>3, <1>5 DEF Drains, Ordered, Upd
<1> QED
  BY <1>4, <1>5

LEMMA OrderedStep ==
  ASSUME Typed, Ordered, Engaged => InFlight, [Next]_vars
  PROVE  Ordered'
<1>1. CASE UNCHANGED <<got, turn>>
  BY <1>1 DEF Ordered, Upd
<1>2. CASE got' = <<>>
  BY <1>2 DEF Ordered, Upd
<1>3. Drains \/ UNCHANGED <<got, turn>> \/ got' = <<>>
  <2>1. CASE AgentStep \/ UNCHANGED vars
    BY <2>1, AgentFrame DEF vars, turnVars
  <2>2. CASE ReaderStep \/ RequestStep
    BY <2>2 DEF ReaderStep, ReaderUpdates, ReaderResponds, ReaderAsked, ReaderAnswers,
       ReaderFlushed, ReaderBroken, ReaderAt, ReaderEnds, ReaderMarks, ReaderWakes, RequestStep, ReqChecked, ReqInserted,
       ReqWritten, ReqFlushed, ReqBroken, ReqAt, turnVars
  <2>3. CASE WorkerStep
    BY <2>3 DEF WorkerStep, StreamForwards, StreamEmpty, StreamWoken, StreamAnswered,
       StreamFlushes, StreamCompletes, StreamFails, WorkerReturns, WorkerAt, DropClient,
       ClientGone, LinkGone
  <2>4. CASE CallerStep
    BY <2>4 DEF CallerStep, SpawnAgent, RegisterAgent, ConnectStep, ControlAnswered, ConnectFails,
       ControlTimesOut, Prompt, TurnStarts, IdleTimeout, Terminate, TerminateStep, Cancels,
       Reclaims, ReclaimTimesOut, Aborts, ShutsDown, GraceEnds, Abandon, CallerAt,
       DropClient, ClientGone, LinkGone, turnVars
  <2>5. CASE ReapDrains \/ ReapKills \/ Exit
    BY <2>5 DEF ReapDrains, ReapKills, Exit, LinkGone, turnVars
  <2> QED
    BY <2>1, <2>2, <2>3, <2>4, <2>5 DEF Next
<1> QED
  BY <1>1, <1>2, <1>3, DrainsOrdered

-----------------------------------------------------------------------------
(* What a step that leaves a part's variables alone keeps.                   *)

LEMMA CurNat == ASSUME Typed PROVE Cur \in Nat /\ turn \in Nat /\ PromptOf(turn) \in Nat
<1>1. req.id \in {0} \cup Id /\ turn \in 0..MaxTurns
  BY DEF Typed, TypeOK
<1>2. req.id \in Nat
  BY <1>1, IdNat
<1>3. turn \in Nat /\ Controls \in Nat
  BY <1>1, Constants
<1> QED
  BY <1>2, <1>3 DEF Cur, PromptOf

LEMMA SameCur ==
  ASSUME UNCHANGED <<turn, caller>>, req'.id = req.id \/ turn # 0
  PROVE  Cur' = Cur
BY DEF Cur, PromptOf

LEMMA SamePhases ==
  ASSUME Phases, UNCHANGED <<caller, turn, worker, outcome, notes, buffered, stdout, req>>
  PROVE  Phases'
<1>1. Cur' = Cur
  BY SameCur
<1> QED
  BY <1>1 DEF Phases, Streams, None

LEMMA SameTokens ==
  ASSUME Tokens, UNCHANGED <<caller, turn, req, stdin, owes, stdout, outcome, pending>>
  PROVE  Tokens'
<1>1. Cur' = Cur
  BY SameCur
<1> QED
  BY <1>1 DEF Tokens, Quiet, None, Unwritten

LEMMA SameUnasked ==
  ASSUME Unasked, UNCHANGED <<caller, turn, outcome, pending, sent>>,
         req'.id = req.id \/ turn # 0
  PROVE  Unasked'
<1>1. Cur' = Cur
  BY SameCur
<1> QED
  BY <1>1 DEF Unasked

LEMMA SameHeld ==
  ASSUME Held, UNCHANGED <<caller, turn, got, events, worker, outcome, notes, buffered, sent>>,
         req'.id = req.id \/ turn # 0
  PROVE  Held'
<1>1. Cur' = Cur
  BY SameCur
<1> QED
  BY <1>1 DEF Held, Streams, Upd

LEMMA SameLined ==
  ASSUME Lined, UNCHANGED <<caller, turn, worker, got, events, buffered, notes, outcome>>,
         req'.id = req.id \/ turn # 0
  PROVE  Lined'
<1>1. Cur' = Cur
  BY SameCur
<1> QED
  BY <1>1 DEF Lined, Streams, Upd, Passed

LEMMA SamePiped ==
  ASSUME Piped, UNCHANGED <<turn, worker, got, events, buffered, notes, sent, stdout>>
  PROVE  Piped'
BY DEF Piped, Streams, Passed, Taken

LEMMA SameDelivered ==
  ASSUME Delivered, UNCHANGED <<caller, turn, got, sent>>
  PROVE  Delivered'
BY DEF Delivered

\* The caller's numbers.
LEMMA Lengths ==
  ASSUME Typed
  PROVE  /\ Len(stdin) \in Nat /\ Len(stdout) \in Nat /\ Len(notes) \in Nat
         /\ Len(buffered) \in Nat /\ Len(events) \in Nat /\ Len(got) \in Nat
         /\ Passed \in Nat /\ Taken \in Nat
         /\ \A t \in 1..MaxTurns : sent[t] \in Nat
<1>1. /\ Len(stdin) \in Nat /\ Len(stdout) \in Nat /\ Len(notes) \in Nat
      /\ Len(buffered) \in Nat /\ Len(events) \in Nat /\ Len(got) \in Nat
  BY LenProperties DEF Typed, TypeOK
<1>2. \A t \in 1..MaxTurns : sent[t] \in Nat
  BY Constants DEF Typed, TypeOK
<1> QED
  BY <1>1, <1>2 DEF Passed, Taken

-----------------------------------------------------------------------------
(* The agent's steps.                                                        *)

LEMMA RegisterFlight ==
  ASSUME Typed, Blank, RegisterAgent
  PROVE  InFlight'
<1>1. /\ worker = "none" /\ turn = 0 /\ owes = 0
      /\ stdin = <<>> /\ notes = <<>> /\ buffered = <<>>
      /\ None(stdout, "update") /\ None(stdout, "response")
      /\ pending = {} /\ outcome = [i \in Id |-> "none"]
      /\ sent = [t \in 1..MaxTurns |-> 0]
  BY DEF Blank, RegisterAgent, At
<1>2. /\ worker' = "none" /\ turn' = 0 /\ owes' = 0
      /\ stdin' = <<>> /\ stdout' = stdout /\ notes' = <<>> /\ buffered' = <<>>
      /\ pending' = {} /\ outcome' = outcome /\ sent' = sent
      /\ req' = [step |-> "check", id |-> 1] /\ caller' = "connecting"
  BY <1>1 DEF RegisterAgent, agentVars
<1>3. Cur' = 1 /\ 1 \in Id /\ 1 \in 1..Controls
  BY <1>2, IdFacts, Constants DEF Cur
<1>4. Phases' /\ Tokens'
  BY <1>1, <1>2, <1>3 DEF Phases, Tokens, Streams, None, Quiet, Unwritten
<1>5. Unasked'
  BY <1>1, <1>2, <1>3 DEF Unasked
<1>6. Held' /\ Lined' /\ Piped' /\ Delivered'
  BY <1>2 DEF Held, Lined, Piped, Delivered, Streams
<1> QED
  BY <1>4, <1>5, <1>6 DEF InFlight

LEMMA SaysFacts ==
  ASSUME Typed, NEW m \in Outbound, Says(m)
  PROVE  /\ Len(stdout') = Len(stdout) + 1 /\ stdout'[Len(stdout) + 1] = m
         /\ \A i \in 1..Len(stdout) : stdout'[i] = stdout[i]
         /\ stdin' = stdin
<1>1. stdout \in Seq(Outbound)
  BY DEF Typed, TypeOK
<1> QED
  BY <1>1, AppendFacts DEF Says

\* The agent reads the request, or some other message.
LEMMA ReadsTokens ==
  ASSUME Typed, Tokens, AgentReads, stdin \in Seq(Inbound)
  PROVE  Tokens'
<1>1. /\ Len(stdin) \in Nat /\ Len(stdin) >= 1 /\ 1 \in 1..Len(stdin) /\ Head(stdin) = stdin[1]
      /\ Len(stdin') = Len(stdin) - 1
      /\ \A i \in 1..Len(stdin') : i + 1 \in 1..Len(stdin) /\ stdin'[i] = stdin[i + 1]
  <2>1. stdin # <<>> /\ stdin' = Tail(stdin)
    BY DEF AgentReads
  <2>2. /\ Len(stdin) \in Nat /\ Len(stdin) >= 1 /\ Head(stdin) = stdin[1]
        /\ Len(stdin') = Len(stdin) - 1
        /\ \A i \in 1..Len(stdin) - 1 : stdin'[i] = stdin[i + 1]
    BY <2>1, TailFacts
  <2> QED
    BY <2>2
<1>2. UNCHANGED <<caller, turn, req, stdout, outcome, pending>>
  BY DEF AgentReads, linkVars, turnVars
<1>3. Cur' = Cur
  BY <1>2, SameCur
<1>4. CASE stdin[1].what = "request"
  <2>1. /\ stdin[1].id = Cur /\ None(stdout, "response")
        /\ \A l \in 1..Len(stdin) : stdin[l].what = "request" => l = 1
    BY <1>1, <1>4 DEF Tokens
  <2>2. owes' = Cur
    BY <1>1, <1>4, <2>1 DEF AgentReads
  <2>3. None(stdin', "request")
    BY <1>1, <2>1 DEF None
  <2>4. ~Unwritten /\ outcome[Cur] # "ok"
    BY <1>1, <1>4 DEF Tokens, Quiet, None
  <2> QED
    BY <1>2, <1>3, <2>1, <2>2, <2>3, <2>4 DEF Tokens, None, Unwritten
<1>5. CASE stdin[1].what # "request"
  <2>1. owes' = owes
    BY <1>1, <1>5 DEF AgentReads
  <2>2. ASSUME NEW k \in 1..Len(stdin'), stdin'[k].what = "request"
        PROVE  /\ stdin'[k].id = Cur /\ owes = 0 /\ None(stdout, "response")
               /\ \A l \in 1..Len(stdin') : stdin'[l].what = "request" => l = k
    <3>1. k + 1 \in 1..Len(stdin) /\ stdin[k + 1].what = "request" /\ stdin'[k] = stdin[k + 1]
      BY <1>1, <2>2
    <3>2. /\ stdin[k + 1].id = Cur /\ owes = 0 /\ None(stdout, "response")
          /\ \A l \in 1..Len(stdin) : stdin[l].what = "request" => l = k + 1
      BY <3>1 DEF Tokens
    <3>3. ASSUME NEW l \in 1..Len(stdin'), stdin'[l].what = "request" PROVE l = k
      <4>1. l + 1 = k + 1
        BY <1>1, <3>2, <3>3
      <4> QED
        BY <4>1
    <3> QED
      BY <3>1, <3>2, <3>3
  <2>3. None(stdin, "request") => None(stdin', "request")
    BY <1>1 DEF None
  <2> QED
    BY <1>2, <1>3, <2>1, <2>2, <2>3 DEF Tokens, Quiet, None, Unwritten
<1> QED
  BY <1>4, <1>5

\* The agent works on the prompt of the turn that the caller drains.
LEMMA OwesPrompt ==
  ASSUME Typed, InFlight, Engaged, owes # 0
  PROVE  /\ owes = Cur /\ ~Unwritten /\ outcome[Cur] # "ok"
         /\ None(stdout, "response") /\ None(stdin, "request")
         /\ owes > Controls => owes - Controls = turn /\ turn \in 1..MaxTurns
                               /\ caller = "draining"
<1>1. Phases /\ Tokens
  BY DEF InFlight
<1>2. /\ owes = Cur /\ ~Unwritten /\ outcome[Cur] # "ok"
      /\ None(stdout, "response") /\ None(stdin, "request")
  BY <1>1 DEF Tokens, Quiet, None
<1>3. caller \in {"connecting", "draining"}
  BY <1>1, <1>2 DEF Phases, Engaged
<1>4. turn \in 0..MaxTurns /\ Controls \in Nat /\ MaxTurns \in Nat
  BY Constants DEF Typed, TypeOK
<1>5. CASE caller = "connecting"
  BY <1>1, <1>2, <1>4, <1>5 DEF Phases, Cur
<1>6. CASE caller = "draining"
  BY <1>1, <1>2, <1>4, <1>6 DEF Phases, Cur, PromptOf
<1> QED
  BY <1>2, <1>3, <1>5, <1>6

LEMMA UpdatesFlight ==
  ASSUME Typed, InFlight, Engaged, AgentUpdates
  PROVE  InFlight'
<1> DEFINE u == [what |-> "update", turn |-> turn, n |-> sent[turn] + 1]
<1>1. owes \in Nat /\ Controls \in Nat /\ owes > Controls /\ owes # 0
  BY IdNat, Constants DEF AgentUpdates, Typed, TypeOK
<1>2. /\ owes = Cur /\ ~Unwritten /\ outcome[Cur] # "ok"
      /\ None(stdout, "response") /\ None(stdin, "request")
      /\ owes - Controls = turn /\ turn \in 1..MaxTurns /\ caller = "draining"
  BY <1>1, OwesPrompt
<1>3. /\ sent' = [sent EXCEPT ![turn] = @ + 1] /\ sent[turn] < MaxChunks
      /\ Says([what |-> "update", turn |-> turn, n |-> sent'[turn]])
      /\ UNCHANGED <<owes, asked>>
  BY <1>2 DEF AgentUpdates
<1>4. sent'[turn] = sent[turn] + 1 /\ sent[turn] + 1 \in 1..MaxChunks
      /\ \A t \in 1..MaxTurns : t # turn => sent'[t] = sent[t]
  BY <1>2, <1>3, Constants DEF Typed, TypeOK
<1>5. u \in Outbound /\ Says(u)
  BY <1>2, <1>3, <1>4, MessageFacts
<1>6. /\ Len(stdout') = Len(stdout) + 1 /\ stdout'[Len(stdout) + 1] = u
      /\ \A i \in 1..Len(stdout) : stdout'[i] = stdout[i]
      /\ stdin' = stdin /\ Len(stdout) \in Nat
  BY <1>5, SaysFacts, Lengths
<1>7. UNCHANGED <<app, caller, turn, req, worker, got, events, buffered, notes, outcome, pending>>
  BY <1>5 DEF Says, linkVars, turnVars
<1>8. Cur' = Cur
  BY <1>7, SameCur
<1> HIDE DEF u
<1>9. Phases'
  BY <1>2, <1>7, <1>8 DEF InFlight, Phases, Streams
<1>10. Tokens'
  <2>1. None(stdout', "response")
    <3>1. u.what = "update"
      BY DEF u
    <3> QED
      BY <1>2, <1>6, <3>1 DEF None
  <2> QED
    BY <1>2, <1>3, <1>6, <1>7, <1>8, <2>1 DEF Tokens, None, Unwritten
<1>11. Unasked'
  BY <1>2, <1>4, <1>7, <1>8, CurNat DEF InFlight, Unasked
<1>12. Held' /\ Lined' /\ Delivered'
  <2>1. Held'
    BY <1>2, <1>7, <1>8 DEF InFlight, Held, Streams, Upd
  <2> QED
    BY <1>2, <1>7, <2>1, SameLined DEF InFlight, Delivered
<1>13. Piped'
  <2> SUFFICES ASSUME Streams PROVE Piped'
    BY <1>7 DEF Piped, Streams
  <2>1. Piped
    BY DEF InFlight
  <2>2. Taken' = Taken /\ Taken \in Nat /\ sent[turn] \in Nat
    BY <1>2, <1>7, Lengths DEF Taken, Passed
  <2>3. u.what = "update" /\ u.turn = turn /\ u.n = sent[turn] + 1
    BY DEF u
  <2>4. ASSUME NEW k \in 1..Len(stdout), stdout[k].what = "update"
        PROVE  /\ stdout[k].turn = turn
               /\ Taken < stdout[k].n /\ stdout[k].n <= sent[turn] /\ stdout[k].n \in Nat
    <3>1. stdout[k] \in Update
      BY <2>4, MessageFacts DEF Typed, TypeOK
    <3>2. stdout[k].n \in Nat
      BY <3>1, Constants DEF Update
    <3> QED
      BY <2>1, <2>4, <3>2 DEF Piped
  <2>5. ASSUME NEW k \in 1..Len(stdout'), stdout'[k].what = "update"
        PROVE  /\ stdout'[k].turn = turn
               /\ Taken < stdout'[k].n /\ stdout'[k].n <= sent'[turn]
    <3>1. Taken <= sent[turn]
      BY <2>1 DEF Piped
    <3>2. CASE k \in 1..Len(stdout)
      BY <1>4, <1>6, <2>2, <2>4, <2>5, <3>2
    <3>3. CASE k = Len(stdout) + 1
      BY <1>4, <1>6, <2>2, <2>3, <3>1, <3>3
    <3> QED
      BY <1>6, <3>2, <3>3
  <2>6. ASSUME NEW k \in 1..Len(stdout'), NEW l \in 1..Len(stdout'),
               stdout'[k].what = "update", stdout'[l].what = "update", k < l
        PROVE  stdout'[k].n < stdout'[l].n
    <3>1. k \in 1..Len(stdout) /\ stdout'[k] = stdout[k]
      BY <1>6, <2>6
    <3>2. CASE l \in 1..Len(stdout)
      BY <1>6, <2>1, <2>6, <3>1, <3>2 DEF Piped
    <3>3. CASE l = Len(stdout) + 1
      BY <1>6, <2>2, <2>3, <2>4, <2>6, <3>1, <3>3
    <3> QED
      BY <1>6, <3>2, <3>3
  <2>7. ASSUME NEW n \in (Taken + 1)..sent'[turn]
        PROVE  \E k \in 1..Len(stdout') : stdout'[k].what = "update" /\ stdout'[k].n = n
    <3>1. CASE n \in (Taken + 1)..sent[turn]
      <4>1. PICK k \in 1..Len(stdout) : stdout[k].what = "update" /\ stdout[k].n = n
        BY <2>1, <3>1 DEF Piped
      <4> QED
        BY <1>6, <4>1
    <3>2. CASE n = sent[turn] + 1
      BY <1>6, <2>3, <3>2
    <3> QED
      BY <1>4, <2>2, <3>1, <3>2
  <2>8. Taken <= sent'[turn]
    BY <1>4, <2>1, <2>2 DEF Piped
  <2> QED
    BY <1>7, <2>2, <2>5, <2>6, <2>7, <2>8 DEF Piped
<1> QED
  BY <1>9, <1>10, <1>11, <1>12, <1>13 DEF InFlight

\* A message that is no update enters the agent's stdout.
LEMMA SaysOther ==
  ASSUME Typed, InFlight, NEW m \in Outbound, m.what # "update", Says(m), UNCHANGED sent
  PROVE  Phases' /\ Unasked' /\ Held' /\ Lined' /\ Piped' /\ Delivered'
<1>1. /\ Len(stdout') = Len(stdout) + 1 /\ stdout'[Len(stdout) + 1] = m
      /\ \A i \in 1..Len(stdout) : stdout'[i] = stdout[i]
      /\ Len(stdout) \in Nat
  BY SaysFacts, Lengths
<1>2. UNCHANGED <<app, caller, turn, req, worker, got, events, buffered, notes, outcome, pending>>
  BY DEF Says, linkVars, turnVars
<1>3. Cur' = Cur
  BY <1>2, SameCur
<1>4. None(stdout, "update") => None(stdout', "update")
  BY <1>1 DEF None
<1>5. Phases'
  BY <1>2, <1>3, <1>4 DEF InFlight, Phases, Streams
<1>6. Unasked' /\ Held' /\ Lined' /\ Delivered'
  BY <1>2, SameUnasked, SameHeld, SameLined, SameDelivered DEF InFlight
<1>7. Piped'
  <2>1. \A k \in 1..Len(stdout') :
          stdout'[k].what = "update" => k \in 1..Len(stdout) /\ stdout'[k] = stdout[k]
    BY <1>1
  <2>2. Piped /\ Taken' = Taken
    BY <1>2 DEF InFlight, Taken, Passed
  <2>3. 1..Len(stdout) \subseteq 1..Len(stdout')
    BY <1>1
  <2>4. ASSUME NEW n \in (Taken + 1)..sent[turn], Streams
        PROVE  \E k \in 1..Len(stdout') : stdout'[k].what = "update" /\ stdout'[k].n = n
    <3>1. PICK k \in 1..Len(stdout) : stdout[k].what = "update" /\ stdout[k].n = n
      BY <2>2, <2>4 DEF Piped
    <3> QED
      BY <1>1, <2>3, <3>1
  <2> QED
    BY <1>2, <2>1, <2>2, <2>4 DEF Piped, Streams
<1> QED
  BY <1>5, <1>6, <1>7

LEMMA AsksFlight ==
  ASSUME Typed, InFlight, Engaged, AgentAsks
  PROVE  InFlight'
<1> DEFINE m == [what |-> "permission"]
<1>1. m \in Outbound /\ m.what = "permission" /\ Says(m) /\ UNCHANGED <<owes, sent>>
  BY MessageFacts DEF AgentAsks
<1>4. /\ Len(stdout') = Len(stdout) + 1 /\ stdout'[Len(stdout) + 1] = m
      /\ \A i \in 1..Len(stdout) : stdout'[i] = stdout[i]
      /\ stdin' = stdin /\ Len(stdout) \in Nat
  BY <1>1, SaysFacts, Lengths
<1>5. UNCHANGED <<caller, turn, req, outcome, pending>>
  BY <1>1 DEF Says, linkVars, turnVars
<1>6. Cur' = Cur
  BY <1>5, SameCur
<1> HIDE DEF m
<1>7. Tokens'
  <2>1. \A k \in 1..Len(stdout') :
          stdout'[k].what # "permission" => k \in 1..Len(stdout) /\ stdout'[k] = stdout[k]
    BY <1>1, <1>4
  <2>2. Tokens
    BY DEF InFlight
  <2>3. \A what : what # "permission" => (None(stdout, what) => None(stdout', what))
    BY <1>1, <1>4 DEF None
  <2>4. ASSUME NEW k \in 1..Len(stdout'), stdout'[k].what = "response"
        PROVE  /\ stdout'[k].id = Cur /\ owes = 0
               /\ \A l \in 1..Len(stdout') : k < l => stdout'[l].what = "permission"
    <3>1. k \in 1..Len(stdout) /\ stdout[k].what = "response" /\ stdout'[k] = stdout[k]
      BY <2>1, <2>4
    <3>2. /\ stdout[k].id = Cur /\ owes = 0
          /\ \A l \in 1..Len(stdout) : k < l => stdout[l].what = "permission"
      BY <2>2, <3>1 DEF Tokens
    <3> QED
      BY <2>1, <3>1, <3>2
  <2>5. Quiet => Quiet'
    BY <1>1, <1>4, <2>3 DEF Quiet
  <2> QED
    BY <1>1, <1>4, <1>5, <1>6, <2>2, <2>3, <2>4, <2>5 DEF Tokens, Unwritten
<1> QED
  BY <1>1, <1>7, SaysOther DEF InFlight

LEMMA AnswersFlight ==
  ASSUME Typed, InFlight, Engaged, NEW ok \in BOOLEAN, AgentAnswers(ok)
  PROVE  InFlight'
<1> DEFINE m == [what |-> "response", id |-> owes, ok |-> ok]
<1>1. owes # 0 /\ owes' = 0 /\ Says(m) /\ UNCHANGED sent
  BY DEF AgentAnswers
<1>2. m \in Outbound /\ m.what = "response" /\ m.id = owes
  BY <1>1, MessageFacts DEF Typed, TypeOK
<1>3. /\ owes = Cur /\ ~Unwritten /\ outcome[Cur] # "ok"
      /\ None(stdout, "response") /\ None(stdin, "request")
  BY <1>1, OwesPrompt
<1>4. /\ Len(stdout') = Len(stdout) + 1 /\ stdout'[Len(stdout) + 1] = m
      /\ \A i \in 1..Len(stdout) : stdout'[i] = stdout[i]
      /\ stdin' = stdin /\ Len(stdout) \in Nat
  BY <1>1, <1>2, SaysFacts, Lengths
<1>5. UNCHANGED <<caller, turn, req, outcome, pending>>
  BY <1>1 DEF Says, linkVars, turnVars
<1>6. Cur' = Cur
  BY <1>5, SameCur
<1> HIDE DEF m
<1>7. Tokens'
  <2>1. ASSUME NEW k \in 1..Len(stdout'), stdout'[k].what = "response"
        PROVE  /\ stdout'[k].id = Cur
               /\ \A l \in 1..Len(stdout') : k < l => stdout'[l].what = "permission"
    <3>1. k = Len(stdout) + 1
      BY <1>3, <1>4, <2>1 DEF None
    <3> QED
      BY <1>2, <1>3, <1>4, <3>1
  <2> QED
    BY <1>1, <1>3, <1>4, <1>5, <1>6, <2>1 DEF Tokens, None, Unwritten
<1> QED
  BY <1>1, <1>2, <1>7, SaysOther DEF InFlight

\* The agent forgets what it owes: it exits, or is killed.
LEMMA ForgetsFlight ==
  ASSUME Typed, InFlight, owes' \in {0, owes},
         UNCHANGED <<sent, stdin, stdout, linkVars, turnVars, caller>>
  PROVE  InFlight'
<1>1. UNCHANGED <<caller, turn, req, worker, got, events, buffered, notes, outcome, pending,
                  sent, stdin, stdout>>
  BY DEF linkVars, turnVars
<1>2. Cur' = Cur
  BY <1>1, SameCur
<1>3. Tokens'
  BY <1>1, <1>2 DEF InFlight, Tokens, Quiet, None, Unwritten
<1> QED
  BY <1>1, <1>3, SamePhases, SameUnasked, SameHeld, SameLined, SamePiped, SameDelivered
     DEF InFlight

LEMMA AgentFlight ==
  ASSUME Typed, InFlight, Engaged, AgentStep
  PROVE  InFlight'
<1>1. CASE AgentReads
  <2>1. Tokens'
    BY <1>1, ReadsTokens DEF InFlight, Typed, TypeOK
  <2>2. UNCHANGED <<app, caller, turn, req, worker, got, events, buffered, notes, outcome,
                    pending, sent, stdout>>
    BY <1>1 DEF AgentReads, linkVars, turnVars
  <2> QED
    BY <2>1, <2>2, SamePhases, SameUnasked, SameHeld, SameLined, SamePiped, SameDelivered
       DEF InFlight
<1>2. ASSUME NEW k \in Kids, AgentForks(k) PROVE InFlight'
  BY <1>2, ForgetsFlight DEF AgentForks, agentVars
<1>3. CASE AgentCloses \/ AgentExits
  BY <1>3, ForgetsFlight DEF AgentCloses, AgentExits
<1> QED
  BY <1>1, <1>2, <1>3, UpdatesFlight, AsksFlight, AnswersFlight DEF AgentStep

-----------------------------------------------------------------------------
(* The reader's steps.                                                       *)

\* The reader takes the next message.
LEMMA TakesFacts ==
  ASSUME Typed, stdout # <<>>, stdout' = Tail(stdout)
  PROVE  /\ Len(stdout) \in Nat /\ Len(stdout) >= 1 /\ 1 \in 1..Len(stdout)
         /\ Head(stdout) = stdout[1] /\ stdout[1] \in Outbound
         /\ Len(stdout') = Len(stdout) - 1
         /\ \A i \in 1..Len(stdout') : i + 1 \in 1..Len(stdout) /\ stdout'[i] = stdout[i + 1]
<1>1. stdout \in Seq(Outbound)
  BY DEF Typed, TypeOK
<1>2. /\ Len(stdout) \in Nat /\ Len(stdout) >= 1
      /\ Head(stdout) = stdout[1] /\ stdout[1] \in Outbound
      /\ Len(stdout') = Len(stdout) - 1
      /\ \A i \in 1..Len(stdout) - 1 : stdout'[i] = stdout[i + 1]
  BY <1>1, TailFacts
<1> QED
  BY <1>2

LEMMA TakesTokens ==
  ASSUME Typed, InFlight, stdout # <<>>, stdout' = Tail(stdout),
         stdout[1].what # "response",
         UNCHANGED <<caller, turn, req, stdin, owes, outcome, pending>>
  PROVE  Tokens'
<1>1. /\ Len(stdout) \in Nat
      /\ Len(stdout') = Len(stdout) - 1
      /\ \A i \in 1..Len(stdout') : i + 1 \in 1..Len(stdout) /\ stdout'[i] = stdout[i + 1]
  BY TakesFacts
<1>2. Cur' = Cur
  BY SameCur
<1>3. \A what : None(stdout, what) => None(stdout', what)
  BY <1>1 DEF None
<1>4. ASSUME NEW k \in 1..Len(stdout'), stdout'[k].what = "response"
      PROVE  /\ stdout'[k].id = Cur /\ owes = 0
             /\ \A l \in 1..Len(stdout') : k < l => stdout'[l].what = "permission"
  <2>1. /\ stdout[k + 1].id = Cur /\ owes = 0
        /\ \A l \in 1..Len(stdout) : k + 1 < l => stdout[l].what = "permission"
    BY <1>1, <1>4 DEF InFlight, Tokens
  <2>2. ASSUME NEW l \in 1..Len(stdout'), k < l PROVE stdout'[l].what = "permission"
    <3>1. k + 1 < l + 1 /\ l + 1 \in 1..Len(stdout) /\ stdout'[l] = stdout[l + 1]
      BY <1>1, <2>2
    <3> QED
      BY <2>1, <3>1
  <2> QED
    BY <1>1, <1>4, <2>1, <2>2
<1>5. Tokens
  BY DEF InFlight
<1>6. Quiet => Quiet'
  BY <1>3 DEF Quiet, None
<1> QED
  BY <1>2, <1>3, <1>4, <1>5, <1>6 DEF Tokens, None, Unwritten

LEMMA ReaderAskedFlight ==
  ASSUME Typed, InFlight, Engaged, ReaderAsked
  PROVE  InFlight'
<1>1. /\ stdout # <<>> /\ stdout' = Tail(stdout) /\ Head(stdout).what = "permission"
      /\ UNCHANGED <<app, caller, turn, req, stdin, owes, outcome, pending, worker, notes,
                     buffered, events, got, sent>>
  BY DEF ReaderAsked, turnVars
<1>2. /\ Len(stdout) \in Nat /\ Len(stdout') = Len(stdout) - 1
      /\ stdout[1].what = "permission"
      /\ \A i \in 1..Len(stdout') : i + 1 \in 1..Len(stdout) /\ stdout'[i] = stdout[i + 1]
  BY <1>1, TakesFacts
<1>3. Tokens'
  BY <1>1, <1>2, TakesTokens
<1>4. Cur' = Cur
  BY <1>1, SameCur
<1>5. None(stdout, "update") => None(stdout', "update")
  BY <1>2 DEF None
<1>6. Phases'
  BY <1>1, <1>4, <1>5 DEF InFlight, Phases, Streams
<1>7. Piped'
  <2>1. Piped /\ Taken' = Taken
    BY <1>1 DEF InFlight, Taken, Passed
  <2> SUFFICES ASSUME Streams PROVE Piped'
    BY <1>1 DEF Piped, Streams
  <2>2. ASSUME NEW k \in 1..Len(stdout'), stdout'[k].what = "update"
        PROVE  /\ stdout'[k].turn = turn
               /\ Taken < stdout'[k].n /\ stdout'[k].n <= sent[turn]
    BY <1>2, <2>1, <2>2 DEF Piped
  <2>3. ASSUME NEW k \in 1..Len(stdout'), NEW l \in 1..Len(stdout'),
               stdout'[k].what = "update", stdout'[l].what = "update", k < l
        PROVE  stdout'[k].n < stdout'[l].n
    <3>1. /\ k + 1 < l + 1 /\ k + 1 \in 1..Len(stdout) /\ l + 1 \in 1..Len(stdout)
          /\ stdout'[k] = stdout[k + 1] /\ stdout'[l] = stdout[l + 1]
      BY <1>2, <2>3
    <3>2. stdout[k + 1].n < stdout[l + 1].n
      BY <2>1, <2>3, <3>1 DEF Piped
    <3> QED
      BY <3>1, <3>2
  <2>4. ASSUME NEW n \in (Taken + 1)..sent[turn]
        PROVE  \E k \in 1..Len(stdout') : stdout'[k].what = "update" /\ stdout'[k].n = n
    <3>1. PICK k \in 1..Len(stdout) : stdout[k].what = "update" /\ stdout[k].n = n
      BY <2>1, <2>4 DEF Piped
    <3>2. k # 1
      BY <1>2, <3>1
    <3>3. k - 1 \in 1..Len(stdout') /\ (k - 1) + 1 = k
      BY <1>2, <3>1, <3>2
    <3>4. stdout'[k - 1] = stdout[k]
      BY <1>2, <3>3
    <3> QED
      BY <3>1, <3>3, <3>4
  <2> QED
    BY <1>1, <2>1, <2>2, <2>3, <2>4 DEF Piped
<1> QED
  BY <1>1, <1>3, <1>6, <1>7, SameUnasked, SameHeld, SameLined, SameDelivered DEF InFlight

LEMMA CurId == ASSUME Typed, Phases PROVE Cur \in Id
<1>1. turn \in 0..MaxTurns /\ req.id \in {0} \cup Id
  BY DEF Typed, TypeOK
<1> QED
  BY <1>1, Constants DEF Phases, Cur, Id, PromptOf

\* The first update of the stdout is the next one of the turn.
LEMMA NextUpdate ==
  ASSUME Typed, InFlight, Streams, stdout # <<>>, stdout[1].what = "update",
         stdout[1] \in Outbound, Len(stdout) >= 1
  PROVE  stdout[1] = Upd(turn, Taken + 1) /\ Taken + 1 <= sent[turn]
<1>1. Piped /\ Taken \in Nat /\ Len(stdout) \in Nat /\ turn # 0
  BY Lengths DEF InFlight, Phases, Streams
<1>2. stdout[1] \in Update
  BY MessageFacts
<1>3. stdout[1] = [what |-> "update", turn |-> stdout[1].turn, n |-> stdout[1].n]
      /\ stdout[1].n \in Nat
  BY <1>2, Constants DEF Update
<1>4. stdout[1].turn = turn /\ Taken < stdout[1].n /\ stdout[1].n <= sent[turn]
  BY <1>1 DEF Piped
<1>5. sent[turn] \in Nat
  BY <1>1, Lengths DEF Typed, TypeOK
<1>6. Taken + 1 \in (Taken + 1)..sent[turn]
  BY <1>1, <1>3, <1>4, <1>5
<1>7. PICK k \in 1..Len(stdout) : stdout[k].what = "update" /\ stdout[k].n = Taken + 1
  BY <1>1, <1>6 DEF Piped
<1>8. k = 1
  <2>1. CASE 1 < k
    <3>1. stdout[1].n < stdout[k].n
      BY <1>1, <1>7, <2>1 DEF Piped
    <3> QED
      BY <1>1, <1>3, <1>4, <1>7, <3>1
  <2> QED
    BY <1>7, <2>1
<1> QED
  BY <1>3, <1>4, <1>6, <1>7, <1>8, <1>1, <1>5 DEF Upd

LEMMA ReaderUpdatesFlight ==
  ASSUME Typed, InFlight, Engaged, ReaderUpdates
  PROVE  InFlight'
<1>1. /\ stdout # <<>> /\ stdout' = Tail(stdout) /\ Head(stdout).what = "update"
      /\ notes' = Append(notes, Head(stdout))
      /\ UNCHANGED <<app, caller, turn, req, stdin, owes, outcome, pending, worker, buffered,
                     events, got, sent>>
  BY DEF ReaderUpdates, turnVars
<1>2. /\ Len(stdout) \in Nat /\ Len(stdout) >= 1 /\ 1 \in 1..Len(stdout)
      /\ Len(stdout') = Len(stdout) - 1
      /\ Head(stdout) = stdout[1] /\ stdout[1] \in Outbound /\ stdout[1].what = "update"
      /\ \A i \in 1..Len(stdout') : i + 1 \in 1..Len(stdout) /\ stdout'[i] = stdout[i + 1]
  BY <1>1, TakesFacts
<1>3. Cur' = Cur
  BY <1>1, SameCur
<1>4. Phases /\ Tokens /\ Held /\ Lined /\ Piped
  BY DEF InFlight
<1>5. caller = "draining" /\ outcome[Cur] # "ok"
  BY <1>2, <1>4 DEF Phases, Tokens, None
<1>6. Tokens'
  BY <1>1, <1>2, TakesTokens
<1>7. Phases'
  BY <1>1, <1>3, <1>4, <1>5 DEF Phases, Streams
<1>8. Held'
  BY <1>1, <1>3, <1>4, <1>5 DEF Held, Streams, Upd
<1>9. /\ Len(notes) \in Nat /\ Len(notes') = Len(notes) + 1
      /\ notes'[Len(notes) + 1] = stdout[1]
      /\ \A i \in 1..Len(notes) : notes'[i] = notes[i]
  <2>1. notes \in Seq(Update) /\ stdout[1] \in Update
    BY <1>2, MessageFacts DEF Typed, TypeOK
  <2> QED
    BY <1>1, <1>2, <2>1, AppendFacts
<1>10. Streams => stdout[1] = Upd(turn, Taken + 1) /\ Taken + 1 <= sent[turn]
  BY <1>1, <1>2, NextUpdate
<1>11. Lined'
  <2> SUFFICES ASSUME Streams PROVE Lined'
    BY <1>1 DEF Lined, Streams
  <2>1. Passed' = Passed /\ Passed \in Nat /\ Len(buffered) \in Nat
    BY <1>1, Lengths DEF Passed
  <2>2. worker # "flushing" /\ buffered = <<>>
    BY <1>4, <1>5 DEF Lined
  <2>3. ASSUME NEW i \in 1..Len(notes') PROVE notes'[i] = Upd(turn, Passed + Len(buffered) + i)
    <3>1. CASE i \in 1..Len(notes)
      BY <1>4, <1>9, <3>1 DEF Lined
    <3>2. CASE i = Len(notes) + 1
      <4>1. Taken + 1 = Passed + Len(buffered) + i
        BY <1>9, <2>1, <3>2 DEF Taken
      <4> QED
        BY <1>9, <1>10, <3>2, <4>1
    <3> QED
      BY <1>9, <3>1, <3>2
  <2> QED
    BY <1>1, <1>4, <2>1, <2>2, <2>3 DEF Lined, Streams, Upd
<1>12. Piped'
  <2> SUFFICES ASSUME Streams PROVE Piped'
    BY <1>1 DEF Piped, Streams
  <2>1. Taken' = Taken + 1 /\ Taken \in Nat
    BY <1>1, <1>9, Lengths DEF Taken, Passed
  <2>2. stdout[1].n = Taken + 1 /\ Taken + 1 <= sent[turn]
    BY <1>10 DEF Upd
  <2>3. ASSUME NEW k \in 1..Len(stdout'), stdout'[k].what = "update"
        PROVE  /\ stdout'[k].turn = turn
               /\ Taken + 1 < stdout'[k].n /\ stdout'[k].n <= sent[turn]
    <3>1. /\ k + 1 \in 1..Len(stdout) /\ 1 < k + 1 /\ stdout'[k] = stdout[k + 1]
      BY <1>2
    <3>2. stdout[1].n < stdout[k + 1].n
      BY <1>2, <1>4, <2>3, <3>1 DEF Piped
    <3> QED
      BY <1>4, <2>2, <2>3, <3>1, <3>2 DEF Piped
  <2>4. ASSUME NEW k \in 1..Len(stdout'), NEW l \in 1..Len(stdout'),
               stdout'[k].what = "update", stdout'[l].what = "update", k < l
        PROVE  stdout'[k].n < stdout'[l].n
    <3>1. /\ k + 1 < l + 1 /\ k + 1 \in 1..Len(stdout) /\ l + 1 \in 1..Len(stdout)
          /\ stdout'[k] = stdout[k + 1] /\ stdout'[l] = stdout[l + 1]
      BY <1>2, <2>4
    <3>2. stdout[k + 1].n < stdout[l + 1].n
      BY <1>4, <2>4, <3>1 DEF Piped
    <3> QED
      BY <3>1, <3>2
  <2>5. ASSUME NEW n \in (Taken + 2)..sent[turn]
        PROVE  \E k \in 1..Len(stdout') : stdout'[k].what = "update" /\ stdout'[k].n = n
    <3>1. n \in (Taken + 1)..sent[turn] /\ n # Taken + 1
      BY <2>1
    <3>2. PICK k \in 1..Len(stdout) : stdout[k].what = "update" /\ stdout[k].n = n
      BY <1>4, <3>1 DEF Piped
    <3>3. k # 1
      BY <2>2, <3>1, <3>2
    <3>4. k - 1 \in 1..Len(stdout') /\ (k - 1) + 1 = k
      BY <1>2, <3>2, <3>3
    <3>5. stdout'[k - 1] = stdout[k]
      BY <1>2, <3>4
    <3> QED
      BY <3>2, <3>4, <3>5
  <2>6. (Taken + 1) + 1 = Taken + 2
    BY <2>1
  <2> QED
    BY <1>1, <2>1, <2>2, <2>3, <2>4, <2>5, <2>6 DEF Piped
<1> QED
  BY <1>1, <1>6, <1>7, <1>8, <1>11, <1>12, SameUnasked, SameDelivered DEF InFlight

LEMMA ReaderRespondsFlight ==
  ASSUME Typed, InFlight, Engaged, ReaderResponds
  PROVE  InFlight'
<1>1. /\ stdout # <<>> /\ stdout' = Tail(stdout) /\ Head(stdout).what = "response"
      /\ pending' = pending \ {Head(stdout).id}
      /\ UNCHANGED <<app, caller, turn, req, stdin, owes, notes, worker, buffered,
                     events, got, sent>>
  BY DEF ReaderResponds, turnVars
<1>2. /\ Len(stdout) \in Nat /\ 1 \in 1..Len(stdout) /\ Len(stdout') = Len(stdout) - 1
      /\ Head(stdout) = stdout[1] /\ stdout[1].what = "response"
      /\ \A i \in 1..Len(stdout') : i + 1 \in 1..Len(stdout) /\ stdout'[i] = stdout[i + 1]
  BY <1>1, TakesFacts
<1>3. Cur' = Cur /\ Cur \in Id
  BY <1>1, SameCur, CurId DEF InFlight
<1>4. Phases /\ Tokens /\ Held /\ Lined /\ Piped /\ Unasked
  BY DEF InFlight
<1>5. /\ stdout[1].id = Cur /\ owes = 0
      /\ \A l \in 1..Len(stdout) : 1 < l => stdout[l].what = "permission"
  BY <1>2, <1>4 DEF Tokens
<1>6. /\ ~None(stdout, "response") /\ None(stdin, "request") /\ ~Unwritten
      /\ outcome[Cur] # "ok"
  <2>1. ~None(stdout, "response")
    BY <1>2 DEF None
  <2> QED
    BY <1>4, <2>1 DEF Tokens, Quiet, None
<1>7. caller \in {"connecting", "draining"} /\ worker # "flushing"
  BY <1>4, <1>6 DEF Phases, Lined, Streams, Engaged
<1>8. None(stdout', "update") /\ None(stdout', "response")
  <2>1. ASSUME NEW k \in 1..Len(stdout') PROVE stdout'[k].what = "permission"
    <3>1. k + 1 \in 1..Len(stdout) /\ 1 < k + 1 /\ stdout'[k] = stdout[k + 1]
      BY <1>2, <2>1
    <3> QED
      BY <1>5, <3>1
  <2> QED
    BY <2>1 DEF None
<1>9. /\ outcome \in [Id -> {"none", "ok", "error"}] /\ pending \subseteq Id
      /\ outcome' = IF Cur \in pending
                      THEN [outcome EXCEPT ![Cur] = IF Head(stdout).ok THEN "ok" ELSE "error"]
                      ELSE outcome
  BY <1>2, <1>5 DEF Typed, TypeOK, ReaderResponds
<1>10. Phases'
  BY <1>1, <1>3, <1>4, <1>7, <1>8 DEF Phases, Streams
<1>11. Tokens'
  <2>1. Quiet' /\ Cur \notin pending'
    BY <1>1, <1>2, <1>5, <1>6, <1>8 DEF Quiet, None
  <2>2. \A k \in 1..Len(stdin') : stdin'[k].what # "request"
    BY <1>1, <1>6 DEF None
  <2>3. owes' = 0 /\ ~Unwritten'
    BY <1>1, <1>5, <1>6 DEF Unwritten
  <2> QED
    BY <1>3, <1>8, <2>1, <2>2, <2>3 DEF Tokens, None
<1>12. Unasked'
  <2>1. \A i \in Id : i > Cur => outcome'[i] = outcome[i]
    BY <1>3, <1>9, CurNat
  <2> QED
    BY <1>1, <1>3, <1>4, <2>1 DEF Unasked
<1>13. Held'
  BY <1>1, <1>3, <1>4, <1>6 DEF Held, Streams, Upd
<1>14. Lined'
  BY <1>1, <1>3, <1>4, <1>7 DEF Lined, Streams, Upd, Passed
<1>15. Piped'
  <2> SUFFICES ASSUME Streams PROVE Piped'
    BY <1>1 DEF Piped, Streams
  <2>1. Taken' = Taken /\ Taken \in Nat
    BY <1>1, Lengths DEF Taken, Passed
  <2>2. ASSUME NEW n \in (Taken + 1)..sent[turn] PROVE FALSE
    <3>1. PICK k \in 1..Len(stdout) : stdout[k].what = "update" /\ stdout[k].n = n
      BY <1>4, <2>2 DEF Piped
    <3> QED
      <4>1. k = 1 \/ 1 < k
        BY <3>1
      <4> QED
        BY <1>2, <1>5, <3>1, <4>1
  <2> QED
    BY <1>1, <1>4, <1>8, <2>1, <2>2 DEF Piped, None
<1> QED
  BY <1>1, <1>10, <1>11, <1>12, <1>13, <1>14, <1>15, SameDelivered DEF InFlight

\* A message that is no request enters the agent's stdin.
LEMMA WritesOther ==
  ASSUME Typed, Tokens, NEW m \in Inbound, m.what # "request", stdin' = Append(stdin, m),
         UNCHANGED <<caller, turn, req, owes, stdout, outcome, pending>>
  PROVE  Tokens'
<1>1. /\ Len(stdin) \in Nat /\ Len(stdin') = Len(stdin) + 1 /\ stdin'[Len(stdin) + 1] = m
      /\ \A i \in 1..Len(stdin) : stdin'[i] = stdin[i]
  BY AppendFacts DEF Typed, TypeOK
<1>2. \A k \in 1..Len(stdin') :
        stdin'[k].what = "request" => k \in 1..Len(stdin) /\ stdin'[k] = stdin[k]
  BY <1>1
<1>3. Cur' = Cur
  BY SameCur
<1>4. Quiet => Quiet'
  BY <1>2 DEF Quiet, None
<1>5. \A k \in 1..Len(stdin') : stdin'[k].what = "request" =>
        /\ stdin'[k].id = Cur
        /\ owes = 0 /\ None(stdout, "response")
        /\ \A l \in 1..Len(stdin') : stdin'[l].what = "request" => l = k
  BY <1>2 DEF Tokens
<1> QED
  BY <1>3, <1>4, <1>5 DEF Tokens, None, Unwritten

LEMMA ReaderFlight ==
  ASSUME Typed, InFlight, Engaged, ReaderStep
  PROVE  InFlight'
<1>1. CASE ReaderAnswers
  <2>1. UNCHANGED <<app, caller, turn, req, owes, stdout, outcome, pending, worker, notes,
                    buffered, events, got, sent>>
    BY <1>1 DEF ReaderAnswers, ReaderAt, turnVars
  <2>2. Tokens'
    BY <1>1, <2>1, WritesOther, MessageFacts DEF ReaderAnswers, InFlight
  <2> QED
    BY <2>1, <2>2, SamePhases, SameUnasked, SameHeld, SameLined, SamePiped, SameDelivered
       DEF InFlight
<1>2. CASE ReaderFlushed \/ ReaderBroken \/ ReaderEnds \/ ReaderMarks
  <2>1. UNCHANGED <<app, caller, turn, req, stdin, owes, stdout, outcome, pending, worker, notes,
                    buffered, events, got, sent>>
    BY <1>2 DEF ReaderFlushed, ReaderBroken, ReaderAt, ReaderEnds, ReaderMarks, agentVars,
                turnVars
  <2> QED
    BY <2>1, SamePhases, SameTokens, SameUnasked, SameHeld, SameLined, SamePiped, SameDelivered
       DEF InFlight
<1>3. CASE ReaderWakes
  <2>1. /\ outcome' = [i \in Id |-> IF i \in pending THEN "error" ELSE outcome[i]]
        /\ pending' = {}
        /\ UNCHANGED <<app, caller, turn, req, stdin, owes, stdout, worker, notes,
                    buffered, events, got, sent>>
    BY <1>3 DEF ReaderWakes, agentVars, turnVars
  <2>2. Phases /\ Tokens /\ Unasked /\ Held /\ Lined
    BY DEF InFlight
  <2>3. Cur' = Cur /\ Cur \in Id
    BY <2>1, <2>2, SameCur, CurId
  <2>4. outcome'[Cur] = "ok" <=> outcome[Cur] = "ok"
    BY <2>1, <2>2, <2>3 DEF Tokens
  <2>5. Phases'
    BY <2>1, <2>2, <2>3, <2>4 DEF Phases, Streams
  <2>6. Tokens'
    BY <2>1, <2>2, <2>3, <2>4 DEF Tokens, Quiet, None, Unwritten
  <2>7. Unasked'
    BY <2>1, <2>2, <2>3 DEF Unasked
  <2>8. Held' /\ Lined'
    BY <2>1, <2>2, <2>3, <2>4 DEF Held, Lined, Streams, Upd, Passed
  <2> QED
    BY <2>1, <2>5, <2>6, <2>7, <2>8, SamePiped, SameDelivered DEF InFlight
<1> QED
  BY <1>1, <1>2, <1>3, ReaderAskedFlight, ReaderUpdatesFlight, ReaderRespondsFlight
     DEF ReaderStep

-----------------------------------------------------------------------------
(* The steps of send_request.                                                *)

\* The request goes on to another step.
LEMMA ReqFacts ==
  ASSUME Typed, InFlight, Engaged, caller = "connecting" \/ worker = "polled",
         NEW step, ReqAt(step)
  PROVE  /\ req'.step = step /\ req'.id = req.id
         /\ UNCHANGED <<app, caller, turn, owes, stdout, worker, notes, buffered, events, got,
                        sent>>
         /\ req.step # "none" /\ req.id = Cur /\ Cur' = Cur
<1>1. /\ UNCHANGED <<app, caller, turn, owes, stdout, worker, notes, buffered, events, got, sent>>
      /\ req' = [req EXCEPT !.step = step]
  BY DEF ReqAt
<1>2. req'.step = step /\ req'.id = req.id
  BY <1>1 DEF Typed, TypeOK
<1>3. req.step # "none" /\ req.id = Cur
  BY DEF InFlight, Phases, Streams
<1> QED
  BY <1>1, <1>2, <1>3, SameCur

LEMMA RequestFlight ==
  ASSUME Typed, InFlight, Engaged, RequestStep
  PROVE  InFlight'
<1> DEFINE Frame(step) ==
      /\ req'.step = step /\ req'.id = req.id
      /\ UNCHANGED <<app, caller, turn, owes, stdout, worker, notes, buffered, events, got,
                     sent>>
      /\ req.step # "none" /\ req.id = Cur /\ Cur' = Cur
<1>1. Phases /\ Tokens /\ Unasked /\ Held /\ Lined /\ Cur \in Id
  BY CurId DEF InFlight
<1>2. ASSUME NEW step, step # "none", Frame(step), outcome' = outcome,
             pending' \subseteq pending \cup {Cur}, Tokens'
      PROVE  InFlight'
  <2>1. Phases'
    BY <1>1, <1>2 DEF Phases, Streams
  <2>2. Unasked'
    BY <1>1, <1>2, CurNat DEF Unasked
  <2> QED
    BY <1>2, <2>1, <2>2, SameHeld, SameLined, SamePiped, SameDelivered DEF InFlight
<1> HIDE DEF Frame
<1>3. ASSUME NEW step, ReqAt(step), RequestStep
      PROVE  Frame(step)
  <2>1. caller = "connecting" \/ worker = "polled"
    BY <1>3 DEF RequestStep, ReqChecked, ReqInserted, ReqWritten, ReqFlushed, ReqBroken,
                Requesting
  <2> QED
    BY <1>3, <2>1, ReqFacts DEF Frame
<1>4. CASE ReqChecked
  <2>1. PICK step \in {"failed", "insert"} : ReqAt(step)
    BY <1>4 DEF ReqChecked
  <2>2. Frame(step) /\ req.step = "check" /\ UNCHANGED <<stdin, pending, outcome>>
    BY <1>3, <1>4, <2>1 DEF ReqChecked, Requesting
  <2>3. Tokens'
    BY <1>1, <2>2 DEF Frame, Tokens, Quiet, None, Unwritten
  <2> QED
    BY <1>2, <2>2, <2>3
<1>5. CASE ReqInserted
  <2>1. /\ Frame("write") /\ req.step = "insert" /\ pending' = pending \cup {req.id}
        /\ UNCHANGED <<stdin, outcome>>
    BY <1>3, <1>5 DEF ReqInserted, Requesting
  <2>2. Tokens'
    BY <1>1, <2>1 DEF Frame, Tokens, Quiet, None, Unwritten
  <2>3. pending' \subseteq pending \cup {Cur}
    BY <2>1 DEF Frame
  <2> QED
    BY <1>2, <2>1, <2>2, <2>3
<1>6. CASE ReqWritten
  <2>1. PICK step \in {"wait", "writing"} : ReqAt(step)
    BY <1>6 DEF ReqWritten
  <2>2. /\ Frame(step) /\ req.step = "write" /\ UNCHANGED <<pending, outcome>>
        /\ stdin' = Append(stdin, [what |-> "request", id |-> req.id])
    BY <1>3, <1>6, <2>1 DEF ReqWritten, Requesting
  <2>3. /\ Len(stdin) \in Nat /\ Len(stdin') = Len(stdin) + 1
        /\ stdin'[Len(stdin) + 1] = [what |-> "request", id |-> Cur]
        /\ \A i \in 1..Len(stdin) : stdin'[i] = stdin[i]
    <3>1. req.id = Cur /\ [what |-> "request", id |-> Cur] \in Inbound
      BY <1>1, <2>2, MessageFacts DEF Frame
    <3> QED
      BY <2>2, <3>1, AppendFacts DEF Typed, TypeOK
  <2>4. Quiet /\ outcome[Cur] # "ok"
    BY <1>1, <2>2 DEF Tokens, Unwritten
  <2>5. \A k \in 1..Len(stdin') : stdin'[k].what = "request" =>
          k = Len(stdin) + 1 /\ stdin'[k].id = Cur
    BY <2>3, <2>4 DEF Quiet, None
  <2>6. Tokens'
    BY <1>1, <2>2, <2>4, <2>5 DEF Frame, Tokens, Quiet, None, Unwritten
  <2> QED
    BY <1>2, <2>2, <2>6
<1>7. CASE ReqFlushed
  <2>1. Frame("wait") /\ req.step = "writing" /\ UNCHANGED <<stdin, pending, outcome>>
    BY <1>3, <1>7 DEF ReqFlushed, Requesting
  <2>2. Tokens'
    BY <1>1, <2>1 DEF Frame, Tokens, Quiet, None, Unwritten
  <2> QED
    BY <1>2, <2>1, <2>2
<1>8. CASE ReqBroken
  <2>1. /\ Frame("failed") /\ pending' = pending \ {req.id} /\ UNCHANGED <<stdin, outcome>>
    BY <1>3, <1>8 DEF ReqBroken, Requesting
  <2>2. Tokens'
    BY <1>1, <2>1 DEF Frame, Tokens, Quiet, None, Unwritten
  <2> QED
    BY <1>2, <2>1, <2>2
<1> QED
  BY <1>4, <1>5, <1>6, <1>7, <1>8 DEF RequestStep

-----------------------------------------------------------------------------
(* The worker's steps.                                                       *)

\* What the worker leaves alone, and where it works.
LEMMA WorkerFacts ==
  ASSUME Typed, InFlight, Engaged, Streams
  PROVE  /\ caller = "draining" /\ Heard /\ turn \in 1..MaxTurns /\ req.id = Cur
         /\ req.step # "none"
         /\ Passed \in Nat /\ sent[turn] \in Nat
<1>1. caller = "draining" /\ turn # 0 /\ req.id = Cur /\ req.step # "none"
  BY DEF InFlight, Phases, Streams
<1>2. turn \in 1..MaxTurns
  BY <1>1, Constants DEF Typed, TypeOK
<1> QED
  BY <1>1, <1>2, Lengths DEF Heard

\* The first of the updates that wait goes to the caller.
LEMMA SendsUpdate ==
  ASSUME Typed, InFlight, Engaged, Streams,
         NEW u \in Event, u = Upd(turn, Passed + 1), events' = Append(events, u),
         UNCHANGED <<caller, turn, req, outcome, got, sent>>
  PROVE  Held' /\ Passed' = Passed + 1
<1>1. /\ Len(events) \in Nat /\ Len(events') = Len(events) + 1 /\ events'[Len(events) + 1] = u
      /\ \A i \in 1..Len(events) : events'[i] = events[i]
  BY AppendFacts DEF Typed, TypeOK, Event
<1>2. Passed' = Passed + 1
  BY <1>1, Lengths DEF Passed
<1>3. \A i \in 1..Len(events) : events[i] = Upd(turn, Len(got) + i)
  <2>1. caller = "draining" /\ Held
    BY WorkerFacts DEF InFlight
  <2> QED
    BY <2>1 DEF Held
<1>4. ASSUME NEW i \in 1..Len(events') PROVE events'[i] = Upd(turn, Len(got) + i)
  <2>1. CASE i \in 1..Len(events)
    BY <1>1, <1>3, <2>1
  <2>2. CASE i = Len(events) + 1
    <3>1. Passed + 1 = Len(got) + i
      BY <2>2, Lengths DEF Passed
    <3> QED
      BY <1>1, <2>2, <3>1
  <2> QED
    BY <1>1, <2>1, <2>2
<1>5. \A i \in 1..Len(events') : events'[i].what = "update"
  <2>1. \A t, n : Upd(t, n).what = "update"
    BY DEF Upd
  <2> QED
    BY <1>4, <2>1
<1> QED
  BY <1>2, <1>4, <1>5 DEF Held, Upd

LEMMA ForwardsFlight ==
  ASSUME Typed, InFlight, Engaged, StreamForwards
  PROVE  InFlight'
<1>1. Streams /\ worker = "streaming" /\ notes # <<>> /\ notes' = Tail(notes)
      /\ UNCHANGED <<req, buffered>>
  BY DEF StreamForwards, Working, Streams
<1>2. /\ caller = "draining" /\ Heard /\ turn \in 1..MaxTurns
      /\ Passed \in Nat /\ sent[turn] \in Nat /\ req.step # "none"
  BY <1>1, WorkerFacts
<1>3. /\ worker' = "streaming"
      /\ UNCHANGED <<app, owes, sent, stdin, stdout, pending, outcome, got, turn, caller>>
      /\ events' = Append(events, Head(notes))
  BY <1>2 DEF StreamForwards, WorkerAt, Sends, agentVars
<1>4. /\ Len(notes) \in Nat /\ Len(notes) >= 1 /\ Head(notes) = notes[1] /\ notes[1] \in Update
      /\ Len(notes') = Len(notes) - 1
      /\ \A i \in 1..Len(notes) - 1 : notes'[i] = notes[i + 1]
  BY <1>1, TailFacts DEF Typed, TypeOK
<1>5. Lined /\ Phases /\ Piped
  BY DEF InFlight
<1>6. buffered = <<>> /\ Len(buffered) = 0 /\ Passed + 0 + 1 = Passed + 1
  BY <1>1, <1>2, <1>5 DEF Lined
<1>7. notes[1] = Upd(turn, Passed + 1)
  BY <1>1, <1>4, <1>5, <1>6 DEF Lined
<1>8. Held' /\ Passed' = Passed + 1
  BY <1>1, <1>3, <1>4, <1>7, SendsUpdate, MessageFacts
<1>9. Cur' = Cur
  BY <1>3, SameCur, <1>2
<1>10. Phases'
  BY <1>1, <1>2, <1>3, <1>5, <1>9 DEF Phases, Streams
<1>11. Lined'
  <2>1. ASSUME NEW i \in 1..Len(notes')
        PROVE  notes'[i] = Upd(turn, Passed + 1 + 0 + i)
    <3>1. i + 1 \in 1..Len(notes) /\ notes'[i] = notes[i + 1]
      BY <1>4
    <3>2. notes[i + 1] = Upd(turn, Passed + 0 + (i + 1))
      BY <1>1, <1>5, <1>6, <3>1 DEF Lined
    <3>3. Passed + 0 + (i + 1) = Passed + 1 + 0 + i
      BY <1>2
    <3> QED
      BY <3>1, <3>2, <3>3
  <2> QED
    BY <1>1, <1>3, <1>6, <1>8, <2>1 DEF Lined, Upd
<1>12. Piped'
  <2>1. Taken' = Taken
    BY <1>1, <1>4, <1>6, <1>8, Lengths DEF Taken
  <2> QED
    BY <1>1, <1>3, <1>5, <2>1 DEF Piped
<1> QED
  BY <1>1, <1>3, <1>8, <1>10, <1>11, <1>12, SameTokens, SameUnasked, SameDelivered DEF InFlight

LEMMA FlushesFlight ==
  ASSUME Typed, InFlight, Engaged, StreamFlushes
  PROVE  InFlight'
<1>1. Streams /\ worker = "flushing" /\ buffered # <<>> /\ buffered' = Tail(buffered)
      /\ UNCHANGED <<req, notes>>
  BY DEF StreamFlushes, Working, Streams
<1>2. /\ caller = "draining" /\ Heard /\ turn \in 1..MaxTurns
      /\ Passed \in Nat /\ sent[turn] \in Nat /\ req.step # "none"
  BY <1>1, WorkerFacts
<1>3. /\ worker' = "flushing"
      /\ UNCHANGED <<app, owes, sent, stdin, stdout, pending, outcome, got, turn, caller>>
      /\ events' = Append(events, Head(buffered))
  BY <1>2 DEF StreamFlushes, WorkerAt, Sends, agentVars
<1>4. /\ Len(buffered) \in Nat /\ Len(buffered) >= 1 /\ Head(buffered) = buffered[1]
      /\ buffered[1] \in Update /\ Len(buffered') = Len(buffered) - 1
      /\ \A i \in 1..Len(buffered) - 1 : buffered'[i] = buffered[i + 1]
  BY <1>1, TailFacts DEF Typed, TypeOK
<1>5. Lined /\ Phases /\ Piped
  BY DEF InFlight
<1>6. notes = <<>> /\ Len(notes) = 0 /\ outcome[Cur] = "ok"
  BY <1>1, <1>2, <1>5 DEF Lined
<1>7. buffered[1] = Upd(turn, Passed + 1)
  BY <1>1, <1>4, <1>5 DEF Lined
<1>8. Held' /\ Passed' = Passed + 1
  BY <1>1, <1>3, <1>4, <1>7, SendsUpdate, MessageFacts
<1>9. Cur' = Cur
  BY <1>3, SameCur, <1>2
<1>10. Phases'
  BY <1>1, <1>2, <1>3, <1>5, <1>9 DEF Phases, Streams
<1>11. Lined'
  <2>1. ASSUME NEW i \in 1..Len(buffered')
        PROVE  buffered'[i] = Upd(turn, Passed + 1 + i)
    <3>1. i + 1 \in 1..Len(buffered) /\ buffered'[i] = buffered[i + 1]
      BY <1>4
    <3>2. buffered[i + 1] = Upd(turn, Passed + (i + 1))
      BY <1>1, <1>5, <3>1 DEF Lined
    <3>3. Passed + (i + 1) = Passed + 1 + i
      BY <1>2
    <3> QED
      BY <3>1, <3>2, <3>3
  <2> QED
    BY <1>1, <1>3, <1>6, <1>8, <1>9, <2>1 DEF Lined, Upd
<1>12. Piped'
  <2>1. Taken' = Taken
    BY <1>1, <1>4, <1>6, <1>8, Lengths DEF Taken
  <2> QED
    BY <1>1, <1>3, <1>5, <2>1 DEF Piped
<1> QED
  BY <1>1, <1>3, <1>8, <1>10, <1>11, <1>12, SameTokens, SameUnasked, SameDelivered DEF InFlight

\* The stream has nothing to forward, or is woken.
LEMMA PollsFlight ==
  ASSUME Typed, InFlight, Engaged, StreamEmpty \/ StreamWoken
  PROVE  InFlight'
<1>1. /\ Streams /\ worker # "flushing" /\ worker' \in {"streaming", "polled"}
      /\ UNCHANGED <<app, owes, sent, stdin, stdout, pending, outcome, got, turn, caller, notes,
                     req, buffered, events>>
  BY DEF StreamEmpty, StreamWoken, WorkerAt, Working, Streams, agentVars
<1>2. Cur' = Cur
  BY <1>1, SameCur
<1>3. Phases' /\ Lined' /\ Held'
  BY <1>1, <1>2 DEF InFlight, Phases, Lined, Held, Streams, Upd, Passed
<1>4. Piped'
  BY <1>1 DEF InFlight, Piped, Streams, Passed, Taken
<1> QED
  BY <1>1, <1>3, <1>4, SameTokens, SameUnasked, SameDelivered DEF InFlight

LEMMA AnsweredFlight ==
  ASSUME Typed, InFlight, Engaged, StreamAnswered
  PROVE  InFlight'
<1>1. /\ Streams /\ worker = "polled" /\ worker' = "flushing" /\ outcome[req.id] = "ok"
      /\ buffered' = notes /\ notes' = <<>>
      /\ UNCHANGED <<app, owes, sent, stdin, stdout, pending, outcome, got, turn, caller,
                     req, events>>
  BY DEF StreamAnswered, WorkerAt, Working, Streams, Answered, agentVars
<1>2. /\ caller = "draining" /\ turn \in 1..MaxTurns /\ Passed \in Nat /\ req.id = Cur
  BY <1>1, WorkerFacts
<1>3. Cur' = Cur /\ outcome[Cur] = "ok" /\ buffered = <<>> /\ Len(buffered) = 0
  BY <1>1, <1>2, SameCur DEF InFlight, Lined
<1>4. Phases'
  BY <1>1, <1>2, <1>3 DEF InFlight, Phases, Streams
<1>5. Held'
  BY <1>1, <1>2, <1>3 DEF InFlight, Held, Streams, Upd
<1>6. Passed' = Passed /\ Taken' = Taken
  BY <1>1, <1>3, Lengths DEF Passed, Taken
<1>7. Lined'
  <2>1. \A i \in 1..Len(notes) : notes[i] = Upd(turn, Passed + 0 + i)
    BY <1>1, <1>3 DEF InFlight, Lined
  <2>2. \A i \in Nat : Passed + 0 + i = Passed + i
    BY <1>2
  <2> QED
    BY <1>1, <1>3, <1>6, <2>1, <2>2 DEF Lined, Upd
<1>8. Piped'
  BY <1>1, <1>6 DEF InFlight, Piped
<1> QED
  BY <1>1, <1>4, <1>5, <1>7, <1>8, SameTokens, SameUnasked, SameDelivered DEF InFlight

\* Everything of an answered turn has gone to the caller.
LEMMA AllPassed ==
  ASSUME Typed, InFlight, Engaged, worker = "flushing", buffered = <<>>
  PROVE  Passed = sent[turn] /\ outcome[Cur] = "ok" /\ notes = <<>>
<1>1. Streams /\ Lined /\ Piped /\ Tokens
  BY DEF InFlight, Streams
<1>2. Passed \in Nat /\ sent[turn] \in Nat
  BY <1>1, WorkerFacts
<1>3. notes = <<>> /\ outcome[Cur] = "ok"
  BY <1>1 DEF Lined
<1>4. Taken = Passed /\ Taken <= sent[turn]
  BY <1>1, <1>2, <1>3 DEF Taken, Piped
<1>5. None(stdout, "update")
  BY <1>1, <1>3 DEF Tokens
<1>6. ~(Taken < sent[turn])
  <2> SUFFICES ASSUME Taken < sent[turn] PROVE FALSE
    OBVIOUS
  <2>1. Taken + 1 \in (Taken + 1)..sent[turn]
    BY <1>2, <1>4
  <2> QED
    BY <1>1, <1>5, <2>1 DEF Piped, None
<1> QED
  BY <1>2, <1>3, <1>4, <1>6

\* The turn's last word.
LEMMA EndsFlight ==
  ASSUME Typed, InFlight, Engaged, StreamCompletes \/ StreamFails
  PROVE  InFlight'
<1>1. PICK e \in [what : {"complete", "error"}] :
        /\ Streams /\ worker' = "stopping" /\ Sends(e)
        /\ e.what = "complete" => worker = "flushing" /\ buffered = <<>>
        /\ UNCHANGED <<app, owes, sent, stdin, stdout, pending, outcome, got, turn, caller,
                       notes, req, buffered>>
  <2>1. CASE StreamCompletes
    <3> WITNESS [what |-> "complete"] \in [what : {"complete", "error"}]
    <3> QED
      BY <2>1 DEF StreamCompletes, WorkerAt, Working, Streams, agentVars
  <2>2. CASE StreamFails
    <3> WITNESS [what |-> "error"] \in [what : {"complete", "error"}]
    <3> QED
      BY <2>2 DEF StreamFails, WorkerAt, Working, Streams, agentVars
  <2> QED
    BY <2>1, <2>2
<1>2. /\ caller = "draining" /\ Heard /\ turn \in 1..MaxTurns /\ req.step # "none"
  BY <1>1, WorkerFacts
<1>3. Cur' = Cur
  BY <1>1, SameCur
<1>4. /\ Len(events) \in Nat /\ Len(events') = Len(events) + 1 /\ events'[Len(events) + 1] = e
      /\ \A i \in 1..Len(events) : events'[i] = events[i]
  <2>1. events' = Append(events, e) /\ events \in Seq(Event) /\ e \in Event
    BY <1>1, <1>2 DEF Sends, Typed, TypeOK, Event
  <2> QED
    BY <2>1, AppendFacts
<1>5. \A i \in 1..Len(events) : events[i].what = "update"
  BY <1>1, <1>2 DEF InFlight, Held
<1>6. e.what = "complete" =>
        outcome[Cur] = "ok" /\ notes = <<>> /\ buffered = <<>> /\ Passed = sent[turn]
  BY <1>1, AllPassed
<1>7. Held'
  <2>1. ASSUME NEW i \in 1..Len(events'), events'[i].what = "update"
        PROVE  events'[i] = Upd(turn, Len(got) + i)
    <3>1. i \in 1..Len(events)
      BY <1>1, <1>4, <2>1
    <3> QED
      BY <1>2, <1>4, <2>1, <3>1 DEF InFlight, Held
  <2>2. ASSUME NEW i \in 1..Len(events'), events'[i].what # "update"
        PROVE  i = Len(events') /\ events'[i] = e
    BY <1>4, <1>5, <2>2
  <2>3. e.what = "complete" => Len(got) + Len(events') = sent[turn] + 1
    BY <1>2, <1>4, <1>6, Lengths DEF Passed
  <2> QED
    BY <1>1, <1>3, <1>6, <2>1, <2>2, <2>3 DEF Held, Streams, Upd
<1>8. Phases' /\ Lined' /\ Piped'
  BY <1>1, <1>2, <1>3 DEF InFlight, Phases, Lined, Piped, Streams
<1> QED
  BY <1>1, <1>7, <1>8, SameTokens, SameUnasked, SameDelivered DEF InFlight

LEMMA ReturnsFlight ==
  ASSUME Typed, InFlight, Engaged, Engaged', WorkerReturns
  PROVE  InFlight'
<1>1. Heard /\ worker = "stopping"
  BY DEF WorkerReturns, Working, Engaged, Heard
<1>2. /\ req' = NoReq /\ worker' = "none" /\ buffered' = <<>>
      /\ UNCHANGED <<app, owes, sent, stdin, stdout, pending, outcome, got, turn, caller,
                     notes, events>>
  BY <1>1 DEF WorkerReturns, agentVars, linkVars
<1>3. turn # 0 /\ caller # "connecting"
  BY <1>1 DEF InFlight, Phases
<1>4. Cur' = Cur
  BY <1>2, <1>3, SameCur
<1>5. Phases'
  BY <1>2, <1>3, <1>4 DEF InFlight, Phases, Streams, NoReq
<1>6. Tokens'
  BY <1>2, <1>4 DEF InFlight, Tokens, Quiet, None, Unwritten, NoReq
<1>7. Held' /\ Lined' /\ Piped'
  BY <1>2, <1>4 DEF InFlight, Held, Lined, Piped, Streams, Upd
<1> QED
  BY <1>2, <1>3, <1>5, <1>6, <1>7, SameUnasked, SameDelivered DEF InFlight

-----------------------------------------------------------------------------
(* The caller's steps.                                                       *)

\* The next request starts with nothing of the last one left.
LEMMA NextRequest ==
  ASSUME Typed, Phases, Tokens, Unasked, outcome[Cur] = "ok",
         UNCHANGED <<owes, stdin, stdout, pending, outcome>>,
         Cur' \in Id, Cur' > Cur, req'.step = "check"
  PROVE  Tokens' /\ \A i \in Id : i > Cur' => outcome'[i] = "none" /\ i \notin pending'
<1>1. Quiet /\ None(stdout, "update")
  BY DEF Tokens
<1>2. outcome[Cur'] = "none" /\ Cur' \notin pending
  BY DEF Unasked
<1>3. Tokens'
  BY <1>1, <1>2 DEF Tokens, Quiet, None, Unwritten
<1>4. \A i \in Id : i > Cur' => i > Cur
  <2>1. Cur \in Nat /\ Cur' \in Nat /\ \A i \in Id : i \in Nat
    BY CurNat, IdNat
  <2> QED
    BY <2>1
<1> QED
  BY <1>3, <1>4 DEF Unasked

LEMMA ControlFlight ==
  ASSUME Typed, InFlight, Engaged, ControlAnswered
  PROVE  InFlight'
<1>1. /\ caller = "connecting" /\ outcome[req.id] = "ok"
      /\ UNCHANGED <<owes, stdin, stdout, pending, outcome, sent, worker, events, turn, notes,
                     buffered, got>>
  BY DEF ControlAnswered, At, Answered, CallerAt, agentVars, linkVars
<1>2. Phases /\ Tokens /\ Unasked
  BY DEF InFlight
<1>3. /\ turn = 0 /\ worker = "none" /\ req.id = Cur /\ req.id \in 1..Controls
      /\ notes = <<>> /\ buffered = <<>> /\ None(stdout, "update") /\ outcome[Cur] = "ok"
  BY <1>1, <1>2 DEF Phases
<1>4. Held' /\ Lined' /\ Piped' /\ Delivered'
  BY <1>1, <1>3 DEF ControlAnswered, CallerAt, Held, Lined, Piped, Delivered, Streams
<1>5. CASE /\ req' = [step |-> "check", id |-> req.id + 1] /\ req.id < Controls
           /\ caller' = "connecting"
  <2>1. Cur' = Cur + 1 /\ Cur' \in Id /\ Cur' > Cur /\ req'.step = "check"
        /\ req'.id \in 1..Controls
    BY <1>1, <1>3, <1>5, Constants DEF Cur, Id
  <2>2. Tokens' /\ \A i \in Id : i > Cur' => outcome'[i] = "none" /\ i \notin pending'
    BY <1>1, <1>2, <1>3, <2>1, NextRequest
  <2>3. Unasked'
    BY <1>1, <1>2, <2>2 DEF Unasked
  <2>4. Phases'
    BY <1>1, <1>3, <1>5, <2>1 DEF Phases, Streams, Cur, None
  <2> QED
    BY <1>4, <2>2, <2>3, <2>4 DEF InFlight
<1>6. CASE req' = NoReq /\ req.id = Controls /\ caller' = "idle"
  <2>1. Cur' = Cur
    BY <1>1, <1>3, <1>6 DEF Cur
  <2>2. Phases'
    BY <1>1, <1>3, <1>6, <2>1 DEF Phases, Streams, NoReq, None
  <2>3. Tokens'
    BY <1>1, <1>2, <1>6, <2>1 DEF Tokens, Quiet, None, Unwritten, NoReq
  <2>4. Unasked'
    BY <1>1, <1>2, <2>1 DEF Unasked
  <2> QED
    BY <1>4, <2>2, <2>3, <2>4 DEF InFlight
<1> QED
  BY <1>5, <1>6 DEF ControlAnswered, CallerAt

LEMMA PromptFlight ==
  ASSUME Typed, InFlight, Engaged, Prompt
  PROVE  InFlight'
<1>1. /\ caller = "idle" /\ caller' = "prompting"
      /\ UNCHANGED <<owes, stdin, stdout, pending, outcome, sent, worker, events, turn, notes,
                     buffered, got, req>>
  BY DEF Prompt, At, CallerAt, agentVars, linkVars
<1>2. Cur' = Cur
  BY <1>1 DEF Cur, PromptOf
<1>3. Phases' /\ Unasked'
  BY <1>1, <1>2 DEF InFlight, Phases, Unasked, Streams, None
<1>4. Tokens'
  BY <1>1, <1>2 DEF InFlight, Tokens, Quiet, None, Unwritten
<1>5. Held' /\ Lined' /\ Piped' /\ Delivered'
  <2>1. ~Streams /\ ~Streams'
    BY <1>1 DEF InFlight, Phases, Streams
  <2> QED
    BY <1>1, <2>1 DEF InFlight, Held, Lined, Piped, Delivered
<1> QED
  BY <1>3, <1>4, <1>5 DEF InFlight

LEMMA StartsFlight ==
  ASSUME Typed, InFlight, Engaged, TurnStarts
  PROVE  InFlight'
<1>1. /\ caller = "prompting" /\ caller' = "draining" /\ turn' = turn + 1
      /\ req' = [step |-> "check", id |-> PromptOf(turn + 1)]
      /\ worker' = "streaming" /\ events' = <<>> /\ got' = <<>>
      /\ UNCHANGED <<owes, stdin, stdout, pending, outcome, sent, notes, buffered>>
  BY DEF TurnStarts, At, agentVars, linkVars
<1>2. Phases /\ Tokens /\ Unasked
  BY DEF InFlight
<1>3. /\ outcome[Cur] = "ok" /\ notes = <<>> /\ buffered = <<>> /\ None(stdout, "update")
  BY <1>1, <1>2 DEF Phases
<1>4. turn \in Nat /\ turn < MaxTurns /\ turn + 1 \in 1..MaxTurns /\ PromptOf(turn + 1) \in Id
  BY <1>1, IdFacts, Constants DEF Typed, TypeOK, PromptBounded
<1>5. Cur' = PromptOf(turn + 1) /\ Cur' > Cur /\ turn' # 0
  BY <1>1, <1>4, Constants DEF Cur, PromptOf
<1>6. Tokens' /\ \A i \in Id : i > Cur' => outcome'[i] = "none" /\ i \notin pending'
  BY <1>1, <1>2, <1>3, <1>4, <1>5, NextRequest
<1>7. sent[turn + 1] = 0 /\ \A t \in 1..MaxTurns : t > turn + 1 => sent[t] = 0
  BY <1>2, <1>4 DEF Unasked
<1>8. Unasked'
  BY <1>1, <1>6, <1>7 DEF Unasked
<1>9. Phases'
  BY <1>1, <1>4, <1>5 DEF Phases, Streams
<1>10. Passed' = 0 /\ Taken' = 0
  BY <1>1, <1>3 DEF Passed, Taken
<1>11. Held' /\ Lined' /\ Delivered'
  BY <1>1, <1>3 DEF Held, Lined, Delivered
<1>12. Piped'
  BY <1>1, <1>3, <1>7, <1>10 DEF Piped, None
<1> QED
  BY <1>6, <1>8, <1>9, <1>11, <1>12 DEF InFlight

\* The caller takes an update, or the end of the turn.
LEMMA DrainsFlight ==
  ASSUME Typed, InFlight, Engaged, Engaged', Drains
  PROVE  InFlight'
<1>1. /\ caller = "draining" /\ events # <<>> /\ events' = Tail(events)
      /\ UNCHANGED <<app, owes, sent, stdin, stdout, pending, outcome, turn, worker,
                     notes, req, buffered>>
  BY DEF Drains, At, agentVars, linkVars
<1>2. /\ Len(events) \in Nat /\ 1 \in 1..Len(events) /\ Head(events) = events[1]
      /\ events[1] \in Event /\ Len(events') = Len(events) - 1
      /\ \A i \in 1..Len(events) - 1 : events'[i] = events[i + 1]
  <2>1. events \in Seq(Event)
    BY DEF Typed, TypeOK, Event
  <2> QED
    BY <1>1, <2>1, TailFacts
<1>3. Phases /\ Tokens /\ Held /\ Lined /\ Piped /\ Unasked
  BY DEF InFlight
<1>4. turn # 0 /\ turn \in 1..MaxTurns /\ Cur' = Cur
  BY <1>1, <1>3, Constants DEF Phases, Typed, TypeOK, Cur, PromptOf
<1>5. CASE events[1].what = "update"
  <2>1. caller' = "draining" /\ got' = Append(got, events[1])
    BY <1>2, <1>5 DEF Drains
  <2>2. events[1] \in Update
    BY <1>2, <1>5, MessageFacts
  <2>3. Len(got) \in Nat /\ Len(got') = Len(got) + 1
    BY <2>1, <2>2, AppendFacts DEF Typed, TypeOK
  <2>4. Passed' = Passed /\ Taken' = Taken
    BY <1>1, <1>2, <2>3 DEF Passed, Taken
  <2>5. Phases' /\ Tokens' /\ Unasked'
    BY <1>1, <1>3, <2>1, SamePhases, SameTokens, SameUnasked
  <2>6. Held'
    <3>1. \A i \in 1..Len(events') :
            i + 1 \in 1..Len(events) /\ events'[i] = events[i + 1]
      BY <1>2
    <3>2. \A i \in 1..Len(events') : Len(got') + i = Len(got) + (i + 1)
      BY <1>2, <2>3
    <3>3. ASSUME NEW i \in 1..Len(events')
          PROVE  /\ events'[i].what = "update" => events'[i] = Upd(turn, Len(got') + i)
                 /\ events'[i].what # "update" => i = Len(events') /\ ~Streams
                 /\ events'[i].what = "complete" =>
                      /\ outcome[Cur] = "ok" /\ notes = <<>> /\ buffered = <<>>
                      /\ Len(got') + Len(events') = sent[turn] + 1
      <4>1. i + 1 \in 1..Len(events) /\ events'[i] = events[i + 1]
        BY <3>1
      <4>2. /\ events[i + 1].what = "update" => events[i + 1] = Upd(turn, Len(got) + (i + 1))
            /\ events[i + 1].what # "update" => i + 1 = Len(events) /\ ~Streams
            /\ events[i + 1].what = "complete" =>
                 /\ outcome[Cur] = "ok" /\ notes = <<>> /\ buffered = <<>>
                 /\ Len(got) + Len(events) = sent[turn] + 1
        BY <1>1, <1>3, <4>1 DEF Held
      <4>3. Len(got') + Len(events') = Len(got) + Len(events)
        BY <1>2, <2>3
      <4>4. i + 1 = Len(events) => i = Len(events')
        BY <1>2
      <4> QED
        BY <3>2, <4>1, <4>2, <4>3, <4>4
    <3> QED
      BY <1>1, <1>4, <3>3 DEF Held, Streams, Upd
  <2>7. Lined' /\ Piped'
    BY <1>1, <1>3, <1>4, <2>4 DEF Lined, Piped, Streams, Upd
  <2> QED
    BY <2>1, <2>5, <2>6, <2>7 DEF InFlight, Delivered
<1>6. CASE events[1].what = "complete"
  <2>1. caller' = "idle" /\ got' = got
    BY <1>2, <1>6 DEF Drains
  <2>2. /\ 1 = Len(events) /\ ~Streams /\ outcome[Cur] = "ok" /\ notes = <<>> /\ buffered = <<>>
        /\ Len(got) + Len(events) = sent[turn] + 1
    BY <1>1, <1>2, <1>3, <1>6 DEF Held
  <2>3. Len(got) = sent[turn]
    <3>1. Len(got) \in Nat /\ sent[turn] \in Nat
      BY <1>4, Lengths
    <3>2. Len(got) + 1 = sent[turn] + 1
      BY <2>2
    <3> QED
      BY <3>1, <3>2
  <2>4. None(stdout, "update")
    BY <1>3, <2>2 DEF Tokens
  <2>5. worker \in {"stopping", "none"}
    BY <2>2 DEF Streams, Typed, TypeOK
  <2>6. Phases'
    BY <1>1, <1>3, <1>4, <2>1, <2>2, <2>4, <2>5 DEF Phases, Streams, None
  <2>7. Tokens' /\ Unasked'
    BY <1>1, <1>3, <1>4 DEF Tokens, Quiet, None, Unwritten, Unasked
  <2>8. Held' /\ Lined' /\ Piped' /\ Delivered'
    BY <1>1, <2>1, <2>3, <2>5 DEF Held, Lined, Piped, Delivered, Streams
  <2> QED
    BY <2>6, <2>7, <2>8 DEF InFlight
<1>7. CASE events[1].what = "error"
  BY <1>2, <1>7 DEF Drains, Engaged
<1> QED
  BY <1>2, <1>5, <1>6, <1>7, MessageFacts

\* Every step of a session in use keeps its messages in order.
LEMMA InFlightStep ==
  ASSUME Flow, [Next]_vars, Engaged'
  PROVE  InFlight'
<1>1. Typed /\ Blank /\ (Engaged => InFlight)
  BY DEF Flow
<1>2. CASE RegisterAgent
  BY <1>1, <1>2, RegisterFlight
<1>3. CASE Engaged /\ Proceeds
  <2>1. CASE ReapDrains \/ ReapKills
    BY <1>1, <1>3, <2>1, ForgetsFlight DEF ReapDrains, ReapKills, agentVars
  <2>2. CASE UNCHANGED vars
    BY <1>1, <1>3, <2>2, ForgetsFlight DEF vars, agentVars
  <2> QED
    BY <1>1, <1>3, <2>1, <2>2, AgentFlight, ReaderFlight, RequestFlight, ForwardsFlight,
       PollsFlight, AnsweredFlight, FlushesFlight, EndsFlight, ReturnsFlight, ControlFlight,
       PromptFlight, StartsFlight, DrainsFlight DEF Proceeds
<1> QED
  BY <1>1, <1>2, <1>3, EndsOrProceeds

LEMMA FlowStep == ASSUME Flow, [Next]_vars PROVE Flow'
<1>1. Typed /\ Blank /\ Exited /\ Ordered /\ (Engaged => InFlight)
  BY DEF Flow
<1> QED
  BY <1>1, TypedStep, BlankStep, ExitedStep, OrderedStep, InFlightStep DEF Flow

\* What the caller took from a turn is what the agent sent in it, in order and
\* without a gap, and all of it when the turn is complete: for every number of
\* updates and every capacity of the channels on the way.
THEOREM TurnsDelivered == Spec => []TurnDelivered
<1>1. Flow /\ [Next]_vars => Flow'
  BY FlowStep
<1> QED
  BY FlowInit, <1>1, FlowDelivers, PTL DEF Spec
=============================================================================
