------------------------------ MODULE AcpSession ------------------------------
(***************************************************************************)
(* One agent session over ACP: the agent's process group, the JSON-RPC     *)
(* transport with its reader task (transport.rs), a turn's PromptStream    *)
(* and its worker task (client.rs, backend.rs), and the caller that drains *)
(* the turns, gives up on them or is itself aborted (agent_turn.rs,        *)
(* developer.rs, reviewer.rs).                                             *)
(*                                                                         *)
(* The agent is not trusted to do anything: it may stop reading, stay      *)
(* silent, ask for permissions at any time, close its stdout, exit, fork.  *)
(* It keeps to the protocol in one respect: it sends the updates of a turn *)
(* before the answer to its prompt.  Two bounds: it has one request of its *)
(* own open at a time, and what does not fit its stdin does so once it has *)
(* read all of it.  Texts are left out; an update is the pair of its turn  *)
(* and its number.  Time is left out: a timeout may fire whenever it is    *)
(* pending.                                                                *)
(***************************************************************************)
EXTENDS Naturals, Sequences

CONSTANTS
  Controls,   \* how many control requests precede the first prompt
  MaxTurns,   \* bound: prompts per session
  MaxChunks,  \* bound: updates per turn
  EventCap,   \* CHANNEL_CAPACITY
  OutCap,     \* how many messages the agent's stdout holds
  Kids,       \* bound: the processes the agent may fork
  Watchdog    \* caps.idle_secs is set

ASSUME AcpAssumption ==
  /\ Controls \in Nat \ {0}
  /\ {MaxTurns, MaxChunks} \subseteq Nat
  /\ {EventCap, OutCap} \subseteq Nat \ {0}
  /\ Kids \subseteq {"mild", "stubborn"}
  /\ Watchdog \in BOOLEAN

VARIABLES
  app,         \* running, reaping (in kill_all_agents), reaped or exited
  leader,      \* the agent process: none, up or dead
  kid,         \* a process it forked into its group; a stubborn one ignores SIGTERM
  registered,  \* the group is in the reaper's registry
  owes,        \* the request the agent works on, or 0
  asked,       \* the agent has asked for a permission
  sent,        \* how many updates it sent in each turn
  muted,       \* its stdout is closed
  stdin,       \* what it has not read yet
  stdout,      \* what the reader has not read yet
  reader,      \* the reader task
  ended,       \* Shared.ended is set
  pending,     \* Shared.pending
  outcome,     \* what each request's oneshot carries
  notes,       \* the channel of session/update notifications
  req,         \* the send_request call under way
  worker,      \* the task that drives the turn
  buffered,    \* PromptStream.buffered
  events,      \* the channel from the worker to the caller
  got,         \* the updates of this turn that the caller took
  turn,        \* the number of the last prompt
  caller,      \* where the caller stands
  client       \* who owns the AcpClient

agentVars == <<owes, asked, sent, muted, stdin, stdout>>
groupVars == <<leader, kid, registered>>
linkVars == <<reader, ended, pending, outcome, notes>>
turnVars == <<req, worker, buffered, events, got, turn>>
vars == <<app, groupVars, agentVars, linkVars, turnVars, caller, client>>

Id == 1..(Controls + MaxTurns)

PromptOf(t) == Controls + t

NoReq == [step |-> "none", id |-> 0]

Update == [what : {"update"}, turn : 1..MaxTurns, n : 1..MaxChunks]
Inbound ==
  [what : {"request"}, id : Id] \cup [what : {"answer", "cancel"}]
Outbound ==
  Update \cup [what : {"response"}, id : Id, ok : BOOLEAN] \cup [what : {"permission"}]

TypeOK ==
  /\ app \in {"running", "reaping", "reaped", "exited"}
  /\ leader \in {"none", "up", "dead"}
  /\ kid \in {"none", "mild", "stubborn"}
  /\ registered \in BOOLEAN
  /\ owes \in {0} \cup Id
  /\ asked \in BOOLEAN
  /\ sent \in [1..MaxTurns -> 0..MaxChunks]
  /\ muted \in BOOLEAN
  /\ stdin \in Seq(Inbound)
  /\ stdout \in Seq(Outbound) /\ Len(stdout) <= OutCap
  /\ reader \in {"none", "reading", "answering", "writing", "eof", "marked", "stopped"}
  /\ ended \in BOOLEAN
  /\ pending \subseteq Id
  /\ outcome \in [Id -> {"none", "ok", "error"}]
  /\ notes \in Seq(Update)
  /\ req \in [step : {"none", "check", "insert", "write", "writing", "wait", "failed"},
              id : {0} \cup Id]
  /\ worker \in {"none", "streaming", "polled", "flushing", "stopping"}
  /\ buffered \in Seq(Update)
  /\ events \in Seq(Update \cup [what : {"complete", "error"}])
  /\ Len(events) <= EventCap
  /\ got \in Seq(Update)
  /\ turn \in 0..MaxTurns
  /\ caller \in {"new", "spawned", "connecting", "idle", "prompting", "draining",
                 "cancelling", "reclaiming", "aborting", "closing", "grace", "over",
                 "dropped"}
  /\ client \in {"none", "session", "worker", "returned"}

Init ==
  /\ app = "running"
  /\ leader = "none" /\ kid = "none" /\ registered = FALSE
  /\ owes = 0 /\ asked = FALSE /\ sent = [t \in 1..MaxTurns |-> 0]
  /\ muted = FALSE /\ stdin = <<>> /\ stdout = <<>>
  /\ reader = "none" /\ ended = FALSE /\ pending = {}
  /\ outcome = [i \in Id |-> "none"] /\ notes = <<>>
  /\ req = NoReq /\ worker = "none" /\ buffered = <<>>
  /\ events = <<>> /\ got = <<>> /\ turn = 0
  /\ caller = "new" /\ client = "none"

Running == app # "exited"

-----------------------------------------------------------------------------
(* The agent.  Nothing makes it act.                                         *)

AgentReads ==
  /\ leader = "up" /\ stdin # <<>>
  /\ stdin' = Tail(stdin)
  /\ owes' = IF Head(stdin).what = "request" THEN Head(stdin).id ELSE owes
  /\ asked' = (asked /\ Head(stdin).what # "answer")
  /\ UNCHANGED <<app, groupVars, sent, muted, stdout, linkVars, turnVars, caller, client>>

Says(message) ==
  /\ leader = "up" /\ ~muted
  /\ Len(stdout) < OutCap
  /\ stdout' = Append(stdout, message)
  /\ UNCHANGED <<app, groupVars, muted, stdin, linkVars, turnVars, caller, client>>

AgentUpdates ==
  LET t == owes - Controls IN
    /\ owes > Controls /\ sent[t] < MaxChunks
    /\ sent' = [sent EXCEPT ![t] = @ + 1]
    /\ Says([what |-> "update", turn |-> t, n |-> sent'[t]])
    /\ UNCHANGED <<owes, asked>>

AgentAnswers(ok) ==
  /\ owes # 0
  /\ owes' = 0
  /\ Says([what |-> "response", id |-> owes, ok |-> ok])
  /\ UNCHANGED <<asked, sent>>

\* A request of the agent's own, in a turn, in the handshake or between.
AgentAsks ==
  /\ ~asked
  /\ asked' = TRUE
  /\ Says([what |-> "permission"])
  /\ UNCHANGED <<owes, sent>>

AgentCloses ==
  /\ leader = "up" /\ ~muted
  /\ muted' = TRUE
  /\ UNCHANGED <<app, groupVars, owes, asked, sent, stdin, stdout, linkVars, turnVars,
                 caller, client>>

AgentForks(k) ==
  /\ leader = "up" /\ kid = "none"
  /\ kid' = k
  /\ UNCHANGED <<app, leader, registered, agentVars, linkVars, turnVars, caller, client>>

AgentExits ==
  /\ leader = "up"
  /\ leader' = "dead"
  /\ owes' = 0
  /\ UNCHANGED <<app, kid, registered, asked, sent, muted, stdin, stdout, linkVars,
                 turnVars, caller, client>>

\* The last holder of the pipes is gone.
PipesClosed == leader = "dead" /\ kid = "none"

\* Nobody is in the middle of a message that does not fit the pipe.
WriterFree == req.step # "writing" /\ reader # "writing"

-----------------------------------------------------------------------------
(* The end of the client: AcpClient and Transport are dropped, and the pipes *)
(* and channels with them.  SIGKILL goes to the group if the client still    *)
(* owns the child.                                                           *)

LinkGone ==
  /\ reader' = "stopped" /\ ended' = FALSE /\ pending' = {}
  /\ outcome' = [i \in Id |-> "none"]
  /\ stdin' = <<>> /\ stdout' = <<>> /\ notes' = <<>>
  /\ owes' = 0 /\ asked' = FALSE /\ muted' = TRUE
  /\ req' = NoReq /\ worker' = "none"
  /\ buffered' = <<>> /\ events' = <<>> /\ got' = <<>>
  /\ client' = "none"

ClientGone ==
  /\ LinkGone
  /\ registered' = FALSE
  /\ UNCHANGED <<app, sent, turn>>

GroupKilled == leader' = "dead" /\ kid' = "none"

DropClient == GroupKilled /\ ClientGone

-----------------------------------------------------------------------------
(* The reader task: read_loop and route_message.                             *)

Reading == Running /\ reader = "reading"

ReaderUpdates ==
  /\ Reading /\ stdout # <<>> /\ Head(stdout).what = "update"
  /\ stdout' = Tail(stdout)
  /\ notes' = Append(notes, Head(stdout))
  /\ UNCHANGED <<app, groupVars, owes, asked, sent, muted, stdin, reader, ended, pending,
                 outcome, turnVars, caller, client>>

\* A response nobody waits for is ignored.
ReaderResponds ==
  /\ Reading /\ stdout # <<>> /\ Head(stdout).what = "response"
  /\ stdout' = Tail(stdout)
  /\ LET i == Head(stdout).id IN
       /\ pending' = pending \ {i}
       /\ outcome' = IF i \in pending
                       THEN [outcome EXCEPT ![i] = IF Head(stdout).ok THEN "ok" ELSE "error"]
                       ELSE outcome
  /\ UNCHANGED <<app, groupVars, owes, asked, sent, muted, stdin, reader, ended, notes,
                 turnVars, caller, client>>

ReaderAsked ==
  /\ Reading /\ stdout # <<>> /\ Head(stdout).what = "permission"
  /\ stdout' = Tail(stdout)
  /\ reader' = "answering"
  /\ UNCHANGED <<app, groupVars, owes, asked, sent, muted, stdin, ended, pending, outcome,
                 notes, turnVars, caller, client>>

ReaderAt(state) ==
  /\ reader' = state
  /\ UNCHANGED <<app, groupVars, owes, asked, sent, muted, stdout, ended, pending, outcome,
                 notes, turnVars, caller, client>>

\* The policy decides, and the reader writes the answer itself.  It fits the
\* pipe, or the reader stays in its write with the writer locked.
ReaderAnswers ==
  /\ Running /\ reader = "answering" /\ ~PipesClosed
  /\ WriterFree
  /\ stdin' = Append(stdin, [what |-> "answer"])
  /\ \E state \in {"reading", "writing"} : ReaderAt(state)

ReaderFlushed ==
  /\ Running /\ reader = "writing" /\ ~PipesClosed
  /\ stdin = <<>>
  /\ ReaderAt("reading")
  /\ UNCHANGED stdin

\* A write that fails is ignored.
ReaderBroken ==
  /\ Running /\ reader \in {"answering", "writing"} /\ PipesClosed
  /\ reader = "answering" => WriterFree
  /\ ReaderAt("reading")
  /\ UNCHANGED stdin

ReaderEnds ==
  /\ Reading /\ stdout = <<>> /\ (muted \/ PipesClosed)
  /\ reader' = "eof"
  /\ UNCHANGED <<app, groupVars, agentVars, ended, pending, outcome, notes, turnVars,
                 caller, client>>

\* Shared::shutdown, its first lock; snapshot_after_eof has taken its time.
ReaderMarks ==
  /\ Running /\ reader = "eof"
  /\ reader' = "marked"
  /\ ended' = TRUE
  /\ UNCHANGED <<app, groupVars, agentVars, pending, outcome, notes, turnVars, caller, client>>

\* Shared::shutdown, its second lock.
ReaderWakes ==
  /\ Running /\ reader = "marked"
  /\ reader' = "stopped"
  /\ outcome' = [i \in Id |-> IF i \in pending THEN "error" ELSE outcome[i]]
  /\ pending' = {}
  /\ UNCHANGED <<app, groupVars, agentVars, ended, notes, turnVars, caller, client>>

ReaderStep ==
  \/ ReaderUpdates \/ ReaderResponds \/ ReaderAsked \/ ReaderAnswers
  \/ ReaderFlushed \/ ReaderBroken \/ ReaderEnds \/ ReaderMarks \/ ReaderWakes

-----------------------------------------------------------------------------
(* send_request, for the handshake and, polled by the turn's worker, for the *)
(* prompt.  A future that is dropped leaves its entry in pending.            *)

\* A prompt's future runs only once its stream has seen no notification.
Requesting(step) ==
  /\ Running /\ req.step = step
  /\ caller = "connecting" \/ worker = "polled"

ReqAt(step) ==
  /\ req' = [req EXCEPT !.step = step]
  /\ UNCHANGED <<app, groupVars, owes, asked, sent, muted, stdout, reader, ended, notes,
                 worker, buffered, events, got, turn, caller, client>>

ReqChecked ==
  /\ Requesting("check")
  /\ ReqAt(IF ended THEN "failed" ELSE "insert")
  /\ UNCHANGED <<stdin, pending, outcome>>

ReqInserted ==
  /\ Requesting("insert")
  /\ pending' = pending \cup {req.id}
  /\ ReqAt("write")
  /\ UNCHANGED <<stdin, outcome>>

\* The message fits the pipe, or it does not and the writer stays locked.  No
\* deadline covers the lock or the write.
ReqWritten ==
  /\ Requesting("write") /\ ~PipesClosed
  /\ WriterFree
  /\ stdin' = Append(stdin, [what |-> "request", id |-> req.id])
  /\ \E step \in {"wait", "writing"} : ReqAt(step)
  /\ UNCHANGED <<pending, outcome>>

ReqFlushed ==
  /\ Requesting("writing") /\ ~PipesClosed
  /\ stdin = <<>>
  /\ ReqAt("wait")
  /\ UNCHANGED <<stdin, pending, outcome>>

ReqBroken ==
  /\ (Requesting("write") /\ WriterFree) \/ Requesting("writing")
  /\ PipesClosed
  /\ pending' = pending \ {req.id}
  /\ ReqAt("failed")
  /\ UNCHANGED <<stdin, outcome>>

Answered(result) == req.step = "wait" /\ outcome[req.id] = result

ReqFailed == req.step = "failed" \/ Answered("error")

RequestStep == ReqChecked \/ ReqInserted \/ ReqWritten \/ ReqFlushed \/ ReqBroken

-----------------------------------------------------------------------------
(* The worker of a turn: run_turn over PromptStream::poll_next.  It awaits   *)
(* room in the event channel; once the caller has dropped its end, every     *)
(* send fails.                                                               *)

Working(state) == Running /\ worker = state

Heard == caller # "dropped"

WorkerAt(state) ==
  /\ worker' = state
  /\ UNCHANGED <<app, groupVars, agentVars, reader, ended, pending, outcome, got, turn,
                 caller, client>>

Sends(event) ==
  IF Heard THEN Len(events) < EventCap /\ events' = Append(events, event)
           ELSE UNCHANGED events

\* A notification is ready: it goes out before the response is looked at.
StreamForwards ==
  /\ Working("streaming") /\ notes # <<>>
  /\ Sends(Head(notes))
  /\ notes' = Tail(notes)
  /\ WorkerAt(IF Heard THEN "streaming" ELSE "stopping")
  /\ UNCHANGED <<req, buffered>>

StreamEmpty ==
  /\ Working("streaming") /\ notes = <<>>
  /\ WorkerAt("polled")
  /\ UNCHANGED <<notes, req, buffered, events>>

\* Woken by a notification while the response is pending.
StreamWoken ==
  /\ Working("polled") /\ notes # <<>>
  /\ req.step \in {"write", "writing", "wait"} /\ outcome[req.id] = "none"
  /\ WorkerAt("streaming")
  /\ UNCHANGED <<notes, req, buffered, events>>

\* Mutant: the notifications that came before the response are not drained.
StreamAnsweredUndrained ==
  /\ Working("polled") /\ Answered("ok")
  /\ WorkerAt("flushing")
  /\ UNCHANGED <<notes, req, buffered, events>>

\* The response is there: drain the notifications that came before it.
StreamAnswered ==
  /\ Working("polled") /\ Answered("ok")
  /\ buffered' = notes
  /\ notes' = <<>>
  /\ WorkerAt("flushing")
  /\ UNCHANGED <<req, events>>

StreamFlushes ==
  /\ Working("flushing") /\ buffered # <<>>
  /\ Sends(Head(buffered))
  /\ buffered' = Tail(buffered)
  /\ WorkerAt(IF Heard THEN "flushing" ELSE "stopping")
  /\ UNCHANGED <<notes, req>>

StreamCompletes ==
  /\ Working("flushing") /\ buffered = <<>>
  /\ Sends([what |-> "complete"])
  /\ WorkerAt("stopping")
  /\ UNCHANGED <<notes, req, buffered>>

StreamFails ==
  /\ Working("polled") /\ ReqFailed
  /\ Sends([what |-> "error"])
  /\ WorkerAt("stopping")
  /\ UNCHANGED <<notes, req, buffered>>

\* run_turn has returned, its stream is dropped: give the client back.  With the
\* session gone, that drops it.
WorkerReturns ==
  /\ Working("stopping")
  /\ \/ /\ Heard
        /\ client' = "returned"
        /\ req' = NoReq
        /\ worker' = "none"
        /\ buffered' = <<>>
        /\ UNCHANGED <<app, groupVars, agentVars, linkVars, events, got, turn, caller>>
     \/ /\ ~Heard
        /\ DropClient
        /\ UNCHANGED caller

WorkerStep ==
  \/ StreamForwards \/ StreamEmpty \/ StreamWoken \/ StreamAnswered
  \/ StreamFlushes \/ StreamCompletes \/ StreamFails \/ WorkerReturns

-----------------------------------------------------------------------------
(* The caller: connect.                                                      *)

At(state) == Running /\ caller = state

CallerAt(state) ==
  /\ caller' = state
  /\ UNCHANGED <<app, agentVars, linkVars, buffered, got>>

SpawnAgent ==
  /\ At("new")
  /\ leader' = "up"
  /\ CallerAt("spawned")
  /\ UNCHANGED <<kid, registered, req, worker, events, turn, client>>

\* The group enters the registry, the transport starts, the handshake begins.
RegisterAgent ==
  /\ At("spawned")
  /\ registered' = TRUE
  /\ reader' = "reading"
  /\ req' = [step |-> "check", id |-> 1]
  /\ client' = "session"
  /\ caller' = "connecting"
  /\ UNCHANGED <<app, leader, kid, agentVars, ended, pending, outcome, notes, worker,
                 buffered, events, got, turn>>

\* initialize, session/new, and the role's mode, model and effort, one by one.
ControlAnswered ==
  /\ At("connecting") /\ Answered("ok")
  /\ \/ /\ req.id < Controls
        /\ req' = [step |-> "check", id |-> req.id + 1]
        /\ CallerAt("connecting")
     \/ /\ req.id = Controls
        /\ req' = NoReq
        /\ CallerAt("idle")
  /\ UNCHANGED <<groupVars, worker, events, turn, client>>

ConnectFails ==
  /\ At("connecting") /\ ReqFailed
  /\ DropClient
  /\ caller' = "over"

ControlTimesOut ==
  /\ At("connecting") /\ req.step = "wait"
  /\ DropClient
  /\ caller' = "over"

-----------------------------------------------------------------------------
(* The caller: a turn.                                                       *)

Prompt ==
  /\ At("idle") /\ turn < MaxTurns
  /\ CallerAt("prompting")
  /\ UNCHANGED <<groupVars, req, worker, events, turn, client>>

\* AgentSession::prompt owns the client again.
TurnStarts ==
  /\ At("prompting") /\ client \in {"session", "returned"}
  /\ turn' = turn + 1
  /\ req' = [step |-> "check", id |-> PromptOf(turn + 1)]
  /\ worker' = "streaming"
  /\ client' = "worker"
  /\ events' = <<>>
  /\ got' = <<>>
  /\ caller' = "draining"
  /\ UNCHANGED <<app, groupVars, agentVars, linkVars, buffered>>

\* drain_agent_turn; a turn that fails ends the session.
Drains ==
  /\ At("draining") /\ events # <<>>
  /\ events' = Tail(events)
  /\ LET event == Head(events) IN
       /\ got' = IF event.what = "update" THEN Append(got, event) ELSE got
       /\ caller' = CASE event.what = "update"   -> "draining"
                      [] event.what = "complete" -> "idle"
                      [] event.what = "error"    -> "cancelling"
  /\ UNCHANGED <<app, groupVars, agentVars, linkVars, req, worker, buffered, turn, client>>

IdleTimeout ==
  /\ At("draining") /\ Watchdog
  /\ CallerAt("cancelling")
  /\ UNCHANGED <<groupVars, req, worker, events, turn, client>>

-----------------------------------------------------------------------------
(* The caller: terminate.                                                    *)

Terminate ==
  /\ At("idle")
  /\ CallerAt("cancelling")
  /\ UNCHANGED <<groupVars, req, worker, events, turn, client>>

\* session/cancel, unless it gets neither the lock nor through the pipe in
\* 250 ms.
Cancels ==
  /\ At("cancelling")
  /\ \/ UNCHANGED stdin
     \/ /\ ~ended /\ ~PipesClosed /\ WriterFree
        /\ stdin' = Append(stdin, [what |-> "cancel"])
  /\ caller' = "reclaiming"
  /\ UNCHANGED <<app, groupVars, owes, asked, sent, muted, stdout, linkVars, turnVars, client>>

Reclaims ==
  /\ At("reclaiming") /\ client \in {"session", "returned"}
  /\ client' = "session"
  /\ CallerAt("closing")
  /\ UNCHANGED <<groupVars, req, worker, events, turn>>

\* Mutant: the reclaim waits for the worker as prompt does.
ReclaimUnbounded ==
  /\ At("reclaiming") /\ client = "worker" /\ worker = "stopping"
  /\ CallerAt("aborting")
  /\ UNCHANGED <<groupVars, req, worker, events, turn, client>>

ReclaimTimesOut ==
  /\ At("reclaiming") /\ client = "worker"
  /\ CallerAt("aborting")
  /\ UNCHANGED <<groupVars, req, worker, events, turn, client>>

\* The worker is aborted and drops the client it owns, or the client that it
\* returned in the meantime is dropped with the receiver.
Aborts ==
  /\ At("aborting")
  /\ DropClient
  /\ caller' = "over"

\* Mutant: the group leaves the registry when it is told to stop.
ShutsDownEarly ==
  /\ At("closing")
  /\ kid' = IF kid = "mild" THEN "none" ELSE kid
  /\ registered' = FALSE
  /\ CallerAt("grace")
  /\ UNCHANGED <<leader, req, worker, events, turn, client>>

\* AcpClient::shutdown: SIGTERM to the group.
ShutsDown ==
  /\ At("closing")
  /\ kid' = IF kid = "mild" THEN "none" ELSE kid
  /\ CallerAt("grace")
  /\ UNCHANGED <<leader, registered, req, worker, events, turn, client>>

\* Mutant: no SIGKILL follows SIGTERM.
GraceEndsGently ==
  /\ At("grace")
  /\ UNCHANGED <<leader, kid>>
  /\ ClientGone
  /\ caller' = "over"

\* After the grace, SIGKILL to the group, but only if its leader still runs.
GraceEnds ==
  /\ At("grace")
  /\ IF leader = "up" THEN GroupKilled ELSE UNCHANGED <<leader, kid>>
  /\ ClientGone
  /\ caller' = "over"

TerminateStep ==
  Cancels \/ Reclaims \/ ReclaimTimesOut \/ Aborts \/ ShutsDown \/ GraceEnds

-----------------------------------------------------------------------------
(* The caller's future is dropped: the driver is aborted.                    *)

Abandon ==
  /\ Running /\ caller \notin {"new", "spawned", "over", "dropped"}
  /\ caller' = "dropped"
  /\ IF client = "worker" /\ caller # "aborting"
       THEN /\ events' = <<>>
            /\ UNCHANGED <<app, groupVars, agentVars, linkVars, req, worker, buffered, got,
                           turn, client>>
       ELSE DropClient

-----------------------------------------------------------------------------
(* The end of the program (exit.rs): kill_all_agents, then exit.             *)

\* The signal task, or a panic hook: the registry is emptied under its lock,
\* and what was in it is killed after.  A program that survives its panic may
\* come here again.
ReapDrains ==
  /\ app \in {"running", "reaped"}
  /\ app' = IF registered THEN "reaping" ELSE "reaped"
  /\ registered' = FALSE
  /\ UNCHANGED <<leader, kid, agentVars, linkVars, turnVars, caller, client>>

ReapKills ==
  /\ app = "reaping"
  /\ app' = "reaped"
  /\ GroupKilled
  /\ owes' = 0
  /\ UNCHANGED <<registered, asked, sent, muted, stdin, stdout, linkVars, turnVars, caller,
                 client>>

Exit ==
  /\ app = "reaped"
  /\ app' = "exited"
  /\ LinkGone
  /\ turn' = 0
  /\ UNCHANGED <<groupVars, sent, caller>>

-----------------------------------------------------------------------------
AgentStep ==
  \/ AgentReads \/ AgentUpdates \/ AgentAsks \/ AgentCloses \/ AgentExits
  \/ \E ok \in BOOLEAN : AgentAnswers(ok)
  \/ \E k \in Kids : AgentForks(k)

ConnectStep == ControlAnswered \/ ConnectFails \/ ControlTimesOut

CallerStep ==
  \/ SpawnAgent \/ RegisterAgent \/ ConnectStep \/ Prompt \/ TurnStarts \/ Drains \/ IdleTimeout
  \/ Terminate \/ TerminateStep \/ Abandon

Next ==
  AgentStep \/ ReaderStep \/ RequestStep \/ WorkerStep \/ CallerStep \/ ReapDrains
  \/ ReapKills \/ Exit

Spec == Init /\ [][Next]_vars

\* What the caller does of itself.
CallerMoves == ConnectStep \/ TurnStarts \/ Drains \/ TerminateStep

\* Tokio runs every task that can run, fires every timeout that is pending and
\* queues for the writer lock in order; kill_all_agents gets on with it.  The
\* agent owes nothing.
Fairness ==
  /\ WF_vars(ReaderStep)
  /\ WF_vars(RequestStep \/ WorkerStep)
  /\ SF_vars(RequestStep)
  /\ WF_vars(ReapKills)
  /\ WF_vars(CallerMoves)

FairSpec == Spec /\ Fairness

-----------------------------------------------------------------------------
(* Properties.                                                               *)

Prefix(t, k) == [i \in 1..k |-> [what |-> "update", turn |-> t, n |-> i]]

\* What the caller took from a turn is the beginning of what the agent sent in
\* that turn, and all of it once the turn is complete: no update is lost to the
\* race of the answer with the updates before it, none leaks into a later turn.
TurnDelivered ==
  turn # 0 =>
    /\ got = Prefix(turn, Len(got))
    /\ caller \in {"idle", "prompting"} => Len(got) = sent[turn]

\* An agent that runs is in the registry, or it was spawned and is about to be
\* registered, or kill_all_agents has drained the registry and is about to kill
\* it.  So one that outlives kill_all_agents came too late for it.
Reapable ==
  leader = "up" => registered \/ caller = "spawned" \/ app = "reaping"

\* A call of terminate that returned, and a connect that failed, left no agent,
\* no worker, and no task on the pipes.
Released ==
  caller = "over" =>
    leader = "dead" /\ client = "none" /\ worker = "none" /\ reader = "stopped"

Terminating == caller \in {"cancelling", "reclaiming", "aborting", "closing", "grace"}

TerminateEnds == []<>(~Terminating \/ ~Running)

\* transport.rs: a wedged agent that never replies to a control RPC must not
\* stall the orchestrator past its deadline.
ConnectEnds == []<>(caller # "connecting" \/ ~Running)

\* terminate ends whatever the agent does: with a full pipe and the writer
\* locked, with a turn that nobody drains, with an agent that ignores SIGTERM.
\* A handshake ends too, silent agent or not, unless from some point on a write
\* to the agent, of a request or of an answer, stays blocked.
CallsEnd == TerminateEnds /\ ([]<>WriterFree => ConnectEnds)

\* backend.rs: if the session was dropped meanwhile, the client's own Drop tears
\* the subprocess down, so nothing leaks.
DroppedIsFreed == caller = "dropped" ~> (leader = "dead" \/ ~Running)

\* transport.rs: the reader's end wakes every pending request, so no caller
\* blocks forever.
EndedWakes == (caller = "draining" /\ ended) ~> (caller # "draining" \/ ~Running)

\* exit.rs: an orphaned agent must never outlive the binary.
NoOrphan == app = "exited" => leader # "up" /\ kid = "none"
=============================================================================
