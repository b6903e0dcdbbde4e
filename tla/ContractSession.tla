---------------------------- MODULE ContractSession ----------------------------
(***************************************************************************)
(* The lifetime of a session of the plan contract (plan_contract.rs).  One *)
(* server process keeps at most one execution or authoring session, and    *)
(* with it the repository lease.  Every agent or Git process that the      *)
(* client runs is registered first; the server then spawns a sentinel, a   *)
(* shell loop that inherits the lock, so that the death of the server      *)
(* cannot admit a second owner while such a process may still write.       *)
(*                                                                         *)
(* The kernel lock belongs to an open file: the session's guard, every     *)
(* sentinel and every process a sentinel forked keep it, and another       *)
(* process gets it once all of them have closed it.  Request ids and oids  *)
(* are left out: a request that fails their checks changes nothing.        *)
(***************************************************************************)
EXTENDS Naturals, FiniteSets

CONSTANTS
  Worker,       \* worker ids
  GitChild,     \* Git child ids
  MaxSessions,  \* bound: how many sessions are granted
  MaxForeign    \* bound: how often another process takes the lock

Child == Worker \cup GitChild

ASSUME ContractAssumption ==
  /\ Worker \cap GitChild = {}
  /\ MaxSessions \in Nat
  /\ MaxForeign \in Nat

VARIABLES
  granted,   \* how many sessions were granted: the nonce of the last one
  server,    \* up, stopping (shutdown is cancelled, tasks still run) or down
  session,   \* State.session or State.authoring: its kind and number
  waiting,   \* the kind of the Start request that waits for the lease
  closing,   \* the Close request between its critical sections
  receipt,   \* State.closed: the number of the session it is for, or 0
  permits,   \* sessions for which a cleanup permit was persisted
  child,     \* the sentinel of each child
  host,      \* the session for which the registered process itself runs, or 0
  sleeper,   \* children whose killed sentinel left its `sleep 3600' behind
  foreign,   \* another process holds the lock
  taken      \* how often that was

serverVars == <<granted, server, session, waiting, closing, receipt, permits>>
lockVars == <<child, host, sleeper, foreign, taken>>
vars == <<serverVars, lockVars>>

NoSession == [kind |-> "none", number |-> 0]

Idle == [step |-> "none", number |-> 0]

\* state: none, held (in the session's table) or orphan (in nobody's);
\* of: the session; known: its process identity was registered; late: it was
\* registered after Close had looked at the tables of its session.
NoChild == [state |-> "none", of |-> 0, known |-> FALSE, late |-> FALSE]

TypeOK ==
  /\ granted \in 0..MaxSessions
  /\ server \in {"up", "stopping", "down"}
  /\ session \in [kind : {"none", "run", "authoring"}, number : 0..MaxSessions]
  /\ waiting \in {"none", "run", "authoring"}
  /\ closing \in [step : {"none", "verified", "checked", "permitted"},
                 number : 0..MaxSessions]
  /\ receipt \in 0..MaxSessions
  /\ permits \subseteq 0..MaxSessions
  /\ child \in [Child -> [state : {"none", "held", "orphan"}, of : 0..MaxSessions,
                          known : BOOLEAN, late : BOOLEAN]]
  /\ host \in [Child -> 0..MaxSessions]
  /\ sleeper \subseteq Child
  /\ foreign \in BOOLEAN
  /\ taken \in 0..MaxForeign

Init ==
  /\ granted = 0
  /\ server = "up"
  /\ session = NoSession
  /\ waiting = "none"
  /\ closing = Idle
  /\ receipt = 0
  /\ permits = {}
  /\ child = [c \in Child |-> NoChild]
  /\ host = [c \in Child |-> 0]
  /\ sleeper = {}
  /\ foreign = FALSE
  /\ taken = 0

Serving == server # "down"

\* StartSession waits for the lease with the state mutex in its hand.
MutexFree == Serving /\ waiting = "none"

Held == {c \in Child : child[c].state = "held"}

Orphans == {c \in Child : child[c].state = "orphan"}

LockFree == session = NoSession /\ ~foreign /\ Held = {} /\ Orphans = {} /\ sleeper = {}

-----------------------------------------------------------------------------
(* Sessions.                                                                 *)

\* StartSession or StartAuthoringSession, up to its acquire.  Only the first
\* forgets a Close receipt.
AskStart(kind) ==
  /\ MutexFree
  /\ session = NoSession
  /\ kind \in {"run", "authoring"}
  /\ waiting' = kind
  /\ receipt' = IF kind = "run" THEN 0 ELSE receipt
  /\ UNCHANGED <<granted, server, session, closing, permits, lockVars>>

\* A plausible bug: the lock is not asked for when no session is left in the server.
GrantUnlocked ==
  /\ Serving /\ waiting # "none"
  /\ granted < MaxSessions
  /\ granted' = granted + 1
  /\ session' = [kind |-> waiting, number |-> granted + 1]
  /\ waiting' = "none"
  /\ UNCHANGED <<server, closing, receipt, permits, lockVars>>

\* acquire returns.
Grant ==
  /\ Serving /\ waiting # "none"
  /\ LockFree
  /\ granted < MaxSessions
  /\ granted' = granted + 1
  /\ session' = [kind |-> waiting, number |-> granted + 1]
  /\ waiting' = "none"
  /\ UNCHANGED <<server, closing, receipt, permits, lockVars>>

\* CancelSession and CloseAuthoring: neither touches State.closed.
EndSession(kind) ==
  /\ MutexFree
  /\ session.kind = kind /\ kind # "none"
  /\ Held = {}
  /\ session' = NoSession
  /\ UNCHANGED <<granted, server, waiting, closing, receipt, permits, lockVars>>

\* The session is dropped with its table: the sentinels live on, nobody's.
Abandoned ==
  child' = [c \in Child |->
              IF c \in Held THEN [child[c] EXCEPT !.state = "orphan"] ELSE child[c]]

-----------------------------------------------------------------------------
(* Close: critical sections with nothing held between them.  Every other     *)
(* request of this module may come in between.                               *)

CloseVerified ==
  /\ MutexFree
  /\ closing = Idle
  /\ receipt = 0
  /\ session.kind = "run"
  /\ closing' = [step |-> "verified", number |-> session.number]
  /\ UNCHANGED <<granted, server, session, waiting, receipt, permits, lockVars>>

CloseRefused ==
  /\ MutexFree
  /\ closing.step = "verified"
  /\ closing' = Idle
  /\ UNCHANGED <<granted, server, session, waiting, receipt, permits, lockVars>>

\* mutate: the session is the one of the request, and its tables are empty.
CloseChecked ==
  /\ MutexFree
  /\ closing.step = "verified"
  /\ session = [kind |-> "run", number |-> closing.number]
  /\ Held = {}
  /\ closing' = [closing EXCEPT !.step = "checked"]
  /\ UNCHANGED <<granted, server, session, waiting, receipt, permits, lockVars>>

\* The cleanup permit is persisted, without the mutex: neither the session nor
\* its tables need be what they were.
ClosePermitted ==
  /\ Serving
  /\ closing.step = "checked"
  /\ permits' = permits \cup {closing.number}
  /\ closing' = [closing EXCEPT !.step = "permitted"]
  /\ UNCHANGED <<granted, server, session, waiting, receipt, lockVars>>

\* The permit cannot be written: the session stays.
PermitFails ==
  /\ Serving
  /\ closing.step = "checked"
  /\ closing' = Idle
  /\ UNCHANGED <<granted, server, session, waiting, receipt, permits, lockVars>>

\* Whatever execution session is there by now goes.
CloseTornDown ==
  /\ MutexFree
  /\ closing.step = "permitted"
  /\ receipt' = closing.number
  /\ closing' = Idle
  /\ IF session.kind = "run"
       THEN session' = NoSession /\ Abandoned
       ELSE UNCHANGED <<session, child>>
  /\ server' = "stopping"
  /\ UNCHANGED <<granted, waiting, permits, host, sleeper, foreign, taken>>

-----------------------------------------------------------------------------
(* The registered children.                                                  *)

\* BeginWorker, BeginAuthorWorker (which takes no identity) and BeginGitChild
\* (which requires one); the client lets the process work on the answer.
BeginChild(c, known) ==
  /\ MutexFree
  /\ session # NoSession
  /\ child[c].state = "none" /\ host[c] = 0
  /\ c \in GitChild => session.kind = "run" /\ known
  /\ session.kind = "authoring" => ~known
  /\ child' = [child EXCEPT ![c] =
                 [state |-> "held", of |-> session.number, known |-> known,
                  late |-> /\ closing.step \in {"checked", "permitted"}
                           /\ closing.number = session.number]]
  /\ host' = [host EXCEPT ![c] = session.number]
  /\ UNCHANGED <<serverVars, sleeper, foreign, taken>>

HostEnds(c) ==
  /\ host[c] # 0
  /\ host' = [host EXCEPT ![c] = 0]
  /\ UNCHANGED <<serverVars, child, sleeper, foreign, taken>>

\* terminate_sentinel: the shell is killed, what it forked is not.
Killed(c) ==
  /\ child' = [child EXCEPT ![c] = NoChild]
  /\ sleeper' = sleeper \cup {c}

\* A plausible bug: EndGitChild does not look whether the process is gone.
EndUnverified(c) ==
  /\ MutexFree
  /\ session # NoSession /\ c \in Held
  /\ c \in Worker => host[c] = 0
  /\ Killed(c)
  /\ UNCHANGED <<serverVars, host, foreign, taken>>

\* EndWorker, EndAuthorWorker: the client says so when its promise has settled.
\* EndGitChild: the server sees for itself.
EndChild(c) ==
  /\ MutexFree
  /\ session # NoSession /\ c \in Held
  /\ host[c] = 0
  /\ Killed(c)
  /\ UNCHANGED <<serverVars, host, foreign, taken>>

\* A plausible bug: recovery handles Git children only.
ReapGitOrphan(c) ==
  /\ c \in Orphans \cap GitChild /\ child[c].known /\ host[c] = 0
  /\ Killed(c)
  /\ UNCHANGED <<serverVars, host, foreign, taken>>

\* reap_orphan_sentinel, by a recovery client: without a registered identity
\* there is nothing to verify, and it refuses.
ReapOrphan(c) ==
  /\ c \in Orphans /\ child[c].known /\ host[c] = 0
  /\ Killed(c)
  /\ UNCHANGED <<serverVars, host, foreign, taken>>

SleeperExpires(c) ==
  /\ c \in sleeper
  /\ sleeper' = sleeper \ {c}
  /\ UNCHANGED <<serverVars, child, host, foreign, taken>>

-----------------------------------------------------------------------------
(* Processes.                                                                *)

\* The server is killed, or its main function returns after a Close.
ServerDies ==
  /\ Serving
  /\ server' = "down"
  /\ session' = NoSession
  /\ waiting' = "none"
  /\ closing' = Idle
  /\ receipt' = 0
  /\ Abandoned
  /\ UNCHANGED <<granted, permits, host, sleeper, foreign, taken>>

ServerStarts ==
  /\ server = "down"
  /\ server' = "up"
  /\ UNCHANGED <<granted, session, waiting, closing, receipt, permits, lockVars>>

ForeignTakes ==
  /\ LockFree
  /\ taken < MaxForeign
  /\ foreign' = TRUE
  /\ taken' = taken + 1
  /\ UNCHANGED <<serverVars, child, host, sleeper>>

ForeignLeaves ==
  /\ foreign
  /\ foreign' = FALSE
  /\ UNCHANGED <<serverVars, child, host, sleeper, taken>>

Next ==
  \/ \E kind \in {"run", "authoring"} : AskStart(kind) \/ EndSession(kind)
  \/ Grant
  \/ CloseVerified \/ CloseRefused \/ CloseChecked \/ ClosePermitted \/ PermitFails
  \/ CloseTornDown
  \/ \E c \in Child :
       \/ \E known \in BOOLEAN : BeginChild(c, known)
       \/ HostEnds(c) \/ EndChild(c) \/ ReapOrphan(c) \/ SleeperExpires(c)
  \/ ServerDies \/ ServerStarts
  \/ ForeignTakes \/ ForeignLeaves

Spec == Init /\ [][Next]_vars

\* Agents and Git processes end, what their client reports or a recovery client
\* verifies is recovered, a `sleep 3600' runs out, another run ends, and flock is
\* polled every 25 ms.
Fairness ==
  /\ \A c \in Child : WF_vars(HostEnds(c)) /\ WF_vars(ReapOrphan(c))
                        /\ WF_vars(SleeperExpires(c))
  /\ WF_vars(ForeignLeaves)
  /\ WF_vars(Grant)

FairSpec == Spec /\ Fairness

-----------------------------------------------------------------------------
(* Properties.                                                               *)

\* The sessions on whose behalf something may write to the repository.
Writers == ({host[c] : c \in Child} \cup {session.number}) \ {0}

\* Whatever dies in whatever order, a process registered for one session never
\* runs beside another session, or beside another process that owns the lease.
OneOwner ==
  /\ \A m, n \in Writers : m = n
  /\ foreign => Writers = {}

\* The permit of a session speaks for every process registered before Close
\* checked the session: whatever came between the check, the persisting and the
\* tearing down, a process of that session that still runs was registered later.
PermitCoversEarlier ==
  \A c \in Child : host[c] \in permits => child[c].late

\* A Start request that waits for the lease, and with it every request behind
\* the state mutex, is answered, unless a sentinel that nobody may reap holds
\* the lock.
StartAnswered ==
  (waiting # "none")
    ~> \/ waiting = "none"
       \/ \E c \in Orphans : ~child[c].known
       \/ granted = MaxSessions

\* ARCHITECTURE.md: only zero live worker and Git children let Close emit its
\* cleanup permit.  So a session that is gone with a permit left nothing running.
PermitsQuiescent ==
  \A c \in Child : host[c] \in permits => session.number = host[c]

\* ARCHITECTURE.md: the sentinel keeps the kernel lock until the verified
\* recovery.  So with every sentinel reaped and no owner, the lock is free.
ReapedReleases ==
  session = NoSession /\ ~foreign /\ Held = {} /\ Orphans = {} => LockFree
=============================================================================
