--------------------------- MODULE RepositoryLease ---------------------------
(***************************************************************************)
(* The repository execution lease (repository_lease.rs): one mutator of a  *)
(* Git common directory at a time, across the CoreApi instances of one     *)
(* process and across processes.                                           *)
(*                                                                         *)
(* Two layers.  In a process, an Entry: an owner, a queue of tickets and a *)
(* Notify, its fields guarded by a mutex that is dropped between the steps *)
(* below.  Across processes, flock(2) on one file: the lock belongs to an  *)
(* open file description, which a duplicate in a Git child keeps open when *)
(* its coordinator is killed.                                              *)
(*                                                                         *)
(* A request is one call of acquire or try_acquire; the runtime is         *)
(* multi-threaded, so calls of one process interleave between any two      *)
(* steps.                                                                  *)
(***************************************************************************)
EXTENDS Naturals, FiniteSets

CONSTANTS
  Requests,   \* the calls; each is made once (the bound of the model)
  Processes,
  ProcessOf,  \* ProcessOf[r]: the process, hence the registry, of r
  Trying,     \* the calls of try_acquire; the others call acquire
  Faults,     \* the disturbances of this instance
  Nobody

LeaseFaults == {"cancel", "io", "crash"}

ASSUME LeaseAssumption ==
  /\ IsFiniteSet(Requests)
  /\ ProcessOf \in [Requests -> Processes]
  /\ Trying \subseteq Requests
  /\ Faults \subseteq LeaseFaults
  /\ Nobody \notin Requests

VARIABLES
  pc,         \* where each call stands
  tickets,    \* RepositoryLeaseRegistry::tickets, per process
  ticket,     \* the ticket a call has drawn
  waiters,    \* EntryState::waiters: the calls whose ticket is queued
  owner,      \* EntryState::owner, per process
  flock,      \* the call whose file description holds the flock
  child,      \* the calls with a mutation child that inherited a duplicate
  cancelled   \* the calls whose CancellationToken is cancelled

vars == <<pc, tickets, ticket, waiters, owner, flock, child, cancelled>>

\* In the queue, or about to look at it again.
Queued == {"check", "listen", "wait", "woken"}

\* With a LocalClaim or a guard, which name the call as the entry's owner.
Claiming == {"lock", "sleep", "held", "unclaim"}

PCs == {"start", "enroll", "notify", "close", "done"} \cup Queued \cup Claiming

Peers(r) == {s \in Requests : ProcessOf[s] = ProcessOf[r]}

Queue(p) == {r \in waiters : ProcessOf[r] = p}

\* Mutant: any waiter may take a free entry.
FirstAny(r) == r \in waiters

\* waiters.first() is the ticket of r.
First(r) == r \in waiters /\ \A s \in Queue(ProcessOf[r]) : ticket[r] <= ticket[s]

Init ==
  /\ pc = [r \in Requests |-> "start"]
  /\ tickets = [p \in Processes |-> 0]
  /\ ticket = [r \in Requests |-> 0]
  /\ waiters = {}
  /\ owner = [p \in Processes |-> Nobody]
  /\ flock = Nobody
  /\ child = {}
  /\ cancelled = {}

Goto(r, next) == pc' = [pc EXCEPT ![r] = next]

-----------------------------------------------------------------------------
(* The queue of one process.                                               *)

\* acquire: tickets.fetch_add, before the entry's mutex is taken.
DrawTicket(r) ==
  /\ pc[r] = "start"
  /\ r \notin Trying
  /\ Goto(r, "enroll")
  /\ ticket' = [ticket EXCEPT ![r] = tickets[ProcessOf[r]]]
  /\ tickets' = [tickets EXCEPT ![ProcessOf[r]] = @ + 1]
  /\ UNCHANGED <<waiters, owner, flock, child, cancelled>>

Enroll(r) ==
  /\ pc[r] = "enroll"
  /\ Goto(r, "check")
  /\ waiters' = waiters \cup {r}
  /\ UNCHANGED <<tickets, ticket, owner, flock, child, cancelled>>

\* The critical section of the loop: take a free entry when first in line.
Check(r) ==
  /\ pc[r] = "check"
  /\ IF owner[ProcessOf[r]] = Nobody /\ First(r)
     THEN /\ Goto(r, "lock")
          /\ waiters' = waiters \ {r}
          /\ owner' = [owner EXCEPT ![ProcessOf[r]] = r]
     ELSE Goto(r, "listen") /\ UNCHANGED <<waiters, owner>>
  /\ UNCHANGED <<tickets, ticket, flock, child, cancelled>>

\* changed.notified() is created after the mutex was dropped: from here on
\* notify_waiters reaches the call.
Listen(r) ==
  /\ pc[r] = "listen"
  /\ Goto(r, "wait")
  /\ UNCHANGED <<tickets, ticket, waiters, owner, flock, child, cancelled>>

\* The notified arm of the select.
Wake(r) ==
  /\ pc[r] = "woken"
  /\ Goto(r, "check")
  /\ UNCHANGED <<tickets, ticket, waiters, owner, flock, child, cancelled>>

\* Mutant: a cancelled waiter leaves its ticket in the queue.
LeaveTicketBehind(r) ==
  /\ pc[r] \in {"wait", "woken"}
  /\ r \in cancelled
  /\ Goto(r, "notify")
  /\ UNCHANGED <<tickets, ticket, waiters, owner, flock, child, cancelled>>

\* Mutant: a waiter looks at its token only when it is notified.
LeaveWhenWoken(r) ==
  /\ pc[r] = "woken"
  /\ r \in cancelled
  /\ Goto(r, "notify")
  /\ waiters' = waiters \ {r}
  /\ UNCHANGED <<tickets, ticket, owner, flock, child, cancelled>>

\* The cancelled arm, which the select may take although both are ready.
Leave(r) ==
  /\ pc[r] \in {"wait", "woken"}
  /\ r \in cancelled
  /\ Goto(r, "notify")
  /\ waiters' = waiters \ {r}
  /\ UNCHANGED <<tickets, ticket, owner, flock, child, cancelled>>

\* try_acquire: busy when the entry is owned or anybody waits.
TryClaim(r) ==
  /\ pc[r] = "start"
  /\ r \in Trying
  /\ IF owner[ProcessOf[r]] = Nobody /\ Queue(ProcessOf[r]) = {}
     THEN Goto(r, "lock") /\ owner' = [owner EXCEPT ![ProcessOf[r]] = r]
     ELSE Goto(r, "done") /\ UNCHANGED owner
  /\ UNCHANGED <<tickets, ticket, waiters, flock, child, cancelled>>

-----------------------------------------------------------------------------
(* The file lock, and the way out.                                         *)

\* open_lock_file and try_flock.
Flock(r) ==
  /\ pc[r] = "lock"
  /\ \/ flock = Nobody /\ flock' = r /\ Goto(r, "held")
     \/ /\ flock # Nobody
        /\ Goto(r, IF r \in Trying THEN "unclaim" ELSE "sleep")
        /\ UNCHANGED flock
     \/ "io" \in Faults /\ Goto(r, "unclaim") /\ UNCHANGED flock
  /\ UNCHANGED <<tickets, ticket, waiters, owner, child, cancelled>>

\* Mutant: cancelled while polling, the call returns without its rollback.
PollCancelledLeaky(r) ==
  /\ pc[r] = "sleep"
  /\ \/ Goto(r, "lock")
     \/ r \in cancelled /\ Goto(r, "done")
  /\ UNCHANGED <<tickets, ticket, waiters, owner, flock, child, cancelled>>

\* The 25 ms poll of the file lock.
Poll(r) ==
  /\ pc[r] = "sleep"
  /\ \/ Goto(r, "lock")
     \/ r \in cancelled /\ Goto(r, "unclaim")
  /\ UNCHANGED <<tickets, ticket, waiters, owner, flock, child, cancelled>>

\* The guard, or a LocalClaim that was not transferred, is dropped:
\* release_local frees the entry, then notifies.
Release(r) ==
  /\ pc[r] \in {"held", "unclaim"}
  /\ Goto(r, "notify")
  /\ owner' = [owner EXCEPT ![ProcessOf[r]] = Nobody]
  /\ UNCHANGED <<tickets, ticket, waiters, flock, child, cancelled>>

\* notify_waiters: it reaches the calls that listen, and stores no permit.
NotifyWaiters(r) ==
  /\ pc[r] = "notify"
  /\ pc' = [s \in Requests |-> IF s = r THEN "close"
                               ELSE IF s \in Peers(r) /\ pc[s] = "wait" THEN "woken"
                               ELSE pc[s]]
  /\ UNCHANGED <<tickets, ticket, waiters, owner, flock, child, cancelled>>

\* Mutant: the file is unlocked, not closed, whatever a child still does.
Unlock(r) == flock' = IF flock = r THEN Nobody ELSE flock

\* Mutant: the descriptor is leaked.
LeakDescriptor(r) == UNCHANGED flock

\* A duplicate of the description outlives the descriptor of the guard.
CloseDescriptor(r) == flock' = IF flock = r /\ r \notin child THEN Nobody ELSE flock

\* The guard's file is closed after its drop.
Close(r) ==
  /\ pc[r] = "close"
  /\ Goto(r, "done")
  /\ CloseDescriptor(r)
  /\ UNCHANGED <<tickets, ticket, waiters, owner, child, cancelled>>

\* A coordinator Git child starts with an inherited duplicate, and exits.
SpawnChild(r) ==
  /\ pc[r] = "held"
  /\ r \notin child
  /\ child' = child \cup {r}
  /\ UNCHANGED <<pc, tickets, ticket, waiters, owner, flock, cancelled>>

ChildExits(r) ==
  /\ r \in child
  /\ child' = child \ {r}
  /\ flock' = IF flock = r /\ pc[r] = "done" THEN Nobody ELSE flock
  /\ UNCHANGED <<pc, tickets, ticket, waiters, owner, cancelled>>

\* The caller cancels the token it passed to acquire.
Cancel(r) ==
  /\ "cancel" \in Faults
  /\ r \notin Trying \cup cancelled
  /\ pc[r] \notin {"held", "unclaim", "notify", "close", "done"}
  /\ cancelled' = cancelled \cup {r}
  /\ UNCHANGED <<pc, tickets, ticket, waiters, owner, flock, child>>

\* A process is killed: its calls end where they stand and its registry is
\* gone, its children live on.  A call still at "start" is made by the process
\* that replaces it.
Crash(p) ==
  /\ "crash" \in Faults
  /\ LET dead == {r \in Requests : ProcessOf[r] = p /\ pc[r] # "start"} IN
     /\ \E r \in dead : pc[r] # "done"
     /\ pc' = [r \in Requests |-> IF r \in dead THEN "done" ELSE pc[r]]
     /\ waiters' = waiters \ dead
     /\ flock' = IF flock \in dead \ child THEN Nobody ELSE flock
  /\ tickets' = [tickets EXCEPT ![p] = 0]
  /\ owner' = [owner EXCEPT ![p] = Nobody]
  /\ UNCHANGED <<ticket, child, cancelled>>

\* Every step a call takes by itself.
CallStep(r) ==
  \/ DrawTicket(r) \/ Enroll(r) \/ Check(r) \/ Listen(r) \/ Wake(r) \/ Leave(r)
  \/ TryClaim(r) \/ Flock(r) \/ Poll(r) \/ Release(r) \/ NotifyWaiters(r) \/ Close(r)

Next ==
  \/ \E r \in Requests : CallStep(r) \/ SpawnChild(r) \/ ChildExits(r) \/ Cancel(r)
  \/ \E p \in Processes : Crash(p)

Spec == Init /\ [][Next]_vars

\* Calls are polled, a holder finishes its work, a child exits.
Fairness == \A r \in Requests : WF_vars(CallStep(r)) /\ WF_vars(ChildExits(r))

FairSpec == Spec /\ Fairness

-----------------------------------------------------------------------------
(* Properties.                                                             *)

TypeOK ==
  /\ pc \in [Requests -> PCs]
  /\ tickets \in [Processes -> Nat]
  /\ ticket \in [Requests -> Nat]
  /\ waiters \in SUBSET Requests
  /\ owner \in [Processes -> Requests \cup {Nobody}]
  /\ flock \in Requests \cup {Nobody}
  /\ child \in SUBSET Requests
  /\ cancelled \in SUBSET Requests

\* A call mutates the repository while it holds the guard, or a child of it,
\* orphaned or not, still runs.
Mutating(r) == pc[r] = "held" \/ r \in child

\* At most one call mutates the repository, across processes and although a
\* coordinator was killed (0048 ARCHITECTURE: a SIGKILL of the parent cannot
\* release the repository lock while an orphan Git process still mutates).
OneMutator == \A r, s \in Requests : Mutating(r) /\ Mutating(s) => r = s

\* The entry names only a call that is still there to free it: an error, a
\* cancellation or a refused lock rolls the claim back (the LocalClaim doc).
ClaimRolledBack ==
  \A p \in Processes : owner[p] # Nobody =>
    ProcessOf[owner[p]] = p /\ pc[owner[p]] \in Claiming

\* A queued ticket belongs to a call that will look at the queue again: a stale
\* one would be first for ever and close the entry to everyone.
TicketsAlive == \A r \in waiters : pc[r] \in Queued

\* Neither half of an entry ever outlives the call that put it there, on any of
\* the ways out of acquire.
EntryAlive == ClaimRolledBack /\ TicketsAlive

\* The queue is fair: nobody becomes the owner past a call whose ticket was
\* queued before it, try_acquire past nobody at all.
NoOvertaking ==
  [][\A p \in Processes, s \in Requests :
       owner'[p] = s /\ owner[p] # s =>
         \A r \in Queue(p) \ {s} : s \notin Trying /\ ticket[s] < ticket[r]]_vars

\* A call whose token is cancelled before it holds the guard comes to an end.
CancelEnds ==
  \A r \in Requests : r \in cancelled ~> pc[r] \in {"held", "done"}

\* A call without competitors in its own process is answered, whoever holds
\* the file lock elsewhere and whichever process is killed.
AloneAnswered ==
  \A r \in Requests : Peers(r) = {r} =>
    (pc[r] # "start") ~> (pc[r] \in {"held", "done"})

\* Every call is answered ("Fair in-process and cross-process repository
\* execution leases", repository_lease.rs).
EveryoneAnswered == \A r \in Requests : <>(pc[r] \in {"held", "done"})
=============================================================================
