----------------------- MODULE RepositoryLeaseProofs -----------------------
(* Theorems about RepositoryLease, for every set of calls and processes.   *)
EXTENDS RepositoryLease, TLAPS

-----------------------------------------------------------------------------
(* Types.                                                                  *)

LEMMA LeaseTypeInit == Init => TypeOK
BY DEF Init, TypeOK, PCs

\* Every step keeps the types.
LEMMA LeaseTypeStep ==
  ASSUME TypeOK, [Next]_vars
  PROVE  TypeOK'
<1> USE DEF TypeOK
<1>0. \A r \in Requests : ProcessOf[r] \in Processes
  BY LeaseAssumption
<1>1. \A next \in Queued \cup Claiming \cup {"enroll", "notify", "close", "done"} : next \in PCs
  BY DEF PCs
<1>2. ASSUME NEW r \in Requests, NEW next \in PCs, Goto(r, next)
      PROVE  pc' \in [Requests -> PCs]
  BY <1>2 DEF Goto
<1>3. ASSUME NEW r \in Requests, CallStep(r)
      PROVE  TypeOK'
  <2>1. CASE DrawTicket(r)
    BY <1>0, <1>1, <1>2, <2>1 DEF DrawTicket
  <2>2. CASE Enroll(r)
    BY <1>1, <1>2, <2>2 DEF Enroll, Queued
  <2>3. CASE Check(r)
    BY <1>0, <1>1, <1>2, <2>3 DEF Check, Queued, Claiming
  <2>4. CASE Listen(r) \/ Wake(r) \/ Leave(r) \/ Poll(r)
    BY <1>1, <1>2, <2>4 DEF Listen, Wake, Leave, Poll, Queued, Claiming
  <2>5. CASE TryClaim(r)
    BY <1>0, <1>1, <1>2, <2>5 DEF TryClaim, Claiming
  <2>6. CASE Flock(r)
    BY <1>1, <1>2, <2>6 DEF Flock, Claiming
  <2>7. CASE Release(r)
    BY <1>0, <1>1, <1>2, <2>7 DEF Release
  <2>8. CASE NotifyWaiters(r)
    BY <1>1, <2>8 DEF NotifyWaiters, Queued
  <2>9. CASE Close(r)
    BY <1>1, <1>2, <2>9 DEF Close, CloseDescriptor
  <2> QED
    BY <1>3, <2>1, <2>2, <2>3, <2>4, <2>5, <2>6, <2>7, <2>8, <2>9 DEF CallStep
<1>4. ASSUME NEW r \in Requests, SpawnChild(r) \/ ChildExits(r) \/ Cancel(r)
      PROVE  TypeOK'
  BY <1>4 DEF SpawnChild, ChildExits, Cancel
<1>5. ASSUME NEW p \in Processes, Crash(p)
      PROVE  TypeOK'
  BY <1>1, <1>5 DEF Crash
<1>6. CASE UNCHANGED vars
  BY <1>6 DEF vars
<1> QED
  BY <1>3, <1>4, <1>5, <1>6 DEF Next

\* Every variable keeps its type, crashes and replaced processes included.
THEOREM LeaseTypeCorrect == Spec => []TypeOK
<1>1. TypeOK /\ [Next]_vars => TypeOK'
  BY LeaseTypeStep
<1> QED
  BY LeaseTypeInit, <1>1, PTL DEF Spec

-----------------------------------------------------------------------------
(* One mutator.                                                            *)

\* Whoever mutates the repository has the flock: the guard's own description,
\* or the duplicate its child inherited.
MutatorHasFlock == \A r \in Requests : Mutating(r) => flock = r

LEMMA MutatorInit == Init => MutatorHasFlock
BY DEF Init, MutatorHasFlock, Mutating

LEMMA MutatorStep ==
  ASSUME TypeOK, MutatorHasFlock, [Next]_vars
  PROVE  MutatorHasFlock'
<1> USE DEF MutatorHasFlock, Mutating
<1>0. pc \in [Requests -> PCs] /\ Nobody \notin Requests
  BY LeaseAssumption DEF TypeOK
<1>1. ASSUME NEW r \in Requests, NEW next, next # "held", Goto(r, next), UNCHANGED <<flock, child>>
      PROVE  MutatorHasFlock'
  BY <1>0, <1>1 DEF Goto
<1>2. ASSUME NEW r \in Requests, CallStep(r)
      PROVE  MutatorHasFlock'
  <2>1. CASE DrawTicket(r) \/ Enroll(r) \/ Check(r) \/ Listen(r) \/ Wake(r) \/ Leave(r)
             \/ TryClaim(r) \/ Poll(r) \/ Release(r)
    BY <1>1, <2>1 DEF DrawTicket, Enroll, Check, Listen, Wake, Leave, TryClaim, Poll, Release
  <2>2. CASE Flock(r)
    BY <1>0, <2>2 DEF Flock, Goto
  <2>3. CASE NotifyWaiters(r)
    BY <1>0, <2>3 DEF NotifyWaiters
  <2>4. CASE Close(r)
    BY <1>0, <2>4 DEF Close, CloseDescriptor, Goto
  <2> QED
    BY <1>2, <2>1, <2>2, <2>3, <2>4 DEF CallStep
<1>3. ASSUME NEW r \in Requests, SpawnChild(r) \/ ChildExits(r) \/ Cancel(r)
      PROVE  MutatorHasFlock'
  BY <1>0, <1>3 DEF SpawnChild, ChildExits, Cancel
<1>4. ASSUME NEW p \in Processes, Crash(p)
      PROVE  MutatorHasFlock'
  BY <1>0, <1>4 DEF Crash
<1>5. CASE UNCHANGED vars
  BY <1>5 DEF vars
<1> QED
  BY <1>2, <1>3, <1>4, <1>5 DEF Next

\* At most one call mutates the repository at any time, whatever processes are
\* killed and however long their Git children live on.
THEOREM OneMutatorSafe == Spec => []OneMutator
<1> DEFINE Inv == TypeOK /\ MutatorHasFlock
<1>1. Init => Inv
  BY LeaseTypeInit, MutatorInit
<1>2. Inv /\ [Next]_vars => Inv'
  BY LeaseTypeStep, MutatorStep
<1>3. Inv => OneMutator
  BY DEF MutatorHasFlock, OneMutator
<1> QED
  BY <1>1, <1>2, <1>3, PTL DEF Spec

-----------------------------------------------------------------------------
(* The entry: its owner and its queue.                                     *)

EntrySound == ClaimRolledBack /\ TicketsAlive

LEMMA EntryInit == Init => EntrySound
BY DEF Init, EntrySound, ClaimRolledBack, TicketsAlive

LEMMA EntryStep ==
  ASSUME TypeOK, EntrySound, [Next]_vars
  PROVE  EntrySound'
<1> USE DEF EntrySound, ClaimRolledBack, TicketsAlive
<1>0. /\ pc \in [Requests -> PCs] /\ owner \in [Processes -> Requests \cup {Nobody}]
      /\ waiters \subseteq Requests /\ Nobody \notin Requests
      /\ \A r \in Requests : ProcessOf[r] \in Processes
  BY LeaseAssumption DEF TypeOK
<1>1. ASSUME NEW r \in Requests, NEW next, Goto(r, next), UNCHANGED <<owner, waiters>>,
             pc[r] \in Claiming => next \in Claiming,
             pc[r] \in Queued => next \in Queued
      PROVE  EntrySound'
  BY <1>0, <1>1 DEF Goto
<1>2. ASSUME NEW r \in Requests, CallStep(r)
      PROVE  EntrySound'
  <2>1. CASE DrawTicket(r) \/ Listen(r) \/ Wake(r) \/ Flock(r) \/ Poll(r) \/ Close(r)
    BY <1>1, <2>1 DEF DrawTicket, Listen, Wake, Flock, Poll, Close, Queued, Claiming
  <2>2. CASE Enroll(r)
    BY <1>0, <2>2 DEF Enroll, Goto, Queued, Claiming
  <2>3. CASE Check(r)
    BY <1>0, <2>3 DEF Check, Goto, Queued, Claiming
  <2>4. CASE Leave(r)
    BY <1>0, <2>4 DEF Leave, Goto, Queued, Claiming
  <2>5. CASE TryClaim(r)
    BY <1>0, <2>5 DEF TryClaim, Goto, Queued, Claiming
  <2>6. CASE Release(r)
    BY <1>0, <2>6 DEF Release, Goto, Queued, Claiming
  <2>7. CASE NotifyWaiters(r)
    BY <1>0, <2>7 DEF NotifyWaiters, Queued, Claiming
  <2> QED
    BY <1>2, <2>1, <2>2, <2>3, <2>4, <2>5, <2>6, <2>7 DEF CallStep
<1>3. ASSUME NEW r \in Requests, SpawnChild(r) \/ ChildExits(r) \/ Cancel(r)
      PROVE  EntrySound'
  BY <1>3 DEF SpawnChild, ChildExits, Cancel
<1>4. ASSUME NEW p \in Processes, Crash(p)
      PROVE  EntrySound'
  BY <1>0, <1>4 DEF Crash, Queued, Claiming
<1>5. CASE UNCHANGED vars
  BY <1>5 DEF vars
<1> QED
  BY <1>2, <1>3, <1>4, <1>5 DEF Next

\* No error, refused file lock, cancellation or crash leaves an entry owned by
\* a call that is gone, or its queue headed by one.
THEOREM EntryNeverStale == Spec => []EntryAlive
<1>1. TypeOK /\ EntrySound /\ [Next]_vars => TypeOK' /\ EntrySound'
  BY LeaseTypeStep, EntryStep
<1>2. EntrySound => EntryAlive
  BY DEF EntrySound, EntryAlive
<1> QED
  BY LeaseTypeInit, EntryInit, <1>1, <1>2, PTL DEF Spec

-----------------------------------------------------------------------------
(* The order of the queue.                                                 *)

\* From the draw of its ticket until it leaves the queue.
Ticketed == Queued \cup {"enroll"}

\* The tickets in use in a process are distinct and below its counter, and no
\* call of try_acquire has one.
TicketsDistinct ==
  \A r \in Requests : pc[r] \in Ticketed =>
    /\ r \notin Trying
    /\ ticket[r] < tickets[ProcessOf[r]]
    /\ \A s \in Requests \ {r} :
         ProcessOf[s] = ProcessOf[r] /\ pc[s] \in Ticketed => ticket[s] # ticket[r]

LEMMA TicketInit == Init => TicketsDistinct
BY DEF Init, TicketsDistinct, Ticketed, Queued

LEMMA TicketStep ==
  ASSUME TypeOK, TicketsDistinct, [Next]_vars
  PROVE  TicketsDistinct'
<1> USE DEF TicketsDistinct
<1>0. /\ pc \in [Requests -> PCs] /\ ticket \in [Requests -> Nat] /\ tickets \in [Processes -> Nat]
      /\ \A r \in Requests : ProcessOf[r] \in Processes
  BY LeaseAssumption DEF TypeOK
<1>1. ASSUME UNCHANGED <<ticket, tickets>>,
             \A s \in Requests : pc'[s] \in Ticketed => pc[s] \in Ticketed
      PROVE  TicketsDistinct'
  BY <1>1
<1>2. ASSUME NEW r \in Requests, NEW next, Goto(r, next), UNCHANGED <<ticket, tickets>>,
             next \in Ticketed => pc[r] \in Ticketed
      PROVE  TicketsDistinct'
  BY <1>0, <1>1, <1>2 DEF Goto
<1>3. ASSUME NEW r \in Requests, CallStep(r)
      PROVE  TicketsDistinct'
  <2>1. CASE DrawTicket(r)
    <3>1. /\ ticket' = [ticket EXCEPT ![r] = tickets[ProcessOf[r]]]
          /\ tickets' = [tickets EXCEPT ![ProcessOf[r]] = @ + 1]
          /\ pc' = [pc EXCEPT ![r] = "enroll"]
          /\ r \notin Trying
      BY <2>1 DEF DrawTicket, Goto
    <3>2. ticket'[r] = tickets[ProcessOf[r]] /\ tickets'[ProcessOf[r]] = tickets[ProcessOf[r]] + 1
      BY <1>0, <3>1
    <3>3. ASSUME NEW s \in Requests \ {r}, pc'[s] \in Ticketed
          PROVE  /\ s \notin Trying
                 /\ ticket'[s] = ticket[s]
                 /\ pc[s] \in Ticketed
                 /\ ticket[s] < tickets[ProcessOf[s]]
                 /\ tickets[ProcessOf[s]] <= tickets'[ProcessOf[s]]
      BY <1>0, <3>1, <3>3
    <3>4. ASSUME NEW s \in Requests \ {r}, pc'[s] \in Ticketed
          PROVE  ticket'[s] < tickets'[ProcessOf[s]]
      <4>1. /\ ticket[s] \in Nat /\ tickets[ProcessOf[s]] \in Nat
            /\ tickets'[ProcessOf[s]] \in Nat
        BY <1>0, <3>1
      <4> QED
        BY <3>3, <3>4, <4>1
    <3>5. ASSUME NEW s \in Requests \ {r}, pc'[s] \in Ticketed, ProcessOf[s] = ProcessOf[r]
          PROVE  ticket'[s] # ticket'[r]
      BY <1>0, <3>2, <3>3, <3>5
    <3> QED
      BY <1>0, <3>1, <3>2, <3>3, <3>4, <3>5
  <2>2. CASE Enroll(r) \/ Check(r) \/ Listen(r) \/ Wake(r) \/ Leave(r)
    BY <1>2, <2>2 DEF Enroll, Check, Listen, Wake, Leave, Ticketed, Queued
  <2>3. CASE TryClaim(r) \/ Flock(r) \/ Poll(r) \/ Release(r) \/ Close(r)
    BY <1>2, <2>3 DEF TryClaim, Flock, Poll, Release, Close, Ticketed, Queued
  <2>4. CASE NotifyWaiters(r)
    <3>1. \A s \in Requests : pc'[s] \in Ticketed => pc[s] \in Ticketed
      BY <2>4 DEF NotifyWaiters, Ticketed, Queued
    <3> QED
      BY <1>1, <2>4, <3>1 DEF NotifyWaiters
  <2> QED
    BY <1>3, <2>1, <2>2, <2>3, <2>4 DEF CallStep
<1>4. ASSUME NEW r \in Requests, SpawnChild(r) \/ ChildExits(r) \/ Cancel(r)
      PROVE  TicketsDistinct'
  BY <1>1, <1>4 DEF SpawnChild, ChildExits, Cancel
<1>5. ASSUME NEW p \in Processes, Crash(p)
      PROVE  TicketsDistinct'
  <2>1. /\ \A s \in Requests : pc'[s] \in Ticketed => pc[s] \in Ticketed /\ ProcessOf[s] # p
        /\ UNCHANGED ticket
        /\ \A q \in Processes \ {p} : tickets'[q] = tickets[q]
    BY <1>0, <1>5 DEF Crash, Ticketed, Queued
  <2> QED
    BY <1>0, <2>1
<1>6. CASE UNCHANGED vars
  BY <1>1, <1>6 DEF vars
<1> QED
  BY <1>3, <1>4, <1>5, <1>6 DEF Next

\* The lease of a process is handed on in the order of the tickets, and never
\* to a try_acquire while anybody waits, on any number of processes.
THEOREM QueueIsFair == Spec => NoOvertaking
<1> DEFINE Inv == TypeOK /\ EntrySound /\ TicketsDistinct
           Order == \A p \in Processes, s \in Requests :
                      owner'[p] = s /\ owner[p] # s =>
                        \A r \in Queue(p) \ {s} : s \notin Trying /\ ticket[s] < ticket[r]
<1>1. Init => Inv
  BY LeaseTypeInit, EntryInit, TicketInit
<1>2. Inv /\ [Next]_vars => Inv'
  BY LeaseTypeStep, EntryStep, TicketStep
<1>3. ASSUME Inv, [Next]_vars
      PROVE  [Order]_vars
  <2> SUFFICES ASSUME NEW p \in Processes, NEW s \in Requests, owner'[p] = s, owner[p] # s,
                      NEW r \in Queue(p) \ {s}
               PROVE  s \notin Trying /\ ticket[s] < ticket[r]
    OBVIOUS
  <2>0. /\ owner \in [Processes -> Requests \cup {Nobody}] /\ Nobody \notin Requests
        /\ ticket \in [Requests -> Nat] /\ r \in waiters /\ ProcessOf[r] = p /\ r \in Requests
    BY <1>3, LeaseAssumption DEF TypeOK, Queue
  <2>1. Check(s) \/ TryClaim(s)
    <3>1. ASSUME NEW u \in Requests, CallStep(u)
          PROVE  u = s /\ (Check(s) \/ TryClaim(s))
      <4>1. CASE Check(u) \/ TryClaim(u)
        BY <2>0, <4>1 DEF Check, TryClaim
      <4>2. CASE Release(u)
        BY <2>0, <4>2 DEF Release
      <4> QED
        BY <3>1, <4>1, <4>2 DEF CallStep, DrawTicket, Enroll, Listen, Wake, Leave, Flock, Poll,
           NotifyWaiters, Close
    <3>2. ASSUME NEW u \in Requests, SpawnChild(u) \/ ChildExits(u) \/ Cancel(u)
          PROVE  FALSE
      BY <3>2 DEF SpawnChild, ChildExits, Cancel
    <3>3. ASSUME NEW q \in Processes, Crash(q)
          PROVE  FALSE
      BY <2>0, <3>3 DEF Crash
    <3> QED
      BY <1>3, <3>1, <3>2, <3>3 DEF Next, vars
  <2>2. p = ProcessOf[s]
    BY <2>0, <2>1 DEF Check, TryClaim
  <2>3. CASE Check(s)
    <3>1. pc[s] = "check" /\ First(s)
      BY <2>0, <2>2, <2>3 DEF Check
    <3>2. pc[s] \in Ticketed /\ pc[r] \in Ticketed
      BY <1>3, <2>0, <3>1 DEF EntrySound, TicketsAlive, Ticketed, Queued
    <3>3. s \notin Trying /\ ticket[s] # ticket[r]
      BY <1>3, <2>0, <2>2, <3>2 DEF TicketsDistinct
    <3>4. ticket[s] <= ticket[r]
      BY <2>0, <2>2, <3>1 DEF First, Queue
    <3> QED
      BY <2>0, <3>3, <3>4
  <2>4. CASE TryClaim(s)
    BY <2>0, <2>2, <2>4 DEF TryClaim, Queue
  <2> QED
    BY <2>1, <2>3, <2>4
<1> QED
  BY <1>1, <1>2, <1>3, PTL DEF Spec, NoOvertaking
=============================================================================
