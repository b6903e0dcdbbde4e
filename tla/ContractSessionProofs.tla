----------------------- MODULE ContractSessionProofs -----------------------
(* Theorems about ContractSession, for every set of workers and Git        *)
(* children and every number of sessions.                                  *)
EXTENDS ContractSession, TLAPS

-----------------------------------------------------------------------------
(* Types.                                                                  *)

Sentinel ==
  [state : {"none", "held", "orphan"}, of : 0..MaxSessions, known : BOOLEAN, late : BOOLEAN]

LEMMA NoChildIsSentinel == NoChild \in Sentinel
BY ContractAssumption DEF NoChild, Sentinel

LEMMA ContractTypeInit == Init => TypeOK
<1> SUFFICES ASSUME Init PROVE TypeOK
  OBVIOUS
<1>1. child \in [Child -> Sentinel]
  BY NoChildIsSentinel DEF Init
<1> QED
  <2>1. /\ host \in [Child -> 0..MaxSessions] /\ granted \in 0..MaxSessions
        /\ receipt \in 0..MaxSessions /\ taken \in 0..MaxForeign
    BY ContractAssumption DEF Init
  <2>2. /\ session \in [kind : {"none", "run", "authoring"}, number : 0..MaxSessions]
        /\ closing \in [step : {"none", "verified", "checked", "permitted"},
                        number : 0..MaxSessions]
    BY ContractAssumption DEF Init, NoSession, Idle
  <2> QED
    BY <1>1, <2>1, <2>2 DEF Init, TypeOK, Sentinel

\* Every step keeps the types.
LEMMA ContractTypeStep ==
  ASSUME TypeOK, [Next]_vars
  PROVE  TypeOK'
<1> USE ContractAssumption DEF TypeOK, NoSession, Idle, serverVars, lockVars
<1>1. ASSUME NEW kind \in {"run", "authoring"}, AskStart(kind)
      PROVE  TypeOK'
  BY <1>1 DEF AskStart
<1>2. ASSUME NEW kind \in {"run", "authoring"}, EndSession(kind)
      PROVE  TypeOK'
  BY <1>2 DEF EndSession
<1>3. CASE Grant
  BY <1>3 DEF Grant
<1>4. CASE CloseVerified
  BY <1>4 DEF CloseVerified
<1>5. CASE CloseRefused
  BY <1>5 DEF CloseRefused
<1>6. CASE CloseChecked \/ ClosePermitted \/ PermitFails
  <2>1. closing.number \in 0..MaxSessions
    OBVIOUS
  <2> QED
    BY <1>6, <2>1 DEF CloseChecked, ClosePermitted, PermitFails
<1>7. Abandoned => child' \in [Child -> [state : {"none", "held", "orphan"},
                                         of : 0..MaxSessions, known : BOOLEAN,
                                         late : BOOLEAN]]
  BY DEF Abandoned, Held
<1>8. CASE CloseTornDown
  BY <1>7, <1>8 DEF CloseTornDown
<1>9. ASSUME NEW c \in Child, NEW known \in BOOLEAN, BeginChild(c, known)
      PROVE  TypeOK'
  BY <1>9 DEF BeginChild
<1>10. ASSUME NEW c \in Child, HostEnds(c)
       PROVE  TypeOK'
  BY <1>10 DEF HostEnds
<1>11. ASSUME NEW c \in Child, Killed(c)
       PROVE  /\ child' \in [Child -> [state : {"none", "held", "orphan"},
                                       of : 0..MaxSessions, known : BOOLEAN,
                                       late : BOOLEAN]]
              /\ sleeper' \subseteq Child
  BY <1>11, NoChildIsSentinel DEF Killed, Sentinel
<1>12. ASSUME NEW c \in Child, EndChild(c)
       PROVE  TypeOK'
  BY <1>11, <1>12 DEF EndChild
<1>13. ASSUME NEW c \in Child, ReapOrphan(c)
       PROVE  TypeOK'
  BY <1>11, <1>13 DEF ReapOrphan
<1>14. ASSUME NEW c \in Child, SleeperExpires(c)
       PROVE  TypeOK'
  BY <1>14 DEF SleeperExpires
<1>15. CASE ServerDies
  BY <1>7, <1>15 DEF ServerDies
<1>16. CASE ServerStarts
  BY <1>16 DEF ServerStarts
<1>17. CASE ForeignTakes
  BY <1>17 DEF ForeignTakes
<1>18. CASE ForeignLeaves
  BY <1>18 DEF ForeignLeaves
<1>19. CASE UNCHANGED vars
  BY <1>19 DEF vars
<1> QED
  BY <1>1, <1>2, <1>3, <1>4, <1>5, <1>6, <1>8, <1>9, <1>10, <1>12, <1>13, <1>14, <1>15,
     <1>16, <1>17, <1>18, <1>19 DEF Next

\* Every variable keeps its type, through deaths and recoveries.
THEOREM ContractTypeCorrect == Spec => []TypeOK
<1>1. TypeOK /\ [Next]_vars => TypeOK'
  BY ContractTypeStep
<1> QED
  BY ContractTypeInit, <1>1, PTL DEF Spec

-----------------------------------------------------------------------------
(* Who holds the lock.                                                     *)

Live == session.kind # "none"

\* A session has a number, and a server without one has none.
SessionNumbered == IF Live THEN session.number # 0 ELSE session.number = 0

\* A process that still runs has a sentinel, of the session it was
\* registered for.
HostRegistered ==
  \A c \in Child : host[c] # 0 => child[c].state # "none" /\ child[c].of = host[c]

\* The table of a session holds the children of that session.
HeldBySession ==
  \A c \in Child : child[c].state = "held" => Live /\ child[c].of = session.number

\* The sentinels of a session that is gone keep every other owner out.
OrphansExclude ==
  /\ Live => \A c \in Child : child[c].state # "orphan"
  /\ \A c, d \in Child :
       child[c].state = "orphan" /\ child[d].state = "orphan" => child[c].of = child[d].of

ForeignExcludes == foreign => ~Live /\ \A c \in Child : child[c].state = "none"

LockInv ==
  SessionNumbered /\ HostRegistered /\ HeldBySession /\ OrphansExclude /\ ForeignExcludes

LEMMA LockInit == Init => LockInv
BY DEF Init, LockInv, SessionNumbered, HostRegistered, HeldBySession, OrphansExclude,
       ForeignExcludes, Live, NoSession, NoChild

\* What a session leaves when it goes: its table becomes nobody's.
LEMMA AbandonedExcludes ==
  ASSUME TypeOK, LockInv, Abandoned, session' = NoSession, UNCHANGED <<host, foreign>>
  PROVE  LockInv'
<1> USE DEF LockInv, SessionNumbered, HostRegistered, HeldBySession, OrphansExclude,
            ForeignExcludes, Live
<1>1. session'.kind = "none" /\ session'.number = 0
  BY DEF NoSession
<1>2. \A c \in Child :
        /\ child'[c].of = child[c].of
        /\ child'[c].state = IF child[c].state = "held" THEN "orphan" ELSE child[c].state
  BY DEF Abandoned, Held, TypeOK
<1> QED
  BY <1>1, <1>2 DEF TypeOK

\* Every step keeps the lock with one owner and what it left behind.
LEMMA LockStep ==
  ASSUME TypeOK, LockInv, [Next]_vars
  PROVE  LockInv'
<1> USE DEF LockInv, SessionNumbered, HostRegistered, HeldBySession, OrphansExclude,
            ForeignExcludes, Live
<1>0. /\ child \in [Child -> [state : {"none", "held", "orphan"}, of : 0..MaxSessions,
                              known : BOOLEAN, late : BOOLEAN]]
      /\ host \in [Child -> 0..MaxSessions] /\ granted \in Nat
  BY ContractAssumption DEF TypeOK
<1>1. ASSUME UNCHANGED <<session, child, host, foreign>>
      PROVE  LockInv'
  BY <1>1
<1>2. ASSUME NEW kind \in {"run", "authoring"}, AskStart(kind)
      PROVE  LockInv'
  BY <1>1, <1>2 DEF AskStart, lockVars
<1>3. ASSUME NEW kind \in {"run", "authoring"}, EndSession(kind)
      PROVE  LockInv'
  <2>1. session' = NoSession /\ Held = {} /\ UNCHANGED <<child, host, foreign>>
    BY <1>3 DEF EndSession, lockVars
  <2>2. \A c \in Child : child[c].state # "held"
    BY <2>1 DEF Held
  <2> QED
    BY <1>0, <2>1, <2>2 DEF NoSession
<1>4. CASE Grant
  <2>1. /\ ~foreign /\ UNCHANGED <<child, host, foreign>>
        /\ session'.kind = waiting /\ waiting # "none" /\ session'.number = granted + 1
    BY <1>4 DEF Grant, LockFree, lockVars
  <2>2. \A c \in Child : child[c].state = "none"
    BY <1>0, <1>4 DEF Grant, LockFree, Held, Orphans
  <2> QED
    BY <1>0, <2>1, <2>2
<1>5. CASE CloseVerified \/ CloseRefused \/ CloseChecked \/ ClosePermitted \/ PermitFails
  BY <1>1, <1>5
  DEF CloseVerified, CloseRefused, CloseChecked, ClosePermitted, PermitFails, lockVars
<1>6. CASE CloseTornDown
  BY <1>1, <1>6, AbandonedExcludes DEF CloseTornDown
<1>7. ASSUME NEW c \in Child, NEW known \in BOOLEAN, BeginChild(c, known)
      PROVE  LockInv'
  <2>1. /\ Live /\ UNCHANGED <<session, foreign>>
        /\ child' = [child EXCEPT ![c] =
                       [state |-> "held", of |-> session.number, known |-> known,
                        late |-> /\ closing.step \in {"checked", "permitted"}
                                 /\ closing.number = session.number]]
        /\ host' = [host EXCEPT ![c] = session.number]
    BY <1>7 DEF BeginChild, serverVars, NoSession, TypeOK
  <2> QED
    BY <1>0, <2>1
<1>8. ASSUME NEW c \in Child, HostEnds(c)
      PROVE  LockInv'
  BY <1>0, <1>8 DEF HostEnds, serverVars
<1>9. ASSUME NEW c \in Child, EndChild(c) \/ ReapOrphan(c)
      PROVE  LockInv'
  <2>1. /\ host[c] = 0 /\ child' = [child EXCEPT ![c] = NoChild]
        /\ UNCHANGED <<session, host, foreign>>
    BY <1>9 DEF EndChild, ReapOrphan, Killed, serverVars
  <2> QED
    BY <1>0, <2>1 DEF NoChild
<1>10. ASSUME NEW c \in Child, SleeperExpires(c)
       PROVE  LockInv'
  BY <1>1, <1>10 DEF SleeperExpires, serverVars
<1>11. CASE ServerDies
  BY <1>11, AbandonedExcludes DEF ServerDies
<1>12. CASE ServerStarts
  BY <1>1, <1>12 DEF ServerStarts, lockVars
<1>13. CASE ForeignTakes
  <2>1. session = NoSession /\ UNCHANGED <<session, child, host>>
    BY <1>13 DEF ForeignTakes, LockFree, serverVars
  <2>2. \A c \in Child : child[c].state = "none"
    BY <1>0, <1>13 DEF ForeignTakes, LockFree, Held, Orphans
  <2> QED
    BY <2>1, <2>2 DEF NoSession
<1>14. CASE ForeignLeaves
  BY <1>14 DEF ForeignLeaves, serverVars
<1>15. CASE UNCHANGED vars
  BY <1>1, <1>15 DEF vars, serverVars, lockVars
<1> QED
  BY <1>2, <1>3, <1>4, <1>5, <1>6, <1>7, <1>8, <1>9, <1>10, <1>11, <1>12, <1>13, <1>14,
     <1>15 DEF Next

LEMMA LockInvariant == Spec => [](TypeOK /\ LockInv)
<1>1. Init => TypeOK /\ LockInv
  BY ContractTypeInit, LockInit
<1>2. TypeOK /\ LockInv /\ [Next]_vars => (TypeOK /\ LockInv)'
  BY ContractTypeStep, LockStep
<1> QED
  BY <1>1, <1>2, PTL DEF Spec

\* Whatever dies in whatever order, no process of a session runs beside another
\* session or beside another process that owns the lease.
THEOREM OneOwnerSafe == Spec => []OneOwner
<1>1. ASSUME TypeOK, LockInv
      PROVE  OneOwner
  <2> USE <1>1 DEF LockInv, SessionNumbered, HostRegistered, HeldBySession,
                   OrphansExclude, ForeignExcludes, Live
  <2>1. \A c \in Child : child[c].state \in {"none", "held", "orphan"}
    BY DEF TypeOK
  <2>2. \A c, d \in Child : host[c] # 0 /\ host[d] # 0 => host[c] = host[d]
    BY <2>1
  <2>3. \A c \in Child : host[c] # 0 /\ session.number # 0 => host[c] = session.number
    BY <2>1
  <2>4. \A m, n \in Writers : m = n
    BY <2>2, <2>3 DEF Writers
  <2>5. foreign => Writers = {}
    BY DEF Writers
  <2> QED
    BY <2>4, <2>5 DEF OneOwner
<1> QED
  BY LockInvariant, <1>1, PTL

-----------------------------------------------------------------------------
(* What a cleanup permit speaks for.                                       *)

\* Sessions are granted in the order of their numbers.
NumbersGranted ==
  /\ session.number <= granted
  /\ closing.number <= granted
  /\ \A n \in permits : n <= granted

\* From the check on, what runs for the session of a Close was registered late.
CheckedCovers ==
  closing.step \in {"checked", "permitted"} =>
    \A c \in Child : host[c] = closing.number => child[c].late

\* A session with a permit is in the hands of the Close that got it.
PermitClosing ==
  session.number # 0 /\ session.number \in permits =>
    closing.step = "permitted" /\ closing.number = session.number

ClosingNumbered == closing.step \in {"checked", "permitted"} => closing.number # 0

ClosingRun ==
  closing.number # 0 /\ closing.number = session.number => session.kind = "run"

NoZeroPermit == 0 \notin permits

PermitInv ==
  /\ NumbersGranted /\ CheckedCovers /\ PermitClosing /\ ClosingNumbered /\ ClosingRun
  /\ NoZeroPermit /\ PermitCoversEarlier

LEMMA PermitInit == Init => PermitInv
BY ContractAssumption
DEF Init, PermitInv, NumbersGranted, CheckedCovers, PermitClosing, ClosingNumbered,
    ClosingRun, NoZeroPermit, PermitCoversEarlier, NoSession, Idle

\* Every step keeps what the permits speak for.
LEMMA PermitStep ==
  ASSUME TypeOK, LockInv, PermitInv, [Next]_vars
  PROVE  PermitInv'
<1> USE DEF PermitInv, NumbersGranted, CheckedCovers, PermitClosing, ClosingNumbered,
            ClosingRun, NoZeroPermit, PermitCoversEarlier
<1>0. /\ child \in [Child -> [state : {"none", "held", "orphan"}, of : 0..MaxSessions,
                              known : BOOLEAN, late : BOOLEAN]]
      /\ host \in [Child -> 0..MaxSessions]
      /\ granted \in Nat /\ session.number \in Nat /\ closing.number \in Nat
      /\ permits \subseteq Nat
  BY ContractAssumption DEF TypeOK
<1>1. ASSUME UNCHANGED <<granted, session, closing, permits, child, host>>
      PROVE  PermitInv'
  BY <1>1
<1>2. ASSUME NEW kind \in {"run", "authoring"}, AskStart(kind)
      PROVE  PermitInv'
  BY <1>1, <1>2 DEF AskStart, lockVars
<1>3. ASSUME NEW kind \in {"run", "authoring"}, EndSession(kind)
      PROVE  PermitInv'
  BY <1>0, <1>3 DEF EndSession, lockVars, NoSession
<1>4. CASE Grant
  <2>1. /\ session'.number = granted + 1 /\ granted' = granted + 1
        /\ UNCHANGED <<closing, permits, child, host>>
    BY <1>4 DEF Grant, lockVars
  <2>2. session'.number \notin permits
    BY <1>0, <2>1
  <2> QED
    BY <1>0, <2>1, <2>2
<1>5. CASE CloseVerified \/ CloseRefused \/ PermitFails
  <2>1. /\ closing'.step \in {"none", "verified"} /\ closing.step # "permitted"
        /\ \/ closing'.number = 0
           \/ closing'.number = session.number /\ session.kind = "run"
        /\ UNCHANGED <<granted, session, permits, child, host>>
    <3>1. CASE CloseVerified
      BY <3>1 DEF CloseVerified, Idle, lockVars
    <3>2. CASE CloseRefused \/ PermitFails
      BY <3>2 DEF CloseRefused, PermitFails, Idle, lockVars
    <3> QED
      BY <1>5, <3>1, <3>2
  <2> QED
    BY <1>0, <2>1
<1>6. CASE CloseChecked
  <2>1. /\ closing'.step = "checked" /\ closing'.number = closing.number
        /\ UNCHANGED <<granted, session, permits, child, host>>
        /\ session.kind = "run" /\ closing.number = session.number /\ Held = {}
        /\ closing.step = "verified"
    BY <1>6 DEF CloseChecked, lockVars, TypeOK
  <2>2. session.number # 0
    BY <2>1 DEF LockInv, SessionNumbered, Live
  <2>3. \A c \in Child : host[c] # session.number
    BY <1>0, <2>1, <2>2
    DEF LockInv, HostRegistered, OrphansExclude, Live, Held
  <2> QED
    BY <1>0, <2>1, <2>2, <2>3
<1>7. CASE ClosePermitted
  <2>1. /\ closing.step = "checked"
        /\ closing'.step = "permitted" /\ closing'.number = closing.number
        /\ permits' = permits \cup {closing.number}
        /\ UNCHANGED <<granted, session, child, host>>
    BY <1>7 DEF ClosePermitted, lockVars, TypeOK
  <2> QED
    BY <1>0, <2>1
<1>8. ASSUME Abandoned, UNCHANGED <<granted, permits, host>>, session'.number = 0,
             closing'.step = "none", closing'.number = 0
      PROVE  PermitInv'
  <2>1. \A c \in Child : child'[c].late = child[c].late
    BY <1>0, <1>8 DEF Abandoned
  <2> QED
    BY <1>0, <1>8, <2>1
<1>9. CASE CloseTornDown
  <2>1. closing'.step = "none" /\ closing'.number = 0 /\ UNCHANGED <<granted, permits, host>>
    BY <1>9 DEF CloseTornDown, Idle
  <2>2. CASE session.kind = "run"
    BY <1>8, <1>9, <2>1, <2>2 DEF CloseTornDown, NoSession
  <2>3. CASE session.kind # "run"
    <3>1. UNCHANGED <<session, child>>
      BY <1>9, <2>3 DEF CloseTornDown
    <3>2. ~(session.number # 0 /\ session.number \in permits)
      BY <2>3
    <3> QED
      BY <1>0, <2>1, <3>1, <3>2
  <2> QED
    BY <2>2, <2>3
<1>10. ASSUME NEW c \in Child, NEW known \in BOOLEAN, BeginChild(c, known)
       PROVE  PermitInv'
  <2> DEFINE late == /\ closing.step \in {"checked", "permitted"}
                     /\ closing.number = session.number
  <2>1. /\ child' = [child EXCEPT ![c] =
                       [state |-> "held", of |-> session.number, known |-> known,
                        late |-> late]]
        /\ host' = [host EXCEPT ![c] = session.number]
        /\ UNCHANGED <<granted, session, closing, permits>>
        /\ session # NoSession
    BY <1>10 DEF BeginChild, serverVars
  <2>2. session.number # 0
    BY <2>1 DEF LockInv, SessionNumbered, Live, NoSession, TypeOK
  <2> HIDE DEF late
  <2>3. /\ \A d \in Child : d # c => host'[d] = host[d] /\ child'[d].late = child[d].late
        /\ host'[c] = session.number
        /\ child'[c].late = late
    BY <1>0, <2>1
  <2>4. session.number \in permits => late
    BY <2>2 DEF late
  <2>5. closing.step \in {"checked", "permitted"} /\ session.number = closing.number => late
    BY DEF late
  <2>6. PermitCoversEarlier'
    BY <2>1, <2>3, <2>4
  <2>7. CheckedCovers'
    BY <2>1, <2>3, <2>5
  <2> QED
    BY <2>1, <2>6, <2>7
<1>11. ASSUME NEW c \in Child, HostEnds(c)
       PROVE  PermitInv'
  <2>1. \A d \in Child : host'[d] = IF d = c THEN 0 ELSE host[d]
    BY <1>0, <1>11 DEF HostEnds
  <2> QED
    BY <1>11, <2>1 DEF HostEnds, serverVars
<1>12. ASSUME NEW c \in Child, EndChild(c) \/ ReapOrphan(c)
       PROVE  PermitInv'
  <2>1. /\ host[c] = 0 /\ child' = [child EXCEPT ![c] = NoChild]
        /\ UNCHANGED <<granted, session, closing, permits, host>>
    BY <1>12 DEF EndChild, ReapOrphan, Killed, serverVars
  <2>2. \A d \in Child : d # c => child'[d] = child[d]
    BY <1>0, <2>1
  <2> QED
    BY <2>1, <2>2
<1>13. ASSUME NEW c \in Child, SleeperExpires(c)
       PROVE  PermitInv'
  BY <1>1, <1>13 DEF SleeperExpires, serverVars
<1>14. CASE ServerDies
  BY <1>8, <1>14 DEF ServerDies, NoSession, Idle
<1>15. CASE ServerStarts
  BY <1>1, <1>15 DEF ServerStarts, lockVars
<1>16. CASE ForeignTakes \/ ForeignLeaves
  BY <1>1, <1>16 DEF ForeignTakes, ForeignLeaves, serverVars
<1>17. CASE UNCHANGED vars
  BY <1>1, <1>17 DEF vars, serverVars, lockVars
<1> QED
  BY <1>2, <1>3, <1>4, <1>5, <1>6, <1>7, <1>9, <1>10, <1>11, <1>12, <1>13, <1>14, <1>15,
     <1>16, <1>17 DEF Next

\* The permit of a session speaks for every process of it that was registered
\* before Close checked the session, whatever came between the check, the
\* persisting and the tearing down.
THEOREM PermitSafe == Spec => []PermitCoversEarlier
<1>1. Init => PermitInv
  BY PermitInit
<1>2. TypeOK /\ LockInv /\ PermitInv /\ [Next]_vars => PermitInv'
  BY PermitStep
<1>3. PermitInv => PermitCoversEarlier
  BY DEF PermitInv
<1> QED
  BY LockInvariant, <1>1, <1>2, <1>3, PTL DEF Spec
=============================================================================
