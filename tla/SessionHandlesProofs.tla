------------------------ MODULE SessionHandlesProofs ------------------------
(***************************************************************************)
(* Theorems about SessionHandles for every set of requests, any number of  *)
(* Agents and Sessions, any budget and any number of failures: the type    *)
(* invariant, SessionsAreKept, and that the registry implements HandleLife.*)
(*                                                                         *)
(* IInv, the inductive invariant, says who holds each lock and why         *)
(* (AgentLocks, SessionLocks), that what a close works on does not open    *)
(* again (Targets), that the cascade of an agent/close has every live      *)
(* Session of its Agent before it (Cascades), whose ACP Session each id    *)
(* has (AcpOwners), and Kept: LostOnlyToNamesake from the moment the ACP   *)
(* Session is inserted, while its handle is not issued yet.  The step      *)
(* lemmas say what one handler step does to each variable; the conjuncts   *)
(* of IInv' follow from those, mostly without looking at the actions.      *)
(***************************************************************************)
EXTENDS SessionHandles, FiniteSetTheorems, TLAPS

IsAgent(c) == Request[c].op = "agent/create"
ClosesSession(c) == Request[c].op = "session/close"
ClosesAgent(c) == Request[c].op = "agent/close"
Issued(h) == life[h] # "unissued"

Creating == {"insert", "reserve", "rollback", "register", "persist", "undo"}
Closing == {"facade", "acp", "settle"}

Typed ==
  /\ at \in [Calls -> Places] /\ answer \in [Calls -> Answers]
  /\ given \in [Calls -> Calls \cup {None}]
  /\ life \in [Calls -> {"unissued", "open", "closing", "released"}]
  /\ idempotency \in [DOMAIN idempotency -> Calls] /\ DOMAIN idempotency \subseteq Keys
  /\ acp \in [Sids -> Calls \cup {None}] /\ services \in [Sids -> Calls \cup {None}]
  /\ admissions \in [Sids -> Calls \cup {None}]
  /\ index \subseteq Sids \cup KnownIds
  /\ agentLock \in [Calls -> Calls \cup {None}] /\ sessionLock \in [Calls -> Calls \cup {None}]
  /\ target \in [Calls -> Calls \cup {None}] /\ todo \in [Calls -> SUBSET Calls]
  /\ erred \in [Calls -> BOOLEAN] /\ failures \in 0..MaxFailures

\* Where the handler of each request goes.
Routes ==
  \A c \in Calls :
    /\ IsAgent(c) => at[c] \in {"unsent", "answered"}
    /\ Creates(c) => at[c] \in {"unsent", "lock", "answered"} \cup Creating
    /\ ClosesSession(c) => at[c] \in {"unsent", "wait", "answered"} \cup Closing
    /\ ClosesAgent(c) => at[c] \in {"unsent", "lock", "cascade", "wait", "answered"} \cup Closing

\* A client has a handle from a response that said ok, and requests name one.
Response(c) ==
    /\ answer[c] = "ok" => given[c] # None
    /\ at[c] # "answered" => answer[c] = None
    /\ given[c] # None =>
         /\ at[c] = "answered" /\ answer[c] = "ok" /\ Issued(given[c])
         /\ (IsAgent(c) /\ IsAgent(given[c])) \/ (Creates(c) /\ given[c] = c)
    /\ (Creates(c) \/ ClosesAgent(c)) /\ at[c] # "unsent" => AgentOf(c) # None
Responses == \A c \in Calls : Response(c)

\* The life of a handle follows the handler that mints it.
LifeOf(c) ==
    /\ at[c] \in {"unsent", "lock", "insert", "reserve", "rollback", "register"} =>
         life[c] = "unissued"
    /\ at[c] = "persist" => life[c] = "open"
    /\ at[c] = "undo" => life[c] \in {"unissued", "released"}
    /\ Issued(c) => IsAgent(c) \/ Creates(c)
Lives == \A c \in Calls : LifeOf(c)

Remembers ==
  /\ \A k \in DOMAIN idempotency : IsAgent(idempotency[k]) /\ Issued(idempotency[k])
  /\ \A i \in DOMAIN tombstones : life[tombstones[i].of] = "released"

HoldsAgent(c) ==
  \/ Creates(c) /\ at[c] \in Creating
  \/ ClosesAgent(c) /\ at[c] \in {"cascade", "wait"} \cup Closing

AgentLocks ==
  \A a, c \in Calls : agentLock[a] = c <=> HoldsAgent(c) /\ AgentOf(c) = a

SessionLocks ==
  \A h, c \in Calls : sessionLock[h] = c <=> at[c] \in Closing /\ target[c] = h

\* What a close works on was given to a client, and will not open again.
Targets ==
  \A c \in Calls :
    /\ at[c] \in {"wait"} \cup Closing =>
         /\ target[c] \in Calls /\ Creates(target[c]) /\ at[target[c]] = "answered"
         /\ life[target[c]] \in {"closing", "released"}
    /\ \A h \in todo[c] : Creates(h) /\ at[h] = "answered" /\ Issued(h)

\* A Session the cascade has not to do any more is closed, or the cascade failed.
Cascades ==
  \A c \in Calls :
    ClosesAgent(c) /\ HoldsAgent(c) /\ ~erred[c] =>
      \A h \in SessionsOf(AgentOf(c)) : h \in todo[c] \/ (h = target[c] /\ at[c] # "cascade")

Admissions ==
  \A s \in Sids : admissions[s] # None =>
    /\ Creates(admissions[s]) /\ SidOf(admissions[s]) = s
    /\ at[admissions[s]] \in {"insert", "reserve", "rollback"}

\* A close has taken the ACP Session away when it releases the handle.
AcpOwners ==
  /\ \A s \in Sids : acp[s] # None => Creates(acp[s]) /\ SidOf(acp[s]) = s
  /\ \A c \in Calls : at[c] = "settle" => acp[SidOf(target[c])] # target[c]

Namesakes(h) == {n \in Calls \ {h} : IsSession(n) /\ SidOf(n) = SidOf(h)}

\* What LostOnlyToNamesake says of a handle, from the insertion of its Session.
Kept ==
  \A h \in Calls :
    /\ Creates(h) /\ life[h] \in {"unissued", "open"}
    /\ at[h] \in {"reserve", "rollback", "register", "persist", "undo"} \/ answer[h] = "ok"
    => \/ acp[SidOf(h)] = h /\ services[SidOf(h)] = h
       \/ \E n \in Namesakes(h) : life[n] \in {"closing", "released"}

Buries ==
  /\ tombstones \in Seq([kind : Kinds, of : Calls]) /\ Len(tombstones) <= MaxHandles
  /\ IsFiniteSet(DOMAIN idempotency) /\ Cardinality(DOMAIN idempotency) <= MaxHandles
  /\ OpenHandles <= MaxHandles

Control == Typed /\ Routes /\ Responses /\ Lives
IInv ==
  /\ Control /\ Buries /\ Remembers /\ AgentLocks /\ SessionLocks /\ Targets /\ Cascades
  /\ Admissions /\ AcpOwners /\ AcpSessionIsOwned /\ Kept /\ ReleasedAgentIsEmpty

LEMMA Requests ==
  ASSUME NEW c \in Calls
  PROVE  /\ IsAgent(c) \/ Creates(c) \/ ClosesSession(c) \/ ClosesAgent(c)
         /\ IsAgent(c) => ~Creates(c) /\ ~ClosesSession(c) /\ ~ClosesAgent(c)
         /\ Creates(c) => ~ClosesSession(c) /\ ~ClosesAgent(c)
         /\ ~(ClosesSession(c) /\ ClosesAgent(c))
         /\ Creates(c) => SidOf(c) \in Sids
         /\ Creates(c) \/ ClosesAgent(c) => Request[c].on \in Calls /\ IsAgent(Request[c].on)
         /\ ClosesSession(c) => Request[c].on \in Calls /\ Creates(Request[c].on)
         /\ IsAgent(c) => Request[c].key = None \/ Request[c].key \in Keys
BY RequestAssumption DEF IsAgent, Creates, ClosesSession, ClosesAgent, SidOf, Sids, Keys, Ops

LEMMA Handlers ==
  ASSUME Routes, NEW c \in Calls
  PROVE  /\ at[c] \in Creating => Creates(c)
         /\ at[c] \in {"wait"} \cup Closing => ClosesSession(c) \/ ClosesAgent(c)
         /\ at[c] = "cascade" => ClosesAgent(c)
BY Requests DEF Routes, Creating, Closing

USE NoneAssumption DEF Moves, Answered, Refused, Fails, Succeeds, GoesWrong, registry, sessions,
      locks, cascade, IsSession, IsAgent, ClosesSession, ClosesAgent

-----------------------------------------------------------------------------
(* Types, places and what clients know.                                    *)

LEMMA StepTypedCore ==
  ASSUME NEW c \in Calls, Typed, Routes, Handler(c)
  PROVE  (/\ at \in [Calls -> Places] /\ answer \in [Calls -> Answers])'
<1> USE DEF Typed, Places, Answers
<1>1. CASE AgentCreateAgain(c)
  BY <1>1 DEF AgentCreateAgain
<1>2. CASE AgentCreate(c)
  BY <1>2 DEF AgentCreate, Evicted, Remembered
<1>3. CASE CreateEnter(c)
  BY <1>3 DEF CreateEnter, ResolveError
<1>4. CASE CreateAdmit(c)
  BY <1>4 DEF CreateAdmit, AgentFree, AgentClosing, Unloadable
<1>5. CASE Insert(c)
  BY <1>5 DEF Insert, Dissociates, UnlocksAgent
<1>6. CASE Reserve(c)
  BY <1>6 DEF Reserve, Dissociates
<1>7. CASE ReserveRollback(c)
  BY <1>7 DEF ReserveRollback, Dissociates, UnlocksAgent
<1>8. CASE Register(c)
  BY <1>8 DEF Register, Registrable, AgentClosing
<1>9. CASE Persist(c)
  BY <1>9 DEF Persist, UnlocksAgent, Release
<1>10. CASE CreateUndo(c)
  BY <1>10 DEF CreateUndo, UnlocksAgent
<1>11. CASE CloseEnter(c)
  BY <1>11 DEF CloseEnter, MarkClosing, Named, Repeated
<1>12. CASE CloseLock(c)
  BY <1>12 DEF CloseLock, CloseReturns, SessionFree
<1>13. CASE CloseFacade(c)
  BY <1>13 DEF CloseFacade, CloseFails, CloseReturns, UnlocksSession
<1>14. CASE CloseAcp(c)
  BY <1>14 DEF CloseAcp, CloseFails, CloseReturns, UnlocksSession
<1>15. CASE CloseSettle(c)
  <2>1. CloseReturns(c, Outcome(target[c])) \/ CloseReturns(c, "failed")
    BY <1>15 DEF CloseSettle, CloseFails
  <2>2. Outcome(target[c]) \in Answers
    BY DEF Outcome, Repeated
  <2> QED
    BY <2>1, <2>2 DEF CloseReturns
<1>16. CASE AgentCloseEnter(c)
  BY <1>16 DEF AgentCloseEnter, Repeated
<1>17. CASE AgentCloseLock(c)
  BY <1>17 DEF AgentCloseLock, AgentFree, MarkClosing
<1>18. CASE CascadeNext(c)
  BY <1>18 DEF CascadeNext, MarkClosing
<1>19. CASE AgentRelease(c)
  BY <1>19 DEF AgentRelease, RegistryClose, Release, UnlocksAgent, Outcome, Repeated
<1> QED
  BY <1>1, <1>2, <1>3, <1>4, <1>5, <1>6, <1>7, <1>8, <1>9, <1>10, <1>11, <1>12, <1>13, <1>14,
       <1>15, <1>16, <1>17, <1>18, <1>19 DEF Handler

LEMMA StepTypedLife ==
  ASSUME NEW c \in Calls, Typed, Routes, Handler(c)
  PROVE  (/\ given \in [Calls -> Calls \cup {None}]
             /\ life \in [Calls -> {"unissued", "open", "closing", "released"}])'
<1> USE DEF Typed
<1>1. CASE AgentCreateAgain(c)
  BY <1>1 DEF AgentCreateAgain
<1>2. CASE AgentCreate(c)
  BY <1>2 DEF AgentCreate
<1>3. CASE CreateEnter(c)
  BY <1>3 DEF CreateEnter
<1>4. CASE CreateAdmit(c)
  BY <1>4 DEF CreateAdmit, AgentFree, AgentClosing, Unloadable
<1>5. CASE Insert(c)
  BY <1>5 DEF Insert, Dissociates, UnlocksAgent
<1>6. CASE Reserve(c)
  BY <1>6 DEF Reserve, Dissociates
<1>7. CASE ReserveRollback(c)
  BY <1>7 DEF ReserveRollback, Dissociates, UnlocksAgent
<1>8. CASE Register(c)
  BY <1>8 DEF Register, Registrable, AgentClosing
<1>9. CASE Persist(c)
  BY <1>9 DEF Persist, UnlocksAgent, Release
<1>10. CASE CreateUndo(c)
  BY <1>10 DEF CreateUndo, UnlocksAgent
<1>11. CASE CloseEnter(c)
  BY <1>11 DEF CloseEnter, MarkClosing, Named
<1>12. CASE CloseLock(c)
  BY <1>12 DEF CloseLock, CloseReturns, SessionFree
<1>13. CASE CloseFacade(c)
  BY <1>13 DEF CloseFacade, CloseFails, CloseReturns, UnlocksSession
<1>14. CASE CloseAcp(c)
  BY <1>14 DEF CloseAcp, CloseFails, CloseReturns, UnlocksSession
<1>15. CASE CloseSettle(c)
  BY <1>15 DEF CloseSettle, CloseFails, CloseReturns, UnlocksSession, RegistryClose, Release
<1>16. CASE AgentCloseEnter(c)
  BY <1>16 DEF AgentCloseEnter
<1>17. CASE AgentCloseLock(c)
  BY <1>17 DEF AgentCloseLock, AgentFree, MarkClosing
<1>18. CASE CascadeNext(c)
  BY <1>18 DEF CascadeNext, MarkClosing
<1>19. CASE AgentRelease(c)
  BY <1>19 DEF AgentRelease, RegistryClose, Release, UnlocksAgent
<1> QED
  BY <1>1, <1>2, <1>3, <1>4, <1>5, <1>6, <1>7, <1>8, <1>9, <1>10, <1>11, <1>12, <1>13, <1>14,
       <1>15, <1>16, <1>17, <1>18, <1>19 DEF Handler

LEMMA StepTypedKeys ==
  ASSUME NEW c \in Calls, Typed, Handler(c)
  PROVE  (/\ idempotency \in [DOMAIN idempotency -> Calls] /\ DOMAIN idempotency \subseteq Keys)'
<1> USE DEF Typed
<1>1. CASE AgentCreateAgain(c)
  BY <1>1 DEF AgentCreateAgain
<1>2. CASE AgentCreate(c)
  <2>1. CASE UNCHANGED idempotency
    BY <2>1
  <2>2. CASE ~UNCHANGED idempotency
    <3>1. PICK oldest \in Evicted : idempotency' = Remembered(Request[c].key, oldest, c)
      BY <1>2, <2>2, Zenon DEF AgentCreate
    <3>2. Request[c].key \in Keys
      BY <1>2, <2>2, Requests DEF AgentCreate
    <3> QED
      BY <3>1, <3>2 DEF Remembered
  <2> QED
    BY <2>1, <2>2
<1>3. CASE CreateEnter(c)
  BY <1>3 DEF CreateEnter
<1>4. CASE CreateAdmit(c)
  BY <1>4 DEF CreateAdmit, AgentFree, AgentClosing, Unloadable
<1>5. CASE Insert(c)
  BY <1>5 DEF Insert, Dissociates, UnlocksAgent
<1>6. CASE Reserve(c)
  BY <1>6 DEF Reserve, Dissociates
<1>7. CASE ReserveRollback(c)
  BY <1>7 DEF ReserveRollback, Dissociates, UnlocksAgent
<1>8. CASE Register(c)
  BY <1>8 DEF Register, Registrable, AgentClosing
<1>9. CASE Persist(c)
  BY <1>9 DEF Persist, UnlocksAgent, Release
<1>10. CASE CreateUndo(c)
  BY <1>10 DEF CreateUndo, UnlocksAgent
<1>11. CASE CloseEnter(c)
  BY <1>11 DEF CloseEnter, MarkClosing, Named
<1>12. CASE CloseLock(c)
  BY <1>12 DEF CloseLock, CloseReturns, SessionFree
<1>13. CASE CloseFacade(c)
  BY <1>13 DEF CloseFacade, CloseFails, CloseReturns, UnlocksSession
<1>14. CASE CloseAcp(c)
  BY <1>14 DEF CloseAcp, CloseFails, CloseReturns, UnlocksSession
<1>15. CASE CloseSettle(c)
  BY <1>15 DEF CloseSettle, CloseFails, CloseReturns, UnlocksSession, RegistryClose, Release
<1>16. CASE AgentCloseEnter(c)
  BY <1>16 DEF AgentCloseEnter
<1>17. CASE AgentCloseLock(c)
  BY <1>17 DEF AgentCloseLock, AgentFree, MarkClosing
<1>18. CASE CascadeNext(c)
  BY <1>18 DEF CascadeNext, MarkClosing
<1>19. CASE AgentRelease(c)
  BY <1>19 DEF AgentRelease, RegistryClose, Release, UnlocksAgent
<1> QED
  BY <1>1, <1>2, <1>3, <1>4, <1>5, <1>6, <1>7, <1>8, <1>9, <1>10, <1>11, <1>12, <1>13, <1>14,
       <1>15, <1>16, <1>17, <1>18, <1>19 DEF Handler

LEMMA StepTypedSessions ==
  ASSUME NEW c \in Calls, Typed, Routes, Targets, Handler(c)
  PROVE  (/\ acp \in [Sids -> Calls \cup {None}] /\ services \in [Sids -> Calls \cup {None}]
             /\ admissions \in [Sids -> Calls \cup {None}] /\ index \subseteq Sids \cup KnownIds)'
<1> USE DEF Typed
<1>1. CASE AgentCreateAgain(c)
  BY <1>1 DEF AgentCreateAgain
<1>2. CASE AgentCreate(c)
  BY <1>2 DEF AgentCreate
<1>3. CASE CreateEnter(c)
  BY <1>3 DEF CreateEnter
<1>4. CASE CreateAdmit(c)
  BY <1>4 DEF CreateAdmit, AgentFree, AgentClosing, Unloadable
<1>5. CASE Insert(c)
  BY <1>5 DEF Insert, Dissociates, UnlocksAgent
<1>6. CASE Reserve(c)
  BY <1>6 DEF Reserve, Dissociates
<1>7. CASE ReserveRollback(c)
  BY <1>7 DEF ReserveRollback, Dissociates, UnlocksAgent
<1>8. CASE Register(c)
  BY <1>8 DEF Register, Registrable, AgentClosing
<1>9. CASE Persist(c)
  BY <1>9, Requests, Handlers DEF Persist, UnlocksAgent, Release, Creating
<1>10. CASE CreateUndo(c)
  BY <1>10 DEF CreateUndo, UnlocksAgent
<1>11. CASE CloseEnter(c)
  BY <1>11 DEF CloseEnter, MarkClosing, Named
<1>12. CASE CloseLock(c)
  BY <1>12 DEF CloseLock, CloseReturns, SessionFree
<1>13. CASE CloseFacade(c)
  BY <1>13 DEF CloseFacade, CloseFails, CloseReturns, UnlocksSession
<1>14. CASE CloseAcp(c)
  BY <1>14 DEF CloseAcp, CloseFails, CloseReturns, UnlocksSession
<1>15. CASE CloseSettle(c)
  BY <1>15 DEF CloseSettle, CloseFails, CloseReturns, UnlocksSession, RegistryClose, Release
<1>16. CASE AgentCloseEnter(c)
  BY <1>16 DEF AgentCloseEnter
<1>17. CASE AgentCloseLock(c)
  BY <1>17 DEF AgentCloseLock, AgentFree, MarkClosing
<1>18. CASE CascadeNext(c)
  BY <1>18 DEF CascadeNext, MarkClosing
<1>19. CASE AgentRelease(c)
  BY <1>19 DEF AgentRelease, RegistryClose, Release, UnlocksAgent
<1> QED
  BY <1>1, <1>2, <1>3, <1>4, <1>5, <1>6, <1>7, <1>8, <1>9, <1>10, <1>11, <1>12, <1>13, <1>14,
       <1>15, <1>16, <1>17, <1>18, <1>19 DEF Handler

LEMMA StepTypedLocks ==
  ASSUME NEW c \in Calls, Typed, Handler(c)
  PROVE  (/\ agentLock \in [Calls -> Calls \cup {None}]
             /\ sessionLock \in [Calls -> Calls \cup {None}])'
<1> USE DEF Typed
<1>1. CASE AgentCreateAgain(c)
  BY <1>1 DEF AgentCreateAgain
<1>2. CASE AgentCreate(c)
  BY <1>2 DEF AgentCreate
<1>3. CASE CreateEnter(c)
  BY <1>3 DEF CreateEnter
<1>4. CASE CreateAdmit(c)
  BY <1>4 DEF CreateAdmit, AgentFree, AgentClosing, Unloadable
<1>5. CASE Insert(c)
  BY <1>5 DEF Insert, Dissociates, UnlocksAgent
<1>6. CASE Reserve(c)
  BY <1>6 DEF Reserve, Dissociates
<1>7. CASE ReserveRollback(c)
  BY <1>7 DEF ReserveRollback, Dissociates, UnlocksAgent
<1>8. CASE Register(c)
  BY <1>8 DEF Register, Registrable, AgentClosing
<1>9. CASE Persist(c)
  BY <1>9 DEF Persist, UnlocksAgent, Release
<1>10. CASE CreateUndo(c)
  BY <1>10 DEF CreateUndo, UnlocksAgent
<1>11. CASE CloseEnter(c)
  BY <1>11 DEF CloseEnter, MarkClosing, Named
<1>12. CASE CloseLock(c)
  BY <1>12 DEF CloseLock, CloseReturns, SessionFree
<1>13. CASE CloseFacade(c)
  BY <1>13 DEF CloseFacade, CloseFails, CloseReturns, UnlocksSession
<1>14. CASE CloseAcp(c)
  BY <1>14 DEF CloseAcp, CloseFails, CloseReturns, UnlocksSession
<1>15. CASE CloseSettle(c)
  BY <1>15 DEF CloseSettle, CloseFails, CloseReturns, UnlocksSession, RegistryClose, Release
<1>16. CASE AgentCloseEnter(c)
  BY <1>16 DEF AgentCloseEnter
<1>17. CASE AgentCloseLock(c)
  BY <1>17 DEF AgentCloseLock, AgentFree, MarkClosing
<1>18. CASE CascadeNext(c)
  BY <1>18 DEF CascadeNext, MarkClosing
<1>19. CASE AgentRelease(c)
  BY <1>19 DEF AgentRelease, RegistryClose, Release, UnlocksAgent
<1> QED
  BY <1>1, <1>2, <1>3, <1>4, <1>5, <1>6, <1>7, <1>8, <1>9, <1>10, <1>11, <1>12, <1>13, <1>14,
       <1>15, <1>16, <1>17, <1>18, <1>19 DEF Handler

LEMMA StepTypedTarget ==
  ASSUME NEW c \in Calls, Typed, Handler(c)
  PROVE  (/\ target \in [Calls -> Calls \cup {None}] /\ todo \in [Calls -> SUBSET Calls]
             /\ failures \in 0..MaxFailures)'
<1> USE DEF Typed
<1>1. CASE AgentCreateAgain(c)
  BY <1>1, BoundsAssumption DEF AgentCreateAgain
<1>2. CASE AgentCreate(c)
  BY <1>2, BoundsAssumption DEF AgentCreate
<1>3. CASE CreateEnter(c)
  BY <1>3, BoundsAssumption DEF CreateEnter
<1>4. CASE CreateAdmit(c)
  BY <1>4, BoundsAssumption DEF CreateAdmit, AgentFree, AgentClosing, Unloadable
<1>5. CASE Insert(c)
  BY <1>5, BoundsAssumption DEF Insert, Dissociates, UnlocksAgent
<1>6. CASE Reserve(c)
  BY <1>6, BoundsAssumption DEF Reserve, Dissociates
<1>7. CASE ReserveRollback(c)
  BY <1>7, BoundsAssumption DEF ReserveRollback, Dissociates, UnlocksAgent
<1>8. CASE Register(c)
  BY <1>8, BoundsAssumption DEF Register, Registrable, AgentClosing
<1>9. CASE Persist(c)
  BY <1>9, BoundsAssumption DEF Persist, UnlocksAgent, Release
<1>10. CASE CreateUndo(c)
  BY <1>10, BoundsAssumption DEF CreateUndo, UnlocksAgent
<1>11. CASE CloseEnter(c)
  BY <1>11, BoundsAssumption, Requests DEF CloseEnter, MarkClosing, Named
<1>12. CASE CloseLock(c)
  BY <1>12, BoundsAssumption DEF CloseLock, CloseReturns, SessionFree
<1>13. CASE CloseFacade(c)
  BY <1>13, BoundsAssumption DEF CloseFacade, CloseFails, CloseReturns, UnlocksSession
<1>14. CASE CloseAcp(c)
  BY <1>14, BoundsAssumption DEF CloseAcp, CloseFails, CloseReturns, UnlocksSession
<1>15. CASE CloseSettle(c)
  BY <1>15, BoundsAssumption DEF CloseSettle, CloseFails, CloseReturns, UnlocksSession,
       RegistryClose, Release
<1>16. CASE AgentCloseEnter(c)
  BY <1>16, BoundsAssumption DEF AgentCloseEnter
<1>17. CASE AgentCloseLock(c)
  BY <1>17, BoundsAssumption DEF AgentCloseLock, AgentFree, MarkClosing, SessionsOf
<1>18. CASE CascadeNext(c)
  BY <1>18, BoundsAssumption DEF CascadeNext, MarkClosing
<1>19. CASE AgentRelease(c)
  BY <1>19, BoundsAssumption DEF AgentRelease, RegistryClose, Release, UnlocksAgent
<1> QED
  BY <1>1, <1>2, <1>3, <1>4, <1>5, <1>6, <1>7, <1>8, <1>9, <1>10, <1>11, <1>12, <1>13, <1>14,
       <1>15, <1>16, <1>17, <1>18, <1>19 DEF Handler

LEMMA StepTypedErred ==
  ASSUME NEW c \in Calls, Typed, Handler(c)
  PROVE  (erred \in [Calls -> BOOLEAN])'
<1> USE DEF Typed
<1>1. CASE AgentCreateAgain(c)
  BY <1>1 DEF AgentCreateAgain
<1>2. CASE AgentCreate(c)
  BY <1>2 DEF AgentCreate
<1>3. CASE CreateEnter(c)
  BY <1>3 DEF CreateEnter
<1>4. CASE CreateAdmit(c)
  BY <1>4 DEF CreateAdmit, AgentFree, AgentClosing, Unloadable
<1>5. CASE Insert(c)
  BY <1>5 DEF Insert, Dissociates, UnlocksAgent
<1>6. CASE Reserve(c)
  BY <1>6 DEF Reserve, Dissociates
<1>7. CASE ReserveRollback(c)
  BY <1>7 DEF ReserveRollback, Dissociates, UnlocksAgent
<1>8. CASE Register(c)
  BY <1>8 DEF Register, Registrable, AgentClosing
<1>9. CASE Persist(c)
  BY <1>9 DEF Persist, UnlocksAgent, Release
<1>10. CASE CreateUndo(c)
  BY <1>10 DEF CreateUndo, UnlocksAgent
<1>11. CASE CloseEnter(c)
  BY <1>11 DEF CloseEnter, MarkClosing, Named
<1>12. CASE CloseLock(c)
  BY <1>12 DEF CloseLock, CloseReturns, SessionFree
<1>13. CASE CloseFacade(c)
  BY <1>13 DEF CloseFacade, CloseFails, CloseReturns, UnlocksSession
<1>14. CASE CloseAcp(c)
  BY <1>14 DEF CloseAcp, CloseFails, CloseReturns, UnlocksSession
<1>15. CASE CloseSettle(c)
  BY <1>15 DEF CloseSettle, CloseFails, CloseReturns, UnlocksSession, RegistryClose, Release
<1>16. CASE AgentCloseEnter(c)
  BY <1>16 DEF AgentCloseEnter
<1>17. CASE AgentCloseLock(c)
  BY <1>17 DEF AgentCloseLock, AgentFree, MarkClosing
<1>18. CASE CascadeNext(c)
  BY <1>18 DEF CascadeNext, MarkClosing
<1>19. CASE AgentRelease(c)
  BY <1>19 DEF AgentRelease, RegistryClose, Release, UnlocksAgent
<1> QED
  BY <1>1, <1>2, <1>3, <1>4, <1>5, <1>6, <1>7, <1>8, <1>9, <1>10, <1>11, <1>12, <1>13, <1>14,
       <1>15, <1>16, <1>17, <1>18, <1>19 DEF Handler

LEMMA StepRoutes ==
  ASSUME NEW c \in Calls, Typed, Routes, Handler(c)
  PROVE  Routes'
<1> USE DEF Typed, Routes, Creating, Closing
<1>1. CASE AgentCreateAgain(c)
  BY <1>1, Requests DEF AgentCreateAgain
<1>2. CASE AgentCreate(c)
  BY <1>2, Requests DEF AgentCreate
<1>3. CASE CreateEnter(c)
  BY <1>3, Requests DEF CreateEnter
<1>4. CASE CreateAdmit(c)
  BY <1>4, Requests DEF CreateAdmit, AgentFree, AgentClosing, Unloadable
<1>5. CASE Insert(c)
  BY <1>5, Requests DEF Insert, Dissociates, UnlocksAgent
<1>6. CASE Reserve(c)
  BY <1>6, Requests DEF Reserve, Dissociates
<1>7. CASE ReserveRollback(c)
  BY <1>7, Requests DEF ReserveRollback, Dissociates, UnlocksAgent
<1>8. CASE Register(c)
  BY <1>8, Requests DEF Register, Registrable, AgentClosing
<1>9. CASE Persist(c)
  BY <1>9, Requests DEF Persist, UnlocksAgent, Release
<1>10. CASE CreateUndo(c)
  BY <1>10, Requests DEF CreateUndo, UnlocksAgent
<1>11. CASE CloseEnter(c)
  BY <1>11, Requests DEF CloseEnter, MarkClosing, Named
<1>12. CASE CloseLock(c)
  BY <1>12, Requests DEF CloseLock, CloseReturns, SessionFree
<1>13. CASE CloseFacade(c)
  BY <1>13, Requests DEF CloseFacade, CloseFails, CloseReturns, UnlocksSession
<1>14. CASE CloseAcp(c)
  BY <1>14, Requests DEF CloseAcp, CloseFails, CloseReturns, UnlocksSession
<1>15. CASE CloseSettle(c)
  BY <1>15, Requests DEF CloseSettle, CloseFails, CloseReturns, UnlocksSession, RegistryClose,
       Release
<1>16. CASE AgentCloseEnter(c)
  BY <1>16, Requests DEF AgentCloseEnter
<1>17. CASE AgentCloseLock(c)
  BY <1>17, Requests DEF AgentCloseLock, AgentFree, MarkClosing
<1>18. CASE CascadeNext(c)
  BY <1>18, Requests DEF CascadeNext, MarkClosing
<1>19. CASE AgentRelease(c)
  BY <1>19, Requests DEF AgentRelease, RegistryClose, Release, UnlocksAgent
<1> QED
  BY <1>1, <1>2, <1>3, <1>4, <1>5, <1>6, <1>7, <1>8, <1>9, <1>10, <1>11, <1>12, <1>13, <1>14,
       <1>15, <1>16, <1>17, <1>18, <1>19 DEF Handler

LEMMA AgentsOf ==
  ASSUME Typed, Routes, Responses, Lives, NEW c \in Calls, Creates(c) \/ ClosesAgent(c),
         at[c] # "unsent"
  PROVE  /\ AgentOf(c) \in Calls \ {c} /\ IsAgent(AgentOf(c)) /\ Issued(AgentOf(c))
         /\ at[AgentOf(c)] = "answered"
<1>1. AgentOf(c) # None /\ IsAgent(Request[c].on) /\ Request[c].on \in Calls /\ ~IsAgent(c)
  BY Requests DEF Responses, Response
<1>2. given[Request[c].on] # None /\ ~Creates(Request[c].on)
  BY <1>1, Requests DEF AgentOf
<1>3. IsAgent(given[Request[c].on]) /\ Issued(given[Request[c].on])
  BY <1>1, <1>2 DEF Responses, Response
<1> QED
  BY <1>1, <1>2, <1>3, Requests DEF Typed, AgentOf, Routes, Lives, LifeOf, Issued

\* A step changes the state of its own handler, which has not answered yet.
LEMMA Elsewhere ==
  ASSUME NEW c \in Calls, Typed, Handler(c)
  PROVE  /\ at[c] # "answered"
         /\ \A d \in Calls \ {c} :
              /\ at'[d] = at[d] /\ answer'[d] = answer[d] /\ given'[d] = given[d]
              /\ target'[d] = target[d] /\ todo'[d] = todo[d] /\ erred'[d] = erred[d]
<1> USE DEF Typed
<1>1. CASE AgentCreateAgain(c)
  BY <1>1 DEF AgentCreateAgain
<1>2. CASE AgentCreate(c)
  BY <1>2 DEF AgentCreate
<1>3. CASE CreateEnter(c)
  BY <1>3 DEF CreateEnter
<1>4. CASE CreateAdmit(c)
  BY <1>4 DEF CreateAdmit, AgentFree, AgentClosing, Unloadable
<1>5. CASE Insert(c)
  BY <1>5 DEF Insert, Dissociates, UnlocksAgent
<1>6. CASE Reserve(c)
  BY <1>6 DEF Reserve, Dissociates
<1>7. CASE ReserveRollback(c)
  BY <1>7 DEF ReserveRollback, Dissociates, UnlocksAgent
<1>8. CASE Register(c)
  BY <1>8 DEF Register, Registrable, AgentClosing
<1>9. CASE Persist(c)
  BY <1>9 DEF Persist, UnlocksAgent, Release
<1>10. CASE CreateUndo(c)
  BY <1>10 DEF CreateUndo, UnlocksAgent
<1>11. CASE CloseEnter(c)
  BY <1>11 DEF CloseEnter, MarkClosing, Named
<1>12. CASE CloseLock(c)
  BY <1>12 DEF CloseLock, CloseReturns, SessionFree
<1>13. CASE CloseFacade(c)
  BY <1>13 DEF CloseFacade, CloseFails, CloseReturns, UnlocksSession
<1>14. CASE CloseAcp(c)
  BY <1>14 DEF CloseAcp, CloseFails, CloseReturns, UnlocksSession
<1>15. CASE CloseSettle(c)
  BY <1>15 DEF CloseSettle, CloseFails, CloseReturns, UnlocksSession, RegistryClose, Release
<1>16. CASE AgentCloseEnter(c)
  BY <1>16 DEF AgentCloseEnter
<1>17. CASE AgentCloseLock(c)
  BY <1>17 DEF AgentCloseLock, AgentFree, MarkClosing
<1>18. CASE CascadeNext(c)
  BY <1>18 DEF CascadeNext, MarkClosing
<1>19. CASE AgentRelease(c)
  BY <1>19 DEF AgentRelease, RegistryClose, Release, UnlocksAgent
<1> QED
  BY <1>1, <1>2, <1>3, <1>4, <1>5, <1>6, <1>7, <1>8, <1>9, <1>10, <1>11, <1>12, <1>13, <1>14,
       <1>15, <1>16, <1>17, <1>18, <1>19 DEF Handler

\* A handle is issued by its own call, and closed once that call has answered.
LEMMA LifeMoves ==
  ASSUME NEW c \in Calls, Typed, Routes, Responses, Lives, Targets, Handler(c)
  PROVE  \A h \in Calls :
           \/ life'[h] = life[h]
           \/ h # c /\ Live(h) /\ at[h] = "answered" /\ life'[h] \in {"closing", "released"}
           \/ h = c /\ Live(h) /\ at[h] = "persist" /\ life'[h] = "released"
           \/ /\ h = c /\ life[h] = "unissued" /\ life'[h] = "open"
              /\ IsAgent(h) \/ at[h] = "register" 
<1> USE DEF Typed, Live
<1>1. CASE AgentCreateAgain(c)
  BY <1>1 DEF AgentCreateAgain
<1>2. CASE AgentCreate(c)
  BY <1>2 DEF AgentCreate, Lives, LifeOf
<1>3. CASE CreateEnter(c)
  BY <1>3 DEF CreateEnter
<1>4. CASE CreateAdmit(c)
  BY <1>4 DEF CreateAdmit, AgentFree, AgentClosing, Unloadable
<1>5. CASE Insert(c)
  BY <1>5 DEF Insert, Dissociates, UnlocksAgent
<1>6. CASE Reserve(c)
  BY <1>6 DEF Reserve, Dissociates
<1>7. CASE ReserveRollback(c)
  BY <1>7 DEF ReserveRollback, Dissociates, UnlocksAgent
<1>8. CASE Register(c)
  BY <1>8 DEF Register, Registrable, AgentClosing, Lives, LifeOf
<1>9. CASE Persist(c)
  BY <1>9 DEF Persist, UnlocksAgent, Release, Lives, LifeOf
<1>10. CASE CreateUndo(c)
  BY <1>10 DEF CreateUndo, UnlocksAgent
<1>11. CASE CloseEnter(c)
  BY <1>11, Requests DEF CloseEnter, MarkClosing, Named, Targets, Responses, Response
<1>12. CASE CloseLock(c)
  BY <1>12 DEF CloseLock, CloseReturns, SessionFree
<1>13. CASE CloseFacade(c)
  BY <1>13 DEF CloseFacade, CloseFails, CloseReturns, UnlocksSession
<1>14. CASE CloseAcp(c)
  BY <1>14 DEF CloseAcp, CloseFails, CloseReturns, UnlocksSession
<1>15. CASE CloseSettle(c)
  BY <1>15 DEF CloseSettle, CloseFails, CloseReturns, UnlocksSession, RegistryClose, Release,
       Targets, Closing
<1>16. CASE AgentCloseEnter(c)
  BY <1>16 DEF AgentCloseEnter
<1>17. CASE AgentCloseLock(c)
  BY <1>17, Requests, AgentsOf DEF AgentCloseLock, AgentFree, MarkClosing
<1>18. CASE CascadeNext(c)
  BY <1>18 DEF CascadeNext, MarkClosing, Targets
<1>19. CASE AgentRelease(c)
  BY <1>19, Requests, Handlers, AgentsOf DEF AgentRelease, RegistryClose, Release, UnlocksAgent
<1> QED
  BY <1>1, <1>2, <1>3, <1>4, <1>5, <1>6, <1>7, <1>8, <1>9, <1>10, <1>11, <1>12, <1>13, <1>14,
       <1>15, <1>16, <1>17, <1>18, <1>19 DEF Handler

LEMMA GivenStays ==
  ASSUME Typed, Responses, NEW c \in Calls, Handler(c), NEW d \in Calls, given[d] # None
  PROVE  given'[d] = given[d]
BY Elsewhere DEF Responses, Response

LEMMA IssuedStays ==
  ASSUME Typed, Routes, Responses, Lives, Targets, NEW c \in Calls, Handler(c), NEW h \in Calls,
         Issued(h)
  PROVE  Issued(h)'
BY LifeMoves DEF Issued, Live

LEMMA ResponseOfCaller ==
  ASSUME NEW c \in Calls, Typed, Routes, Responses, Lives, Targets, Remembers, Response(c),
         Handler(c)
  PROVE  Response(c)'
<1> USE DEF Typed, Response, AgentOf
<1>1. CASE AgentCreateAgain(c)
  BY <1>1, Requests, GivenStays, IssuedStays DEF AgentCreateAgain, Remembers, Live, Issued
<1>2. CASE AgentCreate(c)
  BY <1>2, Requests, GivenStays, IssuedStays DEF AgentCreate, Issued
<1>3. CASE CreateEnter(c)
  BY <1>3, Requests, GivenStays, IssuedStays DEF CreateEnter, ResolveError
<1>4. CASE CreateAdmit(c)
  BY <1>4, Requests, GivenStays, IssuedStays DEF CreateAdmit, AgentFree, AgentClosing, Unloadable
<1>5. CASE Insert(c)
  BY <1>5, Requests, GivenStays, IssuedStays, Handlers DEF Insert, Dissociates, UnlocksAgent
<1>6. CASE Reserve(c)
  BY <1>6, Requests, GivenStays, IssuedStays, Handlers DEF Reserve, Dissociates
<1>7. CASE ReserveRollback(c)
  BY <1>7, Requests, GivenStays, IssuedStays, Handlers DEF ReserveRollback, Dissociates,
       UnlocksAgent
<1>8. CASE Register(c)
  BY <1>8, Requests, GivenStays, IssuedStays, Handlers DEF Register, Registrable, AgentClosing
<1>9. CASE Persist(c)
  BY <1>9, Requests, GivenStays, IssuedStays, Handlers DEF Persist, UnlocksAgent, Release,
       Issued, Lives, LifeOf, Creating
<1>10. CASE CreateUndo(c)
  BY <1>10, Requests, GivenStays, IssuedStays, Handlers DEF CreateUndo, UnlocksAgent
<1>11. CASE CloseEnter(c)
  BY <1>11, Requests, GivenStays, IssuedStays DEF CloseEnter, MarkClosing, Named, Repeated
<1>12. CASE CloseLock(c)
  BY <1>12, Requests, GivenStays, IssuedStays DEF CloseLock, CloseReturns, SessionFree
<1>13. CASE CloseFacade(c)
  BY <1>13, Requests, GivenStays, IssuedStays DEF CloseFacade, CloseFails, CloseReturns,
       UnlocksSession
<1>14. CASE CloseAcp(c)
  BY <1>14, Requests, GivenStays, IssuedStays DEF CloseAcp, CloseFails, CloseReturns,
       UnlocksSession
<1>15. CASE CloseSettle(c)
  BY <1>15, Requests, GivenStays, IssuedStays, Handlers DEF CloseSettle, CloseFails,
       CloseReturns, UnlocksSession, RegistryClose, Release, Outcome, Repeated
<1>16. CASE AgentCloseEnter(c)
  BY <1>16, Requests, GivenStays, IssuedStays DEF AgentCloseEnter, Repeated
<1>17. CASE AgentCloseLock(c)
  BY <1>17, Requests, GivenStays, IssuedStays DEF AgentCloseLock, AgentFree, MarkClosing
<1>18. CASE CascadeNext(c)
  BY <1>18, Requests, GivenStays, IssuedStays, Handlers DEF CascadeNext, MarkClosing
<1>19. CASE AgentRelease(c)
  BY <1>19, Requests, GivenStays, IssuedStays, Handlers DEF AgentRelease, RegistryClose,
       Release, UnlocksAgent, Outcome, Repeated
<1> QED
  BY <1>1, <1>2, <1>3, <1>4, <1>5, <1>6, <1>7, <1>8, <1>9, <1>10, <1>11, <1>12, <1>13, <1>14,
       <1>15, <1>16, <1>17, <1>18, <1>19 DEF Handler

LEMMA LifeOfCaller ==
  ASSUME NEW c \in Calls, Typed, Routes, Responses, Lives, Targets, LifeOf(c), Handler(c)
  PROVE  LifeOf(c)'
<1> USE DEF Typed, LifeOf, Issued
<1>1. CASE AgentCreateAgain(c)
  BY <1>1, Requests, LifeMoves DEF AgentCreateAgain
<1>2. CASE AgentCreate(c)
  BY <1>2, Requests, LifeMoves DEF AgentCreate
<1>3. CASE CreateEnter(c)
  BY <1>3, Requests, LifeMoves DEF CreateEnter
<1>4. CASE CreateAdmit(c)
  BY <1>4, Requests, LifeMoves DEF CreateAdmit, AgentFree, AgentClosing, Unloadable
<1>5. CASE Insert(c)
  BY <1>5, Requests, LifeMoves, Handlers DEF Insert, Dissociates, UnlocksAgent
<1>6. CASE Reserve(c)
  BY <1>6, Requests, LifeMoves, Handlers DEF Reserve, Dissociates
<1>7. CASE ReserveRollback(c)
  BY <1>7, Requests, LifeMoves, Handlers DEF ReserveRollback, Dissociates, UnlocksAgent
<1>8. CASE Register(c)
  BY <1>8, Requests, LifeMoves, Handlers DEF Register, Registrable, AgentClosing, Creating
<1>9. CASE Persist(c)
  BY <1>9, Requests, LifeMoves, Handlers DEF Persist, UnlocksAgent, Release
<1>10. CASE CreateUndo(c)
  BY <1>10, Requests, LifeMoves, Handlers DEF CreateUndo, UnlocksAgent
<1>11. CASE CloseEnter(c)
  BY <1>11, Requests, LifeMoves DEF CloseEnter, MarkClosing, Named, Live
<1>12. CASE CloseLock(c)
  BY <1>12, Requests, LifeMoves DEF CloseLock, CloseReturns, SessionFree
<1>13. CASE CloseFacade(c)
  BY <1>13, Requests, LifeMoves DEF CloseFacade, CloseFails, CloseReturns, UnlocksSession
<1>14. CASE CloseAcp(c)
  BY <1>14, Requests, LifeMoves DEF CloseAcp, CloseFails, CloseReturns, UnlocksSession
<1>15. CASE CloseSettle(c)
  BY <1>15, Requests, LifeMoves, Handlers DEF CloseSettle, CloseFails, CloseReturns,
       UnlocksSession, RegistryClose, Release, Live
<1>16. CASE AgentCloseEnter(c)
  BY <1>16, Requests, LifeMoves DEF AgentCloseEnter
<1>17. CASE AgentCloseLock(c)
  BY <1>17, Requests, LifeMoves DEF AgentCloseLock, AgentFree, MarkClosing, Live
<1>18. CASE CascadeNext(c)
  BY <1>18, Requests, LifeMoves, Handlers DEF CascadeNext, MarkClosing, Live
<1>19. CASE AgentRelease(c)
  BY <1>19, Requests, LifeMoves, Handlers DEF AgentRelease, RegistryClose, Release,
       UnlocksAgent, Live
<1> QED
  BY <1>1, <1>2, <1>3, <1>4, <1>5, <1>6, <1>7, <1>8, <1>9, <1>10, <1>11, <1>12, <1>13, <1>14,
       <1>15, <1>16, <1>17, <1>18, <1>19 DEF Handler

LEMMA StepControl ==
  ASSUME Control, Targets, Remembers, NEW c \in Calls, Handler(c)
  PROVE  Control'
<1> USE DEF Control
<1>1. Typed'
  BY StepTypedCore, StepTypedLife, StepTypedKeys, StepTypedSessions, StepTypedLocks,
     StepTypedTarget, StepTypedErred, Zenon DEF Typed
<1>2. Routes'
  BY StepRoutes
<1>3. ASSUME NEW d \in Calls
      PROVE  Response(d)' /\ LifeOf(d)'
  <2>1. Response(d) /\ LifeOf(d)
    BY DEF Responses, Lives
  <2>2. CASE d = c
    BY <2>1, <2>2, ResponseOfCaller, LifeOfCaller
  <2>3. CASE d # c
    <3>1. at'[d] = at[d] /\ answer'[d] = answer[d] /\ given'[d] = given[d]
      BY <2>3, Elsewhere
    <3>2. Response(d)'
      <4>1. given[d] # None => Issued(given[d])'
        BY <2>1, <3>1, IssuedStays DEF Response, Typed, Issued
      <4>2. (Creates(d) \/ ClosesAgent(d)) /\ at[d] # "unsent" => (AgentOf(d) # None)'
        BY <2>1, Requests, GivenStays DEF Response, AgentOf
      <4> QED
        BY <2>1, <3>1, <4>1, <4>2 DEF Response
    <3>3. LifeOf(d)'
      BY <2>1, <2>3, <3>1, LifeMoves DEF LifeOf, Live, Issued
    <3> QED
      BY <3>2, <3>3
  <2> QED
    BY <2>2, <2>3
<1> QED
  BY <1>1, <1>2, <1>3 DEF Responses, Lives

LEMMA AgentStays ==
  ASSUME Control, NEW c \in Calls, Handler(c),
         NEW d \in Calls, Creates(d) \/ ClosesAgent(d), at[d] # "unsent"
  PROVE  AgentOf(d)' = AgentOf(d)
BY AgentsOf, Requests, GivenStays, NoneAssumption DEF Control, AgentOf

-----------------------------------------------------------------------------
(* The locks.                                                              *)

LEMMA AgentLockMoves ==
  ASSUME NEW c \in Calls, Control, Handler(c)
  PROVE  \/ (HoldsAgent(c)' <=> HoldsAgent(c)) /\ UNCHANGED agentLock
         \/ /\ ~HoldsAgent(c) /\ HoldsAgent(c)' /\ at[c] = "lock" /\ agentLock[AgentOf(c)] = None
            /\ agentLock' = [agentLock EXCEPT ![AgentOf(c)] = c]
         \/ /\ HoldsAgent(c) /\ ~HoldsAgent(c)'
            /\ agentLock' = [agentLock EXCEPT ![AgentOf(c)] = None]
<1> USE DEF Control, Typed, HoldsAgent, Creating, Closing
<1>1. CASE AgentCreateAgain(c)
  BY <1>1, Requests, Handlers DEF AgentCreateAgain
<1>2. CASE AgentCreate(c)
  BY <1>2, Requests, Handlers DEF AgentCreate
<1>3. CASE CreateEnter(c)
  BY <1>3, Requests, Handlers DEF CreateEnter
<1>4. CASE CreateAdmit(c)
  BY <1>4, Requests, Handlers DEF CreateAdmit, AgentFree
<1>5. CASE Insert(c)
  BY <1>5, Requests, Handlers DEF Insert, UnlocksAgent
<1>6. CASE Reserve(c)
  BY <1>6, Requests, Handlers DEF Reserve
<1>7. CASE ReserveRollback(c)
  BY <1>7, Requests, Handlers DEF ReserveRollback, UnlocksAgent
<1>8. CASE Register(c)
  BY <1>8, Requests, Handlers DEF Register
<1>9. CASE Persist(c)
  BY <1>9, Requests, Handlers DEF Persist, UnlocksAgent
<1>10. CASE CreateUndo(c)
  BY <1>10, Requests, Handlers DEF CreateUndo, UnlocksAgent
<1>11. CASE CloseEnter(c)
  BY <1>11, Requests, Handlers DEF CloseEnter, Named
<1>12. CASE CloseLock(c)
  BY <1>12, Requests, Handlers DEF CloseLock, CloseReturns, SessionFree
<1>13. CASE CloseFacade(c)
  BY <1>13, Requests, Handlers DEF CloseFacade, CloseFails, CloseReturns, UnlocksSession
<1>14. CASE CloseAcp(c)
  BY <1>14, Requests, Handlers DEF CloseAcp, CloseFails, CloseReturns, UnlocksSession
<1>15. CASE CloseSettle(c)
  BY <1>15, Requests, Handlers DEF CloseSettle, CloseFails, CloseReturns, UnlocksSession
<1>16. CASE AgentCloseEnter(c)
  BY <1>16, Requests, Handlers DEF AgentCloseEnter
<1>17. CASE AgentCloseLock(c)
  BY <1>17, Requests, Handlers DEF AgentCloseLock, AgentFree
<1>18. CASE CascadeNext(c)
  BY <1>18, Requests, Handlers DEF CascadeNext
<1>19. CASE AgentRelease(c)
  BY <1>19, Requests, Handlers DEF AgentRelease, UnlocksAgent
<1> QED
  BY <1>1, <1>2, <1>3, <1>4, <1>5, <1>6, <1>7, <1>8, <1>9, <1>10, <1>11, <1>12, <1>13, <1>14,
       <1>15, <1>16, <1>17, <1>18, <1>19 DEF Handler

LEMMA StepAgentLocks ==
  ASSUME Control, AgentLocks, Targets, Remembers, NEW c \in Calls, Handler(c)
  PROVE  AgentLocks'
<1> SUFFICES ASSUME NEW a \in Calls, NEW d \in Calls
             PROVE  agentLock'[a] = d <=> HoldsAgent(d)' /\ AgentOf(d)' = a
  BY DEF AgentLocks
<1>1. \A e \in Calls : HoldsAgent(e) => AgentOf(e)' = AgentOf(e) /\ AgentOf(e) \in Calls
  BY AgentStays, AgentsOf DEF HoldsAgent, Control, Creating, Closing
<1>2. \A e \in Calls \ {c} : HoldsAgent(e)' <=> HoldsAgent(e)
  BY Elsewhere DEF HoldsAgent, Control
<1>3. agentLock \in [Calls -> Calls \cup {None}]
  BY DEF Control, Typed
<1>4. agentLock[a] = d <=> HoldsAgent(d) /\ AgentOf(d) = a
  BY DEF AgentLocks
<1>5. at[c] = "lock" => AgentOf(c)' = AgentOf(c) /\ AgentOf(c) \in Calls
  BY AgentStays, AgentsOf, Requests DEF Control, Routes, Closing
<1>6. HoldsAgent(d) => AgentOf(d)' = AgentOf(d) /\ AgentOf(d) \in Calls
  BY <1>1
<1>7. d # c => (HoldsAgent(d)' <=> HoldsAgent(d))
  BY <1>2
<1>8. HoldsAgent(c) => AgentOf(c) \in Calls /\ agentLock[AgentOf(c)] = c
  BY <1>1 DEF AgentLocks
<1> QED
  BY <1>3, <1>4, <1>5, <1>6, <1>7, <1>8, AgentLockMoves, NoneAssumption

LEMMA SessionLockMoves ==
  ASSUME NEW c \in Calls, Control, Targets, Handler(c)
  PROVE  \/ (at'[c] \in Closing <=> at[c] \in Closing) /\ UNCHANGED sessionLock
            /\ (at[c] \in Closing => target'[c] = target[c])
         \/ /\ at[c] \notin Closing /\ at'[c] \in Closing /\ at[c] = "wait" /\ sessionLock[target[c]] = None
            /\ sessionLock' = [sessionLock EXCEPT ![target[c]] = c] /\ target'[c] = target[c]
         \/ /\ at[c] \in Closing /\ at'[c] \notin Closing
            /\ sessionLock' = [sessionLock EXCEPT ![target[c]] = None]
<1> USE DEF Control, Typed, Closing
<1>1. CASE AgentCreateAgain(c)
  BY <1>1, Requests, Handlers DEF AgentCreateAgain
<1>2. CASE AgentCreate(c)
  BY <1>2, Requests, Handlers DEF AgentCreate
<1>3. CASE CreateEnter(c)
  BY <1>3, Requests, Handlers DEF CreateEnter
<1>4. CASE CreateAdmit(c)
  BY <1>4, Requests, Handlers DEF CreateAdmit, AgentFree
<1>5. CASE Insert(c)
  BY <1>5, Requests, Handlers DEF Insert
<1>6. CASE Reserve(c)
  BY <1>6, Requests, Handlers DEF Reserve
<1>7. CASE ReserveRollback(c)
  BY <1>7, Requests, Handlers DEF ReserveRollback
<1>8. CASE Register(c)
  BY <1>8, Requests, Handlers DEF Register
<1>9. CASE Persist(c)
  BY <1>9, Requests, Handlers DEF Persist
<1>10. CASE CreateUndo(c)
  BY <1>10, Requests, Handlers DEF CreateUndo
<1>11. CASE CloseEnter(c)
  BY <1>11, Requests, Handlers DEF CloseEnter, Named
<1>12. CASE CloseLock(c)
  BY <1>12, Requests, Handlers DEF CloseLock, CloseReturns, SessionFree
<1>13. CASE CloseFacade(c)
  BY <1>13, Requests, Handlers DEF CloseFacade, CloseFails, CloseReturns, UnlocksSession
<1>14. CASE CloseAcp(c)
  BY <1>14, Requests, Handlers DEF CloseAcp, CloseFails, CloseReturns, UnlocksSession
<1>15. CASE CloseSettle(c)
  BY <1>15, Requests, Handlers DEF CloseSettle, CloseFails, CloseReturns, UnlocksSession
<1>16. CASE AgentCloseEnter(c)
  BY <1>16, Requests, Handlers DEF AgentCloseEnter
<1>17. CASE AgentCloseLock(c)
  BY <1>17, Requests, Handlers DEF AgentCloseLock, AgentFree
<1>18. CASE CascadeNext(c)
  BY <1>18, Requests, Handlers DEF CascadeNext
<1>19. CASE AgentRelease(c)
  BY <1>19, Requests, Handlers DEF AgentRelease
<1> QED
  BY <1>1, <1>2, <1>3, <1>4, <1>5, <1>6, <1>7, <1>8, <1>9, <1>10, <1>11, <1>12, <1>13, <1>14,
       <1>15, <1>16, <1>17, <1>18, <1>19 DEF Handler

LEMMA StepSessionLocks ==
  ASSUME Control, SessionLocks, Targets, NEW c \in Calls, Handler(c)
  PROVE  SessionLocks'
<1> SUFFICES ASSUME NEW h \in Calls, NEW d \in Calls
             PROVE  sessionLock'[h] = d <=> at'[d] \in Closing /\ target'[d] = h
  BY DEF SessionLocks
<1>1. \A e \in Calls : at[e] \in {"wait"} \cup Closing => target[e] \in Calls
  BY DEF Targets
<1>2. \A e \in Calls \ {c} : at'[e] = at[e] /\ target'[e] = target[e]
  BY Elsewhere DEF Control
<1>3. sessionLock \in [Calls -> Calls \cup {None}]
  BY DEF Control, Typed
<1> QED
  BY <1>1, <1>2, <1>3, SessionLockMoves, NoneAssumption DEF SessionLocks

-----------------------------------------------------------------------------
(* What closes work on.                                                    *)

LEMMA OthersAnswered ==
  ASSUME Control, NEW c \in Calls, Handler(c), NEW h \in Calls, at[h] = "answered"
  PROVE  at'[h] = "answered" /\ h # c
BY Elsewhere DEF Control

\* Who holds the Agent's lock finds no create of the Agent under way.
LEMMA NoCreateUnderLock ==
  ASSUME Control, AgentLocks, NEW c \in Calls, ClosesAgent(c) \/ Creates(c), at[c] # "unsent",
         HoldsAgent(c) \/ agentLock[AgentOf(c)] = None,
         NEW h \in Calls, Creates(h), AgentOf(h) = AgentOf(c), at[h] \in Creating
  PROVE  h = c
BY AgentsOf, NoneAssumption DEF Control, AgentLocks, HoldsAgent

LEMMA TargetOfCaller ==
  ASSUME NEW c \in Calls, Control, AgentLocks, Targets, Handler(c)
  PROVE  /\ at'[c] \in {"wait"} \cup Closing =>
              /\ target'[c] \in Calls /\ Creates(target'[c]) /\ at[target'[c]] = "answered"
              /\ life'[target'[c]] \in {"closing", "released"}
         /\ \A h \in todo'[c] : h \in Calls /\ Creates(h) /\ at[h] = "answered" /\ Issued(h)
<1> USE DEF Control, Typed, Closing, Targets
<1>1. CASE AgentCreateAgain(c)
  BY <1>1, Requests, Handlers, LifeMoves DEF AgentCreateAgain
<1>2. CASE AgentCreate(c)
  BY <1>2, Requests, Handlers, LifeMoves DEF AgentCreate
<1>3. CASE CreateEnter(c)
  BY <1>3, Requests, Handlers, LifeMoves DEF CreateEnter
<1>4. CASE CreateAdmit(c)
  BY <1>4, Requests, Handlers, LifeMoves DEF CreateAdmit, AgentFree
<1>5. CASE Insert(c)
  BY <1>5, Requests, Handlers, LifeMoves DEF Insert
<1>6. CASE Reserve(c)
  BY <1>6, Requests, Handlers, LifeMoves DEF Reserve
<1>7. CASE ReserveRollback(c)
  BY <1>7, Requests, Handlers, LifeMoves DEF ReserveRollback
<1>8. CASE Register(c)
  BY <1>8, Requests, Handlers, LifeMoves DEF Register
<1>9. CASE Persist(c)
  BY <1>9, Requests, Handlers, LifeMoves DEF Persist
<1>10. CASE CreateUndo(c)
  BY <1>10, Requests, Handlers, LifeMoves DEF CreateUndo
<1>11. CASE CloseEnter(c)
  <2>1. CASE ~Live(Named(c))
    BY <1>11, <2>1, Requests DEF CloseEnter
  <2>2. CASE Live(Named(c))
    <3>1. Named(c) \in Calls /\ Creates(Named(c)) /\ at[Named(c)] = "answered"
      BY <1>11, Requests, NoneAssumption DEF CloseEnter, Named, Responses, Response
    <3>2. target'[c] = Named(c) /\ life'[Named(c)] = "closing" /\ todo' = todo
      BY <1>11, <2>2, <3>1 DEF CloseEnter, MarkClosing
    <3> QED
      BY <3>1, <3>2
  <2> QED
    BY <2>1, <2>2
<1>12. CASE CloseLock(c)
  BY <1>12, Requests, Handlers, LifeMoves DEF CloseLock, CloseReturns, SessionFree
<1>13. CASE CloseFacade(c)
  BY <1>13, Requests, Handlers, LifeMoves DEF CloseFacade, CloseFails, CloseReturns,
       UnlocksSession
<1>14. CASE CloseAcp(c)
  BY <1>14, Requests, Handlers, LifeMoves DEF CloseAcp, CloseFails, CloseReturns, UnlocksSession
<1>15. CASE CloseSettle(c)
  BY <1>15, Requests, Handlers, LifeMoves DEF CloseSettle, CloseFails, CloseReturns,
       UnlocksSession
<1>16. CASE AgentCloseEnter(c)
  BY <1>16, Requests, Handlers, LifeMoves DEF AgentCloseEnter
<1>17. CASE AgentCloseLock(c)
  <2>1. CASE UNCHANGED todo
    BY <1>17, <2>1, Requests DEF AgentCloseLock
  <2>2. CASE todo' = [todo EXCEPT ![c] = SessionsOf(AgentOf(c))] /\ at'[c] = "cascade"
    <3>1. ASSUME NEW h \in SessionsOf(AgentOf(c))
          PROVE  Creates(h) /\ at[h] = "answered" /\ Issued(h)
      <4>1. at[h] \notin Creating
        BY <1>17, Requests, NoCreateUnderLock DEF AgentCloseLock, AgentFree, SessionsOf
      <4> QED
        BY <3>1, <4>1, Requests DEF SessionsOf, Live, Issued, Lives, LifeOf, Routes
    <3> QED
      BY <2>2, <3>1 DEF SessionsOf
  <2> QED
    BY <1>17, <2>1, <2>2 DEF AgentCloseLock
<1>18. CASE CascadeNext(c)
  <2>1. PICK h \in todo[c] :
          /\ todo' = [todo EXCEPT ![c] = @ \ {h}]
          /\ \/ Live(h) /\ MarkClosing(h) /\ target' = [target EXCEPT ![c] = h] /\ Moves(c, "wait")
             \/ ~Live(h) /\ at' = at
    BY <1>18 DEF CascadeNext
  <2> QED
    BY <1>18, <2>1 DEF CascadeNext, MarkClosing, Live
<1>19. CASE AgentRelease(c)
  BY <1>19, Requests, Handlers, LifeMoves DEF AgentRelease
<1> QED
  BY <1>1, <1>2, <1>3, <1>4, <1>5, <1>6, <1>7, <1>8, <1>9, <1>10, <1>11, <1>12, <1>13, <1>14,
       <1>15, <1>16, <1>17, <1>18, <1>19 DEF Handler

LEMMA StepTargets ==
  ASSUME Control, Targets, AgentLocks, NEW c \in Calls, Handler(c)
  PROVE  Targets'
<1> SUFFICES ASSUME NEW d \in Calls
             PROVE  /\ at'[d] \in {"wait"} \cup Closing =>
                         /\ target'[d] \in Calls /\ Creates(target'[d]) /\ at'[target'[d]] = "answered"
                         /\ life'[target'[d]] \in {"closing", "released"}
                    /\ \A h \in todo'[d] : Creates(h) /\ at'[h] = "answered" /\ Issued(h)'
  BY DEF Targets
<1>1. CASE d = c
  BY <1>1, TargetOfCaller, OthersAnswered, IssuedStays DEF Control
<1>2. CASE d # c
  <2>1. at'[d] = at[d] /\ target'[d] = target[d] /\ todo'[d] = todo[d] /\ todo[d] \subseteq Calls
    BY <1>2, Elsewhere DEF Control, Typed
  <2>2. \A h \in Calls : life[h] \in {"closing", "released"} => life'[h] \in {"closing", "released"}
    BY LifeMoves DEF Control, Live
  <2> QED
    BY <2>1, <2>2, OthersAnswered, IssuedStays DEF Targets, Control
<1> QED
  BY <1>1, <1>2

\* Sessions become live only in the hands of a create, which holds the lock.
LEMMA SessionsGrow ==
  ASSUME Control, Targets, NEW c \in Calls, Handler(c), NEW d \in Calls, ClosesAgent(d),
         AgentLocks, HoldsAgent(d) \/ (at[d] = "lock" /\ agentLock[AgentOf(d)] = None),
         NEW h \in Calls, Creates(h), Live(h)', AgentOf(h)' = AgentOf(d)'
  PROVE  h \in SessionsOf(AgentOf(d))
<1>1. AgentOf(d)' = AgentOf(d) /\ AgentOf(d) \in Calls
  BY AgentStays, AgentsOf, Requests DEF HoldsAgent, Closing, Control
<1>2. CASE at[h] = "unsent"
  BY <1>2, LifeMoves, Requests DEF Live, Lives, LifeOf, Control
<1>3. CASE at[h] # "unsent"
  <2>1. AgentOf(h)' = AgentOf(h)
    BY <1>3, AgentStays
  <2>2. Live(h) \/ (h = c /\ at[h] = "register")
    BY <1>3, LifeMoves, Requests DEF Live, Control
  <2>3. ~(h = c /\ at[h] = "register")
    <3>1. HoldsAgent(h) <=> at[h] \in Creating
      BY Requests DEF HoldsAgent
    <3>2. h # d /\ AgentOf(h) = AgentOf(d) /\ AgentOf(d) \in Calls
      BY <1>1, <2>1, Requests
    <3>3. ~HoldsAgent(h)
      BY <3>2, NoneAssumption DEF AgentLocks
    <3> QED
      BY <3>1, <3>3 DEF Creating
  <2> QED
    BY <1>1, <2>1, <2>2, <2>3 DEF SessionsOf
<1> QED
  BY <1>2, <1>3

LEMMA FailureIsKept ==
  ASSUME Typed, NEW c \in Calls, CloseFails(c)
  PROVE  erred'[c]
BY DEF Typed, CloseFails, CloseReturns

LEMMA CascadeOfCaller ==
  ASSUME NEW c \in Calls, Control, AgentLocks, Targets, Remembers, Cascades, Handler(c)
  PROVE  ClosesAgent(c) /\ HoldsAgent(c)' /\ ~erred'[c] =>
           \A h \in SessionsOf(AgentOf(c)) : Live(h)' => h \in todo'[c] \/ (h = target'[c] /\ at'[c] # "cascade")
<1> USE DEF Control, Typed, Closing, HoldsAgent
<1>0. ClosesAgent(c) /\ at[c] \in {"cascade", "wait"} \cup Closing /\ ~erred[c] =>
        \A h \in SessionsOf(AgentOf(c)) : h \in todo[c] \/ (h = target[c] /\ at[c] # "cascade")
  BY DEF Cascades
<1>1. CASE AgentCreateAgain(c)
  BY <1>1, Requests, Handlers, <1>0 DEF AgentCreateAgain
<1>2. CASE AgentCreate(c)
  BY <1>2, Requests, Handlers, <1>0 DEF AgentCreate
<1>3. CASE CreateEnter(c)
  BY <1>3, Requests, Handlers, <1>0 DEF CreateEnter
<1>4. CASE CreateAdmit(c)
  BY <1>4, Requests, Handlers, <1>0 DEF CreateAdmit, AgentFree
<1>5. CASE Insert(c)
  BY <1>5, Requests, Handlers, <1>0 DEF Insert
<1>6. CASE Reserve(c)
  BY <1>6, Requests, Handlers, <1>0 DEF Reserve
<1>7. CASE ReserveRollback(c)
  BY <1>7, Requests, Handlers, <1>0 DEF ReserveRollback
<1>8. CASE Register(c)
  BY <1>8, Requests, Handlers, <1>0 DEF Register
<1>9. CASE Persist(c)
  BY <1>9, Requests, Handlers, <1>0 DEF Persist, Release
<1>10. CASE CreateUndo(c)
  BY <1>10, Requests, Handlers, <1>0 DEF CreateUndo
<1>11. CASE CloseEnter(c)
  BY <1>11, Requests, Handlers, <1>0 DEF CloseEnter, Named
<1>12. CASE CloseLock(c)
  BY <1>12, Requests, Handlers, <1>0 DEF CloseLock, CloseReturns, SessionFree, IsClosed,
       Remembers, Targets, Live
<1>13. CASE CloseFacade(c)
  BY <1>13, Requests, Handlers, <1>0, FailureIsKept DEF CloseFacade, CloseFails, CloseReturns,
       UnlocksSession
<1>14. CASE CloseAcp(c)
  BY <1>14, Requests, Handlers, <1>0, FailureIsKept DEF CloseAcp, CloseFails, CloseReturns,
       UnlocksSession
<1>15. CASE CloseSettle(c)
  BY <1>15, Requests, Handlers, <1>0, FailureIsKept DEF CloseSettle, CloseFails, CloseReturns,
       UnlocksSession, RegistryClose, Release, Live, Targets
<1>16. CASE AgentCloseEnter(c)
  BY <1>16, Requests, Handlers, <1>0 DEF AgentCloseEnter
<1>17. CASE AgentCloseLock(c)
  BY <1>17, Requests, Handlers, <1>0 DEF AgentCloseLock, AgentFree
<1>18. CASE CascadeNext(c)
  <2>1. PICK h \in todo[c] :
          /\ todo' = [todo EXCEPT ![c] = @ \ {h}]
          /\ \/ /\ Live(h) /\ target' = [target EXCEPT ![c] = h] /\ Moves(c, "wait")
                /\ UNCHANGED erred
             \/ /\ ~Live(h) /\ UNCHANGED <<life, target, at>>
                /\ erred' = [erred EXCEPT ![c] = @ \/ ~IsClosed(h)]
    BY <1>18 DEF CascadeNext
  <2> QED
    BY <1>18, <1>0, <2>1, Handlers DEF CascadeNext, Live
<1>19. CASE AgentRelease(c)
  BY <1>19, Requests, Handlers, <1>0 DEF AgentRelease, RegistryClose, Release
<1> QED
  BY <1>1, <1>2, <1>3, <1>4, <1>5, <1>6, <1>7, <1>8, <1>9, <1>10, <1>11, <1>12, <1>13, <1>14,
       <1>15, <1>16, <1>17, <1>18, <1>19 DEF Handler

LEMMA StepCascades ==
  ASSUME Control, AgentLocks, Targets, Remembers, Cascades, NEW c \in Calls, Handler(c)
  PROVE  Cascades'
<1> SUFFICES ASSUME NEW d \in Calls, ClosesAgent(d), HoldsAgent(d)', ~erred'[d],
                    NEW h \in Calls, Creates(h), Live(h)', AgentOf(h)' = AgentOf(d)'
             PROVE  h \in todo'[d] \/ (h = target'[d] /\ at'[d] # "cascade")
  BY DEF Cascades, SessionsOf
<1>1. HoldsAgent(d) \/ (at[d] = "lock" /\ agentLock[AgentOf(d)] = None)
  <2>1. CASE d = c
    BY <2>1, AgentLockMoves
  <2>2. CASE d # c
    BY <2>2, Elsewhere DEF HoldsAgent, Control
  <2> QED
    BY <2>1, <2>2
<1>2. h \in SessionsOf(AgentOf(d))
  BY <1>1, SessionsGrow
<1>3. CASE d = c
  BY <1>2, <1>3, CascadeOfCaller
<1>4. CASE d # c
  <2>1. at'[d] = at[d] /\ target'[d] = target[d] /\ todo'[d] = todo[d] /\ erred'[d] = erred[d]
    BY <1>4, Elsewhere DEF Control
  <2> QED
    BY <1>2, <2>1 DEF Cascades, HoldsAgent
<1> QED
  BY <1>3, <1>4

-----------------------------------------------------------------------------
(* Agents are released by their cascade, and then they are empty.          *)

LEMMA AgentReleases ==
  ASSUME NEW c \in Calls, Control, Targets, NEW a \in Calls, IsAgent(a), life[a] # "released",
         life'[a] = "released", Handler(c)
  PROVE  /\ ClosesAgent(c) /\ HoldsAgent(c) /\ at[c] = "cascade" /\ todo[c] = {} /\ ~erred[c]
         /\ a = AgentOf(c) /\ at'[c] = "answered" /\ \A h \in Calls \ {a} : life'[h] = life[h]
<1> USE DEF Control, Typed, HoldsAgent
<1>1. CASE AgentCreateAgain(c)
  BY <1>1, Requests, Handlers DEF AgentCreateAgain
<1>2. CASE AgentCreate(c)
  BY <1>2, Requests, Handlers DEF AgentCreate
<1>3. CASE CreateEnter(c)
  BY <1>3, Requests, Handlers DEF CreateEnter
<1>4. CASE CreateAdmit(c)
  BY <1>4, Requests, Handlers DEF CreateAdmit, AgentFree, AgentClosing, Unloadable
<1>5. CASE Insert(c)
  BY <1>5, Requests, Handlers DEF Insert, Dissociates, UnlocksAgent
<1>6. CASE Reserve(c)
  BY <1>6, Requests, Handlers DEF Reserve, Dissociates
<1>7. CASE ReserveRollback(c)
  BY <1>7, Requests, Handlers DEF ReserveRollback, Dissociates, UnlocksAgent
<1>8. CASE Register(c)
  BY <1>8, Requests, Handlers DEF Register, Registrable, AgentClosing
<1>9. CASE Persist(c)
  BY <1>9, Requests, Handlers DEF Persist, UnlocksAgent, Release
<1>10. CASE CreateUndo(c)
  BY <1>10, Requests, Handlers DEF CreateUndo, UnlocksAgent
<1>11. CASE CloseEnter(c)
  BY <1>11, Requests, Handlers DEF CloseEnter, MarkClosing, Named
<1>12. CASE CloseLock(c)
  BY <1>12, Requests, Handlers DEF CloseLock, CloseReturns, SessionFree
<1>13. CASE CloseFacade(c)
  BY <1>13, Requests, Handlers DEF CloseFacade, CloseFails, CloseReturns, UnlocksSession
<1>14. CASE CloseAcp(c)
  BY <1>14, Requests, Handlers DEF CloseAcp, CloseFails, CloseReturns, UnlocksSession
<1>15. CASE CloseSettle(c)
  BY <1>15, Requests, Handlers DEF CloseSettle, CloseFails, CloseReturns, UnlocksSession,
       RegistryClose, Release, Targets, Closing
<1>16. CASE AgentCloseEnter(c)
  BY <1>16, Requests, Handlers DEF AgentCloseEnter
<1>17. CASE AgentCloseLock(c)
  BY <1>17, Requests, Handlers DEF AgentCloseLock, AgentFree, MarkClosing
<1>18. CASE CascadeNext(c)
  BY <1>18, Requests, Handlers DEF CascadeNext, MarkClosing
<1>19. CASE AgentRelease(c)
  BY <1>19, Requests, Handlers DEF AgentRelease, RegistryClose, Release, UnlocksAgent
<1> QED
  BY <1>1, <1>2, <1>3, <1>4, <1>5, <1>6, <1>7, <1>8, <1>9, <1>10, <1>11, <1>12, <1>13, <1>14,
       <1>15, <1>16, <1>17, <1>18, <1>19 DEF Handler

LEMMA CreateIsRefused ==
  ASSUME NEW c \in Calls, Control, Targets, Creates(c),
         at[c] = "unsent" \/ (at[c] = "lock" /\ life[AgentOf(c)] = "released"), Handler(c)
  PROVE  at'[c] \in {"unsent", "lock", "answered"}
<1> USE DEF Control, Typed
<1>1. CASE AgentCreateAgain(c)
  BY <1>1, Requests, Handlers DEF AgentCreateAgain
<1>2. CASE AgentCreate(c)
  BY <1>2, Requests, Handlers DEF AgentCreate
<1>3. CASE CreateEnter(c)
  BY <1>3, Requests, Handlers DEF CreateEnter
<1>4. CASE CreateAdmit(c)
  BY <1>4, Requests, Handlers DEF CreateAdmit, AgentFree, AgentClosing
<1>5. CASE Insert(c)
  BY <1>5, Requests, Handlers DEF Insert
<1>6. CASE Reserve(c)
  BY <1>6, Requests, Handlers DEF Reserve
<1>7. CASE ReserveRollback(c)
  BY <1>7, Requests, Handlers DEF ReserveRollback
<1>8. CASE Register(c)
  BY <1>8, Requests, Handlers DEF Register, AgentClosing
<1>9. CASE Persist(c)
  BY <1>9, Requests, Handlers DEF Persist
<1>10. CASE CreateUndo(c)
  BY <1>10, Requests, Handlers DEF CreateUndo
<1>11. CASE CloseEnter(c)
  BY <1>11, Requests, Handlers DEF CloseEnter, Named
<1>12. CASE CloseLock(c)
  BY <1>12, Requests, Handlers DEF CloseLock, CloseReturns, SessionFree
<1>13. CASE CloseFacade(c)
  BY <1>13, Requests, Handlers DEF CloseFacade, CloseFails, CloseReturns, UnlocksSession
<1>14. CASE CloseAcp(c)
  BY <1>14, Requests, Handlers DEF CloseAcp, CloseFails, CloseReturns, UnlocksSession
<1>15. CASE CloseSettle(c)
  BY <1>15, Requests, Handlers DEF CloseSettle, CloseFails, CloseReturns, UnlocksSession
<1>16. CASE AgentCloseEnter(c)
  BY <1>16, Requests, Handlers DEF AgentCloseEnter
<1>17. CASE AgentCloseLock(c)
  BY <1>17, Requests, Handlers DEF AgentCloseLock, AgentFree
<1>18. CASE CascadeNext(c)
  BY <1>18, Requests, Handlers DEF CascadeNext
<1>19. CASE AgentRelease(c)
  BY <1>19, Requests, Handlers DEF AgentRelease
<1> QED
  BY <1>1, <1>2, <1>3, <1>4, <1>5, <1>6, <1>7, <1>8, <1>9, <1>10, <1>11, <1>12, <1>13, <1>14,
       <1>15, <1>16, <1>17, <1>18, <1>19 DEF Handler

LEMMA StepReleased ==
  ASSUME Control, AgentLocks, Targets, Cascades, ReleasedAgentIsEmpty, NEW c \in Calls, Handler(c)
  PROVE  ReleasedAgentIsEmpty'
<1> SUFFICES ASSUME NEW a \in Calls, life'[a] = "released", ~Creates(a),
                    NEW e \in Calls, Creates(e), AgentOf(e)' = a
             PROVE  ~Live(e)' /\ at'[e] \in {"unsent", "lock", "answered"}
  BY DEF ReleasedAgentIsEmpty
<1>1. IsAgent(a)
  BY LifeMoves DEF Control, Lives, LifeOf, Issued, Live
<1>2. at[e] = "unsent" \/ AgentOf(e) = a
  BY AgentStays
<1>3. at[e] \in {"unsent", "lock", "answered"} /\ ~Live(e)
  <2>1. CASE at[e] = "unsent"
    BY <2>1 DEF Control, Lives, LifeOf, Live
  <2>2. CASE AgentOf(e) = a /\ life[a] = "released"
    BY <2>2 DEF ReleasedAgentIsEmpty
  <2>3. CASE AgentOf(e) = a /\ life[a] # "released" /\ at[e] # "unsent"
    <3>1. ClosesAgent(c) /\ HoldsAgent(c) /\ at[c] = "cascade" /\ todo[c] = {} /\ ~erred[c] /\ a = AgentOf(c)
      BY <1>1, <2>3, AgentReleases
    <3>2. SessionsOf(a) = {}
      BY <3>1 DEF Cascades
    <3>3. at[e] \notin Creating
      BY <2>3, <3>1, NoCreateUnderLock, Requests
    <3> QED
      BY <2>3, <3>2, <3>3, Requests DEF SessionsOf, Control, Routes
  <2> QED
    BY <1>2, <2>1, <2>2, <2>3
<1>4. ~Live(e)'
  BY <1>3, LifeMoves, Requests DEF Control, Live
<1>5. CASE e # c
  BY <1>3, <1>4, <1>5, Elsewhere DEF Control
<1>6. CASE e = c
  <2>1. at[e] # "answered"
    BY <1>6, Elsewhere DEF Control
  <2>2. at[e] = "lock" => life[a] = "released"
    BY <1>1, <1>2, <1>6, AgentReleases, Requests
  <2> QED
    BY <1>2, <1>3, <1>4, <1>6, <2>1, <2>2, CreateIsRefused
<1> QED
  BY <1>5, <1>6

-----------------------------------------------------------------------------
(* What the registry remembers, and how much.                              *)

Tombstones == Seq([kind : Kinds, of : Calls])

\* The registry keeps the newest of its entries, and no more than it may.
LEMMA BoundedKeepsNewest ==
  ASSUME NEW S, NEW entries \in Seq(S)
  PROVE  /\ Bounded(entries) \in Seq(S) /\ Len(Bounded(entries)) <= MaxHandles
         /\ \A i \in DOMAIN Bounded(entries) : \E j \in DOMAIN entries : Bounded(entries)[i] = entries[j]
<1>1. CASE Len(entries) <= MaxHandles
  BY <1>1, BoundsAssumption DEF Bounded
<1>2. CASE Len(entries) > MaxHandles
  <2> DEFINE m == Len(entries) - MaxHandles + 1
  <2>1. Bounded(entries) = SubSeq(entries, m, Len(entries))
    BY <1>2, BoundsAssumption DEF Bounded
  <2>2. m \in 1..Len(entries) /\ Len(entries) \in Nat /\ Len(entries) - m + 1 = MaxHandles
    BY <1>2, BoundsAssumption
  <2>3. SubSeq(entries, m, Len(entries)) \in Seq(S)
    BY <2>2
  <2>4. Len(SubSeq(entries, m, Len(entries))) = MaxHandles
    BY <2>2
  <2>5. ASSUME NEW i \in 1..MaxHandles
        PROVE  SubSeq(entries, m, Len(entries))[i] = entries[m + i - 1] /\ m + i - 1 \in DOMAIN entries
    BY <2>2, BoundsAssumption
  <2> QED
    <3>1. DOMAIN SubSeq(entries, m, Len(entries)) = 1..MaxHandles
      BY <2>3, <2>4
    <3>2. \A i \in 1..MaxHandles : \E j \in DOMAIN entries : SubSeq(entries, m, Len(entries))[i] = entries[j]
      BY <2>5
    <3>3. MaxHandles <= MaxHandles
      BY BoundsAssumption
    <3> HIDE DEF m
    <3> QED
      BY <2>1, <2>3, <2>4, <3>1, <3>2, <3>3, Zenon
<1> QED
  BY <1>1, <1>2, BoundsAssumption

LEMMA BuriesNewest ==
  ASSUME tombstones \in Tombstones, NEW h \in Calls, NEW e, e = Bounded(tombstones \o Buried(h))
  PROVE  /\ e \in Tombstones /\ Len(e) <= MaxHandles
         /\ \A i \in DOMAIN e : e[i].of = h \/ \E j \in DOMAIN tombstones : e[i] = tombstones[j]
<1>1. Buried(h) \in Tombstones /\ \A i \in DOMAIN Buried(h) : Buried(h)[i].of = h
  <2>1. \A k \in Kinds : [kind |-> k, of |-> h] \in [kind : Kinds, of : Calls]
    OBVIOUS
  <2>2. "session" \in Kinds /\ "agent" \in Kinds /\ "task_run" \in Kinds
    BY DEF Kinds
  <2> DEFINE E == [kind : Kinds, of : Calls]
  <2>3. \A k \in Kinds : [kind |-> k, of |-> h] \in E /\ [kind |-> k, of |-> h].of = h
    BY <2>1
  <2> HIDE DEF E
  <2>4. Buried(h) \in Seq(E)
    BY <2>2, <2>3 DEF Buried
  <2>5. \A i \in DOMAIN Buried(h) : Buried(h)[i].of = h
    BY DEF Buried
  <2> QED
    BY <2>4, <2>5 DEF Tombstones, E
<1>2. tombstones \o Buried(h) \in Tombstones
  BY <1>1 DEF Tombstones
<1>3. ASSUME NEW j \in DOMAIN (tombstones \o Buried(h))
      PROVE  LET f == (tombstones \o Buried(h))[j] IN
             f.of = h \/ \E k \in DOMAIN tombstones : f = tombstones[k]
  <2>1. CASE j \in 1..Len(tombstones)
    BY <2>1 DEF Tombstones
  <2>2. CASE j \notin 1..Len(tombstones)
    <3>1. j - Len(tombstones) \in DOMAIN Buried(h)
      BY <1>1, <2>2 DEF Tombstones
    <3>2. (tombstones \o Buried(h))[j] = Buried(h)[j - Len(tombstones)]
      BY <1>1, <2>2 DEF Tombstones
    <3> QED
      BY <1>1, <3>1, <3>2
  <2> QED
    BY <2>1, <2>2
<1>4. /\ e \in Tombstones /\ Len(e) <= MaxHandles
      /\ \A i \in DOMAIN e : \E j \in DOMAIN (tombstones \o Buried(h)) : e[i] = (tombstones \o Buried(h))[j]
  BY <1>2, BoundedKeepsNewest DEF Tombstones
<1> QED
  BY <1>3, <1>4

LEMMA TombstoneMoves ==
  ASSUME NEW c \in Calls, Control, Targets, Handler(c)
  PROVE  UNCHANGED tombstones \/ \E h \in Calls : life'[h] = "released" /\ tombstones' = Bounded(tombstones \o Buried(h))
<1> USE DEF Control, Typed
<1>1. CASE AgentCreateAgain(c)
  BY <1>1, Requests, Handlers, AgentsOf DEF AgentCreateAgain
<1>2. CASE AgentCreate(c)
  BY <1>2, Requests, Handlers, AgentsOf DEF AgentCreate
<1>3. CASE CreateEnter(c)
  BY <1>3, Requests, Handlers, AgentsOf DEF CreateEnter
<1>4. CASE CreateAdmit(c)
  BY <1>4, Requests, Handlers, AgentsOf DEF CreateAdmit, AgentFree, AgentClosing, Unloadable
<1>5. CASE Insert(c)
  BY <1>5, Requests, Handlers, AgentsOf DEF Insert, Dissociates, UnlocksAgent
<1>6. CASE Reserve(c)
  BY <1>6, Requests, Handlers, AgentsOf DEF Reserve, Dissociates
<1>7. CASE ReserveRollback(c)
  BY <1>7, Requests, Handlers, AgentsOf DEF ReserveRollback, Dissociates, UnlocksAgent
<1>8. CASE Register(c)
  BY <1>8, Requests, Handlers, AgentsOf DEF Register, Registrable, AgentClosing
<1>9. CASE Persist(c)
  BY <1>9, Requests, Handlers, AgentsOf DEF Persist, UnlocksAgent, Release
<1>10. CASE CreateUndo(c)
  BY <1>10, Requests, Handlers, AgentsOf DEF CreateUndo, UnlocksAgent
<1>11. CASE CloseEnter(c)
  BY <1>11, Requests, Handlers, AgentsOf DEF CloseEnter, MarkClosing, Named
<1>12. CASE CloseLock(c)
  BY <1>12, Requests, Handlers, AgentsOf DEF CloseLock, CloseReturns, SessionFree
<1>13. CASE CloseFacade(c)
  BY <1>13, Requests, Handlers, AgentsOf DEF CloseFacade, CloseFails, CloseReturns, UnlocksSession
<1>14. CASE CloseAcp(c)
  BY <1>14, Requests, Handlers, AgentsOf DEF CloseAcp, CloseFails, CloseReturns, UnlocksSession
<1>15. CASE CloseSettle(c)
  BY <1>15, Requests, Handlers, AgentsOf DEF CloseSettle, CloseFails, CloseReturns,
       UnlocksSession, RegistryClose, Release, Targets, Closing
<1>16. CASE AgentCloseEnter(c)
  BY <1>16, Requests, Handlers, AgentsOf DEF AgentCloseEnter
<1>17. CASE AgentCloseLock(c)
  BY <1>17, Requests, Handlers, AgentsOf DEF AgentCloseLock, AgentFree, MarkClosing
<1>18. CASE CascadeNext(c)
  BY <1>18, Requests, Handlers, AgentsOf DEF CascadeNext, MarkClosing
<1>19. CASE AgentRelease(c)
  BY <1>19, Requests, Handlers, AgentsOf DEF AgentRelease, RegistryClose, Release, UnlocksAgent
<1> QED
  BY <1>1, <1>2, <1>3, <1>4, <1>5, <1>6, <1>7, <1>8, <1>9, <1>10, <1>11, <1>12, <1>13, <1>14,
       <1>15, <1>16, <1>17, <1>18, <1>19 DEF Handler

LEMMA RememberMoves ==
  ASSUME NEW c \in Calls, Typed, Handler(c)
  PROVE  \/ UNCHANGED idempotency
         \/ \E oldest \in Evicted : /\ idempotency' = Remembered(Request[c].key, oldest, c)
                                    /\ IsAgent(c) /\ life'[c] = "open" /\ Request[c].key \in Keys \ DOMAIN idempotency
<1> USE DEF Typed
<1>1. CASE AgentCreateAgain(c)
  BY <1>1, Requests DEF AgentCreateAgain
<1>2. CASE AgentCreate(c)
  BY <1>2, Requests DEF AgentCreate
<1>3. CASE CreateEnter(c)
  BY <1>3, Requests DEF CreateEnter
<1>4. CASE CreateAdmit(c)
  BY <1>4, Requests DEF CreateAdmit, AgentFree, AgentClosing, Unloadable
<1>5. CASE Insert(c)
  BY <1>5, Requests DEF Insert, Dissociates, UnlocksAgent
<1>6. CASE Reserve(c)
  BY <1>6, Requests DEF Reserve, Dissociates
<1>7. CASE ReserveRollback(c)
  BY <1>7, Requests DEF ReserveRollback, Dissociates, UnlocksAgent
<1>8. CASE Register(c)
  BY <1>8, Requests DEF Register, Registrable, AgentClosing
<1>9. CASE Persist(c)
  BY <1>9, Requests DEF Persist, UnlocksAgent, Release
<1>10. CASE CreateUndo(c)
  BY <1>10, Requests DEF CreateUndo, UnlocksAgent
<1>11. CASE CloseEnter(c)
  BY <1>11, Requests DEF CloseEnter, MarkClosing, Named
<1>12. CASE CloseLock(c)
  BY <1>12, Requests DEF CloseLock, CloseReturns, SessionFree
<1>13. CASE CloseFacade(c)
  BY <1>13, Requests DEF CloseFacade, CloseFails, CloseReturns, UnlocksSession
<1>14. CASE CloseAcp(c)
  BY <1>14, Requests DEF CloseAcp, CloseFails, CloseReturns, UnlocksSession
<1>15. CASE CloseSettle(c)
  BY <1>15, Requests DEF CloseSettle, CloseFails, CloseReturns, UnlocksSession, RegistryClose,
       Release
<1>16. CASE AgentCloseEnter(c)
  BY <1>16, Requests DEF AgentCloseEnter
<1>17. CASE AgentCloseLock(c)
  BY <1>17, Requests DEF AgentCloseLock, AgentFree, MarkClosing
<1>18. CASE CascadeNext(c)
  BY <1>18, Requests DEF CascadeNext, MarkClosing
<1>19. CASE AgentRelease(c)
  BY <1>19, Requests DEF AgentRelease, RegistryClose, Release, UnlocksAgent
<1> QED
  BY <1>1, <1>2, <1>3, <1>4, <1>5, <1>6, <1>7, <1>8, <1>9, <1>10, <1>11, <1>12, <1>13, <1>14,
       <1>15, <1>16, <1>17, <1>18, <1>19 DEF Handler

LEMMA StepRemembers ==
  ASSUME Control, Targets, Buries, Remembers, NEW c \in Calls, Handler(c)
  PROVE  Remembers' /\ (tombstones \in Tombstones /\ Len(tombstones) <= MaxHandles)'
<1>1. \A h \in Calls : life[h] = "released" => life'[h] = "released"
  BY LifeMoves DEF Control, Live
<1>2. tombstones \in Tombstones /\ \A i \in DOMAIN tombstones : tombstones[i].of \in Calls
  <2>1. tombstones \in Tombstones
    BY DEF Buries, Tombstones
  <2> DEFINE E == [kind : Kinds, of : Calls]
  <2>2. \A t \in E : t.of \in Calls
    OBVIOUS
  <2>3. tombstones \in Seq(E)
    BY <2>1 DEF Tombstones
  <2> HIDE DEF E
  <2>4. \A i \in DOMAIN tombstones : tombstones[i] \in E
    BY <2>3
  <2> QED
    BY <2>1, <2>2, <2>4
<1>3. /\ \A i \in DOMAIN tombstones' : life'[tombstones'[i].of] = "released"
      /\ tombstones' \in Tombstones /\ Len(tombstones') <= MaxHandles
  <2>1. CASE UNCHANGED tombstones
    BY <1>1, <1>2, <2>1 DEF Remembers, Buries
  <2>2. CASE ~UNCHANGED tombstones
    <3>1. PICK h \in Calls : life'[h] = "released" /\ tombstones' = Bounded(tombstones \o Buried(h))
      BY <2>2, TombstoneMoves
    <3> QED
      BY <1>1, <1>2, <3>1, BuriesNewest DEF Remembers
  <2> QED
    BY <2>1, <2>2
<1>4. \A k \in DOMAIN idempotency' : IsAgent(idempotency'[k]) /\ life'[idempotency'[k]] # "unissued"
  <2>0. /\ \A k \in DOMAIN idempotency : idempotency[k] \in Calls /\ IsAgent(idempotency[k])
        /\ \A k \in DOMAIN idempotency : life'[idempotency[k]] # "unissued"
    BY IssuedStays DEF Remembers, Control, Typed, Issued
  <2>1. CASE UNCHANGED idempotency
    BY <2>0, <2>1 
  <2>2. CASE ~UNCHANGED idempotency
    <3>1. PICK oldest : idempotency' = Remembered(Request[c].key, oldest, c) /\ IsAgent(c) /\ life'[c] = "open"
      BY <2>2, RememberMoves DEF Control
    <3> QED
      BY <2>0, <3>1 DEF Remembered
  <2> QED
    BY <2>1, <2>2
<1> QED
  BY <1>3, <1>4 DEF Remembers, Issued

\* At most one handle is issued in a step, and the budget admitted it.
LEMMA BudgetAdmits ==
  ASSUME NEW c \in Calls, Control, Targets, life[c] = "unissued", life'[c] = "open", Handler(c)
  PROVE  IF IsAgent(c) THEN WithinBudget(1) ELSE Creates(c) /\ WithinBudget(2)
<1> USE DEF Control, Typed
<1>1. CASE AgentCreateAgain(c)
  BY <1>1, Requests, Handlers, AgentsOf DEF AgentCreateAgain
<1>2. CASE AgentCreate(c)
  BY <1>2, Requests, Handlers, AgentsOf DEF AgentCreate
<1>3. CASE CreateEnter(c)
  BY <1>3, Requests, Handlers, AgentsOf DEF CreateEnter
<1>4. CASE CreateAdmit(c)
  BY <1>4, Requests, Handlers, AgentsOf DEF CreateAdmit, AgentFree, AgentClosing, Unloadable
<1>5. CASE Insert(c)
  BY <1>5, Requests, Handlers, AgentsOf DEF Insert, Dissociates, UnlocksAgent
<1>6. CASE Reserve(c)
  BY <1>6, Requests, Handlers, AgentsOf DEF Reserve, Dissociates
<1>7. CASE ReserveRollback(c)
  BY <1>7, Requests, Handlers, AgentsOf DEF ReserveRollback, Dissociates, UnlocksAgent
<1>8. CASE Register(c)
  BY <1>8, Requests, Handlers, AgentsOf DEF Register, Registrable, AgentClosing, Creating
<1>9. CASE Persist(c)
  BY <1>9, Requests, Handlers, AgentsOf DEF Persist, UnlocksAgent, Release
<1>10. CASE CreateUndo(c)
  BY <1>10, Requests, Handlers, AgentsOf DEF CreateUndo, UnlocksAgent
<1>11. CASE CloseEnter(c)
  BY <1>11, Requests, Handlers, AgentsOf DEF CloseEnter, MarkClosing, Named
<1>12. CASE CloseLock(c)
  BY <1>12, Requests, Handlers, AgentsOf DEF CloseLock, CloseReturns, SessionFree
<1>13. CASE CloseFacade(c)
  BY <1>13, Requests, Handlers, AgentsOf DEF CloseFacade, CloseFails, CloseReturns, UnlocksSession
<1>14. CASE CloseAcp(c)
  BY <1>14, Requests, Handlers, AgentsOf DEF CloseAcp, CloseFails, CloseReturns, UnlocksSession
<1>15. CASE CloseSettle(c)
  BY <1>15, Requests, Handlers, AgentsOf DEF CloseSettle, CloseFails, CloseReturns,
       UnlocksSession, RegistryClose, Release
<1>16. CASE AgentCloseEnter(c)
  BY <1>16, Requests, Handlers, AgentsOf DEF AgentCloseEnter
<1>17. CASE AgentCloseLock(c)
  BY <1>17, Requests, Handlers, AgentsOf DEF AgentCloseLock, AgentFree, MarkClosing
<1>18. CASE CascadeNext(c)
  BY <1>18, Requests, Handlers, AgentsOf DEF CascadeNext, MarkClosing
<1>19. CASE AgentRelease(c)
  BY <1>19, Requests, Handlers, AgentsOf DEF AgentRelease, RegistryClose, Release, UnlocksAgent
<1> QED
  BY <1>1, <1>2, <1>3, <1>4, <1>5, <1>6, <1>7, <1>8, <1>9, <1>10, <1>11, <1>12, <1>13, <1>14,
       <1>15, <1>16, <1>17, <1>18, <1>19 DEF Handler

LEMMA OneMore ==
  ASSUME NEW S, NEW T, NEW x, IsFiniteSet(S), T \subseteq S \cup {x}
  PROVE  /\ IsFiniteSet(T) /\ Cardinality(T) \in Nat /\ Cardinality(S) \in Nat
         /\ Cardinality(T) <= Cardinality(S) + 1
         /\ T \subseteq S => Cardinality(T) <= Cardinality(S)
<1>1. IsFiniteSet(S \cup {x}) /\ Cardinality(S \cup {x}) <= Cardinality(S) + 1 /\ Cardinality(S) \in Nat
  BY FS_AddElement, FS_CardinalityType
<1>2. IsFiniteSet(T) /\ Cardinality(T) <= Cardinality(S \cup {x}) /\ Cardinality(T) \in Nat
  BY <1>1, FS_Subset, FS_CardinalityType
<1>3. T \subseteq S => Cardinality(T) <= Cardinality(S)
  BY FS_Subset
<1>4. Cardinality(S \cup {x}) \in Nat
  BY <1>1, FS_CardinalityType
<1> QED
  BY <1>1, <1>2, <1>3, <1>4

LEMMA StepBudget ==
  ASSUME Control, Targets, Buries, NEW c \in Calls, Handler(c)
  PROVE  (OpenHandles <= MaxHandles)'
<1> DEFINE L == {h \in Calls : Live(h)}
           M == {h \in Calls : Live(h) /\ Creates(h)}
           K == {h \in Calls : Live(h)'}
           N == {h \in Calls : Live(h)' /\ Creates(h)}
<1>1. IsFiniteSet(L) /\ IsFiniteSet(M)
  BY FS_Subset, RequestAssumption
<1>2. K \subseteq L \cup {c} /\ N \subseteq M \cup {c}
  BY LifeMoves DEF Control, Live
<1>3. OpenHandles = 1 + Cardinality(L) + Cardinality(M) /\ OpenHandles' = 1 + Cardinality(K) + Cardinality(N)
  BY DEF OpenHandles
<1>4. OpenHandles <= MaxHandles /\ MaxHandles \in Nat
  BY BoundsAssumption DEF Buries
<1>5. CASE life[c] = "unissued" /\ life'[c] = "open"
  <2>1. IsAgent(c) => N \subseteq M
    BY <1>5, LifeMoves, Requests DEF Control, Live
  <2>2. IF IsAgent(c) THEN OpenHandles + 1 <= MaxHandles ELSE OpenHandles + 2 <= MaxHandles
    BY <1>5, BudgetAdmits DEF WithinBudget
  <2> HIDE DEF L, M, K, N
  <2>3. /\ Cardinality(K) \in Nat /\ Cardinality(L) \in Nat /\ Cardinality(K) <= Cardinality(L) + 1
        /\ Cardinality(N) \in Nat /\ Cardinality(M) \in Nat /\ Cardinality(N) <= Cardinality(M) + 1
        /\ N \subseteq M => Cardinality(N) <= Cardinality(M)
    BY <1>1, <1>2, OneMore
  <2> QED
    BY <1>3, <1>4, <2>1, <2>2, <2>3
<1>6. CASE ~(life[c] = "unissued" /\ life'[c] = "open")
  <2>1. K \subseteq L /\ N \subseteq M
    BY <1>6, LifeMoves DEF Control, Live
  <2> HIDE DEF L, M, K, N
  <2> QED
    BY <1>1, <1>2, <1>3, <1>4, <2>1, OneMore
<1> QED
  BY <1>5, <1>6

\* The key given up makes room for the new one.
LEMMA StepKeys ==
  ASSUME Control, Buries, NEW c \in Calls, Handler(c)
  PROVE  (IsFiniteSet(DOMAIN idempotency) /\ Cardinality(DOMAIN idempotency) <= MaxHandles)'
<1> DEFINE D == DOMAIN idempotency
<1>1. IsFiniteSet(D) /\ Cardinality(D) <= MaxHandles /\ Cardinality(D) \in Nat /\ MaxHandles \in Nat
  BY FS_CardinalityType, BoundsAssumption DEF Buries
<1>2. CASE UNCHANGED idempotency
  BY <1>1, <1>2
<1>3. CASE ~UNCHANGED idempotency
  <2>1. PICK oldest \in Evicted : idempotency' = Remembered(Request[c].key, oldest, c)
    BY <1>3, RememberMoves DEF Control
  <2>2. DOMAIN idempotency' = (D \ {oldest}) \cup {Request[c].key}
    BY <2>1 DEF Remembered
  <2>3. IsFiniteSet(D \ {oldest}) /\ Cardinality(D \ {oldest}) + 1 <= MaxHandles
    <3>1. CASE Cardinality(D) >= MaxHandles
      <4>1. oldest \in D
        BY <2>1, <3>1 DEF Evicted
      <4> HIDE DEF D
      <4>2. IsFiniteSet(D \ {oldest}) /\ Cardinality(D \ {oldest}) = Cardinality(D) - 1
        BY <1>1, <4>1, FS_RemoveElement
      <4> QED
        BY <1>1, <4>2
    <3>2. CASE ~(Cardinality(D) >= MaxHandles)
      <4>1. IsFiniteSet(D \ {oldest}) /\ Cardinality(D \ {oldest}) <= Cardinality(D) /\ Cardinality(D \ {oldest}) \in Nat
        BY <1>1, FS_Subset, FS_CardinalityType
      <4> QED
        BY <1>1, <3>2, <4>1
    <3> QED
      BY <3>1, <3>2
  <2> HIDE DEF D
  <2>4. /\ IsFiniteSet(DOMAIN idempotency') /\ Cardinality(DOMAIN idempotency') \in Nat
        /\ Cardinality(D \ {oldest}) \in Nat
        /\ Cardinality(DOMAIN idempotency') <= Cardinality(D \ {oldest}) + 1
    BY <2>2, <2>3, OneMore
  <2> QED
    BY <1>1, <2>3, <2>4
<1> QED
  BY <1>2, <1>3

LEMMA StepBuries ==
  ASSUME Control, Targets, Remembers, Buries, NEW c \in Calls, Handler(c)
  PROVE  Buries'
BY StepBudget, StepKeys, StepRemembers, Zenon DEF Buries, Tombstones

-----------------------------------------------------------------------------
(* ACP Sessions and their owners.                                          *)

Admitting == {"insert", "reserve", "rollback"}
Inserted == {"reserve", "rollback", "register", "persist", "undo"}

LEMMA AdmissionMoves ==
  ASSUME NEW c \in Calls, Control, Handler(c)
  PROVE  \/ UNCHANGED admissions /\ (at'[c] \in Admitting <=> at[c] \in Admitting)
         \/ /\ Creates(c) /\ at'[c] = "insert"
            /\ admissions' = [admissions EXCEPT ![SidOf(c)] = c]
         \/ /\ Creates(c) /\ at[c] \in Admitting
            /\ admissions' = [admissions EXCEPT ![SidOf(c)] = None]
<1> USE DEF Control, Typed, Admitting
<1>1. CASE AgentCreateAgain(c)
  BY <1>1, Requests, Handlers DEF AgentCreateAgain
<1>2. CASE AgentCreate(c)
  BY <1>2, Requests, Handlers DEF AgentCreate
<1>3. CASE CreateEnter(c)
  BY <1>3, Requests, Handlers DEF CreateEnter
<1>4. CASE CreateAdmit(c)
  BY <1>4, Requests, Handlers DEF CreateAdmit, AgentFree
<1>5. CASE Insert(c)
  BY <1>5, Requests, Handlers DEF Insert, Dissociates, Creating
<1>6. CASE Reserve(c)
  BY <1>6, Requests, Handlers DEF Reserve, Dissociates, Creating
<1>7. CASE ReserveRollback(c)
  BY <1>7, Requests, Handlers DEF ReserveRollback, Dissociates, Creating
<1>8. CASE Register(c)
  BY <1>8, Requests, Handlers DEF Register
<1>9. CASE Persist(c)
  BY <1>9, Requests, Handlers DEF Persist
<1>10. CASE CreateUndo(c)
  BY <1>10, Requests, Handlers DEF CreateUndo
<1>11. CASE CloseEnter(c)
  BY <1>11, Requests, Handlers DEF CloseEnter, Named
<1>12. CASE CloseLock(c)
  BY <1>12, Requests, Handlers DEF CloseLock, CloseReturns, SessionFree
<1>13. CASE CloseFacade(c)
  BY <1>13, Requests, Handlers DEF CloseFacade, CloseFails, CloseReturns, UnlocksSession
<1>14. CASE CloseAcp(c)
  BY <1>14, Requests, Handlers DEF CloseAcp, CloseFails, CloseReturns, UnlocksSession
<1>15. CASE CloseSettle(c)
  BY <1>15, Requests, Handlers DEF CloseSettle, CloseFails, CloseReturns, UnlocksSession
<1>16. CASE AgentCloseEnter(c)
  BY <1>16, Requests, Handlers DEF AgentCloseEnter
<1>17. CASE AgentCloseLock(c)
  BY <1>17, Requests, Handlers DEF AgentCloseLock, AgentFree
<1>18. CASE CascadeNext(c)
  BY <1>18, Requests, Handlers DEF CascadeNext
<1>19. CASE AgentRelease(c)
  BY <1>19, Requests, Handlers DEF AgentRelease
<1> QED
  BY <1>1, <1>2, <1>3, <1>4, <1>5, <1>6, <1>7, <1>8, <1>9, <1>10, <1>11, <1>12, <1>13, <1>14,
       <1>15, <1>16, <1>17, <1>18, <1>19 DEF Handler

LEMMA StepAdmissions ==
  ASSUME Control, Admissions, NEW c \in Calls, Handler(c)
  PROVE  Admissions'
<1> SUFFICES ASSUME NEW s \in Sids, admissions'[s] # None
             PROVE  /\ Creates(admissions'[s]) /\ SidOf(admissions'[s]) = s
                    /\ at'[admissions'[s]] \in Admitting
  BY DEF Admissions, Admitting
<1>1. admissions \in [Sids -> Calls \cup {None}] /\ at'[c] \in Places
  BY StepTypedCore DEF Control, Typed
<1>2. \A d \in Calls \ {c} : at'[d] = at[d]
  BY Elsewhere DEF Control
<1>3. admissions[s] # None => /\ Creates(admissions[s]) /\ SidOf(admissions[s]) = s /\ admissions[s] \in Calls
                              /\ at[admissions[s]] \in Admitting
  BY <1>1 DEF Admissions, Admitting
<1> QED
  BY <1>1, <1>2, <1>3, AdmissionMoves, Requests DEF Admitting

\* The steps that insert an ACP Session or take one away.
LEMMA SessionMoves ==
  ASSUME NEW c \in Calls, Control, Targets, Handler(c)
  PROVE  \/ UNCHANGED <<acp, services>> /\ at'[c] \notin {"settle", "reserve"}
         \/ /\ at[c] = "insert" /\ at'[c] = "reserve" /\ acp[SidOf(c)] = None
            /\ acp' = [acp EXCEPT ![SidOf(c)] = c] /\ services' = [services EXCEPT ![SidOf(c)] = c]
         \/ /\ at[c] \in {"rollback", "undo"} /\ at'[c] = "answered" /\ answer'[c] # "ok"
            /\ acp' = [acp EXCEPT ![SidOf(c)] = None]
            /\ services' \in {services, [services EXCEPT ![SidOf(c)] = None]}
         \/ /\ at[c] = "acp" /\ at'[c] = "settle" /\ target'[c] = target[c]
            /\ acp' = [acp EXCEPT ![SidOf(target[c])] = None] /\ services' = services
         \/ /\ at[c] = "settle" /\ at'[c] # "settle" /\ at'[c] # "reserve" /\ acp' = acp
            /\ services' = [services EXCEPT ![SidOf(target[c])] = None]
<1> USE DEF Control, Typed
<1>1. CASE AgentCreateAgain(c)
  BY <1>1 DEF AgentCreateAgain
<1>2. CASE AgentCreate(c)
  BY <1>2 DEF AgentCreate
<1>3. CASE CreateEnter(c)
  BY <1>3 DEF CreateEnter
<1>4. CASE CreateAdmit(c)
  BY <1>4 DEF CreateAdmit, AgentFree
<1>5. CASE Insert(c)
  BY <1>5 DEF Insert
<1>6. CASE Reserve(c)
  BY <1>6 DEF Reserve
<1>7. CASE ReserveRollback(c)
  BY <1>7 DEF ReserveRollback
<1>8. CASE Register(c)
  BY <1>8 DEF Register
<1>9. CASE Persist(c)
  BY <1>9 DEF Persist
<1>10. CASE CreateUndo(c)
  BY <1>10 DEF CreateUndo
<1>11. CASE CloseEnter(c)
  BY <1>11 DEF CloseEnter, Named
<1>12. CASE CloseLock(c)
  BY <1>12 DEF CloseLock, CloseReturns, SessionFree
<1>13. CASE CloseFacade(c)
  BY <1>13 DEF CloseFacade, CloseFails, CloseReturns, UnlocksSession
<1>14. CASE CloseAcp(c)
  BY <1>14 DEF CloseAcp, CloseFails, CloseReturns, UnlocksSession
<1>15. CASE CloseSettle(c)
  BY <1>15 DEF CloseSettle, CloseFails, CloseReturns, UnlocksSession
<1>16. CASE AgentCloseEnter(c)
  BY <1>16 DEF AgentCloseEnter
<1>17. CASE AgentCloseLock(c)
  BY <1>17 DEF AgentCloseLock, AgentFree
<1>18. CASE CascadeNext(c)
  BY <1>18 DEF CascadeNext
<1>19. CASE AgentRelease(c)
  BY <1>19 DEF AgentRelease
<1> QED
  BY <1>1, <1>2, <1>3, <1>4, <1>5, <1>6, <1>7, <1>8, <1>9, <1>10, <1>11, <1>12, <1>13, <1>14,
       <1>15, <1>16, <1>17, <1>18, <1>19 DEF Handler

LEMMA StepAcpOwners ==
  ASSUME Control, Targets, AcpOwners, NEW c \in Calls, Handler(c)
  PROVE  AcpOwners'
<1>1. acp \in [Sids -> Calls \cup {None}]
  BY DEF Control, Typed
<1>2. \A s \in Sids : acp[s] # None => Creates(acp[s]) /\ SidOf(acp[s]) = s
  BY DEF AcpOwners
<1>3. /\ at[c] = "insert" => Creates(c) /\ SidOf(c) \in Sids
      /\ \A d \in Calls : at[d] \in {"acp", "settle"} =>
           target[d] \in Calls /\ SidOf(target[d]) \in Sids /\ at[target[d]] = "answered"
  BY Handlers, Requests DEF Control, Creating, Targets, Closing
<1>4. \A s \in Sids : acp'[s] # None => Creates(acp'[s]) /\ SidOf(acp'[s]) = s
  BY <1>1, <1>2, <1>3, SessionMoves
<1>5. ASSUME NEW d \in Calls, at'[d] = "settle"
      PROVE  acp'[SidOf(target'[d])] # target'[d]
  <2>1. CASE d = c
    BY <1>1, <1>3, <1>5, <2>1, SessionMoves, NoneAssumption
  <2>2. CASE d # c
    <3>1. at[d] = "settle" /\ target'[d] = target[d]
      BY <1>5, <2>2, Elsewhere DEF Control
    <3>2. target[d] # c /\ acp[SidOf(target[d])] # target[d]
      BY <1>3, <3>1, Elsewhere DEF Control, AcpOwners
    <3> QED
      BY <1>1, <1>3, <3>1, <3>2, SessionMoves, NoneAssumption
  <2> QED
    BY <2>1, <2>2
<1> QED
  BY <1>4, <1>5 DEF AcpOwners

LEMMA OwnerOfCaller ==
  ASSUME NEW c \in Calls, Control, Targets, AcpOwners, Creates(c),
         Live(c) \/ at[c] \in Inserted, Handler(c)
  PROVE  \/ Live(c)' \/ at'[c] \in Inserted \/ answer'[c] = "cleanup_pending"
         \/ acp'[SidOf(c)] = None
<1> USE DEF Control, Typed, Live, Inserted
<1>1. CASE AgentCreateAgain(c)
  BY <1>1, Requests, Handlers DEF AgentCreateAgain
<1>2. CASE AgentCreate(c)
  BY <1>2, Requests, Handlers DEF AgentCreate
<1>3. CASE CreateEnter(c)
  BY <1>3, Requests, Handlers DEF CreateEnter
<1>4. CASE CreateAdmit(c)
  BY <1>4, Requests, Handlers DEF CreateAdmit, AgentFree, Unloadable
<1>5. CASE Insert(c)
  BY <1>5, Requests, Handlers DEF Insert
<1>6. CASE Reserve(c)
  BY <1>6, Requests, Handlers DEF Reserve
<1>7. CASE ReserveRollback(c)
  BY <1>7, Requests, Handlers DEF ReserveRollback
<1>8. CASE Register(c)
  BY <1>8, Requests, Handlers DEF Register
<1>9. CASE Persist(c)
  BY <1>9, Requests, Handlers DEF Persist, Release, Lives, LifeOf
<1>10. CASE CreateUndo(c)
  BY <1>10, Requests, Handlers DEF CreateUndo
<1>11. CASE CloseEnter(c)
  BY <1>11, Requests, Handlers DEF CloseEnter, Named
<1>12. CASE CloseLock(c)
  BY <1>12, Requests, Handlers DEF CloseLock, CloseReturns, SessionFree
<1>13. CASE CloseFacade(c)
  BY <1>13, Requests, Handlers DEF CloseFacade, CloseFails, CloseReturns, UnlocksSession
<1>14. CASE CloseAcp(c)
  BY <1>14, Requests, Handlers DEF CloseAcp, CloseFails, CloseReturns, UnlocksSession
<1>15. CASE CloseSettle(c)
  BY <1>15, Requests, Handlers DEF CloseSettle, CloseFails, CloseReturns, UnlocksSession,
       Release, Closing
<1>16. CASE AgentCloseEnter(c)
  BY <1>16, Requests, Handlers DEF AgentCloseEnter
<1>17. CASE AgentCloseLock(c)
  BY <1>17, Requests, Handlers DEF AgentCloseLock, AgentFree
<1>18. CASE CascadeNext(c)
  BY <1>18, Requests, Handlers DEF CascadeNext
<1>19. CASE AgentRelease(c)
  BY <1>19, Requests, Handlers DEF AgentRelease, Release
<1> QED
  BY <1>1, <1>2, <1>3, <1>4, <1>5, <1>6, <1>7, <1>8, <1>9, <1>10, <1>11, <1>12, <1>13, <1>14,
       <1>15, <1>16, <1>17, <1>18, <1>19 DEF Handler

LEMMA SessionReleases ==
  ASSUME NEW c \in Calls, Control, Targets, NEW h \in Calls, Creates(h), h # c,
         life[h] # "released", life'[h] = "released", Handler(c)
  PROVE  at[c] = "settle" /\ target[c] = h
<1> USE DEF Control, Typed
<1>1. CASE AgentCreateAgain(c)
  BY <1>1, Requests, Handlers, AgentsOf DEF AgentCreateAgain
<1>2. CASE AgentCreate(c)
  BY <1>2, Requests, Handlers, AgentsOf DEF AgentCreate
<1>3. CASE CreateEnter(c)
  BY <1>3, Requests, Handlers, AgentsOf DEF CreateEnter
<1>4. CASE CreateAdmit(c)
  BY <1>4, Requests, Handlers, AgentsOf DEF CreateAdmit, AgentFree, AgentClosing, Unloadable
<1>5. CASE Insert(c)
  BY <1>5, Requests, Handlers, AgentsOf DEF Insert, Dissociates, UnlocksAgent
<1>6. CASE Reserve(c)
  BY <1>6, Requests, Handlers, AgentsOf DEF Reserve, Dissociates
<1>7. CASE ReserveRollback(c)
  BY <1>7, Requests, Handlers, AgentsOf DEF ReserveRollback, Dissociates, UnlocksAgent
<1>8. CASE Register(c)
  BY <1>8, Requests, Handlers, AgentsOf DEF Register, Registrable, AgentClosing
<1>9. CASE Persist(c)
  BY <1>9, Requests, Handlers, AgentsOf DEF Persist, UnlocksAgent, Release
<1>10. CASE CreateUndo(c)
  BY <1>10, Requests, Handlers, AgentsOf DEF CreateUndo, UnlocksAgent
<1>11. CASE CloseEnter(c)
  BY <1>11, Requests, Handlers, AgentsOf DEF CloseEnter, MarkClosing, Named
<1>12. CASE CloseLock(c)
  BY <1>12, Requests, Handlers, AgentsOf DEF CloseLock, CloseReturns, SessionFree
<1>13. CASE CloseFacade(c)
  BY <1>13, Requests, Handlers, AgentsOf DEF CloseFacade, CloseFails, CloseReturns, UnlocksSession
<1>14. CASE CloseAcp(c)
  BY <1>14, Requests, Handlers, AgentsOf DEF CloseAcp, CloseFails, CloseReturns, UnlocksSession
<1>15. CASE CloseSettle(c)
  BY <1>15, Requests, Handlers, AgentsOf DEF CloseSettle, CloseFails, CloseReturns,
       UnlocksSession, RegistryClose, Release, Targets, Closing
<1>16. CASE AgentCloseEnter(c)
  BY <1>16, Requests, Handlers, AgentsOf DEF AgentCloseEnter
<1>17. CASE AgentCloseLock(c)
  BY <1>17, Requests, Handlers, AgentsOf DEF AgentCloseLock, AgentFree, MarkClosing
<1>18. CASE CascadeNext(c)
  BY <1>18, Requests, Handlers, AgentsOf DEF CascadeNext, MarkClosing
<1>19. CASE AgentRelease(c)
  BY <1>19, Requests, Handlers, AgentsOf DEF AgentRelease, RegistryClose, Release, UnlocksAgent,
       HoldsAgent
<1> QED
  BY <1>1, <1>2, <1>3, <1>4, <1>5, <1>6, <1>7, <1>8, <1>9, <1>10, <1>11, <1>12, <1>13, <1>14,
       <1>15, <1>16, <1>17, <1>18, <1>19 DEF Handler

LEMMA StepAcpSessionIsOwned ==
  ASSUME Control, Targets, AcpOwners, AcpSessionIsOwned, NEW c \in Calls, Handler(c)
  PROVE  AcpSessionIsOwned'
<1> SUFFICES ASSUME NEW s \in Sids, NEW e, e = acp'[s], e # None
             PROVE  Live(e)' \/ at'[e] \in Inserted \/ answer'[e] = "cleanup_pending"
  BY DEF AcpSessionIsOwned, Inserted, Live
<1>1. acp \in [Sids -> Calls \cup {None}]
  BY DEF Control, Typed
<1>2. CASE acp'[s] = c /\ at'[c] = "reserve"
  BY <1>2 DEF Inserted
<1>3. CASE ~(acp'[s] = c /\ at'[c] = "reserve")
  <2>1. acp'[s] = acp[s]
    BY <1>1, <1>3, SessionMoves
  <2>2. PICK o \in Calls : o = acp[s] /\ Creates(o) /\ SidOf(o) = s
    BY <1>1, <2>1 DEF AcpOwners
  <2>3. Live(o) \/ at[o] \in Inserted \/ answer[o] = "cleanup_pending"
    BY <2>1, <2>2 DEF AcpSessionIsOwned, Inserted
  <2>4. CASE o = c
    <3>1. answer[o] # "cleanup_pending"
      BY <2>4, Elsewhere, NoneAssumption DEF Control, Responses, Response
    <3> QED
      BY <2>1, <2>2, <2>3, <2>4, <3>1, OwnerOfCaller
  <2>5. CASE o # c
    <3>1. at'[o] = at[o] /\ answer'[o] = answer[o]
      BY <2>5, Elsewhere DEF Control
    <3>2. Live(o) => Live(o)'
      BY <2>2, <2>5, LifeMoves, SessionReleases DEF Live, Control, AcpOwners
    <3> QED
      BY <2>1, <2>2, <2>3, <3>1, <3>2
  <2> QED
    BY <2>4, <2>5
<1> QED
  BY <1>2, <1>3

-----------------------------------------------------------------------------
(* Sessions are kept.                                                      *)

Watched(h) == /\ life[h] \in {"unissued", "open"}
              /\ at[h] \in Inserted \/ answer[h] = "ok"
Owns(h) == acp[SidOf(h)] = h /\ services[SidOf(h)] = h
Shadowed(h) == \E n \in Namesakes(h) : life[n] \in {"closing", "released"}

\* A handle keeps its Session in its own steps.
LEMMA KeptByCaller ==
  ASSUME NEW c \in Calls, Control, Targets, Creates(c), Handler(c)
  PROVE  Watched(c)' =>
           \/ Watched(c) /\ UNCHANGED <<acp, services>>
           \/ acp'[SidOf(c)] = c /\ services'[SidOf(c)] = c
<1> USE DEF Control, Typed, Watched, Inserted
<1>1. CASE AgentCreateAgain(c)
  BY <1>1, Requests, Handlers DEF AgentCreateAgain
<1>2. CASE AgentCreate(c)
  BY <1>2, Requests, Handlers DEF AgentCreate
<1>3. CASE CreateEnter(c)
  BY <1>3, Requests, Handlers DEF CreateEnter, ResolveError
<1>4. CASE CreateAdmit(c)
  BY <1>4, Requests, Handlers DEF CreateAdmit, AgentFree, Unloadable
<1>5. CASE Insert(c)
  BY <1>5, Requests, Handlers DEF Insert
<1>6. CASE Reserve(c)
  BY <1>6, Requests, Handlers DEF Reserve
<1>7. CASE ReserveRollback(c)
  BY <1>7, Requests, Handlers DEF ReserveRollback
<1>8. CASE Register(c)
  BY <1>8, Requests, Handlers DEF Register, Lives, LifeOf
<1>9. CASE Persist(c)
  BY <1>9, Requests, Handlers DEF Persist, Release, Lives, LifeOf
<1>10. CASE CreateUndo(c)
  BY <1>10, Requests, Handlers DEF CreateUndo
<1>11. CASE CloseEnter(c)
  BY <1>11, Requests, Handlers DEF CloseEnter, MarkClosing, Named
<1>12. CASE CloseLock(c)
  BY <1>12, Requests, Handlers DEF CloseLock, CloseReturns, SessionFree
<1>13. CASE CloseFacade(c)
  BY <1>13, Requests, Handlers DEF CloseFacade, CloseFails, CloseReturns, UnlocksSession, Closing
<1>14. CASE CloseAcp(c)
  BY <1>14, Requests, Handlers DEF CloseAcp, CloseFails, CloseReturns, UnlocksSession, Closing
<1>15. CASE CloseSettle(c)
  BY <1>15, Requests, Handlers DEF CloseSettle, CloseFails, CloseReturns, UnlocksSession,
       Release, Closing
<1>16. CASE AgentCloseEnter(c)
  BY <1>16, Requests, Handlers DEF AgentCloseEnter
<1>17. CASE AgentCloseLock(c)
  BY <1>17, Requests, Handlers DEF AgentCloseLock, AgentFree, MarkClosing
<1>18. CASE CascadeNext(c)
  BY <1>18, Requests, Handlers DEF CascadeNext, MarkClosing, Targets
<1>19. CASE AgentRelease(c)
  BY <1>19, Requests, Handlers DEF AgentRelease, Release
<1> QED
  BY <1>1, <1>2, <1>3, <1>4, <1>5, <1>6, <1>7, <1>8, <1>9, <1>10, <1>11, <1>12, <1>13, <1>14,
       <1>15, <1>16, <1>17, <1>18, <1>19 DEF Handler

LEMMA ShadowStays ==
  ASSUME Control, Targets, NEW c \in Calls, Handler(c), NEW h \in Calls, Shadowed(h)
  PROVE  Shadowed(h)'
BY LifeMoves DEF Shadowed, Namesakes, Control, Live

\* Whoever takes a Session from another handle of its id is closing, or lost its own to one.
LEMMA KeptByOthers ==
  ASSUME Control, Targets, Kept, NEW c \in Calls, Handler(c),
         NEW h \in Calls \ {c}, Creates(h), Watched(h)'
  PROVE  Owns(h)' \/ Shadowed(h)'
<1>1. at'[h] = at[h] /\ answer'[h] = answer[h]
  BY Elsewhere DEF Control
<1>2. Watched(h)
  BY <1>1, LifeMoves DEF Watched, Control, Live
<1>3. CASE Shadowed(h)
  BY <1>3, ShadowStays
<1>4. CASE Owns(h) /\ ~Shadowed(h)
  <2>1. acp \in [Sids -> Calls \cup {None}] /\ services \in [Sids -> Calls \cup {None}] /\ SidOf(h) \in Sids
    BY Requests DEF Control, Typed
  <2>2. ASSUME at[c] \in {"acp", "settle"}, SidOf(target[c]) = SidOf(h)
        PROVE  FALSE
    BY <1>2, <1>4, <2>2 DEF Targets, Closing, Shadowed, Namesakes, Watched
  <2>3. ASSUME at[c] \in {"rollback", "undo"}, SidOf(c) = SidOf(h)
        PROVE  FALSE
    <3>1. Creates(c)
      BY <2>3, Handlers DEF Control, Creating
    <3>2. life[c] # "released"
      BY <1>4, <2>3, <3>1 DEF Shadowed, Namesakes
    <3>3. life[c] = "unissued"
      BY <2>3, <3>2 DEF Control, Lives, LifeOf
    <3>4. acp[SidOf(c)] # c
      BY <1>4, <2>3 DEF Owns
    <3>5. PICK n \in Namesakes(c) : life[n] \in {"closing", "released"}
      BY <2>3, <3>1, <3>3, <3>4 DEF Kept
    <3>6. n \in Namesakes(h)
      BY <1>2, <2>3, <3>5 DEF Namesakes, Watched
    <3> QED
      BY <1>4, <3>5, <3>6 DEF Shadowed
  <2>4. at[c] = "insert" /\ acp[SidOf(c)] = None => SidOf(c) # SidOf(h)
    BY <1>4, NoneAssumption DEF Owns
  <2>5. acp'[SidOf(h)] = acp[SidOf(h)] /\ services'[SidOf(h)] = services[SidOf(h)]
    BY <2>1, <2>2, <2>3, <2>4, SessionMoves
  <2> QED
    BY <1>4, <2>5 DEF Owns
<1> QED
  BY <1>2, <1>3, <1>4 DEF Kept, Watched, Owns, Shadowed, Inserted

LEMMA StepKept ==
  ASSUME Control, Targets, Kept, NEW c \in Calls, Handler(c)
  PROVE  Kept'
<1> SUFFICES ASSUME NEW h \in Calls, Creates(h), Watched(h)'
             PROVE  Owns(h)' \/ Shadowed(h)'
  BY DEF Kept, Watched, Owns, Shadowed, Inserted
<1>1. CASE h # c
  BY <1>1, KeptByOthers
<1>2. CASE h = c /\ Watched(c) /\ UNCHANGED <<acp, services>>
  <2>1. Owns(c) \/ Shadowed(c)
    BY <1>2 DEF Kept, Watched, Owns, Shadowed, Inserted
  <2> QED
    BY <1>2, <2>1, ShadowStays DEF Owns
<1>3. CASE h = c /\ acp'[SidOf(c)] = c /\ services'[SidOf(c)] = c
  BY <1>3 DEF Owns
<1> QED
  BY <1>1, <1>2, <1>3, KeptByCaller

-----------------------------------------------------------------------------
(* The invariant.                                                          *)

LEMMA InitSound == Init => IInv
<1> SUFFICES ASSUME Init
             PROVE  IInv
  OBVIOUS
<1> USE DEF Init
<1>1. Typed
  BY BoundsAssumption DEF Typed, Places, Answers
<1>2. Routes /\ Responses /\ Lives
  BY Requests DEF Routes, Responses, Response, Lives, LifeOf, Issued, AgentOf
<1>3. Remembers
  BY DEF Remembers
<1>4. Buries
  <2> DEFINE L == {h \in Calls : Live(h)}
             M == {h \in Calls : Live(h) /\ Creates(h)}
  <2>1. L = {} /\ M = {}
    BY DEF Live
  <2>2. OpenHandles = 1
    <3>1. OpenHandles = 1 + Cardinality(L) + Cardinality(M)
      BY DEF OpenHandles
    <3> HIDE DEF L, M
    <3>2. Cardinality(L) = 0 /\ Cardinality(M) = 0
      BY <2>1, FS_EmptySet
    <3> QED
      BY <3>1, <3>2
  <2>3. DOMAIN idempotency = {}
    OBVIOUS
  <2>4. tombstones \in Seq([kind : Kinds, of : Calls]) /\ Len(tombstones) = 0
    OBVIOUS
  <2> QED
    BY <2>2, <2>3, <2>4, FS_EmptySet, BoundsAssumption DEF Buries
<1>5. AgentLocks /\ SessionLocks
  BY DEF AgentLocks, SessionLocks, HoldsAgent, Creating, Closing
<1>6. Targets /\ Cascades
  BY DEF Targets, Cascades, HoldsAgent, Creating, Closing
<1>7. Admissions /\ AcpOwners /\ AcpSessionIsOwned
  BY DEF Admissions, AcpOwners, AcpSessionIsOwned
<1>8. Kept
  BY DEF Kept
<1>9. ReleasedAgentIsEmpty
  BY DEF ReleasedAgentIsEmpty
<1> QED
  BY <1>1, <1>2, <1>3, <1>4, <1>5, <1>6, <1>7, <1>8, <1>9 DEF IInv, Control

LEMMA StutterKeeps ==
  ASSUME IInv, UNCHANGED vars
  PROVE  IInv'
<1> USE DEF vars
<1>1. Control'
  BY DEF IInv, Control, Typed, Routes, Responses, Response, Lives, LifeOf, Issued, AgentOf
<1>2. Remembers' /\ Buries'
  <2>1. OpenHandles' = OpenHandles
    BY DEF OpenHandles, Live
  <2> QED
    BY <2>1 DEF IInv, Remembers, Buries, Issued
<1>3. AgentLocks' /\ SessionLocks' /\ Targets' /\ Cascades'
  BY DEF IInv, AgentLocks, SessionLocks, Targets, Cascades, HoldsAgent, Issued, SessionsOf,
       Live, AgentOf
<1>4. Admissions' /\ AcpOwners' /\ AcpSessionIsOwned' /\ Kept' /\ ReleasedAgentIsEmpty'
  BY DEF IInv, Admissions, AcpOwners, AcpSessionIsOwned, Kept, ReleasedAgentIsEmpty, Live,
       AgentOf, Namesakes
<1> QED
  BY <1>1, <1>2, <1>3, <1>4 DEF IInv

LEMMA Inductive == IInv /\ [Next]_vars => IInv'
<1> SUFFICES ASSUME IInv, [Next]_vars
             PROVE  IInv'
  OBVIOUS
<1>1. CASE UNCHANGED vars
  BY <1>1, StutterKeeps
<1>2. ASSUME NEW c \in Calls, Handler(c)
      PROVE  IInv'
  <2>1. Control' /\ Remembers' /\ Buries'
    BY <1>2, StepControl, StepRemembers, StepBuries DEF IInv
  <2>2. AgentLocks' /\ SessionLocks' /\ Targets' /\ Cascades'
    BY <1>2, StepAgentLocks, StepSessionLocks, StepTargets, StepCascades DEF IInv
  <2>3. Admissions' /\ AcpOwners' /\ AcpSessionIsOwned'
    BY <1>2, StepAdmissions, StepAcpOwners, StepAcpSessionIsOwned DEF IInv
  <2>4. Kept' /\ ReleasedAgentIsEmpty'
    BY <1>2, StepKept, StepReleased DEF IInv
  <2> QED
    BY <2>1, <2>2, <2>3, <2>4 DEF IInv
<1> QED
  BY <1>1, <1>2 DEF Next

\* IInv is an invariant of the specification.
THEOREM Inductively == Spec => []IInv
BY InitSound, Inductive, PTL DEF Spec

LEMMA TypesHold == IInv => TypeOK
<1> SUFFICES ASSUME IInv
             PROVE  TypeOK
  OBVIOUS
<1>1. Typed /\ Routes /\ Buries /\ Admissions
  BY DEF IInv, Control
<1>2. admissions \in [Sids -> {None} \cup {c \in Calls : at[c] \in {"insert", "reserve", "rollback"}}]
  BY <1>1 DEF Typed, Admissions
<1>3. agentLock \in [Calls -> {None} \cup {c \in Calls : at[c] # "answered"}]
  <2>1. \A a \in Calls : agentLock[a] # None => at[agentLock[a]] # "answered"
    BY <1>1 DEF IInv, AgentLocks, Typed, HoldsAgent, Creating, Closing
  <2> QED
    BY <1>1, <2>1 DEF Typed
<1>4. sessionLock \in [Calls -> {None} \cup {c \in Calls : at[c] \in {"facade", "acp", "settle"}}]
  <2>1. \A h \in Calls : sessionLock[h] # None => at[sessionLock[h]] \in {"facade", "acp", "settle"}
    BY <1>1 DEF IInv, SessionLocks, Typed, Closing
  <2> QED
    BY <1>1, <2>1 DEF Typed
<1> QED
  BY <1>1, <1>2, <1>3, <1>4 DEF TypeOK, Typed, Buries

\* The state of the registry, the locks and the handlers is of its type, the
\* open handles are within max_open_handles, and so are the remembered ones.
THEOREM TypeCorrect == Spec => []TypeOK
BY Inductively, TypesHold, PTL

LEMMA KeptForever == IInv => SessionsAreKept
BY DEF IInv, Kept, Namesakes, SessionsAreKept, LostOnlyToNamesake, IsSession

\* No call loses an ACP Session, takes one from an open handle or leaves one
\* under a released Agent (create_session_on, session_create_fresh,
\* session_load, close_session_owned, agent_close).
THEOREM SessionsKept == Spec => []SessionsAreKept
BY Inductively, KeptForever, PTL

-----------------------------------------------------------------------------
(* Handles implement HandleLife.                                           *)

LEMMA InitRefines == Init => Life!Init
BY DEF Init, Life!Init, Live

LEMMA OneLifeMoves ==
  ASSUME NEW c \in Calls, Control, Targets, Handler(c)
  PROVE  \E h \in Calls : \A g \in Calls \ {h} : life'[g] = life[g]
<1> USE DEF Control, Typed
<1>1. CASE AgentCreateAgain(c)
  BY <1>1, Requests, Handlers, AgentsOf DEF AgentCreateAgain
<1>2. CASE AgentCreate(c)
  BY <1>2, Requests, Handlers, AgentsOf DEF AgentCreate
<1>3. CASE CreateEnter(c)
  BY <1>3, Requests, Handlers, AgentsOf DEF CreateEnter
<1>4. CASE CreateAdmit(c)
  BY <1>4, Requests, Handlers, AgentsOf DEF CreateAdmit, AgentFree, AgentClosing, Unloadable
<1>5. CASE Insert(c)
  BY <1>5, Requests, Handlers, AgentsOf DEF Insert, Dissociates, UnlocksAgent
<1>6. CASE Reserve(c)
  BY <1>6, Requests, Handlers, AgentsOf DEF Reserve, Dissociates
<1>7. CASE ReserveRollback(c)
  BY <1>7, Requests, Handlers, AgentsOf DEF ReserveRollback, Dissociates, UnlocksAgent
<1>8. CASE Register(c)
  BY <1>8, Requests, Handlers, AgentsOf DEF Register, Registrable, AgentClosing
<1>9. CASE Persist(c)
  BY <1>9, Requests, Handlers, AgentsOf DEF Persist, UnlocksAgent, Release
<1>10. CASE CreateUndo(c)
  BY <1>10, Requests, Handlers, AgentsOf DEF CreateUndo, UnlocksAgent
<1>11. CASE CloseEnter(c)
  BY <1>11, Requests, Handlers, AgentsOf DEF CloseEnter, MarkClosing, Named, Responses, Response
<1>12. CASE CloseLock(c)
  BY <1>12, Requests, Handlers, AgentsOf DEF CloseLock, CloseReturns, SessionFree
<1>13. CASE CloseFacade(c)
  BY <1>13, Requests, Handlers, AgentsOf DEF CloseFacade, CloseFails, CloseReturns, UnlocksSession
<1>14. CASE CloseAcp(c)
  BY <1>14, Requests, Handlers, AgentsOf DEF CloseAcp, CloseFails, CloseReturns, UnlocksSession
<1>15. CASE CloseSettle(c)
  BY <1>15, Requests, Handlers, AgentsOf DEF CloseSettle, CloseFails, CloseReturns,
       UnlocksSession, RegistryClose, Release, Targets, Closing
<1>16. CASE AgentCloseEnter(c)
  BY <1>16, Requests, Handlers, AgentsOf DEF AgentCloseEnter
<1>17. CASE AgentCloseLock(c)
  BY <1>17, Requests, Handlers, AgentsOf DEF AgentCloseLock, AgentFree, MarkClosing
<1>18. CASE CascadeNext(c)
  BY <1>18, Requests, Handlers, AgentsOf DEF CascadeNext, MarkClosing
<1>19. CASE AgentRelease(c)
  BY <1>19, Requests, Handlers, AgentsOf DEF AgentRelease, RegistryClose, Release, UnlocksAgent
<1> QED
  BY <1>1, <1>2, <1>3, <1>4, <1>5, <1>6, <1>7, <1>8, <1>9, <1>10, <1>11, <1>12, <1>13, <1>14,
       <1>15, <1>16, <1>17, <1>18, <1>19 DEF Handler

LEMMA RegistersUnderOpen ==
  ASSUME NEW c \in Calls, Control, Targets, Creates(c), life[c] = "unissued", life'[c] = "open",
         Handler(c)
  PROVE  at[c] = "register" /\ life[AgentOf(c)] = "open" 
<1> USE DEF Control, Typed
<1>1. CASE AgentCreateAgain(c)
  BY <1>1, Requests, Handlers DEF AgentCreateAgain
<1>2. CASE AgentCreate(c)
  BY <1>2, Requests, Handlers DEF AgentCreate
<1>3. CASE CreateEnter(c)
  BY <1>3, Requests, Handlers DEF CreateEnter
<1>4. CASE CreateAdmit(c)
  BY <1>4, Requests, Handlers DEF CreateAdmit, AgentFree, AgentClosing, Unloadable
<1>5. CASE Insert(c)
  BY <1>5, Requests, Handlers DEF Insert, Dissociates, UnlocksAgent
<1>6. CASE Reserve(c)
  BY <1>6, Requests, Handlers DEF Reserve, Dissociates
<1>7. CASE ReserveRollback(c)
  BY <1>7, Requests, Handlers DEF ReserveRollback, Dissociates, UnlocksAgent
<1>8. CASE Register(c)
  BY <1>8, Requests, Handlers DEF Register, Registrable, AgentClosing
<1>9. CASE Persist(c)
  BY <1>9, Requests, Handlers DEF Persist, UnlocksAgent, Release
<1>10. CASE CreateUndo(c)
  BY <1>10, Requests, Handlers DEF CreateUndo, UnlocksAgent
<1>11. CASE CloseEnter(c)
  BY <1>11, Requests, Handlers DEF CloseEnter, MarkClosing, Named
<1>12. CASE CloseLock(c)
  BY <1>12, Requests, Handlers DEF CloseLock, CloseReturns, SessionFree
<1>13. CASE CloseFacade(c)
  BY <1>13, Requests, Handlers DEF CloseFacade, CloseFails, CloseReturns, UnlocksSession
<1>14. CASE CloseAcp(c)
  BY <1>14, Requests, Handlers DEF CloseAcp, CloseFails, CloseReturns, UnlocksSession
<1>15. CASE CloseSettle(c)
  BY <1>15, Requests, Handlers DEF CloseSettle, CloseFails, CloseReturns, UnlocksSession,
       RegistryClose, Release
<1>16. CASE AgentCloseEnter(c)
  BY <1>16, Requests, Handlers DEF AgentCloseEnter
<1>17. CASE AgentCloseLock(c)
  BY <1>17, Requests, Handlers DEF AgentCloseLock, AgentFree, MarkClosing
<1>18. CASE CascadeNext(c)
  BY <1>18, Requests, Handlers DEF CascadeNext, MarkClosing
<1>19. CASE AgentRelease(c)
  BY <1>19, Requests, Handlers DEF AgentRelease, RegistryClose, Release, UnlocksAgent
<1> QED
  BY <1>1, <1>2, <1>3, <1>4, <1>5, <1>6, <1>7, <1>8, <1>9, <1>10, <1>11, <1>12, <1>13, <1>14,
       <1>15, <1>16, <1>17, <1>18, <1>19 DEF Handler

Stage(h) == IF Live(h) THEN "issued" ELSE life[h]
ParentOf(h) == IF life[h] = "unissued" THEN None ELSE IF IsSession(h) THEN AgentOf(h) ELSE h

\* An issued handle keeps its Agent.
LEMMA ParentStays ==
  ASSUME Control, Targets, NEW c \in Calls, Handler(c), NEW h \in Calls
  PROVE  /\ life'[h] = life[h] \/ Issued(h) => ParentOf(h)' = ParentOf(h)
         /\ Issued(h) => ParentOf(h) \in Calls /\ IsAgent(ParentOf(h))
<1>1. CASE life[h] = "unissued"
  BY <1>1 DEF ParentOf, Issued
<1>2. CASE Issued(h)
  <2>1. Issued(h)' /\ at[h] # "unsent" /\ (IsAgent(h) \/ Creates(h))
    BY <1>2, IssuedStays DEF Control, Lives, LifeOf, Issued
  <2> QED
    BY <1>2, <2>1, AgentStays, AgentsOf, Requests DEF ParentOf, Issued, Control
<1> QED
  BY <1>1, <1>2 DEF Issued

LEMMA StepRefines ==
  ASSUME IInv, NEW c \in Calls, Handler(c)
  PROVE  Life!Next \/ UNCHANGED Life!vars
<1> DEFINE A == [h \in Calls |-> Stage(h)]
           P == [h \in Calls |-> ParentOf(h)]
<1>0. Control /\ Targets /\ AgentLocks /\ Cascades
  BY DEF IInv
<1>1. PICK h \in Calls : \A g \in Calls \ {h} : life'[g] = life[g]
  BY <1>0, OneLifeMoves
<1>2. \A g \in Calls \ {h} : Stage(g)' = Stage(g) /\ ParentOf(g)' = ParentOf(g)
  BY <1>0, <1>1, ParentStays DEF Stage, Live
<1>3. CASE life'[h] = life[h] \/ life'[h] = "closing"
  <2>1. Stage(h)' = Stage(h) /\ ParentOf(h)' = ParentOf(h)
    BY <1>0, <1>3, LifeMoves, ParentStays DEF Stage, Live, Control, Issued
  <2>2. \A g \in Calls : Stage(g)' = Stage(g) /\ ParentOf(g)' = ParentOf(g)
    BY <1>2, <2>1
  <2> QED
    BY <2>2 DEF Life!vars, Stage, ParentOf
<1>4. CASE life[h] = "unissued" /\ life'[h] = "open"
  <2>1. h = c /\ (IsAgent(c) \/ Creates(c))
    BY <1>0, <1>4, LifeMoves, Handlers DEF Control, Live, Creating
  <2>2. \E p \in Calls :
          /\ p # h => Stage(p) = "issued" /\ ParentOf(p) = p
          /\ ParentOf(h)' = p
    <3>1. CASE IsAgent(c)
      BY <1>4, <2>1, <3>1, Requests DEF ParentOf
    <3>2. CASE Creates(c)
      <4>1. at[c] = "register" /\ life[AgentOf(c)] = "open"
        BY <1>0, <1>4, <2>1, <3>2, RegistersUnderOpen
      <4>2. AgentOf(c) \in Calls /\ IsAgent(AgentOf(c)) /\ AgentOf(c)' = AgentOf(c)
        BY <1>0, <3>2, <4>1, AgentsOf, AgentStays DEF Control
      <4> QED
        BY <1>4, <2>1, <3>2, <4>1, <4>2, Requests DEF ParentOf, Stage, Live
    <3> QED
      BY <2>1, <3>1, <3>2
  <2>3. Stage(h) = "unissued" /\ Stage(h)' = "issued"
    BY <1>4 DEF Stage, Live
  <2>4. \E p \in Calls : Life!Issue(h, p)
    BY <1>2, <2>2, <2>3 DEF Life!Issue, Stage, ParentOf
  <2> QED
    BY <2>4 DEF Life!Next
<1>5. CASE Live(h) /\ life'[h] = "released"
  <2>1. Stage(h) = "issued" /\ Stage(h)' = "released" /\ ParentOf(h)' = ParentOf(h)
    BY <1>0, <1>5, ParentStays DEF Stage, Live, Issued
  <2>2. ASSUME NEW k \in Calls \ {h}, ParentOf(k) = h
        PROVE  Stage(k) # "issued"
    <3>1. SUFFICES ASSUME Live(k)
                   PROVE  FALSE
      BY <1>0 DEF Stage, Control, Typed
    <3>2. IsSession(k) /\ AgentOf(k) = h /\ IsAgent(h)
      BY <1>0, <2>2, <3>1, ParentStays DEF ParentOf, Live, Issued
    <3>3. SessionsOf(h) = {}
      BY <1>0, <1>5, <3>2, AgentReleases DEF Cascades, Live
    <3> QED
      BY <3>1, <3>2, <3>3 DEF SessionsOf
  <2>3. Life!Release(h)
    BY <1>2, <2>1, <2>2 DEF Life!Release, Life!Children, Stage, ParentOf
  <2> QED
    BY <2>3 DEF Life!Next
<1> QED
  BY <1>0, <1>3, <1>4, <1>5, LifeMoves DEF Control

LEMMA StutterRefines == UNCHANGED vars => UNCHANGED Life!vars
BY DEF vars, Life!vars, Live, AgentOf

\* Handles are issued and released once, Sessions under an issued Agent and
\* before it, whatever closes, cascades and failures do (HandleRegistry).
THEOREM HandlesImplementLife == Spec => ImplementsHandleLife
<1>1. IInv /\ [Next]_vars => [Life!Next]_(Life!vars)
  BY StepRefines, StutterRefines DEF Next
<1> QED
  BY <1>1, InitRefines, Inductively, PTL DEF Spec, ImplementsHandleLife, Life!Spec
=============================================================================
