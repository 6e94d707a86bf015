--------------------------- MODULE SessionHandles ---------------------------
(***************************************************************************)
(* Agent and Session handles of one connection (core_profile/handles.rs,   *)
(* handler.rs, factory.rs): agent/create, session/create, session/load,    *)
(* session/close and agent/close as concurrent handlers over the handle    *)
(* registry, the framework's registry of ACP Sessions, the factory's       *)
(* publication admissions and the durable session index.                   *)
(*                                                                         *)
(* One call is one request; the Agent or Session handle a call mints, and  *)
(* the ACP Session it inserts, carry the call's name.  A step ends where   *)
(* the handler awaits.  The ACP registry is keyed by the session id, so a  *)
(* handle names an id and not the ACP Session it was issued for.           *)
(***************************************************************************)
EXTENDS Naturals, FiniteSets, Sequences

CONSTANTS
  Calls,        \* requests
  Request,      \* what each call asks: [op, on, sid, key, config]
  KnownIds,     \* session ids already in the durable index of this state root
  MaxHandles,   \* max_open_handles
  MaxFailures,  \* bound: awaited or durable steps that fail
  None

Ops == {"agent/create", "session/create", "session/load", "session/close", "agent/close"}
Creates(c) == Request[c].op \in {"session/create", "session/load"}
Sids == {Request[c].sid : c \in {d \in Calls : Creates(d)}}
Keys == {Request[c].key : c \in {d \in Calls : Request[d].op = "agent/create"}} \ {None}

ASSUME RequestAssumption ==
  /\ IsFiniteSet(Calls)
  /\ \A c \in Calls :
       /\ Request[c].op \in Ops
       /\ Request[c].op = "session/close" => Request[c].on \in Calls /\ Creates(Request[c].on)
       /\ Request[c].op \in {"session/create", "session/load", "agent/close"} =>
            Request[c].on \in Calls /\ Request[Request[c].on].op = "agent/create"
ASSUME BoundsAssumption == MaxHandles \in Nat \ {0} /\ MaxFailures \in Nat
ASSUME NoneAssumption == None \notin Calls \cup {"ok", "cleanup_pending"}

VARIABLES
  at,           \* where the handler of each call is
  answer,       \* what it answered
  given,        \* the handle in a successful create's response
  life,         \* of the handle a call mints; "closing" is its record's flag
  tombstones,   \* released handles still remembered, oldest first
  idempotency,  \* agent/create keys
  acp,          \* the ACP Session under each id
  services,     \* SessionAuthorityServices under each id
  admissions,   \* the call that associated each id with the factory
  index,        \* session ids with a durable record
  agentLock,    \* holder of AgentRecord.lifecycle
  sessionLock,  \* writer of SessionRecord.lifecycle
  target,       \* the Session a call is closing
  todo,         \* Sessions left in an Agent's cascade
  erred,        \* a Session of the cascade could not be closed
  failures

registry == <<life, tombstones, idempotency>>
sessions == <<acp, services, admissions, index>>
locks == <<agentLock, sessionLock>>
cascade == <<target, todo, erred>>
vars == <<at, answer, given, registry, sessions, locks, cascade, failures>>

Places == {"unsent", "lock", "insert", "reserve", "rollback", "register", "persist", "undo",
           "cascade", "wait", "facade", "acp", "settle", "answered"}
Answers == {None, "ok", "released", "not_released", "closed_handle", "never_issued", "conflict",
            "limit", "pending", "unknown_session", "failed", "cleanup_pending"}
Kinds == {"agent", "session", "task_run"}

Live(h) == life[h] \in {"open", "closing"}
IsSession(h) == Creates(h)
AgentOf(c) == given[Request[c].on]      \* request.agent
SidOf(c) == Request[c].sid

(* Handles enforce_budget counts: the default Agent, and a TaskRun with    *)
(* each Session.                                                           *)
OpenHandles == 1 + Cardinality({h \in Calls : Live(h)})
                 + Cardinality({h \in Calls : Live(h) /\ IsSession(h)})
WithinBudget(additional) == OpenHandles + additional <= MaxHandles

TypeOK ==
  /\ at \in [Calls -> Places] /\ answer \in [Calls -> Answers]
  /\ given \in [Calls -> Calls \cup {None}]
  /\ life \in [Calls -> {"unissued", "open", "closing", "released"}]
  /\ OpenHandles <= MaxHandles
  /\ tombstones \in Seq([kind : Kinds, of : Calls]) /\ Len(tombstones) <= MaxHandles
  /\ DOMAIN idempotency \subseteq Keys /\ Cardinality(DOMAIN idempotency) <= MaxHandles
  /\ acp \in [Sids -> Calls \cup {None}] /\ services \in [Sids -> Calls \cup {None}]
  /\ admissions \in [Sids -> {None} \cup {c \in Calls : at[c] \in {"insert", "reserve", "rollback"}}]
  /\ index \subseteq Sids \cup KnownIds
  /\ agentLock \in [Calls -> {None} \cup {c \in Calls : at[c] # "answered"}]
  /\ sessionLock \in [Calls -> {None} \cup {c \in Calls : at[c] \in {"facade", "acp", "settle"}}]
  /\ target \in [Calls -> Calls \cup {None}] /\ todo \in [Calls -> SUBSET Calls]
  /\ erred \in [Calls -> BOOLEAN] /\ failures \in 0..MaxFailures

Init ==
  /\ at = [c \in Calls |-> "unsent"] /\ answer = [c \in Calls |-> None]
  /\ given = [c \in Calls |-> None]
  /\ life = [c \in Calls |-> "unissued"] /\ tombstones = <<>> /\ idempotency = <<>>
  /\ acp = [s \in Sids |-> None] /\ services = [s \in Sids |-> None]
  /\ admissions = [s \in Sids |-> None] /\ index = KnownIds
  /\ agentLock = [c \in Calls |-> None] /\ sessionLock = [c \in Calls |-> None]
  /\ target = [c \in Calls |-> None] /\ todo = [c \in Calls |-> {}]
  /\ erred = [c \in Calls |-> FALSE] /\ failures = 0

Moves(c, place) == at' = [at EXCEPT ![c] = place] /\ UNCHANGED <<answer, given>>

Answered(c, what) ==
  /\ at' = [at EXCEPT ![c] = "answered"]
  /\ answer' = [answer EXCEPT ![c] = what]

Refused(c, what) == Answered(c, what) /\ UNCHANGED given

Fails == failures < MaxFailures /\ failures' = failures + 1
Succeeds == UNCHANGED failures

(* A step that is bound to fail when its condition does not hold, and may  *)
(* fail when it does.                                                      *)
GoesWrong(possible) == IF possible THEN Fails ELSE Succeeds

-----------------------------------------------------------------------------
(* The registry.  It forgets the oldest released handles, and then calls   *)
(* them never issued.                                                      *)

IsClosed(h) == \E i \in DOMAIN tombstones :
                 tombstones[i] = [kind |-> IF IsSession(h) THEN "session" ELSE "agent", of |-> h]

ResolveError(h) == IF IsClosed(h) THEN "closed_handle" ELSE "never_issued"

Bounded(entries) ==
  IF Len(entries) > MaxHandles THEN SubSeq(entries, Len(entries) - MaxHandles + 1, Len(entries))
  ELSE entries

Buried(h) ==
  IF IsSession(h) THEN <<[kind |-> "task_run", of |-> h], [kind |-> "session", of |-> h]>>
  ELSE <<[kind |-> "agent", of |-> h]>>

Release(h) ==
  /\ life' = [life EXCEPT ![h] = "released"]
  /\ tombstones' = Bounded(tombstones \o Buried(h))
  /\ UNCHANGED idempotency

(* close_agent and close_session of the registry, and what they return.    *)
RegistryClose(h) == \/ Live(h) /\ Release(h)
                    \/ ~Live(h) /\ UNCHANGED registry

Repeated(h) == IF IsClosed(h) THEN "not_released" ELSE "never_issued"
Outcome(h) == IF Live(h) THEN "released" ELSE Repeated(h)

MarkClosing(h) == life' = [life EXCEPT ![h] = IF Live(h) THEN "closing" ELSE @]

OpenSessionsOf(a) == {h \in Calls : IsSession(h) /\ life[h] = "open" /\ AgentOf(h) = a}

SessionsOf(a) == {h \in Calls : IsSession(h) /\ Live(h) /\ AgentOf(h) = a}

-----------------------------------------------------------------------------
(* agent/create: dispatched inline, so one step.                           *)

(* The key the map gives up when it is full: keys() of a HashMap has no    *)
(* order, whatever the variable `oldest` says.                             *)
Evicted == IF Cardinality(DOMAIN idempotency) >= MaxHandles THEN DOMAIN idempotency ELSE {None}

Remembered(key, oldest, agent) ==
  [k \in (DOMAIN idempotency \ {oldest}) \cup {key} |-> IF k = key THEN agent ELSE idempotency[k]]

AgentCreateAgain(c) ==
  /\ Request[c].op = "agent/create" /\ at[c] = "unsent" /\ Request[c].key \in DOMAIN idempotency
  /\ LET previous == idempotency[Request[c].key] IN
       \/ /\ ~Live(previous)
          /\ Refused(c, "closed_handle")
       \/ /\ Live(previous) /\ Request[previous].config # Request[c].config
          /\ Refused(c, "conflict")
       \/ /\ Live(previous) /\ Request[previous].config = Request[c].config
          /\ Answered(c, "ok") /\ given' = [given EXCEPT ![c] = previous]
  /\ UNCHANGED <<registry, sessions, locks, cascade, failures>>

AgentCreate(c) ==
  /\ Request[c].op = "agent/create" /\ at[c] = "unsent" /\ Request[c].key \notin DOMAIN idempotency
  /\ \/ /\ WithinBudget(1)
        /\ life' = [life EXCEPT ![c] = "open"]
        /\ IF Request[c].key = None THEN UNCHANGED idempotency
           ELSE \E oldest \in Evicted : idempotency' = Remembered(Request[c].key, oldest, c)
        /\ Answered(c, "ok") /\ given' = [given EXCEPT ![c] = c]
     \/ /\ ~WithinBudget(1)
        /\ Refused(c, "limit") /\ UNCHANGED <<life, idempotency>>
  /\ UNCHANGED <<tombstones, sessions, locks, cascade, failures>>

-----------------------------------------------------------------------------
(* session/create and session/load hold the Agent's lifecycle lock.        *)

CreateEnter(c) ==
  /\ Creates(c) /\ at[c] = "unsent" /\ AgentOf(c) # None
  /\ IF Live(AgentOf(c)) THEN Moves(c, "lock") ELSE Refused(c, ResolveError(AgentOf(c)))
  /\ UNCHANGED <<registry, sessions, locks, cascade, failures>>

AgentFree(c) == agentLock[AgentOf(c)] = None
UnlocksAgent(c) == agentLock' = [agentLock EXCEPT ![AgentOf(c)] = None]

IsNotReread(a) == FALSE

AgentClosing(a) == life[a] # "open"

(* session_load starts no Session the state root does not know.            *)
Unloadable(c) == Request[c].op = "session/load" /\ SidOf(c) \notin index

(* The checks under the lock, up to associate_publication.                 *)
CreateAdmit(c) ==
  /\ Creates(c) /\ at[c] = "lock" /\ AgentFree(c)
  /\ \/ /\ AgentClosing(AgentOf(c))
        /\ Refused(c, "closed_handle") /\ UNCHANGED <<agentLock, admissions>>
     \/ /\ ~AgentClosing(AgentOf(c)) /\ Unloadable(c)
        /\ Refused(c, "unknown_session") /\ UNCHANGED <<agentLock, admissions>>
     \/ /\ ~AgentClosing(AgentOf(c)) /\ ~Unloadable(c) /\ admissions[SidOf(c)] # None
        /\ Refused(c, "pending") /\ UNCHANGED <<agentLock, admissions>>
     \/ /\ ~AgentClosing(AgentOf(c)) /\ ~Unloadable(c) /\ admissions[SidOf(c)] = None
        /\ agentLock' = [agentLock EXCEPT ![AgentOf(c)] = c]
        /\ admissions' = [admissions EXCEPT ![SidOf(c)] = c]
        /\ Moves(c, "insert")
  /\ UNCHANGED <<registry, acp, services, index, sessionLock, cascade, failures>>

StaysAssociated(c) == UNCHANGED admissions

(* SessionPublicationGuard::drop.                                          *)
Dissociates(c) == admissions' = [admissions EXCEPT ![SidOf(c)] = None]

(* insert_session of the framework (external), which calls the factory and *)
(* refuses an id that is taken.                                            *)
Insert(c) ==
  /\ at[c] = "insert"
  /\ \/ /\ acp[SidOf(c)] = None /\ Succeeds
        /\ acp' = [acp EXCEPT ![SidOf(c)] = c]
        /\ services' = [services EXCEPT ![SidOf(c)] = c]
        /\ Moves(c, "reserve") /\ UNCHANGED <<admissions, agentLock>>
     \/ /\ GoesWrong(acp[SidOf(c)] = None)
        /\ Dissociates(c) /\ UnlocksAgent(c) /\ Refused(c, "failed")
        /\ UNCHANGED <<acp, services>>
  /\ UNCHANGED <<registry, index, sessionLock, cascade>>

(* The turn ids of recovered Runs are reserved in the new Session.         *)
Reserve(c) ==
  /\ at[c] = "reserve"
  /\ \/ /\ acp[SidOf(c)] # None /\ Succeeds
        /\ Dissociates(c) /\ Moves(c, "register")
     \/ /\ GoesWrong(acp[SidOf(c)] # None)
        /\ Moves(c, "rollback") /\ UNCHANGED admissions
  /\ UNCHANGED <<registry, acp, services, index, locks, cascade>>

ReserveRollback(c) ==
  /\ at[c] = "rollback"
  /\ \/ /\ Succeeds
        /\ acp' = [acp EXCEPT ![SidOf(c)] = None]
        /\ services' = [services EXCEPT ![SidOf(c)] = None]
        /\ Refused(c, "failed")
     \/ /\ Fails /\ Refused(c, "cleanup_pending") /\ UNCHANGED <<acp, services>>
  /\ Dissociates(c) /\ UnlocksAgent(c)
  /\ UNCHANGED <<registry, index, sessionLock, cascade>>

(* register_session_with_cwd: Session and TaskRun under one lock.          *)
Registrable(c) == ~AgentClosing(AgentOf(c)) /\ WithinBudget(2)

Register(c) ==
  /\ at[c] = "register"
  /\ \/ /\ Registrable(c)
        /\ life' = [life EXCEPT ![c] = "open"] /\ Moves(c, "persist")
     \/ /\ ~Registrable(c)
        /\ Moves(c, "undo") /\ UNCHANGED life
  /\ UNCHANGED <<tombstones, idempotency, sessions, locks, cascade, failures>>

(* record_session, the last thing that can fail.  session_create_fresh     *)
(* takes its handle and Session back; session_load returns with `?`.       *)
Persist(c) ==
  /\ at[c] = "persist"
  /\ \/ /\ acp[SidOf(c)] # None /\ Succeeds
        /\ index' = index \cup {SidOf(c)}
        /\ Answered(c, "ok") /\ given' = [given EXCEPT ![c] = c]
        /\ UnlocksAgent(c) /\ UNCHANGED registry
     \/ /\ GoesWrong(acp[SidOf(c)] # None)
        /\ IF Request[c].op = "session/create"
           THEN Release(c) /\ Moves(c, "undo") /\ UNCHANGED agentLock
           ELSE Refused(c, "failed") /\ UnlocksAgent(c) /\ UNCHANGED registry
        /\ UNCHANGED index
  /\ UNCHANGED <<acp, services, admissions, sessionLock, cascade>>

(* The ACP Session of a failed create is closed; the result of that close  *)
(* is dropped, so "cleanup_pending" is not what the client reads here.     *)
CreateUndo(c) ==
  /\ at[c] = "undo"
  /\ \/ Succeeds /\ acp' = [acp EXCEPT ![SidOf(c)] = None] /\ Refused(c, "failed")
     \/ Fails /\ Refused(c, "cleanup_pending") /\ UNCHANGED acp
  /\ UnlocksAgent(c)
  /\ UNCHANGED <<registry, services, admissions, index, sessionLock, cascade>>

-----------------------------------------------------------------------------
(* close_session_owned, called by session/close and for each Session of an *)
(* agent/close.                                                            *)

Named(c) == given[Request[c].on]

CloseEnter(c) ==
  /\ Request[c].op = "session/close" /\ at[c] = "unsent" /\ Named(c) # None
  /\ LET h == Named(c) IN
       \/ /\ Live(h)
          /\ MarkClosing(h) /\ target' = [target EXCEPT ![c] = h] /\ Moves(c, "wait")
       \/ /\ ~Live(h)
          /\ Refused(c, Repeated(h)) /\ UNCHANGED <<life, target>>
  /\ UNCHANGED <<tombstones, idempotency, sessions, locks, todo, erred, failures>>

(* close_session_owned returns: to the client, or to the cascade.          *)
CloseReturns(c, what) ==
  /\ IF Request[c].op = "session/close" THEN Refused(c, what) ELSE Moves(c, "cascade")
  /\ erred' = [erred EXCEPT ![c] = @ \/ what \notin {"released", "not_released"}]
  /\ target' = [target EXCEPT ![c] = None]
  /\ UNCHANGED todo

NeedsAgentToo(c) == sessionLock[target[c]] = None /\ agentLock[AgentOf(target[c])] = None

SessionFree(c) == sessionLock[target[c]] = None
UnlocksSession(c) == sessionLock' = [sessionLock EXCEPT ![target[c]] = None]

CloseLock(c) ==
  /\ at[c] = "wait" /\ SessionFree(c)
  /\ \/ /\ IsClosed(target[c])
        /\ CloseReturns(c, "not_released") /\ UNCHANGED sessionLock
     \/ /\ ~IsClosed(target[c])
        /\ sessionLock' = [sessionLock EXCEPT ![target[c]] = c]
        /\ Moves(c, "facade") /\ UNCHANGED cascade
  /\ UNCHANGED <<registry, sessions, agentLock, failures>>

CloseFails(c) == /\ Fails /\ UnlocksSession(c) /\ CloseReturns(c, "failed")

(* drop_session_resources_of.                                              *)
CloseFacade(c) ==
  /\ at[c] = "facade"
  /\ \/ Succeeds /\ Moves(c, "acp") /\ UNCHANGED <<sessionLock, cascade>>
     \/ CloseFails(c)
  /\ UNCHANGED <<registry, sessions, agentLock>>

(* sessions().close_session (external): whatever the id names now.         *)
CloseAcp(c) ==
  /\ at[c] = "acp"
  /\ \/ /\ Succeeds /\ acp' = [acp EXCEPT ![SidOf(target[c])] = None]
        /\ Moves(c, "settle") /\ UNCHANGED <<sessionLock, cascade>>
     \/ CloseFails(c) /\ UNCHANGED acp
  /\ UNCHANGED <<registry, services, admissions, index, agentLock>>

(* The receipts of its Runs are persisted, and the handle is released.     *)
CloseSettle(c) ==
  /\ at[c] = "settle"
  /\ LET h == target[c] IN
       \/ /\ Succeeds /\ UnlocksSession(c)
          /\ services' = [services EXCEPT ![SidOf(h)] = None]
          /\ RegistryClose(h) /\ CloseReturns(c, Outcome(h))
       \/ CloseFails(c) /\ UNCHANGED <<registry, services>>
  /\ UNCHANGED <<acp, admissions, index, agentLock>>

-----------------------------------------------------------------------------
(* agent/close holds the Agent's lifecycle lock over the whole cascade.    *)

AgentCloseEnter(c) ==
  /\ Request[c].op = "agent/close" /\ at[c] = "unsent" /\ AgentOf(c) # None
  /\ IF Live(AgentOf(c)) THEN Moves(c, "lock") ELSE Refused(c, Repeated(AgentOf(c)))
  /\ UNCHANGED <<registry, sessions, locks, cascade, failures>>

AgentCloseLock(c) ==
  /\ Request[c].op = "agent/close" /\ at[c] = "lock" /\ AgentFree(c)
  /\ \/ /\ IsClosed(AgentOf(c))
        /\ Refused(c, "not_released") /\ UNCHANGED <<life, agentLock, todo>>
     \/ /\ ~IsClosed(AgentOf(c))
        /\ agentLock' = [agentLock EXCEPT ![AgentOf(c)] = c]
        /\ MarkClosing(AgentOf(c))
        /\ todo' = [todo EXCEPT ![c] = SessionsOf(AgentOf(c))]
        /\ Moves(c, "cascade")
  /\ UNCHANGED <<tombstones, idempotency, sessions, sessionLock, target, erred, failures>>

CascadeNext(c) ==
  /\ at[c] = "cascade"
  /\ \E h \in todo[c] :
       /\ todo' = [todo EXCEPT ![c] = @ \ {h}]
       /\ \/ /\ Live(h)
             /\ MarkClosing(h) /\ target' = [target EXCEPT ![c] = h] /\ Moves(c, "wait")
             /\ UNCHANGED erred
          \/ /\ ~Live(h)
             /\ erred' = [erred EXCEPT ![c] = @ \/ ~IsClosed(h)]
             /\ UNCHANGED <<life, target, at, answer, given>>
  /\ UNCHANGED <<tombstones, idempotency, sessions, locks, failures>>

(* close_agent, unless a Session could not be closed: the handle then      *)
(* stays, closing, for the next agent/close.                               *)
AgentRelease(c) ==
  /\ at[c] = "cascade" /\ todo[c] = {}
  /\ \/ erred[c] /\ Refused(c, "failed") /\ UNCHANGED registry
     \/ ~erred[c] /\ RegistryClose(AgentOf(c)) /\ Refused(c, Outcome(AgentOf(c)))
  /\ UnlocksAgent(c)
  /\ UNCHANGED <<sessions, sessionLock, cascade, failures>>

-----------------------------------------------------------------------------
Handler(c) ==
  \/ AgentCreateAgain(c) \/ AgentCreate(c)
  \/ CreateEnter(c) \/ CreateAdmit(c) \/ Insert(c) \/ Reserve(c) \/ ReserveRollback(c)
  \/ Register(c) \/ Persist(c) \/ CreateUndo(c)
  \/ CloseEnter(c) \/ CloseLock(c) \/ CloseFacade(c) \/ CloseAcp(c) \/ CloseSettle(c)
  \/ AgentCloseEnter(c) \/ AgentCloseLock(c) \/ CascadeNext(c) \/ AgentRelease(c)

Next == \E c \in Calls : Handler(c)

Spec == Init /\ [][Next]_vars

(* While a handler that was spawned on the connection can go on, one of    *)
(* them does, and the framework's calls return.  A client need not send    *)
(* anything.  A handler has no loop, so this is enough for all of them.    *)
FairSpec == Spec /\ WF_vars(\E c \in Calls : at[c] # "unsent" /\ Handler(c))
-----------------------------------------------------------------------------
(* Properties.                                                             *)

(* Every ACP Session has an owner that will close it: a live handle, the   *)
(* handler that is still creating it, or - after a failed clean-up - the   *)
(* close of the connection.  Closing a Session or undoing a create may     *)
(* never lose one (create_session_on, session_create_fresh, session_load,  *)
(* close_session_owned).                                                   *)
AcpSessionIsOwned ==
  \A s \in Sids : acp[s] # None =>
    LET c == acp[s] IN
      \/ Live(c)
      \/ at[c] \in {"reserve", "rollback", "register", "persist", "undo"}
      \/ answer[c] = "cleanup_pending"

(* An open Session the client holds has the ACP Session and the authority  *)
(* services it was issued with, whatever other calls on its id fail, undo  *)
(* or close - unless a handle of the same id had begun to close before     *)
(* (associate_publication, create_session_on).                             *)
LostOnlyToNamesake ==
  \A h \in Calls : IsSession(h) /\ life[h] = "open" /\ answer[h] = "ok" =>
    \/ acp[SidOf(h)] = h /\ services[SidOf(h)] = h
    \/ \E n \in Calls \ {h} : /\ IsSession(n) /\ SidOf(n) = SidOf(h)
                              /\ life[n] \in {"closing", "released"}

(* A released Agent has no Session, and none is on its way: a create that  *)
(* waited for the lifecycle lock while agent/close held it is refused.     *)
ReleasedAgentIsEmpty ==
  \A a \in Calls : life[a] = "released" /\ ~IsSession(a) =>
    \A c \in Calls : Creates(c) /\ AgentOf(c) = a =>
      ~Live(c) /\ at[c] \in {"unsent", "lock", "answered"}

(* Sessions are neither lost, nor taken from their handle, nor left behind *)
(* under a released Agent, whatever their calls race, undo or fail.        *)
SessionsAreKept == AcpSessionIsOwned /\ LostOnlyToNamesake /\ ReleasedAgentIsEmpty

(* Every call that was sent is answered in the end: the cascade of         *)
(* agent/close takes Session locks while it holds the Agent's, and nobody  *)
(* takes them in the other order or keeps them over an error.              *)
CallsAreAnswered == <>[](\A c \in Calls : at[c] \in {"unsent", "answered"})

(* The registry, with its closing flags, its cascade and its failures, is  *)
(* one in which identities are issued and released once, parents last.     *)
Life == INSTANCE HandleLife WITH
  Handles <- Calls,
  life <- [h \in Calls |-> IF Live(h) THEN "issued" ELSE life[h]],
  parent <- [h \in Calls |-> IF life[h] = "unissued" THEN None
                             ELSE IF IsSession(h) THEN AgentOf(h) ELSE h]
ImplementsHandleLife == Life!Spec
=============================================================================
