---------------------------- MODULE SessionWork ----------------------------
(***************************************************************************)
(* What a Session has started and has to see ended before it may go: the   *)
(* execution of its task graph (facade/task_runtime.rs) and the subagent   *)
(* attempts its client has dispatched (facade/subagent.rs), the maps of    *)
(* facade/mod.rs that hold them, and those who close, session/close and    *)
(* the drain of the Host.                                                  *)
(*                                                                         *)
(* Executions ride the connection and end with it; attempts are tasks of   *)
(* their own.  Maps are keyed by the ACP id of a Session, its scope, which *)
(* becomes free before the close that frees it has finished: a Session may *)
(* be loaded under it while its namesake is still closing.                 *)
(***************************************************************************)
EXTENDS Naturals, FiniteSets

CONSTANTS
  Sessions, Scopes,
  ScopeOf,                               \* the ACP id of a Session
  Executes, Graphs, Dispatches, Asks,    \* requests of the client, each made once
  Closes,
  Keys, KeyOf,                           \* the idempotency id of a dispatch
  Plans,                                 \* bound of the model: what a behaviour has of them
  MaxOpenHandles,                        \* max_subagents
  Host, None

Calls == Executes \cup Graphs \cup Dispatches \cup Asks \cup Closes
Actors == Calls \cup {Host}
Work == Executes \cup Dispatches         \* what a request starts goes by its name

ASSUME SessionWorkAssumption ==
  /\ ScopeOf \in [Sessions -> Scopes] /\ KeyOf \in [Dispatches -> Keys \cup {None}]
  /\ Plans \subseteq SUBSET (Calls \cup Sessions)
  /\ MaxOpenHandles \in Nat \ {0}
  /\ Executes \cap (Graphs \cup Dispatches \cup Asks \cup Closes) = {}
  /\ Graphs \cap (Dispatches \cup Asks \cup Closes) = {}
  /\ Dispatches \cap (Asks \cup Closes) = {} /\ Asks \cap Closes = {}
  /\ Host \notin Calls /\ None \notin Sessions \cup Actors \cup Keys

VARIABLES
  connected,
  fenced,     \* the Host admits no more requests
  session,    \* "freed": the ACP id is free, the handle is not
  services,   \* whose SessionAuthorityServices are installed for a scope
  lock,       \* who writes SessionRecord.lifecycle; its readers have permits
  at,         \* where an actor stands
  on,         \* the Session a request is about
  target,     \* the work an actor waits for
  enabled,    \* actors whose Notified has not been woken
  todo, left, \* scopes, and records or Sessions, a closer has yet to see to
  holder,     \* who holds subagent_dispatch_receipts
  receipts,
  registered, \* task_executions
  tracked,    \* subagents
  work,       \* how far an execution or an attempt is
  background, \* the OnceCell of an attempt
  cancelled,
  error,      \* latest_task_execution_error: the execution it is about
  again       \* history: scopes whose freed id was closed a second time

sessions == <<fenced, session, services, again>>
waiting == <<target, enabled, todo, left>>
vars == <<connected, sessions, lock, at, on, waiting, holder, receipts, registered, tracked,
          work, background, cancelled, error>>

Scope(w) == ScopeOf[on[w]]

(* completion.settled, or the record's terminal; and its observation.      *)
Settled(w) == work[w] \in {"settled", "done"}
Unknown(w) == work[w] \in {"observed", "retained"}

(* The framework may be at work on it.                                     *)
Live(w) ==
  work[w] \in {"running", "unknown", "setup", "ready", "joining", "doubtful", "observed",
               "retained"}

(* Where an actor may be dropped: it awaits.                               *)
Waits == {"permit", "store", "receipts", "readyPark", "lock", "park", "rest"}

Steps ==
  {"idle", "over", "register", "spawn", "refuse", "respond", "admit", "readyLook", "locks",
   "cancel", "runs", "attempts", "look", "drop", "release", "closed"} \cup Waits

TypeOK ==
  /\ connected \in BOOLEAN /\ fenced \in BOOLEAN
  /\ session \in [Sessions -> {"absent", "open", "closing", "freed", "released"}]
  /\ services \in [Scopes -> Sessions \cup {None}]
  /\ lock \in [Sessions -> Calls \cup {None}]
  /\ at \in [Actors -> Steps]
  /\ on \in [Calls -> Sessions \cup {None}]
  /\ target \in [Actors -> Work \cup {None}]
  /\ enabled \subseteq Actors
  /\ todo \in [Actors -> SUBSET Scopes]
  /\ left \in [Actors -> SUBSET (Dispatches \cup Sessions)]
  /\ holder \in [Sessions -> Dispatches \cup {None}]
  /\ receipts \in [Sessions -> [Keys -> Dispatches \cup {None}]]
  /\ registered \in [Scopes -> Executes \cup {None}]
  /\ tracked \subseteq Dispatches /\ Cardinality(tracked) <= MaxOpenHandles
  /\ work \in [Work -> {"free", "admitted", "unspawned", "running", "failed", "ended", "left",
                        "unknown", "dropped", "setup", "ready", "joining", "refused",
                        "doubtful", "settled", "done", "observed", "retained"}]
  /\ background \in [Dispatches -> {"ok", "error", None}]
  /\ cancelled \subseteq Work
  /\ error \in [Sessions -> Executes \cup {None}]
  /\ again \subseteq Scopes

Init ==
  /\ connected = TRUE /\ fenced = FALSE
  /\ services = [p \in Scopes |-> None]
  /\ lock = [s \in Sessions |-> None]
  /\ \E plan \in Plans :
       /\ at = [k \in Actors |-> IF k \in plan \cup {Host} THEN "idle" ELSE "over"]
       /\ session = [s \in Sessions |-> IF s \in plan THEN "absent" ELSE "released"]
  /\ on = [c \in Calls |-> None]
  /\ target = [k \in Actors |-> None] /\ enabled = {}
  /\ todo = [k \in Actors |-> {}] /\ left = [k \in Actors |-> {}]
  /\ holder = [s \in Sessions |-> None]
  /\ receipts = [s \in Sessions |-> [i \in Keys |-> None]]
  /\ registered = [p \in Scopes |-> None] /\ tracked = {}
  /\ work = [w \in Work |-> "free"] /\ background = [a \in Dispatches |-> None]
  /\ cancelled = {} /\ error = [s \in Sessions |-> None] /\ again = {}

(* The requests that hold a permit of a Session.                           *)
Readers(s) ==
  {c \in Calls \ (Asks \cup Closes) : on[c] = s /\ at[c] \notin {"idle", "permit", "over"}}

Goes(k, step) == at' = [at EXCEPT ![k] = step]
Holds == UNCHANGED <<lock, holder>>

(* An actor that returns lets go of its guards.                            *)
Returns(k) ==
  /\ Goes(k, IF k = Host THEN "idle" ELSE "over")
  /\ target' = [target EXCEPT ![k] = None] /\ enabled' = enabled \ {k}
  /\ todo' = [todo EXCEPT ![k] = {}] /\ left' = [left EXCEPT ![k] = {}]
  /\ lock' = [s \in Sessions |-> IF lock[s] = k THEN None ELSE lock[s]]
  /\ holder' = [s \in Sessions |-> IF holder[s] = k THEN None ELSE holder[s]]

(* It waits for some work: the Notified is enabled before it looks.        *)
Awaits(k, w, step) ==
  /\ Goes(k, step)
  /\ target' = [target EXCEPT ![k] = w] /\ enabled' = enabled \cup {k}
-----------------------------------------------------------------------------
(* Sessions and the requests about them.                                   *)

(* session/create or session/load under an id that is free.                *)
Load(s) ==
  /\ connected /\ ~fenced /\ session[s] = "absent"
  /\ \A n \in Sessions : ScopeOf[n] = ScopeOf[s] => session[n] \in {"absent", "freed", "released"}
  /\ session' = [session EXCEPT ![s] = "open"]
  /\ services' = [services EXCEPT ![ScopeOf[s]] = s]
  /\ UNCHANGED <<connected, fenced, again, lock, at, on, waiting, holder, receipts, registered,
                 tracked, work, background, cancelled, error>>

(* A handler looks its Session up; session/close fences it at once.        *)
Begin(c, s) ==
  /\ connected /\ ~fenced /\ at[c] = "idle" /\ c \notin Asks
  /\ session[s] \in {"open", "closing", "freed"}
  /\ on' = [on EXCEPT ![c] = s]
  /\ Goes(c, IF c \in Closes THEN "lock" ELSE "permit")
  /\ session' = IF c \in Closes /\ session[s] = "open"
                THEN [session EXCEPT ![s] = "closing"] ELSE session
  /\ UNCHANGED <<connected, fenced, services, again, lock, waiting, holder, receipts,
                 registered, tracked, work, background, cancelled, error>>

(* The permit, the closing flag, and the authority services of the id.     *)
Enter(c) ==
  /\ at[c] = "permit" /\ lock[on[c]] = None
  /\ IF session[on[c]] = "open" /\ services[Scope(c)] # None
     THEN /\ Goes(c, CASE c \in Executes -> "register" [] c \in Graphs -> "store"
                       [] OTHER -> "receipts")
          /\ Holds /\ UNCHANGED waiting
     ELSE Returns(c)
  /\ UNCHANGED <<connected, sessions, on, receipts, registered, tracked, work, background,
                 cancelled, error>>

(* task/create, update, list and control: the store answers, or the close  *)
(* of the Session is noticed.                                              *)
LeaveStore(c) ==
  /\ at[c] = "store"
  /\ Returns(c)
  /\ UNCHANGED <<connected, sessions, on, receipts, registered, tracked, work, background,
                 cancelled, error>>
-----------------------------------------------------------------------------
(* task/execute.                                                           *)

Vacant(p) == registered[p] = None

(* try_register_task_execution.                                            *)
Register(e) ==
  /\ at[e] = "register"
  /\ \/ /\ Vacant(Scope(e))
        /\ registered' = [registered EXCEPT ![Scope(e)] = e]
        /\ work' = [work EXCEPT ![e] = "admitted"]
        /\ Goes(e, "spawn") /\ Holds /\ UNCHANGED waiting
     \/ ~Vacant(Scope(e)) /\ Returns(e) /\ UNCHANGED <<registered, work>>
  /\ UNCHANGED <<connected, sessions, on, receipts, tracked, background, cancelled, error>>

(* An earlier failure is forgotten only now, and the connection may be     *)
(* gone.                                                                   *)
Spawn(e) ==
  /\ at[e] = "spawn"
  /\ error' = [error EXCEPT ![on[e]] = None]
  /\ IF connected
     THEN /\ work' = [work EXCEPT ![e] = "running"]
          /\ Goes(e, "respond") /\ UNCHANGED registered
     ELSE /\ work' = [work EXCEPT ![e] = "unspawned"]
          /\ registered' = [registered EXCEPT ![Scope(e)] = None]
          /\ Goes(e, "refuse")
  /\ Holds
  /\ UNCHANGED <<connected, sessions, on, waiting, receipts, tracked, background, cancelled>>

Refuse(e) ==
  /\ at[e] = "refuse"
  /\ error' = [error EXCEPT ![on[e]] = e]
  /\ Returns(e)
  /\ UNCHANGED <<connected, sessions, on, receipts, registered, tracked, work, background,
                 cancelled>>

(* A response that cannot be published cancels the work of the request,    *)
(* and a dispatch then waits for the end of its own; the retry of one does *)
(* neither.                                                                *)
Respond(c) ==
  /\ at[c] = "respond" /\ c \notin Asks
  /\ \/ (connected \/ work[c] = "free") /\ Returns(c) /\ UNCHANGED cancelled
     \/ /\ ~connected /\ work[c] # "free"
        /\ cancelled' = cancelled \cup {c}
        /\ IF c \in Executes THEN Returns(c)
           ELSE Awaits(c, c, "look") /\ Holds /\ UNCHANGED <<todo, left>>
  /\ UNCHANGED <<connected, sessions, on, receipts, registered, tracked, work, background,
                 error>>
-----------------------------------------------------------------------------
(* The task of an execution.                                               *)

TaskOnly(w, step) ==
  /\ work' = [work EXCEPT ![w] = step]
  /\ Holds
  /\ UNCHANGED <<connected, sessions, at, on, target, todo, left, receipts, cancelled>>

LeavesAtOnce(e) ==
  /\ work[e] = "running"
  /\ \E step \in {"ended", "failed", "unknown"} : TaskOnly(e, step)
  /\ registered' = [registered EXCEPT ![Scope(e)] = None]
  /\ UNCHANGED <<enabled, tracked, background, error>>

(* execute_to_settlement returns.                                          *)
RunReturns(e) ==
  /\ work[e] = "running"
  /\ \E step \in {"ended", "failed", "unknown"} : TaskOnly(e, step)
  /\ UNCHANGED <<enabled, registered, tracked, background, error>>

Report(e) ==
  /\ work[e] = "failed"
  /\ TaskOnly(e, "ended")
  /\ error' = [error EXCEPT ![on[e]] = e]
  /\ UNCHANGED <<enabled, registered, tracked, background>>

(* remove_task_execution goes by the scope.                                *)
Leave(e) ==
  /\ work[e] = "ended"
  /\ TaskOnly(e, "left")
  /\ registered' = [registered EXCEPT ![Scope(e)] = None]
  /\ UNCHANGED <<enabled, tracked, background, error>>

Settle(e) ==
  /\ work[e] = "left"
  /\ TaskOnly(e, "settled")
  /\ UNCHANGED <<enabled, registered, tracked, background, error>>

(* ExecutionNotSettled: the entry stays where it is.                       *)
Observe(e) ==
  /\ work[e] = "unknown"
  /\ TaskOnly(e, "observed")
  /\ error' = [error EXCEPT ![on[e]] = e]
  /\ UNCHANGED <<enabled, registered, tracked, background>>

WokenByTerminal(w) == {k \in enabled : target[k] = w /\ work[w] # "observed"}
Woken(w) == {k \in enabled : target[k] = w}

(* notify_waiters wakes those who have enabled their Notified.             *)
Notify(w) ==
  /\ \/ work[w] = "settled" /\ TaskOnly(w, "done")
     \/ work[w] = "observed" /\ TaskOnly(w, "retained")
     \/ work[w] = "ready" /\ TaskOnly(w, "joining")
  /\ enabled' = enabled \ Woken(w)
  /\ UNCHANGED <<registered, tracked, background, error>>
-----------------------------------------------------------------------------
(* subagent/dispatch.                                                      *)

TakeReceipts(c) ==
  /\ at[c] = "receipts"
  /\ \/ /\ holder[on[c]] = None
        /\ holder' = [holder EXCEPT ![on[c]] = c]
        /\ Goes(c, "admit") /\ UNCHANGED <<lock, waiting>>
     \/ session[on[c]] # "open" /\ Returns(c)
  /\ UNCHANGED <<connected, sessions, on, receipts, registered, tracked, work, background,
                 cancelled, error>>

Known(c) == KeyOf[c] # None /\ receipts[on[c]][KeyOf[c]] # None

(* A known id names its attempt, whose readiness is then waited for with   *)
(* the receipts still held, unless it was asked for something else or its  *)
(* record is gone.                                                         *)
Rejoin(c) ==
  /\ at[c] = "admit" /\ Known(c)
  /\ LET a == receipts[on[c]][KeyOf[c]] IN
     \/ /\ a \in tracked
        /\ Awaits(c, a, "readyLook") /\ Holds /\ UNCHANGED <<todo, left>>
     \/ Returns(c)
  /\ UNCHANGED <<connected, sessions, on, receipts, registered, tracked, work, background,
                 cancelled, error>>

RetiresStarted(a) == background[a] # None
Retirable(a) == Settled(a)

(* register_subagent: a full map drops settled records, all but those that *)
(* somebody is just reading (try_lock).                                    *)
Kept(spared) ==
  IF Cardinality(tracked) < MaxOpenHandles THEN tracked
  ELSE {a \in tracked : ~Retirable(a)} \cup spared

HasOneTooMany(spared) == Cardinality(Kept(spared)) <= MaxOpenHandles
HasRoom(spared) == Cardinality(Kept(spared)) < MaxOpenHandles

Remembers(c) ==
  receipts' = IF KeyOf[c] = None THEN receipts ELSE [receipts EXCEPT ![on[c]][KeyOf[c]] = c]

Full(s) == Cardinality({i \in Keys : receipts[s][i] # None}) >= MaxOpenHandles

Admit(c) ==
  /\ at[c] = "admit" /\ ~Known(c)
  /\ \/ KeyOf[c] # None /\ Full(on[c]) /\ Returns(c) /\ UNCHANGED <<receipts, work, tracked>>
     \/ /\ KeyOf[c] = None \/ ~Full(on[c])
        /\ \E spared \in SUBSET {a \in tracked : Settled(a)} :
             \/ /\ ~HasRoom(spared)
                /\ tracked' = Kept(spared)
                /\ Returns(c) /\ UNCHANGED <<receipts, work>>
             \/ /\ HasRoom(spared)
                /\ tracked' = Kept(spared) \cup {c}
                /\ work' = [work EXCEPT ![c] = "setup"]
                /\ Remembers(c)
                /\ holder' = [holder EXCEPT ![on[c]] = None]
                /\ Awaits(c, c, "readyLook") /\ UNCHANGED <<lock, todo, left>>
  /\ UNCHANGED <<connected, sessions, on, registered, background, cancelled, error>>

(* dispatch_original: the setup may fail before the attempt exists, and    *)
(* may not know.                                                           *)
SetupReturns(a) ==
  /\ work[a] = "setup"
  /\ \E step \in {"ready", "refused", "doubtful"} :
       /\ TaskOnly(a, step)
       /\ background' = [background EXCEPT ![a] = IF step = "ready" THEN "ok" ELSE "error"]
  /\ UNCHANGED <<enabled, registered, tracked, error>>

(* retire_unsubmitted_subagent.                                            *)
Withdraw(a) ==
  /\ work[a] = "refused"
  /\ TaskOnly(a, "settled")
  /\ tracked' = tracked \ {a}
  /\ UNCHANGED <<enabled, registered, background, error>>

(* The join of the attempt, or what its setup could not tell.              *)
JoinReturns(a) ==
  /\ \/ work[a] = "joining" /\ \E step \in {"settled", "observed"} : TaskOnly(a, step)
     \/ work[a] = "doubtful" /\ TaskOnly(a, "observed")
  /\ UNCHANGED <<enabled, registered, tracked, background, error>>
-----------------------------------------------------------------------------
(* wait_ready, and wait_settled or the loop of drop_task_executions_of:    *)
(* one round enables its Notified, looks, and parks.                       *)

LookReady(c) ==
  /\ at[c] = "readyLook"
  /\ IF background[target[c]] = "error" THEN Returns(c)
     ELSE /\ Goes(c, IF background[target[c]] = "ok" THEN "respond" ELSE "readyPark")
          /\ enabled' = IF background[target[c]] = "ok" THEN enabled \ {c} ELSE enabled
          /\ Holds /\ UNCHANGED <<target, todo, left>>
  /\ UNCHANGED <<connected, sessions, on, receipts, registered, tracked, work, background,
                 cancelled, error>>

LookSettled(k) ==
  /\ at[k] = "look"
  /\ IF Unknown(target[k]) \/ (Settled(target[k]) /\ k \in Dispatches \cup Asks)
     THEN Returns(k)
     ELSE /\ Goes(k, IF Settled(target[k]) THEN "drop" ELSE "park")
          /\ Holds /\ UNCHANGED waiting
  /\ UNCHANGED <<connected, sessions, on, receipts, registered, tracked, work, background,
                 cancelled, error>>

Wake(k) ==
  /\ k \notin enabled
  /\ \/ at[k] = "readyPark" /\ Goes(k, "readyLook")
     \/ at[k] = "park" /\ Goes(k, "look")
  /\ enabled' = enabled \cup {k}
  /\ Holds
  /\ UNCHANGED <<connected, sessions, on, target, todo, left, receipts, registered, tracked,
                 work, background, cancelled, error>>
-----------------------------------------------------------------------------
(* subagent/await and subagent/control.                                    *)

(* record_of asks for the owner by its ACP id.                             *)
Ask(j) ==
  /\ connected /\ ~fenced /\ at[j] = "idle" /\ j \in Asks
  /\ \E a \in tracked :
       /\ \E s \in Sessions : ScopeOf[s] = Scope(a) /\ session[s] = "open"
       /\ \/ Awaits(j, a, "look")
          \/ ~Settled(a) /\ Awaits(j, a, "readyLook")
  /\ Holds
  /\ UNCHANGED <<connected, sessions, on, todo, left, receipts, registered, tracked, work,
                 background, cancelled, error>>

(* A message changes nothing here.                                         *)
Steer(j) ==
  /\ at[j] = "respond" /\ j \in Asks
  /\ cancelled' \in {cancelled, cancelled \cup {target[j]}}
  /\ Returns(j)
  /\ UNCHANGED <<connected, sessions, on, receipts, registered, tracked, work, background,
                 error>>

Expire(j) ==
  /\ at[j] = "park" /\ j \in Asks
  /\ Returns(j)
  /\ UNCHANGED <<connected, sessions, on, receipts, registered, tracked, work, background,
                 cancelled, error>>
-----------------------------------------------------------------------------
(* drop_session_resources_of and close_all.                                *)

(* drop_task_executions_of the next scope; after the last, the owners of   *)
(* the attempts.                                                           *)
NextRun(k) ==
  /\ at[k] = "runs"
  /\ \/ /\ todo[k] = {}
        /\ todo' = [todo EXCEPT ![k] = IF k = Host THEN {Scope(a) : a \in tracked}
                                       ELSE {Scope(k)}]
        /\ Goes(k, "attempts") /\ UNCHANGED <<target, enabled, cancelled>>
     \/ \E p \in todo[k] :
          \/ /\ Vacant(p)
             /\ todo' = [todo EXCEPT ![k] = @ \ {p}]
             /\ UNCHANGED <<at, target, enabled, cancelled>>
          \/ /\ ~Vacant(p)
             /\ cancelled' = cancelled \cup {registered[p]}
             /\ Awaits(k, registered[p], "look") /\ UNCHANGED todo
  /\ Holds
  /\ UNCHANGED <<connected, sessions, on, left, receipts, registered, tracked, work, background,
                 error>>

(* cancel_subagents_of the next owner, then one record after the other.    *)
NextAttempt(k) ==
  /\ at[k] = "attempts"
  /\ \/ /\ left[k] = {} /\ todo[k] = {}
        /\ Goes(k, "rest") /\ UNCHANGED <<waiting, cancelled>>
     \/ /\ left[k] = {}
        /\ \E p \in todo[k] :
             LET his == {a \in tracked : Scope(a) = p} IN
             /\ todo' = [todo EXCEPT ![k] = @ \ {p}] /\ left' = [left EXCEPT ![k] = his]
             /\ cancelled' = cancelled \cup his
        /\ UNCHANGED <<at, target, enabled>>
     \/ \E a \in left[k] : Awaits(k, a, "look") /\ UNCHANGED <<todo, left, cancelled>>
  /\ Holds
  /\ UNCHANGED <<connected, sessions, on, receipts, registered, tracked, work, background,
                 error>>

(* What was waited for leaves its map.                                     *)
Drop(k) ==
  /\ at[k] = "drop"
  /\ enabled' = enabled \ {k}
  /\ IF target[k] \in Executes
     THEN /\ registered' = [registered EXCEPT ![Scope(target[k])] = None]
          /\ todo' = [todo EXCEPT ![k] = @ \ {Scope(target[k])}]
          /\ Goes(k, "runs") /\ UNCHANGED <<tracked, left>>
     ELSE /\ tracked' = tracked \ {target[k]}
          /\ left' = [left EXCEPT ![k] = @ \ {target[k]}]
          /\ Goes(k, "attempts") /\ UNCHANGED <<registered, todo>>
  /\ target' = [target EXCEPT ![k] = None]
  /\ Holds
  /\ UNCHANGED <<connected, sessions, on, receipts, work, background, cancelled, error>>

(* close_session_owned.                                                    *)
Lock(c) ==
  /\ at[c] = "lock" /\ lock[on[c]] = None /\ Readers(on[c]) = {}
  /\ LET s == on[c] IN
     IF session[s] = "released" THEN Returns(c) /\ UNCHANGED again
     ELSE /\ lock' = [lock EXCEPT ![s] = c]
          /\ todo' = [todo EXCEPT ![c] = {ScopeOf[s]}]
          /\ Goes(c, "runs")
          /\ again' = IF session[s] = "freed" THEN again \cup {ScopeOf[s]} ELSE again
          /\ UNCHANGED <<holder, target, enabled, left>>
  /\ UNCHANGED <<connected, fenced, session, services, on, receipts, registered, tracked, work,
                 background, cancelled, error>>

(* Streams, integrations and the ACP Session, each of which may fail.      *)
Rest(c) ==
  /\ at[c] = "rest"
  /\ \/ Returns(c) /\ UNCHANGED session
     \/ /\ session' = [session EXCEPT ![on[c]] = "freed"]
        /\ Goes(c, "release") /\ Holds /\ UNCHANGED waiting
  /\ UNCHANGED <<connected, fenced, services, again, on, receipts, registered, tracked, work,
                 background, cancelled, error>>

(* The receipts of its Runs may not be written; then the services of its   *)
(* id and its handle go.                                                   *)
Release(c) ==
  /\ at[c] = "release"
  /\ \/ UNCHANGED <<session, services>>
     \/ /\ session' = [session EXCEPT ![on[c]] = "released"]
        /\ services' = [services EXCEPT ![ScopeOf[on[c]]] = None]
  /\ Returns(c)
  /\ UNCHANGED <<connected, fenced, again, on, receipts, registered, tracked, work, background,
                 cancelled, error>>
-----------------------------------------------------------------------------
(* wait_for_settlements of the Host.                                       *)

Fence ==
  /\ at[Host] = "idle"
  /\ fenced' = TRUE
  /\ session' = [s \in Sessions |-> IF session[s] = "open" THEN "closing" ELSE session[s]]
  /\ left' = [left EXCEPT ![Host] = {s \in Sessions : session[s] \in {"open", "closing", "freed"}}]
  /\ Goes(Host, "locks")
  /\ UNCHANGED <<connected, services, again, lock, on, target, enabled, todo, holder, receipts,
                 registered, tracked, work, background, cancelled, error>>

(* Each Session's lock once: its permits have been returned.               *)
Locks ==
  /\ at[Host] = "locks"
  /\ \/ \E s \in left[Host] :
          /\ lock[s] = None /\ Readers(s) = {}
          /\ left' = [left EXCEPT ![Host] = @ \ {s}] /\ UNCHANGED at
     \/ left[Host] = {} /\ Goes(Host, "cancel") /\ UNCHANGED left
  /\ Holds
  /\ UNCHANGED <<connected, sessions, on, target, enabled, todo, receipts, registered, tracked,
                 work, background, cancelled, error>>

CancelAll ==
  /\ at[Host] = "cancel"
  /\ LET scopes == {p \in Scopes : registered[p] # None} IN
     /\ todo' = [todo EXCEPT ![Host] = scopes]
     /\ cancelled' = cancelled \cup {registered[p] : p \in scopes}
  /\ Goes(Host, "runs")
  /\ Holds
  /\ UNCHANGED <<connected, sessions, on, target, enabled, left, receipts, registered, tracked,
                 work, background, error>>

HostRest ==
  /\ at[Host] = "rest"
  /\ \/ Returns(Host)
     \/ Goes(Host, "closed") /\ Holds /\ UNCHANGED waiting
  /\ UNCHANGED <<connected, sessions, on, receipts, registered, tracked, work, background,
                 cancelled, error>>

(* The drain is called with a timeout around close_all.                    *)
Timeout ==
  /\ at[Host] \notin {"idle", "locks", "closed"}
  /\ Returns(Host)
  /\ UNCHANGED <<connected, sessions, on, receipts, registered, tracked, work, background,
                 cancelled, error>>
-----------------------------------------------------------------------------
(* The connection ends, and what rides it is dropped where it awaits.      *)

Disconnect ==
  /\ connected
  /\ connected' = FALSE
  /\ UNCHANGED <<sessions, lock, at, on, waiting, holder, receipts, registered, tracked, work,
                 background, cancelled, error>>

DropCall(c) ==
  /\ ~connected /\ at[c] \in Waits
  /\ Returns(c)
  /\ UNCHANGED <<connected, sessions, on, receipts, registered, tracked, work, background,
                 cancelled, error>>

DropRun(e) ==
  /\ ~connected /\ work[e] = "running"
  /\ TaskOnly(e, "dropped")
  /\ UNCHANGED <<enabled, registered, tracked, background, error>>

(* What goes on without anybody's leave: what is polled, and a setup or a   *)
(* store that has been told to stop.                                       *)
CallStep(c) ==
  \/ Enter(c) \/ Register(c) \/ Spawn(c) \/ Refuse(c) \/ Respond(c)
  \/ TakeReceipts(c) \/ Rejoin(c) \/ Admit(c) \/ LookReady(c) \/ Steer(c) \/ Expire(c)
  \/ LeaveStore(c) /\ session[on[c]] # "open"
  \/ Lock(c) \/ Rest(c) \/ Release(c) \/ DropCall(c)

WaitStep(k) == LookSettled(k) \/ Wake(k) \/ NextRun(k) \/ NextAttempt(k) \/ Drop(k)

TaskStep(w) ==
  \/ Notify(w)
  \/ w \in Executes /\ (Report(w) \/ Leave(w) \/ Settle(w) \/ Observe(w))
  \/ w \in Dispatches /\ (SetupReturns(w) \/ Withdraw(w))

Framework(w) ==
  \/ w \in Executes /\ RunReturns(w)
  \/ w \in Dispatches /\ JoinReturns(w)

HostStep == Locks \/ CancelAll \/ HostRest

Next ==
  \/ \E s \in Sessions : Load(s) \/ \E c \in Calls : Begin(c, s)
  \/ \E c \in Calls : CallStep(c) \/ LeaveStore(c) \/ Ask(c)
  \/ \E k \in Actors : WaitStep(k)
  \/ \E w \in Work : TaskStep(w) \/ Framework(w)
  \/ \E e \in Executes : DropRun(e)
  \/ Fence \/ HostStep \/ Timeout \/ Disconnect

Spec == Init /\ [][Next]_vars

(* Handlers and tasks are polled, locks are handed over in turn; a setup   *)
(* returns, and what has been cancelled ends.                              *)
FairSpec ==
  /\ Spec
  /\ \A c \in Calls : WF_vars(CallStep(c) \/ WaitStep(c))
  /\ WF_vars(HostStep \/ WaitStep(Host)) /\ WF_vars(Timeout)
  /\ \A w \in Work :
       WF_vars(\/ TaskStep(w)
               \/ (w \in cancelled \/ work[w] = "doubtful") /\ Framework(w))
-----------------------------------------------------------------------------
(* What the framework may still be at is in its map, where a close finds   *)
(* it, and neither a released handle nor a closed Host has any: whatever   *)
(* is registered, retired, waited for and removed by scope meanwhile.      *)
(* Only the second close of an id that is free already acts on a namesake. *)
(* And what one Session dispatches under one idempotency id is one         *)
(* attempt, also if its record has been retired or its setup has failed.   *)
WorkIsOwned ==
  /\ \A w \in Work : Live(w) /\ Scope(w) \notin again =>
       /\ IF w \in Executes THEN registered[Scope(w)] = w ELSE w \in tracked
       /\ session[on[w]] # "released" /\ at[Host] # "closed"
  /\ \A a, b \in Dispatches :
       a # b /\ work[a] # "free" /\ work[b] # "free" /\ on[a] = on[b] =>
         KeyOf[a] # KeyOf[b] \/ KeyOf[a] = None

(* The failure that task/list shows is that of the latest execution: one   *)
(* that runs has none of an earlier one's beside it, and only an execution *)
(* that has been admitted forgets it, never one that is refused.  Once     *)
(* more all but under an id that was closed again when it was free: there  *)
(* two executions may be under way.                                        *)
FailuresStand ==
  /\ [](\A e \in Executes :
          work[e] = "running" /\ Scope(e) \notin again => error[on[e]] = None)
  /\ [][\A s \in Sessions : error[s] # None /\ error'[s] = None /\ ScopeOf[s] \notin again =>
          \E e \in Executes :
            on[e] = s /\ work[e] = "admitted" /\ registered[ScopeOf[s]] = e]_vars

(* A request in the store may be there until its Session closes.           *)
Busy(k) == at[k] \notin {"idle", "over", "closed", "store"}

(* No request is left waiting for a lock or a wakeup, nor is the drain of  *)
(* the Host, whose timeout does not cover the locks it takes first.        *)
CallsReturn ==
  /\ <>[](\A c \in Calls : ~Busy(c))
  /\ []<>~Busy(Host)
=============================================================================
