------------------------------ MODULE HostClose ------------------------------
(***************************************************************************)
(* HostCloseOwner and connect_owned (echo-sdk-host/src/lib.rs): one        *)
(* connection actor, one collector of its result, the run future that      *)
(* started them, and any number of close() calls, which may all be         *)
(* dropped and repeated.  run_stdio adds a guard that closes by itself,    *)
(* again and again, when its future is dropped or fails.                   *)
(*                                                                         *)
(* Waiting is tokio's Notify: a waiter enables its Notified (arms), looks  *)
(* at the flag, and parks; notify_waiters wakes whoever is armed.          *)
(***************************************************************************)
EXTENDS Naturals

CONSTANTS
  Callers,      \* callers of close() that own the HostCloseOwner
  run, guard,   \* the run future, and the cleanup task of HostRunDropGuard
  actor,        \* the spawned connection actor
  MaxFailures,  \* bound: framework closes that fail or time out
  MaxDrops,     \* bound: close() futures that are dropped
  Unset

ClosingTasks == Callers \cup {run, guard}
Procs == ClosingTasks \cup {actor}

ASSUME FourRoles == /\ run # guard /\ run # actor /\ guard # actor
                    /\ Callers \cap {run, guard, actor} = {}
ASSUME UnsetIsNoOutcome ==
  Unset \notin {"ok", "err", "dropped", "stopped", "finished", "failed"}
ASSUME Bounds == MaxFailures \in Nat /\ MaxDrops \in Nat

VARIABLES
  place,        \* where each process is
  topic,        \* what it waits for: one Notify and one flag each
  armed,        \* processes whose Notified is enabled and not yet notified
  handle,       \* the framework's close handle is held
  attached, stopping, activated, pollStarted, actorStop,  \* the owner's flags
  actorResult,  \* Unset, "ok" or "err"
  gate,         \* holder of close_gate, or Unset
  actorEnd,     \* how the actor ended: Unset, "stopped", "finished" or "failed"
  collector,    \* "off", "joining", "publishing", "waking", "done"
  framework,    \* "unbound", "open" or "closed" (external)
  outcome,      \* how each closer's last close() or run returned
  failures, drops,
  automatic     \* run_stdio (with the guard) or run_stdio_with_close_owner (with Callers)

flags == <<handle, attached, stopping, activated, pollStarted, actorStop>>
hostVars == <<place, topic, armed, flags, actorResult, gate, actorEnd, collector, framework,
              outcome, failures, drops>>

Topics == {"activation", "result", "connected", "stop"}
Places == {"idle", "retaining", "spawning", "gate", "arm", "look", "down", "park", "framework",
           "settled", "ringing", "returned", "spawned", "polling", "ended"}

TypeOK ==
  /\ place \in [Procs -> Places] /\ topic \in [Procs -> Topics] /\ armed \subseteq Procs
  /\ {handle, attached, stopping, activated, pollStarted, actorStop} \subseteq BOOLEAN
  /\ actorResult \in {Unset, "ok", "err"}
  /\ gate \in {Unset} \cup
             {c \in ClosingTasks : place[c] \in {"arm", "look", "down", "park", "framework",
                                                 "settled", "ringing"}}
  /\ actorEnd \in {Unset, "stopped", "finished", "failed"}
  /\ collector \in {"off", "joining", "publishing", "waking", "done"}
  /\ framework \in {"unbound", "open", "closed"}
  /\ outcome \in [ClosingTasks -> {Unset, "ok", "err", "dropped"}]
  /\ failures \in 0..MaxFailures /\ drops \in 0..MaxDrops /\ automatic \in BOOLEAN

HostInit ==
  /\ place = [p \in Procs |-> "idle"] /\ topic = [p \in Procs |-> "activation"] /\ armed = {}
  /\ handle = FALSE /\ attached = FALSE /\ stopping = FALSE
  /\ activated = FALSE /\ pollStarted = FALSE /\ actorStop = FALSE
  /\ actorResult = Unset /\ gate = Unset /\ actorEnd = Unset /\ collector = "off"
  /\ framework = "unbound" /\ outcome = [c \in ClosingTasks |-> Unset]
  /\ failures = 0 /\ drops = 0
  /\ automatic \in BOOLEAN

-----------------------------------------------------------------------------
(* Waiting for a flag (wait_stopped, wait_activated, wait_actor_result).   *)

Flag(t) ==
  CASE t = "activation" -> activated
    [] t \in {"result", "connected"} -> actorResult # Unset
    [] t = "stop" -> actorStop

Moves(p, to) == place' = [place EXCEPT ![p] = to]
Waits(p, t) == /\ place' = [place EXCEPT ![p] = "arm"]
               /\ topic' = [topic EXCEPT ![p] = t]

WakesParkedOnly(ts) == {p \in armed : place[p] = "park" /\ topic[p] \in ts}

\* notify_waiters on one Notify; "result" and "connected" share actor_settled.
Notified(ts) == {p \in armed : topic[p] \in ts}

Arm(p) ==
  /\ place[p] = "arm"
  /\ Moves(p, "look") /\ armed' = armed \cup {p}
  /\ UNCHANGED <<topic, flags, actorResult, gate, actorEnd, collector, framework, outcome,
                 failures, drops>>

Peek(p) ==
  /\ place[p] = "look" /\ ~Flag(topic[p])
  /\ Moves(p, "down")
  /\ UNCHANGED <<topic, armed, flags, actorResult, gate, actorEnd, collector, framework,
                 outcome, failures, drops>>

\* The flag was down: the task sleeps on the Notified it armed before it looked.
Park(p) ==
  /\ place[p] = "down"
  /\ Moves(p, "park")
  /\ UNCHANGED <<topic, armed, flags, actorResult, gate, actorEnd, collector, framework,
                 outcome, failures, drops>>

Wake(p) ==
  /\ place[p] = "park" /\ p \notin armed
  /\ Moves(p, "arm")
  /\ UNCHANGED <<topic, armed, flags, actorResult, gate, actorEnd, collector, framework,
                 outcome, failures, drops>>

Saw(p, t) == place[p] = "look" /\ topic[p] = t /\ Flag(t) /\ armed' = armed \ {p}

-----------------------------------------------------------------------------
(* The run future: connect_owned.                                          *)

Returns(c, result) ==
  /\ place' = [place EXCEPT ![c] = IF c = run THEN "returned" ELSE "idle"]
  /\ outcome' = [outcome EXCEPT ![c] = result]

RunStarts ==
  /\ place[run] = "idle"
  /\ IF stopping THEN Returns(run, "err") ELSE Moves(run, "retaining") /\ UNCHANGED outcome
  /\ UNCHANGED <<topic, armed, flags, actorResult, gate, actorEnd, collector, framework,
                 failures, drops>>

IgnoresFence == FALSE

\* retain refuses an owner that has been used, or closed before it was used.
Fenced == attached

RetainHandle ==
  /\ place[run] = "retaining"
  /\ IF Fenced THEN Returns(run, "err") /\ UNCHANGED <<attached, handle>>
     ELSE attached' = TRUE /\ handle' = TRUE /\ Moves(run, "spawning") /\ UNCHANGED outcome
  /\ UNCHANGED <<topic, armed, stopping, activated, pollStarted, actorStop, actorResult,
                 gate, actorEnd, collector, framework, failures, drops>>

\* The actor and its one collector are spawned, and the run waits for the result.
Spawn ==
  /\ place[run] = "spawning"
  /\ place' = [place EXCEPT ![run] = "arm", ![actor] = "spawned"]
  /\ topic' = [topic EXCEPT ![run] = "connected"]
  /\ collector' = "joining"
  /\ UNCHANGED <<armed, flags, actorResult, gate, actorEnd, framework, outcome, failures, drops>>

-----------------------------------------------------------------------------
(* HostCloseOwner::close.                                                  *)

\* The guard closes until it succeeds; the run closes when its connection is over.
MayCall(c) ==
  \/ c \in Callers /\ ~automatic /\ place[c] = "idle"
  \/ /\ c = guard /\ automatic /\ place[guard] = "idle" /\ outcome[guard] # "ok"
     /\ place[run] = "returned" /\ outcome[run] # "ok"

Call(c) ==
  /\ MayCall(c)
  /\ stopping' = TRUE /\ Moves(c, "gate")
  /\ UNCHANGED <<topic, armed, handle, attached, activated, pollStarted, actorStop,
                 actorResult, gate, actorEnd, collector, framework, outcome, failures, drops>>

RunCloses ==
  /\ Saw(run, "connected")
  /\ stopping' = TRUE /\ Moves(run, "gate")
  /\ UNCHANGED <<topic, handle, attached, activated, pollStarted, actorStop, actorResult,
                 gate, actorEnd, collector, framework, outcome, failures, drops>>

\* What a close() that found nothing to do means to its caller: the run goes on to
\* return how its connection ended.
AfterOk(c) == IF c = run THEN actorResult ELSE "ok"

Enter(c) ==
  /\ place[c] = "gate" /\ gate = Unset
  /\ attached' = TRUE
  /\ IF handle THEN gate' = c /\ Waits(c, "activation") /\ UNCHANGED outcome
     ELSE Returns(c, AfterOk(c)) /\ UNCHANGED <<gate, topic>>
  /\ UNCHANGED <<armed, handle, stopping, activated, pollStarted, actorStop, actorResult,
                 actorEnd, collector, framework, failures, drops>>

\* The framework has been bound to a connection, so its close can settle.
Bound == pollStarted

\* An actor that never polled its connection leaves nothing for the framework to close.
SeesActivation(c) ==
  /\ Saw(c, "activation")
  /\ IF Bound THEN Moves(c, "framework") /\ UNCHANGED topic ELSE Waits(c, "result")
  /\ UNCHANGED <<flags, actorResult, gate, actorEnd, collector, framework, outcome, failures,
                 drops>>

FrameworkSettles(c) ==
  /\ place[c] = "framework" /\ framework # "unbound"
  /\ framework' = "closed" /\ Moves(c, "settled")
  /\ UNCHANGED <<topic, armed, flags, actorResult, gate, actorEnd, collector, outcome, failures,
                 drops>>

\* A close that fails keeps the handle for the next attempt.
KeptAfterFailure == handle

FrameworkFails(c) ==
  /\ place[c] = "framework" /\ framework # "unbound"
  /\ failures < MaxFailures /\ failures' = failures + 1
  /\ handle' = KeptAfterFailure
  /\ gate' = Unset /\ Returns(c, "err")
  /\ UNCHANGED <<topic, armed, attached, stopping, activated, pollStarted, actorStop,
                 actorResult, actorEnd, collector, framework, drops>>

FrameworkIsClosed(c) == place[c] = "settled"

StopActor(c) ==
  /\ FrameworkIsClosed(c)
  /\ actorStop' = TRUE /\ Moves(c, "ringing")
  /\ UNCHANGED <<topic, armed, handle, attached, stopping, activated, pollStarted,
                 actorResult, gate, actorEnd, collector, framework, outcome, failures, drops>>

RingStop(c) ==
  /\ c # actor /\ place[c] = "ringing"
  /\ armed' = armed \ Notified({"stop"})
  /\ Waits(c, "result")
  /\ UNCHANGED <<flags, actorResult, gate, actorEnd, collector, framework, outcome, failures,
                 drops>>

SeesResult(c) ==
  /\ Saw(c, "result")
  /\ handle' = FALSE /\ gate' = Unset
  /\ Returns(c, actorResult)
  /\ UNCHANGED <<topic, attached, stopping, activated, pollStarted, actorStop, actorResult,
                 actorEnd, collector, framework, failures, drops>>

KeepsGate(c) == gate

\* The lock guard is dropped with the future that holds it.
GateWithout(c) == IF gate = c THEN Unset ELSE gate

\* The future of a close(), or of the run, is dropped where it awaits.
Drop(c) ==
  /\ c \in Callers \cup {run} /\ place[c] \in {"gate", "park", "framework"}
  /\ drops < MaxDrops /\ drops' = drops + 1
  /\ gate' = GateWithout(c)
  /\ armed' = armed \ {c}
  /\ Returns(c, "dropped")
  /\ UNCHANGED <<topic, flags, actorResult, actorEnd, collector, framework, failures>>

-----------------------------------------------------------------------------
(* The connection actor, and the collector that joins it.                  *)

ActorPolls ==
  /\ place[actor] = "spawned"
  /\ pollStarted' = TRUE /\ framework' = "open" /\ Moves(actor, "polling")
  /\ UNCHANGED <<topic, armed, handle, attached, stopping, activated, actorStop,
                 actorResult, gate, actorEnd, collector, outcome, failures, drops>>

ActorActivates ==
  /\ place[actor] = "polling"
  /\ activated' = TRUE /\ Moves(actor, "ringing")
  /\ UNCHANGED <<topic, armed, handle, attached, stopping, pollStarted, actorStop,
                 actorResult, gate, actorEnd, collector, framework, outcome, failures, drops>>

\* After the first poll the connection runs beside the wait for actor_stop.
ActorRings ==
  /\ place[actor] = "ringing"
  /\ armed' = armed \ Notified({"activation"})
  /\ Waits(actor, "stop")
  /\ UNCHANGED <<flags, actorResult, gate, actorEnd, collector, framework, outcome, failures,
                 drops>>

Ends(how) == /\ Moves(actor, "ended") /\ actorEnd' = how
             /\ UNCHANGED <<topic, flags, actorResult, gate, collector, framework, outcome,
                            failures, drops>>

ActorStops == Saw(actor, "stop") /\ Ends("stopped")

\* The transport closes, or the task panics or is aborted, before its first poll too.
ConnectionEnds ==
  /\ \/ place[actor] = "park" /\ Ends("finished")
     \/ place[actor] \in {"spawned", "polling", "park"} /\ Ends("failed")
  /\ armed' = armed \ {actor}

CollectorJoins ==
  /\ collector = "joining" /\ actorEnd # Unset
  /\ actorResult' = (IF actorEnd = "failed" THEN "err" ELSE "ok")
  /\ collector' = "publishing"
  /\ UNCHANGED <<place, topic, armed, flags, gate, actorEnd, framework, outcome, failures, drops>>

ResultIsPublished == collector = "publishing"

CollectorActivates ==
  /\ ResultIsPublished
  /\ activated' = TRUE /\ collector' = "waking"
  /\ UNCHANGED <<place, topic, armed, handle, attached, stopping, pollStarted, actorStop,
                 actorResult, gate, actorEnd, framework, outcome, failures, drops>>

CollectorWakes ==
  /\ collector = "waking"
  /\ armed' = armed \ Notified({"activation", "result", "connected"})
  /\ collector' = "done"
  /\ UNCHANGED <<place, topic, flags, actorResult, gate, actorEnd, framework, outcome, failures,
                 drops>>

-----------------------------------------------------------------------------
Awaits(p) == Arm(p) \/ Peek(p) \/ Park(p) \/ Wake(p)
RunStep == RunStarts \/ RetainHandle \/ Spawn \/ RunCloses
CloseStep(c) ==
  SeesActivation(c) \/ FrameworkSettles(c) \/ FrameworkFails(c) \/ StopActor(c)
    \/ RingStop(c) \/ SeesResult(c)
ActorStep == ActorPolls \/ ActorActivates \/ ActorRings \/ ActorStops
CollectorStep == CollectorJoins \/ CollectorActivates \/ CollectorWakes

HostNext ==
  /\ \/ \E p \in Procs : Awaits(p)
     \/ \E c \in ClosingTasks : Call(c) \/ Enter(c) \/ CloseStep(c) \/ Drop(c)
     \/ RunStep \/ ActorStep \/ ConnectionEnds \/ CollectorStep
  /\ UNCHANGED automatic

HostSpec == HostInit /\ [][HostNext]_<<hostVars, automatic>>

\* Tasks that can run do, the guard's retry included, and close_gate is a fair (FIFO)
\* lock; nobody has to call close, drop a future, or end the connection.
FairHostClose ==
  /\ HostSpec
  /\ \A p \in Procs : WF_hostVars(Awaits(p))
  /\ \A c \in ClosingTasks : SF_hostVars(Enter(c)) /\ WF_hostVars(CloseStep(c))
  /\ WF_hostVars(Call(guard)) /\ WF_hostVars(RetainHandle \/ Spawn \/ RunCloses)
  /\ WF_hostVars(ActorStep) /\ WF_hostVars(CollectorStep)

-----------------------------------------------------------------------------
(* Properties.                                                             *)

\* "Dropping or timing out the run future does not drop the framework's close owner"
\* (lib.rs): as long as the framework has something to close, the handle to close it
\* is there, and the actor that its callbacks need has not been told to stop.
FrameworkIsServed == framework = "open" => handle /\ actorEnd # "stopped"

\* After any close that succeeded the connection is over and nothing of the framework
\* is left, whatever was raced, dropped or retried; nor can the run start any more.
CloseIsFinal ==
  (\E c \in ClosingTasks : outcome[c] = "ok") =>
    /\ place[actor] \in {"idle", "ended"} /\ framework # "open"
    /\ place[run] # "spawning"

\* Closing is safe at every moment: the framework keeps what its close needs until it
\* is closed, and a close that has succeeded stays true.
CloseIsSound == FrameworkIsServed /\ CloseIsFinal

\* Every close that is not dropped returns, whoever else closes at the same time.
CloseReturns == \A c \in ClosingTasks : (place[c] = "gate") ~> (place[c] \in {"idle", "returned"})

\* A run of run_stdio that failed or was dropped is cleaned up by its guard in the end.
CleanupSettles ==
  (automatic /\ place[run] = "returned" /\ outcome[run] # "ok")
    ~> (framework # "open" /\ ~handle)

\* Whoever closes gets through, and what nobody closes is closed by the guard.
ClosesComplete == CloseReturns /\ CleanupSettles
=============================================================================
