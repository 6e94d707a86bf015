---------------------------- MODULE Publication ----------------------------
(***************************************************************************)
(* Keyed `run/start`: the idempotent publication of one Session's Runs.    *)
(*                                                                         *)
(* A call with an idempotency key reserves a record under that key, or     *)
(* joins the record that is there.  The call that made the record spawns a *)
(* job; the job outlives its caller and every joined caller reads the job's *)
(* result from the record.  A call without a key runs the same job inside  *)
(* its own handler.  Meanwhile callers go away, the Session is closed, and *)
(* the Host fences admission, drains its settlements and drops the keys.   *)
(*                                                                         *)
(* A record is named by the caller whose job it is, and so is the Run that *)
(* the job publishes.  One Session owns every call.  Source: handler.rs    *)
(* (request_publication, run_start, run_start_fresh, close_session_owned), *)
(* handles.rs (PublicationRecord and the registry), state.rs               *)
(* (spawn_publication, settlements), mod.rs (wait_for_settlements).        *)
(***************************************************************************)
EXTENDS Naturals, FiniteSets

CONSTANTS
    Callers,        \* the RPC requests; each one is made at most once
    Keys,           \* idempotency ids
    Payloads,       \* canonical request payloads without their id
    Requests,       \* the key and payload of the calls that are made
    NoKey,          \* a request that carries no idempotency id
    MaxHandles,     \* the registry's quota, here of publication receipts
    None

ASSUME PublicationAssumption ==
    /\ NoKey \notin Keys
    /\ Requests \subseteq [key : Keys \cup {NoKey}, payload : Payloads]
    /\ None \notin Callers \cup Requests
    /\ MaxHandles \in Nat
    /\ IsFiniteSet(Callers)

VARIABLES
    request,        \* what each caller asked for, or None
    stage,          \* where each caller's handler is
    watched,        \* the record a keyed caller waits on
    enabled,        \* callers whose Notified future is registered
    answer,         \* what each caller was told
    publications,   \* key -> record
    publicationsFenced,
    effectsStarted, \* records that passed effect admission
    callerCancelled,\* records withdrawn before admission (the flag and the token)
    result,         \* the observation every waiter of a record reads
    job,            \* where each record's (or unkeyed caller's) job is
    outcome,        \* what the job returned, before it is stored
    turn,           \* the Session's active turn
    runs,           \* Run handles in the registry
    unsettled,      \* Runs whose receipt is not collected yet
    pending,        \* the count pending_settlements
    closing,        \* SessionRecord.closing
    closer,         \* close_session_owned: idle, asked, holding
    sessionOpen,    \* the Session handle is in the registry
    host            \* wait_for_settlements and what follows it

callVars   == <<request, stage, watched, enabled, answer>>
recordVars == <<publications, publicationsFenced, effectsStarted,
                callerCancelled, result>>
jobVars    == <<job, outcome>>
runVars    == <<turn, runs, unsettled>>
closeVars  == <<closing, closer, sessionOpen>>
vars == <<callVars, recordVars, jobVars, runVars, pending, closeVars, host>>

Errors   == {"Closed", "Mismatch", "Quota", "Shutdown", "Cancelled", "Busy", "Failed"}
Ok(r)    == [kind |-> "Ok", run |-> r]
Err(e)   == [kind |-> e, run |-> None]
Results  == [kind : {"Ok"}, run : Callers] \cup [kind : Errors, run : {None}]

Keyed(c) == request[c].key # NoKey

TypeOK ==
    /\ request \in [Callers -> Requests \cup {None}]
    /\ stage \in [Callers -> {"idle", "reserving", "spawning", "direct", "enabling",
                              "reading", "asleep", "owner", "object", "done"}]
    /\ watched \in [Callers -> Callers \cup {None}]
    /\ enabled \subseteq Callers
    /\ answer \in [Callers -> Results \cup {None}]
    /\ publications \in [Keys -> Callers \cup {None}]
    /\ publicationsFenced \in BOOLEAN
    /\ effectsStarted \subseteq Callers
    /\ callerCancelled \subseteq Callers
    /\ result \in [Callers -> Results \cup {None}]
    /\ job \in [Callers -> {"none", "queued", "inside", "admitted", "over", "stored", "ended"}]
    /\ outcome \in [Callers -> Results \cup {None}]
    /\ turn \in Callers \cup {None}
    /\ runs \subseteq Callers
    /\ unsettled \subseteq Callers
    /\ pending \in Nat
    /\ closing \in BOOLEAN
    /\ closer \in {"idle", "asked", "holding"}
    /\ sessionOpen \in BOOLEAN
    /\ host \in {"open", "fenced", "closing", "draining", "timedout", "drained", "released"}

Init ==
    /\ request = [c \in Callers |-> None]
    /\ stage = [c \in Callers |-> "idle"]
    /\ watched = [c \in Callers |-> None]
    /\ enabled = {}
    /\ answer = [c \in Callers |-> None]
    /\ publications = [k \in Keys |-> None]
    /\ publicationsFenced = FALSE
    /\ effectsStarted = {}
    /\ callerCancelled = {}
    /\ result = [c \in Callers |-> None]
    /\ job = [c \in Callers |-> "none"]
    /\ outcome = [c \in Callers |-> None]
    /\ turn = None
    /\ runs = {}
    /\ unsettled = {}
    /\ pending = 0
    /\ closing = FALSE
    /\ closer = "idle"
    /\ sessionOpen = TRUE
    /\ host = "open"

-----------------------------------------------------------------------------
(* A caller's handler: run_start and request_publication.                  *)

\* publication_owner: the handle resolves and the Session is not closing.
OwnerLive == sessionOpen /\ ~closing

Answered(c, a) ==
    /\ stage' = [stage EXCEPT ![c] = "done"]
    /\ answer' = [answer EXCEPT ![c] = a]

\* run_start up to the reservation: validation and the first owner check.
Call(c) ==
    /\ stage[c] = "idle"
    /\ \E req \in Requests : request' = [request EXCEPT ![c] = req]
    /\ IF OwnerLive
         THEN stage' = [stage EXCEPT ![c] = "reserving"] /\ UNCHANGED answer
         ELSE Answered(c, Err("Closed"))
    /\ UNCHANGED <<watched, enabled, recordVars, jobVars, runVars, pending, closeVars, host>>

\* No key: the handler itself awaits the job.
CallDirectly(c) ==
    /\ stage[c] = "reserving"
    /\ ~Keyed(c)
    /\ stage' = [stage EXCEPT ![c] = "direct"]
    /\ job' = [job EXCEPT ![c] = "queued"]
    /\ UNCHANGED <<request, watched, enabled, answer, recordVars, outcome, runVars,
                   pending, closeVars, host>>

\* The published Run is gone: its receipt stays and cannot recreate it.
Retired(r) == result[r] # None /\ result[r].kind = "Ok" /\ result[r].run \notin runs

Receipts == {k \in Keys : publications[k] # None}

\* The key is known with another fingerprint.
NeverConflicts(c, r) == FALSE
Conflicts(c, r) == request[r].payload # request[c].payload

\* reserve_publication, refused.
Refusal(c) ==
    LET r == publications[request[c].key] IN
    IF publicationsFenced THEN "Shutdown"
    ELSE IF r # None
      THEN IF Retired(r) THEN "Closed"
           ELSE IF Conflicts(c, r) THEN "Mismatch"
           ELSE "None"
      ELSE IF Cardinality(Receipts) >= MaxHandles THEN "Quota" ELSE "None"

ReserveRefused(c) ==
    /\ stage[c] = "reserving"
    /\ Keyed(c)
    /\ Refusal(c) # "None"
    /\ Answered(c, Err(Refusal(c)))
    /\ UNCHANGED <<request, watched, enabled, recordVars, jobVars, runVars, pending,
                   closeVars, host>>

\* reserve_publication, an existing record: the caller only observes.
ReserveJoin(c) ==
    /\ stage[c] = "reserving"
    /\ Keyed(c)
    /\ Refusal(c) = "None"
    /\ publications[request[c].key] # None
    /\ watched' = [watched EXCEPT ![c] = publications[request[c].key]]
    /\ stage' = [stage EXCEPT ![c] = "enabling"]
    /\ UNCHANGED <<request, enabled, answer, recordVars, jobVars, runVars, pending,
                   closeVars, host>>

\* reserve_publication, a fresh record.
ReserveFresh(c) ==
    /\ stage[c] = "reserving"
    /\ Keyed(c)
    /\ Refusal(c) = "None"
    /\ publications[request[c].key] = None
    /\ publications' = [publications EXCEPT ![request[c].key] = c]
    /\ watched' = [watched EXCEPT ![c] = c]
    /\ stage' = [stage EXCEPT ![c] = "spawning"]
    /\ UNCHANGED <<request, enabled, answer, publicationsFenced, effectsStarted,
                   callerCancelled, result, jobVars, runVars, pending, closeVars, host>>

\* begin_settlement, and finish_settlement of the job of `c`.
Uncounted == pending
Counted == pending + 1
SettlesUnlessWithdrawn(c) == IF c \in callerCancelled THEN pending ELSE pending - 1
Settled(c) == pending - 1

\* spawn_publication: the job is counted before it is spawned.
SpawnPublication(c) ==
    /\ stage[c] = "spawning"
    /\ pending' = Counted
    /\ job' = [job EXCEPT ![c] = "queued"]
    /\ stage' = [stage EXCEPT ![c] = "enabling"]
    /\ UNCHANGED <<request, watched, enabled, answer, recordVars, outcome, runVars,
                   closeVars, host>>

\* PublicationRecord::wait registers its future, then reads, then sleeps.
Enable(c) ==
    /\ stage[c] = "enabling"
    /\ enabled' = enabled \cup {c}
    /\ stage' = [stage EXCEPT ![c] = "reading"]
    /\ UNCHANGED <<request, watched, answer, recordVars, jobVars, runVars, pending,
                   closeVars, host>>

\* cancel_waiter_before_effects by the caller that made the record, when its
\* PublicationWaiterGuard is dropped.
Withdraws(c) == watched[c] = c /\ c \notin effectsStarted

DropGuard(c) ==
    callerCancelled' = callerCancelled \cup (IF Withdraws(c) THEN {c} ELSE {})

ReadResult(c) ==
    LET seen == result[watched[c]] IN
    /\ stage[c] = "reading"
    /\ CASE seen = None ->
              /\ stage' = [stage EXCEPT ![c] = "asleep"]
              /\ UNCHANGED <<answer, enabled, callerCancelled>>
         [] seen # None /\ seen.kind = "Ok" ->
              /\ stage' = [stage EXCEPT ![c] = "owner"]
              /\ enabled' = enabled \ {c}
              /\ UNCHANGED <<answer, callerCancelled>>
         [] OTHER ->
              /\ Answered(c, seen)
              /\ enabled' = enabled \ {c}
              /\ DropGuard(c)
    /\ UNCHANGED <<request, watched, publications, publicationsFenced, effectsStarted,
                   result, jobVars, runVars, pending, closeVars, host>>

Wake(c) ==
    /\ stage[c] = "asleep"
    /\ c \notin enabled
    /\ stage' = [stage EXCEPT ![c] = "enabling"]
    /\ UNCHANGED <<request, watched, enabled, answer, recordVars, jobVars, runVars,
                   pending, closeVars, host>>

\* The RPC is cancelled, or its handler dropped, where it can be: in wait().
CancelCaller(c) ==
    /\ stage[c] = "asleep"
    /\ Answered(c, Err("Cancelled"))
    /\ enabled' = enabled \ {c}
    /\ DropGuard(c)
    /\ UNCHANGED <<request, watched, publications, publicationsFenced, effectsStarted,
                   result, jobVars, runVars, pending, closeVars, host>>

\* The owner is checked again, then the published Run: two lock sections.
RecheckOwner(c) ==
    /\ stage[c] = "owner"
    /\ IF OwnerLive
         THEN stage' = [stage EXCEPT ![c] = "object"] /\ UNCHANGED answer
         ELSE Answered(c, Err("Closed"))
    /\ UNCHANGED <<request, watched, enabled, recordVars, jobVars, runVars, pending,
                   closeVars, host>>

RecheckRun(c) ==
    LET seen == result[watched[c]] IN
    /\ stage[c] = "object"
    /\ Answered(c, IF seen.run \in runs THEN seen ELSE Err("Closed"))
    /\ UNCHANGED <<request, watched, enabled, recordVars, jobVars, runVars, pending,
                   closeVars, host>>

AnswerDirectly(c) ==
    /\ stage[c] = "direct"
    /\ job[c] = "over"
    /\ Answered(c, outcome[c])
    /\ job' = [job EXCEPT ![c] = "ended"]
    /\ UNCHANGED <<request, watched, enabled, recordVars, outcome, runVars, pending,
                   closeVars, host>>

-----------------------------------------------------------------------------
(* The job: run_start_fresh inside spawn_publication's select.             *)

Readers == {c \in Callers : job[c] \in {"inside", "admitted"}}

\* The lifecycle lock can be taken to write, as far as its readers go.
NoTurnBegun == \A c \in Callers : job[c] # "admitted"
NoReader == Readers = {}

JobReturns(c, res) ==
    /\ job' = [job EXCEPT ![c] = "over"]
    /\ outcome' = [outcome EXCEPT ![c] = res]

\* Take the Session's lifecycle lock to read, then look at `closing`.
JobEnter(c) ==
    /\ job[c] = "queued"
    /\ closer # "holding"
    /\ IF closing
         THEN JobReturns(c, Err("Closed"))
         ELSE job' = [job EXCEPT ![c] = "inside"] /\ UNCHANGED outcome
    /\ UNCHANGED <<callVars, recordVars, runVars, pending, closeVars, host>>

\* admit_publication_effects around Session::begin_turn; only a successful
\* begin_turn marks the effects.  An unkeyed call admits its turn directly.
AdmissionError(c) ==
    IF Keyed(c) /\ publicationsFenced THEN "Shutdown"
    ELSE IF Keyed(c) /\ c \in callerCancelled THEN "Cancelled"
    ELSE IF turn # None THEN "Busy" ELSE "None"

JobAdmit(c) ==
    /\ job[c] = "inside"
    /\ IF AdmissionError(c) = "None"
         THEN /\ turn' = c
              /\ effectsStarted' = effectsStarted \cup {c}
              /\ job' = [job EXCEPT ![c] = "admitted"]
              /\ UNCHANGED outcome
         ELSE /\ JobReturns(c, Err(AdmissionError(c)))
              /\ UNCHANGED <<turn, effectsStarted>>
    /\ UNCHANGED <<callVars, publications, publicationsFenced, callerCancelled, result,
                   runs, unsettled, pending, closeVars, host>>

\* The Run and its stream are registered, counted and driven.
JobPublish(c) ==
    /\ job[c] = "admitted"
    /\ runs' = runs \cup {c}
    /\ unsettled' = unsettled \cup {c}
    /\ pending' = Counted
    /\ JobReturns(c, Ok(c))
    /\ UNCHANGED <<callVars, recordVars, turn, closeVars, host>>

\* The job's ActiveTurn is dropped with it.
TurnReleased(c) == IF turn = c THEN None ELSE turn

\* A later step fails (durable reservation, journal, prepare, handles, spawn):
\* everything registered is taken back.
JobFail(c) ==
    /\ job[c] = "admitted"
    /\ turn' = TurnReleased(c)
    /\ JobReturns(c, Err("Failed"))
    /\ UNCHANGED <<callVars, recordVars, runs, unsettled, pending, closeVars, host>>

\* The select's first branch: the token fired, the job's future is dropped.
JobWithdrawn(c) ==
    /\ job[c] \in {"queued", "inside", "admitted"}
    /\ Keyed(c)
    /\ c \in callerCancelled
    /\ turn' = TurnReleased(c)
    /\ JobReturns(c, Err("Cancelled"))
    /\ UNCHANGED <<callVars, recordVars, runs, unsettled, pending, closeVars, host>>

\* The key is free again only if nothing happened under it.
ReleasesEveryKey(c) == publications[request[c].key] = c
ReleasesKey(c) == c \notin effectsStarted /\ publications[request[c].key] = c

\* finish_publication: store the result; release the key unless effects began.
FinishPublication(c) ==
    /\ job[c] = "over"
    /\ Keyed(c)
    /\ result' = [result EXCEPT ![c] = outcome[c]]
    /\ publications' =
         IF ReleasesKey(c)
           THEN [publications EXCEPT ![request[c].key] = None] ELSE publications
    /\ job' = [job EXCEPT ![c] = "stored"]
    /\ UNCHANGED <<callVars, publicationsFenced, effectsStarted, callerCancelled,
                   outcome, runVars, pending, closeVars, host>>

\* Whose future notify_waiters completes.
WokenBy(c) == {w \in enabled : watched[w] = c}

\* notify_waiters, after the locks are released, then finish_settlement.
NotifyAndSettle(c) ==
    /\ job[c] = "stored"
    /\ enabled' = enabled \ WokenBy(c)
    /\ pending' = Settled(c)
    /\ job' = [job EXCEPT ![c] = "ended"]
    /\ UNCHANGED <<request, stage, watched, answer, recordVars, outcome, runVars,
                   closeVars, host>>

\* The framework ends the turn and publishes its receipt ...
TurnEnds(c) ==
    /\ turn = c
    /\ c \in unsettled
    /\ turn' = None
    /\ UNCHANGED <<callVars, recordVars, jobVars, runs, unsettled, pending, closeVars, host>>

\* ... which the collector persists before it leaves the settlement count.
CollectReceipt(c) ==
    /\ c \in unsettled
    /\ turn # c
    /\ unsettled' = unsettled \ {c}
    /\ pending' = Settled(c)
    /\ UNCHANGED <<callVars, recordVars, jobVars, turn, runs, closeVars, host>>

-----------------------------------------------------------------------------
(* Closing the Session: close_session_owned.                               *)

CloseSession ==
    /\ closer = "idle"
    /\ sessionOpen
    /\ closing' = TRUE
    /\ closer' = "asked"
    /\ UNCHANGED <<callVars, recordVars, jobVars, runVars, pending, sessionOpen, host>>

CloseLock ==
    /\ closer = "asked"
    /\ NoReader
    /\ closer' = "holding"
    /\ UNCHANGED <<callVars, recordVars, jobVars, runVars, pending, closing, sessionOpen, host>>

\* One Run of the Session: its receipt is awaited, its handle removed.
CloseRun(c) ==
    /\ closer = "holding"
    /\ c \in runs
    /\ turn # c
    /\ runs' = runs \ {c}
    /\ UNCHANGED <<callVars, recordVars, jobVars, turn, unsettled, pending, closeVars, host>>

CloseDone ==
    /\ closer = "holding"
    /\ runs = {}
    /\ sessionOpen' = FALSE
    /\ closer' = "idle"
    /\ UNCHANGED <<callVars, recordVars, jobVars, runVars, pending, closing, host>>

\* A cleanup step fails: the lock is released, the handle stays to retry.
CloseFails ==
    /\ closer = "holding"
    /\ closer' = "idle"
    /\ UNCHANGED <<callVars, recordVars, jobVars, runVars, pending, closing, sessionOpen, host>>

-----------------------------------------------------------------------------
(* Closing the Host: wait_for_settlements, then release_after_agents.      *)

HostFence ==
    /\ host \in {"open", "timedout"}
    /\ publicationsFenced' = TRUE
    /\ callerCancelled' = callerCancelled \cup
         ({publications[k] : k \in Receipts} \ effectsStarted)
    /\ host' = "fenced"
    /\ UNCHANGED <<callVars, publications, effectsStarted, result, jobVars, runVars,
                   pending, closeVars>>

\* fence_sessions marks the Sessions that are there.
HostFenceSessions ==
    /\ host = "fenced"
    /\ closing' = (closing \/ sessionOpen)
    /\ host' = "closing"
    /\ UNCHANGED <<callVars, recordVars, jobVars, runVars, pending, closer, sessionOpen>>

\* The write lock of each is taken once, so no publication is half done.
HostPassLock ==
    /\ host = "closing"
    /\ NoReader
    /\ closer # "holding"
    /\ host' = "draining"
    /\ UNCHANGED <<callVars, recordVars, jobVars, runVars, pending, closeVars>>

HostDrained ==
    /\ host = "draining"
    /\ pending = 0
    /\ host' = "drained"
    /\ UNCHANGED <<callVars, recordVars, jobVars, runVars, pending, closeVars>>

\* The drain times out, or a durable receipt it retries cannot be written; the
\* close owner calls again.
HostDrainFails ==
    /\ host = "draining"
    /\ host' = "timedout"
    /\ UNCHANGED <<callVars, recordVars, jobVars, runVars, pending, closeVars>>

\* discard_publications_after_settlement
HostRelease ==
    /\ host = "drained"
    /\ publications' = [k \in Keys |-> None]
    /\ host' = "released"
    /\ UNCHANGED <<callVars, publicationsFenced, effectsStarted, callerCancelled, result,
                   jobVars, runVars, pending, closeVars>>

-----------------------------------------------------------------------------
CallerStep(c) ==
    \/ CallDirectly(c) \/ ReserveRefused(c) \/ ReserveJoin(c) \/ ReserveFresh(c)
    \/ SpawnPublication(c) \/ Enable(c) \/ ReadResult(c) \/ Wake(c)
    \/ RecheckOwner(c) \/ RecheckRun(c) \/ AnswerDirectly(c)

JobStep(c) ==
    \/ JobAdmit(c) \/ JobPublish(c) \/ JobWithdrawn(c)
    \/ FinishPublication(c) \/ NotifyAndSettle(c)

RunStep(c) == TurnEnds(c) \/ CollectReceipt(c)

CloseStep == CloseDone \/ \E c \in Callers : CloseRun(c)

HostStep == HostFenceSessions \/ HostDrained \/ HostRelease

Next ==
    \/ \E c \in Callers :
         \/ Call(c) \/ CancelCaller(c) \/ CallerStep(c)
         \/ JobEnter(c) \/ JobFail(c) \/ JobStep(c) \/ RunStep(c)
    \/ CloseSession \/ CloseLock \/ CloseFails \/ CloseStep
    \/ HostFence \/ HostPassLock \/ HostDrainFails \/ HostStep

Spec == Init /\ [][Next]_vars

(* Handlers, jobs and collectors are tasks of a runtime that polls what is  *)
(* ready; turns end (the framework cancels and settles them); the lifecycle *)
(* lock is a tokio RwLock, whose queue is first come first served, so who   *)
(* asks for it again and again gets it: strong fairness.  Nobody has to     *)
(* call, cancel, close, fail or time out.                                   *)
Fairness ==
    /\ \A c \in Callers :
         /\ WF_vars(CallerStep(c))
         /\ WF_vars(JobStep(c) \/ JobFail(c))
         /\ WF_vars(RunStep(c))
         /\ SF_vars(JobEnter(c))
    /\ SF_vars(CloseLock)
    /\ SF_vars(HostPassLock)
    /\ WF_vars(CloseStep)
    /\ WF_vars(HostStep)

FairSpec == Spec /\ Fairness
-----------------------------------------------------------------------------
(* Properties                                                              *)

\* A key begins a turn at most once in the life of its Session: whatever is
\* cancelled, retried, failed, closed or fenced, no second caller of the key
\* passes effect admission.  (reserve_publication never evicts, and
\* finish_publication releases a key only before its effects.)
OneTurnPerKey ==
    \A c, d \in effectsStarted :
        c # d /\ Keyed(c) => request[c].key # request[d].key

\* Callers of one key that are told Ok were told the same Run, and asked with
\* the payload that Run was started with.
SamePublication ==
    \A c \in Callers :
        answer[c] # None /\ answer[c].kind = "Ok" /\ Keyed(c) =>
            LET r == answer[c].run IN
            /\ r \in effectsStarted
            /\ request[r] = request[c]

\* A record withdrawn by its caller or by the fence never had an effect and
\* never gets one: the select that drops the job cannot cut a started Run.
WithdrawnHasNoEffect ==
    \A c \in callerCancelled : c \notin effectsStarted /\ turn # c /\ c \notin runs

\* The active turn is always in somebody's hands: a job that is still going to
\* publish or release it, or a driven Run.  A failed or dropped job that kept
\* it would answer every later run/start of the Session with Busy.
TurnIsOwned ==
    turn # None => job[turn] = "admitted" \/ turn \in unsettled

\* The settlement count is the number of keyed jobs and driven Runs that are
\* not finished, so a count of zero means that there are none.
PendingCountsWork ==
    pending = Cardinality({c \in Callers : request[c] # None /\ Keyed(c) /\
                             job[c] \in {"queued", "inside", "admitted", "over", "stored"}})
              + Cardinality(unsettled)

\* Once the drain has succeeded nothing of the Session runs and nothing starts:
\* not a keyed job, and not a call without a key either, which admission
\* fencing does not stop (the lifecycle lock and `closing` do).
DrainedIsQuiet ==
    host \in {"drained", "released"} =>
        turn = None /\ unsettled = {} /\ \A c \in Callers : job[c] # "admitted"

\* A Session handle that is gone leaves no Run handle, no turn and no job that
\* could publish one.
ClosedSessionHasNoRun ==
    ~sessionOpen => runs = {} /\ turn = None /\ Readers = {}

\* Nothing that is unfinished is lost track of: neither the turn nor the count
\* survives its last owner, and neither goes before it.
WorkIsAccounted == TurnIsOwned /\ PendingCountsWork

\* What a close has promised: the drain of the Host, or of the Session, leaves
\* nothing behind that runs, and nothing that could still begin to.
ClosedIsQuiet == DrainedIsQuiet /\ ClosedSessionHasNoRun

\* Every call is answered: a waiter is woken by the job it joined, whoever
\* made that job has long gone, and a Session or Host close wakes it too.  And
\* after the fence the settlement count reaches zero for good, so that a close
\* that is retried after a timeout succeeds.
WaitsEnd ==
    <>[](/\ \A c \in Callers : stage[c] \in {"idle", "done"}
         /\ publicationsFenced => pending = 0)
=============================================================================
