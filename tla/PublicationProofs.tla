------------------------- MODULE PublicationProofs -------------------------
(***************************************************************************)
(* Proofs about Publication, for any number of callers, keys and payloads, *)
(* any requests and any quota.                                             *)
(*                                                                         *)
(* The safety properties of the module are not inductive: each holds       *)
(* because of where the jobs are.  The strengthening says, for every       *)
(* caller, what its stage and its job's stage have already done to the     *)
(* registry (Reserved), to the turn and the Runs (Driven), to the result   *)
(* (Recorded) and to the two lifecycles (Closing).                         *)
(***************************************************************************)
EXTENDS Publication, FiniteSetTheorems, TLAPS

USE PublicationAssumption DEF PublicationAssumption

Asked(c) == request[c] # None

\* The keyed jobs that spawn_publication counts and has not settled.
CountedJobs == {c \in Callers : Asked(c) /\ Keyed(c) /\
                  job[c] \in {"queued", "inside", "admitted", "over", "stored"}}

\* The types, but for the sign of the count.
Typed ==
    /\ request \in [Callers -> Requests \cup {None}]
    /\ stage \in [Callers -> {"idle", "reserving", "spawning", "direct", "enabling",
                              "reading", "asleep", "owner", "object", "done"}]
    /\ watched \in [Callers -> Callers \cup {None}]
    /\ enabled \subseteq Callers
    /\ answer \in [Callers -> Results \cup {None}]
    /\ publications \in [Keys -> Callers \cup {None}]
    /\ publicationsFenced \in BOOLEAN
    /\ effectsStarted \subseteq Callers
    /\ callerCancelled \subseteq Callers
    /\ result \in [Callers -> Results \cup {None}]
    /\ job \in [Callers -> {"none", "queued", "inside", "admitted", "over", "stored", "ended"}]
    /\ outcome \in [Callers -> Results \cup {None}]
    /\ turn \in Callers \cup {None}
    /\ runs \subseteq Callers
    /\ unsettled \subseteq Callers
    /\ closing \in BOOLEAN
    /\ closer \in {"idle", "asked", "holding"}
    /\ sessionOpen \in BOOLEAN
    /\ host \in {"open", "fenced", "closing", "draining", "timedout", "drained", "released"}

\* Callers, their records and the registry's keys.
Reserved ==
    /\ \A c \in Callers :
         /\ Asked(c) <=> stage[c] # "idle"
         /\ stage[c] \in {"idle", "reserving", "spawning"} => job[c] = "none"
         /\ stage[c] = "spawning" => Keyed(c)
         /\ stage[c] = "direct" => ~Keyed(c)
         /\ job[c] # "none" => Asked(c)
         /\ job[c] = "stored" => Keyed(c)
         /\ stage[c] \in {"spawning", "enabling", "reading", "asleep", "owner", "object"} =>
              watched[c] # None
         /\ watched[c] # None =>
              Asked(c) /\ Keyed(c) /\ request[watched[c]] = request[c]
         /\ stage[c] = "spawning" \/ (job[c] \in {"queued", "inside"} /\ Keyed(c)) =>
              host = "released" \/ publications[request[c].key] = c
    /\ \A k \in Keys : publications[k] # None =>
         Asked(publications[k]) /\ request[publications[k]].key = k
    /\ \A c \in effectsStarted : Keyed(c) =>
         host = "released" \/ publications[request[c].key] = c
    /\ host # "open" => publicationsFenced

\* Effects, the turn and the Runs.
Driven ==
    /\ \A c \in effectsStarted : job[c] \notin {"none", "queued", "inside"}
    /\ \A c \in Callers : job[c] = "admitted" => turn = c
    /\ turn # None => turn \in effectsStarted
    /\ turn # None => job[turn] = "admitted" \/ (turn \in unsettled /\ turn \in runs)
    /\ \A c \in runs \cup unsettled :
         c \in effectsStarted /\ job[c] \in {"over", "stored", "ended"}
    /\ \A c \in callerCancelled : Asked(c) /\ Keyed(c) /\ c \notin effectsStarted

\* An Ok is the job's own Run.
Recorded ==
    /\ \A c \in Callers : outcome[c] # None /\ outcome[c].kind = "Ok" =>
         outcome[c] = Ok(c) /\ c \in effectsStarted
    /\ \A c \in Callers : result[c] # None /\ result[c].kind = "Ok" =>
         result[c] = Ok(c) /\ c \in effectsStarted
    /\ \A c \in Callers : job[c] \notin {"stored", "ended"} => result[c] = None
    /\ \A c \in Callers : stage[c] # "done" => answer[c] = None
    /\ \A c \in Callers : stage[c] \in {"owner", "object"} =>
         result[watched[c]] # None /\ result[watched[c]].kind = "Ok"

\* The lifecycle lock and the two closers.
Closing ==
    /\ closer # "idle" => closing /\ sessionOpen
    /\ closer = "holding" => Readers = {}
    /\ ~sessionOpen => closing
    /\ host \in {"closing", "draining", "timedout", "drained", "released"} => closing
    /\ host \in {"draining", "timedout", "drained", "released"} => Readers = {}

\* What a finished close leaves behind.
Emptied ==
    /\ ~sessionOpen => runs = {} /\ Readers = {}
    /\ host \in {"drained", "released"} => unsettled = {}

Counting == pending = Cardinality(CountedJobs) + Cardinality(unsettled)

IInv ==
    /\ Typed /\ Reserved /\ Driven /\ Recorded /\ Closing /\ Counting /\ Emptied
    /\ OneTurnPerKey /\ SamePublication

-----------------------------------------------------------------------------
\* What handlers and jobs return are results.
LEMMA ResultTypes ==
  /\ \A c \in Callers : Ok(c) \in Results
  /\ \A e \in Errors : Err(e) \in Results
BY DEF Ok, Err, Results

\* Every step keeps the types.
LEMMA StepTyped ==
  ASSUME IInv, [Next]_vars
  PROVE  Typed'
<1> USE DEF IInv
<1>1. ASSUME UNCHANGED <<request, stage, watched, enabled, answer, publications,
              publicationsFenced, effectsStarted, callerCancelled, result, job, outcome,
              turn, runs, unsettled, closing, closer, sessionOpen, host>>
     PROVE  Typed'
  BY <1>1 DEF Typed
<1>2. ASSUME NEW c \in Callers, Call(c)
     PROVE  Typed'
  BY <1>2, ResultTypes DEF Typed, Call, recordVars, jobVars, runVars, closeVars,
    Answered, Errors
<1>3. ASSUME NEW c \in Callers, CallDirectly(c)
     PROVE  Typed'
  BY <1>3, ResultTypes DEF Typed, CallDirectly, recordVars, runVars, closeVars
<1>4. ASSUME NEW c \in Callers, ReserveRefused(c)
     PROVE  Typed'
  BY <1>4, ResultTypes DEF Typed, ReserveRefused, recordVars, jobVars, runVars,
    closeVars, Answered, Retired, Refusal, Conflicts, Errors
<1>5. ASSUME NEW c \in Callers, ReserveJoin(c)
     PROVE  Typed'
  BY <1>5, ResultTypes DEF Typed, Reserved, ReserveJoin, recordVars, jobVars, runVars,
    closeVars, Asked, Keyed
<1>6. ASSUME NEW c \in Callers, ReserveFresh(c)
     PROVE  Typed'
  BY <1>6, ResultTypes DEF Typed, ReserveFresh, jobVars, runVars, closeVars
<1>7. ASSUME NEW c \in Callers, SpawnPublication(c)
     PROVE  Typed'
  BY <1>7, ResultTypes DEF Typed, SpawnPublication, recordVars, runVars, closeVars
<1>8. ASSUME NEW c \in Callers, Enable(c)
     PROVE  Typed'
  BY <1>8, ResultTypes DEF Typed, Enable, recordVars, jobVars, runVars, closeVars
<1>9. ASSUME NEW c \in Callers, ReadResult(c)
     PROVE  Typed'
  BY <1>9, ResultTypes DEF Typed, Reserved, ReadResult, jobVars, runVars, closeVars,
    Answered, DropGuard
<1>10. ASSUME NEW c \in Callers, Wake(c)
     PROVE  Typed'
  BY <1>10, ResultTypes DEF Typed, Wake, recordVars, jobVars, runVars, closeVars
<1>11. ASSUME NEW c \in Callers, CancelCaller(c)
     PROVE  Typed'
  BY <1>11, ResultTypes DEF Typed, CancelCaller, jobVars, runVars, closeVars, Answered,
    DropGuard, Errors
<1>12. ASSUME NEW c \in Callers, RecheckOwner(c)
     PROVE  Typed'
  BY <1>12, ResultTypes DEF Typed, RecheckOwner, recordVars, jobVars, runVars,
    closeVars, Answered, Errors
<1>13. ASSUME NEW c \in Callers, RecheckRun(c)
     PROVE  Typed'
  BY <1>13, ResultTypes DEF Typed, Reserved, RecheckRun, recordVars, jobVars, runVars,
    closeVars, Answered, Errors
<1>14. ASSUME NEW c \in Callers, AnswerDirectly(c)
     PROVE  Typed'
  BY <1>14, ResultTypes DEF Typed, AnswerDirectly, recordVars, runVars, closeVars,
    Answered
<1>15. ASSUME NEW c \in Callers, JobEnter(c)
     PROVE  Typed'
  BY <1>15, ResultTypes DEF Typed, JobEnter, callVars, recordVars, runVars, closeVars,
    JobReturns, Errors
<1>16. ASSUME NEW c \in Callers, JobAdmit(c)
     PROVE  Typed'
  <2>1. AdmissionError(c) # "None" => Err(AdmissionError(c)) \in Results
    BY ResultTypes DEF AdmissionError, Errors
  <2>2. outcome' \in [Callers -> Results \cup {None}]
    BY <1>16, <2>1 DEF JobAdmit, JobReturns, Typed
  <2>3. job' \in [Callers -> {"none", "queued", "inside", "admitted", "over", "stored", "ended"}]
    BY <1>16 DEF JobAdmit, JobReturns, Typed
  <2> QED
    BY <1>16, <2>2, <2>3 DEF JobAdmit, callVars, closeVars, Typed
<1>17. ASSUME NEW c \in Callers, JobPublish(c)
     PROVE  Typed'
  BY <1>17, ResultTypes DEF Typed, JobPublish, callVars, recordVars, closeVars,
    JobReturns
<1>18. ASSUME NEW c \in Callers, JobFail(c)
     PROVE  Typed'
  BY <1>18, ResultTypes DEF Typed, JobFail, callVars, recordVars, closeVars, JobReturns,
    TurnReleased, Errors
<1>19. ASSUME NEW c \in Callers, JobWithdrawn(c)
     PROVE  Typed'
  BY <1>19, ResultTypes DEF Typed, JobWithdrawn, callVars, recordVars, closeVars,
    JobReturns, TurnReleased, Errors
<1>20. ASSUME NEW c \in Callers, FinishPublication(c)
     PROVE  Typed'
  BY <1>20, ResultTypes DEF Typed, FinishPublication, callVars, runVars, closeVars
<1>21. ASSUME NEW c \in Callers, NotifyAndSettle(c)
     PROVE  Typed'
  BY <1>21, ResultTypes DEF Typed, NotifyAndSettle, recordVars, runVars, closeVars
<1>22. ASSUME NEW c \in Callers, TurnEnds(c)
     PROVE  Typed'
  BY <1>22, ResultTypes DEF Typed, TurnEnds, callVars, recordVars, jobVars, closeVars
<1>23. ASSUME NEW c \in Callers, CollectReceipt(c)
     PROVE  Typed'
  BY <1>23, ResultTypes DEF Typed, CollectReceipt, callVars, recordVars, jobVars,
    closeVars
<1>24. ASSUME NEW c \in Callers, CloseRun(c)
     PROVE  Typed'
  BY <1>24, ResultTypes DEF Typed, CloseRun, callVars, recordVars, jobVars, closeVars
<1>25. CASE CloseSession
  BY <1>25, ResultTypes DEF Typed, CloseSession, callVars, recordVars, jobVars, runVars
<1>26. CASE CloseLock
  BY <1>26, ResultTypes DEF Typed, CloseLock, callVars, recordVars, jobVars, runVars
<1>27. CASE CloseDone
  BY <1>27, ResultTypes DEF Typed, CloseDone, callVars, recordVars, jobVars, runVars
<1>28. CASE CloseFails
  BY <1>28, ResultTypes DEF Typed, CloseFails, callVars, recordVars, jobVars, runVars
<1>29. CASE HostFence
  BY <1>29, ResultTypes DEF Typed, HostFence, callVars, jobVars, runVars, closeVars,
    Receipts
<1>30. CASE HostFenceSessions
  BY <1>30, ResultTypes DEF Typed, HostFenceSessions, callVars, recordVars, jobVars,
    runVars
<1>31. CASE HostPassLock
  BY <1>31, ResultTypes DEF Typed, HostPassLock, callVars, recordVars, jobVars, runVars,
    closeVars
<1>32. CASE HostDrained
  BY <1>32, ResultTypes DEF Typed, HostDrained, callVars, recordVars, jobVars, runVars,
    closeVars
<1>33. CASE HostDrainFails
  BY <1>33, ResultTypes DEF Typed, HostDrainFails, callVars, recordVars, jobVars,
    runVars, closeVars
<1>34. CASE HostRelease
  BY <1>34, ResultTypes DEF Typed, HostRelease, callVars, jobVars, runVars, closeVars
<1>35. CASE UNCHANGED vars
  BY <1>1, <1>35 DEF vars, callVars, recordVars, jobVars, runVars, closeVars
<1> QED
  BY <1>2, <1>3, <1>4, <1>5, <1>6, <1>7, <1>8, <1>9, <1>10, <1>11, <1>12, <1>13, <1>14,
    <1>15, <1>16, <1>17, <1>18, <1>19, <1>20, <1>21, <1>22, <1>23, <1>24, <1>25, <1>26,
    <1>27, <1>28, <1>29, <1>30, <1>31, <1>32, <1>33, <1>34, <1>35
  DEF Next, CallerStep, JobStep, RunStep, CloseStep, HostStep

\* Every step keeps what callers and records have done to the registry.
LEMMA StepReserved ==
  ASSUME IInv, [Next]_vars
  PROVE  Reserved'
<1> USE DEF IInv
<1>1. ASSUME UNCHANGED <<request, stage, watched, publications, publicationsFenced,
              effectsStarted, job, host>>
     PROVE  Reserved'
  BY <1>1 DEF Reserved, Asked, Keyed
<1>2. ASSUME NEW c \in Callers, Call(c)
     PROVE  Reserved'
  <2>1. request[c] = None /\ job[c] = "none" /\ watched[c] = None
    BY <1>2 DEF Reserved, Call, Asked
  <2>2. \A d \in Callers \ {c} : request'[d] = request[d] /\ stage'[d] = stage[d]
    BY <1>2 DEF Typed, Call, Answered
  <2>3. request'[c] # None /\ stage'[c] \in {"reserving", "done"}
    BY <1>2 DEF Typed, Call, Answered
  <2>4. \A d \in Callers : watched[d] # c
    BY <2>1 DEF Reserved, Asked
  <2>5. c \notin effectsStarted /\ \A k \in Keys : publications[k] # c
    BY <2>1 DEF Reserved, Driven, Asked
  <2>6. UNCHANGED <<watched, publications, publicationsFenced, effectsStarted, job, host>>
    BY <1>2 DEF Call, recordVars, jobVars
  <2> QED
    BY <2>1, <2>2, <2>3, <2>4, <2>5, <2>6 DEF Reserved, Typed, Asked, Keyed
<1>3. ASSUME NEW c \in Callers, CallDirectly(c)
     PROVE  Reserved'
  BY <1>3 DEF Reserved, Typed, CallDirectly, recordVars, Asked, Keyed
<1>4. ASSUME NEW c \in Callers, ReserveRefused(c)
     PROVE  Reserved'
  BY <1>4 DEF Reserved, ReserveRefused, recordVars, jobVars, Answered, Asked, Keyed
<1>5. ASSUME NEW c \in Callers, ReserveJoin(c)
     PROVE  Reserved'
  BY <1>5 DEF Reserved, Typed, ReserveJoin, recordVars, jobVars, Retired, Refusal,
    Conflicts, Asked, Keyed
<1>6. ASSUME NEW c \in Callers, ReserveFresh(c)
     PROVE  Reserved'
  <2>1. request[c] \in Requests /\ request[c].key \in Keys /\ Keyed(c)
    BY <1>6 DEF Reserved, Typed, ReserveFresh, Asked, Keyed
  <2>2. publications[request[c].key] = None /\ ~publicationsFenced
    BY <1>6 DEF ReserveFresh, Refusal
  <2>3. \A d \in Callers : publications[request[c].key] # d
    BY <2>2
  <2>4. host = "open"
    BY <2>2 DEF Reserved
  <2>5. /\ publications' = [publications EXCEPT ![request[c].key] = c]
        /\ watched' = [watched EXCEPT ![c] = c]
        /\ stage' = [stage EXCEPT ![c] = "spawning"]
        /\ UNCHANGED <<request, effectsStarted, job, host, publicationsFenced>>
    BY <1>6 DEF ReserveFresh, jobVars
  <2>6. stage[c] = "reserving" /\ job[c] = "none"
    BY <1>6 DEF ReserveFresh, Reserved
  <2>7. \A k \in Keys : publications'[k] # None =>
          request[publications'[k]] # None /\ request[publications'[k]].key = k
    <3>1. \A k \in Keys : publications'[k] = IF k = request[c].key THEN c ELSE publications[k]
      BY <2>5 DEF Typed
    <3>2. request[c] # None
      BY <2>1
    <3> QED
      BY <3>1, <3>2 DEF Reserved, Asked
  <2>8. \A d \in effectsStarted : Keyed(d) => publications'[request[d].key] = d
    BY <2>1, <2>3, <2>4, <2>5 DEF Reserved, Typed
  <2>9. \A d \in Callers :
          stage'[d] = "spawning" \/ (job[d] \in {"queued", "inside"} /\ Keyed(d)) =>
            publications'[request[d].key] = d
    <3>1. stage'[c] = "spawning" /\ publications'[request[c].key] = c
      BY <2>1, <2>5 DEF Typed
    <3>2. ASSUME NEW d \in Callers \ {c},
                 stage[d] = "spawning" \/ (job[d] \in {"queued", "inside"} /\ Keyed(d))
          PROVE  publications'[request[d].key] = d
      <4>1. publications[request[d].key] = d
        BY <3>2, <2>4 DEF Reserved
      <4>2. request[d] \in Requests /\ Keyed(d)
        BY <3>2 DEF Reserved, Typed, Asked
      <4>3. request[d].key \in Keys /\ request[d].key # request[c].key
        BY <2>3, <4>1, <4>2 DEF Keyed
      <4> QED
        BY <2>5, <4>1, <4>3
    <3>3. \A d \in Callers \ {c} : stage'[d] = stage[d]
      BY <2>5
    <3> QED
      BY <3>1, <3>2, <3>3
  <2> QED
    BY <2>1, <2>4, <2>5, <2>6, <2>7, <2>8, <2>9 DEF Reserved, Typed, Asked, Keyed
<1>7. ASSUME NEW c \in Callers, SpawnPublication(c)
     PROVE  Reserved'
  <2>1. stage[c] = "spawning" /\ Asked(c) /\ Keyed(c) /\ request[c] \in Requests
    BY <1>7 DEF SpawnPublication, Reserved, Typed, Asked
  <2>2. host = "released" \/ publications[request[c].key] = c
    BY <2>1 DEF Reserved
  <2> QED
    BY <1>7, <2>1, <2>2 DEF Reserved, Typed, SpawnPublication, recordVars, Asked, Keyed
<1>8. ASSUME NEW c \in Callers, Enable(c)
     PROVE  Reserved'
  BY <1>8 DEF Reserved, Enable, recordVars, jobVars, Asked, Keyed
<1>9. ASSUME NEW c \in Callers, ReadResult(c)
     PROVE  Reserved'
  BY <1>9 DEF Reserved, Typed, ReadResult, jobVars, Answered, Asked, Keyed
<1>10. ASSUME NEW c \in Callers, Wake(c)
     PROVE  Reserved'
  BY <1>10 DEF Reserved, Wake, recordVars, jobVars, Asked, Keyed
<1>11. ASSUME NEW c \in Callers, CancelCaller(c)
     PROVE  Reserved'
  BY <1>11 DEF Reserved, CancelCaller, jobVars, Answered, Asked, Keyed
<1>12. ASSUME NEW c \in Callers, RecheckOwner(c)
     PROVE  Reserved'
  BY <1>12 DEF Reserved, Typed, RecheckOwner, recordVars, jobVars, Answered, Asked,
    Keyed
<1>13. ASSUME NEW c \in Callers, RecheckRun(c)
     PROVE  Reserved'
  BY <1>13 DEF Reserved, RecheckRun, recordVars, jobVars, Answered, Asked, Keyed
<1>14. ASSUME NEW c \in Callers, AnswerDirectly(c)
     PROVE  Reserved'
  BY <1>14 DEF Reserved, AnswerDirectly, recordVars, Answered, Asked, Keyed
<1>15. ASSUME NEW c \in Callers, JobEnter(c)
     PROVE  Reserved'
  BY <1>15 DEF Reserved, Typed, JobEnter, callVars, recordVars, JobReturns, Asked, Keyed
<1>16. ASSUME NEW c \in Callers, JobAdmit(c)
     PROVE  Reserved'
  BY <1>16 DEF Reserved, Typed, JobAdmit, callVars, JobReturns, Asked, Keyed
<1>17. ASSUME NEW c \in Callers, JobPublish(c)
     PROVE  Reserved'
  BY <1>17 DEF Reserved, JobPublish, callVars, recordVars, JobReturns, Asked, Keyed
<1>18. ASSUME NEW c \in Callers, JobFail(c)
     PROVE  Reserved'
  BY <1>18 DEF Reserved, JobFail, callVars, recordVars, JobReturns, Asked, Keyed
<1>19. ASSUME NEW c \in Callers, JobWithdrawn(c)
     PROVE  Reserved'
  BY <1>19 DEF Reserved, JobWithdrawn, callVars, recordVars, JobReturns, Asked, Keyed
<1>20. ASSUME NEW c \in Callers, FinishPublication(c)
     PROVE  Reserved'
  BY <1>20 DEF Reserved, FinishPublication, callVars, ReleasesKey, Asked, Keyed
<1>21. ASSUME NEW c \in Callers, NotifyAndSettle(c)
     PROVE  Reserved'
  BY <1>21 DEF Reserved, NotifyAndSettle, recordVars, Asked, Keyed
<1>22. CASE HostFence
  BY <1>22 DEF Reserved, HostFence, callVars, jobVars, Asked, Keyed
<1>23. CASE HostFenceSessions
  BY <1>23 DEF Reserved, HostFenceSessions, callVars, recordVars, jobVars, Asked, Keyed
<1>24. CASE HostPassLock
  BY <1>24 DEF Reserved, HostPassLock, callVars, recordVars, jobVars, Asked, Keyed
<1>25. CASE HostDrained
  BY <1>25 DEF Reserved, HostDrained, callVars, recordVars, jobVars, Asked, Keyed
<1>26. CASE HostDrainFails
  BY <1>26 DEF Reserved, HostDrainFails, callVars, recordVars, jobVars, Asked, Keyed
<1>27. CASE HostRelease
  BY <1>27 DEF Reserved, HostRelease, callVars, jobVars, Asked, Keyed
<1>28. ASSUME NEW c \in Callers,
            TurnEnds(c) \/ CollectReceipt(c) \/ CloseRun(c)
     PROVE  Reserved'
  BY <1>1, <1>28 DEF TurnEnds, CollectReceipt, CloseRun, callVars, recordVars, jobVars
<1>29. CASE CloseSession \/ CloseLock \/ CloseDone \/ CloseFails
  BY <1>1, <1>29 DEF CloseSession, CloseLock, CloseDone, CloseFails, callVars,
    recordVars, jobVars
<1>30. CASE UNCHANGED vars
  BY <1>1, <1>30 DEF vars, callVars, recordVars, jobVars
<1> QED
  BY <1>2, <1>3, <1>4, <1>5, <1>6, <1>7, <1>8, <1>9, <1>10, <1>11, <1>12, <1>13, <1>14,
    <1>15, <1>16, <1>17, <1>18, <1>19, <1>20, <1>21, <1>22, <1>23, <1>24, <1>25, <1>26,
    <1>27, <1>28, <1>29, <1>30
  DEF Next, CallerStep, JobStep, RunStep, CloseStep, HostStep

\* Every step keeps effects, the turn and the Runs where the jobs put them.
LEMMA StepDriven ==
  ASSUME IInv, [Next]_vars
  PROVE  Driven'
<1> USE DEF IInv
<1>1. ASSUME UNCHANGED <<request, effectsStarted, callerCancelled, job, turn, runs,
              unsettled>>
     PROVE  Driven'
  BY <1>1 DEF Driven, Asked, Keyed
<1>2. ASSUME NEW c \in Callers, Call(c)
     PROVE  Driven'
  BY <1>2 DEF Driven, Reserved, Call, recordVars, jobVars, runVars, Asked, Keyed
<1>3. ASSUME NEW c \in Callers, CallDirectly(c)
     PROVE  Driven'
  BY <1>3 DEF Driven, Reserved, CallDirectly, recordVars, runVars, Asked, Keyed
<1>4. ASSUME NEW c \in Callers, SpawnPublication(c)
     PROVE  Driven'
  BY <1>4 DEF Driven, Reserved, SpawnPublication, recordVars, runVars, Asked, Keyed
<1>5. ASSUME NEW c \in Callers, ReadResult(c)
     PROVE  Driven'
  BY <1>5 DEF Driven, Reserved, ReadResult, jobVars, runVars, Withdraws, DropGuard,
    Asked, Keyed
<1>6. ASSUME NEW c \in Callers, CancelCaller(c)
     PROVE  Driven'
  BY <1>6 DEF Driven, Reserved, CancelCaller, jobVars, runVars, Withdraws, DropGuard,
    Asked, Keyed
<1>7. ASSUME NEW c \in Callers, AnswerDirectly(c)
     PROVE  Driven'
  BY <1>7 DEF Driven, AnswerDirectly, recordVars, runVars, Asked, Keyed
<1>8. ASSUME NEW c \in Callers, JobEnter(c)
     PROVE  Driven'
  BY <1>8 DEF Driven, Typed, JobEnter, callVars, recordVars, runVars, JobReturns, Asked,
    Keyed
<1>9. ASSUME NEW c \in Callers, JobAdmit(c)
     PROVE  Driven'
  BY <1>9 DEF Driven, Typed, JobAdmit, callVars, JobReturns, AdmissionError, Asked,
    Keyed
<1>10. ASSUME NEW c \in Callers, JobPublish(c)
     PROVE  Driven'
  BY <1>10 DEF Driven, Typed, JobPublish, callVars, recordVars, JobReturns, Asked, Keyed
<1>11. ASSUME NEW c \in Callers, JobFail(c)
     PROVE  Driven'
  BY <1>11 DEF Driven, Typed, JobFail, callVars, recordVars, JobReturns, TurnReleased,
    Asked, Keyed
<1>12. ASSUME NEW c \in Callers, JobWithdrawn(c)
     PROVE  Driven'
  BY <1>12 DEF Driven, JobWithdrawn, callVars, recordVars, JobReturns, TurnReleased,
    Asked, Keyed
<1>13. ASSUME NEW c \in Callers, FinishPublication(c)
     PROVE  Driven'
  BY <1>13 DEF Driven, FinishPublication, callVars, runVars, Asked, Keyed
<1>14. ASSUME NEW c \in Callers, NotifyAndSettle(c)
     PROVE  Driven'
  BY <1>14 DEF Driven, NotifyAndSettle, recordVars, runVars, Asked, Keyed
<1>15. ASSUME NEW c \in Callers, TurnEnds(c)
     PROVE  Driven'
  BY <1>15 DEF Driven, TurnEnds, callVars, recordVars, jobVars, Asked, Keyed
<1>16. ASSUME NEW c \in Callers, CollectReceipt(c)
     PROVE  Driven'
  BY <1>16 DEF Driven, CollectReceipt, callVars, recordVars, jobVars, Asked, Keyed
<1>17. ASSUME NEW c \in Callers, CloseRun(c)
     PROVE  Driven'
  BY <1>17 DEF Driven, CloseRun, callVars, recordVars, jobVars, Asked, Keyed
<1>18. CASE HostFence
  BY <1>18 DEF Driven, Reserved, HostFence, callVars, jobVars, runVars, Receipts, Asked,
    Keyed
<1>19. ASSUME NEW c \in Callers,
            ReserveRefused(c) \/ ReserveJoin(c) \/ ReserveFresh(c) \/ Enable(c) \/
            Wake(c) \/ RecheckOwner(c) \/ RecheckRun(c)
     PROVE  Driven'
  BY <1>1, <1>19 DEF ReserveRefused, ReserveJoin, ReserveFresh, Enable, Wake,
    RecheckOwner, RecheckRun, recordVars, jobVars, runVars
<1>20. CASE CloseSession \/ CloseLock \/ CloseDone \/ CloseFails \/ HostFenceSessions \/
          HostPassLock \/ HostDrained \/ HostDrainFails \/ HostRelease
  BY <1>1, <1>20 DEF CloseSession, CloseLock, CloseDone, CloseFails, HostFenceSessions,
    HostPassLock, HostDrained, HostDrainFails, HostRelease, callVars, recordVars,
    jobVars, runVars
<1>21. CASE UNCHANGED vars
  BY <1>1, <1>21 DEF vars, callVars, recordVars, jobVars, runVars
<1> QED
  BY <1>2, <1>3, <1>4, <1>5, <1>6, <1>7, <1>8, <1>9, <1>10, <1>11, <1>12, <1>13, <1>14,
    <1>15, <1>16, <1>17, <1>18, <1>19, <1>20, <1>21
  DEF Next, CallerStep, JobStep, RunStep, CloseStep, HostStep

\* Every step keeps the results those of the jobs.
LEMMA StepRecorded ==
  ASSUME IInv, [Next]_vars
  PROVE  Recorded'
<1> USE DEF IInv
<1>1. ASSUME UNCHANGED <<stage, watched, answer, effectsStarted, result, outcome, job>>
     PROVE  Recorded'
  BY <1>1 DEF Recorded
<1>2. ASSUME NEW c \in Callers, Call(c)
     PROVE  Recorded'
  BY <1>2 DEF Recorded, Typed, Call, recordVars, jobVars, Answered
<1>3. ASSUME NEW c \in Callers, CallDirectly(c)
     PROVE  Recorded'
  BY <1>3 DEF Recorded, Reserved, CallDirectly, recordVars
<1>4. ASSUME NEW c \in Callers, ReserveRefused(c)
     PROVE  Recorded'
  BY <1>4 DEF Recorded, Typed, ReserveRefused, recordVars, jobVars, Answered
<1>5. ASSUME NEW c \in Callers, ReserveJoin(c)
     PROVE  Recorded'
  BY <1>5 DEF Recorded, ReserveJoin, recordVars, jobVars
<1>6. ASSUME NEW c \in Callers, ReserveFresh(c)
     PROVE  Recorded'
  BY <1>6 DEF Recorded, ReserveFresh, jobVars
<1>7. ASSUME NEW c \in Callers, SpawnPublication(c)
     PROVE  Recorded'
  BY <1>7 DEF Recorded, Reserved, SpawnPublication, recordVars
<1>8. ASSUME NEW c \in Callers, Enable(c)
     PROVE  Recorded'
  BY <1>8 DEF Recorded, Enable, recordVars, jobVars
<1>9. ASSUME NEW c \in Callers, ReadResult(c)
     PROVE  Recorded'
  <2>1. \A d \in Callers \ {c} : stage'[d] = stage[d] /\ answer'[d] = answer[d]
    BY <1>9 DEF ReadResult, Answered, Typed
  <2>2. stage'[c] = "done" \/ answer'[c] = answer[c]
    BY <1>9 DEF ReadResult, Answered, Typed
  <2>3. stage'[c] \in {"owner", "object"} =>
          result[watched[c]] # None /\ result[watched[c]].kind = "Ok"
    BY <1>9 DEF ReadResult, Answered, Typed
  <2>4. stage[c] # "done"
    BY <1>9 DEF ReadResult
  <2>5. UNCHANGED <<watched, effectsStarted, result, outcome, job>>
    BY <1>9 DEF ReadResult, jobVars
  <2> QED
    BY <2>1, <2>2, <2>3, <2>4, <2>5 DEF Recorded
<1>10. ASSUME NEW c \in Callers, Wake(c)
     PROVE  Recorded'
  BY <1>10 DEF Recorded, Wake, recordVars, jobVars
<1>11. ASSUME NEW c \in Callers, CancelCaller(c)
     PROVE  Recorded'
  BY <1>11 DEF Recorded, Typed, CancelCaller, jobVars, Answered
<1>12. ASSUME NEW c \in Callers, RecheckOwner(c)
     PROVE  Recorded'
  BY <1>12 DEF Recorded, Typed, RecheckOwner, recordVars, jobVars, Answered
<1>13. ASSUME NEW c \in Callers, RecheckRun(c)
     PROVE  Recorded'
  BY <1>13 DEF Recorded, Typed, RecheckRun, recordVars, jobVars, Answered
<1>14. ASSUME NEW c \in Callers, AnswerDirectly(c)
     PROVE  Recorded'
  BY <1>14 DEF Recorded, Typed, AnswerDirectly, recordVars, Answered
<1>15. ASSUME NEW c \in Callers, JobEnter(c)
     PROVE  Recorded'
  <2>1. outcome' = outcome \/ outcome' = [outcome EXCEPT ![c] = Err("Closed")]
    BY <1>15 DEF JobEnter, JobReturns
  <2>2. \A d \in Callers :
          outcome'[d] # None /\ outcome'[d].kind = "Ok" => outcome'[d] = outcome[d]
    BY <2>1 DEF Typed, Err
  <2>3. job[c] = "queued" /\ \A d \in Callers \ {c} : job'[d] = job[d]
    BY <1>15 DEF JobEnter, JobReturns, Typed
  <2> QED
    BY <1>15, <2>2, <2>3 DEF JobEnter, callVars, recordVars, Recorded
<1>16. ASSUME NEW c \in Callers, JobAdmit(c)
     PROVE  Recorded'
  BY <1>16 DEF Recorded, Typed, JobAdmit, callVars, JobReturns, AdmissionError, Err
<1>17. ASSUME NEW c \in Callers, JobPublish(c)
     PROVE  Recorded'
  BY <1>17 DEF Recorded, Driven, JobPublish, callVars, recordVars, JobReturns
<1>18. ASSUME NEW c \in Callers, JobFail(c)
     PROVE  Recorded'
  BY <1>18 DEF Recorded, JobFail, callVars, recordVars, JobReturns, Err
<1>19. ASSUME NEW c \in Callers, JobWithdrawn(c)
     PROVE  Recorded'
  BY <1>19 DEF Recorded, JobWithdrawn, callVars, recordVars, JobReturns, Err
<1>20. ASSUME NEW c \in Callers, FinishPublication(c)
     PROVE  Recorded'
  BY <1>20 DEF Recorded, Typed, FinishPublication, callVars
<1>21. ASSUME NEW c \in Callers, NotifyAndSettle(c)
     PROVE  Recorded'
  BY <1>21 DEF Recorded, NotifyAndSettle, recordVars
<1>22. ASSUME NEW c \in Callers,
            TurnEnds(c) \/ CollectReceipt(c) \/ CloseRun(c)
     PROVE  Recorded'
  BY <1>1, <1>22 DEF TurnEnds, CollectReceipt, CloseRun, callVars, recordVars, jobVars
<1>23. CASE CloseSession \/ CloseLock \/ CloseDone \/ CloseFails \/ HostFence \/
          HostFenceSessions \/ HostPassLock \/ HostDrained \/ HostDrainFails \/
          HostRelease
  BY <1>1, <1>23 DEF CloseSession, CloseLock, CloseDone, CloseFails, HostFence,
    HostFenceSessions, HostPassLock, HostDrained, HostDrainFails, HostRelease, callVars,
    recordVars, jobVars
<1>24. CASE UNCHANGED vars
  BY <1>1, <1>24 DEF vars, callVars, recordVars, jobVars
<1> QED
  BY <1>2, <1>3, <1>4, <1>5, <1>6, <1>7, <1>8, <1>9, <1>10, <1>11, <1>12, <1>13, <1>14,
    <1>15, <1>16, <1>17, <1>18, <1>19, <1>20, <1>21, <1>22, <1>23, <1>24
  DEF Next, CallerStep, JobStep, RunStep, CloseStep, HostStep

\* Every step keeps the lifecycle lock and the two closers in agreement.
LEMMA StepClosing ==
  ASSUME IInv, [Next]_vars
  PROVE  Closing'
<1> USE DEF IInv
<1>1. ASSUME UNCHANGED <<job, closing, closer, sessionOpen, host>>
     PROVE  Closing'
  BY <1>1 DEF Closing, Readers
<1>2. ASSUME NEW c \in Callers, CallDirectly(c)
     PROVE  Closing'
  BY <1>2 DEF Closing, CallDirectly, closeVars, Readers
<1>3. ASSUME NEW c \in Callers, SpawnPublication(c)
     PROVE  Closing'
  BY <1>3 DEF Closing, SpawnPublication, closeVars, Readers
<1>4. ASSUME NEW c \in Callers, AnswerDirectly(c)
     PROVE  Closing'
  BY <1>4 DEF Closing, AnswerDirectly, closeVars, Readers
<1>5. ASSUME NEW c \in Callers, JobEnter(c)
     PROVE  Closing'
  BY <1>5 DEF Closing, Typed, JobEnter, closeVars, JobReturns, Readers
<1>6. ASSUME NEW c \in Callers, JobAdmit(c)
     PROVE  Closing'
  BY <1>6 DEF Closing, JobAdmit, closeVars, Readers
<1>7. ASSUME NEW c \in Callers, JobPublish(c)
     PROVE  Closing'
  BY <1>7 DEF Closing, JobPublish, closeVars, Readers
<1>8. ASSUME NEW c \in Callers, JobFail(c)
     PROVE  Closing'
  BY <1>8 DEF Closing, JobFail, closeVars, Readers
<1>9. ASSUME NEW c \in Callers, JobWithdrawn(c)
     PROVE  Closing'
  BY <1>9 DEF Closing, JobWithdrawn, closeVars, JobReturns, Readers
<1>10. ASSUME NEW c \in Callers, FinishPublication(c)
     PROVE  Closing'
  BY <1>10 DEF Closing, FinishPublication, closeVars, Readers
<1>11. ASSUME NEW c \in Callers, NotifyAndSettle(c)
     PROVE  Closing'
  BY <1>11 DEF Closing, NotifyAndSettle, closeVars, Readers
<1>12. CASE CloseSession
  BY <1>12 DEF Closing, CloseSession, jobVars, Readers
<1>13. CASE CloseLock
  BY <1>13 DEF Closing, CloseLock, jobVars, NoReader, Readers
<1>14. CASE CloseDone
  BY <1>14 DEF Closing, CloseDone, jobVars, Readers
<1>15. CASE CloseFails
  BY <1>15 DEF Closing, CloseFails, jobVars, Readers
<1>16. CASE HostFence
  BY <1>16 DEF Closing, HostFence, jobVars, closeVars, Readers
<1>17. CASE HostFenceSessions
  BY <1>17 DEF Closing, HostFenceSessions, jobVars, Readers
<1>18. CASE HostPassLock
  BY <1>18 DEF Closing, HostPassLock, jobVars, closeVars, NoReader, Readers
<1>19. CASE HostDrained
  BY <1>19 DEF Closing, HostDrained, jobVars, closeVars, Readers
<1>20. CASE HostDrainFails
  BY <1>20 DEF Closing, HostDrainFails, jobVars, closeVars, Readers
<1>21. CASE HostRelease
  BY <1>21 DEF Closing, HostRelease, jobVars, closeVars, Readers
<1>22. ASSUME NEW c \in Callers,
            Call(c) \/ ReserveRefused(c) \/ ReserveJoin(c) \/ ReserveFresh(c) \/
            Enable(c) \/ ReadResult(c) \/ Wake(c) \/ CancelCaller(c) \/ RecheckOwner(c)
            \/ RecheckRun(c) \/ TurnEnds(c) \/ CollectReceipt(c) \/ CloseRun(c)
     PROVE  Closing'
  BY <1>1, <1>22 DEF Call, ReserveRefused, ReserveJoin, ReserveFresh, Enable,
    ReadResult, Wake, CancelCaller, RecheckOwner, RecheckRun, TurnEnds, CollectReceipt,
    CloseRun, jobVars, closeVars
<1>23. CASE UNCHANGED vars
  BY <1>1, <1>23 DEF vars, jobVars, closeVars
<1> QED
  BY <1>2, <1>3, <1>4, <1>5, <1>6, <1>7, <1>8, <1>9, <1>10, <1>11, <1>12, <1>13, <1>14,
    <1>15, <1>16, <1>17, <1>18, <1>19, <1>20, <1>21, <1>22, <1>23
  DEF Next, CallerStep, JobStep, RunStep, CloseStep, HostStep

\* What is counted is finite, so that it has a natural cardinality.
LEMMA FiniteJobs ==
  ASSUME IInv
  PROVE  /\ IsFiniteSet(CountedJobs) /\ Cardinality(CountedJobs) \in Nat
         /\ IsFiniteSet(unsettled) /\ Cardinality(unsettled) \in Nat
<1>1. CountedJobs \subseteq Callers /\ unsettled \subseteq Callers
  BY DEF CountedJobs, IInv, Typed
<1> QED
  BY <1>1, FS_Subset, FS_CardinalityType

\* Every step keeps the count equal to what it counts.
LEMMA StepCounting ==
  ASSUME IInv, [Next]_vars
  PROVE  Counting'
<1> USE DEF IInv
<1>1. ASSUME UNCHANGED <<request, job, unsettled, pending>>
     PROVE  Counting'
  BY <1>1 DEF Counting, CountedJobs, Asked, Keyed
<1>2. ASSUME NEW c \in Callers, Call(c)
     PROVE  Counting'
  <2>1. CountedJobs' = CountedJobs
    BY <1>2 DEF CountedJobs, Asked, Keyed, Reserved, Call, jobVars
  <2>2. UNCHANGED <<unsettled, pending>>
    BY <1>2 DEF Call, runVars
  <2> QED
    BY <2>1, <2>2 DEF Counting
<1>3. ASSUME NEW c \in Callers, CallDirectly(c)
     PROVE  Counting'
  <2>1. CountedJobs' = CountedJobs
    BY <1>3 DEF CountedJobs, Asked, Keyed, CallDirectly
  <2>2. UNCHANGED <<unsettled, pending>>
    BY <1>3 DEF CallDirectly, runVars
  <2> QED
    BY <2>1, <2>2 DEF Counting
<1>4. ASSUME NEW c \in Callers, SpawnPublication(c)
     PROVE  Counting'
  <2>1. c \notin CountedJobs /\ CountedJobs' = CountedJobs \cup {c}
    BY <1>4 DEF CountedJobs, Asked, Keyed, Typed, Reserved, SpawnPublication
  <2>2. Cardinality(CountedJobs') = Cardinality(CountedJobs) + 1
    BY <2>1, FiniteJobs, FS_AddElement
  <2>3. pending' = pending + 1 /\ unsettled' = unsettled
    BY <1>4 DEF SpawnPublication, Counted, runVars
  <2> QED
    BY <2>2, <2>3, FiniteJobs DEF Counting
<1>5. ASSUME NEW c \in Callers, AnswerDirectly(c)
     PROVE  Counting'
  <2>1. CountedJobs' = CountedJobs
    BY <1>5 DEF CountedJobs, Asked, Keyed, Reserved, AnswerDirectly
  <2>2. UNCHANGED <<unsettled, pending>>
    BY <1>5 DEF AnswerDirectly, runVars
  <2> QED
    BY <2>1, <2>2 DEF Counting
<1>6. ASSUME NEW c \in Callers, JobEnter(c)
     PROVE  Counting'
  <2>1. CountedJobs' = CountedJobs
    BY <1>6 DEF CountedJobs, Asked, Keyed, Typed, JobEnter, JobReturns, callVars
  <2>2. UNCHANGED <<unsettled, pending>>
    BY <1>6 DEF JobEnter, runVars
  <2> QED
    BY <2>1, <2>2 DEF Counting
<1>7. ASSUME NEW c \in Callers, JobAdmit(c)
     PROVE  Counting'
  <2>1. CountedJobs' = CountedJobs
    BY <1>7 DEF CountedJobs, Asked, Keyed, Typed, JobAdmit, JobReturns, callVars
  <2>2. UNCHANGED <<unsettled, pending>>
    BY <1>7 DEF JobAdmit
  <2> QED
    BY <2>1, <2>2 DEF Counting
<1>8. ASSUME NEW c \in Callers, JobPublish(c)
     PROVE  Counting'
  <2>1. CountedJobs' = CountedJobs
    BY <1>8 DEF CountedJobs, Asked, Keyed, JobPublish, JobReturns, callVars
  <2>2. c \notin unsettled /\ unsettled' = unsettled \cup {c} /\ pending' = pending + 1
    BY <1>8 DEF JobPublish, Counted, Driven
  <2>3. Cardinality(unsettled') = Cardinality(unsettled) + 1
    BY <2>2, FiniteJobs, FS_AddElement
  <2> QED
    BY <2>1, <2>2, <2>3, FiniteJobs DEF Counting
<1>9. ASSUME NEW c \in Callers, JobFail(c)
     PROVE  Counting'
  <2>1. CountedJobs' = CountedJobs
    BY <1>9 DEF CountedJobs, Asked, Keyed, JobFail, JobReturns, callVars
  <2>2. UNCHANGED <<unsettled, pending>>
    BY <1>9 DEF JobFail
  <2> QED
    BY <2>1, <2>2 DEF Counting
<1>10. ASSUME NEW c \in Callers, JobWithdrawn(c)
     PROVE  Counting'
  <2>1. CountedJobs' = CountedJobs
    BY <1>10 DEF CountedJobs, Asked, Keyed, JobWithdrawn, JobReturns, callVars
  <2>2. UNCHANGED <<unsettled, pending>>
    BY <1>10 DEF JobWithdrawn
  <2> QED
    BY <2>1, <2>2 DEF Counting
<1>11. ASSUME NEW c \in Callers, FinishPublication(c)
     PROVE  Counting'
  <2>1. CountedJobs' = CountedJobs
    BY <1>11 DEF CountedJobs, Asked, Keyed, FinishPublication, callVars
  <2>2. UNCHANGED <<unsettled, pending>>
    BY <1>11 DEF FinishPublication, runVars
  <2> QED
    BY <2>1, <2>2 DEF Counting
<1>12. ASSUME NEW c \in Callers, NotifyAndSettle(c)
     PROVE  Counting'
  <2>1. c \in CountedJobs /\ CountedJobs' = CountedJobs \ {c}
    BY <1>12 DEF CountedJobs, Asked, Keyed, Typed, Reserved, NotifyAndSettle
  <2>2. Cardinality(CountedJobs') = Cardinality(CountedJobs) - 1
    BY <2>1, FiniteJobs, FS_RemoveElement
  <2>3. pending' = pending - 1 /\ unsettled' = unsettled
    BY <1>12 DEF NotifyAndSettle, Settled, runVars
  <2> QED
    BY <2>2, <2>3, FiniteJobs DEF Counting
<1>13. ASSUME NEW c \in Callers, CollectReceipt(c)
     PROVE  Counting'
  <2>1. CountedJobs' = CountedJobs
    BY <1>13 DEF CountedJobs, Asked, Keyed, CollectReceipt, jobVars, callVars
  <2>2. c \in unsettled /\ unsettled' = unsettled \ {c} /\ pending' = pending - 1
    BY <1>13 DEF CollectReceipt, Settled
  <2>3. Cardinality(unsettled') = Cardinality(unsettled) - 1
    BY <2>2, FiniteJobs, FS_RemoveElement
  <2> QED
    BY <2>1, <2>2, <2>3, FiniteJobs DEF Counting
<1>14. ASSUME NEW c \in Callers,
            ReserveRefused(c) \/ ReserveJoin(c) \/ ReserveFresh(c) \/ Enable(c) \/
            ReadResult(c) \/ Wake(c) \/ CancelCaller(c) \/ RecheckOwner(c) \/
            RecheckRun(c) \/ TurnEnds(c) \/ CloseRun(c)
     PROVE  Counting'
  BY <1>1, <1>14 DEF ReserveRefused, ReserveJoin, ReserveFresh, Enable, ReadResult,
    Wake, CancelCaller, RecheckOwner, RecheckRun, TurnEnds, CloseRun, callVars, jobVars,
    runVars
<1>15. CASE CloseSession \/ CloseLock \/ CloseDone \/ CloseFails \/ HostFence \/
          HostFenceSessions \/ HostPassLock \/ HostDrained \/ HostDrainFails \/
          HostRelease
  BY <1>1, <1>15 DEF CloseSession, CloseLock, CloseDone, CloseFails, HostFence,
    HostFenceSessions, HostPassLock, HostDrained, HostDrainFails, HostRelease, callVars,
    jobVars, runVars
<1>16. CASE UNCHANGED vars
  BY <1>1, <1>16 DEF vars, callVars, jobVars, runVars
<1> QED
  BY <1>2, <1>3, <1>4, <1>5, <1>6, <1>7, <1>8, <1>9, <1>10, <1>11, <1>12, <1>13, <1>14,
    <1>15, <1>16
  DEF Next, CallerStep, JobStep, RunStep, CloseStep, HostStep

\* Every step keeps a finished close empty.
LEMMA StepEmptied ==
  ASSUME IInv, [Next]_vars
  PROVE  Emptied'
<1> USE DEF IInv
<1>1. ASSUME UNCHANGED <<job, runs, unsettled, sessionOpen, host>>
     PROVE  Emptied'
  BY <1>1 DEF Emptied, Readers
<1>2. ASSUME NEW c \in Callers, CallDirectly(c)
     PROVE  Emptied'
  BY <1>2 DEF Emptied, Closing, CallDirectly, runVars, closeVars, Readers
<1>3. ASSUME NEW c \in Callers, SpawnPublication(c)
     PROVE  Emptied'
  BY <1>3 DEF Emptied, Closing, SpawnPublication, runVars, closeVars, Readers
<1>4. ASSUME NEW c \in Callers, AnswerDirectly(c)
     PROVE  Emptied'
  BY <1>4 DEF Emptied, Closing, AnswerDirectly, runVars, closeVars, Readers
<1>5. ASSUME NEW c \in Callers, JobEnter(c)
     PROVE  Emptied'
  BY <1>5 DEF Emptied, Typed, Closing, JobEnter, runVars, closeVars, JobReturns, Readers
<1>6. ASSUME NEW c \in Callers, JobAdmit(c)
     PROVE  Emptied'
  BY <1>6 DEF Emptied, Closing, JobAdmit, closeVars, Readers
<1>7. ASSUME NEW c \in Callers, JobPublish(c)
     PROVE  Emptied'
  BY <1>7 DEF Emptied, Closing, JobPublish, closeVars, Readers
<1>8. ASSUME NEW c \in Callers, JobFail(c)
     PROVE  Emptied'
  BY <1>8 DEF Emptied, Closing, JobFail, closeVars, Readers
<1>9. ASSUME NEW c \in Callers, JobWithdrawn(c)
     PROVE  Emptied'
  BY <1>9 DEF Emptied, Closing, JobWithdrawn, closeVars, JobReturns, Readers
<1>10. ASSUME NEW c \in Callers, FinishPublication(c)
     PROVE  Emptied'
  BY <1>10 DEF Emptied, Closing, FinishPublication, runVars, closeVars, Readers
<1>11. ASSUME NEW c \in Callers, NotifyAndSettle(c)
     PROVE  Emptied'
  BY <1>11 DEF Emptied, Closing, NotifyAndSettle, runVars, closeVars, Readers
<1>12. ASSUME NEW c \in Callers, CollectReceipt(c)
     PROVE  Emptied'
  BY <1>12 DEF Emptied, Closing, CollectReceipt, jobVars, closeVars, Readers
<1>13. ASSUME NEW c \in Callers, CloseRun(c)
     PROVE  Emptied'
  BY <1>13 DEF Emptied, Closing, CloseRun, closeVars
<1>14. CASE CloseDone
  BY <1>14 DEF Emptied, Closing, CloseDone, jobVars, runVars, Readers
<1>15. CASE HostFence
  BY <1>15 DEF Emptied, Closing, HostFence, jobVars, runVars, closeVars, Readers
<1>16. CASE HostFenceSessions
  BY <1>16 DEF Emptied, Closing, HostFenceSessions, jobVars, runVars, Readers
<1>17. CASE HostPassLock
  BY <1>17 DEF Emptied, Closing, HostPassLock, jobVars, runVars, closeVars, Readers
<1>18. CASE HostDrained
  <2>1. pending = 0
    BY <1>18 DEF HostDrained
  <2>2. Cardinality(unsettled) = 0
    BY <2>1, FiniteJobs DEF Counting
  <2>3. unsettled = {}
    BY <2>2, FiniteJobs, FS_EmptySet
  <2> QED
    BY <1>18, <2>3 DEF HostDrained, Emptied, Readers, jobVars, runVars, closeVars
<1>19. CASE HostDrainFails
  BY <1>19 DEF Emptied, Closing, HostDrainFails, jobVars, runVars, closeVars, Readers
<1>20. CASE HostRelease
  BY <1>20 DEF Emptied, Closing, HostRelease, jobVars, runVars, closeVars, Readers
<1>21. ASSUME NEW c \in Callers,
            Call(c) \/ ReserveRefused(c) \/ ReserveJoin(c) \/ ReserveFresh(c) \/
            Enable(c) \/ ReadResult(c) \/ Wake(c) \/ CancelCaller(c) \/ RecheckOwner(c)
            \/ RecheckRun(c) \/ TurnEnds(c)
     PROVE  Emptied'
  BY <1>1, <1>21 DEF Call, ReserveRefused, ReserveJoin, ReserveFresh, Enable,
    ReadResult, Wake, CancelCaller, RecheckOwner, RecheckRun, TurnEnds, jobVars,
    runVars, closeVars
<1>22. CASE CloseSession \/ CloseLock \/ CloseFails
  BY <1>1, <1>22 DEF CloseSession, CloseLock, CloseFails, jobVars, runVars
<1>23. CASE UNCHANGED vars
  BY <1>1, <1>23 DEF vars, jobVars, runVars, closeVars
<1> QED
  BY <1>2, <1>3, <1>4, <1>5, <1>6, <1>7, <1>8, <1>9, <1>10, <1>11, <1>12, <1>13, <1>14,
    <1>15, <1>16, <1>17, <1>18, <1>19, <1>20, <1>21, <1>22, <1>23
  DEF Next, CallerStep, JobStep, RunStep, CloseStep, HostStep

\* No step begins a second turn under a key.
LEMMA StepOneTurnPerKey ==
  ASSUME IInv, [Next]_vars
  PROVE  OneTurnPerKey'
<1> USE DEF IInv
<1>1. ASSUME UNCHANGED <<request, effectsStarted>>
     PROVE  OneTurnPerKey'
  BY <1>1 DEF OneTurnPerKey, Keyed
<1>2. ASSUME NEW c \in Callers, Call(c)
     PROVE  OneTurnPerKey'
  BY <1>2 DEF OneTurnPerKey, Reserved, Driven, Call, recordVars, Keyed
<1>3. ASSUME NEW c \in Callers, JobAdmit(c)
     PROVE  OneTurnPerKey'
  BY <1>3 DEF OneTurnPerKey, Reserved, JobAdmit, callVars, AdmissionError, Keyed
<1>4. ASSUME NEW c \in Callers,
            CallDirectly(c) \/ ReserveRefused(c) \/ ReserveJoin(c) \/ ReserveFresh(c) \/
            SpawnPublication(c) \/ Enable(c) \/ ReadResult(c) \/ Wake(c) \/
            CancelCaller(c) \/ RecheckOwner(c) \/ RecheckRun(c) \/ AnswerDirectly(c) \/
            JobEnter(c) \/ JobPublish(c) \/ JobFail(c) \/ JobWithdrawn(c) \/
            FinishPublication(c) \/ NotifyAndSettle(c) \/ TurnEnds(c) \/
            CollectReceipt(c) \/ CloseRun(c)
     PROVE  OneTurnPerKey'
  BY <1>1, <1>4 DEF CallDirectly, ReserveRefused, ReserveJoin, ReserveFresh,
    SpawnPublication, Enable, ReadResult, Wake, CancelCaller, RecheckOwner, RecheckRun,
    AnswerDirectly, JobEnter, JobPublish, JobFail, JobWithdrawn, FinishPublication,
    NotifyAndSettle, TurnEnds, CollectReceipt, CloseRun, callVars, recordVars
<1>5. CASE CloseSession \/ CloseLock \/ CloseDone \/ CloseFails \/ HostFence \/
          HostFenceSessions \/ HostPassLock \/ HostDrained \/ HostDrainFails \/
          HostRelease
  BY <1>1, <1>5 DEF CloseSession, CloseLock, CloseDone, CloseFails, HostFence,
    HostFenceSessions, HostPassLock, HostDrained, HostDrainFails, HostRelease, callVars,
    recordVars
<1>6. CASE UNCHANGED vars
  BY <1>1, <1>6 DEF vars, callVars, recordVars
<1> QED
  BY <1>2, <1>3, <1>4, <1>5, <1>6
  DEF Next, CallerStep, JobStep, RunStep, CloseStep, HostStep

\* No step answers a key with another Run.
LEMMA StepSamePublication ==
  ASSUME IInv, [Next]_vars
  PROVE  SamePublication'
<1> USE DEF IInv
<1>1. ASSUME UNCHANGED <<request, answer, effectsStarted>>
     PROVE  SamePublication'
  BY <1>1 DEF SamePublication, Keyed
<1>2. ASSUME NEW c \in Callers, Call(c)
     PROVE  SamePublication'
  <2>1. request[c] = None /\ job[c] = "none" /\ c \notin effectsStarted
    BY <1>2 DEF Call, Reserved, Driven, Asked
  <2>2. \A d \in Callers \ {c} : request'[d] = request[d] /\ answer'[d] = answer[d]
    BY <1>2 DEF Call, Answered, Typed
  <2>3. answer'[c] # None => answer'[c] = answer[c] \/ answer'[c].kind = "Closed"
    BY <1>2 DEF Call, Answered, Typed, Err
  <2>4. answer[c] = None
    BY <1>2 DEF Call, Recorded
  <2> QED
    BY <1>2, <2>1, <2>2, <2>3, <2>4 DEF SamePublication, Keyed, Call, recordVars
<1>3. ASSUME NEW c \in Callers, ReserveRefused(c)
     PROVE  SamePublication'
  BY <1>3 DEF SamePublication, Driven, Recorded, ReserveRefused, recordVars, Answered,
    Retired, Refusal, Conflicts, Err, Keyed
<1>4. ASSUME NEW c \in Callers, ReadResult(c)
     PROVE  SamePublication'
  <2>1. \A d \in Callers \ {c} : answer'[d] = answer[d]
    BY <1>4 DEF ReadResult, Answered, Typed
  <2>2. answer'[c] = answer[c] \/ answer'[c] = None \/ answer'[c].kind # "Ok"
    BY <1>4 DEF ReadResult, Answered, Typed
  <2> QED
    BY <1>4, <2>1, <2>2 DEF SamePublication, Keyed, ReadResult
<1>5. ASSUME NEW c \in Callers, CancelCaller(c)
     PROVE  SamePublication'
  BY <1>5 DEF SamePublication, CancelCaller, Answered, Err, Keyed
<1>6. ASSUME NEW c \in Callers, RecheckOwner(c)
     PROVE  SamePublication'
  BY <1>6 DEF SamePublication, Typed, RecheckOwner, recordVars, Answered, Err, Keyed
<1>7. ASSUME NEW c \in Callers, RecheckRun(c)
     PROVE  SamePublication'
  <2> DEFINE r == watched[c]
  <2>1. r \in Callers /\ request[r] = request[c]
    BY <1>7 DEF RecheckRun, Reserved, Typed
  <2>2. result[r] = Ok(r) /\ r \in effectsStarted
    BY <1>7, <2>1 DEF RecheckRun, Recorded
  <2>3. answer'[c] = Ok(r) \/ answer'[c].kind = "Closed"
    BY <1>7, <2>2 DEF RecheckRun, Answered, Err, Typed
  <2>4. \A d \in Callers \ {c} : answer'[d] = answer[d]
    BY <1>7 DEF RecheckRun, Answered
  <2>5. UNCHANGED <<request, effectsStarted>>
    BY <1>7 DEF RecheckRun, recordVars
  <2> QED
    BY <2>1, <2>2, <2>3, <2>4, <2>5 DEF SamePublication, Keyed, Ok
<1>8. ASSUME NEW c \in Callers, AnswerDirectly(c)
     PROVE  SamePublication'
  BY <1>8 DEF SamePublication, Reserved, AnswerDirectly, recordVars, Answered, Keyed
<1>9. ASSUME NEW c \in Callers, JobAdmit(c)
     PROVE  SamePublication'
  BY <1>9 DEF SamePublication, JobAdmit, callVars, Keyed
<1>10. ASSUME NEW c \in Callers,
            CallDirectly(c) \/ ReserveJoin(c) \/ ReserveFresh(c) \/ SpawnPublication(c)
            \/ Enable(c) \/ Wake(c) \/ JobEnter(c) \/ JobPublish(c) \/ JobFail(c) \/
            JobWithdrawn(c) \/ FinishPublication(c) \/ NotifyAndSettle(c) \/ TurnEnds(c)
            \/ CollectReceipt(c) \/ CloseRun(c)
     PROVE  SamePublication'
  BY <1>1, <1>10 DEF CallDirectly, ReserveJoin, ReserveFresh, SpawnPublication, Enable,
    Wake, JobEnter, JobPublish, JobFail, JobWithdrawn, FinishPublication,
    NotifyAndSettle, TurnEnds, CollectReceipt, CloseRun, callVars, recordVars
<1>11. CASE CloseSession \/ CloseLock \/ CloseDone \/ CloseFails \/ HostFence \/
          HostFenceSessions \/ HostPassLock \/ HostDrained \/ HostDrainFails \/
          HostRelease
  BY <1>1, <1>11 DEF CloseSession, CloseLock, CloseDone, CloseFails, HostFence,
    HostFenceSessions, HostPassLock, HostDrained, HostDrainFails, HostRelease, callVars,
    recordVars
<1>12. CASE UNCHANGED vars
  BY <1>1, <1>12 DEF vars, callVars, recordVars
<1> QED
  BY <1>2, <1>3, <1>4, <1>5, <1>6, <1>7, <1>8, <1>9, <1>10, <1>11, <1>12
  DEF Next, CallerStep, JobStep, RunStep, CloseStep, HostStep

-----------------------------------------------------------------------------
(* The inductive invariant and what follows from it.                       *)

\* The start satisfies it.
LEMMA InitIInv == Init => IInv
<1> SUFFICES ASSUME Init PROVE IInv
  OBVIOUS
<1>1. Typed /\ Reserved /\ Driven /\ Recorded /\ Closing /\ Emptied
  BY DEF Init, Typed, Reserved, Driven, Recorded, Closing, Emptied, Asked
<1>2. OneTurnPerKey /\ SamePublication
  BY DEF Init, OneTurnPerKey, SamePublication
<1>3. CountedJobs = {} /\ unsettled = {} /\ pending = 0
  BY DEF Init, CountedJobs
<1>4. Counting
  BY <1>3, FS_EmptySet DEF Counting
<1> QED
  BY <1>1, <1>2, <1>4 DEF IInv

\* Every reachable state satisfies it.
LEMMA Inductive == Spec => []IInv
<1>1. IInv /\ [Next]_vars => IInv'
  BY StepTyped, StepReserved, StepDriven, StepRecorded, StepClosing, StepCounting,
     StepEmptied, StepOneTurnPerKey, StepSamePublication DEF IInv
<1> QED
  BY InitIInv, <1>1, PTL DEF Spec

\* Every reachable state of the publication registry is within its types; in
\* particular finish_settlement never takes the count below zero.
THEOREM TypeCorrect == Spec => []TypeOK
<1>1. IInv => TypeOK
  <2> SUFFICES ASSUME IInv PROVE TypeOK
    OBVIOUS
  <2>1. pending \in Nat
    BY FiniteJobs DEF IInv, Counting
  <2> QED
    BY <2>1 DEF IInv, Typed, TypeOK
<1> QED
  BY <1>1, Inductive, PTL

\* No idempotency key ever begins a second turn.
THEOREM AtMostOneTurn == Spec => []OneTurnPerKey
<1>1. IInv => OneTurnPerKey
  BY DEF IInv
<1> QED
  BY <1>1, Inductive, PTL

\* All callers of a key that are told Ok are told the one Run that was started
\* with their payload.
THEOREM OnePublication == Spec => []SamePublication
<1>1. IInv => SamePublication
  BY DEF IInv
<1> QED
  BY <1>1, Inductive, PTL

\* The cancellation of a record and its effects exclude each other.
THEOREM WithdrawalIsClean == Spec => []WithdrawnHasNoEffect
<1>1. IInv => WithdrawnHasNoEffect
  BY DEF IInv, Driven, WithdrawnHasNoEffect, Typed
<1> QED
  BY <1>1, Inductive, PTL

\* The Session's turn is never held by a job that is over.
THEOREM NoTurnIsLeaked == Spec => []TurnIsOwned
<1>1. IInv => TurnIsOwned
  BY DEF IInv, Driven, TurnIsOwned
<1> QED
  BY <1>1, Inductive, PTL

\* The settlement count counts exactly the unfinished keyed jobs and Runs.
THEOREM CountIsExact == Spec => []PendingCountsWork
<1>1. IInv => PendingCountsWork
  BY DEF IInv, Counting, CountedJobs, Asked, PendingCountsWork
<1> QED
  BY <1>1, Inductive, PTL

\* A drained Host has no turn, no unsettled Run and no admitted job, and never
\* gets one again.
THEOREM DrainIsFinal == Spec => []DrainedIsQuiet
<1>1. IInv => DrainedIsQuiet
  BY DEF IInv, Emptied, Closing, Driven, DrainedIsQuiet, Readers, Typed
<1> QED
  BY <1>1, Inductive, PTL

\* A Session handle that is gone leaves no Run, turn or publishing job behind.
THEOREM CloseIsComplete == Spec => []ClosedSessionHasNoRun
<1>1. IInv => ClosedSessionHasNoRun
  BY DEF IInv, Emptied, Driven, ClosedSessionHasNoRun, Readers, Typed
<1> QED
  BY <1>1, Inductive, PTL

\* The turn has an owner and the count is exact, whoever is cancelled, fenced
\* or closed.
THEOREM WorkIsKept == Spec => []WorkIsAccounted
BY NoTurnIsLeaked, CountIsExact, PTL DEF WorkIsAccounted

\* Neither a drained Host nor a released Session has anything left.
THEOREM CloseIsQuiet == Spec => []ClosedIsQuiet
BY DrainIsFinal, CloseIsComplete, PTL DEF ClosedIsQuiet
=============================================================================
