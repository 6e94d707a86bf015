------------------------- MODULE SessionWorkProofs --------------------------
(***************************************************************************)
(* What a Session has started is where its close finds it, and neither a   *)
(* released Session nor a closed Host leaves anything at work, for any     *)
(* number of Sessions, scopes, requests, closes and idempotency ids.       *)
(***************************************************************************)
EXTENDS SessionWork, FiniteSetTheorems, TLAPS

USE SessionWorkAssumption DEF SessionWorkAssumption
-----------------------------------------------------------------------------
(* The inductive invariant.                                                *)
(*                                                                         *)
(* That work is in its map does not last by itself: executions leave their *)
(* map by scope, whoever is registered under it by then.  What keeps that  *)
(* right is that a scope is served for one Session at a time (Served), and *)
(* that a closer finds nobody in the Session it locks and lets nobody in   *)
(* while it goes through the scope (Closers); the drain takes no lock, but *)
(* fences all Sessions and sees every permit back first (Drained).         *)

Requests == Executes \cup Graphs \cup Dispatches
Looks == {"look", "park", "drop"}
Phase == {"runs", "attempts", "rest"} \cup Looks

\* Where the actors of each kind may stand, and what they may wait for.
Roles ==
  /\ \A e \in Executes :
       at[e] \in {"idle", "over", "permit", "register", "spawn", "refuse", "respond"}
  /\ \A g \in Graphs : at[g] \in {"idle", "over", "permit", "store"}
  /\ \A d \in Dispatches :
       at[d] \in {"idle", "over", "permit", "receipts", "admit", "readyLook", "readyPark", "respond",
                  "look", "park"}
  /\ \A j \in Asks : at[j] \in {"idle", "over", "readyLook", "readyPark", "respond", "look", "park"}
  /\ \A c \in Closes : at[c] \in {"idle", "over", "lock", "release"} \cup Phase
  /\ at[Host] \in {"idle", "locks", "cancel", "closed"} \cup Phase
  /\ \A c \in Calls \ Asks : at[c] \notin {"idle", "over"} => on[c] \in Sessions
  /\ \A c \in Calls : at[c] = "idle" => on[c] = None
  /\ \A k \in Actors :
       at[k] \in Looks \cup {"readyLook", "readyPark"} => target[k] \in Work /\ on[target[k]] \in Sessions
  /\ \A j \in Asks : at[j] = "respond" => target[j] \in Work
  /\ \A k \in Actors : at[k] = "drop" => Settled(target[k])
  /\ \A k \in Actors :
       at[k] # "locks" => \A a \in left[k] : a \in Dispatches /\ on[a] \in Sessions

\* What a request has started, and when.
Started ==
  /\ \A w \in Work : work[w] # "free" => on[w] \in Sessions
  /\ \A e \in Executes :
       /\ at[e] \in {"idle", "permit", "register"} => work[e] = "free"
       /\ at[e] = "spawn" <=> work[e] = "admitted"
  /\ \A d \in Dispatches :
       /\ at[d] \in {"idle", "permit", "receipts", "admit"} => work[d] = "free"
       /\ work[d] # "free" /\ KeyOf[d] # None => receipts[on[d]][KeyOf[d]] = d

\* What is in the maps.
Occupies(e) == Live(e) \/ work[e] \in {"admitted", "failed", "ended"}
Submitted(a) == Live(a) \/ work[a] = "refused"

Mapped ==
  /\ IsFiniteSet(tracked)
  /\ \A p \in Scopes : registered[p] # None => on[registered[p]] \in Sessions /\ Scope(registered[p]) = p
  /\ \A e \in Executes : Occupies(e) /\ Scope(e) \notin again => registered[Scope(e)] = e
  /\ \A a \in tracked : work[a] # "free"
  /\ \A a \in Dispatches : Submitted(a) => a \in tracked

\* A Session is served while it is open or closing, one at a time of a
\* scope, and not behind the back of who has its lock.
Serving(s) == session[s] \in {"open", "closing"}

Served ==
  /\ \A s, n \in Sessions : Serving(s) /\ Serving(n) /\ ScopeOf[s] = ScopeOf[n] => s = n
  /\ \A s \in Sessions : Readers(s) # {} => Serving(s) /\ lock[s] = None
  /\ fenced => \A s \in Sessions : session[s] # "open"
  /\ \A s \in Sessions : session[s] = "released" /\ ScopeOf[s] \notin again =>
       \A w \in Work : on[w] = s => ~Live(w)

\* What a closer has behind it.
OnRuns(k) == at[k] = "runs" \/ (at[k] \in Looks /\ target[k] \in Executes)
OnAttempts(k) == at[k] = "attempts" \/ (at[k] \in Looks /\ target[k] \in Dispatches)

Locking ==
  \A c \in Closes :
    /\ at[c] = "lock" => session[on[c]] \in {"closing", "freed", "released"}
    /\ at[c] \in Phase => lock[on[c]] = c /\ session[on[c]] \in {"closing", "freed"}
    /\ at[c] \in Phase /\ session[on[c]] = "freed" => Scope(c) \in again
    /\ at[c] = "release" => lock[on[c]] = c /\ session[on[c]] = "freed"
    /\ OnRuns(c) => todo[c] \subseteq {Scope(c)}
    /\ OnRuns(c) /\ at[c] # "runs" => Scope(target[c]) = Scope(c)

Closers ==
  \A c \in Closes : at[c] \in {"release"} \cup Phase /\ Scope(c) \notin again =>
    /\ at[c] = "runs" /\ todo[c] = {} => registered[Scope(c)] = None
    /\ OnRuns(c) /\ at[c] # "runs" => registered[Scope(c)] \in {target[c], None}
    /\ OnAttempts(c) =>
         /\ registered[Scope(c)] = None /\ todo[c] \subseteq {Scope(c)}
         /\ todo[c] = {} => \A a \in tracked : Scope(a) = Scope(c) => a \in left[c]
    /\ at[c] = "rest" =>
         registered[Scope(c)] = None /\ \A a \in tracked : Scope(a) # Scope(c)
    /\ at[c] = "release" => \A w \in Work : on[w] = on[c] => ~Live(w)

\* What the drain has behind it.
Drained ==
  /\ at[Host] # "idle" => fenced
  /\ at[Host] = "locks" => \A s \in Sessions : Readers(s) # {} => s \in left[Host]
  /\ at[Host] \notin {"idle", "locks"} => \A s \in Sessions : Readers(s) = {}
  /\ OnRuns(Host) => \A p \in Scopes : registered[p] # None => p \in todo[Host]
  /\ OnRuns(Host) /\ at[Host] # "runs" =>
       registered[Scope(target[Host])] \in {target[Host], None}
  /\ OnAttempts(Host) =>
       /\ \A p \in Scopes : registered[p] = None
       /\ \A a \in tracked : Scope(a) \in todo[Host] \/ a \in left[Host]
  /\ at[Host] \in {"rest", "closed"} => tracked = {} /\ \A p \in Scopes : registered[p] = None

\* What task/list shows.
Shown ==
  \A e \in Executes : on[e] \in Sessions /\ Scope(e) \notin again =>
    /\ work[e] = "running" => error[on[e]] = None
    /\ at[e] = "refuse" =>
         ~connected /\ \A o \in Executes : work[o] = "running" => Scope(o) # Scope(e)

IInv == TypeOK /\ Roles /\ Started /\ Mapped /\ Served /\ Locking /\ Closers /\ Drained /\ Shown
-----------------------------------------------------------------------------
(* What a step leaves alone.                                               *)

ActorStep(k) ==
  \/ k \in Calls /\ \E s \in Sessions : Begin(k, s)
  \/ k \in Calls /\ (CallStep(k) \/ LeaveStore(k) \/ Ask(k))
  \/ WaitStep(k)
  \/ k = Host /\ (Fence \/ HostStep \/ Timeout)

WorkStep(w) == TaskStep(w) \/ Framework(w) \/ (w \in Executes /\ DropRun(w))

\* Who an actor is, by where it stands.
LEMMA WhoIs ==
  ASSUME IInv, NEW k \in Actors
  PROVE  /\ at[k] \in {"register", "spawn", "refuse"} => k \in Executes
         /\ at[k] = "store" => k \in Graphs
         /\ at[k] \in {"receipts", "admit"} => k \in Dispatches
         /\ at[k] \in {"lock", "release"} => k \in Closes
         /\ at[k] \in {"runs", "attempts", "rest", "drop"} => k \in Closes \cup {Host}
         /\ at[k] \in {"locks", "cancel", "closed"} => k = Host
         /\ at[k] = "permit" => k \in Executes \cup Graphs \cup Dispatches
         /\ at[k] = "respond" => k \in Executes \cup Dispatches \cup Asks
         /\ at[k] \in {"readyLook", "readyPark"} => k \in Dispatches \cup Asks /\ target[k] \in Work
         /\ at[k] \in {"look", "park", "drop"} => target[k] \in Work
         /\ k \in Calls \ Asks /\ at[k] \notin {"idle", "over"} => on[k] \in Sessions
BY DEF IInv, Roles, Actors, Calls, Looks, Phase

\* A step of an actor moves that actor only.
LEMMA ActorFrame ==
  ASSUME IInv, NEW k \in Actors, ActorStep(k)
  PROVE  /\ \A o \in Actors \ {k} : /\ at'[o] = at[o] /\ target'[o] = target[o]
                                     /\ todo'[o] = todo[o] /\ left'[o] = left[o]
         /\ \A o \in Calls \ {k} : on'[o] = on[o]
<1> USE DEF Goes, Returns, Holds, Awaits, sessions, waiting
<1>a. /\ at \in [Actors -> Steps] /\ on \in [Calls -> Sessions \cup {None}]
      /\ target \in [Actors -> Work \cup {None}]
      /\ todo \in [Actors -> SUBSET Scopes]
      /\ left \in [Actors -> SUBSET (Dispatches \cup Sessions)]
      /\ lock \in [Sessions -> Calls \cup {None}]
      /\ Calls \subseteq Actors /\ Host \in Actors /\ Host \notin Calls
  BY DEF IInv, TypeOK, Actors
<1>1. CASE k \in Calls /\ \E s \in Sessions : Begin(k, s)
  BY <1>a, <1>1 DEF Begin
<1>2. CASE k \in Calls /\ Enter(k)
  BY <1>a, <1>2 DEF Enter
<1>3. CASE k \in Calls /\ LeaveStore(k)
  BY <1>a, <1>3 DEF LeaveStore
<1>4. CASE k \in Calls /\ Register(k)
  BY <1>a, <1>4 DEF Register
<1>5. CASE k \in Calls /\ Spawn(k)
  BY <1>a, <1>5 DEF Spawn
<1>6. CASE k \in Calls /\ Refuse(k)
  BY <1>a, <1>6 DEF Refuse
<1>7. CASE k \in Calls /\ Respond(k)
  BY <1>a, <1>7 DEF Respond
<1>8. CASE k \in Calls /\ TakeReceipts(k)
  BY <1>a, <1>8 DEF TakeReceipts
<1>9. CASE k \in Calls /\ Rejoin(k)
  BY <1>a, <1>9 DEF Rejoin, Known
<1>10. CASE k \in Calls /\ Admit(k)
  BY <1>a, <1>10 DEF Admit, Kept, Remembers
<1>11. CASE k \in Calls /\ LookReady(k)
  BY <1>a, <1>11 DEF LookReady
<1>12. CASE k \in Calls /\ Steer(k)
  BY <1>a, <1>12 DEF Steer
<1>13. CASE k \in Calls /\ Expire(k)
  BY <1>a, <1>13 DEF Expire
<1>14. CASE k \in Calls /\ Ask(k)
  BY <1>a, <1>14 DEF Ask
<1>15. CASE k \in Calls /\ Lock(k)
  BY <1>a, <1>15 DEF Lock
<1>16. CASE k \in Calls /\ Rest(k)
  BY <1>a, <1>16 DEF Rest
<1>17. CASE k \in Calls /\ Release(k)
  BY <1>a, <1>17 DEF Release
<1>18. CASE k \in Calls /\ DropCall(k)
  BY <1>a, <1>18 DEF DropCall, Waits
<1>19. CASE LookSettled(k)
  BY <1>a, <1>19 DEF LookSettled
<1>20. CASE Wake(k)
  BY <1>a, <1>20 DEF Wake
<1>21. CASE NextRun(k)
  BY <1>a, <1>21 DEF NextRun
<1>22. CASE NextAttempt(k)
  BY <1>a, <1>22 DEF NextAttempt
<1>23. CASE Drop(k)
  BY <1>a, <1>23 DEF Drop
<1>24. CASE k = Host /\ Fence
  BY <1>a, <1>24 DEF Fence
<1>25. CASE k = Host /\ Locks
  BY <1>a, <1>25 DEF Locks
<1>26. CASE k = Host /\ CancelAll
  BY <1>a, <1>26 DEF CancelAll
<1>27. CASE k = Host /\ HostRest
  BY <1>a, <1>27 DEF HostRest
<1>28. CASE k = Host /\ Timeout
  BY <1>a, <1>28 DEF Timeout
<1> QED
  BY <1>1, <1>2, <1>3, <1>4, <1>5, <1>6, <1>7, <1>8, <1>9, <1>10, <1>11, <1>12, <1>13, <1>14, <1>15, <1>16, <1>17, <1>18, <1>19, <1>20, <1>21, <1>22, <1>23, <1>24, <1>25, <1>26, <1>27, <1>28
     DEF ActorStep, CallStep, WaitStep, HostStep

LEMMA ActorLock ==
  ASSUME IInv, NEW k \in Actors, ActorStep(k)
  PROVE  \A s \in Sessions :
           \/ lock'[s] = lock[s]
           \/ lock[s] = k /\ lock'[s] = None
           \/ lock[s] = None /\ lock'[s] = k /\ k \in Closes /\ on[k] = s /\ Readers(s) = {}
<1> USE DEF Goes, Returns, Holds, Awaits, sessions, waiting
<1>a. /\ at \in [Actors -> Steps] /\ on \in [Calls -> Sessions \cup {None}]
      /\ target \in [Actors -> Work \cup {None}]
      /\ todo \in [Actors -> SUBSET Scopes]
      /\ left \in [Actors -> SUBSET (Dispatches \cup Sessions)]
      /\ lock \in [Sessions -> Calls \cup {None}]
      /\ Calls \subseteq Actors /\ Host \in Actors /\ Host \notin Calls
  BY DEF IInv, TypeOK, Actors
<1>1. CASE k \in Calls /\ \E s \in Sessions : Begin(k, s)
  BY <1>a, <1>1 DEF Begin
<1>2. CASE k \in Calls /\ Enter(k)
  BY <1>a, <1>2 DEF Enter
<1>3. CASE k \in Calls /\ LeaveStore(k)
  BY <1>a, <1>3 DEF LeaveStore
<1>4. CASE k \in Calls /\ Register(k)
  BY <1>a, <1>4 DEF Register
<1>5. CASE k \in Calls /\ Spawn(k)
  BY <1>a, <1>5 DEF Spawn
<1>6. CASE k \in Calls /\ Refuse(k)
  BY <1>a, <1>6 DEF Refuse
<1>7. CASE k \in Calls /\ Respond(k)
  BY <1>a, <1>7 DEF Respond
<1>8. CASE k \in Calls /\ TakeReceipts(k)
  BY <1>a, <1>8 DEF TakeReceipts
<1>9. CASE k \in Calls /\ Rejoin(k)
  BY <1>a, <1>9 DEF Rejoin, Known
<1>10. CASE k \in Calls /\ Admit(k)
  BY <1>a, <1>10 DEF Admit, Kept, Remembers
<1>11. CASE k \in Calls /\ LookReady(k)
  BY <1>a, <1>11 DEF LookReady
<1>12. CASE k \in Calls /\ Steer(k)
  BY <1>a, <1>12 DEF Steer
<1>13. CASE k \in Calls /\ Expire(k)
  BY <1>a, <1>13 DEF Expire
<1>14. CASE k \in Calls /\ Ask(k)
  BY <1>a, <1>14 DEF Ask
<1>15. CASE k \in Calls /\ Lock(k)
  <2>1. k \in Closes /\ on[k] \in Sessions
    BY <1>15 DEF Lock, IInv, Roles, Calls, Looks, Phase
  <2> QED
    BY <1>a, <2>1, <1>15 DEF Lock
<1>16. CASE k \in Calls /\ Rest(k)
  BY <1>a, <1>16 DEF Rest
<1>17. CASE k \in Calls /\ Release(k)
  BY <1>a, <1>17 DEF Release
<1>18. CASE k \in Calls /\ DropCall(k)
  BY <1>a, <1>18 DEF DropCall, Waits
<1>19. CASE LookSettled(k)
  BY <1>a, <1>19 DEF LookSettled
<1>20. CASE Wake(k)
  BY <1>a, <1>20 DEF Wake
<1>21. CASE NextRun(k)
  BY <1>a, <1>21 DEF NextRun
<1>22. CASE NextAttempt(k)
  BY <1>a, <1>22 DEF NextAttempt
<1>23. CASE Drop(k)
  BY <1>a, <1>23 DEF Drop
<1>24. CASE k = Host /\ Fence
  BY <1>a, <1>24 DEF Fence
<1>25. CASE k = Host /\ Locks
  BY <1>a, <1>25 DEF Locks
<1>26. CASE k = Host /\ CancelAll
  BY <1>a, <1>26 DEF CancelAll
<1>27. CASE k = Host /\ HostRest
  BY <1>a, <1>27 DEF HostRest
<1>28. CASE k = Host /\ Timeout
  BY <1>a, <1>28 DEF Timeout
<1> QED
  BY <1>1, <1>2, <1>3, <1>4, <1>5, <1>6, <1>7, <1>8, <1>9, <1>10, <1>11, <1>12, <1>13, <1>14, <1>15, <1>16, <1>17, <1>18, <1>19, <1>20, <1>21, <1>22, <1>23, <1>24, <1>25, <1>26, <1>27, <1>28
     DEF ActorStep, CallStep, WaitStep, HostStep

-----------------------------------------------------------------------------
(* Types.                                                                  *)

LEMMA ActorStands ==
  ASSUME IInv, NEW k \in Actors, ActorStep(k)
  PROVE  /\ at' \in [Actors -> Steps] /\ on' \in [Calls -> Sessions \cup {None}]
<1> USE DEF Goes, Returns, Holds, Awaits, sessions, waiting, Steps, Waits
<1>a. /\ at \in [Actors -> Steps] /\ on \in [Calls -> Sessions \cup {None}]
      /\ target \in [Actors -> Work \cup {None}] /\ enabled \subseteq Actors
      /\ todo \in [Actors -> SUBSET Scopes]
      /\ left \in [Actors -> SUBSET (Dispatches \cup Sessions)]
      /\ registered \in [Scopes -> Executes \cup {None}] /\ tracked \subseteq Dispatches
      /\ receipts \in [Sessions -> [Keys -> Dispatches \cup {None}]]
      /\ Calls \subseteq Actors /\ Host \in Actors /\ Host \notin Calls
      /\ Executes \subseteq Work /\ Dispatches \subseteq Work /\ Work \subseteq Calls
      /\ Closes \subseteq Calls /\ Asks \subseteq Calls /\ Graphs \subseteq Calls
  BY DEF IInv, TypeOK, Actors, Calls, Work
<1>1. CASE k \in Calls /\ \E s \in Sessions : Begin(k, s)
  BY <1>a, <1>1 DEF Begin
<1>2. CASE k \in Calls /\ Enter(k)
  <2>1. Returns(k) \/ \E step \in {"register", "store", "receipts"} : Goes(k, step)
    BY <1>2 DEF Enter
  <2>2. UNCHANGED on
    BY <1>2 DEF Enter
  <2> QED
    BY <1>a, <2>1, <2>2
<1>3. CASE k \in Calls /\ LeaveStore(k)
  BY <1>a, <1>3 DEF LeaveStore
<1>4. CASE k \in Calls /\ Register(k)
  BY <1>a, <1>4 DEF Register
<1>5. CASE k \in Calls /\ Spawn(k)
  BY <1>a, <1>5 DEF Spawn
<1>6. CASE k \in Calls /\ Refuse(k)
  BY <1>a, <1>6 DEF Refuse
<1>7. CASE k \in Calls /\ Respond(k)
  BY <1>a, <1>7 DEF Respond
<1>8. CASE k \in Calls /\ TakeReceipts(k)
  BY <1>a, <1>8 DEF TakeReceipts
<1>9. CASE k \in Calls /\ Rejoin(k)
  BY <1>a, <1>9 DEF Rejoin, Known
<1>10. CASE k \in Calls /\ Admit(k)
  BY <1>a, <1>10 DEF Admit, Kept, Remembers
<1>11. CASE k \in Calls /\ LookReady(k)
  BY <1>a, <1>11 DEF LookReady
<1>12. CASE k \in Calls /\ Steer(k)
  BY <1>a, <1>12 DEF Steer
<1>13. CASE k \in Calls /\ Expire(k)
  BY <1>a, <1>13 DEF Expire
<1>14. CASE k \in Calls /\ Ask(k)
  BY <1>a, <1>14 DEF Ask
<1>15. CASE k \in Calls /\ Lock(k)
  BY <1>a, <1>15 DEF Lock
<1>16. CASE k \in Calls /\ Rest(k)
  BY <1>a, <1>16 DEF Rest
<1>17. CASE k \in Calls /\ Release(k)
  BY <1>a, <1>17 DEF Release
<1>18. CASE k \in Calls /\ DropCall(k)
  BY <1>a, <1>18 DEF DropCall, Waits
<1>19. CASE LookSettled(k)
  BY <1>a, <1>19 DEF LookSettled
<1>20. CASE Wake(k)
  BY <1>a, <1>20 DEF Wake
<1>21. CASE NextRun(k)
  BY <1>a, <1>21 DEF NextRun
<1>22. CASE NextAttempt(k)
  BY <1>a, <1>22 DEF NextAttempt
<1>23. CASE Drop(k)
  BY <1>a, <1>23 DEF Drop
<1>24. CASE k = Host /\ Fence
  BY <1>a, <1>24 DEF Fence
<1>25. CASE k = Host /\ Locks
  BY <1>a, <1>25 DEF Locks
<1>26. CASE k = Host /\ CancelAll
  BY <1>a, <1>26 DEF CancelAll
<1>27. CASE k = Host /\ HostRest
  BY <1>a, <1>27 DEF HostRest
<1>28. CASE k = Host /\ Timeout
  BY <1>a, <1>28 DEF Timeout
<1> QED
  BY <1>1, <1>2, <1>3, <1>4, <1>5, <1>6, <1>7, <1>8, <1>9, <1>10, <1>11, <1>12, <1>13, <1>14, <1>15, <1>16, <1>17, <1>18, <1>19, <1>20, <1>21, <1>22, <1>23, <1>24, <1>25, <1>26, <1>27, <1>28
     DEF ActorStep, CallStep, WaitStep, HostStep

LEMMA ActorAwaits ==
  ASSUME IInv, NEW k \in Actors, ActorStep(k)
  PROVE  /\ target' \in [Actors -> Work \cup {None}] /\ enabled' \subseteq Actors
<1> USE DEF Goes, Returns, Holds, Awaits, sessions, waiting
<1>a. /\ at \in [Actors -> Steps] /\ on \in [Calls -> Sessions \cup {None}]
      /\ target \in [Actors -> Work \cup {None}] /\ enabled \subseteq Actors
      /\ todo \in [Actors -> SUBSET Scopes]
      /\ left \in [Actors -> SUBSET (Dispatches \cup Sessions)]
      /\ registered \in [Scopes -> Executes \cup {None}] /\ tracked \subseteq Dispatches
      /\ receipts \in [Sessions -> [Keys -> Dispatches \cup {None}]]
      /\ Calls \subseteq Actors /\ Host \in Actors /\ Host \notin Calls
      /\ Executes \subseteq Work /\ Dispatches \subseteq Work /\ Work \subseteq Calls
      /\ Closes \subseteq Calls /\ Asks \subseteq Calls /\ Graphs \subseteq Calls
  BY DEF IInv, TypeOK, Actors, Calls, Work
<1>m. /\ target \in [Actors -> Work \cup {None}] /\ enabled \subseteq Actors /\ tracked \subseteq Work
      /\ registered \in [Scopes -> Executes \cup {None}] /\ Executes \subseteq Work
      /\ todo \in [Actors -> SUBSET Scopes]
  BY DEF IInv, TypeOK, Work
<1>1. CASE k \in Calls /\ \E s \in Sessions : Begin(k, s)
  BY <1>m, <1>1 DEF Begin
<1>2. CASE k \in Calls /\ Enter(k)
  BY <1>m, <1>2 DEF Enter
<1>3. CASE k \in Calls /\ LeaveStore(k)
  BY <1>m, <1>3 DEF LeaveStore
<1>4. CASE k \in Calls /\ Register(k)
  BY <1>m, <1>4 DEF Register
<1>5. CASE k \in Calls /\ Spawn(k)
  BY <1>m, <1>5 DEF Spawn
<1>6. CASE k \in Calls /\ Refuse(k)
  BY <1>m, <1>6 DEF Refuse
<1>7. CASE k \in Calls /\ Respond(k)
  <2>1. k \in Work
    BY <1>a, <1>7, WhoIs DEF Respond
  <2> QED
    BY <1>a, <2>1, <1>7 DEF Respond
<1>8. CASE k \in Calls /\ TakeReceipts(k)
  BY <1>m, <1>8 DEF TakeReceipts
<1>9. CASE k \in Calls /\ Rejoin(k)
  <2>1. /\ k \in Dispatches /\ on[k] \in Sessions /\ KeyOf[k] \in Keys
        /\ receipts[on[k]][KeyOf[k]] \in Dispatches
    BY <1>a, <1>9, WhoIs DEF Rejoin, Known
  <2> QED
    BY <1>a, <2>1, <1>9 DEF Rejoin
<1>10. CASE k \in Calls /\ Admit(k)
  <2>1. k \in Dispatches
    BY <1>a, <1>10, WhoIs DEF Admit
  <2>2. Returns(k) \/ Awaits(k, k, "readyLook")
    BY <1>10 DEF Admit
  <2>3. k \in Work
    BY <1>a, <2>1
  <2> QED
    BY <1>m, <2>2, <2>3
<1>11. CASE k \in Calls /\ LookReady(k)
  BY <1>m, <1>11 DEF LookReady
<1>12. CASE k \in Calls /\ Steer(k)
  BY <1>m, <1>12 DEF Steer
<1>13. CASE k \in Calls /\ Expire(k)
  BY <1>m, <1>13 DEF Expire
<1>14. CASE k \in Calls /\ Ask(k)
  <2>1. \E a \in tracked : Awaits(k, a, "look") \/ Awaits(k, a, "readyLook")
    BY <1>14 DEF Ask
  <2>2. PICK a \in tracked, step \in {"look", "readyLook"} : Awaits(k, a, step)
    BY <2>1
  <2>3. a \in Work
    BY <1>a
  <2> QED
    BY <1>a, <2>2, <2>3
<1>15. CASE k \in Calls /\ Lock(k)
  BY <1>m, <1>15 DEF Lock
<1>16. CASE k \in Calls /\ Rest(k)
  BY <1>m, <1>16 DEF Rest
<1>17. CASE k \in Calls /\ Release(k)
  BY <1>m, <1>17 DEF Release
<1>18. CASE k \in Calls /\ DropCall(k)
  BY <1>m, <1>18 DEF DropCall, Waits
<1>19. CASE LookSettled(k)
  BY <1>m, <1>19 DEF LookSettled
<1>20. CASE Wake(k)
  BY <1>m, <1>20 DEF Wake
<1>21. CASE NextRun(k)
  BY <1>m, <1>21 DEF NextRun
<1>22. CASE NextAttempt(k)
  <2>1. left[k] \subseteq Work
    BY <1>a, <1>22 DEF NextAttempt, IInv, Roles
  <2>2. UNCHANGED <<target, enabled>> \/ \E a \in left[k] : Awaits(k, a, "look")
    BY <1>22 DEF NextAttempt
  <2> QED
    BY <1>a, <2>1, <2>2
<1>23. CASE Drop(k)
  BY <1>m, <1>23 DEF Drop
<1>24. CASE k = Host /\ Fence
  BY <1>m, <1>24 DEF Fence
<1>25. CASE k = Host /\ Locks
  BY <1>m, <1>25 DEF Locks
<1>26. CASE k = Host /\ CancelAll
  BY <1>m, <1>26 DEF CancelAll
<1>27. CASE k = Host /\ HostRest
  BY <1>m, <1>27 DEF HostRest
<1>28. CASE k = Host /\ Timeout
  BY <1>m, <1>28 DEF Timeout
<1> QED
  BY <1>1, <1>2, <1>3, <1>4, <1>5, <1>6, <1>7, <1>8, <1>9, <1>10, <1>11, <1>12, <1>13, <1>14, <1>15, <1>16, <1>17, <1>18, <1>19, <1>20, <1>21, <1>22, <1>23, <1>24, <1>25, <1>26, <1>27, <1>28
     DEF ActorStep, CallStep, WaitStep, HostStep

\* What is tracked has an owner.
LEMMA Owners ==
  ASSUME IInv, NEW a \in tracked
  PROVE  on[a] \in Sessions /\ Scope(a) \in Scopes
<1>1. a \in Work /\ work[a] # "free"
  BY DEF IInv, TypeOK, Mapped, Work
<1>2. on[a] \in Sessions
  BY <1>1 DEF IInv, Started
<1> QED
  BY <1>2 DEF Scope

LEMMA ActorLists ==
  ASSUME IInv, NEW k \in Actors, ActorStep(k)
  PROVE  /\ todo' \in [Actors -> SUBSET Scopes]
         /\ left' \in [Actors -> SUBSET (Dispatches \cup Sessions)]
<1> USE DEF Goes, Returns, Holds, Awaits, sessions, waiting
<1>a. /\ at \in [Actors -> Steps] /\ on \in [Calls -> Sessions \cup {None}]
      /\ target \in [Actors -> Work \cup {None}] /\ enabled \subseteq Actors
      /\ todo \in [Actors -> SUBSET Scopes]
      /\ left \in [Actors -> SUBSET (Dispatches \cup Sessions)]
      /\ registered \in [Scopes -> Executes \cup {None}] /\ tracked \subseteq Dispatches
      /\ receipts \in [Sessions -> [Keys -> Dispatches \cup {None}]]
      /\ Calls \subseteq Actors /\ Host \in Actors /\ Host \notin Calls
      /\ Executes \subseteq Work /\ Dispatches \subseteq Work /\ Work \subseteq Calls
      /\ Closes \subseteq Calls /\ Asks \subseteq Calls /\ Graphs \subseteq Calls
  BY DEF IInv, TypeOK, Actors, Calls, Work
<1>m. /\ todo \in [Actors -> SUBSET Scopes]
      /\ left \in [Actors -> SUBSET (Dispatches \cup Sessions)] /\ tracked \subseteq Dispatches
  BY DEF IInv, TypeOK
<1>1. CASE k \in Calls /\ \E s \in Sessions : Begin(k, s)
  BY <1>m, <1>1 DEF Begin
<1>2. CASE k \in Calls /\ Enter(k)
  BY <1>m, <1>2 DEF Enter
<1>3. CASE k \in Calls /\ LeaveStore(k)
  BY <1>m, <1>3 DEF LeaveStore
<1>4. CASE k \in Calls /\ Register(k)
  BY <1>m, <1>4 DEF Register
<1>5. CASE k \in Calls /\ Spawn(k)
  BY <1>m, <1>5 DEF Spawn
<1>6. CASE k \in Calls /\ Refuse(k)
  BY <1>m, <1>6 DEF Refuse
<1>7. CASE k \in Calls /\ Respond(k)
  <2>1. Returns(k) \/ UNCHANGED <<todo, left>>
    BY <1>7 DEF Respond
  <2> QED
    BY <1>a, <2>1
<1>8. CASE k \in Calls /\ TakeReceipts(k)
  BY <1>m, <1>8 DEF TakeReceipts
<1>9. CASE k \in Calls /\ Rejoin(k)
  <2>1. Returns(k) \/ UNCHANGED <<todo, left>>
    BY <1>9 DEF Rejoin
  <2> QED
    BY <1>m, <2>1
<1>10. CASE k \in Calls /\ Admit(k)
  <2>1. Returns(k) \/ UNCHANGED <<todo, left>>
    BY <1>10 DEF Admit
  <2> QED
    BY <1>m, <2>1
<1>11. CASE k \in Calls /\ LookReady(k)
  BY <1>m, <1>11 DEF LookReady
<1>12. CASE k \in Calls /\ Steer(k)
  BY <1>m, <1>12 DEF Steer
<1>13. CASE k \in Calls /\ Expire(k)
  BY <1>m, <1>13 DEF Expire
<1>14. CASE k \in Calls /\ Ask(k)
  BY <1>m, <1>14 DEF Ask
<1>15. CASE k \in Calls /\ Lock(k)
  <2>1. on[k] \in Sessions
    BY <1>a, <1>15, WhoIs DEF Lock
  <2>2. Returns(k) \/ (todo' = [todo EXCEPT ![k] = {ScopeOf[on[k]]}] /\ UNCHANGED left)
    BY <1>15 DEF Lock
  <2> QED
    BY <1>a, <2>1, <2>2
<1>16. CASE k \in Calls /\ Rest(k)
  BY <1>m, <1>16 DEF Rest
<1>17. CASE k \in Calls /\ Release(k)
  BY <1>m, <1>17 DEF Release
<1>18. CASE k \in Calls /\ DropCall(k)
  BY <1>m, <1>18 DEF DropCall, Waits
<1>19. CASE LookSettled(k)
  BY <1>m, <1>19 DEF LookSettled
<1>20. CASE Wake(k)
  BY <1>m, <1>20 DEF Wake
<1>21. CASE NextRun(k)
  <2>1. \/ todo' = [todo EXCEPT ![k] = {}] \/ UNCHANGED todo
        \/ k = Host /\ todo' = [todo EXCEPT ![k] = {Scope(a) : a \in tracked}]
        \/ k # Host /\ todo' = [todo EXCEPT ![k] = {Scope(k)}]
        \/ \E p \in Scopes : todo' = [todo EXCEPT ![k] = todo[k] \ {p}]
    BY <1>a, <1>21 DEF NextRun
  <2>2. {Scope(a) : a \in tracked} \subseteq Scopes
    BY <1>a, Owners
  <2>3. k # Host => Scope(k) \in Scopes
    BY <1>a, <1>21, WhoIs DEF NextRun, Scope, Actors
  <2>4. UNCHANGED left
    BY <1>21 DEF NextRun
  <2> QED
    BY <1>a, <2>1, <2>2, <2>3, <2>4
<1>22. CASE NextAttempt(k)
  BY <1>m, <1>22 DEF NextAttempt
<1>23. CASE Drop(k)
  BY <1>m, <1>23 DEF Drop
<1>24. CASE k = Host /\ Fence
  BY <1>m, <1>24 DEF Fence
<1>25. CASE k = Host /\ Locks
  BY <1>m, <1>25 DEF Locks
<1>26. CASE k = Host /\ CancelAll
  BY <1>m, <1>26 DEF CancelAll
<1>27. CASE k = Host /\ HostRest
  BY <1>m, <1>27 DEF HostRest
<1>28. CASE k = Host /\ Timeout
  BY <1>m, <1>28 DEF Timeout
<1> QED
  BY <1>1, <1>2, <1>3, <1>4, <1>5, <1>6, <1>7, <1>8, <1>9, <1>10, <1>11, <1>12, <1>13, <1>14, <1>15, <1>16, <1>17, <1>18, <1>19, <1>20, <1>21, <1>22, <1>23, <1>24, <1>25, <1>26, <1>27, <1>28
     DEF ActorStep, CallStep, WaitStep, HostStep

LEMMA ActorSessions ==
  ASSUME IInv, NEW k \in Actors, ActorStep(k)
  PROVE  /\ connected' \in BOOLEAN /\ fenced' \in BOOLEAN
         /\ session' \in [Sessions -> {"absent", "open", "closing", "freed", "released"}]
         /\ services' \in [Scopes -> Sessions \cup {None}]
         /\ again' \subseteq Scopes
<1> USE DEF Goes, Returns, Holds, Awaits, sessions, waiting
<1>a. /\ at \in [Actors -> Steps] /\ on \in [Calls -> Sessions \cup {None}]
      /\ target \in [Actors -> Work \cup {None}] /\ enabled \subseteq Actors
      /\ todo \in [Actors -> SUBSET Scopes]
      /\ left \in [Actors -> SUBSET (Dispatches \cup Sessions)]
      /\ registered \in [Scopes -> Executes \cup {None}] /\ tracked \subseteq Dispatches
      /\ receipts \in [Sessions -> [Keys -> Dispatches \cup {None}]]
      /\ Calls \subseteq Actors /\ Host \in Actors /\ Host \notin Calls
      /\ Executes \subseteq Work /\ Dispatches \subseteq Work /\ Work \subseteq Calls
      /\ Closes \subseteq Calls /\ Asks \subseteq Calls /\ Graphs \subseteq Calls
  BY DEF IInv, TypeOK, Actors, Calls, Work
<1>b. /\ connected \in BOOLEAN /\ fenced \in BOOLEAN /\ again \subseteq Scopes
      /\ session \in [Sessions -> {"absent", "open", "closing", "freed", "released"}]
      /\ services \in [Scopes -> Sessions \cup {None}]
      /\ lock \in [Sessions -> Calls \cup {None}]
      /\ holder \in [Sessions -> Dispatches \cup {None}]
  BY DEF IInv, TypeOK
<1>1. CASE k \in Calls /\ \E s \in Sessions : Begin(k, s)
  BY <1>b, <1>1 DEF Begin
<1>2. CASE k \in Calls /\ Enter(k)
  BY <1>b, <1>2 DEF Enter
<1>3. CASE k \in Calls /\ LeaveStore(k)
  BY <1>b, <1>3 DEF LeaveStore
<1>4. CASE k \in Calls /\ Register(k)
  BY <1>b, <1>4 DEF Register
<1>5. CASE k \in Calls /\ Spawn(k)
  BY <1>b, <1>5 DEF Spawn
<1>6. CASE k \in Calls /\ Refuse(k)
  BY <1>b, <1>6 DEF Refuse
<1>7. CASE k \in Calls /\ Respond(k)
  BY <1>b, <1>7 DEF Respond
<1>8. CASE k \in Calls /\ TakeReceipts(k)
  BY <1>b, <1>8 DEF TakeReceipts
<1>9. CASE k \in Calls /\ Rejoin(k)
  BY <1>b, <1>9 DEF Rejoin, Known
<1>10. CASE k \in Calls /\ Admit(k)
  BY <1>b, <1>10 DEF Admit, Kept, Remembers
<1>11. CASE k \in Calls /\ LookReady(k)
  BY <1>b, <1>11 DEF LookReady
<1>12. CASE k \in Calls /\ Steer(k)
  BY <1>b, <1>12 DEF Steer
<1>13. CASE k \in Calls /\ Expire(k)
  BY <1>b, <1>13 DEF Expire
<1>14. CASE k \in Calls /\ Ask(k)
  BY <1>b, <1>14 DEF Ask
<1>15. CASE k \in Calls /\ Lock(k)
  <2>1. on[k] \in Sessions
    BY <1>a, <1>15, WhoIs DEF Lock
  <2> QED
    BY <1>a, <1>b, <2>1, <1>15 DEF Lock
<1>16. CASE k \in Calls /\ Rest(k)
  BY <1>b, <1>16 DEF Rest
<1>17. CASE k \in Calls /\ Release(k)
  BY <1>b, <1>17 DEF Release
<1>18. CASE k \in Calls /\ DropCall(k)
  BY <1>b, <1>18 DEF DropCall, Waits
<1>19. CASE LookSettled(k)
  BY <1>b, <1>19 DEF LookSettled
<1>20. CASE Wake(k)
  BY <1>b, <1>20 DEF Wake
<1>21. CASE NextRun(k)
  BY <1>b, <1>21 DEF NextRun
<1>22. CASE NextAttempt(k)
  BY <1>b, <1>22 DEF NextAttempt
<1>23. CASE Drop(k)
  BY <1>b, <1>23 DEF Drop
<1>24. CASE k = Host /\ Fence
  BY <1>b, <1>24 DEF Fence
<1>25. CASE k = Host /\ Locks
  BY <1>b, <1>25 DEF Locks
<1>26. CASE k = Host /\ CancelAll
  BY <1>b, <1>26 DEF CancelAll
<1>27. CASE k = Host /\ HostRest
  BY <1>b, <1>27 DEF HostRest
<1>28. CASE k = Host /\ Timeout
  BY <1>b, <1>28 DEF Timeout
<1> QED
  BY <1>1, <1>2, <1>3, <1>4, <1>5, <1>6, <1>7, <1>8, <1>9, <1>10, <1>11, <1>12, <1>13, <1>14, <1>15, <1>16, <1>17, <1>18, <1>19, <1>20, <1>21, <1>22, <1>23, <1>24, <1>25, <1>26, <1>27, <1>28
     DEF ActorStep, CallStep, WaitStep, HostStep

LEMMA ActorHolds ==
  ASSUME IInv, NEW k \in Actors, ActorStep(k)
  PROVE  /\ lock' \in [Sessions -> Calls \cup {None}]
         /\ holder' \in [Sessions -> Dispatches \cup {None}]
<1> USE DEF Goes, Returns, Holds, Awaits, sessions, waiting
<1>a. /\ at \in [Actors -> Steps] /\ on \in [Calls -> Sessions \cup {None}]
      /\ target \in [Actors -> Work \cup {None}] /\ enabled \subseteq Actors
      /\ todo \in [Actors -> SUBSET Scopes]
      /\ left \in [Actors -> SUBSET (Dispatches \cup Sessions)]
      /\ registered \in [Scopes -> Executes \cup {None}] /\ tracked \subseteq Dispatches
      /\ receipts \in [Sessions -> [Keys -> Dispatches \cup {None}]]
      /\ Calls \subseteq Actors /\ Host \in Actors /\ Host \notin Calls
      /\ Executes \subseteq Work /\ Dispatches \subseteq Work /\ Work \subseteq Calls
      /\ Closes \subseteq Calls /\ Asks \subseteq Calls /\ Graphs \subseteq Calls
  BY DEF IInv, TypeOK, Actors, Calls, Work
<1>b. /\ connected \in BOOLEAN /\ fenced \in BOOLEAN /\ again \subseteq Scopes
      /\ session \in [Sessions -> {"absent", "open", "closing", "freed", "released"}]
      /\ services \in [Scopes -> Sessions \cup {None}]
      /\ lock \in [Sessions -> Calls \cup {None}]
      /\ holder \in [Sessions -> Dispatches \cup {None}]
  BY DEF IInv, TypeOK
<1>m. lock \in [Sessions -> Calls \cup {None}] /\ holder \in [Sessions -> Dispatches \cup {None}]
  BY DEF IInv, TypeOK
<1>1. CASE k \in Calls /\ \E s \in Sessions : Begin(k, s)
  BY <1>m, <1>1 DEF Begin
<1>2. CASE k \in Calls /\ Enter(k)
  <2>1. Returns(k) \/ Holds
    BY <1>2 DEF Enter
  <2> QED
    BY <1>a, <1>b, <2>1
<1>3. CASE k \in Calls /\ LeaveStore(k)
  BY <1>m, <1>3 DEF LeaveStore
<1>4. CASE k \in Calls /\ Register(k)
  BY <1>m, <1>4 DEF Register
<1>5. CASE k \in Calls /\ Spawn(k)
  BY <1>m, <1>5 DEF Spawn
<1>6. CASE k \in Calls /\ Refuse(k)
  BY <1>m, <1>6 DEF Refuse
<1>7. CASE k \in Calls /\ Respond(k)
  BY <1>m, <1>7 DEF Respond
<1>8. CASE k \in Calls /\ TakeReceipts(k)
  <2>1. k \in Dispatches
    BY <1>a, <1>8, WhoIs DEF TakeReceipts
  <2>2. CASE Returns(k)
    BY <1>a, <1>b, <2>2
  <2>3. CASE holder' = [holder EXCEPT ![on[k]] = k] /\ UNCHANGED lock
    BY <1>b, <2>1, <2>3
  <2> QED
    BY <2>2, <2>3, <1>8 DEF TakeReceipts
<1>9. CASE k \in Calls /\ Rejoin(k)
  BY <1>m, <1>9 DEF Rejoin, Known
<1>10. CASE k \in Calls /\ Admit(k)
  BY <1>m, <1>10 DEF Admit, Kept, Remembers
<1>11. CASE k \in Calls /\ LookReady(k)
  BY <1>m, <1>11 DEF LookReady
<1>12. CASE k \in Calls /\ Steer(k)
  BY <1>m, <1>12 DEF Steer
<1>13. CASE k \in Calls /\ Expire(k)
  BY <1>m, <1>13 DEF Expire
<1>14. CASE k \in Calls /\ Ask(k)
  BY <1>m, <1>14 DEF Ask
<1>15. CASE k \in Calls /\ Lock(k)
  <2>1. Returns(k) \/ (lock' = [lock EXCEPT ![on[k]] = k] /\ UNCHANGED holder)
    BY <1>15 DEF Lock
  <2> QED
    BY <1>a, <1>b, <2>1, <1>15
<1>16. CASE k \in Calls /\ Rest(k)
  BY <1>m, <1>16 DEF Rest
<1>17. CASE k \in Calls /\ Release(k)
  BY <1>m, <1>17 DEF Release
<1>18. CASE k \in Calls /\ DropCall(k)
  BY <1>m, <1>18 DEF DropCall, Waits
<1>19. CASE LookSettled(k)
  BY <1>m, <1>19 DEF LookSettled
<1>20. CASE Wake(k)
  BY <1>m, <1>20 DEF Wake
<1>21. CASE NextRun(k)
  BY <1>m, <1>21 DEF NextRun
<1>22. CASE NextAttempt(k)
  BY <1>m, <1>22 DEF NextAttempt
<1>23. CASE Drop(k)
  BY <1>m, <1>23 DEF Drop
<1>24. CASE k = Host /\ Fence
  BY <1>m, <1>24 DEF Fence
<1>25. CASE k = Host /\ Locks
  BY <1>m, <1>25 DEF Locks
<1>26. CASE k = Host /\ CancelAll
  BY <1>m, <1>26 DEF CancelAll
<1>27. CASE k = Host /\ HostRest
  BY <1>m, <1>27 DEF HostRest
<1>28. CASE k = Host /\ Timeout
  BY <1>m, <1>28 DEF Timeout
<1> QED
  BY <1>1, <1>2, <1>3, <1>4, <1>5, <1>6, <1>7, <1>8, <1>9, <1>10, <1>11, <1>12, <1>13, <1>14, <1>15, <1>16, <1>17, <1>18, <1>19, <1>20, <1>21, <1>22, <1>23, <1>24, <1>25, <1>26, <1>27, <1>28
     DEF ActorStep, CallStep, WaitStep, HostStep

LEMMA ActorMaps ==
  ASSUME IInv, NEW k \in Actors, ActorStep(k)
  PROVE  /\ registered' \in [Scopes -> Executes \cup {None}] /\ tracked' \subseteq Dispatches
         /\ receipts' \in [Sessions -> [Keys -> Dispatches \cup {None}]]
<1> USE DEF Goes, Returns, Holds, Awaits, sessions, waiting
<1>a. /\ at \in [Actors -> Steps] /\ on \in [Calls -> Sessions \cup {None}]
      /\ target \in [Actors -> Work \cup {None}] /\ enabled \subseteq Actors
      /\ todo \in [Actors -> SUBSET Scopes]
      /\ left \in [Actors -> SUBSET (Dispatches \cup Sessions)]
      /\ registered \in [Scopes -> Executes \cup {None}] /\ tracked \subseteq Dispatches
      /\ receipts \in [Sessions -> [Keys -> Dispatches \cup {None}]]
      /\ Calls \subseteq Actors /\ Host \in Actors /\ Host \notin Calls
      /\ Executes \subseteq Work /\ Dispatches \subseteq Work /\ Work \subseteq Calls
      /\ Closes \subseteq Calls /\ Asks \subseteq Calls /\ Graphs \subseteq Calls
  BY DEF IInv, TypeOK, Actors, Calls, Work
<1>b. /\ connected \in BOOLEAN /\ fenced \in BOOLEAN /\ again \subseteq Scopes
      /\ session \in [Sessions -> {"absent", "open", "closing", "freed", "released"}]
      /\ services \in [Scopes -> Sessions \cup {None}]
      /\ lock \in [Sessions -> Calls \cup {None}]
      /\ holder \in [Sessions -> Dispatches \cup {None}]
  BY DEF IInv, TypeOK
<1>1. CASE k \in Calls /\ \E s \in Sessions : Begin(k, s)
  BY <1>a, <1>1 DEF Begin
<1>2. CASE k \in Calls /\ Enter(k)
  BY <1>a, <1>2 DEF Enter
<1>3. CASE k \in Calls /\ LeaveStore(k)
  BY <1>a, <1>3 DEF LeaveStore
<1>4. CASE k \in Calls /\ Register(k)
  <2>1. k \in Executes
    BY <1>a, <1>4, WhoIs DEF Register
  <2> QED
    BY <1>a, <2>1, <1>4 DEF Register
<1>5. CASE k \in Calls /\ Spawn(k)
  BY <1>a, <1>5 DEF Spawn
<1>6. CASE k \in Calls /\ Refuse(k)
  BY <1>a, <1>6 DEF Refuse
<1>7. CASE k \in Calls /\ Respond(k)
  BY <1>a, <1>7 DEF Respond
<1>8. CASE k \in Calls /\ TakeReceipts(k)
  BY <1>a, <1>8 DEF TakeReceipts
<1>9. CASE k \in Calls /\ Rejoin(k)
  BY <1>a, <1>9 DEF Rejoin, Known
<1>10. CASE k \in Calls /\ Admit(k)
  <2>1. k \in Dispatches /\ on[k] \in Sessions
    BY <1>a, <1>10, WhoIs DEF Admit
  <2>2. receipts' \in [Sessions -> [Keys -> Dispatches \cup {None}]]
    <3>1. CASE UNCHANGED receipts
      BY <1>a, <3>1
    <3>2. CASE KeyOf[k] # None /\ receipts' = [receipts EXCEPT ![on[k]][KeyOf[k]] = k]
      <4>1. receipts[on[k]] \in [Keys -> Dispatches \cup {None}] /\ KeyOf[k] \in Keys
        BY <1>a, <2>1, <3>2
      <4>2. [receipts[on[k]] EXCEPT ![KeyOf[k]] = k] \in [Keys -> Dispatches \cup {None}]
        BY <2>1, <4>1
      <4>3. receipts' = [receipts EXCEPT ![on[k]] = [receipts[on[k]] EXCEPT ![KeyOf[k]] = k]]
        BY <3>2
      <4> QED
        BY <1>a, <2>1, <4>2, <4>3
    <3> QED
      BY <3>1, <3>2, <1>10 DEF Admit, Remembers
  <2>3. tracked' \subseteq Dispatches /\ UNCHANGED registered
    BY <1>a, <2>1, <1>10 DEF Admit, Kept, Settled
  <2> QED
    BY <1>a, <2>2, <2>3
<1>11. CASE k \in Calls /\ LookReady(k)
  BY <1>a, <1>11 DEF LookReady
<1>12. CASE k \in Calls /\ Steer(k)
  BY <1>a, <1>12 DEF Steer
<1>13. CASE k \in Calls /\ Expire(k)
  BY <1>a, <1>13 DEF Expire
<1>14. CASE k \in Calls /\ Ask(k)
  BY <1>a, <1>14 DEF Ask
<1>15. CASE k \in Calls /\ Lock(k)
  BY <1>a, <1>15 DEF Lock
<1>16. CASE k \in Calls /\ Rest(k)
  BY <1>a, <1>16 DEF Rest
<1>17. CASE k \in Calls /\ Release(k)
  BY <1>a, <1>17 DEF Release
<1>18. CASE k \in Calls /\ DropCall(k)
  BY <1>a, <1>18 DEF DropCall, Waits
<1>19. CASE LookSettled(k)
  BY <1>a, <1>19 DEF LookSettled
<1>20. CASE Wake(k)
  BY <1>a, <1>20 DEF Wake
<1>21. CASE NextRun(k)
  BY <1>a, <1>21 DEF NextRun
<1>22. CASE NextAttempt(k)
  BY <1>a, <1>22 DEF NextAttempt
<1>23. CASE Drop(k)
  BY <1>a, <1>23 DEF Drop
<1>24. CASE k = Host /\ Fence
  BY <1>a, <1>24 DEF Fence
<1>25. CASE k = Host /\ Locks
  BY <1>a, <1>25 DEF Locks
<1>26. CASE k = Host /\ CancelAll
  BY <1>a, <1>26 DEF CancelAll
<1>27. CASE k = Host /\ HostRest
  BY <1>a, <1>27 DEF HostRest
<1>28. CASE k = Host /\ Timeout
  BY <1>a, <1>28 DEF Timeout
<1> QED
  BY <1>1, <1>2, <1>3, <1>4, <1>5, <1>6, <1>7, <1>8, <1>9, <1>10, <1>11, <1>12, <1>13, <1>14, <1>15, <1>16, <1>17, <1>18, <1>19, <1>20, <1>21, <1>22, <1>23, <1>24, <1>25, <1>26, <1>27, <1>28
     DEF ActorStep, CallStep, WaitStep, HostStep

LEMMA ActorWorks ==
  ASSUME IInv, NEW k \in Actors, ActorStep(k)
  PROVE  /\ work' \in [Work -> {"free", "admitted", "unspawned", "running", "failed", "ended", "left",
                        "unknown", "dropped", "setup", "ready", "joining", "refused",
                        "doubtful", "settled", "done", "observed", "retained"}]
         /\ background' \in [Dispatches -> {"ok", "error", None}]
<1> USE DEF Goes, Returns, Holds, Awaits, sessions, waiting
<1>a. /\ at \in [Actors -> Steps] /\ on \in [Calls -> Sessions \cup {None}]
      /\ target \in [Actors -> Work \cup {None}] /\ enabled \subseteq Actors
      /\ todo \in [Actors -> SUBSET Scopes]
      /\ left \in [Actors -> SUBSET (Dispatches \cup Sessions)]
      /\ registered \in [Scopes -> Executes \cup {None}] /\ tracked \subseteq Dispatches
      /\ receipts \in [Sessions -> [Keys -> Dispatches \cup {None}]]
      /\ Calls \subseteq Actors /\ Host \in Actors /\ Host \notin Calls
      /\ Executes \subseteq Work /\ Dispatches \subseteq Work /\ Work \subseteq Calls
      /\ Closes \subseteq Calls /\ Asks \subseteq Calls /\ Graphs \subseteq Calls
  BY DEF IInv, TypeOK, Actors, Calls, Work
<1>c. /\ work \in [Work -> {"free", "admitted", "unspawned", "running", "failed", "ended", "left",
                        "unknown", "dropped", "setup", "ready", "joining", "refused",
                        "doubtful", "settled", "done", "observed", "retained"}]
      /\ background \in [Dispatches -> {"ok", "error", None}]
      /\ cancelled \subseteq Work /\ error \in [Sessions -> Executes \cup {None}]
  BY DEF IInv, TypeOK
<1>1. CASE k \in Calls /\ \E s \in Sessions : Begin(k, s)
  BY <1>a, <1>c, <1>1 DEF Begin
<1>2. CASE k \in Calls /\ Enter(k)
  BY <1>a, <1>c, <1>2 DEF Enter
<1>3. CASE k \in Calls /\ LeaveStore(k)
  BY <1>a, <1>c, <1>3 DEF LeaveStore
<1>4. CASE k \in Calls /\ Register(k)
  BY <1>a, <1>c, <1>4 DEF Register
<1>5. CASE k \in Calls /\ Spawn(k)
  BY <1>a, <1>c, <1>5 DEF Spawn
<1>6. CASE k \in Calls /\ Refuse(k)
  BY <1>a, <1>c, <1>6 DEF Refuse
<1>7. CASE k \in Calls /\ Respond(k)
  BY <1>a, <1>c, <1>7 DEF Respond
<1>8. CASE k \in Calls /\ TakeReceipts(k)
  BY <1>a, <1>c, <1>8 DEF TakeReceipts
<1>9. CASE k \in Calls /\ Rejoin(k)
  BY <1>a, <1>c, <1>9 DEF Rejoin, Known
<1>10. CASE k \in Calls /\ Admit(k)
  BY <1>a, <1>c, <1>10 DEF Admit, Kept, Remembers
<1>11. CASE k \in Calls /\ LookReady(k)
  BY <1>a, <1>c, <1>11 DEF LookReady
<1>12. CASE k \in Calls /\ Steer(k)
  BY <1>a, <1>c, <1>12 DEF Steer
<1>13. CASE k \in Calls /\ Expire(k)
  BY <1>a, <1>c, <1>13 DEF Expire
<1>14. CASE k \in Calls /\ Ask(k)
  BY <1>a, <1>c, <1>14 DEF Ask
<1>15. CASE k \in Calls /\ Lock(k)
  BY <1>a, <1>c, <1>15 DEF Lock
<1>16. CASE k \in Calls /\ Rest(k)
  BY <1>a, <1>c, <1>16 DEF Rest
<1>17. CASE k \in Calls /\ Release(k)
  BY <1>a, <1>c, <1>17 DEF Release
<1>18. CASE k \in Calls /\ DropCall(k)
  BY <1>a, <1>c, <1>18 DEF DropCall, Waits
<1>19. CASE LookSettled(k)
  BY <1>a, <1>c, <1>19 DEF LookSettled
<1>20. CASE Wake(k)
  BY <1>a, <1>c, <1>20 DEF Wake
<1>21. CASE NextRun(k)
  BY <1>a, <1>c, <1>21 DEF NextRun
<1>22. CASE NextAttempt(k)
  BY <1>a, <1>c, <1>22 DEF NextAttempt
<1>23. CASE Drop(k)
  BY <1>a, <1>c, <1>23 DEF Drop
<1>24. CASE k = Host /\ Fence
  BY <1>a, <1>c, <1>24 DEF Fence
<1>25. CASE k = Host /\ Locks
  BY <1>a, <1>c, <1>25 DEF Locks
<1>26. CASE k = Host /\ CancelAll
  BY <1>a, <1>c, <1>26 DEF CancelAll
<1>27. CASE k = Host /\ HostRest
  BY <1>a, <1>c, <1>27 DEF HostRest
<1>28. CASE k = Host /\ Timeout
  BY <1>a, <1>c, <1>28 DEF Timeout
<1> QED
  BY <1>1, <1>2, <1>3, <1>4, <1>5, <1>6, <1>7, <1>8, <1>9, <1>10, <1>11, <1>12, <1>13, <1>14, <1>15, <1>16, <1>17, <1>18, <1>19, <1>20, <1>21, <1>22, <1>23, <1>24, <1>25, <1>26, <1>27, <1>28
     DEF ActorStep, CallStep, WaitStep, HostStep

LEMMA ActorMarks ==
  ASSUME IInv, NEW k \in Actors, ActorStep(k)
  PROVE  /\ cancelled' \subseteq Work /\ error' \in [Sessions -> Executes \cup {None}]
<1> USE DEF Goes, Returns, Holds, Awaits, sessions, waiting
<1>a. /\ at \in [Actors -> Steps] /\ on \in [Calls -> Sessions \cup {None}]
      /\ target \in [Actors -> Work \cup {None}] /\ enabled \subseteq Actors
      /\ todo \in [Actors -> SUBSET Scopes]
      /\ left \in [Actors -> SUBSET (Dispatches \cup Sessions)]
      /\ registered \in [Scopes -> Executes \cup {None}] /\ tracked \subseteq Dispatches
      /\ receipts \in [Sessions -> [Keys -> Dispatches \cup {None}]]
      /\ Calls \subseteq Actors /\ Host \in Actors /\ Host \notin Calls
      /\ Executes \subseteq Work /\ Dispatches \subseteq Work /\ Work \subseteq Calls
      /\ Closes \subseteq Calls /\ Asks \subseteq Calls /\ Graphs \subseteq Calls
  BY DEF IInv, TypeOK, Actors, Calls, Work
<1>c. /\ work \in [Work -> {"free", "admitted", "unspawned", "running", "failed", "ended", "left",
                        "unknown", "dropped", "setup", "ready", "joining", "refused",
                        "doubtful", "settled", "done", "observed", "retained"}]
      /\ background \in [Dispatches -> {"ok", "error", None}]
      /\ cancelled \subseteq Work /\ error \in [Sessions -> Executes \cup {None}]
  BY DEF IInv, TypeOK
<1>1. CASE k \in Calls /\ \E s \in Sessions : Begin(k, s)
  BY <1>a, <1>c, <1>1 DEF Begin
<1>2. CASE k \in Calls /\ Enter(k)
  BY <1>a, <1>c, <1>2 DEF Enter
<1>3. CASE k \in Calls /\ LeaveStore(k)
  BY <1>a, <1>c, <1>3 DEF LeaveStore
<1>4. CASE k \in Calls /\ Register(k)
  BY <1>a, <1>c, <1>4 DEF Register
<1>5. CASE k \in Calls /\ Spawn(k)
  BY <1>a, <1>c, <1>5 DEF Spawn
<1>6. CASE k \in Calls /\ Refuse(k)
  <2>1. k \in Executes
    BY <1>a, <1>6, WhoIs DEF Refuse
  <2> QED
    BY <1>a, <1>c, <2>1, <1>6 DEF Refuse
<1>7. CASE k \in Calls /\ Respond(k)
  <2>1. k \notin Asks => k \in Work
    BY <1>a, <1>7, WhoIs DEF Respond
  <2> QED
    BY <1>a, <1>c, <2>1, <1>7 DEF Respond
<1>8. CASE k \in Calls /\ TakeReceipts(k)
  BY <1>a, <1>c, <1>8 DEF TakeReceipts
<1>9. CASE k \in Calls /\ Rejoin(k)
  BY <1>a, <1>c, <1>9 DEF Rejoin, Known
<1>10. CASE k \in Calls /\ Admit(k)
  BY <1>a, <1>c, <1>10 DEF Admit, Kept, Remembers
<1>11. CASE k \in Calls /\ LookReady(k)
  BY <1>a, <1>c, <1>11 DEF LookReady
<1>12. CASE k \in Calls /\ Steer(k)
  <2>1. target[k] \in Work
    BY <1>a, <1>12 DEF Steer, IInv, Roles
  <2> QED
    BY <1>a, <1>c, <2>1, <1>12 DEF Steer
<1>13. CASE k \in Calls /\ Expire(k)
  BY <1>a, <1>c, <1>13 DEF Expire
<1>14. CASE k \in Calls /\ Ask(k)
  BY <1>a, <1>c, <1>14 DEF Ask
<1>15. CASE k \in Calls /\ Lock(k)
  BY <1>a, <1>c, <1>15 DEF Lock
<1>16. CASE k \in Calls /\ Rest(k)
  BY <1>a, <1>c, <1>16 DEF Rest
<1>17. CASE k \in Calls /\ Release(k)
  BY <1>a, <1>c, <1>17 DEF Release
<1>18. CASE k \in Calls /\ DropCall(k)
  BY <1>a, <1>c, <1>18 DEF DropCall, Waits
<1>19. CASE LookSettled(k)
  BY <1>a, <1>c, <1>19 DEF LookSettled
<1>20. CASE Wake(k)
  BY <1>a, <1>c, <1>20 DEF Wake
<1>21. CASE NextRun(k)
  <2>1. \A p \in todo[k] : ~Vacant(p) => registered[p] \in Work
    BY <1>a DEF Vacant
  <2> QED
    BY <1>a, <1>c, <2>1, <1>21 DEF NextRun
<1>22. CASE NextAttempt(k)
  BY <1>a, <1>c, <1>22 DEF NextAttempt
<1>23. CASE Drop(k)
  BY <1>a, <1>c, <1>23 DEF Drop
<1>24. CASE k = Host /\ Fence
  BY <1>a, <1>c, <1>24 DEF Fence
<1>25. CASE k = Host /\ Locks
  BY <1>a, <1>c, <1>25 DEF Locks
<1>26. CASE k = Host /\ CancelAll
  <2>1. {registered[p] : p \in {p \in Scopes : registered[p] # None}} \subseteq Work
    BY <1>a
  <2> QED
    BY <1>a, <1>c, <2>1, <1>26 DEF CancelAll
<1>27. CASE k = Host /\ HostRest
  BY <1>a, <1>c, <1>27 DEF HostRest
<1>28. CASE k = Host /\ Timeout
  BY <1>a, <1>c, <1>28 DEF Timeout
<1> QED
  BY <1>1, <1>2, <1>3, <1>4, <1>5, <1>6, <1>7, <1>8, <1>9, <1>10, <1>11, <1>12, <1>13, <1>14, <1>15, <1>16, <1>17, <1>18, <1>19, <1>20, <1>21, <1>22, <1>23, <1>24, <1>25, <1>26, <1>27, <1>28
     DEF ActorStep, CallStep, WaitStep, HostStep

\* A map has no more than it may.
LEMMA AdmitFits ==
  ASSUME IInv, NEW k \in Dispatches, Admit(k)
  PROVE  IsFiniteSet(tracked') /\ Cardinality(tracked') <= MaxOpenHandles
<1>1. IsFiniteSet(tracked) /\ Cardinality(tracked) <= MaxOpenHandles
  BY DEF IInv, Mapped, TypeOK
<1>2. PICK spared \in SUBSET {a \in tracked : Settled(a)} :
        \/ tracked' = Kept(spared)
        \/ HasRoom(spared) /\ tracked' = Kept(spared) \cup {k}
        \/ tracked' = tracked
  BY DEF Admit
<1>3. Kept(spared) \subseteq tracked
  BY DEF Kept
<1>4. /\ IsFiniteSet(Kept(spared)) /\ Cardinality(Kept(spared)) <= Cardinality(tracked)
      /\ Cardinality(tracked) \in Nat /\ Cardinality(Kept(spared)) \in Nat
  BY <1>1, <1>3, FS_Subset, FS_CardinalityType
<1>5. CASE tracked' = Kept(spared) \/ tracked' = tracked
  BY <1>1, <1>4, <1>5
<1>6. CASE HasRoom(spared) /\ tracked' = Kept(spared) \cup {k}
  <2>1. /\ IsFiniteSet(Kept(spared) \cup {k})
        /\ \/ Cardinality(Kept(spared) \cup {k}) = Cardinality(Kept(spared)) + 1
           \/ Cardinality(Kept(spared) \cup {k}) = Cardinality(Kept(spared))
    BY <1>4, FS_AddElement
  <2>2. Cardinality(Kept(spared)) < MaxOpenHandles
    BY <1>6 DEF HasRoom
  <2> QED
    BY <1>4, <1>6, <2>1, <2>2
<1> QED
  BY <1>2, <1>5, <1>6

LEMMA ActorFits ==
  ASSUME IInv, NEW k \in Actors, ActorStep(k)
  PROVE  IsFiniteSet(tracked') /\ Cardinality(tracked') <= MaxOpenHandles
<1> USE DEF Goes, Returns, Holds, Awaits, sessions, waiting
<1>a. IsFiniteSet(tracked) /\ Cardinality(tracked) <= MaxOpenHandles
  BY DEF IInv, Mapped, TypeOK
<1>b. Calls \subseteq Actors
  BY DEF Actors
<1>1. CASE k \in Calls /\ \E s \in Sessions : Begin(k, s)
  BY <1>a, <1>1 DEF Begin
<1>2. CASE k \in Calls /\ Enter(k)
  BY <1>a, <1>2 DEF Enter
<1>3. CASE k \in Calls /\ LeaveStore(k)
  BY <1>a, <1>3 DEF LeaveStore
<1>4. CASE k \in Calls /\ Register(k)
  BY <1>a, <1>4 DEF Register
<1>5. CASE k \in Calls /\ Spawn(k)
  BY <1>a, <1>5 DEF Spawn
<1>6. CASE k \in Calls /\ Refuse(k)
  BY <1>a, <1>6 DEF Refuse
<1>7. CASE k \in Calls /\ Respond(k)
  BY <1>a, <1>7 DEF Respond
<1>8. CASE k \in Calls /\ TakeReceipts(k)
  BY <1>a, <1>8 DEF TakeReceipts
<1>9. CASE k \in Calls /\ Rejoin(k)
  BY <1>a, <1>9 DEF Rejoin, Known
<1>10. CASE k \in Calls /\ Admit(k)
  BY <1>10, WhoIs, AdmitFits DEF Admit
<1>11. CASE k \in Calls /\ LookReady(k)
  BY <1>a, <1>11 DEF LookReady
<1>12. CASE k \in Calls /\ Steer(k)
  BY <1>a, <1>12 DEF Steer
<1>13. CASE k \in Calls /\ Expire(k)
  BY <1>a, <1>13 DEF Expire
<1>14. CASE k \in Calls /\ Ask(k)
  BY <1>a, <1>14 DEF Ask
<1>15. CASE k \in Calls /\ Lock(k)
  BY <1>a, <1>15 DEF Lock
<1>16. CASE k \in Calls /\ Rest(k)
  BY <1>a, <1>16 DEF Rest
<1>17. CASE k \in Calls /\ Release(k)
  BY <1>a, <1>17 DEF Release
<1>18. CASE k \in Calls /\ DropCall(k)
  BY <1>a, <1>18 DEF DropCall, Waits
<1>19. CASE LookSettled(k)
  BY <1>a, <1>19 DEF LookSettled
<1>20. CASE Wake(k)
  BY <1>a, <1>20 DEF Wake
<1>21. CASE NextRun(k)
  BY <1>a, <1>21 DEF NextRun
<1>22. CASE NextAttempt(k)
  BY <1>a, <1>22 DEF NextAttempt
<1>23. CASE Drop(k)
  <2>1. tracked' \subseteq tracked
    BY <1>23 DEF Drop
  <2>2. /\ IsFiniteSet(tracked') /\ Cardinality(tracked') <= Cardinality(tracked)
        /\ Cardinality(tracked') \in Nat /\ Cardinality(tracked) \in Nat
    BY <1>a, <2>1, FS_Subset, FS_CardinalityType
  <2> QED
    BY <1>a, <2>2
<1>24. CASE k = Host /\ Fence
  BY <1>a, <1>24 DEF Fence
<1>25. CASE k = Host /\ Locks
  BY <1>a, <1>25 DEF Locks
<1>26. CASE k = Host /\ CancelAll
  BY <1>a, <1>26 DEF CancelAll
<1>27. CASE k = Host /\ HostRest
  BY <1>a, <1>27 DEF HostRest
<1>28. CASE k = Host /\ Timeout
  BY <1>a, <1>28 DEF Timeout
<1> QED
  BY <1>1, <1>2, <1>3, <1>4, <1>5, <1>6, <1>7, <1>8, <1>9, <1>10, <1>11, <1>12, <1>13, <1>14, <1>15, <1>16, <1>17, <1>18, <1>19, <1>20, <1>21, <1>22, <1>23, <1>24, <1>25, <1>26, <1>27, <1>28
     DEF ActorStep, CallStep, WaitStep, HostStep

LEMMA ActorTypeOK ==
  ASSUME IInv, NEW k \in Actors, ActorStep(k)
  PROVE  TypeOK'
BY ActorStands, ActorAwaits, ActorLists, ActorSessions, ActorHolds, ActorMaps, ActorWorks, ActorMarks,
   ActorFits DEF TypeOK

\* A step of a task moves that task only.
LEMMA WorkFrame ==
  ASSUME IInv, NEW w \in Work, WorkStep(w)
  PROVE  /\ UNCHANGED <<connected, fenced, session, services, again, lock, at, on, target>>
         /\ UNCHANGED <<todo, left, holder, receipts, cancelled>>
         /\ work' = [work EXCEPT ![w] = work'[w]]
         /\ enabled' \subseteq enabled /\ tracked' \subseteq tracked
<1> USE DEF TaskOnly, Holds, sessions
<1>a. work \in [Work -> {"free", "admitted", "unspawned", "running", "failed", "ended", "left",
                        "unknown", "dropped", "setup", "ready", "joining", "refused",
                        "doubtful", "settled", "done", "observed", "retained"}]
  BY DEF IInv, TypeOK
<1>1. CASE Notify(w)
  BY <1>a, <1>1 DEF Notify
<1>2. CASE w \in Executes /\ Report(w)
  BY <1>a, <1>2 DEF Report
<1>3. CASE w \in Executes /\ Leave(w)
  BY <1>a, <1>3 DEF Leave
<1>4. CASE w \in Executes /\ Settle(w)
  BY <1>a, <1>4 DEF Settle
<1>5. CASE w \in Executes /\ Observe(w)
  BY <1>a, <1>5 DEF Observe
<1>6. CASE w \in Dispatches /\ SetupReturns(w)
  BY <1>a, <1>6 DEF SetupReturns
<1>7. CASE w \in Dispatches /\ Withdraw(w)
  BY <1>a, <1>7 DEF Withdraw
<1>8. CASE w \in Executes /\ RunReturns(w)
  BY <1>a, <1>8 DEF RunReturns
<1>9. CASE w \in Dispatches /\ JoinReturns(w)
  BY <1>a, <1>9 DEF JoinReturns
<1>10. CASE w \in Executes /\ DropRun(w)
  BY <1>a, <1>10 DEF DropRun
<1> QED
  BY <1>1, <1>2, <1>3, <1>4, <1>5, <1>6, <1>7, <1>8, <1>9, <1>10 DEF WorkStep, TaskStep, Framework

LEMMA WorkTypes ==
  ASSUME IInv, NEW w \in Work, WorkStep(w)
  PROVE  /\ work' \in [Work -> {"free", "admitted", "unspawned", "running", "failed", "ended", "left",
                        "unknown", "dropped", "setup", "ready", "joining", "refused",
                        "doubtful", "settled", "done", "observed", "retained"}]
         /\ background' \in [Dispatches -> {"ok", "error", None}]
         /\ registered' \in [Scopes -> Executes \cup {None}]
         /\ error' \in [Sessions -> Executes \cup {None}]
<1> USE DEF TaskOnly, Holds, sessions
<1>a. /\ work \in [Work -> {"free", "admitted", "unspawned", "running", "failed", "ended", "left",
                        "unknown", "dropped", "setup", "ready", "joining", "refused",
                        "doubtful", "settled", "done", "observed", "retained"}]
      /\ background \in [Dispatches -> {"ok", "error", None}]
      /\ registered \in [Scopes -> Executes \cup {None}]
      /\ error \in [Sessions -> Executes \cup {None}]
  BY DEF IInv, TypeOK
<1>1. CASE Notify(w)
  BY <1>a, <1>1 DEF Notify
<1>2. CASE w \in Executes /\ Report(w)
  BY <1>a, <1>2 DEF Report
<1>3. CASE w \in Executes /\ Leave(w)
  BY <1>a, <1>3 DEF Leave
<1>4. CASE w \in Executes /\ Settle(w)
  BY <1>a, <1>4 DEF Settle
<1>5. CASE w \in Executes /\ Observe(w)
  BY <1>a, <1>5 DEF Observe
<1>6. CASE w \in Dispatches /\ SetupReturns(w)
  BY <1>a, <1>6 DEF SetupReturns
<1>7. CASE w \in Dispatches /\ Withdraw(w)
  BY <1>a, <1>7 DEF Withdraw
<1>8. CASE w \in Executes /\ RunReturns(w)
  BY <1>a, <1>8 DEF RunReturns
<1>9. CASE w \in Dispatches /\ JoinReturns(w)
  BY <1>a, <1>9 DEF JoinReturns
<1>10. CASE w \in Executes /\ DropRun(w)
  BY <1>a, <1>10 DEF DropRun
<1> QED
  BY <1>1, <1>2, <1>3, <1>4, <1>5, <1>6, <1>7, <1>8, <1>9, <1>10 DEF WorkStep, TaskStep, Framework

LEMMA WorkTypeOK ==
  ASSUME IInv, NEW w \in Work, WorkStep(w)
  PROVE  TypeOK' /\ IsFiniteSet(tracked')
<1>1. TypeOK /\ IsFiniteSet(tracked)
  BY DEF IInv, Mapped
<1>2. /\ tracked' \subseteq Dispatches /\ IsFiniteSet(tracked')
      /\ Cardinality(tracked') <= MaxOpenHandles /\ enabled' \subseteq Actors
  <2>1. tracked' \subseteq tracked /\ enabled' \subseteq enabled
    BY WorkFrame
  <2>2. /\ IsFiniteSet(tracked') /\ Cardinality(tracked') <= Cardinality(tracked)
        /\ Cardinality(tracked') \in Nat /\ Cardinality(tracked) \in Nat
    BY <1>1, <2>1, FS_Subset, FS_CardinalityType
  <2> QED
    BY <1>1, <2>1, <2>2 DEF TypeOK
<1>3. /\ UNCHANGED <<connected, fenced, session, services, again, lock, at, on, target>>
      /\ UNCHANGED <<todo, left, holder, receipts, cancelled>>
  BY WorkFrame
<1> QED
  BY <1>1, <1>2, <1>3, WorkTypes DEF TypeOK

-----------------------------------------------------------------------------
(* Where the actors stand.                                                 *)

LEMMA Looking ==
  ASSUME IInv, NEW k \in Actors, at[k] \in {"look", "park"}
  PROVE  k \in Dispatches \cup Asks \cup Closes \cup {Host}
BY DEF IInv, Roles, Actors, Calls

LEMMA OwnStep ==
  ASSUME IInv, NEW k \in Actors, ActorStep(k)
  PROVE  /\ k \in Executes =>
              at'[k] \in {"idle", "over", "permit", "register", "spawn", "refuse", "respond"}
         /\ k \in Graphs => at'[k] \in {"idle", "over", "permit", "store"}
         /\ k \in Dispatches =>
              at'[k] \in {"idle", "over", "permit", "receipts", "admit", "readyLook", "readyPark",
                         "respond", "look", "park"}
         /\ k \in Asks =>
              at'[k] \in {"idle", "over", "readyLook", "readyPark", "respond", "look", "park"}
         /\ k \in Closes => at'[k] \in {"idle", "over", "lock", "release"} \cup Phase
         /\ k = Host => at'[k] \in {"idle", "locks", "cancel", "closed"} \cup Phase
<1> USE DEF Goes, Returns, Holds, Awaits, sessions, waiting, Calls, Looks, Phase
<1>a. /\ at \in [Actors -> Steps] /\ on \in [Calls -> Sessions \cup {None}]
      /\ target \in [Actors -> Work \cup {None}]
      /\ left \in [Actors -> SUBSET (Dispatches \cup Sessions)]
      /\ Calls \subseteq Actors /\ Host \in Actors /\ Host \notin Calls
  BY DEF IInv, TypeOK, Actors
<1>b. /\ at[k] \in {"register", "spawn", "refuse"} => k \in Executes
      /\ at[k] = "store" => k \in Graphs
      /\ at[k] \in {"receipts", "admit"} => k \in Dispatches
      /\ at[k] \in {"lock", "release"} => k \in Closes
      /\ at[k] \in {"runs", "attempts", "rest", "drop"} => k \in Closes \cup {Host}
      /\ at[k] \in {"locks", "cancel", "closed"} => k = Host
      /\ at[k] = "permit" => k \in Executes \cup Graphs \cup Dispatches
      /\ at[k] = "respond" => k \in Executes \cup Dispatches \cup Asks
      /\ at[k] \in {"readyLook", "readyPark"} => k \in Dispatches \cup Asks
      /\ at[k] \in {"look", "park"} => k \in Dispatches \cup Asks \cup Closes \cup {Host}
  BY WhoIs, Looking
<1>1. CASE k \in Calls /\ \E s \in Sessions : Begin(k, s)
  BY <1>a, <1>b, <1>1 DEF Begin
<1>2. CASE k \in Calls /\ Enter(k)
  <2>1. \/ k \in Executes /\ at'[k] \in {"register", "over"}
        \/ k \in Graphs /\ at'[k] \in {"store", "over"}
        \/ k \in Dispatches /\ at'[k] \in {"receipts", "over"}
    BY <1>a, <1>b, <1>2 DEF Enter
  <2> QED
    BY <2>1
<1>3. CASE k \in Calls /\ LeaveStore(k)
  <2>1. at'[k] \in {"over"}
    BY <1>a, <1>3 DEF LeaveStore
  <2> QED
    BY <1>b, <2>1, <1>3 DEF LeaveStore
<1>4. CASE k \in Calls /\ Register(k)
  <2>1. at'[k] \in {"spawn", "over"}
    BY <1>a, <1>4 DEF Register
  <2> QED
    BY <1>b, <2>1, <1>4 DEF Register
<1>5. CASE k \in Calls /\ Spawn(k)
  <2>1. at'[k] \in {"respond", "refuse"}
    BY <1>a, <1>5 DEF Spawn
  <2> QED
    BY <1>b, <2>1, <1>5 DEF Spawn
<1>6. CASE k \in Calls /\ Refuse(k)
  <2>1. at'[k] \in {"over"}
    BY <1>a, <1>6 DEF Refuse
  <2> QED
    BY <1>b, <2>1, <1>6 DEF Refuse
<1>7. CASE k \in Calls /\ Respond(k)
  <2>1. at'[k] = "over" \/ (k \in Dispatches /\ at'[k] = "look")
    BY <1>a, <1>b, <1>7 DEF Respond
  <2> QED
    BY <1>b, <2>1, <1>7 DEF Respond
<1>8. CASE k \in Calls /\ TakeReceipts(k)
  <2>1. at'[k] \in {"admit", "over"}
    BY <1>a, <1>8 DEF TakeReceipts
  <2> QED
    BY <1>b, <2>1, <1>8 DEF TakeReceipts
<1>9. CASE k \in Calls /\ Rejoin(k)
  <2>1. at'[k] \in {"readyLook", "over"}
    BY <1>a, <1>9 DEF Rejoin
  <2> QED
    BY <1>b, <2>1, <1>9 DEF Rejoin
<1>10. CASE k \in Calls /\ Admit(k)
  <2>1. at'[k] \in {"readyLook", "over"}
    BY <1>a, <1>10 DEF Admit
  <2> QED
    BY <1>b, <2>1, <1>10 DEF Admit
<1>11. CASE k \in Calls /\ LookReady(k)
  <2>1. at'[k] \in {"readyPark", "respond", "over"}
    BY <1>a, <1>11 DEF LookReady
  <2> QED
    BY <1>b, <2>1, <1>11 DEF LookReady
<1>12. CASE k \in Calls /\ Steer(k)
  <2>1. at'[k] \in {"over"}
    BY <1>a, <1>12 DEF Steer
  <2> QED
    BY <1>b, <2>1, <1>12 DEF Steer
<1>13. CASE k \in Calls /\ Expire(k)
  <2>1. at'[k] \in {"over"}
    BY <1>a, <1>13 DEF Expire
  <2> QED
    BY <1>b, <2>1, <1>13 DEF Expire
<1>14. CASE k \in Calls /\ Ask(k)
  <2>1. at'[k] \in {"look", "readyLook"}
    BY <1>a, <1>14 DEF Ask
  <2> QED
    BY <1>b, <2>1, <1>14 DEF Ask
<1>15. CASE k \in Calls /\ Lock(k)
  <2>1. at'[k] \in {"runs", "over"}
    BY <1>a, <1>15 DEF Lock
  <2> QED
    BY <1>b, <2>1, <1>15 DEF Lock
<1>16. CASE k \in Calls /\ Rest(k)
  <2>1. at'[k] \in {"release", "over"}
    BY <1>a, <1>16 DEF Rest
  <2> QED
    BY <1>b, <2>1, <1>16 DEF Rest
<1>17. CASE k \in Calls /\ Release(k)
  <2>1. at'[k] \in {"over"}
    BY <1>a, <1>17 DEF Release
  <2> QED
    BY <1>b, <2>1, <1>17 DEF Release
<1>18. CASE k \in Calls /\ DropCall(k)
  <2>1. at'[k] = "over"
    BY <1>a, <1>18 DEF DropCall
  <2> QED
    BY <2>1, <1>18 DEF Actors, Calls
<1>19. CASE LookSettled(k)
  BY <1>a, <1>b, <1>19 DEF LookSettled
<1>20. CASE Wake(k)
  BY <1>a, <1>b, <1>20 DEF Wake
<1>21. CASE NextRun(k)
  BY <1>a, <1>b, <1>21 DEF NextRun
<1>22. CASE NextAttempt(k)
  BY <1>a, <1>b, <1>22 DEF NextAttempt
<1>23. CASE Drop(k)
  BY <1>a, <1>b, <1>23 DEF Drop
<1>24. CASE k = Host /\ Fence
  BY <1>a, <1>b, <1>24 DEF Fence
<1>25. CASE k = Host /\ Locks
  BY <1>a, <1>b, <1>25 DEF Locks
<1>26. CASE k = Host /\ CancelAll
  BY <1>a, <1>b, <1>26 DEF CancelAll
<1>27. CASE k = Host /\ HostRest
  BY <1>a, <1>b, <1>27 DEF HostRest
<1>28. CASE k = Host /\ Timeout
  BY <1>a, <1>b, <1>28 DEF Timeout
<1> QED
  BY <1>1, <1>2, <1>3, <1>4, <1>5, <1>6, <1>7, <1>8, <1>9, <1>10, <1>11, <1>12, <1>13, <1>14, <1>15, <1>16, <1>17, <1>18, <1>19, <1>20, <1>21, <1>22, <1>23, <1>24, <1>25, <1>26, <1>27, <1>28
     DEF ActorStep, CallStep, WaitStep, HostStep

\* What is looked for has been begun.
LEMMA Begun ==
  ASSUME IInv
  PROVE  /\ \A a \in tracked : a \in Dispatches /\ work[a] # "free" /\ on[a] \in Sessions
         /\ \A p \in Scopes : registered[p] # None =>
              registered[p] \in Executes /\ on[registered[p]] \in Sessions /\ Scope(registered[p]) = p
         /\ \A w \in Work : work[w] # "free" => on[w] \in Sessions
<1>1. \A a \in tracked : a \in Dispatches /\ work[a] # "free" /\ a \in Work
  BY DEF IInv, Mapped, TypeOK, Work
<1>2. \A w \in Work : work[w] # "free" => on[w] \in Sessions
  BY DEF IInv, Started
<1>3. \A p \in Scopes : registered[p] # None => registered[p] \in Executes
  BY DEF IInv, TypeOK
<1>4. \A p \in Scopes : registered[p] # None =>
        on[registered[p]] \in Sessions /\ Scope(registered[p]) = p
  BY DEF IInv, Mapped
<1> QED
  BY <1>1, <1>2, <1>3, <1>4

\* A request gets its Session when it begins.
LEMMA ActorOn ==
  ASSUME IInv, NEW k \in Actors, ActorStep(k)
  PROVE  \/ UNCHANGED on /\ at[k] # "idle"
         \/ UNCHANGED on /\ k = Host
         \/ UNCHANGED on /\ k \in Asks
         \/ /\ at[k] = "idle" /\ k \in Calls \ Asks /\ ~fenced
            /\ on'[k] \in Sessions /\ session[on'[k]] \in {"open", "closing", "freed"}
            /\ at'[k] = (IF k \in Closes THEN "lock" ELSE "permit")
            /\ UNCHANGED <<target, todo, left, registered, tracked, work, receipts, error, lock, again, fenced, connected>>
            /\ \A s \in Sessions : session'[s] = IF k \in Closes /\ s = on'[k] /\ session[s] = "open"
                                               THEN "closing" ELSE session[s]
<1> USE DEF Goes, Returns, Holds, Awaits, sessions, waiting
<1>a. /\ at \in [Actors -> Steps] /\ on \in [Calls -> Sessions \cup {None}]
      /\ target \in [Actors -> Work \cup {None}]
      /\ left \in [Actors -> SUBSET (Dispatches \cup Sessions)]
      /\ Calls \subseteq Actors /\ Host \in Actors /\ Host \notin Calls
  BY DEF IInv, TypeOK, Actors
<1>b. /\ at[k] \in {"register", "spawn", "refuse"} => k \in Executes
      /\ at[k] = "store" => k \in Graphs
      /\ at[k] \in {"receipts", "admit"} => k \in Dispatches
      /\ at[k] \in {"lock", "release"} => k \in Closes
      /\ at[k] \in {"runs", "attempts", "rest", "drop"} => k \in Closes \cup {Host}
      /\ at[k] \in {"locks", "cancel", "closed"} => k = Host
      /\ at[k] = "permit" => k \in Executes \cup Graphs \cup Dispatches
      /\ at[k] = "respond" => k \in Executes \cup Dispatches \cup Asks
      /\ at[k] \in {"readyLook", "readyPark"} => k \in Dispatches \cup Asks /\ target[k] \in Work
      /\ at[k] \in {"look", "park", "drop"} => target[k] \in Work
      /\ k \in Calls \ Asks /\ at[k] \notin {"idle", "over"} => on[k] \in Sessions
  BY WhoIs
<1>c. session \in [Sessions -> {"absent", "open", "closing", "freed", "released"}]
  BY DEF IInv, TypeOK
<1>d. \A c \in Closes : c \in Calls \ Asks
  BY DEF Calls
<1>1. CASE k \in Calls /\ \E s \in Sessions : Begin(k, s)
  <2>1. PICK s \in Sessions : Begin(k, s)
    BY <1>1
  <2>2. on'[k] = s /\ at'[k] = IF k \in Closes THEN "lock" ELSE "permit"
    BY <1>a, <2>1, <1>1 DEF Begin
  <2> QED
    BY <1>a, <1>c, <2>1, <2>2, <1>1 DEF Begin
<1>2. CASE k \in Calls /\ Enter(k)
  BY <1>a, <1>b, <1>2 DEF Enter
<1>3. CASE k \in Calls /\ LeaveStore(k)
  BY <1>a, <1>b, <1>3 DEF LeaveStore
<1>4. CASE k \in Calls /\ Register(k)
  BY <1>a, <1>b, <1>4 DEF Register
<1>5. CASE k \in Calls /\ Spawn(k)
  BY <1>a, <1>b, <1>5 DEF Spawn
<1>6. CASE k \in Calls /\ Refuse(k)
  BY <1>a, <1>b, <1>6 DEF Refuse
<1>7. CASE k \in Calls /\ Respond(k)
  BY <1>a, <1>b, <1>7 DEF Respond
<1>8. CASE k \in Calls /\ TakeReceipts(k)
  BY <1>a, <1>b, <1>8 DEF TakeReceipts
<1>9. CASE k \in Calls /\ Rejoin(k)
  BY <1>a, <1>b, <1>9 DEF Rejoin, Known
<1>10. CASE k \in Calls /\ Admit(k)
  BY <1>a, <1>b, <1>10 DEF Admit, Kept, Remembers
<1>11. CASE k \in Calls /\ LookReady(k)
  BY <1>a, <1>b, <1>11 DEF LookReady
<1>12. CASE k \in Calls /\ Steer(k)
  BY <1>a, <1>b, <1>12 DEF Steer
<1>13. CASE k \in Calls /\ Expire(k)
  BY <1>a, <1>b, <1>13 DEF Expire
<1>14. CASE k \in Calls /\ Ask(k)
  BY <1>a, <1>b, <1>14 DEF Ask
<1>15. CASE k \in Calls /\ Lock(k)
  BY <1>a, <1>b, <1>15 DEF Lock
<1>16. CASE k \in Calls /\ Rest(k)
  BY <1>a, <1>b, <1>16 DEF Rest
<1>17. CASE k \in Calls /\ Release(k)
  BY <1>a, <1>b, <1>17 DEF Release
<1>18. CASE k \in Calls /\ DropCall(k)
  BY <1>a, <1>b, <1>18 DEF DropCall, Waits
<1>19. CASE LookSettled(k)
  BY <1>a, <1>b, <1>19 DEF LookSettled
<1>20. CASE Wake(k)
  BY <1>a, <1>b, <1>20 DEF Wake
<1>21. CASE NextRun(k)
  BY <1>a, <1>b, <1>21 DEF NextRun
<1>22. CASE NextAttempt(k)
  BY <1>a, <1>b, <1>22 DEF NextAttempt
<1>23. CASE Drop(k)
  BY <1>a, <1>b, <1>23 DEF Drop
<1>24. CASE k = Host /\ Fence
  BY <1>a, <1>b, <1>24 DEF Fence
<1>25. CASE k = Host /\ Locks
  BY <1>a, <1>b, <1>25 DEF Locks
<1>26. CASE k = Host /\ CancelAll
  BY <1>a, <1>b, <1>26 DEF CancelAll
<1>27. CASE k = Host /\ HostRest
  BY <1>a, <1>b, <1>27 DEF HostRest
<1>28. CASE k = Host /\ Timeout
  BY <1>a, <1>b, <1>28 DEF Timeout
<1> QED
  BY <1>1, <1>2, <1>3, <1>4, <1>5, <1>6, <1>7, <1>8, <1>9, <1>10, <1>11, <1>12, <1>13, <1>14, <1>15, <1>16, <1>17, <1>18, <1>19, <1>20, <1>21, <1>22, <1>23, <1>24, <1>25, <1>26, <1>27, <1>28
     DEF ActorStep, CallStep, WaitStep, HostStep

\* What becomes of the work.
LEMMA ActorWork ==
  ASSUME IInv, NEW k \in Actors, ActorStep(k)
  PROVE  \A w \in Work :
           \/ work'[w] = work[w]
           \/ /\ w = k /\ k \in Executes /\ at[k] = "register" /\ at'[k] = "spawn"
              /\ work'[k] = "admitted" /\ registered'[Scope(k)] = k /\ UNCHANGED error
           \/ /\ w = k /\ k \in Executes /\ at[k] = "spawn" /\ at'[k] = "respond"
              /\ work'[k] = "running" /\ connected /\ error'[on[k]] = None
           \/ /\ w = k /\ k \in Executes /\ at[k] = "spawn" /\ at'[k] = "refuse" /\ work'[k] = "unspawned"
           \/ /\ w = k /\ k \in Dispatches /\ at[k] = "admit" /\ at'[k] = "readyLook"
              /\ work'[k] = "setup" /\ k \in tracked' /\ UNCHANGED registered
              /\ KeyOf[k] # None => receipts[on[k]][KeyOf[k]] = None /\ receipts'[on[k]][KeyOf[k]] = k
<1> USE DEF Goes, Returns, Holds, Awaits, sessions, waiting
<1>a. /\ at \in [Actors -> Steps] /\ on \in [Calls -> Sessions \cup {None}]
      /\ target \in [Actors -> Work \cup {None}]
      /\ left \in [Actors -> SUBSET (Dispatches \cup Sessions)]
      /\ Calls \subseteq Actors /\ Host \in Actors /\ Host \notin Calls
  BY DEF IInv, TypeOK, Actors
<1>b. /\ at[k] \in {"register", "spawn", "refuse"} => k \in Executes
      /\ at[k] = "store" => k \in Graphs
      /\ at[k] \in {"receipts", "admit"} => k \in Dispatches
      /\ at[k] \in {"lock", "release"} => k \in Closes
      /\ at[k] \in {"runs", "attempts", "rest", "drop"} => k \in Closes \cup {Host}
      /\ at[k] \in {"locks", "cancel", "closed"} => k = Host
      /\ at[k] = "permit" => k \in Executes \cup Graphs \cup Dispatches
      /\ at[k] = "respond" => k \in Executes \cup Dispatches \cup Asks
      /\ at[k] \in {"readyLook", "readyPark"} => k \in Dispatches \cup Asks /\ target[k] \in Work
      /\ at[k] \in {"look", "park", "drop"} => target[k] \in Work
      /\ k \in Calls \ Asks /\ at[k] \notin {"idle", "over"} => on[k] \in Sessions
  BY WhoIs
<1>w. /\ DOMAIN work = Work /\ registered \in [Scopes -> Executes \cup {None}]
      /\ error \in [Sessions -> Executes \cup {None}]
      /\ receipts \in [Sessions -> [Keys -> Dispatches \cup {None}]]
      /\ tracked \subseteq Dispatches /\ Executes \subseteq Work /\ Dispatches \subseteq Work
      /\ ScopeOf \in [Sessions -> Scopes] /\ KeyOf \in [Dispatches -> Keys \cup {None}]
  BY DEF IInv, TypeOK, Work
<1>x. work = [w \in Work |-> work[w]]
  BY DEF IInv, TypeOK
<1>1. CASE k \in Calls /\ \E s \in Sessions : Begin(k, s)
  BY <1>a, <1>b, <1>w, <1>1 DEF Begin
<1>2. CASE k \in Calls /\ Enter(k)
  BY <1>a, <1>b, <1>w, <1>2 DEF Enter
<1>3. CASE k \in Calls /\ LeaveStore(k)
  BY <1>a, <1>b, <1>w, <1>3 DEF LeaveStore
<1>4. CASE k \in Calls /\ Register(k)
  <2>1. k \in Executes /\ on[k] \in Sessions /\ Scope(k) \in Scopes
    BY <1>a, <1>b, <1>w, <1>4 DEF Register, Calls, Scope
  <2>2. \/ UNCHANGED work
        \/ /\ registered' = [registered EXCEPT ![Scope(k)] = k] /\ work' = [work EXCEPT ![k] = "admitted"]
           /\ at'[k] = "spawn" /\ UNCHANGED error /\ at[k] = "register"
    BY <1>a, <1>4 DEF Register
  <2> QED
    BY <1>w, <1>x, <2>1, <2>2
<1>5. CASE k \in Calls /\ Spawn(k)
  <2>1. k \in Executes /\ on[k] \in Sessions
    BY <1>a, <1>b, <1>w, <1>5 DEF Spawn, Calls
  <2>2. /\ error'[on[k]] = None /\ at[k] = "spawn"
        /\ \/ connected /\ work' = [work EXCEPT ![k] = "running"] /\ at'[k] = "respond"
           \/ work' = [work EXCEPT ![k] = "unspawned"] /\ at'[k] = "refuse"
    BY <1>a, <1>w, <2>1, <1>5 DEF Spawn
  <2> QED
    BY <1>w, <1>x, <2>1, <2>2
<1>6. CASE k \in Calls /\ Refuse(k)
  BY <1>a, <1>b, <1>w, <1>6 DEF Refuse
<1>7. CASE k \in Calls /\ Respond(k)
  BY <1>a, <1>b, <1>w, <1>7 DEF Respond
<1>8. CASE k \in Calls /\ TakeReceipts(k)
  BY <1>a, <1>b, <1>w, <1>8 DEF TakeReceipts
<1>9. CASE k \in Calls /\ Rejoin(k)
  BY <1>a, <1>b, <1>w, <1>9 DEF Rejoin, Known
<1>10. CASE k \in Calls /\ Admit(k)
  <2>1. k \in Dispatches /\ on[k] \in Sessions /\ at[k] = "admit" /\ k \in Actors
    BY <1>a, <1>b, <1>w, <1>10 DEF Admit, Calls
  <2>2. \/ UNCHANGED work
        \/ work' = [work EXCEPT ![k] = "setup"] /\ k \in tracked' /\ Remembers(k) /\ at' = [at EXCEPT ![k] = "readyLook"]
    BY <1>10 DEF Admit
  <2>3. UNCHANGED registered /\ ~Known(k)
    BY <1>10 DEF Admit
  <2>4. KeyOf[k] # None => receipts[on[k]][KeyOf[k]] = None
    BY <2>3 DEF Known
  <2>5. KeyOf[k] # None /\ Remembers(k) => receipts'[on[k]][KeyOf[k]] = k
    <3>1. ASSUME KeyOf[k] # None, Remembers(k)
          PROVE  receipts'[on[k]][KeyOf[k]] = k
      <4>1. KeyOf[k] \in Keys /\ receipts[on[k]] \in [Keys -> Dispatches \cup {None}]
        BY <1>w, <2>1, <3>1
      <4>2. receipts' = [receipts EXCEPT ![on[k]][KeyOf[k]] = k]
        BY <3>1 DEF Remembers
      <4> QED
        BY <1>w, <2>1, <4>1, <4>2
    <3> QED
      BY <3>1
  <2>6. at' = [at EXCEPT ![k] = "readyLook"] => at'[k] = "readyLook"
    BY <1>a, <2>1
  <2>7. work' = [work EXCEPT ![k] = "setup"] => work'[k] = "setup" /\ \A w \in Work : w # k => work'[w] = work[w]
    BY <1>x, <1>w, <2>1
  <2> QED
    BY <2>1, <2>2, <2>3, <2>4, <2>5, <2>6, <2>7
<1>11. CASE k \in Calls /\ LookReady(k)
  BY <1>a, <1>b, <1>w, <1>11 DEF LookReady
<1>12. CASE k \in Calls /\ Steer(k)
  BY <1>a, <1>b, <1>w, <1>12 DEF Steer
<1>13. CASE k \in Calls /\ Expire(k)
  BY <1>a, <1>b, <1>w, <1>13 DEF Expire
<1>14. CASE k \in Calls /\ Ask(k)
  BY <1>a, <1>b, <1>w, <1>14 DEF Ask
<1>15. CASE k \in Calls /\ Lock(k)
  BY <1>a, <1>b, <1>w, <1>15 DEF Lock
<1>16. CASE k \in Calls /\ Rest(k)
  BY <1>a, <1>b, <1>w, <1>16 DEF Rest
<1>17. CASE k \in Calls /\ Release(k)
  BY <1>a, <1>b, <1>w, <1>17 DEF Release
<1>18. CASE k \in Calls /\ DropCall(k)
  BY <1>a, <1>b, <1>w, <1>18 DEF DropCall, Waits
<1>19. CASE LookSettled(k)
  BY <1>a, <1>b, <1>w, <1>19 DEF LookSettled
<1>20. CASE Wake(k)
  BY <1>a, <1>b, <1>w, <1>20 DEF Wake
<1>21. CASE NextRun(k)
  BY <1>a, <1>b, <1>w, <1>21 DEF NextRun
<1>22. CASE NextAttempt(k)
  BY <1>a, <1>b, <1>w, <1>22 DEF NextAttempt
<1>23. CASE Drop(k)
  BY <1>a, <1>b, <1>w, <1>23 DEF Drop
<1>24. CASE k = Host /\ Fence
  BY <1>a, <1>b, <1>w, <1>24 DEF Fence
<1>25. CASE k = Host /\ Locks
  BY <1>a, <1>b, <1>w, <1>25 DEF Locks
<1>26. CASE k = Host /\ CancelAll
  BY <1>a, <1>b, <1>w, <1>26 DEF CancelAll
<1>27. CASE k = Host /\ HostRest
  BY <1>a, <1>b, <1>w, <1>27 DEF HostRest
<1>28. CASE k = Host /\ Timeout
  BY <1>a, <1>b, <1>w, <1>28 DEF Timeout
<1> QED
  BY <1>1, <1>2, <1>3, <1>4, <1>5, <1>6, <1>7, <1>8, <1>9, <1>10, <1>11, <1>12, <1>13, <1>14, <1>15, <1>16, <1>17, <1>18, <1>19, <1>20, <1>21, <1>22, <1>23, <1>24, <1>25, <1>26, <1>27, <1>28
     DEF ActorStep, CallStep, WaitStep, HostStep

\* What becomes of the maps.
LEMMA ActorRegistered ==
  ASSUME IInv, NEW k \in Actors, ActorStep(k)
  PROVE  \A p \in Scopes :
           \/ registered'[p] = registered[p]
           \/ /\ registered'[p] = None /\ k \in Executes /\ at[k] = "spawn" /\ Scope(k) = p
              /\ work'[k] = "unspawned" /\ ~connected
           \/ /\ registered'[p] = None /\ at[k] = "drop" /\ target[k] \in Executes
              /\ Scope(target[k]) = p /\ UNCHANGED work
           \/ /\ registered'[p] = k /\ registered[p] = None /\ k \in Executes /\ on[k] \in Sessions
              /\ at[k] = "register" /\ Scope(k) = p
<1> USE DEF Goes, Returns, Holds, Awaits, sessions, waiting
<1>a. /\ at \in [Actors -> Steps] /\ on \in [Calls -> Sessions \cup {None}]
      /\ target \in [Actors -> Work \cup {None}]
      /\ left \in [Actors -> SUBSET (Dispatches \cup Sessions)]
      /\ Calls \subseteq Actors /\ Host \in Actors /\ Host \notin Calls
  BY DEF IInv, TypeOK, Actors
<1>b. /\ at[k] \in {"register", "spawn", "refuse"} => k \in Executes
      /\ at[k] = "store" => k \in Graphs
      /\ at[k] \in {"receipts", "admit"} => k \in Dispatches
      /\ at[k] \in {"lock", "release"} => k \in Closes
      /\ at[k] \in {"runs", "attempts", "rest", "drop"} => k \in Closes \cup {Host}
      /\ at[k] \in {"locks", "cancel", "closed"} => k = Host
      /\ at[k] = "permit" => k \in Executes \cup Graphs \cup Dispatches
      /\ at[k] = "respond" => k \in Executes \cup Dispatches \cup Asks
      /\ at[k] \in {"readyLook", "readyPark"} => k \in Dispatches \cup Asks /\ target[k] \in Work
      /\ at[k] \in {"look", "park", "drop"} => target[k] \in Work
      /\ k \in Calls \ Asks /\ at[k] \notin {"idle", "over"} => on[k] \in Sessions
  BY WhoIs
<1>w. /\ DOMAIN work = Work /\ registered \in [Scopes -> Executes \cup {None}]
      /\ error \in [Sessions -> Executes \cup {None}]
      /\ receipts \in [Sessions -> [Keys -> Dispatches \cup {None}]]
      /\ tracked \subseteq Dispatches /\ Executes \subseteq Work /\ Dispatches \subseteq Work
      /\ ScopeOf \in [Sessions -> Scopes] /\ KeyOf \in [Dispatches -> Keys \cup {None}]
  BY DEF IInv, TypeOK, Work
<1>x. work = [w \in Work |-> work[w]]
  BY DEF IInv, TypeOK
<1>1. CASE k \in Calls /\ \E s \in Sessions : Begin(k, s)
  BY <1>a, <1>b, <1>w, <1>1 DEF Begin
<1>2. CASE k \in Calls /\ Enter(k)
  BY <1>a, <1>b, <1>w, <1>2 DEF Enter
<1>3. CASE k \in Calls /\ LeaveStore(k)
  BY <1>a, <1>b, <1>w, <1>3 DEF LeaveStore
<1>4. CASE k \in Calls /\ Register(k)
  <2>1. k \in Executes /\ on[k] \in Sessions /\ Scope(k) \in Scopes
    BY <1>a, <1>b, <1>w, <1>4 DEF Register, Calls, Scope
  <2>2. \/ UNCHANGED registered
        \/ registered' = [registered EXCEPT ![Scope(k)] = k] /\ registered[Scope(k)] = None
    BY <1>4 DEF Register, Vacant
  <2> QED
    BY <1>w, <2>1, <2>2, <1>4 DEF Register
<1>5. CASE k \in Calls /\ Spawn(k)
  <2>1. k \in Executes /\ on[k] \in Sessions
    BY <1>a, <1>b, <1>w, <1>5 DEF Spawn, Calls
  <2>2. UNCHANGED registered \/ (registered' = [registered EXCEPT ![Scope(k)] = None] /\ ~connected /\ work'[k] = "unspawned")
    BY <1>w, <2>1, <1>5 DEF Spawn
  <2> QED
    BY <1>w, <2>1, <2>2, <1>5 DEF Spawn
<1>6. CASE k \in Calls /\ Refuse(k)
  BY <1>a, <1>b, <1>w, <1>6 DEF Refuse
<1>7. CASE k \in Calls /\ Respond(k)
  BY <1>a, <1>b, <1>w, <1>7 DEF Respond
<1>8. CASE k \in Calls /\ TakeReceipts(k)
  BY <1>a, <1>b, <1>w, <1>8 DEF TakeReceipts
<1>9. CASE k \in Calls /\ Rejoin(k)
  BY <1>a, <1>b, <1>w, <1>9 DEF Rejoin, Known
<1>10. CASE k \in Calls /\ Admit(k)
  BY <1>a, <1>b, <1>w, <1>10 DEF Admit, Kept, Remembers
<1>11. CASE k \in Calls /\ LookReady(k)
  BY <1>a, <1>b, <1>w, <1>11 DEF LookReady
<1>12. CASE k \in Calls /\ Steer(k)
  BY <1>a, <1>b, <1>w, <1>12 DEF Steer
<1>13. CASE k \in Calls /\ Expire(k)
  BY <1>a, <1>b, <1>w, <1>13 DEF Expire
<1>14. CASE k \in Calls /\ Ask(k)
  BY <1>a, <1>b, <1>w, <1>14 DEF Ask
<1>15. CASE k \in Calls /\ Lock(k)
  BY <1>a, <1>b, <1>w, <1>15 DEF Lock
<1>16. CASE k \in Calls /\ Rest(k)
  BY <1>a, <1>b, <1>w, <1>16 DEF Rest
<1>17. CASE k \in Calls /\ Release(k)
  BY <1>a, <1>b, <1>w, <1>17 DEF Release
<1>18. CASE k \in Calls /\ DropCall(k)
  BY <1>a, <1>b, <1>w, <1>18 DEF DropCall, Waits
<1>19. CASE LookSettled(k)
  BY <1>a, <1>b, <1>w, <1>19 DEF LookSettled
<1>20. CASE Wake(k)
  BY <1>a, <1>b, <1>w, <1>20 DEF Wake
<1>21. CASE NextRun(k)
  BY <1>a, <1>b, <1>w, <1>21 DEF NextRun
<1>22. CASE NextAttempt(k)
  BY <1>a, <1>b, <1>w, <1>22 DEF NextAttempt
<1>23. CASE Drop(k)
  <2>1. \/ UNCHANGED registered
        \/ registered' = [registered EXCEPT ![Scope(target[k])] = None] /\ target[k] \in Executes
    BY <1>23 DEF Drop
  <2> QED
    BY <1>w, <2>1, <1>23 DEF Drop
<1>24. CASE k = Host /\ Fence
  BY <1>a, <1>b, <1>w, <1>24 DEF Fence
<1>25. CASE k = Host /\ Locks
  BY <1>a, <1>b, <1>w, <1>25 DEF Locks
<1>26. CASE k = Host /\ CancelAll
  BY <1>a, <1>b, <1>w, <1>26 DEF CancelAll
<1>27. CASE k = Host /\ HostRest
  BY <1>a, <1>b, <1>w, <1>27 DEF HostRest
<1>28. CASE k = Host /\ Timeout
  BY <1>a, <1>b, <1>w, <1>28 DEF Timeout
<1> QED
  BY <1>1, <1>2, <1>3, <1>4, <1>5, <1>6, <1>7, <1>8, <1>9, <1>10, <1>11, <1>12, <1>13, <1>14, <1>15, <1>16, <1>17, <1>18, <1>19, <1>20, <1>21, <1>22, <1>23, <1>24, <1>25, <1>26, <1>27, <1>28
     DEF ActorStep, CallStep, WaitStep, HostStep

LEMMA ActorTracked ==
  ASSUME IInv, NEW k \in Actors, ActorStep(k)
  PROVE  /\ \A a \in tracked' : a \in tracked \/ (a = k /\ k \in Dispatches /\ at[k] = "admit" /\ work'[k] = "setup")
         /\ \A a \in tracked : a \in tracked' \/ Settled(a)
<1> USE DEF Goes, Returns, Holds, Awaits, sessions, waiting
<1>a. /\ at \in [Actors -> Steps] /\ on \in [Calls -> Sessions \cup {None}]
      /\ target \in [Actors -> Work \cup {None}]
      /\ left \in [Actors -> SUBSET (Dispatches \cup Sessions)]
      /\ Calls \subseteq Actors /\ Host \in Actors /\ Host \notin Calls
  BY DEF IInv, TypeOK, Actors
<1>b. /\ at[k] \in {"register", "spawn", "refuse"} => k \in Executes
      /\ at[k] = "store" => k \in Graphs
      /\ at[k] \in {"receipts", "admit"} => k \in Dispatches
      /\ at[k] \in {"lock", "release"} => k \in Closes
      /\ at[k] \in {"runs", "attempts", "rest", "drop"} => k \in Closes \cup {Host}
      /\ at[k] \in {"locks", "cancel", "closed"} => k = Host
      /\ at[k] = "permit" => k \in Executes \cup Graphs \cup Dispatches
      /\ at[k] = "respond" => k \in Executes \cup Dispatches \cup Asks
      /\ at[k] \in {"readyLook", "readyPark"} => k \in Dispatches \cup Asks /\ target[k] \in Work
      /\ at[k] \in {"look", "park", "drop"} => target[k] \in Work
      /\ k \in Calls \ Asks /\ at[k] \notin {"idle", "over"} => on[k] \in Sessions
  BY WhoIs
<1>w. /\ DOMAIN work = Work /\ registered \in [Scopes -> Executes \cup {None}]
      /\ error \in [Sessions -> Executes \cup {None}]
      /\ receipts \in [Sessions -> [Keys -> Dispatches \cup {None}]]
      /\ tracked \subseteq Dispatches /\ Executes \subseteq Work /\ Dispatches \subseteq Work
      /\ ScopeOf \in [Sessions -> Scopes] /\ KeyOf \in [Dispatches -> Keys \cup {None}]
  BY DEF IInv, TypeOK, Work
<1>x. work = [w \in Work |-> work[w]]
  BY DEF IInv, TypeOK
<1>1. CASE k \in Calls /\ \E s \in Sessions : Begin(k, s)
  BY <1>a, <1>b, <1>1 DEF Begin
<1>2. CASE k \in Calls /\ Enter(k)
  BY <1>a, <1>b, <1>2 DEF Enter
<1>3. CASE k \in Calls /\ LeaveStore(k)
  BY <1>a, <1>b, <1>3 DEF LeaveStore
<1>4. CASE k \in Calls /\ Register(k)
  BY <1>a, <1>b, <1>4 DEF Register
<1>5. CASE k \in Calls /\ Spawn(k)
  BY <1>a, <1>b, <1>5 DEF Spawn
<1>6. CASE k \in Calls /\ Refuse(k)
  BY <1>a, <1>b, <1>6 DEF Refuse
<1>7. CASE k \in Calls /\ Respond(k)
  BY <1>a, <1>b, <1>7 DEF Respond
<1>8. CASE k \in Calls /\ TakeReceipts(k)
  BY <1>a, <1>b, <1>8 DEF TakeReceipts
<1>9. CASE k \in Calls /\ Rejoin(k)
  BY <1>a, <1>b, <1>9 DEF Rejoin, Known
<1>10. CASE k \in Calls /\ Admit(k)
  <2>1. k \in Dispatches
    BY <1>b, <1>10 DEF Admit
  <2>2. \/ UNCHANGED tracked
        \/ \E spared \in SUBSET {a \in tracked : Settled(a)} : tracked' = Kept(spared)
        \/ \E spared \in SUBSET {a \in tracked : Settled(a)} :
             tracked' = Kept(spared) \cup {k} /\ work' = [work EXCEPT ![k] = "setup"]
    BY <1>10 DEF Admit
  <2>3. \A spared \in SUBSET {a \in tracked : Settled(a)} :
          Kept(spared) \subseteq tracked /\ \A a \in tracked : a \in Kept(spared) \/ Settled(a)
    BY DEF Kept, Retirable
  <2> QED
    BY <1>w, <2>1, <2>2, <2>3, <1>10 DEF Admit
<1>11. CASE k \in Calls /\ LookReady(k)
  BY <1>a, <1>b, <1>11 DEF LookReady
<1>12. CASE k \in Calls /\ Steer(k)
  BY <1>a, <1>b, <1>12 DEF Steer
<1>13. CASE k \in Calls /\ Expire(k)
  BY <1>a, <1>b, <1>13 DEF Expire
<1>14. CASE k \in Calls /\ Ask(k)
  BY <1>a, <1>b, <1>14 DEF Ask
<1>15. CASE k \in Calls /\ Lock(k)
  BY <1>a, <1>b, <1>15 DEF Lock
<1>16. CASE k \in Calls /\ Rest(k)
  BY <1>a, <1>b, <1>16 DEF Rest
<1>17. CASE k \in Calls /\ Release(k)
  BY <1>a, <1>b, <1>17 DEF Release
<1>18. CASE k \in Calls /\ DropCall(k)
  BY <1>a, <1>b, <1>18 DEF DropCall, Waits
<1>19. CASE LookSettled(k)
  BY <1>a, <1>b, <1>19 DEF LookSettled
<1>20. CASE Wake(k)
  BY <1>a, <1>b, <1>20 DEF Wake
<1>21. CASE NextRun(k)
  BY <1>a, <1>b, <1>21 DEF NextRun
<1>22. CASE NextAttempt(k)
  BY <1>a, <1>b, <1>22 DEF NextAttempt
<1>23. CASE Drop(k)
  <2>1. Settled(target[k])
    BY <1>23 DEF Drop, IInv, Roles
  <2>2. UNCHANGED tracked \/ tracked' = tracked \ {target[k]}
    BY <1>23 DEF Drop
  <2> QED
    BY <2>1, <2>2
<1>24. CASE k = Host /\ Fence
  BY <1>a, <1>b, <1>24 DEF Fence
<1>25. CASE k = Host /\ Locks
  BY <1>a, <1>b, <1>25 DEF Locks
<1>26. CASE k = Host /\ CancelAll
  BY <1>a, <1>b, <1>26 DEF CancelAll
<1>27. CASE k = Host /\ HostRest
  BY <1>a, <1>b, <1>27 DEF HostRest
<1>28. CASE k = Host /\ Timeout
  BY <1>a, <1>b, <1>28 DEF Timeout
<1> QED
  BY <1>1, <1>2, <1>3, <1>4, <1>5, <1>6, <1>7, <1>8, <1>9, <1>10, <1>11, <1>12, <1>13, <1>14, <1>15, <1>16, <1>17, <1>18, <1>19, <1>20, <1>21, <1>22, <1>23, <1>24, <1>25, <1>26, <1>27, <1>28
     DEF ActorStep, CallStep, WaitStep, HostStep

\* What becomes of the Sessions.
LEMMA ActorFates ==
  ASSUME IInv, NEW k \in Actors, ActorStep(k)
  PROVE  /\ \A s \in Sessions :
              \/ session'[s] = session[s]
              \/ session[s] = "open" /\ session'[s] = "closing" /\ at[k] = "idle"
              \/ /\ session'[s] = "freed" /\ at[k] = "rest" /\ k \in Closes /\ on[k] = s
                 /\ at'[k] = "release" /\ UNCHANGED work
              \/ session'[s] = "released" /\ at[k] = "release" /\ k \in Closes /\ on[k] = s /\ UNCHANGED work
         /\ again \subseteq again'
         /\ \A p \in again' \ again : at[k] = "lock" /\ k \in Closes /\ UNCHANGED <<work, session>>
         /\ fenced \in BOOLEAN /\ connected' = connected
         /\ fenced' = fenced \/ (fenced' /\ k = Host /\ at[k] = "idle" /\ \A s \in Sessions : session'[s] # "open")
<1> USE DEF Goes, Returns, Holds, Awaits, sessions, waiting
<1>a. /\ at \in [Actors -> Steps] /\ on \in [Calls -> Sessions \cup {None}]
      /\ target \in [Actors -> Work \cup {None}]
      /\ left \in [Actors -> SUBSET (Dispatches \cup Sessions)]
      /\ Calls \subseteq Actors /\ Host \in Actors /\ Host \notin Calls
  BY DEF IInv, TypeOK, Actors
<1>b. /\ at[k] \in {"register", "spawn", "refuse"} => k \in Executes
      /\ at[k] = "store" => k \in Graphs
      /\ at[k] \in {"receipts", "admit"} => k \in Dispatches
      /\ at[k] \in {"lock", "release"} => k \in Closes
      /\ at[k] \in {"runs", "attempts", "rest", "drop"} => k \in Closes \cup {Host}
      /\ at[k] \in {"locks", "cancel", "closed"} => k = Host
      /\ at[k] = "permit" => k \in Executes \cup Graphs \cup Dispatches
      /\ at[k] = "respond" => k \in Executes \cup Dispatches \cup Asks
      /\ at[k] \in {"readyLook", "readyPark"} => k \in Dispatches \cup Asks /\ target[k] \in Work
      /\ at[k] \in {"look", "park", "drop"} => target[k] \in Work
      /\ k \in Calls \ Asks /\ at[k] \notin {"idle", "over"} => on[k] \in Sessions
  BY WhoIs
<1>w. /\ session \in [Sessions -> {"absent", "open", "closing", "freed", "released"}]
      /\ error \in [Sessions -> Executes \cup {None}]
      /\ receipts \in [Sessions -> [Keys -> Dispatches \cup {None}]]
      /\ lock \in [Sessions -> Calls \cup {None}]
      /\ ScopeOf \in [Sessions -> Scopes] /\ KeyOf \in [Dispatches -> Keys \cup {None}]
      /\ \A c \in Closes : c \in Calls \ Asks
      /\ \A c \in Executes \cup Dispatches : c \in Calls \ Asks
  BY DEF IInv, TypeOK, Work, Calls
<1>c. fenced \in BOOLEAN
  BY DEF IInv, TypeOK
<1>1. CASE k \in Calls /\ \E s \in Sessions : Begin(k, s)
  <2>1. at[k] = "idle" /\ ~fenced /\ UNCHANGED <<fenced, connected, again>>
    BY <1>1 DEF Begin
  <2>2. \A s \in Sessions : session'[s] = session[s] \/ (session[s] = "open" /\ session'[s] = "closing")
    BY <1>a, <1>w, <1>1 DEF Begin
  <2> QED
    BY <1>c, <2>1, <2>2
<1>2. CASE k \in Calls /\ Enter(k)
  BY <1>a, <1>b, <1>w, <1>c, <1>2 DEF Enter
<1>3. CASE k \in Calls /\ LeaveStore(k)
  BY <1>a, <1>b, <1>w, <1>c, <1>3 DEF LeaveStore
<1>4. CASE k \in Calls /\ Register(k)
  BY <1>a, <1>b, <1>w, <1>c, <1>4 DEF Register
<1>5. CASE k \in Calls /\ Spawn(k)
  BY <1>a, <1>b, <1>w, <1>c, <1>5 DEF Spawn
<1>6. CASE k \in Calls /\ Refuse(k)
  BY <1>a, <1>b, <1>w, <1>c, <1>6 DEF Refuse
<1>7. CASE k \in Calls /\ Respond(k)
  BY <1>a, <1>b, <1>w, <1>c, <1>7 DEF Respond
<1>8. CASE k \in Calls /\ TakeReceipts(k)
  BY <1>a, <1>b, <1>w, <1>c, <1>8 DEF TakeReceipts
<1>9. CASE k \in Calls /\ Rejoin(k)
  BY <1>a, <1>b, <1>w, <1>c, <1>9 DEF Rejoin, Known
<1>10. CASE k \in Calls /\ Admit(k)
  BY <1>a, <1>b, <1>w, <1>c, <1>10 DEF Admit, Kept, Remembers
<1>11. CASE k \in Calls /\ LookReady(k)
  BY <1>a, <1>b, <1>w, <1>c, <1>11 DEF LookReady
<1>12. CASE k \in Calls /\ Steer(k)
  BY <1>a, <1>b, <1>w, <1>c, <1>12 DEF Steer
<1>13. CASE k \in Calls /\ Expire(k)
  BY <1>a, <1>b, <1>w, <1>c, <1>13 DEF Expire
<1>14. CASE k \in Calls /\ Ask(k)
  BY <1>a, <1>b, <1>w, <1>c, <1>14 DEF Ask
<1>15. CASE k \in Calls /\ Lock(k)
  <2>1. again' = again \/ again' = again \cup {ScopeOf[on[k]]}
    BY <1>15 DEF Lock
  <2> QED
    BY <1>c, <2>1, <1>b, <1>15 DEF Lock
<1>16. CASE k \in Calls /\ Rest(k)
  <2>1. k \in Closes /\ on[k] \in Sessions
    BY <1>a, <1>b, <1>w, <1>16 DEF Rest
  <2>2. UNCHANGED session \/ (session' = [session EXCEPT ![on[k]] = "freed"] /\ at'[k] = "release")
    BY <1>a, <1>16 DEF Rest
  <2> QED
    BY <1>w, <1>c, <2>1, <2>2, <1>16 DEF Rest
<1>17. CASE k \in Calls /\ Release(k)
  <2>1. k \in Closes /\ on[k] \in Sessions
    BY <1>a, <1>b, <1>w, <1>17 DEF Release
  <2> QED
    BY <1>w, <1>c, <2>1, <1>17 DEF Release
<1>18. CASE k \in Calls /\ DropCall(k)
  BY <1>a, <1>b, <1>w, <1>c, <1>18 DEF DropCall, Waits
<1>19. CASE LookSettled(k)
  BY <1>a, <1>b, <1>w, <1>c, <1>19 DEF LookSettled
<1>20. CASE Wake(k)
  BY <1>a, <1>b, <1>w, <1>c, <1>20 DEF Wake
<1>21. CASE NextRun(k)
  BY <1>a, <1>b, <1>w, <1>c, <1>21 DEF NextRun
<1>22. CASE NextAttempt(k)
  BY <1>a, <1>b, <1>w, <1>c, <1>22 DEF NextAttempt
<1>23. CASE Drop(k)
  BY <1>a, <1>b, <1>w, <1>c, <1>23 DEF Drop
<1>24. CASE k = Host /\ Fence
  BY <1>a, <1>b, <1>w, <1>c, <1>24 DEF Fence
<1>25. CASE k = Host /\ Locks
  BY <1>a, <1>b, <1>w, <1>c, <1>25 DEF Locks
<1>26. CASE k = Host /\ CancelAll
  BY <1>a, <1>b, <1>w, <1>c, <1>26 DEF CancelAll
<1>27. CASE k = Host /\ HostRest
  BY <1>a, <1>b, <1>w, <1>c, <1>27 DEF HostRest
<1>28. CASE k = Host /\ Timeout
  BY <1>a, <1>b, <1>w, <1>c, <1>28 DEF Timeout
<1> QED
  BY <1>1, <1>2, <1>3, <1>4, <1>5, <1>6, <1>7, <1>8, <1>9, <1>10, <1>11, <1>12, <1>13, <1>14, <1>15, <1>16, <1>17, <1>18, <1>19, <1>20, <1>21, <1>22, <1>23, <1>24, <1>25, <1>26, <1>27, <1>28
     DEF ActorStep, CallStep, WaitStep, HostStep

LEMMA ActorTells ==
  ASSUME IInv, NEW k \in Actors, ActorStep(k)
  PROVE  /\ \A s \in Sessions, i \in Keys :
              \/ receipts'[s][i] = receipts[s][i]
              \/ receipts[s][i] = None
         /\ \A s \in Sessions :
              \/ error'[s] = error[s]
              \/ error'[s] = None /\ at[k] = "spawn" /\ k \in Executes /\ on[k] = s
              \/ error'[s] = k /\ at[k] = "refuse" /\ k \in Executes /\ on[k] = s /\ UNCHANGED <<work, on>>
<1> USE DEF Goes, Returns, Holds, Awaits, sessions, waiting
<1>a. /\ at \in [Actors -> Steps] /\ on \in [Calls -> Sessions \cup {None}]
      /\ target \in [Actors -> Work \cup {None}]
      /\ left \in [Actors -> SUBSET (Dispatches \cup Sessions)]
      /\ Calls \subseteq Actors /\ Host \in Actors /\ Host \notin Calls
  BY DEF IInv, TypeOK, Actors
<1>b. /\ at[k] \in {"register", "spawn", "refuse"} => k \in Executes
      /\ at[k] = "store" => k \in Graphs
      /\ at[k] \in {"receipts", "admit"} => k \in Dispatches
      /\ at[k] \in {"lock", "release"} => k \in Closes
      /\ at[k] \in {"runs", "attempts", "rest", "drop"} => k \in Closes \cup {Host}
      /\ at[k] \in {"locks", "cancel", "closed"} => k = Host
      /\ at[k] = "permit" => k \in Executes \cup Graphs \cup Dispatches
      /\ at[k] = "respond" => k \in Executes \cup Dispatches \cup Asks
      /\ at[k] \in {"readyLook", "readyPark"} => k \in Dispatches \cup Asks /\ target[k] \in Work
      /\ at[k] \in {"look", "park", "drop"} => target[k] \in Work
      /\ k \in Calls \ Asks /\ at[k] \notin {"idle", "over"} => on[k] \in Sessions
  BY WhoIs
<1>w. /\ session \in [Sessions -> {"absent", "open", "closing", "freed", "released"}]
      /\ error \in [Sessions -> Executes \cup {None}]
      /\ receipts \in [Sessions -> [Keys -> Dispatches \cup {None}]]
      /\ lock \in [Sessions -> Calls \cup {None}]
      /\ ScopeOf \in [Sessions -> Scopes] /\ KeyOf \in [Dispatches -> Keys \cup {None}]
      /\ \A c \in Closes : c \in Calls \ Asks
      /\ \A c \in Executes \cup Dispatches : c \in Calls \ Asks
  BY DEF IInv, TypeOK, Work, Calls
<1>1. CASE k \in Calls /\ \E s \in Sessions : Begin(k, s)
  BY <1>a, <1>b, <1>w, <1>1 DEF Begin
<1>2. CASE k \in Calls /\ Enter(k)
  BY <1>a, <1>b, <1>w, <1>2 DEF Enter
<1>3. CASE k \in Calls /\ LeaveStore(k)
  BY <1>a, <1>b, <1>w, <1>3 DEF LeaveStore
<1>4. CASE k \in Calls /\ Register(k)
  BY <1>a, <1>b, <1>w, <1>4 DEF Register
<1>5. CASE k \in Calls /\ Spawn(k)
  <2>1. k \in Executes /\ on[k] \in Sessions
    BY <1>a, <1>b, <1>w, <1>5 DEF Spawn
  <2> QED
    BY <1>w, <2>1, <1>5 DEF Spawn
<1>6. CASE k \in Calls /\ Refuse(k)
  <2>1. k \in Executes /\ on[k] \in Sessions
    BY <1>a, <1>b, <1>w, <1>6 DEF Refuse
  <2> QED
    BY <1>w, <2>1, <1>6 DEF Refuse
<1>7. CASE k \in Calls /\ Respond(k)
  BY <1>a, <1>b, <1>w, <1>7 DEF Respond
<1>8. CASE k \in Calls /\ TakeReceipts(k)
  BY <1>a, <1>b, <1>w, <1>8 DEF TakeReceipts
<1>9. CASE k \in Calls /\ Rejoin(k)
  BY <1>a, <1>b, <1>w, <1>9 DEF Rejoin, Known
<1>10. CASE k \in Calls /\ Admit(k)
  <2>1. k \in Dispatches /\ on[k] \in Sessions
    BY <1>a, <1>b, <1>w, <1>10 DEF Admit
  <2>2. CASE UNCHANGED receipts
    BY <2>2, <1>10 DEF Admit
  <2>3. CASE KeyOf[k] # None /\ receipts' = [receipts EXCEPT ![on[k]][KeyOf[k]] = k]
    <3>1. KeyOf[k] \in Keys /\ receipts[on[k]][KeyOf[k]] = None
      BY <1>w, <2>1, <2>3, <1>10 DEF Admit, Known
    <3>2. \A s \in Sessions, i \in Keys :
            receipts'[s][i] = IF s = on[k] /\ i = KeyOf[k] THEN k ELSE receipts[s][i]
      BY <1>w, <2>1, <2>3, <3>1
    <3> QED
      BY <3>1, <3>2, <1>10 DEF Admit
  <2> QED
    BY <2>2, <2>3, <1>10 DEF Admit, Remembers
<1>11. CASE k \in Calls /\ LookReady(k)
  BY <1>a, <1>b, <1>w, <1>11 DEF LookReady
<1>12. CASE k \in Calls /\ Steer(k)
  BY <1>a, <1>b, <1>w, <1>12 DEF Steer
<1>13. CASE k \in Calls /\ Expire(k)
  BY <1>a, <1>b, <1>w, <1>13 DEF Expire
<1>14. CASE k \in Calls /\ Ask(k)
  BY <1>a, <1>b, <1>w, <1>14 DEF Ask
<1>15. CASE k \in Calls /\ Lock(k)
  BY <1>a, <1>b, <1>w, <1>15 DEF Lock
<1>16. CASE k \in Calls /\ Rest(k)
  BY <1>a, <1>b, <1>w, <1>16 DEF Rest
<1>17. CASE k \in Calls /\ Release(k)
  BY <1>a, <1>b, <1>w, <1>17 DEF Release
<1>18. CASE k \in Calls /\ DropCall(k)
  BY <1>a, <1>b, <1>w, <1>18 DEF DropCall, Waits
<1>19. CASE LookSettled(k)
  BY <1>a, <1>b, <1>w, <1>19 DEF LookSettled
<1>20. CASE Wake(k)
  BY <1>a, <1>b, <1>w, <1>20 DEF Wake
<1>21. CASE NextRun(k)
  BY <1>a, <1>b, <1>w, <1>21 DEF NextRun
<1>22. CASE NextAttempt(k)
  BY <1>a, <1>b, <1>w, <1>22 DEF NextAttempt
<1>23. CASE Drop(k)
  BY <1>a, <1>b, <1>w, <1>23 DEF Drop
<1>24. CASE k = Host /\ Fence
  BY <1>a, <1>b, <1>w, <1>24 DEF Fence
<1>25. CASE k = Host /\ Locks
  BY <1>a, <1>b, <1>w, <1>25 DEF Locks
<1>26. CASE k = Host /\ CancelAll
  BY <1>a, <1>b, <1>w, <1>26 DEF CancelAll
<1>27. CASE k = Host /\ HostRest
  BY <1>a, <1>b, <1>w, <1>27 DEF HostRest
<1>28. CASE k = Host /\ Timeout
  BY <1>a, <1>b, <1>w, <1>28 DEF Timeout
<1> QED
  BY <1>1, <1>2, <1>3, <1>4, <1>5, <1>6, <1>7, <1>8, <1>9, <1>10, <1>11, <1>12, <1>13, <1>14, <1>15, <1>16, <1>17, <1>18, <1>19, <1>20, <1>21, <1>22, <1>23, <1>24, <1>25, <1>26, <1>27, <1>28
     DEF ActorStep, CallStep, WaitStep, HostStep

\* Where it comes from.
LEMMA OwnWay ==
  ASSUME IInv, NEW k \in Actors, ActorStep(k)
  PROVE  /\ at'[k] = "idle" => k = Host
         /\ at'[k] \in {"permit", "lock"} => at[k] = "idle"
         /\ at'[k] \in {"register", "store", "receipts"} => /\ at[k] = "permit" /\ lock[on[k]] = None
                                                        /\ session[on[k]] = "open"
         /\ at'[k] = "admit" => at[k] = "receipts"
         /\ at'[k] = "spawn" => at[k] = "register" /\ work'[k] = "admitted"
         /\ at[k] = "spawn" => at'[k] \in {"respond", "refuse"} /\ work'[k] \in {"running", "unspawned"}
         /\ at'[k] = "refuse" => at[k] = "spawn" /\ ~connected /\ work'[k] = "unspawned"
         /\ at'[k] \in {"readyLook", "readyPark", "respond"} /\ k \in Calls \ Asks => at[k] \notin {"idle", "over", "permit"}
         /\ at'[k] \in Looks /\ k \in Calls \ Asks => at[k] \notin {"idle", "over", "permit"}
<1> USE DEF Goes, Returns, Holds, Awaits, sessions, waiting, Looks
<1>a. /\ at \in [Actors -> Steps] /\ on \in [Calls -> Sessions \cup {None}]
      /\ target \in [Actors -> Work \cup {None}]
      /\ left \in [Actors -> SUBSET (Dispatches \cup Sessions)]
      /\ Calls \subseteq Actors /\ Host \in Actors /\ Host \notin Calls
  BY DEF IInv, TypeOK, Actors
<1>b. /\ at[k] \in {"register", "spawn", "refuse"} => k \in Executes
      /\ at[k] = "store" => k \in Graphs
      /\ at[k] \in {"receipts", "admit"} => k \in Dispatches
      /\ at[k] \in {"lock", "release"} => k \in Closes
      /\ at[k] \in {"runs", "attempts", "rest", "drop"} => k \in Closes \cup {Host}
      /\ at[k] \in {"locks", "cancel", "closed"} => k = Host
      /\ at[k] = "permit" => k \in Executes \cup Graphs \cup Dispatches
      /\ at[k] = "respond" => k \in Executes \cup Dispatches \cup Asks
      /\ at[k] \in {"readyLook", "readyPark"} => k \in Dispatches \cup Asks /\ target[k] \in Work
      /\ at[k] \in {"look", "park", "drop"} => target[k] \in Work
      /\ k \in Calls \ Asks /\ at[k] \notin {"idle", "over"} => on[k] \in Sessions
  BY WhoIs
<1>1. CASE k \in Calls /\ \E s \in Sessions : Begin(k, s)
  BY <1>a, <1>b, <1>1 DEF Begin
<1>2. CASE k \in Calls /\ Enter(k)
  <2>1. /\ at[k] = "permit" /\ lock[on[k]] = None
        /\ \/ at'[k] \in {"register", "store", "receipts"} /\ session[on[k]] = "open"
           \/ at'[k] = "over"
    BY <1>a, <1>2 DEF Enter
  <2> QED
    BY <2>1
<1>3. CASE k \in Calls /\ LeaveStore(k)
  <2>1. at'[k] \in {"over"}
    BY <1>a, <1>3 DEF LeaveStore
  <2> QED
    BY <1>b, <2>1, <1>3 DEF LeaveStore
<1>4. CASE k \in Calls /\ Register(k)
  <2>1. \/ work' = [work EXCEPT ![k] = "admitted"] /\ at'[k] = "spawn"
        \/ at'[k] = "over"
    BY <1>a, <1>b, <1>4 DEF Register
  <2>2. k \in DOMAIN work /\ at[k] = "register"
    BY <1>b, <1>4 DEF Register, IInv, TypeOK, Work
  <2> QED
    BY <2>1, <2>2
<1>5. CASE k \in Calls /\ Spawn(k)
  <2>1. \/ work' = [work EXCEPT ![k] = "running"] /\ at'[k] = "respond"
        \/ work' = [work EXCEPT ![k] = "unspawned"] /\ at'[k] = "refuse" /\ ~connected
    BY <1>a, <1>5 DEF Spawn
  <2>2. k \in DOMAIN work /\ at[k] = "spawn"
    BY <1>b, <1>5 DEF Spawn, IInv, TypeOK, Work
  <2> QED
    BY <2>1, <2>2
<1>6. CASE k \in Calls /\ Refuse(k)
  <2>1. at'[k] \in {"over"}
    BY <1>a, <1>6 DEF Refuse
  <2> QED
    BY <1>b, <2>1, <1>6 DEF Refuse
<1>7. CASE k \in Calls /\ Respond(k)
  <2>1. at'[k] \in {"over", "look"}
    BY <1>a, <1>7 DEF Respond
  <2> QED
    BY <1>b, <2>1, <1>7 DEF Respond
<1>8. CASE k \in Calls /\ TakeReceipts(k)
  <2>1. at'[k] \in {"admit", "over"}
    BY <1>a, <1>8 DEF TakeReceipts
  <2> QED
    BY <1>b, <2>1, <1>8 DEF TakeReceipts
<1>9. CASE k \in Calls /\ Rejoin(k)
  <2>1. at'[k] \in {"readyLook", "over"}
    BY <1>a, <1>9 DEF Rejoin
  <2> QED
    BY <1>b, <2>1, <1>9 DEF Rejoin
<1>10. CASE k \in Calls /\ Admit(k)
  <2>1. at'[k] \in {"readyLook", "over"}
    BY <1>a, <1>10 DEF Admit
  <2> QED
    BY <1>b, <2>1, <1>10 DEF Admit
<1>11. CASE k \in Calls /\ LookReady(k)
  <2>1. at'[k] \in {"readyPark", "respond", "over"}
    BY <1>a, <1>11 DEF LookReady
  <2> QED
    BY <1>b, <2>1, <1>11 DEF LookReady
<1>12. CASE k \in Calls /\ Steer(k)
  <2>1. at'[k] \in {"over"}
    BY <1>a, <1>12 DEF Steer
  <2> QED
    BY <1>b, <2>1, <1>12 DEF Steer
<1>13. CASE k \in Calls /\ Expire(k)
  <2>1. at'[k] \in {"over"}
    BY <1>a, <1>13 DEF Expire
  <2> QED
    BY <1>b, <2>1, <1>13 DEF Expire
<1>14. CASE k \in Calls /\ Ask(k)
  <2>1. at'[k] \in {"look", "readyLook"}
    BY <1>a, <1>14 DEF Ask
  <2> QED
    BY <1>b, <2>1, <1>14 DEF Ask
<1>15. CASE k \in Calls /\ Lock(k)
  <2>1. at'[k] \in {"runs", "over"}
    BY <1>a, <1>15 DEF Lock
  <2> QED
    BY <1>b, <2>1, <1>15 DEF Lock
<1>16. CASE k \in Calls /\ Rest(k)
  <2>1. at'[k] \in {"release", "over"}
    BY <1>a, <1>16 DEF Rest
  <2> QED
    BY <1>b, <2>1, <1>16 DEF Rest
<1>17. CASE k \in Calls /\ Release(k)
  <2>1. at'[k] \in {"over"}
    BY <1>a, <1>17 DEF Release
  <2> QED
    BY <1>b, <2>1, <1>17 DEF Release
<1>18. CASE k \in Calls /\ DropCall(k)
  <2>1. at'[k] = "over" /\ at[k] # "spawn"
    BY <1>a, <1>18 DEF DropCall, Waits
  <2> QED
    BY <2>1
<1>19. CASE LookSettled(k)
  BY <1>a, <1>b, <1>19 DEF LookSettled
<1>20. CASE Wake(k)
  BY <1>a, <1>b, <1>20 DEF Wake
<1>21. CASE NextRun(k)
  BY <1>a, <1>b, <1>21 DEF NextRun
<1>22. CASE NextAttempt(k)
  BY <1>a, <1>b, <1>22 DEF NextAttempt
<1>23. CASE Drop(k)
  BY <1>a, <1>b, <1>23 DEF Drop
<1>24. CASE k = Host /\ Fence
  BY <1>a, <1>b, <1>24 DEF Fence
<1>25. CASE k = Host /\ Locks
  BY <1>a, <1>b, <1>25 DEF Locks
<1>26. CASE k = Host /\ CancelAll
  BY <1>a, <1>b, <1>26 DEF CancelAll
<1>27. CASE k = Host /\ HostRest
  BY <1>a, <1>b, <1>27 DEF HostRest
<1>28. CASE k = Host /\ Timeout
  BY <1>a, <1>b, <1>28 DEF Timeout, Calls
<1> QED
  BY <1>1, <1>2, <1>3, <1>4, <1>5, <1>6, <1>7, <1>8, <1>9, <1>10, <1>11, <1>12, <1>13, <1>14, <1>15, <1>16, <1>17, <1>18, <1>19, <1>20, <1>21, <1>22, <1>23, <1>24, <1>25, <1>26, <1>27, <1>28
     DEF ActorStep, CallStep, WaitStep, HostStep

\* What is over stays so.
LEMMA Untouched ==
  ASSUME IInv, NEW k \in Actors, ActorStep(k), NEW w \in Work, work[w] \notin {"free", "admitted"}
  PROVE  work'[w] = work[w]
<1>1. w = k /\ k \in Executes => at[k] # "register" /\ at[k] # "spawn"
  BY DEF IInv, Started
<1>2. w = k /\ k \in Dispatches => at[k] # "admit"
  BY DEF IInv, Started
<1> QED
  BY <1>1, <1>2, ActorWork

LEMMA NoReturn ==
  ASSUME IInv, NEW k \in Actors, ActorStep(k)
  PROVE  at[k] # "over"
<1>a. at[k] = "over" => at[k] \notin Waits
  BY DEF Waits
<1>1. CASE k \in Calls /\ \E s \in Sessions : Begin(k, s)
  BY <1>a, <1>1 DEF Begin
<1>2. CASE k \in Calls /\ Enter(k)
  BY <1>a, <1>2 DEF Enter
<1>3. CASE k \in Calls /\ LeaveStore(k)
  BY <1>a, <1>3 DEF LeaveStore
<1>4. CASE k \in Calls /\ Register(k)
  BY <1>a, <1>4 DEF Register
<1>5. CASE k \in Calls /\ Spawn(k)
  BY <1>a, <1>5 DEF Spawn
<1>6. CASE k \in Calls /\ Refuse(k)
  BY <1>a, <1>6 DEF Refuse
<1>7. CASE k \in Calls /\ Respond(k)
  BY <1>a, <1>7 DEF Respond
<1>8. CASE k \in Calls /\ TakeReceipts(k)
  BY <1>a, <1>8 DEF TakeReceipts
<1>9. CASE k \in Calls /\ Rejoin(k)
  BY <1>a, <1>9 DEF Rejoin, Known
<1>10. CASE k \in Calls /\ Admit(k)
  BY <1>a, <1>10 DEF Admit, Kept, Remembers
<1>11. CASE k \in Calls /\ LookReady(k)
  BY <1>a, <1>11 DEF LookReady
<1>12. CASE k \in Calls /\ Steer(k)
  BY <1>a, <1>12 DEF Steer
<1>13. CASE k \in Calls /\ Expire(k)
  BY <1>a, <1>13 DEF Expire
<1>14. CASE k \in Calls /\ Ask(k)
  BY <1>a, <1>14 DEF Ask
<1>15. CASE k \in Calls /\ Lock(k)
  BY <1>a, <1>15 DEF Lock
<1>16. CASE k \in Calls /\ Rest(k)
  BY <1>a, <1>16 DEF Rest
<1>17. CASE k \in Calls /\ Release(k)
  BY <1>a, <1>17 DEF Release
<1>18. CASE k \in Calls /\ DropCall(k)
  BY <1>a, <1>18 DEF DropCall
<1>19. CASE LookSettled(k)
  BY <1>a, <1>19 DEF LookSettled
<1>20. CASE Wake(k)
  BY <1>a, <1>20 DEF Wake
<1>21. CASE NextRun(k)
  BY <1>a, <1>21 DEF NextRun
<1>22. CASE NextAttempt(k)
  BY <1>a, <1>22 DEF NextAttempt
<1>23. CASE Drop(k)
  BY <1>a, <1>23 DEF Drop
<1>24. CASE k = Host /\ Fence
  BY <1>a, <1>24 DEF Fence
<1>25. CASE k = Host /\ Locks
  BY <1>a, <1>25 DEF Locks
<1>26. CASE k = Host /\ CancelAll
  BY <1>a, <1>26 DEF CancelAll
<1>27. CASE k = Host /\ HostRest
  BY <1>a, <1>27 DEF HostRest
<1>28. CASE k = Host /\ Timeout
  BY <1>28 DEF Timeout, IInv, Roles, Phase, Looks
<1> QED
  BY <1>1, <1>2, <1>3, <1>4, <1>5, <1>6, <1>7, <1>8, <1>9, <1>10, <1>11, <1>12, <1>13, <1>14, <1>15, <1>16, <1>17, <1>18, <1>19, <1>20, <1>21, <1>22, <1>23, <1>24, <1>25, <1>26, <1>27, <1>28
     DEF ActorStep, CallStep, WaitStep, HostStep

\* What it waits for.
LEMMA OwnTarget ==
  ASSUME IInv, NEW k \in Actors, ActorStep(k)
  PROVE  /\ at'[k] \in Looks \cup {"readyLook", "readyPark"} => target'[k] \in Work /\ on[target'[k]] \in Sessions
         /\ k \in Asks /\ at'[k] = "respond" => target'[k] \in Work
         /\ at'[k] = "drop" => at[k] = "look" /\ target'[k] = target[k] /\ Settled(target[k]) /\ UNCHANGED work
<1> USE DEF Goes, Returns, Holds, Awaits, sessions, waiting, Looks
<1>a. /\ at \in [Actors -> Steps] /\ on \in [Calls -> Sessions \cup {None}]
      /\ target \in [Actors -> Work \cup {None}]
      /\ left \in [Actors -> SUBSET (Dispatches \cup Sessions)]
      /\ Calls \subseteq Actors /\ Host \in Actors /\ Host \notin Calls
  BY DEF IInv, TypeOK, Actors
<1>b. /\ at[k] \in {"register", "spawn", "refuse"} => k \in Executes
      /\ at[k] = "store" => k \in Graphs
      /\ at[k] \in {"receipts", "admit"} => k \in Dispatches
      /\ at[k] \in {"lock", "release"} => k \in Closes
      /\ at[k] \in {"runs", "attempts", "rest", "drop"} => k \in Closes \cup {Host}
      /\ at[k] \in {"locks", "cancel", "closed"} => k = Host
      /\ at[k] = "permit" => k \in Executes \cup Graphs \cup Dispatches
      /\ at[k] = "respond" => k \in Executes \cup Dispatches \cup Asks
      /\ at[k] \in {"readyLook", "readyPark"} => k \in Dispatches \cup Asks /\ target[k] \in Work
      /\ at[k] \in {"look", "park", "drop"} => target[k] \in Work
      /\ k \in Calls \ Asks /\ at[k] \notin {"idle", "over"} => on[k] \in Sessions
  BY WhoIs
<1>c. /\ \A a \in tracked : a \in Dispatches /\ on[a] \in Sessions
      /\ \A p \in Scopes : registered[p] # None => registered[p] \in Executes /\ on[registered[p]] \in Sessions
      /\ Executes \subseteq Work /\ Dispatches \subseteq Work
  BY Begun DEF Work
<1>d. /\ at[k] \in Looks \cup {"readyLook", "readyPark"} => target[k] \in Work /\ on[target[k]] \in Sessions
      /\ k \in Asks /\ at[k] = "respond" => target[k] \in Work
      /\ at[k] = "drop" => Settled(target[k])
      /\ at[k] # "locks" => \A a \in left[k] : a \in Dispatches /\ on[a] \in Sessions
  BY DEF IInv, Roles
<1>e. /\ at \in [Actors -> Steps] /\ target \in [Actors -> Work \cup {None}]
      /\ todo \in [Actors -> SUBSET Scopes] /\ left \in [Actors -> SUBSET (Dispatches \cup Sessions)]
      /\ receipts \in [Sessions -> [Keys -> Dispatches \cup {None}]] /\ KeyOf \in [Dispatches -> Keys \cup {None}]
      /\ Asks \cap Dispatches = {} /\ Host \notin Asks /\ Asks \cap Closes = {}
  BY DEF IInv, TypeOK, Calls
<1>1. CASE k \in Calls /\ \E s \in Sessions : Begin(k, s)
  BY <1>a, <1>b, <1>c, <1>d, <1>e, <1>1 DEF Begin
<1>2. CASE k \in Calls /\ Enter(k)
  <2>1. at'[k] \in {"register", "store", "receipts", "over"}
    BY <1>e, <1>2 DEF Enter
  <2> QED
    BY <2>1
<1>3. CASE k \in Calls /\ LeaveStore(k)
  <2>1. at'[k] \in {"over"}
    BY <1>e, <1>3 DEF LeaveStore
  <2> QED
    BY <2>1
<1>4. CASE k \in Calls /\ Register(k)
  <2>1. at'[k] \in {"spawn", "over"}
    BY <1>e, <1>4 DEF Register
  <2> QED
    BY <1>b, <1>e, <2>1, <1>4 DEF Register, Calls
<1>5. CASE k \in Calls /\ Spawn(k)
  <2>1. at'[k] \in {"respond", "refuse"}
    BY <1>e, <1>5 DEF Spawn
  <2> QED
    BY <1>b, <1>e, <2>1, <1>5 DEF Spawn, Calls
<1>6. CASE k \in Calls /\ Refuse(k)
  <2>1. at'[k] \in {"over"}
    BY <1>e, <1>6 DEF Refuse
  <2> QED
    BY <2>1
<1>7. CASE k \in Calls /\ Respond(k)
  <2>1. at'[k] = "over" \/ (at'[k] = "look" /\ target'[k] = k /\ k \notin Executes)
    BY <1>a, <1>e, <1>7 DEF Respond
  <2>2. k \in Dispatches \cup Executes /\ k \notin Asks /\ on[k] \in Sessions
    BY <1>b, <1>7 DEF Respond
  <2> QED
    BY <1>c, <2>1, <2>2
<1>8. CASE k \in Calls /\ TakeReceipts(k)
  <2>1. at'[k] \in {"admit", "over"}
    BY <1>e, <1>8 DEF TakeReceipts
  <2> QED
    BY <2>1
<1>9. CASE k \in Calls /\ Rejoin(k)
  <2>1. at'[k] = "over" \/ (at'[k] = "readyLook" /\ target'[k] \in tracked)
    BY <1>a, <1>e, <1>9 DEF Rejoin
  <2> QED
    BY <1>c, <2>1
<1>10. CASE k \in Calls /\ Admit(k)
  <2>1. at'[k] = "over" \/ (at'[k] = "readyLook" /\ target'[k] = k)
    BY <1>a, <1>e, <1>10 DEF Admit
  <2>2. k \in Dispatches /\ on[k] \in Sessions
    BY <1>b, <1>e, <1>10 DEF Admit
  <2> QED
    BY <1>c, <2>1, <2>2
<1>11. CASE k \in Calls /\ LookReady(k)
  <2>1. at'[k] = "over" \/ (at'[k] \in {"respond", "readyPark"} /\ target' = target)
    BY <1>a, <1>e, <1>11 DEF LookReady
  <2>2. at[k] = "readyLook"
    BY <1>11 DEF LookReady
  <2> QED
    BY <1>d, <2>1, <2>2
<1>12. CASE k \in Calls /\ Steer(k)
  <2>1. at'[k] \in {"over"}
    BY <1>e, <1>12 DEF Steer
  <2> QED
    BY <2>1
<1>13. CASE k \in Calls /\ Expire(k)
  <2>1. at'[k] \in {"over"}
    BY <1>e, <1>13 DEF Expire
  <2> QED
    BY <2>1
<1>14. CASE k \in Calls /\ Ask(k)
  <2>1. at'[k] \in {"readyLook", "look"} /\ target'[k] \in tracked
    BY <1>a, <1>e, <1>14 DEF Ask
  <2> QED
    BY <1>c, <2>1
<1>15. CASE k \in Calls /\ Lock(k)
  <2>1. at'[k] \in {"runs", "over"}
    BY <1>e, <1>15 DEF Lock
  <2> QED
    BY <2>1
<1>16. CASE k \in Calls /\ Rest(k)
  <2>1. at'[k] \in {"release", "over"}
    BY <1>e, <1>16 DEF Rest
  <2> QED
    BY <2>1
<1>17. CASE k \in Calls /\ Release(k)
  <2>1. at'[k] \in {"over"}
    BY <1>e, <1>17 DEF Release
  <2> QED
    BY <2>1
<1>18. CASE k \in Calls /\ DropCall(k)
  <2>1. at'[k] \in {"over"}
    BY <1>e, <1>18 DEF DropCall
  <2> QED
    BY <2>1
<1>19. CASE LookSettled(k)
  <2>1. \/ at'[k] \in {"over", "idle"}
        \/ at'[k] = "drop" /\ target' = target /\ Settled(target[k])
        \/ at'[k] = "park" /\ target' = target
    BY <1>a, <1>e, <1>19 DEF LookSettled
  <2>2. at[k] = "look" /\ UNCHANGED work
    BY <1>19 DEF LookSettled
  <2> QED
    BY <1>d, <2>1, <2>2
<1>20. CASE Wake(k)
  <2>1. at'[k] \in {"readyLook", "look"} /\ target' = target /\ at[k] \in {"readyPark", "park"}
    BY <1>a, <1>e, <1>20 DEF Wake
  <2> QED
    BY <1>d, <2>1
<1>21. CASE NextRun(k)
  <2>1. \/ at'[k] \in {"runs", "attempts"}
        \/ at'[k] = "look" /\ \E p \in todo[k] : target'[k] = registered[p] /\ registered[p] # None
    BY <1>a, <1>e, <1>21 DEF NextRun, Vacant
  <2> QED
    BY <1>c, <1>e, <2>1
<1>22. CASE NextAttempt(k)
  <2>1. \/ at'[k] \in {"rest", "attempts"}
        \/ at'[k] = "look" /\ target'[k] \in left[k]
    BY <1>a, <1>e, <1>22 DEF NextAttempt
  <2>2. at[k] = "attempts"
    BY <1>22 DEF NextAttempt
  <2> QED
    BY <1>c, <1>d, <2>1, <2>2
<1>23. CASE Drop(k)
  <2>1. at'[k] \in {"runs", "attempts"}
    BY <1>e, <1>23 DEF Drop
  <2> QED
    BY <2>1
<1>24. CASE k = Host /\ Fence
  <2>1. at'[k] \in {"locks"}
    BY <1>e, <1>24 DEF Fence
  <2> QED
    BY <2>1
<1>25. CASE k = Host /\ Locks
  <2>1. at'[k] \in {"locks", "cancel"}
    BY <1>e, <1>25 DEF Locks
  <2> QED
    BY <2>1
<1>26. CASE k = Host /\ CancelAll
  <2>1. at'[k] \in {"runs"}
    BY <1>e, <1>26 DEF CancelAll
  <2> QED
    BY <2>1
<1>27. CASE k = Host /\ HostRest
  <2>1. at'[k] \in {"idle", "closed"}
    BY <1>e, <1>27 DEF HostRest
  <2> QED
    BY <2>1
<1>28. CASE k = Host /\ Timeout
  <2>1. at'[k] \in {"idle"}
    BY <1>e, <1>28 DEF Timeout
  <2> QED
    BY <2>1
<1> QED
  BY <1>1, <1>2, <1>3, <1>4, <1>5, <1>6, <1>7, <1>8, <1>9, <1>10, <1>11, <1>12, <1>13, <1>14, <1>15, <1>16, <1>17, <1>18, <1>19, <1>20, <1>21, <1>22, <1>23, <1>24, <1>25, <1>26, <1>27, <1>28
     DEF ActorStep, CallStep, WaitStep, HostStep

LEMMA OwnLeft ==
  ASSUME IInv, NEW k \in Actors, ActorStep(k)
  PROVE  at'[k] # "locks" => \A a \in left'[k] : a \in Dispatches /\ on[a] \in Sessions
<1> USE DEF Goes, Returns, Holds, Awaits, sessions, waiting
<1>a. /\ at \in [Actors -> Steps] /\ on \in [Calls -> Sessions \cup {None}]
      /\ target \in [Actors -> Work \cup {None}]
      /\ left \in [Actors -> SUBSET (Dispatches \cup Sessions)]
      /\ Calls \subseteq Actors /\ Host \in Actors /\ Host \notin Calls
  BY DEF IInv, TypeOK, Actors
<1>b. /\ at[k] \in {"register", "spawn", "refuse"} => k \in Executes
      /\ at[k] = "store" => k \in Graphs
      /\ at[k] \in {"receipts", "admit"} => k \in Dispatches
      /\ at[k] \in {"lock", "release"} => k \in Closes
      /\ at[k] \in {"runs", "attempts", "rest", "drop"} => k \in Closes \cup {Host}
      /\ at[k] \in {"locks", "cancel", "closed"} => k = Host
      /\ at[k] = "permit" => k \in Executes \cup Graphs \cup Dispatches
      /\ at[k] = "respond" => k \in Executes \cup Dispatches \cup Asks
      /\ at[k] \in {"readyLook", "readyPark"} => k \in Dispatches \cup Asks /\ target[k] \in Work
      /\ at[k] \in {"look", "park", "drop"} => target[k] \in Work
      /\ k \in Calls \ Asks /\ at[k] \notin {"idle", "over"} => on[k] \in Sessions
  BY WhoIs
<1>c. /\ \A a \in tracked : a \in Dispatches /\ on[a] \in Sessions
      /\ \A p \in Scopes : registered[p] # None => registered[p] \in Executes /\ on[registered[p]] \in Sessions
      /\ Executes \subseteq Work /\ Dispatches \subseteq Work
  BY Begun DEF Work
<1>d. /\ k \in Asks /\ at[k] = "respond" => target[k] \in Work
      /\ at[k] = "drop" => Settled(target[k])
      /\ at[k] # "locks" => \A a \in left[k] : a \in Dispatches /\ on[a] \in Sessions
  BY DEF IInv, Roles
<1>e. /\ at \in [Actors -> Steps] /\ target \in [Actors -> Work \cup {None}]
      /\ todo \in [Actors -> SUBSET Scopes] /\ left \in [Actors -> SUBSET (Dispatches \cup Sessions)]
      /\ receipts \in [Sessions -> [Keys -> Dispatches \cup {None}]] /\ KeyOf \in [Dispatches -> Keys \cup {None}]
      /\ Asks \cap Dispatches = {} /\ Host \notin Asks /\ Asks \cap Closes = {}
  BY DEF IInv, TypeOK, Calls
<1>1. CASE k \in Calls /\ \E s \in Sessions : Begin(k, s)
  BY <1>a, <1>b, <1>c, <1>d, <1>e, <1>1 DEF Begin
<1>2. CASE k \in Calls /\ Enter(k)
  BY <1>a, <1>b, <1>c, <1>d, <1>e, <1>2 DEF Enter
<1>3. CASE k \in Calls /\ LeaveStore(k)
  BY <1>a, <1>b, <1>c, <1>d, <1>e, <1>3 DEF LeaveStore
<1>4. CASE k \in Calls /\ Register(k)
  BY <1>a, <1>b, <1>c, <1>d, <1>e, <1>4 DEF Register
<1>5. CASE k \in Calls /\ Spawn(k)
  BY <1>a, <1>b, <1>c, <1>d, <1>e, <1>5 DEF Spawn
<1>6. CASE k \in Calls /\ Refuse(k)
  BY <1>a, <1>b, <1>c, <1>d, <1>e, <1>6 DEF Refuse
<1>7. CASE k \in Calls /\ Respond(k)
  <2>1. (left' = left \/ left'[k] = {}) /\ at[k] # "locks"
    BY <1>e, <1>7 DEF Respond
  <2> QED
    BY <1>d, <2>1
<1>8. CASE k \in Calls /\ TakeReceipts(k)
  BY <1>a, <1>b, <1>c, <1>d, <1>e, <1>8 DEF TakeReceipts
<1>9. CASE k \in Calls /\ Rejoin(k)
  BY <1>a, <1>b, <1>c, <1>d, <1>e, <1>9 DEF Rejoin, Known
<1>10. CASE k \in Calls /\ Admit(k)
  BY <1>a, <1>b, <1>c, <1>d, <1>e, <1>10 DEF Admit, Kept, Remembers
<1>11. CASE k \in Calls /\ LookReady(k)
  BY <1>a, <1>b, <1>c, <1>d, <1>e, <1>11 DEF LookReady
<1>12. CASE k \in Calls /\ Steer(k)
  BY <1>a, <1>b, <1>c, <1>d, <1>e, <1>12 DEF Steer
<1>13. CASE k \in Calls /\ Expire(k)
  BY <1>a, <1>b, <1>c, <1>d, <1>e, <1>13 DEF Expire
<1>14. CASE k \in Calls /\ Ask(k)
  BY <1>a, <1>b, <1>c, <1>d, <1>e, <1>14 DEF Ask
<1>15. CASE k \in Calls /\ Lock(k)
  BY <1>a, <1>b, <1>c, <1>d, <1>e, <1>15 DEF Lock
<1>16. CASE k \in Calls /\ Rest(k)
  BY <1>a, <1>b, <1>c, <1>d, <1>e, <1>16 DEF Rest
<1>17. CASE k \in Calls /\ Release(k)
  BY <1>a, <1>b, <1>c, <1>d, <1>e, <1>17 DEF Release
<1>18. CASE k \in Calls /\ DropCall(k)
  BY <1>a, <1>b, <1>c, <1>d, <1>e, <1>18 DEF DropCall, Waits
<1>19. CASE LookSettled(k)
  BY <1>a, <1>b, <1>c, <1>d, <1>e, <1>19 DEF LookSettled
<1>20. CASE Wake(k)
  BY <1>a, <1>b, <1>c, <1>d, <1>e, <1>20 DEF Wake
<1>21. CASE NextRun(k)
  BY <1>a, <1>b, <1>c, <1>d, <1>e, <1>21 DEF NextRun
<1>22. CASE NextAttempt(k)
  <2>1. left' = left \/ left'[k] \subseteq tracked
    BY <1>e, <1>22 DEF NextAttempt
  <2>2. at[k] = "attempts"
    BY <1>22 DEF NextAttempt
  <2> QED
    BY <1>c, <1>d, <2>1, <2>2
<1>23. CASE Drop(k)
  BY <1>a, <1>b, <1>c, <1>d, <1>e, <1>23 DEF Drop
<1>24. CASE k = Host /\ Fence
  <2>1. at'[k] \in {"locks"}
    BY <1>e, <1>24 DEF Fence
  <2> QED
    BY <2>1
<1>25. CASE k = Host /\ Locks
  <2>1. at'[k] = "locks" \/ (left' = left /\ left[k] = {})
    BY <1>e, <1>25 DEF Locks
  <2> QED
    BY <2>1
<1>26. CASE k = Host /\ CancelAll
  BY <1>a, <1>b, <1>c, <1>d, <1>e, <1>26 DEF CancelAll
<1>27. CASE k = Host /\ HostRest
  BY <1>a, <1>b, <1>c, <1>d, <1>e, <1>27 DEF HostRest
<1>28. CASE k = Host /\ Timeout
  BY <1>a, <1>b, <1>c, <1>d, <1>e, <1>28 DEF Timeout
<1> QED
  BY <1>1, <1>2, <1>3, <1>4, <1>5, <1>6, <1>7, <1>8, <1>9, <1>10, <1>11, <1>12, <1>13, <1>14, <1>15, <1>16, <1>17, <1>18, <1>19, <1>20, <1>21, <1>22, <1>23, <1>24, <1>25, <1>26, <1>27, <1>28
     DEF ActorStep, CallStep, WaitStep, HostStep

LEMMA ActorRoles ==
  ASSUME IInv, NEW k \in Actors, ActorStep(k)
  PROVE  Roles'
<1>a. /\ Calls \subseteq Actors /\ Host \in Actors /\ Host \notin Calls /\ Work \subseteq Calls
      /\ Executes \subseteq Calls /\ Graphs \subseteq Calls /\ Dispatches \subseteq Calls
      /\ Asks \subseteq Calls /\ Closes \subseteq Calls
  BY DEF Actors, Calls, Work
<1>b. Roles
  BY DEF IInv
<1>c. /\ \A o \in Actors \ {k} : at'[o] = at[o] /\ target'[o] = target[o] /\ left'[o] = left[o]
      /\ \A o \in Calls \ {k} : on'[o] = on[o]
  BY ActorFrame
<1>d. k \in Calls /\ on'[k] # on[k] => at[k] = "idle" /\ on'[k] \in Sessions /\ k \notin Asks
  BY ActorOn
<1>e. \A w \in Calls : on[w] \in Sessions => on'[w] = on[w]
  BY <1>b, <1>c, <1>d DEF Roles
<1>1. /\ \A e \in Executes :
           at'[e] \in {"idle", "over", "permit", "register", "spawn", "refuse", "respond"}
      /\ \A g \in Graphs : at'[g] \in {"idle", "over", "permit", "store"}
      /\ \A d \in Dispatches :
           at'[d] \in {"idle", "over", "permit", "receipts", "admit", "readyLook", "readyPark", "respond",
                     "look", "park"}
      /\ \A j \in Asks : at'[j] \in {"idle", "over", "readyLook", "readyPark", "respond", "look", "park"}
      /\ \A c \in Closes : at'[c] \in {"idle", "over", "lock", "release"} \cup Phase
      /\ at'[Host] \in {"idle", "locks", "cancel", "closed"} \cup Phase
  <2>1. ASSUME NEW o \in Actors, o # k
        PROVE  at'[o] = at[o]
    BY <1>c, <2>1
  <2> QED
    BY <1>a, <1>b, <2>1, OwnStep DEF Roles
<1>2. \A c \in Calls \ Asks : at'[c] \notin {"idle", "over"} => on'[c] \in Sessions
  <2>1. ASSUME NEW c \in Calls \ Asks, at'[c] \notin {"idle", "over"}, c = k
        PROVE  on'[c] \in Sessions
    <3>1. CASE on'[k] # on[k]
      BY <1>d, <2>1, <3>1
    <3>2. CASE on'[k] = on[k]
      <4>1. at[k] \notin {"idle", "over"} => on[k] \in Sessions
        BY <1>b, <2>1 DEF Roles
      <4>2. at[k] # "idle"
        BY <2>1, ActorOn, <3>2, <1>a, <1>b DEF Roles
      <4>3. at[k] # "over"
        BY <2>1, NoReturn
      <4> QED
        BY <2>1, <3>2, <4>1, <4>2, <4>3
    <3> QED
      BY <3>1, <3>2
  <2>2. ASSUME NEW c \in Calls \ Asks, at'[c] \notin {"idle", "over"}, c # k
        PROVE  on'[c] \in Sessions
    BY <1>a, <1>b, <1>c, <2>2 DEF Roles
  <2> QED
    BY <2>1, <2>2
<1>3. \A c \in Calls : at'[c] = "idle" => on'[c] = None
  <2>1. k \in Calls => at'[k] # "idle"
    BY <1>a, OwnWay
  <2> QED
    BY <1>a, <1>b, <1>c, <2>1 DEF Roles
<1>4. \A o \in Actors : at'[o] \in Looks \cup {"readyLook", "readyPark"} => target'[o] \in Work /\ on'[target'[o]] \in Sessions
  <2>1. \A o \in Actors : at'[o] \in Looks \cup {"readyLook", "readyPark"} => target'[o] \in Work /\ on[target'[o]] \in Sessions
    BY <1>b, <1>c, OwnTarget DEF Roles
  <2> QED
    BY <1>a, <1>e, <2>1
<1>5. \A j \in Asks : at'[j] = "respond" => target'[j] \in Work
  BY <1>a, <1>b, <1>c, OwnTarget DEF Roles
<1>6. \A o \in Actors : at'[o] = "drop" => Settled(target[o])'
  <2>1. ASSUME NEW o \in Actors, at'[o] = "drop"
        PROVE  Settled(target[o])'
    <3>1. target'[o] \in Work /\ Settled(target'[o])
      BY <1>b, <1>c, <2>1, OwnTarget DEF Roles, Looks
    <3>2. work'[target'[o]] = work[target'[o]]
      <4>1. work[target'[o]] # "free"
        BY <3>1 DEF Settled
      <4>2. work[target'[o]] # "admitted"
        BY <3>1 DEF Settled
      <4> QED
        BY <3>1, <4>1, <4>2, Untouched
    <3> QED
      BY <3>1, <3>2 DEF Settled
  <2> QED
    BY <2>1
<1>7. \A o \in Actors : at'[o] # "locks" => \A a \in left'[o] : a \in Dispatches /\ on'[a] \in Sessions
  <2>1. \A o \in Actors : at'[o] # "locks" => \A a \in left'[o] : a \in Dispatches /\ on[a] \in Sessions
    BY <1>b, <1>c, OwnLeft DEF Roles
  <2> QED
    BY <1>a, <1>e, <2>1
<1> QED
  BY <1>1, <1>2, <1>3, <1>4, <1>5, <1>6, <1>7 DEF Roles

\* A scope that is dropped from its map has nobody at work: a close goes by
\* the execution it has waited for, and so does the drain.
LEMMA Dropping ==
  ASSUME IInv, NEW k \in Actors, at[k] = "drop", target[k] \in Executes, Settled(target[k]),
         NEW e \in Executes, ~Settled(e), Scope(e) \in Scopes, Scope(e) \notin again,
         registered[Scope(e)] = e
  PROVE  Scope(target[k]) # Scope(e)
<1>1. SUFFICES ASSUME Scope(target[k]) = Scope(e)
               PROVE  FALSE
  OBVIOUS
<1>2. k \in Closes \cup {Host}
  BY WhoIs
<1>3. e # None
  BY DEF Actors, Calls
<1>4. CASE k \in Closes
  <2>1. Scope(target[k]) = Scope(k)
    BY <1>4 DEF IInv, Locking, OnRuns, Looks
  <2>2. registered[Scope(k)] \in {target[k], None}
    BY <1>1, <1>4, <2>1 DEF IInv, Closers, OnRuns, Looks, Phase
  <2> QED
    BY <1>1, <1>3, <2>1, <2>2
<1>5. CASE k = Host
  <2>1. registered[Scope(target[Host])] \in {target[Host], None}
    BY <1>5 DEF IInv, Drained, OnRuns, Looks
  <2> QED
    BY <1>1, <1>3, <1>5, <2>1
<1> QED
  BY <1>2, <1>4, <1>5

-----------------------------------------------------------------------------
(* What a request has started, and what is in the maps.                    *)

\* The Session of a request stays its Session.
LEMMA StaysOn ==
  ASSUME IInv, NEW k \in Actors, ActorStep(k)
  PROVE  /\ \A c \in Calls : on[c] \in Sessions => on'[c] = on[c]
         /\ \A c \in Calls : on'[c] # on[c] =>
              /\ c = k /\ at[k] = "idle" /\ ~fenced /\ on'[c] \in Sessions
              /\ session[on'[c]] \in {"open", "closing", "freed"} /\ UNCHANGED work
              /\ at'[k] = IF k \in Closes THEN "lock" ELSE "permit"
<1>1. \A c \in Calls \ {k} : on'[c] = on[c]
  BY ActorFrame
<1>2. k \in Calls /\ on'[k] # on[k] =>
        /\ at[k] = "idle" /\ ~fenced /\ on'[k] \in Sessions
        /\ session[on'[k]] \in {"open", "closing", "freed"} /\ UNCHANGED work
        /\ at'[k] = IF k \in Closes THEN "lock" ELSE "permit"
  BY ActorOn
<1>3. k \in Calls /\ at[k] = "idle" => on[k] = None
  BY DEF IInv, Roles
<1> QED
  BY <1>1, <1>2, <1>3

LEMMA ActorStarted ==
  ASSUME IInv, NEW k \in Actors, ActorStep(k)
  PROVE  Started'
<1>a. /\ Calls \subseteq Actors /\ Work \subseteq Calls /\ Executes \subseteq Work /\ Dispatches \subseteq Work
      /\ Executes \cap Dispatches = {} /\ Executes \cap Asks = {} /\ Dispatches \cap Asks = {}
  BY DEF Actors, Calls, Work
<1>b. Started /\ Roles
  BY DEF IInv
<1>c. \A o \in Actors \ {k} : at'[o] = at[o]
  BY ActorFrame
<1>d. \A c \in Calls : on[c] \in Sessions => on'[c] = on[c]
  BY StaysOn
<1>e. \A w \in Work \ {k} : work'[w] = work[w]
  BY ActorWork
<1>1. \A w \in Work : work'[w] # "free" => on'[w] \in Sessions
  <2>1. ASSUME NEW w \in Work, work'[w] # "free"
        PROVE  on[w] \in Sessions
    <3>1. CASE work'[w] = work[w]
      BY <1>b, <2>1, <3>1 DEF Started
    <3>2. CASE work'[w] # work[w]
      <4>1. w = k /\ at[k] \in {"register", "spawn", "admit"} /\ w \in Calls \ Asks
        BY <1>a, <3>2, <2>1, ActorWork
      <4> QED
        BY <1>b, <4>1 DEF Roles
    <3> QED
      BY <3>1, <3>2
  <2> QED
    BY <1>a, <1>d, <2>1
<1>2. ASSUME NEW e \in Executes
      PROVE  /\ at'[e] \in {"idle", "permit", "register"} => work'[e] = "free"
             /\ at'[e] = "spawn" <=> work'[e] = "admitted"
  <2>1. CASE e # k
    BY <1>a, <1>b, <1>c, <1>e, <2>1 DEF Started
  <2>2. CASE e = k
    <3>1. at'[k] \in {"idle", "permit", "register"} => work'[k] = "free"
      <4>1. ASSUME at'[k] \in {"idle", "permit", "register"}
            PROVE  work'[k] = "free"
        <5>1. at[k] \in {"idle", "permit"}
          BY <1>a, <2>2, <4>1, OwnWay DEF Actors
        <5>2. work[k] = "free"
          BY <1>b, <2>2, <5>1 DEF Started
        <5> QED
          BY <1>a, <2>2, <5>1, <5>2, ActorWork
      <4> QED
        BY <4>1
    <3>2. at'[k] = "spawn" => work'[k] = "admitted"
      BY OwnWay
    <3>3. ASSUME work'[k] = "admitted"
          PROVE  at'[k] = "spawn"
      <4>1. CASE work'[k] = work[k]
        <5>1. at[k] = "spawn"
          BY <1>b, <2>2, <3>3, <4>1 DEF Started
        <5> QED
          BY <3>3, <5>1, OwnWay
      <4>2. CASE work'[k] # work[k]
        BY <1>a, <2>2, <3>3, <4>2, ActorWork
      <4> QED
        BY <4>1, <4>2
    <3> QED
      BY <2>2, <3>1, <3>2, <3>3
  <2> QED
    BY <2>1, <2>2
<1>3. ASSUME NEW d \in Dispatches, at'[d] \in {"idle", "permit", "receipts", "admit"}
      PROVE  work'[d] = "free"
  <2>1. CASE d # k
    BY <1>a, <1>b, <1>c, <1>e, <1>3, <2>1 DEF Started
  <2>2. CASE d = k
    <3>1. at[k] \in {"idle", "permit", "receipts"}
      BY <1>a, <1>3, <2>2, OwnWay DEF Actors
    <3>2. work[k] = "free"
      BY <1>b, <2>2, <3>1 DEF Started
    <3> QED
      BY <1>a, <2>2, <3>1, <3>2, ActorWork
  <2> QED
    BY <2>1, <2>2
<1>4. ASSUME NEW d \in Dispatches, work'[d] # "free", KeyOf[d] # None
      PROVE  receipts'[on'[d]][KeyOf[d]] = d
  <2>1. KeyOf[d] \in Keys /\ d # None
    BY <1>4, <1>a DEF Actors
  <2>2. CASE work'[d] = work[d]
    <3>1. on[d] \in Sessions /\ receipts[on[d]][KeyOf[d]] = d /\ on'[d] = on[d]
      BY <1>a, <1>b, <1>d, <1>4, <2>2 DEF Started
    <3> QED
      BY <2>1, <3>1, ActorTells
  <2>3. CASE work'[d] # work[d]
    <3>1. d = k /\ at[k] = "admit" /\ receipts'[on[k]][KeyOf[k]] = k
      BY <1>a, <1>4, <2>3, ActorWork
    <3>2. on[k] \in Sessions
      BY <1>a, <1>b, <3>1 DEF Roles
    <3> QED
      BY <1>a, <1>d, <3>1, <3>2
  <2> QED
    BY <2>2, <2>3
<1> QED
  BY <1>1, <1>2, <1>3, <1>4 DEF Started

\* Whoever holds a permit is served.
LEMMA Reads ==
  ASSUME IInv, NEW c \in Calls, at[c] \in {"register", "spawn", "refuse", "admit", "store", "receipts"}
  PROVE  /\ on[c] \in Sessions /\ c \in Readers(on[c])
         /\ Serving(on[c]) /\ lock[on[c]] = None /\ Scope(c) \in Scopes
<1>1. c \notin Asks \cup Closes
  BY DEF IInv, Roles, Phase, Looks
<1>2. on[c] \in Sessions
  BY <1>1 DEF IInv, Roles
<1>3. c \in Readers(on[c])
  BY <1>1 DEF Readers
<1> QED
  BY <1>2, <1>3 DEF IInv, Served, Scope

LEMMA ActorMapped ==
  ASSUME IInv, NEW k \in Actors, ActorStep(k)
  PROVE  Mapped'
<1>a. /\ Calls \subseteq Actors /\ Work \subseteq Calls /\ Executes \subseteq Work /\ Dispatches \subseteq Work
      /\ Executes \cap Dispatches = {} /\ None \notin Work
  BY DEF Actors, Calls, Work
<1>b. Mapped /\ Started /\ Roles
  BY DEF IInv
<1>d. \A c \in Calls : on[c] \in Sessions => on'[c] = on[c]
  BY StaysOn
<1>e. \A w \in Work \ {k} : work'[w] = work[w]
  BY ActorWork
<1>1. IsFiniteSet(tracked')
  BY ActorFits
<1>2. ASSUME NEW p \in Scopes, registered'[p] # None
      PROVE  on'[registered'[p]] \in Sessions /\ Scope(registered[p])' = p
  <2>1. CASE registered'[p] = registered[p]
    <3>1. registered[p] \in Executes /\ on[registered[p]] \in Sessions /\ Scope(registered[p]) = p
      BY <1>2, <2>1, Begun
    <3> QED
      BY <1>a, <1>d, <2>1, <3>1 DEF Scope
  <2>2. CASE registered'[p] # registered[p]
    <3>1. registered'[p] = k /\ k \in Executes /\ on[k] \in Sessions /\ Scope(k) = p
      BY <1>2, <2>2, ActorRegistered
    <3> QED
      BY <1>a, <1>d, <3>1 DEF Scope
  <2> QED
    BY <2>1, <2>2
<1>3. ASSUME NEW e \in Executes, Occupies(e)', Scope(e)' \notin again'
      PROVE  registered'[Scope(e)'] = e
  <2>1. work'[e] # "free" /\ work'[e] # "unspawned"
    BY <1>3 DEF Occupies, Live
  <2>2. CASE work'[e] = work[e]
    <3>1. Occupies(e) /\ on[e] \in Sessions
      BY <1>a, <1>b, <1>3, <2>1, <2>2 DEF Occupies, Live, Started
    <3>2. Scope(e)' = Scope(e) /\ Scope(e) \notin again /\ Scope(e) \in Scopes
      BY <1>a, <1>d, <3>1, <1>3, ActorFates DEF Scope
    <3>3. registered[Scope(e)] = e
      BY <1>b, <3>1, <3>2 DEF Mapped
    <3>4. ~(at[k] = "drop" /\ target[k] \in Executes /\ Scope(target[k]) = Scope(e) /\ UNCHANGED work)
      <4>1. at[k] = "drop" => Settled(target[k])
        BY <1>b DEF Roles
      <4>2. ~Settled(e)
        BY <3>1 DEF Occupies, Live, Settled
      <4>3. at[k] = "drop" /\ target[k] \in Executes => ~(Scope(target[k]) = Scope(e))
        BY <4>1, <4>2, <3>2, <3>3, Dropping
      <4> QED
        BY <4>3
    <3>5. ~(k \in Executes /\ at[k] = "spawn" /\ Scope(k) = Scope(e) /\ work'[k] = "unspawned")
      <4>1. ASSUME k \in Executes, at[k] = "spawn", Scope(k) = Scope(e)
            PROVE  k = e
        <5>1. Occupies(k)
          BY <1>b, <4>1 DEF Started, Occupies
        <5> QED
          BY <1>b, <3>2, <3>3, <4>1, <5>1 DEF Mapped
      <4> QED
        BY <2>1, <4>1
    <3>6. e # None
      BY <1>a
    <3> QED
      BY <3>2, <3>3, <3>4, <3>5, <3>6, ActorRegistered
  <2>3. CASE work'[e] # work[e]
    <3>1. e = k /\ on[e] \in Sessions /\ at[e] \in {"register", "spawn"} /\ Scope(e)' = Scope(e)
      <4>1. e = k /\ at[e] \in {"register", "spawn"}
        BY <1>a, <2>3, ActorWork
      <4>2. on[e] \in Sessions
        BY <1>a, <4>1, Reads
      <4> QED
        BY <1>a, <1>d, <4>1, <4>2 DEF Scope
    <3>2. CASE at[e] = "register"
      BY <1>a, <2>1, <2>3, <3>1, <3>2, ActorWork
    <3>3. CASE at[e] = "spawn"
      <4>1. registered[Scope(e)] = e
        <5>1. Occupies(e) /\ Scope(e) \notin again
          BY <1>b, <1>3, <3>1, <3>3, ActorFates DEF Occupies, Started
        <5> QED
          BY <1>b, <5>1 DEF Mapped
      <4>2. Scope(e) \in Scopes
        BY <3>1 DEF Scope
      <4> QED
        BY <1>a, <2>1, <3>1, <3>3, <4>1, <4>2, ActorRegistered
    <3> QED
      BY <3>1, <3>2, <3>3
  <2> QED
    BY <2>2, <2>3
<1>4. \A a \in tracked' : work'[a] # "free"
  <2>1. ASSUME NEW a \in tracked'
        PROVE  work'[a] # "free"
    <3>1. CASE a \in tracked
      <4>1. work[a] # "free" /\ a \in Work
        BY <1>a, <3>1, Begun
      <4> QED
        BY <4>1, ActorWork
    <3>2. CASE a \notin tracked
      BY <2>1, <3>2, ActorTracked
    <3> QED
      BY <3>1, <3>2
  <2> QED
    BY <2>1
<1>5. ASSUME NEW a \in Dispatches, Submitted(a)'
      PROVE  a \in tracked'
  <2>1. CASE work'[a] = work[a]
    <3>1. a \in tracked /\ ~Settled(a)
      BY <1>b, <1>5, <2>1 DEF Mapped, Submitted, Live, Settled
    <3> QED
      BY <3>1, ActorTracked
  <2>2. CASE work'[a] # work[a]
    BY <1>a, <2>2, ActorWork
  <2> QED
    BY <2>1, <2>2
<1> QED
  BY <1>1, <1>2, <1>3, <1>4, <1>5 DEF Mapped

-----------------------------------------------------------------------------
(* Who is served, and who has locked whom out.                             *)

\* A permit is new only at an open Session that nobody has locked.
LEMMA Permits ==
  ASSUME IInv, NEW k \in Actors, ActorStep(k), NEW s \in Sessions, NEW c, c \in Readers(s)'
  PROVE  \/ c \in Readers(s)
         \/ c = k /\ at[k] = "permit" /\ on[k] = s /\ lock[s] = None /\ session[s] = "open"
<1>a. /\ Calls \subseteq Actors /\ c \in Calls \ (Asks \cup Closes) /\ on'[c] = s
      /\ at'[c] \notin {"idle", "permit", "over"}
  BY DEF Readers, Actors
<1>1. CASE c # k
  BY <1>a, <1>1, ActorFrame DEF Readers
<1>2. CASE c = k
  <2>1. on[k] = s /\ at[k] # "idle"
    BY <1>a, <1>2, ActorOn DEF Actors
  <2>2. at[k] # "over"
    BY NoReturn
  <2>3. CASE at[k] # "permit"
    BY <1>a, <1>2, <2>1, <2>2, <2>3 DEF Readers
  <2>4. CASE at[k] = "permit"
    <3>1. at'[k] \in {"register", "spawn", "refuse", "respond", "store", "receipts", "admit", "readyLook",
                     "readyPark", "look", "park"}
      BY <1>a, <1>2, OwnStep DEF Calls
    <3>2. at'[k] \in {"register", "store", "receipts"}
      BY <1>a, <1>2, <2>4, <3>1, OwnWay DEF Looks
    <3> QED
      BY <1>2, <2>1, <2>4, <3>2, OwnWay
  <2> QED
    BY <2>3, <2>4
<1> QED
  BY <1>1, <1>2

\* A closer that goes through a Session has it locked.
LEMMA Locked ==
  ASSUME IInv, NEW c \in Closes, at[c] \in {"release"} \cup Phase
  PROVE  /\ on[c] \in Sessions /\ lock[on[c]] = c /\ lock[on[c]] # None
         /\ session[on[c]] \in {"closing", "freed"} /\ Readers(on[c]) = {}
         /\ (at[c] \in Phase /\ Scope(c) \notin again => session[on[c]] = "closing")
<1>1. on[c] \in Sessions
  BY DEF IInv, Roles, Calls, Phase, Looks
<1>2. lock[on[c]] = c /\ session[on[c]] \in {"closing", "freed"}
  BY DEF IInv, Locking
<1>3. c # None
  BY DEF Actors, Calls
<1>4. Readers(on[c]) = {}
  BY <1>1, <1>2, <1>3 DEF IInv, Served
<1> QED
  BY <1>1, <1>2, <1>3, <1>4 DEF IInv, Locking

LEMMA ActorServed ==
  ASSUME IInv, NEW k \in Actors, ActorStep(k)
  PROVE  Served'
<1>a. /\ Calls \subseteq Actors /\ Work \subseteq Calls /\ Executes \subseteq Work /\ Dispatches \subseteq Work
      /\ Closes \subseteq Calls /\ Work \cap Closes = {} /\ Host \notin Calls
  BY DEF Actors, Calls, Work
<1>b. Served /\ Locking /\ Closers /\ Started
  BY DEF IInv
<1>c. session \in [Sessions -> {"absent", "open", "closing", "freed", "released"}]
  BY DEF IInv, TypeOK
<1>1. \A s \in Sessions : Serving(s)' => Serving(s)
  BY <1>c, ActorFates DEF Serving
<1>2. \A s, n \in Sessions : Serving(s)' /\ Serving(n)' /\ ScopeOf[s] = ScopeOf[n] => s = n
  BY <1>1, <1>b DEF Served
<1>3. ASSUME NEW s \in Sessions, Readers(s)' # {}
      PROVE  Serving(s)' /\ lock'[s] = None
  <2>1. PICK c : c \in Readers(s)'
    BY <1>3
  <2>2. CASE c \in Readers(s)
    <3>1. Serving(s) /\ lock[s] = None
      BY <1>b, <2>2 DEF Served
    <3>2. ~(k \in Closes /\ at[k] \in {"rest", "release"} /\ on[k] = s)
      BY <3>1, Locked DEF Phase
    <3>3. Serving(s)'
      BY <3>1, <3>2, ActorFates DEF Serving
    <3>4. Readers(s) # {}
      BY <2>2
    <3> QED
      BY <3>1, <3>3, <3>4, ActorLock
  <2>3. CASE c = k /\ at[k] = "permit" /\ on[k] = s /\ lock[s] = None /\ session[s] = "open"
    <3>1. Serving(s)'
      BY <2>3, ActorFates DEF Serving
    <3>2. k \notin Closes
      BY <2>3 DEF IInv, Roles, Phase, Looks
    <3> QED
      BY <2>3, <3>1, <3>2, ActorLock
  <2> QED
    BY <2>1, <2>2, <2>3, Permits
<1>4. fenced' => \A s \in Sessions : session'[s] # "open"
  BY <1>b, <1>c, ActorFates DEF Served
<1>5. ASSUME NEW s \in Sessions, session'[s] = "released", ScopeOf[s] \notin again',
             NEW w \in Work, on'[w] = s
      PROVE  ~Live(w)'
  <2>0. ScopeOf[s] \notin again
    BY <1>5, ActorFates
  <2>1. CASE session[s] # "released"
    <3>1. at[k] = "release" /\ k \in Closes /\ on[k] = s /\ UNCHANGED work
      BY <1>5, <2>1, ActorFates
    <3>2. on[w] = s
      <4>1. at[k] # "idle"
        BY <3>1
      <4> QED
        BY <1>a, <1>5, <4>1, StaysOn
    <3>3. ~Live(w)
      BY <1>b, <2>0, <3>1, <3>2 DEF Closers, Scope
    <3> QED
      BY <3>1, <3>3 DEF Live
  <2>2. CASE session[s] = "released"
    <3>1. on[w] = s
      BY <1>a, <1>5, <2>2, StaysOn
    <3>2. ~Live(w)
      BY <1>b, <2>0, <2>2, <3>1 DEF Served
    <3>3. work'[w] = work[w]
      <4>1. ~Serving(s)
        BY <2>2 DEF Serving
      <4>2. ~(w = k /\ at[k] \in {"register", "spawn", "admit"})
        BY <1>a, <3>1, <4>1, Reads
      <4> QED
        BY <4>2, ActorWork
    <3> QED
      BY <3>2, <3>3 DEF Live
  <2> QED
    BY <2>1, <2>2
<1> QED
  BY <1>2, <1>3, <1>4, <1>5 DEF Served

\* How a closer gets on.
LEMMA OwnLocking ==
  ASSUME IInv, NEW k \in Actors, ActorStep(k),
         k \in Closes, at[k] # "idle"
  PROVE  /\ at'[k] # "lock"
         /\ at'[k] \in Phase =>
              /\ lock'[on[k]] = k /\ session'[on[k]] \in {"closing", "freed"}
              /\ session'[on[k]] = "freed" => Scope(k) \in again'
         /\ at'[k] = "release" => lock'[on[k]] = k /\ session'[on[k]] = "freed"
         /\ at'[k] = "runs" \/ (at'[k] \in Looks /\ target'[k] \in Executes) => todo'[k] \subseteq {Scope(k)}
         /\ at'[k] \in Looks /\ target'[k] \in Executes => Scope(target'[k]) = Scope(k)
<1> USE DEF Goes, Returns, Holds, Awaits, sessions, waiting, Looks, Phase
<1>a. /\ at \in [Actors -> Steps] /\ on \in [Calls -> Sessions \cup {None}]
      /\ target \in [Actors -> Work \cup {None}]
      /\ left \in [Actors -> SUBSET (Dispatches \cup Sessions)]
      /\ Calls \subseteq Actors /\ Host \in Actors /\ Host \notin Calls
  BY DEF IInv, TypeOK, Actors
<1>b. /\ at[k] \in {"register", "spawn", "refuse"} => k \in Executes
      /\ at[k] = "store" => k \in Graphs
      /\ at[k] \in {"receipts", "admit"} => k \in Dispatches
      /\ at[k] \in {"lock", "release"} => k \in Closes
      /\ at[k] \in {"runs", "attempts", "rest", "drop"} => k \in Closes \cup {Host}
      /\ at[k] \in {"locks", "cancel", "closed"} => k = Host
      /\ at[k] = "permit" => k \in Executes \cup Graphs \cup Dispatches
      /\ at[k] = "respond" => k \in Executes \cup Dispatches \cup Asks
      /\ at[k] \in {"readyLook", "readyPark"} => k \in Dispatches \cup Asks /\ target[k] \in Work
      /\ at[k] \in {"look", "park", "drop"} => target[k] \in Work
      /\ k \in Calls \ Asks /\ at[k] \notin {"idle", "over"} => on[k] \in Sessions
  BY WhoIs
<1>n. at[k] \in {"over", "lock", "release", "runs", "attempts", "rest", "look", "park", "drop"} /\ k \in Calls /\ k # Host
  BY DEF IInv, Roles, Phase, Looks, Calls
<1>e. /\ at \in [Actors -> Steps] /\ target \in [Actors -> Work \cup {None}]
      /\ todo \in [Actors -> SUBSET Scopes] /\ left \in [Actors -> SUBSET (Dispatches \cup Sessions)]
      /\ lock \in [Sessions -> Calls \cup {None}] /\ registered \in [Scopes -> Executes \cup {None}]
      /\ session \in [Sessions -> {"absent", "open", "closing", "freed", "released"}]
  BY DEF IInv, TypeOK
<1>f. /\ at[k] # "over" => on[k] \in Sessions /\ Scope(k) \in Scopes
      /\ k \notin Executes \cup Graphs \cup Dispatches \cup Asks
  BY <1>b, <1>n DEF Scope, Calls
<1>g. /\ at[k] = "lock" => session[on[k]] \in {"closing", "freed", "released"}
      /\ at[k] \in Phase => lock[on[k]] = k /\ session[on[k]] \in {"closing", "freed"}
      /\ at[k] \in Phase /\ session[on[k]] = "freed" => Scope(k) \in again
      /\ at[k] = "runs" \/ (at[k] \in Looks /\ target[k] \in Executes) => todo[k] \subseteq {Scope(k)}
      /\ at[k] \in Looks /\ target[k] \in Executes => Scope(target[k]) = Scope(k)
  BY DEF IInv, Locking, OnRuns, Looks
<1>h. \A p \in Scopes : registered[p] # None => registered[p] \in Executes /\ Scope(registered[p]) = p
  BY Begun
<1>i. \A a \in Dispatches : a \notin Executes
  OBVIOUS
<1>j. at[k] # "locks" => left[k] \subseteq Dispatches
  BY DEF IInv, Roles
<1>1. CASE k \in Calls /\ \E s \in Sessions : Begin(k, s)
  BY <1>1 DEF Begin
<1>2. CASE k \in Calls /\ Enter(k)
  BY <1>f, <1>n, <1>2 DEF Enter
<1>3. CASE k \in Calls /\ LeaveStore(k)
  BY <1>f, <1>n, <1>3 DEF LeaveStore
<1>4. CASE k \in Calls /\ Register(k)
  BY <1>f, <1>n, <1>4 DEF Register
<1>5. CASE k \in Calls /\ Spawn(k)
  BY <1>f, <1>n, <1>5 DEF Spawn
<1>6. CASE k \in Calls /\ Refuse(k)
  BY <1>f, <1>n, <1>6 DEF Refuse
<1>7. CASE k \in Calls /\ Respond(k)
  BY <1>f, <1>n, <1>7 DEF Respond
<1>8. CASE k \in Calls /\ TakeReceipts(k)
  BY <1>f, <1>n, <1>8 DEF TakeReceipts
<1>9. CASE k \in Calls /\ Rejoin(k)
  BY <1>f, <1>n, <1>9 DEF Rejoin
<1>10. CASE k \in Calls /\ Admit(k)
  BY <1>f, <1>n, <1>10 DEF Admit
<1>11. CASE k \in Calls /\ LookReady(k)
  BY <1>f, <1>n, <1>11 DEF LookReady
<1>12. CASE k \in Calls /\ Steer(k)
  BY <1>f, <1>n, <1>12 DEF Steer
<1>13. CASE k \in Calls /\ Expire(k)
  BY <1>f, <1>n, <1>13 DEF Expire
<1>14. CASE k \in Calls /\ Ask(k)
  BY <1>f, <1>n, <1>14 DEF Ask
<1>15. CASE k \in Calls /\ Lock(k)
  <2>1. CASE Returns(k)
    <3>1. at'[k] = "over"
      BY <1>e, <1>n, <2>1
    <3> QED
      BY <3>1
  <2>2. CASE ~Returns(k)
    <3>1. /\ session[on[k]] # "released" /\ lock' = [lock EXCEPT ![on[k]] = k] /\ todo' = [todo EXCEPT ![k] = {Scope(k)}]
          /\ at' = [at EXCEPT ![k] = "runs"] /\ again' = (IF session[on[k]] = "freed" THEN again \cup {Scope(k)} ELSE again)
          /\ UNCHANGED session /\ at[k] = "lock"
      BY <2>2, <1>15 DEF Lock, Scope
    <3>2. at'[k] = "runs" /\ todo'[k] = {Scope(k)} /\ lock'[on[k]] = k
      BY <1>e, <1>f, <3>1
    <3> QED
      BY <1>f, <1>g, <3>1, <3>2
  <2> QED
    BY <2>1, <2>2
<1>16. CASE k \in Calls /\ Rest(k)
  <2>1. \/ at'[k] = "over"
        \/ session' = [session EXCEPT ![on[k]] = "freed"] /\ at'[k] = "release" /\ UNCHANGED lock
    BY <1>e, <1>n, <1>16 DEF Rest
  <2>2. at[k] = "rest"
    BY <1>16 DEF Rest
  <2> QED
    BY <1>e, <1>f, <1>g, <2>1, <2>2
<1>17. CASE k \in Calls /\ Release(k)
  <2>1. at'[k] = "over"
    BY <1>e, <1>n, <1>17 DEF Release
  <2> QED
    BY <2>1
<1>18. CASE k \in Calls /\ DropCall(k)
  <2>1. at'[k] = "over"
    BY <1>e, <1>n, <1>18 DEF DropCall
  <2> QED
    BY <2>1
<1>19. CASE LookSettled(k)
  <2>1. \/ at'[k] = "over"
        \/ at'[k] \in {"drop", "park"} /\ UNCHANGED <<target, todo, lock>>
    BY <1>e, <1>n, <1>19 DEF LookSettled
  <2>2. at[k] = "look" /\ UNCHANGED <<session, again>>
    BY <1>19 DEF LookSettled
  <2> QED
    BY <1>g, <2>1, <2>2
<1>20. CASE Wake(k)
  <2>1. at[k] = "park" /\ at'[k] = "look" /\ UNCHANGED <<target, todo, lock, session, again>>
    BY <1>e, <1>n, <1>20 DEF Wake
  <2> QED
    BY <1>g, <2>1
<1>21. CASE NextRun(k)
  <2>1. at[k] = "runs" /\ UNCHANGED <<lock, session, again>>
    BY <1>21 DEF NextRun
  <2>2. \/ at'[k] = "attempts"
        \/ at'[k] = "runs" /\ todo'[k] \subseteq todo[k]
        \/ at'[k] = "look" /\ UNCHANGED todo /\ \E p \in todo[k] : target'[k] = registered[p] /\ registered[p] # None
    BY <1>e, <1>21 DEF NextRun, Vacant
  <2> QED
    BY <1>e, <1>f, <1>g, <1>h, <2>1, <2>2
<1>22. CASE NextAttempt(k)
  <2>1. at[k] = "attempts" /\ UNCHANGED <<lock, session, again>>
    BY <1>22 DEF NextAttempt
  <2>2. \/ at'[k] \in {"attempts", "rest"}
        \/ at'[k] = "look" /\ target'[k] \in left[k]
    BY <1>e, <1>22 DEF NextAttempt
  <2> QED
    BY <1>e, <1>f, <1>g, <1>i, <1>j, <2>1, <2>2
<1>23. CASE Drop(k)
  <2>1. at[k] = "drop" /\ UNCHANGED <<lock, session, again>>
    BY <1>23 DEF Drop
  <2>2. \/ at'[k] = "attempts"
        \/ at'[k] = "runs" /\ todo'[k] \subseteq todo[k] /\ target[k] \in Executes
    BY <1>e, <1>23 DEF Drop
  <2> QED
    BY <1>g, <2>1, <2>2
<1>24. CASE k = Host /\ Fence
  BY <1>f, <1>n, <1>24 DEF Fence
<1>25. CASE k = Host /\ Locks
  BY <1>f, <1>n, <1>25 DEF Locks
<1>26. CASE k = Host /\ CancelAll
  BY <1>f, <1>n, <1>26 DEF CancelAll
<1>27. CASE k = Host /\ HostRest
  BY <1>f, <1>n, <1>27 DEF HostRest
<1>28. CASE k = Host /\ Timeout
  BY <1>f, <1>n, <1>28 DEF Timeout
<1> QED
  BY <1>1, <1>2, <1>3, <1>4, <1>5, <1>6, <1>7, <1>8, <1>9, <1>10, <1>11, <1>12, <1>13, <1>14, <1>15, <1>16, <1>17, <1>18, <1>19, <1>20, <1>21, <1>22, <1>23, <1>24, <1>25, <1>26, <1>27, <1>28
     DEF ActorStep, CallStep, WaitStep, HostStep

LEMMA ActorLocking ==
  ASSUME IInv, NEW k \in Actors, ActorStep(k)
  PROVE  Locking'
<1> SUFFICES ASSUME NEW c \in Closes
             PROVE  /\ at'[c] = "lock" => session'[on'[c]] \in {"closing", "freed", "released"}
                    /\ at'[c] \in Phase => lock'[on'[c]] = c /\ session'[on'[c]] \in {"closing", "freed"}
                    /\ at'[c] \in Phase /\ session'[on'[c]] = "freed" => Scope(c)' \in again'
                    /\ at'[c] = "release" => lock'[on'[c]] = c /\ session'[on'[c]] = "freed"
                    /\ OnRuns(c)' => todo'[c] \subseteq {Scope(c)'}
                    /\ OnRuns(c)' /\ at'[c] # "runs" => Scope(target[c])' = Scope(c)'
  BY DEF Locking
<1>a. Calls \subseteq Actors /\ Closes \subseteq Calls /\ Closes \cap Asks = {} /\ c # None /\ Work \subseteq Calls
  BY DEF Actors, Calls, Work
<1>b. Locking /\ Roles
  BY DEF IInv
<1>c. session \in [Sessions -> {"absent", "open", "closing", "freed", "released"}]
  BY DEF IInv, TypeOK
<1>d. \A o \in Calls : on[o] \in Sessions => on'[o] = on[o]
  BY StaysOn
<1>1. CASE c = k /\ at[k] = "idle"
  <2>1. /\ at'[k] = "lock" /\ on'[k] \in Sessions /\ session[on'[k]] \in {"open", "closing", "freed"}
        /\ session'[on'[k]] = IF session[on'[k]] = "open" THEN "closing" ELSE session[on'[k]]
    BY <1>1, <1>a, ActorOn DEF Actors
  <2> QED
    BY <1>1, <2>1 DEF Phase, Looks, OnRuns
<1>2. CASE c = k /\ at[k] # "idle"
  <2>1. on'[k] = on[k]
    BY <1>2, <1>a, ActorOn
  <2>2. at'[k] \in Looks => Scope(target[k])' = Scope(target'[k])
    <3>1. at'[k] \in Looks => target'[k] \in Work /\ on[target'[k]] \in Sessions
      BY OwnTarget
    <3> QED
      BY <1>a, <1>d, <3>1 DEF Scope
  <2> QED
    BY <1>2, <2>1, <2>2, OwnLocking DEF OnRuns, Scope
<1>3. CASE c # k
  <2>1. at'[c] = at[c] /\ on'[c] = on[c] /\ target'[c] = target[c] /\ todo'[c] = todo[c]
    BY <1>a, <1>3, ActorFrame
  <2>2. at[c] \in Looks => Scope(target[c])' = Scope(target[c])
    <3>1. at[c] \in Looks => target[c] \in Work /\ on[target[c]] \in Sessions
      BY <1>a, <1>b DEF Roles
    <3> QED
      BY <1>a, <1>d, <2>1, <3>1 DEF Scope
  <2>3. ASSUME at[c] = "lock"
        PROVE  session'[on'[c]] \in {"closing", "freed", "released"}
    <3>1. on[c] \in Sessions
      BY <1>a, <1>b, <2>3 DEF Roles
    <3>2. session[on[c]] \in {"closing", "freed", "released"}
      BY <1>b, <2>3 DEF Locking
    <3> QED
      BY <2>1, <3>1, <3>2, ActorFates
  <2>4. ASSUME at[c] \in {"release"} \cup Phase
        PROVE  lock'[on[c]] = c /\ session'[on[c]] = session[on[c]] /\ on[c] \in Sessions
    <3>1. on[c] \in Sessions /\ lock[on[c]] = c /\ session[on[c]] \in {"closing", "freed"}
      BY <2>4, Locked
    <3>2. ~(k \in Closes /\ at[k] \in {"rest", "release"} /\ on[k] = on[c])
      BY <1>3, <3>1, Locked DEF Phase
    <3> QED
      BY <1>3, <1>a, <3>1, <3>2, ActorLock, ActorFates
  <2>5. again \subseteq again' /\ Scope(c)' = Scope(c)
    BY <2>1, ActorFates DEF Scope
  <2>6. OnRuns(c)' <=> OnRuns(c)
    BY <2>1 DEF OnRuns
  <2> QED
    BY <1>b, <2>1, <2>2, <2>3, <2>4, <2>5, <2>6 DEF Locking, OnRuns
<1> QED
  BY <1>1, <1>2, <1>3

LEMMA OwnClosers ==
  ASSUME IInv, NEW k \in Actors, ActorStep(k),
         k \in Closes, at[k] # "idle", Scope(k) \notin again'
  PROVE  /\ at'[k] = "runs" /\ todo'[k] = {} => registered'[Scope(k)] = None
         /\ at'[k] \in Looks /\ target'[k] \in Executes => registered'[Scope(k)] \in {target'[k], None}
         /\ at'[k] = "attempts" \/ (at'[k] \in Looks /\ target'[k] \in Dispatches) =>
              /\ registered'[Scope(k)] = None /\ todo'[k] \subseteq {Scope(k)}
              /\ todo'[k] = {} => \A a \in tracked' : Scope(a) = Scope(k) => a \in left'[k]
         /\ at'[k] = "rest" => registered'[Scope(k)] = None /\ \A a \in tracked' : Scope(a) # Scope(k)
         /\ at'[k] = "release" => \A w \in Work : on[w] = on[k] => ~Live(w)
<1> USE DEF Goes, Returns, Holds, Awaits, sessions, waiting, Looks
<1>a. /\ at \in [Actors -> Steps] /\ on \in [Calls -> Sessions \cup {None}]
      /\ target \in [Actors -> Work \cup {None}]
      /\ left \in [Actors -> SUBSET (Dispatches \cup Sessions)]
      /\ Calls \subseteq Actors /\ Host \in Actors /\ Host \notin Calls
  BY DEF IInv, TypeOK, Actors
<1>b. /\ at[k] \in {"register", "spawn", "refuse"} => k \in Executes
      /\ at[k] = "store" => k \in Graphs
      /\ at[k] \in {"receipts", "admit"} => k \in Dispatches
      /\ at[k] \in {"lock", "release"} => k \in Closes
      /\ at[k] \in {"runs", "attempts", "rest", "drop"} => k \in Closes \cup {Host}
      /\ at[k] \in {"locks", "cancel", "closed"} => k = Host
      /\ at[k] = "permit" => k \in Executes \cup Graphs \cup Dispatches
      /\ at[k] = "respond" => k \in Executes \cup Dispatches \cup Asks
      /\ at[k] \in {"readyLook", "readyPark"} => k \in Dispatches \cup Asks /\ target[k] \in Work
      /\ at[k] \in {"look", "park", "drop"} => target[k] \in Work
      /\ k \in Calls \ Asks /\ at[k] \notin {"idle", "over"} => on[k] \in Sessions
  BY WhoIs
<1>n. at[k] \in {"over", "lock", "release", "runs", "attempts", "rest", "look", "park", "drop"} /\ k \in Calls /\ k # Host
  BY DEF IInv, Roles, Phase, Looks, Calls
<1>e. /\ at \in [Actors -> Steps] /\ target \in [Actors -> Work \cup {None}]
      /\ todo \in [Actors -> SUBSET Scopes] /\ left \in [Actors -> SUBSET (Dispatches \cup Sessions)]
      /\ lock \in [Sessions -> Calls \cup {None}] /\ registered \in [Scopes -> Executes \cup {None}]
      /\ session \in [Sessions -> {"absent", "open", "closing", "freed", "released"}]
  BY DEF IInv, TypeOK
<1>f. /\ at[k] # "over" => on[k] \in Sessions /\ Scope(k) \in Scopes
      /\ k \notin Executes \cup Graphs \cup Dispatches \cup Asks
  BY <1>b, <1>n DEF Scope, Calls
<1>g. /\ at[k] = "runs" /\ todo[k] = {} => registered[Scope(k)] = None
      /\ at[k] \in Looks /\ target[k] \in Executes => registered[Scope(k)] \in {target[k], None} /\ Scope(target[k]) = Scope(k)
      /\ at[k] = "attempts" \/ (at[k] \in Looks /\ target[k] \in Dispatches) =>
           /\ registered[Scope(k)] = None /\ todo[k] \subseteq {Scope(k)}
           /\ todo[k] = {} => \A a \in tracked : Scope(a) = Scope(k) => a \in left[k]
      /\ at[k] = "rest" => registered[Scope(k)] = None /\ \A a \in tracked : Scope(a) # Scope(k)
      /\ at[k] = "runs" \/ (at[k] \in Looks /\ target[k] \in Executes) => todo[k] \subseteq {Scope(k)}
  <2>1. Scope(k) \notin again
    BY ActorFates
  <2> QED
    BY <2>1 DEF IInv, Closers, Locking, OnRuns, OnAttempts, Looks, Phase
<1>h. \A p \in Scopes : registered[p] # None => registered[p] \in Executes /\ Scope(registered[p]) = p
  BY Begun
<1>i. \A a \in Dispatches : a \notin Executes
  OBVIOUS
<1>j. at[k] # "locks" => left[k] \subseteq Dispatches
  BY DEF IInv, Roles
<1>k. at[k] \in Looks => target[k] \in Executes \/ target[k] \in Dispatches
  BY DEF IInv, Roles, Work
<1>1. CASE k \in Calls /\ \E s \in Sessions : Begin(k, s)
  BY <1>1 DEF Begin
<1>2. CASE k \in Calls /\ Enter(k)
  BY <1>f, <1>n, <1>2 DEF Enter
<1>3. CASE k \in Calls /\ LeaveStore(k)
  BY <1>f, <1>n, <1>3 DEF LeaveStore
<1>4. CASE k \in Calls /\ Register(k)
  BY <1>f, <1>n, <1>4 DEF Register
<1>5. CASE k \in Calls /\ Spawn(k)
  BY <1>f, <1>n, <1>5 DEF Spawn
<1>6. CASE k \in Calls /\ Refuse(k)
  BY <1>f, <1>n, <1>6 DEF Refuse
<1>7. CASE k \in Calls /\ Respond(k)
  BY <1>f, <1>n, <1>7 DEF Respond
<1>8. CASE k \in Calls /\ TakeReceipts(k)
  BY <1>f, <1>n, <1>8 DEF TakeReceipts
<1>9. CASE k \in Calls /\ Rejoin(k)
  BY <1>f, <1>n, <1>9 DEF Rejoin
<1>10. CASE k \in Calls /\ Admit(k)
  BY <1>f, <1>n, <1>10 DEF Admit
<1>11. CASE k \in Calls /\ LookReady(k)
  BY <1>f, <1>n, <1>11 DEF LookReady
<1>12. CASE k \in Calls /\ Steer(k)
  BY <1>f, <1>n, <1>12 DEF Steer
<1>13. CASE k \in Calls /\ Expire(k)
  BY <1>f, <1>n, <1>13 DEF Expire
<1>14. CASE k \in Calls /\ Ask(k)
  BY <1>f, <1>n, <1>14 DEF Ask
<1>15. CASE k \in Calls /\ Lock(k)
  <2>1. \/ at'[k] = "over"
        \/ at'[k] = "runs" /\ todo'[k] = {Scope(k)}
    BY <1>e, <1>n, <1>15 DEF Lock, Scope
  <2> QED
    BY <2>1
<1>16. CASE k \in Calls /\ Rest(k)
  <2>1. at'[k] \in {"over", "release"} /\ at[k] = "rest"
    BY <1>e, <1>n, <1>16 DEF Rest
  <2>2. registered[Scope(k)] = None /\ \A a \in tracked : Scope(a) # Scope(k)
    BY <1>g, <2>1
  <2>3. ASSUME NEW w \in Work, on[w] = on[k], Live(w)
        PROVE  FALSE
    <3>1. Scope(w) = Scope(k) /\ Scope(w) \notin again
      BY <2>3, ActorFates DEF Scope
    <3>2. CASE w \in Executes
      <4>1. registered[Scope(w)] = w
        BY <2>3, <3>1, <3>2 DEF IInv, Mapped, Occupies
      <4> QED
        BY <2>2, <3>1, <3>2, <4>1 DEF Actors, Calls
    <3>3. CASE w \in Dispatches
      <4>1. w \in tracked
        BY <2>3, <3>3 DEF IInv, Mapped, Submitted
      <4> QED
        BY <2>2, <3>1, <4>1
    <3> QED
      BY <3>2, <3>3 DEF Work
  <2> QED
    BY <2>1, <2>3
<1>17. CASE k \in Calls /\ Release(k)
  <2>1. at'[k] = "over"
    BY <1>e, <1>n, <1>17 DEF Release
  <2> QED
    BY <2>1
<1>18. CASE k \in Calls /\ DropCall(k)
  <2>1. at'[k] = "over"
    BY <1>e, <1>n, <1>18 DEF DropCall
  <2> QED
    BY <2>1
<1>19. CASE LookSettled(k)
  <2>1. \/ at'[k] = "over"
        \/ at'[k] \in {"drop", "park"} /\ UNCHANGED <<target, todo, left>>
    BY <1>e, <1>n, <1>19 DEF LookSettled
  <2>2. at[k] = "look" /\ UNCHANGED <<registered, tracked>>
    BY <1>19 DEF LookSettled
  <2> QED
    BY <1>g, <2>1, <2>2
<1>20. CASE Wake(k)
  <2>1. at[k] = "park" /\ at'[k] = "look" /\ UNCHANGED <<target, todo, left, registered, tracked>>
    BY <1>e, <1>n, <1>20 DEF Wake
  <2> QED
    BY <1>g, <2>1
<1>21. CASE NextRun(k)
  <2>1. at[k] = "runs" /\ UNCHANGED <<registered, tracked, left>>
    BY <1>21 DEF NextRun
  <2>2. \/ at'[k] = "attempts" /\ todo[k] = {} /\ todo'[k] = {Scope(k)}
        \/ at'[k] = "runs" /\ \E p \in todo[k] : registered[p] = None
        \/ at'[k] = "look" /\ \E p \in todo[k] : target'[k] = registered[p] /\ registered[p] # None
    BY <1>e, <1>n, <1>21 DEF NextRun, Vacant
  <2> QED
    BY <1>e, <1>f, <1>g, <1>h, <1>i, <2>1, <2>2
<1>22. CASE NextAttempt(k)
  <2>1. at[k] = "attempts" /\ UNCHANGED <<registered, tracked>>
    BY <1>22 DEF NextAttempt
  <2>2. \/ at'[k] = "rest" /\ left[k] = {} /\ todo[k] = {}
        \/ /\ at'[k] = "attempts" /\ left[k] = {} /\ todo'[k] \subseteq todo[k]
           /\ \E p \in todo[k] : left'[k] = {a \in tracked : Scope(a) = p}
        \/ at'[k] = "look" /\ target'[k] \in left[k] /\ UNCHANGED <<todo, left>>
    BY <1>e, <1>22 DEF NextAttempt
  <2>3. CASE at'[k] = "rest" /\ left[k] = {} /\ todo[k] = {}
    BY <1>g, <2>1, <2>3
  <2>4. CASE /\ at'[k] = "attempts" /\ left[k] = {} /\ todo'[k] \subseteq todo[k]
             /\ \E p \in todo[k] : left'[k] = {a \in tracked : Scope(a) = p}
    BY <1>g, <2>1, <2>4
  <2>5. CASE at'[k] = "look" /\ target'[k] \in left[k] /\ UNCHANGED <<todo, left>>
    BY <1>g, <1>i, <1>j, <2>1, <2>5
  <2> QED
    BY <2>2, <2>3, <2>4, <2>5
<1>23. CASE Drop(k)
  <2>1. at[k] = "drop"
    BY <1>23 DEF Drop
  <2>2. CASE target[k] \in Executes
    <3>1. at'[k] = "runs" /\ registered' = [registered EXCEPT ![Scope(k)] = None]
      BY <1>e, <1>g, <2>1, <2>2, <1>23 DEF Drop
    <3> QED
      BY <1>e, <1>f, <2>1, <3>1
  <2>3. CASE target[k] \in Dispatches
    <3>1. /\ at'[k] = "attempts" /\ UNCHANGED <<registered, todo>> /\ tracked' = tracked \ {target[k]}
          /\ left'[k] = left[k] \ {target[k]}
      BY <1>e, <1>i, <2>3, <1>23 DEF Drop
    <3> QED
      BY <1>g, <2>1, <2>3, <3>1
  <2> QED
    BY <1>k, <2>1, <2>2, <2>3
<1>24. CASE k = Host /\ Fence
  BY <1>f, <1>n, <1>24 DEF Fence
<1>25. CASE k = Host /\ Locks
  BY <1>f, <1>n, <1>25 DEF Locks
<1>26. CASE k = Host /\ CancelAll
  BY <1>f, <1>n, <1>26 DEF CancelAll
<1>27. CASE k = Host /\ HostRest
  BY <1>f, <1>n, <1>27 DEF HostRest
<1>28. CASE k = Host /\ Timeout
  BY <1>f, <1>n, <1>28 DEF Timeout
<1> QED
  BY <1>1, <1>2, <1>3, <1>4, <1>5, <1>6, <1>7, <1>8, <1>9, <1>10, <1>11, <1>12, <1>13, <1>14, <1>15, <1>16, <1>17, <1>18, <1>19, <1>20, <1>21, <1>22, <1>23, <1>24, <1>25, <1>26, <1>27, <1>28
     DEF ActorStep, CallStep, WaitStep, HostStep

LEMMA ActorClosers ==
  ASSUME IInv, NEW k \in Actors, ActorStep(k)
  PROVE  Closers'
<1> SUFFICES ASSUME NEW c \in Closes, at'[c] \in {"release"} \cup Phase, Scope(c)' \notin again'
             PROVE  /\ at'[c] = "runs" /\ todo'[c] = {} => registered'[Scope(c)'] = None
                    /\ OnRuns(c)' /\ at'[c] # "runs" => registered'[Scope(c)'] \in {target'[c], None}
                    /\ OnAttempts(c)' =>
                         /\ registered'[Scope(c)'] = None /\ todo'[c] \subseteq {Scope(c)'}
                         /\ todo'[c] = {} => \A a \in tracked' : Scope(a)' = Scope(c)' => a \in left'[c]
                    /\ at'[c] = "rest" =>
                         registered'[Scope(c)'] = None /\ \A a \in tracked' : Scope(a)' # Scope(c)'
                    /\ at'[c] = "release" => \A w \in Work : on'[w] = on'[c] => ~Live(w)'
  BY DEF Closers
<1>a. /\ Calls \subseteq Actors /\ Closes \subseteq Calls /\ Closes \cap Asks = {} /\ Work \subseteq Calls
      /\ Closes \cap Work = {} /\ Executes \subseteq Work /\ Dispatches \subseteq Work
  BY DEF Actors, Calls, Work
<1>b. Closers /\ Roles /\ Started
  BY DEF IInv
<1>d. \A o \in Calls : on[o] \in Sessions => on'[o] = on[o]
  BY StaysOn
<1>e. \A a \in tracked' : Scope(a)' = Scope(a) /\ a \in Calls
  <2>1. ASSUME NEW a \in tracked'
        PROVE  on[a] \in Sessions /\ a \in Calls
    <3>1. CASE a \in tracked
      BY <1>a, <3>1, Begun
    <3>2. CASE a \notin tracked
      <4>1. a = k /\ k \in Dispatches /\ at[k] = "admit"
        BY <2>1, <3>2, ActorTracked
      <4> QED
        BY <1>a, <4>1, Reads
    <3> QED
      BY <3>1, <3>2
  <2> QED
    BY <1>d, <2>1 DEF Scope
<1>1. CASE c = k
  <2>1. at[k] # "idle" /\ on'[k] = on[k]
    BY <1>1, <1>a, ActorOn DEF Phase, Looks, Actors
  <2>2. Scope(k) \notin again'
    BY <1>1, <2>1 DEF Scope
  <2>3. ASSUME at'[k] = "release", NEW w \in Work, on'[w] = on'[k]
        PROVE  ~Live(w)'
    <3>1. on[w] = on[k]
      BY <1>a, <2>1, <2>3, StaysOn
    <3>2. ~Live(w) /\ work'[w] = work[w]
      BY <1>1, <1>a, <2>1, <2>2, <2>3, <3>1, OwnClosers, ActorWork
    <3> QED
      BY <3>2 DEF Live
  <2> QED
    BY <1>1, <1>e, <2>1, <2>2, <2>3, OwnClosers DEF OnRuns, OnAttempts, Scope
<1>2. CASE c # k
  <2>1. at'[c] = at[c] /\ on'[c] = on[c] /\ target'[c] = target[c] /\ todo'[c] = todo[c] /\ left'[c] = left[c]
    BY <1>a, <1>2, ActorFrame
  <2>2. Scope(c) = Scope(c)' /\ Scope(c) \notin again /\ at[c] \in {"release"} \cup Phase
    BY <2>1, ActorFates DEF Scope
  <2>3. /\ on[c] \in Sessions /\ lock[on[c]] # None /\ session[on[c]] \in {"closing", "freed"}
        /\ Readers(on[c]) = {} /\ (at[c] \in Phase => session[on[c]] = "closing") /\ Scope(c) \in Scopes
    BY <2>2, Locked DEF Scope
  <2>4. ASSUME at[c] \in Phase, k \in Calls, at[k] \in {"register", "spawn", "admit"}
        PROVE  Scope(k) # Scope(c)
    <3>1. /\ on[k] \in Sessions /\ Serving(on[k]) /\ lock[on[k]] = None
      BY <2>4, Reads
    <3>2. Serving(on[c])
      BY <2>3, <2>4 DEF Serving
    <3> QED
      BY <2>3, <3>1, <3>2 DEF IInv, Served, Scope
  <2>5. at[c] \in Phase => registered'[Scope(c)] \in {registered[Scope(c)], None}
    BY <1>a, <2>3, <2>4, ActorRegistered
  <2>6. at[c] \in Phase => \A a \in tracked' : Scope(a)' = Scope(c) => a \in tracked /\ Scope(a) = Scope(c)
    BY <1>a, <1>e, <2>4, ActorTracked
  <2>7. ASSUME at[c] = "release", NEW w \in Work, on'[w] = on[c]
        PROVE  ~Live(w)'
    <3>1. CASE on[w] = on'[w]
      <4>1. ~Live(w)
        BY <1>b, <2>2, <2>7, <3>1 DEF Closers
      <4>2. ~(w = k /\ at[k] \in {"register", "spawn", "admit"})
        BY <1>a, <2>3, <2>7, <3>1, Reads
      <4>3. work'[w] = work[w]
        BY <4>2, ActorWork
      <4> QED
        BY <4>1, <4>3 DEF Live
    <3>2. CASE on[w] # on'[w]
      <4>1. w = k /\ at[k] = "idle" /\ UNCHANGED work
        BY <1>a, <3>2, StaysOn
      <4>2. work[w] = "free"
        BY <1>b, <4>1 DEF Started, Work
      <4> QED
        BY <4>1, <4>2 DEF Live
    <3> QED
      BY <3>1, <3>2
  <2>8. (OnRuns(c)' <=> OnRuns(c)) /\ (OnAttempts(c)' <=> OnAttempts(c))
    BY <2>1 DEF OnRuns, OnAttempts
  <2>9. OnRuns(c) \/ OnAttempts(c) \/ at[c] \in {"runs", "rest"} => at[c] \in Phase
    BY DEF OnRuns, OnAttempts, Phase
  <2>10. /\ at[c] = "runs" /\ todo[c] = {} => registered[Scope(c)] = None
         /\ OnRuns(c) /\ at[c] # "runs" => registered[Scope(c)] \in {target[c], None}
         /\ OnAttempts(c) =>
              /\ registered[Scope(c)] = None /\ todo[c] \subseteq {Scope(c)}
              /\ todo[c] = {} => \A a \in tracked : Scope(a) = Scope(c) => a \in left[c]
         /\ at[c] = "rest" =>
              registered[Scope(c)] = None /\ \A a \in tracked : Scope(a) # Scope(c)
    BY <1>b, <2>2 DEF Closers
  <2> QED
    BY <2>1, <2>2, <2>5, <2>6, <2>7, <2>8, <2>9, <2>10
<1> QED
  BY <1>1, <1>2

\* How the drain gets on.
LEMMA OwnDrain ==
  ASSUME IInv, NEW k \in Actors, ActorStep(k),
         k = Host
  PROVE  /\ at'[k] # "idle" => fenced'
         /\ at'[k] = "locks" => \A s \in Sessions : Readers(s) # {} => s \in left'[k]
         /\ at'[k] \notin {"idle", "locks"} => \A s \in Sessions : Readers(s) = {}
         /\ at'[k] = "runs" \/ (at'[k] \in Looks /\ target'[k] \in Executes) =>
              \A p \in Scopes : registered'[p] # None => p \in todo'[k]
         /\ at'[k] \in Looks /\ target'[k] \in Executes => registered'[Scope(target'[k])] \in {target'[k], None}
         /\ at'[k] = "attempts" \/ (at'[k] \in Looks /\ target'[k] \in Dispatches) =>
              /\ \A p \in Scopes : registered'[p] = None
              /\ \A a \in tracked' : Scope(a) \in todo'[k] \/ a \in left'[k]
         /\ at'[k] \in {"rest", "closed"} => tracked' = {} /\ \A p \in Scopes : registered'[p] = None
<1> USE DEF Goes, Returns, Holds, Awaits, sessions, waiting, Looks
<1>a. /\ at \in [Actors -> Steps] /\ on \in [Calls -> Sessions \cup {None}]
      /\ target \in [Actors -> Work \cup {None}]
      /\ left \in [Actors -> SUBSET (Dispatches \cup Sessions)]
      /\ Calls \subseteq Actors /\ Host \in Actors /\ Host \notin Calls
  BY DEF IInv, TypeOK, Actors
<1>b. /\ at[k] \in {"register", "spawn", "refuse"} => k \in Executes
      /\ at[k] = "store" => k \in Graphs
      /\ at[k] \in {"receipts", "admit"} => k \in Dispatches
      /\ at[k] \in {"lock", "release"} => k \in Closes
      /\ at[k] \in {"runs", "attempts", "rest", "drop"} => k \in Closes \cup {Host}
      /\ at[k] \in {"locks", "cancel", "closed"} => k = Host
      /\ at[k] = "permit" => k \in Executes \cup Graphs \cup Dispatches
      /\ at[k] = "respond" => k \in Executes \cup Dispatches \cup Asks
      /\ at[k] \in {"readyLook", "readyPark"} => k \in Dispatches \cup Asks /\ target[k] \in Work
      /\ at[k] \in {"look", "park", "drop"} => target[k] \in Work
      /\ k \in Calls \ Asks /\ at[k] \notin {"idle", "over"} => on[k] \in Sessions
  BY WhoIs
<1>n. at[k] \in {"idle", "locks", "cancel", "closed", "runs", "attempts", "rest", "look", "park", "drop"} /\ k \notin Calls
  BY DEF IInv, Roles, Phase, Looks
<1>e. /\ at \in [Actors -> Steps] /\ target \in [Actors -> Work \cup {None}]
      /\ todo \in [Actors -> SUBSET Scopes] /\ left \in [Actors -> SUBSET (Dispatches \cup Sessions)]
      /\ registered \in [Scopes -> Executes \cup {None}] /\ tracked \subseteq Dispatches
      /\ session \in [Sessions -> {"absent", "open", "closing", "freed", "released"}]
  BY DEF IInv, TypeOK
<1>g. /\ at[k] # "idle" => fenced
      /\ at[k] = "locks" => \A s \in Sessions : Readers(s) # {} => s \in left[k]
      /\ at[k] \notin {"idle", "locks"} => \A s \in Sessions : Readers(s) = {}
      /\ at[k] = "runs" \/ (at[k] \in Looks /\ target[k] \in Executes) => \A p \in Scopes : registered[p] # None => p \in todo[k]
      /\ at[k] \in Looks /\ target[k] \in Executes => registered[Scope(target[k])] \in {target[k], None}
      /\ at[k] = "attempts" \/ (at[k] \in Looks /\ target[k] \in Dispatches) =>
           /\ \A p \in Scopes : registered[p] = None
           /\ \A a \in tracked : Scope(a) \in todo[k] \/ a \in left[k]
      /\ at[k] \in {"rest", "closed"} => tracked = {} /\ \A p \in Scopes : registered[p] = None
  BY DEF IInv, Drained, OnRuns, OnAttempts, Looks
<1>h. \A p \in Scopes : registered[p] # None => registered[p] \in Executes /\ Scope(registered[p]) = p
  BY Begun
<1>i. \A a \in Dispatches : a \notin Executes
  OBVIOUS
<1>j. at[k] # "locks" => left[k] \subseteq Dispatches
  BY DEF IInv, Roles
<1>k. at[k] \in Looks => target[k] \in Executes \/ target[k] \in Dispatches
  BY DEF IInv, Roles, Work
<1>1. CASE k \in Calls /\ \E s \in Sessions : Begin(k, s)
  BY <1>n, <1>1
<1>2. CASE k \in Calls /\ Enter(k)
  BY <1>n, <1>2
<1>3. CASE k \in Calls /\ LeaveStore(k)
  BY <1>n, <1>3
<1>4. CASE k \in Calls /\ Register(k)
  BY <1>n, <1>4
<1>5. CASE k \in Calls /\ Spawn(k)
  BY <1>n, <1>5
<1>6. CASE k \in Calls /\ Refuse(k)
  BY <1>n, <1>6
<1>7. CASE k \in Calls /\ Respond(k)
  BY <1>n, <1>7
<1>8. CASE k \in Calls /\ TakeReceipts(k)
  BY <1>n, <1>8
<1>9. CASE k \in Calls /\ Rejoin(k)
  BY <1>n, <1>9
<1>10. CASE k \in Calls /\ Admit(k)
  BY <1>n, <1>10
<1>11. CASE k \in Calls /\ LookReady(k)
  BY <1>n, <1>11
<1>12. CASE k \in Calls /\ Steer(k)
  BY <1>n, <1>12
<1>13. CASE k \in Calls /\ Expire(k)
  BY <1>n, <1>13
<1>14. CASE k \in Calls /\ Ask(k)
  BY <1>n, <1>14
<1>15. CASE k \in Calls /\ Lock(k)
  BY <1>n, <1>15
<1>16. CASE k \in Calls /\ Rest(k)
  BY <1>n, <1>16
<1>17. CASE k \in Calls /\ Release(k)
  BY <1>n, <1>17
<1>18. CASE k \in Calls /\ DropCall(k)
  BY <1>n, <1>18
<1>19. CASE LookSettled(k)
  <2>1. \/ at'[k] = "idle"
        \/ at'[k] \in {"drop", "park"} /\ UNCHANGED <<target, todo, left>>
    BY <1>e, <1>n, <1>19 DEF LookSettled
  <2>2. at[k] = "look" /\ UNCHANGED <<registered, tracked, fenced>>
    BY <1>19 DEF LookSettled
  <2> QED
    BY <1>g, <2>1, <2>2
<1>20. CASE Wake(k)
  <2>1. at[k] = "park" /\ at'[k] = "look" /\ UNCHANGED <<target, todo, left, registered, tracked, fenced>>
    BY <1>e, <1>n, <1>20 DEF Wake
  <2> QED
    BY <1>g, <2>1
<1>21. CASE NextRun(k)
  <2>1. at[k] = "runs" /\ UNCHANGED <<registered, tracked, left, fenced>>
    BY <1>21 DEF NextRun
  <2>2. \/ at'[k] = "attempts" /\ todo[k] = {} /\ todo'[k] = {Scope(a) : a \in tracked}
        \/ at'[k] = "runs" /\ \E p \in todo[k] : registered[p] = None /\ todo'[k] = todo[k] \ {p}
        \/ at'[k] = "look" /\ UNCHANGED todo /\ \E p \in todo[k] : target'[k] = registered[p] /\ registered[p] # None
    BY <1>e, <1>n, <1>21 DEF NextRun, Vacant
  <2>3. CASE at'[k] = "attempts" /\ todo[k] = {} /\ todo'[k] = {Scope(a) : a \in tracked}
    BY <1>g, <2>1, <2>3
  <2>4. CASE at'[k] = "runs" /\ \E p \in todo[k] : registered[p] = None /\ todo'[k] = todo[k] \ {p}
    BY <1>e, <1>g, <2>1, <2>4
  <2>5. CASE at'[k] = "look" /\ UNCHANGED todo /\ \E p \in todo[k] : target'[k] = registered[p] /\ registered[p] # None
    <3>1. PICK p \in todo[k] : target'[k] = registered[p] /\ registered[p] # None
      BY <2>5
    <3>2. target'[k] \in Executes /\ Scope(target'[k]) = p
      BY <1>e, <1>h, <3>1
    <3> QED
      BY <1>g, <1>i, <2>1, <2>5, <3>1, <3>2
  <2> QED
    BY <2>2, <2>3, <2>4, <2>5
<1>22. CASE NextAttempt(k)
  <2>1. at[k] = "attempts" /\ UNCHANGED <<registered, tracked, fenced>>
    BY <1>22 DEF NextAttempt
  <2>2. \/ at'[k] = "rest" /\ left[k] = {} /\ todo[k] = {}
        \/ /\ at'[k] = "attempts" /\ left[k] = {}
           /\ \E p \in todo[k] : left'[k] = {a \in tracked : Scope(a) = p} /\ todo'[k] = todo[k] \ {p}
        \/ at'[k] = "look" /\ target'[k] \in left[k] /\ UNCHANGED <<todo, left>>
    BY <1>e, <1>22 DEF NextAttempt
  <2>3. CASE at'[k] = "rest" /\ left[k] = {} /\ todo[k] = {}
    BY <1>g, <2>1, <2>3
  <2>4. CASE /\ at'[k] = "attempts" /\ left[k] = {}
             /\ \E p \in todo[k] : left'[k] = {a \in tracked : Scope(a) = p} /\ todo'[k] = todo[k] \ {p}
    BY <1>g, <2>1, <2>4
  <2>5. CASE at'[k] = "look" /\ target'[k] \in left[k] /\ UNCHANGED <<todo, left>>
    BY <1>g, <1>i, <1>j, <2>1, <2>5
  <2> QED
    BY <2>2, <2>3, <2>4, <2>5
<1>23. CASE Drop(k)
  <2>1. at[k] = "drop" /\ UNCHANGED fenced
    BY <1>23 DEF Drop
  <2>2. CASE target[k] \in Executes
    <3>1. /\ at'[k] = "runs" /\ registered' = [registered EXCEPT ![Scope(target[k])] = None]
          /\ todo'[k] = todo[k] \ {Scope(target[k])}
      BY <1>e, <2>1, <2>2, <1>23 DEF Drop
    <3>2. \A p \in Scopes : registered'[p] # None => registered[p] # None /\ p # Scope(target[k])
      BY <1>e, <3>1
    <3> QED
      BY <1>g, <2>1, <2>2, <3>1, <3>2
  <2>3. CASE target[k] \in Dispatches
    <3>1. /\ at'[k] = "attempts" /\ UNCHANGED <<registered, todo>> /\ tracked' = tracked \ {target[k]}
          /\ left'[k] = left[k] \ {target[k]}
      BY <1>e, <1>i, <2>3, <1>23 DEF Drop
    <3> QED
      BY <1>g, <2>1, <2>3, <3>1
  <2> QED
    BY <1>k, <2>1, <2>2, <2>3
<1>24. CASE k = Host /\ Fence
  <2>1. fenced' /\ at'[k] = "locks" /\ left'[k] = {s \in Sessions : session[s] \in {"open", "closing", "freed"}}
    BY <1>e, <1>24 DEF Fence
  <2>2. \A s \in Sessions : Readers(s) # {} => session[s] \in {"open", "closing"}
    BY DEF IInv, Served, Serving
  <2> QED
    BY <2>1, <2>2
<1>25. CASE k = Host /\ Locks
  <2>1. \/ at'[k] = "locks" /\ \E s \in Sessions : Readers(s) = {} /\ left'[k] = left[k] \ {s}
        \/ at'[k] = "cancel" /\ left[k] = {}
        \/ at'[k] = "locks" /\ \E s \in left[k] : Readers(s) = {} /\ left'[k] = left[k] \ {s}
    BY <1>e, <1>25 DEF Locks
  <2>2. at[k] = "locks" /\ UNCHANGED fenced
    BY <1>25 DEF Locks
  <2> QED
    BY <1>g, <2>1, <2>2
<1>26. CASE k = Host /\ CancelAll
  <2>1. /\ at[k] = "cancel" /\ at'[k] = "runs" /\ UNCHANGED <<fenced, registered>>
        /\ todo'[k] = {p \in Scopes : registered[p] # None}
    BY <1>e, <1>26 DEF CancelAll
  <2> QED
    BY <1>g, <2>1
<1>27. CASE k = Host /\ HostRest
  <2>1. at[k] = "rest" /\ at'[k] \in {"idle", "closed"} /\ UNCHANGED <<fenced, registered, tracked>>
    BY <1>e, <1>27 DEF HostRest
  <2> QED
    BY <1>g, <2>1
<1>28. CASE k = Host /\ Timeout
  <2>1. at'[k] = "idle"
    BY <1>e, <1>28 DEF Timeout
  <2> QED
    BY <2>1
<1> QED
  BY <1>1, <1>2, <1>3, <1>4, <1>5, <1>6, <1>7, <1>8, <1>9, <1>10, <1>11, <1>12, <1>13, <1>14, <1>15, <1>16, <1>17, <1>18, <1>19, <1>20, <1>21, <1>22, <1>23, <1>24, <1>25, <1>26, <1>27, <1>28
     DEF ActorStep, CallStep, WaitStep, HostStep

LEMMA ActorDrained ==
  ASSUME IInv, NEW k \in Actors, ActorStep(k)
  PROVE  Drained'
<1>a. /\ Calls \subseteq Actors /\ Work \subseteq Calls /\ Host \in Actors /\ Host \notin Calls
      /\ Executes \subseteq Work /\ Dispatches \subseteq Work
  BY DEF Actors, Calls, Work
<1>b. Drained /\ Roles /\ Served
  BY DEF IInv
<1>d. \A o \in Calls : on[o] \in Sessions => on'[o] = on[o]
  BY StaysOn
<1>e. \A a \in tracked : Scope(a)' = Scope(a)
  BY <1>a, <1>d, Begun DEF Scope
<1>1. CASE k = Host
  <2>1. \A s \in Sessions : Readers(s)' = {} <=> Readers(s) = {}
    <3>1. ASSUME NEW s \in Sessions, NEW c \in Calls
          PROVE  c \in Readers(s)' <=> c \in Readers(s)
      BY <1>1, <1>a, ActorFrame DEF Readers
    <3> QED
      BY <3>1 DEF Readers
  <2>2. tracked' \subseteq tracked
    BY <1>1, <1>a, ActorTracked
  <2>3. at'[Host] \in Looks => Scope(target[Host])' = Scope(target'[Host])
    <3>1. at'[Host] \in Looks => target'[Host] \in Work /\ on[target'[Host]] \in Sessions
      BY <1>1, OwnTarget
    <3> QED
      BY <1>a, <1>d, <3>1 DEF Scope
  <2> QED
    BY <1>1, <1>e, <2>1, <2>2, <2>3, OwnDrain DEF Drained, OnRuns, OnAttempts
<1>2. CASE k # Host
  <2>1. at'[Host] = at[Host] /\ target'[Host] = target[Host] /\ todo'[Host] = todo[Host] /\ left'[Host] = left[Host]
    BY <1>a, <1>2, ActorFrame
  <2>2. fenced' = fenced
    BY <1>2, ActorFates DEF IInv, TypeOK
  <2>3. at[Host] # "idle" => \A s \in Sessions : Readers(s) = {} => Readers(s)' = {}
    <3>1. at[Host] # "idle" => \A s \in Sessions : session[s] # "open"
      BY <1>b DEF Drained, Served
    <3> QED
      BY <3>1, Permits
  <2>4. ASSUME at[Host] \notin {"idle", "locks"}
        PROVE  k \notin Calls \/ at[k] \notin {"register", "spawn", "admit"}
    BY <1>b, <2>4, Reads DEF Drained
  <2>5. at[Host] \notin {"idle", "locks"} => \A p \in Scopes : registered'[p] \in {registered[p], None}
    BY <1>a, <2>4, ActorRegistered
  <2>6. at[Host] \notin {"idle", "locks"} => tracked' \subseteq tracked
    BY <1>a, <2>4, ActorTracked
  <2>7. at[Host] \in Looks => Scope(target[Host])' = Scope(target[Host]) /\ Scope(target[Host]) \in Scopes
    <3>1. at[Host] \in Looks => target[Host] \in Work /\ on[target[Host]] \in Sessions
      BY <1>a, <1>b DEF Roles
    <3> QED
      BY <1>a, <1>d, <2>1, <3>1 DEF Scope
  <2>8. /\ (OnRuns(Host)' <=> OnRuns(Host)) /\ (OnAttempts(Host)' <=> OnAttempts(Host))
        /\ OnRuns(Host) \/ OnAttempts(Host) \/ at[Host] \in {"rest", "closed"} => at[Host] \notin {"idle", "locks"}
        /\ OnRuns(Host) /\ at[Host] # "runs" => at[Host] \in Looks
    BY <2>1 DEF OnRuns, OnAttempts, Looks
  <2>9. /\ at'[Host] # "idle" => fenced'
        /\ at'[Host] = "locks" => \A s \in Sessions : Readers(s)' # {} => s \in left'[Host]
        /\ at'[Host] \notin {"idle", "locks"} => \A s \in Sessions : Readers(s)' = {}
    BY <1>b, <2>1, <2>2, <2>3 DEF Drained
  <2>10. OnRuns(Host)' => \A p \in Scopes : registered'[p] # None => p \in todo'[Host]
    BY <1>b, <2>1, <2>5, <2>8 DEF Drained
  <2>11. OnRuns(Host)' /\ at'[Host] # "runs" => registered'[Scope(target[Host])'] \in {target'[Host], None}
    BY <1>b, <2>1, <2>5, <2>7, <2>8 DEF Drained
  <2>12. OnAttempts(Host)' =>
           /\ \A p \in Scopes : registered'[p] = None
           /\ \A a \in tracked' : Scope(a)' \in todo'[Host] \/ a \in left'[Host]
    BY <1>b, <1>e, <2>1, <2>5, <2>6, <2>8 DEF Drained
  <2>13. at'[Host] \in {"rest", "closed"} => tracked' = {} /\ \A p \in Scopes : registered'[p] = None
    BY <1>b, <2>1, <2>5, <2>6, <2>8 DEF Drained
  <2> QED
    BY <2>9, <2>10, <2>11, <2>12, <2>13 DEF Drained
<1> QED
  BY <1>1, <1>2

LEMMA ActorShown ==
  ASSUME IInv, NEW k \in Actors, ActorStep(k)
  PROVE  Shown'
<1> SUFFICES ASSUME NEW e \in Executes, on'[e] \in Sessions, Scope(e)' \notin again'
             PROVE  /\ work'[e] = "running" => error'[on'[e]] = None
                    /\ at'[e] = "refuse" =>
                         ~connected' /\ \A o \in Executes : work'[o] = "running" => Scope(o)' # Scope(e)'
  BY DEF Shown
<1>a. /\ Calls \subseteq Actors /\ Work \subseteq Calls /\ Executes \subseteq Work /\ Executes \cap Asks = {}
  BY DEF Actors, Calls, Work
<1>b. Shown /\ Roles /\ Started /\ Mapped
  BY DEF IInv
<1>d. \A o \in Calls : on[o] \in Sessions => on'[o] = on[o]
  BY StaysOn
<1>e. \A o \in Executes : work[o] # "free" => on[o] \in Sessions /\ Scope(o)' = Scope(o)
  BY <1>a, <1>b, <1>d DEF Started, Scope
<1>1. ASSUME work'[e] = "running"
      PROVE  error'[on'[e]] = None
  <2>1. CASE work[e] = "running"
    <3>1. on'[e] = on[e] /\ on[e] \in Sessions /\ Scope(e) \notin again
      BY <1>a, <1>d, <1>e, <2>1, ActorFates DEF Scope
    <3>2. error[on[e]] = None
      BY <1>b, <2>1, <3>1 DEF Shown
    <3>3. ~(at[k] = "refuse" /\ k \in Executes /\ on[k] = on[e])
      BY <1>b, <2>1, <3>1 DEF Shown, Scope
    <3> QED
      BY <3>1, <3>2, <3>3, ActorTells
  <2>2. CASE work[e] # "running"
    <3>1. e = k /\ at[k] = "spawn" /\ error'[on[k]] = None
      BY <1>1, <1>a, <2>2, ActorWork
    <3>2. on'[k] = on[k]
      BY <1>a, <3>1, StaysOn
    <3> QED
      BY <3>1, <3>2
  <2> QED
    BY <2>1, <2>2
<1>2. ASSUME at'[e] = "refuse"
      PROVE  ~connected' /\ \A o \in Executes : work'[o] = "running" => Scope(o)' # Scope(e)'
  <2>1. CASE at[e] = "refuse"
    <3>1. on[e] \in Sessions /\ Scope(e)' = Scope(e) /\ Scope(e) \notin again
      BY <1>a, <1>b, <1>d, <2>1, ActorFates DEF Roles, Scope
    <3>2. ~connected /\ \A o \in Executes : work[o] = "running" => Scope(o) # Scope(e)
      BY <1>b, <2>1, <3>1 DEF Shown
    <3>3. \A o \in Executes : work'[o] = "running" => work[o] = "running"
      BY <1>a, <3>2, ActorWork
    <3> QED
      BY <1>e, <3>1, <3>2, <3>3, ActorFates
  <2>2. CASE at[e] # "refuse"
    <3>1. e = k /\ at[k] = "spawn" /\ ~connected /\ work'[k] = "unspawned"
      BY <1>2, <1>a, <2>2, ActorFrame, OwnWay
    <3>2. on[e] \in Sessions /\ Scope(e)' = Scope(e) /\ Scope(e) \notin again
      BY <1>a, <1>b, <1>d, <3>1, ActorFates DEF Roles, Scope
    <3>3. registered[Scope(e)] = e
      BY <1>b, <3>1, <3>2 DEF Started, Occupies, Mapped
    <3>4. ASSUME NEW o \in Executes, work'[o] = "running"
          PROVE  Scope(o)' # Scope(e)'
      <4>1. o # e /\ work[o] = "running"
        BY <1>a, <3>1, <3>4, ActorWork
      <4>2. Scope(o) # Scope(e)
        BY <1>b, <3>2, <3>3, <4>1 DEF Occupies, Live, Mapped
      <4> QED
        BY <1>e, <3>2, <4>1, <4>2
    <3> QED
      BY <3>1, <3>4, ActorFates
  <2> QED
    BY <2>1, <2>2
<1> QED
  BY <1>1, <1>2

LEMMA ActorKeeps ==
  ASSUME IInv, NEW k \in Actors, ActorStep(k)
  PROVE  IInv'
BY ActorTypeOK, ActorRoles, ActorStarted, ActorMapped, ActorServed, ActorLocking, ActorClosers,
   ActorDrained, ActorShown DEF IInv

-----------------------------------------------------------------------------
(* The tasks.                                                              *)

\* How a task gets on.
LEMMA WorkMoves ==
  ASSUME IInv, NEW w \in Work, WorkStep(w)
  PROVE  /\ work[w] \notin {"free", "admitted"} /\ work'[w] \notin {"free", "admitted", "running"}
         /\ Live(w)' => Live(w)
         /\ w \in Executes /\ Occupies(w)' => Occupies(w)
         /\ w \in Dispatches /\ Submitted(w)' => Submitted(w)
         /\ Settled(w) => Settled(w)'
         /\ \/ registered' = registered
            \/ /\ registered' = [registered EXCEPT ![Scope(w)] = None] /\ w \in Executes
               /\ Occupies(w) /\ ~Occupies(w)'
         /\ \/ tracked' = tracked
            \/ tracked' = tracked \ {w} /\ ~Submitted(w)'
         /\ \/ error' = error
            \/ w \in Executes /\ Occupies(w) /\ error' = [error EXCEPT ![on[w]] = w]
         /\ UNCHANGED receipts
<1> USE DEF TaskOnly, Holds, sessions, Occupies, Submitted, Live, Settled
<1>a. /\ work = [o \in Work |-> work[o]] /\ Executes \subseteq Work /\ Dispatches \subseteq Work
      /\ Executes \cap Dispatches = {}
  BY DEF IInv, TypeOK, Work
<1>1. CASE Notify(w)
  BY <1>a, <1>1 DEF Notify
<1>2. CASE w \in Executes /\ Report(w)
  BY <1>a, <1>2 DEF Report
<1>3. CASE w \in Executes /\ Leave(w)
  BY <1>a, <1>3 DEF Leave
<1>4. CASE w \in Executes /\ Settle(w)
  BY <1>a, <1>4 DEF Settle
<1>5. CASE w \in Executes /\ Observe(w)
  BY <1>a, <1>5 DEF Observe
<1>6. CASE w \in Dispatches /\ SetupReturns(w)
  BY <1>a, <1>6 DEF SetupReturns
<1>7. CASE w \in Dispatches /\ Withdraw(w)
  BY <1>a, <1>7 DEF Withdraw
<1>8. CASE w \in Executes /\ RunReturns(w)
  BY <1>a, <1>8 DEF RunReturns
<1>9. CASE w \in Dispatches /\ JoinReturns(w)
  BY <1>a, <1>9 DEF JoinReturns
<1>10. CASE w \in Executes /\ DropRun(w)
  BY <1>a, <1>10 DEF DropRun
<1> QED
  BY <1>1, <1>2, <1>3, <1>4, <1>5, <1>6, <1>7, <1>8, <1>9, <1>10 DEF WorkStep, TaskStep, Framework

LEMMA WorkKeeps ==
  ASSUME IInv, NEW w \in Work, WorkStep(w)
  PROVE  IInv'
<1>a. /\ UNCHANGED <<connected, fenced, session, services, again, lock, at, on, target>>
      /\ UNCHANGED <<todo, left, holder, receipts, cancelled>>
      /\ \A o \in Work \ {w} : work'[o] = work[o]
      /\ tracked' \subseteq tracked
  <2>1. work' = [work EXCEPT ![w] = work'[w]] /\ work = [o \in Work |-> work[o]]
    BY WorkFrame DEF IInv, TypeOK
  <2>2. \A o \in Work \ {w} : work'[o] = work[o]
    BY <2>1
  <2> QED
    BY <2>2, WorkFrame
<1>b. /\ Executes \subseteq Work /\ Dispatches \subseteq Work /\ Executes \cap Dispatches = {} /\ None \notin Work
      /\ \A o : Scope(o)' = Scope(o)
  BY <1>a DEF Actors, Calls, Work, Scope
<1>c. /\ \A o \in Work : Live(o)' => Live(o)
      /\ \A e \in Executes : Occupies(e)' => Occupies(e)
      /\ \A d \in Dispatches : Submitted(d)' => Submitted(d)
      /\ \A o \in Work : Settled(o) => Settled(o)'
      /\ \A o \in Work : (work'[o] = "free" <=> work[o] = "free") /\ (work'[o] = "admitted" <=> work[o] = "admitted")
      /\ \A o \in Work : work'[o] = "running" => work[o] = "running" /\ o # w
  <2>1. ASSUME NEW o \in Work, o # w
        PROVE  /\ Live(o)' <=> Live(o)
               /\ Occupies(o)' <=> Occupies(o)
               /\ Submitted(o)' <=> Submitted(o)
               /\ Settled(o)' <=> Settled(o)
               /\ work'[o] = work[o]
    BY <1>a, <2>1 DEF Live, Occupies, Submitted, Settled
  <2> QED
    BY <1>b, <2>1, WorkMoves
<1>1. TypeOK' /\ IsFiniteSet(tracked')
  BY WorkTypeOK
<1>2. Roles'
  <2>1. \A o \in Actors : at[o] = "drop" => target[o] \in Work /\ Settled(target[o])
    BY DEF IInv, Roles, Looks
  <2>2. \A o \in Actors : at[o] = "drop" => Settled(target[o])'
    BY <1>a, <1>c, <2>1 DEF Settled
  <2> QED
    BY <1>a, <2>2 DEF IInv, Roles
<1>3. Started'
  BY <1>a, <1>b, <1>c DEF IInv, Started
<1>p. \A p \in Scopes : registered'[p] \in {registered[p], None}
  BY WorkMoves DEF IInv, TypeOK
<1>4. Mapped'
  <2>1. ASSUME NEW e \in Executes, Occupies(e)', Scope(e) \notin again
        PROVE  registered'[Scope(e)] = e
    <3>1. registered[Scope(e)] = e /\ Occupies(e)
      BY <1>c, <2>1 DEF IInv, Mapped
    <3>2. CASE registered' = registered
      BY <3>1, <3>2
    <3>3. CASE /\ registered' = [registered EXCEPT ![Scope(w)] = None] /\ w \in Executes
               /\ Occupies(w) /\ ~Occupies(w)'
      <4>1. Scope(w) # Scope(e)
        BY <2>1, <3>1, <3>3 DEF IInv, Mapped
      <4> QED
        BY <3>1, <3>3, <4>1
    <3> QED
      BY <3>2, <3>3, WorkMoves
  <2>2. ASSUME NEW a \in Dispatches, Submitted(a)'
        PROVE  a \in tracked'
    BY <1>b, <1>c, <2>2, WorkMoves DEF IInv, Mapped
  <2>3. \A p \in Scopes : registered'[p] # None => on'[registered'[p]] \in Sessions /\ Scope(registered[p])' = p
    <3>1. ASSUME NEW p \in Scopes, registered'[p] # None
          PROVE  on'[registered'[p]] \in Sessions /\ Scope(registered[p])' = p
      <4>1. registered'[p] = registered[p] /\ on[registered[p]] \in Sessions /\ Scope(registered[p]) = p
        BY <1>p, <3>1, Begun
      <4> QED
        BY <1>a, <4>1 DEF Scope
    <3> QED
      BY <3>1
  <2>4. \A a \in tracked' : work'[a] # "free"
    BY <1>a, <1>b, <1>c, Begun
  <2> QED
    BY <1>1, <1>a, <1>b, <2>1, <2>2, <2>3, <2>4 DEF Mapped
<1>5. Served'
  BY <1>a, <1>b, <1>c DEF IInv, Served, Serving, Readers
<1>6. Locking'
  BY <1>a, <1>b DEF IInv, Locking, OnRuns, Scope
<1>7. Closers'
  <2>1. ASSUME NEW c \in Closes, at[c] \in {"release"} \cup Phase, Scope(c) \notin again
        PROVE  /\ at[c] = "runs" /\ todo[c] = {} => registered'[Scope(c)] = None
               /\ OnRuns(c) /\ at[c] # "runs" => registered'[Scope(c)] \in {target[c], None}
               /\ OnAttempts(c) =>
                    /\ registered'[Scope(c)] = None /\ todo[c] \subseteq {Scope(c)}
                    /\ todo[c] = {} => \A a \in tracked' : Scope(a) = Scope(c) => a \in left[c]
               /\ at[c] = "rest" =>
                    registered'[Scope(c)] = None /\ \A a \in tracked' : Scope(a) # Scope(c)
               /\ at[c] = "release" => \A o \in Work : on[o] = on[c] => ~Live(o)'
    <3>1. Scope(c) \in Scopes
      BY <2>1, Locked DEF Scope
    <3> QED
      BY <1>a, <1>c, <1>p, <2>1, <3>1 DEF IInv, Closers
  <2> QED
    BY <1>a, <1>b, <2>1 DEF Closers, OnRuns, OnAttempts
<1>8. Drained'
  <2>1. /\ OnRuns(Host) => \A p \in Scopes : registered'[p] # None => p \in todo[Host]
        /\ OnAttempts(Host) =>
              /\ \A p \in Scopes : registered'[p] = None
              /\ \A a \in tracked' : Scope(a) \in todo[Host] \/ a \in left[Host]
        /\ at[Host] \in {"rest", "closed"} => tracked' = {} /\ \A p \in Scopes : registered'[p] = None
    BY <1>a, <1>p DEF IInv, Drained
  <2>2. OnRuns(Host) /\ at[Host] # "runs" => registered'[Scope(target[Host])] \in {target[Host], None}
    <3>1. OnRuns(Host) /\ at[Host] # "runs" => Scope(target[Host]) \in Scopes
      BY DEF IInv, Roles, OnRuns, Looks, Scope, Actors
    <3> QED
      BY <1>p, <3>1 DEF IInv, Drained
  <2>3. /\ at[Host] # "idle" => fenced
        /\ at[Host] = "locks" => \A s \in Sessions : Readers(s)' # {} => s \in left[Host]
        /\ at[Host] \notin {"idle", "locks"} => \A s \in Sessions : Readers(s)' = {}
    BY <1>a DEF IInv, Drained, Readers
  <2> QED
    BY <1>a, <1>b, <2>1, <2>2, <2>3 DEF Drained, OnRuns, OnAttempts
<1>9. Shown'
  <2>1. ASSUME NEW e \in Executes, on[e] \in Sessions, Scope(e) \notin again
        PROVE  /\ work'[e] = "running" => error'[on[e]] = None
               /\ at[e] = "refuse" =>
                    ~connected /\ \A o \in Executes : work'[o] = "running" => Scope(o) # Scope(e)
    <3>1. ASSUME work'[e] = "running"
          PROVE  error'[on[e]] = None
      <4>1. work[e] = "running" /\ e # w /\ error[on[e]] = None
        BY <1>b, <1>c, <2>1, <3>1 DEF IInv, Shown
      <4>2. w \in Executes /\ Occupies(w) => on[w] # on[e]
        <5>1. registered[Scope(e)] = e
          BY <2>1, <4>1 DEF IInv, Mapped, Occupies, Live
        <5>2. w \in Executes /\ Occupies(w) /\ Scope(w) = Scope(e) => registered[Scope(e)] = w
          BY <2>1 DEF IInv, Mapped
        <5> QED
          BY <4>1, <5>1, <5>2 DEF Scope
      <4>3. error \in [Sessions -> Executes \cup {None}]
        BY DEF IInv, TypeOK
      <4> QED
        BY <2>1, <4>1, <4>2, <4>3, WorkMoves
    <3>2. at[e] = "refuse" =>
            ~connected /\ \A o \in Executes : work'[o] = "running" => Scope(o) # Scope(e)
      BY <1>b, <1>c, <2>1 DEF IInv, Shown
    <3> QED
      BY <3>1, <3>2
  <2> QED
    BY <1>a, <1>b, <2>1 DEF Shown
<1> QED
  BY <1>1, <1>2, <1>3, <1>4, <1>5, <1>6, <1>7, <1>8, <1>9 DEF IInv

-----------------------------------------------------------------------------
(* The whole system.                                                       *)

LEMMA LoadKeeps ==
  ASSUME IInv, NEW s \in Sessions, Load(s)
  PROVE  IInv'
<1>a. /\ UNCHANGED <<connected, fenced, again, lock, at, on, target, enabled, todo, left, holder, receipts>>
      /\ UNCHANGED <<registered, tracked, work, background, cancelled, error>>
      /\ connected /\ ~fenced /\ session[s] = "absent"
      /\ \A n \in Sessions : ScopeOf[n] = ScopeOf[s] => session[n] \in {"absent", "freed", "released"}
      /\ session' = [session EXCEPT ![s] = "open"]
      /\ services' = [services EXCEPT ![ScopeOf[s]] = s]
  BY DEF Load, waiting
<1>b. /\ session \in [Sessions -> {"absent", "open", "closing", "freed", "released"}]
      /\ services \in [Scopes -> Sessions \cup {None}]
  BY DEF IInv, TypeOK
<1>c. session'[s] = "open" /\ \A n \in Sessions \ {s} : session'[n] = session[n]
  BY <1>a, <1>b
<1>1. TypeOK'
  <2>1. /\ session' \in [Sessions -> {"absent", "open", "closing", "freed", "released"}]
        /\ services' \in [Scopes -> Sessions \cup {None}]
    BY <1>a, <1>b
  <2> QED
    BY <1>a, <2>1 DEF IInv, TypeOK
<1>2. Roles' /\ Started' /\ Mapped' /\ Closers' /\ Drained' /\ Shown'
  BY <1>a DEF IInv, Roles, Settled, Started, Mapped, Occupies, Submitted, Live, Scope, Closers, OnRuns,
               OnAttempts, Drained, Readers, Shown
<1>3. Served'
  <2>1. \A x, n \in Sessions : Serving(x)' /\ Serving(n)' /\ ScopeOf[x] = ScopeOf[n] => x = n
    <3>1. \A n \in Sessions : ScopeOf[n] = ScopeOf[s] => ~Serving(n)
      BY <1>a DEF Serving
    <3>2. \A n \in Sessions : Serving(n)' => n = s \/ Serving(n)
      BY <1>c DEF Serving
    <3> QED
      BY <3>1, <3>2 DEF IInv, Served
  <2>2. \A x \in Sessions : Readers(x)' # {} => Serving(x)' /\ lock'[x] = None
    BY <1>a, <1>c DEF IInv, Served, Serving, Readers
  <2>3. \A x \in Sessions : session'[x] = "released" /\ ScopeOf[x] \notin again' =>
          \A w \in Work : on'[w] = x => ~Live(w)'
    BY <1>a, <1>c DEF IInv, Served, Live
  <2> QED
    BY <1>a, <2>1, <2>2, <2>3 DEF Served
<1>4. Locking'
  <2>1. ASSUME NEW c \in Closes, at[c] \in {"lock", "release"} \cup Phase
        PROVE  session'[on[c]] = session[on[c]]
    <3>1. session[on[c]] # "absent" /\ on[c] \in Sessions
      BY <2>1 DEF IInv, Locking, Roles, Calls, Phase, Looks
    <3> QED
      BY <1>a, <1>c, <3>1
  <2> QED
    BY <1>a, <2>1 DEF IInv, Locking, OnRuns, Scope
<1> QED
  BY <1>1, <1>2, <1>3, <1>4 DEF IInv

LEMMA DisconnectKeeps ==
  ASSUME IInv, Disconnect \/ UNCHANGED vars
  PROVE  IInv'
<1>a. /\ UNCHANGED <<fenced, session, services, again, lock, at, on, target, enabled, todo, left, holder>>
      /\ UNCHANGED <<receipts, registered, tracked, work, background, cancelled, error>>
      /\ connected' \in {connected, FALSE}
  BY DEF Disconnect, vars, sessions, waiting
<1>1. TypeOK'
  BY <1>a DEF IInv, TypeOK
<1>2. Roles' /\ Started' /\ Mapped' /\ Closers' /\ Drained' /\ Locking' /\ Served'
  BY <1>a DEF IInv, Roles, Settled, Started, Mapped, Occupies, Submitted, Live, Scope, Closers, OnRuns,
               OnAttempts, Drained, Readers, Locking, Served, Serving
<1>3. Shown'
  BY <1>a DEF IInv, Shown, Scope
<1> QED
  BY <1>1, <1>2, <1>3 DEF IInv

LEMMA Initially ==
  ASSUME Init
  PROVE  IInv
<1>a. /\ Calls \subseteq Actors /\ Host \in Actors /\ Host \notin Calls /\ Work \subseteq Calls
      /\ Closes \subseteq Calls /\ Executes \subseteq Work /\ Dispatches \subseteq Work
      /\ Graphs \subseteq Calls /\ Asks \subseteq Calls
  BY DEF Actors, Calls, Work
<1>b. PICK plan \in Plans :
        /\ at = [k \in Actors |-> IF k \in plan \cup {Host} THEN "idle" ELSE "over"]
        /\ session = [s \in Sessions |-> IF s \in plan THEN "absent" ELSE "released"]
  BY DEF Init
<1>c. (\A k \in Actors : at[k] \in {"idle", "over"}) /\ at[Host] = "idle"
  BY <1>a, <1>b
<1>d. \A s \in Sessions : session[s] \in {"absent", "released"}
  BY <1>b
<1>e. /\ \A w \in Work : work[w] = "free"
      /\ \A c \in Calls : on[c] = None
      /\ None \notin Sessions /\ None \notin Calls
  BY <1>a DEF Init, Actors
<1>1. TypeOK
  <2>1. at \in [Actors -> Steps] /\ session \in [Sessions -> {"absent", "open", "closing", "freed", "released"}]
    BY <1>b DEF Steps
  <2>2. Cardinality(tracked) <= MaxOpenHandles
    BY FS_EmptySet DEF Init
  <2>3. /\ connected \in BOOLEAN /\ fenced \in BOOLEAN
        /\ services \in [Scopes -> Sessions \cup {None}]
        /\ lock \in [Sessions -> Calls \cup {None}] /\ on \in [Calls -> Sessions \cup {None}]
        /\ target \in [Actors -> Work \cup {None}] /\ enabled \subseteq Actors
        /\ todo \in [Actors -> SUBSET Scopes] /\ left \in [Actors -> SUBSET (Dispatches \cup Sessions)]
    BY DEF Init
  <2>4. /\ holder \in [Sessions -> Dispatches \cup {None}]
        /\ receipts \in [Sessions -> [Keys -> Dispatches \cup {None}]]
        /\ registered \in [Scopes -> Executes \cup {None}] /\ tracked \subseteq Dispatches
        /\ background \in [Dispatches -> {"ok", "error", None}] /\ cancelled \subseteq Work
        /\ error \in [Sessions -> Executes \cup {None}] /\ again \subseteq Scopes
    BY DEF Init
  <2>5. work = [w \in Work |-> "free"]
    BY DEF Init
  <2> QED
    BY <2>1, <2>2, <2>3, <2>4, <2>5 DEF TypeOK
<1>2. Roles
  <2>1. \A k \in Actors : left[k] = {}
    BY DEF Init
  <2> QED
    BY <1>a, <1>c, <1>e, <2>1 DEF Roles, Looks
<1>3. Started
  BY <1>a, <1>c, <1>e DEF Started
<1>4. Mapped
  <2>1. tracked = {} /\ \A p \in Scopes : registered[p] = None
    BY DEF Init
  <2> QED
    BY <1>a, <1>e, <2>1, FS_EmptySet DEF Mapped, Occupies, Submitted, Live
<1>5. Served
  <2>1. \A s \in Sessions : ~Serving(s)
    BY <1>d DEF Serving
  <2>2. \A s \in Sessions : Readers(s) = {}
    BY <1>a, <1>c DEF Readers
  <2> QED
    BY <1>a, <1>d, <1>e, <2>1, <2>2 DEF Served, Live, Init
<1>6. Locking /\ Closers
  BY <1>a, <1>c DEF Locking, Closers, OnRuns, Phase, Looks
<1>7. Drained
  BY <1>a, <1>c DEF Drained, OnRuns, OnAttempts, Looks
<1>8. Shown
  BY <1>a, <1>c, <1>e DEF Shown
<1> QED
  BY <1>1, <1>2, <1>3, <1>4, <1>5, <1>6, <1>7, <1>8 DEF IInv

LEMMA WhoMoves ==
  ASSUME Next
  PROVE  \/ \E s \in Sessions : Load(s)
         \/ \E k \in Actors : ActorStep(k)
         \/ \E w \in Work : WorkStep(w)
         \/ Disconnect
<1>a. Calls \subseteq Actors /\ Host \in Actors /\ Executes \subseteq Work
  BY DEF Actors, Work
<1>1. CASE \E s \in Sessions : Load(s) \/ \E c \in Calls : Begin(c, s)
  <2>1. PICK s \in Sessions : Load(s) \/ \E c \in Calls : Begin(c, s)
    BY <1>1
  <2>2. CASE Load(s)
    BY <2>2
  <2>3. CASE \E c \in Calls : Begin(c, s)
    BY <1>a, <2>3 DEF ActorStep
  <2> QED
    BY <2>1, <2>2, <2>3
<1>2. CASE \E c \in Calls : CallStep(c) \/ LeaveStore(c) \/ Ask(c)
  BY <1>a, <1>2 DEF ActorStep
<1>3. CASE \E k \in Actors : WaitStep(k)
  BY <1>3 DEF ActorStep
<1>4. CASE \E w \in Work : TaskStep(w) \/ Framework(w)
  BY <1>4 DEF WorkStep
<1>5. CASE \E e \in Executes : DropRun(e)
  BY <1>a, <1>5 DEF WorkStep
<1>6. CASE Fence \/ HostStep \/ Timeout
  BY <1>a, <1>6 DEF ActorStep
<1> QED
  BY <1>1, <1>2, <1>3, <1>4, <1>5, <1>6 DEF Next

LEMMA NextKeeps ==
  ASSUME IInv, [Next]_vars
  PROVE  IInv'
<1>1. CASE Next
  BY <1>1, WhoMoves, LoadKeeps, ActorKeeps, WorkKeeps, DisconnectKeeps
<1>2. CASE UNCHANGED vars
  BY <1>2, DisconnectKeeps
<1> QED
  BY <1>1, <1>2

(* The invariant holds of every behaviour.                                 *)
THEOREM Inductively == Spec => []IInv
<1>1. Init => IInv
  BY Initially
<1>2. IInv /\ [Next]_vars => IInv'
  BY NextKeeps
<1> QED
  BY <1>1, <1>2, PTL DEF Spec

(* Types are kept: where a request may stand, whom it waits for, and a map *)
(* of attempts that has no more than max_subagents.                        *)
THEOREM TypeCorrect == Spec => []TypeOK
<1>1. IInv => TypeOK
  BY DEF IInv
<1> QED
  BY <1>1, Inductively, PTL

LEMMA Owned ==
  ASSUME IInv
  PROVE  WorkIsOwned
<1>1. ASSUME NEW w \in Work, Live(w), Scope(w) \notin again
      PROVE  /\ IF w \in Executes THEN registered[Scope(w)] = w ELSE w \in tracked
             /\ session[on[w]] # "released" /\ at[Host] # "closed"
  <2>1. on[w] \in Sessions
    BY <1>1 DEF Live, IInv, Started
  <2>2. IF w \in Executes THEN registered[Scope(w)] = w ELSE w \in tracked
    BY <1>1 DEF IInv, Mapped, Occupies, Submitted, Work
  <2>3. session[on[w]] # "released"
    BY <1>1, <2>1 DEF IInv, Served, Scope
  <2>4. at[Host] # "closed"
    <3>1. Scope(w) \in Scopes /\ w # None
      BY <2>1 DEF Scope, Actors, Calls, Work
    <3> QED
      BY <2>2, <3>1 DEF IInv, Drained
  <2> QED
    BY <2>2, <2>3, <2>4
<1>2. ASSUME NEW a \in Dispatches, NEW b \in Dispatches, a # b, work[a] # "free", work[b] # "free",
             on[a] = on[b]
      PROVE  KeyOf[a] # KeyOf[b] \/ KeyOf[a] = None
  BY <1>2 DEF IInv, Started
<1> QED
  BY <1>1, <1>2 DEF WorkIsOwned

(* What the framework may be at work on is in its map, under a Session     *)
(* whose handle has not been released and a Host that has not closed, and  *)
(* one idempotency id has started one attempt: for any number of Sessions  *)
(* and scopes, requests, closes and drains.                                *)
THEOREM WorkOwned == Spec => []WorkIsOwned
<1>1. IInv => WorkIsOwned
  BY Owned
<1> QED
  BY <1>1, Inductively, PTL

\* The failure that is shown.
Told ==
  \A e \in Executes : work[e] = "running" /\ Scope(e) \notin again => error[on[e]] = None
Forgets ==
  \A s \in Sessions : error[s] # None /\ error'[s] = None /\ ScopeOf[s] \notin again =>
    \E e \in Executes : on[e] = s /\ work[e] = "admitted" /\ registered[ScopeOf[s]] = e

LEMMA ActorForgets ==
  ASSUME IInv, NEW k \in Actors, ActorStep(k)
  PROVE  Forgets
<1> SUFFICES ASSUME NEW s \in Sessions, error[s] # None, error'[s] = None, ScopeOf[s] \notin again
             PROVE  \E e \in Executes : on[e] = s /\ work[e] = "admitted" /\ registered[ScopeOf[s]] = e
  BY DEF Forgets
<1>1. k # None
  BY DEF Actors
<1>2. at[k] = "spawn" /\ k \in Executes /\ on[k] = s
  BY <1>1, ActorTells
<1>3. work[k] = "admitted"
  BY <1>2 DEF IInv, Started
<1>4. registered[ScopeOf[s]] = k
  BY <1>2, <1>3 DEF IInv, Mapped, Occupies, Scope
<1> QED
  BY <1>2, <1>3, <1>4

LEMMA WorkForgets ==
  ASSUME IInv, NEW w \in Work, WorkStep(w)
  PROVE  Forgets
<1>1. error \in [Sessions -> Executes \cup {None}] /\ w # None
  BY DEF IInv, TypeOK, Actors, Calls, Work
<1>2. \A s \in Sessions : error'[s] \in {error[s], w}
  BY <1>1, WorkMoves
<1> QED
  BY <1>1, <1>2 DEF Forgets

(* An execution that runs has no failure of an earlier one beside it, and  *)
(* only one that has been admitted, and is still registered, forgets it.   *)
THEOREM FailuresLast == Spec => FailuresStand
<1>1. IInv => Told
  BY DEF IInv, Shown, Started, Told, Work
<1>2. IInv /\ [Next]_vars => [Forgets]_vars
  <2>1. ASSUME IInv, Next
        PROVE  Forgets \/ UNCHANGED vars
    <3>1. ASSUME NEW s \in Sessions, Load(s)
          PROVE  Forgets
      BY <3>1 DEF Load, Forgets
    <3>2. Disconnect => Forgets
      BY DEF Disconnect, Forgets
    <3> QED
      BY <2>1, <3>1, <3>2, WhoMoves, ActorForgets, WorkForgets
  <2> QED
    BY <2>1
<1>3. FailuresStand <=> []Told /\ [][Forgets]_vars
  BY DEF FailuresStand, Told, Forgets
<1> QED
  BY <1>1, <1>2, <1>3, Inductively, PTL DEF Spec
===============================================================================
