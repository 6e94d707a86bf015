------------------------- MODULE FacadeStreamProofs -------------------------
(***************************************************************************)
(* A facade stream's address outlives its source, for any number of pulls, *)
(* closers and sweepers and any number of items.                           *)
(*                                                                         *)
(* `settled` may be taken back, and `error` may come and go, so neither    *)
(* says at a later step what it said when it was read.  What lasts is the  *)
(* collector's join: a producer that has exited binds no callback, and a   *)
(* callback stays closed.  The one late error is the observation of a pull *)
(* (PullDecide), which the receiver's lock keeps away from another pull's  *)
(* commit.                                                                 *)
(***************************************************************************)
EXTENDS FacadeStream, SequenceTheorems, TLAPS

USE FreeIsNoPull

Stages == {"idle", "lock", "recv", "eof", "exit", "decide", "settle",
           "commit", "close", "sweep", "release"}

\* Nothing more can happen at the source.
Over == joined /\ ~CallbackOpen

\* The collector joins a producer that has exited; what is settled is over and known.
Joins ==
  /\ joined => attached /\ producer = "exit"
  /\ attached /\ settled => Over /\ ~error
  /\ ~recorded => Over

\* No call begins before attach_background has run.
Starts == \A c \in Calls : at[c] # "idle" => attached

\* A pull that is past the receiver's lock holds it.
Locks ==
  \A p \in Pulls :
    at[p] \in {"recv", "eof", "exit", "decide", "settle", "commit"} => holder = p

\* The stages between the last look at the observation and the release.
Looks ==
  /\ \A p \in Pulls : at[p] = "commit" => settled
  /\ \A c \in Calls : at[c] = "release" => Over

Typed == at \in [Calls -> Stages]

IInv == Typed /\ Joins /\ Starts /\ Locks /\ Looks

LEMMA InitSound == Init => IInv
BY DEF Init, IInv, Typed, Stages, Joins, Over, CallbackOpen, Starts, Locks, Looks, Calls
-----------------------------------------------------------------------------
(* Steps of the source leave every call where it is.                       *)

LEMMA SourceSound ==
  ASSUME IInv, Source
  PROVE  IInv' /\ ReleasesSettled
<1> USE DEF IInv, Typed, Joins, Starts, Locks, Looks, Over, CallbackOpen,
            ReleasesSettled, calls, Producing
<1> \A p \in Pulls : p \in Calls
  BY DEF Calls
<1>1. CASE Attach
  \* No call has begun, so none is about to commit or to release.
  <2>1. (\A c \in Calls : at[c] = "idle") /\ ~joined
    BY <1>1 DEF Attach
  <2> QED
    BY <1>1, <2>1 DEF Attach, registry
<1>2. CASE BindCallback
  BY <1>2 DEF BindCallback
<1>3. CASE Yield
  BY <1>3 DEF Yield, observation
<1>4. CASE YieldObservation
  BY <1>4 DEF YieldObservation, RecordObservation
<1>5. CASE Send
  BY <1>5 DEF Send, observation
<1>6. CASE StopSource
  BY <1>6 DEF StopSource, observation
<1>7. CASE DrainObservation
  BY <1>7 DEF DrainObservation, RecordObservation
<1>8. CASE EndSource
  BY <1>8 DEF EndSource, observation
<1>9. CASE Panic
  BY <1>9 DEF Panic, observation
<1>10. CASE Collect
  BY <1>10 DEF Collect, JoinSettles
<1>11. CASE CallbackCloses
  BY <1>11 DEF CallbackCloses, ClosureSettles
<1>12. CASE CallbackObserves
  BY <1>12 DEF CallbackObserves, RecordObservation
<1> QED
  BY <1>1, <1>2, <1>3, <1>4, <1>5, <1>6, <1>7, <1>8, <1>9, <1>10, <1>11, <1>12 DEF Source
-----------------------------------------------------------------------------
(* Pulls.                                                                  *)

LEMMA PullSound ==
  ASSUME IInv, NEW p \in Pulls, Pull(p)
  PROVE  IInv' /\ ReleasesSettled
<1> USE DEF IInv, Typed, Stages, Joins, Starts, Locks, Looks, Over, CallbackOpen,
            ReleasesSettled, Moves, Returns, Takes, source, observation, registry
<1> p \in Calls /\ p # None /\ \A q \in Pulls : q \in Calls
  BY DEF Calls
<1>1. CASE PullEnter(p)
  BY <1>1 DEF PullEnter
<1>2. CASE PullLock(p)
  BY <1>2 DEF PullLock, ReceiverFree
<1>3. CASE PullReceive(p)
  BY <1>3 DEF PullReceive
<1>4. CASE PullEndOfQueue(p)
  BY <1>4 DEF PullEndOfQueue
<1>5. CASE PullExit(p)
  BY <1>5 DEF PullExit
<1>6. CASE PullDecide(p)
  \* The lock keeps every other pull from committing what p may take back.
  <2>1. \A q \in Pulls : at[q] = "commit" => q = p
    BY <1>6 DEF PullDecide
  <2>2. ~(\E q \in Pulls : at[q] = "commit")
    BY <1>6, <2>1 DEF PullDecide
  <2>3. CASE RecordObservation /\ Returns(p)
    BY <1>6, <2>2, <2>3 DEF PullDecide, RecordObservation
  <2>4. CASE UNCHANGED observation /\ (Returns(p) \/ Moves(p, "settle"))
    BY <1>6, <2>2, <2>4 DEF PullDecide
  <2> QED
    BY <1>6, <2>3, <2>4 DEF PullDecide
<1>7. CASE PullSettle(p)
  BY <1>7 DEF PullSettle
<1>8. CASE PullCommit(p)
  BY <1>8 DEF PullCommit, Finish
<1> QED
  BY <1>1, <1>2, <1>3, <1>4, <1>5, <1>6, <1>7, <1>8 DEF Pull
-----------------------------------------------------------------------------
(* Cancellation, closes, deadlines and dropped calls.                      *)

LEMMA CloseSound ==
  ASSUME IInv,
         \/ Cancel
         \/ \E c \in Closers : Close(c)
         \/ \E c \in Sweepers : Sweep(c)
         \/ \E c \in Calls : Deadline(c) \/ Drop(c)
  PROVE  IInv' /\ ReleasesSettled
<1> USE DEF IInv, Typed, Stages, Joins, Starts, Locks, Looks, Over, CallbackOpen,
            ReleasesSettled, Moves, Returns, source, observation, registry, calls
<1> \A q \in Pulls : q \in Calls
  BY DEF Calls
<1>1. CASE Cancel
  BY <1>1 DEF Cancel
<1>2. ASSUME NEW c \in Closers, Close(c)
      PROVE  IInv' /\ ReleasesSettled
  <2> c \in Calls
    BY DEF Calls
  <2>1. CASE CloseEnter(c)
    BY <2>1 DEF CloseEnter
  <2>2. CASE CloseFinish(c)
    BY <2>2 DEF CloseFinish, Finish
  <2> QED
    BY <1>2, <2>1, <2>2 DEF Close
<1>3. ASSUME NEW c \in Sweepers, Sweep(c)
      PROVE  IInv' /\ ReleasesSettled
  <2> c \in Calls
    BY DEF Calls
  <2>1. CASE SweepEnter(c)
    BY <2>1 DEF SweepEnter
  <2>2. CASE SweepSettle(c)
    BY <2>2 DEF SweepSettle
  <2>3. CASE SweepRelease(c)
    BY <2>3 DEF SweepRelease
  <2> QED
    BY <1>3, <2>1, <2>2, <2>3 DEF Sweep
<1>4. ASSUME NEW c \in Calls, Deadline(c)
      PROVE  IInv' /\ ReleasesSettled
  BY <1>4 DEF Deadline
<1>5. ASSUME NEW c \in Calls, Drop(c)
      PROVE  IInv' /\ ReleasesSettled
  BY <1>5 DEF Drop
<1> QED
  BY <1>1, <1>2, <1>3, <1>4, <1>5
-----------------------------------------------------------------------------
LEMMA StepSound == IInv /\ [Next]_vars => IInv' /\ [ReleasesSettled]_vars
<1> SUFFICES ASSUME IInv, [Next]_vars
             PROVE  IInv' /\ [ReleasesSettled]_vars
  OBVIOUS
<1>1. CASE Next
  BY <1>1, SourceSound, PullSound, CloseSound DEF Next
<1>2. CASE UNCHANGED vars
  BY <1>2 DEF vars, source, observation, registry, calls, IInv, Typed, Joins, Starts,
              Locks, Looks, Over, CallbackOpen
<1> QED
  BY <1>1, <1>2

\* No call releases what the source may still use, and no pull passes another.
THEOREM Inductive == Spec => []IInv
BY InitSound, StepSound, PTL DEF Spec

\* The address of a stream is released only when its producer has been joined
\* and its callback is closed, and its record only when, besides, nothing about
\* it is unknown.
THEOREM AddressKept == Spec => AddressIsKept
BY InitSound, StepSound, PTL DEF Spec, AddressIsKept
-----------------------------------------------------------------------------
(* What pulls return.                                                      *)
(*                                                                         *)
(* An item is in the queue, in the hand of the pull that holds the         *)
(* receiver's lock, or given.  Until the stream is released or cancelled   *)
(* none is lost, so the next one given is the one that comes next.  The    *)
(* terminal tells how the source ended because whoever decides on it has   *)
(* seen the queue drained: by the end of the queue, by a failed item,      *)
(* which is always the last, or by an earlier pull's cleanup.  What it has *)
(* not seen is excused by a cancellation, by the close of the resource, or *)
(* by an observation without a callback, which no close takes back.        *)

ItemKinds == {"ok", "failed", "hint"}
Items == [what : ItemKinds, n : Nat]

Cut == resource # "open"
Flowing == stream = "open" /\ ~token
Lost == kind # "extension" /\ error
Sound == Flowing /\ ~Cut /\ ~Lost
Drained == outcome # "running" /\ queue = <<>>

\* The producer sends while its source runs, and finishes by exiting.
Produces ==
  /\ kind \in {"local", "extension", "channel"}
  /\ attached \in BOOLEAN /\ panicked \in BOOLEAN /\ cleanup \in BOOLEAN
  /\ producer \in {"run", "send", "drain", "exit"}
  /\ holding \in ItemKinds \cup {None}
  /\ outcome \in {"running", "finished", "failed"}
  /\ producer = "send" =>
       /\ outcome = "running" /\ holding \in ItemKinds
       /\ holding = "ok" => made < MaxItems
       /\ holding = "hint" => kind = "channel"
  /\ outcome = "finished" => producer = "exit"
  /\ panicked => producer = "exit" /\ outcome = "failed"
  /\ made \in 0..MaxItems
  /\ error \in BOOLEAN /\ joined \in BOOLEAN /\ settled \in BOOLEAN
  /\ bound \in BOOLEAN /\ closed \in BOOLEAN
  /\ bound => kind = "extension"
  /\ closed => bound

Queued ==
  /\ queue \in Seq(Items) /\ Len(queue) <= 1
  /\ queue # <<>> =>
       /\ queue[1].what # "ok" => outcome = "failed"
       /\ queue[1].what = "hint" => kind = "channel"

\* A pull holds an item only with the lock, and an item that it will not give
\* only after a cancellation.
Hands ==
  /\ item \in [Pulls -> Items \cup {None}]
  /\ holder \in Pulls \cup {None}
  /\ \A p \in Pulls :
       /\ item[p] # None => at[p] \in {"decide", "settle", "commit"}
       /\ Taken(p, "hint") => kind = "channel" /\ at[p] = "decide"
       /\ Taken(p, "failed") => outcome = "failed"
       /\ Taken(p, "ok") => at[p] = "decide" \/ token

\* The registry's record and what the client has been given agree.
Recorded ==
  /\ pendingFailure \in BOOLEAN /\ recorded \in BOOLEAN /\ token \in BOOLEAN
  /\ stream \in {"open", "released"}
  /\ resource \in {"open", "closing", "released"}
  /\ terminal \in {"complete", "failed", "cancelled", None}
  /\ terminal # None => stream = "released"
  /\ last = Len(given) /\ last \in Nat
  /\ last <= IF terminal = None THEN made ELSE made + 1
  /\ given \in Seq([seq : Nat, kind : {"item", "complete", "failed", "cancelled"}, item : Nat])
  /\ terminal = None => \A i \in DOMAIN given : given[i].kind = "item"

\* The items that have left the queue.
InHand == \E p \in Pulls : Taken(p, "ok")
Ahead == IF InHand THEN Len(given) + 1 ELSE Len(given)

\* No item is lost, and none overtakes another.
Contiguous ==
  Flowing =>
    /\ \A p \in Pulls : Taken(p, "ok") => item[p].n = Len(given) + 1
    /\ queue = <<>> => made = Ahead
    /\ queue # <<>> =>
         /\ queue[1].n = Ahead + 1
         /\ made = IF queue[1].what = "ok" THEN Ahead + 1 ELSE Ahead

\* What a pull may conclude from the stage it has come to.
Concludes ==
  /\ pendingFailure => outcome = "failed"
  /\ \A p \in Pulls :
       /\ at[p] \in {"recv", "eof", "exit"} => ~pendingFailure
       /\ Taken(p, "failed") => at[p] = "decide" \/ pendingFailure
  /\ Sound =>
       /\ producer \in {"drain", "exit"} => outcome # "running"
       /\ cleanup \/ pendingFailure => Drained
       /\ \A p \in Pulls :
            /\ at[p] \in {"eof", "exit"} => Drained
            /\ at[p] \in {"decide", "settle", "commit"} /\ item[p] = None =>
                 Drained /\ outcome = "finished"
            /\ Taken(p, "failed") => Drained
       /\ outcome = "failed" =>
            \/ panicked \/ pendingFailure
            \/ queue # <<>> /\ queue[1].what # "ok"
            \/ \E p \in Pulls : Taken(p, "failed") \/ Taken(p, "hint")

Delivers == Produces /\ Queued /\ Hands /\ Recorded /\ Contiguous /\ Concludes
-----------------------------------------------------------------------------
(* Steps of the source.                                                    *)

LEMMA Absence == None \notin Items
BY NoneIsAbsence DEF Items, ItemKinds

LEMMA SourceKeeps ==
  ASSUME Delivers, Source
  PROVE  /\ UNCHANGED <<stream, terminal, last, resource, holder, at, item, given,
                        pendingFailure, recorded, cleanup, kind>>
         /\ token => token'
         /\ made' >= made
BY BoundIsNatural DEF Delivers, Produces, Source, Producing, Attach, BindCallback, Yield,
   YieldObservation, Send, StopSource, DrainObservation, EndSource, Panic, Collect,
   CallbackCloses, CallbackObserves, calls, registry, observation

LEMMA SourceProduces ==
  ASSUME IInv, Delivers, Source
  PROVE  Produces'
<1> USE Absence, NoneIsAbsence, BoundIsNatural DEF Delivers, Produces, ItemKinds, Producing
<1>1. CASE Attach
  BY <1>1 DEF Attach, registry
<1>2. CASE BindCallback
  BY <1>2 DEF BindCallback
<1>3. CASE Yield
  BY <1>3 DEF Yield, observation
<1>4. CASE YieldObservation
  BY <1>4 DEF YieldObservation, RecordObservation
<1>5. CASE Send
  BY <1>5 DEF Send, observation
<1>6. CASE StopSource
  BY <1>6 DEF StopSource, observation, Interrupted
<1>7. CASE DrainObservation
  BY <1>7 DEF DrainObservation, RecordObservation
<1>8. CASE EndSource
  BY <1>8 DEF EndSource, observation
<1>9. CASE Panic
  BY <1>9 DEF Panic, observation
<1>10. CASE Collect
  BY <1>10 DEF Collect, JoinSettles
<1>11. CASE CallbackCloses
  BY <1>11 DEF CallbackCloses, ClosureSettles, CallbackOpen
<1>12. CASE CallbackObserves
  BY <1>12 DEF CallbackObserves, RecordObservation, CallbackOpen
<1> QED
  BY <1>1, <1>2, <1>3, <1>4, <1>5, <1>6, <1>7, <1>8, <1>9, <1>10, <1>11, <1>12 DEF Source

LEMMA SourceQueued ==
  ASSUME Delivers, Source
  PROVE  Queued'
<1>1. CASE Send
  <2> DEFINE sent == Item(holding, made + 1)
  <2>1. sent \in Items
    BY <1>1 DEF Delivers, Send, Produces, Items, Item
  <2>2. queue = <<>>
    BY <1>1 DEF Delivers, Queued, Send, HasRoom
  <2>3. queue' = <<sent>>
    BY <1>1, <2>1, <2>2 DEF Send
  <2> QED
    BY <1>1, <2>1, <2>3 DEF Delivers, Produces, Send, Producing, Queued, Item
<1>2. CASE ~Send
  BY <1>2, SourceKeeps DEF Delivers, Queued, Source, Attach, BindCallback, Yield, YieldObservation,
     StopSource, DrainObservation, EndSource, Panic, Collect, CallbackCloses, CallbackObserves,
     Produces
<1> QED
  BY <1>1, <1>2

LEMMA SourceHands ==
  ASSUME IInv, Delivers, Source
  PROVE  Hands' /\ Recorded'
<1>1. Hands'
  <2>1. outcome = "failed" => outcome' = "failed"
    BY DEF Delivers, Produces, Source, Attach, BindCallback, Yield,
       YieldObservation, Send, StopSource, DrainObservation, EndSource, Panic, Collect,
       CallbackCloses, CallbackObserves
  <2> QED
    BY <2>1, SourceKeeps DEF Delivers, Hands, Taken
<1>2. Recorded'
  <2>1. token' \in BOOLEAN
    BY DEF Delivers, Recorded, Source, Attach, BindCallback, Yield,
       YieldObservation, Send, StopSource, DrainObservation, EndSource, Panic, Collect,
       CallbackCloses, CallbackObserves, registry
  <2>2. made' \in Nat /\ made \in Nat
    BY SourceProduces, BoundIsNatural DEF Delivers, Produces
  <2> QED
    BY <2>1, <2>2, SourceKeeps DEF Delivers, Recorded
<1> QED
  BY <1>1, <1>2

\* Nobody takes an item in a step of the source.
LEMMA SourceAhead ==
  ASSUME Delivers, Source
  PROVE  Ahead' = Ahead /\ \A p \in Pulls, w \in ItemKinds : Taken(p, w)' <=> Taken(p, w)
BY SourceKeeps DEF Ahead, InHand, Taken

LEMMA SourceContiguous ==
  ASSUME Delivers, Source
  PROVE  Contiguous'
<1>1. CASE Send
  <2>1. queue = <<>>
    BY <1>1 DEF Delivers, Queued, Send, HasRoom
  <2>2. holding \in ItemKinds /\ made \in Nat
    BY <1>1, BoundIsNatural DEF Delivers, Produces, Send
  <2>3. queue' = <<[what |-> holding, n |-> made + 1]>>
    BY <1>1, <2>1, <2>2 DEF Send, Item
  <2>4. made' = IF holding = "ok" THEN made + 1 ELSE made
    BY <1>1 DEF Send
  <2>5. Flowing' => Flowing /\ made = Ahead
    BY <2>1, SourceKeeps DEF Flowing, Delivers, Contiguous
  <2> QED
    BY <2>2, <2>3, <2>4, <2>5, SourceKeeps, SourceAhead DEF Contiguous, Delivers, Taken, ItemKinds
<1>2. CASE ~Send
  <2>1. UNCHANGED <<queue, made>>
    BY <1>2 DEF Source, Attach, BindCallback, Yield, YieldObservation,
       StopSource, DrainObservation, EndSource, Panic, Collect, CallbackCloses, CallbackObserves
  <2>2. Flowing' => Flowing
    BY SourceKeeps DEF Flowing, Delivers, Recorded
  <2>3. Ahead' = Ahead
    BY SourceAhead
  <2> QED
    BY <2>1, <2>2, <2>3, SourceKeeps DEF Contiguous, Delivers, Taken
<1> QED
  BY <1>1, <1>2

LEMMA SourceConcludes ==
  ASSUME IInv, Delivers, Source
  PROVE  Concludes'
<1> USE DEF Delivers
<1>1. Sound' => Sound
  BY SourceKeeps DEF Sound, Flowing, Cut, Lost, Produces, Recorded, Source, Attach, BindCallback,
     Yield, YieldObservation, Send, StopSource, DrainObservation, EndSource, Panic, Collect,
     CallbackCloses, CallbackObserves, RecordObservation, observation, CallbackOpen
<1>2. outcome # "running" => UNCHANGED queue /\ outcome' # "running"
  BY DEF Produces, Source, Attach, BindCallback, Yield, YieldObservation,
     Send, StopSource, DrainObservation, EndSource, Panic, Collect, CallbackCloses, CallbackObserves
<1>3. Drained => Drained'
  BY <1>2 DEF Drained
<1>4. /\ outcome \in {"finished", "failed"} => outcome' = outcome
      /\ panicked => panicked'
  BY DEF Produces, Source, Attach, BindCallback, Yield, YieldObservation,
     Send, StopSource, DrainObservation, EndSource, Panic, Collect, CallbackCloses, CallbackObserves
<1>5. ASSUME Sound'
      PROVE  producer' \in {"drain", "exit"} => outcome' # "running"
  <2>1. CASE StopSource
    BY <1>1, <1>5, <2>1, SourceKeeps
       DEF StopSource, Interrupted, Sound, Flowing, Concludes, Drained, Produces, Recorded
  <2>2. CASE YieldObservation
    BY <1>1, <1>5, <2>2, SourceKeeps
       DEF YieldObservation, RecordObservation, Sound, Lost, Produces, Recorded, Concludes
  <2>3. CASE Send
    BY <1>1, <1>5, <2>3 DEF Send, Produces
  <2> QED
    BY <1>1, <1>5, <2>1, <2>2, <2>3 DEF Concludes, Produces, Source, Attach, BindCallback, Yield,
       DrainObservation, EndSource, Panic, Collect, CallbackCloses, CallbackObserves
<1>6. ASSUME Sound', outcome' = "failed"
      PROVE  \/ panicked' \/ pendingFailure'
             \/ queue' # <<>> /\ queue'[1].what # "ok"
             \/ \E p \in Pulls : Taken(p, "failed")' \/ Taken(p, "hint")'
  <2>1. CASE outcome = "failed"
    BY <1>1, <1>2, <1>4, <1>6, <2>1, SourceKeeps DEF Concludes, Taken
  <2>2. CASE outcome # "failed" /\ Send
    <3>1. queue = <<>> /\ holding \in ItemKinds /\ made \in Nat
      BY <2>2, BoundIsNatural DEF Produces, Queued, Send, HasRoom
    <3>2. queue' = <<[what |-> holding, n |-> made + 1]>> /\ holding # "ok"
      BY <1>6, <2>2, <3>1 DEF Send, Item
    <3> QED
      BY <3>2
  <2>3. CASE outcome # "failed" /\ ~Send
    BY <1>6, <2>3 DEF Produces, Source, Attach, BindCallback, Yield, YieldObservation, StopSource,
       DrainObservation, EndSource, Panic, Collect, CallbackCloses, CallbackObserves
  <2> QED
    BY <2>1, <2>2, <2>3
<1>7. pendingFailure' => outcome' = "failed"
  BY <1>4, SourceKeeps DEF Concludes
<1>8. \A p \in Pulls :
        /\ at'[p] \in {"recv", "eof", "exit"} => ~pendingFailure'
        /\ Taken(p, "failed")' => at'[p] = "decide" \/ pendingFailure'
  BY SourceKeeps DEF Concludes, Taken
<1>9. ASSUME Sound' PROVE cleanup' \/ pendingFailure' => Drained'
  BY <1>1, <1>3, <1>9, SourceKeeps DEF Concludes
<1>10. ASSUME Sound', NEW p \in Pulls
       PROVE  /\ at'[p] \in {"eof", "exit"} => Drained'
              /\ at'[p] \in {"decide", "settle", "commit"} /\ item'[p] = None =>
                   Drained' /\ outcome' = "finished"
              /\ Taken(p, "failed")' => Drained'
  <2>1. Taken(p, "failed")' => Taken(p, "failed")
    BY SourceKeeps DEF Taken
  <2> QED
    BY <1>1, <1>3, <1>4, <1>10, <2>1, SourceKeeps DEF Concludes
<1> QED
  BY <1>5, <1>6, <1>7, <1>8, <1>9, <1>10 DEF Concludes

LEMMA SourceDelivers ==
  ASSUME IInv, Delivers, Source
  PROVE  Delivers'
BY SourceProduces, SourceQueued, SourceHands, SourceContiguous, SourceConcludes DEF Delivers

LEMMA SourceImplements ==
  ASSUME IInv, Delivers, Source
  PROVE  Promise!Proceed
<1>1. /\ made' \in {made, made + 1}
      /\ outcome' \in {"running", "finished", "failed"}
      /\ made' # made \/ outcome' # outcome => outcome = "running"
  BY DEF Delivers, Produces, Source, Attach, BindCallback, Yield, YieldObservation,
     Send, StopSource, DrainObservation, EndSource, Panic, Collect, CallbackCloses, CallbackObserves
<1>2. Cancelled => Cancelled'
  BY SourceKeeps DEF Cancelled
<1> QED
  BY <1>1, <1>2, SourceKeeps DEF Promise!Proceed
-----------------------------------------------------------------------------
(* Steps of a pull.                                                        *)

Inside == {"recv", "eof", "exit", "decide", "settle", "commit"}

\* While a pull is past the lock, every other one is before it, with nothing.
LEMMA Alone ==
  ASSUME IInv, Delivers, NEW p \in Pulls, at[p] \in Inside
  PROVE  \A q \in Pulls \ {p} : at[q] \notin Inside /\ item[q] = None
BY DEF IInv, Locks, Delivers, Hands, Inside

\* What a pull does to its own stage, hand and lock.
LEMMA PullMoves ==
  ASSUME IInv, Delivers, NEW p \in Pulls, Pull(p)
  PROVE  /\ at' = [at EXCEPT ![p] = at'[p]]
         /\ item' = [item EXCEPT ![p] = item'[p]]
         /\ item' \in [Pulls -> Items \cup {None}]
         /\ holder' \in Pulls \cup {None}
<1> USE DEF Moves, Returns, Takes
<1> p \in Calls /\ at \in [Calls -> Stages] /\ item \in [Pulls -> Items \cup {None}]
  BY DEF IInv, Typed, Calls, Delivers, Hands
<1> holder \in Pulls \cup {None}
  BY DEF Delivers, Hands
<1> Item("failed", 0) \in Items
  BY DEF Item, Items, ItemKinds
<1>1. CASE PullEnter(p)
  BY <1>1 DEF PullEnter
<1>2. CASE PullLock(p)
  BY <1>2 DEF PullLock
<1>3. CASE PullReceive(p)
  <2>1. queue # <<>> => Head(queue) \in Items
    BY DEF Delivers, Queued
  <2> QED
    BY <1>3, <2>1 DEF PullReceive
<1>4. CASE PullEndOfQueue(p)
  BY <1>4 DEF PullEndOfQueue
<1>5. CASE PullExit(p)
  BY <1>5 DEF PullExit, ExitItem
<1>6. CASE PullDecide(p)
  BY <1>6 DEF PullDecide
<1>7. CASE PullSettle(p)
  BY <1>7 DEF PullSettle
<1>8. CASE PullCommit(p)
  BY <1>8 DEF PullCommit
<1> QED
  BY <1>1, <1>2, <1>3, <1>4, <1>5, <1>6, <1>7, <1>8 DEF Pull

\* A pull changes nothing of the source but an observation it takes.
LEMMA PullKeeps ==
  ASSUME IInv, Delivers, NEW p \in Pulls, Pull(p)
  PROVE  /\ UNCHANGED <<kind, attached, producer, holding, made, outcome, panicked, token,
                        joined, bound, closed>>
         /\ Produces'
         /\ Lost => Lost'
<1> USE DEF Delivers, Produces, Lost, source, observation, registry
<1>1. CASE PullDecide(p)
  <2>1. /\ UNCHANGED <<kind, attached, producer, holding, made, outcome, panicked, token>>
        /\ cleanup' = TRUE \/ UNCHANGED cleanup
        /\ RecordObservation \/ UNCHANGED observation
    BY <1>1 DEF PullDecide
  <2>2. CASE RecordObservation
    <3>1. /\ UNCHANGED <<kind, attached, producer, holding, made, outcome, panicked, token>>
          /\ UNCHANGED <<joined, bound, closed>>
      BY <2>1, <2>2 DEF RecordObservation
    <3>2. /\ error' = (error \/ ~closed) /\ settled' = (settled /\ closed)
          /\ cleanup' \in BOOLEAN /\ error' \in BOOLEAN /\ settled' \in BOOLEAN
      BY <2>1, <2>2 DEF RecordObservation
    <3> QED
      BY <3>1, <3>2
  <2>3. CASE UNCHANGED observation
    <3>1. UNCHANGED <<error, joined, bound, closed, settled>>
      BY <2>3
    <3>2. UNCHANGED <<kind, attached, producer, holding, made, outcome, panicked>>
      BY <2>1
    <3>3. cleanup' \in BOOLEAN
      BY <2>1
    <3>4. Produces'
      BY <3>1, <3>2, <3>3
    <3> QED
      BY <2>1, <3>1, <3>2, <3>4
  <2> QED
    BY <2>1, <2>2, <2>3
<1>2. CASE ~PullDecide(p)
  BY <1>2 DEF Pull, PullEnter, PullLock, PullReceive, PullEndOfQueue, PullExit, PullSettle,
     PullCommit
<1> QED
  BY <1>1, <1>2

LEMMA OneElement ==
  ASSUME NEW E, NEW q \in Seq(E), Len(q) <= 1, q # <<>>
  PROVE  Head(q) = q[1] /\ Tail(q) = <<>> /\ q[1] \in E
<1>1. Len(q) = 1
  <2> DEFINE n == Len(q)
  <2>1. n \in Nat \ {0} /\ n <= 1
    BY EmptySeq, Zenon
  <2> HIDE DEF n
  <2>2. n = 1
    BY <2>1
  <2> QED
    BY <2>2 DEF n
<1>2. Tail(q) \in Seq(E) /\ Len(Tail(q)) = 0
  BY <1>1, HeadTailProperties
<1>3. Tail(q) = <<>>
  BY <1>2, EmptySeq
<1>4. Head(q) = q[1] /\ Head(q) \in E
  BY HeadTailProperties
<1> QED
  BY <1>3, <1>4

LEMMA QueueOfOne ==
  ASSUME Delivers, queue # <<>>
  PROVE  Head(queue) = queue[1] /\ Tail(queue) = <<>> /\ queue[1] \in Items
<1>1. queue \in Seq(Items) /\ Len(queue) <= 1
  BY DEF Delivers, Queued
<1> QED
  BY <1>1, OneElement

LEMMA PullQueued ==
  ASSUME IInv, Delivers, NEW p \in Pulls, Pull(p)
  PROVE  Queued'
<1>1. queue' = queue \/ queue' = <<>>
  BY QueueOfOne DEF Pull, PullEnter, PullLock, PullReceive, PullEndOfQueue, PullExit, PullDecide,
     PullSettle, PullCommit, Takes
<1>2. UNCHANGED <<kind, outcome>>
  BY PullKeeps
<1>3. <<>> \in Seq(Items) /\ Len(<<>>) = 0
  OBVIOUS
<1>4. CASE queue' = queue
  BY <1>2, <1>4 DEF Delivers, Queued
<1>5. CASE queue' = <<>>
  BY <1>3, <1>5 DEF Queued
<1> QED
  BY <1>1, <1>4, <1>5

LEMMA PullHands ==
  ASSUME IInv, Delivers, NEW p \in Pulls, Pull(p)
  PROVE  Hands'
<1> USE DEF Moves, Returns, Takes
<1> DEFINE Mine ==
      /\ item'[p] # None => at'[p] \in {"decide", "settle", "commit"}
      /\ Taken(p, "hint")' => kind = "channel" /\ at'[p] = "decide"
      /\ Taken(p, "failed")' => outcome = "failed"
      /\ Taken(p, "ok")' => at'[p] = "decide" \/ token
<1>1. /\ p \in Calls /\ at \in [Calls -> Stages] /\ item \in [Pulls -> Items \cup {None}]
      /\ None \notin Items /\ \A q \in Pulls : q \in Calls
      /\ \A q \in Pulls :
           /\ item[q] # None => at[q] \in {"decide", "settle", "commit"}
           /\ Taken(q, "hint") => kind = "channel" /\ at[q] = "decide"
           /\ Taken(q, "failed") => outcome = "failed"
           /\ Taken(q, "ok") => at[q] = "decide" \/ token
  BY Absence DEF IInv, Typed, Calls, Delivers, Hands
<1>2. Mine
  <2> USE <1>1 DEF Taken
  <2>1. CASE PullEnter(p)
    BY <2>1 DEF PullEnter
  <2>2. CASE PullLock(p)
    BY <2>2 DEF PullLock, Item, Delivers, Concludes
  <2>3. CASE PullReceive(p)
    <3>1. CASE Takes(p, Head(queue), "decide") /\ queue # <<>>
      BY <3>1, QueueOfOne DEF Delivers, Queued, Items, ItemKinds
    <3> QED
      BY <2>3, <3>1 DEF PullReceive
  <2>4. CASE PullEndOfQueue(p)
    BY <2>4 DEF PullEndOfQueue
  <2>5. CASE PullExit(p)
    BY <2>5 DEF PullExit, ExitItem, Item, Delivers, Produces
  <2>6. CASE PullDecide(p)
    <3>1. Cancelled /\ stream = "open" => token
      BY NoneIsAbsence DEF Cancelled, Delivers, Recorded
    <3> QED
      BY <2>6, <3>1 DEF PullDecide
  <2>7. CASE PullSettle(p)
    BY <2>7 DEF PullSettle
  <2>8. CASE PullCommit(p)
    BY <2>8 DEF PullCommit
  <2> QED
    BY <2>1, <2>2, <2>3, <2>4, <2>5, <2>6, <2>7, <2>8 DEF Pull
<1>3. \A q \in Pulls \ {p} : at'[q] = at[q] /\ item'[q] = item[q]
  BY <1>1, PullMoves
<1> QED
  BY <1>1, <1>2, <1>3, PullMoves, PullKeeps DEF Hands, Taken

Given == [seq : Nat, kind : {"item", "complete", "failed", "cancelled"}, item : Nat]

\* PullDecide gives the item in hand: it is the next one, and published.
LEMMA NextInHand ==
  ASSUME IInv, Delivers, NEW p \in Pulls, stream = "open", Taken(p, "ok"), ~Cancelled
  PROVE  /\ terminal = None /\ Flowing
         /\ item[p].n = last + 1 /\ last + 1 <= made
         /\ \A q \in Pulls \ {p} : item[q] = None
<1>1. terminal = None /\ Flowing
  BY DEF Delivers, Recorded, Cancelled, Flowing
<1>2. Ahead = last + 1 /\ last = Len(given) /\ last \in Nat /\ made \in Nat
  BY BoundIsNatural DEF Ahead, InHand, Delivers, Recorded, Produces
<1>3. item[p].n = last + 1 /\ last + 1 <= made
  BY <1>1, <1>2 DEF Delivers, Contiguous
<1>4. at[p] \in Inside
  BY DEF Delivers, Hands, Taken, Inside
<1> QED
  BY <1>1, <1>3, <1>4, Alone

LEMMA Grows ==
  ASSUME NEW E, NEW s \in Seq(E), NEW e \in E
  PROVE  /\ Append(s, e) \in Seq(E) /\ Len(Append(s, e)) = Len(s) + 1
         /\ Append(s, e)[Len(s) + 1] = e
         /\ \A i \in DOMAIN Append(s, e) : i \in DOMAIN s \/ i = Len(s) + 1
         /\ \A i \in DOMAIN s : Append(s, e)[i] = s[i]
BY AppendProperties, LenProperties

LEMMA PullRecorded ==
  ASSUME IInv, Delivers, NEW p \in Pulls, Pull(p)
  PROVE  Recorded'
<1>1. /\ pendingFailure \in BOOLEAN /\ recorded \in BOOLEAN /\ token \in BOOLEAN
      /\ stream \in {"open", "released"}
      /\ resource \in {"open", "closing", "released"}
      /\ terminal \in {"complete", "failed", "cancelled", None}
      /\ terminal # None => stream = "released"
      /\ last = Len(given) /\ last \in Nat
      /\ last <= IF terminal = None THEN made ELSE made + 1
      /\ given \in Seq(Given)
      /\ terminal = None => \A i \in DOMAIN given : given[i].kind = "item"
  BY DEF Delivers, Recorded, Given
<1>2. made \in Nat /\ UNCHANGED <<made, token>>
  BY PullKeeps, BoundIsNatural DEF Delivers, Produces
<1>3. ASSUME NEW e \in Given, given' = Append(given, e), last' = last + 1
      PROVE  /\ given' \in Seq(Given) /\ last' = Len(given') /\ last' \in Nat
             /\ terminal = None /\ e.kind = "item" =>
                  \A i \in DOMAIN given' : given'[i].kind = "item"
  <2>1. /\ given' \in Seq(Given) /\ Len(given') = Len(given) + 1
        /\ given'[Len(given) + 1] = e
        /\ \A i \in DOMAIN given' : i \in DOMAIN given \/ i = Len(given) + 1
        /\ \A i \in DOMAIN given : given'[i] = given[i]
    BY <1>1, <1>3, Grows
  <2>2. last' = Len(given') /\ last' \in Nat
    BY <1>1, <1>3, <2>1
  <2> QED
    BY <1>1, <2>1, <2>2, Zenon
<1>4. CASE PullDecide(p)
  <2>1. UNCHANGED <<recorded, stream, terminal, resource>> /\ pendingFailure' \in BOOLEAN
    BY <1>1, <1>4 DEF PullDecide
  <2>2. CASE UNCHANGED <<last, given>>
    BY <1>1, <1>2, <2>1, <2>2 DEF Recorded, Given
  <2>3. CASE ~UNCHANGED <<last, given>>
    <3> DEFINE e == [seq |-> last + 1, kind |-> "item", item |-> item[p].n]
    <3>1. /\ stream = "open" /\ Taken(p, "ok") /\ ~Cancelled
          /\ last' = last + 1 /\ given' = Append(given, e)
      BY <1>4, <2>3 DEF PullDecide
    <3>2. /\ terminal = None /\ item[p].n = last + 1 /\ last + 1 <= made
      BY <3>1, NextInHand
    <3>3. e \in Given /\ e.kind = "item"
      BY <1>1, <3>2 DEF Given
    <3> HIDE DEF e
    <3>4. /\ given' \in Seq(Given) /\ last' = Len(given') /\ last' \in Nat
          /\ \A i \in DOMAIN given' : given'[i].kind = "item"
      BY <1>3, <3>1, <3>2, <3>3
    <3> QED
      BY <1>1, <1>2, <2>1, <3>1, <3>2, <3>4 DEF Recorded, Given
  <2> QED
    BY <2>2, <2>3
<1>5. CASE PullCommit(p)
  <2>1. UNCHANGED pendingFailure
    BY <1>5 DEF PullCommit
  <2>2. CASE UNCHANGED <<registry, recorded, given>>
    BY <1>1, <1>2, <2>1, <2>2 DEF Recorded, Given, registry
  <2>3. CASE ~UNCHANGED <<registry, recorded, given>>
    <3>1. /\ terminal = None /\ terminal' \in {"cancelled", "failed", "complete"}
          /\ last' = last + 1 /\ stream' = "released" /\ recorded' = FALSE
          /\ resource' \in {resource, "released"}
          /\ given' = Append(given, [seq |-> last + 1, kind |-> terminal', item |-> 0])
      BY <1>5, <2>3 DEF PullCommit, Finish
    <3> DEFINE e == [seq |-> last + 1, kind |-> terminal', item |-> 0]
    <3>2. e \in Given
      BY <1>1, <3>1 DEF Given
    <3> HIDE DEF e
    <3>3. given' = Append(given, e)
      BY <3>1 DEF e
    <3>4. given' \in Seq(Given) /\ last' = Len(given') /\ last' \in Nat
      BY <1>3, <3>1, <3>2, <3>3
    <3>5. terminal' # None
      BY <3>1, NoneIsAbsence
    <3>6. last' <= IF terminal' = None THEN made' ELSE made' + 1
      BY <1>1, <1>2, <3>1, <3>5
    <3> QED
      BY <1>1, <1>2, <2>1, <3>1, <3>4, <3>5, <3>6 DEF Recorded, Given
  <2> QED
    BY <2>2, <2>3
<1>6. CASE ~PullDecide(p) /\ ~PullCommit(p)
  <2>1. UNCHANGED <<pendingFailure, recorded, stream, terminal, last, resource, given>>
    BY <1>6 DEF Pull, PullEnter, PullLock, PullReceive, PullEndOfQueue, PullExit, PullSettle,
       registry
  <2> QED
    BY <1>1, <1>2, <2>1 DEF Recorded, Given
<1> QED
  BY <1>4, <1>5, <1>6

\* A pull that keeps nothing in hand leaves nothing in hand.
LEMMA HandAfter ==
  ASSUME IInv, Delivers, NEW p \in Pulls, Pull(p), at[p] \in Inside
  PROVE  /\ InHand <=> Taken(p, "ok")
         /\ InHand' <=> Taken(p, "ok")'
         /\ \A q \in Pulls \ {p} : item'[q] = None /\ item[q] = None
<1>1. \A q \in Pulls \ {p} : item'[q] = item[q] /\ item[q] = None
  BY Alone, PullMoves DEF Delivers, Hands
<1> QED
  BY <1>1 DEF InHand, Taken

LEMMA PullContiguous ==
  ASSUME IInv, Delivers, NEW p \in Pulls, Pull(p)
  PROVE  Contiguous'
<1> USE DEF Takes, Moves, Returns
<1>1. /\ p \in Calls /\ at \in [Calls -> Stages] /\ item \in [Pulls -> Items \cup {None}]
      /\ None \notin Items /\ made \in Nat /\ Len(given) \in Nat
      /\ UNCHANGED <<token, made>>
  BY Absence, PullKeeps, BoundIsNatural
     DEF IInv, Typed, Calls, Delivers, Hands, Recorded, Produces
<1>2. Flowing' => Flowing /\ stream' = "open"
  BY <1>1 DEF Delivers, Recorded, Flowing, Pull, PullEnter, PullLock, PullReceive, PullEndOfQueue,
     PullExit, PullDecide, PullSettle, PullCommit, registry, Finish
<1>3. CASE PullEnter(p)
  <2>1. UNCHANGED <<item, given, queue>>
    BY <1>3 DEF PullEnter
  <2> QED
    BY <1>1, <1>2, <2>1 DEF Contiguous, Delivers, Ahead, InHand, Taken
<1>4. ASSUME at[p] \notin Inside, Flowing', ~PullEnter(p)
      PROVE  Contiguous'
  <2>1. PullLock(p) /\ item[p] = None
    BY <1>4 DEF Pull, PullReceive, PullEndOfQueue, PullExit, PullDecide, PullSettle, PullCommit,
       Inside, Delivers, Hands
  <2>2. UNCHANGED <<given, queue>> /\ ~Taken(p, "ok")' /\ ~Taken(p, "ok")
    BY <1>1, <2>1 DEF PullLock, Taken, Item
  <2>3. \A q \in Pulls \ {p} : item'[q] = item[q]
    BY <1>1, PullMoves
  <2>4. \A q \in Pulls : Taken(q, "ok")' <=> Taken(q, "ok") /\ q # p
    BY <2>2, <2>3 DEF Taken
  <2> QED
    BY <1>1, <1>2, <1>4, <2>2, <2>3, <2>4 DEF Contiguous, Delivers, Ahead, InHand
<1>5. ASSUME at[p] \in Inside, Flowing', ~PullReceive(p), ~PullDecide(p)
      PROVE  Contiguous'
  <2>1. PullEndOfQueue(p) \/ PullExit(p) \/ PullSettle(p) \/ PullCommit(p)
    BY <1>5 DEF Pull, PullEnter, PullLock, Inside
  <2>2. UNCHANGED <<given, queue>>
    BY <1>2, <1>5, <2>1, NoneIsAbsence DEF PullEndOfQueue, PullExit, PullSettle, PullCommit, Finish,
       Delivers, Recorded, Flowing
  <2>3. ~Taken(p, "ok")
    BY <1>1, <1>2, <1>5, <2>1 DEF Delivers, Hands, Flowing, PullEndOfQueue, PullExit,
       PullSettle, PullCommit
  <2>4. ~Taken(p, "ok")'
    BY <1>1, <2>1, <2>3 DEF Taken, PullEndOfQueue, PullExit, PullSettle, PullCommit, ExitItem, Item
  <2>5. Ahead' = Ahead /\ \A q \in Pulls : ~Taken(q, "ok")'
    BY <1>5, <2>2, <2>3, <2>4, HandAfter DEF Ahead, InHand
  <2> QED
    BY <1>1, <1>2, <1>5, <2>2, <2>5 DEF Contiguous, Delivers
<1>6. ASSUME PullReceive(p), Flowing'
      PROVE  Contiguous'
  <2>1. at[p] \in Inside /\ item[p] = None /\ UNCHANGED given
    BY <1>6 DEF PullReceive, Inside, Delivers, Hands
  <2>2. Ahead = Len(given)
    BY <1>6, <2>1, HandAfter DEF Ahead, Taken
  <2>3. CASE queue # <<>> /\ Takes(p, Head(queue), "decide") /\ queue' = Tail(queue)
    <3>1. item'[p] = queue[1] /\ queue' = <<>> /\ queue[1] \in Items
      BY <1>1, <2>3, QueueOfOne
    <3>2. /\ queue[1].n = Len(given) + 1
          /\ made = IF queue[1].what = "ok" THEN Len(given) + 1 ELSE Len(given)
      BY <1>2, <1>6, <2>2, <2>3 DEF Contiguous, Delivers
    <3>3. InHand' <=> queue[1].what = "ok"
      BY <1>1, <1>6, <2>1, <3>1, HandAfter DEF Taken
    <3>4. \A q \in Pulls : Taken(q, "ok")' => q = p
      BY <1>6, <2>1, HandAfter DEF Taken
    <3> QED
      BY <1>1, <2>1, <3>1, <3>2, <3>3, <3>4 DEF Contiguous, Ahead
  <2>4. CASE item'[p] = None /\ UNCHANGED queue
    <3>1. \A q \in Pulls : ~Taken(q, "ok")'
      BY <1>6, <2>1, <2>4, HandAfter DEF Taken
    <3> QED
      BY <1>1, <1>2, <1>6, <2>1, <2>2, <2>4, <3>1 DEF Contiguous, Delivers, Ahead, InHand
  <2> QED
    BY <1>1, <1>6, <2>1, <2>3, <2>4 DEF PullReceive
<1>7. ASSUME PullDecide(p), Flowing'
      PROVE  Contiguous'
  <2>1. at[p] \in Inside /\ UNCHANGED queue /\ stream = "open" /\ ~token
    BY <1>2, <1>7 DEF PullDecide, Inside, Flowing
  <2>2. ~Cancelled
    BY <2>1 DEF Cancelled, Delivers, Recorded
  <2>3. CASE Taken(p, "ok")
    <3>1. ~Taken(p, "hint")
      BY <2>3 DEF Taken
    <3>2. item'[p] = None /\ given' = Append(given, [seq |-> last + 1, kind |-> "item", item |-> item[p].n])
      BY <1>1, <1>7, <2>1, <2>2, <2>3, <3>1 DEF PullDecide
    <3>3. Len(given') = Len(given) + 1
      <4>1. last + 1 \in Nat /\ item[p].n \in Nat /\ given \in Seq(Given)
        BY <2>1, <2>2, <2>3, NextInHand DEF Delivers, Recorded, Given
      <4>2. [seq |-> last + 1, kind |-> "item", item |-> item[p].n] \in Given
        BY <4>1 DEF Given
      <4> QED
        BY <3>2, <4>1, <4>2, Grows
    <3>4. \A q \in Pulls : ~Taken(q, "ok")'
      BY <1>7, <2>1, <3>2, HandAfter DEF Taken
    <3>5. Ahead' = Ahead
      BY <1>7, <2>1, <2>3, <3>3, <3>4, HandAfter DEF Ahead, InHand
    <3> QED
      BY <1>1, <1>2, <1>7, <2>1, <3>4, <3>5 DEF Contiguous, Delivers
  <2>4. CASE ~Taken(p, "ok")
    <3>1. UNCHANGED given /\ item'[p] \in {None, item[p]}
      BY <1>1, <1>7, <2>4 DEF PullDecide
    <3>2. \A q \in Pulls : ~Taken(q, "ok")'
      BY <1>7, <2>1, <2>4, <3>1, HandAfter DEF Taken
    <3>3. Ahead' = Ahead
      BY <1>7, <2>1, <2>4, <3>1, <3>2, HandAfter DEF Ahead, InHand
    <3> QED
      BY <1>1, <1>2, <1>7, <2>1, <3>2, <3>3 DEF Contiguous, Delivers
  <2> QED
    BY <2>3, <2>4
<1> QED
  BY <1>3, <1>4, <1>5, <1>6, <1>7 DEF Contiguous

LEMMA PullConcludes ==
  ASSUME IInv, Delivers, NEW p \in Pulls, Pull(p)
  PROVE  Concludes'
<1> USE DEF Takes, Moves, Returns
<1>1. /\ p \in Calls /\ at \in [Calls -> Stages] /\ item \in [Pulls -> Items \cup {None}]
      /\ None \notin Items /\ \A q \in Pulls : q \in Calls
      /\ UNCHANGED <<kind, producer, outcome, panicked, token>>
      /\ outcome \in {"running", "finished", "failed"}
  BY Absence, PullKeeps DEF IInv, Typed, Calls, Delivers, Hands, Produces
<1>2. Sound' => Sound /\ stream' = "open"
  <2>1. /\ stream' = "open" => stream = "open"
        /\ resource' = "open" => resource = "open"
    BY DEF Delivers, Recorded, Pull, PullEnter, PullLock, PullReceive, PullEndOfQueue,
       PullExit, PullDecide, PullSettle, PullCommit, registry, Finish
  <2> QED
    BY <1>1, <2>1, PullKeeps DEF Sound, Flowing, Cut
<1>3. queue' = queue \/ queue' = <<>>
  BY QueueOfOne DEF Pull, PullEnter, PullLock, PullReceive, PullEndOfQueue, PullExit, PullDecide,
     PullSettle, PullCommit
<1>4. Drained => Drained'
  BY <1>1, <1>3 DEF Drained
<1>5. \A q \in Pulls \ {p} : at'[q] = at[q] /\ item'[q] = item[q]
  BY <1>1, PullMoves
<1>6. /\ pendingFailure => pendingFailure'
      /\ pendingFailure' => pendingFailure \/ (PullDecide(p) /\ Taken(p, "failed"))
      /\ PullDecide(p) /\ Taken(p, "failed") => pendingFailure'
  <2>1. CASE PullDecide(p)
    <3>1. pendingFailure' = (pendingFailure \/ Taken(p, "failed"))
      BY <2>1 DEF PullDecide
    <3> QED
      BY <2>1, <3>1, Zenon
  <2>2. CASE ~PullDecide(p)
    <3>1. UNCHANGED pendingFailure
      BY <2>2 DEF Pull, PullEnter, PullLock, PullReceive, PullEndOfQueue, PullExit, PullSettle,
         PullCommit
    <3> QED
      BY <2>2, <3>1, Zenon
  <2> QED
    BY <2>1, <2>2, Zenon
<1>7. pendingFailure' => outcome' = "failed"
  BY <1>1, <1>6 DEF Concludes, Delivers, Hands
<1>8. ASSUME NEW q \in Pulls, at'[q] \in {"recv", "eof", "exit"}
      PROVE  ~pendingFailure'
  <2>1. CASE PullDecide(p)
    <3>1. at[p] \in Inside /\ at'[p] \in {"idle", "settle"}
      BY <1>1, <2>1 DEF PullDecide, Inside
    <3>2. q # p /\ at[q] \in Inside
      BY <1>5, <1>8, <3>1 DEF Inside
    <3> QED
      BY <3>1, <3>2, Alone
  <2>2. CASE ~PullDecide(p) /\ q # p
    BY <1>5, <1>6, <1>8, <2>2 DEF Concludes, Delivers
  <2>3. CASE ~PullDecide(p) /\ q = p
    <3>1. pendingFailure' => pendingFailure
      BY <1>6, <2>3
    <3> QED
      BY <1>1, <1>8, <2>3, <3>1 DEF Concludes, Delivers, Pull, PullEnter, PullLock, PullReceive,
         PullEndOfQueue, PullExit, PullSettle, PullCommit
  <2> QED
    BY <2>1, <2>2, <2>3
<1>14. ASSUME NEW q \in Pulls, Taken(q, "failed")'
       PROVE  at'[q] = "decide" \/ pendingFailure'
  <2>1. CASE q # p
    <3>1. at'[q] = at[q] /\ Taken(q, "failed")
      BY <1>5, <1>14, <2>1 DEF Taken
    <3>2. at[q] = "decide" \/ pendingFailure
      BY <3>1 DEF Delivers, Concludes
    <3> QED
      BY <1>6, <3>1, <3>2
  <2>2. CASE q = p /\ at'[p] # "decide"
    <3>1. Taken(p, "failed") /\ item'[p] # None
      BY <1>1, <1>14, <2>2 DEF Pull, PullEnter, PullLock, PullReceive, PullEndOfQueue, PullExit,
         PullDecide, PullSettle, PullCommit, Taken
    <3>2. CASE PullDecide(p)
      BY <3>1, <3>2 DEF PullDecide
    <3>3. CASE ~PullDecide(p)
      <4>1. at[p] # "decide"
        BY <3>3 DEF Pull, PullEnter, PullLock, PullReceive, PullEndOfQueue, PullExit, PullSettle,
           PullCommit
      <4>2. pendingFailure
        BY <3>1, <4>1 DEF Delivers, Concludes
      <4> QED
        BY <1>6, <4>2
    <3> QED
      BY <3>2, <3>3
  <2> QED
    BY <2>1, <2>2
<1>9. ASSUME Sound'
      PROVE  producer' \in {"drain", "exit"} => outcome' # "running"
  BY <1>1, <1>2, <1>9 DEF Concludes, Delivers
\* The drained queue, as p has found it.
<1>10. ASSUME Sound'
       PROVE  /\ at'[p] \in {"eof", "exit"} => Drained'
              /\ at'[p] \in {"decide", "settle", "commit"} /\ item'[p] = None =>
                   Drained' /\ outcome' = "finished"
              /\ Taken(p, "failed")' => Drained'
  <2>1. CASE PullEnter(p) \/ PullLock(p)
    BY <1>1, <1>2, <1>4, <1>10, <2>1 DEF PullEnter, PullLock, Taken, Delivers, Concludes, Hands,
       Item, Items, ItemKinds
  <2>2. CASE PullReceive(p)
    <3>1. CASE queue # <<>> /\ Takes(p, Head(queue), "decide") /\ queue' = Tail(queue)
      <4>1. item'[p] = queue[1] /\ queue' = <<>> /\ queue[1] \in Items /\ at'[p] = "decide"
        BY <1>1, <3>1, QueueOfOne
      <4>2. queue[1].what # "ok" => outcome' = "failed"
        BY <1>1, <3>1 DEF Delivers, Queued
      <4> QED
        BY <1>1, <4>1, <4>2 DEF Taken, Drained
    <3>2. CASE (EndOfQueue \/ Interrupted) /\ Moves(p, "eof") /\ UNCHANGED queue
      <4>1. item'[p] = None /\ at'[p] = "eof"
        BY <1>1, <2>2, <3>2 DEF PullReceive, Delivers, Hands
      <4>2. Drained
        BY <1>2, <1>10, <3>2 DEF EndOfQueue, Interrupted, Sound, Flowing, Delivers, Concludes,
           Drained
      <4> QED
        BY <1>4, <4>1, <4>2 DEF Taken
    <3>3. CASE Returns(p)
      BY <1>1, <3>3 DEF Taken
    <3> QED
      BY <2>2, <3>1, <3>2, <3>3 DEF PullReceive
  <2>3. CASE PullEndOfQueue(p)
    <3>1. item[p] = None /\ Drained
      BY <1>2, <1>10, <2>3 DEF PullEndOfQueue, Delivers, Hands, Concludes
    <3>2. ~Cancelled
      BY <1>2, <1>10 DEF Sound, Flowing, Cancelled, Delivers, Recorded
    <3> QED
      BY <1>1, <1>2, <1>4, <1>10, <2>3, <3>1, <3>2 DEF PullEndOfQueue, Taken, Sound, Flowing
  <2>4. CASE PullExit(p)
    <3>1. item[p] = None /\ Drained /\ ~pendingFailure
      BY <1>2, <1>10, <2>4 DEF PullExit, Delivers, Hands, Concludes
    <3>2. CASE Returns(p)
      BY <1>1, <3>2 DEF Taken
    <3>3. CASE settled /\ Takes(p, ExitItem, "decide") /\ panicked
      BY <1>1, <1>4, <3>1, <3>3 DEF ExitItem, Item, Items, ItemKinds
    <3>4. CASE settled /\ Takes(p, ExitItem, "decide") /\ ~panicked
      <4>1. item'[p] = None
        BY <1>1, <3>4 DEF ExitItem
      <4>2. at[p] \in Inside
        BY <2>4 DEF PullExit, Inside
      <4>3. \A q \in Pulls : ~Taken(q, "failed") /\ ~Taken(q, "hint")
        BY <3>1, <4>2, Alone DEF Taken
      <4>4. outcome = "finished"
        BY <1>1, <1>2, <1>10, <3>1, <3>4, <4>3 DEF Delivers, Concludes, Drained
      <4> QED
        BY <1>1, <1>4, <3>1, <4>1, <4>4 DEF Taken
    <3> QED
      BY <2>4, <3>2, <3>3, <3>4 DEF PullExit
  <2>5. CASE PullDecide(p)
    BY <1>1, <1>2, <1>4, <1>10, <2>5 DEF PullDecide, Taken, Delivers, Concludes
  <2>6. CASE PullSettle(p) \/ PullCommit(p)
    BY <1>1, <1>2, <1>4, <1>10, <2>6 DEF PullSettle, PullCommit, Taken, Delivers, Concludes
  <2> QED
    BY <2>1, <2>2, <2>3, <2>4, <2>5, <2>6 DEF Pull
<1>11. ASSUME Sound', NEW q \in Pulls
       PROVE  /\ at'[q] \in {"eof", "exit"} => Drained'
              /\ at'[q] \in {"decide", "settle", "commit"} /\ item'[q] = None =>
                   Drained' /\ outcome' = "finished"
              /\ Taken(q, "failed")' => Drained'
  BY <1>1, <1>2, <1>4, <1>5, <1>10, <1>11 DEF Delivers, Concludes, Taken
<1>12. ASSUME Sound'
       PROVE  cleanup' \/ pendingFailure' => Drained'
  <2>1. CASE UNCHANGED <<cleanup, pendingFailure>>
    BY <1>2, <1>4, <1>12, <2>1 DEF Delivers, Concludes
  <2>2. CASE PullDecide(p) /\ ~UNCHANGED <<cleanup, pendingFailure>>
    <3>1. \/ ~Taken(p, "ok") /\ ~Taken(p, "hint") /\ at[p] = "decide"
          \/ Taken(p, "failed")
      BY <1>2, <1>12, <2>2 DEF PullDecide, Taken, Sound, Flowing, Cancelled, Delivers, Recorded
    <3>2. item[p] = None \/ Taken(p, "failed")
      BY <1>1, <3>1 DEF Taken, Items, ItemKinds
    <3> QED
      BY <1>2, <1>4, <1>12, <3>1, <3>2 DEF Delivers, Concludes
  <2> QED
    BY <2>1, <2>2 DEF Pull, PullEnter, PullLock, PullReceive, PullEndOfQueue, PullExit, PullSettle,
       PullCommit
<1>13. ASSUME Sound', outcome' = "failed"
       PROVE  \/ panicked' \/ pendingFailure'
              \/ queue' # <<>> /\ queue'[1].what # "ok"
              \/ \E q \in Pulls : Taken(q, "failed")' \/ Taken(q, "hint")'
  <2>1. \/ panicked \/ pendingFailure
        \/ queue # <<>> /\ queue[1].what # "ok"
        \/ \E q \in Pulls : Taken(q, "failed") \/ Taken(q, "hint")
    BY <1>1, <1>2, <1>13 DEF Delivers, Concludes
  <2>2. CASE panicked \/ pendingFailure
    BY <1>1, <1>6, <2>2
  <2>3. CASE queue # <<>> /\ queue[1].what # "ok"
    <3>1. CASE queue' = queue
      BY <2>3, <3>1
    <3>2. CASE queue' # queue
      <4>1. PullReceive(p) /\ Takes(p, Head(queue), "decide")
        BY <3>2 DEF Pull, PullEnter, PullLock, PullReceive, PullEndOfQueue, PullExit, PullDecide,
           PullSettle, PullCommit
      <4>2. item'[p] = queue[1] /\ queue[1] \in Items
        BY <1>1, <2>3, <4>1, QueueOfOne
      <4> QED
        BY <1>1, <2>3, <4>2 DEF Taken, Items, ItemKinds
    <3> QED
      BY <3>1, <3>2
  <2>4. ASSUME NEW q \in Pulls, Taken(q, "failed") \/ Taken(q, "hint")
        PROVE  pendingFailure' \/ Taken(q, "failed")' \/ Taken(q, "hint")'
    <3>1. CASE q # p
      BY <1>5, <2>4, <3>1 DEF Taken
    <3>2. CASE q = p /\ PullDecide(p)
      <4>1. ~Taken(p, "hint")
        <5>1. SUFFICES ASSUME Taken(p, "hint") PROVE FALSE
          OBVIOUS
        <5>2. kind = "channel" /\ RecordObservation /\ ~closed
          BY <3>2, <5>1 DEF PullDecide, Delivers, Hands, Produces
        <5>3. error' /\ kind' # "extension"
          BY <1>1, <5>2 DEF RecordObservation
        <5> QED
          BY <1>13, <5>3 DEF Sound, Lost
      <4> QED
        BY <2>4, <3>2, <4>1 DEF PullDecide
    <3>3. CASE q = p /\ ~PullDecide(p)
      <4>1. at[p] # "decide"
        BY <3>3 DEF Pull, PullEnter, PullLock, PullReceive, PullEndOfQueue, PullExit, PullSettle,
           PullCommit
      <4>2. pendingFailure
        BY <2>4, <3>3, <4>1 DEF Delivers, Concludes, Hands
      <4> QED
        BY <1>6, <4>2
    <3> QED
      BY <3>1, <3>2, <3>3
  <2> QED
    BY <2>1, <2>2, <2>3, <2>4
<1> QED
  BY <1>7, <1>8, <1>14, <1>9, <1>11, <1>12, <1>13 DEF Concludes

Giving(p) == /\ stream = "open" /\ Taken(p, "ok") /\ ~Cancelled
             /\ given' = Append(given, [seq |-> last + 1, kind |-> "item", item |-> item[p].n])

Ending(p) == /\ at[p] = "commit" /\ stream = "open" /\ terminal = None
             /\ terminal' = IF token THEN "cancelled"
                            ELSE IF Taken(p, "failed") THEN "failed" ELSE "complete"
             /\ given' = Append(given, [seq |-> last + 1, kind |-> terminal', item |-> 0])

\* Nobody has been told of an end that is not in the registry.
LEMMA NotEnded ==
  ASSUME Delivers, terminal = None
  PROVE  ~Promise!Ended
BY DEF Delivers, Recorded, Promise!Ended

\* A pull that gives nothing leaves the promise where it is.
LEMMA PullGives ==
  ASSUME IInv, Delivers, NEW p \in Pulls, Pull(p)
  PROVE  \/ PullDecide(p) /\ Giving(p)
         \/ PullCommit(p) /\ Ending(p)
         \/ UNCHANGED <<given, resource, terminal>>
BY DEF Pull, PullEnter, PullLock, PullReceive, PullEndOfQueue, PullExit, PullDecide, PullSettle,
   PullCommit, Giving, Ending, registry

LEMMA PullImplements ==
  ASSUME IInv, Delivers, NEW p \in Pulls, Pull(p)
  PROVE  Promise!Next \/ UNCHANGED Promise!vars
<1>1. UNCHANGED <<made, outcome, token>> /\ (Cut => Cut')
  <2>1. resource' \in {resource, "released"}
    BY DEF Pull, PullEnter, PullLock, PullReceive, PullEndOfQueue, PullExit, PullDecide,
       PullSettle, PullCommit, Finish, registry
  <2> QED
    BY <2>1, PullKeeps DEF Cut
<1>2. CASE UNCHANGED <<given, resource, terminal>>
  BY <1>1, <1>2 DEF Promise!vars, Cancelled
<1>3. CASE PullDecide(p) /\ Giving(p)
  <2>1. terminal = None /\ item[p].n = last + 1 /\ last + 1 <= made
    BY <1>3, NextInHand DEF Giving
  <2>2. last = Len(given) /\ last \in Nat /\ made \in Nat
    BY BoundIsNatural DEF Delivers, Recorded, Produces
  <2>3. UNCHANGED <<terminal, resource>>
    BY <1>3 DEF PullDecide
  <2>4. Len(given) < made
    BY <2>1, <2>2
  <2>5. given' = Append(given, Promise!Event("item", Len(given) + 1))
    BY <1>3, <2>1, <2>2 DEF Giving, Promise!Event
  <2>6. Promise!Deliver
    BY <1>1, <1>3, <2>1, <2>3, <2>4, <2>5, NotEnded DEF Promise!Deliver, Cancelled, Giving
  <2> QED
    BY <2>6 DEF Promise!Next
<1>4. CASE PullCommit(p) /\ Ending(p)
  <2>1. /\ at[p] = "commit" /\ terminal = None /\ stream = "open"
        /\ Cancelled = token /\ (Cancelled' <=> terminal' = "cancelled")
    BY <1>4, NoneIsAbsence DEF Cancelled, Ending
  <2>2. ~error
    BY <2>1 DEF IInv, Looks, Starts, Joins, Calls
  <2>3. /\ Taken(p, "ok") => token
        /\ ~Taken(p, "hint")
        /\ Taken(p, "failed") => outcome = "failed"
    BY <2>1 DEF Delivers, Hands
  <2>4. item[p] = None \/ Taken(p, "ok") \/ Taken(p, "failed") \/ Taken(p, "hint")
    BY DEF Delivers, Hands, Taken, Items, ItemKinds
  <2>5. Sound <=> ~token /\ ~Cut
    BY <2>1, <2>2 DEF Sound, Flowing, Lost
  <2>6. ASSUME Sound
        PROVE  /\ Drained /\ Len(given) = made
               /\ item[p] = None => outcome = "finished"
    <3>1. ~Taken(p, "ok")
      BY <2>3, <2>6 DEF Sound, Flowing
    <3>2. ~InHand
      BY <2>1, <3>1, Alone DEF InHand, Inside, Taken
    <3>3. Drained /\ (item[p] = None => outcome = "finished")
      BY <2>1, <2>3, <2>4, <2>6, <3>1 DEF Delivers, Concludes
    <3> QED
      BY <2>6, <3>2, <3>3 DEF Delivers, Contiguous, Sound, Ahead, Drained
  <2>7. Promise!End(terminal')
    <3>1. terminal' = "cancelled" <=> Cancelled
      BY <1>4, <2>1 DEF Ending
    <3>2. terminal' = "complete" => Cut \/ (outcome = "finished" /\ Len(given) = made)
      BY <1>4, <2>3, <2>4, <2>5, <2>6 DEF Ending
    <3>3. terminal' = "failed" => outcome = "failed" /\ (Cut \/ Len(given) = made)
      BY <1>4, <2>3, <2>5, <2>6 DEF Ending
    <3>4. given' = Append(given, Promise!Event(terminal', 0))
      BY <1>4 DEF Ending, Promise!Event, Delivers, Recorded
    <3>5. UNCHANGED Cancelled
      <4>1. Cancelled = token /\ token \in BOOLEAN
        BY <2>1 DEF Delivers, Recorded
      <4>2. Cancelled' = (terminal' = "cancelled")
        BY <1>4, <2>1, NoneIsAbsence DEF Cancelled, Ending
      <4>3. token <=> terminal' = "cancelled"
        BY <1>4 DEF Ending
      <4> QED
        BY <4>1, <4>2, <4>3
    <3> QED
      BY <1>1, <2>1, <3>1, <3>2, <3>3, <3>4, <3>5, NotEnded DEF Promise!End, Cut
  <2>8. terminal' \in {"complete", "failed", "cancelled"}
    BY <1>4 DEF Ending
  <2> QED
    BY <2>7, <2>8 DEF Promise!Next
<1> QED
  BY <1>2, <1>3, <1>4, PullGives
-----------------------------------------------------------------------------
(* Cancellation, closes, deadlines and dropped calls.                      *)

Others ==
  \/ Cancel
  \/ \E c \in Closers : Close(c)
  \/ \E c \in Sweepers : Sweep(c)
  \/ \E c \in Calls : Deadline(c) \/ Drop(c)

\* What a call other than a pull in progress may do to the stage and the hand
\* of a pull: end it, or go on with a close.
LEMMA OthersMove ==
  ASSUME IInv, Delivers, Others
  PROVE  /\ item' \in [Pulls -> Items \cup {None}]
         /\ holder' \in Pulls \cup {None}
         /\ \A p \in Pulls :
              \/ at'[p] = at[p] /\ item'[p] = item[p]
              \/ at'[p] = "idle" /\ item'[p] = None /\ at[p] \notin {"decide", "commit"}
              \/ /\ at'[p] \in {"close", "sweep", "release"} /\ item'[p] = item[p]
                 /\ at[p] \in {"idle", "sweep"}
<1> USE DEF Moves, Returns
<1>1. /\ at \in [Calls -> Stages] /\ \A p \in Pulls : p \in Calls
      /\ item \in [Pulls -> Items \cup {None}] /\ holder \in Pulls \cup {None}
  BY DEF IInv, Typed, Calls, Delivers, Hands
<1>2. CASE UNCHANGED calls
  BY <1>1, <1>2 DEF calls
<1>3. ASSUME NEW c \in Calls, Returns(c), at[c] \notin {"decide", "commit"}
      PROVE  /\ item' \in [Pulls -> Items \cup {None}]
             /\ holder' \in Pulls \cup {None}
             /\ \A p \in Pulls :
                  \/ at'[p] = at[p] /\ item'[p] = item[p]
                  \/ at'[p] = "idle" /\ item'[p] = None /\ at[p] \notin {"decide", "commit"}
  BY <1>1, <1>3
<1>4. ASSUME NEW c \in Calls, NEW s \in {"close", "sweep", "release"}, Moves(c, s),
             at[c] \in {"idle", "sweep"}
      PROVE  /\ item' \in [Pulls -> Items \cup {None}]
             /\ holder' \in Pulls \cup {None}
             /\ \A p \in Pulls :
                  \/ at'[p] = at[p] /\ item'[p] = item[p]
                  \/ /\ at'[p] \in {"close", "sweep", "release"} /\ item'[p] = item[p]
                     /\ at[p] \in {"idle", "sweep"}
  BY <1>1, <1>4
<1>5. CASE Cancel
  BY <1>2, <1>5 DEF Cancel
<1>6. ASSUME NEW c \in Calls, \/ Close(c) \/ Sweep(c) \/ Deadline(c) \/ Drop(c)
      PROVE  \/ UNCHANGED calls
             \/ Returns(c) /\ at[c] \notin {"decide", "commit"}
             \/ /\ at[c] \in {"idle", "sweep"}
                /\ \E s \in {"close", "sweep", "release"} : Moves(c, s)
  BY <1>6 DEF Close, CloseEnter, CloseFinish, Sweep, SweepEnter, SweepSettle, SweepRelease,
     Deadline, Drop
<1>7. CASE \E c \in Calls : Close(c) \/ Sweep(c) \/ Deadline(c) \/ Drop(c)
  <2>1. PICK c \in Calls : Close(c) \/ Sweep(c) \/ Deadline(c) \/ Drop(c)
    BY <1>7
  <2>2. CASE Returns(c) /\ at[c] \notin {"decide", "commit"}
    BY <1>3, <2>2
  <2>3. CASE at[c] \in {"idle", "sweep"} /\ \E s \in {"close", "sweep", "release"} : Moves(c, s)
    BY <1>4, <2>3
  <2> QED
    BY <1>2, <1>6, <2>1, <2>2, <2>3
<1> QED
  BY <1>5, <1>7 DEF Others, Calls

\* They give nothing and bring nothing back.
LEMMA OthersKeep ==
  ASSUME IInv, Delivers, Others
  PROVE  /\ UNCHANGED <<kind, attached, producer, holding, made, outcome, panicked, queue,
                        error, joined, bound, closed, settled, pendingFailure, terminal, last,
                        given>>
         /\ cleanup' \in BOOLEAN /\ recorded' \in BOOLEAN /\ token' \in BOOLEAN
         /\ stream' \in {stream, "released"} /\ stream' \in {"open", "released"}
         /\ resource' \in {"open", "closing", "released"}
         /\ token => token'
         /\ Cut => Cut'
         /\ cleanup' => cleanup \/ Cut' \/ token'
<1> USE DEF source, observation, registry
<1>1. /\ cleanup \in BOOLEAN /\ recorded \in BOOLEAN /\ token \in BOOLEAN
      /\ stream \in {"open", "released"}
      /\ resource \in {"open", "closing", "released"}
      /\ stream = "open" => terminal = None
  BY DEF Delivers, Produces, Recorded
<1>2. CASE Cancel
  BY <1>1, <1>2 DEF Cancel, Cut
<1>3. ASSUME NEW c \in Closers, CloseEnter(c)
      PROVE  /\ UNCHANGED <<source, queue, observation, pendingFailure, terminal, last, given,
                            recorded, stream, resource>>
             /\ token' = TRUE /\ cleanup' = TRUE
  BY <1>1, <1>3 DEF CloseEnter
<1>4. ASSUME NEW c \in Sweepers, SweepEnter(c)
      PROVE  /\ UNCHANGED <<source, queue, observation, pendingFailure, terminal, last, given,
                            recorded, stream, token>>
             /\ resource' = "closing" /\ cleanup' \in BOOLEAN
  BY <1>1, <1>4 DEF SweepEnter
<1>5. CASE \/ \E c \in Closers : CloseFinish(c)
           \/ \E c \in Sweepers : SweepSettle(c) \/ SweepRelease(c)
           \/ \E c \in Calls : Deadline(c) \/ Drop(c)
  <2>1. /\ UNCHANGED <<source, queue, observation, pendingFailure, terminal, last, given, token,
                       cleanup>>
        /\ stream' \in {stream, "released"} /\ resource' \in {resource, "released"}
        /\ recorded' \in {recorded, FALSE}
    BY <1>5 DEF CloseFinish, SweepSettle, SweepRelease, Deadline, Drop, Finish
  <2> QED
    BY <1>1, <2>1 DEF Cut
<1>6. CASE \E c \in Closers : CloseEnter(c)
  BY <1>1, <1>3, <1>6 DEF Cut
<1>7. CASE \E c \in Sweepers : SweepEnter(c)
  BY <1>1, <1>4, <1>7 DEF Cut
<1> QED
  BY <1>2, <1>5, <1>6, <1>7 DEF Others, Close, Sweep

LEMMA OthersDeliver ==
  ASSUME IInv, Delivers, Others
  PROVE  Delivers'
<1>1. Produces'
  BY OthersKeep DEF Delivers, Produces
<1>2. Queued'
  BY OthersKeep DEF Delivers, Queued
<1>3. Hands'
  BY OthersMove, OthersKeep DEF Delivers, Hands, Taken
<1>4. Recorded'
  BY OthersKeep DEF Delivers, Recorded
<1>5. Flowing' => Flowing
  BY OthersKeep DEF Flowing, Delivers, Recorded
<1>6. Sound' => Sound
  BY <1>5, OthersKeep DEF Sound, Lost
<1>7. \A p \in Pulls, w \in ItemKinds :
        /\ Taken(p, w)' => Taken(p, w) /\ item'[p] = item[p] /\ (at[p] = "decide" => at'[p] = "decide")
        /\ Taken(p, w) => Taken(p, w)' \/ at[p] \notin {"decide", "commit"}
  BY OthersMove DEF Taken, Delivers, Hands
<1>8. Contiguous'
  <2>1. ASSUME Flowing'
        PROVE  \A p \in Pulls : Taken(p, "ok")' <=> Taken(p, "ok")
    BY <1>5, <1>7, <2>1 DEF Flowing, Delivers, Hands, ItemKinds
  <2>2. Flowing' => Ahead' = Ahead
    BY <2>1, OthersKeep DEF Ahead, InHand
  <2> QED
    BY <1>5, <1>7, <2>1, <2>2, OthersKeep DEF Contiguous, Delivers, ItemKinds
<1>9. Concludes'
  <2>1. Drained => Drained'
    BY OthersKeep DEF Drained
  <2>2. \A p \in Pulls :
          /\ at'[p] \in {"recv", "eof", "exit"} => ~pendingFailure'
          /\ Taken(p, "failed")' => at'[p] = "decide" \/ pendingFailure'
    BY <1>7, OthersMove, OthersKeep DEF Delivers, Concludes, ItemKinds
  <2>3. ASSUME Sound'
        PROVE  cleanup' \/ pendingFailure' => Drained'
    BY <1>6, <2>1, <2>3, OthersKeep DEF Delivers, Concludes, Sound, Flowing
  <2>4. ASSUME Sound', NEW p \in Pulls
        PROVE  /\ at'[p] \in {"eof", "exit"} => Drained'
               /\ at'[p] \in {"decide", "settle", "commit"} /\ item'[p] = None =>
                    Drained' /\ outcome' = "finished"
               /\ Taken(p, "failed")' => Drained'
    BY <1>6, <1>7, <2>1, <2>4, OthersMove, OthersKeep DEF Delivers, Concludes, ItemKinds
  <2>5. ASSUME Sound', outcome' = "failed"
        PROVE  \/ panicked' \/ pendingFailure'
               \/ queue' # <<>> /\ queue'[1].what # "ok"
               \/ \E p \in Pulls : Taken(p, "failed")' \/ Taken(p, "hint")'
    <3>1. ASSUME NEW p \in Pulls, Taken(p, "failed") \/ Taken(p, "hint")
          PROVE  pendingFailure' \/ Taken(p, "failed")' \/ Taken(p, "hint")'
      BY <1>7, <3>1, OthersKeep DEF Delivers, Concludes, Hands, ItemKinds
    <3> QED
      BY <1>6, <2>5, <3>1, OthersKeep DEF Delivers, Concludes
  <2> QED
    BY <1>6, <2>2, <2>3, <2>4, <2>5, OthersKeep DEF Concludes, Delivers
<1> QED
  BY <1>1, <1>2, <1>3, <1>4, <1>8, <1>9 DEF Delivers

LEMMA OthersImplement ==
  ASSUME IInv, Delivers, Others
  PROVE  Promise!Proceed
<1>1. Cancelled => Cancelled'
  BY OthersKeep DEF Cancelled
<1>2. outcome \in {"running", "finished", "failed"}
  BY DEF Delivers, Produces
<1> QED
  BY <1>1, <1>2, OthersKeep DEF Promise!Proceed, Cut
-----------------------------------------------------------------------------
LEMMA InitDelivers == Init => Delivers /\ Promise!Init
<1> SUFFICES ASSUME Init
             PROVE  Delivers /\ Promise!Init
  OBVIOUS
<1>1. Produces
  <2>1. made \in 0..MaxItems
    BY BoundIsNatural DEF Init
  <2> QED
    BY <2>1 DEF Init, Produces
<1>2. Queued
  BY EmptySeq DEF Init, Queued
<1>3. Hands
  BY DEF Init, Hands, Taken
<1>4. Recorded
  <2>1. given = <<>> /\ last = 0 /\ made = 0 /\ DOMAIN given = {}
    BY DEF Init
  <2>2. Len(given) = 0 /\ given \in Seq(Given)
    BY <2>1, EmptySeq
  <2>3. last <= IF terminal = None THEN made ELSE made + 1
    BY <2>1
  <2>4. \A i \in DOMAIN given : given[i].kind = "item"
    BY <2>1
  <2>5. last = Len(given) /\ last \in Nat
    BY <2>1, <2>2
  <2> QED
    BY <2>2, <2>3, <2>4, <2>5 DEF Init, Recorded, Given
<1>5. ~InHand
  BY DEF Init, InHand, Taken
<1>6. Contiguous
  BY <1>5, EmptySeq DEF Init, Contiguous, Ahead, InHand
<1>7. Concludes
  BY DEF Init, Concludes, Taken, Sound, Drained, Calls
<1>8. Promise!Init
  BY DEF Init, Promise!Init, Cancelled
<1> QED
  BY <1>1, <1>2, <1>3, <1>4, <1>6, <1>7, <1>8 DEF Delivers

LEMMA StepDelivers ==
  IInv /\ Delivers /\ [Next]_vars => Delivers' /\ [Promise!Next]_(Promise!vars)
<1> SUFFICES ASSUME IInv, Delivers, [Next]_vars
             PROVE  Delivers' /\ [Promise!Next]_(Promise!vars)
  OBVIOUS
<1>1. CASE Source
  BY <1>1, SourceDelivers, SourceImplements DEF Promise!Next
<1>2. ASSUME NEW p \in Pulls, Pull(p)
      PROVE  Delivers' /\ [Promise!Next]_(Promise!vars)
  BY <1>2, PullKeeps, PullQueued, PullHands, PullRecorded, PullContiguous, PullConcludes,
     PullImplements DEF Delivers
<1>3. CASE Others
  BY <1>3, OthersDeliver, OthersImplement DEF Promise!Next
<1>4. CASE UNCHANGED vars
  <2> USE <1>4 DEF vars, source, observation, registry, calls
  <2>1. Produces' /\ Queued' /\ Hands'
    BY DEF Delivers, Produces, Queued, Hands, Taken
  <2>2. Recorded'
    BY DEF Delivers, Recorded
  <2>3. Contiguous' /\ Concludes'
    BY DEF Delivers, Contiguous, Concludes, Ahead, InHand, Taken, Sound, Drained, Flowing, Cut, Lost
  <2>4. UNCHANGED Promise!vars
    BY DEF Promise!vars, Cancelled
  <2> QED
    BY <2>1, <2>2, <2>3, <2>4 DEF Delivers
<1> QED
  BY <1>1, <1>2, <1>3, <1>4 DEF Next, Others

\* No item is lost, reordered or given twice, and nothing is concluded of the
\* source that is not true of it.
THEOREM InOrder == Spec => []Delivers
BY Inductive, InitDelivers, StepDelivers, PTL DEF Spec

\* Every reachable state of a facade stream is within its types.
THEOREM TypeCorrect == Spec => []TypeOK
<1>1. IInv /\ Delivers => TypeOK
  <2> SUFFICES ASSUME IInv, Delivers
               PROVE  TypeOK
    OBVIOUS
  <2>1. last \in 0..(MaxItems + 1)
    BY BoundIsNatural DEF Delivers, Recorded, Produces
  <2>2. \A i \in DOMAIN queue : queue[i].what \in {"ok", "failed", "hint"}
    <3>1. queue \in Seq(Items)
      BY DEF Delivers, Queued
    <3>2. \A i \in DOMAIN queue : queue[i] \in Items
      BY <3>1, LenProperties, Zenon
    <3> QED
      BY <3>2 DEF Items, ItemKinds
  <2> QED
    BY <2>1, <2>2 DEF TypeOK, IInv, Typed, Stages, Delivers, Produces, Queued, Hands, Recorded,
       ItemKinds
<1> QED
  BY <1>1, Inductive, InOrder, PTL

\* The pulls of a stream keep the promise of docs/sdk/protocol.md: each item
\* once and in order, and then one terminal that is true of the source.
THEOREM PullsKeepThePromise == Spec => ImplementsPullStream
BY Inductive, InOrder, InitDelivers, StepDelivers, PTL DEF Spec, ImplementsPullStream, Promise!Spec
=============================================================================
