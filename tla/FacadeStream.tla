---------------------------- MODULE FacadeStream ----------------------------
(***************************************************************************)
(* One facade stream of the Host (core_profile/facade/stream.rs): a        *)
(* producer task writes into a queue of one, pulls (stream.next) take      *)
(* items out, and stream.cancel, stream.close and the close of the         *)
(* resource the stream stands on race them.  The record keeps the stream's *)
(* address until its producer has been joined and, where the source is an  *)
(* extension callback, until that callback is physically closed.           *)
(*                                                                         *)
(* A step of a call is what it does between two awaits; at[c] is the await *)
(* it is parked at.  Two stages, "decide" and "commit", are no awaits: the *)
(* registry allows for another client's thread before it takes its lock.   *)
(* Producer, collector and callback run on other threads anyway.           *)
(***************************************************************************)
EXTENDS Naturals, Sequences

CONSTANTS
  Pulls, Closers, Sweepers,   \* tasks that call next, stream.close, resource.close
  MaxItems,                   \* bound of the model: items a source has
  None

ASSUME FreeIsNoPull == None \notin Pulls
ASSUME BoundIsNatural == MaxItems \in Nat

(* No item and no terminal is the absence of one.                          *)
ASSUME NoneIsAbsence ==
  /\ None \notin [what : {"ok", "failed", "hint"}, n : Nat]
  /\ None \notin {"complete", "failed", "cancelled"}

Calls == Pulls \cup Closers \cup Sweepers

VARIABLES
  kind,           \* the producer: "local", "extension" or "channel"
  attached,       \* attach_background has run
  producer,       \* "run", "send", "drain" or "exit"
  holding,        \* what the producer wants to send
  made,           \* items it has sent
  outcome,        \* how the source ended
  panicked,       \* producer_failure, as the collector will find it
  queue,          \* the channel of one
  cleanup,        \* record.cancel itself; it is a child of the token
  error,          \* observation.error: an execution of unknown fate
  joined,         \* observation.producer_joined
  bound, closed,  \* observation.callback_bound, callback_closed
  settled,
  pendingFailure, \* a failure some pull has received
  recorded,       \* FacadeStreamRuntime.streams holds the record
  stream,         \* the registry's handle: "open" or "released"
  token,          \* facade_cancellation, the registry's cancellation
  terminal,       \* the committed terminal, or None
  last,           \* last_sequence
  resource,       \* "open", "closing" or "released"
  holder,         \* the pull that holds the receiver's lock
  at, item,       \* the await a call is at, and the item it has taken
  given           \* the events returned to the client

source == <<kind, attached, producer, holding, made, outcome, panicked>>
observation == <<error, joined, bound, closed, settled>>
registry == <<stream, token, terminal, last, resource>>
calls == <<holder, at, item>>
vars == <<source, queue, cleanup, observation, pendingFailure, recorded, registry,
          calls, given>>

Item(what, n) == [what |-> what, n |-> n]

TypeOK ==
  /\ kind \in {"local", "extension", "channel"}
  /\ attached \in BOOLEAN /\ panicked \in BOOLEAN /\ cleanup \in BOOLEAN
  /\ producer \in {"run", "send", "drain", "exit"}
  /\ holding \in {"ok", "failed", "hint", None}
  /\ made \in 0..MaxItems
  /\ outcome \in {"running", "finished", "failed"}
  /\ Len(queue) <= 1
  /\ \A i \in DOMAIN queue : queue[i].what \in {"ok", "failed", "hint"}
  /\ error \in BOOLEAN /\ joined \in BOOLEAN /\ bound \in BOOLEAN /\ closed \in BOOLEAN
  /\ settled \in BOOLEAN /\ pendingFailure \in BOOLEAN /\ recorded \in BOOLEAN
  /\ stream \in {"open", "released"}
  /\ token \in BOOLEAN
  /\ terminal \in {"complete", "failed", "cancelled", None}
  /\ last \in 0..(MaxItems + 1)
  /\ resource \in {"open", "closing", "released"}
  /\ holder \in Pulls \cup {None}
  /\ at \in [Calls -> {"idle", "lock", "recv", "eof", "exit", "decide", "settle",
                       "commit", "close", "sweep", "release"}]

(* open_with_ownership and the spawn of the producer, which runs before    *)
(* attach_background has taken its handle.  No await lies between the two, *)
(* so no other call comes in between; the producer's thread may.           *)
Init ==
  /\ kind \in {"local", "extension", "channel"}
  /\ attached = FALSE /\ producer = "run" /\ holding = None /\ made = 0
  /\ outcome = "running" /\ panicked = FALSE /\ queue = <<>> /\ cleanup = FALSE
  /\ error = FALSE /\ joined = FALSE /\ bound = FALSE /\ closed = FALSE /\ settled = TRUE
  /\ pendingFailure = FALSE /\ recorded = TRUE
  /\ stream = "open" /\ token = FALSE /\ terminal = None /\ last = 0 /\ resource = "open"
  /\ holder = None /\ at = [c \in Calls |-> "idle"] /\ item = [c \in Pulls |-> None]
  /\ given = <<>>

(* record.cancel.is_cancelled()                                            *)
Interrupted == token \/ cleanup

CallbackOpen == bound /\ ~closed

(* record_observation, on the record or through its producer.              *)
RecordObservation ==
  /\ error' = (error \/ ~closed)
  /\ settled' = (settled /\ closed)
  /\ UNCHANGED <<joined, bound, closed>>
-----------------------------------------------------------------------------
(* The producer, its collector and the callback behind it.                 *)

Attach ==
  /\ ~attached /\ attached' = TRUE
  /\ joined' = FALSE /\ settled' = FALSE
  /\ UNCHANGED <<kind, producer, holding, made, outcome, panicked, queue, cleanup, error,
                 bound, closed, pendingFailure, recorded, registry, calls, given>>

(* Nothing else of the stream changes in a step of its producer.           *)
Producing ==
  UNCHANGED <<kind, attached, cleanup, pendingFailure, recorded, stream, terminal, last,
              resource, calls, given>>

(* bind_original_callback, before the call is sent to the extension.       *)
BindCallback ==
  /\ kind = "extension" /\ producer = "run" /\ outcome = "running" /\ ~bound
  /\ bound' = TRUE /\ settled' = FALSE
  /\ Producing
  /\ UNCHANGED <<producer, holding, made, outcome, panicked, queue, error, joined, closed, token>>

(* The source yields an item, an error, or - on a channel, which does not  *)
(* look at its errors - an observation, to be sent.                        *)
Yield ==
  /\ producer = "run" /\ outcome = "running"
  /\ \/ holding' = "ok" /\ made < MaxItems /\ (kind = "extension" => bound)
     \/ holding' = "failed"
     \/ holding' = "hint" /\ kind = "channel"
  /\ producer' = "send"
  /\ Producing
  /\ UNCHANGED <<made, outcome, panicked, queue, observation, token>>

(* An observation of the source stops a local producer; the producer of an *)
(* extension goes on for the Completed payload that may follow.            *)
YieldObservation ==
  /\ producer = "run" /\ outcome = "running"
  /\ \/ kind = "local" /\ producer' = "drain"
     \/ kind = "extension" /\ UNCHANGED producer
  /\ RecordObservation
  /\ Producing
  /\ UNCHANGED <<holding, made, outcome, panicked, queue, token>>

HoldsTwo == Len(queue) < 2
HasRoom == Len(queue) < 1

Send ==
  /\ producer = "send" /\ HasRoom
  /\ queue' = Append(queue, Item(holding, made + 1))
  /\ made' = IF holding = "ok" THEN made + 1 ELSE made
  /\ outcome' = IF holding = "ok" THEN outcome ELSE "failed"
  /\ producer' = IF kind = "channel" /\ holding # "ok" THEN "drain" ELSE "run"
  /\ holding' = None
  /\ Producing
  /\ UNCHANGED <<panicked, observation, token>>

(* The producer sees the cleanup token, and drains its source.  A channel  *)
(* may also be cancelled by its resource or its own invocation, and then   *)
(* cancels the stream.                                                     *)
StopSource ==
  /\ producer \in {"run", "send"}
  /\ \/ Interrupted /\ UNCHANGED token
     \/ kind = "channel" /\ token' = TRUE
  /\ producer' = "drain" /\ holding' = None
  /\ Producing
  /\ UNCHANGED <<made, outcome, panicked, queue, observation>>

DrainObservation ==
  /\ producer = "drain" /\ kind # "channel"
  /\ RecordObservation
  /\ Producing
  /\ UNCHANGED <<producer, holding, made, outcome, panicked, queue, token>>

EndSource ==
  /\ \/ producer = "run" /\ outcome' = (IF outcome = "running" THEN "finished" ELSE outcome)
     \/ producer = "drain" /\ UNCHANGED outcome
  /\ producer' = "exit"
  /\ Producing
  /\ UNCHANGED <<holding, made, panicked, queue, observation, token>>

(* A panic of the producer task, or its abort.                             *)
Panic ==
  /\ producer # "exit"
  /\ producer' = "exit" /\ panicked' = TRUE /\ outcome' = "failed" /\ holding' = None
  /\ Producing
  /\ UNCHANGED <<made, queue, observation, token>>

SettlesOnJoin == ~error
JoinSettles == ~error /\ ~CallbackOpen

(* The collector of attach_background.                                     *)
Collect ==
  /\ attached /\ producer = "exit" /\ ~joined
  /\ joined' = TRUE
  /\ settled' = (settled \/ JoinSettles)
  /\ Producing
  /\ UNCHANGED <<producer, holding, made, outcome, panicked, queue, error, bound, closed, token>>

LeavesToCollector == settled
ClosureSettles == settled \/ joined

(* original_callback_physically_closed.                                    *)
CallbackCloses ==
  /\ CallbackOpen
  /\ closed' = TRUE /\ error' = FALSE
  /\ settled' = ClosureSettles
  /\ Producing
  /\ UNCHANGED <<producer, holding, made, outcome, panicked, queue, joined, bound, token>>

(* retain_unknown of the callback's owner.                                 *)
CallbackObserves ==
  /\ CallbackOpen
  /\ RecordObservation
  /\ Producing
  /\ UNCHANGED <<producer, holding, made, outcome, panicked, queue, token>>

Source ==
  \/ Attach \/ BindCallback \/ Yield \/ YieldObservation \/ Send \/ StopSource
  \/ DrainObservation \/ EndSource \/ Panic \/ Collect \/ CallbackCloses \/ CallbackObserves
-----------------------------------------------------------------------------
(* Pulls.                                                                  *)

Moves(c, stage) == at' = [at EXCEPT ![c] = stage] /\ UNCHANGED <<holder, item>>

(* The call returns, or its future is dropped, and frees the receiver.     *)
Returns(c) ==
  /\ at' = [at EXCEPT ![c] = "idle"]
  /\ item' = [p \in Pulls |-> IF p = c THEN None ELSE item[p]]
  /\ holder' = IF holder = c THEN None ELSE holder

Takes(p, taken, stage) ==
  /\ item' = [item EXCEPT ![p] = taken]
  /\ at' = [at EXCEPT ![p] = stage]
  /\ UNCHANGED holder

(* Every clone of the sender is gone: the producer's, and the one that the *)
(* owner of the callback holds.                                            *)
EndOfQueue == queue = <<>> /\ producer = "exit" /\ ~CallbackOpen

(* facade_stream_state: a terminal is not rewritten by a late cancel.      *)
Cancelled == IF terminal = None THEN token ELSE terminal = "cancelled"

(* next, to the receiver's lock; where it refuses nothing changes.         *)
PullEnter(p) ==
  /\ at[p] = "idle" /\ attached
  /\ stream = "open" /\ recorded /\ ~error
  /\ Moves(p, "lock")
  /\ UNCHANGED <<source, queue, cleanup, observation, pendingFailure, recorded, registry, given>>

ReceiverFree(p) == holder = None

PullLock(p) ==
  /\ at[p] = "lock" /\ ReceiverFree(p)
  /\ \/ stream = "released" /\ Returns(p)
     \/ /\ stream = "open" /\ holder' = p
        /\ item' = [item EXCEPT ![p] = IF pendingFailure THEN Item("failed", 0) ELSE None]
        /\ at' = [at EXCEPT ![p] = IF pendingFailure THEN "decide" ELSE "recv"]
  /\ UNCHANGED <<source, queue, cleanup, observation, pendingFailure, recorded, registry, given>>

(* The loop around recv: the branches of its select! in any order.         *)
PullReceive(p) ==
  /\ at[p] = "recv"
  /\ \/ error /\ Returns(p) /\ UNCHANGED queue
     \/ queue # <<>> /\ Takes(p, Head(queue), "decide") /\ queue' = Tail(queue)
     \/ (EndOfQueue \/ Interrupted) /\ Moves(p, "eof") /\ UNCHANGED queue
  /\ UNCHANGED <<source, cleanup, observation, pendingFailure, recorded, registry, given>>

PullEndOfQueue(p) ==
  /\ at[p] = "eof"
  /\ \/ error /\ Returns(p)
     \/ /\ settled \/ Interrupted
        /\ \/ stream = "released" /\ Returns(p)
           \/ stream = "open" /\ Cancelled /\ Moves(p, "decide")
           \/ stream = "open" /\ ~Cancelled /\ Moves(p, "exit")
  /\ UNCHANGED <<source, queue, cleanup, observation, pendingFailure, recorded, registry, given>>

TrustsEndOfQueue == None
ExitItem == IF panicked THEN Item("failed", 0) ELSE None

(* A queue that ended says nothing of how its producer did.                *)
PullExit(p) ==
  /\ at[p] = "exit"
  /\ \/ error /\ Returns(p)
     \/ settled /\ Takes(p, ExitItem, "decide")
  /\ UNCHANGED <<source, queue, cleanup, observation, pendingFailure, recorded, registry, given>>

Taken(p, what) == item[p] # None /\ item[p].what = what

(* advance_facade_stream, or the way to settle_record.                     *)
PullDecide(p) ==
  /\ at[p] = "decide"
  /\ pendingFailure' = (pendingFailure \/ Taken(p, "failed"))
  /\ \/ Taken(p, "hint") /\ RecordObservation /\ Returns(p) /\ UNCHANGED <<cleanup, last, given>>
     \/ /\ ~Taken(p, "hint") /\ UNCHANGED observation
        /\ \/ stream = "released" /\ Returns(p) /\ UNCHANGED <<cleanup, last, given>>
           \/ /\ stream = "open" /\ Taken(p, "ok") /\ ~Cancelled
              /\ last' = last + 1
              /\ given' = Append(given, [seq |-> last + 1, kind |-> "item", item |-> item[p].n])
              /\ Returns(p) /\ UNCHANGED cleanup
           \/ /\ stream = "open" /\ (Taken(p, "ok") => Cancelled)
              /\ cleanup' = TRUE
              /\ IF error THEN Returns(p) ELSE Moves(p, "settle")
              /\ UNCHANGED <<last, given>>
  /\ UNCHANGED <<source, queue, recorded, stream, token, terminal, resource>>

(* settle_record.                                                          *)
PullSettle(p) ==
  /\ at[p] = "settle"
  /\ \/ error /\ Returns(p)
     \/ settled /\ Moves(p, "commit")
  /\ UNCHANGED <<source, queue, cleanup, observation, pendingFailure, recorded, registry, given>>

(* finish_record: an extension stream closes the resource it stands on.    *)
Finish ==
  /\ stream' = "released" /\ recorded' = FALSE
  /\ resource' = IF kind = "extension" THEN "released" ELSE resource

(* settle_facade_stream and finish_record.                                 *)
PullCommit(p) ==
  /\ at[p] = "commit"
  /\ \/ /\ stream = "released" \/ terminal # None
        /\ UNCHANGED <<registry, recorded, given>>
     \/ /\ stream = "open" /\ terminal = None
        /\ terminal' = IF token THEN "cancelled"
                       ELSE IF Taken(p, "failed") THEN "failed" ELSE "complete"
        /\ last' = last + 1
        /\ given' = Append(given, [seq |-> last + 1, kind |-> terminal', item |-> 0])
        /\ Finish /\ UNCHANGED token
  /\ Returns(p)
  /\ UNCHANGED <<source, queue, cleanup, observation, pendingFailure>>

Pull(p) ==
  \/ PullEnter(p) \/ PullLock(p) \/ PullReceive(p) \/ PullEndOfQueue(p) \/ PullExit(p)
  \/ PullDecide(p) \/ PullSettle(p) \/ PullCommit(p)
-----------------------------------------------------------------------------
(* Cancellation and close.                                                 *)

(* cancel_facade_stream: accepted once, and never after a terminal.        *)
Cancel ==
  /\ attached /\ stream = "open" /\ recorded /\ terminal = None /\ ~token
  /\ token' = TRUE
  /\ UNCHANGED <<source, queue, cleanup, observation, pendingFailure, recorded, stream,
                 terminal, last, resource, calls, given>>

CloseEnter(c) ==
  /\ at[c] = "idle" /\ attached /\ stream = "open" /\ recorded
  /\ token' = (token \/ terminal = None)
  /\ cleanup' = TRUE
  /\ IF error THEN UNCHANGED calls ELSE Moves(c, "close")
  /\ UNCHANGED <<source, queue, observation, pendingFailure, recorded, stream, terminal, last,
                 resource, given>>

CloseFinish(c) ==
  /\ at[c] = "close"
  /\ \/ error /\ UNCHANGED <<stream, recorded, resource>>
     \/ settled /\ Finish
  /\ Returns(c)
  /\ UNCHANGED <<source, queue, cleanup, observation, pendingFailure, token, terminal, last, given>>

(* FacadeState::close_resource: closes the resource to new streams, then   *)
(* close_matching on the ones it has.                                      *)
SweepEnter(c) ==
  /\ at[c] = "idle" /\ attached /\ kind # "extension" /\ resource # "released"
  /\ resource' = "closing"
  /\ cleanup' = (cleanup \/ recorded)
  /\ \/ recorded /\ error /\ UNCHANGED calls
     \/ recorded /\ ~error /\ Moves(c, "sweep")
     \/ ~recorded /\ Moves(c, "release")
  /\ UNCHANGED <<source, queue, observation, pendingFailure, recorded, stream, token, terminal,
                 last, given>>

SweepSettle(c) ==
  /\ at[c] = "sweep"
  /\ \/ error /\ Returns(c) /\ UNCHANGED recorded
     \/ settled /\ Moves(c, "release") /\ recorded' = FALSE
  /\ UNCHANGED <<source, queue, cleanup, observation, pendingFailure, registry, given>>

(* The resource's write lock, which a channel's producer shares, then its  *)
(* integrations, which may fail, and close_facade_resource.                *)
SweepRelease(c) ==
  /\ at[c] = "release" /\ (kind = "channel" => producer = "exit")
  /\ \/ resource' = "released" /\ stream' = "released"
     \/ UNCHANGED <<resource, stream>>
  /\ Returns(c)
  /\ UNCHANGED <<source, queue, cleanup, observation, pendingFailure, recorded, token, terminal,
                 last, given>>

(* The shutdown timeout of settle_record.                                  *)
Deadline(c) ==
  /\ at[c] \in {"settle", "close", "sweep"}
  /\ Returns(c)
  /\ UNCHANGED <<source, queue, cleanup, observation, pendingFailure, recorded, registry, given>>

(* The future of a call is dropped where it waits, as session/close does   *)
(* with the operations of its Session.                                     *)
Drop(c) ==
  /\ at[c] \in {"lock", "recv", "eof", "exit", "settle", "close", "sweep", "release"}
  /\ Returns(c)
  /\ UNCHANGED <<source, queue, cleanup, observation, pendingFailure, recorded, registry, given>>

Close(c) == CloseEnter(c) \/ CloseFinish(c)
Sweep(c) == SweepEnter(c) \/ SweepSettle(c) \/ SweepRelease(c)

Next ==
  \/ Source \/ Cancel
  \/ \E p \in Pulls : Pull(p)
  \/ \E c \in Closers : Close(c)
  \/ \E c \in Sweepers : Sweep(c)
  \/ \E c \in Calls : Deadline(c) \/ Drop(c)

Spec == Init /\ [][Next]_vars

(* Spawned tasks and calls that were made are polled, deadlines expire,    *)
(* the receiver's lock is FIFO, and a source that is drained ends.  Nobody *)
(* has to call, cancel or close, no source has to yield, and no callback   *)
(* has to close.                                                           *)
FairSpec ==
  /\ Spec
  /\ WF_vars(Attach) /\ WF_vars(Collect) /\ WF_vars(StopSource /\ Interrupted)
  /\ WF_vars(producer = "drain" /\ EndSource)
  /\ \A p \in Pulls :
       /\ SF_vars(PullLock(p))
       /\ WF_vars(at[p] \notin {"idle", "lock"} /\ Pull(p))
  /\ \A c \in Calls : WF_vars(Deadline(c))
-----------------------------------------------------------------------------
(* Properties.                                                             *)

(* Pulls return each item once, in order and with contiguous sequences,    *)
(* and then one terminal: cancelled when a cancellation was accepted       *)
(* before it, failed when the source or its producer failed, complete when *)
(* it ended and everything was returned - or when its resource was closed. *)
Promise == INSTANCE PullStream WITH cancelled <- Cancelled, cut <- resource # "open"
ImplementsPullStream == Promise!Spec

(* The stream keeps its address until the producer has been joined and its *)
(* callback is physically closed, and the runtime its record until nothing *)
(* about it is unknown, whatever times out, is dropped or closed again     *)
(* (settle_record, attach_background, original_callback_physically_closed).*)
ReleasesSettled ==
  /\ stream' # stream => joined /\ ~CallbackOpen
  /\ recorded' # recorded => joined /\ ~CallbackOpen /\ ~error
AddressIsKept == [][ReleasesSettled]_vars

(* A pull of a stream that was interrupted, or whose producer has exited,  *)
(* returns, unless a callback stays open for good (next, settle_record).   *)
PullsEnd ==
  []<>~CallbackOpen =>
    \A p \in Pulls :
      (at[p] # "idle" /\ (Interrupted \/ producer = "exit")) ~> at[p] = "idle"
=============================================================================
