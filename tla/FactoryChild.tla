---------------------------- MODULE FactoryChild ----------------------------
(***************************************************************************)
(* A remote agent and those who close it: SubagentFactoryAdapter reserves  *)
(* the address of a child, has the peer's factory construct it and hands   *)
(* out a proxy; the FactoryInstanceLease that all of them share, and every *)
(* call of the child binds, closes the child exactly when it is last seen  *)
(* of.  In the plan "direct" the agent was registered by the client and    *)
(* has no such lease; the plan "channel" is a stream of a channel handler. *)
(***************************************************************************)
EXTENDS ExtensionBridge

CONSTANTS MaxCloses   \* bound of the model: AgentClose calls

Closers == {"creator", "wrapper", "proxy"}

ASSUME FamilyAssumption == MaxCloses \in Nat \ {0} /\ None \notin Closers \cup {"set"}

VARIABLES
  parent,     \* the registration of the factory
  child,      \* the registration of the agent
  creator,    \* the future of AgentFactory::create
  submitted,  \* construction_submitted
  lease,      \* the Arc<FactoryInstanceLease>: "none", "live" or "dropped"
  proxy,      \* who owns the Agent: "none", "held" or "dropped"
  wrapper,    \* close_factory_stream still holds its clone
  bound,      \* calls whose owner holds one: factory_context
  retained,   \* retained_factory_owner of the child's registration
  unknown,    \* FactoryInstanceLease.observation
  source,     \* acknowledged_close names the call "close"
  acked,      \* and holds its reply
  cell,       \* the OnceCell: None, the closer that initialises it, or "set"
  cl,         \* where a closer stands
  cleanup,    \* the detached task
  closes,     \* AgentClose calls made
  torn,       \* release_after_agents has run
  peerClosed  \* the peer has acknowledged a close in time or to its owner

registry == <<parent, child>>
ownership == <<submitted, lease, proxy, wrapper, bound, retained, unknown>>
closing == <<source, acked, cell, cl, cleanup, closes, peerClosed>>
family == <<registry, creator, ownership, closing, torn>>
vars == <<bridge, family>>

Registered == child \in {"reserved", "committed"}

(* The type invariant of a callback and the family around it.              *)
FamilyTypeOK ==
  /\ BridgeTypeOK
  /\ parent \in {"open", "closed"}
  /\ child \in {"none", "reserved", "committed", "gone"}
  /\ creator \in {"idle", "create", "wait", "commit", "close", "done"}
  /\ submitted \in BOOLEAN /\ wrapper \in BOOLEAN /\ retained \in BOOLEAN
  /\ lease \in {"none", "live", "dropped"}
  /\ proxy \in {"none", "held", "dropped"}
  /\ bound \in [Calls -> BOOLEAN]
  /\ unknown \in {"named", "anonymous", None}
  /\ source \in BOOLEAN /\ acked \in BOOLEAN /\ torn \in BOOLEAN /\ peerClosed \in BOOLEAN
  /\ cell \in Closers \cup {None, "set"}
  /\ cl \in [Closers -> {"idle", "look", "once", "ack", "sent", "done"}]
  /\ cleanup \in {"none", "try", "sent", "backoff", "done"}
  /\ closes \in 0..MaxCloses

Init ==
  /\ BridgeInit
  /\ plan \in Plans
  /\ plan \notin {"agent", "once"} => ~scoped
  /\ phase = [c \in Calls |-> IF c # "work" \/ plan = "factory" THEN "idle"
                            ELSE IF plan = "once" THEN "bare" ELSE "open"]
  /\ at = CASE plan = "factory" -> "none" [] plan = "once" -> "wait" [] OTHER -> "poll"
  /\ parent = IF plan = "factory" THEN "open" ELSE "closed"
  /\ child = IF plan = "direct" THEN "committed" ELSE "none"
  /\ proxy = IF plan = "direct" THEN "held" ELSE "none"
  /\ creator = "idle" /\ submitted = FALSE /\ lease = "none"
  /\ wrapper = FALSE /\ bound = [c \in Calls |-> FALSE]
  /\ retained = FALSE /\ unknown = None
  /\ source = FALSE /\ acked = FALSE /\ cell = None
  /\ cl = [k \in Closers |-> "idle"] /\ cleanup = "none" /\ closes = 0
  /\ torn = FALSE /\ peerClosed = FALSE

(* Everything of the bridge but a call that is made.                       *)
CallOnly ==
  UNCHANGED <<plan, scoped, connected, cancelled, pending, peer, dispatch, sink, consumer>>
-----------------------------------------------------------------------------
(* Calls of the bridge and what they do to the family.                     *)

(* A call's observation reaches the factory's lease if the call is bound   *)
(* to it and the registration it was made on is still there.               *)
Reaches(c) ==
  bound[c] /\ fate'[c] # None /\ (IF c = "create" THEN parent = "open" ELSE Registered)

Retain ==
  LET news == {c \in Calls : Reaches(c) /\ fate'[c] # fate[c]}
  IN /\ unknown' = IF news = {} THEN unknown ELSE fate'[CHOOSE c \in news : TRUE]
     /\ retained' = (retained \/ (news # {} /\ Registered))

FamilyKept ==
  UNCHANGED <<registry, creator, submitted, lease, proxy, wrapper, bound, closing, torn>>

(* The client process and the connection's own tasks.                      *)
PeerStep ==
  /\ \/ Detailed /\ (PeerChunk \/ PeerBad \/ PeerHint \/ Cancel \/ Watch("work"))
     \/ PeerEnds \/ AdmitTerminal \/ SendTerminal
     \/ Watch("create")
     \/ closes < MaxCloses /\ Watch("close")
  /\ FamilyKept /\ Retain

(* "result" of a close, before its fate was unknown: acknowledged_factory_close. *)
Acknowledges(c, a) == c = "close" /\ a = "result" /\ fate[c] = None

AnswerStep(c, a) ==
  /\ Answer(c, a)
  /\ ~Detailed => a \notin {"gone", "raw"}
  /\ c = "close" => (a = "error" => closes < MaxCloses)
  /\ Retain
  /\ peerClosed' = (peerClosed \/ (Acknowledges(c, a) /\ (bound[c] \/ (cleanup = "sent" /\ ~Interrupted(c)))))
  /\ UNCHANGED <<registry, creator, submitted, lease, proxy, wrapper, bound, source, acked,
                 cell, cl, cleanup, closes, torn>>

LoseStep(c) == Lose(c) /\ FamilyKept /\ Retain

DisconnectStep == Disconnect /\ UNCHANGED family

(* clear_after_original_physical_closure, then the reply of a close.       *)
ReleaseStep(c) ==
  /\ Release(c)
  /\ unknown' = IF bound[c] THEN None ELSE unknown
  /\ retained' = (retained /\ ~bound[c])
  /\ acked' = (acked \/ (bound[c] /\ c = "close" /\ source /\ answer[c] = "result"
                         /\ fate[c] = None))
  /\ bound' = [bound EXCEPT ![c] = FALSE]
  /\ UNCHANGED <<registry, creator, submitted, lease, proxy, wrapper, source, cell, cl,
                 cleanup, closes, torn, peerClosed>>

ConsumerStep ==
  /\ \/ TakeRefusal \/ TakeEvent \/ TakeReply \/ Finish \/ YieldFinal
     \/ Detailed /\ (FindEmpty \/ TakeTerminal)
  /\ FamilyKept /\ Retain

(* The future of a call without an owner.                                  *)
BareStep ==
  /\ (\E a \in Answers : BareAnswered(a)) \/ BareInterrupted
  /\ UNCHANGED family

BareDrop == BareDropped /\ UNCHANGED family

(* A stream that is dropped drops the wrapper around it, close and all.    *)
DropWorkStream ==
  /\ DropStream
  /\ wrapper' = FALSE
  /\ cl' = [cl EXCEPT !["wrapper"] = IF @ = "idle" THEN @ ELSE "done"]
  /\ cell' = IF cell = "wrapper" THEN None ELSE cell
  /\ UNCHANGED <<registry, creator, submitted, lease, proxy, bound, retained, unknown, source,
                 acked, cleanup, closes, torn, peerClosed>>
-----------------------------------------------------------------------------
(* SubagentFactoryAdapter::create.                                         *)

Creating ==
  UNCHANGED <<proxy, wrapper, retained, unknown, closing, torn>>

Reserve ==
  /\ plan = "factory" /\ creator = "idle" /\ parent = "open" /\ ~torn
  /\ child' = "reserved" /\ lease' = "live" /\ creator' = "create"
  /\ Creating /\ UNCHANGED <<bridge, parent, submitted, bound>>

Create ==
  /\ creator = "create"
  /\ \/ /\ connected /\ parent = "open"
        /\ Submit("create") /\ CallOnly
        /\ submitted' = TRUE /\ creator' = "wait"
        /\ bound' = [bound EXCEPT !["create"] = Registered]
     \/ creator' = "close" /\ UNCHANGED <<bridge, submitted, bound>>
  /\ Creating /\ UNCHANGED <<registry, lease>>

ReturnsResultsOnly(c) == HasReply(c) /\ reply[c] = "ok"

(* wait_original_response: an observation without a refusal is waited out. *)
Returned(c) == HasReply(c) /\ (reply[c] \in {"ok", "error"} \/ fate[c] = "named")

Created ==
  /\ creator = "wait" /\ Returned("create")
  /\ creator' = CASE reply["create"] = "ok" -> "commit"
                  [] reply["create"] = "error" -> "close"
                  [] OTHER -> "done"
  /\ Creating /\ UNCHANGED <<bridge, registry, submitted, lease, bound>>

(* complete_factory_instance_reserved.                                     *)
Commit ==
  /\ creator = "commit"
  /\ IF child = "reserved" /\ parent = "open"
     THEN child' = "committed" /\ proxy' = "held" /\ creator' = "done"
     ELSE creator' = "close" /\ UNCHANGED <<child, proxy>>
  /\ UNCHANGED <<bridge, parent, submitted, lease, bound, wrapper, retained, unknown, closing,
                 torn>>

(* Its caller drops the future, with the close it may be awaiting.         *)
DropCreator ==
  /\ creator \in {"create", "wait", "commit", "close"}
  /\ creator' = "done"
  /\ cl' = [cl EXCEPT !["creator"] = "done"]
  /\ cell' = IF cell = "creator" THEN None ELSE cell
  /\ UNCHANGED <<bridge, registry, ownership, source, acked, cleanup, closes, torn, peerClosed>>
-----------------------------------------------------------------------------
(* The Agent in its owner's hands.                                         *)

Admits(c) == connected /\ Registered /\ ~Held("work") /\ ~Held("close")

(* execute_stream: prepare refuses a child that is not committed and one   *)
(* that is busy; the refusal closes the child.                             *)
Work ==
  /\ plan = "factory" /\ proxy = "held" /\ phase["work"] = "idle" /\ at = "none"
  /\ IF Admits("work") /\ child = "committed"
     THEN /\ Submit("work") /\ at' = "poll"
          /\ bound' = [bound EXCEPT !["work"] = lease = "live"]
          /\ UNCHANGED <<plan, scoped, connected, cancelled, pending, peer, dispatch, sink, term, replied,
                         told, out, final, lost>>
     ELSE at' = "end" /\ UNCHANGED <<bound, plan, scoped, connected, calls, peer, dispatch,
                                     sink, term, replied, told, out, final, lost>>
  /\ wrapper' = TRUE
  /\ UNCHANGED <<registry, creator, submitted, lease, proxy, retained, unknown, closing, torn>>

DropProxy ==
  /\ proxy = "held" /\ proxy' = "dropped"
  /\ cl' = [cl EXCEPT !["proxy"] = "done"]
  /\ cell' = IF cell = "proxy" THEN None ELSE cell
  /\ UNCHANGED <<bridge, registry, creator, submitted, lease, wrapper, bound, retained, unknown,
                 source, acked, cleanup, closes, torn, peerClosed>>

(* Who may call close: a failed creator, the stream at its end, the owner. *)
Start(k) ==
  /\ cl[k] = "idle" \/ (k = "proxy" /\ cl[k] = "done")
  /\ CASE k = "creator" -> creator = "close"
       [] k = "wrapper" -> wrapper /\ at = "end"
       [] k = "proxy" -> proxy = "held"
  /\ cl' = [cl EXCEPT ![k] = "look"]
  /\ UNCHANGED <<bridge, registry, creator, ownership, source, acked, cell, cleanup, closes,
                 torn, peerClosed>>

(* release_extension with the streams of the child.                        *)
ReleaseChild ==
  /\ child' = IF Registered THEN "gone" ELSE child
  /\ IF Registered /\ phase["work"] # "idle" /\ listed
     THEN Terminate("failed") /\ listed' = FALSE
     ELSE UNCHANGED sink
  /\ UNCHANGED <<plan, scoped, connected, calls, peer, dispatch, consumer>>

(* A closer is through; a creator and the wrapper drop their clone then.   *)
Through(k) ==
  /\ cl' = [cl EXCEPT ![k] = "done"]
  /\ creator' = IF k = "creator" THEN "done" ELSE creator
  /\ wrapper' = (wrapper /\ k # "wrapper")

(* FactoryInstanceLease::close up to the OnceCell.                         *)
Look(k) ==
  /\ cl[k] = "look" /\ lease = "live"
  /\ ~\E c \in Calls : phase[c] = "committed" /\ fate[c] # None
  /\ \/ unknown = "named" /\ Through(k)
     \/ unknown = None /\ cl' = [cl EXCEPT ![k] = "once"] /\ UNCHANGED <<creator, wrapper>>
  /\ UNCHANGED <<bridge, registry, submitted, lease, proxy, bound, retained, unknown, source,
                 acked, cell, cleanup, closes, torn, peerClosed>>

Once(k) ==
  /\ cl[k] = "once"
  /\ \/ cell = "set" /\ Through(k) /\ UNCHANGED cell
     \/ cell = None /\ cell' = k /\ cl' = [cl EXCEPT ![k] = "ack"]
        /\ UNCHANGED <<creator, wrapper>>
  /\ UNCHANGED <<bridge, registry, submitted, lease, proxy, bound, retained, unknown, source,
                 acked, cleanup, closes, torn, peerClosed>>

CallsClose(owned) ==
  /\ Submit("close") /\ CallOnly
  /\ closes < MaxCloses /\ closes' = closes + 1
  /\ source' = owned /\ acked' = FALSE
  /\ bound' = [bound EXCEPT !["close"] = owned]
  /\ UNCHANGED <<registry, submitted, lease, proxy, retained, unknown, torn, peerClosed>>

(* The initializer: an earlier close that is still out is waited for.      *)
Acknowledged(k) ==
  /\ cl[k] = "ack"
  /\ ~(source /\ phase["close"] \in {"open", "committed"})
  /\ IF acked \/ ~submitted
     THEN /\ ReleaseChild
          /\ cell' = "set" /\ Through(k) /\ acked' = FALSE /\ source' = FALSE
          /\ UNCHANGED <<parent, submitted, lease, proxy, bound, retained, unknown, cleanup,
                         closes, torn, peerClosed>>
     ELSE IF Admits("close")
     THEN /\ CallsClose(TRUE)
          /\ cl' = [cl EXCEPT ![k] = "sent"]
          /\ UNCHANGED <<creator, wrapper, cell, cleanup>>
     ELSE /\ cell' = None /\ Through(k) /\ source' = FALSE
          /\ UNCHANGED <<bridge, registry, submitted, lease, proxy, bound, retained, unknown,
                         acked, cleanup, closes, torn, peerClosed>>

Sent(k) ==
  /\ cl[k] = "sent" /\ Returned("close") /\ lease # "none"
  /\ IF reply["close"] = "ok" \/ acked
     THEN ReleaseChild /\ cell' = "set"
     ELSE UNCHANGED <<bridge, child>> /\ cell' = None
  /\ acked' = FALSE /\ source' = FALSE
  /\ Through(k)
  /\ UNCHANGED <<parent, submitted, lease, proxy, bound, retained, unknown, cleanup, closes,
                 torn, peerClosed>>

(* The owner may drop its close and call it again later.                   *)
DropClose ==
  /\ cl["proxy"] \in {"look", "once", "ack", "sent"}
  /\ cl' = [cl EXCEPT !["proxy"] = "idle"]
  /\ cell' = IF cell = "proxy" THEN None ELSE cell
  /\ UNCHANGED <<bridge, registry, creator, ownership, source, acked, cleanup, closes, torn,
                 peerClosed>>
-----------------------------------------------------------------------------
(* Agent::close of an agent that has no factory.                           *)

Watched(c) ==
  c \in {"work", "close"} /\ fate[c] # None /\ phase[c] \in {"open", "committed"}

DirectClose ==
  /\ cl["proxy"] = "look" /\ lease = "none"
  /\ IF \E c \in Calls : Watched(c)
     THEN /\ \E c \in Calls : Watched(c) /\ phase[c] = "open" /\ fate[c] = "named"
          /\ Through("proxy")
          /\ UNCHANGED <<bridge, registry, submitted, lease, proxy, bound, retained, unknown,
                         source, acked, cell, cleanup, closes, torn, peerClosed>>
     ELSE IF Admits("close")
     THEN /\ CallsClose(FALSE)
          /\ cl' = [cl EXCEPT !["proxy"] = "sent"]
          /\ UNCHANGED <<creator, wrapper, cell, cleanup>>
     ELSE /\ Through("proxy")
          /\ UNCHANGED <<bridge, registry, submitted, lease, proxy, bound, retained, unknown,
                         source, acked, cell, cleanup, closes, torn, peerClosed>>

DirectClosed ==
  /\ cl["proxy"] = "sent" /\ lease = "none" /\ Returned("close")
  /\ IF reply["close"] = "ok" THEN ReleaseChild ELSE UNCHANGED <<bridge, child>>
  /\ Through("proxy")
  /\ UNCHANGED <<parent, submitted, lease, proxy, bound, retained, unknown, source, acked, cell,
                 cleanup, closes, torn, peerClosed>>
-----------------------------------------------------------------------------
(* The last clone of the lease, and the task it may leave behind.          *)

Owners ==
  \/ creator \in {"create", "wait", "commit", "close"}
  \/ proxy = "held" \/ wrapper \/ retained
  \/ \E c \in Calls : bound[c]

(* Drop for FactoryInstanceLease.                                          *)
DropLease ==
  /\ lease = "live" /\ ~Owners
  /\ lease' = "dropped"
  /\ IF unknown # None \/ cell = "set"
     THEN UNCHANGED <<bridge, child, cleanup>>
     ELSE IF acked \/ ~submitted
     THEN ReleaseChild /\ UNCHANGED cleanup
     ELSE cleanup' = (IF torn THEN "done" ELSE "try") /\ UNCHANGED <<bridge, child>>
  /\ UNCHANGED <<parent, creator, submitted, proxy, wrapper, bound, retained, unknown, source,
                 acked, cell, cl, closes, torn, peerClosed>>

CleanupTries ==
  /\ cleanup = "try"
  /\ IF ~connected THEN cleanup' = "done" /\ UNCHANGED <<bridge, closes, source, acked, bound>>
     ELSE IF Admits("close")
     THEN CallsClose(FALSE) /\ cleanup' = "sent"
     ELSE cleanup' = "backoff" /\ UNCHANGED <<bridge, closes, source, acked, bound>>
  /\ UNCHANGED <<registry, creator, submitted, lease, proxy, wrapper, retained, unknown, cell,
                 cl, torn, peerClosed>>

CleanupAnswered ==
  /\ cleanup = "sent" /\ Returned("close")
  /\ IF reply["close"] = "ok"
     THEN ReleaseChild /\ cleanup' = "done"
     ELSE UNCHANGED <<bridge, child>> /\ cleanup' = "backoff"
  /\ UNCHANGED <<parent, creator, ownership, source, acked, cell, cl, closes, torn, peerClosed>>

CleanupRetries ==
  /\ cleanup = "backoff"
  /\ cleanup' = IF connected THEN "try" ELSE "done"
  /\ UNCHANGED <<bridge, registry, creator, ownership, source, acked, cell, cl, closes, torn,
                 peerClosed>>
-----------------------------------------------------------------------------
(* Registrations ending from outside: the client unregisters the factory   *)
(* or the child, or the Host tears down.                                   *)

UnregistersOwner ==
  /\ plan = "factory" /\ parent = "open" /\ connected
  /\ parent' = "closed"
  /\ UNCHANGED <<bridge, child, creator, ownership, closing, torn>>

(* close_extension refuses the parent of a child that is still registered. *)
UnregisterParent ==
  /\ plan = "factory" /\ parent = "open" /\ ~Registered /\ connected
  /\ parent' = "closed"
  /\ UNCHANGED <<bridge, child, creator, ownership, closing, torn>>

(* The registration's own references to owner and lease go with it.        *)
UnregisterChild ==
  /\ Registered /\ connected
  /\ ReleaseChild
  /\ retained' = FALSE
  /\ UNCHANGED <<parent, creator, submitted, lease, proxy, wrapper, bound, unknown, closing,
                 torn>>

TearDown ==
  /\ ~connected /\ ~torn /\ Free
  /\ torn' = TRUE
  /\ parent' = "closed" /\ child' = IF Registered THEN "gone" ELSE child
  /\ cleanup' = IF cleanup = "none" THEN "none" ELSE "done"
  /\ retained' = FALSE
  /\ listed' = FALSE
  /\ IF listed /\ phase["work"] # "idle" THEN Terminate("failed")
     ELSE UNCHANGED <<seen, kept, mailbox>>
  /\ UNCHANGED <<plan, scoped, connected, calls, peer, dispatch, consumer, creator, submitted,
                 lease, proxy, wrapper, bound, unknown, source, acked, cell, cl, closes,
                 peerClosed>>

Next ==
  \/ PeerStep
  \/ \E c \in Calls : LoseStep(c) \/ ReleaseStep(c) \/ \E a \in Answers : AnswerStep(c, a)
  \/ DisconnectStep \/ ConsumerStep \/ DropWorkStream \/ BareStep \/ BareDrop
  \/ Reserve \/ Create \/ Created \/ Commit \/ DropCreator
  \/ Work \/ DropProxy \/ DropClose
  \/ \E k \in Closers : Start(k) \/ Look(k) \/ Once(k) \/ Acknowledged(k) \/ Sent(k)
  \/ DirectClose \/ DirectClosed
  \/ DropLease \/ CleanupTries \/ CleanupAnswered \/ CleanupRetries
  \/ UnregisterParent \/ UnregisterChild \/ TearDown
-----------------------------------------------------------------------------
Spec == Init /\ [][Next]_vars

(* The futures of creator, closers and cleanup are polled until they are   *)
(* dropped; a peer answers every call and ends every stream in the end; an *)
(* owner need not close.                                                   *)
CreatorStep == Create \/ Created \/ Commit

CloserStep(k) ==
  \/ k # "proxy" /\ Start(k)
  \/ Look(k) \/ Once(k) \/ Acknowledged(k) \/ Sent(k)
  \/ k = "proxy" /\ (DirectClose \/ DirectClosed)

FairSpec ==
  /\ Spec
  /\ WF_vars(PeerEnds /\ FamilyKept /\ Retain)
  /\ WF_vars((AdmitTerminal \/ SendTerminal) /\ FamilyKept /\ Retain)
  /\ \A c \in Calls :
       WF_vars(LoseStep(c) \/ ReleaseStep(c) \/ \E a \in Answers : AnswerStep(c, a))
  /\ WF_vars(ConsumerStep) /\ WF_vars(BareStep)
  /\ WF_vars(CreatorStep) /\ \A k \in Closers : WF_vars(CloserStep(k))
  /\ WF_vars(DropLease) /\ WF_vars(CleanupTries \/ CleanupAnswered \/ CleanupRetries)
  /\ WF_vars(TearDown)

(* A child of a factory that is registered on a living connection has its  *)
(* factory, and someone who answers for it: a clone of its lease, or the   *)
(* detached task that closes what a dropped lease has left.  Creators that *)
(* are dropped in the middle of a construction, closers that are cancelled *)
(* and the client's own extension/unregister do not orphan it.  AgentClose *)
(* is sent once its constructor and its stream are over, and never again   *)
(* after the peer has acknowledged one to an owner that had not given up:  *)
(* closers that race, or that are dropped and call again, share one close  *)
(* (acknowledged_close, the OnceCell of the lease).                        *)
ChildIsOwned ==
  /\ [](Registered /\ plan = "factory" /\ connected =>
          /\ parent = "open"
          /\ lease = "live" \/ cleanup \in {"try", "sent", "backoff"})
  /\ [][closes' # closes => ~peerClosed /\ ~Held("work") /\ ~Held("create")]_vars

Contract == INSTANCE CallbackContract WITH
  MaxItems <- MaxChunks,
  proven <- answer["work"] \in {"error", "gone"} \/ Facts(answer["work"], ended)
            \/ (Channel /\ answer["work"] # None),
  doubtful <- fate["work"] # None /\ (Channel \/ reply["work"] = "error"),
  cut <- ~connected,
  lost <- lost > 0,
  owned <- IF phase["work"] = "idle" \/ plan = "once" THEN "never"
           ELSE IF Held("work") THEN "held" ELSE "free",
  sent <- sent, given <- out,
  end <- IF at # "end" \/ plan = "once" THEN "no"
         ELSE IF final = "complete" THEN "whole" ELSE "short"

(* A streaming callback keeps the promise of CallbackContract: whatever    *)
(* deadlines, cancellations and full mailboxes do, it is owned until the   *)
(* peer has proved its end, its items come in order, its end is told once, *)
(* after it was given back, and a complete end means that nothing is       *)
(* missing, the race of take_terminal and an unknown fate apart.           *)
ImplementsContract == Contract!Spec

WaiterTold ==
  \/ at \in {"end", "dropped"} /\ (plan = "once" => ~Held("work"))
  \/ Channel /\ broken
  \/ plan = "once" /\ fate["work"] # None
  \/ /\ plan \notin {"channel", "once"}
     /\ ~connected \/ broken \/ ~listed \/ answer["work"] \in {"gone", "raw"}

Abandoned == creator = "done" /\ proxy # "held" /\ ~wrapper
Reclaimed ==
  \/ ~Registered \/ ~connected \/ broken
  \/ \E c \in Calls : Held(c) /\ fate[c] # None

(* Whoever waits for a stream is told its end: always for that of a        *)
(* channel whose peer numbers its events in order, and for an agent's      *)
(* unless the connection ends, its registration does, or its peer breaks   *)
(* the numbering or answers with a transport error.  A call without an     *)
(* owner returns, and its lease is then free unless its fate is unknown;   *)
(* only such a fate may leave it waiting.  And a child that its creator,   *)
(* its stream and its owner have left is closed and its address released,  *)
(* unless the connection ends or a callback of unknown fate still holds it:*)
(* the calls that are out come home, the last one drops the lease, and the *)
(* cleanup retries until the peer agrees.                                  *)
CallbacksEnd ==
  /\ at \in {"poll", "take", "final", "wait"} ~> WaiterTold
  /\ Abandoned ~> Reclaimed
=============================================================================
