-------------------------- MODULE ExtensionBridge --------------------------
(***************************************************************************)
(* Reverse invocations of the extension bridge                             *)
(* (core_profile/extension_bridge.rs): the calls the Host makes to the     *)
(* process of an SDK, which answers once and, for a stream, also notifies  *)
(* events.  Three calls are told apart: "create", the constructor of a     *)
(* factory, "work", the one streaming call, and "close", the AgentClose of *)
(* the agent that works; FactoryChild says who makes them.                 *)
(*                                                                         *)
(* Notifications and answers are handled in order on one task of the       *)
(* connection; deadline watcher and tracker are polled there too, between  *)
(* two of them.  Consumers and waiters run on other threads.  A closure    *)
(* takes effect in two steps, the flag ("committed") and then the release  *)
(* of what the invocation holds, before the handler goes on.  Sequence     *)
(* numbers are left out: what the sink does with one depends on whether it *)
(* continues the peer's numbering and whether a terminal was admitted.     *)
(***************************************************************************)
EXTENDS Naturals, Sequences, FiniteSets

CONSTANTS
  Capacity,   \* max_outstanding_live_events, the mailbox of a stream
  MaxChunks,  \* bound of the model: chunks to a channel handler; an agent sends one
  None

ASSUME BridgeAssumption ==
  /\ Capacity \in Nat \ {0} /\ MaxChunks \in Nat \ {0}
  /\ None \notin {"complete", "failed", "error", "stop", "named", "anonymous", "ok", "setup",
                  "result", "gone", "raw", "lost"}

Calls == {"create", "work", "close"}

(* Whose stream it is: a channel handler's, an agent's that is only asked  *)
(* to work, or that of an agent that is also closed.  In the plan "once"   *)
(* "work" is a call of a hook, a guard or a store: it has no stream, and   *)
(* nobody owns it but the future that waits for its answer.                *)
Plans == {"channel", "agent", "direct", "factory", "once"}

VARIABLES
  plan,       \* whose call "work" is
  scoped,     \* the context of "work" names a Run
  connected,  \* the transport
  phase,      \* a call's owner; "bare" is a call without one
  cancelled,  \* lease.cancellation() of "work"
  stop,       \* interrupted: the watcher has seen a deadline or a cancellation
  pending,    \* pending_failure of "work"
  answer,     \* what the peer answered
  reply,      \* what the response handler made of it, in the oneshot
  fate,       \* observation: "anonymous" is one without a refusal
  sent, hinted,         \* chunks the peer has sent, and one observation among them
  broken,     \* the peer's numbering is ahead of the sink's
  ended,      \* remote_terminal_received, and which
  dispatch,   \* how far the handler is with that terminal
  listed,     \* ExtensionBridgeShared.streams holds the sink
  seen, kept, \* terminal_seen, and the terminal kept in the sink
  mailbox,
  at,         \* the consumer's stream
  term, replied, told,  \* its state.terminal, answered, observation_delivered
  out,        \* chunks it has yielded
  final,      \* its last item
  lost        \* chunks its terminal has overtaken

peer == <<sent, hinted, broken, ended>>
sink == <<listed, seen, kept, mailbox>>
calls == <<phase, cancelled, stop, pending, answer, reply, fate>>
consumer == <<at, term, replied, told, out, final, lost>>
bridge == <<plan, scoped, connected, calls, peer, dispatch, sink, consumer>>

(* A terminal that is not Complete, Failed or Cancelled, is "failed".      *)
Terminals == {"complete", "failed"}
Answers == {"setup", "result", "error", "gone", "named", "anonymous", "raw"}

(* The type part of the state of the bridge; a mailbox never holds more    *)
(* than its bound.                                                         *)
BridgeTypeOK ==
  /\ plan \in Plans
  /\ scoped \in BOOLEAN /\ connected \in BOOLEAN
  /\ phase \in [Calls -> {"idle", "bare", "open", "returned", "committed", "closed"}]
  /\ cancelled \in BOOLEAN /\ stop \in [Calls -> BOOLEAN]
  /\ pending \in BOOLEAN
  /\ answer \in [Calls -> Answers \cup {None}]
  /\ reply \in [Calls -> {"ok", "setup", "error", "gone", "named", "anonymous", "lost", None}]
  /\ fate \in [Calls -> {"named", "anonymous", None}]
  /\ sent \in 0..MaxChunks /\ hinted \in BOOLEAN /\ broken \in BOOLEAN
  /\ ended \in Terminals \cup {None}
  /\ dispatch \in {"free", "admit", "send"}
  /\ listed \in BOOLEAN /\ seen \in BOOLEAN
  /\ kept \in Terminals \cup {None}
  /\ mailbox \in Seq({"chunk", "hint"} \cup Terminals) /\ Len(mailbox) <= Capacity
  /\ at \in {"none", "poll", "take", "final", "wait", "hidden", "end", "dropped"}
  /\ term \in Terminals \cup {None}
  /\ replied \in BOOLEAN /\ told \in BOOLEAN
  /\ out \in Nat
  /\ final \in Terminals \cup {"error", "stop", None}
  /\ lost \in 0..Capacity

BridgeInit ==
  /\ scoped \in BOOLEAN /\ connected = TRUE
  /\ cancelled = FALSE /\ stop = [c \in Calls |-> FALSE]
  /\ pending = FALSE
  /\ answer = [c \in Calls |-> None] /\ reply = [c \in Calls |-> None]
  /\ fate = [c \in Calls |-> None]
  /\ sent = 0 /\ hinted = FALSE /\ broken = FALSE /\ ended = None
  /\ dispatch = "free" /\ listed = TRUE /\ seen = FALSE /\ kept = None /\ mailbox = <<>>
  /\ term = None /\ replied = FALSE /\ told = FALSE /\ out = 0 /\ final = None /\ lost = 0

Channel == plan = "channel"

(* What a stream carries is told apart where nobody closes its agent; with *)
(* one who does, its answer, its end and what is held until then matter.   *)
Detailed == plan \in {"channel", "agent"}

(* The lease, and with it the exclusive key of the agent, is held.         *)
Held(c) == phase[c] \in {"bare", "open", "committed"}

(* The connection's task is between two messages.                          *)
Free == dispatch = "free" /\ \A c \in Calls : phase[c] # "committed"

(* invoke_once_with_scope and invoke_owned_producer_stream, once prepare   *)
(* has granted the lease.  Only "close" is called again.                   *)
Submit(c) ==
  /\ phase' = [phase EXCEPT ![c] = "open"]
  /\ stop' = [stop EXCEPT ![c] = FALSE]
  /\ answer' = [answer EXCEPT ![c] = None] /\ reply' = [reply EXCEPT ![c] = None]
  /\ fate' = [fate EXCEPT ![c] = None]

(* retain_unknown: an observation needs an identity, its own or the Run of *)
(* the call's context, to become a refusal; after the closure it is void.  *)
Observed(c, what) ==
  IF phase[c] \in {"committed", "closed"} THEN fate[c]
  ELSE IF what = "named" \/ (c = "work" /\ scoped) THEN "named"
  ELSE "anonymous"

Observe(c, what) == fate' = [fate EXCEPT ![c] = Observed(c, what)]
-----------------------------------------------------------------------------
(* The sink.                                                               *)

Gone == at \in {"end", "dropped"}
FillsOneTooMany == Len(mailbox) <= Capacity

HasRoom == Len(mailbox) < Capacity

(* terminate, of a stream the Host itself ends.                            *)
Terminate(what) ==
  IF seen THEN UNCHANGED <<seen, kept, mailbox>>
  ELSE /\ seen' = TRUE
       /\ IF HasRoom /\ ~Gone THEN mailbox' = Append(mailbox, what) /\ UNCHANGED kept
          ELSE kept' = what /\ UNCHANGED mailbox

(* A failed stream of a channel is forgotten; that of an agent still waits *)
(* for the peer's terminal.                                                *)
Forget == listed' = (listed /\ ~Channel)

(* Both physical facts, finish_if_original_physical_facts.                 *)
Answered(a) == a \notin {"raw", None}
Facts(a, e) == Answered(a) /\ e # None
Closing(p) == IF p = "open" THEN "committed" ELSE "closed"

(* deliver_stream_event of a chunk, or of an observation: an item that     *)
(* finds the mailbox full ends the stream.                                 *)
Accept(what) ==
  IF seen THEN Forget /\ UNCHANGED <<seen, kept, mailbox>>
  ELSE IF Gone THEN Forget /\ UNCHANGED <<seen, kept, mailbox>>
  ELSE IF HasRoom
    THEN mailbox' = Append(mailbox, what) /\ UNCHANGED <<listed, seen, kept>>
    ELSE Forget /\ seen' = TRUE /\ kept' = "failed" /\ UNCHANGED mailbox

Receives ==
  /\ connected /\ Free /\ listed /\ ~broken /\ ended = None
  /\ phase["work"] \in {"open", "returned"}

PeerChunk ==
  /\ Receives
  /\ sent < (IF Channel THEN MaxChunks ELSE 1) /\ sent' = sent + 1
  /\ Accept("chunk")
  /\ UNCHANGED <<plan, scoped, connected, calls, hinted, broken, ended, dispatch, consumer>>

PeerHint ==
  /\ Receives /\ ~hinted
  /\ hinted' = TRUE
  /\ Observe("work", "named")
  /\ Accept("hint")
  /\ UNCHANGED <<plan, scoped, connected, phase, cancelled, stop, pending, answer, reply, sent,
                 broken, ended, dispatch, consumer>>

(* An event that is malformed, of another kind or too large is refused     *)
(* before its number is taken, so that no later one continues; so is one   *)
(* out of turn, whose number may have been taken already.                  *)
PeerBad ==
  /\ Receives
  /\ \/ Terminate("failed") /\ Forget /\ UNCHANGED fate /\ broken' \in BOOLEAN
     \/ Observe("work", "anonymous") /\ UNCHANGED sink /\ broken' = TRUE
  /\ UNCHANGED <<plan, scoped, connected, phase, cancelled, stop, pending, answer, reply, sent,
                 hinted, ended, dispatch, consumer>>

(* The peer's terminal is a physical fact, whatever the sink makes of it.  *)
PeerEnds ==
  /\ Receives
  /\ ended' \in (IF Detailed THEN Terminals ELSE {"complete"})
  /\ dispatch' = "admit"
  /\ phase' = IF Facts(answer["work"], ended')
              THEN [phase EXCEPT !["work"] = Closing(@)] ELSE phase
  /\ UNCHANGED <<plan, scoped, connected, cancelled, stop, pending, answer, reply, fate, sent,
                 hinted, broken, sink, consumer>>

AdmitTerminal ==
  /\ dispatch = "admit" /\ phase["work"] # "committed"
  /\ IF seen THEN dispatch' = "free" /\ UNCHANGED <<seen, kept>>
     ELSE dispatch' = "send" /\ seen' = TRUE /\ kept' = ended
  /\ UNCHANGED <<plan, scoped, connected, calls, peer, listed, mailbox, consumer>>

SendTerminal ==
  /\ dispatch = "send"
  /\ dispatch' = "free"
  /\ IF Gone THEN UNCHANGED <<kept, mailbox>>
     ELSE IF HasRoom THEN mailbox' = Append(mailbox, ended) /\ kept' = None
     ELSE kept' = "failed" /\ UNCHANGED mailbox
  /\ UNCHANGED <<plan, scoped, connected, calls, peer, listed, seen, consumer>>
-----------------------------------------------------------------------------
(* Watcher, answer and closure of a call.                                  *)

(* Run, consumer or connection cancels the call.                           *)
Cancel ==
  /\ phase["work"] = "open" /\ ~cancelled
  /\ cancelled' = TRUE
  /\ UNCHANGED <<plan, scoped, connected, phase, stop, pending, answer, reply, fate, peer,
                 dispatch, sink, consumer>>

(* The watcher finds the call cancelled, or its deadline passed.  Neither  *)
(* ends the call: it sends a notice and only colours the answer.           *)
Watch(c) ==
  /\ phase[c] = "open" /\ ~stop[c] /\ connected /\ Free
  /\ stop' = [stop EXCEPT ![c] = TRUE]
  /\ cancelled' = (cancelled \/ c = "work")
  /\ IF c # "work" THEN UNCHANGED <<pending, sink>>
     ELSE IF Channel THEN Terminate("failed") /\ UNCHANGED <<pending, listed>>
     ELSE pending' = TRUE /\ UNCHANGED sink
  /\ UNCHANGED <<plan, scoped, connected, phase, answer, reply, fate, peer, dispatch, consumer>>

(* An answer that can be the last word on its callback.                    *)
Definite(a) == a \in {"result", "error", "gone"}

Interrupted(c) == stop[c] \/ (c = "work" /\ cancelled)

Unknown(a) == a \in {"named", "anonymous"} \/ (a = "raw" /\ ~Channel)

(* What the waiter is told.                                                *)
Told(c, a) ==
  IF Unknown(a) THEN Observed(c, a)
  ELSE IF a = "setup" /\ (Channel => ~Interrupted(c)) THEN "setup"
  ELSE IF a = "result" /\ ~Interrupted(c) THEN "ok"
  ELSE IF a = "gone" /\ ~Interrupted(c) THEN "gone"
  ELSE "error"

(* A definite answer closes the callback unless its fate was unknown       *)
(* before; otherwise the stream's terminal has to be there too.            *)
ClosedBy(c, a) ==
  \/ Definite(a) /\ fate[c] = None /\ ~(c = "work" /\ Channel)
  \/ c = "work" /\ Facts(a, ended)

AfterAnswer(c, a) ==
  IF ClosedBy(c, a) THEN IF Channel /\ fate'[c] = None THEN "closed" ELSE "committed"
  ELSE IF Channel /\ fate'[c] = None THEN "returned"
  ELSE "open"

CanAnswer(c, a) ==
  CASE c = "work" -> a # "result"
    [] OTHER -> a \in {"result", "error", "named", "anonymous"}

Answer(c, a) ==
  /\ connected /\ Free /\ phase[c] = "open" /\ answer[c] = None /\ reply[c] = None
  /\ CanAnswer(c, a)
  /\ answer' = [answer EXCEPT ![c] = a]
  /\ reply' = [reply EXCEPT ![c] = Told(c, a)]
  /\ IF Unknown(a) THEN Observe(c, a) ELSE UNCHANGED fate
  /\ phase' = [phase EXCEPT ![c] = AfterAnswer(c, a)]
  /\ pending' = (pending \/ (c = "work" /\ ~Channel /\ a = "setup" /\ Interrupted(c)))
  /\ IF Channel /\ Told(c, a) = "setup" THEN Terminate("failed") /\ UNCHANGED listed
     ELSE UNCHANGED sink
  /\ UNCHANGED <<plan, scoped, connected, cancelled, stop, peer, dispatch, consumer>>

(* The second half of finish_original_physical_closure_with_reply; the     *)
(* answer is sent to the waiter only now.                                  *)
Release(c) ==
  /\ phase[c] = "committed"
  /\ phase' = [phase EXCEPT ![c] = "closed"]
  /\ UNCHANGED <<plan, scoped, connected, cancelled, stop, pending, answer, reply, fate, peer,
                 dispatch, sink, consumer>>

HasReply(c) == reply[c] # None /\ phase[c] # "committed"

(* The transport ends: no answer comes any more.  The response handler is  *)
(* told, or dropped; the tracker of an agent's stream finds the loss by    *)
(* itself.                                                                 *)
Disconnect ==
  /\ connected /\ Free
  /\ connected' = FALSE
  /\ UNCHANGED <<plan, scoped, calls, peer, dispatch, sink, consumer>>

Lose(c) ==
  /\ ~connected /\ phase[c] = "open"
  /\ reply[c] = None \/ (c = "work" /\ ~Channel /\ fate[c] = None)
  /\ reply' = [reply EXCEPT ![c] = IF @ # None THEN @ ELSE IF Channel THEN "gone" ELSE "lost"]
  /\ IF Channel THEN UNCHANGED fate ELSE Observe(c, "anonymous")
  /\ phase' = IF Channel /\ fate[c] = None THEN [phase EXCEPT ![c] = "returned"] ELSE phase
  /\ UNCHANGED <<plan, scoped, connected, cancelled, stop, pending, answer, peer, dispatch, sink,
                 consumer>>
-----------------------------------------------------------------------------
(* The consumer of the stream, owned_callback_event_stream.                *)

Consuming ==
  UNCHANGED <<plan, scoped, connected, phase, cancelled, stop, pending, answer, reply, peer,
              dispatch, listed, seen>>

(* "take" is the consumer that has found its mailbox empty and not looked  *)
(* further; one that finds nothing goes on to wait like one at "poll".     *)
Polling == at \in {"poll", "take"}

TakeRefusal ==
  /\ Polling /\ ~told /\ fate["work"] = "named"
  /\ phase["work"] \notin {"committed", "closed"}
  /\ told' = TRUE /\ at' = "poll"
  /\ Consuming /\ UNCHANGED <<fate, kept, mailbox, term, replied, out, final, lost>>

BelievesTerminal == term # None /\ replied

(* The terminal, and the answer, and the right to believe them.            *)
MayEnd ==
  /\ term # None /\ replied
  /\ \/ Channel
     \/ Facts(answer["work"], ended)
     \/ phase["work"] \in {"committed", "closed"}

Finish ==
  /\ Polling /\ MayEnd
  /\ at' = "final"
  /\ Consuming /\ UNCHANGED <<fate, kept, mailbox, term, replied, told, out, final, lost>>

(* What the stream itself holds goes with it.                              *)
Leave == mailbox' = <<>> /\ term' = None /\ replied' = FALSE /\ told' = FALSE

(* wait_original_release, then the failure that was pending or the         *)
(* terminal itself.                                                        *)
YieldFinal ==
  /\ at = "final" /\ phase["work"] # "committed"
  /\ at' = "end"
  /\ final' = IF pending THEN "stop" ELSE term
  /\ Leave
  /\ Consuming /\ UNCHANGED <<fate, kept, out, lost>>

(* receiver.is_empty() and sink.take_terminal() are two looks: events may  *)
(* come in between.                                                        *)
FindEmpty ==
  /\ at = "poll" /\ term = None /\ mailbox = <<>>
  /\ at' = "take"
  /\ Consuming /\ UNCHANGED <<fate, kept, mailbox, term, replied, told, out, final, lost>>

Chunks(box) == Cardinality({i \in DOMAIN box : box[i] = "chunk"})

TakeTerminal ==
  /\ at = "take" /\ kept # None
  /\ at' = "poll"
  /\ term' = kept /\ kept' = None
  /\ lost' = Chunks(mailbox)
  /\ Consuming /\ UNCHANGED <<fate, mailbox, replied, told, out, final>>

TakeEvent ==
  /\ Polling /\ term = None /\ mailbox # <<>>
  /\ at' = "poll" /\ mailbox' = Tail(mailbox)
  /\ LET what == Head(mailbox) IN
       /\ out' = IF what = "chunk" THEN out + 1 ELSE out
       /\ term' = IF what \in Terminals THEN what ELSE None
       /\ IF what = "hint"
          THEN /\ Observe("work", "named")
               /\ told' = (told \/ phase["work"] \notin {"committed", "closed"})
          ELSE UNCHANGED <<fate, told>>
  /\ Consuming /\ UNCHANGED <<kept, replied, final, lost>>

(* The answer: an error without an observation ends the stream at once,    *)
(* "gone" (ExtensionDisconnected) and a lost answer become observations.   *)
TakeReply ==
  /\ Polling /\ ~replied /\ HasReply("work")
  /\ LET r == reply["work"] IN
       /\ IF r \in {"gone", "lost", "anonymous"} THEN Observe("work", "anonymous")
          ELSE UNCHANGED fate
       /\ IF r = "error" THEN at' = "end" /\ final' = "error" /\ Leave
          ELSE /\ at' = "poll" /\ replied' = TRUE
               /\ told' = (told \/ (r # "setup" /\ fate'["work"] = "named"
                                    /\ phase["work"] # "closed"))
               /\ UNCHANGED <<mailbox, term, final>>
  /\ Consuming /\ UNCHANGED <<kept, out, lost>>

(* The framework drops the stream; its notice cancels the call.            *)
DropStream ==
  /\ at \in {"poll", "take", "final"}
  /\ at' = "dropped" /\ Leave
  /\ cancelled' = TRUE
  /\ UNCHANGED <<plan, scoped, connected, phase, stop, pending, answer, reply, fate, peer,
                 dispatch, listed, seen, kept, out, final, lost>>
-----------------------------------------------------------------------------
(* A call without an owner, invoke_once_with_scope: its future answers for *)
(* deadline and cancellation itself, and gives the lease back with them.   *)

Bare == at = "wait" /\ phase["work"] = "bare"

KeepsLease == phase' = phase

GivesBack == phase' = [phase EXCEPT !["work"] = "closed"]

BareRest ==
  UNCHANGED <<plan, scoped, connected, cancelled, pending, reply, peer, dispatch, sink, term,
              replied, told, out, lost>>

(* An observation keeps the lease; some calls have no way to return it and *)
(* wait on.                                                                *)
BareAnswered(a) ==
  /\ Bare /\ connected /\ a \in {"result", "error", "named", "anonymous"}
  /\ answer' = [answer EXCEPT !["work"] = a]
  /\ IF Unknown(a)
     THEN /\ Observe("work", a) /\ KeepsLease
          /\ \/ at' = "hidden" /\ UNCHANGED final
             \/ fate'["work"] = "named" /\ at' = "end" /\ final' = "error"
     ELSE /\ GivesBack /\ UNCHANGED fate
          /\ at' = "end" /\ final' = IF a = "result" THEN "complete" ELSE "error"
  /\ UNCHANGED stop /\ BareRest

(* Deadline, cancellation or the end of the transport.                     *)
BareInterrupted ==
  /\ Bare
  /\ stop' = [stop EXCEPT !["work"] = connected]
  /\ GivesBack
  /\ at' = "end" /\ final' = "error"
  /\ UNCHANGED <<answer, fate>> /\ BareRest

BareDropped ==
  /\ at \in {"wait", "hidden"}
  /\ at' = "dropped"
  /\ IF at = "wait" THEN GivesBack ELSE KeepsLease
  /\ UNCHANGED <<stop, answer, fate, final>> /\ BareRest
=============================================================================
