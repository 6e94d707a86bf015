----------------------------- MODULE EventFeed -----------------------------
(***************************************************************************)
(* What the live delivery of one Run promises its client, with no window,  *)
(* lock, journal read or byte in sight (the contract stated at the top of  *)
(* core_profile/events.rs and in docs/sdk/protocol.md, and the one way in  *)
(* which the code falls short of it):                                      *)
(*   - events are sent one after the other, in order; none is passed over  *)
(*     but those that the wire contract refuses;                           *)
(*   - what is not sent is announced by one gap that starts right after    *)
(*     the last sequence the client has, or after such events, and then    *)
(*     nothing more is sent;                                               *)
(*   - only an acknowledgement that covers the gap reopens the feed, and   *)
(*     the feed goes on right after the acknowledged cursor.               *)
(***************************************************************************)
EXTENDS Integers

VARIABLES
    committed,  \* number of events the Run has committed
    refused,    \* those among them that the wire contract refuses
    cursor,     \* last sequence sent or acknowledged
    open,       \* FALSE from a gap to the acknowledgement that covers it
    watermark,  \* sequence the acknowledgement has to reach
    frame       \* the frame of the last step

feedVars == <<committed, refused, cursor, open, watermark, frame>>

Event(seq) == [kind |-> "event", seq |-> seq]
Gap(from, to) == [kind |-> "gap", from |-> from, to |-> to, watermark |-> to]

FeedInit ==
    /\ committed = 0 /\ refused = {} /\ cursor = 0
    /\ open = TRUE /\ watermark = 0
    /\ frame.kind \notin {"event", "gap"}

\* No live frame: anything else the Host answers is not the feed's business.
Silent == frame'.kind \notin {"event", "gap"}

Grow ==
    /\ committed' = committed + 1
    /\ refused' \in {refused, refused \union {committed + 1}}
    /\ Silent
    /\ UNCHANGED <<cursor, open, watermark>>

\* Nothing but refused events lies between the cursor and seq.
ComesNext(seq) == cursor + 1 .. seq - 1 \subseteq refused

Send(seq) ==
    /\ open
    /\ seq \notin refused /\ ComesNext(seq)
    /\ cursor' = seq
    /\ frame' = Event(seq)
    /\ UNCHANGED <<committed, refused, open, watermark>>

Announce(from, to) ==
    /\ open
    /\ from <= to /\ ComesNext(from)
    /\ open' = FALSE
    /\ watermark' = to
    /\ frame' = Gap(from, to)
    /\ UNCHANGED <<committed, refused, cursor>>

\* Delivery that cannot go on closes without a gap and waits for an ACK again.
Suspend ==
    /\ open' = FALSE
    /\ watermark' = cursor
    /\ Silent
    /\ UNCHANGED <<committed, refused, cursor>>

\* An acknowledgement moves the cursor on, never back and never past the
\* journal; it reopens the feed only at or beyond the watermark.
Acknowledge(reached) ==
    /\ reached \in cursor .. committed
    /\ cursor' = reached
    /\ \/ UNCHANGED <<open, watermark>>
       \/ ~ open /\ reached >= watermark /\ open' = TRUE /\ watermark' = 0
    /\ Silent
    /\ UNCHANGED <<committed, refused>>

FeedNext ==
    \/ Grow
    \/ \E seq \in cursor + 1 .. committed : Send(seq)
    \/ \E from, to \in cursor + 1 .. committed : Announce(from, to)
    \/ Suspend
    \/ \E reached \in cursor .. committed : Acknowledge(reached)

FeedSpec == FeedInit /\ [][FeedNext]_feedVars
=============================================================================
