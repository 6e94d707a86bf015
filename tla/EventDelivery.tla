--------------------------- MODULE EventDelivery ---------------------------
(***************************************************************************)
(* Live delivery of one Run's event stream (core_profile/events.rs): the   *)
(* journal commits events, the observer publishes them while the client's  *)
(* ACK window is open, announces one gap and pauses when it is full, and   *)
(* an accepted ACK that covers the gap resumes from the journal.  An event *)
(* that the wire contract refuses is neither sent nor announced: its       *)
(* publication fails before anything else is looked at.                    *)
(*                                                                         *)
(* The send_serial lock of StreamDelivery serializes whole publications:   *)
(* it is free exactly when resuming = "idle", and the resume of an ACK     *)
(* holds it across its journal read and every record it publishes.  ACK    *)
(* and replay handlers run in tasks of their own (acks, pages), so they    *)
(* take the lock in any order.                                             *)
(*                                                                         *)
(* A definition whose name says what goes wrong (SendsPastOpenGap, ...) is *)
(* the faulty variant of the definition that follows it: the properties    *)
(* are checked to fail when it replaces the correct one.                   *)
(***************************************************************************)
EXTENDS ReplayPages, FiniteSets

CONSTANTS
    MaxOutstanding,     \* ACK window: live events sent and not acknowledged
    MaxBufferBytes,     \* ACK window in bytes
    MaxEventBytes,      \* largest event that is sent live
    MaxReplayEvents,    \* events of one replay response
    EventSizes,         \* bytes an event notification may take, or NoWireForm
    MaxCommitted,       \* bound: events the Run commits
    MaxUnsent,          \* bound: events among them that no live frame carries
    MaxInFlight,        \* bound: ACK tasks and replay tasks at a time
    MaxFaults           \* bound: failed resumes

ASSUME DeliveryAssumption ==
    /\ MaxOutstanding \in Nat \ {0}
    /\ MaxBufferBytes \in Nat
    /\ MaxEventBytes \in Nat
    /\ MaxReplayEvents \in Nat \ {0}
    /\ EventSizes \subseteq Nat
    /\ MaxCommitted \in Nat
    /\ MaxUnsent \in Nat
    /\ MaxInFlight \in Nat
    /\ MaxFaults \in Nat

VARIABLES
    journal,                \* sizes of the committed events, in order
    observed,               \* events the observer has been called with
    unacked,                \* FIFO of [seq, bytes]: sent, not acknowledged
    outstanding_bytes,
    paused,
    paused_sequence,        \* watermark of the outstanding gap
    last_sent_sequence,
    ackable_sequence,       \* highest announced sequence
    resuming,               \* phase of the ACK that holds send_serial
    resume_next,            \* next journal record the resume publishes
    resume_end,             \* last journal record the resume has read
    registered,             \* the stream is in the Host's delivery map
    acks,                   \* ACK tasks waiting for send_serial
    pages,                  \* replay tasks waiting for send_serial
    connected,              \* the transport still accepts frames
    faults,                 \* failed journal reads so far
    out                     \* the frame this step enqueued to the client

window  == <<unacked, outstanding_bytes, last_sent_sequence>>
pausing == <<paused, paused_sequence>>
resume  == <<resuming, resume_next, resume_end>>
tasks   == <<acks, pages>>
env     == <<registered, connected, faults>>
vars    == <<journal, observed, window, pausing, ackable_sequence, resume,
             tasks, env, out>>

NoFrame == [kind |-> "none"]
EventFrame(seq) == [kind |-> "event", seq |-> seq]
GapFrame(from, to, watermark) ==
    [kind |-> "gap", from |-> from, to |-> to, watermark |-> watermark]
PageFrame(page) == [kind |-> "page", page |-> page]
ReplayErrorFrame(after, code) ==
    [kind |-> "replay_error", after |-> after, code |-> code]

\* Host code never prunes a Run's journal: everything stays above the floor.
RetainedFloor == 1

Pages == [after : Nat, gap : BOOLEAN, base : Nat, end : Nat]

Larger(a, b) == IF a >= b THEN a ELSE b

\* The committed events that the wire contract refuses.
Unsendable == {seq \in DOMAIN journal : ~ HasWireForm(journal[seq])}

\* Every event committed so far can be put on the wire.
Carried == Unsendable = {}

\* Only such events are among from .. to.
OnlyUnsendable(from, to) == from .. to \subseteq Unsendable

Init ==
    /\ journal = <<>> /\ observed = 0
    /\ unacked = <<>> /\ outstanding_bytes = 0 /\ last_sent_sequence = 0
    /\ paused = FALSE /\ paused_sequence = 0
    /\ ackable_sequence = 0
    /\ resuming = "idle" /\ resume_next = 0 /\ resume_end = 0
    /\ registered = TRUE /\ connected = TRUE /\ faults = 0
    /\ acks = {} /\ pages = {}
    /\ out = NoFrame

-----------------------------------------------------------------------------
(* StreamDelivery::publish and DeliveryInner::publish.  The event is        *)
(* converted first; a frame is enqueued, and accounted only when the        *)
(* enqueue succeeded.                                                       *)

SendsPastOpenGap(seq) == seq <= last_sent_sequence
AlreadyCovered(seq) == seq <= last_sent_sequence \/ paused

Oversized(bytes) == bytes > MaxEventBytes

WindowOneTooLarge(bytes) ==
    \/ Len(unacked) > MaxOutstanding
    \/ outstanding_bytes + bytes > MaxBufferBytes
WindowFull(bytes) ==
    \/ Len(unacked) + 1 > MaxOutstanding
    \/ outstanding_bytes + bytes > MaxBufferBytes

Pause(watermark) ==
    /\ paused' = TRUE
    /\ paused_sequence' = watermark
    /\ ackable_sequence' = Larger(ackable_sequence, watermark)
    /\ UNCHANGED window

Deliver(seq, bytes) ==
    /\ ~ Oversized(bytes) /\ ~ WindowFull(bytes)
    /\ unacked' = Append(unacked, [seq |-> seq, bytes |-> bytes])
    /\ outstanding_bytes' = outstanding_bytes + bytes
    /\ last_sent_sequence' = seq
    /\ ackable_sequence' = Larger(ackable_sequence, seq)
    /\ UNCHANGED pausing
    /\ out' = EventFrame(seq)

SkipOversized(seq, bytes) ==
    /\ Oversized(bytes)
    /\ Pause(seq)
    /\ out' = GapFrame(seq, seq, seq)

GapAndPause(seq, bytes) ==
    LET from == last_sent_sequence + 1
        to   == Larger(seq, from)
    IN  /\ ~ Oversized(bytes) /\ WindowFull(bytes)
        /\ Pause(to)
        /\ out' = GapFrame(from, to, to)

\* The conversion fails, whatever the state of the stream, or the enqueue does.
PublishFails(seq, bytes) ==
    ~ HasWireForm(bytes) \/ (~ AlreadyCovered(seq) /\ ~ connected)

\* Nothing to send (AlreadySent, AlreadyPaused), or a failure.
PublishNothing(seq, bytes) ==
    /\ AlreadyCovered(seq) \/ PublishFails(seq, bytes)
    /\ UNCHANGED <<window, pausing, ackable_sequence>>
    /\ out' = NoFrame

PublishFrame(seq, bytes) ==
    /\ ~ AlreadyCovered(seq) /\ ~ PublishFails(seq, bytes)
    /\ Deliver(seq, bytes) \/ SkipOversized(seq, bytes) \/ GapAndPause(seq, bytes)

Publish(seq, bytes) == PublishNothing(seq, bytes) \/ PublishFrame(seq, bytes)
-----------------------------------------------------------------------------
(* The Run.                                                                 *)

LiveFrame(bytes) == HasWireForm(bytes) /\ ~ Oversized(bytes)
Unsent == {seq \in DOMAIN journal : ~ LiveFrame(journal[seq])}

\* The ledger commits an event to the journal before anyone observes it.
Commit(bytes) ==
    /\ registered
    /\ Len(journal) < MaxCommitted
    /\ LiveFrame(bytes) \/ Cardinality(Unsent) < MaxUnsent
    /\ journal' = Append(journal, bytes)
    /\ out' = NoFrame
    /\ UNCHANGED <<observed, window, pausing, ackable_sequence, resume, tasks, env>>

\* on_committed_event: committed events reach the observer once, in order.
Observe ==
    /\ resuming = "idle"
    /\ observed < Len(journal)
    /\ observed' = observed + 1
    /\ Publish(observed + 1, journal[observed + 1])
    /\ UNCHANGED <<journal, resume, tasks, env>>

\* The Run settled durably: cleanup_settled_run drops the map entry.
Settle ==
    /\ registered
    /\ observed = Len(journal)
    /\ registered' = FALSE
    /\ out' = NoFrame
    /\ UNCHANGED <<journal, observed, window, pausing, ackable_sequence, resume,
                   tasks, connected, faults>>
-----------------------------------------------------------------------------
(* _echo_agent/event/ack.                                                   *)

\* event_ack finds the delivery; an unregistered stream's ACK is ignored.
ReceiveAck(acked) ==
    /\ Cardinality(acks) < MaxInFlight
    /\ acks' = IF registered THEN acks \union {acked} ELSE acks
    /\ out' = NoFrame
    /\ UNCHANGED <<journal, observed, window, pausing, ackable_sequence, resume,
                   pages, env>>

\* The count of retired entries: the prefix of the FIFO the ACK covers.
RetiredBy(acked, count) ==
    /\ count \in 0 .. Len(unacked)
    /\ \A i \in 1 .. count : unacked[i].seq <= acked
    /\ count < Len(unacked) => unacked[count + 1].seq > acked

BytesOf(entries) ==
    FoldFunctionOnSet(+, 0, [i \in DOMAIN entries |-> entries[i].bytes], DOMAIN entries)

\* The bytes the retired entries give back.
ReleasesFirstEntryOnly(count) == IF count = 0 THEN 0 ELSE unacked[1].bytes
ReleasedBytes(count) == BytesOf(SubSeq(unacked, 1, count))

SaturatingSub(a, b) == IF b \in 0 .. a THEN a - b ELSE 0

AheadOfAnnounced(acked) == acked > ackable_sequence

RejectAck(acked) ==
    /\ resuming = "idle"
    /\ AheadOfAnnounced(acked)
    /\ acks' = acks \ {acked}
    /\ out' = NoFrame
    /\ UNCHANGED <<journal, observed, window, pausing, ackable_sequence, resume,
                   pages, env>>

\* The cursor after an accepted ACK.
CursorAfter(acked) == Larger(last_sent_sequence, acked)

\* The ACK ends the outstanding gap.
CoversGap(acked) == paused /\ acked >= paused_sequence

\* DeliveryInner::acknowledge, and the decision to resume.
AcceptAck(acked, count) ==
    LET rest    == SubSeq(unacked, count + 1, Len(unacked))
        resumes == CoversGap(acked) /\ Len(rest) < MaxOutstanding
    IN  /\ resuming = "idle"
        /\ ~ AheadOfAnnounced(acked)
        /\ RetiredBy(acked, count)
        /\ acks' = acks \ {acked}
        /\ unacked' = rest
        /\ outstanding_bytes' =
               SaturatingSub(outstanding_bytes, ReleasedBytes(count))
        /\ last_sent_sequence' = CursorAfter(acked)
        /\ IF resumes
           THEN /\ paused' = FALSE /\ paused_sequence' = 0
                /\ resuming' = "journal"
           ELSE UNCHANGED <<pausing, resuming>>
        /\ out' = NoFrame
        /\ UNCHANGED <<journal, observed, ackable_sequence, resume_next,
                       resume_end, pages, env>>

\* resume_after reads the window's records and one lookahead record.
ReadsNoLookahead(after) ==
    IF after + MaxOutstanding <= Len(journal) THEN after + MaxOutstanding
    ELSE Len(journal)
ResumeEnd(after) ==
    IF after + MaxOutstanding + 1 <= Len(journal) THEN after + MaxOutstanding + 1
    ELSE Len(journal)

ResumeRead ==
    /\ resuming = "journal"
    /\ resuming' = "records"
    /\ resume_next' = last_sent_sequence + 1
    /\ resume_end' = ResumeEnd(last_sent_sequence)
    /\ out' = NoFrame
    /\ UNCHANGED <<journal, observed, window, pausing, ackable_sequence, tasks, env>>

\* A failed resume pauses again; the accepted ACK stays accepted.
AbandonResume ==
    /\ resuming' = "idle" /\ resume_next' = 0 /\ resume_end' = 0
    /\ paused' = TRUE /\ paused_sequence' = last_sent_sequence
    /\ out' = NoFrame
    /\ UNCHANGED <<journal, observed, window, ackable_sequence, tasks,
                   registered, connected>>

ResumeReadFails ==
    /\ resuming = "journal"
    /\ faults < MaxFaults
    /\ faults' = faults + 1
    /\ AbandonResume

\* An event without a wire form makes every retry fail at the same record.
ResumePublishFails ==
    /\ resuming = "records" /\ resume_next <= resume_end
    /\ PublishFails(resume_next, journal[resume_next])
    /\ AbandonResume
    /\ UNCHANGED faults

\* One iteration of the loop; a gap ends it.
ResumePublish ==
    /\ resuming = "records" /\ resume_next <= resume_end
    /\ ~ PublishFails(resume_next, journal[resume_next])
    /\ Publish(resume_next, journal[resume_next])
    /\ IF paused'
       THEN resuming' = "idle" /\ resume_next' = 0 /\ resume_end' = 0
       ELSE resume_next' = resume_next + 1 /\ UNCHANGED <<resuming, resume_end>>
    /\ UNCHANGED <<journal, observed, tasks, env>>

ResumeDone ==
    /\ resuming = "records" /\ resume_next > resume_end
    /\ resuming' = "idle" /\ resume_next' = 0 /\ resume_end' = 0
    /\ out' = NoFrame
    /\ UNCHANGED <<journal, observed, window, pausing, ackable_sequence, tasks,
                   env>>
-----------------------------------------------------------------------------
(* _echo_agent/run/replay.                                                  *)

\* The page is read from the journal before send_serial is taken.  Without a
\* registered delivery it is answered at once and grants nothing.
ReplayRead(after, limit, page) ==
    /\ Cardinality(pages) < MaxInFlight
    /\ IsPage(journal, RetainedFloor, after, limit, page)
    /\ IF registered
       THEN pages' = pages \union {page} /\ out' = NoFrame
       ELSE /\ out' = IF connected THEN PageFrame(page) ELSE NoFrame
            /\ UNCHANGED pages
    /\ UNCHANGED <<journal, observed, window, pausing, ackable_sequence, resume,
                   acks, env>>

ReplayTooLarge(after, limit) ==
    /\ FirstTooLarge(journal, RetainedFloor, after, limit)
    /\ out' = IF connected THEN ReplayErrorFrame(after, "payload_too_large")
              ELSE NoFrame
    /\ UNCHANGED <<journal, observed, window, pausing, ackable_sequence, resume,
                   tasks, env>>

ReplayConversionFails(after, limit) ==
    /\ Unconvertible(journal, RetainedFloor, after, limit)
    /\ out' = IF connected THEN ReplayErrorFrame(after, "serialization_violation")
              ELSE NoFrame
    /\ UNCHANGED <<journal, observed, window, pausing, ackable_sequence, resume,
                   tasks, env>>

ReplayReadFails(after) ==
    /\ out' = IF connected THEN ReplayErrorFrame(after, "replay_unavailable")
              ELSE NoFrame
    /\ UNCHANGED <<journal, observed, window, pausing, ackable_sequence, resume,
                   tasks, env>>

\* publish_replay: coverage becomes ACK-able once the response is enqueued.
ReplayPublish(page) ==
    /\ resuming = "idle"
    /\ pages' = pages \ {page}
    /\ IF connected
       THEN /\ ackable_sequence' = Larger(ackable_sequence, Coverage(page))
            /\ out' = PageFrame(page)
       ELSE /\ out' = NoFrame
            /\ UNCHANGED ackable_sequence
    /\ UNCHANGED <<journal, observed, window, pausing, resume, acks, env>>

Disconnect ==
    /\ connected
    /\ connected' = FALSE
    /\ out' = NoFrame
    /\ UNCHANGED <<journal, observed, window, pausing, ackable_sequence, resume,
                   tasks, registered, faults>>
-----------------------------------------------------------------------------
\* Steps the Host takes on its own.
HostStep ==
    \/ Observe
    \/ \E acked \in acks : RejectAck(acked)
    \/ \E acked \in acks, count \in 0 .. Len(unacked) : AcceptAck(acked, count)
    \/ ResumeRead \/ ResumePublish \/ ResumePublishFails \/ ResumeDone
    \/ \E page \in pages : ReplayPublish(page)

\* Steps of the Run, the disk, the transport.
Environment ==
    \/ \E bytes \in EventSizes : Commit(bytes)
    \/ Settle
    \/ ResumeReadFails
    \/ Disconnect

\* The pages a request may be answered with.
PagesAfter(after) ==
    [after : {after}, gap : BOOLEAN, base : {after}, end : after .. Larger(after, Len(journal))]

\* Requests of a client that may ask for anything.
Requests ==
    \/ \E acked \in 1 .. MaxCommitted + 1 : ReceiveAck(acked)
    \/ \E after \in 0 .. MaxCommitted, limit \in 1 .. MaxReplayEvents :
          \/ \E page \in PagesAfter(after) : ReplayRead(after, limit, page)
          \/ ReplayTooLarge(after, limit)
          \/ ReplayConversionFails(after, limit)
          \/ ReplayReadFails(after)

Next == HostStep \/ Environment \/ Requests

Spec == Init /\ [][Next]_vars
-----------------------------------------------------------------------------
\* The state stays within its types.
TypeOK ==
    /\ journal \in Seq(EventSizes)
    /\ Len(journal) <= MaxCommitted
    /\ observed \in 0 .. Len(journal)
    /\ unacked \in Seq([seq : Nat, bytes : Nat])
    /\ outstanding_bytes \in Nat
    /\ paused \in BOOLEAN /\ paused_sequence \in Nat
    /\ last_sent_sequence \in Nat /\ ackable_sequence \in Nat
    /\ resuming \in {"idle", "journal", "records"}
    /\ resume_next \in Nat /\ resume_end \in 0 .. Len(journal)
    /\ resuming = "records" => resume_next > 0
    /\ registered \in BOOLEAN /\ connected \in BOOLEAN /\ faults \in 0 .. MaxFaults
    /\ acks \subseteq Nat /\ pages \subseteq Pages

\* Nothing is ACK-able, hence nothing can be retired or skipped by an ACK,
\* that the journal does not hold; cursors never overtake what was announced,
\* so the highest announced ACK always covers an outstanding gap.
AnnouncedIsCommitted ==
    /\ last_sent_sequence <= ackable_sequence
    /\ paused_sequence <= ackable_sequence
    /\ ackable_sequence <= Len(journal)

\* The window lists what was sent in sequence order, so that retiring a prefix
\* retires exactly what an ACK covers.
WindowOrdered ==
    /\ \A i \in 1 .. Len(unacked) : unacked[i].seq \in 1 .. last_sent_sequence
    /\ \A i, j \in 1 .. Len(unacked) : i < j => unacked[i].seq < unacked[j].seq

\* Host memory for live delivery is bounded by the negotiated window.
WindowBounded ==
    /\ Len(unacked) <= MaxOutstanding
    /\ outstanding_bytes <= MaxBufferBytes

\* The byte counter is the bytes of the window after any order of sends, ACKs
\* and resumes: no byte is leaked, none is released twice.
WindowAccounted == outstanding_bytes = BytesOf(unacked)

\* A resume continues right after the cursor, and the records it read, one
\* lookahead included, either reach every observed event or overfill the
\* window: it can not end unpaused with a tail nobody will send.
ResumeReadsEnough ==
    /\ resuming # "idle" => ~ paused
    /\ resuming = "records" =>
          /\ resume_next = last_sent_sequence + 1
          /\ \/ observed <= resume_end
             \/ resume_end - last_sent_sequence + Len(unacked) > MaxOutstanding

\* Every page that waits to be published covers committed events only.
PagesAreCommitted == \A page \in pages : Coverage(page) <= Len(journal)

\* While delivery is live and the lock is free, every event the observer was
\* called with has been sent or acknowledged, but for those that the wire
\* contract refuses: an unpaused stream has no other hole, whatever the races
\* of ACK, replay, resume and commit.
NoSilentHole ==
    connected /\ resuming = "idle" /\ ~ paused =>
        OnlyUnsendable(last_sent_sequence + 1, observed)

\* The delivery implements the feed its client gets: what is passed over in
\* silence is what the wire contract refuses, and nothing else.
Feed == INSTANCE EventFeed WITH
    committed <- Len(journal),
    refused   <- Unsendable,
    cursor    <- last_sent_sequence,
    open      <- ~ paused,
    watermark <- paused_sequence,
    frame     <- out

ImplementsFeed == Feed!FeedSpec
=============================================================================
