------------------------------ MODULE RunFeed ------------------------------
(***************************************************************************)
(* One Run's events from the Host's journal to the application: the Host's *)
(* delivery (EventDelivery), the two ordered directions of the transport,  *)
(* and an SDK's feed with an application that follows the documented       *)
(* recovery.  The Python feed (_EventFeed, _AsyncQueue, notify, replay in  *)
(* sdks/python/.../client.py) and the TypeScript one (StreamFeed,          *)
(* AsyncQueue, acknowledge, observeReplay in sdks/typescript/src/client.ts)*)
(* have one queue and one ACK protocol; they differ in what they accept,   *)
(* and in that the TypeScript iterator ACKs whatever it handed out.        *)
(*                                                                         *)
(* The application has two tasks.  Its iterator takes items from the queue *)
(* and ACKs an event after it is consumed.  Its recovery replays from the  *)
(* first sequence the application misses and ACKs what it consumed: after  *)
(* a gap, after run/wait returned, or (MaxCatchUps) whenever it likes.  An *)
(* ACK is a submission of its own: the Host may answer it before the       *)
(* submission is committed on the client.                                  *)
(***************************************************************************)
EXTENDS EventDelivery

CONSTANTS
    Sdks,               \* the SDKs an application may be written with
    QueueSize,          \* capacity of the subscription queue
    MaxCatchUps         \* bound: recoveries nobody was forced to start

ASSUME FeedAssumption ==
    /\ Sdks \subseteq {"python", "typescript", "java"}
    /\ QueueSize \in Nat \ {0} /\ MaxCatchUps \in Nat

VARIABLES
    sdk,                    \* the application's SDK
    to_client, to_host,     \* the transport, in order
    last_sequence,          \* feed: highest sequence received
    gap_mark,               \* feed: last_gap_watermark
    live,                   \* feed: sequences of live_ranges
    ranges,                 \* base/end of the replayed pages
    terminal_replayed,      \* feed: replay_terminal_sequence is set
    held,                   \* accepted events waiting for the queue, in order
    queue,
    queue_state,            \* "open", "closed" or "failed"
    retired,                \* queue: _retired_event_floor
    ack_cursor,             \* _event_cursors: highest committed ACK
    submissions,            \* the ACKs that are on their way to be written
    iterator,               \* phase of the iterator task
    hand,                   \* the item the iterator has in hand
    recovery,               \* phase of the recovery task
    settled_known,          \* run/wait has returned
    catch_ups,              \* unforced recoveries so far
    seen                    \* application: 1 .. seen is consumed

Java  == sdk = "java"
Tasks == {"iterator", "recovery"}

wires  == <<to_client, to_host>>
feed   == <<sdk, last_sequence, gap_mark, live, ranges, terminal_replayed>>
mail   == <<held, queue, queue_state, retired>>
acking == <<ack_cursor, submissions>>
app    == <<iterator, hand, recovery, settled_known, catch_ups, seen>>
client == <<feed, mail, acking, app>>
all    == <<vars, wires, client>>

AckRequest(seq) == [kind |-> "ack", seq |-> seq]
ReplayRequest(after, limit) == [kind |-> "replay", after |-> after, limit |-> limit]
Settled == [kind |-> "settled"]

\* The Run commits a fixed journal whose last event is its terminal.
Terminal == MaxCommitted

FeedInit ==
    /\ Init
    /\ sdk \in Sdks
    /\ to_client = <<>> /\ to_host = <<>>
    /\ last_sequence = 0 /\ gap_mark = 0 /\ live = {} /\ ranges = {}
    /\ terminal_replayed = FALSE
    /\ held = <<>> /\ queue = <<>> /\ queue_state = "open" /\ retired = 0
    /\ ack_cursor = 0 /\ submissions = {}
    /\ iterator = "next" /\ hand = NoFrame
    /\ recovery = "idle" /\ settled_known = FALSE /\ catch_ups = 0
    /\ seen = 0
-----------------------------------------------------------------------------
(* The Host's side: what a step enqueues goes onto the transport.           *)

Enqueue == to_client' = IF out' = NoFrame THEN to_client ELSE Append(to_client, out')

HostMoves ==
    /\ HostStep
    /\ Enqueue /\ UNCHANGED <<to_host, client>>

\* An accepted event is committed, then forwarded to the observers, before
\* the next one (docs/sdk/acp-agent-adapter.md:76-79; the ledger is external).
RunMoves ==
    /\ observed = Len(journal)
    /\ \E bytes \in EventSizes : Commit(bytes)
    /\ UNCHANGED <<wires, client>>

\* A settled Run answers the application's run/wait.
RunSettles ==
    /\ Len(journal) = Terminal
    /\ Settle
    /\ to_client' = Append(to_client, Settled)
    /\ UNCHANGED <<to_host, client>>

ResumeFault ==
    /\ ResumeReadFails
    /\ UNCHANGED <<wires, client>>

HostReceives ==
    /\ to_host # <<>>
    /\ LET request == Head(to_host)
       IN  \/ request.kind = "ack" /\ ReceiveAck(request.seq)
           \/ /\ request.kind = "replay"
              /\ \/ \E page \in PagesAfter(request.after) :
                        ReplayRead(request.after, request.limit, page)
                 \/ ReplayTooLarge(request.after, request.limit)
                 \/ ReplayConversionFails(request.after, request.limit)
    /\ to_host' = Tail(to_host)
    /\ Enqueue /\ UNCHANGED client
-----------------------------------------------------------------------------
(* The feed receives a frame.                                               *)

\* An ACK that a replayed page proves may be answered before it is committed:
\* it admits its successor, and nothing else.
PendingPredecessor(seq) ==
    \E sent \in submissions : sent.covered /\ sent.seq + 1 = seq

IgnoresPendingAcks(seq) == last_sequence = 0 \/ seq = last_sequence + 1
Contiguous(seq) ==
    \/ last_sequence = 0
    \/ seq = last_sequence + 1
    \/ seq > last_sequence /\ PendingPredecessor(seq)

\* The TypeScript feed asks only for an increase: a hole is the Host's to gap.
Increases(seq) == seq > last_sequence

Follows(seq) == IF sdk = "typescript" THEN Increases(seq) ELSE Contiguous(seq)

Received == to_client' = Tail(to_client) /\ UNCHANGED to_host

\* Events of the queue that an ACK of seq would retire.
Retires(seq) == \E i \in DOMAIN queue : queue[i].kind = "event" /\ queue[i].seq <= seq

\* Submissions whose commit may make room for the event (candidates).
Named(sent) == <<sent.task, sent.seq>>
Candidates(seq) ==
    {Named(sent) : sent \in {s \in submissions :
        s.observed /\ s.seq < seq /\ seq <= s.seq + QueueSize /\ Retires(s.seq)}}

\* _wait_for_admission: a full queue waits for the candidates still pending.
HasRoom == Cardinality({i \in DOMAIN queue : queue[i].kind = "event"}) < QueueSize
HasCapacity == iterator = "waiting" \/ HasRoom

MustWait(entry) ==
    /\ entry.item.kind = "event" /\ queue_state = "open" /\ ~ HasCapacity
    /\ \E sent \in submissions : Named(sent) \in entry.waits_for /\ Retires(sent.seq)

\* The items of the queue at the given places, in their order (SelectSeq, by
\* position).
Selected(places) ==
    LET Nth(n) == CHOOSE i \in places : Cardinality({j \in places : j <= i}) = n
    IN  [n \in 1 .. Cardinality(places) |-> queue[Nth(n)]]

\* push: a gap takes the place of the gap the iterator has not taken yet, and
\* of the events it covers.
GapQueued == \E i \in DOMAIN queue : queue[i].kind = "gap"

WithMergedGap(gap) ==
    LET at    == CHOOSE i \in DOMAIN queue : queue[i].kind = "gap"
        later == {i \in at + 1 .. Len(queue) : queue[i].seq > gap.watermark}
    IN  SubSeq(queue, 1, at - 1)
        \o <<[gap EXCEPT !.from = queue[at].from]>>
        \o Selected(later)

\* _deliver_stream_item once it need not wait: what an ACK covers meanwhile is
\* dropped, and an event that finds the queue full fails it.
Admit(entry) ==
    LET item == entry.item
    IN  IF queue_state # "open" \/ entry.seq <= retired
        THEN UNCHANGED <<queue, queue_state, iterator, hand>>
        ELSE IF item.kind = "event" /\ ~ HasCapacity
        THEN queue_state' = "failed" /\ UNCHANGED <<queue, iterator, hand>>
        ELSE IF item.kind = "gap" /\ GapQueued
        THEN queue' = WithMergedGap(item) /\ UNCHANGED <<queue_state, iterator, hand>>
        ELSE /\ IF iterator = "waiting"
                THEN hand' = item /\ iterator' = "handed" /\ UNCHANGED queue
                ELSE queue' = Append(queue, item) /\ UNCHANGED <<iterator, hand>>
             /\ queue_state' = IF item.kind = "event" /\ item.seq = Terminal
                               THEN "closed" ELSE queue_state

\* Items enter the queue in the order they were received (delivery_tail).
Deliveries(item, seq) ==
    LET entry == [item |-> item, seq |-> seq,
                  waits_for |-> IF item.kind = "event" THEN Candidates(seq) ELSE {}]
    IN  /\ IF held = <<>> /\ ~ MustWait(entry)
           THEN Admit(entry) /\ UNCHANGED held
           ELSE /\ held' = Append(held, entry)
                /\ UNCHANGED <<queue, queue_state, iterator, hand>>
        /\ UNCHANGED <<retired, acking, recovery, settled_known, catch_ups, seen>>

Refuse ==
    /\ queue_state' = IF queue_state = "open" THEN "failed" ELSE queue_state
    /\ UNCHANGED <<feed, held, queue, retired, acking, app>>

Ignore == UNCHANGED client

AcceptEvent(seq) ==
    \/ seq = last_sequence /\ Ignore
    \/ seq # last_sequence /\ ~ Follows(seq) /\ Refuse
    \/ /\ seq # last_sequence /\ Follows(seq)
       /\ last_sequence' = seq
       /\ live' = live \union {seq}
       /\ UNCHANGED <<sdk, gap_mark, ranges, terminal_replayed>>
       /\ Deliveries(EventFrame(seq), seq)

MalformedGap(gap) ==
    \/ gap.watermark < last_sequence
    \/ gap.watermark > last_sequence /\ ~ Contiguous(gap.from)

\* The TypeScript feed takes any gap, and moves to its watermark even backwards.
TakeGap(gap) ==
    /\ last_sequence' = gap.watermark
    /\ gap_mark' = gap.watermark
    /\ UNCHANGED <<sdk, live, ranges, terminal_replayed>>
    /\ Deliveries(gap, gap.watermark)

AcceptGap(gap) ==
    \/ MalformedGap(gap) /\ Refuse
    \/ ~ MalformedGap(gap) /\ gap.watermark = last_sequence /\ Ignore
    \/ ~ MalformedGap(gap) /\ gap.watermark # last_sequence /\ TakeGap(gap)

\* RunHandle.replay returns: the page's coverage is remembered, and the
\* application consumes what it misses.
AcceptPage(page) ==
    /\ recovery = "requested"
    /\ recovery' = "consumed"
    /\ ranges' = IF page.base < page.end
                 THEN ranges \union {[base |-> page.base, end |-> page.end]}
                 ELSE ranges
    /\ terminal_replayed' = (terminal_replayed \/ Terminal \in page.base + 1 .. page.end)
    /\ seen' = Larger(seen, NextCursor(page))
    /\ UNCHANGED <<sdk, last_sequence, gap_mark, live, mail, acking, iterator, hand,
                   settled_known, catch_ups>>

\* Not one event fits a page, or the page would hold an event that the wire
\* contract refuses: the application takes the gap's snapshot instead.
AcceptReplayError ==
    /\ recovery = "requested"
    /\ recovery' = "consumed"
    /\ seen' = IF iterator = "gap" THEN Larger(seen, hand.watermark) ELSE seen
    /\ UNCHANGED <<feed, mail, acking, iterator, hand, settled_known, catch_ups>>

AcceptSettled ==
    /\ settled_known' = TRUE
    /\ UNCHANGED <<feed, mail, acking, iterator, hand, recovery, catch_ups, seen>>

\* What answers a request, and passes by whatever the feed holds back.
AcceptAnswer(frame) ==
    \/ frame.kind = "page" /\ AcceptPage(frame.page)
    \/ frame.kind = "replay_error" /\ AcceptReplayError
    \/ frame.kind = "settled" /\ AcceptSettled

ClientReceives ==
    /\ to_client # <<>>
    /\ LET frame == Head(to_client)
       IN  \/ frame.kind = "event" /\ AcceptEvent(frame.seq)
           \/ /\ frame.kind = "gap"
              /\ IF sdk = "typescript" THEN TakeGap(frame) ELSE AcceptGap(frame)
           \/ AcceptAnswer(frame)
    /\ Received
    /\ UNCHANGED vars
-----------------------------------------------------------------------------
(* The queue.                                                               *)

Push ==
    /\ held # <<>> /\ ~ MustWait(Head(held))
    /\ held' = Tail(held)
    /\ Admit(Head(held))
    /\ UNCHANGED <<vars, wires, feed, retired, acking, recovery, settled_known,
                   catch_ups, seen>>

\* An iterator waiting on a queue that closed or failed is woken.
Ended == queue_state # "open" /\ queue = <<>>

Get ==
    /\ iterator = "next" \/ (iterator = "waiting" /\ Ended)
    /\ IF queue # <<>>
       THEN hand' = Head(queue) /\ queue' = Tail(queue) /\ iterator' = "handed"
       ELSE /\ iterator' = IF Ended THEN "done" ELSE "waiting"
            /\ UNCHANGED <<hand, queue>>
    /\ UNCHANGED <<vars, wires, feed, held, queue_state, retired, acking, recovery,
                   settled_known, catch_ups, seen>>
-----------------------------------------------------------------------------
(* The application's iterator.                                              *)

IteratorOnly == UNCHANGED <<vars, wires, feed, mail, acking, recovery,
                            settled_known, catch_ups>>

\* What a committed ACK already covers (_iterate_events).
Covered(item) ==
    IF item.kind = "gap" THEN item.watermark <= ack_cursor ELSE item.seq <= ack_cursor

Skip ==
    /\ iterator = "handed" /\ Covered(hand)
    /\ iterator' = "next" /\ hand' = NoFrame
    /\ UNCHANGED seen /\ IteratorOnly

ConsumeEvent ==
    /\ iterator = "handed" /\ hand.kind = "event" /\ ~ Covered(hand)
    /\ seen' = Larger(seen, hand.seq)
    /\ iterator' = "ack"
    /\ UNCHANGED hand /\ IteratorOnly

\* The iterator waits for the recovery before it asks for the next item.
FaceGap ==
    /\ iterator = "handed" /\ hand.kind = "gap" /\ ~ Covered(hand)
    /\ iterator' = "gap"
    /\ UNCHANGED <<hand, seen>> /\ IteratorOnly

LeaveGap ==
    /\ iterator = "gap" /\ hand.watermark <= ack_cursor
    /\ iterator' = "next" /\ hand' = NoFrame
    /\ UNCHANGED seen /\ IteratorOnly
-----------------------------------------------------------------------------
(* ACK submissions (notify).                                                *)

\* _replay_covers_cursor: pages reach seq from what the feed has received.
ReplayCovers(seq) ==
    \E range \in ranges :
       /\ range.base < seq /\ seq <= range.end
       /\ \A between \in last_sequence .. range.base - 1 :
             \E bridge \in ranges : bridge.base <= between /\ between < bridge.end

Submit(by, acked) ==
    submissions' = submissions \union
        {[task     |-> by,
          seq      |-> acked,
          covered  |-> ReplayCovers(acked) /\ acked > last_sequence,
          observed |-> \/ ReplayCovers(acked) \/ acked = gap_mark
                       \/ acked <= ack_cursor \/ acked \in live,
          written  |-> FALSE]}

\* An iterator ACKs the event it consumed; Python's does not when an ACK already
\* covers it.
IteratorAcks ==
    /\ iterator = "ack"
    /\ IF sdk = "typescript" \/ hand.seq > ack_cursor
       THEN Submit("iterator", hand.seq) /\ iterator' = "acking" /\ UNCHANGED hand
       ELSE UNCHANGED submissions /\ iterator' = "next" /\ hand' = NoFrame
    /\ UNCHANGED <<vars, wires, feed, mail, ack_cursor, recovery, settled_known,
                   catch_ups, seen>>

\* A task writes its ACKs in the order of their submission.
Write(sent) ==
    /\ ~ sent.written
    /\ \A earlier \in submissions :
          earlier.task = sent.task /\ earlier.seq < sent.seq => earlier.written
    /\ to_host' = Append(to_host, AckRequest(sent.seq))
    /\ submissions' = (submissions \ {sent}) \union {[sent EXCEPT !.written = TRUE]}
    /\ UNCHANGED <<vars, to_client, feed, mail, ack_cursor, app>>

\* discard_acknowledged_events: what leaves the queue with an ACK.
AfterDiscard(cursor) ==
    Selected({i \in DOMAIN queue : queue[i].kind = "gap" \/ queue[i].seq > cursor})

\* An ACK of a replayed terminal ends the feed.
EndsAfterTerminal(cursor) == terminal_replayed /\ cursor > Terminal
EndsFeed(cursor) == terminal_replayed /\ cursor >= Terminal

\* A written submission settles; an observed one commits its cursor.
CommitAck(sent) ==
    LET cursor == Larger(ack_cursor, sent.seq)
    IN  /\ sent.written
        /\ submissions' = submissions \ {sent}
        /\ IF sent.observed
           THEN /\ ack_cursor' = cursor
                /\ last_sequence' = Larger(last_sequence, cursor)
                /\ retired' = Larger(retired, cursor)
                /\ queue' = AfterDiscard(cursor)
                /\ queue_state' = IF queue_state = "open" /\ EndsFeed(cursor)
                                  THEN "closed" ELSE queue_state
           ELSE UNCHANGED <<ack_cursor, last_sequence, retired, queue, queue_state>>
        /\ IF sent.task = "iterator"
           THEN iterator' = "next" /\ hand' = NoFrame /\ UNCHANGED recovery
           ELSE recovery' = "idle" /\ UNCHANGED <<iterator, hand>>
        /\ UNCHANGED <<vars, wires, sdk, gap_mark, live, ranges, terminal_replayed, held,
                       settled_known, catch_ups, seen>>
-----------------------------------------------------------------------------
(* The application's recovery.                                              *)

Recover ==
    /\ recovery = "idle" /\ iterator # "done"
    /\ \/ /\ iterator = "gap" /\ hand.watermark > ack_cursor
          /\ UNCHANGED catch_ups
       \/ /\ settled_known /\ ack_cursor < Terminal
          /\ UNCHANGED catch_ups
       \/ /\ catch_ups < MaxCatchUps
          /\ catch_ups' = catch_ups + 1
    /\ recovery' = "requested"
    /\ to_host' = Append(to_host, ReplayRequest(seen, MaxReplayEvents))
    /\ UNCHANGED <<vars, to_client, feed, mail, acking, iterator, hand,
                   settled_known, seen>>

\* A held event whose wait is over enters the queue within a few turns of the
\* event loop: before the answer to any request made after that can arrive.
WakeupPending == held # <<>> /\ ~ MustWait(Head(held))

StartRecovery == ~ WakeupPending /\ Recover

RecoveryAcks ==
    /\ recovery = "consumed"
    /\ IF seen > ack_cursor
       THEN Submit("recovery", seen) /\ recovery' = "acking"
       ELSE UNCHANGED submissions /\ recovery' = "idle"
    /\ UNCHANGED <<vars, wires, feed, mail, ack_cursor, iterator, hand,
                   settled_known, catch_ups, seen>>
-----------------------------------------------------------------------------
HostSide ==
    HostMoves \/ RunMoves \/ RunSettles \/ ResumeFault \/ HostReceives

\* Every task of the Host is scheduled; nothing obliges a fault.
HostFairness ==
    /\ WF_all(HostMoves) /\ WF_all(RunMoves) /\ WF_all(RunSettles)
    /\ WF_all(HostReceives)
-----------------------------------------------------------------------------
\* The types of the client's state; the Host's are EventDelivery's TypeOK.
FeedTypeOK ==
    /\ TypeOK
    /\ last_sequence \in 0 .. Terminal /\ gap_mark \in 0 .. Terminal
    /\ live \subseteq 1 .. Terminal
    /\ ranges \subseteq [base : 0 .. Terminal, end : 0 .. Terminal]
    /\ queue_state \in {"open", "closed", "failed"}
    /\ retired \in 0 .. Terminal /\ ack_cursor \in 0 .. Terminal
    /\ iterator \in {"next", "waiting", "handed", "ack", "acking", "gap", "done"}
    /\ recovery \in {"idle", "requested", "consumed", "acking"}
    /\ seen \in 0 .. Terminal
    /\ submissions \subseteq [task : Tasks, seq : 0 .. Terminal, covered : BOOLEAN,
                             observed : BOOLEAN, written : BOOLEAN]

\* The feed is never found broken by a hole, by an overflow of the queue or by
\* a gap it can not place: whatever it refuses lies at or below a sequence the
\* application itself has acknowledged.  The Java feed refuses nothing of that
\* kind, but overflows on an event that a pending ACK made room for at the Host
\* when the ACK is not that of the event's predecessor (JavaFeed).  And where
\* the Host has passed over an event that the wire contract refuses, the hole
\* is a true one: what comes after it may be refused.
Refused == IF Java /\ held # <<>> THEN Head(held).item ELSE Head(to_client)
OutrunsPartialAck(seq) ==
    \E sent \in submissions : sent.observed /\ sent.seq + 1 < seq /\ Retires(sent.seq)
AfterTrueHole(seq) == \E hole \in Unsendable : ack_cursor < hole /\ hole < seq
FailsOnlyBelowFloor ==
    [][ queue_state # "failed" /\ queue_state' = "failed" =>
          /\ to_client' # to_client \/ (Java /\ held' # held)
          /\ \/ Refused.kind = "event" /\ AfterTrueHole(Refused.seq)
             \/ Refused.kind = "gap" /\ AfterTrueHole(Refused.from)
             \/ Java /\ Refused.kind = "event" /\ OutrunsPartialAck(Refused.seq)
             \/ ~ Java /\ Refused.kind = "event" /\ Refused.seq <= ack_cursor
             \/ ~ Java /\ Refused.kind = "gap" /\ Refused.watermark <= ack_cursor ]_all

\* The iterator hands out events without a hole: an event repeats what the
\* application has consumed or is the next one that the wire contract does not
\* refuse, and a gap comes before anything beyond it.
ConsumedWithoutHole ==
    [][ iterator = "handed" /\ iterator' = "ack" => OnlyUnsendable(seen + 1, hand.seq - 1) ]_all

\* A stream is paused only while its client still owes the ACK that ends it,
\* or that ACK is on its way: no lost wakeup between gap, ACK and resume.
AckOnItsWay(seq) ==
    \/ \E sent \in submissions : sent.seq >= seq /\ ~ sent.written
    \/ \E i \in DOMAIN to_host : to_host[i].kind = "ack" /\ to_host[i].seq >= seq
    \/ \E acked \in acks : acked >= seq
PauseIsOwed ==
    paused /\ registered => ack_cursor < paused_sequence \/ AckOnItsWay(paused_sequence)

\* What a consumer may rely on at any time: no hole but the Host's own, no false
\* failure, and, unless a resume has failed on the disk or on such an event, a
\* pause that it can end itself.
FeedIsSound ==
    [](faults = 0 /\ Carried => PauseIsOwed) /\ FailsOnlyBelowFloor /\ ConsumedWithoutHole

\* The whole Run reaches the application and the iterator ends, if every event
\* of the Run can be put on the wire: one that can not is never replayed either.
RunIsConsumed ==
    <>(~ Carried \/ (seen = Terminal /\ iterator = "done" /\ queue_state = "closed"))
=============================================================================
