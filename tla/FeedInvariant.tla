---------------------------- MODULE FeedInvariant ----------------------------
(***************************************************************************)
(* What holds of every reachable state of the three feeds, in the named    *)
(* parts of an inductive invariant.                                        *)
(*                                                                         *)
(* What the Host has said is on its way to the application in four places: *)
(* the wire, the lane of the feed (held), the application's queue and its  *)
(* hand.  An item is known there by its mark: the sequence of an event,    *)
(* the watermark of a gap.  The parts say that the marks rise all along    *)
(* that way, and that between an event and what the application has seen,  *)
(* or something that is still before it, the Host has passed over nothing  *)
(* but what the wire contract refuses.                                     *)
(* The next section is about pauses: who owes the ACK that ends one.       *)
(* The last is about what the feed takes: what it has observed, what is    *)
(* still before it, and why there is room.  It describes a Run whose       *)
(* events can all be put on the wire (Carried), so that what comes is the  *)
(* next sequence and not just the next event.                              *)
(***************************************************************************)
EXTENDS JavaFeed

-----------------------------------------------------------------------------
(* The inductive invariant of the Host.  NoSilentHole alone is not          *)
(* inductive: that the end of a resume leaves no hole needs what the resume *)
(* has read (ResumeReadsEnough) and the window bound; that an ACK or a gap  *)
(* never names an uncommitted sequence needs the same of the pages in       *)
(* flight.                                                                  *)

Inv ==
  /\ TypeOK /\ AnnouncedIsCommitted /\ WindowOrdered /\ WindowBounded
  /\ ResumeReadsEnough /\ PagesAreCommitted /\ NoSilentHole
-----------------------------------------------------------------------------
(* What is on its way to the application.                                   *)

Mark(item) == IF item.kind = "gap" THEN item.watermark ELSE item.seq

Events  == [kind : {"event"}, seq : 1 .. Terminal]
Notices == [kind : {"gap"}, from : Nat, to : Nat, watermark : 1 .. Terminal]
Notes   == Events \union Notices
ReplayErrors == {"payload_too_large", "serialization_violation"}
HostPages == [after : 0 .. Terminal, gap : BOOLEAN, base : 0 .. Terminal, end : 0 .. Terminal]
Answers == [kind : {"page"}, page : HostPages]
           \union [kind : {"replay_error"}, after : Nat, code : ReplayErrors]
           \union {Settled}
Frames  == Notes \union Answers
Messages == [kind : {"ack"}, seq : 1 .. Terminal]
            \union [kind : {"replay"}, after : 0 .. Terminal, limit : {MaxReplayEvents}]
Entries == [item : Notes, seq : 1 .. Terminal, waits_for : SUBSET (Tasks \X (0 .. Terminal))]
Submissions == [task : Tasks, seq : 0 .. Terminal, covered : BOOLEAN,
                observed : BOOLEAN, written : BOOLEAN]

\* The notifications of a sequence of frames: their marks, those that are
\* events, and that they come in order.
Places(s) == {i \in DOMAIN s : Notification(s[i])}
Marks(s)  == {Mark(s[i]) : i \in Places(s)}
EventMarks(s) == {s[i].seq : i \in {j \in DOMAIN s : s[j].kind = "event"}}
Rising(s) == \A i, j \in Places(s) : i < j => Mark(s[i]) < Mark(s[j])
OneGap(s) == \A i, j \in DOMAIN s : s[i].kind = "gap" /\ s[j].kind = "gap" => i = j

HeldMarks  == {held[i].seq : i \in DOMAIN held}
HeldEvents == {held[i].seq : i \in {j \in DOMAIN held : held[j].item.kind = "event"}}
HeldRising == \A i, j \in DOMAIN held : i < j => held[i].seq < held[j].seq
HandMarks  == IF hand = NoFrame THEN {} ELSE {Mark(hand)}
HandEvents == IF hand.kind = "event" THEN {hand.seq} ELSE {}

\* Behind the feed's lane, and in it or before it.
Fore == HandMarks \union Marks(queue)
ForeEvents == HandEvents \union EventMarks(queue)
Rear == HeldMarks \union Marks(to_client)
RearEvents == HeldEvents \union EventMarks(to_client)

Below(A, B) == \A a \in A, b \in B : a < b
-----------------------------------------------------------------------------
(* The inductive invariant of what the application consumes.                *)

Typed ==
  /\ FeedTypeOK /\ sdk \in Sdks /\ connected
  /\ to_client \in Seq(Frames) /\ to_host \in Seq(Messages)
  /\ queue \in Seq(Notes) /\ held \in Seq(Entries)
  /\ \A i \in DOMAIN held : held[i].seq = Mark(held[i].item)
  /\ hand \in Notes \union {NoFrame}
  /\ pages \subseteq HostPages

Phases ==
  /\ iterator \in {"next", "waiting", "done"} <=> hand = NoFrame
  /\ iterator = "gap" => hand.kind = "gap"
  /\ iterator \in {"ack", "acking"} => hand.kind = "event" /\ hand.seq <= seen
  /\ iterator = "waiting" => queue = <<>> /\ ~ Java
  /\ ~ Java => \A s, t \in submissions :
                 s.task = "iterator" => iterator = "acking" /\ (t.task = "iterator" => s = t)
  /\ Java => Len(held) <= 1
  /\ OneGap(queue)

\* What is acknowledged has been consumed.
Consumed ==
  /\ ack_cursor <= seen /\ retired <= ack_cursor
  /\ \A s \in submissions : s.seq \in 1 .. seen
  /\ \A i \in DOMAIN to_host : to_host[i].kind = "ack" => to_host[i].seq <= seen
  /\ acks \subseteq 1 .. seen

\* The highest sequence that was announced live.
Top == IF paused THEN paused_sequence ELSE last_sent_sequence

\* Everything comes in order.
RearOrdered ==
  /\ Rising(to_client) /\ HeldRising /\ Below(HeldMarks, Marks(to_client))
  /\ \A m \in Rear : m <= Top
ForeOrdered ==
  /\ Rising(queue) /\ Below(HandMarks, Marks(queue))
  /\ \A m \in Fore : m <= Top
Ordered ==
  /\ RearOrdered /\ ForeOrdered /\ Below(Fore, Rear)
  /\ paused => last_sent_sequence <= paused_sequence

\* What the feed has received lies below what comes, or was acknowledged.
Latest ==
  \/ last_sequence <= ack_cursor
  \/ /\ last_sequence <= Top /\ Below({last_sequence}, Marks(to_client))
     /\ Java => Below({last_sequence}, HeldMarks)

\* Nothing is missing between m and s but what the wire contract refuses.
Joined(m, s) == OnlyUnsendable(m + 1, s - 1)

\* An event joins what has been seen, or something that is still before it.
JoinedIn(M, s) == \E m \in M : m < s /\ Joined(m, s)
Linked(E, M, n) == \A s \in E : Joined(n, s) \/ JoinedIn(M, s)
Chained ==
  /\ Linked(ForeEvents, Fore, seen)
  /\ queue_state = "open" =>
       /\ Linked(RearEvents, Fore \union Rear, seen)
       /\ ~ paused => last_sent_sequence <= seen \/ last_sent_sequence \in Fore \union Rear

\* ConsumedWithoutHole is not inductive: the event in hand is the next one because
\* of what lay before it in the queue, in the lane and on the wire when it was sent,
\* and an ACK, a gap that takes the place of what it covers, or a page that is read
\* instead may take that away only when the application has what it stood for.
FInv == Inv /\ Typed /\ Phases /\ Consumed /\ Ordered /\ Latest /\ Chained
-----------------------------------------------------------------------------
(* The inductive invariant of who ends a pause.                             *)

\* The Host has, or is about to have, an acknowledgement that reaches seq.
Reached(seq) ==
  \/ seq <= last_sent_sequence
  \/ \E i \in DOMAIN to_host : to_host[i].kind = "ack" /\ to_host[i].seq >= seq
  \/ \E acked \in acks : acked >= seq

\* A request starts from what is consumed, and so does the page that answers it.
Asked ==
  /\ \A i \in DOMAIN to_host : to_host[i].kind = "replay" => to_host[i].after <= seen
  /\ \A page \in pages : page.base <= seen /\ page.base <= page.end

\* No written ACK is lost, and none the Host would reject: what the application
\* consumes may be acknowledged.
Owed ==
  registered =>
    /\ Reached(ack_cursor)
    /\ \A s \in submissions : s.written => Reached(s.seq)
    /\ seen <= ackable_sequence
    /\ \A i \in DOMAIN to_client :
         to_client[i].kind = "page" => to_client[i].page.end <= ackable_sequence

\* Unless a resume has failed, a pause asks for more than was sent.
AsksForMore == faults = 0 /\ Carried /\ paused => last_sent_sequence < paused_sequence

PauseInv == Owed /\ Asked /\ AsksForMore
-----------------------------------------------------------------------------
(* The inductive invariant of what the feed takes: nothing it still needs   *)
(* is out of place, and there is room for it.                               *)

\* The Python and the Java feed look for holes; the TypeScript one for order.
Strict == sdk # "typescript"

\* An acknowledged sequence, or one whose ACK is written.
Known(seq) == seq <= ack_cursor \/ \E s \in submissions : s.written /\ s.seq = seq

\* The Host's window is the run of sequences right after a known one, so an event
\* that comes is at most a window ahead of a known one.
WindowRuns ==
  /\ Len(unacked) <= last_sent_sequence
  /\ \A i \in DOMAIN unacked : unacked[i].seq = last_sent_sequence - Len(unacked) + i
  /\ Known(last_sent_sequence - Len(unacked))
Licensed(seq) == \E a \in 0 .. seq - 1 : Known(a) /\ seq <= a + MaxOutstanding
WritesKnown == \A i \in DOMAIN to_host : to_host[i].kind = "ack" => Known(to_host[i].seq)
Licences ==
  /\ WindowRuns
  /\ \A seq \in RearEvents : Licensed(seq)
  /\ \A acked \in acks : Known(acked)
  /\ WritesKnown

\* The gaps among what is on its way.
GapMarks(s) == {s[i].watermark : i \in {j \in DOMAIN s : s[j].kind = "gap"}}
HeldGaps == {held[i].seq : i \in {j \in DOMAIN held : held[j].item.kind = "gap"}}
HandGaps == IF hand.kind = "gap" THEN {hand.watermark} ELSE {}
ForeGaps == HandGaps \union GapMarks(queue)
RearGaps == HeldGaps \union GapMarks(to_client)

\* What the feed has taken, and what it has still to look at.
Taken  == Fore \union IF Java THEN {} ELSE HeldMarks
TakenEvents == ForeEvents \union IF Java THEN {} ELSE HeldEvents
TakenGaps == ForeGaps \union IF Java THEN {} ELSE HeldGaps
Coming == Marks(to_client) \union IF Java THEN HeldMarks ELSE {}
Noted ==
  /\ TakenEvents \subseteq live
  /\ \A m \in Taken : m <= last_sequence
  /\ Strict => ack_cursor <= last_sequence /\ \A m \in live : m <= last_sequence

\* What the application has seen was live, or is in a page; or it has been told.
Paged(b) == \E range \in ranges : range.base <= b /\ b < range.end
Bridged ==
  \A b \in 0 .. seen - 1 : Paged(b) \/ (b < last_sequence /\ b < Top /\ Below({b}, Coming))
Served == \A i \in DOMAIN to_client : to_client[i].kind = "page" => to_client[i].page.base <= seen
SeenKnown ==
  \/ seen <= ack_cursor \/ seen \in live
  \/ \E range \in ranges : range.base < seen /\ seen <= range.end
  \/ iterator = "gap" /\ hand.watermark = seen

\* The feed has observed what an ACK claims.
Debts ==
  /\ \A s \in submissions : s.observed /\ (Strict => s.seq <= last_sequence \/ s.covered)
  /\ \A s, t \in submissions : s.task = "recovery" => recovery = "acking" /\ (t.task = "recovery" => s = t)
  /\ \A s \in submissions : s.task = "iterator" =>
       /\ s.seq <= Top /\ Below({s.seq}, Marks(queue) \union Rear)
       /\ \A m \in HandMarks : s.seq <= m /\ (Java => s.seq < m)

\* The gap nobody has acknowledged is the one the Host waits for, and the last.
Unacked(w) == ack_cursor < w /\ \A s \in submissions : s.seq < w
Gaps ==
  /\ \A w \in ForeGaps \union RearGaps : Unacked(w) => paused /\ paused_sequence = w
  /\ \A w \in TakenGaps : Unacked(w) => gap_mark = w
  /\ \A i \in DOMAIN to_client : to_client[i].kind = "gap" => to_client[i].from = to_client[i].watermark

\* What comes is next to what was taken, to what comes, or to a known sequence.
Adjacent(seq) == seq = last_sequence \/ seq \in Coming \/ Known(seq)
Adjoins ==
  Strict /\ queue_state = "open" =>
    /\ \A m \in Coming : Adjacent(m - 1)
    /\ ~ paused => Adjacent(last_sent_sequence)

\* An event that is held waits for the ACK that makes room for it.
Room ==
  /\ \A seq \in EventMarks(queue) : seq > ack_cursor
  /\ ~ Java => retired = ack_cursor
Waiting ==
  ~ Java =>
    /\ held # <<>> => recovery \in {"idle", "acking"}
    /\ \A s \in submissions : s.task = "recovery" =>
         /\ Below({s.seq}, HeldMarks)
         /\ \A i \in DOMAIN held :
              held[i].item.kind = "event" /\ held[i].seq <= s.seq + QueueSize /\ Retires(s.seq)
              => Named(s) \in held[i].waits_for
FencedBy(entry, a) ==
  \/ a <= ack_cursor
  \/ \E s \in submissions :
       s.seq = a /\ (a + 1 = entry.seq /\ Retires(a) => Named(s) \in entry.waits_for)
Fencing ==
  Java /\ held # <<>> =>
    /\ held[1].item.kind = "event"
    /\ \E a \in 0 .. held[1].seq - 1 : held[1].seq <= a + MaxOutstanding /\ FencedBy(held[1], a)

RoomInv ==
  /\ Licences /\ Noted /\ Bridged /\ Served /\ SeenKnown /\ Debts /\ Gaps /\ Adjoins
  /\ Room /\ Waiting /\ Fencing
=============================================================================
