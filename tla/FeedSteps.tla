------------------------------ MODULE FeedSteps ------------------------------
(***************************************************************************)
(* What the steps of RunFeed and JavaFeed do to what FeedInvariant speaks  *)
(* of: the vocabulary of EventDeliveryProofs.  Each operator sums up the   *)
(* steps of several handlers, as those who depend on them see them, and    *)
(* the invariant is split into the parts that a step may disturb.          *)
(***************************************************************************)
EXTENDS FeedInvariant

-----------------------------------------------------------------------------
(* The Host announces.                                                      *)

\* The frame is of the next event that has a wire form.
Announces(x) ==
  /\ x \in Notes /\ ~ paused /\ last_sent_sequence < Mark(x) /\ Joined(last_sent_sequence, Mark(x))
  /\ x.kind = "event" => /\ ~ paused' /\ last_sent_sequence' = Mark(x)
                         /\ UNCHANGED pausing
  /\ x.kind = "gap" => /\ paused' /\ paused_sequence' = Mark(x)
                       /\ x.from \in {last_sent_sequence + 1, Mark(x)}
                       /\ UNCHANGED window

\* Nothing is announced; an ACK may have moved the cursor.
Quiet ==
  /\ Top' >= Top
  /\ paused' => last_sent_sequence' <= paused_sequence'
  /\ ~ paused' => (~ paused /\ last_sent_sequence' = last_sent_sequence) \/ last_sent_sequence' <= seen
-----------------------------------------------------------------------------
(* The steps of the Host, as its client sees them.                          *)

\* An event is announced.
SaysNote(x) ==
  /\ Announces(x) /\ to_client' = Append(to_client, x)
  /\ ackable_sequence' = Larger(ackable_sequence, Mark(x))
  /\ x.kind = "event" => /\ Len(unacked) + 1 <= MaxOutstanding
                         /\ \E b \in Nat : unacked' = Append(unacked, [seq |-> Mark(x), bytes |-> b])
  /\ UNCHANGED <<to_host, acks, pages, registered>>

\* An ACK is taken from the tasks of the Host.
Accepts(a) ==
  /\ a \in acks /\ acks' = acks \ {a}
  /\ \E count \in 0 .. Len(unacked) : AcceptAck(a, count)
  /\ UNCHANGED <<wires, pages, registered, ackable_sequence>>

Rejects(a) ==
  /\ a \in acks /\ acks' = acks \ {a} /\ a > ackable_sequence
  /\ UNCHANGED <<wires, pages, registered, ackable_sequence, window, pausing>>

\* The read of a resume fails, or meets an event that the wire contract refuses:
\* the stream pauses again.
ResumeFails ==
  /\ \/ faults < MaxFaults /\ faults' = faults + 1
     \/ ~ Carried /\ UNCHANGED faults
  /\ ~ paused /\ paused' /\ paused_sequence' = last_sent_sequence
  /\ UNCHANGED <<wires, tasks, registered, ackable_sequence, window>>

\* A page is published, the Run settles, or nothing that concerns the client.
Says(x) ==
  /\ to_client' = Append(to_client, x) \/ to_client' = to_client
  /\ UNCHANGED <<to_host, acks, window, pausing>> /\ pages' \subseteq pages
  /\ \/ x = Settled /\ ~ registered' /\ UNCHANGED ackable_sequence
     \/ /\ x.kind = "page" /\ x.page \in pages /\ UNCHANGED registered
        /\ ackable_sequence' = Larger(ackable_sequence, Coverage(x.page))

Waits == UNCHANGED <<wires, tasks, registered, ackable_sequence, window, pausing>>

\* A request arrives.
TakesAck(x) ==
  /\ x.kind = "ack" /\ acks' = IF registered THEN acks \union {x.seq} ELSE acks
  /\ UNCHANGED <<pages, to_client>>

TakesReplay(x) ==
  /\ x.kind = "replay" /\ UNCHANGED acks
  /\ \/ /\ \E page \in HostPages :
             /\ page.base = x.after /\ page.base <= page.end
             /\ \/ pages' = pages \union {page} /\ UNCHANGED to_client
                \/ /\ ~ registered /\ UNCHANGED pages
                   /\ to_client' = Append(to_client, [kind |-> "page", page |-> page])
     \/ /\ UNCHANGED pages
        /\ \E code \in ReplayErrors : to_client' = Append(to_client, ReplayErrorFrame(x.after, code))

Takes1 ==
  /\ to_host # <<>> /\ to_host' = Tail(to_host)
  /\ TakesAck(Head(to_host)) \/ TakesReplay(Head(to_host))
  /\ UNCHANGED <<registered, ackable_sequence, window, pausing>>

HostDoes ==
  \/ \E x \in Notes : SaysNote(x)
  \/ \E a \in acks : Accepts(a) \/ Rejects(a)
  \/ ResumeFails
  \/ \E x \in Answers : Says(x)
  \/ Waits
  \/ Takes1
-----------------------------------------------------------------------------
(* What is on its way is taken, moves on, or is dropped.                    *)

\* t has frames of s, in their order.
Picks(t, s, f) ==
  /\ f \in [DOMAIN t -> DOMAIN s]
  /\ \A i, j \in DOMAIN t : i < j => f[i] < f[j]
  /\ \A i \in DOMAIN t : /\ t[i].kind = s[f[i]].kind
                         /\ t[i].kind = "event" => t[i].seq = s[f[i]].seq
                         /\ t[i].kind = "gap" => t[i].watermark = s[f[i]].watermark

\* What leaves the pipeline, but for the head of the lane, has been consumed.
Thins ==
  /\ RearOrdered' /\ ForeOrdered'
  /\ Fore' \subseteq Fore /\ ForeEvents' \subseteq ForeEvents
  /\ Rear' \subseteq Rear /\ RearEvents' \subseteq RearEvents
  /\ seen' >= seen /\ seen' \in Nat
  /\ queue_state' = "open" => queue_state = "open"
  /\ \A d \in Fore \ Fore' : d <= seen'
  /\ queue_state' = "open" => \A d \in Rear \ Rear' : d <= seen'

\* The head of the lane leaves it.
Departs(m, e) ==
  /\ m \in 1 .. Terminal /\ m <= Top
  /\ RearOrdered' /\ Rear = Rear' \union {m} /\ RearEvents' \subseteq RearEvents \intersect Rear'
  /\ Below(Fore, {m}) /\ Below({m}, Rear')
  /\ e => m \in RearEvents

\* It is handed on, it takes the place of what it covers, or it is dropped.
Arrives(m, e) ==
  /\ ForeOrdered'
  /\ Fore' \subseteq Fore \union {m}
  /\ ForeEvents' \subseteq ForeEvents \union (IF e THEN {m} ELSE {})
  /\ \A d \in Fore \ Fore', s \in ForeEvents' : s <= d
  /\ queue_state = "open" \/ ForeEvents' \subseteq ForeEvents
  /\ queue_state' = "open" => queue_state = "open" /\ (m \in Fore' \/ m <= seen)

\* An item enters the queue, a gap in the place of the gap that is there; or an empty
\* queue hands it to the iterator that waits.
Enters(x) ==
  \/ queue' = Append(queue, x) /\ hand' = hand /\ (x.kind = "gap" => ~ GapQueued)
  \/ x.kind = "gap" /\ GapQueued /\ queue' = WithGap(x) /\ hand' = hand
  \/ hand = NoFrame /\ queue = <<>> /\ hand' = x /\ queue' = queue

\* What leaves the queue when an ACK commits has been acknowledged.
Discards(cursor) ==
  /\ queue' \in Seq(Notes) /\ OneGap(queue') /\ Rising(queue')
  /\ Marks(queue') \subseteq Marks(queue) /\ EventMarks(queue') \subseteq EventMarks(queue)
  /\ GapMarks(queue') \subseteq GapMarks(queue) /\ \A m \in EventMarks(queue') : m > cursor
  /\ \A d \in Marks(queue) \ Marks(queue') : d <= cursor
  /\ queue = <<>> => queue' = <<>>
-----------------------------------------------------------------------------
(* The invariant in parts, for the steps of the client.                     *)

FeedTyped ==
  /\ last_sequence \in 0 .. Terminal /\ gap_mark \in 0 .. Terminal
  /\ live \subseteq 1 .. Terminal
  /\ ranges \subseteq [base : 0 .. Terminal, end : 0 .. Terminal]

QueueTyped == queue \in Seq(Notes) /\ queue_state \in {"open", "closed", "failed"}

LaneTyped == held \in Seq(Entries) /\ \A i \in DOMAIN held : held[i].seq = Mark(held[i].item)

AckTyped == /\ retired \in 0 .. Terminal /\ ack_cursor \in 0 .. Terminal
            /\ submissions \subseteq Submissions

AppTyped ==
  /\ iterator \in {"next", "waiting", "handed", "ack", "acking", "gap", "done"}
  /\ recovery \in {"idle", "requested", "consumed", "acking"}
  /\ seen \in 0 .. Terminal /\ hand \in Notes \union {NoFrame}

WireTyped == to_client \in Seq(Frames) /\ to_host \in Seq(Messages)

IteratorPhases ==
  /\ iterator \in {"next", "waiting", "done"} <=> hand = NoFrame
  /\ iterator = "gap" => hand.kind = "gap"
  /\ iterator \in {"ack", "acking"} => hand.kind = "event" /\ hand.seq <= seen
  /\ iterator = "waiting" => queue = <<>> /\ ~ Java
  /\ OneGap(queue)

SubmitPhases ==
  ~ Java => \A s, t \in submissions :
              s.task = "iterator" => iterator = "acking" /\ (t.task = "iterator" => s = t)

Parts == /\ FeedTyped /\ QueueTyped /\ LaneTyped /\ AckTyped /\ AppTyped /\ WireTyped
         /\ IteratorPhases /\ SubmitPhases /\ (Java => Len(held) <= 1)
-----------------------------------------------------------------------------
(* What the client owes.                                                    *)

\* A request of the client.
Sends(x) == to_host' = Append(to_host, x)

\* What a step of the client does to its debts.
ClientMoves ==
  /\ UNCHANGED vars
  /\ seen' \in Nat /\ seen' >= seen
  /\ registered => seen' <= ackable_sequence
  /\ \A i \in DOMAIN to_client' : \E j \in DOMAIN to_client : to_client'[i] = to_client[j]
  /\ \/ /\ UNCHANGED to_host
        /\ \A s \in submissions' : s.written => s \in submissions
        /\ ack_cursor' = ack_cursor \/ \E s \in submissions : s.written /\ ack_cursor' = s.seq
     \/ UNCHANGED <<submissions, ack_cursor>> /\ Sends(ReplayRequest(seen, MaxReplayEvents))
     \/ /\ UNCHANGED ack_cursor
        /\ \E sent \in submissions :
             /\ Sends(AckRequest(sent.seq))
             /\ \A s \in submissions' : s.written => s \in submissions \/ s.seq = sent.seq

\* No acknowledgement is forgotten but by its commit.
AcksGrow ==
  /\ ack_cursor' \in Nat /\ ack_cursor' >= ack_cursor
  /\ \A s \in submissions : \/ s.seq <= ack_cursor'
                            \/ \E t \in submissions' : Named(t) = Named(s) /\ (s.written => t.written)

\* A submission is added, not written yet.
NewSubmission(e, by, acked) ==
  /\ submissions' = submissions \union {e}
  /\ e.task = by /\ e.seq = acked /\ e.written = FALSE
  /\ ReplayCovers(acked) /\ acked > last_sequence => e.covered
  /\ ReplayCovers(acked) \/ acked = gap_mark \/ acked \in live => e.observed
-----------------------------------------------------------------------------
(* What the feed takes.                                                     *)

\* What stays on the wire, wherever it is now.
StillThere == \A j \in DOMAIN to_client' : \E k \in DOMAIN to_client : to_client'[j] = to_client[k]

\* What moves keeps its place in the order, and nothing is added.
Downstream ==
  /\ StillThere
  /\ UNCHANGED <<vars, to_host, sdk, ranges, retired, ack_cursor, submissions, recovery, seen>>
  /\ Coming' \subseteq Coming /\ Rear' \subseteq Rear /\ RearEvents' \subseteq RearEvents
  /\ ForeGaps' \union RearGaps' \subseteq ForeGaps \union RearGaps
  /\ Marks(queue)' \union Rear' \subseteq Marks(queue) \union Rear
  /\ HandMarks' \subseteq HandMarks \union Marks(queue) \union Rear
  /\ \A m \in EventMarks(queue)' : m > ack_cursor
  /\ iterator = "gap" => iterator' = "gap" /\ hand' = hand
  /\ queue_state' = "open" => queue_state = "open"
  /\ Waiting' /\ Fencing'

\* A notification is taken: an event is live from then on, a gap is the last one.
Takes1In(m) ==
  \/ /\ live' = live \union {m} /\ UNCHANGED gap_mark
     /\ TakenEvents' \subseteq TakenEvents \union {m} /\ TakenGaps' \subseteq TakenGaps
  \/ /\ UNCHANGED live /\ gap_mark' = m /\ m \in RearGaps
     /\ TakenEvents' \subseteq TakenEvents /\ TakenGaps' \subseteq TakenGaps \union {m}

\* What the queue and the hand have with a notification that has arrived.
Arrived(x) ==
  /\ Fore' \subseteq Fore \union {Mark(x)}
  /\ ForeEvents' \subseteq ForeEvents \union IF x.kind = "event" THEN {Mark(x)} ELSE {}
  /\ ForeGaps' \subseteq ForeGaps \union IF x.kind = "gap" THEN {Mark(x)} ELSE {}
  /\ Marks(queue)' \subseteq Marks(queue) \union {Mark(x)}
  /\ EventMarks(queue)' \subseteq EventMarks(queue) \union IF x.kind = "event" THEN {Mark(x)} ELSE {}
  /\ HandMarks' \subseteq HandMarks \union {Mark(x)}

\* What the client has, and what it knows of it, stays.
ClientKept ==
  /\ UNCHANGED <<Java, Strict, Fore, ForeGaps, Taken, TakenGaps, Marks(queue), HandMarks,
                 HeldMarks, HeldEvents, HeldGaps>>
  /\ \A n : (Known(n)' <=> Known(n)) /\ (Unacked(n)' <=> Unacked(n)) /\ (Paged(n)' <=> Paged(n))
  /\ Noted' /\ SeenKnown' /\ Room' /\ Waiting' /\ Fencing'
=============================================================================
