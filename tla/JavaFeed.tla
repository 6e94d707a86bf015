------------------------------ MODULE JavaFeed ------------------------------
(***************************************************************************)
(* The feed of the Java SDK (BoundedPublisher.java, and notify and        *)
(* receiveEvent in EchoAgentClient.java) next to the two of RunFeed, and   *)
(* the three of them as clients of one Host.                               *)
(*                                                                         *)
(* Notifications are handled one after the other, in a lane that answers   *)
(* to requests pass by: what has come and is not handled yet stays in      *)
(* to_client.  Every check is made when an event leaves the lane.  One     *)
(* that finds the queue full holds the lane (held) until the pending ACK   *)
(* of its predecessor is through.  The drain hands an item out when there  *)
(* is demand, and ACKs an event as soon as onNext has returned, without    *)
(* waiting for the ACK; an application with a gap in hand requests the     *)
(* next item after its recovery.                                           *)
(***************************************************************************)
EXTENDS RunFeed, SequencesExt

-----------------------------------------------------------------------------
(* The lane.                                                               *)

Notification(frame) == frame.kind \in {"event", "gap"}

\* An answer overtakes the notifications of the lane, and no other answer.
JavaReceives ==
    \E i \in DOMAIN to_client :
        /\ ~ Notification(to_client[i])
        /\ \A earlier \in 1 .. i - 1 : Notification(to_client[earlier])
        /\ AcceptAnswer(to_client[i])
        /\ to_client' = RemoveAt(to_client, i)
        /\ UNCHANGED <<vars, to_host>>

\* A notification is at the head of the lane, and none is held.
AtHead == held = <<>> /\ to_client # <<>> /\ Notification(Head(to_client))

\* An ACK that the feed has observed admits what comes right after its cursor.
AfterPending(seq) == \E sent \in submissions : sent.observed /\ sent.seq + 1 = seq

\* beforeEventAdmission: the pending ACKs of the direct predecessor.
Predecessors(seq) ==
    {Named(sent) : sent \in {s \in submissions :
        s.observed /\ s.seq + 1 = seq /\ Retires(s.seq)}}

Fences(item) ==
    IF /\ item.kind = "event" /\ queue_state = "open" /\ ~ HasRoom
       /\ item.seq > ack_cursor /\ item.seq > last_sequence
    THEN Predecessors(item.seq)
    ELSE {}

Fence ==
    /\ AtHead /\ Fences(Head(to_client)) # {}
    /\ held' = <<[item      |-> Head(to_client),
                  seq       |-> Head(to_client).seq,
                  waits_for |-> Fences(Head(to_client))]>>
    /\ Received
    /\ UNCHANGED <<vars, feed, queue, queue_state, retired, acking, app>>

\* awaitAdmission.
Fenced(entry) ==
    /\ queue_state = "open" /\ ~ HasRoom
    /\ \E sent \in submissions : Named(sent) \in entry.waits_for
-----------------------------------------------------------------------------
(* Publication, in one section under the publisher's monitor.              *)

Fail == queue_state' = "failed" /\ queue' = <<>>

\* receiveEvent closes the feed after its terminal, whatever became of it.
ClosesAfter(seq) ==
    queue_state' = IF queue_state = "open" /\ seq = Terminal THEN "closed" ELSE queue_state

JavaFollows(seq) ==
    \/ last_sequence = 0
    \/ seq = last_sequence + 1
    \/ seq > last_sequence /\ AfterPending(seq)

PublishEvent(seq) ==
    LET passes == queue_state # "open" \/ seq <= ack_cursor \/ seq = last_sequence
    IN  \/ passes /\ ClosesAfter(seq) /\ UNCHANGED <<last_sequence, live, queue>>
        \/ ~ passes /\ ~ JavaFollows(seq) /\ Fail /\ UNCHANGED <<last_sequence, live>>
        \/ /\ ~ passes /\ JavaFollows(seq)
           /\ last_sequence' = seq
           /\ live' = live \union {seq}
           /\ \/ HasRoom /\ queue' = Append(queue, EventFrame(seq)) /\ ClosesAfter(seq)
              \/ ~ HasRoom /\ Fail

\* A gap takes the place of the one in the queue and of all that came after it.
WithGap(gap) ==
    IF GapQueued
    THEN LET at == CHOOSE i \in DOMAIN queue : queue[i].kind = "gap"
         IN  Append(SubSeq(queue, 1, at - 1), [gap EXCEPT !.from = queue[at].from])
    ELSE Append(queue, gap)

Misplaced(gap) ==
    \/ gap.watermark < last_sequence
    \/ gap.watermark > last_sequence /\ ~ JavaFollows(gap.from)

PublishGap(gap) ==
    LET mark   == gap.watermark
        passes == queue_state # "open" \/ mark <= ack_cursor
    IN  /\ UNCHANGED live
        /\ \/ /\ passes \/ (~ Misplaced(gap) /\ mark = last_sequence)
              /\ UNCHANGED <<last_sequence, gap_mark, queue, queue_state>>
           \/ ~ passes /\ Misplaced(gap) /\ Fail /\ UNCHANGED <<last_sequence, gap_mark>>
           \/ /\ ~ passes /\ ~ Misplaced(gap) /\ mark # last_sequence
              /\ last_sequence' = mark /\ gap_mark' = mark
              /\ queue' = WithGap(gap) /\ UNCHANGED queue_state

PublishItem(item) ==
    \/ item.kind = "event" /\ PublishEvent(item.seq) /\ UNCHANGED gap_mark
    \/ item.kind = "gap" /\ PublishGap(item)

Publishes ==
    /\ \/ /\ AtHead /\ Fences(Head(to_client)) = {}
          /\ PublishItem(Head(to_client))
          /\ Received /\ UNCHANGED held
       \/ /\ held # <<>> /\ ~ Fenced(Head(held))
          /\ PublishItem(Head(held).item)
          /\ held' = <<>> /\ UNCHANGED wires
    /\ UNCHANGED <<vars, sdk, ranges, terminal_replayed, retired, acking, app>>
-----------------------------------------------------------------------------
(* The drain, its subscriber and the ACKs.                                 *)

\* There is demand; a feed that has failed has nothing left, one that is closed
\* hands out the rest first.
Drain ==
    /\ iterator = "next"
    /\ \/ queue # <<>> /\ hand' = Head(queue) /\ queue' = Tail(queue) /\ iterator' = "handed"
       \/ Ended /\ iterator' = "done" /\ UNCHANGED <<hand, queue>>
    /\ UNCHANGED <<vars, wires, feed, held, queue_state, retired, acking, recovery,
                   settled_known, catch_ups, seen>>

OnNext ==
    /\ iterator = "handed"
    /\ \/ hand.kind = "event" /\ seen' = Larger(seen, hand.seq) /\ iterator' = "ack"
       \/ hand.kind = "gap" /\ iterator' = "gap" /\ UNCHANGED seen
    /\ UNCHANGED hand /\ IteratorOnly

AcknowledgeEvent ==
    /\ iterator = "ack"
    /\ Submit("iterator", hand.seq)
    /\ iterator' = "next" /\ hand' = NoFrame
    /\ UNCHANGED <<vars, wires, feed, mail, ack_cursor, recovery, settled_known,
                   catch_ups, seen>>

\* retireConsumed: what an ACK covers leaves the queue, a gap keeps the rest.
Retained(cursor) ==
    LET Covers(item) == (IF item.kind = "gap" THEN item.watermark ELSE item.seq) <= cursor
        kept == Selected({i \in DOMAIN queue : ~ Covers(queue[i])})
    IN  [i \in DOMAIN kept |->
            IF kept[i].kind = "gap"
            THEN [kept[i] EXCEPT !.from = Larger(@, cursor + 1),
                                !.to = Larger(@, cursor + 1)]
            ELSE kept[i]]

Commits(sent) ==
    LET cursor == Larger(ack_cursor, sent.seq)
    IN  /\ sent.written
        /\ submissions' = submissions \ {sent}
        /\ \/ /\ sent.observed
              /\ ack_cursor' = cursor
              /\ last_sequence' = Larger(last_sequence, cursor)
              /\ queue' = Retained(cursor)
              /\ queue_state' = IF queue_state = "open" /\ EndsFeed(sent.seq)
                                THEN "closed" ELSE queue_state
           \/ ~ sent.observed /\ UNCHANGED <<ack_cursor, last_sequence, queue, queue_state>>
        /\ recovery' = IF sent.task = "recovery" THEN "idle" ELSE recovery
        /\ UNCHANGED <<vars, wires, sdk, gap_mark, live, ranges, terminal_replayed, held,
                       retired, iterator, hand, settled_known, catch_ups, seen>>
-----------------------------------------------------------------------------
(* The three feeds.                                                        *)

\* Each line is one task of the client, whichever SDK it belongs to.
Receives  == IF Java THEN JavaReceives ELSE ClientReceives
Lane      == IF Java THEN Fence \/ Publishes ELSE Push
Takes     == IF Java THEN Drain ELSE Get
Iterates  == IF Java THEN OnNext \/ LeaveGap \/ AcknowledgeEvent
             ELSE Skip \/ ConsumeEvent \/ FaceGap \/ LeaveGap \/ IteratorAcks
Recovers  == IF Java THEN Recover ELSE StartRecovery
Submits(task) ==
    \E sent \in submissions :
        sent.task = task /\ (Write(sent) \/ IF Java THEN Commits(sent) ELSE CommitAck(sent))

FeedNext ==
    \/ HostSide
    \/ Receives \/ Lane \/ Takes \/ Iterates \/ Recovers \/ RecoveryAcks
    \/ \E task \in Tasks : Submits(task)

FeedSafety == FeedInit /\ [][FeedNext]_all

\* Every task of Host and client is scheduled.
Fairness ==
    /\ HostFairness
    /\ WF_all(Receives) /\ WF_all(Lane) /\ WF_all(Takes) /\ WF_all(Iterates)
    /\ WF_all(Recovers) /\ WF_all(RecoveryAcks)
    /\ \A task \in Tasks : WF_all(Submits(task))

FeedSpec == FeedSafety /\ Fairness
=============================================================================
