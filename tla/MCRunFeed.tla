----------------------------- MODULE MCRunFeed -----------------------------
(***************************************************************************)
(* Instances of JavaFeed for TLC.                                          *)
(***************************************************************************)
EXTENDS FeedInvariant

\* The three feeds.
MCSdks == {"python","typescript","java"}

\* Small events and ones that the wire refuses; oversized ones as well.
MCSmall == {NoWireForm, 1}
MCAnySize == {NoWireForm, 1, 3}

\* out is written and never read but by the step that writes it.  Where
\* last_sequence never falls below ack_cursor, what the feed has observed at or
\* below ack_cursor is never looked at again: Submit takes such an ACK anyway.
StillRead ==
    IF sdk = "typescript"
    THEN <<live, ranges, gap_mark>>
    ELSE <<{seq \in live : seq > ack_cursor}, {range \in ranges : range.end > ack_cursor},
           IF gap_mark > ack_cursor THEN gap_mark ELSE 0>>
MCView == <<journal, observed, window, pausing, ackable_sequence, resume, tasks, env, wires,
            sdk, last_sequence, terminal_replayed, StillRead, mail, acking, app>>
=============================================================================
