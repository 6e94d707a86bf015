---------------------------- MODULE ReplayPages ----------------------------
(***************************************************************************)
(* Bounded journal replay of `_echo_agent/run/replay` (bounded_replay in   *)
(* core_profile/events.rs) and the contract its response is validated      *)
(* against (ReplayResponse::validate in echo-sdk-protocol/src/event.rs).   *)
(*                                                                         *)
(* A journal is the sequence of the byte sizes of its records: record i    *)
(* carries envelope sequence i, and a record that the wire contract        *)
(* refuses has no size but NoWireForm.  Records below the retention floor  *)
(* are gone.  A page is the record                                         *)
(*   [after, gap, base, end]                                               *)
(* requested after `after`, holding the events base+1 .. end; when gap is  *)
(* TRUE the response also carries the typed gap after+1 .. base, whose     *)
(* snapshot watermark is base.                                             *)
(***************************************************************************)
EXTENDS Integers, Sequences, Functions

CONSTANTS
    \* Host limit on the bytes of one replay response.
    MaxReplayBytes

ASSUME MaxReplayBytesAssumption == MaxReplayBytes \in Nat

\* wire_envelope refuses an event with a text over 1048576 characters, a collection over 4096
\* items, more than 64 levels or a number that is not finite.
NoWireForm == 0
HasWireForm(bytes) == bytes # NoWireForm

\* Bytes of the records from+1 .. to.
BytesBetween(journal, from, to) ==
    FoldFunctionOnSet(+, 0, journal, (from + 1) .. to)

\* The typed gap is returned when the next wanted sequence was pruned.
BelowFloor(floor, after) == after + 1 < floor

\* The sequence reading starts after.
ReadFrom(floor, after) == IF BelowFloor(floor, after) THEN floor - 1 ELSE after

\* The last record replay_after(read_from, max_events) returns, or read_from.
LastRead(journal, from, maxEvents) ==
    IF from >= Len(journal) THEN from
    ELSE IF from + maxEvents <= Len(journal) THEN from + maxEvents
    ELSE Len(journal)

\* The page may hold the events from+1 .. end.
Fits(journal, from, end) ==
    end = from \/ BytesBetween(journal, from, end) <= MaxReplayBytes

\* The loop stops at the first record that does not fit.
IsPageEnd(journal, from, maxEvents, end) ==
    /\ end \in from .. LastRead(journal, from, maxEvents)
    /\ Fits(journal, from, end)
    /\ end < LastRead(journal, from, maxEvents) => ~ Fits(journal, from, end + 1)

\* The request is refused with payload_too_large: not even one record fits.
FirstTooLarge(journal, floor, after, maxEvents) ==
    LET from == ReadFrom(floor, after)
    IN  /\ from < LastRead(journal, from, maxEvents)
        /\ ~ Fits(journal, from, from + 1)

\* The request is refused with serialization_violation: the loop, which converts
\* a record before it looks at its size, comes to one without a wire form.
Unconvertible(journal, floor, after, maxEvents) ==
    LET from == ReadFrom(floor, after)
    IN  \E bad \in from + 1 .. LastRead(journal, from, maxEvents) :
            ~ HasWireForm(journal[bad]) /\ Fits(journal, from, bad - 1)

\* page answers the request for at most maxEvents events after `after`.
IsPage(journal, floor, after, maxEvents, page) ==
    /\ page.after = after
    /\ page.gap   = BelowFloor(floor, after)
    /\ page.base  = ReadFrom(floor, after)
    /\ ~ FirstTooLarge(journal, floor, after, maxEvents)
    /\ ~ Unconvertible(journal, floor, after, maxEvents)
    /\ IsPageEnd(journal, page.base, maxEvents, page.end)

\* The cursor a client acknowledges after consuming the page.
CursorPastPage(page) == page.end + 1
NextCursor(page) == page.end

\* What publishing the page lets the client acknowledge: its last event, else
\* the watermark of its gap, else nothing (0).
Coverage(page) ==
    IF page.base < page.end THEN page.end
    ELSE IF page.gap THEN page.base ELSE 0
=============================================================================
