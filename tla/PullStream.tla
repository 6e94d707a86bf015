----------------------------- MODULE PullStream -----------------------------
(***************************************************************************)
(* What a facade stream promises its SDK consumer (docs/sdk/protocol.md,   *)
(* docs/sdk/facade-feature-adapters.md): each pull returns the next item   *)
(* with the next sequence, none skipped and none twice, and the stream     *)
(* ends with exactly one terminal, which tells how its source ended.       *)
(***************************************************************************)
EXTENDS Naturals, Sequences

VARIABLES
  made,         \* items the source has published
  outcome,      \* how the source ended: "running", "finished" or "failed"
  cancelled,    \* a cancellation was accepted
  cut,          \* the close of the stream's resource has begun
  given         \* the events that pulls have returned, in order

vars == <<made, outcome, cancelled, cut, given>>

Event(kind, item) == [seq |-> Len(given) + 1, kind |-> kind, item |-> item]

Ended == \E i \in DOMAIN given : given[i].kind # "item"

Init ==
  /\ made = 0 /\ outcome = "running" /\ cancelled = FALSE /\ cut = FALSE
  /\ given = <<>>

(* The source publishes an item, ends, is cancelled or loses its resource. *)
(* A task that fails or stops may do two of these at once.                 *)
Proceed ==
  /\ made' \in {made, made + 1}
  /\ outcome' \in {"running", "finished", "failed"}
  /\ made' # made \/ outcome' # outcome => outcome = "running"
  /\ cancelled => cancelled'
  /\ cut => cut'
  /\ UNCHANGED given

Deliver ==
  /\ ~Ended /\ ~cancelled /\ Len(given) < made
  /\ given' = Append(given, Event("item", Len(given) + 1))
  /\ UNCHANGED <<made, outcome, cancelled, cut>>

End(kind) ==
  /\ ~Ended
  /\ kind = "cancelled" <=> cancelled
  /\ kind = "complete" => cut \/ (outcome = "finished" /\ Len(given) = made)
  /\ kind = "failed" => outcome = "failed" /\ (cut \/ Len(given) = made)
  /\ given' = Append(given, Event(kind, 0))
  /\ UNCHANGED <<made, outcome, cancelled>> /\ (cut => cut')

Next == Proceed \/ Deliver \/ \E k \in {"complete", "failed", "cancelled"} : End(k)

Spec == Init /\ [][Next]_vars
=============================================================================
