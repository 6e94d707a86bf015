------------------------------ MODULE RunHistory ------------------------------
(***************************************************************************)
(* What the durable index promises about a Run: it is opened once, settles *)
(* at most once with one receipt, is interrupted if the process dies       *)
(* before that, and may be forgotten only after it has settled or when its *)
(* start is withdrawn.  An interrupted Run stays interrupted for ever.     *)
(***************************************************************************)
CONSTANTS Runs, Receipts

VARIABLE history

Init == history = [r \in Runs |-> "none"]

SettledRuns == {r \in Runs : history[r] \in Receipts}

\* One write of the index moves one Run, and may forget settled ones to make room.
Moves(r) ==
  IF history[r] = "none" THEN {"open", "gone"}
  ELSE IF history[r] = "open" THEN Receipts \cup {"gone"}
  ELSE {}

Write ==
  \E r \in Runs : \E new \in Moves(r), forgotten \in SUBSET SettledRuns :
    history' = [q \in Runs |-> IF q \in forgotten THEN "gone"
                              ELSE IF q = r THEN new ELSE history[q]]

\* The process died: what was open is interrupted, a start in progress is withdrawn.
Die ==
  \E withdrawn \in SUBSET {r \in Runs : history[r] = "none"} :
    history' = [r \in Runs |-> IF r \in withdrawn THEN "gone"
                              ELSE IF history[r] = "open" THEN "interrupted" ELSE history[r]]

Next == Write \/ Die

Spec == Init /\ [][Next]_history
=============================================================================
