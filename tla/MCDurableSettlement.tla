------------------------ MODULE MCDurableSettlement ------------------------
(* Small instances of DurableSettlement for TLC.                           *)
EXTENDS DurableSettlement, TLC

CONSTANTS r1, p1, s1, short, long, bad

OneAndPrompt == {r1, p1}
OnePrompt == {p1}
InOneSession == [r \in Runs |-> s1]
\* Record sizes against MaxIndexBytes: with "long" one record alone is too much.
RecordBytes ==
  [x \in Receipts \cup {None} |-> IF x = None THEN 1 ELSE IF x = long THEN 4 ELSE 2]
=============================================================================
