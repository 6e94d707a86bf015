--------------------------- MODULE MCPublication ---------------------------
(* Model values for Publication: who may ask for what.                     *)
EXTENDS Publication

CONSTANTS k1, k2, p1, p2

Ask(k, p) == [key |-> k, payload |-> p]

\* One key, one payload: every caller after the first joins or starts over.
SameAsk == {Ask(k1, p1)}

\* And one call that differs: the same key with another payload, another key,
\* which under a quota of one competes for the receipt, or no key at all, which
\* competes for the turn.
AnyAsk == SameAsk \cup {Ask(k1, p2), Ask(k2, p1), Ask(NoKey, p1)}
OneDiffers == Cardinality({c \in Callers : request[c] \notin SameAsk \cup {None}}) <= 1
=============================================================================
