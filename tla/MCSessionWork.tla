--------------------------- MODULE MCSessionWork ---------------------------
(***************************************************************************)
(* Two Sessions share an ACP id.  A behaviour has two executions, an       *)
(* execution and an attempt, two dispatches of one idempotency id or of    *)
(* different ones in a map for one, an await or a control, a call in the   *)
(* store, and at least one close of a Session in nearly each; the Host may *)
(* be drained and the connection lost in any.                              *)
(***************************************************************************)
EXTENDS SessionWork, TLC

CONSTANTS p, i, s1, s2, x1, x2, g, d1, d2, d3, j, k1, k2

OneScope == [s \in Sessions |-> p]
Ids == d1 :> i @@ d2 :> i @@ d3 :> None

WorkPlans ==
  {{s1, x1, x2, k1}, {s1, s2, x1, k1, k2}, {s1, g, k1}, {s1, d1, d2, k1}, {s1, d1, d3},
   {s1, x1, d3, k1}, {s1, d3, j, k1}}
=============================================================================
