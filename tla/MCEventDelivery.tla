-------------------------- MODULE MCEventDelivery --------------------------
(***************************************************************************)
(* Instances of EventDelivery for TLC: a window limited by its count, and  *)
(* one limited by its bytes.                                               *)
(***************************************************************************)
EXTENDS EventDelivery

\* Events that the wire refuses, small ones, the largest live and oversized ones.
MCSizes == {NoWireForm, 1, 2, 3}

\* out is written and never read: two states that differ in it alone have the
\* same steps.
MCView == <<journal, observed, window, pausing, ackable_sequence, resume,
            tasks, env>>
=============================================================================
