-------------------------- MODULE CallbackContract --------------------------
(***************************************************************************)
(* What the Host promises about one streaming callback it has made to an   *)
(* extension, whatever the transport, deadlines and cancellation do: the   *)
(* invocation is owned until the peer itself has proved that it ended, the *)
(* items it sent are handed over in order, and the end of the stream is    *)
(* told once, after the invocation was given back.                         *)
(***************************************************************************)
EXTENDS Naturals

CONSTANTS MaxItems

VARIABLES
  proven,   \* the peer has proved that its callback ended
  doubtful, \* its fate was reported unknown, and its answer came after that
  cut,      \* the connection has ended
  lost,     \* the end of the stream has overtaken items
  owned,    \* "never", "held" or "free"
  sent,     \* items the peer has sent
  given,    \* items handed to the consumer
  end       \* "no", "whole" or "short"

vars == <<proven, doubtful, cut, lost, owned, sent, given, end>>

Init ==
  /\ proven = FALSE /\ doubtful = FALSE /\ cut = FALSE /\ lost = FALSE
  /\ owned \in {"never", "held"}
  /\ sent = 0 /\ given = 0 /\ end = "no"

Start == owned = "never" /\ owned' = "held"

(* What the peer and the transport do: facts are never taken back.         *)
Learn ==
  /\ proven => proven'
  /\ doubtful => doubtful'
  /\ cut => cut'
  /\ lost => lost'

Receive == sent' = sent \/ (sent < MaxItems /\ sent' = sent + 1)

(* The invocation is given back on proof only.                             *)
GiveBack == owned = "held" /\ owned' = "free" /\ (proven' \/ cut')

Give == end = "no" /\ given < sent /\ given' = given + 1

(* A complete stream has handed over every item.                           *)
Tell ==
  /\ end = "no"
  /\ owned # "held" \/ doubtful
  /\ \/ end' = "whole" /\ (given = sent \/ lost)
     \/ end' = "short"

Next ==
  /\ Learn /\ Receive
  /\ Start \/ GiveBack \/ UNCHANGED owned
  /\ Give \/ UNCHANGED given
  /\ Tell \/ UNCHANGED end

Spec == Init /\ [][Next]_vars
=============================================================================
