----------------------------- MODULE HandleLife -----------------------------
(***************************************************************************)
(* What HandleRegistry (core_profile/handles.rs) promises of Agent and     *)
(* Session handles: an identity is issued once and released once, a        *)
(* Session is issued only under an issued Agent, and an Agent is released  *)
(* only after every Session issued under it.                               *)
(***************************************************************************)
CONSTANTS Handles, None

VARIABLES
  life,         \* "unissued", "issued" or "released"
  parent        \* the Agent of a Session handle; an Agent is its own parent

vars == <<life, parent>>

Init == life = [h \in Handles |-> "unissued"] /\ parent = [h \in Handles |-> None]

Children(a) == {h \in Handles \ {a} : parent[h] = a}

(* register_agent (p = h) and register_session_with_cwd.                   *)
Issue(h, p) ==
  /\ life[h] = "unissued"
  /\ p # h => life[p] = "issued" /\ parent[p] = p
  /\ life' = [life EXCEPT ![h] = "issued"]
  /\ parent' = [parent EXCEPT ![h] = p]

(* close_agent and close_session.                                          *)
Release(h) ==
  /\ life[h] = "issued"
  /\ \A k \in Children(h) : life[k] # "issued"
  /\ life' = [life EXCEPT ![h] = "released"]
  /\ UNCHANGED parent

Next == \E h \in Handles : Release(h) \/ \E p \in Handles : Issue(h, p)

Spec == Init /\ [][Next]_vars
=============================================================================
