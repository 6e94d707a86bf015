------------------------- MODULE MCSessionHandles -------------------------
(***************************************************************************)
(* The requests of the runs of SessionHandles.  A call is sent at any      *)
(* time, or never, once the response with the handle it names has come.    *)
(***************************************************************************)
EXTENDS SessionHandles, TLC

CONSTANTS a, a1, b, s1, s2, s3, c1, c2, c3, x, y, k1, k2, f

Ask(op, on, sid, key, config) ==
  [op |-> op, on |-> on, sid |-> sid, key |-> key, config |-> config]

NewAgent(key, config) == Ask("agent/create", None, None, key, config)
NewSession(agent, sid) == Ask("session/create", agent, sid, None, None)
LoadSession(agent, sid) == Ask("session/load", agent, sid, None, None)
CloseSession(session) == Ask("session/close", session, None, None, None)
CloseAgent(agent) == Ask("agent/close", agent, None, None, None)

(* Three Sessions under two Agents with a key, two of them of one id, and  *)
(* two closes of an Agent that meet the close of one of its Sessions.      *)
SameAddress ==
  a :> NewAgent(k1, f) @@ b :> NewAgent(k2, f) @@ a1 :> NewAgent(k1, f)
    @@ s1 :> NewSession(a, x) @@ s2 :> LoadSession(b, x) @@ s3 :> NewSession(a, y)
    @@ c1 :> CloseSession(s1) @@ c2 :> CloseAgent(a) @@ c3 :> CloseAgent(a1)
=============================================================================
