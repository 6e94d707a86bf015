-------------------------- MODULE McpResourcesProofs --------------------------
(***************************************************************************)
(* Every MCP server that runs has an owner in the Host, and an alias is    *)
(* withdrawn only when its server is closed, for any number of managers,   *)
(* requests, closers and resources.                                        *)
(***************************************************************************)
EXTENDS McpResources, FiniteSetTheorems, TLAPS

USE McpResourcesAssumption DEF McpResourcesAssumption
-----------------------------------------------------------------------------
(* The inductive invariant.                                                *)
(*                                                                         *)
(* That a server has an owner does not last by itself.  A request goes on  *)
(* with a manager that another request closes; what keeps the manager on   *)
(* record is the order in which they came for its lock (Locked).  A        *)
(* disconnect withdraws aliases; that these are aliases of the server it   *)
(* disconnects is what Follows says.  A Session that finishes its close    *)
(* has lost sight of nothing because nothing was in flight when it looked  *)
(* for what to close (Closing).                                            *)

AtLock == {"resolved", "connecting", "undoing"}

\* How an address comes about: a slot is not known, an alias is, and the
\* request that mints either has gone no further than that.
Minted ==
  /\ IsFiniteSet(registry)
  /\ \A c \in Calls :
       /\ c \in known => stage[c] = "done"
       /\ c \notin known => mcp_clients[c] = None /\ mcp_client_managers[c] = None
       /\ c \in mcp_preparations => c \notin known /\ stage[c] \in {"preparing", "settling", "done"}
       /\ c \in mcp_cleanup_debt => c \notin known /\ stage[c] \in {"withdrawing", "done"}
       /\ stage[c] = "preparing" => c \in mcp_preparations
       /\ mcp_clients[c] # None => stage[mcp_clients[c]] \in {"undoing", "done"}
  /\ \A m \in Managers : retained[m] # None => stage[retained[m]] \in {"undoing", "done"}

\* What a request is about.
Subjects ==
  \A c \in Calls :
    /\ stage[c] = "arriving" => request[c].kind \in Kinds /\ MayAsk(request[c].kind, About(c))
    /\ stage[c] = "resolved" =>
         \/ request[c].kind \in ManagerKinds /\ About(c) \in Managers
         \/ /\ request[c].kind = "client.close" /\ About(c) \in Calls \cap known
            /\ mcp_clients[About(c)] \in {None, request[c].held}
    /\ stage[c] \in {"connecting", "undoing"} => About(c) \in Managers
    /\ stage[c] = "fenced" => About(c) \in known \cap fenced

\* A manager stays on record until those who were before its close are done.
Locked ==
  /\ \A c \in Calls : stage[c] \in AtLock /\ About(c) \in Managers => About(c) \in mcp
  /\ \A c, d \in Calls :
       /\ stage[c] \in {"connecting", "undoing"} /\ stage[d] \in {"connecting", "undoing"}
          /\ About(c) = About(d) => c = d
       /\ stage[d] = "fenced" /\ stage[c] \in AtLock /\ About(c) = About(d) =>
            c \in request[d].ahead
  /\ \A c \in Calls : stage[c] = "undoing" => retained[About(c)] = c

\* An alias that a manager has minted is of the server it holds, or of none
\* that runs.
Follows ==
  \A a \in Aliased :
    mcp_client_managers[a] \in Managers =>
      \/ server[mcp_clients[a]] = "closed"
      \/ retained[mcp_client_managers[a]] = mcp_clients[a]

\* What is not on a closer's list when it has come so far is closed.
Closing ==
  /\ released => closing /\ Running = {}
  /\ \A s \in Closers :
       /\ stage[s] = "waiting" => closing
       /\ stage[s] \in Phases => closing /\ Running = {}
       /\ stage[s] = "managers" =>
            left[s] \subseteq Managers /\ (~failed[s] => mcp \subseteq left[s])
       /\ stage[s] = "clients" =>
            left[s] \subseteq Calls /\ (~failed[s] => mcp = {} /\ Aliased \subseteq left[s])
       /\ stage[s] = "debts" =>
            /\ left[s] \subseteq Calls /\ left[s] \cap Aliased = {}
            /\ ~failed[s] => mcp = {} /\ Aliased = {} /\ Unpublished \subseteq left[s]

Owned ==
  /\ \A x \in Calls : server[x] = "live" =>
       \/ x \in Unpublished
       \/ \E a \in Aliased : mcp_clients[a] = x
       \/ \E m \in mcp : retained[m] = x \/ (stage[x] = "connecting" /\ About(x) = m)
  /\ mcp \cup Unpublished \cup Aliased \subseteq registry
  /\ ~closing \/ Running # {} =>
       registry \cap (Managers \cup Calls) \subseteq mcp \cup Unpublished \cup Aliased
  /\ released => \A x \in Calls : server[x] # "live"

IInv == TypeOK /\ Minted /\ Subjects /\ Locked /\ Follows /\ Closing /\ Owned
-----------------------------------------------------------------------------
(* Types, and what a step leaves alone.                                    *)

Stage == {"idle", "arriving", "waiting", "done"} \cup InFlight \cup Phases
Request == [kind : Kinds \cup {None}, about : Addresses \cup {None},
            held : Calls \cup {None}, ahead : SUBSET Calls]

LEMMA NoRequestTyped == NoRequest \in Request
BY DEF NoRequest, Request

\* A step of a request moves that request only.
LEMMA CallMoves ==
  ASSUME IInv, NEW c \in Calls, CallNext(c)
  PROVE  /\ stage[c] # "done" /\ stage'[c] \in Stage
         /\ stage' = [stage EXCEPT ![c] = stage'[c]]
         /\ request'[c] \in Request
         /\ request' = [request EXCEPT ![c] = request'[c]]
         /\ UNCHANGED <<closing, released, left, failed>>
<1> USE DEF Answer, Goes, Ends, Succeeds, Fails, LetsGo, Started, session, addresses, unpublished, aliases, framework, closes, Stage, InFlight, Phases
<1> c \in Calls \cup Closers /\ stage \in [Calls \cup Closers -> Stage] /\ request \in [Calls -> Request]
  BY DEF IInv, TypeOK, Request
<1> NoRequest \in Request
  BY NoRequestTyped
<1>a. ASSUME NEW v \in Calls \cup {None}
      PROVE  [request[c] EXCEPT !.held = v] \in Request
  BY DEF Request
<1>b. ASSUME NEW v \in SUBSET Calls
      PROVE  [request[c] EXCEPT !.ahead = v] \in Request
  BY DEF Request
<1>1. CASE Refuse(c)
  BY <1>1 DEF Refuse, Serves, Admitted
<1>2. CASE Resolve(c)
  <2>1. About(c) \in Calls => mcp_clients[About(c)] \in Calls \cup {None}
    BY DEF IInv, TypeOK
  <2> QED
    BY <1>a, <2>1, <1>2 DEF Resolve, Serves, Admitted
<1>3. CASE Prepare(c)
  BY <1>3 DEF Prepare, Serves, Admitted
<1>4. CASE Prepared(c)
  BY <1>4 DEF Prepared
<1>5. CASE PreparationFails(c)
  BY <1>5 DEF PreparationFails
<1>6. CASE Settle(c)
  BY <1>6 DEF Settle
<1>7. CASE Withdraw(c)
  BY <1>7 DEF Withdraw
<1>8. CASE Connect(c)
  BY <1>8 DEF Connect
<1>9. CASE Connected(c)
  BY <1>9 DEF Connected
<1>10. CASE Undo(c)
  BY <1>10 DEF Undo
<1>11. CASE ConnectedFromConfig(c)
  BY <1>11 DEF ConnectedFromConfig
<1>12. CASE ConnectFails(c)
  BY <1>12 DEF ConnectFails
<1>13. CASE GetClient(c)
  BY <1>13 DEF GetClient
<1>14. CASE Disconnect(c)
  BY <1>14 DEF Disconnect
<1>15. CASE CloseManager(c)
  BY <1>15 DEF CloseManager
<1>16. CASE CloseClient(c)
  BY <1>16 DEF CloseClient
<1>17. CASE Fence(c)
  BY <1>b, <1>17 DEF Fence, Serves, Admitted, Queued
<1>18. CASE CloseResource(c)
  BY <1>18 DEF CloseResource
<1>19. CASE Drop(c)
  BY <1>19 DEF Drop, Cancels, Drops
<1> QED
  BY <1>1, <1>2, <1>3, <1>4, <1>5, <1>6, <1>7, <1>8, <1>9, <1>10, <1>11, <1>12, <1>13, <1>14, <1>15, <1>16, <1>17, <1>18, <1>19 DEF CallNext

-----------------------------------------------------------------------------
(* Types.                                                                  *)

\* A step takes from the registry, or adds to it what it is admitted with.
Fills(ids) == Admits(ids) /\ registry' = registry \cup ids
Room ==
  \/ registry' \subseteq registry
  \/ \E x \in Addresses : Fills({x})
  \/ \E x \in Addresses, y \in Addresses : Fills({x, y})

LEMMA RoomKept ==
  ASSUME TypeOK, IsFiniteSet(registry), Room
  PROVE  /\ registry' \subseteq Addresses /\ IsFiniteSet(registry')
         /\ Cardinality(registry') <= MaxResources
<1> USE DEF TypeOK
<1>1. CASE registry' \subseteq registry
  <2>1. IsFiniteSet(registry') /\ Cardinality(registry') <= Cardinality(registry)
    BY <1>1, FS_Subset
  <2>2. Cardinality(registry') \in Nat /\ Cardinality(registry) \in Nat
    BY <2>1, FS_CardinalityType
  <2> QED
    BY <1>1, <2>1, <2>2
<1>2. CASE \E x \in Addresses : Fills({x})
  <2>1. PICK x \in Addresses : Fills({x})
    BY <1>2
  <2>2. IsFiniteSet(registry \cup {x})
    BY FS_AddElement
  <2> QED
    BY <2>1, <2>2 DEF Fills, Admits
<1>3. CASE \E x \in Addresses, y \in Addresses : Fills({x, y})
  <2>1. PICK x \in Addresses, y \in Addresses : Fills({x, y})
    BY <1>3
  <2>2. IsFiniteSet((registry \cup {x}) \cup {y})
    BY FS_AddElement
  <2>3. (registry \cup {x}) \cup {y} = registry \cup {x, y}
    OBVIOUS
  <2> QED
    BY <2>1, <2>2, <2>3 DEF Fills, Admits
<1> QED
  BY <1>1, <1>2, <1>3 DEF Room

LEMMA Places == /\ Calls \subseteq Addresses /\ Managers \subseteq Addresses
                /\ \A c \in Calls : Tool(c) \in Addresses
BY DEF Addresses

\* What a request adds to the registry it has been admitted with.
LEMMA CallRoom ==
  ASSUME IInv, NEW c \in Calls, CallNext(c)
  PROVE  Room
<1> USE DEF Answer, session, addresses, unpublished, aliases, framework
<1>1. CASE Refuse(c)
  <2>1. registry' \subseteq registry
    BY <1>1 DEF Refuse
  <2> QED
    BY <2>1 DEF Room
<1>2. CASE Resolve(c)
  <2>1. registry' \subseteq registry
    BY <1>2 DEF Resolve
  <2> QED
    BY <2>1 DEF Room
<1>3. CASE Prepare(c)
  BY Places, <1>3 DEF Prepare, Room, Fills
<1>4. CASE Prepared(c)
  <2>1. registry' \subseteq registry
    BY <1>4 DEF Prepared
  <2> QED
    BY <2>1 DEF Room
<1>5. CASE PreparationFails(c)
  <2>1. registry' \subseteq registry
    BY <1>5 DEF PreparationFails
  <2> QED
    BY <2>1 DEF Room
<1>6. CASE Settle(c)
  <2>1. registry' \subseteq registry
    BY <1>6 DEF Settle
  <2> QED
    BY <2>1 DEF Room
<1>7. CASE Withdraw(c)
  <2>1. registry' \subseteq registry
    BY <1>7 DEF Withdraw
  <2> QED
    BY <2>1 DEF Room
<1>8. CASE Connect(c)
  <2>1. registry' \subseteq registry
    BY <1>8 DEF Connect
  <2> QED
    BY <2>1 DEF Room
<1>9. CASE Connected(c)
  <2>1. PICK tools \in SUBSET {Tool(c)} :
          \/ registry' = registry
          \/ Fills({c} \cup tools)
    BY <1>9 DEF Connected, Publishes, Fills
  <2>2. CASE tools = {}
    <3>1. {c} \cup tools = {c}
      BY <2>2
    <3> QED
      BY <2>1, <3>1, Places DEF Room
  <2>3. CASE tools = {Tool(c)}
    <3>1. {c} \cup tools = {c, Tool(c)}
      BY <2>3
    <3> QED
      BY <2>1, <3>1, Places DEF Room
  <2> QED
    BY <2>2, <2>3
<1>10. CASE Undo(c)
  <2>1. registry' \subseteq registry
    BY <1>10 DEF Undo
  <2> QED
    BY <2>1 DEF Room
<1>11. CASE ConnectedFromConfig(c)
  <2>1. PICK tools \in SUBSET {Tool(c)} :
          \/ registry' = registry
          \/ Fills(tools)
    BY <1>11 DEF ConnectedFromConfig, Publishes, Fills
  <2>2. tools = {} \/ tools = {Tool(c)}
    OBVIOUS
  <2>3. Fills({}) => registry' \subseteq registry
    BY DEF Fills
  <2> QED
    BY <2>1, <2>2, <2>3, Places DEF Room
<1>12. CASE ConnectFails(c)
  <2>1. registry' \subseteq registry
    BY <1>12 DEF ConnectFails
  <2> QED
    BY <2>1 DEF Room
<1>13. CASE GetClient(c)
  BY Places, <1>13 DEF GetClient, Publishes, Room, Fills
<1>14. CASE Disconnect(c)
  <2>1. registry' \subseteq registry
    BY <1>14 DEF Disconnect, RemovesClients, ForgetsManagers
  <2> QED
    BY <2>1 DEF Room
<1>15. CASE CloseManager(c)
  <2>1. registry' \subseteq registry
    BY <1>15 DEF CloseManager
  <2> QED
    BY <2>1 DEF Room
<1>16. CASE CloseClient(c)
  <2>1. registry' \subseteq registry
    BY <1>16 DEF CloseClient, RemovesClients, ForgetsManagers
  <2> QED
    BY <2>1 DEF Room
<1>17. CASE Fence(c)
  <2>1. registry' \subseteq registry
    BY <1>17 DEF Fence, Fences
  <2> QED
    BY <2>1 DEF Room
<1>18. CASE CloseResource(c)
  <2>1. registry' \subseteq registry
    BY <1>18 DEF CloseResource, RemovesClients, ForgetsManagers
  <2> QED
    BY <2>1 DEF Room
<1>19. CASE Drop(c)
  <2>1. registry' \subseteq registry
    BY <1>19 DEF Drop
  <2> QED
    BY <2>1 DEF Room
<1> QED
  BY <1>1, <1>2, <1>3, <1>4, <1>5, <1>6, <1>7, <1>8, <1>9, <1>10, <1>11, <1>12, <1>13, <1>14, <1>15, <1>16, <1>17, <1>18, <1>19 DEF CallNext

\* The types of what a request changes.
LEMMA CallTypes ==
  ASSUME IInv, NEW c \in Calls, CallNext(c)
  PROVE  /\ known' \subseteq Addresses /\ fenced' \subseteq Addresses /\ mcp' \subseteq Managers
         /\ mcp_preparations' \subseteq Calls /\ mcp_cleanup_debt' \subseteq Calls
         /\ mcp_clients' \in [Calls -> Calls \cup {None}]
         /\ mcp_client_managers' \in [Calls -> Managers \cup {None}]
         /\ retained' \in [Managers -> Calls \cup {None}]
         /\ server' \in [Calls -> {"none", "live", "closed"}]
         /\ faults' \in 0 .. MaxFaults
<1> USE DEF Answer, Goes, Ends, Succeeds, Fails, LetsGo, Started, session, addresses, unpublished, aliases, framework, closes, TypeOK
<1> c \in Addresses /\ Tool(c) \in Addresses /\ Calls \subseteq Addresses
  BY Places
<1> IInv => TypeOK
  BY DEF IInv
<1> HIDE DEF IInv
<1>1. CASE Refuse(c)
  BY <1>1 DEF Refuse
<1>2. CASE Resolve(c)
  BY <1>2 DEF Resolve
<1>3. CASE Prepare(c)
  BY <1>3 DEF Prepare
<1>4. CASE Prepared(c)
  BY <1>4 DEF Prepared
<1>5. CASE PreparationFails(c)
  BY <1>5 DEF PreparationFails
<1>6. CASE Settle(c)
  BY <1>6 DEF Settle
<1>7. CASE Withdraw(c)
  BY <1>7 DEF Withdraw
<1>8. CASE Connect(c)
  BY <1>8 DEF Connect
<1>9. CASE Connected(c)
  <2>1. About(c) \in Managers
    BY <1>9 DEF Connected, Subjects, IInv
  <2>2. known' \subseteq Addresses
    BY <1>9 DEF Connected, Publishes
  <2>3. mcp_clients' \in [Calls -> Calls \cup {None}]
    BY <1>9 DEF Connected, Aliases
  <2>4. mcp_client_managers' \in [Calls -> Managers \cup {None}]
    BY <2>1, <1>9 DEF Connected, Aliases
  <2>5. /\ retained' \in [Managers -> Calls \cup {None}]
        /\ server' \in [Calls -> {"none", "live", "closed"}]
    BY <2>1, <1>9 DEF Connected, Retains
  <2> QED
    BY <2>2, <2>3, <2>4, <2>5, <1>9 DEF Connected
<1>10. CASE Undo(c)
  <2>1. About(c) \in Managers
    BY <1>10 DEF Undo, Subjects, IInv
  <2> QED
    BY <2>1, <1>10 DEF Undo
<1>11. CASE ConnectedFromConfig(c)
  <2>1. About(c) \in Managers
    BY <1>11 DEF ConnectedFromConfig, Subjects, IInv
  <2> QED
    BY <2>1, <1>11 DEF ConnectedFromConfig, Retains, Aliases, Publishes
<1>12. CASE ConnectFails(c)
  BY <1>12 DEF ConnectFails
<1>13. CASE GetClient(c)
  <2>1. About(c) \in Managers
    BY <1>13 DEF GetClient, Subjects, IInv
  <2>2. known' \subseteq Addresses
    BY <1>13 DEF GetClient, Publishes
  <2>3. mcp_clients' \in [Calls -> Calls \cup {None}]
    BY <2>1, <1>13 DEF GetClient, Aliases
  <2>4. mcp_client_managers' \in [Calls -> Managers \cup {None}]
    BY <2>1, <1>13 DEF GetClient, Aliases
  <2> QED
    BY <2>2, <2>3, <2>4, <1>13 DEF GetClient
<1>14. CASE Disconnect(c)
  <2>1. AliasesOf(About(c)) \subseteq Calls
    BY DEF AliasesOf
  <2> QED
    BY <2>1, <1>14 DEF Disconnect, RemovesClients, ForgetsManagers
<1>15. CASE CloseManager(c)
  BY <1>15 DEF CloseManager
<1>16. CASE CloseClient(c)
  BY <1>16 DEF CloseClient, RemovesClients, ForgetsManagers
<1>17. CASE Fence(c)
  <2>1. About(c) \in Addresses
    BY <1>17 DEF Fence, Serves, Admitted, Subjects, IInv, MayAsk, Kinds, OpenKinds, ManagerKinds
  <2> QED
    BY <2>1, <1>17 DEF Fence, Fences
<1>18. CASE CloseResource(c)
  BY <1>18 DEF CloseResource, RemovesClients, ForgetsManagers
<1>19. CASE Drop(c)
  BY <1>19 DEF Drop, Cancels, Drops, Retains
<1> QED
  BY <1>1, <1>2, <1>3, <1>4, <1>5, <1>6, <1>7, <1>8, <1>9, <1>10, <1>11, <1>12, <1>13, <1>14, <1>15, <1>16, <1>17, <1>18, <1>19 DEF CallNext

\* The types of all.
LEMMA CallTypeOK ==
  ASSUME IInv, NEW c \in Calls, CallNext(c)
  PROVE  TypeOK' /\ IsFiniteSet(registry')
<1>1. TypeOK /\ IsFiniteSet(registry)
  BY DEF IInv, Minted
<1>2. /\ registry' \subseteq Addresses /\ IsFiniteSet(registry')
      /\ Cardinality(registry') <= MaxResources
  BY <1>1, CallRoom, RoomKept
<1>3. stage' \in [Calls \cup Closers -> Stage]
  <2>1. stage \in [Calls \cup Closers -> Stage] /\ c \in Calls \cup Closers
    BY <1>1 DEF TypeOK, Stage
  <2>2. stage' = [stage EXCEPT ![c] = stage'[c]] /\ stage'[c] \in Stage
    BY CallMoves
  <2> QED
    BY <2>1, <2>2
<1>4. request' \in [Calls -> Request]
  <2>1. request \in [Calls -> Request]
    BY <1>1 DEF TypeOK, Request
  <2>2. request' = [request EXCEPT ![c] = request'[c]] /\ request'[c] \in Request
    BY CallMoves
  <2> QED
    BY <2>1, <2>2
<1> QED
  BY <1>1, <1>2, <1>3, <1>4, CallMoves, CallTypes DEF TypeOK, Stage, Request

-----------------------------------------------------------------------------
(* What a request makes of the invariant.                                  *)

\* The others stay where they are.
LEMMA Others ==
  ASSUME IInv, NEW c \in Calls, CallNext(c)
  PROVE  /\ \A d \in Calls \ {c} : stage'[d] = stage[d] /\ request'[d] = request[d]
         /\ \A s \in Closers : stage'[s] = stage[s]
         /\ stage[c] # "done"
<1>1. /\ stage \in [Calls \cup Closers -> Stage] /\ c \in Calls \cup Closers
      /\ request \in [Calls -> Request]
  BY DEF IInv, TypeOK, Stage, Request
<1> QED
  BY <1>1, CallMoves

\* How addresses come about.
LEMMA CallMints ==
  ASSUME IInv, NEW x \in Calls, NEW c \in Calls, CallNext(c)
  PROVE  /\ x \in known' => stage'[x] = "done"
         /\ x \notin known' => mcp_clients'[x] = None /\ mcp_client_managers'[x] = None
         /\ x \in mcp_preparations' => x \notin known' /\ stage'[x] \in {"preparing", "settling", "done"}
         /\ x \in mcp_cleanup_debt' => x \notin known' /\ stage'[x] \in {"withdrawing", "done"}
         /\ stage'[x] = "preparing" => x \in mcp_preparations'
<1> USE DEF Answer, Goes, Ends, Succeeds, Fails, LetsGo, Started, session, addresses, unpublished, aliases, framework, closes, Serves, Admitted, Minted
<1> USE DEF InFlight, Phases
<1> TypeOK /\ Minted /\ Subjects
  BY DEF IInv
<1>a. /\ mcp_clients \in [Calls -> Calls \cup {None}]
      /\ mcp_client_managers \in [Calls -> Managers \cup {None}]
      /\ retained \in [Managers -> Calls \cup {None}]
      /\ server \in [Calls -> {"none", "live", "closed"}]
      /\ stage \in [Calls \cup Closers -> Stage] /\ c \in Calls \cup Closers
      /\ request \in [Calls -> Request]
  BY DEF TypeOK, Stage, Request
<1>b. /\ \A d \in Calls \ {c} : stage'[d] = stage[d] /\ request'[d] = request[d]
      /\ \A s \in Closers : stage'[s] = stage[s]
      /\ stage[c] # "done"
  BY Others
<1>1. CASE Refuse(c)
  <2>a. CASE x = c
    BY <1>a, <1>b, <2>a, <1>1 DEF Refuse
  <2>b. CASE x # c
    BY <1>a, <1>b, <2>b, <1>1 DEF Refuse
  <2> QED
    BY <2>a, <2>b
<1>2. CASE Resolve(c)
  <2>a. CASE x = c
    BY <1>a, <1>b, <2>a, <1>2 DEF Resolve
  <2>b. CASE x # c
    BY <1>a, <1>b, <2>b, <1>2 DEF Resolve
  <2> QED
    BY <2>a, <2>b
<1>3. CASE Prepare(c)
  <2>a. CASE x = c
    BY <1>a, <1>b, <2>a, <1>3 DEF Prepare
  <2>b. CASE x # c
    BY <1>a, <1>b, <2>b, <1>3 DEF Prepare
  <2> QED
    BY <2>a, <2>b
<1>4. CASE Prepared(c)
  <2>a. CASE x = c
    BY <1>a, <1>b, <2>a, <1>4 DEF Prepared
  <2>b. CASE x # c
    BY <1>a, <1>b, <2>b, <1>4 DEF Prepared
  <2> QED
    BY <2>a, <2>b
<1>5. CASE PreparationFails(c)
  <2>a. CASE x = c
    BY <1>a, <1>b, <2>a, <1>5 DEF PreparationFails
  <2>b. CASE x # c
    BY <1>a, <1>b, <2>b, <1>5 DEF PreparationFails
  <2> QED
    BY <2>a, <2>b
<1>6. CASE Settle(c)
  <2>a. CASE x = c
    BY <1>a, <1>b, <2>a, <1>6 DEF Settle
  <2>b. CASE x # c
    BY <1>a, <1>b, <2>b, <1>6 DEF Settle
  <2> QED
    BY <2>a, <2>b
<1>7. CASE Withdraw(c)
  <2>a. CASE x = c
    BY <1>a, <1>b, <2>a, <1>7 DEF Withdraw
  <2>b. CASE x # c
    BY <1>a, <1>b, <2>b, <1>7 DEF Withdraw
  <2> QED
    BY <2>a, <2>b
<1>8. CASE Connect(c)
  <2>a. CASE x = c
    BY <1>a, <1>b, <2>a, <1>8 DEF Connect
  <2>b. CASE x # c
    BY <1>a, <1>b, <2>b, <1>8 DEF Connect
  <2> QED
    BY <2>a, <2>b
<1>9. CASE Connected(c)
  <2>a. CASE x = c
    BY <1>a, <1>b, <2>a, <1>9 DEF Connected, Retains, Aliases, Publishes
  <2>b. CASE x # c
    BY <1>a, <1>b, <2>b, <1>9 DEF Connected, Retains, Aliases, Publishes
  <2> QED
    BY <2>a, <2>b
<1>10. CASE Undo(c)
  <2>a. CASE x = c
    BY <1>a, <1>b, <2>a, <1>10 DEF Undo
  <2>b. CASE x # c
    BY <1>a, <1>b, <2>b, <1>10 DEF Undo
  <2> QED
    BY <2>a, <2>b
<1>11. CASE ConnectedFromConfig(c)
  <2>a. CASE x = c
    BY <1>a, <1>b, <2>a, <1>11 DEF ConnectedFromConfig, Retains, Publishes
  <2>b. CASE x # c
    BY <1>a, <1>b, <2>b, <1>11 DEF ConnectedFromConfig, Retains, Publishes
  <2> QED
    BY <2>a, <2>b
<1>12. CASE ConnectFails(c)
  <2>a. CASE x = c
    BY <1>a, <1>b, <2>a, <1>12 DEF ConnectFails
  <2>b. CASE x # c
    BY <1>a, <1>b, <2>b, <1>12 DEF ConnectFails
  <2> QED
    BY <2>a, <2>b
<1>13. CASE GetClient(c)
  <2>a. CASE x = c
    BY <1>a, <1>b, <2>a, <1>13 DEF GetClient, Publishes, Aliases
  <2>b. CASE x # c
    BY <1>a, <1>b, <2>b, <1>13 DEF GetClient, Publishes, Aliases
  <2> QED
    BY <2>a, <2>b
<1>14. CASE Disconnect(c)
  <2>a. CASE x = c
    BY <1>a, <1>b, <2>a, <1>14 DEF Disconnect, RemovesClients, ForgetsManagers
  <2>b. CASE x # c
    BY <1>a, <1>b, <2>b, <1>14 DEF Disconnect, RemovesClients, ForgetsManagers
  <2> QED
    BY <2>a, <2>b
<1>15. CASE CloseManager(c)
  <2>a. CASE x = c
    BY <1>a, <1>b, <2>a, <1>15 DEF CloseManager
  <2>b. CASE x # c
    BY <1>a, <1>b, <2>b, <1>15 DEF CloseManager
  <2> QED
    BY <2>a, <2>b
<1>16. CASE CloseClient(c)
  <2>a. CASE x = c
    BY <1>a, <1>b, <2>a, <1>16 DEF CloseClient, RemovesClients, ForgetsManagers
  <2>b. CASE x # c
    BY <1>a, <1>b, <2>b, <1>16 DEF CloseClient, RemovesClients, ForgetsManagers
  <2> QED
    BY <2>a, <2>b
<1>17. CASE Fence(c)
  <2>a. CASE x = c
    BY <1>a, <1>b, <2>a, <1>17 DEF Fence, Fences
  <2>b. CASE x # c
    BY <1>a, <1>b, <2>b, <1>17 DEF Fence, Fences
  <2> QED
    BY <2>a, <2>b
<1>18. CASE CloseResource(c)
  <2>a. CASE x = c
    BY <1>a, <1>b, <2>a, <1>18 DEF CloseResource, RemovesClients, ForgetsManagers
  <2>b. CASE x # c
    BY <1>a, <1>b, <2>b, <1>18 DEF CloseResource, RemovesClients, ForgetsManagers
  <2> QED
    BY <2>a, <2>b
<1>19. CASE Drop(c)
  <2>a. CASE x = c
    BY <1>a, <1>b, <2>a, <1>19 DEF Drop, Cancels, Drops, Retains
  <2>b. CASE x # c
    BY <1>a, <1>b, <2>b, <1>19 DEF Drop, Cancels, Drops, Retains
  <2> QED
    BY <2>a, <2>b
<1> QED
  BY <1>1, <1>2, <1>3, <1>4, <1>5, <1>6, <1>7, <1>8, <1>9, <1>10, <1>11, <1>12, <1>13, <1>14, <1>15, <1>16, <1>17, <1>18, <1>19 DEF CallNext

\* What has been told or fenced stays so.
LEMMA CallTells ==
  ASSUME IInv, NEW c \in Calls, CallNext(c)
  PROVE  known \subseteq known' /\ fenced \subseteq fenced'
<1> USE DEF Answer, Goes, Ends, Succeeds, Fails, LetsGo, Started, session, addresses, unpublished, aliases, framework, closes, Serves, Admitted
<1>1. CASE Refuse(c)
  BY <1>1 DEF Refuse
<1>2. CASE Resolve(c)
  BY <1>2 DEF Resolve
<1>3. CASE Prepare(c)
  BY <1>3 DEF Prepare
<1>4. CASE Prepared(c)
  BY <1>4 DEF Prepared
<1>5. CASE PreparationFails(c)
  BY <1>5 DEF PreparationFails
<1>6. CASE Settle(c)
  BY <1>6 DEF Settle
<1>7. CASE Withdraw(c)
  BY <1>7 DEF Withdraw
<1>8. CASE Connect(c)
  BY <1>8 DEF Connect
<1>9. CASE Connected(c)
  BY <1>9 DEF Connected, Retains, Aliases, Publishes
<1>10. CASE Undo(c)
  BY <1>10 DEF Undo
<1>11. CASE ConnectedFromConfig(c)
  BY <1>11 DEF ConnectedFromConfig, Retains, Publishes
<1>12. CASE ConnectFails(c)
  BY <1>12 DEF ConnectFails
<1>13. CASE GetClient(c)
  BY <1>13 DEF GetClient, Publishes, Aliases
<1>14. CASE Disconnect(c)
  BY <1>14 DEF Disconnect, RemovesClients, ForgetsManagers
<1>15. CASE CloseManager(c)
  BY <1>15 DEF CloseManager
<1>16. CASE CloseClient(c)
  BY <1>16 DEF CloseClient, RemovesClients, ForgetsManagers
<1>17. CASE Fence(c)
  BY <1>17 DEF Fence, Fences
<1>18. CASE CloseResource(c)
  BY <1>18 DEF CloseResource, RemovesClients, ForgetsManagers
<1>19. CASE Drop(c)
  BY <1>19 DEF Drop, Cancels, Drops, Retains
<1> QED
  BY <1>1, <1>2, <1>3, <1>4, <1>5, <1>6, <1>7, <1>8, <1>9, <1>10, <1>11, <1>12, <1>13, <1>14, <1>15, <1>16, <1>17, <1>18, <1>19 DEF CallNext

LEMMA Past ==
  ASSUME IInv, NEW x \in Calls, NEW c \in Calls, CallNext(c), stage[x] \in {"undoing", "done"}
  PROVE  stage'[x] \in {"undoing", "done"}
<1> USE DEF Answer, Goes, InFlight, Phases
<1>1. stage \in [Calls \cup Closers -> Stage] /\ c \in Calls \cup Closers
  BY DEF IInv, TypeOK, Stage
<1>2. CASE x # c
  BY <1>2, Others
<1>3. CASE x = c
  <2>1. stage[c] = "undoing"
    BY <1>3, Others
  <2>2. Undo(c) \/ Drop(c)
    BY <2>1 DEF CallNext, Refuse, Resolve, Serves, Admitted, Prepare, Prepared, PreparationFails, Settle,
       Withdraw, Connect, Connected, ConnectedFromConfig, ConnectFails, GetClient, Disconnect,
       CloseManager, CloseClient, Fence, CloseResource
  <2>3. stage' = [stage EXCEPT ![c] = "done"]
    BY <2>2 DEF Undo, Drop
  <2> QED
    BY <1>1, <1>3, <2>3
<1> QED
  BY <1>2, <1>3

\* An alias stays what it is, or goes, or the request mints it.
LEMMA ClientsMove ==
  ASSUME IInv, NEW x \in Calls, NEW c \in Calls, CallNext(c)
  PROVE  \/ mcp_clients'[x] \in {None, mcp_clients[x]}
         \/ x = c /\ mcp_clients'[x] = c /\ stage'[c] = "done"
         \/ x = c /\ \E m \in Managers : retained[m] # None /\ mcp_clients'[x] = retained[m]
<1> USE DEF Answer, Goes, Ends, Succeeds, Fails, LetsGo, Started, session, addresses, unpublished, aliases, framework, closes, Serves, Admitted
<1> USE DEF InFlight, Phases
<1> TypeOK /\ Minted /\ Subjects
  BY DEF IInv
<1>a. /\ mcp_clients \in [Calls -> Calls \cup {None}]
      /\ mcp_client_managers \in [Calls -> Managers \cup {None}]
      /\ retained \in [Managers -> Calls \cup {None}]
      /\ server \in [Calls -> {"none", "live", "closed"}]
      /\ stage \in [Calls \cup Closers -> Stage] /\ c \in Calls \cup Closers
      /\ request \in [Calls -> Request]
  BY DEF TypeOK, Stage, Request
<1>b. /\ \A d \in Calls \ {c} : stage'[d] = stage[d] /\ request'[d] = request[d]
      /\ \A s \in Closers : stage'[s] = stage[s]
      /\ stage[c] # "done"
  BY Others
<1>1. CASE Refuse(c)
  BY <1>a, <1>b, <1>1 DEF Refuse
<1>2. CASE Resolve(c)
  BY <1>a, <1>b, <1>2 DEF Resolve
<1>3. CASE Prepare(c)
  BY <1>a, <1>b, <1>3 DEF Prepare
<1>4. CASE Prepared(c)
  <2>a. CASE x = c
    BY <1>a, <1>b, <2>a, <1>4 DEF Prepared
  <2>b. CASE x # c
    BY <1>a, <1>b, <2>b, <1>4 DEF Prepared
  <2> QED
    BY <2>a, <2>b
<1>5. CASE PreparationFails(c)
  BY <1>a, <1>b, <1>5 DEF PreparationFails
<1>6. CASE Settle(c)
  BY <1>a, <1>b, <1>6 DEF Settle
<1>7. CASE Withdraw(c)
  BY <1>a, <1>b, <1>7 DEF Withdraw
<1>8. CASE Connect(c)
  BY <1>a, <1>b, <1>8 DEF Connect
<1>9. CASE Connected(c)
  <2>a. CASE x = c
    BY <1>a, <1>b, <2>a, <1>9 DEF Connected, Retains, Aliases, Publishes
  <2>b. CASE x # c
    BY <1>a, <1>b, <2>b, <1>9 DEF Connected, Retains, Aliases, Publishes
  <2> QED
    BY <2>a, <2>b
<1>10. CASE Undo(c)
  BY <1>a, <1>b, <1>10 DEF Undo
<1>11. CASE ConnectedFromConfig(c)
  BY <1>a, <1>b, <1>11 DEF ConnectedFromConfig, Retains, Publishes
<1>12. CASE ConnectFails(c)
  BY <1>a, <1>b, <1>12 DEF ConnectFails
<1>13. CASE GetClient(c)
  <2>1. About(c) \in Managers
    BY <1>13 DEF GetClient, Subjects, ManagerKinds
  <2>a. CASE x = c
    BY <1>a, <1>b, <2>a, <1>13, <2>1 DEF GetClient, Publishes, Aliases
  <2>b. CASE x # c
    BY <1>a, <1>b, <2>b, <1>13, <2>1 DEF GetClient, Publishes, Aliases
  <2> QED
    BY <2>a, <2>b
<1>14. CASE Disconnect(c)
  BY <1>a, <1>b, <1>14 DEF Disconnect, RemovesClients, ForgetsManagers
<1>15. CASE CloseManager(c)
  BY <1>a, <1>b, <1>15 DEF CloseManager
<1>16. CASE CloseClient(c)
  BY <1>a, <1>b, <1>16 DEF CloseClient, RemovesClients, ForgetsManagers
<1>17. CASE Fence(c)
  BY <1>a, <1>b, <1>17 DEF Fence, Fences
<1>18. CASE CloseResource(c)
  BY <1>a, <1>b, <1>18 DEF CloseResource, RemovesClients, ForgetsManagers
<1>19. CASE Drop(c)
  BY <1>a, <1>b, <1>19 DEF Drop, Cancels, Drops, Retains
<1> QED
  BY <1>1, <1>2, <1>3, <1>4, <1>5, <1>6, <1>7, <1>8, <1>9, <1>10, <1>11, <1>12, <1>13, <1>14, <1>15, <1>16, <1>17, <1>18, <1>19 DEF CallNext

\* So does the server of a manager.
LEMMA RetainedMoves ==
  ASSUME IInv, NEW m \in Managers, NEW c \in Calls, CallNext(c)
  PROVE  \/ retained'[m] \in {None, retained[m]}
         \/ retained'[m] = c /\ stage'[c] \in {"undoing", "done"}
<1> USE DEF Answer, Goes, Ends, Succeeds, Fails, LetsGo, Started, session, addresses, unpublished, aliases, framework, closes, Serves, Admitted
<1> USE DEF InFlight, Phases
<1> TypeOK /\ Minted /\ Subjects
  BY DEF IInv
<1>a. /\ mcp_clients \in [Calls -> Calls \cup {None}]
      /\ mcp_client_managers \in [Calls -> Managers \cup {None}]
      /\ retained \in [Managers -> Calls \cup {None}]
      /\ server \in [Calls -> {"none", "live", "closed"}]
      /\ stage \in [Calls \cup Closers -> Stage] /\ c \in Calls \cup Closers
      /\ request \in [Calls -> Request]
  BY DEF TypeOK, Stage, Request
<1>b. /\ \A d \in Calls \ {c} : stage'[d] = stage[d] /\ request'[d] = request[d]
      /\ \A s \in Closers : stage'[s] = stage[s]
      /\ stage[c] # "done"
  BY Others
<1>1. CASE Refuse(c)
  BY <1>a, <1>b, <1>1 DEF Refuse
<1>2. CASE Resolve(c)
  BY <1>a, <1>b, <1>2 DEF Resolve
<1>3. CASE Prepare(c)
  BY <1>a, <1>b, <1>3 DEF Prepare
<1>4. CASE Prepared(c)
  BY <1>a, <1>b, <1>4 DEF Prepared
<1>5. CASE PreparationFails(c)
  BY <1>a, <1>b, <1>5 DEF PreparationFails
<1>6. CASE Settle(c)
  BY <1>a, <1>b, <1>6 DEF Settle
<1>7. CASE Withdraw(c)
  BY <1>a, <1>b, <1>7 DEF Withdraw
<1>8. CASE Connect(c)
  BY <1>a, <1>b, <1>8 DEF Connect
<1>9. CASE Connected(c)
  BY <1>a, <1>b, <1>9 DEF Connected, Retains
<1>10. CASE Undo(c)
  BY <1>a, <1>b, <1>10 DEF Undo
<1>11. CASE ConnectedFromConfig(c)
  BY <1>a, <1>b, <1>11 DEF ConnectedFromConfig, Retains
<1>12. CASE ConnectFails(c)
  BY <1>a, <1>b, <1>12 DEF ConnectFails
<1>13. CASE GetClient(c)
  BY <1>a, <1>b, <1>13 DEF GetClient, Publishes, Aliases
<1>14. CASE Disconnect(c)
  BY <1>a, <1>b, <1>14 DEF Disconnect, RemovesClients, ForgetsManagers
<1>15. CASE CloseManager(c)
  BY <1>a, <1>b, <1>15 DEF CloseManager
<1>16. CASE CloseClient(c)
  BY <1>a, <1>b, <1>16 DEF CloseClient, RemovesClients, ForgetsManagers
<1>17. CASE Fence(c)
  BY <1>a, <1>b, <1>17 DEF Fence, Fences
<1>18. CASE CloseResource(c)
  BY <1>a, <1>b, <1>18 DEF CloseResource, RemovesClients, ForgetsManagers
<1>19. CASE Drop(c)
  BY <1>a, <1>b, <1>19 DEF Drop, Cancels, Drops, Retains
<1> QED
  BY <1>1, <1>2, <1>3, <1>4, <1>5, <1>6, <1>7, <1>8, <1>9, <1>10, <1>11, <1>12, <1>13, <1>14, <1>15, <1>16, <1>17, <1>18, <1>19 DEF CallNext

LEMMA CallMinted ==
  ASSUME IInv, NEW c \in Calls, CallNext(c)
  PROVE  Minted'
<1> Minted /\ TypeOK
  BY DEF IInv
<1>1. ASSUME NEW x \in Calls, mcp_clients'[x] # None
      PROVE  stage'[mcp_clients'[x]] \in {"undoing", "done"}
  <2>1. CASE mcp_clients'[x] = mcp_clients[x]
    <3>1. mcp_clients[x] \in Calls /\ stage[mcp_clients[x]] \in {"undoing", "done"}
      BY <1>1, <2>1 DEF TypeOK, Minted
    <3> QED
      BY <2>1, <3>1, Past
  <2>2. CASE mcp_clients'[x] = c /\ stage'[c] = "done"
    BY <2>2
  <2>3. ASSUME NEW m \in Managers, retained[m] # None, mcp_clients'[x] = retained[m]
        PROVE  stage'[mcp_clients'[x]] \in {"undoing", "done"}
    <3>1. retained[m] \in Calls /\ stage[retained[m]] \in {"undoing", "done"}
      BY <2>3 DEF TypeOK, Minted
    <3> QED
      BY <2>3, <3>1, Past
  <2> QED
    BY <1>1, <2>1, <2>2, <2>3, ClientsMove
<1>2. ASSUME NEW m \in Managers, retained'[m] # None
      PROVE  stage'[retained'[m]] \in {"undoing", "done"}
  <2>1. CASE retained'[m] = retained[m]
    <3>1. retained[m] \in Calls /\ stage[retained[m]] \in {"undoing", "done"}
      BY <1>2, <2>1 DEF TypeOK, Minted
    <3> QED
      BY <2>1, <3>1, Past
  <2> QED
    BY <1>2, <2>1, RetainedMoves
<1> QED
  BY <1>1, <1>2, CallMints, CallTypeOK DEF Minted

\* What may be asked may be asked later.
LEMMA MayStillAsk ==
  ASSUME NEW k, NEW id, MayAsk(k, id), k \in Kinds, known \subseteq known'
  PROVE  MayAsk(k, id)'
<1>1. CASE k \in OpenKinds
  BY <1>1 DEF MayAsk, OpenKinds, ManagerKinds
<1>2. CASE k \in ManagerKinds
  BY <1>2 DEF MayAsk, OpenKinds, ManagerKinds
<1>3. CASE k = "client.close"
  BY <1>3 DEF MayAsk, OpenKinds, ManagerKinds
<1>4. CASE k = "resource.close"
  BY <1>4 DEF MayAsk, OpenKinds, ManagerKinds
<1> QED
  BY <1>1, <1>2, <1>3, <1>4 DEF Kinds

LEMMA OthersSubjects ==
  ASSUME IInv, NEW x \in Calls, NEW c \in Calls, CallNext(c), x # c
  PROVE  /\ stage'[x] = "arriving" => request'[x].kind \in Kinds /\ MayAsk(request[x].kind, About(x))'
         /\ stage'[x] = "resolved" =>
              \/ request'[x].kind \in ManagerKinds /\ request'[x].about \in Managers
              \/ /\ request'[x].kind = "client.close" /\ request'[x].about \in Calls \cap known'
                 /\ mcp_clients'[request'[x].about] \in {None, request'[x].held}
         /\ stage'[x] \in {"connecting", "undoing"} => request'[x].about \in Managers
         /\ stage'[x] = "fenced" => request'[x].about \in known' \cap fenced'
<1>1. stage'[x] = stage[x] /\ request'[x] = request[x]
  BY Others
<1>2. known \subseteq known' /\ fenced \subseteq fenced'
  BY CallTells
<1>3. Subjects /\ Minted
  BY DEF IInv
<1>4. stage[x] = "arriving" => request'[x].kind \in Kinds /\ MayAsk(request[x].kind, About(x))'
  <2> DEFINE k == request[x].kind
  <2> DEFINE id == About(x)
  <2>2. ASSUME stage[x] = "arriving"
        PROVE  k \in Kinds /\ MayAsk(k, id)
    BY <1>3, <2>2 DEF Subjects
  <2>3. About(x)' = id
    BY <1>1 DEF About
  <2> QED
    BY <1>1, <1>2, <2>2, <2>3, MayStillAsk DEF MayAsk
<1>5. ASSUME About(x) \in Calls \cap known
      PROVE  mcp_clients'[About(x)] \in {None, mcp_clients[About(x)]}
  <2>1. stage[About(x)] = "done" /\ About(x) # c
    BY <1>3, <1>5, Others DEF Minted
  <2> QED
    BY <1>5, <2>1, ClientsMove
<1> QED
  BY <1>1, <1>2, <1>3, <1>4, <1>5 DEF Subjects, About

LEMMA OwnSubject ==
  ASSUME IInv, NEW c \in Calls, CallNext(c)
  PROVE  /\ stage'[c] = "arriving" => request'[c].kind \in Kinds /\ MayAsk(request[c].kind, About(c))'
         /\ stage'[c] = "resolved" =>
              \/ request'[c].kind \in ManagerKinds /\ request'[c].about \in Managers
              \/ /\ request'[c].kind = "client.close" /\ request'[c].about \in Calls \cap known'
                 /\ mcp_clients'[request'[c].about] \in {None, request'[c].held}
         /\ stage'[c] \in {"connecting", "undoing"} => request'[c].about \in Managers
         /\ stage'[c] = "fenced" => request'[c].about \in known' \cap fenced'
<1> USE DEF Answer, Goes, Ends, Succeeds, Fails, LetsGo, Started, session, addresses, unpublished, aliases, framework, closes, Serves, Admitted
<1> USE DEF InFlight, Phases
<1> TypeOK /\ Minted /\ Subjects
  BY DEF IInv
<1>a. /\ mcp_clients \in [Calls -> Calls \cup {None}]
      /\ mcp_client_managers \in [Calls -> Managers \cup {None}]
      /\ retained \in [Managers -> Calls \cup {None}]
      /\ server \in [Calls -> {"none", "live", "closed"}]
      /\ stage \in [Calls \cup Closers -> Stage] /\ c \in Calls \cup Closers
      /\ request \in [Calls -> Request]
  BY DEF TypeOK, Stage, Request
<1>b. /\ \A d \in Calls \ {c} : stage'[d] = stage[d] /\ request'[d] = request[d]
      /\ \A s \in Closers : stage'[s] = stage[s]
      /\ stage[c] # "done"
  BY Others
<1>1. CASE Refuse(c)
  BY <1>a, <1>1 DEF Refuse
<1>2. CASE Resolve(c)
  <2>1. \/ request[c].kind \in ManagerKinds /\ About(c) \in Managers
        \/ request[c].kind = "client.close" /\ About(c) \in known \cap Calls
    BY <1>2 DEF Resolve, Subjects, MayAsk, OpenKinds, ManagerKinds
  <2>2. CASE Resolves(About(c))
    <3>1. /\ stage'[c] = "resolved" /\ UNCHANGED <<known, mcp_clients>>
          /\ request'[c].kind = request[c].kind /\ request'[c].about = About(c)
          /\ About(c) \in Calls => request'[c].held = mcp_clients[About(c)]
      BY <1>a, <2>2, <1>2 DEF Resolve, Request, About
    <3> QED
      BY <2>1, <3>1
  <2>3. CASE ~Resolves(About(c))
    BY <1>a, <2>3, <1>2 DEF Resolve
  <2> QED
    BY <2>2, <2>3
<1>3. CASE Prepare(c)
  BY <1>a, <1>3 DEF Prepare
<1>4. CASE Prepared(c)
  BY <1>a, <1>4 DEF Prepared
<1>5. CASE PreparationFails(c)
  BY <1>a, <1>5 DEF PreparationFails
<1>6. CASE Settle(c)
  BY <1>a, <1>6 DEF Settle
<1>7. CASE Withdraw(c)
  BY <1>a, <1>7 DEF Withdraw
<1>8. CASE Connect(c)
  <2>1. About(c) \in Managers
    BY <1>8 DEF Connect, Subjects, ManagerKinds
  <2> QED
    BY <1>a, <2>1, <1>8 DEF Connect, About
<1>9. CASE Connected(c)
  <2>1. About(c) \in Managers
    BY <1>9 DEF Connected, Subjects
  <2>2. stage'[c] = "done" \/ (stage'[c] = "undoing" /\ request'[c] = request[c])
    BY <1>a, <1>9 DEF Connected
  <2> QED
    BY <2>1, <2>2 DEF About
<1>10. CASE Undo(c)
  BY <1>a, <1>10 DEF Undo
<1>11. CASE ConnectedFromConfig(c)
  BY <1>a, <1>11 DEF ConnectedFromConfig, Retains, Publishes
<1>12. CASE ConnectFails(c)
  BY <1>a, <1>12 DEF ConnectFails
<1>13. CASE GetClient(c)
  BY <1>a, <1>13 DEF GetClient, Publishes, Aliases
<1>14. CASE Disconnect(c)
  BY <1>a, <1>14 DEF Disconnect, RemovesClients, ForgetsManagers
<1>15. CASE CloseManager(c)
  BY <1>a, <1>15 DEF CloseManager
<1>16. CASE CloseClient(c)
  BY <1>a, <1>16 DEF CloseClient, RemovesClients, ForgetsManagers
<1>17. CASE Fence(c)
  <2>1. CASE IsClosed(About(c))
    BY <1>a, <2>1, <1>17 DEF Fence
  <2>2. CASE ~IsClosed(About(c))
    <3>1. About(c) \in known
      BY <1>17 DEF Fence, Subjects, MayAsk, OpenKinds, ManagerKinds
    <3>2. /\ stage'[c] = "fenced" /\ request'[c].about = About(c)
          /\ known' = known /\ About(c) \in fenced'
      BY <1>a, <2>2, <1>17 DEF Fence, Fences, Request, About
    <3> QED
      BY <3>1, <3>2
  <2> QED
    BY <2>1, <2>2
<1>18. CASE CloseResource(c)
  BY <1>a, <1>18 DEF CloseResource, RemovesClients, ForgetsManagers
<1>19. CASE Drop(c)
  BY <1>a, <1>19 DEF Drop, Cancels, Drops, Retains
<1> QED
  BY <1>1, <1>2, <1>3, <1>4, <1>5, <1>6, <1>7, <1>8, <1>9, <1>10, <1>11, <1>12, <1>13, <1>14, <1>15, <1>16, <1>17, <1>18, <1>19 DEF CallNext

LEMMA CallSubjects ==
  ASSUME IInv, NEW c \in Calls, CallNext(c)
  PROVE  Subjects'
<1> SUFFICES ASSUME NEW x \in Calls
             PROVE  /\ stage'[x] = "arriving" => request'[x].kind \in Kinds /\ MayAsk(request[x].kind, About(x))'
                    /\ stage'[x] = "resolved" =>
                         \/ request'[x].kind \in ManagerKinds /\ request'[x].about \in Managers
                         \/ /\ request'[x].kind = "client.close" /\ request'[x].about \in Calls \cap known'
                            /\ mcp_clients'[request'[x].about] \in {None, request'[x].held}
                    /\ stage'[x] \in {"connecting", "undoing"} => request'[x].about \in Managers
                    /\ stage'[x] = "fenced" => request'[x].about \in known' \cap fenced'
  BY DEF Subjects, About
<1> QED
  BY OwnSubject, OthersSubjects

\* Nobody is at the lock of what is just being closed, nor two at one.
LEMMA Undisturbed ==
  ASSUME IInv, NEW x \in Calls, stage[x] \in AtLock, NEW c \in Calls,
         stage[c] = "fenced", AtTheLock(c)
  PROVE  About(x) # About(c)
<1> SUFFICES ASSUME About(x) = About(c)
             PROVE  FALSE
  OBVIOUS
<1>1. x \in request[c].ahead
  BY DEF IInv, Locked
<1>2. stage[x] = "done"
  BY <1>1 DEF AtTheLock
<1> QED
  BY <1>2 DEF AtLock

LEMMA OthersOnRecord ==
  ASSUME IInv, NEW x \in Calls, stage[x] \in AtLock, About(x) \in Managers,
         NEW c \in Calls, CallNext(c)
  PROVE  About(x) \in mcp'
<1> USE DEF Answer, Goes, Ends, Succeeds, Fails, LetsGo, Started, session, addresses, unpublished, aliases, framework, closes, Serves, Admitted
<1> USE DEF InFlight, Phases
<1> TypeOK /\ Minted /\ Subjects
  BY DEF IInv
<1>a. /\ mcp_clients \in [Calls -> Calls \cup {None}]
      /\ mcp_client_managers \in [Calls -> Managers \cup {None}]
      /\ retained \in [Managers -> Calls \cup {None}]
      /\ server \in [Calls -> {"none", "live", "closed"}]
      /\ stage \in [Calls \cup Closers -> Stage] /\ c \in Calls \cup Closers
      /\ request \in [Calls -> Request]
  BY DEF TypeOK, Stage, Request
<1>b. /\ \A d \in Calls \ {c} : stage'[d] = stage[d] /\ request'[d] = request[d]
      /\ \A s \in Closers : stage'[s] = stage[s]
      /\ stage[c] # "done"
  BY Others
<1> Locked
  BY DEF IInv
<1>d. About(x) \in mcp
  BY DEF Locked
<1>1. CASE Refuse(c)
  BY <1>d, <1>1 DEF Refuse
<1>2. CASE Resolve(c)
  BY <1>d, <1>2 DEF Resolve
<1>3. CASE Prepare(c)
  BY <1>d, <1>3 DEF Prepare
<1>4. CASE Prepared(c)
  BY <1>d, <1>4 DEF Prepared
<1>5. CASE PreparationFails(c)
  BY <1>d, <1>5 DEF PreparationFails
<1>6. CASE Settle(c)
  BY <1>d, <1>6 DEF Settle
<1>7. CASE Withdraw(c)
  BY <1>d, <1>7 DEF Withdraw
<1>8. CASE Connect(c)
  BY <1>d, <1>8 DEF Connect
<1>9. CASE Connected(c)
  BY <1>d, <1>9 DEF Connected, Retains, Aliases, Publishes
<1>10. CASE Undo(c)
  BY <1>d, <1>10 DEF Undo
<1>11. CASE ConnectedFromConfig(c)
  BY <1>d, <1>11 DEF ConnectedFromConfig, Retains, Publishes
<1>12. CASE ConnectFails(c)
  BY <1>d, <1>12 DEF ConnectFails
<1>13. CASE GetClient(c)
  BY <1>d, <1>13 DEF GetClient, Publishes, Aliases
<1>14. CASE Disconnect(c)
  BY <1>d, <1>14 DEF Disconnect, RemovesClients, ForgetsManagers
<1>15. CASE CloseManager(c)
  BY <1>d, <1>15 DEF CloseManager
<1>16. CASE CloseClient(c)
  BY <1>d, <1>16 DEF CloseClient, RemovesClients, ForgetsManagers
<1>17. CASE Fence(c)
  BY <1>d, <1>17 DEF Fence, Fences
<1>18. CASE CloseResource(c)
  BY <1>d, <1>18, Undisturbed DEF CloseResource, RemovesClients, ForgetsManagers
<1>19. CASE Drop(c)
  BY <1>d, <1>19 DEF Drop, Cancels, Drops, Retains
<1> QED
  BY <1>1, <1>2, <1>3, <1>4, <1>5, <1>6, <1>7, <1>8, <1>9, <1>10, <1>11, <1>12, <1>13, <1>14, <1>15, <1>16, <1>17, <1>18, <1>19 DEF CallNext

LEMMA OwnOnRecord ==
  ASSUME IInv, NEW c \in Calls, CallNext(c)
  PROVE  stage'[c] \in AtLock /\ request'[c].about \in Managers => request'[c].about \in mcp'
<1> USE DEF Answer, Goes, Ends, Succeeds, Fails, LetsGo, Started, session, addresses, unpublished, aliases, framework, closes, Serves, Admitted
<1> USE DEF InFlight, Phases
<1> TypeOK /\ Minted /\ Subjects
  BY DEF IInv
<1>a. /\ mcp_clients \in [Calls -> Calls \cup {None}]
      /\ mcp_client_managers \in [Calls -> Managers \cup {None}]
      /\ retained \in [Managers -> Calls \cup {None}]
      /\ server \in [Calls -> {"none", "live", "closed"}]
      /\ stage \in [Calls \cup Closers -> Stage] /\ c \in Calls \cup Closers
      /\ request \in [Calls -> Request]
  BY DEF TypeOK, Stage, Request
<1>b. /\ \A d \in Calls \ {c} : stage'[d] = stage[d] /\ request'[d] = request[d]
      /\ \A s \in Closers : stage'[s] = stage[s]
      /\ stage[c] # "done"
  BY Others
<1> Locked
  BY DEF IInv
<1>1. CASE Refuse(c)
  <2>1. stage'[c] = "done"
    BY <1>a, <1>1 DEF Refuse
  <2> QED
    BY <2>1 DEF AtLock
<1>2. CASE Resolve(c)
  <2>1. CASE Resolves(About(c))
    <3>1. request'[c].about = About(c) /\ About(c) \in registry
      BY <1>a, <2>1, <1>2 DEF Resolve, Resolves, Request, About
    <3>2. About(c) \in Managers => About(c) \in mcp
      BY <3>1, <1>2 DEF Resolve, IInv, Owned, TypeOK, Aliased, Unpublished
    <3> QED
      BY <3>1, <3>2, <1>2 DEF Resolve
  <2>2. CASE ~Resolves(About(c))
    BY <1>a, <2>2, <1>2 DEF Resolve, AtLock
  <2> QED
    BY <2>1, <2>2
<1>3. CASE Prepare(c)
  <2>1. stage'[c] \notin AtLock
    BY <1>a, <1>3 DEF Prepare, AtLock
  <2> QED
    BY <2>1
<1>4. CASE Prepared(c)
  <2>1. stage'[c] \notin AtLock
    BY <1>a, <1>4 DEF Prepared, AtLock
  <2> QED
    BY <2>1
<1>5. CASE PreparationFails(c)
  <2>1. stage'[c] \notin AtLock
    BY <1>a, <1>5 DEF PreparationFails, AtLock
  <2> QED
    BY <2>1
<1>6. CASE Settle(c)
  <2>1. stage'[c] = "done"
    BY <1>a, <1>6 DEF Settle
  <2> QED
    BY <2>1 DEF AtLock
<1>7. CASE Withdraw(c)
  <2>1. stage'[c] = "done"
    BY <1>a, <1>7 DEF Withdraw
  <2> QED
    BY <2>1 DEF AtLock
<1>8. CASE Connect(c)
  BY <1>a, <1>8 DEF Connect, Locked, AtLock, About
<1>9. CASE Connected(c)
  <2>1. stage'[c] = "done" \/ (stage'[c] = "undoing" /\ request'[c] = request[c])
    BY <1>a, <1>9 DEF Connected
  <2> QED
    BY <2>1, <1>9 DEF Connected, Locked, AtLock, About
<1>10. CASE Undo(c)
  <2>1. stage'[c] = "done"
    BY <1>a, <1>10 DEF Undo
  <2> QED
    BY <2>1 DEF AtLock
<1>11. CASE ConnectedFromConfig(c)
  <2>1. stage'[c] = "done"
    BY <1>a, <1>11 DEF ConnectedFromConfig
  <2> QED
    BY <2>1 DEF AtLock
<1>12. CASE ConnectFails(c)
  <2>1. stage'[c] = "done"
    BY <1>a, <1>12 DEF ConnectFails
  <2> QED
    BY <2>1 DEF AtLock
<1>13. CASE GetClient(c)
  <2>1. stage'[c] = "done"
    BY <1>a, <1>13 DEF GetClient
  <2> QED
    BY <2>1 DEF AtLock
<1>14. CASE Disconnect(c)
  <2>1. stage'[c] = "done"
    BY <1>a, <1>14 DEF Disconnect
  <2> QED
    BY <2>1 DEF AtLock
<1>15. CASE CloseManager(c)
  <2>1. stage'[c] = "done"
    BY <1>a, <1>15 DEF CloseManager
  <2> QED
    BY <2>1 DEF AtLock
<1>16. CASE CloseClient(c)
  <2>1. stage'[c] = "done"
    BY <1>a, <1>16 DEF CloseClient
  <2> QED
    BY <2>1 DEF AtLock
<1>17. CASE Fence(c)
  <2>1. stage'[c] \in {"done", "fenced"}
    BY <1>a, <1>17 DEF Fence
  <2> QED
    BY <2>1 DEF AtLock
<1>18. CASE CloseResource(c)
  <2>1. stage'[c] = "done"
    BY <1>a, <1>18 DEF CloseResource
  <2> QED
    BY <2>1 DEF AtLock
<1>19. CASE Drop(c)
  <2>1. stage'[c] = "done"
    BY <1>a, <1>19 DEF Drop
  <2> QED
    BY <2>1 DEF AtLock
<1> QED
  BY <1>1, <1>2, <1>3, <1>4, <1>5, <1>6, <1>7, <1>8, <1>9, <1>10, <1>11, <1>12, <1>13, <1>14, <1>15, <1>16, <1>17, <1>18, <1>19 DEF CallNext

\* What a step does to a request, for the lock.
Steps(c) ==
  \/ stage'[c] \notin AtLock \cup {"fenced"}
  \/ /\ stage[c] = "arriving" /\ stage'[c] = "resolved" /\ About(c) \notin fenced
     /\ request'[c].about = About(c)
  \/ /\ stage[c] = "resolved" /\ stage'[c] = "connecting" /\ Free(About(c))
     /\ request'[c] = request[c]
  \/ stage[c] = "connecting" /\ stage'[c] = "undoing" /\ request'[c] = request[c]
  \/ /\ stage[c] = "arriving" /\ stage'[c] = "fenced" /\ Queued(About(c)) \subseteq request'[c].ahead
     /\ request'[c].about = About(c)

LEMMA CallSteps ==
  ASSUME IInv, NEW c \in Calls, CallNext(c)
  PROVE  Steps(c)
<1> USE DEF Answer, Goes, Ends, Succeeds, Fails, LetsGo, Started, session, addresses, unpublished, aliases, framework, closes, Serves, Admitted
<1> USE DEF Steps
<1> USE DEF InFlight, Phases
<1> TypeOK /\ Minted /\ Subjects
  BY DEF IInv
<1>a. /\ mcp_clients \in [Calls -> Calls \cup {None}]
      /\ mcp_client_managers \in [Calls -> Managers \cup {None}]
      /\ retained \in [Managers -> Calls \cup {None}]
      /\ server \in [Calls -> {"none", "live", "closed"}]
      /\ stage \in [Calls \cup Closers -> Stage] /\ c \in Calls \cup Closers
      /\ request \in [Calls -> Request]
  BY DEF TypeOK, Stage, Request
<1>b. /\ \A d \in Calls \ {c} : stage'[d] = stage[d] /\ request'[d] = request[d]
      /\ \A s \in Closers : stage'[s] = stage[s]
      /\ stage[c] # "done"
  BY Others
<1> Locked
  BY DEF IInv
<1>1. CASE Refuse(c)
  <2>1. stage'[c] \notin AtLock \cup {"fenced"}
    BY <1>a, <1>1 DEF Refuse, AtLock
  <2> QED
    BY <2>1
<1>2. CASE Resolve(c)
  <2>1. CASE Resolves(About(c))
    BY <1>a, <2>1, <1>2 DEF Resolve, Resolves, Request, About
  <2>2. CASE ~Resolves(About(c))
    BY <1>a, <2>2, <1>2 DEF Resolve, AtLock
  <2> QED
    BY <2>1, <2>2
<1>3. CASE Prepare(c)
  <2>1. stage'[c] \notin AtLock \cup {"fenced"}
    BY <1>a, <1>3 DEF Prepare, AtLock
  <2> QED
    BY <2>1
<1>4. CASE Prepared(c)
  <2>1. stage'[c] \notin AtLock \cup {"fenced"}
    BY <1>a, <1>4 DEF Prepared, AtLock
  <2> QED
    BY <2>1
<1>5. CASE PreparationFails(c)
  <2>1. stage'[c] \notin AtLock \cup {"fenced"}
    BY <1>a, <1>5 DEF PreparationFails, AtLock
  <2> QED
    BY <2>1
<1>6. CASE Settle(c)
  <2>1. stage'[c] \notin AtLock \cup {"fenced"}
    BY <1>a, <1>6 DEF Settle, AtLock
  <2> QED
    BY <2>1
<1>7. CASE Withdraw(c)
  <2>1. stage'[c] \notin AtLock \cup {"fenced"}
    BY <1>a, <1>7 DEF Withdraw, AtLock
  <2> QED
    BY <2>1
<1>8. CASE Connect(c)
  BY <1>a, <1>8 DEF Connect
<1>9. CASE Connected(c)
  BY <1>a, <1>9 DEF Connected, AtLock
<1>10. CASE Undo(c)
  <2>1. stage'[c] \notin AtLock \cup {"fenced"}
    BY <1>a, <1>10 DEF Undo, AtLock
  <2> QED
    BY <2>1
<1>11. CASE ConnectedFromConfig(c)
  <2>1. stage'[c] \notin AtLock \cup {"fenced"}
    BY <1>a, <1>11 DEF ConnectedFromConfig, AtLock
  <2> QED
    BY <2>1
<1>12. CASE ConnectFails(c)
  <2>1. stage'[c] \notin AtLock \cup {"fenced"}
    BY <1>a, <1>12 DEF ConnectFails, AtLock
  <2> QED
    BY <2>1
<1>13. CASE GetClient(c)
  <2>1. stage'[c] \notin AtLock \cup {"fenced"}
    BY <1>a, <1>13 DEF GetClient, AtLock
  <2> QED
    BY <2>1
<1>14. CASE Disconnect(c)
  <2>1. stage'[c] \notin AtLock \cup {"fenced"}
    BY <1>a, <1>14 DEF Disconnect, AtLock
  <2> QED
    BY <2>1
<1>15. CASE CloseManager(c)
  <2>1. stage'[c] \notin AtLock \cup {"fenced"}
    BY <1>a, <1>15 DEF CloseManager, AtLock
  <2> QED
    BY <2>1
<1>16. CASE CloseClient(c)
  <2>1. stage'[c] \notin AtLock \cup {"fenced"}
    BY <1>a, <1>16 DEF CloseClient, AtLock
  <2> QED
    BY <2>1
<1>17. CASE Fence(c)
  <2>1. CASE IsClosed(About(c))
    BY <1>a, <2>1, <1>17 DEF Fence, AtLock
  <2>2. CASE ~IsClosed(About(c))
    BY <1>a, <2>2, <1>17 DEF Fence, AtLock, Request, About
  <2> QED
    BY <2>1, <2>2
<1>18. CASE CloseResource(c)
  <2>1. stage'[c] \notin AtLock \cup {"fenced"}
    BY <1>a, <1>18 DEF CloseResource, AtLock
  <2> QED
    BY <2>1
<1>19. CASE Drop(c)
  <2>1. stage'[c] \notin AtLock \cup {"fenced"}
    BY <1>a, <1>19 DEF Drop, AtLock
  <2> QED
    BY <2>1
<1> QED
  BY <1>1, <1>2, <1>3, <1>4, <1>5, <1>6, <1>7, <1>8, <1>9, <1>10, <1>11, <1>12, <1>13, <1>14, <1>15, <1>16, <1>17, <1>18, <1>19 DEF CallNext

LEMMA CallLocks ==
  ASSUME IInv, NEW c \in Calls, CallNext(c), NEW x \in Calls, NEW d \in Calls,
         request'[x].about = request'[d].about
  PROVE  /\ stage'[x] \in {"connecting", "undoing"} /\ stage'[d] \in {"connecting", "undoing"} => x = d
         /\ stage'[d] = "fenced" /\ stage'[x] \in AtLock => x \in request'[d].ahead
<1> USE DEF AtLock
<1>1. Locked /\ Subjects
  BY DEF IInv
<1>2. Steps(c)
  BY CallSteps
<1>3. \A e \in Calls \ {c} : stage'[e] = stage[e] /\ request'[e] = request[e]
  BY Others
<1>4. CASE x # c /\ d # c
  BY <1>1, <1>3, <1>4 DEF Locked, About
<1>5. CASE x = c /\ d # c
  <2>1. stage'[d] = stage[d] /\ request'[d] = request[d]
    BY <1>3, <1>5
  <2> QED
    BY <1>1, <1>2, <1>5, <2>1 DEF Steps, Locked, Subjects, About, Free
<1>6. CASE x # c /\ d = c
  <2>1. stage'[x] = stage[x] /\ request'[x] = request[x]
    BY <1>3, <1>6
  <2>2. stage[x] \in AtLock /\ About(x) = About(c) => x \in Queued(About(c))
    BY DEF Queued
  <2> QED
    BY <1>1, <1>2, <1>6, <2>1, <2>2 DEF Steps, Locked, About, Free
<1>7. CASE x = c /\ d = c
  BY <1>7
<1> QED
  BY <1>4, <1>5, <1>6, <1>7

LEMMA OthersUndo ==
  ASSUME IInv, NEW x \in Calls, stage[x] = "undoing", NEW c \in Calls, CallNext(c), x # c
  PROVE  retained'[About(x)] = x
<1> USE DEF Answer, Goes, Ends, Succeeds, Fails, LetsGo, Started, session, addresses, unpublished, aliases, framework, closes, Serves, Admitted
<1> USE DEF InFlight, Phases
<1> TypeOK /\ Minted /\ Subjects
  BY DEF IInv
<1>a. /\ mcp_clients \in [Calls -> Calls \cup {None}]
      /\ mcp_client_managers \in [Calls -> Managers \cup {None}]
      /\ retained \in [Managers -> Calls \cup {None}]
      /\ server \in [Calls -> {"none", "live", "closed"}]
      /\ stage \in [Calls \cup Closers -> Stage] /\ c \in Calls \cup Closers
      /\ request \in [Calls -> Request]
  BY DEF TypeOK, Stage, Request
<1>b. /\ \A d \in Calls \ {c} : stage'[d] = stage[d] /\ request'[d] = request[d]
      /\ \A s \in Closers : stage'[s] = stage[s]
      /\ stage[c] # "done"
  BY Others
<1> Locked
  BY DEF IInv
<1>d. stage[x] = "undoing" /\ About(x) \in Managers /\ retained[About(x)] = x
  BY DEF Locked, Subjects
<1>e. stage[c] \in {"connecting", "undoing"} => About(c) # About(x)
  BY <1>d DEF Locked
<1>f. ~Free(About(x))
  BY <1>d DEF Free
<1>1. CASE Refuse(c)
  BY <1>a, <1>d, <1>f, <1>1 DEF Refuse
<1>2. CASE Resolve(c)
  BY <1>a, <1>d, <1>f, <1>2 DEF Resolve
<1>3. CASE Prepare(c)
  BY <1>a, <1>d, <1>f, <1>3 DEF Prepare
<1>4. CASE Prepared(c)
  BY <1>a, <1>d, <1>f, <1>4 DEF Prepared
<1>5. CASE PreparationFails(c)
  BY <1>a, <1>d, <1>f, <1>5 DEF PreparationFails
<1>6. CASE Settle(c)
  BY <1>a, <1>d, <1>f, <1>6 DEF Settle
<1>7. CASE Withdraw(c)
  BY <1>a, <1>d, <1>f, <1>7 DEF Withdraw
<1>8. CASE Connect(c)
  BY <1>a, <1>d, <1>f, <1>8 DEF Connect
<1>9. CASE Connected(c)
  BY <1>a, <1>d, <1>e, <1>9 DEF Connected, Retains, Aliases, Publishes, Retains
<1>10. CASE Undo(c)
  BY <1>a, <1>d, <1>e, <1>10 DEF Undo, Retains
<1>11. CASE ConnectedFromConfig(c)
  BY <1>a, <1>d, <1>e, <1>11 DEF ConnectedFromConfig, Retains, Publishes, Retains
<1>12. CASE ConnectFails(c)
  BY <1>a, <1>d, <1>f, <1>12 DEF ConnectFails
<1>13. CASE GetClient(c)
  BY <1>a, <1>d, <1>f, <1>13 DEF GetClient, Publishes, Aliases
<1>14. CASE Disconnect(c)
  BY <1>a, <1>d, <1>f, <1>14 DEF Disconnect, RemovesClients, ForgetsManagers
<1>15. CASE CloseManager(c)
  BY <1>a, <1>d, <1>f, <1>15 DEF CloseManager
<1>16. CASE CloseClient(c)
  BY <1>a, <1>d, <1>f, <1>16 DEF CloseClient, RemovesClients, ForgetsManagers
<1>17. CASE Fence(c)
  BY <1>a, <1>d, <1>f, <1>17 DEF Fence, Fences
<1>18. CASE CloseResource(c)
  <2>1. About(c) # About(x)
    BY <1>d, <1>18, Undisturbed DEF CloseResource, AtLock
  <2> QED
    BY <1>a, <1>d, <2>1, <1>18 DEF CloseResource
<1>19. CASE Drop(c)
  BY <1>a, <1>d, <1>e, <1>19 DEF Drop, Cancels, Drops, Retains, Retains
<1> QED
  BY <1>1, <1>2, <1>3, <1>4, <1>5, <1>6, <1>7, <1>8, <1>9, <1>10, <1>11, <1>12, <1>13, <1>14, <1>15, <1>16, <1>17, <1>18, <1>19 DEF CallNext

LEMMA OwnUndo ==
  ASSUME IInv, NEW c \in Calls, CallNext(c), stage'[c] = "undoing"
  PROVE  retained'[About(c)] = c /\ request'[c] = request[c]
<1>1. Steps(c)
  BY CallSteps
<1>2. stage[c] = "connecting" /\ request'[c] = request[c]
  BY <1>1 DEF Steps, AtLock
<1>3. About(c) \in Managers /\ retained \in [Managers -> Calls \cup {None}]
  BY <1>2 DEF IInv, Subjects, TypeOK
<1>4. stage \in [Calls \cup Closers -> Stage] /\ c \in Calls \cup Closers
  BY DEF IInv, TypeOK, Stage
<1>5. Connected(c)
  <2>1. Connected(c) \/ ConnectedFromConfig(c) \/ ConnectFails(c) \/ Drop(c)
    BY <1>2 DEF CallNext, Refuse, Resolve, Serves, Admitted, Prepare, Prepared, PreparationFails, Settle,
       Withdraw, Connect, Undo, GetClient, Disconnect, CloseManager, CloseClient, Fence, CloseResource
  <2>2. ~(ConnectedFromConfig(c) \/ ConnectFails(c) \/ Drop(c))
    BY <1>4 DEF ConnectedFromConfig, ConnectFails, Drop, Answer, Goes
  <2> QED
    BY <2>1, <2>2
<1> QED
  BY <1>2, <1>3, <1>5 DEF Connected, Retains

LEMMA CallLocked ==
  ASSUME IInv, NEW c \in Calls, CallNext(c)
  PROVE  Locked'
<1>1. ASSUME NEW x \in Calls, stage'[x] \in AtLock, request'[x].about \in Managers
      PROVE  request'[x].about \in mcp'
  <2>1. CASE x = c
    BY <1>1, <2>1, OwnOnRecord
  <2>2. CASE x # c
    <3>1. stage'[x] = stage[x] /\ request'[x] = request[x]
      BY <2>2, Others
    <3> QED
      BY <1>1, <3>1, OthersOnRecord DEF About
  <2> QED
    BY <2>1, <2>2
<1>2. ASSUME NEW x \in Calls, stage'[x] = "undoing"
      PROVE  retained'[request'[x].about] = x
  <2>1. CASE x = c
    BY <1>2, <2>1, OwnUndo DEF About
  <2>2. CASE x # c
    <3>1. stage'[x] = stage[x] /\ request'[x] = request[x]
      BY <2>2, Others
    <3> QED
      BY <1>2, <2>2, <3>1, OthersUndo DEF About
  <2> QED
    BY <2>1, <2>2
<1> QED
  BY <1>1, <1>2, CallLocks DEF Locked, About

\* A Session that is closing and has nothing in flight serves nobody.
LEMMA Quiet ==
  ASSUME IInv, NEW c \in Calls, CallNext(c), closing, Running = {}
  PROVE  Refuse(c)
<1>1. stage[c] \notin InFlight
  BY DEF Running
<1> QED
  BY <1>1 DEF CallNext, Serves, Resolve, Prepare, Prepared, PreparationFails, Settle, Withdraw, Connect,
     Connected, Undo, ConnectedFromConfig, ConnectFails, GetClient, Disconnect, CloseManager,
     CloseClient, Fence, CloseResource, Drop, Cancels, InFlight

LEMMA CallClosing ==
  ASSUME IInv, NEW c \in Calls, CallNext(c)
  PROVE  Closing'
<1>1. UNCHANGED <<closing, released, left, failed>> /\ \A s \in Closers : stage'[s] = stage[s]
  BY CallMoves, Others
<1>2. Closing
  BY DEF IInv
<1>3. CASE closing /\ Running = {}
  <2>1. Refuse(c)
    BY <1>3, Quiet
  <2>2. stage'[c] = "done" /\ UNCHANGED <<mcp, mcp_clients, mcp_preparations, mcp_cleanup_debt>>
    <3>1. stage \in [Calls \cup Closers -> Stage] /\ c \in Calls \cup Closers
      BY DEF IInv, TypeOK, Stage
    <3> QED
      BY <2>1, <3>1 DEF Refuse, Answer, Goes, unpublished, aliases
  <2>3. Running' = {}
    <3>1. ASSUME NEW d \in Calls
          PROVE  stage'[d] \notin InFlight
      BY <1>3, <2>2, Others DEF Running, InFlight
    <3> QED
      BY <3>1 DEF Running
  <2> QED
    BY <1>1, <1>2, <2>2, <2>3 DEF Closing, Aliased, Unpublished
<1>4. CASE ~(closing /\ Running = {})
  <2>1. ~released /\ \A s \in Closers : stage[s] \notin Phases
    BY <1>2, <1>4 DEF Closing
  <2> QED
    BY <1>1, <1>2, <2>1 DEF Closing, Phases
<1> QED
  BY <1>3, <1>4

\* What is in flight sees every manager with an address on record.
LEMMA Seen ==
  ASSUME IInv, NEW c \in Calls, stage[c] \in InFlight, NEW m \in registry \cap Managers
  PROVE  m \in mcp
<1>1. Running # {}
  BY DEF Running
<1> QED
  BY <1>1 DEF IInv, Owned, TypeOK, Aliased, Unpublished

\* Who has a server is past its start.
LEMMA Stays ==
  ASSUME IInv, NEW c \in Calls, CallNext(c), NEW y \in Calls, stage[y] \in {"undoing", "done"},
         server[y] = "closed"
  PROVE  server'[y] = "closed"
<1> USE DEF Answer, Goes, Ends, Succeeds, Fails, LetsGo, Started, session, addresses, unpublished, aliases, framework, closes, Serves, Admitted
<1> USE DEF InFlight, Phases
<1> TypeOK /\ Minted /\ Subjects
  BY DEF IInv
<1>a. /\ mcp_clients \in [Calls -> Calls \cup {None}]
      /\ mcp_client_managers \in [Calls -> Managers \cup {None}]
      /\ retained \in [Managers -> Calls \cup {None}]
      /\ server \in [Calls -> {"none", "live", "closed"}]
      /\ stage \in [Calls \cup Closers -> Stage] /\ c \in Calls \cup Closers
      /\ request \in [Calls -> Request]
  BY DEF TypeOK, Stage, Request
<1>b. /\ \A d \in Calls \ {c} : stage'[d] = stage[d] /\ request'[d] = request[d]
      /\ \A s \in Closers : stage'[s] = stage[s]
      /\ stage[c] # "done"
  BY Others
<1>1. CASE Refuse(c)
  BY <1>a, <1>b, <1>1 DEF Refuse
<1>2. CASE Resolve(c)
  BY <1>a, <1>b, <1>2 DEF Resolve
<1>3. CASE Prepare(c)
  BY <1>a, <1>b, <1>3 DEF Prepare
<1>4. CASE Prepared(c)
  BY <1>a, <1>b, <1>4 DEF Prepared
<1>5. CASE PreparationFails(c)
  BY <1>a, <1>b, <1>5 DEF PreparationFails
<1>6. CASE Settle(c)
  BY <1>a, <1>b, <1>6 DEF Settle
<1>7. CASE Withdraw(c)
  BY <1>a, <1>b, <1>7 DEF Withdraw
<1>8. CASE Connect(c)
  BY <1>a, <1>b, <1>8 DEF Connect
<1>9. CASE Connected(c)
  BY <1>a, <1>b, <1>9 DEF Connected, Retains, Aliases, Publishes
<1>10. CASE Undo(c)
  BY <1>a, <1>b, <1>10 DEF Undo
<1>11. CASE ConnectedFromConfig(c)
  BY <1>a, <1>b, <1>11 DEF ConnectedFromConfig, Retains, Publishes
<1>12. CASE ConnectFails(c)
  BY <1>a, <1>b, <1>12 DEF ConnectFails
<1>13. CASE GetClient(c)
  BY <1>a, <1>b, <1>13 DEF GetClient, Publishes, Aliases
<1>14. CASE Disconnect(c)
  BY <1>a, <1>b, <1>14 DEF Disconnect, RemovesClients, ForgetsManagers
<1>15. CASE CloseManager(c)
  BY <1>a, <1>b, <1>15 DEF CloseManager
<1>16. CASE CloseClient(c)
  BY <1>a, <1>b, <1>16 DEF CloseClient, RemovesClients, ForgetsManagers
<1>17. CASE Fence(c)
  BY <1>a, <1>b, <1>17 DEF Fence, Fences
<1>18. CASE CloseResource(c)
  BY <1>a, <1>b, <1>18 DEF CloseResource, RemovesClients, ForgetsManagers
<1>19. CASE Drop(c)
  BY <1>a, <1>b, <1>19 DEF Drop, Cancels, Drops, Retains
<1> QED
  BY <1>1, <1>2, <1>3, <1>4, <1>5, <1>6, <1>7, <1>8, <1>9, <1>10, <1>11, <1>12, <1>13, <1>14, <1>15, <1>16, <1>17, <1>18, <1>19 DEF CallNext

\* An alias follows its server.
LEMMA AliasFollows ==
  ASSUME IInv, NEW a \in Calls, mcp_clients'[a] # None, mcp_client_managers'[a] \in Managers,
         NEW c \in Calls, CallNext(c)
  PROVE  \/ server'[mcp_clients'[a]] = "closed"
         \/ retained'[mcp_client_managers'[a]] = mcp_clients'[a]
<1> USE DEF Answer, Goes, Ends, Succeeds, Fails, LetsGo, Started, session, addresses, unpublished, aliases, framework, closes, Serves, Admitted
<1> USE DEF InFlight, Phases
<1> TypeOK /\ Minted /\ Subjects
  BY DEF IInv
<1>a. /\ mcp_clients \in [Calls -> Calls \cup {None}]
      /\ mcp_client_managers \in [Calls -> Managers \cup {None}]
      /\ retained \in [Managers -> Calls \cup {None}]
      /\ server \in [Calls -> {"none", "live", "closed"}]
      /\ stage \in [Calls \cup Closers -> Stage] /\ c \in Calls \cup Closers
      /\ request \in [Calls -> Request]
  BY DEF TypeOK, Stage, Request
<1>b. /\ \A d \in Calls \ {c} : stage'[d] = stage[d] /\ request'[d] = request[d]
      /\ \A s \in Closers : stage'[s] = stage[s]
      /\ stage[c] # "done"
  BY Others
<1> Locked /\ Follows
  BY DEF IInv
<1>d. /\ mcp_client_managers[a] \in Managers /\ mcp_clients[a] # None =>
           /\ mcp_clients[a] \in Calls /\ stage[mcp_clients[a]] \in {"undoing", "done"}
           /\ \/ server[mcp_clients[a]] = "closed"
              \/ retained[mcp_client_managers[a]] = mcp_clients[a]
  BY <1>a DEF Follows, Aliased, Minted
<1>e. \A y \in Calls : stage[y] \in {"undoing", "done"} /\ server[y] = "closed" => server'[y] = "closed"
  BY Stays
<1>1. CASE Refuse(c)
  BY <1>a, <1>d, <1>e, <1>1 DEF Refuse
<1>2. CASE Resolve(c)
  BY <1>a, <1>d, <1>e, <1>2 DEF Resolve
<1>3. CASE Prepare(c)
  BY <1>a, <1>d, <1>e, <1>3 DEF Prepare
<1>4. CASE Prepared(c)
  <2>1. mcp_client_managers[c] = None
    BY <1>4, <1>b DEF Prepared, Minted
  <2> QED
    BY <1>a, <1>d, <1>e, <2>1, <1>4 DEF Prepared
<1>5. CASE PreparationFails(c)
  BY <1>a, <1>d, <1>e, <1>5 DEF PreparationFails
<1>6. CASE Settle(c)
  BY <1>a, <1>d, <1>e, <1>6 DEF Settle
<1>7. CASE Withdraw(c)
  BY <1>a, <1>d, <1>e, <1>7 DEF Withdraw
<1>8. CASE Connect(c)
  BY <1>a, <1>d, <1>e, <1>8 DEF Connect
<1>9. CASE Connected(c)
  <2>1. About(c) \in Managers
    BY <1>9 DEF Connected, Subjects, ManagerKinds
  <2> QED
    BY <1>a, <1>d, <1>e, <2>1, <1>9 DEF Connected, Retains, Aliases, Publishes
<1>10. CASE Undo(c)
  <2>1. About(c) \in Managers /\ retained[About(c)] = c
    BY <1>10 DEF Undo, Subjects, Locked
  <2> QED
    BY <1>a, <1>d, <1>e, <2>1, <1>10 DEF Undo
<1>11. CASE ConnectedFromConfig(c)
  <2>1. About(c) \in Managers
    BY <1>11 DEF ConnectedFromConfig, Subjects, ManagerKinds
  <2> QED
    BY <1>a, <1>d, <1>e, <2>1, <1>11 DEF ConnectedFromConfig, Retains, Publishes
<1>12. CASE ConnectFails(c)
  BY <1>a, <1>d, <1>e, <1>12 DEF ConnectFails
<1>13. CASE GetClient(c)
  <2>1. About(c) \in Managers
    BY <1>13 DEF GetClient, Subjects, ManagerKinds
  <2> QED
    BY <1>a, <1>d, <1>e, <2>1, <1>13 DEF GetClient, Publishes, Aliases
<1>14. CASE Disconnect(c)
  <2>1. About(c) \in Managers
    BY <1>14 DEF Disconnect, Subjects, ManagerKinds
  <2> QED
    BY <1>a, <1>d, <1>e, <2>1, <1>14 DEF Disconnect, RemovesClients, ForgetsManagers
<1>15. CASE CloseManager(c)
  <2>1. About(c) \in Managers
    BY <1>15 DEF CloseManager, Subjects, ManagerKinds
  <2> QED
    BY <1>a, <1>d, <1>e, <2>1, <1>15 DEF CloseManager
<1>16. CASE CloseClient(c)
  BY <1>a, <1>d, <1>e, <1>16 DEF CloseClient, RemovesClients, ForgetsManagers
<1>17. CASE Fence(c)
  BY <1>a, <1>d, <1>e, <1>17 DEF Fence, Fences
<1>18. CASE CloseResource(c)
  <2>1. CASE UNCHANGED <<retained, mcp_clients, mcp_client_managers>>
    BY <1>a, <1>d, <1>e, <2>1, <1>18 DEF CloseResource
  <2>2. CASE ForgetsManagers({About(c)})
    <3>1. mcp_client_managers'[a] = mcp_client_managers[a]
      BY <2>2 DEF ForgetsManagers
    <3>2. About(c) \notin {a, mcp_client_managers[a]}
      BY <2>2 DEF ForgetsManagers
    <3>3. mcp_clients'[a] = mcp_clients[a]
      BY <3>2, <1>18 DEF CloseResource, RemovesClients
    <3>4. retained'[mcp_client_managers[a]] = retained[mcp_client_managers[a]]
      BY <3>1, <3>2, <1>18 DEF CloseResource
    <3> QED
      BY <1>d, <1>e, <3>1, <3>3, <3>4
  <2> QED
    BY <2>1, <2>2, <1>18 DEF CloseResource
<1>19. CASE Drop(c)
  <2>1. CASE stage[c] = "connecting"
    <3>1. About(c) \in Managers
      BY <2>1 DEF Subjects
    <3> QED
      BY <1>a, <1>d, <1>e, <2>1, <3>1, <1>19 DEF Drop, Drops, Retains
  <2>2. CASE stage[c] # "connecting"
    BY <1>a, <1>d, <1>e, <2>2, <1>19 DEF Drop, Drops
  <2> QED
    BY <2>1, <2>2
<1> QED
  BY <1>1, <1>2, <1>3, <1>4, <1>5, <1>6, <1>7, <1>8, <1>9, <1>10, <1>11, <1>12, <1>13, <1>14, <1>15, <1>16, <1>17, <1>18, <1>19 DEF CallNext

LEMMA CallFollows ==
  ASSUME IInv, NEW c \in Calls, CallNext(c)
  PROVE  Follows'
BY AliasFollows DEF Follows, Aliased

\* An alias is withdrawn only with its server closed.
LEMMA AliasLasts ==
  ASSUME IInv, NEW a \in Calls, mcp_clients[a] # None, NEW c \in Calls, CallNext(c)
  PROVE  mcp_clients'[a] = mcp_clients[a] \/ server'[mcp_clients[a]] = "closed"
<1> USE DEF Answer, Goes, Ends, Succeeds, Fails, LetsGo, Started, session, addresses, unpublished, aliases, framework, closes, Serves, Admitted
<1> USE DEF InFlight, Phases
<1> TypeOK /\ Minted /\ Subjects
  BY DEF IInv
<1>a. /\ mcp_clients \in [Calls -> Calls \cup {None}]
      /\ mcp_client_managers \in [Calls -> Managers \cup {None}]
      /\ retained \in [Managers -> Calls \cup {None}]
      /\ server \in [Calls -> {"none", "live", "closed"}]
      /\ stage \in [Calls \cup Closers -> Stage] /\ c \in Calls \cup Closers
      /\ request \in [Calls -> Request]
  BY DEF TypeOK, Stage, Request
<1>b. /\ \A d \in Calls \ {c} : stage'[d] = stage[d] /\ request'[d] = request[d]
      /\ \A s \in Closers : stage'[s] = stage[s]
      /\ stage[c] # "done"
  BY Others
<1> Locked /\ Follows
  BY DEF IInv
<1>d. /\ mcp_clients[a] \in Calls /\ stage[mcp_clients[a]] \in {"undoing", "done"} /\ a # c
      /\ server[mcp_clients[a]] = "closed" => server'[mcp_clients[a]] = "closed"
  <2>1. mcp_clients[a] \in Calls /\ stage[mcp_clients[a]] \in {"undoing", "done"}
    BY <1>a DEF Minted
  <2>2. a # c
    BY <1>b DEF Minted
  <2> QED
    BY <2>1, <2>2, Stays
<1>1. CASE Refuse(c)
  BY <1>a, <1>d, <1>1 DEF Refuse
<1>2. CASE Resolve(c)
  BY <1>a, <1>d, <1>2 DEF Resolve
<1>3. CASE Prepare(c)
  BY <1>a, <1>d, <1>3 DEF Prepare
<1>4. CASE Prepared(c)
  BY <1>a, <1>d, <1>4 DEF Prepared
<1>5. CASE PreparationFails(c)
  BY <1>a, <1>d, <1>5 DEF PreparationFails
<1>6. CASE Settle(c)
  BY <1>a, <1>d, <1>6 DEF Settle
<1>7. CASE Withdraw(c)
  BY <1>a, <1>d, <1>7 DEF Withdraw
<1>8. CASE Connect(c)
  BY <1>a, <1>d, <1>8 DEF Connect
<1>9. CASE Connected(c)
  BY <1>a, <1>d, <1>9 DEF Connected, Retains, Aliases, Publishes
<1>10. CASE Undo(c)
  BY <1>a, <1>d, <1>10 DEF Undo
<1>11. CASE ConnectedFromConfig(c)
  BY <1>a, <1>d, <1>11 DEF ConnectedFromConfig, Retains, Publishes
<1>12. CASE ConnectFails(c)
  BY <1>a, <1>d, <1>12 DEF ConnectFails
<1>13. CASE GetClient(c)
  BY <1>a, <1>d, <1>13 DEF GetClient, Publishes, Aliases
<1>14. CASE Disconnect(c)
  <2>1. About(c) \in Managers
    BY <1>14 DEF Disconnect, Subjects, ManagerKinds
  <2>2. CASE a \in AliasesOf(About(c))
    <3>1. server[mcp_clients[a]] = "closed" \/ retained[About(c)] = mcp_clients[a]
      BY <2>1, <2>2 DEF AliasesOf, Follows, Aliased
    <3> QED
      BY <1>a, <1>d, <3>1, <1>14 DEF Disconnect
  <2>3. CASE a \notin AliasesOf(About(c))
    BY <1>a, <1>d, <2>3, <1>14 DEF Disconnect, RemovesClients
  <2> QED
    BY <2>2, <2>3
<1>15. CASE CloseManager(c)
  BY <1>a, <1>d, <1>15 DEF CloseManager
<1>16. CASE CloseClient(c)
  <2>1. a = About(c) => mcp_clients[a] = request[c].held
    BY <1>16 DEF CloseClient, Subjects, ManagerKinds
  <2> QED
    BY <1>a, <1>d, <2>1, <1>16 DEF CloseClient, RemovesClients
<1>17. CASE Fence(c)
  BY <1>a, <1>d, <1>17 DEF Fence, Fences
<1>18. CASE CloseResource(c)
  <2>1. a = About(c) => mcp_clients[a] \in Behind({About(c)})
    BY DEF Behind
  <2> QED
    BY <1>a, <1>d, <2>1, <1>18 DEF CloseResource, RemovesClients
<1>19. CASE Drop(c)
  BY <1>a, <1>d, <1>19 DEF Drop, Cancels, Drops, Retains
<1> QED
  BY <1>1, <1>2, <1>3, <1>4, <1>5, <1>6, <1>7, <1>8, <1>9, <1>10, <1>11, <1>12, <1>13, <1>14, <1>15, <1>16, <1>17, <1>18, <1>19 DEF CallNext

\* So is what a manager holds.
LEMMA ManagerLasts ==
  ASSUME IInv, NEW m \in mcp, retained[m] # None, NEW c \in Calls, CallNext(c)
  PROVE  (m \in mcp' /\ retained'[m] = retained[m]) \/ server'[retained[m]] = "closed"
<1> USE DEF Answer, Goes, Ends, Succeeds, Fails, LetsGo, Started, session, addresses, unpublished, aliases, framework, closes, Serves, Admitted
<1> USE DEF InFlight, Phases
<1> TypeOK /\ Minted /\ Subjects
  BY DEF IInv
<1>a. /\ mcp_clients \in [Calls -> Calls \cup {None}]
      /\ mcp_client_managers \in [Calls -> Managers \cup {None}]
      /\ retained \in [Managers -> Calls \cup {None}]
      /\ server \in [Calls -> {"none", "live", "closed"}]
      /\ stage \in [Calls \cup Closers -> Stage] /\ c \in Calls \cup Closers
      /\ request \in [Calls -> Request]
  BY DEF TypeOK, Stage, Request
<1>b. /\ \A d \in Calls \ {c} : stage'[d] = stage[d] /\ request'[d] = request[d]
      /\ \A s \in Closers : stage'[s] = stage[s]
      /\ stage[c] # "done"
  BY Others
<1> Locked /\ Follows
  BY DEF IInv
<1>d. /\ retained[m] \in Calls /\ stage[retained[m]] \in {"undoing", "done"} /\ m \in Managers
      /\ server[retained[m]] = "closed" => server'[retained[m]] = "closed"
  <2>1. retained[m] \in Calls /\ stage[retained[m]] \in {"undoing", "done"} /\ m \in Managers
    BY <1>a DEF Minted, TypeOK
  <2> QED
    BY <2>1, Stays
<1>1. CASE Refuse(c)
  BY <1>a, <1>d, <1>1 DEF Refuse
<1>2. CASE Resolve(c)
  BY <1>a, <1>d, <1>2 DEF Resolve
<1>3. CASE Prepare(c)
  BY <1>a, <1>d, <1>3 DEF Prepare
<1>4. CASE Prepared(c)
  BY <1>a, <1>d, <1>4 DEF Prepared
<1>5. CASE PreparationFails(c)
  BY <1>a, <1>d, <1>5 DEF PreparationFails
<1>6. CASE Settle(c)
  BY <1>a, <1>d, <1>6 DEF Settle
<1>7. CASE Withdraw(c)
  BY <1>a, <1>d, <1>7 DEF Withdraw
<1>8. CASE Connect(c)
  BY <1>a, <1>d, <1>8 DEF Connect
<1>9. CASE Connected(c)
  BY <1>a, <1>d, <1>9 DEF Connected, Retains, Aliases, Publishes
<1>10. CASE Undo(c)
  <2>1. retained[About(c)] = c
    BY <1>10 DEF Undo, Locked
  <2> QED
    BY <1>a, <1>d, <2>1, <1>10 DEF Undo
<1>11. CASE ConnectedFromConfig(c)
  BY <1>a, <1>d, <1>11 DEF ConnectedFromConfig, Retains, Publishes
<1>12. CASE ConnectFails(c)
  BY <1>a, <1>d, <1>12 DEF ConnectFails
<1>13. CASE GetClient(c)
  BY <1>a, <1>d, <1>13 DEF GetClient, Publishes, Aliases
<1>14. CASE Disconnect(c)
  BY <1>a, <1>d, <1>14 DEF Disconnect, RemovesClients, ForgetsManagers
<1>15. CASE CloseManager(c)
  BY <1>a, <1>d, <1>15 DEF CloseManager
<1>16. CASE CloseClient(c)
  BY <1>a, <1>d, <1>16 DEF CloseClient, RemovesClients, ForgetsManagers
<1>17. CASE Fence(c)
  BY <1>a, <1>d, <1>17 DEF Fence, Fences
<1>18. CASE CloseResource(c)
  <2>1. m = About(c) => retained[m] \in Behind({About(c)})
    BY DEF Behind
  <2> QED
    BY <1>a, <1>d, <2>1, <1>18 DEF CloseResource
<1>19. CASE Drop(c)
  BY <1>a, <1>d, <1>19 DEF Drop, Drops, Retains
<1> QED
  BY <1>1, <1>2, <1>3, <1>4, <1>5, <1>6, <1>7, <1>8, <1>9, <1>10, <1>11, <1>12, <1>13, <1>14, <1>15, <1>16, <1>17, <1>18, <1>19 DEF CallNext

\* So is what is not yet published.
LEMMA UnpublishedLasts ==
  ASSUME IInv, NEW x \in Unpublished, NEW c \in Calls, CallNext(c)
  PROVE  x \in Unpublished' \/ mcp_clients'[x] = x \/ server'[x] = "closed"
<1> USE DEF Answer, Goes, Ends, Succeeds, Fails, LetsGo, Started, session, addresses, unpublished, aliases, framework, closes, Serves, Admitted, Unpublished
<1> USE DEF InFlight, Phases
<1> TypeOK /\ Minted /\ Subjects
  BY DEF IInv
<1>a. /\ mcp_clients \in [Calls -> Calls \cup {None}]
      /\ mcp_client_managers \in [Calls -> Managers \cup {None}]
      /\ retained \in [Managers -> Calls \cup {None}]
      /\ server \in [Calls -> {"none", "live", "closed"}]
      /\ stage \in [Calls \cup Closers -> Stage] /\ c \in Calls \cup Closers
      /\ request \in [Calls -> Request]
  BY DEF TypeOK, Stage, Request
<1>b. /\ \A d \in Calls \ {c} : stage'[d] = stage[d] /\ request'[d] = request[d]
      /\ \A s \in Closers : stage'[s] = stage[s]
      /\ stage[c] # "done"
  BY Others
<1> Locked /\ Follows
  BY DEF IInv
<1>1. CASE Refuse(c)
  BY <1>a, <1>1 DEF Refuse
<1>2. CASE Resolve(c)
  BY <1>a, <1>2 DEF Resolve
<1>3. CASE Prepare(c)
  BY <1>a, <1>3 DEF Prepare
<1>4. CASE Prepared(c)
  BY <1>a, <1>b, <1>4 DEF Prepared
<1>5. CASE PreparationFails(c)
  BY <1>a, <1>5 DEF PreparationFails
<1>6. CASE Settle(c)
  BY <1>a, <1>6 DEF Settle, Minted
<1>7. CASE Withdraw(c)
  BY <1>a, <1>7 DEF Withdraw
<1>8. CASE Connect(c)
  BY <1>a, <1>8 DEF Connect
<1>9. CASE Connected(c)
  BY <1>a, <1>9 DEF Connected, Retains, Aliases, Publishes
<1>10. CASE Undo(c)
  BY <1>a, <1>10 DEF Undo
<1>11. CASE ConnectedFromConfig(c)
  BY <1>a, <1>11 DEF ConnectedFromConfig, Retains, Publishes
<1>12. CASE ConnectFails(c)
  BY <1>a, <1>12 DEF ConnectFails
<1>13. CASE GetClient(c)
  BY <1>a, <1>13 DEF GetClient, Publishes, Aliases
<1>14. CASE Disconnect(c)
  BY <1>a, <1>14 DEF Disconnect, RemovesClients, ForgetsManagers
<1>15. CASE CloseManager(c)
  BY <1>a, <1>15 DEF CloseManager
<1>16. CASE CloseClient(c)
  BY <1>a, <1>16 DEF CloseClient, RemovesClients, ForgetsManagers
<1>17. CASE Fence(c)
  BY <1>a, <1>17 DEF Fence, Fences
<1>18. CASE CloseResource(c)
  BY <1>a, <1>18 DEF CloseResource, RemovesClients, ForgetsManagers
<1>19. CASE Drop(c)
  BY <1>a, <1>19 DEF Drop, Cancels, Drops, Retains
<1> QED
  BY <1>1, <1>2, <1>3, <1>4, <1>5, <1>6, <1>7, <1>8, <1>9, <1>10, <1>11, <1>12, <1>13, <1>14, <1>15, <1>16, <1>17, <1>18, <1>19 DEF CallNext

\* A connect ends in its manager, or closed.
LEMMA ConnectEnds ==
  ASSUME IInv, NEW c \in Calls, CallNext(c), stage[c] = "connecting"
  PROVE  \/ stage'[c] = "connecting" /\ request'[c] = request[c]
         \/ retained'[About(c)] = c
         \/ server'[c] = "closed"
<1> USE DEF Answer, Goes, Ends, Succeeds, Fails, LetsGo, Started, session, addresses, unpublished, aliases, framework, closes, Serves, Admitted
<1> USE DEF InFlight, Phases
<1> TypeOK /\ Minted /\ Subjects
  BY DEF IInv
<1>a. /\ mcp_clients \in [Calls -> Calls \cup {None}]
      /\ mcp_client_managers \in [Calls -> Managers \cup {None}]
      /\ retained \in [Managers -> Calls \cup {None}]
      /\ server \in [Calls -> {"none", "live", "closed"}]
      /\ stage \in [Calls \cup Closers -> Stage] /\ c \in Calls \cup Closers
      /\ request \in [Calls -> Request]
  BY DEF TypeOK, Stage, Request
<1>b. /\ \A d \in Calls \ {c} : stage'[d] = stage[d] /\ request'[d] = request[d]
      /\ \A s \in Closers : stage'[s] = stage[s]
      /\ stage[c] # "done"
  BY Others
<1> Locked /\ Follows
  BY DEF IInv
<1>d. About(c) \in Managers
  BY DEF Subjects
<1>1. CASE Refuse(c)
  BY <1>a, <1>d, <1>1 DEF Refuse
<1>2. CASE Resolve(c)
  BY <1>a, <1>d, <1>2 DEF Resolve
<1>3. CASE Prepare(c)
  BY <1>a, <1>d, <1>3 DEF Prepare
<1>4. CASE Prepared(c)
  BY <1>a, <1>d, <1>4 DEF Prepared
<1>5. CASE PreparationFails(c)
  BY <1>a, <1>d, <1>5 DEF PreparationFails
<1>6. CASE Settle(c)
  BY <1>a, <1>d, <1>6 DEF Settle
<1>7. CASE Withdraw(c)
  BY <1>a, <1>d, <1>7 DEF Withdraw
<1>8. CASE Connect(c)
  BY <1>a, <1>d, <1>8 DEF Connect
<1>9. CASE Connected(c)
  BY <1>a, <1>d, <1>9 DEF Connected, Retains, Aliases, Publishes
<1>10. CASE Undo(c)
  BY <1>a, <1>d, <1>10 DEF Undo
<1>11. CASE ConnectedFromConfig(c)
  BY <1>a, <1>d, <1>11 DEF ConnectedFromConfig, Retains, Publishes
<1>12. CASE ConnectFails(c)
  BY <1>a, <1>d, <1>12 DEF ConnectFails
<1>13. CASE GetClient(c)
  BY <1>a, <1>d, <1>13 DEF GetClient, Publishes, Aliases
<1>14. CASE Disconnect(c)
  BY <1>a, <1>d, <1>14 DEF Disconnect, RemovesClients, ForgetsManagers
<1>15. CASE CloseManager(c)
  BY <1>a, <1>d, <1>15 DEF CloseManager
<1>16. CASE CloseClient(c)
  BY <1>a, <1>d, <1>16 DEF CloseClient, RemovesClients, ForgetsManagers
<1>17. CASE Fence(c)
  BY <1>a, <1>d, <1>17 DEF Fence, Fences
<1>18. CASE CloseResource(c)
  BY <1>a, <1>d, <1>18 DEF CloseResource, RemovesClients, ForgetsManagers
<1>19. CASE Drop(c)
  BY <1>a, <1>d, <1>19 DEF Drop, Drops, Retains
<1> QED
  BY <1>1, <1>2, <1>3, <1>4, <1>5, <1>6, <1>7, <1>8, <1>9, <1>10, <1>11, <1>12, <1>13, <1>14, <1>15, <1>16, <1>17, <1>18, <1>19 DEF CallNext

\* What runs has run before, or is just being started.
LEMMA Starts ==
  ASSUME IInv, NEW c \in Calls, CallNext(c), NEW x \in Calls, server'[x] = "live"
  PROVE  \/ server[x] = "live"
         \/ x \in mcp_preparations'
         \/ x = c /\ stage'[c] = "connecting" /\ request'[c].about \in mcp'
<1> USE DEF Answer, Goes, Ends, Succeeds, Fails, LetsGo, Started, session, addresses, unpublished, aliases, framework, closes, Serves, Admitted
<1> USE DEF InFlight, Phases
<1> TypeOK /\ Minted /\ Subjects
  BY DEF IInv
<1>a. /\ mcp_clients \in [Calls -> Calls \cup {None}]
      /\ mcp_client_managers \in [Calls -> Managers \cup {None}]
      /\ retained \in [Managers -> Calls \cup {None}]
      /\ server \in [Calls -> {"none", "live", "closed"}]
      /\ stage \in [Calls \cup Closers -> Stage] /\ c \in Calls \cup Closers
      /\ request \in [Calls -> Request]
  BY DEF TypeOK, Stage, Request
<1>b. /\ \A d \in Calls \ {c} : stage'[d] = stage[d] /\ request'[d] = request[d]
      /\ \A s \in Closers : stage'[s] = stage[s]
      /\ stage[c] # "done"
  BY Others
<1> Locked /\ Follows
  BY DEF IInv
<1>1. CASE Refuse(c)
  BY <1>a, <1>1 DEF Refuse
<1>2. CASE Resolve(c)
  BY <1>a, <1>2 DEF Resolve
<1>3. CASE Prepare(c)
  BY <1>a, <1>3 DEF Prepare
<1>4. CASE Prepared(c)
  BY <1>a, <1>4 DEF Prepared
<1>5. CASE PreparationFails(c)
  BY <1>a, <1>5 DEF PreparationFails
<1>6. CASE Settle(c)
  BY <1>a, <1>6 DEF Settle
<1>7. CASE Withdraw(c)
  BY <1>a, <1>7 DEF Withdraw
<1>8. CASE Connect(c)
  <2>1. About(c) \in mcp
    BY <1>8 DEF Connect, Subjects, Locked, AtLock, ManagerKinds
  <2> QED
    BY <1>a, <2>1, <1>8 DEF Connect, About
<1>9. CASE Connected(c)
  BY <1>a, <1>9 DEF Connected, Retains, Aliases, Publishes
<1>10. CASE Undo(c)
  BY <1>a, <1>10 DEF Undo
<1>11. CASE ConnectedFromConfig(c)
  BY <1>a, <1>11 DEF ConnectedFromConfig, Retains, Publishes
<1>12. CASE ConnectFails(c)
  BY <1>a, <1>12 DEF ConnectFails
<1>13. CASE GetClient(c)
  BY <1>a, <1>13 DEF GetClient, Publishes, Aliases
<1>14. CASE Disconnect(c)
  BY <1>a, <1>14 DEF Disconnect, RemovesClients, ForgetsManagers
<1>15. CASE CloseManager(c)
  BY <1>a, <1>15 DEF CloseManager
<1>16. CASE CloseClient(c)
  BY <1>a, <1>16 DEF CloseClient, RemovesClients, ForgetsManagers
<1>17. CASE Fence(c)
  BY <1>a, <1>17 DEF Fence, Fences
<1>18. CASE CloseResource(c)
  BY <1>a, <1>18 DEF CloseResource, RemovesClients, ForgetsManagers
<1>19. CASE Drop(c)
  BY <1>a, <1>19 DEF Drop, Drops, Retains
<1> QED
  BY <1>1, <1>2, <1>3, <1>4, <1>5, <1>6, <1>7, <1>8, <1>9, <1>10, <1>11, <1>12, <1>13, <1>14, <1>15, <1>16, <1>17, <1>18, <1>19 DEF CallNext

LEMMA CallOwns ==
  ASSUME IInv, NEW c \in Calls, CallNext(c), NEW x \in Calls, server'[x] = "live"
  PROVE  \/ x \in Unpublished'
         \/ \E a \in Aliased' : mcp_clients'[a] = x
         \/ \E m \in mcp' : retained'[m] = x \/ (stage'[x] = "connecting" /\ request'[x].about = m)
<1>1. CASE x \in mcp_preparations'
  BY <1>1 DEF Unpublished
<1>2. CASE x = c /\ stage'[c] = "connecting" /\ request'[c].about \in mcp'
  BY <1>2
<1>3. CASE server[x] = "live"
  <2>1. CASE x \in Unpublished
    <3>1. x \in Unpublished' \/ mcp_clients'[x] = x
      BY <2>1, UnpublishedLasts
    <3>2. mcp_clients'[x] = x => x \in Aliased'
      BY DEF Aliased
    <3> QED
      BY <3>1, <3>2
  <2>2. CASE \E a \in Aliased : mcp_clients[a] = x
    <3>1. PICK a \in Aliased : mcp_clients[a] = x
      BY <2>2
    <3>2. a \in Calls /\ mcp_clients[a] # None
      BY DEF Aliased
    <3>3. mcp_clients'[a] = x
      BY <3>1, <3>2, AliasLasts
    <3> QED
      BY <3>2, <3>3 DEF Aliased
  <2>3. CASE \E m \in mcp : retained[m] = x
    <3>1. PICK m \in mcp : retained[m] = x
      BY <2>3
    <3>2. m \in mcp' /\ retained'[m] = x
      BY <3>1, ManagerLasts
    <3> QED
      BY <3>2
  <2>4. CASE stage[x] = "connecting" /\ About(x) \in mcp
    <3>1. About(x) \in Managers
      BY <2>4 DEF IInv, TypeOK
    <3>2. About(x) \in mcp'
      BY <2>4, <3>1, OthersOnRecord DEF AtLock
    <3>3. CASE x # c
      <4>1. stage'[x] = "connecting" /\ request'[x].about = About(x)
        BY <2>4, <3>3, Others DEF About
      <4> QED
        BY <3>2, <4>1
    <3>4. CASE x = c
      BY <2>4, <3>2, <3>4, ConnectEnds DEF About
    <3> QED
      BY <3>3, <3>4
  <2> QED
    BY <1>3, <2>1, <2>2, <2>3, <2>4 DEF IInv, Owned
<1> QED
  BY <1>1, <1>2, <1>3, Starts

\* What is owned has its slot.
LEMMA CallSlots ==
  ASSUME IInv, NEW c \in Calls, CallNext(c)
  PROVE  (mcp' \cup Unpublished' \cup Aliased') \subseteq registry'
<1> USE DEF Answer, Goes, Ends, Succeeds, Fails, LetsGo, Started, session, addresses, unpublished, aliases, framework, closes, Serves, Admitted
<1> USE DEF InFlight, Phases
<1> TypeOK /\ Minted /\ Subjects
  BY DEF IInv
<1>a. /\ mcp_clients \in [Calls -> Calls \cup {None}]
      /\ mcp_client_managers \in [Calls -> Managers \cup {None}]
      /\ retained \in [Managers -> Calls \cup {None}]
      /\ server \in [Calls -> {"none", "live", "closed"}]
      /\ stage \in [Calls \cup Closers -> Stage] /\ c \in Calls \cup Closers
      /\ request \in [Calls -> Request]
  BY DEF TypeOK, Stage, Request
<1>b. /\ \A d \in Calls \ {c} : stage'[d] = stage[d] /\ request'[d] = request[d]
      /\ \A s \in Closers : stage'[s] = stage[s]
      /\ stage[c] # "done"
  BY Others
<1> Locked /\ Follows
  BY DEF IInv
<1>d. (mcp \cup Unpublished \cup Aliased) \subseteq registry
  BY DEF IInv, Owned
<1>e. /\ Unpublished \cap known = {} /\ Aliased \subseteq known
      /\ mcp \subseteq Managers /\ Unpublished \subseteq Calls /\ Aliased \subseteq Calls
  BY DEF Minted, TypeOK, Unpublished, Aliased
<1>1. CASE Refuse(c)
  BY <1>a, <1>d, <1>e, <1>1 DEF Refuse, Unpublished, Aliased
<1>2. CASE Resolve(c)
  BY <1>a, <1>d, <1>e, <1>2 DEF Resolve, Unpublished, Aliased
<1>3. CASE Prepare(c)
  BY <1>a, <1>d, <1>e, <1>3 DEF Prepare, Unpublished, Aliased
<1>4. CASE Prepared(c)
  <2>1. c \in registry
    BY <1>d, <1>4 DEF Prepared, Minted, Unpublished
  <2> QED
    BY <1>a, <1>d, <1>e, <2>1, <1>4 DEF Prepared, Unpublished, Aliased
<1>5. CASE PreparationFails(c)
  BY <1>a, <1>d, <1>e, <1>5 DEF PreparationFails, Unpublished, Aliased
<1>6. CASE Settle(c)
  <2>1. c \notin mcp_cleanup_debt /\ mcp_clients[c] = None
    BY <1>6, <1>b DEF Settle, Minted
  <2> QED
    BY <1>a, <1>d, <1>e, <2>1, <1>6 DEF Settle, Unpublished, Aliased
<1>7. CASE Withdraw(c)
  BY <1>a, <1>d, <1>e, <1>7 DEF Withdraw, Unpublished, Aliased
<1>8. CASE Connect(c)
  BY <1>a, <1>d, <1>e, <1>8 DEF Connect, Unpublished, Aliased
<1>9. CASE Connected(c)
  BY <1>a, <1>d, <1>e, <1>9 DEF Connected, Retains, Aliases, Publishes, Unpublished, Aliased
<1>10. CASE Undo(c)
  BY <1>a, <1>d, <1>e, <1>10 DEF Undo, Unpublished, Aliased
<1>11. CASE ConnectedFromConfig(c)
  BY <1>a, <1>d, <1>e, <1>11 DEF ConnectedFromConfig, Retains, Publishes, Unpublished, Aliased
<1>12. CASE ConnectFails(c)
  BY <1>a, <1>d, <1>e, <1>12 DEF ConnectFails, Unpublished, Aliased
<1>13. CASE GetClient(c)
  BY <1>a, <1>d, <1>e, <1>13 DEF GetClient, Publishes, Aliases, Unpublished, Aliased
<1>14. CASE Disconnect(c)
  <2>1. AliasesOf(About(c)) \subseteq Aliased
    BY DEF AliasesOf, Aliased
  <2> QED
    BY <1>a, <1>d, <1>e, <2>1, <1>14 DEF Disconnect, Unpublished, Aliased, RemovesClients
<1>15. CASE CloseManager(c)
  BY <1>a, <1>d, <1>e, <1>15 DEF CloseManager, Unpublished, Aliased
<1>16. CASE CloseClient(c)
  <2>1. About(c) \in known \cap Calls
    BY <1>16 DEF CloseClient, Subjects, ManagerKinds
  <2> QED
    BY <1>a, <1>d, <1>e, <2>1, <1>16 DEF CloseClient, Unpublished, Aliased, RemovesClients
<1>17. CASE Fence(c)
  BY <1>a, <1>d, <1>e, <1>17 DEF Fence, Fences, Unpublished, Aliased
<1>18. CASE CloseResource(c)
  <2>1. About(c) \in known
    BY <1>18 DEF CloseResource, Subjects
  <2> QED
    BY <1>a, <1>d, <1>e, <2>1, <1>18 DEF CloseResource, Unpublished, Aliased, RemovesClients
<1>19. CASE Drop(c)
  BY <1>a, <1>d, <1>e, <1>19 DEF Drop, Cancels, Drops, Retains, Unpublished, Aliased
<1> QED
  BY <1>1, <1>2, <1>3, <1>4, <1>5, <1>6, <1>7, <1>8, <1>9, <1>10, <1>11, <1>12, <1>13, <1>14, <1>15, <1>16, <1>17, <1>18, <1>19 DEF CallNext

\* As long as something is in flight or may be, every slot is one of theirs.
LEMMA WasOpen ==
  ASSUME IInv, NEW c \in Calls, CallNext(c), ~closing' \/ Running' # {}
  PROVE  ~closing \/ Running # {}
<1> SUFFICES ASSUME closing, Running = {}
             PROVE  FALSE
  OBVIOUS
<1>1. Refuse(c) /\ closing'
  BY Quiet, CallMoves
<1>2. stage'[c] = "done"
  <2>1. stage \in [Calls \cup Closers -> Stage] /\ c \in Calls \cup Closers
    BY DEF IInv, TypeOK, Stage
  <2> QED
    BY <1>1, <2>1 DEF Refuse, Answer, Goes
<1>3. ASSUME NEW d \in Calls
      PROVE  stage'[d] \notin InFlight
  BY <1>2, Others DEF Running, InFlight
<1> QED
  BY <1>1, <1>3 DEF Running

LEMMA CallSees ==
  ASSUME IInv, NEW c \in Calls, CallNext(c), ~closing' \/ Running' # {},
         NEW y \in registry' \cap (Managers \cup Calls)
  PROVE  y \in mcp' \/ y \in Unpublished' \/ y \in Aliased'
<1> USE DEF Answer, Goes, Ends, Succeeds, Fails, LetsGo, Started, session, addresses, unpublished, aliases, framework, closes, Serves, Admitted
<1> USE DEF InFlight, Phases
<1> TypeOK /\ Minted /\ Subjects
  BY DEF IInv
<1>a. /\ mcp_clients \in [Calls -> Calls \cup {None}]
      /\ mcp_client_managers \in [Calls -> Managers \cup {None}]
      /\ retained \in [Managers -> Calls \cup {None}]
      /\ server \in [Calls -> {"none", "live", "closed"}]
      /\ stage \in [Calls \cup Closers -> Stage] /\ c \in Calls \cup Closers
      /\ request \in [Calls -> Request]
  BY DEF TypeOK, Stage, Request
<1>b. /\ \A d \in Calls \ {c} : stage'[d] = stage[d] /\ request'[d] = request[d]
      /\ \A s \in Closers : stage'[s] = stage[s]
      /\ stage[c] # "done"
  BY Others
<1> USE DEF Unpublished, Aliased
<1>d. y \in registry => y \in mcp \/ y \in Unpublished \/ y \in Aliased
  BY WasOpen DEF IInv, Owned
<1>e. y # Tool(c) /\ (y \in Managers => y \notin Calls)
  OBVIOUS
<1>1. CASE Refuse(c)
  BY <1>a, <1>d, <1>e, <1>1 DEF Refuse
<1>2. CASE Resolve(c)
  BY <1>a, <1>d, <1>e, <1>2 DEF Resolve
<1>3. CASE Prepare(c)
  BY <1>a, <1>d, <1>e, <1>3 DEF Prepare
<1>4. CASE Prepared(c)
  BY <1>a, <1>d, <1>e, <1>4 DEF Prepared
<1>5. CASE PreparationFails(c)
  BY <1>a, <1>d, <1>e, <1>5 DEF PreparationFails
<1>6. CASE Settle(c)
  BY <1>a, <1>d, <1>e, <1>6 DEF Settle
<1>7. CASE Withdraw(c)
  BY <1>a, <1>d, <1>e, <1>7 DEF Withdraw
<1>8. CASE Connect(c)
  BY <1>a, <1>d, <1>e, <1>8 DEF Connect
<1>9. CASE Connected(c)
  <2>1. y \in registry \/ (y = c /\ mcp_clients'[c] = c)
    BY <1>a, <1>e, <1>9 DEF Connected, Publishes, Aliases
  <2>2. mcp' = mcp /\ UNCHANGED unpublished
    BY <1>9 DEF Connected
  <2>3. \A a \in Calls : mcp_clients[a] # None => mcp_clients'[a] # None
    BY <1>a, <1>9 DEF Connected, Aliases
  <2> QED
    BY <1>d, <2>1, <2>2, <2>3
<1>10. CASE Undo(c)
  BY <1>a, <1>d, <1>e, <1>10 DEF Undo
<1>11. CASE ConnectedFromConfig(c)
  <2>1. y \in registry
    BY <1>e, <1>11 DEF ConnectedFromConfig, Publishes
  <2> QED
    BY <1>d, <2>1, <1>11 DEF ConnectedFromConfig
<1>12. CASE ConnectFails(c)
  BY <1>a, <1>d, <1>e, <1>12 DEF ConnectFails
<1>13. CASE GetClient(c)
  BY <1>a, <1>d, <1>e, <1>13 DEF GetClient, Publishes, Aliases
<1>14. CASE Disconnect(c)
  BY <1>a, <1>d, <1>e, <1>14 DEF Disconnect, RemovesClients, ForgetsManagers
<1>15. CASE CloseManager(c)
  BY <1>a, <1>d, <1>e, <1>15 DEF CloseManager
<1>16. CASE CloseClient(c)
  BY <1>a, <1>d, <1>e, <1>16 DEF CloseClient, RemovesClients, ForgetsManagers
<1>17. CASE Fence(c)
  BY <1>a, <1>d, <1>e, <1>17 DEF Fence, Fences
<1>18. CASE CloseResource(c)
  BY <1>a, <1>d, <1>e, <1>18 DEF CloseResource, RemovesClients, ForgetsManagers
<1>19. CASE Drop(c)
  BY <1>a, <1>d, <1>e, <1>19 DEF Drop, Cancels, Drops, Retains
<1> QED
  BY <1>1, <1>2, <1>3, <1>4, <1>5, <1>6, <1>7, <1>8, <1>9, <1>10, <1>11, <1>12, <1>13, <1>14, <1>15, <1>16, <1>17, <1>18, <1>19 DEF CallNext

LEMMA CallOwned ==
  ASSUME IInv, NEW c \in Calls, CallNext(c)
  PROVE  Owned'
<1>1. ASSUME released', NEW x \in Calls
      PROVE  server'[x] # "live"
  <2>1. closing /\ Running = {} /\ released
    BY <1>1, CallMoves DEF IInv, Closing
  <2>2. UNCHANGED server
    BY <2>1, Quiet DEF Refuse, framework
  <2> QED
    BY <2>1, <2>2 DEF IInv, Owned
<1>2. ~closing' \/ Running' # {} =>
        registry' \cap (Managers \cup Calls) \subseteq (mcp' \cup Unpublished' \cup Aliased')
  BY CallSees
<1>3. (mcp' \cup Unpublished' \cup Aliased') \subseteq registry'
  BY CallSlots
<1> QED
  BY <1>1, <1>2, <1>3, CallOwns DEF Owned, About

\* A request keeps the invariant.
LEMMA CallKeeps ==
  ASSUME IInv, NEW c \in Calls, CallNext(c)
  PROVE  IInv'
BY CallTypeOK, CallMinted, CallSubjects, CallLocked, CallFollows, CallClosing, CallOwned DEF IInv

-----------------------------------------------------------------------------
(* What a closer makes of it.                                              *)

CloserStep(s) == BeginClose(s) \/ CloserNext(s) \/ Abandon(s)

LEMMA CloserMoves ==
  ASSUME IInv, NEW s \in Closers, CloserStep(s)
  PROVE  /\ UNCHANGED <<request, known, fenced>> /\ registry' \subseteq registry
         /\ stage'[s] \in Stage /\ stage' = [stage EXCEPT ![s] = stage'[s]]
<1> USE DEF Goes, Returns, Ends, Succeeds, Fails, LetsGo, session, addresses, unpublished, aliases, framework, closes, Stage
<1>a. /\ stage \in [Calls \cup Closers -> Stage] /\ s \in Calls \cup Closers /\ s \notin Calls
      /\ left \in [Closers -> SUBSET (Managers \cup Calls)] /\ failed \in [Closers -> BOOLEAN]
      /\ mcp_clients \in [Calls -> Calls \cup {None}]
      /\ mcp_client_managers \in [Calls -> Managers \cup {None}]
      /\ retained \in [Managers -> Calls \cup {None}]
      /\ server \in [Calls -> {"none", "live", "closed"}]
      /\ mcp \subseteq Managers
  BY DEF IInv, TypeOK, Stage
<1> USE DEF Phases
<1>1. CASE BeginClose(s)
  BY <1>a, <1>1 DEF BeginClose
<1>2. CASE TakeLifecycle(s)
  BY <1>a, <1>2 DEF TakeLifecycle
<1>3. CASE ToClients(s)
  BY <1>a, <1>3 DEF ToClients
<1>4. CASE ToDebts(s)
  BY <1>a, <1>4 DEF ToDebts, ForgetsManagers
<1>5. CASE Finish(s)
  BY <1>a, <1>5 DEF Finish
<1>6. CASE Abandon(s)
  BY <1>a, <1>6 DEF Abandon
<1>7. ASSUME NEW y \in Managers \cup Calls, CloseNext(s, y)
      PROVE  /\ UNCHANGED <<request, known, fenced>> /\ registry' \subseteq registry
             /\ stage'[s] \in Stage /\ stage' = [stage EXCEPT ![s] = stage'[s]]
  BY <1>a, <1>7 DEF CloseNext, RemovesClients
<1> QED
  BY <1>1, <1>2, <1>3, <1>4, <1>5, <1>6, <1>7 DEF CloserStep, CloserNext

LEMMA CallsStay ==
  ASSUME IInv, NEW s \in Closers, CloserStep(s)
  PROVE  /\ \A c \in Calls : stage'[c] = stage[c]
         /\ \A d \in Closers \ {s} : stage'[d] = stage[d]
         /\ Running' = Running
<1>1. stage \in [Calls \cup Closers -> Stage] /\ Calls \cap Closers = {}
  BY DEF IInv, TypeOK, Stage
<1>2. /\ \A c \in Calls : stage'[c] = stage[c]
      /\ \A d \in Closers \ {s} : stage'[d] = stage[d]
  BY <1>1, CloserMoves
<1> QED
  BY <1>2 DEF Running

LEMMA CloserTypes ==
  ASSUME IInv, NEW s \in Closers, CloserStep(s)
  PROVE  /\ mcp' \subseteq Managers /\ closing' \in BOOLEAN /\ released' \in BOOLEAN
         /\ mcp_preparations' \subseteq Calls /\ mcp_cleanup_debt' \subseteq Calls
         /\ mcp_clients' \in [Calls -> Calls \cup {None}]
         /\ mcp_client_managers' \in [Calls -> Managers \cup {None}]
         /\ retained' \in [Managers -> Calls \cup {None}]
         /\ server' \in [Calls -> {"none", "live", "closed"}]
         /\ faults' \in 0 .. MaxFaults
<1> USE DEF Goes, Returns, Ends, Succeeds, Fails, LetsGo, session, addresses, unpublished, aliases, framework, closes, Phases
<1>a. /\ stage \in [Calls \cup Closers -> Stage] /\ s \in Calls \cup Closers /\ s \notin Calls
      /\ left \in [Closers -> SUBSET (Managers \cup Calls)] /\ failed \in [Closers -> BOOLEAN]
      /\ mcp_clients \in [Calls -> Calls \cup {None}]
      /\ mcp_client_managers \in [Calls -> Managers \cup {None}]
      /\ retained \in [Managers -> Calls \cup {None}]
      /\ server \in [Calls -> {"none", "live", "closed"}]
      /\ mcp \subseteq Managers
  BY DEF IInv, TypeOK, Stage
<1>b. stage[s] = "managers" => left[s] \subseteq Managers
  BY DEF IInv, Closing
<1>c. stage[s] \in {"clients", "debts"} => left[s] \subseteq Calls
  BY DEF IInv, Closing
<1>d. mcp_preparations \subseteq Calls /\ mcp_cleanup_debt \subseteq Calls /\ faults \in 0 .. MaxFaults
  BY DEF IInv, TypeOK
<1>e. closing \in BOOLEAN /\ released \in BOOLEAN
  BY DEF IInv, TypeOK
<1>1. CASE BeginClose(s)
  BY <1>a, <1>b, <1>c, <1>d, <1>e, <1>1 DEF BeginClose
<1>2. CASE TakeLifecycle(s)
  BY <1>a, <1>b, <1>c, <1>d, <1>e, <1>2 DEF TakeLifecycle
<1>3. CASE ToClients(s)
  BY <1>a, <1>b, <1>c, <1>d, <1>e, <1>3 DEF ToClients
<1>4. CASE ToDebts(s)
  BY <1>a, <1>b, <1>c, <1>d, <1>e, <1>4 DEF ToDebts, ForgetsManagers
<1>5. CASE Finish(s)
  <2>1. /\ UNCHANGED <<mcp, mcp_preparations, mcp_cleanup_debt, closing>>
        /\ UNCHANGED <<mcp_clients, mcp_client_managers, retained, server>>
    BY <1>5 DEF Finish
  <2>2. released' \in BOOLEAN
    BY <1>e, <1>5 DEF Finish
  <2>3. faults' \in 0 .. MaxFaults
    BY <1>d, <1>5 DEF Finish
  <2> QED
    BY <1>a, <1>d, <1>e, <2>1, <2>2, <2>3
<1>6. CASE Abandon(s)
  BY <1>a, <1>b, <1>c, <1>d, <1>e, <1>6 DEF Abandon
<1>7. ASSUME NEW y \in Managers \cup Calls, CloseNext(s, y)
      PROVE  /\ mcp' \subseteq Managers /\ closing' \in BOOLEAN /\ released' \in BOOLEAN
             /\ mcp_preparations' \subseteq Calls /\ mcp_cleanup_debt' \subseteq Calls
             /\ mcp_clients' \in [Calls -> Calls \cup {None}]
             /\ mcp_client_managers' \in [Calls -> Managers \cup {None}]
             /\ retained' \in [Managers -> Calls \cup {None}]
             /\ server' \in [Calls -> {"none", "live", "closed"}]
             /\ faults' \in 0 .. MaxFaults
  <2>1. CASE stage[s] = "managers"
    BY <1>a, <1>b, <1>c, <1>d, <1>e, <2>1, <1>7 DEF CloseNext
  <2>2. CASE stage[s] = "clients"
    BY <1>a, <1>b, <1>c, <1>d, <1>e, <2>2, <1>7 DEF CloseNext, RemovesClients
  <2>3. CASE stage[s] = "debts"
    BY <1>a, <1>b, <1>c, <1>d, <1>e, <2>3, <1>7 DEF CloseNext
  <2> QED
    BY <2>1, <2>2, <2>3, <1>7 DEF CloseNext
<1> QED
  BY <1>1, <1>2, <1>3, <1>4, <1>5, <1>6, <1>7 DEF CloserStep, CloserNext

LEMMA CloserLists ==
  ASSUME IInv, NEW s \in Closers, CloserStep(s)
  PROVE  left' \in [Closers -> SUBSET (Managers \cup Calls)] /\ failed' \in [Closers -> BOOLEAN]
<1> USE DEF Goes, Returns, Ends, Succeeds, Fails, LetsGo, session, addresses, unpublished, aliases, framework, closes, Phases
<1>a. /\ stage \in [Calls \cup Closers -> Stage] /\ s \in Calls \cup Closers /\ s \notin Calls
      /\ left \in [Closers -> SUBSET (Managers \cup Calls)] /\ failed \in [Closers -> BOOLEAN]
      /\ mcp_clients \in [Calls -> Calls \cup {None}]
      /\ mcp_client_managers \in [Calls -> Managers \cup {None}]
      /\ retained \in [Managers -> Calls \cup {None}]
      /\ server \in [Calls -> {"none", "live", "closed"}]
      /\ mcp \subseteq Managers
  BY DEF IInv, TypeOK, Stage
<1>b. stage[s] = "managers" => left[s] \subseteq Managers
  BY DEF IInv, Closing
<1>c. stage[s] \in {"clients", "debts"} => left[s] \subseteq Calls
  BY DEF IInv, Closing
<1>d. mcp_preparations \subseteq Calls /\ mcp_cleanup_debt \subseteq Calls /\ faults \in 0 .. MaxFaults
  BY DEF IInv, TypeOK
<1>e. closing \in BOOLEAN /\ released \in BOOLEAN
  BY DEF IInv, TypeOK
<1>1. CASE BeginClose(s)
  BY <1>a, <1>b, <1>c, <1>d, <1>e, <1>1 DEF BeginClose
<1>2. CASE TakeLifecycle(s)
  <2>1. CASE UNCHANGED <<left, failed>>
    BY <1>a, <2>1
  <2>2. CASE left' = [left EXCEPT ![s] = mcp] /\ failed' = [failed EXCEPT ![s] = FALSE]
    BY <1>a, <2>2
  <2> QED
    BY <2>1, <2>2, <1>2 DEF TakeLifecycle
<1>3. CASE ToClients(s)
  BY <1>a, <1>b, <1>c, <1>d, <1>e, <1>3 DEF ToClients
<1>4. CASE ToDebts(s)
  BY <1>a, <1>b, <1>c, <1>d, <1>e, <1>4 DEF ToDebts, ForgetsManagers
<1>5. CASE Finish(s)
  BY <1>a, <1>b, <1>c, <1>d, <1>e, <1>5 DEF Finish
<1>6. CASE Abandon(s)
  BY <1>a, <1>b, <1>c, <1>d, <1>e, <1>6 DEF Abandon
<1>7. ASSUME NEW y \in Managers \cup Calls, CloseNext(s, y)
      PROVE  left' \in [Closers -> SUBSET (Managers \cup Calls)] /\ failed' \in [Closers -> BOOLEAN]
  BY <1>a, <1>b, <1>c, <1>d, <1>e, <1>7 DEF CloseNext, RemovesClients
<1> QED
  BY <1>1, <1>2, <1>3, <1>4, <1>5, <1>6, <1>7 DEF CloserStep, CloserNext

LEMMA CloserTypeOK ==
  ASSUME IInv, NEW s \in Closers, CloserStep(s)
  PROVE  TypeOK' /\ IsFiniteSet(registry')
<1>1. TypeOK /\ IsFiniteSet(registry)
  BY DEF IInv, Minted
<1>2. /\ registry' \subseteq Addresses /\ IsFiniteSet(registry')
      /\ Cardinality(registry') <= MaxResources
  BY <1>1, CloserMoves, RoomKept DEF Room
<1>3. stage' \in [Calls \cup Closers -> Stage]
  <2>1. stage \in [Calls \cup Closers -> Stage] /\ s \in Calls \cup Closers
    BY <1>1 DEF TypeOK, Stage
  <2>2. stage' = [stage EXCEPT ![s] = stage'[s]] /\ stage'[s] \in Stage
    BY CloserMoves
  <2> QED
    BY <2>1, <2>2
<1> QED
  BY <1>1, <1>2, <1>3, CloserMoves, CloserTypes, CloserLists DEF TypeOK, Stage

\* A closer adds nothing, and what it touches it finds with nothing in flight.
LEMMA CloserTakes ==
  ASSUME IInv, NEW s \in Closers, CloserStep(s)
  PROVE  /\ mcp' \subseteq mcp
         /\ mcp_preparations' \subseteq mcp_preparations /\ mcp_cleanup_debt' \subseteq mcp_cleanup_debt
         /\ \A a \in Calls : mcp_clients'[a] \in {None, mcp_clients[a]}
         /\ \A a \in Calls : mcp_client_managers'[a] \in {None, mcp_client_managers[a]}
         /\ \A m \in Managers : retained'[m] \in {None, retained[m]}
         /\ \A x \in Calls : server'[x] \in {server[x], "closed"}
         /\ closing => closing'
<1> USE DEF Goes, Returns, Ends, Succeeds, Fails, LetsGo, session, addresses, unpublished, aliases, framework, closes, Phases
<1>a. /\ stage \in [Calls \cup Closers -> Stage] /\ s \in Calls \cup Closers /\ s \notin Calls
      /\ left \in [Closers -> SUBSET (Managers \cup Calls)] /\ failed \in [Closers -> BOOLEAN]
      /\ mcp_clients \in [Calls -> Calls \cup {None}]
      /\ mcp_client_managers \in [Calls -> Managers \cup {None}]
      /\ retained \in [Managers -> Calls \cup {None}]
      /\ server \in [Calls -> {"none", "live", "closed"}]
      /\ mcp \subseteq Managers
  BY DEF IInv, TypeOK, Stage
<1>b. stage[s] = "managers" => left[s] \subseteq Managers
  BY DEF IInv, Closing
<1>c. stage[s] \in {"clients", "debts"} => left[s] \subseteq Calls
  BY DEF IInv, Closing
<1>d. mcp_preparations \subseteq Calls /\ mcp_cleanup_debt \subseteq Calls /\ faults \in 0 .. MaxFaults
  BY DEF IInv, TypeOK
<1>e. closing \in BOOLEAN /\ released \in BOOLEAN
  BY DEF IInv, TypeOK
<1>1. CASE BeginClose(s)
  BY <1>a, <1>b, <1>c, <1>d, <1>e, <1>1 DEF BeginClose
<1>2. CASE TakeLifecycle(s)
  BY <1>a, <1>b, <1>c, <1>d, <1>e, <1>2 DEF TakeLifecycle
<1>3. CASE ToClients(s)
  BY <1>a, <1>b, <1>c, <1>d, <1>e, <1>3 DEF ToClients
<1>4. CASE ToDebts(s)
  BY <1>a, <1>b, <1>c, <1>d, <1>e, <1>4 DEF ToDebts, ForgetsManagers
<1>5. CASE Finish(s)
  BY <1>a, <1>b, <1>c, <1>d, <1>e, <1>5 DEF Finish
<1>6. CASE Abandon(s)
  BY <1>a, <1>b, <1>c, <1>d, <1>e, <1>6 DEF Abandon
<1>7. ASSUME NEW y \in Managers \cup Calls, CloseNext(s, y)
      PROVE  /\ mcp' \subseteq mcp
             /\ mcp_preparations' \subseteq mcp_preparations /\ mcp_cleanup_debt' \subseteq mcp_cleanup_debt
             /\ \A a \in Calls : mcp_clients'[a] \in {None, mcp_clients[a]}
             /\ \A a \in Calls : mcp_client_managers'[a] \in {None, mcp_client_managers[a]}
             /\ \A m \in Managers : retained'[m] \in {None, retained[m]}
             /\ \A x \in Calls : server'[x] \in {server[x], "closed"}
             /\ closing => closing'
  <2>1. CASE stage[s] = "managers"
    BY <1>a, <1>b, <1>c, <1>d, <1>e, <2>1, <1>7 DEF CloseNext
  <2>2. CASE stage[s] = "clients"
    BY <1>a, <1>b, <1>c, <1>d, <1>e, <2>2, <1>7 DEF CloseNext, RemovesClients
  <2>3. CASE stage[s] = "debts"
    BY <1>a, <1>b, <1>c, <1>d, <1>e, <2>3, <1>7 DEF CloseNext
  <2> QED
    BY <2>1, <2>2, <2>3, <1>7 DEF CloseNext
<1> QED
  BY <1>1, <1>2, <1>3, <1>4, <1>5, <1>6, <1>7 DEF CloserStep, CloserNext

LEMMA CloserTouches ==
  ASSUME IInv, NEW s \in Closers, CloserStep(s)
  PROVE  \/ closing /\ Running = {}
         \/ /\ UNCHANGED <<mcp, retained, mcp_clients, mcp_preparations, mcp_cleanup_debt>>
            /\ UNCHANGED <<server, registry, mcp_client_managers>>
<1> USE DEF Goes, Returns, Ends, Succeeds, Fails, LetsGo, session, addresses, unpublished, aliases, framework, closes, Phases
<1>f. stage[s] \in Phases => closing /\ Running = {}
  BY DEF IInv, Closing
<1>1. CASE BeginClose(s)
  BY <1>f, <1>1 DEF BeginClose
<1>2. CASE TakeLifecycle(s)
  BY <1>f, <1>2 DEF TakeLifecycle
<1>3. CASE ToClients(s)
  BY <1>f, <1>3 DEF ToClients
<1>4. CASE ToDebts(s)
  BY <1>f, <1>4 DEF ToDebts, ForgetsManagers
<1>5. CASE Finish(s)
  BY <1>f, <1>5 DEF Finish
<1>6. CASE Abandon(s)
  BY <1>f, <1>6 DEF Abandon
<1>7. ASSUME NEW y \in Managers \cup Calls, CloseNext(s, y)
      PROVE  \/ closing /\ Running = {}
             \/ /\ UNCHANGED <<mcp, retained, mcp_clients, mcp_preparations, mcp_cleanup_debt>>
                /\ UNCHANGED <<server, registry, mcp_client_managers>>
  BY <1>f, <1>7 DEF CloseNext, RemovesClients
<1> QED
  BY <1>1, <1>2, <1>3, <1>4, <1>5, <1>6, <1>7 DEF CloserStep, CloserNext

LEMMA CloserMinted ==
  ASSUME IInv, NEW s \in Closers, CloserStep(s)
  PROVE  Minted'
<1>1. Minted /\ TypeOK
  BY DEF IInv
<1>2. /\ IsFiniteSet(registry') /\ known' = known
      /\ \A c \in Calls : stage'[c] = stage[c]
  BY CloserTypeOK, CloserMoves, CallsStay
<1>3. \A c \in Calls : stage[c] = "preparing" => c \in mcp_preparations'
  <2>1. ASSUME NEW c \in Calls, stage[c] = "preparing"
        PROVE  Running # {}
    BY <2>1 DEF Running, InFlight
  <2> QED
    BY <1>1, <2>1, CloserTouches DEF Minted
<1>4. \A c \in Calls : mcp_clients'[c] # None => stage[mcp_clients'[c]] \in {"undoing", "done"}
  BY <1>1, CloserTakes DEF Minted
<1>5. \A c \in Calls : mcp_clients'[c] # None => stage'[mcp_clients'[c]] \in {"undoing", "done"}
  BY <1>2, <1>4, CloserTypes
<1>6. \A m \in Managers : retained'[m] # None => stage[retained'[m]] \in {"undoing", "done"}
  BY <1>1, CloserTakes DEF Minted
<1>7. \A m \in Managers : retained'[m] # None => stage'[retained'[m]] \in {"undoing", "done"}
  BY <1>2, <1>6, CloserTypes
<1>8. ASSUME NEW c \in Calls
      PROVE  /\ c \in known' => stage'[c] = "done"
             /\ c \notin known' => mcp_clients'[c] = None /\ mcp_client_managers'[c] = None
             /\ c \in mcp_preparations' => c \notin known' /\ stage'[c] \in {"preparing", "settling", "done"}
             /\ c \in mcp_cleanup_debt' => c \notin known' /\ stage'[c] \in {"withdrawing", "done"}
             /\ stage'[c] = "preparing" => c \in mcp_preparations'
  BY <1>1, <1>2, <1>3, CloserTakes DEF Minted
<1> QED
  BY <1>2, <1>5, <1>7, <1>8 DEF Minted

LEMMA CloserSubjects ==
  ASSUME IInv, NEW s \in Closers, CloserStep(s)
  PROVE  Subjects'
<1>1. Subjects
  BY DEF IInv
<1>2. /\ UNCHANGED <<request, known, fenced>>
      /\ \A c \in Calls : stage'[c] = stage[c]
      /\ \A a \in Calls : mcp_clients'[a] \in {None, mcp_clients[a]}
  BY CloserMoves, CallsStay, CloserTakes
<1>3. ASSUME NEW c \in Calls
      PROVE  MayAsk(request[c].kind, About(c))' <=> MayAsk(request[c].kind, About(c))
  BY <1>2 DEF MayAsk, About
<1> QED
  BY <1>1, <1>2, <1>3 DEF Subjects, About

LEMMA CloserLocked ==
  ASSUME IInv, NEW s \in Closers, CloserStep(s)
  PROVE  Locked'
<1>1. Locked /\ Subjects
  BY DEF IInv
<1>2. /\ request' = request /\ \A c \in Calls : stage'[c] = stage[c]
  BY CloserMoves, CallsStay
<1>3. CASE Running = {}
  <2>1. ASSUME NEW c \in Calls
        PROVE  stage'[c] \notin InFlight
    BY <1>2, <1>3 DEF Running
  <2>2. ASSUME NEW c \in Calls
        PROVE  stage'[c] \notin AtLock \cup {"fenced"}
    BY <2>1 DEF InFlight, AtLock
  <2> QED
    BY <2>2 DEF Locked, AtLock
<1>4. CASE UNCHANGED <<mcp, retained>>
  BY <1>1, <1>2, <1>4 DEF Locked, About
<1> QED
  BY <1>3, <1>4, CloserTouches

\* A closer withdraws an alias, and takes from a manager, what it has closed.
LEMMA CloserAliasLasts ==
  ASSUME IInv, NEW a \in Calls, mcp_clients[a] # None, NEW s \in Closers, CloserStep(s)
  PROVE  mcp_clients'[a] = mcp_clients[a] \/ server'[mcp_clients[a]] = "closed"
<1> USE DEF Goes, Returns, Ends, Succeeds, Fails, LetsGo, session, addresses, unpublished, aliases, framework, closes, Phases
<1>a. /\ stage \in [Calls \cup Closers -> Stage] /\ s \in Calls \cup Closers /\ s \notin Calls
      /\ left \in [Closers -> SUBSET (Managers \cup Calls)] /\ failed \in [Closers -> BOOLEAN]
      /\ mcp_clients \in [Calls -> Calls \cup {None}]
      /\ mcp_client_managers \in [Calls -> Managers \cup {None}]
      /\ retained \in [Managers -> Calls \cup {None}]
      /\ server \in [Calls -> {"none", "live", "closed"}]
      /\ mcp \subseteq Managers
  BY DEF IInv, TypeOK, Stage
<1>b. stage[s] = "managers" => left[s] \subseteq Managers
  BY DEF IInv, Closing
<1>c. stage[s] \in {"clients", "debts"} => left[s] \subseteq Calls
  BY DEF IInv, Closing
<1>d. mcp_preparations \subseteq Calls /\ mcp_cleanup_debt \subseteq Calls /\ faults \in 0 .. MaxFaults
  BY DEF IInv, TypeOK
<1>e. closing \in BOOLEAN /\ released \in BOOLEAN
  BY DEF IInv, TypeOK
<1>f. mcp_clients[a] # None => mcp_clients[a] \in Behind({a})
  BY DEF Behind
<1>1. CASE BeginClose(s)
  BY <1>a, <1>b, <1>c, <1>d, <1>e, <1>1 DEF BeginClose
<1>2. CASE TakeLifecycle(s)
  BY <1>a, <1>b, <1>c, <1>d, <1>e, <1>2 DEF TakeLifecycle
<1>3. CASE ToClients(s)
  BY <1>a, <1>b, <1>c, <1>d, <1>e, <1>3 DEF ToClients
<1>4. CASE ToDebts(s)
  BY <1>a, <1>b, <1>c, <1>d, <1>e, <1>4 DEF ToDebts, ForgetsManagers
<1>5. CASE Finish(s)
  BY <1>a, <1>b, <1>c, <1>d, <1>e, <1>5 DEF Finish
<1>6. CASE Abandon(s)
  BY <1>a, <1>b, <1>c, <1>d, <1>e, <1>6 DEF Abandon
<1>7. ASSUME NEW y \in Managers \cup Calls, CloseNext(s, y)
      PROVE  mcp_clients'[a] = mcp_clients[a] \/ server'[mcp_clients[a]] = "closed"
  <2>1. CASE y = a /\ stage[s] = "clients"
    <3>1. UNCHANGED mcp_clients \/ Ends(Behind({a}))
      BY <2>1, <1>7 DEF CloseNext
    <3> QED
      BY <1>a, <1>f, <3>1
  <2>2. CASE y # a \/ stage[s] # "clients"
    <3>1. UNCHANGED mcp_clients \/ (RemovesClients({y}) /\ y # a)
      BY <2>2, <1>7 DEF CloseNext
    <3> QED
      BY <1>a, <3>1 DEF RemovesClients
  <2> QED
    BY <2>1, <2>2
<1> QED
  BY <1>1, <1>2, <1>3, <1>4, <1>5, <1>6, <1>7 DEF CloserStep, CloserNext

LEMMA CloserManagerLasts ==
  ASSUME IInv, NEW m \in mcp, retained[m] # None, NEW s \in Closers, CloserStep(s)
  PROVE  \/ m \in mcp' /\ retained'[m] = retained[m]
         \/ server'[retained[m]] = "closed"
<1> USE DEF Goes, Returns, Ends, Succeeds, Fails, LetsGo, session, addresses, unpublished, aliases, framework, closes, Phases
<1>a. /\ stage \in [Calls \cup Closers -> Stage] /\ s \in Calls \cup Closers /\ s \notin Calls
      /\ left \in [Closers -> SUBSET (Managers \cup Calls)] /\ failed \in [Closers -> BOOLEAN]
      /\ mcp_clients \in [Calls -> Calls \cup {None}]
      /\ mcp_client_managers \in [Calls -> Managers \cup {None}]
      /\ retained \in [Managers -> Calls \cup {None}]
      /\ server \in [Calls -> {"none", "live", "closed"}]
      /\ mcp \subseteq Managers
  BY DEF IInv, TypeOK, Stage
<1>b. stage[s] = "managers" => left[s] \subseteq Managers
  BY DEF IInv, Closing
<1>c. stage[s] \in {"clients", "debts"} => left[s] \subseteq Calls
  BY DEF IInv, Closing
<1>d. mcp_preparations \subseteq Calls /\ mcp_cleanup_debt \subseteq Calls /\ faults \in 0 .. MaxFaults
  BY DEF IInv, TypeOK
<1>e. closing \in BOOLEAN /\ released \in BOOLEAN
  BY DEF IInv, TypeOK
<1>1. CASE BeginClose(s)
  BY <1>a, <1>b, <1>c, <1>d, <1>e, <1>1 DEF BeginClose
<1>2. CASE TakeLifecycle(s)
  BY <1>a, <1>b, <1>c, <1>d, <1>e, <1>2 DEF TakeLifecycle
<1>3. CASE ToClients(s)
  BY <1>a, <1>b, <1>c, <1>d, <1>e, <1>3 DEF ToClients
<1>4. CASE ToDebts(s)
  BY <1>a, <1>b, <1>c, <1>d, <1>e, <1>4 DEF ToDebts, ForgetsManagers
<1>5. CASE Finish(s)
  BY <1>a, <1>b, <1>c, <1>d, <1>e, <1>5 DEF Finish
<1>6. CASE Abandon(s)
  BY <1>a, <1>b, <1>c, <1>d, <1>e, <1>6 DEF Abandon
<1>7. ASSUME NEW y \in Managers \cup Calls, CloseNext(s, y)
      PROVE  \/ m \in mcp' /\ retained'[m] = retained[m]
             \/ server'[retained[m]] = "closed"
  <2>1. CASE stage[s] = "managers"
    BY <1>a, <1>b, <1>c, <1>d, <1>e, <2>1, <1>7 DEF CloseNext
  <2>2. CASE stage[s] = "clients"
    BY <1>a, <1>b, <1>c, <1>d, <1>e, <2>2, <1>7 DEF CloseNext, RemovesClients
  <2>3. CASE stage[s] = "debts"
    BY <1>a, <1>b, <1>c, <1>d, <1>e, <2>3, <1>7 DEF CloseNext
  <2> QED
    BY <2>1, <2>2, <2>3, <1>7 DEF CloseNext
<1> QED
  BY <1>1, <1>2, <1>3, <1>4, <1>5, <1>6, <1>7 DEF CloserStep, CloserNext

LEMMA CloserRetains ==
  ASSUME IInv, NEW m \in Managers, retained[m] # None, NEW s \in Closers, CloserStep(s)
  PROVE  \/ retained'[m] = retained[m]
         \/ server'[retained[m]] = "closed"
<1> USE DEF Goes, Returns, Ends, Succeeds, Fails, LetsGo, session, addresses, unpublished, aliases, framework, closes, Phases
<1>a. /\ stage \in [Calls \cup Closers -> Stage] /\ s \in Calls \cup Closers /\ s \notin Calls
      /\ left \in [Closers -> SUBSET (Managers \cup Calls)] /\ failed \in [Closers -> BOOLEAN]
      /\ mcp_clients \in [Calls -> Calls \cup {None}]
      /\ mcp_client_managers \in [Calls -> Managers \cup {None}]
      /\ retained \in [Managers -> Calls \cup {None}]
      /\ server \in [Calls -> {"none", "live", "closed"}]
      /\ mcp \subseteq Managers
  BY DEF IInv, TypeOK, Stage
<1>b. stage[s] = "managers" => left[s] \subseteq Managers
  BY DEF IInv, Closing
<1>c. stage[s] \in {"clients", "debts"} => left[s] \subseteq Calls
  BY DEF IInv, Closing
<1>d. mcp_preparations \subseteq Calls /\ mcp_cleanup_debt \subseteq Calls /\ faults \in 0 .. MaxFaults
  BY DEF IInv, TypeOK
<1>e. closing \in BOOLEAN /\ released \in BOOLEAN
  BY DEF IInv, TypeOK
<1>1. CASE BeginClose(s)
  BY <1>a, <1>b, <1>c, <1>d, <1>e, <1>1 DEF BeginClose
<1>2. CASE TakeLifecycle(s)
  BY <1>a, <1>b, <1>c, <1>d, <1>e, <1>2 DEF TakeLifecycle
<1>3. CASE ToClients(s)
  BY <1>a, <1>b, <1>c, <1>d, <1>e, <1>3 DEF ToClients
<1>4. CASE ToDebts(s)
  BY <1>a, <1>b, <1>c, <1>d, <1>e, <1>4 DEF ToDebts, ForgetsManagers
<1>5. CASE Finish(s)
  BY <1>a, <1>b, <1>c, <1>d, <1>e, <1>5 DEF Finish
<1>6. CASE Abandon(s)
  BY <1>a, <1>b, <1>c, <1>d, <1>e, <1>6 DEF Abandon
<1>7. ASSUME NEW y \in Managers \cup Calls, CloseNext(s, y)
      PROVE  \/ retained'[m] = retained[m]
             \/ server'[retained[m]] = "closed"
  <2>1. CASE stage[s] = "managers"
    BY <1>a, <1>b, <1>c, <1>d, <1>e, <2>1, <1>7 DEF CloseNext
  <2>2. CASE stage[s] = "clients"
    BY <1>a, <1>b, <1>c, <1>d, <1>e, <2>2, <1>7 DEF CloseNext, RemovesClients
  <2>3. CASE stage[s] = "debts"
    BY <1>a, <1>b, <1>c, <1>d, <1>e, <2>3, <1>7 DEF CloseNext
  <2> QED
    BY <2>1, <2>2, <2>3, <1>7 DEF CloseNext
<1> QED
  BY <1>1, <1>2, <1>3, <1>4, <1>5, <1>6, <1>7 DEF CloserStep, CloserNext

LEMMA CloserUnpublishedLasts ==
  ASSUME IInv, NEW x \in Unpublished, NEW s \in Closers, CloserStep(s)
  PROVE  x \in Unpublished' \/ server'[x] = "closed"
<1> USE DEF Goes, Returns, Ends, Succeeds, Fails, LetsGo, session, addresses, unpublished, aliases, framework, closes, Phases, Unpublished
<1>a. /\ stage \in [Calls \cup Closers -> Stage] /\ s \in Calls \cup Closers /\ s \notin Calls
      /\ left \in [Closers -> SUBSET (Managers \cup Calls)] /\ failed \in [Closers -> BOOLEAN]
      /\ mcp_clients \in [Calls -> Calls \cup {None}]
      /\ mcp_client_managers \in [Calls -> Managers \cup {None}]
      /\ retained \in [Managers -> Calls \cup {None}]
      /\ server \in [Calls -> {"none", "live", "closed"}]
      /\ mcp \subseteq Managers
  BY DEF IInv, TypeOK, Stage
<1>b. stage[s] = "managers" => left[s] \subseteq Managers
  BY DEF IInv, Closing
<1>c. stage[s] \in {"clients", "debts"} => left[s] \subseteq Calls
  BY DEF IInv, Closing
<1>d. mcp_preparations \subseteq Calls /\ mcp_cleanup_debt \subseteq Calls /\ faults \in 0 .. MaxFaults
  BY DEF IInv, TypeOK
<1>e. closing \in BOOLEAN /\ released \in BOOLEAN
  BY DEF IInv, TypeOK
<1>1. CASE BeginClose(s)
  BY <1>a, <1>b, <1>c, <1>d, <1>e, <1>1 DEF BeginClose
<1>2. CASE TakeLifecycle(s)
  BY <1>a, <1>b, <1>c, <1>d, <1>e, <1>2 DEF TakeLifecycle
<1>3. CASE ToClients(s)
  BY <1>a, <1>b, <1>c, <1>d, <1>e, <1>3 DEF ToClients
<1>4. CASE ToDebts(s)
  BY <1>a, <1>b, <1>c, <1>d, <1>e, <1>4 DEF ToDebts, ForgetsManagers
<1>5. CASE Finish(s)
  BY <1>a, <1>b, <1>c, <1>d, <1>e, <1>5 DEF Finish
<1>6. CASE Abandon(s)
  BY <1>a, <1>b, <1>c, <1>d, <1>e, <1>6 DEF Abandon
<1>7. ASSUME NEW y \in Managers \cup Calls, CloseNext(s, y)
      PROVE  x \in Unpublished' \/ server'[x] = "closed"
  <2>1. CASE stage[s] = "managers"
    BY <1>a, <1>b, <1>c, <1>d, <1>e, <2>1, <1>7 DEF CloseNext
  <2>2. CASE stage[s] = "clients"
    BY <1>a, <1>b, <1>c, <1>d, <1>e, <2>2, <1>7 DEF CloseNext, RemovesClients
  <2>3. CASE stage[s] = "debts"
    BY <1>a, <1>b, <1>c, <1>d, <1>e, <2>3, <1>7 DEF CloseNext
  <2> QED
    BY <2>1, <2>2, <2>3, <1>7 DEF CloseNext
<1> QED
  BY <1>1, <1>2, <1>3, <1>4, <1>5, <1>6, <1>7 DEF CloserStep, CloserNext

LEMMA CloserFollows ==
  ASSUME IInv, NEW s \in Closers, CloserStep(s)
  PROVE  Follows'
<1> SUFFICES ASSUME NEW a \in Calls, mcp_clients'[a] # None, mcp_client_managers'[a] \in Managers
             PROVE  \/ server'[mcp_clients'[a]] = "closed"
                    \/ retained'[mcp_client_managers'[a]] = mcp_clients'[a]
  BY DEF Follows, Aliased
<1>1. mcp_clients'[a] = mcp_clients[a] /\ mcp_client_managers'[a] = mcp_client_managers[a]
  BY CloserTakes
<1>2. mcp_clients[a] \in Calls /\ mcp_clients[a] # None
  BY <1>1 DEF IInv, TypeOK
<1>3. CASE server[mcp_clients[a]] = "closed"
  BY <1>1, <1>2, <1>3, CloserTakes
<1>4. CASE retained[mcp_client_managers[a]] = mcp_clients[a]
  <2> DEFINE m == mcp_client_managers[a]
  <2>1. m \in Managers /\ retained[m] # None
    BY <1>1, <1>2, <1>4
  <2>2. retained'[m] = retained[m] \/ server'[retained[m]] = "closed"
    BY <2>1, CloserRetains
  <2> QED
    BY <1>1, <1>4, <2>2
<1> QED
  BY <1>1, <1>2, <1>3, <1>4 DEF IInv, Follows, Aliased

LEMMA OthersLists ==
  ASSUME IInv, NEW d \in Closers, NEW s \in Closers, CloserStep(s), d # s
  PROVE  left'[d] = left[d] /\ failed'[d] = failed[d]
<1> USE DEF Goes, Returns, Ends, Succeeds, Fails, LetsGo, session, addresses, unpublished, aliases, framework, closes, Phases
<1>a. /\ stage \in [Calls \cup Closers -> Stage] /\ s \in Calls \cup Closers /\ s \notin Calls
      /\ left \in [Closers -> SUBSET (Managers \cup Calls)] /\ failed \in [Closers -> BOOLEAN]
      /\ mcp_clients \in [Calls -> Calls \cup {None}]
      /\ mcp_client_managers \in [Calls -> Managers \cup {None}]
      /\ retained \in [Managers -> Calls \cup {None}]
      /\ server \in [Calls -> {"none", "live", "closed"}]
      /\ mcp \subseteq Managers
  BY DEF IInv, TypeOK, Stage
<1>1. CASE BeginClose(s)
  BY <1>a, <1>1 DEF BeginClose
<1>2. CASE TakeLifecycle(s)
  BY <1>a, <1>2 DEF TakeLifecycle
<1>3. CASE ToClients(s)
  BY <1>a, <1>3 DEF ToClients
<1>4. CASE ToDebts(s)
  BY <1>a, <1>4 DEF ToDebts, ForgetsManagers
<1>5. CASE Finish(s)
  BY <1>a, <1>5 DEF Finish
<1>6. CASE Abandon(s)
  BY <1>a, <1>6 DEF Abandon
<1>7. ASSUME NEW y \in Managers \cup Calls, CloseNext(s, y)
      PROVE  left'[d] = left[d] /\ failed'[d] = failed[d]
  BY <1>a, <1>7 DEF CloseNext, RemovesClients
<1> QED
  BY <1>1, <1>2, <1>3, <1>4, <1>5, <1>6, <1>7 DEF CloserStep, CloserNext

LEMMA Releases ==
  ASSUME IInv, NEW s \in Closers, CloserStep(s)
  PROVE  released' => released \/ (closing /\ Running = {})
<1> USE DEF Goes, Returns, Ends, Succeeds, Fails, LetsGo, session, addresses, unpublished, aliases, framework, closes, Phases
<1>f. stage[s] \in Phases => closing /\ Running = {}
  BY DEF IInv, Closing
<1>1. CASE BeginClose(s)
  BY <1>f, <1>1 DEF BeginClose
<1>2. CASE TakeLifecycle(s)
  BY <1>f, <1>2 DEF TakeLifecycle
<1>3. CASE ToClients(s)
  BY <1>f, <1>3 DEF ToClients
<1>4. CASE ToDebts(s)
  BY <1>f, <1>4 DEF ToDebts, ForgetsManagers
<1>5. CASE Finish(s)
  BY <1>f, <1>5 DEF Finish
<1>6. CASE Abandon(s)
  BY <1>f, <1>6 DEF Abandon
<1>7. ASSUME NEW y \in Managers \cup Calls, CloseNext(s, y)
      PROVE  released' => released \/ (closing /\ Running = {})
  BY <1>f, <1>7 DEF CloseNext, RemovesClients
<1> QED
  BY <1>1, <1>2, <1>3, <1>4, <1>5, <1>6, <1>7 DEF CloserStep, CloserNext

LEMMA OwnList ==
  ASSUME IInv, NEW s \in Closers, CloserStep(s)
  PROVE  /\ stage'[s] = "waiting" => closing'
         /\ stage'[s] \in Phases => closing' /\ Running = {}
         /\ stage'[s] = "managers" =>
              left'[s] \subseteq Managers /\ (~failed'[s] => mcp' \subseteq left'[s])
         /\ stage'[s] = "clients" =>
              left'[s] \subseteq Calls /\ (~failed'[s] => mcp' = {} /\ Aliased' \subseteq left'[s])
         /\ stage'[s] = "debts" =>
              /\ left'[s] \subseteq Calls /\ left'[s] \cap Aliased' = {}
              /\ ~failed'[s] => mcp' = {} /\ Aliased' = {} /\ Unpublished' \subseteq left'[s]
<1> USE DEF Goes, Returns, Ends, Succeeds, Fails, LetsGo, session, addresses, unpublished, aliases, framework, closes, Phases
<1>a. /\ stage \in [Calls \cup Closers -> Stage] /\ s \in Calls \cup Closers /\ s \notin Calls
      /\ left \in [Closers -> SUBSET (Managers \cup Calls)] /\ failed \in [Closers -> BOOLEAN]
      /\ mcp_clients \in [Calls -> Calls \cup {None}]
      /\ mcp_client_managers \in [Calls -> Managers \cup {None}]
      /\ retained \in [Managers -> Calls \cup {None}]
      /\ server \in [Calls -> {"none", "live", "closed"}]
      /\ mcp \subseteq Managers
  BY DEF IInv, TypeOK, Stage
<1>b. stage[s] = "managers" => left[s] \subseteq Managers
  BY DEF IInv, Closing
<1>c. stage[s] \in {"clients", "debts"} => left[s] \subseteq Calls
  BY DEF IInv, Closing
<1>d. mcp_preparations \subseteq Calls /\ mcp_cleanup_debt \subseteq Calls /\ faults \in 0 .. MaxFaults
  BY DEF IInv, TypeOK
<1>f. /\ stage[s] = "waiting" => closing
      /\ stage[s] \in Phases => closing /\ Running = {}
      /\ stage[s] = "managers" => (~failed[s] => mcp \subseteq left[s])
      /\ stage[s] = "clients" => (~failed[s] => mcp = {} /\ Aliased \subseteq left[s])
      /\ stage[s] = "debts" =>
           /\ left[s] \cap Aliased = {}
           /\ ~failed[s] => mcp = {} /\ Aliased = {} /\ Unpublished \subseteq left[s]
  BY DEF IInv, Closing
<1>g. Unpublished \cap Aliased = {}
  BY DEF IInv, Minted, Unpublished, Aliased
<1>1. CASE BeginClose(s)
  <2>1. stage'[s] \notin Phases /\ closing'
    BY <1>a, <1>1 DEF BeginClose
  <2> QED
    BY <2>1
<1>2. CASE TakeLifecycle(s)
  <2>1. CASE stage'[s] \notin Phases \cup {"waiting"}
    BY <2>1
  <2>2. CASE stage'[s] \in Phases \cup {"waiting"}
    <3>1. /\ stage'[s] = "managers" /\ left'[s] = mcp /\ UNCHANGED <<mcp, closing>>
          /\ stage[s] = "waiting" /\ Running = {}
      BY <1>a, <2>2, <1>2 DEF TakeLifecycle
    <3> QED
      BY <1>a, <1>f, <3>1
  <2> QED
    BY <2>1, <2>2
<1>3. CASE ToClients(s)
  <2>1. /\ stage'[s] = "clients" /\ left'[s] = Aliased /\ failed' = failed
        /\ UNCHANGED <<mcp, mcp_clients, closing>> /\ stage[s] = "managers" /\ left[s] = {}
    BY <1>a, <1>3 DEF ToClients, Aliased
  <2> QED
    BY <1>f, <2>1 DEF Aliased
<1>4. CASE ToDebts(s)
  <2>1. CASE stage'[s] \notin Phases \cup {"waiting"}
    BY <2>1
  <2>2. CASE stage'[s] \in Phases \cup {"waiting"}
    <3>1. /\ stage'[s] = "debts" /\ left'[s] = Unpublished /\ failed' = failed
          /\ UNCHANGED <<mcp, mcp_clients, mcp_preparations, mcp_cleanup_debt, closing>>
          /\ stage[s] = "clients" /\ left[s] = {}
      BY <1>a, <2>2, <1>4 DEF ToDebts, Unpublished
    <3>2. Unpublished \subseteq Calls
      BY <1>d DEF Unpublished
    <3> QED
      BY <1>f, <1>g, <3>1, <3>2 DEF Aliased, Unpublished
  <2> QED
    BY <2>1, <2>2
<1>5. CASE Finish(s)
  <2>1. stage'[s] \notin Phases \cup {"waiting"}
    BY <1>a, <1>5 DEF Finish
  <2> QED
    BY <2>1
<1>6. CASE Abandon(s)
  <2>1. stage'[s] \notin Phases \cup {"waiting"}
    BY <1>a, <1>6 DEF Abandon
  <2> QED
    BY <2>1
<1>7. ASSUME NEW y \in Managers \cup Calls, CloseNext(s, y)
      PROVE  /\ stage'[s] = "waiting" => closing'
             /\ stage'[s] \in Phases => closing' /\ Running = {}
             /\ stage'[s] = "managers" =>
                  left'[s] \subseteq Managers /\ (~failed'[s] => mcp' \subseteq left'[s])
             /\ stage'[s] = "clients" =>
                  left'[s] \subseteq Calls /\ (~failed'[s] => mcp' = {} /\ Aliased' \subseteq left'[s])
             /\ stage'[s] = "debts" =>
                  /\ left'[s] \subseteq Calls /\ left'[s] \cap Aliased' = {}
                  /\ ~failed'[s] => mcp' = {} /\ Aliased' = {} /\ Unpublished' \subseteq left'[s]
  <2>1. /\ left'[s] = left[s] \ {y} /\ stage' = stage /\ closing' = closing
    BY <1>a, <1>7 DEF CloseNext
  <2>2. CASE stage[s] = "managers"
    <3>1. ~failed'[s] => ~failed[s] /\ mcp' = mcp \ {y}
      BY <1>a, <2>2, <1>7 DEF CloseNext
    <3> QED
      BY <1>b, <1>f, <2>1, <2>2, <3>1
  <2>3. CASE stage[s] = "clients"
    <3>1. ~failed'[s] => ~failed[s] /\ mcp' = mcp /\ Aliased' = Aliased \ {y}
      BY <1>a, <2>3, <1>7 DEF CloseNext, RemovesClients, Aliased
    <3> QED
      BY <1>c, <1>f, <2>1, <2>3, <3>1
  <2>4. CASE stage[s] = "debts"
    <3>1. /\ Aliased' = Aliased
          /\ ~failed'[s] => ~failed[s] /\ mcp' = mcp /\ Unpublished' = Unpublished \ {y}
      BY <1>a, <2>4, <1>7 DEF CloseNext, Aliased, Unpublished
    <3> QED
      BY <1>c, <1>f, <2>1, <2>4, <3>1
  <2> QED
    BY <2>2, <2>3, <2>4, <1>7 DEF CloseNext
<1> QED
  BY <1>1, <1>2, <1>3, <1>4, <1>5, <1>6, <1>7 DEF CloserStep, CloserNext

LEMMA CloserClosing ==
  ASSUME IInv, NEW s \in Closers, CloserStep(s)
  PROVE  Closing'
<1>1. Closing
  BY DEF IInv
<1>2. Running' = Running /\ (closing => closing')
  BY CallsStay, CloserTakes
<1>3. released' => closing' /\ Running' = {}
  BY <1>1, <1>2, Releases DEF Closing
<1>4. mcp' \subseteq mcp /\ Aliased' \subseteq Aliased /\ Unpublished' \subseteq Unpublished
  BY CloserTakes DEF Aliased, Unpublished
<1>5. ASSUME NEW d \in Closers
      PROVE  /\ stage'[d] = "waiting" => closing'
             /\ stage'[d] \in Phases => closing' /\ Running' = {}
             /\ stage'[d] = "managers" =>
                  left'[d] \subseteq Managers /\ (~failed'[d] => mcp' \subseteq left'[d])
             /\ stage'[d] = "clients" =>
                  left'[d] \subseteq Calls /\ (~failed'[d] => mcp' = {} /\ Aliased' \subseteq left'[d])
             /\ stage'[d] = "debts" =>
                  /\ left'[d] \subseteq Calls /\ left'[d] \cap Aliased' = {}
                  /\ ~failed'[d] => mcp' = {} /\ Aliased' = {} /\ Unpublished' \subseteq left'[d]
  <2>1. CASE d = s
    BY <1>2, <2>1, OwnList
  <2>2. CASE d # s
    <3>1. stage'[d] = stage[d] /\ left'[d] = left[d] /\ failed'[d] = failed[d]
      BY <2>2, CallsStay, OthersLists
    <3> QED
      BY <1>1, <1>2, <1>4, <3>1 DEF Closing
  <2> QED
    BY <2>1, <2>2
<1> QED
  BY <1>3, <1>5 DEF Closing

LEMMA CloserOwns ==
  ASSUME IInv, NEW s \in Closers, CloserStep(s), NEW x \in Calls, server'[x] = "live"
  PROVE  \/ x \in Unpublished'
         \/ \E a \in Aliased' : mcp_clients'[a] = x
         \/ \E m \in mcp' : retained'[m] = x \/ (stage'[x] = "connecting" /\ request'[x].about = m)
<1>1. server[x] = "live"
  BY CloserTakes
<1>2. CASE x \in Unpublished
  BY <1>2, CloserUnpublishedLasts
<1>3. CASE \E a \in Aliased : mcp_clients[a] = x
  <2>1. PICK a \in Aliased : mcp_clients[a] = x
    BY <1>3
  <2>2. a \in Calls /\ mcp_clients[a] # None
    BY DEF Aliased
  <2>3. mcp_clients'[a] = x
    BY <2>1, <2>2, CloserAliasLasts
  <2> QED
    BY <2>2, <2>3 DEF Aliased
<1>4. CASE \E m \in mcp : retained[m] = x
  <2>1. PICK m \in mcp : retained[m] = x
    BY <1>4
  <2>2. m \in mcp' /\ retained'[m] = x
    BY <2>1, CloserManagerLasts
  <2> QED
    BY <2>2
<1>5. CASE stage[x] = "connecting" /\ About(x) \in mcp
  <2>1. stage[x] \in InFlight
    BY <1>5 DEF InFlight
  <2>2. mcp' = mcp
    BY <2>1, CloserTouches DEF Running
  <2>3. stage'[x] = "connecting" /\ request'[x].about \in mcp'
    BY <1>5, <2>2, CallsStay, CloserMoves DEF About
  <2> QED
    BY <2>3
<1> QED
  BY <1>1, <1>2, <1>3, <1>4, <1>5 DEF IInv, Owned

LEMMA CloserSlots ==
  ASSUME IInv, NEW s \in Closers, CloserStep(s)
  PROVE  (mcp' \cup Unpublished' \cup Aliased') \subseteq registry'
<1> USE DEF Goes, Returns, Ends, Succeeds, Fails, LetsGo, session, addresses, unpublished, aliases, framework, closes, Phases
<1>a. /\ stage \in [Calls \cup Closers -> Stage] /\ s \in Calls \cup Closers /\ s \notin Calls
      /\ left \in [Closers -> SUBSET (Managers \cup Calls)] /\ failed \in [Closers -> BOOLEAN]
      /\ mcp_clients \in [Calls -> Calls \cup {None}]
      /\ mcp_client_managers \in [Calls -> Managers \cup {None}]
      /\ retained \in [Managers -> Calls \cup {None}]
      /\ server \in [Calls -> {"none", "live", "closed"}]
      /\ mcp \subseteq Managers
  BY DEF IInv, TypeOK, Stage
<1>b. stage[s] = "managers" => left[s] \subseteq Managers
  BY DEF IInv, Closing
<1>c. stage[s] \in {"clients", "debts"} => left[s] \subseteq Calls
  BY DEF IInv, Closing
<1>d. mcp_preparations \subseteq Calls /\ mcp_cleanup_debt \subseteq Calls /\ faults \in 0 .. MaxFaults
  BY DEF IInv, TypeOK
<1>f. (mcp \cup Unpublished \cup Aliased) \subseteq registry
  BY DEF IInv, Owned
<1>g. mcp' \subseteq mcp /\ Aliased' \subseteq Aliased /\ Unpublished' \subseteq Unpublished
  BY CloserTakes DEF Aliased, Unpublished
<1>h. stage[s] = "debts" =>
        /\ left[s] \cap Aliased = {}
        /\ ~failed[s] => mcp = {} /\ Aliased = {} /\ Unpublished \subseteq left[s]
  BY DEF IInv, Closing
<1>1. CASE BeginClose(s)
  BY <1>f, <1>g, <1>1 DEF BeginClose
<1>2. CASE TakeLifecycle(s)
  BY <1>f, <1>g, <1>2 DEF TakeLifecycle
<1>3. CASE ToClients(s)
  BY <1>f, <1>g, <1>3 DEF ToClients
<1>4. CASE ToDebts(s)
  BY <1>f, <1>g, <1>4 DEF ToDebts, ForgetsManagers
<1>5. CASE Finish(s)
  <2>1. registry' = registry \/ (mcp \cup Unpublished \cup Aliased) = {}
    BY <1>h, <1>5 DEF Finish
  <2> QED
    BY <1>f, <1>g, <2>1
<1>6. CASE Abandon(s)
  BY <1>f, <1>g, <1>6 DEF Abandon
<1>7. ASSUME NEW y \in Managers \cup Calls, CloseNext(s, y)
      PROVE  (mcp' \cup Unpublished' \cup Aliased') \subseteq registry'
  <2>1. CASE registry' = registry
    BY <1>f, <1>g, <2>1
  <2>2. CASE registry' # registry
    <3>1. /\ stage[s] = "debts" /\ registry' = registry \ {y} /\ y \in left[s]
          /\ mcp_preparations' = mcp_preparations \ {y} /\ mcp_cleanup_debt' = mcp_cleanup_debt \ {y}
      BY <2>2, <1>7 DEF CloseNext
    <3>2. y \in Calls /\ y \notin Aliased /\ y \notin mcp
      BY <1>a, <1>c, <1>h, <3>1
    <3>3. y \notin Unpublished'
      BY <3>1 DEF Unpublished
    <3> QED
      BY <1>f, <1>g, <3>1, <3>2, <3>3
  <2> QED
    BY <2>1, <2>2
<1> QED
  BY <1>1, <1>2, <1>3, <1>4, <1>5, <1>6, <1>7 DEF CloserStep, CloserNext

LEMMA CloserReleases ==
  ASSUME IInv, NEW s \in Closers, CloserStep(s), released', ~released, NEW x \in Calls
  PROVE  server'[x] # "live"
<1> USE DEF Goes, Returns, Ends, Succeeds, Fails, LetsGo, session, addresses, unpublished, aliases, framework, closes, Phases
<1>1. stage \in [Calls \cup Closers -> Stage] /\ s \in Calls \cup Closers
  BY DEF IInv, TypeOK, Stage
<1>2. Finish(s)
  BY DEF CloserStep, CloserNext, BeginClose, TakeLifecycle, ToClients, ToDebts, CloseNext, Abandon
<1>3. /\ stage[s] = "debts" /\ left[s] = {} /\ ~failed[s] /\ UNCHANGED server
  BY <1>2 DEF Finish
<1>4. mcp = {} /\ Aliased = {} /\ Unpublished = {}
  BY <1>3 DEF IInv, Closing
<1>5. server[x] # "live"
  BY <1>4 DEF IInv, Owned
<1> QED
  BY <1>3, <1>5

LEMMA CloserOwned ==
  ASSUME IInv, NEW s \in Closers, CloserStep(s)
  PROVE  Owned'
<1>1. Owned
  BY DEF IInv
<1>2. ASSUME released', NEW x \in Calls
      PROVE  server'[x] # "live"
  <2>1. CASE released
    BY <1>1, <2>1, CloserTakes DEF Owned
  <2>2. CASE ~released
    BY <1>2, <2>2, CloserReleases
  <2> QED
    BY <2>1, <2>2
<1>3. ~closing' \/ Running' # {} =>
        registry' \cap (Managers \cup Calls) \subseteq (mcp' \cup Unpublished' \cup Aliased')
  <2>1. SUFFICES ASSUME ~closing' \/ Running' # {}
                 PROVE  registry' \cap (Managers \cup Calls) \subseteq (mcp' \cup Unpublished' \cup Aliased')
    OBVIOUS
  <2>2. ~closing \/ Running # {}
    BY <2>1, CallsStay, CloserTakes
  <2>3. /\ UNCHANGED <<mcp, mcp_clients, mcp_preparations, mcp_cleanup_debt, registry>>
    BY <2>2, CloserTouches
  <2> QED
    BY <1>1, <2>2, <2>3 DEF Owned, Unpublished, Aliased
<1> QED
  BY <1>2, <1>3, CloserOwns, CloserSlots DEF Owned, About

LEMMA CloserKeeps ==
  ASSUME IInv, NEW s \in Closers, CloserStep(s)
  PROVE  IInv'
BY CloserTypeOK, CloserMinted, CloserSubjects, CloserLocked, CloserFollows, CloserClosing, CloserOwned
   DEF IInv

-----------------------------------------------------------------------------
(* A new manager, a new request, and the whole.                            *)

LEMMA OpenTypeOK ==
  ASSUME IInv, NEW m \in Managers, OpenManager(m)
  PROVE  TypeOK' /\ IsFiniteSet(registry')
<1> USE DEF OpenManager, Publishes, session, unpublished, aliases, framework, closes
<1>1. TypeOK /\ IsFiniteSet(registry)
  BY DEF IInv, Minted
<1>2. m \in Addresses
  BY Places
<1>3. /\ registry' \subseteq Addresses /\ IsFiniteSet(registry')
      /\ Cardinality(registry') <= MaxResources
  <2>1. Room
    BY <1>2 DEF Room, Fills
  <2> QED
    BY <1>1, <2>1, RoomKept
<1> QED
  BY <1>1, <1>2, <1>3 DEF TypeOK

LEMMA OpenKeeps ==
  ASSUME IInv, NEW m \in Managers, OpenManager(m)
  PROVE  IInv'
<1> USE DEF OpenManager, Publishes, session, unpublished, aliases, framework, closes
<1>1. /\ TypeOK /\ Minted /\ Subjects /\ Locked /\ Follows /\ Closing /\ Owned
      /\ TypeOK' /\ IsFiniteSet(registry')
  BY OpenTypeOK DEF IInv
<1>2. /\ UNCHANGED <<closing, released, fenced, stage, request, left, failed, server, retained>>
      /\ UNCHANGED <<mcp_preparations, mcp_cleanup_debt, mcp_clients, mcp_client_managers>>
      /\ known' = known \cup {m} /\ registry' = registry \cup {m} /\ mcp' = mcp \cup {m}
      /\ ~closing
  BY DEF Admits
<1>3. Minted'
  BY <1>1, <1>2 DEF Minted
<1>4. Subjects'
  <2>1. ASSUME NEW c \in Calls, stage[c] = "arriving"
        PROVE  MayAsk(request[c].kind, About(c))'
    <3> DEFINE k == request[c].kind
               id == About(c)
    <3>1. k \in Kinds /\ MayAsk(k, id)
      BY <1>1, <2>1 DEF Subjects
    <3>2. About(c)' = id
      BY <1>2 DEF About
    <3> QED
      BY <1>2, <3>1, <3>2, MayStillAsk DEF MayAsk
  <2> QED
    BY <1>1, <1>2, <2>1 DEF Subjects, About
<1>5. Locked'
  BY <1>1, <1>2 DEF Locked, About
<1>6. Follows'
  BY <1>1, <1>2 DEF Follows, Aliased
<1>7. Closing'
  BY <1>1, <1>2 DEF Closing, Running, Phases
<1>8. Owned'
  <2>1. ~released
    BY <1>1, <1>2 DEF Closing
  <2>2. Aliased' = Aliased /\ Unpublished' = Unpublished
    BY <1>2 DEF Aliased, Unpublished
  <2>3. registry \cap (Managers \cup Calls) \subseteq mcp \cup Unpublished \cup Aliased
    BY <1>1, <1>2 DEF Owned
  <2>4. registry' \cap (Managers \cup Calls) \subseteq (mcp' \cup Unpublished' \cup Aliased')
    BY <1>2, <2>2, <2>3
  <2>5. (mcp' \cup Unpublished' \cup Aliased') \subseteq registry'
    BY <1>1, <1>2, <2>2 DEF Owned
  <2>6. ASSUME NEW x \in Calls, server'[x] = "live"
        PROVE  \/ x \in Unpublished'
               \/ \E a \in Aliased' : mcp_clients'[a] = x
               \/ \E n \in mcp' : retained'[n] = x \/ (stage'[x] = "connecting" /\ request'[x].about = n)
    BY <1>1, <1>2, <2>2, <2>6 DEF Owned, About
  <2> QED
    BY <1>2, <2>1, <2>4, <2>5, <2>6 DEF Owned, About
<1> QED
  BY <1>1, <1>3, <1>4, <1>5, <1>6, <1>7, <1>8 DEF IInv

LEMMA ArriveKeeps ==
  ASSUME IInv, NEW c \in Calls, NEW kind \in Kinds, NEW id \in Addresses \cup {None},
         Arrive(c, kind, id)
  PROVE  IInv'
<1> USE DEF Arrive, Goes, session, addresses, unpublished, aliases, framework, closes
<1>1. TypeOK /\ Minted /\ Subjects /\ Locked /\ Follows /\ Closing /\ Owned
  BY DEF IInv
<1>2. /\ UNCHANGED <<closing, released, fenced, left, failed, server, retained, faults>>
      /\ UNCHANGED <<mcp_preparations, mcp_cleanup_debt, mcp_clients, mcp_client_managers>>
      /\ UNCHANGED <<known, registry, mcp>>
      /\ ~closing /\ stage[c] = "idle" /\ MayAsk(kind, id)
  OBVIOUS
<1>3. /\ stage \in [Calls \cup Closers -> Stage] /\ c \in Calls \cup Closers
      /\ request \in [Calls -> Request]
  BY <1>1 DEF TypeOK, Stage, Request
<1>4. /\ stage' \in [Calls \cup Closers -> Stage]
      /\ stage'[c] = "arriving" /\ request'[c].kind = kind /\ request'[c].about = id
      /\ \A p \in (Calls \cup Closers) \ {c} : stage'[p] = stage[p]
      /\ \A d \in Calls \ {c} : request'[d] = request[d]
  BY <1>3 DEF Stage, Request
<1>5. request' \in [Calls -> Request]
  <2> DEFINE r == [request[c] EXCEPT !.kind = kind, !.about = id]
  <2>1. request[c] \in Request
    BY <1>3
  <2>2. r \in Request
    BY <2>1 DEF Request
  <2>3. request' = [request EXCEPT ![c] = r]
    BY <1>3
  <2> HIDE DEF r
  <2> QED
    BY <1>3, <2>2, <2>3
<1>6. \A s \in Closers : stage'[s] = stage[s]
  BY <1>4
<1>7. Running' = Running /\ Aliased' = Aliased /\ Unpublished' = Unpublished
  <2>1. \A d \in Calls : stage'[d] \in InFlight <=> stage[d] \in InFlight
    BY <1>2, <1>4 DEF InFlight
  <2> QED
    BY <1>2, <2>1 DEF Running, Aliased, Unpublished
<1>8. TypeOK'
  BY <1>1, <1>2, <1>4, <1>5 DEF TypeOK, Stage, Request
<1>9. Minted'
  <2>1. ASSUME NEW y \in Calls, stage[y] \in {"undoing", "done"}
        PROVE  stage'[y] = stage[y]
    BY <1>2, <1>4, <2>1
  <2>2. \A x \in Calls : mcp_clients[x] # None => mcp_clients[x] \in Calls
    BY <1>1 DEF TypeOK
  <2>3. \A m \in Managers : retained[m] # None => retained[m] \in Calls
    BY <1>1 DEF TypeOK
  <2> QED
    BY <1>1, <1>2, <1>4, <2>1, <2>2, <2>3 DEF Minted
<1>10. Subjects'
  <2>1. ASSUME NEW d \in Calls, stage'[d] = "arriving"
        PROVE  request'[d].kind \in Kinds /\ MayAsk(request[d].kind, About(d))'
    <3>1. CASE d = c
      BY <1>2, <1>4, <3>1 DEF MayAsk, About
    <3>2. CASE d # c
      <4>1. stage[d] = "arriving" /\ request'[d] = request[d]
        BY <1>4, <2>1, <3>2
      <4>2. request[d].kind \in Kinds /\ MayAsk(request[d].kind, About(d))
        BY <1>1, <4>1 DEF Subjects
      <4> QED
        BY <1>2, <4>1, <4>2 DEF MayAsk, About
    <3> QED
      BY <3>1, <3>2
  <2>2. ASSUME NEW d \in Calls, stage'[d] \in {"resolved", "connecting", "undoing", "fenced"}
        PROVE  stage[d] = stage'[d] /\ request'[d] = request[d]
    BY <1>4, <2>2
  <2>3. UNCHANGED <<known, fenced, mcp_clients>>
    BY <1>2
  <2> QED
    BY <1>1, <2>1, <2>2, <2>3 DEF Subjects, About
<1>11. Locked'
  <2>1. ASSUME NEW d \in Calls, stage'[d] \in AtLock \cup {"fenced"}
        PROVE  d # c /\ stage'[d] = stage[d] /\ request'[d] = request[d]
    BY <1>4, <2>1 DEF AtLock
  <2> QED
    BY <1>1, <1>2, <2>1 DEF Locked, AtLock, About
<1>12. Follows'
  BY <1>1, <1>2 DEF Follows, Aliased
<1>13. Closing'
  BY <1>1, <1>2, <1>6, <1>7 DEF Closing
<1>14. Owned'
  <2>1. ASSUME NEW x \in Calls, stage[x] = "connecting"
        PROVE  stage'[x] = "connecting" /\ request'[x] = request[x]
    BY <1>2, <1>4, <2>1
  <2>2. ASSUME NEW x \in Calls, server[x] = "live"
        PROVE  \/ x \in Unpublished
               \/ \E a \in Aliased : mcp_clients[a] = x
               \/ \E m \in mcp : retained[m] = x \/ (stage'[x] = "connecting" /\ About(x)' = m)
    <3>1. \/ x \in Unpublished
          \/ \E a \in Aliased : mcp_clients[a] = x
          \/ \E m \in mcp : retained[m] = x
          \/ stage[x] = "connecting" /\ About(x) \in mcp
      BY <1>1, <2>2 DEF Owned
    <3>2. ASSUME stage[x] = "connecting", About(x) \in mcp
          PROVE  \E m \in mcp : stage'[x] = "connecting" /\ About(x)' = m
      BY <2>1, <3>2 DEF About
    <3> QED
      BY <3>1, <3>2
  <2>3. UNCHANGED <<closing, released, server, retained, mcp, mcp_clients, registry>>
    BY <1>2
  <2> QED
    BY <1>1, <1>7, <2>2, <2>3 DEF Owned
<1> QED
  BY <1>8, <1>9, <1>10, <1>11, <1>12, <1>13, <1>14 DEF IInv

LEMMA InitHolds ==
  ASSUME Init
  PROVE  IInv
<1> USE DEF Init
<1>1. TypeOK
  <2>1. NoRequest \in Request
    BY NoRequestTyped
  <2>2. request \in [Calls -> Request]
    BY <2>1
  <2>3. Cardinality(registry) <= MaxResources
    BY FS_EmptySet
  <2>4. stage \in [Calls \cup Closers -> {"idle", "arriving", "waiting", "done"} \cup InFlight \cup Phases]
    OBVIOUS
  <2>5. /\ left \in [Closers -> SUBSET (Managers \cup Calls)] /\ failed \in [Closers -> BOOLEAN]
        /\ faults \in 0 .. MaxFaults
    OBVIOUS
  <2>6. /\ mcp_clients \in [Calls -> Calls \cup {None}]
        /\ mcp_client_managers \in [Calls -> Managers \cup {None}]
        /\ retained \in [Managers -> Calls \cup {None}]
        /\ server \in [Calls -> {"none", "live", "closed"}]
    OBVIOUS
  <2> HIDE DEF Init
  <2>7. /\ closing = FALSE /\ released = FALSE /\ registry = {} /\ known = {} /\ fenced = {}
        /\ mcp = {} /\ mcp_preparations = {} /\ mcp_cleanup_debt = {}
    BY DEF Init
  <2> QED
    BY <2>2, <2>3, <2>4, <2>5, <2>6, <2>7 DEF TypeOK, Request
<1>2. Minted
  BY FS_EmptySet DEF Minted
<1>3. Subjects /\ Locked
  BY DEF Subjects, Locked, AtLock
<1>4. Follows /\ Closing /\ Owned
  BY DEF Follows, Closing, Owned, Aliased, Unpublished, Running, InFlight, Phases
<1> QED
  BY <1>1, <1>2, <1>3, <1>4 DEF IInv

LEMMA StutterKeeps ==
  ASSUME IInv, UNCHANGED vars
  PROVE  IInv'
<1> USE DEF vars, session, addresses, unpublished, aliases, framework, closes
<1>1. TypeOK' /\ Minted'
  BY DEF IInv, TypeOK, Minted
<1>2. Subjects'
  BY DEF IInv, Subjects, MayAsk, About
<1>3. Locked' /\ Follows'
  BY DEF IInv, Locked, Follows, Aliased, About
<1>4. Closing' /\ Owned'
  BY DEF IInv, Closing, Owned, Running, Aliased, Unpublished, About
<1> QED
  BY <1>1, <1>2, <1>3, <1>4 DEF IInv

\* The invariant is inductive: it holds at first, and no step ends it.
THEOREM Inductively == Spec => []IInv
<1>1. Init => IInv
  BY InitHolds
<1>2. IInv /\ [Next]_vars => IInv'
  <2> SUFFICES ASSUME IInv, [Next]_vars
               PROVE  IInv'
    OBVIOUS
  <2>1. ASSUME NEW m \in Managers, OpenManager(m)
        PROVE  IInv'
    BY <2>1, OpenKeeps
  <2>2. ASSUME NEW c \in Calls, NEW kind \in Kinds, NEW id \in Addresses \cup {None},
               Arrive(c, kind, id)
        PROVE  IInv'
    BY <2>2, ArriveKeeps
  <2>3. ASSUME NEW c \in Calls, CallNext(c)
        PROVE  IInv'
    BY <2>3, CallKeeps
  <2>4. ASSUME NEW s \in Closers, BeginClose(s) \/ CloserNext(s) \/ Abandon(s)
        PROVE  IInv'
    BY <2>4, CloserKeeps DEF CloserStep
  <2>5. CASE UNCHANGED vars
    BY <2>5, StutterKeeps
  <2> QED
    BY <2>1, <2>2, <2>3, <2>4, <2>5 DEF Next
<1> QED
  BY <1>1, <1>2, PTL DEF Spec

\* The types, max_facade_resources included: no Session ever has more
\* addresses open, published or reserved, than it may.
THEOREM TypeCorrect == Spec => []TypeOK
<1>1. IInv => TypeOK
  BY DEF IInv
<1> QED
  BY <1>1, Inductively, PTL

\* Every server that runs has an owner in the Host, and a Session that is
\* closed leaves none behind (close_session_resources, close_mcp_debt).
THEOREM ServersAreOwned == Spec => []ResourcesAreOwned
<1>1. IInv => ResourcesAreOwned
  BY DEF IInv, Owned, ResourcesAreOwned
<1> QED
  BY <1>1, Inductively, PTL

\* No step withdraws the alias of a server that runs: neither a disconnect
\* of a namesake nor the close of another manager.
THEOREM AliasesLast == Spec => AliasesAreKept
<1>1. IInv /\ [Next]_vars =>
        [\A a \in Aliased \cap known :
           mcp_clients'[a] = None => server'[mcp_clients[a]] = "closed"]_vars
  <2> SUFFICES ASSUME IInv, Next, NEW a \in Aliased \cap known, mcp_clients'[a] = None
               PROVE  server'[mcp_clients[a]] = "closed"
    OBVIOUS
  <2>1. a \in Calls /\ mcp_clients[a] # None
    BY DEF Aliased
  <2>2. ASSUME NEW c \in Calls, CallNext(c)
        PROVE  server'[mcp_clients[a]] = "closed"
    BY <2>1, <2>2, AliasLasts
  <2>3. ASSUME NEW s \in Closers, BeginClose(s) \/ CloserNext(s) \/ Abandon(s)
        PROVE  server'[mcp_clients[a]] = "closed"
    BY <2>1, <2>3, CloserAliasLasts DEF CloserStep
  <2>4. ASSUME UNCHANGED mcp_clients
        PROVE  FALSE
    BY <2>1, <2>4
  <2>5. ASSUME NEW m \in Managers, OpenManager(m)
        PROVE  FALSE
    BY <2>4, <2>5 DEF OpenManager, aliases
  <2>6. ASSUME NEW c \in Calls, NEW kind \in Kinds, NEW id \in Addresses \cup {None},
               Arrive(c, kind, id)
        PROVE  FALSE
    BY <2>4, <2>6 DEF Arrive, aliases
  <2> QED
    BY <2>2, <2>3, <2>5, <2>6 DEF Next
<1> QED
  BY <1>1, Inductively, PTL DEF Spec, AliasesAreKept
===============================================================================
