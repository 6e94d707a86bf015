---------------------------- MODULE McpResources ----------------------------
(***************************************************************************)
(* Who answers for the MCP servers one Session has had started             *)
(* (facade/integrations.rs), from the reservation of a slot to the close   *)
(* that is awaited: preparations and cleanup debts of clients nobody has   *)
(* an address of, the managers, the aliases of their clients, and those    *)
(* who take them down, facade.resource.close (facade/mod.rs),              *)
(* session/close (handler.rs) and the teardown of the connection (mod.rs). *)
(*                                                                         *)
(* The framework's clients and managers are external: a start or a close   *)
(* succeeds or fails, and a start may take for ever.  A server goes by the *)
(* request that has started it, and so do the ticket and the alias that    *)
(* request mints.  All servers have one name, so a manager holds one at a  *)
(* time.  Requests of a connection are futures of its one task             *)
(* (mod.rs:41-45): what a request does between two awaits is one step.     *)
(***************************************************************************)
EXTENDS Naturals, FiniteSets

CONSTANTS
  Managers,         \* addresses of MCP managers
  Calls,            \* requests of the Session, each made once
  Closers,          \* session/close, and
  Teardown,         \* the one of them that is the teardown of the connection
  Asks,             \* what each of them may ask for
  MaxResources,     \* max_facade_resources
  MaxFaults,        \* bound of the model: closes that fail or are abandoned
  None

OpenKinds == {"open", "from_transport"}
ManagerKinds == {"connect", "connect_from_config", "get_client", "disconnect", "close_all"}
Kinds == OpenKinds \cup ManagerKinds \cup {"client.close", "resource.close"}

Tool(c) == <<c, "tool">>

ASSUME McpResourcesAssumption ==
  /\ MaxResources \in Nat \ {0} /\ MaxFaults \in Nat
  /\ Teardown \in Closers /\ Calls \cap Closers = {} /\ Managers \cap Calls = {}
  /\ Asks \in [Calls -> SUBSET Kinds]
  /\ None \notin Managers \cup Calls \cup Closers
  /\ \A c \in Calls : Tool(c) \notin Managers \cup Calls

Addresses == Managers \cup Calls \cup {Tool(c) : c \in Calls}

NoRequest == [kind |-> None, about |-> None, held |-> None, ahead |-> {}]

VARIABLES
  closing,       \* SessionRecord.closing
  released,      \* the Session is closed, or the connection is
  registry,      \* facade_resources: managers, tickets, aliases and tools
  known,         \* addresses the client has been told
  fenced,        \* FacadeResourceRecord.closing
  mcp, mcp_preparations, mcp_cleanup_debt,
  mcp_clients,   \* the server an alias is about
  mcp_client_managers,
  retained,      \* the framework: the server a manager holds
  server,
  stage,         \* where a request or a closer stands
  request,       \* of what kind it is, about which address, the server of the
                 \* client it has cloned, and who was ahead of it for the lock
  left, failed,  \* of a closer: what it has still to close, and how it went
  faults

session == <<closing, released>>
addresses == <<registry, known, fenced>>
unpublished == <<mcp_preparations, mcp_cleanup_debt>>
aliases == <<mcp_clients, mcp_client_managers>>
framework == <<retained, server>>
closes == <<left, failed>>
vars == <<session, addresses, mcp, unpublished, aliases, framework, stage, request, closes, faults>>

InFlight ==
  {"resolved", "preparing", "settling", "withdrawing", "connecting", "undoing", "fenced"}
Phases == {"managers", "clients", "debts"}

(* max_facade_resources bounds what a Session has open, unpublished or not.*)
TypeOK ==
  /\ closing \in BOOLEAN /\ released \in BOOLEAN
  /\ registry \subseteq Addresses /\ known \subseteq Addresses /\ fenced \subseteq Addresses
  /\ Cardinality(registry) <= MaxResources
  /\ mcp \subseteq Managers
  /\ mcp_preparations \subseteq Calls /\ mcp_cleanup_debt \subseteq Calls
  /\ mcp_clients \in [Calls -> Calls \cup {None}]
  /\ mcp_client_managers \in [Calls -> Managers \cup {None}]
  /\ retained \in [Managers -> Calls \cup {None}]
  /\ server \in [Calls -> {"none", "live", "closed"}]
  /\ stage \in [Calls \cup Closers -> {"idle", "arriving", "waiting", "done"} \cup InFlight \cup Phases]
  /\ request \in [Calls -> [kind : Kinds \cup {None}, about : Addresses \cup {None},
                            held : Calls \cup {None}, ahead : SUBSET Calls]]
  /\ left \in [Closers -> SUBSET (Managers \cup Calls)] /\ failed \in [Closers -> BOOLEAN]
  /\ faults \in 0 .. MaxFaults

Init ==
  /\ closing = FALSE /\ released = FALSE
  /\ registry = {} /\ known = {} /\ fenced = {} /\ mcp = {}
  /\ mcp_preparations = {} /\ mcp_cleanup_debt = {}
  /\ mcp_clients = [c \in Calls |-> None] /\ mcp_client_managers = [c \in Calls |-> None]
  /\ retained = [m \in Managers |-> None] /\ server = [c \in Calls |-> "none"]
  /\ stage = [p \in Calls \cup Closers |-> "idle"]
  /\ request = [c \in Calls |-> NoRequest]
  /\ left = [s \in Closers |-> {}] /\ failed = [s \in Closers |-> FALSE]
  /\ faults = 0
-----------------------------------------------------------------------------
About(c) == request[c].about

Goes(p, to) == stage' = [stage EXCEPT ![p] = to]

Answer(c) == Goes(c, "done") /\ request' = [request EXCEPT ![c] = NoRequest]

Succeeds == UNCHANGED faults
Fails == faults < MaxFaults /\ faults' = faults + 1

(* The lifecycle of the Session: a request reads, session/close writes, and*)
(* who comes after a waiting writer waits too.                             *)
Running == {c \in Calls : stage[c] \in InFlight}
Writing == {s \in Closers : stage[s] = "waiting" \/ (s # Teardown /\ stage[s] \in Phases)}

AdmitsOneMore(ids) == ~closing /\ Cardinality(registry \cup ids) <= MaxResources + 1

(* register_facade_resource: room, and the Session is not closing.         *)
Admits(ids) == ~closing /\ Cardinality(registry \cup ids) <= MaxResources

Publishes(ids) == registry' = registry \cup ids /\ known' = known \cup ids

IsClosed(id) == id \in known \ registry
Resolves(id) == id \in registry \ fenced

(* The tokio Mutex of a manager is held across a connect and its undoing.  *)
(* The other operations end where they await, so only who waits for them   *)
(* matters.                                                                *)
Free(m) == \A c \in Calls : stage[c] \in {"connecting", "undoing"} => About(c) # m
Queued(m) == {c \in Calls : stage[c] \in {"resolved", "connecting", "undoing"} /\ About(c) = m}

Ends(gone) == server' = [c \in Calls |-> IF c \in gone THEN "closed" ELSE server[c]]
Started(c) == server' = [server EXCEPT ![c] = "live"]
LetsGo(m) == retained' = [retained EXCEPT ![m] = None]

(* The servers that the managers and the clients among ids stand for.      *)
Behind(ids) ==
  ({retained[m] : m \in ids \cap mcp} \cup {mcp_clients[a] : a \in ids \cap Calls}) \ {None}

(* An alias of what a manager holds, and aliases that are taken back.      *)
Aliases(c, m, x) ==
  /\ mcp_clients' = [mcp_clients EXCEPT ![c] = x]
  /\ mcp_client_managers' = [mcp_client_managers EXCEPT ![c] = m]

RemovesClients(ids) ==
  mcp_clients' = [a \in Calls |-> IF a \in ids THEN None ELSE mcp_clients[a]]

ForgetsManagers(ids) ==
  mcp_client_managers' = [a \in Calls |-> IF {a, mcp_client_managers[a]} \cap ids # {} THEN None
                                          ELSE mcp_client_managers[a]]
-----------------------------------------------------------------------------
(* mcp.manager.open: an address and its manager.                           *)
OpenManager(m) ==
  /\ m \notin known /\ Admits({m})
  /\ Publishes({m}) /\ mcp' = mcp \cup {m}
  /\ UNCHANGED <<session, fenced, unpublished, aliases, framework, stage, request, closes, faults>>

(* A request comes in and waits for the lifecycle of its Session.  One that*)
(* finds the Session closing is refused before it waits.                   *)
MayAsk(kind, id) ==
  CASE kind \in OpenKinds -> id = None
    [] kind \in ManagerKinds -> id \in known \cap Managers
    [] kind = "client.close" -> id \in known \cap Calls
    [] kind = "resource.close" -> id \in known

Arrive(c, kind, id) ==
  /\ stage[c] = "idle" /\ ~closing /\ kind \in Asks[c] /\ MayAsk(kind, id)
  /\ Goes(c, "arriving")
  /\ request' = [request EXCEPT ![c].kind = kind, ![c].about = id]
  /\ UNCHANGED <<session, addresses, mcp, unpublished, aliases, framework, closes, faults>>

Admitted(c) == stage[c] = "arriving" /\ Writing = {}
Serves(c, kinds) == Admitted(c) /\ ~closing /\ request[c].kind \in kinds

(* A close that raced the admission is seen once the permit is there.      *)
Refuse(c) ==
  /\ Admitted(c) /\ closing
  /\ Answer(c)
  /\ UNCHANGED <<session, addresses, mcp, unpublished, aliases, framework, closes, faults>>

(* mcp_of and mcp_client_of: the address is open, and neither closed nor   *)
(* closing.  From here the request has its own Arc of what it is about.    *)
Resolve(c) ==
  /\ Serves(c, ManagerKinds \cup {"client.close"})
  /\ IF Resolves(About(c))
     THEN /\ Goes(c, "resolved")
          /\ request' = [request EXCEPT ![c].held =
                           IF About(c) \in Calls THEN mcp_clients[About(c)] ELSE None]
     ELSE Answer(c)
  /\ UNCHANGED <<session, addresses, mcp, unpublished, aliases, framework, closes, faults>>
-----------------------------------------------------------------------------
(* prepare_mcp_client reserves the slot of a client before it is made, and *)
(* records its cleanup scope before it is awaited.  The constructor of     *)
(* from_transport may fail, which gives the slot back at once.             *)
Prepare(c) ==
  /\ Serves(c, OpenKinds)
  /\ \/ /\ Admits({c})
        /\ registry' = registry \cup {c} /\ mcp_preparations' = mcp_preparations \cup {c}
        /\ Started(c) /\ Goes(c, "preparing") /\ UNCHANGED request
     \/ /\ Admits({c}) => request[c].kind = "from_transport"
        /\ Answer(c) /\ UNCHANGED <<registry, mcp_preparations, server>>
  /\ UNCHANGED <<session, known, fenced, mcp, mcp_cleanup_debt, aliases, retained, closes, faults>>

(* register_mcp_client turns the reservation into the address of the       *)
(* client, unless the Session is closing: then the client is a debt, which *)
(* from_transport tries to settle.                                         *)
Prepared(c) ==
  /\ stage[c] = "preparing"
  /\ mcp_preparations' = mcp_preparations \ {c}
  /\ IF closing
     THEN /\ mcp_cleanup_debt' = mcp_cleanup_debt \cup {c}
          /\ IF request[c].kind = "from_transport"
             THEN Goes(c, "withdrawing") /\ UNCHANGED request ELSE Answer(c)
          /\ UNCHANGED <<known, mcp_clients>>
     ELSE /\ mcp_clients' = [mcp_clients EXCEPT ![c] = c] /\ known' = known \cup {c}
          /\ Answer(c) /\ UNCHANGED mcp_cleanup_debt
  /\ UNCHANGED <<session, registry, fenced, mcp, mcp_client_managers, framework, closes, faults>>

PreparationFails(c) ==
  /\ stage[c] = "preparing"
  /\ Goes(c, "settling")
  /\ UNCHANGED <<session, addresses, mcp, unpublished, aliases, framework, request, closes, faults>>

(* A failed start is closed.  Only a close that succeeds gives up the slot *)
(* and the scope.                                                          *)
Settle(c) ==
  /\ stage[c] = "settling"
  /\ \/ /\ Succeeds /\ Ends({c})
        /\ mcp_preparations' = mcp_preparations \ {c} /\ registry' = registry \ {c}
     \/ Fails /\ UNCHANGED <<server, mcp_preparations, registry>>
  /\ Answer(c)
  /\ UNCHANGED <<session, known, fenced, mcp, mcp_cleanup_debt, aliases, retained, closes>>

(* The debt of a client that is closed stays on record, with its slot.     *)
Withdraw(c) ==
  /\ stage[c] = "withdrawing"
  /\ \/ Succeeds /\ Ends({c})
     \/ Fails /\ UNCHANGED server
  /\ Answer(c)
  /\ UNCHANGED <<session, addresses, mcp, unpublished, aliases, retained, closes>>
-----------------------------------------------------------------------------
(* mcp.server.connect and mcp.manager.connect_from_config hold the lock of *)
(* the manager while the server starts.                                    *)
Connect(c) ==
  /\ stage[c] = "resolved" /\ request[c].kind \in {"connect", "connect_from_config"}
  /\ Free(About(c))
  /\ Started(c) /\ Goes(c, "connecting")
  /\ UNCHANGED <<session, addresses, mcp, unpublished, aliases, retained, request, closes, faults>>

(* The manager now holds it, in the place of its namesake.                 *)
Retains(m, c) ==
  /\ retained' = [retained EXCEPT ![m] = c]
  /\ Ends({retained[m]})

(* A connect publishes the client, then its tools; one that finds no room  *)
(* for all of them takes back what it has published and disconnects.       *)
Connected(c) ==
  LET m == About(c) IN
  /\ stage[c] = "connecting" /\ request[c].kind = "connect"
  /\ Retains(m, c)
  /\ \E tools \in SUBSET {Tool(c)} :
       IF Admits({c} \cup tools)
       THEN Publishes({c} \cup tools) /\ Aliases(c, m, c) /\ Answer(c)
       ELSE Goes(c, "undoing") /\ UNCHANGED <<registry, known, aliases, request>>
  /\ UNCHANGED <<session, fenced, mcp, unpublished, closes, faults>>

(* disconnect, whose outcome the code discards.                            *)
Undo(c) ==
  /\ stage[c] = "undoing"
  /\ \/ Succeeds /\ Ends({c}) /\ LetsGo(About(c))
     \/ Fails /\ UNCHANGED framework
  /\ Answer(c)
  /\ UNCHANGED <<session, addresses, mcp, unpublished, aliases, closes>>

(* connect_from_config publishes tools alone and leaves what it has        *)
(* connected to the manager when there is no room for them.                *)
ConnectedFromConfig(c) ==
  /\ stage[c] = "connecting" /\ request[c].kind = "connect_from_config"
  /\ Retains(About(c), c)
  /\ \E tools \in SUBSET {Tool(c)} :
       IF Admits(tools) THEN Publishes(tools) ELSE UNCHANGED <<registry, known>>
  /\ Answer(c)
  /\ UNCHANGED <<session, fenced, mcp, unpublished, aliases, closes, faults>>

ConnectFails(c) ==
  /\ stage[c] = "connecting"
  /\ Ends({c}) /\ Answer(c)
  /\ UNCHANGED <<session, addresses, mcp, unpublished, aliases, retained, closes, faults>>

(* mcp.manager.get_client: another alias of the client a manager holds.    *)
GetClient(c) ==
  LET m == About(c) IN
  /\ stage[c] = "resolved" /\ request[c].kind = "get_client" /\ Free(m)
  /\ IF retained[m] # None /\ Admits({c})
     THEN Publishes({c}) /\ Aliases(c, m, retained[m])
     ELSE UNCHANGED <<registry, known, aliases>>
  /\ Answer(c)
  /\ UNCHANGED <<session, fenced, mcp, unpublished, framework, closes, faults>>

(* mcp.server.disconnect: the aliases a manager has of the client go with  *)
(* it, those that another manager has of a namesake stay.                  *)
NamesakesOf(m) == {a \in Calls : mcp_clients[a] # None}
AliasesOf(m) == {a \in Calls : mcp_clients[a] # None /\ mcp_client_managers[a] = m}

Disconnect(c) ==
  LET m == About(c) IN
  /\ stage[c] = "resolved" /\ request[c].kind = "disconnect" /\ Free(m)
  /\ \/ /\ Succeeds /\ retained[m] # None
        /\ Ends({retained[m]}) /\ LetsGo(m)
        /\ registry' = registry \ AliasesOf(m)
        /\ RemovesClients(AliasesOf(m)) /\ ForgetsManagers(AliasesOf(m))
     \/ /\ (Succeeds /\ retained[m] = None) \/ Fails
        /\ UNCHANGED <<framework, registry, aliases>>
  /\ Answer(c)
  /\ UNCHANGED <<session, known, fenced, mcp, unpublished, closes>>

(* mcp.manager.close_all leaves the aliases alone.                         *)
CloseManager(c) ==
  LET m == About(c) IN
  /\ stage[c] = "resolved" /\ request[c].kind = "close_all" /\ Free(m)
  /\ \/ Succeeds /\ Ends({retained[m]}) /\ LetsGo(m)
     \/ Fails /\ UNCHANGED framework
  /\ Answer(c)
  /\ UNCHANGED <<session, addresses, mcp, unpublished, aliases, closes>>

(* McpClient::close: what is closed is the client the request has cloned.  *)
CloseClient(c) ==
  /\ stage[c] = "resolved" /\ request[c].kind = "client.close"
  /\ \/ /\ Succeeds /\ Ends({request[c].held})
        /\ registry' = registry \ {About(c)}
        /\ RemovesClients({About(c)}) /\ ForgetsManagers({About(c)})
     \/ Fails /\ UNCHANGED <<server, registry, aliases>>
  /\ Answer(c)
  /\ UNCHANGED <<session, known, fenced, mcp, unpublished, retained, closes>>
-----------------------------------------------------------------------------
FencesNothing(id) == UNCHANGED fenced

(* facade.resource.close fences the address first: nothing resolves it     *)
(* from then on, whatever comes of the close.                              *)
Fences(id) == fenced' = fenced \cup {id}

Fence(c) ==
  /\ Serves(c, {"resource.close"})
  /\ IF IsClosed(About(c)) THEN Answer(c) /\ UNCHANGED fenced
     ELSE /\ Fences(About(c)) /\ Goes(c, "fenced")
          /\ request' = [request EXCEPT ![c].ahead = Queued(About(c))]
  /\ UNCHANGED <<session, registry, known, mcp, unpublished, aliases, framework, closes, faults>>

(* Then, behind who is before it for the lock of a manager, it closes the  *)
(* resource, and keeps it with its address when that fails.                *)
AtTheLock(c) == \A d \in request[c].ahead : stage[d] = "done"

CloseResource(c) ==
  LET id == About(c) IN
  /\ stage[c] = "fenced" /\ AtTheLock(c)
  /\ \/ /\ Succeeds /\ id \in registry
        /\ Ends(Behind({id}))
        /\ mcp' = mcp \ {id} /\ registry' = registry \ {id}
        /\ retained' = [m \in Managers |-> IF m = id THEN None ELSE retained[m]]
        /\ RemovesClients({id}) /\ ForgetsManagers({id})
     \/ /\ Fails /\ Behind({id}) # {} /\ ForgetsManagers({id})
        /\ UNCHANGED <<framework, mcp, registry, mcp_clients>>
     \/ /\ Succeeds /\ id \notin registry
        /\ UNCHANGED <<framework, mcp, registry, aliases>>
  /\ Answer(c)
  /\ UNCHANGED <<session, known, fenced, unpublished, closes>>

(* A Session that is closing drops its requests where they await.  A close *)
(* that was under way may have come about, and a manager may have got hold *)
(* of the server that was starting.                                        *)
Awaited(c) ==
  CASE stage[c] = "resolved" /\ request[c].kind \in {"disconnect", "close_all"} ->
         IF Free(About(c)) THEN {retained[About(c)]} ELSE {}
    [] stage[c] = "resolved" /\ request[c].kind = "client.close" -> {request[c].held}
    [] stage[c] \in {"settling", "withdrawing", "undoing"} -> {c}
    [] stage[c] = "fenced" /\ AtTheLock(c) -> Behind({About(c)})
    [] OTHER -> {}

Drops(c) ==
  IF stage[c] = "connecting"
  THEN Retains(About(c), c) \/ (Ends({c}) /\ UNCHANGED retained)
  ELSE \E gone \in {{}, Awaited(c)} : Ends(gone) /\ UNCHANGED retained

SparesStarts(c) == closing /\ stage[c] \in InFlight \ {"preparing", "connecting"}
Cancels(c) == closing /\ stage[c] \in InFlight

Drop(c) ==
  /\ Cancels(c)
  /\ Drops(c) /\ Answer(c)
  /\ UNCHANGED <<session, addresses, mcp, unpublished, aliases, closes, faults>>
-----------------------------------------------------------------------------
(* session/close, which may be made again after one that has failed, and   *)
(* the fence of the teardown.                                              *)
BeginClose(s) ==
  /\ stage[s] = "idle" /\ ~released
  /\ closing' = TRUE /\ Goes(s, "waiting")
  /\ UNCHANGED <<released, addresses, mcp, unpublished, aliases, framework, request, closes, faults>>

Returns(s) == Goes(s, IF s = Teardown THEN "done" ELSE "idle")

(* The permits of requests are back.  session/close keeps the lifecycle,   *)
(* the teardown only waits for it.                                         *)
TakeLifecycle(s) ==
  /\ stage[s] = "waiting" /\ Running = {}
  /\ \A other \in Closers \ {s, Teardown} : stage[other] \notin Phases
  /\ IF released /\ s # Teardown THEN Returns(s) /\ UNCHANGED closes
     ELSE /\ Goes(s, "managers")
          /\ left' = [left EXCEPT ![s] = mcp] /\ failed' = [failed EXCEPT ![s] = FALSE]
  /\ UNCHANGED <<session, addresses, mcp, unpublished, aliases, framework, request, faults>>

(* close_session_resources and close_mcp_debt go through what they have    *)
(* found.  Nothing leaves its owner before its close has succeeded.        *)
CloseNext(s, x) ==
  /\ stage[s] \in Phases /\ x \in left[s]
  /\ left' = [left EXCEPT ![s] = @ \ {x}]
  /\ \/ /\ Succeeds /\ UNCHANGED failed
        /\ CASE stage[s] = "managers" ->
                  /\ Ends({retained[x]}) /\ LetsGo(x) /\ mcp' = mcp \ {x}
                  /\ UNCHANGED <<registry, unpublished, mcp_clients>>
             [] stage[s] = "clients" ->
                  /\ Ends(Behind({x})) /\ RemovesClients({x})
                  /\ UNCHANGED <<registry, retained, mcp, unpublished>>
             [] stage[s] = "debts" ->
                  /\ Ends({x}) /\ registry' = registry \ {x}
                  /\ mcp_preparations' = mcp_preparations \ {x}
                  /\ mcp_cleanup_debt' = mcp_cleanup_debt \ {x}
                  /\ UNCHANGED <<retained, mcp, mcp_clients>>
     \/ /\ Fails /\ failed' = [failed EXCEPT ![s] = TRUE]
        /\ UNCHANGED <<registry, framework, mcp, unpublished, mcp_clients>>
  /\ UNCHANGED <<session, known, fenced, mcp_client_managers, stage, request>>

ToClients(s) ==
  /\ stage[s] = "managers" /\ left[s] = {}
  /\ Goes(s, "clients")
  /\ left' = [left EXCEPT ![s] = {a \in Calls : mcp_clients[a] # None}]
  /\ UNCHANGED <<session, addresses, mcp, unpublished, aliases, framework, request, failed, faults>>

(* A session/close stops at a resource that is still open, the teardown    *)
(* goes on to the debts.                                                   *)
ToDebts(s) ==
  /\ stage[s] = "clients" /\ left[s] = {}
  /\ ForgetsManagers(Addresses)
  /\ IF failed[s] /\ s # Teardown THEN Returns(s) /\ UNCHANGED left
     ELSE /\ Goes(s, "debts")
          /\ left' = [left EXCEPT ![s] = mcp_preparations \cup mcp_cleanup_debt]
  /\ UNCHANGED <<session, addresses, mcp, unpublished, mcp_clients, framework, request, failed, faults>>

(* All is closed: the addresses go, and then the Session, whose own close  *)
(* may fail.                                                               *)
Finish(s) ==
  /\ stage[s] = "debts" /\ left[s] = {}
  /\ IF failed[s] THEN Succeeds /\ UNCHANGED <<registry, released>>
     ELSE /\ registry' = {}
          /\ \/ Succeeds /\ released' = TRUE
             \/ Fails /\ UNCHANGED released
  /\ Returns(s)
  /\ UNCHANGED <<closing, known, fenced, mcp, unpublished, aliases, framework, request, closes>>

(* The teardown has run out of time, or a connection goes with its close.  *)
Abandon(s) ==
  /\ stage[s] \in Phases /\ Fails
  /\ Returns(s)
  /\ UNCHANGED <<session, addresses, mcp, unpublished, aliases, framework, request, closes>>
-----------------------------------------------------------------------------
CallNext(c) ==
  \/ Refuse(c) \/ Resolve(c) \/ Prepare(c) \/ Prepared(c) \/ PreparationFails(c) \/ Settle(c)
  \/ Withdraw(c) \/ Connect(c) \/ Connected(c) \/ Undo(c) \/ ConnectedFromConfig(c)
  \/ ConnectFails(c) \/ GetClient(c) \/ Disconnect(c) \/ CloseManager(c) \/ CloseClient(c)
  \/ Fence(c) \/ CloseResource(c) \/ Drop(c)

CloserNext(s) ==
  \/ TakeLifecycle(s) \/ ToClients(s) \/ ToDebts(s) \/ Finish(s)
  \/ \E x \in Managers \cup Calls : CloseNext(s, x)

Next ==
  \/ \E m \in Managers : OpenManager(m)
  \/ \E c \in Calls, kind \in Kinds, id \in Addresses \cup {None} : Arrive(c, kind, id)
  \/ \E c \in Calls : CallNext(c)
  \/ \E s \in Closers : BeginClose(s) \/ CloserNext(s) \/ Abandon(s)

Spec == Init /\ [][Next]_vars

(* No request ends on its own: a server may take for ever to start.  But a *)
(* request that is cancelled is dropped, one that is let in is refused,    *)
(* and the framework's closes answer.                                      *)
FairSpec ==
  /\ Spec
  /\ \A c \in Calls : WF_vars(Refuse(c) \/ Drop(c))
  /\ \A s \in Closers : WF_vars(CloserNext(s))
-----------------------------------------------------------------------------
Unpublished == mcp_preparations \cup mcp_cleanup_debt
Aliased == {a \in Calls : mcp_clients[a] # None}

(* Every server that runs has somebody in the Host who will close it: a    *)
(* preparation or a debt, an alias, or a manager that is still on record,  *)
(* the one that is just connecting it included.  All of them have a slot   *)
(* in the registry, and as long as the Session is open every slot is one   *)
(* of theirs.  A Session that is closed leaves no server behind.           *)
ResourcesAreOwned ==
  /\ \A x \in Calls : server[x] = "live" =>
       \/ x \in Unpublished
       \/ \E a \in Aliased : mcp_clients[a] = x
       \/ \E m \in mcp : retained[m] = x \/ (stage[x] = "connecting" /\ About(x) = m)
  /\ mcp \cup Unpublished \cup Aliased \subseteq registry
  /\ ~closing => registry \cap (Managers \cup Calls) \subseteq mcp \cup Unpublished \cup Aliased
  /\ released => \A x \in Calls : server[x] # "live"

(* The address of a client that the application knows is withdrawn only    *)
(* once the server behind it is closed, never because a namesake is.       *)
AliasesAreKept ==
  [][\A a \in Aliased \cap known :
       mcp_clients'[a] = None => server'[mcp_clients[a]] = "closed"]_vars

(* A Session that is closing lets all its requests go, those that wait for *)
(* a server that never starts or for the lock of its manager included, and *)
(* every session/close and the teardown return.                            *)
ClosesReturn == <>[](closing => \A p \in Calls \cup Closers : stage[p] \in {"idle", "done"})
=============================================================================
