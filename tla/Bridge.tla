------------------------------- MODULE Bridge -------------------------------
(***************************************************************************)
(* VialiteBridge.java inside one Graal isolate: the tables of the native   *)
(* bridge and the C entry points that change them, each run by the thread  *)
(* that calls it. Most of them hold the monitor of the class; the routing  *)
(* of accepted connections does not, so what a Netty event loop can see    *)
(* in between (a listener without a route, a route without a listener) is  *)
(* a state of its own.                                                     *)
(*                                                                         *)
(* The tables are keyed by the normalised name: putBackendAddress and      *)
(* removeBackendAddress treat a name and its normal form alike.            *)
(***************************************************************************)
CONSTANTS
    Keys,         \* normalised backend names
    Static,       \* the backends of the configuration given to vialite_init
    Forwarding,   \* the forwarding mode of each backend
    Ports,        \* the ports a listener can get
    Threads,      \* the native threads that enter the isolate
    Conns,        \* connections of Gate to the listeners
    None

ASSUME BridgeAssumption ==
    /\ Static \subseteq Keys
    /\ Forwarding \in [Keys -> {"NONE", "LEGACY", "VELOCITY"}]
    /\ None \notin Keys \cup Ports \cup Threads
    /\ {"ok", "error"} \cap Ports = {}

VARIABLES
    INITIALIZED,  \* VialiteBridge.INITIALIZED
    RUNNING,      \* VialiteBridge.RUNNING
    activeConfig, \* activeConfig is not null
    mode,         \* activeForwardingMode, and what ViaProxy's config was given
    consumers,    \* the route consumers are registered with the EVENT_MANAGER
    servers,      \* SERVERS_BY_BACKEND: the port of the backend's NetServer
    addresses,    \* BACKEND_ADDRESSES
    routes,       \* ROUTES_BY_LOCAL_PORT
    listening,    \* whose server channel is open on a port
    monitor,      \* the thread that holds the class monitor
    jpc,          \* where each thread is in the bridge
    jkey,         \* the backend it adds or removes
    jret,         \* what its last entry point returned
    conn,         \* each connection: the backend and the port it is meant for
    target,       \* where onPreConnect sent it
    stale         \* connections whose backend went away after its address was read

flagVars == <<INITIALIZED, RUNNING, activeConfig, consumers>>
tableVars == <<mode, servers, addresses, routes, listening>>
threadVars == <<monitor, jpc, jkey, jret>>
connVars == <<conn, target, stale>>
bridgeVars == <<flagVars, tableVars, threadVars, connVars>>

JavaPC == {"out", "init", "initadd", "initbound", "initclose", "add", "bound",
           "remove", "unrouted", "run", "checked", "loop", "shutdown",
           "enterclose", "close", "done"}
ConnPC == {"idle", "looked", "accepted", "refused", "handled"}

BridgeTypeOK ==
    /\ INITIALIZED \in BOOLEAN /\ RUNNING \in BOOLEAN
    /\ activeConfig \in BOOLEAN /\ consumers \in BOOLEAN
    /\ mode \in {"NONE", "LEGACY", "VELOCITY"}
    /\ servers \in [Keys -> Ports \cup {None}]
    /\ addresses \in [Keys -> Ports \cup {None}]
    /\ routes \in [Ports -> Keys \cup {None}]
    /\ listening \in [Ports -> Keys \cup {None}]
    /\ monitor \in Threads \cup {None}
    /\ jpc \in [Threads -> JavaPC]
    /\ jkey \in [Threads -> Keys \cup {None}]
    /\ jret \in [Threads -> Ports \cup {"ok", "error"}]
    /\ conn \in [Conns -> [pc : ConnPC, key : Keys \cup {None}, port : Ports \cup {None}]]
    /\ target \in [Conns -> Keys \cup {None}]
    /\ stale \in SUBSET Conns

Empty(S) == [x \in S |-> None]
InUse == {p \in Ports : listening[p] # None}
InJava(t) == jpc[t] \notin {"out", "done"}

\* A new isolate has its own statics.
FreshIsolate ==
    /\ INITIALIZED' = FALSE /\ RUNNING' = FALSE
    /\ activeConfig' = FALSE /\ consumers' = FALSE
    /\ mode' = "NONE"
    /\ servers' = Empty(Keys) /\ addresses' = Empty(Keys)
    /\ routes' = Empty(Ports)
    /\ monitor' = None

BridgeInit ==
    /\ INITIALIZED = FALSE /\ RUNNING = FALSE
    /\ activeConfig = FALSE /\ consumers = FALSE
    /\ mode = "NONE"
    /\ servers = Empty(Keys) /\ addresses = Empty(Keys)
    /\ routes = Empty(Ports) /\ listening = Empty(Ports)
    /\ monitor = None
    /\ jpc = [t \in Threads |-> "out"]
    /\ jkey = Empty(Threads)
    /\ jret = [t \in Threads |-> "ok"]
    /\ conn = [x \in Conns |-> [pc |-> "idle", key |-> None, port |-> None]]
    /\ target = Empty(Conns)
    /\ stale = {}

\* A thread calls an entry point, and returns from one.
Enter(t, at, k) ==
    /\ jpc' = [jpc EXCEPT ![t] = at]
    /\ jkey' = [jkey EXCEPT ![t] = k]
    /\ UNCHANGED <<monitor, jret>>
At(t, at) == jpc' = [jpc EXCEPT ![t] = at]
Return(t, r) ==
    /\ jpc' = [jpc EXCEPT ![t] = "done"]
    /\ jret' = [jret EXCEPT ![t] = r]
Acquire(t) == monitor = None /\ monitor' = t

-----------------------------------------------------------------------------
(***************************************************************************)
(* addBackend(NativeConfig, NativeBackend), with the monitor held.         *)
(***************************************************************************)
\* Mutant: the forwarding mode of later backends is not compared.
Compatible_First(k) == servers[k] = None

\* Not a duplicate, and not a second forwarding mode.
Compatible(k) ==
    /\ servers[k] = None
    /\ servers # Empty(Keys) => mode = Forwarding[k]

\* ViaProxy's config follows the first backend.
Configure(k) == mode' = IF servers = Empty(Keys) THEN Forwarding[k] ELSE mode

\* The listener is bound: from here on it accepts.
Bind(t, k) ==
    /\ Compatible(k)
    /\ \E p \in Ports \ InUse : listening' = [listening EXCEPT ![p] = k]
    /\ Configure(k)
    /\ jkey' = [jkey EXCEPT ![t] = k]
    /\ UNCHANGED <<servers, addresses, routes>>

\* Nothing was entered in the tables: a duplicate, a mixed forwarding mode, an
\* unknown mode or version, a port that cannot be bound.
AddThrows(k) ==
    /\ \/ mode' = mode
       \/ Compatible(k) /\ Configure(k)
    /\ UNCHANGED <<servers, addresses, routes, listening>>

PortOf(k) == CHOOSE p \in Ports : listening[p] = k

\* The bound listener is entered in the three tables.
Register(t) ==
    LET k == jkey[t]
        p == PortOf(k)
    IN  /\ servers' = [servers EXCEPT ![k] = p]
        /\ addresses' = [addresses EXCEPT ![k] = p]
        /\ routes' = [routes EXCEPT ![p] = k]
        /\ UNCHANGED <<listening, mode>>

-----------------------------------------------------------------------------
(***************************************************************************)
(* shutdownServers, with the monitor held: close every channel, then clear *)
(* the tables.                                                             *)
(***************************************************************************)
Unserved == {x \in Conns : conn[x].pc \in {"looked", "accepted"}}

CloseOne ==
    /\ \E k \in Keys :
          /\ servers[k] # None /\ listening[servers[k]] = k
          /\ listening' = [listening EXCEPT ![servers[k]] = None]
    /\ stale' = stale \cup Unserved
    /\ UNCHANGED <<flagVars, mode, servers, addresses, routes, conn, target>>

AllClosed == \A k \in Keys : servers[k] # None => listening[servers[k]] # k

ClearTables ==
    /\ AllClosed
    /\ servers' = Empty(Keys) /\ addresses' = Empty(Keys) /\ routes' = Empty(Ports)
    /\ mode' = "NONE"
    /\ activeConfig' = FALSE
    /\ INITIALIZED' = FALSE
    /\ UNCHANGED <<RUNNING, consumers, listening, conn, target, stale>>

-----------------------------------------------------------------------------
(***************************************************************************)
(* vialite_init. The configuration is one Go produced, so it parses; the   *)
(* isolate is new, so the first shutdownServers finds nothing.             *)
(***************************************************************************)
InitBegin(t) ==
    /\ jpc[t] = "init"
    /\ Acquire(t)
    /\ consumers' = FALSE
    /\ At(t, "initadd")
    /\ UNCHANGED <<INITIALIZED, RUNNING, activeConfig, tableVars, jkey, jret, connVars>>

\* The loop over nativeConfig.backends; initializeViaProxy did not find two
\* forwarding modes.
InitBind(t) ==
    /\ jpc[t] = "initadd"
    /\ \A j, k \in Static : Forwarding[j] = Forwarding[k]
    /\ \E k \in Static : servers[k] = None /\ Bind(t, k)
    /\ At(t, "initbound")
    /\ UNCHANGED <<flagVars, monitor, jret, connVars>>

InitRegister(t) ==
    /\ jpc[t] = "initbound"
    /\ Register(t)
    /\ At(t, "initadd")
    /\ UNCHANGED <<flagVars, monitor, jkey, jret, connVars>>

\* initializeViaProxy or an addBackend throws.
InitThrows(t) ==
    /\ jpc[t] = "initadd"
    /\ \/ servers = Empty(Keys) /\ UNCHANGED tableVars
       \/ \E k \in Static : servers[k] = None /\ AddThrows(k)
    /\ At(t, "initclose")
    /\ UNCHANGED <<flagVars, monitor, jkey, jret, connVars>>

InitFails(t) ==
    /\ jpc[t] = "initclose"
    /\ ClearTables
    /\ monitor' = None
    /\ Return(t, "error")
    /\ UNCHANGED jkey

\* Mutant: the consumers unregistered at the beginning are not registered again.
InitEnd_NoConsumers(t) ==
    /\ jpc[t] = "initadd"
    /\ \A k \in Static : servers[k] # None
    /\ activeConfig' = TRUE
    /\ INITIALIZED' = TRUE
    /\ monitor' = None
    /\ Return(t, "ok")
    /\ UNCHANGED <<consumers, RUNNING, tableVars, jkey, connVars>>

InitEnd(t) ==
    /\ jpc[t] = "initadd"
    /\ \A k \in Static : servers[k] # None
    /\ activeConfig' = TRUE
    /\ consumers' = TRUE
    /\ INITIALIZED' = TRUE
    /\ monitor' = None
    /\ Return(t, "ok")
    /\ UNCHANGED <<RUNNING, tableVars, jkey, connVars>>

-----------------------------------------------------------------------------
(***************************************************************************)
(* vialite_add_backend and vialite_remove_backend.                         *)
(***************************************************************************)
\* The monitor is entered; a bridge that is not initialised returns "".
AddRefused(t) ==
    /\ jpc[t] = "add" /\ monitor = None
    /\ ~(INITIALIZED /\ activeConfig)
    /\ Return(t, "error")
    /\ UNCHANGED <<flagVars, tableVars, monitor, jkey, connVars>>

AddBind(t) ==
    /\ jpc[t] = "add"
    /\ Acquire(t)
    /\ INITIALIZED /\ activeConfig
    /\ Bind(t, jkey[t])
    /\ At(t, "bound")
    /\ UNCHANGED <<flagVars, jret, connVars>>

AddFails(t) ==
    /\ jpc[t] = "add" /\ monitor = None
    /\ INITIALIZED /\ activeConfig
    /\ AddThrows(jkey[t])
    /\ Return(t, "error")
    /\ UNCHANGED <<flagVars, monitor, jkey, connVars>>

AddRegister(t) ==
    /\ jpc[t] = "bound"
    /\ Register(t)
    /\ monitor' = None
    /\ Return(t, PortOf(jkey[t]))
    /\ UNCHANGED <<flagVars, jkey, connVars>>

RemoveMissing(t) ==
    /\ jpc[t] = "remove" /\ monitor = None
    /\ servers[jkey[t]] = None
    /\ Return(t, "error")
    /\ UNCHANGED <<flagVars, tableVars, monitor, jkey, connVars>>

\* The server and its route leave the tables, before the channel is closed.
RemoveUnroute(t) ==
    LET k == jkey[t] IN
    /\ jpc[t] = "remove"
    /\ Acquire(t)
    /\ servers[k] # None
    /\ servers' = [servers EXCEPT ![k] = None]
    /\ routes' = [routes EXCEPT ![servers[k]] = None]
    /\ stale' = stale \cup {x \in Unserved : conn[x].key = k}
    /\ At(t, "unrouted")
    /\ UNCHANGED <<flagVars, mode, addresses, listening, jkey, jret, conn, target>>

\* Mutant: the address table is not cleaned.
RemoveClose_Address(t) ==
    LET k == jkey[t] IN
    /\ jpc[t] = "unrouted"
    /\ listening' = [p \in Ports |-> IF listening[p] = k THEN None ELSE listening[p]]
    /\ monitor' = None
    /\ Return(t, "ok")
    /\ UNCHANGED <<addresses, flagVars, mode, servers, routes, jkey, connVars>>

RemoveClose(t) ==
    LET k == jkey[t] IN
    /\ jpc[t] = "unrouted"
    /\ listening' = [p \in Ports |-> IF listening[p] = k THEN None ELSE listening[p]]
    /\ addresses' = [addresses EXCEPT ![k] = None]
    /\ monitor' = None
    /\ Return(t, "ok")
    /\ UNCHANGED <<flagVars, mode, servers, routes, jkey, connVars>>

-----------------------------------------------------------------------------
(***************************************************************************)
(* vialite_run and vialite_shutdown. Nothing interrupts the run loop.      *)
(***************************************************************************)
RunRefused(t) ==
    /\ jpc[t] = "run"
    /\ ~INITIALIZED
    /\ Return(t, "error")
    /\ UNCHANGED <<flagVars, tableVars, monitor, jkey, connVars>>

RunCheck(t) ==
    /\ jpc[t] = "run"
    /\ INITIALIZED
    /\ At(t, "checked")
    /\ UNCHANGED <<flagVars, tableVars, monitor, jkey, jret, connVars>>

RunSet(t) ==
    /\ jpc[t] = "checked"
    /\ RUNNING' = TRUE
    /\ At(t, "loop")
    /\ UNCHANGED <<INITIALIZED, activeConfig, consumers, tableVars, monitor, jkey, jret, connVars>>

RunLeaves(t) ==
    /\ jpc[t] = "loop"
    /\ ~RUNNING
    /\ At(t, "enterclose")
    /\ UNCHANGED <<flagVars, tableVars, monitor, jkey, jret, connVars>>

Shutdown(t) ==
    /\ jpc[t] = "shutdown"
    /\ RUNNING' = FALSE
    /\ At(t, "enterclose")
    /\ UNCHANGED <<INITIALIZED, activeConfig, consumers, tableVars, monitor, jkey, jret, connVars>>

\* shutdownServers, as the last call of both and after a failed init.
EnterClose(t) ==
    /\ jpc[t] = "enterclose"
    /\ Acquire(t)
    /\ At(t, "close")
    /\ UNCHANGED <<flagVars, tableVars, jkey, jret, connVars>>

Close(t) ==
    /\ jpc[t] \in {"initclose", "close"}
    /\ CloseOne
    /\ UNCHANGED threadVars

Closed(t) ==
    /\ jpc[t] = "close"
    /\ ClearTables
    /\ monitor' = None
    /\ Return(t, "ok")
    /\ UNCHANGED jkey

-----------------------------------------------------------------------------
(***************************************************************************)
(* Connections. Accepting and routing run on Netty's event loops and hold  *)
(* no lock.                                                                *)
(***************************************************************************)
\* Gate dials the address it was given; whoever listens there accepts.
Dial(x) ==
    /\ conn[x].pc = "looked"
    /\ conn' = [conn EXCEPT ![x].pc =
                   IF listening[conn[x].port] = None THEN "refused" ELSE "accepted"]
    /\ UNCHANGED <<flagVars, tableVars, threadVars, target, stale>>

\* onPreConnect looks the route up by the local port; without consumer or route
\* the connection keeps ViaProxy's own target, which is none of the backends.
PreConnect(x) ==
    /\ conn[x].pc = "accepted"
    /\ conn' = [conn EXCEPT ![x].pc = "handled"]
    /\ target' = [target EXCEPT ![x] = IF consumers THEN routes[conn[x].port] ELSE None]
    /\ UNCHANGED <<flagVars, tableVars, threadVars, stale>>

Java(t) ==
    \/ InitBegin(t) \/ InitBind(t) \/ InitRegister(t) \/ InitThrows(t)
    \/ InitFails(t) \/ InitEnd(t)
    \/ AddRefused(t) \/ AddBind(t) \/ AddFails(t) \/ AddRegister(t)
    \/ RemoveMissing(t) \/ RemoveUnroute(t) \/ RemoveClose(t)
    \/ RunRefused(t) \/ RunCheck(t) \/ RunSet(t) \/ RunLeaves(t)
    \/ Shutdown(t) \/ EnterClose(t) \/ Close(t) \/ Closed(t)

Netty(x) == Dial(x) \/ PreConnect(x)
=============================================================================
