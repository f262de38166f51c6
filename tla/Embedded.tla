------------------------------ MODULE Embedded ------------------------------
(***************************************************************************)
(* embeddedRunner of go/embedded.go, composed with the native bridge it    *)
(* drives: the goroutine of run, the goroutine that sits in vialite_run,   *)
(* and the calls of AddBackend, RemoveBackend and BackendDialAddress.      *)
(* A native call made by a goroutine is that goroutine's steps in Bridge.  *)
(***************************************************************************)
EXTENDS Naturals, Bridge

CONSTANTS
    Calls,        \* AddBackend and RemoveBackend calls
    Main,         \* the goroutine of Start
    Native,       \* the goroutine of runNative
    MaxRuns       \* bound: how often the Server is started

ASSUME EmbeddedAssumption ==
    /\ MaxRuns \in Nat
    /\ Threads = Calls \cup {Main, Native}
    /\ Main # Native /\ Main \notin Calls /\ Native \notin Calls

VARIABLES
    rpc,          \* where run is
    runs,         \* Starts so far
    ready,        \* Server: started and ready
    cancelled,    \* the run context is cancelled
    isolate,      \* "none", "up" or "torn"
    mu,           \* who holds embeddedRunner.mu
    symbols,      \* embeddedRunner.symbols and thread are set
    healthy,      \* embeddedRunner.healthy
    backends,     \* embeddedRunner.backends
    cpc           \* where each call is

runVars == <<rpc, runs, ready, cancelled, isolate>>
runnerVars == <<symbols, healthy, backends>>
callVars == <<mu, cpc>>
vars == <<bridgeVars, runVars, runnerVars, callVars>>

RunPC == {"idle", "boot", "init", "lookup", "publish", "healthy", "ready", "spawn",
          "select", "shutdown", "join", "clear", "unhealthy", "teardown", "returning"}
CallPC == {"idle", "add", "remove", "adding", "removing", "returned"}

\* Type invariant.
TypeOK ==
    /\ BridgeTypeOK
    /\ rpc \in RunPC
    /\ runs \in 0..MaxRuns
    /\ ready \in BOOLEAN /\ cancelled \in BOOLEAN
    /\ isolate \in {"none", "up", "torn"}
    /\ mu \in Threads \cup {None}
    /\ symbols \in BOOLEAN /\ healthy \in BOOLEAN
    /\ backends \in [Keys -> Ports \cup {None}]
    /\ cpc \in [Calls -> CallPC]

Init ==
    /\ BridgeInit
    /\ rpc = "idle" /\ runs = 0
    /\ ready = FALSE /\ cancelled = FALSE
    /\ isolate = "none"
    /\ mu = None
    /\ symbols = FALSE /\ healthy = FALSE
    /\ backends = Empty(Keys)
    /\ cpc = [c \in Calls |-> "idle"]

-----------------------------------------------------------------------------
(***************************************************************************)
(* run.                                                                    *)
(***************************************************************************)
Start ==
    /\ rpc = "idle" /\ runs < MaxRuns
    /\ rpc' = "boot" /\ runs' = runs + 1
    /\ cancelled' = FALSE
    /\ UNCHANGED <<bridgeVars, ready, isolate, runnerVars, callVars>>

\* Stop, or the parent context.
Cancel ==
    /\ rpc # "idle" /\ ~cancelled
    /\ cancelled' = TRUE
    /\ UNCHANGED <<bridgeVars, rpc, runs, ready, isolate, runnerVars, callVars>>

\* The library is not found, or not loadable, or has no isolate to give.
BootFails ==
    /\ rpc = "boot"
    /\ rpc' = "returning"
    /\ UNCHANGED <<bridgeVars, runs, ready, cancelled, isolate, runnerVars, callVars>>

CreateIsolate ==
    /\ rpc = "boot"
    /\ FreshIsolate
    /\ isolate' = "up"
    /\ jpc' = [jpc EXCEPT ![Main] = "init", ![Native] = "out"]
    /\ rpc' = "init"
    /\ UNCHANGED <<listening, jkey, jret, connVars, runs, ready, cancelled, runnerVars, callVars>>

\* A goroutine is back from a native call; its arguments and result are gone.
Leave(t) ==
    /\ jpc' = [jpc EXCEPT ![t] = "out"]
    /\ jkey' = [jkey EXCEPT ![t] = None]
    /\ jret' = [jret EXCEPT ![t] = "ok"]
    /\ UNCHANGED monitor

InitReturns ==
    /\ rpc = "init" /\ jpc[Main] = "done"
    /\ Leave(Main)
    /\ rpc' = IF jret[Main] = "ok" THEN "lookup" ELSE "teardown"
    /\ UNCHANGED <<flagVars, tableVars, connVars, runs, ready, cancelled, isolate,
                   runnerVars, callVars>>

\* vialite_backend_address for each configured backend. Before symbols is set no
\* call reaches the bridge, so the lookups see one state, and all names are there.
LookupStatic ==
    /\ rpc = "lookup"
    /\ \A k \in Static : addresses[k] # None
    /\ backends' = [k \in Keys |-> IF k \in Static THEN addresses[k] ELSE None]
    /\ rpc' = "publish"
    /\ UNCHANGED <<bridgeVars, runs, ready, cancelled, isolate, symbols, healthy, callVars>>

Publish ==
    /\ rpc = "publish" /\ mu = None
    /\ symbols' = TRUE
    /\ rpc' = "healthy"
    /\ UNCHANGED <<bridgeVars, runs, ready, cancelled, isolate, healthy, backends, callVars>>

StoreHealthy ==
    /\ rpc = "healthy"
    /\ healthy' = TRUE
    /\ rpc' = "ready"
    /\ UNCHANGED <<bridgeVars, runs, ready, cancelled, isolate, symbols, backends, callVars>>

MarkReady ==
    /\ rpc = "ready"
    /\ ready' = TRUE
    /\ rpc' = "spawn"
    /\ UNCHANGED <<bridgeVars, runs, cancelled, isolate, runnerVars, callVars>>

\* runNative starts the goroutine of vialite_run and waits.
SpawnNative ==
    /\ rpc = "spawn"
    /\ Enter(Native, "run", None)
    /\ rpc' = "select"
    /\ UNCHANGED <<flagVars, tableVars, connVars, runs, ready, cancelled, isolate,
                   runnerVars, callVars>>

\* Mutant: the symbols are read under r.mu, which is not given back.
CallShutdown_Locked ==
    /\ rpc = "select" /\ cancelled
    /\ mu = None /\ mu' = Main
    /\ Enter(Main, "shutdown", None)
    /\ rpc' = "shutdown"
    /\ UNCHANGED <<flagVars, tableVars, connVars, runs, ready, cancelled, isolate,
                   runnerVars, cpc>>

CallShutdown ==
    /\ rpc = "select" /\ cancelled
    /\ Enter(Main, "shutdown", None)
    /\ rpc' = "shutdown"
    /\ UNCHANGED <<flagVars, tableVars, connVars, runs, ready, cancelled, isolate,
                   runnerVars, callVars>>

ShutdownReturns ==
    /\ rpc = "shutdown" /\ jpc[Main] = "done"
    /\ Leave(Main)
    /\ rpc' = "join"
    /\ UNCHANGED <<flagVars, tableVars, connVars, runs, ready, cancelled, isolate,
                   runnerVars, callVars>>

\* done delivers the result of vialite_run.
NativeDone ==
    /\ rpc \in {"select", "join"}
    /\ jpc[Native] = "done"
    /\ Leave(Native)
    /\ rpc' = "clear"
    /\ UNCHANGED <<flagVars, tableVars, connVars, runs, ready, cancelled, isolate,
                   runnerVars, callVars>>

\* Mutant: the fields are cleared without r.mu.
Clear_NoLock ==
    /\ rpc = "clear"
    /\ symbols' = FALSE
    /\ backends' = Empty(Keys)
    /\ rpc' = "unhealthy"
    /\ UNCHANGED <<bridgeVars, runs, ready, cancelled, isolate, healthy, callVars>>

\* The deferred functions, last first.
Clear ==
    /\ rpc = "clear" /\ mu = None
    /\ symbols' = FALSE
    /\ backends' = Empty(Keys)
    /\ rpc' = "unhealthy"
    /\ UNCHANGED <<bridgeVars, runs, ready, cancelled, isolate, healthy, callVars>>

StoreUnhealthy ==
    /\ rpc = "unhealthy"
    /\ healthy' = FALSE
    /\ rpc' = "teardown"
    /\ UNCHANGED <<bridgeVars, runs, ready, cancelled, isolate, symbols, backends, callVars>>

\* Connections that were accepted and not handled end with the isolate.
TearDownIsolate ==
    /\ rpc = "teardown"
    /\ isolate' = "torn"
    /\ conn' = [x \in Conns |-> IF conn[x].pc = "accepted"
                               THEN [conn[x] EXCEPT !.pc = "refused"] ELSE conn[x]]
    /\ rpc' = "returning"
    /\ UNCHANGED <<flagVars, tableVars, threadVars, target, stale, runs, ready, cancelled, runnerVars, callVars>>

\* Start clears started and ready.
StartReturns ==
    /\ rpc = "returning"
    /\ ready' = FALSE
    /\ rpc' = "idle"
    /\ UNCHANGED <<bridgeVars, runs, cancelled, isolate, runnerVars, callVars>>

MainStep ==
    \/ BootFails \/ CreateIsolate \/ InitReturns \/ LookupStatic \/ Publish
    \/ StoreHealthy \/ MarkReady \/ SpawnNative \/ CallShutdown \/ ShutdownReturns
    \/ NativeDone \/ Clear \/ StoreUnhealthy \/ TearDownIsolate \/ StartReturns

-----------------------------------------------------------------------------
(***************************************************************************)
(* addBackend and removeBackend. r.mu is held across the native call.      *)
(***************************************************************************)
\* Server.AddBackend and Server.RemoveBackend pass their ready gate.
Invoke(c) ==
    /\ cpc[c] = "idle" /\ ready
    /\ \E op \in {"add", "remove"}, k \in Keys :
          /\ cpc' = [cpc EXCEPT ![c] = op]
          /\ jkey' = [jkey EXCEPT ![c] = k]
    /\ UNCHANGED <<flagVars, tableVars, monitor, jpc, jret, connVars, runVars, runnerVars, mu>>

Usable == symbols /\ healthy

\* ErrNotStarted, ErrDuplicateBackend, ErrBackendNotFound.
CallRefused(c) ==
    /\ cpc[c] \in {"add", "remove"} /\ mu = None
    /\ Usable => (cpc[c] = "add") = (backends[jkey[c]] # None)
    /\ cpc' = [cpc EXCEPT ![c] = "returned"]
    /\ Leave(c)
    /\ UNCHANGED <<flagVars, tableVars, connVars, runVars, runnerVars, mu>>

\* The call's own context is done.
CallCancelled(c) ==
    /\ cpc[c] \in {"add", "remove"}
    /\ cpc' = [cpc EXCEPT ![c] = "returned"]
    /\ Leave(c)
    /\ UNCHANGED <<flagVars, tableVars, connVars, runVars, runnerVars, mu>>

CallNative(c) ==
    /\ cpc[c] \in {"add", "remove"} /\ mu = None
    /\ Usable
    /\ (cpc[c] = "add") = (backends[jkey[c]] = None)
    /\ mu' = c
    /\ Enter(c, cpc[c], jkey[c])
    /\ cpc' = [cpc EXCEPT ![c] = IF @ = "add" THEN "adding" ELSE "removing"]
    /\ UNCHANGED <<flagVars, tableVars, connVars, runVars, runnerVars>>

\* Mutant: the empty address of a failed add is stored.
AddReturns_Empty(c) ==
    /\ cpc[c] = "adding" /\ jpc[c] = "done"
    /\ backends' = [backends EXCEPT ![jkey[c]] = jret[c]]
    /\ cpc' = [cpc EXCEPT ![c] = "returned"]
    /\ mu' = None
    /\ Leave(c)
    /\ UNCHANGED <<flagVars, tableVars, connVars, runVars, symbols, healthy>>

AddReturns(c) ==
    /\ cpc[c] = "adding" /\ jpc[c] = "done"
    /\ backends' = IF jret[c] = "error" THEN backends
                   ELSE [backends EXCEPT ![jkey[c]] = jret[c]]
    /\ cpc' = [cpc EXCEPT ![c] = "returned"]
    /\ mu' = None
    /\ Leave(c)
    /\ UNCHANGED <<flagVars, tableVars, connVars, runVars, symbols, healthy>>

\* All aliases of the backend are deleted, unless the bridge did not know it.
RemoveReturns(c) ==
    /\ cpc[c] = "removing" /\ jpc[c] = "done"
    /\ backends' = IF jret[c] = "error" THEN backends
                   ELSE [backends EXCEPT ![jkey[c]] = None]
    /\ cpc' = [cpc EXCEPT ![c] = "returned"]
    /\ mu' = None
    /\ Leave(c)
    /\ UNCHANGED <<flagVars, tableVars, connVars, runVars, symbols, healthy>>

CallStep(c) == CallRefused(c) \/ CallNative(c) \/ AddReturns(c) \/ RemoveReturns(c)

\* Gate asks BackendDialAddress for a backend, and will dial the answer.
LookupAddress(x) ==
    /\ conn[x].pc = "idle" /\ ready /\ mu = None
    /\ \E k \in Keys :
          /\ backends[k] # None
          /\ conn' = [conn EXCEPT ![x] = [pc |-> "looked", key |-> k, port |-> backends[k]]]
          /\ stale' = IF servers[k] # None /\ listening[servers[k]] = k
                      THEN stale ELSE stale \cup {x}
    /\ UNCHANGED <<flagVars, tableVars, threadVars, target, runVars, runnerVars, callVars>>

\* A step of a goroutine inside the bridge.
InBridge(t) ==
    /\ Java(t)
    /\ UNCHANGED <<rpc, runs, ready, cancelled, isolate, runnerVars, callVars>>

Traffic(x) ==
    \/ LookupAddress(x)
    \/ Netty(x) /\ UNCHANGED <<runVars, runnerVars, callVars>>

Next ==
    \/ Start \/ Cancel \/ MainStep
    \/ \E c \in Calls : Invoke(c) \/ CallCancelled(c) \/ CallStep(c)
    \/ \E t \in Threads : InBridge(t)
    \/ \E x \in Conns : Traffic(x)

Spec == Init /\ [][Next]_vars

\* Goroutines and native threads are scheduled; nobody is obliged to start, to
\* stop, to call, to give a call up or to connect.
Fairness ==
    /\ WF_vars(MainStep)
    /\ \A c \in Calls : WF_vars(CallStep(c))
    /\ \A t \in Threads : WF_vars(InBridge(t))

FairSpec == Spec /\ Fairness

-----------------------------------------------------------------------------
(***************************************************************************)
(* Properties.                                                             *)
(***************************************************************************)
\* A run that is over leaves nobody and nothing behind: no goroutine is inside
\* the isolate when it is torn down (run clears symbols under r.mu before that),
\* and no listener is open, because an add overtaken by vialite_shutdown either
\* finished before the tables were cleared, and is closed, or finds the bridge
\* uninitialised.
TearDownClean ==
    /\ isolate = "torn" => \A t \in Threads : ~InJava(t)
    /\ isolate # "up" => InUse = {}

\* The forwarding mode is one switch of ViaProxy's config, so all backends with
\* a server share it, also after the last backend of another mode was removed.
OneForwardingMode == \A k \in Keys : servers[k] # None => mode = Forwarding[k]

\* Four tables and the listeners tell one story: the bridge's three and the open
\* listeners whenever nobody holds the monitor, the runner's own map between
\* calls and until a shutdown begins.
RegistriesAgree ==
    /\ monitor = None /\ isolate = "up" =>
          /\ addresses = servers
          /\ \A k \in Keys, p \in Ports : servers[k] = p <=> listening[p] = k
          /\ \A k \in Keys, p \in Ports : servers[k] = p <=> routes[p] = k
    /\ symbols /\ mu = None /\ ~cancelled => backends = addresses

\* A connection to an address Gate was given reaches the backend it was given
\* for, unless that backend has gone away since.
RoutedAsDialled ==
    \A x \in Conns : conn[x].pc = "handled" /\ x \notin stale => target[x] = conn[x].key

\* runLoop stored RUNNING after vialite_shutdown had cleared it: shutdown fell
\* between the spawn of the native goroutine and that store.
ShutdownLost ==
    RUNNING /\ (rpc = "join" \/ (rpc = "shutdown" /\ jpc[Main] # "shutdown"))

\* Nobody is left waiting: every AddBackend and RemoveBackend comes back, and
\* Stop ends the run whatever the calls and the bridge are doing, except when
\* runLoop's unconditional RUNNING.set(true) undoes the shutdown.
AllReturn ==
    /\ \A c \in Calls : cpc[c] # "idle" ~> cpc[c] = "returned"
    /\ cancelled ~> (rpc = "idle" \/ ShutdownLost)
=============================================================================
