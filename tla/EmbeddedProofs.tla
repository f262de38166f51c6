--------------------------- MODULE EmbeddedProofs ---------------------------
(***************************************************************************)
(* Proofs about Embedded, for every number of backends, ports, calls,      *)
(* connections and runs: the four registries agree whenever nobody is      *)
(* changing them, one forwarding mode is served, a run that is over leaves *)
(* nothing in its isolate, and a connection reaches the backend whose      *)
(* address was given out.                                                  *)
(*                                                                         *)
(* The inductive invariant follows the two locks. Places says which        *)
(* goroutine can be at which point of the bridge, Locks that the holders   *)
(* of the monitor and of r.mu are exactly the goroutines in the critical   *)
(* sections; with them every step inside a critical section is a step of   *)
(* the one holder. Tables relates the bridge's tables and the listeners in *)
(* the middle of such a section, Mirror the runner's own map to the        *)
(* bridge's, and Dialled the addresses Gate holds to both.                 *)
(***************************************************************************)
EXTENDS Embedded, TLAPS

-----------------------------------------------------------------------------
(***************************************************************************)
(* The inductive invariant.                                                *)
(***************************************************************************)
Published == {"healthy", "ready", "spawn", "select", "shutdown", "join", "clear"}
Serving == {"lookup", "publish", "healthy", "ready", "spawn", "select", "shutdown", "join"}
Spawned == {"select", "shutdown", "join"}
InCall == {"adding", "removing"}
Initialising == {"initadd", "initbound", "initclose"}
Holding == Initialising \cup {"bound", "unrouted", "close"}

\* Which goroutine is where in the bridge, and where run then is.
Places ==
    /\ \A t \in Threads :
          /\ jpc[t] \in Initialising \cup {"init"} => t = Main /\ rpc = "init"
          /\ jpc[t] \in {"add", "bound"} => t \in Calls /\ cpc[t] = "adding"
          /\ jpc[t] \in {"remove", "unrouted"} => t \in Calls /\ cpc[t] = "removing"
          /\ jpc[t] \in {"run", "checked", "loop"} => t = Native /\ rpc \in Spawned
          /\ jpc[t] = "shutdown" => t = Main /\ rpc = "shutdown"
          /\ jpc[t] \in {"enterclose", "close"} =>
                \/ t = Main /\ rpc = "shutdown"
                \/ t = Native /\ rpc \in Spawned
          /\ jpc[t] = "done" =>
                \/ t = Main /\ rpc \in {"init", "shutdown"}
                \/ t = Native /\ rpc \in Spawned
                \/ t \in Calls /\ cpc[t] \in InCall
    /\ \A c \in Calls : cpc[c] \in InCall => rpc \in Published
    /\ symbols => rpc \in Published
    /\ isolate = "up" <=> rpc \notin {"idle", "boot", "returning"}

\* The two locks are held by whoever is in their critical sections.
Locks ==
    /\ \A t \in Threads : monitor = t <=> jpc[t] \in Holding
    /\ \A c \in Calls : mu = c <=> cpc[c] \in InCall
    /\ mu \in Calls \cup {None}

\* What the entry points are called with, and what they return.
Arguments ==
    /\ \A c \in Calls : cpc[c] \in {"add", "remove", "adding", "removing"} => jkey[c] \in Keys
    /\ \A t \in Threads : jpc[t] = "initbound" => jkey[t] \in Static
    /\ \A c \in Calls : cpc[c] = "adding" /\ jpc[c] = "done" => jret[c] \in Ports \cup {"error"}

\* The backend whose tables the holder of the monitor is changing.
Adding(k) ==
    monitor \in Threads /\ jpc[monitor] \in {"initbound", "bound"} /\ jkey[monitor] = k
Dropping(k) ==
    monitor \in Threads /\ jpc[monitor] = "unrouted" /\ jkey[monitor] = k
Closing == monitor \in Threads /\ jpc[monitor] \in {"initclose", "close"}

\* A backend between its bind and its entry in the tables.
BoundOnce(k) ==
    /\ servers[k] = None
    /\ mode = Forwarding[k]
    /\ \E p \in Ports : listening[p] = k /\ \A q \in Ports : listening[q] = k => q = p

\* The bridge's tables and the listeners, also inside a critical section.
Tables ==
    /\ \A k \in Keys, p \in Ports : servers[k] = p <=> routes[p] = k
    /\ \A k \in Keys : addresses[k] = servers[k] \/ Dropping(k)
    /\ \A k \in Keys, p \in Ports : servers[k] = p => (listening[p] = k \/ Closing)
    /\ \A k \in Keys, p \in Ports :
          listening[p] = k => (servers[k] = p \/ Adding(k) \/ Dropping(k))
    /\ \A k \in Keys : Adding(k) => BoundOnce(k)
    /\ \A k \in Keys : Dropping(k) => servers[k] = None

\* A bridge that is not initialised, and is not initialising, has nothing.
Cleared ==
    ~INITIALIZED /\ jpc[Main] \notin Initialising =>
        /\ servers = Empty(Keys) /\ addresses = Empty(Keys)
        /\ routes = Empty(Ports) /\ listening = Empty(Ports)

\* When the bridge can be initialised, and that run knows it.
Flags ==
    /\ INITIALIZED =>
          /\ rpc \in Serving \/ (rpc = "init" /\ jpc[Main] = "done")
          /\ jpc[Native] # "done"
          /\ consumers
    /\ rpc = "init" /\ jpc[Main] = "done" /\ jret[Main] = "ok" => INITIALIZED
    /\ rpc = "init" /\ jpc[Main] = "done" /\ jret[Main] # "ok" => ~INITIALIZED
    /\ rpc \in {"init", "lookup"} => \A k \in Keys : servers[k] # None => k \in Static

\* Nothing ends the run before it is cancelled.
Uncancelled ==
    /\ rpc \in {"shutdown", "join", "clear"} => cancelled
    /\ rpc \in Serving /\ ~cancelled =>
          /\ INITIALIZED
          /\ jpc[Native] \notin {"enterclose", "close", "done"}
          /\ jpc[Native] = "loop" => RUNNING

\* The call that holds r.mu has its answer and has not stored it yet.
Answered == mu \in Calls /\ jpc[mu] = "done" /\ jret[mu] # "error"

\* The runner's map is the bridge's, up to the answer a call still carries.
Mirror ==
    /\ INITIALIZED /\ rpc \in Published \cup {"publish"} =>
          /\ Answered => \A k \in Keys : addresses[k] =
                IF k # jkey[mu] THEN backends[k]
                ELSE IF cpc[mu] = "adding" THEN jret[mu] ELSE None
          /\ ~Answered => \A k \in Keys : addresses[k] = backends[k]
    /\ rpc \notin Published \cup {"publish"} => \A k \in Keys : backends[k] = None

\* An address Gate was given and that is not stale leads to its backend.
Dialled ==
    /\ \A x \in Conns : conn[x].pc \in {"looked", "accepted"} =>
          conn[x].key \in Keys /\ conn[x].port \in Ports
    /\ \A x \in Conns : conn[x].pc \in {"looked", "accepted"} /\ x \notin stale =>
          /\ servers[conn[x].key] = conn[x].port
          /\ listening[conn[x].port] = conn[x].key
          /\ consumers

EmbeddedInv ==
    /\ TypeOK
    /\ Places
    /\ Locks
    /\ Arguments
    /\ Tables
    /\ OneForwardingMode
    /\ Cleared
    /\ Flags
    /\ Uncancelled
    /\ Mirror
    /\ Dialled
    /\ RoutedAsDialled

-----------------------------------------------------------------------------
(***************************************************************************)
(* Types.                                                                  *)
(***************************************************************************)
\* The key a goroutine in the bridge works on.
LEMMA KeyInHand ==
  ASSUME EmbeddedInv, NEW t \in Threads,
         jpc[t] \in {"add", "bound", "remove", "unrouted", "initbound"}
  PROVE  jkey[t] \in Keys
<1>1. CASE jpc[t] = "initbound"
  BY <1>1, BridgeAssumption DEF EmbeddedInv, Arguments
<1>2. CASE jpc[t] \in {"add", "bound", "remove", "unrouted"}
  <2>1. t \in Calls /\ cpc[t] \in InCall
    BY <1>2 DEF EmbeddedInv, Places, InCall
  <2> QED
    BY <2>1 DEF EmbeddedInv, Arguments, InCall
<1> QED
  BY <1>1, <1>2

\* Between bind and entry the backend has one listener, and it is not in the tables.
LEMMA BoundPort ==
  ASSUME EmbeddedInv, NEW t \in Threads, jpc[t] \in {"initbound", "bound"}
  PROVE  /\ monitor = t
         /\ jkey[t] \in Keys
         /\ servers[jkey[t]] = None
         /\ mode = Forwarding[jkey[t]]
         /\ PortOf(jkey[t]) \in Ports
         /\ listening[PortOf(jkey[t])] = jkey[t]
         /\ \A q \in Ports : listening[q] = jkey[t] => q = PortOf(jkey[t])
<1>1. monitor = t
  BY DEF EmbeddedInv, Locks, Holding, Initialising
<1>2. jkey[t] \in Keys
  BY KeyInHand
<1>3. BoundOnce(jkey[t])
  BY <1>1, <1>2 DEF EmbeddedInv, Tables, Adding
<1>4. PICK p \in Ports : listening[p] = jkey[t] /\ \A q \in Ports : listening[q] = jkey[t] => q = p
  BY <1>3 DEF BoundOnce
<1>5. PortOf(jkey[t]) \in Ports /\ listening[PortOf(jkey[t])] = jkey[t]
  BY <1>4 DEF PortOf
<1> QED
  BY <1>1, <1>2, <1>3, <1>4, <1>5 DEF BoundOnce

\* A step inside the bridge keeps the bridge's types.
LEMMA BridgeTypeStep ==
  ASSUME EmbeddedInv, NEW t \in Threads, Java(t)
  PROVE  BridgeTypeOK'
<1> USE EmbeddedAssumption, BridgeAssumption
        DEF EmbeddedInv, TypeOK, BridgeTypeOK, JavaPC, Empty,
            bridgeVars, flagVars, tableVars, threadVars, connVars
<1>1. CASE InitBegin(t)
  BY <1>1 DEF InitBegin, Acquire, At
<1>2. CASE InitBind(t)
  BY <1>2 DEF InitBind, Bind, Configure, Compatible, InUse, At
<1>3. CASE InitRegister(t)
  BY <1>3, BoundPort DEF InitRegister, Register, At
<1>4. CASE InitThrows(t)
  BY <1>4 DEF InitThrows, AddThrows, Configure, Compatible, At
<1>5. CASE InitFails(t)
  BY <1>5 DEF InitFails, ClearTables, AllClosed, Return
<1>6. CASE InitEnd(t)
  BY <1>6 DEF InitEnd, Return
<1>7. CASE AddRefused(t)
  BY <1>7 DEF AddRefused, Return
<1>8. CASE AddBind(t)
  BY <1>8, KeyInHand DEF AddBind, Acquire, Bind, Configure, Compatible, InUse, At
<1>9. CASE AddFails(t)
  BY <1>9, KeyInHand DEF AddFails, AddThrows, Configure, Compatible, Return
<1>10. CASE AddRegister(t)
  BY <1>10, BoundPort DEF AddRegister, Register, Return
<1>11. CASE RemoveMissing(t)
  BY <1>11 DEF RemoveMissing, Return
<1>12. CASE RemoveUnroute(t)
  BY <1>12 DEF RemoveUnroute, Acquire, At, Unserved
<1>13. CASE RemoveClose(t)
  BY <1>13 DEF RemoveClose, Return
<1>14. CASE RunRefused(t)
  BY <1>14 DEF RunRefused, Return
<1>15. CASE RunCheck(t)
  BY <1>15 DEF RunCheck, At
<1>16. CASE RunSet(t)
  BY <1>16 DEF RunSet, At
<1>17. CASE RunLeaves(t)
  BY <1>17 DEF RunLeaves, At
<1>18. CASE Shutdown(t)
  BY <1>18 DEF Shutdown, At
<1>19. CASE EnterClose(t)
  BY <1>19 DEF EnterClose, Acquire, At
<1>20. CASE Close(t)
  BY <1>20 DEF Close, CloseOne, Unserved
<1>21. CASE Closed(t)
  BY <1>21 DEF Closed, ClearTables, AllClosed, Return
<1> QED
  BY <1>1, <1>2, <1>3, <1>4, <1>5, <1>6, <1>7, <1>8, <1>9, <1>10, <1>11, <1>12, <1>13,
     <1>14, <1>15, <1>16, <1>17, <1>18, <1>19, <1>20, <1>21 DEF Java

LEMMA EmbeddedTypeStep ==
  ASSUME EmbeddedInv, [Next]_vars
  PROVE  TypeOK'
<1> USE EmbeddedAssumption, BridgeAssumption
        DEF EmbeddedInv, TypeOK, RunPC, CallPC, Empty, vars,
            bridgeVars, flagVars, tableVars, threadVars, connVars, runVars, runnerVars, callVars
<1>1. ASSUME NEW t \in Threads, InBridge(t) PROVE TypeOK'
  BY <1>1, BridgeTypeStep DEF InBridge
<1> USE DEF BridgeTypeOK, JavaPC, ConnPC
<1>2. CASE Start
  <2>1. cancelled' \in BOOLEAN
    BY <1>2 DEF Start
  <2>2. runs' \in 0..MaxRuns
    BY <1>2 DEF Start
  <2> QED
    BY <1>2, <2>1, <2>2 DEF Start
<1>3. CASE Cancel \/ BootFails \/ Publish \/ StoreHealthy \/ MarkReady
  <2>1. CASE Cancel
    BY <2>1 DEF Cancel
  <2>2. CASE BootFails
    BY <2>2 DEF BootFails
  <2>3. CASE Publish
    BY <2>3 DEF Publish
  <2>4. CASE StoreHealthy
    BY <2>4 DEF StoreHealthy
  <2>5. CASE MarkReady
    BY <2>5 DEF MarkReady
  <2> QED
    BY <1>3, <2>1, <2>2, <2>3, <2>4, <2>5
<1>4. CASE CreateIsolate
  BY <1>4 DEF CreateIsolate, FreshIsolate
<1>5. CASE InitReturns \/ ShutdownReturns \/ NativeDone
  BY <1>5 DEF InitReturns, ShutdownReturns, NativeDone, Leave
<1>6. CASE LookupStatic
  BY <1>6 DEF LookupStatic
<1>7. CASE SpawnNative \/ CallShutdown
  BY <1>7 DEF SpawnNative, CallShutdown, Enter
<1>8. CASE Clear
  <2>1. symbols' \in BOOLEAN
    BY <1>8 DEF Clear
  <2> QED
    BY <1>8, <2>1 DEF Clear
<1>9. CASE StoreUnhealthy
  <2>1. healthy' \in BOOLEAN
    BY <1>9 DEF StoreUnhealthy
  <2> QED
    BY <1>9, <2>1 DEF StoreUnhealthy
<1>10. CASE StartReturns
  <2>1. ready' \in BOOLEAN
    BY <1>10 DEF StartReturns
  <2> QED
    BY <1>10, <2>1 DEF StartReturns
<1>11. CASE TearDownIsolate
  BY <1>11 DEF TearDownIsolate
<1>12. ASSUME NEW c \in Calls, Invoke(c) PROVE TypeOK'
  BY <1>12 DEF Invoke
<1>13. ASSUME NEW c \in Calls, CallRefused(c) \/ CallCancelled(c) PROVE TypeOK'
  BY <1>13 DEF CallRefused, CallCancelled, Leave
<1>14. ASSUME NEW c \in Calls, CallNative(c) PROVE TypeOK'
  BY <1>14 DEF CallNative, Enter
<1>15. ASSUME NEW c \in Calls, AddReturns(c) PROVE TypeOK'
  <2>1. jkey[c] \in Keys /\ jret[c] \in Ports \cup {"error"}
    BY <1>15 DEF AddReturns, Arguments
  <2> QED
    BY <1>15, <2>1 DEF AddReturns, Leave
<1>16. ASSUME NEW c \in Calls, RemoveReturns(c) PROVE TypeOK'
  <2>1. jkey[c] \in Keys
    BY <1>16 DEF RemoveReturns, Arguments
  <2> QED
    BY <1>16, <2>1 DEF RemoveReturns, Leave
<1>17. ASSUME NEW x \in Conns, LookupAddress(x) PROVE TypeOK'
  BY <1>17 DEF LookupAddress
<1>18. ASSUME NEW x \in Conns, Netty(x), UNCHANGED <<runVars, runnerVars, callVars>>
       PROVE  TypeOK'
  <2>1. CASE Dial(x)
    BY <1>18, <2>1 DEF Dial
  <2>2. CASE PreConnect(x)
    <3>1. conn[x].port \in Ports
      BY <2>2 DEF PreConnect, Dialled
    <3>2. conn' \in [Conns -> [pc : ConnPC, key : Keys \cup {None}, port : Ports \cup {None}]]
      BY <2>2 DEF PreConnect
    <3>3. target' \in [Conns -> Keys \cup {None}]
      BY <2>2, <3>1 DEF PreConnect
    <3> QED
      BY <1>18, <2>2, <3>2, <3>3 DEF PreConnect
  <2> QED
    BY <1>18, <2>1, <2>2 DEF Netty
<1>19. CASE UNCHANGED vars
  BY <1>19
<1> QED
  BY <1>1, <1>2, <1>3, <1>4, <1>5, <1>6, <1>7, <1>8, <1>9, <1>10, <1>11, <1>12, <1>13,
     <1>14, <1>15, <1>16, <1>17, <1>18, <1>19 DEF Next, MainStep, CallStep, Traffic

-----------------------------------------------------------------------------
(***************************************************************************)
(* Control: who is where, and who holds which lock.                        *)
(***************************************************************************)
LEMMA PlacesStep ==
  ASSUME EmbeddedInv, [Next]_vars
  PROVE  Places'
<1> USE EmbeddedAssumption
        DEF EmbeddedInv, TypeOK, BridgeTypeOK, JavaPC, CallPC, RunPC, Places, Published,
            Spawned, InCall, Initialising, vars, bridgeVars, flagVars, tableVars, threadVars, connVars,
            runVars, runnerVars, callVars, InBridge
<1>1. CASE Start \/ Cancel \/ BootFails \/ CreateIsolate \/ InitReturns \/
         LookupStatic \/ Publish \/ StoreHealthy
  BY <1>1 DEF Start, Cancel, BootFails, CreateIsolate, FreshIsolate, InitReturns,
     Leave, LookupStatic, Publish, StoreHealthy
<1>2. CASE MarkReady \/ SpawnNative \/ CallShutdown \/ ShutdownReturns \/ NativeDone
         \/ StoreUnhealthy \/ TearDownIsolate \/ StartReturns
  BY <1>2 DEF MarkReady, SpawnNative, Enter, CallShutdown, ShutdownReturns, Leave,
     NativeDone, StoreUnhealthy, TearDownIsolate, StartReturns
<1>3. ASSUME NEW c \in Calls,
             Invoke(c) \/ CallRefused(c) \/ CallCancelled(c) \/ CallNative(c) \/
             AddReturns(c) \/ RemoveReturns(c)
      PROVE  Places'
  BY <1>3 DEF Invoke, CallRefused, Leave, CallCancelled, CallNative, Enter, Usable,
     AddReturns, RemoveReturns
<1>4. ASSUME NEW t \in Threads, InBridge(t),
             InitBegin(t) \/ InitBind(t) \/ InitRegister(t) \/ InitThrows(t) \/
             InitFails(t) \/ InitEnd(t) \/ AddRefused(t) \/ AddBind(t) \/
             AddFails(t) \/ AddRegister(t) \/ RemoveMissing(t)
      PROVE  Places'
  BY <1>4 DEF InitBegin, Acquire, At, InitBind, Bind, Configure, Compatible, InUse,
     InitRegister, Register, InitThrows, AddThrows, InitFails, ClearTables,
     AllClosed, Return, InitEnd, AddRefused, AddBind, AddFails, AddRegister,
     RemoveMissing
<1>5. ASSUME NEW t \in Threads, InBridge(t),
             RemoveUnroute(t) \/ RemoveClose(t) \/ RunRefused(t) \/ RunCheck(t) \/
             RunSet(t) \/ RunLeaves(t) \/ Shutdown(t) \/ EnterClose(t) \/ Close(t) \/
             Closed(t)
      PROVE  Places'
  BY <1>5 DEF RemoveUnroute, Acquire, At, Unserved, RemoveClose, Return, RunRefused,
     RunCheck, RunSet, RunLeaves, Shutdown, EnterClose, Close, CloseOne, Closed,
     ClearTables, AllClosed
<1>6. ASSUME NEW x \in Conns, LookupAddress(x) PROVE Places'
  BY <1>6 DEF LookupAddress
<1>7. ASSUME NEW x \in Conns, Netty(x), UNCHANGED <<runVars, runnerVars, callVars>>
      PROVE  Places'
  BY <1>7 DEF Netty, Dial, PreConnect
<1>9. CASE Clear
  <2>1. \A c \in Calls : cpc[c] \notin InCall
    BY <1>9, BridgeAssumption DEF Clear, Locks
  <2>2. ~symbols'
    BY <1>9 DEF Clear
  <2> QED
    BY <1>9, <2>1, <2>2 DEF Clear
<1>10. CASE UNCHANGED vars
  BY <1>10
<1> QED
  BY <1>1, <1>2, <1>3, <1>4, <1>5, <1>6, <1>7, <1>9, <1>10 DEF Next, MainStep,
     CallStep, InBridge, Java, Traffic, Netty

LEMMA LocksStep ==
  ASSUME EmbeddedInv, [Next]_vars
  PROVE  Locks'
<1> USE EmbeddedAssumption, BridgeAssumption
        DEF EmbeddedInv, TypeOK, BridgeTypeOK, JavaPC, CallPC, RunPC, Places, Locks, Published,
            Spawned, InCall, Initialising, Holding,
            vars, bridgeVars, flagVars, tableVars, threadVars, connVars,
            runVars, runnerVars, callVars, InBridge
<1>1. CASE Start \/ Cancel \/ BootFails \/ CreateIsolate \/ InitReturns \/
         LookupStatic \/ Publish \/ StoreHealthy \/ MarkReady
  BY <1>1 DEF Start, Cancel, BootFails, CreateIsolate, FreshIsolate, InitReturns,
     Leave, LookupStatic, Publish, StoreHealthy, MarkReady
<1>2. CASE SpawnNative \/ CallShutdown \/ ShutdownReturns \/ NativeDone \/ Clear \/
         StoreUnhealthy \/ TearDownIsolate \/ StartReturns
  BY <1>2 DEF SpawnNative, Enter, CallShutdown, ShutdownReturns, Leave, NativeDone,
     Clear, StoreUnhealthy, TearDownIsolate, StartReturns
<1>3. ASSUME NEW c \in Calls,
             Invoke(c) \/ CallRefused(c) \/ CallCancelled(c) \/ CallNative(c) \/
             AddReturns(c) \/ RemoveReturns(c)
      PROVE  Locks'
  BY <1>3 DEF Invoke, CallRefused, Leave, CallCancelled, CallNative, Enter, Usable,
     AddReturns, RemoveReturns
<1>4. ASSUME NEW t \in Threads, InBridge(t),
             InitBegin(t) \/ InitBind(t) \/ InitRegister(t) \/ InitThrows(t) \/
             InitFails(t) \/ InitEnd(t) \/ AddRefused(t) \/ AddBind(t) \/
             AddFails(t) \/ AddRegister(t) \/ RemoveMissing(t)
      PROVE  Locks'
  BY <1>4 DEF InitBegin, Acquire, At, InitBind, Bind, Configure, Compatible, InUse,
     InitRegister, Register, InitThrows, AddThrows, InitFails, ClearTables,
     AllClosed, Return, InitEnd, AddRefused, AddBind, AddFails, AddRegister,
     RemoveMissing
<1>5. ASSUME NEW t \in Threads, InBridge(t),
             RemoveUnroute(t) \/ RemoveClose(t) \/ RunRefused(t) \/ RunCheck(t) \/
             RunSet(t) \/ RunLeaves(t) \/ Shutdown(t) \/ EnterClose(t) \/ Close(t) \/
             Closed(t)
      PROVE  Locks'
  BY <1>5 DEF RemoveUnroute, Acquire, At, Unserved, RemoveClose, Return, RunRefused,
     RunCheck, RunSet, RunLeaves, Shutdown, EnterClose, Close, CloseOne, Closed,
     ClearTables, AllClosed
<1>6. ASSUME NEW x \in Conns, LookupAddress(x) PROVE Locks'
  BY <1>6 DEF LookupAddress
<1>7. ASSUME NEW x \in Conns, Netty(x), UNCHANGED <<runVars, runnerVars, callVars>>
      PROVE  Locks'
  BY <1>7 DEF Netty, Dial, PreConnect
<1>9. CASE UNCHANGED vars
  BY <1>9
<1> QED
  BY <1>1, <1>2, <1>3, <1>4, <1>5, <1>6, <1>7, <1>9 DEF Next, MainStep,
     CallStep, InBridge, Java, Traffic, Netty

LEMMA ArgumentsStep ==
  ASSUME EmbeddedInv, [Next]_vars
  PROVE  Arguments'
<1> USE EmbeddedAssumption, BridgeAssumption
        DEF EmbeddedInv, TypeOK, BridgeTypeOK, JavaPC, CallPC, Places, Arguments,
            InCall, Initialising, vars, bridgeVars, flagVars, tableVars, threadVars, connVars,
            runVars, runnerVars, callVars, InBridge
<1>1. CASE Start \/ Cancel \/ BootFails \/ CreateIsolate \/ InitReturns \/
         LookupStatic \/ Publish \/ StoreHealthy \/ MarkReady
  BY <1>1 DEF Start, Cancel, BootFails, CreateIsolate, FreshIsolate, InitReturns,
     Leave, LookupStatic, Publish, StoreHealthy, MarkReady
<1>2. CASE SpawnNative \/ CallShutdown \/ ShutdownReturns \/ NativeDone \/ Clear \/
         StoreUnhealthy \/ TearDownIsolate \/ StartReturns
  BY <1>2 DEF SpawnNative, Enter, CallShutdown, ShutdownReturns, Leave, NativeDone,
     Clear, StoreUnhealthy, TearDownIsolate, StartReturns
<1>3. ASSUME NEW c \in Calls,
             Invoke(c) \/ CallRefused(c) \/ CallCancelled(c) \/ CallNative(c)
      PROVE  Arguments'
  <2>1. CASE Invoke(c)
    BY <2>1 DEF Invoke
  <2>2. CASE CallRefused(c) \/ CallCancelled(c)
    BY <2>2 DEF CallRefused, CallCancelled, Leave
  <2>3. CASE CallNative(c)
    BY <2>3 DEF CallNative, Enter
  <2> QED
    BY <1>3, <2>1, <2>2, <2>3
<1>c. ASSUME NEW c \in Calls, AddReturns(c) \/ RemoveReturns(c) PROVE Arguments'
  <2>1. jkey' = [jkey EXCEPT ![c] = None] /\ cpc' = [cpc EXCEPT ![c] = "returned"]
    BY <1>c DEF AddReturns, RemoveReturns, Leave
  <2>2. jpc' = [jpc EXCEPT ![c] = "out"] /\ jret' = [jret EXCEPT ![c] = "ok"]
    BY <1>c DEF AddReturns, RemoveReturns, Leave
  <2> QED
    BY <2>1, <2>2
<1>4. ASSUME NEW t \in Threads, InBridge(t),
             InitBegin(t) \/ InitBind(t) \/ InitRegister(t) \/ InitThrows(t) \/
             InitFails(t) \/ InitEnd(t) \/ AddRefused(t) \/ AddBind(t) \/
             AddFails(t) \/ RemoveMissing(t)
      PROVE  Arguments'
  BY <1>4 DEF InitBegin, Acquire, At, InitBind, Bind, Configure, Compatible, InUse,
     InitRegister, Register, InitThrows, AddThrows, InitFails, ClearTables,
     AllClosed, Return, InitEnd, AddRefused, AddBind, AddFails, RemoveMissing
<1>5. ASSUME NEW t \in Threads, InBridge(t),
             RemoveUnroute(t) \/ RemoveClose(t) \/ RunRefused(t) \/ RunCheck(t) \/
             RunSet(t) \/ RunLeaves(t) \/ Shutdown(t) \/ EnterClose(t) \/ Close(t) \/
             Closed(t)
      PROVE  Arguments'
  BY <1>5 DEF RemoveUnroute, Acquire, At, Unserved, RemoveClose, Return, RunRefused,
     RunCheck, RunSet, RunLeaves, Shutdown, EnterClose, Close, CloseOne, Closed,
     ClearTables, AllClosed
<1>6. ASSUME NEW x \in Conns, LookupAddress(x) PROVE Arguments'
  BY <1>6 DEF LookupAddress
<1>7. ASSUME NEW x \in Conns, Netty(x), UNCHANGED <<runVars, runnerVars, callVars>>
      PROVE  Arguments'
  BY <1>7 DEF Netty, Dial, PreConnect
<1>9. ASSUME NEW t \in Threads, InBridge(t), AddRegister(t) PROVE Arguments'
  BY <1>9, BoundPort DEF AddRegister, Register, Return
<1>10. CASE UNCHANGED vars
  BY <1>10
<1> QED
  BY <1>1, <1>2, <1>3, <1>c, <1>4, <1>5, <1>6, <1>7, <1>9, <1>10 DEF Next, MainStep,
     CallStep, InBridge, Java, Traffic, Netty

-----------------------------------------------------------------------------
(***************************************************************************)
(* The tables of the bridge.                                               *)
(***************************************************************************)
LEMMA TablesStep ==
  ASSUME EmbeddedInv, [Next]_vars
  PROVE  Tables'
<1> USE EmbeddedAssumption, BridgeAssumption
        DEF EmbeddedInv, TypeOK, BridgeTypeOK, JavaPC, Places, Locks,
            InCall, Initialising, Holding, Tables, Adding, Dropping, Closing, BoundOnce, Empty,
            vars, bridgeVars, flagVars, tableVars, threadVars, connVars,
            runVars, runnerVars, callVars, InBridge
<1>1. CASE Start \/ Cancel \/ BootFails \/ InitReturns \/ LookupStatic \/ Publish \/
         StoreHealthy \/ MarkReady
  BY <1>1 DEF Start, Cancel, BootFails, InitReturns, Leave, LookupStatic, Publish,
     StoreHealthy, MarkReady
<1>2. CASE CallShutdown \/ ShutdownReturns \/ NativeDone \/ Clear \/ StoreUnhealthy
         \/ TearDownIsolate \/ StartReturns
  BY <1>2 DEF CallShutdown, Enter, ShutdownReturns, Leave, NativeDone, Clear,
     StoreUnhealthy, TearDownIsolate, StartReturns
<1>3. ASSUME NEW c \in Calls,
             Invoke(c) \/ CallRefused(c) \/ CallCancelled(c) \/ CallNative(c) \/
             AddReturns(c) \/ RemoveReturns(c)
      PROVE  Tables'
  BY <1>3 DEF Invoke, CallRefused, Leave, CallCancelled, CallNative, Enter, Usable,
     AddReturns, RemoveReturns
<1>4. ASSUME NEW t \in Threads, InBridge(t),
             InitBegin(t) \/ InitBind(t) \/ InitThrows(t) \/ InitFails(t) \/
             InitEnd(t) \/ AddRefused(t) \/ AddBind(t) \/ AddFails(t) \/
             RemoveMissing(t)
      PROVE  Tables'
  BY <1>4 DEF InitBegin, Acquire, At, InitBind, Bind, Configure, Compatible, InUse,
     InitThrows, AddThrows, InitFails, ClearTables, AllClosed, Return, InitEnd,
     AddRefused, AddBind, AddFails, RemoveMissing
<1>5. ASSUME NEW t \in Threads, InBridge(t),
             RemoveClose(t) \/ RunRefused(t) \/ RunCheck(t) \/ RunSet(t) \/
             RunLeaves(t) \/ Shutdown(t) \/ EnterClose(t) \/ Close(t) \/ Closed(t)
      PROVE  Tables'
  BY <1>5 DEF RemoveClose, Return, RunRefused, RunCheck, At, RunSet, RunLeaves,
     Shutdown, EnterClose, Acquire, Close, CloseOne, Unserved, Closed, ClearTables,
     AllClosed
<1>6. ASSUME NEW x \in Conns, LookupAddress(x) PROVE Tables'
  BY <1>6 DEF LookupAddress
<1>7. ASSUME NEW x \in Conns, Netty(x), UNCHANGED <<runVars, runnerVars, callVars>>
      PROVE  Tables'
  BY <1>7 DEF Netty, Dial, PreConnect
<1>9. CASE CreateIsolate
  <2>1. listening = Empty(Ports)
    BY <1>9 DEF CreateIsolate, Cleared, Flags, Serving
  <2> QED
    BY <1>9, <2>1 DEF CreateIsolate, FreshIsolate
<1>10. CASE SpawnNative
  <2>1. jpc[Native] \notin Holding /\ monitor # Native
    BY <1>10 DEF SpawnNative, Spawned
  <2> QED
    BY <1>10, <2>1 DEF SpawnNative, Enter
<1>11. ASSUME NEW t \in Threads, InBridge(t), InitRegister(t) PROVE Tables'
  BY <1>11, BoundPort DEF InitRegister, Register, At
<1>12. ASSUME NEW t \in Threads, InBridge(t), AddRegister(t) PROVE Tables'
  BY <1>12, BoundPort DEF AddRegister, Register, Return
<1>13. ASSUME NEW t \in Threads, InBridge(t), RemoveUnroute(t) PROVE Tables'
  BY <1>13, KeyInHand DEF RemoveUnroute, Acquire, At, Unserved
<1>14. CASE UNCHANGED vars
  BY <1>14
<1> QED
  BY <1>1, <1>2, <1>3, <1>4, <1>5, <1>6, <1>7, <1>9, <1>10, <1>11, <1>12,
     <1>13, <1>14 DEF Next, MainStep, CallStep, InBridge, Java, Traffic, Netty

LEMMA ForwardingStep ==
  ASSUME EmbeddedInv, [Next]_vars
  PROVE  OneForwardingMode'
<1> USE EmbeddedAssumption, BridgeAssumption
        DEF EmbeddedInv, TypeOK, BridgeTypeOK, OneForwardingMode, Empty,
            vars, bridgeVars, flagVars, tableVars, threadVars, connVars,
            runVars, runnerVars, callVars, InBridge
<1>1. CASE Start \/ Cancel \/ BootFails \/ CreateIsolate \/ InitReturns \/
         LookupStatic \/ Publish \/ StoreHealthy \/ MarkReady
  BY <1>1 DEF Start, Cancel, BootFails, CreateIsolate, FreshIsolate, InitReturns,
     Leave, LookupStatic, Publish, StoreHealthy, MarkReady
<1>2. CASE SpawnNative \/ CallShutdown \/ ShutdownReturns \/ NativeDone \/ Clear \/
         StoreUnhealthy \/ TearDownIsolate \/ StartReturns
  BY <1>2 DEF SpawnNative, Enter, CallShutdown, ShutdownReturns, Leave, NativeDone,
     Clear, StoreUnhealthy, TearDownIsolate, StartReturns
<1>3. ASSUME NEW c \in Calls,
             Invoke(c) \/ CallRefused(c) \/ CallCancelled(c) \/ CallNative(c) \/
             AddReturns(c) \/ RemoveReturns(c)
      PROVE  OneForwardingMode'
  BY <1>3 DEF Invoke, CallRefused, Leave, CallCancelled, CallNative, Enter, Usable,
     AddReturns, RemoveReturns
<1>4. ASSUME NEW t \in Threads, InBridge(t),
             InitBegin(t) \/ InitBind(t) \/ InitThrows(t) \/ InitFails(t) \/
             InitEnd(t) \/ AddRefused(t) \/ AddBind(t) \/ AddFails(t) \/
             RemoveMissing(t) \/ RemoveUnroute(t)
      PROVE  OneForwardingMode'
  BY <1>4 DEF InitBegin, Acquire, At, InitBind, Bind, Configure, Compatible, InUse,
     InitThrows, AddThrows, InitFails, ClearTables, AllClosed, Return, InitEnd,
     AddRefused, AddBind, AddFails, RemoveMissing, RemoveUnroute, Unserved
<1>5. ASSUME NEW t \in Threads, InBridge(t),
             RemoveClose(t) \/ RunRefused(t) \/ RunCheck(t) \/ RunSet(t) \/
             RunLeaves(t) \/ Shutdown(t) \/ EnterClose(t) \/ Close(t) \/ Closed(t)
      PROVE  OneForwardingMode'
  BY <1>5 DEF RemoveClose, Return, RunRefused, RunCheck, At, RunSet, RunLeaves,
     Shutdown, EnterClose, Acquire, Close, CloseOne, Unserved, Closed, ClearTables,
     AllClosed
<1>6. ASSUME NEW x \in Conns, LookupAddress(x) PROVE OneForwardingMode'
  BY <1>6 DEF LookupAddress
<1>7. ASSUME NEW x \in Conns, Netty(x), UNCHANGED <<runVars, runnerVars, callVars>>
      PROVE  OneForwardingMode'
  BY <1>7 DEF Netty, Dial, PreConnect
<1>9. ASSUME NEW t \in Threads, InBridge(t), InitRegister(t) PROVE OneForwardingMode'
  BY <1>9, BoundPort DEF InitRegister, Register, At
<1>10. ASSUME NEW t \in Threads, InBridge(t), AddRegister(t) PROVE OneForwardingMode'
  BY <1>10, BoundPort DEF AddRegister, Register, Return
<1>11. CASE UNCHANGED vars
  BY <1>11
<1> QED
  BY <1>1, <1>2, <1>3, <1>4, <1>5, <1>6, <1>7, <1>9, <1>10, <1>11 DEF Next,
     MainStep, CallStep, InBridge, Java, Traffic, Netty

\* When shutdownServers has closed the servers of the tables, no listener is left.
LEMMA AllAreClosed ==
  ASSUME EmbeddedInv, NEW t \in Threads, jpc[t] \in {"initclose", "close"}, AllClosed
  PROVE  listening = Empty(Ports)
<1>1. monitor = t
  BY DEF EmbeddedInv, Locks, Holding, Initialising
<1>2. ASSUME NEW p \in Ports PROVE listening[p] = None
  <2>1. SUFFICES ASSUME listening[p] \in Keys PROVE FALSE
    BY DEF EmbeddedInv, TypeOK, BridgeTypeOK
  <2>2. servers[listening[p]] = p
    BY <1>1, <2>1 DEF EmbeddedInv, Tables, Adding, Dropping
  <2> QED
    BY <2>1, <2>2, BridgeAssumption DEF AllClosed
<1> QED
  BY <1>2 DEF EmbeddedInv, TypeOK, BridgeTypeOK, Empty

LEMMA ClearedStep ==
  ASSUME EmbeddedInv, [Next]_vars
  PROVE  Cleared'
<1> USE EmbeddedAssumption, BridgeAssumption
        DEF EmbeddedInv, TypeOK, BridgeTypeOK, JavaPC, Places, Locks, Flags, Cleared,
            Spawned, Serving, InCall, Initialising, Holding, Empty,
            vars, bridgeVars, flagVars, tableVars, threadVars, connVars,
            runVars, runnerVars, callVars, InBridge
<1>1. CASE Start \/ Cancel \/ BootFails \/ CreateIsolate \/ InitReturns \/
         LookupStatic \/ Publish \/ StoreHealthy \/ MarkReady
  BY <1>1 DEF Start, Cancel, BootFails, CreateIsolate, FreshIsolate, InitReturns,
     Leave, LookupStatic, Publish, StoreHealthy, MarkReady
<1>2. CASE SpawnNative \/ CallShutdown \/ ShutdownReturns \/ NativeDone \/ Clear \/
         StoreUnhealthy \/ TearDownIsolate \/ StartReturns
  BY <1>2 DEF SpawnNative, Enter, CallShutdown, ShutdownReturns, Leave, NativeDone,
     Clear, StoreUnhealthy, TearDownIsolate, StartReturns
<1>3. ASSUME NEW c \in Calls,
             Invoke(c) \/ CallRefused(c) \/ CallCancelled(c) \/ CallNative(c) \/
             AddReturns(c) \/ RemoveReturns(c)
      PROVE  Cleared'
  BY <1>3 DEF Invoke, CallRefused, Leave, CallCancelled, CallNative, Enter, Usable,
     AddReturns, RemoveReturns
<1>4. ASSUME NEW t \in Threads, InBridge(t),
             InitBegin(t) \/ InitBind(t) \/ InitRegister(t) \/ InitThrows(t) \/
             InitEnd(t) \/ AddRefused(t) \/ AddBind(t) \/ AddFails(t) \/
             RemoveMissing(t)
      PROVE  Cleared'
  BY <1>4 DEF InitBegin, Acquire, At, InitBind, Bind, Configure, Compatible, InUse,
     InitRegister, Register, InitThrows, AddThrows, InitEnd, Return, AddRefused,
     AddBind, AddFails, RemoveMissing
<1>5. ASSUME NEW t \in Threads, InBridge(t),
             RemoveUnroute(t) \/ RemoveClose(t) \/ RunRefused(t) \/ RunCheck(t) \/
             RunSet(t) \/ RunLeaves(t) \/ Shutdown(t) \/ EnterClose(t) \/ Close(t)
      PROVE  Cleared'
  BY <1>5 DEF RemoveUnroute, Acquire, At, Unserved, RemoveClose, Return, RunRefused,
     RunCheck, RunSet, RunLeaves, Shutdown, EnterClose, Close, CloseOne
<1>6. ASSUME NEW x \in Conns, LookupAddress(x) PROVE Cleared'
  BY <1>6 DEF LookupAddress
<1>7. ASSUME NEW x \in Conns, Netty(x), UNCHANGED <<runVars, runnerVars, callVars>>
      PROVE  Cleared'
  BY <1>7 DEF Netty, Dial, PreConnect
<1>9. ASSUME NEW t \in Threads, InBridge(t), InitFails(t) PROVE Cleared'
  BY <1>9, AllAreClosed DEF InitFails, ClearTables, Return
<1>10. ASSUME NEW t \in Threads, InBridge(t), AddRegister(t) PROVE Cleared'
  BY <1>10, BoundPort DEF AddRegister, Register, Return
<1>11. ASSUME NEW t \in Threads, InBridge(t), Closed(t) PROVE Cleared'
  BY <1>11, AllAreClosed DEF Closed, ClearTables, Return
<1>12. CASE UNCHANGED vars
  BY <1>12
<1> QED
  BY <1>1, <1>2, <1>3, <1>4, <1>5, <1>6, <1>7, <1>9, <1>10, <1>11, <1>12 DEF
     Next, MainStep, CallStep, InBridge, Java, Traffic, Netty

LEMMA FlagsStep ==
  ASSUME EmbeddedInv, [Next]_vars
  PROVE  Flags'
<1> USE EmbeddedAssumption, BridgeAssumption
        DEF EmbeddedInv, TypeOK, BridgeTypeOK, JavaPC, Places, Flags, Spawned, Serving,
            InCall, Initialising, Published, Empty,
            vars, bridgeVars, flagVars, tableVars, threadVars, connVars,
            runVars, runnerVars, callVars, InBridge
<1>1. CASE Start \/ Cancel \/ BootFails \/ CreateIsolate \/ InitReturns \/
         LookupStatic \/ Publish \/ StoreHealthy \/ MarkReady
  BY <1>1 DEF Start, Cancel, BootFails, CreateIsolate, FreshIsolate, InitReturns,
     Leave, LookupStatic, Publish, StoreHealthy, MarkReady
<1>2. CASE SpawnNative \/ CallShutdown \/ ShutdownReturns \/ NativeDone \/ Clear \/
         StoreUnhealthy \/ TearDownIsolate \/ StartReturns
  BY <1>2 DEF SpawnNative, Enter, CallShutdown, ShutdownReturns, Leave, NativeDone,
     Clear, StoreUnhealthy, TearDownIsolate, StartReturns
<1>3. ASSUME NEW c \in Calls,
             Invoke(c) \/ CallRefused(c) \/ CallCancelled(c) \/ CallNative(c) \/
             AddReturns(c) \/ RemoveReturns(c)
      PROVE  Flags'
  BY <1>3 DEF Invoke, CallRefused, Leave, CallCancelled, CallNative, Enter, Usable,
     AddReturns, RemoveReturns
<1>4. ASSUME NEW t \in Threads, InBridge(t),
             InitBegin(t) \/ InitBind(t) \/ InitRegister(t) \/ InitThrows(t) \/
             InitFails(t) \/ InitEnd(t) \/ AddRefused(t) \/ AddBind(t) \/
             AddFails(t) \/ AddRegister(t) \/ RemoveMissing(t)
      PROVE  Flags'
  BY <1>4 DEF InitBegin, Acquire, At, InitBind, Bind, Configure, Compatible, InUse,
     Arguments, InitRegister, Register, InitThrows, AddThrows, InitFails,
     ClearTables, AllClosed, Return, InitEnd, AddRefused, AddBind, AddFails,
     AddRegister, RemoveMissing
<1>5. ASSUME NEW t \in Threads, InBridge(t),
             RemoveUnroute(t) \/ RemoveClose(t) \/ RunRefused(t) \/ RunCheck(t) \/
             RunSet(t) \/ RunLeaves(t) \/ Shutdown(t) \/ EnterClose(t) \/ Close(t) \/
             Closed(t)
      PROVE  Flags'
  BY <1>5 DEF RemoveUnroute, Acquire, At, Unserved, RemoveClose, Return, RunRefused,
     RunCheck, RunSet, RunLeaves, Shutdown, EnterClose, Close, CloseOne, Closed,
     ClearTables, AllClosed
<1>6. ASSUME NEW x \in Conns, LookupAddress(x) PROVE Flags'
  BY <1>6 DEF LookupAddress
<1>7. ASSUME NEW x \in Conns, Netty(x), UNCHANGED <<runVars, runnerVars, callVars>>
      PROVE  Flags'
  BY <1>7 DEF Netty, Dial, PreConnect
<1>9. CASE UNCHANGED vars
  BY <1>9
<1> QED
  BY <1>1, <1>2, <1>3, <1>4, <1>5, <1>6, <1>7, <1>9 DEF Next, MainStep,
     CallStep, InBridge, Java, Traffic, Netty

LEMMA UncancelledStep ==
  ASSUME EmbeddedInv, [Next]_vars
  PROVE  Uncancelled'
<1> USE EmbeddedAssumption, BridgeAssumption
        DEF EmbeddedInv, TypeOK, BridgeTypeOK, JavaPC, Places, Flags, Uncancelled, Spawned, Serving,
            InCall, Initialising,
            vars, bridgeVars, flagVars, tableVars, threadVars, connVars,
            runVars, runnerVars, callVars, InBridge
<1>1. CASE Start \/ Cancel \/ BootFails \/ CreateIsolate \/ InitReturns \/
         LookupStatic \/ Publish \/ StoreHealthy \/ MarkReady
  BY <1>1 DEF Start, Cancel, BootFails, CreateIsolate, FreshIsolate, InitReturns,
     Leave, LookupStatic, Publish, StoreHealthy, MarkReady
<1>2. CASE SpawnNative \/ CallShutdown \/ ShutdownReturns \/ NativeDone \/ Clear \/
         StoreUnhealthy \/ TearDownIsolate \/ StartReturns
  BY <1>2 DEF SpawnNative, Enter, CallShutdown, ShutdownReturns, Leave, NativeDone,
     Clear, StoreUnhealthy, TearDownIsolate, StartReturns
<1>3. ASSUME NEW c \in Calls,
             Invoke(c) \/ CallRefused(c) \/ CallCancelled(c) \/ CallNative(c) \/
             AddReturns(c) \/ RemoveReturns(c)
      PROVE  Uncancelled'
  BY <1>3 DEF Invoke, CallRefused, Leave, CallCancelled, CallNative, Enter, Usable,
     AddReturns, RemoveReturns
<1>4. ASSUME NEW t \in Threads, InBridge(t),
             InitBegin(t) \/ InitBind(t) \/ InitRegister(t) \/ InitThrows(t) \/
             InitFails(t) \/ InitEnd(t) \/ AddRefused(t) \/ AddBind(t) \/
             AddFails(t) \/ AddRegister(t) \/ RemoveMissing(t)
      PROVE  Uncancelled'
  BY <1>4 DEF InitBegin, Acquire, At, InitBind, Bind, Configure, Compatible, InUse,
     InitRegister, Register, InitThrows, AddThrows, InitFails, ClearTables,
     AllClosed, Return, InitEnd, AddRefused, AddBind, AddFails, AddRegister,
     RemoveMissing
<1>5. ASSUME NEW t \in Threads, InBridge(t),
             RemoveUnroute(t) \/ RemoveClose(t) \/ RunRefused(t) \/ RunCheck(t) \/
             RunSet(t) \/ RunLeaves(t) \/ Shutdown(t) \/ EnterClose(t) \/ Close(t) \/
             Closed(t)
      PROVE  Uncancelled'
  BY <1>5 DEF RemoveUnroute, Acquire, At, Unserved, RemoveClose, Return, RunRefused,
     RunCheck, RunSet, RunLeaves, Shutdown, EnterClose, Close, CloseOne, Closed,
     ClearTables, AllClosed
<1>6. ASSUME NEW x \in Conns, LookupAddress(x) PROVE Uncancelled'
  BY <1>6 DEF LookupAddress
<1>7. ASSUME NEW x \in Conns, Netty(x), UNCHANGED <<runVars, runnerVars, callVars>>
      PROVE  Uncancelled'
  BY <1>7 DEF Netty, Dial, PreConnect
<1>9. CASE UNCHANGED vars
  BY <1>9
<1> QED
  BY <1>1, <1>2, <1>3, <1>4, <1>5, <1>6, <1>7, <1>9 DEF Next, MainStep,
     CallStep, InBridge, Java, Traffic, Netty

-----------------------------------------------------------------------------
(***************************************************************************)
(* The runner's own map, and the addresses it gave out.                    *)
(***************************************************************************)
LEMMA MirrorStep ==
  ASSUME EmbeddedInv, [Next]_vars
  PROVE  Mirror'
<1> USE EmbeddedAssumption, BridgeAssumption
        DEF EmbeddedInv, TypeOK, BridgeTypeOK, JavaPC, Places, Locks, Mirror, Answered, Published,
            InCall, Spawned, Serving, Initialising, Holding, Empty,
            vars, bridgeVars, flagVars, tableVars, threadVars, connVars,
            runVars, runnerVars, callVars, InBridge
<1>1. CASE Start \/ Cancel \/ BootFails \/ CreateIsolate \/ InitReturns \/ Publish
         \/ StoreHealthy \/ MarkReady
  BY <1>1 DEF Start, Cancel, BootFails, CreateIsolate, FreshIsolate, InitReturns,
     Leave, Publish, StoreHealthy, MarkReady
<1>2. CASE SpawnNative \/ CallShutdown \/ ShutdownReturns \/ NativeDone \/ Clear \/
         StoreUnhealthy \/ TearDownIsolate \/ StartReturns
  BY <1>2 DEF SpawnNative, Enter, CallShutdown, ShutdownReturns, Leave, NativeDone,
     Clear, StoreUnhealthy, TearDownIsolate, StartReturns
<1>3. ASSUME NEW c \in Calls,
             Invoke(c) \/ CallRefused(c) \/ CallCancelled(c) \/ CallNative(c) \/
             AddReturns(c) \/ RemoveReturns(c)
      PROVE  Mirror'
  BY <1>3 DEF Invoke, CallRefused, Leave, CallCancelled, CallNative, Enter, Usable,
     AddReturns, RemoveReturns
<1>4. ASSUME NEW t \in Threads, InBridge(t),
             InitBegin(t) \/ InitBind(t) \/ InitRegister(t) \/ InitThrows(t) \/
             InitFails(t) \/ InitEnd(t) \/ AddRefused(t) \/ AddBind(t) \/
             AddFails(t) \/ RemoveMissing(t)
      PROVE  Mirror'
  BY <1>4 DEF InitBegin, Acquire, At, InitBind, Bind, Configure, Compatible, InUse,
     InitRegister, Register, InitThrows, AddThrows, InitFails, ClearTables,
     AllClosed, Return, InitEnd, AddRefused, AddBind, AddFails, RemoveMissing
<1>5. ASSUME NEW t \in Threads, InBridge(t),
             RemoveUnroute(t) \/ RemoveClose(t) \/ RunRefused(t) \/ RunCheck(t) \/
             RunSet(t) \/ RunLeaves(t) \/ Shutdown(t) \/ EnterClose(t) \/ Close(t) \/
             Closed(t)
      PROVE  Mirror'
  BY <1>5 DEF RemoveUnroute, Acquire, At, Unserved, RemoveClose, Return, RunRefused,
     RunCheck, RunSet, RunLeaves, Shutdown, EnterClose, Close, CloseOne, Closed,
     ClearTables, AllClosed
<1>6. ASSUME NEW x \in Conns, LookupAddress(x) PROVE Mirror'
  BY <1>6 DEF LookupAddress
<1>7. ASSUME NEW x \in Conns, Netty(x), UNCHANGED <<runVars, runnerVars, callVars>>
      PROVE  Mirror'
  BY <1>7 DEF Netty, Dial, PreConnect
<1>9. CASE LookupStatic
  <2>1. ASSUME NEW k \in Keys PROVE addresses[k] = servers[k]
    <3>1. ~Dropping(k)
      BY <1>9 DEF LookupStatic, Dropping
    <3> QED
      BY <3>1 DEF Tables
  <2>2. \A k \in Keys : k \notin Static => addresses[k] = None
    BY <1>9, <2>1 DEF LookupStatic, Flags
  <2>3. ~Answered'
    BY <1>9 DEF LookupStatic
  <2>4. \A k \in Keys : addresses'[k] = backends'[k]
    BY <1>9, <2>2 DEF LookupStatic
  <2> QED
    BY <1>9, <2>3, <2>4 DEF LookupStatic
<1>10. ASSUME NEW t \in Threads, InBridge(t), AddRegister(t) PROVE Mirror'
  BY <1>10, BoundPort DEF AddRegister, Register, Return
<1>11. CASE UNCHANGED vars
  BY <1>11
<1> QED
  BY <1>1, <1>2, <1>3, <1>4, <1>5, <1>6, <1>7, <1>9, <1>10, <1>11 DEF Next,
     MainStep, CallStep, InBridge, Java, Traffic, Netty

LEMMA DialledStep ==
  ASSUME EmbeddedInv, [Next]_vars
  PROVE  Dialled'
<1> USE EmbeddedAssumption, BridgeAssumption
        DEF EmbeddedInv, TypeOK, BridgeTypeOK, ConnPC, Dialled, Empty,
            vars, bridgeVars, flagVars, tableVars, threadVars, connVars,
            runVars, runnerVars, callVars, InBridge
<1>1. CASE Start \/ Cancel \/ BootFails \/ InitReturns \/ LookupStatic \/ Publish \/
         StoreHealthy \/ MarkReady
  BY <1>1 DEF Start, Cancel, BootFails, InitReturns, Leave, LookupStatic, Publish,
     StoreHealthy, MarkReady
<1>2. CASE SpawnNative \/ CallShutdown \/ ShutdownReturns \/ NativeDone \/ Clear \/
         StoreUnhealthy \/ TearDownIsolate \/ StartReturns
  BY <1>2 DEF SpawnNative, Enter, CallShutdown, ShutdownReturns, Leave, NativeDone,
     Clear, StoreUnhealthy, TearDownIsolate, StartReturns
<1>3. ASSUME NEW c \in Calls,
             Invoke(c) \/ CallRefused(c) \/ CallCancelled(c) \/ CallNative(c) \/
             AddReturns(c) \/ RemoveReturns(c)
      PROVE  Dialled'
  BY <1>3 DEF Invoke, CallRefused, Leave, CallCancelled, CallNative, Enter, Usable,
     AddReturns, RemoveReturns
<1>4. ASSUME NEW t \in Threads, InBridge(t),
             InitBind(t) \/ InitThrows(t) \/ InitFails(t) \/ InitEnd(t) \/
             AddRefused(t) \/ AddBind(t) \/ AddFails(t) \/ RemoveMissing(t) \/
             RemoveUnroute(t)
      PROVE  Dialled'
  BY <1>4 DEF InitBind, Bind, Configure, Compatible, InUse, At, InitThrows,
     AddThrows, InitFails, ClearTables, AllClosed, Return, InitEnd, AddRefused,
     AddBind, Acquire, AddFails, RemoveMissing, RemoveUnroute, Unserved
<1>5. ASSUME NEW t \in Threads, InBridge(t),
             RunRefused(t) \/ RunCheck(t) \/ RunSet(t) \/ RunLeaves(t) \/
             Shutdown(t) \/ EnterClose(t) \/ Close(t) \/ Closed(t)
      PROVE  Dialled'
  BY <1>5 DEF RunRefused, Return, RunCheck, At, RunSet, RunLeaves, Shutdown,
     EnterClose, Acquire, Close, CloseOne, Unserved, Closed, ClearTables, AllClosed
<1>6. ASSUME NEW x \in Conns, Netty(x), UNCHANGED <<runVars, runnerVars, callVars>>
      PROVE  Dialled'
  <2>1. CASE Dial(x)
    BY <1>6, <2>1 DEF Dial
  <2>2. CASE PreConnect(x)
    BY <1>6, <2>2 DEF PreConnect
  <2> QED
    BY <1>6, <2>1, <2>2 DEF Netty
<1>8. CASE CreateIsolate
  <2>1. listening = Empty(Ports)
    BY <1>8 DEF CreateIsolate, Cleared, Flags, Serving, Places, Initialising
  <2> QED
    BY <1>8, <2>1 DEF CreateIsolate, FreshIsolate
<1>9. ASSUME NEW t \in Threads, InBridge(t), InitBegin(t) PROVE Dialled'
  <2>1. listening = Empty(Ports)
    BY <1>9 DEF InitBegin, Cleared, Flags, Serving, Places, Initialising
  <2> QED
    BY <1>9, <2>1 DEF InitBegin, Acquire, At
<1>10. ASSUME NEW t \in Threads, InBridge(t), InitRegister(t) PROVE Dialled'
  BY <1>10, BoundPort DEF InitRegister, Register, At
<1>11. ASSUME NEW t \in Threads, InBridge(t), AddRegister(t) PROVE Dialled'
  BY <1>11, BoundPort DEF AddRegister, Register, Return
<1>12. ASSUME NEW t \in Threads, InBridge(t), RemoveClose(t) PROVE Dialled'
  <2>1. jkey[t] \in Keys /\ servers[jkey[t]] = None
    BY <1>12, KeyInHand DEF RemoveClose, Tables, Dropping, Locks, Holding
  <2> QED
    BY <1>12, <2>1 DEF RemoveClose, Return
<1>13. ASSUME NEW x \in Conns, LookupAddress(x) PROVE Dialled'
  <2>1. PICK k \in Keys :
          /\ backends[k] # None
          /\ conn' = [conn EXCEPT ![x] = [pc |-> "looked", key |-> k, port |-> backends[k]]]
          /\ stale' = IF servers[k] # None /\ listening[servers[k]] = k
                      THEN stale ELSE stale \cup {x}
    BY <1>13 DEF LookupAddress
  <2>2. ASSUME servers[k] # None
        PROVE  INITIALIZED /\ rpc \in Published \cup {"publish"}
    <3>1. rpc \in Published \cup {"publish"}
      BY <2>1 DEF Mirror
    <3>2. jpc[Main] \notin Initialising
      BY <3>1 DEF Places, Published
    <3> QED
      BY <2>2, <3>1, <3>2 DEF Cleared
  <2>3. ASSUME servers[k] # None
        PROVE  backends[k] = servers[k] /\ consumers
    <3>1. addresses[k] = backends[k]
      BY <1>13, <2>2, <2>3 DEF LookupAddress, Mirror, Answered
    <3>2. addresses[k] = servers[k]
      BY <2>3 DEF Tables
    <3> QED
      BY <2>2, <2>3, <3>1, <3>2 DEF Flags
  <2> QED
    BY <1>13, <2>1, <2>3 DEF LookupAddress
<1>14. CASE UNCHANGED vars
  BY <1>14
<1> QED
  BY <1>1, <1>2, <1>3, <1>4, <1>5, <1>6, <1>8, <1>9, <1>10, <1>11, <1>12,
     <1>13, <1>14 DEF Next, MainStep, CallStep, InBridge, Java, Traffic, Netty

LEMMA RoutedStep ==
  ASSUME EmbeddedInv, [Next]_vars
  PROVE  RoutedAsDialled'
<1> USE EmbeddedAssumption, BridgeAssumption
        DEF EmbeddedInv, TypeOK, BridgeTypeOK, ConnPC, RoutedAsDialled, Empty,
            vars, bridgeVars, flagVars, tableVars, threadVars, connVars,
            runVars, runnerVars, callVars, InBridge
<1>1. CASE Start \/ Cancel \/ BootFails \/ CreateIsolate \/ InitReturns \/
         LookupStatic \/ Publish \/ StoreHealthy \/ MarkReady
  BY <1>1 DEF Start, Cancel, BootFails, CreateIsolate, FreshIsolate, InitReturns,
     Leave, LookupStatic, Publish, StoreHealthy, MarkReady
<1>2. CASE SpawnNative \/ CallShutdown \/ ShutdownReturns \/ NativeDone \/ Clear \/
         StoreUnhealthy \/ TearDownIsolate \/ StartReturns
  BY <1>2 DEF SpawnNative, Enter, CallShutdown, ShutdownReturns, Leave, NativeDone,
     Clear, StoreUnhealthy, TearDownIsolate, StartReturns
<1>3. ASSUME NEW c \in Calls,
             Invoke(c) \/ CallRefused(c) \/ CallCancelled(c) \/ CallNative(c) \/
             AddReturns(c) \/ RemoveReturns(c)
      PROVE  RoutedAsDialled'
  BY <1>3 DEF Invoke, CallRefused, Leave, CallCancelled, CallNative, Enter, Usable,
     AddReturns, RemoveReturns
<1>4. ASSUME NEW t \in Threads, InBridge(t),
             InitBegin(t) \/ InitBind(t) \/ InitRegister(t) \/ InitThrows(t) \/
             InitFails(t) \/ InitEnd(t) \/ AddRefused(t) \/ AddBind(t) \/
             AddFails(t) \/ AddRegister(t) \/ RemoveMissing(t)
      PROVE  RoutedAsDialled'
  BY <1>4 DEF InitBegin, Acquire, At, InitBind, Bind, Configure, Compatible, InUse,
     InitRegister, Register, InitThrows, AddThrows, InitFails, ClearTables,
     AllClosed, Return, InitEnd, AddRefused, AddBind, AddFails, AddRegister,
     RemoveMissing
<1>5. ASSUME NEW t \in Threads, InBridge(t),
             RemoveUnroute(t) \/ RemoveClose(t) \/ RunRefused(t) \/ RunCheck(t) \/
             RunSet(t) \/ RunLeaves(t) \/ Shutdown(t) \/ EnterClose(t) \/ Close(t) \/
             Closed(t)
      PROVE  RoutedAsDialled'
  BY <1>5 DEF RemoveUnroute, Acquire, At, Unserved, RemoveClose, Return, RunRefused,
     RunCheck, RunSet, RunLeaves, Shutdown, EnterClose, Close, CloseOne, Closed,
     ClearTables, AllClosed
<1>6. ASSUME NEW x \in Conns, LookupAddress(x) PROVE RoutedAsDialled'
  BY <1>6 DEF LookupAddress
<1>7. ASSUME NEW x \in Conns, Dial(x), UNCHANGED <<runVars, runnerVars, callVars>>
      PROVE  RoutedAsDialled'
  BY <1>7 DEF Dial
<1>8. ASSUME NEW x \in Conns, PreConnect(x), UNCHANGED <<runVars, runnerVars, callVars>>
      PROVE  RoutedAsDialled'
  <2>1. conn[x].key \in Keys /\ conn[x].port \in Ports
    BY <1>8 DEF PreConnect, Dialled
  <2>2. x \notin stale => routes[conn[x].port] = conn[x].key /\ consumers
    BY <1>8, <2>1 DEF PreConnect, Dialled, Tables
  <2> QED
    BY <1>8, <2>1, <2>2 DEF PreConnect
<1>9. CASE UNCHANGED vars
  BY <1>9
<1> QED
  BY <1>1, <1>2, <1>3, <1>4, <1>5, <1>6, <1>7, <1>8, <1>9 DEF Next, MainStep,
     CallStep, InBridge, Java, Traffic, Netty

-----------------------------------------------------------------------------
(***************************************************************************)
(* The theorems.                                                           *)
(***************************************************************************)
LEMMA EmbeddedStart == Init => EmbeddedInv
<1> SUFFICES ASSUME Init PROVE EmbeddedInv
  OBVIOUS
<1> USE EmbeddedAssumption, BridgeAssumption DEF Init, BridgeInit, Empty
<1>1. TypeOK
  <2>1. /\ INITIALIZED \in BOOLEAN /\ RUNNING \in BOOLEAN
        /\ activeConfig \in BOOLEAN /\ consumers \in BOOLEAN
    OBVIOUS
  <2>2. /\ ready \in BOOLEAN /\ cancelled \in BOOLEAN
        /\ symbols \in BOOLEAN /\ healthy \in BOOLEAN
    OBVIOUS
  <2>3. BridgeTypeOK
    BY <2>1 DEF BridgeTypeOK, JavaPC, ConnPC
  <2> QED
    BY <2>2, <2>3 DEF TypeOK, RunPC, CallPC
<1>2. Places /\ Locks /\ Arguments
  BY DEF Places, Locks, Arguments, Initialising, Holding, InCall, Published, Spawned
<1>3. Tables /\ OneForwardingMode /\ Cleared
  BY DEF Tables, OneForwardingMode, Cleared, Adding, Dropping, Closing, Initialising
<1>4. Flags /\ Uncancelled /\ Mirror
  BY DEF Flags, Uncancelled, Mirror, Serving, Published
<1>5. Dialled /\ RoutedAsDialled
  BY DEF Dialled, RoutedAsDialled
<1> QED
  BY <1>1, <1>2, <1>3, <1>4, <1>5 DEF EmbeddedInv

LEMMA EmbeddedStep == EmbeddedInv /\ [Next]_vars => EmbeddedInv'
<1> SUFFICES ASSUME EmbeddedInv, [Next]_vars PROVE EmbeddedInv'
  OBVIOUS
<1>1. TypeOK' /\ Places' /\ Locks' /\ Arguments'
  BY EmbeddedTypeStep, PlacesStep, LocksStep, ArgumentsStep
<1>2. Tables' /\ OneForwardingMode' /\ Cleared' /\ Flags'
  BY TablesStep, ForwardingStep, ClearedStep, FlagsStep
<1>3. Uncancelled' /\ Mirror' /\ Dialled' /\ RoutedAsDialled'
  BY UncancelledStep, MirrorStep, DialledStep, RoutedStep
<1> QED
  BY <1>1, <1>2, <1>3 DEF EmbeddedInv

LEMMA EmbeddedInvariant == Spec => []EmbeddedInv
  BY EmbeddedStart, EmbeddedStep, PTL DEF Spec

\* Every variable of the runner and of the bridge keeps its type, for every number
\* of backends, ports, calls, connections and runs.
THEOREM EmbeddedTypes == Spec => []TypeOK
<1>1. EmbeddedInv => TypeOK
  BY DEF EmbeddedInv
<1> QED
  BY EmbeddedInvariant, <1>1, PTL

\* addBackend of VialiteBridge.java never serves two forwarding modes at a time,
\* however adds, removes, failed adds and a shutdown overlap.
THEOREM OneModeServed == Spec => []OneForwardingMode
<1>1. EmbeddedInv => OneForwardingMode
  BY DEF EmbeddedInv
<1> QED
  BY EmbeddedInvariant, <1>1, PTL

\* run of go/embedded.go tears the isolate down when no goroutine is inside it and
\* no listener is open: clearing symbols under r.mu waits for the last call, and
\* vialite_shutdown and the end of vialite_run close what an overtaken add bound.
THEOREM IsolateLeftEmpty == Spec => []TearDownClean
<1>1. EmbeddedInv => TearDownClean
  <2> SUFFICES ASSUME EmbeddedInv PROVE TearDownClean
    OBVIOUS
  <2> USE EmbeddedAssumption, BridgeAssumption
          DEF EmbeddedInv, TypeOK, BridgeTypeOK, Places
  <2>1. ASSUME isolate = "torn", NEW t \in Threads PROVE ~InJava(t)
    <3>1. rpc \in {"idle", "boot", "returning"}
      BY <2>1
    <3>2. \A c \in Calls : cpc[c] \notin InCall
      BY <3>1 DEF Published
    <3> QED
      BY <2>1, <3>1, <3>2 DEF InJava, JavaPC, Initialising, InCall, Spawned
  <2>2. ASSUME isolate # "up" PROVE InUse = {}
    <3>1. rpc \in {"idle", "boot", "returning"}
      BY <2>2
    <3>2. ~INITIALIZED /\ jpc[Main] \notin Initialising
      BY <3>1 DEF Flags, Serving, Initialising
    <3> QED
      BY <3>2 DEF Cleared, InUse, Empty
  <2> QED
    BY <2>1, <2>2 DEF TearDownClean
<1> QED
  BY EmbeddedInvariant, <1>1, PTL

\* Whenever nobody holds the monitor, SERVERS_BY_BACKEND, BACKEND_ADDRESSES,
\* ROUTES_BY_LOCAL_PORT and the open listeners tell one story; whenever nobody
\* holds r.mu and the run is not cancelled, embeddedRunner.backends tells it too.
THEOREM RegistriesInStep == Spec => []RegistriesAgree
<1>1. EmbeddedInv => RegistriesAgree
  <2> SUFFICES ASSUME EmbeddedInv PROVE RegistriesAgree
    OBVIOUS
  <2> USE EmbeddedAssumption, BridgeAssumption DEF EmbeddedInv, TypeOK, BridgeTypeOK
  <2>1. ASSUME monitor = None
        PROVE  /\ addresses = servers
               /\ \A k \in Keys, p \in Ports : servers[k] = p <=> listening[p] = k
               /\ \A k \in Keys, p \in Ports : servers[k] = p <=> routes[p] = k
    BY <2>1 DEF Tables, Adding, Dropping, Closing
  <2>2. ASSUME symbols, mu = None, ~cancelled PROVE backends = addresses
    <3>1. rpc \in Published
      BY <2>2 DEF Places
    <3>2. INITIALIZED
      BY <2>2, <3>1 DEF Uncancelled, Published, Serving
    <3>3. \A k \in Keys : addresses[k] = backends[k]
      BY <2>2, <3>1, <3>2 DEF Mirror, Answered
    <3> QED
      BY <3>3
  <2> QED
    BY <2>1, <2>2 DEF RegistriesAgree
<1> QED
  BY EmbeddedInvariant, <1>1, PTL

\* onPreConnect routes a connection to the backend whose address Gate was given,
\* unless that backend was removed or shut down between the lookup and the routing,
\* although neither the lookup nor the routing holds the bridge's monitor.
THEOREM RoutedToItsBackend == Spec => []RoutedAsDialled
<1>1. EmbeddedInv => RoutedAsDialled
  BY DEF EmbeddedInv
<1> QED
  BY EmbeddedInvariant, <1>1, PTL
=============================================================================
