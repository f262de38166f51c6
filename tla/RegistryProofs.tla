--------------------------- MODULE RegistryProofs ---------------------------
(***************************************************************************)
(* More theorems about SubprocessRunner: what a call leaves behind (leases *)
(* and config files), the agreement of the registries of go/subprocess.go, *)
(* and when a child can be forgotten. They build on LifeInv and OwnInv of  *)
(* SubprocessRunnerProofs.                                                 *)
(***************************************************************************)
EXTENDS SubprocessRunnerProofs

-----------------------------------------------------------------------------
(***************************************************************************)
(* The invariants.                                                         *)
(***************************************************************************)
\* The points of an add at which it can have a lease, and a config file.
Leasing == Starting \cup {"reserved", "configured", "stopping", "release", "relclean", "added"}
Filing == Starting \cup {"configured", "stopping", "release", "relclean", "cleanup"}

\* Leases and config files exist only where some later step returns them.
Resources ==
    /\ \A c \in Calls : lease[c] = "held" => pc[c] \in Leasing
    /\ \A c \in Calls : c \in configs => pc[c] \in Filing \/ (pc[c] = "added" /\ c \in watch)
    /\ Main \in configs => rpc # "idle"

\* The child of a registry entry is the child of an add for that backend.
Registered ==
    /\ \A k \in Keys : dynamic[k] # None => key[dynamic[k]] = k
    /\ \A k \in Keys : pending[k] # None =>
          key[pending[k]] = k /\ pc[pending[k]] \in Starting \cup {"stopping"}

\* Where the run loop is while the runner is healthy, or has children to stop.
Phase ==
    /\ healthy => rpc \in {"serve", "waitready", "dialed", "ready", "shutdown", "killed"}
    /\ victims # {} => rpc = "stopping"
    /\ runs = 0 => rpc = "idle"

\* Without configured backends there is only the dynamic part of the loop, and
\* the registry is empty whenever it does not serve.
DynamicOnly ==
    StaticKeys = {} =>
        /\ rpc \in {"idle", "boot", "serve", "stopall", "stopping", "return"}
        /\ proc[Main] = "none"
        /\ \A k \in Keys : dynamic[k] # None \/ pending[k] # None
                           => rpc \in {"serve", "stopall"}

\* Nothing happened yet when run boots for the first time.
Unused ==
    runs = 0 \/ (runs = 1 /\ rpc = "boot") =>
        /\ ~ready
        /\ \A c \in Calls : pc[c] = "idle"
        /\ \A k \in Keys : dynamic[k] = None

RegInv == Resources /\ Registered /\ Phase /\ DynamicOnly /\ Unused

\* An add between its duplicate check and cmd.Start.
PreStart == {"claimed", "reserved", "configured", "relclean", "cleanup"}

\* One runtime per backend: an add that has not started its child yet has the
\* marker in adding (until stopDynamicBackends drops all markers), is the only
\* such add of its backend, and no child is pending or published for it.
Exclusive ==
    /\ \A c \in Calls : pc[c] \in PreStart =>
          /\ key[c] \in adding \/ rpc \in {"stopping", "return", "idle"}
          /\ pending[key[c]] = None /\ dynamic[key[c]] = None
    /\ \A c, d \in Calls : c # d /\ pc[c] \in PreStart /\ pc[d] \in PreStart => key[c] # key[d]
    /\ \A k \in Keys : pending[k] # None => dynamic[k] = None

\* A published child is in the registry, or on somebody's list to be stopped.
Kept ==
    /\ \A c \in Calls : victim[c] # None => pc[c] \in {"stopping", "removing"}
    /\ \A c \in Calls : pc[c] = "added" /\ Running(c) =>
          \/ dynamic[key[c]] = c
          \/ c \in victims
          \/ \E x \in Procs : victim[x] = c

-----------------------------------------------------------------------------
(***************************************************************************)
(* Steps of the calls and of the watchers.                                 *)
(***************************************************************************)
LEMMA ResourcesCall ==
  ASSUME TypeInv, Resources, NEW c \in Calls, CallNext(c) \/ Watcher(c), UNCHANGED runVars
  PROVE  Resources'
<1> USE DynamicBackendsAssumption
    DEF TypeInv, DynType, DynTypeOK, Resources, Leasing, Filing, Starting, runVars
<1>1. CASE AddClaim(c) \/ AddReserveFails(c) \/ AddConfig(c)
  BY <1>1 DEF AddClaim, Duplicate, AddReserveFails, AddConfig
<1>2. CASE AddReserve(c)
  BY <1>2 DEF AddReserve
<1>3. CASE AddStart(c)
  BY <1>3 DEF AddStart, Spawn
<1>4. CASE AddDial(c) \/ AddDialed(c) \/ AddNotReady(c)
  BY <1>4 DEF AddDial, AddStep, AddDialed, AddGiveUp, AddNotReady
<1>5. CASE AddInodes(c) \/ AddFds(c)
  BY <1>5 DEF AddInodes, AddStep, AddGiveUp, AddFds, FdsUnreadable
<1>6. CASE AddPublish(c)
  BY <1>6 DEF AddPublish
<1>7. CASE AddRefused(c) \/ AddUnpend(c)
  BY <1>7 DEF AddRefused, AddUnpend
<1>8. CASE AddRelease(c) \/ AddCleanup(c)
  BY <1>8 DEF AddRelease, Return, AddCleanup
<1>9. CASE RemoveClaim(c) \/ RemoveReturn(c)
  BY <1>9 DEF RemoveClaim, RemoveReturn, AddStep
<1>10. CASE StopTerm(c) \/ StopKill(c) \/ StopDone(c)
  BY <1>10 DEF StopTerm, StopKill, StopDone, Return
<1>11. CASE Watcher(c)
  BY <1>11 DEF Watcher
<1> QED
  BY <1>1, <1>2, <1>3, <1>4, <1>5, <1>6, <1>7, <1>8, <1>9, <1>10, <1>11 DEF
     CallNext, AddNext, StopStep

LEMMA RegisteredCall ==
  ASSUME TypeInv, Registered, NEW c \in Calls, CallNext(c) \/ Watcher(c)
  PROVE  Registered'
<1> USE DynamicBackendsAssumption
    DEF TypeInv, DynType, DynTypeOK, KeyKnown, Registered, Starting, registryVars
<1>1. CASE AddClaim(c) \/ AddReserveFails(c) \/ AddConfig(c)
  BY <1>1 DEF AddClaim, Duplicate, AddReserveFails, AddConfig
<1>2. CASE AddReserve(c)
  BY <1>2 DEF AddReserve
<1>3. CASE AddStart(c)
  BY <1>3 DEF AddStart, Spawn
<1>4. CASE AddDial(c) \/ AddDialed(c) \/ AddNotReady(c)
  BY <1>4 DEF AddDial, AddStep, AddDialed, AddGiveUp, AddNotReady
<1>5. CASE AddInodes(c) \/ AddFds(c)
  BY <1>5 DEF AddInodes, AddStep, AddGiveUp, AddFds, FdsUnreadable
<1>6. CASE AddPublish(c)
  BY <1>6 DEF AddPublish
<1>7. CASE AddRefused(c) \/ AddUnpend(c)
  BY <1>7 DEF AddRefused, AddUnpend
<1>8. CASE AddRelease(c) \/ AddCleanup(c)
  BY <1>8 DEF AddRelease, Return, AddCleanup
<1>9. CASE RemoveClaim(c) \/ RemoveReturn(c)
  BY <1>9 DEF RemoveClaim, RemoveReturn, AddStep
<1>10. CASE StopTerm(c) \/ StopKill(c) \/ StopDone(c)
  BY <1>10 DEF StopTerm, StopKill, StopDone, Return
<1>11. CASE Watcher(c)
  BY <1>11 DEF Watcher
<1> QED
  BY <1>1, <1>2, <1>3, <1>4, <1>5, <1>6, <1>7, <1>8, <1>9, <1>10, <1>11 DEF
     CallNext, AddNext, StopStep

LEMMA DynamicOnlyCall ==
  ASSUME TypeInv, Phase, DynamicOnly, NEW c \in Calls, CallNext(c) \/ Watcher(c),
         UNCHANGED runVars
  PROVE  DynamicOnly'
<1> USE DynamicBackendsAssumption
    DEF TypeInv, DynType, DynTypeOK, KernelTypeOK, KeyKnown, Phase, DynamicOnly,
        registryVars, kernelVars, runVars
<1>1. CASE AddClaim(c) \/ AddReserveFails(c) \/ AddConfig(c)
  BY <1>1 DEF AddClaim, Duplicate, AddReserveFails, AddConfig
<1>2. CASE AddReserve(c)
  BY <1>2 DEF AddReserve
<1>3. CASE AddStart(c)
  BY <1>3 DEF AddStart, Spawn
<1>4. CASE AddDial(c) \/ AddDialed(c) \/ AddNotReady(c)
  BY <1>4 DEF AddDial, AddStep, AddDialed, AddGiveUp, AddNotReady
<1>5. CASE AddInodes(c) \/ AddFds(c)
  BY <1>5 DEF AddInodes, AddStep, AddGiveUp, AddFds, FdsUnreadable
<1>6. CASE AddPublish(c)
  BY <1>6 DEF AddPublish
<1>7. CASE AddRefused(c) \/ AddUnpend(c)
  BY <1>7 DEF AddRefused, AddUnpend
<1>8. CASE AddRelease(c) \/ AddCleanup(c)
  BY <1>8 DEF AddRelease, Return, AddCleanup
<1>9. CASE RemoveClaim(c) \/ RemoveReturn(c)
  BY <1>9 DEF RemoveClaim, RemoveReturn, AddStep
<1>10. CASE StopTerm(c) \/ StopKill(c) \/ StopDone(c)
  BY <1>10 DEF StopTerm, StopKill, StopDone, Return
<1>11. CASE Watcher(c)
  BY <1>11 DEF Watcher
<1> QED
  BY <1>1, <1>2, <1>3, <1>4, <1>5, <1>6, <1>7, <1>8, <1>9, <1>10, <1>11 DEF
     CallNext, AddNext, StopStep

\* The run loop does not move meanwhile.
LEMMA RegCall ==
  ASSUME TypeInv, RegInv, NEW c \in Calls, Goroutine(c)
  PROVE  RegInv'
<1> USE DEF RegInv, Goroutine
<1>1. Resources' /\ Registered' /\ DynamicOnly'
  BY ResourcesCall, RegisteredCall, DynamicOnlyCall
<1>2. UNCHANGED <<healthy, ready>>
  BY DEF CallNext, AddNext, StopStep, StopTerm, StopKill, StopDone, Watcher, AddClaim,
         AddReserve, AddReserveFails, AddConfig, AddStart, AddDial, AddDialed, AddNotReady,
         AddInodes, AddFds, AddPublish, AddRefused, AddUnpend, AddRelease, AddCleanup,
         RemoveClaim, RemoveReturn, AddStep, AddGiveUp
<1>3. Phase'
  BY <1>2 DEF Phase, runVars, loopVars
<1>4. Unused'
  <2>1. SUFFICES ASSUME pc[c] = "idle", \A k \in Keys : dynamic[k] = None
                 PROVE  UNCHANGED pc /\ \A k \in Keys : dynamic'[k] = None
    BY <1>2 DEF Unused, runVars, loopVars
  <2>2. StopStep(c) \/ Watcher(c)
    BY <2>1
    DEF CallNext, AddNext, AddClaim, AddReserve, AddReserveFails, AddConfig, AddStart,
        AddDial, AddDialed, AddNotReady, AddInodes, AddFds, AddPublish, AddRefused,
        AddUnpend, AddRelease, AddCleanup, RemoveClaim, RemoveReturn, AddStep, AddGiveUp
  <2> QED
    BY <2>1, <2>2, DynamicBackendsAssumption
    DEF StopStep, StopTerm, StopKill, StopDone, Watcher, registryVars, TypeInv, DynType,
        DynTypeOK
<1> QED
  BY <1>1, <1>3, <1>4

-----------------------------------------------------------------------------
(***************************************************************************)
(* Steps of the run loop.                                                  *)
(***************************************************************************)
LEMMA ResourcesRun ==
  ASSUME TypeInv, Resources, RunStep
  PROVE  Resources'
<1> USE DynamicBackendsAssumption
    DEF Resources, callVars, dynVars, loopVars
<1>1. CASE BootFails \/ MainDial \/ CrashedStop \/ Joined \/ AfterAttempt \/
            BackoffCancelled \/ StopAllDone
  BY <1>1 DEF BootFails, Go, MainDial, CrashedStop, Joined, AfterAttempt,
     BackoffCancelled, StopAllDone
<1>2. CASE BootDynamic \/ ServeEnds \/ RunReturns \/ MainReady
  BY <1>2 DEF BootDynamic, ServeEnds, RunReturns, MainReady
<1>3. CASE BootStatic
  BY <1>3 DEF BootStatic
<1>4. CASE SpawnMain
  BY <1>4 DEF SpawnMain, Spawn
<1>5. CASE MainNotReady \/ MainCrashed \/ MainExited \/ ShutdownDone
  BY <1>5 DEF MainNotReady, Unhealthy, MainCrashed, MainExited, ShutdownDone
<1>6. CASE NotReadyStop \/ ReadyShutdown \/ ShutdownKill \/ BackoffElapsed
  BY <1>6 DEF NotReadyStop, Go, TerminateMain, ReadyShutdown, ShutdownKill,
     BackoffElapsed
<1>7. CASE StopAll
  BY <1>7 DEF StopAll
<1>8. CASE StopNext
  BY <1>8 DEF StopNext
<1> QED
  BY <1>1, <1>2, <1>3, <1>4, <1>5, <1>6, <1>7, <1>8 DEF RunStep

LEMMA RegisteredRun ==
  ASSUME TypeInv, Registered, RunStep
  PROVE  Registered'
<1> USE DynamicBackendsAssumption
    DEF Registered, callVars, dynVars, registryVars
<1>1. CASE BootFails \/ MainDial \/ CrashedStop \/ Joined \/ AfterAttempt \/
            BackoffCancelled \/ StopAllDone
  BY <1>1 DEF BootFails, Go, MainDial, CrashedStop, Joined, AfterAttempt,
     BackoffCancelled, StopAllDone
<1>2. CASE BootDynamic \/ ServeEnds \/ RunReturns \/ MainReady
  BY <1>2 DEF BootDynamic, ServeEnds, RunReturns, MainReady
<1>3. CASE BootStatic
  BY <1>3 DEF BootStatic
<1>4. CASE SpawnMain
  BY <1>4 DEF SpawnMain, Spawn
<1>5. CASE MainNotReady \/ MainCrashed \/ MainExited \/ ShutdownDone
  BY <1>5 DEF MainNotReady, Unhealthy, MainCrashed, MainExited, ShutdownDone
<1>6. CASE NotReadyStop \/ ReadyShutdown \/ ShutdownKill \/ BackoffElapsed
  BY <1>6 DEF NotReadyStop, Go, TerminateMain, ReadyShutdown, ShutdownKill,
     BackoffElapsed
<1>7. CASE StopAll
  BY <1>7 DEF StopAll
<1>8. CASE StopNext
  BY <1>8 DEF StopNext
<1> QED
  BY <1>1, <1>2, <1>3, <1>4, <1>5, <1>6, <1>7, <1>8 DEF RunStep

LEMMA PhaseRun ==
  ASSUME TypeInv, Phase, RunStep
  PROVE  Phase'
<1> USE SubprocessRunnerAssumption DEF TypeInv, RunTypeOK, Phase, loopVars, dynVars
<1>1. CASE BootFails \/ MainDial \/ CrashedStop \/ Joined \/ AfterAttempt \/
            BackoffCancelled \/ StopAllDone
  BY <1>1 DEF BootFails, Go, MainDial, CrashedStop, Joined, AfterAttempt,
     BackoffCancelled, StopAllDone
<1>2. CASE BootDynamic \/ ServeEnds \/ RunReturns \/ MainReady
  BY <1>2 DEF BootDynamic, ServeEnds, RunReturns, MainReady
<1>3. CASE BootStatic
  BY <1>3 DEF BootStatic
<1>4. CASE SpawnMain
  BY <1>4 DEF SpawnMain, Spawn
<1>5. CASE MainNotReady \/ MainCrashed \/ MainExited \/ ShutdownDone
  BY <1>5 DEF MainNotReady, Unhealthy, MainCrashed, MainExited, ShutdownDone
<1>6. CASE NotReadyStop \/ ReadyShutdown \/ ShutdownKill \/ BackoffElapsed
  BY <1>6 DEF NotReadyStop, Go, TerminateMain, ReadyShutdown, ShutdownKill,
     BackoffElapsed
<1>7. CASE StopAll
  BY <1>7 DEF StopAll
<1>8. CASE StopNext
  BY <1>8 DEF StopNext
<1> QED
  BY <1>1, <1>2, <1>3, <1>4, <1>5, <1>6, <1>7, <1>8 DEF RunStep

LEMMA DynamicOnlyRun ==
  ASSUME TypeInv, DynamicOnly, RunStep
  PROVE  DynamicOnly'
<1> USE DynamicBackendsAssumption
    DEF TypeInv, KernelTypeOK, DynamicOnly, kernelVars, dynVars, registryVars
<1>1. CASE BootFails \/ MainDial \/ CrashedStop \/ Joined \/ AfterAttempt \/
            BackoffCancelled \/ StopAllDone
  BY <1>1 DEF BootFails, Go, MainDial, CrashedStop, Joined, AfterAttempt,
     BackoffCancelled, StopAllDone
<1>2. CASE BootDynamic \/ ServeEnds \/ RunReturns \/ MainReady
  BY <1>2 DEF BootDynamic, ServeEnds, RunReturns, MainReady
<1>3. CASE BootStatic
  BY <1>3 DEF BootStatic
<1>4. CASE SpawnMain
  BY <1>4 DEF SpawnMain, Spawn
<1>5. CASE MainNotReady \/ MainCrashed \/ MainExited \/ ShutdownDone
  BY <1>5 DEF MainNotReady, Unhealthy, MainCrashed, MainExited, ShutdownDone
<1>6. CASE NotReadyStop \/ ReadyShutdown \/ ShutdownKill \/ BackoffElapsed
  BY <1>6 DEF NotReadyStop, Go, TerminateMain, ReadyShutdown, ShutdownKill,
     BackoffElapsed
<1>7. CASE StopAll
  BY <1>7 DEF StopAll
<1>8. CASE StopNext
  BY <1>8 DEF StopNext
<1> QED
  BY <1>1, <1>2, <1>3, <1>4, <1>5, <1>6, <1>7, <1>8 DEF RunStep

LEMMA UnusedRun ==
  ASSUME TypeInv, Phase, Unused, RunStep
  PROVE  Unused'
<1> USE SubprocessRunnerAssumption
    DEF TypeInv, RunTypeOK, Phase, Unused, loopVars, dynVars, registryVars, callVars
<1>1. CASE BootFails \/ MainDial \/ CrashedStop \/ Joined \/ AfterAttempt \/
            BackoffCancelled \/ StopAllDone
  BY <1>1 DEF BootFails, Go, MainDial, CrashedStop, Joined, AfterAttempt,
     BackoffCancelled, StopAllDone
<1>2. CASE BootDynamic \/ ServeEnds \/ RunReturns \/ MainReady
  BY <1>2 DEF BootDynamic, ServeEnds, RunReturns, MainReady
<1>3. CASE BootStatic
  BY <1>3 DEF BootStatic
<1>4. CASE SpawnMain
  BY <1>4 DEF SpawnMain, Spawn
<1>5. CASE MainNotReady \/ MainCrashed \/ MainExited \/ ShutdownDone
  BY <1>5 DEF MainNotReady, Unhealthy, MainCrashed, MainExited, ShutdownDone
<1>6. CASE NotReadyStop \/ ReadyShutdown \/ ShutdownKill \/ BackoffElapsed
  BY <1>6 DEF NotReadyStop, Go, TerminateMain, ReadyShutdown, ShutdownKill,
     BackoffElapsed
<1>7. CASE StopAll
  BY <1>7 DEF StopAll
<1>8. CASE StopNext
  BY <1>8 DEF StopNext
<1> QED
  BY <1>1, <1>2, <1>3, <1>4, <1>5, <1>6, <1>7, <1>8 DEF RunStep

LEMMA RegRun ==
  ASSUME TypeInv, RegInv, RunStep
  PROVE  RegInv'
  BY ResourcesRun, RegisteredRun, PhaseRun, DynamicOnlyRun, UnusedRun DEF RegInv

-----------------------------------------------------------------------------
(***************************************************************************)
(* Every step.                                                             *)
(***************************************************************************)
LEMMA RegStart ==
  ASSUME TypeInv, RegInv, Start \/ Cancel \/ UNCHANGED vars
  PROVE  RegInv'
<1> USE DEF TypeInv, RunTypeOK, RegInv, vars, kernelVars, dynVars, registryVars, stopVars, runVars,
            loopVars
<1>1. CASE Start
  <2>1. runs = 0 \/ runs' # 1
    BY <1>1, SubprocessRunnerAssumption DEF Start
  <2>2. runs' # 0
    BY <1>1, SubprocessRunnerAssumption DEF Start
  <2> QED
    BY <1>1, <2>1, <2>2 DEF Start, Resources, Registered, Phase, DynamicOnly, Unused
<1>2. CASE Cancel \/ UNCHANGED vars
  BY <1>2 DEF Cancel, Resources, Registered, Phase, DynamicOnly, Unused
<1> QED
  BY <1>1, <1>2

LEMMA RegOther ==
  ASSUME TypeInv, RegInv, Host \/ (StopStep(Main) /\ UNCHANGED runVars)
  PROVE  RegInv'
<1> USE DynamicBackendsAssumption
    DEF TypeInv, KernelTypeOK, DynType, DynTypeOK, RegInv, Resources, Registered, Phase,
        DynamicOnly, Unused, dynVars, registryVars, stopVars, kernelVars, runVars, loopVars
<1>1. CASE Host
  BY <1>1 DEF Host, HostStep, ChildBind, ChildExit, Reap, ForeignBind, ForeignClose
<1>2. CASE StopStep(Main) /\ UNCHANGED runVars
  BY <1>2 DEF StopStep, StopTerm, StopKill, StopDone, Return
<1> QED
  BY <1>1, <1>2

LEMMA RegInvoke ==
  ASSUME TypeInv, Placed, RegInv, NEW c \in Calls, NEW k \in Keys, NEW op \in {"add", "remove"},
         Invoke(c, k, op), UNCHANGED runVars
  PROVE  RegInv'
<1> USE DEF TypeInv, DynType, DynTypeOK, Invoke, registryVars, stopVars, kernelVars, runVars,
            loopVars
<1>1. Resources'
  BY DEF RegInv, Resources, Leasing, Filing, Starting
<1>2. Registered'
  BY DynamicBackendsAssumption DEF RegInv, Registered, Placed, Starting
<1>3. Phase' /\ DynamicOnly'
  BY DEF RegInv, Phase, DynamicOnly
<1>4. Unused'
  BY DEF RegInv, Unused
<1> QED
  BY <1>1, <1>2, <1>3, <1>4 DEF RegInv

LEMMA RegInit == Init => RegInv
  BY DynamicBackendsAssumption
  DEF Init, DynInit, KernelInit, RegInv, Resources, Registered, Phase, DynamicOnly, Unused

LEMMA RegStep == LifeInv /\ OwnInv /\ RegInv /\ [Next]_vars => RegInv'
<1> SUFFICES ASSUME LifeInv, OwnInv, RegInv, [Next]_vars PROVE RegInv'
  OBVIOUS
<1> USE DEF LifeInv, OwnInv
<1>1. CASE Start \/ Cancel \/ UNCHANGED vars
  BY <1>1, RegStart
<1>2. CASE Runner \/ Host
  BY <1>2, RegRun, RegOther DEF Runner
<1>3. ASSUME NEW c \in Calls, Goroutine(c) PROVE RegInv'
  BY <1>3, RegCall
<1>4. ASSUME NEW c \in Calls, NEW k \in Keys, NEW op \in {"add", "remove"},
             Invoke(c, k, op), UNCHANGED runVars
      PROVE  RegInv'
  BY <1>4, RegInvoke
<1> QED
  BY <1>1, <1>2, <1>3, <1>4 DEF Next

LEMMA RegInvariant == Spec => [](LifeInv /\ OwnInv /\ RegInv)
<1>1. Init => LifeInv /\ OwnInv /\ RegInv
  BY TypeInit, LifeInit, OwnInit, RegInit DEF LifeInv, OwnInv
<1> QED
  BY <1>1, LifeStep, OwnStep, RegStep, PTL DEF Spec

\* addBackend gives the embedder's address back on each of its failing paths, for
\* any number of concurrent calls and runs.
THEOREM LeaseReturned == Spec => []FailedAddReturnsLease
<1>1. RegInv => FailedAddReturnsLease
  BY DEF RegInv, Resources, Leasing, Starting, FailedAddReturnsLease
<1> QED
  BY RegInvariant, <1>1, PTL

\* No path of addBackend, removeBackend, dynamicBackendExited, stopDynamicBackends
\* or run leaves a temporary config file behind.
THEOREM ConfigRemoved == Spec => []NoConfigLeak
<1>1. RegInv => NoConfigLeak
  BY DEF RegInv, Resources, Filing, Starting, Returned, NoConfigLeak
<1> QED
  BY RegInvariant, <1>1, PTL

-----------------------------------------------------------------------------
(***************************************************************************)
(* backends against dynamic. A run with configured backends replaces       *)
(* backends when it boots, so what is published then has to be nothing: it *)
(* is in the first run (Unused). A later one may find children that a Stop *)
(* during the restart backoff left behind.                                 *)
(***************************************************************************)
LEMMA ConsistentCall ==
  ASSUME TypeInv, Placed, RegistryConsistent, NEW c \in Calls, CallNext(c) \/ Watcher(c)
  PROVE  RegistryConsistent'
<1> USE DynamicBackendsAssumption
    DEF TypeInv, DynType, DynTypeOK, KeyKnown, Placed, RegistryConsistent, registryVars
<1>1. CASE AddClaim(c) \/ AddReserveFails(c) \/ AddConfig(c)
  BY <1>1 DEF AddClaim, Duplicate, AddReserveFails, AddConfig
<1>2. CASE AddReserve(c)
  BY <1>2 DEF AddReserve
<1>3. CASE AddStart(c)
  BY <1>3 DEF AddStart, Spawn
<1>4. CASE AddDial(c) \/ AddDialed(c) \/ AddNotReady(c)
  BY <1>4 DEF AddDial, AddStep, AddDialed, AddGiveUp, AddNotReady
<1>5. CASE AddInodes(c) \/ AddFds(c)
  BY <1>5 DEF AddInodes, AddStep, AddGiveUp, AddFds, FdsUnreadable
<1>6. CASE AddPublish(c)
  BY <1>6 DEF AddPublish
<1>7. CASE AddRefused(c) \/ AddUnpend(c)
  BY <1>7 DEF AddRefused, AddUnpend
<1>8. CASE AddRelease(c) \/ AddCleanup(c)
  BY <1>8 DEF AddRelease, Return, AddCleanup
<1>9. CASE RemoveClaim(c) \/ RemoveReturn(c)
  BY <1>9 DEF RemoveClaim, RemoveReturn, AddStep
<1>10. CASE StopTerm(c) \/ StopKill(c) \/ StopDone(c)
  BY <1>10 DEF StopTerm, StopKill, StopDone, Return
<1>11. CASE Watcher(c)
  BY <1>11 DEF Watcher
<1> QED
  BY <1>1, <1>2, <1>3, <1>4, <1>5, <1>6, <1>7, <1>8, <1>9, <1>10, <1>11 DEF
     CallNext, AddNext, StopStep

LEMMA ConsistentRun ==
  ASSUME StaticKeys = {} \/ MaxRuns <= 1, TypeInv, RegInv, RegistryConsistent, RunStep
  PROVE  RegistryConsistent'
<1> USE DynamicBackendsAssumption
    DEF TypeInv, DynType, DynTypeOK, RegistryConsistent, callVars, dynVars, registryVars
<1>1. CASE BootFails \/ MainDial \/ CrashedStop \/ Joined \/ AfterAttempt \/
            BackoffCancelled \/ StopAllDone
  BY <1>1 DEF BootFails, Go, MainDial, CrashedStop, Joined, AfterAttempt,
     BackoffCancelled, StopAllDone
<1>2. CASE BootDynamic \/ ServeEnds \/ RunReturns \/ MainReady
  BY <1>2 DEF BootDynamic, ServeEnds, RunReturns, MainReady
<1>3. CASE BootStatic
  <2>1. runs = 1
    BY <1>3, SubprocessRunnerAssumption DEF BootStatic, RegInv, Phase, RunTypeOK
  <2>2. \A k \in Keys : dynamic[k] = None
    BY <1>3, <2>1 DEF BootStatic, RegInv, Unused
  <2>3. \A k \in Keys \ StaticKeys : backends'[k] = None
    BY <1>3 DEF BootStatic
  <2> QED
    BY <1>3, <2>2, <2>3 DEF BootStatic
<1>4. CASE SpawnMain
  BY <1>4 DEF SpawnMain, Spawn
<1>5. CASE MainNotReady \/ MainCrashed \/ MainExited \/ ShutdownDone
  BY <1>5 DEF MainNotReady, Unhealthy, MainCrashed, MainExited, ShutdownDone
<1>6. CASE NotReadyStop \/ ReadyShutdown \/ ShutdownKill \/ BackoffElapsed
  BY <1>6 DEF NotReadyStop, Go, TerminateMain, ReadyShutdown, ShutdownKill,
     BackoffElapsed
<1>7. CASE StopAll
  BY <1>7 DEF StopAll
<1>8. CASE StopNext
  BY <1>8 DEF StopNext
<1> QED
  BY <1>1, <1>2, <1>3, <1>4, <1>5, <1>6, <1>7, <1>8 DEF RunStep

LEMMA ConsistentStep ==
  ASSUME StaticKeys = {} \/ MaxRuns <= 1
  PROVE  LifeInv /\ OwnInv /\ RegInv /\ RegistryConsistent /\ [Next]_vars => RegistryConsistent'
<1> SUFFICES ASSUME LifeInv, OwnInv, RegInv, RegistryConsistent, [Next]_vars
             PROVE  RegistryConsistent'
  OBVIOUS
<1> USE DEF LifeInv, OwnInv
<1>1. CASE RunStep
  BY <1>1, ConsistentRun
<1>2. ASSUME NEW c \in Calls, Goroutine(c) PROVE RegistryConsistent'
  BY <1>2, ConsistentCall DEF Goroutine
<1>3. UNCHANGED <<backends, dynamic, addr>> => RegistryConsistent'
  BY DEF RegistryConsistent
<1>4. CASE Start \/ Cancel \/ UNCHANGED vars \/ Host \/ StopStep(Main)
  BY <1>3, <1>4 DEF Start, Cancel, Host, StopStep, StopTerm, StopKill, StopDone, vars, dynVars,
                    registryVars
<1>5. ASSUME NEW c \in Calls, NEW k \in Keys, NEW op \in {"add", "remove"}, Invoke(c, k, op)
      PROVE  RegistryConsistent'
  BY <1>3, <1>5 DEF Invoke, registryVars
<1> QED
  BY <1>1, <1>2, <1>4, <1>5 DEF Next, Runner

\* What BackendDialAddress answers for a dynamic backend is the address of the child
\* the registry would retire with it: in the dynamic-only mode over any number of
\* Starts, with configured backends within one run.
THEOREM RegistrySafe ==
  ASSUME StaticKeys = {} \/ MaxRuns <= 1
  PROVE  Spec => []RegistryConsistent
<1>1. Init => RegistryConsistent
  BY DEF Init, DynInit, RegistryConsistent
<1> QED
  BY <1>1, RegInvariant, ConsistentStep, PTL DEF Spec

-----------------------------------------------------------------------------
(***************************************************************************)
(* No child is forgotten, within one run in which cmd.Start does not fail. *)
(* Both conditions are needed: the cleanup after a failed cmd.Start drops  *)
(* the adding marker of another add of the same backend, and an add that   *)
(* outlives its run has lost its marker to stopDynamicBackends.            *)
(***************************************************************************)
KeptInv == Exclusive /\ Kept

LEMMA ExclusiveCall ==
  ASSUME ~SpawnMayFail, TypeInv, RegInv, Exclusive, NEW c \in Calls, Goroutine(c)
  PROVE  Exclusive'
<1> USE DynamicBackendsAssumption
    DEF TypeInv, DynType, DynTypeOK, KeyKnown, RegInv, Registered, Phase, Exclusive, PreStart,
        Starting, Goroutine, registryVars, runVars
<1>1. CASE AddClaim(c) \/ AddReserveFails(c) \/ AddConfig(c)
  BY <1>1 DEF AddClaim, Duplicate, AddReserveFails, AddConfig
<1>2. CASE AddReserve(c)
  BY <1>2 DEF AddReserve
<1>3. CASE AddStart(c)
  BY <1>3 DEF AddStart, Spawn
<1>4. CASE AddDial(c) \/ AddDialed(c) \/ AddNotReady(c)
  BY <1>4 DEF AddDial, AddStep, AddDialed, AddGiveUp, AddNotReady
<1>5. CASE AddInodes(c) \/ AddFds(c)
  BY <1>5 DEF AddInodes, AddStep, AddGiveUp, AddFds, FdsUnreadable
<1>6. CASE AddPublish(c)
  BY <1>6 DEF AddPublish
<1>7. CASE AddRefused(c) \/ AddUnpend(c)
  BY <1>7 DEF AddRefused, AddUnpend
<1>8. CASE AddRelease(c) \/ AddCleanup(c)
  BY <1>8 DEF AddRelease, Return, AddCleanup
<1>9. CASE RemoveClaim(c) \/ RemoveReturn(c)
  BY <1>9 DEF RemoveClaim, RemoveReturn, AddStep
<1>10. CASE StopTerm(c) \/ StopKill(c) \/ StopDone(c)
  BY <1>10 DEF StopTerm, StopKill, StopDone, Return
<1>11. CASE Watcher(c)
  BY <1>11 DEF Watcher
<1> QED
  BY <1>1, <1>2, <1>3, <1>4, <1>5, <1>6, <1>7, <1>8, <1>9, <1>10, <1>11 DEF
     CallNext, AddNext, StopStep

LEMMA ExclusiveRun ==
  ASSUME TypeInv, RegInv, Exclusive, RunStep
  PROVE  Exclusive'
<1> USE DynamicBackendsAssumption
    DEF TypeInv, DynType, DynTypeOK, KeyKnown, Exclusive, PreStart, callVars, dynVars, registryVars
<1>1. CASE BootFails \/ MainDial \/ CrashedStop \/ Joined \/ AfterAttempt \/
            BackoffCancelled \/ StopAllDone
  BY <1>1 DEF BootFails, Go, MainDial, CrashedStop, Joined, AfterAttempt,
     BackoffCancelled, StopAllDone
<1>2. CASE BootDynamic \/ ServeEnds \/ RunReturns \/ MainReady
  BY <1>2 DEF BootDynamic, ServeEnds, RunReturns, MainReady
<1>3. CASE BootStatic
  BY <1>3 DEF BootStatic
<1>4. CASE SpawnMain
  BY <1>4 DEF SpawnMain, Spawn
<1>5. CASE MainNotReady \/ MainCrashed \/ MainExited \/ ShutdownDone
  BY <1>5 DEF MainNotReady, Unhealthy, MainCrashed, MainExited, ShutdownDone
<1>6. CASE NotReadyStop \/ ReadyShutdown \/ ShutdownKill \/ BackoffElapsed
  BY <1>6 DEF NotReadyStop, Go, TerminateMain, ReadyShutdown, ShutdownKill,
     BackoffElapsed
<1>7. CASE StopAll
  BY <1>7 DEF StopAll
<1>8. CASE StopNext
  BY <1>8 DEF StopNext
<1> QED
  BY <1>1, <1>2, <1>3, <1>4, <1>5, <1>6, <1>7, <1>8 DEF RunStep

LEMMA KeptCall ==
  ASSUME TypeInv, ChildLife, Placed, RegInv, Exclusive, Kept, NEW c \in Calls, Goroutine(c)
  PROVE  Kept'
<1> USE DynamicBackendsAssumption
    DEF TypeInv, DynType, DynTypeOK, KernelTypeOK, KeyKnown, ChildLife, Unborn, Placed, RegInv,
        Registered, Exclusive, Kept, Running, Goroutine, registryVars, kernelVars, stopVars, runVars
<1>1. CASE AddClaim(c) \/ AddReserveFails(c) \/ AddConfig(c)
  BY <1>1 DEF AddClaim, Duplicate, AddReserveFails, AddConfig
<1>2. CASE AddReserve(c)
  BY <1>2 DEF AddReserve
<1>3. CASE AddStart(c)
  BY <1>3 DEF AddStart, Spawn
<1>4. CASE AddDial(c) \/ AddDialed(c) \/ AddNotReady(c)
  BY <1>4 DEF AddDial, AddStep, AddDialed, AddGiveUp, AddNotReady
<1>5. CASE AddInodes(c) \/ AddFds(c)
  BY <1>5 DEF AddInodes, AddStep, AddGiveUp, AddFds, FdsUnreadable
<1>6. CASE AddPublish(c)
  BY <1>6 DEF AddPublish
<1>7. CASE AddRefused(c) \/ AddUnpend(c)
  BY <1>7 DEF AddRefused, AddUnpend
<1>8. CASE AddRelease(c) \/ AddCleanup(c)
  BY <1>8 DEF AddRelease, Return, AddCleanup
<1>9. CASE RemoveClaim(c) \/ RemoveReturn(c)
  BY <1>9 DEF RemoveClaim, RemoveReturn, AddStep
<1>10. CASE StopTerm(c) \/ StopKill(c) \/ StopDone(c)
  BY <1>10 DEF StopTerm, StopKill, StopDone, Return
<1>11. CASE Watcher(c)
  BY <1>11 DEF Watcher
<1> QED
  BY <1>1, <1>2, <1>3, <1>4, <1>5, <1>6, <1>7, <1>8, <1>9, <1>10, <1>11 DEF
     CallNext, AddNext, StopStep

LEMMA KeptRun ==
  ASSUME TypeInv, RegInv, Kept, RunStep
  PROVE  Kept'
<1> USE DynamicBackendsAssumption
    DEF TypeInv, DynType, DynTypeOK, KernelTypeOK, KeyKnown, RegInv, Phase, Kept, Running,
        callVars, dynVars,
        registryVars, kernelVars, stopVars
<1>1. CASE BootFails \/ MainDial \/ CrashedStop \/ Joined \/ AfterAttempt \/
            BackoffCancelled \/ StopAllDone
  BY <1>1 DEF BootFails, Go, MainDial, CrashedStop, Joined, AfterAttempt,
     BackoffCancelled, StopAllDone
<1>2. CASE BootDynamic \/ ServeEnds \/ RunReturns \/ MainReady
  BY <1>2 DEF BootDynamic, ServeEnds, RunReturns, MainReady
<1>3. CASE BootStatic
  BY <1>3 DEF BootStatic
<1>4. CASE SpawnMain
  BY <1>4 DEF SpawnMain, Spawn
<1>5. CASE MainNotReady \/ MainCrashed \/ MainExited \/ ShutdownDone
  BY <1>5 DEF MainNotReady, Unhealthy, MainCrashed, MainExited, ShutdownDone
<1>6. CASE NotReadyStop \/ ReadyShutdown \/ ShutdownKill \/ BackoffElapsed
  BY <1>6 DEF NotReadyStop, Go, TerminateMain, ReadyShutdown, ShutdownKill,
     BackoffElapsed
<1>7. CASE StopAll
  BY <1>7 DEF StopAll
<1>8. CASE StopNext
  BY <1>8 DEF StopNext
<1> QED
  BY <1>1, <1>2, <1>3, <1>4, <1>5, <1>6, <1>7, <1>8 DEF RunStep

LEMMA KeptStart ==
  ASSUME MaxRuns <= 1, TypeInv, RegInv, KeptInv, Start \/ Cancel \/ UNCHANGED vars
  PROVE  KeptInv'
<1> USE DEF KeptInv, vars, kernelVars, dynVars, registryVars, stopVars, runVars
<1>1. Kept'
  BY DEF Start, Cancel, Kept, Running
<1>2. CASE Start
  <2>1. runs = 0
    BY <1>2, SubprocessRunnerAssumption DEF Start, TypeInv, RunTypeOK
  <2>2. \A c \in Calls : pc[c] \notin PreStart
    BY <2>1 DEF RegInv, Unused, PreStart
  <2> QED
    BY <1>1, <1>2, <2>2 DEF Start, Exclusive
<1>3. CASE Cancel \/ UNCHANGED vars
  BY <1>1, <1>3 DEF Cancel, Exclusive
<1> QED
  BY <1>2, <1>3

LEMMA KeptOther ==
  ASSUME TypeInv, KeptInv, Host \/ (StopStep(Main) /\ UNCHANGED runVars)
  PROVE  KeptInv'
<1> USE DynamicBackendsAssumption
    DEF TypeInv, KernelTypeOK, DynType, DynTypeOK, KeptInv, dynVars, registryVars, stopVars,
        kernelVars, runVars
<1>1. Exclusive'
  BY DEF Host, StopStep, StopTerm, StopKill, StopDone, Exclusive
<1>2. CASE Host
  <2>1. \A c \in Calls : Running(c)' => Running(c)
    BY <1>2 DEF Host, HostStep, ChildBind, ChildExit, Reap, ForeignBind, ForeignClose, Running
  <2> QED
    BY <1>1, <1>2, <2>1 DEF Host, Kept
<1>3. CASE StopStep(Main) /\ UNCHANGED runVars
  BY <1>1, <1>3 DEF StopStep, StopTerm, StopKill, StopDone, Kept, Running
<1> QED
  BY <1>2, <1>3

LEMMA KeptInvoke ==
  ASSUME TypeInv, Placed, RegInv, KeptInv, NEW c \in Calls, NEW k \in Keys,
         NEW op \in {"add", "remove"}, Invoke(c, k, op), UNCHANGED runVars
  PROVE  KeptInv'
  BY DynamicBackendsAssumption
  DEF TypeInv, DynType, DynTypeOK, Invoke, KeptInv, Exclusive, PreStart, Kept, Running,
      registryVars, stopVars, kernelVars, runVars

LEMMA KeptStep ==
  ASSUME MaxRuns <= 1, ~SpawnMayFail
  PROVE  LifeInv /\ OwnInv /\ RegInv /\ KeptInv /\ [Next]_vars => KeptInv'
<1> SUFFICES ASSUME LifeInv, OwnInv, RegInv, KeptInv, [Next]_vars PROVE KeptInv'
  OBVIOUS
<1> USE DEF LifeInv, OwnInv
<1>1. CASE Start \/ Cancel \/ UNCHANGED vars
  BY <1>1, KeptStart
<1>2. CASE RunStep
  BY <1>2, ExclusiveRun, KeptRun DEF KeptInv
<1>3. CASE Host \/ (StopStep(Main) /\ UNCHANGED runVars)
  BY <1>3, KeptOther
<1>4. ASSUME NEW c \in Calls, Goroutine(c) PROVE KeptInv'
  BY <1>4, ExclusiveCall, KeptCall DEF KeptInv
<1>5. ASSUME NEW c \in Calls, NEW k \in Keys, NEW op \in {"add", "remove"},
             Invoke(c, k, op), UNCHANGED runVars
      PROVE  KeptInv'
  BY <1>5, KeptInvoke
<1> QED
  BY <1>1, <1>2, <1>3, <1>4, <1>5 DEF Next, Runner

LEMMA KeptInvariant ==
  ASSUME MaxRuns <= 1, ~SpawnMayFail
  PROVE  Spec => [](LifeInv /\ OwnInv /\ RegInv /\ KeptInv)
<1>1. Init => KeptInv
  BY DynamicBackendsAssumption
  DEF Init, DynInit, KernelInit, KeptInv, Exclusive, PreStart, Kept
<1> QED
  BY <1>1, RegInvariant, KeptStep, PTL DEF Spec

\* Where the add of a running child is.
LEMMA RunningAt ==
  ASSUME LifeInv, NEW c \in Calls, Running(c)
  PROVE  pc[c] \in Starting \/ pc[c] = "added" \/ (pc[c] = "stopping" /\ victim[c] = c)
  BY DEF LifeInv, TypeInv, DynType, DynTypeOK, CallPC, Returned, ChildLife, Unborn, Running

LEMMA NothingForgotten == LifeInv /\ KeptInv => NoOrphan
<1> SUFFICES ASSUME LifeInv, KeptInv, NEW c \in Calls, Running(c)
             PROVE  dynamic[key[c]] = c \/ pending[key[c]] = c \/ BeingStopped(c)
  BY DEF NoOrphan
<1>1. CASE pc[c] = "added"
  BY <1>1 DEF KeptInv, Kept, BeingStopped
<1>2. CASE pc[c] \in Starting \/ victim[c] = c
  BY <1>2, DynamicBackendsAssumption DEF BeingStopped
<1> QED
  BY <1>1, <1>2, RunningAt

\* Within one run in which cmd.Start does not fail, every child that has not been
\* waited for is registered or somebody is stopping it, however the adds and
\* removes of a backend, its child's exit and the shutdown overlap.
THEOREM NoChildForgotten ==
  ASSUME MaxRuns <= 1, ~SpawnMayFail
  PROVE  Spec => []NoOrphan
  BY KeptInvariant, NothingForgotten, PTL

\* When run of the dynamic-only mode has returned, nothing is published and every
\* child still running is being stopped by the call that started or removed it.
THEOREM RunnerLeavesNothing ==
  ASSUME MaxRuns <= 1, ~SpawnMayFail, StaticKeys = {}
  PROVE  Spec => []NothingOutlivesRunner
<1>1. LifeInv /\ RegInv /\ KeptInv => NothingOutlivesRunner
  <2> SUFFICES ASSUME LifeInv, RegInv, KeptInv, rpc = "idle"
               PROVE  /\ ~healthy
                      /\ ~Running(Main)
                      /\ \A k \in Keys : dynamic[k] = None
                      /\ \A c \in Calls : Running(c) => BeingStopped(c)
    BY DEF NothingOutlivesRunner
  <2>1. ~healthy
    BY DEF RegInv, Phase
  <2>2. ~Running(Main) /\ \A k \in Keys : dynamic[k] = None /\ pending[k] = None
    BY DEF RegInv, DynamicOnly, Running
  <2>3. ASSUME NEW c \in Calls, Running(c) PROVE BeingStopped(c)
    <3>1. key[c] \in Keys
      BY <2>3, RunningAt DEF LifeInv, TypeInv, DynType, KeyKnown, Starting
    <3> QED
      BY <2>2, <2>3, <3>1, NothingForgotten, DynamicBackendsAssumption DEF NoOrphan
  <2> QED
    BY <2>1, <2>2, <2>3
<1> QED
  BY KeptInvariant, <1>1, PTL

-----------------------------------------------------------------------------
(***************************************************************************)
(* The addresses of the static runtime, for one run. A second run chooses  *)
(* them anew, while a child that an add of the first run started may still *)
(* be on its way to one of them.                                           *)
(***************************************************************************)
\* Until run has chosen the static addresses nothing else has happened; it
\* chooses them once.
ChosenOnce ==
    /\ \A k \in StaticKeys : /\ backends[k] \in StaticAddrs \cup {None}
                             /\ dynamic[k] = None
    /\ (\E k \in StaticKeys : backends[k] = None) =>
          /\ rpc \in {"idle", "boot", "return"} /\ ~ready
          /\ \A c \in Calls : pc[c] = "idle" /\ addr[c] = None
    /\ runs = 0 \/ rpc = "boot" => \A k \in Keys : backends[k] = None

\* No add gets as far as claiming a static backend, and none is given a static
\* address: while the runtime is down the address is free, but it has an owner.
KeptApart ==
    /\ \A c \in Calls :
          pc[c] \notin {"idle", "add", "remove", "failed"} => key[c] \notin StaticKeys
    /\ \A k \in StaticKeys, c \in Calls : addr[c] # None => addr[c] # backends[k]
    /\ \A k \in StaticKeys, j \in Keys \ StaticKeys :
          backends[j] # None => backends[j] # backends[k]

\* A static address is the static runtime's or free, and it is the runtime's
\* from the dial on, as long as the runtime lives.
Answered ==
    \A k \in StaticKeys : backends[k] # None =>
        /\ listener[backends[k]] \in {Main, Free}
        /\ rpc \in {"dialed", "ready"} /\ proc[Main] = "up"
             => listener[backends[k]] = Main

StaticInv == ChosenOnce /\ KeptApart /\ Answered


LEMMA StaticCall ==
  ASSUME MaxRuns <= 1, TypeInv, Unused, StaticInv, NEW c \in Calls, Goroutine(c)
  PROVE  StaticInv'
<1> USE DynamicBackendsAssumption
    DEF TypeInv, KernelTypeOK, DynType, DynTypeOK, KeyKnown, StaticInv, ChosenOnce, KeptApart,
        Answered, Starting, Goroutine, kernelVars, registryVars, runVars, loopVars
<1>1. CASE AddClaim(c) \/ AddReserveFails(c) \/ AddConfig(c)
  BY <1>1 DEF AddClaim, Duplicate, AddReserveFails, AddConfig
<1>2. CASE AddReserve(c)
  <2>1. PICK a \in DynAddrs : /\ AddressOwners(a) = {} \/ key[c] \in AddressOwners(a)
                              /\ addr' = [addr EXCEPT ![c] = a]
    BY <1>2 DEF AddReserve
  <2>2. ASSUME NEW k \in StaticKeys PROVE a # backends[k]
    BY <1>2, <2>1, SubprocessRunnerAssumption DEF AddReserve, AddressOwners
  <2> QED
    BY <1>2, <2>1, <2>2 DEF AddReserve
<1>3. CASE AddStart(c)
  BY <1>3 DEF AddStart, Spawn
<1>4. CASE AddDial(c) \/ AddDialed(c) \/ AddNotReady(c)
  BY <1>4 DEF AddDial, AddStep, AddDialed, AddGiveUp, AddNotReady
<1>5. CASE AddInodes(c) \/ AddFds(c)
  BY <1>5 DEF AddInodes, AddStep, AddGiveUp, AddFds, FdsUnreadable
<1>6. CASE AddPublish(c)
  <2>1. ~(runs = 0 \/ rpc = "boot")
    BY <1>6, SubprocessRunnerAssumption DEF AddPublish, Unused, RunTypeOK
  <2>2. /\ key[c] \in Keys \ StaticKeys
        /\ backends' = [backends EXCEPT ![key[c]] = addr[c]]
        /\ dynamic' = [dynamic EXCEPT ![key[c]] = c]
        /\ UNCHANGED <<addr, key, listener, proc, ready>>
        /\ pc' = [pc EXCEPT ![c] = "added"]
    BY <1>6 DEF AddPublish
  <2>3. ChosenOnce'
    BY <1>6, <2>1, <2>2, SubprocessRunnerAssumption DEF AddPublish
  <2>4. KeptApart'
    BY <2>2, SubprocessRunnerAssumption
  <2>5. Answered'
    BY <2>2, SubprocessRunnerAssumption
  <2> QED
    BY <2>3, <2>4, <2>5
<1>7. CASE AddRefused(c) \/ AddUnpend(c)
  BY <1>7 DEF AddRefused, AddUnpend
<1>8. CASE AddRelease(c) \/ AddCleanup(c)
  BY <1>8 DEF AddRelease, Return, AddCleanup
<1>9. CASE RemoveClaim(c)
  <2>1. /\ \A k \in StaticKeys : backends'[k] = backends[k] /\ dynamic'[k] = None
        /\ \A k \in Keys : backends'[k] \in {backends[k], None}
        /\ UNCHANGED <<addr, key, listener, proc, ready>>
    BY <1>9, SubprocessRunnerAssumption DEF RemoveClaim
  <2>2. pc[c] = "remove" /\ \A d \in Calls : d # c => pc'[d] = pc[d]
    BY <1>9 DEF RemoveClaim
  <2>3. pc'[c] = "failed" \/ (pc'[c] = "removing" /\ key[c] \notin StaticKeys)
    BY <1>9 DEF RemoveClaim
  <2> QED
    BY <2>1, <2>2, <2>3, SubprocessRunnerAssumption
<1>12. CASE RemoveReturn(c)
  BY <1>12 DEF RemoveReturn, AddStep
<1>10. CASE StopTerm(c) \/ StopKill(c) \/ StopDone(c)
  BY <1>10 DEF StopTerm, StopKill, StopDone, Return
<1>11. CASE Watcher(c)
  <2>1. /\ \A k \in StaticKeys : backends'[k] = backends[k] /\ dynamic'[k] = None
        /\ \A k \in Keys : backends'[k] \in {backends[k], None}
        /\ UNCHANGED <<addr, key, pc, listener, proc, ready>>
    BY <1>11, SubprocessRunnerAssumption DEF Watcher
  <2> QED
    BY <2>1, SubprocessRunnerAssumption
<1> QED
  BY <1>1, <1>2, <1>3, <1>4, <1>5, <1>6, <1>7, <1>8, <1>9, <1>10, <1>11, <1>12 DEF
     CallNext, AddNext, StopStep


LEMMA StaticRun ==
  ASSUME TypeInv, Phase, Unused, StaticInv, MaxRuns <= 1, RunStep
  PROVE  StaticInv'
<1> USE DynamicBackendsAssumption, SubprocessRunnerAssumption
    DEF TypeInv, KernelTypeOK, DynType, DynTypeOK, RunTypeOK, Phase, StaticInv, ChosenOnce,
        KeptApart, Answered, callVars, dynVars, kernelVars, registryVars, loopVars
<1>1. CASE BootFails \/ CrashedStop \/ Joined \/ AfterAttempt \/ BackoffCancelled \/ StopAllDone
  BY <1>1 DEF BootFails, Go, CrashedStop, Joined, AfterAttempt, BackoffCancelled, StopAllDone
<1>2. CASE MainDial
  BY <1>2 DEF MainDial, Go
<1>3. CASE BootDynamic \/ ServeEnds \/ RunReturns \/ MainReady
  BY <1>3 DEF BootDynamic, ServeEnds, RunReturns, MainReady
<1>4. CASE BootStatic
  <2>1. runs = 1 /\ \A c \in Calls : pc[c] = "idle"
    BY <1>4 DEF BootStatic, Unused
  <2> QED
    BY <1>4, <2>1 DEF BootStatic
<1>5. CASE SpawnMain
  BY <1>5 DEF SpawnMain, Spawn
<1>6. CASE MainNotReady \/ MainCrashed \/ MainExited \/ ShutdownDone
  BY <1>6 DEF MainNotReady, Unhealthy, MainCrashed, MainExited, ShutdownDone
<1>7. CASE NotReadyStop \/ ReadyShutdown \/ ShutdownKill \/ BackoffElapsed
  BY <1>7 DEF NotReadyStop, Go, TerminateMain, ReadyShutdown, ShutdownKill,
     BackoffElapsed
<1>8. CASE StopAll
  <2>1. /\ \A k \in StaticKeys : backends'[k] = backends[k] /\ dynamic'[k] = None
        /\ \A k \in Keys : backends'[k] \in {backends[k], None}
        /\ rpc = "stopall" /\ rpc' = "stopping"
        /\ UNCHANGED <<addr, key, pc, listener, proc, ready, runs>>
    BY <1>8 DEF StopAll
  <2> QED
    BY <2>1
<1>9. CASE StopNext
  BY <1>9 DEF StopNext
<1> QED
  BY <1>1, <1>2, <1>3, <1>4, <1>5, <1>6, <1>7, <1>8, <1>9 DEF RunStep


LEMMA StaticOther ==
  ASSUME TypeInv, StaticInv, MaxRuns <= 1,
         Start \/ Cancel \/ UNCHANGED vars \/ (StopStep(Main) /\ UNCHANGED runVars)
  PROVE  StaticInv'
<1> USE DynamicBackendsAssumption, SubprocessRunnerAssumption
    DEF TypeInv, RunTypeOK, StaticInv, ChosenOnce, KeptApart, Answered, vars, dynVars, kernelVars,
        registryVars, runVars, loopVars
<1>1. CASE Start
  BY <1>1 DEF Start
<1>2. CASE Cancel \/ UNCHANGED vars
  BY <1>2 DEF Cancel
<1>3. CASE StopStep(Main) /\ UNCHANGED runVars
  BY <1>3 DEF StopStep, StopTerm, StopKill, StopDone
<1> QED
  BY <1>1, <1>2, <1>3

LEMMA StaticHost ==
  ASSUME TypeInv, StaticInv, StaticAddrs \cap ForeignAddrs = {}, Host
  PROVE  StaticInv'
<1> USE LoopbackAssumption, DynamicBackendsAssumption, SubprocessRunnerAssumption
<1>1. ChosenOnce' /\ KeptApart'
  BY DEF Host, StaticInv, ChosenOnce, KeptApart, dynVars, registryVars, runVars, loopVars
<1>2. Answered'
  <2> USE DEF TypeInv, KernelTypeOK, DynType, DynTypeOK, StaticInv, ChosenOnce, KeptApart,
              Answered, Host, dynVars, registryVars, runVars
  <2>1. ASSUME NEW p \in Procs, NEW a \in BindsOf(p), ChildBind(p, a) PROVE Answered'
    BY <2>1 DEF ChildBind, BindsOf
  <2>2. ASSUME NEW p \in Procs, ChildExit(p) PROVE Answered'
    BY <2>2 DEF ChildExit
  <2>3. ASSUME NEW p \in Procs, Reap(p) PROVE Answered'
    BY <2>3 DEF Reap
  <2>4. ASSUME NEW a \in ForeignAddrs, ForeignBind(a) \/ ForeignClose(a) PROVE Answered'
    BY <2>4 DEF ForeignBind, ForeignClose
  <2> QED
    BY <2>1, <2>2, <2>3, <2>4 DEF HostStep
<1> QED
  BY <1>1, <1>2 DEF StaticInv

LEMMA StaticStep ==
  ASSUME MaxRuns <= 1, StaticAddrs \cap ForeignAddrs = {}
  PROVE  LifeInv /\ OwnInv /\ RegInv /\ StaticInv /\ [Next]_vars => StaticInv'
<1> SUFFICES ASSUME LifeInv, OwnInv, RegInv, StaticInv, [Next]_vars PROVE StaticInv'
  OBVIOUS
<1> USE DEF LifeInv, RegInv
<1>1. ASSUME NEW c \in Calls, NEW k \in Keys, NEW op \in {"add", "remove"},
             Invoke(c, k, op), UNCHANGED runVars
      PROVE  StaticInv'
  BY <1>1, DynamicBackendsAssumption
  DEF Invoke, TypeInv, DynType, DynTypeOK, StaticInv, ChosenOnce, KeptApart, Answered,
      kernelVars, registryVars, runVars, loopVars
<1>2. ASSUME NEW c \in Calls, Goroutine(c) PROVE StaticInv'
  BY <1>2, StaticCall
<1> QED
  BY <1>1, <1>2, StaticRun, StaticOther, StaticHost DEF Next, Runner

\* A static address stays with the static runtime through its crashes and
\* restarts: addressOwnerLocked keeps dynamic backends off it while it is free.
\* Two things are assumed: no other process of the host takes it, and the
\* Server is started once.
THEOREM StaticSafe ==
  ASSUME MaxRuns <= 1, StaticAddrs \cap ForeignAddrs = {}
  PROVE  Spec => []StaticOwned
<1>1. Init => StaticInv
  BY DynamicBackendsAssumption, SubprocessRunnerAssumption
  DEF Init, DynInit, StaticInv, ChosenOnce, KeptApart, Answered
<1>2. LifeInv /\ OwnInv /\ RegInv /\ StaticInv => StaticOwned
  <2> SUFFICES ASSUME LifeInv, StaticInv, NEW k \in StaticKeys
               PROVE  /\ \A c \in Calls : Running(c) => addr[c] # backends[k]
                      /\ rpc = "ready" /\ proc[Main] = "up" => listener[backends[k]] = Main
    BY DEF StaticOwned
  <2>1. ASSUME NEW c \in Calls, Running(c) PROVE addr[c] # backends[k]
    <3>1. pc[c] # "idle"
      BY <2>1, RunningAt DEF Starting
    <3>2. backends[k] # None
      BY <3>1 DEF StaticInv, ChosenOnce
    <3> QED
      BY <3>2 DEF StaticInv, KeptApart
  <2>2. rpc = "ready" /\ proc[Main] = "up" => listener[backends[k]] = Main
    BY DEF StaticInv, ChosenOnce, Answered
  <2> QED
    BY <2>1, <2>2
<1> QED
  BY <1>1, <1>2, StaticStep, RegInvariant, PTL DEF Spec

=============================================================================
