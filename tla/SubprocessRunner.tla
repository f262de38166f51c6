-------------------------- MODULE SubprocessRunner --------------------------
(***************************************************************************)
(* go/subprocess.go as a whole: the run loop that supervises the static    *)
(* runtime (start, readiness, restart with backoff, shutdown), composed    *)
(* with the dynamic backends and with the host.                            *)
(*                                                                         *)
(* The run loop is called again by a later Server.Start on the same        *)
(* runner, whose maps survive; calls made under an earlier run may still   *)
(* be in flight then. With StaticKeys = {} the runner is in its dynamic    *)
(* only mode (Options.AllowDynamicBackends without Backends).              *)
(***************************************************************************)
EXTENDS DynamicBackends, Integers

CONSTANTS
    StaticKeys,   \* the backends of Options.Backends
    StaticAddrs,  \* addresses concreteLoopbackBind may return for them
    MaxRetries,   \* RestartPolicy.MaxRetries, negative for no limit
    MinBackoff,   \* RestartPolicy.MinBackoff, which nobody compares with
    MaxBackoff,   \* RestartPolicy.MaxBackoff or with 0
    MaxRuns       \* bound: how often Server.Start is called

ASSUME SubprocessRunnerAssumption ==
    /\ StaticKeys \subseteq Keys
    /\ StaticAddrs \subseteq Addrs
    /\ MaxRetries \in Int
    /\ MinBackoff \in Int /\ MaxBackoff \in Int
    /\ MaxRuns \in Nat

VARIABLES
    rpc,          \* where the run goroutine is
    runs,         \* calls of run so far
    attempt,      \* restarts of the static runtime in this run
    backoff,      \* how long the next restart waits
    ctxDone,      \* the context of this run is cancelled
    victims       \* children stopDynamicBackends still has to stop

loopVars == <<runs, attempt, backoff>>
runVars == <<rpc, loopVars, ctxDone, victims>>
vars == <<kernelVars, dynVars, runVars>>

RunPC == {"idle", "boot", "serve", "spawn", "waitready", "dialed", "ready",
          "notready", "crashed", "joining", "shutdown", "killed", "after",
          "backoff", "stopall", "stopping", "return"}

RunTypeOK ==
    /\ rpc \in RunPC
    /\ runs \in 0 .. MaxRuns
    /\ attempt \in Nat
    /\ backoff \in Int
    /\ backoff = MinBackoff \/ backoff <= MaxBackoff
    /\ attempt > 0 => backoff <= MaxBackoff
    /\ ctxDone \in BOOLEAN
    /\ victims \in SUBSET Calls

\* Type invariant of the composed runner. The first wait of a run is MinBackoff as
\* it was configured; only the later ones are held to MaxBackoff.
TypeOK == KernelTypeOK /\ DynTypeOK /\ RunTypeOK

Init ==
    /\ KernelInit
    /\ DynInit
    /\ rpc = "idle"
    /\ runs = 0
    /\ attempt = 0
    /\ backoff = MinBackoff
    /\ ctxDone = FALSE
    /\ victims = {}

-----------------------------------------------------------------------------
(***************************************************************************)
(* Beginning and end of run, called by Server.Start.                       *)
(***************************************************************************)
\* What a step of the run goroutine leaves alone unless it says otherwise.
callVars == <<lease, watch, pc, key, addr>>

Start ==
    /\ rpc = "idle"
    /\ runs < MaxRuns
    /\ runs' = runs + 1
    /\ rpc' = "boot"
    /\ ctxDone' = FALSE
    /\ UNCHANGED <<kernelVars, dynVars, attempt, backoff, victims>>

\* Server.Stop, or the end of the caller's context.
Cancel ==
    /\ rpc # "idle"
    /\ ~ctxDone
    /\ ctxDone' = TRUE
    /\ UNCHANGED <<kernelVars, dynVars, rpc, loopVars, victims>>

Go(to) ==
    /\ rpc' = to
    /\ UNCHANGED <<kernelVars, dynVars, loopVars, ctxDone, victims>>

\* locateBinary, the address allocation or the config file failed.
BootFails == rpc = "boot" /\ Go("return")

BootDynamic ==
    /\ rpc = "boot" /\ StaticKeys = {}
    /\ healthy' = TRUE
    /\ ready' = TRUE
    /\ rpc' = "serve"
    /\ UNCHANGED <<kernelVars, registryVars, configs, callVars, stopVars,
                   loopVars, ctxDone, victims>>

ServeEnds ==
    /\ rpc = "serve" /\ ctxDone
    /\ healthy' = FALSE
    /\ rpc' = "stopall"
    /\ UNCHANGED <<kernelVars, ready, registryVars, configs, callVars,
                   stopVars, loopVars, ctxDone, victims>>

\* Each static backend gets an address that could be bound a moment ago.
BootStatic ==
    /\ rpc = "boot" /\ StaticKeys # {}
    /\ \E bound \in [StaticKeys -> {a \in StaticAddrs : listener[a] = Free}] :
          backends' = [k \in Keys |-> IF k \in StaticKeys THEN bound[k] ELSE None]
    /\ configs' = configs \cup {Main}
    /\ attempt' = 0
    /\ backoff' = MinBackoff
    /\ rpc' = "spawn"
    /\ UNCHANGED <<kernelVars, healthy, ready, dynamic, pending, adding,
                   reserving, callVars, stopVars, runs, ctxDone, victims>>

\* run returns: the deferred removal of the config, then Start's epilogue.
RunReturns ==
    /\ rpc = "return"
    /\ configs' = configs \ {Main}
    /\ ready' = FALSE
    /\ rpc' = "idle"
    /\ UNCHANGED <<kernelVars, healthy, registryVars, callVars, stopVars,
                   loopVars, ctxDone, victims>>

(***************************************************************************)
(* One attempt of the static runtime.                                      *)
(***************************************************************************)
SpawnMain ==
    /\ rpc = "spawn"
    /\ \/ /\ Spawn(Main)
          /\ healthy' = TRUE
          /\ rpc' = "waitready"
       \/ /\ SpawnMayFail
          /\ rpc' = "return"
          /\ UNCHANGED <<proc, sig, healthy>>
    /\ UNCHANGED <<listener, ready, registryVars, configs, callVars, stopVars,
                   loopVars, ctxDone, victims>>

\* waitBackendListeners: every static listener answers the dial; then the
\* child must not have been waited for yet.
MainDial ==
    /\ rpc = "waitready"
    /\ \A k \in StaticKeys : listener[backends[k]] # Free
    /\ Go("dialed")

MainReady ==
    /\ rpc = "dialed"
    /\ proc[Main] # "gone"
    /\ ready' = TRUE
    /\ rpc' = "ready"
    /\ UNCHANGED <<kernelVars, healthy, registryVars, configs, callVars,
                   stopVars, loopVars, ctxDone, victims>>

Unhealthy(to) ==
    /\ healthy' = FALSE
    /\ rpc' = to
    /\ UNCHANGED <<kernelVars, ready, registryVars, configs, callVars,
                   stopVars, loopVars, ctxDone, victims>>

\* The deadline passed or the context ended, or the child is gone.
MainNotReady == rpc = "waitready" /\ Unhealthy("notready")
MainCrashed ==
    /\ rpc \in {"waitready", "dialed"}
    /\ proc[Main] = "gone"
    /\ Unhealthy("crashed")

TerminateMain(from, to) ==
    /\ rpc = from
    /\ Terminate(Main)
    /\ rpc' = to
    /\ UNCHANGED <<listener, proc, dynVars, loopVars, ctxDone, victims>>

\* The attempt failed before it was ready. With a cancelled context the child
\* is joined by waitProcess; without, it is signalled and waited for.
NotReadyStop ==
    \/ ctxDone /\ rpc = "notready" /\ proc[Main] = "gone" /\ Go("stopall")
    \/ ctxDone /\ TerminateMain("notready", "shutdown")
    \/ ~ctxDone /\ TerminateMain("notready", "joining")
CrashedStop ==
    rpc = "crashed" /\ Go(IF ctxDone THEN "stopall" ELSE "after")
Joined == rpc = "joining" /\ proc[Main] = "gone" /\ Go("after")

\* waitProcess of a ready runtime: it exits by itself, cleanly or not, ...
MainExited ==
    /\ rpc = "ready"
    /\ proc[Main] = "gone"
    /\ \E to \in {"stopall", IF ctxDone THEN "stopall" ELSE "after"} :
          Unhealthy(to)

\* Mutant: waitProcess does not look at the context.
ReadyShutdown_Never == FALSE

\* ... or the context ends: SIGTERM, then SIGKILL after the shutdown timeout.
ReadyShutdown == ctxDone /\ TerminateMain("ready", "shutdown")

ShutdownKill ==
    /\ rpc = "shutdown"
    /\ proc[Main] # "gone"
    /\ Kill(Main)
    /\ rpc' = "killed"
    /\ UNCHANGED <<listener, proc, dynVars, loopVars, ctxDone, victims>>

ShutdownDone ==
    /\ rpc \in {"shutdown", "killed"}
    /\ proc[Main] = "gone"
    /\ Unhealthy("stopall")

\* The decision after a failed attempt, and the sleep before the next one.
AfterAttempt ==
    /\ rpc = "after"
    /\ Go(IF ctxDone THEN "return"
          ELSE IF MaxRetries >= 0 /\ attempt >= MaxRetries THEN "stopall"
          ELSE "backoff")

BackoffCancelled == rpc = "backoff" /\ ctxDone /\ Go("return")

\* Mutant: the backoff doubles without a limit.
BackoffElapsed_Unbounded ==
    /\ rpc = "backoff"
    /\ attempt' = IF MaxRetries < 0 THEN attempt ELSE attempt + 1
    /\ backoff' = 2 * backoff
    /\ rpc' = "spawn"
    /\ UNCHANGED <<kernelVars, dynVars, runs, ctxDone, victims>>

BackoffElapsed ==
    /\ rpc = "backoff"
    /\ attempt' = IF MaxRetries < 0 THEN attempt ELSE attempt + 1
    /\ backoff' = IF 2 * backoff > MaxBackoff THEN MaxBackoff ELSE 2 * backoff
    /\ rpc' = "spawn"
    /\ UNCHANGED <<kernelVars, dynVars, runs, ctxDone, victims>>

(***************************************************************************)
(* stopDynamicBackends: empty the registry, then stop child after child.   *)
(***************************************************************************)
\* Mutant: published children are forgotten, only pending ones are stopped.
StopAll_PendingOnly ==
    /\ rpc = "stopall"
    /\ victims' = {c \in Calls : \E k \in Keys : c = pending[k]}
    /\ dynamic' = [k \in Keys |-> None]
    /\ pending' = [k \in Keys |-> None]
    /\ backends' = [k \in Keys |-> IF dynamic[k] # None THEN None ELSE backends[k]]
    /\ adding' = {}
    /\ reserving' = [a \in Addrs |-> None]
    /\ rpc' = "stopping"
    /\ UNCHANGED <<kernelVars, healthy, ready, configs, callVars, stopVars,
                   loopVars, ctxDone>>

StopAll ==
    LET published == {k \in Keys : dynamic[k] # None}
    IN  /\ rpc = "stopall"
        /\ victims' = {c \in Calls : \E k \in Keys : c \in {dynamic[k], pending[k]}}
        /\ dynamic' = [k \in Keys |-> None]
        /\ pending' = [k \in Keys |-> None]
        /\ backends' = [k \in Keys |-> IF k \in published THEN None ELSE backends[k]]
        /\ adding' = {}
        /\ reserving' = [a \in Addrs |-> None]
        /\ rpc' = "stopping"
        /\ UNCHANGED <<kernelVars, healthy, ready, configs, callVars, stopVars,
                       loopVars, ctxDone>>

StopNext ==
    /\ rpc = "stopping"
    /\ victim[Main] = None
    /\ \E c \in victims :
          /\ victim' = [victim EXCEPT ![Main] = c]
          /\ victims' = victims \ {c}
    /\ stage' = [stage EXCEPT ![Main] = "begin"]
    /\ UNCHANGED <<kernelVars, healthy, ready, registryVars, configs,
                   callVars, rpc, loopVars, ctxDone>>

StopAllDone ==
    rpc = "stopping" /\ victims = {} /\ victim[Main] = None /\ Go("return")

-----------------------------------------------------------------------------
RunStep ==
    \/ BootFails \/ BootDynamic \/ ServeEnds \/ BootStatic \/ RunReturns
    \/ SpawnMain \/ MainDial \/ MainReady \/ MainNotReady \/ MainCrashed
    \/ NotReadyStop \/ CrashedStop \/ Joined \/ MainExited \/ ReadyShutdown
    \/ ShutdownKill \/ ShutdownDone \/ AfterAttempt \/ BackoffCancelled
    \/ BackoffElapsed \/ StopAll \/ StopNext \/ StopAllDone

\* The addresses child p was told to bind.
BindsOf(p) ==
    IF p = Main THEN {backends[k] : k \in StaticKeys} \cap Addrs ELSE {addr[p]}

\* One bound: a foreign process may take any address of ForeignAddrs.
HostStep ==
    \/ \E p \in Procs : \/ \E a \in BindsOf(p) : ChildBind(p, a)
                        \/ ChildExit(p)
                        \/ Reap(p)
    \/ \E a \in ForeignAddrs : ForeignBind(a) \/ ForeignClose(a)
Host == HostStep /\ UNCHANGED <<dynVars, runVars>>

\* The goroutines of the calls and of the published children.
Goroutine(c) == (CallNext(c) \/ Watcher(c)) /\ UNCHANGED runVars
Runner == RunStep \/ (StopStep(Main) /\ UNCHANGED runVars)

Next ==
    \/ Start \/ Cancel \/ Runner \/ Host
    \/ \E c \in Calls : Goroutine(c)
    \/ \E c \in Calls, k \in Keys, op \in {"add", "remove"} :
          Invoke(c, k, op) /\ UNCHANGED runVars

Spec == Init /\ [][Next]_vars

(***************************************************************************)
(* Fairness. Every goroutine keeps running: no step of one waits for       *)
(* anything but the mutex, a timer, or the end of a child it has           *)
(* signalled. The kernel delivers signals and lets cmd.Wait return.        *)
(* Nothing is assumed of clients, foreign processes or healthy children.   *)
(***************************************************************************)
Fairness ==
    /\ WF_vars(Runner)
    /\ \A c \in Calls : WF_vars(Goroutine(c))
    /\ \A p \in Procs :
          /\ WF_vars(Reap(p) /\ UNCHANGED <<dynVars, runVars>>)
          /\ WF_vars(DiesOfSignal(p) /\ ChildExit(p) /\ UNCHANGED <<dynVars, runVars>>)

FairSpec == Spec /\ Fairness

-----------------------------------------------------------------------------
(***************************************************************************)
(* Safety.                                                                 *)
(***************************************************************************)
\* One address is never promised to two runtimes (the reserving map, pending,
\* backends and the embedder's allocator together): no two live children were
\* told to bind the same address.
AddressPromisedOnce ==
    \A c, d \in Calls :
        c # d /\ proc[c] = "up" /\ proc[d] = "up" => addr[c] # addr[d]

\* The embedder gets its address back no earlier than the runtime stopped using
\* it (releaseAddr, stopSubprocessBackend's deferred release): a child that has
\* not been waited for, on whatever path it is being stopped, has its lease.
LeaseHeldWhileRunning ==
    UseHook => \A c \in Calls : Running(c) => lease[c] = "held"

\* An add that failed has given the embedder's address back, on each of its
\* paths. (A published child that exits by itself has not: dynamicBackendExited
\* never calls releaseAddress.)
FailedAddReturnsLease == \A c \in Calls : pc[c] = "failed" => lease[c] # "held"

\* Where /proc tells who listens, a published backend whose child is alive is
\* reached at its own child: dialling its address never leads into a foreign
\* process or another backend's runtime, whatever was bound, closed and rebound
\* between the readiness dial, the ownership check and the publication.
PublishedOwned ==
    ProcFS => \A k \in Keys : dynamic[k] # None /\ proc[dynamic[k]] = "up"
                              => listener[addr[dynamic[k]]] = dynamic[k]

\* backends and dynamic never disagree about a dynamic backend: what
\* BackendDialAddress answers is the address of the child RemoveBackend,
\* stopDynamicBackends or dynamicBackendExited would retire with it.
RegistryConsistent ==
    \A k \in Keys \ StaticKeys :
        backends[k] = IF dynamic[k] = None THEN None ELSE addr[dynamic[k]]

\* A goroutine that will stop c: its own add, or one inside or about to enter
\* stopSubprocessBackend.
BeingStopped(c) ==
    \/ pc[c] \in Starting
    \/ c \in victims
    \/ \E x \in Procs : victim[x] = c

\* No child is forgotten: one that has not been waited for is registered, so
\* that RemoveBackend or the shutdown finds it, or is being stopped.
NoOrphan ==
    \A c \in Calls : Running(c) =>
        dynamic[key[c]] = c \/ pending[key[c]] = c \/ BeingStopped(c)

\* No temporary config file is left behind on any path: it exists only while
\* the add is in flight or the watcher of the published child will remove it,
\* and the one of the static runtime only while run has not returned.
NoConfigLeak ==
    /\ \A c \in Calls : c \in configs => pc[c] \notin Returned \/ c \in watch
    /\ Main \in configs => rpc # "idle"

\* "The runtime must not outlive the runner": when run has returned, the static
\* child has been waited for, nothing is published, and every dynamic child
\* still running is being stopped by the call that started it or removed it.
NothingOutlivesRunner ==
    rpc = "idle" =>
        /\ ~healthy
        /\ ~Running(Main)
        /\ \A k \in Keys : dynamic[k] = None
        /\ \A c \in Calls : Running(c) => BeingStopped(c)

\* A static address stays with the static runtime: no dynamic backend is told to
\* bind it, although it is free while the runtime is down for a restart, and
\* while the runner serves a runtime that is alive that runtime answers it.
StaticOwned ==
    \A k \in StaticKeys :
        /\ \A c \in Calls : Running(c) => addr[c] # backends[k]
        /\ rpc = "ready" /\ proc[Main] = "up" => listener[backends[k]] = Main

(***************************************************************************)
(* Liveness, under FairSpec.                                               *)
(***************************************************************************)
\* A published backend whose child died is taken out of the registry.
DeadUnpublished ==
    \A c \in Calls, k \in Keys :
        dynamic[k] = c /\ proc[c] # "up" ~> dynamic[k] # c

\* Once the context is cancelled, run returns.
StopReturns == ctxDone ~> rpc = "idle"

\* Nobody is left waiting: every AddBackend and RemoveBackend returns, also while
\* the runner is being stopped, and so does a cancelled run, even if children
\* ignore SIGTERM.
AllReturn ==
    /\ \A c \in Calls : pc[c] # "idle" ~> pc[c] \in Returned
    /\ StopReturns

=============================================================================
