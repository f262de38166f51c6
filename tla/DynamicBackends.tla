-------------------------- MODULE DynamicBackends ---------------------------
(***************************************************************************)
(* The dynamic backends of go/subprocess.go: addBackend and removeBackend  *)
(* calls running concurrently with each other, with the goroutine that     *)
(* watches a published child (dynamicBackendExited) and with the run loop. *)
(*                                                                         *)
(* Everything between two acquisitions of subprocessRunner.mu is a step of *)
(* its own, and so is every wait. A call is used once, and the child an    *)
(* add starts carries the name of the call. A backend's raw name and its   *)
(* lookup name always map to the same address (storeBackendAddress), so    *)
(* the registry is keyed by the lookup name alone.                         *)
(***************************************************************************)
EXTENDS Loopback

CONSTANTS
    Keys,         \* backend lookup names
    Calls,        \* AddBackend and RemoveBackend calls
    Main,         \* the run goroutine, and the child it starts
    DynAddrs,     \* addresses the allocator of dynamic backends hands out
    UseHook,      \* Options.ReserveLoopbackAddress is set
    ProcFS,       \* /proc shows who holds a listener (linux)
    SpawnMayFail, \* exec.Cmd.Start may fail
    None

ASSUME DynamicBackendsAssumption ==
    /\ Procs = Calls \cup {Main}
    /\ Main \notin Calls
    /\ DynAddrs \subseteq Addrs
    /\ UseHook \in BOOLEAN /\ ProcFS \in BOOLEAN /\ SpawnMayFail \in BOOLEAN
    /\ None \notin Keys \cup Procs \cup Addrs

VARIABLES
    healthy,      \* subprocessRunner.healthy
    ready,        \* Server.started and Server.ready both hold
    backends,     \* published address of each backend, or None
    dynamic,      \* published child of each backend, or None
    pending,      \* started but unpublished child of each backend, or None
    adding,       \* backends between the duplicate check and cmd.Start
    reserving,    \* backend each address is being given to, or None
    configs,      \* children whose temporary config file exists
    lease,        \* the embedder's reservation of each add's address
    watch,        \* published children whose watcher has not finished
    pc,           \* where each call is
    key,          \* the backend a call is about
    addr,         \* the address an add was given
    victim,       \* the child a goroutine is inside stopSubprocessBackend for
    stage         \* how far it is there

registryVars == <<backends, dynamic, pending, adding, reserving>>
stopVars == <<victim, stage>>
dynVars == <<healthy, ready, registryVars, configs, lease, watch, pc, key,
             addr, stopVars>>

\* The points of an add whose child is started and not yet given up.
Starting == {"wait", "dialed", "check", "mine", "theirs", "publish"}
Returned == {"added", "removed", "failed"}
CallPC == Starting \cup Returned \cup
          {"idle", "add", "claimed", "reserved", "configured", "stopping",
           "release", "relclean", "cleanup", "remove", "removing"}

DynTypeOK ==
    /\ healthy \in BOOLEAN /\ ready \in BOOLEAN
    /\ backends \in [Keys -> Addrs \cup {None}]
    /\ dynamic \in [Keys -> Calls \cup {None}]
    /\ pending \in [Keys -> Calls \cup {None}]
    /\ adding \in SUBSET Keys
    /\ reserving \in [Addrs -> Keys \cup {None}]
    /\ configs \in SUBSET Procs
    /\ lease \in [Calls -> {"none", "held", "returned"}]
    /\ watch \in SUBSET Calls
    /\ pc \in [Calls -> CallPC]
    /\ key \in [Calls -> Keys \cup {None}]
    /\ addr \in [Calls -> DynAddrs \cup {None}]
    /\ victim \in [Procs -> Calls \cup {None}]
    /\ stage \in [Procs -> {"idle", "begin", "waiting", "killing"}]

DynInit ==
    /\ healthy = FALSE /\ ready = FALSE
    /\ backends = [k \in Keys |-> None]
    /\ dynamic = [k \in Keys |-> None]
    /\ pending = [k \in Keys |-> None]
    /\ adding = {}
    /\ reserving = [a \in Addrs |-> None]
    /\ configs = {}
    /\ lease = [c \in Calls |-> "none"]
    /\ watch = {}
    /\ pc = [c \in Calls |-> "idle"]
    /\ key = [c \in Calls |-> None]
    /\ addr = [c \in Calls |-> None]
    /\ victim = [x \in Procs |-> None]
    /\ stage = [x \in Procs |-> "idle"]

-----------------------------------------------------------------------------
(***************************************************************************)
(* Server.AddBackend and Server.RemoveBackend: a server that is not        *)
(* started and ready refuses the call before the runner sees it.           *)
(***************************************************************************)
Invoke(c, k, op) ==
    /\ pc[c] = "idle"
    /\ ready
    /\ pc' = [pc EXCEPT ![c] = op]
    /\ key' = [key EXCEPT ![c] = k]
    /\ UNCHANGED <<healthy, ready, registryVars, configs, lease, watch, addr,
                   stopVars, kernelVars>>

(***************************************************************************)
(* addBackend, up to cmd.Start.                                            *)
(***************************************************************************)
\* Mutant: adds in flight are not looked at.
Duplicate_IgnoresAdding(k) ==
    backends[k] # None \/ dynamic[k] # None \/ pending[k] # None

Duplicate(k) ==
    \/ backends[k] # None
    \/ dynamic[k] # None
    \/ k \in adding
    \/ pending[k] # None

AddClaim(c) ==
    /\ pc[c] = "add"
    /\ \/ /\ healthy /\ ~Duplicate(key[c])
          /\ adding' = adding \cup {key[c]}
          /\ pc' = [pc EXCEPT ![c] = "claimed"]
       \/ /\ ~healthy \/ Duplicate(key[c])
          /\ pc' = [pc EXCEPT ![c] = "failed"]
          /\ UNCHANGED adding
    /\ UNCHANGED <<healthy, ready, backends, dynamic, pending, reserving,
                   configs, lease, watch, key, addr, stopVars, kernelVars>>

\* Mutant: only pending children and reservations own an address.
AddressOwners_IgnoresPublished(a) ==
    LET starting == {k \in Keys : pending[k] # None /\ addr[pending[k]] = a}
    IN  IF starting # {} THEN starting ELSE {reserving[a]} \ {None}

\* addressOwnerLocked: published backends are looked at first, then pending
\* children, then reservations.
AddressOwners(a) ==
    LET published == {k \in Keys : backends[k] = a}
        starting == {k \in Keys : pending[k] # None /\ addr[pending[k]] = a}
    IN  IF published # {} THEN published
        ELSE IF starting # {} THEN starting
        ELSE {reserving[a]} \ {None}

\* What an allocation may return: an address the embedder has not leased out,
\* or one this process could bind a moment ago and has closed again.
Allocatable(a) ==
    IF UseHook THEN \A d \in Calls : addr[d] = a => lease[d] # "held"
               ELSE listener[a] = Free

AddReserve(c) ==
    /\ pc[c] = "claimed"
    /\ \E a \in DynAddrs :
          /\ Allocatable(a)
          /\ AddressOwners(a) = {} \/ key[c] \in AddressOwners(a)
          /\ reserving' = [reserving EXCEPT ![a] = key[c]]
          /\ addr' = [addr EXCEPT ![c] = a]
    /\ lease' = [lease EXCEPT ![c] = IF UseHook THEN "held" ELSE "none"]
    /\ pc' = [pc EXCEPT ![c] = "reserved"]
    /\ UNCHANGED <<healthy, ready, backends, dynamic, pending, adding, configs,
                   watch, key, stopVars, kernelVars>>

\* Eight attempts met addresses of other backends, no probed port was free, or
\* the embedder's allocator refused.
AddReserveFails(c) ==
    /\ pc[c] = "claimed"
    /\ pc' = [pc EXCEPT ![c] = "cleanup"]
    /\ UNCHANGED <<healthy, ready, registryVars, configs, lease, watch, key,
                   addr, stopVars, kernelVars>>

AddConfig(c) ==
    /\ pc[c] = "reserved"
    /\ \/ /\ configs' = configs \cup {c}
          /\ pc' = [pc EXCEPT ![c] = "configured"]
       \/ /\ pc' = [pc EXCEPT ![c] = "relclean"]
          /\ UNCHANGED configs
    /\ UNCHANGED <<healthy, ready, registryVars, lease, watch, key, addr,
                   stopVars, kernelVars>>

AddStart(c) ==
    /\ pc[c] = "configured"
    /\ adding' = adding \ {key[c]}
    /\ \/ /\ ~healthy
          /\ pc' = [pc EXCEPT ![c] = "release"]
          /\ UNCHANGED <<pending, proc, sig>>
       \/ /\ healthy /\ SpawnMayFail
          /\ pc' = [pc EXCEPT ![c] = "relclean"]
          /\ UNCHANGED <<pending, proc, sig>>
       \/ /\ healthy
          /\ Spawn(c)
          /\ pending' = [pending EXCEPT ![key[c]] = c]
          /\ pc' = [pc EXCEPT ![c] = "wait"]
    /\ UNCHANGED <<healthy, ready, backends, dynamic, reserving, configs,
                   lease, watch, key, addr, stopVars, listener>>

(***************************************************************************)
(* Readiness: waitBackendListenersProcess, then dynamicAddressOwned. A     *)
(* dial only shows that somebody listens, so the child has to be alive     *)
(* after it, and on linux it has to hold the socket.                       *)
(***************************************************************************)
AddStep(c, from, to) ==
    /\ pc[c] = from
    /\ pc' = [pc EXCEPT ![c] = to]
    /\ UNCHANGED <<healthy, ready, registryVars, configs, lease, watch, key,
                   addr, stopVars, kernelVars>>

\* Mutant: the reservation is given back before the child is stopped.
AddGiveUp_ReleasesFirst(c, from) ==
    /\ pc[c] = from
    /\ pc' = [pc EXCEPT ![c] = "stopping"]
    /\ victim' = [victim EXCEPT ![c] = c]
    /\ stage' = [stage EXCEPT ![c] = "begin"]
    /\ lease' = [lease EXCEPT ![c] = IF @ = "held" THEN "returned" ELSE @]
    /\ UNCHANGED <<healthy, ready, registryVars, configs, watch, key, addr,
                   kernelVars>>

\* The add gives up on its child and calls stopSubprocessBackend.
AddGiveUp(c, from) ==
    /\ pc[c] = from
    /\ pc' = [pc EXCEPT ![c] = "stopping"]
    /\ victim' = [victim EXCEPT ![c] = c]
    /\ stage' = [stage EXCEPT ![c] = "begin"]
    /\ UNCHANGED <<healthy, ready, registryVars, configs, lease, watch, key,
                   addr, kernelVars>>

AddDial(c) ==
    /\ pc[c] = "wait"
    /\ listener[addr[c]] # Free
    /\ AddStep(c, "wait", "dialed")

AddDialed(c) ==
    \/ proc[c] # "gone" /\ AddStep(c, "dialed", "check")
    \/ proc[c] = "gone" /\ AddGiveUp(c, "dialed")

\* The child exited, the caller's deadline or the ten second fallback passed.
AddNotReady(c) == AddGiveUp(c, "wait")

\* Mutant: whoever answered the dial is taken for the child.
AddInodes_DialIsEnough(c) == AddStep(c, "check", "publish")

\* listenSocketInodes: the sockets that listen on the port at this moment.
AddInodes(c) ==
    /\ pc[c] = "check"
    /\ \/ ~ProcFS /\ AddStep(c, "check", "publish")
       \/ ProcFS /\ listener[addr[c]] = c /\ AddStep(c, "check", "mine")
       \/ ProcFS /\ listener[addr[c]] \notin {c, Free}
                 /\ AddStep(c, "check", "theirs")
       \/ ProcFS /\ listener[addr[c]] = Free /\ AddGiveUp(c, "check")

\* ReadDir of /proc/<pid>/fd: fails once the child is waited for, and for a
\* zombie unless the runner is root; an unreadable directory counts as owned.
FdsUnreadable(c) == proc[c] \in {"zombie", "gone"}

AddFds(c) ==
    \/ proc[c] = "up" /\ AddStep(c, "mine", "publish")
    \/ FdsUnreadable(c) /\ \E seen \in {"mine", "theirs"} :
                              AddStep(c, seen, "publish")
    \/ proc[c] = "zombie" /\ AddGiveUp(c, "mine")
    \/ proc[c] # "gone" /\ AddGiveUp(c, "theirs")

AddPublish(c) ==
    /\ healthy
    /\ pc[c] = "publish"
    /\ pending[key[c]] = c
    /\ pending' = [pending EXCEPT ![key[c]] = None]
    /\ reserving' = [reserving EXCEPT ![addr[c]] = IF @ = key[c] THEN None ELSE @]
    /\ dynamic' = [dynamic EXCEPT ![key[c]] = c]
    /\ backends' = [backends EXCEPT ![key[c]] = addr[c]]
    /\ watch' = watch \cup {c}
    /\ pc' = [pc EXCEPT ![c] = "added"]
    /\ UNCHANGED <<healthy, ready, adding, configs, lease, key, addr, stopVars,
                   kernelVars>>

\* The runner stopped meanwhile, or took the child out of pending.
AddRefused(c) ==
    /\ pc[c] = "publish"
    /\ ~healthy \/ pending[key[c]] # c
    /\ pending' = [pending EXCEPT ![key[c]] =
                     IF ~healthy /\ @ = c THEN None ELSE @]
    /\ pc' = [pc EXCEPT ![c] = "stopping"]
    /\ victim' = [victim EXCEPT ![c] = c]
    /\ stage' = [stage EXCEPT ![c] = "begin"]
    /\ UNCHANGED <<healthy, ready, backends, dynamic, adding, reserving,
                   configs, lease, watch, key, addr, kernelVars>>

(***************************************************************************)
(* The error paths of addBackend. Each lock acquisition is a step.         *)
(***************************************************************************)
\* After stopSubprocessBackend returned. AddRefused has done it already: there
\* pending no longer holds c, and the step changes nothing.
AddUnpend(c) ==
    /\ pc[c] = "stopping"
    /\ victim[c] = None
    /\ pending' = [pending EXCEPT ![key[c]] = IF @ = c THEN None ELSE @]
    /\ pc' = [pc EXCEPT ![c] = "release"]
    /\ UNCHANGED <<healthy, ready, backends, dynamic, adding, reserving,
                   configs, lease, watch, key, addr, stopVars, kernelVars>>

Return(c) == lease' = [lease EXCEPT ![c] = IF @ = "held" THEN "returned" ELSE @]

\* Mutant: only the reservation in the runner's own table is dropped.
AddRelease_KeepsLease(c) ==
    /\ \/ pc[c] = "release" /\ pc' = [pc EXCEPT ![c] = "failed"]
       \/ pc[c] = "relclean" /\ pc' = [pc EXCEPT ![c] = "cleanup"]
    /\ reserving' = [reserving EXCEPT ![addr[c]] = IF @ = key[c] THEN None ELSE @]
    /\ configs' = IF pc[c] = "release" THEN configs \ {c} ELSE configs
    /\ UNCHANGED <<healthy, ready, backends, dynamic, pending, adding, watch,
                   lease, key, addr, stopVars, kernelVars>>

\* releaseReservation, and the removal of the config file that follows it.
AddRelease(c) ==
    /\ \/ pc[c] = "release" /\ pc' = [pc EXCEPT ![c] = "failed"]
       \/ pc[c] = "relclean" /\ pc' = [pc EXCEPT ![c] = "cleanup"]
    /\ reserving' = [reserving EXCEPT ![addr[c]] = IF @ = key[c] THEN None ELSE @]
    /\ Return(c)
    /\ configs' = IF pc[c] = "release" THEN configs \ {c} ELSE configs
    /\ UNCHANGED <<healthy, ready, backends, dynamic, pending, adding, watch,
                   key, addr, stopVars, kernelVars>>

\* Mutant: the config file stays.
AddCleanup_KeepsConfig(c) ==
    /\ pc[c] = "cleanup"
    /\ adding' = adding \ {key[c]}
    /\ pc' = [pc EXCEPT ![c] = "failed"]
    /\ UNCHANGED <<healthy, ready, backends, dynamic, pending, reserving,
                   configs, lease, watch, key, addr, stopVars, kernelVars>>

\* cleanupAdding. After a failed cmd.Start it runs although the marker was
\* deleted under the lock already.
AddCleanup(c) ==
    /\ pc[c] = "cleanup"
    /\ adding' = adding \ {key[c]}
    /\ configs' = configs \ {c}
    /\ pc' = [pc EXCEPT ![c] = "failed"]
    /\ UNCHANGED <<healthy, ready, backends, dynamic, pending, reserving,
                   lease, watch, key, addr, stopVars, kernelVars>>

(***************************************************************************)
(* removeBackend.                                                          *)
(***************************************************************************)
RemoveClaim(c) ==
    /\ pc[c] = "remove"
    /\ \/ /\ dynamic[key[c]] = None
          /\ pc' = [pc EXCEPT ![c] = "failed"]
          /\ UNCHANGED <<backends, dynamic, stopVars>>
       \/ /\ dynamic[key[c]] # None
          /\ victim' = [victim EXCEPT ![c] = dynamic[key[c]]]
          /\ stage' = [stage EXCEPT ![c] = "begin"]
          /\ dynamic' = [dynamic EXCEPT ![key[c]] = None]
          /\ backends' = [backends EXCEPT ![key[c]] = None]
          /\ pc' = [pc EXCEPT ![c] = "removing"]
    /\ UNCHANGED <<healthy, ready, pending, adding, reserving, configs, lease,
                   watch, key, addr, kernelVars>>

RemoveReturn(c) == victim[c] = None /\ AddStep(c, "removing", "removed")

(***************************************************************************)
(* stopSubprocessBackend, called by x (a call or the run goroutine) for    *)
(* the child victim[x]; the config file and the embedder's lease go once   *)
(* the child has been waited for.                                          *)
(***************************************************************************)
StopTerm(x) ==
    /\ stage[x] = "begin"
    /\ proc[victim[x]] # "gone"
    /\ Terminate(victim[x])
    /\ stage' = [stage EXCEPT ![x] = "waiting"]
    /\ UNCHANGED <<healthy, ready, registryVars, configs, lease, watch, pc,
                   key, addr, victim, listener, proc>>

\* Mutant: a child that ignores SIGTERM is waited for without a timeout.
StopKill_Never(x) == FALSE

\* The shutdown timeout passed, or a remover's context ended.
StopKill(x) ==
    /\ stage[x] = "waiting"
    /\ proc[victim[x]] # "gone"
    /\ Kill(victim[x])
    /\ stage' = [stage EXCEPT ![x] = "killing"]
    /\ UNCHANGED <<healthy, ready, registryVars, configs, lease, watch, pc,
                   key, addr, victim, listener, proc>>

\* Mutant: a killed child is not waited for.
StopDone_KilledIsGone(x) ==
    /\ stage[x] # "idle"
    /\ proc[victim[x]] = "gone" \/ stage[x] = "killing"
    /\ configs' = configs \ {victim[x]}
    /\ Return(victim[x])
    /\ victim' = [victim EXCEPT ![x] = None]
    /\ stage' = [stage EXCEPT ![x] = "idle"]
    /\ UNCHANGED <<healthy, ready, registryVars, watch, pc, key, addr,
                   kernelVars>>

StopDone(x) ==
    /\ stage[x] # "idle"
    /\ proc[victim[x]] = "gone"
    /\ configs' = configs \ {victim[x]}
    /\ Return(victim[x])
    /\ victim' = [victim EXCEPT ![x] = None]
    /\ stage' = [stage EXCEPT ![x] = "idle"]
    /\ UNCHANGED <<healthy, ready, registryVars, watch, pc, key, addr,
                   kernelVars>>

StopStep(x) == StopTerm(x) \/ StopKill(x) \/ StopDone(x)

(***************************************************************************)
(* dynamicBackendExited: the goroutine that waits for a published child.   *)
(***************************************************************************)
\* Mutant: the address of the dead child stays in backends.
Watcher_KeepsAddress(c) ==
    /\ c \in watch
    /\ proc[c] = "gone"
    /\ dynamic' = [dynamic EXCEPT ![key[c]] = IF @ = c THEN None ELSE @]
    /\ configs' = configs \ {c}
    /\ watch' = watch \ {c}
    /\ UNCHANGED <<healthy, ready, backends, pending, adding, reserving, lease,
                   pc, key, addr, stopVars, kernelVars>>

\* Mutant: only the config file of the dead child is cleaned up.
Watcher_ConfigOnly(c) ==
    /\ c \in watch
    /\ proc[c] = "gone"
    /\ configs' = configs \ {c}
    /\ watch' = watch \ {c}
    /\ UNCHANGED <<healthy, ready, registryVars, lease, pc, key, addr,
                   stopVars, kernelVars>>

Watcher(c) ==
    /\ c \in watch
    /\ proc[c] = "gone"
    /\ IF dynamic[key[c]] = c
       THEN /\ dynamic' = [dynamic EXCEPT ![key[c]] = None]
            /\ backends' = [backends EXCEPT ![key[c]] = None]
       ELSE UNCHANGED <<dynamic, backends>>
    /\ pending' = [pending EXCEPT ![key[c]] = IF @ = c THEN None ELSE @]
    /\ configs' = configs \ {c}
    /\ watch' = watch \ {c}
    /\ UNCHANGED <<healthy, ready, adding, reserving, lease, pc, key, addr,
                   stopVars, kernelVars>>

-----------------------------------------------------------------------------
\* What goroutine c does next once Invoke has given it an operation.
AddNext(c) ==
    \/ AddClaim(c) \/ AddReserve(c) \/ AddReserveFails(c) \/ AddConfig(c)
    \/ AddStart(c) \/ AddDial(c) \/ AddDialed(c) \/ AddNotReady(c)
    \/ AddInodes(c) \/ AddFds(c) \/ AddPublish(c) \/ AddRefused(c)
    \/ AddUnpend(c) \/ AddRelease(c) \/ AddCleanup(c)

CallNext(c) == AddNext(c) \/ RemoveClaim(c) \/ RemoveReturn(c) \/ StopStep(c)

=============================================================================
