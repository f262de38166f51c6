----------------------- MODULE SubprocessRunnerProofs -----------------------
(***************************************************************************)
(* Theorems about SubprocessRunner for any number of calls, backends,      *)
(* addresses, restarts and runs.                                           *)
(***************************************************************************)
EXTENDS SubprocessRunner, TLAPS

-----------------------------------------------------------------------------
(***************************************************************************)
(* Types.                                                                  *)
(***************************************************************************)
\* A call that was invoked is about a backend.
KeyKnown == \A c \in Calls : pc[c] # "idle" => key[c] \in Keys

DynType == DynTypeOK /\ KeyKnown
TypeInv == KernelTypeOK /\ DynType /\ RunTypeOK

LEMMA TypeInit == Init => TypeInv
<1> SUFFICES ASSUME Init PROVE TypeInv
  OBVIOUS
<1>1. KernelTypeOK
  BY LoopbackAssumption DEF Init, KernelInit, KernelTypeOK, ProcState
<1>2. DynTypeOK /\ KeyKnown
  BY DEF Init, DynInit, DynTypeOK, KeyKnown, CallPC
<1>3. RunTypeOK
  <2>1. rpc \in RunPC /\ attempt \in Nat /\ ctxDone \in BOOLEAN
    BY DEF Init, RunPC
  <2>2. runs \in 0 .. MaxRuns /\ attempt = 0 /\ backoff = MinBackoff
    BY SubprocessRunnerAssumption DEF Init
  <2>3. victims \in SUBSET Calls
    BY DEF Init
  <2> QED
    BY <2>1, <2>2, <2>3, SubprocessRunnerAssumption DEF RunTypeOK
<1> QED
  BY <1>1, <1>2, <1>3 DEF TypeInv, DynType

LEMMA DynTypeCall ==
  ASSUME DynType, NEW c \in Calls, CallNext(c) \/ Watcher(c)
  PROVE  DynType'
<1> USE DynamicBackendsAssumption
    DEF DynType, DynTypeOK, KeyKnown, CallPC, Starting, Returned,
        registryVars, stopVars
<1>1. CASE AddClaim(c)
  BY <1>1 DEF AddClaim
<1>2. CASE AddReserve(c)
  BY <1>2 DEF AddReserve
<1>3. CASE AddReserveFails(c)
  BY <1>3 DEF AddReserveFails
<1>4. CASE AddConfig(c)
  BY <1>4 DEF AddConfig
<1>5. CASE AddStart(c)
  BY <1>5 DEF AddStart
<1>6. CASE AddDial(c)
  BY <1>6 DEF AddDial, AddStep
<1>7. CASE AddDialed(c)
  BY <1>7 DEF AddDialed, AddStep, AddGiveUp
<1>8. CASE AddNotReady(c)
  BY <1>8 DEF AddNotReady, AddGiveUp
<1>9. CASE AddInodes(c)
  BY <1>9 DEF AddInodes, AddStep, AddGiveUp
<1>10. CASE AddFds(c)
  BY <1>10 DEF AddFds, AddStep, AddGiveUp
<1>11. CASE AddPublish(c)
  BY <1>11 DEF AddPublish
<1>12. CASE AddRefused(c)
  BY <1>12 DEF AddRefused
<1>13. CASE AddUnpend(c)
  BY <1>13 DEF AddUnpend
<1>14. CASE AddRelease(c)
  <2> USE <1>14 DEF AddRelease, Return
  <2>1. pc' \in [Calls -> CallPC] /\ KeyKnown'
    OBVIOUS
  <2>2. reserving' \in [Addrs -> Keys \cup {None}] /\ configs' \in SUBSET Procs
    OBVIOUS
  <2>3. lease' \in [Calls -> {"none", "held", "returned"}]
    OBVIOUS
  <2> QED
    BY <2>1, <2>2, <2>3
<1>15. CASE AddCleanup(c)
  BY <1>15 DEF AddCleanup
<1>16. CASE RemoveClaim(c)
  BY <1>16 DEF RemoveClaim
<1>17. CASE RemoveReturn(c)
  BY <1>17 DEF RemoveReturn, AddStep
<1>18. CASE StopTerm(c) \/ StopKill(c)
  BY <1>18 DEF StopTerm, StopKill
<1>19. CASE StopDone(c)
  BY <1>19 DEF StopDone, Return
<1>20. CASE Watcher(c)
  BY <1>20 DEF Watcher
<1> QED
  BY <1>1, <1>2, <1>3, <1>4, <1>5, <1>6, <1>7, <1>8, <1>9, <1>10, <1>11,
     <1>12, <1>13, <1>14, <1>15, <1>16, <1>17, <1>18, <1>19, <1>20
  DEF CallNext, AddNext, StopStep

LEMMA KernelTypeCall ==
  ASSUME KernelTypeOK, DynType, NEW c \in Calls, CallNext(c) \/ Watcher(c)
  PROVE  KernelTypeOK'
<1> USE DynamicBackendsAssumption DEF KernelTypeOK, ProcState, kernelVars
<1>1. CASE AddStart(c)
  BY <1>1 DEF AddStart, Spawn
<1>2. CASE StopTerm(c)
  BY <1>2 DEF StopTerm, Terminate
<1>3. CASE StopKill(c)
  BY <1>3 DEF StopKill, Kill
<1>4. CASE UNCHANGED kernelVars
  BY <1>4
<1> QED
  BY <1>1, <1>2, <1>3, <1>4
  DEF CallNext, AddNext, StopStep, StopDone, Watcher, AddClaim, AddReserve,
      AddReserveFails, AddConfig, AddDial, AddDialed, AddNotReady, AddInodes,
      AddFds, AddPublish, AddRefused, AddUnpend, AddRelease, AddCleanup,
      RemoveClaim, RemoveReturn, AddStep, AddGiveUp

LEMMA DynTypeRun ==
  ASSUME DynType, RunTypeOK, RunStep
  PROVE  DynType'
<1> USE DynamicBackendsAssumption, SubprocessRunnerAssumption
    DEF DynType, DynTypeOK, KeyKnown, registryVars, stopVars, callVars, dynVars
<1>1. ASSUME NEW to, Go(to) PROVE DynType'
  BY <1>1 DEF Go
<1>2. ASSUME NEW to, Unhealthy(to) PROVE DynType'
  BY <1>2 DEF Unhealthy
<1>3. ASSUME NEW from, NEW to, TerminateMain(from, to) PROVE DynType'
  BY <1>3 DEF TerminateMain
<1>4. CASE BootDynamic
  BY <1>4 DEF BootDynamic
<1>5. CASE ServeEnds
  BY <1>5 DEF ServeEnds
<1>6. CASE BootStatic
  <2>1. PICK bound \in [StaticKeys -> {a \in StaticAddrs : listener[a] = Free}] :
          backends' = [k \in Keys |-> IF k \in StaticKeys THEN bound[k] ELSE None]
    BY <1>6 DEF BootStatic
  <2>2. backends' \in [Keys -> Addrs \cup {None}]
    BY <2>1
  <2>3. configs' \in SUBSET Procs
    BY <1>6 DEF BootStatic
  <2> QED
    BY <1>6, <2>2, <2>3 DEF BootStatic
<1>7. CASE RunReturns
  BY <1>7 DEF RunReturns
<1>8. CASE SpawnMain
  BY <1>8 DEF SpawnMain
<1>9. CASE MainReady
  BY <1>9 DEF MainReady
<1>10. CASE ShutdownKill \/ BackoffElapsed
  BY <1>10 DEF ShutdownKill, BackoffElapsed
<1>11. CASE StopAll
  BY <1>11 DEF StopAll
<1>12. CASE StopNext
  BY <1>12 DEF StopNext, RunTypeOK
<1> HIDE DEF DynType
<1> QED
  BY <1>1, <1>2, <1>3, <1>4, <1>5, <1>6, <1>7, <1>8, <1>9, <1>10, <1>11, <1>12
  DEF RunStep, BootFails, CrashedStop, Joined, AfterAttempt, MainDial,
      BackoffCancelled, StopAllDone, MainNotReady, MainCrashed, MainExited,
      ShutdownDone, NotReadyStop, ReadyShutdown

LEMMA KernelTypeRun ==
  ASSUME KernelTypeOK, RunStep
  PROVE  KernelTypeOK'
<1> USE DynamicBackendsAssumption DEF KernelTypeOK, ProcState, kernelVars
<1>1. CASE SpawnMain
  BY <1>1 DEF SpawnMain, Spawn
<1>2. ASSUME NEW from, NEW to, TerminateMain(from, to) PROVE KernelTypeOK'
  BY <1>2 DEF TerminateMain, Terminate
<1>3. CASE ShutdownKill
  BY <1>3 DEF ShutdownKill, Kill
<1>4. CASE UNCHANGED kernelVars
  BY <1>4
<1> HIDE DEF KernelTypeOK
<1> QED
  BY <1>1, <1>2, <1>3, <1>4
  DEF RunStep, BootFails, CrashedStop, Joined, AfterAttempt, MainDial,
      BackoffCancelled, StopAllDone, MainNotReady, MainCrashed, MainExited,
      ShutdownDone, NotReadyStop, ReadyShutdown, Go, Unhealthy, BootDynamic,
      ServeEnds, BootStatic, RunReturns, MainReady, BackoffElapsed, StopAll,
      StopNext

LEMMA RunTypeRun ==
  ASSUME RunTypeOK, RunStep
  PROVE  RunTypeOK'
<1> USE SubprocessRunnerAssumption DEF RunTypeOK, RunPC, loopVars
<1>1. ASSUME NEW to \in RunPC, Go(to) PROVE RunTypeOK'
  BY <1>1 DEF Go
<1>2. ASSUME NEW to \in RunPC, Unhealthy(to) PROVE RunTypeOK'
  BY <1>2 DEF Unhealthy
<1>3. ASSUME NEW from, NEW to \in RunPC, TerminateMain(from, to) PROVE RunTypeOK'
  BY <1>3 DEF TerminateMain
<1>4. CASE BootDynamic \/ ServeEnds \/ RunReturns \/ MainReady
  BY <1>4 DEF BootDynamic, ServeEnds, RunReturns, MainReady
<1>5. CASE SpawnMain \/ ShutdownKill
  BY <1>5 DEF SpawnMain, ShutdownKill
<1>6. CASE BootStatic
  BY <1>6 DEF BootStatic
<1>7. CASE BackoffElapsed
  BY <1>7 DEF BackoffElapsed
<1>8. CASE StopAll \/ StopNext
  BY <1>8 DEF StopAll, StopNext
<1>9. CASE MainNotReady \/ MainCrashed \/ MainExited \/ ShutdownDone
  BY <1>2, <1>9 DEF MainNotReady, MainCrashed, MainExited, ShutdownDone
<1>10. CASE NotReadyStop \/ ReadyShutdown
  BY <1>1, <1>3, <1>10 DEF NotReadyStop, ReadyShutdown
<1>11. CASE BootFails \/ CrashedStop \/ Joined \/ AfterAttempt \/ MainDial
            \/ BackoffCancelled \/ StopAllDone
  BY <1>1, <1>11 DEF BootFails, CrashedStop, Joined, AfterAttempt, MainDial,
                     BackoffCancelled, StopAllDone
<1> QED
  BY <1>4, <1>5, <1>6, <1>7, <1>8, <1>9, <1>10, <1>11 DEF RunStep

\* The stop procedure of the run goroutine, and everything else that can happen.
LEMMA TypeStopMain ==
  ASSUME KernelTypeOK, DynType, StopStep(Main)
  PROVE  KernelTypeOK' /\ DynType'
<1> USE DynamicBackendsAssumption
<1>1. CASE StopTerm(Main)
  BY <1>1 DEF StopTerm, Terminate, KernelTypeOK, ProcState, DynType, DynTypeOK,
              KeyKnown, registryVars
<1>2. CASE StopKill(Main)
  BY <1>2 DEF StopKill, Kill, KernelTypeOK, ProcState, DynType, DynTypeOK,
              KeyKnown, registryVars
<1>3. CASE StopDone(Main)
  BY <1>3 DEF StopDone, Return, KernelTypeOK, ProcState, DynType, DynTypeOK,
              KeyKnown, registryVars, kernelVars
<1> QED
  BY <1>1, <1>2, <1>3 DEF StopStep

LEMMA TypeHost ==
  ASSUME KernelTypeOK, HostStep
  PROVE  KernelTypeOK'
<1> USE LoopbackAssumption DEF KernelTypeOK, ProcState
<1>1. ASSUME NEW p \in Procs, NEW a, ChildBind(p, a) PROVE KernelTypeOK'
  BY <1>1 DEF ChildBind
<1>2. ASSUME NEW p \in Procs, ChildExit(p) PROVE KernelTypeOK'
  BY <1>2 DEF ChildExit
<1>3. ASSUME NEW p \in Procs, Reap(p) PROVE KernelTypeOK'
  BY <1>3 DEF Reap
<1>4. ASSUME NEW a, ForeignBind(a) \/ ForeignClose(a) PROVE KernelTypeOK'
  BY <1>4 DEF ForeignBind, ForeignClose
<1> HIDE DEF KernelTypeOK
<1> QED
  BY <1>1, <1>2, <1>3, <1>4 DEF HostStep

LEMMA TypeStep == TypeInv /\ [Next]_vars => TypeInv'
<1> SUFFICES ASSUME TypeInv, [Next]_vars PROVE TypeInv'
  OBVIOUS
<1> USE DEF TypeInv
<1>1. CASE Start
  <2>1. KernelTypeOK' /\ DynType'
    BY <1>1 DEF Start, KernelTypeOK, DynType, DynTypeOK, KeyKnown, kernelVars,
                dynVars, registryVars, stopVars
  <2>2. runs' \in 0 .. MaxRuns
    BY <1>1, SubprocessRunnerAssumption DEF Start, RunTypeOK
  <2> QED
    BY <1>1, <2>1, <2>2 DEF Start, RunTypeOK, RunPC
<1>2. CASE Cancel
  BY <1>2 DEF Cancel, KernelTypeOK, DynType, DynTypeOK, KeyKnown, RunTypeOK,
              kernelVars, dynVars, registryVars, stopVars, loopVars
<1>3. CASE RunStep
  BY <1>3, DynTypeRun, KernelTypeRun, RunTypeRun
<1>4. UNCHANGED runVars => RunTypeOK'
  BY DEF RunTypeOK, runVars, loopVars
<1>5. CASE StopStep(Main) /\ UNCHANGED runVars
  BY <1>4, <1>5, TypeStopMain
<1>6. CASE Host
  <2>1. KernelTypeOK'
    BY <1>6, TypeHost DEF Host
  <2>2. DynType'
    BY <1>6 DEF Host, DynType, DynTypeOK, KeyKnown, dynVars, registryVars,
                stopVars
  <2> QED
    BY <1>4, <1>6, <2>1, <2>2 DEF Host
<1>7. ASSUME NEW c \in Calls, Goroutine(c) PROVE TypeInv'
  BY <1>4, <1>7, DynTypeCall, KernelTypeCall DEF Goroutine
<1>8. ASSUME NEW c \in Calls, NEW k \in Keys, NEW op \in {"add", "remove"},
             Invoke(c, k, op), UNCHANGED runVars
      PROVE  TypeInv'
  BY <1>4, <1>8 DEF Invoke, KernelTypeOK, DynType, DynTypeOK, KeyKnown, CallPC,
                    kernelVars, registryVars, stopVars
<1>9. CASE UNCHANGED vars
  BY <1>4, <1>9 DEF vars, KernelTypeOK, DynType, DynTypeOK, KeyKnown,
                    kernelVars, dynVars, registryVars, stopVars
<1> QED
  BY <1>1, <1>2, <1>3, <1>5, <1>6, <1>7, <1>8, <1>9 DEF Next, Runner

\* Type correctness of the subprocess runner, for every RestartPolicy: in every
\* reachable state every variable of the composed model has its type, and a wait
\* between two restarts is the first of its run or at most MaxBackoff long.
THEOREM TypeCorrect == Spec => []TypeOK
<1>1. TypeInv => TypeOK
  BY DEF TypeInv, TypeOK, DynType
<1> QED
  BY TypeInit, TypeStep, <1>1, PTL DEF Spec

-----------------------------------------------------------------------------
(***************************************************************************)
(* Addresses leased from the embedder.                                     *)
(*                                                                         *)
(* That a running child has its lease is not inductive: a lease is given   *)
(* back by three kinds of goroutine, and the argument has to know where    *)
(* the add is. Before cmd.Start there is no child; from the reservation to *)
(* the end of its child the add has the lease; an add past                 *)
(* stopSubprocessBackend has no running child any more.                    *)
(***************************************************************************)
\* The points of an add where its child does not exist yet.
Unborn == {"idle", "add", "claimed", "reserved", "configured", "relclean",
           "cleanup", "remove", "removing", "removed"}

\* Where a call is tells which child it can have.
ChildLife ==
    \A c \in Calls :
        /\ pc[c] \in Unborn => proc[c] = "none"
        /\ pc[c] = "stopping" => victim[c] = c \/ (victim[c] = None /\ ~Running(c))
        /\ pc[c] \in {"release", "failed"} => ~Running(c)

\* A lease is there when it is needed, and no two held leases share an address.
LeaseInv ==
    UseHook =>
        /\ \A c \in Calls : pc[c] \in {"reserved", "configured"} \/ Running(c)
                            => lease[c] = "held"
        /\ \A c, d \in Calls : c # d /\ lease[c] = "held" /\ lease[d] = "held"
                               => addr[c] # addr[d]

LifeInv == TypeInv /\ ChildLife /\ LeaseInv

LEMMA LifeInit == Init => ChildLife /\ LeaseInv
  BY DynamicBackendsAssumption
  DEF Init, DynInit, KernelInit, ChildLife, LeaseInv, Unborn, Running

LEMMA ChildLifeCall ==
  ASSUME TypeInv, ChildLife, NEW c \in Calls, CallNext(c) \/ Watcher(c)
  PROVE  ChildLife'
<1> USE DynamicBackendsAssumption
    DEF TypeInv, DynType, DynTypeOK, KernelTypeOK, ChildLife, Unborn, Running,
        stopVars, kernelVars
<1>1. CASE AddClaim(c)
  BY <1>1 DEF AddClaim
<1>2. CASE AddReserve(c)
  BY <1>2 DEF AddReserve
<1>3. CASE AddReserveFails(c)
  BY <1>3 DEF AddReserveFails
<1>4. CASE AddConfig(c)
  BY <1>4 DEF AddConfig
<1>5. CASE AddStart(c)
  BY <1>5 DEF AddStart, Spawn
<1>6. CASE AddDial(c)
  BY <1>6 DEF AddDial, AddStep
<1>7. CASE AddDialed(c)
  BY <1>7 DEF AddDialed, AddStep, AddGiveUp
<1>8. CASE AddNotReady(c)
  BY <1>8 DEF AddNotReady, AddGiveUp
<1>9. CASE AddInodes(c)
  BY <1>9 DEF AddInodes, AddStep, AddGiveUp
<1>10. CASE AddFds(c)
  BY <1>10 DEF AddFds, AddStep, AddGiveUp
<1>11. CASE AddPublish(c)
  BY <1>11 DEF AddPublish
<1>12. CASE AddRefused(c)
  BY <1>12 DEF AddRefused
<1>13. CASE AddUnpend(c)
  BY <1>13 DEF AddUnpend
<1>14. CASE AddRelease(c)
  BY <1>14 DEF AddRelease, Return
<1>15. CASE AddCleanup(c)
  BY <1>15 DEF AddCleanup
<1>16. CASE RemoveClaim(c)
  BY <1>16 DEF RemoveClaim
<1>17. CASE RemoveReturn(c)
  BY <1>17 DEF RemoveReturn, AddStep
<1>18. CASE StopTerm(c)
  BY <1>18 DEF StopTerm
<1>19. CASE StopKill(c)
  BY <1>19 DEF StopKill
<1>20. CASE StopDone(c)
  BY <1>20 DEF StopDone, Return
<1>21. CASE Watcher(c)
  BY <1>21 DEF Watcher
<1> QED
  BY <1>1, <1>2, <1>3, <1>4, <1>5, <1>6, <1>7, <1>8, <1>9, <1>10, <1>11,
     <1>12, <1>13, <1>14, <1>15, <1>16, <1>17, <1>18, <1>19, <1>20, <1>21
  DEF CallNext, AddNext, StopStep

LEMMA LeaseCall ==
  ASSUME TypeInv, ChildLife, LeaseInv, NEW c \in Calls, CallNext(c) \/ Watcher(c)
  PROVE  LeaseInv'
<1> USE DynamicBackendsAssumption
    DEF TypeInv, DynType, DynTypeOK, KernelTypeOK, ChildLife, LeaseInv, Unborn,
        Running, kernelVars
<1>1. CASE AddClaim(c)
  BY <1>1 DEF AddClaim
<1>2. CASE AddReserve(c)
  <2> SUFFICES ASSUME UseHook PROVE LeaseInv'
    BY DEF LeaseInv
  <2>1. PICK a \in DynAddrs :
          /\ Allocatable(a)
          /\ addr' = [addr EXCEPT ![c] = a]
    BY <1>2 DEF AddReserve
  <2>2. \A d \in Calls : addr[d] = a => lease[d] # "held"
    BY <2>1 DEF Allocatable
  <2>3. /\ lease' = [lease EXCEPT ![c] = "held"]
        /\ pc' = [pc EXCEPT ![c] = "reserved"]
        /\ proc' = proc
    BY <1>2 DEF AddReserve
  <2>4. \A d \in Calls : d # c => addr'[d] = addr[d] /\ lease'[d] = lease[d]
    BY <2>1, <2>3
  <2>5. addr'[c] = a /\ lease'[c] = "held"
    BY <2>1, <2>3
  <2> QED
    BY <2>2, <2>3, <2>4, <2>5
<1>3. CASE AddReserveFails(c)
  BY <1>3 DEF AddReserveFails
<1>4. CASE AddConfig(c)
  BY <1>4 DEF AddConfig
<1>5. CASE AddStart(c)
  BY <1>5 DEF AddStart, Spawn
<1>6. CASE AddDial(c)
  BY <1>6 DEF AddDial, AddStep
<1>7. CASE AddDialed(c)
  BY <1>7 DEF AddDialed, AddStep, AddGiveUp
<1>8. CASE AddNotReady(c)
  BY <1>8 DEF AddNotReady, AddGiveUp
<1>9. CASE AddInodes(c)
  BY <1>9 DEF AddInodes, AddStep, AddGiveUp
<1>10. CASE AddFds(c)
  BY <1>10 DEF AddFds, AddStep, AddGiveUp
<1>11. CASE AddPublish(c)
  BY <1>11 DEF AddPublish
<1>12. CASE AddRefused(c)
  BY <1>12 DEF AddRefused
<1>13. CASE AddUnpend(c)
  BY <1>13 DEF AddUnpend
<1>14. CASE AddRelease(c)
  BY <1>14 DEF AddRelease, Return
<1>15. CASE AddCleanup(c)
  BY <1>15 DEF AddCleanup
<1>16. CASE RemoveClaim(c)
  BY <1>16 DEF RemoveClaim
<1>17. CASE RemoveReturn(c)
  BY <1>17 DEF RemoveReturn, AddStep
<1>18. CASE StopTerm(c)
  BY <1>18 DEF StopTerm
<1>19. CASE StopKill(c)
  BY <1>19 DEF StopKill
<1>20. CASE StopDone(c)
  BY <1>20 DEF StopDone, Return
<1>21. CASE Watcher(c)
  BY <1>21 DEF Watcher
<1> QED
  BY <1>1, <1>2, <1>3, <1>4, <1>5, <1>6, <1>7, <1>8, <1>9, <1>10, <1>11,
     <1>12, <1>13, <1>14, <1>15, <1>16, <1>17, <1>18, <1>19, <1>20, <1>21
  DEF CallNext, AddNext, StopStep

\* Steps that leave the calls, their children and their leases alone.
LEMMA LifeFrame ==
  ASSUME ChildLife, LeaseInv, UNCHANGED <<lease, pc, addr>>,
         \A c \in Calls : proc'[c] = proc[c] /\ victim'[c] = victim[c]
  PROVE  ChildLife' /\ LeaseInv'
  BY DEF ChildLife, LeaseInv, Running

LEMMA LifeRun ==
  ASSUME TypeInv, ChildLife, LeaseInv, RunStep
  PROVE  ChildLife' /\ LeaseInv'
<1>1. UNCHANGED <<lease, pc, addr>>
  BY DEF RunStep, BootFails, CrashedStop, Joined, AfterAttempt, MainDial,
         BackoffCancelled, StopAllDone, MainNotReady, MainCrashed, MainExited,
         ShutdownDone, NotReadyStop, ReadyShutdown, Go, Unhealthy, BootDynamic,
         ServeEnds, BootStatic, RunReturns, MainReady, BackoffElapsed, StopAll,
         StopNext, SpawnMain, TerminateMain, ShutdownKill, callVars, dynVars
<1>2. \A c \in Calls : proc'[c] = proc[c]
  <2>1. CASE SpawnMain
    BY <2>1, DynamicBackendsAssumption
    DEF SpawnMain, Spawn, TypeInv, KernelTypeOK
  <2>2. CASE ~SpawnMain
    BY <2>2
    DEF RunStep, BootFails, CrashedStop, Joined, AfterAttempt, MainDial,
        BackoffCancelled, StopAllDone, MainNotReady, MainCrashed, MainExited,
        ShutdownDone, NotReadyStop, ReadyShutdown, Go, Unhealthy, BootDynamic,
        ServeEnds, BootStatic, RunReturns, MainReady, BackoffElapsed, StopAll,
        StopNext, TerminateMain, ShutdownKill, kernelVars
  <2> QED
    BY <2>1, <2>2
<1>3. \A c \in Calls : victim'[c] = victim[c]
  <2>1. CASE StopNext
    BY <2>1, DynamicBackendsAssumption
    DEF StopNext, TypeInv, DynType, DynTypeOK
  <2>2. CASE ~StopNext
    BY <2>2
    DEF RunStep, BootFails, CrashedStop, Joined, AfterAttempt, MainDial,
        BackoffCancelled, StopAllDone, MainNotReady, MainCrashed, MainExited,
        ShutdownDone, NotReadyStop, ReadyShutdown, Go, Unhealthy, BootDynamic,
        ServeEnds, BootStatic, RunReturns, MainReady, BackoffElapsed, StopAll,
        SpawnMain, TerminateMain, ShutdownKill, stopVars, dynVars
  <2> QED
    BY <2>1, <2>2
<1> QED
  BY <1>1, <1>2, <1>3, LifeFrame

LEMMA LifeStopMain ==
  ASSUME TypeInv, ChildLife, LeaseInv, StopStep(Main)
  PROVE  ChildLife' /\ LeaseInv'
<1> USE DynamicBackendsAssumption
<1>1. CASE StopTerm(Main) \/ StopKill(Main)
  BY <1>1, LifeFrame DEF StopTerm, StopKill
<1>2. CASE StopDone(Main)
  <2>1. ChildLife'
    BY <1>2 DEF StopDone, ChildLife, Running, kernelVars, TypeInv, DynType,
                DynTypeOK
  <2>2. LeaseInv'
    <3> USE DEF TypeInv, DynType, DynTypeOK
    <3>1. /\ lease' = [lease EXCEPT ![victim[Main]] =
                          IF @ = "held" THEN "returned" ELSE @]
          /\ proc[victim[Main]] = "gone"
          /\ UNCHANGED <<pc, addr, proc>>
      BY <1>2 DEF StopDone, Return, kernelVars
    <3>2. \A c \in Calls : c # victim[Main] => lease'[c] = lease[c]
      BY <3>1
    <3>3. \A c \in Calls : lease'[c] = "held" => lease[c] = "held"
      BY <3>1
    <3>4. \A c \in Calls : c = victim[Main] => ~Running(c) /\ pc[c] \notin Unborn
      BY <3>1 DEF Running, ChildLife
    <3> QED
      BY <3>1, <3>2, <3>3, <3>4 DEF LeaseInv, Running, Unborn
  <2> QED
    BY <2>1, <2>2
<1> QED
  BY <1>1, <1>2 DEF StopStep

\* The host kills and reaps children, which never makes one running.
LEMMA LifeHost ==
  ASSUME TypeInv, ChildLife, LeaseInv, Host
  PROVE  ChildLife' /\ LeaseInv'
<1>1. UNCHANGED <<lease, pc, addr, victim>>
  BY DEF Host, dynVars, stopVars
<1>2. \A c \in Calls : /\ Running(c)' => Running(c)
                       /\ proc[c] = "none" => proc'[c] = "none"
  BY DynamicBackendsAssumption
  DEF Host, HostStep, ChildBind, ChildExit, Reap, ForeignBind, ForeignClose,
      Running, TypeInv, KernelTypeOK
<1> QED
  BY <1>1, <1>2 DEF ChildLife, LeaseInv, Running

LEMMA LifeInvoke ==
  ASSUME TypeInv, ChildLife, LeaseInv, NEW c \in Calls, NEW k \in Keys,
         NEW op \in {"add", "remove"}, Invoke(c, k, op)
  PROVE  ChildLife' /\ LeaseInv'
  BY DEF Invoke, ChildLife, LeaseInv, Unborn, Running, kernelVars, stopVars,
         TypeInv, DynType, DynTypeOK

LEMMA LifeStep == LifeInv /\ [Next]_vars => LifeInv'
<1> SUFFICES ASSUME LifeInv, [Next]_vars PROVE LifeInv'
  OBVIOUS
<1>1. TypeInv'
  BY TypeStep DEF LifeInv
<1>2. CASE Start \/ Cancel \/ UNCHANGED vars
  BY <1>1, <1>2, LifeFrame
  DEF LifeInv, Start, Cancel, vars, kernelVars, dynVars, stopVars
<1>3. CASE Runner
  BY <1>1, <1>3, LifeRun, LifeStopMain DEF LifeInv, Runner
<1>4. CASE Host
  BY <1>1, <1>4, LifeHost DEF LifeInv
<1>5. ASSUME NEW c \in Calls, Goroutine(c) PROVE LifeInv'
  BY <1>1, <1>5, ChildLifeCall, LeaseCall DEF LifeInv, Goroutine
<1>6. ASSUME NEW c \in Calls, NEW k \in Keys, NEW op \in {"add", "remove"},
             Invoke(c, k, op)
      PROVE  LifeInv'
  BY <1>1, <1>6, LifeInvoke DEF LifeInv
<1> QED
  BY <1>2, <1>3, <1>4, <1>5, <1>6 DEF Next

\* The embedder's address is returned no earlier than the runtime stopped using
\* it, for any number of concurrent adds, removes and runs.
THEOREM LeaseSafe == Spec => []LeaseHeldWhileRunning
<1>1. Init => LifeInv
  BY TypeInit, LifeInit DEF LifeInv
<1>2. LifeInv => LeaseHeldWhileRunning
  BY DEF LifeInv, LeaseInv, LeaseHeldWhileRunning
<1> QED
  BY <1>1, <1>2, LifeStep, PTL DEF Spec

\* With the embedder's allocator no two live runtimes are ever told to bind the
\* same address, not even across a Stop and a Start of the runner.
THEOREM AddressSafe == ASSUME UseHook PROVE Spec => []AddressPromisedOnce
<1>1. Init => LifeInv
  BY TypeInit, LifeInit DEF LifeInv
<1>2. LifeInv => AddressPromisedOnce
  BY DEF LifeInv, LeaseInv, Running, AddressPromisedOnce
<1> QED
  BY <1>1, <1>2, LifeStep, PTL DEF Spec

-----------------------------------------------------------------------------
(***************************************************************************)
(* Ownership of a published address.                                       *)
(*                                                                         *)
(* The check reads /proc in two steps and the publication is a third one.  *)
(* What carries the verdict over is that a live child does not give up its *)
(* socket: while the add is between the check and the publication, and as  *)
(* long as the backend is published, "owned unless dead" stays true.       *)
(***************************************************************************)
\* Adds that have an address, and adds that are past the ownership check.
Addressed == {"reserved", "configured", "added"} \cup Starting
Checked == {"mine", "publish", "added"}

\* An address was reserved, and only a finished add is published.
Placed ==
    /\ \A c \in Calls : pc[c] \in Addressed => addr[c] \in DynAddrs
    /\ \A k \in Keys : dynamic[k] # None => pc[dynamic[k]] = "added"

Owned ==
    ProcFS => \A c \in Calls : pc[c] \in Checked /\ proc[c] = "up"
                               => listener[addr[c]] = c

OwnInv == Placed /\ Owned

LEMMA OwnInit == Init => Placed /\ Owned
  BY DEF Init, DynInit, Placed, Owned, Addressed, Checked, Starting

LEMMA PlacedCall ==
  ASSUME TypeInv, Placed, NEW c \in Calls, CallNext(c) \/ Watcher(c)
  PROVE  Placed'
<1> USE DynamicBackendsAssumption
    DEF TypeInv, DynType, DynTypeOK, KeyKnown, Placed, Addressed, Starting,
        registryVars
<1>1. CASE AddClaim(c)
  BY <1>1 DEF AddClaim
<1>2. CASE AddReserve(c)
  BY <1>2 DEF AddReserve
<1>3. CASE AddReserveFails(c)
  BY <1>3 DEF AddReserveFails
<1>4. CASE AddConfig(c)
  BY <1>4 DEF AddConfig
<1>5. CASE AddStart(c)
  BY <1>5 DEF AddStart, Spawn
<1>6. CASE AddDial(c)
  BY <1>6 DEF AddDial, AddStep
<1>7. CASE AddDialed(c)
  BY <1>7 DEF AddDialed, AddStep, AddGiveUp
<1>8. CASE AddNotReady(c)
  BY <1>8 DEF AddNotReady, AddGiveUp
<1>9. CASE AddInodes(c)
  BY <1>9 DEF AddInodes, AddStep, AddGiveUp
<1>10. CASE AddFds(c)
  BY <1>10 DEF AddFds, FdsUnreadable, AddStep, AddGiveUp
<1>11. CASE AddPublish(c)
  BY <1>11 DEF AddPublish
<1>12. CASE AddRefused(c)
  BY <1>12 DEF AddRefused
<1>13. CASE AddUnpend(c)
  BY <1>13 DEF AddUnpend
<1>14. CASE AddRelease(c)
  BY <1>14 DEF AddRelease
<1>15. CASE AddCleanup(c)
  BY <1>15 DEF AddCleanup
<1>16. CASE RemoveClaim(c)
  BY <1>16 DEF RemoveClaim
<1>17. CASE RemoveReturn(c)
  BY <1>17 DEF RemoveReturn, AddStep
<1>18. CASE StopTerm(c)
  BY <1>18 DEF StopTerm
<1>19. CASE StopKill(c)
  BY <1>19 DEF StopKill
<1>20. CASE StopDone(c)
  BY <1>20 DEF StopDone
<1>21. CASE Watcher(c)
  BY <1>21 DEF Watcher
<1> QED
  BY <1>1, <1>2, <1>3, <1>4, <1>5, <1>6, <1>7, <1>8, <1>9, <1>10, <1>11,
     <1>12, <1>13, <1>14, <1>15, <1>16, <1>17, <1>18, <1>19, <1>20, <1>21
  DEF CallNext, AddNext, StopStep

LEMMA OwnedCall ==
  ASSUME TypeInv, ChildLife, Placed, Owned, NEW c \in Calls,
         CallNext(c) \/ Watcher(c)
  PROVE  Owned'
<1> USE DynamicBackendsAssumption
    DEF TypeInv, DynType, DynTypeOK, KernelTypeOK, ChildLife, Owned, Checked,
        Unborn, kernelVars
<1>1. CASE AddClaim(c)
  BY <1>1 DEF AddClaim
<1>2. CASE AddReserve(c)
  BY <1>2 DEF AddReserve
<1>3. CASE AddReserveFails(c)
  BY <1>3 DEF AddReserveFails
<1>4. CASE AddConfig(c)
  BY <1>4 DEF AddConfig
<1>5. CASE AddStart(c)
  BY <1>5 DEF AddStart, Spawn
<1>6. CASE AddDial(c)
  BY <1>6 DEF AddDial, AddStep
<1>7. CASE AddDialed(c)
  BY <1>7 DEF AddDialed, AddStep, AddGiveUp
<1>8. CASE AddNotReady(c)
  BY <1>8 DEF AddNotReady, AddGiveUp
<1>9. CASE AddInodes(c)
  BY <1>9 DEF AddInodes, AddStep, AddGiveUp
<1>10. CASE AddFds(c)
  BY <1>10 DEF AddFds, FdsUnreadable, AddStep, AddGiveUp
<1>11. CASE AddPublish(c)
  BY <1>11 DEF AddPublish
<1>12. CASE AddRefused(c)
  BY <1>12 DEF AddRefused
<1>13. CASE AddUnpend(c)
  BY <1>13 DEF AddUnpend
<1>14. CASE AddRelease(c)
  BY <1>14 DEF AddRelease
<1>15. CASE AddCleanup(c)
  BY <1>15 DEF AddCleanup
<1>16. CASE RemoveClaim(c)
  BY <1>16 DEF RemoveClaim
<1>17. CASE RemoveReturn(c)
  BY <1>17 DEF RemoveReturn, AddStep
<1>18. CASE StopTerm(c)
  BY <1>18 DEF StopTerm
<1>19. CASE StopKill(c)
  BY <1>19 DEF StopKill
<1>20. CASE StopDone(c)
  BY <1>20 DEF StopDone
<1>21. CASE Watcher(c)
  BY <1>21 DEF Watcher
<1> QED
  BY <1>1, <1>2, <1>3, <1>4, <1>5, <1>6, <1>7, <1>8, <1>9, <1>10, <1>11,
     <1>12, <1>13, <1>14, <1>15, <1>16, <1>17, <1>18, <1>19, <1>20, <1>21
  DEF CallNext, AddNext, StopStep

\* The run goroutine publishes nothing and touches no child but its own.
LEMMA OwnRun ==
  ASSUME TypeInv, Placed, Owned, RunStep
  PROVE  Placed' /\ Owned'
<1>1. UNCHANGED <<pc, addr, listener>>
  BY DEF RunStep, BootFails, CrashedStop, Joined, AfterAttempt, MainDial,
      BackoffCancelled, StopAllDone, MainNotReady, MainCrashed, MainExited,
      ShutdownDone, NotReadyStop, ReadyShutdown, Go, Unhealthy, BootDynamic,
      ServeEnds, BootStatic, RunReturns, MainReady, BackoffElapsed, StopAll,
      StopNext, SpawnMain, TerminateMain, ShutdownKill, callVars, dynVars, kernelVars
<1>2. \A c \in Calls : proc'[c] = proc[c]
  <2>1. CASE SpawnMain
    BY <2>1, DynamicBackendsAssumption
    DEF SpawnMain, Spawn, TypeInv, KernelTypeOK
  <2>2. CASE ~SpawnMain
    BY <2>2
    DEF RunStep, BootFails, CrashedStop, Joined, AfterAttempt, MainDial,
        BackoffCancelled, StopAllDone, MainNotReady, MainCrashed, MainExited,
        ShutdownDone, NotReadyStop, ReadyShutdown, Go, Unhealthy, BootDynamic,
        ServeEnds, BootStatic, RunReturns, MainReady, BackoffElapsed, StopAll,
        StopNext, TerminateMain, ShutdownKill, kernelVars
  <2> QED
    BY <2>1, <2>2
<1>3. \A k \in Keys : dynamic'[k] \in {dynamic[k], None}
  <2>1. CASE StopAll
    BY <2>1 DEF StopAll
  <2>2. CASE ~StopAll
    BY <2>2
    DEF RunStep, BootFails, CrashedStop, Joined, AfterAttempt, MainDial,
        BackoffCancelled, StopAllDone, MainNotReady, MainCrashed, MainExited,
        ShutdownDone, NotReadyStop, ReadyShutdown, Go, Unhealthy, BootDynamic,
        ServeEnds, BootStatic, RunReturns, MainReady, BackoffElapsed,
        StopNext, SpawnMain, TerminateMain, ShutdownKill, registryVars, dynVars
  <2> QED
    BY <2>1, <2>2
<1> QED
  BY <1>1, <1>2, <1>3 DEF Placed, Owned

\* A live child keeps its listener whatever the other processes do.
LEMMA OwnHost ==
  ASSUME TypeInv, Placed, Owned, Host
  PROVE  Placed' /\ Owned'
<1>1. UNCHANGED <<pc, addr, dynamic>>
  BY DEF Host, dynVars, registryVars
<1>2. ASSUME NEW c \in Calls, proc'[c] = "up", addr[c] \in DynAddrs,
             listener[addr[c]] = c
      PROVE  listener'[addr[c]] = c
  BY <1>2, LoopbackAssumption, DynamicBackendsAssumption
  DEF Host, HostStep, ChildBind, ChildExit, Reap, ForeignBind, ForeignClose,
      TypeInv, KernelTypeOK
<1>3. \A c \in Calls : proc'[c] = "up" => proc[c] = "up"
  BY DynamicBackendsAssumption
  DEF Host, HostStep, ChildBind, ChildExit, Reap, ForeignBind, ForeignClose,
      TypeInv, KernelTypeOK
<1>4. Checked \subseteq Addressed
  BY DEF Checked, Addressed, Starting
<1> QED
  BY <1>1, <1>2, <1>3, <1>4 DEF Placed, Owned

LEMMA OwnStep == LifeInv /\ OwnInv /\ [Next]_vars => OwnInv'
<1> SUFFICES ASSUME LifeInv, OwnInv, [Next]_vars PROVE Placed' /\ Owned'
  BY DEF OwnInv
<1> USE DEF OwnInv, LifeInv
<1>1. CASE Start \/ Cancel \/ UNCHANGED vars
  BY <1>1 DEF Start, Cancel, vars, kernelVars, dynVars, registryVars, Placed,
              Owned
<1>2. CASE RunStep
  BY <1>2, OwnRun
<1>3. CASE StopStep(Main)
  BY <1>3 DEF StopStep, StopTerm, StopKill, StopDone, registryVars, kernelVars,
              Placed, Owned
<1>4. CASE Host
  BY <1>4, OwnHost
<1>5. ASSUME NEW c \in Calls, Goroutine(c) PROVE Placed' /\ Owned'
  BY <1>5, PlacedCall, OwnedCall DEF Goroutine
<1>6. ASSUME NEW c \in Calls, NEW k \in Keys, NEW op \in {"add", "remove"},
             Invoke(c, k, op)
      PROVE  Placed' /\ Owned'
  BY <1>6, DynamicBackendsAssumption
  DEF Invoke, Placed, Owned, Addressed, Checked, Starting, registryVars,
      kernelVars, TypeInv, DynType, DynTypeOK
<1> QED
  BY <1>1, <1>2, <1>3, <1>4, <1>5, <1>6 DEF Next, Runner

\* Where /proc tells who listens, a published backend with a live child is
\* reached at its own child, for any number of calls, children and foreign
\* processes.
THEOREM PublishedSafe == Spec => []PublishedOwned
<1>1. Init => LifeInv /\ OwnInv
  BY TypeInit, LifeInit, OwnInit DEF LifeInv, OwnInv
<1>2. LifeInv /\ OwnInv => PublishedOwned
  BY DEF LifeInv, TypeInv, DynType, DynTypeOK, OwnInv, Placed, Owned, Checked,
         PublishedOwned
<1> QED
  BY <1>1, <1>2, LifeStep, OwnStep, PTL DEF Spec
=============================================================================
