------------------------------ MODULE Loopback ------------------------------
(***************************************************************************)
(* The operating system the subprocess runner works against, modelled from *)
(* how go/subprocess.go and go/listener_owner_linux.go use it: which       *)
(* process holds the listening socket of a loopback address, and the life  *)
(* of a child process from cmd.Start to the moment cmd.Wait has returned.  *)
(*                                                                         *)
(*   "up"      running; it may bind its address, die, or ignore SIGTERM    *)
(*   "zombie"  dead, its sockets closed, not waited for yet                *)
(*   "gone"    cmd.Wait returned and the done channel is closed            *)
(*                                                                         *)
(* Other processes of the host (a Gate bridge listener, say) bind and      *)
(* release addresses whenever they like: they are Foreign.                 *)
(***************************************************************************)
CONSTANTS
    Addrs,        \* loopback addresses (host:port)
    Procs,        \* child processes
    ForeignAddrs, \* addresses some other process of the host may bind
    Foreign,      \* the owner of a listener no child of ours holds
    Free,         \* "nobody listens here"
    Obedient      \* TRUE: every child exits on SIGTERM; FALSE: it may ignore it

ASSUME LoopbackAssumption ==
    /\ ForeignAddrs \subseteq Addrs
    /\ Foreign \notin Procs
    /\ Free \notin Procs \cup {Foreign}
    /\ Obedient \in BOOLEAN

VARIABLES
    listener,     \* who holds the listening socket of each address
    proc,         \* state of each child process
    sig           \* the strongest signal sent to it: "no", "term" or "kill"

kernelVars == <<listener, proc, sig>>

ProcState == {"none", "up", "zombie", "gone"}

KernelTypeOK ==
    /\ listener \in [Addrs -> Procs \cup {Foreign, Free}]
    /\ proc \in [Procs -> ProcState]
    /\ sig \in [Procs -> {"no", "term", "kill"}]

KernelInit ==
    /\ listener \in [Addrs -> {Foreign, Free}]
    /\ \A a \in Addrs \ ForeignAddrs : listener[a] = Free
    /\ proc = [p \in Procs |-> "none"]
    /\ sig = [p \in Procs |-> "no"]

(***************************************************************************)
(* What the runner's own steps do to a child.                              *)
(***************************************************************************)
\* The child has not been waited for yet: proc.done is still open.
Running(p) == proc[p] \in {"up", "zombie"}

Spawn(p) ==
    /\ proc' = [proc EXCEPT ![p] = "up"]
    /\ sig' = [sig EXCEPT ![p] = "no"]

\* terminateProcess: SIGTERM on unix. A dead process is left alone
\* (os.ErrProcessDone), a killed one stays killed.
Terminate(p) == sig' = [sig EXCEPT ![p] = IF @ = "kill" THEN "kill" ELSE "term"]

Kill(p) == sig' = [sig EXCEPT ![p] = "kill"]

(***************************************************************************)
(* Steps of the host.                                                      *)
(***************************************************************************)
ChildBind(p, a) ==
    /\ proc[p] = "up"
    /\ listener[a] = Free
    /\ listener' = [listener EXCEPT ![a] = p]
    /\ UNCHANGED <<proc, sig>>

\* A child dies: it crashed, could not bind, or obeyed a signal. Its listening
\* sockets are closed with it.
ChildExit(p) ==
    /\ proc[p] = "up"
    /\ proc' = [proc EXCEPT ![p] = "zombie"]
    /\ listener' = [a \in Addrs |-> IF listener[a] = p THEN Free ELSE listener[a]]
    /\ UNCHANGED sig

\* The wait goroutine: cmd.Wait returns, waitErr is set, done is closed.
Reap(p) ==
    /\ proc[p] = "zombie"
    /\ proc' = [proc EXCEPT ![p] = "gone"]
    /\ UNCHANGED <<listener, sig>>

ForeignBind(a) ==
    /\ listener[a] = Free
    /\ listener' = [listener EXCEPT ![a] = Foreign]
    /\ UNCHANGED <<proc, sig>>

ForeignClose(a) ==
    /\ listener[a] = Foreign
    /\ listener' = [listener EXCEPT ![a] = Free]
    /\ UNCHANGED <<proc, sig>>

\* A signalled child that has to die: SIGKILL always works, SIGTERM when the
\* child obeys it.
DiesOfSignal(p) == sig[p] = "kill" \/ (Obedient /\ sig[p] = "term")
=============================================================================
