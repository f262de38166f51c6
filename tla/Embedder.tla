------------------------------ MODULE Embedder ------------------------------
(***************************************************************************)
(* A program with one vialite Server in it, from its configuration to the  *)
(* addresses it dials: a caller of the package itself, Gate through its    *)
(* adapter (go/integration/gate), or the smoke proxy                       *)
(* (go/cmd/craftless-vialite-smoke-proxy), which drives the Server by one  *)
(* script and exits. Server is composed as it is; the runner is what       *)
(* Server takes it for, plus the address table it makes.                   *)
(***************************************************************************)
EXTENDS Server, Options

CONSTANTS
    Configs,    \* what an embedder may be configured with
    Names,      \* names a caller asks BackendDialAddress for
    Addrs       \* loopback addresses

\* The configuration of a caller of the package (its Options), of the adapter
\* (its YAML) and of the smoke proxy (its environment).
DirectConfigs ==
    [who : {"direct"}, mode : Modes \cup {"other"}, dynamic : BOOLEAN,
     pinned : BOOLEAN, backends : Seq(Backends)]
GateConfigs ==
    [who : {"gate"}, enabled : BOOLEAN, pinned : BOOLEAN, mode : Texts,
     backends : Seq(Backends)]
ProxyConfigs ==
    [who : {"smoke"}, port : BOOLEAN, mode : Texts, backends : Seq(Backends),
     command : {"unset", "malformed", "empty", "blank argument", "client"}]

ASSUME EmbedderAssumption ==
    /\ Configs \subseteq DirectConfigs \cup GateConfigs \cup ProxyConfigs
    /\ Names \subseteq Texts
    /\ {"not started", "not ready", "not found"} \cap Addrs = {}

VARIABLES
    config,     \* the embedder's configuration
    at,         \* where the embedder is
    opts,       \* Server.opts, and the caller's backends after a refusal
    verdict,    \* what New said
    bind,       \* backend -> the address the native runtime is told
    table,      \* the runner's backends
    code        \* the smoke proxy's exit code

embedderVars == <<config, at, opts, verdict, bind, table, code>>
allVars == <<vars, embedderVars>>

Smoke == config.who = "smoke"

\* Type invariant.
EmbedderTypeOK ==
    /\ TypeOK
    /\ at \in {"new", "refused", "disabled", "serving",
               "wait", "resolve", "client", "stop", "join", "exit"}
    /\ verdict \in Errors \cup {"none", "nil"}
    /\ bind \in [1..Len(bind) -> Addrs]
    /\ \A n \in DOMAIN table : table[n] \in Addrs
    /\ code \in {"none", "0", "1"}

EmbedderInit ==
    /\ Init
    /\ config \in Configs
    /\ at = "new"
    /\ opts = [backends |-> config.backends]
    /\ verdict = "none"
    /\ bind = <<>> /\ table = <<>>
    /\ code = "none"

-----------------------------------------------------------------------------
\* The options the embedder calls vialite.New with.
OptionsOf(c) ==
    IF c.who = "gate" THEN ToOptions(c)
    ELSE IF c.who = "smoke" THEN SmokeOptions(c)
    ELSE Accept(c)

\* New, of the package or of the adapter.
New ==
    /\ at = "new"
    /\ LET o == OptionsOf(config)
           v == Validate(o.opts)
       IN  IF config.who = "gate" /\ ~config.enabled
           THEN at' = "disabled" /\ UNCHANGED <<opts, verdict, code>>
           ELSE IF o.err # "nil"
           THEN /\ verdict' = o.err
                /\ at' = IF Smoke THEN "exit" ELSE "refused"
                /\ code' = IF Smoke THEN "1" ELSE code
                /\ UNCHANGED opts
           ELSE /\ verdict' = v.err
                /\ opts' = [o.opts EXCEPT !.backends = v.backends]
                /\ at' = IF v.err # "nil" THEN IF Smoke THEN "exit" ELSE "refused"
                         ELSE IF Smoke THEN "wait" ELSE "serving"
                /\ code' = IF v.err # "nil" /\ Smoke THEN "1" ELSE code
    /\ UNCHANGED <<vars, config, bind, table>>

\* There is a Server, in a process that lives.
Alive == at \notin {"new", "refused", "disabled", "exit"}

\* The runner picks its backends' addresses: one that is pinned cannot be
\* shared. The kernel may give a freed port twice (reserve, close, reserve).
Allocate(s) ==
    /\ Alive /\ pc[s] = "running" /\ bind = <<>>
    /\ opts.pinned => Len(opts.backends) = 1
    /\ \E a \in [DOMAIN opts.backends -> Addrs] :
          /\ table' = AddressTable(opts.backends, a)
          /\ bind' = [i \in DOMAIN a |-> NativeBind(table', opts.backends[i])]
    /\ UNCHANGED <<vars, config, at, opts, verdict, code>>

\* The native runtime takes one forwarding mode for all its backends.
NativeAccepts ==
    \A i, j \in DOMAIN opts.backends :
        opts.backends[i].forwarding = opts.backends[j].forwarding

\* The runtime is up: with every backend bound, or with none to bind.
Publishes(s) ==
    /\ Alive
    /\ bind # <<>> \/ opts.backends = <<>>
    /\ NativeAccepts
    /\ RunPublishes(s)
    /\ UNCHANGED embedderVars

\* What a caller that asks for a name now is answered. A disabled adapter has
\* no Server: it is one that was never started.
BackendDialAddress(name) ==
    IF ~started THEN "not started"
    ELSE IF ~ready THEN "not ready"
    ELSE BackendAddress(table, name)

\* What the adapter's Start returns: a context that ended, by a cancellation or by
\* a deadline, is no failure.
ViaStart(s) == IF result[s] \in {"canceled", "deadline"} THEN "nil" ELSE result[s]

-----------------------------------------------------------------------------
(***************************************************************************)
(* The smoke proxy. Leaving run ends the process, whatever still runs.     *)
(***************************************************************************)
Exit(c) == at' = "exit" /\ code' = c

SmokeWait(w) ==
    /\ Smoke /\ at = "wait"
    /\ WaitBegin(w)
    /\ UNCHANGED embedderVars

SmokeReady(w) ==
    /\ Smoke /\ at = "wait"
    /\ wpc[w] \in Errs \cup {"timeout"}
    /\ IF wpc[w] = "nil" THEN at' = "resolve" /\ UNCHANGED code ELSE Exit("1")
    /\ UNCHANGED <<vars, config, opts, verdict, bind, table>>

SmokeResolve ==
    /\ Smoke /\ at = "resolve"
    /\ IF BackendDialAddress(opts.backends[1].name) \in Addrs
       THEN at' = "client" /\ UNCHANGED code
       ELSE Exit("1")
    /\ UNCHANGED <<vars, config, opts, verdict, bind, table>>

\* The client command ends.
SmokeClient ==
    /\ Smoke /\ at = "client"
    /\ (at' = "stop" /\ UNCHANGED code) \/ Exit("1")
    /\ UNCHANGED <<vars, config, opts, verdict, bind, table>>

SmokeStop(t) ==
    /\ Smoke /\ at = "stop"
    /\ StopBegin(t)
    /\ UNCHANGED embedderVars

\* Stop came back: a Server that is not started any more is as good as stopped.
SmokeStopped(t) ==
    /\ Smoke /\ at = "stop"
    /\ spc[t] \in Errs \cup {"notstarted", "timeout"}
    /\ IF spc[t] \in {"nil", "notstarted"}
       THEN /\ at' = "join"
            /\ cancelled' = Starts
            /\ UNCHANGED code
       ELSE Exit("1") /\ UNCHANGED cancelled
    /\ UNCHANGED <<serverVars, closed, done, startVars, waitVars, stopVars, config,
                   opts, verdict, bind, table>>

\* Mutant: any end of Start will do.
SmokeJoin_Any(s) ==
    /\ Smoke /\ at = "join"
    /\ pc[s] = "returned" /\ Exit("0")
    /\ UNCHANGED <<vars, config, opts, verdict, bind, table>>

\* The outcome of Start arrives, or five seconds pass.
SmokeJoin(s) ==
    /\ Smoke /\ at = "join"
    /\ \/ /\ pc[s] = "returned"
          /\ Exit(IF result[s] \in {"nil", "canceled"} THEN "0" ELSE "1")
       \/ Exit("1")
    /\ UNCHANGED <<vars, config, opts, verdict, bind, table>>

-----------------------------------------------------------------------------
\* The goroutine that runs Start.
StartStep(s) ==
    /\ Alive
    /\ StartBegin(s) \/ RunReturns(s) \/ StartTail(s)
    /\ UNCHANGED embedderVars

\* Mutant: WaitReady and Stop are called with a context that never ends.
CallStep_NoDeadline(w, t) ==
    /\ Alive
    /\ WaitProgress(w) \/ StopReturns(t)
    /\ UNCHANGED embedderVars

\* A WaitReady and a Stop under way. The smoke proxy's contexts always have a
\* deadline: envDuration takes no duration that is zero, negative or malformed.
CallStep(w, t) ==
    /\ Alive
    /\ WaitProgress(w) \/ WaitTimesOut(w) \/ StopReturns(t) \/ StopTimesOut(t)
    /\ UNCHANGED embedderVars

\* Calls of an embedder without a script, and the end of its context.
FreeCall(s, w, t) ==
    /\ at = "serving"
    /\ WaitBegin(w) \/ StopBegin(t) \/ ParentCancels(s)
    /\ UNCHANGED embedderVars

\* What the smoke proxy does by itself, except for waiting for its client.
SmokeStep(s, w, t) ==
    \/ SmokeWait(w) \/ SmokeReady(w) \/ SmokeResolve
    \/ SmokeStop(t) \/ SmokeStopped(t) \/ SmokeJoin(s)
    \/ (Smoke /\ CallStep(w, t))

EmbedderNext ==
    \/ New \/ SmokeClient
    \/ \E s \in Starts : Allocate(s) \/ Publishes(s) \/ StartStep(s)
    \/ \E s \in Starts, w \in Waits, t \in Stops :
          SmokeStep(s, w, t) \/ FreeCall(s, w, t) \/ (~Smoke /\ CallStep(w, t))

EmbedderSpec == EmbedderInit /\ [][EmbedderNext]_allVars

\* The proxy's own goroutine runs on, and its deadlines pass. Nothing is assumed
\* of the runtime, of Start, or of the callers of the other embedders.
EmbedderFairSpec ==
    /\ EmbedderSpec
    /\ WF_allVars(New)
    /\ \A s \in Starts, w \in Waits, t \in Stops : WF_allVars(SmokeStep(s, w, t))

-----------------------------------------------------------------------------
\* However a caller spells a backend's name, it is sent to the listener that the
\* native runtime was told to open for that backend, and every configured name is
\* found, unless the run ended before it had a table (options.go, config.go,
\* storeBackendAddress and BackendDialAddress together).
DialAgrees ==
    \A n \in Names :
        LET addr == BackendDialAddress(n)
            same == {i \in DOMAIN opts.backends :
                       backendLookupName(opts.backends[i].name)
                         = backendLookupName(n)}
        IN  /\ addr \in Addrs => same # {} /\ \A i \in same : bind[i] = addr
            /\ addr = "not found" => same = {} \/ bind = <<>>

\* validate writes into its caller's Backends. Calling New again with what it
\* left there changes neither the verdict nor the backends: a caller may retry
\* with the same Options.
RetriedAlike ==
    at \notin {"new", "disabled"} /\ "mode" \in DOMAIN opts =>
        Validate(opts) = [err |-> verdict, backends |-> opts.backends]

\* What the callers of a Server that is started once hear of its run is true: a
\* nil from WaitReady means that the run published its addresses, or was
\* cancelled before it could, and Gate hears the same end of it from the Start
\* that returns and from the Stop that ended it, except for a run that ended by a
\* deadline: Start takes that for a clean end (gate.go:51), Stop reports it
\* (server.go:135).
ReportsTruthful ==
    /\ \A w \in Waits : wpc[w] = "nil" => wch[w] \in published \cup cancelled
    /\ \A t \in Stops :
          spc[t] \in Errs =>
              spc[t] = IF result[sch[t]] = "deadline"
                       THEN "deadline" ELSE ViaStart(sch[t])

\* The smoke proxy reports success only if its client went through a published
\* runtime and that run has returned without an error.
SmokeCleanExit ==
    code = "0" =>
        \A s \in Starts : /\ s \in published
                          /\ pc[s] = "returned"
                          /\ result[s] \in {"nil", "canceled"}

\* The smoke proxy never hangs on its runtime: it gets to its client or exits,
\* and once the client is done it exits, even if the runner never returns.
SmokeReturns ==
    /\ Smoke ~> at \in {"client", "exit"}
    /\ Smoke /\ at = "stop" ~> at = "exit"
=============================================================================
