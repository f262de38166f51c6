--------------------------- MODULE EmbedderProofs ---------------------------
(***************************************************************************)
(* Theorems about Embedder: what an embedder's callers are told, for any   *)
(* configurations, names, addresses and calls.                             *)
(***************************************************************************)
EXTENDS Embedder, ServerProofs, OptionsProofs

-----------------------------------------------------------------------------
(***************************************************************************)
(* The inductive invariant, in three parts: the Server inside the embedder *)
(* (ServerInv of ServerProofs), the options and the address table, and     *)
(* what is known of the run.                                               *)
(***************************************************************************)
\* New has run once at most. What it accepted has distinct lookup names.
Configured ==
    /\ config \in Configs
    /\ at \in {"new", "refused", "disabled", "serving",
               "wait", "resolve", "client", "stop", "join", "exit"}
    /\ verdict \in Errors \cup {"none", "nil"}
    /\ code \in {"none", "0", "1"}
    /\ opts.backends \in Seq(Backends)
    /\ at = "new" => /\ opts = [backends |-> config.backends]
                     /\ bind = <<>> /\ table = <<>>
    /\ Alive => Distinct(opts.backends)

\* The table is made from the addresses the native runtime is told.
Allocated ==
    \/ bind = <<>> /\ table = <<>>
    \/ /\ Distinct(opts.backends)
       /\ bind \in [DOMAIN opts.backends -> Addrs]
       /\ table = AddressTable(opts.backends, bind)

OptionsInv == Configured /\ Allocated /\ RetriedAlike

Ended == {"ended", "marked", "stored", "unstarted", "unready", "returned"}

\* A run that returned nil had published or was cancelled; readyErr, runErr and
\* the channel of each WaitReady are those of the run.
Told ==
    /\ \A s \in Starts : pc[s] \in Ended /\ result[s] = "nil"
                           => s \in published \cup cancelled
    /\ \A s \in Starts : pc[s] \in Ended \ {"ended", "marked"}
                           => runErr = result[s]
    /\ cur = Null => ~readyClosed /\ \A s \in Starts : pc[s] \notin Accepted
    /\ readyClosed /\ readyErr = "nil" => cur \in published \cup cancelled
    /\ \A w \in Waits :
          /\ wpc[w] \in {"waiting", "woken"} \cup Errs => wch[w] \in Starts
          /\ wpc[w] = "woken" => wch[w] \in closed

\* Until the smoke proxy calls Stop nothing cancels its run, so that a nil from
\* WaitReady means that the run has published.
Waited ==
    Smoke =>
        /\ at \notin {"serving", "refused", "disabled"}
        /\ at \in {"new", "wait"} =>
              /\ \A s \in cancelled : pc[s] = "returned"
              /\ \A s \in Starts : pc[s] \in Ended /\ result[s] = "nil"
                                     => s \in published
              /\ readyClosed /\ readyErr = "nil" => cur \in published
              /\ \A w \in Waits : wpc[w] = "nil" => wch[w] \in published
        /\ at \in {"resolve", "client", "stop", "join"} => Starts \subseteq published

RunInv == Told /\ Waited /\ ReportsTruthful /\ SmokeCleanExit

EmbedderInv == ServerInv /\ OptionsInv /\ RunInv

-----------------------------------------------------------------------------
(***************************************************************************)
(* The Server inside. Every step of an embedder is a step of Server, or    *)
(* none of it, except that the smoke proxy cancels the context of its      *)
(* Start, running or not.                                                  *)
(***************************************************************************)
LEMMA InsideServer == ServerInv /\ [EmbedderNext]_allVars => ServerInv'
<1> SUFFICES ASSUME ServerInv, [EmbedderNext]_allVars PROVE ServerInv'
  OBVIOUS
<1>1. CASE UNCHANGED allVars \/ New \/ SmokeClient
  <2>1. UNCHANGED vars
    BY <1>1 DEF allVars, New, SmokeClient
  <2> QED
    BY <2>1, ServerStep
<1>2. ASSUME NEW s \in Starts, Allocate(s) \/ Publishes(s) \/ StartStep(s)
      PROVE  ServerInv'
  <2>1. [Next]_vars
    BY <1>2 DEF Allocate, Publishes, StartStep, Next
  <2> QED
    BY <2>1, ServerStep
<1>3. ASSUME NEW s \in Starts, NEW w \in Waits, NEW t \in Stops,
             \/ SmokeWait(w) \/ SmokeReady(w) \/ SmokeResolve \/ SmokeStop(t)
             \/ SmokeJoin(s) \/ CallStep(w, t) \/ FreeCall(s, w, t)
      PROVE  ServerInv'
  <2>1. [Next]_vars
    BY <1>3 DEF SmokeWait, SmokeReady, SmokeResolve, SmokeStop, SmokeJoin,
                CallStep, FreeCall, Next
  <2> QED
    BY <2>1, ServerStep
<1>4. ASSUME NEW t \in Stops, SmokeStopped(t) PROVE ServerInv'
  BY <1>4 DEF SmokeStopped, serverVars, startVars, waitVars, stopVars, ServerInv,
    TypeOK, HeldByCur, ChannelsOf, StopChannel, ReadyFlagTruthful,
    ReadyMeansPublished, StopJoins
<1> QED
  BY <1>1, <1>2, <1>3, <1>4 DEF EmbedderNext, SmokeStep

-----------------------------------------------------------------------------
(***************************************************************************)
(* The options and the address table.                                      *)
(***************************************************************************)
\* Options an embedder passes to New: a record validate may write into.
LEMMA OptionsPassed ==
  ASSUME NEW c \in Configs, OptionsOf(c).err = "nil"
  PROVE  LET o == OptionsOf(c).opts
         IN  /\ o.backends \in Seq(Backends)
             /\ \A bs : /\ [o EXCEPT !.backends = bs].backends = bs
                        /\ [o EXCEPT !.backends = bs].mode = o.mode
                        /\ [o EXCEPT !.backends = bs].dynamic = o.dynamic
<1>1. c \in DirectConfigs \/ c \in GateConfigs \/ c \in ProxyConfigs
  BY EmbedderAssumption
<1>2. CASE c \in DirectConfigs
  <2>1. OptionsOf(c).opts = c
    BY <1>2 DEF OptionsOf, Accept, DirectConfigs
  <2> QED
    BY <1>2, <2>1 DEF DirectConfigs
<1>3. CASE c \in ProxyConfigs
  <2>1. OptionsOf(c).opts = [mode |-> SmokeMode(c.mode), dynamic |-> FALSE,
                             pinned |-> FALSE, backends |-> c.backends]
    BY <1>3 DEF OptionsOf, SmokeOptions, Accept, Refuse, ProxyConfigs
  <2>2. c.backends \in Seq(Backends)
    BY <1>3 DEF ProxyConfigs
  <2> QED
    BY <2>1, <2>2
<1>4. CASE c \in GateConfigs
  <2> DEFINE parsed == [i \in DOMAIN c.backends |->
                          ParseForwarding(c.backends[i].forwarding)]
             mode == IF ToLower(c.mode) = Text("embedded") THEN "embedded"
                     ELSE "subprocess"
             bs == [i \in DOMAIN parsed |->
                      [c.backends[i] EXCEPT !.forwarding = parsed[i].mode]]
  <2>1. c.backends \in Seq(Backends) /\ c.who = "gate"
    BY <1>4 DEF GateConfigs
  <2>2. /\ OptionsOf(c).opts = [mode |-> mode, dynamic |-> FALSE,
                                pinned |-> c.pinned, backends |-> bs]
        /\ \A i \in DOMAIN parsed : parsed[i].err = "nil"
    BY <2>1 DEF OptionsOf, ToOptions, Accept, Refuse
  <2>3. bs \in Seq(Backends)
    <3>1. ASSUME NEW i \in DOMAIN c.backends PROVE bs[i] \in Backends
      <4>1. c.backends[i] \in Backends
        BY <2>1
      <4>2. ParseForwarding(c.backends[i].forwarding).err = "nil"
        BY <2>2
      <4>3. parsed[i].mode \in Texts
        <5>1. c.backends[i].forwarding \in Texts
          BY <4>1, TrimmedFields
        <5>2. ToLower(c.backends[i].forwarding) \in Texts
          BY <5>1 DEF Texts, ToLower
        <5> QED
          BY <4>2, <5>2, AutoPlain DEF ParseForwarding, Refuse
      <4>4. bs[i] = [c.backends[i] EXCEPT !.forwarding = parsed[i].mode]
        OBVIOUS
      <4> HIDE DEF parsed, bs
      <4> QED
        BY <4>1, <4>3, <4>4 DEF Backends
    <3>2. DOMAIN bs = 1..Len(c.backends) /\ Len(c.backends) \in Nat
      BY <2>1
    <3>3. bs \in [1..Len(c.backends) -> Backends]
      <4>1. bs = [i \in DOMAIN bs |-> bs[i]]
        OBVIOUS
      <4>2. DOMAIN c.backends = 1..Len(c.backends)
        BY <2>1
      <4> HIDE DEF bs
      <4> QED
        BY <3>1, <3>2, <4>1, <4>2
    <3> HIDE DEF bs
    <3> QED
      BY <3>2, <3>3
  <2> HIDE DEF bs, mode
  <2> QED
    BY <2>2, <2>3
<1> QED
  BY <1>1, <1>2, <1>3, <1>4

\* What an embedder's own parsers find wrong is one of the errors of New.
LEMMA ParserErrors ==
  ASSUME NEW c \in Configs
  PROVE  OptionsOf(c).err \in Errors \cup {"nil"}
BY DEF OptionsOf, ToOptions, SmokeOptions, Accept, Refuse, Errors

LEMMA OptionsInit == EmbedderInit => OptionsInv
<1> SUFFICES ASSUME EmbedderInit PROVE OptionsInv
  OBVIOUS
<1>1. config.backends \in Seq(Backends)
  BY EmbedderAssumption DEF EmbedderInit, DirectConfigs, GateConfigs, ProxyConfigs
<1> QED
  BY <1>1 DEF EmbedderInit, OptionsInv, Configured, Allocated, RetriedAlike, Alive

\* New, of all three embedders.
LEMMA OptionsNew == ASSUME OptionsInv, New PROVE OptionsInv'
<1> DEFINE o == OptionsOf(config)
           v == Validate(o.opts)
<1>1. /\ at = "new" /\ config \in Configs
      /\ opts = [backends |-> config.backends] /\ opts.backends \in Seq(Backends)
      /\ bind = <<>> /\ table = <<>> /\ code \in {"none", "0", "1"}
      /\ verdict \in Errors \cup {"none", "nil"}
      /\ config' = config /\ bind' = bind /\ table' = table
  BY DEF OptionsInv, Configured, New
<1>2. Allocated'
  BY <1>1 DEF Allocated
<1>3. CASE /\ at' \in {"disabled", "refused", "exit"}
           /\ UNCHANGED opts
           /\ verdict' \in {verdict, o.err}
           /\ code' \in {"1", code}
  <2>1. "mode" \notin DOMAIN opts'
    BY <1>1, <1>3
  <2> QED
    BY <1>1, <1>2, <1>3, <2>1, ParserErrors
    DEF OptionsInv, Configured, RetriedAlike, Alive
<1>4. CASE /\ o.err = "nil"
           /\ verdict' = v.err
           /\ opts' = [o.opts EXCEPT !.backends = v.backends]
           /\ at' = IF v.err # "nil" THEN IF Smoke THEN "exit" ELSE "refused"
                    ELSE IF Smoke THEN "wait" ELSE "serving"
           /\ code' = IF v.err # "nil" /\ Smoke THEN "1" ELSE code
  <2>1. /\ o.opts.backends \in Seq(Backends)
        /\ opts'.backends = v.backends /\ opts'.mode = o.opts.mode
        /\ opts'.dynamic = o.opts.dynamic
    BY <1>1, <1>4, OptionsPassed
  <2>2. v.backends \in Seq(Backends) /\ v.err \in Errors \cup {"nil"}
    BY <2>1, Rewritten, VerdictIn
  <2>3. v.err = "nil" => Distinct(v.backends)
    BY <2>1, AcceptedDistinct
  <2>4. Validate(opts') = v
    BY <2>1, ValidateAgain
  <2>5. v = [err |-> v.err, backends |-> v.backends]
    BY DEF Validate
  <2> HIDE DEF o, v
  <2>6. Configured'
    BY <1>1, <1>4, <2>1, <2>2, <2>3 DEF Configured, Alive
  <2>7. RetriedAlike'
    BY <1>4, <2>1, <2>4, <2>5 DEF RetriedAlike
  <2> QED
    BY <1>2, <2>6, <2>7 DEF OptionsInv
<1> QED
  BY <1>1, <1>3, <1>4 DEF New

\* The runner makes its address table.
LEMMA OptionsAllocate ==
  ASSUME OptionsInv, NEW s \in Starts, Allocate(s)
  PROVE  OptionsInv'
<1>1. /\ Alive /\ Distinct(opts.backends) /\ opts.backends \in Seq(Backends)
      /\ UNCHANGED <<config, at, opts, verdict, code>>
  BY DEF OptionsInv, Configured, Allocate
<1>2. PICK a \in [DOMAIN opts.backends -> Addrs] :
        /\ table' = AddressTable(opts.backends, a)
        /\ bind' = [i \in DOMAIN a |-> NativeBind(table', opts.backends[i])]
  BY DEF Allocate
<1>3. bind' = a
  <2>1. ASSUME NEW i \in DOMAIN opts.backends
        PROVE  NativeBind(table', opts.backends[i]) = a[i]
    <3>1. Serves(table', opts.backends, a)
      BY <1>1, <1>2, TableOf
    <3>2. /\ opts.backends[i].name \in DOMAIN table'
          /\ table'[opts.backends[i].name] = a[i]
      BY <3>1 DEF Serves
    <3> QED
      BY <3>2 DEF NativeBind
  <2> QED
    BY <1>2, <2>1
<1>4. Allocated'
  BY <1>1, <1>2, <1>3 DEF Allocated
<1> QED
  BY <1>1, <1>4 DEF OptionsInv, Configured, RetriedAlike, Alive

\* Every other step leaves the options and the table alone.
LEMMA OptionsRest ==
  ASSUME OptionsInv, UNCHANGED <<config, opts, verdict, bind, table>>,
         at' = at \/ (Alive /\ at' \in {"resolve", "client", "stop", "join", "exit"}),
         code' \in {"0", "1", code}
  PROVE  OptionsInv'
<1>1. Configured'
  BY DEF OptionsInv, Configured, Alive
<1>2. Allocated'
  BY DEF OptionsInv, Allocated
<1>3. RetriedAlike'
  BY DEF OptionsInv, RetriedAlike, Alive
<1> QED
  BY <1>1, <1>2, <1>3 DEF OptionsInv

LEMMA OptionsStep == OptionsInv /\ [EmbedderNext]_allVars => OptionsInv'
<1> SUFFICES ASSUME OptionsInv, [EmbedderNext]_allVars PROVE OptionsInv'
  OBVIOUS
<1>1. ASSUME NEW s \in Starts, NEW w \in Waits, NEW t \in Stops,
             SmokeReady(w) \/ SmokeResolve \/ SmokeStopped(t) \/ SmokeJoin(s)
      PROVE  OptionsInv'
  BY <1>1, OptionsRest
  DEF SmokeReady, SmokeResolve, SmokeStopped, SmokeJoin, Exit, Alive
<1>2. ASSUME NEW s \in Starts, NEW w \in Waits, NEW t \in Stops,
             SmokeWait(w) \/ SmokeStop(t) \/ CallStep(w, t) \/ FreeCall(s, w, t)
      PROVE  OptionsInv'
  BY <1>2, OptionsRest
  DEF SmokeWait, SmokeStop, CallStep, FreeCall, embedderVars
<1>3. CASE UNCHANGED allVars
  BY <1>3, OptionsRest DEF allVars, embedderVars
<1>4. SmokeClient => OptionsInv'
  BY OptionsRest DEF SmokeClient, Exit, Alive
<1>5. ASSUME NEW s \in Starts, Publishes(s) \/ StartStep(s) PROVE OptionsInv'
  BY <1>5, OptionsRest DEF Publishes, StartStep, embedderVars
<1> QED
  BY <1>1, <1>2, <1>3, <1>4, <1>5, OptionsNew, OptionsAllocate
  DEF EmbedderNext, SmokeStep

LEMMA OptionsInvariant == EmbedderSpec => [](ServerInv /\ OptionsInv)
<1>1. EmbedderInit => ServerInv
  BY ServerInit DEF EmbedderInit
<1> QED
  BY <1>1, OptionsInit, InsideServer, OptionsStep, PTL DEF EmbedderSpec

\* A table that is there answers for the backends of the options.
LEMMA Answers ==
  ASSUME OptionsInv, NEW n \in Texts
  PROVE  LET addr == BackendAddress(table, n)
             same == {i \in DOMAIN opts.backends :
                        backendLookupName(opts.backends[i].name)
                          = backendLookupName(n)}
         IN  \/ addr = "not found" /\ (same = {} \/ bind = <<>>)
             \/ addr \in Addrs /\ same # {} /\ \A i \in same : bind[i] = addr
<1> DEFINE addr == BackendAddress(table, n)
           same == {i \in DOMAIN opts.backends :
                      backendLookupName(opts.backends[i].name)
                        = backendLookupName(n)}
<1>1. CASE bind = <<>> /\ table = <<>>
  BY <1>1 DEF BackendAddress
<1>2. CASE /\ Distinct(opts.backends)
           /\ bind \in [DOMAIN opts.backends -> Addrs]
           /\ table = AddressTable(opts.backends, bind)
  <2>1. opts.backends \in Seq(Backends)
    BY DEF OptionsInv, Configured
  <2>2. Serves(table, opts.backends, bind)
    BY <1>2, <2>1, TableOf
  <2>3. backendLookupName(backendLookupName(n)) = backendLookupName(n)
    BY LookupName
  <2>4. ASSUME NEW m \in DOMAIN table, backendLookupName(m) = backendLookupName(n),
               addr = table[m]
        PROVE  addr \in Addrs /\ same # {} /\ \A i \in same : bind[i] = addr
    <3>1. same # {}
      BY <2>2, <2>4 DEF Serves
    <3>2. \A i \in same : bind[i] = addr
      BY <2>2, <2>4 DEF Serves
    <3> QED
      BY <1>2, <3>1, <3>2
  <2>5. CASE n \in DOMAIN table
    BY <2>4, <2>5 DEF BackendAddress
  <2>6. CASE n \notin DOMAIN table /\ backendLookupName(n) \in DOMAIN table
    BY <2>3, <2>4, <2>6 DEF BackendAddress
  <2>7. CASE n \notin DOMAIN table /\ backendLookupName(n) \notin DOMAIN table
    BY <2>2, <2>7 DEF BackendAddress, Serves
  <2> QED
    BY <2>5, <2>6, <2>7
<1> QED
  BY <1>1, <1>2 DEF OptionsInv, Allocated

\* The variables of an embedder and of the Server in it keep their types: New
\* fails only with a declared error, and the table holds loopback addresses.
THEOREM EmbedderTypes == EmbedderSpec => []EmbedderTypeOK
<1>1. ServerInv /\ OptionsInv => EmbedderTypeOK
  <2> SUFFICES ASSUME ServerInv, OptionsInv PROVE EmbedderTypeOK
    OBVIOUS
  <2>1. /\ bind \in [1..Len(bind) -> Addrs]
        /\ \A n \in DOMAIN table : table[n] \in Addrs
    <3>1. CASE bind = <<>> /\ table = <<>>
      BY <3>1
    <3>2. CASE /\ Distinct(opts.backends)
               /\ bind \in [DOMAIN opts.backends -> Addrs]
               /\ table = AddressTable(opts.backends, bind)
      <4>1. opts.backends \in Seq(Backends)
        BY DEF OptionsInv, Configured
      <4>2. bind \in [1..Len(opts.backends) -> Addrs] /\ Len(opts.backends) \in Nat
        BY <3>2, <4>1
      <4>3. bind \in Seq(Addrs) /\ DOMAIN bind = 1..Len(bind)
        BY <4>2
      <4>4. Serves(table, opts.backends, bind)
        BY <3>2, <4>1, TableOf
      <4> QED
        BY <3>2, <4>2, <4>3, <4>4 DEF Serves
    <3> QED
      BY <3>1, <3>2 DEF OptionsInv, Allocated
  <2> QED
    BY <2>1 DEF ServerInv, OptionsInv, Configured, EmbedderTypeOK
<1> QED
  BY <1>1, OptionsInvariant, PTL

\* BackendDialAddress sends every spelling of a backend's name to the listener
\* the native runtime opened for it, whatever the configuration, because
\* validate leaves no two backends with one lookup name.
THEOREM DialsItsBackend == EmbedderSpec => []DialAgrees
<1>1. OptionsInv => DialAgrees
  <2> SUFFICES ASSUME OptionsInv, NEW n \in Names
               PROVE  LET addr == BackendDialAddress(n)
                          same == {i \in DOMAIN opts.backends :
                                     backendLookupName(opts.backends[i].name)
                                       = backendLookupName(n)}
                      IN  /\ addr \in Addrs => same # {} /\ \A i \in same : bind[i] = addr
                          /\ addr = "not found" => same = {} \/ bind = <<>>
    BY DEF DialAgrees
  <2>1. n \in Texts /\ {"not started", "not ready", "not found"} \cap Addrs = {}
    BY EmbedderAssumption
  <2>2. CASE BackendDialAddress(n) \in {"not started", "not ready"}
    BY <2>1, <2>2
  <2>3. CASE BackendDialAddress(n) = BackendAddress(table, n)
    BY <2>1, <2>3, Answers
  <2> QED
    BY <2>2, <2>3 DEF BackendDialAddress
<1> QED
  BY <1>1, OptionsInvariant, PTL

\* Whatever New wrote into its caller's Backends, calling it again with them
\* says the same: ValidateAgain, for every embedder's options.
THEOREM NewAgain == EmbedderSpec => []RetriedAlike
<1>1. OptionsInv => RetriedAlike
  BY DEF OptionsInv
<1> QED
  BY <1>1, OptionsInvariant, PTL

-----------------------------------------------------------------------------
(***************************************************************************)
(* What is known of the run of a Server that is started once. A second     *)
(* Start resets readyErr and runErr, which belong to the Server and not to *)
(* a run, before everyone who waited for the first run has read them.      *)
(***************************************************************************)
LEMMA RunInit == EmbedderInit => RunInv
BY ServerAssumption
DEF EmbedderInit, Init, RunInv, Told, Waited, ReportsTruthful, SmokeCleanExit,
    Ended, Accepted, StartPC, Errs

\* markReady keeps the first error it was given.
LEMMA MarksFirst ==
  ASSUME ServerInv, cur \in Starts, NEW err, MarkReady(err)
  PROVE  /\ closed' = closed \cup {cur}
         /\ \/ readyClosed /\ readyErr' = readyErr
            \/ readyErr' = err
<1> USE ServerAssumption DEF MarkReady
<1>1. CASE readyClosed
  BY <1>1 DEF ServerInv, ReadyFlagTruthful
<1>2. CASE ~readyClosed
  BY <1>2
<1> QED
  BY <1>1, <1>2

\* Steps of the Start.
LEMMA ToldStart ==
  ASSUME NEW only, Starts = {only},
         ServerInv, Told, ReportsTruthful,
         \/ StartBegin(only) \/ StartRefused(only) \/ RunPublishes(only)
         \/ RunReturns(only) \/ StartTail(only) \/ ParentCancels(only)
  PROVE  Told' /\ ReportsTruthful'
<1> USE ServerAssumption
    DEF ServerInv, TypeOK, HeldByCur, ChannelsOf, StopChannel, Holding,
        Accepted, StartPC, Errs, ReadyFlagTruthful, StopJoins,
        Told, ReportsTruthful, ViaStart, Ended, serverVars, chanVars, startVars,
        waitVars, stopVars
<1>1. CASE StartBegin(only)
  BY <1>1 DEF StartBegin
<1>2. CASE StartRefused(only)
  BY <1>2 DEF StartRefused
<1>3. CASE RunPublishes(only)
  <2>1. cur = only /\ readyClosed \in BOOLEAN /\ UNCHANGED <<cur, wpc, wch, runErr>>
    BY <1>3 DEF RunPublishes
  <2>2. /\ closed' = closed \cup {only}
        /\ \/ readyClosed /\ readyErr' = readyErr
           \/ readyErr' = "nil"
    <3> HIDE DEF ServerInv
    <3> QED
      BY <1>3, <2>1, MarksFirst DEF RunPublishes
  <2>3. Told'
    BY <1>3, <2>1, <2>2 DEF RunPublishes
  <2>4. ReportsTruthful'
    BY <1>3 DEF RunPublishes
  <2> QED
    BY <2>3, <2>4
<1>4. CASE RunReturns(only)
  BY <1>4 DEF RunReturns
<1>5. CASE StartMarks(only)
  <2>1. cur = only /\ readyClosed \in BOOLEAN /\ UNCHANGED <<cur, wpc, wch, runErr>>
    BY <1>5 DEF StartMarks
  <2>2. /\ closed' = closed \cup {only}
        /\ \/ readyClosed /\ readyErr' = readyErr
           \/ readyErr' = result[only]
    <3> HIDE DEF ServerInv
    <3> QED
      BY <1>5, <2>1, MarksFirst DEF StartMarks
  <2>3. Told'
    BY <1>5, <2>1, <2>2 DEF StartMarks
  <2>4. ReportsTruthful'
    BY <1>5 DEF StartMarks
  <2> QED
    BY <2>3, <2>4
<1>6. CASE StartStoresErr(only)
  BY <1>6 DEF StartStoresErr
<1>7. CASE StartClearsStarted(only)
  BY <1>7 DEF StartClearsStarted
<1>8. CASE StartClearsReady(only)
  BY <1>8 DEF StartClearsReady
<1>9. CASE StartEnd(only)
  BY <1>9 DEF StartEnd
<1>10. CASE ParentCancels(only)
  BY <1>10 DEF ParentCancels
<1> QED
  BY <1>1, <1>2, <1>3, <1>4, <1>5, <1>6, <1>7, <1>8, <1>9, <1>10 DEF StartTail

\* Steps of a WaitReady, of a Stop and of the smoke proxy's cancel.
LEMMA ToldCallers ==
  ASSUME NEW only, Starts = {only},
         ServerInv, Told, ReportsTruthful,
         \/ \E w \in Waits : WaitBegin(w) \/ WaitProgress(w) \/ WaitTimesOut(w)
         \/ \E t \in Stops : StopBegin(t) \/ StopReturns(t) \/ StopTimesOut(t)
         \/ \E t \in Stops : SmokeStopped(t)
  PROVE  Told' /\ ReportsTruthful'
<1> USE ServerAssumption
    DEF ServerInv, TypeOK, HeldByCur, ChannelsOf, StopChannel, Holding,
        Accepted, StartPC, Errs, ReadyFlagTruthful, StopJoins,
        Told, ReportsTruthful, ViaStart, Ended, serverVars, chanVars, startVars,
        waitVars, stopVars
<1>1. ASSUME NEW w \in Waits, WaitBegin(w) \/ WaitProgress(w) \/ WaitTimesOut(w)
      PROVE  Told' /\ ReportsTruthful'
  <2>1. CASE WaitBegin(w) \/ WaitTimesOut(w)
    BY <2>1 DEF WaitBegin, WaitTimesOut
  <2>2. CASE WaitPoll(w)
    BY <2>2 DEF WaitPoll
  <2>3. CASE WaitWoken(w)
    BY <2>3 DEF WaitWoken
  <2>4. CASE WaitReturns(w)
    BY <2>4 DEF WaitReturns
  <2> QED
    BY <1>1, <2>1, <2>2, <2>3, <2>4 DEF WaitProgress
<1>2. ASSUME NEW t \in Stops, StopBegin(t) PROVE Told' /\ ReportsTruthful'
  BY <1>2 DEF StopBegin
<1>3. ASSUME NEW t \in Stops, StopReturns(t) PROVE Told' /\ ReportsTruthful'
  BY <1>3 DEF StopReturns
<1>4. ASSUME NEW t \in Stops, StopTimesOut(t) PROVE Told' /\ ReportsTruthful'
  BY <1>4 DEF StopTimesOut
<1>5. ASSUME NEW t \in Stops, SmokeStopped(t) PROVE Told' /\ ReportsTruthful'
  BY <1>5 DEF SmokeStopped
<1> QED
  BY <1>1, <1>2, <1>3, <1>4, <1>5

\* Steps of the Start, as far as the smoke proxy relies on them.
LEMMA WaitedStart ==
  ASSUME NEW only, Starts = {only},
         ServerInv, Waited, SmokeCleanExit, UNCHANGED embedderVars,
         StartBegin(only) \/ RunPublishes(only) \/ RunReturns(only) \/ StartTail(only)
  PROVE  Waited' /\ SmokeCleanExit'
<1> USE ServerAssumption
    DEF ServerInv, TypeOK, HeldByCur, ChannelsOf, Holding, Accepted, StartPC, Errs,
        ReadyFlagTruthful, Waited, SmokeCleanExit, Smoke, Ended, embedderVars,
        serverVars, chanVars, startVars, waitVars, stopVars
<1>1. CASE StartBegin(only)
  BY <1>1 DEF StartBegin
<1>2. CASE RunPublishes(only)
  <2>1. cur = only /\ UNCHANGED <<cur, wpc, wch, pc, result, cancelled>>
    BY <1>2 DEF RunPublishes
  <2> QED
    BY <1>2, <2>1 DEF RunPublishes
<1>3. CASE RunReturns(only)
  BY <1>3 DEF RunReturns
<1>4. CASE StartMarks(only)
  <2>1. cur = only /\ UNCHANGED <<cur, wpc, wch, result, cancelled, published>>
    BY <1>4 DEF StartMarks
  <2>2. \/ readyClosed /\ readyErr' = readyErr
        \/ readyErr' = result[only]
    <3> HIDE DEF ServerInv
    <3> QED
      BY <1>4, <2>1, MarksFirst DEF StartMarks
  <2> QED
    BY <1>4, <2>1, <2>2 DEF StartMarks
<1>5. CASE StartStoresErr(only) \/ StartClearsStarted(only)
  BY <1>5 DEF StartStoresErr, StartClearsStarted
<1>6. CASE StartClearsReady(only) \/ StartEnd(only)
  BY <1>6 DEF StartClearsReady, StartEnd
<1> QED
  BY <1>1, <1>2, <1>3, <1>4, <1>5, <1>6 DEF StartTail

\* Steps of a WaitReady and of a Stop, and the end of a caller's context.
LEMMA WaitedCallers ==
  ASSUME NEW only, Starts = {only},
         ServerInv, Told, Waited, SmokeCleanExit, UNCHANGED embedderVars,
         NEW w \in Waits, NEW t \in Stops,
         \/ WaitBegin(w) \/ WaitProgress(w) \/ WaitTimesOut(w)
         \/ StopReturns(t) \/ StopTimesOut(t)
         \/ at \in {"serving", "stop"} /\ StopBegin(t)
         \/ at = "serving" /\ ParentCancels(only)
  PROVE  Waited' /\ SmokeCleanExit'
<1> USE ServerAssumption
    DEF ServerInv, TypeOK, HeldByCur, ChannelsOf, Holding, Accepted, StartPC, Errs,
        ReadyFlagTruthful, Told, Waited, SmokeCleanExit, Smoke, Ended, embedderVars,
        serverVars, chanVars, startVars, waitVars, stopVars
<1>1. CASE WaitBegin(w) \/ WaitTimesOut(w) \/ WaitPoll(w) \/ WaitWoken(w)
  BY <1>1 DEF WaitBegin, WaitTimesOut, WaitPoll, WaitWoken
<1>2. CASE WaitReturns(w)
  BY <1>2 DEF WaitReturns
<1>3. CASE StopReturns(t) \/ StopTimesOut(t)
  BY <1>3 DEF StopReturns, StopTimesOut
<1>4. CASE at \in {"serving", "stop"} /\ StopBegin(t)
  BY <1>4 DEF StopBegin
<1>5. CASE at = "serving" /\ ParentCancels(only)
  BY <1>5 DEF ParentCancels
<1> QED
  BY <1>1, <1>2, <1>3, <1>4, <1>5 DEF WaitProgress

\* Steps of New and of the smoke proxy's script.
LEMMA WaitedScript ==
  ASSUME NEW only, Starts = {only},
         ServerInv, Told, Waited, SmokeCleanExit,
         \/ New \/ SmokeClient \/ SmokeResolve \/ SmokeJoin(only)
         \/ \E w \in Waits : SmokeReady(w)
         \/ \E t \in Stops : SmokeStopped(t)
  PROVE  Waited' /\ SmokeCleanExit'
<1> USE ServerAssumption
    DEF Waited, SmokeCleanExit, Smoke, vars, serverVars, chanVars, startVars, waitVars,
        stopVars
<1>1. CASE New
  BY <1>1 DEF New
<1>2. CASE SmokeClient \/ SmokeResolve
  BY <1>2 DEF SmokeClient, SmokeResolve, Exit
<1>3. ASSUME NEW w \in Waits, SmokeReady(w) PROVE Waited' /\ SmokeCleanExit'
  BY <1>3 DEF SmokeReady, Exit, Told, Errs
<1>4. ASSUME NEW t \in Stops, SmokeStopped(t) PROVE Waited' /\ SmokeCleanExit'
  BY <1>4 DEF SmokeStopped, Exit
<1>5. CASE SmokeJoin(only)
  BY <1>5 DEF SmokeJoin, Exit, ServerInv, TypeOK, Errs
<1> QED
  BY <1>1, <1>2, <1>3, <1>4, <1>5

LEMMA RunStep ==
  ASSUME NEW only, Starts = {only}
  PROVE  ServerInv /\ RunInv /\ [EmbedderNext]_allVars => RunInv'
<1> SUFFICES ASSUME ServerInv, RunInv, [EmbedderNext]_allVars PROVE RunInv'
  OBVIOUS
<1>0. Told /\ Waited /\ ReportsTruthful /\ SmokeCleanExit
  BY DEF RunInv
<1>1. ASSUME UNCHANGED vars,
             \/ UNCHANGED embedderVars
             \/ New \/ SmokeClient \/ SmokeResolve \/ SmokeJoin(only)
             \/ \E w \in Waits : SmokeReady(w)
             \/ \E s \in Starts : Allocate(s)
      PROVE  RunInv'
  <2>1. Told' /\ ReportsTruthful'
    BY <1>0, <1>1 DEF vars, serverVars, chanVars, startVars, waitVars, stopVars,
      Told, ReportsTruthful, ViaStart
  <2>2. CASE UNCHANGED embedderVars
    BY <1>0, <1>1, <2>1, <2>2
    DEF vars, serverVars, chanVars, startVars, waitVars, stopVars, embedderVars,
        RunInv, Waited, SmokeCleanExit, Smoke
  <2>3. CASE \/ New \/ SmokeClient \/ SmokeResolve \/ SmokeJoin(only)
             \/ \E w \in Waits : SmokeReady(w)
    BY <1>0, <2>1, <2>3, WaitedScript DEF RunInv
  <2>4. ASSUME NEW s \in Starts, Allocate(s) PROVE RunInv'
    BY <1>0, <1>1, <2>1, <2>4
    DEF Allocate, vars, serverVars, chanVars, startVars, waitVars, stopVars,
        RunInv, Waited, SmokeCleanExit, Smoke
  <2> QED
    BY <1>1, <2>2, <2>3, <2>4
<1>2. CASE \/ Publishes(only) \/ StartStep(only)
  <2>1. /\ UNCHANGED embedderVars
        /\ \/ StartBegin(only) \/ RunPublishes(only) \/ RunReturns(only)
           \/ StartTail(only)
    BY <1>2 DEF Publishes, StartStep
  <2>2. Told' /\ ReportsTruthful'
    BY <1>0, <2>1, ToldStart
  <2>3. Waited' /\ SmokeCleanExit'
    BY <1>0, <2>1, WaitedStart
  <2> QED
    BY <2>2, <2>3 DEF RunInv
<1>3. ASSUME NEW w \in Waits, NEW t \in Stops,
             \/ SmokeWait(w) \/ SmokeStop(t) \/ CallStep(w, t) \/ FreeCall(only, w, t)
      PROVE  RunInv'
  <2>1. /\ UNCHANGED embedderVars
        /\ \/ WaitBegin(w) \/ WaitProgress(w) \/ WaitTimesOut(w)
           \/ StopReturns(t) \/ StopTimesOut(t)
           \/ at \in {"serving", "stop"} /\ StopBegin(t)
           \/ at = "serving" /\ ParentCancels(only)
    BY <1>3 DEF SmokeWait, SmokeStop, CallStep, FreeCall
  <2>2. Told' /\ ReportsTruthful'
    BY <1>0, <2>1, ToldStart, ToldCallers
  <2>3. Waited' /\ SmokeCleanExit'
    BY <1>0, <2>1, WaitedCallers
  <2> QED
    BY <2>2, <2>3 DEF RunInv
<1>4. ASSUME NEW t \in Stops, SmokeStopped(t) PROVE RunInv'
  <2>1. Told' /\ ReportsTruthful'
    BY <1>0, <1>4, ToldCallers
  <2>2. Waited' /\ SmokeCleanExit'
    BY <1>0, <1>4, WaitedScript
  <2> QED
    BY <2>1, <2>2 DEF RunInv
<1>5. CASE UNCHANGED allVars
  BY <1>1, <1>5 DEF allVars
<1>6. CASE \/ New \/ SmokeClient \/ SmokeResolve \/ SmokeJoin(only)
           \/ \E w \in Waits : SmokeReady(w)
           \/ \E s \in Starts : Allocate(s)
  BY <1>1, <1>6 DEF New, SmokeClient, SmokeResolve, SmokeJoin, SmokeReady, Allocate
<1> QED
  BY <1>2, <1>3, <1>4, <1>5, <1>6 DEF EmbedderNext, SmokeStep

LEMMA RunInvariant ==
  ASSUME NEW only, Starts = {only}
  PROVE  EmbedderSpec => []RunInv
<1>1. EmbedderInit => RunInv
  BY RunInit
<1>2. ServerInv /\ RunInv /\ [EmbedderNext]_allVars => RunInv'
  BY RunStep
<1>3. EmbedderSpec => []ServerInv
  BY OptionsInvariant, PTL
<1> QED
  BY <1>1, <1>2, <1>3, PTL DEF EmbedderSpec

\* The Server keeps its promises inside every embedder: closing readyCh once,
\* ready for the run in progress only, Stop joining the run it stopped.
THEOREM ServerKept ==
  EmbedderSpec => [](ReadyFlagTruthful /\ ReadyMeansPublished /\ StopJoins)
<1>1. ServerInv => ReadyFlagTruthful /\ ReadyMeansPublished /\ StopJoins
  BY DEF ServerInv
<1> QED
  BY <1>1, OptionsInvariant, PTL

\* For a Server that is started once: a nil from WaitReady means a run that
\* published or was cancelled, and a Stop that joined the run reports the end
\* that the adapter's Start reports, or the deadline that Start leaves out.
THEOREM ReportsTrue ==
  ASSUME NEW only, Starts = {only}
  PROVE  EmbedderSpec => []ReportsTruthful
<1>1. RunInv => ReportsTruthful
  BY DEF RunInv
<1> QED
  BY <1>1, RunInvariant, PTL

\* The smoke proxy, which calls Start once, exits with 0 only if its run had
\* published and returned without an error.
THEOREM CleanExit ==
  ASSUME NEW only, Starts = {only}
  PROVE  EmbedderSpec => []SmokeCleanExit
<1>1. RunInv => SmokeCleanExit
  BY DEF RunInv
<1> QED
  BY <1>1, RunInvariant, PTL

=============================================================================
