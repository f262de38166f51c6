# TLA+ models of vialite

vialite runs a Via protocol translator next to Gate: a Go module starts and
supervises native translator processes ("runtimes"), gives each backend a
loopback address, and tells Gate which address to dial. Inside a runtime a Java
overlay of ViaProxy binds the listeners and routes connections. This directory
holds the models of that system, their model-checking configurations and their
proofs.

## 1. Inventory

| component | source | state | operations | hard behaviour |
|---|---|---|---|---|
| Server lifecycle | `go/server.go` | `started`, `ready`, `runErr` (atomics), `cancel`, `done`, `readyCh`, `readyClosed`, `readyErr` (mutex) | `Start`, `WaitReady`, `Stop`, `markReady`, queries | the end of one `Start` overlaps the next; waiters hold channels of earlier runs |
| Subprocess runner, static runtime | `go/subprocess.go` `run`, `waitProcess`, `waitBackendListeners` | `healthy`, the child, restart count and backoff | boot, readiness, crash, restart, shutdown | cancellation at every point of the loop, children that ignore SIGTERM, ports lost while the runtime is down |
| Subprocess runner, dynamic backends | `go/subprocess.go` `addBackend`, `removeBackend`, `stopDynamicBackends`, `dynamicBackendExited`, `stopSubprocessBackend`, reservations | maps `backends`, `dynamic`, `adding`, `pending`, `reserving`; config files; embedder leases | add, remove, exit, stop all | an add holds the mutex in five separate sections; adds, removes, watchers and shutdown interleave; clean-up differs by error path |
| Listener ownership | `go/listener_owner_linux.go` | none (reads `/proc`) | `listenerOwnedByPID` | two reads at two moments, a child that dies in between |
| Host | (kernel) | listening sockets, processes | bind, exit, wait, signals | foreign processes take ports at any time |
| Embedded runner | `go/embedded.go` | `symbols`, `thread`, `backends`, `healthy` | run, add, remove | shutdown races the start of the native loop |
| Native bridge | `VialiteBridge.java` | routes, servers, addresses, `INITIALIZED`, `RUNNING` | init, run, shutdown, add, remove, route | listeners accept before routes and consumers exist |
| Pre-connect guard | `VialitePreConnectGuard.java` | stage, byte counter and timers of each connection | arm, mark, count, fire | scheduler thread against event loop, order of promise listeners, loops that hang |
| Auto-read | `ChannelUtil.java`, `LoginPacketHandler.java` | stack of saved auto-read flags per channel | disable, restore | requests from two event loops |
| Artifact resolution | `go/locate.go`, `go/download.go`, `go/embed_helpers.go` | cache directory | locate, resolve, download, verify, rename, extract | processes that share a cache, kills and power losses between steps |
| Options, config | `go/options.go`, `go/config.go` | the caller's slice of backends, the address table | validate, normalise, store, look up | two spellings of a name, writes into the caller's slice |
| Gate adapter | `go/integration/gate` | a `Server`, or none | parse, new, start, stop, dial | two parsers that have to agree |
| Smoke proxy | `go/cmd/craftless-vialite-smoke-proxy` | its position in its script | wait, resolve, run the client, stop, join | timeouts against a runtime that never ends |
| Overlay of saves and translator, CI | | none of their own | | not modelled |

What makes the modelled components correct:

* one address belongs to one runtime; it is given back to the embedder when, and
  not before, the runtime is gone;
* what is published is answered by the runtime it was published for;
* no runtime, config file or registration outlives what it belongs to, whichever
  step failed or was overtaken;
* every call and every stop comes back;
* the lifecycle flags of `Server` describe the run in progress, not an earlier
  one, and all who report the end of a run say the same;
* a name leads to the listener opened for it, however it is spelled;
* a channel is not read while somebody holds it, and is read again afterwards;
* no join hangs in silence, and no healthy join is closed;
* what a process runs is the verified, whole artifact of the release it asked
  for, whatever other processes do and wherever they were killed.

## 2. Modules

| module | models | composed of |
|---|---|---|
| `Loopback` | external: listening sockets and child processes as the runner uses them | |
| `DynamicBackends` | add, remove, watcher, `stopSubprocessBackend`, reservation, ownership check | `Loopback` |
| `SubprocessRunner` | `run` and its composition with the calls, the watchers and the host; all properties of the runner | `DynamicBackends` |
| `SubprocessRunnerProofs`, `RegistryProofs` | the theorems about the runner: leases, addresses, ownership; then registries, files and the static runtime | `SubprocessRunner` |
| `Server` | `Start`, `WaitReady`, `Stop`; the runner reduced to "may publish, then returns" | |
| `Bridge` | the tables and C entry points of `VialiteBridge.java`, and the routing of connections | |
| `Embedded` | `embedded.go` driving the bridge; all properties of the two | `Bridge` |
| `Artifacts` | the search for a runtime, the download cache and the extraction, by several processes | |
| `FlowControl` | abstract: a channel with counted holds | |
| `Hop` | one connection in the runtime: two event loops, auto-read, guard, timers; implements `FlowControl` | instance of `FlowControl` |
| `Options` | validation and normalisation, the embedders' parsers, the address table: operators only | |
| `Embedder` | a caller of the package, Gate's adapter or the smoke proxy, around one `Server` | `Server`, `Options` |
| `ServerProofs`, `EmbeddedProofs`, `ArtifactsProofs`, `HopProofs`, `OptionsProofs`, `EmbedderProofs` | the theorems about each | the module they are named after; `EmbedderProofs` also `ServerProofs` and `OptionsProofs` |
| `MCSubprocessRunner`, `MCServer`, `MCEmbedded`, `MCArtifacts`, `MCEmbedder` | symmetry sets, inputs and constants for TLC | |

### How state and actions correspond to the code

The variables `backends`, `dynamic`, `pending`, `adding`, `reserving` are the
maps of `subprocessRunner`, with `None` for a missing entry. A backend's raw and
lookup names always carry the same address (`storeBackendAddress`), so the maps
are keyed by the lookup name. A child process is named after the add that
started it; `pc[c]`, `key[c]` and `addr[c]` are that add's program counter and
local variables. `lease[c]` is the embedder's reservation behind
`proc.releaseAddr`, with `"returned"` for "the `sync.Once` has run". `configs`
is the set of temporary files on disk. `victim[x]` and `stage[x]` place goroutine
`x` inside `stopSubprocessBackend`.

Everything between `mu.Lock` and `mu.Unlock` is one action; so is every blocking
receive, every dial and each of the two reads of `/proc`. The section under the
lock of `AddStart` includes `cmd.Start`, as in the code. The decision of a
`select` with several ready cases is a nondeterministic choice. A timeout may
fire at any moment.

The run loop's `rpc` names the line it is at: `spawn` (`cmd.Start`),
`waitready`/`dialed` (`waitBackendListeners`), `ready` (`waitProcess`),
`joining` (the unbounded `<-done` of a failed attempt), `shutdown`/`killed`
(SIGTERM and SIGKILL of `waitProcess`), `after` and `backoff` (the end of the
loop body), `stopall`/`stopping` (`stopDynamicBackends`). In `SubprocessRunner`
the variable `ready` stands for `started && ready` of `Server`, which is all the
calls look at; the window between the two stores is the subject of `Server`.

In `Server` the channels and the cancel function made by a `Start` are
identified with that `Start`. Each store of its epilogue is an action, because
only `markReady` holds the mutex. A run may end with any error of `Errs`; the two
that `errors.Is` tells apart from the rest, a cancellation and a deadline, are
kept apart.

In `Bridge` the variables in capitals are the atomics of the class, the three
tables its maps, `monitor` the lock behind `synchronized`. `jpc[t]` places a
native thread inside an entry point. Only what a thread without the monitor can
tell apart is split: binding a listener from entering it in the tables, leaving
the tables from closing the channel, closing the channels from clearing the
tables, the check of `INITIALIZED` from the store to `RUNNING`. `stale` is an
auxiliary variable: connections whose backend was removed, or whose bridge was
shut down, after Gate had read the address. In `Embedded` a goroutine that makes
a native call takes the steps of `Bridge` as its own thread; `mu` is `r.mu`,
held across the call as in the code. A free port is any port nobody of this
process listens on, so a port may be used again at once, as a pinned
`Options.Bind` does; a bind that fails for a foreign listener is `AddFails`.

In `Artifacts` a file's content is identified with its checksum, and `"part"` is
any content that is not a whole artifact. A cache path holds version and
checksum, so `cache` is a function of both. Every system call that another
process can see is an action: `CreateTemp`, `DownloadFile`, `Chmod`, `Rename`,
and the truncation and the write of `os.WriteFile`. `Kill` ends one process
anywhere; `PowerLoss` ends all and may spoil any file, because nothing is
synced. `told` is an auxiliary variable, the latest tag the network named;
`raced` marks a process whose extraction overlapped another one.

In `Hop` each loop has the sequence of its submitted tasks, and a task that is
submitted from its own loop runs at once. A write to the client is two steps as
in Netty: the loop moves it to the channel's outbound buffer (`WriteTask`), and
its promise completes when the client takes it (`CompressionWritten`,
`SuccessWritten`, `BurstWritten`), in order and perhaps never; a close overtakes
what is parked in the buffer and fails it. A transition of `ChannelUtil` is two
steps, the change of the stack and `setAutoRead`; `setting[l]` says which one
loop `l` is in. The timers run on the scheduler's thread: `DeadlinePasses`,
`Fire` (the checks) and `Condemn` (the ERROR line and `channel.close()`, which
Netty turns into a task of the channel's loop) are separate, because the join
moves in between. `late` and `delivered` are auxiliary: what the join had
reached when the deadline passed, and what the client got. ViaProxy's own
packet handlers are external and as `ChannelUtil` and the guard describe them.
The two channels of a connection are on different loops; on one loop every
order is the order of the tasks.

In `Options` a text is what the code tells apart: a word of `Words`, in upper case
or not, padded or not. `Validate` returns the verdict and the backends as it leaves
them in the caller's slice. `Embedder` adds to `Server` the address table of
the runner and the three kinds of callers; `at` places the caller in its
script. An exit of the smoke proxy ends the process, so no step of `Server`
follows it.

Abstracted away: message texts, the parsing of `/proc/net/tcp`, host and port
syntax, names of assets, URLs, config contents, byte counts, durations. A child that is signalled is
one this process may signal, so `terminateProcess` fails only with
`os.ErrProcessDone`.

## 3. Runs

| run | instance | shows |
|---|---|---|
| `DynHook` | 2 calls, 2 backends, 2 addresses, allocator hook, foreign processes on both addresses, 2 runs, `cmd.Start` may fail | one lease per address and runtime, held until the child was waited for; no config file left; a published backend with a live child is answered by that child |
| `DynTeardown` | 3 calls, 2 backends, 2 addresses, own allocator, 1 run | no child is forgotten or outlives the runner; `backends` agrees with `dynamic` |
| `StaticRestart` | 1 static backend, 1 dynamic call, 2 runs, 1 retry, backoff from 2 to at most 3, children obey SIGTERM | the static address is not handed out while the runtime is down and is answered by the runtime while it serves; a cancelled run returns from every point of the loop |
| `DynLive` | 2 calls on one backend, children may ignore SIGTERM, no `/proc` | every call returns, dead backends are unpublished, Stop returns |
| `ServerLife` | 2 Starts, 1 WaitReady, 1 Stop | no ready channel is closed twice; `ready` never speaks for an earlier run; Stop joins; WaitReady and Stop come back from a cancelled run |
| `EmbeddedLife` | 1 configured backend, 3 backends in two forwarding modes, 2 ports, 2 calls, 1 connection, 1 run | nobody is in the isolate when it is torn down and no listener is left; the bridge's tables, its listeners and the Go map agree; one forwarding mode at a time; a connection is routed where it was dialled; calls and Stop return |
| `ArtifactCache` | 2 processes, 13 requests (one for each branch of the search and of the resolution of the version), 2 releases, 2 kills or power losses | a cached file in use is the verified one and, if a binary, executable; the release is the one asked for; an extracted artifact is whole |
| `HopJoin` | 1 connection, every subset of deadlines, old and new clients, with and without compression, 2 packets of configuration data, a client loop that may hang, a client that may take nothing | `FlowControl` is implemented and no restore is refused; the backend is read again; only configuration data counts as progress; healthy joins are spared, silent ones are named and closed |
| `Embedding` | 1 Start, 1 WaitReady, 1 Stop; every pair of spellings of two names, every boundary of the other fields; Gate and smoke configurations; 2 addresses | names, addresses and listeners agree; New may be retried; WaitReady, Start and Stop tell the truth about the run; the smoke proxy ends and its exit code is honest |

Bounds. Two backends and two addresses let addresses be exchanged between
backends; three calls are enough for a failed add, its retry and a third party,
which is the longest chain of dependence in `addBackend` (each section looks at
one other owner of the key or of the address). `MaxRuns = 2` covers a call that
survives from one run into the next. A backoff that starts at 2 and is
limited to 3 makes the doubling overshoot the maximum. A fresh child per add keeps the number of processes equal to the
number of calls. In `EmbeddedLife` two backends share a mode so that they are
served together, and two calls are enough to remove the last backend of one mode
and add one of the other; an init that fails after a first listener was bound
needs two configured backends, which this instance leaves out. Deadlock is not checked: a stopped runner with no call left
rests, by design; so does a connection that was served, and a smoke proxy exits.
In `ArtifactCache` two crashes let an artifact be spoiled and its replacement be
interrupted; a third process could only repeat what the second does, since a
process has no state of its own on disk but a temporary file under a unique
name. In `HopJoin` two packets tell "nothing yet" from "counted too much";
compression and login are all the holds a join takes, so they nest at most twice.
`Embedding` starts its Server once: what two Starts do to each other is the
subject of `ServerLife`.

### Disagreements between code and documentation

Each of these runs ends in a counterexample; `PROJECT.json` quotes the sentence.

| run | what happens |
|---|---|
| `AddressTwice` | a failed add of `k` leaves `pending`, a retry of `k` reserves the same address, the first add's `releaseReservation` deletes the retry's reservation (it compares the key only), and an add of another backend is given the address |
| `Orphan` | after a failed `cmd.Start` the marker in `adding` is deleted a second time, when it may be another add's; two adds of one backend then publish, and the first child is forgotten |
| `ReadyLost` | the last store of an ending `Start` clears `ready` of the next one |

The passing runs choose the instance in which the corresponding promise holds
(the allocator hook for `AddressPromisedOnce`, no failing `cmd.Start` and a
single run for `NoOrphan`, the dynamic-only mode for `NothingOutlivesRunner`,
obedient children for `StaticRestart`), so together they delimit each flaw.

Three more exceptions bound what the passing runs say; each shows as a
counterexample as soon as the instance admits it:

* a published child that exits by itself is retired by `dynamicBackendExited`,
  which does not return the embedder's lease (`subprocess.go:596`), although
  `vialite.go:59-60` promises one call "when the runtime no longer uses the
  address". `FailedAddReturnsLease` therefore speaks of failed adds;
* Stop during the restart backoff returns from `run` without
  `stopDynamicBackends` (`subprocess.go:217`), although lines 181-187 say that a
  runtime must not outlive the runner. `NothingOutlivesRunner` is checked in the
  dynamic-only mode;
* a static runtime that misses its readiness deadline and ignores SIGTERM blocks
  the unbounded `<-done` (`subprocess.go:196`), so Stop does not return, although
  lines 183-185 say the join is bounded. `StaticRestart` has obedient children.

Behaviour the models show without a run of its own:

* a child that dies between the two reads of `/proc` counts as owner of a
  foreign listener until its watcher retires it, which is why `PublishedOwned`
  speaks of live children;
* `WaitReady` returns nil when its run was cancelled before it published, the
  "or was cancelled" of `ReportsTruthful` and the "unless the run ended" of
  `DialAgrees`; with a second Start it may read that one's `readyErr`;
* a `vialite_shutdown` that precedes `RUNNING.set(true)` is undone by it, and
  the run never ends (`ShutdownLost`, the exception in `Embedded`'s
  `AllReturn`), or makes `vialite_run` return 2 and Stop report an error;
* a connection accepted by a removed listener is routed to the backend that has
  the port now;
* Gate hears nil from `Via.Start` and an error from `Stop` for a run that a
  deadline ended, because `gate.go:51` takes both context errors for a clean end
  and `server.go:135` only a cancellation; this is the exception in
  `ReportsTruthful`. Neither runner returns such an error today: `locate.go:42`
  and `:80` format the error of a download with `%v`, which hides it from
  `errors.Is`;
* the first wait of the restart loop is `MinBackoff` as configured
  (`subprocess.go:160`) and only the later ones are limited to `MaxBackoff`;
  `options.go:27-32` accepts a minimum above the maximum, and one of 0, which
  doubling leaves at 0, so that a crashing runtime is restarted without a pause.
  Durations are integers without a width here: from a positive minimum, a doubling
  that overflows 63 bits comes after a sleep of 146 years;
* a client that never takes LoginSuccess is watched by no stage: the guard arms
  the configuration stage when the write completes, so nothing closes such a
  connection (`SilentClosed` starts from `armed`). One that never takes
  SetCompression leaves the backend channel held, in front of the login
  (`ReadingResumes` speaks of joins past it);
* the guard's `channel.close()` is a task of the channel's loop. If a handler
  blocks that loop, the ERROR line comes (`NotSilent`) but the close does not
  (the `blocked` in `SilentClosed`), while the class
  comment (lines 39-45) says that the guard then closes the connection;
* an extraction that runs while another process already uses the extracted file
  truncates it (`raced` in `ExtractedWhole`);
* the compiled-in version is used after any error of the mirror, not only when
  the mirror names no release, the "single case" of `docs/troubleshooting.md:21`;
* backends with different forwarding modes pass `validate` and are refused by
  the native runtime (`NativeAccepts`);
* two static backends may be given the same ephemeral port and keep it in every
  restart;
* the smoke proxy's error paths exit without joining the runtime.

## 4. Fairness

`Fairness` in `SubprocessRunner`: weak fairness for the run goroutine and for
each call and watcher (no step waits for anything but the mutex, a timer or the
end of a child that was signalled), for `cmd.Wait` of a dead child, and for the
death of a child that got SIGKILL, or SIGTERM if `Obedient`. Nothing is assumed
of clients, of foreign processes, of Stop ever being called, or of healthy
children. `Embedded` has weak fairness for the run goroutine, each call and each
thread in the bridge: locks are held for finitely many steps and contended by
finitely many calls. `Server`'s fairness assumes that a cancelled run returns,
which `DynLive`, `StaticRestart` and `EmbeddedLife` check (with the exceptions of
section 3).

`Hop` has weak fairness for each event loop's queue (a blocked loop has no enabled
step) and for each timer of the scheduler, which is a thread of its own. Nothing
is assumed of the client, of the backend or of a handler coming back: the steps
that complete a write have no fairness, so a wedged client that takes nothing is
a behaviour of `FairSpec`, and `SilentClosed` says that the guard closes it once
the stage is armed.
`Embedder` has weak fairness for the smoke proxy's goroutine and its deadlines,
which `envDuration` never leaves unset, and nothing for the runtime, `Start` or
the client command. `Artifacts` states safety only.

### Refinement

`Hop` implements `FlowControl`: `holds` is the number of saved states, corrected
by a transition between its two steps, and `reading` is the channel's auto-read
flag. Every step of either loop is a hold, a release or a stutter, which is what
confining the transitions to the channel's own loop is for: with a restore that
runs on the caller's loop (the fixture in `build/autoread-order`) the refinement
fails.

## 5. Proofs

Every safety invariant that a passing run checks, and the refinement, is also a
theorem: it holds for every value of the constants that satisfies the named
assumptions, for any number of calls, backends, addresses, processes and restarts.

| module | theorems |
|---|---|
| `SubprocessRunnerProofs` | `TypeCorrect` (`TypeOK`), `LeaseSafe` (`LeaseHeldWhileRunning`), `AddressSafe` (with `UseHook`: `AddressPromisedOnce`), `PublishedSafe` (`PublishedOwned`) |
| `RegistryProofs` | `LeaseReturned` (`FailedAddReturnsLease`), `ConfigRemoved` (`NoConfigLeak`), and under the hypotheses below `RegistrySafe` (`RegistryConsistent`), `NoChildForgotten` (`NoOrphan`), `RunnerLeavesNothing` (`NothingOutlivesRunner`), `StaticSafe` (`StaticOwned`) |
| `ServerProofs` | `ServerTypes` (`TypeOK`), `ReadyFlag` (`ReadyFlagTruthful`), `ReadySpeaksForRun` (`ReadyMeansPublished`), `StopHasJoined` (`StopJoins`) |
| `EmbeddedProofs` | `EmbeddedTypes` (`TypeOK`), `OneModeServed` (`OneForwardingMode`), `IsolateLeftEmpty` (`TearDownClean`), `RegistriesInStep` (`RegistriesAgree`), `RoutedToItsBackend` (`RoutedAsDialled`) |
| `ArtifactsProofs` | `ArtifactTypes` (`TypeOK`), `CachedVerified` (`InUseVerified`), `ReleaseAsAsked` (`RightRelease`), `ExtractionWhole` (`ExtractedWhole`) |
| `HopProofs` | `HopTypes` (`TypeOK`), `WatchCountsConfiguration` (`CountsOnlyConfiguration`), `GuardSparesHealthy` (`HealthySpared`), `ChannelHonoursHolds` (`HoldsRespected`, the refinement of `FlowControl`) |
| `OptionsProofs` | `ValidateAgain`: `validate` is idempotent on any list of backends |
| `EmbedderProofs` | `EmbedderTypes` (`EmbedderTypeOK`), `DialsItsBackend` (`DialAgrees`), `NewAgain` (`RetriedAlike`), `ServerKept` (the three of `Server` inside an embedder), and for one Start `ReportsTrue` (`ReportsTruthful`), `CleanExit` (`SmokeCleanExit`) |

### The arguments

*The subprocess runner.* `TypeInv` strengthens the types with `KeyKnown` (a call
that was invoked has a backend), without which the map updates leave their
domains. It holds for every restart policy, the ones without a sense included:
`backoff` is the minimum until the first restart of a run and at most the
maximum after it. `LeaseHeldWhileRunning` is not inductive: an add could start its child
after its lease went, or a goroutine could stop a child that was never started.
`LifeInv` adds `ChildLife` (whoever is registered, watched, listed as a victim or
being stopped was started, and an add's program counter tells whether its child
was) and `LeaseInv` (an add holds its lease from the reservation until its child
is gone, and no two held leases name one address). `AddressSafe` follows: two
live children hold two leases. `PublishedOwned` needs `OwnInv`: a listener
belongs to a child only at that child's address (`Placed`), and an add past the
ownership check whose child is alive holds its listener (`Owned`); the check
reads the child's descriptors later than the inodes, and it is the fact that a
live child never gives its listener up that carries the first reading over.

*Registries.* `RegInv` says where a lease and a config file may exist
(`Resources`: only where some later step returns them), that an entry's child
belongs to its key (`Registered`) and where the loop is while it serves or stops
(`Phase`, `DynamicOnly`). `NoOrphan` needs `KeptInv`: the marker in `adding`
makes an add the only one of its backend until its child is pending
(`Exclusive`), and a published child leaves the registry only onto somebody's
list (`Kept`). `StaticOwned` needs `StaticInv`: the static addresses are chosen
once, before anything else happens, no dynamic backend is given one although it
is free while the runtime is down, and a readiness dial that was answered was
answered by the runtime.

*Server.* The epilogue of `Start` runs outside the mutex, so `ServerInv` ties
every flag to the place its `Start` has got to: `started` is held by exactly one
`Start` and `cur` is that one (`HeldByCur`), a channel is closed exactly by a
`Start` that got past `markReady` (`ChannelsOf`), a `Stop` waits on the channel
of a `Start` (`StopChannel`).

*Embedded runner and bridge.* `EmbeddedInv` follows the two locks: `Places` and
`Locks` say that the holder of the monitor, or of `r.mu`, is exactly the
goroutine in that critical section, so a step inside a section is a step of the
one holder. `Tables` relates the bridge's tables to the listeners in the middle
of a section, `Cleared`, `Flags` and `Uncancelled` say when the bridge can have
anything at all, `Mirror` relates the runner's map to the bridge's up to the
answer a call still carries, and `Dialled` carries an address from Gate's lookup
over the accept to the routing.

*Artifacts.* `ArtifactsInv` says that the resolved tag stays the right one up to
the use (`Resolved`), that only verified bytes with their execute bits reach the
rename (`Verified`), and that a file under a cache path is what its path names
or was spoiled by a power loss (`CacheSound`), which the check on a hit finds. A
power loss ends every process, hence nobody uses a spoiled file (`InUse`).

*A connection.* Tasks in a loop's queue and writes in the outbound buffer are
counted (`Count`, with lemmas on appending and taking the head); a write is being
made (`Writing`) from the queue until the client took it. `HoldsOwed` balances the books of auto-read:
whoever will still restore has a saved state to restore, and no more is saved
than compression and login took; with `SavedShape`, the stack in each half of a
transition, no restore is refused, and every step is a hold, a release or a
stutter of `FlowControl`. For the guard, `ArmInv` says that the one LoginSuccess
arms the stage once and that no configuration packet is ahead of the arming, in
the client's queue or in the outbound buffer, which is why nothing is missed and nothing else is counted;
`Verdicts` says that a join that was in time stays in time.

*Options and embedders.* `ValidateAgain` is not a matter of one backend: the loop
stops at the first failure and leaves a list of which a part is normalised. The
lemmas show that normalising is idempotent, that it changes no lookup name, and
that the loop therefore ends at the same backend again. What validation accepts
has distinct lookup names (`AcceptedDistinct`), so the address table serves each
backend under both spellings (`TableOf`), and `DialAgrees` follows from
`OptionsInv`. The composition takes no step that `Server` does not allow, so
`ServerInv` carries over. `RunInv` follows an outcome through `readyErr`,
`runErr` and the channels, and says that until the smoke proxy calls `Stop`
nothing cancels its run.

### Assumptions and hypotheses

`LoopbackAssumption`, `DynamicBackendsAssumption`, `SubprocessRunnerAssumption`,
`ServerAssumption`, `BridgeAssumption`, `EmbeddedAssumption`,
`ArtifactsAssumption`, `HopAssumption`, `OptionsAssumption` and
`EmbedderAssumption` say that special values are not members of the sets, that
goroutines are distinct, that bounds are naturals and that inputs have the types
the code gives them; the retries and the two bounds of the backoff are any
integers, in any order, because `options.go:27-32` checks nothing. TLC evaluates them in the runs.

Some theorems have hypotheses, and without them the property is false of the
code; for each TLC gives the counterexample:

* `AddressSafe` needs `UseHook`: the run `AddressTwice`;
* `NoChildForgotten` needs a `cmd.Start` that does not fail (the run `Orphan`)
  and a single run: `stopDynamicBackends` drops all markers, so an add that
  outlives its run meets an add of the same backend in the next one;
* `RegistrySafe` needs a single run if there are static backends: a run that ends
  in the restart backoff does not call `stopDynamicBackends`, and the next
  replaces `r.backends` while `r.dynamic` keeps its entries;
* `RunnerLeavesNothing` is about the dynamic-only mode, for the same reason;
* `StaticSafe` needs a single run (a second one chooses its addresses anew, while
  a child of the first may be on its way to one) and no foreign process on the
  static addresses: there is no ownership check behind the static readiness dial;
* `ReportsTrue` and `CleanExit` need a single Start, which is what the smoke
  proxy does; a second Start resets `readyErr` before a woken `WaitReady` reads it.

### Only model-checked

Liveness under fairness is out of the prover's reach and stays with TLC:
`AllReturn`, `DeadUnpublished`, `StopReturns`, `WaitersReturn`, `ReadingResumes`,
`NotSilent`, `SilentClosed` and `SmokeReturns`. So are the three disagreements of
section 3, and whatever lies outside the hypotheses above (`StaticRestart`
has two runs, in which a single static address is chosen alike).

## 6. Plan

Done: every part of the system that has state of its own, the compositions, one
refinement, and a theorem for each safety invariant of the passing runs. What is
left are proofs of more than the runs ask:

1. `RegistryConsistent` and `NoOrphan` over several runs, restricted to calls
   that do not outlive the run they were made in;
2. action properties of the runner (an address given back is never leased again
   by the same add, a published child is never replaced without a stop).

## 7. Not modelled

* The overlay of ViaProxy's translator, saves and platform loader: sequential
  initialisation and file I/O of the upstream proxy, rewritten to avoid
  reflection in the native image.
* `VialiteHandshakePacket`, `VialitePacketRegistry` and `VialiteBridgeFeature`:
  parsing limits and build-time registration.
* Build scripts, regression fixtures and CI.
* A listening socket whose close fails in the bridge, and `terminateProcess`
  failing on a live child.
