------------------------------- MODULE Server -------------------------------
(***************************************************************************)
(* The lifecycle of go/server.go: concurrent calls of Start, WaitReady and *)
(* Stop on one Server. The runner is abstracted to what Server relies on:  *)
(* run may call markReady(nil) and returns, at the latest after its        *)
(* context was cancelled (SubprocessRunner shows when it does).            *)
(*                                                                         *)
(* A Start that is accepted creates the channels readyCh and done and a    *)
(* cancel function; all three are identified with the Start call itself.   *)
(***************************************************************************)
CONSTANTS
    Starts,       \* calls of Start
    Waits,        \* calls of WaitReady
    Stops,        \* calls of Stop
    Null

ASSUME ServerAssumption == Null \notin Starts

VARIABLES
    started,      \* Server.started
    ready,        \* Server.ready
    cur,          \* whose readyCh, done and cancel the Server holds, or Null
    readyClosed,  \* Server.readyClosed
    readyErr,     \* Server.readyErr
    runErr,       \* Server.runErr, "unset" for a nil pointer
    closed,       \* Starts whose readyCh is closed
    done,         \* Starts whose done channel is closed
    cancelled,    \* Starts whose run context is cancelled
    published,    \* Starts whose runner has published its dial addresses
    pc,           \* where each call of Start is
    result,       \* what its run returned
    wpc, wch,     \* where each WaitReady is and which channel it waits on
    spc, sch      \* the same for each Stop

serverVars == <<started, ready, cur, readyClosed, readyErr, runErr>>
chanVars == <<closed, done, cancelled>>
startVars == <<pc, result, published>>
waitVars == <<wpc, wch>>
stopVars == <<spc, sch>>
vars == <<serverVars, chanVars, startVars, waitVars, stopVars>>

\* What a run, or a call that reports on it, may return: the two errors of an
\* ended context are told from the others by errors.Is.
Errs == {"nil", "canceled", "deadline", "failed"}
StartPC == {"idle", "refused", "running", "ended", "marked", "stored",
            "unstarted", "unready", "returned"}

\* Type invariant.
TypeOK ==
    /\ started \in BOOLEAN /\ ready \in BOOLEAN /\ readyClosed \in BOOLEAN
    /\ cur \in Starts \cup {Null}
    /\ readyErr \in Errs
    /\ runErr \in Errs \cup {"unset"}
    /\ closed \in SUBSET Starts
    /\ done \in SUBSET Starts
    /\ cancelled \in SUBSET Starts
    /\ published \in SUBSET Starts
    /\ pc \in [Starts -> StartPC]
    /\ result \in [Starts -> Errs]
    /\ wpc \in [Waits -> {"idle", "polling", "waiting", "woken", "timeout"} \cup Errs]
    /\ wch \in [Waits -> Starts \cup {Null}]
    /\ spc \in [Stops -> {"idle", "waiting", "notstarted", "timeout"} \cup Errs]
    /\ sch \in [Stops -> Starts \cup {Null}]

Init ==
    /\ started = FALSE /\ ready = FALSE /\ readyClosed = FALSE
    /\ cur = Null
    /\ readyErr = "nil" /\ runErr = "unset"
    /\ closed = {} /\ done = {} /\ cancelled = {} /\ published = {}
    /\ pc = [s \in Starts |-> "idle"]
    /\ result = [s \in Starts |-> "nil"]
    /\ wpc = [w \in Waits |-> "idle"] /\ wch = [w \in Waits |-> Null]
    /\ spc = [t \in Stops |-> "idle"] /\ sch = [t \in Stops |-> Null]

-----------------------------------------------------------------------------
(***************************************************************************)
(* Start.                                                                  *)
(***************************************************************************)
\* Mutant: readyClosed still tells about the channel of the last run.
StartBegin_KeepsClosed(s) ==
    /\ pc[s] = "idle"
    /\ ~started
    /\ started' = TRUE
    /\ ready' = FALSE
    /\ runErr' = "unset"
    /\ cur' = s
    /\ readyErr' = "nil"
    /\ pc' = [pc EXCEPT ![s] = "running"]
    /\ UNCHANGED <<readyClosed, chanVars, result, published, waitVars, stopVars>>

\* Mutant: ready is left to the end of the last run.
StartBegin_KeepsReady(s) ==
    /\ pc[s] = "idle"
    /\ ~started
    /\ started' = TRUE
    /\ runErr' = "unset"
    /\ cur' = s
    /\ readyClosed' = FALSE
    /\ readyErr' = "nil"
    /\ pc' = [pc EXCEPT ![s] = "running"]
    /\ UNCHANGED <<ready, chanVars, result, published, waitVars, stopVars>>

StartBegin(s) ==
    /\ pc[s] = "idle"
    /\ ~started
    /\ started' = TRUE
    /\ ready' = FALSE
    /\ runErr' = "unset"
    /\ cur' = s
    /\ readyClosed' = FALSE
    /\ readyErr' = "nil"
    /\ pc' = [pc EXCEPT ![s] = "running"]
    /\ UNCHANGED <<chanVars, result, published, waitVars, stopVars>>

StartRefused(s) ==
    /\ pc[s] = "idle"
    /\ started
    /\ pc' = [pc EXCEPT ![s] = "refused"]
    /\ UNCHANGED <<serverVars, chanVars, result, published, waitVars, stopVars>>

\* markReady, under Server.mu: only the first call for a readyCh counts.
MarkReady(err) ==
    IF cur = Null \/ readyClosed
    THEN UNCHANGED <<readyErr, ready, closed, readyClosed>>
    ELSE /\ readyErr' = err
         /\ ready' = IF err = "nil" THEN TRUE ELSE ready
         /\ closed' = closed \cup {cur}
         /\ readyClosed' = TRUE

\* The runner has published its backend addresses and calls markReady(nil).
RunPublishes(s) ==
    /\ pc[s] = "running"
    /\ s \notin published
    /\ published' = published \cup {s}
    /\ MarkReady("nil")
    /\ UNCHANGED <<started, cur, runErr, done, cancelled, pc, result, waitVars,
                   stopVars>>

\* run returns: nil after a cancelled context or the clean exit of a published
\* runtime, an error at any time. A deadline may be one of the caller's context
\* or of the runner's own.
RunReturns(s) ==
    /\ pc[s] = "running"
    /\ \E err \in Errs :
          /\ err = "nil" => s \in cancelled \cup published
          /\ err = "canceled" => s \in cancelled
          /\ result' = [result EXCEPT ![s] = err]
    /\ pc' = [pc EXCEPT ![s] = "ended"]
    /\ UNCHANGED <<serverVars, chanVars, published, waitVars, stopVars>>

\* Mutant: the waiters are woken without the error.
StartMarks_NoError(s) ==
    /\ pc[s] = "ended"
    /\ MarkReady("nil")
    /\ pc' = [pc EXCEPT ![s] = "marked"]
    /\ UNCHANGED <<started, cur, runErr, done, cancelled, published, result,
                   waitVars, stopVars>>

\* The epilogue: markReady(err), then three atomic stores, then the deferred
\* cancel and close(done). Only markReady takes the mutex.
StartMarks(s) ==
    /\ pc[s] = "ended"
    /\ MarkReady(result[s])
    /\ pc' = [pc EXCEPT ![s] = "marked"]
    /\ UNCHANGED <<started, cur, runErr, done, cancelled, published, result,
                   waitVars, stopVars>>

StartStoresErr(s) ==
    /\ pc[s] = "marked"
    /\ runErr' = result[s]
    /\ pc' = [pc EXCEPT ![s] = "stored"]
    /\ UNCHANGED <<started, ready, cur, readyClosed, readyErr, chanVars,
                   published, result, waitVars, stopVars>>

\* Mutant: done is closed before the flags are cleared.
StartClearsStarted_DoneFirst(s) ==
    /\ pc[s] = "stored"
    /\ started' = FALSE
    /\ done' = done \cup {s}
    /\ pc' = [pc EXCEPT ![s] = "unstarted"]
    /\ UNCHANGED <<ready, cur, readyClosed, readyErr, runErr, closed,
                   cancelled, published, result, waitVars, stopVars>>

StartClearsStarted(s) ==
    /\ pc[s] = "stored"
    /\ started' = FALSE
    /\ pc' = [pc EXCEPT ![s] = "unstarted"]
    /\ UNCHANGED <<ready, cur, readyClosed, readyErr, runErr, chanVars,
                   published, result, waitVars, stopVars>>

StartClearsReady(s) ==
    /\ pc[s] = "unstarted"
    /\ ready' = FALSE
    /\ pc' = [pc EXCEPT ![s] = "unready"]
    /\ UNCHANGED <<started, cur, readyClosed, readyErr, runErr, chanVars,
                   published, result, waitVars, stopVars>>

\* Mutant: done stays open.
StartEnd_KeepsDone(s) ==
    /\ pc[s] = "unready"
    /\ cancelled' = cancelled \cup {s}
    /\ pc' = [pc EXCEPT ![s] = "returned"]
    /\ UNCHANGED <<serverVars, closed, done, published, result, waitVars,
                   stopVars>>

StartEnd(s) ==
    /\ pc[s] = "unready"
    /\ cancelled' = cancelled \cup {s}
    /\ done' = done \cup {s}
    /\ pc' = [pc EXCEPT ![s] = "returned"]
    /\ UNCHANGED <<serverVars, closed, published, result, waitVars, stopVars>>

\* The context the caller passed to Start ends.
ParentCancels(s) ==
    /\ pc[s] = "running"
    /\ s \notin cancelled
    /\ cancelled' = cancelled \cup {s}
    /\ UNCHANGED <<serverVars, closed, done, startVars, waitVars, stopVars>>

(***************************************************************************)
(* WaitReady.                                                              *)
(***************************************************************************)
WaitBegin(w) ==
    /\ wpc[w] = "idle"
    /\ wpc' = [wpc EXCEPT ![w] = "polling"]
    /\ UNCHANGED <<serverVars, chanVars, startVars, wch, stopVars>>

\* One turn of the loop, under Server.mu. While there is no channel it sleeps a
\* millisecond and comes back: no step of the model. (readyCh never becomes nil
\* again, so the test of runErr in the loop never finds an error.)
WaitPoll(w) ==
    /\ wpc[w] = "polling"
    /\ cur # Null
    /\ wch' = [wch EXCEPT ![w] = cur]
    /\ wpc' = [wpc EXCEPT ![w] = "waiting"]
    /\ UNCHANGED <<serverVars, chanVars, startVars, stopVars>>

WaitWoken(w) ==
    /\ wpc[w] = "waiting"
    /\ wch[w] \in closed
    /\ wpc' = [wpc EXCEPT ![w] = "woken"]
    /\ UNCHANGED <<serverVars, chanVars, startVars, wch, stopVars>>

WaitReturns(w) ==
    /\ wpc[w] = "woken"
    /\ wpc' = [wpc EXCEPT ![w] = readyErr]
    /\ UNCHANGED <<serverVars, chanVars, startVars, wch, stopVars>>

WaitTimesOut(w) ==
    /\ wpc[w] \in {"polling", "waiting"}
    /\ wpc' = [wpc EXCEPT ![w] = "timeout"]
    /\ UNCHANGED <<serverVars, chanVars, startVars, wch, stopVars>>

(***************************************************************************)
(* Stop.                                                                   *)
(***************************************************************************)
\* Mutant: Stop does not look at started and calls a nil cancel.
StopBegin_Unchecked(t) ==
    /\ spc[t] = "idle"
    /\ sch' = [sch EXCEPT ![t] = cur]
    /\ cancelled' = cancelled \cup {cur}
    /\ spc' = [spc EXCEPT ![t] = "waiting"]
    /\ UNCHANGED <<serverVars, closed, done, startVars, waitVars>>

\* The locked part and the call of cancel, which only touches the context.
StopBegin(t) ==
    /\ spc[t] = "idle"
    /\ \/ /\ ~started
          /\ spc' = [spc EXCEPT ![t] = "notstarted"]
          /\ UNCHANGED <<sch, cancelled>>
       \/ /\ started
          /\ sch' = [sch EXCEPT ![t] = cur]
          /\ cancelled' = cancelled \cup {cur}
          /\ spc' = [spc EXCEPT ![t] = "waiting"]
    /\ UNCHANGED <<serverVars, closed, done, startVars, waitVars>>

\* done is closed; runErr is read now, and a cancelled run counts as success, a
\* run that ran into a deadline does not.
StopReturns(t) ==
    /\ spc[t] = "waiting"
    /\ sch[t] \in done
    /\ spc' = [spc EXCEPT ![t] =
                 IF runErr \in {"unset", "canceled"} THEN "nil" ELSE runErr]
    /\ UNCHANGED <<serverVars, chanVars, startVars, waitVars, sch>>

StopTimesOut(t) ==
    /\ spc[t] = "waiting"
    /\ spc' = [spc EXCEPT ![t] = "timeout"]
    /\ UNCHANGED <<serverVars, chanVars, startVars, waitVars, sch>>

-----------------------------------------------------------------------------
StartTail(s) ==
    \/ StartMarks(s) \/ StartStoresErr(s) \/ StartClearsStarted(s)
    \/ StartClearsReady(s) \/ StartEnd(s)

WaitProgress(w) == WaitPoll(w) \/ WaitWoken(w) \/ WaitReturns(w)

Next ==
    \/ \E s \in Starts : \/ StartBegin(s) \/ StartRefused(s)
                         \/ RunPublishes(s) \/ RunReturns(s)
                         \/ StartTail(s) \/ ParentCancels(s)
    \/ \E w \in Waits : WaitBegin(w) \/ WaitProgress(w) \/ WaitTimesOut(w)
    \/ \E t \in Stops : StopBegin(t) \/ StopReturns(t) \/ StopTimesOut(t)

Spec == Init /\ [][Next]_vars

\* Goroutines keep running, and a run whose context is cancelled returns.
\* Contexts of the callers are not assumed to end.
FairSpec ==
    /\ Spec
    /\ \A s \in Starts : /\ WF_vars(StartTail(s))
                         /\ WF_vars(s \in cancelled /\ RunReturns(s))
    /\ \A w \in Waits : WF_vars(WaitProgress(w))
    /\ \A t \in Stops : WF_vars(StopReturns(t))

-----------------------------------------------------------------------------
\* readyClosed is the truth about the channel the Server holds: markReady never
\* closes a closed channel (a panic) and never skips an open one.
ReadyFlagTruthful == cur # Null => (readyClosed <=> cur \in closed)

\* Server.ready does not lie about the run in progress: it holds only if this
\* run, not an earlier one, published its addresses.
ReadyMeansPublished ==
    ready /\ cur # Null /\ pc[cur] = "running" => cur \in published

\* A Stop that came back through done left no run behind: the run it stopped
\* has returned, and so has its whole epilogue.
StopJoins ==
    \A t \in Stops : spc[t] \in Errs => pc[sch[t]] = "returned"

\* A Server whose run has published is ready for AddBackend, RemoveBackend and
\* BackendDialAddress until that run returns.
ReadyWhileServing ==
    \A s \in Starts : pc[s] = "running" /\ s \in published => ready

\* Every WaitReady and every Stop that waits for a cancelled run returns.
WaitersReturn ==
    /\ \A w \in Waits : wpc[w] = "waiting" /\ wch[w] \in cancelled
                        ~> wpc[w] \notin {"waiting", "woken"}
    /\ \A t \in Stops : spc[t] = "waiting" ~> spc[t] # "waiting"

=============================================================================
