---------------------------- MODULE ServerProofs ----------------------------
(***************************************************************************)
(* Theorems about Server for any number of calls of Start, WaitReady and   *)
(* Stop.                                                                   *)
(***************************************************************************)
EXTENDS Server, TLAPS

-----------------------------------------------------------------------------
(***************************************************************************)
(* The inductive invariant. The epilogue of Start runs outside the mutex,  *)
(* so what ties the flags to a run is where that run's Start has got to.   *)
(***************************************************************************)
\* A Start between the CompareAndSwap of started and the store that undoes it.
Holding == {"running", "ended", "marked", "stored"}
Accepted == StartPC \ {"idle", "refused"}
Marked == {"marked", "stored", "unstarted", "unready", "returned"}

\* started is held by one Start, and the channels are that Start's.
HeldByCur ==
    /\ \A s \in Starts : pc[s] \in Holding => started /\ cur = s
    /\ started => cur # Null /\ pc[cur] \in Holding
    /\ cur # Null => pc[cur] \in Accepted

\* A Start past markReady has its readyCh closed; a closed readyCh or done
\* belongs to a Start that got there.
ChannelsOf ==
    /\ \A s \in Starts : pc[s] \in Marked => s \in closed
    /\ \A s \in closed : pc[s] \in Accepted
    /\ \A s \in done : pc[s] = "returned"

\* A Stop that waits, or came back through done, has the channel of a Start.
StopChannel ==
    \A t \in Stops : spc[t] \in Errs \cup {"waiting"} => sch[t] \in Starts

ServerInv ==
    /\ TypeOK
    /\ HeldByCur /\ ChannelsOf /\ StopChannel
    /\ ReadyFlagTruthful /\ ReadyMeansPublished /\ StopJoins

LEMMA ServerInit == Init => ServerInv
BY ServerAssumption
DEF Init, ServerInv, TypeOK, HeldByCur, ChannelsOf, StopChannel, Holding,
    Accepted, Marked, StartPC, Errs, ReadyFlagTruthful, ReadyMeansPublished,
    StopJoins

\* markReady closes the channel the Server holds, at most once, and keeps types.
LEMMA Marks ==
  ASSUME ServerInv, NEW err \in Errs, MarkReady(err), cur \in Starts
  PROVE  /\ readyErr' \in Errs /\ ready' \in BOOLEAN /\ readyClosed' = TRUE
         /\ closed' = closed \cup {cur}
         /\ ready' => ready \/ err = "nil"
<1> USE DEF ServerInv, TypeOK, ReadyFlagTruthful, MarkReady
<1>1. CASE readyClosed
  BY <1>1, ServerAssumption
<1>2. CASE ~readyClosed
  BY <1>2, ServerAssumption
<1> QED
  BY <1>1, <1>2

\* Steps of a Start.
LEMMA ServerStart ==
  ASSUME ServerInv, NEW s \in Starts,
         \/ StartBegin(s) \/ StartRefused(s) \/ RunPublishes(s) \/ RunReturns(s)
         \/ StartTail(s) \/ ParentCancels(s)
  PROVE  ServerInv'
<1> USE ServerAssumption
    DEF ServerInv, TypeOK, HeldByCur, ChannelsOf, StopChannel, Holding,
        Accepted, Marked, StartPC, Errs, ReadyFlagTruthful,
        ReadyMeansPublished, StopJoins, serverVars, chanVars, startVars,
        waitVars, stopVars
<1>1. CASE StartBegin(s)
  <2> USE <1>1 DEF StartBegin
  <2>1. TypeOK'
    OBVIOUS
  <2>2. HeldByCur'
    OBVIOUS
  <2>3. ChannelsOf'
    OBVIOUS
  <2>4. StopChannel' /\ StopJoins'
    OBVIOUS
  <2>5. ReadyFlagTruthful'
    OBVIOUS
  <2>6. ReadyMeansPublished'
    OBVIOUS
  <2> QED
    BY <2>1, <2>2, <2>3, <2>4, <2>5, <2>6
<1>2. CASE StartRefused(s)
  BY <1>2 DEF StartRefused
<1>3. CASE RunPublishes(s)
  <2> USE <1>3 DEF RunPublishes
  <2>0. cur = s /\ started /\ "nil" \in Errs
    OBVIOUS
  <2>m. /\ readyErr' \in Errs /\ ready' \in BOOLEAN /\ readyClosed' = TRUE
        /\ closed' = closed \cup {s}
        /\ ready' => ready \/ "nil" = "nil"
    BY <2>0, Marks
  <2>1. TypeOK'
    BY <2>0, <2>m
  <2>2. HeldByCur'
    BY <2>0, <2>m
  <2>3. ChannelsOf'
    BY <2>0, <2>m
  <2>4. StopChannel' /\ StopJoins'
    BY <2>0, <2>m
  <2>5. ReadyFlagTruthful'
    BY <2>0, <2>m
  <2>6. ReadyMeansPublished'
    BY <2>0, <2>m
  <2> QED
    BY <2>1, <2>2, <2>3, <2>4, <2>5, <2>6
<1>4. CASE RunReturns(s)
  BY <1>4 DEF RunReturns
<1>5. CASE StartMarks(s)
  <2> USE <1>5 DEF StartMarks
  <2>0. cur = s /\ started /\ result[s] \in Errs
    OBVIOUS
  <2>m. /\ readyErr' \in Errs /\ ready' \in BOOLEAN /\ readyClosed' = TRUE
        /\ closed' = closed \cup {s}
        /\ ready' => ready \/ result[s] = "nil"
    <3> HIDE DEF ServerInv, TypeOK, ReadyFlagTruthful, Errs
    <3> QED
      BY <1>5, <2>0, Marks
  <2>1. TypeOK'
    BY <2>0, <2>m
  <2>2. HeldByCur'
    BY <2>0, <2>m
  <2>3. ChannelsOf'
    BY <2>0, <2>m
  <2>4. StopChannel' /\ StopJoins'
    BY <2>0, <2>m
  <2>5. ReadyFlagTruthful'
    BY <2>0, <2>m
  <2>6. ReadyMeansPublished'
    BY <2>0, <2>m
  <2> QED
    BY <2>1, <2>2, <2>3, <2>4, <2>5, <2>6
<1>6. CASE StartStoresErr(s)
  BY <1>6 DEF StartStoresErr
<1>7. CASE StartClearsStarted(s)
  <2> USE <1>7 DEF StartClearsStarted
  <2>1. TypeOK'
    OBVIOUS
  <2>2. HeldByCur'
    OBVIOUS
  <2>3. ChannelsOf' /\ StopChannel' /\ StopJoins'
    OBVIOUS
  <2>4. ReadyFlagTruthful' /\ ReadyMeansPublished'
    OBVIOUS
  <2> QED
    BY <2>1, <2>2, <2>3, <2>4
<1>8. CASE StartClearsReady(s)
  BY <1>8 DEF StartClearsReady
<1>9. CASE StartEnd(s)
  BY <1>9 DEF StartEnd
<1>10. CASE ParentCancels(s)
  BY <1>10 DEF ParentCancels
<1> QED
  BY <1>1, <1>2, <1>3, <1>4, <1>5, <1>6, <1>7, <1>8, <1>9, <1>10 DEF StartTail

\* Steps of a WaitReady and of a Stop.
LEMMA ServerCallers ==
  ASSUME ServerInv,
         \/ \E w \in Waits : WaitBegin(w) \/ WaitProgress(w) \/ WaitTimesOut(w)
         \/ \E t \in Stops : StopBegin(t) \/ StopReturns(t) \/ StopTimesOut(t)
  PROVE  ServerInv'
<1> USE ServerAssumption
    DEF ServerInv, TypeOK, HeldByCur, ChannelsOf, StopChannel, Holding,
        Accepted, Marked, StartPC, Errs, ReadyFlagTruthful,
        ReadyMeansPublished, StopJoins, serverVars, chanVars, startVars,
        waitVars, stopVars
<1>1. ASSUME NEW w \in Waits, WaitBegin(w) \/ WaitProgress(w) \/ WaitTimesOut(w)
      PROVE  ServerInv'
  BY <1>1 DEF WaitBegin, WaitProgress, WaitPoll, WaitWoken, WaitReturns,
              WaitTimesOut
<1>2. ASSUME NEW t \in Stops, StopBegin(t) PROVE ServerInv'
  BY <1>2 DEF StopBegin
<1>3. ASSUME NEW t \in Stops, StopReturns(t) PROVE ServerInv'
  BY <1>3 DEF StopReturns
<1>4. ASSUME NEW t \in Stops, StopTimesOut(t) PROVE ServerInv'
  BY <1>4 DEF StopTimesOut
<1> QED
  BY <1>1, <1>2, <1>3, <1>4

LEMMA ServerStep == ServerInv /\ [Next]_vars => ServerInv'
<1> SUFFICES ASSUME ServerInv, [Next]_vars PROVE ServerInv'
  OBVIOUS
<1>1. CASE UNCHANGED vars
  BY <1>1 DEF vars, serverVars, chanVars, startVars, waitVars, stopVars,
    ServerInv, TypeOK, HeldByCur, ChannelsOf, StopChannel, ReadyFlagTruthful,
    ReadyMeansPublished, StopJoins
<1> QED
  BY <1>1, ServerStart, ServerCallers DEF Next

LEMMA ServerInvariant == Spec => []ServerInv
BY ServerInit, ServerStep, PTL DEF Spec

-----------------------------------------------------------------------------
\* Every variable of Server keeps its type: in particular Stop and WaitReady
\* never use the channel or the cancel function of no Start (server.go).
THEOREM ServerTypes == Spec => []TypeOK
<1>1. ServerInv => TypeOK
  BY DEF ServerInv
<1> QED
  BY <1>1, ServerInvariant, PTL

\* markReady, called by the runner and again by the epilogue, closes each
\* readyCh at most once: Server.readyClosed is the truth about it.
THEOREM ReadyFlag == Spec => []ReadyFlagTruthful
<1>1. ServerInv => ReadyFlagTruthful
  BY DEF ServerInv
<1> QED
  BY <1>1, ServerInvariant, PTL

\* Server.ready never speaks for an earlier run, although the epilogue of that
\* run stores its flags outside the mutex.
THEOREM ReadySpeaksForRun == Spec => []ReadyMeansPublished
<1>1. ServerInv => ReadyMeansPublished
  BY DEF ServerInv
<1> QED
  BY <1>1, ServerInvariant, PTL

\* A Stop that came back through done has joined the run it stopped, epilogue
\* included.
THEOREM StopHasJoined == Spec => []StopJoins
<1>1. ServerInv => StopJoins
  BY DEF ServerInv
<1> QED
  BY <1>1, ServerInvariant, PTL

=============================================================================
