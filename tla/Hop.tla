-------------------------------- MODULE Hop ---------------------------------
(***************************************************************************)
(* One bridge connection inside the native runtime, from accept to the     *)
(* first bytes of the CONFIGURATION phase: the pre-connect guard           *)
(* (VialitePreConnectGuard.java) that watches it, and the auto-read holds  *)
(* of the backend channel (ChannelUtil.java) that its login takes.         *)
(*                                                                         *)
(* Three threads run it: the event loop of the client channel (c2p), the   *)
(* event loop of the backend channel (p2s) and the guard's scheduler. A    *)
(* loop runs one task at a time, in the order they were submitted; a task  *)
(* submitted from its own loop runs at once. Handlers of ViaProxy that are *)
(* not part of the repository are modelled from how ChannelUtil and the    *)
(* guard describe them and marked external.                                *)
(***************************************************************************)
EXTENDS Naturals, FiniteSets, Sequences

CONSTANTS
    MaxBursts,   \* bound: packets of configuration data
    MayBlock     \* a handler may block the client channel's loop for ever

Stages == {"handshake", "dial", "configuration"}

ASSUME HopAssumption ==
    /\ MaxBursts \in Nat
    /\ MayBlock \in BOOLEAN

Loops == {"c2p", "p2s"}
Rank == [handshake |-> 1, dial |-> 2, configuration |-> 3]

VARIABLES
    \* the connection
    open,        \* the client channel is open
    deadlines,   \* the stages whose configured deadline is not 0
    modern,      \* the client is 1.20.2 or newer: it has a CONFIGURATION state
    compress,    \* where the backend's SetCompression is
    login,       \* where the join is
    bursts,      \* configuration packets read from the backend
    delivered,   \* packets whose write to the client succeeded after LoginSuccess
    \* the loops
    tasks,       \* Loops -> the submitted tasks
    outbound,    \* ChannelOutboundBuffer of the client channel: flushed writes
                 \* its socket has not taken yet
    blocked,     \* the c2p loop is stuck in a handler
    \* ChannelUtil, for the backend channel
    autoRead,    \* config().isAutoRead()
    saved,       \* LAST_AUTO_READ, top first
    setting,     \* Loops -> the setAutoRead a transition still has to make
    thrown,      \* a restore found a state it refuses
    \* the guard
    stage,       \* STAGE
    armed,       \* Watch.armed
    clientbound, \* Watch.clientbound, in packets
    timer,       \* Stages -> its timer
    late,        \* stages not reached when their deadline passed
    diagnosed    \* stages whose ERROR line was logged

connVars == <<deadlines, modern, compress, login, bursts>>
loopVars == <<tasks, outbound, blocked>>
readVars == <<autoRead, saved, setting, thrown>>
guardVars == <<stage, armed, clientbound>>
timerVars == <<timer, late, diagnosed>>
vars == <<open, connVars, delivered, loopVars, readVars, guardVars, timerVars>>

Writes == {"compression", "success", "burst"}
C2PTasks == Writes \cup {"arm", "close"}
P2STasks == {"restore", "ack"}

\* Type invariant.
TypeOK ==
    /\ open \in BOOLEAN /\ modern \in BOOLEAN /\ blocked \in BOOLEAN
    /\ deadlines \in SUBSET Stages
    /\ compress \in {"none", "due", "sent"}
    /\ login \in {"accepted", "handshake", "dialled", "success", "sent",
                  "acked", "configuration", "play"}
    /\ bursts \in 0..MaxBursts
    /\ delivered \in 0..MaxBursts
    /\ tasks \in [Loops -> Seq(C2PTasks \cup P2STasks)]
    /\ outbound \in Seq(Writes)
    /\ autoRead \in BOOLEAN
    /\ saved \in Seq(BOOLEAN)
    /\ setting \in [Loops -> {"no", "hold", "on", "off"}]
    /\ thrown \in BOOLEAN
    /\ stage \in 0..3
    /\ armed \in BOOLEAN
    /\ clientbound \in 0..MaxBursts
    /\ timer \in [Stages -> {"off", "set", "due", "condemned", "done"}]
    /\ late \in SUBSET Stages
    /\ diagnosed \in SUBSET Stages

\* VialiteClient2ProxyChannelInitializer has armed the guard.
Init ==
    /\ open = TRUE
    /\ deadlines \in SUBSET Stages
    /\ modern \in BOOLEAN
    /\ compress \in {"none", "due"}
    /\ login = "accepted"
    /\ bursts = 0 /\ delivered = 0
    /\ tasks = [l \in Loops |-> <<>>]
    /\ outbound = <<>>
    /\ blocked = FALSE
    /\ autoRead = TRUE
    /\ saved = <<>>
    /\ setting = [l \in Loops |-> "no"]
    /\ thrown = FALSE
    /\ stage = 0
    /\ armed = FALSE
    /\ clientbound = 0
    /\ timer = [s \in Stages |->
                  IF s \in deadlines \ {"configuration"} THEN "set" ELSE "off"]
    /\ late = {} /\ diagnosed = {}

-----------------------------------------------------------------------------
(***************************************************************************)
(* ChannelUtil. A transition pushes or pops the saved state and then calls *)
(* setAutoRead: two steps of the loop it runs on.                          *)
(***************************************************************************)
\* A loop with a transition under way does nothing else.
Free(l) == setting[l] = "no" /\ (l = "c2p" => ~blocked)

Submit(l, task) == tasks' = [tasks EXCEPT ![l] = Append(@, task)]
Done(l) == tasks' = [tasks EXCEPT ![l] = Tail(@)]

\* disableAutoRead on the backend's own loop.
DisableAutoRead ==
    /\ saved' = <<autoRead>> \o saved
    /\ setting' = [setting EXCEPT !["p2s"] = "hold"]
    /\ UNCHANGED <<autoRead, thrown>>

\* The body of restoreAutoRead, run by loop l.
Restore(l) ==
    IF saved = <<>> \/ autoRead
    THEN thrown' = TRUE /\ UNCHANGED <<autoRead, saved, setting>>
    ELSE /\ setting' = [setting EXCEPT ![l] = IF Head(saved) THEN "on" ELSE "off"]
         /\ saved' = Tail(saved)
         /\ UNCHANGED <<autoRead, thrown>>

SetAutoRead(l) ==
    /\ setting[l] # "no"
    /\ autoRead' = (setting[l] = "on")
    /\ setting' = [setting EXCEPT ![l] = "no"]
    /\ UNCHANGED <<open, connVars, delivered, loopVars, saved, thrown, guardVars,
                   timerVars>>

\* Mutant: every loop restores by itself.
RestoreFromClientLoop_Inline(queue) ==
    /\ Restore("c2p")
    /\ tasks' = [tasks EXCEPT !["c2p"] = queue]

\* restoreAutoRead called on the client's loop, whose tasks are then queue: the
\* transition is submitted to the backend's loop.
RestoreFromClientLoop(queue) ==
    /\ tasks' = [tasks EXCEPT !["c2p"] = queue,
                              !["p2s"] = Append(tasks["p2s"], "restore")]
    /\ UNCHANGED readVars

\* A restore submitted from the client's loop runs.
RestoreTask ==
    /\ Free("p2s")
    /\ tasks["p2s"] # <<>> /\ Head(tasks["p2s"]) = "restore"
    /\ Restore("p2s")
    /\ Done("p2s")
    /\ UNCHANGED <<open, connVars, delivered, outbound, blocked, guardVars,
                   timerVars>>

-----------------------------------------------------------------------------
(***************************************************************************)
(* The guard's stages.                                                     *)
(***************************************************************************)
MarkStage(s) == stage' = IF stage < Rank[s] THEN Rank[s] ELSE stage

\* onPreConnect, on the client's loop. Without a route for the port (the
\* backend was removed) the handshake goes on unmarked.
Handshake ==
    /\ Free("c2p") /\ open
    /\ login = "accepted"
    /\ login' = "handshake"
    /\ MarkStage("handshake") \/ UNCHANGED stage
    /\ UNCHANGED <<open, deadlines, modern, compress, bursts, delivered, loopVars,
                   readVars, armed, clientbound, timerVars>>

\* onConnect: ViaProxy is about to dial the backend.
Dial ==
    /\ Free("c2p") /\ open
    /\ login = "handshake"
    /\ login' = "dialled"
    /\ MarkStage("dial")
    /\ UNCHANGED <<open, deadlines, modern, compress, bursts, delivered, loopVars,
                   readVars, armed, clientbound, timerVars>>

\* The client's loop reaches a packet written by the backend's loop and flushes
\* it: from now on its fate is the socket's, and the loop goes on.
WriteTask ==
    /\ Free("c2p") /\ open
    /\ tasks["c2p"] # <<>> /\ Head(tasks["c2p"]) \in Writes
    /\ outbound' = Append(outbound, Head(tasks["c2p"]))
    /\ Done("c2p")
    /\ UNCHANGED <<open, connVars, delivered, blocked, readVars, guardVars,
                   timerVars>>

\* The client takes the oldest flushed packet, and the loop completes its promise.
\* A client that takes nothing leaves it where it is.
WriteDone(packet) ==
    /\ Free("c2p") /\ open
    /\ outbound # <<>> /\ Head(outbound) = packet
    /\ outbound' = Tail(outbound)

\* Mutant: the listener arms the stage itself, ahead of the byte counter.
SuccessWritten_ArmsInline ==
    /\ WriteDone("success")
    /\ login' = IF modern THEN "sent" ELSE "play"
    /\ IF modern
       THEN /\ armed' = TRUE
            /\ clientbound' = 1
            /\ MarkStage("configuration")
            /\ timer' = [timer EXCEPT !["configuration"] =
                           IF "configuration" \in deadlines THEN "set" ELSE @]
            /\ UNCHANGED <<tasks, readVars>>
       ELSE /\ RestoreFromClientLoop(tasks["c2p"])
            /\ UNCHANGED <<guardVars, timer>>
    /\ UNCHANGED <<open, deadlines, modern, compress, bursts, delivered, blocked,
                   late, diagnosed>>

\* The completed write of LoginSuccess: LoginSuccessWatch submits the arming as
\* a task of this loop, and the byte counter, whose listener comes after it,
\* finds the watch not armed. LoginPacketHandler's listener ends the login of a
\* client without a CONFIGURATION state.
SuccessWritten ==
    /\ WriteDone("success")
    /\ IF modern
       THEN /\ Submit("c2p", "arm")
            /\ login' = "sent"
            /\ UNCHANGED readVars
       ELSE /\ RestoreFromClientLoop(Append(tasks["c2p"], "arm"))
            /\ login' = "play"
    /\ UNCHANGED <<open, deadlines, modern, compress, bursts, delivered, blocked,
                   guardVars, timerVars>>

\* armConfigurationStage.
ArmConfiguration ==
    /\ Free("c2p")
    /\ tasks["c2p"] # <<>> /\ Head(tasks["c2p"]) = "arm"
    /\ Done("c2p")
    /\ IF open /\ modern
       THEN /\ clientbound' = 0
            /\ armed' = TRUE
            /\ MarkStage("configuration")
            /\ timer' = [timer EXCEPT !["configuration"] =
                           IF "configuration" \in deadlines THEN "set" ELSE @]
       ELSE UNCHANGED <<guardVars, timer>>
    /\ UNCHANGED <<open, connVars, delivered, outbound, blocked, readVars, late,
                   diagnosed>>

\* A configuration packet reaches the client; TrafficCounter records it.
BurstWritten ==
    /\ WriteDone("burst")
    /\ delivered' = delivered + 1
    /\ clientbound' = IF armed THEN clientbound + 1 ELSE clientbound
    /\ UNCHANGED <<open, connVars, tasks, blocked, readVars, stage, armed,
                   timerVars>>

(***************************************************************************)
(* The timers, on the scheduler's own thread.                              *)
(***************************************************************************)
\* Mutant: what is parked in the outbound buffer counts as delivered.
Reached_CountsParked(s) ==
    IF s = "configuration" THEN clientbound > 0 \/ outbound # <<>>
    ELSE stage >= Rank[s]

\* What a stage's timer looks for.
Reached(s) ==
    IF s = "configuration" THEN clientbound > 0 ELSE stage >= Rank[s]

\* Mutant: the timers run on the client's loop.
DeadlinePasses_OnLoop(s) ==
    /\ Free("c2p")
    /\ timer[s] = "set"
    /\ timer' = [timer EXCEPT ![s] = "due"]
    /\ late' = late
    /\ UNCHANGED <<open, connVars, delivered, loopVars, readVars, guardVars,
                   diagnosed>>

\* The delay a stage's timer was scheduled with is over; what matters to the
\* properties is whether the join had got there by then.
DeadlinePasses(s) ==
    /\ timer[s] = "set"
    /\ timer' = [timer EXCEPT ![s] = "due"]
    /\ late' = IF (IF s = "configuration" THEN delivered > 0 ELSE stage >= Rank[s])
               THEN late ELSE late \cup {s}
    /\ UNCHANGED <<open, connVars, delivered, loopVars, readVars, guardVars,
                   diagnosed>>

\* Mutant: the stage that was reached counts as missed.
Fire_OffByOne(s) ==
    /\ timer[s] = "due"
    /\ timer' = [timer EXCEPT ![s] =
                   IF open /\ (IF s = "configuration" THEN ~Reached(s)
                               ELSE stage <= Rank[s])
                   THEN "condemned" ELSE "done"]
    /\ UNCHANGED <<open, connVars, delivered, loopVars, readVars, guardVars, late,
                   diagnosed>>

\* fire and fireConfiguration: the checks, and then the ERROR line and the
\* close, which Netty runs on the channel's loop. The join may move in between.
Fire(s) ==
    /\ timer[s] = "due"
    /\ timer' = [timer EXCEPT ![s] =
                   IF open /\ ~Reached(s) THEN "condemned" ELSE "done"]
    /\ UNCHANGED <<open, connVars, delivered, loopVars, readVars, guardVars, late,
                   diagnosed>>

Condemn(s) ==
    /\ timer[s] = "condemned"
    /\ timer' = [timer EXCEPT ![s] = "done"]
    /\ diagnosed' = diagnosed \cup {s}
    /\ Submit("c2p", "close")
    /\ UNCHANGED <<open, connVars, delivered, outbound, blocked, readVars,
                   guardVars, late>>

\* The close of a condemned connection; it fails the writes still outbound, whose
\* listeners see no success.
CloseTask ==
    /\ Free("c2p")
    /\ tasks["c2p"] # <<>> /\ Head(tasks["c2p"]) = "close"
    /\ Done("c2p")
    /\ open' = FALSE
    /\ outbound' = <<>>
    /\ UNCHANGED <<connVars, delivered, blocked, readVars, guardVars, timerVars>>

-----------------------------------------------------------------------------
(***************************************************************************)
(* The login as ViaProxy drives it.                                        *)
(***************************************************************************)
\* CompressionPacketHandler holds the backend while SetCompression is written.
Compression ==
    /\ Free("p2s") /\ open
    /\ login = "dialled" /\ compress = "due"
    /\ compress' = "sent"
    /\ DisableAutoRead
    /\ Submit("c2p", "compression")
    /\ UNCHANGED <<open, deadlines, modern, login, bursts, delivered, outbound,
                   blocked, guardVars, timerVars>>

CompressionWritten ==
    /\ WriteDone("compression")
    /\ RestoreFromClientLoop(tasks["c2p"])
    /\ UNCHANGED <<open, connVars, delivered, blocked, guardVars, timerVars>>

\* LoginPacketHandler.handleP2S: it may come while compression holds the
\* channel, because the packet was already decoded.
LoginSuccess ==
    /\ Free("p2s") /\ open
    /\ login = "dialled" /\ compress # "due"
    /\ login' = "success"
    /\ DisableAutoRead
    /\ Submit("c2p", "success")
    /\ UNCHANGED <<open, deadlines, modern, compress, bursts, delivered, outbound,
                   blocked, guardVars, timerVars>>

\* ConfigurationPacketHandler: the client acknowledges the login; the write to
\* the backend completes on the backend's loop and releases it there.
Acknowledged ==
    /\ Free("c2p") /\ open
    /\ login = "sent"
    /\ login' = "acked"
    /\ Submit("p2s", "ack")
    /\ UNCHANGED <<open, deadlines, modern, compress, bursts, delivered, outbound,
                   blocked, readVars, guardVars, timerVars>>

AckTask ==
    /\ Free("p2s")
    /\ tasks["p2s"] # <<>> /\ Head(tasks["p2s"]) = "ack"
    /\ Restore("p2s")
    /\ Done("p2s")
    /\ login' = "configuration"
    /\ UNCHANGED <<open, deadlines, modern, compress, bursts, delivered, outbound,
                   blocked, guardVars, timerVars>>

\* The backend sends configuration data; it is read only while auto-read is on.
ReadBurst ==
    /\ Free("p2s") /\ open
    /\ login = "configuration" /\ autoRead
    /\ bursts < MaxBursts
    /\ bursts' = bursts + 1
    /\ Submit("c2p", "burst")
    /\ UNCHANGED <<open, deadlines, modern, compress, login, delivered, outbound,
                   blocked, readVars, guardVars, timerVars>>

\* The peer hangs up, or a handler fails.
Disconnect ==
    /\ Free("c2p") /\ open
    /\ open' = FALSE
    /\ outbound' = <<>>
    /\ UNCHANGED <<connVars, delivered, tasks, blocked, readVars, guardVars,
                   timerVars>>

\* Writes to a closed channel fail; their listeners see no success.
WriteFails ==
    /\ Free("c2p") /\ ~open
    /\ tasks["c2p"] # <<>> /\ Head(tasks["c2p"]) \in Writes
    /\ Done("c2p")
    /\ UNCHANGED <<open, connVars, delivered, outbound, blocked, readVars,
                   guardVars, timerVars>>

\* A handler on the client's loop never comes back.
LoopBlocks ==
    /\ MayBlock /\ Free("c2p")
    /\ blocked' = TRUE
    /\ UNCHANGED <<open, connVars, delivered, tasks, outbound, readVars, guardVars,
                   timerVars>>

-----------------------------------------------------------------------------
\* Work the two loops have to do, the scheduler's, and what the client decides.
ClientLoop == WriteTask \/ WriteFails \/ ArmConfiguration \/ CloseTask
BackendLoop == (\E l \in Loops : SetAutoRead(l)) \/ RestoreTask \/ AckTask
Scheduler == \E s \in Stages : DeadlinePasses(s) \/ Fire(s) \/ Condemn(s)
ClientTakes == CompressionWritten \/ SuccessWritten \/ BurstWritten

Next ==
    \/ ClientLoop \/ BackendLoop \/ Scheduler \/ ClientTakes
    \/ Handshake \/ Dial \/ Compression \/ LoginSuccess \/ Acknowledged
    \/ ReadBurst \/ Disconnect \/ LoopBlocks

Spec == Init /\ [][Next]_vars

\* Event loops run their tasks unless they are blocked, and the scheduler is a
\* thread of its own. Nothing is assumed of the peers: a write to the client may
\* never complete.
FairSpec ==
    /\ Spec
    /\ WF_vars(ClientLoop)
    /\ WF_vars(BackendLoop)
    /\ \A s \in Stages : WF_vars(DeadlinePasses(s) \/ Fire(s) \/ Condemn(s))

-----------------------------------------------------------------------------
\* A hold begins and ends with its setAutoRead: a pushed state is no hold yet, a
\* popped one still is.
Pending(kinds) == Cardinality({l \in Loops : setting[l] \in kinds})
FC == INSTANCE FlowControl WITH
        holds <- Len(saved) + Pending({"on", "off"}) - Pending({"hold"}),
        reading <- autoRead,
        MaxHolds <- 2

\* The backend channel implements FlowControl: whatever loops ask for the
\* transitions, it reads exactly when nobody holds it (ChannelUtil.java), and no
\* restore finds it reading or finds nothing saved, the two states that
\* restoreAutoRead answers with an exception nobody handles.
HoldsRespected == FC!Spec /\ []~thrown

\* A join that got past its login is read from again, whatever the client does
\* and even if its loop hangs: the stall of build/autoread-order cannot happen.
ReadingResumes == login \in {"configuration", "play"} ~> autoRead

\* The watch counts what was delivered since LoginSuccess and nothing else: not
\* LoginSuccess itself, and none of the packets after it is missed.
CountsOnlyConfiguration == modern => clientbound = delivered

\* The guard closes no join that reached its stage in time, however late the
\* scheduler gets to look and whatever the loop does meanwhile.
HealthySpared ==
    \A s \in Stages :
        timer[s] = "condemned" \/ s \in diagnosed => s \in late

\* With a dial deadline no connection is parked in silence: it dials, closes or
\* is named in an ERROR line, also when the client's loop is blocked.
NotSilent ==
    "dial" \in deadlines
        ~> \/ stage >= Rank["dial"] \/ ~open \/ "dial" \in diagnosed

\* A client in CONFIGURATION is sent something or is disconnected, and every
\* diagnosis is followed by the close it announces, unless the loop that has to
\* run it is blocked.
SilentClosed ==
    /\ armed /\ "configuration" \in deadlines ~> delivered > 0 \/ ~open \/ blocked
    /\ diagnosed # {} ~> ~open \/ blocked
=============================================================================
