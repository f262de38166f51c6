------------------------------ MODULE HopProofs -----------------------------
(***************************************************************************)
(* Theorems about Hop: the guard's verdicts, and the proof that the two    *)
(* event loops implement FlowControl.                                      *)
(***************************************************************************)
EXTENDS Hop, FiniteSetTheorems, TLAPS

-----------------------------------------------------------------------------
(***************************************************************************)
(* Queues. How often a task is in a queue, and where.                      *)
(***************************************************************************)
Tasks == C2PTasks \cup P2STasks
At(q, t) == {i \in 1..Len(q) : q[i] = t}
Count(q, t) == Cardinality(At(q, t))

LEMMA CountNat ==
  ASSUME NEW q \in Seq(Tasks), NEW t
  PROVE  IsFiniteSet(At(q, t)) /\ Count(q, t) \in Nat
<1>1. Len(q) \in Nat /\ IsFiniteSet(1..Len(q)) /\ At(q, t) \in SUBSET (1..Len(q))
  BY FS_Interval DEF At
<1> QED
  BY <1>1, FS_Subset, FS_CardinalityType DEF Count

\* A task is in a queue somewhere if it is there at least once.
LEMMA CountZero ==
  ASSUME NEW q \in Seq(Tasks), NEW t
  PROVE  Count(q, t) = 0 <=> \A i \in 1..Len(q) : q[i] # t
<1>1. Count(q, t) = 0 <=> At(q, t) = {}
  BY CountNat, FS_EmptySet DEF Count
<1>2. At(q, t) = {} <=> \A i \in 1..Len(q) : q[i] # t
  BY DEF At
<1> QED
  BY <1>1, <1>2

LEMMA CountEmpty == ASSUME NEW t PROVE Count(<<>>, t) = 0
<1>1. At(<<>>, t) = {}
  BY DEF At
<1> QED
  BY <1>1, FS_EmptySet DEF Count

LEMMA CountAppend ==
  ASSUME NEW q \in Seq(Tasks), NEW e \in Tasks, NEW t
  PROVE  Count(Append(q, e), t) = Count(q, t) + (IF e = t THEN 1 ELSE 0)
<1>1. CASE e = t
  <2>1. At(Append(q, e), t) = At(q, t) \cup {Len(q) + 1}
    BY <1>1 DEF At
  <2>2. Len(q) + 1 \notin At(q, t)
    BY DEF At
  <2> QED
    BY <1>1, <2>1, <2>2, CountNat, FS_AddElement DEF Count
<1>2. CASE e # t
  <2>1. At(Append(q, e), t) = At(q, t)
    BY <1>2 DEF At
  <2> QED
    BY <1>2, <2>1, CountNat DEF Count
<1> QED
  BY <1>1, <1>2

LEMMA CountTail ==
  ASSUME NEW q \in Seq(Tasks), q # <<>>, NEW t
  PROVE  Count(Tail(q), t) = Count(q, t) - (IF Head(q) = t THEN 1 ELSE 0)
<1> DEFINE S == At(Tail(q), t)
           T == At(q, t) \ {1}
           f == [i \in S |-> i + 1]
<1>1. Tail(q) \in Seq(Tasks) /\ Len(Tail(q)) = Len(q) - 1 /\ Len(q) \in Nat \ {0}
  OBVIOUS
<1>2. \A i \in 1..Len(Tail(q)) : Tail(q)[i] = q[i + 1]
  OBVIOUS
<1>3. f \in Bijection(S, T)
  <2>1. f \in [S -> T]
    BY <1>1, <1>2 DEF At
  <2>2. \A i, j \in S : f[i] = f[j] => i = j
    BY <1>1 DEF At
  <2>3. \A j \in T : \E i \in S : f[i] = j
    <3> TAKE j \in T
    <3>1. j - 1 \in S
      BY <1>1, <1>2 DEF At
    <3>2. f[j - 1] = j
      BY <3>1, <1>1 DEF At
    <3> QED
      BY <3>1, <3>2
  <2> QED
    BY <2>1, <2>2, <2>3 DEF Bijection, Injection, Surjection, IsInjective
<1>4. Cardinality(T) = Cardinality(S)
  <2>1. IsFiniteSet(S) /\ ExistsBijection(S, T)
    BY <1>1, <1>3, CountNat DEF ExistsBijection
  <2> HIDE DEF S, T
  <2> QED
    BY <2>1, FS_Bijection
<1>5. 1 \in At(q, t) <=> Head(q) = t
  BY <1>1 DEF At
<1>6. Cardinality(T) = IF 1 \in At(q, t) THEN Cardinality(At(q, t)) - 1
                                         ELSE Cardinality(At(q, t))
  BY CountNat, FS_RemoveElement
<1> QED
  BY <1>4, <1>5, <1>6, CountNat DEF Count

-----------------------------------------------------------------------------
(***************************************************************************)
(* The inductive invariant.                                                *)
(***************************************************************************)
One(b) == IF b THEN 1 ELSE 0
C2P(t) == Count(tasks["c2p"], t)
P2S(t) == Count(tasks["p2s"], t)
Out(t) == Count(outbound, t)

\* Writes to the client under way: queued for its loop, or flushed and not taken.
Writing(t) == C2P(t) + Out(t)

\* The join before LoginSuccess was read, and after it reached a modern client.
Early == {"accepted", "handshake", "dialled"}
Sent == {"sent", "acked", "configuration"}

\* Transitions run on the backend's loop only. The stack below the top records a
\* channel that was held already, its bottom one that was reading; the flag is
\* in step with the stack except between the two halves of a transition.
Confined == setting["c2p"] = "no"
HeldNot == Len(saved) = 0
HeldOnce == Len(saved) = 1 /\ saved[1]
HeldTwice == Len(saved) = 2 /\ ~saved[1] /\ saved[2]
SavedShape ==
    /\ setting["p2s"] = "no" =>
          (HeldNot /\ autoRead) \/ ((HeldOnce \/ HeldTwice) /\ ~autoRead)
    /\ setting["p2s"] = "hold" =>
          (HeldOnce /\ autoRead) \/ (HeldTwice /\ ~autoRead)
    /\ setting["p2s"] = "on" => HeldNot /\ ~autoRead
    /\ setting["p2s"] = "off" => HeldOnce /\ ~autoRead
NotRefused == ~thrown

\* Everybody who will restore has a saved state to restore, and no more states
\* are saved than compression and login together take.
HoldsOwed ==
    /\ Len(saved) <= One(compress = "sent") + One(login \notin Early)
    /\ P2S("restore") + P2S("ack") + Writing("compression") + Writing("success")
         + One(login = "sent") <= Len(saved)

\* The stage is armed at most once, by the one LoginSuccess, and a modern client
\* that may answer it is armed, closed or about to be armed.
ArmOnce == Writing("success") + C2P("arm") + One(armed) <= One(login \notin Early)
ArmComes ==
    modern => /\ P2S("ack") > 0 => login \in Sent
              /\ login \in Sent => armed \/ ~open \/ C2P("arm") > 0

\* No configuration packet is ahead of the arming in the client's queue, and none
\* was flushed before it.
BurstsFollowArm ==
    modern /\ open /\ ~armed =>
        /\ Out("burst") = 0
        /\ \A i \in 1..Len(tasks["c2p"]) :
              tasks["c2p"][i] = "burst" =>
                  \E j \in 1..(i - 1) : tasks["c2p"][j] = "arm"

\* What was delivered was read before, and counted if the client is modern.
Delivered ==
    /\ delivered + Writing("burst") <= bursts
    /\ modern /\ delivered > 0 => armed
    /\ ~modern => ~armed /\ clientbound = 0

\* A join that was in time stays in time.
InTime(s) == IF s = "configuration" THEN delivered > 0 ELSE stage >= Rank[s]
Verdicts ==
    /\ timer["configuration"] # "off" => modern
    /\ \A s \in Stages : timer[s] = "due" /\ s \notin late => InTime(s)

ReadInv == Confined /\ SavedShape /\ NotRefused
ArmInv == ArmOnce /\ ArmComes /\ BurstsFollowArm
GuardInv == Delivered /\ CountsOnlyConfiguration /\ Verdicts /\ HealthySpared
HopInv == TypeOK /\ ReadInv /\ HoldsOwed /\ ArmInv /\ GuardInv

LEMMA HopInit == Init => HopInv
<1> SUFFICES ASSUME Init PROVE HopInv
  OBVIOUS
<1> USE HopAssumption DEF Init
<1>1. \A t : C2P(t) = 0 /\ P2S(t) = 0 /\ Out(t) = 0 /\ Writing(t) = 0
  BY CountEmpty DEF C2P, P2S, Out, Writing, Loops
<1>2. TypeOK
  <2>1. timer \in [Stages -> {"off", "set", "due", "condemned", "done"}]
    OBVIOUS
  <2>2. tasks \in [Loops -> Seq(C2PTasks \cup P2STasks)] /\ saved \in Seq(BOOLEAN)
        /\ outbound \in Seq(Writes)
    OBVIOUS
  <2>3. setting \in [Loops -> {"no", "hold", "on", "off"}]
    OBVIOUS
  <2>4. 0 \in 0..MaxBursts /\ 0 \in 0..3
    OBVIOUS
  <2>5. login \in {"accepted", "handshake", "dialled", "success", "sent",
                  "acked", "configuration", "play"}
    OBVIOUS
  <2>6. compress \in {"none", "due", "sent"}
    OBVIOUS
  <2>7. open \in BOOLEAN /\ modern \in BOOLEAN /\ blocked \in BOOLEAN
        /\ autoRead \in BOOLEAN /\ thrown \in BOOLEAN /\ armed \in BOOLEAN
    OBVIOUS
  <2>8. deadlines \in SUBSET Stages /\ late \in SUBSET Stages
        /\ diagnosed \in SUBSET Stages
    OBVIOUS
  <2>9. bursts = 0 /\ delivered = 0 /\ stage = 0 /\ clientbound = 0
    OBVIOUS
  <2> QED
    BY <2>1, <2>2, <2>3, <2>4, <2>5, <2>6, <2>7, <2>8, <2>9 DEF TypeOK
<1>3. ReadInv
  <2>1. setting["c2p"] = "no" /\ setting["p2s"] = "no"
    BY DEF Loops
  <2>2. HeldNot
    BY DEF HeldNot
  <2>3. autoRead /\ ~thrown
    BY Zenon
  <2>4. SavedShape
    BY <2>1, <2>2, <2>3, Zenon DEF SavedShape
  <2> QED
    BY <2>1, <2>3, <2>4 DEF ReadInv, Confined, NotRefused
<1>4. HoldsOwed
  BY <1>1 DEF HoldsOwed, One, Early
<1>5. ArmInv
  BY <1>1 DEF ArmInv, ArmOnce, ArmComes, BurstsFollowArm, One, Early, Sent, Loops
<1>6. GuardInv
  BY <1>1 DEF GuardInv, Delivered, CountsOnlyConfiguration, Verdicts,
    HealthySpared, InTime, Stages
<1> QED
  BY <1>2, <1>3, <1>4, <1>5, <1>6 DEF HopInv

-----------------------------------------------------------------------------
(***************************************************************************)
(* What the steps do to the queues.                                        *)
(***************************************************************************)
LEMMA TasksType ==
  ASSUME TypeOK
  PROVE  /\ tasks \in [Loops -> Seq(Tasks)]
         /\ tasks["c2p"] \in Seq(Tasks) /\ tasks["p2s"] \in Seq(Tasks)
         /\ outbound \in Seq(Tasks)
         /\ \A t : /\ C2P(t) \in Nat /\ P2S(t) \in Nat
                   /\ Out(t) \in Nat /\ Writing(t) \in Nat
<1>1. /\ tasks \in [Loops -> Seq(Tasks)]
      /\ tasks["c2p"] \in Seq(Tasks) /\ tasks["p2s"] \in Seq(Tasks)
  BY DEF TypeOK, Tasks, Loops
<1>2. outbound \in Seq(Tasks)
  <2>1. Writes \subseteq Tasks /\ outbound \in Seq(Writes)
    BY DEF TypeOK, Tasks, C2PTasks, Writes
  <2> QED
    BY <2>1
<1>3. \A t : C2P(t) \in Nat /\ P2S(t) \in Nat /\ Out(t) \in Nat
  BY <1>1, <1>2, CountNat DEF C2P, P2S, Out
<1> QED
  BY <1>1, <1>2, <1>3 DEF Writing

LEMMA SubmitC2P ==
  ASSUME TypeOK, NEW e \in Tasks, Submit("c2p", e)
  PROVE  /\ tasks' \in [Loops -> Seq(Tasks)]
         /\ tasks'["c2p"] = Append(tasks["c2p"], e) /\ tasks'["p2s"] = tasks["p2s"]
         /\ \A t : C2P(t)' = C2P(t) + One(e = t) /\ P2S(t)' = P2S(t)
<1>1. /\ tasks' \in [Loops -> Seq(Tasks)]
      /\ tasks'["c2p"] = Append(tasks["c2p"], e) /\ tasks'["p2s"] = tasks["p2s"]
  BY DEF Submit, TypeOK, Tasks, Loops
<1> QED
  BY <1>1, TasksType, CountAppend DEF C2P, P2S, One

LEMMA SubmitP2S ==
  ASSUME TypeOK, NEW e \in Tasks, Submit("p2s", e)
  PROVE  /\ tasks' \in [Loops -> Seq(Tasks)]
         /\ tasks'["p2s"] = Append(tasks["p2s"], e) /\ tasks'["c2p"] = tasks["c2p"]
         /\ \A t : P2S(t)' = P2S(t) + One(e = t) /\ C2P(t)' = C2P(t)
<1>1. /\ tasks' \in [Loops -> Seq(Tasks)]
      /\ tasks'["p2s"] = Append(tasks["p2s"], e) /\ tasks'["c2p"] = tasks["c2p"]
  BY DEF Submit, TypeOK, Tasks, Loops
<1> QED
  BY <1>1, TasksType, CountAppend DEF C2P, P2S, One

LEMMA DoneC2P ==
  ASSUME TypeOK, tasks["c2p"] # <<>>, Done("c2p")
  PROVE  /\ tasks' \in [Loops -> Seq(Tasks)]
         /\ tasks'["c2p"] = Tail(tasks["c2p"]) /\ tasks'["p2s"] = tasks["p2s"]
         /\ \A t : /\ C2P(t)' = C2P(t) - One(Head(tasks["c2p"]) = t)
                   /\ P2S(t)' = P2S(t)
<1>1. /\ tasks' \in [Loops -> Seq(Tasks)]
      /\ tasks'["c2p"] = Tail(tasks["c2p"]) /\ tasks'["p2s"] = tasks["p2s"]
  BY DEF Done, TypeOK, Tasks, Loops
<1> QED
  BY <1>1, TasksType, CountTail DEF C2P, P2S, One

LEMMA DoneP2S ==
  ASSUME TypeOK, tasks["p2s"] # <<>>, Done("p2s")
  PROVE  /\ tasks' \in [Loops -> Seq(Tasks)]
         /\ tasks'["p2s"] = Tail(tasks["p2s"]) /\ tasks'["c2p"] = tasks["c2p"]
         /\ \A t : /\ P2S(t)' = P2S(t) - One(Head(tasks["p2s"]) = t)
                   /\ C2P(t)' = C2P(t)
<1>1. /\ tasks' \in [Loops -> Seq(Tasks)]
      /\ tasks'["p2s"] = Tail(tasks["p2s"]) /\ tasks'["c2p"] = tasks["c2p"]
  BY DEF Done, TypeOK, Tasks, Loops
<1> QED
  BY <1>1, TasksType, CountTail DEF C2P, P2S, One

LEMMA TwoQueues ==
  ASSUME TypeOK, NEW a \in Seq(Tasks), NEW b \in Seq(Tasks),
         tasks' = [tasks EXCEPT !["c2p"] = a, !["p2s"] = b]
  PROVE  tasks' \in [Loops -> Seq(Tasks)] /\ tasks'["c2p"] = a /\ tasks'["p2s"] = b
<1>1. tasks \in [Loops -> Seq(Tasks)]
  BY TasksType
<1> QED
  BY <1>1 DEF Loops

\* A write goes from the queue to the outbound buffer.
LEMMA WriteTasks ==
  ASSUME TypeOK, WriteTask
  PROVE  /\ tasks' \in [Loops -> Seq(Tasks)]
         /\ outbound' \in Seq(Writes)
         /\ tasks["c2p"] # <<>> /\ tasks'["c2p"] = Tail(tasks["c2p"])
         /\ \A t : /\ C2P(t)' = C2P(t) - One(Head(tasks["c2p"]) = t)
                   /\ Out(t)' = Out(t) + One(Head(tasks["c2p"]) = t)
                   /\ Writing(t)' = Writing(t) /\ P2S(t)' = P2S(t)
<1> DEFINE h == Head(tasks["c2p"])
<1>1. /\ tasks["c2p"] # <<>> /\ Done("c2p")
      /\ h \in Writes /\ outbound' = Append(outbound, h)
  BY DEF WriteTask
<1>2. /\ tasks' \in [Loops -> Seq(Tasks)]
      /\ tasks'["c2p"] = Tail(tasks["c2p"])
      /\ \A t : C2P(t)' = C2P(t) - One(h = t) /\ P2S(t)' = P2S(t)
  BY <1>1, DoneC2P
<1>3. outbound' \in Seq(Writes) /\ h \in Tasks
  BY <1>1 DEF TypeOK, Tasks, C2PTasks, Writes
<1>4. \A t : Out(t)' = Out(t) + One(h = t)
  BY <1>1, <1>3, TasksType, CountAppend DEF Out, One
<1>5. ASSUME NEW t PROVE Writing(t)' = Writing(t)
  <2>1. /\ C2P(t) \in Nat /\ Out(t) \in Nat /\ One(h = t) \in Nat
        /\ C2P(t)' = C2P(t) - One(h = t) /\ Out(t)' = Out(t) + One(h = t)
    BY <1>2, <1>4, TasksType DEF One
  <2>2. Writing(t)' = C2P(t)' + Out(t)' /\ Writing(t) = C2P(t) + Out(t)
    BY DEF Writing
  <2> HIDE DEF h
  <2> QED
    BY <2>1, <2>2
<1> QED
  BY <1>1, <1>2, <1>3, <1>4, <1>5

\* The client takes a packet.
LEMMA TakenTasks ==
  ASSUME TypeOK, NEW p, WriteDone(p)
  PROVE  /\ outbound' \in Seq(Writes)
         /\ Out(p) >= 1
         /\ \A t : Out(t)' = Out(t) - One(t = p)
<1>1. outbound # <<>> /\ Head(outbound) = p /\ outbound' = Tail(outbound)
  BY DEF WriteDone
<1>2. outbound' \in Seq(Writes)
  BY <1>1 DEF TypeOK
<1>3. \A t : Out(t)' = Out(t) - One(t = p)
  BY <1>1, TasksType, CountTail DEF Out, One
<1>4. Out(p)' \in Nat
  <2>1. Tail(outbound) \in Seq(Tasks)
    BY <1>1, TasksType
  <2> QED
    BY <1>1, <2>1, CountNat DEF Out
<1>5. Out(p)' = Out(p) - 1
  BY <1>3 DEF One
<1> QED
  BY <1>2, <1>3, <1>4, <1>5, TasksType

\* The completed write of SetCompression.
LEMMA CompressionTasks ==
  ASSUME TypeOK, CompressionWritten
  PROVE  /\ tasks' \in [Loops -> Seq(Tasks)]
         /\ tasks'["c2p"] = tasks["c2p"]
         /\ outbound' \in Seq(Writes)
         /\ \A t : /\ C2P(t)' = C2P(t) /\ Out(t)' = Out(t) - One(t = "compression")
                   /\ Writing(t)' = Writing(t) - One(t = "compression")
                   /\ P2S(t)' = P2S(t) + One(t = "restore")
<1>1. "restore" \in Tasks
  BY DEF Tasks, P2STasks
<1>2. /\ outbound' \in Seq(Writes)
      /\ \A t : Out(t)' = Out(t) - One(t = "compression")
  BY TakenTasks DEF CompressionWritten
<1>3. /\ tasks' \in [Loops -> Seq(Tasks)]
      /\ tasks'["c2p"] = tasks["c2p"]
      /\ tasks'["p2s"] = Append(tasks["p2s"], "restore")
  <2>1. Append(tasks["p2s"], "restore") \in Seq(Tasks)
    BY <1>1, TasksType
  <2>2. tasks' = [tasks EXCEPT !["c2p"] = tasks["c2p"],
                               !["p2s"] = Append(tasks["p2s"], "restore")]
    BY DEF CompressionWritten, RestoreFromClientLoop
  <2> QED
    BY <2>1, <2>2, TasksType, TwoQueues
<1>4. \A t : C2P(t)' = C2P(t)
  BY <1>3 DEF C2P
<1>5. \A t : P2S(t)' = P2S(t) + One(t = "restore")
  BY <1>1, <1>3, TasksType, CountAppend DEF P2S, One
<1>6. \A t : Writing(t)' = Writing(t) - One(t = "compression")
  BY <1>2, <1>4, TasksType DEF Writing, One
<1> QED
  BY <1>2, <1>3, <1>4, <1>5, <1>6

\* The completed write of LoginSuccess.
LEMMA SuccessTasks ==
  ASSUME TypeOK, SuccessWritten
  PROVE  /\ tasks' \in [Loops -> Seq(Tasks)]
         /\ tasks'["c2p"] = Append(tasks["c2p"], "arm")
         /\ outbound' \in Seq(Writes)
         /\ \A t : /\ C2P(t)' = C2P(t) + One(t = "arm")
                   /\ Out(t)' = Out(t) - One(t = "success")
                   /\ Writing(t)' = Writing(t) - One(t = "success") + One(t = "arm")
                   /\ P2S(t)' = P2S(t) + One(~modern /\ t = "restore")
<1>1. "restore" \in Tasks /\ "arm" \in Tasks
  BY DEF Tasks, P2STasks, C2PTasks, Writes
<1>2. /\ outbound' \in Seq(Writes)
      /\ \A t : Out(t)' = Out(t) - One(t = "success")
  BY TakenTasks DEF SuccessWritten
<1>3. /\ tasks' \in [Loops -> Seq(Tasks)]
      /\ tasks'["c2p"] = Append(tasks["c2p"], "arm")
      /\ tasks'["p2s"] = IF modern THEN tasks["p2s"]
                         ELSE Append(tasks["p2s"], "restore")
  <2>1. /\ Append(tasks["p2s"], "restore") \in Seq(Tasks)
        /\ Append(tasks["c2p"], "arm") \in Seq(Tasks)
    BY <1>1, TasksType
  <2>2. CASE modern
    BY <1>1, <2>2, SubmitC2P DEF SuccessWritten
  <2>3. CASE ~modern
    <3>1. tasks' = [tasks EXCEPT !["c2p"] = Append(tasks["c2p"], "arm"),
                                 !["p2s"] = Append(tasks["p2s"], "restore")]
      BY <2>3 DEF SuccessWritten, RestoreFromClientLoop
    <3> QED
      BY <2>1, <2>3, <3>1, TwoQueues
  <2> QED
    BY <2>2, <2>3
<1>4. \A t : C2P(t)' = C2P(t) + One(t = "arm")
  BY <1>1, <1>3, TasksType, CountAppend DEF C2P, One
<1>5. \A t : P2S(t)' = P2S(t) + One(~modern /\ t = "restore")
  BY <1>1, <1>3, TasksType, CountAppend DEF P2S, One
<1>6. ASSUME NEW t
      PROVE  Writing(t)' = Writing(t) - One(t = "success") + One(t = "arm")
  <2>1. /\ C2P(t) \in Nat /\ Out(t) \in Nat
        /\ One(t = "success") \in Nat /\ One(t = "arm") \in Nat
        /\ C2P(t)' = C2P(t) + One(t = "arm") /\ Out(t)' = Out(t) - One(t = "success")
    BY <1>2, <1>4, TasksType DEF One
  <2>2. Writing(t)' = C2P(t)' + Out(t)' /\ Writing(t) = C2P(t) + Out(t)
    BY DEF Writing
  <2> QED
    BY <2>1, <2>2
<1> QED
  BY <1>2, <1>3, <1>4, <1>5, <1>6

\* A queue holds the task at its head at least once.
LEMMA HeadCounted ==
  ASSUME TypeOK
  PROVE  /\ tasks["c2p"] # <<>> => C2P(Head(tasks["c2p"])) >= 1
         /\ tasks["p2s"] # <<>> => P2S(Head(tasks["p2s"])) >= 1
<1>1. \A q \in Seq(Tasks) : q # <<>> => Count(q, Head(q)) >= 1
  <2> SUFFICES ASSUME NEW q \in Seq(Tasks), q # <<>> PROVE Count(q, Head(q)) >= 1
    OBVIOUS
  <2>1. Tail(q) \in Seq(Tasks)
    OBVIOUS
  <2>2. Count(Tail(q), Head(q)) = Count(q, Head(q)) - 1
    BY CountTail
  <2>3. Count(Tail(q), Head(q)) \in Nat /\ Count(q, Head(q)) \in Nat
    BY <2>1, CountNat
  <2> QED
    BY <2>2, <2>3
<1> QED
  BY <1>1, TasksType DEF C2P, P2S

-----------------------------------------------------------------------------
(***************************************************************************)
(* Type correctness, with what was delivered and counted within its bound. *)
(***************************************************************************)
LEMMA TypeStep ==
  ASSUME HopInv, [Next]_vars
  PROVE  TypeOK'
<1> USE HopAssumption DEF HopInv
<1>q. \A l \in Loops, t \in Tasks : Submit(l, t) => tasks' \in [Loops -> Seq(Tasks)]
  BY TasksType DEF Submit, Loops
<1>r. Restore("p2s") => /\ autoRead' \in BOOLEAN /\ thrown' \in BOOLEAN
                        /\ saved' \in Seq(BOOLEAN)
                        /\ setting' \in [Loops -> {"no", "hold", "on", "off"}]
  <2>1. autoRead \in BOOLEAN /\ thrown \in BOOLEAN /\ saved \in Seq(BOOLEAN)
        /\ setting \in [Loops -> {"no", "hold", "on", "off"}]
    BY DEF TypeOK
  <2>2. CASE saved = <<>> \/ autoRead
    BY <2>1, <2>2 DEF Restore
  <2>3. CASE ~(saved = <<>> \/ autoRead)
    <3>1. Tail(saved) \in Seq(BOOLEAN)
      BY <2>1, <2>3
    <3>2. (IF Head(saved) THEN "on" ELSE "off") \in {"no", "hold", "on", "off"}
      OBVIOUS
    <3> QED
      BY <2>1, <2>3, <3>1, <3>2 DEF Restore
  <2> QED
    BY <2>2, <2>3
<1>h. DisableAutoRead => /\ autoRead' \in BOOLEAN /\ thrown' \in BOOLEAN
                         /\ saved' \in Seq(BOOLEAN)
                         /\ setting' \in [Loops -> {"no", "hold", "on", "off"}]
  <2>1. autoRead \in BOOLEAN /\ thrown \in BOOLEAN /\ saved \in Seq(BOOLEAN)
        /\ setting \in [Loops -> {"no", "hold", "on", "off"}]
    BY DEF TypeOK
  <2>2. <<autoRead>> \o saved \in Seq(BOOLEAN)
    BY <2>1
  <2> QED
    BY <2>1, <2>2 DEF DisableAutoRead
<1>m. \A s \in Stages : MarkStage(s) => stage' \in 0..3
  BY DEF MarkStage, TypeOK, Stages, Rank
<1> USE DEF vars, connVars, loopVars, readVars, guardVars, timerVars, Tasks
<1>1. CASE CompressionWritten
  <2>1. tasks' \in [Loops -> Seq(Tasks)] /\ outbound' \in Seq(Writes)
    BY <1>1, CompressionTasks
  <2> QED
    BY <1>1, <2>1 DEF CompressionWritten, RestoreFromClientLoop, readVars, TypeOK
<1>2. CASE SuccessWritten
  BY <1>2, SuccessTasks DEF SuccessWritten, RestoreFromClientLoop, TypeOK
<1>3. CASE ArmConfiguration
  <2>1. tasks' \in [Loops -> Seq(Tasks)]
    BY <1>3, DoneC2P DEF ArmConfiguration
  <2>2. timer' \in [Stages -> {"off", "set", "due", "condemned", "done"}]
    BY <1>3 DEF ArmConfiguration, TypeOK, Stages
  <2>3. stage' \in 0..3
    BY <1>3, <1>m DEF ArmConfiguration, TypeOK, Stages
  <2>4. clientbound' \in 0..MaxBursts
    BY <1>3 DEF ArmConfiguration, TypeOK
  <2>5. armed' \in BOOLEAN
    <3>1. armed' = TRUE \/ armed' = armed
      BY <1>3 DEF ArmConfiguration
    <3>2. armed \in BOOLEAN
      BY DEF TypeOK
    <3> QED
      BY <3>1, <3>2
  <2> QED
    BY <1>3, <2>1, <2>2, <2>3, <2>4, <2>5 DEF ArmConfiguration, TypeOK
<1>4. CASE BurstWritten
  <2>1. outbound' \in Seq(Writes) /\ Out("burst") >= 1
    BY <1>4, TakenTasks DEF BurstWritten
  <2>2. Writing("burst") >= 1 /\ Writing("burst") \in Nat
    BY <2>1, TasksType DEF Writing
  <2>3. delivered' \in 0..MaxBursts
    BY <1>4, <2>2 DEF BurstWritten, TypeOK, GuardInv, Delivered
  <2>4. clientbound' \in 0..MaxBursts
    BY <1>4, <2>3 DEF BurstWritten, TypeOK, GuardInv, Delivered,
       CountsOnlyConfiguration
  <2> QED
    BY <1>4, <2>1, <2>3, <2>4 DEF BurstWritten, TypeOK
<1>5. CASE CloseTask
  <2>1. tasks' \in [Loops -> Seq(Tasks)] /\ outbound' \in Seq(Writes)
    BY <1>5, DoneC2P DEF CloseTask
  <2>2. open' \in BOOLEAN
    BY <1>5 DEF CloseTask
  <2> QED
    BY <1>5, <2>1, <2>2 DEF CloseTask, TypeOK
<1>6. CASE WriteTask \/ WriteFails
  <2>1. CASE WriteTask
    BY <2>1, WriteTasks DEF WriteTask, TypeOK
  <2>2. CASE WriteFails
    BY <2>2, DoneC2P DEF WriteFails, TypeOK
  <2> QED
    BY <1>6, <2>1, <2>2
<1>7. ASSUME NEW l \in Loops, SetAutoRead(l) PROVE TypeOK'
  BY <1>7 DEF SetAutoRead, TypeOK
<1>8. CASE RestoreTask
  BY <1>8, <1>r, DoneP2S DEF RestoreTask, TypeOK
<1>9. CASE AckTask
  BY <1>9, <1>r, DoneP2S DEF AckTask, TypeOK
<1>10. ASSUME NEW s \in Stages, DeadlinePasses(s) PROVE TypeOK'
  BY <1>10 DEF DeadlinePasses, TypeOK
<1>11. ASSUME NEW s \in Stages, Fire(s) PROVE TypeOK'
  BY <1>11 DEF Fire, TypeOK
<1>12. ASSUME NEW s \in Stages, Condemn(s) PROVE TypeOK'
  BY <1>12, SubmitC2P DEF Condemn, TypeOK, C2PTasks, Writes
<1>13. CASE Handshake
  BY <1>13, <1>m DEF Handshake, TypeOK, Stages
<1>14. CASE Dial
  BY <1>14, <1>m DEF Dial, TypeOK, Stages
<1>15. CASE Compression
  BY <1>15, <1>h, SubmitC2P DEF Compression, TypeOK, C2PTasks, Writes
<1>16. CASE LoginSuccess
  BY <1>16, <1>h, SubmitC2P DEF LoginSuccess, TypeOK, C2PTasks, Writes
<1>17. CASE Acknowledged
  BY <1>17, SubmitP2S DEF Acknowledged, TypeOK, P2STasks
<1>18. CASE ReadBurst
  BY <1>18, SubmitC2P DEF ReadBurst, TypeOK, C2PTasks, Writes
<1>19. CASE Disconnect
  <2>1. open' = FALSE /\ outbound' = <<>>
    BY <1>19 DEF Disconnect
  <2>2. open' \in BOOLEAN
    BY <2>1
  <2>3. outbound' \in Seq(Writes)
    BY <2>1
  <2> QED
    BY <1>19, <2>2, <2>3 DEF Disconnect, TypeOK
<1>20. CASE LoopBlocks
  BY <1>20 DEF LoopBlocks, TypeOK
<1>21. CASE UNCHANGED vars
  BY <1>21 DEF TypeOK
<1> QED
  BY <1>1, <1>2, <1>3, <1>4, <1>5, <1>6, <1>7, <1>8, <1>9, <1>10, <1>11, <1>12,
     <1>13, <1>14, <1>15, <1>16, <1>17, <1>18, <1>19, <1>20, <1>21
     DEF Next, ClientLoop, ClientTakes, BackendLoop, Scheduler

-----------------------------------------------------------------------------
(***************************************************************************)
(* The holds of the backend channel.                                       *)
(***************************************************************************)
\* A restore that finds the loop free and a state saved ends the newest hold.
LEMMA Restored ==
  ASSUME TypeOK, ReadInv, Free("p2s"), saved # <<>>, Restore("p2s")
  PROVE  ReadInv' /\ Len(saved') = Len(saved) - 1
<1>1. setting["p2s"] = "no" /\ setting["c2p"] = "no" /\ ~thrown
  BY DEF Free, ReadInv, Confined, NotRefused
<1>2. /\ setting \in [Loops -> {"no", "hold", "on", "off"}]
      /\ saved \in Seq(BOOLEAN) /\ Len(saved) # 0
  BY DEF TypeOK
<1>3. (HeldOnce \/ HeldTwice) /\ ~autoRead
  BY <1>1, <1>2 DEF ReadInv, SavedShape, HeldNot
<1>4. /\ setting' = [setting EXCEPT !["p2s"] = IF Head(saved) THEN "on" ELSE "off"]
      /\ saved' = Tail(saved)
      /\ ~autoRead' /\ ~thrown'
  BY <1>1, <1>3 DEF Restore
<1>5. setting'["c2p"] = "no" /\ setting'["p2s"] = IF saved[1] THEN "on" ELSE "off"
  <2>1. Head(saved) = saved[1]
    BY <1>2
  <2>2. setting' = [setting EXCEPT !["p2s"] = IF saved[1] THEN "on" ELSE "off"]
    BY <1>4, <2>1, Zenon
  <2> QED
    BY <1>1, <1>2, <2>2 DEF Loops
<1>6. /\ Len(saved') = Len(saved) - 1
      /\ \A i \in 1..Len(saved') : saved'[i] = saved[i + 1]
  <2>1. /\ Len(Tail(saved)) = Len(saved) - 1
        /\ \A i \in 1..Len(Tail(saved)) : Tail(saved)[i] = saved[i + 1]
    BY <1>2
  <2>2. saved' = Tail(saved)
    BY <1>4
  <2> QED
    BY <2>1, <2>2
<1>7. CASE HeldOnce
  <2>1. setting'["p2s"] = "on" /\ HeldNot'
    BY <1>5, <1>6, <1>7 DEF HeldOnce, HeldNot
  <2> QED
    BY <1>4, <1>5, <1>6, <2>1 DEF ReadInv, Confined, SavedShape, NotRefused
<1>8. CASE HeldTwice
  <2>1. setting'["p2s"] = "off" /\ HeldOnce'
    BY <1>5, <1>6, <1>8 DEF HeldOnce, HeldTwice
  <2> QED
    BY <1>4, <1>5, <1>6, <2>1 DEF ReadInv, Confined, SavedShape, NotRefused
<1> QED
  BY <1>3, <1>7, <1>8

\* A disable that finds the loop free and at most one state saved is a new hold.
LEMMA Held ==
  ASSUME TypeOK, ReadInv, Free("p2s"), Len(saved) <= 1, DisableAutoRead
  PROVE  ReadInv' /\ Len(saved') = Len(saved) + 1
<1>1. setting["p2s"] = "no" /\ setting["c2p"] = "no" /\ ~thrown
  BY DEF Free, ReadInv, Confined, NotRefused
<1>2. /\ setting \in [Loops -> {"no", "hold", "on", "off"}]
      /\ autoRead \in BOOLEAN /\ saved \in Seq(BOOLEAN)
  BY DEF TypeOK
<1>3. (HeldNot /\ autoRead) \/ (HeldOnce /\ ~autoRead)
  BY <1>1 DEF ReadInv, SavedShape, HeldTwice
<1>4. /\ setting' = [setting EXCEPT !["p2s"] = "hold"]
      /\ saved' = <<autoRead>> \o saved
      /\ autoRead' = autoRead /\ ~thrown'
  BY <1>1 DEF DisableAutoRead
<1>5. setting'["c2p"] = "no" /\ setting'["p2s"] = "hold"
  BY <1>1, <1>2, <1>4 DEF Loops
<1>6. /\ Len(saved') = Len(saved) + 1
      /\ saved'[1] = autoRead
      /\ \A i \in 1..Len(saved) : saved'[i + 1] = saved[i]
  BY <1>2, <1>4
<1>7. CASE HeldNot /\ autoRead
  <2>1. HeldOnce'
    BY <1>6, <1>7 DEF HeldNot, HeldOnce
  <2>3. autoRead'
    BY <1>4, <1>7, Zenon
  <2>4. SavedShape'
    BY <1>5, <2>1, <2>3, Zenon DEF SavedShape
  <2>2. ~thrown'
    BY <1>4
  <2> QED
    BY <1>5, <1>6, <2>2, <2>4 DEF ReadInv, Confined, NotRefused
<1>8. CASE HeldOnce /\ ~autoRead
  <2>1. HeldTwice' /\ ~autoRead'
    BY <1>4, <1>6, <1>8 DEF HeldOnce, HeldTwice
  <2> QED
    BY <1>4, <1>5, <1>6, <2>1 DEF ReadInv, Confined, SavedShape, NotRefused
<1> QED
  BY <1>3, <1>7, <1>8

\* Who restores has something to restore, and who disables finds room.
LEMMA Owed ==
  ASSUME HopInv
  PROVE  /\ tasks["p2s"] # <<>> /\ Head(tasks["p2s"]) \in {"restore", "ack"}
               => saved # <<>>
         /\ login \in Early /\ compress # "sent" => Len(saved) = 0
         /\ login \in Early => Len(saved) <= 1
<1> USE DEF HopInv
<1>1. Len(saved) \in Nat
  BY DEF TypeOK
<1>2. \A t : Writing(t) \in Nat /\ P2S(t) \in Nat
  BY TasksType
<1>3. ASSUME tasks["p2s"] # <<>>, Head(tasks["p2s"]) \in {"restore", "ack"}
      PROVE  saved # <<>>
  <2>1. P2S("restore") >= 1 \/ P2S("ack") >= 1
    BY <1>3, HeadCounted
  <2>2. Len(saved) >= 1
    BY <1>1, <1>2, <2>1 DEF HoldsOwed, One
  <2> QED
    BY <2>2
<1>4. /\ login \in Early /\ compress # "sent" => Len(saved) = 0
      /\ login \in Early => Len(saved) <= 1
  BY <1>1 DEF HoldsOwed, One
<1> QED
  BY <1>3, <1>4

LEMMA ReadStep ==
  ASSUME HopInv, [Next]_vars
  PROVE  ReadInv'
<1> USE DEF HopInv
<1>1. CASE UNCHANGED readVars
  BY <1>1 DEF ReadInv, Confined, SavedShape, NotRefused, readVars, HeldNot,
     HeldOnce, HeldTwice
<1>2. CASE Compression \/ LoginSuccess
  <2>1. Len(saved) <= 1 /\ Free("p2s") /\ DisableAutoRead
    BY <1>2, Owed DEF Compression, LoginSuccess, Early
  <2> QED
    BY <2>1, Held
<1>3. CASE RestoreTask \/ AckTask
  <2>1. saved # <<>> /\ Free("p2s") /\ Restore("p2s")
    BY <1>3, Owed DEF RestoreTask, AckTask
  <2> QED
    BY <2>1, Restored
<1>4. ASSUME NEW l \in Loops, SetAutoRead(l) PROVE ReadInv'
  <2>1. l = "p2s" /\ setting["c2p"] = "no" /\ ~thrown
    BY <1>4 DEF SetAutoRead, ReadInv, Confined, NotRefused, Loops
  <2>2. setting \in [Loops -> {"no", "hold", "on", "off"}]
    BY DEF TypeOK
  <2>3. /\ setting["p2s"] \in {"hold", "on", "off"}
        /\ setting' = [setting EXCEPT !["p2s"] = "no"]
        /\ autoRead' = (setting["p2s"] = "on") /\ saved' = saved /\ thrown' = thrown
    BY <1>4, <2>1, <2>2 DEF SetAutoRead, Loops
  <2>4. setting'["p2s"] = "no" /\ setting'["c2p"] = "no"
    BY <2>1, <2>2, <2>3 DEF Loops
  <2>5. /\ HeldNot' <=> HeldNot
        /\ HeldOnce' <=> HeldOnce
        /\ HeldTwice' <=> HeldTwice
    BY <2>3 DEF HeldNot, HeldOnce, HeldTwice
  <2>6. ~thrown'
    BY <2>1, <2>3
  <2>7. (HeldNot' /\ autoRead') \/ ((HeldOnce' \/ HeldTwice') /\ ~autoRead')
    <3>1. CASE setting["p2s"] = "hold"
      <4>1. (HeldOnce \/ HeldTwice) /\ ~autoRead'
        BY <2>3, <3>1 DEF ReadInv, SavedShape
      <4> QED
        BY <4>1, <2>5
    <3>2. CASE setting["p2s"] = "on"
      <4>1. HeldNot
        BY <3>2 DEF ReadInv, SavedShape
      <4>2. autoRead'
        BY <2>3, <3>2, Zenon
      <4> QED
        BY <4>1, <4>2, <2>5, Zenon
    <3>3. CASE setting["p2s"] = "off"
      <4>1. HeldOnce /\ ~autoRead'
        BY <2>3, <3>3 DEF ReadInv, SavedShape
      <4> QED
        BY <4>1, <2>5
    <3> QED
      BY <2>3, <3>1, <3>2, <3>3
  <2> QED
    BY <2>4, <2>6, <2>7 DEF ReadInv, Confined, SavedShape, NotRefused
<1> QED
  BY <1>1, <1>2, <1>3, <1>4
     DEF Next, ClientLoop, ClientTakes, BackendLoop, Scheduler, vars,
         CompressionWritten, RestoreFromClientLoop, SuccessWritten,
         ArmConfiguration, BurstWritten, CloseTask, WriteTask, WriteFails,
         DeadlinePasses, Fire, Condemn, Handshake, Dial, Acknowledged, ReadBurst,
         Disconnect, LoopBlocks

\* Steps of which no login listener hears: a task ends, a write moves on or is
\* dropped, a packet is written that no hold waits for.
LEMMA Idle ==
  ASSUME HopInv, [Next]_vars,
         \/ WriteTask \/ ArmConfiguration \/ BurstWritten \/ CloseTask \/ WriteFails
         \/ \E s \in Stages : DeadlinePasses(s) \/ Fire(s) \/ Condemn(s)
         \/ \E l \in Loops : SetAutoRead(l)
         \/ Handshake \/ Dial \/ ReadBurst \/ Disconnect \/ LoopBlocks
         \/ UNCHANGED vars
  PROVE  /\ \A t \in {"compression", "success"} : Writing(t)' <= Writing(t)
         /\ C2P("arm")' <= C2P("arm")
         /\ \A t : P2S(t)' = P2S(t)
         /\ \A t : Writing(t)' \in Nat /\ C2P(t)' \in Nat
         /\ saved' = saved /\ compress' = compress
         /\ login' = login \/ (login \in Early /\ login' \in Early)
<1> USE DEF HopInv
<1>1. /\ saved' = saved /\ compress' = compress
      /\ login' = login \/ (login \in Early /\ login' \in Early)
  BY DEF WriteTask, ArmConfiguration, BurstWritten, CloseTask, WriteFails,
     DeadlinePasses, Fire, Condemn, SetAutoRead, Handshake, Dial, ReadBurst,
     Disconnect, LoopBlocks, vars, connVars, readVars, Early
<1>2. \A t : C2P(t)' \in Nat /\ Out(t)' \in Nat /\ Writing(t)' \in Nat
  <2>1. tasks'["c2p"] \in Seq(Tasks) /\ outbound' \in Seq(Tasks)
    <3>1. /\ tasks' \in [Loops -> Seq(Tasks)] /\ outbound' \in Seq(Writes)
          /\ Writes \subseteq Tasks
      BY TypeStep DEF TypeOK, Tasks, C2PTasks
    <3> QED
      BY <3>1 DEF Loops
  <2>2. \A t : C2P(t)' \in Nat /\ Out(t)' \in Nat
    BY <2>1, CountNat DEF C2P, Out
  <2> QED
    BY <2>2 DEF Writing
<1>3. \A t : C2P(t) \in Nat /\ Out(t) \in Nat /\ Writing(t) \in Nat
  BY TasksType
<1>4. ASSUME NEW t, C2P(t)' <= C2P(t), Out(t)' <= Out(t)
      PROVE  Writing(t)' <= Writing(t)
  BY <1>2, <1>3, <1>4 DEF Writing
<1>5. CASE WriteTask
  <2>1. \A t : Writing(t)' = Writing(t) /\ P2S(t)' = P2S(t)
    BY <1>5, WriteTasks
  <2>2. C2P("arm")' = C2P("arm") - One(Head(tasks["c2p"]) = "arm")
    BY <1>5, WriteTasks
  <2>3. C2P("arm")' <= C2P("arm")
    BY <1>3, <2>2 DEF One
  <2> QED
    BY <1>1, <1>2, <1>3, <2>1, <2>3
<1>6. CASE outbound' \in {outbound, <<>>} \/ BurstWritten
  <2>1. ASSUME NEW t PROVE Out(t)' <= Out(t)
    <3>1. CASE outbound' = outbound
      BY <1>3, <3>1 DEF Out
    <3>2. CASE outbound' = <<>>
      BY <1>3, <3>2, CountEmpty DEF Out
    <3>3. CASE BurstWritten
      BY <1>3, <3>3, TakenTasks DEF BurstWritten, One
    <3> QED
      BY <1>6, <3>1, <3>2, <3>3
  <2>2. CASE UNCHANGED tasks
    <3>1. \A t : C2P(t)' = C2P(t) /\ P2S(t)' = P2S(t)
      BY <2>2 DEF C2P, P2S
    <3> QED
      BY <1>1, <1>2, <1>3, <1>4, <2>1, <3>1
  <2>3. CASE tasks["c2p"] # <<>> /\ Done("c2p")
    <3>1. \A t : /\ C2P(t)' = C2P(t) - One(Head(tasks["c2p"]) = t)
                 /\ P2S(t)' = P2S(t)
      BY <2>3, DoneC2P
    <3>2. ASSUME NEW t PROVE C2P(t)' <= C2P(t)
      <4>1. C2P(t)' = C2P(t) - One(Head(tasks["c2p"]) = t) /\ C2P(t) \in Nat
        BY <3>1, <1>3
      <4> QED
        BY <4>1 DEF One
    <3> QED
      BY <1>1, <1>2, <1>4, <2>1, <3>1, <3>2
  <2>4. CASE Submit("c2p", "close") \/ Submit("c2p", "burst")
    <3>1. /\ \A t \in {"compression", "success", "arm"} : C2P(t)' = C2P(t)
          /\ \A t : P2S(t)' = P2S(t)
      BY <1>3, <2>4, SubmitC2P DEF One, Tasks, C2PTasks, Writes
    <3> QED
      BY <1>1, <1>2, <1>3, <1>4, <2>1, <3>1
  <2> HIDE DEF HopInv
  <2> QED
    BY <2>2, <2>3, <2>4
       DEF ArmConfiguration, BurstWritten, CloseTask, WriteFails, WriteTask,
           DeadlinePasses, Fire, Condemn, SetAutoRead, Handshake, Dial, ReadBurst,
           Disconnect, LoopBlocks, vars, loopVars
<1> HIDE DEF HopInv
<1>7. WriteTask \/ BurstWritten \/ outbound' = outbound \/ outbound' = <<>>
  BY DEF ArmConfiguration, CloseTask, WriteFails, DeadlinePasses, Fire, Condemn,
     SetAutoRead, Handshake, Dial, ReadBurst, Disconnect, LoopBlocks, vars, loopVars
<1> QED
  BY <1>5, <1>6, <1>7

\* Where the buffer stays, writes come under way by being queued.
LEMMA SubmitWriting ==
  ASSUME TypeOK, NEW e \in Tasks, Submit("c2p", e), UNCHANGED outbound
  PROVE  \A t : Writing(t)' = Writing(t) + One(e = t)
<1> TAKE t
<1>1. C2P(t)' = C2P(t) + One(e = t) /\ Out(t)' = Out(t)
  BY SubmitC2P DEF Out
<1>2. C2P(t) \in Nat /\ Out(t) \in Nat /\ One(e = t) \in Nat
  BY TasksType DEF One
<1> QED
  BY <1>1, <1>2 DEF Writing

LEMMA SameWriting ==
  ASSUME UNCHANGED outbound, \A t : C2P(t)' = C2P(t)
  PROVE  \A t : Writing(t)' = Writing(t)
  BY DEF Writing, Out

LEMMA HoldsStep ==
  ASSUME HopInv, [Next]_vars
  PROVE  HoldsOwed'
<1> USE DEF HopInv
<1>1. /\ Writing("compression") \in Nat /\ Writing("success") \in Nat
      /\ P2S("restore") \in Nat /\ P2S("ack") \in Nat
      /\ Len(saved) \in Nat
  BY TasksType DEF TypeOK
<1>2. CASE CompressionWritten
  <2>1. /\ Writing("compression")' = Writing("compression") - 1
        /\ Writing("success")' = Writing("success")
        /\ P2S("restore")' = P2S("restore") + 1 /\ P2S("ack")' = P2S("ack")
    BY <1>1, <1>2, CompressionTasks DEF One
  <2>2. saved' = saved /\ login' = login /\ compress' = compress
    BY <1>2 DEF CompressionWritten, RestoreFromClientLoop, connVars, readVars
  <2> QED
    BY <1>1, <2>1, <2>2 DEF HoldsOwed, One
<1>3. CASE SuccessWritten
  <2>1. /\ Writing("compression")' = Writing("compression")
        /\ Writing("success")' = Writing("success") - 1
        /\ P2S("restore")' = P2S("restore") + (IF modern THEN 0 ELSE 1)
        /\ P2S("ack")' = P2S("ack")
    <3>1. \A t : /\ Writing(t)' = Writing(t) - One(t = "success") + One(t = "arm")
                 /\ P2S(t)' = P2S(t) + One(~modern /\ t = "restore")
      BY <1>3, SuccessTasks
    <3>2. CASE modern
      BY <1>1, <3>1, <3>2 DEF One
    <3>3. CASE ~modern
      BY <1>1, <3>1, <3>3 DEF One
    <3> QED
      BY <3>2, <3>3
  <2>2. /\ saved' = saved /\ compress' = compress
        /\ login' = IF modern THEN "sent" ELSE "play"
    BY <1>3 DEF SuccessWritten, RestoreFromClientLoop, readVars
  <2>3. login' \notin Early /\ (login' = "sent" => modern)
    BY <2>2 DEF Early
  <2> QED
    BY <1>1, <2>1, <2>2, <2>3 DEF HoldsOwed, One
<1>4. CASE RestoreTask
  <2>1. Len(saved') = Len(saved) - 1
    BY <1>4, Owed, Restored DEF RestoreTask
  <2>2. /\ Writing("compression")' = Writing("compression")
        /\ Writing("success")' = Writing("success")
        /\ P2S("restore")' = P2S("restore") - 1 /\ P2S("ack")' = P2S("ack")
    <3>1. /\ Done("p2s") /\ tasks["p2s"] # <<>> /\ UNCHANGED outbound
          /\ Head(tasks["p2s"]) = "restore"
      BY <1>4 DEF RestoreTask
    <3>2. \A t : P2S(t)' = P2S(t) - One("restore" = t) /\ C2P(t)' = C2P(t)
      BY <3>1, DoneP2S
    <3>3. \A t : Writing(t)' = Writing(t)
      BY <3>1, <3>2, SameWriting
    <3> QED
      BY <1>1, <3>2, <3>3 DEF One
  <2>3. login' = login /\ compress' = compress
    BY <1>4 DEF RestoreTask, connVars
  <2> QED
    BY <1>1, <2>1, <2>2, <2>3 DEF HoldsOwed, One
<1>5. CASE AckTask
  <2>1. Len(saved') = Len(saved) - 1
    BY <1>5, Owed, Restored DEF AckTask
  <2>2. /\ Writing("compression")' = Writing("compression")
        /\ Writing("success")' = Writing("success")
        /\ P2S("restore")' = P2S("restore") /\ P2S("ack")' = P2S("ack") - 1
    <3>1. /\ Done("p2s") /\ tasks["p2s"] # <<>> /\ UNCHANGED outbound
          /\ Head(tasks["p2s"]) = "ack"
      BY <1>5 DEF AckTask
    <3>2. \A t : P2S(t)' = P2S(t) - One("ack" = t) /\ C2P(t)' = C2P(t)
      BY <3>1, DoneP2S
    <3>3. \A t : Writing(t)' = Writing(t)
      BY <3>1, <3>2, SameWriting
    <3> QED
      BY <1>1, <3>2, <3>3 DEF One
  <2>3. login' = "configuration" /\ compress' = compress
    BY <1>5 DEF AckTask
  <2>4. One(login' \notin Early) = 1 /\ One(login' = "sent") = 0
    BY <2>3 DEF Early, One
  <2>5. Len(saved') <= One(compress' = "sent") + One(login' \notin Early)
    BY <1>1, <2>1, <2>3, <2>4 DEF HoldsOwed, One
  <2>6. P2S("restore")' + P2S("ack")' + Writing("compression")' + Writing("success")'
          + One(login' = "sent") <= Len(saved')
    BY <1>1, <2>1, <2>2, <2>4 DEF HoldsOwed, One
  <2> QED
    BY <2>5, <2>6 DEF HoldsOwed
<1>6. CASE Compression
  <2>1. Len(saved') = Len(saved) + 1
    BY <1>6, Owed, Held DEF Compression, Early
  <2>2. /\ Writing("compression")' = Writing("compression") + 1
        /\ Writing("success")' = Writing("success")
        /\ P2S("restore")' = P2S("restore") /\ P2S("ack")' = P2S("ack")
    <3>1. /\ Submit("c2p", "compression") /\ UNCHANGED outbound
          /\ "compression" \in Tasks
      BY <1>6 DEF Compression, Tasks, C2PTasks, Writes
    <3>2. \A t : Writing(t)' = Writing(t) + One("compression" = t) /\ P2S(t)' = P2S(t)
      BY <3>1, SubmitC2P, SubmitWriting
    <3> QED
      BY <1>1, <3>2 DEF One
  <2>3. login' = login /\ compress = "due" /\ compress' = "sent"
    BY <1>6 DEF Compression
  <2> QED
    BY <1>1, <2>1, <2>2, <2>3 DEF HoldsOwed, One
<1>7. CASE LoginSuccess
  <2>1. Len(saved') = Len(saved) + 1
    BY <1>7, Owed, Held DEF LoginSuccess, Early
  <2>2. /\ Writing("compression")' = Writing("compression")
        /\ Writing("success")' = Writing("success") + 1
        /\ P2S("restore")' = P2S("restore") /\ P2S("ack")' = P2S("ack")
    <3>1. /\ Submit("c2p", "success") /\ UNCHANGED outbound
          /\ "success" \in Tasks
      BY <1>7 DEF LoginSuccess, Tasks, C2PTasks, Writes
    <3>2. \A t : Writing(t)' = Writing(t) + One("success" = t) /\ P2S(t)' = P2S(t)
      BY <3>1, SubmitC2P, SubmitWriting
    <3> QED
      BY <1>1, <3>2 DEF One
  <2>3. login = "dialled" /\ login' = "success" /\ compress' = compress
    BY <1>7 DEF LoginSuccess
  <2> QED
    BY <1>1, <2>1, <2>2, <2>3 DEF HoldsOwed, One, Early
<1>8. CASE Acknowledged
  <2>1. /\ Writing("compression")' = Writing("compression")
        /\ Writing("success")' = Writing("success")
        /\ P2S("restore")' = P2S("restore") /\ P2S("ack")' = P2S("ack") + 1
    <3>1. Submit("p2s", "ack") /\ UNCHANGED outbound /\ "ack" \in Tasks
      BY <1>8 DEF Acknowledged, Tasks, P2STasks
    <3>2. \A t : P2S(t)' = P2S(t) + One("ack" = t) /\ C2P(t)' = C2P(t)
      BY <3>1, SubmitP2S
    <3>3. \A t : Writing(t)' = Writing(t)
      BY <3>1, <3>2, SameWriting
    <3> QED
      BY <1>1, <3>2, <3>3 DEF One
  <2>2. login = "sent" /\ login' = "acked" /\ compress' = compress /\ saved' = saved
    BY <1>8 DEF Acknowledged, readVars
  <2> QED
    BY <1>1, <2>1, <2>2 DEF HoldsOwed, One, Early
<1>9. CASE /\ \A t \in {"compression", "success"} : Writing(t)' <= Writing(t)
           /\ \A t : P2S(t)' = P2S(t)
           /\ \A t : Writing(t)' \in Nat
           /\ saved' = saved /\ compress' = compress
           /\ login' = login \/ (login \in Early /\ login' \in Early)
  <2>1. /\ Writing("compression")' <= Writing("compression")
        /\ Writing("success")' <= Writing("success")
        /\ Writing("compression")' \in Nat /\ Writing("success")' \in Nat
        /\ P2S("restore")' = P2S("restore") /\ P2S("ack")' = P2S("ack")
    BY <1>9
  <2>2. login' \in Early <=> login \in Early
    BY <1>9
  <2>3. login' = "sent" <=> login = "sent"
    BY <1>9 DEF Early
  <2> QED
    BY <1>1, <1>9, <2>1, <2>2, <2>3 DEF HoldsOwed, One
<1> HIDE DEF HopInv
<1> QED
  BY <1>2, <1>3, <1>4, <1>5, <1>6, <1>7, <1>8, <1>9, Idle
     DEF Next, ClientLoop, ClientTakes, BackendLoop, Scheduler

-----------------------------------------------------------------------------
(***************************************************************************)
(* The arming of the CONFIGURATION stage.                                  *)
(***************************************************************************)
ArmAhead(q) ==
    \A i \in 1..Len(q) : q[i] = "burst" => \E j \in 1..(i - 1) : q[j] = "arm"

LEMMA AheadAppend ==
  ASSUME NEW q \in Seq(Tasks), NEW e \in Tasks, ArmAhead(q),
         e # "burst" \/ Count(q, "arm") > 0
  PROVE  ArmAhead(Append(q, e))
<1>1. /\ Len(q) \in Nat /\ Len(Append(q, e)) = Len(q) + 1
      /\ \A i \in 1..Len(q) : Append(q, e)[i] = q[i]
      /\ Append(q, e)[Len(q) + 1] = e
  OBVIOUS
<1>2. e = "burst" => \E j \in 1..Len(q) : q[j] = "arm"
  <2>1. Count(q, "arm") # 0 => \E j \in 1..Len(q) : q[j] = "arm"
    BY CountZero
  <2> QED
    BY <2>1
<1> SUFFICES ASSUME NEW i \in 1..(Len(q) + 1), Append(q, e)[i] = "burst"
             PROVE  \E j \in 1..(i - 1) : Append(q, e)[j] = "arm"
  BY <1>1 DEF ArmAhead
<1>3. CASE i = Len(q) + 1
  BY <1>1, <1>2, <1>3
<1>4. CASE i \in 1..Len(q)
  <2>1. PICK j \in 1..(i - 1) : q[j] = "arm"
    BY <1>1, <1>4 DEF ArmAhead
  <2> QED
    BY <1>1, <1>4, <2>1
<1> QED
  BY <1>1, <1>3, <1>4

LEMMA AheadTail ==
  ASSUME NEW q \in Seq(Tasks), q # <<>>, ArmAhead(q)
  PROVE  Head(q) # "burst" /\ (Head(q) # "arm" => ArmAhead(Tail(q)))
<1>1. /\ Len(q) \in Nat \ {0} /\ Len(Tail(q)) = Len(q) - 1 /\ Head(q) = q[1]
      /\ \A i \in 1..Len(Tail(q)) : Tail(q)[i] = q[i + 1]
  OBVIOUS
<1>2. Head(q) # "burst"
  BY <1>1 DEF ArmAhead
<1>3. ASSUME Head(q) # "arm", NEW i \in 1..Len(Tail(q)), Tail(q)[i] = "burst"
      PROVE  \E j \in 1..(i - 1) : Tail(q)[j] = "arm"
  <2>1. PICK j \in 1..i : q[j] = "arm"
    BY <1>1, <1>3 DEF ArmAhead
  <2>2. j - 1 \in 1..(i - 1) /\ Tail(q)[j - 1] = q[j]
    BY <1>1, <1>3, <2>1
  <2> QED
    BY <2>1, <2>2
<1> QED
  BY <1>2, <1>3 DEF ArmAhead

LEMMA ArmOnceStep ==
  ASSUME HopInv, [Next]_vars
  PROVE  ArmOnce'
<1> USE DEF HopInv, ArmInv
<1>1. /\ Writing("success") \in Nat /\ C2P("arm") \in Nat
      /\ Writing("success") + C2P("arm") + One(armed) <= One(login \notin Early)
  BY TasksType DEF ArmOnce
<1>2. CASE CompressionWritten
  <2>1. Writing("success")' = Writing("success") /\ C2P("arm")' = C2P("arm")
    BY <1>1, <1>2, CompressionTasks DEF One
  <2>2. login' = login /\ armed' = armed
    BY <1>2 DEF CompressionWritten, connVars, guardVars
  <2> QED
    BY <1>1, <2>1, <2>2 DEF ArmOnce
<1>3. CASE SuccessWritten
  <2>1. /\ Writing("success")' = Writing("success") - 1 /\ C2P("arm")' = C2P("arm") + 1
    BY <1>1, <1>3, SuccessTasks DEF One
  <2>2. login' \notin Early /\ armed' = armed
    BY <1>3 DEF SuccessWritten, guardVars, Early
  <2> QED
    BY <1>1, <2>1, <2>2 DEF ArmOnce, One
<1>4. CASE RestoreTask \/ AckTask \/ Acknowledged
  <2>1. Writing("success")' = Writing("success") /\ C2P("arm")' = C2P("arm")
    <3>1. UNCHANGED outbound /\ \A t : C2P(t)' = C2P(t)
      BY <1>4, DoneP2S, SubmitP2S
         DEF RestoreTask, AckTask, Acknowledged, Tasks, P2STasks
    <3> QED
      BY <3>1, SameWriting
  <2>2. armed' = armed /\ (login' = login \/ login' \notin Early)
    BY <1>4 DEF RestoreTask, AckTask, Acknowledged, connVars, guardVars, Early
  <2> QED
    BY <1>1, <2>1, <2>2 DEF ArmOnce, One
<1>5. CASE Compression
  <2>1. Writing("success")' = Writing("success") /\ C2P("arm")' = C2P("arm")
    <3>1. Submit("c2p", "compression") /\ UNCHANGED outbound /\ "compression" \in Tasks
      BY <1>5 DEF Compression, Tasks, C2PTasks, Writes
    <3> QED
      BY <1>1, <3>1, SubmitC2P, SubmitWriting DEF One
  <2>2. login' = login /\ armed' = armed
    BY <1>5 DEF Compression, connVars, guardVars
  <2> QED
    BY <1>1, <2>1, <2>2 DEF ArmOnce
<1>6. CASE LoginSuccess
  <2>1. Writing("success")' = Writing("success") + 1 /\ C2P("arm")' = C2P("arm")
    <3>1. Submit("c2p", "success") /\ UNCHANGED outbound /\ "success" \in Tasks
      BY <1>6 DEF LoginSuccess, Tasks, C2PTasks, Writes
    <3> QED
      BY <1>1, <3>1, SubmitC2P, SubmitWriting DEF One
  <2>2. login \in Early /\ login' \notin Early /\ armed' = armed
    BY <1>6 DEF LoginSuccess, guardVars, Early
  <2> QED
    BY <1>1, <2>1, <2>2 DEF ArmOnce, One
<1>7. CASE ArmConfiguration
  <2>1. Writing("success")' = Writing("success") /\ C2P("arm")' = C2P("arm") - 1
    <3>1. /\ tasks["c2p"] # <<>> /\ Done("c2p") /\ Head(tasks["c2p"]) = "arm"
          /\ UNCHANGED outbound
      BY <1>7 DEF ArmConfiguration
    <3>2. C2P("success")' = C2P("success") /\ C2P("arm")' = C2P("arm") - 1
      <4>1. \A t : C2P(t)' = C2P(t) - One("arm" = t)
        BY <3>1, DoneC2P
      <4> QED
        BY <1>1, <4>1, TasksType DEF One
    <3> QED
      BY <3>1, <3>2 DEF Writing, Out
  <2>2. login' = login
    BY <1>7 DEF ArmConfiguration, connVars
  <2> QED
    BY <1>1, <2>1, <2>2 DEF ArmOnce, One
<1>8. CASE /\ \A t \in {"compression", "success"} : Writing(t)' <= Writing(t)
           /\ C2P("arm")' <= C2P("arm")
           /\ \A t : Writing(t)' \in Nat /\ C2P(t)' \in Nat
           /\ login' = login \/ (login \in Early /\ login' \in Early)
           /\ armed' = armed
  <2>1. /\ Writing("success")' <= Writing("success") /\ C2P("arm")' <= C2P("arm")
        /\ Writing("success")' \in Nat /\ C2P("arm")' \in Nat
    BY <1>8
  <2> QED
    BY <1>1, <1>8, <2>1 DEF ArmOnce, One
<1> HIDE DEF HopInv, ArmInv
<1>9. CASE \/ WriteTask \/ BurstWritten \/ CloseTask \/ WriteFails
           \/ \E s \in Stages : DeadlinePasses(s) \/ Fire(s) \/ Condemn(s)
           \/ \E l \in Loops : SetAutoRead(l)
           \/ Handshake \/ Dial \/ ReadBurst \/ Disconnect \/ LoopBlocks
           \/ UNCHANGED vars
  <2>1. armed' = armed
    BY <1>9 DEF BurstWritten, CloseTask, WriteTask, WriteFails, DeadlinePasses,
       Fire, Condemn, SetAutoRead, Handshake, Dial, ReadBurst, Disconnect,
       LoopBlocks, vars, guardVars
  <2> QED
    BY <1>8, <1>9, <2>1, Idle
<1> QED
  BY <1>2, <1>3, <1>4, <1>5, <1>6, <1>7, <1>9
     DEF Next, ClientLoop, ClientTakes, BackendLoop, Scheduler

\* The client stays what it is, closed stays closed and armed stays armed.
LEMMA OneWay ==
  ASSUME [Next]_vars
  PROVE  modern' = modern /\ (open' => open) /\ (armed => armed')
<1> USE DEF Next, ClientLoop, ClientTakes, BackendLoop, Scheduler, vars, connVars,
     guardVars, CompressionWritten, SuccessWritten, ArmConfiguration, BurstWritten,
     CloseTask, WriteTask, WriteFails, SetAutoRead, RestoreTask, AckTask,
     DeadlinePasses, Fire, Condemn, Handshake, Dial, Compression, LoginSuccess,
     Acknowledged, ReadBurst, Disconnect, LoopBlocks
<1>1. modern' = modern
  OBVIOUS
<1>2. open' = FALSE \/ open' = open
  OBVIOUS
<1>3. armed' = TRUE \/ armed' = armed
  OBVIOUS
<1> QED
  BY <1>1, <1>2, <1>3

LEMMA ArmComesStep ==
  ASSUME HopInv, [Next]_vars
  PROVE  ArmComes'
<1> USE DEF HopInv, ArmInv, C2P, P2S
<1>1. C2P("arm") \in Nat /\ P2S("ack") \in Nat
  BY TasksType
<1>2. modern' = modern
  BY OneWay
<1>3. CASE SuccessWritten
  <2>1. C2P("arm")' = C2P("arm") + 1 /\ P2S("ack")' = P2S("ack")
    BY <1>1, <1>3, SuccessTasks DEF One
  <2>2. modern => login' \in Sent
    BY <1>3 DEF SuccessWritten, Sent
  <2> QED
    BY <1>1, <1>2, <2>1, <2>2 DEF ArmComes
<1>4. CASE ArmConfiguration
  <2>1. P2S("ack")' = P2S("ack")
    BY <1>1, <1>4, DoneC2P DEF ArmConfiguration
  <2>2. /\ login' = login /\ open' = open
        /\ modern => armed' \/ ~open
    BY <1>4 DEF ArmConfiguration, connVars
  <2> QED
    BY <1>1, <1>2, <2>1, <2>2 DEF ArmComes
<1>5. CASE Acknowledged
  <2>1. C2P("arm")' = C2P("arm")
    BY <1>1, <1>5, SubmitP2S DEF Acknowledged, Tasks, P2STasks
  <2>2. /\ login \in Sent /\ login' \in Sent
        /\ open' = open /\ armed' = armed
    BY <1>5 DEF Acknowledged, Sent, guardVars
  <2> QED
    BY <1>1, <1>2, <2>1, <2>2 DEF ArmComes
<1>6. CASE AckTask
  <2>1. C2P("arm")' = C2P("arm")
    BY <1>1, <1>6, DoneP2S DEF AckTask
  <2>2. P2S("ack") > 0
    BY <1>1, <1>6, HeadCounted DEF AckTask
  <2>3. login' \in Sent /\ open' = open /\ armed' = armed
    BY <1>6 DEF AckTask, Sent, guardVars
  <2> QED
    BY <1>1, <1>2, <2>1, <2>2, <2>3 DEF ArmComes
<1>7. CASE /\ C2P("arm")' = C2P("arm") /\ P2S("ack")' = P2S("ack")
           /\ login' \in Sent <=> login \in Sent
           /\ armed' = armed /\ (open' => open)
  BY <1>1, <1>2, <1>7 DEF ArmComes
<1>8. CASE CompressionWritten
  <2>1. C2P("arm")' = C2P("arm") /\ P2S("ack")' = P2S("ack")
    BY <1>1, <1>8, CompressionTasks DEF One
  <2>2. login' = login /\ armed' = armed /\ open' = open
    BY <1>8 DEF CompressionWritten, connVars, guardVars
  <2> QED
    BY <1>7, <2>1, <2>2
<1>9. CASE RestoreTask
  <2>1. C2P("arm")' = C2P("arm") /\ P2S("ack")' = P2S("ack")
    BY <1>1, <1>9, DoneP2S DEF RestoreTask, One
  <2>2. login' = login /\ armed' = armed /\ open' = open
    BY <1>9 DEF RestoreTask, connVars, guardVars
  <2> QED
    BY <1>7, <2>1, <2>2
<1>10. CASE CloseTask \/ WriteTask \/ WriteFails
  <2>1. C2P("arm")' = C2P("arm") /\ P2S("ack")' = P2S("ack")
    <3>1. tasks["c2p"] # <<>> /\ Done("c2p") /\ Head(tasks["c2p"]) # "arm"
      BY <1>10 DEF CloseTask, WriteTask, WriteFails, Writes
    <3>2. \A t : /\ C2P(t)' = C2P(t) - One(Head(tasks["c2p"]) = t)
                 /\ P2S(t)' = P2S(t)
      BY <3>1, DoneC2P
    <3> QED
      BY <1>1, <3>1, <3>2 DEF One
  <2>2. login' = login /\ armed' = armed /\ (open' => open)
    BY <1>10 DEF CloseTask, WriteTask, WriteFails, connVars, guardVars
  <2> QED
    BY <1>7, <2>1, <2>2
<1>11. CASE \/ \E s \in Stages : Condemn(s)
            \/ Compression \/ LoginSuccess \/ ReadBurst
  <2>1. PICK e \in {"close", "compression", "success", "burst"} : Submit("c2p", e)
    BY <1>11 DEF Condemn, Compression, LoginSuccess, ReadBurst
  <2>2. C2P("arm")' = C2P("arm") /\ P2S("ack")' = P2S("ack")
    BY <1>1, <2>1, SubmitC2P DEF One, Tasks, C2PTasks, Writes
  <2>3. /\ login' \in Sent <=> login \in Sent
        /\ armed' = armed /\ open' = open
    BY <1>11 DEF Condemn, Compression, LoginSuccess, ReadBurst, connVars, guardVars,
       Sent
  <2> QED
    BY <1>7, <2>2, <2>3
<1>12. CASE \/ \E s \in Stages : DeadlinePasses(s) \/ Fire(s)
            \/ \E l \in Loops : SetAutoRead(l)
            \/ Handshake \/ Dial \/ Disconnect \/ LoopBlocks \/ UNCHANGED vars
            \/ BurstWritten
  <2>1. tasks' = tasks
    BY <1>12 DEF BurstWritten, DeadlinePasses, Fire, SetAutoRead, Handshake, Dial,
       Disconnect, LoopBlocks, vars, loopVars
  <2>2. /\ login' \in Sent <=> login \in Sent
        /\ armed' = armed /\ (open' => open)
    BY <1>12 DEF BurstWritten, DeadlinePasses, Fire, SetAutoRead, Handshake, Dial,
       Disconnect, LoopBlocks, vars, connVars, guardVars, Sent
  <2> QED
    BY <1>7, <2>1, <2>2
<1> QED
  BY <1>3, <1>4, <1>5, <1>6, <1>8, <1>9, <1>10, <1>11, <1>12
     DEF Next, ClientLoop, ClientTakes, BackendLoop, Scheduler

LEMMA BurstsFollowStep ==
  ASSUME HopInv, [Next]_vars
  PROVE  BurstsFollowArm'
<1> USE DEF HopInv, ArmInv
<1> DEFINE q == tasks["c2p"]
<1> SUFFICES ASSUME modern', open', ~armed'
             PROVE  Out("burst")' = 0 /\ ArmAhead(tasks'["c2p"])
  BY DEF BurstsFollowArm, ArmAhead
<1>1. q \in Seq(Tasks)
  BY TasksType
<1>2. modern /\ open /\ ~armed
  BY OneWay
<1>3. ArmAhead(q) /\ Out("burst") = 0
  BY <1>2 DEF BurstsFollowArm, ArmAhead
<1>4. ASSUME q # <<>>, Head(q) # "arm"
      PROVE  /\ Head(q) # "burst"
             /\ ArmAhead(Tail(q)) /\ Tail(q) \in Seq(Tasks)
  BY <1>1, <1>3, <1>4, AheadTail
<1>o. UNCHANGED outbound => Out("burst")' = 0
  BY <1>3 DEF Out
<1>5. CASE SuccessWritten
  <2>1. tasks'["c2p"] = Append(q, "arm") /\ Out("burst")' = 0
    BY <1>3, <1>5, SuccessTasks DEF One
  <2> QED
    BY <1>1, <1>3, <2>1, AheadAppend DEF Tasks, C2PTasks
<1>6. CASE CompressionWritten
  BY <1>3, <1>6, CompressionTasks DEF One
<1>7. CASE ArmConfiguration
  BY <1>2, <1>7 DEF ArmConfiguration
<1>8. CASE WriteTask
  <2>1. q # <<>> /\ Head(q) # "arm"
    BY <1>8 DEF WriteTask, Writes
  <2>2. /\ tasks'["c2p"] = Tail(q)
        /\ Out("burst")' = Out("burst") + One(Head(q) = "burst")
    BY <1>8, WriteTasks
  <2> QED
    BY <1>3, <1>4, <2>1, <2>2 DEF One
<1>9. CASE ReadBurst
  <2>1. C2P("arm") > 0 /\ UNCHANGED outbound
    BY <1>2, <1>9 DEF ReadBurst, ArmComes, Sent
  <2>2. tasks'["c2p"] = Append(q, "burst")
    BY <1>9, SubmitC2P DEF ReadBurst, Tasks, C2PTasks, Writes
  <2> QED
    BY <1>1, <1>3, <1>o, <2>1, <2>2, AheadAppend DEF C2P, Tasks, C2PTasks, Writes
<1>10. CASE (\E s \in Stages : Condemn(s)) \/ Compression \/ LoginSuccess
  <2>1. /\ UNCHANGED outbound
        /\ \E e \in {"close", "compression", "success"} : Submit("c2p", e)
    BY <1>10 DEF Condemn, Compression, LoginSuccess
  <2>2. PICK e \in {"close", "compression", "success"} : Submit("c2p", e)
    BY <2>1
  <2>3. e \in Tasks /\ e # "burst" /\ tasks'["c2p"] = Append(q, e)
    BY <2>2, SubmitC2P DEF Tasks, C2PTasks, Writes
  <2> QED
    BY <1>1, <1>3, <1>o, <2>1, <2>3, AheadAppend
<1>11. CASE RestoreTask \/ AckTask \/ Acknowledged
  <2>1. tasks'["c2p"] = q /\ UNCHANGED outbound
    BY <1>11, DoneP2S, SubmitP2S DEF RestoreTask, AckTask, Acknowledged, Tasks,
       P2STasks
  <2> QED
    BY <1>3, <1>o, <2>1
<1>12. CASE WriteFails \/ CloseTask \/ Disconnect
  BY <1>2, <1>12 DEF WriteFails, CloseTask, Disconnect
<1>13. CASE BurstWritten
  <2>1. Out("burst") >= 1
    BY <1>13, TakenTasks DEF BurstWritten
  <2> QED
    BY <1>3, <2>1
<1>14. CASE \/ \E s \in Stages : DeadlinePasses(s) \/ Fire(s)
            \/ \E l \in Loops : SetAutoRead(l)
            \/ Handshake \/ Dial \/ LoopBlocks \/ UNCHANGED vars
  <2>1. tasks' = tasks /\ UNCHANGED outbound
    BY <1>14 DEF DeadlinePasses, Fire, SetAutoRead, Handshake, Dial, LoopBlocks, vars,
       loopVars
  <2> QED
    BY <1>3, <1>o, <2>1
<1> QED
  BY <1>5, <1>6, <1>7, <1>8, <1>9, <1>10, <1>11, <1>12, <1>13, <1>14
     DEF Next, ClientLoop, ClientTakes, BackendLoop, Scheduler

-----------------------------------------------------------------------------
(***************************************************************************)
(* What the watch counts, and the verdicts.                                *)
(***************************************************************************)
LEMMA DeliveredStep ==
  ASSUME HopInv, [Next]_vars
  PROVE  Delivered' /\ CountsOnlyConfiguration'
<1> USE DEF HopInv, GuardInv
<1>1. /\ Writing("burst") \in Nat /\ C2P("arm") \in Nat /\ Writing("success") \in Nat
      /\ bursts \in Nat /\ delivered \in Nat /\ clientbound \in Nat
  BY HopAssumption, TasksType DEF TypeOK
<1>2. modern' = modern
  BY OneWay
<1>3. CASE BurstWritten
  <2>0. /\ open /\ UNCHANGED tasks
        /\ Out("burst") >= 1 /\ Out("burst")' = Out("burst") - 1
    BY <1>3, TakenTasks DEF BurstWritten, WriteDone, One
  <2>1. Writing("burst")' = Writing("burst") - 1
    BY <2>0, TasksType DEF Writing, C2P
  <2>2. modern => armed
    BY <2>0 DEF ArmInv, BurstsFollowArm
  <2>3. /\ delivered' = delivered + 1 /\ bursts' = bursts /\ armed' = armed
        /\ clientbound' = IF armed THEN clientbound + 1 ELSE clientbound
    BY <1>3 DEF BurstWritten, connVars
  <2>4. Delivered'
    BY <1>1, <1>2, <2>1, <2>2, <2>3 DEF Delivered
  <2>5. CountsOnlyConfiguration'
    BY <1>1, <1>2, <2>2, <2>3 DEF CountsOnlyConfiguration
  <2> QED
    BY <2>4, <2>5
<1>4. CASE ArmConfiguration
  <2>1. Writing("burst")' = Writing("burst")
    <3>1. /\ tasks["c2p"] # <<>> /\ Done("c2p") /\ Head(tasks["c2p"]) = "arm"
          /\ UNCHANGED outbound
      BY <1>4 DEF ArmConfiguration
    <3>2. \A t : C2P(t)' = C2P(t) - One("arm" = t)
      BY <3>1, DoneC2P
    <3>3. C2P("burst")' = C2P("burst")
      BY <3>2, TasksType DEF One
    <3> QED
      BY <3>1, <3>3 DEF Writing, Out
  <2>2. ~armed
    <3>1. C2P("arm") >= 1
      BY <1>4, HeadCounted DEF ArmConfiguration
    <3> QED
      BY <1>1, <3>1 DEF ArmInv, ArmOnce, One
  <2>3. delivered' = delivered /\ bursts' = bursts
    BY <1>4 DEF ArmConfiguration, connVars
  <2>4. modern => delivered = 0
    BY <1>1, <2>2 DEF Delivered
  <2>5. \/ modern /\ clientbound' = 0
        \/ clientbound' = clientbound /\ armed' = armed
    BY <1>4 DEF ArmConfiguration, guardVars
  <2> QED
    BY <1>1, <1>2, <2>1, <2>3, <2>4, <2>5 DEF Delivered, CountsOnlyConfiguration
<1>5. CASE ReadBurst
  <2>1. Writing("burst")' = Writing("burst") + 1
    BY <1>1, <1>5, SubmitWriting DEF ReadBurst, One, Tasks, C2PTasks, Writes
  <2>2. /\ delivered' = delivered /\ bursts' = bursts + 1
        /\ armed' = armed /\ clientbound' = clientbound
    BY <1>5 DEF ReadBurst, guardVars
  <2> QED
    BY <1>1, <1>2, <2>1, <2>2 DEF Delivered, CountsOnlyConfiguration
<1>6. CASE /\ Writing("burst")' <= Writing("burst") /\ Writing("burst")' \in Nat
           /\ delivered' = delivered /\ bursts' = bursts
           /\ armed' = armed /\ clientbound' = clientbound
  BY <1>1, <1>2, <1>6 DEF Delivered, CountsOnlyConfiguration
<1>7. CASE \/ CompressionWritten \/ SuccessWritten
           \/ CloseTask \/ WriteTask \/ WriteFails
           \/ \E s \in Stages : DeadlinePasses(s) \/ Fire(s) \/ Condemn(s)
           \/ \E l \in Loops : SetAutoRead(l)
           \/ RestoreTask \/ AckTask \/ Handshake \/ Dial \/ Compression
           \/ LoginSuccess \/ Acknowledged \/ Disconnect \/ LoopBlocks
           \/ UNCHANGED vars
  <2>1. /\ delivered' = delivered /\ bursts' = bursts
        /\ armed' = armed /\ clientbound' = clientbound
    BY <1>7 DEF CompressionWritten, SuccessWritten, CloseTask, WriteTask, WriteFails,
       SetAutoRead, RestoreTask, AckTask, DeadlinePasses, Fire, Condemn, Handshake,
       Dial, Compression, LoginSuccess, Acknowledged, Disconnect, LoopBlocks, vars,
       connVars, guardVars
  <2>2. Writing("burst")' <= Writing("burst") /\ Writing("burst")' \in Nat
    <3>1. CASE CompressionWritten
      BY <1>1, <3>1, CompressionTasks DEF One
    <3>2. CASE SuccessWritten
      BY <1>1, <3>2, SuccessTasks DEF One
    <3>3. CASE WriteTask
      BY <1>1, <3>3, WriteTasks
    <3>4. CASE CloseTask \/ WriteFails \/ Disconnect
      <4>1. C2P("burst")' <= C2P("burst") /\ C2P("burst")' \in Nat
        <5>1. CASE tasks["c2p"] # <<>> /\ Done("c2p")
          <6>1. C2P("burst")' = C2P("burst") - One(Head(tasks["c2p"]) = "burst")
            BY <5>1, DoneC2P
          <6>2. Head(tasks["c2p"]) = "burst" => C2P("burst") >= 1
            BY <5>1, HeadCounted
          <6> QED
            BY <6>1, <6>2, TasksType DEF One
        <5>2. CASE UNCHANGED tasks
          BY <5>2, TasksType DEF C2P
        <5> QED
          BY <3>4, <5>1, <5>2 DEF CloseTask, WriteFails, Disconnect
      <4>2. Out("burst")' <= Out("burst") /\ Out("burst")' \in Nat
        <5>1. outbound' = <<>> \/ outbound' = outbound
          BY <3>4 DEF CloseTask, WriteFails, Disconnect
        <5> QED
          BY <5>1, CountEmpty, TasksType DEF Out
      <4> QED
        BY <4>1, <4>2, TasksType DEF Writing
    <3>5. CASE (\E s \in Stages : Condemn(s)) \/ Compression \/ LoginSuccess
      <4>1. /\ UNCHANGED outbound
            /\ \E e \in {"close", "compression", "success"} : Submit("c2p", e)
        BY <3>5 DEF Condemn, Compression, LoginSuccess
      <4>2. PICK e \in {"close", "compression", "success"} : Submit("c2p", e)
        BY <4>1
      <4> QED
        BY <1>1, <4>1, <4>2, SubmitWriting DEF One, Tasks, C2PTasks, Writes
    <3>6. CASE RestoreTask \/ AckTask \/ Acknowledged
      <4>1. UNCHANGED outbound /\ \A t : C2P(t)' = C2P(t)
        BY <3>6, DoneP2S, SubmitP2S
           DEF RestoreTask, AckTask, Acknowledged, Tasks, P2STasks
      <4> QED
        BY <1>1, <4>1, SameWriting
    <3>7. CASE UNCHANGED <<tasks, outbound>>
      BY <1>1, <3>7 DEF Writing, C2P, Out
    <3> HIDE DEF HopInv
    <3> QED
      BY <1>7, <3>1, <3>2, <3>3, <3>4, <3>5, <3>6, <3>7
         DEF DeadlinePasses, Fire, SetAutoRead, Handshake, Dial, LoopBlocks, vars,
             loopVars
  <2> QED
    BY <1>6, <2>1, <2>2
<1> QED
  BY <1>3, <1>4, <1>5, <1>7 DEF Next, ClientLoop, ClientTakes, BackendLoop, Scheduler

\* What the join has reached it keeps.
LEMMA InTimeKept ==
  ASSUME HopInv, [Next]_vars, NEW s \in Stages, InTime(s)
  PROVE  InTime(s)'
<1>1. delivered \in Nat /\ stage \in Nat
  BY HopAssumption DEF HopInv, TypeOK
<1>2. delivered' = delivered \/ delivered' = delivered + 1
  BY DEF Next, ClientLoop, ClientTakes, BackendLoop, Scheduler, vars, connVars,
     CompressionWritten, SuccessWritten, ArmConfiguration, BurstWritten, CloseTask,
     WriteTask, WriteFails, SetAutoRead, RestoreTask, AckTask, DeadlinePasses,
     Fire, Condemn, Handshake, Dial, Compression, LoginSuccess, Acknowledged,
     ReadBurst, Disconnect, LoopBlocks
<1>3. stage' = stage \/ \E r \in Stages : MarkStage(r)
  BY DEF Next, ClientLoop, ClientTakes, BackendLoop, Scheduler, vars, guardVars,
     CompressionWritten, SuccessWritten, ArmConfiguration, BurstWritten, CloseTask,
     WriteTask, WriteFails, SetAutoRead, RestoreTask, AckTask, DeadlinePasses,
     Fire, Condemn, Handshake, Dial, Compression, LoginSuccess, Acknowledged,
     ReadBurst, Disconnect, LoopBlocks, Stages
<1>4. \A r \in Stages : Rank[r] \in Nat
  BY DEF Rank, Stages
<1>5. stage' >= stage /\ stage' \in Nat
  BY <1>1, <1>3, <1>4 DEF MarkStage
<1>6. CASE s = "configuration"
  BY <1>1, <1>2, <1>6 DEF InTime
<1>7. CASE s # "configuration"
  BY <1>1, <1>4, <1>5, <1>7 DEF InTime
<1> QED
  BY <1>6, <1>7

LEMMA VerdictsStep ==
  ASSUME HopInv, [Next]_vars
  PROVE  Verdicts' /\ HealthySpared'
<1>1. modern' = modern
  BY OneWay
<1>2. \A s \in Stages : InTime(s) => InTime(s)'
  BY InTimeKept
<1>3. timer \in [Stages -> {"off", "set", "due", "condemned", "done"}]
  BY DEF HopInv, TypeOK
<1>4. /\ timer["configuration"] # "off" => modern
      /\ \A s \in Stages : timer[s] = "due" /\ s \notin late => InTime(s)
      /\ \A s \in Stages : timer[s] = "condemned" \/ s \in diagnosed => s \in late
  BY DEF HopInv, GuardInv, Verdicts, HealthySpared
<1> USE DEF Verdicts, HealthySpared
<1>5. CASE UNCHANGED timerVars
  BY <1>1, <1>2, <1>4, <1>5 DEF timerVars
<1>6. CASE ArmConfiguration
  <2>1. late' = late /\ diagnosed' = diagnosed
    BY <1>6 DEF ArmConfiguration
  <2>2. \/ timer' = timer
        \/ modern /\ timer' = [timer EXCEPT !["configuration"] =
                                  IF "configuration" \in deadlines THEN "set" ELSE @]
    BY <1>6 DEF ArmConfiguration
  <2>3. \A s \in Stages : timer'[s] = timer[s] \/ timer'[s] = "set"
    BY <1>3, <2>2 DEF Stages
  <2>4. timer'["configuration"] # "off" => modern
    BY <1>3, <1>4, <2>2 DEF Stages
  <2> QED
    BY <1>1, <1>2, <1>4, <2>1, <2>3, <2>4
<1>7. ASSUME NEW s \in Stages, DeadlinePasses(s)
      PROVE  Verdicts' /\ HealthySpared'
  <2>1. /\ timer[s] = "set" /\ timer' = [timer EXCEPT ![s] = "due"]
        /\ late' = IF InTime(s) THEN late ELSE late \cup {s}
        /\ diagnosed' = diagnosed
    BY <1>7 DEF DeadlinePasses, InTime
  <2>2. timer'[s] = "due" /\ \A r \in Stages \ {s} : timer'[r] = timer[r]
    BY <1>3, <2>1
  <2>3. timer'["configuration"] # "off" => modern
    BY <1>4, <2>1, <2>2 DEF Stages
  <2>4. s \notin late' => InTime(s)
    BY <2>1
  <2>5. late \subseteq late'
    BY <2>1
  <2> QED
    BY <1>1, <1>2, <1>4, <2>1, <2>2, <2>3, <2>4, <2>5
<1>8. ASSUME NEW s \in Stages, Fire(s)
      PROVE  Verdicts' /\ HealthySpared'
  <2>1. /\ timer[s] = "due" /\ late' = late /\ diagnosed' = diagnosed
        /\ timer' = [timer EXCEPT ![s] =
                       IF open /\ ~Reached(s) THEN "condemned" ELSE "done"]
    BY <1>8 DEF Fire
  <2>2. /\ timer'[s] = "done" \/ (timer'[s] = "condemned" /\ ~Reached(s))
        /\ \A r \in Stages \ {s} : timer'[r] = timer[r]
    BY <1>3, <2>1
  <2>3. timer'["configuration"] # "off" => modern
    BY <1>4, <2>1, <2>2 DEF Stages
  <2>4. s \notin late => Reached(s)
    <3>1. s \notin late => InTime(s)
      BY <1>4, <2>1
    <3>2. s = "configuration" => clientbound = delivered
      BY <1>4, <2>1 DEF HopInv, GuardInv, CountsOnlyConfiguration
    <3> QED
      BY <3>1, <3>2 DEF InTime, Reached
  <2> QED
    BY <1>1, <1>2, <1>4, <2>1, <2>2, <2>3, <2>4
<1>9. ASSUME NEW s \in Stages, Condemn(s)
      PROVE  Verdicts' /\ HealthySpared'
  <2>1. /\ timer[s] = "condemned" /\ late' = late /\ diagnosed' = diagnosed \cup {s}
        /\ timer' = [timer EXCEPT ![s] = "done"]
    BY <1>9 DEF Condemn
  <2>2. timer'[s] = "done" /\ \A r \in Stages \ {s} : timer'[r] = timer[r]
    BY <1>3, <2>1
  <2>3. timer'["configuration"] # "off" => modern
    BY <1>4, <2>1, <2>2 DEF Stages
  <2> QED
    BY <1>1, <1>2, <1>4, <2>1, <2>2, <2>3
<1> QED
  BY <1>5, <1>6, <1>7, <1>8, <1>9
     DEF Next, ClientLoop, ClientTakes, BackendLoop, Scheduler, vars,
     CompressionWritten, SuccessWritten, BurstWritten, CloseTask, WriteTask,
     WriteFails, SetAutoRead, RestoreTask, AckTask, Handshake, Dial, Compression,
     LoginSuccess, Acknowledged, ReadBurst, Disconnect, LoopBlocks

LEMMA HopStep == HopInv /\ [Next]_vars => HopInv'
<1> SUFFICES ASSUME HopInv, [Next]_vars PROVE HopInv'
  OBVIOUS
<1>1. TypeOK' /\ ReadInv' /\ HoldsOwed'
  BY TypeStep, ReadStep, HoldsStep
<1>2. ArmInv'
  BY ArmOnceStep, ArmComesStep, BurstsFollowStep DEF ArmInv
<1>3. GuardInv'
  BY DeliveredStep, VerdictsStep DEF GuardInv
<1> QED
  BY <1>1, <1>2, <1>3 DEF HopInv

LEMMA HopInvariant == Spec => []HopInv
  BY HopInit, HopStep, PTL DEF Spec

-----------------------------------------------------------------------------
(***************************************************************************)
(* The theorems.                                                           *)
(***************************************************************************)
\* The types hold, and with them the bound on what the watch counts.
THEOREM HopTypes == Spec => []TypeOK
<1>1. HopInv => TypeOK
  BY DEF HopInv
<1> QED
  BY <1>1, HopInvariant, PTL

\* For any number of configuration packets and however the loops interleave: the
\* watch of a modern client counts exactly the packets delivered after
\* LoginSuccess (TrafficCounter and armConfigurationStage).
THEOREM WatchCountsConfiguration == Spec => []CountsOnlyConfiguration
<1>1. HopInv => CountsOnlyConfiguration
  BY DEF HopInv, GuardInv
<1> QED
  BY <1>1, HopInvariant, PTL

\* The guard condemns no join that reached its stage before the deadline, however
\* late fire and fireConfiguration run.
THEOREM GuardSparesHealthy == Spec => []HealthySpared
<1>1. HopInv => HealthySpared
  BY DEF HopInv, GuardInv
<1> QED
  BY <1>1, HopInvariant, PTL

\* How many transitions of some kind are under way: only the backend's loop has
\* any.
LEMMA PendingOne ==
  ASSUME TypeOK, Confined, NEW K, "no" \notin K
  PROVE  Pending(K) = IF setting["p2s"] \in K THEN 1 ELSE 0
<1>1. {l \in Loops : setting[l] \in K} = IF setting["p2s"] \in K THEN {"p2s"} ELSE {}
  BY DEF TypeOK, Confined, Loops
<1>2. Cardinality({"p2s"}) = 1 /\ Cardinality({}) = 0
  BY FS_Singleton, FS_EmptySet
<1> QED
  BY <1>1, <1>2 DEF Pending

Holds == Len(saved) + Pending({"on", "off"}) - Pending({"hold"})

HoldsAre ==
    /\ Len(saved) \in Nat
    /\ setting["p2s"] = "no" => Holds = Len(saved)
    /\ setting["p2s"] = "hold" => Holds = Len(saved) - 1
    /\ setting["p2s"] \in {"on", "off"} => Holds = Len(saved) + 1

LEMMA HoldsValue == HopInv => HoldsAre
<1> SUFFICES ASSUME HopInv PROVE HoldsAre
  OBVIOUS
<1>1. TypeOK /\ Confined /\ Len(saved) \in Nat
  BY DEF HopInv, ReadInv, TypeOK
<1>2. /\ Pending({"on", "off"}) = IF setting["p2s"] \in {"on", "off"} THEN 1 ELSE 0
      /\ Pending({"hold"}) = IF setting["p2s"] \in {"hold"} THEN 1 ELSE 0
  BY <1>1, PendingOne
<1> QED
  BY <1>1, <1>2 DEF Holds, HoldsAre

LEMMA HoldsChange ==
  ASSUME HopInv, HopInv', [Next]_vars
  PROVE  [FC!Hold \/ FC!Release]_<<Holds, autoRead>>
<1>v. HoldsAre
  BY HoldsValue
<1>w. HoldsAre'
  BY HoldsValue, PTL
<1>1. CASE UNCHANGED readVars
  BY <1>1 DEF readVars, Holds, Pending
<1>2. CASE Compression \/ LoginSuccess
  <2>1. /\ setting["p2s"] = "no" /\ setting'["p2s"] = "hold"
        /\ autoRead' = autoRead
    BY <1>2 DEF Compression, LoginSuccess, DisableAutoRead, Free, HopInv, TypeOK,
                Loops
  <2>2. Len(saved') = Len(saved) + 1
    BY <1>2, Owed, Held DEF Compression, LoginSuccess, Early, HopInv
  <2>3. Holds = Len(saved) /\ Holds' = Len(saved') - 1
    BY <1>v, <1>w, <2>1 DEF HoldsAre
  <2> QED
    BY <1>v, <2>1, <2>2, <2>3 DEF HoldsAre
<1>3. CASE RestoreTask \/ AckTask
  <2>1. Free("p2s") /\ saved # <<>> /\ Restore("p2s")
    BY <1>3, Owed DEF RestoreTask, AckTask
  <2>2. Len(saved') = Len(saved) - 1 /\ ~thrown'
    BY <2>1, Restored DEF HopInv, ReadInv, NotRefused
  <2>3. /\ setting["p2s"] = "no" /\ setting'["p2s"] \in {"on", "off"}
        /\ autoRead' = autoRead
    BY <2>1, <2>2 DEF Restore, Free, HopInv, TypeOK, Loops
  <2> QED
    BY <1>v, <1>w, <2>2, <2>3 DEF HoldsAre
<1>4. ASSUME NEW l \in Loops, SetAutoRead(l)
      PROVE  FC!Hold \/ FC!Release
  <2> USE DEF HopInv, ReadInv
  <2>1. l = "p2s"
    BY <1>4 DEF SetAutoRead, Confined, Loops
  <2>2. /\ setting["p2s"] \in {"hold", "on", "off"} /\ setting'["p2s"] = "no"
        /\ autoRead' = (setting["p2s"] = "on") /\ saved' = saved
    BY <1>4, <2>1 DEF SetAutoRead, TypeOK, Loops
  <2>3. Holds' = Len(saved)
    BY <1>w, <2>2 DEF HoldsAre
  <2>4. CASE setting["p2s"] = "hold"
    <3>b. HeldOnce \/ HeldTwice
      BY <2>4 DEF SavedShape
    <3>a. Len(saved) = 1 \/ Len(saved) = 2
      BY <3>b, Zenon DEF HeldOnce, HeldTwice
    <3>1. Holds = Len(saved) - 1
      BY <1>v, <2>4 DEF HoldsAre
    <3>2. autoRead' = FALSE
      BY <2>2, <2>4
    <3>3. Holds < 2 /\ Holds' = Holds + 1
      BY <2>3, <3>a, <3>1
    <3> QED
      BY <3>2, <3>3, Zenon DEF FC!Hold, Holds
  <2>5. CASE setting["p2s"] = "on"
    <3>1. Holds = 1 /\ Holds' = 0
      BY <1>v, <2>3, <2>5 DEF HoldsAre, SavedShape, HeldNot
    <3>2. autoRead' = TRUE
      BY <2>2, <2>5
    <3>3. (Holds = 1) = TRUE
      BY <3>1
    <3>4. autoRead' = (Holds = 1)
      BY <3>2, <3>3, Zenon
    <3>5. Holds > 0 /\ Holds' = Holds - 1
      BY <3>1
    <3> QED
      BY <3>4, <3>5, Zenon DEF FC!Release, Holds
  <2>6. CASE setting["p2s"] = "off"
    <3>1. Holds = 2 /\ Holds' = 1
      BY <1>v, <2>3, <2>6 DEF HoldsAre, SavedShape, HeldOnce
    <3>2. autoRead' = FALSE
      BY <2>2, <2>6
    <3>3. (Holds = 1) = FALSE
      BY <3>1
    <3>4. autoRead' = (Holds = 1)
      BY <3>2, <3>3, Zenon
    <3>5. Holds > 0 /\ Holds' = Holds - 1
      BY <3>1
    <3> QED
      BY <3>4, <3>5, Zenon DEF FC!Release, Holds
  <2> QED
    BY <2>2, <2>4, <2>5, <2>6
<1> QED
  BY <1>1, <1>2, <1>3, <1>4
     DEF Next, ClientLoop, ClientTakes, BackendLoop, Scheduler, vars,
         CompressionWritten, RestoreFromClientLoop, SuccessWritten,
         ArmConfiguration, BurstWritten, CloseTask, WriteTask, WriteFails,
         DeadlinePasses, Fire, Condemn, Handshake, Dial, Acknowledged, ReadBurst,
         Disconnect, LoopBlocks

\* ChannelUtil keeps its promise: with transitions of both channels' loops in any
\* order, the backend channel implements FlowControl, and restoreAutoRead never
\* finds a state it refuses.
THEOREM ChannelHonoursHolds == Spec => HoldsRespected
<1>1. Init => FC!Init
  <2> SUFFICES ASSUME Init PROVE FC!Init
    OBVIOUS
  <2>1. HopInv /\ setting["p2s"] = "no" /\ Len(saved) = 0 /\ autoRead = TRUE
    BY HopInit DEF Init, Loops
  <2>2. Holds = 0
    BY <2>1, HoldsValue DEF HoldsAre
  <2> QED
    BY <2>1, <2>2 DEF FC!Init, Holds
<1>2. HopInv /\ HopInv' /\ [Next]_vars
        => [FC!Hold \/ FC!Release]_<<Len(saved) + Pending({"on", "off"})
                                       - Pending({"hold"}), autoRead>>
  BY HoldsChange DEF Holds
<1>3. HopInv => ~thrown
  BY DEF HopInv, ReadInv, NotRefused
<1> QED
  BY <1>1, <1>2, <1>3, HopInvariant, PTL DEF Spec, HoldsRespected, FC!Spec

=============================================================================
