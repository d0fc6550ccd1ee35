-------------------------- MODULE SchedulerProofs --------------------------
(***************************************************************************)
(* Proofs about the scheduler, for any set of jobs and any capacities.     *)
(* IInv is inductive; from it follow the wake-up and shutdown properties   *)
(* and that every step of the scheduler is a step of FifoService or a      *)
(* stutter, which carries over what FifoServiceProofs shows of the line.   *)
(***************************************************************************)
EXTENDS Scheduler, SequenceTheorems, FiniteSetTheorems, TLAPS

Line == INSTANCE FifoServiceProofs WITH backlog <- Waiting

-----------------------------------------------------------------------------

\* A sequence with something in front is not empty and gives up its front.
LEMMA ConcatHeadTail ==
    ASSUME NEW S, NEW s \in Seq(S), NEW t \in Seq(S), s # <<>>
    PROVE  /\ s \o t # <<>>
           /\ Head(s \o t) = Head(s)
           /\ Tail(s \o t) = Tail(s) \o t
<1>1. Len(s) \in Nat \ {0} /\ Len(t) \in Nat
  BY EmptySeq, LenProperties
<1>2. /\ s \o t \in Seq(S) /\ Len(s \o t) = Len(s) + Len(t)
      /\ \A i \in 1..Len(s) + Len(t) :
            (s \o t)[i] = IF i <= Len(s) THEN s[i] ELSE t[i - Len(s)]
  BY ConcatProperties
<1>3. s \o t # <<>>
  BY ConcatEqualIffEmpty
<1>4. Head(s \o t) = Head(s)
  BY <1>1, <1>2
<1>5. /\ Tail(s) \in Seq(S) /\ Len(Tail(s)) = Len(s) - 1
      /\ \A i \in 1..Len(Tail(s)) : Tail(s)[i] = s[i+1]
  BY HeadTailProperties
<1>6. /\ Tail(s \o t) \in Seq(S) /\ Len(Tail(s \o t)) = Len(s) + Len(t) - 1
      /\ \A i \in 1..Len(Tail(s \o t)) : Tail(s \o t)[i] = (s \o t)[i+1]
  BY <1>2, <1>3, HeadTailProperties
<1>7. /\ Tail(s) \o t \in Seq(S) /\ Len(Tail(s) \o t) = Len(s) - 1 + Len(t)
      /\ \A i \in 1..Len(s) - 1 + Len(t) :
            (Tail(s) \o t)[i] = IF i <= Len(s) - 1 THEN Tail(s)[i]
                                                   ELSE t[i - (Len(s) - 1)]
  <2>1. /\ Tail(s) \o t \in Seq(S) /\ Len(Tail(s) \o t) = Len(Tail(s)) + Len(t)
        /\ \A i \in 1..Len(Tail(s)) + Len(t) :
              (Tail(s) \o t)[i] = IF i <= Len(Tail(s)) THEN Tail(s)[i]
                                                       ELSE t[i - Len(Tail(s))]
    BY <1>5, ConcatProperties
  <2>2. QED  BY <1>5, <2>1
<1>8. ASSUME NEW i \in 1..Len(Tail(s \o t))
      PROVE  Tail(s \o t)[i] = (Tail(s) \o t)[i]
  <2>1. /\ i \in Nat /\ i >= 1 /\ i <= Len(s) + Len(t) - 1
        /\ i + 1 \in 1..Len(s) + Len(t)
    BY <1>1, <1>6
  <2>2. Tail(s \o t)[i] = IF i + 1 <= Len(s) THEN s[i+1] ELSE t[i + 1 - Len(s)]
    BY <1>2, <1>6, <2>1
  <2>3. CASE i + 1 <= Len(s)
    <3>1. i \in 1..Len(Tail(s)) /\ i \in 1..Len(s) - 1 + Len(t) /\ i <= Len(s) - 1
      BY <1>1, <1>5, <2>1, <2>3
    <3>2. QED  BY <1>5, <1>7, <2>2, <2>3, <3>1
  <2>4. CASE ~(i + 1 <= Len(s))
    <3>1. /\ i \in 1..Len(s) - 1 + Len(t) /\ ~(i <= Len(s) - 1)
          /\ i + 1 - Len(s) = i - (Len(s) - 1)
      BY <1>1, <2>1, <2>4
    <3>2. QED  BY <1>7, <2>2, <2>4, <3>1
  <2>5. QED  BY <2>3, <2>4
<1>9. Tail(s \o t) = Tail(s) \o t
  <2>1. Len(Tail(s \o t)) = Len(Tail(s) \o t)
    BY <1>1, <1>6, <1>7
  <2>2. QED  BY <1>6, <1>7, <1>8, <2>1, SeqEqual
<1>10. QED  BY <1>3, <1>4, <1>9

\* Moving the head of one sequence to the end of the one before it keeps
\* their concatenation: what a receive from the queue does to the line.
LEMMA MoveHead ==
    ASSUME NEW S, NEW s \in Seq(S), NEW t \in Seq(S), t # <<>>
    PROVE  Append(s, Head(t)) \o Tail(t) = s \o t
<1>1. Head(t) \in S /\ Tail(t) \in Seq(S) /\ <<Head(t)>> \in Seq(S)
  BY HeadTailProperties
<1>2. Append(s, Head(t)) = s \o <<Head(t)>>
  BY <1>1, AppendIsConcat
<1>3. (s \o <<Head(t)>>) \o Tail(t) = s \o (<<Head(t)>> \o Tail(t))
  BY <1>1, ConcatAssociative
<1>4. <<Head(t)>> \o Tail(t) = t
  <2>1. Len(t) \in Nat \ {0} /\ Len(Tail(t)) = Len(t) - 1
        /\ \A i \in 1..Len(Tail(t)) : Tail(t)[i] = t[i+1]
    BY EmptySeq, LenProperties, HeadTailProperties
  <2>2. /\ <<Head(t)>> \o Tail(t) \in Seq(S)
        /\ Len(<<Head(t)>> \o Tail(t)) = 1 + Len(Tail(t))
        /\ \A i \in 1..1 + Len(Tail(t)) :
              (<<Head(t)>> \o Tail(t))[i] = IF i <= 1 THEN <<Head(t)>>[i] ELSE Tail(t)[i-1]
    <3>1. Len(<<Head(t)>>) = 1
      OBVIOUS
    <3>2. QED  BY <1>1, <3>1, ConcatProperties
  <2>3. ASSUME NEW i \in 1..Len(t)
        PROVE  (<<Head(t)>> \o Tail(t))[i] = t[i]
    <3>1. CASE i = 1
      <4>1. (<<Head(t)>> \o Tail(t))[1] = <<Head(t)>>[1]
        BY <2>1, <2>2
      <4>2. <<Head(t)>>[1] = t[1]
        OBVIOUS
      <4>3. QED  BY <3>1, <4>1, <4>2
    <3>2. CASE i # 1
      <4>1. i \in 1..1 + Len(Tail(t)) /\ ~(i <= 1) /\ i - 1 \in 1..Len(Tail(t))
            /\ (i - 1) + 1 = i
        BY <2>1, <3>2
      <4>2. QED  BY <2>1, <2>2, <4>1
    <3>3. QED  BY <3>1, <3>2
  <2>4. QED  BY <2>1, <2>2, <2>3, SeqEqual
<1>5. QED  BY <1>2, <1>3, <1>4

-----------------------------------------------------------------------------

\* What relates the program points to the lists: a batch is never collected
\* while one is being dispatched or after Stop was seen, and no list is
\* longer than the capacity that guards it.
Shape ==
    /\ pending # <<>> \/ batcher # "select" => batch = <<>>
    /\ batcher = "exited" => pending = <<>>
    /\ batcher # "select" => stop # "no"
    /\ Len(queue) <= QueueCapacity
    /\ Len(batch) < MaxBatchSize
    /\ Len(pending) <= MaxBatchSize

\* The types without the bounds, which are in Shape.
Types ==
    /\ queue \in Seq(Jobs)
    /\ batch \in Seq(Jobs)
    /\ pending \in Seq(Jobs)
    /\ running \in SUBSET Jobs
    /\ status \in [Jobs -> Status]
    /\ batcher \in {"select", "drain", "exited"}
    /\ armed \in BOOLEAN
    /\ sends \in Nat
    /\ tick \in BOOLEAN
    /\ stop \in {"no", "called", "returned"}

IInv == Types /\ Shape /\ WakeupDue

\* The lists, the job states, the timer and the program points keep their
\* types.
LEMMA TypesKept == Spec => []Types
<1>1. Init => Types
  <2> SUFFICES ASSUME Init PROVE Types
    OBVIOUS
  <2>1. armed \in BOOLEAN /\ tick \in BOOLEAN
    BY Zenon DEF Init
  <2>2. QED  BY <2>1, EmptySeq DEF Init, Types, Status
<1>2. Types /\ [Next]_vars => Types'
  <2> SUFFICES ASSUME Types, [Next]_vars PROVE Types'
    OBVIOUS
  <2> USE DEF Types, Status, Answered, timerVars, jobVars
  <2>1. ASSUME NEW j \in Jobs, Accept(j) PROVE Types'
    BY <2>1, AppendProperties DEF Accept
  <2>2. ASSUME NEW j \in Jobs, Reject(j) PROVE Types'
    BY <2>2 DEF Reject
  <2>3. ASSUME NEW j \in Jobs, Release(j) PROVE Types'
    BY <2>3 DEF Release
  <2>4. ASSUME NEW j \in Jobs, NEW outcome \in Answered, Finish(j, outcome)
        PROVE  Types'
    BY <2>4 DEF Finish
  <2>5. CASE TimerExpire
    <3>1. sends' \in Nat
      BY <2>5 DEF TimerExpire
    <3>2. tick' \in BOOLEAN /\ armed' \in BOOLEAN
      BY <2>5, Zenon DEF TimerExpire
    <3>3. QED  BY <2>5, <3>1, <3>2 DEF TimerExpire
  <2>6. CASE TimerSend
    <3>1. sends' \in Nat
      BY <2>6 DEF TimerSend
    <3>2. tick' \in BOOLEAN /\ armed' \in BOOLEAN
      BY <2>6, Zenon DEF TimerSend
    <3>3. QED  BY <2>6, <3>1, <3>2 DEF TimerSend
  <2>7. CASE Receive
    <3>1. /\ Tail(queue) \in Seq(Jobs) /\ Head(queue) \in Jobs
          /\ Append(batch, Head(queue)) \in Seq(Jobs)
      BY <2>7, HeadTailProperties, AppendProperties DEF Receive
    <3>2. queue' \in Seq(Jobs) /\ batch' \in Seq(Jobs) /\ pending' \in Seq(Jobs)
      BY <2>7, <3>1, EmptySeq DEF Receive
    <3>3. sends' \in Nat
      BY <2>7 DEF Receive, RestartTimer
    <3>4. armed' \in BOOLEAN /\ tick' \in BOOLEAN
      <4>1. CASE batch = <<>>
        BY <2>7, <4>1, Zenon DEF Receive, RestartTimer
      <4>2. CASE batch # <<>>
        BY <2>7, <4>2, Zenon DEF Receive
      <4>3. QED  BY <4>1, <4>2
    <3>5. QED  BY <2>7, <3>2, <3>3, <3>4 DEF Receive
  <2>8. CASE TimerFlush
    <3>1. tick' \in BOOLEAN
      BY <2>8, Zenon DEF TimerFlush, Flush
    <3>2. pending' \in Seq(Jobs) /\ batch' \in Seq(Jobs)
      BY <2>8, EmptySeq DEF TimerFlush, Flush
    <3>3. QED  BY <2>8, <3>1, <3>2 DEF TimerFlush, Flush
  <2>9. CASE StopSeen
    BY <2>9 DEF StopSeen, Flush
  <2>10. CASE DrainReceive
    BY <2>10, HeadTailProperties DEF DrainReceive
  <2>11. CASE DrainExit
    BY <2>11 DEF DrainExit
  <2>12. CASE Acquire
    BY <2>12, HeadTailProperties DEF Acquire
  <2>13. CASE StopCall
    BY <2>13 DEF StopCall
  <2>14. CASE StopReturn
    BY <2>14 DEF StopReturn
  <2>15. CASE UNCHANGED vars
    BY <2>15 DEF vars
  <2>16. QED
    BY <2>1, <2>2, <2>3, <2>4, <2>5, <2>6, <2>7, <2>8, <2>9, <2>10, <2>11,
       <2>12, <2>13, <2>14, <2>15 DEF Next
<1>3. QED  BY <1>1, <1>2, PTL DEF Spec

\* Shape and the wake-up, together, are kept by every step.
LEMMA ShapeStep == Types /\ Shape /\ [Next]_vars => Shape'
<1> SUFFICES ASSUME Types, Shape, [Next]_vars PROVE Shape'
  OBVIOUS
<1> USE KnobsAssumption DEF Shape, timerVars, jobVars, Selecting
<1>0. Len(queue) \in Nat /\ Len(batch) \in Nat /\ Len(pending) \in Nat
  BY LenProperties DEF Types
<1>1. ASSUME NEW j \in Jobs, Accept(j) PROVE Shape'
  BY <1>0, <1>1, AppendProperties DEF Accept, Types
<1>2. ASSUME NEW j \in Jobs, Reject(j) PROVE Shape'
  BY <1>2 DEF Reject
<1>3. ASSUME NEW j \in Jobs, Release(j) PROVE Shape'
  BY <1>3 DEF Release
<1>4. ASSUME NEW j \in Jobs, NEW outcome \in Answered, Finish(j, outcome)
      PROVE  Shape'
  BY <1>4 DEF Finish
<1>5. CASE TimerExpire
  BY <1>5 DEF TimerExpire
<1>6. CASE TimerSend
  BY <1>6 DEF TimerSend
<1>7. CASE Receive
  <2> DEFINE grown == Append(batch, Head(queue))
  <2>1. /\ Head(queue) \in Jobs /\ Len(Tail(queue)) = Len(queue) - 1
        /\ Len(grown) = Len(batch) + 1
    BY <1>7, HeadTailProperties, AppendProperties DEF Receive, Types
  <2>2. /\ queue' = Tail(queue) /\ batcher' = batcher /\ stop' = stop
        /\ batcher = "select" /\ pending = <<>>
        /\ IF Len(grown) >= MaxBatchSize
           THEN batch' = <<>> /\ pending' = grown
           ELSE batch' = grown /\ pending' = pending
    BY <1>7 DEF Receive
  <2>3. Len(queue') <= QueueCapacity
    BY <1>0, <2>1, <2>2
  <2> HIDE DEF grown
  <2>4. CASE Len(grown) >= MaxBatchSize
    <3>1. Len(batch') = 0 /\ Len(pending') = Len(batch) + 1
      BY <2>1, <2>2, <2>4
    <3>2. QED  BY <1>0, <2>2, <2>3, <2>4, <3>1
  <2>5. CASE ~(Len(grown) >= MaxBatchSize)
    <3>1. Len(batch') = Len(batch) + 1 /\ pending' = <<>>
      BY <2>1, <2>2, <2>5
    <3>2. QED  BY <1>0, <2>1, <2>2, <2>3, <2>5, <3>1
  <2>6. QED  BY <2>4, <2>5
<1>8. CASE TimerFlush
  BY <1>0, <1>8, EmptySeq DEF TimerFlush, Flush
<1>9. CASE StopSeen
  BY <1>0, <1>9, EmptySeq DEF StopSeen, Flush
<1>10. CASE DrainReceive
  <2>1. Len(queue') = Len(queue) - 1
    BY <1>10, HeadTailProperties DEF DrainReceive, Types
  <2>2. Len(pending') = 1
    BY <1>10 DEF DrainReceive
  <2>3. QED  BY <1>0, <1>10, <2>1, <2>2 DEF DrainReceive
<1>11. CASE DrainExit
  BY <1>11 DEF DrainExit
<1>12. CASE Acquire
  <2>1. Len(pending') = Len(pending) - 1
    BY <1>12, HeadTailProperties DEF Acquire, Types
  <2>2. QED  BY <1>0, <1>12, <2>1 DEF Acquire
<1>13. CASE StopCall
  BY <1>13 DEF StopCall
<1>14. CASE StopReturn
  BY <1>14 DEF StopReturn
<1>15. CASE UNCHANGED vars
  BY <1>15 DEF vars
<1>16. QED
  BY <1>1, <1>2, <1>3, <1>4, <1>5, <1>6, <1>7, <1>8, <1>9, <1>10, <1>11,
     <1>12, <1>13, <1>14, <1>15 DEF Next

\* Only the batcher and the runtime touch batch and timer; a tick is taken
\* out of the channel only together with the batch or before a restart.
LEMMA WakeupStep == Types /\ WakeupDue /\ [Next]_vars => WakeupDue'
<1> SUFFICES ASSUME Types, WakeupDue, [Next]_vars PROVE WakeupDue'
  OBVIOUS
<1> USE DEF WakeupDue, timerVars, jobVars
<1>1. CASE TimerExpire
  BY <1>1 DEF TimerExpire, Types
<1>2. CASE TimerSend
  BY <1>2 DEF TimerSend
<1>3. CASE Receive
  BY <1>3 DEF Receive, RestartTimer
<1>4. CASE TimerFlush
  BY <1>4 DEF TimerFlush, Flush
<1>5. CASE StopSeen
  BY <1>5 DEF StopSeen, Flush
<1>6. CASE UNCHANGED <<batch, timerVars>>
  BY <1>6
<1>7. QED
  BY <1>1, <1>2, <1>3, <1>4, <1>5, <1>6
  DEF Next, Accept, Reject, Release, Finish, DrainReceive, DrainExit, Acquire,
      StopCall, StopReturn, vars

\* The inductive invariant holds throughout.
THEOREM InvariantHolds == Spec => []IInv
<1>1. Init => Shape /\ WakeupDue
  BY KnobsAssumption, EmptySeq DEF Init, Shape, WakeupDue
<1>2. QED  BY <1>1, TypesKept, ShapeStep, WakeupStep, PTL DEF Spec, IInv

\* The variables keep their types, and the lists of jobs their bounds.
THEOREM TypeCorrect == Spec => []TypeOK
<1>1. IInv => TypeOK
  <2> SUFFICES ASSUME IInv PROVE TypeOK
    OBVIOUS
  <2>1. armed \in BOOLEAN /\ tick \in BOOLEAN
    BY Zenon DEF IInv, Types
  <2>2. QED  BY <2>1 DEF IInv, Types, Shape, TypeOK
<1>2. QED  BY <1>1, InvariantHolds, PTL

\* A batch that is being collected always has a wake-up coming.
THEOREM NoLostWakeup == Spec => []WakeupDue
BY InvariantHolds, PTL DEF IInv

\* The batcher returns only when no accepted job is waiting anywhere.
THEOREM ShutdownDrains == Spec => DrainedAtExit
<1>1. IInv /\ [Next]_vars =>
        [batcher # "exited" /\ batcher' = "exited" => Waiting' = <<>>]_vars
  <2> SUFFICES ASSUME IInv, Next, batcher # "exited", batcher' = "exited"
               PROVE  Waiting' = <<>>
    BY DEF vars
  <2>1. DrainExit
    BY DEF Next, Accept, Reject, Release, Finish, TimerExpire, TimerSend,
           Receive, TimerFlush, StopSeen, DrainReceive, Acquire, StopCall,
           StopReturn
  <2>2. queue' = <<>> /\ pending' = <<>> /\ batch' = <<>>
    BY <2>1 DEF DrainExit, IInv, Shape, jobVars
  <2>3. QED  BY <2>2 DEF Waiting
<1>2. QED  BY <1>1, InvariantHolds, PTL DEF Spec, DrainedAtExit

-----------------------------------------------------------------------------

\* How long the line is, in terms of the lists it is made of.
LEMMA WaitingLemma ==
    ASSUME Types
    PROVE  /\ Waiting \in Seq(Jobs)
           /\ Waiting = pending \o (batch \o queue)
           /\ Len(Waiting) = Len(pending) + Len(batch) + Len(queue)
<1>1. /\ pending \o batch \in Seq(Jobs)
      /\ Len(pending \o batch) = Len(pending) + Len(batch)
  BY ConcatProperties DEF Types
<1>2. Waiting = (pending \o batch) \o queue
  BY DEF Waiting
<1>3. /\ Waiting \in Seq(Jobs)
      /\ Len(Waiting) = Len(pending \o batch) + Len(queue)
  BY <1>1, <1>2, ConcatProperties DEF Types
<1>4. Waiting = pending \o (batch \o queue)
  BY <1>2, ConcatAssociative DEF Types
<1>5. QED  BY <1>1, <1>3, <1>4

\* Moving jobs between queue, batch and the flushed batch leaves the line as
\* it is.
LEMMA MovesKeepWaiting ==
    ASSUME IInv, Receive \/ TimerFlush \/ StopSeen \/ DrainReceive
    PROVE  Waiting' = Waiting
<1> USE DEF IInv, Types, Waiting
<1>1. CASE Receive
  <2>1. /\ pending = <<>> /\ queue # <<>> /\ Head(queue) \in Jobs
        /\ Tail(queue) \in Seq(Jobs)
    BY <1>1, HeadTailProperties DEF Receive, Selecting
  <2>2. /\ <<>> \o batch = batch
        /\ Append(batch, Head(queue)) \in Seq(Jobs)
    BY <2>1, ConcatEmptySeq, AppendProperties
  <2>3. Waiting = batch \o queue
    BY <2>1, <2>2
  <2>4. \/ batch' = <<>> /\ pending' = Append(batch, Head(queue))
        \/ batch' = Append(batch, Head(queue)) /\ pending' = <<>>
    BY <1>1, <2>1 DEF Receive
  <2>5. pending' \o batch' = Append(batch, Head(queue))
    BY <2>2, <2>4, ConcatEmptySeq
  <2>6. Waiting' = Append(batch, Head(queue)) \o Tail(queue)
    BY <1>1, <2>5 DEF Receive
  <2>7. QED  BY <2>1, <2>3, <2>6, MoveHead
<1>2. CASE TimerFlush \/ StopSeen
  <2>1. pending = <<>> /\ pending' = batch /\ batch' = <<>> /\ queue' = queue
    BY <1>2 DEF TimerFlush, StopSeen, Selecting, Flush
  <2>2. pending \o batch = batch /\ pending' \o batch' = batch
    BY <2>1, ConcatEmptySeq
  <2>3. QED  BY <2>1, <2>2
<1>3. CASE DrainReceive
  <2>1. /\ pending = <<>> /\ batch = <<>> /\ batch' = <<>> /\ queue # <<>>
        /\ pending' = <<Head(queue)>> /\ queue' = Tail(queue)
    BY <1>3 DEF DrainReceive, Shape, jobVars
  <2>2. <<>> \in Seq(Jobs) /\ Head(queue) \in Jobs /\ <<Head(queue)>> \in Seq(Jobs)
    BY <2>1, EmptySeq, HeadTailProperties
  <2>3. pending \o batch = <<>> /\ <<>> \o queue = queue
    BY <2>1, <2>2, ConcatEmptySeq
  <2>4. pending' \o batch' = Append(<<>>, Head(queue))
    <3>1. Append(<<>>, Head(queue)) = <<>> \o <<Head(queue)>>
      BY <2>2, AppendIsConcat
    <3>2. <<>> \o <<Head(queue)>> = <<Head(queue)>>
      BY <2>2, ConcatEmptySeq
    <3>3. <<Head(queue)>> \o <<>> = <<Head(queue)>>
      BY <2>2, ConcatEmptySeq
    <3>4. QED  BY <2>1, <3>1, <3>2, <3>3
  <2>5. Append(<<>>, Head(queue)) \o Tail(queue) = <<>> \o queue
    BY <2>1, <2>2, MoveHead
  <2>6. QED  BY <2>1, <2>3, <2>4, <2>5
<1>4. QED  BY <1>1, <1>2, <1>3

\* The scheduler implements the first come, first served line.
THEOREM ImplementsLine == Spec => ImplementsFifo
<1>1. Init => Fifo!Init
  <2> SUFFICES ASSUME Init PROVE Fifo!Init
    OBVIOUS
  <2>1. <<>> \o <<>> = <<>>
    BY EmptySeq, ConcatEmptySeq
  <2>2. Waiting = <<>>
    BY <2>1 DEF Init, Waiting
  <2>3. QED  BY <2>2 DEF Init, Fifo!Init
<1>2. IInv /\ [Next]_vars => [Fifo!Next]_Fifo!vars
  <2> SUFFICES ASSUME IInv, [Next]_vars PROVE [Fifo!Next]_Fifo!vars
    OBVIOUS
  <2> USE KnobsAssumption DEF IInv, timerVars, jobVars
  <2>0. /\ Len(queue) \in Nat /\ Len(batch) \in Nat /\ Len(pending) \in Nat
        /\ Len(Waiting) = Len(pending) + Len(batch) + Len(queue)
        /\ Waiting \in Seq(Jobs)
        /\ Waiting = pending \o (batch \o queue)
        /\ batch \o queue \in Seq(Jobs)
    BY WaitingLemma, LenProperties, ConcatProperties DEF Types
  <2>1. ASSUME NEW j \in Jobs, Accept(j) PROVE Fifo!Accept(j)
    <3>1. Len(Waiting) < QueueCapacity + MaxBatchSize
      <4>1. CASE pending = <<>>
        <5>1. Len(pending) = 0
          BY <4>1
        <5>2. QED  BY <2>0, <2>1, <5>1 DEF Accept, Shape
      <4>2. CASE pending # <<>>
        <5>1. Len(batch) = 0
          BY <4>2 DEF Shape
        <5>2. QED  BY <2>0, <2>1, <5>1 DEF Accept, Shape
      <4>3. QED  BY <4>1, <4>2
    <3>2. Waiting' = Append(Waiting, j)
      <4>1. pending' = pending /\ batch' = batch /\ queue' = Append(queue, j)
        BY <2>1 DEF Accept
      <4>2. Append(queue, j) = queue \o <<j>> /\ <<j>> \in Seq(Jobs)
        BY AppendIsConcat DEF Types
      <4>3. Append(Waiting, j) = Waiting \o <<j>>
        BY <2>0, AppendIsConcat
      <4>4. pending \o batch \in Seq(Jobs)
        BY ConcatProperties DEF Types
      <4>5. ((pending \o batch) \o queue) \o <<j>> = (pending \o batch) \o (queue \o <<j>>)
        BY <4>2, <4>4, ConcatAssociative DEF Types
      <4>6. QED  BY <4>1, <4>2, <4>3, <4>5 DEF Waiting
    <3>3. QED  BY <2>1, <3>1, <3>2 DEF Accept, Fifo!Accept
  <2>2. ASSUME NEW j \in Jobs, Reject(j) PROVE Fifo!Reject(j)
    <3>1. Waiting' = Waiting
      BY <2>2 DEF Reject, Waiting
    <3>2. Len(Waiting) >= QueueCapacity
      BY <2>0, <2>2 DEF Reject
    <3>3. QED  BY <2>2, <3>1, <3>2 DEF Reject, Fifo!Reject
  <2>3. ASSUME NEW j \in Jobs, Release(j) PROVE Fifo!Release(j)
    <3>1. Waiting' = Waiting
      BY <2>3 DEF Release, Waiting
    <3>2. QED  BY <2>3, <3>1
               DEF Release, Fifo!Release, Answered, Fifo!Answered
  <2>4. ASSUME NEW j \in Jobs, NEW outcome \in Answered, Finish(j, outcome)
        PROVE  Fifo!Finish(j, outcome)
    <3>1. Waiting' = Waiting
      BY <2>4 DEF Finish, Waiting
    <3>2. QED  BY <2>4, <3>1 DEF Finish, Fifo!Finish
  <2>5. CASE Acquire
    <3>1. /\ pending # <<>> /\ pending' = Tail(pending)
          /\ batch' = batch /\ queue' = queue
      BY <2>5 DEF Acquire
    <3>2. /\ Waiting # <<>> /\ Head(Waiting) = Head(pending)
          /\ Tail(Waiting) = Tail(pending) \o (batch \o queue)
      BY <2>0, <3>1, ConcatHeadTail DEF Types
    <3>3. Tail(pending) \in Seq(Jobs)
      BY <3>1, HeadTailProperties DEF Types
    <3>4. Waiting' = Tail(Waiting)
      <4>1. Waiting' = (Tail(pending) \o batch) \o queue
        BY <3>1 DEF Waiting
      <4>2. (Tail(pending) \o batch) \o queue = Tail(pending) \o (batch \o queue)
        BY <3>3, ConcatAssociative DEF Types
      <4>3. QED  BY <3>2, <4>1, <4>2
    <3>5. Fifo!Cardinality(running) = Cardinality(running)
      BY DEF Fifo!Cardinality, Cardinality
    <3>6. Fifo!Start
      BY <2>5, <3>2, <3>4, <3>5 DEF Acquire, Fifo!Start
    <3>7. QED  BY <3>6 DEF Fifo!Next
  <2>6. CASE Receive \/ TimerFlush \/ StopSeen \/ DrainReceive
    <3>1. Waiting' = Waiting
      BY <2>6, MovesKeepWaiting
    <3>2. running' = running /\ status' = status
      BY <2>6 DEF Receive, TimerFlush, StopSeen, DrainReceive, Flush
    <3>3. QED  BY <3>1, <3>2 DEF Fifo!vars
  <2>7. CASE UNCHANGED jobVars
    BY <2>7 DEF Fifo!vars, Waiting
  <2>8. (TimerExpire \/ TimerSend \/ DrainExit \/ StopCall \/ StopReturn
           \/ UNCHANGED vars) => UNCHANGED jobVars
    BY DEF TimerExpire, TimerSend, DrainExit, StopCall, StopReturn, vars
  <2>9. QED
    BY <2>1, <2>2, <2>3, <2>4, <2>5, <2>6, <2>7, <2>8
    DEF Next, Fifo!Next, Answered, Fifo!Answered
<1>3. QED  BY <1>1, <1>2, InvariantHolds, PTL DEF Spec, ImplementsFifo, Fifo!Spec

\* Line, the instance that brings FifoServiceProofs' theorems, specifies the
\* same behaviours as Fifo, the instance Scheduler refines.
LEMMA SameLine == Line!JobsAssumption /\ Line!KnobsAssumption /\ (Fifo!Spec => Line!Spec)
<1>1. \A S : /\ Line!IsFiniteSet(S) = IsFiniteSet(S)
             /\ Fifo!Cardinality(S) = Line!Cardinality(S)
  BY DEF Line!IsFiniteSet, IsFiniteSet, Fifo!Cardinality, Line!Cardinality
<1>2. Line!JobsAssumption /\ Line!KnobsAssumption
  BY <1>1, JobsAssumption, KnobsAssumption
  DEF Line!JobsAssumption, Line!KnobsAssumption
<1>3. Fifo!Init => Line!Init
  BY DEF Fifo!Init, Line!Init
<1>4. [Fifo!Next]_Fifo!vars => [Line!Next]_Line!vars
  BY <1>1
  DEF Fifo!Next, Fifo!vars, Fifo!Accept, Fifo!Reject, Fifo!Release, Fifo!Start,
      Fifo!Finish, Fifo!Answered, Line!Next, Line!vars, Line!Accept,
      Line!Reject, Line!Release, Line!Start, Line!Finish, Line!Answered
<1>5. QED  BY <1>2, <1>3, <1>4, PTL DEF Fifo!Spec, Line!Spec

\* No job is lost or doubled between the lists: the line's theorem, through
\* the refinement.
THEOREM JobsExactlyOnce == Spec => []ExactlyOnce
<1>1. Line!Spec => []Line!ExactlyOnce
  BY SameLine, Line!JobsExactlyOnce, PTL
<1>2. Line!ExactlyOnce => ExactlyOnce
  BY DEF ExactlyOnce, Fifo!ExactlyOnce, Line!ExactlyOnce, Fifo!IsInjective,
         Line!IsInjective, Fifo!Range, Line!Range, Fifo!Outstanding,
         Line!Outstanding, Fifo!Answered, Line!Answered
<1>3. QED  BY <1>1, <1>2, SameLine, ImplementsLine, PTL DEF ImplementsFifo

\* The jobs the scheduler holds are bounded: the line's theorem, through the
\* refinement.
THEOREM OutstandingBounded == Spec => []OutstandingBound
<1>1. Line!Spec => []Line!OutstandingBound
  BY SameLine, Line!OutstandingBounded, PTL
<1>2. Line!OutstandingBound => OutstandingBound
  <2>1. Fifo!Outstanding = Line!Outstanding
    BY DEF Fifo!Outstanding, Line!Outstanding, Fifo!Range, Line!Range
  <2>2. \A S : Fifo!Cardinality(S) = Line!Cardinality(S)
    BY DEF Fifo!Cardinality, Line!Cardinality
  <2>3. QED
    BY <2>1, <2>2
    DEF OutstandingBound, Fifo!OutstandingBound, Line!OutstandingBound
<1>3. QED  BY <1>1, <1>2, SameLine, ImplementsLine, PTL DEF ImplementsFifo
=============================================================================
