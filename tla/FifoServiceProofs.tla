------------------------- MODULE FifoServiceProofs -------------------------
(***************************************************************************)
(* Proofs about the first come, first served line of FifoService, for any  *)
(* set of jobs and any positive capacities.                                *)
(***************************************************************************)
EXTENDS FifoService, SequenceTheorems, FiniteSetTheorems, TLAPS

\* Serving the head of a line leaves the tail, whose members are the others.
LEMMA TailLemma ==
    ASSUME NEW S, NEW s \in Seq(S), s # <<>>
    PROVE  /\ Head(s) \in Range(s)
           /\ Range(s) = Range(Tail(s)) \cup {Head(s)}
           /\ IsInjective(s) => IsInjective(Tail(s)) /\ Head(s) \notin Range(Tail(s))
<1>1. /\ Tail(s) \in Seq(S) /\ Len(Tail(s)) = Len(s) - 1
      /\ \A i \in 1..Len(Tail(s)) : Tail(s)[i] = s[i+1]
  BY HeadTailProperties
<1>2. Len(s) \in Nat \ {0} /\ DOMAIN s = 1..Len(s)
  BY EmptySeq, LenProperties
<1>3. DOMAIN Tail(s) = 1..(Len(s) - 1)
  BY <1>1, LenProperties
<1>4. Head(s) = s[1]
  OBVIOUS
<1>5. Head(s) \in Range(s)
  BY <1>2, <1>4 DEF Range
<1>6. ASSUME NEW i \in DOMAIN s
      PROVE  i = 1 \/ (i - 1 \in DOMAIN Tail(s) /\ Tail(s)[i-1] = s[i])
  BY <1>1, <1>2, <1>3
<1>7. Range(s) \subseteq Range(Tail(s)) \cup {Head(s)}
  BY <1>4, <1>6 DEF Range
<1>8. Range(Tail(s)) \subseteq Range(s)
  <2>1. ASSUME NEW i \in DOMAIN Tail(s)
        PROVE  i + 1 \in DOMAIN s /\ Tail(s)[i] = s[i+1]
    BY <1>1, <1>2, <1>3
  <2>2. QED  BY <2>1 DEF Range
<1>9. ASSUME IsInjective(s)
      PROVE  IsInjective(Tail(s)) /\ Head(s) \notin Range(Tail(s))
  <2>1. ASSUME NEW i \in DOMAIN Tail(s)
        PROVE  i \in Nat /\ i >= 1 /\ i + 1 \in DOMAIN s /\ Tail(s)[i] = s[i+1]
    BY <1>1, <1>2, <1>3
  <2>2. ASSUME NEW i \in DOMAIN Tail(s), NEW k \in DOMAIN Tail(s),
               Tail(s)[i] = Tail(s)[k]
        PROVE  i = k
    <3>1. i + 1 = k + 1
      BY <1>9, <2>1, <2>2 DEF IsInjective
    <3>2. QED  BY <3>1, <2>1
  <2>3. ASSUME NEW i \in DOMAIN Tail(s), Tail(s)[i] = Head(s)
        PROVE  FALSE
    <3>1. 1 \in DOMAIN s
      BY <1>2
    <3>2. i + 1 = 1
      BY <1>9, <1>4, <2>1, <2>3, <3>1 DEF IsInjective
    <3>3. QED  BY <3>2, <2>1
  <2>4. QED  BY <2>2, <2>3 DEF IsInjective, Range
<1>10. QED  BY <1>5, <1>7, <1>8, <1>9

\* A job that joins the line is its last member; it joins a line without it.
LEMMA AppendLemma ==
    ASSUME NEW S, NEW s \in Seq(S), NEW e \in S
    PROVE  /\ Range(Append(s, e)) = Range(s) \cup {e}
           /\ IsInjective(s) /\ e \notin Range(s) => IsInjective(Append(s, e))
<1> DEFINE t == Append(s, e)
<1>1. /\ t \in Seq(S) /\ Len(t) = Len(s) + 1
      /\ \A i \in 1..Len(s) : t[i] = s[i]
      /\ t[Len(s)+1] = e
  BY AppendProperties
<1>2. Len(s) \in Nat /\ DOMAIN s = 1..Len(s) /\ DOMAIN t = 1..(Len(s)+1)
  BY <1>1, LenProperties
<1> HIDE DEF t
<1>3. ASSUME NEW i \in DOMAIN t
      PROVE  (i \in DOMAIN s /\ t[i] = s[i]) \/ (i = Len(s) + 1 /\ t[i] = e)
  BY <1>1, <1>2
<1>4. \A i \in DOMAIN s : i \in DOMAIN t /\ t[i] = s[i]
  BY <1>1, <1>2
<1>5. Len(s) + 1 \in DOMAIN t
  BY <1>2
<1>6. Range(t) = Range(s) \cup {e}
  BY <1>1, <1>3, <1>4, <1>5 DEF Range
<1>7. ASSUME IsInjective(s), e \notin Range(s)
      PROVE  IsInjective(t)
  <2>1. SUFFICES ASSUME NEW i \in DOMAIN t, NEW k \in DOMAIN t, t[i] = t[k]
                 PROVE  i = k
    BY DEF IsInjective
  <2>2. \A m \in DOMAIN s : s[m] # e
    BY <1>7 DEF Range
  <2>3. QED  BY <1>3, <1>7, <2>1, <2>2 DEF IsInjective
<1>8. QED  BY <1>6, <1>7 DEF t

\* A line holds at most as many different jobs as it has places.
LEMMA RangeCardinality ==
    ASSUME NEW S, NEW s \in Seq(S)
    PROVE  IsFiniteSet(Range(s)) /\ Cardinality(Range(s)) <= Len(s)
<1>1. Len(s) \in Nat /\ DOMAIN s = 1..Len(s) /\ s \in [1..Len(s) -> S]
  BY LenProperties
<1>2. s \in Surjection(1..Len(s), Range(s))
  BY <1>1 DEF Surjection, Range
<1>3. IsFiniteSet(1..Len(s)) /\ Cardinality(1..Len(s)) = Len(s)
  BY <1>1, FS_Interval
<1>4. QED  BY <1>2, <1>3, FS_Surjection

\* Two finite sets together have at most the sum of their members.
LEMMA UnionBound ==
    ASSUME NEW A, NEW B, IsFiniteSet(A), IsFiniteSet(B), NEW a \in Nat, NEW b \in Nat,
           Cardinality(A) <= a, Cardinality(B) <= b
    PROVE  Cardinality(A \cup B) <= a + b
<1>1. /\ IsFiniteSet(A \cap B)
      /\ Cardinality(A \cup B) = Cardinality(A) + Cardinality(B) - Cardinality(A \cap B)
  BY FS_Union, FS_Intersection
<1>2. /\ Cardinality(A) \in Nat /\ Cardinality(B) \in Nat
      /\ Cardinality(A \cap B) \in Nat
  BY <1>1, FS_CardinalityType
<1>3. QED  BY <1>1, <1>2

-----------------------------------------------------------------------------

\* The line, the slots and the job states keep their types.
THEOREM TypeCorrect == Spec => []TypeOK
<1>1. Init => TypeOK
  BY DEF Init, TypeOK, Status
<1>2. TypeOK /\ [Next]_vars => TypeOK'
  <2> SUFFICES ASSUME TypeOK, [Next]_vars PROVE TypeOK'
    OBVIOUS
  <2> USE DEF TypeOK, Status, Answered
  <2>1. ASSUME NEW j \in Jobs, Accept(j) PROVE TypeOK'
    BY <2>1, AppendProperties DEF Accept
  <2>2. ASSUME NEW j \in Jobs, Reject(j) PROVE TypeOK'
    BY <2>2 DEF Reject
  <2>3. ASSUME NEW j \in Jobs, Release(j) PROVE TypeOK'
    BY <2>3 DEF Release
  <2>4. ASSUME NEW j \in Jobs, NEW outcome \in Answered, Finish(j, outcome)
        PROVE  TypeOK'
    BY <2>4 DEF Finish
  <2>5. CASE Start
    BY <2>5, HeadTailProperties DEF Start
  <2>6. CASE UNCHANGED vars
    BY <2>6 DEF vars
  <2>7. QED  BY <2>1, <2>2, <2>3, <2>4, <2>5, <2>6 DEF Next
<1>3. QED  BY <1>1, <1>2, PTL DEF Spec

-----------------------------------------------------------------------------

\* No accepted job is lost, started twice or answered before it started.
THEOREM JobsExactlyOnce == Spec => []ExactlyOnce
<1>1. Init => ExactlyOnce
  BY DEF Init, ExactlyOnce, IsInjective, Range, Outstanding
<1>2. TypeOK /\ ExactlyOnce /\ [Next]_vars => ExactlyOnce'
  <2> SUFFICES ASSUME TypeOK, ExactlyOnce, [Next]_vars PROVE ExactlyOnce'
    OBVIOUS
  <2> USE DEF ExactlyOnce, Outstanding, Answered
  <2>1. ASSUME NEW j \in Jobs, Accept(j) PROVE ExactlyOnce'
    <3>1. j \notin Range(backlog) /\ j \notin running
      BY <2>1 DEF Accept
    <3>2. /\ Range(backlog') = Range(backlog) \cup {j}
          /\ IsInjective(backlog')
      BY <2>1, <3>1, AppendLemma DEF Accept, TypeOK
    <3>3. running' = running /\ status' = [status EXCEPT ![j] = "accepted"]
      BY <2>1 DEF Accept
    <3>4. \A k \in Jobs : status'[k] = IF k = j THEN "accepted" ELSE status[k]
      BY <3>3 DEF TypeOK
    <3>5. Range(backlog) \subseteq Jobs /\ running \subseteq Jobs
      BY RangeOfSeq DEF TypeOK
    <3>6. QED  BY <3>1, <3>2, <3>3, <3>4, <3>5
  <2>2. ASSUME NEW j \in Jobs, Reject(j) PROVE ExactlyOnce'
    <3>1. j \notin Range(backlog) /\ j \notin running
      BY <2>2 DEF Reject
    <3>2. \A k \in Jobs : status'[k] = IF k = j THEN "rejected" ELSE status[k]
      BY <2>2 DEF Reject, TypeOK
    <3>3. Range(backlog) \subseteq Jobs /\ running \subseteq Jobs
      BY RangeOfSeq DEF TypeOK
    <3>4. backlog' = backlog /\ running' = running
      BY <2>2 DEF Reject
    <3>5. QED  BY <3>1, <3>2, <3>3, <3>4
  <2>3. ASSUME NEW j \in Jobs, Release(j) PROVE ExactlyOnce'
    BY <2>3 DEF Release
  <2>4. ASSUME NEW j \in Jobs, NEW outcome \in Answered, Finish(j, outcome)
        PROVE  ExactlyOnce'
    <3>1. j \in running /\ j \notin Range(backlog)
      BY <2>4 DEF Finish
    <3>2. \A k \in Jobs : status'[k] = IF k = j THEN outcome ELSE status[k]
      BY <2>4 DEF Finish, TypeOK
    <3>3. Range(backlog) \subseteq Jobs /\ running \subseteq Jobs
      BY RangeOfSeq DEF TypeOK
    <3>4. backlog' = backlog /\ running' = running
      BY <2>4 DEF Finish
    <3>5. QED  BY <3>1, <3>2, <3>3, <3>4
  <2>5. CASE Start
    <3>1. /\ Head(backlog) \in Range(backlog)
          /\ Range(backlog) = Range(backlog') \cup {Head(backlog)}
          /\ IsInjective(backlog') /\ Head(backlog) \notin Range(backlog')
      BY <2>5, TailLemma DEF Start, TypeOK
    <3>2. running' = running \cup {Head(backlog)} /\ status' = status
      BY <2>5 DEF Start
    <3>3. QED  BY <3>1, <3>2
  <2>6. CASE UNCHANGED vars
    BY <2>6 DEF vars
  <2>7. QED  BY <2>1, <2>2, <2>3, <2>4, <2>5, <2>6 DEF Next
<1>3. QED  BY <1>1, <1>2, TypeCorrect, PTL DEF Spec

-----------------------------------------------------------------------------

\* The capacities hold, whatever is accepted, started and released when.
Capacities ==
    /\ Len(backlog) <= QueueCapacity + MaxBatchSize
    /\ Cardinality(running) <= Workers

\* Neither the line nor the worker slots ever hold more than they may.
THEOREM CapacitiesHold == Spec => []Capacities
<1> USE KnobsAssumption
<1>1. Init => Capacities
  BY FS_EmptySet DEF Init, Capacities
<1>2. TypeOK /\ Capacities /\ [Next]_vars => Capacities'
  <2> SUFFICES ASSUME TypeOK, Capacities, [Next]_vars PROVE Capacities'
    OBVIOUS
  <2>0. IsFiniteSet(running) /\ Cardinality(running) \in Nat /\ Len(backlog) \in Nat
    BY JobsAssumption, FS_Subset, FS_CardinalityType, LenProperties DEF TypeOK
  <2>1. ASSUME NEW j \in Jobs, Accept(j) PROVE Capacities'
    <3>1. Len(backlog') = Len(backlog) + 1 /\ running' = running
      BY <2>1, AppendProperties DEF Accept, TypeOK
    <3>2. Len(backlog) < QueueCapacity + MaxBatchSize
      BY <2>1 DEF Accept
    <3>3. QED  BY <2>0, <3>1, <3>2 DEF Capacities
  <2>2. ASSUME NEW j \in Jobs, Reject(j) PROVE Capacities'
    BY <2>2 DEF Reject, Capacities
  <2>3. ASSUME NEW j \in Jobs, Release(j) PROVE Capacities'
    <3>1. running' \in SUBSET running /\ backlog' = backlog
      BY <2>3 DEF Release
    <3>2. IsFiniteSet(running') /\ Cardinality(running') <= Cardinality(running)
      BY <2>0, <3>1, FS_Subset
    <3>3. Cardinality(running') \in Nat
      BY <3>2, FS_CardinalityType
    <3>4. QED  BY <2>0, <3>1, <3>2, <3>3 DEF Capacities
  <2>4. ASSUME NEW j \in Jobs, NEW outcome \in Answered, Finish(j, outcome)
        PROVE  Capacities'
    BY <2>4 DEF Finish, Capacities
  <2>5. CASE Start
    <3>1. Len(backlog') = Len(backlog) - 1
      BY <2>5, HeadTailProperties DEF Start, TypeOK
    <3>2. running' = running \cup {Head(backlog)}
      BY <2>5 DEF Start
    <3>3. /\ Cardinality(running') \in Nat
          /\ Cardinality(running') <= Cardinality(running) + 1
      <4>1. /\ IsFiniteSet(running')
            /\ Cardinality(running') = IF Head(backlog) \in running
                                        THEN Cardinality(running)
                                        ELSE Cardinality(running) + 1
        BY <2>0, <3>2, FS_AddElement
      <4>2. QED  BY <2>0, <4>1, FS_CardinalityType
    <3>4. Cardinality(running) < Workers
      BY <2>5 DEF Start
    <3>5. QED  BY <2>0, <3>1, <3>2, <3>3, <3>4 DEF Capacities
  <2>6. CASE UNCHANGED vars
    BY <2>6 DEF vars, Capacities
  <2>7. QED  BY <2>1, <2>2, <2>3, <2>4, <2>5, <2>6 DEF Next
<1>3. QED  BY <1>1, <1>2, TypeCorrect, PTL DEF Spec

\* The jobs the line and the slots hold together are bounded.
THEOREM OutstandingBounded == Spec => []OutstandingBound
<1>1. TypeOK /\ Capacities => OutstandingBound
  <2> SUFFICES ASSUME TypeOK, Capacities PROVE OutstandingBound
    OBVIOUS
  <2>1. IsFiniteSet(Range(backlog)) /\ Cardinality(Range(backlog)) <= Len(backlog)
    BY RangeCardinality DEF TypeOK
  <2>2. Len(backlog) \in Nat /\ Cardinality(Range(backlog)) \in Nat
    BY <2>1, LenProperties, FS_CardinalityType DEF TypeOK
  <2>3. Cardinality(Range(backlog)) <= QueueCapacity + MaxBatchSize
    BY <2>1, <2>2, KnobsAssumption DEF Capacities
  <2>4. IsFiniteSet(running) /\ Cardinality(running) <= Workers
    BY JobsAssumption, FS_Subset DEF TypeOK, Capacities
  <2>5. QueueCapacity + MaxBatchSize \in Nat /\ Workers \in Nat
    BY KnobsAssumption
  <2>6. QED  BY <2>1, <2>3, <2>4, <2>5, UnionBound DEF OutstandingBound, Outstanding
<1>2. QED  BY <1>1, TypeCorrect, CapacitiesHold, PTL
=============================================================================
