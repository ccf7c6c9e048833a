------------------------ MODULE CircuitBreakerProofs ------------------------
(***************************************************************************)
(* Proofs about the circuit breaker, for any number of keys and handlers   *)
(* and any threshold and cooldown.                                         *)
(***************************************************************************)
EXTENDS CircuitBreaker, FiniteSetTheorems, TLAPS

LEMMA CallersCount == Cardinality(Callers) \in Nat \ {0}
  BY CallersAssumption, FS_CardinalityType, FS_EmptySet

\* A key's running handlers are a finite set, no larger than Callers.
LEMMA RunningCount ==
    ASSUME NEW k
    PROVE  /\ IsFiniteSet(Running(k))
           /\ Cardinality(Running(k)) \in 0 .. Cardinality(Callers)
  <1>1. Running(k) \subseteq Callers
    BY DEF Running
  <1>2. QED
    BY <1>1, CallersAssumption, FS_Subset, FS_CardinalityType

\* A handler that starts running on k is one more of them; one that stops is
\* one less.
LEMMA RunningGrows ==
    ASSUME TypeOK, NEW c \in Callers, NEW k \in Keys, Admit(c, k)
    PROVE  \A j \in Keys :
               Running(j)' = IF j = k THEN Running(j) \cup {c} ELSE Running(j)
  <1>1. /\ call'[c] = [phase |-> "running", key |-> k]
        /\ call[c].phase # "running"
        /\ \A d \in Callers : d # c => call'[d] = call[d]
    BY DEF Admit, TypeOK
  <1>2. QED
    BY <1>1 DEF Running

LEMMA RunningKey ==
    ASSUME TypeOK, NEW c \in Callers, call[c].phase = "running"
    PROVE  call[c].key \in Keys
  BY DEF TypeOK, Call, NoCall

LEMMA RunningShrinks ==
    ASSUME TypeOK, NEW c \in Callers, call[c].phase = "running",
           call' = [call EXCEPT ![c] = NoCall],
           NEW k \in Keys, k = call[c].key
    PROVE  /\ \A j \in Keys : j # k => Running(j)' = Running(j)
           /\ Cardinality(Running(k)') = Cardinality(Running(k)) - 1
           /\ Cardinality(Running(k)) \in 1 .. Cardinality(Callers)
  <1>1. /\ call'[c].phase # "running"
        /\ \A d \in Callers : d # c => call'[d] = call[d]
    BY DEF TypeOK, NoCall
  <1>2. \A j \in Keys : j # k => Running(j)' = Running(j)
    BY <1>1 DEF Running
  <1>3. Running(k)' = Running(k) \ {c} /\ c \in Running(k)
    BY <1>1 DEF Running
  <1>4. Cardinality(Running(k) \ {c}) = Cardinality(Running(k)) - 1
    BY <1>3, RunningCount, FS_RemoveElement
  <1>5. Cardinality(Running(k)) # 0
    BY <1>3, RunningCount, FS_EmptySet
  <1>6. QED
    BY <1>2, <1>3, <1>4, <1>5, RunningCount

\* A handler that does not run on any key before or after changes no count.
LEMMA RunningKept ==
    ASSUME TypeOK, NEW c \in Callers,
           call[c].phase # "running", call'[c].phase # "running",
           \A d \in Callers : d # c => call'[d] = call[d]
    PROVE  \A j \in Keys : Running(j)' = Running(j)
  BY DEF Running

-----------------------------------------------------------------------------
\* What the breaker does to one entry of its map.
LEMMA AfterAllowState ==
    ASSUME NEW s \in State
    PROVE  /\ AfterAllow(s) \in State
           /\ ~IsOpen(AfterAllow(s))
           /\ AfterAllow(s).failures = IF IsOpen(s) THEN FailureThreshold - 1
                                                 ELSE s.failures
  BY FailureThresholdAssumption DEF AfterAllow, State, IsOpen, Unset

LEMMA AfterFailureState ==
    ASSUME NEW s \in State
    PROVE  /\ AfterFailure(s) \in State
           /\ AfterFailure(s).failures = s.failures + 1
           /\ IsOpen(AfterFailure(s)) <=> (IsOpen(s) \/ s.failures + 1 >= FailureThreshold)
  BY CooldownAssumption DEF AfterFailure, State, IsOpen, Unset

LEMMA ElapsedState ==
    ASSUME NEW s \in State
    PROVE  /\ Elapsed(s) \in State
           /\ Elapsed(s).failures = s.failures
           /\ (IsOpen(Elapsed(s)) <=> IsOpen(s))
  BY CooldownAssumption DEF Elapsed, State, IsOpen, Unset

-----------------------------------------------------------------------------
LEMMA InitIInv == Init => IInv
  <1> SUFFICES ASSUME Init PROVE IInv
    OBVIOUS
  <1>1. TypeOK
    BY FailureThresholdAssumption, CooldownAssumption DEF Init, TypeOK, State, Closed
  <1>2. TripJustified
    BY FailureThresholdAssumption DEF Init, TripJustified, Closed, IsOpen
  <1>3. OpenCounted
    BY FailureThresholdAssumption DEF Init, OpenCounted, Closed, IsOpen
  <1>4. QED
    BY <1>1, <1>2, <1>3 DEF IInv

LEMMA TypeStep == TypeOK /\ [Next]_vars => TypeOK'
  <1> SUFFICES ASSUME TypeOK, [Next]_vars
               PROVE  TypeOK'
    OBVIOUS
  <1> USE DEF TypeOK
  <1>1. ASSUME NEW c \in Callers, NEW k \in Keys, Admit(c, k)
        PROVE  TypeOK'
    BY <1>1, AfterAllowState DEF Admit, Call
  <1>2. ASSUME NEW c \in Callers, NEW k \in Keys, Reject(c, k)
        PROVE  TypeOK'
    BY <1>2 DEF Reject, Call
  <1>3. ASSUME NEW c \in Callers, RecordSuccess(c)
        PROVE  TypeOK'
    <2>1. Closed \in State
      BY CooldownAssumption DEF Closed, State
    <2>2. call[c].key \in Keys
      BY <1>3, RunningKey DEF RecordSuccess
    <2>3. QED
      BY <1>3, <2>1, <2>2, FailureThresholdAssumption DEF RecordSuccess
  <1>4. ASSUME NEW c \in Callers, RecordFailure(c)
        PROVE  TypeOK'
    <2>1. call[c].key \in Keys
      BY <1>4, RunningKey DEF RecordFailure
    <2>2. states' \in [Keys -> State]
      BY <1>4, <2>1, AfterFailureState DEF RecordFailure
    <2>3. streak' \in [Keys -> 0 .. FailureThreshold]
      BY <1>4, <2>1, FailureThresholdAssumption DEF RecordFailure
    <2>4. QED
      BY <1>4, <2>2, <2>3 DEF RecordFailure
  <1>5. ASSUME NEW c \in Callers, Return(c)
        PROVE  TypeOK'
    BY <1>5 DEF Return
  <1>6. CASE Tick
    BY <1>6, ElapsedState DEF Tick
  <1>7. CASE UNCHANGED vars
    BY <1>7 DEF vars
  <1>8. QED
    BY <1>1, <1>2, <1>3, <1>4, <1>5, <1>6, <1>7 DEF Next

LEMMA TripStep == IInv /\ [Next]_vars => TripJustified'
  <1> SUFFICES ASSUME IInv, [Next]_vars
               PROVE  TripJustified'
    OBVIOUS
  <1> USE DEF IInv
  <1>0. \A k \in Keys : states[k] \in State /\ streak[k] \in 0 .. FailureThreshold
    BY DEF TypeOK
  <1>1. ASSUME NEW c \in Callers, NEW k \in Keys, Admit(c, k)
        PROVE  TripJustified'
    <2>1. /\ states'[k] = AfterAllow(states[k])
          /\ \A j \in Keys : j # k => states'[j] = states[j]
          /\ streak' = streak
      BY <1>1 DEF Admit, TypeOK
    <2>2. QED
      BY <1>0, <2>1, AfterAllowState DEF TripJustified
  <1>2. ASSUME NEW c \in Callers, RecordSuccess(c)
        PROVE  TripJustified'
    <2> DEFINE k == call[c].key
    <2>1. k \in Keys
      BY <1>2, RunningKey DEF RecordSuccess
    <2>2. /\ states'[k] = Closed /\ streak'[k] = 0
          /\ \A j \in Keys : j # k => states'[j] = states[j] /\ streak'[j] = streak[j]
      BY <1>2, <2>1 DEF RecordSuccess, TypeOK
    <2>3. QED
      BY <2>2, FailureThresholdAssumption DEF TripJustified, Closed, IsOpen
  <1>3. ASSUME NEW c \in Callers, RecordFailure(c)
        PROVE  TripJustified'
    <2> DEFINE k == call[c].key
    <2>1. k \in Keys
      BY <1>3, RunningKey DEF RecordFailure
    <2>2. /\ states'[k] = AfterFailure(states[k])
          /\ streak'[k] = IF streak[k] < FailureThreshold THEN streak[k] + 1 ELSE streak[k]
          /\ \A j \in Keys : j # k => states'[j] = states[j] /\ streak'[j] = streak[j]
      BY <1>3, <2>1 DEF RecordFailure, TypeOK
    <2>3. /\ states'[k].failures = states[k].failures + 1
          /\ IsOpen(states'[k]) <=> (IsOpen(states[k]) \/ states[k].failures + 1 >= FailureThreshold)
      BY <1>0, <2>1, <2>2, AfterFailureState
    <2>4. \A j \in Keys \ {k} : states'[j] = states[j] /\ streak'[j] = streak[j]
      BY <2>2
    <2>5. IF IsOpen(states'[k])
          THEN streak'[k] = FailureThreshold
          ELSE states'[k].failures = IF streak'[k] < FailureThreshold
                                     THEN streak'[k] ELSE FailureThreshold - 1
      <3>1. CASE IsOpen(states[k])
        BY <1>0, <2>1, <2>2, <2>3, <3>1 DEF TripJustified
      <3>2. CASE ~IsOpen(states[k])
        BY <1>0, <2>1, <2>2, <2>3, <3>2, FailureThresholdAssumption DEF TripJustified
      <3>3. QED
        BY <3>1, <3>2
    <2>6. QED
      BY <2>4, <2>5 DEF TripJustified
  <1>4. ASSUME UNCHANGED streak,
               \A k \in Keys : /\ (IsOpen(states'[k]) <=> IsOpen(states[k]))
                               /\ states'[k].failures = states[k].failures
        PROVE  TripJustified'
    BY <1>4 DEF TripJustified
  <1>5. ASSUME NEW c \in Callers, Return(c) \/ \E k \in Keys : Reject(c, k)
        PROVE  TripJustified'
    BY <1>4, <1>5 DEF Return, Reject
  <1>6. CASE Tick
    BY <1>0, <1>4, <1>6, ElapsedState DEF Tick
  <1>7. CASE UNCHANGED vars
    BY <1>4, <1>7 DEF vars
  <1>8. QED
    BY <1>1, <1>2, <1>3, <1>5, <1>6, <1>7 DEF Next

LEMMA CountedStep == IInv /\ [Next]_vars => OpenCounted'
  <1> SUFFICES ASSUME IInv, [Next]_vars
               PROVE  OpenCounted'
    OBVIOUS
  <1> USE DEF IInv
  <1> DEFINE N == Cardinality(Callers)
             R(k) == Cardinality(Running(k))
  <1>0. /\ N \in Nat \ {0}
        /\ \A k \in Keys : states[k] \in State /\ states[k].failures \in Nat
    BY CallersCount DEF TypeOK, State
  <1>1. ASSUME NEW c \in Callers, NEW k \in Keys, Admit(c, k)
        PROVE  OpenCounted'
    <2>1. /\ states'[k] = AfterAllow(states[k])
          /\ \A j \in Keys : j # k => states'[j] = states[j]
      BY <1>1 DEF Admit, TypeOK
    <2>2. ~IsOpen(states'[k]) /\ states'[k].failures < FailureThreshold
      BY <1>0, <2>1, AfterAllowState, FailureThresholdAssumption DEF OpenCounted
    <2>3. \A j \in Keys : j # k => Running(j)' = Running(j)
      BY <1>1, RunningGrows
    <2>4. QED
      BY <2>1, <2>2, <2>3 DEF OpenCounted
  <1>2. ASSUME NEW c \in Callers, RecordSuccess(c), NEW k \in Keys, k = call[c].key
        PROVE  OpenCounted'
    <2>1. \A j \in Keys : j # k => Running(j)' = Running(j)
      BY <1>2, RunningShrinks DEF RecordSuccess
    <2>2. /\ states'[k] = Closed
          /\ \A j \in Keys : j # k => states'[j] = states[j]
      BY <1>2, <2>1 DEF RecordSuccess, TypeOK
    <2>3. QED
      BY <2>1, <2>2, FailureThresholdAssumption DEF OpenCounted, Closed, IsOpen
  <1>3. ASSUME NEW c \in Callers, RecordFailure(c), NEW k \in Keys, k = call[c].key
        PROVE  OpenCounted'
    <2>1. /\ \A j \in Keys : j # k => Running(j)' = Running(j)
          /\ Cardinality(Running(k)') = R(k) - 1
          /\ R(k) \in 1 .. N
      BY <1>3, RunningShrinks DEF RecordFailure
    <2>2. /\ states'[k] = AfterFailure(states[k])
          /\ \A j \in Keys : j # k => states'[j] = states[j]
      BY <1>3, <2>1 DEF RecordFailure, TypeOK
    <2>3. /\ states'[k].failures = states[k].failures + 1
          /\ IsOpen(states'[k]) <=> (IsOpen(states[k]) \/ states[k].failures + 1 >= FailureThreshold)
      BY <1>0, <2>1, <2>2, AfterFailureState
    <2>4. CASE IsOpen(states[k])
      <3>1. states[k].failures + R(k) <= FailureThreshold + N - 1
        BY <2>1, <2>4 DEF OpenCounted
      <3>2. IsOpen(states'[k]) /\ states'[k].failures + (R(k) - 1) <= FailureThreshold + N - 1
        BY <1>0, <2>1, <2>3, <2>4, <3>1, FailureThresholdAssumption
      <3>3. QED
        BY <2>1, <2>2, <3>2 DEF OpenCounted
    <2>5. CASE ~IsOpen(states[k])
      <3>1. states[k].failures < FailureThreshold
        BY <2>1, <2>5 DEF OpenCounted
      <3>2. IF IsOpen(states'[k])
            THEN states'[k].failures + (R(k) - 1) <= FailureThreshold + N - 1
            ELSE states'[k].failures < FailureThreshold
        BY <1>0, <2>1, <2>3, <2>5, <3>1, FailureThresholdAssumption
      <3>3. QED
        BY <2>1, <2>2, <3>2 DEF OpenCounted
    <2>6. QED
      BY <2>4, <2>5
  <1>4. ASSUME \A k \in Keys : /\ (IsOpen(states'[k]) <=> IsOpen(states[k]))
                               /\ states'[k].failures = states[k].failures
                               /\ Running(k)' = Running(k)
        PROVE  OpenCounted'
    BY <1>4 DEF OpenCounted
  <1>5. ASSUME NEW c \in Callers, Return(c) \/ \E k \in Keys : Reject(c, k)
        PROVE  OpenCounted'
    <2>1. /\ call[c].phase # "running" /\ call'[c].phase # "running"
          /\ \A d \in Callers : d # c => call'[d] = call[d]
          /\ states' = states
      BY <1>5 DEF Return, Reject, TypeOK, NoCall
    <2>2. QED
      BY <1>4, <2>1, RunningKept
  <1>6. CASE Tick
    <2>1. /\ \A k \in Keys : states'[k] = Elapsed(states[k])
          /\ call' = call
      BY <1>6 DEF Tick
    <2>2. QED
      BY <1>0, <1>4, <2>1, ElapsedState DEF Running
  <1>7. CASE UNCHANGED vars
    BY <1>4, <1>7 DEF vars, Running
  <1>8. ASSUME NEW c \in Callers, RecordSuccess(c) \/ RecordFailure(c)
        PROVE  call[c].key \in Keys
    BY <1>8, RunningKey DEF RecordSuccess, RecordFailure
  <1>9. QED
    BY <1>1, <1>2, <1>3, <1>5, <1>6, <1>7, <1>8 DEF Next

-----------------------------------------------------------------------------
\* The invariant of the breaker: types, the count of failures in a row, and
\* the room left for those still running.
THEOREM Inductive == Spec => []IInv
  <1>1. Init => IInv
    BY InitIInv
  <1>2. IInv /\ [Next]_vars => IInv'
    BY TypeStep, TripStep, CountedStep DEF IInv
  <1>3. QED
    BY <1>1, <1>2, PTL DEF Spec

\* The map's entries, the handlers and the history keep their types.
THEOREM TypeCorrect == Spec => []TypeOK
  <1>1. IInv => TypeOK
    BY DEF IInv
  <1>2. QED
    BY <1>1, Inductive, PTL

\* A circuit is open only after FailureThreshold failures in a row, whatever
\* order the reports of concurrent handlers arrive in.
THEOREM Justified == Spec => []TripJustified
  <1>1. IInv => TripJustified
    BY DEF IInv
  <1>2. QED
    BY <1>1, Inductive, PTL

\* The failures counted never pass FailureThreshold + N - 1.
THEOREM Bounded == Spec => []FailuresBounded
  <1>1. IInv => FailuresBounded
    <2> SUFFICES ASSUME IInv, NEW k \in Keys
                 PROVE  states[k].failures <= FailureThreshold + Cardinality(Callers) - 1
      BY DEF FailuresBounded
    <2>1. states[k].failures \in Nat
      BY DEF IInv, TypeOK, State
    <2>2. QED
      BY <2>1, RunningCount, CallersCount, FailureThresholdAssumption DEF IInv, OpenCounted
  <1>2. QED
    BY <1>1, Inductive, PTL
=============================================================================
