--------------------------- MODULE LimiterProofs ----------------------------
(***************************************************************************)
(* Proofs about the route limiter, for any number of keys, handlers,       *)
(* limits and window lengths.  Of the in-process limiter: type             *)
(* correctness, no early denial, and the bound on how far concurrent       *)
(* handlers can overshoot a window's limit.  Of the one that replicas      *)
(* share through Redis, for any number of replicas, lost answers, resends  *)
(* and restarts: the replicas' own limiters keep what RouteLimiter         *)
(* promises, Redis refuses nobody early, and the shared window is kept.    *)
(***************************************************************************)
EXTENDS RedisLimiter, FiniteSetTheorems, TLAPS

-----------------------------------------------------------------------------
(* The limiter of one process.                                             *)

\* Windows start at a tick that has been reached, and never go back as the
\* clock goes forward (time.Truncate is monotone).
LEMMA WindowStartType ==
    ASSUME NEW k \in Keys, NEW t \in Nat
    PROVE  WindowStart(k, t) \in 0 .. t
  BY WindowAssumption DEF WindowStart

LEMMA WindowStartMonotone ==
    ASSUME NEW k \in Keys, NEW t \in Nat, NEW u \in Nat, t <= u
    PROVE  WindowStart(k, t) <= WindowStart(k, u)
  <1>1. Window[k] \in Nat \ {0}
    BY WindowAssumption
  <1>2. ASSUME NEW m \in Nat \ {0}
        PROVE  t - (t % m) <= u - (u % m)
    OBVIOUS
  <1>3. QED
    BY <1>1, <1>2 DEF WindowStart

LEMMA CallersCount == Cardinality(Callers) \in Nat \ {0}
  BY CallersAssumption, FS_CardinalityType, FS_EmptySet

\* Counting callers: a set of callers is finite and no larger than Callers,
\* strictly smaller when somebody is missing, and loses one with a member.
LEMMA CountSubset ==
    ASSUME NEW S, S \subseteq Callers
    PROVE  /\ IsFiniteSet(S)
           /\ Cardinality(S) \in 0 .. Cardinality(Callers)
  BY CallersAssumption, FS_Subset, FS_CardinalityType

LEMMA CountMissing ==
    ASSUME NEW S, S \subseteq Callers, NEW c \in Callers, c \notin S
    PROVE  Cardinality(S) <= Cardinality(Callers) - 1
  <1>1. S \subseteq Callers \ {c}
    OBVIOUS
  <1>2. /\ IsFiniteSet(Callers \ {c})
        /\ Cardinality(Callers \ {c}) = Cardinality(Callers) - 1
    BY CallersAssumption, FS_RemoveElement
  <1>3. QED
    BY <1>1, <1>2, FS_Subset

LEMMA CountRemoved ==
    ASSUME NEW S, S \subseteq Callers, NEW c \in S
    PROVE  Cardinality(S \ {c}) = Cardinality(S) - 1
  BY CountSubset, FS_RemoveElement

-----------------------------------------------------------------------------
LEMMA InitIInv == Init => IInv
  <1> SUFFICES ASSUME Init PROVE IInv
    OBVIOUS
  <1> USE DEF Init
  <1>1. TypeOK
    BY MaxNowAssumption DEF TypeOK, Ticks, Bucket, Call, NoCall
  <1>2. \A k \in Keys : CurrentWindow(k) = 0
    <2>1. \A k \in Keys : Clock(k) = 0
      BY ClocksAssumption DEF Clock
    <2>2. \A k \in Keys : WindowStart(k, 0) = 0
      BY WindowStartType
    <2>3. QED
      BY <2>1, <2>2 DEF CurrentWindow
  <1>3. StartsReached
    BY <1>2 DEF StartsReached, NoCall, NoWindow
  <1>4. BucketCounted
    BY LimitAssumption DEF BucketCounted, Governed, NoWindow, Ticks
  <1>5. CurrentBounded
    BY <1>2, MaxNowAssumption DEF CurrentBounded, RunningOK, Governed, Ticks
  <1>6. PastBounded
    BY <1>2 DEF PastBounded, Governed, Ticks
  <1>7. QED
    BY <1>1, <1>3, <1>4, <1>5, <1>6 DEF IInv

-----------------------------------------------------------------------------
\* What is known of the clock and of a caller on its way to the mutex.
LEMMA ClockFacts ==
    ASSUME TypeOK, NEW k \in Keys
    PROVE  /\ Clock(k) \in Nat
           /\ Clock(k) \in Ticks
           /\ CurrentWindow(k) \in 0 .. Clock(k)
           /\ CurrentWindow(k) \in Ticks
  <1>1. Clock(k) \in Ticks
    BY ClocksAssumption DEF TypeOK, Clock
  <1>2. Clock(k) \in Nat
    BY <1>1 DEF Ticks
  <1>3. CurrentWindow(k) \in 0 .. Clock(k)
    BY <1>2, WindowStartType DEF CurrentWindow
  <1>4. QED
    BY <1>1, <1>2, <1>3, MaxNowAssumption DEF Ticks

\* A tick of one clock, as any of them is seen.
LEMMA TickFacts ==
    ASSUME TypeOK, NEW r \in Clocks, Tick(r), NEW k \in Keys
    PROVE  /\ Clock(k)' = Clock(k) \/ Clock(k)' = Clock(k) + 1
           /\ Clock(k)' \in Ticks
           /\ Clock(k) \in Nat /\ Clock(k)' \in Nat
           /\ CurrentWindow(k) <= CurrentWindow(k)'
           /\ CurrentWindow(k)' \in Ticks
           /\ CurrentWindow(k)' \in Nat
  <1>1. Clock(k) \in Ticks /\ Clock(k) \in Nat
    BY ClockFacts
  <1>2. now[r] \in Ticks /\ now[r] < MaxNow /\ now' = [now EXCEPT ![r] = now[r] + 1]
    BY DEF Tick, TypeOK
  <1>3. now[r] + 1 \in Ticks
    BY <1>2, MaxNowAssumption DEF Ticks
  <1>4. Clock(k)' = Clock(k) \/ Clock(k)' = Clock(k) + 1
    BY <1>2, ClocksAssumption DEF TypeOK, Clock
  <1>5. Clock(k)' \in Ticks
    BY <1>1, <1>2, <1>3, ClocksAssumption DEF TypeOK, Clock
  <1>6. Clock(k)' \in Nat /\ Clock(k) <= Clock(k)'
    BY <1>1, <1>4
  <1>7. WindowStart(k, Clock(k)) <= WindowStart(k, Clock(k)')
    BY <1>1, <1>6, WindowStartMonotone
  <1>8. CurrentWindow(k)' = WindowStart(k, Clock(k)')
    BY DEF CurrentWindow, WindowStart
  <1>9. CurrentWindow(k)' \in 0 .. Clock(k)'
    BY <1>6, <1>8, WindowStartType
  <1>10. CurrentWindow(k)' \in Ticks /\ CurrentWindow(k)' \in Nat
    BY <1>5, <1>6, <1>9, MaxNowAssumption DEF Ticks
  <1>11. QED
    BY <1>1, <1>4, <1>5, <1>6, <1>7, <1>8, <1>10 DEF CurrentWindow

LEMMA ClockedFacts ==
    ASSUME TypeOK, StartsReached, NEW c \in Callers, call[c].phase = "clocked"
    PROVE  /\ call[c] \in Call
           /\ call[c].key \in Governed
           /\ call[c].key \in Keys
           /\ call[c].start \in 0 .. CurrentWindow(call[c].key)
           /\ call[c].start \in Ticks
  <1>1. call[c] \in Call
    BY DEF TypeOK, NoCall
  <1>2. call[c].key \in Governed /\ call[c].start \in 0 .. CurrentWindow(call[c].key)
    BY DEF StartsReached
  <1>3. call[c].key \in Keys
    BY <1>1 DEF Call
  <1>4. CurrentWindow(call[c].key) \in Ticks
    BY <1>3, ClockFacts
  <1>5. QED
    BY <1>1, <1>2, <1>3, <1>4, MaxNowAssumption DEF Ticks

\* The sets the counts are taken of.
LEMMA CountTypes ==
    ASSUME NEW k, NEW w
    PROVE  /\ Stale(k, w) \subseteq Callers
           /\ Holding(k, w) \subseteq Callers
           /\ Cardinality(Stale(k, w)) \in 0 .. Cardinality(Callers)
           /\ Cardinality(Holding(k, w)) \in 0 .. Cardinality(Callers)
  BY CountSubset DEF Stale, Holding

\* Multiplying out a limit.
LEMMA Multiply ==
    ASSUME NEW l \in Nat, NEW n \in Int
    PROVE  /\ l * n \in Int
           /\ l * (n + 1) = l * n + l
           /\ n >= 0 => l * n >= 0
  OBVIOUS

LEMMA Product ==
    ASSUME NEW l \in Nat, NEW n \in Nat
    PROVE  l * n \in Nat
  BY Multiply

LEMMA AndOnce ==
    ASSUME NEW l \in Nat, NEW n \in Nat
    PROVE  l * (n + 1) = l * n + l
  BY Multiply

LEMMA OneMore ==
    ASSUME NEW l \in Nat, NEW n \in Nat
    PROVE  (n + 1) * l = n * l + l
  OBVIOUS

LEMMA TypeStep == TypeOK /\ StartsReached /\ [Next]_vars => TypeOK'
  <1> SUFFICES ASSUME TypeOK, StartsReached, [Next]_vars
               PROVE  TypeOK'
    OBVIOUS
  <1> USE DEF TypeOK
  <1>1. ASSUME NEW c \in Callers, NEW k \in Keys, AllowUngoverned(c, k)
        PROVE  TypeOK'
    BY <1>1 DEF AllowUngoverned, Call, Phases
  <1>2. ASSUME NEW c \in Callers, NEW k \in Keys, ReadClock(c, k)
        PROVE  TypeOK'
    BY <1>2, ClockFacts DEF ReadClock, Call, Phases, CurrentWindow
  <1>3. ASSUME NEW c \in Callers, Admit(c)
        PROVE  TypeOK'
    <2> DEFINE k == call[c].key
               w == call[c].start
    <2>1. call[c] \in Call /\ k \in Keys /\ w \in Ticks
      BY <1>3, ClockedFacts DEF Admit
    <2>2. bucket[k] \in Bucket
      BY <2>1
    <2>3. Current(bucket[k], w) \in Bucket
      BY <2>1, <2>2 DEF Current, Fresh, Bucket
    <2>4. bucket' \in [Keys -> Bucket]
      BY <1>3, <2>1, <2>3 DEF Admit, Bucket
    <2>5. admitted' \in [Keys -> [Ticks -> Nat]]
      BY <1>3, <2>1 DEF Admit
    <2>6. call' \in [Callers -> {NoCall} \cup Call]
      BY <1>3, <2>1 DEF Admit, Call, Phases
    <2>7. QED
      BY <1>3, <2>4, <2>5, <2>6 DEF Admit
  <1>4. ASSUME NEW c \in Callers, Deny(c)
        PROVE  TypeOK'
    <2> DEFINE k == call[c].key
               w == call[c].start
    <2>1. call[c] \in Call /\ k \in Keys /\ w \in Ticks
      BY <1>4, ClockedFacts DEF Deny
    <2>2. Current(bucket[k], w) \in Bucket
      BY <2>1 DEF Current, Fresh, Bucket
    <2>3. bucket' \in [Keys -> Bucket]
      BY <1>4, <2>1, <2>2 DEF Deny
    <2>4. call' \in [Callers -> {NoCall} \cup Call]
      BY <1>4, <2>1 DEF Deny, Call, Phases
    <2>5. QED
      BY <1>4, <2>3, <2>4 DEF Deny
  <1>5. ASSUME NEW c \in Callers, Finish(c)
        PROVE  TypeOK'
    BY <1>5 DEF Finish
  <1>6. ASSUME NEW r \in Clocks, Tick(r)
        PROVE  TypeOK'
    BY <1>6, MaxNowAssumption DEF Tick, Ticks
  <1>7. CASE UNCHANGED vars
    BY <1>7 DEF vars
  <1>8. QED
    BY <1>1, <1>2, <1>3, <1>4, <1>5, <1>6, <1>7 DEF Next

\* A denial changes no bucket: the one it saw was full, so it was of its window.
LEMMA DenyKeepsBuckets ==
    ASSUME TypeOK, StartsReached, NEW c \in Callers, Deny(c)
    PROVE  /\ bucket' = bucket
           /\ bucket[call[c].key].start = call[c].start
           /\ bucket[call[c].key].count >= Limit[call[c].key]
  <1> DEFINE k == call[c].key
             w == call[c].start
  <1>1. k \in Governed /\ k \in Keys /\ w \in Ticks
    BY ClockedFacts DEF Deny
  <1>2. Limit[k] \in Nat /\ Limit[k] > 0
    BY <1>1, LimitAssumption DEF Governed
  <1>3. Current(bucket[k], w).count >= Limit[k]
    BY DEF Deny, Exhausted
  <1>4. bucket[k].start = w
    BY <1>2, <1>3 DEF Current, Fresh
  <1>5. bucket' = [bucket EXCEPT ![k] = bucket[k]]
    BY <1>4 DEF Deny, Current
  <1>6. bucket' = bucket
    BY <1>1, <1>5 DEF TypeOK
  <1>7. QED
    BY <1>3, <1>4, <1>6 DEF Current

\* An admission, spelled out.
LEMMA AdmitEffect ==
    ASSUME TypeOK, StartsReached, BucketCounted, NEW c \in Callers, Admit(c),
           NEW k \in Keys, NEW w \in Ticks,
           k = call[c].key, w = call[c].start
    PROVE  /\ k \in Governed
           /\ w \in 0 .. CurrentWindow(k)
           /\ bucket'[k].start = w
           /\ bucket'[k].count = CountIn(k, w) + 1
           /\ CountIn(k, w) < Limit[k]
           /\ CountIn(k, w) \in Nat
           /\ \A j \in Keys : j # k => bucket'[j] = bucket[j] /\ admitted'[j] = admitted[j]
           /\ admitted'[k][w] = admitted[k][w] + 1
           /\ \A x \in Ticks : x # w => admitted'[k][x] = admitted[k][x]
           /\ call' = [call EXCEPT ![c].phase = "admitted"]
           /\ now' = now
  <1>1. k \in Governed /\ w \in 0 .. CurrentWindow(k)
    BY ClockedFacts DEF Admit
  <1>2. bucket[k] \in Bucket
    BY DEF TypeOK
  <1>3. Current(bucket[k], w) = [start |-> w, count |-> CountIn(k, w)]
    BY <1>2 DEF Current, Fresh, CountIn, Bucket
  <1>4. ~ (CountIn(k, w) >= Limit[k])
    BY <1>3 DEF Admit, Exhausted
  <1>5. CountIn(k, w) \in Nat
    BY <1>2 DEF CountIn, Bucket
  <1>6. Limit[k] \in Nat
    BY LimitAssumption
  <1>7. /\ bucket' = [bucket EXCEPT ![k] = [start |-> w, count |-> CountIn(k, w) + 1]]
        /\ admitted' = [admitted EXCEPT ![k][w] = @ + 1]
        /\ call' = [call EXCEPT ![c].phase = "admitted"]
        /\ now' = now
    BY <1>3 DEF Admit
  <1>8. QED
    BY <1>1, <1>4, <1>5, <1>6, <1>7 DEF TypeOK

-----------------------------------------------------------------------------
\* A caller that decides leaves the sets it is counted in.
LEMMA LeaveCounts ==
    ASSUME TypeOK, NEW c \in Callers, call[c].phase = "clocked",
           NEW p \in {"admitted", "denied"},
           call' = [call EXCEPT ![c].phase = p],
           NEW k \in Keys, NEW w \in Ticks
    PROVE  /\ Stale(k, w)' = Stale(k, w) \ {c}
           /\ Holding(k, w)' = Holding(k, w) \ {c}
  <1>1. call[c] \in Call
    BY DEF TypeOK, NoCall
  <1>2. /\ call'[c].phase = p
        /\ \A d \in Callers : d # c => call'[d] = call[d]
    BY <1>1 DEF TypeOK, Call
  <1>3. QED
    BY <1>2 DEF Stale, Holding

\* One that reads the clock joins only the holders of the running window.
LEMMA ReadCounts ==
    ASSUME TypeOK, NEW c \in Callers, NEW j \in Keys, ReadClock(c, j),
           NEW k \in Keys, NEW w \in Ticks
    PROVE  /\ w <= CurrentWindow(k) => Stale(k, w)' = Stale(k, w)
           /\ w < CurrentWindow(k) => Holding(k, w)' = Holding(k, w)
  <1>1. /\ call'[c] = [phase |-> "clocked", key |-> j, start |-> CurrentWindow(j)]
        /\ \A d \in Callers : d # c => call'[d] = call[d]
    BY DEF ReadClock, TypeOK, CurrentWindow
  <1>2. call[c].phase # "clocked"
    BY DEF ReadClock
  <1>3. CurrentWindow(j) \in Ticks /\ CurrentWindow(k) \in Ticks
    BY ClockFacts
  <1>4. QED
    BY <1>1, <1>2, <1>3 DEF Stale, Holding, Ticks

\* A handler outside Allow, before or after, is not counted anywhere.
LEMMA OutsideCounts ==
    ASSUME TypeOK, NEW c \in Callers,
           call[c].phase # "clocked", call'[c].phase # "clocked",
           \A d \in Callers : d # c => call'[d] = call[d],
           NEW k \in Keys, NEW w \in Ticks
    PROVE  /\ Stale(k, w)' = Stale(k, w)
           /\ Holding(k, w)' = Holding(k, w)
  BY DEF Stale, Holding

\* Steps that move no bucket and no clock, and add nobody to a count.
LEMMA QuietStep ==
    ASSUME TypeOK, CurrentBounded, PastBounded,
           UNCHANGED <<now, bucket, admitted>>,
           \A k \in Keys, w \in Ticks :
               /\ w <= CurrentWindow(k) => Cardinality(Stale(k, w))' <= Cardinality(Stale(k, w))
               /\ w < CurrentWindow(k) => Cardinality(Holding(k, w))' <= Cardinality(Holding(k, w))
    PROVE  CurrentBounded' /\ PastBounded'
  <1> DEFINE N == Cardinality(Callers)
  <1>0. N \in Nat \ {0}
    BY CallersCount
  <1>a. \A k \in Governed : k \in Keys /\ Limit[k] \in Nat
    BY LimitAssumption DEF Governed
  <1>b. \A k \in Keys : CurrentWindow(k)' = CurrentWindow(k)
    BY DEF CurrentWindow, Clock
  <1>1. ASSUME NEW k \in Governed, NEW w \in Ticks, w = CurrentWindow(k)
        PROVE  RunningOK(k, w)'
    <2> DEFINE s == Cardinality(Stale(k, w))
    <2>1. RunningOK(k, w)
      BY <1>1 DEF CurrentBounded
    <2>2. CountIn(k, w)' = CountIn(k, w) /\ admitted'[k][w] = admitted[k][w]
      BY DEF CountIn
    <2>3. s \in 0 .. N /\ s' \in 0 .. N /\ s' <= s
      <3>1. s \in 0 .. N
        BY CountTypes
      <3>2. s' \in 0 .. N
        BY CountSubset DEF Stale
      <3>3. s' <= s
        BY <1>1, <1>a DEF Ticks
      <3>4. QED
        BY <3>1, <3>2, <3>3
    <2>4. Limit[k] * (N - 1 - s) <= Limit[k] * (N - 1 - s')
      BY <1>0, <1>a, <2>3
    <2>5. CountIn(k, w) \in Nat /\ admitted[k][w] \in Nat
      BY <1>a DEF TypeOK, CountIn, Bucket
    <2>6. Limit[k] * (N - 1 - s) \in Int /\ Limit[k] * (N - 1 - s') \in Int
      BY <1>0, <1>a, <2>3
    <2> HIDE DEF s
    <2>7. QED
      BY <2>1, <2>2, <2>4, <2>5, <2>6 DEF RunningOK, s
  <1>2. ASSUME NEW k \in Governed, NEW w \in Ticks, w < CurrentWindow(k)
        PROVE  LeftOK(k, w)'
    <2> DEFINE q == Cardinality(Holding(k, w))
    <2>1. LeftOK(k, w)
      BY <1>2 DEF PastBounded
    <2>2. CountIn(k, w)' = CountIn(k, w) /\ admitted'[k][w] = admitted[k][w]
      BY DEF CountIn
    <2>3. q \in 0 .. N /\ q' \in 0 .. N /\ q' <= q
      <3>1. q \in 0 .. N
        BY CountTypes
      <3>2. q' \in 0 .. N
        BY CountSubset DEF Holding
      <3>3. q' <= q
        BY <1>2, <1>a
      <3>4. QED
        BY <3>1, <3>2, <3>3
    <2>4. admitted[k][w] \in Nat /\ Limit[k] * N \in Int
      BY <1>0, <1>a DEF TypeOK
    <2>5. QED
      BY <1>0, <2>1, <2>2, <2>3, <2>4 DEF LeftOK
  <1>3. CurrentBounded'
    BY <1>1, <1>a, <1>b, ClockFacts DEF CurrentBounded
  <1>4. PastBounded'
    BY <1>2, <1>a, <1>b DEF PastBounded
  <1>5. QED
    BY <1>3, <1>4

-----------------------------------------------------------------------------
LEMMA StartsStep ==
    TypeOK /\ StartsReached /\ BucketCounted /\ [Next]_vars => StartsReached'
  <1> SUFFICES ASSUME TypeOK, StartsReached, BucketCounted, [Next]_vars
               PROVE  StartsReached'
    OBVIOUS
  <1> USE DEF StartsReached
  <1>1. ASSUME NEW c \in Callers, NEW k \in Keys, AllowUngoverned(c, k)
        PROVE  StartsReached'
    BY <1>1 DEF AllowUngoverned, TypeOK, CurrentWindow, Clock
  <1>2. ASSUME NEW c \in Callers, NEW k \in Keys, ReadClock(c, k)
        PROVE  StartsReached'
    <2>1. /\ call'[c] = [phase |-> "clocked", key |-> k, start |-> CurrentWindow(k)]
          /\ \A d \in Callers : d # c => call'[d] = call[d]
          /\ k \in Governed
          /\ UNCHANGED <<now, bucket, admitted>>
      BY <1>2 DEF ReadClock, TypeOK, CurrentWindow
    <2>2. CurrentWindow(k) \in 0 .. CurrentWindow(k)
      BY ClockFacts
    <2>3. QED
      BY <2>1, <2>2 DEF CurrentWindow, Clock
  <1>3. ASSUME NEW c \in Callers, Admit(c)
        PROVE  StartsReached'
    <2> DEFINE k == call[c].key
               w == call[c].start
    <2>1. call[c] \in Call /\ k \in Keys /\ w \in Ticks
      BY <1>3, ClockedFacts DEF Admit
    <2>2. /\ w \in 0 .. CurrentWindow(k)
          /\ bucket'[k].start = w
          /\ \A j \in Keys : j # k => bucket'[j] = bucket[j] /\ admitted'[j] = admitted[j]
          /\ \A x \in Ticks : x # w => admitted'[k][x] = admitted[k][x]
          /\ call' = [call EXCEPT ![c].phase = "admitted"]
          /\ now' = now
      BY <1>3, <2>1, AdmitEffect
    <2>3. \A d \in Callers : call'[d].phase \in {"clocked", "denied"} => call'[d] = call[d]
      BY <2>1, <2>2 DEF TypeOK, Call
    <2>4. \A j \in Keys : CurrentWindow(j)' = CurrentWindow(j)
      BY <2>2 DEF CurrentWindow, Clock
    <2>5. \A d \in Callers :
             call'[d].phase \in {"clocked", "denied"} =>
                 /\ call'[d].key \in Governed
                 /\ call'[d].start \in 0 .. CurrentWindow(call[d].key)'
      BY <2>3, <2>4 DEF Governed
    <2>6. \A j \in Keys : bucket'[j].start <= CurrentWindow(j)'
      BY <2>1, <2>2, <2>4, ClockFacts
    <2>7. \A j \in Keys, x \in Ticks : x > CurrentWindow(j)' => admitted'[j][x] = 0
      BY <2>1, <2>2, <2>4, ClockFacts DEF Ticks
    <2>8. QED
      BY <2>5, <2>6, <2>7
  <1>4. ASSUME NEW c \in Callers, Deny(c)
        PROVE  StartsReached'
    <2>1. call[c] \in Call /\ call[c].key \in Governed
          /\ call[c].start \in 0 .. CurrentWindow(call[c].key)
      BY <1>4, ClockedFacts DEF Deny
    <2>2. bucket' = bucket /\ UNCHANGED <<now, admitted>>
          /\ call' = [call EXCEPT ![c].phase = "denied"]
      BY <1>4, DenyKeepsBuckets DEF Deny
    <2>3. /\ call'[c].key = call[c].key /\ call'[c].start = call[c].start
          /\ \A d \in Callers : d # c => call'[d] = call[d]
      BY <2>1, <2>2 DEF TypeOK, Call
    <2>4. \A j : CurrentWindow(j)' = CurrentWindow(j)
      BY <2>2 DEF CurrentWindow, Clock
    <2>5. QED
      BY <2>1, <2>2, <2>3, <2>4
  <1>5. ASSUME NEW c \in Callers, Finish(c)
        PROVE  StartsReached'
    BY <1>5 DEF Finish, TypeOK, CurrentWindow, Clock, NoCall
  <1>6. ASSUME NEW r \in Clocks, Tick(r)
        PROVE  StartsReached'
    <2>1. \A j \in Keys : CurrentWindow(j) <= CurrentWindow(j)' /\ CurrentWindow(j)' \in Nat
      BY <1>6, TickFacts
    <2>2. \A j \in Keys : CurrentWindow(j) \in Nat
      BY ClockFacts
    <2>3. UNCHANGED <<bucket, call, admitted>>
      BY <1>6 DEF Tick
    <2>4. \A j \in Keys : bucket[j].start \in Int
      BY DEF TypeOK, Bucket, Ticks, NoWindow
    <2>5. \A d \in Callers :
             call'[d].phase \in {"clocked", "denied"} =>
                 /\ call'[d].key \in Governed
                 /\ call'[d].start \in 0 .. CurrentWindow(call[d].key)'
      BY <2>1, <2>2, <2>3 DEF Governed
    <2>6. \A j \in Keys : bucket'[j].start <= CurrentWindow(j)'
      BY <2>1, <2>2, <2>3, <2>4
    <2>7. \A j \in Keys, x \in Ticks : x > CurrentWindow(j)' => admitted'[j][x] = 0
      BY <2>1, <2>2, <2>3 DEF Ticks
    <2>8. QED
      BY <2>5, <2>6, <2>7
  <1>7. CASE UNCHANGED vars
    BY <1>7 DEF vars, CurrentWindow, Clock
  <1>8. QED
    BY <1>1, <1>2, <1>3, <1>4, <1>5, <1>6, <1>7 DEF Next

LEMMA CountedStep ==
    TypeOK /\ StartsReached /\ BucketCounted /\ [Next]_vars => BucketCounted'
  <1> SUFFICES ASSUME TypeOK, StartsReached, BucketCounted, [Next]_vars
               PROVE  BucketCounted'
    OBVIOUS
  <1>1. ASSUME NEW c \in Callers, Admit(c)
        PROVE  BucketCounted'
    <2> DEFINE k == call[c].key
               w == call[c].start
    <2>1. k \in Keys /\ k \in Governed /\ w \in Ticks
      BY <1>1, ClockedFacts DEF Admit
    <2>2. /\ bucket'[k].start = w
          /\ bucket'[k].count = CountIn(k, w) + 1
          /\ CountIn(k, w) < Limit[k]
          /\ CountIn(k, w) \in Nat
          /\ \A j \in Keys : j # k => bucket'[j] = bucket[j] /\ admitted'[j] = admitted[j]
          /\ admitted'[k][w] = admitted[k][w] + 1
      BY <1>1, <2>1, AdmitEffect
    <2>3. CountIn(k, w) <= admitted[k][w] /\ admitted[k][w] \in Nat
      BY <2>1 DEF BucketCounted, CountIn, TypeOK
    <2>4. bucket'[k].count <= Limit[k] /\ bucket'[k].count <= admitted'[k][bucket'[k].start]
      BY <2>1, <2>2, <2>3, LimitAssumption
    <2>5. QED
      BY <2>1, <2>2, <2>4 DEF BucketCounted, Governed
  <1>2. CASE UNCHANGED <<bucket, admitted>>
    BY <1>2 DEF BucketCounted
  <1>3. ASSUME NEW c \in Callers, Deny(c)
        PROVE  UNCHANGED <<bucket, admitted>>
    BY <1>3, DenyKeepsBuckets DEF Deny
  <1>4. QED
    BY <1>1, <1>2, <1>3 DEF Next, AllowUngoverned, ReadClock, Finish, Tick, vars

-----------------------------------------------------------------------------
\* The types of what an admission deals with.
LEMMA AdmitFacts ==
    ASSUME IInv, NEW c \in Callers, Admit(c), NEW k \in Governed, NEW w \in Ticks
    PROVE  /\ Cardinality(Callers) \in Nat \ {0} /\ Limit[k] \in Nat /\ k \in Keys
           /\ call[c] \in Call /\ call[c].phase = "clocked"
           /\ call[c].key \in Keys /\ call[c].start \in Ticks
           /\ admitted[k][w] \in Nat /\ CountIn(k, w) \in 0 .. Limit[k]
  <1> USE DEF IInv
  <1>1. Limit[k] \in Nat /\ k \in Keys
    BY LimitAssumption DEF Governed
  <1>2. call[c].phase = "clocked"
    BY DEF Admit
  <1>3. call[c] \in Call /\ call[c].key \in Keys /\ call[c].start \in Ticks
    BY <1>2, ClockedFacts
  <1>4. admitted[k][w] \in Nat /\ bucket[k].count \in Nat
    BY <1>1 DEF TypeOK, Bucket
  <1>5. CountIn(k, w) \in 0 .. Limit[k]
    BY <1>1, <1>4 DEF CountIn, BucketCounted
  <1>6. QED
    BY <1>1, <1>2, <1>3, <1>4, <1>5, CallersCount

\* An admission, seen from the running window of any key.
LEMMA AdmitRunning ==
    ASSUME IInv, NEW c \in Callers, Admit(c),
           NEW k \in Governed, NEW w \in Ticks, w = CurrentWindow(k)
    PROVE  RunningOK(k, w)'
  <1> USE DEF IInv
  <1> DEFINE N == Cardinality(Callers)
             s == Cardinality(Stale(k, w))
             v == call[c].start
             l == Limit[k]
  <1>1. /\ N \in Nat \ {0} /\ l \in Nat /\ k \in Keys
        /\ call[c] \in Call /\ call[c].phase = "clocked"
        /\ call[c].key \in Keys /\ v \in Ticks
        /\ admitted[k][w] \in Nat /\ CountIn(k, w) \in 0 .. l
    BY AdmitFacts
  <1>2. s \in 0 .. N /\ s' \in 0 .. N
    BY CountTypes, CountSubset DEF Stale
  <1>3. Stale(k, w)' = Stale(k, w) \ {c}
    BY <1>1, LeaveCounts DEF Admit
  <1>4. RunningOK(k, w)
    BY DEF CurrentBounded
  <1>5. CASE call[c].key # k
    <2>1. bucket'[k] = bucket[k] /\ admitted'[k] = admitted[k]
      BY <1>1, <1>5, AdmitEffect
    <2>2. c \notin Stale(k, w)
      BY <1>5 DEF Stale
    <2>3. Stale(k, w)' = Stale(k, w)
      BY <1>3, <2>2
    <2>4. CountIn(k, w)' = CountIn(k, w)
      BY <2>1 DEF CountIn
    <2>5. QED
      BY <1>4, <2>1, <2>3, <2>4 DEF RunningOK
  <1>6. CASE call[c].key = k /\ v = w
    <2>1. /\ bucket'[k].start = w /\ bucket'[k].count = CountIn(k, w) + 1
          /\ admitted'[k][w] = admitted[k][w] + 1
      BY <1>1, <1>6, AdmitEffect
    <2>2. c \notin Stale(k, w)
      BY <1>1, <1>6 DEF Stale, Ticks
    <2>3. Stale(k, w)' = Stale(k, w) /\ s <= N - 1
      BY <1>3, <2>2, CountMissing, CountTypes
    <2>4. CountIn(k, w)' = CountIn(k, w) + 1
      BY <2>1 DEF CountIn
    <2>5. l * (N - 1 - s) \in Nat
      BY <1>1, <1>2, <2>3
    <2> HIDE DEF s, N, l
    <2>6. admitted'[k][w] <= l * (N - 1 - s) + CountIn(k, w)'
      BY <1>1, <1>4, <2>1, <2>4, <2>5 DEF RunningOK, l, N, s
    <2>7. QED
      BY <2>3, <2>6 DEF RunningOK, s, N, l
  <1>7. CASE call[c].key = k /\ v # w
    <2>1. /\ v \in 0 .. w
          /\ bucket'[k].start = v
          /\ admitted'[k][w] = admitted[k][w]
      BY <1>1, <1>7, AdmitEffect
    <2>2. c \in Stale(k, w)
      <3>1. v < w
        BY <1>7, <2>1 DEF Ticks
      <3>2. QED
        BY <1>1, <1>7, <3>1 DEF Stale
    <2>3. s' = s - 1
      BY <1>3, <2>2, CountRemoved, CountTypes
    <2>4. CountIn(k, w)' = 0
      BY <1>7, <2>1 DEF CountIn
    <2>5. l * (N - 1 - s') = l * (N - 1 - s) + l /\ l * (N - 1 - s) \in Int
      BY <1>1, <1>2, <2>3, Multiply
    <2> HIDE DEF s, N, l
    <2>6. admitted'[k][w] = 0 \/ admitted'[k][w] <= l * (N - 1 - s') + CountIn(k, w)'
      BY <1>1, <1>4, <2>1, <2>4, <2>5 DEF RunningOK, l, N, s
    <2>7. QED
      BY <2>6 DEF RunningOK, s, N, l
  <1>8. QED
    BY <1>5, <1>6, <1>7

\* An admission, seen from a window the clock has left.
LEMMA AdmitLeft ==
    ASSUME IInv, NEW c \in Callers, Admit(c),
           NEW k \in Governed, NEW w \in Ticks, w < CurrentWindow(k)
    PROVE  LeftOK(k, w)'
  <1> USE DEF IInv
  <1> DEFINE N == Cardinality(Callers)
             q == Cardinality(Holding(k, w))
             v == call[c].start
             l == Limit[k]
  <1>1. /\ N \in Nat \ {0} /\ l \in Nat /\ k \in Keys
        /\ call[c] \in Call /\ call[c].phase = "clocked"
        /\ call[c].key \in Keys /\ v \in Ticks
        /\ admitted[k][w] \in Nat /\ CountIn(k, w) \in 0 .. l
    BY AdmitFacts
  <1>2. q \in 0 .. N /\ q' \in 0 .. N
    BY CountTypes, CountSubset DEF Holding
  <1>3. Holding(k, w)' = Holding(k, w) \ {c}
    BY <1>1, LeaveCounts DEF Admit
  <1>4. LeftOK(k, w)
    BY DEF PastBounded
  <1>5. l * N \in Int /\ l * (N - 1) \in Int /\ l * N = l * (N - 1) + l
    BY <1>1, Multiply
  <1>6. CASE call[c].key # k
    <2>1. bucket'[k] = bucket[k] /\ admitted'[k] = admitted[k]
      BY <1>1, <1>6, AdmitEffect
    <2>2. c \notin Holding(k, w)
      BY <1>6 DEF Holding
    <2>3. Holding(k, w)' = Holding(k, w)
      BY <1>3, <2>2
    <2>4. CountIn(k, w)' = CountIn(k, w)
      BY <2>1 DEF CountIn
    <2>5. QED
      BY <1>4, <2>1, <2>3, <2>4 DEF LeftOK
  <1>7. CASE call[c].key = k /\ v = w
    <2>1. /\ bucket'[k].start = w /\ bucket'[k].count = CountIn(k, w) + 1
          /\ admitted'[k][w] = admitted[k][w] + 1
      BY <1>1, <1>7, AdmitEffect
    <2>2. c \in Holding(k, w)
      BY <1>1, <1>7 DEF Holding
    <2>3. q' = q - 1
      BY <1>3, <2>2, CountRemoved, CountTypes
    <2>4. CountIn(k, w)' = CountIn(k, w) + 1
      BY <2>1 DEF CountIn
    <2> HIDE DEF q, N, l
    <2>5. \/ admitted'[k][w] <= l * (N - 1) + CountIn(k, w)'
          \/ q' <= N - 1 /\ admitted'[k][w] <= l * N + (N - 1 - q')
      BY <1>1, <1>2, <1>4, <1>5, <2>1, <2>3, <2>4 DEF LeftOK, l, N, q
    <2>6. QED
      BY <2>5 DEF LeftOK, q, N, l
  <1>8. CASE call[c].key = k /\ v # w
    <2>1. bucket'[k].start = v /\ admitted'[k][w] = admitted[k][w]
      BY <1>1, <1>8, AdmitEffect
    <2>2. c \notin Holding(k, w)
      BY <1>8 DEF Holding
    <2>3. Holding(k, w)' = Holding(k, w) /\ q <= N - 1
      BY <1>3, <2>2, CountMissing, CountTypes
    <2> HIDE DEF q, N, l
    <2>4. admitted'[k][w] <= l * N + (N - 1 - q)
      BY <1>1, <1>2, <1>4, <1>5, <2>1, <2>3 DEF LeftOK, l, N, q
    <2>5. QED
      BY <2>3, <2>4 DEF LeftOK, q, N, l
  <1>9. QED
    BY <1>6, <1>7, <1>8

\* When the clock moves on, the window it leaves is as it was, and one it
\* enters is still empty.
LEMMA TickBounds ==
    ASSUME IInv, NEW r \in Clocks, Tick(r)
    PROVE  CurrentBounded' /\ PastBounded'
  <1> USE DEF IInv
  <1> DEFINE N == Cardinality(Callers)
  <1>1. N \in Nat \ {0} /\ \A k \in Governed : k \in Keys /\ Limit[k] \in Nat
    BY CallersCount, LimitAssumption DEF Governed
  <1>2. \A k \in Keys : CurrentWindow(k) <= CurrentWindow(k)'
    BY TickFacts
  <1>3. \A k \in Keys : CurrentWindow(k)' \in Ticks
    BY TickFacts
  <1>4. \A k, w : /\ Stale(k, w)' = Stale(k, w) /\ Holding(k, w)' = Holding(k, w)
                  /\ CountIn(k, w)' = CountIn(k, w)
    BY DEF Tick, Stale, Holding, CountIn
  <1>5. admitted' = admitted
    BY DEF Tick
  <1>6. ASSUME NEW k \in Governed, NEW w \in Ticks, w = CurrentWindow(k)'
        PROVE  RunningOK(k, w)'
    <2>1. CurrentWindow(k) \in Ticks /\ CurrentWindow(k) <= w
      BY <1>1, <1>2, <1>6, ClockFacts
    <2>2. CASE w = CurrentWindow(k)
      <3>1. RunningOK(k, w)
        BY <2>2 DEF CurrentBounded
      <3>2. QED
        BY <1>4, <1>5, <3>1 DEF RunningOK
    <2>3. CASE w > CurrentWindow(k)
      <3>1. admitted[k][w] = 0
        BY <1>1, <2>3 DEF StartsReached
      <3>2. QED
        BY <1>5, <3>1 DEF RunningOK
    <2>4. QED
      BY <2>1, <2>2, <2>3 DEF Ticks
  <1>7. ASSUME NEW k \in Governed, NEW w \in Ticks, w < CurrentWindow(k)'
        PROVE  LeftOK(k, w)'
    <2>0. CurrentWindow(k) \in Ticks /\ admitted[k][w] \in Nat /\ CountIn(k, w) \in Nat
      BY <1>1, ClockFacts DEF TypeOK, CountIn, Bucket
    <2>1. CASE w < CurrentWindow(k)
      <3>1. LeftOK(k, w)
        BY <2>1 DEF PastBounded
      <3>2. QED
        BY <1>4, <1>5, <3>1 DEF LeftOK
    <2>2. CASE w = CurrentWindow(k)
      <3> DEFINE s == Cardinality(Stale(k, w))
      <3>1. RunningOK(k, w)
        BY <2>2 DEF CurrentBounded
      <3>2. s \in 0 .. N
        BY CountTypes
      <3>3. /\ Limit[k] * (N - 1 - s) \in Int /\ Limit[k] * (N - 1) \in Nat
            /\ Limit[k] * (N - 1 - s) <= Limit[k] * (N - 1)
        BY <1>1, <3>2
      <3>4. admitted[k][w] <= Limit[k] * (N - 1) + CountIn(k, w)
        BY <2>0, <3>1, <3>3 DEF RunningOK
      <3>5. QED
        BY <1>4, <1>5, <3>4 DEF LeftOK
    <2>3. CASE w > CurrentWindow(k)
      <3>1. admitted[k][w] = 0
        BY <1>1, <2>3 DEF StartsReached
      <3>2. Limit[k] * (N - 1) \in Nat
        BY <1>1
      <3>3. QED
        BY <1>4, <1>5, <2>0, <3>1, <3>2 DEF LeftOK
    <2>4. QED
      BY <2>0, <2>1, <2>2, <2>3 DEF Ticks
  <1>8. CurrentBounded'
    BY <1>1, <1>3, <1>6 DEF CurrentBounded
  <1>9. PastBounded'
    BY <1>7 DEF PastBounded
  <1>10. QED
    BY <1>8, <1>9

LEMMA BoundsStep == IInv /\ [Next]_vars => CurrentBounded' /\ PastBounded'
  <1> SUFFICES ASSUME IInv, [Next]_vars
               PROVE  CurrentBounded' /\ PastBounded'
    OBVIOUS
  <1> USE DEF IInv
  <1>0. \A k \in Governed : k \in Keys
    BY DEF Governed
  <1>1. ASSUME NEW c \in Callers, Finish(c) \/ \E k \in Keys : AllowUngoverned(c, k)
        PROVE  CurrentBounded' /\ PastBounded'
    <2>1. /\ call[c].phase # "clocked" /\ call'[c].phase # "clocked"
          /\ \A d \in Callers : d # c => call'[d] = call[d]
          /\ UNCHANGED <<now, bucket, admitted>>
      BY <1>1 DEF AllowUngoverned, Finish, TypeOK, NoCall
    <2>2. QED
      BY <2>1, OutsideCounts, CountTypes, QuietStep
  <1>2. ASSUME NEW c \in Callers, NEW k \in Keys, ReadClock(c, k)
        PROVE  CurrentBounded' /\ PastBounded'
    <2>1. UNCHANGED <<now, bucket, admitted>>
      BY <1>2 DEF ReadClock
    <2>2. QED
      BY <1>2, <2>1, ReadCounts, CountTypes, QuietStep
  <1>3. ASSUME NEW c \in Callers, Admit(c)
        PROVE  CurrentBounded' /\ PastBounded'
    <2>1. now' = now
      BY <1>3 DEF Admit
    <2>2. \A k \in Keys : CurrentWindow(k)' = CurrentWindow(k) /\ CurrentWindow(k) \in Ticks
      BY <2>1, ClockFacts DEF CurrentWindow, Clock
    <2>3. CurrentBounded'
      BY <1>0, <1>3, <2>2, AdmitRunning DEF CurrentBounded
    <2>4. PastBounded'
      BY <1>0, <1>3, <2>2, AdmitLeft DEF PastBounded
    <2>5. QED
      BY <2>3, <2>4
  <1>4. ASSUME NEW c \in Callers, Deny(c)
        PROVE  CurrentBounded' /\ PastBounded'
    <2>1. /\ UNCHANGED <<now, bucket, admitted>>
          /\ call' = [call EXCEPT ![c].phase = "denied"]
          /\ call[c].phase = "clocked"
      BY <1>4, DenyKeepsBuckets DEF Deny
    <2>2. ASSUME NEW k \in Keys, NEW w \in Ticks
          PROVE  /\ Cardinality(Stale(k, w))' <= Cardinality(Stale(k, w))
                 /\ Cardinality(Holding(k, w))' <= Cardinality(Holding(k, w))
      <3>1. /\ Stale(k, w)' = Stale(k, w) \ {c}
            /\ Holding(k, w)' = Holding(k, w) \ {c}
        BY <2>1, LeaveCounts
      <3>2. ASSUME NEW S, S \subseteq Callers
            PROVE  Cardinality(S \ {c}) <= Cardinality(S)
        BY <3>2, CountSubset, FS_Subset
      <3>3. QED
        BY <3>1, <3>2, CountTypes
    <2>3. QED
      BY <2>1, <2>2, QuietStep
  <1>5. ASSUME NEW r \in Clocks, Tick(r)
        PROVE  CurrentBounded' /\ PastBounded'
    BY <1>5, TickBounds
  <1>6. CASE UNCHANGED vars
    <2>1. /\ UNCHANGED <<now, bucket, admitted>>
          /\ \A k \in Keys, w \in Ticks :
                Stale(k, w)' = Stale(k, w) /\ Holding(k, w)' = Holding(k, w)
      BY <1>6 DEF vars, Stale, Holding
    <2>2. QED
      BY <2>1, CountTypes, QuietStep
  <1>7. QED
    BY <1>1, <1>2, <1>3, <1>4, <1>5, <1>6 DEF Next

-----------------------------------------------------------------------------
\* IInv holds throughout: it is what the mutex, the discarded buckets and the
\* handlers still holding old readings together preserve.
THEOREM Inductive == Spec => []IInv
  <1>1. Init => IInv
    BY InitIInv
  <1>2. IInv /\ [Next]_vars => IInv'
    BY TypeStep, StartsStep, CountedStep, BoundsStep DEF IInv
  <1>3. QED
    BY <1>1, <1>2, PTL DEF Spec

\* Every variable keeps its type: buckets, the local state of each call and
\* the history of admissions.
THEOREM TypeCorrect == Spec => []TypeOK
  <1>1. IInv => TypeOK
    BY DEF IInv
  <1>2. QED
    BY <1>1, Inductive, PTL

\* N concurrent handlers let at most N * limit + N - 1 calls of one window
\* through, whatever order they take the mutex in.
THEOREM Overshoot == Spec => []OvershootBounded
  <1>1. IInv => OvershootBounded
    <2> SUFFICES ASSUME IInv, NEW k \in Governed, NEW w \in Ticks
                 PROVE  admitted[k][w] <= OvershootBound(k)
      BY DEF OvershootBounded
    <2> USE DEF IInv
    <2> DEFINE N == Cardinality(Callers)
               l == Limit[k]
               s == Cardinality(Stale(k, w))
               q == Cardinality(Holding(k, w))
    <2>1. /\ N \in Nat \ {0} /\ l \in Nat /\ k \in Keys
          /\ admitted[k][w] \in Nat /\ CountIn(k, w) \in 0 .. l
      BY CallersCount, LimitAssumption DEF Governed, TypeOK, Bucket, CountIn, BucketCounted
    <2>2. /\ l * N \in Nat /\ l * (N - 1) \in Nat /\ l * N = l * (N - 1) + l
      BY <2>1, Multiply
    <2>3. CurrentWindow(k) \in Ticks
      BY <2>1, ClockFacts
    <2>4. CASE w > CurrentWindow(k)
      BY <2>1, <2>2, <2>4 DEF StartsReached, OvershootBound
    <2>5. CASE w = CurrentWindow(k)
      <3>1. RunningOK(k, w)
        BY <2>5 DEF CurrentBounded
      <3>2. s \in 0 .. N
        BY CountTypes
      <3>3. l * (N - 1 - s) <= l * (N - 1) /\ l * (N - 1 - s) \in Int
        BY <2>1, <3>2
      <3>4. QED
        BY <2>1, <2>2, <3>1, <3>3 DEF RunningOK, OvershootBound
    <2>6. CASE w < CurrentWindow(k)
      <3>1. LeftOK(k, w)
        BY <2>6 DEF PastBounded
      <3>2. q \in 0 .. N
        BY CountTypes
      <3>3. QED
        BY <2>1, <2>2, <3>1, <3>2 DEF LeftOK, OvershootBound
    <2>7. QED
      BY <2>3, <2>4, <2>5, <2>6 DEF Ticks
  <1>2. QED
    BY <1>1, Inductive, PTL

\* With one handler at a time, as the repository's own tests drive it, the
\* window is exact: the overshoot is an effect of concurrency alone.
THEOREM ExactAlone == Cardinality(Callers) = 1 /\ Spec => []FixedWindow
  <1>1. Cardinality(Callers) = 1 /\ OvershootBounded => FixedWindow
    <2> SUFFICES ASSUME Cardinality(Callers) = 1, OvershootBounded,
                        NEW k \in Governed, NEW w \in Ticks
                 PROVE  admitted[k][w] <= Limit[k]
      BY DEF FixedWindow
    <2>1. admitted[k][w] <= Limit[k] * 1 + 1 - 1
      BY DEF OvershootBounded, OvershootBound
    <2>2. Limit[k] \in Nat
      BY LimitAssumption DEF Governed
    <2>3. QED
      BY <2>1, <2>2
  <1>2. CASE Cardinality(Callers) = 1
    <2>1. OvershootBounded => FixedWindow
      BY <1>1, <1>2
    <2>2. QED
      BY <2>1, Overshoot, PTL
  <1>3. CASE Cardinality(Callers) # 1
    BY <1>3
  <1>4. QED
    BY <1>2, <1>3

\* No call is answered 429 unless its window on its key is really used up.
THEOREM NoEarlyDenial == Spec => []DenialJustified
  <1>1. Init => DenialJustified
    BY DEF Init, DenialJustified, NoCall
  <1>2. IInv /\ DenialJustified /\ [Next]_vars => DenialJustified'
    <2> SUFFICES ASSUME IInv, DenialJustified, [Next]_vars
                 PROVE  DenialJustified'
      OBVIOUS
    <2> USE DEF IInv
    <2>1. ASSUME NEW c \in Callers, Deny(c)
          PROVE  DenialJustified'
      <3> DEFINE k == call[c].key
                 w == call[c].start
      <3>1. call[c] \in Call /\ k \in Governed /\ k \in Keys /\ w \in Ticks
        BY <2>1, ClockedFacts DEF Deny
      <3>2. bucket[k].start = w /\ bucket[k].count >= Limit[k] /\ bucket[k].count \in Nat
        BY <2>1, <3>1, DenyKeepsBuckets DEF TypeOK, Bucket
      <3>3. admitted[k][w] >= Limit[k]
        BY <3>1, <3>2, LimitAssumption DEF BucketCounted, TypeOK
      <3>4. /\ call'[c].key = k /\ call'[c].start = w
            /\ \A d \in Callers : d # c => call'[d] = call[d]
            /\ admitted' = admitted
        BY <2>1, <3>1 DEF Deny, TypeOK, Call
      <3>5. QED
        BY <3>3, <3>4 DEF DenialJustified
    <2>2. ASSUME NEW c \in Callers, Admit(c)
          PROVE  DenialJustified'
      <3> SUFFICES ASSUME NEW d \in Callers, call'[d].phase = "denied"
                   PROVE  admitted'[call'[d].key][call'[d].start] >= Limit[call'[d].key]
        BY DEF DenialJustified
      <3>1. d # c /\ call'[d] = call[d] /\ call[d].phase = "denied"
        <4>1. call[c] \in Call
          BY <2>2, ClockedFacts DEF Admit
        <4>2. QED
          BY <2>2, <4>1 DEF Admit, TypeOK, Call
      <3> DEFINE k == call[d].key
                 w == call[d].start
      <3>2. k \in Governed /\ k \in Keys /\ w \in Ticks
        <4>1. k \in Governed /\ w \in 0 .. CurrentWindow(k)
          BY <3>1 DEF StartsReached
        <4>2. k \in Keys
          BY <4>1 DEF Governed
        <4>3. QED
          BY <4>1, <4>2, ClockFacts, MaxNowAssumption DEF Ticks
      <3>3. admitted[k][w] >= Limit[k] /\ admitted[k][w] \in Nat
        BY <3>1, <3>2 DEF DenialJustified, TypeOK
      <3>4. admitted'[k][w] >= admitted[k][w]
        <4> DEFINE j == call[c].key
                   v == call[c].start
        <4>1. j \in Keys /\ v \in Ticks
          BY <2>2, ClockedFacts DEF Admit
        <4>2. /\ \A i \in Keys : i # j => admitted'[i] = admitted[i]
              /\ admitted'[j][v] = admitted[j][v] + 1
              /\ \A x \in Ticks : x # v => admitted'[j][x] = admitted[j][x]
          BY <2>2, <4>1, AdmitEffect
        <4>3. admitted[j][v] \in Nat
          BY <4>1 DEF TypeOK
        <4> HIDE DEF j, v, k, w
        <4>4. CASE k = j /\ w = v
          BY <4>2, <4>3, <4>4
        <4>5. CASE k # j \/ w # v
          <5>1. admitted'[k][w] = admitted[k][w]
            BY <3>2, <4>2, <4>5
          <5>2. QED
            BY <3>3, <5>1
        <4>6. QED
          BY <4>4, <4>5
      <3>5. admitted'[k][w] \in Nat /\ Limit[k] \in Nat
        <4>1. TypeOK'
          BY TypeStep
        <4>2. QED
          BY <3>2, <4>1, LimitAssumption DEF TypeOK
      <3>6. QED
        BY <3>1, <3>3, <3>4, <3>5
    <2>3. ASSUME UNCHANGED admitted,
                 \A d \in Callers : call'[d].phase = "denied" => call'[d] = call[d]
          PROVE  DenialJustified'
      BY <2>3 DEF DenialJustified
    <2>4. ASSUME NEW c \in Callers, Finish(c) \/ \E k \in Keys : AllowUngoverned(c, k) \/ ReadClock(c, k)
          PROVE  DenialJustified'
      BY <2>3, <2>4 DEF Finish, AllowUngoverned, ReadClock, TypeOK, NoCall
    <2>5. CASE (\E r \in Clocks : Tick(r)) \/ UNCHANGED vars
      BY <2>3, <2>5 DEF Tick, vars
    <2>6. QED
      BY <2>1, <2>2, <2>4, <2>5 DEF Next
  <1>3. QED
    BY <1>1, <1>2, Inductive, PTL DEF Spec

-----------------------------------------------------------------------------
(* The limiter that replicas share.                                        *)

\* Every step of the whole is a step of the replicas' own limiters, or none.
LEMMA LocalStep == [RedisNext]_allVars => [Next]_vars
  <1> SUFFICES ASSUME [RedisNext]_allVars PROVE [Next]_vars
    OBVIOUS
  <1>1. ASSUME NEW c \in Callers, PassUngoverned(c)
        PROVE  Next
    <2>1. PICK k \in LocalKeys[c] : AllowUngoverned(c, k)
      BY <1>1 DEF PassUngoverned
    <2>2. k \in Keys
      BY CountersAssumption
    <2>3. QED
      BY <2>1, <2>2 DEF Next
  <1>2. ASSUME NEW c \in Callers, MemoryAllow(c)
        PROVE  Next
    <2>1. PICK k \in LocalKeys[c] : ReadClock(c, k)
      BY <1>2 DEF MemoryAllow
    <2>2. k \in Keys
      BY CountersAssumption
    <2>3. QED
      BY <2>1, <2>2 DEF Next
  <1>3. ASSUME NEW c \in Callers, FallBack(c)
        PROVE  Next
    <2>1. ask[c].key \in Governed /\ ReadClock(c, ask[c].key)
      BY <1>3 DEF FallBack, ReadClock
    <2>2. QED
      BY <2>1 DEF Next, Governed
  <1>4. ASSUME NEW c \in Callers, AdmitLocally(c) \/ DenyLocally(c) \/ FinishLocal(c)
        PROVE  Next
    BY <1>4 DEF AdmitLocally, DenyLocally, FinishLocal, Next
  <1>5. ASSUME NEW c \in Callers,
               \/ ReadRedisClock(c) \/ Execute(c) \/ Grant(c) \/ Refuse(c)
               \/ Fail(c) \/ Resend(c) \/ FinishRedis(c)
        PROVE  UNCHANGED vars
    BY <1>5 DEF ReadRedisClock, Execute, Grant, Refuse, Fail, Resend, FinishRedis
  <1>6. ASSUME NEW k \in Keys, NEW w \in Ticks, ExecuteOrphan(k, w)
        PROVE  UNCHANGED vars
    BY <1>6 DEF ExecuteOrphan
  <1>7. ASSUME NEW n \in Counters, NEW w \in Ticks, DropOrphan(n, w)
        PROVE  UNCHANGED vars
    BY <1>7 DEF DropOrphan
  <1>8. RestartRedis => UNCHANGED vars
    BY DEF RestartRedis
  <1>9. ASSUME NEW r \in Clocks, PassTime(r)
        PROVE  Next
    BY <1>9 DEF PassTime, Next
  <1>10. UNCHANGED allVars => UNCHANGED vars
    BY DEF allVars
  <1>11. QED
    BY <1>1, <1>2, <1>3, <1>4, <1>5, <1>6, <1>7, <1>8, <1>9, <1>10
    DEF RedisNext, Proceed

\* Whatever Redis does, the replicas' own limiters run as RouteLimiter says.
THEOREM FallbackImplements == RedisSpec => Spec
  <1>1. RedisInit => Init
    BY DEF RedisInit
  <1>2. QED
    BY <1>1, LocalStep, PTL DEF RedisSpec, Spec

\* So they bound the overshoot of a window ...
THEOREM FallbackOvershoot == RedisSpec => []OvershootBounded
  BY FallbackImplements, Overshoot, PTL

\* ... and deny nobody early, whichever calls reach them.
THEOREM FallbackDenial == RedisSpec => []DenialJustified
  BY FallbackImplements, NoEarlyDenial, PTL

-----------------------------------------------------------------------------
\* Writing one cell of a table.
LEMMA Cell ==
    ASSUME NEW V, NEW f \in [Counters -> [Ticks -> V]],
           NEW n \in Counters, NEW w \in Ticks, NEW v \in V
    PROVE  /\ [f EXCEPT ![n][w] = v] \in [Counters -> [Ticks -> V]]
           /\ \A m \in Counters, u \in Ticks :
                 [f EXCEPT ![n][w] = v][m][u] = IF m = n /\ u = w THEN v ELSE f[m][u]
  OBVIOUS

\* What is known of a caller inside Redis's Allow.
LEMMA AskFacts ==
    ASSUME RedisTypeOK, NEW c \in Callers, ask[c].phase # "idle"
    PROVE  /\ ask[c] \in Ask
           /\ ask[c] # NoAsk
           /\ ask[c].key \in Governed
           /\ ask[c].key \in Keys
           /\ CounterOf[ask[c].key] \in Counters
           /\ ask[c].start \in Ticks
           /\ ask[c].start <= CurrentWindow(ask[c].key)
           /\ ask[c].start <= Clock(ask[c].key)
           /\ ask[c].count \in Nat
           /\ Limit[ask[c].key] \in Nat \ {0}
           /\ call[c] = NoCall
           /\ backend = "redis"
  <1>1. ask[c] # NoAsk
    BY DEF NoAsk
  <1>2. ask[c] \in Ask
    BY <1>1 DEF RedisTypeOK, CounterTypeOK
  <1>3. /\ ask[c].key \in Keys /\ ask[c].start \in Ticks /\ ask[c].count \in Nat
        /\ ask[c].key \in Governed /\ call[c] = NoCall /\ backend = "redis"
        /\ ask[c].start <= CurrentWindow(ask[c].key)
    BY <1>1, <1>2 DEF Ask, RedisTypeOK
  <1>4. Clock(ask[c].key) \in Nat
    BY <1>3, ClockFacts DEF RedisTypeOK
  <1>5. CurrentWindow(ask[c].key) \in 0 .. Clock(ask[c].key)
    BY <1>3, ClockFacts DEF RedisTypeOK
  <1>6. ask[c].start <= Clock(ask[c].key)
    BY <1>3, <1>4, <1>5 DEF Ticks
  <1>7. Limit[ask[c].key] \in Nat \ {0}
    BY <1>3, LimitAssumption DEF Governed
  <1>8. CounterOf[ask[c].key] \in Counters
    BY <1>3, CountersAssumption
  <1>9. QED
    BY <1>1, <1>2, <1>3, <1>6, <1>7, <1>8

\* Redis has a clock too.
LEMMA TimeType == TypeOK => Time \in Nat
  BY DriftAssumption DEF TypeOK, Time, Ticks

\* Incrementing a counter gives a counter.
LEMMA IncrementedType ==
    ASSUME RedisTypeOK, NEW k \in Keys, NEW w \in Ticks
    PROVE  /\ counter[CounterOf[k]][w] \in [count : Nat, until : Nat]
           /\ Incremented(counter[CounterOf[k]][w], k) \in [count : Nat, until : Nat]
  <1>1. CounterOf[k] \in Counters /\ Window[k] \in Nat /\ Time \in Nat
    BY CountersAssumption, WindowAssumption, TimeType DEF RedisTypeOK
  <1>2. counter[CounterOf[k]][w] \in [count : Nat, until : Nat]
    BY <1>1 DEF RedisTypeOK, CounterTypeOK
  <1>3. QED
    BY <1>1, <1>2 DEF Incremented, Lifetime

\* What was asked for stays reached as a clock goes on.
LEMMA TickAsked ==
    ASSUME RedisTypeOK, NEW r \in Clocks, Tick(r), NEW c \in Callers, ask[c] # NoAsk,
           NEW k \in Keys, k = ask[c].key
    PROVE  ask[c].start <= CurrentWindow(k)'
  <1>1. ask[c].phase # "idle"
    BY DEF RedisTypeOK, CounterTypeOK, Ask, AskPhases
  <1>2. /\ ask[c].start \in Ticks
        /\ ask[c].start <= CurrentWindow(k)
    BY <1>1, AskFacts
  <1>3. /\ CurrentWindow(k) <= CurrentWindow(k)'
        /\ CurrentWindow(k)' \in Nat
    BY TickFacts DEF RedisTypeOK
  <1>4. CurrentWindow(k) \in Ticks
    BY ClockFacts DEF RedisTypeOK
  <1>5. QED
    BY <1>2, <1>3, <1>4 DEF Ticks

LEMMA RedisTypeStep ==
    ASSUME RedisTypeOK, IInv', [RedisNext]_allVars
    PROVE  RedisTypeOK'
  <1>0. TypeOK /\ TypeOK'
    BY DEF RedisTypeOK, IInv
  <1> USE DEF RedisTypeOK, CounterTypeOK, CurrentWindow, Clock
  <1>1. ASSUME NEW c \in Callers, PassUngoverned(c)
        PROVE  RedisTypeOK'
    BY <1>0, <1>1 DEF PassUngoverned, AllowUngoverned
  <1>2. ASSUME NEW c \in Callers, MemoryAllow(c)
        PROVE  RedisTypeOK'
    BY <1>0, <1>2 DEF MemoryAllow, ReadClock
  <1>3. ASSUME NEW c \in Callers, ReadRedisClock(c)
        PROVE  RedisTypeOK'
    <2>1. PICK k \in LocalKeys[c] \cap Governed :
             ask' = [ask EXCEPT ![c] = [phase |-> "sent", key |-> k,
                                        start |-> WindowStart(k, Clock(k)), count |-> 0]]
      BY <1>3 DEF ReadRedisClock
    <2>2. k \in Keys /\ WindowStart(k, Clock(k)) \in Ticks
      BY <1>0, ClockFacts DEF Governed, CurrentWindow
    <2>3. ask'[c] \in Ask
      BY <2>1, <2>2 DEF Ask, AskPhases
    <2>4. ask' \in [Callers -> {NoAsk} \cup Ask]
      BY <2>1, <2>3
    <2>5. WindowStart(k, Clock(k)) \in Nat
      BY <2>2 DEF Ticks
    <2>6. QED
      BY <1>0, <1>3, <2>1, <2>2, <2>4, <2>5 DEF ReadRedisClock, vars
  <1>4. ASSUME NEW c \in Callers, Execute(c)
        PROVE  RedisTypeOK'
    <2>1. ask[c] \in Ask /\ ask[c] # NoAsk /\ ask[c].key \in Keys /\ ask[c].start \in Ticks
      BY <1>4, AskFacts DEF Execute
    <2> DEFINE e == Incremented(counter[CounterOf[ask[c].key]][ask[c].start], ask[c].key)
    <2>2. e \in [count : Nat, until : Nat]
      BY <2>1, IncrementedType
    <2>3. counter' = [counter EXCEPT ![CounterOf[ask[c].key]][ask[c].start] = e]
      BY <1>4 DEF Execute
    <2>4. ask' = [ask EXCEPT ![c].phase = "answered", ![c].count = e.count]
      BY <1>4 DEF Execute
    <2>5. UNCHANGED <<vars, backend, calls, orphans, granted, untold, restarts>>
      BY <1>4 DEF Execute
    <2> HIDE DEF e
    <2>6. counter' \in [Counters -> [Ticks -> [count : Nat, until : Nat]]]
      BY <2>1, <2>2, <2>3
    <2>7. /\ ask'[c] \in Ask /\ ask'[c].key = ask[c].key /\ ask'[c].start = ask[c].start
          /\ \A d \in Callers : d # c => ask'[d] = ask[d]
      BY <2>1, <2>2, <2>4 DEF Ask, AskPhases
    <2>8. ask' \in [Callers -> {NoAsk} \cup Ask]
      <3>1. ask' = [d \in Callers |-> ask'[d]]
        BY <2>4
      <3>2. \A d \in Callers : ask'[d] \in {NoAsk} \cup Ask
        BY <2>7
      <3>3. QED
        BY <3>1, <3>2
    <2>9. QED
      BY <1>0, <2>1, <2>5, <2>6, <2>7, <2>8 DEF vars
  <1>5. ASSUME NEW c \in Callers, Grant(c)
        PROVE  RedisTypeOK'
    <2>1. ask[c].key \in Keys /\ ask[c].start \in Ticks /\ CounterOf[ask[c].key] \in Counters
      BY <1>5, AskFacts DEF Grant
    <2>2. granted' \in [Counters -> [Ticks -> Nat]]
      BY <1>5, <2>1 DEF Grant
    <2>3. QED
      BY <1>0, <1>5, <2>2 DEF Grant, vars
  <1>6. ASSUME NEW c \in Callers, Refuse(c)
        PROVE  RedisTypeOK'
    <2>1. ask[c] \in Ask /\ ask[c] # NoAsk
      BY <1>6, AskFacts DEF Refuse
    <2>2. ask' = [ask EXCEPT ![c].phase = "refused"]
      BY <1>6 DEF Refuse
    <2>3. /\ ask'[c] \in Ask /\ ask'[c].key = ask[c].key /\ ask'[c].start = ask[c].start
          /\ \A d \in Callers : d # c => ask'[d] = ask[d]
          /\ ask' \in [Callers -> {NoAsk} \cup Ask]
      BY <2>1, <2>2 DEF Ask, AskPhases
    <2>4. QED
      BY <1>0, <1>6, <2>1, <2>3 DEF Refuse, vars
  <1>7. ASSUME NEW c \in Callers, Fail(c)
        PROVE  RedisTypeOK'
    <2>1. /\ ask[c] \in Ask /\ ask[c] # NoAsk
          /\ ask[c].key \in Keys /\ ask[c].start \in Ticks /\ CounterOf[ask[c].key] \in Counters
      BY <1>7, AskFacts DEF Fail
    <2>2. ask' = [ask EXCEPT ![c].phase = "failed"]
      BY <1>7 DEF Fail
    <2>3. /\ ask'[c] \in Ask /\ ask'[c].key = ask[c].key /\ ask'[c].start = ask[c].start
          /\ \A d \in Callers : d # c => ask'[d] = ask[d]
          /\ ask' \in [Callers -> {NoAsk} \cup Ask]
      BY <2>1, <2>2 DEF Ask, AskPhases
    <2>4. orphans' \in [Counters -> [Ticks -> Nat]] /\ untold' \in [Counters -> [Ticks -> Nat]]
      <3> DEFINE n == CounterOf[ask[c].key]
                 w == ask[c].start
      <3>1. orphans[n][w] + 1 \in Nat /\ untold[n][w] + 1 \in Nat
        BY <2>1
      <3>2. /\ [orphans EXCEPT ![n][w] = orphans[n][w] + 1] \in [Counters -> [Ticks -> Nat]]
            /\ [untold EXCEPT ![n][w] = untold[n][w] + 1] \in [Counters -> [Ticks -> Nat]]
        BY <2>1, <3>1, Cell
      <3>3. QED
        BY <1>7, <3>2 DEF Fail
    <2>5. calls' \in Nat /\ UNCHANGED <<vars, backend, counter, granted, restarts>>
      BY <1>7 DEF Fail
    <2>6. \A d \in Callers : ask'[d] # NoAsk =>
             /\ call'[d] = NoCall
             /\ backend' = "redis"
             /\ ask'[d].key \in Governed
             /\ ask'[d].start <= WindowStart(ask'[d].key, now'[ClockOf[ask'[d].key]])
      BY <2>1, <2>3, <2>5 DEF vars
    <2>7. CounterTypeOK'
      BY <2>3, <2>4, <2>5
    <2>8. QED
      BY <1>0, <2>6, <2>7
  <1>8. ASSUME NEW c \in Callers, Resend(c)
        PROVE  RedisTypeOK'
    <2>1. ask[c].start \in Ticks /\ CounterOf[ask[c].key] \in Counters
      BY <1>8, AskFacts DEF Resend
    <2>2. orphans' \in [Counters -> [Ticks -> Nat]]
      BY <1>8, <2>1 DEF Resend
    <2>3. QED
      BY <1>0, <1>8, <2>2 DEF Resend, vars
  <1>9. ASSUME NEW c \in Callers, FallBack(c)
        PROVE  RedisTypeOK'
    BY <1>0, <1>9 DEF FallBack, ReadClock
  <1>10. ASSUME NEW c \in Callers, AdmitLocally(c) \/ DenyLocally(c)
         PROVE  RedisTypeOK'
    <2>1. ask[c] = NoAsk
      BY <1>10 DEF AdmitLocally, DenyLocally, Admit, Deny, NoCall
    <2>2. /\ UNCHANGED <<now, redisVars>>
          /\ \A d \in Callers : d # c => call'[d] = call[d]
      BY <1>10 DEF AdmitLocally, DenyLocally, Admit, Deny, TypeOK
    <2>3. QED
      BY <1>0, <2>1, <2>2 DEF redisVars
  <1>11. ASSUME NEW c \in Callers, FinishLocal(c)
         PROVE  RedisTypeOK'
    BY <1>0, <1>11 DEF FinishLocal, Finish, redisVars
  <1>12. ASSUME NEW c \in Callers, FinishRedis(c)
         PROVE  RedisTypeOK'
    BY <1>0, <1>12 DEF FinishRedis, vars
  <1>13. ASSUME NEW k \in Keys, NEW w \in Ticks, ExecuteOrphan(k, w)
         PROVE  RedisTypeOK'
    <2>1. CounterOf[k] \in Counters
      BY CountersAssumption
    <2> DEFINE e == Incremented(counter[CounterOf[k]][w], k)
    <2>2. e \in [count : Nat, until : Nat]
      BY IncrementedType
    <2>3. /\ counter' = [counter EXCEPT ![CounterOf[k]][w] = e]
          /\ orphans[CounterOf[k]][w] > 0
          /\ orphans' = [orphans EXCEPT ![CounterOf[k]][w] = @ - 1]
          /\ \/ untold' = untold
             \/ untold' = [untold EXCEPT ![CounterOf[k]][w] = @ + 1]
          /\ UNCHANGED <<vars, backend, calls, ask, granted, restarts>>
      BY <1>13 DEF ExecuteOrphan
    <2> HIDE DEF e
    <2>4. /\ counter' \in [Counters -> [Ticks -> [count : Nat, until : Nat]]]
          /\ orphans' \in [Counters -> [Ticks -> Nat]]
          /\ untold' \in [Counters -> [Ticks -> Nat]]
      <3> DEFINE n == CounterOf[k]
      <3>1. orphans[n][w] - 1 \in Nat /\ untold[n][w] + 1 \in Nat
        BY <2>1, <2>3
      <3>2. /\ [orphans EXCEPT ![n][w] = orphans[n][w] - 1] \in [Counters -> [Ticks -> Nat]]
            /\ [untold EXCEPT ![n][w] = untold[n][w] + 1] \in [Counters -> [Ticks -> Nat]]
        BY <2>1, <3>1, Cell
      <3>3. [counter EXCEPT ![n][w] = e] \in [Counters -> [Ticks -> [count : Nat, until : Nat]]]
        BY <2>1, <2>2, Cell
      <3>4. QED
        BY <2>3, <3>2, <3>3
    <2>5. QED
      BY <1>0, <2>3, <2>4 DEF vars
  <1>14. ASSUME NEW n \in Counters, NEW w \in Ticks, DropOrphan(n, w)
         PROVE  RedisTypeOK'
    BY <1>0, <1>14 DEF DropOrphan, vars
  <1>15. CASE RestartRedis
    <2>1. counter' \in [Counters -> [Ticks -> [count : Nat, until : Nat]]]
      BY <1>15 DEF RestartRedis, Absent
    <2>2. restarts' \in 0 .. MaxRestarts
      BY <1>15, FaultsAssumption DEF RestartRedis
    <2>3. QED
      BY <1>0, <1>15, <2>1, <2>2 DEF RestartRedis, vars
  <1>16. ASSUME NEW r \in Clocks, PassTime(r)
         PROVE  RedisTypeOK'
    <2>1. Tick(r) /\ UNCHANGED <<call, redisVars>>
      BY <1>16 DEF PassTime, Tick
    <2>2. \A c \in Callers : ask'[c] # NoAsk =>
             ask'[c].start <= WindowStart(ask'[c].key, now'[ClockOf[ask'[c].key]])
      <3> SUFFICES ASSUME NEW c \in Callers, ask[c] # NoAsk
                   PROVE  ask[c].start <= WindowStart(ask[c].key, now'[ClockOf[ask[c].key]])
        BY <2>1 DEF redisVars
      <3>1. ask[c].key \in Keys
        BY DEF Ask
      <3>2. PICK k \in Keys : k = ask[c].key
        BY <3>1
      <3>3. ask[c].start <= CurrentWindow(k)'
        BY <2>1, <3>2, TickAsked
      <3>4. QED
        BY <3>2, <3>3
    <2>3. QED
      BY <1>0, <2>1, <2>2 DEF redisVars
  <1>17. CASE UNCHANGED allVars
    BY <1>0, <1>17 DEF allVars, vars, redisVars
  <1>18. QED
    BY <1>1, <1>2, <1>3, <1>4, <1>5, <1>6, <1>7, <1>8, <1>9, <1>10, <1>11, <1>12,
       <1>13, <1>14, <1>15, <1>16, <1>17 DEF RedisNext, Proceed

-----------------------------------------------------------------------------
\* Two sets of callers that differ in one caller at most.
LEMMA CountOne ==
    ASSUME NEW S, NEW T, S \subseteq Callers, T \subseteq Callers, NEW c \in Callers,
           \A d \in Callers : d # c => (d \in S <=> d \in T)
    PROVE  /\ Cardinality(S) \in Nat /\ Cardinality(T) \in Nat
           /\ c \in T /\ c \notin S => Cardinality(T) = Cardinality(S) + 1
           /\ c \in S /\ c \notin T => Cardinality(T) = Cardinality(S) - 1
           /\ (c \in S <=> c \in T) => Cardinality(T) = Cardinality(S)
  <1>1. Cardinality(S) \in Nat /\ Cardinality(T) \in Nat
    BY CountSubset
  <1>2. ASSUME c \in T, c \notin S
        PROVE  Cardinality(T) = Cardinality(S) + 1
    <2>1. T \ {c} = S
      BY <1>2
    <2>2. QED
      BY <1>1, <1>2, <2>1, CountRemoved
  <1>3. ASSUME c \in S, c \notin T
        PROVE  Cardinality(T) = Cardinality(S) - 1
    <2>1. S \ {c} = T
      BY <1>3
    <2>2. QED
      BY <1>1, <1>3, <2>1, CountRemoved
  <1>4. ASSUME c \in S <=> c \in T
        PROVE  S = T
    BY <1>4
  <1>5. QED
    BY <1>1, <1>2, <1>3, <1>4

\* What a step that moves one caller does to the callers of a window.
LEMMA OneAsk ==
    ASSUME NEW c \in Callers, \A d \in Callers : d # c => ask'[d] = ask[d], NEW n, NEW w
    PROVE  LET P == Pending(n, w)
               H == Hopeful(n, w)
           IN  /\ Cardinality(P) \in Nat /\ Cardinality(P') \in Nat
               /\ Cardinality(H) \in Nat /\ Cardinality(H') \in Nat
               /\ c \in P' /\ c \notin P => Cardinality(P') = Cardinality(P) + 1
               /\ c \in P /\ c \notin P' => Cardinality(P') = Cardinality(P) - 1
               /\ (c \in P <=> c \in P') => Cardinality(P') = Cardinality(P)
               /\ c \in H' /\ c \notin H => Cardinality(H') = Cardinality(H) + 1
               /\ c \in H /\ c \notin H' => Cardinality(H') = Cardinality(H) - 1
               /\ (c \in H <=> c \in H') => Cardinality(H') = Cardinality(H)
  <1> DEFINE P == Pending(n, w)
             H == Hopeful(n, w)
  <1>1. \A d \in Callers : d # c => (d \in P <=> d \in P')
    BY DEF Pending, HoldsWindow
  <1>2. \A d \in Callers : d # c => (d \in H <=> d \in H')
    BY <1>1 DEF Hopeful, HoldsWindow
  <1>3. P \subseteq Callers /\ P' \subseteq Callers
    BY DEF Pending
  <1>4. H \subseteq Callers /\ H' \subseteq Callers
    BY <1>3 DEF Hopeful
  <1> HIDE DEF P, H
  <1>5. /\ Cardinality(P) \in Nat /\ Cardinality(P') \in Nat
        /\ c \in P' /\ c \notin P => Cardinality(P') = Cardinality(P) + 1
        /\ c \in P /\ c \notin P' => Cardinality(P') = Cardinality(P) - 1
        /\ (c \in P <=> c \in P') => Cardinality(P') = Cardinality(P)
    BY <1>1, <1>3, CountOne
  <1>6. /\ Cardinality(H) \in Nat /\ Cardinality(H') \in Nat
        /\ c \in H' /\ c \notin H => Cardinality(H') = Cardinality(H) + 1
        /\ c \in H /\ c \notin H' => Cardinality(H') = Cardinality(H) - 1
        /\ (c \in H <=> c \in H') => Cardinality(H') = Cardinality(H)
    BY <1>2, <1>4, CountOne
  <1>7. QED
    BY <1>5, <1>6 DEF P, H

\* Steps that leave the counts of every window as they are.
QuietAt(n, w) ==
    /\ Cardinality(Pending(n, w)') = Cardinality(Pending(n, w))
    /\ Cardinality(Hopeful(n, w)') = Cardinality(Hopeful(n, w))

LEMMA Unmoved ==
    ASSUME ask' = ask, NEW n, NEW w
    PROVE  QuietAt(n, w)
  BY DEF QuietAt, Pending, Hopeful, HoldsWindow

LEMMA RefuseCounts ==
    ASSUME RedisTypeOK, NEW c \in Callers, Refuse(c), NEW n, NEW w
    PROVE  QuietAt(n, w)
  <1>1. ask[c] \in Ask /\ ask[c].phase = "answered" /\ OverLimit(ask[c].count, ask[c].key)
    BY AskFacts DEF Refuse
  <1>2. /\ \A d \in Callers : d # c => ask'[d] = ask[d]
        /\ ask'[c].phase = "refused"
    BY <1>1 DEF Refuse, RedisTypeOK, CounterTypeOK, Ask
  <1>3. c \notin Pending(n, w) /\ c \notin Pending(n, w)'
    BY <1>1, <1>2 DEF Pending
  <1>4. c \notin Hopeful(n, w) /\ c \notin Hopeful(n, w)'
    BY <1>1, <1>2, <1>3 DEF Hopeful
  <1>5. QED
    BY <1>2, <1>3, <1>4, OneAsk DEF QuietAt

LEMMA LeaveRedisCounts ==
    ASSUME RedisTypeOK, NEW c \in Callers, FallBack(c) \/ FinishRedis(c), NEW n, NEW w
    PROVE  QuietAt(n, w)
  <1>1. ask[c].phase \in {"failed", "refused"} /\ ask'[c] = NoAsk
        /\ \A d \in Callers : d # c => ask'[d] = ask[d]
    BY DEF FallBack, FinishRedis, RedisTypeOK, CounterTypeOK
  <1>2. c \notin Pending(n, w) /\ c \notin Pending(n, w)'
    BY <1>1 DEF Pending, NoAsk
  <1>3. c \notin Hopeful(n, w) /\ c \notin Hopeful(n, w)'
    BY <1>1, <1>2 DEF Hopeful, NoAsk
  <1>4. QED
    BY <1>1, <1>2, <1>3, OneAsk DEF QuietAt

\* A replica's clock and Redis's, no further apart than they may be.
LEMMA ClockNear ==
    ASSUME TypeOK, Synchronised, NEW k \in Keys
    PROVE  /\ Clock(k) <= Time + MaxAhead
           /\ Time <= Clock(k) + MaxBehind
           /\ Clock(k) \in Nat /\ Time \in Nat
           /\ MaxAhead \in Nat /\ MaxBehind \in Nat
  BY ClocksAssumption, DriftAssumption, ClockFacts, TimeType DEF Synchronised, Clock

\* Who enters is not answered yet.
LEMMA EnterPending ==
    ASSUME RedisTypeOK, NEW c \in Callers, ReadRedisClock(c), NEW n, NEW w
    PROVE  Pending(n, w)' = Pending(n, w)
  <1>1. PICK l \in LocalKeys[c] \cap Governed :
           ask' = [ask EXCEPT ![c] = [phase |-> "sent", key |-> l,
                                      start |-> WindowStart(l, Clock(l)), count |-> 0]]
    BY DEF ReadRedisClock
  <1>2. /\ \A d \in Callers : d # c => ask'[d] = ask[d]
        /\ ask'[c].phase = "sent"
        /\ ask[c].phase = "idle"
    BY <1>1 DEF RedisTypeOK, CounterTypeOK, ReadRedisClock, NoAsk
  <1>3. QED
    BY <1>2 DEF Pending, HoldsWindow

\* A caller that enters holds a window that is not over.
LEMMA EnterCounts ==
    ASSUME RedisTypeOK, Synchronised, NEW c \in Callers, ReadRedisClock(c),
           NEW k \in Governed, NEW w \in Ticks
    PROVE  LET n == CounterOf[k]
           IN  /\ Cardinality(Pending(n, w)') = Cardinality(Pending(n, w))
               /\ Over(k, w) => Cardinality(Hopeful(n, w)') = Cardinality(Hopeful(n, w))
  <1>1. PICK l \in LocalKeys[c] \cap Governed :
           ask' = [ask EXCEPT ![c] = [phase |-> "sent", key |-> l,
                                      start |-> CurrentWindow(l), count |-> 0]]
    BY DEF ReadRedisClock, CurrentWindow
  <1>2. /\ \A d \in Callers : d # c => ask'[d] = ask[d]
        /\ ask'[c] = [phase |-> "sent", key |-> l, start |-> CurrentWindow(l), count |-> 0]
    BY <1>1 DEF RedisTypeOK, CounterTypeOK
  <1>3. ask[c] = NoAsk
    BY DEF ReadRedisClock
  <1> DEFINE n == CounterOf[k]
  <1>4. c \notin Pending(n, w) /\ c \notin Pending(n, w)'
    BY <1>2, <1>3 DEF Pending, NoAsk
  <1>5. ASSUME Over(k, w)
        PROVE  c \notin Hopeful(n, w) /\ c \notin Hopeful(n, w)'
    <2>1. ASSUME CounterOf[l] = n PROVE CurrentWindow(l) # w
      <3>1. k \in Keys /\ l \in Keys
        BY DEF Governed
      <3>2. Window[l] = Window[k] /\ Window[k] \in Nat \ {0}
        BY <2>1, <3>1, CountersAssumption, WindowAssumption
      <3>3. /\ Clock(l) \in Nat /\ Time \in Nat /\ MaxBehind \in Nat
            /\ Time <= Clock(l) + MaxBehind
        BY <3>1, ClockNear DEF RedisTypeOK
      <3>4. Clock(l) % Window[k] < Window[k] /\ Clock(l) % Window[k] \in Nat
        BY <3>2, <3>3
      <3>5. w \in Nat /\ w + Window[k] + MaxBehind <= Time
        BY <1>5 DEF Ticks, Over
      <3>6. CurrentWindow(l) = Clock(l) - (Clock(l) % Window[k])
        BY <3>2 DEF CurrentWindow, WindowStart
      <3>7. QED
        BY <3>2, <3>3, <3>4, <3>5, <3>6
    <2>2. QED
      BY <1>2, <1>3, <1>4, <2>1 DEF Hopeful, HoldsWindow, NoAsk
  <1>6. QED
    BY <1>2, <1>4, <1>5, OneAsk

\* The window of counter CounterOf[k] that starts at w is the one c asks for.
At(c, k, w) == CounterOf[ask[c].key] = CounterOf[k] /\ ask[c].start = w

\* Keys that share a counter share limit and window.
LEMMA SameCounter ==
    ASSUME NEW k \in Keys, NEW l \in Keys, CounterOf[k] = CounterOf[l]
    PROVE  Limit[k] = Limit[l] /\ Window[k] = Window[l]
  BY CountersAssumption

\* Executing a caller's increment: it becomes a pending one within the limit,
\* or loses its hope.
LEMMA ExecuteCounts ==
    ASSUME RedisTypeOK, NEW c \in Callers, Execute(c), NEW k \in Governed, NEW w \in Ticks
    PROVE  LET n == CounterOf[k]
               e == Incremented(counter[n][w], k)
           IN  /\ At(c, k, w) =>
                     /\ counter'[n][w] = e
                     /\ e.count <= Limit[k] =>
                           /\ Cardinality(Pending(n, w)') = Cardinality(Pending(n, w)) + 1
                           /\ Cardinality(Hopeful(n, w)') = Cardinality(Hopeful(n, w))
                     /\ e.count > Limit[k] =>
                           /\ Cardinality(Pending(n, w)') = Cardinality(Pending(n, w))
                           /\ Cardinality(Hopeful(n, w)') <= Cardinality(Hopeful(n, w))
               /\ ~At(c, k, w) => QuietAt(n, w) /\ counter'[n][w] = counter[n][w]
               /\ ask'[c].key = ask[c].key /\ ask'[c].start = ask[c].start
               /\ ask'[c].phase = "answered"
               /\ At(c, k, w) => ask'[c].count = e.count
               /\ \A d \in Callers : d # c => ask'[d] = ask[d]
  <1> DEFINE n == CounterOf[k]
             e == Incremented(counter[n][w], k)
             f == Incremented(counter[CounterOf[ask[c].key]][ask[c].start], ask[c].key)
  <1>1. /\ ask[c] \in Ask /\ ask[c].phase = "sent" /\ ask[c].key \in Keys
        /\ ask[c].start \in Ticks /\ CounterOf[ask[c].key] \in Counters
    BY AskFacts DEF Execute
  <1>2. k \in Keys /\ n \in Counters
    BY CountersAssumption DEF Governed
  <1>3. /\ e \in [count : Nat, until : Nat]
        /\ f \in [count : Nat, until : Nat]
    BY <1>1, <1>2, IncrementedType
  <1>4. /\ counter' = [counter EXCEPT ![CounterOf[ask[c].key]][ask[c].start] = f]
        /\ ask' = [ask EXCEPT ![c].phase = "answered", ![c].count = f.count]
    BY DEF Execute
  <1>5. At(c, k, w) => f = e /\ Limit[ask[c].key] = Limit[k]
    BY <1>1, <1>2, SameCounter DEF At, Incremented, Lifetime
  <1> HIDE DEF f, e, n
  <1>6. counter'[n][w] = IF At(c, k, w) THEN f ELSE counter[n][w]
    BY <1>1, <1>2, <1>3, <1>4, Cell DEF At, RedisTypeOK, CounterTypeOK, n
  <1>7. /\ ask'[c].phase = "answered" /\ ask'[c].count = f.count
        /\ ask'[c].key = ask[c].key /\ ask'[c].start = ask[c].start
        /\ ask'[c] # NoAsk
        /\ \A d \in Callers : d # c => ask'[d] = ask[d]
    BY <1>1, <1>4 DEF RedisTypeOK, CounterTypeOK, Ask, NoAsk
  <1>8. /\ c \notin Pending(n, w)
        /\ c \in Hopeful(n, w) <=> At(c, k, w)
    BY <1>1 DEF Pending, Hopeful, HoldsWindow, At, NoAsk, n
  <1>9. c \in Pending(n, w)' <=> At(c, k, w) /\ f.count <= Limit[ask[c].key]
    <2>1. f.count \in Nat /\ Limit[ask[c].key] \in Nat
      BY <1>1, <1>3, LimitAssumption
    <2>2. QED
      BY <1>7, <2>1 DEF Pending, HoldsWindow, At, OverLimit, n
  <1>10. c \in Hopeful(n, w)' <=> c \in Pending(n, w)'
    BY <1>7 DEF Hopeful
  <1>11. ~At(c, k, w) => QuietAt(n, w)
    BY <1>7, <1>8, <1>9, <1>10, OneAsk DEF QuietAt
  <1>12. ASSUME At(c, k, w), e.count <= Limit[k]
         PROVE  /\ Cardinality(Pending(n, w)') = Cardinality(Pending(n, w)) + 1
                /\ Cardinality(Hopeful(n, w)') = Cardinality(Hopeful(n, w))
    BY <1>5, <1>7, <1>8, <1>9, <1>10, <1>12, OneAsk
  <1>13. ASSUME At(c, k, w), e.count > Limit[k]
         PROVE  /\ Cardinality(Pending(n, w)') = Cardinality(Pending(n, w))
                /\ Cardinality(Hopeful(n, w)') <= Cardinality(Hopeful(n, w))
    <2>1. e.count \in Nat /\ Limit[k] \in Nat
      BY <1>2, <1>3, LimitAssumption
    <2>2. c \notin Pending(n, w)' /\ c \notin Hopeful(n, w)'
      BY <1>5, <1>9, <1>10, <1>13, <2>1
    <2>3. /\ Cardinality(Pending(n, w)') = Cardinality(Pending(n, w))
          /\ Cardinality(Hopeful(n, w)') = Cardinality(Hopeful(n, w)) - 1
          /\ Cardinality(Hopeful(n, w)) \in Nat
      BY <1>7, <1>8, <1>13, <2>2, OneAsk
    <2>4. QED
      BY <2>3
  <1>14. QED
    BY <1>5, <1>6, <1>7, <1>11, <1>12, <1>13 DEF e, n

\* A grant turns a pending call into a granted one.
LEMMA GrantCounts ==
    ASSUME RedisTypeOK, NEW c \in Callers, Grant(c), NEW k \in Governed, NEW w \in Ticks
    PROVE  LET n == CounterOf[k]
           IN  /\ At(c, k, w) =>
                     /\ granted'[n][w] = granted[n][w] + 1
                     /\ Cardinality(Pending(n, w)') = Cardinality(Pending(n, w)) - 1
                     /\ Cardinality(Hopeful(n, w)') = Cardinality(Hopeful(n, w)) - 1
               /\ ~At(c, k, w) => QuietAt(n, w) /\ granted'[n][w] = granted[n][w]
               /\ ask'[c] = NoAsk
               /\ \A d \in Callers : d # c => ask'[d] = ask[d]
  <1> DEFINE n == CounterOf[k]
             m == CounterOf[ask[c].key]
             u == ask[c].start
  <1>1. /\ ask[c].phase = "answered" /\ ~OverLimit(ask[c].count, ask[c].key)
        /\ m \in Counters /\ u \in Ticks
    BY AskFacts DEF Grant
  <1>2. n \in Counters
    BY CountersAssumption DEF Governed
  <1>3. granted[m][u] + 1 \in Nat
    BY <1>1 DEF RedisTypeOK, CounterTypeOK
  <1>4. granted'[n][w] = IF n = m /\ w = u THEN granted[m][u] + 1 ELSE granted[n][w]
    BY <1>1, <1>2, <1>3, Cell DEF Grant, RedisTypeOK, CounterTypeOK
  <1>5. ask'[c] = NoAsk /\ \A d \in Callers : d # c => ask'[d] = ask[d]
    BY DEF Grant, RedisTypeOK, CounterTypeOK
  <1>6. c \in Pending(n, w) <=> At(c, k, w)
    BY <1>1 DEF Pending, HoldsWindow, At, NoAsk
  <1>7. c \in Hopeful(n, w) <=> At(c, k, w)
    BY <1>1, <1>6 DEF Hopeful
  <1>8. c \notin Pending(n, w)' /\ c \notin Hopeful(n, w)'
    BY <1>5 DEF Pending, Hopeful, HoldsWindow
  <1> HIDE DEF n, m, u
  <1>9. At(c, k, w) <=> n = m /\ w = u
    BY DEF At, n, m, u
  <1>10. /\ At(c, k, w) =>
               /\ Cardinality(Pending(n, w)') = Cardinality(Pending(n, w)) - 1
               /\ Cardinality(Hopeful(n, w)') = Cardinality(Hopeful(n, w)) - 1
         /\ ~At(c, k, w) => QuietAt(n, w)
    BY <1>5, <1>6, <1>7, <1>8, OneAsk DEF QuietAt
  <1>11. QED
    BY <1>4, <1>5, <1>9, <1>10 DEF n, m, u

\* A failure may lose a pending call, whose increment then is an untold one.
LEMMA FailCounts ==
    ASSUME RedisTypeOK, NEW c \in Callers, Fail(c), NEW k \in Governed, NEW w \in Ticks
    PROVE  LET n == CounterOf[k]
           IN  /\ \/ /\ Cardinality(Pending(n, w)') = Cardinality(Pending(n, w))
                     /\ untold'[n][w] = untold[n][w]
                  \/ /\ Cardinality(Pending(n, w)') = Cardinality(Pending(n, w)) - 1
                     /\ untold'[n][w] = untold[n][w] + 1
               /\ Cardinality(Hopeful(n, w)') <= Cardinality(Hopeful(n, w))
               /\ ask'[c].phase = "failed"
               /\ \A d \in Callers : d # c => ask'[d] = ask[d]
  <1> DEFINE n == CounterOf[k]
             m == CounterOf[ask[c].key]
             u == ask[c].start
  <1>1. ask[c] \in Ask /\ m \in Counters /\ u \in Ticks
    BY AskFacts DEF Fail
  <1>2. n \in Counters
    BY CountersAssumption DEF Governed
  <1>3. /\ ask'[c].phase = "failed"
        /\ \A d \in Callers : d # c => ask'[d] = ask[d]
    BY <1>1 DEF Fail, RedisTypeOK, CounterTypeOK
  <1>4. c \notin Pending(n, w)' /\ c \notin Hopeful(n, w)'
    BY <1>3 DEF Pending, Hopeful, HoldsWindow
  <1>5. /\ Cardinality(Hopeful(n, w)) \in Nat
        /\ c \in Hopeful(n, w) => Cardinality(Hopeful(n, w)') = Cardinality(Hopeful(n, w)) - 1
        /\ c \notin Hopeful(n, w) => Cardinality(Hopeful(n, w)') = Cardinality(Hopeful(n, w))
        /\ c \in Pending(n, w) => Cardinality(Pending(n, w)') = Cardinality(Pending(n, w)) - 1
        /\ c \notin Pending(n, w) => Cardinality(Pending(n, w)') = Cardinality(Pending(n, w))
    BY <1>3, <1>4, OneAsk
  <1>6. c \in Pending(n, w) <=>
           /\ ask[c].phase = "answered" /\ ~OverLimit(ask[c].count, ask[c].key)
           /\ n = m /\ w = u
    BY <1>1 DEF Pending, HoldsWindow, NoAsk
  <1>7. /\ c \in Pending(n, w) => untold'[n][w] = untold[n][w] + 1
        /\ c \notin Pending(n, w) => untold'[n][w] = untold[n][w]
    <2>1. untold[m][u] + 1 \in Nat
      BY <1>1 DEF RedisTypeOK, CounterTypeOK
    <2>2. [untold EXCEPT ![m][u] = untold[m][u] + 1][n][w]
             = IF n = m /\ w = u THEN untold[m][u] + 1 ELSE untold[n][w]
      BY <1>1, <1>2, <2>1, Cell DEF RedisTypeOK, CounterTypeOK
    <2>3. \/ ask[c].phase = "sent" /\ untold' = untold
          \/ /\ ask[c].phase = "answered"
             /\ untold' = IF OverLimit(ask[c].count, ask[c].key) THEN untold
                          ELSE [untold EXCEPT ![m][u] = untold[m][u] + 1]
      BY DEF Fail
    <2> HIDE DEF n, m, u
    <2>4. QED
      BY <1>6, <2>2, <2>3
  <1> HIDE DEF n
  <1>8. Cardinality(Hopeful(n, w)') <= Cardinality(Hopeful(n, w))
    BY <1>5
  <1>9. QED
    BY <1>3, <1>5, <1>7, <1>8 DEF n

\* An increment nobody waits for is counted, and was within the limit or not.
LEMMA OrphanCounts ==
    ASSUME RedisTypeOK, NEW l \in Keys, NEW u \in Ticks, ExecuteOrphan(l, u),
           NEW k \in Governed, NEW w \in Ticks
    PROVE  LET n == CounterOf[k]
               e == Incremented(counter[n][w], k)
           IN  /\ CounterOf[l] = n /\ u = w =>
                     /\ counter'[n][w] = e
                     /\ orphans[n][w] > 0
                     /\ e.count <= Limit[k] => untold'[n][w] = untold[n][w] + 1
                     /\ e.count > Limit[k] => untold'[n][w] = untold[n][w]
               /\ ~(CounterOf[l] = n /\ u = w) =>
                     /\ counter'[n][w] = counter[n][w]
                     /\ untold'[n][w] = untold[n][w]
               /\ QuietAt(n, w)
               /\ UNCHANGED <<ask, granted, restarts, now>>
  <1> DEFINE n == CounterOf[k]
             m == CounterOf[l]
             e == Incremented(counter[n][w], k)
             f == Incremented(counter[m][u], l)
  <1>1. k \in Keys /\ n \in Counters /\ m \in Counters
    BY CountersAssumption DEF Governed
  <1>2. e \in [count : Nat, until : Nat] /\ f \in [count : Nat, until : Nat]
    BY <1>1, IncrementedType
  <1>3. /\ counter' = [counter EXCEPT ![m][u] = f]
        /\ orphans[m][u] > 0
        /\ untold' = IF OverLimit(f.count, l) THEN untold
                     ELSE [untold EXCEPT ![m][u] = untold[m][u] + 1]
        /\ UNCHANGED <<ask, granted, restarts, now>>
    BY DEF ExecuteOrphan, vars
  <1>4. m = n /\ u = w => f = e /\ Limit[l] = Limit[k]
    BY <1>1, SameCounter DEF Incremented, Lifetime
  <1>5. QuietAt(n, w)
    BY <1>3, Unmoved
  <1>6. untold[m][u] + 1 \in Nat /\ Limit[k] \in Nat
    BY <1>1, LimitAssumption DEF RedisTypeOK, CounterTypeOK
  <1> HIDE DEF n, m, e, f
  <1>7. counter'[n][w] = IF n = m /\ w = u THEN f ELSE counter[n][w]
    BY <1>1, <1>2, <1>3, Cell DEF RedisTypeOK, CounterTypeOK
  <1>8. [untold EXCEPT ![m][u] = untold[m][u] + 1][n][w]
           = IF n = m /\ w = u THEN untold[m][u] + 1 ELSE untold[n][w]
    BY <1>1, <1>6, Cell DEF RedisTypeOK, CounterTypeOK
  <1>9. e.count > Limit[k] <=> ~(e.count <= Limit[k])
    BY <1>2, <1>6
  <1>10. /\ m = n /\ u = w /\ e.count <= Limit[k] => untold'[n][w] = untold[n][w] + 1
         /\ m = n /\ u = w /\ e.count > Limit[k] => untold'[n][w] = untold[n][w]
         /\ ~(m = n /\ u = w) => untold'[n][w] = untold[n][w]
    BY <1>3, <1>4, <1>8, <1>9 DEF OverLimit
  <1>11. m = n /\ u = w => counter'[n][w] = e /\ orphans[n][w] > 0
    BY <1>3, <1>4, <1>7
  <1>12. ~(m = n /\ u = w) => counter'[n][w] = counter[n][w]
    BY <1>7
  <1>13. QED
    BY <1>3, <1>5, <1>10, <1>11, <1>12 DEF n, m, e

-----------------------------------------------------------------------------
\* The terms of what was used of a window.
LEMMA UsedType ==
    ASSUME RedisTypeOK, NEW k \in Governed, NEW w \in Ticks
    PROVE  LET n == CounterOf[k]
           IN  /\ granted[n][w] \in Nat /\ untold[n][w] \in Nat
               /\ Cardinality(Pending(n, w)) \in Nat
               /\ Cardinality(Hopeful(n, w)) \in 0 .. Cardinality(Callers)
               /\ Used(n, w) \in Nat
               /\ counter[n][w] \in [count : Nat, until : Nat]
               /\ orphans[n][w] \in Nat
               /\ Limit[k] \in Nat \ {0} /\ Window[k] \in Nat \ {0}
               /\ k \in Keys /\ Time \in Nat /\ w \in Nat /\ restarts \in Nat
  <1>1. k \in Keys /\ CounterOf[k] \in Counters
    BY CountersAssumption DEF Governed
  <1>2. /\ Cardinality(Pending(CounterOf[k], w)) \in Nat
        /\ Cardinality(Hopeful(CounterOf[k], w)) \in 0 .. Cardinality(Callers)
    <2>1. Pending(CounterOf[k], w) \subseteq Callers /\ Hopeful(CounterOf[k], w) \subseteq Callers
      BY DEF Pending, Hopeful
    <2>2. QED
      BY <2>1, CountSubset
  <1>3. Time \in Nat /\ w \in Nat /\ restarts \in Nat
    BY TimeType DEF RedisTypeOK, CounterTypeOK, Ticks
  <1>4. Limit[k] \in Nat \ {0} /\ Window[k] \in Nat \ {0}
    BY <1>1, LimitAssumption, WindowAssumption DEF Governed
  <1>5. QED
    BY <1>1, <1>2, <1>3, <1>4 DEF RedisTypeOK, CounterTypeOK, Used

LEMMA UsedTypeNext ==
    ASSUME RedisTypeOK', NEW k \in Governed, NEW w \in Ticks
    PROVE  LET n == CounterOf[k]
           IN  /\ granted'[n][w] \in Nat /\ untold'[n][w] \in Nat
               /\ Cardinality(Pending(n, w)') \in Nat
               /\ Cardinality(Hopeful(n, w)') \in 0 .. Cardinality(Callers)
               /\ Used(n, w)' \in Nat
               /\ counter'[n][w] \in [count : Nat, until : Nat]
               /\ orphans'[n][w] \in Nat
               /\ Time' \in Nat /\ restarts' \in Nat
  <1>1. k \in Keys /\ CounterOf[k] \in Counters
    BY CountersAssumption DEF Governed
  <1>2. /\ Cardinality(Pending(CounterOf[k], w)') \in Nat
        /\ Cardinality(Hopeful(CounterOf[k], w)') \in 0 .. Cardinality(Callers)
    <2>1. Pending(CounterOf[k], w)' \subseteq Callers /\ Hopeful(CounterOf[k], w)' \subseteq Callers
      BY DEF Pending, Hopeful
    <2>2. QED
      BY <2>1, CountSubset
  <1>3. restarts' \in Nat
    BY DEF RedisTypeOK, CounterTypeOK
  <1>4. Time' \in Nat
    BY DriftAssumption DEF RedisTypeOK, TypeOK, Time, Ticks
  <1>5. QED
    BY <1>1, <1>2, <1>3, <1>4 DEF RedisTypeOK, CounterTypeOK, Used

\* A step that uses no less, counts no more and turns nobody away.
LEMMA AccountedKept ==
    ASSUME RedisTypeOK, RedisTypeOK', Accounted,
           \A k \in Governed, w \in Ticks :
              /\ counter'[CounterOf[k]][w].count <= counter[CounterOf[k]][w].count
              /\ Used(CounterOf[k], w)' >= Used(CounterOf[k], w),
           \A d \in Callers : Turned(d)' =>
              Turned(d) /\ ask'[d].key = ask[d].key /\ ask'[d].start = ask[d].start
    PROVE  Accounted'
  <1>1. ASSUME NEW k \in Governed, NEW w \in Ticks
        PROVE  \/ counter'[CounterOf[k]][w].count <= Used(CounterOf[k], w)'
               \/ Used(CounterOf[k], w)' >= Limit[k]
    <2>1. /\ Used(CounterOf[k], w) \in Nat /\ Used(CounterOf[k], w)' \in Nat
          /\ counter[CounterOf[k]][w].count \in Nat /\ counter'[CounterOf[k]][w].count \in Nat
          /\ Limit[k] \in Nat
      BY UsedType, UsedTypeNext
    <2>2. QED
      BY <2>1 DEF Accounted
  <1>2. ASSUME NEW d \in Callers, Turned(d)'
        PROVE  (Used(CounterOf[ask[d].key], ask[d].start) >= Limit[ask[d].key])'
    <2>1. Turned(d) /\ ask'[d].key = ask[d].key /\ ask'[d].start = ask[d].start
      BY <1>2
    <2>2. ask[d].key \in Governed /\ ask[d].start \in Ticks
      BY <2>1, AskFacts DEF Turned
    <2>3. PICK k \in Governed, w \in Ticks : k = ask[d].key /\ w = ask[d].start
      BY <2>2
    <2>4. /\ Used(CounterOf[k], w) \in Nat /\ Used(CounterOf[k], w)' \in Nat
          /\ Limit[k] \in Nat
      BY UsedType, UsedTypeNext
    <2>5. Used(CounterOf[k], w)' >= Used(CounterOf[k], w)
      OBVIOUS
    <2>6. Used(CounterOf[k], w) >= Limit[k]
      BY <2>1, <2>3 DEF Accounted
    <2>7. Used(CounterOf[k], w)' >= Limit[k]
      BY <2>4, <2>5, <2>6
    <2>8. k = ask'[d].key /\ w = ask'[d].start
      BY <2>1, <2>3
    <2>9. QED
      BY <2>7, <2>8
  <1>3. QED
    BY <1>1, <1>2 DEF Accounted

LEMMA AccountedStep ==
    ASSUME RedisTypeOK, RedisTypeOK', Accounted, [RedisNext]_allVars
    PROVE  Accounted'
  <1>1. ASSUME UNCHANGED <<ask, counter, granted, untold>>
        PROVE  Accounted'
    <2>1. \A k \in Governed, w \in Ticks : Used(CounterOf[k], w)' = Used(CounterOf[k], w)
      BY <1>1, Unmoved DEF Used, QuietAt
    <2>2. \A d \in Callers : Turned(d)' => Turned(d)
      BY <1>1 DEF Turned
    <2>3. \A k \in Governed, w \in Ticks :
             /\ Used(CounterOf[k], w) \in Nat
             /\ counter[CounterOf[k]][w].count \in Nat
      BY UsedType
    <2>4. QED
      BY <1>1, <2>1, <2>2, <2>3, AccountedKept
  <1>2. ASSUME NEW c \in Callers, ReadRedisClock(c)
        PROVE  Accounted'
    <2>1. \A k \in Governed, w \in Ticks : Used(CounterOf[k], w)' = Used(CounterOf[k], w)
      BY <1>2, EnterPending DEF Used, ReadRedisClock
    <2>2. \A d \in Callers : d # c => ask'[d] = ask[d]
      BY <1>2 DEF ReadRedisClock, RedisTypeOK, CounterTypeOK
    <2>3. ask'[c].phase = "sent"
      BY <1>2 DEF ReadRedisClock, RedisTypeOK, CounterTypeOK
    <2>4. \A d \in Callers : Turned(d)' =>
             Turned(d) /\ ask'[d].key = ask[d].key /\ ask'[d].start = ask[d].start
      BY <2>2, <2>3 DEF Turned
    <2>5. \A k \in Governed, w \in Ticks :
             /\ Used(CounterOf[k], w) \in Nat
             /\ counter[CounterOf[k]][w].count \in Nat
             /\ counter' = counter
      BY <1>2, UsedType DEF ReadRedisClock
    <2>6. QED
      BY <2>1, <2>4, <2>5, AccountedKept
  <1>3. ASSUME NEW c \in Callers, Execute(c)
        PROVE  Accounted'
    <2>1. ASSUME NEW k \in Governed, NEW w \in Ticks
          PROVE  /\ Used(CounterOf[k], w)' >= Used(CounterOf[k], w)
                 /\ \/ counter'[CounterOf[k]][w].count <= Used(CounterOf[k], w)'
                    \/ Used(CounterOf[k], w)' >= Limit[k]
                 /\ At(c, k, w) /\ ask'[c].count > Limit[k] => Used(CounterOf[k], w)' >= Limit[k]
      <3> DEFINE n == CounterOf[k]
                 e == Incremented(counter[n][w], k)
      <3>1. /\ Cardinality(Pending(n, w)) \in Nat /\ Cardinality(Pending(n, w)') \in Nat
            /\ granted[n][w] \in Nat /\ untold[n][w] \in Nat /\ Limit[k] \in Nat \ {0}
            /\ counter[n][w].count \in Nat
        BY UsedType, UsedTypeNext
      <3>2. granted' = granted /\ untold' = untold
        BY <1>3 DEF Execute
      <3>3. e.count = counter[n][w].count + 1 \/ e.count = 1
        <4>1. counter[n][w] \in [count : Nat, until : Nat]
          BY UsedType
        <4>2. QED
          BY <4>1 DEF Incremented
      <3>4. counter[n][w].count <= Used(n, w) \/ Used(n, w) >= Limit[k]
        BY DEF Accounted
      <3>5. CASE At(c, k, w) /\ e.count <= Limit[k]
        <4>1. /\ counter'[n][w] = e /\ ask'[c].count = e.count
              /\ Cardinality(Pending(n, w)') = Cardinality(Pending(n, w)) + 1
          BY <1>3, <3>5, ExecuteCounts
        <4> HIDE DEF n, e
        <4>2. QED
          BY <3>1, <3>2, <3>3, <3>4, <3>5, <4>1 DEF Used, n
      <3>6. CASE At(c, k, w) /\ e.count > Limit[k]
        <4>1. /\ counter'[n][w] = e
              /\ Cardinality(Pending(n, w)') = Cardinality(Pending(n, w))
          BY <1>3, <3>6, ExecuteCounts
        <4> HIDE DEF n, e
        <4>2. QED
          BY <3>1, <3>2, <3>3, <3>4, <3>6, <4>1 DEF Used, n
      <3>7. CASE ~At(c, k, w)
        <4>1. /\ counter'[n][w] = counter[n][w]
              /\ Cardinality(Pending(n, w)') = Cardinality(Pending(n, w))
          BY <1>3, <3>7, ExecuteCounts DEF QuietAt
        <4> HIDE DEF n, e
        <4>2. QED
          BY <3>1, <3>2, <3>4, <3>7, <4>1 DEF Used, n
      <3>8. e.count > Limit[k] \/ e.count <= Limit[k]
        BY <3>1, <3>3
      <3>9. QED
        BY <3>5, <3>6, <3>7, <3>8
    <2>2. ASSUME NEW d \in Callers, Turned(d)'
          PROVE  (Used(CounterOf[ask[d].key], ask[d].start) >= Limit[ask[d].key])'
      <3>1. /\ ask[c].key \in Governed /\ ask[c].start \in Ticks
        BY <1>3, AskFacts DEF Execute
      <3>2. /\ ask'[c].key = ask[c].key /\ ask'[c].start = ask[c].start
            /\ ask'[c].phase = "answered"
            /\ \A x \in Callers : x # c => ask'[x] = ask[x]
        BY <1>3, <3>1, ExecuteCounts
      <3>3. ask[d].key \in Governed /\ ask[d].start \in Ticks
        BY <2>2, <3>1, <3>2, AskFacts DEF Turned
      <3>4. PICK k \in Governed, w \in Ticks : k = ask[d].key /\ w = ask[d].start
        BY <3>3
      <3>5. k = ask'[d].key /\ w = ask'[d].start
        BY <3>2, <3>4
      <3>6. Used(CounterOf[k], w)' >= Limit[k]
        <4>1. CASE d = c
          <5>1. At(c, k, w) /\ ask'[c].count > Limit[k]
            <6>1. ask'[c].count > Limit[k]
              BY <2>2, <3>2, <3>5, <4>1 DEF Turned, OverLimit
            <6>2. QED
              BY <3>4, <4>1, <6>1 DEF At
          <5>2. QED
            BY <2>1, <5>1
        <4>2. CASE d # c
          <5>1. Turned(d)
            BY <2>2, <3>2, <4>2 DEF Turned
          <5>2. Used(CounterOf[k], w) >= Limit[k]
            BY <3>4, <5>1 DEF Accounted
          <5>3. /\ Used(CounterOf[k], w) \in Nat /\ Used(CounterOf[k], w)' \in Nat
                /\ Limit[k] \in Nat
            BY UsedType, UsedTypeNext
          <5>4. Used(CounterOf[k], w)' >= Used(CounterOf[k], w)
            BY <2>1
          <5>5. QED
            BY <5>2, <5>3, <5>4
        <4>3. QED
          BY <4>1, <4>2
      <3>7. QED
        BY <3>5, <3>6
    <2>3. QED
      BY <2>1, <2>2 DEF Accounted
  <1>4. ASSUME NEW c \in Callers, Grant(c)
        PROVE  Accounted'
    <2>1. ASSUME NEW k \in Governed, NEW w \in Ticks
          PROVE  /\ counter'[CounterOf[k]][w].count <= counter[CounterOf[k]][w].count
                 /\ Used(CounterOf[k], w)' >= Used(CounterOf[k], w)
      <3> DEFINE n == CounterOf[k]
      <3>1. /\ Cardinality(Pending(n, w)) \in Nat /\ Cardinality(Pending(n, w)') \in Nat
            /\ granted[n][w] \in Nat /\ untold[n][w] \in Nat /\ counter[n][w].count \in Nat
        BY UsedType, UsedTypeNext
      <3>2. counter' = counter /\ untold' = untold
        BY <1>4 DEF Grant
      <3>3. granted'[n][w] + Cardinality(Pending(n, w)') = granted[n][w] + Cardinality(Pending(n, w))
        <4>1. \/ /\ granted'[n][w] = granted[n][w] + 1
                 /\ Cardinality(Pending(n, w)') = Cardinality(Pending(n, w)) - 1
              \/ /\ granted'[n][w] = granted[n][w]
                 /\ Cardinality(Pending(n, w)') = Cardinality(Pending(n, w))
          BY <1>4, GrantCounts DEF QuietAt
        <4> HIDE DEF n
        <4>2. QED
          BY <3>1, <4>1
      <3>4. granted'[n][w] \in Nat
        BY UsedTypeNext
      <3> HIDE DEF n
      <3>5. Used(n, w)' = Used(n, w) /\ Used(n, w) \in Nat
        BY <3>1, <3>2, <3>3, <3>4 DEF Used, n
      <3>6. QED
        BY <3>1, <3>2, <3>5 DEF n
    <2>2. \A d \in Callers : Turned(d)' =>
             Turned(d) /\ ask'[d].key = ask[d].key /\ ask'[d].start = ask[d].start
      <3>1. ask'[c] = NoAsk /\ \A d \in Callers : d # c => ask'[d] = ask[d]
        BY <1>4 DEF Grant, RedisTypeOK, CounterTypeOK
      <3>2. QED
        BY <3>1 DEF Turned, NoAsk
    <2>3. QED
      BY <2>1, <2>2, AccountedKept
  <1>5. ASSUME NEW c \in Callers, Fail(c)
        PROVE  Accounted'
    <2>1. ASSUME NEW k \in Governed, NEW w \in Ticks
          PROVE  /\ counter'[CounterOf[k]][w].count <= counter[CounterOf[k]][w].count
                 /\ Used(CounterOf[k], w)' >= Used(CounterOf[k], w)
      <3> DEFINE n == CounterOf[k]
      <3>1. /\ Cardinality(Pending(n, w)) \in Nat /\ Cardinality(Pending(n, w)') \in Nat
            /\ granted[n][w] \in Nat /\ untold[n][w] \in Nat /\ counter[n][w].count \in Nat
        BY UsedType, UsedTypeNext
      <3>2. counter' = counter /\ granted' = granted
        BY <1>5 DEF Fail
      <3>3. \/ /\ Cardinality(Pending(n, w)') = Cardinality(Pending(n, w))
               /\ untold'[n][w] = untold[n][w]
            \/ /\ Cardinality(Pending(n, w)') = Cardinality(Pending(n, w)) - 1
               /\ untold'[n][w] = untold[n][w] + 1
        BY <1>5, FailCounts
      <3> HIDE DEF n
      <3>4. Used(n, w)' = Used(n, w) /\ Used(n, w) \in Nat
        BY <3>1, <3>2, <3>3 DEF Used
      <3>5. QED
        BY <3>1, <3>2, <3>4 DEF n
    <2>2. \A d \in Callers : Turned(d)' =>
             Turned(d) /\ ask'[d].key = ask[d].key /\ ask'[d].start = ask[d].start
      <3>1. ask[c] \in Ask
        BY <1>5, AskFacts DEF Fail
      <3>2. ask'[c].phase = "failed" /\ \A d \in Callers : d # c => ask'[d] = ask[d]
        BY <1>5, <3>1 DEF Fail, RedisTypeOK, CounterTypeOK
      <3>3. QED
        BY <3>2 DEF Turned
    <2>3. QED
      BY <2>1, <2>2, AccountedKept
  <1>6. ASSUME NEW c \in Callers, Refuse(c) \/ FallBack(c) \/ FinishRedis(c)
        PROVE  Accounted'
    <2>1. \A k \in Governed, w \in Ticks : QuietAt(CounterOf[k], w)
      BY <1>6, RefuseCounts, LeaveRedisCounts
    <2>2. UNCHANGED <<counter, granted, untold>>
      BY <1>6 DEF Refuse, FallBack, FinishRedis
    <2>3. \A k \in Governed, w \in Ticks :
             /\ Used(CounterOf[k], w)' = Used(CounterOf[k], w)
             /\ Used(CounterOf[k], w) \in Nat
             /\ counter[CounterOf[k]][w].count \in Nat
      BY <2>1, <2>2, UsedType DEF Used, QuietAt
    <2>4. \A d \in Callers : d # c => ask'[d] = ask[d]
      BY <1>6 DEF Refuse, FallBack, FinishRedis, RedisTypeOK, CounterTypeOK
    <2>5. Turned(c)' => Turned(c) /\ ask'[c].key = ask[c].key /\ ask'[c].start = ask[c].start
      <3>1. CASE Refuse(c)
        <4>1. ask[c] \in Ask
          BY <3>1, AskFacts DEF Refuse
        <4>2. QED
          BY <3>1, <4>1 DEF Refuse, Turned, RedisTypeOK, CounterTypeOK, Ask
      <3>2. CASE FallBack(c) \/ FinishRedis(c)
        <4>1. ask'[c] = NoAsk
          BY <3>2 DEF FallBack, FinishRedis, RedisTypeOK, CounterTypeOK
        <4>2. QED
          BY <4>1 DEF Turned, NoAsk
      <3>3. QED
        BY <1>6, <3>1, <3>2
    <2>6. \A d \in Callers : Turned(d)' =>
             Turned(d) /\ ask'[d].key = ask[d].key /\ ask'[d].start = ask[d].start
      BY <2>4, <2>5 DEF Turned
    <2>7. QED
      BY <2>2, <2>3, <2>6, AccountedKept
  <1>7. ASSUME NEW l \in Keys, NEW u \in Ticks, ExecuteOrphan(l, u)
        PROVE  Accounted'
    <2>1. ASSUME NEW k \in Governed, NEW w \in Ticks
          PROVE  /\ Used(CounterOf[k], w)' >= Used(CounterOf[k], w)
                 /\ \/ counter'[CounterOf[k]][w].count <= Used(CounterOf[k], w)'
                    \/ Used(CounterOf[k], w)' >= Limit[k]
      <3> DEFINE n == CounterOf[k]
                 e == Incremented(counter[n][w], k)
                 at == CounterOf[l] = n /\ u = w
      <3>1. /\ Cardinality(Pending(n, w)) \in Nat
            /\ granted[n][w] \in Nat /\ untold[n][w] \in Nat /\ Limit[k] \in Nat \ {0}
            /\ counter[n][w].count \in Nat
        BY UsedType
      <3>2. e.count = counter[n][w].count + 1 \/ e.count = 1
        <4>1. counter[n][w] \in [count : Nat, until : Nat]
          BY UsedType
        <4>2. QED
          BY <4>1 DEF Incremented
      <3>3. counter[n][w].count <= Used(n, w) \/ Used(n, w) >= Limit[k]
        BY DEF Accounted
      <3>4. /\ granted' = granted
            /\ Cardinality(Pending(n, w)') = Cardinality(Pending(n, w))
            /\ at => /\ counter'[n][w] = e
                     /\ e.count <= Limit[k] => untold'[n][w] = untold[n][w] + 1
                     /\ e.count > Limit[k] => untold'[n][w] = untold[n][w]
            /\ ~at => /\ counter'[n][w] = counter[n][w]
                      /\ untold'[n][w] = untold[n][w]
        BY <1>7, OrphanCounts DEF QuietAt
      <3> HIDE DEF n, e, at
      <3>5. QED
        BY <3>1, <3>2, <3>3, <3>4 DEF Used, n
    <2>2. ask' = ask
      BY <1>7 DEF ExecuteOrphan
    <2>3. ASSUME NEW d \in Callers, Turned(d)'
          PROVE  (Used(CounterOf[ask[d].key], ask[d].start) >= Limit[ask[d].key])'
      <3>1. Turned(d)
        BY <2>2, <2>3 DEF Turned
      <3>2. ask[d].key \in Governed /\ ask[d].start \in Ticks
        BY <3>1, AskFacts DEF Turned
      <3>3. PICK k \in Governed, w \in Ticks : k = ask[d].key /\ w = ask[d].start
        BY <3>2
      <3>4. Used(CounterOf[k], w) >= Limit[k]
        BY <3>1, <3>3 DEF Accounted
      <3>5. /\ Used(CounterOf[k], w) \in Nat /\ Used(CounterOf[k], w)' \in Nat
            /\ Limit[k] \in Nat
        BY UsedType, UsedTypeNext
      <3>6. Used(CounterOf[k], w)' >= Used(CounterOf[k], w)
        BY <2>1
      <3>7. Used(CounterOf[k], w)' >= Limit[k]
        BY <3>4, <3>5, <3>6
      <3>8. QED
        BY <2>2, <3>3, <3>7
    <2>4. QED
      BY <2>1, <2>3 DEF Accounted
  <1>8. CASE RestartRedis
    <2>1. ask' = ask /\ granted' = granted /\ untold' = untold
      BY <1>8 DEF RestartRedis
    <2>2. \A k \in Governed, w \in Ticks :
             /\ counter'[CounterOf[k]][w].count <= counter[CounterOf[k]][w].count
             /\ Used(CounterOf[k], w)' >= Used(CounterOf[k], w)
      <3> SUFFICES ASSUME NEW k \in Governed, NEW w \in Ticks
                   PROVE  /\ counter'[CounterOf[k]][w].count <= counter[CounterOf[k]][w].count
                          /\ Used(CounterOf[k], w)' >= Used(CounterOf[k], w)
        OBVIOUS
      <3>1. /\ counter[CounterOf[k]][w].count \in Nat /\ Used(CounterOf[k], w) \in Nat
            /\ CounterOf[k] \in Counters
        BY UsedType, CountersAssumption DEF Governed
      <3>2. counter'[CounterOf[k]][w] = Absent
        BY <1>8, <3>1 DEF RestartRedis
      <3>3. Used(CounterOf[k], w)' = Used(CounterOf[k], w)
        BY <2>1, Unmoved DEF Used, QuietAt
      <3>4. QED
        BY <3>1, <3>2, <3>3 DEF Absent
    <2>3. \A d \in Callers : Turned(d)' => Turned(d)
      BY <2>1 DEF Turned
    <2>4. QED
      BY <2>1, <2>2, <2>3, AccountedKept
  <1>9. ASSUME NEW c \in Callers,
               \/ PassUngoverned(c) \/ MemoryAllow(c) \/ Resend(c)
               \/ AdmitLocally(c) \/ DenyLocally(c) \/ FinishLocal(c)
        PROVE  UNCHANGED <<ask, counter, granted, untold>>
    BY <1>9 DEF PassUngoverned, MemoryAllow, Resend, AdmitLocally, DenyLocally, FinishLocal,
                redisVars
  <1>10. ASSUME NEW n \in Counters, NEW w \in Ticks, DropOrphan(n, w)
         PROVE  UNCHANGED <<ask, counter, granted, untold>>
    BY <1>10 DEF DropOrphan
  <1>11. (\E r \in Clocks : PassTime(r)) \/ UNCHANGED allVars => UNCHANGED <<ask, counter, granted, untold>>
    BY DEF PassTime, allVars, redisVars
  <1>12. QED
    BY <1>1, <1>2, <1>3, <1>4, <1>5, <1>6, <1>7, <1>8, <1>9, <1>10, <1>11
    DEF RedisNext, Proceed

-----------------------------------------------------------------------------
LEMMA RedisInitTypes == RedisInit => RedisTypeOK /\ Accounted
  <1> SUFFICES ASSUME RedisInit PROVE RedisTypeOK /\ Accounted
    OBVIOUS
  <1>1. TypeOK
    BY InitIInv DEF RedisInit, IInv
  <1>2. CounterTypeOK
    BY FaultsAssumption DEF RedisInit, CounterTypeOK, Absent
  <1>3. RedisTypeOK
    BY <1>1, <1>2 DEF RedisInit, RedisTypeOK
  <1>4. \A k \in Governed, w \in Ticks :
           counter[CounterOf[k]][w].count = 0 /\ Used(CounterOf[k], w) \in Nat
    <2> SUFFICES ASSUME NEW k \in Governed, NEW w \in Ticks
                 PROVE  counter[CounterOf[k]][w].count = 0 /\ Used(CounterOf[k], w) \in Nat
      OBVIOUS
    <2>1. CounterOf[k] \in Counters
      BY CountersAssumption DEF Governed
    <2>2. QED
      BY <1>3, <2>1, UsedType DEF RedisInit, Absent
  <1>5. \A c \in Callers : ~Turned(c)
    BY DEF RedisInit, Turned, NoAsk
  <1>6. Accounted
    <2>1. \A k \in Governed, w \in Ticks : counter[CounterOf[k]][w].count <= Used(CounterOf[k], w)
      BY <1>4
    <2>2. QED
      BY <1>5, <2>1 DEF Accounted
  <1>7. QED
    BY <1>3, <1>6

\* The types of the shared limiter: a caller is in one limiter at a time, and
\* only governed keys reach Redis.
THEOREM RedisTypeCorrect == RedisSpec => []RedisTypeOK
  <1>1. RedisInit => RedisTypeOK
    BY RedisInitTypes
  <1>2. RedisTypeOK /\ IInv' /\ [RedisNext]_allVars => RedisTypeOK'
    BY RedisTypeStep
  <1>3. RedisSpec => []IInv
    BY FallbackImplements, Inductive, PTL
  <1>4. QED
    BY <1>1, <1>2, <1>3, PTL DEF RedisSpec

LEMMA AlwaysAccounted == RedisSpec => []Accounted
  <1>1. RedisInit => Accounted
    BY RedisInitTypes
  <1>2. RedisTypeOK /\ RedisTypeOK' /\ Accounted /\ [RedisNext]_allVars => Accounted'
    BY AccountedStep
  <1>3. QED
    BY <1>1, <1>2, RedisTypeCorrect, PTL DEF RedisSpec

\* Redis refuses nobody early, however many answers are lost, increments
\* resent or counters forgotten: a refused call finds the limit of its window
\* used up by calls that were, or would have been, let through.
THEOREM RefusedInTurn == RedisSpec => []RefusalJustified
  <1>1. RedisTypeOK /\ Accounted => RefusalJustified
    BY DEF Accounted, RefusalJustified, Used, Turned
  <1>2. QED
    BY <1>1, RedisTypeCorrect, AlwaysAccounted, PTL

-----------------------------------------------------------------------------
\* Who asks for a window has read a clock that shows it.
LEMMA AskBegun ==
    ASSUME RedisTypeOK, Synchronised, NEW c \in Callers, ask[c].phase # "idle"
    PROVE  Begun(ask[c].start)
  <1>1. ask[c].key \in Keys /\ ask[c].start \in Ticks /\ ask[c].start <= Clock(ask[c].key)
    BY AskFacts
  <1>2. /\ Clock(ask[c].key) <= Time + MaxAhead /\ Clock(ask[c].key) \in Nat
        /\ Time \in Nat /\ MaxAhead \in Nat
    BY <1>1, ClockNear DEF RedisTypeOK
  <1>3. QED
    BY <1>1, <1>2 DEF Begun, Ticks

\* Orphans are of windows that have begun.
LEMMA OrphansBegun ==
    ASSUME RedisTypeOK, Synchronised, Untouched, [RedisNext]_allVars,
           NEW k \in Governed, NEW w \in Ticks, orphans'[CounterOf[k]][w] > 0, RedisTypeOK'
    PROVE  Begun(w)
  <1> DEFINE n == CounterOf[k]
  <1>1. n \in Counters /\ orphans[n][w] \in Nat
    BY UsedType, CountersAssumption DEF Governed
  <1>2. orphans[n][w] > 0 => Begun(w)
    BY <1>1 DEF Untouched
  <1>3. SUFFICES ASSUME orphans[n][w] = 0 PROVE Begun(w)
    BY <1>1, <1>2
  <1>4. ASSUME NEW c \in Callers, Fail(c) \/ Resend(c)
        PROVE  Begun(w)
    <2> DEFINE m == CounterOf[ask[c].key]
               u == ask[c].start
    <2>1. m \in Counters /\ u \in Ticks /\ Begun(u)
      BY <1>4, AskFacts, AskBegun DEF Fail, Resend
    <2>2. orphans' = orphans \/ orphans' = [orphans EXCEPT ![m][u] = orphans[m][u] + 1]
      BY <1>4 DEF Fail, Resend
    <2>3. n \in Counters /\ orphans \in [Counters -> [Ticks -> Nat]] /\ orphans[n][w] = 0
          /\ orphans'[n][w] > 0
      BY <1>1, <1>3 DEF RedisTypeOK, CounterTypeOK
    <2> HIDE DEF m, u, n
    <2>4. orphans[m][u] + 1 \in Nat
      BY <2>1, <2>3
    <2>5. [orphans EXCEPT ![m][u] = orphans[m][u] + 1][n][w]
             = IF n = m /\ w = u THEN orphans[m][u] + 1 ELSE orphans[n][w]
      BY <2>1, <2>3, <2>4, Cell
    <2>6. w = u
      BY <2>2, <2>3, <2>5
    <2>7. QED
      BY <2>1, <2>6 DEF u
  <1>5. ASSUME NEW m \in Counters, NEW u \in Ticks,
               orphans[m][u] > 0, orphans' = [orphans EXCEPT ![m][u] = orphans[m][u] - 1]
        PROVE  FALSE
    <2>1. n \in Counters /\ orphans \in [Counters -> [Ticks -> Nat]] /\ orphans[n][w] = 0
          /\ orphans'[n][w] > 0
      BY <1>1, <1>3 DEF RedisTypeOK, CounterTypeOK
    <2>2. orphans[m][u] \in Nat /\ orphans[m][u] - 1 \in Nat
      BY <1>5, <2>1
    <2> HIDE DEF n
    <2>3. [orphans EXCEPT ![m][u] = orphans[m][u] - 1][n][w]
             = IF n = m /\ w = u THEN orphans[m][u] - 1 ELSE orphans[n][w]
      BY <2>1, <2>2, Cell
    <2>4. QED
      BY <1>5, <2>1, <2>2, <2>3
  <1>6. ASSUME NEW l \in Keys, NEW u \in Ticks, ExecuteOrphan(l, u)
        PROVE  FALSE
    <2>1. CounterOf[l] \in Counters
      BY CountersAssumption
    <2>2. QED
      BY <1>5, <1>6, <2>1 DEF ExecuteOrphan
  <1>7. ASSUME NEW m \in Counters, NEW u \in Ticks, DropOrphan(m, u)
        PROVE  FALSE
    BY <1>5, <1>7 DEF DropOrphan
  <1>8. orphans' # orphans
    BY <1>3
  <1>9. ASSUME NEW c \in Callers,
               \/ PassUngoverned(c) \/ MemoryAllow(c) \/ ReadRedisClock(c) \/ Execute(c)
               \/ Grant(c) \/ Refuse(c) \/ FallBack(c) \/ FinishRedis(c)
               \/ AdmitLocally(c) \/ DenyLocally(c) \/ FinishLocal(c)
        PROVE  orphans' = orphans
    BY <1>9 DEF PassUngoverned, MemoryAllow, ReadRedisClock, Execute, Grant, Refuse, FallBack,
                FinishRedis, AdmitLocally, DenyLocally, FinishLocal, redisVars
  <1>10. RestartRedis \/ (\E r \in Clocks : PassTime(r)) \/ UNCHANGED allVars => orphans' = orphans
    BY DEF RestartRedis, PassTime, allVars, redisVars
  <1>11. QED
    BY <1>4, <1>6, <1>7, <1>8, <1>9, <1>10 DEF RedisNext, Proceed

\* What an increment finds: a living counter, none, or one that has expired.
LEMMA IncrementedFacts ==
    ASSUME RedisTypeOK, Untouched, NEW k \in Governed, NEW w \in Ticks
    PROVE  LET x == counter[CounterOf[k]][w]
               e == Incremented(x, k)
           IN  /\ e \in [count : Nat, until : Nat] /\ e.count > 0
               /\ \/ x # Absent /\ e.count = x.count + 1 /\ e.until = x.until
                  \/ x = Absent /\ e.count = x.count + 1 /\ e.until = Time + Window[k]
                  \/ /\ x # Absent /\ x.until <= Time
                     /\ e.count = 1 /\ e.until = Time + Window[k]
  <1> DEFINE x == counter[CounterOf[k]][w]
  <1>1. /\ x \in [count : Nat, until : Nat] /\ Window[k] \in Nat \ {0} /\ Time \in Nat
    BY UsedType
  <1> HIDE DEF x
  <1>2. CASE Live(x)
    <2>1. x # Absent
      BY <1>1, <1>2 DEF Live, Absent
    <2>2. Incremented(x, k) = [x EXCEPT !.count = x.count + 1]
      BY <1>2 DEF Incremented
    <2>3. QED
      BY <1>1, <2>1, <2>2 DEF x
  <1>3. CASE ~Live(x)
    <2>1. Incremented(x, k) = [count |-> 1, until |-> Time + Window[k]]
      BY <1>3 DEF Incremented, Lifetime
    <2>2. x.until <= Time
      BY <1>1, <1>3 DEF Live
    <2>3. CASE x = Absent
      BY <1>1, <2>1, <2>3 DEF x, Absent
    <2>4. CASE x # Absent
      BY <1>1, <2>1, <2>2, <2>4 DEF x
    <2>5. QED
      BY <2>3, <2>4
  <1>4. QED
    BY <1>2, <1>3

\* What a step does to a counter: nothing, an increment, or a restart.
LEMMA CounterStep ==
    ASSUME RedisTypeOK, Synchronised, Untouched, [RedisNext]_allVars,
           NEW k \in Governed, NEW w \in Ticks
    PROVE  LET x == counter[CounterOf[k]][w]
               y == counter'[CounterOf[k]][w]
           IN  \/ y = x
               \/ y = Absent
               \/ y = Incremented(x, k) /\ Begun(w)
  <1> DEFINE x == counter[CounterOf[k]][w]
             y == counter'[CounterOf[k]][w]
  <1>1. ASSUME NEW c \in Callers, Execute(c)
        PROVE  y = x \/ (y = Incremented(x, k) /\ Begun(w))
    <2>1. At(c, k, w) => y = Incremented(x, k)
      BY <1>1, ExecuteCounts
    <2>2. ~At(c, k, w) => y = x
      BY <1>1, ExecuteCounts
    <2>3. At(c, k, w) => Begun(w)
      BY <1>1, AskBegun DEF Execute, At
    <2> HIDE DEF x, y
    <2>4. QED
      BY <2>1, <2>2, <2>3
  <1>2. ASSUME NEW l \in Keys, NEW u \in Ticks, ExecuteOrphan(l, u)
        PROVE  y = x \/ (y = Incremented(x, k) /\ Begun(w))
    <2>1. /\ CounterOf[l] = CounterOf[k] /\ u = w =>
                y = Incremented(x, k) /\ orphans[CounterOf[k]][w] > 0
          /\ ~(CounterOf[l] = CounterOf[k] /\ u = w) => y = x
      BY <1>2, OrphanCounts
    <2>2. orphans[CounterOf[k]][w] > 0 => Begun(w)
      BY DEF Untouched
    <2>3. CASE CounterOf[l] = CounterOf[k] /\ u = w
      BY <2>1, <2>2, <2>3
    <2>4. CASE ~(CounterOf[l] = CounterOf[k] /\ u = w)
      BY <2>1, <2>4
    <2>5. QED
      BY <2>3, <2>4
  <1>3. RestartRedis => y = Absent
    BY CountersAssumption DEF RestartRedis, Governed
  <1>4. ASSUME NEW c \in Callers,
               \/ PassUngoverned(c) \/ MemoryAllow(c) \/ ReadRedisClock(c) \/ Resend(c)
               \/ Grant(c) \/ Refuse(c) \/ Fail(c) \/ FallBack(c) \/ FinishRedis(c)
               \/ AdmitLocally(c) \/ DenyLocally(c) \/ FinishLocal(c)
        PROVE  y = x
    BY <1>4 DEF PassUngoverned, MemoryAllow, ReadRedisClock, Resend, Grant, Refuse, Fail,
                FallBack, FinishRedis, AdmitLocally, DenyLocally, FinishLocal, redisVars
  <1>5. ASSUME NEW n \in Counters, NEW u \in Ticks, DropOrphan(n, u)
        PROVE  y = x
    BY <1>5 DEF DropOrphan
  <1>6. (\E r \in Clocks : PassTime(r)) \/ UNCHANGED allVars => y = x
    BY DEF PassTime, allVars, redisVars
  <1> HIDE DEF x, y
  <1>7. y = x \/ y = Absent \/ (y = Incremented(x, k) /\ Begun(w))
    BY <1>1, <1>2, <1>3, <1>4, <1>5, <1>6 DEF RedisNext, Proceed
  <1>8. QED
    BY <1>7 DEF x, y

\* Time goes on, and nothing else with it.
LEMMA ClockForward ==
    ASSUME RedisTypeOK, [RedisNext]_allVars
    PROVE  \/ now' = now
           \/ \E r \in Clocks : PassTime(r)
  <1>1. ASSUME NEW c \in Callers, Proceed(c) \/ PassUngoverned(c) \/ MemoryAllow(c) \/ FinishLocal(c)
        PROVE  now' = now
    BY <1>1 DEF Proceed, PassUngoverned, MemoryAllow, FinishLocal, Grant, Refuse, Fail, FallBack,
                AdmitLocally, DenyLocally, Admit, Deny, Finish, ReadClock, AllowUngoverned, vars
  <1>2. ASSUME NEW c \in Callers, ReadRedisClock(c) \/ Execute(c) \/ Resend(c) \/ FinishRedis(c)
        PROVE  now' = now
    BY <1>2 DEF ReadRedisClock, Execute, Resend, FinishRedis, vars
  <1>3. ASSUME NEW k \in Keys, NEW w \in Ticks, ExecuteOrphan(k, w)
        PROVE  now' = now
    BY <1>3 DEF ExecuteOrphan, vars
  <1>4. ASSUME NEW n \in Counters, NEW w \in Ticks, DropOrphan(n, w)
        PROVE  now' = now
    BY <1>4 DEF DropOrphan, vars
  <1>5. RestartRedis \/ UNCHANGED allVars => now' = now
    BY DEF RestartRedis, allVars, vars
  <1>6. QED
    BY <1>1, <1>2, <1>3, <1>4, <1>5 DEF RedisNext

LEMMA TimeForward ==
    ASSUME RedisTypeOK, [RedisNext]_allVars
    PROVE  Time \in Nat /\ Time' \in Nat /\ Time <= Time'
  <1>1. Time \in Nat
    BY TimeType DEF RedisTypeOK
  <1>2. CASE now' = now
    BY <1>1, <1>2 DEF Time
  <1>3. ASSUME NEW r \in Clocks, PassTime(r)
        PROVE  Time' = Time \/ Time' = Time + 1
    BY <1>3, DriftAssumption DEF PassTime, Tick, Time, RedisTypeOK, TypeOK
  <1>4. QED
    BY <1>1, <1>2, <1>3, ClockForward

\* The clocks stay together.
LEMMA SynchronisedStep ==
    ASSUME RedisTypeOK, Synchronised, [RedisNext]_allVars
    PROVE  Synchronised'
  <1>1. CASE now' = now
    BY <1>1 DEF Synchronised, Time
  <1>2. (\E r \in Clocks : PassTime(r)) => Synchronised'
    BY DEF PassTime
  <1>3. QED
    BY <1>1, <1>2, ClockForward

LEMMA UntouchedStep ==
    ASSUME RedisTypeOK, RedisTypeOK', Synchronised, Untouched, [RedisNext]_allVars
    PROVE  Untouched'
  <1> SUFFICES ASSUME NEW k \in Governed, NEW w \in Ticks
               PROVE  LET n == CounterOf[k]
                      IN  /\ ~Begun(w)' => orphans'[n][w] = 0 /\ counter'[n][w] = Absent
                          /\ counter'[n][w] # Absent => counter'[n][w].count > 0
    BY DEF Untouched
  <1> DEFINE n == CounterOf[k]
             x == counter[n][w]
             y == counter'[n][w]
  <1>1. w \in Nat /\ orphans'[n][w] \in Nat /\ MaxAhead \in Nat
    BY UsedType, UsedTypeNext, DriftAssumption
  <1>2. Begun(w) => Begun(w)'
    BY <1>1, TimeForward DEF Begun
  <1>3. ~Begun(w)' => orphans'[n][w] = 0
    BY <1>1, <1>2, OrphansBegun
  <1>4. y = x \/ y = Absent \/ (y = Incremented(x, k) /\ Begun(w))
    BY CounterStep
  <1>5. /\ ~Begun(w) => x = Absent
        /\ x # Absent => x.count > 0
    BY DEF Untouched
  <1>6. Incremented(x, k).count > 0
    BY IncrementedFacts
  <1> HIDE DEF x, y
  <1>7. /\ ~Begun(w)' => y = Absent
        /\ y # Absent => y.count > 0
    BY <1>2, <1>4, <1>5, <1>6
  <1>8. QED
    BY <1>3, <1>7 DEF y

-----------------------------------------------------------------------------
\* The constants of a window: its length, and how far the clocks may be apart.
LEMMA DriftFacts ==
    ASSUME NEW k \in Governed
    PROVE  /\ k \in Keys /\ CounterOf[k] \in Counters
           /\ MaxAhead \in Nat /\ MaxBehind \in Nat
           /\ Apart[CounterOf[k]] \in Nat
           /\ Window[k] \in Nat \ {0} /\ Limit[k] \in Nat \ {0}
           /\ MaxAhead + MaxBehind <= Apart[CounterOf[k]] * Window[k]
  <1>1. k \in Keys /\ CounterOf[k] \in Counters
    BY CountersAssumption DEF Governed
  <1>2. Limit[k] \in Nat \ {0}
    BY <1>1, LimitAssumption DEF Governed
  <1>3. QED
    BY <1>1, <1>2, WindowAssumption, DriftAssumption

\* Fewer windows take less time.
LEMMA FewerWindows ==
    ASSUME NEW m \in Nat \ {0}, NEW g \in Nat, NEW a \in Nat, g * m < a * m
    PROVE  g + 1 <= a
  <1>1. SUFFICES ASSUME a <= g PROVE FALSE
    OBVIOUS
  <1>2. g - a \in Nat /\ g = a + (g - a)
    BY <1>1
  <1>3. (g - a) * m >= 0 /\ (g - a) * m \in Int
    BY <1>2
  <1>4. g * m = a * m + (g - a) * m
    BY <1>2
  <1>5. a * m \in Int /\ g * m \in Int
    OBVIOUS
  <1>6. QED
    BY <1>3, <1>4, <1>5

\* Counters that expired let no more through than the windows allow.
LEMMA MoreLimits ==
    ASSUME NEW l \in Nat, NEW g \in Nat, NEW a \in Nat, g <= a
    PROVE  l * g \in Nat /\ l * (1 + a) \in Nat /\ l * g + l <= l * (1 + a)
  <1>1. a - g \in Nat /\ 1 + a = g + 1 + (a - g)
    OBVIOUS
  <1>2. l * (a - g) \in Nat /\ l * g \in Nat
    BY <1>1
  <1>3. l * (1 + a) = l * g + l + l * (a - g)
    BY <1>1
  <1>4. QED
    BY <1>2, <1>3

\* A step that grants no more and leaves the counter alone.
LEMMA GenerationKept ==
    ASSUME RedisTypeOK, RedisTypeOK', NEW k \in Governed, NEW w \in Ticks,
           NEW g \in Nat, Generation(k, w, g), Time <= Time', restarts' = restarts,
           LET n == CounterOf[k]
           IN  /\ counter'[n][w] = counter[n][w]
               /\ granted'[n][w] + Cardinality(Pending(n, w)')
                     <= granted[n][w] + Cardinality(Pending(n, w))
    PROVE  Generation(k, w, g)'
  <1> DEFINE n == CounterOf[k]
             r == Limit[k] * restarts + Limit[k] * g
             p == granted[n][w] + Cardinality(Pending(n, w))
             q == granted'[n][w] + Cardinality(Pending(n, w)')
             x == counter[n][w]
             v == g * Window[k]
  <1>1. /\ p \in Nat /\ q \in Nat /\ x.count \in Nat /\ Time \in Nat /\ Time' \in Nat
        /\ w \in Nat /\ Limit[k] \in Nat /\ restarts \in Nat
    BY UsedType, UsedTypeNext
  <1>2. r \in Nat
    <2>1. Limit[k] * restarts \in Nat /\ Limit[k] * g \in Nat
      BY <1>1, Product
    <2>2. QED
      BY <2>1
  <1>3. v \in Nat /\ MaxAhead \in Nat
    BY DriftFacts
  <1>4. /\ p <= r + x.count /\ p <= r + Limit[k]
        /\ g > 0 => w + v <= Time + MaxAhead
        /\ x # Absent => w + v + Window[k] <= x.until + MaxAhead
    BY DEF Generation
  <1>5. q <= p
    OBVIOUS
  <1> HIDE DEF r, p, q, v, x, n
  <1>6. q <= r + x.count /\ q <= r + Limit[k]
    BY <1>1, <1>2, <1>4, <1>5
  <1>7. g > 0 => w + v <= Time' + MaxAhead
    <2>1. Time + MaxAhead <= Time' + MaxAhead
      BY <1>1, <1>3
    <2>2. w + v \in Nat
      BY <1>1, <1>3
    <2>3. Time + MaxAhead \in Nat
      BY <1>1, <1>3
    <2>4. Time' + MaxAhead \in Nat
      BY <1>1, <1>3
    <2>5. g > 0 => w + v <= Time + MaxAhead
      BY <1>4
    <2>6. QED
      BY <2>1, <2>2, <2>3, <2>4, <2>5
  <1>8. QED
    BY <1>4, <1>6, <1>7 DEF Generation, q, r, v, x, n

\* The clock may leave the window behind, if callers gained nothing.
LEMMA WindowKept ==
    ASSUME RedisTypeOK, RedisTypeOK', NEW k \in Governed, NEW w \in Ticks, WindowOK(k, w),
           Time <= Time', restarts' = restarts,
           LET n == CounterOf[k]
           IN  /\ ~Over(k, w) =>
                     /\ counter'[n][w] = counter[n][w]
                     /\ granted'[n][w] + Cardinality(Pending(n, w)')
                           <= granted[n][w] + Cardinality(Pending(n, w))
               /\ Over(k, w) =>
                     granted'[n][w] + Cardinality(Hopeful(n, w)')
                        <= granted[n][w] + Cardinality(Hopeful(n, w))
    PROVE  WindowOK(k, w)'
  <1> DEFINE n == CounterOf[k]
             N == Cardinality(Callers)
             r == Limit[k] * restarts
             b == r + Limit[k] * (1 + Apart[n]) + N
             p == granted[n][w] + Cardinality(Pending(n, w))
             q == granted'[n][w] + Cardinality(Pending(n, w)')
             h == granted[n][w] + Cardinality(Hopeful(n, w))
             i == granted'[n][w] + Cardinality(Hopeful(n, w)')
  <1>1. /\ granted'[n][w] \in Nat
        /\ Cardinality(Pending(n, w)') \in Nat
        /\ Cardinality(Hopeful(n, w)') \in 0 .. N
        /\ Time \in Nat /\ Time' \in Nat /\ w \in Nat
        /\ Limit[k] \in Nat /\ restarts \in Nat /\ counter[n][w].count \in Nat
        /\ granted[n][w] \in Nat /\ Cardinality(Pending(n, w)) \in Nat
        /\ Cardinality(Hopeful(n, w)) \in Nat
    BY UsedType, UsedTypeNext
  <1>2. r \in Nat /\ N \in Nat /\ Apart[n] \in Nat /\ Limit[k] * (1 + Apart[n]) \in Nat
        /\ Window[k] \in Nat /\ MaxBehind \in Nat
    <2>1. N \in Nat /\ Apart[n] \in Nat /\ Window[k] \in Nat /\ MaxBehind \in Nat
      BY CallersCount, DriftFacts
    <2>2. r \in Nat
      <3>1. Limit[k] \in Nat /\ restarts \in Nat
        BY <1>1
      <3>2. QED
        BY <3>1, Product
    <2>3. Limit[k] * (1 + Apart[n]) \in Nat
      BY <1>1, <2>1, MoreLimits
    <2>4. QED
      BY <2>1, <2>2, <2>3
  <1>3. Over(k, w) => Over(k, w)'
    BY <1>1, <1>2 DEF Over
  <1>4. CASE ~Over(k, w)'
    <2>1. ~Over(k, w)
      BY <1>3, <1>4
    <2>2. PICK g \in 0 .. Apart[n] : Generation(k, w, g)
      BY <2>1 DEF WindowOK
    <2>3. g \in Nat
      BY <1>2
    <2>4. Generation(k, w, g)'
      BY <2>1, <2>2, <2>3, GenerationKept
    <2>5. QED
      BY <1>4, <2>4 DEF WindowOK
  <1>5. CASE Over(k, w)' /\ Over(k, w)
    <2>1. h <= b
      BY <1>5 DEF WindowOK
    <2>2. i <= h
      BY <1>5
    <2>3. h \in Nat /\ i \in Nat /\ b \in Nat
      BY <1>1, <1>2
    <2> HIDE DEF h, i, b
    <2>4. i <= b
      BY <2>1, <2>2, <2>3
    <2>5. QED
      BY <1>5, <2>4 DEF WindowOK, i, b
  <1>6. CASE Over(k, w)' /\ ~Over(k, w)
    <2>1. PICK g \in 0 .. Apart[n] : Generation(k, w, g)
      BY <1>6 DEF WindowOK
    <2>2. g \in Nat /\ g <= Apart[n]
      BY <1>2
    <2>3. p <= r + Limit[k] * g + Limit[k]
      BY <2>1 DEF Generation
    <2>4. /\ Limit[k] * g \in Nat
          /\ Limit[k] * g + Limit[k] <= Limit[k] * (1 + Apart[n])
      BY <1>1, <1>2, <2>2, MoreLimits
    <2>5. q <= p
      BY <1>6
    <2>6. i <= q + N
      BY <1>1, <1>2
    <2>7. p \in Nat /\ q \in Nat /\ i \in Nat
      BY <1>1
    <2> DEFINE lg == Limit[k] * g
               la == Limit[k] * (1 + Apart[n])
    <2> HIDE DEF p, q, i, r, N, lg, la
    <2>8. i <= r + la + N
      <3>1. p <= r + lg + Limit[k] /\ lg \in Nat /\ lg + Limit[k] <= la
        BY <2>3, <2>4 DEF lg, la
      <3>2. la \in Nat
        BY <1>2 DEF la
      <3>3. QED
        BY <1>1, <1>2, <2>5, <2>6, <2>7, <3>1, <3>2
    <2>9. QED
      BY <1>6, <2>8 DEF WindowOK, i, la, r, N
  <1>7. QED
    BY <1>4, <1>5, <1>6

\* Executing an increment, a caller's or an orphan's, of a window that is open.
LEMMA WindowCounted ==
    ASSUME RedisTypeOK, RedisTypeOK', Untouched,
           NEW k \in Governed, NEW w \in Ticks, WindowOK(k, w),
           Time' = Time, restarts' = restarts, Begun(w), ~Over(k, w),
           LET n == CounterOf[k]
           IN  /\ granted'[n][w] = granted[n][w]
               /\ counter'[n][w] = Incremented(counter[n][w], k)
               /\ \/ Cardinality(Pending(n, w)') = Cardinality(Pending(n, w))
                  \/ /\ counter'[n][w].count <= Limit[k]
                     /\ Cardinality(Pending(n, w)') = Cardinality(Pending(n, w)) + 1
    PROVE  WindowOK(k, w)'
  <1> DEFINE n == CounterOf[k]
             x == counter[n][w]
             y == counter'[n][w]
             L == Limit[k]
             W == Window[k]
             s == L * restarts
             p == granted[n][w] + Cardinality(Pending(n, w))
             q == granted'[n][w] + Cardinality(Pending(n, w)')
  <1>1. /\ p \in Nat /\ q \in Nat /\ Time \in Nat /\ w \in Nat
        /\ x \in [count : Nat, until : Nat] /\ y \in [count : Nat, until : Nat]
        /\ L \in Nat /\ restarts \in Nat
    BY UsedType, UsedTypeNext
  <1>2. s \in Nat
    BY <1>1, Product
  <1>3. /\ W \in Nat \ {0} /\ MaxAhead \in Nat /\ MaxBehind \in Nat /\ Apart[n] \in Nat
        /\ MaxAhead + MaxBehind <= Apart[n] * W
    BY DriftFacts
  <1>4. PICK g \in 0 .. Apart[n] : Generation(k, w, g)
    BY DEF WindowOK
  <1>5. g \in Nat /\ g <= Apart[n]
    BY <1>3
  <1> DEFINE lg == L * g
             wg == g * W
             wa == Apart[n] * W
  <1>6. lg \in Nat /\ wg \in Nat /\ wa \in Nat
    BY <1>1, <1>3, <1>5, Product
  <1>7. /\ p <= s + lg + x.count /\ p <= s + lg + L
        /\ g > 0 => w + wg <= Time + MaxAhead
        /\ x # Absent => w + wg + W <= x.until + MaxAhead
    BY <1>4 DEF Generation
  <1>8. q = p \/ (y.count <= L /\ q = p + 1)
    BY <1>1, UsedType, UsedTypeNext
  <1>9. /\ y.count > 0
        /\ \/ x # Absent /\ y.count = x.count + 1 /\ y.until = x.until
           \/ x = Absent /\ y.count = x.count + 1 /\ y.until = Time + W
           \/ x # Absent /\ x.until <= Time /\ y.count = 1 /\ y.until = Time + W
    BY IncrementedFacts
  <1>10. w <= Time + MaxAhead /\ Time < w + W + MaxBehind
    BY <1>1, <1>3 DEF Begun, Over
  <1>11. ~Over(k, w)'
    BY DEF Over
  <1>12. g = 0 => wg = 0
    BY <1>3
  <1>13. CASE /\ y.count = x.count + 1
              /\ \/ x # Absent /\ y.until = x.until
                 \/ x = Absent /\ y.until = Time + W
    <2> HIDE DEF p, q, x, y, s, lg, wg, L, W
    <2>1. q <= s + lg + y.count /\ q <= s + lg + L
      BY <1>1, <1>2, <1>6, <1>7, <1>8, <1>13
    <2>2. w + wg <= Time + MaxAhead \/ x # Absent
      BY <1>5, <1>7, <1>10, <1>12, <1>1
    <2>3. w + wg + W <= y.until + MaxAhead
      <3>1. CASE x # Absent
        BY <1>7, <1>13, <3>1
      <3>2. CASE x = Absent
        BY <1>1, <1>3, <1>6, <1>13, <2>2, <3>2
      <3>3. QED
        BY <3>1, <3>2
    <2>4. Generation(k, w, g)'
      BY <1>7, <2>1, <2>3 DEF Generation, q, y, s, lg, wg, L, W
    <2>5. QED
      BY <1>4, <1>11, <2>4 DEF WindowOK
  <1>14. CASE x # Absent /\ x.until <= Time /\ y.count = 1 /\ y.until = Time + W
    <2> DEFINE h == g + 1
    <2>1. L * h = lg + L /\ h * W = wg + W
      <3>1. L * (g + 1) = L * g + L
        <4>1. L \in Nat /\ g \in Nat
          BY <1>1, <1>5
        <4> HIDE DEF L
        <4>2. QED
          BY <4>1, AndOnce
      <3>2. (g + 1) * W = g * W + W
        BY <1>3, <1>5, OneMore
      <3>3. QED
        BY <3>1, <3>2
    <2> HIDE DEF p, q, x, y, s, lg, wg, wa, L, W, n
    <2>2. w + wg + W <= Time + MaxAhead
      BY <1>1, <1>3, <1>6, <1>7, <1>14
    <2>3. wg < wa
      BY <1>1, <1>3, <1>6, <1>10, <2>2 DEF wa
    <2>4. h <= Apart[n]
      BY <1>3, <1>5, <2>3, FewerWindows DEF wg, wa
    <2>5. q <= s + (lg + L) + y.count /\ q <= s + (lg + L) + L
      BY <1>1, <1>2, <1>6, <1>7, <1>8, <1>14
    <2>6. w + (wg + W) + W <= y.until + MaxAhead
      BY <1>1, <1>3, <1>6, <1>14, <2>2
    <2>7. w + (wg + W) <= Time + MaxAhead
      BY <1>1, <1>3, <1>6, <2>2
    <2>8. h \in 0 .. Apart[n]
      BY <1>3, <1>5, <2>4
    <2>9. Generation(k, w, h)'
      <3>1. q <= s + L * h + y.count /\ q <= s + L * h + L
        BY <2>1, <2>5
      <3>2. w + h * W <= Time + MaxAhead /\ w + h * W + W <= y.until + MaxAhead
        BY <2>1, <2>6, <2>7
      <3> HIDE DEF h
      <3>3. QED
        BY <3>1, <3>2 DEF Generation, q, y, s, L, W, n
    <2> HIDE DEF h
    <2>10. QED
      BY <1>11, <2>8, <2>9 DEF WindowOK, n
  <1>15. QED
    BY <1>9, <1>13, <1>14

\* Redis comes back empty: a limit more, and the counter starts from nothing.
LEMMA WindowRestarted ==
    ASSUME RedisTypeOK, RedisTypeOK', NEW k \in Governed, NEW w \in Ticks, WindowOK(k, w),
           Time' = Time, restarts' = restarts + 1,
           LET n == CounterOf[k]
           IN  counter'[n][w] = Absent /\ granted' = granted /\ QuietAt(n, w)
    PROVE  WindowOK(k, w)'
  <1> DEFINE n == CounterOf[k]
             N == Cardinality(Callers)
             L == Limit[k]
             s == L * restarts
             p == granted[n][w] + Cardinality(Pending(n, w))
             h == granted[n][w] + Cardinality(Hopeful(n, w))
             la == L * (1 + Apart[n])
  <1>1. /\ p \in Nat /\ h \in Nat /\ L \in Nat /\ restarts \in Nat /\ N \in Nat
    BY UsedType, CallersCount
  <1>2. s \in Nat /\ L * restarts' = s + L
    <2>1. L * (restarts + 1) = L * restarts + L
      BY <1>1, AndOnce
    <2>2. s \in Nat
      BY <1>1, Product
    <2>3. QED
      BY <2>1, <2>2
  <1>3. /\ granted'[n][w] + Cardinality(Pending(n, w)') = p
        /\ granted'[n][w] + Cardinality(Hopeful(n, w)') = h
    BY DEF QuietAt
  <1>4. Over(k, w)' <=> Over(k, w)
    BY DEF Over
  <1>5. Apart[n] \in Nat
    BY DriftFacts
  <1>6. CASE ~Over(k, w)
    <2>1. PICK g \in 0 .. Apart[n] : Generation(k, w, g)
      BY <1>6 DEF WindowOK
    <2> DEFINE lg == L * g
    <2>2. lg \in Nat
      BY <1>1, <1>5, <2>1, Product
    <2>3. p <= s + lg + L /\ (g > 0 => w + g * Window[k] <= Time + MaxAhead)
      BY <2>1 DEF Generation
    <2> HIDE DEF p, s, lg, L
    <2>4. p <= (s + L) + lg + 0 /\ p <= (s + L) + lg + L
      BY <1>1, <1>2, <2>2, <2>3
    <2>5. counter'[n][w].count = 0
      BY DEF Absent
    <2>6. Generation(k, w, g)'
      BY <1>2, <1>3, <2>3, <2>4, <2>5 DEF Generation, p, lg, L
    <2>7. QED
      BY <1>4, <1>6, <2>1, <2>6 DEF WindowOK
  <1>7. CASE Over(k, w)
    <2>1. h <= s + la + N
      BY <1>7 DEF WindowOK
    <2>2. la \in Nat
      BY <1>1, <1>5
    <2> HIDE DEF h, s, la, L, N
    <2>3. h <= (s + L) + la + N
      BY <1>1, <1>2, <2>1, <2>2
    <2>4. QED
      BY <1>2, <1>3, <1>4, <1>7, <2>3 DEF WindowOK, la, L, N
  <1>8. QED
    BY <1>6, <1>7

LEMMA WindowStep ==
    ASSUME RedisTypeOK, RedisTypeOK', Synchronised, Untouched, WindowsBounded, [RedisNext]_allVars
    PROVE  WindowsBounded'
  <1> SUFFICES ASSUME NEW k \in Governed, NEW w \in Ticks
               PROVE  WindowOK(k, w)'
    BY DEF WindowsBounded
  <1>0. WindowOK(k, w)
    BY DEF WindowsBounded
  <1> DEFINE n == CounterOf[k]
             L == Limit[k]
             P == Cardinality(Pending(n, w))
             H == Cardinality(Hopeful(n, w))
             e == Incremented(counter[n][w], k)
  <1>1. /\ granted[n][w] \in Nat /\ granted'[n][w] \in Nat
        /\ P \in Nat /\ P' \in Nat /\ H \in Nat /\ H' \in Nat
        /\ Time \in Nat /\ Time <= Time' /\ n \in Counters
    BY UsedType, UsedTypeNext, TimeForward, CountersAssumption DEF Governed
  <1>2. ASSUME restarts' = restarts, counter'[n][w] = counter[n][w],
               granted'[n][w] + P' <= granted[n][w] + P,
               granted'[n][w] + H' <= granted[n][w] + H
        PROVE  WindowOK(k, w)'
    BY <1>0, <1>1, <1>2, WindowKept
  <1>3. ASSUME UNCHANGED <<restarts, counter, granted>>, QuietAt(n, w)
        PROVE  WindowOK(k, w)'
    <2>1. P' = P /\ H' = H
      BY <1>3 DEF QuietAt
    <2>2. granted'[n][w] + P' <= granted[n][w] + P /\ granted'[n][w] + H' <= granted[n][w] + H
      BY <1>1, <1>3, <2>1
    <2>3. QED
      BY <1>2, <1>3, <2>2
  <1>4. ASSUME NEW c \in Callers, ReadRedisClock(c)
        PROVE  WindowOK(k, w)'
    <2>1. UNCHANGED <<restarts, counter, granted>>
      BY <1>4 DEF ReadRedisClock
    <2>2. P' = P /\ (Over(k, w) => H' = H)
      BY <1>4, EnterCounts
    <2> HIDE DEF P, H
    <2>3. /\ granted'[n][w] + P' <= granted[n][w] + P
          /\ Over(k, w) => granted'[n][w] + H' <= granted[n][w] + H
          /\ counter'[n][w] = counter[n][w]
      BY <1>1, <2>1, <2>2
    <2>4. QED
      BY <1>0, <1>1, <2>1, <2>3, WindowKept DEF P, H
  <1>5. ASSUME NEW c \in Callers, Execute(c)
        PROVE  WindowOK(k, w)'
    <2>1. Time' = Time /\ restarts' = restarts /\ granted' = granted
      BY <1>5 DEF Execute, vars, Time
    <2>2. CASE ~At(c, k, w)
      <3>1. QuietAt(n, w) /\ counter'[n][w] = counter[n][w]
        BY <1>5, <2>2, ExecuteCounts
      <3>2. P' = P /\ H' = H
        BY <3>1 DEF QuietAt
      <3>3. granted'[n][w] + P' <= granted[n][w] + P /\ granted'[n][w] + H' <= granted[n][w] + H
        BY <1>1, <2>1, <3>2
      <3>4. QED
        BY <1>2, <2>1, <3>1, <3>3
    <2>3. CASE At(c, k, w)
      <3>1. Begun(w)
        BY <1>5, <2>3, AskBegun DEF Execute, At
      <3>2. /\ counter'[n][w] = e
            /\ e.count <= L => P' = P + 1 /\ H' = H
            /\ e.count > L => P' = P /\ H' <= H
        BY <1>5, <2>3, ExecuteCounts
      <3>3. e.count \in Nat /\ L \in Nat
        BY IncrementedFacts, UsedType
      <3>4. CASE ~Over(k, w)
        <4> HIDE DEF P, H, e
        <4>1. /\ granted'[n][w] = granted[n][w]
              /\ P' = P \/ (counter'[n][w].count <= L /\ P' = P + 1)
          BY <2>1, <3>2, <3>3
        <4>2. QED
          BY <1>0, <2>1, <3>1, <3>2, <3>4, <4>1, WindowCounted DEF P, e
      <3>5. CASE Over(k, w)
        <4> HIDE DEF P, H, e
        <4>1. granted'[n][w] + H' <= granted[n][w] + H
          BY <1>1, <2>1, <3>2, <3>3
        <4>2. QED
          BY <1>0, <1>1, <2>1, <3>5, <4>1, WindowKept DEF H
      <3>6. QED
        BY <3>4, <3>5
    <2>4. QED
      BY <2>2, <2>3
  <1>6. ASSUME NEW c \in Callers, Grant(c)
        PROVE  WindowOK(k, w)'
    <2>1. restarts' = restarts /\ counter' = counter
      BY <1>6 DEF Grant
    <2>2. \/ granted'[n][w] = granted[n][w] + 1 /\ P' = P - 1 /\ H' = H - 1
          \/ granted'[n][w] = granted[n][w] /\ P' = P /\ H' = H
      BY <1>6, GrantCounts DEF QuietAt
    <2> HIDE DEF P, H
    <2>3. granted'[n][w] + P' <= granted[n][w] + P /\ granted'[n][w] + H' <= granted[n][w] + H
      BY <1>1, <2>2
    <2>4. QED
      BY <1>2, <2>1, <2>3
  <1>7. ASSUME NEW c \in Callers, Fail(c)
        PROVE  WindowOK(k, w)'
    <2>1. restarts' = restarts /\ counter' = counter /\ granted' = granted
      BY <1>7 DEF Fail
    <2>2. (P' = P \/ P' = P - 1) /\ H' <= H
      BY <1>7, FailCounts
    <2> HIDE DEF P, H
    <2>3. granted'[n][w] + P' <= granted[n][w] + P /\ granted'[n][w] + H' <= granted[n][w] + H
      BY <1>1, <2>1, <2>2
    <2>4. QED
      BY <1>2, <2>1, <2>3
  <1>8. ASSUME NEW c \in Callers, Refuse(c) \/ FallBack(c) \/ FinishRedis(c)
        PROVE  WindowOK(k, w)'
    <2>1. QuietAt(n, w)
      BY <1>8, RefuseCounts, LeaveRedisCounts
    <2>2. UNCHANGED <<restarts, counter, granted>>
      BY <1>8 DEF Refuse, FallBack, FinishRedis
    <2>3. QED
      BY <1>3, <2>1, <2>2
  <1>9. ASSUME NEW c \in Callers,
               \/ PassUngoverned(c) \/ MemoryAllow(c) \/ Resend(c)
               \/ AdmitLocally(c) \/ DenyLocally(c) \/ FinishLocal(c)
        PROVE  WindowOK(k, w)'
    <2>1. UNCHANGED <<restarts, counter, granted, ask>>
      BY <1>9 DEF PassUngoverned, MemoryAllow, Resend, AdmitLocally, DenyLocally, FinishLocal,
                  redisVars
    <2>2. QED
      BY <1>3, <2>1, Unmoved
  <1>10. ASSUME NEW l \in Keys, NEW u \in Ticks, ExecuteOrphan(l, u)
         PROVE  WindowOK(k, w)'
    <2> DEFINE at == CounterOf[l] = n /\ u = w
    <2>1. /\ UNCHANGED <<ask, granted, restarts, now>>
          /\ QuietAt(n, w)
          /\ at => counter'[n][w] = e /\ orphans[n][w] > 0
          /\ ~at => counter'[n][w] = counter[n][w]
      BY <1>10, OrphanCounts
    <2>2. P' = P /\ H' = H
      BY <2>1 DEF QuietAt
    <2>3. granted'[n][w] + P' <= granted[n][w] + P /\ granted'[n][w] + H' <= granted[n][w] + H
      BY <1>1, <2>1, <2>2
    <2>4. Time' = Time
      BY <2>1 DEF Time
    <2>5. CASE ~at
      BY <1>2, <2>1, <2>3, <2>5
    <2>6. CASE at /\ ~Over(k, w)
      <3>1. Begun(w)
        <4>1. orphans[n][w] \in Nat /\ orphans[n][w] > 0
          BY <2>1, <2>6, UsedType
        <4>2. QED
          BY <4>1 DEF Untouched
      <3>2. QED
        BY <1>0, <2>1, <2>2, <2>4, <2>6, <3>1, WindowCounted
    <2>7. CASE at /\ Over(k, w)
      BY <1>0, <1>1, <2>1, <2>3, <2>7, WindowKept
    <2>8. QED
      BY <2>5, <2>6, <2>7
  <1>11. ASSUME NEW m \in Counters, NEW u \in Ticks, DropOrphan(m, u)
         PROVE  WindowOK(k, w)'
    <2>1. UNCHANGED <<restarts, counter, granted, ask>>
      BY <1>11 DEF DropOrphan
    <2>2. QED
      BY <1>3, <2>1, Unmoved
  <1>12. CASE RestartRedis
    <2>1. /\ granted' = granted /\ ask' = ask /\ restarts' = restarts + 1
          /\ counter'[n][w] = Absent
      BY <1>1, <1>12 DEF RestartRedis
    <2>2. Time' = Time
      BY <1>12 DEF RestartRedis, vars, Time
    <2>3. QuietAt(n, w)
      BY <2>1, Unmoved
    <2>4. QED
      BY <1>0, <2>1, <2>2, <2>3, WindowRestarted
  <1>13. CASE (\E r \in Clocks : PassTime(r)) \/ UNCHANGED allVars
    <2>1. UNCHANGED <<restarts, counter, granted, ask>>
      BY <1>13 DEF PassTime, allVars, redisVars
    <2>2. QED
      BY <1>3, <2>1, Unmoved
  <1>14. QED
    BY <1>4, <1>5, <1>6, <1>7, <1>8, <1>9, <1>10, <1>11, <1>12, <1>13
    DEF RedisNext, Proceed

LEMMA AlwaysBounded == RedisSpec => [](Synchronised /\ Untouched /\ WindowsBounded)
  <1>1. RedisInit => Synchronised /\ Untouched /\ WindowsBounded
    <2> SUFFICES ASSUME RedisInit PROVE Synchronised /\ Untouched /\ WindowsBounded
      OBVIOUS
    <2>1. Synchronised /\ Time = 0
      BY DriftAssumption DEF RedisInit, Init, Synchronised, Time
    <2>2. ASSUME NEW k \in Governed, NEW w \in Ticks
          PROVE  /\ orphans[CounterOf[k]][w] = 0 /\ counter[CounterOf[k]][w] = Absent
                 /\ WindowOK(k, w)
      <3> DEFINE n == CounterOf[k]
      <3>1. n \in Counters /\ Apart[n] \in Nat /\ Limit[k] \in Nat
        BY DriftFacts
      <3>2. /\ orphans[n][w] = 0 /\ counter[n][w] = Absent /\ granted[n][w] = 0 /\ restarts = 0
            /\ Pending(n, w) = {} /\ Hopeful(n, w) = {}
        BY <3>1 DEF RedisInit, Pending, Hopeful, HoldsWindow
      <3>3. Cardinality(Pending(n, w)) = 0 /\ Cardinality(Hopeful(n, w)) = 0
        BY <3>2, FS_EmptySet
      <3>4. Cardinality(Callers) \in Nat /\ Limit[k] * 0 = 0
        BY <3>1, CallersCount
      <3>5. Limit[k] * (1 + Apart[n]) \in Nat
        BY <3>1
      <3> HIDE DEF n
      <3>6. Generation(k, w, 0)
        BY <3>1, <3>2, <3>3, <3>4 DEF Generation, Absent, n
      <3>7. granted[n][w] + Cardinality(Hopeful(n, w))
               <= Limit[k] * restarts + Limit[k] * (1 + Apart[n]) + Cardinality(Callers)
        BY <3>2, <3>3, <3>4, <3>5
      <3>8. WindowOK(k, w)
        BY <3>1, <3>6, <3>7 DEF WindowOK, n
      <3>9. QED
        BY <3>2, <3>8 DEF n
    <2>3. QED
      BY <2>1, <2>2 DEF Untouched, WindowsBounded
  <1>2. /\ RedisTypeOK /\ RedisTypeOK' /\ Synchronised /\ Untouched /\ WindowsBounded
        /\ [RedisNext]_allVars
        => Synchronised' /\ Untouched' /\ WindowsBounded'
    BY SynchronisedStep, UntouchedStep, WindowStep
  <1>3. QED
    BY <1>1, <1>2, RedisTypeCorrect, PTL DEF RedisSpec

\* All replicas together let no more calls of one window through Redis than
\* its limit, plus a limit for each window their clocks may be apart, plus one
\* for each restart that lost the counters; and, once the window is over, one
\* more call for each handler that held it past its end.
THEOREM WindowShared == RedisSpec => []SharedWindow
  <1>1. RedisTypeOK /\ WindowsBounded => SharedWindow
    <2> SUFFICES ASSUME RedisTypeOK, WindowsBounded, NEW k \in Governed, NEW w \in Ticks
                 PROVE  LET n == CounterOf[k]
                        IN  granted[n][w] <= Limit[k] * (1 + Apart[n] + restarts)
                                               + (IF Over(k, w) THEN Cardinality(Callers) ELSE 0)
      BY DEF SharedWindow
    <2> DEFINE n == CounterOf[k]
               r == Limit[k] * restarts
               la == Limit[k] * (1 + Apart[n])
               N == Cardinality(Callers)
               f == granted[n][w]
    <2>1. /\ f \in Nat /\ Cardinality(Pending(n, w)) \in Nat
          /\ Cardinality(Hopeful(n, w)) \in Nat /\ Limit[k] \in Nat /\ restarts \in Nat
      BY UsedType
    <2>2. Apart[n] \in Nat
      BY DriftFacts
    <2>3. r \in Nat /\ la \in Nat /\ Limit[k] * (1 + Apart[n] + restarts) = la + r
      BY <2>1, <2>2
    <2>4. N \in Nat
      BY CallersCount
    <2>5. CASE ~Over(k, w)
      <3>1. PICK g \in 0 .. Apart[n] : Generation(k, w, g)
        BY <2>5 DEF WindowsBounded, WindowOK
      <3> DEFINE lg == Limit[k] * g
      <3>2. f + Cardinality(Pending(n, w)) <= r + lg + Limit[k]
        BY <3>1 DEF Generation
      <3>3. g \in Nat /\ g <= Apart[n]
        BY <2>2
      <3>4. lg \in Nat /\ lg + Limit[k] <= la
        BY <2>1, <2>2, <3>3, MoreLimits
      <3> HIDE DEF r, la, lg, f
      <3>5. f <= la + r
        BY <2>1, <2>3, <3>2, <3>4
      <3>6. QED
        BY <2>3, <2>5, <3>5 DEF f
    <2>6. CASE Over(k, w)
      <3>1. f + Cardinality(Hopeful(n, w)) <= r + la + N
        BY <2>6 DEF WindowsBounded, WindowOK
      <3> HIDE DEF r, la, f, N
      <3>2. f <= la + r + N
        BY <2>1, <2>3, <2>4, <3>1
      <3>3. QED
        BY <2>3, <2>6, <3>2 DEF f, N
    <2>7. QED
      BY <2>5, <2>6
  <1>2. QED
    BY <1>1, RedisTypeCorrect, AlwaysBounded, PTL
=============================================================================
