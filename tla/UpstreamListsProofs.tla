------------------------- MODULE UpstreamListsProofs -------------------------
(***************************************************************************)
(* What the operators of UpstreamLists return, for lists over any set.     *)
(***************************************************************************)
EXTENDS UpstreamLists, SequencesExt, FiniteSetTheorems, SequenceTheorems,
        WellFoundedInduction, TLAPS

-----------------------------------------------------------------------------
(* The positions in a set of positions.                                    *)

LEMMA Least ==
    ASSUME NEW N \in SUBSET Nat, N # {}
    PROVE  \E n \in N : \A k \in N : n <= k
  <1>1. PICK n \in N : \A k \in N : ~ (<<k, n>> \in OpToRel(<, Nat))
    BY NatLessThanWellFounded, WFMin
  <1>2. ASSUME NEW k \in N
        PROVE  n <= k
    <2>1. k \in Nat /\ n \in Nat
      OBVIOUS
    <2>2. ~ (k < n)
      BY <1>1, <2>1 DEF OpToRel
    <2> QED
      BY <2>1, <2>2
  <1> QED
    BY <1>2

LEMMA Counted ==
    ASSUME NEW n \in Nat, NEW F \in SUBSET (1 .. n)
    PROVE  /\ IsFiniteSet(F) /\ Cardinality(F) \in Nat
           /\ Cardinality(F) = 0 => F = {}
           /\ \A i \in F : Cardinality(UpTo(F, i)) \in 1 .. Cardinality(F)
  <1>1. IsFiniteSet(F) /\ Cardinality(F) \in Nat /\ (Cardinality(F) = 0 => F = {})
    <2>1. IsFiniteSet(1 .. n)
      BY FS_Interval
    <2>2. IsFiniteSet(F)
      BY <2>1, FS_Subset
    <2> QED
      BY <2>2, FS_CardinalityType, FS_EmptySet
  <1>2. ASSUME NEW i \in F
        PROVE  Cardinality(UpTo(F, i)) \in 1 .. Cardinality(F)
    <2>1. UpTo(F, i) \in SUBSET F /\ i \in UpTo(F, i)
      BY DEF UpTo
    <2>2. IsFiniteSet(UpTo(F, i)) /\ Cardinality(UpTo(F, i)) <= Cardinality(F)
      BY <1>1, <2>1, FS_Subset
    <2>3. Cardinality(UpTo(F, i)) \in Nat /\ Cardinality(UpTo(F, i)) # 0
      BY <2>1, <2>2, FS_CardinalityType, FS_EmptySet
    <2> QED
      BY <1>1, <2>2, <2>3
  <1> QED
    BY <1>1, <1>2

\* They are ranked without gaps and in their order.
LEMMA Ranked ==
    ASSUME NEW n \in Nat, NEW F \in SUBSET (1 .. n)
    PROVE  /\ \A i, j \in F : Cardinality(UpTo(F, i)) = Cardinality(UpTo(F, j)) => i = j
           /\ \A k \in 1 .. Cardinality(F) : \E i \in F : Cardinality(UpTo(F, i)) = k
  <1> DEFINE c == Cardinality(F)
             rank == [i \in F |-> Cardinality(UpTo(F, i))]
  <1>1. /\ IsFiniteSet(F) /\ c \in Nat
        /\ \A i \in F : rank[i] \in 1 .. c
    BY Counted
  <1>2. ASSUME NEW i \in F, NEW j \in F, i < j
        PROVE  rank[i] # rank[j]
    <2>1. UpTo(F, i) \in SUBSET UpTo(F, j) /\ j \notin UpTo(F, i) /\ j \in UpTo(F, j)
      <3>1. i \in Nat /\ j \in Nat
        OBVIOUS
      <3>2. \A k \in F : k <= i => k <= j
        BY <1>2
      <3>3. ~(j <= i) /\ j <= j
        BY <1>2, <3>1
      <3> QED
        BY <3>2, <3>3, Zenon DEF UpTo
    <2>2. IsFiniteSet(UpTo(F, j))
      <3>1. UpTo(F, j) \in SUBSET F
        BY DEF UpTo
      <3> QED
        BY <1>1, <3>1, FS_Subset
    <2> QED
      BY <2>1, <2>2, FS_Subset
  <1>3. \A i, j \in F : rank[i] = rank[j] => i = j
    <2>1. \A i, j \in F : i < j \/ j < i \/ i = j
      OBVIOUS
    <2> QED
      BY <1>2, <2>1
  <1>4. rank \in Injection(F, 1 .. c)
    BY <1>1, <1>3 DEF Injection, IsInjective
  <1>5. IsFiniteSet(1 .. c) /\ Cardinality(1 .. c) = c
    BY <1>1, FS_Interval
  <1>6. rank \in Surjection(F, 1 .. c)
    BY <1>1, <1>4, <1>5, FS_Injection
  <1> QED
    BY <1>3, <1>6 DEF Surjection

-----------------------------------------------------------------------------
(* AppendUpstreams.                                                        *)

LEMMA FirstMentioned ==
    ASSUME NEW S, NEW s \in Seq(S)
    PROVE  /\ FirstMentions(s) \in SUBSET (1 .. Len(s))
           /\ \A i, j \in FirstMentions(s) : s[i] = s[j] => i = j
           /\ \A i \in 1 .. Len(s) : \E j \in FirstMentions(s) : s[j] = s[i]
  <1>1. Len(s) \in Nat /\ DOMAIN s = 1 .. Len(s)
    BY LenProperties
  <1>2. FirstMentions(s) \in SUBSET (1 .. Len(s))
    BY <1>1 DEF FirstMentions
  <1>3. \A i, j \in FirstMentions(s) : s[i] = s[j] => i = j
    BY <1>1, <1>2 DEF FirstMentions
  <1>4. ASSUME NEW i \in 1 .. Len(s)
        PROVE  \E j \in FirstMentions(s) : s[j] = s[i]
    <2> DEFINE Same == {j \in 1 .. Len(s) : s[j] = s[i]}
    <2>1. IsFiniteSet(Same) /\ Same # {}
      <3>1. IsFiniteSet(1 .. Len(s)) /\ Same \in SUBSET (1 .. Len(s)) /\ i \in Same
        BY <1>1, FS_Interval
      <3> QED
        BY <3>1, FS_Subset
    <2>2. PICK j \in Same : \A k \in Same : j <= k
      <3>1. Same \in SUBSET Nat
        OBVIOUS
      <3> HIDE DEF Same
      <3> QED
        BY <2>1, <3>1, Least
    <2>3. j \in FirstMentions(s)
      BY <1>1, <2>2 DEF FirstMentions
    <2> QED
      BY <2>2, <2>3
  <1> QED
    BY <1>2, <1>3, <1>4

\* Joined lists name each upstream of theirs once; a list without repetitions
\* stays in front.
LEMMA Appended ==
    ASSUME NEW S, NEW base \in Seq(S), NEW extras \in Seq(S)
    PROVE  LET t == AppendUpstreams(base, extras)
           IN  /\ t \in Seq(S) /\ IsInjective(t)
               /\ base # <<>> => t # <<>>
               /\ ToSet(t) = ToSet(base) \cup ToSet(extras)
               /\ IsInjective(base) =>
                      Len(base) <= Len(t) /\ \A k \in 1 .. Len(base) : t[k] = base[k]
  <1> DEFINE s == base \o extras
             F == FirstMentions(s)
             at(k) == CHOOSE i \in F : Cardinality(UpTo(F, i)) = k
             t == [k \in 1 .. Cardinality(F) |-> s[at(k)]]
  <1>1. /\ Len(base) \in Nat /\ Len(extras) \in Nat
        /\ DOMAIN base = 1 .. Len(base) /\ DOMAIN extras = 1 .. Len(extras)
    BY LenProperties
  <1>2. /\ s \in Seq(S) /\ Len(s) = Len(base) + Len(extras) /\ DOMAIN s = 1 .. Len(s)
        /\ \A i \in 1 .. Len(s) : s[i] \in S
        /\ \A i \in 1 .. Len(s) : s[i] = IF i <= Len(base) THEN base[i] ELSE extras[i - Len(base)]
    BY ConcatProperties, LenProperties, ElementOfSeq
  <1>3. ToSet(s) = ToSet(base) \cup ToSet(extras)
    <2>1. \A i \in DOMAIN s : s[i] \in ToSet(base) \cup ToSet(extras)
      <3> SUFFICES ASSUME NEW i \in DOMAIN s
                   PROVE  s[i] \in ToSet(base) \cup ToSet(extras)
        OBVIOUS
      <3>1. CASE i <= Len(base)
        BY <1>1, <1>2, <3>1 DEF ToSet
      <3>2. CASE ~(i <= Len(base))
        <4>1. i - Len(base) \in 1 .. Len(extras)
          BY <1>1, <1>2, <3>2
        <4> QED
          BY <1>1, <1>2, <3>2, <4>1 DEF ToSet
      <3> QED
        BY <3>1, <3>2
    <2>2. \A i \in DOMAIN base : i \in DOMAIN s /\ base[i] = s[i]
      BY <1>1, <1>2
    <2>3. \A i \in DOMAIN extras : i + Len(base) \in DOMAIN s /\ extras[i] = s[i + Len(base)]
      BY <1>1, <1>2
    <2> HIDE DEF s
    <2> QED
      BY <2>1, <2>2, <2>3 DEF ToSet
  <1> HIDE DEF s
  <1>4. /\ F \in SUBSET (1 .. Len(s))
        /\ \A i, j \in F : s[i] = s[j] => i = j
        /\ \A i \in 1 .. Len(s) : \E j \in F : s[j] = s[i]
    BY <1>2, FirstMentioned
  <1> HIDE DEF F
  <1>5. Len(s) \in Nat /\ Cardinality(F) \in Nat
    <2>1. Len(s) \in Nat
      BY <1>1, <1>2
    <2> QED
      BY <1>4, <2>1, Counted
  <1>6. \A k \in 1 .. Cardinality(F) : at(k) \in F /\ Cardinality(UpTo(F, at(k))) = k
    BY <1>4, <1>5, Ranked
  <1>7. \A i \in F : Cardinality(UpTo(F, i)) \in 1 .. Cardinality(F) /\ at(Cardinality(UpTo(F, i))) = i
    <2> SUFFICES ASSUME NEW i \in F
                 PROVE  Cardinality(UpTo(F, i)) \in 1 .. Cardinality(F) /\ at(Cardinality(UpTo(F, i))) = i
      OBVIOUS
    <2> DEFINE k == Cardinality(UpTo(F, i))
    <2>1. k \in 1 .. Cardinality(F)
      BY <1>4, <1>5, Counted
    <2>2. at(k) \in F /\ Cardinality(UpTo(F, at(k))) = k
      BY <1>6, <2>1
    <2> HIDE DEF at
    <2> QED
      BY <1>4, <1>5, <2>1, <2>2, Ranked
  <1> HIDE DEF at
  <1>8. t \in [1 .. Cardinality(F) -> S] /\ DOMAIN t = 1 .. Cardinality(F)
    BY <1>2, <1>4, <1>6
  <1>9. t \in Seq(S) /\ Len(t) = Cardinality(F)
    BY <1>5, <1>8, SeqDef, LenProperties
  <1>10. IsInjective(t)
    <2> SUFFICES ASSUME NEW k \in 1 .. Cardinality(F), NEW l \in 1 .. Cardinality(F),
                        t[k] = t[l]
                 PROVE  k = l
      BY DEF IsInjective
    <2>1. at(k) = at(l)
      BY <1>4, <1>6
    <2> QED
      BY <1>6, <2>1
  <1>11. ToSet(t) = ToSet(s)
    <2>1. \A k \in DOMAIN t : \E i \in DOMAIN s : t[k] = s[i]
      BY <1>2, <1>4, <1>6, <1>8
    <2>2. ASSUME NEW i \in DOMAIN s
          PROVE  \E k \in DOMAIN t : t[k] = s[i]
      <3>1. PICK j \in F : s[j] = s[i]
        BY <1>2, <1>4
      <3>2. Cardinality(UpTo(F, j)) \in DOMAIN t /\ t[Cardinality(UpTo(F, j))] = s[j]
        BY <1>7, <1>8
      <3> QED
        BY <3>1, <3>2
    <2> HIDE DEF t
    <2> QED
      BY <2>1, <2>2 DEF ToSet
  <1>12. ASSUME IsInjective(base)
         PROVE  /\ Len(base) <= Cardinality(F)
                /\ \A k \in 1 .. Len(base) : t[k] = base[k]
    <2>1. ASSUME NEW i \in 1 .. Len(base)
          PROVE  i \in F
      <3>1. i \in DOMAIN s /\ i \in DOMAIN base /\ s[i] = base[i]
        BY <1>1, <1>2
      <3>2. ASSUME NEW j \in 1 .. i - 1
            PROVE  s[j] # s[i]
        <4>1. j \in DOMAIN base /\ s[j] = base[j] /\ j # i
          BY <1>1, <1>2
        <4> QED
          BY <1>12, <3>1, <4>1 DEF IsInjective
      <3> QED
        BY <3>1, <3>2 DEF FirstMentions, F
    <2>2. ASSUME NEW i \in 1 .. Len(base)
          PROVE  Cardinality(UpTo(F, i)) = i
      <3>1. UpTo(F, i) = 1 .. i
        <4>1. UpTo(F, i) \subseteq 1 .. i
          <5>1. \A j \in F : j \in Nat /\ 1 <= j
            BY <1>4, <1>5
          <5>2. i \in Nat
            BY <1>1
          <5> QED
            BY <5>1, <5>2 DEF UpTo
        <4>2. 1 .. i \subseteq UpTo(F, i)
          BY <1>1, <2>1 DEF UpTo
        <4> QED
          BY <4>1, <4>2
      <3> QED
        BY <3>1, FS_Interval
    <2>3. \A k \in 1 .. Len(base) : k \in 1 .. Cardinality(F) /\ at(k) = k
      BY <1>7, <2>1, <2>2
    <2>4. \A k \in 1 .. Len(base) : t[k] = base[k]
      BY <1>1, <1>2, <2>3
    <2>5. Len(base) <= Cardinality(F)
      <3>1. Len(base) = 0 \/ Len(base) \in 1 .. Len(base)
        BY <1>1
      <3> QED
        BY <1>1, <1>5, <2>3, <3>1
    <2> QED
      BY <2>4, <2>5
  <1>13. base # <<>> => t # <<>>
    <2>1. base # <<>> => base[1] \in ToSet(t)
      <3>1. base # <<>> => 1 \in DOMAIN base
        BY <1>1, EmptySeq
      <3>2. base # <<>> => base[1] \in ToSet(base)
        BY <3>1 DEF ToSet
      <3> QED
        BY <1>3, <1>11, <3>2
    <2>2. t = <<>> => DOMAIN t = {}
      BY <1>9, EmptySeq, LenProperties
    <2> QED
      BY <2>1, <2>2 DEF ToSet
  <1>14. AppendUpstreams(base, extras) = t
    BY DEF AppendUpstreams, F, s, at
  <1> QED
    BY <1>3, <1>9, <1>10, <1>11, <1>12, <1>13, <1>14

-----------------------------------------------------------------------------
(* Rotated.                                                                *)

\* A list that is turned starts with the chosen element and keeps the others.
LEMMA TurnedList ==
    ASSUME NEW S, NEW s \in Seq(S), NEW i \in 1 .. Len(s)
    PROVE  LET t == Rotated(s, i)
           IN  /\ t \in Seq(S) /\ t # <<>> /\ Len(t) = Len(s)
               /\ \A k \in 1 .. Len(s) :
                      t[k] = s[IF k <= Len(s) - i + 1 THEN k + i - 1 ELSE k + i - 1 - Len(s)]
               /\ ToSet(t) = ToSet(s)
               /\ IsInjective(s) => IsInjective(t)
  <1> DEFINE n == Len(s)
             l == SubSeq(s, i, n)
             r == SubSeq(s, 1, i - 1)
             t == l \o r
             from(k) == IF k <= n - i + 1 THEN k + i - 1 ELSE k + i - 1 - n
  <1>1. n \in Nat /\ i \in Nat /\ i >= 1 /\ i <= n /\ DOMAIN s = 1 .. n
        /\ \A k \in 1 .. n : s[k] \in S
    BY LenProperties, ElementOfSeq
  <1> HIDE DEF n
  <1>2. l \in Seq(S) /\ Len(l) = n - i + 1 /\ \A k \in 1 .. n - i + 1 : l[k] = s[i + k - 1]
    <2>1. \A k \in i .. n : s[k] \in S
      BY <1>1
    <2> QED
      BY <1>1, <2>1, SubSeqProperties DEF n
  <1>3. r \in Seq(S) /\ Len(r) = i - 1 /\ \A k \in 1 .. i - 1 : r[k] = s[k]
    <2>1. \A k \in 1 .. i - 1 : s[k] \in S
      BY <1>1
    <2>2. /\ r \in Seq(S) /\ Len(r) = IF 1 <= i - 1 THEN i - 1 - 1 + 1 ELSE 0
          /\ \A k \in 1 .. i - 1 - 1 + 1 : r[k] = s[1 + k - 1]
      BY <1>1, <2>1, SubSeqProperties
    <2> QED
      BY <1>1, <2>2
  <1> HIDE DEF l, r
  <1>4. t \in Seq(S) /\ Len(t) = n /\ DOMAIN t = 1 .. n
        /\ \A k \in 1 .. n : t[k] = IF k <= Len(l) THEN l[k] ELSE r[k - Len(l)]
    <2>1. /\ t \in Seq(S) /\ Len(t) = Len(l) + Len(r)
          /\ \A k \in 1 .. Len(l) + Len(r) :
                 t[k] = IF k <= Len(l) THEN l[k] ELSE r[k - Len(l)]
      BY <1>2, <1>3, ConcatProperties
    <2>2. Len(l) + Len(r) = n
      BY <1>1, <1>2, <1>3
    <2> QED
      BY <2>1, <2>2, LenProperties
  <1> HIDE DEF t
  <1>5. \A k \in 1 .. n : from(k) \in 1 .. n /\ t[k] = s[from(k)]
    <2> SUFFICES ASSUME NEW k \in 1 .. n
                 PROVE  from(k) \in 1 .. n /\ t[k] = s[from(k)]
      OBVIOUS
    <2>1. CASE k <= n - i + 1
      <3>1. from(k) = i + k - 1 /\ t[k] = l[k]
        BY <1>1, <1>2, <1>4, <2>1
      <3> QED
        BY <1>1, <1>2, <2>1, <3>1
    <2>2. CASE ~(k <= n - i + 1)
      <3>1. from(k) = k - Len(l) /\ t[k] = r[k - Len(l)]
        BY <1>1, <1>2, <1>4, <2>2
      <3>2. k - Len(l) \in 1 .. i - 1
        BY <1>1, <1>2, <2>2
      <3> QED
        BY <1>1, <1>3, <3>1, <3>2
    <2> QED
      BY <2>1, <2>2
  <1>6. \A k, m \in 1 .. n : from(k) = from(m) => k = m
    BY <1>1
  <1>7. \A j \in 1 .. n : \E k \in 1 .. n : from(k) = j
    <2> SUFFICES ASSUME NEW j \in 1 .. n PROVE \E k \in 1 .. n : from(k) = j
      OBVIOUS
    <2> DEFINE k == IF j >= i THEN j - i + 1 ELSE j - i + 1 + n
    <2>1. k \in 1 .. n /\ from(k) = j
      BY <1>1
    <2> QED
      BY <2>1
  <1> HIDE DEF from
  <1>8. ToSet(t) = ToSet(s)
    <2>1. \A k \in DOMAIN t : \E j \in DOMAIN s : t[k] = s[j]
      BY <1>1, <1>4, <1>5
    <2>2. \A j \in DOMAIN s : \E k \in DOMAIN t : t[k] = s[j]
      <3> SUFFICES ASSUME NEW j \in DOMAIN s PROVE \E k \in DOMAIN t : t[k] = s[j]
        OBVIOUS
      <3>1. PICK k \in 1 .. n : from(k) = j
        BY <1>1, <1>7
      <3> QED
        BY <1>4, <1>5, <3>1
    <2> QED
      BY <2>1, <2>2 DEF ToSet
  <1>9. IsInjective(s) => IsInjective(t)
    BY <1>1, <1>4, <1>5, <1>6 DEF IsInjective
  <1>10. Len(t) # 0
    BY <1>1, <1>4
  <1>11. Rotated(s, i) = t
    BY DEF Rotated, t, l, r, n
  <1> QED
    BY <1>4, <1>5, <1>8, <1>9, <1>10, <1>11, EmptySeq DEF from, n
=============================================================================
