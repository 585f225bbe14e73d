------------------------- MODULE VersionLimitProofs -------------------------
(***************************************************************************)
(* What a version limit cuts, for any set of versions and any limit.       *)
(***************************************************************************)
EXTENDS VersionLimit, Integers, FiniteSetTheorems, TLAPS

\* What a limit keeps of S.
Spared(S, keep) == S \ Cut(S, keep)

\* What a version limit cuts is older than what it keeps.
LEMMA CutIsOldest ==
  ASSUME NEW S \in SUBSET Versions, NEW keep \in Nat, NEW v \in Cut(S, keep), NEW w \in S,
         Rank[w] < Rank[v]
  PROVE  w \in Cut(S, keep)
<1> USE VersionAssumption
<1>1. v \in S /\ keep > 0 /\ Cardinality(Newer(S, v)) >= keep
  BY DEF Cut
<1>2. Position[w] < Position[v]
  BY <1>1
<1>3. Newer(S, v) \subseteq Newer(S, w)
  <2> SUFFICES ASSUME NEW x \in S, Position[x] > Position[v]
               PROVE  Position[x] > Position[w]
    BY DEF Newer
  <2>1. Position[x] \in Nat /\ Position[v] \in Nat /\ Position[w] \in Nat
    BY <1>1
  <2> QED BY <1>2, <2>1
<1>4. IsFiniteSet(Newer(S, w)) /\ IsFiniteSet(Newer(S, v))
  <2>1. Newer(S, w) \subseteq Versions /\ Newer(S, v) \subseteq Versions
    BY DEF Newer
  <2> QED BY <2>1, FS_Subset
<1>5. Cardinality(Newer(S, v)) <= Cardinality(Newer(S, w))
  BY <1>3, <1>4, FS_Subset
<1>6. Cardinality(Newer(S, v)) \in Nat /\ Cardinality(Newer(S, w)) \in Nat
  BY <1>4, FS_CardinalityType
<1>7. Cardinality(Newer(S, w)) >= keep
  BY <1>1, <1>5, <1>6
<1> QED BY <1>1, <1>7 DEF Cut

\* Two versions have different numbers of newer ones.
LEMMA NewerDiffers ==
  ASSUME NEW S \in SUBSET Versions, NEW v \in S, NEW w \in S, v # w
  PROVE  Cardinality(Newer(S, v)) # Cardinality(Newer(S, w))
<1> USE VersionAssumption
<1>1. ASSUME NEW x \in S, NEW y \in S, Position[x] < Position[y]
      PROVE  Cardinality(Newer(S, x)) # Cardinality(Newer(S, y))
  <2>1. Newer(S, y) \in SUBSET Newer(S, x)
    BY <1>1 DEF Newer
  <2>2. y \in Newer(S, x) /\ y \notin Newer(S, y)
    BY <1>1 DEF Newer
  <2>3. IsFiniteSet(Newer(S, x))
    BY FS_Subset DEF Newer
  <2> QED BY <2>1, <2>2, <2>3, FS_Subset
<1>2. Position[v] < Position[w] \/ Position[w] < Position[v]
  OBVIOUS
<1> QED BY <1>1, <1>2

\* At most keep versions have fewer than keep newer ones.
LEMMA SparedAtMost ==
  ASSUME NEW S \in SUBSET Versions, NEW keep \in Nat \ {0}
  PROVE  IsFiniteSet(Spared(S, keep)) /\ Cardinality(Spared(S, keep)) <= keep
<1> DEFINE K == Spared(S, keep)
<1>1. IsFiniteSet(S) /\ K \in SUBSET S
  BY VersionAssumption, FS_Subset DEF Spared
<1>2. IsFiniteSet(K) /\ Cardinality(K) \in Nat
  BY <1>1, FS_Subset, FS_CardinalityType
<1>3. \A v \in K : Cardinality(Newer(S, v)) \in 0 .. keep - 1
  <2> SUFFICES ASSUME NEW v \in K
               PROVE  Cardinality(Newer(S, v)) \in 0 .. keep - 1
    OBVIOUS
  <2>1. IsFiniteSet(Newer(S, v))
    BY <1>1, FS_Subset DEF Newer
  <2>2. Cardinality(Newer(S, v)) \in Nat
    BY <2>1, FS_CardinalityType
  <2>3. ~(Cardinality(Newer(S, v)) >= keep)
    BY DEF Spared, Cut
  <2> QED BY <2>2, <2>3
<1>4. SUFFICES ASSUME Cardinality(K) > keep
               PROVE  FALSE
  BY <1>2
<1>5. IsFiniteSet(0 .. keep - 1) /\ Cardinality(0 .. keep - 1) = keep
  BY FS_Interval
<1> DEFINE f == [v \in K |-> Cardinality(Newer(S, v))]
<1>6. f \in [K -> 0 .. keep - 1]
  BY <1>3
<1>7. \E v, w \in K : v # w /\ f[v] = f[w]
  <2>1. keep < Cardinality(K)
    BY <1>2, <1>4
  <2> HIDE DEF f, K
  <2> QED BY <1>2, <2>1, <1>5, <1>6, FS_PigeonHole
<1> QED BY <1>1, <1>7, NewerDiffers

\* And all others have at least keep newer ones, but fewer than there are versions.
LEMMA CutAtMost ==
  ASSUME NEW S \in SUBSET Versions, NEW keep \in Nat \ {0}, Cardinality(S) > keep
  PROVE  Cardinality(Cut(S, keep)) <= Cardinality(S) - keep
<1> DEFINE C == Cut(S, keep)
<1> DEFINE n == Cardinality(S)
<1>1. IsFiniteSet(S) /\ n \in Nat /\ C \in SUBSET S
  BY VersionAssumption, FS_Subset, FS_CardinalityType DEF Cut
<1>2. IsFiniteSet(C) /\ Cardinality(C) \in Nat
  BY <1>1, FS_Subset, FS_CardinalityType
<1>3. \A v \in C : Cardinality(Newer(S, v)) \in keep .. n - 1
  <2> SUFFICES ASSUME NEW v \in C
               PROVE  Cardinality(Newer(S, v)) \in keep .. n - 1
    OBVIOUS
  <2>1. Newer(S, v) \in SUBSET S /\ v \in S /\ v \notin Newer(S, v)
    BY VersionAssumption DEF Newer, Cut
  <2>2. Cardinality(Newer(S, v)) \in Nat /\ Cardinality(Newer(S, v)) <= n /\ Newer(S, v) # S
    BY <1>1, <2>1, FS_Subset, FS_CardinalityType
  <2>3. Cardinality(Newer(S, v)) # n
    BY <1>1, <2>1, FS_Subset
  <2>4. Cardinality(Newer(S, v)) >= keep
    BY DEF Cut
  <2> QED BY <1>1, <2>2, <2>3, <2>4
<1>4. SUFFICES ASSUME Cardinality(C) > n - keep
               PROVE  FALSE
  BY <1>1, <1>2
<1>5. IsFiniteSet(keep .. n - 1) /\ Cardinality(keep .. n - 1) = n - keep
  <2>1. keep \in Int /\ n - 1 \in Int /\ keep <= n - 1
    BY <1>1
  <2>2. n \in Int
    BY <1>1
  <2> HIDE DEF n
  <2> QED BY <2>1, <2>2, FS_Interval
<1> DEFINE f == [v \in C |-> Cardinality(Newer(S, v))]
<1> DEFINE T == keep .. n - 1
<1>6. f \in [C -> T]
  BY <1>3
<1>7. \E v, w \in C : v # w /\ f[v] = f[w]
  <2>1. IsFiniteSet(T) /\ Cardinality(T) < Cardinality(C)
    BY <1>1, <1>2, <1>4, <1>5
  <2> HIDE DEF f, C, T
  <2> QED BY <1>2, <2>1, <1>6, FS_PigeonHole
<1> QED BY <1>1, <1>7, NewerDiffers

\* A limit leaves exactly as many versions as it keeps, or all there are if they are no more.
THEOREM LimitIsExact ==
  ASSUME NEW S \in SUBSET Versions, NEW keep \in Nat \ {0}
  PROVE  Cardinality(Spared(S, keep)) = IF Cardinality(S) > keep THEN keep ELSE Cardinality(S)
<1> DEFINE K == Spared(S, keep)
<1> DEFINE C == Cut(S, keep)
<1>1. IsFiniteSet(S) /\ Cardinality(S) \in Nat /\ C \in SUBSET S
  BY VersionAssumption, FS_Subset, FS_CardinalityType DEF Cut
<1>2. Cardinality(K) = Cardinality(S) - Cardinality(C)
  <2>1. S \cap C = C
    BY <1>1
  <2> QED BY <1>1, <2>1, FS_Difference DEF Spared
<1>3. Cardinality(C) \in Nat
  BY <1>1, FS_Subset, FS_CardinalityType
<1>4. CASE Cardinality(S) > keep
  BY <1>1, <1>2, <1>3, <1>4, SparedAtMost, CutAtMost
<1>5. CASE Cardinality(S) <= keep
  <2>1. C = {}
    <3> SUFFICES ASSUME NEW v \in C
                 PROVE  FALSE
      OBVIOUS
    <3>1. Newer(S, v) \in SUBSET S /\ v \in S /\ v \notin Newer(S, v)
      BY VersionAssumption DEF Newer, Cut
    <3>2. Cardinality(Newer(S, v)) >= keep
      BY DEF Cut
    <3>3. Cardinality(Newer(S, v)) \in Nat /\ Cardinality(Newer(S, v)) <= Cardinality(S)
      BY <1>1, <3>1, FS_Subset, FS_CardinalityType
    <3>4. Cardinality(Newer(S, v)) = Cardinality(S)
      BY <1>1, <1>5, <3>2, <3>3
    <3> QED BY <1>1, <3>1, <3>4, FS_Subset
  <2> QED BY <1>1, <1>2, <1>5, <2>1, FS_EmptySet
<1> QED BY <1>1, <1>4, <1>5
=============================================================================
