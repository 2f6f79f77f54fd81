------------------------- MODULE PairlistGateProofs -------------------------
(***************************************************************************)
(* Theorems about PairlistGate, for any pairs, scores and thresholds.      *)
(* Ranking is a sort: the compound key is a strict total order on pairs,   *)
(* so the positions of a listing, entries of one pair told apart by their  *)
(* place, are totally ordered, and counting those before a position gives  *)
(* every rank to exactly one of them.                                      *)
(***************************************************************************)
EXTENDS PairlistGate, SumTheorems, FunctionTheorems, TLAPS

Score(i, p, d) == i.scores[p][SortDims(i.profile)[d]]
SameUpTo(i, p, q, n) == \A d \in 1..n : Score(i, p, d) = Score(i, q, d)

(* The compound key has three or four dimensions.                          *)
LEMMA DimsType ==
  ASSUME NEW profile \in Profiles
  PROVE /\ SortDims(profile) \in Seq(Dimensions)
        /\ Len(SortDims(profile)) \in {3, 4}
        /\ DOMAIN SortDims(profile) = 1..Len(SortDims(profile))
<1>1. CASE profile = "V1_RS_OI"
  <2>1. SortDims(profile) = <<"rs", "oi", "data_quality">>
    BY <1>1 DEF SortDims
  <2> QED BY <2>1 DEF Dimensions
<1>2. CASE profile = "V2_RS_LIQUIDITY"
  <2>1. SortDims(profile) = <<"rs", "liquidity", "data_quality">>
    BY <1>2 DEF SortDims
  <2> QED BY <2>1 DEF Dimensions
<1>3. CASE profile = "V2_RS_OI_LIQUIDITY"
  <2>1. SortDims(profile) = <<"rs", "oi", "liquidity", "data_quality">>
    BY <1>3 DEF SortDims
  <2> QED BY <2>1 DEF Dimensions
<1> QED BY <1>1, <1>2, <1>3 DEF Profiles

(* Scores are compared as numbers, None below them all.                    *)
LEMMA AboveIsOrder ==
  /\ \A a \in Scores \union {None} : ~Above(a, a)
  /\ \A a, b \in Scores \union {None} : Above(a, b) => ~Above(b, a)
  /\ \A a, b \in Scores \union {None} : a # b => Above(a, b) \/ Above(b, a)
  /\ \A a, b, c \in Scores \union {None} : Above(a, b) /\ Above(b, c) => Above(a, c)
BY ScoresAssumption DEF Above

LEMMA ScoreType ==
  ASSUME NEW i, IsInput(i), NEW p \in Range(i.eligible), NEW d \in 1..Len(SortDims(i.profile))
  PROVE Score(i, p, d) \in Scores \union {None}
BY DimsType DEF IsInput, Score

(* A listing has finitely many entries, each of them a pair.               *)
LEMMA ListingType ==
  ASSUME NEW i, IsInput(i)
  PROVE /\ Len(i.eligible) \in Nat
        /\ DOMAIN i.eligible = 1..Len(i.eligible)
        /\ \A n \in DOMAIN i.eligible : i.eligible[n] \in Range(i.eligible)
        /\ Range(i.eligible) \subseteq Pairs
        /\ Range(i.eligible) \subseteq Nat
<1>1. i.eligible \in Seq(Pairs)
  BY DEF IsInput
<1>2. Len(i.eligible) \in Nat /\ DOMAIN i.eligible = 1..Len(i.eligible)
  BY <1>1
<1>3. \A n \in DOMAIN i.eligible : i.eligible[n] \in Pairs
  BY <1>1, <1>2
<1>4. \A n \in DOMAIN i.eligible : i.eligible[n] \in Range(i.eligible)
  BY DEF Range
<1>5. Range(i.eligible) \subseteq Pairs
  BY <1>3 DEF Range
<1> QED BY <1>2, <1>4, <1>5, PairsAssumption DEF PairsAssumption

(* Better in the terms of this module.                                     *)
LEMMA BetterMeans ==
  ASSUME NEW i, IsInput(i), NEW p, NEW q
  PROVE Better(i, p, q) <=>
          \/ \E d \in 1..Len(SortDims(i.profile)) :
               SameUpTo(i, p, q, d - 1) /\ Above(Score(i, p, d), Score(i, q, d))
          \/ SameUpTo(i, p, q, Len(SortDims(i.profile))) /\ p < q
BY DimsType DEF IsInput, Better, SameUpTo, Score

(* Two pairs that do not agree in every dimension have a first one in      *)
(* which they differ.                                                      *)
LEMMA FirstDifference ==
  ASSUME NEW i, IsInput(i), NEW p, NEW q, ~SameUpTo(i, p, q, Len(SortDims(i.profile)))
  PROVE \E d \in 1..Len(SortDims(i.profile)) : SameUpTo(i, p, q, d - 1) /\ Score(i, p, d) # Score(i, q, d)
<1> DEFINE N == Len(SortDims(i.profile))
           eq(d) == Score(i, p, d) = Score(i, q, d)
<1>1. N = 3 \/ N = 4
  BY DimsType DEF IsInput
<1>2. PICK e \in 1..N : ~eq(e)
  BY DEF SameUpTo
<1> HIDE DEF N
<1>3. \E d \in 1..N : ~eq(d) /\ \A c \in 1..(d - 1) : eq(c)
  <2> HIDE DEF eq
  <2>1. CASE ~eq(1) BY <2>1, <1>1
  <2>2. CASE eq(1) /\ ~eq(2) BY <2>2, <1>1
  <2>3. CASE eq(1) /\ eq(2) /\ ~eq(3) BY <2>3, <1>1
  <2>4. CASE eq(1) /\ eq(2) /\ eq(3) BY <2>4, <1>1, <1>2
  <2> QED BY <2>1, <2>2, <2>3, <2>4
<1> QED BY <1>3 DEF SameUpTo, N

(* The compound key orders the pairs: two different ones are never equal,  *)
(* as their names decide in the end.                                       *)
LEMMA BetterIsOrder ==
  ASSUME NEW i, IsInput(i), NEW p \in Range(i.eligible), NEW q \in Range(i.eligible)
  PROVE /\ ~Better(i, p, p)
        /\ p # q => Better(i, p, q) \/ Better(i, q, p)
        /\ ~(Better(i, p, q) /\ Better(i, q, p))
<1> DEFINE N == Len(SortDims(i.profile))
<1>1. N \in Nat
  BY DimsType DEF IsInput
<1>2. p \in Nat /\ q \in Nat
  BY ListingType
<1>3. \A d \in 1..N : Score(i, p, d) \in Scores \union {None} /\ Score(i, q, d) \in Scores \union {None}
  BY ScoreType
<1>4. ~Better(i, p, p)
  <2>1. \A d \in 1..N : ~Above(Score(i, p, d), Score(i, p, d))
    BY <1>3, AboveIsOrder
  <2>2. ~(p < p)
    BY <1>2
  <2> HIDE DEF N
  <2> QED BY <2>1, <2>2, BetterMeans DEF N
<1>5. ASSUME p # q PROVE Better(i, p, q) \/ Better(i, q, p)
  <2>1. CASE SameUpTo(i, p, q, N)
    <3>1. SameUpTo(i, q, p, N)
      BY <2>1 DEF SameUpTo
    <3> QED BY <2>1, <3>1, <1>2, <1>5, BetterMeans
  <2>2. CASE ~SameUpTo(i, p, q, N)
    <3>1. PICK d \in 1..N : SameUpTo(i, p, q, d - 1) /\ Score(i, p, d) # Score(i, q, d)
      BY <2>2, FirstDifference
    <3>2. SameUpTo(i, q, p, d - 1)
      BY <3>1 DEF SameUpTo
    <3>3. Above(Score(i, p, d), Score(i, q, d)) \/ Above(Score(i, q, d), Score(i, p, d))
      BY <3>1, <1>3, AboveIsOrder
    <3> QED BY <3>1, <3>2, <3>3, BetterMeans
  <2> QED BY <2>1, <2>2
<1>6. ASSUME Better(i, p, q), Better(i, q, p) PROVE FALSE
  <2>1. \A d \in 1..N : Above(Score(i, p, d), Score(i, q, d)) => Score(i, p, d) # Score(i, q, d)
    BY <1>3, AboveIsOrder
  <2>2. \A d \in 1..N : Above(Score(i, q, d), Score(i, p, d)) => Score(i, p, d) # Score(i, q, d)
    BY <1>3, AboveIsOrder
  <2>3. CASE SameUpTo(i, p, q, N)
    <3>1. p < q
      BY <1>1, <1>6, <2>1, <2>3, BetterMeans DEF SameUpTo
    <3>2. q < p
      BY <1>1, <1>6, <2>2, <2>3, BetterMeans DEF SameUpTo
    <3> QED BY <3>1, <3>2, <1>2
  <2>4. CASE ~SameUpTo(i, p, q, N)
    <3>1. PICK d \in 1..N : SameUpTo(i, p, q, d - 1) /\ Above(Score(i, p, d), Score(i, q, d))
      BY <1>6, <2>4, BetterMeans
    <3>2. ~SameUpTo(i, q, p, N)
      BY <2>4 DEF SameUpTo
    <3>3. PICK e \in 1..N : SameUpTo(i, q, p, e - 1) /\ Above(Score(i, q, e), Score(i, p, e))
      BY <1>6, <3>2, BetterMeans
    <3>4. ~(d < e) /\ ~(e < d)
      BY <1>1, <2>1, <2>2, <3>1, <3>3 DEF SameUpTo
    <3>5. d = e
      BY <1>1, <3>4
    <3> QED BY <3>1, <3>3, <3>5, <1>3, AboveIsOrder
  <2> QED BY <2>3, <2>4
<1> QED BY <1>4, <1>5, <1>6

LEMMA BetterIsTransitive ==
  ASSUME NEW i, IsInput(i), NEW p \in Range(i.eligible), NEW q \in Range(i.eligible), NEW r \in Range(i.eligible),
         Better(i, p, q), Better(i, q, r)
  PROVE Better(i, p, r)
<1> DEFINE N == Len(SortDims(i.profile))
<1>1. N \in Nat
  BY DimsType DEF IsInput
<1>2. p \in Nat /\ q \in Nat /\ r \in Nat
  BY ListingType
<1>3. \A d \in 1..N : /\ Score(i, p, d) \in Scores \union {None}
                      /\ Score(i, q, d) \in Scores \union {None}
                      /\ Score(i, r, d) \in Scores \union {None}
  BY ScoreType
<1>4. CASE SameUpTo(i, p, q, N) /\ p < q
  <2>1. CASE SameUpTo(i, q, r, N) /\ q < r
    <3>1. SameUpTo(i, p, r, N)
      BY <1>4, <2>1 DEF SameUpTo
    <3>2. p < r
      BY <1>2, <1>4, <2>1
    <3> QED BY <3>1, <3>2, BetterMeans
  <2>2. ASSUME NEW e \in 1..N, SameUpTo(i, q, r, e - 1), Above(Score(i, q, e), Score(i, r, e))
        PROVE Better(i, p, r)
    <3>1. SameUpTo(i, p, r, e - 1)
      BY <1>1, <1>4, <2>2 DEF SameUpTo
    <3>2. Above(Score(i, p, e), Score(i, r, e))
      BY <1>4, <2>2 DEF SameUpTo
    <3> QED BY <3>1, <3>2, BetterMeans
  <2> QED BY <2>1, <2>2, BetterMeans
<1>5. ASSUME NEW d \in 1..N, SameUpTo(i, p, q, d - 1), Above(Score(i, p, d), Score(i, q, d))
      PROVE Better(i, p, r)
  <2>1. CASE SameUpTo(i, q, r, N)
    <3>1. SameUpTo(i, p, r, d - 1)
      BY <1>1, <1>5, <2>1 DEF SameUpTo
    <3>2. Above(Score(i, p, d), Score(i, r, d))
      BY <1>5, <2>1 DEF SameUpTo
    <3> QED BY <3>1, <3>2, BetterMeans
  <2>2. ASSUME NEW e \in 1..N, SameUpTo(i, q, r, e - 1), Above(Score(i, q, e), Score(i, r, e))
        PROVE Better(i, p, r)
    <3>1. CASE d < e
      <4>1. SameUpTo(i, p, r, d - 1) /\ Score(i, q, d) = Score(i, r, d)
        BY <1>1, <1>5, <2>2, <3>1 DEF SameUpTo
      <4> QED BY <4>1, <1>5, BetterMeans
    <3>2. CASE e < d
      <4>1. SameUpTo(i, p, r, e - 1) /\ Score(i, p, e) = Score(i, q, e)
        BY <1>1, <1>5, <2>2, <3>2 DEF SameUpTo
      <4> QED BY <4>1, <2>2, BetterMeans
    <3>3. CASE d = e
      <4>1. SameUpTo(i, p, r, d - 1)
        BY <1>1, <1>5, <2>2, <3>3 DEF SameUpTo
      <4>2. Above(Score(i, p, d), Score(i, r, d))
        BY <1>3, <1>5, <2>2, <3>3, AboveIsOrder
      <4> QED BY <4>1, <4>2, BetterMeans
    <3> QED BY <1>1, <3>1, <3>2, <3>3
  <2> QED BY <2>1, <2>2, BetterMeans
<1> QED BY <1>4, <1>5, BetterMeans

(* With equal keys only for equal pairs, a stable sort puts entry m before *)
(* entry n when m's pair is better, or is the same and listed earlier.     *)
LEMMA SortsBeforeMeans ==
  ASSUME NEW i, IsInput(i), NEW m \in DOMAIN i.eligible, NEW n \in DOMAIN i.eligible
  PROVE SortsBefore(i, m, n) <=> \/ Better(i, i.eligible[m], i.eligible[n])
                                 \/ i.eligible[m] = i.eligible[n] /\ m < n
<1>1. i.eligible[m] \in Range(i.eligible) /\ i.eligible[n] \in Range(i.eligible)
  BY ListingType
<1> QED BY <1>1, BetterIsOrder DEF SortsBefore

LEMMA SortsBeforeIsOrder ==
  ASSUME NEW i, IsInput(i), NEW m \in DOMAIN i.eligible, NEW n \in DOMAIN i.eligible
  PROVE /\ ~SortsBefore(i, m, m)
        /\ m # n => SortsBefore(i, m, n) \/ SortsBefore(i, n, m)
<1>1. i.eligible[m] \in Range(i.eligible) /\ i.eligible[n] \in Range(i.eligible) /\ m \in Nat /\ n \in Nat
  BY ListingType
<1>2. ~SortsBefore(i, m, m)
  BY <1>1, BetterIsOrder, SortsBeforeMeans
<1>3. ASSUME m # n PROVE SortsBefore(i, m, n) \/ SortsBefore(i, n, m)
  <2>1. m < n \/ n < m
    BY <1>1, <1>3
  <2> QED BY <1>1, <2>1, BetterIsOrder, SortsBeforeMeans
<1> QED BY <1>2, <1>3

LEMMA SortsBeforeIsTransitive ==
  ASSUME NEW i, IsInput(i), NEW k \in DOMAIN i.eligible, NEW m \in DOMAIN i.eligible, NEW n \in DOMAIN i.eligible,
         SortsBefore(i, k, m), SortsBefore(i, m, n)
  PROVE SortsBefore(i, k, n)
<1>1. /\ i.eligible[k] \in Range(i.eligible) /\ i.eligible[m] \in Range(i.eligible)
      /\ i.eligible[n] \in Range(i.eligible)
      /\ k \in Nat /\ m \in Nat /\ n \in Nat
  BY ListingType
<1>2. Better(i, i.eligible[k], i.eligible[m]) /\ Better(i, i.eligible[m], i.eligible[n])
        => Better(i, i.eligible[k], i.eligible[n])
  BY <1>1, BetterIsTransitive
<1>3. k < m /\ m < n => k < n
  BY <1>1
<1> QED BY <1>2, <1>3, SortsBeforeMeans

(* The entries before an entry are finitely many, and those before an      *)
(* earlier entry are fewer.                                                *)
LEMMA RankGrows ==
  ASSUME NEW i, IsInput(i), NEW m \in DOMAIN i.eligible, NEW n \in DOMAIN i.eligible
  PROVE /\ Rank(i, n) \in 1..Len(i.eligible)
        /\ SortsBefore(i, m, n) => Rank(i, m) < Rank(i, n)
<1> DEFINE D == DOMAIN i.eligible
           Before(x) == {y \in D : SortsBefore(i, y, x)}
<1>1. IsFiniteSet(D) /\ Cardinality(D) = Len(i.eligible)
  BY ListingType, FS_Interval
<1>2. \A x \in D : IsFiniteSet(Before(x)) /\ Cardinality(Before(x)) \in Nat
  BY <1>1, FS_Subset, FS_CardinalityType
<1>3. n \in D /\ n \notin Before(n)
  BY SortsBeforeIsOrder
<1>4. Before(n) \subseteq D /\ Before(n) # D
  BY <1>3
<1>5. Cardinality(Before(n)) < Cardinality(D)
  <2>1. Cardinality(Before(n)) <= Cardinality(D) /\ Cardinality(Before(n)) # Cardinality(D)
    BY <1>1, <1>4, FS_Subset
  <2>2. Len(i.eligible) \in Nat
    BY ListingType
  <2> HIDE DEF D, Before
  <2>3. Cardinality(Before(n)) \in Nat
    BY <1>2, <1>3
  <2> QED BY <1>1, <2>1, <2>2, <2>3
<1>6. Rank(i, n) \in 1..Len(i.eligible)
  <2>1. Rank(i, n) = Cardinality(Before(n)) + 1
    BY DEF Rank
  <2> HIDE DEF D, Before
  <2>2. Cardinality(Before(n)) \in Nat
    BY <1>2, <1>3
  <2> QED BY <1>1, <1>5, <2>1, <2>2, ListingType
<1>7. ASSUME SortsBefore(i, m, n) PROVE Rank(i, m) < Rank(i, n)
  <2>1. Before(m) \subseteq Before(n)
    BY <1>7, SortsBeforeIsTransitive
  <2>2. m \in Before(n) /\ m \notin Before(m)
    BY <1>7, SortsBeforeIsOrder
  <2>3. Cardinality(Before(m)) < Cardinality(Before(n))
    BY <1>2, <2>1, <2>2, FS_Subset
  <2> QED BY <1>2, <2>3 DEF Rank
<1> QED BY <1>6, <1>7

(* Every rank belongs to exactly one entry of the listing.                 *)
LEMMA RanksAreUnique ==
  ASSUME NEW i, IsInput(i), NEW k \in DOMAIN i.eligible
  PROVE /\ \E n \in DOMAIN i.eligible : Rank(i, n) = k
        /\ \A m, n \in DOMAIN i.eligible : Rank(i, m) = k /\ Rank(i, n) = k => m = n
<1> DEFINE D == DOMAIN i.eligible
           f == [n \in D |-> Rank(i, n)]
<1>1. IsFiniteSet(D)
  BY ListingType, FS_Interval
<1>2. \A m, n \in D : m # n => Rank(i, m) # Rank(i, n)
  <2> SUFFICES ASSUME NEW m \in D, NEW n \in D, m # n PROVE Rank(i, m) # Rank(i, n)
    OBVIOUS
  <2>1. Rank(i, m) < Rank(i, n) \/ Rank(i, n) < Rank(i, m)
    BY RankGrows, SortsBeforeIsOrder
  <2> QED BY <2>1, RankGrows
<1>3. f \in Injection(D, D)
  <2>1. \A n \in D : Rank(i, n) \in D
    BY RankGrows, ListingType
  <2> QED BY <1>2, <2>1 DEF Injection, IsInjective
<1>4. f \in Bijection(D, D)
  BY <1>1, <1>3, FS_Injection DEF Bijection
<1>5. \E n \in D : f[n] = k
  BY <1>4 DEF Bijection, Surjection
<1> QED BY <1>2, <1>5

(* The entry that is ranked k-th, and its row.                             *)
EntryAt(i, k) == CHOOSE n \in DOMAIN i.eligible : Rank(i, n) = k

LEMMA RowType ==
  ASSUME NEW i, IsInput(i), NEW k \in DOMAIN i.eligible
  PROVE /\ EntryAt(i, k) \in DOMAIN i.eligible
        /\ Rank(i, EntryAt(i, k)) = k
        /\ Ranked(i)[k].pair = i.eligible[EntryAt(i, k)]
        /\ Ranked(i)[k].selected = IsSelected(i, i.eligible[EntryAt(i, k)], k)
        /\ Ranked(i)[k] \in RankedPairs
<1> DEFINE p == i.eligible[EntryAt(i, k)]
<1>1. EntryAt(i, k) \in DOMAIN i.eligible /\ Rank(i, EntryAt(i, k)) = k
  BY RanksAreUnique DEF EntryAt
<1>2. p \in Range(i.eligible) /\ p \in Pairs /\ k \in Nat \ {0}
  BY <1>1, ListingType
<1>3. i.scores[p] \in [Dimensions -> Scores \union {None}]
  BY <1>2 DEF IsInput
<1>4. i.scores[p]["data_quality"] \in Scores \union {None}
  BY <1>3 DEF Dimensions
<1>5. IsSelected(i, p, k) \in BOOLEAN
  BY DEF IsSelected
<1>6. Ranked(i)[k] =
        [pair |-> p,
         rank |-> k,
         selected |-> IsSelected(i, p, k),
         data_quality |-> IF i.profile = "V1_RS_OI" THEN None ELSE i.scores[p]["data_quality"],
         lacks |-> IF Sufficient(i, p) THEN {} ELSE {LacksCode(i.profile)}]
  BY DEF Ranked, EntryAt
<1> HIDE DEF p
<1>7. Ranked(i)[k] \in RankedPairs
  BY <1>2, <1>4, <1>5, <1>6 DEF RankedPairs, LacksCode
<1> QED BY <1>1, <1>6, <1>7 DEF p

LEMMA RankedType ==
  ASSUME NEW i, IsInput(i)
  PROVE /\ Ranked(i) \in Seq(RankedPairs)
        /\ DOMAIN Ranked(i) = DOMAIN i.eligible
<1>1. DOMAIN Ranked(i) = DOMAIN i.eligible /\ Len(i.eligible) \in Nat /\ DOMAIN i.eligible = 1..Len(i.eligible)
  BY ListingType DEF Ranked
<1>2. Ranked(i) \in [1..Len(i.eligible) -> RankedPairs]
  <2>1. Ranked(i) = [k \in DOMAIN i.eligible |-> Ranked(i)[k]]
    BY DEF Ranked
  <2> QED BY <1>1, <2>1, RowType
<1> QED BY <1>1, <1>2

LEMMA GateReasonsType ==
  ASSUME NEW profile, NEW rows
  PROVE GateReasons(profile, rows) \in SUBSET ReasonCodes
BY DEF GateReasons, When, ReasonCodes

(* The state of a build is well typed; in particular the ranking gives     *)
(* every rank to a pair of the input.                                      *)
THEOREM TypeInvariant == Spec => []TypeOK
<1>1. Init => TypeOK
  BY InputsAssumption DEF Init, TypeOK, Stages, ReasonCodes
<1>2. TypeOK /\ [Next]_vars => TypeOK'
  <2> SUFFICES ASSUME TypeOK, [Next]_vars PROVE TypeOK'
    OBVIOUS
  <2>1. CASE RankPairs
    <3>1. Ranked(input) \in Seq(RankedPairs)
      BY RankedType DEF TypeOK
    <3> QED BY <2>1, <3>1 DEF RankPairs, TypeOK, Stages
  <2>2. CASE RankError
    BY <2>2 DEF RankError, TypeOK, Stages
  <2>3. CASE RunGate
    BY <2>3, GateReasonsType DEF RunGate, TypeOK, Stages
  <2>4. CASE UNCHANGED vars
    BY <2>4 DEF vars, TypeOK
  <2> QED BY <2>1, <2>2, <2>3, <2>4 DEF Next
<1> QED BY <1>1, <1>2, PTL DEF Spec
----------------------------------------------------------------------------
(* What the gate found no fault with has no fault to be found later.       *)
LEMMA GateCoversValidation ==
  ASSUME NEW profile, NEW rows, GateReasons(profile, rows) = {}
  PROVE ValidateReasons(PairsOf(SelectedOf(rows))) = {}
<1> DEFINE pairs == PairsOf(SelectedOf(rows))
<1>1. /\ When(pairs = <<>>, "EMPTY_UNIVERSE") = {}
      /\ When(Range(pairs) \ WellFormed # {}, "INVALID_PAIR_FORMAT") = {}
      /\ When(DuplicatePairs(pairs) # {}, "DUPLICATE_PAIR") = {}
      /\ When(pairs # <<>> /\ Len(pairs) < MinPairs, "BELOW_MIN_PAIRS") = {}
      /\ When(Len(pairs) > MaxPairs, "ABOVE_MAX_PAIRS") = {}
  BY DEF GateReasons
<1> HIDE DEF pairs
<1>2. /\ pairs # <<>>
      /\ ~(Range(pairs) \ WellFormed # {})
      /\ ~(DuplicatePairs(pairs) # {})
      /\ ~(Len(pairs) < MinPairs)
      /\ ~(Len(pairs) > MaxPairs)
  BY <1>1 DEF When
<1>3. ValidateReasons(pairs) = {}
  BY <1>2 DEF ValidateReasons, When
<1> QED BY <1>3 DEF pairs

(* What later stages know of the earlier ones.                             *)
StageInv ==
  /\ stage \in {"ranked", "approved", "rejected"} => ranked = Ranked(input)
  /\ stage = "approved" => GateReasons(input.profile, ranked) = {}

LEMMA StageInvariant == Spec => []StageInv
<1>1. Init => StageInv
  BY DEF Init, StageInv
<1>2. StageInv /\ [Next]_vars => StageInv'
  <2> SUFFICES ASSUME StageInv, [Next]_vars PROVE StageInv'
    OBVIOUS
  <2>1. CASE RankPairs
    BY <2>1 DEF RankPairs, StageInv
  <2>2. CASE RankError
    BY <2>2 DEF RankError, StageInv
  <2>3. CASE RunGate
    BY <2>3 DEF RunGate, StageInv
  <2>4. CASE UNCHANGED vars
    BY <2>4 DEF vars, StageInv
  <2> QED BY <2>1, <2>2, <2>3, <2>4 DEF Next
<1> QED BY <1>1, <1>2, PTL DEF Spec

(* Whatever the gate approves, the validation of published lists accepts.  *)
THEOREM ApprovedIsAlwaysValid == Spec => []ApprovedIsValid
<1>1. StageInv => ApprovedIsValid
  BY GateCoversValidation DEF StageInv, ApprovedIsValid, Published
<1> QED BY <1>1, StageInvariant, PTL
----------------------------------------------------------------------------
(* j has the same pairs as i, at other places: `to` tells where.           *)
Rearranges(i, j, to) ==
  /\ j.profile = i.profile
  /\ j.scores = i.scores
  /\ DOMAIN j.eligible = DOMAIN i.eligible
  /\ to \in Injection(DOMAIN i.eligible, DOMAIN i.eligible)
  /\ \A n \in DOMAIN i.eligible : j.eligible[to[n]] = i.eligible[n]

(* Neither of these depends on the order of a listing.                     *)
LEMMA SameEvidence ==
  ASSUME NEW i, NEW j, IsInput(i), IsInput(j), j.profile = i.profile, j.scores = i.scores
  PROVE /\ \A p, q : Better(j, p, q) <=> Better(i, p, q)
        /\ \A p, k : IsSelected(j, p, k) <=> IsSelected(i, p, k)
        /\ \A p : Sufficient(j, p) <=> Sufficient(i, p)
<1>1. ASSUME NEW p, NEW q PROVE Better(j, p, q) <=> Better(i, p, q)
  <2>1. \A d : Score(j, p, d) = Score(i, p, d) /\ Score(j, q, d) = Score(i, q, d)
    BY DEF Score
  <2>2. \A n : SameUpTo(j, p, q, n) <=> SameUpTo(i, p, q, n)
    BY <2>1 DEF SameUpTo
  <2> QED BY <2>1, <2>2, BetterMeans
<1>2. ASSUME NEW p PROVE Sufficient(j, p) <=> Sufficient(i, p)
  BY DEF Sufficient
<1>3. ASSUME NEW p, NEW k PROVE IsSelected(j, p, k) <=> IsSelected(i, p, k)
  BY <1>2 DEF IsSelected
<1> QED BY <1>1, <1>2, <1>3, Zenon

(* A better pair has the smaller rank in any arrangement: the entries up   *)
(* to it in one are places before the other pair in the other.             *)
LEMMA BetterRanksFirst ==
  ASSUME NEW i, NEW j, NEW to, IsInput(i), IsInput(j), Rearranges(i, j, to),
         NEW m \in DOMAIN i.eligible, NEW n \in DOMAIN i.eligible,
         Better(i, i.eligible[m], j.eligible[n])
  PROVE Rank(i, m) < Rank(j, n)
<1> DEFINE D == DOMAIN i.eligible
           BeforeI == {y \in D : SortsBefore(i, y, m)}
           BeforeJ == {y \in D : SortsBefore(j, y, n)}
           UpTo == BeforeI \union {m}
           h == [y \in UpTo |-> to[y]]
<1>1. /\ DOMAIN j.eligible = D /\ j.profile = i.profile /\ j.scores = i.scores
      /\ to \in [D -> D]
      /\ \A y, z \in D : to[y] = to[z] => y = z
      /\ \A y \in D : j.eligible[to[y]] = i.eligible[y]
  BY DEF Rearranges, Injection, IsInjective
<1>2. \A p, q : Better(j, p, q) <=> Better(i, p, q)
  BY <1>1, SameEvidence
<1>3. ASSUME NEW y \in UpTo PROVE to[y] \in BeforeJ
  <2>1. y \in D
    OBVIOUS
  <2>2. /\ i.eligible[y] \in Range(i.eligible) /\ i.eligible[m] \in Range(i.eligible)
        /\ j.eligible[n] \in Range(i.eligible)
    <3>1. i.eligible[y] \in Range(i.eligible) /\ i.eligible[m] \in Range(i.eligible)
      BY <2>1, ListingType
    <3>2. j.eligible[n] \in Range(j.eligible)
      BY <1>1, ListingType
    <3>3. i.scores \in [Range(i.eligible) -> [Dimensions -> Scores \union {None}]]
      BY DEF IsInput
    <3>4. j.scores \in [Range(j.eligible) -> [Dimensions -> Scores \union {None}]]
      BY DEF IsInput
    <3>5. Range(i.eligible) = Range(j.eligible)
      BY <1>1, <3>3, <3>4
    <3> QED BY <3>1, <3>2, <3>5
  <2>3. i.eligible[y] = i.eligible[m] \/ Better(i, i.eligible[y], i.eligible[m])
    BY <2>1, SortsBeforeMeans
  <2>4. Better(i, i.eligible[y], j.eligible[n])
    BY <2>2, <2>3, BetterIsTransitive
  <2>5. Better(j, j.eligible[to[y]], j.eligible[n])
    BY <1>1, <1>2, <2>1, <2>4
  <2>6. to[y] \in D
    BY <1>1, <2>1
  <2>7. SortsBefore(j, to[y], n)
    BY <2>5 DEF SortsBefore
  <2> QED BY <2>6, <2>7
<1>4. h \in Injection(UpTo, BeforeJ)
  <2>1. UpTo \subseteq D
    OBVIOUS
  <2> HIDE DEF UpTo, BeforeJ, D
  <2>2. h \in [UpTo -> BeforeJ]
    BY <1>3
  <2>3. \A y, z \in UpTo : h[y] = h[z] => y = z
    BY <1>1, <2>1
  <2> QED BY <2>2, <2>3 DEF Injection, IsInjective
<1>5. IsFiniteSet(D)
  <2>1. Len(i.eligible) \in Nat /\ D = 1..Len(i.eligible)
    BY ListingType
  <2> QED BY <2>1, FS_Interval
<1>6. IsFiniteSet(BeforeI) /\ IsFiniteSet(BeforeJ)
  BY <1>5, FS_Subset
<1>7. m \notin BeforeI
  BY SortsBeforeIsOrder
<1>8. Rank(i, m) = Cardinality(BeforeI) + 1 /\ Rank(j, n) = Cardinality(BeforeJ) + 1
  BY <1>1 DEF Rank
<1> HIDE DEF BeforeI, BeforeJ, D, h
<1>9. Cardinality(BeforeI) \in Nat /\ Cardinality(BeforeJ) \in Nat
  BY <1>6, FS_CardinalityType
<1>10. Cardinality(UpTo) = Cardinality(BeforeI) + 1
  BY <1>6, <1>7, FS_AddElement
<1>11. Cardinality(UpTo) <= Cardinality(BeforeJ)
  BY <1>4, <1>6, FS_Injection
<1> QED BY <1>8, <1>9, <1>10, <1>11

(* Two arrangements of the same pairs are ranked alike.                    *)
LEMMA RankedAlike ==
  ASSUME NEW i, NEW j, IsInput(i), IsInput(j), Range(j.eligible) = Range(i.eligible),
         NEW to, Rearranges(i, j, to), NEW from, Rearranges(j, i, from)
  PROVE Ranked(j) = Ranked(i)
<1>1. DOMAIN j.eligible = DOMAIN i.eligible /\ j.profile = i.profile /\ j.scores = i.scores
  BY DEF Rearranges
<1>2. ASSUME NEW k \in DOMAIN i.eligible
      PROVE i.eligible[EntryAt(i, k)] = j.eligible[EntryAt(j, k)]
  <2> DEFINE m == EntryAt(i, k)
             n == EntryAt(j, k)
  <2>1. m \in DOMAIN i.eligible /\ n \in DOMAIN i.eligible /\ Rank(i, m) = k /\ Rank(j, n) = k
    BY <1>1, RowType
  <2>2. k \in Nat
    BY ListingType
  <2>3. i.eligible[m] \in Range(i.eligible) /\ j.eligible[n] \in Range(i.eligible)
    BY <1>1, <2>1, ListingType
  <2> HIDE DEF m, n
  <2>4. ~Better(i, i.eligible[m], j.eligible[n])
    <3>1. ~(Rank(i, m) < Rank(j, n))
      BY <2>1, <2>2
    <3> QED BY <2>1, <3>1, BetterRanksFirst
  <2>5. ~Better(i, j.eligible[n], i.eligible[m])
    <3>1. ~(Rank(j, n) < Rank(i, m))
      BY <2>1, <2>2
    <3>2. ~Better(j, j.eligible[n], i.eligible[m])
      BY <1>1, <2>1, <3>1, BetterRanksFirst
    <3> QED BY <1>1, <3>2, SameEvidence
  <2> QED BY <2>3, <2>4, <2>5, BetterIsOrder DEF m, n
<1>3. \A p, k : IsSelected(j, p, k) = IsSelected(i, p, k)
  BY <1>1, SameEvidence DEF IsSelected
<1>4. \A p : Sufficient(j, p) <=> Sufficient(i, p)
  BY <1>1, SameEvidence
<1> DEFINE Row(x, p, k) ==
             [pair |-> p,
              rank |-> k,
              selected |-> IsSelected(x, p, k),
              data_quality |-> IF x.profile = "V1_RS_OI" THEN None ELSE x.scores[p]["data_quality"],
              lacks |-> IF Sufficient(x, p) THEN {} ELSE {LacksCode(x.profile)}]
<1>5. /\ Ranked(i) = [k \in DOMAIN i.eligible |-> Row(i, i.eligible[EntryAt(i, k)], k)]
      /\ Ranked(j) = [k \in DOMAIN j.eligible |-> Row(j, j.eligible[EntryAt(j, k)], k)]
  BY DEF Ranked, EntryAt
<1>6. \A p, k : Row(j, p, k) = Row(i, p, k)
  BY <1>1, <1>3, <1>4
<1> HIDE DEF Row
<1>7. \A k \in DOMAIN i.eligible :
        Row(j, j.eligible[EntryAt(j, k)], k) = Row(i, i.eligible[EntryAt(i, k)], k)
  BY <1>2, <1>6
<1> QED BY <1>1, <1>5, <1>7

(* A permutation of the listing is an arrangement, and so is its inverse.  *)
LEMMA ReorderedIsArrangement ==
  ASSUME NEW i, IsInput(i), NEW j \in Reordered(i)
  PROVE /\ IsInput(j)
        /\ Range(j.eligible) = Range(i.eligible)
        /\ \E to, from : Rearranges(i, j, to) /\ Rearranges(j, i, from)
<1> DEFINE D == DOMAIN i.eligible
<1>1. PICK f \in [D -> D] :
        /\ Range(f) = D
        /\ j = [i EXCEPT !.eligible = [n \in D |-> i.eligible[f[n]]]]
  BY DEF Reordered
<1>2. DOMAIN i = {"profile", "eligible", "scores"}
  BY DEF IsInput
<1>3. /\ DOMAIN j = DOMAIN i /\ j.profile = i.profile /\ j.scores = i.scores
      /\ j.eligible = [n \in D |-> i.eligible[f[n]]]
  BY <1>1, <1>2
<1>4. Range(j.eligible) = Range(i.eligible)
  <2>1. \A n \in D : j.eligible[n] \in Range(i.eligible)
    BY <1>1, <1>3 DEF Range
  <2>2. \A n \in D : \E k \in D : f[k] = n
    BY <1>1 DEF Range
  <2>3. \A n \in D : \E k \in D : j.eligible[k] = i.eligible[n]
    BY <1>3, <2>2
  <2>4. DOMAIN j.eligible = D
    BY <1>3
  <2>5. Range(j.eligible) \subseteq Range(i.eligible)
    BY <2>1, <2>4 DEF Range
  <2>6. Range(i.eligible) \subseteq Range(j.eligible)
    BY <2>3, <2>4 DEF Range
  <2> QED BY <2>5, <2>6
<1>5. IsInput(j)
  <2>1. j.eligible \in Seq(Pairs)
    <3>1. D = 1..Len(i.eligible) /\ Len(i.eligible) \in Nat
      BY ListingType
    <3>2. \A n \in D : j.eligible[n] \in Pairs
      BY <1>1, <1>3, ListingType
    <3>3. j.eligible \in [1..Len(i.eligible) -> Pairs]
      BY <1>3, <3>1, <3>2
    <3> QED BY <3>1, <3>3
  <2>2. /\ i.profile \in Profiles
        /\ i.scores \in [Range(i.eligible) -> [Dimensions -> Scores \union {None}]]
    BY DEF IsInput
  <2> QED BY <1>2, <1>3, <1>4, <2>1, <2>2 DEF IsInput
<1>6. \A y \in D : \E z \in D : f[z] = y
  BY <1>1 DEF Range
<1>7. f \in Surjection(D, D)
  BY <1>1, <1>6 DEF Surjection
<1>8. f \in Injection(D, D)
  <2>1. IsFiniteSet(D)
    <3>1. D = 1..Len(i.eligible) /\ Len(i.eligible) \in Nat
      BY ListingType
    <3> QED BY <3>1, FS_Interval
  <2> QED BY <1>7, <2>1, FS_SurjSameCardinalityImpliesInj
<1> DEFINE g == [y \in D |-> CHOOSE z \in D : f[z] = y]
<1>9. \A y \in D : g[y] \in D /\ f[g[y]] = y
  BY <1>6
<1>10. Rearranges(i, j, g)
  <2> HIDE DEF D, g
  <2>1. g \in [D -> D]
    BY <1>9 DEF g
  <2>2. \A x, y \in D : g[x] = g[y] => x = y
    BY <1>9
  <2>3. g \in Injection(D, D)
    BY <2>1, <2>2 DEF Injection, IsInjective
  <2>4. \A n \in D : j.eligible[g[n]] = i.eligible[n]
    BY <1>3, <1>9
  <2>5. DOMAIN j.eligible = D
    BY <1>3
  <2> QED BY <1>3, <2>3, <2>4, <2>5 DEF Rearranges, D
<1>11. Rearranges(j, i, f)
  <2>1. DOMAIN j.eligible = D
    BY <1>3
  <2>2. \A n \in D : i.eligible[f[n]] = j.eligible[n]
    BY <1>3
  <2> QED BY <1>3, <1>8, <2>1, <2>2 DEF Rearranges
<1> QED BY <1>4, <1>5, <1>10, <1>11

(* The order in which an input lists its pairs leaves no trace.            *)
THEOREM OrderNeverLeavesATrace == Spec => []OrderLeavesNoTrace
<1>1. ASSUME TypeOK, StageInv PROVE OrderLeavesNoTrace
  <2> SUFFICES ASSUME stage = "ranked", NEW j \in Reordered(input) PROVE Ranked(j) = ranked
    BY DEF OrderLeavesNoTrace
  <2>1. IsInput(input) /\ ranked = Ranked(input)
    BY <1>1 DEF TypeOK, StageInv
  <2>2. PICK to, from : Rearranges(input, j, to) /\ Rearranges(j, input, from)
    BY <2>1, ReorderedIsArrangement
  <2>3. IsInput(j) /\ Range(j.eligible) = Range(input.eligible)
    BY <2>1, ReorderedIsArrangement
  <2> QED BY <2>1, <2>2, <2>3, RankedAlike
<1> QED BY <1>1, TypeInvariant, StageInvariant, PTL
----------------------------------------------------------------------------
(* When the selected rows are the first K, they are what is selected.      *)
LEMMA SelectedIsPrefix ==
  ASSUME NEW N \in Nat, NEW rows, DOMAIN rows = 1..N, Len(rows) = N,
         NEW K \in 0..N, \A k \in 1..N : rows[k].selected = (k <= K)
  PROVE SelectedOf(rows) = [k \in 1..K |-> rows[k]]
<1> DEFINE pre(n) == [k \in 1..(IF n <= K THEN n ELSE K) |-> rows[k]]
           step(f) == [n \in 0..N |->
                         IF n = 0 THEN <<>>
                         ELSE IF rows[n].selected THEN Append(f[n - 1], rows[n]) ELSE f[n - 1]]
           w == [n \in 0..N |-> pre(n)]
           G == CHOOSE f : f = step(f)
           T == {n \in Nat : n <= N => G[n] = pre(n)}
<1>1. pre(0) = <<>>
  OBVIOUS
<1>2. ASSUME NEW n \in 1..N
      PROVE pre(n) = IF rows[n].selected THEN Append(pre(n - 1), rows[n]) ELSE pre(n - 1)
  <2>1. CASE n <= K
    <3> DEFINE a == [k \in 1..(n - 1) |-> rows[k]]
    <3>1. pre(n) = [k \in 1..n |-> rows[k]] /\ pre(n - 1) = a
      BY <2>1
    <3>2. a \in Seq(Range(rows)) /\ Len(a) = n - 1
      BY DEF Range
    <3>3. Append(a, rows[n]) = [k \in 1..n |-> rows[k]]
      BY <3>2
    <3> HIDE DEF pre, a
    <3> QED BY <2>1, <3>1, <3>3
  <2>2. CASE ~(n <= K)
    <3>1. (IF n <= K THEN n ELSE K) = (IF n - 1 <= K THEN n - 1 ELSE K)
      BY <2>2
    <3> QED BY <2>2, <3>1
  <2> QED BY <2>1, <2>2
<1>3. w = step(w)
  <2> HIDE DEF pre
  <2> QED BY <1>1, <1>2
<1>4. G = step(G)
  <2> HIDE DEF w, step
  <2> QED BY <1>3
<1>5. SelectedOf(rows) = G[N]
  BY DEF SelectedOf
<1> HIDE DEF G, pre
<1>6. \A n \in 0..N : G[n] = IF n = 0 THEN <<>>
                             ELSE IF rows[n].selected THEN Append(G[n - 1], rows[n]) ELSE G[n - 1]
  BY <1>4
<1>7. 0 \in T
  BY <1>1, <1>6
<1>8. \A n \in Nat : n \in T => n + 1 \in T
  <2> SUFFICES ASSUME NEW n \in Nat, n \in T, n + 1 <= N PROVE G[n + 1] = pre(n + 1)
    OBVIOUS
  <2> DEFINE m == n + 1
  <2>1. m \in 1..N /\ m \in 0..N /\ m # 0 /\ m - 1 = n /\ G[n] = pre(n)
    OBVIOUS
  <2> HIDE DEF m, T
  <2>2. G[m] = IF rows[m].selected THEN Append(G[m - 1], rows[m]) ELSE G[m - 1]
    BY <1>6, <2>1
  <2>3. pre(m) = IF rows[m].selected THEN Append(pre(m - 1), rows[m]) ELSE pre(m - 1)
    BY <1>2, <2>1
  <2>4. G[m] = pre(m)
    BY <2>1, <2>2, <2>3
  <2> QED BY <2>4 DEF m
<1> HIDE DEF T
<1>9. N \in T
  BY <1>7, <1>8, NaturalInduction
<1> QED BY <1>5, <1>9 DEF T, pre

(* The rows stand in the order of the sort.                                *)
LEMMA RowsAreSorted ==
  ASSUME NEW i, IsInput(i), NEW j \in DOMAIN i.eligible, NEW k \in DOMAIN i.eligible, j < k
  PROVE SortsBefore(i, EntryAt(i, j), EntryAt(i, k))
<1> DEFINE m == EntryAt(i, j)
           n == EntryAt(i, k)
<1>1. m \in DOMAIN i.eligible /\ n \in DOMAIN i.eligible /\ Rank(i, m) = j /\ Rank(i, n) = k
  BY RowType
<1>2. j \in Nat /\ k \in Nat
  BY ListingType
<1> HIDE DEF m, n
<1>3. m # n /\ ~(Rank(i, n) < Rank(i, m))
  BY <1>1, <1>2
<1>4. SortsBefore(i, m, n) \/ SortsBefore(i, n, m)
  BY <1>1, <1>3, SortsBeforeIsOrder
<1>5. ~SortsBefore(i, n, m)
  BY <1>1, <1>3, RankGrows
<1> QED BY <1>4, <1>5 DEF m, n

(* A pair with enough evidence is better than one without.                 *)
LEMMA EnoughIsBetter ==
  ASSUME NEW i, IsInput(i), CanRank(i), NEW p \in Range(i.eligible), NEW q \in Range(i.eligible),
         Sufficient(i, p), ~Sufficient(i, q)
  PROVE Better(i, p, q)
<1>1. i.profile = "V1_RS_OI"
  BY DEF CanRank, FieldsOK
<1>2. SortDims(i.profile) = <<"rs", "oi", "data_quality">>
  BY <1>1 DEF SortDims
<1>3. i.scores[q]["rs"] = None /\ i.scores[q]["oi"] = None
  BY <1>1 DEF Sufficient
<1>4. i.scores[p]["rs"] # None \/ i.scores[p]["oi"] # None
  BY <1>1 DEF Sufficient
<1>5. Len(SortDims(i.profile)) = 3 /\ \A x : Score(i, x, 1) = i.scores[x]["rs"] /\ Score(i, x, 2) = i.scores[x]["oi"]
  BY <1>2 DEF Score
<1>6. CASE i.scores[p]["rs"] # None
  <2>1. SameUpTo(i, p, q, 1 - 1) /\ Above(Score(i, p, 1), Score(i, q, 1))
    BY <1>3, <1>5, <1>6 DEF SameUpTo, Above
  <2>2. 1 \in 1..Len(SortDims(i.profile))
    BY <1>5
  <2> QED BY <2>1, <2>2, BetterMeans
<1>7. CASE i.scores[p]["rs"] = None
  <2>1. Above(Score(i, p, 2), Score(i, q, 2))
    BY <1>3, <1>4, <1>5, <1>7 DEF Above
  <2>2. SameUpTo(i, p, q, 2 - 1)
    BY <1>3, <1>5, <1>7 DEF SameUpTo
  <2>3. 2 \in 1..Len(SortDims(i.profile))
    BY <1>5
  <2> QED BY <2>1, <2>2, <2>3, BetterMeans
<1> QED BY <1>6, <1>7

(* The entries with enough evidence, and how many rows they fill.          *)
Enough(i) == {n \in DOMAIN i.eligible : Sufficient(i, i.eligible[n])}

LEMMA EnoughComeFirst ==
  ASSUME NEW i, IsInput(i), CanRank(i)
  PROVE /\ Cardinality(Enough(i)) \in 0..Len(i.eligible)
        /\ \A k \in DOMAIN i.eligible :
             Sufficient(i, i.eligible[EntryAt(i, k)]) <=> k <= Cardinality(Enough(i))
<1> DEFINE N == Len(i.eligible)
           D == DOMAIN i.eligible
           G == {k \in D : Sufficient(i, i.eligible[EntryAt(i, k)])}
           f == [n \in Enough(i) |-> Rank(i, n)]
<1>1. N \in Nat /\ D = 1..N /\ IsFiniteSet(D) /\ Cardinality(D) = N
  BY ListingType, FS_Interval
<1>2. Enough(i) \subseteq D /\ G \subseteq D
  BY DEF Enough
<1>3. IsFiniteSet(Enough(i)) /\ IsFiniteSet(G) /\ Cardinality(Enough(i)) \in Nat /\ Cardinality(G) \in Nat
      /\ Cardinality(Enough(i)) <= N
  BY <1>1, <1>2, FS_Subset, FS_CardinalityType
<1>4. \A n \in D : Rank(i, n) \in D /\ EntryAt(i, Rank(i, n)) = n
  <2> SUFFICES ASSUME NEW n \in D PROVE Rank(i, n) \in D /\ EntryAt(i, Rank(i, n)) = n
    OBVIOUS
  <2>1. Rank(i, n) \in D
    BY <1>1, RankGrows
  <2>2. EntryAt(i, Rank(i, n)) \in D /\ Rank(i, EntryAt(i, Rank(i, n))) = Rank(i, n)
    BY <2>1, RowType
  <2> QED BY <2>1, <2>2, RanksAreUnique
<1>5. \A k \in D : EntryAt(i, k) \in D /\ Rank(i, EntryAt(i, k)) = k
  BY RowType
<1>6. f \in [Enough(i) -> G]
  BY <1>2, <1>4 DEF Enough
<1>7. \A m, n \in Enough(i) : f[m] = f[n] => m = n
  <2> SUFFICES ASSUME NEW m \in Enough(i), NEW n \in Enough(i), Rank(i, m) = Rank(i, n) PROVE m = n
    OBVIOUS
  <2> QED BY <1>2, <1>4
<1>8. \A k \in G : \E n \in Enough(i) : f[n] = k
  <2> SUFFICES ASSUME NEW k \in G PROVE \E n \in Enough(i) : f[n] = k
    OBVIOUS
  <2>1. EntryAt(i, k) \in Enough(i)
    BY <1>5 DEF Enough
  <2> QED BY <1>5, <2>1
<1>9. f \in Bijection(Enough(i), G)
  BY <1>6, <1>7, <1>8 DEF Bijection, Injection, IsInjective, Surjection
<1>10. Cardinality(G) = Cardinality(Enough(i))
  <2>1. ExistsBijection(Enough(i), G)
    BY <1>9 DEF ExistsBijection
  <2> HIDE DEF G, f
  <2> QED BY <1>3, <2>1, FS_Bijection
<1>11. \A k \in G : \A j \in 1..k : j \in G
  <2> SUFFICES ASSUME NEW k \in G, NEW j \in 1..k, j \notin G PROVE FALSE
    OBVIOUS
  <2>1. j \in D /\ k \in D /\ j < k
    <3>1. k \in 1..N
      BY <1>1, <1>2
    <3>2. j # k
      OBVIOUS
    <3> QED BY <1>1, <3>1, <3>2
  <2> DEFINE p == i.eligible[EntryAt(i, j)]
             q == i.eligible[EntryAt(i, k)]
  <2>2. p \in Range(i.eligible) /\ q \in Range(i.eligible)
    BY <1>5, <2>1, ListingType
  <2>3. Better(i, q, p)
    BY <2>1, <2>2, EnoughIsBetter
  <2>4. SortsBefore(i, EntryAt(i, j), EntryAt(i, k))
    BY <2>1, RowsAreSorted
  <2>5. p = q \/ Better(i, p, q)
    BY <1>5, <2>1, <2>4, SortsBeforeMeans
  <2> QED BY <2>2, <2>3, <2>5, BetterIsOrder
<1>12. \A k \in D : k \in G <=> k <= Cardinality(G)
  <2>1. CASE G = {}
    <3>1. Cardinality(G) = 0
      BY <2>1, FS_EmptySet
    <3> HIDE DEF G
    <3> QED BY <1>1, <2>1, <3>1
  <2>2. CASE G # {}
    <3>1. G \subseteq Nat
      BY <1>1, <1>2
    <3> HIDE DEF G
    <3>2. PICK x \in G : \A y \in G : x >= y
      BY <1>3, <2>2, <3>1, GreatestNatural
    <3>3. x \in Nat /\ G = 1..x
      <4>1. x \in 1..N /\ G \subseteq 1..N
        BY <1>1, <1>2, <3>2
      <4>2. G \subseteq 1..x
        BY <3>2, <4>1
      <4>3. 1..x \subseteq G
        BY <1>11
      <4>4. G = 1..x
        BY <4>2, <4>3
      <4> QED BY <3>1, <3>2, <4>4
    <3>4. Cardinality(G) = x
      <4>1. Cardinality(1..x) = x
        BY <3>3, FS_Interval
      <4> QED BY <3>3, <4>1
    <3> QED BY <1>1, <3>3, <3>4
  <2> QED BY <2>1, <2>2
<1> HIDE DEF f
<1> QED BY <1>1, <1>3, <1>10, <1>12
----------------------------------------------------------------------------
(* Digits count from zero and stay below the base, if there is a score.    *)
LEMMA DigitType ==
  ASSUME Scores # {}
  PROVE /\ Base \in Nat
        /\ \A a \in Scores \union {None} : Digit(a) \in 0..(Base - 1)
        /\ \A a, b \in Scores \union {None} : Above(a, b) => Digit(a) > Digit(b)
<1> DEFINE M == CHOOSE s \in Scores : \A t \in Scores : s >= t
<1>1. Scores \subseteq Nat /\ IsFiniteSet(Scores) /\ None \notin Scores
  BY ScoresAssumption
<1>2. \E s \in Scores : \A t \in Scores : s >= t
  BY <1>1, GreatestNatural
<1>3. M \in Scores /\ \A t \in Scores : M >= t
  BY <1>2
<1>4. Base = 2 + M
  BY DEF Base
<1> HIDE DEF M
<1>5. Base \in Nat /\ M \in Nat
  BY <1>1, <1>3, <1>4
<1>6. \A a \in Scores \union {None} : Digit(a) \in 0..(Base - 1)
  BY <1>1, <1>3, <1>4, <1>5 DEF Digit
<1>7. \A a, b \in Scores \union {None} : Above(a, b) => Digit(a) > Digit(b)
  BY <1>1 DEF Above, Digit
<1> QED BY <1>5, <1>6, <1>7

(* The strength of a pair, digit by digit.                                 *)
StrengthUpTo(i, p, n) ==
  LET x(d) == Digit(Score(i, p, d))
  IN IF n = 0 THEN 0
     ELSE IF n = 1 THEN x(1)
     ELSE IF n = 2 THEN x(1) * Base + x(2)
     ELSE IF n = 3 THEN (x(1) * Base + x(2)) * Base + x(3)
     ELSE ((x(1) * Base + x(2)) * Base + x(3)) * Base + x(4)

LEMMA StrengthMeans ==
  ASSUME NEW i, IsInput(i), NEW p \in Range(i.eligible), Scores # {}
  PROVE /\ Strength(i, p) = StrengthUpTo(i, p, Len(SortDims(i.profile)))
        /\ \A n \in 0..Len(SortDims(i.profile)) : StrengthUpTo(i, p, n) \in Nat
        /\ \A n \in 1..Len(SortDims(i.profile)) :
             StrengthUpTo(i, p, n) = StrengthUpTo(i, p, n - 1) * Base + Digit(Score(i, p, n))
<1> DEFINE N == Len(SortDims(i.profile))
           x(d) == Digit(Score(i, p, d))
           s(n) == StrengthUpTo(i, p, n)
           step(f) == [n \in 0..N |-> IF n = 0 THEN 0
                                      ELSE f[n - 1] * Base + Digit(i.scores[p][SortDims(i.profile)[n]])]
           w == [n \in 0..N |-> s(n)]
           G == CHOOSE f : f = step(f)
<1>1. N = 3 \/ N = 4
  BY DimsType DEF IsInput
<1>2. Base \in Nat /\ \A d \in 1..N : x(d) \in Nat
  <2>1. \A d \in 1..N : Score(i, p, d) \in Scores \union {None}
    BY ScoreType
  <2> QED BY <2>1, DigitType
<1> HIDE DEF N, x
<1>3. \A n \in 0..N : s(n) \in Nat
  <2>1. x(1) \in Nat /\ x(2) \in Nat /\ x(3) \in Nat /\ (N = 4 => x(4) \in Nat)
    BY <1>1, <1>2
  <2> DEFINE a == x(1) * Base + x(2)
             b == a * Base + x(3)
             c == b * Base + x(4)
  <2>2. a \in Nat
    BY <1>2, <2>1
  <2>3. b \in Nat
    <3> HIDE DEF a
    <3> QED BY <1>2, <2>1, <2>2
  <2>4. N = 4 => c \in Nat
    <3> HIDE DEF b
    <3> QED BY <1>2, <2>1, <2>3
  <2>5. s(0) = 0 /\ s(1) = x(1) /\ s(2) = a /\ s(3) = b /\ s(4) = c
    BY DEF StrengthUpTo, x
  <2> HIDE DEF a, b, c, s
  <2> QED BY <1>1, <2>1, <2>2, <2>3, <2>4, <2>5
<1>4. \A n \in 1..N : s(n) = s(n - 1) * Base + x(n)
  <2>1. s(1) = s(0) * Base + x(1)
    <3>1. s(0) = 0 /\ s(1) = x(1)
      BY DEF StrengthUpTo, x
    <3>2. x(1) \in Nat
      BY <1>1, <1>2
    <3> HIDE DEF s
    <3> QED BY <1>2, <3>1, <3>2
  <2>2. s(2) = s(1) * Base + x(2) /\ s(3) = s(2) * Base + x(3) /\ s(4) = s(3) * Base + x(4)
    BY DEF StrengthUpTo, x
  <2> HIDE DEF s
  <2> QED BY <1>1, <2>1, <2>2
<1>5. s(0) = 0
  BY DEF StrengthUpTo
<1>6. \A n : x(n) = Digit(i.scores[p][SortDims(i.profile)[n]])
  BY DEF x, Score
<1> HIDE DEF s
<1>7. w = step(w)
  <2>1. \A n \in 1..N : n - 1 \in 0..N
    BY <1>1
  <2> QED BY <1>4, <1>5, <1>6, <2>1
<1>8. G = step(G)
  <2> HIDE DEF w, step
  <2> QED BY <1>7
<1>9. Strength(i, p) = G[N]
  BY DEF Strength, N
<1> HIDE DEF G
<1>10. G[0] = 0 /\ \A n \in 1..N : G[n] = G[n - 1] * Base + x(n)
  BY <1>1, <1>6, <1>8
<1>11. G[N] = s(N)
  <2>1. G[1] = s(1)
    BY <1>1, <1>4, <1>5, <1>10
  <2>2. G[2] = s(2)
    BY <1>1, <1>4, <1>10, <2>1
  <2>3. G[3] = s(3)
    BY <1>1, <1>4, <1>10, <2>2
  <2>4. N = 4 => G[4] = s(4)
    BY <1>1, <1>4, <1>10, <2>3
  <2> QED BY <1>1, <2>3, <2>4
<1> QED BY <1>3, <1>4, <1>9, <1>11 DEF N, s, x

(* A number with the greater leading part is greater, whatever digit comes *)
(* last.                                                                   *)
LEMMA LeadingDecides ==
  ASSUME NEW X \in Nat, NEW Y \in Nat, NEW B \in Nat, NEW d \in 0..(B - 1), NEW e \in 0..(B - 1), X > Y
  PROVE X * B + d > Y * B + e
<1> DEFINE Z == X - (Y + 1)
<1>1. Z \in Nat /\ X = Z + Y + 1
  OBVIOUS
<1>2. Z * B \in Nat
  BY <1>1
<1> HIDE DEF Z
<1>3. X * B = Z * B + Y * B + B
  BY <1>1
<1>4. Y * B \in Nat
  OBVIOUS
<1> QED BY <1>2, <1>3, <1>4

(* The compound key compares strengths, and then names.                    *)
Stronger(i, p, q) ==
  \/ Strength(i, p) > Strength(i, q)
  \/ Strength(i, p) = Strength(i, q) /\ p <= q

LEMMA SortIsByStrength ==
  ASSUME NEW i, IsInput(i), Scores # {}, NEW m \in DOMAIN i.eligible, NEW n \in DOMAIN i.eligible, SortsBefore(i, m, n)
  PROVE Stronger(i, i.eligible[m], i.eligible[n])
<1> DEFINE p == i.eligible[m]
           q == i.eligible[n]
           N == Len(SortDims(i.profile))
           P(k) == StrengthUpTo(i, p, k)
           Q(k) == StrengthUpTo(i, q, k)
           x(d) == Digit(Score(i, p, d))
           y(d) == Digit(Score(i, q, d))
<1>1. p \in Range(i.eligible) /\ q \in Range(i.eligible) /\ p \in Nat /\ q \in Nat
  BY ListingType
<1>2. Better(i, p, q) \/ p = q
  BY SortsBeforeMeans
<1> SUFFICES Stronger(i, p, q)
  OBVIOUS
<1> HIDE DEF p, q
<1>3. N = 3 \/ N = 4
  BY DimsType DEF IsInput
<1>4. /\ Strength(i, p) = P(N) /\ Strength(i, q) = Q(N)
      /\ \A k \in 0..N : P(k) \in Nat /\ Q(k) \in Nat
      /\ \A k \in 1..N : P(k) = P(k - 1) * Base + x(k) /\ Q(k) = Q(k - 1) * Base + y(k)
  BY <1>1, StrengthMeans
<1>5. /\ Base \in Nat
      /\ \A d \in 1..N : x(d) \in 0..(Base - 1) /\ y(d) \in 0..(Base - 1)
      /\ \A d \in 1..N : Above(Score(i, p, d), Score(i, q, d)) => x(d) > y(d)
  <2>1. \A d \in 1..N : Score(i, p, d) \in Scores \union {None} /\ Score(i, q, d) \in Scores \union {None}
    BY <1>1, ScoreType
  <2> QED BY <2>1, DigitType
<1>6. \A d : Score(i, p, d) = Score(i, q, d) => x(d) = y(d)
  OBVIOUS
<1>7. P(0) = 0 /\ Q(0) = 0
  BY DEF StrengthUpTo
<1> HIDE DEF N, P, Q, x, y
(* Equal digits so far give equal numbers so far. *)
<1>8. \A d \in 0..N : SameUpTo(i, p, q, d) => P(d) = Q(d)
  <2> DEFINE E(d) == SameUpTo(i, p, q, d) => P(d) = Q(d)
  <2>1. E(0)
    BY <1>7
  <2>2. \A d \in 1..N : E(d - 1) => E(d)
    <3> SUFFICES ASSUME NEW d \in 1..N, E(d - 1), SameUpTo(i, p, q, d) PROVE P(d) = Q(d)
      OBVIOUS
    <3>1. SameUpTo(i, p, q, d - 1) /\ Score(i, p, d) = Score(i, q, d)
      BY <1>3 DEF SameUpTo
    <3> QED BY <1>4, <1>6, <3>1
  <2> HIDE DEF E
  <2>3. E(1) /\ E(2) /\ E(3) /\ (N = 4 => E(4))
    <3>1. E(1)
      BY <1>3, <2>1, <2>2
    <3>2. E(2)
      BY <1>3, <2>2, <3>1
    <3>3. E(3)
      BY <1>3, <2>2, <3>2
    <3>4. N = 4 => E(4)
      BY <1>3, <2>2, <3>3
    <3> QED BY <3>1, <3>2, <3>3, <3>4
  <2>4. \A d \in 0..N : E(d)
    BY <1>3, <2>1, <2>3
  <2> QED BY <2>4 DEF E
(* A greater number so far stays greater. *)
<1>9. \A d \in 1..N : P(d - 1) > Q(d - 1) => P(d) > Q(d)
  <2> SUFFICES ASSUME NEW d \in 1..N, P(d - 1) > Q(d - 1) PROVE P(d) > Q(d)
    OBVIOUS
  <2>1. P(d - 1) \in Nat /\ Q(d - 1) \in Nat
    <3>1. d - 1 \in 0..N
      BY <1>3
    <3> QED BY <1>4, <3>1
  <2>2. P(d) = P(d - 1) * Base + x(d) /\ Q(d) = Q(d - 1) * Base + y(d)
    BY <1>4
  <2>3. x(d) \in 0..(Base - 1) /\ y(d) \in 0..(Base - 1) /\ Base \in Nat
    BY <1>5
  <2>4. P(d - 1) * Base + x(d) > Q(d - 1) * Base + y(d)
    BY <2>1, <2>3, LeadingDecides
  <2> QED BY <2>2, <2>4
<1>10. ASSUME NEW d \in 1..N, SameUpTo(i, p, q, d - 1), Above(Score(i, p, d), Score(i, q, d))
       PROVE P(N) > Q(N)
  <2>1. P(d - 1) = Q(d - 1) /\ P(d - 1) \in Nat
    <3>1. d - 1 \in 0..N
      BY <1>3
    <3> QED BY <1>4, <1>8, <1>10, <3>1
  <2>2. P(d) > Q(d)
    <3>1. P(d) = P(d - 1) * Base + x(d) /\ Q(d) = P(d - 1) * Base + y(d)
      BY <1>4, <2>1
    <3>2. x(d) > y(d) /\ x(d) \in Int /\ y(d) \in Int /\ P(d - 1) * Base \in Int
      BY <1>5, <1>10, <2>1
    <3> QED BY <3>1, <3>2
  <2>3. d < N => P(d + 1) > Q(d + 1)
    <3>1. d < N => d + 1 \in 1..N /\ (d + 1) - 1 = d
      BY <1>3
    <3> QED BY <1>9, <2>2, <3>1
  <2>4. d + 1 < N => P(d + 2) > Q(d + 2)
    <3>1. d + 1 < N => d < N /\ d + 2 \in 1..N /\ (d + 2) - 1 = d + 1
      BY <1>3
    <3> QED BY <1>9, <2>3, <3>1
  <2>5. d + 2 < N => P(d + 3) > Q(d + 3)
    <3>1. d + 2 < N => d + 1 < N /\ d + 3 \in 1..N /\ (d + 3) - 1 = d + 2
      BY <1>3
    <3> QED BY <1>9, <2>4, <3>1
  <2>6. N = d \/ N = d + 1 \/ N = d + 2 \/ N = d + 3
    BY <1>3
  <2> QED BY <2>2, <2>3, <2>4, <2>5, <2>6
<1>11. CASE p = q
  <2>1. Strength(i, p) = Strength(i, q) /\ p <= q
    BY <1>1, <1>11
  <2> QED BY <2>1 DEF Stronger
<1>12. CASE Better(i, p, q)
  <2>1. (\E d \in 1..N : SameUpTo(i, p, q, d - 1) /\ Above(Score(i, p, d), Score(i, q, d)))
          \/ (SameUpTo(i, p, q, N) /\ p < q)
    BY <1>12, BetterMeans DEF N
  <2>2. CASE SameUpTo(i, p, q, N) /\ p < q
    <3>1. N \in 0..N
      BY <1>3
    <3>2. Strength(i, p) = Strength(i, q) /\ p <= q
      BY <1>1, <1>4, <1>8, <2>2, <3>1
    <3> QED BY <3>2 DEF Stronger
  <2>3. CASE \E d \in 1..N : SameUpTo(i, p, q, d - 1) /\ Above(Score(i, p, d), Score(i, q, d))
    <3>1. P(N) > Q(N)
      BY <1>10, <2>3
    <3>2. Strength(i, p) = P(N) /\ Strength(i, q) = Q(N)
      BY <1>4
    <3>3. Strength(i, p) > Strength(i, q)
      BY <3>1, <3>2
    <3> QED BY <3>3 DEF Stronger
  <2> QED BY <2>1, <2>2, <2>3
<1> QED BY <1>2, <1>11, <1>12

(* What is published after a ranking: the rows of the first entries, as    *)
(* many as have enough evidence and as the target allows.                  *)
Fill(i) == IF Cardinality(Enough(i)) < TargetFinalPairs THEN Cardinality(Enough(i)) ELSE TargetFinalPairs

LEMMA PublishedMeans ==
  ASSUME NEW i, IsInput(i), CanRank(i)
  PROVE /\ Fill(i) \in 0..Len(i.eligible)
        /\ \A k \in DOMAIN i.eligible : Ranked(i)[k].selected = (k <= Fill(i))
        /\ PairsOf(SelectedOf(Ranked(i))) = [k \in 1..Fill(i) |-> i.eligible[EntryAt(i, k)]]
<1> DEFINE N == Len(i.eligible)
           K == Fill(i)
           E == Cardinality(Enough(i))
<1>1. N \in Nat /\ DOMAIN i.eligible = 1..N /\ DOMAIN Ranked(i) = 1..N /\ Len(Ranked(i)) = N
  BY ListingType, RankedType
<1>2. E \in 0..N /\ \A k \in 1..N : Sufficient(i, i.eligible[EntryAt(i, k)]) <=> k <= E
  BY <1>1, EnoughComeFirst
<1>3. TargetFinalPairs \in Nat
  BY ConfigAssumption
<1>4. K = (IF E < TargetFinalPairs THEN E ELSE TargetFinalPairs)
  BY DEF Fill
<1>5. \A k \in 1..N : /\ Ranked(i)[k].selected = IsSelected(i, i.eligible[EntryAt(i, k)], k)
                      /\ Ranked(i)[k].pair = i.eligible[EntryAt(i, k)]
  BY <1>1, RowType
<1> HIDE DEF K, N, E
<1>6. K \in 0..N
  BY <1>1, <1>2, <1>3, <1>4
<1>7. \A k \in 1..N : Ranked(i)[k].selected = (k <= K)
  <2> SUFFICES ASSUME NEW k \in 1..N PROVE Ranked(i)[k].selected = (k <= K)
    OBVIOUS
  <2>1. k <= K <=> k <= TargetFinalPairs /\ k <= E
    BY <1>1, <1>2, <1>3, <1>4
  <2>2. IsSelected(i, i.eligible[EntryAt(i, k)], k) <=> k <= TargetFinalPairs /\ k <= E
    BY <1>2 DEF IsSelected
  <2>3. IsSelected(i, i.eligible[EntryAt(i, k)], k) \in BOOLEAN
    BY DEF IsSelected
  <2> QED BY <1>5, <2>1, <2>2, <2>3
<1>8. SelectedOf(Ranked(i)) = [k \in 1..K |-> Ranked(i)[k]]
  BY <1>1, <1>6, <1>7, SelectedIsPrefix
<1>9. PairsOf(SelectedOf(Ranked(i))) = [k \in 1..K |-> i.eligible[EntryAt(i, k)]]
  <2>1. \A k \in 1..K : k \in 1..N
    BY <1>1, <1>6
  <2> QED BY <1>5, <1>8, <2>1 DEF PairsOf
<1> QED BY <1>1, <1>6, <1>7, <1>9 DEF K, N

(* Only rankable inputs are ranked.                                        *)
RankedInv == stage \notin {"loaded", "failed"} => CanRank(input)

LEMMA RankedInvariant == Spec => []RankedInv
<1>1. Init => RankedInv
  BY DEF Init, RankedInv
<1>2. RankedInv /\ [Next]_vars => RankedInv'
  <2> SUFFICES ASSUME RankedInv, [Next]_vars PROVE RankedInv'
    OBVIOUS
  <2>1. CASE RankPairs
    <3>1. CanRank(input') <=> CanRank(input)
      BY <2>1 DEF RankPairs
    <3> QED BY <2>1, <3>1 DEF RankPairs, RankedInv
  <2>2. CASE RankError
    BY <2>2 DEF RankError, RankedInv
  <2>3. CASE RunGate
    <3>1. input' = input /\ stage = "ranked"
      BY <2>3 DEF RunGate
    <3> QED BY <3>1 DEF RankedInv
  <2>4. CASE UNCHANGED vars
    <3>1. input' = input /\ stage' = stage
      BY <2>4 DEF vars
    <3> QED BY <3>1 DEF RankedInv
  <2> QED BY <2>1, <2>2, <2>3, <2>4 DEF Next
<1> QED BY <1>1, <1>2, PTL DEF Spec

(* The selection is the strongest of the pairs with enough evidence, in    *)
(* order of strength, and as long as the target allows.                    *)
THEOREM BestAreAlwaysSelected == Spec => []BestAreSelected
<1>1. ASSUME TypeOK, StageInv, RankedInv PROVE BestAreSelected
  <2> SUFFICES ASSUME stage \notin {"loaded", "failed"} PROVE BestAreSelected
    BY DEF BestAreSelected
  <2> DEFINE i == input
             N == Len(i.eligible)
             K == Fill(i)
             at(k) == i.eligible[EntryAt(i, k)]
             E == Cardinality(Enough(i))
  <2>1. IsInput(i) /\ CanRank(i) /\ ranked = Ranked(i)
    BY <1>1 DEF TypeOK, RankedInv, StageInv, Stages
  <2>2. /\ K \in 0..N
        /\ Published = [k \in 1..K |-> at(k)]
    BY <2>1, PublishedMeans DEF Published
  <2>3. N \in Nat /\ DOMAIN i.eligible = 1..N
    BY <2>1, ListingType
  <2>4. E \in 0..N /\ \A k \in 1..N : Sufficient(i, at(k)) <=> k <= E
    BY <2>1, <2>3, EnoughComeFirst
  <2>5. TargetFinalPairs \in Nat
    BY ConfigAssumption
  <2>6. K = (IF E < TargetFinalPairs THEN E ELSE TargetFinalPairs)
    BY DEF Fill
  <2>7. Scores # {}
    <3>1. PICK p \in Range(i.eligible) : Sufficient(i, p)
      BY <2>1 DEF CanRank
    <3>2. PICK d \in Dimensions : i.scores[p][d] # None
      <4>1. CASE i.profile = "V1_RS_OI"
        BY <3>1, <4>1 DEF Sufficient, Dimensions
      <4>2. CASE i.profile # "V1_RS_OI"
        <5>1. SortDims(i.profile)[1] = "rs" /\ 1 \in DOMAIN SortDims(i.profile)
          BY <2>1, <4>2 DEF IsInput, Profiles, SortDims
        <5>2. "rs" \in Range(SortDims(i.profile))
          BY <5>1 DEF Range
        <5> QED BY <3>1, <4>2, <5>2 DEF Sufficient, Dimensions
      <4> QED BY <4>1, <4>2
    <3>3. i.scores[p][d] \in Scores \union {None}
      BY <2>1, <3>1 DEF IsInput
    <3> QED BY <3>2, <3>3
  <2>8. \A j, k \in 1..N : j < k => Stronger(i, at(j), at(k))
    <3> SUFFICES ASSUME NEW j \in 1..N, NEW k \in 1..N, j < k PROVE Stronger(i, at(j), at(k))
      OBVIOUS
    <3>1. EntryAt(i, j) \in DOMAIN i.eligible /\ EntryAt(i, k) \in DOMAIN i.eligible
      BY <2>1, <2>3, RowType
    <3>2. SortsBefore(i, EntryAt(i, j), EntryAt(i, k))
      BY <2>1, <2>3, RowsAreSorted
    <3> QED BY <2>1, <2>7, <3>1, <3>2, SortIsByStrength
  <2>9. \A n \in 1..N : \E k \in 1..N : EntryAt(i, k) = n
    <3> SUFFICES ASSUME NEW n \in 1..N PROVE \E k \in 1..N : EntryAt(i, k) = n
      OBVIOUS
    <3>1. Rank(i, n) \in 1..N
      BY <2>1, <2>3, RankGrows
    <3>2. EntryAt(i, Rank(i, n)) \in 1..N /\ Rank(i, EntryAt(i, Rank(i, n))) = Rank(i, n)
      BY <2>1, <2>3, <3>1, RowType
    <3>3. EntryAt(i, Rank(i, n)) = n
      BY <2>1, <2>3, <3>1, <3>2, RanksAreUnique
    <3> QED BY <3>1, <3>3
  <2> HIDE DEF i, N, K, at, E
  <2>10. \A m, n \in DOMAIN Published : m < n => Stronger(i, Published[m], Published[n])
    BY <2>2, <2>3, <2>8
  <2>11. \A p \in Range(Published) : \E k \in 1..K : p = at(k)
    BY <2>2 DEF Range
  <2>12. \A p \in Range(Published) : Sufficient(i, p)
    <3>1. \A k \in 1..K : k \in 1..N /\ k <= E
      BY <2>2, <2>3, <2>4, <2>5, <2>6
    <3> QED BY <2>4, <2>11, <3>1
  <2>13. \A n \in Enough(i) : i.eligible[n] \notin Range(Published)
           => \A p \in Range(Published) : Stronger(i, p, i.eligible[n])
    <3> SUFFICES ASSUME NEW n \in Enough(i), i.eligible[n] \notin Range(Published), NEW p \in Range(Published)
                 PROVE Stronger(i, p, i.eligible[n])
      OBVIOUS
    <3>1. n \in 1..N
      BY <2>3 DEF Enough
    <3>2. PICK k \in 1..N : EntryAt(i, k) = n
      BY <2>9, <3>1
    <3>3. PICK j \in 1..K : p = at(j)
      BY <2>11
    <3>4. ~(k \in 1..K)
      BY <2>2, <3>2 DEF Range, at
    <3>5. j \in 1..N /\ j < k
      BY <2>2, <2>3, <3>3, <3>4
    <3>6. Stronger(i, at(j), at(k))
      BY <2>8, <3>5
    <3> QED BY <3>2, <3>3, <3>6 DEF at
  <2>14. Len(Published) = K
    BY <2>2
  <2>15. Len(Published) = IF E < TargetFinalPairs THEN E ELSE TargetFinalPairs
    BY <2>6, <2>14
  <2> QED BY <2>10, <2>12, <2>13, <2>15 DEF BestAreSelected, Stronger, Enough, i, E
<1> QED BY <1>1, TypeInvariant, StageInvariant, RankedInvariant, PTL

(* What a candidate is told agrees with what was published.                *)
THEOREM ExplanationsAlwaysAgree == Spec => []ExplanationsAgree
<1>1. ASSUME TypeOK, StageInv, RankedInv PROVE ExplanationsAgree
  <2> SUFFICES ASSUME stage \in {"approved", "rejected"}, NEW r \in Range(ranked)
               PROVE /\ "OK" \in Explained(r) <=> stage = "approved" /\ r.selected
                     /\ "OUTSIDE_TARGET_FINAL_PAIRS" \in Explained(r) =>
                          Len(Published) = TargetFinalPairs /\ Sufficient(input, r.pair) /\ r.rank > TargetFinalPairs
    BY DEF ExplanationsAgree
  <2>1. IsInput(input) /\ CanRank(input) /\ ranked = Ranked(input)
    BY <1>1 DEF TypeOK, RankedInv, StageInv
  <2>2. PICK k \in DOMAIN input.eligible : r = Ranked(input)[k]
    BY <2>1, RankedType DEF Range
  <2>3. /\ r.lacks = IF Sufficient(input, r.pair) THEN {} ELSE {LacksCode(input.profile)}
        /\ r.rank = k
        /\ r.pair = input.eligible[EntryAt(input, k)]
        /\ r.selected = IsSelected(input, r.pair, k)
    BY <2>2 DEF Ranked, EntryAt
  <2>4. LacksCode(input.profile) \notin {"OK", "OUTSIDE_TARGET_FINAL_PAIRS"}
    BY DEF LacksCode
  <2>5. "OK" \notin reasons /\ "OUTSIDE_TARGET_FINAL_PAIRS" \notin reasons
    BY <1>1 DEF TypeOK, ReasonCodes
  <2>6. "OK" \in Explained(r) <=> stage = "approved" /\ r.selected
    BY <2>3, <2>4, <2>5 DEF Explained
  <2>7. ASSUME "OUTSIDE_TARGET_FINAL_PAIRS" \in Explained(r)
        PROVE Len(Published) = TargetFinalPairs /\ Sufficient(input, r.pair) /\ r.rank > TargetFinalPairs
    <3>1. ~r.selected /\ Sufficient(input, r.pair)
      BY <2>3, <2>4, <2>5, <2>7 DEF Explained
    <3>2. ~(k <= TargetFinalPairs)
      BY <2>3, <3>1 DEF IsSelected
    <3>3. k \in Nat /\ TargetFinalPairs \in Nat
      BY <2>1, ListingType, ConfigAssumption
    <3>4. k <= Cardinality(Enough(input)) /\ Cardinality(Enough(input)) \in Nat
      BY <2>1, <2>3, <3>1, EnoughComeFirst, ListingType
    <3>5. Fill(input) = TargetFinalPairs
      BY <3>2, <3>3, <3>4 DEF Fill
    <3>6. Published = [j \in 1..Fill(input) |-> input.eligible[EntryAt(input, j)]]
      BY <2>1, PublishedMeans DEF Published
    <3>7. Len(Published) = TargetFinalPairs
      BY <3>3, <3>5, <3>6
    <3> QED BY <2>3, <3>1, <3>2, <3>3, <3>7
  <2> QED BY <2>6, <2>7
<1> QED BY <1>1, TypeInvariant, StageInvariant, RankedInvariant, PTL
=============================================================================
