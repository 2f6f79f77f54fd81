---------------------------- MODULE PairlistGate ----------------------------
(***************************************************************************)
(* hunter/pairlist_export: from a ranking input to the list that may be    *)
(* published.  A build ranks the eligible pairs (rank_pairs under the v1   *)
(* profile, rank_pairs_v2 under the two v2 profiles), and the publish gate *)
(* then checks the selected ones again before it approves an output.       *)
(*                                                                         *)
(* Pairs are numbered in the order of their names.  A score is a number or *)
(* None; None stands for a pair that the score map leaves out as well.     *)
(***************************************************************************)
EXTENDS Naturals, Sequences, FiniteSets, Functions

CONSTANTS
  Pairs,            \* pair names, as numbers in the order of the names
  WellFormed,       \* the pairs whose name has the form BASE/USDT:USDT
  Scores,           \* the scores that occur
  None,             \* no score
  Inputs,           \* the ranking inputs a build may get
  MinPairs, TargetFinalPairs, MaxPairs

Profiles == {"V1_RS_OI", "V2_RS_LIQUIDITY", "V2_RS_OI_LIQUIDITY"}
Dimensions == {"rs", "oi", "liquidity", "data_quality"}

(* eligible may list a pair twice: nothing before the gate looks.          *)
IsInput(i) ==
  /\ DOMAIN i = {"profile", "eligible", "scores"}
  /\ i.profile \in Profiles
  /\ i.eligible \in Seq(Pairs)
  /\ i.scores \in [Range(i.eligible) -> [Dimensions -> Scores \union {None}]]

ASSUME PairsAssumption == Pairs \subseteq Nat /\ WellFormed \subseteq Pairs
ASSUME ScoresAssumption == Scores \subseteq Nat /\ IsFiniteSet(Scores) /\ None \notin Scores
ASSUME InputsAssumption == \A i \in Inputs : IsInput(i)
(* PairlistRankingConfig refuses any other thresholds.                     *)
ASSUME ConfigAssumption ==
  /\ MinPairs \in Nat /\ TargetFinalPairs \in Nat /\ MaxPairs \in Nat
  /\ 1 <= MinPairs /\ MinPairs <= TargetFinalPairs /\ TargetFinalPairs <= MaxPairs

(* The dimensions compared, most important first.                          *)
SortDims(profile) ==
  CASE profile = "V1_RS_OI" -> <<"rs", "oi", "data_quality">>
    [] profile = "V2_RS_LIQUIDITY" -> <<"rs", "liquidity", "data_quality">>
    [] profile = "V2_RS_OI_LIQUIDITY" -> <<"rs", "oi", "liquidity", "data_quality">>

(* Mutant: a missing score sorts first, its sign lost.                     *)
AboveMissingFirst(a, b) == b # None /\ (a = None \/ a > b)

(* Missing scores are minus infinity.                                      *)
Above(a, b) == a # None /\ (b = None \/ a > b)

(* Mutant: equal scores keep the order in which the input lists them.      *)
BetterByScores(i, p, q) ==
  LET dims == SortDims(i.profile)
  IN \E d \in DOMAIN dims :
       /\ Above(i.scores[p][dims[d]], i.scores[q][dims[d]])
       /\ \A e \in 1..(d - 1) : i.scores[p][dims[e]] = i.scores[q][dims[e]]

(* _compound_key: the first dimension that differs decides, then the name. *)
Better(i, p, q) ==
  LET dims == SortDims(i.profile)
      same(n) == \A d \in 1..n : i.scores[p][dims[d]] = i.scores[q][dims[d]]
  IN \/ \E d \in DOMAIN dims : same(d - 1) /\ Above(i.scores[p][dims[d]], i.scores[q][dims[d]])
     \/ same(Len(dims)) /\ p < q

(* v1 needs any one of RS and OI, v2 every dimension of its profile.       *)
Sufficient(i, p) ==
  IF i.profile = "V1_RS_OI"
    THEN \E d \in {"rs", "oi"} : i.scores[p][d] # None
    ELSE \A d \in Range(SortDims(i.profile)) : i.scores[p][d] # None

LacksCode(profile) == IF profile = "V1_RS_OI" THEN "INSUFFICIENT_EVIDENCE" ELSE "PROFILE_EVIDENCE_INCOMPLETE"

InPercent(score) == score \in 0..100

(* validate_profile_fields, called for the v2 profiles only.               *)
FieldsOK(i) ==
  \A p \in Range(i.eligible) :
    /\ Sufficient(i, p)
    /\ i.profile = "V2_RS_LIQUIDITY" => i.scores[p]["oi"] = None
    /\ InPercent(i.scores[p]["data_quality"])

(* The position in eligible_pairs of the pair that is ranked k-th: one     *)
(* more than the entries that sort before it.  Python's sort is stable.    *)
SortsBefore(i, m, n) ==
  \/ Better(i, i.eligible[m], i.eligible[n])
  \/ ~Better(i, i.eligible[n], i.eligible[m]) /\ m < n

Rank(i, n) == Cardinality({m \in DOMAIN i.eligible : SortsBefore(i, m, n)}) + 1

(* Mutant: the cut-off is one too early.                                   *)
IsSelectedBelow(i, p, rank) == rank < TargetFinalPairs /\ Sufficient(i, p)

IsSelected(i, p, rank) == rank <= TargetFinalPairs /\ Sufficient(i, p)

(* Mutant: ranks count from zero.                                          *)
RankedFromZero(i) ==
  [k \in DOMAIN i.eligible |->
     LET p == i.eligible[CHOOSE n \in DOMAIN i.eligible : Rank(i, n) = k]
     IN [pair |-> p, rank |-> k - 1, selected |-> IsSelected(i, p, k), data_quality |-> None,
         lacks |-> IF Sufficient(i, p) THEN {} ELSE {LacksCode(i.profile)}]]

(* A v1 RankedPair does not carry the data quality.                        *)
Ranked(i) ==
  [k \in DOMAIN i.eligible |->
     LET p == i.eligible[CHOOSE n \in DOMAIN i.eligible : Rank(i, n) = k]
     IN [pair |-> p,
         rank |-> k,
         selected |-> IsSelected(i, p, k),
         data_quality |-> IF i.profile = "V1_RS_OI" THEN None ELSE i.scores[p]["data_quality"],
         lacks |-> IF Sufficient(i, p) THEN {} ELSE {LacksCode(i.profile)}]]

VARIABLES
  input,    \* the ranking input of this build
  stage,    \* how far the build has come
  ranked,   \* the ranked pairs, in the order of their ranks
  reasons   \* the gate's reason codes; none is an approval

vars == <<input, stage, ranked, reasons>>

Stages == {"loaded", "failed", "ranked", "approved", "rejected"}
ReasonCodes == {"EMPTY_UNIVERSE", "INSUFFICIENT_EVIDENCE", "PROFILE_EVIDENCE_INCOMPLETE", "PROFILE_FIELD_MISMATCH",
                "INVALID_PAIR_FORMAT", "DUPLICATE_PAIR", "BELOW_MIN_PAIRS", "ABOVE_MAX_PAIRS"}

SelectedOf(rows) ==
  LET upTo[n \in 0..Len(rows)] ==
        IF n = 0 THEN <<>>
        ELSE IF rows[n].selected THEN Append(upTo[n - 1], rows[n]) ELSE upTo[n - 1]
  IN upTo[Len(rows)]
PairsOf(rows) == [k \in DOMAIN rows |-> rows[k].pair]

(* The pairs of the published hunter-pairs.json, in order.                 *)
Published == PairsOf(SelectedOf(ranked))

DuplicatePairs(pairs) == {p \in Range(pairs) : \E m, n \in DOMAIN pairs : m # n /\ pairs[m] = p /\ pairs[n] = p}

(* The codes in `codes` whose condition holds.                             *)
When(condition, code) == IF condition THEN {code} ELSE {}

(* Mutant: only the shape of the list is checked.                          *)
GateReasonsShapeOnly(profile, rows) ==
  LET pairs == PairsOf(SelectedOf(rows))
  IN When(pairs = <<>>, "EMPTY_UNIVERSE")
       \union When(Range(pairs) \ WellFormed # {}, "INVALID_PAIR_FORMAT")
       \union When(Len(pairs) < MinPairs, "BELOW_MIN_PAIRS")

(* run_publish_gate and run_publish_gate_v2.                               *)
GateReasons(profile, rows) ==
  LET selected == SelectedOf(rows)
      pairs == PairsOf(selected)
      v2 == profile # "V1_RS_OI"
  IN When(pairs = <<>>, "EMPTY_UNIVERSE")
       \union When(\E r \in Range(selected) : "INSUFFICIENT_EVIDENCE" \in r.lacks, "INSUFFICIENT_EVIDENCE")
       \union When(v2 /\ \E r \in Range(selected) : r.data_quality = None, "PROFILE_EVIDENCE_INCOMPLETE")
       \union When(v2 /\ \E r \in Range(selected) : r.data_quality # None /\ ~InPercent(r.data_quality),
                   "PROFILE_FIELD_MISMATCH")
       \union When(Range(pairs) \ WellFormed # {}, "INVALID_PAIR_FORMAT")
       \union When(DuplicatePairs(pairs) # {}, "DUPLICATE_PAIR")
       \union When(pairs # <<>> /\ Len(pairs) < MinPairs, "BELOW_MIN_PAIRS")
       \union When(Len(pairs) > MaxPairs, "ABOVE_MAX_PAIRS")

(* validate_published_pairlist on a file that publish_pairlist wrote.      *)
ValidateReasons(pairs) ==
  When(pairs = <<>>, "EMPTY_UNIVERSE")
    \union When(Range(pairs) \ WellFormed # {}, "INVALID_PAIR_FORMAT")
    \union When(DuplicatePairs(pairs) # {}, "DUPLICATE_PAIR")
    \union When(Len(pairs) < MinPairs, "BELOW_MIN_PAIRS")
    \union When(Len(pairs) > MaxPairs, "ABOVE_MAX_PAIRS")

(* _final_reason_codes: what `hunter explain` says of a candidate.         *)
Explained(row) ==
  IF row.selected
    THEN IF stage = "approved" THEN {"OK"} ELSE {"PUBLISH_BLOCKED"} \union reasons
    ELSE IF row.lacks # {} THEN row.lacks ELSE {"OUTSIDE_TARGET_FINAL_PAIRS"}
----------------------------------------------------------------------------
Init ==
  /\ input \in Inputs
  /\ stage = "loaded"
  /\ ranked = <<>>
  /\ reasons = {}

(* rank_pairs and rank_pairs_v2 raise when no pair has enough evidence,    *)
(* the latter also when validate_profile_fields does.                      *)
CanRank(i) ==
  /\ i.profile # "V1_RS_OI" => FieldsOK(i)
  /\ \E p \in Range(i.eligible) : Sufficient(i, p)

RankPairs ==
  /\ stage = "loaded"
  /\ CanRank(input)
  /\ ranked' = Ranked(input)
  /\ stage' = "ranked"
  /\ UNCHANGED <<input, reasons>>

RankError ==
  /\ stage = "loaded"
  /\ ~CanRank(input)
  /\ stage' = "failed"
  /\ UNCHANGED <<input, ranked, reasons>>

RunGate ==
  /\ stage = "ranked"
  /\ reasons' = GateReasons(input.profile, ranked)
  /\ stage' = IF reasons' = {} THEN "approved" ELSE "rejected"
  /\ UNCHANGED <<input, ranked>>

Next == RankPairs \/ RankError \/ RunGate

Spec == Init /\ [][Next]_vars
----------------------------------------------------------------------------
RankedPairs ==
  [pair : Pairs, rank : Nat \ {0}, selected : BOOLEAN, data_quality : Scores \union {None},
   lacks : SUBSET {"INSUFFICIENT_EVIDENCE", "PROFILE_EVIDENCE_INCOMPLETE"}]

TypeOK ==
  /\ IsInput(input)
  /\ stage \in Stages
  /\ ranked \in Seq(RankedPairs)
  /\ reasons \in SUBSET ReasonCodes

(* SAFETY 1: whatever the gate approves, `pairlist validate` accepts; the  *)
(* two are separate code with separate lists of checks.                    *)
ApprovedIsValid == stage = "approved" => ValidateReasons(Published) = {}

(* A pair's evidence as one number: the dimensions as digits, a missing    *)
(* score the digit zero.                                                   *)
Base == 2 + (CHOOSE s \in Scores : \A t \in Scores : s >= t)
Digit(score) == IF score = None THEN 0 ELSE score + 1
Strength(i, p) ==
  LET dims == SortDims(i.profile)
      upTo[n \in 0..Len(dims)] == IF n = 0 THEN 0 ELSE upTo[n - 1] * Base + Digit(i.scores[p][dims[n]])
  IN upTo[Len(dims)]

(* SAFETY 2 (rank_pairs, "selected pairs appear first"): the selection is  *)
(* the strongest of the pairs with enough evidence, strongest first, names *)
(* deciding ties, and as many of them as the target allows: none without   *)
(* evidence takes the place of one with it.                                *)
BestAreSelected ==
  stage \notin {"loaded", "failed"} =>
    LET enough == {n \in DOMAIN input.eligible : Sufficient(input, input.eligible[n])}
        stronger(p, q) == \/ Strength(input, p) > Strength(input, q)
                          \/ Strength(input, p) = Strength(input, q) /\ p <= q
    IN /\ \A m, n \in DOMAIN Published : m < n => stronger(Published[m], Published[n])
       /\ \A p \in Range(Published) : Sufficient(input, p)
       /\ \A n \in enough : input.eligible[n] \notin Range(Published)
            => \A p \in Range(Published) : stronger(p, input.eligible[n])
       /\ Len(Published) = IF Cardinality(enough) < TargetFinalPairs THEN Cardinality(enough) ELSE TargetFinalPairs

(* SAFETY 3 (fingerprint.py, "two invocations built from identical domain  *)
(* data always produce identical fingerprints"): the order in which the    *)
(* input lists its pairs leaves no trace, so a rerun for the same date is  *)
(* no snapshot conflict.                                                   *)
Reordered(i) ==
  {[i EXCEPT !.eligible = [n \in DOMAIN i.eligible |-> i.eligible[f[n]]]] :
     f \in {g \in [DOMAIN i.eligible -> DOMAIN i.eligible] : Range(g) = DOMAIN i.eligible}}
OrderLeavesNoTrace == stage = "ranked" => \A i \in Reordered(input) : Ranked(i) = ranked

(* SAFETY 4: what a candidate is told agrees with what was published: "OK" *)
(* only for a pair on an approved list, and "outside the target" only when *)
(* exactly the target number of pairs was selected.                        *)
ExplanationsAgree ==
  stage \in {"approved", "rejected"} => \A r \in Range(ranked) :
    /\ "OK" \in Explained(r) <=> stage = "approved" /\ r.selected
    /\ "OUTSIDE_TARGET_FINAL_PAIRS" \in Explained(r) =>
         Len(Published) = TargetFinalPairs /\ Sufficient(input, r.pair) /\ r.rank > TargetFinalPairs
=============================================================================
