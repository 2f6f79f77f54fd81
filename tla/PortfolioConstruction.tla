----------------------- MODULE PortfolioConstruction -----------------------
(***************************************************************************)
(* Portfolio construction (hunter/portfolio_construction): a pure function  *)
(* from pairs with a discovery summary to states and research weights.      *)
(*                                                                          *)
(* An input is [pair, place, flagged, tags, discovery]; "place" is where it *)
(* stands in the list.  Nothing refuses a pair that is listed twice, and    *)
(* the weights are kept by pair.  The discovery summary is None or [class,  *)
(* state, score]: its state and its classification, either of which may be  *)
(* a word the engine does not know ("OTHER"), and its score in hundredths   *)
(* of a point, or None.  Pairs are numbered in the order of their names.    *)
(* The score weights of a config are shares: part / sum of the parts.       *)
(* Research weights are counted in units, of which the program has 10000 to *)
(* a percent and an instance may have fewer.  A rounded half goes up (the   *)
(* program's goes to the even neighbour).                                   *)
(***************************************************************************)
EXTENDS Discovery, Functions

CONSTANT Unit         \* weight units in one percent

ASSUME UnitAssumption == Unit \in Nat \ {0}

Round(a, b) == (2 * a + b) \div (2 * b)

SumOfParts(w) == w.discovery + w.quality + w.diversification + w.cap + w.bonus

\* What the constructors of an input and of a config accept.
IsPortfolioInput(input) ==
  /\ input.place \in Nat
  /\ input.discovery = None \/ input.discovery.score \in {None} \cup 0 .. Points(100)

IsPortfolioConfig(config) ==
  /\ config.maxSingle \in 0 .. 100
  /\ config.budget \in 1 .. 100
  /\ config.satellite \in 1 .. 99
  /\ config.watchlist \in 0 .. config.satellite - 1
  /\ config.weights \in [discovery : Nat, quality : Nat, diversification : Nat,
                          cap : Nat, bonus : Nat]
  /\ SumOfParts(config.weights) > 0

CandidateLike(d) == d # None /\ "CANDIDATE" \in {d.state, d.class}
WatchlistLike(d) == d # None /\ "WATCHLIST" \in {d.state, d.class}

\* A state that ends the scoring of a summary, whatever its classification.
Scorable(d) == d # None /\ d.state \notin {"BLOCKED", "EXCLUDED", "INSUFFICIENT_DATA"}

SharesTag(inputs, i) ==
  \E j \in DOMAIN inputs \ {i} : inputs[i].tags \cap inputs[j].tags # {}

\* _duplicate_tag_pairs: one entry that shares a tag is enough for its pair.
PairSharesTag(inputs, i) ==
  \E j \in DOMAIN inputs : inputs[j].pair = inputs[i].pair /\ SharesTag(inputs, j)

Unsound(input) == "portfolio" \in input.flagged

\* build_portfolio_construction_safety_flags: is_safe.
PortfolioIsSafe(inputs, config) ==
  \A i \in DOMAIN inputs :
    /\ ~Unsound(inputs[i])
    /\ ~(inputs[i].discovery # None /\ inputs[i].discovery.state = "BLOCKED")
    /\ ~(config.needDiscovery /\ inputs[i].discovery = None)

-----------------------------------------------------------------------------
(***************************************************************************)
(* The allocation score, in hundredths of a point.                          *)
(***************************************************************************)
DiscoveryPart(d) ==
  IF Scorable(d) /\ (CandidateLike(d) \/ WatchlistLike(d)) /\ d.score # None
  THEN d.score ELSE 0

QualityPart(d) ==
  IF d = None THEN 0
  ELSE CASE d.state = "CANDIDATE"         -> 100
         [] d.state = "WATCHLIST"         -> 70
         [] d.state = "INSUFFICIENT_DATA" -> 30
         [] OTHER                         -> 0

DiversificationPart(inputs, i, config) ==
  IF ~SharesTag(inputs, i) THEN 100 ELSE IF config.blockShared THEN 0 ELSE 50

CapReadiness(d) ==
  IF Scorable(d) /\ CandidateLike(d) THEN 100
  ELSE IF Scorable(d) /\ WatchlistLike(d) THEN 50 ELSE 0

ThresholdBonus(d, config) ==
  IF ~Scorable(d) \/ d.score = None THEN 0
  ELSE IF CandidateLike(d) /\ d.score >= Points(config.minScore) THEN 100
  ELSE IF WatchlistLike(d) /\ d.score >= Points(config.watchlist) THEN 50 ELSE 0

Allocation(inputs, i, config) ==
  LET d == inputs[i].discovery
      w == config.weights
  IN Round(w.discovery * DiscoveryPart(d)
           + 100 * (w.quality * QualityPart(d)
                    + w.diversification * DiversificationPart(inputs, i, config)
                    + w.cap * CapReadiness(d)
                    + w.bonus * ThresholdBonus(d, config)),
           SumOfParts(w))

(***************************************************************************)
(* The state before weights: what may not be in the portfolio at all.       *)
(***************************************************************************)
BaseState(inputs, i, config) ==
  LET d == inputs[i].discovery
      barred == \/ Unsound(inputs[i])
                \/ d # None /\ d.state = "BLOCKED" /\ config.blockBlocked
      lacking == d # None => d.state = "INSUFFICIENT_DATA"
  IN IF barred THEN "BLOCKED"
     ELSE IF lacking THEN IF config.blockMissing THEN "BLOCKED" ELSE "INSUFFICIENT_DATA"
     ELSE IF PairSharesTag(inputs, i) /\ config.blockShared THEN "BLOCKED"
     ELSE "EXCLUDED"

\* The inputs with their base state and allocation score.
Ranked(inputs, config) ==
  [i \in DOMAIN inputs |->
     [pair |-> inputs[i].pair, place |-> inputs[i].place, flagged |-> inputs[i].flagged,
      base |-> BaseState(inputs, i, config), allocation |-> Allocation(inputs, i, config)]]

Sortable(ranked) == {i \in DOMAIN ranked : ranked[i].base = "EXCLUDED"}

\* The pairs of which an entry ranks behind max_candidate_count others by
\* (-allocation, pair).
OverCount(ranked, config) ==
  LET Key(i) == <<-ranked[i].allocation, ranked[i].pair, ranked[i].place>>
      Ahead(i) == {j \in Sortable(ranked) : Less(Key(j), Key(i))}
  IN {ranked[i].pair :
        i \in {k \in Sortable(ranked) : Cardinality(Ahead(k)) >= config.maxCount}}

-----------------------------------------------------------------------------
(***************************************************************************)
(* The weights: shares of the budget by allocation, then caps whose excess  *)
(* goes to the members below the cap, then a scaling down to the budget.    *)
(* They are kept by pair, and what one entry of a pair writes the next one  *)
(* overwrites.  All entries of a pair over the count have become EXCLUDED,  *)
(* which keeps none of them out of the pool.                                *)
(***************************************************************************)
Pool(ranked, config) ==
  LET Over == OverCount(ranked, config)
  IN {i \in DOMAIN ranked : /\ i \in Sortable(ranked) \/ ranked[i].pair \in Over
                            /\ ranked[i].allocation >= Points(config.satellite)}

LastEntry(ranked, Entries, p) ==
  CHOOSE i \in Entries :
    /\ ranked[i].pair = p
    /\ \A j \in Entries : ranked[j].pair = p => ranked[j].place <= ranked[i].place

AllocationByPair(ranked, Entries) ==
  [p \in {ranked[i].pair : i \in Entries} |-> ranked[LastEntry(ranked, Entries, p)].allocation]

\* The total is over the entries of the pool.
InitialWeights(ranked, Entries, config) ==
  LET total == SumFunction([i \in Entries |-> ranked[i].allocation])
      allocation == AllocationByPair(ranked, Entries)
  IN [p \in DOMAIN allocation |-> Round(allocation[p] * config.budget * Unit, total)]

Redistribute(w, allocation, cap) ==
  LET Over == {i \in DOMAIN w : w[i] > cap}
      Below == {i \in DOMAIN w : w[i] < cap /\ allocation[i] > 0}
      excess == SumFunction([i \in Over |-> w[i] - cap])
      share == SumFunction([i \in Below |-> allocation[i]])
  IN [i \in DOMAIN w |->
        CASE i \in Over  -> cap
          [] i \in Below -> w[i] + Round(allocation[i] * excess, share)
          [] OTHER       -> w[i]]

\* Mutant: the excess is handed out once.
CappedOnce(initial, allocation, cap) == Redistribute(initial, allocation, cap)

\* One round more than there are members; a round without an excess changes
\* nothing, which is where the program leaves the loop.
CappedWeights(initial, allocation, cap) ==
  LET n == Cardinality(DOMAIN initial) + 1
      w[k \in 0 .. n] ==
        IF k = 0 THEN initial
        ELSE Redistribute(w[k - 1], allocation, cap)
  IN w[n]

ScaledToBudget(capped, budget) ==
  LET total == SumFunction(capped)
  IN IF total > budget THEN [i \in DOMAIN capped |-> Round(capped[i] * budget, total)] ELSE capped

FinalWeights(initial, allocation, config) ==
  ScaledToBudget(CappedWeights(initial, allocation, config.maxSingle * Unit), config.budget * Unit)

-----------------------------------------------------------------------------
\* classify_portfolio_construction_candidate.
FinalState(allocation, capped, config) ==
  CASE allocation < Points(config.watchlist) -> "EXCLUDED"
    [] /\ allocation >= Points(config.watchlist)
       /\ allocation < Points(config.satellite) -> "WATCHLIST"
    [] OTHER -> IF capped THEN "CAPPED" ELSE "INCLUDED"

Score(entry, over, initial, final, config) ==
  [pair |-> entry.pair, flagged |-> entry.flagged,
   state |-> IF over THEN "EXCLUDED"
             ELSE IF entry.base # "EXCLUDED" THEN entry.base
             ELSE FinalState(entry.allocation, final < initial, config),
   allocation |-> entry.allocation, weight |-> final]

\* The scores: each entry has the weight of its pair.  A pair whose share
\* rounds to nothing takes no part in the capping, and an excess is handed out
\* by the allocation of a pair's last entry, in the pool or not.
Weighed(ranked, initial, config) ==
  LET Over == OverCount(ranked, config)
      Weighted == {p \in DOMAIN initial : initial[p] > 0}
      allocation == AllocationByPair(ranked, DOMAIN ranked)
      final == FinalWeights(Restrict(initial, Weighted), Restrict(allocation, Weighted), config)
      At(f, p) == IF p \in DOMAIN f THEN f[p] ELSE 0
  IN [i \in DOMAIN ranked |->
        LET p == ranked[i].pair
        IN Score(ranked[i], p \in Over, At(initial, p), At(final, p), config)]

Scores(inputs, config) ==
  LET ranked == Ranked(inputs, config)
  IN Weighed(ranked, InitialWeights(ranked, Pool(ranked, config), config), config)

(***************************************************************************)
(* The report.  "counted" holds when the summary, which counts every score, *)
(* agrees with the scores that are listed.                                  *)
(***************************************************************************)
Listed(scores, config) ==
  {i \in DOMAIN scores : config.keepExcluded \/ scores[i].state # "EXCLUDED"}

PortfolioReport(inputs, scores, config) ==
  [kind    |-> "PORTFOLIO",
   scores  |-> Restrict(scores, Listed(scores, config)),
   safe    |-> PortfolioIsSafe(inputs, config),
   counted |-> Listed(scores, config) = DOMAIN scores,
   stale   |-> FALSE]

TotalWeight(scores) == SumFunction([i \in DOMAIN scores |-> scores[i].weight])

\* The records' own checks: a total above 100 percent or above the budget is
\* a ValueError, and there is no report.
ReportRefused(scores, config) ==
  \/ TotalWeight(scores) > 100 * Unit
  \/ TotalWeight(Restrict(scores, Listed(scores, config))) > config.budget * Unit
=============================================================================
