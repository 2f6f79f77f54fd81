----------------------------- MODULE Discovery -----------------------------
(***************************************************************************)
(* Discovery (hunter/discovery): a pure function from pairs with a relative *)
(* strength and an open interest context to scored candidates.              *)
(*                                                                          *)
(* An item is [pair, flagged, rs, oi, tags]: "flagged" names the packages   *)
(* whose list of forbidden terms the item's text fails ("discovery",        *)
(* "portfolio", "universe").  A context is None or [state, score, lean]:    *)
(* its state is "ready", "insufficient", "blocked" or "other" (any other    *)
(* word), its score a whole number of points, and its lean which of its     *)
(* words the engine knows: "for" and "against".  The constructors refuse    *)
(* blank pairs, scores out of range and contexts of another pair.  What the *)
(* universe flags, the portfolio flags too.                                 *)
(* Scores are counted in hundredths of a point; the weights are the default *)
(* ones.                                                                    *)
(***************************************************************************)
EXTENDS Integers, FiniteSets

CONSTANT None         \* an absent context or option

\* The verdicts on an item (DiscoveryState).
DiscoveryStates == {"CANDIDATE", "WATCHLIST", "EXCLUDED", "INSUFFICIENT_DATA", "BLOCKED"}

\* What a verdict is classified as, as far as its reader asks (the portfolio).
Classes == {"CANDIDATE", "WATCHLIST", "OTHER"}

ASSUME NoneAssumption ==
  None \notin [class : Classes, state : DiscoveryStates, score : Nat]

Points(n) == 100 * n

\* Tuples compared by their first difference, as the keys of a sort.
Less(s, t) == \E n \in DOMAIN s : s[n] < t[n] /\ \A m \in 1 .. n - 1 : s[m] = t[m]

\* What the constructor of an item accepts.
IsContext(context) == context = None \/ context.score \in 0 .. 100
IsItem(item) == IsContext(item.rs) /\ IsContext(item.oi)

Blocked(context) == context # None /\ context.state = "blocked"
Insufficient(context) == context # None /\ context.state = "insufficient"
Ready(context) == context # None /\ context.state = "ready"
Leans(context, way) == context # None /\ way \in context.lean

EitherBlocked(item) == Blocked(item.rs) \/ Blocked(item.oi)
EitherInsufficient(item) == Insufficient(item.rs) \/ Insufficient(item.oi)

Missing(item, config) ==
  \/ config.needStrength /\ item.rs = None
  \/ config.needInterest /\ item.oi = None

ReadyScore(context) == IF Ready(context) THEN context.score ELSE 0

Unaligned(rs, oi) ==
  \/ rs = None \/ oi = None
  \/ Blocked(rs) \/ Blocked(oi) \/ Insufficient(rs) \/ Insufficient(oi)
  \/ Leans(rs, "for") /\ Leans(oi, "against")
  \/ Leans(rs, "against") /\ Leans(oi, "for")

Alignment(rs, oi) ==
  CASE Unaligned(rs, oi)                                                 -> 0
    [] ~Unaligned(rs, oi) /\ Leans(rs, "for") /\ Leans(oi, "for")        -> 100
    [] OTHER -> IF \/ Leans(rs, "for")
                   \/ Leans(oi, "for") /\ ~Leans(rs, "against")
                THEN 70 ELSE 40

ContextQuality(rs, oi) ==
  CASE Ready(rs) /\ Ready(oi)                -> 100
    [] \/ Ready(rs) /\ oi = None
       \/ rs = None /\ Ready(oi)             -> 60
    [] \/ Ready(rs) /\ Insufficient(oi)
       \/ Insufficient(rs) /\ Ready(oi)      -> 30
    [] OTHER                                 -> 0

FilterBonus(item, config) ==
  LET strong == ReadyScore(item.rs) >= config.minStrength
      interesting == ReadyScore(item.oi) >= config.minInterest
  IN IF EitherBlocked(item) THEN 0
     ELSE CASE strong /\ interesting   -> 100
            [] ~strong /\ ~interesting -> 0
            [] OTHER                   -> 50

\* The composite score, in hundredths.
DiscoveryScore(item, config) ==
    35 * ReadyScore(item.rs) + 25 * ReadyScore(item.oi)
  + 20 * Alignment(item.rs, item.oi) + 10 * ContextQuality(item.rs, item.oi)
  + 10 * FilterBonus(item, config)

ClassifyDiscovery(score, config) ==
  IF score >= Points(config.moderate) THEN "CANDIDATE"
  ELSE IF score >= Points(config.watchlist) THEN "WATCHLIST" ELSE "EXCLUDED"

Judged(state, score) == [state |-> state, score |-> score]

Scored(item, config) ==
  LET score == DiscoveryScore(item, config)
  IN Judged(ClassifyDiscovery(score, config), score)

\* Mutant: an insufficient context is scored like any other.
JudgeUnlessInsufficient(item, config) ==
  IF "discovery" \in item.flagged \/ EitherBlocked(item) THEN Judged("BLOCKED", 0)
  ELSE IF Missing(item, config) /\ config.blockMissing THEN Judged("BLOCKED", 0)
  ELSE IF Missing(item, config) THEN Judged("INSUFFICIENT_DATA", DiscoveryScore(item, config))
  ELSE Scored(item, config)

\* A blocked context fails the item's safety check, whatever
\* block_on_blocked_context says.
Judge(item, config) ==
  IF "discovery" \in item.flagged \/ EitherBlocked(item) THEN Judged("BLOCKED", 0)
  ELSE IF EitherInsufficient(item) \/ (Missing(item, config) /\ ~config.blockMissing)
       THEN Judged("INSUFFICIENT_DATA", DiscoveryScore(item, config))
  ELSE IF Missing(item, config) THEN Judged("BLOCKED", 0)
  ELSE Scored(item, config)

(***************************************************************************)
(* The report: the candidates as a function on the indices of the items     *)
(* that were kept, and the place of each in the sorted list, which is by    *)
(* state, falling score and pair.                                           *)
(***************************************************************************)
DiscoveryCandidate(item, config) ==
  LET verdict == Judge(item, config)
  IN [pair |-> item.pair, flagged |-> item.flagged, tags |-> item.tags,
      state |-> verdict.state, score |-> verdict.score]

DiscoveryReport(items, config) ==
  LET Kept == {i \in DOMAIN items :
                 config.keepExcluded \/ Judge(items[i], config).state # "EXCLUDED"}
  IN [kind       |-> "DISCOVERY",
      candidates |-> [i \in Kept |-> DiscoveryCandidate(items[i], config)],
      stale      |-> FALSE]

StatePriority ==
  [CANDIDATE |-> 0, WATCHLIST |-> 1, EXCLUDED |-> 2, INSUFFICIENT_DATA |-> 3, BLOCKED |-> 4]

Place(candidates, i) ==
  LET Key(k) == <<StatePriority[candidates[k].state], -candidates[k].score,
                  candidates[k].pair, k>>
  IN 1 + Cardinality({j \in DOMAIN candidates : Less(Key(j), Key(i))})
=============================================================================
