---------------------------- MODULE MarketState ----------------------------
(***************************************************************************)
(* What the market allows (hunter/market_state and hunter/decision): the    *)
(* regime of BTC, the breadth of a universe of symbols, and the decision    *)
(* made of the two.  All are pure functions.                                *)
(*                                                                          *)
(* A market is what classify_regime is called with: [btc, eth, breadth].    *)
(* "btc" is None when there are no usable candles, else [up, down]: how     *)
(* many of the five conditions for a rising and for a falling trend hold    *)
(* (each excludes its counterpart).  "eth" is None or how many of the three *)
(* conditions for a rising ETH hold.  "breadth" is None or [score, above,   *)
(* advancing] of an earlier breadth.                                        *)
(*                                                                          *)
(* A universe is what calculate_breadth is called with: [btc, symbols,      *)
(* counts], where "btc" is whether BTC's candles are usable, "symbols" the  *)
(* number of usable symbols, and "counts" how many of them meet each        *)
(* measure.  Scores and confidence are in percent.                          *)
(***************************************************************************)
EXTENDS Integers, FiniteSets

CONSTANTS
  None,
  BullScore, BearScore,      \* bull_score_threshold, bear_score_threshold
  MinSymbols,                \* min_universe_size
  RiskOn, RiskOff,           \* risk_on_threshold, risk_off_threshold
  MinConfidence,             \* min_regime_confidence
  MinLong, MaxShort          \* min_breadth_score_for_long, max_breadth_score_for_short

ASSUME ThresholdsAssumption ==
  /\ {BullScore, BearScore, RiskOn, RiskOff, MinConfidence, MinLong, MaxShort} \subseteq Nat
  /\ MinSymbols \in Nat \ {0}

-----------------------------------------------------------------------------
(***************************************************************************)
(* The regime.                                                              *)
(***************************************************************************)
Score(met, total) == (100 * met) \div total

\* Equal scores count as a rising trend.
Rising(m) == m.btc.up >= m.btc.down
Primary(m) == Score(IF Rising(m) THEN m.btc.up ELSE m.btc.down, 5)
Opposing(m) == Score(IF Rising(m) THEN m.btc.down ELSE m.btc.up, 5)

\* The conditions are those of a rising ETH, whichever way BTC goes.
EthScore(m) == IF m.eth = None THEN 0 ELSE Score(m.eth, 3)

BreadthConfirmation(m) ==
  LET b == m.breadth
      Met == IF Rising(m)
               THEN <<b.score > BullScore, b.above > 50, b.advancing > 50>>
               ELSE <<b.score < BearScore, b.above < 50, b.advancing < 50>>
  IN IF b = None THEN 0 ELSE Score(Cardinality({i \in 1 .. 3 : Met[i]}), 3)

\* A score of nothing confirms nothing, and takes nothing away.
Confirmation(m) == IF EthScore(m) > 0 THEN EthScore(m) ELSE BreadthConfirmation(m)

Confidence(m) ==
  IF Confirmation(m) > 0 /\ Confirmation(m) < Primary(m) THEN Confirmation(m) ELSE Primary(m)

TrendOf(m) ==
  CASE Rising(m) /\ Primary(m) >= BullScore    -> "BULL"
    [] ~Rising(m) /\ Primary(m) >= BearScore   -> "BEAR"
    [] OTHER -> IF Opposing(m) >= (IF Rising(m) THEN BearScore ELSE BullScore)
                  THEN "TRANSITION" ELSE "SIDEWAYS"

AllowedMode(regime) ==
  CASE regime = "BULL" -> "LONG"
    [] regime = "BEAR" -> "SHORT"
    [] OTHER           -> "NONE"

\* Mutant: a weakly confirmed trend is kept.
KeepWeakTrend(m) ==
  IF m.btc = None THEN [valid |-> FALSE, regime |-> "UNKNOWN", mode |-> "NONE", confidence |-> 0]
  ELSE [valid |-> TRUE, regime |-> TrendOf(m), mode |-> AllowedMode(TrendOf(m)),
        confidence |-> 100]

\* classify_regime
ClassifyRegime(m) ==
  IF m.btc = None THEN [valid |-> FALSE, regime |-> "UNKNOWN", mode |-> "NONE", confidence |-> 0]
  ELSE LET Regime == IF TrendOf(m) \in {"BULL", "BEAR"} /\ Confidence(m) < 60
                       THEN "TRANSITION" ELSE TrendOf(m)
       IN [valid |-> TRUE, regime |-> Regime, mode |-> AllowedMode(Regime),
           confidence |-> Confidence(m)]

-----------------------------------------------------------------------------
(***************************************************************************)
(* The breadth.                                                             *)
(***************************************************************************)
Measures == {"above20", "above50", "rising20", "rising50", "advancing", "beatingBtc"}

Weighted(u) ==
  25 * u.counts.above20 + 20 * u.counts.above50 + 20 * u.counts.rising20
  + 15 * u.counts.rising50 + 10 * u.counts.advancing + 10 * u.counts.beatingBtc

\* calculate_breadth_score adds six products of floats and truncates: a sum
\* that is a whole number may come out just below it, and lose one.
BreadthScores(u) ==
  {s \in 0 .. 100 : s * u.symbols <= Weighted(u) /\ Weighted(u) <= (s + 1) * u.symbols}

Health(score) ==
  CASE score >= RiskOn                      -> "RISK_ON"
    [] score < RiskOn /\ score <= RiskOff   -> "RISK_OFF"
    [] OTHER                                -> "NEUTRAL"

\* calculate_breadth: the outputs it may have.
Breadths(u) ==
  IF ~u.btc \/ u.symbols < MinSymbols THEN {[valid |-> FALSE, score |-> 0, health |-> "UNKNOWN"]}
  ELSE {[valid |-> TRUE, score |-> s, health |-> Health(s)] : s \in BreadthScores(u)}

-----------------------------------------------------------------------------
(***************************************************************************)
(* The decision.                                                            *)
(***************************************************************************)
\* detect_regime_breadth_conflict
Conflict(r, b) ==
  \/ r.regime = "BULL" /\ (b.health = "RISK_OFF" \/ b.score < 50)
  \/ r.regime = "BEAR" /\ (b.health = "RISK_ON" \/ b.score > 50)

\* validate_decision_inputs, in its order; "fresh" is whether the older of
\* the two is within the bound.
InputReason(r, b, fresh) ==
  IF r = None THEN "MISSING_REGIME"
  ELSE IF b = None THEN "MISSING_BREADTH"
  ELSE IF ~r.valid THEN "INVALID_REGIME"
  ELSE IF ~b.valid THEN "INVALID_BREADTH"
  ELSE IF r.regime = "UNKNOWN" THEN "UNKNOWN_REGIME"
  ELSE IF r.mode = "NONE" THEN "ALLOWED_MODE_NONE"
  ELSE IF r.confidence < MinConfidence THEN "LOW_REGIME_CONFIDENCE"
  ELSE IF ~fresh THEN "STALE_INPUT"
  ELSE "NONE"

\* Mutant: a conflict with the breadth is not looked for.
DecideWithoutConflict(r, b, fresh) ==
  IF InputReason(r, b, fresh) # "NONE" THEN InputReason(r, b, fresh)
  ELSE CASE r.regime = "BULL" -> "BULL_HEALTHY_BREADTH"
         [] r.regime = "BEAR" -> "BEAR_WEAK_BREADTH"
         [] OTHER -> "DEFAULT_BLOCK"

\* make_decision: why it decides as it does.
DecisionReason(r, b, fresh) ==
  IF InputReason(r, b, fresh) # "NONE" THEN InputReason(r, b, fresh)
  ELSE IF r.regime = "SIDEWAYS" THEN "SIDEWAYS_NO_DIRECTION"
  ELSE IF r.regime = "TRANSITION" THEN "TRANSITION_UNCERTAIN"
  ELSE IF Conflict(r, b) THEN "CONFLICTING_SIGNALS"
  ELSE CASE r.regime = "BULL" /\ r.mode = "LONG" /\ b.score >= MinLong   -> "BULL_HEALTHY_BREADTH"
         [] r.regime = "BEAR" /\ r.mode = "SHORT" /\ b.score <= MaxShort -> "BEAR_WEAK_BREADTH"
         [] OTHER -> "DEFAULT_BLOCK"

\* Every other reason blocks.
Permission(reason) ==
  CASE reason = "BULL_HEALTHY_BREADTH" -> "LONG"
    [] reason = "BEAR_WEAK_BREADTH"    -> "SHORT"
    [] OTHER                           -> "NONE"
=============================================================================
