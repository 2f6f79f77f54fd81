------------------------- MODULE ControlledUniverse -------------------------
(***************************************************************************)
(* The controlled universe (hunter/controlled_universe): a pure, fail-      *)
(* closed function from a portfolio report and an execution context to the  *)
(* pairs that research may look at.                                         *)
(*                                                                          *)
(* An execution context is None or [valid, state, mode, allowed, fresh,     *)
(* clean]: "fresh" is whether its data quality is valid and not stale,      *)
(* "clean" whether its text passes the run's term list.                     *)
(***************************************************************************)
EXTENDS PortfolioConstruction

CONSTANT Normal       \* a pair's name without blanks, in upper case

PortfolioStates ==
  {"INCLUDED", "CAPPED", "WATCHLIST", "EXCLUDED", "INSUFFICIENT_DATA", "BLOCKED"}

\* What a plan may hand to a universe step: a portfolio report, and the state
\* of an execution context.
IsPortfolioReport(report) ==
  /\ report.kind = "PORTFOLIO"
  /\ IsFiniteSet(DOMAIN report.scores)
  /\ \A i \in DOMAIN report.scores : report.scores[i].state \in PortfolioStates

IsExecution(exec) ==
  exec = None \/ exec.state \in {"ENABLED", "DRY_RUN_ONLY", "BLOCKED", "UNKNOWN"}

SpelledAlike(scores) ==
  \E i, j \in DOMAIN scores : i # j /\ Normal[scores[i].pair] = Normal[scores[j].pair]

\* _execution_context_blocks_universe, for a context that is there.
ExecutionReason(exec) ==
  CASE exec.state = "UNKNOWN" -> "EXECUTION_UNKNOWN"
    [] /\ exec.state # "UNKNOWN"
       /\ \/ ~exec.valid
          \/ exec.state = "BLOCKED"
          \/ exec.mode = "BLOCK_ALL" -> "EXECUTION_BLOCKED"
    [] OTHER -> IF exec.allowed = "NONE" THEN "MACRO_MODE_NONE" ELSE "NONE"

\* Mutant: the safety flags of the portfolio report are not read.
QualityReasonUnread(report, exec) ==
  CASE ~exec.fresh                    -> "TRANSITION_STATE"
    [] exec.fresh /\ ~report.counted  -> "INVALID_PORTFOLIO_SUMMARY"
    [] OTHER                          -> "NONE"

\* _data_quality_blocks_universe and _validate_portfolio_summary.
QualityReason(report, exec) ==
  CASE ~exec.fresh                                       -> "TRANSITION_STATE"
    [] exec.fresh /\ ~(report.safe /\ report.counted)    -> "INVALID_PORTFOLIO_SUMMARY"
    [] OTHER                                             -> "NONE"

\* Why the universe is refused as a whole, in the order the engine asks.
UniverseReason(report, exec) ==
  IF exec = None THEN "MISSING_EXECUTION_CONTEXT"
  ELSE IF SpelledAlike(report.scores) THEN "DUPLICATE_PAIR_DETECTED"
  ELSE IF ExecutionReason(exec) # "NONE" THEN ExecutionReason(exec)
  ELSE QualityReason(report, exec)

-----------------------------------------------------------------------------
Long(score) == score.state \in {"INCLUDED", "CAPPED"}

TooLow(score, config) ==
  config.minScore # None /\ score.allocation < Points(config.minScore)

\* _classify_controlled_universe_item; a portfolio has no short pairs, so
\* LONG_ONLY blocks none.
ClassifyItem(score, allowed, config) ==
  CASE Long(score) /\ allowed = "SHORT_ONLY"       -> "BLOCKED"
    [] ~(Long(score) /\ allowed = "SHORT_ONLY")
         /\ TooLow(score, config)                  -> "BLOCKED"
    [] OTHER -> IF Long(score) THEN "INCLUDED" ELSE score.state

\* The first "most" of what is included, by (-score, pair).
Kept(scores, Included, most) ==
  {i \in Included :
     \/ most = None
     \/ most > Cardinality({j \in Included :
                  \/ scores[j].allocation > scores[i].allocation
                  \/ /\ scores[j].allocation = scores[i].allocation
                     /\ scores[j].pair < scores[i].pair})}

UniverseItems(scores, allowed, config) ==
  LET state == [i \in DOMAIN scores |-> ClassifyItem(scores[i], allowed, config)]
      Included == {i \in DOMAIN scores : state[i] = "INCLUDED"}
      Dropped == Included \ Kept(scores, Included, config.maxUniverse)
  IN [i \in DOMAIN scores |->
        [pair  |-> scores[i].pair,
         state |-> IF i \in Dropped THEN "BLOCKED" ELSE state[i],
         long  |-> Long(scores[i]) /\ allowed # "SHORT_ONLY" /\ i \notin Dropped]]

(***************************************************************************)
(* The report.  A refused universe has no items; only the flags of its      *)
(* reason are raised, and none for MACRO_MODE_NONE.  The terms of this      *)
(* package make a universe unsafe, they remove nothing from it.             *)
(***************************************************************************)
UniverseReport(report, exec, config) ==
  LET reason == UniverseReason(report, exec)
  IN [kind   |-> "UNIVERSE",
      reason |-> reason,
      items  |-> IF reason = "NONE"
                 THEN UniverseItems(report.scores, exec.allowed, config)
                 ELSE << >>,
      safe   |-> \/ reason = "MACRO_MODE_NONE"
                 \/ /\ reason = "NONE"
                    /\ \A i \in DOMAIN report.scores :
                         "universe" \notin report.scores[i].flagged,
      stale  |-> FALSE]
=============================================================================
