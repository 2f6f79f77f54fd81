---------------------------- MODULE DecisionGate ----------------------------
(***************************************************************************)
(* The research decision gate (hunter/research_decision_gate): a pure       *)
(* function from a risk context, a controlled universe and an optional      *)
(* strategy contract to GO, NEEDS_REVIEW or NO_GO.                          *)
(*                                                                          *)
(* A risk context is [accepted, open, mode, pairs, at], a universe report   *)
(* [safe, mode, consistent, blocked, watchlist, at]; times are ticks.  The  *)
(* risk context stands for its own fingerprint, a contract for its own.     *)
(* A contract is "clean", "odd" (an unknown mode, scope or key), "unsafe"   *)
(* or "invalid" (not a mapping).                                            *)
(***************************************************************************)
EXTENDS Integers

CONSTANTS
  None,             \* an absent argument
  MaxUniverseAge,   \* config.max_universe_age_seconds
  MaxRiskAge,       \* config.max_risk_context_age_seconds
  FutureSkew        \* config.allowed_future_skew_seconds

\* The codes of a check that emits them when it fails.
When(failed, codes) == IF failed THEN codes ELSE {}

TimestampReasons(at, clock) == When(at - clock > FutureSkew, {"INVALID_TIMESTAMP"})

\* Mutant: a source may be one tick older than the bound.
IsFreshOffByOne(sourceTime, at, maxAge) == at - sourceTime < maxAge + 2

\* Only an upper bound: a source from after the evaluation is fresh.
IsFresh(sourceTime, at, maxAge) == at - sourceTime <= maxAge

RiskReasons(risk, at) ==
  IF risk = None THEN {"MISSING_RISK_CONTEXT"} ELSE
       When(~risk.accepted \/ risk.mode = "BLOCK_ALL", {"REJECTED_RISK_CONTEXT"})
  \cup When(~risk.open, {"RISK_GATE_CLOSED"})
  \cup When(~IsFresh(risk.at, at, MaxRiskAge), {"STALE_RISK_CONTEXT"})

UniverseReasons(universe, at) ==
  IF universe = None THEN {"MISSING_UNIVERSE_REPORT"} ELSE
       When(~universe.safe, {"REJECTED_UNIVERSE_REPORT"})
  \cup When(~IsFresh(universe.at, at, MaxUniverseAge), {"STALE_UNIVERSE_REPORT"})

ContractBlocking(contract, policy) ==
       When(contract = None /\ policy = "REQUIRE", {"MISSING_STRATEGY_CONTRACT"})
  \cup When(contract = "invalid" /\ policy # "IGNORE", {"INVALID_STRATEGY_CONTRACT"})
  \cup When(contract = "unsafe" /\ policy # "IGNORE", {"UNSAFE_STRATEGY_CONTRACT"})

ContractReview(contract, policy) ==
       When(contract = None /\ policy = "ALLOW_WITH_REVIEW",
            {"OPTIONAL_STRATEGY_CONTRACT_MISSING"})
  \cup When(contract = "odd" /\ policy # "IGNORE", {"STRATEGY_CONTRACT_MISMATCH"})

Opposed(risk, universe) ==
  \/ risk.mode = "LONG" /\ universe.mode = "SHORT_ONLY"
  \/ risk.mode = "SHORT" /\ universe.mode = "LONG_ONLY"

Contradictions(risk, universe) ==
  IF risk = None \/ universe = None THEN {} ELSE
  When(\/ Opposed(risk, universe)
       \/ risk.pairs \cap universe.blocked # {}, {"CONTRADICTORY_INPUTS"})

ReviewConditions(risk, universe, contract) ==
       When(\/ risk # None /\ (~risk.accepted \/ risk.mode = "BLOCK_ALL")
            \/ universe # None /\ universe.watchlist # {}
            \/ contract = "invalid", {"UPSTREAM_REVIEW_REQUIRED"})
  \cup When(universe # None /\ ~universe.consistent, {"INCOMPLETE_PROVENANCE"})

Decide(blocking, review) ==
  IF blocking # {} THEN "NO_GO" ELSE IF review # {} THEN "NEEDS_REVIEW" ELSE "GO"

(***************************************************************************)
(* The report.  Its fingerprint covers the decision and its reasons, the    *)
(* time, the policy and the sources' fingerprints; of the universe it       *)
(* covers the time of generation alone.                                     *)
(***************************************************************************)
GateReport(risk, universe, contract, policy, at, clock) ==
  LET blocking == TimestampReasons(at, clock) \cup RiskReasons(risk, at)
                  \cup UniverseReasons(universe, at)
                  \cup ContractBlocking(contract, policy)
                  \cup Contradictions(risk, universe)
      review   == ContractReview(contract, policy)
                  \cup ReviewConditions(risk, universe, contract)
      decision == Decide(blocking, review)
  IN [decision    |-> decision,
      risk        |-> risk,
      universe    |-> universe,
      at          |-> at,
      fingerprint |->
        [decision |-> decision, blocking |-> blocking, review |-> review,
         at |-> at, policy |-> policy, risk |-> risk, contract |-> contract,
         universe |-> IF universe = None THEN None ELSE universe.at]]
=============================================================================
