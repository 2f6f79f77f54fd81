---------------------------- MODULE MCGovernance ----------------------------
(* Instances of Governance for TLC. *)
EXTENDS Governance

GoodRisk == [accepted |-> TRUE, open |-> TRUE, mode |-> "LONG", pairs |-> {"p"}]

Universe(mode, blocked, watchlist) ==
  [safe |-> TRUE, mode |-> mode, consistent |-> TRUE,
   blocked |-> blocked, watchlist |-> watchlist]
GoodUniverse == Universe("LONG_ONLY", {"q"}, {})

Call(risk, universe, contract, policy, riskAge, universeAge, ahead) ==
  [risk |-> risk, universe |-> universe, contract |-> contract, policy |-> policy,
   riskAge |-> riskAge, universeAge |-> universeAge, ahead |-> ahead]

\* A call at the limit of every bound, which is a GO, and calls that differ
\* from it in one thing.
MCEvidence ==
  { Call(GoodRisk, GoodUniverse, "clean", "REQUIRE", 1, 1, 1),
    Call(GoodRisk, GoodUniverse, "clean", "REQUIRE", 0, 0, 0),
    Call(GoodRisk, GoodUniverse, "clean", "REQUIRE", 1, 2, 1),
    Call(GoodRisk, GoodUniverse, "clean", "REQUIRE", 2, 1, 1),
    Call(GoodRisk, Universe("LONG_ONLY", {"q"}, {"r"}), "clean", "REQUIRE", 1, 1, 1) }

Input(verdict, note) == [who |-> "alice", verdict |-> verdict, note |-> note]
MCInputs == { Input("APPROVE_FOR_RESEARCH", "reason"),
              Input("REQUEST_CHANGES", "reason") }
=============================================================================
