-------------------------- MODULE MCPairlistGate --------------------------
(***************************************************************************)
(* Inputs of PairlistGate for model checking.                              *)
(***************************************************************************)
EXTENDS PairlistGate

CONSTANT MaxEligible  \* bound on the length of eligible_pairs

Listings(n) == UNION {[1..m -> Pairs] : m \in 0..n}
Ascending(n) == {e \in Listings(n) : \A j, k \in DOMAIN e : j < k => e[j] < e[k]}

Evidence(rs, oi, liquidity, quality) ==
  {[d \in Dimensions |-> CASE d = "rs" -> v[1] [] d = "oi" -> v[2] [] d = "liquidity" -> v[3] [] OTHER -> v[4]] :
     v \in rs \X oi \X liquidity \X quality}

InputsOf(profile, listings, evidence) ==
  UNION {{[profile |-> profile, eligible |-> e, scores |-> s] : s \in [Range(e) -> evidence]} : e \in listings}

(* Any list of pairs, repeated and in any order, with any v1 evidence; the *)
(* data quality decides only between pairs that are otherwise equal.       *)
V1Inputs ==
  InputsOf("V1_RS_OI", Listings(MaxEligible), Evidence({None, 0, 1}, {None, 0}, {None}, {None}))
    \union InputsOf("V1_RS_OI", Listings(MaxEligible - 1), Evidence({0}, {None, 0}, {None}, {None, 0, 1}))

(* The feather adapter lists its pairs once, in order of name, and scores  *)
(* all of them; a caller of rank_pairs_v2 may also leave scores out, give  *)
(* OI to the profile without it, or exceed 100 percent.                    *)
V2Inputs ==
  InputsOf("V2_RS_LIQUIDITY", Ascending(MaxEligible), Evidence({0, 1}, {None}, {0, 1}, {0, 1}))
    \union InputsOf("V2_RS_OI_LIQUIDITY", Ascending(MaxEligible), Evidence({0}, {0, 1}, {0, 1}, {0, 1}))
    \union UNION {InputsOf(profile, Listings(1), Evidence({None, 0}, {None, 0}, {None, 0}, {None, 0, 101})) :
                    profile \in {"V2_RS_LIQUIDITY", "V2_RS_OI_LIQUIDITY"}}
    \union InputsOf("V2_RS_OI_LIQUIDITY", Ascending(MaxEligible - 1), Evidence({None, 0}, {None, 0}, {0}, {None, 0}))

AllInputs == V1Inputs \union V2Inputs
=============================================================================
