------------------------- MODULE SignalChainProofs -------------------------
(***************************************************************************)
(* Proofs about SignalChain: what is exposed was earned, and a withdrawn    *)
(* decision is shown no longer than the bounds of the stages after it.      *)
(***************************************************************************)
EXTENDS SignalChain, FiniteSetTheorems, TLAPS

-----------------------------------------------------------------------------
(***************************************************************************)
(* A direction is supported by what was measured.                           *)
(***************************************************************************)
\* A regime that allows a direction has BTC's trend behind it, and nothing
\* that confirms it weakly.
LEMMA RegimeIsMeasured ==
  ASSUME NEW m \in Market, m.btc # None
  PROVE  /\ ClassifyRegime(m).regime = "BULL" =>
              /\ NotWeaklyConfirmed(m)
              /\ m.btc.up >= m.btc.down /\ 20 * m.btc.up >= BullScore
         /\ ClassifyRegime(m).regime = "BEAR" =>
              /\ NotWeaklyConfirmed(m)
              /\ m.btc.down > m.btc.up /\ 20 * m.btc.down >= BearScore
<1> DEFINE up == m.btc.up
           down == m.btc.down
<1>1. up \in 0 .. 5 /\ down \in 0 .. 5
  BY DEF Market
<1>2. BullScore \in Nat /\ BearScore \in Nat
  BY ThresholdsAssumption
<1>3. Score(up, 5) = 20 * up /\ Score(down, 5) = 20 * down
  <2> HIDE DEF up, down
  <2>1. \A n \in 0 .. 5 : (100 * n) \div 5 = 20 * n
    OBVIOUS
  <2> QED
    BY <1>1, <2>1 DEF Score
<1>4. Confirmation(m) \in Nat
  <2>1. EthScore(m) \in Nat
    <3>1. m.eth # None => m.eth \in 0 .. 3
      BY DEF Market
    <3>2. \A n \in 0 .. 3 : (100 * n) \div 3 \in Nat
      OBVIOUS
    <3> QED
      BY <3>1, <3>2 DEF EthScore, Score
  <2>2. BreadthConfirmation(m) \in Nat
    <3> DEFINE b == m.breadth
               met == IF Rising(m)
                        THEN <<b.score > BullScore, b.above > 50, b.advancing > 50>>
                        ELSE <<b.score < BearScore, b.above < 50, b.advancing < 50>>
               hold == {i \in 1 .. 3 : met[i]}
    <3>1. Cardinality(hold) \in Nat
      <4>1. hold \subseteq 1 .. 3
        BY Zenon
      <4> HIDE DEF hold
      <4>2. IsFiniteSet(1 .. 3)
        <5>1. \A n \in Nat : IsFiniteSet(1 .. n)
          BY FS_Interval
        <5>2. 3 \in Nat
          OBVIOUS
        <5> QED
          BY <5>1, <5>2, Zenon
      <4> QED
        BY <4>1, <4>2, FS_Subset, FS_CardinalityType
    <3>2. BreadthConfirmation(m) = IF b = None THEN 0 ELSE Score(Cardinality(hold), 3)
      BY Zenon DEF BreadthConfirmation
    <3> HIDE DEF hold, b
    <3>3. \A n \in Nat : (100 * n) \div 3 \in Nat
      OBVIOUS
    <3> QED
      BY <3>1, <3>2, <3>3 DEF Score
  <2> QED
    BY <2>1, <2>2 DEF Confirmation
<1>5. Primary(m) \in Int
  BY <1>1, <1>3 DEF Primary
<1>6. ASSUME ClassifyRegime(m).regime \in {"BULL", "BEAR"}
      PROVE  /\ ClassifyRegime(m).regime = TrendOf(m)
             /\ Confidence(m) >= 60
  <2>1. ClassifyRegime(m).regime =
          IF TrendOf(m) \in {"BULL", "BEAR"} /\ Confidence(m) < 60
            THEN "TRANSITION" ELSE TrendOf(m)
    BY DEF ClassifyRegime
  <2>2. Confidence(m) \in Int
    BY <1>4, <1>5 DEF Confidence
  <2> QED
    BY <1>6, <2>1, <2>2
<1>7. Confidence(m) >= 60 => NotWeaklyConfirmed(m)
  BY <1>4, <1>5 DEF Confidence, NotWeaklyConfirmed
<1>8. TrendOf(m) = "BULL" => Rising(m) /\ Primary(m) >= BullScore
  BY DEF TrendOf
<1>9. TrendOf(m) = "BEAR" => ~Rising(m) /\ Primary(m) >= BearScore
  BY DEF TrendOf
<1> QED
  BY <1>1, <1>2, <1>3, <1>6, <1>7, <1>8, <1>9 DEF Primary, Rising

\* A breadth score is a whole number next to the exact quotient.
LEMMA BreadthIsMeasured ==
  ASSUME NEW u \in Universe, NEW b \in Breadths(u), b.valid
  PROVE  /\ u.btc /\ u.symbols >= MinSymbols
         /\ b.score \in Nat
         /\ b.score * u.symbols <= Weighted(u)
         /\ Weighted(u) <= (b.score + 1) * u.symbols
<1>1. /\ ~(~u.btc \/ u.symbols < MinSymbols)
      /\ \E s \in BreadthScores(u) : b = [valid |-> TRUE, score |-> s, health |-> Health(s)]
  <2>1. Breadths(u) =
          IF ~u.btc \/ u.symbols < MinSymbols
            THEN {[valid |-> FALSE, score |-> 0, health |-> "UNKNOWN"]}
            ELSE {[valid |-> TRUE, score |-> s, health |-> Health(s)] : s \in BreadthScores(u)}
    BY Zenon DEF Breadths
  <2>2. CASE ~u.btc \/ u.symbols < MinSymbols
    BY <2>1, <2>2
  <2>3. CASE ~(~u.btc \/ u.symbols < MinSymbols)
    BY <2>1, <2>3
  <2> QED
    BY <2>2, <2>3
<1>2. PICK s \in BreadthScores(u) : b = [valid |-> TRUE, score |-> s, health |-> Health(s)]
  BY <1>1
<1>3. b.score = s
  BY <1>2
<1>4. s \in 0 .. 100 /\ s * u.symbols <= Weighted(u) /\ Weighted(u) <= (s + 1) * u.symbols
  BY DEF BreadthScores
<1>5. u.symbols \in Nat /\ MinSymbols \in Nat
  BY ThresholdsAssumption DEF Universe
<1> QED
  BY <1>1, <1>3, <1>4, <1>5

\* The weighted sum of the counts is a whole number.
LEMMA WeightedType ==
  ASSUME NEW u \in Universe
  PROVE  Weighted(u) \in Nat
<1>1. \A c \in Measures : u.counts[c] \in Nat
  BY DEF Universe
<1>2. /\ u.counts.above20 \in Nat /\ u.counts.above50 \in Nat
      /\ u.counts.rising20 \in Nat /\ u.counts.rising50 \in Nat
      /\ u.counts.advancing \in Nat /\ u.counts.beatingBtc \in Nat
  BY <1>1 DEF Measures
<1> QED
  BY <1>2 DEF Weighted

\* Why a direction was decided on.
LEMMA PermissionIsReasoned ==
  ASSUME NEW r, NEW b, NEW fresh \in BOOLEAN,
         Permission(DecisionReason(r, b, fresh)) # "NONE"
  PROVE  /\ fresh /\ r # None /\ b # None /\ r.valid /\ b.valid
         /\ ~Conflict(r, b)
         /\ \/ /\ Permission(DecisionReason(r, b, fresh)) = "LONG"
               /\ r.regime = "BULL" /\ b.score >= MinLong
            \/ /\ Permission(DecisionReason(r, b, fresh)) = "SHORT"
               /\ r.regime = "BEAR" /\ b.score <= MaxShort
<1> DEFINE reason == DecisionReason(r, b, fresh)
<1>1. \/ reason = "BULL_HEALTHY_BREADTH" /\ Permission(reason) = "LONG"
      \/ reason = "BEAR_WEAK_BREADTH" /\ Permission(reason) = "SHORT"
  BY DEF Permission
<1>2. InputReason(r, b, fresh) = "NONE"
  <2>1. InputReason(r, b, fresh) \notin {"BULL_HEALTHY_BREADTH", "BEAR_WEAK_BREADTH"}
    BY DEF InputReason
  <2>2. InputReason(r, b, fresh) # "NONE" => reason = InputReason(r, b, fresh)
    BY DEF DecisionReason
  <2> QED
    BY <1>1, <2>1, <2>2
<1>3. r # None /\ b # None /\ r.valid /\ b.valid /\ fresh
  BY <1>2 DEF InputReason
<1>4. ~Conflict(r, b)
  BY <1>1, <1>2 DEF DecisionReason
<1>5. reason = "BULL_HEALTHY_BREADTH" => r.regime = "BULL" /\ b.score >= MinLong
  BY <1>2 DEF DecisionReason
<1>6. reason = "BEAR_WEAK_BREADTH" => r.regime = "BEAR" /\ b.score <= MaxShort
  BY <1>2 DEF DecisionReason
<1> QED
  BY <1>1, <1>3, <1>4, <1>5, <1>6

\* Bounds of a score are bounds of what it is the quotient of.
LEMMA ScoreIsBelow ==
  ASSUME NEW s \in Nat, NEW t \in Nat, NEW n \in Nat, NEW w \in Nat, s >= t, s * n <= w
  PROVE  w >= t * n
<1>1. s * n >= t * n
  <2>1. PICK k \in Nat : s = t + k
    <3>1. s - t \in Nat /\ s = t + (s - t)
      OBVIOUS
    <3> QED
      BY <3>1
  <2>2. s * n = t * n + k * n /\ k * n >= 0
    BY <2>1
  <2>3. t * n \in Nat /\ k * n \in Nat
    BY <2>1
  <2> QED
    BY <2>2, <2>3
<1>2. s * n \in Nat /\ t * n \in Nat
  OBVIOUS
<1> QED
  BY <1>1, <1>2

LEMMA ScoreIsAbove ==
  ASSUME NEW s \in Nat, NEW t \in Nat, NEW n \in Nat, NEW w \in Nat, s <= t, w <= (s + 1) * n
  PROVE  w <= (t + 1) * n
<1>1. (t + 1) * n >= (s + 1) * n
  BY ScoreIsBelow
<1>2. (s + 1) * n \in Nat /\ (t + 1) * n \in Nat
  OBVIOUS
<1> QED
  BY <1>1, <1>2

\* What allows a direction supports it, whatever its time.
LEMMA VerdictsAreSupported ==
  ASSUME NEW fresh \in BOOLEAN, NEW v \in Verdicts[fresh], v # None, NEW at
  PROVE  /\ fresh
         /\ v.mode \in Directions /\ v.market \in Markets /\ v.universe \in Universes
         /\ Supports([market |-> v.market, universe |-> v.universe, at |-> at], v.mode)
<1>1. PICK o \in Outputs : v = Verdict(o, fresh)
  BY DEF Verdicts
<1>2. PICK m \in Markets \cup {None}, u \in Universes \cup {None} :
        \E b \in BreadthsOf(u) :
          o = [market |-> m, universe |-> u, regime |-> Regime(m), breadth |-> b]
  BY <1>1 DEF Outputs
<1>3. PICK b \in BreadthsOf(u) :
        o = [market |-> m, universe |-> u, regime |-> Regime(m), breadth |-> b]
  BY <1>2
<1> DEFINE r == Regime(m)
           mode == Permission(DecisionReason(r, b, fresh))
<1>4. mode # "NONE" /\ v = [market |-> m, universe |-> u, mode |-> mode]
  <2>1. o.market = m /\ o.universe = u /\ o.regime = r /\ o.breadth = b
    BY <1>3
  <2> QED
    BY <1>1, <2>1 DEF Verdict
<1>5. /\ fresh /\ r # None /\ b # None /\ r.valid /\ b.valid /\ ~Conflict(r, b)
      /\ \/ mode = "LONG" /\ r.regime = "BULL" /\ b.score >= MinLong
         \/ mode = "SHORT" /\ r.regime = "BEAR" /\ b.score <= MaxShort
  <2> HIDE DEF r
  <2> QED
    BY <1>4, PermissionIsReasoned
<1>6. m \in Markets /\ m \in Market /\ r = ClassifyRegime(m)
  BY <1>5, SignalAssumption DEF Regime
<1>7. u \in Universes /\ u \in Universe /\ b \in Breadths(u)
  BY <1>5, SignalAssumption DEF BreadthsOf
<1>8. m.btc # None
  BY <1>5, <1>6 DEF ClassifyRegime
<1>9. /\ u.btc /\ u.symbols >= MinSymbols /\ b.score \in Nat
      /\ b.score * u.symbols <= Weighted(u)
      /\ Weighted(u) <= (b.score + 1) * u.symbols
  BY <1>5, <1>7, BreadthIsMeasured
<1>10. Weighted(u) \in Nat /\ u.symbols \in Nat
  BY <1>7, WeightedType DEF Universe
<1>11. MinLong \in Nat /\ MaxShort \in Nat
  BY ThresholdsAssumption
<1>12. CASE mode = "LONG"
  <2>1. r.regime = "BULL" /\ b.score >= MinLong /\ b.score >= 50
    <3> HIDE DEF r, mode
    <3> QED
      BY <1>5, <1>9, <1>12 DEF Conflict
  <2>2. NotWeaklyConfirmed(m) /\ m.btc.up >= m.btc.down /\ 20 * m.btc.up >= BullScore
    BY <2>1, <1>6, <1>8, RegimeIsMeasured
  <2>3. Weighted(u) >= MinLong * u.symbols /\ Weighted(u) >= 50 * u.symbols
    BY <2>1, <1>9, <1>10, <1>11, ScoreIsBelow
  <2> QED
    BY <1>4, <1>5, <1>6, <1>7, <1>8, <1>9, <1>12, <2>2, <2>3 DEF Supports, Directions
<1>13. CASE mode = "SHORT"
  <2>1. r.regime = "BEAR" /\ b.score <= MaxShort /\ b.score <= 50
    <3> HIDE DEF r, mode
    <3> QED
      BY <1>5, <1>9, <1>13 DEF Conflict
  <2>2. NotWeaklyConfirmed(m) /\ m.btc.down > m.btc.up /\ 20 * m.btc.down >= BearScore
    BY <2>1, <1>6, <1>8, RegimeIsMeasured
  <2>3. Weighted(u) <= (MaxShort + 1) * u.symbols /\ Weighted(u) <= 51 * u.symbols
    BY <2>1, <1>9, <1>10, <1>11, ScoreIsAbove
  <2> QED
    BY <1>4, <1>5, <1>6, <1>7, <1>8, <1>9, <1>13, <2>2, <2>3 DEF Supports, Directions
<1> QED
  BY <1>5, <1>12, <1>13

-----------------------------------------------------------------------------
(***************************************************************************)
(* The inductive invariant.  What a context rests on is at most "early"     *)
(* older than the context beyond the bound on the inputs, and a decision    *)
(* that does not allow its direction any more ceased to at most "late"      *)
(* before it was stamped.  Each stage adds the bound on its input to both;  *)
(* the execution bridge reads the decision itself, and adds nothing to the  *)
(* second.                                                                  *)
(***************************************************************************)
Grounded(c, early, late, t, dec, w) ==
  c # None =>
    /\ c \in Context /\ c.at <= t
    /\ Supports(c.origin, c.mode)
    /\ c.at - c.origin.at <= StaleInput + early
    /\ ~Allows(dec, c.mode) => w[c.mode] \in 0 .. t /\ c.at - w[c.mode] <= late

LateBridge == StaleExecution
LateContract == LateBridge + StaleBridge
LateAdapter == LateContract + StaleContract
LateRuntime == LateAdapter + StaleAdapter

IInv ==
  /\ TypeOK
  /\ Grounded(decision, 0, 0, now, decision, withdrawn)
  /\ Grounded(execution, StaleDecision, 0, now, decision, withdrawn)
  /\ Grounded(bridge, StaleDecision + LateBridge, LateBridge, now, decision, withdrawn)
  /\ Grounded(contract, StaleDecision + LateContract, LateContract, now, decision, withdrawn)
  /\ Grounded(adapter, StaleDecision + LateAdapter, LateAdapter, now, decision, withdrawn)
  /\ Grounded(runtime, StaleDecision + LateRuntime, LateRuntime, now, decision, withdrawn)

\* The bounds are numbers.
BoundsAreNat ==
  /\ StaleInput \in Nat /\ StaleDecision \in Nat /\ StaleExecution \in Nat
  /\ StaleBridge \in Nat /\ StaleContract \in Nat /\ StaleAdapter \in Nat
  /\ StaleRuntime \in Nat /\ MaxNow \in Nat
  /\ LateBridge \in Nat /\ LateContract \in Nat /\ LateAdapter \in Nat
  /\ LateRuntime \in Nat

LEMMA BoundsType == BoundsAreNat
<1>1. /\ StaleInput \in Nat /\ StaleDecision \in Nat /\ StaleExecution \in Nat
      /\ StaleBridge \in Nat /\ StaleContract \in Nat /\ StaleAdapter \in Nat
      /\ StaleRuntime \in Nat /\ MaxNow \in Nat
  BY SignalAssumption
<1> QED
  BY <1>1 DEF BoundsAreNat, LateBridge, LateContract, LateAdapter, LateRuntime

\* Nothing a stage did not touch is lost by the clock.
LEMMA LaterIsGrounded ==
  ASSUME NEW c, NEW early, NEW late, NEW t \in Nat, NEW t2 \in Nat, t2 >= t,
         NEW dec, NEW w, Grounded(c, early, late, t, dec, w)
  PROVE  Grounded(c, early, late, t2, dec, w)
<1> SUFFICES ASSUME c # None
             PROVE  Grounded(c, early, late, t2, dec, w)
  BY DEF Grounded
<1>1. c \in Context /\ c.at <= t
  BY DEF Grounded
<1>2. c.at \in Nat
  BY <1>1, BoundsType DEF BoundsAreNat, Context
<1>3. c.at <= t2
  BY <1>1, <1>2
<1>4. ~Allows(dec, c.mode) => w[c.mode] \in 0 .. t2 /\ c.at - w[c.mode] <= late
  BY DEF Grounded
<1> QED
  BY <1>3, <1>4 DEF Grounded

\* Nor by a new decision: what it withdraws, it withdraws now.
LEMMA WithdrawnIsGrounded ==
  ASSUME TypeOK, NEW new \in {None} \cup Context, Withdraw(new),
         NEW c, NEW early, NEW late \in Nat,
         Grounded(c, early, late, now, decision, withdrawn)
  PROVE  Grounded(c, early, late, now, new, withdrawn')
<1> SUFFICES ASSUME c # None, ~Allows(new, c.mode)
             PROVE  withdrawn'[c.mode] \in 0 .. now /\ c.at - withdrawn'[c.mode] <= late
  BY DEF Grounded
<1>1. c \in Context /\ c.at <= now
  BY DEF Grounded
<1>2. c.mode \in Directions /\ c.at \in Nat /\ now \in Nat
  BY <1>1, BoundsType DEF BoundsAreNat, Context, TypeOK
<1>3. withdrawn'[c.mode] = IF Allows(decision, c.mode) THEN now ELSE withdrawn[c.mode]
  BY <1>2 DEF Withdraw
<1>4. CASE Allows(decision, c.mode)
  BY <1>1, <1>2, <1>3, <1>4
<1>5. CASE ~Allows(decision, c.mode)
  BY <1>3, <1>5 DEF Grounded
<1> QED
  BY <1>4, <1>5

\* A stage adds the bound on its input.
LEMMA PassedIsGrounded ==
  ASSUME TypeOK, NEW c, NEW early \in Nat, NEW late \in Nat, NEW bound \in Nat,
         Grounded(c, early, late, now, decision, withdrawn)
  PROVE  /\ Passed(c, bound) \in {None} \cup Context
         /\ Grounded(Passed(c, bound), early + bound, late + bound, now, decision, withdrawn)
<1> DEFINE new == Passed(c, bound)
<1>1. CASE ~(c # None /\ now - c.at <= bound)
  BY <1>1 DEF Passed, Grounded
<1>2. CASE c # None /\ now - c.at <= bound
  <2>1. c \in Context /\ c.at <= now /\ c.at - c.origin.at <= StaleInput + early
    BY <1>2 DEF Grounded
  <2>2. c.at \in Nat /\ c.origin.at \in Nat /\ now \in 0 .. MaxNow /\ MaxNow \in Nat /\ StaleInput \in Nat
    BY <2>1, BoundsType DEF BoundsAreNat, Context, Origin, TypeOK
  <2>3. new = [c EXCEPT !.at = now]
    BY <1>2 DEF Passed
  <2>4. new \in Context /\ new.at = now /\ new.mode = c.mode /\ new.origin = c.origin
    BY <2>1, <2>2, <2>3 DEF Context
  <2>5. Supports(new.origin, new.mode)
    BY <1>2, <2>4 DEF Grounded
  <2>6. now - c.origin.at <= StaleInput + (early + bound)
    BY <1>2, <2>1, <2>2
  <2>7. ASSUME ~Allows(decision, c.mode)
        PROVE  withdrawn[c.mode] \in 0 .. now /\ now - withdrawn[c.mode] <= late + bound
    <3>1. withdrawn[c.mode] \in 0 .. now /\ c.at - withdrawn[c.mode] <= late
      BY <1>2, <2>7 DEF Grounded
    <3> QED
      BY <1>2, <2>2, <3>1
  <2>8. new.at <= now
    BY <2>2, <2>4
  <2> QED
    BY <2>4, <2>5, <2>6, <2>7, <2>8 DEF Grounded
<1> QED
  BY <1>1, <1>2

\* The execution bridge reads the decision itself.
LEMMA ExecutedIsGrounded ==
  ASSUME TypeOK, Grounded(decision, 0, 0, now, decision, withdrawn)
  PROVE  Grounded(Passed(decision, StaleDecision), StaleDecision, 0, now, decision, withdrawn)
<1> DEFINE new == Passed(decision, StaleDecision)
<1>1. Grounded(new, 0 + StaleDecision, 0 + StaleDecision, now, decision, withdrawn)
  BY PassedIsGrounded, BoundsType DEF BoundsAreNat
<1>2. new # None => Allows(decision, new.mode)
  <2>1. CASE decision # None /\ now - decision.at <= StaleDecision
    <3>1. decision \in Context
      BY <2>1 DEF Grounded
    <3>2. new.mode = decision.mode
      BY <2>1, <3>1 DEF Passed, Context
    <3> QED
      BY <2>1, <3>2 DEF Allows
  <2>2. CASE ~(decision # None /\ now - decision.at <= StaleDecision)
    BY <2>2 DEF Passed
  <2> QED
    BY <2>1, <2>2
<1>3. 0 + StaleDecision = StaleDecision
  BY BoundsType DEF BoundsAreNat
<1> HIDE DEF new
<1>4. Grounded(new, StaleDecision, 0, now, decision, withdrawn)
  BY <1>1, <1>2, <1>3 DEF Grounded
<1> QED
  BY <1>4 DEF new

\* What the decision engine decides is grounded in what it was given.
LEMMA DecidedIsGrounded ==
  ASSUME IInv, Decide
  PROVE  /\ decision' \in {None} \cup Context
         /\ \A w : Grounded(decision', 0, 0, now, decision', w)
<1>1. PICK at \in 0 .. now : \E v \in Verdicts[now - at <= StaleInput] :
        decision' = IF v = None THEN None
                    ELSE [at |-> now, mode |-> v.mode,
                          origin |-> [market |-> v.market, universe |-> v.universe, at |-> at]]
  BY Zenon DEF Decide
<1>2. PICK v \in Verdicts[now - at <= StaleInput] :
        decision' = IF v = None THEN None
                    ELSE [at |-> now, mode |-> v.mode,
                          origin |-> [market |-> v.market, universe |-> v.universe, at |-> at]]
  BY <1>1
<1>3. CASE v = None
  BY <1>2, <1>3 DEF Grounded
<1>4. CASE v # None
  <2> DEFINE fresh == now - at <= StaleInput
             o == [market |-> v.market, universe |-> v.universe, at |-> at]
  <2>1. /\ fresh
        /\ v.mode \in Directions /\ v.market \in Markets /\ v.universe \in Universes
        /\ Supports(o, v.mode)
    <3>1. fresh \in BOOLEAN
      OBVIOUS
    <3> HIDE DEF fresh
    <3>2. v \in Verdicts[fresh]
      BY DEF fresh
    <3> QED
      BY <1>4, <3>1, <3>2, VerdictsAreSupported
  <2>2. now \in 0 .. MaxNow /\ MaxNow \in Nat /\ StaleInput \in Nat
    BY BoundsType DEF BoundsAreNat, IInv, TypeOK
  <2>3. decision' = [at |-> now, mode |-> v.mode, origin |-> o]
    BY <1>2, <1>4
  <2>4. o \in Origin /\ o.at = at
    BY <2>1, <2>2 DEF Origin
  <2> HIDE DEF o
  <2>5. decision' \in Context
    BY <2>1, <2>2, <2>3, <2>4 DEF Context
  <2>6. decision'.at = now /\ decision'.mode = v.mode /\ decision'.origin = o
    BY <2>3
  <2>7. decision'.at <= now /\ decision'.at - decision'.origin.at <= StaleInput + 0
    BY <2>1, <2>2, <2>4, <2>6
  <2>8. decision' # None => Allows(decision', decision'.mode)
    BY DEF Allows
  <2> QED
    BY <2>1, <2>5, <2>6, <2>7, <2>8 DEF Grounded
<1> QED
  BY <1>3, <1>4

-----------------------------------------------------------------------------
LEMMA InitInvariant == Init => IInv
BY BoundsType DEF BoundsAreNat, Init, IInv, TypeOK, Grounded, Directions

\* A stage's step leaves everything but its own context as it is.
LEMMA StageKeepsInvariant ==
  ASSUME IInv, Execute \/ Bridge \/ Contract \/ Adapt \/ (\E form \in Handovers : Expose(form))
  PROVE  IInv'
<1>1. BoundsAreNat
  BY BoundsType DEF BoundsAreNat
<1>2. TypeOK
  BY DEF IInv
<1>3. CASE Execute
  <2>1. Grounded(execution', StaleDecision, 0, now, decision, withdrawn)
    BY <1>3, <1>2, ExecutedIsGrounded DEF Execute, IInv
  <2>2. execution' \in {None} \cup Context
    BY <1>3, <1>2, PassedIsGrounded, BoundsType DEF BoundsAreNat, Execute, IInv
  <2> QED
    BY <1>3, <2>1, <2>2 DEF Execute, IInv, TypeOK
<1>4. CASE Bridge
  <2>1. /\ bridge' \in {None} \cup Context
        /\ Grounded(bridge', (StaleDecision) + StaleExecution, 0 + StaleExecution, now, decision, withdrawn)
    <3>1. Grounded(execution, StaleDecision, 0, now, decision, withdrawn)
      BY DEF IInv
    <3>2. bridge' = Passed(execution, StaleExecution)
      BY <1>4 DEF Bridge
    <3>3. StaleDecision \in Nat /\ 0 \in Nat /\ StaleExecution \in Nat
      BY <1>1 DEF BoundsAreNat
    <3> QED
      BY <1>2, <3>1, <3>2, <3>3, PassedIsGrounded
  <2>2. (StaleDecision) + StaleExecution = StaleDecision + LateBridge /\ 0 + StaleExecution = LateBridge
    BY <1>1 DEF BoundsAreNat, LateBridge, LateContract, LateAdapter, LateRuntime
  <2> QED
    BY <1>4, <2>1, <2>2 DEF Bridge, IInv, TypeOK
<1>5. CASE Contract
  <2>1. /\ contract' \in {None} \cup Context
        /\ Grounded(contract', (StaleDecision + LateBridge) + StaleBridge, LateBridge + StaleBridge, now, decision, withdrawn)
    <3>1. Grounded(bridge, StaleDecision + LateBridge, LateBridge, now, decision, withdrawn)
      BY DEF IInv
    <3>2. contract' = Passed(bridge, StaleBridge)
      BY <1>5 DEF Contract
    <3>3. StaleDecision + LateBridge \in Nat /\ LateBridge \in Nat /\ StaleBridge \in Nat
      BY <1>1 DEF BoundsAreNat
    <3> QED
      BY <1>2, <3>1, <3>2, <3>3, PassedIsGrounded
  <2>2. (StaleDecision + LateBridge) + StaleBridge = StaleDecision + LateContract /\ LateBridge + StaleBridge = LateContract
    BY <1>1 DEF BoundsAreNat, LateBridge, LateContract, LateAdapter, LateRuntime
  <2> QED
    BY <1>5, <2>1, <2>2 DEF Contract, IInv, TypeOK
<1>6. CASE Adapt
  <2>1. /\ adapter' \in {None} \cup Context
        /\ Grounded(adapter', (StaleDecision + LateContract) + StaleContract, LateContract + StaleContract, now, decision, withdrawn)
    <3>1. Grounded(contract, StaleDecision + LateContract, LateContract, now, decision, withdrawn)
      BY DEF IInv
    <3>2. adapter' = Passed(contract, StaleContract)
      BY <1>6 DEF Adapt
    <3>3. StaleDecision + LateContract \in Nat /\ LateContract \in Nat /\ StaleContract \in Nat
      BY <1>1 DEF BoundsAreNat
    <3> QED
      BY <1>2, <3>1, <3>2, <3>3, PassedIsGrounded
  <2>2. (StaleDecision + LateContract) + StaleContract = StaleDecision + LateAdapter /\ LateContract + StaleContract = LateAdapter
    BY <1>1 DEF BoundsAreNat, LateBridge, LateContract, LateAdapter, LateRuntime
  <2> QED
    BY <1>6, <2>1, <2>2 DEF Adapt, IInv, TypeOK
<1>7. CASE \E form \in Handovers : Expose(form)
  <2>1. PICK form \in Handovers : Expose(form)
    BY <1>7
  <2>2. /\ runtime' \in {None} \cup Context
        /\ Grounded(runtime', StaleDecision + LateRuntime, LateRuntime, now, decision, withdrawn)
    <3>1. CASE form = "text"
      <4>1. Grounded(adapter, StaleDecision + LateAdapter, LateAdapter, now, decision, withdrawn)
        BY DEF IInv
      <4>2. runtime' = Passed(adapter, StaleAdapter)
        BY <2>1, <3>1 DEF Expose, RuntimeContext
      <4>3. StaleDecision + LateAdapter \in Nat /\ LateAdapter \in Nat /\ StaleAdapter \in Nat
        BY <1>1 DEF BoundsAreNat
      <4>4. /\ runtime' \in {None} \cup Context
            /\ Grounded(runtime', (StaleDecision + LateAdapter) + StaleAdapter,
                        LateAdapter + StaleAdapter, now, decision, withdrawn)
        BY <1>2, <4>1, <4>2, <4>3, PassedIsGrounded
      <4>5. /\ (StaleDecision + LateAdapter) + StaleAdapter = StaleDecision + LateRuntime
            /\ LateAdapter + StaleAdapter = LateRuntime
        BY <1>1 DEF BoundsAreNat, LateRuntime
      <4> QED
        BY <4>4, <4>5
    <3>2. CASE form # "text"
      BY <2>1, <3>2 DEF Expose, RuntimeContext, Grounded
    <3> QED
      BY <3>1, <3>2
  <2> QED
    BY <2>1, <2>2 DEF Expose, memory, IInv, TypeOK
<1> QED
  BY <1>3, <1>4, <1>5, <1>6, <1>7

\* A step of the decision engine or a restart: the decision and what it
\* withdraws change together.
LEMMA DecisionKeepsInvariant ==
  ASSUME IInv, Decide \/ Restart
  PROVE  IInv'
<1>1. BoundsAreNat /\ TypeOK
  BY BoundsType DEF BoundsAreNat, IInv
<1>2. /\ now' = now /\ runtime' = runtime
      /\ decision' \in {None} \cup Context
      /\ Withdraw(decision')
      /\ Grounded(decision', 0, 0, now, decision', withdrawn')
      /\ \/ UNCHANGED <<execution, bridge, contract, adapter>>
         \/ /\ execution' = None /\ bridge' = None /\ contract' = None /\ adapter' = None
  <2>1. CASE Decide
    <3>1. /\ Withdraw(decision')
          /\ UNCHANGED <<now, execution, bridge, contract, adapter, runtime>>
      BY <2>1, Zenon DEF Decide
    <3>2. decision' \in {None} \cup Context /\ Grounded(decision', 0, 0, now, decision', withdrawn')
      BY <2>1, DecidedIsGrounded
    <3> QED
      BY <3>1, <3>2
  <2>2. CASE Restart
    BY <2>2 DEF Restart, Grounded, Withdraw
  <2> QED
    BY <2>1, <2>2
<1>3. \A c, early : \A late \in Nat :
        Grounded(c, early, late, now, decision, withdrawn)
          => Grounded(c, early, late, now, decision', withdrawn')
  BY <1>1, <1>2, WithdrawnIsGrounded
<1>4. withdrawn' \in [Directions -> {None} \cup 0 .. MaxNow]
  BY <1>1, <1>2 DEF Withdraw, TypeOK
<1>5. /\ Grounded(execution, StaleDecision, 0, now, decision', withdrawn')
      /\ Grounded(bridge, StaleDecision + LateBridge, LateBridge, now, decision', withdrawn')
      /\ Grounded(contract, StaleDecision + LateContract, LateContract, now, decision', withdrawn')
      /\ Grounded(adapter, StaleDecision + LateAdapter, LateAdapter, now, decision', withdrawn')
      /\ Grounded(runtime, StaleDecision + LateRuntime, LateRuntime, now, decision', withdrawn')
  BY <1>1, <1>3 DEF IInv, BoundsAreNat
<1>6. \A early, late : Grounded(None, early, late, now, decision', withdrawn')
  BY DEF Grounded
<1>7. TypeOK'
  BY <1>1, <1>2, <1>4 DEF TypeOK
<1> QED
  BY <1>2, <1>5, <1>6, <1>7 DEF IInv

LEMMA ClockKeepsInvariant ==
  ASSUME IInv, Tick
  PROVE  IInv'
<1>1. /\ now \in Nat /\ now' \in Nat /\ now' >= now /\ now' \in 0 .. MaxNow
  BY BoundsType DEF BoundsAreNat, IInv, TypeOK, Tick
<1>2. UNCHANGED <<memory, runtime, withdrawn>>
  BY DEF Tick
<1>3. \A c, early, late :
        Grounded(c, early, late, now, decision, withdrawn)
          => Grounded(c, early, late, now', decision, withdrawn)
  BY <1>1, LaterIsGrounded
<1>4. TypeOK'
  BY <1>1, <1>2 DEF IInv, TypeOK, memory
<1> QED
  BY <1>2, <1>3, <1>4 DEF IInv, memory

LEMMA Invariant == Spec => []IInv
<1>1. IInv /\ [Next]_vars => IInv'
  <2> SUFFICES ASSUME IInv, [Next]_vars
               PROVE  IInv'
    OBVIOUS
  <2>1. CASE Next
    BY <2>1, ClockKeepsInvariant, DecisionKeepsInvariant, StageKeepsInvariant DEF Next
  <2>2. CASE UNCHANGED vars
    BY <2>2 DEF vars, memory, IInv, TypeOK, Grounded, Allows
  <2> QED
    BY <2>1, <2>2
<1> QED
  BY <1>1, InitInvariant, PTL DEF Spec

\* What the shell shows is what the file is grounded in.
ShownFromFile ==
  /\ now \in Nat /\ runtime.at \in Nat /\ runtime.origin.at \in Nat
  /\ now - runtime.at <= StaleRuntime
  /\ Supports(runtime.origin, Exposure)
  /\ runtime.at - runtime.origin.at <= StaleInput + (StaleDecision + LateRuntime)
  /\ ~Allows(decision, Exposure) =>
       withdrawn[Exposure] \in 0 .. now /\ runtime.at - withdrawn[Exposure] <= LateRuntime

LEMMA ShownIsGrounded ==
  ASSUME IInv, Exposure # "NONE"
  PROVE  ShownFromFile
<1>1. runtime # None /\ now - runtime.at <= StaleRuntime /\ Exposure = runtime.mode
  BY DEF Exposure, IsValidRuntime
<1>2. Grounded(runtime, StaleDecision + LateRuntime, LateRuntime, now, decision, withdrawn)
  BY DEF IInv
<1>3. runtime \in Context /\ now \in Nat
  BY <1>1, <1>2, BoundsType DEF BoundsAreNat, Grounded, IInv, TypeOK
<1>4. runtime.at \in Nat /\ runtime.origin.at \in Nat
  BY <1>3, BoundsType DEF BoundsAreNat, Context, Origin
<1> QED
  BY <1>1, <1>2, <1>3, <1>4 DEF Grounded, ShownFromFile

-----------------------------------------------------------------------------
\* Every context and the file have their shape, for every bound and every
\* market and universe.
THEOREM TypeCorrect == Spec => []TypeOK
<1>1. IInv => TypeOK
  BY DEF IInv
<1> QED
  BY <1>1, Invariant, PTL

\* Whatever the shell shows is supported by a market and a universe that are
\* no older than all bounds together.
THEOREM ExposureEarned == Spec => []ExposureIsEarned
<1>1. IInv => ExposureIsEarned
  <2> SUFFICES ASSUME IInv, Exposure # "NONE"
               PROVE  /\ Supports(runtime.origin, Exposure)
                      /\ now - runtime.origin.at <= StaleInput + StaleDecision + Slack
    BY DEF ExposureIsEarned
  <2>1. ShownFromFile
    BY ShownIsGrounded
  <2> QED
    BY <2>1, BoundsType DEF BoundsAreNat, ShownFromFile, Slack, LateRuntime, LateAdapter, LateContract, LateBridge
<1> QED
  BY <1>1, Invariant, PTL

\* A direction that the decision engine does not allow any more is shown no
\* longer than the bounds of the stages after the execution bridge.
THEOREM RevocationBounded == Spec => []RevocationIsBounded
<1>1. IInv => RevocationIsBounded
  <2> SUFFICES ASSUME IInv, Exposure # "NONE", ~Allows(decision, Exposure)
               PROVE  /\ withdrawn[Exposure] \in 0 .. now
                      /\ now - withdrawn[Exposure] <= Slack
    BY DEF RevocationIsBounded
  <2>1. ShownFromFile
    BY ShownIsGrounded
  <2> QED
    BY <2>1, BoundsType DEF BoundsAreNat, ShownFromFile, Slack, LateRuntime, LateAdapter, LateContract, LateBridge
<1> QED
  BY <1>1, Invariant, PTL
=============================================================================
