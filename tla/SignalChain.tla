---------------------------- MODULE SignalChain ----------------------------
(***************************************************************************)
(* From the decision to what a Freqtrade strategy may show: six packages    *)
(* (execution, freqtrade_bridge, strategy_contract, strategy_adapter,       *)
(* dry_run_strategy, freqtrade_shell) that each take the context of the one *)
(* before, refuse it when it is missing, blocked or too old, and stamp a    *)
(* context of their own.  The last one is a file, which the shell reads.    *)
(*                                                                          *)
(* A context is None when it is missing or blocked, else [at, mode, origin]:*)
(* its timestamp, the direction it allows and, known to the model only, the *)
(* market and universe it comes from and the older of their times.  Nothing *)
(* in the packages schedules them: a caller runs any stage at any time and  *)
(* gives it the last context of the stage before.                           *)
(*                                                                          *)
(* The safety flags are left out: every constructor refuses an unsafe one.  *)
(* So is a clock that is set back, which no age check notices.              *)
(***************************************************************************)
EXTENDS MarketState

CONSTANTS
  Markets, Universes,                          \* what may be measured
  StaleInput, StaleDecision, StaleExecution,   \* the bounds on the ages
  StaleBridge, StaleContract, StaleAdapter, StaleRuntime,
  MaxNow                                       \* bound of the clock

Market == [btc : {None} \cup [up : 0 .. 5, down : 0 .. 5],
           eth : {None} \cup 0 .. 3,
           breadth : {None} \cup [score : 0 .. 100, above : 0 .. 100, advancing : 0 .. 100]]

Universe == [btc : BOOLEAN, symbols : Nat, counts : [Measures -> Nat]]

ASSUME SignalAssumption ==
  /\ Markets \subseteq Market
  /\ Universes \subseteq Universe
  /\ None \notin Market \cup Universe
  /\ {StaleInput, StaleDecision, StaleExecution, StaleBridge, StaleContract,
      StaleAdapter, StaleRuntime, MaxNow} \subseteq Nat

VARIABLES
  now,
  decision, execution, bridge, contract, adapter,   \* the last context of each stage
  runtime,                                          \* the runtime file
  withdrawn    \* history: when a decision last ceased to allow a direction

memory == <<decision, execution, bridge, contract, adapter>>
vars == <<now, memory, runtime, withdrawn>>

-----------------------------------------------------------------------------
Directions == {"LONG", "SHORT"}

Origin == [market : Markets, universe : Universes, at : 0 .. MaxNow]
Context == [at : 0 .. MaxNow, mode : Directions, origin : Origin]

\* What classify_regime and calculate_breadth may put out; an output that is
\* missing is None.
Regime(m) == IF m = None THEN None ELSE ClassifyRegime(m)
BreadthsOf(u) == IF u = None THEN {None} ELSE Breadths(u)

Outputs ==
  UNION {{[market |-> m, universe |-> u, regime |-> Regime(m), breadth |-> b] : b \in BreadthsOf(u)} :
         m \in Markets \cup {None}, u \in Universes \cup {None}}

\* What make_decision makes of them, when the older of the two is fresh and
\* when it is not: None, or a direction for a market and a universe.
Verdict(o, fresh) ==
  LET mode == Permission(DecisionReason(o.regime, o.breadth, fresh))
  IN IF mode = "NONE" THEN None
     ELSE [market |-> o.market, universe |-> o.universe, mode |-> mode]

Verdicts == [fresh \in BOOLEAN |-> {Verdict(o, fresh) : o \in Outputs}]

\* Mutant: a stage stamps the end of the tick it runs in.
PassedAhead(c, bound) ==
  IF c # None /\ now - c.at <= bound THEN [c EXCEPT !.at = now + 1] ELSE None

\* Mutant: a stage does not look at the age.
PassedUnchecked(c, bound) ==
  IF c # None THEN [c EXCEPT !.at = now] ELSE None

\* Every stage: what is missing, blocked or too old is blocked; the rest is
\* stamped anew.
Passed(c, bound) ==
  IF c # None /\ now - c.at <= bound THEN [c EXCEPT !.at = now] ELSE None

Allows(c, d) == c # None /\ c.mode = d

\* The directions the new decision does not allow any more.
Withdraw(new) ==
  withdrawn' = [d \in Directions |->
                  IF Allows(decision, d) /\ ~Allows(new, d) THEN now ELSE withdrawn[d]]

-----------------------------------------------------------------------------
Init ==
  /\ now = 0
  /\ decision = None /\ execution = None /\ bridge = None
  /\ contract = None /\ adapter = None /\ runtime = None
  /\ withdrawn = [d \in Directions |-> None]

Tick ==
  /\ now < MaxNow
  /\ now' = now + 1
  /\ UNCHANGED <<memory, runtime, withdrawn>>

\* make_decision, of outputs of which the older is of any time until now.
Decide ==
  \E at \in 0 .. now : \E v \in Verdicts[now - at <= StaleInput] :
    /\ decision' =
         IF v = None THEN None
         ELSE [at |-> now, mode |-> v.mode,
               origin |-> [market |-> v.market, universe |-> v.universe, at |-> at]]
    /\ Withdraw(decision')
    /\ UNCHANGED <<now, execution, bridge, contract, adapter, runtime>>

\* build_execution_context
Execute ==
  /\ execution' = Passed(decision, StaleDecision)
  /\ UNCHANGED <<now, decision, bridge, contract, adapter, runtime, withdrawn>>

\* build_freqtrade_bridge_context
Bridge ==
  /\ bridge' = Passed(execution, StaleExecution)
  /\ UNCHANGED <<now, decision, execution, contract, adapter, runtime, withdrawn>>

\* build_strategy_context
Contract ==
  /\ contract' = Passed(bridge, StaleBridge)
  /\ UNCHANGED <<now, decision, execution, bridge, adapter, runtime, withdrawn>>

\* build_adapter_decision_context
Adapt ==
  /\ adapter' = Passed(contract, StaleContract)
  /\ UNCHANGED <<now, decision, execution, bridge, contract, runtime, withdrawn>>

\* build_dry_run_strategy_runtime_context compares str(adapter_state) with the
\* name of the state.  The adapter's own context holds an enumeration, whose
\* str() is another, and is blocked; one whose states a caller has turned into
\* text is looked at.
Handovers == {"own", "text"}
RuntimeContext(form) == IF form = "text" THEN Passed(adapter, StaleAdapter) ELSE None

\* write_dry_run_strategy_runtime_context: a blocked context is written as any
\* other, in the place of the file before.
Expose(form) ==
  /\ runtime' = RuntimeContext(form)
  /\ UNCHANGED <<now, memory, withdrawn>>

\* The process ends: the file stays.
Restart ==
  /\ decision' = None /\ execution' = None /\ bridge' = None
  /\ contract' = None /\ adapter' = None
  /\ Withdraw(None)
  /\ UNCHANGED <<now, runtime>>

Next ==
  \/ Tick
  \/ Decide
  \/ Execute
  \/ Bridge
  \/ Contract
  \/ Adapt
  \/ \E form \in Handovers : Expose(form)
  \/ Restart

Spec == Init /\ [][Next]_vars

-----------------------------------------------------------------------------
\* validate_runtime_payload, of the file as it is.
IsValidRuntime == runtime # None /\ now - runtime.at <= StaleRuntime

\* determine_research_signal
Exposure == IF IsValidRuntime THEN runtime.mode ELSE "NONE"

-----------------------------------------------------------------------------
(***************************************************************************)
(* Properties.                                                              *)
(***************************************************************************)
\* Every context in memory and in the file has the shape its models give it,
\* and was stamped at a time that has come.
TypeOK ==
  /\ now \in 0 .. MaxNow
  /\ \A c \in {decision, execution, bridge, contract, adapter, runtime} :
       c \in {None} \cup Context
  /\ withdrawn \in [Directions -> {None} \cup 0 .. MaxNow]

\* What must have been measured for a direction, counted without rounding: a
\* trend that the majority of BTC's conditions shows and nothing confirms
\* weakly, and a breadth on its side of the thresholds.
NotWeaklyConfirmed(m) == Confirmation(m) = 0 \/ Confirmation(m) >= 60

Supports(o, d) ==
  LET m == o.market
      u == o.universe
  IN /\ m.btc # None /\ NotWeaklyConfirmed(m)
     /\ u.btc /\ u.symbols >= MinSymbols
     /\ \/ /\ d = "LONG"
           /\ m.btc.up >= m.btc.down /\ 20 * m.btc.up >= BullScore
           /\ Weighted(u) >= MinLong * u.symbols /\ Weighted(u) >= 50 * u.symbols
        \/ /\ d = "SHORT"
           /\ m.btc.down > m.btc.up /\ 20 * m.btc.down >= BearScore
           /\ Weighted(u) <= (MaxShort + 1) * u.symbols
           /\ Weighted(u) <= 51 * u.symbols

\* The ages of a chain in which every stage takes its input at the last moment.
Slack == StaleExecution + StaleBridge + StaleContract + StaleAdapter + StaleRuntime

\* The strategy shows a direction only while a market and a universe that
\* support it are no older than the bounds of all stages together: no mixture
\* of old and new contexts, repeated stages and restarts invents or keeps one.
ExposureIsEarned ==
  Exposure # "NONE" =>
    /\ Supports(runtime.origin, Exposure)
    /\ now - runtime.origin.at <= StaleInput + StaleDecision + Slack

\* Nothing tells the later stages that a decision has been withdrawn: only the
\* ages end what they show, at the latest after the bounds of the stages that
\* follow the execution bridge.
RevocationIsBounded ==
  LET d == Exposure
  IN d # "NONE" /\ ~Allows(decision, d) =>
       withdrawn[d] \in 0 .. now /\ now - withdrawn[d] <= Slack

=============================================================================
