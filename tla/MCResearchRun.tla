--------------------------- MODULE MCResearchRun ---------------------------
(* Instances of ResearchRun for TLC. *)
EXTENDS ResearchRun

\* The names in their order: ADA/USDT, ADA_USDT, BTC/USDT, BTC_USDT, XRP,
\* btc/usdt, btc_usdt.
MCNormal == [p \in 1 .. 7 |-> CASE p = 6 -> 3 [] p = 7 -> 4 [] OTHER -> p]
MCUnderscored == [p \in 1 .. 7 |-> CASE p = 1 -> 2 [] p = 3 -> 4 [] p = 6 -> 7 [] OTHER -> p]
MCCoin == [p \in 1 .. 7 |-> CASE p \in {1, 2} -> 1 [] p = 5 -> None [] OTHER -> 3]

-----------------------------------------------------------------------------
\* Items of a discovery.
Context(st, score, lean) == [state |-> st, score |-> score, lean |-> lean]
Strong  == Context("ready", 90, {"for"})
Plain   == Context("ready", 65, {})
Against == Context("ready", 70, {"against"})
Odd     == Context("other", 90, {"for"})
Thin    == Context("insufficient", 90, {"for"})
Barred  == Context("blocked", 90, {"for"})

Item(p, rs, oi) == [pair |-> p, flagged |-> {}, rs |-> rs, oi |-> oi, tags |-> {}]
Flagged(item, packages) == [item EXCEPT !.flagged = packages]
Tagged(item) == [item EXCEPT !.tags = {"t"}]

Ada == Item(1, Strong, Strong)
Btc == Item(3, Strong, Strong)
Xrp == Item(5, Strong, Plain)
AdaAs2 == Item(2, Strong, Strong)

\* An item alone, or with one other.
Pool1 == { Ada, Item(1, Plain, Plain), Item(1, Odd, Strong), Item(1, Strong, Against),
           Item(1, Thin, Strong), Item(1, Barred, Strong), Item(1, None, Strong),
           Item(1, Odd, Odd), Xrp, AdaAs2, Item(2, Odd, Odd), Item(6, Strong, Plain), Flagged(Ada, {"discovery"}),
           Flagged(Ada, {"portfolio"}),
           Flagged(Ada, {"portfolio", "universe"}), Tagged(Ada) }
Pool2 == {Tagged(Btc), AdaAs2, Item(3, Odd, Strong), Item(7, Plain, Strong)}
ItemLists == {<<i>> : i \in Pool1} \cup {<<i, j>> \in Pool1 \X Pool2 : i.pair # j.pair}
  \cup {<< >>, <<Ada, Item(2, Odd, Odd), Btc>>, <<Ada, Item(2, Odd, Strong), Btc>>,
        <<Ada, Btc, Xrp>>}

DiscoveryDefaults ==
  [needStrength |-> TRUE, needInterest |-> TRUE, blockMissing |-> FALSE,
   keepExcluded |-> TRUE, minStrength |-> 60, minInterest |-> 50,
   moderate |-> 60, watchlist |-> 45]
DiscoveryConfigs == {DiscoveryDefaults,
  [DiscoveryDefaults EXCEPT !.needStrength = FALSE, !.needInterest = FALSE],
  [DiscoveryDefaults EXCEPT !.blockMissing = TRUE],
  [DiscoveryDefaults EXCEPT !.watchlist = 30],
  [DiscoveryDefaults EXCEPT !.keepExcluded = FALSE]}

-----------------------------------------------------------------------------
\* Inputs of a portfolio, for the plans that hand them over.
Classed(p, class, st, score) ==
  [pair |-> p, place |-> 0, flagged |-> {}, tags |-> {},
   discovery |-> [class |-> class, state |-> st, score |-> score]]
Input(p, st, score) ==
  Classed(p, IF st \in {"CANDIDATE", "WATCHLIST"} THEN st ELSE "OTHER", st, 100 * score)
InOrder(inputs) == [i \in DOMAIN inputs |-> [inputs[i] EXCEPT !.place = i]]

\* Equal candidates, and candidates whose capped excess takes two rounds;
\* states and classifications that disagree, or are unknown; pairs that are
\* listed twice, with scores of their own, with tags, and with an entry that
\* may not be in.
InputLists == {InOrder(inputs) : inputs \in {
  <<Input(1, "CANDIDATE", 80), Input(3, "CANDIDATE", 80), Input(5, "CANDIDATE", 80)>>,
  <<Input(1, "CANDIDATE", 100), Input(3, "CANDIDATE", 60),
    Input(5, "CANDIDATE", 40), Input(6, "WATCHLIST", 60)>>,
  <<Input(1, "CANDIDATE", 80), Input(3, "WATCHLIST", 50)>>,
  <<[Input(1, "CANDIDATE", 80) EXCEPT !.discovery = None]>>,
  <<Classed(1, "CANDIDATE", "OTHER", 9000), Classed(3, "CANDIDATE", "WATCHLIST", 5000),
    Classed(5, "CANDIDATE", "EXCLUDED", 9000), Classed(6, "OTHER", "OTHER", 9000)>>,
  <<Classed(1, "WATCHLIST", "OTHER", 9000), Classed(3, "CANDIDATE", "CANDIDATE", None)>>,
  <<Input(1, "CANDIDATE", 82), Input(1, "CANDIDATE", 100)>>,
  <<Input(3, "CANDIDATE", 90), Input(1, "CANDIDATE", 70),
    [Input(3, "CANDIDATE", 80) EXCEPT !.flagged = {"portfolio"}],
    Input(1, "INSUFFICIENT_DATA", 90)>>,
  <<Tagged(Input(1, "CANDIDATE", 80)), Input(1, "CANDIDATE", 90), Tagged(Input(3, "CANDIDATE", 80))>> }}

PortfolioDefaults ==
  [maxCount |-> 10, maxSingle |-> 20, budget |-> 100, watchlist |-> 45, satellite |-> 60,
   minScore |-> 60, needDiscovery |-> TRUE, blockMissing |-> FALSE, blockBlocked |-> TRUE,
   blockShared |-> FALSE, keepExcluded |-> TRUE,
   weights |-> [discovery |-> 45, quality |-> 15, diversification |-> 15, cap |-> 15, bonus |-> 10]]
PortfolioConfigs == {PortfolioDefaults,
  [PortfolioDefaults EXCEPT !.maxCount = 1],
  [PortfolioDefaults EXCEPT !.watchlist = 10, !.satellite = 15],
  [PortfolioDefaults EXCEPT !.maxSingle = 27],
  [PortfolioDefaults EXCEPT !.maxSingle = 100],
  [PortfolioDefaults EXCEPT !.weights = [discovery |-> 2, quality |-> 1, diversification |-> 14,
                                         cap |-> 2, bonus |-> 1]],
  [PortfolioDefaults EXCEPT !.maxSingle = 60, !.budget = 50],
  [PortfolioDefaults EXCEPT !.maxCount = 1, !.keepExcluded = FALSE],
  [PortfolioDefaults EXCEPT !.needDiscovery = FALSE, !.blockMissing = TRUE],
  [PortfolioDefaults EXCEPT !.blockShared = TRUE, !.blockBlocked = FALSE]}

-----------------------------------------------------------------------------
\* SHORT_ONLY is itself on the run's term list.
Allowed ==
  [valid |-> TRUE, state |-> "ENABLED", mode |-> "LONG_RESEARCH_ONLY",
   allowed |-> "LONG_ONLY", fresh |-> TRUE, clean |-> TRUE]
Executions == {None, Allowed,
  [Allowed EXCEPT !.state = "DRY_RUN_ONLY"], [Allowed EXCEPT !.state = "BLOCKED"],
  [Allowed EXCEPT !.state = "UNKNOWN"], [Allowed EXCEPT !.valid = FALSE],
  [Allowed EXCEPT !.mode = "BLOCK_ALL"], [Allowed EXCEPT !.allowed = "NONE"],
  [Allowed EXCEPT !.allowed = "SHORT_ONLY", !.clean = FALSE], [Allowed EXCEPT !.fresh = FALSE],
  [Allowed EXCEPT !.clean = FALSE]}

UniverseDefaults == [maxUniverse |-> None, minScore |-> None]
UniverseConfigs == {UniverseDefaults, [maxUniverse |-> 1, minScore |-> None],
                    [maxUniverse |-> None, minScore |-> 90]}

-----------------------------------------------------------------------------
\* Steps and plans.
Step(kind, id, inline, config) ==
  [kind |-> kind, id |-> id, inline |-> inline, clean |-> TRUE, byId |-> None,
   byIndex |-> None, config |-> config, exec |-> None, execById |-> None]

Discover(items, config) == Step("DISCOVERY", "d", items, config)
Construct(config) == [Step("PORTFOLIO", "p", None, config) EXCEPT !.byIndex = 1]
Control(exec, config) ==
  [Step("UNIVERSE", "u", None, config) EXCEPT !.byIndex = 2, !.exec = exec]

\* The plan of build_coin_discovery_run_plan.
Pipeline(items, dc, pc, exec, uc) == <<Discover(items, dc), Construct(pc), Control(exec, uc)>>

Slash == [underscore |-> FALSE, withWatchlist |-> FALSE]
Exports == [underscore : BOOLEAN, withWatchlist : BOOLEAN]

Request(plan, failFast, writes, out) ==
  [steps |-> plan, failFast |-> failFast, writes |-> writes, export |-> out]

\* The pipeline, with one thing changed at a time.
ByItems == {Request(Pipeline(items, dc, PortfolioDefaults, Allowed, UniverseDefaults),
                    TRUE, FALSE, out) :
              items \in ItemLists, dc \in DiscoveryConfigs, out \in Exports}
ByPortfolio == {Request(Pipeline(items, DiscoveryDefaults, pc, Allowed, uc),
                        TRUE, FALSE, Slash) :
                  items \in ItemLists, pc \in PortfolioConfigs, uc \in UniverseConfigs}
ByExecution == {Request(Pipeline(<<Ada, Btc>>, DiscoveryDefaults, PortfolioDefaults, exec,
                                 UniverseDefaults), failFast, writes, out) :
                  exec \in Executions, failFast \in BOOLEAN, writes \in BOOLEAN,
                  out \in {None, Slash}}
ByInputs == {Request(<<Discover(<<Ada>>, DiscoveryDefaults),
                       [Construct(pc) EXCEPT !.inline = inputs],
                       Control(Allowed, uc)>>, TRUE, FALSE, out) :
               inputs \in InputLists, pc \in PortfolioConfigs, uc \in UniverseConfigs,
               out \in {Slash, [underscore |-> TRUE, withWatchlist |-> TRUE]}}

\* Plans of other shapes.
D == Discover(<<Ada, Btc>>, DiscoveryDefaults)
DEmpty == Discover(<< >>, DiscoveryDefaults)
P == [Construct(PortfolioDefaults) EXCEPT !.byIndex = None]
PSmall == [P EXCEPT !.inline = InOrder(<<Input(1, "CANDIDATE", 80)>>)]
PNone == [P EXCEPT !.inline = << >>]
U == [Control(Allowed, UniverseDefaults) EXCEPT !.byIndex = None]
Given1 == InOrder(<<Input(3, "CANDIDATE", 80)>>)
\* Made by a caller: a report of the engine has text on the run's term list.
Report(stale) ==
  [PortfolioReport(Given1, Scores(Given1, PortfolioDefaults), PortfolioDefaults)
     EXCEPT !.stale = stale]
Backtest == Step("OTHER", "b", [state |-> "SUCCESS", reason |-> "OK",
                                report |-> [kind |-> "OTHER", stale |-> FALSE]], None)
Sample == Step("OTHER", None, [state |-> "FAILED", reason |-> "EXIT", report |-> NoReport], None)

References == {U, [U EXCEPT !.byId = "p"], [U EXCEPT !.byIndex = 2],
  [U EXCEPT !.byIndex = 1], [U EXCEPT !.byId = "p", !.byIndex = 2],
  [U EXCEPT !.byId = "p", !.byIndex = 1], [U EXCEPT !.byId = "d"], [U EXCEPT !.byId = "z"],
  [U EXCEPT !.exec = None, !.execById = "p"], [U EXCEPT !.inline = Report(FALSE)],
  [U EXCEPT !.inline = [Report(FALSE) EXCEPT !.scores[1].flagged = {"portfolio", "universe"}]],
  [U EXCEPT !.inline = Report(TRUE)], [U EXCEPT !.inline = Report(FALSE), !.clean = FALSE]}
Shapes ==
  {<< >>, <<D>>, <<U>>, <<P, U>>, <<Sample>>, <<Sample, Sample>>, <<Backtest, D, P, U>>,
   <<D, P, Backtest, [U EXCEPT !.byId = "b"]>>, <<DEmpty, D, P, U>>, <<D, P, PNone, U>>,
   <<D, P, PSmall, U>>, <<D, P, PNone, [U EXCEPT !.byId = "p"]>>,
   <<D, P, [U EXCEPT !.exec = None], U>>, <<D, P, U, Sample>>,
   <<D, [P EXCEPT !.byId = "d"], U>>, <<D, [P EXCEPT !.byIndex = 2], U>>}
  \cup {<<D, P, u>> : u \in References}
ByShape == {Request(plan, failFast, FALSE, out) :
              plan \in Shapes, failFast \in BOOLEAN, out \in {None, Slash}}
  \cup {Request(plan, failFast, TRUE, Slash) : plan \in Shapes, failFast \in BOOLEAN}

MCRequests == ByItems \cup ByPortfolio \cup ByExecution \cup ByInputs \cup ByShape
=============================================================================
