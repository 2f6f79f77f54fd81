---------------------------- MODULE ResearchRun ----------------------------
(***************************************************************************)
(* One run of a research plan (hunter/run_orchestrator) and what follows    *)
(* it: the steps in order, each fed by the results of earlier ones and      *)
(* writing its report as three files, then the export and the packet        *)
(* (hunter/coin_discovery_pipeline).                                        *)
(*                                                                          *)
(* A step is [kind, id, inline, clean, byId, byIndex, config, exec,         *)
(* execById].  "inline" is what the plan itself gives the step: items for a *)
(* DISCOVERY, inputs for a PORTFOLIO, a report for a UNIVERSE, an outcome   *)
(* for any other kind ("OTHER"); "clean" is whether its text passes the     *)
(* run's term list.  "byId" and "byIndex" refer to an earlier step, and so  *)
(* does "execById" for the execution context.                               *)
(***************************************************************************)
EXTENDS UniverseExport, Sequences

CONSTANTS
  Requests       \* [steps, failFast, writes, export]: what a caller may ask for

VARIABLES
  request,       \* the request of this run
  results,       \* the results of the steps taken so far
  files,         \* the files written: <<step, part>>
  state,         \* the state of the run, None while it runs
  export,        \* the export, None until there is one
  packet         \* the packet, None until there is one

StepKinds == {"DISCOVERY", "PORTFOLIO", "UNIVERSE", "OTHER"}

\* What the constructors of a step and of its inline inputs accept.
IsInline(step) ==
  CASE step.kind = "DISCOVERY" ->
         /\ step.inline \in Seq(Range(step.inline))
         /\ \A item \in Range(step.inline) : IsItem(item)
    [] step.kind = "PORTFOLIO" ->
         step.inline # None => /\ step.inline \in Seq(Range(step.inline))
                               /\ \A i \in DOMAIN step.inline :
                                    IsPortfolioInput(step.inline[i]) /\ step.inline[i].place = i
    [] step.kind = "UNIVERSE" -> step.inline # None => IsPortfolioReport(step.inline)
    [] step.kind = "OTHER" ->
         /\ step.inline.state \in {"SUCCESS", "BLOCKED", "FAILED"}
         /\ step.inline.report.kind \in {"NONE", "OTHER"}
         /\ step.inline.state = "SUCCESS" => step.inline.report.kind = "OTHER"

IsStep(step) ==
  /\ step.kind \in StepKinds
  /\ IsInline(step)
  /\ step.kind = "PORTFOLIO" => IsPortfolioConfig(step.config)
  /\ IsExecution(step.exec)

ASSUME RequestsAssumption ==
  \A r \in Requests : r.steps \in Seq(Range(r.steps)) /\ \A step \in Range(r.steps) : IsStep(step)

vars == <<request, results, files, state, export, packet>>

steps == request.steps
Parts == 1 .. 3
\* Mutant: the files of a step go under the one before it.
WrittenBefore(i) == {i - 1} \X Parts

Written(i) == {i} \X Parts

Init ==
  /\ request \in Requests
  /\ results = << >>
  /\ files = {}
  /\ state = None
  /\ export = None
  /\ packet = None

-----------------------------------------------------------------------------
(***************************************************************************)
(* Where a step's report comes from: _resolve_portfolio_construction_inputs *)
(* and _resolve_controlled_universe_inputs read the same references.        *)
(***************************************************************************)
Numbered(id, n) == {i \in 1 .. n : id # None /\ steps[i].id = id}

\* The last earlier step with that id, as a set of at most one.
LastOf(S) == {i \in S : \A j \in S : j <= i}

\* Mutant: the step before a successful one is taken.
NearestSuccessOff(kind, n) ==
  {i \in 1 .. n : i + 1 \in LastOf({j \in 1 .. n : /\ steps[j].kind = kind
                                                   /\ results[j].state = "SUCCESS"})}

NearestSuccess(kind, n) ==
  LastOf({i \in 1 .. n : steps[i].kind = kind /\ results[i].state = "SUCCESS"})

\* The steps a reference of step n + 1 resolves to.
Source(step, kind, n) ==
  LET named == LastOf(Numbered(step.byId, n))
  IN CASE step.byId # None /\ step.byIndex # None -> named \cap {step.byIndex}
       [] step.byId # None /\ step.byIndex = None -> named
       [] step.byId = None /\ step.byIndex # None -> {step.byIndex} \cap 1 .. n
       [] OTHER -> NearestSuccess(kind, n)

ReportFrom(S) ==
  IF S = {} THEN NoReport ELSE results[CHOOSE i \in S : TRUE].report
-----------------------------------------------------------------------------
(***************************************************************************)
(* What the engine of a step makes of its inputs: an outcome [state,        *)
(* reason, report], before anything is written.                             *)
(***************************************************************************)
Made(report) == [state |-> "SUCCESS", reason |-> "OK", report |-> report]
Refused(reason) == [state |-> "BLOCKED", reason |-> reason, report |-> NoReport]
Failed(reason) == [state |-> "FAILED", reason |-> reason, report |-> NoReport]

DiscoveryOutcome(step) ==
  IF step.inline = << >> THEN Refused("INVALID_STEP_INPUTS")
  ELSE Made(DiscoveryReport(step.inline, step.config))

\* _convert_discovery_candidate_to_portfolio_input: discovery classifies by
\* the state it gives.
FromCandidate(c, place) ==
  [pair |-> c.pair, place |-> place, flagged |-> c.flagged, tags |-> c.tags,
   discovery |-> [class |-> IF c.state \in {"CANDIDATE", "WATCHLIST"} THEN c.state ELSE "OTHER",
                  state |-> c.state, score |-> c.score]]

\* Only a discovery report has candidates.
PortfolioInputs(step, n) ==
  LET report == ReportFrom(Source(step, "DISCOVERY", n))
  IN CASE step.inline # None -> step.inline
       [] step.inline = None /\ report.kind = "DISCOVERY" ->
            [i \in DOMAIN report.candidates |->
               FromCandidate(report.candidates[i], Place(report.candidates, i))]
       [] OTHER -> << >>

PortfolioOutcome(step, n) ==
  LET inputs == PortfolioInputs(step, n)
      scores == Scores(inputs, step.config)
  IN IF DOMAIN inputs = {} THEN Refused("INVALID_STEP_INPUTS")
     ELSE IF ReportRefused(scores, step.config) THEN Failed("ENGINE")
     ELSE Made(PortfolioReport(inputs, scores, step.config))

\* The codes of a universe report that block a step (the engine's other two
\* reasons make the report unsafe).
BlockingReasons == {"MISSING_EXECUTION_CONTEXT", "EXECUTION_BLOCKED", "MACRO_MODE_NONE",
                    "INVALID_PORTFOLIO_SUMMARY"}

\* No step's data holds an execution context: a reference to one finds none.
UniverseOutcome(step, n) ==
  LET given == IF step.inline # None THEN step.inline
               ELSE ReportFrom(Source(step, "PORTFOLIO", n))
      stale == given.stale \/ (step.exec # None /\ ~step.exec.fresh)
      made == UniverseReport(given, step.exec, step.config)
  IN IF given = NoReport THEN Refused("MISSING_PORTFOLIO_CONTEXT")
     ELSE IF stale THEN Refused("STALE_INPUT")
     ELSE IF given.kind # "PORTFOLIO" THEN Failed("ENGINE")
     ELSE IF made.safe /\ made.reason \notin BlockingReasons THEN Made(made)
     ELSE [state |-> "BLOCKED", reason |-> made.reason, report |-> made]

Outcome(step, n) ==
  CASE step.kind = "DISCOVERY" -> DiscoveryOutcome(step)
    [] step.kind = "PORTFOLIO" -> PortfolioOutcome(step, n)
    [] step.kind = "UNIVERSE"  -> UniverseOutcome(step, n)
    [] OTHER                   -> step.inline

Result(outcome, paths) ==
  [state |-> outcome.state, reason |-> outcome.reason,
   report |-> outcome.report, paths |-> paths]

-----------------------------------------------------------------------------
PlanIsSound ==
  /\ steps # << >>
  /\ \A i \in DOMAIN steps : steps[i].clean /\ (steps[i].exec # None => steps[i].exec.clean)

Done == Len(results)

\* Mutant: steps are skipped after a failure, but not after a refusal.
StoppedByFailureOnly ==
  request.failFast /\ \E i \in 1 .. Done : results[i].state = "FAILED"

Stopped ==
  request.failFast /\ \E i \in 1 .. Done : results[i].state \in {"FAILED", "BLOCKED"}

Running == state = None /\ PlanIsSound /\ Done < Len(steps)

Next1 == steps[Done + 1]

\* _validate_plan: a plan that is empty, or has forbidden text, is refused
\* before its first step.
RefusePlan ==
  /\ state = None
  /\ ~PlanIsSound
  /\ state' = "BLOCKED"
  /\ UNCHANGED <<request, results, files, export, packet>>

Skip ==
  /\ Running
  /\ Stopped
  /\ results' = Append(results, Result([state |-> "SKIPPED", reason |-> "STEP_SKIPPED",
                                        report |-> NoReport], {}))
  /\ UNCHANGED <<request, files, state, export, packet>>

\* A step that makes no report, or whose run writes none.
StepUnwritten ==
  /\ Running
  /\ ~Stopped
  /\ \E outcome \in {Outcome(Next1, Done)} :
       /\ outcome.report = NoReport \/ ~request.writes
       /\ results' = Append(results, Result(outcome, {}))
  /\ UNCHANGED <<request, files, state, export, packet>>

\* A report is written whether or not it blocks the step.
StepWritten ==
  /\ Running
  /\ ~Stopped
  /\ request.writes
  /\ \E outcome \in {Outcome(Next1, Done)} :
       /\ outcome.report # NoReport
       /\ results' = Append(results, Result(outcome, Written(Done + 1)))
  /\ files' = files \cup Written(Done + 1)
  /\ UNCHANGED <<request, state, export, packet>>

\* Mutant: the first path is kept though the step has failed.
FirstPathKept(i) == {<<i, 1>>}

\* _step_failed: no data, no paths.
FailedPaths(i) == {}

\* A write raises after k of the three files: they stay, the report is lost.
WriteFails ==
  /\ Running
  /\ ~Stopped
  /\ request.writes
  /\ Outcome(Next1, Done).report # NoReport
  /\ \E k \in 0 .. 2 : files' = files \cup ({Done + 1} \X (1 .. k))
  /\ results' = Append(results, Result(Failed("WRITE"), FailedPaths(Done + 1)))
  /\ UNCHANGED <<request, state, export, packet>>

-----------------------------------------------------------------------------
StepStates == {results[i].state : i \in 1 .. Done}

RunState ==
  CASE StepStates = {"SUCCESS"}                -> "COMPLETED"
    [] StepStates = {"FAILED"}                 -> "FAILED"
    [] StepStates \subseteq {"BLOCKED", "SKIPPED"} -> "BLOCKED"
    [] OTHER                                   -> "PARTIAL"

Finish ==
  /\ state = None
  /\ PlanIsSound
  /\ Done = Len(steps)
  /\ state' = RunState
  /\ UNCHANGED <<request, results, files, export, packet>>

\* The first UNIVERSE step, as a set of at most one.
FirstUniverse ==
  {i \in 1 .. Done : /\ steps[i].kind = "UNIVERSE"
                     /\ \A j \in 1 .. i - 1 : steps[j].kind # "UNIVERSE"}

\* run_coin_discovery_pipeline: whatever became of the run, it is exported.
Export ==
  /\ state # None
  /\ export = None
  /\ request.export # None
  /\ \E report \in {ReportFrom(FirstUniverse)} :
       export' = ExportOfRun(state, report, request.export)
  /\ UNCHANGED <<request, results, files, state, packet>>

Adapt(stale) ==
  /\ export # None
  /\ packet = None
  /\ packet' = Packet(export, stale)
  /\ UNCHANGED <<request, results, files, state, export>>

\* The caller has its answer.
Answered ==
  /\ state # None
  /\ request.export = None \/ packet # None
  /\ UNCHANGED vars

Next ==
  \/ RefusePlan
  \/ Skip
  \/ StepUnwritten
  \/ StepWritten
  \/ WriteFails
  \/ Finish
  \/ Export
  \/ \E stale \in BOOLEAN : Adapt(stale)
  \/ Answered

Spec == Init /\ [][Next]_vars

-----------------------------------------------------------------------------
(***************************************************************************)
(* validate_run_plan_dependencies: what a caller may ask before a run.      *)
(***************************************************************************)
IdNumbers(id) == LastOf({i \in DOMAIN steps : id # None /\ steps[i].id = id})

ReferenceAccepted(step, i) ==
  LET named == IdNumbers(step.byId)
  IN CASE step.inline # None -> TRUE
       [] step.inline = None /\ step.byId # None ->
            \E j \in named : /\ j < i
                             /\ step.byIndex # None => step.byIndex = j
                             /\ steps[j].kind = "PORTFOLIO"
       [] step.inline = None /\ step.byId = None /\ step.byIndex # None ->
            /\ step.byIndex \in 1 .. i - 1
            /\ steps[step.byIndex].kind = "PORTFOLIO"
       [] OTHER -> \E j \in 1 .. i - 1 : steps[j].kind = "PORTFOLIO"

PlanAccepted ==
  \A i \in DOMAIN steps : steps[i].kind = "UNIVERSE" =>
    /\ ReferenceAccepted(steps[i], i)
    /\ steps[i].exec = None /\ steps[i].execById # None =>
         \E j \in IdNumbers(steps[i].execById) : j < i

-----------------------------------------------------------------------------
(***************************************************************************)
(* Type correctness.                                                        *)
(***************************************************************************)
TypeOK ==
  /\ Done <= Len(steps)
  /\ \A i \in 1 .. Done :
       /\ results[i].state \in {"SUCCESS", "BLOCKED", "FAILED", "SKIPPED"}
       /\ results[i].paths \in {{}, Written(i)}
       /\ results[i].state = "SUCCESS" => results[i].report # NoReport
  /\ files \subseteq (1 .. Done) \X Parts
  /\ state \in {None, "COMPLETED", "FAILED", "BLOCKED", "PARTIAL"}

(***************************************************************************)
(* The artifacts a run lists are the files it wrote: each listed file is    *)
(* there, and a file that is not listed is what a failed write left.        *)
(***************************************************************************)
Artifacts == UNION {results[i].paths : i \in 1 .. Done}

ArtifactsAreWritten ==
  /\ Artifacts \subseteq files
  /\ \A f \in files \ Artifacts : results[f[1]].reason = "WRITE"

(***************************************************************************)
(* With fail_fast nothing follows a step that failed or was refused: later  *)
(* steps are skipped, and leave no report and no file.                      *)
(***************************************************************************)
NothingAfterFailure ==
  request.failFast =>
    \A i, j \in 1 .. Done :
      i < j /\ results[i].state \in {"FAILED", "BLOCKED"} =>
        /\ results[j].state = "SKIPPED"
        /\ results[j].report = NoReport
        /\ {j} \X Parts \cap files = {}

(***************************************************************************)
(* A plan whose dependencies were found sound is not let down by them: its  *)
(* universe steps lack a portfolio only if no portfolio step they could     *)
(* have used succeeded, and are never given a report of another kind.       *)
(***************************************************************************)
AcceptedPlansResolve ==
  PlanAccepted =>
    \A i \in 1 .. Done : steps[i].kind = "UNIVERSE" =>
      /\ results[i].reason # "ENGINE"
      /\ results[i].reason = "MISSING_PORTFOLIO_CONTEXT" =>
           \E j \in 1 .. i - 1 : steps[j].kind = "PORTFOLIO" /\ results[j].state # "SUCCESS"

(***************************************************************************)
(* Weights stay below the cap, and all entries of a pair have the same one. *)
(* Each pair counted once, they are above the budget by rounding only: half *)
(* a unit for each pair.  A portfolio step fails before its files are       *)
(* written only if the weights, every entry counted, are above the budget.  *)
(***************************************************************************)
WeightByPair(scores) ==
  [p \in {scores[i].pair : i \in DOMAIN scores} |->
     scores[CHOOSE i \in DOMAIN scores : scores[i].pair = p].weight]

WeightsAreBounded ==
  \A i \in 1 .. Done :
    steps[i].kind = "PORTFOLIO" /\ results[i].reason \in {"OK", "ENGINE", "WRITE"} =>
      LET config == steps[i].config
      IN \A scores \in {Scores(PortfolioInputs(steps[i], i - 1), config)} :
           LET weight == WeightByPair(scores)
           IN /\ \A k \in DOMAIN scores :
                   /\ scores[k].weight <= config.maxSingle * Unit
                   /\ scores[k].weight = weight[scores[k].pair]
              /\ 2 * (SumFunction(weight) - config.budget * Unit) <= Cardinality(DOMAIN weight)
              /\ results[i].reason = "ENGINE" => TotalWeight(scores) > config.budget * Unit

(***************************************************************************)
(* A coin in the packet was cleared all the way: by the run, the execution  *)
(* context, the universe, the portfolio and discovery; and no other name of *)
(* the coin was refused.  What discovery did not propose, by its state or,  *)
(* where the state is an unknown word, by its classification, gets in only  *)
(* where the points of diversification alone reach the watchlist.           *)
(***************************************************************************)
Cleared(item) ==
  /\ "discovery" \notin item.flagged
  /\ ~EitherBlocked(item)
  /\ ~EitherInsufficient(item)

ClearedByDiscovery(p, k) ==
  \A d \in Source(steps[p], "DISCOVERY", p - 1) :
    /\ Cleared(steps[d].inline[k])
    /\ \A j \in DOMAIN results[d].report.candidates : ~EitherBlocked(steps[d].inline[j])

Proposed(d) == Scorable(d) /\ (CandidateLike(d) \/ WatchlistLike(d))

DiversificationPoints(config) ==
  Round(Points(100) * config.weights.diversification, SumOfParts(config.weights))

ClearedByPortfolio(u, k) ==
  \A p \in Source(steps[u], "PORTFOLIO", u - 1) :
    /\ LET d == PortfolioInputs(steps[p], p - 1)[k].discovery
       IN /\ d # None /\ d.state \notin {"BLOCKED", "INSUFFICIENT_DATA"}
          /\ Proposed(d) \/ DiversificationPoints(steps[p].config) >= Points(steps[p].config.watchlist)
    /\ steps[p].inline = None => ClearedByDiscovery(p, k)

Open(exec) ==
  /\ exec # None
  /\ exec.valid /\ exec.fresh
  /\ exec.state \in {"ENABLED", "DRY_RUN_ONLY"}
  /\ exec.mode # "BLOCK_ALL"
  /\ exec.allowed # "NONE"

ListedWasCleared ==
  packet # None =>
    \A coin \in packet.whitelist :
      /\ state \in {"COMPLETED", "PARTIAL"}
      /\ \E u \in FirstUniverse :
           LET items == results[u].report.items
               Names == {k \in DOMAIN items :
                           Coin[Formatted(items[k].pair, request.export)] = coin}
           IN /\ results[u].state = "SUCCESS"
              /\ Open(steps[u].exec)
              /\ Names # {}
              /\ \A k \in Names :
                   /\ items[k].state \in {"INCLUDED", "WATCHLIST"}
                   /\ items[k].state = "WATCHLIST" =>
                        request.export.withWatchlist \/ Cardinality(Names) > 1
                   /\ steps[u].inline = None => ClearedByPortfolio(u, k)
=============================================================================
