# Verification of hunter-futures-pro

TLA+ modules, TLC configurations and TLAPS proofs for the parts of
hunter-futures-pro whose correctness depends on the order in which things
happen or on how the results of several packages fit together: publishing a
pairlist, recording why each pair was chosen, running a research campaign,
handing a decision from the gate through human review to research, running a
research plan from discovery to the packet for Freqtrade, and passing a market
decision down to what a dry-run strategy may show. Paths below are relative to
`src/src/hunter/` unless they start with `src/`.

## 1. The system

HUNTER selects futures pairs from research data and hands a pairlist file to
Freqtrade. It places no orders. The product is `core/cli.py` with two packages,
`pairlist_export` and `explainability`; they are started by cron or by an
operator (`hunter daily-pairlist`, `hunter pairlist build | from-feather |
validate`, `hunter explain`), share directories on disk, and lock nothing.
Freqtrade reads `hunter-pairs.json` again every refresh period (an hour).

Beside the product there are about seventy research, audit and governance
packages. Nearly all are an engine/models/writer triple: a pure function from
records to records, and a writer of report files. Those whose results feed each
other, so that something can go wrong between the calls, are modelled:

- `research_campaign` with `research_evidence_ledger`, a loop over experiments;
- `research_decision_gate`, `human_review_registry`, `governance_summary` and
  `governance_handoff`, four pure functions whose caller keeps their results and
  passes them on, from different moments if it likes;
- `run_orchestrator`, which feeds `discovery`, `portfolio_construction` and
  `controlled_universe` into each other by reference and writes their reports,
  and `coin_discovery_pipeline`, which exports what came of it;
- `market_state` and `decision`, whose result goes through `execution`,
  `freqtrade_bridge`, `strategy_contract`, `strategy_adapter`,
  `dry_run_strategy` and a file to `freqtrade_shell`: each checks the age of the
  context before it and stamps its own. Nothing schedules them; a caller does.

### Inventory

| component | state it keeps | operations | interacts with | hard behaviour | what makes it correct |
|---|---|---|---|---|---|
| Publisher and snapshots (`pairlist_export/publisher.py`, `snapshot.py`, `cli.py`) | live pairlist and audit, their `.previous-good` copies, one dated pair per as-of date | `write_snapshot`, `publish_pairlist` with restore | gate before it, Freqtrade after it, another invocation of itself | two files replaced by two renames; a write that fails half-way; a failing undo; a kill; two invocations at once | pairlist and audit of one run; archived before live; snapshots never change; exit 0 means all four files |
| Ranking, gate and audit (`ranking_adapter.py`, `ranking_input_v2.py`, `validator.py`, `audit.py`) | none outside a build | rank under three profiles, gate, `validate`, reasons for every candidate | input of the publisher and of the recorder | missing scores, ties, stable sort, repeated pairs, cut by rank | the best are selected; order leaves no trace; approved implies valid; reasons agree with the list |
| Explainability store (`explainability/storage.py`, `recorder.py`, `legacy.py`, `service.py`) | run directories (candidates, manifest), `latest.json` | record a build, import a legacy run, look a coin up | called by every build after the publish; lookups run meanwhile | a stop between two files, a repeated recording, an import that decides before and acts after a build, two writers of one run | the pointer names a complete run; lookups find their files; records change only where two writers overlap; imports displace originals only when overtaken |
| Campaign runner (`research_campaign`) | in memory: records, failure count, ledger; on disk: checkpoints, nine artifacts and, of a resumed run, its resume manifest | compile, run one experiment after the other, checkpoint, resume, write | ledger, walk-forward, confidence analysis | failures at every stage, three execution and three resume policies, rerun into a used directory, kill | evidence belongs to its experiment; records and ledger agree; checkpoints link to files that exist; a manifest lists artifacts of one run; every run ends |
| Evidence ledger (`research_evidence_ledger`) | registrations, baselines, evidence, entries, snapshots, in memory | register, ingest, build entry, snapshot | campaign runner | a failure between registration and entry; drift against a first registration | entries rest on different evidence; one plan per family; snapshots grow |
| Explainability records and text | none | validate fields, format the answer | store | none | wording only |
| Feather adapter | none | candles to scores | ranking | decimal arithmetic | numerical |
| Command line and doctor | none | dispatch, read-only checks | all | none | exit codes |
| Research decision gate (`research_decision_gate`) | none | `evaluate` | risk context, universe and contract in, registry and summary out | ages at the bound, contradictions | a GO rests on open, fresh, consistent evidence |
| Human review registry (`human_review_registry`) | none; the caller keeps the records | append a record, verify a chain | gate's report | reviews written against old reads, refused records in the chain, dates given by the caller, changed records | a chain that verifies tells the truth |
| Governance summary and handoff (`governance_summary`, `governance_handoff`) | none | summarise, build a package | report, chain and review of different moments | what is compared with what | only what was approved is handed off |
| Run orchestrator (`run_orchestrator`) | results of the steps so far, report files | validate a plan, run its steps, skip, write | the three engines below, and any other step | references, refused and failed steps, failing writes | results agree with files; nothing after a failure; sound plans resolve |
| Discovery (`discovery`) | none | score, classify | orchestrator | one weak source of two | cleared pairs only |
| Portfolio construction (`portfolio_construction`) | none | score, weigh, cap, redistribute | orchestrator | rounding, cap and budget | weights within bounds |
| Controlled universe (`controlled_universe`) | none | refuse, classify, cut | orchestrator | order of refusals | listed means cleared |
| Universe export, Freqtrade adapter and pipeline (`controlled_universe_export_adapter`, `freqtrade_universe_adapter`, `coin_discovery_pipeline`) | none | export a run, make a packet | orchestrator | spelling of a pair, blocked and stale runs | one coin is not listed under one name and refused under another |
| Market state and decision (`market_state/regime.py`, `breadth.py`, `decision/engine.py`) | none | classify, measure, decide | signal chain | integer and float truncation at thresholds, confirmations that are missing | a direction is allowed only with trend and breadth behind it |
| Signal chain (`execution`, `freqtrade_bridge`, `strategy_contract`, `strategy_adapter`, `dry_run_strategy`, `freqtrade_shell`) | the last context of each stage, in memory; the runtime file | build a context from the one before, write the file, validate it | decision before it, Freqtrade's strategy after it | every stage re-stamps what it passes on; no stage hears of a withdrawal; a restart keeps the file | what is shown was earned, recently; what is withdrawn goes |
| Backtest comparison, walk-forward and outcome evaluation | none | run a subprocess, compare numbers | campaign | subprocess timeout | numerical |
| Market data, universe and indicators | none | numerical | ranking's input | none | numerical |
| Data collection store | SQLite | collect, store | market data | SQLite's transactions | SQLite's |
| Statistics and quality gates | none | classify numbers | campaign, reports | none | numerical |
| Audit and review reports (some forty packages) | none | records to files | each other's files | none | layout |
| Portfolio research adapter and risk evaluator | none | transform records | reports | none | layout |
| Freqtrade (external) | its pairlist | reads the live file | publisher | reads between two renames | sees archived lists only |

`PROJECT.json` lists the same components with their sources and status, and the
hazards of this code, each at the line where it bites.

## 2. Modules

| module | models | state and actions |
|---|---|---|
| `PairlistArtifacts` | what a build publishes and the text of its two files | data only: an output is a date, a ranking (all that the audit fingerprint, hence `run_id`, covers) and metadata (the audit's fields outside the fingerprint) |
| `PairlistPublish` | `write_snapshot`, `publish_pairlist` and the part of `_build_and_publish` around them | `live`, `good`, `snap` are the files; `pc`, `kind`, `out`, `had`, `buf` a process's locals. Every action is at most one file operation: `SnapCheck`, `SnapWrite`, `EnterPublish`, `Probe`, `GoodRead`, `GoodWrite`, `LiveWrite`, `Restore`, `RestoreWrite`, each once for the pairlist and once for the audit; `Begin` and `RejectRun` start a build, `Kill` ends one anywhere |
| `AtomicPublish` | the promise to readers, without files | `published`, `archive`; `Archive` adds a date once, `Publish` replaces the pair in one step by an archived one |
| `PairlistGate` | ranking, gate, `validate`, reasons | a build as `RankPairs` or `RankError`, then `RunGate`; the sort is a rank computed by counting, so that it can be proved about |
| `ExplainStore` | recording, import, pointer, lookup | `candidates`, `manifests`, `latest` are the files; writers `Record`/`Import`, `Decide`, `CheckFile`, `WriteFile`, `Point`; readers `ReadPointer`, `ReadManifest`, `ReadCandidate`; `Kill` |
| `AtomicStore` | the promise to `hunter explain`, without files | `recorded`, `current`, and per lookup `held` and `answer`; `RecordRun` and `MakeCurrent` are one step each, a lookup is `Begin` and `Finish` or `Fail` |
| `EvidenceLedger` | the ledger engine, one object in memory | operators from a ledger and an experiment to a ledger: `Register`, `AddEntry`, `Ingest`, with the checks `IsDuplicate`, `Drifts`, `Repeats` |
| `CampaignRunner` | `run_campaign` into one output directory, run after run | one action per way an experiment can end (`Skip`, `MissingRegistration`, `OtherRegistration`, `MissingEvidence`, `Reuse`, `RunFails`, `IncompleteWindows`, `Complete`, `IngestFails`), each with its record, its count, its policy check and its checkpoint; `WriteArtifact`, `Start`, `Kill` |
| `DecisionGate` | the gate's decision with all its checks | operators from a risk context, a universe, a contract and a policy to a report |
| `ReviewRegistry` | a record from a review, and the verification of a chain | operators: `ReviewRecord`, `VerifyChain`, `PolicyReasons` |
| `Governance` | the caller of the four governance packages | `reports`, `records`, `summary`, `package` are what the caller holds; `Evaluate`, `Review` (against the first n records), `Summarise`, `Handoff` call a package, `Damage` changes a stored record |
| `Discovery`, `PortfolioConstruction`, `ControlledUniverse`, `UniverseExport` | the four engines of a research run | operators from inputs and a configuration to a report, an export, a packet |
| `ResearchRun` | `run_plan` of the orchestrator, then the pipeline's export and packet | `results` and `files` grow by a step: `StepUnwritten`, `StepWritten`, `WriteFails`, `Skip`; `RefusePlan`, `Finish`, `Export`, `Adapt` |
| `MarketState` | regime, breadth and decision | operators: `ClassifyRegime`, `Breadths` (the scores the float sum may be truncated to), `DecisionReason`, `Permission` |
| `SignalChain` | the six stages after the decision, and their clock | `decision`, `execution`, `bridge`, `contract`, `adapter` are the last contexts, `runtime` the file; one action per stage (`Decide`, `Execute`, `Bridge`, `Contract`, `Adapt`, `Expose`), in any order, `Tick` and `Restart`; the shell is the operator `Exposure`, since it only reads |
| `MCPairlistGate`, `MCExplainStore`, `MCCampaignRunner`, `MCGovernance`, `MCResearchRun`, `MCSignalChain` | instances for TLC | sets of inputs, run ids, compiled campaigns, gate calls, plans, markets and universes |
| `PairlistPublishProofs`, `ExplainStoreProofs`, `PairlistGateProofs`, `CampaignRunnerProofs`, `GovernanceProofs`, `ResearchRunProofs`, `SignalChainProofs` | theorems | |
| `SumTheorems` | induction and sums for the proofs | |

A comment "Mutant:" marks an operator that no specification uses: it is a
plausible wrong version of the definition after it, kept to show that the
property named in `PROJECT.json` notices it.

What the modules abstract. A text is a record of what its readers can tell
apart; a fingerprint is the value it is computed from, so two fingerprints are
equal exactly when what they cover is. `atomic_write_text` writes a temporary
file, renames it and syncs the directory: an error leaves the old text, or the
new one when only the sync failed, and both are modelled (`Torn`); no reader
sees half a file. Temporary files are left out: nothing reads them. In
`CampaignRunner` a walk-forward of the same template, data and shared settings
gives the same report, and different ones give different reports. In
`Governance` times are ticks, and a contract is one of five kinds of contract.
In the research run a context's words are a few classes of word, the term lists
of the packages are flags of an item (whether its text fails the list), pairs are
numbered in the order of their names, and a portfolio's weights are counted in
`Unit` to a percent: ten thousand in the code, a hundred in the instance, so that
a rounded weight is off by the same half unit; a rounded half goes up, where the
code's goes to the even neighbour. A portfolio's score weights, any non-negative
numbers that sum to one, are shares (a part over the sum of the parts), and its
weights are kept by pair, as the code keeps them: nothing refuses a pair that is
listed twice. A discovery summary has a state and a classification of its own, as a
plan may hand one over; either may be a word the engine does not know, and one
class stands for all classifications of a kind. Discovery's own weights are the
default ones, and thresholds are whole points. A step that is not one of the
three modelled kinds is given by its outcome. In `SignalChain` a context that is
missing and one that is blocked are both None, since the next stage refuses
either; the reasons, and the order in which the checks give them, are left out
after the decision. A market is how many of the regime's conditions hold, a
universe how many symbols meet each measure. The reads of the clock that one
call makes fall into one tick, and the clock is never set back: the code's age
checks have no lower bound, so a context from the future would pass them for as
long as the clock was set back.

## 3. Runs

All runs finish within a minute with two workers, except `governance`, which
takes a minute and a half, and `explain_store` and `campaign`, which take about
three.

| run | question | bounds, and why they are enough |
|---|---|---|
| `publish_faults` | with failing reads and writes, is a publish atomic for its readers, and does a failed one leave a matching pair? | one invocation at a time, any number of them one after another; two dates, rankings and metadata give equal, conflicting and unrelated outputs |
| `publish_kills` | what survives kills and failing restores? archive, order, immutability, whole success | the same, with all three kinds of fault, unlimited in number |
| `publish_live_kill` (violated) | does the pair match after a kill? | one date, two rankings |
| `publish_overlap` (violated) | are snapshots immutable with two invocations? | one date, two rankings, two processes, no faults |
| `gate` | every list of up to three of three pairs, repetitions included, three profiles | scores 0, 1, 101 and missing: a tie, an order, a value out of percent range; target 2 of 3 puts one pair below the cut; one name is malformed |
| `explain_store` | pointer, lookups, immutability, when does an import displace an original run or another import, and is recording atomic for those who look up? | a build of two coins, an import with and one without audit; two writers and one reader at a time, any number of them after one another, all faults: enough for a stop between any two files, for a build or the other import between an import's decision and its pointer write, for two writers of one run with different texts, and for a pointer that cannot be read. Builds that the gate refused are left out to keep the run small; they never move the pointer, and the theorems cover them |
| `explain_undated` (violated) | does an import only move the pointer forward? | two imports |
| `campaign` | the seven safety properties of a campaign and that it ends | two runs into one directory with either overwrite policy; three experiments in two families, of which one repeats a walk-forward, and two experiments of one family with different plans; two values of the shared settings; all nine policy pairs; one failing write or kill; four artifacts, of which the second is written by a run with a resume manifest only: enough for a run to stop before it, after it or past it, and for a run of either kind to follow one of the other; failures stop after two |
| `campaign_abort` (violated) | does a checkpoint that cannot be written ever abort a campaign? | as `campaign`, no overwriting, two experiments |
| `governance` | is what is handed off approved, fresh and of one mind, and does a chain that verifies tell the truth? | two reports and two records: enough for two reports of one time, a record against an old read, a second review of one report, one dated before the other, an approval of another report; one changed record; refused records kept; a gate call at the limit of every bound (source age, skew) and calls one beyond |
| `research_run` | is what is listed cleared all the way, and do results, files and references agree? | some five thousand requests: the pipeline with one thing changed at a time (lists of one to three items, configuration switches, execution contexts), portfolio inputs handed over by the plan (equal candidates, an excess that takes two rounds, states and classifications that disagree or are unknown, a missing score, pairs listed twice with other scores, tags or states) under ten portfolio configurations (among them score weights of 70 % diversification and a `watchlist_score` below the default share), and plans of other shapes (no step, repeated kinds, each form of reference, refused and failed steps in every position), a write that fails after each file |
| `signal_chain` | is what a strategy shows earned and recent, and how long does it outlive a withdrawn decision? | stages in any order, restarts at any time, either form of handover; a confirmed, a weakly confirmed, a weak, a tied and an unknown market in either direction; universes at 60, 50 and just above 40, and one symbol short; bounds of one tick on the execution context and the file and of none elsewhere, so that their sum can be reached, and a clock that runs one tick longer |

Bounds are constants of the models: `MaxRuns` runs into the directory,
`MaxRerun` experiments of the later ones (to keep `campaign` small; the first
run has all), `MaxFaults` faults, `MaxExperiments` (the code's own
`max_experiment_count`), in `Governance` `MaxReports`, `MaxRecords` and
`MaxDamage`, and in `SignalChain` `MaxNow`, after which the clock stands still. The clock of `Governance` is the constant `Now`: it is read only to
refuse what is dated after it. `research_run` has as many states as its requests
make. The publish and store models have no counters and need
no bound.

`CHECK_DEADLOCK FALSE` is set where the system may stop: a build ends with its
gate, nobody has to start another campaign, and a caller of the governance
packages is followed to its first handoff. `publish_*`, `explain_*` and `signal_chain` never
stop and are checked for deadlock; so is `research_run`, which must end with
`Answered`.

### What the runs found

Four statements in comments and documents do not hold of the code. Each is a
run whose counterexample is the shortest one; `PROJECT.json` quotes the line.

1. A kill between the two live writes leaves the pairlist of one run beside the
   audit of another; the documentation promises consistency in all failure modes
   (`publish_live_kill`).
2. Two invocations for one date can both find no snapshot, and the second
   replaces the archived one (`publish_overlap`).
3. An import without an audit has the date `UNKNOWN`, later as a string than any
   date, and moves the pointer from a dated import (`explain_undated`).
4. After the ledger refused an experiment's evidence, the checkpoint is written
   outside the function that isolates its failures, and a failure ends the
   campaign with all its evidence lost (`campaign_abort`).

Modelling also showed behaviour that a reader of the code should know and that no
run singles out. All of it is in the models as it is in the code:

- An import decides whether to move the pointer before it writes its files
  (`explainability/legacy.py:363`) and writes `latest.json` afterwards (368)
  without asking again: a build that records its run in between has its pointer
  replaced by the reconstructed run, although nothing failed and
  `explainability/storage.py:160` says that a reconstructed run never replaces an
  original one. `OriginalOutranksImport` allows exactly this (an import that was
  overtaken while it was under way) and an import that could not read the pointer.
- `_write_immutable` looks before it writes and locks nothing: of two writers of one
  run that both find a file missing, the second replaces what the first wrote.
  `RecordsAreImmutable` allows exactly this. The files of a build's run are the
  same whoever writes them, so only the manifest of an import, and the records of
  a refused build, can change.
- The dry-run strategy blocks every context of the adapter: it compares
  `str(adapter_state)` with `"DRY_RUN_READY"` (`dry_run_strategy/engine.py:170`),
  but the adapter's context holds a `(str, Enum)` member, whose `str()` is
  `AdapterState.DRY_RUN_READY`. The tests hand over an object with text. The
  model has both handovers; with the adapter's own object nothing is ever shown.
- ETH's score counts conditions of a rising ETH whichever way BTC goes
  (`market_state/regime.py:153-188`): three of them confirm a falling BTC, and a
  falling ETH, with a score of 0, confirms nothing and takes nothing away. A
  breadth "confirms" a falling BTC below 70, not below 30.
- The breadth score is a truncated float sum, so a universe of exactly 60 may
  score 59 and one of exactly 41 may score 40: `ExposureIsEarned` therefore
  allows a short direction up to the exact score of `max_breadth_score_for_short`
  plus one.
- A direction may be shown, after its decision was withdrawn, for the sum of
  five bounds (25 minutes with the defaults), and after its market was measured
  for over four hours, though no single bound exceeds two.
- In the decision engine the branches for SIDEWAYS and TRANSITION are never
  reached, because their mode is NONE and refused before; `transition_action` is
  never used.
- `campaign_resume_manifest.json` is written only by a run that was given a resume
  manifest (`research_campaign/writer.py:540`) and never removed: where files may
  be overwritten, that of an earlier run can stay beside the files of a later one.
  The later run's artifact manifest does not list it, which is what
  `ArtifactsDoNotMix` says; a reader who goes by the file name will take it for
  part of the later run. A run writes nine or ten files, never the ten of the
  docstring unless it was resumed.
- A refused build with another `universe_total` gets the run id of the first and
  is not recorded (`explainability/recorder.py:120`), although the comment says
  that different output never collides with an already-recorded run.
- A pair listed twice is refused only when both entries are selected
  (`pairlist_export/validator.py:101-107`); with the second below the cut it is
  published, and recorded as selected and as rejected.
- Six equal portfolio candidates get 16.6667 % each; the sum of 100.0002 is over
  the budget by more than the tolerance of 1e-9, the report's constructor refuses
  it (`portfolio_construction/models.py:500`) and the step fails. So it does, by far
  more than rounding, when a pair is listed twice: two entries with allocation
  scores of 82 and 100 both get the 54.9451 % of the second where the cap allows it,
  and the total that counts both is refused (`models.py:604`). `WeightsAreBounded`
  therefore counts each pair once where it says that the budget is kept but for
  rounding, and says that a portfolio step fails before its files are written only
  if the total over the entries is above the budget.
- A pair without a tag in common with another has the full points of the
  diversification component from that alone
  (`portfolio_construction/engine.py:312-335`): 15 by default, and whatever
  `score_weights` make it. A pair that discovery excluded is listed where
  these points reach `watchlist_score`: with a low `watchlist_score`, or, at default
  thresholds, with a diversification weight of 0.7, which makes it INCLUDED. A
  summary with an unknown state counts as a candidate by its classification.
  `ListedWasCleared` says exactly this: what is listed was proposed by discovery,
  by state or classification, or the diversification points alone reach
  `watchlist_score`; and never was it blocked or insufficient.
- The run's term list is searched for as substrings
  (`run_orchestrator/engine.py:189`): an execution context that allows
  `SHORT_ONLY`, or a pair such as API3/USDT, refuses the whole plan.
- `execution_context_step_id` is validated, but no step's data holds an execution
  context, so the reference resolves to nothing and the universe is refused.
- A portfolio candidate beyond `max_candidate_count` is no longer a candidate but
  its weight is not given to the others. `max_watchlist_pairs` and
  `include_capped` are read by nothing.
- The gate's fingerprint covers of a universe only its time, so that an approval
  of a decision is one of any other universe generated at that time
  (`research_decision_gate/engine.py:89`).
- The latest review is the one with the latest date, which its caller supplies:
  `HandoffIsApproved` speaks of the latest by date, not of the last in the chain.

## 4. Fairness

`CampaignRunner!Spec` is the only specification with fairness, `WF_vars(Step)`:
a run is one sequential loop in one process, every experiment is a subprocess
with a timeout, and the loop waits for nothing else. `Start` and `Kill` are not
fair. `EveryRunEnds` says that under it every run ends or is killed.

The publisher, the gate and the store are stated as safety only. A build that
fails is not retried by the code (cron starts the next one, perhaps with other
input), so the code justifies no promise that a list is ever published. Nothing
runs the stages of the signal chain, so that what ends a withdrawn direction is
the clock alone, and the promise is the bounded one of `RevocationIsBounded`.
Neither are the governance packages and a research run stated with fairness: the first
are pure functions called when a person calls them; the second is a sequential
loop without waiting or retries whose length is that of its plan, and the
deadlock check says that it ends with an answer.

## 5. Proofs

Proved for every value of the constants that satisfies the modules' named
assumptions. `PROJECT.json` lists each theorem with the property it states.

*Publisher* (`PairlistPublishProofs`). Its theorems rest on two inductive invariants. `ArchiveInv` says what each
step of a process knows about the files: while it is past the snapshot, both
files of its snapshot hold its texts; what it is about to copy is still what is
there. It gives `LiveIsAlwaysArchived`, `SnapshotsAreImmutable`,
`PublishFollowsSnapshot` and `SuccessfulRunIsComplete` under all faults, but
needs `Serial`, one invocation at a time: `publish_overlap` shows that it must.
`RestoreInv` adds what the undo would put back. It gives `LivePairAlwaysMatches`
when nothing is killed and no restore fails, which `publish_live_kill` shows to
be needed.

*Refinement* (`PairlistPublishProofs`). `PublishIsAtomic`: under the same
hypotheses `Spec` implements `AtomicPublish`. Readers are promised
`PublishedPair`: the live pair, or, between the two live writes and their undo,
the pair that an undo would restore; a date is archived when its audit is.

*Store* (`ExplainStoreProofs`). All of it is proved for any number of writers and
readers at a time. `StoreInv` says that the run the pointer names
and the runs that lookups hold on to are whole, that the files a writer has
behind it hold its texts, and that a writer moves the pointer to a whole run only.
Two writers of one run can overwrite each other's files; what keeps the invariant
inductive is that each candidate file of a published or imported run has one text
only, that of the first rank that lists its coin (`RunTexts`), so that a write over
a file changes nothing. It gives `LatestIsAlwaysComplete` and
`LookupsAreAlwaysAnswered`. `RecordsStayImmutable`: a file is replaced only by a
writer that found it missing before another one put it there;
`OneWriterReplacesNothing` follows, under `SoleWriter`, one writer at a time.
`PublishedRunsAreRecorded`: the files of an approved run that lists no pair twice
hold that run's texts, whoever wrote them (`OwnTexts`). `OriginalsOutrankImports`:
an import moves the pointer only if it decided to (`PointInv`), and a decision
that was right when it was taken is wrong later only because the pointer has
moved since.

`StoreIsAtomic` is the refinement: `Spec` implements
`AtomicStore`. The recorded runs are the published ones whose files are all there
(`WholeRuns`), the current run is the one that `latest.json` names, and which run
may succeed which is the rule of the pointer (`MaySucceed`): an import may follow
any run if it could not read `latest.json`, or if there is another writer, which
may have overtaken it; with one writer at a time it follows the run that it saw
(`SeenInv`). The write that completes a run
(of its candidates or its manifest, whichever comes last) maps to `RecordRun`, the
pointer's to `MakeCurrent`; of the three reads of a lookup the first is `Begin`,
the one that answers is `Finish` or `Fail`, every other step stutters. Besides
these it needs that the pointer is misread only where reads can fail
(`MisreadInv`) and that an idle reader holds no run (`RestInv`).

*Gate* (`PairlistGateProofs`). The comparison is a strict order, so the rank
computed by counting is a bijection from entries to positions
(`RanksAreUnique`), which type correctness needs. `ApprovedIsAlwaysValid`
compares the two lists of checks. `OrderNeverLeavesATrace` says that any
permutation of the input is ranked alike, repeated pairs included.
`BestAreAlwaysSelected` compares two orders: the code sorts by one score after
the other, the property by one number, the digits of the scores in a base above
all of them. The lemmas show that the first score that differs decides that
number (`LeadingDecides`), so that the two orders are one (`SortIsByStrength`),
and that the recursion which picks the rows picks a prefix of the sorted ones
(`SelectedIsPrefix`). `ExplanationsAlwaysAgree` needs the ranks of the published
pairs beside it (`RankedInvariant`). They assume that the scores are finitely
many natural numbers: a build holds finitely many decimals, which can be counted
in their smallest unit.

*Campaign* (`CampaignRunnerProofs`). All seven safety properties of the run
`campaign`, without hypotheses: any campaigns, policies, numbers of runs,
checkpoints, artifacts and faults. `StepShape` first reduces every step to one
of six shapes (a start, one record at the end of an experiment, an abandoned
run, an artifact, the last artifact, a stutter), so that each invariant is
proved for the shapes and not for nine actions. Five inductive invariants at the
end of `CampaignRunner` carry the argument. `EvidenceInv`: dossiers and resume
manifests hold each experiment's own evidence; types need it too, since the next
dossier is made of the records. `LedgerInv`: every entry's reports are known to
the duplicate detector and its plan is its family's baseline, although a refused
experiment may have set that baseline. `LinkInv`: the checkpoint the next one will be linked to
is this run's, and on disk. `ArtifactInv`: the running run's artifacts are
exactly those it is to write (`IsDue`) up to the last it has written, so that what
its manifest will list is its own. `PolicyInv`: the failure count and the stop flag say what
the records say. `RecordsMatchLedger` is inductive as it stands.

*Governance* (`GovernanceProofs`). All four invariants of the run `governance`,
for any evidence, inputs, bounds, reads and damage, without hypotheses. A stored
record may have been changed, so the inductive invariant `IInv` never speaks of
what a record says but of what was sealed in its fingerprint, which no damage
reaches: if the sealed records are linked to each other (`SealedChain`), they are
honest (`SealedHonest`): accepted ones are of an issued report, no review is
repeated and no NO_GO is approved. A chain that verifies is intact, so it is its
seals (`VerifiedChain`). A summary that is ready keeps what it was made of, a
prefix of the records that later records and damage leave sealed as it was
(`SameSeals`), and a package keeps its summary.

*Signal chain* (`SignalChainProofs`). All three invariants, for any markets,
universes, thresholds and bounds. `VerdictsAreSupported` carries a decision back
through the rounding to exact counts. The inductive invariant `IInv` says of the
context of every stage that it is `Grounded`: what it rests on is older than the
context by at most the bounds of the stages before, and if the current decision
does not allow its direction, that was withdrawn at most the bounds of the stages
after the execution bridge before it was stamped. A stage adds its bound to both;
a withdrawal happens now, so it can only help.

*Research run* (`ResearchRunProofs`). All six invariants of the run
`research_run`, for any plans of any length, items, thresholds, names and weight
unit. `RequestsAssumption` says of the plans what the constructors of steps,
inputs and configurations enforce, `NoneAssumption` that None is no verdict. The
inductive invariant `RunInv` says that the results are a record: result i is that
the step was skipped, lost its report to a failed write, or has what
`Outcome(steps[i], i - 1)` says, and files belong to the results. Since an outcome
reads only earlier results (`OutcomeIsStable`), the record stays true as it
grows, and what holds of a run becomes a matter of what four engines compute:

- `AcceptedPlansAlwaysResolve`: the reference that the validation found in the
  whole plan is the one that the run finds in the part before the step
  (`AcceptedReference`), and only a portfolio step can be there.
- `WeightsAreAlwaysBounded`: the weights are a function on the pairs
  (`ByPairType`, `InitialType`), so that what follows is about pairs, however often
  they are listed. A round of redistribution that has an excess to hand
  out leaves one more member at the cap, and a member at the cap stays there, so
  that the excess is gone after as many rounds as there are members
  (`CappingEnds`); each rounded quotient is off by half a unit (`RoundMeans`),
  and the sum of the errors is bounded member by member (`ScalingMeans`).
- `ListedCoinsWereCleared`: `FinalInv` ties the packet to the export and the
  export to the first universe's report; then the argument goes backwards, one
  lemma for each engine (`ListedMeans`, `UniverseMeans`, `ItemsMean`,
  `ScoresMean`, `PortfolioMeans`, `DiscoveryMeans`). For any score weights, what
  was not proposed can have no points but those of diversification
  (`DiversificationAlone`).

*Induction and sums* (`SumTheorems`). The library's induction theorems take an
operator as a parameter, which the provers cannot instantiate. Here the property
is a set instead: the numbers, or the subsets of a finite set, that have it
(`NaturalInduction`, `FiniteInduction`, both from the library's theorem that less
than is well-founded). From these follow that the recursion behind the community
modules' `SumFunction` has a solution and that the order of summing does not
matter (`SumsExist`, `SumsAnyOrder`), and the lemmas on sums that the weights
need (`SumSplit`, `SumBound`, `SumOfPart`).

Every invariant and action property of the passing runs is stated by a theorem.
Only model-checked: the five violations, and liveness (`EveryRunEnds`), which the
prover cannot do.

## 6. Not modelled

- Within modelled components: the digests and JSON layout of fingerprints and
  audits; `compile_only` campaigns and campaigns without an output directory; the
  compiler's filters and Cartesian product (the compiled sequences are a
  constant with the properties the compiler checks); the ledger's families,
  adjustments, replications and report; the orchestrator's steps of other kinds
  (observation, backtest, comparison), which are given by their outcome; the
  checks of the governance packages that refuse objects of a wrong type or with
  unsafe flags, since their constructors refuse those too; discovery weights
  other than the defaults; thresholds that are no whole points, and a portfolio's
  core and satellite classifications.
- Numerical code: market data, indicators, relative strength, statistics,
  walk-forward and outcome evaluation compute with Decimal or floats on data
  files, some in a subprocess of Freqtrade. Their difficulty is in the numbers,
  which a model would have to leave out, and they keep nothing between calls.
- Report packages: some forty engine/models/writer triples whose engine is a
  pure function of its arguments, whose models check their own fields, and whose
  writer formats files. No order of calls changes what they return, and stating
  what they return restates their code. They are most of the repository's lines,
  which is why these modules stand for a small share of them.
- The signal chain's safety flags, which are constants that the constructors
  enforce; the `current_*.json` files of its first stages, which no stage reads
  (their writers refuse to replace a file unless told to); the indicators under a
  market's conditions.
- Time zones. `SignalChain` has one clock and reads back what was stamped. The
  writer of the runtime file prints an aware timestamp's own hours with a "Z"
  (`dry_run_strategy/writer.py:32-36`), so a caller who passes a `now` that is not
  in UTC shifts the age of the file by its offset, and the bounds on how long an
  exposure outlives its decision by as much.
- SQLite's own transactions.
- Time. The as-of date is whatever the caller passes; the code compares it with
  nothing.

## 7. Plan

The order is that of importance: what Freqtrade reads, then what explains it,
then the research runs.

1. Done: publisher with its abstract specification, refinement and proofs; gate
   with proofs; store with its abstract specification, refinement and proofs; campaign and ledger with proofs of all their
   safety properties; governance from gate to handoff with proofs; the research
   run from discovery to the packet, with proofs; the signal chain from the
   market to the strategy, with proofs.
2. `DailyBuild`: publisher, gate and store composed as `_build_and_publish` does
   it (publish, then record; reject, then record), with a recording that fails
   and is only logged, and Freqtrade as a reader. Properties: the pointer names a
   run that is archived in the snapshots; a published run is recorded or the
   failure was logged; a reader sees archived lists only.
3. `remediation_backlog`, `remediation_evidence` and `remediation_closure` as one
   caller drives them, like the governance packages: does an item that counts as
   closed rest on evidence that covered it?
4. Campaign: an abstract campaign (a set of experiments, each ending once, whose
   dossier appears in one step) that `CampaignRunner` implements, as TLC property
   and as theorem; the compiler's filters in place of the constant `Compiled`.

## 8. Running

    tlc -workers 2 -config campaign.cfg MCCampaignRunner.tla
    tlapm PairlistPublishProofs.tla

The modules need the community modules (`Functions`) and the TLAPS library.
