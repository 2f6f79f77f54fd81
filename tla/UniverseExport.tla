--------------------------- MODULE UniverseExport ---------------------------
(***************************************************************************)
(* What leaves the pipeline: the export of a controlled universe            *)
(* (hunter/controlled_universe_export_adapter) and the packet for Freqtrade *)
(* built from the export (hunter/freqtrade_universe_adapter).               *)
(***************************************************************************)
EXTENDS ControlledUniverse

CONSTANTS
  Underscored,   \* a pair's name with "_" for "/" (pair_format base_quote)
  Coin           \* a name's base and quote in upper case, or None

\* The report of a step that has none.
NoReport == [kind |-> "NONE"]

Formatted(p, config) == IF config.underscore THEN Underscored[p] ELSE p

PairsIn(report, States, config) ==
  {Formatted(report.items[i].pair, config) :
     i \in {j \in DOMAIN report.items : report.items[j].state \in States}}

\* Mutant: an unsafe report is exported like any other.
ExportBlockedIfMissing(report) == report = NoReport

ExportBlocked(report) == report = NoReport \/ ~report.safe

\* _build_pair_summary: what the packet's mode is derived from.
Summaries(report, config) ==
  {[pair |-> Formatted(report.items[i].pair, config), long |-> report.items[i].long] :
     i \in DOMAIN report.items}

ExportOf(report, config) ==
  LET Wanted == {"INCLUDED"} \cup (IF config.withWatchlist THEN {"WATCHLIST"} ELSE {})
      Refused == {"BLOCKED", "EXCLUDED", "INSUFFICIENT_DATA"}
  IN IF report = NoReport
     THEN [whitelist |-> {}, blacklist |-> {}, summaries |-> {}, blocked |-> TRUE]
     ELSE [whitelist |-> IF ExportBlocked(report) THEN {}
                         ELSE PairsIn(report, Wanted, config),
           blacklist |-> PairsIn(report, Refused, config),
           summaries |-> Summaries(report, config),
           blocked   |-> ExportBlocked(report)]

\* build_controlled_universe_export_from_run_result: a run that is BLOCKED or
\* FAILED lists nothing and refuses everything.
ExportOfRun(state, report, config) ==
  LET export == ExportOf(report, config)
  IN IF report # NoReport /\ state \in {"BLOCKED", "FAILED"}
     THEN [whitelist |-> {},
           blacklist |-> {s.pair : s \in export.summaries},
           summaries |-> export.summaries,
           blocked   |-> TRUE]
     ELSE export

-----------------------------------------------------------------------------
Coins(names) == {Coin[p] : p \in {q \in names : Coin[q] # None}}

\* Mutant: a pair on both lists stays on both.
WhitelistedContradictions(white, black) == white

\* _apply_deduplication_and_contradiction: the refusal wins.
Uncontradicted(white, black) == white \ black

\* The summary looked up for a coin is that of the last name it is written as;
\* of two summaries with one name, the watchlist's comes last.
LastSummary(summaries, coin) ==
  LET Of == {s \in summaries : Coin[s.pair] = coin}
  IN {s \in Of : \A t \in Of : t.pair <= s.pair}

Packet(export, stale) ==
  LET black == Coins(export.blacklist)
      white == IF export.blocked \/ stale THEN {}
               ELSE Uncontradicted(Coins(export.whitelist), black)
      isLong == \E coin \in white : \A s \in LastSummary(export.summaries, coin) : s.long
  IN [whitelist |-> white,
      blacklist |-> black,
      mode      |-> IF isLong THEN "LONG_RESEARCH_ONLY" ELSE "BLOCK_ALL"]
=============================================================================
