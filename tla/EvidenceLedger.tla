--------------------------- MODULE EvidenceLedger ---------------------------
(***************************************************************************)
(* hunter/research_evidence_ledger: the append-only ledger that a campaign *)
(* run gives the evidence of its experiments to.  The engine is an object  *)
(* in memory: its state is a record here, its methods are operators.       *)
(***************************************************************************)
EXTENDS Naturals, Sequences

CONSTANTS
  Families,   \* experiment families
  Templates,  \* strategy, timeframe, universe and walk-forward template
  Data,       \* historical data sets
  Configs,    \* statistical confidence configurations
  Commons,    \* the settings of a definition that all its experiments share: fee, stake, balance
  NoBaseline  \* no experiment of the family was registered yet

(* What experiment_id is computed from; the shared settings are not in it, *)
(* only in the fingerprints of the experiment and of its registration.     *)
Ids == [family : Families, template : Templates, data : Data, config : Configs]
Experiments == [id : Ids, common : Commons]

(* The fields of a registration that may not differ inside a family: the   *)
(* data set is not one of them.                                            *)
Signature(e) == <<e.id.template, e.common, e.id.config>>
Signatures == Templates \X Commons \X Configs

ASSUME NoBaselineAssumption == NoBaseline \notin Signatures

(* The fingerprints of the two reports: a walk-forward repeats itself, and *)
(* neither report knows its experiment's family.                           *)
WalkForward(e) == <<e.id.template, e.id.data, e.common>>
Confidence(e) == <<WalkForward(e), e.id.config>>

(* registered: what the duplicate detector has seen; baselines: the first  *)
(* registration of each family; ingested: the experiments whose reports    *)
(* were accepted; snapshots: the entries at each snapshot.                 *)
Ledgers ==
  [registered : SUBSET Experiments, baselines : [Families -> Signatures \union {NoBaseline}],
   ingested : SUBSET Experiments, entries : Seq(Experiments), snapshots : Seq(Seq(Experiments))]

EmptyLedger ==
  [registered |-> {}, baselines |-> [f \in Families |-> NoBaseline], ingested |-> {}, entries |-> <<>>, snapshots |-> <<>>]

(* A hypothesis is "campaign:experiment_id", so a repeated one is a        *)
(* repeated id, and so is a repeated registration fingerprint.             *)
IsDuplicate(l, e) == \E x \in l.registered : x.id = e.id

(* Mutant: a family's plan may change.                                     *)
DriftsNever(l, e) == FALSE

Drifts(l, e) == l.baselines[e.id.family] \notin {NoBaseline, Signature(e)}
CanRegister(l, e) == ~ IsDuplicate(l, e) /\ ~ Drifts(l, e)

Register(l, e) ==
  [l EXCEPT !.registered = @ \union {e},
            !.baselines[e.id.family] = IF @ = NoBaseline THEN Signature(e) ELSE @]

(* Reports that were ingested for any experiment are refused for another.  *)
Repeats(l, e) == \E x \in l.ingested : WalkForward(x) = WalkForward(e) \/ Confidence(x) = Confidence(e)

CanIngest(l, e) == CanRegister(l, e) /\ ~ Repeats(l, e)

(* Mutant: the snapshot is taken before the entry is in.                   *)
AddEntrySnapshotFirst(l, e) ==
  [l EXCEPT !.ingested = @ \union {e},
            !.entries = Append(@, e),
            !.snapshots = Append(@, l.entries)]

(* ingest_evidence, build_entry and take_snapshot.                         *)
AddEntry(l, e) ==
  [l EXCEPT !.ingested = @ \union {e},
            !.entries = Append(@, e),
            !.snapshots = Append(@, Append(l.entries, e))]

(* ingest_experiment_evidence: a registration whose reports are refused    *)
(* stays in the ledger.                                                    *)
Ingest(l, e) ==
  IF CanIngest(l, e) THEN AddEntry(Register(l, e), e)
  ELSE IF CanRegister(l, e) THEN Register(l, e)
  ELSE l
=============================================================================
