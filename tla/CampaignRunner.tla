--------------------------- MODULE CampaignRunner ---------------------------
(***************************************************************************)
(* hunter/research_campaign: run_campaign compiles a definition, runs its  *)
(* experiments one after the other, and writes a checkpoint after each and *)
(* the artifacts at the end into one output directory.  A failure of an    *)
(* experiment is recorded and the policy decides whether to go on.  The    *)
(* caller may run again into the same directory, with the evidence of an   *)
(* earlier dossier, after an error, or after the process was killed.       *)
(***************************************************************************)
EXTENDS EvidenceLedger, FiniteSets

CONSTANTS
  Compiled,          \* the experiment sequences that definitions compile to
  StopAfter,         \* stop_after_n_failures
  ExceptionOutcomes, \* outcomes that an experiment's exceptions are classified as
  MaxExperiments,    \* max_experiment_count
  Artifacts,         \* number of artifact files, written in one order; the last lists the others
  ResumeFile,        \* which of them is the copy of the resume manifest
  Overwrites,        \* output_policy.overwrite: a subset of BOOLEAN
  MaxRuns,           \* bound: runs into the directory
  MaxRerun,          \* bound: experiments of a run after the first
  MaxFaults,         \* bound: failing writes and kills
  None               \* no evidence, no fingerprint, no file

Classified == {"FAILED", "BLOCKED", "TIMED_OUT", "UNSUPPORTED", "INSUFFICIENT_EVIDENCE"}
Outcomes == Classified \union {"COMPLETED", "SKIPPED_BY_POLICY", "STALE_RESUME_EVIDENCE"}
Policies == {"COLLECT_ALL", "FAIL_FAST", "STOP_AFTER_N_FAILURES"}
ResumePolicies == {"REUSE", "RERUN", "BLOCK"}
Reasons ==
  {"", "MISSING_REGISTRATION", "RESUME_FINGERPRINT_MISMATCH", "RESUME_BLOCK_MISSING_EVIDENCE", "RUNNER_ERROR",
   "MISSING_WALK_FORWARD_EVIDENCE", "STOPPED_BY_POLICY"}

ASSUME CompiledAssumption ==
  \A c \in Compiled :
    /\ c \in Seq(Ids) /\ Len(c) \in 1 .. MaxExperiments
    /\ \A i, j \in DOMAIN c : c[i] = c[j] => i = j
ASSUME StopAfterAssumption == StopAfter \in Nat \ {0} /\ MaxExperiments \in Nat
ASSUME OutcomesAssumption == ExceptionOutcomes \subseteq Classified
ASSUME ArtifactsAssumption == Artifacts \in Nat /\ ResumeFile \in 2 .. Artifacts - 1
ASSUME OverwritesAssumption == Overwrites \subseteq BOOLEAN
ASSUME BoundsAssumption == MaxRuns \in Nat /\ MaxRerun \in Nat /\ MaxFaults \in Nat

(* A record's evidence: the experiment whose reports and ledger entry it   *)
(* holds, when it holds all of them; entry: the number of its own entry in *)
(* this run's ledger, 0 if it has none.                                    *)
Records ==
  [experiment : Experiments, outcome : Outcomes, reason : Reasons, evidence : Experiments \union {None}, entry : Nat]

(* What a resume manifest says of an experiment.                           *)
Evidence == [experiment : Experiments, evidence : Experiments]

(* The fingerprint of a checkpoint: its run and the number of its records. *)
Fingerprints == Nat \X Nat
Checkpoints == [run : Nat, previous : Fingerprints \union {None}]

ASSUME NoneAssumption == None \notin Experiments \union Fingerprints \union Checkpoints

VARIABLES
  overwrite,   \* the output policy of the directory
  runs,        \* number of runs started
  phase,       \* what the last run is doing or how it ended
  plan,        \* its experiments
  policy,      \* its execution policy
  resume,      \* its resume policy
  resumed,     \* it was given a resume manifest
  prior,       \* the evidence in it
  records,     \* execution records so far
  failures,    \* failure_count
  stopped,     \* the execution policy has stopped it
  previous,    \* previous_checkpoint_fingerprint
  ledger,      \* its evidence ledger
  written,     \* the last artifact it has written, 0 if none
  dossier,     \* reusable evidence of the last dossier that was returned
  checkpoints, \* checkpoint number -> the file
  artifacts,   \* artifact number -> the run that wrote it, 0 if none
  listed,      \* the artifacts that the last one lists
  faults       \* number of failed writes and kills so far

memory == <<plan, policy, resume, resumed, prior, records, failures, stopped, previous, ledger, written>>
disk == <<checkpoints, artifacts, listed>>
vars == <<overwrite, runs, phase, plan, policy, resume, resumed, prior, records, failures, stopped, previous, ledger,
          written, dossier, checkpoints, artifacts, listed, faults>>

Phases == {"idle", "running", "ended", "aborted", "killed"}

Init ==
  /\ overwrite \in Overwrites
  /\ runs = 0 /\ phase = "idle"
  /\ plan = <<>> /\ policy = "COLLECT_ALL" /\ resume = "RERUN" /\ resumed = FALSE /\ prior = {}
  /\ records = <<>> /\ failures = 0 /\ stopped = FALSE /\ previous = None
  /\ ledger = EmptyLedger /\ written = 0 /\ dossier = {}
  /\ checkpoints = [i \in 1 .. MaxExperiments |-> None]
  /\ artifacts = [i \in 1 .. Artifacts |-> 0] /\ listed = {}
  /\ faults = 0
----------------------------------------------------------------------------
(* run_campaign is called; the definition may be another one every time,   *)
(* and the caller passes no resume manifest, or one with the evidence it   *)
(* has from a dossier, which may be none.                                  *)
Start ==
  /\ phase # "running" /\ runs < MaxRuns
  /\ runs' = runs + 1 /\ phase' = "running"
  /\ \E c \in Compiled, k \in Commons :
       /\ runs > 0 => Len(c) <= MaxRerun
       /\ plan' = [i \in DOMAIN c |-> [id |-> c[i], common |-> k]]
  /\ policy' \in Policies /\ resume' \in ResumePolicies /\ resumed' \in BOOLEAN
  /\ prior' \in IF resumed' THEN {{}, dossier} ELSE {{}}
  /\ records' = <<>> /\ failures' = 0 /\ stopped' = FALSE /\ previous' = None
  /\ ledger' = EmptyLedger /\ written' = 0
  /\ UNCHANGED <<overwrite, dossier, disk, faults>>

(* The run is over: what it had in memory is gone.                         *)
Leave(how) ==
  /\ phase' = how
  /\ plan' = <<>> /\ policy' = "COLLECT_ALL" /\ resume' = "RERUN" /\ resumed' = FALSE /\ prior' = {}
  /\ records' = <<>> /\ failures' = 0 /\ stopped' = FALSE /\ previous' = None
  /\ ledger' = EmptyLedger /\ written' = 0

Number == Len(records) + 1
Current == plan[Number]
IsRunning == phase = "running" /\ Len(records) < Len(plan)

(* _write_json_atomic refuses a file that exists unless it may overwrite.  *)
MaySave(exists) == overwrite \/ ~ exists

Fault == faults < MaxFaults /\ faults' = faults + 1

Save(link) == checkpoints' = [checkpoints EXCEPT ![Number] = [run |-> runs, previous |-> link]]

(* Mutant: the next checkpoint is linked to one that was not written.      *)
CheckpointAssumed ==
  /\ previous' = <<runs, Number>>
  /\ \/ /\ MaySave(checkpoints[Number] # None)
        /\ Save(previous) /\ UNCHANGED faults
     \/ /\ ~ MaySave(checkpoints[Number] # None)
        /\ UNCHANGED <<checkpoints, faults>>
     \/ Fault /\ UNCHANGED checkpoints

(* Mutant: a checkpoint that cannot be written is tried again and again.   *)
CheckpointUntilSaved ==
  /\ MaySave(checkpoints[Number] # None)
  /\ Save(previous) /\ previous' = <<runs, Number>>
  /\ UNCHANGED faults

(* _write_checkpoint: a checkpoint that cannot be written is left out, and *)
(* the next one is linked to the last one that was.                        *)
Checkpoint ==
  \/ /\ MaySave(checkpoints[Number] # None)
     /\ Save(previous) /\ previous' = <<runs, Number>>
     /\ UNCHANGED faults
  \/ /\ ~ MaySave(checkpoints[Number] # None)
     /\ UNCHANGED <<checkpoints, previous, faults>>
  \/ Fault /\ UNCHANGED <<checkpoints, previous>>

Record(outcome, reason, evidence, entry) ==
  records' = Append(records, [experiment |-> Current, outcome |-> outcome, reason |-> reason,
                              evidence |-> evidence, entry |-> entry])

(* Mutant: the first failure stops the run whatever the threshold.         *)
StopsAtFirst(count, outcome) ==
  \/ policy = "FAIL_FAST" /\ outcome \in {"FAILED", "BLOCKED", "TIMED_OUT"}
  \/ policy = "STOP_AFTER_N_FAILURES"

(* _check_stop_policy                                                      *)
StopsAfter(count, outcome) ==
  \/ policy = "FAIL_FAST" /\ outcome \in {"FAILED", "BLOCKED", "TIMED_OUT"}
  \/ policy = "STOP_AFTER_N_FAILURES" /\ count >= StopAfter

Count(outcome) ==
  /\ failures' = failures + 1
  /\ stopped' = StopsAfter(failures + 1, outcome)

Unchanging == UNCHANGED <<overwrite, runs, plan, policy, resume, resumed, prior, written, dossier, artifacts, listed>>

(* A failure with a best-effort checkpoint and nothing for the ledger.     *)
Fail(outcome, reason) ==
  /\ Record(outcome, reason, None, 0) /\ Count(outcome) /\ Checkpoint
  /\ Unchanging /\ UNCHANGED <<phase, ledger>>

Skip ==
  /\ IsRunning /\ stopped
  /\ Record("SKIPPED_BY_POLICY", "STOPPED_BY_POLICY", None, 0) /\ Checkpoint
  /\ Unchanging /\ UNCHANGED <<phase, failures, stopped, ledger>>

(* The caller's registrations need not be those of the compiled campaign.  *)
MissingRegistration == IsRunning /\ ~ stopped /\ Fail("BLOCKED", "MISSING_REGISTRATION")

OtherRegistration == IsRunning /\ ~ stopped /\ Fail("STALE_RESUME_EVIDENCE", "RESUME_FINGERPRINT_MISMATCH")

(* Mutant: an incomplete experiment's evidence is taken for reusable.      *)
ReusableIncomplete(rs) ==
  {[experiment |-> r.experiment, evidence |-> r.evidence] :
     r \in {x \in rs : x.outcome \in {"COMPLETED", "INSUFFICIENT_EVIDENCE"}}}

(* build_resume_manifest takes incomplete experiments too, but they lack   *)
(* the fingerprints that match_resume_evidence asks for.                   *)
Reusable(rs) == {[experiment |-> r.experiment, evidence |-> r.evidence] : r \in {x \in rs : x.outcome = "COMPLETED"}}

(* Mutant: evidence is matched by experiment_id alone.                     *)
MatchesById(p, e) == p.experiment.id = e.id

(* match_resume_evidence: the fingerprints of the experiment, of its       *)
(* registration and of all it refers to.                                   *)
Matches(p, e) == p.experiment = e
Matched == {p \in prior : Matches(p, Current)}

MissingEvidence ==
  /\ IsRunning /\ ~ stopped /\ resume = "BLOCK" /\ Matched = {}
  /\ Fail("STALE_RESUME_EVIDENCE", "RESUME_BLOCK_MISSING_EVIDENCE")

(* Reused evidence is not given to this run's ledger.                      *)
Reuse ==
  /\ IsRunning /\ ~ stopped /\ resume # "RERUN"
  /\ \E p \in Matched : Record("COMPLETED", "", p.evidence, 0)
  /\ Checkpoint
  /\ Unchanging /\ UNCHANGED <<phase, failures, stopped, ledger>>

IsFresh ==
  /\ IsRunning /\ ~ stopped
  /\ resume = "RERUN" \/ (resume = "REUSE" /\ Matched = {})

(* The walk-forward or the confidence analysis raises.                     *)
RunFails == IsFresh /\ \E o \in ExceptionOutcomes : Fail(o, "RUNNER_ERROR")

(* The walk-forward has incomplete windows: not counted as a failure.      *)
IncompleteWindows ==
  /\ IsFresh
  /\ Record("INSUFFICIENT_EVIDENCE", "MISSING_WALK_FORWARD_EVIDENCE", None, 0) /\ Checkpoint
  /\ Unchanging /\ UNCHANGED <<phase, failures, stopped, ledger>>

Complete ==
  /\ IsFresh /\ CanIngest(ledger, Current)
  /\ ledger' = Ingest(ledger, Current)
  /\ Record("COMPLETED", "", Current, Len(ledger.entries) + 1) /\ Checkpoint
  /\ Unchanging /\ UNCHANGED <<phase, failures, stopped>>

(* The ledger refuses the evidence: this checkpoint is written outside     *)
(* _write_checkpoint, without a link, and its failure ends the run.        *)
IngestFails ==
  /\ IsFresh /\ ~ CanIngest(ledger, Current)
  /\ \/ /\ MaySave(checkpoints[Number] # None)
        /\ ledger' = Ingest(ledger, Current)
        /\ Record("FAILED", "RUNNER_ERROR", None, 0) /\ Count("FAILED")
        /\ Save(None)
        /\ Unchanging /\ UNCHANGED <<phase, previous, faults>>
     \/ /\ ~ MaySave(checkpoints[Number] # None)
        /\ Leave("aborted")
        /\ UNCHANGED <<overwrite, runs, dossier, disk, faults>>
     \/ /\ Fault /\ Leave("aborted")
        /\ UNCHANGED <<overwrite, runs, dossier, disk>>

(* The resume manifest is among the files of a run that was given one.     *)
IsDue(i) == i # ResumeFile \/ resumed
NextFile == IF IsDue(written + 1) THEN written + 1 ELSE written + 2

(* Mutant: the artifact manifest lists what it finds in the directory.     *)
ListingPresent == {i \in 1 .. Artifacts - 1 : artifacts[i] # 0}

(* What the artifact manifest lists: the files written before it.          *)
Listing == {i \in 1 .. Artifacts - 1 : IsDue(i)}

(* write_all_campaign_artifacts: one file after the other.  The caller     *)
(* gets the dossier only after the last one.                               *)
WriteArtifact ==
  /\ phase = "running" /\ Len(records) = Len(plan)
  /\ \/ /\ MaySave(artifacts[NextFile] # 0)
        /\ artifacts' = [artifacts EXCEPT ![NextFile] = runs]
        /\ IF NextFile < Artifacts
           THEN /\ written' = NextFile
                /\ UNCHANGED <<phase, plan, policy, resume, resumed, prior, records, failures, stopped, previous, ledger,
                               dossier, listed>>
           ELSE /\ Leave("ended") /\ listed' = Listing
                /\ dossier' = Reusable({records[i] : i \in DOMAIN records})
        /\ UNCHANGED <<overwrite, runs, checkpoints, faults>>
     \/ /\ ~ MaySave(artifacts[NextFile] # 0)
        /\ Leave("aborted")
        /\ UNCHANGED <<overwrite, runs, dossier, disk, faults>>
     \/ /\ Fault /\ Leave("aborted")
        /\ UNCHANGED <<overwrite, runs, dossier, disk>>

Kill ==
  /\ phase = "running" /\ Fault
  /\ Leave("killed")
  /\ UNCHANGED <<overwrite, runs, dossier, disk>>

Experiment ==
  \/ Skip \/ MissingRegistration \/ OtherRegistration \/ MissingEvidence \/ Reuse
  \/ RunFails \/ IncompleteWindows \/ Complete \/ IngestFails

Step == Experiment \/ WriteArtifact
Next == Start \/ Step \/ Kill

(* A run that is under way goes on: every experiment has a timeout, and    *)
(* nothing waits for anything.  Nobody has to start a run or to kill it.   *)
Spec == Init /\ [][Next]_vars /\ WF_vars(Step)
----------------------------------------------------------------------------
TypeOK ==
  /\ overwrite \in BOOLEAN /\ runs \in Nat /\ phase \in Phases
  /\ plan \in Seq(Experiments) /\ policy \in Policies /\ resume \in ResumePolicies
  /\ resumed \in BOOLEAN /\ prior \in SUBSET Evidence /\ records \in Seq(Records)
  /\ failures \in Nat /\ stopped \in BOOLEAN /\ previous \in Fingerprints \union {None}
  /\ ledger \in Ledgers /\ written \in Nat /\ dossier \in SUBSET Evidence
  /\ checkpoints \in [1 .. MaxExperiments -> Checkpoints \union {None}]
  /\ artifacts \in [1 .. Artifacts -> Nat] /\ listed \in SUBSET (1 .. Artifacts - 1) /\ faults \in Nat
  /\ Len(plan) <= MaxExperiments /\ Len(records) <= Len(plan) /\ written < Artifacts

(* The ledger and the execution records tell one story, although an        *)
(* experiment can fail between the two: a record with an entry is a        *)
(* completed one, every entry has exactly one record, in the same order,   *)
(* and each snapshot is the ledger as it was after that entry              *)
(* (integration.py ingest_experiment_evidence, runner.py).                 *)
RecordsMatchLedger ==
  /\ \A i \in DOMAIN records :
       records[i].entry # 0 =>
         /\ records[i].outcome = "COMPLETED"
         /\ records[i].entry \in DOMAIN ledger.entries
         /\ ledger.entries[records[i].entry] = records[i].experiment
  /\ \A i, j \in DOMAIN records :
       i < j /\ records[i].entry # 0 /\ records[j].entry # 0 => records[i].entry < records[j].entry
  /\ \A k \in DOMAIN ledger.entries : \E i \in DOMAIN records : records[i].entry = k
  /\ Len(ledger.snapshots) = Len(ledger.entries)
  /\ \A k \in DOMAIN ledger.snapshots : ledger.snapshots[k] = SubSeq(ledger.entries, 1, k)

(* Evidence counts once and for one plan: two entries of the ledger never  *)
(* rest on the same walk-forward, and inside a family they were registered *)
(* with the same plan (duplicate.py, drift.py).                            *)
EvidenceIsIndependent ==
  \A j, k \in DOMAIN ledger.entries :
    /\ j # k => WalkForward(ledger.entries[j]) # WalkForward(ledger.entries[k])
    /\ ledger.entries[j].id.family = ledger.entries[k].id.family =>
         Signature(ledger.entries[j]) = Signature(ledger.entries[k])

(* However often a campaign is resumed, also with other shared settings, a *)
(* completed experiment holds evidence of exactly that experiment          *)
(* (resume.py match_resume_evidence).                                      *)
EvidenceIsCurrent ==
  \A i \in DOMAIN records : records[i].outcome = "COMPLETED" => records[i].evidence = records[i].experiment

(* What a reader of the records counts as a failure.                       *)
IsFailure(r) == r.reason \notin {"", "STOPPED_BY_POLICY", "MISSING_WALK_FORWARD_EVIDENCE"}

(* An experiment is skipped exactly when the records before it hold what   *)
(* the execution policy stops for: a hard failure, or the n-th failure     *)
(* (runner.py _check_stop_policy).                                         *)
SkippedOnlyByPolicy ==
  \A i \in DOMAIN records :
    records[i].outcome = "SKIPPED_BY_POLICY" <=>
      \/ /\ policy = "FAIL_FAST"
         /\ \E j \in 1 .. i - 1 : records[j].outcome \in {"FAILED", "BLOCKED", "TIMED_OUT"}
      \/ /\ policy = "STOP_AFTER_N_FAILURES"
         /\ Cardinality({j \in 1 .. i - 1 : IsFailure(records[j])}) >= StopAfter

(* A checkpoint's link names an earlier checkpoint of the same run that is *)
(* on disk, or was until a later run replaced it: a write that failed is   *)
(* never linked to (runner.py _write_checkpoint).                          *)
CheckpointsAreLinked ==
  \A i \in DOMAIN checkpoints :
    checkpoints[i] # None /\ checkpoints[i].previous # None =>
      LET run == checkpoints[i].previous[1]
          j == checkpoints[i].previous[2]
      IN /\ run = checkpoints[i].run
         /\ j \in 1 .. i - 1
         /\ checkpoints[j] # None
         /\ checkpoints[j].run >= run
         /\ overwrite \/ checkpoints[j].run = run

(* The artifact manifest never lists a file of an earlier run: everything  *)
(* it lists is of its own run or, where files may be overwritten, was      *)
(* replaced since by a later run that has not got as far as the manifest.  *)
(* A later run replaces the files in order, from the first, but for the    *)
(* resume manifest, which it may leave as it is, unlisted; and where files *)
(* may not be overwritten all of them are of one run (writer.py            *)
(* _write_json_atomic, write_all_campaign_artifacts).                      *)
ArtifactsDoNotMix ==
  /\ \A i \in listed :
       artifacts[Artifacts] # 0 /\ artifacts[i] >= artifacts[Artifacts]
  /\ \A i, j \in DOMAIN artifacts : i < j /\ i # ResumeFile => artifacts[i] >= artifacts[j]
  /\ ~ overwrite =>
       \A i, j \in DOMAIN artifacts : artifacts[i] # 0 /\ artifacts[j] # 0 => artifacts[i] = artifacts[j]

(* Whatever fails and whatever the policies, a run that is not killed ends *)
(* (runner.py run_campaign_sequential).                                    *)
EveryRunEnds == phase = "running" ~> phase # "running"

(* "Checkpoint failures are isolated so they do not abort the campaign     *)
(* run" (runner.py _write_checkpoint): a run with experiments left is not  *)
(* aborted.                                                                *)
CheckpointFailuresAreIsolated ==
  [][phase = "running" /\ Len(records) < Len(plan) => phase' # "aborted"]_vars
----------------------------------------------------------------------------
(***************************************************************************)
(* The inductive invariants behind the safety properties.                  *)
(***************************************************************************)

(* Dossiers and resume manifests hold an experiment's own evidence, like   *)
(* the records they are made from.                                         *)
EvidenceInv ==
  /\ EvidenceIsCurrent
  /\ \A p \in prior \union dossier : p.evidence = p.experiment

(* An entry's reports are known to the duplicate detector, and its plan is *)
(* its family's baseline.                                                  *)
LedgerInv ==
  /\ EvidenceIsIndependent
  /\ \A k \in DOMAIN ledger.entries :
       /\ ledger.entries[k] \in ledger.ingested
       /\ ledger.baselines[ledger.entries[k].id.family] = Signature(ledger.entries[k])

(* What the next checkpoint of this run will be linked to is on disk.      *)
LinkInv ==
  /\ CheckpointsAreLinked
  /\ \A i \in DOMAIN checkpoints : checkpoints[i] # None => checkpoints[i].run <= runs
  /\ previous # None =>
       /\ previous[1] = runs
       /\ previous[2] \in 1 .. Len(records)
       /\ checkpoints[previous[2]] # None /\ checkpoints[previous[2]].run = runs

(* The artifacts of this run are those it is to write, up to the last one  *)
(* that it has written.                                                    *)
ArtifactInv ==
  /\ ArtifactsDoNotMix
  /\ \A i \in DOMAIN artifacts :
       /\ artifacts[i] <= runs
       /\ phase = "running" => (artifacts[i] = runs <=> i <= written /\ IsDue(i))

IsHard(r) == r.outcome \in {"FAILED", "BLOCKED", "TIMED_OUT"}
FailuresBefore(rs, i) == {j \in 1 .. i - 1 : IsFailure(rs[j])}

(* The run's count and its flag say what the records say.                  *)
PolicyInv ==
  /\ SkippedOnlyByPolicy
  /\ failures = Cardinality(FailuresBefore(records, Len(records) + 1))
  /\ stopped <=>
       \/ policy = "FAIL_FAST" /\ \E j \in DOMAIN records : IsHard(records[j])
       \/ policy = "STOP_AFTER_N_FAILURES" /\ failures >= StopAfter
=============================================================================
