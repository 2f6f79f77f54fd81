------------------------ MODULE CampaignRunnerProofs ------------------------
(***************************************************************************)
(* Safety of CampaignRunner for any campaigns, policies, numbers of runs   *)
(* and faults.  Every step has one of six shapes (StepShape): each         *)
(* invariant is proved for the shapes, not for the nine actions that end   *)
(* an experiment.                                                          *)
(***************************************************************************)
EXTENDS CampaignRunner, TLAPS, FiniteSetTheorems, SequenceTheorems
----------------------------------------------------------------------------
(* Types.  That a completed record has evidence is part of the invariant:  *)
(* the evidence of the next dossier is taken from it.                      *)

PlansType ==
  /\ plan \in Seq(Experiments) /\ Len(plan) <= MaxExperiments
  /\ records \in Seq(Records) /\ Len(records) <= Len(plan)

LEMMA ExperimentType ==
  ASSUME NEW e \in Experiments
  PROVE  /\ e.id \in Ids /\ e.common \in Commons /\ e.id.family \in Families
         /\ Signature(e) \in Signatures /\ Signature(e) # NoBaseline
BY NoBaselineAssumption DEF Experiments, Ids, Signature, Signatures

LEMMA CurrentType ==
  ASSUME PlansType, Len(records) < Len(plan)
  PROVE  /\ Number \in 1 .. MaxExperiments /\ Number \in 1 .. Len(plan) /\ Number = Len(records) + 1
         /\ Current \in Experiments
BY StopAfterAssumption DEF PlansType, Number, Current

LEMMA AppendType ==
  ASSUME PlansType, Len(records) < Len(plan), NEW r \in Records
  PROVE  Append(records, r) \in Seq(Records) /\ Len(Append(records, r)) <= Len(plan)
BY DEF PlansType

LEMMA RegisterType ==
  ASSUME NEW l \in Ledgers, NEW e \in Experiments
  PROVE  /\ Register(l, e) \in Ledgers
         /\ Register(l, e).entries = l.entries /\ Register(l, e).snapshots = l.snapshots
         /\ Register(l, e).ingested = l.ingested
         /\ \A f \in Families : Register(l, e).baselines[f] =
              IF f = e.id.family /\ l.baselines[f] = NoBaseline THEN Signature(e) ELSE l.baselines[f]
<1>1. e.id.family \in Families /\ Signature(e) \in Signatures
  BY ExperimentType
<1>2. l.baselines \in [Families -> Signatures \union {NoBaseline}]
  BY DEF Ledgers
<1> DEFINE b == [l.baselines EXCEPT ![e.id.family] = IF @ = NoBaseline THEN Signature(e) ELSE @]
<1>3. b \in [Families -> Signatures \union {NoBaseline}]
  BY <1>1, <1>2
<1>4. Register(l, e) = [l EXCEPT !.registered = @ \union {e}, !.baselines = b]
  BY <1>1, <1>2 DEF Register, Ledgers
<1>5. \A f \in Families : b[f] = IF f = e.id.family /\ l.baselines[f] = NoBaseline THEN Signature(e) ELSE l.baselines[f]
  BY <1>1, <1>2
<1> HIDE DEF b
<1>6. /\ Register(l, e) \in Ledgers /\ Register(l, e).baselines = b
      /\ Register(l, e).entries = l.entries /\ Register(l, e).snapshots = l.snapshots
      /\ Register(l, e).ingested = l.ingested
  BY <1>3, <1>4 DEF Ledgers
<1>7. QED
  BY <1>5, <1>6

LEMMA AddEntryType ==
  ASSUME NEW l \in Ledgers, NEW e \in Experiments
  PROVE  /\ AddEntry(l, e) \in Ledgers
         /\ AddEntry(l, e).entries = Append(l.entries, e)
         /\ AddEntry(l, e).snapshots = Append(l.snapshots, Append(l.entries, e))
         /\ AddEntry(l, e).ingested = l.ingested \union {e}
         /\ AddEntry(l, e).baselines = l.baselines
<1>1. Append(l.entries, e) \in Seq(Experiments)
  BY DEF Ledgers
<1>2. Append(l.snapshots, Append(l.entries, e)) \in Seq(Seq(Experiments))
  BY <1>1 DEF Ledgers
<1>3. QED
  BY <1>1, <1>2 DEF Ledgers, AddEntry

LEMMA IngestType ==
  ASSUME NEW l \in Ledgers, NEW e \in Experiments
  PROVE  Ingest(l, e) \in Ledgers
BY RegisterType, AddEntryType DEF Ingest

LEMMA EmptyLedgerType == EmptyLedger \in Ledgers
BY DEF EmptyLedger, Ledgers

LEMMA CheckpointType ==
  ASSUME TypeOK, Len(records) < Len(plan), Checkpoint
  PROVE  /\ checkpoints' \in [1 .. MaxExperiments -> Checkpoints \union {None}]
         /\ previous' \in Fingerprints \union {None} /\ faults' \in Nat
<1>1. Number \in 1 .. MaxExperiments /\ Number \in Nat
  BY CurrentType DEF TypeOK, PlansType
<1>2. [run |-> runs, previous |-> previous] \in Checkpoints /\ <<runs, Number>> \in Fingerprints
  BY <1>1 DEF TypeOK, Checkpoints, Fingerprints
<1>3. Save(previous) => checkpoints' \in [1 .. MaxExperiments -> Checkpoints \union {None}]
  BY <1>1, <1>2 DEF TypeOK, Save
<1>4. Fault => faults' \in Nat
  BY DEF Fault, TypeOK
<1>5. QED
  BY <1>2, <1>3, <1>4 DEF TypeOK, Checkpoint

LEMMA LeaveType ==
  ASSUME NEW how \in Phases, Leave(how)
  PROVE  /\ phase' \in Phases /\ plan' \in Seq(Experiments) /\ policy' \in Policies /\ resume' \in ResumePolicies
         /\ prior' \in SUBSET Evidence /\ records' \in Seq(Records) /\ failures' \in Nat /\ stopped' \in BOOLEAN
         /\ previous' \in Fingerprints \union {None} /\ ledger' \in Ledgers /\ written' \in Nat
         /\ Len(plan') <= MaxExperiments /\ Len(records') <= Len(plan') /\ written' < Artifacts /\ resumed' \in BOOLEAN
<1>1. plan' \in Seq(Experiments) /\ records' \in Seq(Records) /\ Len(plan') = 0 /\ Len(records') = 0
  BY DEF Leave
<1>2. phase' \in Phases /\ policy' \in Policies /\ resume' \in ResumePolicies /\ prior' \in SUBSET Evidence
      /\ resumed' \in BOOLEAN
  BY DEF Leave, Policies, ResumePolicies
<1>3. failures' \in Nat /\ stopped' \in BOOLEAN /\ previous' \in Fingerprints \union {None} /\ ledger' \in Ledgers
  BY EmptyLedgerType DEF Leave
<1>4. written' \in Nat /\ written' < Artifacts
  BY ArtifactsAssumption DEF Leave
<1>5. QED
  BY <1>1, <1>2, <1>3, <1>4, StopAfterAssumption

----------------------------------------------------------------------------
(* The shape of a step.                                                    *)

Counted(o, r) ==
  \/ /\ ~ stopped /\ Count(o)
     /\ o \in Classified \union {"STALE_RESUME_EVIDENCE"}
     /\ r \notin {"", "STOPPED_BY_POLICY", "MISSING_WALK_FORWARD_EVIDENCE"}
  \/ /\ UNCHANGED <<failures, stopped>> /\ (stopped <=> o = "SKIPPED_BY_POLICY")
     /\ o \in {"COMPLETED", "INSUFFICIENT_EVIDENCE", "SKIPPED_BY_POLICY"}
     /\ r \in {"", "STOPPED_BY_POLICY", "MISSING_WALK_FORWARD_EVIDENCE"}

Linked ==
  \/ Checkpoint
  \/ MaySave(checkpoints[Number] # None) /\ Save(None) /\ UNCHANGED <<previous, faults>>

Ledgered(o, n) ==
  \/ n = 0 /\ ledger' = ledger
  \/ n = 0 /\ ~ CanIngest(ledger, Current) /\ ledger' = Ingest(ledger, Current)
  \/ /\ n = Len(ledger.entries) + 1 /\ o = "COMPLETED"
     /\ CanIngest(ledger, Current) /\ ledger' = Ingest(ledger, Current)

Ends(o, r, v, n) ==
  /\ IsRunning /\ Unchanging /\ phase' = phase
  /\ o \in Outcomes /\ r \in Reasons /\ v \in Experiments \union {None} /\ n \in Nat
  /\ Record(o, r, v, n) /\ (o = "COMPLETED" => v = Current)
  /\ Counted(o, r) /\ Linked /\ Ledgered(o, n)

LEMMA FailEnds ==
  ASSUME IsRunning, ~ stopped, NEW o \in Classified \union {"STALE_RESUME_EVIDENCE"},
         NEW r \in Reasons \ {"", "STOPPED_BY_POLICY", "MISSING_WALK_FORWARD_EVIDENCE"}, Fail(o, r)
  PROVE  Ends(o, r, None, 0)
<1>1. o \in Outcomes /\ o # "COMPLETED"
  BY DEF Outcomes, Classified
<1>2. QED
  BY <1>1 DEF Fail, Ends, Counted, Linked, Ledgered

(* An experiment that does not abort the run ends in exactly one record.   *)
LEMMA ExperimentEnds ==
  ASSUME TypeOK, EvidenceInv, Experiment, phase' # "aborted"
  PROVE  \E o \in Outcomes, r \in Reasons, v \in Experiments \union {None}, n \in Nat : Ends(o, r, v, n)
<1>1. IsRunning => Current \in Experiments
  BY CurrentType DEF TypeOK, PlansType, IsRunning
<1>2. Len(ledger.entries) + 1 \in Nat
  BY DEF TypeOK, Ledgers
<1>3. CASE Skip
  <2>1. Ends("SKIPPED_BY_POLICY", "STOPPED_BY_POLICY", None, 0)
    BY <1>3 DEF Skip, Ends, Outcomes, Reasons, Counted, Linked, Ledgered
  <2>2. QED
    BY <2>1 DEF Ends
<1>4. CASE MissingRegistration
  <2>1. Ends("BLOCKED", "MISSING_REGISTRATION", None, 0)
    BY <1>4, FailEnds DEF MissingRegistration, Reasons, Classified
  <2>2. QED
    BY <2>1 DEF Ends
<1>5. CASE OtherRegistration
  <2>1. Ends("STALE_RESUME_EVIDENCE", "RESUME_FINGERPRINT_MISMATCH", None, 0)
    BY <1>5, FailEnds DEF OtherRegistration, Reasons
  <2>2. QED
    BY <2>1 DEF Ends
<1>6. CASE MissingEvidence
  <2>1. Ends("STALE_RESUME_EVIDENCE", "RESUME_BLOCK_MISSING_EVIDENCE", None, 0)
    BY <1>6, FailEnds DEF MissingEvidence, Reasons
  <2>2. QED
    BY <2>1 DEF Ends
<1>7. CASE Reuse
  <2>1. PICK p \in Matched : Record("COMPLETED", "", p.evidence, 0)
    BY <1>7 DEF Reuse
  <2>2. p \in prior /\ p.evidence = Current
    BY <2>1 DEF Matched, Matches, EvidenceInv
  <2>3. Ends("COMPLETED", "", Current, 0)
    BY <1>1, <1>7, <2>1, <2>2 DEF Reuse, Ends, Outcomes, Reasons, Counted, Linked, Ledgered
  <2>4. QED
    BY <2>3 DEF Ends
<1>8. CASE RunFails
  <2>1. PICK o \in ExceptionOutcomes : Fail(o, "RUNNER_ERROR")
    BY <1>8 DEF RunFails
  <2>2. Ends(o, "RUNNER_ERROR", None, 0)
    BY <1>8, <2>1, FailEnds, OutcomesAssumption DEF RunFails, IsFresh, Reasons
  <2>3. QED
    BY <2>2 DEF Ends
<1>9. CASE IncompleteWindows
  <2>1. Ends("INSUFFICIENT_EVIDENCE", "MISSING_WALK_FORWARD_EVIDENCE", None, 0)
    BY <1>9 DEF IncompleteWindows, IsFresh, Ends, Outcomes, Classified, Reasons, Counted, Linked, Ledgered
  <2>2. QED
    BY <2>1 DEF Ends
<1>10. CASE Complete
  <2>1. Ends("COMPLETED", "", Current, Len(ledger.entries) + 1)
    BY <1>1, <1>2, <1>10 DEF Complete, IsFresh, Ends, Outcomes, Reasons, Counted, Linked, Ledgered
  <2>2. QED
    BY <2>1 DEF Ends
<1>11. CASE IngestFails
  <2>1. /\ MaySave(checkpoints[Number] # None) /\ Save(None)
        /\ ledger' = Ingest(ledger, Current) /\ Record("FAILED", "RUNNER_ERROR", None, 0) /\ Count("FAILED")
        /\ Unchanging /\ UNCHANGED <<phase, previous, faults>>
    BY <1>11 DEF IngestFails, Leave
  <2>2. Ends("FAILED", "RUNNER_ERROR", None, 0)
    BY <1>11, <2>1 DEF IngestFails, IsFresh, Ends, Outcomes, Classified, Reasons, Counted, Linked, Ledgered
  <2>3. QED
    BY <2>2 DEF Ends
<1>12. QED
  BY <1>3, <1>4, <1>5, <1>6, <1>7, <1>8, <1>9, <1>10, <1>11 DEF Experiment

Abandon(how) ==
  /\ how \in {"aborted", "killed"} /\ Leave(how)
  /\ UNCHANGED <<overwrite, runs, dossier, disk>> /\ faults' \in Nat

LEMMA ExperimentAborts ==
  ASSUME TypeOK, Experiment, phase' = "aborted"
  PROVE  Abandon("aborted")
<1>1. phase = "running"
  BY DEF Experiment, Skip, MissingRegistration, OtherRegistration, MissingEvidence, Reuse, RunFails,
         IncompleteWindows, Complete, IngestFails, IsFresh, IsRunning
<1>2. IngestFails
  BY <1>1 DEF Experiment, Skip, MissingRegistration, OtherRegistration, MissingEvidence, Reuse, RunFails,
              IncompleteWindows, Complete, Fail
<1>3. QED
  BY <1>1, <1>2 DEF IngestFails, Abandon, Fault, TypeOK

(* The last artifact, and one before it.                                   *)
Finish ==
  /\ phase = "running" /\ Len(records) = Len(plan) /\ NextFile = Artifacts
  /\ MaySave(artifacts[NextFile] # 0) /\ artifacts' = [artifacts EXCEPT ![NextFile] = runs]
  /\ Leave("ended") /\ listed' = Listing /\ dossier' = Reusable({records[i] : i \in DOMAIN records})
  /\ UNCHANGED <<overwrite, runs, checkpoints, faults>>

WriteOne ==
  /\ phase = "running" /\ NextFile < Artifacts
  /\ MaySave(artifacts[NextFile] # 0) /\ artifacts' = [artifacts EXCEPT ![NextFile] = runs]
  /\ written' = NextFile
  /\ UNCHANGED <<overwrite, runs, checkpoints, faults, phase, plan, policy, resume, resumed, prior, records, failures,
                 stopped, previous, ledger, dossier, listed>>

(* The next file is one that is due, and the last of those up to it.       *)
LEMMA NextFileMeans ==
  ASSUME TypeOK
  PROVE  /\ NextFile \in 1 .. Artifacts /\ NextFile \in Nat /\ written < NextFile /\ IsDue(NextFile)
         /\ \A i \in 1 .. Artifacts : IsDue(i) => (i <= NextFile <=> i <= written \/ i = NextFile)
<1>1. written \in Nat /\ written < Artifacts /\ Artifacts \in Nat /\ ResumeFile \in 2 .. Artifacts - 1
  BY ArtifactsAssumption DEF TypeOK
<1>2. CASE IsDue(written + 1)
  BY <1>1, <1>2 DEF NextFile
<1>3. CASE ~ IsDue(written + 1)
  <2>1. NextFile = written + 2 /\ written + 1 = ResumeFile
    BY <1>3 DEF NextFile, IsDue
  <2>2. IsDue(written + 2)
    BY <1>1, <2>1 DEF IsDue
  <2>3. \A i \in 1 .. Artifacts : IsDue(i) => i # written + 1
    BY <1>3
  <2>4. QED
    BY <1>1, <2>1, <2>2, <2>3
<1>4. QED
  BY <1>2, <1>3

(* What a step can be.                                                     *)
LEMMA StepShape ==
  ASSUME TypeOK, EvidenceInv, [Next]_vars
  PROVE  \/ Start
         \/ \E o \in Outcomes, r \in Reasons, v \in Experiments \union {None}, n \in Nat : Ends(o, r, v, n)
         \/ Abandon("aborted") \/ Abandon("killed") \/ Finish \/ WriteOne \/ UNCHANGED vars
<1>1. CASE Experiment
  BY <1>1, ExperimentEnds, ExperimentAborts
<1>2. CASE WriteArtifact
  <2>1. NextFile < Artifacts \/ NextFile = Artifacts
    BY NextFileMeans, ArtifactsAssumption
  <2>2. QED
    BY <1>2, <2>1 DEF WriteArtifact, Finish, WriteOne, Abandon, Fault, TypeOK
<1>3. CASE Kill
  BY <1>3 DEF Kill, Abandon, Fault, TypeOK
<1>4. QED
  BY <1>1, <1>2, <1>3 DEF Next, Step
----------------------------------------------------------------------------
LEMMA LinkedType ==
  ASSUME TypeOK, IsRunning, Linked
  PROVE  /\ checkpoints' \in [1 .. MaxExperiments -> Checkpoints \union {None}]
         /\ previous' \in Fingerprints \union {None} /\ faults' \in Nat
<1>1. CASE Checkpoint
  BY <1>1, CheckpointType DEF IsRunning
<1>2. CASE MaySave(checkpoints[Number] # None) /\ Save(None) /\ UNCHANGED <<previous, faults>>
  <2>1. Number \in 1 .. MaxExperiments
    BY CurrentType DEF TypeOK, PlansType, IsRunning
  <2>2. [run |-> runs, previous |-> None] \in Checkpoints
    BY DEF TypeOK, Checkpoints
  <2>3. QED
    BY <1>2, <2>1, <2>2 DEF Save, TypeOK
<1>3. QED
  BY <1>1, <1>2 DEF Linked

LEMMA EndsType ==
  ASSUME TypeOK, NEW o, NEW r, NEW v, NEW n, Ends(o, r, v, n)
  PROVE  TypeOK'
<1> DEFINE rec == [experiment |-> Current, outcome |-> o, reason |-> r, evidence |-> v, entry |-> n]
<1>1. Current \in Experiments /\ PlansType /\ Len(records) < Len(plan)
  BY CurrentType DEF TypeOK, PlansType, IsRunning, Ends
<1>2. rec \in Records
  BY <1>1 DEF Ends, Records
<1>3. records' = Append(records, rec)
  BY DEF Ends, Record
<1>4. records' \in Seq(Records) /\ Len(records') <= Len(plan)
  BY <1>1, <1>2, <1>3, AppendType
<1>5. failures' \in Nat /\ stopped' \in BOOLEAN
  <2>1. StopsAfter(failures + 1, o) \in BOOLEAN
    BY DEF StopsAfter
  <2>2. stopped' \in BOOLEAN
    BY <2>1, Zenon DEF Ends, Counted, Count, TypeOK
  <2>3. failures' = failures + 1 \/ failures' = failures
    BY Zenon DEF Ends, Counted, Count
  <2>4. failures' \in Nat
    BY <2>3 DEF TypeOK
  <2>5. QED
    BY <2>2, <2>4
<1>6. ledger' \in Ledgers
  BY <1>1, IngestType DEF Ends, Ledgered, TypeOK
<1>7. checkpoints' \in [1 .. MaxExperiments -> Checkpoints \union {None}] /\ previous' \in Fingerprints \union {None}
      /\ faults' \in Nat
  BY LinkedType DEF Ends
<1>8. QED
  BY <1>4, <1>5, <1>6, <1>7 DEF Ends, Unchanging, TypeOK

LEMMA StartType ==
  ASSUME TypeOK, Start
  PROVE  TypeOK'
<1>1. plan' \in Seq(Experiments) /\ Len(plan') <= MaxExperiments
  <2>1. PICK c \in Compiled, k \in Commons : plan' = [i \in DOMAIN c |-> [id |-> c[i], common |-> k]]
    BY DEF Start
  <2>2. c \in Seq(Ids) /\ Len(c) \in 1 .. MaxExperiments
    BY CompiledAssumption
  <2>3. \A i \in DOMAIN c : [id |-> c[i], common |-> k] \in Experiments
    BY <2>2 DEF Experiments
  <2>4. plan' \in [1 .. Len(c) -> Experiments] /\ Len(c) \in Nat
    BY <2>1, <2>2, <2>3, StopAfterAssumption
  <2>5. QED
    BY <2>2, <2>4
<1>2. records' \in Seq(Records) /\ Len(records') = 0 /\ Len(plan') >= 0
  BY <1>1 DEF Start
<1>3. ledger' \in Ledgers
  BY EmptyLedgerType DEF Start
<1>4. written' \in Nat /\ written' < Artifacts
  BY ArtifactsAssumption DEF Start
<1>5. runs' \in Nat /\ phase' \in Phases /\ policy' \in Policies /\ resume' \in ResumePolicies
      /\ resumed' \in BOOLEAN /\ prior' \in SUBSET Evidence
  BY DEF Start, TypeOK, Phases
<1>6. QED
  BY <1>1, <1>2, <1>3, <1>4, <1>5 DEF Start, TypeOK, disk

LEMMA ReusableType ==
  ASSUME TypeOK, EvidenceInv
  PROVE  Reusable({records[i] : i \in DOMAIN records})
           \in SUBSET {p \in Evidence : p.evidence = p.experiment}
<1> SUFFICES ASSUME NEW i \in DOMAIN records, records[i].outcome = "COMPLETED"
             PROVE  /\ [experiment |-> records[i].experiment, evidence |-> records[i].evidence] \in Evidence
                    /\ records[i].evidence = records[i].experiment
  BY DEF Reusable
<1>1. records[i] \in Records
  BY DEF TypeOK
<1>2. QED
  BY <1>1 DEF EvidenceInv, EvidenceIsCurrent, Records, Evidence

LEMMA TypeStep ==
  ASSUME TypeOK, EvidenceInv, [Next]_vars
  PROVE  TypeOK'
<1>1. CASE Start
  BY <1>1, StartType
<1>2. ASSUME NEW o, NEW r, NEW v, NEW n, Ends(o, r, v, n)
      PROVE  TypeOK'
  BY <1>2, EndsType
<1>3. ASSUME NEW how, Abandon(how)
      PROVE  TypeOK'
  <2>1. how \in Phases /\ Leave(how)
    BY <1>3 DEF Abandon, Phases
  <2>2. QED
    BY <1>3, <2>1, LeaveType DEF Abandon, TypeOK, disk
<1>4. CASE Finish
  <2>1. "ended" \in Phases /\ Leave("ended")
    BY <1>4 DEF Finish, Phases
  <2>2. dossier' \in SUBSET Evidence
    BY <1>4, ReusableType DEF Finish
  <2>3. artifacts' \in [1 .. Artifacts -> Nat] /\ listed' \in SUBSET (1 .. Artifacts - 1)
    BY <1>4 DEF Finish, Listing, TypeOK
  <2>4. QED
    BY <1>4, <2>1, <2>2, <2>3, LeaveType DEF Finish, TypeOK
<1>5. CASE WriteOne
  <2>1. artifacts' \in [1 .. Artifacts -> Nat] /\ written' \in Nat /\ written' < Artifacts
    BY <1>5, NextFileMeans DEF WriteOne, TypeOK
  <2>2. QED
    BY <1>5, <2>1 DEF WriteOne, TypeOK
<1>6. CASE UNCHANGED vars
  BY <1>6 DEF vars, TypeOK
<1>7. QED
  BY <1>1, <1>2, <1>3, <1>4, <1>5, <1>6, StepShape

LEMMA RecordsAfter ==
  ASSUME TypeOK, NEW o, NEW r, NEW v, NEW n, Ends(o, r, v, n)
  PROVE  /\ Len(records) \in Nat /\ DOMAIN records = 1 .. Len(records) /\ Number = Len(records) + 1
         /\ Len(records') = Len(records) + 1 /\ DOMAIN records' = 1 .. Len(records) + 1
         /\ \A i \in 1 .. Len(records) : records'[i] = records[i]
         /\ records'[Len(records) + 1] =
              [experiment |-> Current, outcome |-> o, reason |-> r, evidence |-> v, entry |-> n]
<1> DEFINE rec == [experiment |-> Current, outcome |-> o, reason |-> r, evidence |-> v, entry |-> n]
<1>1. Current \in Experiments
  BY CurrentType DEF TypeOK, PlansType, IsRunning, Ends
<1>2. rec \in Records /\ records' = Append(records, rec)
  BY <1>1 DEF Ends, Records, Record
<1> HIDE DEF rec
<1>3. records \in Seq(Records)
  BY DEF TypeOK
<1>4. /\ Len(records') = Len(records) + 1 /\ DOMAIN records' = 1 .. Len(records) + 1
      /\ \A i \in 1 .. Len(records) : records'[i] = records[i]
      /\ records'[Len(records) + 1] = rec
  BY <1>2, <1>3
<1>5. QED
  BY <1>3, <1>4 DEF Number, rec

LEMMA NewRecord ==
  ASSUME TypeOK, NEW o, NEW r, NEW v, NEW n, Ends(o, r, v, n), NEW i \in DOMAIN records'
  PROVE  \/ i \in DOMAIN records /\ records'[i] = records[i]
         \/ /\ i = Len(records) + 1
            /\ records'[i] = [experiment |-> Current, outcome |-> o, reason |-> r, evidence |-> v, entry |-> n]
<1>1. i \in 1 .. Len(records) + 1 /\ Len(records) \in Nat
  BY RecordsAfter
<1>2. CASE i \in 1 .. Len(records)
  <2>1. records'[i] = records[i] /\ DOMAIN records = 1 .. Len(records)
    BY <1>2, RecordsAfter
  <2>2. QED
    BY <1>2, <2>1
<1>3. CASE i = Len(records) + 1
  <2> DEFINE rec == [experiment |-> Current, outcome |-> o, reason |-> r, evidence |-> v, entry |-> n]
  <2>1. records'[Len(records) + 1] = rec
    BY RecordsAfter
  <2> HIDE DEF rec
  <2>2. i = Len(records) + 1 /\ records'[i] = rec
    BY <1>3, <2>1
  <2>3. QED
    BY <2>2 DEF rec
<1>4. i \in 1 .. Len(records) \/ i = Len(records) + 1
  BY <1>1
<1>5. QED
  BY <1>2, <1>3, <1>4

LEMMA EvidenceStep ==
  ASSUME TypeOK, EvidenceInv, [Next]_vars
  PROVE  EvidenceInv'
<1>1. CASE Start
  BY <1>1 DEF Start, EvidenceInv, EvidenceIsCurrent
<1>2. ASSUME NEW o, NEW r, NEW v, NEW n, Ends(o, r, v, n)
      PROVE  EvidenceInv'
  <2>1. prior' = prior /\ dossier' = dossier
    BY <1>2 DEF Ends, Unchanging
  <2>2. o = "COMPLETED" => v = Current
    BY <1>2 DEF Ends
  <2>3. EvidenceIsCurrent'
    <3> SUFFICES ASSUME NEW i \in DOMAIN records', records'[i].outcome = "COMPLETED"
                 PROVE  records'[i].evidence = records'[i].experiment
      BY DEF EvidenceIsCurrent
    <3>1. CASE i \in DOMAIN records /\ records'[i] = records[i]
      BY <3>1 DEF EvidenceInv, EvidenceIsCurrent
    <3>2. CASE records'[i] = [experiment |-> Current, outcome |-> o, reason |-> r, evidence |-> v, entry |-> n]
      BY <2>2, <3>2
    <3>3. QED
      BY <1>2, <3>1, <3>2, NewRecord
  <2>4. QED
    BY <2>1, <2>3 DEF EvidenceInv
<1>3. ASSUME NEW how, Abandon(how)
      PROVE  EvidenceInv'
  BY <1>3 DEF Abandon, Leave, EvidenceInv, EvidenceIsCurrent
<1>4. CASE Finish
  BY <1>4, ReusableType DEF Finish, Leave, EvidenceInv, EvidenceIsCurrent
<1>5. CASE WriteOne
  BY <1>5 DEF WriteOne, EvidenceInv, EvidenceIsCurrent
<1>6. CASE UNCHANGED vars
  BY <1>6 DEF vars, EvidenceInv, EvidenceIsCurrent
<1>7. QED
  BY <1>1, <1>2, <1>3, <1>4, <1>5, <1>6, StepShape

LEMMA InitType == Init => TypeOK /\ EvidenceInv
<1> SUFFICES ASSUME Init
             PROVE  TypeOK /\ EvidenceInv
  OBVIOUS
<1>1. plan \in Seq(Experiments) /\ records \in Seq(Records) /\ Len(plan) = 0 /\ Len(records) = 0
  BY DEF Init
<1>2. ledger \in Ledgers
  BY EmptyLedgerType DEF Init
<1>3. written \in Nat /\ written < Artifacts /\ 0 <= MaxExperiments
  BY ArtifactsAssumption, StopAfterAssumption DEF Init
<1>4. /\ checkpoints \in [1 .. MaxExperiments -> Checkpoints \union {None}]
      /\ artifacts \in [1 .. Artifacts -> Nat] /\ listed \in SUBSET (1 .. Artifacts - 1)
  BY DEF Init
<1>5. overwrite \in BOOLEAN /\ stopped \in BOOLEAN /\ resumed \in BOOLEAN
  BY OverwritesAssumption DEF Init
<1>6. /\ runs \in Nat /\ phase \in Phases /\ policy \in Policies /\ resume \in ResumePolicies
      /\ prior \in SUBSET Evidence /\ failures \in Nat /\ previous \in Fingerprints \union {None}
      /\ dossier \in SUBSET Evidence /\ faults \in Nat
  BY DEF Init, Phases, Policies, ResumePolicies
<1>7. TypeOK
  BY <1>1, <1>2, <1>3, <1>4, <1>5, <1>6 DEF TypeOK
<1>8. EvidenceInv
  BY DEF Init, EvidenceInv, EvidenceIsCurrent
<1>9. QED
  BY <1>7, <1>8

(* The type of the state, and that evidence is its experiment's own, hold  *)
(* together or not at all.                                                 *)
LEMMA EvidenceInvariant == Spec => [](TypeOK /\ EvidenceInv)
<1>1. TypeOK /\ EvidenceInv /\ [Next]_vars => (TypeOK /\ EvidenceInv)'
  BY TypeStep, EvidenceStep
<1>2. QED
  BY <1>1, InitType, PTL DEF Spec

(* The state of the runs and of their directory is well typed.             *)
THEOREM TypeInvariant == Spec => []TypeOK
BY EvidenceInvariant, PTL

(* A completed experiment holds evidence of exactly that experiment,       *)
(* however often and with whatever settings the campaign was resumed       *)
(* (resume.py match_resume_evidence).                                      *)
THEOREM EvidenceIsAlwaysCurrent == Spec => []EvidenceIsCurrent
<1>1. EvidenceInv => EvidenceIsCurrent
  BY DEF EvidenceInv
<1>2. QED
  BY <1>1, EvidenceInvariant, PTL
----------------------------------------------------------------------------
(* Artifacts: those that the writing run is to write come first, so a file *)
(* that is written next to them never precedes one of an earlier run.      *)

LEMMA ArtifactWritten ==
  ASSUME TypeOK, ArtifactInv, phase = "running",
         MaySave(artifacts[NextFile] # 0), artifacts' = [artifacts EXCEPT ![NextFile] = runs],
         (listed' = listed /\ NextFile < Artifacts) \/ (listed' = Listing /\ NextFile = Artifacts),
         overwrite' = overwrite, runs' = runs
  PROVE  /\ ArtifactsDoNotMix'
         /\ \A i \in DOMAIN artifacts' :
              artifacts'[i] <= runs' /\ (artifacts'[i] = runs' <=> i <= NextFile /\ IsDue(i))
<1>1. PICK f \in 1 .. Artifacts : f = NextFile
  BY NextFileMeans
<1>2. /\ DOMAIN artifacts = 1 .. Artifacts /\ DOMAIN artifacts' = 1 .. Artifacts
      /\ \A i \in 1 .. Artifacts : artifacts[i] \in Nat
      /\ written \in Nat /\ runs \in Nat /\ Artifacts \in Nat /\ ResumeFile \in 2 .. Artifacts - 1
  BY ArtifactsAssumption DEF TypeOK
<1>3. written < f /\ IsDue(f) /\ \A i \in 1 .. Artifacts : IsDue(i) => (i <= f <=> i <= written \/ i = f)
  BY <1>1, NextFileMeans
<1>4. \A i \in 1 .. Artifacts : artifacts'[i] = IF i = f THEN runs ELSE artifacts[i]
  BY <1>1, <1>2 DEF TypeOK
<1>5. \A i \in 1 .. Artifacts : artifacts[i] <= runs /\ (artifacts[i] = runs <=> i <= written /\ IsDue(i))
  BY <1>2 DEF ArtifactInv
<1>6. \A i \in 1 .. Artifacts : i # ResumeFile => IsDue(i)
  BY DEF IsDue
<1>7. \A i \in 1 .. Artifacts : artifacts'[i] <= runs /\ (artifacts'[i] = runs <=> i <= f /\ IsDue(i))
  BY <1>2, <1>3, <1>4, <1>5
<1>8. /\ \A i \in listed : artifacts[Artifacts] # 0 /\ artifacts[i] >= artifacts[Artifacts]
      /\ \A i, j \in 1 .. Artifacts : i < j /\ i # ResumeFile => artifacts[i] >= artifacts[j]
      /\ ~ overwrite =>
           \A i, j \in 1 .. Artifacts : artifacts[i] # 0 /\ artifacts[j] # 0 => artifacts[i] = artifacts[j]
  BY <1>2 DEF ArtifactInv, ArtifactsDoNotMix
<1>9. ASSUME NEW i \in listed'
      PROVE  artifacts'[Artifacts] # 0 /\ artifacts'[i] >= artifacts'[Artifacts]
  <2>1. CASE listed' = listed /\ f < Artifacts
    <3>1. i \in 1 .. Artifacts - 1 /\ artifacts[Artifacts] # 0 /\ artifacts[i] >= artifacts[Artifacts]
      BY <1>8, <1>9, <2>1 DEF TypeOK
    <3>2. Artifacts \in 1 .. Artifacts /\ i \in 1 .. Artifacts
      BY <1>2, <3>1
    <3>3. QED
      BY <1>2, <1>4, <1>5, <2>1, <3>1, <3>2
  <2>2. CASE listed' = Listing /\ f = Artifacts
    <3>1. i \in 1 .. Artifacts /\ i < f /\ IsDue(i)
      BY <1>2, <1>9, <2>2 DEF Listing
    <3>2. artifacts'[i] = runs /\ artifacts'[f] = runs
      BY <1>2, <1>4, <1>7, <3>1
    <3>3. runs # 0
      BY <1>2, <1>3, <1>5
    <3>4. QED
      BY <1>2, <2>2, <3>2, <3>3
  <2>3. QED
    BY <1>1, <2>1, <2>2
<1>10. ASSUME NEW i \in 1 .. Artifacts, NEW j \in 1 .. Artifacts, i < j, i # ResumeFile
       PROVE  artifacts'[i] >= artifacts'[j]
  <2>1. CASE j = f
    BY <1>2, <1>6, <1>7, <1>10, <2>1
  <2>2. CASE j # f
    <3>1. artifacts[i] >= artifacts[j] /\ artifacts[i] <= runs /\ artifacts'[j] = artifacts[j]
      BY <1>4, <1>5, <1>8, <1>10, <2>2
    <3>2. artifacts'[i] \in {artifacts[i], runs}
      BY <1>4
    <3>3. QED
      BY <1>2, <3>1, <3>2
  <2>3. QED
    BY <2>1, <2>2
<1>11. ASSUME ~ overwrite
       PROVE  \A i \in 1 .. Artifacts : artifacts'[i] # 0 => artifacts'[i] = runs
  <2>1. artifacts[f] = 0
    BY <1>1, <1>11 DEF MaySave
  <2>2. 1 \in 1 .. Artifacts /\ 1 # ResumeFile
    BY <1>2
  <2>3. CASE f = 1
    <3>1. \A i \in 1 .. Artifacts : i # 1 => artifacts[i] = 0
      BY <1>2, <1>8, <2>1, <2>2, <2>3
    <3>2. QED
      BY <1>4, <2>3, <3>1
  <2>4. CASE f # 1
    <3>1. artifacts[1] = runs
      <4>1. 1 <= f /\ IsDue(1)
        BY <1>2, <1>6, <2>2
      <4>2. QED
        BY <1>3, <1>5, <2>2, <2>4, <4>1
    <3>2. \A i \in 1 .. Artifacts : artifacts[i] # 0 => artifacts[i] = runs
      BY <1>2, <1>5, <1>8, <1>11, <2>2, <3>1
    <3>3. QED
      BY <1>4, <3>2
  <2>5. QED
    BY <2>3, <2>4
<1>12. QED
  BY <1>1, <1>2, <1>7, <1>9, <1>10, <1>11 DEF ArtifactsDoNotMix

LEMMA ArtifactStep ==
  ASSUME TypeOK, EvidenceInv, ArtifactInv, [Next]_vars
  PROVE  ArtifactInv'
<1>1. CASE Start
  <2>1. /\ \A i \in DOMAIN artifacts : artifacts[i] \in Nat /\ artifacts[i] <= runs /\ i \in Nat /\ i > 0
        /\ runs \in Nat /\ runs' = runs + 1 /\ artifacts' = artifacts /\ listed' = listed /\ overwrite' = overwrite
        /\ written' = 0
    BY <1>1 DEF Start, disk, TypeOK, ArtifactInv
  <2>2. \A i \in DOMAIN artifacts' : artifacts'[i] <= runs' /\ ~ artifacts'[i] = runs' /\ ~ i <= written'
    BY <2>1
  <2>3. QED
    BY <2>1, <2>2 DEF ArtifactInv, ArtifactsDoNotMix
<1>2. ASSUME NEW o, NEW r, NEW v, NEW n, Ends(o, r, v, n)
      PROVE  ArtifactInv'
  BY <1>2 DEF Ends, Unchanging, ArtifactInv, ArtifactsDoNotMix, IsDue
<1>3. ASSUME NEW how, Abandon(how)
      PROVE  ArtifactInv'
  BY <1>3 DEF Abandon, Leave, disk, ArtifactInv, ArtifactsDoNotMix
<1>4. CASE Finish
  <2>1. phase' = "ended"
    BY <1>4 DEF Finish, Leave
  <2>2. QED
    BY <1>4, <2>1, ArtifactWritten DEF Finish, ArtifactInv
<1>5. CASE WriteOne
  <2>1. /\ written' = NextFile /\ resumed' = resumed /\ phase = "running" /\ MaySave(artifacts[NextFile] # 0)
        /\ artifacts' = [artifacts EXCEPT ![NextFile] = runs]
        /\ listed' = listed /\ NextFile < Artifacts /\ overwrite' = overwrite /\ runs' = runs
    BY <1>5, Zenon DEF WriteOne
  <2>2. /\ ArtifactsDoNotMix'
        /\ \A i \in DOMAIN artifacts' :
             artifacts'[i] <= runs' /\ (artifacts'[i] = runs' <=> i <= NextFile /\ IsDue(i))
    BY <2>1, ArtifactWritten, Zenon
  <2>3. \A i : IsDue(i)' <=> IsDue(i)
    BY <2>1 DEF IsDue
  <2>4. QED
    BY <2>1, <2>2, <2>3 DEF ArtifactInv
<1>6. CASE UNCHANGED vars
  BY <1>6 DEF vars, ArtifactInv, ArtifactsDoNotMix, IsDue
<1>7. QED
  BY <1>1, <1>2, <1>3, <1>4, <1>5, <1>6, StepShape

(* The artifact manifest never lists a file of an earlier run; but for the *)
(* resume manifest files are replaced in order, from the first; and where  *)
(* files may not be overwritten all of them are of one run (writer.py      *)
(* write_all_campaign_artifacts).                                          *)
THEOREM ArtifactsNeverMix == Spec => []ArtifactsDoNotMix
<1>1. Init => ArtifactInv
  BY ArtifactsAssumption DEF Init, ArtifactInv, ArtifactsDoNotMix
<1>2. TypeOK /\ EvidenceInv /\ ArtifactInv /\ [Next]_vars => ArtifactInv'
  BY ArtifactStep
<1>3. ArtifactInv => ArtifactsDoNotMix
  BY DEF ArtifactInv
<1>4. QED
  BY <1>1, <1>2, <1>3, EvidenceInvariant, PTL DEF Spec
----------------------------------------------------------------------------
(* Checkpoints: only a checkpoint that was written is linked to.           *)

LEMMA CheckpointSaved ==
  ASSUME TypeOK, LinkInv, IsRunning, MaySave(checkpoints[Number] # None), NEW link \in {previous, None}, Save(link),
         overwrite' = overwrite
  PROVE  /\ CheckpointsAreLinked'
         /\ \A i \in DOMAIN checkpoints' : checkpoints'[i] # None => checkpoints'[i].run <= runs
         /\ \A i \in 1 .. Len(records) : checkpoints'[i] = checkpoints[i]
         /\ checkpoints'[Number] # None /\ checkpoints'[Number].run = runs /\ Number = Len(records) + 1
<1> DEFINE new == [run |-> runs, previous |-> link]
<1>1. /\ Len(records) \in Nat /\ runs \in Nat /\ Number = Len(records) + 1 /\ Number \in 1 .. MaxExperiments
      /\ DOMAIN checkpoints = 1 .. MaxExperiments /\ DOMAIN checkpoints' = 1 .. MaxExperiments
      /\ MaxExperiments \in Nat /\ Len(records) <= MaxExperiments
  BY CurrentType, StopAfterAssumption DEF TypeOK, PlansType, IsRunning, Save
<1>2. new \in Checkpoints /\ new # None /\ new.run = runs /\ new.previous = link
  BY NoneAssumption DEF TypeOK, Checkpoints
<1>3. \A i \in 1 .. MaxExperiments : checkpoints'[i] = IF i = Number THEN new ELSE checkpoints[i]
  BY <1>1 DEF TypeOK, Save
<1> HIDE DEF new
<1>4. \A i \in 1 .. MaxExperiments :
        checkpoints[i] # None =>
          /\ checkpoints[i] \in Checkpoints /\ checkpoints[i].run \in Nat
          /\ checkpoints[i].previous \in Fingerprints \union {None}
          /\ checkpoints[i].run <= runs
  BY <1>1 DEF TypeOK, Checkpoints, LinkInv
<1>5. \A i \in 1 .. MaxExperiments : checkpoints'[i] # None => checkpoints'[i].run <= runs
  BY <1>1, <1>2, <1>3, <1>4
<1>6. ASSUME NEW i \in 1 .. MaxExperiments, checkpoints'[i] # None, checkpoints'[i].previous # None
      PROVE  LET run == checkpoints'[i].previous[1]
                 j == checkpoints'[i].previous[2]
             IN /\ run = checkpoints'[i].run
                /\ j \in 1 .. i - 1
                /\ checkpoints'[j] # None
                /\ checkpoints'[j].run >= run
                /\ overwrite \/ checkpoints'[j].run = run
  <2>1. CASE i = Number
    <3>1. checkpoints'[i] = new /\ link = previous /\ previous # None
      BY <1>2, <1>3, <1>6, <2>1
    <3>2. /\ previous[1] = runs /\ previous[2] \in 1 .. Len(records)
          /\ checkpoints[previous[2]] # None /\ checkpoints[previous[2]].run = runs
      BY <3>1 DEF LinkInv
    <3>3. checkpoints'[previous[2]] = checkpoints[previous[2]]
      BY <1>1, <1>3, <3>2
    <3>4. QED
      BY <1>1, <1>2, <2>1, <3>1, <3>2, <3>3
  <2>2. CASE i # Number
    <3> DEFINE run == checkpoints[i].previous[1]
    <3> DEFINE j == checkpoints[i].previous[2]
    <3>1. checkpoints'[i] = checkpoints[i]
      BY <1>3, <2>2
    <3>2. /\ run = checkpoints[i].run /\ j \in 1 .. i - 1 /\ checkpoints[j] # None
          /\ checkpoints[j].run >= run /\ (overwrite \/ checkpoints[j].run = run)
      BY <1>1, <1>6, <3>1 DEF LinkInv, CheckpointsAreLinked
    <3>3. checkpoints[i].run <= runs
      BY <1>4, <1>6, <3>1
    <3> HIDE DEF run, j
    <3>4. j \in 1 .. MaxExperiments
      BY <1>1, <3>2
    <3>5. CASE j = Number
      <4>1. checkpoints'[j] = new /\ overwrite
        BY <1>3, <3>2, <3>4, <3>5 DEF MaySave
      <4>2. checkpoints'[j] # None /\ checkpoints'[j].run >= run
        BY <1>1, <1>2, <1>4, <1>6, <3>1, <3>2, <3>3, <4>1
      <4>3. QED
        BY <3>1, <3>2, <4>1, <4>2 DEF run, j
    <3>6. CASE j # Number
      <4>1. checkpoints'[j] = checkpoints[j]
        BY <1>3, <3>4, <3>6
      <4>2. QED
        BY <3>1, <3>2, <4>1 DEF run, j
    <3>7. QED
      BY <3>5, <3>6
  <2>3. QED
    BY <2>1, <2>2
<1>7. CheckpointsAreLinked'
  BY <1>1, <1>6 DEF CheckpointsAreLinked
<1>8. QED
  BY <1>1, <1>2, <1>3, <1>5, <1>7

LEMMA LinkStep ==
  ASSUME TypeOK, EvidenceInv, LinkInv, [Next]_vars
  PROVE  LinkInv'
<1>1. CASE Start
  <2>1. checkpoints' = checkpoints /\ overwrite' = overwrite /\ previous' = None /\ runs' = runs + 1 /\ runs \in Nat
    BY <1>1 DEF Start, disk, TypeOK
  <2>2. \A i \in DOMAIN checkpoints : checkpoints[i] # None => checkpoints[i].run \in Nat /\ checkpoints[i].run <= runs
    BY DEF TypeOK, Checkpoints, LinkInv
  <2>3. QED
    BY <2>1, <2>2 DEF LinkInv, CheckpointsAreLinked
<1>2. ASSUME NEW o, NEW r, NEW v, NEW n, Ends(o, r, v, n)
      PROVE  LinkInv'
  <2>1. /\ IsRunning /\ overwrite' = overwrite /\ runs' = runs /\ Linked
        /\ Len(records) \in Nat /\ Number = Len(records) + 1 /\ Len(records') = Len(records) + 1
    BY <1>2, RecordsAfter DEF Ends, Unchanging
  <2>2. CASE MaySave(checkpoints[Number] # None) /\ Save(previous) /\ previous' = <<runs, Number>>
    BY <2>1, <2>2, CheckpointSaved DEF LinkInv
  <2>3. CASE MaySave(checkpoints[Number] # None) /\ Save(None) /\ previous' = previous
    <3>1. previous # None => previous[2] \in 1 .. Len(records)
      BY DEF LinkInv
    <3>2. QED
      BY <2>1, <2>3, <3>1, CheckpointSaved DEF LinkInv
  <2>4. CASE checkpoints' = checkpoints /\ previous' = previous
    BY <2>1, <2>4 DEF LinkInv, CheckpointsAreLinked
  <2>5. QED
    BY <2>1, <2>2, <2>3, <2>4 DEF Linked, Checkpoint
<1>3. ASSUME NEW how, Abandon(how)
      PROVE  LinkInv'
  BY <1>3 DEF Abandon, Leave, disk, LinkInv, CheckpointsAreLinked
<1>4. CASE Finish
  BY <1>4 DEF Finish, Leave, LinkInv, CheckpointsAreLinked
<1>5. CASE WriteOne
  BY <1>5 DEF WriteOne, LinkInv, CheckpointsAreLinked
<1>6. CASE UNCHANGED vars
  BY <1>6 DEF vars, LinkInv, CheckpointsAreLinked
<1>7. QED
  BY <1>1, <1>2, <1>3, <1>4, <1>5, <1>6, StepShape

(* Whatever writes fail, no checkpoint is ever linked to one that was not  *)
(* written, nor, where files are not overwritten, to one of another run    *)
(* (runner.py _write_checkpoint).                                          *)
THEOREM CheckpointsStayLinked == Spec => []CheckpointsAreLinked
<1>1. Init => LinkInv
  BY DEF Init, LinkInv, CheckpointsAreLinked
<1>2. TypeOK /\ EvidenceInv /\ LinkInv /\ [Next]_vars => LinkInv'
  BY LinkStep
<1>3. LinkInv => CheckpointsAreLinked
  BY DEF LinkInv
<1>4. QED
  BY <1>1, <1>2, <1>3, EvidenceInvariant, PTL DEF Spec
----------------------------------------------------------------------------
(* The ledger: what it holds after an experiment was ingested or refused.  *)

LEMMA LedgerAfter ==
  ASSUME TypeOK, NEW e \in Experiments, ledger' = Ingest(ledger, e)
  PROVE  /\ Len(ledger.entries) \in Nat /\ DOMAIN ledger.entries = 1 .. Len(ledger.entries)
         /\ CanIngest(ledger, e) =>
              /\ ledger'.entries = Append(ledger.entries, e) /\ ledger'.ingested = ledger.ingested \union {e}
              /\ ledger'.snapshots = Append(ledger.snapshots, Append(ledger.entries, e))
              /\ DOMAIN ledger'.entries = 1 .. Len(ledger.entries) + 1
              /\ \A k \in 1 .. Len(ledger.entries) : ledger'.entries[k] = ledger.entries[k]
              /\ ledger'.entries[Len(ledger.entries) + 1] = e
         /\ ~ CanIngest(ledger, e) =>
              ledger'.entries = ledger.entries /\ ledger'.ingested = ledger.ingested
              /\ ledger'.snapshots = ledger.snapshots
         /\ CanRegister(ledger, e) => ledger'.baselines[e.id.family] = Signature(e)
         /\ \A f \in Families : ledger.baselines[f] # NoBaseline => ledger'.baselines[f] = ledger.baselines[f]
<1> DEFINE r == Register(ledger, e)
<1>1. ledger \in Ledgers /\ ledger.entries \in Seq(Experiments) /\ ledger.snapshots \in Seq(Seq(Experiments))
  BY DEF TypeOK, Ledgers
<1>2. /\ r \in Ledgers /\ r.entries = ledger.entries /\ r.snapshots = ledger.snapshots
      /\ r.ingested = ledger.ingested
      /\ \A f \in Families : r.baselines[f] =
           IF f = e.id.family /\ ledger.baselines[f] = NoBaseline THEN Signature(e) ELSE ledger.baselines[f]
  BY <1>1, RegisterType
<1>3. /\ CanIngest(ledger, e) => ledger' = AddEntry(r, e)
      /\ ~ CanIngest(ledger, e) /\ CanRegister(ledger, e) => ledger' = r
      /\ ~ CanRegister(ledger, e) => ledger' = ledger
      /\ CanIngest(ledger, e) => CanRegister(ledger, e)
  BY DEF Ingest, CanIngest
<1>4. CanRegister(ledger, e) => ledger.baselines[e.id.family] \in {NoBaseline, Signature(e)}
  BY DEF CanRegister, Drifts
<1> HIDE DEF r
<1>5. CanIngest(ledger, e) =>
        /\ ledger'.entries = Append(ledger.entries, e) /\ ledger'.ingested = ledger.ingested \union {e}
        /\ ledger'.snapshots = Append(ledger.snapshots, Append(ledger.entries, e))
        /\ ledger'.baselines = r.baselines
  BY <1>2, <1>3, AddEntryType
<1>6. e.id.family \in Families
  BY ExperimentType
<1>7. /\ CanRegister(ledger, e) => ledger'.baselines = r.baselines
      /\ ~ CanRegister(ledger, e) => ledger'.baselines = ledger.baselines
  BY <1>3, <1>5
<1>8. /\ CanRegister(ledger, e) => ledger'.baselines[e.id.family] = Signature(e)
      /\ \A f \in Families : ledger.baselines[f] # NoBaseline => ledger'.baselines[f] = ledger.baselines[f]
  BY <1>2, <1>4, <1>6, <1>7
<1>9. ~ CanIngest(ledger, e) =>
        ledger'.entries = ledger.entries /\ ledger'.ingested = ledger.ingested /\ ledger'.snapshots = ledger.snapshots
  BY <1>2, <1>3
<1>10. /\ Len(ledger.entries) \in Nat /\ DOMAIN ledger.entries = 1 .. Len(ledger.entries)
       /\ DOMAIN Append(ledger.entries, e) = 1 .. Len(ledger.entries) + 1
       /\ \A k \in 1 .. Len(ledger.entries) : Append(ledger.entries, e)[k] = ledger.entries[k]
       /\ Append(ledger.entries, e)[Len(ledger.entries) + 1] = e
  BY <1>1
<1>11. QED
  BY <1>5, <1>8, <1>9, <1>10

LEMMA LedgerIngested ==
  ASSUME TypeOK, LedgerInv, NEW e \in Experiments, ledger' = Ingest(ledger, e)
  PROVE  LedgerInv'
<1> DEFINE n == Len(ledger.entries)
<1>1. \A k \in 1 .. n :
        /\ ledger.entries[k] \in ledger.ingested /\ ledger.entries[k] \in Experiments
        /\ ledger.entries[k].id.family \in Families
        /\ ledger.baselines[ledger.entries[k].id.family] = Signature(ledger.entries[k])
        /\ Signature(ledger.entries[k]) # NoBaseline
  BY ExperimentType, LedgerAfter DEF LedgerInv, TypeOK, Ledgers
<1>2. \A k \in 1 .. n : ledger'.baselines[ledger.entries[k].id.family] = Signature(ledger.entries[k])
  BY <1>1, LedgerAfter
<1>3. \A j, k \in 1 .. n : j # k => WalkForward(ledger.entries[j]) # WalkForward(ledger.entries[k])
  BY LedgerAfter DEF LedgerInv, EvidenceIsIndependent
<1>4. n \in Nat
  BY LedgerAfter
<1>5. \A k \in DOMAIN ledger'.entries :
        /\ ledger'.entries[k] \in ledger'.ingested
        /\ ledger'.baselines[ledger'.entries[k].id.family] = Signature(ledger'.entries[k])
  <2>1. CASE CanIngest(ledger, e)
    <3>1. /\ DOMAIN ledger'.entries = 1 .. n + 1 /\ ledger'.entries[n + 1] = e
          /\ \A k \in 1 .. n : ledger'.entries[k] = ledger.entries[k]
          /\ ledger'.ingested = ledger.ingested \union {e}
          /\ ledger'.baselines[e.id.family] = Signature(e)
      BY <2>1, LedgerAfter DEF CanIngest
    <3> HIDE DEF n
    <3>2. \A k \in DOMAIN ledger'.entries : k \in 1 .. n \/ k = n + 1
      BY <1>4, <3>1
    <3>3. QED
      BY <1>1, <1>2, <3>1, <3>2
  <2>2. CASE ~ CanIngest(ledger, e)
    BY <1>1, <1>2, <2>2, LedgerAfter
  <2>3. QED
    BY <2>1, <2>2
<1>6. \A j, k \in DOMAIN ledger'.entries : j # k => WalkForward(ledger'.entries[j]) # WalkForward(ledger'.entries[k])
  <2>1. CASE CanIngest(ledger, e)
    <3>1. /\ DOMAIN ledger'.entries = 1 .. n + 1 /\ ledger'.entries[n + 1] = e
          /\ \A k \in 1 .. n : ledger'.entries[k] = ledger.entries[k]
      BY <2>1, LedgerAfter
    <3>2. \A x \in ledger.ingested : WalkForward(x) # WalkForward(e)
      BY <2>1 DEF CanIngest, Repeats
    <3> HIDE DEF n
    <3>3. \A k \in 1 .. n : WalkForward(ledger.entries[k]) # WalkForward(e)
      BY <1>1, <3>2
    <3>4. \A k \in DOMAIN ledger'.entries : k \in 1 .. n \/ k = n + 1
      BY <1>4, <3>1
    <3>5. QED
      BY <1>3, <3>1, <3>3, <3>4
  <2>2. CASE ~ CanIngest(ledger, e)
    BY <1>3, <2>2, LedgerAfter
  <2>3. QED
    BY <2>1, <2>2
<1>7. QED
  BY <1>5, <1>6 DEF LedgerInv, EvidenceIsIndependent

LEMMA EmptyLedgerIndependent == ledger' = EmptyLedger => LedgerInv'
<1>1. DOMAIN EmptyLedger.entries = {}
  BY DEF EmptyLedger
<1>2. QED
  BY <1>1 DEF LedgerInv, EvidenceIsIndependent

LEMMA LedgerStep ==
  ASSUME TypeOK, EvidenceInv, LedgerInv, [Next]_vars
  PROVE  LedgerInv'
<1>1. CASE Start
  BY <1>1, EmptyLedgerIndependent DEF Start
<1>2. ASSUME NEW o, NEW r, NEW v, NEW n, Ends(o, r, v, n)
      PROVE  LedgerInv'
  <2>1. Current \in Experiments
    BY <1>2, CurrentType DEF TypeOK, PlansType, IsRunning, Ends
  <2>2. CASE ledger' = ledger
    BY <2>2 DEF LedgerInv, EvidenceIsIndependent
  <2>3. CASE ledger' = Ingest(ledger, Current)
    BY <2>1, <2>3, LedgerIngested
  <2>4. QED
    BY <1>2, <2>2, <2>3 DEF Ends, Ledgered
<1>3. ASSUME NEW how, Abandon(how)
      PROVE  LedgerInv'
  BY <1>3, EmptyLedgerIndependent DEF Abandon, Leave
<1>4. CASE Finish
  BY <1>4, EmptyLedgerIndependent DEF Finish, Leave
<1>5. CASE WriteOne
  BY <1>5 DEF WriteOne, LedgerInv, EvidenceIsIndependent
<1>6. CASE UNCHANGED vars
  BY <1>6 DEF vars, LedgerInv, EvidenceIsIndependent
<1>7. QED
  BY <1>1, <1>2, <1>3, <1>4, <1>5, <1>6, StepShape

(* Two entries of a ledger never rest on one walk-forward, nor one family  *)
(* on two plans, whatever was refused before them (duplicate.py, drift.py).*)
THEOREM EvidenceStaysIndependent == Spec => []EvidenceIsIndependent
<1>1. Init => LedgerInv
  <2>1. DOMAIN EmptyLedger.entries = {}
    BY DEF EmptyLedger
  <2>2. QED
    BY <2>1 DEF Init, LedgerInv, EvidenceIsIndependent
<1>2. TypeOK /\ EvidenceInv /\ LedgerInv /\ [Next]_vars => LedgerInv'
  BY LedgerStep
<1>3. LedgerInv => EvidenceIsIndependent
  BY DEF LedgerInv
<1>4. QED
  BY <1>1, <1>2, <1>3, EvidenceInvariant, PTL DEF Spec
----------------------------------------------------------------------------
(* The records and the ledger, though an experiment may fail between them. *)

LEMMA PrefixAfterAppend ==
  ASSUME NEW S, NEW s \in Seq(S), NEW e \in S
  PROVE  /\ \A k \in 1 .. Len(s) : SubSeq(Append(s, e), 1, k) = SubSeq(s, 1, k)
         /\ SubSeq(Append(s, e), 1, Len(s) + 1) = Append(s, e)
<1>1. ASSUME NEW k \in 1 .. Len(s)
      PROVE  SubSeq(Append(s, e), 1, k) = SubSeq(s, 1, k)
  <2>1. Append(s, e) = s \o <<e>> /\ <<e>> \in Seq(S) /\ 1 \in 1 .. Len(s)
    BY AppendIsConcat
  <2>2. QED
    BY <2>1, SubSeqOfConcat1
<1>2. Append(s, e) \in Seq(S) /\ Len(Append(s, e)) = Len(s) + 1
  BY AppendProperties
<1>3. SubSeq(Append(s, e), 1, Len(s) + 1) = Append(s, e)
  BY <1>2, SubSeqFull
<1>4. QED
  BY <1>1, <1>3

(* A record without an entry, and nothing new in the ledger.               *)
LEMMA UnledgeredRecord ==
  ASSUME TypeOK, RecordsMatchLedger, NEW o, NEW r, NEW v, Ends(o, r, v, 0),
         ledger'.entries = ledger.entries, ledger'.snapshots = ledger.snapshots
  PROVE  RecordsMatchLedger'
<1>1. /\ \A i \in DOMAIN records' :
           \/ i \in DOMAIN records /\ records'[i] = records[i]
           \/ records'[i].entry = 0
      /\ \A i \in DOMAIN records : i \in DOMAIN records' /\ records'[i] = records[i]
  <2>1. \A i \in DOMAIN records' :
           \/ i \in DOMAIN records /\ records'[i] = records[i]
           \/ records'[i].entry = 0
    BY NewRecord
  <2>2. /\ Len(records) \in Nat /\ DOMAIN records = 1 .. Len(records) /\ DOMAIN records' = 1 .. Len(records) + 1
        /\ \A i \in 1 .. Len(records) : records'[i] = records[i]
    BY RecordsAfter
  <2>3. \A i \in DOMAIN records : i \in DOMAIN records' /\ records'[i] = records[i]
    BY <2>2
  <2>4. QED
    BY <2>1, <2>3
<1>2. \A i \in DOMAIN records' :
        records'[i].entry # 0 =>
          /\ records'[i].outcome = "COMPLETED"
          /\ records'[i].entry \in DOMAIN ledger'.entries
          /\ ledger'.entries[records'[i].entry] = records'[i].experiment
  BY <1>1 DEF RecordsMatchLedger
<1>3. \A i, j \in DOMAIN records' :
        i < j /\ records'[i].entry # 0 /\ records'[j].entry # 0 => records'[i].entry < records'[j].entry
  BY <1>1 DEF RecordsMatchLedger
<1>4. \A k \in DOMAIN ledger'.entries : \E i \in DOMAIN records' : records'[i].entry = k
  BY <1>1 DEF RecordsMatchLedger
<1>5. /\ Len(ledger'.snapshots) = Len(ledger'.entries)
      /\ \A k \in DOMAIN ledger'.snapshots : ledger'.snapshots[k] = SubSeq(ledger'.entries, 1, k)
  BY DEF RecordsMatchLedger
<1>6. QED
  BY <1>2, <1>3, <1>4, <1>5 DEF RecordsMatchLedger

(* A record with the entry that was just made.                             *)
LEMMA LedgeredRecord ==
  ASSUME TypeOK, RecordsMatchLedger, NEW r, NEW v, Ends("COMPLETED", r, v, Len(ledger.entries) + 1),
         CanIngest(ledger, Current), ledger' = Ingest(ledger, Current)
  PROVE  RecordsMatchLedger'
<1> DEFINE n == Len(ledger.entries)
<1> DEFINE m == Len(records)
<1>1. Current \in Experiments
  BY CurrentType DEF TypeOK, PlansType, IsRunning, Ends
<1>2. /\ n \in Nat /\ DOMAIN ledger.entries = 1 .. n
      /\ DOMAIN ledger'.entries = 1 .. n + 1 /\ ledger'.entries[n + 1] = Current
      /\ \A k \in 1 .. n : ledger'.entries[k] = ledger.entries[k]
      /\ ledger'.entries = Append(ledger.entries, Current)
      /\ ledger'.snapshots = Append(ledger.snapshots, Append(ledger.entries, Current))
  BY <1>1, LedgerAfter
<1>3. /\ m \in Nat /\ DOMAIN records = 1 .. m /\ DOMAIN records' = 1 .. m + 1
      /\ \A i \in 1 .. m : records'[i] = records[i]
      /\ records'[m + 1].outcome = "COMPLETED" /\ records'[m + 1].entry = n + 1
      /\ records'[m + 1].experiment = Current
  <2>1. /\ m \in Nat /\ DOMAIN records = 1 .. m /\ DOMAIN records' = 1 .. m + 1
        /\ \A i \in 1 .. m : records'[i] = records[i]
        /\ records'[m + 1] =
             [experiment |-> Current, outcome |-> "COMPLETED", reason |-> r, evidence |-> v, entry |-> n + 1]
    BY RecordsAfter
  <2>2. QED
    BY <2>1
<1>4. /\ ledger.entries \in Seq(Experiments) /\ ledger.snapshots \in Seq(Seq(Experiments))
      /\ Len(ledger.snapshots) = n
      /\ \A k \in 1 .. n : ledger.snapshots[k] = SubSeq(ledger.entries, 1, k)
  BY DEF TypeOK, Ledgers, RecordsMatchLedger
<1> HIDE DEF m
<1>5. \A i \in 1 .. m :
        records[i].entry # 0 =>
          /\ records[i].outcome = "COMPLETED" /\ records[i].entry \in 1 .. n
          /\ ledger.entries[records[i].entry] = records[i].experiment
  BY <1>2, <1>3 DEF RecordsMatchLedger
<1>6. Len(ledger'.snapshots) = n + 1
      /\ \A k \in DOMAIN ledger'.snapshots : ledger'.snapshots[k] = SubSeq(ledger'.entries, 1, k)
  <2>1. Append(ledger.entries, Current) \in Seq(Experiments)
    BY <1>1, <1>4
  <2>2. /\ DOMAIN ledger'.snapshots = 1 .. n + 1 /\ Len(ledger'.snapshots) = n + 1
        /\ \A k \in 1 .. n : ledger'.snapshots[k] = ledger.snapshots[k]
        /\ ledger'.snapshots[n + 1] = ledger'.entries
    BY <1>2, <1>4, <2>1
  <2>3. /\ \A k \in 1 .. n : SubSeq(ledger'.entries, 1, k) = SubSeq(ledger.entries, 1, k)
        /\ SubSeq(ledger'.entries, 1, n + 1) = ledger'.entries
    BY <1>1, <1>2, <1>4, PrefixAfterAppend
  <2> HIDE DEF n
  <2>4. \A k \in DOMAIN ledger'.snapshots : k \in 1 .. n \/ k = n + 1
    BY <1>2, <2>2
  <2>5. QED
    BY <1>4, <2>2, <2>3, <2>4
<1>7. Len(ledger'.entries) = n + 1
  BY <1>1, <1>2, <1>4
<1> HIDE DEF n
<1>8. \A i \in DOMAIN records' : i \in 1 .. m \/ i = m + 1
  BY <1>3
<1>9. \A i \in DOMAIN records' :
        records'[i].entry # 0 =>
          /\ records'[i].outcome = "COMPLETED"
          /\ records'[i].entry \in DOMAIN ledger'.entries
          /\ ledger'.entries[records'[i].entry] = records'[i].experiment
  BY <1>2, <1>3, <1>5, <1>8
<1>10. \A i, j \in DOMAIN records' :
         i < j /\ records'[i].entry # 0 /\ records'[j].entry # 0 => records'[i].entry < records'[j].entry
  <2> SUFFICES ASSUME NEW i \in DOMAIN records', NEW j \in DOMAIN records', i < j,
                      records'[i].entry # 0, records'[j].entry # 0
               PROVE  records'[i].entry < records'[j].entry
    OBVIOUS
  <2>1. i \in 1 .. m /\ records'[i] = records[i]
    BY <1>3
  <2>2. CASE j \in 1 .. m
    BY <1>3, <2>1, <2>2 DEF RecordsMatchLedger
  <2>3. CASE j = m + 1
    BY <1>2, <1>3, <1>5, <2>1, <2>3
  <2>4. QED
    BY <1>8, <2>2, <2>3
<1>11. \A k \in DOMAIN ledger'.entries : \E i \in DOMAIN records' : records'[i].entry = k
  <2> SUFFICES ASSUME NEW k \in 1 .. n + 1
               PROVE  \E i \in DOMAIN records' : records'[i].entry = k
    BY <1>2
  <2>1. CASE k \in 1 .. n
    <3>1. PICK i \in 1 .. m : records[i].entry = k
      BY <1>2, <1>3, <2>1 DEF RecordsMatchLedger
    <3>2. i \in DOMAIN records' /\ records'[i].entry = k
      BY <1>3, <3>1
    <3>3. QED
      BY <3>2
  <2>2. CASE k = n + 1
    <3>1. m + 1 \in DOMAIN records' /\ records'[m + 1].entry = k
      BY <1>3, <2>2
    <3>2. QED
      BY <3>1
  <2>3. QED
    BY <1>2, <2>1, <2>2
<1>12. QED
  BY <1>6, <1>7, <1>9, <1>10, <1>11 DEF RecordsMatchLedger

LEMMA NothingRecorded == records' = <<>> /\ ledger' = EmptyLedger => RecordsMatchLedger'
<1>1. DOMAIN <<>> = {} /\ Len(<<>>) = 0 /\ EmptyLedger.entries = <<>> /\ EmptyLedger.snapshots = <<>>
  BY DEF EmptyLedger
<1>2. QED
  BY <1>1 DEF RecordsMatchLedger

LEMMA RecordsStep ==
  ASSUME TypeOK, EvidenceInv, RecordsMatchLedger, [Next]_vars
  PROVE  RecordsMatchLedger'
<1>1. CASE Start
  BY <1>1, NothingRecorded DEF Start
<1>2. ASSUME NEW o, NEW r, NEW v, NEW n, Ends(o, r, v, n)
      PROVE  RecordsMatchLedger'
  <2>1. Current \in Experiments
    BY <1>2, CurrentType DEF TypeOK, PlansType, IsRunning, Ends
  <2>2. CASE n = 0 /\ ledger' = ledger
    BY <1>2, <2>2, UnledgeredRecord
  <2>3. CASE n = 0 /\ ~ CanIngest(ledger, Current) /\ ledger' = Ingest(ledger, Current)
    <3>1. ledger'.entries = ledger.entries /\ ledger'.snapshots = ledger.snapshots
      BY <2>1, <2>3, LedgerAfter
    <3>2. QED
      BY <1>2, <2>3, <3>1, UnledgeredRecord
  <2>4. CASE /\ n = Len(ledger.entries) + 1 /\ o = "COMPLETED"
             /\ CanIngest(ledger, Current) /\ ledger' = Ingest(ledger, Current)
    BY <1>2, <2>4, LedgeredRecord
  <2>5. QED
    BY <1>2, <2>2, <2>3, <2>4 DEF Ends, Ledgered
<1>3. ASSUME NEW how, Abandon(how)
      PROVE  RecordsMatchLedger'
  BY <1>3, NothingRecorded DEF Abandon, Leave
<1>4. CASE Finish
  BY <1>4, NothingRecorded DEF Finish, Leave
<1>5. CASE WriteOne
  BY <1>5 DEF WriteOne, RecordsMatchLedger
<1>6. CASE UNCHANGED vars
  BY <1>6 DEF vars, RecordsMatchLedger
<1>7. QED
  BY <1>1, <1>2, <1>3, <1>4, <1>5, <1>6, StepShape

(* Every entry of the ledger has exactly one record, a completed one, in   *)
(* the same order, and every snapshot is the ledger as it was              *)
(* (integration.py ingest_experiment_evidence).                            *)
THEOREM RecordsAlwaysMatchLedger == Spec => []RecordsMatchLedger
<1>1. Init => RecordsMatchLedger
  <2>1. DOMAIN <<>> = {} /\ Len(<<>>) = 0 /\ EmptyLedger.entries = <<>> /\ EmptyLedger.snapshots = <<>>
    BY DEF EmptyLedger
  <2>2. QED
    BY <2>1 DEF Init, RecordsMatchLedger
<1>2. TypeOK /\ EvidenceInv /\ RecordsMatchLedger /\ [Next]_vars => RecordsMatchLedger'
  BY RecordsStep
<1>3. QED
  BY <1>1, <1>2, EvidenceInvariant, PTL DEF Spec
----------------------------------------------------------------------------
(* The policy: the run's count of failures and its flag say what the       *)
(* records so far say.                                                     *)

PolicyStops ==
  \/ policy = "FAIL_FAST" /\ \E j \in DOMAIN records : IsHard(records[j])
  \/ policy = "STOP_AFTER_N_FAILURES" /\ failures >= StopAfter

LEMMA FailuresAreFinite ==
  ASSUME TypeOK, NEW i \in Nat
  PROVE  IsFiniteSet(FailuresBefore(records, i)) /\ Cardinality(FailuresBefore(records, i)) \in Nat
<1>1. IsFiniteSet(1 .. i - 1)
  BY FS_Interval
<1>2. FailuresBefore(records, i) \subseteq 1 .. i - 1
  BY DEF FailuresBefore
<1>3. QED
  BY <1>1, <1>2, FS_Subset, FS_CardinalityType

LEMMA FailuresAfter ==
  ASSUME TypeOK, NEW o, NEW r, NEW v, NEW n, Ends(o, r, v, n)
  PROVE  /\ \A i \in 1 .. Len(records) + 1 : FailuresBefore(records', i) = FailuresBefore(records, i)
         /\ Len(records') + 1 = Len(records) + 2
         /\ r \in {"", "STOPPED_BY_POLICY", "MISSING_WALK_FORWARD_EVIDENCE"} =>
              FailuresBefore(records', Len(records) + 2) = FailuresBefore(records, Len(records) + 1)
         /\ r \notin {"", "STOPPED_BY_POLICY", "MISSING_WALK_FORWARD_EVIDENCE"} =>
              Cardinality(FailuresBefore(records', Len(records) + 2)) =
                Cardinality(FailuresBefore(records, Len(records) + 1)) + 1
<1> DEFINE m == Len(records)
<1>1. /\ m \in Nat /\ Len(records') = m + 1
      /\ \A i \in 1 .. m : records'[i] = records[i]
      /\ records'[m + 1] = [experiment |-> Current, outcome |-> o, reason |-> r, evidence |-> v, entry |-> n]
  BY RecordsAfter
<1>2. records'[m + 1].reason = r
  BY <1>1
<1> HIDE DEF m
<1>3. ASSUME NEW i \in 1 .. m + 1
      PROVE  FailuresBefore(records', i) = FailuresBefore(records, i)
  <2>1. \A j \in 1 .. i - 1 : j \in 1 .. m
    BY <1>1
  <2>2. \A j \in 1 .. i - 1 : records'[j] = records[j]
    BY <1>1, <2>1
  <2>3. QED
    BY <2>2 DEF FailuresBefore, IsFailure
<1>4. FailuresBefore(records', m + 1) = FailuresBefore(records, m + 1)
  BY <1>1, <1>3
<1>5. \A j : j \in 1 .. (m + 2) - 1 <=> j \in 1 .. (m + 1) - 1 \/ j = m + 1
  BY <1>1
<1>6. FailuresBefore(records', m + 2) =
        FailuresBefore(records', m + 1) \union {j \in {m + 1} : IsFailure(records'[j])}
  BY <1>5 DEF FailuresBefore, IsFailure
<1>7. r \in {"", "STOPPED_BY_POLICY", "MISSING_WALK_FORWARD_EVIDENCE"} =>
        FailuresBefore(records', m + 2) = FailuresBefore(records, m + 1)
  BY <1>2, <1>4, <1>6 DEF IsFailure
<1>8. ASSUME r \notin {"", "STOPPED_BY_POLICY", "MISSING_WALK_FORWARD_EVIDENCE"}
      PROVE  Cardinality(FailuresBefore(records', m + 2)) = Cardinality(FailuresBefore(records, m + 1)) + 1
  <2>1. FailuresBefore(records', m + 2) = FailuresBefore(records, m + 1) \union {m + 1}
    BY <1>2, <1>4, <1>6, <1>8 DEF IsFailure
  <2>2. m + 1 \notin FailuresBefore(records, m + 1)
    BY <1>1 DEF FailuresBefore
  <2>3. IsFiniteSet(FailuresBefore(records, m + 1))
    BY <1>1, FailuresAreFinite
  <2>4. QED
    BY <2>1, <2>2, <2>3, FS_AddElement
<1>9. Len(records') + 1 = m + 2
  BY <1>1
<1>10. QED
  BY <1>3, <1>7, <1>8, <1>9, Zenon DEF m

(* The first record for which the policy stops.                            *)
LEMMA PolicyEnds ==
  ASSUME TypeOK, PolicyInv, NEW o, NEW r, NEW v, NEW n, Ends(o, r, v, n)
  PROVE  PolicyInv'
<1> DEFINE m == Len(records)
<1>1. /\ m \in Nat /\ DOMAIN records = 1 .. m /\ DOMAIN records' = 1 .. m + 1
      /\ \A i \in 1 .. m : records'[i] = records[i]
      /\ records'[m + 1].outcome = o /\ policy' = policy /\ failures \in Nat
  <2>1. /\ m \in Nat /\ DOMAIN records = 1 .. m /\ DOMAIN records' = 1 .. m + 1
        /\ \A i \in 1 .. m : records'[i] = records[i]
        /\ records'[m + 1] = [experiment |-> Current, outcome |-> o, reason |-> r, evidence |-> v, entry |-> n]
    BY RecordsAfter
  <2>2. QED
    BY <2>1 DEF Ends, Unchanging, TypeOK
<1>2. /\ \A i \in 1 .. m + 1 : FailuresBefore(records', i) = FailuresBefore(records, i)
      /\ Len(records') + 1 = m + 2
      /\ r \in {"", "STOPPED_BY_POLICY", "MISSING_WALK_FORWARD_EVIDENCE"} =>
           Cardinality(FailuresBefore(records', m + 2)) = failures
      /\ r \notin {"", "STOPPED_BY_POLICY", "MISSING_WALK_FORWARD_EVIDENCE"} =>
           Cardinality(FailuresBefore(records', m + 2)) = failures + 1
  BY FailuresAfter DEF PolicyInv
<1> HIDE DEF m
<1>3. stopped <=> PolicyStops
  BY DEF PolicyInv, PolicyStops
<1>4. PolicyStops <=>
        \/ policy = "FAIL_FAST" /\ \E j \in 1 .. m : IsHard(records[j])
        \/ policy = "STOP_AFTER_N_FAILURES" /\ Cardinality(FailuresBefore(records, m + 1)) >= StopAfter
  BY <1>1 DEF PolicyStops, PolicyInv, m
<1>5. (stopped <=> o = "SKIPPED_BY_POLICY") /\ Counted(o, r)
  BY DEF Ends, Counted, Classified
<1>6. failures' = Cardinality(FailuresBefore(records', m + 2))
  <2>1. CASE Count(o) /\ r \notin {"", "STOPPED_BY_POLICY", "MISSING_WALK_FORWARD_EVIDENCE"}
    BY <1>2, <2>1 DEF Count
  <2>2. CASE failures' = failures /\ r \in {"", "STOPPED_BY_POLICY", "MISSING_WALK_FORWARD_EVIDENCE"}
    BY <1>2, <2>2
  <2>3. QED
    BY <1>5, <2>1, <2>2, Zenon DEF Counted
<1>7. (\E j \in DOMAIN records' : IsHard(records'[j])) <=>
        (\E j \in 1 .. m : IsHard(records[j])) \/ o \in {"FAILED", "BLOCKED", "TIMED_OUT"}
  <2>1. m + 1 \in DOMAIN records' /\ \A j \in DOMAIN records' : j \in 1 .. m \/ j = m + 1
    BY <1>1
  <2>2. \A j \in 1 .. m : j \in DOMAIN records' /\ records'[j] = records[j]
    BY <1>1
  <2>3. QED
    BY <1>1, <2>1, <2>2 DEF IsHard
<1>8. stopped' <=> PolicyStops'
  <2>1. CASE ~ stopped /\ Count(o)
    <3>1. stopped' <=> StopsAfter(failures + 1, o)
      BY <2>1 DEF Count
    <3>2. ~ PolicyStops /\ failures' = failures + 1
      BY <1>3, <2>1 DEF Count
    <3>3. StopsAfter(failures + 1, o) <=> PolicyStops'
      BY <1>1, <1>7, <3>2 DEF StopsAfter, PolicyStops
    <3>4. QED
      BY <3>1, <3>3, Zenon
  <2>2. CASE UNCHANGED <<failures, stopped>> /\ o \in {"COMPLETED", "INSUFFICIENT_EVIDENCE", "SKIPPED_BY_POLICY"}
    <3>1. PolicyStops' <=> PolicyStops
      BY <1>1, <1>7, <2>2 DEF PolicyStops
    <3>2. QED
      BY <1>3, <2>2, <3>1, Zenon
  <2>3. QED
    BY <1>5, <2>1, <2>2, Zenon DEF Counted
<1>9. SkippedOnlyByPolicy'
  <2> SUFFICES ASSUME NEW i \in 1 .. m + 1
               PROVE  records'[i].outcome = "SKIPPED_BY_POLICY" <=>
                        \/ policy = "FAIL_FAST" /\ \E j \in 1 .. i - 1 : IsHard(records'[j])
                        \/ policy = "STOP_AFTER_N_FAILURES" /\ Cardinality(FailuresBefore(records', i)) >= StopAfter
    BY <1>1 DEF SkippedOnlyByPolicy, IsHard, FailuresBefore
  <2>1. \A j \in 1 .. i - 1 : j \in 1 .. m /\ records'[j] = records[j]
    BY <1>1
  <2>2. FailuresBefore(records', i) = FailuresBefore(records, i)
    BY <1>2
  <2>3. CASE i \in 1 .. m
    <3>1. records[i].outcome = "SKIPPED_BY_POLICY" <=>
            \/ policy = "FAIL_FAST" /\ \E j \in 1 .. i - 1 : IsHard(records[j])
            \/ policy = "STOP_AFTER_N_FAILURES" /\ Cardinality(FailuresBefore(records, i)) >= StopAfter
      BY <1>1, <2>3 DEF PolicyInv, SkippedOnlyByPolicy, IsHard, FailuresBefore
    <3>2. QED
      BY <1>1, <2>1, <2>2, <2>3, <3>1
  <2>4. CASE i = m + 1
    <3>1. o = "SKIPPED_BY_POLICY" <=> PolicyStops
      BY <1>3, <1>5, Zenon
    <3>2. i - 1 = m
      BY <1>1, <2>4
    <3>3. QED
      BY <1>1, <1>4, <2>1, <2>2, <2>4, <3>1, <3>2
  <2>5. QED
    BY <1>1, <2>3, <2>4
<1>10. (stopped <=>
          \/ policy = "FAIL_FAST" /\ \E j \in DOMAIN records : IsHard(records[j])
          \/ policy = "STOP_AFTER_N_FAILURES" /\ failures >= StopAfter)'
  BY <1>8, Zenon DEF PolicyStops
<1>11. failures' = Cardinality(FailuresBefore(records', Len(records') + 1))
  BY <1>2, <1>6
<1>12. QED
  BY <1>9, <1>10, <1>11, Zenon DEF PolicyInv

LEMMA PolicyUnused ==
  records' = <<>> /\ failures' = 0 /\ stopped' = FALSE => PolicyInv'
<1> SUFFICES ASSUME records' = <<>>, failures' = 0, stopped' = FALSE
             PROVE  PolicyInv'
  OBVIOUS
<1>1. DOMAIN records' = {} /\ Len(records') = 0
  OBVIOUS
<1>2. SkippedOnlyByPolicy'
  BY <1>1 DEF SkippedOnlyByPolicy
<1>3. FailuresBefore(records', Len(records') + 1) = {}
  BY <1>1 DEF FailuresBefore
<1>4. failures' = Cardinality(FailuresBefore(records', Len(records') + 1))
  BY <1>3, FS_EmptySet
<1>5. ~ PolicyStops'
  BY <1>1, StopAfterAssumption DEF PolicyStops
<1>6. QED
  BY <1>2, <1>4, <1>5 DEF PolicyInv, PolicyStops

LEMMA PolicyStep ==
  ASSUME TypeOK, EvidenceInv, PolicyInv, [Next]_vars
  PROVE  PolicyInv'
<1>1. CASE Start
  BY <1>1, PolicyUnused DEF Start
<1>2. ASSUME NEW o, NEW r, NEW v, NEW n, Ends(o, r, v, n)
      PROVE  PolicyInv'
  BY <1>2, PolicyEnds
<1>3. ASSUME NEW how, Abandon(how)
      PROVE  PolicyInv'
  BY <1>3, PolicyUnused DEF Abandon, Leave
<1>4. CASE Finish
  BY <1>4, PolicyUnused DEF Finish, Leave
<1>5. CASE UNCHANGED <<records, failures, stopped, policy>>
  BY <1>5 DEF PolicyInv, SkippedOnlyByPolicy, FailuresBefore, IsFailure, IsHard
<1>6. QED
  BY <1>1, <1>2, <1>3, <1>4, <1>5, StepShape DEF WriteOne, vars

(* An experiment is skipped exactly when the records before it hold what   *)
(* the policy stops for, however the failures and the successes are mixed  *)
(* (runner.py _check_stop_policy).                                         *)
THEOREM SkippedExactlyByPolicy == Spec => []SkippedOnlyByPolicy
<1>1. Init => PolicyInv
  <2> SUFFICES ASSUME Init
               PROVE  PolicyInv
    OBVIOUS
  <2>1. records = <<>> /\ failures = 0 /\ stopped = FALSE /\ DOMAIN records = {} /\ Len(records) = 0
    BY DEF Init
  <2>2. SkippedOnlyByPolicy
    BY <2>1 DEF SkippedOnlyByPolicy
  <2>3. FailuresBefore(records, Len(records) + 1) = {}
    BY <2>1 DEF FailuresBefore
  <2>4. failures = Cardinality(FailuresBefore(records, Len(records) + 1))
    BY <2>1, <2>3, FS_EmptySet
  <2>5. ~ PolicyStops
    BY <2>1, StopAfterAssumption DEF PolicyStops
  <2>6. QED
    BY <2>1, <2>2, <2>4, <2>5 DEF PolicyInv, PolicyStops
<1>2. TypeOK /\ EvidenceInv /\ PolicyInv /\ [Next]_vars => PolicyInv'
  BY PolicyStep
<1>3. PolicyInv => SkippedOnlyByPolicy
  BY DEF PolicyInv
<1>4. QED
  BY <1>1, <1>2, <1>3, EvidenceInvariant, PTL DEF Spec
=============================================================================
