\* Two runs of campaigns of two or three experiments into one directory; one failing write or kill.
CONSTANTS
  Families = {f1, f2}
  Templates = {t1, t2}
  Data = {d1, d2}
  Configs = {c1}
  Commons = {k1, k2}
  NoBaseline = NoBaseline
  f1 = f1
  f2 = f2
  t1 = t1
  t2 = t2
  d1 = d1
  d2 = d2
  c1 = c1
  Compiled <- Campaigns
  StopAfter = 2
  ExceptionOutcomes = {"TIMED_OUT"}
  MaxExperiments = 3
  Artifacts = 4
  ResumeFile = 2
  Overwrites = {TRUE, FALSE}
  MaxRuns = 2
  MaxRerun = 2
  MaxFaults = 1
  None = None
SPECIFICATION Spec
INVARIANTS TypeOK RecordsMatchLedger EvidenceIsIndependent EvidenceIsCurrent SkippedOnlyByPolicy CheckpointsAreLinked ArtifactsDoNotMix
PROPERTIES EveryRunEnds
CHECK_DEADLOCK FALSE
