---------------------------- MODULE ExplainStore ----------------------------
(***************************************************************************)
(* hunter/explainability: the store of recorded selection runs, its        *)
(* latest.json pointer, and `hunter explain` reading it meanwhile.         *)
(*                                                                         *)
(* A run directory holds one file per ranked candidate and then the        *)
(* manifest; a file that is found with different content refuses the run.  *)
(* A writer records the run of a pairlist build, or imports a run that was *)
(* published before the store existed.  Every step is at most one file     *)
(* operation, so a lookup, another writer, a kill or an I/O error can come *)
(* between any two of them.                                                *)
(***************************************************************************)
EXTENDS Naturals, Sequences, Functions

CONSTANTS
  Coins,     \* candidate pairs
  Dates,     \* as-of dates, in the order of their ISO texts
  RunIds,    \* the run ids that can occur
  Extras,    \* what a run's files hold besides what its id is computed from
  Writers,   \* builds and imports that can be under way at the same time
  Readers,   \* lookups that can be under way at the same time
  Faults,    \* what may go wrong: a subset of FaultKinds
  NoExtra,   \* nothing besides what the id is computed from
  Undated,   \* the as-of date "UNKNOWN" of an import without an audit
  Absent,    \* the file does not exist
  NoRun,     \* there is no latest.json
  Unreadable \* latest.json could not be read

FaultKinds == {"write", "read", "kill"}

(* "approved": a run that was gated and published; "rejected": one the     *)
(* gate refused; "legacy": one imported from its published files.          *)
RunKinds == {"approved", "rejected", "legacy"}

(* A ranking is the sequence of the recorded candidates, ranks ascending;  *)
(* run_id covers as-of date, profile and the ranked pairs' fingerprints.   *)
IsRunId(r) ==
  /\ r.kind \in RunKinds
  /\ r.date \in Dates \union {Undated}
  /\ r.ranking \in Seq(Coins)
  /\ r.date = Undated => r.kind = "legacy"

ASSUME RunIdsAssumption == \A r \in RunIds : IsRunId(r) /\ DOMAIN r = {"kind", "date", "ranking"}
ASSUME DatesAssumption == Dates \subseteq Nat /\ Undated \notin Dates
ASSUME FaultsAssumption == Faults \subseteq FaultKinds
ASSUME NoExtraAssumption == NoExtra \notin Extras
ASSUME AbsentAssumption == Absent \notin [rank : Nat, extra : Extras \union {NoExtra}] \union Extras \union {NoExtra}
ASSUME NoRunAssumption == NoRun \notin RunIds /\ Unreadable \notin RunIds \union {NoRun}
ASSUME ProcsAssumption == Writers \intersect Readers = {}
ASSUME CoinsAssumption == Coins # {}

(* The id of a rejected run leaves universe_total out, which its files     *)
(* hold; the manifest of an import holds paths and notes.  The id of an    *)
(* approved run is computed from everything its files hold.                *)
Runs ==
  {j \in [id : RunIds, extra : Extras \union {NoExtra}] : j.extra = NoExtra <=> j.id.kind = "approved"}

ASSUME RunsAssumption == Runs # {}

(* What the variables of a process hold that is not running.               *)
AnyRun == CHOOSE j \in Runs : TRUE
AnyCoin == CHOOSE c \in Coins : TRUE

(* An import without an audit has no decision records.                     *)
Recorded(r) == IF r.date = Undated THEN <<>> ELSE r.ranking

ListsOnce(r) == \A i, j \in DOMAIN r.ranking : r.ranking[i] = r.ranking[j] => i = j

(* The candidate files' texts: the stages and metrics at a rank.           *)
CandidateText(j, i) == [rank |-> i, extra |-> IF j.id.kind = "rejected" THEN j.extra ELSE NoExtra]
CandidateTexts == [rank : Nat, extra : Extras \union {NoExtra}]
ManifestTexts == Extras \union {NoExtra}

IsOriginal(r) == r.kind # "legacy"

(* Comparison of as_of_date strings: "UNKNOWN" sorts after every ISO date. *)
LaterText(d, e) ==
  \/ d = Undated /\ e # Undated
  \/ d # Undated /\ e # Undated /\ d > e

VARIABLES
  candidates, \* run id -> coin -> candidates/<coin>.json
  manifests,  \* run id -> manifest.json
  latest,     \* the run that latest.json names
  pc,         \* process -> where it is
  job,        \* writer -> the run it writes
  at,         \* writer -> the number of the file it is at
  seen,       \* writer -> what an import read from latest.json
  exit,       \* writer -> how its last run ended
  coin,       \* reader -> the coin that is looked up
  run,        \* reader -> the run its pointer named
  answer      \* reader -> the status of its last lookup

store == <<candidates, manifests, latest>>
writers == <<job, at, seen, exit>>
readers == <<coin, run, answer>>
vars == <<candidates, manifests, latest, pc, job, at, seen, exit, coin, run, answer>>

WriterPcs == {"idle", "decide", "check", "write", "point"}
ReaderPcs == {"idle", "manifest", "candidate"}
(* "refused" is an artifact that exists with different content, "failed"   *)
(* an I/O error, or a kill.                                                *)
Exits == {"running", "ok", "refused", "failed"}
(* "READ_ERROR" and "ARTIFACT_INVALID" are one status of the code, told    *)
(* apart here by its cause: an I/O error, or a file that is not there.     *)
Answers == {"NONE", "OK", "NO_SUCCESSFUL_RUN", "LEGACY_RUN_INCOMPLETE", "NOT_IN_UNIVERSE", "NOT_RECORDED",
            "ARTIFACT_INVALID", "READ_ERROR"}
----------------------------------------------------------------------------
Init ==
  /\ candidates = [r \in RunIds |-> [c \in Coins |-> Absent]]
  /\ manifests = [r \in RunIds |-> Absent]
  /\ latest = NoRun
  /\ pc = [p \in Writers \union Readers |-> "idle"]
  /\ job = [p \in Writers |-> AnyRun]
  /\ at = [p \in Writers |-> 1]
  /\ seen = [p \in Writers |-> NoRun]
  /\ exit = [p \in Writers |-> "ok"]
  /\ coin = [p \in Readers |-> AnyCoin]
  /\ run = [p \in Readers |-> NoRun]
  /\ answer = [p \in Readers |-> "NONE"]

(* The candidate the writer is at, or the manifest after the last one.     *)
AtManifest(p) == at[p] > Len(Recorded(job[p].id))
CoinAt(p) == job[p].id.ranking[at[p]]
FileText(p) == IF AtManifest(p) THEN job[p].extra ELSE CandidateText(job[p], at[p])
FileNow(p) == IF AtManifest(p) THEN manifests[job[p].id] ELSE candidates[job[p].id][CoinAt(p)]

(* Mutant: a candidate's text goes to the manifest.                        *)
PutFileMisplaced(p) ==
  manifests' = [manifests EXCEPT ![job[p].id] = FileText(p)] /\ UNCHANGED candidates

PutFile(p) ==
  IF AtManifest(p)
    THEN manifests' = [manifests EXCEPT ![job[p].id] = FileText(p)] /\ UNCHANGED candidates
    ELSE candidates' = [candidates EXCEPT ![job[p].id][CoinAt(p)] = FileText(p)] /\ UNCHANGED manifests

End(p, code) ==
  /\ pc' = [pc EXCEPT ![p] = "idle"]
  /\ job' = [job EXCEPT ![p] = AnyRun]
  /\ at' = [at EXCEPT ![p] = 1]
  /\ seen' = [seen EXCEPT ![p] = NoRun]
  /\ exit' = [exit EXCEPT ![p] = code]

Goto(p, next) ==
  /\ pc' = [pc EXCEPT ![p] = next]
  /\ UNCHANGED writers

(* Mutant: the reconstructed run is compared by date only.                 *)
AdvancesByDate(r, pointer) ==
  \/ pointer \in {NoRun, Unreadable}
  \/ pointer \in RunIds /\ LaterText(r.date, pointer.date)

(* should_advance_reconstructed_pointer.                                   *)
ShouldAdvance(r, pointer) ==
  \/ pointer \in {NoRun, Unreadable}
  \/ pointer \in RunIds /\ ~IsOriginal(pointer) /\ LaterText(r.date, pointer.date)

(* A build moves the pointer when its run was published (update_latest),   *)
(* an import when it decided so before it wrote anything.                  *)
MovesPointer(p) ==
  \/ job[p].id.kind = "approved"
  \/ job[p].id.kind = "legacy" /\ ShouldAdvance(job[p].id, seen[p])

(* Mutant: the pointer is moved before the manifest is in place.           *)
NextFileSkipsManifest(p) ==
  LET last == at[p] >= Len(Recorded(job[p].id))
  IN \/ ~last /\ pc' = [pc EXCEPT ![p] = "check"] /\ at' = [at EXCEPT ![p] = @ + 1] /\ UNCHANGED <<job, seen, exit>>
     \/ last /\ MovesPointer(p) /\ Goto(p, "point")
     \/ last /\ ~MovesPointer(p) /\ End(p, "ok")

(* On to the next file, then the pointer.                                  *)
NextFile(p) ==
  \/ /\ ~AtManifest(p)
     /\ pc' = [pc EXCEPT ![p] = "check"]
     /\ at' = [at EXCEPT ![p] = @ + 1]
     /\ UNCHANGED <<job, seen, exit>>
  \/ AtManifest(p) /\ MovesPointer(p) /\ Goto(p, "point")
  \/ AtManifest(p) /\ ~MovesPointer(p) /\ End(p, "ok")
----------------------------------------------------------------------------
(* _record_explainability_run after the gate (and the publish) of a build. *)
Record(p) ==
  /\ pc[p] = "idle"
  /\ \E j \in Runs : j.id.kind # "legacy" /\ job' = [job EXCEPT ![p] = j]
  /\ pc' = [pc EXCEPT ![p] = "check"]
  /\ exit' = [exit EXCEPT ![p] = "running"]
  /\ UNCHANGED <<at, seen, store, readers>>

(* import_legacy_run, up to the reading of the pointer.                    *)
Import(p) ==
  /\ pc[p] = "idle"
  /\ \E j \in Runs : j.id.kind = "legacy" /\ job' = [job EXCEPT ![p] = j]
  /\ pc' = [pc EXCEPT ![p] = "decide"]
  /\ exit' = [exit EXCEPT ![p] = "running"]
  /\ UNCHANGED <<at, seen, store, readers>>

Decide(p) ==
  /\ pc[p] = "decide"
  /\ seen' \in {[seen EXCEPT ![p] = latest]}
       \union (IF "read" \in Faults /\ latest # NoRun THEN {[seen EXCEPT ![p] = Unreadable]} ELSE {})
  /\ pc' = [pc EXCEPT ![p] = "check"]
  /\ UNCHANGED <<job, at, exit, store, readers>>

(* Mutant: any existing file refuses the run.                              *)
CheckFileExclusive(p) ==
  /\ pc[p] = "check"
  /\ \/ FileNow(p) = Absent /\ Goto(p, "write")
     \/ FileNow(p) # Absent /\ End(p, "refused")
  /\ UNCHANGED <<store, readers>>

(* Mutant: a file with different content is written anew.                  *)
CheckFileOverwrite(p) ==
  /\ pc[p] = "check"
  /\ \/ FileNow(p) # FileText(p) /\ Goto(p, "write")
     \/ FileNow(p) = FileText(p) /\ NextFile(p)
  /\ UNCHANGED <<store, readers>>

(* _write_immutable: exists(), then the comparison without completed_at.   *)
CheckFile(p) ==
  /\ pc[p] = "check"
  /\ \/ FileNow(p) = Absent /\ Goto(p, "write")
     \/ FileNow(p) = FileText(p) /\ NextFile(p)
     \/ FileNow(p) \notin {Absent, FileText(p)} /\ End(p, "refused")
     \/ "read" \in Faults /\ FileNow(p) # Absent /\ End(p, "failed")
  /\ UNCHANGED <<store, readers>>

(* Mutant: the error of a write is swallowed.                              *)
WriteFileUnchecked(p) ==
  /\ pc[p] = "write"
  /\ (PutFile(p) \/ UNCHANGED <<candidates, manifests>>) /\ NextFile(p)
  /\ UNCHANGED <<latest, readers>>

(* atomic_write_text: an error leaves the old file, or the new one when it *)
(* comes from the fsync of the directory.                                  *)
WriteFile(p) ==
  /\ pc[p] = "write"
  /\ \/ PutFile(p) /\ NextFile(p)
     \/ "write" \in Faults /\ (PutFile(p) \/ UNCHANGED <<candidates, manifests>>) /\ End(p, "failed")
  /\ UNCHANGED <<latest, readers>>

(* write_latest_pointer.                                                   *)
Point(p) ==
  /\ pc[p] = "point"
  /\ \/ latest' = job[p].id /\ End(p, "ok")
     \/ "write" \in Faults /\ latest' \in {latest, job[p].id} /\ End(p, "failed")
  /\ UNCHANGED <<candidates, manifests, readers>>

Kill(p) ==
  /\ "kill" \in Faults
  /\ pc[p] # "idle"
  /\ End(p, "failed")
  /\ UNCHANGED <<store, readers>>
----------------------------------------------------------------------------
Answer(p, status) ==
  /\ pc' = [pc EXCEPT ![p] = "idle"]
  /\ coin' = [coin EXCEPT ![p] = AnyCoin]
  /\ run' = [run EXCEPT ![p] = NoRun]
  /\ answer' = [answer EXCEPT ![p] = status]

(* explain_candidate: the pointer, then the manifest, then the candidate.  *)
ReadPointer(p) ==
  /\ pc[p] = "idle"
  /\ \/ latest = NoRun /\ Answer(p, "NO_SUCCESSFUL_RUN")
     \/ /\ latest # NoRun
        /\ pc' = [pc EXCEPT ![p] = "manifest"]
        /\ run' = [run EXCEPT ![p] = latest]
        /\ answer' = [answer EXCEPT ![p] = "NONE"]
        /\ UNCHANGED coin
     \/ latest # NoRun /\ "read" \in Faults /\ Answer(p, "READ_ERROR")
  /\ UNCHANGED <<store, writers>>

(* Mutant: the manifest is looked for where the pointer is by now.         *)
ReadManifestRereads(p) ==
  /\ pc[p] = "manifest"
  /\ \/ latest.date = Undated /\ Answer(p, "LEGACY_RUN_INCOMPLETE")
     \/ latest.date # Undated /\ (\E c \in Coins : c \notin Range(latest.ranking)) /\ Answer(p, "NOT_IN_UNIVERSE")
     \/ /\ latest.date # Undated
        /\ \E c \in Range(latest.ranking) : coin' = [coin EXCEPT ![p] = c]
        /\ pc' = [pc EXCEPT ![p] = "candidate"]
        /\ UNCHANGED <<run, answer>>
  /\ UNCHANGED <<store, writers>>

(* The coin is the command's argument; nothing before this step reads it.  *)
ReadManifest(p) ==
  /\ pc[p] = "manifest"
  /\ \/ manifests[run[p]] = Absent /\ Answer(p, "ARTIFACT_INVALID")
     \/ manifests[run[p]] # Absent /\ run[p].date = Undated /\ Answer(p, "LEGACY_RUN_INCOMPLETE")
     \/ /\ manifests[run[p]] # Absent /\ run[p].date # Undated
        /\ \E c \in Coins : c \notin Range(run[p].ranking)
        /\ Answer(p, "NOT_IN_UNIVERSE")
     \/ /\ manifests[run[p]] # Absent /\ run[p].date # Undated
        /\ \E c \in Range(run[p].ranking) : coin' = [coin EXCEPT ![p] = c]
        /\ pc' = [pc EXCEPT ![p] = "candidate"]
        /\ UNCHANGED <<run, answer>>
     \/ "read" \in Faults /\ manifests[run[p]] # Absent /\ Answer(p, "READ_ERROR")
  /\ UNCHANGED <<store, writers>>

ReadCandidate(p) ==
  /\ pc[p] = "candidate"
  /\ LET text == candidates[run[p]][coin[p]]
     IN \/ text = Absent /\ Answer(p, "NOT_RECORDED")
        \/ text # Absent /\ Answer(p, "OK")
        \/ "read" \in Faults /\ text # Absent /\ Answer(p, "READ_ERROR")
  /\ UNCHANGED <<store, writers>>

Write(p) == Record(p) \/ Import(p) \/ Decide(p) \/ CheckFile(p) \/ WriteFile(p) \/ Point(p) \/ Kill(p)
Lookup(p) == ReadPointer(p) \/ ReadManifest(p) \/ ReadCandidate(p)

Next == (\E p \in Writers : Write(p)) \/ (\E p \in Readers : Lookup(p))

Spec == Init /\ [][Next]_vars
----------------------------------------------------------------------------
TypeOK ==
  /\ candidates \in [RunIds -> [Coins -> CandidateTexts \union {Absent}]]
  /\ manifests \in [RunIds -> ManifestTexts \union {Absent}]
  /\ latest \in RunIds \union {NoRun}
  /\ pc \in [Writers \union Readers -> WriterPcs \union ReaderPcs]
  /\ \A p \in Writers : pc[p] \in WriterPcs
  /\ \A p \in Readers : pc[p] \in ReaderPcs
  /\ job \in [Writers -> Runs]
  /\ at \in [Writers -> Nat \ {0}]
  /\ seen \in [Writers -> RunIds \union {NoRun, Unreadable}]
  /\ exit \in [Writers -> Exits]
  /\ coin \in [Readers -> Coins]
  /\ run \in [Readers -> RunIds \union {NoRun}] /\ \A p \in Readers : pc[p] # "idle" => run[p] # NoRun
  /\ answer \in [Readers -> Answers]

(* A run directory that a lookup can rely on.                              *)
Complete(r) ==
  /\ manifests[r] # Absent
  /\ \A i \in DOMAIN Recorded(r) : candidates[r][Recorded(r)[i]] = [rank |-> i, extra |-> NoExtra]

(* SAFETY 1 (write_run, "only then ... is the latest.json pointer          *)
(* advanced"): the pointer names a published run, all of whose files are   *)
(* there with the ranks of that run, whatever failed or was killed.        *)
LatestIsComplete == latest # NoRun => latest.kind # "rejected" /\ Complete(latest)

(* SAFETY 2: a lookup that reads while a run is being written never finds  *)
(* a file missing, so it is answered for want of a run or of the coin in   *)
(* it only.                                                                *)
LookupsAreAnswered == \A p \in Readers : answer[p] \notin {"ARTIFACT_INVALID", "NOT_RECORDED"}

(* SAFETY 3 (should_advance_reconstructed_pointer): among any number of    *)
(* builds and imports, the pointer goes to an import only from an import   *)
(* of an earlier date text, never from a run recorded by a build, unless   *)
(* the import was overtaken.  And it is overtaken only while it is under   *)
(* way, by another one that moves the pointer, or if it could not read it. *)
MayFollow(r, pointer) == pointer = NoRun \/ (~IsOriginal(pointer) /\ LaterText(r.date, pointer.date))

Overtaken(p) ==
  /\ pc[p] \in {"check", "write", "point"}
  /\ job[p].id.kind = "legacy"
  /\ MovesPointer(p) /\ ~MayFollow(job[p].id, latest)

OriginalOutranksImport ==
  [][/\ latest' # latest /\ latest'.kind = "legacy"
          => MayFollow(latest', latest) \/ \E p \in Writers : Overtaken(p) /\ job[p].id = latest'
     /\ \A p \in Writers : Overtaken(p)' => Overtaken(p) \/ latest' # latest \/ seen'[p] = Unreadable]_vars

(* SAFETY 4 (_write_immutable): a recorded file is replaced only by a      *)
(* writer that found it missing, and that only if another writer of the    *)
(* same run put it there between the look and the write: one writer alone  *)
(* never replaces a file, and a writer that finds one never does.          *)
Superseded(p) == pc[p] = "write" /\ FileNow(p) # Absent

RecordsAreImmutable ==
  [][/\ \A r \in RunIds :
          /\ manifests[r] \notin {Absent, manifests'[r]}
                => \E p \in Writers : Superseded(p) /\ job[p].id = r /\ AtManifest(p)
          /\ \A c \in Coins : candidates[r][c] \notin {Absent, candidates'[r][c]}
                => \E p \in Writers : Superseded(p) /\ job[p].id = r /\ ~AtManifest(p) /\ CoinAt(p) = c
     /\ \A p \in Writers : Superseded(p)' =>
          Superseded(p) \/ \E q \in Writers \ {p} : pc[q] = "write" /\ job[q].id = job[p].id]_vars

(* SAFETY 5: recording a published run that lists no pair twice is never   *)
(* refused, whatever part of it an earlier attempt left behind.            *)
PublishedIsNeverRefused ==
  [][\A p \in Writers : pc[p] # "idle" /\ pc'[p] = "idle" /\ exit'[p] = "refused"
       => job[p].id.kind # "approved" \/ ~ListsOnce(job[p].id)]_vars

(* DOC (should_advance_reconstructed_pointer, "only a strictly newer       *)
(* production publish (by as_of_date) advances the pointer"): an import    *)
(* replaces a dated run by one of a later date only.                       *)
ImportsOnlyAdvance ==
  [][latest # NoRun /\ latest.date # Undated /\ latest' # latest /\ latest'.kind = "legacy"
       => latest'.date # Undated /\ latest'.date > latest.date]_vars

(* REFINEMENT: recording a run is atomic and lookups are consistent, as    *)
(* AtomicStore promises, with the pointer's rule for imports; an import    *)
(* that could not read latest.json, or that another writer overtook, may   *)
(* replace any run (OriginalOutranksImport says when).                     *)
WholeRuns == {r \in RunIds : r.kind # "rejected" /\ Complete(r)}

SoleWriter == \A p, q \in Writers : p = q

MaySucceed ==
  {pair \in RunIds \X (RunIds \union {NoRun}) :
     \/ pair[1].kind = "approved"
     \/ pair[1].kind = "legacy" /\ (ShouldAdvance(pair[1], pair[2]) \/ "read" \in Faults \/ ~SoleWriter)}

Atomic == INSTANCE AtomicStore
  WITH recorded <- WholeRuns, current <- latest, held <- run, Succeeds <- MaySucceed, ReadsFail <- "read" \in Faults
ImplementsAtomicStore == Atomic!ASpec
----------------------------------------------------------------------------
(***************************************************************************)
(* The inductive invariant behind the safety properties, for any number of *)
(* writers.  Another one may put a file between a writer's check and its   *)
(* write, and of a rejected run it may be another file; of any other run   *)
(* it is the same, the text of the first rank that lists the coin.         *)
(***************************************************************************)
Writing == {"check", "write", "point"}

FirstListed(r, i) == \A j \in 1..(i - 1) : r.ranking[j] # r.ranking[i]

RunTexts ==
  \A r \in RunIds : r.kind # "rejected" =>
    \A c \in Coins :
      \/ candidates[r][c] = Absent
      \/ \E i \in DOMAIN r.ranking :
           r.ranking[i] = c /\ FirstListed(r, i) /\ candidates[r][c] = [rank |-> i, extra |-> NoExtra]

WriterInvOf(p) ==
  /\ pc[p] \in {"idle", "decide"} => at[p] = 1
  /\ pc[p] \in Writing /\ job[p].id.kind # "rejected" =>
       \A i \in 1..(at[p] - 1) :
         /\ i \in DOMAIN Recorded(job[p].id)
         /\ candidates[job[p].id][Recorded(job[p].id)[i]] = CandidateText(job[p], i)
  /\ pc[p] = "write" /\ job[p].id.kind # "rejected" /\ ~AtManifest(p) => FirstListed(job[p].id, at[p])
  /\ pc[p] = "point" => MovesPointer(p) /\ Complete(job[p].id)

ReaderInvOf(p) ==
  /\ pc[p] # "idle" => run[p].kind # "rejected" /\ Complete(run[p])
  /\ pc[p] = "candidate" => run[p].date # Undated /\ coin[p] \in Range(run[p].ranking)

(* The files before the one a writer is at are there, and the runs that    *)
(* the pointer and the lookups hold on to are whole.                       *)
StoreInv ==
  /\ LatestIsComplete
  /\ LookupsAreAnswered
  /\ RunTexts
  /\ \A p \in Writers : WriterInvOf(p)
  /\ \A p \in Readers : ReaderInvOf(p)

(* One writer alone moves the pointer from where it found it.              *)
SeenInv ==
  SoleWriter => \A p \in Writers :
    pc[p] \in Writing /\ job[p].id.kind = "legacy" => seen[p] \in {latest, Unreadable}

(* The files of a published run that lists no pair twice hold its own      *)
(* texts, however many writers wrote them.                                 *)
OwnTexts ==
  \A r \in RunIds : r.kind = "approved" /\ ListsOnce(r) =>
    /\ manifests[r] \in {Absent, NoExtra}
    /\ \A i \in DOMAIN r.ranking : candidates[r][r.ranking[i]] \in {Absent, [rank |-> i, extra |-> NoExtra]}
=============================================================================
