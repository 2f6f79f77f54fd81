-------------------------- MODULE PairlistPublish --------------------------
(***************************************************************************)
(* hunter/pairlist_export: one `hunter daily-pairlist` (or `pairlist       *)
(* build`, `pairlist from-feather`) after another, or several at once, on  *)
(* one output directory.                                                   *)
(*                                                                         *)
(* An invocation that passed the gate writes the dated snapshot pair, then *)
(* copies the live pair to *.previous-good, then replaces the live         *)
(* pairlist and the live audit, and undoes that when a write fails.  Every *)
(* step below is at most one file operation, so another invocation, a kill *)
(* or a failing write can come between any two of them.  Nothing in the    *)
(* code locks the directory.                                               *)
(***************************************************************************)
EXTENDS PairlistArtifacts

CONSTANTS
  Procs,   \* invocations that can be under way at the same time
  Faults   \* what may go wrong: a subset of FaultKinds

(* "write": an I/O error before or during the publish; "restore": an I/O   *)
(* error while undoing a failed publish; "kill": the process dies between  *)
(* two file operations.                                                    *)
FaultKinds == {"write", "restore", "kill"}

ASSUME FaultsAssumption == Faults \subseteq FaultKinds
ASSUME ProcsAssumption == Procs # {}

VARIABLES
  live,   \* hunter-pairs.json and hunter-pairs-audit.json
  good,   \* the same two files with the suffix .previous-good
  snap,   \* date -> hunter-pairs-YYYYMMDD.json and its -audit.json
  pc,     \* invocation -> where it is
  kind,   \* invocation -> the file of the pair it is at
  out,    \* invocation -> the gate-approved output it publishes
  had,    \* invocation -> had_previous_pairlist, had_previous_audit
  buf,    \* invocation -> text read and about to be written
  exit    \* invocation -> how its last run ended

files == <<live, good, snap>>
locals == <<pc, kind, out, had, buf, exit>>
vars == <<live, good, snap, pc, kind, out, had, buf, exit>>

PcValues == {"idle", "snapCheck", "snapWrite", "enter", "probe", "goodRead", "goodWrite", "liveWrite",
             "restore", "restoreWrite"}
(* "ok" is exit code 0; "rejected" a run the gate refused or that never    *)
(* reached it; "refused" a snapshot conflict; "failed" an error with the   *)
(* publish undone or not begun; "broken" an error raised while undoing;    *)
(* "killed" no exit code at all.                                           *)
Exits == {"ok", "rejected", "refused", "failed", "broken", "killed"}

NoneHad == [k \in Kinds |-> FALSE]
----------------------------------------------------------------------------
Init ==
  /\ live = NoPair
  /\ good = NoPair
  /\ snap = [d \in Dates |-> NoPair]
  /\ pc = [p \in Procs |-> "idle"]
  /\ kind = [p \in Procs |-> "pairlist"]
  /\ out \in [Procs -> Outputs]
  /\ had = [p \in Procs |-> NoneHad]
  /\ buf = [p \in Procs |-> Absent]
  /\ exit = [p \in Procs |-> "ok"]

(* The process ends; its variables are gone with it.                       *)
End(p, code) ==
  /\ pc' = [pc EXCEPT ![p] = "idle"]
  /\ kind' = [kind EXCEPT ![p] = "pairlist"]
  /\ had' = [had EXCEPT ![p] = NoneHad]
  /\ buf' = [buf EXCEPT ![p] = Absent]
  /\ exit' = [exit EXCEPT ![p] = code]
  /\ UNCHANGED out

(* On to the same step for the audit, or past it to `next`.                *)
Advance(p, again, next) ==
  /\ IF kind[p] = "pairlist"
       THEN /\ pc' = [pc EXCEPT ![p] = again]
            /\ kind' = [kind EXCEPT ![p] = "audit"]
       ELSE /\ pc' = [pc EXCEPT ![p] = next]
            /\ kind' = [kind EXCEPT ![p] = "pairlist"]
  /\ buf' = [buf EXCEPT ![p] = Absent]
  /\ UNCHANGED <<out, had, exit>>

Goto(p, next, text) ==
  /\ pc' = [pc EXCEPT ![p] = next]
  /\ buf' = [buf EXCEPT ![p] = text]
  /\ UNCHANGED <<kind, out, had, exit>>

(* Mutant: the audit text lands in the pairlist file.                      *)
TornWrongPath(f, k, text) == {f, [f EXCEPT !["pairlist"] = text]}

(* atomic_write_text as its caller sees it: an exception leaves the target *)
(* as it was when it comes from the temporary file or the rename, but      *)
(* replaced when it comes from the fsync of the directory.                 *)
Torn(f, k, text) == {f, [f EXCEPT ![k] = text]}
----------------------------------------------------------------------------
(* A run that the gate refuses, or whose input cannot be loaded or ranked, *)
(* ends before any pairlist file is opened for writing.                    *)
RejectRun(p) ==
  /\ pc[p] = "idle"
  /\ End(p, "rejected")
  /\ UNCHANGED files

(* Mutant: the snapshot is forgotten and the publish comes first.          *)
BeginUnarchived(p) ==
  /\ pc[p] = "idle"
  /\ \E o \in Outputs : out' = [out EXCEPT ![p] = o]
  /\ pc' = [pc EXCEPT ![p] = "enter"]
  /\ UNCHANGED <<kind, had, buf, exit, files>>

Begin(p) ==
  /\ pc[p] = "idle"
  /\ \E o \in Outputs : out' = [out EXCEPT ![p] = o]
  /\ pc' = [pc EXCEPT ![p] = "snapCheck"]
  /\ UNCHANGED <<kind, had, buf, exit, files>>

(* Mutant: an existing snapshot is taken for this run's without comparing. *)
SnapCheckExistsOnly(p) ==
  /\ pc[p] = "snapCheck"
  /\ LET cur == snap[out[p].date][kind[p]]
     IN \/ cur = Absent /\ Goto(p, "snapWrite", Text(out[p], kind[p]))
        \/ cur # Absent /\ Advance(p, "snapCheck", "enter")
  /\ UNCHANGED files

(* Mutant: different content is written over the old.                      *)
SnapCheckOverwrite(p) ==
  /\ pc[p] = "snapCheck"
  /\ LET new == Text(out[p], kind[p])
     IN \/ snap[out[p].date][kind[p]] # new /\ Goto(p, "snapWrite", new)
        \/ snap[out[p].date][kind[p]] = new /\ Advance(p, "snapCheck", "enter")
  /\ UNCHANGED files

(* Mutant: an identical pairlist snapshot is taken for a complete pair.    *)
SnapCheckPairlistOnly(p) ==
  /\ pc[p] = "snapCheck"
  /\ LET cur == snap[out[p].date][kind[p]]
         new == Text(out[p], kind[p])
     IN \/ cur = Absent /\ Goto(p, "snapWrite", new)
        \/ cur = new /\ Goto(p, "enter", Absent)
        \/ cur \notin {Absent, new} /\ End(p, "refused")
  /\ UNCHANGED files

(* write_snapshot: exists(), and read_text() when it does.                 *)
SnapCheck(p) ==
  /\ pc[p] = "snapCheck"
  /\ LET cur == snap[out[p].date][kind[p]]
         new == Text(out[p], kind[p])
     IN \/ cur = Absent /\ Goto(p, "snapWrite", new)
        \/ cur = new /\ Advance(p, "snapCheck", "enter")
        \/ cur \notin {Absent, new} /\ End(p, "refused")
        \/ "write" \in Faults /\ End(p, "failed")
  /\ UNCHANGED files

SnapWrite(p) ==
  /\ pc[p] = "snapWrite"
  /\ LET d == out[p].date
     IN \/ /\ snap' = [snap EXCEPT ![d][kind[p]] = buf[p]]
           /\ Advance(p, "snapCheck", "enter")
        \/ /\ "write" \in Faults
           /\ \E f \in Torn(snap[d], kind[p], buf[p]) : snap' = [snap EXCEPT ![d] = f]
           /\ End(p, "failed")
  /\ UNCHANGED <<live, good>>

(* publish_pairlist starts: it refuses a forbidden directory and creates   *)
(* the output directory, and either can fail after the snapshot exists.    *)
EnterPublish(p) ==
  /\ pc[p] = "enter"
  /\ \/ Goto(p, "probe", Absent)
     \/ "write" \in Faults /\ End(p, "failed")
  /\ UNCHANGED files

(* had_previous_pairlist and had_previous_audit.                           *)
Probe(p) ==
  /\ pc[p] = "probe"
  /\ had' = [had EXCEPT ![p][kind[p]] = live[kind[p]] # Absent]
  /\ IF kind[p] = "pairlist"
       THEN kind' = [kind EXCEPT ![p] = "audit"] /\ UNCHANGED pc
       ELSE kind' = [kind EXCEPT ![p] = "pairlist"] /\ pc' = [pc EXCEPT ![p] = "goodRead"]
  /\ buf' = [buf EXCEPT ![p] = Absent]
  /\ UNCHANGED <<out, exit, files>>

(* Only files that existed are preserved; reading one that has gone since  *)
(* raises, like any other error here, before the live pair is touched.     *)
GoodRead(p) ==
  /\ pc[p] = "goodRead"
  /\ \/ ~had[p][kind[p]] /\ Advance(p, "goodRead", "liveWrite")
     \/ had[p][kind[p]] /\ live[kind[p]] # Absent /\ Goto(p, "goodWrite", live[kind[p]])
     \/ had[p][kind[p]] /\ (live[kind[p]] = Absent \/ "write" \in Faults) /\ End(p, "failed")
  /\ UNCHANGED files

GoodWrite(p) ==
  /\ pc[p] = "goodWrite"
  /\ \/ good' = [good EXCEPT ![kind[p]] = buf[p]] /\ Advance(p, "goodRead", "liveWrite")
     \/ "write" \in Faults /\ good' \in Torn(good, kind[p], buf[p]) /\ End(p, "failed")
  /\ UNCHANGED <<live, snap>>

(* The last write completes the run; a failing one starts the restore with *)
(* the pairlist, whichever of the two writes it was.                       *)
LiveWrite(p) ==
  /\ pc[p] = "liveWrite"
  /\ LET new == Text(out[p], kind[p])
     IN \/ /\ live' = [live EXCEPT ![kind[p]] = new]
           /\ \/ kind[p] = "pairlist" /\ Advance(p, "liveWrite", "idle")
              \/ kind[p] = "audit" /\ End(p, "ok")
        \/ /\ "write" \in Faults
           /\ live' \in Torn(live, kind[p], new)
           /\ pc' = [pc EXCEPT ![p] = "restore"]
           /\ kind' = [kind EXCEPT ![p] = "pairlist"]
           /\ buf' = [buf EXCEPT ![p] = Absent]
           /\ UNCHANGED <<out, had, exit>>
  /\ UNCHANGED <<good, snap>>

(* Mutant: only the pairlist is put back.                                  *)
RestoredPairlistOnly(p) == End(p, "failed")

(* After the audit the PairlistPublishError is raised.                     *)
Restored(p) == IF kind[p] = "pairlist" THEN Advance(p, "restore", "idle") ELSE End(p, "failed")

(* The except block: a file that was there is read back from               *)
(* .previous-good, one that was not is removed.                            *)
Restore(p) ==
  /\ pc[p] = "restore"
  /\ \/ /\ had[p][kind[p]] /\ good[kind[p]] # Absent
        /\ Goto(p, "restoreWrite", good[kind[p]])
        /\ UNCHANGED live
     \/ /\ ~had[p][kind[p]]
        /\ live' = [live EXCEPT ![kind[p]] = Absent]
        /\ Restored(p)
     \/ /\ "restore" \in Faults \/ (had[p][kind[p]] /\ good[kind[p]] = Absent)
        /\ End(p, "broken")
        /\ UNCHANGED live
  /\ UNCHANGED <<good, snap>>

RestoreWrite(p) ==
  /\ pc[p] = "restoreWrite"
  /\ \/ live' = [live EXCEPT ![kind[p]] = buf[p]] /\ Restored(p)
     \/ "restore" \in Faults /\ live' \in Torn(live, kind[p], buf[p]) /\ End(p, "broken")
  /\ UNCHANGED <<good, snap>>

Kill(p) ==
  /\ "kill" \in Faults
  /\ pc[p] # "idle"
  /\ End(p, "killed")
  /\ UNCHANGED files

Step(p) ==
  \/ SnapCheck(p) \/ SnapWrite(p) \/ EnterPublish(p) \/ Probe(p) \/ GoodRead(p) \/ GoodWrite(p)
  \/ LiveWrite(p) \/ Restore(p) \/ RestoreWrite(p)

Next == \E p \in Procs : RejectRun(p) \/ Begin(p) \/ Step(p) \/ Kill(p)

Spec == Init /\ [][Next]_vars
----------------------------------------------------------------------------
TypeOK ==
  /\ live \in Pairs /\ good \in Pairs
  /\ snap \in [Dates -> Pairs]
  /\ pc \in [Procs -> PcValues]
  /\ kind \in [Procs -> Kinds]
  /\ out \in [Procs -> Outputs]
  /\ had \in [Procs -> [Kinds -> BOOLEAN]]
  /\ buf \in [Procs -> Contents] /\ \A p \in Procs : buf[p] \in KindContents(kind[p])
  /\ exit \in [Procs -> Exits]

(* The part of a run in which one live file may be ahead of the other.     *)
InWindow(p) ==
  \/ pc[p] \in {"restore", "restoreWrite"}
  \/ pc[p] = "liveWrite" /\ kind[p] = "audit"

(* What an invocation would restore: the live pair as it found it.         *)
Saved(p) == [k \in Kinds |-> IF had[p][k] THEN good[k] ELSE Absent]

SnapComplete(o) == snap[o.date] = PairOf(o)

(* SAFETY 1 (publisher.py docstring, "the pairlist/audit pair is never     *)
(* left inconsistent"): outside the window between the two live writes and *)
(* their undoing, the live pairlist and audit come from one run.           *)
LivePairMatches == (\A p \in Procs : ~InWindow(p)) => Matches(live)

(* SAFETY 2 (_build_and_publish writes the snapshot first): whatever list  *)
(* or audit is live or kept as previous-good can be found, identical, in   *)
(* the dated snapshots, after failures and kills too.                      *)
Archived(f) == \A k \in Kinds : \A o \in Outputs : f[k] = Text(o, k) => snap[o.date][k] = f[k]
LiveIsArchived == Archived(live) /\ Archived(good)

(* SAFETY 3 (cli.py:282-288): no run touches the live or the previous-good *)
(* pair before both files of its own snapshot are in place, so a snapshot  *)
(* conflict leaves them as they were.                                      *)
SnapshotBeforePublish ==
  [][<<live, good>>' # <<live, good>> => \E p \in Procs : pc[p] # "idle" /\ SnapComplete(out[p])]_vars

(* SAFETY 4 (write_snapshot, "snapshots are immutable"): a dated file,     *)
(* once written, keeps its text for ever.                                  *)
SnapshotImmutable ==
  [][\A d \in Dates : \A k \in Kinds : snap[d][k] # Absent => snap'[d][k] = snap[d][k]]_vars

(* SAFETY 5: a run that reports success has all four of its files in       *)
(* place, whatever was killed, failed or half-restored before it.          *)
SuccessIsComplete ==
  [][\A p \in Procs : pc[p] # "idle" /\ pc'[p] = "idle" /\ exit'[p] = "ok"
       => live' = PairOf(out[p]) /\ snap'[out[p].date] = PairOf(out[p])]_vars

(* REFINEMENT: what readers are promised is the pair as it was until the   *)
(* second live write succeeds; a date is archived when its audit is there. *)
PublishedPair == IF \E p \in Procs : InWindow(p) THEN Saved(CHOOSE p \in Procs : InWindow(p)) ELSE live
ArchivedOutput == [d \in Dates |-> snap[d]["audit"]]

Atomic == INSTANCE AtomicPublish WITH published <- PublishedPair, archive <- ArchivedOutput
ImplementsAtomicPublish == Atomic!ASpec
----------------------------------------------------------------------------
(***************************************************************************)
(* The inductive invariants behind the safety properties.  They need one   *)
(* invocation at a time: another one may replace between two steps what    *)
(* the first one compared, copied or wrote.                                *)
(***************************************************************************)
Serial == \A p, q \in Procs : p = q

Publishing == {"enter", "probe", "goodRead", "goodWrite", "liveWrite", "restore", "restoreWrite"}

ArchiveInvOf(p) ==
  /\ pc[p] = "idle" => kind[p] = "pairlist"
  /\ pc[p] = "snapWrite" => snap[out[p].date][kind[p]] = Absent /\ buf[p] = Text(out[p], kind[p])
  /\ pc[p] \in {"snapCheck", "snapWrite"} /\ kind[p] = "audit"
       => snap[out[p].date]["pairlist"] = Text(out[p], "pairlist")
  /\ pc[p] \in Publishing => SnapComplete(out[p])
  /\ pc[p] = "goodWrite" => buf[p] = live[kind[p]]
  /\ pc[p] = "restoreWrite" => buf[p] = good[kind[p]]
  /\ pc[p] = "liveWrite" /\ kind[p] = "audit" => live["pairlist"] = Text(out[p], "pairlist")

(* Holds whatever fails: each live or previous-good text was archived      *)
(* before it was written, and no archived text is ever replaced.           *)
ArchiveInv == LiveIsArchived /\ \A p \in Procs : ArchiveInvOf(p)

RestoreInvOf(p) ==
  /\ pc[p] \in {"idle", "enter"} => kind[p] = "pairlist"
  /\ ~InWindow(p) => Matches(live)
  /\ pc[p] = "probe" /\ kind[p] = "audit" => (had[p]["pairlist"] <=> live["pairlist"] # Absent)
  /\ pc[p] \in {"goodRead", "goodWrite"} => \A k \in Kinds : had[p][k] <=> live[k] # Absent
  /\ pc[p] \in {"goodRead", "goodWrite"} /\ kind[p] = "audit" /\ had[p]["pairlist"]
       => good["pairlist"] = live["pairlist"]
  /\ pc[p] = "goodWrite" => had[p][kind[p]] /\ buf[p] = live[kind[p]]
  /\ pc[p] = "liveWrite" /\ kind[p] = "pairlist" => Saved(p) = live
  /\ pc[p] = "liveWrite" /\ kind[p] = "audit" => live["pairlist"] = Text(out[p], "pairlist")
  /\ pc[p] \in {"liveWrite", "restore", "restoreWrite"}
       => Matches(Saved(p)) /\ \A k \in Kinds : had[p][k] => good[k] # Absent
  /\ pc[p] \in {"restore", "restoreWrite"} /\ kind[p] = "audit" => live["pairlist"] = Saved(p)["pairlist"]
  /\ pc[p] = "restoreWrite" => had[p][kind[p]] /\ buf[p] = good[kind[p]]

(* Holds while nothing is killed and no restore fails: what a failing      *)
(* publish would put back is the matching pair it found.                   *)
RestoreInv == \A p \in Procs : RestoreInvOf(p)
=============================================================================
