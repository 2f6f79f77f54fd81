----------------------- MODULE PairlistPublishProofs -----------------------
(***************************************************************************)
(* Proofs about PairlistPublish for any dates, rankings and metadata, and  *)
(* any set of invocations unless a theorem assumes Serial.                 *)
(***************************************************************************)
EXTENDS PairlistPublish, TLAPS

LEMMA TextType ==
  ASSUME NEW o \in Outputs, NEW k \in Kinds
  PROVE  Text(o, k) \in KindContents(k) /\ Text(o, k) # Absent
<1>1. PairlistText(o) \in PairlistTexts
  BY DEF PairlistText, PairlistTexts, Outputs
<1>2. AuditText(o) \in AuditTexts
  BY DEF AuditText, AuditTexts
<1>3. CASE k = "pairlist"
  BY <1>1, <1>3, AbsentIsNoText DEF Text, KindContents, KindTexts
<1>4. CASE k = "audit"
  BY <1>2, <1>4, AbsentIsNoText DEF Text, KindContents, KindTexts
<1> QED
  BY <1>3, <1>4 DEF Kinds

LEMMA PairType ==
  /\ NoPair \in Pairs
  /\ \A k \in Kinds : Absent \in KindContents(k) /\ KindContents(k) \subseteq Contents
  /\ \A f \in Pairs : \A k \in Kinds : f[k] \in KindContents(k)
  /\ \A f \in Pairs : \A k \in Kinds : \A t \in KindContents(k) : [f EXCEPT ![k] = t] \in Pairs
<1>1. \A k \in Kinds : Absent \in KindContents(k) /\ KindContents(k) \subseteq Contents
  BY DEF Kinds, KindContents, Contents
<1> QED
  BY <1>1 DEF NoPair, Pairs

(* The invocations' own variables.                                         *)
LocalsOK ==
  /\ pc \in [Procs -> PcValues]
  /\ kind \in [Procs -> Kinds]
  /\ out \in [Procs -> Outputs]
  /\ had \in [Procs -> [Kinds -> BOOLEAN]]
  /\ buf \in [Procs -> Contents] /\ \A p \in Procs : buf[p] \in KindContents(kind[p])
  /\ exit \in [Procs -> Exits]

LEMMA EndType ==
  ASSUME TypeOK, NEW p \in Procs, NEW code \in Exits, End(p, code)
  PROVE  LocalsOK'
BY PairType DEF TypeOK, LocalsOK, End, PcValues, Kinds, NoneHad

LEMMA AdvanceType ==
  ASSUME TypeOK, NEW p \in Procs, NEW again \in PcValues, NEW next \in PcValues, Advance(p, again, next)
  PROVE  LocalsOK'
BY PairType DEF TypeOK, LocalsOK, Advance, Kinds

LEMMA GotoType ==
  ASSUME TypeOK, NEW p \in Procs, NEW next \in PcValues, NEW text \in KindContents(kind[p]), Goto(p, next, text)
  PROVE  LocalsOK'
BY PairType DEF TypeOK, LocalsOK, Goto

LEMMA RestoredType ==
  ASSUME TypeOK, NEW p \in Procs, Restored(p)
  PROVE  LocalsOK'
BY EndType, AdvanceType DEF Restored, PcValues, Exits

(* Every step keeps the files' texts of their own kind.                    *)
THEOREM TypeInvariant == Spec => []TypeOK
<1>1. Init => TypeOK
  BY PairType DEF Init, TypeOK, PcValues, Kinds, NoneHad, Exits
<1>2. TypeOK /\ [Next]_vars => TypeOK'
  <2> SUFFICES ASSUME TypeOK, [Next]_vars PROVE TypeOK'
    OBVIOUS
  <2>0. ASSUME LocalsOK', files' \in Pairs \X Pairs \X [Dates -> Pairs] PROVE TypeOK'
    BY <2>0 DEF LocalsOK, TypeOK, files
  <2>a. ASSUME UNCHANGED files PROVE files' \in Pairs \X Pairs \X [Dates -> Pairs]
    BY <2>a DEF TypeOK, files
  <2> USE DEF TypeOK
  <2>1. CASE UNCHANGED vars
    BY <2>1 DEF vars
  <2>2. ASSUME NEW p \in Procs, RejectRun(p) PROVE TypeOK'
    BY <2>2, <2>0, <2>a, EndType DEF RejectRun, Exits
  <2>3. ASSUME NEW p \in Procs, Begin(p) PROVE TypeOK'
    BY <2>3 DEF Begin, files, PcValues
  <2>4. ASSUME NEW p \in Procs, SnapCheck(p) PROVE TypeOK'
    <3>1. Text(out[p], kind[p]) \in KindContents(kind[p])
      BY TextType
    <3>2. LocalsOK'
      BY <2>4, <3>1, EndType, AdvanceType, GotoType DEF SnapCheck, PcValues, Exits
    <3> QED
      BY <2>4, <3>2, <2>0, <2>a DEF SnapCheck
  <2>5. ASSUME NEW p \in Procs, SnapWrite(p) PROVE TypeOK'
    <3>1. LocalsOK'
      BY <2>5, EndType, AdvanceType DEF SnapWrite, PcValues, Exits
    <3>2. snap' \in [Dates -> Pairs]
      <4>1. out[p].date \in Dates
        BY DEF Outputs
      <4>2. [snap[out[p].date] EXCEPT ![kind[p]] = buf[p]] \in Pairs
        BY <4>1, PairType
      <4> QED
        BY <2>5, <4>1, <4>2 DEF SnapWrite, Torn
    <3> QED
      BY <2>5, <3>1, <3>2, <2>0 DEF SnapWrite, files
  <2>6. ASSUME NEW p \in Procs, EnterPublish(p) PROVE TypeOK'
    <3>1. LocalsOK'
      BY <2>6, EndType, GotoType, PairType DEF EnterPublish, PcValues, Exits
    <3> QED
      BY <2>6, <3>1, <2>0, <2>a DEF EnterPublish
  <2>7. ASSUME NEW p \in Procs, Probe(p) PROVE TypeOK'
    <3>1. LocalsOK'
      BY <2>7, PairType DEF Probe, LocalsOK, PcValues, Kinds
    <3> QED
      BY <2>7, <3>1, <2>0, <2>a DEF Probe, files
  <2>8. ASSUME NEW p \in Procs, GoodRead(p) PROVE TypeOK'
    <3>1. LocalsOK'
      BY <2>8, EndType, AdvanceType, GotoType, PairType DEF GoodRead, PcValues, Exits
    <3> QED
      BY <2>8, <3>1, <2>0, <2>a DEF GoodRead
  <2>9. ASSUME NEW p \in Procs, GoodWrite(p) PROVE TypeOK'
    <3>1. LocalsOK'
      BY <2>9, EndType, AdvanceType DEF GoodWrite, PcValues, Exits
    <3>2. good' \in Pairs
      BY <2>9, PairType DEF GoodWrite, Torn
    <3> QED
      BY <2>9, <3>1, <3>2, <2>0 DEF GoodWrite, files
  <2>10. ASSUME NEW p \in Procs, LiveWrite(p) PROVE TypeOK'
    <3>1. Text(out[p], kind[p]) \in KindContents(kind[p])
      BY TextType
    <3>2. LocalsOK'
      BY <2>10, EndType, AdvanceType, PairType DEF LiveWrite, LocalsOK, PcValues, Exits, Kinds
    <3>3. live' \in Pairs
      BY <2>10, <3>1, PairType DEF LiveWrite, Torn
    <3> QED
      BY <2>10, <3>2, <3>3, <2>0 DEF LiveWrite, files
  <2>11. ASSUME NEW p \in Procs, Restore(p) PROVE TypeOK'
    <3>1. LocalsOK'
      BY <2>11, EndType, RestoredType, GotoType, PairType DEF Restore, PcValues, Exits
    <3>2. live' \in Pairs
      BY <2>11, PairType DEF Restore
    <3> QED
      BY <2>11, <3>1, <3>2, <2>0 DEF Restore, files
  <2>12. ASSUME NEW p \in Procs, RestoreWrite(p) PROVE TypeOK'
    <3>1. LocalsOK'
      BY <2>12, EndType, RestoredType DEF RestoreWrite, Exits
    <3>2. live' \in Pairs
      BY <2>12, PairType DEF RestoreWrite, Torn
    <3> QED
      BY <2>12, <3>1, <3>2, <2>0 DEF RestoreWrite, files
  <2>13. ASSUME NEW p \in Procs, Kill(p) PROVE TypeOK'
    BY <2>13, <2>0, <2>a, EndType DEF Kill, Exits
  <2> QED
    BY <2>1, <2>2, <2>3, <2>4, <2>5, <2>6, <2>7, <2>8, <2>9, <2>10, <2>11, <2>12, <2>13 DEF Next, Step
<1> QED
  BY <1>1, <1>2, PTL DEF Spec
----------------------------------------------------------------------------
(* The text of a file names the date it is archived under.                 *)
LEMMA TextDate ==
  ASSUME NEW o1 \in Outputs, NEW o2 \in Outputs, NEW k \in Kinds, Text(o1, k) = Text(o2, k)
  PROVE  o1.date = o2.date
<1>1. CASE k = "pairlist"
  <2>1. PairlistText(o1).date = o1.date /\ PairlistText(o2).date = o2.date
    BY DEF PairlistText
  <2> QED
    BY <1>1, <2>1 DEF Text
<1>2. CASE k = "audit"
  BY <1>2 DEF Text, AuditText
<1> QED
  BY <1>1, <1>2 DEF Kinds

(* What is archived stays archived while snapshots only gain files.        *)
SnapKept == \A d \in Dates : \A k \in Kinds : snap[d][k] # Absent => snap'[d][k] = snap[d][k]

LEMMA ArchivedKept ==
  ASSUME SnapKept, NEW f, Archived(f)
  PROVE  \A k \in Kinds : \A o \in Outputs : f[k] = Text(o, k) => snap'[o.date][k] = f[k]
<1> SUFFICES ASSUME NEW k \in Kinds, NEW o \in Outputs, f[k] = Text(o, k) PROVE snap'[o.date][k] = f[k]
  OBVIOUS
<1>1. o.date \in Dates
  BY DEF Outputs
<1>2. snap[o.date][k] = f[k] /\ f[k] # Absent
  BY TextType DEF Archived
<1> QED
  BY <1>1, <1>2 DEF SnapKept

(* One file of a pair may take a text that is archived.                    *)
LEMMA ArchivedUpdate ==
  ASSUME TypeOK, SnapKept, NEW f \in Pairs, Archived(f), NEW j \in Kinds, NEW t \in KindContents(j),
         \A o \in Outputs : t = Text(o, j) => snap'[o.date][j] = t
  PROVE  \A k \in Kinds : \A o \in Outputs :
           [f EXCEPT ![j] = t][k] = Text(o, k) => snap'[o.date][k] = [f EXCEPT ![j] = t][k]
<1>1. DOMAIN f = Kinds
  BY DEF Pairs
<1>2. \A k \in Kinds : \A o \in Outputs : f[k] = Text(o, k) => snap'[o.date][k] = f[k]
  BY ArchivedKept
<1> QED
  BY <1>1, <1>2

(* A step keeps every archived text, and the archived-before-written       *)
(* invariant, whatever fails in it.                                        *)
LEMMA ArchiveStep ==
  ASSUME Serial, TypeOK, ArchiveInv, Next
  PROVE  ArchiveInv' /\ SnapKept
<1>1. PICK p \in Procs : RejectRun(p) \/ Begin(p) \/ Step(p) \/ Kill(p)
  BY DEF Next
<1> DEFINE d == out[p].date
           k == kind[p]
<1>2. /\ \A q \in Procs : q = p
      /\ ArchiveInvOf(p) /\ Archived(live) /\ Archived(good)
      /\ k \in Kinds /\ out[p] \in Outputs /\ d \in Dates
  BY DEF Serial, ArchiveInv, LiveIsArchived, TypeOK, Outputs
<1>3. SUFFICES Archived(live)' /\ Archived(good)' /\ ArchiveInvOf(p)' /\ SnapKept
  BY <1>2 DEF ArchiveInv, LiveIsArchived
<1>4. ASSUME UNCHANGED snap PROVE SnapKept
  BY <1>4 DEF SnapKept
<1>5. ASSUME SnapKept, UNCHANGED live PROVE Archived(live)'
  BY <1>5, <1>2, ArchivedKept DEF Archived
<1>6. ASSUME SnapKept, UNCHANGED good PROVE Archived(good)'
  BY <1>6, <1>2, ArchivedKept DEF Archived
<1>7. Text(out[p], k) # Absent /\ Text(out[p], k) \in KindContents(k)
  BY <1>2, TextType
<1>8. ASSUME SnapComplete(out[p]) PROVE snap[d] = PairOf(out[p])
  BY <1>8 DEF SnapComplete
<1>9. ASSUME NEW j \in Kinds PROVE PairOf(out[p])[j] = Text(out[p], j)
  BY DEF PairOf
<1>10. CASE RejectRun(p)
  BY <1>10, <1>2, <1>4, <1>5, <1>6 DEF RejectRun, End, files, TypeOK, ArchiveInvOf, Publishing, SnapComplete
<1>11. CASE Begin(p)
  BY <1>11, <1>2, <1>4, <1>5, <1>6 DEF Begin, files, TypeOK, ArchiveInvOf, Publishing, SnapComplete
<1>12. CASE SnapCheck(p)
  <2>1. SnapKept /\ Archived(live)' /\ Archived(good)' /\ snap' = snap
    BY <1>12, <1>4, <1>5, <1>6 DEF SnapCheck, files
  <2>2. ASSUME k = "audit", snap[d][k] = Text(out[p], k) PROVE SnapComplete(out[p])
    BY <2>2, <1>2, <1>12, PairType DEF SnapCheck, SnapComplete, PairOf, ArchiveInvOf, TypeOK, Pairs, Kinds
  <2> QED
    BY <1>12, <1>2, <2>1, <2>2
    DEF SnapCheck, Goto, Advance, End, files, TypeOK, ArchiveInvOf, Publishing, SnapComplete, Kinds
<1>13. CASE SnapWrite(p)
  <2>1. snap[d][k] = Absent /\ buf[p] = Text(out[p], k)
    BY <1>13, <1>2 DEF SnapWrite, ArchiveInvOf
  <2>2. snap' = [snap EXCEPT ![d][k] = buf[p]] \/ snap' = snap
    BY <1>13, <1>2 DEF SnapWrite, Torn, TypeOK
  <2>3. SnapKept
    BY <2>1, <2>2, <1>2 DEF SnapKept, TypeOK, Pairs
  <2>4. Archived(live)' /\ Archived(good)'
    BY <1>13, <2>3, <1>5, <1>6 DEF SnapWrite
  <2>5. CASE snap' = [snap EXCEPT ![d][k] = buf[p]] /\ Advance(p, "snapCheck", "enter")
    <3>1. k = "audit" => snap'[d] = PairOf(out[p])
      BY <2>5, <2>1, <1>2, <1>13 DEF SnapWrite, ArchiveInvOf, TypeOK, Pairs, PairOf, Kinds
    <3>2. snap'[d][k] = Text(out[p], k)
      BY <2>5, <2>1, <1>2 DEF TypeOK, Pairs
    <3> QED
      BY <2>5, <3>1, <3>2, <2>3, <2>4, <1>2 DEF Advance, TypeOK, ArchiveInvOf, Publishing, SnapComplete, Kinds
  <2>6. CASE End(p, "failed")
    BY <2>6, <2>3, <2>4, <1>2 DEF End, TypeOK, ArchiveInvOf, Publishing, SnapComplete
  <2> QED
    BY <1>13, <2>5, <2>6 DEF SnapWrite
<1>14. CASE EnterPublish(p)
  BY <1>14, <1>2, <1>4, <1>5, <1>6
  DEF EnterPublish, Goto, End, files, TypeOK, ArchiveInvOf, Publishing, SnapComplete
<1>15. CASE Probe(p)
  BY <1>15, <1>2, <1>4, <1>5, <1>6 DEF Probe, files, TypeOK, ArchiveInvOf, Publishing, SnapComplete, Kinds
<1>16. CASE GoodRead(p)
  BY <1>16, <1>2, <1>4, <1>5, <1>6
  DEF GoodRead, Goto, Advance, End, files, TypeOK, ArchiveInvOf, Publishing, SnapComplete, Kinds
<1>17. CASE GoodWrite(p)
  <2>1. SnapKept /\ Archived(live)' /\ UNCHANGED <<live, snap>>
    BY <1>17, <1>4, <1>5 DEF GoodWrite
  <2>2. good' = [good EXCEPT ![k] = buf[p]] \/ good' = good
    BY <1>17 DEF GoodWrite, Torn
  <2>3. buf[p] \in KindContents(k) /\ buf[p] = live[k]
    BY <1>17, <1>2 DEF GoodWrite, ArchiveInvOf, TypeOK
  <2>4. \A o \in Outputs : buf[p] = Text(o, k) => snap'[o.date][k] = buf[p]
    BY <2>1, <2>3, <1>2 DEF Archived
  <2>5. Archived(good)'
    <3>1. CASE good' = good
      BY <3>1, <2>1, <1>6
    <3>2. CASE good' = [good EXCEPT ![k] = buf[p]]
      BY <3>2, <2>1, <2>3, <2>4, <1>2, ArchivedUpdate DEF Archived, TypeOK
    <3> QED
      BY <2>2, <3>1, <3>2
  <2> QED
    BY <1>17, <1>2, <2>1, <2>5
    DEF GoodWrite, Advance, End, TypeOK, ArchiveInvOf, Publishing, SnapComplete, Kinds
<1>18. CASE LiveWrite(p)
  <2>1. SnapKept /\ Archived(good)' /\ UNCHANGED <<good, snap>>
    BY <1>18, <1>4, <1>6 DEF LiveWrite
  <2>2. live' = [live EXCEPT ![k] = Text(out[p], k)] \/ live' = live
    BY <1>18 DEF LiveWrite, Torn
  <2>3. \A o \in Outputs : Text(out[p], k) = Text(o, k) => snap'[o.date][k] = Text(out[p], k)
    BY <1>18, <1>2, <1>8, <1>9, <2>1, TextDate DEF LiveWrite, ArchiveInvOf, Publishing
  <2>4. Archived(live)'
    <3>1. CASE live' = live
      BY <3>1, <2>1, <1>5
    <3>2. CASE live' = [live EXCEPT ![k] = Text(out[p], k)]
      BY <3>2, <2>1, <2>3, <1>2, <1>7, ArchivedUpdate DEF Archived, TypeOK
    <3> QED
      BY <2>2, <3>1, <3>2
  <2>5. CASE Advance(p, "liveWrite", "idle") /\ k = "pairlist" /\ live' = [live EXCEPT ![k] = Text(out[p], k)]
    BY <2>5, <1>18, <1>2, <2>1, <2>4
    DEF LiveWrite, Advance, TypeOK, Pairs, ArchiveInvOf, Publishing, SnapComplete, Kinds
  <2>6. CASE End(p, "ok")
    BY <2>6, <1>2, <2>1, <2>4 DEF End, TypeOK, ArchiveInvOf, Publishing
  <2>7. CASE pc' = [pc EXCEPT ![p] = "restore"] /\ UNCHANGED <<out, had, exit>>
    BY <2>7, <1>18, <1>2, <2>1, <2>4 DEF LiveWrite, TypeOK, ArchiveInvOf, Publishing, SnapComplete
  <2> QED
    BY <1>18, <2>5, <2>6, <2>7 DEF LiveWrite
<1>19. ASSUME Restored(p), pc[p] \in Publishing, UNCHANGED <<snap, good>>, Archived(live)', Archived(good)'
       PROVE  ArchiveInvOf(p)'
  BY <1>19, <1>2 DEF Restored, Advance, End, TypeOK, ArchiveInvOf, Publishing, SnapComplete, Kinds
<1>20. CASE Restore(p)
  <2>1. SnapKept /\ Archived(good)' /\ UNCHANGED <<good, snap>> /\ pc[p] \in Publishing
    BY <1>20, <1>4, <1>6 DEF Restore, Publishing
  <2>2. live' = [live EXCEPT ![k] = Absent] \/ live' = live
    BY <1>20 DEF Restore
  <2>3. Archived(live)'
    <3>1. CASE live' = live
      BY <3>1, <2>1, <1>5
    <3>2. CASE live' = [live EXCEPT ![k] = Absent]
      BY <3>2, <2>1, <1>2, TextType, PairType, ArchivedUpdate DEF Archived, TypeOK
    <3> QED
      BY <2>2, <3>1, <3>2
  <2>4. CASE Goto(p, "restoreWrite", good[k])
    BY <2>4, <1>2, <2>1, <2>3 DEF Goto, TypeOK, ArchiveInvOf, Publishing, SnapComplete
  <2>5. CASE End(p, "broken")
    BY <2>5, <1>2, <2>1, <2>3 DEF End, TypeOK, ArchiveInvOf, Publishing
  <2> QED
    BY <1>20, <1>19, <2>1, <2>3, <2>4, <2>5 DEF Restore
<1>21. CASE RestoreWrite(p)
  <2>1. SnapKept /\ Archived(good)' /\ UNCHANGED <<good, snap>> /\ pc[p] \in Publishing
    BY <1>21, <1>4, <1>6 DEF RestoreWrite, Publishing
  <2>2. live' = [live EXCEPT ![k] = buf[p]] \/ live' = live
    BY <1>21 DEF RestoreWrite, Torn
  <2>3. buf[p] \in KindContents(k) /\ buf[p] = good[k]
    BY <1>21, <1>2 DEF RestoreWrite, ArchiveInvOf, TypeOK
  <2>4. \A o \in Outputs : buf[p] = Text(o, k) => snap'[o.date][k] = buf[p]
    BY <2>1, <2>3, <1>2 DEF Archived
  <2>5. Archived(live)'
    <3>1. CASE live' = live
      BY <3>1, <2>1, <1>5
    <3>2. CASE live' = [live EXCEPT ![k] = buf[p]]
      BY <3>2, <2>1, <2>3, <2>4, <1>2, ArchivedUpdate DEF Archived, TypeOK
    <3> QED
      BY <2>2, <3>1, <3>2
  <2>6. CASE End(p, "broken")
    BY <2>6, <1>2, <2>1, <2>5 DEF End, TypeOK, ArchiveInvOf, Publishing
  <2> QED
    BY <1>21, <1>19, <2>1, <2>5, <2>6 DEF RestoreWrite
<1>22. CASE Kill(p)
  BY <1>22, <1>2, <1>4, <1>5, <1>6 DEF Kill, End, files, TypeOK, ArchiveInvOf, Publishing
<1> QED
  BY <1>1, <1>10, <1>11, <1>12, <1>13, <1>14, <1>15, <1>16, <1>17, <1>18, <1>20, <1>21, <1>22 DEF Step
----------------------------------------------------------------------------
LEMMA ArchiveInvariant ==
  ASSUME Serial
  PROVE  Spec => []ArchiveInv
<1>1. Init => ArchiveInv
  <2> SUFFICES ASSUME Init PROVE ArchiveInv
    OBVIOUS
  <2>1. Archived(live) /\ Archived(good)
    BY TextType DEF Init, Archived, NoPair
  <2> QED
    BY <2>1 DEF Init, ArchiveInv, LiveIsArchived, ArchiveInvOf, Publishing
<1>2. ArchiveInv /\ UNCHANGED vars => ArchiveInv'
  BY DEF ArchiveInv, LiveIsArchived, Archived, ArchiveInvOf, SnapComplete, vars
<1>3. TypeOK /\ ArchiveInv /\ [Next]_vars => ArchiveInv'
  BY <1>2, ArchiveStep
<1> QED
  BY <1>1, <1>3, TypeInvariant, PTL DEF Spec

(* SAFETY 2: every live or previous-good text is in the dated snapshots,   *)
(* whatever write fails and wherever a run is killed.                      *)
THEOREM LiveIsAlwaysArchived ==
  ASSUME Serial
  PROVE  Spec => []LiveIsArchived
<1>1. ArchiveInv => LiveIsArchived
  BY DEF ArchiveInv
<1> QED
  BY <1>1, ArchiveInvariant, PTL

(* SAFETY 4: write_snapshot never replaces a dated file.                   *)
THEOREM SnapshotsAreImmutable ==
  ASSUME Serial
  PROVE  Spec => SnapshotImmutable
<1>1. TypeOK /\ ArchiveInv /\ [Next]_vars
        => [\A d \in Dates : \A k \in Kinds : snap[d][k] # Absent => snap'[d][k] = snap[d][k]]_vars
  BY ArchiveStep DEF SnapKept
<1> QED
  BY <1>1, TypeInvariant, ArchiveInvariant, PTL DEF Spec, SnapshotImmutable

(* SAFETY 3: the live and the previous-good pair change only in a run whose *)
(* own snapshot pair is complete.                                          *)
THEOREM PublishFollowsSnapshot ==
  ASSUME Serial
  PROVE  Spec => SnapshotBeforePublish
<1>1. TypeOK /\ ArchiveInv /\ Next
        => (<<live, good>>' # <<live, good>> => \E p \in Procs : pc[p] # "idle" /\ SnapComplete(out[p]))
  <2> SUFFICES ASSUME ArchiveInv, Next, <<live, good>>' # <<live, good>>
               PROVE  \E p \in Procs : pc[p] # "idle" /\ SnapComplete(out[p])
    OBVIOUS
  <2>1. PICK p \in Procs : RejectRun(p) \/ Begin(p) \/ Step(p) \/ Kill(p)
    BY DEF Next
  <2>2. GoodWrite(p) \/ LiveWrite(p) \/ Restore(p) \/ RestoreWrite(p)
    BY <2>1 DEF Step, RejectRun, Begin, SnapCheck, SnapWrite, EnterPublish, Probe, GoodRead, Kill, files
  <2>3. pc[p] \in Publishing /\ pc[p] # "idle"
    BY <2>2 DEF GoodWrite, LiveWrite, Restore, RestoreWrite, Publishing
  <2> QED
    BY <2>3 DEF ArchiveInv, ArchiveInvOf
<1>2. TypeOK /\ ArchiveInv /\ [Next]_vars
        => [<<live, good>>' # <<live, good>> => \E p \in Procs : pc[p] # "idle" /\ SnapComplete(out[p])]_vars
  BY <1>1
<1> QED
  BY <1>2, TypeInvariant, ArchiveInvariant, PTL DEF Spec, SnapshotBeforePublish

(* SAFETY 5: exit code 0 means that the live pair and the dated pair are   *)
(* both the run's own.                                                     *)
THEOREM SuccessfulRunIsComplete ==
  ASSUME Serial
  PROVE  Spec => SuccessIsComplete
<1> DEFINE Done(p) == pc[p] # "idle" /\ pc'[p] = "idle" /\ exit'[p] = "ok"
           Whole(p) == live' = PairOf(out[p]) /\ snap'[out[p].date] = PairOf(out[p])
<1>1. ASSUME TypeOK, ArchiveInv, Next, NEW p \in Procs, Done(p)
      PROVE  Whole(p)
  <2>1. RejectRun(p) \/ Begin(p) \/ Step(p) \/ Kill(p)
    BY <1>1 DEF Next, Serial
  <2>2. LiveWrite(p) /\ kind[p] = "audit" /\ live' = [live EXCEPT !["audit"] = Text(out[p], "audit")]
    BY <2>1, <1>1
    DEF Step, RejectRun, Begin, SnapCheck, SnapWrite, EnterPublish, Probe, GoodRead, GoodWrite, LiveWrite,
        Restore, RestoreWrite, Restored, Kill, Goto, Advance, End, TypeOK, Kinds
  <2>3. live["pairlist"] = Text(out[p], "pairlist") /\ SnapComplete(out[p]) /\ snap' = snap
    BY <2>2, <1>1 DEF LiveWrite, ArchiveInv, ArchiveInvOf, Publishing
  <2>4. live' = PairOf(out[p])
    BY <2>2, <2>3, <1>1 DEF TypeOK, Pairs, PairOf, Kinds
  <2> QED
    BY <2>3, <2>4 DEF SnapComplete
<1>2. TypeOK /\ ArchiveInv /\ [Next]_vars
        => [\A p \in Procs : pc[p] # "idle" /\ pc'[p] = "idle" /\ exit'[p] = "ok"
              => live' = PairOf(out[p]) /\ snap'[out[p].date] = PairOf(out[p])]_vars
  BY <1>1
<1> QED
  BY <1>2, TypeInvariant, ArchiveInvariant, PTL DEF Spec, SuccessIsComplete
----------------------------------------------------------------------------
(* Two pairs with the same two files are one.                              *)
LEMMA PairEquality ==
  ASSUME NEW f \in Pairs, NEW g \in Pairs, \A k \in Kinds : f[k] = g[k]
  PROVE  f = g
BY DEF Pairs

LEMMA SavedType ==
  ASSUME TypeOK, TypeOK', NEW p \in Procs
  PROVE  Saved(p) \in Pairs /\ Saved(p)' \in Pairs
<1>1. \A k \in Kinds : (IF had[p][k] THEN good[k] ELSE Absent) \in KindContents(k)
  BY PairType DEF TypeOK
<1>2. \A k \in Kinds : (IF had'[p][k] THEN good'[k] ELSE Absent) \in KindContents(k)
  BY PairType DEF TypeOK
<1> QED
  BY <1>1, <1>2, PairType DEF Saved, Pairs

LEMMA PairOfType ==
  ASSUME NEW o \in Outputs
  PROVE  PairOf(o) \in Pairs /\ Matches(PairOf(o))
BY TextType, PairType DEF PairOf, Pairs, Matches

(* While nothing is killed and no restore fails, a step keeps what a       *)
(* failing publish would put back equal to the matching pair it found.     *)
LEMMA RestoreStep ==
  ASSUME Serial, Faults \subseteq {"write"}, TypeOK, TypeOK', RestoreInv, Next
  PROVE  RestoreInv'
<1>1. PICK p \in Procs : RejectRun(p) \/ Begin(p) \/ Step(p)
  BY DEF Next, Kill
<1> DEFINE k == kind[p]
<1>2. /\ \A q \in Procs : q = p
      /\ RestoreInvOf(p)
      /\ k \in Kinds /\ out[p] \in Outputs /\ live \in Pairs /\ good \in Pairs /\ live' \in Pairs /\ good' \in Pairs
      /\ Saved(p) \in Pairs /\ Saved(p)' \in Pairs
  BY SavedType DEF Serial, RestoreInv, TypeOK
<1>3. SUFFICES RestoreInvOf(p)'
  BY <1>2 DEF RestoreInv
<1>4. ASSUME UNCHANGED <<live, good, had>> PROVE Saved(p)' = Saved(p) /\ (Matches(live)' <=> Matches(live))
  BY <1>4 DEF Saved, Matches
<1>5. ASSUME UNCHANGED live, Matches(live), pc'[p] = "idle", kind'[p] = "pairlist" PROVE RestoreInvOf(p)'
  BY <1>5 DEF RestoreInvOf, InWindow, Matches
<1>6. Text(out[p], k) # Absent
  BY <1>2, TextType
<1>10. CASE RejectRun(p)
  BY <1>10, <1>2, <1>5 DEF RejectRun, End, files, TypeOK, RestoreInvOf, InWindow
<1>11. CASE Begin(p)
  BY <1>11, <1>2, <1>4 DEF Begin, files, TypeOK, RestoreInvOf, InWindow
<1>12. CASE SnapCheck(p)
  BY <1>12, <1>2, <1>4
  DEF SnapCheck, Goto, Advance, End, files, TypeOK, RestoreInvOf, InWindow, Matches, Kinds
<1>13. CASE SnapWrite(p)
  BY <1>13, <1>2, <1>4
  DEF SnapWrite, Goto, Advance, End, TypeOK, RestoreInvOf, InWindow, Matches, Kinds
<1>14. CASE EnterPublish(p)
  BY <1>14, <1>2, <1>4
  DEF EnterPublish, Goto, End, files, TypeOK, RestoreInvOf, InWindow, Matches, Kinds
<1>15. CASE Probe(p)
  <2>1. UNCHANGED <<live, good, snap, out>> /\ Matches(live)'
    BY <1>15, <1>2 DEF Probe, files, RestoreInvOf, InWindow, Matches
  <2>2. had'[p][k] <=> live[k] # Absent
    BY <1>15, <1>2 DEF Probe, TypeOK
  <2>3. CASE k = "pairlist"
    BY <2>1, <2>2, <2>3, <1>15, <1>2 DEF Probe, TypeOK, RestoreInvOf, InWindow
  <2>4. CASE k = "audit"
    <3>1. had'[p]["pairlist"] <=> live["pairlist"] # Absent
      BY <2>4, <1>15, <1>2 DEF Probe, TypeOK, RestoreInvOf
    <3> QED
      BY <3>1, <2>1, <2>2, <2>4, <1>15, <1>2 DEF Probe, TypeOK, RestoreInvOf, InWindow, Kinds
  <2> QED
    BY <1>2, <2>3, <2>4 DEF Kinds
<1>16. CASE GoodRead(p)
  <2>1. UNCHANGED <<live, good, snap>> /\ Matches(live)' /\ Matches(live)
    BY <1>16, <1>2 DEF GoodRead, files, RestoreInvOf, InWindow, Matches
  <2>2. CASE Goto(p, "goodWrite", live[k]) /\ had[p][k]
    BY <2>2, <2>1, <1>16, <1>2 DEF GoodRead, Goto, TypeOK, RestoreInvOf, InWindow
  <2>3. CASE Advance(p, "goodRead", "liveWrite") /\ ~had[p][k] /\ k = "pairlist"
    BY <2>3, <2>1, <1>16, <1>2 DEF GoodRead, Advance, TypeOK, RestoreInvOf, InWindow, Kinds
  <2>4. CASE Advance(p, "goodRead", "liveWrite") /\ ~had[p][k] /\ k = "audit"
    <3>1. Saved(p) = live /\ \A j \in Kinds : had[p][j] => good[j] # Absent
      BY <2>4, <1>16, <1>2, PairEquality DEF GoodRead, RestoreInvOf, Saved, Kinds
    <3>2. Saved(p)' = live' /\ \A j \in Kinds : had'[p][j] => good'[j] # Absent
      BY <3>1, <2>1, <2>4, <1>4 DEF Advance
    <3> QED
      BY <3>2, <2>1, <2>4, <1>2 DEF Advance, TypeOK, RestoreInvOf, InWindow
  <2>5. CASE End(p, "failed")
    BY <2>5, <2>1, <1>2, <1>5 DEF End, TypeOK
  <2> QED
    BY <1>16, <1>2, <2>2, <2>3, <2>4, <2>5 DEF GoodRead, Kinds
<1>17. CASE GoodWrite(p)
  <2>1. UNCHANGED <<live, snap>> /\ Matches(live)' /\ Matches(live) /\ had[p][k] /\ buf[p] = live[k]
    BY <1>17, <1>2 DEF GoodWrite, RestoreInvOf, InWindow, Matches
  <2>2. CASE Advance(p, "goodRead", "liveWrite") /\ good' = [good EXCEPT ![k] = buf[p]] /\ k = "pairlist"
    BY <2>1, <2>2, <1>17, <1>2 DEF GoodWrite, Advance, TypeOK, RestoreInvOf, InWindow, Kinds, Pairs
  <2>3. CASE Advance(p, "goodRead", "liveWrite") /\ good' = [good EXCEPT ![k] = buf[p]] /\ k = "audit"
    <3>1. \A j \in Kinds : had'[p][j] => good'[j] = live'[j] /\ good'[j] # Absent
      BY <2>1, <2>3, <1>17, <1>2 DEF GoodWrite, Advance, RestoreInvOf, Kinds, Pairs
    <3>2. \A j \in Kinds : ~had'[p][j] => live'[j] = Absent
      BY <2>1, <2>3, <1>17, <1>2 DEF GoodWrite, Advance, RestoreInvOf
    <3>3. Saved(p)' = live'
      BY <3>1, <3>2, <1>2, PairEquality DEF Saved
    <3> QED
      BY <3>1, <3>3, <2>1, <2>3, <1>2 DEF Advance, TypeOK, RestoreInvOf, InWindow
  <2>4. CASE End(p, "failed")
    BY <2>4, <2>1, <1>2, <1>5 DEF End, TypeOK
  <2> QED
    BY <1>17, <1>2, <2>2, <2>3, <2>4 DEF GoodWrite, Kinds
<1>18. CASE LiveWrite(p)
  <2>1. UNCHANGED <<good, snap>> /\ Matches(Saved(p)) /\ \A j \in Kinds : had[p][j] => good[j] # Absent
    BY <1>18, <1>2 DEF LiveWrite, RestoreInvOf
  <2>2. CASE Advance(p, "liveWrite", "idle") /\ live' = [live EXCEPT ![k] = Text(out[p], k)] /\ k = "pairlist"
    <3>1. Saved(p)' = Saved(p)
      BY <2>1, <2>2 DEF Advance, Saved
    <3> QED
      BY <3>1, <2>1, <2>2, <1>18, <1>2
      DEF LiveWrite, Advance, TypeOK, RestoreInvOf, InWindow, Matches, Pairs, Kinds
  <2>3. CASE End(p, "ok") /\ live' = [live EXCEPT ![k] = Text(out[p], k)] /\ k = "audit"
    <3>1. live' = PairOf(out[p])
      BY <2>3, <1>18, <1>2, PairOfType, PairEquality DEF LiveWrite, RestoreInvOf, PairOf, Pairs, Kinds
    <3>2. Matches(live)'
      BY <3>1, <1>2 DEF Matches
    <3> QED
      BY <3>2, <2>3, <1>2 DEF End, TypeOK, RestoreInvOf, InWindow
  <2>4. CASE pc' = [pc EXCEPT ![p] = "restore"] /\ kind' = [kind EXCEPT ![p] = "pairlist"] /\ UNCHANGED <<out, had, exit>>
    <3>1. Saved(p)' = Saved(p)
      BY <2>1, <2>4 DEF Saved
    <3> QED
      BY <3>1, <2>1, <2>4, <1>2 DEF TypeOK, RestoreInvOf, InWindow, Matches
  <2> QED
    BY <1>18, <2>2, <2>3, <2>4 DEF LiveWrite
<1>19. ASSUME Restored(p), pc[p] \in {"restore", "restoreWrite"}, UNCHANGED <<snap, good>>,
              live' = [live EXCEPT ![k] = Saved(p)[k]]
       PROVE  RestoreInvOf(p)'
  <2>1. Matches(Saved(p)) /\ (\A j \in Kinds : had[p][j] => good[j] # Absent)
        /\ (k = "audit" => live["pairlist"] = Saved(p)["pairlist"])
    BY <1>19, <1>2 DEF RestoreInvOf
  <2>2. CASE k = "pairlist"
    <3>1. Saved(p)' = Saved(p)
      BY <2>2, <1>19 DEF Restored, Advance, Saved
    <3> QED
      BY <3>1, <2>1, <2>2, <1>19, <1>2
      DEF Restored, Advance, TypeOK, RestoreInvOf, InWindow, Matches, Pairs, Kinds
  <2>3. CASE k = "audit"
    <3>1. live' = Saved(p)
      BY <2>1, <2>3, <1>19, <1>2, PairEquality DEF Pairs, Kinds
    <3>2. Matches(live)'
      BY <3>1, <2>1 DEF Matches
    <3> QED
      BY <3>2, <2>3, <1>19, <1>2 DEF Restored, End, TypeOK, RestoreInvOf, InWindow
  <2> QED
    BY <1>2, <2>2, <2>3 DEF Kinds
<1>20. CASE Restore(p)
  <2>1. CASE had[p][k] /\ Goto(p, "restoreWrite", good[k]) /\ UNCHANGED live
    <3>1. UNCHANGED <<live, good, had>>
      BY <2>1, <1>20 DEF Restore, Goto
    <3> QED
      BY <3>1, <2>1, <1>4, <1>20, <1>2 DEF Restore, Goto, TypeOK, RestoreInvOf, InWindow
  <2>2. CASE ~had[p][k] /\ live' = [live EXCEPT ![k] = Absent] /\ Restored(p)
    BY <2>2, <1>19, <1>20, <1>2 DEF Restore, Saved
  <2> QED
    BY <1>20, <1>2, <2>1, <2>2 DEF Restore, RestoreInvOf
<1>21. CASE RestoreWrite(p)
  <2>1. live' = [live EXCEPT ![k] = buf[p]] /\ Restored(p)
    BY <1>21 DEF RestoreWrite
  <2>2. buf[p] = Saved(p)[k]
    BY <1>21, <1>2 DEF RestoreWrite, RestoreInvOf, Saved
  <2> QED
    BY <2>1, <2>2, <1>19, <1>21 DEF RestoreWrite
<1> QED
  BY <1>1, <1>10, <1>11, <1>12, <1>13, <1>14, <1>15, <1>16, <1>17, <1>18, <1>20, <1>21 DEF Step

LEMMA RestoreInvariant ==
  ASSUME Serial, Faults \subseteq {"write"}
  PROVE  Spec => []RestoreInv
<1>1. Init => RestoreInv
  BY DEF Init, RestoreInv, RestoreInvOf, InWindow, Matches
<1>2. RestoreInv /\ UNCHANGED vars => RestoreInv'
  BY DEF RestoreInv, RestoreInvOf, InWindow, Matches, Saved, vars
<1>3. TypeOK /\ TypeOK' /\ RestoreInv /\ [Next]_vars => RestoreInv'
  BY <1>2, RestoreStep
<1> QED
  BY <1>1, <1>3, TypeInvariant, PTL DEF Spec

(* SAFETY 1: whichever write fails, the live pairlist and audit come from  *)
(* one run whenever no publish is between its two live writes.             *)
THEOREM LivePairAlwaysMatches ==
  ASSUME Serial, Faults \subseteq {"write"}
  PROVE  Spec => []LivePairMatches
<1>1. RestoreInv => LivePairMatches
  <2> SUFFICES ASSUME RestoreInv, \A p \in Procs : ~InWindow(p) PROVE Matches(live)
    BY DEF LivePairMatches
  <2> QED
    BY ProcsAssumption DEF RestoreInv, RestoreInvOf
<1> QED
  BY <1>1, RestoreInvariant, PTL

-----------------------------------------------------------------------------
(***************************************************************************)
(* PairlistPublish implements AtomicPublish, for one invocation at a time  *)
(* whose writes may fail: readers never see anything but whole archived    *)
(* outputs, in single steps, outside the window of a publish.              *)
(***************************************************************************)

(* The abstract module's copies of the shared definitions.                 *)
LEMMA SharedData ==
  /\ Atomic!Outputs = Outputs /\ Atomic!NoPair = NoPair
  /\ \A o : Atomic!PairOf(o) = PairOf(o)
BY DEF Atomic!Outputs, Outputs, Atomic!NoPair, NoPair, Atomic!PairOf, PairOf, Atomic!Text, Text,
       Atomic!Kinds, Kinds, Atomic!PairlistText, PairlistText, Atomic!AuditText, AuditText

LEMMA SoleProcess ==
  ASSUME Serial, NEW p \in Procs
  PROVE  /\ PublishedPair = IF InWindow(p) THEN Saved(p) ELSE live
         /\ PublishedPair' = IF InWindow(p)' THEN Saved(p)' ELSE live'
<1>1. \A q \in Procs : q = p
  BY DEF Serial
<1>2. InWindow(p) => (CHOOSE q \in Procs : InWindow(q)) = p
  BY <1>1
<1>3. InWindow(p)' => (CHOOSE q \in Procs : InWindow(q)') = p
  BY <1>1
<1>4. (\E q \in Procs : InWindow(q)) <=> InWindow(p)
  BY <1>1
<1>5. (\E q \in Procs : InWindow(q)') <=> InWindow(p)'
  BY <1>1
<1>6. PublishedPair = IF InWindow(p) THEN Saved(p) ELSE live
  BY <1>2, <1>4 DEF PublishedPair
<1>7. PublishedPair' = IF InWindow(p)' THEN Saved(p)' ELSE live'
  BY <1>3, <1>5 DEF PublishedPair
<1> QED
  BY <1>6, <1>7

(* The step of each action: an abstract step when a run archives its audit *)
(* or completes its publish, and no change for the reader otherwise.       *)
LEMMA AbstractStep ==
  ASSUME Serial, Faults \subseteq {"write"}, TypeOK, TypeOK', ArchiveInv, RestoreInv, Next
  PROVE  [Atomic!ANext]_<<PublishedPair, ArchivedOutput>>
<1>1. PICK p \in Procs : RejectRun(p) \/ Begin(p) \/ Step(p)
  BY DEF Next, Kill
<1> DEFINE d == out[p].date
           k == kind[p]
           Stutter == PublishedPair' = PublishedPair /\ ArchivedOutput' = ArchivedOutput
<1>2. /\ PublishedPair = IF InWindow(p) THEN Saved(p) ELSE live
      /\ PublishedPair' = IF InWindow(p)' THEN Saved(p)' ELSE live'
      /\ ArchiveInvOf(p) /\ RestoreInvOf(p)
      /\ k \in Kinds /\ out[p] \in Outputs /\ d \in Dates
      /\ live \in Pairs /\ live' \in Pairs /\ Saved(p) \in Pairs
  BY SoleProcess, SavedType DEF ArchiveInv, RestoreInv, TypeOK, Outputs
<1>3. ASSUME UNCHANGED snap PROVE ArchivedOutput' = ArchivedOutput
  BY <1>3 DEF ArchivedOutput
<1>4. SUFFICES Stutter \/ \E o \in Outputs : Atomic!Archive(o) \/ Atomic!Publish(o)
  BY SharedData DEF Atomic!ANext
<1>5. ASSUME UNCHANGED <<live, snap>>, ~InWindow(p), ~InWindow(p)' PROVE Stutter
  BY <1>2, <1>3, <1>5
<1>6. ASSUME UNCHANGED <<good, had, snap>>, InWindow(p), InWindow(p)' PROVE Stutter
  BY <1>2, <1>3, <1>6 DEF Saved
<1>7. CASE RejectRun(p) \/ Begin(p) \/ SnapCheck(p) \/ EnterPublish(p) \/ Probe(p) \/ GoodRead(p)
  <2>1. UNCHANGED <<live, snap>> /\ ~InWindow(p)
    BY <1>7 DEF RejectRun, Begin, SnapCheck, EnterPublish, Probe, GoodRead, files, InWindow
  <2>2. ~InWindow(p)'
    BY <1>7, <1>2
    DEF RejectRun, Begin, SnapCheck, EnterPublish, Probe, GoodRead, End, Advance, Goto, TypeOK, InWindow, Kinds
  <2> QED
    BY <2>1, <2>2, <1>5
<1>8. CASE SnapWrite(p)
  <2>1. /\ ~InWindow(p) /\ ~InWindow(p)' /\ live' = live
        /\ snap' = snap \/ snap' = [snap EXCEPT ![d][k] = buf[p]]
        /\ snap[d][k] = Absent /\ buf[p] = Text(out[p], k)
    BY <1>8, <1>2 DEF SnapWrite, Torn, End, Advance, TypeOK, InWindow, Kinds, ArchiveInvOf
  <2>2. CASE snap' = snap
    BY <2>1, <2>2, <1>5
  <2>3. CASE snap' = [snap EXCEPT ![d][k] = buf[p]] /\ k = "pairlist"
    <3>1. ArchivedOutput' = ArchivedOutput
      BY <2>3, <1>2 DEF ArchivedOutput, TypeOK, Pairs
    <3> QED
      BY <3>1, <2>1, <1>2
  <2>4. CASE snap' = [snap EXCEPT ![d][k] = buf[p]] /\ k = "audit"
    <3>1. ArchivedOutput[d] = Absent /\ buf[p] = out[p]
      BY <2>1, <2>4, <1>2 DEF ArchivedOutput, Text, AuditText
    <3>2. ArchivedOutput' = [ArchivedOutput EXCEPT ![d] = out[p]]
      BY <2>4, <3>1, <1>2 DEF ArchivedOutput, TypeOK, Pairs, Kinds
    <3>3. PublishedPair' = PublishedPair
      BY <2>1, <1>2
    <3>4. Atomic!Archive(out[p])
      BY <3>1, <3>2, <3>3 DEF Atomic!Archive
    <3> QED
      BY <3>4, <1>2
  <2> QED
    BY <2>1, <2>2, <2>3, <2>4, <1>2 DEF Kinds
<1>9. CASE GoodWrite(p)
  <2>1. UNCHANGED <<live, snap>> /\ ~InWindow(p) /\ ~InWindow(p)'
    BY <1>9, <1>2 DEF GoodWrite, End, Advance, TypeOK, InWindow, Kinds
  <2> QED
    BY <2>1, <1>5
<1>10. CASE LiveWrite(p)
  <2>1. UNCHANGED <<good, snap>> /\ (k = "pairlist" => ~InWindow(p) /\ Saved(p) = live) /\ (k = "audit" => InWindow(p))
    BY <1>10, <1>2 DEF LiveWrite, InWindow, RestoreInvOf
  <2>2. CASE End(p, "ok") /\ k = "audit" /\ live' = [live EXCEPT ![k] = Text(out[p], k)]
    <3>1. live' = PairOf(out[p])
      BY <2>2, <1>10, <1>2, PairOfType, PairEquality DEF LiveWrite, RestoreInvOf, PairOf, Pairs, Kinds
    <3>2. ArchivedOutput[d] = out[p] /\ ArchivedOutput' = ArchivedOutput
      BY <2>1, <1>2, <1>3, <1>10
      DEF ArchivedOutput, LiveWrite, ArchiveInvOf, Publishing, SnapComplete, PairOf, Text, AuditText, Kinds
    <3>3. PublishedPair' = live'
      BY <2>2, <1>2 DEF End, TypeOK, InWindow
    <3>4. Atomic!Publish(out[p])
      BY <3>1, <3>2, <3>3, SharedData DEF Atomic!Publish
    <3> QED
      BY <3>4, <1>2
  <2>3. CASE UNCHANGED <<out, had, exit>> /\ InWindow(p)'
    <3>1. Saved(p)' = Saved(p) /\ ArchivedOutput' = ArchivedOutput
      BY <2>1, <2>3, <1>3 DEF Saved
    <3> QED
      BY <3>1, <2>1, <2>3, <1>2 DEF Kinds
  <2>4. InWindow(p)' \/ End(p, "ok")
    BY <1>10, <1>2 DEF LiveWrite, Advance, TypeOK, InWindow
  <2> QED
    BY <1>10, <1>2, <2>2, <2>3, <2>4 DEF LiveWrite, Advance, InWindow, TypeOK
<1>11. ASSUME InWindow(p), Restored(p), UNCHANGED <<good, snap>>, live' = [live EXCEPT ![k] = Saved(p)[k]],
              pc[p] \in {"restore", "restoreWrite"}
       PROVE  Stutter
  <2>1. CASE k = "pairlist"
    BY <2>1, <1>6, <1>11 DEF Restored, Advance, TypeOK, InWindow
  <2>2. CASE k = "audit"
    <3>1. live' = Saved(p)
      BY <2>2, <1>11, <1>2, PairEquality DEF RestoreInvOf, Pairs, Kinds
    <3>2. ~InWindow(p)'
      BY <2>2, <1>11 DEF Restored, End, TypeOK, InWindow
    <3> QED
      BY <3>1, <3>2, <1>2, <1>3, <1>11
  <2> QED
    BY <2>1, <2>2, <1>2 DEF Kinds
<1>12. CASE Restore(p)
  <2>1. CASE Goto(p, "restoreWrite", good[k]) /\ UNCHANGED live
    BY <2>1, <1>6, <1>12 DEF Restore, Goto, TypeOK, InWindow
  <2>2. CASE ~had[p][k] /\ live' = [live EXCEPT ![k] = Absent] /\ Restored(p)
    BY <2>2, <1>2, <1>11, <1>12 DEF Restore, InWindow, Saved
  <2> QED
    BY <1>12, <1>2, <2>1, <2>2 DEF Restore, RestoreInvOf
<1>13. CASE RestoreWrite(p)
  <2>1. live' = [live EXCEPT ![k] = buf[p]] /\ Restored(p) /\ UNCHANGED <<good, snap>>
    BY <1>13 DEF RestoreWrite
  <2>2. buf[p] = Saved(p)[k]
    BY <1>13, <1>2 DEF RestoreWrite, RestoreInvOf, Saved
  <2> QED
    BY <2>1, <2>2, <1>11, <1>13 DEF RestoreWrite, InWindow
<1> QED
  BY <1>1, <1>7, <1>8, <1>9, <1>10, <1>12, <1>13 DEF Step

(* REFINEMENT: with one invocation at a time and no kill, every behaviour  *)
(* of the publisher is a behaviour of the atomic, append-only publisher.   *)
THEOREM PublishIsAtomic ==
  ASSUME Serial, Faults \subseteq {"write"}
  PROVE  Spec => ImplementsAtomicPublish
<1>1. Init => Atomic!AInit
  <2> SUFFICES ASSUME Init PROVE PublishedPair = NoPair /\ ArchivedOutput = [d \in Dates |-> Absent]
    BY SharedData DEF Atomic!AInit
  <2>1. \A p \in Procs : ~InWindow(p)
    BY DEF Init, InWindow
  <2> QED
    BY <2>1 DEF Init, PublishedPair, ArchivedOutput, NoPair, Kinds
<1>2. UNCHANGED vars => UNCHANGED <<PublishedPair, ArchivedOutput>>
  BY DEF vars, PublishedPair, ArchivedOutput, InWindow, Saved
<1>3. TypeOK /\ TypeOK' /\ ArchiveInv /\ RestoreInv /\ [Next]_vars
        => [Atomic!ANext]_<<PublishedPair, ArchivedOutput>>
  BY <1>2, AbstractStep
<1>4. Atomic!avars = <<PublishedPair, ArchivedOutput>>
  BY DEF Atomic!avars
<1> QED
  BY <1>1, <1>3, <1>4, TypeInvariant, ArchiveInvariant, RestoreInvariant, PTL
  DEF Spec, ImplementsAtomicPublish, Atomic!ASpec, Atomic!avars
=============================================================================
