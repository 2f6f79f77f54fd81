-------------------------- MODULE GovernanceProofs --------------------------
(***************************************************************************)
(* Proofs about Governance, for every number of reports and records, every  *)
(* evidence and every reviewer: records that verify as a chain are honest,  *)
(* and whatever is handed off was approved and rests on its evidence.       *)
(***************************************************************************)
EXTENDS Governance, SequenceTheorems, FiniteSetTheorems, TLAPS

-----------------------------------------------------------------------------
(***************************************************************************)
(* The inductive invariant.  Records are compared by what was sealed in     *)
(* them, which damage does not reach.                                       *)
(***************************************************************************)
Shaped(r) ==
  /\ r = [source |-> r.source, decision |-> r.decision, who |-> r.who,
          verdict |-> r.verdict, note |-> r.note, at |-> r.at, prev |-> r.prev,
          accepted |-> r.accepted, fp |-> r.fp]
  /\ r.verdict \in Verdicts
  /\ r.source = r.fp.source
  /\ r.decision = r.fp.decision
  /\ r.who = r.fp.who
  /\ r.note = r.fp.note
  /\ r.at = r.fp.at
  /\ r.prev = r.fp.prev

RecordsAre(s) ==
  /\ s \in Seq({s[i] : i \in 1 .. Len(s)})
  /\ \A i \in 1 .. Len(s) : Shaped(s[i])

\* The sealed contents are linked, each to the one before it, and distinct.
SealedChain(s) ==
  /\ NoRepeatedFingerprint(s)
  /\ \A i \in 1 .. Len(s) : s[i].fp.prev = Expected(s, i)

SealedHonest(s, issued) ==
  \A i \in 1 .. Len(s) : s[i].fp.accepted =>
    /\ \E r \in issued : s[i].fp.source = r.fingerprint /\ s[i].fp.decision = r.decision
    /\ ~(s[i].fp.decision = "NO_GO" /\ s[i].fp.verdict = "APPROVE_FOR_RESEARCH")
    /\ \A j \in 1 .. i - 1 : ~SameReview(s[j].fp, s[i].fp.source, s[i].fp)

RestsOnEvidence(r) ==
  /\ r.risk # None /\ r.universe # None
  /\ r.risk.accepted /\ r.risk.open /\ r.universe.safe
  /\ r.at - r.risk.at <= MaxRiskAge
  /\ r.at - r.universe.at <= MaxUniverseAge
  /\ ~(r.at - Now > FutureSkew)
  /\ r.risk.pairs \cap r.universe.blocked = {}
  /\ r.universe.watchlist = {}

ReportsInv(issued) ==
  \A r \in issued :
    /\ r.fingerprint.decision = r.decision
    /\ r.decision \in {"GO", "NEEDS_REVIEW", "NO_GO"}
    /\ r.decision = "GO" => RestsOnEvidence(r)

Approval(s, total, latest, i) ==
  /\ s[i].fp.accepted
  /\ s[i].fp.verdict = "APPROVE_FOR_RESEARCH"
  /\ \A j \in 1 .. total : s[j].fp.accepted => s[j].fp.at <= s[i].fp.at
  /\ latest = <<s[i].fp>>

SummaryInv(sm, s, issued) ==
  sm # None /\ sm.status = "READY_FOR_RESEARCH_HANDOFF" =>
    /\ sm.total \in Nat /\ sm.total <= Len(s)
    /\ \E r \in issued : r.fingerprint = sm.gate /\ r.decision = "GO"
    /\ \A i \in 1 .. sm.total : s[i].fp.prev = Expected(s, i)
    /\ \E i \in 1 .. sm.total : Approval(s, sm.total, sm.latest, i)

IInv ==
  /\ TypeOK
  /\ RecordsAre(records)
  /\ ReportsInv(reports)
  /\ SealedChain(records) => SealedHonest(records, reports)
  /\ SummaryInv(summary, records, reports)
  /\ HandoffIsApproved
  /\ package # None => package.report \in reports /\ package.report.decision = "GO"

-----------------------------------------------------------------------------
\* A chain verifies exactly when every record is intact and linked and no
\* fingerprint occurs twice.
LEMMA VerifiedChain ==
  ASSUME NEW s, RecordsAre(s), VerifyChain(s) = {}
  PROVE  /\ \A i \in 1 .. Len(s) : s[i].fp = Content(s[i])
         /\ SealedChain(s)
<1>1. NoRepeatedFingerprint(s)
  BY DEF VerifyChain, When
<1>2. /\ ~ \E i \in 1 .. Len(s) : ~Intact(s[i])
      /\ ~(Len(s) > 0 /\ s[1].prev # NoLink)
  BY DEF VerifyChain, When
<1>3. ~ \E i \in 2 .. Len(s) : s[i].prev # Expected(s, i)
  BY DEF VerifyChain, When
<1>4. Len(s) \in Nat
  BY DEF RecordsAre
<1>5. ASSUME NEW i \in 1 .. Len(s) PROVE s[i].fp.prev = Expected(s, i)
  <2>1. s[i].prev = s[i].fp.prev
    BY DEF RecordsAre, Shaped
  <2>2. CASE i = 1
    BY <1>2, <1>4, <2>1, <2>2 DEF Expected
  <2>3. CASE i # 1
    BY <1>3, <1>4, <2>1, <2>3
  <2> QED BY <2>2, <2>3
<1> QED BY <1>1, <1>2, <1>5 DEF SealedChain, Intact

\* A link is not the absence of one.
LEMMA LinkIsSome == \A f : <<f>> # NoLink
<1> TAKE f
<1>1. Len(<<f>>) = 1 /\ Len(NoLink) = 0
  BY DEF NoLink
<1> QED BY <1>1

\* What build_human_review_record returns.
IsReview(rec, report, input, existing, previous, at, clock) ==
  /\ Shaped(rec)
  /\ rec.fp.accepted <=> ReviewReasons(report, input, existing, at, clock) = {}
  /\ rec.fp.accepted =>
       /\ report # None /\ input # None
       /\ rec.fp.source = report.fingerprint
       /\ rec.fp.decision = report.decision
       /\ rec.fp.who = input.who
       /\ rec.fp.verdict = input.verdict
       /\ rec.fp.note = input.note
       /\ rec.fp.prev = IF previous # None THEN <<previous.fp>>
                        ELSE IF Len(existing) > 0
                             THEN <<existing[Len(existing)].fp>> ELSE NoLink

LEMMA ReviewRecordIs ==
  ASSUME NEW report, NEW input, NEW existing, NEW previous, NEW at, NEW clock,
         input # None => input.verdict \in Verdicts,
         NEW rec, rec = ReviewRecord(report, input, existing, previous, at, clock)
  PROVE  IsReview(rec, report, input, existing, previous, at, clock)
<1> DEFINE acc == ReviewReasons(report, input, existing, at, clock) = {}
<1>1. acc => report # None /\ input # None
  BY DEF ReviewReasons, InputReasons, When
<1>2. Shaped(rec)
  BY DEF ReviewRecord, Seal, Shaped, Verdicts
<1>3. rec.fp.accepted <=> acc
  BY DEF ReviewRecord, Seal
<1> QED BY <1>1, <1>2, <1>3 DEF IsReview, ReviewRecord, Seal

\* An accepted review was written against a chain that verifies and does not
\* hold it already, and approves no NO_GO.
LEMMA AcceptedReview ==
  ASSUME NEW report, NEW input, NEW existing, NEW at, NEW clock,
         ReviewReasons(report, input, existing, at, clock) = {}
  PROVE  /\ VerifyChain(existing) = {}
         /\ \A i \in 1 .. Len(existing) : ~SameReview(existing[i], report.fingerprint, input)
         /\ ~(report.decision = "NO_GO" /\ input.verdict = "APPROVE_FOR_RESEARCH")
<1>1. VerifyChain(existing) = {}
  BY DEF ReviewReasons
<1>2. \A i \in 1 .. Len(existing) : ~SameReview(existing[i], report.fingerprint, input)
  BY DEF ReviewReasons
<1>3. PolicyReasons(report.decision, input) = {}
  BY <1>2 DEF ReviewReasons
<1> QED BY <1>1, <1>2, <1>3 DEF PolicyReasons, When

\* A gate report: its fingerprint holds the decision, and GO rests on evidence.
LEMMA GateReportIs ==
  ASSUME NEW risk, NEW universe, NEW contract, NEW policy, NEW at,
         NEW r, r = GateReport(risk, universe, contract, policy, at, Now)
  PROVE  ReportsInv({r})
<1> DEFINE blocking == TimestampReasons(at, Now) \cup RiskReasons(risk, at)
                       \cup UniverseReasons(universe, at)
                       \cup ContractBlocking(contract, policy)
                       \cup Contradictions(risk, universe)
           review   == ContractReview(contract, policy)
                       \cup ReviewConditions(risk, universe, contract)
           decision == Decide(blocking, review)
<1>1. /\ r.decision = decision /\ r.fingerprint.decision = decision
      /\ r.risk = risk /\ r.universe = universe /\ r.at = at
  BY DEF GateReport
<1>2. decision \in {"GO", "NEEDS_REVIEW", "NO_GO"}
  BY DEF Decide
<1>3. ASSUME decision = "GO" PROVE RestsOnEvidence(r)
  <2>1. blocking = {} /\ review = {}
    BY <1>3 DEF Decide
  <2>2. risk # None /\ risk.accepted /\ risk.open /\ at - risk.at <= MaxRiskAge
    BY <2>1 DEF RiskReasons, When, IsFresh
  <2>3. universe # None /\ universe.safe /\ at - universe.at <= MaxUniverseAge
    BY <2>1 DEF UniverseReasons, When, IsFresh
  <2>4. ~(at - Now > FutureSkew)
    BY <2>1 DEF TimestampReasons, When
  <2>5. risk.pairs \cap universe.blocked = {}
    BY <2>1, <2>2, <2>3 DEF Contradictions, When
  <2>6. universe.watchlist = {}
    BY <2>1, <2>3 DEF ReviewConditions, When
  <2> QED BY <1>1, <2>2, <2>3, <2>4, <2>5, <2>6 DEF RestsOnEvidence
<1> QED BY <1>1, <1>2, <1>3 DEF ReportsInv

-----------------------------------------------------------------------------
\* Appending a record of any shape to records keeps them records.
LEMMA AppendRecords ==
  ASSUME NEW s, RecordsAre(s), NEW rec, Shaped(rec)
  PROVE  /\ RecordsAre(Append(s, rec))
         /\ Len(Append(s, rec)) = Len(s) + 1
         /\ Len(s) \in Nat
         /\ \A i \in 1 .. Len(s) : Append(s, rec)[i] = s[i]
         /\ Append(s, rec)[Len(s) + 1] = rec
<1> DEFINE t == Append(s, rec)
           S == {s[i] : i \in 1 .. Len(s)}
<1>1. s \in Seq(S) /\ Len(s) \in Nat
  BY DEF RecordsAre
<1>2. /\ Len(t) = Len(s) + 1
      /\ \A i \in 1 .. Len(s) : t[i] = s[i]
      /\ t[Len(s) + 1] = rec
      /\ t \in Seq(S \cup {rec})
  BY <1>1
<1>3. S \cup {rec} = {t[i] : i \in 1 .. Len(t)}
  BY <1>1, <1>2
<1>4. \A i \in 1 .. Len(t) : Shaped(t[i])
  BY <1>1, <1>2 DEF RecordsAre
<1> QED BY <1>1, <1>2, <1>3, <1>4 DEF RecordsAre

LEMMA FunctionIsSequence ==
  ASSUME NEW n \in Nat, NEW T, NEW p \in [1 .. n -> T]
  PROVE  p \in Seq(T)
BY SeqDef

\* A prefix of records is records.
LEMMA PrefixRecords ==
  ASSUME NEW s, RecordsAre(s), NEW n \in 0 .. Len(s)
  PROVE  /\ RecordsAre(SubSeq(s, 1, n))
         /\ Len(SubSeq(s, 1, n)) = n
         /\ \A i \in 1 .. n : SubSeq(s, 1, n)[i] = s[i]
<1> DEFINE p == SubSeq(s, 1, n)
           S == {s[i] : i \in 1 .. Len(s)}
<1>1. s \in Seq(S) /\ Len(s) \in Nat /\ \A i \in 1 .. Len(s) : Shaped(s[i])
  BY DEF RecordsAre
<1>2. /\ Len(p) = n
      /\ \A i \in 1 .. n : p[i] = s[i]
  BY <1>1
<1>3. p = [i \in 1 .. n |-> s[i]]
  BY <1>1
<1> DEFINE T == {p[i] : i \in 1 .. n}
<1>4. p \in [1 .. n -> T]
  BY <1>1, <1>3
<1>5. p \in Seq(T)
  <2> HIDE DEF p, T
  <2>1. n \in Nat
    BY <1>1
  <2> QED BY <1>4, <2>1, FunctionIsSequence
<1> QED BY <1>1, <1>2, <1>5 DEF RecordsAre

(***************************************************************************)
(* The heart of it: when the records with the new one are a sealed chain,   *)
(* an accepted new one was written against all of them, so the check for    *)
(* duplicates saw every earlier review.                                     *)
(***************************************************************************)
LEMMA AppendKeepsHonest ==
  ASSUME NEW s, RecordsAre(s), NEW issued,
         SealedChain(s) => SealedHonest(s, issued),
         NEW report \in {None} \cup issued, ReportsInv(issued),
         NEW input, input # None => input.verdict \in Verdicts,
         NEW n \in 0 .. Len(s), NEW at, NEW clock,
         NEW previous \in {None} \cup {SubSeq(s, 1, n)[i] : i \in 1 .. n},
         NEW rec,
         rec = ReviewRecord(report, input, SubSeq(s, 1, n), previous, at, clock),
         SealedChain(Append(s, rec))
  PROVE  SealedHonest(Append(s, rec), issued)
<1> DEFINE t == Append(s, rec)
           e == SubSeq(s, 1, n)
           k == Len(s) + 1
<1>1. IsReview(rec, report, input, e, previous, at, clock)
  BY ReviewRecordIs
<1> USE DEF IsReview
<1>2. /\ RecordsAre(t) /\ Len(t) = k /\ Len(s) \in Nat
      /\ \A i \in 1 .. Len(s) : t[i] = s[i]
      /\ t[k] = rec
  BY <1>1, AppendRecords
<1>3. /\ RecordsAre(e) /\ Len(e) = n
      /\ \A i \in 1 .. n : e[i] = s[i]
  BY PrefixRecords
<1>4. SealedHonest(s, issued)
  <2>1. NoRepeatedFingerprint(s)
    BY <1>2 DEF SealedChain, NoRepeatedFingerprint
  <2>2. ASSUME NEW i \in 1 .. Len(s) PROVE s[i].fp.prev = Expected(s, i)
    <3>1. t[i].fp.prev = Expected(t, i) /\ t[i] = s[i]
      BY <1>2 DEF SealedChain
    <3>2. i # 1 => i - 1 \in 1 .. Len(s)
      BY <1>2
    <3>3. i # 1 => t[i - 1] = s[i - 1]
      BY <1>2, <3>2
    <3> QED BY <3>1, <3>3 DEF Expected
  <2> QED BY <2>1, <2>2 DEF SealedChain
<1>5. ASSUME rec.fp.accepted
      PROVE  /\ \E r \in issued : rec.fp.source = r.fingerprint /\ rec.fp.decision = r.decision
             /\ ~(rec.fp.decision = "NO_GO" /\ rec.fp.verdict = "APPROVE_FOR_RESEARCH")
             /\ \A j \in 1 .. Len(s) : ~SameReview(s[j].fp, rec.fp.source, rec.fp)
  <2>1. /\ VerifyChain(e) = {}
        /\ \A i \in 1 .. Len(e) : ~SameReview(e[i], report.fingerprint, input)
        /\ ~(report.decision = "NO_GO" /\ input.verdict = "APPROVE_FOR_RESEARCH")
    <3> HIDE DEF e
    <3>1. ReviewReasons(report, input, e, at, clock) = {}
      BY <1>1, <1>5
    <3> QED BY <3>1, AcceptedReview
  <2>2. rec.fp.prev = Expected(t, k)
    BY <1>2 DEF SealedChain
  <2>3. Len(s) > 0 => rec.fp.prev = <<s[Len(s)].fp>>
    BY <1>2, <2>2 DEF Expected
  <2>4. Len(s) > 0 => n = Len(s)
    <3> SUFFICES ASSUME Len(s) > 0 PROVE n = Len(s)
      OBVIOUS
    <3>1. rec.fp.prev # NoLink
      BY <2>3, LinkIsSome
    <3>2. \E m \in 1 .. n : rec.fp.prev = <<s[m].fp>>
      <4>1. CASE previous # None
        BY <1>1, <1>3, <1>5, <4>1
      <4>2. CASE previous = None
        <5>1. Len(e) > 0
          BY <1>1, <1>5, <3>1, <4>2
        <5>2. rec.fp.prev = <<e[n].fp>>
          BY <1>1, <1>3, <1>5, <4>2, <5>1
        <5>3. n \in 1 .. n
          <6> HIDE DEF t, e, k
          <6> QED BY <1>3, <5>1
        <5>4. e[n].fp = s[n].fp
          BY <1>3, <5>3
        <5> HIDE DEF t, e, k
        <5> QED BY <5>2, <5>3, <5>4
      <4> QED BY <4>1, <4>2
    <3>3. PICK m \in 1 .. n : rec.fp.prev = <<s[m].fp>>
      BY <3>2
    <3>4. s[m].fp = s[Len(s)].fp
      BY <2>3, <3>3
    <3>5. m = Len(s)
      BY <1>2, <3>4 DEF SealedChain, NoRepeatedFingerprint
    <3> QED BY <1>2, <3>5
  <2>5. ASSUME NEW j \in 1 .. Len(s)
        PROVE  ~SameReview(s[j].fp, rec.fp.source, rec.fp)
    <3>1. n = Len(s) /\ j \in 1 .. Len(e) /\ e[j] = s[j]
      BY <1>2, <1>3, <2>4
    <3>2. e[j].fp = Content(e[j])
      BY <1>3, <2>1, <3>1, VerifiedChain
    <3>3. ~SameReview(e[j], report.fingerprint, input)
      BY <2>1, <3>1
    <3> QED BY <1>1, <1>5, <3>1, <3>2, <3>3 DEF SameReview, Content
  <2>6. report \in issued
    BY <1>1, <1>5
  <2> QED BY <1>1, <1>5, <2>1, <2>5, <2>6
<1> SUFFICES ASSUME NEW i \in 1 .. Len(t), t[i].fp.accepted
             PROVE  /\ \E r \in issued : t[i].fp.source = r.fingerprint /\ t[i].fp.decision = r.decision
                    /\ ~(t[i].fp.decision = "NO_GO" /\ t[i].fp.verdict = "APPROVE_FOR_RESEARCH")
                    /\ \A j \in 1 .. i - 1 : ~SameReview(t[j].fp, t[i].fp.source, t[i].fp)
  BY DEF SealedHonest
<1>6. CASE i = k
  <2>1. t[i] = rec /\ \A j \in 1 .. i - 1 : j \in 1 .. Len(s) /\ t[j] = s[j]
    BY <1>2, <1>6
  <2> QED BY <1>5, <2>1
<1>7. CASE i # k
  <2>1. i \in 1 .. Len(s) /\ t[i] = s[i]
        /\ \A j \in 1 .. i - 1 : j \in 1 .. Len(s) /\ t[j] = s[j]
    BY <1>2, <1>7
  <2> QED BY <1>4, <2>1 DEF SealedHonest
<1> QED BY <1>6, <1>7

-----------------------------------------------------------------------------
LEMMA InitInv == Init => IInv
<1> SUFFICES ASSUME Init PROVE IInv
  OBVIOUS
<1>1. Cardinality(reports) = 0
  BY FS_EmptySet DEF Init
<1>2. TypeOK
  BY <1>1, BoundsAssumption DEF Init, TypeOK
<1>3. RecordsAre(records)
  BY EmptySeq DEF Init, RecordsAre
<1>4. ReportsInv(reports)
  BY DEF Init, ReportsInv
<1>5. SealedHonest(records, reports)
  BY DEF Init, SealedHonest
<1> QED BY <1>2, <1>3, <1>4, <1>5 DEF Init, IInv, SummaryInv, HandoffIsApproved

\* What a summary is of stays true when more reports are issued.
LEMMA MoreReports ==
  ASSUME NEW s, NEW sm, NEW issued, NEW more, issued \subseteq more
  PROVE  /\ SealedHonest(s, issued) => SealedHonest(s, more)
         /\ SummaryInv(sm, s, issued) => SummaryInv(sm, s, more)
<1>1. SealedHonest(s, issued) => SealedHonest(s, more)
  BY DEF SealedHonest
<1>2. SummaryInv(sm, s, issued) => SummaryInv(sm, s, more)
  BY DEF SummaryInv
<1> QED BY <1>1, <1>2

\* A summary depends on what was sealed in the records it counted.
LEMMA SameSeals ==
  ASSUME NEW s, NEW t, Len(s) \in Nat, Len(t) \in Nat, Len(s) <= Len(t),
         \A i \in 1 .. Len(s) : t[i].fp = s[i].fp,
         NEW sm, NEW issued, SummaryInv(sm, s, issued)
  PROVE  SummaryInv(sm, t, issued)
<1> SUFFICES ASSUME sm # None, sm.status = "READY_FOR_RESEARCH_HANDOFF"
             PROVE  SummaryInv(sm, t, issued)
  BY DEF SummaryInv
<1>1. /\ sm.total \in Nat /\ sm.total <= Len(s)
      /\ \E r \in issued : r.fingerprint = sm.gate /\ r.decision = "GO"
      /\ \A i \in 1 .. sm.total : s[i].fp.prev = Expected(s, i)
  BY DEF SummaryInv
<1>2. \A i \in 1 .. sm.total : i \in 1 .. Len(s) /\ t[i].fp = s[i].fp
  BY <1>1
<1>3. ASSUME NEW i \in 1 .. sm.total PROVE t[i].fp.prev = Expected(t, i)
  <2>1. i # 1 => i - 1 \in 1 .. sm.total
    BY <1>1
  <2>2. i # 1 => t[i - 1].fp = s[i - 1].fp
    BY <1>2, <2>1
  <2> QED BY <1>1, <1>2, <2>2 DEF Expected
<1>4. PICK i \in 1 .. sm.total : Approval(s, sm.total, sm.latest, i)
  BY DEF SummaryInv
<1>5. Approval(t, sm.total, sm.latest, i)
  BY <1>2, <1>4 DEF Approval
<1> QED BY <1>1, <1>3, <1>5 DEF SummaryInv

LEMMA EvaluateStep ==
  ASSUME IInv, NEW e \in Evidence, Evaluate(e)
  PROVE  IInv'
<1> DEFINE at == Now + e.ahead
           r == GateReport(Dated(e.risk, at - e.riskAge),
                           Dated(e.universe, at - e.universeAge),
                           e.contract, e.policy, at, Now)
<1>1. /\ package = None /\ reports' = reports \cup {r}
      /\ Cardinality(reports') <= MaxReports
      /\ UNCHANGED <<records, damage, summary, package>>
  BY DEF Evaluate, Open
<1>2. ReportsInv({r})
  BY GateReportIs
<1> HIDE DEF r
<1>3. ReportsInv(reports')
  BY <1>1, <1>2 DEF IInv, ReportsInv
<1>4. TypeOK'
  BY <1>1, <1>3 DEF IInv, TypeOK, ReportsInv
<1>5. RecordsAre(records')
  BY <1>1 DEF IInv
<1>6. SealedChain(records') => SealedHonest(records', reports')
  BY <1>1, MoreReports DEF IInv
<1>7. SummaryInv(summary', records', reports')
  BY <1>1, MoreReports DEF IInv
<1>8. package' = None
  BY <1>1
<1> QED BY <1>3, <1>4, <1>5, <1>6, <1>7, <1>8 DEF IInv, HandoffIsApproved

LEMMA ReviewStep ==
  ASSUME IInv, NEW report \in AnyReport, NEW input \in Inputs,
         NEW n \in 0 .. Len(records), NEW at, Review(report, input, n, at)
  PROVE  IInv'
<1> DEFINE e == SubSeq(records, 1, n)
<1>1. PICK previous \in {None} \cup {e[i] : i \in 1 .. n} :
        records' = Append(records, ReviewRecord(report, input, e, previous, at, Now))
  BY DEF Review
<1>2. /\ package = None /\ Len(records) < MaxRecords
      /\ UNCHANGED <<reports, damage, summary, package>>
  BY DEF Review, Open
<1> DEFINE rec == ReviewRecord(report, input, e, previous, at, Now)
<1>3. input # None => input.verdict \in Verdicts
  BY InputsAssumption
<1>4. Shaped(rec)
  <2>1. IsReview(rec, report, input, e, previous, at, Now)
    BY <1>3, ReviewRecordIs
  <2> QED BY <2>1 DEF IsReview
<1>5. RecordsAre(records) /\ Len(records) \in Nat
  BY DEF IInv, RecordsAre
<1>6. /\ RecordsAre(records')
      /\ Len(records') = Len(records) + 1
      /\ \A i \in 1 .. Len(records) : records'[i] = records[i]
  <2> HIDE DEF rec
  <2>1. records' = Append(records, rec)
    BY <1>1 DEF rec
  <2> QED BY <1>4, <1>5, <2>1, AppendRecords
<1>7. SealedChain(records') => SealedHonest(records', reports')
  <2> SUFFICES ASSUME SealedChain(records') PROVE SealedHonest(records', reports)
    BY <1>2
  <2>1. SealedChain(Append(records, rec))
    BY <1>1
  <2>2. report \in {None} \cup reports
    BY DEF AnyReport
  <2>3. ReportsInv(reports) /\ (SealedChain(records) => SealedHonest(records, reports))
    BY DEF IInv
  <2>4. SealedHonest(Append(records, rec), reports)
    BY <1>3, <1>5, <2>1, <2>2, <2>3, AppendKeepsHonest
  <2> QED BY <1>1, <2>4
<1>8. SummaryInv(summary', records', reports')
  <2>1. SummaryInv(summary, records, reports)
    BY DEF IInv
  <2>2. /\ Len(records') \in Nat /\ Len(records) <= Len(records')
        /\ \A i \in 1 .. Len(records) : records'[i].fp = records[i].fp
    BY <1>5, <1>6
  <2>3. SummaryInv(summary, records', reports)
    BY <1>5, <2>1, <2>2, SameSeals
  <2> QED BY <1>2, <2>3
<1>9. TypeOK'
  BY <1>2, <1>5, <1>6, BoundsAssumption DEF IInv, TypeOK
<1> QED BY <1>2, <1>6, <1>7, <1>8, <1>9 DEF IInv, HandoffIsApproved

\* Damage changes a record's fields, never what was sealed in it.
LEMMA DamagedShape ==
  ASSUME NEW q, Shaped(q), NEW verdict \in Verdicts, NEW accepted,
         NEW r, r = Damaged(q, verdict, accepted)
  PROVE  Shaped(r) /\ r.fp = q.fp
<1>1. q = [source |-> q.source, decision |-> q.decision, who |-> q.who,
           verdict |-> q.verdict, note |-> q.note, at |-> q.at, prev |-> q.prev,
           accepted |-> q.accepted, fp |-> q.fp]
  BY DEF Shaped
<1>2. r = [source |-> q.source, decision |-> q.decision, who |-> q.who,
           verdict |-> verdict, note |-> q.note, at |-> q.at, prev |-> q.prev,
           accepted |-> accepted, fp |-> q.fp]
  BY <1>1 DEF Damaged
<1> QED BY <1>2 DEF Shaped

LEMMA DamageStep ==
  ASSUME IInv, NEW k \in 1 .. Len(records), Damage(k)
  PROVE  IInv'
<1>1. PICK verdict \in DamagedTo, accepted \in BOOLEAN :
        records' = [records EXCEPT ![k] = Damaged(records[k], verdict, accepted)]
  BY DEF Damage
<1>2. /\ package = None /\ damage < MaxDamage /\ damage' = damage + 1
      /\ UNCHANGED <<reports, summary, package>>
  BY DEF Damage, Open
<1>3. RecordsAre(records) /\ Len(records) \in Nat
  BY DEF IInv, RecordsAre
<1> DEFINE r == Damaged(records[k], verdict, accepted)
           T == {records[i] : i \in 1 .. Len(records)} \cup {r}
<1>4. Shaped(r) /\ r.fp = records[k].fp
  <2>1. Shaped(records[k])
    BY <1>3 DEF RecordsAre
  <2>2. verdict \in Verdicts
    BY DamageAssumption
  <2>3. r = Damaged(records[k], verdict, accepted)
    OBVIOUS
  <2> HIDE DEF r
  <2> QED BY <2>1, <2>2, <2>3, DamagedShape
<1>5. records \in Seq(T)
  <2>1. records \in Seq({records[i] : i \in 1 .. Len(records)})
    BY <1>3 DEF RecordsAre
  <2> QED BY <2>1, SeqMonotonic
<1>6. /\ records' \in Seq(T)
      /\ Len(records') = Len(records)
      /\ \A i \in 1 .. Len(records) :
           records'[i] = IF i = k THEN r ELSE records[i]
  <2> DEFINE b == r
  <2>1. b \in T /\ records' = [records EXCEPT ![k] = b]
    BY <1>1
  <2> HIDE DEF b, T
  <2>2. records' \in Seq(T)
    BY <1>5, <2>1
  <2>3. /\ Len(records') = Len(records)
        /\ \A i \in 1 .. Len(records) :
             records'[i] = IF i = k THEN b ELSE records[i]
    BY <1>5, <2>1
  <2> QED BY <2>2, <2>3 DEF b
<1> HIDE DEF r, T
<1>7. \A i \in 1 .. Len(records) : Shaped(records'[i]) /\ records'[i].fp = records[i].fp
  BY <1>3, <1>4, <1>6 DEF RecordsAre
<1>8. RecordsAre(records')
  <2> DEFINE Q == {records'[i] : i \in 1 .. Len(records')}
  <2>1. records' \in [1 .. Len(records') -> Q]
    BY <1>6
  <2>2. records' \in Seq(Q)
    <3> HIDE DEF Q
    <3> QED BY <1>3, <1>6, <2>1, FunctionIsSequence
  <2> QED BY <1>6, <1>7, <2>2 DEF RecordsAre
<1>9. SealedChain(records') => SealedHonest(records', reports')
  <2> SUFFICES ASSUME SealedChain(records') PROVE SealedHonest(records', reports)
    BY <1>2
  <2>1. NoRepeatedFingerprint(records)
    BY <1>6, <1>7 DEF SealedChain, NoRepeatedFingerprint
  <2>2. ASSUME NEW i \in 1 .. Len(records) PROVE records[i].fp.prev = Expected(records, i)
    <3>1. i # 1 => i - 1 \in 1 .. Len(records)
      BY <1>3
    <3>2. records'[i].fp.prev = Expected(records', i)
      BY <1>6 DEF SealedChain
    <3> QED BY <1>7, <3>1, <3>2 DEF Expected
  <2>3. SealedHonest(records, reports)
    BY <2>1, <2>2 DEF IInv, SealedChain
  <2> SUFFICES ASSUME NEW i \in 1 .. Len(records), records'[i].fp.accepted
               PROVE  /\ \E q \in reports : /\ records'[i].fp.source = q.fingerprint
                                            /\ records'[i].fp.decision = q.decision
                      /\ ~(/\ records'[i].fp.decision = "NO_GO"
                           /\ records'[i].fp.verdict = "APPROVE_FOR_RESEARCH")
                      /\ \A j \in 1 .. i - 1 :
                           ~SameReview(records'[j].fp, records'[i].fp.source, records'[i].fp)
    BY <1>6 DEF SealedHonest
  <2>4. \A j \in 1 .. i - 1 : j \in 1 .. Len(records)
    BY <1>3
  <2> QED BY <1>7, <2>3, <2>4 DEF SealedHonest
<1>10. SummaryInv(summary', records', reports')
  <2>1. SummaryInv(summary, records, reports)
    BY DEF IInv
  <2>2. Len(records') \in Nat /\ Len(records) <= Len(records')
    BY <1>3, <1>6
  <2>3. SummaryInv(summary, records', reports)
    BY <1>3, <1>7, <2>1, <2>2, SameSeals
  <2> QED BY <1>2, <2>3
<1>11. TypeOK'
  BY <1>2, <1>6, BoundsAssumption DEF IInv, TypeOK
<1> QED BY <1>2, <1>8, <1>9, <1>10, <1>11 DEF IInv, HandoffIsApproved

LEMMA SummariseStep ==
  ASSUME IInv, NEW report \in AnyReport, Summarise(report)
  PROVE  IInv'
<1>1. PICK latest \in Latest(records) :
        summary' = GovernanceSummary(report, records, latest)
  BY DEF Summarise
<1>2. package = None /\ UNCHANGED <<reports, records, damage, package>>
  BY DEF Summarise, Open
<1> DEFINE sm == GovernanceSummary(report, records, latest)
           blocking == SummaryGateBlocking(report) \cup SummaryChainBlocking(records)
<1>3. /\ sm.status = Status(blocking, SummaryReview(report, latest))
      /\ sm.total = Len(records)
      /\ report # None => sm.gate = report.fingerprint
      /\ latest # None => sm.latest = <<latest.fp>>
  BY DEF GovernanceSummary
<1>4. ASSUME sm.status = "READY_FOR_RESEARCH_HANDOFF"
      PROVE  SummaryInv(sm, records, reports)
  <2>1. blocking = {} /\ SummaryReview(report, latest) = {}
    BY <1>3, <1>4 DEF Status
  <2>2. report # None /\ report.decision # "NO_GO"
    BY <2>1 DEF SummaryGateBlocking, When
  <2>3. /\ report.decision # "NEEDS_REVIEW" /\ latest # None
        /\ latest.verdict # "REJECT" /\ latest.verdict # "REQUEST_CHANGES"
    BY <2>1, <2>2 DEF SummaryReview, When
  <2>4. report \in reports /\ report.decision = "GO"
    BY <2>2, <2>3 DEF AnyReport, IInv, ReportsInv
  <2>5. VerifyChain(records) = {}
    <3>1. /\ "DUPLICATE_REVIEW" \notin VerifyChain(records)
          /\ "BROKEN_REVIEW_CHAIN" \notin VerifyChain(records)
          /\ "PREVIOUS_RECORD_MISMATCH" \notin VerifyChain(records)
      BY <2>1 DEF SummaryChainBlocking, When
    <3>2. VerifyChain(records) \subseteq
            {"DUPLICATE_REVIEW", "BROKEN_REVIEW_CHAIN", "PREVIOUS_RECORD_MISMATCH"}
      BY DEF VerifyChain, When
    <3> QED BY <3>1, <3>2
  <2>6. RecordsAre(records) /\ Len(records) \in Nat
    BY DEF IInv, RecordsAre
  <2>7. /\ \A i \in 1 .. Len(records) : records[i].fp = Content(records[i])
        /\ SealedChain(records)
    BY <2>5, <2>6, VerifiedChain
  <2>8. latest \in AcceptedIn(records) /\ \A r \in AcceptedIn(records) : r.at <= latest.at
    BY <2>3 DEF Latest
  <2>9. PICK k \in 1 .. Len(records) : latest = records[k] /\ records[k].accepted
    BY <2>8 DEF AcceptedIn
  <2>10. records[k].fp.accepted /\ records[k].fp.verdict = "APPROVE_FOR_RESEARCH"
    <3>1. Shaped(records[k]) /\ records[k].fp = Content(records[k])
      BY <2>6, <2>7 DEF RecordsAre
    <3>2. records[k].verdict = "APPROVE_FOR_RESEARCH"
      BY <2>3, <2>9, <3>1 DEF Shaped, Verdicts
    <3> QED BY <2>9, <3>1, <3>2 DEF Content
  <2>11. ASSUME NEW j \in 1 .. Len(records), records[j].fp.accepted
         PROVE  records[j].fp.at <= records[k].fp.at
    <3>1. records[j].fp = Content(records[j]) /\ records[k].fp = Content(records[k])
      BY <2>7
    <3>2. records[j].accepted
      BY <2>11, <3>1 DEF Content
    <3>3. records[j].at <= records[k].at
      BY <2>8, <2>9, <3>2 DEF AcceptedIn
    <3> QED BY <3>1, <3>3 DEF Content
  <2>12. Approval(records, sm.total, sm.latest, k)
    BY <1>3, <2>3, <2>9, <2>10, <2>11 DEF Approval
  <2>13. \A i \in 1 .. sm.total : records[i].fp.prev = Expected(records, i)
    BY <1>3, <2>7 DEF SealedChain
  <2> HIDE DEF sm
  <2>14. /\ sm.total \in Nat /\ sm.total <= Len(records)
         /\ \E r \in reports : r.fingerprint = sm.gate /\ r.decision = "GO"
    BY <1>3, <2>2, <2>4, <2>6
  <2> QED BY <1>3, <2>12, <2>13, <2>14 DEF SummaryInv
<1>5. SummaryInv(summary', records', reports')
  <2>1. SummaryInv(sm, records, reports)
    BY <1>4 DEF SummaryInv
  <2> QED BY <1>1, <1>2, <2>1
<1>6. TypeOK'
  <2>1. sm.status \in {"READY_FOR_RESEARCH_HANDOFF", "REVIEW_REQUIRED", "BLOCKED"}
    BY <1>3 DEF Status
  <2> QED BY <1>1, <1>2, <2>1 DEF IInv, TypeOK
<1> QED BY <1>2, <1>5, <1>6 DEF IInv, HandoffIsApproved

LEMMA HandoffStep ==
  ASSUME IInv, NEW sm \in {None, summary}, NEW report \in AnyReport,
         NEW review \in {None} \cup {records[i] : i \in 1 .. Len(records)},
         NEW required \in BOOLEAN, NEW described \in BOOLEAN,
         Handoff(sm, report, review, required, described)
  PROVE  IInv'
<1> DEFINE built == HandoffPackage(sm, report, review, required, described)
<1>1. /\ built.allowed /\ package' = built
      /\ UNCHANGED <<reports, records, damage, summary>>
  BY DEF Handoff
<1>2. /\ built.summary = sm /\ built.report = report /\ built.review = review
      /\ built.required = required
  BY DEF HandoffPackage
<1>3. /\ ValidateAll(sm, report, review, required) = {}
      /\ (IF sm = None THEN "BLOCKED" ELSE sm.status) = "READY_FOR_RESEARCH_HANDOFF"
  BY <1>1 DEF HandoffPackage, HandoffAllowed
<1> HIDE DEF built
<1>4. sm # None /\ report # None /\ sm = summary /\ report \in reports
  BY <1>3 DEF ValidateAll, When, AnyReport
<1>5. ReviewSourceReasons(review, required) = {} /\ ProvenanceReasons(sm, report, review) = {}
  BY <1>3 DEF ValidateAll
<1>6. sm.gate = report.fingerprint
  BY <1>4, <1>5 DEF ProvenanceReasons, When
<1>7. /\ sm.total \in Nat /\ sm.total <= Len(records)
      /\ \E r \in reports : r.fingerprint = sm.gate /\ r.decision = "GO"
      /\ \A i \in 1 .. sm.total : records[i].fp.prev = Expected(records, i)
      /\ \E i \in 1 .. sm.total : Approval(records, sm.total, sm.latest, i)
  BY <1>3, <1>4 DEF IInv, SummaryInv
<1>8. report.decision = "GO"
  BY <1>4, <1>6, <1>7 DEF IInv, ReportsInv
<1>9. PICK i \in 1 .. sm.total : Approval(records, sm.total, sm.latest, i)
  BY <1>7
<1>10. RecordsAre(records) /\ Len(records) \in Nat
  BY DEF IInv, RecordsAre
<1>11. required => /\ review # None
                   /\ review.fp = records[i].fp
                   /\ records[i].fp.source = report.fingerprint
  <2> SUFFICES ASSUME required
               PROVE  /\ review # None
                      /\ review.fp = records[i].fp
                      /\ records[i].fp.source = report.fingerprint
    OBVIOUS
  <2>1. review # None
    BY <1>5 DEF ReviewSourceReasons, When
  <2>2. sm.latest = <<records[i].fp>> /\ sm.latest # NoLink
    BY <1>9, LinkIsSome DEF Approval
  <2>3. sm.latest = <<review.fp>> /\ review.source = report.fingerprint
    BY <1>4, <1>5, <2>1, <2>2 DEF ProvenanceReasons, When
  <2>4. review.fp = records[i].fp
    BY <2>2, <2>3
  <2>5. Shaped(review)
    BY <1>10, <2>1 DEF RecordsAre
  <2> QED BY <2>1, <2>3, <2>4, <2>5 DEF Shaped
<1>12. HandoffIsApproved'
  <2>1. \A j \in 1 .. sm.total : j \in 1 .. Len(records)
    BY <1>7, <1>10
  <2>2. \A j \in 1 .. sm.total :
          records[j].fp.prev = IF j = 1 THEN NoLink ELSE <<records[j - 1].fp>>
    BY <1>7 DEF Expected
  <2>3. \A j \in 1 .. sm.total : j # 1 => j - 1 \in 1 .. sm.total
    BY <1>7
  <2>4. /\ package'.report = report /\ package'.summary = sm
        /\ package'.review = review /\ package'.required = required
        /\ records' = records /\ reports' = reports
    BY <1>1, <1>2
  <2>5. Sealed' = [j \in 1 .. sm.total |-> records[j].fp]
    BY <2>4 DEF Sealed
  <2>6. \A j \in 1 .. sm.total :
          Sealed'[j].prev = IF j = 1 THEN NoLink ELSE <<Sealed'[j - 1]>>
    BY <2>2, <2>3, <2>5
  <2>7. /\ Sealed'[i].accepted
        /\ Sealed'[i].verdict = "APPROVE_FOR_RESEARCH"
        /\ \A j \in 1 .. sm.total : Sealed'[j].accepted => Sealed'[j].at <= Sealed'[i].at
        /\ required => /\ review # None
                       /\ review.fp = Sealed'[i]
                       /\ Sealed'[i].source = report.fingerprint
    BY <1>9, <1>11, <2>5 DEF Approval
  <2> HIDE DEF Sealed
  <2> QED BY <1>4, <1>6, <1>7, <1>8, <2>4, <2>6, <2>7 DEF HandoffIsApproved
<1>13. TypeOK'
  BY <1>1, <1>2, <1>4 DEF IInv, TypeOK
<1> QED BY <1>1, <1>2, <1>4, <1>8, <1>12, <1>13 DEF IInv

LEMMA NextInv == IInv /\ [Next]_vars => IInv'
<1> SUFFICES ASSUME IInv, [Next]_vars PROVE IInv'
  OBVIOUS
<1>1. ASSUME NEW e \in Evidence, Evaluate(e) PROVE IInv'
  BY <1>1, EvaluateStep
<1>2. ASSUME NEW report \in AnyReport, NEW input \in Inputs,
             NEW n \in 0 .. Len(records), NEW at \in 0 .. Now + 1,
             Review(report, input, n, at)
      PROVE  IInv'
  BY <1>2, ReviewStep
<1>3. ASSUME NEW k \in 1 .. Len(records), Damage(k) PROVE IInv'
  BY <1>3, DamageStep
<1>4. ASSUME NEW report \in AnyReport, Summarise(report) PROVE IInv'
  BY <1>4, SummariseStep
<1>5. ASSUME NEW sm \in {None, summary}, NEW report \in AnyReport,
             NEW review \in {None} \cup {records[i] : i \in 1 .. Len(records)},
             NEW required \in BOOLEAN, NEW described \in BOOLEAN,
             Handoff(sm, report, review, required, described)
      PROVE  IInv'
  BY <1>5, HandoffStep
<1>6. CASE UNCHANGED vars
  <2>1. UNCHANGED <<reports, records, damage, summary, package>>
    BY <1>6 DEF vars
  <2>2. TypeOK'
    BY <2>1 DEF IInv, TypeOK
  <2>3. Sealed' = Sealed
    BY <2>1 DEF Sealed
  <2> HIDE DEF Sealed
  <2>4. HandoffIsApproved'
    BY <2>1, <2>3 DEF IInv, HandoffIsApproved
  <2> QED BY <2>1, <2>2, <2>4 DEF IInv
<1> QED BY <1>1, <1>2, <1>3, <1>4, <1>5, <1>6 DEF Next

LEMMA Invariance == Spec => []IInv
<1> QED BY InitInv, NextInv, PTL DEF Spec

(***************************************************************************)
(* The caller's state is well typed.                                        *)
(***************************************************************************)
THEOREM GovernanceTyped == Spec => []TypeOK
<1>1. IInv => TypeOK
  BY DEF IInv
<1> QED BY <1>1, Invariance, PTL

(***************************************************************************)
(* Records that verify as one chain are honest, however they were written.  *)
(***************************************************************************)
THEOREM ChainHonest == Spec => []VerifiedChainIsHonest
<1>1. IInv => VerifiedChainIsHonest
  <2> SUFFICES ASSUME IInv, VerifyChain(records) = {},
                      NEW i \in 1 .. Len(records), records[i].accepted
               PROVE  /\ \E r \in reports : /\ records[i].source = r.fingerprint
                                            /\ records[i].decision = r.decision
                      /\ ~(/\ records[i].decision = "NO_GO"
                           /\ records[i].verdict = "APPROVE_FOR_RESEARCH")
                      /\ \A j \in 1 .. i - 1 :
                           ~SameReview(records[j], records[i].source, records[i])
    BY DEF VerifiedChainIsHonest
  <2>1. RecordsAre(records) /\ Len(records) \in Nat
    BY DEF IInv, RecordsAre
  <2>2. /\ \A j \in 1 .. Len(records) : records[j].fp = Content(records[j])
        /\ SealedChain(records)
    BY <2>1, VerifiedChain
  <2>3. SealedHonest(records, reports)
    BY <2>2 DEF IInv
  <2>4. records[i].fp.accepted
    <3>1. records[i].fp = Content(records[i])
      BY <2>2
    <3> QED BY <3>1 DEF Content
  <2>5. \A j \in 1 .. i - 1 : j \in 1 .. Len(records)
    BY <2>1
  <2>6. /\ \E r \in reports : /\ records[i].fp.source = r.fingerprint
                              /\ records[i].fp.decision = r.decision
        /\ ~(/\ records[i].fp.decision = "NO_GO"
             /\ records[i].fp.verdict = "APPROVE_FOR_RESEARCH")
        /\ \A j \in 1 .. i - 1 :
             ~SameReview(records[j].fp, records[i].fp.source, records[i].fp)
    BY <2>3, <2>4 DEF SealedHonest
  <2>7. ASSUME NEW j \in 1 .. Len(records)
        PROVE  /\ records[j].fp.source = records[j].source
               /\ records[j].fp.decision = records[j].decision
               /\ records[j].fp.who = records[j].who
               /\ records[j].fp.verdict = records[j].verdict
               /\ records[j].fp.note = records[j].note
    <3>1. records[j].fp = Content(records[j])
      BY <2>2
    <3> QED BY <3>1 DEF Content
  <2> QED BY <2>5, <2>6, <2>7 DEF SameReview
<1> QED BY <1>1, Invariance, PTL

(***************************************************************************)
(* Nothing is handed off that was not approved.                             *)
(***************************************************************************)
THEOREM HandoffApproved == Spec => []HandoffIsApproved
<1>1. IInv => HandoffIsApproved
  BY DEF IInv
<1> QED BY <1>1, Invariance, PTL

(***************************************************************************)
(* What is handed off rests on the evidence the gate saw.                   *)
(***************************************************************************)
THEOREM HandoffRests == Spec => []HandoffRestsOnEvidence
<1>1. IInv => HandoffRestsOnEvidence
  BY DEF IInv, ReportsInv, RestsOnEvidence, HandoffRestsOnEvidence
<1> QED BY <1>1, Invariance, PTL
=============================================================================
