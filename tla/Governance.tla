----------------------------- MODULE Governance -----------------------------
(***************************************************************************)
(* From a gate report to a handoff: the decision gate, the review           *)
(* registry, the governance summary (hunter/governance_summary) and the     *)
(* handoff package (hunter/governance_handoff) as one caller drives them.   *)
(*                                                                          *)
(* Each package is a pure function; what can go wrong lies between the      *)
(* calls: a review written against records read earlier, a record dated     *)
(* earlier than the ones before it, a stored record that changed, a summary *)
(* older than the last review, a handoff built from a report, a review and  *)
(* a summary that do not belong together.                                   *)
(***************************************************************************)
EXTENDS ReviewRegistry

CONSTANTS
  Evidence,      \* what the gate may be called with: [risk, universe,
                 \*   contract, policy, riskAge, universeAge, ahead]
  Now,           \* the clock, read only to refuse what is dated after it
  MaxReports, MaxRecords,
  DamagedTo,     \* the verdicts a changed record may come back with
  StaleReads,    \* may a review be written against an earlier state of the records?
  KeepRefused,   \* does the caller keep the records of refused reviews?
  MaxDamage      \* how many stored records may change

ASSUME InputsAssumption == \A input \in Inputs : input # None => input.verdict \in Verdicts
ASSUME DamageAssumption == DamagedTo \subseteq Verdicts
ASSUME BoundsAssumption == MaxReports \in Nat /\ MaxRecords \in Nat /\ MaxDamage \in Nat

VARIABLES
  reports,       \* gate reports issued so far
  records,       \* the review records the caller keeps
  damage,        \* how many stored records were changed
  summary,       \* the last governance summary
  package        \* the handoff package, once one is allowed

vars == <<reports, records, damage, summary, package>>

Init ==
  /\ reports = {}
  /\ records = <<>>
  /\ damage = 0
  /\ summary = None
  /\ package = None

\* Nothing reads a package: a behaviour is followed up to its first one.
Open == package = None

Dated(source, at) ==
  IF source = None THEN None
  ELSE [f \in DOMAIN source \cup {"at"} |-> IF f = "at" THEN at ELSE source[f]]

Evaluate(e) ==
  LET at == Now + e.ahead
  IN /\ Open
     /\ reports' = reports \cup
          {GateReport(Dated(e.risk, at - e.riskAge),
                      Dated(e.universe, at - e.universeAge),
                      e.contract, e.policy, at, Now)}
     /\ Cardinality(reports') <= MaxReports
     /\ UNCHANGED <<records, damage, summary, package>>

(***************************************************************************)
(* A review: written against the first n records, linked to the last of     *)
(* them or to the one of them the caller names, and kept if it was accepted *)
(* or the caller keeps refused ones too (one not kept leaves no trace).     *)
(***************************************************************************)
Review(report, input, n, at) ==
  LET existing == SubSeq(records, 1, n)
  IN /\ Open
     /\ Len(records) < MaxRecords
     /\ StaleReads \/ n = Len(records)
     /\ \E previous \in {None} \cup {existing[i] : i \in 1 .. n} :
          LET record == ReviewRecord(report, input, existing, previous, at, Now)
          IN /\ record.accepted \/ KeepRefused
             /\ records' = Append(records, record)
     /\ UNCHANGED <<reports, damage, summary, package>>

\* A stored record comes back with another verdict or another flag.
Damaged(r, verdict, accepted) == [r EXCEPT !.verdict = verdict, !.accepted = accepted]

Damage(i) ==
  /\ Open
  /\ damage < MaxDamage
  /\ \E verdict \in DamagedTo, accepted \in BOOLEAN :
       records' = [records EXCEPT ![i] = Damaged(records[i], verdict, accepted)]
  /\ damage' = damage + 1
  /\ UNCHANGED <<reports, summary, package>>

-----------------------------------------------------------------------------
(***************************************************************************)
(* build_governance_decision_summary                                        *)
(***************************************************************************)
AcceptedIn(chain) == {chain[i] : i \in {j \in 1 .. Len(chain) : chain[j].accepted}}

\* The latest accepted review: the greatest date, and among equal dates the
\* greatest digest, which is any of them.
Latest(chain) ==
  IF AcceptedIn(chain) = {} THEN {None}
  ELSE {r \in AcceptedIn(chain) : \A s \in AcceptedIn(chain) : s.at <= r.at}

SummaryGateBlocking(report) ==
       When(report = None, {"MISSING_GATE_REPORT"})
  \cup When(report # None /\ report.decision = "NO_GO", {"GATE_DECISION_NO_GO"})

SummaryChainBlocking(chain) ==
       When(\E i \in 1 .. Len(chain) : ~Intact(chain[i]), {"TAMPERED_REVIEW_RECORD"})
  \cup When("DUPLICATE_REVIEW" \in VerifyChain(chain), {"DUPLICATE_REVIEW_RECORD"})
  \cup When(VerifyChain(chain) \cap {"BROKEN_REVIEW_CHAIN", "PREVIOUS_RECORD_MISMATCH"}
              # {}, {"BROKEN_REVIEW_CHAIN"})

SummaryReview(report, latest) ==
       When(report # None /\ report.decision = "NEEDS_REVIEW", {"GATE_REVIEW_REQUIRED"})
  \cup When(latest = None, {"NO_ACCEPTED_REVIEW"})
  \cup When(latest # None /\ latest.verdict = "REJECT", {"LATEST_REVIEW_REJECTED"})
  \cup When(latest # None /\ latest.verdict = "REQUEST_CHANGES",
            {"LATEST_REVIEW_REQUESTS_CHANGES", "OPEN_CHANGE_REQUEST"})

\* Mutant: the status is not one of the three.
StatusUnknown(blocking, review) ==
  IF blocking = {} /\ review = {} THEN "READY" ELSE "BLOCKED"

Status(blocking, review) ==
  IF blocking # {} THEN "BLOCKED"
  ELSE IF review # {} THEN "REVIEW_REQUIRED" ELSE "READY_FOR_RESEARCH_HANDOFF"

GovernanceSummary(report, chain, latest) ==
  [status   |-> Status(SummaryGateBlocking(report) \cup SummaryChainBlocking(chain),
                       SummaryReview(report, latest)),
   decision |-> IF report = None THEN "GO" ELSE report.decision,
   gate     |-> IF report = None THEN None ELSE report.fingerprint,
   latest   |-> IF latest = None THEN NoLink ELSE <<latest.fp>>,
   total    |-> Len(chain)]

Summarise(report) ==
  /\ Open
  /\ \E latest \in Latest(records) :
       summary' = GovernanceSummary(report, records, latest)
  /\ UNCHANGED <<reports, records, damage, package>>

-----------------------------------------------------------------------------
(***************************************************************************)
(* build_research_governance_handoff_package                                *)
(***************************************************************************)
ReviewSourceReasons(review, required) ==
       When(review = None /\ required, {"MISSING_LATEST_ACCEPTED_REVIEW"})
  \cup When(review # None /\ ~review.accepted, {"INVALID_REVIEW_RECORD"})

\* Mutant: the review is not compared with the report it is about.
ProvenanceWithoutSource(s, report, review) ==
       When(s # None /\ report # None /\ s.gate # report.fingerprint,
            {"GATE_FINGERPRINT_MISMATCH"})
  \cup When(s # None /\ review # None /\ s.latest # NoLink /\ s.latest # <<review.fp>>,
            {"REVIEW_FINGERPRINT_MISMATCH"})

ProvenanceReasons(s, report, review) ==
       When(s # None /\ report # None /\ s.gate # report.fingerprint,
            {"GATE_FINGERPRINT_MISMATCH"})
  \cup When(s # None /\ review # None /\ s.latest # NoLink /\ s.latest # <<review.fp>>,
            {"REVIEW_FINGERPRINT_MISMATCH"})
  \cup When(report # None /\ review # None /\ review.source # report.fingerprint,
            {"GOVERNANCE_FINGERPRINT_MISMATCH"})

ValidateAll(s, report, review, required) ==
       When(s = None, {"MISSING_GOVERNANCE_SUMMARY"})
  \cup When(report = None, {"MISSING_GATE_REPORT"})
  \cup ReviewSourceReasons(review, required)
  \cup ProvenanceReasons(s, report, review)

HandoffReview(s, described) ==
       When(s # None /\ s.status = "REVIEW_REQUIRED", {"GOVERNANCE_REVIEW_REQUIRED"})
  \cup When(~described, {"MISSING_OPTIONAL_METADATA"})

HandoffAllowed(status, blocking, review) ==
  /\ status = "READY_FOR_RESEARCH_HANDOFF"
  /\ blocking = {}
  /\ review = {}

HandoffPackage(s, report, review, required, described) ==
  LET status   == IF s = None THEN "BLOCKED" ELSE s.status
      blocking == ValidateAll(s, report, review, required)
  IN [status   |-> status,
      allowed  |-> HandoffAllowed(status, blocking, HandoffReview(s, described)),
      required |-> required,
      summary  |-> s,
      report   |-> report,
      review   |-> review]

\* The package may be given a summary, a report and a review from different
\* moments; "described" is whether the caller passes metadata.  A package that
\* is not allowed hands nothing off: the one kept is the first allowed one.
Handoff(s, report, review, required, described) ==
  LET built == HandoffPackage(s, report, review, required, described)
  IN /\ Open
     /\ built.allowed
     /\ package' = built
     /\ UNCHANGED <<reports, records, damage, summary>>

-----------------------------------------------------------------------------
AnyReport == {None} \cup reports

Next ==
  \/ \E e \in Evidence : Evaluate(e)
  \/ \E report \in AnyReport, input \in Inputs,
        n \in 0 .. Len(records), at \in 0 .. Now + 1 : Review(report, input, n, at)
  \/ \E i \in 1 .. Len(records) : Damage(i)
  \/ \E report \in AnyReport : Summarise(report)
  \/ \E s \in {None, summary}, report \in AnyReport,
        review \in {None} \cup {records[i] : i \in 1 .. Len(records)} :
       \E required, described \in BOOLEAN :
         Handoff(s, report, review, required, described)

Spec == Init /\ [][Next]_vars

-----------------------------------------------------------------------------
(***************************************************************************)
(* Type correctness of the caller's state.                                  *)
(***************************************************************************)
TypeOK ==
  /\ Cardinality(reports) <= MaxReports
  /\ \A r \in reports : r.decision \in {"GO", "NEEDS_REVIEW", "NO_GO"}
  /\ Len(records) <= MaxRecords
  /\ damage \in 0 .. MaxDamage
  /\ summary # None => summary.status \in
       {"READY_FOR_RESEARCH_HANDOFF", "REVIEW_REQUIRED", "BLOCKED"}
  /\ package # None => package.summary # None

(***************************************************************************)
(* Whatever was written against whatever was read, records that verify as   *)
(* one chain tell the truth: no review is in them twice, no approval of a   *)
(* NO_GO is, and each accepted review is of a report that was issued, with  *)
(* the decision it records.                                                 *)
(***************************************************************************)
VerifiedChainIsHonest ==
  VerifyChain(records) = {} =>
    \A i \in 1 .. Len(records) : records[i].accepted =>
      /\ \E r \in reports : /\ records[i].source = r.fingerprint
                            /\ records[i].decision = r.decision
      /\ ~(records[i].decision = "NO_GO" /\ records[i].verdict = "APPROVE_FOR_RESEARCH")
      /\ \A j \in 1 .. i - 1 : ~SameReview(records[j], records[i].source, records[i])

(***************************************************************************)
(* A handoff that is allowed was approved: the gate said GO, the records    *)
(* the summary counted form a chain as they were sealed, and the review     *)
(* latest among them by date approves; where the configuration asks for     *)
(* the review, it is that review and it approves this very decision.        *)
(***************************************************************************)
Sealed == [i \in 1 .. package.summary.total |-> records[i].fp]

HandoffIsApproved ==
  package # None =>
    /\ package.report \in reports
    /\ package.report.decision = "GO"
    /\ package.summary.gate = package.report.fingerprint
    /\ package.summary.total <= Len(records)
    /\ \A i \in 1 .. package.summary.total :
         Sealed[i].prev = IF i = 1 THEN NoLink ELSE <<Sealed[i - 1]>>
    /\ \E i \in 1 .. package.summary.total :
         /\ Sealed[i].accepted
         /\ Sealed[i].verdict = "APPROVE_FOR_RESEARCH"
         /\ \A j \in 1 .. package.summary.total :
              Sealed[j].accepted => Sealed[j].at <= Sealed[i].at
         /\ package.required => /\ package.review # None
                                /\ package.review.fp = Sealed[i]
                                /\ Sealed[i].source = package.report.fingerprint

(***************************************************************************)
(* What is handed off rests on evidence that was open, fresh and of one     *)
(* mind when the gate looked, and the gate did not look from further in     *)
(* the future than the skew: no pair it allocates was blocked.              *)
(***************************************************************************)
HandoffRestsOnEvidence ==
  package # None =>
    LET report == package.report
    IN /\ report.risk # None /\ report.universe # None
       /\ report.risk.accepted /\ report.risk.open /\ report.universe.safe
       /\ report.at - report.risk.at <= MaxRiskAge
       /\ report.at - report.universe.at <= MaxUniverseAge
       /\ ~(report.at - Now > FutureSkew)
       /\ report.risk.pairs \cap report.universe.blocked = {}
       /\ report.universe.watchlist = {}
=============================================================================
