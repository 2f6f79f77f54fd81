--------------------------- MODULE ReviewRegistry ---------------------------
(***************************************************************************)
(* The human review registry (hunter/human_review_registry): a review of a  *)
(* gate report becomes a record that names the record before it by its      *)
(* fingerprint.  The package holds no state: the caller passes the records  *)
(* it knows and keeps the one it gets back.                                 *)
(*                                                                          *)
(* A fingerprint is a digest of a record's content; here it is that         *)
(* content, so two records have one fingerprint exactly when all that is    *)
(* digested is the same.                                                    *)
(***************************************************************************)
EXTENDS DecisionGate, Sequences, FiniteSets

CONSTANTS
  Inputs,       \* the review inputs: [who, verdict, note], or None
  ShortNotes    \* the notes shorter than config.min_review_note_length

Verdicts == {"APPROVE_FOR_RESEARCH", "REJECT", "REQUEST_CHANGES"}

\* What a record's fingerprint digests.
Content(r) ==
  [source |-> r.source, decision |-> r.decision, who |-> r.who,
   verdict |-> r.verdict, note |-> r.note, at |-> r.at, prev |-> r.prev,
   accepted |-> r.accepted]

Seal(c) ==
  [source |-> c.source, decision |-> c.decision, who |-> c.who,
   verdict |-> c.verdict, note |-> c.note, at |-> c.at, prev |-> c.prev,
   accepted |-> c.accepted, fp |-> c]

Intact(r) == r.fp = Content(r)

\* A fingerprint that may be missing: <<>> for None, <<fingerprint>> otherwise.
NoLink == << >>

NoRepeatedFingerprint(chain) ==
  \A i, j \in 1 .. Len(chain) : i # j => chain[i].fp # chain[j].fp

Expected(chain, i) == IF i = 1 THEN NoLink ELSE <<chain[i - 1].fp>>

\* Mutant: only the first record's link is looked at.
VerifyChainUnlinked(chain) ==
       When(~NoRepeatedFingerprint(chain), {"DUPLICATE_REVIEW"})
  \cup When(\/ \E i \in 1 .. Len(chain) : ~Intact(chain[i])
            \/ Len(chain) > 0 /\ chain[1].prev # NoLink, {"BROKEN_REVIEW_CHAIN"})

VerifyChain(chain) ==
       When(~NoRepeatedFingerprint(chain), {"DUPLICATE_REVIEW"})
  \cup When(\/ \E i \in 1 .. Len(chain) : ~Intact(chain[i])
            \/ Len(chain) > 0 /\ chain[1].prev # NoLink, {"BROKEN_REVIEW_CHAIN"})
  \cup When(\E i \in 2 .. Len(chain) : chain[i].prev # Expected(chain, i),
            {"PREVIOUS_RECORD_MISMATCH"})

SameReview(r, source, input) ==
  /\ r.source = source
  /\ r.who = input.who
  /\ r.verdict = input.verdict
  /\ r.note = input.note

InputReasons(input) ==
  IF input = None THEN {"MISSING_REVIEW_INPUT"}
  ELSE When(input.note \in ShortNotes, {"REVIEW_NOTE_TOO_SHORT"})

\* evaluate_review_policy: the codes that refuse a valid review.
PolicyReasons(decision, input) ==
       When(decision = "NO_GO" /\ input.verdict = "APPROVE_FOR_RESEARCH",
            {"NO_GO_APPROVAL_FORBIDDEN"})
  \cup When(decision = "NEEDS_REVIEW" /\ input.verdict # "REJECT"
              /\ input.note \in ShortNotes, {"REVIEW_NOTE_TOO_SHORT"})

(***************************************************************************)
(* build_human_review_record: validation, then the chain, then duplicates,  *)
(* then the policy; any code refuses the review, and a refused record is    *)
(* linked to nothing.                                                       *)
(***************************************************************************)
ReviewReasons(report, input, existing, at, clock) ==
  LET invalid == When(report = None, {"MISSING_DECISION_REPORT"})
                 \cup InputReasons(input)
                 \cup When(at > clock, {"INVALID_TIMESTAMP"})
                 \cup VerifyChain(existing)
  IN IF invalid # {} THEN invalid
     ELSE IF \E i \in 1 .. Len(existing) :
               SameReview(existing[i], report.fingerprint, input)
          THEN {"DUPLICATE_REVIEW"}
          ELSE PolicyReasons(report.decision, input)

ReviewRecord(report, input, existing, previous, at, clock) ==
  LET accepted == ReviewReasons(report, input, existing, at, clock) = {}
      given    == IF input = None
                  THEN [who |-> None, verdict |-> "REJECT", note |-> None]
                  ELSE input
      link     == IF previous # None THEN <<previous.fp>>
                  ELSE IF Len(existing) > 0 THEN <<existing[Len(existing)].fp>>
                  ELSE NoLink
  IN Seal([source   |-> IF report = None THEN None ELSE report.fingerprint,
           decision |-> IF report = None THEN "GO" ELSE report.decision,
           who      |-> given.who,
           verdict  |-> given.verdict,
           note     |-> given.note,
           at       |-> at,
           prev     |-> IF accepted THEN link ELSE NoLink,
           accepted |-> accepted])
=============================================================================
