------------------------- MODULE PairlistArtifacts -------------------------
(***************************************************************************)
(* The data of a pairlist publish: what the publish gate hands over and    *)
(* the text of the two files made from it.                                 *)
(*                                                                         *)
(* An output is known by its as-of date, its ranking (everything the audit *)
(* fingerprint, hence run_id, is computed from: pairs, ranks, scores) and  *)
(* its metadata (the v2 audit fields the fingerprint leaves out:           *)
(* source_metadata and per_pair_evidence).                                 *)
(***************************************************************************)
CONSTANTS
  Dates,      \* as-of dates
  Rankings,   \* distinct fingerprinted contents
  Metadata,   \* distinct values of the audit fields outside the fingerprint
  Absent      \* the file does not exist

Kinds == {"pairlist", "audit"}

Outputs == [date : Dates, ranking : Rankings, metadata : Metadata]

PairlistTexts == [date : Dates, ranking : Rankings]
AuditTexts == Outputs
KindTexts(k) == IF k = "pairlist" THEN PairlistTexts ELSE AuditTexts

ASSUME AbsentIsNoText == Absent \notin PairlistTexts \union AuditTexts

(* pairlist_payload_dict carries pairs, refresh_period and run_id; run_id  *)
(* is as_of_date, profile and a prefix of the audit fingerprint.           *)
PairlistText(o) == [date |-> o.date, ranking |-> o.ranking]

(* audit_record_to_dict writes every field of the audit record.            *)
AuditText(o) == o

Text(o, k) == IF k = "pairlist" THEN PairlistText(o) ELSE AuditText(o)

PairOf(o) == [k \in Kinds |-> Text(o, k)]

NoPair == [k \in Kinds |-> Absent]

(* A pair of files, each absent or holding a text of its own kind.         *)
KindContents(k) == KindTexts(k) \union {Absent}
Contents == KindContents("pairlist") \union KindContents("audit")
Pairs == {f \in [Kinds -> Contents] : \A k \in Kinds : f[k] \in KindContents(k)}

(* The two files of a pair come from one run (or neither exists).          *)
Matches(f) == f = NoPair \/ \E o \in Outputs : f = PairOf(o)
=============================================================================
