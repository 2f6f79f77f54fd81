----------------------------- MODULE AtomicStore -----------------------------
(***************************************************************************)
(* What hunter/explainability promises to `hunter explain`, with no files  *)
(* and no pointer file: published runs are recorded whole and for ever, in *)
(* one step each; one recorded run is current; and a lookup answers from   *)
(* the run that was current when it began, whatever is recorded meanwhile. *)
(* ExplainStore implements it for any number of writers at a time,         *)
(* although a run is written file by file and any write may fail or be the *)
(* last.                                                                   *)
(***************************************************************************)
EXTENDS Naturals, Sequences, Functions

CONSTANTS
  Coins,     \* candidate pairs
  RunIds,    \* the runs, each with its kind, date and ranking
  Readers,   \* lookups that can be under way at the same time
  Succeeds,  \* the pairs <<r, s>> such that r may become current after s
  ReadsFail, \* whether reading a recorded run can fail
  Undated,   \* the date of an imported run without decision records
  NoRun      \* no run is current, or none is looked at

VARIABLES
  recorded,  \* the published runs that are recorded
  current,   \* the run that lookups are sent to
  held,      \* reader -> the run its lookup is about
  answer     \* reader -> the status of its last lookup

avars == <<recorded, current, held, answer>>

AInit ==
  /\ recorded = {}
  /\ current = NoRun
  /\ held = [p \in Readers |-> NoRun]
  /\ answer = [p \in Readers |-> "NONE"]

(* A run is recorded in one step, and never taken back.                    *)
RecordRun(r) ==
  /\ UNCHANGED <<current, held, answer>>
  /\ r.kind # "rejected"
  /\ recorded' = recorded \union {r}

(* Only a recorded run becomes current.                                    *)
MakeCurrent(r) ==
  /\ current' = r
  /\ <<r, current>> \in Succeeds
  /\ r \in recorded
  /\ UNCHANGED <<recorded, held, answer>>

(* What a run has to say of a pair.                                        *)
Verdict(r, c) ==
  IF r.date = Undated THEN "LEGACY_RUN_INCOMPLETE"
  ELSE IF c \in Range(r.ranking) THEN "OK" ELSE "NOT_IN_UNIVERSE"

Reply(p, r, status) ==
  /\ held' = [held EXCEPT ![p] = r]
  /\ answer' = [answer EXCEPT ![p] = status]
  /\ UNCHANGED <<recorded, current>>

Begin(p) ==
  /\ held[p] = NoRun
  /\ IF current = NoRun THEN Reply(p, NoRun, "NO_SUCCESSFUL_RUN") ELSE Reply(p, current, "NONE")

Finish(p) == held[p] # NoRun /\ \E c \in Coins : Reply(p, NoRun, Verdict(held[p], c))

Fail(p) == ReadsFail /\ (held[p] # NoRun \/ current # NoRun) /\ Reply(p, NoRun, "READ_ERROR")

ANext ==
  \/ \E r \in RunIds \ {current} : MakeCurrent(r)
  \/ \E r \in RunIds \ recorded : RecordRun(r)
  \/ \E p \in Readers : Begin(p) \/ Finish(p) \/ Fail(p)

ASpec == AInit /\ [][ANext]_avars
=============================================================================
