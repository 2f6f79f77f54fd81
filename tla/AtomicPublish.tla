--------------------------- MODULE AtomicPublish ---------------------------
(***************************************************************************)
(* What hunter/pairlist_export promises its readers, with no files, no     *)
(* temporary copies and no partial writes: a dated archive that is only    *)
(* ever added to, and one live artifact pair that changes in a single step *)
(* from one archived output to another.  PairlistPublish implements it for *)
(* one invocation at a time whose writes may fail.                         *)
(***************************************************************************)
EXTENDS PairlistArtifacts

VARIABLES
  published,  \* the live [pairlist, audit] pair that readers are promised
  archive     \* as-of date -> the output archived for that date, or Absent

avars == <<published, archive>>

AInit ==
  /\ published = NoPair
  /\ archive = [d \in Dates |-> Absent]

(* A date is archived once; nothing replaces what was archived.            *)
Archive(o) ==
  /\ archive[o.date] = Absent
  /\ archive' = [archive EXCEPT ![o.date] = o]
  /\ UNCHANGED published

(* Both live artifacts change together, and only to an archived output.    *)
Publish(o) ==
  /\ archive[o.date] = o
  /\ published' = PairOf(o)
  /\ UNCHANGED archive

ANext == \E o \in Outputs : Archive(o) \/ Publish(o)

ASpec == AInit /\ [][ANext]_avars
=============================================================================
