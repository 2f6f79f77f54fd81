-------------------------- MODULE MCExplainStore --------------------------
(***************************************************************************)
(* Instances of ExplainStore for model checking.                           *)
(***************************************************************************)
EXTENDS ExplainStore, TLC

CONSTANTS c1, c2

Id(kind, date, ranking) == [kind |-> kind, date |-> date, ranking |-> ranking]

(* A build of two coins and imports with and without an audit.  The import *)
(* without one is later than both others by its date text, so each import  *)
(* can be overtaken by the build and by the other.                         *)
MixedRuns == {Id("approved", 1, <<c1, c2>>), Id("legacy", 1, <<c2>>), Id("legacy", Undated, <<c1>>)}

ImportedRuns == {Id("legacy", 1, <<c1>>), Id("legacy", 2, <<c1>>), Id("legacy", Undated, <<c1>>)}

(* Which of the writers does what makes no difference.                     *)
WriterSymmetry == Permutations(Writers)
=============================================================================
