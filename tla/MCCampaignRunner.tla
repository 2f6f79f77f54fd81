-------------------------- MODULE MCCampaignRunner --------------------------
(***************************************************************************)
(* Instances of CampaignRunner for model checking.                         *)
(***************************************************************************)
EXTENDS CampaignRunner

CONSTANTS f1, f2, t1, t2, d1, d2, c1

Id(family, template, data) == [family |-> family, template |-> template, data |-> data, config |-> c1]

(* Two families with one walk-forward and two data sets for one plan; two  *)
(* plans in one family.                                                    *)
Mixed == <<Id(f1, t1, d1), Id(f2, t1, d1), Id(f1, t1, d2)>>
Drifting == <<Id(f1, t1, d1), Id(f1, t2, d1)>>

Campaigns == {Mixed, Drifting}
ShortCampaigns == {Drifting}
=============================================================================
