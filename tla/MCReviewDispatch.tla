-------------------------- MODULE MCReviewDispatch --------------------------
(* Small instances of ReviewDispatch. *)
EXTENDS ReviewDispatch

FiveFiles == <<"a", "b", "c", "d", "e">>
ThreeGroups == <<<<"a", "b">>, <<"c">>, <<"d">>>>
UnitCost == <<1, 1, 1>>
=============================================================================
