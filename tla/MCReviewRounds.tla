--------------------------- MODULE MCReviewRounds ---------------------------
(* Small instances of ReviewRounds. *)
EXTENDS ReviewRounds

TwoGroups == <<<<"a", "b">>, <<"c">>>>
=============================================================================
