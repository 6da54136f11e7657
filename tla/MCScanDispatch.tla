--------------------------- MODULE MCScanDispatch ---------------------------
(* A small instance of ScanDispatch: three files of a language, in batches of *)
(* two and one, and one of another.  The task of "a" may comment on "b",      *)
(* which is in its batch, and that of "d" on "a", which is not.               *)
EXTENDS ScanDispatch
Source == INSTANCE ScanSource WITH MaxFileSize <- 2

MCItems == <<"a", "d", "b", "c">>
MCKey == [f \in {"a", "b", "c", "d"} |-> IF f = "d" THEN 2 ELSE 1]
MCBatches == Source!GroupBatches(MCItems, MCKey, 2)
MCFiling == [f \in {"a", "b", "c", "d"} |-> CASE f = "a" -> {"a", "b"} [] f = "d" -> {"d", "a"} [] OTHER -> {f}]
=============================================================================
