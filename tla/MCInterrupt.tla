---------------------------- MODULE MCInterrupt ----------------------------
(* ReviewCommand, under signals, with two servers that publish a tool of one  *)
(* name; one of them is limited to it.                                       *)
EXTENDS ReviewCommand

TwoServers == <<"first", "second">>
Published == [s \in {"first", "second"} |-> IF s = "first" THEN <<"find", "file_read">> ELSE <<"find", "ask">>]
Limits == [s \in {"first", "second"} |-> IF s = "first" THEN {} ELSE {"find", "ask"}]
=============================================================================
