---------------------------- MODULE MCSessionLog ----------------------------
(* A small instance of SessionLog: chains of three reviews, and of two scans *)
(* with a record that is not flushed.                                        *)
EXTENDS SessionLog

MCMaxRuns == [k \in Kinds |-> IF k = "review" THEN 3 ELSE 2]
MCMaxNoise == [k \in Kinds |-> IF k = "review" THEN 0 ELSE 1]
=============================================================================
