----------------------------- MODULE MCManifest -----------------------------
(* Small instance of Manifest. *)
EXTENDS Manifest, TLC
=============================================================================
