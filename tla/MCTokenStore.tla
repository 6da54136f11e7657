---------------------------- MODULE MCTokenStore ----------------------------
(* A small instance of TokenStore: two calls at once and two client ids. *)
EXTENDS TokenStore
=============================================================================
