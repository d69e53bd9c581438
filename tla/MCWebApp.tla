------------------------------ MODULE MCWebApp ------------------------------
(* One tab, for TLC. *)
EXTENDS WebApp
=============================================================================
