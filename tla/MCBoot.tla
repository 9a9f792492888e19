------------------------------ MODULE MCBoot ------------------------------
(* Boot on small instances. *)
EXTENDS Boot, TLC
=============================================================================
