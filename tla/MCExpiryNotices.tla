-------------------------- MODULE MCExpiryNotices --------------------------
(* ExpiryNotices on small instances. *)
EXTENDS ExpiryNotices, TLC
=============================================================================
