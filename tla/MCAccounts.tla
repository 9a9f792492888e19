----------------------------- MODULE MCAccounts -----------------------------
(* Accounts on small instances. *)
EXTENDS Accounts, TLC

Body(r, a, p) == [role |-> r, active |-> a, password |-> p]

\* A new role with a reactivation, and another with a deactivation and a password,
\* which a SAML user cannot have.
MCBodies == {Body("requester", "true", FALSE), Body("admin", "false", TRUE)}

Symm == Permutations(Threads) \cup Permutations(Sessions)
=============================================================================
