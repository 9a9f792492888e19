-------------------------- MODULE MCCaLifecycle --------------------------
(* CaLifecycle on small instances. *)
EXTENDS CaLifecycle, TLC

CONSTANTS a1, a2, p1, p2

TwoAdmins == {a1, a2}
OnePassphrase == {p1}
TwoPassphrases == {p1, p2}

\* Threads are interchangeable, and so are passphrases.
Symm == Permutations({a1, a2}) \cup Permutations({p1, p2})
=============================================================================
