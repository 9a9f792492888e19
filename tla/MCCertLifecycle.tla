-------------------------- MODULE MCCertLifecycle --------------------------
(* CertLifecycle on small instances. *)
EXTENDS CertLifecycle, TLC

CONSTANTS c1, c2, w1, w2

TwoCerts == {c1, c2}
OneCert == {c1}
JustIntermediate == {Intermediate}
BothCas == {Root, Intermediate}
BothWorkers == {w1, w2}

\* Request threads are interchangeable.
Symm == Permutations({w1, w2})
=============================================================================
