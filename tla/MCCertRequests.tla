--------------------------- MODULE MCCertRequests ---------------------------
(* CertRequests on small instances, and what the CSRs it is about must fit. *)
EXTENDS CertRequests, ProfilePolicy, TLC

Symm == Permutations(Threads) \cup Permutations(Certs) \cup Permutations(Requests)
=============================================================================
