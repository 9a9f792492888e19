-------------------------- MODULE RevocationLedger --------------------------
(***************************************************************************)
(* What the CA promises about revocation, without saying how it is done.   *)
(* A certificate is revoked at most once and for good.  Every CRL is a     *)
(* picture of the whole set of revoked certificates at one instant: it is  *)
(* read in one piece (Read) and published some time later (Publish), by    *)
(* one of several publishers that know nothing of each other.              *)
(***************************************************************************)
CONSTANTS Certs,       \* the certificates
          Publishers   \* the threads that may build a CRL

VARIABLES revoked,     \* certificates revoked so far
          snapshot,    \* what each publisher has read and not yet published
          published    \* the contents of every CRL published so far

ledgerVars == <<revoked, snapshot, published>>

Init == /\ revoked = {}
        /\ snapshot = [p \in Publishers |-> {}]
        /\ published \in SUBSET {{}}

Revoke(c) == /\ c \notin revoked
             /\ revoked' = revoked \cup {c}
             /\ UNCHANGED <<snapshot, published>>

Read(p) == /\ snapshot' = [snapshot EXCEPT ![p] = revoked]
           /\ UNCHANGED <<revoked, published>>

Publish(p) == /\ published' = published \cup {snapshot[p]}
              /\ snapshot' = [snapshot EXCEPT ![p] = {}]
              /\ UNCHANGED revoked

\* Publishers may give up, several at once when the process restarts.
Discard(P) == /\ snapshot' = [p \in Publishers |-> IF p \in P THEN {} ELSE snapshot[p]]
              /\ UNCHANGED <<revoked, published>>

Next == \/ \E c \in Certs : Revoke(c)
        \/ \E p \in Publishers : Read(p) \/ Publish(p)
        \/ \E P \in SUBSET Publishers : Discard(P)

Spec == Init /\ [][Next]_ledgerVars
=============================================================================
