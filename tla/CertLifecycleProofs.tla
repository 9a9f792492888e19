------------------------- MODULE CertLifecycleProofs -------------------------
(* What TLAPS proves of CertLifecycle, for any certificates, request threads *)
(* and bounds.                                                               *)
EXTENDS CertLifecycle, TLAPS

-----------------------------------------------------------------------------
(* Type correctness *)

SessionTypes ==
    /\ seen \in [Procs -> {"absent", "valid", "revoked"}]
    /\ caView \in [Procs -> [Cas -> Nat]]
    /\ todo \in [Procs -> SUBSET Cas]
    /\ ca \in [Procs -> Cas]
    /\ listing \in [Procs -> SUBSET Certs]

RequestTypes ==
    /\ pc \in [Procs -> WorkerSteps]
    /\ target \in [Procs -> Certs \cup {NoCert}]
    /\ fresh \in [Procs -> Certs \cup {NoCert}]

\* Closing sessions keeps what a session holds well typed.
LEMMA CloseTypes ==
    ASSUME TypeOK, NEW P, Close(P)
    PROVE  SessionTypes'
BY ConstantsAssumption DEF TypeOK, Close, SessionTypes

\* Ending requests or the job's run keeps every local variable well typed and
\* touches no other thread.
LEMMA FinishTypes ==
    ASSUME TypeOK, NEW P, Finish(P)
    PROVE  /\ SessionTypes'
           /\ RequestTypes'
           /\ \A p \in P \cap Procs : pc'[p] = "idle"
           /\ \A p \in Procs \ P : /\ pc'[p] = pc[p]
                                   /\ target'[p] = target[p]
                                   /\ fresh'[p] = fresh[p]
<1>1. Close(P) BY DEF Finish
<1>2. SessionTypes' BY <1>1, CloseTypes
<1>3. QED BY <1>2 DEF TypeOK, Finish, WorkerSteps, RequestTypes

\* A request that fails leaves its thread free and everything well typed.
LEMMA FailTypes ==
    ASSUME TypeOK, NEW w \in Workers, Fail(w)
    PROVE  /\ SessionTypes'
           /\ RequestTypes'
           /\ pc'[w] = "failed"
           /\ \A p \in Procs \ {w} : pc'[p] = pc[p]
           /\ UNCHANGED <<target, fresh>>
<1>1. Close({w}) BY DEF Fail
<1>2. SessionTypes' BY <1>1, CloseTypes
<1>3. QED BY <1>2 DEF TypeOK, Fail, Goto, WorkerSteps, Procs, RequestTypes

\* The initial state is well typed.
LEMMA TypeInit == Init => TypeOK
<1> SUFFICES ASSUME Init PROVE TypeOK
  OBVIOUS
<1> USE ConstantsAssumption DEF Procs
<1>1. PICK initial \in SUBSET Cas :
        /\ crlNumber = [a \in Cas |-> IF a \in initial THEN 1 ELSE 0]
        /\ crls = [a \in Cas |-> IF a \in initial
                                 THEN {[number |-> 1, listed |-> {}]} ELSE {}]
  BY DEF Init
<1>2. crlNumber \in [Cas -> Nat] /\ crls \in [Cas -> SUBSET CrlRecord]
  BY <1>1 DEF CrlRecord
<1>3. audit \in [{"cert.issue", "cert.revoke"} -> [Certs -> Nat]]
  BY DEF Init
<1>4. QED BY <1>2, <1>3 DEF Init, TypeOK, WorkerSteps, JobSteps

LEMMA TypeStep ==
    ASSUME TypeOK, [Next]_vars
    PROVE  TypeOK'
<1> USE ConstantsAssumption DEF Procs
<1>1. ASSUME NEW w \in Workers, IssueBegin(w) PROVE TypeOK'
  BY <1>1 DEF TypeOK, IssueBegin, Free, Goto, WorkerSteps, JobSteps, db, book
<1>2. ASSUME NEW w \in Workers, NEW c \in Certs, RenewBegin(w, c) PROVE TypeOK'
  BY <1>2 DEF TypeOK, RenewBegin, Free, Goto, WorkerSteps, JobSteps, db, book
<1>3. ASSUME NEW w \in Workers, NEW c \in Certs, RevokeBegin(w, c) PROVE TypeOK'
  BY <1>3 DEF TypeOK, RevokeBegin, Free, Goto, WorkerSteps, JobSteps, db, book
<1>4. ASSUME NEW w \in Workers, NEW c \in Certs, IssueCommit(w, c) PROVE TypeOK'
  BY <1>4 DEF TypeOK, IssueCommit, Goto, WorkerSteps, JobSteps, book
<1>5. ASSUME NEW w \in Workers, IssueRefused(w) PROVE TypeOK'
  BY <1>5, FinishTypes DEF TypeOK, IssueRefused, SessionTypes, RequestTypes, WorkerSteps, JobSteps, db, book
<1>6. ASSUME NEW w \in Workers, LogIssue(w) PROVE TypeOK'
  <2>1. audit' \in [{"cert.issue", "cert.revoke"} -> [Certs -> Nat]]
    BY <1>6 DEF TypeOK, LogIssue
  <2>2. CASE target[w] # NoCert /\ seen[w] = "valid"
    BY <1>6, <2>1, <2>2 DEF TypeOK, LogIssue, Goto, WorkerSteps, JobSteps, locals, book
  <2>3. CASE ~(target[w] # NoCert /\ seen[w] = "valid")
    BY <1>6, <2>1, <2>3, FinishTypes DEF TypeOK, LogIssue, SessionTypes, RequestTypes, WorkerSteps, JobSteps, book
  <2>4. QED BY <2>2, <2>3
<1>7. ASSUME NEW w \in Workers, RevokeCommit(w) PROVE TypeOK'
  BY <1>7 DEF TypeOK, RevokeCommit, Goto, WorkerSteps, JobSteps, locals, book
<1>8. ASSUME NEW w \in Workers, RevokeConflict(w) PROVE TypeOK'
  BY <1>8, FailTypes DEF TypeOK, RevokeConflict, SessionTypes, RequestTypes, WorkerSteps, JobSteps, db, book
<1>9. ASSUME NEW w \in Workers, LoadCa(w) PROVE TypeOK'
  <2>1. overlapped' \in BOOLEAN BY <1>9 DEF LoadCa, NoteOverlap
  <2>2. QED BY <1>9, <2>1 DEF TypeOK, LoadCa, Goto, WorkerSteps, JobSteps, db
<1>10. ASSUME NEW w \in Workers, LogRevoke(w) PROVE TypeOK'
  <2>1. audit' \in [{"cert.issue", "cert.revoke"} -> [Certs -> Nat]]
    BY <1>10 DEF TypeOK, LogRevoke
  <2>2. QED BY <1>10, <2>1, FinishTypes DEF TypeOK, LogRevoke, SessionTypes, RequestTypes, WorkerSteps, JobSteps, book
<1>11. ASSUME NEW p \in Procs, NEW a \in Cas, BuildCrl(p, a) PROVE TypeOK'
  <2>1. RevokedBy(a) \in SUBSET Certs BY DEF RevokedBy
  <2>2. QED BY <1>11, <2>1 DEF TypeOK, BuildCrl, Goto, WorkerSteps, JobSteps, db, book
<1>12. ASSUME NEW p \in Procs, NEW a \in Cas, SkipCrl(p, a) PROVE TypeOK'
  BY <1>12 DEF TypeOK, SkipCrl, WorkerSteps, JobSteps, db, book
<1>13. ASSUME NEW p \in Procs, CommitCrl(p) PROVE TypeOK'
  BY <1>13 DEF TypeOK, CommitCrl, CrlRecord, Goto, WorkerSteps, JobSteps, book
<1>14. ASSUME NEW p \in Procs, RefreshDone(p) PROVE TypeOK'
  <2>1. CASE p = Job
    BY <1>14, <2>1, FinishTypes DEF TypeOK, RefreshDone, SessionTypes, RequestTypes, WorkerSteps, JobSteps, db, book
  <2>2. CASE p # Job
    <3>1. /\ Close({p}) /\ pc' = [pc EXCEPT ![p] = "logRevoke"] /\ pc[p] = "refresh"
          /\ UNCHANGED <<target, fresh, db, rootUnlocked, book>>
      BY <1>14, <2>2 DEF RefreshDone, Goto
    <3>2. SessionTypes' BY <3>1, CloseTypes
    <3>3. QED BY <2>2, <3>1, <3>2 DEF TypeOK, SessionTypes, WorkerSteps, JobSteps, db, book
  <2>3. QED BY <2>1, <2>2
<1>15. CASE RefreshAllBegin
  <2>1. overlapped' \in BOOLEAN BY <1>15 DEF RefreshAllBegin, NoteOverlap
  <2>2. QED BY <1>15, <2>1 DEF TypeOK, RefreshAllBegin, Goto, WorkerSteps, JobSteps, db
<1>16. ASSUME NEW p \in Procs, CommitFails(p) PROVE TypeOK'
  <2>1. faults' \in Nat /\ UNCHANGED <<db, rootUnlocked, overlapped, idleRuns>>
    BY <1>16 DEF TypeOK, CommitFails
  <2>2. CASE p = Job
    <3>1. Finish({Job}) BY <1>16, <2>2 DEF CommitFails
    <3>2. QED BY <2>1, <3>1, FinishTypes DEF TypeOK, SessionTypes, RequestTypes, JobSteps, db
  <2>3. CASE p # Job
    <3>1. p \in Workers /\ Fail(p) BY <1>16, <2>3 DEF CommitFails
    <3>2. SessionTypes' /\ RequestTypes' BY <3>1, FailTypes
    <3>3. /\ pc'[p] = "failed"
          /\ \A q \in Procs \ {p} : pc'[q] = pc[q]
          /\ UNCHANGED <<target, fresh>>
      BY <3>1, FailTypes
    <3>4. QED BY <2>1, <3>1, <3>2, <3>3 DEF TypeOK, SessionTypes, RequestTypes, JobSteps, db
  <2>4. QED BY <2>2, <2>3
<1>17. CASE ToggleRoot
  BY <1>17 DEF TypeOK, ToggleRoot, db, locals, book
<1>18. CASE Restart
  <2>1. faults' \in Nat BY <1>18 DEF TypeOK, Restart
  <2>2. rootUnlocked' \in BOOLEAN /\ UNCHANGED <<db, overlapped, idleRuns>>
    BY <1>18 DEF Restart
  <2>3. Finish(Procs) BY <1>18 DEF Restart
  <2>4. SessionTypes' /\ RequestTypes' BY <2>3, FinishTypes
  <2>5. \A p \in Procs : pc'[p] = "idle"
    BY <2>3 DEF Finish
  <2>6. QED BY <2>1, <2>2, <2>4, <2>5 DEF TypeOK, SessionTypes, RequestTypes, JobSteps, db
<1>19. CASE UNCHANGED vars
  BY <1>19 DEF TypeOK, vars, db, locals, book
<1>20. QED
  BY <1>1, <1>2, <1>3, <1>4, <1>5, <1>6, <1>7, <1>8, <1>9, <1>10, <1>11, <1>12,
     <1>13, <1>14, <1>15, <1>16, <1>17, <1>18, <1>19
     DEF Next, WorkerStep, RefreshStep

\* Type correctness: whatever the threads do, rows, sessions and steps are
\* what the code's types say, and no thread revokes or logs "None".
THEOREM TypeCorrect == Spec => []TypeOK
BY TypeInit, TypeStep, PTL DEF Spec
-----------------------------------------------------------------------------
(* The ledger of revocations and its pictures *)

\* A certificate is REVOKED exactly when it has a row in revocations: what
\* build_crl's join of the two tables selects is then the whole ledger.
LedgerConsistent == Revoked = revocations

LedgerInv == TypeOK /\ LedgerConsistent /\ CrlsNested

-----------------------------------------------------------------------------
(* CRLs nest *)

\* Threads let go of what they hold and build nothing.
Drops == \A p \in Procs : listing'[p] = listing[p] \/ listing'[p] = {}

\* A closed session keeps no picture of its own; the others keep theirs.
LEMMA CloseDrops ==
    ASSUME NEW P, Close(P)
    PROVE  Drops
BY DEF Close, Drops

\* Dropping pictures and revoking more certificates keeps the CRLs nested.
LEMMA NestedWhenDropped ==
    ASSUME CrlsNested, Drops, UNCHANGED crls, Revoked \subseteq Revoked'
    PROVE  CrlsNested'
<1>1. \A P \in Pictures' : P \in Pictures \/ P = {}
  BY DEF Pictures, Drops
<1>2. QED BY <1>1 DEF CrlsNested

\* A step that leaves the three tables alone and builds no CRL.
LEMMA LedgerQuiet ==
    ASSUME LedgerConsistent, CrlsNested, Drops, UNCHANGED <<status, revocations, crls>>
    PROVE  LedgerConsistent' /\ CrlsNested'
<1>1. Revoked' = Revoked BY DEF Revoked
<1>2. QED BY <1>1, NestedWhenDropped DEF LedgerConsistent

\* No picture is taken and nothing is revoked at the start.
LEMMA LedgerInit == Init => LedgerInv
<1> SUFFICES ASSUME Init PROVE LedgerInv
  OBVIOUS
<1>1. TypeOK BY TypeInit
<1>2. Revoked = {} BY DEF Init, Revoked
<1>3. LedgerConsistent BY <1>2 DEF Init, LedgerConsistent
<1>4. \A P \in Pictures : P = {}
  <2>1. \A i \in crls[Intermediate] : i.listed = {}
    BY ConstantsAssumption DEF Init
  <2>2. \A q \in Procs : listing[q] = {} BY DEF Init
  <2>3. QED BY <2>1, <2>2 DEF Pictures
<1>5. QED BY <1>1, <1>3, <1>4 DEF LedgerInv, CrlsNested

\* Every step keeps the invariant: RevokeCommit makes the ledger grow in both
\* tables, BuildCrl takes a picture of all of it, CommitCrl publishes a picture.
LEMMA LedgerStep ==
    ASSUME LedgerInv, [Next]_vars
    PROVE  LedgerInv'
<1> USE ConstantsAssumption
<1>0. TypeOK /\ TypeOK' /\ LedgerConsistent /\ CrlsNested
  BY TypeStep DEF LedgerInv
<1> SUFFICES LedgerConsistent' /\ CrlsNested'
  BY <1>0 DEF LedgerInv
<1>1. ASSUME NEW w \in Workers, IssueBegin(w) PROVE LedgerConsistent' /\ CrlsNested'
  BY <1>0, <1>1, LedgerQuiet DEF IssueBegin, Drops, db
<1>2. ASSUME NEW w \in Workers, NEW c \in Certs, RenewBegin(w, c)
      PROVE  LedgerConsistent' /\ CrlsNested'
  BY <1>0, <1>2, LedgerQuiet DEF RenewBegin, Drops, db
<1>3. ASSUME NEW w \in Workers, NEW c \in Certs, RevokeBegin(w, c)
      PROVE  LedgerConsistent' /\ CrlsNested'
  BY <1>0, <1>3, LedgerQuiet DEF RevokeBegin, Drops, db
<1>4. ASSUME NEW w \in Workers, NEW c \in Certs, IssueCommit(w, c)
      PROVE  LedgerConsistent' /\ CrlsNested'
  <2>1. Revoked' = Revoked BY <1>0, <1>4 DEF IssueCommit, Revoked, TypeOK
  <2>2. Drops BY <1>4 DEF IssueCommit, Drops
  <2>3. UNCHANGED <<revocations, crls>> BY <1>4 DEF IssueCommit
  <2>4. QED BY <1>0, <2>1, <2>2, <2>3, NestedWhenDropped DEF LedgerConsistent
<1>5. ASSUME NEW w \in Workers, IssueRefused(w) PROVE LedgerConsistent' /\ CrlsNested'
  BY <1>0, <1>5, LedgerQuiet, CloseDrops DEF IssueRefused, Finish, db
<1>6. ASSUME NEW w \in Workers, LogIssue(w) PROVE LedgerConsistent' /\ CrlsNested'
  <2>1. Drops
    <3>1. CASE target[w] # NoCert /\ seen[w] = "valid"
      BY <1>6, <3>1 DEF LogIssue, Drops, locals
    <3>2. CASE ~(target[w] # NoCert /\ seen[w] = "valid")
      BY <1>6, <3>2, CloseDrops DEF LogIssue, Finish
    <3>3. QED BY <3>1, <3>2
  <2>2. QED BY <1>0, <1>6, <2>1, LedgerQuiet DEF LogIssue
<1>7. ASSUME NEW w \in Workers, RevokeCommit(w) PROVE LedgerConsistent' /\ CrlsNested'
  <2>1. target[w] \in Certs BY <1>0, <1>7 DEF TypeOK, RevokeCommit
  <2>2. Revoked' = Revoked \cup {target[w]}
    BY <1>0, <1>7, <2>1 DEF TypeOK, RevokeCommit, Revoked
  <2>3. LedgerConsistent' BY <1>0, <1>7, <2>2 DEF RevokeCommit, LedgerConsistent
  <2>4. Drops /\ UNCHANGED crls BY <1>7 DEF RevokeCommit, Drops, locals
  <2>5. QED BY <1>0, <2>2, <2>3, <2>4, NestedWhenDropped
<1>8. ASSUME NEW w \in Workers, RevokeConflict(w) PROVE LedgerConsistent' /\ CrlsNested'
  BY <1>0, <1>8, LedgerQuiet, CloseDrops DEF RevokeConflict, Fail, db
<1>9. ASSUME NEW w \in Workers, LoadCa(w) PROVE LedgerConsistent' /\ CrlsNested'
  BY <1>0, <1>9, LedgerQuiet DEF LoadCa, Drops, db
<1>10. ASSUME NEW w \in Workers, LogRevoke(w) PROVE LedgerConsistent' /\ CrlsNested'
  BY <1>0, <1>10, LedgerQuiet, CloseDrops DEF LogRevoke, Finish
<1>11. ASSUME NEW p \in Procs, NEW a \in Cas, BuildCrl(p, a)
       PROVE  LedgerConsistent' /\ CrlsNested'
  <2>1. Revoked' = Revoked /\ UNCHANGED <<revocations, crls>>
    BY <1>11 DEF BuildCrl, Revoked, db
  <2>2. RevokedBy(a) = Revoked \/ RevokedBy(a) = {}
    BY <1>0 DEF LedgerConsistent, RevokedBy, Revoked
  <2>3. \A P \in Pictures' : P \in Pictures \/ P = Revoked \/ P = {}
    BY <1>0, <1>11, <2>1, <2>2 DEF Pictures, BuildCrl, TypeOK
  <2>4. QED BY <1>0, <2>1, <2>3 DEF LedgerConsistent, CrlsNested
<1>12. ASSUME NEW p \in Procs, NEW a \in Cas, SkipCrl(p, a)
       PROVE  LedgerConsistent' /\ CrlsNested'
  BY <1>0, <1>12, LedgerQuiet DEF SkipCrl, Drops, db
<1>13. ASSUME NEW p \in Procs, CommitCrl(p) PROVE LedgerConsistent' /\ CrlsNested'
  <2>1. Revoked' = Revoked /\ UNCHANGED revocations
    BY <1>13 DEF CommitCrl, Revoked
  <2>2. \A i \in crls'[Intermediate] : i \in crls[Intermediate] \/ i.listed = listing[p]
    BY <1>0, <1>13 DEF CommitCrl, TypeOK
  <2>3. \A q \in Procs : listing'[q] = listing[q] \/ listing'[q] = {}
    BY <1>0, <1>13 DEF CommitCrl, TypeOK
  <2>4. \A P \in Pictures' : P \in Pictures \/ P = {}
    BY <2>2, <2>3 DEF Pictures
  <2>5. QED BY <1>0, <2>1, <2>4 DEF LedgerConsistent, CrlsNested
<1>14. ASSUME NEW p \in Procs, RefreshDone(p) PROVE LedgerConsistent' /\ CrlsNested'
  <2>1. Drops BY <1>14, CloseDrops DEF RefreshDone, Finish
  <2>2. QED BY <1>0, <1>14, <2>1, LedgerQuiet DEF RefreshDone, db
<1>15. CASE RefreshAllBegin
  BY <1>0, <1>15, LedgerQuiet DEF RefreshAllBegin, Drops, db
<1>16. ASSUME NEW p \in Procs, CommitFails(p) PROVE LedgerConsistent' /\ CrlsNested'
  <2>1. Drops BY <1>16, CloseDrops DEF CommitFails, Finish, Fail
  <2>2. QED BY <1>0, <1>16, <2>1, LedgerQuiet DEF CommitFails, db
<1>17. CASE ToggleRoot
  BY <1>0, <1>17, LedgerQuiet DEF ToggleRoot, Drops, db, locals
<1>18. CASE Restart
  BY <1>0, <1>18, LedgerQuiet, CloseDrops DEF Restart, Finish, db
<1>19. CASE UNCHANGED vars
  BY <1>0, <1>19, LedgerQuiet DEF vars, db, locals, Drops
<1>20. QED
  BY <1>1, <1>2, <1>3, <1>4, <1>5, <1>6, <1>7, <1>8, <1>9, <1>10, <1>11, <1>12,
     <1>13, <1>14, <1>15, <1>16, <1>17, <1>18, <1>19
     DEF Next, WorkerStep, RefreshStep

\* The invariant of the ledger's three tables holds throughout.
LEMMA LedgerInvariant == Spec => []LedgerInv
BY LedgerInit, LedgerStep, PTL DEF Spec

\* However the refreshes of requests and of the job interleave, of any two CRLs
\* published or being built one contains the other, and all entries are revoked.
THEOREM CrlsAlwaysNested == Spec => []CrlsNested
<1>1. LedgerInv => CrlsNested BY DEF LedgerInv
<1>2. QED BY <1>1, LedgerInvariant, PTL
-----------------------------------------------------------------------------
(* The detailed specification implements the ledger *)

\* Letting go of pictures is a step of the ledger.
LEMMA DropIsDiscard ==
    ASSUME TypeOK', Drops, Revoked' = Revoked, UNCHANGED crls
    PROVE  Ledger!Next
<1> DEFINE P == {p \in Procs : listing'[p] = {}}
<1>1. listing' = [p \in Procs |-> IF p \in P THEN {} ELSE listing[p]]
  BY DEF TypeOK, Drops
<1>2. Ledger!Discard(P) BY <1>1 DEF Ledger!Discard
<1>3. P \in SUBSET Procs OBVIOUS
<1> HIDE DEF P
<1>4. QED BY <1>2, <1>3 DEF Ledger!Next

\* An initial state of the system is one of the ledger.
LEMMA LedgerRefinesInit == Init => Ledger!Init
<1> SUFFICES ASSUME Init PROVE Ledger!Init
  OBVIOUS
<1>1. Revoked = {} BY DEF Init, Revoked
<1>2. listing = [p \in Procs |-> {}] BY DEF Init
<1>3. \A i \in crls[Intermediate] : i.listed = {}
  BY ConstantsAssumption DEF Init
<1>4. {i.listed : i \in crls[Intermediate]} \in SUBSET {{}} BY <1>3
<1>5. QED BY <1>1, <1>2, <1>4 DEF Ledger!Init

\* RevokeCommit is Revoke, BuildCrl is Read, CommitCrl is Publish (of the
\* intermediate's CRL; the root's is nothing to the ledger), the rest at most
\* lets go of pictures.
LEMMA LedgerRefinesStep ==
    ASSUME LedgerInv, [Next]_vars
    PROVE  Ledger!Next \/ UNCHANGED <<Revoked, listing, crls>>
<1> USE ConstantsAssumption
<1>0. TypeOK /\ TypeOK' /\ LedgerConsistent
  BY TypeStep DEF LedgerInv
<1> DEFINE Goal == Ledger!Next \/ UNCHANGED <<Revoked, listing, crls>>
<1> SUFFICES Goal OBVIOUS
<1>a. ASSUME UNCHANGED <<status, listing, crls>> PROVE Goal
  BY <1>a DEF Revoked
<1>b. ASSUME UNCHANGED <<status, crls>>, NEW P, Close(P) PROVE Goal
  BY <1>0, <1>b, CloseDrops, DropIsDiscard DEF Revoked
<1> HIDE DEF Goal
<1>1. ASSUME NEW w \in Workers, IssueBegin(w) PROVE Goal
  BY <1>1, <1>a DEF IssueBegin, db
<1>2. ASSUME NEW w \in Workers, NEW c \in Certs, RenewBegin(w, c) PROVE Goal
  BY <1>2, <1>a DEF RenewBegin, db
<1>3. ASSUME NEW w \in Workers, NEW c \in Certs, RevokeBegin(w, c) PROVE Goal
  BY <1>3, <1>a DEF RevokeBegin, db
<1>4. ASSUME NEW w \in Workers, NEW c \in Certs, IssueCommit(w, c) PROVE Goal
  <2>1. Revoked' = Revoked BY <1>0, <1>4 DEF IssueCommit, Revoked, TypeOK
  <2>2. UNCHANGED <<listing, crls>> BY <1>4 DEF IssueCommit
  <2>3. QED BY <2>1, <2>2 DEF Goal
<1>5. ASSUME NEW w \in Workers, IssueRefused(w) PROVE Goal
  BY <1>5, <1>b DEF IssueRefused, Finish, db
<1>6. ASSUME NEW w \in Workers, LogIssue(w) PROVE Goal
  <2>1. CASE target[w] # NoCert /\ seen[w] = "valid"
    BY <1>6, <2>1, <1>a DEF LogIssue, locals
  <2>2. CASE ~(target[w] # NoCert /\ seen[w] = "valid")
    BY <1>6, <2>2, <1>b DEF LogIssue, Finish
  <2>3. QED BY <2>1, <2>2
<1>7. ASSUME NEW w \in Workers, RevokeCommit(w) PROVE Goal
  <2>1. target[w] \in Certs BY <1>0, <1>7 DEF TypeOK, RevokeCommit
  <2>2. Revoked' = Revoked \cup {target[w]}
    BY <1>0, <1>7, <2>1 DEF TypeOK, RevokeCommit, Revoked
  <2>3. target[w] \notin Revoked BY <1>0, <1>7 DEF LedgerConsistent, RevokeCommit
  <2>4. UNCHANGED <<listing, crls>> BY <1>7 DEF RevokeCommit, locals
  <2>5. Ledger!Revoke(target[w]) BY <2>2, <2>3, <2>4 DEF Ledger!Revoke
  <2>6. QED BY <2>1, <2>5 DEF Goal, Ledger!Next
<1>8. ASSUME NEW w \in Workers, RevokeConflict(w) PROVE Goal
  BY <1>8, <1>b DEF RevokeConflict, Fail, db
<1>9. ASSUME NEW w \in Workers, LoadCa(w) PROVE Goal
  BY <1>9, <1>a DEF LoadCa, db
<1>10. ASSUME NEW w \in Workers, LogRevoke(w) PROVE Goal
  BY <1>10, <1>b DEF LogRevoke, Finish
<1>11. ASSUME NEW p \in Procs, NEW a \in Cas, BuildCrl(p, a) PROVE Goal
  <2>1. Revoked' = Revoked /\ UNCHANGED crls BY <1>11 DEF BuildCrl, Revoked, db
  <2>2. listing' = [listing EXCEPT ![p] = RevokedBy(a)] BY <1>11 DEF BuildCrl
  <2>3. CASE RevokedBy(a) = Revoked
    <3>1. Ledger!Read(p) BY <2>1, <2>2, <2>3 DEF Ledger!Read
    <3>2. QED BY <3>1 DEF Goal, Ledger!Next
  <2>4. CASE RevokedBy(a) = {}
    <3>1. Drops BY <1>0, <2>2, <2>4 DEF Drops, TypeOK
    <3>2. QED BY <1>0, <2>1, <3>1, DropIsDiscard DEF Goal
  <2>5. QED BY <1>0, <2>3, <2>4 DEF LedgerConsistent, RevokedBy, Revoked
<1>12. ASSUME NEW p \in Procs, NEW a \in Cas, SkipCrl(p, a) PROVE Goal
  BY <1>12, <1>a DEF SkipCrl, db
<1>13. ASSUME NEW p \in Procs, CommitCrl(p) PROVE Goal
  <2>1. Revoked' = Revoked BY <1>13 DEF CommitCrl, Revoked
  <2>2. listing' = [listing EXCEPT ![p] = {}] BY <1>13 DEF CommitCrl
  <2>3. CASE ca[p] = Intermediate
    <3> DEFINE row == [number |-> caView[p][ca[p]], listed |-> listing[p]]
    <3>1. row.listed = listing[p] OBVIOUS
    <3>2. crls'[Intermediate] = crls[Intermediate] \cup {row}
      BY <1>0, <1>13, <2>3 DEF CommitCrl, TypeOK
    <3> HIDE DEF row
    <3>3. {i.listed : i \in crls'[Intermediate]} =
            {i.listed : i \in crls[Intermediate]} \cup {listing[p]}
      BY <3>1, <3>2
    <3>4. Ledger!Publish(p) BY <2>1, <2>2, <3>3 DEF Ledger!Publish
    <3>5. QED BY <3>4 DEF Goal, Ledger!Next
  <2>4. CASE ca[p] # Intermediate
    <3>1. crls'[Intermediate] = crls[Intermediate]
      BY <1>0, <1>13, <2>4 DEF CommitCrl, TypeOK
    <3>2. Ledger!Discard({p})
      <4>1. listing' = [q \in Procs |-> IF q \in {p} THEN {} ELSE listing[q]]
        BY <1>0, <2>2 DEF TypeOK
      <4>2. QED BY <2>1, <3>1, <4>1 DEF Ledger!Discard
    <3>3. QED BY <3>2 DEF Goal, Ledger!Next
  <2>5. QED BY <2>3, <2>4
<1>14. ASSUME NEW p \in Procs, RefreshDone(p) PROVE Goal
  BY <1>14, <1>b DEF RefreshDone, Finish, db
<1>15. CASE RefreshAllBegin
  BY <1>15, <1>a DEF RefreshAllBegin, db
<1>16. ASSUME NEW p \in Procs, CommitFails(p) PROVE Goal
  BY <1>16, <1>b DEF CommitFails, Finish, Fail, db
<1>17. CASE ToggleRoot
  BY <1>17, <1>a DEF ToggleRoot, db, locals
<1>18. CASE Restart
  BY <1>18, <1>b DEF Restart, Finish, db
<1>19. CASE UNCHANGED vars
  BY <1>19, <1>a DEF vars, db, locals
<1>20. QED
  BY <1>1, <1>2, <1>3, <1>4, <1>5, <1>6, <1>7, <1>8, <1>9, <1>10, <1>11, <1>12,
     <1>13, <1>14, <1>15, <1>16, <1>17, <1>18, <1>19
     DEF Next, WorkerStep, RefreshStep

\* Issuing, renewing and revoking with any number of threads, failed commits
\* and restarts does only what the ledger of revocations allows.
THEOREM ImplementsLedger == Spec => LedgerSpec
<1>1. Init => Ledger!Init BY LedgerRefinesInit
<1>2. LedgerInv /\ [Next]_vars => [Ledger!Next]_(Ledger!ledgerVars)
  BY LedgerRefinesStep DEF Ledger!ledgerVars
<1>3. QED BY <1>1, <1>2, LedgerInvariant, PTL DEF Spec, LedgerSpec, Ledger!Spec
-----------------------------------------------------------------------------
(* What a revocation has stored by the time it is logged *)

RefreshSteps == {"loadCa", "refresh", "commitCrl", "logRevoke"}

Stored(w) == \E i \in crls[Intermediate] : target[w] \in i.listed

\* What a request owes, and has done, from the commit of its revocation to the
\* audit entry.
Own(w) ==
    /\ pc[w] \in RefreshSteps => target[w] \in revocations
    /\ pc[w] = "refresh" => \/ todo[w] = {Intermediate}
                            \/ todo[w] = {} /\ Stored(w)
    /\ pc[w] = "commitCrl" => /\ ca[w] = Intermediate
                              /\ todo[w] = {}
                              /\ target[w] \in listing[w]
    /\ pc[w] = "logRevoke" => Stored(w)

OwnInv == LedgerInv /\ \A w \in Workers : Own(w)

\* A step leaves thread v alone, or takes it to a step before or after its refresh.
Same(v) == /\ pc'[v] = pc[v]
           /\ target'[v] = target[v]
           /\ todo'[v] = todo[v]
           /\ ca'[v] = ca[v]
           /\ listing'[v] = listing[v]
           /\ caView'[v] = caView[v]
Away(v) == pc'[v] \notin RefreshSteps

\* Rows of revocations and crl_issuances are never deleted.
LEMMA RowsStay ==
    ASSUME TypeOK, [Next]_vars
    PROVE  /\ revocations \subseteq revocations'
           /\ \A a \in Cas : crls[a] \subseteq crls'[a]
<1>1. ASSUME NEW p \in Procs, CommitCrl(p)
      PROVE  /\ revocations \subseteq revocations'
             /\ \A a \in Cas : crls[a] \subseteq crls'[a]
  BY <1>1 DEF CommitCrl, TypeOK
<1>2. ASSUME NEW w \in Workers, RevokeCommit(w)
      PROVE  revocations \subseteq revocations' /\ UNCHANGED crls
  BY <1>2 DEF RevokeCommit
<1>3. CASE ~(\E p \in Procs : CommitCrl(p)) /\ ~(\E w \in Workers : RevokeCommit(w))
  <2>1. UNCHANGED <<revocations, crls>>
    BY <1>3 DEF Next, vars, WorkerStep, RefreshStep, IssueBegin, RenewBegin, RevokeBegin,
       IssueCommit, IssueRefused, LogIssue, RevokeConflict, LoadCa, LogRevoke, BuildCrl,
       SkipCrl, RefreshDone, RefreshAllBegin, CommitFails, ToggleRoot, Restart, db
  <2>2. QED BY <2>1
<1>4. QED BY <1>1, <1>2, <1>3

\* What other threads do does not take away what a thread has done.
LEMMA OwnFrame ==
    ASSUME TypeOK, [Next]_vars, NEW v \in Workers, Own(v), Same(v) \/ Away(v)
    PROVE  Own(v)'
<1>1. revocations \subseteq revocations' /\ crls[Intermediate] \subseteq crls'[Intermediate]
  BY RowsStay, ConstantsAssumption
<1>2. QED BY <1>1 DEF Own, Same, Away, RefreshSteps, Stored

\* Which threads a step moves through a refresh: none but the one that takes it.
LEMMA OthersSame ==
    ASSUME TypeOK, [Next]_vars, NEW v \in Procs
    PROVE  \/ Same(v)
           \/ Away(v)
           \/ v \in Workers /\ (RevokeCommit(v) \/ LoadCa(v))
           \/ v = Job /\ RefreshAllBegin
           \/ \E a \in Cas : BuildCrl(v, a) \/ SkipCrl(v, a)
           \/ CommitCrl(v)
           \/ v # Job /\ RefreshDone(v)
<1> USE ConstantsAssumption DEF Procs
<1> DEFINE Goal == Same(v) \/ Away(v)
<1>a. ASSUME NEW P, Finish(P) PROVE Goal
  BY <1>a DEF Finish, Close, Same, Away, RefreshSteps
<1>b. ASSUME NEW w \in Workers, Fail(w) PROVE Goal
  BY <1>b DEF Fail, Close, Goto, Same, Away, RefreshSteps, TypeOK
<1>1. ASSUME NEW w \in Workers,
             \/ IssueBegin(w)
             \/ \E c \in Certs : RenewBegin(w, c) \/ RevokeBegin(w, c) \/ IssueCommit(w, c)
      PROVE  Goal
  BY <1>1 DEF IssueBegin, RenewBegin, RevokeBegin, IssueCommit, Goto, Same, Away,
     RefreshSteps, TypeOK
<1>2. ASSUME NEW w \in Workers, IssueRefused(w) \/ LogRevoke(w) PROVE Goal
  BY <1>2, <1>a DEF IssueRefused, LogRevoke
<1>3. ASSUME NEW w \in Workers, LogIssue(w) PROVE Goal
  <2>1. CASE target[w] # NoCert /\ seen[w] = "valid"
    BY <1>3, <2>1 DEF LogIssue, Goto, Same, Away, RefreshSteps, TypeOK, locals
  <2>2. CASE ~(target[w] # NoCert /\ seen[w] = "valid")
    BY <1>3, <2>2, <1>a DEF LogIssue
  <2>3. QED BY <2>1, <2>2
<1>4. ASSUME NEW w \in Workers, RevokeConflict(w) PROVE Goal
  BY <1>4, <1>b DEF RevokeConflict
<1>5. ASSUME NEW p \in Procs, CommitFails(p) PROVE Goal
  BY <1>5, <1>a, <1>b DEF CommitFails
<1>6. ASSUME Restart PROVE Goal
  BY <1>6, <1>a DEF Restart
<1>7. ASSUME ToggleRoot \/ UNCHANGED vars PROVE Goal
  BY <1>7 DEF ToggleRoot, vars, locals, Same
<1>8. ASSUME NEW w \in Workers \ {v}, RevokeCommit(w) \/ LoadCa(w) PROVE Goal
  BY <1>8 DEF RevokeCommit, LoadCa, Goto, Same, TypeOK, locals
<1>9. ASSUME v # Job, RefreshAllBegin PROVE Goal
  BY <1>9 DEF RefreshAllBegin, Goto, Same, TypeOK
<1>10. ASSUME NEW p \in Procs \ {v},
              \E a \in Cas : BuildCrl(p, a) \/ SkipCrl(p, a)
       PROVE  Goal
  BY <1>10 DEF BuildCrl, SkipCrl, Goto, Same, TypeOK
<1>11. ASSUME NEW p \in Procs \ {v}, CommitCrl(p) PROVE Goal
  BY <1>11 DEF CommitCrl, Goto, Same, TypeOK
<1>12. ASSUME NEW p \in Procs \ {v}, p # Job, RefreshDone(p) PROVE Goal
  BY <1>12 DEF RefreshDone, Close, Goto, Same, TypeOK
<1>13. ASSUME NEW p \in Procs, p = Job, RefreshDone(p) PROVE Goal
  BY <1>13, <1>a DEF RefreshDone
<1> HIDE DEF Goal
<1>14. QED
  <2>1. \/ Goal
        \/ \E w \in Workers : RevokeCommit(w) \/ LoadCa(w)
        \/ RefreshAllBegin
        \/ \E p \in Procs : \E a \in Cas : BuildCrl(p, a) \/ SkipCrl(p, a)
        \/ \E p \in Procs : CommitCrl(p)
        \/ \E p \in Procs : p # Job /\ RefreshDone(p)
    <3>1. ASSUME NEW w \in Workers, WorkerStep(w)
          PROVE  Goal \/ RevokeCommit(w) \/ LoadCa(w)
      BY <3>1, <1>1, <1>2, <1>3, <1>4 DEF WorkerStep
    <3>2. ASSUME NEW p \in Procs, RefreshStep(p)
          PROVE  \/ Goal
                 \/ \E a \in Cas : BuildCrl(p, a) \/ SkipCrl(p, a)
                 \/ CommitCrl(p)
                 \/ p # Job /\ RefreshDone(p)
      BY <3>2, <1>13 DEF RefreshStep
    <3>3. CASE Next
      <4>1. ASSUME NEW w \in Workers,
                   \/ IssueBegin(w)
                   \/ \E c \in Certs : RenewBegin(w, c) \/ RevokeBegin(w, c)
            PROVE  Goal
        BY <4>1, <1>1
      <4>2. ASSUME NEW p \in Procs, RefreshStep(p) \/ CommitFails(p)
            PROVE  \/ Goal
                   \/ \E a \in Cas : BuildCrl(p, a) \/ SkipCrl(p, a)
                   \/ CommitCrl(p)
                   \/ p # Job /\ RefreshDone(p)
        BY <4>2, <1>5, <3>2
      <4>3. QED BY <3>3, <4>1, <4>2, <1>6, <1>7, <3>1 DEF Next
    <3>4. QED BY <3>3, <1>7
  <2>2. QED BY <2>1, <1>8, <1>9, <1>10, <1>11, <1>12 DEF Goal

\* No thread is in a refresh at the start.
LEMMA OwnInit == Init => OwnInv
<1>1. ASSUME Init, NEW w \in Workers PROVE Own(w)
  BY <1>1 DEF Init, Own, RefreshSteps, Procs
<1>2. QED BY <1>1, LedgerInit DEF OwnInv

\* Every step keeps what each revoking request has done so far: the commit of
\* the revocation comes before the rows of the CRL are read.
LEMMA OwnStep ==
    ASSUME OwnInv, [Next]_vars
    PROVE  OwnInv'
<1> USE ConstantsAssumption DEF Procs
<1>0. LedgerInv /\ LedgerInv' /\ TypeOK /\ TypeOK' /\ LedgerConsistent
  BY LedgerStep DEF OwnInv, LedgerInv
<1> SUFFICES ASSUME NEW v \in Workers, Own(v)
             PROVE  Own(v)'
  BY <1>0 DEF OwnInv
<1>1. CASE Same(v) \/ Away(v)
  BY <1>0, <1>1, OwnFrame
<1>2. CASE RevokeCommit(v)
  BY <1>0, <1>2 DEF TypeOK, RevokeCommit, Goto, Own, RefreshSteps, locals
<1>3. CASE LoadCa(v)
  BY <1>0, <1>3 DEF TypeOK, LoadCa, Goto, Own, RefreshSteps, db
<1>4. ASSUME NEW a \in Cas, BuildCrl(v, a) PROVE Own(v)'
  <2>1. a = Intermediate /\ target[v] \in revocations /\ todo[v] = {Intermediate}
    BY <1>4 DEF BuildCrl, Own, RefreshSteps
  <2>2. target[v] \in RevokedBy(a)
    BY <1>0, <2>1 DEF RevokedBy, LedgerConsistent, Revoked
  <2>3. QED
    BY <1>0, <1>4, <2>1, <2>2 DEF TypeOK, BuildCrl, Goto, Own, RefreshSteps, db
<1>5. ASSUME NEW a \in Cas, SkipCrl(v, a) PROVE Own(v)'
  BY <1>5 DEF SkipCrl, KeyAvailable, Own
<1>6. CASE CommitCrl(v)
  <2>1. ca[v] = Intermediate /\ todo[v] = {} /\ target[v] \in listing[v]
    BY <1>6 DEF CommitCrl, Own
  <2>2. [number |-> caView[v][ca[v]], listed |-> listing[v]] \in crls'[Intermediate]
    BY <1>0, <1>6, <2>1 DEF TypeOK, CommitCrl
  <2>3. Stored(v)' BY <1>6, <2>1, <2>2 DEF Stored, CommitCrl
  <2>4. pc'[v] = "refresh" /\ todo'[v] = {} /\ target'[v] \in revocations'
    BY <1>0, <1>6, <2>1 DEF TypeOK, CommitCrl, Goto, Own, RefreshSteps
  <2>5. QED BY <2>3, <2>4 DEF Own
<1>7. CASE v # Job /\ RefreshDone(v)
  <2>1. todo[v] = {} /\ pc[v] = "refresh" /\ pc'[v] = "logRevoke"
    BY <1>0, <1>7 DEF TypeOK, RefreshDone, Goto
  <2>2. UNCHANGED <<target, crls, revocations>> BY <1>7 DEF RefreshDone, db
  <2>3. QED BY <2>1, <2>2 DEF Own, Stored, RefreshSteps
<1>8. QED BY <1>0, <1>1, <1>2, <1>3, <1>4, <1>5, <1>6, <1>7, OthersSame

\* A revocation is logged only after a CRL that lists it is stored.
THEOREM OwnCrlAlwaysStored == Spec => []OwnCrlStored
<1>1. OwnInv => OwnCrlStored BY DEF OwnInv, Own, OwnCrlStored, Stored
<1>2. QED BY <1>1, OwnInit, OwnStep, PTL DEF Spec
-----------------------------------------------------------------------------
(* CRL numbers *)

Issued(a, n) == n = 0 \/ \E j \in crls[a] : j.number = n

\* The numbers a thread has read were issued (or 0), and so was the one before
\* the number it is about to commit.
Numbers(p) ==
    /\ pc[p] = "refresh" => \A a \in todo[p] : Issued(a, caView[p][a])
    /\ pc[p] = "commitCrl" =>
         /\ \A a \in todo[p] : Issued(a, caView[p][a]) /\ a # ca[p]
         /\ caView[p][ca[p]] >= 1
         /\ Issued(ca[p], caView[p][ca[p]] - 1)

Dense(a) == /\ \A i \in crls[a] : \A n \in 1..i.number : \E j \in crls[a] : j.number = n
            /\ Issued(a, crlNumber[a])

NumberInv == /\ TypeOK
             /\ \A a \in Cas : Dense(a)
             /\ \A p \in Procs : Numbers(p)

\* A number that was issued stays issued: rows of crl_issuances are kept.
LEMMA IssuedStays ==
    ASSUME TypeOK, [Next]_vars, NEW a \in Cas, NEW n, Issued(a, n)
    PROVE  Issued(a, n)'
BY RowsStay DEF Issued

\* At the start a CA has no number, or 1 with its empty CRL.
LEMMA NumberInit == Init => NumberInv
<1> SUFFICES ASSUME Init PROVE NumberInv
  OBVIOUS
<1>1. PICK initial \in SUBSET Cas :
        /\ crlNumber = [a \in Cas |-> IF a \in initial THEN 1 ELSE 0]
        /\ crls = [a \in Cas |-> IF a \in initial
                                 THEN {[number |-> 1, listed |-> {}]} ELSE {}]
  BY DEF Init
<1>2. ASSUME NEW a \in Cas PROVE Dense(a)
  <2>1. CASE a \in initial
    <3>1. crls[a] = {[number |-> 1, listed |-> {}]} /\ crlNumber[a] = 1
      BY <1>1, <2>1
    <3>2. \A n \in 1..1 : n = 1 OBVIOUS
    <3>3. QED BY <3>1, <3>2 DEF Dense, Issued
  <2>2. CASE a \notin initial
    BY <1>1, <2>2 DEF Dense, Issued
  <2>3. QED BY <2>1, <2>2
<1>3. \A p \in Procs : Numbers(p) BY DEF Init, Numbers
<1>4. QED BY <1>2, <1>3, TypeInit DEF NumberInv

\* The number committed follows one that was issued, so it leaves no gap.
LEMMA NumberStep ==
    ASSUME NumberInv, [Next]_vars
    PROVE  NumberInv'
<1> USE ConstantsAssumption DEF Procs
<1>0. TypeOK /\ TypeOK' BY TypeStep DEF NumberInv
<1>1. ASSUME NEW v \in Procs, Numbers(v) PROVE Numbers(v)'
  <2>1. CASE Same(v) \/ Away(v)
    BY <1>0, <1>1, <2>1, IssuedStays DEF Same, Away, Numbers, RefreshSteps, TypeOK
  <2>2. CASE v \in Workers /\ RevokeCommit(v)
    BY <1>0, <2>2 DEF TypeOK, RevokeCommit, Goto, Numbers
  <2>3. CASE v \in Workers /\ LoadCa(v)
    <3>1. /\ pc'[v] = "refresh" /\ todo'[v] = {Intermediate}
          /\ caView'[v][Intermediate] = crlNumber[Intermediate]
          /\ UNCHANGED <<crls, crlNumber>>
      BY <1>0, <2>3 DEF TypeOK, LoadCa, Goto, db
    <3>2. Issued(Intermediate, crlNumber[Intermediate])
      BY DEF NumberInv, Dense
    <3>3. QED BY <3>1, <3>2 DEF Numbers, Issued
  <2>4. CASE v = Job /\ RefreshAllBegin
    <3>1. /\ pc'[v] = "refresh" /\ todo'[v] = Cas /\ caView'[v] = crlNumber
          /\ UNCHANGED crls
      BY <1>0, <2>4 DEF TypeOK, RefreshAllBegin, Goto, db
    <3>2. QED BY <3>1 DEF Numbers, Issued, NumberInv, Dense
  <2>5. ASSUME NEW a \in Cas, BuildCrl(v, a) PROVE Numbers(v)'
    <3>1. /\ pc[v] = "refresh" /\ a \in todo[v] /\ pc'[v] = "commitCrl"
          /\ ca'[v] = a /\ todo'[v] = todo[v] \ {a} /\ UNCHANGED crls
          /\ caView'[v][a] = caView[v][a] + 1
          /\ \A b \in Cas \ {a} : caView'[v][b] = caView[v][b]
      BY <1>0, <2>5 DEF TypeOK, BuildCrl, Goto, db
    <3>2. caView[v][a] \in Nat BY <1>0 DEF TypeOK
    <3>3. todo[v] \subseteq Cas BY <1>0 DEF TypeOK
    <3>4. /\ caView'[v][a] >= 1
          /\ caView'[v][a] - 1 = caView[v][a]
      BY <3>1, <3>2
    <3>5. \A b \in todo[v] : Issued(b, caView[v][b]) BY <1>1, <3>1 DEF Numbers
    <3>6. QED BY <3>1, <3>3, <3>4, <3>5 DEF Numbers, Issued
  <2>6. ASSUME NEW a \in Cas, SkipCrl(v, a) PROVE Numbers(v)'
    BY <1>0, <1>1, <2>6 DEF TypeOK, SkipCrl, Numbers, Issued, db
  <2>7. CASE CommitCrl(v)
    <3>1. /\ pc[v] = "commitCrl" /\ pc'[v] = "refresh"
          /\ todo'[v] = todo[v] /\ caView'[v] = caView[v]
      BY <1>0, <2>7 DEF TypeOK, CommitCrl, Goto
    <3>2. todo[v] \subseteq Cas BY <1>0 DEF TypeOK
    <3>3. QED BY <1>0, <1>1, <3>1, <3>2, IssuedStays DEF Numbers
  <2>8. CASE v # Job /\ RefreshDone(v)
    BY <1>0, <2>8 DEF TypeOK, RefreshDone, Goto, Numbers
  <2>9. QED
    BY <1>0, <2>1, <2>2, <2>3, <2>4, <2>5, <2>6, <2>7, <2>8, OthersSame
<1>2. ASSUME NEW a \in Cas PROVE Dense(a)'
  <2>1. Dense(a) BY DEF NumberInv
  <2>2. ASSUME NEW p \in Procs, CommitCrl(p), ca[p] = a PROVE Dense(a)'
    <3> DEFINE n == caView[p][a]
               row == [number |-> n, listed |-> listing[p]]
    <3>1. crls'[a] = crls[a] \cup {row} /\ crlNumber'[a] = n
      BY <1>0, <2>2 DEF TypeOK, CommitCrl
    <3>2. row.number = n OBVIOUS
    <3>3. n \in Nat /\ n >= 1 /\ Issued(a, n - 1)
      BY <1>0, <2>2 DEF TypeOK, NumberInv, Numbers, CommitCrl
    <3> HIDE DEF n, row
    <3>4. ASSUME NEW m \in 1..n PROVE \E j \in crls'[a] : j.number = m
      <4>1. CASE m = n BY <3>1, <3>2, <4>1
      <4>2. CASE m # n
        <5>1. m \in 1..(n - 1) /\ n - 1 # 0 BY <3>3, <4>2
        <5>2. PICK i \in crls[a] : i.number = n - 1 BY <3>3, <5>1 DEF Issued
        <5>3. QED BY <2>1, <3>1, <5>1, <5>2 DEF Dense
      <4>3. QED BY <4>1, <4>2
    <3>5. \A i \in crls'[a] : \A m \in 1..i.number : \E j \in crls'[a] : j.number = m
      BY <2>1, <3>1, <3>2, <3>4 DEF Dense
    <3>6. \E j \in crls'[a] : j.number = n BY <3>1, <3>2
    <3>7. QED BY <3>1, <3>5, <3>6 DEF Dense, Issued
  <2>3. ASSUME NEW p \in Procs, CommitCrl(p), ca[p] # a PROVE Dense(a)'
    <3>1. crls'[a] = crls[a] /\ crlNumber'[a] = crlNumber[a]
      BY <1>0, <2>3 DEF TypeOK, CommitCrl
    <3>2. QED BY <2>1, <3>1 DEF Dense, Issued
  <2>4. CASE ~ \E p \in Procs : CommitCrl(p)
    <3>1. UNCHANGED <<crlNumber, crls>>
      BY <2>4 DEF Next, vars, WorkerStep, RefreshStep, IssueBegin, RenewBegin, RevokeBegin,
         IssueCommit, IssueRefused, LogIssue, RevokeCommit, RevokeConflict, LoadCa, LogRevoke,
         BuildCrl, SkipCrl, RefreshDone, RefreshAllBegin, CommitFails, ToggleRoot, Restart, db
    <3>2. QED BY <2>1, <3>1 DEF Dense, Issued
  <2>5. QED BY <2>2, <2>3, <2>4
<1>3. QED BY <1>0, <1>1, <1>2 DEF NumberInv

\* No CRL number is ever skipped, and the number a CA's row holds was issued.
THEOREM NumbersAlwaysDense == Spec => []NumbersDense
<1>1. NumberInv => NumbersDense BY DEF NumberInv, NumbersDense, Dense, Issued
<1>2. QED BY <1>1, NumberInit, NumberStep, PTL DEF Spec

-----------------------------------------------------------------------------
(* What requests owe, and the audit log *)

\* The request has issued c, or revoked it, and will log that.
OwesIssue(w, c) == pc[w] = "logIssue" /\ fresh[w] = c
OwesRevoke(w, c) == pc[w] \in RefreshSteps /\ target[w] = c

\* Where a request is: what it owes follows from it.
Still(w) == pc'[w] = pc[w] /\ target'[w] = target[w] /\ fresh'[w] = fresh[w]
Settled(w) == pc'[w] \notin RefreshSteps \cup {"logIssue"}

\* A step that writes no certificate, no revocation and no audit entry: it takes
\* a thread from one step of its refresh to the next, or out of a step in which
\* it owed nothing, or else it is a fault.
Quiet ==
    /\ UNCHANGED <<status, revocations, audit>>
    /\ \A w \in Workers :
         /\ \/ Still(w) \/ Settled(w)
            \/ pc[w] \in RefreshSteps /\ pc'[w] \in RefreshSteps /\ target'[w] = target[w]
         /\ faults' = 0 /\ pc[w] \in RefreshSteps \cup {"logIssue"} => ~Settled(w)
         /\ target'[w] \in {target[w], NoCert} \/ status[target'[w]] # "absent"
    /\ faults' = 0 => faults = 0

\* A step of one thread that is quiet if that thread's part of it is.
LEMMA OneQuiet ==
    ASSUME NEW w \in Workers, UNCHANGED <<status, revocations, audit, faults>>,
           \A v \in Workers \ {w} : Still(v),
           \/ pc[w] \notin RefreshSteps \cup {"logIssue"} /\ Settled(w)
           \/ pc[w] \in RefreshSteps /\ pc'[w] \in RefreshSteps,
           target'[w] \in {target[w], NoCert} \/ status[target'[w]] # "absent",
           pc[w] \in RefreshSteps => target'[w] = target[w]
    PROVE  Quiet
BY DEF Quiet, Still, Settled, RefreshSteps

\* The others are not touched when threads end.
LEMMA FinishStill ==
    ASSUME TypeOK, NEW P, Finish(P)
    PROVE  /\ \A v \in Workers \ P : Still(v)
           /\ \A v \in Workers \cap P : Settled(v) /\ target'[v] = NoCert
BY DEF Finish, Still, Settled, Procs, RefreshSteps

LEMMA FailStill ==
    ASSUME TypeOK, NEW w \in Workers, Fail(w)
    PROVE  /\ \A v \in Workers \ {w} : Still(v)
           /\ Settled(w) /\ target'[w] = target[w]
BY DEF TypeOK, Fail, Goto, Still, Settled, Procs, RefreshSteps

\* All but four steps are quiet.
LEMMA StepKinds ==
    ASSUME TypeOK, [Next]_vars
    PROVE  \/ \E w \in Workers, c \in Certs : IssueCommit(w, c)
           \/ \E w \in Workers : LogIssue(w) \/ RevokeCommit(w) \/ LogRevoke(w)
           \/ Quiet
<1> USE ConstantsAssumption DEF Procs
<1>0. /\ pc \in [Procs -> WorkerSteps] /\ target \in [Procs -> Certs \cup {NoCert}]
      /\ fresh \in [Procs -> Certs \cup {NoCert}] /\ faults \in Nat
  BY DEF TypeOK
<1>1. ASSUME NEW w \in Workers,
             IssueBegin(w) \/ \E c \in Certs : RenewBegin(w, c) \/ RevokeBegin(w, c)
      PROVE  Quiet
  <2>1. /\ UNCHANGED <<status, revocations, audit, faults>>
        /\ pc[w] \in {"idle", "failed"} /\ pc'[w] \in {"issue", "revoke"}
        /\ \A v \in Workers \ {w} : Still(v)
    BY <1>0, <1>1 DEF IssueBegin, RenewBegin, RevokeBegin, Free, Goto, db, book, Still
  <2>2. target'[w] \in {target[w], NoCert} \/ status[target'[w]] # "absent"
    BY <1>0, <1>1 DEF IssueBegin, RenewBegin, RevokeBegin
  <2>3. QED BY <2>1, <2>2, OneQuiet DEF Settled, RefreshSteps
<1>2. ASSUME NEW w \in Workers, IssueRefused(w) PROVE Quiet
  <2>1. Finish({w}) /\ pc[w] = "issue" /\ UNCHANGED <<status, revocations, audit, faults>>
    BY <1>2 DEF IssueRefused, db, book
  <2>2. QED BY <2>1, FinishStill, OneQuiet DEF RefreshSteps
<1>3. ASSUME NEW w \in Workers, RevokeConflict(w) PROVE Quiet
  <2>1. Fail(w) /\ pc[w] = "revoke" /\ UNCHANGED <<status, revocations, audit, faults>>
    BY <1>3 DEF RevokeConflict, db, book
  <2>2. QED BY <2>1, FailStill, OneQuiet DEF RefreshSteps
<1>4. ASSUME NEW w \in Workers, LoadCa(w) PROVE Quiet
  <2>1. /\ UNCHANGED <<status, revocations, audit, faults>> /\ target'[w] = target[w]
        /\ pc[w] = "loadCa" /\ pc'[w] = "refresh" /\ \A v \in Workers \ {w} : Still(v)
    BY <1>0, <1>4 DEF LoadCa, Goto, db, book, Still
  <2>2. QED BY <2>1, OneQuiet DEF RefreshSteps
<1>5. ASSUME NEW w \in Workers,
             (\E a \in Cas : BuildCrl(w, a) \/ SkipCrl(w, a)) \/ CommitCrl(w) \/ RefreshDone(w)
      PROVE  Quiet
  <2>1. /\ UNCHANGED <<status, revocations, audit, faults>> /\ target'[w] = target[w]
        /\ pc[w] \in RefreshSteps /\ pc'[w] \in RefreshSteps /\ \A v \in Workers \ {w} : Still(v)
    BY <1>0, <1>5 DEF BuildCrl, SkipCrl, CommitCrl, RefreshDone, Goto, db, book, Still, RefreshSteps
  <2>2. QED BY <2>1, OneQuiet
\* The job owes nothing.
<1>6. ASSUME UNCHANGED <<status, revocations, audit, faults>>, \A v \in Workers : Still(v)
      PROVE  Quiet
  BY <1>6 DEF Quiet, Still, Settled
<1>7. ASSUME (\E a \in Cas : BuildCrl(Job, a) \/ SkipCrl(Job, a)) \/ CommitCrl(Job) \/ RefreshAllBegin
      PROVE  Quiet
  <2>1. UNCHANGED <<status, revocations, audit, faults>> /\ \A v \in Workers : Still(v)
    BY <1>0, <1>7 DEF BuildCrl, SkipCrl, CommitCrl, RefreshAllBegin, Goto, db, book, Still
  <2>2. QED BY <1>6, <2>1
<1>8. ASSUME RefreshDone(Job) PROVE Quiet
  <2>1. Finish({Job}) /\ UNCHANGED <<status, revocations, audit, faults>>
    BY <1>8 DEF RefreshDone, db, book
  <2>2. QED BY <1>6, <2>1, FinishStill
<1>9. ASSUME NEW p \in Procs, CommitFails(p) PROVE Quiet
  <2>1. /\ UNCHANGED <<status, revocations, audit>> /\ faults' # 0
        /\ \A v \in Workers : Still(v) \/ (Settled(v) /\ target'[v] \in {target[v], NoCert})
    BY <1>0, <1>9, FinishStill, FailStill DEF CommitFails, db
  <2>2. QED BY <2>1 DEF Quiet, Still
<1>10. ASSUME Restart PROVE Quiet
  <2>1. /\ UNCHANGED <<status, revocations, audit>> /\ faults' # 0
        /\ \A v \in Workers : Settled(v) /\ target'[v] = NoCert
    BY <1>0, <1>10, FinishStill DEF Restart, db
  <2>2. QED BY <2>1 DEF Quiet
<1>11. ASSUME ToggleRoot \/ UNCHANGED vars PROVE Quiet
  BY <1>6, <1>11 DEF ToggleRoot, vars, db, book, locals, Still
<1>12. ASSUME NEW w \in Workers, RefreshStep(w) PROVE Quiet BY <1>5, <1>12 DEF RefreshStep
<1>13. ASSUME RefreshStep(Job) PROVE Quiet BY <1>7, <1>8, <1>13 DEF RefreshStep
<1>14. QED
  BY <1>1, <1>2, <1>3, <1>4, <1>7, <1>9, <1>10, <1>11, <1>12, <1>13 DEF Next, WorkerStep

\* Nothing is logged twice, and as long as nothing fails what is not logged is
\* owed by one request.
IssueAccount(c) ==
    /\ audit["cert.issue"][c] <= 1
    /\ status[c] = "absent" => audit["cert.issue"][c] = 0
    /\ \A w \in Workers : OwesIssue(w, c) =>
         /\ status[c] # "absent" /\ audit["cert.issue"][c] = 0
         /\ \A v \in Workers : OwesIssue(v, c) => v = w
    /\ faults = 0 /\ status[c] # "absent" /\ audit["cert.issue"][c] = 0
         => \E w \in Workers : OwesIssue(w, c)

RevokeAccount(c) ==
    /\ audit["cert.revoke"][c] <= 1
    /\ c \notin revocations => audit["cert.revoke"][c] = 0
    /\ \A w \in Workers : OwesRevoke(w, c) =>
         /\ c \in revocations /\ audit["cert.revoke"][c] = 0
         /\ \A v \in Workers : OwesRevoke(v, c) => v = w
    /\ faults = 0 /\ c \in revocations /\ audit["cert.revoke"][c] = 0
         => \E w \in Workers : OwesRevoke(w, c)

\* What a request has been asked to revoke is there.
TargetExists(w) == target[w] \in Certs => status[target[w]] # "absent"

AuditInv ==
    /\ LedgerInv
    /\ \A c \in Certs : IssueAccount(c) /\ RevokeAccount(c)
    /\ \A w \in Workers : TargetExists(w)

LEMMA AuditInit == Init => AuditInv
<1> SUFFICES ASSUME Init PROVE AuditInv OBVIOUS
<1> USE ConstantsAssumption DEF Init, Procs
<1>1. \A c \in Certs : IssueAccount(c) BY DEF IssueAccount, OwesIssue
<1>2. \A c \in Certs : RevokeAccount(c) BY DEF RevokeAccount, OwesRevoke, RefreshSteps
<1>3. \A w \in Workers : TargetExists(w) BY DEF TargetExists
<1>4. QED BY <1>1, <1>2, <1>3, LedgerInit DEF AuditInv

\* A quiet step owes no more than before, and no less unless it is a fault.
LEMMA QuietOwes ==
    ASSUME Quiet, NEW w \in Workers, NEW c
    PROVE  /\ OwesIssue(w, c)' => OwesIssue(w, c)
           /\ OwesRevoke(w, c)' => OwesRevoke(w, c)
           /\ faults' = 0 => /\ OwesIssue(w, c) => OwesIssue(w, c)'
                             /\ OwesRevoke(w, c) => OwesRevoke(w, c)'
<1>1. CASE Still(w) BY <1>1 DEF Still, OwesIssue, OwesRevoke
<1>2. CASE Settled(w) BY <1>2 DEF Quiet, Settled, OwesIssue, OwesRevoke
<1>3. CASE pc[w] \in RefreshSteps /\ pc'[w] \in RefreshSteps /\ target'[w] = target[w]
  BY <1>3 DEF OwesIssue, OwesRevoke, RefreshSteps
<1>4. QED BY <1>1, <1>2, <1>3 DEF Quiet

LEMMA QuietAudit ==
    ASSUME AuditInv, Quiet, LedgerInv'
    PROVE  AuditInv'
<1>0. UNCHANGED <<status, revocations, audit>> /\ (faults' = 0 => faults = 0) BY DEF Quiet
<1>1. ASSUME NEW c \in Certs PROVE IssueAccount(c)' /\ RevokeAccount(c)'
  <2>1. IssueAccount(c) /\ RevokeAccount(c) BY DEF AuditInv
  <2>2. \A w \in Workers :
          /\ OwesIssue(w, c)' => OwesIssue(w, c)
          /\ OwesRevoke(w, c)' => OwesRevoke(w, c)
          /\ faults' = 0 => /\ OwesIssue(w, c) => OwesIssue(w, c)'
                            /\ OwesRevoke(w, c) => OwesRevoke(w, c)'
    BY QuietOwes
  <2>3. IssueAccount(c)' BY <1>0, <2>1, <2>2 DEF IssueAccount
  <2>4. RevokeAccount(c)' BY <1>0, <2>1, <2>2 DEF RevokeAccount
  <2>5. QED BY <2>3, <2>4
<1>2. ASSUME NEW w \in Workers PROVE TargetExists(w)'
  <2>1. TargetExists(w) BY DEF AuditInv
  <2>2. target'[w] \in {target[w], NoCert} \/ status[target'[w]] # "absent" BY DEF Quiet
  <2>3. QED BY <1>0, <2>1, <2>2, ConstantsAssumption DEF TargetExists
<1>3. QED BY <1>1, <1>2 DEF AuditInv

\* Where one thread moves, the others owe what they did.
LEMMA StillOwes ==
    ASSUME NEW v \in Workers, Still(v), NEW c
    PROVE  /\ OwesIssue(v, c)' = OwesIssue(v, c)
           /\ OwesRevoke(v, c)' = OwesRevoke(v, c)
BY DEF Still, OwesIssue, OwesRevoke

\* Each of the four steps that write changes the accounts of one certificate.
LEMMA AuditStep ==
    ASSUME AuditInv, [Next]_vars
    PROVE  AuditInv'
<1> USE ConstantsAssumption DEF Procs
<1>0. /\ LedgerInv' /\ TypeOK /\ LedgerConsistent
      /\ \A c \in Certs : IssueAccount(c) /\ RevokeAccount(c)
      /\ \A w \in Workers : TargetExists(w)
  BY LedgerStep DEF AuditInv, LedgerInv
<1>t. /\ status \in [Certs -> {"absent", "valid", "revoked"}]
      /\ audit \in [{"cert.issue", "cert.revoke"} -> [Certs -> Nat]]
      /\ pc \in [Procs -> WorkerSteps] /\ target \in [Procs -> Certs \cup {NoCert}]
      /\ fresh \in [Procs -> Certs \cup {NoCert}]
      /\ \A w \in Workers :
           /\ pc[w] \in {"revoke", "loadCa", "refresh", "commitCrl", "logRevoke"} => target[w] \in Certs
           /\ pc[w] = "logIssue" => fresh[w] \in Certs
  BY <1>0 DEF TypeOK
<1>1. ASSUME NEW w \in Workers, NEW c \in Certs, IssueCommit(w, c) PROVE AuditInv'
  <2>1. /\ status[c] = "absent" /\ status' = [status EXCEPT ![c] = "valid"]
        /\ pc[w] = "issue" /\ pc'[w] = "logIssue" /\ fresh'[w] = c /\ target'[w] = target[w]
        /\ UNCHANGED <<revocations, audit, faults>> /\ \A v \in Workers \ {w} : Still(v)
    BY <1>t, <1>1 DEF IssueCommit, Goto, book, Still
  <2>2. \A v \in Workers \ {w} : \A d : /\ OwesIssue(v, d)' = OwesIssue(v, d)
                                        /\ OwesRevoke(v, d)' = OwesRevoke(v, d)
    BY <2>1, StillOwes
  <2>3. \A d : /\ OwesIssue(w, d)' <=> d = c
               /\ ~OwesIssue(w, d) /\ ~OwesRevoke(w, d) /\ ~OwesRevoke(w, d)'
    BY <2>1 DEF OwesIssue, OwesRevoke, RefreshSteps
  <2>4. ASSUME NEW d \in Certs PROVE IssueAccount(d)'
    <3>1. IssueAccount(d) BY <1>0
    <3>2. CASE d = c BY <1>t, <2>1, <2>2, <2>3, <3>1, <3>2 DEF IssueAccount
    <3>3. CASE d # c
      <4>1. status'[d] = status[d] BY <1>t, <2>1, <3>3
      <4>2. QED BY <2>1, <2>2, <2>3, <3>1, <3>3, <4>1 DEF IssueAccount
    <3>4. QED BY <3>2, <3>3
  <2>5. ASSUME NEW d \in Certs PROVE RevokeAccount(d)'
    BY <1>0, <2>1, <2>2, <2>3 DEF RevokeAccount
  <2>6. ASSUME NEW v \in Workers PROVE TargetExists(v)'
    BY <1>0, <1>t, <2>1 DEF TargetExists, Still
  <2>7. QED BY <1>0, <2>4, <2>5, <2>6 DEF AuditInv
<1>2. ASSUME NEW w \in Workers, LogIssue(w) PROVE AuditInv'
  <2>0. PICK c \in Certs : c = fresh[w] BY <1>t, <1>2 DEF LogIssue
  <2>1. /\ pc[w] = "logIssue" /\ c \in Certs
        /\ audit' = [audit EXCEPT !["cert.issue"][c] = @ + 1]
        /\ UNCHANGED <<status, revocations, faults>>
    BY <1>t, <1>2, <2>0 DEF LogIssue, book
  <2>2. /\ \A v \in Workers \ {w} : Still(v)
        /\ pc'[w] \in {"revoke", "idle"} /\ target'[w] \in {target[w], NoCert}
    <3>1. CASE target[w] # NoCert /\ seen[w] = "valid"
      BY <1>t, <1>2, <3>1 DEF LogIssue, Goto, locals, Still
    <3>2. CASE ~(target[w] # NoCert /\ seen[w] = "valid")
      <4>1. Finish({w}) BY <1>2, <3>2 DEF LogIssue
      <4>2. pc'[w] = "idle" BY <4>1 DEF Finish
      <4>3. QED BY <1>0, <4>1, <4>2, FinishStill
    <3>3. QED BY <3>1, <3>2
  <2>3. \A v \in Workers \ {w} : \A d : /\ OwesIssue(v, d)' = OwesIssue(v, d)
                                        /\ OwesRevoke(v, d)' = OwesRevoke(v, d)
    BY <2>2, StillOwes
  <2>4. \A d : /\ OwesIssue(w, d) <=> d = c
               /\ ~OwesIssue(w, d)' /\ ~OwesRevoke(w, d) /\ ~OwesRevoke(w, d)'
    BY <2>0, <2>1, <2>2 DEF OwesIssue, OwesRevoke, RefreshSteps
  <2>5. ASSUME NEW d \in Certs PROVE IssueAccount(d)'
    <3>1. IssueAccount(d) BY <1>0
    <3>2. CASE d = c
      <4>1. audit["cert.issue"][c] = 0 /\ status[c] # "absent" BY <2>4, <3>1, <3>2 DEF IssueAccount
      <4>2. audit'["cert.issue"][c] = 1 BY <1>t, <2>1, <4>1
      <4>3. \A v \in Workers : ~OwesIssue(v, c)'
        <5>1. IssueAccount(c) /\ OwesIssue(w, c) /\ ~OwesIssue(w, c)' BY <1>0, <2>1, <2>4
        <5>2. ASSUME NEW v \in Workers \ {w} PROVE ~OwesIssue(v, c)'
          <6>1. OwesIssue(v, c)' = OwesIssue(v, c) BY <2>3
          <6>2. ~OwesIssue(v, c) BY <5>1 DEF IssueAccount
          <6>3. QED BY <6>1, <6>2
        <5>3. QED BY <5>1, <5>2
      <4>4. IssueAccount(c)' BY <2>1, <4>1, <4>2, <4>3 DEF IssueAccount
      <4>5. QED BY <3>2, <4>4
    <3>3. CASE d # c
      <4>1. audit'["cert.issue"][d] = audit["cert.issue"][d] BY <1>t, <2>1, <3>3
      <4>2. QED BY <2>1, <2>3, <2>4, <3>1, <3>3, <4>1 DEF IssueAccount
    <3>4. QED BY <3>2, <3>3
  <2>6. ASSUME NEW d \in Certs PROVE RevokeAccount(d)'
    <3>1. audit'["cert.revoke"][d] = audit["cert.revoke"][d] BY <1>t, <2>1
    <3>2. QED BY <1>0, <2>1, <2>3, <2>4, <3>1 DEF RevokeAccount
  <2>7. ASSUME NEW v \in Workers PROVE TargetExists(v)'
    BY <1>0, <2>1, <2>2 DEF TargetExists, Still
  <2>8. QED BY <1>0, <2>5, <2>6, <2>7 DEF AuditInv
<1>3. ASSUME NEW w \in Workers, RevokeCommit(w) PROVE AuditInv'
  <2>0. PICK c \in Certs : c = target[w] BY <1>t, <1>3 DEF RevokeCommit
  <2>1. /\ pc[w] = "revoke" /\ pc'[w] = "loadCa" /\ target'[w] = target[w]
        /\ c \in Certs /\ c \notin revocations
        /\ status' = [status EXCEPT ![c] = "revoked"]
        /\ revocations' = revocations \cup {c}
        /\ UNCHANGED <<audit, faults>> /\ \A v \in Workers \ {w} : Still(v)
    BY <1>t, <1>3, <2>0 DEF RevokeCommit, Goto, locals, book, Still
  <2>2. \A v \in Workers \ {w} : \A d : /\ OwesIssue(v, d)' = OwesIssue(v, d)
                                        /\ OwesRevoke(v, d)' = OwesRevoke(v, d)
    BY <2>1, StillOwes
  <2>3. \A d : /\ OwesRevoke(w, d)' <=> d = c
               /\ ~OwesRevoke(w, d) /\ ~OwesIssue(w, d) /\ ~OwesIssue(w, d)'
    BY <2>0, <2>1 DEF OwesIssue, OwesRevoke, RefreshSteps
  <2>c. status[c] # "absent" BY <1>0, <2>0, <2>1 DEF TargetExists
  <2>4. ASSUME NEW d \in Certs PROVE IssueAccount(d)'
    <3>1. status'[d] = "absent" <=> status[d] = "absent" BY <1>t, <2>1, <2>c
    <3>2. QED BY <1>0, <2>1, <2>2, <2>3, <3>1 DEF IssueAccount
  <2>5. ASSUME NEW d \in Certs PROVE RevokeAccount(d)'
    <3>1. RevokeAccount(d) BY <1>0
    <3>2. CASE d = c BY <1>t, <2>1, <2>2, <2>3, <3>1, <3>2 DEF RevokeAccount
    <3>3. CASE d # c BY <2>1, <2>2, <2>3, <3>1, <3>3 DEF RevokeAccount
    <3>4. QED BY <3>2, <3>3
  <2>6. ASSUME NEW v \in Workers PROVE TargetExists(v)'
    BY <1>0, <1>t, <2>1 DEF TargetExists, Still
  <2>7. QED BY <1>0, <2>4, <2>5, <2>6 DEF AuditInv
<1>4. ASSUME NEW w \in Workers, LogRevoke(w) PROVE AuditInv'
  <2>0. PICK c \in Certs : c = target[w] BY <1>t, <1>4 DEF LogRevoke
  <2>1. /\ pc[w] = "logRevoke" /\ c \in Certs
        /\ audit' = [audit EXCEPT !["cert.revoke"][c] = @ + 1]
        /\ UNCHANGED <<status, revocations, faults>>
    BY <1>t, <1>4, <2>0 DEF LogRevoke, book
  <2>2. /\ \A v \in Workers \ {w} : Still(v)
        /\ pc'[w] = "idle" /\ target'[w] = NoCert
    <3>1. Finish({w}) BY <1>4 DEF LogRevoke
    <3>2. pc'[w] = "idle" BY <3>1 DEF Finish
    <3>3. QED BY <1>0, <3>1, <3>2, FinishStill
  <2>3. \A v \in Workers \ {w} : \A d : /\ OwesIssue(v, d)' = OwesIssue(v, d)
                                        /\ OwesRevoke(v, d)' = OwesRevoke(v, d)
    BY <2>2, StillOwes
  <2>4. \A d : /\ OwesRevoke(w, d) <=> d = c
               /\ ~OwesRevoke(w, d)' /\ ~OwesIssue(w, d) /\ ~OwesIssue(w, d)'
    BY <2>0, <2>1, <2>2 DEF OwesIssue, OwesRevoke, RefreshSteps
  <2>5. ASSUME NEW d \in Certs PROVE RevokeAccount(d)'
    <3>1. RevokeAccount(d) BY <1>0
    <3>2. CASE d = c
      <4>1. audit["cert.revoke"][c] = 0 /\ c \in revocations BY <2>4, <3>1, <3>2 DEF RevokeAccount
      <4>2. audit'["cert.revoke"][c] = 1 BY <1>t, <2>1, <4>1
      <4>3. \A v \in Workers : ~OwesRevoke(v, c)'
        <5>1. RevokeAccount(c) /\ OwesRevoke(w, c) /\ ~OwesRevoke(w, c)' BY <1>0, <2>1, <2>4
        <5>2. ASSUME NEW v \in Workers \ {w} PROVE ~OwesRevoke(v, c)'
          <6>1. OwesRevoke(v, c)' = OwesRevoke(v, c) BY <2>3
          <6>2. ~OwesRevoke(v, c) BY <5>1 DEF RevokeAccount
          <6>3. QED BY <6>1, <6>2
        <5>3. QED BY <5>1, <5>2
      <4>4. RevokeAccount(c)' BY <2>1, <4>1, <4>2, <4>3 DEF RevokeAccount
      <4>5. QED BY <3>2, <4>4
    <3>3. CASE d # c
      <4>1. audit'["cert.revoke"][d] = audit["cert.revoke"][d] BY <1>t, <2>1, <3>3
      <4>2. QED BY <2>1, <2>3, <2>4, <3>1, <3>3, <4>1 DEF RevokeAccount
    <3>4. QED BY <3>2, <3>3
  <2>6. ASSUME NEW d \in Certs PROVE IssueAccount(d)'
    <3>1. audit'["cert.issue"][d] = audit["cert.issue"][d] BY <1>t, <2>1
    <3>2. QED BY <1>0, <2>1, <2>3, <2>4, <3>1 DEF IssueAccount
  <2>7. ASSUME NEW v \in Workers PROVE TargetExists(v)'
    BY <1>0, <2>1, <2>2 DEF TargetExists, Still
  <2>8. QED BY <1>0, <2>5, <2>6, <2>7 DEF AuditInv
<1>5. QED BY <1>0, <1>1, <1>2, <1>3, <1>4, StepKinds, QuietAudit

\* Issuing and revoking leave one audit entry each, never two, and none is missing
\* while nothing has failed but the one a request is about to write: renewals,
\* whose revocation comes after another request's, included.
THEOREM AuditAlwaysComplete == Spec => []AuditComplete
<1>1. AuditInv => AuditComplete
  <2> SUFFICES ASSUME AuditInv, NEW c \in Certs
               PROVE  AuditComplete!(c)
    BY DEF AuditComplete
  <2>1. IssueAccount(c) /\ RevokeAccount(c) /\ LedgerConsistent BY DEF AuditInv, LedgerInv
  <2>2. status[c] = "revoked" => c \in revocations BY <2>1 DEF LedgerConsistent, Revoked
  <2>3. QED BY <2>1, <2>2 DEF IssueAccount, RevokeAccount, OwesIssue, OwesRevoke, RefreshSteps
<1>2. AuditInv /\ [Next]_vars => AuditInv' BY AuditStep
<1>3. QED BY <1>1, <1>2, AuditInit, PTL DEF Spec

-----------------------------------------------------------------------------
(* What goes missing from the served CRL *)

Ordered == \A i, j \in crls[Intermediate] : i.number < j.number => i.listed \subseteq j.listed

\* The CRL that a thread is about to publish lists what those with a lower
\* number do.
AheadOf(p) ==
    pc[p] = "commitCrl" /\ ca[p] = Intermediate =>
      \A i \in crls[Intermediate] : i.number < caView[p][Intermediate] => i.listed \subseteq listing[p]

\* A revocation is in some CRL, or its request is on the way there.
Covered(c) ==
    \/ \E i \in crls[Intermediate] : c \in i.listed
    \/ \E w \in Workers : OwesRevoke(w, c)

StaleInv ==
    /\ OwnInv
    /\ NumberInv
    /\ NumbersUnique(Intermediate) => Ordered /\ \A p \in Procs : AheadOf(p)
    /\ faults = 0 => \A c \in revocations : Covered(c)

LEMMA StaleInit == Init => StaleInv
<1> SUFFICES ASSUME Init PROVE StaleInv OBVIOUS
<1>1. \A i \in crls[Intermediate] : i = [number |-> 1, listed |-> {}]
  BY ConstantsAssumption DEF Init
<1>2. Ordered BY <1>1 DEF Ordered
<1>3. \A p \in Procs : AheadOf(p) BY DEF Init, AheadOf
<1>4. revocations = {} BY DEF Init
<1>5. QED BY <1>2, <1>3, <1>4, OwnInit, NumberInit DEF StaleInv

\* A new CRL is one that a thread has signed.
LEMMA NewRow ==
    ASSUME NumberInv, [Next]_vars, NEW i \in crls'[Intermediate], i \notin crls[Intermediate]
    PROVE  \E p \in Procs :
             /\ CommitCrl(p) /\ ca[p] = Intermediate
             /\ i = [number |-> caView[p][Intermediate], listed |-> listing[p]]
             /\ i.number \in Nat /\ i.number >= 1
<1> USE ConstantsAssumption DEF NumberInv
<1>1. ASSUME ~ \E p \in Procs : CommitCrl(p) PROVE FALSE
  <2>1. UNCHANGED crls
    BY <1>1 DEF Next, vars, WorkerStep, RefreshStep, IssueBegin, RenewBegin, RevokeBegin,
       IssueCommit, IssueRefused, LogIssue, RevokeCommit, RevokeConflict, LoadCa, LogRevoke,
       BuildCrl, SkipCrl, RefreshDone, RefreshAllBegin, CommitFails, ToggleRoot, Restart, db
  <2>2. QED BY <2>1
<1>2. PICK p \in Procs : CommitCrl(p) BY <1>1
<1>3. ca[p] \in Cas /\ crls \in [Cas -> SUBSET CrlRecord] /\ caView[p] \in [Cas -> Nat]
  BY DEF TypeOK
<1>4. crls' = [crls EXCEPT ![ca[p]] = @ \cup {[number |-> caView[p][ca[p]], listed |-> listing[p]]}]
  BY <1>2 DEF CommitCrl
<1>5. ca[p] = Intermediate BY <1>3, <1>4
<1>6. i = [number |-> caView[p][Intermediate], listed |-> listing[p]] BY <1>3, <1>4, <1>5
<1>7. i.number = caView[p][Intermediate] BY <1>6
<1>8. caView[p][Intermediate] \in Nat /\ caView[p][Intermediate] >= 1
  <2>1. Numbers(p) /\ pc[p] = "commitCrl" BY <1>2 DEF CommitCrl
  <2>2. QED BY <1>3, <1>5, <2>1 DEF Numbers
<1>9. QED BY <1>2, <1>5, <1>6, <1>7, <1>8

\* While numbers are unique, a CRL whose number had been issued was there.
LEMMA IssuedRow ==
    ASSUME NumberInv, [Next]_vars, NumbersUnique(Intermediate)', NEW n \in Nat,
           Issued(Intermediate, n), NEW i \in crls'[Intermediate], i.number <= n
    PROVE  i \in crls[Intermediate]
<1> SUFFICES ASSUME i \notin crls[Intermediate] PROVE FALSE OBVIOUS
<1>1. i.number \in Nat /\ i.number >= 1 BY NewRow
<1>2. PICK j \in crls[Intermediate] : j.number = n BY <1>1 DEF Issued
<1>3. Dense(Intermediate) BY ConstantsAssumption DEF NumberInv
<1>4. i.number \in 1..n BY <1>1
<1>5. PICK k \in crls[Intermediate] : k.number = i.number BY <1>2, <1>3, <1>4 DEF Dense
<1>6. crls[Intermediate] \subseteq crls'[Intermediate]
  BY RowsStay, ConstantsAssumption DEF NumberInv
<1>7. QED BY <1>5, <1>6 DEF NumbersUnique

\* Rows are kept, so numbers that are unique were.
LEMMA UniqueBefore ==
    ASSUME TypeOK, [Next]_vars, NumbersUnique(Intermediate)'
    PROVE  NumbersUnique(Intermediate)
BY RowsStay, ConstantsAssumption DEF NumbersUnique

\* What a thread publishes is in the order of the numbers: the CRLs of a lower
\* number were there when it read the certificates, or would collide.
LEMMA AheadStep ==
    ASSUME StaleInv, [Next]_vars, NumbersUnique(Intermediate)', NEW v \in Procs
    PROVE  AheadOf(v)'
<1> USE ConstantsAssumption
<1>0. /\ TypeOK /\ LedgerConsistent /\ CrlsNested /\ NumberInv /\ AheadOf(v)
  BY UniqueBefore DEF StaleInv, OwnInv, LedgerInv
<1>1. CASE Same(v)
  <2> SUFFICES ASSUME pc[v] = "commitCrl", ca[v] = Intermediate, NEW i \in crls'[Intermediate],
                      i.number < caView[v][Intermediate]
               PROVE  i.listed \subseteq listing[v]
    BY <1>1 DEF AheadOf, Same
  <2> DEFINE n == caView[v][Intermediate]
  <2>1. n \in Nat /\ n >= 1 /\ Issued(Intermediate, n - 1)
    <3>1. Numbers(v) BY <1>0 DEF NumberInv
    <3>2. caView[v][Intermediate] \in Nat BY <1>0 DEF TypeOK
    <3>3. QED BY <3>1, <3>2 DEF Numbers
  <2>2. ASSUME i \notin crls[Intermediate] PROVE FALSE
    <3>1. i.number \in Nat BY <1>0, <2>2, NewRow
    <3>2. n - 1 \in Nat /\ i.number <= n - 1 BY <2>1, <3>1
    <3> HIDE DEF n
    <3>3. QED BY <1>0, <2>1, <2>2, <3>2, IssuedRow
  <2>3. QED BY <1>0, <2>2 DEF AheadOf
<1>2. ASSUME NEW a \in Cas, BuildCrl(v, a) PROVE AheadOf(v)'
  <2>1. /\ UNCHANGED crls /\ ca'[v] = a /\ listing'[v] = RevokedBy(a)
    BY <1>0, <1>2 DEF TypeOK, BuildCrl, db
  <2>2. CASE a = Intermediate
    <3>1. RevokedBy(a) = Revoked BY <1>0, <2>2 DEF LedgerConsistent, RevokedBy, Revoked
    <3>2. \A i \in crls[Intermediate] : i.listed \subseteq Revoked BY <1>0 DEF CrlsNested, Pictures
    <3>3. QED BY <2>1, <3>1, <3>2 DEF AheadOf
  <2>3. CASE a # Intermediate BY <2>1, <2>3 DEF AheadOf
  <2>4. QED BY <2>2, <2>3
<1>3. ASSUME pc'[v] # "commitCrl" PROVE AheadOf(v)' BY <1>3 DEF AheadOf
<1>4. ASSUME \/ Away(v)
             \/ v \in Workers /\ (RevokeCommit(v) \/ LoadCa(v))
             \/ v = Job /\ RefreshAllBegin
             \/ \E a \in Cas : SkipCrl(v, a)
             \/ CommitCrl(v)
             \/ v # Job /\ RefreshDone(v)
      PROVE  pc'[v] # "commitCrl"
  <2>1. pc \in [Procs -> WorkerSteps] BY <1>0 DEF TypeOK
  <2>2. CASE Away(v) BY <2>2 DEF Away, RefreshSteps
  <2>3. CASE v \in Workers /\ (RevokeCommit(v) \/ LoadCa(v))
    BY <2>1, <2>3 DEF RevokeCommit, LoadCa, Goto
  <2>4. CASE v = Job /\ RefreshAllBegin BY <2>1, <2>4 DEF RefreshAllBegin, Goto
  <2>5. CASE \E a \in Cas : SkipCrl(v, a) BY <2>5 DEF SkipCrl
  <2>6. CASE CommitCrl(v) BY <2>1, <2>6 DEF CommitCrl, Goto
  <2>7. CASE v # Job /\ RefreshDone(v) BY <2>1, <2>7 DEF RefreshDone, Goto
  <2>8. QED BY <1>4, <2>2, <2>3, <2>4, <2>5, <2>6, <2>7
<1>5. QED BY <1>0, <1>1, <1>2, <1>3, <1>4, OthersSame

\* A new CRL lists what those of lower numbers list; one of a higher number is
\* there only if this one is too.
LEMMA OrderStep ==
    ASSUME StaleInv, [Next]_vars, NumbersUnique(Intermediate)'
    PROVE  Ordered'
<1> USE ConstantsAssumption
<1>0. /\ TypeOK /\ NumberInv /\ Ordered /\ \A p \in Procs : AheadOf(p)
  BY UniqueBefore DEF StaleInv, NumberInv
<1>1. SUFFICES ASSUME NEW i \in crls'[Intermediate], NEW j \in crls'[Intermediate],
                      i.number < j.number
               PROVE  i.listed \subseteq j.listed
  BY DEF Ordered
<1>2. CASE j \in crls[Intermediate]
  <2>1. j.number \in Nat BY <1>0, <1>2 DEF TypeOK, CrlRecord
  <2>2. Issued(Intermediate, j.number) BY <1>2 DEF Issued
  <2>3. CASE i \in crls[Intermediate] BY <1>0, <1>1, <1>2, <2>3 DEF Ordered
  <2>4. CASE i \notin crls[Intermediate]
    <3>1. i.number \in Nat BY <1>0, <2>4, NewRow
    <3>2. i.number <= j.number BY <1>1, <2>1, <3>1
    <3>3. QED BY <1>0, <2>1, <2>2, <2>4, <3>2, IssuedRow
  <2>5. QED BY <2>3, <2>4
<1>3. CASE j \notin crls[Intermediate]
  <2>1. PICK p \in Procs :
          /\ CommitCrl(p) /\ ca[p] = Intermediate
          /\ j = [number |-> caView[p][Intermediate], listed |-> listing[p]]
          /\ j.number \in Nat /\ j.number >= 1
    BY <1>0, <1>3, NewRow
  <2>2. j.number = caView[p][Intermediate] /\ j.listed = listing[p] /\ pc[p] = "commitCrl"
    BY <2>1 DEF CommitCrl
  <2>3. Numbers(p) BY <1>0 DEF NumberInv
  <2>4. Issued(Intermediate, j.number - 1) BY <2>1, <2>2, <2>3 DEF Numbers
  <2>5. i \in crls[Intermediate]
    <3> SUFFICES ASSUME i \notin crls[Intermediate] PROVE FALSE OBVIOUS
    <3>1. i.number \in Nat BY <1>0, NewRow
    <3>2. j.number - 1 \in Nat /\ i.number <= j.number - 1 BY <1>1, <2>1, <3>1
    <3>3. QED BY <1>0, <2>4, <3>2, IssuedRow
  <2>6. QED BY <1>0, <1>1, <2>1, <2>2, <2>5 DEF AheadOf
<1>4. QED BY <1>2, <1>3

\* A revocation stays covered, and is stored by the time its request ends.
LEMMA CoverStep ==
    ASSUME StaleInv, [Next]_vars, faults' = 0, NEW c \in revocations'
    PROVE  Covered(c)'
<1> USE ConstantsAssumption DEF Procs
<1>0. /\ TypeOK /\ \A w \in Workers : Own(w)
      /\ pc \in [Procs -> WorkerSteps] /\ target \in [Procs -> Certs \cup {NoCert}]
      /\ crls[Intermediate] \subseteq crls'[Intermediate]
  BY RowsStay DEF StaleInv, OwnInv, LedgerInv, TypeOK
<1>1. ASSUME Covered(c), \A w \in Workers : OwesRevoke(w, c) => OwesRevoke(w, c)'
      PROVE  Covered(c)'
  BY <1>0, <1>1 DEF Covered
<1>2. CASE Quiet
  <2>1. c \in revocations /\ faults = 0 BY <1>2 DEF Quiet
  <2>2. Covered(c) BY <2>1 DEF StaleInv
  <2>3. QED BY <1>1, <1>2, <2>2, QuietOwes
<1>3. ASSUME NEW w \in Workers, NEW d \in Certs, IssueCommit(w, d) PROVE Covered(c)'
  <2>1. c \in revocations /\ faults = 0 BY <1>3 DEF IssueCommit, book
  <2>2. Covered(c) BY <2>1 DEF StaleInv
  <2>3. \A v \in Workers : OwesRevoke(v, c) => OwesRevoke(v, c)'
    BY <1>0, <1>3 DEF IssueCommit, Goto, OwesRevoke, RefreshSteps
  <2>4. QED BY <1>1, <2>2, <2>3
<1>4. ASSUME NEW w \in Workers, LogIssue(w) PROVE Covered(c)'
  <2>1. c \in revocations /\ faults = 0 /\ pc[w] = "logIssue" BY <1>4 DEF LogIssue, book
  <2>2. Covered(c) BY <2>1 DEF StaleInv
  <2>3. \A v \in Workers \ {w} : Still(v)
    <3>1. CASE target[w] # NoCert /\ seen[w] = "valid"
      BY <1>0, <1>4, <3>1 DEF LogIssue, Goto, locals, Still
    <3>2. CASE ~(target[w] # NoCert /\ seen[w] = "valid")
      <4>1. Finish({w}) BY <1>4, <3>2 DEF LogIssue
      <4>2. QED BY <1>0, <4>1, FinishStill
    <3>3. QED BY <3>1, <3>2
  <2>4. ~OwesRevoke(w, c) BY <2>1 DEF OwesRevoke, RefreshSteps
  <2>5. QED BY <1>1, <2>2, <2>3, <2>4, StillOwes
<1>5. ASSUME NEW w \in Workers, RevokeCommit(w) PROVE Covered(c)'
  <2>1. /\ c \in revocations \/ c = target[w]
        /\ faults = 0 /\ pc[w] = "revoke" /\ pc'[w] = "loadCa" /\ target' = target
        /\ \A v \in Workers \ {w} : pc'[v] = pc[v]
    BY <1>0, <1>5 DEF RevokeCommit, Goto, locals, book
  <2>2. CASE c = target[w]
    <3>1. OwesRevoke(w, c)' BY <2>1, <2>2 DEF OwesRevoke, RefreshSteps
    <3>2. QED BY <3>1 DEF Covered
  <2>3. CASE c \in revocations
    <3>1. Covered(c) BY <2>1, <2>3 DEF StaleInv
    <3>2. \A v \in Workers : OwesRevoke(v, c) => OwesRevoke(v, c)'
      BY <2>1 DEF OwesRevoke, RefreshSteps
    <3>3. QED BY <1>1, <3>1, <3>2
  <2>4. QED BY <2>1, <2>2, <2>3
<1>6. ASSUME NEW w \in Workers, LogRevoke(w) PROVE Covered(c)'
  <2>1. c \in revocations /\ faults = 0 /\ pc[w] = "logRevoke" /\ Finish({w})
    BY <1>6 DEF LogRevoke, book
  <2>2. Covered(c) BY <2>1 DEF StaleInv
  <2>3. CASE target[w] = c
    <3>1. Stored(w) BY <1>0, <2>1 DEF Own
    <3>2. QED BY <1>0, <2>3, <3>1 DEF Stored, Covered
  <2>4. CASE target[w] # c
    <3>1. ~OwesRevoke(w, c) BY <2>4 DEF OwesRevoke
    <3>2. \A v \in Workers \ {w} : Still(v) BY <1>0, <2>1, FinishStill
    <3>3. QED BY <1>1, <2>2, <3>1, <3>2, StillOwes
  <2>5. QED BY <2>3, <2>4
<1>7. QED BY <1>0, <1>2, <1>3, <1>4, <1>5, <1>6, StepKinds

\* Two CRLs of one number are the only way in which a revocation goes missing from
\* what is served: while numbers are unique they order the CRLs by what they
\* list, and a request that has ended without a fault has stored its revocation.
THEOREM AlwaysStaleOnlyByCollision == Spec => []StaleOnlyByCollision
<1>1. StaleInv /\ [Next]_vars => StaleInv'
  <2> SUFFICES ASSUME StaleInv, [Next]_vars PROVE StaleInv' OBVIOUS
  <2>1. OwnInv' /\ NumberInv' BY OwnStep, NumberStep DEF StaleInv
  <2>2. NumbersUnique(Intermediate)' => Ordered' /\ \A p \in Procs : AheadOf(p)'
    BY AheadStep, OrderStep
  <2>3. faults' = 0 => \A c \in revocations' : Covered(c)' BY CoverStep
  <2>4. QED BY <2>1, <2>2, <2>3 DEF StaleInv
<1>2. StaleInv => StaleOnlyByCollision
  <2> SUFFICES ASSUME StaleInv, NumbersUnique(Intermediate) PROVE StaleOnlyByCollision
    BY DEF StaleOnlyByCollision
  <2>1. Ordered /\ TypeOK BY DEF StaleInv, NumberInv
  <2>2. ASSUME faults = 0, \A w \in Workers : pc[w] \in {"idle", "failed"}
        PROVE  Complete(Intermediate)
    <3> SUFFICES ASSUME NEW i \in Served(Intermediate), NEW c \in RevokedBy(Intermediate)
                 PROVE  c \in i.listed
      BY DEF Complete
    <3>1. c \in revocations BY DEF RevokedBy
    <3>2. \A w \in Workers : ~OwesRevoke(w, c) BY <2>2 DEF OwesRevoke, RefreshSteps
    <3>3. PICK j \in crls[Intermediate] : c \in j.listed
      BY <2>2, <3>1, <3>2 DEF StaleInv, Covered
    <3>4. i \in crls[Intermediate] /\ j.number <= i.number BY DEF Served
    <3>5. i.number \in Nat /\ j.number \in Nat
      BY <2>1, <3>4, ConstantsAssumption DEF TypeOK, CrlRecord
    <3>6. CASE j.number < i.number BY <2>1, <3>3, <3>4, <3>6 DEF Ordered
    <3>7. CASE j.number = i.number BY <3>3, <3>4, <3>7 DEF NumbersUnique
    <3>8. QED BY <3>4, <3>5, <3>6, <3>7
  <2>3. QED BY <2>1, <2>2 DEF StaleOnlyByCollision, Ordered
<1>3. QED BY <1>1, <1>2, StaleInit, PTL DEF Spec
-----------------------------------------------------------------------------
(* Refreshes that do not overlap *)

OneRefresh == \A p, q \in Refreshing : p = q

\* What a thread in a refresh has read of crl_number is what the CA's row holds.
Current(p) ==
    /\ pc[p] = "refresh" => \A a \in todo[p] : caView[p][a] = crlNumber[a]
    /\ pc[p] = "commitCrl" =>
         /\ \A a \in todo[p] : a # ca[p] /\ caView[p][a] = crlNumber[a]
         /\ caView[p][ca[p]] = crlNumber[ca[p]] + 1

\* The number in the CA's row is the highest.
Topmost(a) == \A i \in crls[a] : i.number <= crlNumber[a]

Sequential ==
    /\ OneRefresh
    /\ \A p \in Procs : Current(p)
    /\ \A a \in Cas : Topmost(a) /\ NumbersUnique(a)

SequentialInv == TypeOK /\ (~overlapped => Sequential)

\* Only the beginning of a refresh makes one thread more that refreshes, and that is noted.
LEMMA OneRefreshStays ==
    ASSUME TypeOK, [Next]_vars, ~overlapped', OneRefresh
    PROVE  OneRefresh'
<1> USE ConstantsAssumption DEF Procs
<1>0. pc \in [Procs -> WorkerSteps] BY DEF TypeOK
<1>1. ASSUME NEW w \in Workers, LoadCa(w) PROVE OneRefresh'
  <2>1. Refreshing' \subseteq {w} BY <1>0, <1>1 DEF LoadCa, NoteOverlap, Refreshing, Goto
  <2>2. QED BY <2>1 DEF OneRefresh
<1>2. CASE RefreshAllBegin
  <2>1. Refreshing' \subseteq {Job}
    BY <1>0, <1>2 DEF RefreshAllBegin, NoteOverlap, Refreshing, Goto
  <2>2. QED BY <2>1 DEF OneRefresh
<1>3. CASE ~RefreshAllBegin /\ \A w \in Workers : ~LoadCa(w)
  <2>1. ASSUME NEW v \in Refreshing' PROVE v \in Refreshing
    <3>0. v \in Procs /\ pc'[v] \in {"refresh", "commitCrl"} BY DEF Refreshing
    <3>1. CASE Same(v) BY <3>0, <3>1 DEF Same, Refreshing
    <3>2. ~Away(v) BY <3>0 DEF Away, RefreshSteps
    <3>3. ASSUME v \in Workers, RevokeCommit(v) PROVE FALSE
      BY <1>0, <3>0, <3>3 DEF RevokeCommit, Goto
    <3>4. CASE \/ \E a \in Cas : BuildCrl(v, a) \/ SkipCrl(v, a)
               \/ CommitCrl(v) \/ RefreshDone(v)
      BY <3>0, <3>4 DEF BuildCrl, SkipCrl, CommitCrl, RefreshDone, Refreshing
    <3>5. QED BY <1>3, <3>0, <3>1, <3>2, <3>3, <3>4, OthersSame
  <2>2. QED BY <2>1 DEF OneRefresh
<1>4. QED BY <1>1, <1>2, <1>3

\* What has overlapped has overlapped.
LEMMA OverlapStays ==
    ASSUME [Next]_vars, ~overlapped'
    PROVE  ~overlapped
BY DEF Next, vars, WorkerStep, RefreshStep, IssueBegin, RenewBegin, RevokeBegin,
       IssueCommit, IssueRefused, LogIssue, RevokeCommit, RevokeConflict, LoadCa, LogRevoke,
       BuildCrl, SkipCrl, CommitCrl, RefreshDone, RefreshAllBegin, CommitFails, ToggleRoot,
       Restart, NoteOverlap, book

LEMMA SequentialInit == Init => SequentialInv
<1> SUFFICES ASSUME Init PROVE SequentialInv OBVIOUS
<1>1. PICK initial \in SUBSET Cas :
        /\ crlNumber = [a \in Cas |-> IF a \in initial THEN 1 ELSE 0]
        /\ crls = [a \in Cas |-> IF a \in initial
                                 THEN {[number |-> 1, listed |-> {}]} ELSE {}]
  BY DEF Init
<1>2. ASSUME NEW a \in Cas PROVE Topmost(a) /\ NumbersUnique(a)
  <2>1. CASE a \in initial BY <1>1, <2>1 DEF Topmost, NumbersUnique
  <2>2. CASE a \notin initial BY <1>1, <2>2 DEF Topmost, NumbersUnique
  <2>3. QED BY <2>1, <2>2
<1>3. OneRefresh /\ \A p \in Procs : Current(p) BY DEF Init, OneRefresh, Refreshing, Current
<1>4. QED BY <1>2, <1>3, TypeInit DEF SequentialInv, Sequential

\* A thread's view goes stale only when another thread commits a CRL; and the one
\* that commits takes the next number, which no CRL has.
LEMMA SequentialStep ==
    ASSUME TypeOK, Sequential, [Next]_vars, ~overlapped'
    PROVE  Sequential'
<1> USE ConstantsAssumption DEF Procs
<1>0. TypeOK /\ TypeOK' BY TypeStep
<1>1. OneRefresh' BY OneRefreshStays DEF Sequential
<1>2. CASE ~ \E p \in Procs : CommitCrl(p)
  <2>1. UNCHANGED <<crlNumber, crls>>
    BY <1>0, <1>2 DEF Next, vars, WorkerStep, RefreshStep, IssueBegin, RenewBegin, RevokeBegin,
       IssueCommit, IssueRefused, LogIssue, RevokeCommit, RevokeConflict, LoadCa, LogRevoke,
       BuildCrl, SkipCrl, RefreshDone, RefreshAllBegin, CommitFails, ToggleRoot, Restart, db
  <2>2. ASSUME NEW v \in Procs PROVE Current(v)'
    <3>0. Current(v) /\ todo[v] \subseteq Cas /\ caView[v] \in [Cas -> Nat]
      BY <1>0 DEF Sequential, TypeOK
    <3>1. CASE Same(v) \/ Away(v)
      BY <2>1, <3>0, <3>1 DEF Same, Away, Current, RefreshSteps
    <3>2. CASE v \in Workers /\ RevokeCommit(v)
      BY <1>0, <3>2 DEF TypeOK, RevokeCommit, Goto, Current
    <3>3. CASE v \in Workers /\ LoadCa(v)
      BY <1>0, <2>1, <3>3 DEF TypeOK, LoadCa, Goto, Current
    <3>4. CASE v = Job /\ RefreshAllBegin
      BY <1>0, <2>1, <3>4 DEF TypeOK, RefreshAllBegin, Goto, Current
    <3>5. ASSUME NEW a \in Cas, BuildCrl(v, a) PROVE Current(v)'
      <4>1. /\ pc[v] = "refresh" /\ a \in todo[v] /\ pc'[v] = "commitCrl"
            /\ ca'[v] = a /\ todo'[v] = todo[v] \ {a}
            /\ caView'[v][a] = caView[v][a] + 1
            /\ \A b \in Cas \ {a} : caView'[v][b] = caView[v][b]
        BY <1>0, <3>5 DEF TypeOK, BuildCrl, Goto
      <4>2. QED BY <2>1, <3>0, <4>1 DEF Current
    <3>6. ASSUME NEW a \in Cas, SkipCrl(v, a) PROVE Current(v)'
      BY <1>0, <2>1, <3>0, <3>6 DEF TypeOK, SkipCrl, Current
    <3>7. CASE v # Job /\ RefreshDone(v)
      BY <1>0, <3>7 DEF TypeOK, RefreshDone, Goto, Current
    <3>8. QED
      BY <1>0, <1>2, <3>1, <3>2, <3>3, <3>4, <3>5, <3>6, <3>7, OthersSame
  <2>3. \A a \in Cas : Topmost(a)' /\ NumbersUnique(a)'
    BY <2>1 DEF Sequential, Topmost, NumbersUnique
  <2>4. QED BY <1>0, <1>1, <2>2, <2>3 DEF Sequential
<1>3. ASSUME NEW p \in Procs, CommitCrl(p) PROVE Sequential'
  <2> DEFINE b == ca[p]
             row == [number |-> caView[p][b], listed |-> listing[p]]
  <2>1. /\ pc[p] = "commitCrl" /\ b \in Cas /\ caView[p][b] = crlNumber[b] + 1
        /\ \A a \in todo[p] : a # b /\ caView[p][a] = crlNumber[a]
        /\ crlNumber[b] \in Nat
    BY <1>0, <1>3 DEF CommitCrl, Sequential, Current, TypeOK
  <2>2. /\ crlNumber'[b] = crlNumber[b] + 1 /\ crls'[b] = crls[b] \cup {row}
        /\ \A a \in Cas \ {b} : crlNumber'[a] = crlNumber[a] /\ crls'[a] = crls[a]
        /\ pc'[p] = "refresh" /\ todo'[p] = todo[p] /\ caView'[p] = caView[p]
        /\ \A q \in Procs \ {p} : pc'[q] = pc[q]
    BY <1>0, <1>3, <2>1 DEF CommitCrl, Goto, TypeOK
  <2>3. row.number = crlNumber[b] + 1 BY <2>1
  <2> HIDE DEF row
  <2>4. Current(p)'
    <3>1. todo[p] \subseteq Cas BY <1>0 DEF TypeOK
    <3>2. QED BY <2>1, <2>2, <3>1 DEF Current
  <2>5. ASSUME NEW q \in Procs \ {p} PROVE Current(q)'
    <3>1. pc[q] \notin {"refresh", "commitCrl"}
      BY <2>1 DEF Sequential, OneRefresh, Refreshing
    <3>2. QED BY <2>2, <3>1 DEF Current
  <2>6. ASSUME NEW a \in Cas PROVE Topmost(a)' /\ NumbersUnique(a)'
    <3>0. Topmost(a) /\ NumbersUnique(a) BY DEF Sequential
    <3>1. CASE a # b BY <2>2, <3>0, <3>1 DEF Topmost, NumbersUnique
    <3>2. CASE a = b
      <4>1. \A i \in crls[b] : i.number \in Nat /\ i.number <= crlNumber[b]
        BY <1>0, <2>1, <3>0, <3>2 DEF TypeOK, CrlRecord, Topmost
      <4>2. \A i \in crls[b] : i.number # row.number /\ i.number <= row.number
        BY <2>1, <2>3, <4>1
      <4>3. \A i, j \in crls'[b] : i.number = j.number => i = j
        BY <2>2, <3>0, <3>2, <4>2 DEF NumbersUnique
      <4>4. \A i \in crls'[b] : i.number <= crlNumber'[b] BY <2>1, <2>2, <2>3, <4>2
      <4>5. QED BY <3>2, <4>3, <4>4 DEF Topmost, NumbersUnique
    <3>3. QED BY <3>1, <3>2
  <2>7. QED BY <1>0, <1>1, <2>4, <2>5, <2>6 DEF Sequential
<1>4. QED BY <1>2, <1>3

LEMMA SequentialInvariant == Spec => []SequentialInv
<1>1. SequentialInv /\ [Next]_vars => SequentialInv'
  BY TypeStep, OverlapStays, SequentialStep DEF SequentialInv
<1>2. QED BY <1>1, SequentialInit, PTL DEF Spec

\* Two CRLs share a number only if two refreshes overlap: failed commits, restarts,
\* roots locked and unlocked never give a number twice.
THEOREM AlwaysOneNumberOneCrl == Spec => []OneNumberOneCrl
<1>1. SequentialInv => OneNumberOneCrl BY DEF SequentialInv, Sequential, OneNumberOneCrl
<1>2. QED BY <1>1, SequentialInvariant, PTL

\* No CRL number is ever skipped, and until two refreshes overlap none is given twice.
THEOREM NumbersAlwaysInOrder == Spec => []NumbersInOrder
BY NumbersAlwaysDense, AlwaysOneNumberOneCrl, PTL DEF NumbersInOrder

\* Without overlaps the order of the numbers is that of the contents.
SequentialOrder == ~overlapped => Ordered /\ NumbersUnique(Intermediate)

LEMMA AlwaysSequentialOrder == Spec => [](TypeOK /\ SequentialOrder)
<1>1. SequentialInv /\ StaleOnlyByCollision => TypeOK /\ SequentialOrder
  BY ConstantsAssumption
     DEF SequentialInv, Sequential, StaleOnlyByCollision, SequentialOrder, Ordered
<1>2. QED BY <1>1, SequentialInvariant, AlwaysStaleOnlyByCollision, PTL

\* The CRL that is served lists what each earlier one does.
LEMMA ServedListsAll ==
    ASSUME TypeOK, Ordered, NumbersUnique(Intermediate),
           NEW i \in crls[Intermediate], NEW j \in Served(Intermediate)
    PROVE  i.listed \subseteq j.listed
<1>1. j \in crls[Intermediate] /\ i.number <= j.number BY DEF Served
<1>2. i.number \in Nat /\ j.number \in Nat
  BY <1>1, ConstantsAssumption DEF TypeOK, CrlRecord
<1>3. CASE i.number < j.number BY <1>1, <1>3 DEF Ordered
<1>4. CASE i.number = j.number BY <1>1, <1>4 DEF NumbersUnique
<1>5. QED BY <1>1, <1>2, <1>3, <1>4

\* The CRL is "regenerated synchronously right after every revocation" as long as no two
\* refreshes overlap: what is served when revoke_certificate returns lists the certificate.
THEOREM AlwaysServedUnlessOverlapped == Spec => []ServedUnlessOverlapped
<1>1. TypeOK /\ SequentialOrder /\ OwnCrlStored => ServedUnlessOverlapped
  BY ServedListsAll
     DEF SequentialOrder, OwnCrlStored, ServedUnlessOverlapped, RevocationServed
<1>2. QED BY <1>1, AlwaysSequentialOrder, OwnCrlAlwaysStored, PTL

\* A revocation that is about to be answered is in a CRL that was stored, and until two
\* refreshes overlap in whatever CRL is served.
THEOREM AlwaysRevocationStored == Spec => []RevocationStored
BY OwnCrlAlwaysStored, AlwaysServedUnlessOverlapped, PTL DEF RevocationStored

\* As long as no two refreshes overlap, no CRL that is served lists less than one that was
\* served before it.
THEOREM NothingUnlisted == Spec => NeverUnlisted
<1> DEFINE O == TypeOK /\ SequentialOrder
           Grows == ~overlapped' =>
                      \A i \in Served(Intermediate), j \in Served(Intermediate)' :
                        i.listed \subseteq j.listed
<1>1. O /\ O' /\ [Next]_vars => [Grows]_vars
  <2> SUFFICES ASSUME O, O', [Next]_vars, ~overlapped',
                      NEW i \in Served(Intermediate), NEW j \in Served(Intermediate)'
               PROVE  i.listed \subseteq j.listed
    OBVIOUS
  <2>1. Ordered' /\ NumbersUnique(Intermediate)' BY DEF SequentialOrder
  <2>2. i \in crls'[Intermediate] BY RowsStay, ConstantsAssumption DEF Served
  <2>3. j \in crls'[Intermediate] /\ i.number <= j.number BY <2>2 DEF Served
  <2>4. i.number \in Nat /\ j.number \in Nat
    BY <2>2, <2>3, ConstantsAssumption DEF TypeOK, CrlRecord
  <2>5. CASE i.number < j.number BY <2>1, <2>2, <2>3, <2>5 DEF Ordered
  <2>6. CASE i.number = j.number BY <2>1, <2>2, <2>3, <2>6 DEF NumbersUnique
  <2>7. QED BY <2>3, <2>4, <2>5, <2>6
<1> HIDE DEF O, Grows
<1>2. Spec => []O BY AlwaysSequentialOrder DEF O
<1>3. Spec => [][Grows]_vars BY <1>1, <1>2, PTL DEF Spec
<1>4. QED BY <1>3 DEF NeverUnlisted, Grows
=============================================================================
