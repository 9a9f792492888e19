------------------------- MODULE CertRequestsProofs -------------------------
(* What TLAPS proves of CertRequests, for any requests, threads and faults. *)
EXTENDS CertRequests, ProfilePolicy, FiniteSetTheorems, TLAPS

-----------------------------------------------------------------------------
(* Types, and what an approved request has *)

IInv == TypeOK /\ ApprovedHasItsCertificate

\* Empty tables and idle threads.
LEMMA InitInv == Init => IInv
BY ConstantsAssumption
   DEF Init, IInv, TypeOK, ApprovedHasItsCertificate, Delivered, Steps, Decided, Actions

\* The end of a request disturbs neither the rows nor the other threads.
LEMMA FinishInv ==
    ASSUME IInv, NEW T \in SUBSET Threads, Finish(T), UNCHANGED <<rows, issuedFor>>,
           logged' \in [Actions -> [Requests -> Nat]], faults' \in Nat, overlapped' = overlapped
    PROVE  IInv'
<1>1. TypeOK' BY DEF IInv, TypeOK, Finish, Steps, rows
<1>2. ApprovedHasItsCertificate' BY DEF IInv, ApprovedHasItsCertificate, Delivered, rows
<1>3. QED BY <1>1, <1>2 DEF IInv

\* An audit entry is one more of its kind.
LEMMA LogType ==
    ASSUME TypeOK, NEW t \in Threads, pc[t] # "idle", NEW a \in Actions, Log(t, a)
    PROVE  /\ logged' \in [Actions -> [Requests -> Nat]]
           /\ \A b \in Actions, r \in Requests :
                logged'[b][r] = IF b = a /\ r = req[t] THEN logged[b][r] + 1 ELSE logged[b][r]
BY DEF TypeOK, Log

\* Every step keeps the invariant.
LEMMA StepInv ==
    ASSUME IInv, [Next]_vars
    PROVE  IInv'
<1> USE ConstantsAssumption DEF IInv
<1>1. ASSUME NEW t \in Threads, NEW r \in Requests, Submit(t, r) PROVE IInv'
  <2>1. TypeOK' BY <1>1 DEF Submit, Goto, TypeOK, Steps, Decided
  <2>2. ApprovedHasItsCertificate'
    BY <1>1 DEF Submit, TypeOK, ApprovedHasItsCertificate, Delivered
  <2>3. QED BY <2>1, <2>2
<1>2. ASSUME NEW t \in Threads, NEW r \in Requests, NEW next \in {"issue", "reject"},
             GetPending(t, r, next)
      PROVE  IInv'
  <2>1. TypeOK' BY <1>2 DEF GetPending, Note, Goto, TypeOK, Steps, Decided, rows
  <2>2. ApprovedHasItsCertificate'
    BY <1>2 DEF GetPending, ApprovedHasItsCertificate, Delivered, rows
  <2>3. QED BY <2>1, <2>2
<1>3. ASSUME NEW t \in Threads, LogSubmit(t) PROVE IInv'
  BY <1>3, LogType, FinishInv DEF LogSubmit, Actions, TypeOK
<1>4. ASSUME NEW t \in Threads, NEW c \in Certs, Issue(t, c) PROVE IInv'
  <2>1. \A s \in Threads : pc[s] \in {"approve", "logApprove"} => cert[s] # c
    BY <1>4 DEF Issue, TypeOK
  <2>2. TypeOK' BY <1>4, <2>1 DEF Issue, Goto, TypeOK, Steps, rows
  <2>3. ApprovedHasItsCertificate'
    BY <1>4 DEF Issue, TypeOK, ApprovedHasItsCertificate, Delivered, rows
  <2>4. QED BY <2>2, <2>3
<1>5. ASSUME NEW t \in Threads, IssueRefused(t) PROVE IInv'
  BY <1>5, FinishInv DEF IssueRefused, TypeOK
<1>6. ASSUME NEW t \in Threads, Approve(t) PROVE IInv'
  <2>1. TypeOK' BY <1>6 DEF Approve, Goto, TypeOK, Steps, Decided
  <2>2. ApprovedHasItsCertificate'
    BY <1>6 DEF Approve, TypeOK, ApprovedHasItsCertificate, Delivered
  <2>3. QED BY <2>1, <2>2
<1>7. ASSUME NEW t \in Threads, LogApprove(t) PROVE IInv'
  BY <1>7, LogType, FinishInv DEF LogApprove, Actions, TypeOK
<1>8. ASSUME NEW t \in Threads, Reject(t) PROVE IInv'
  <2>1. TypeOK' BY <1>8 DEF Reject, Goto, TypeOK, Steps, Decided
  <2>2. ApprovedHasItsCertificate'
    BY <1>8 DEF Reject, TypeOK, ApprovedHasItsCertificate, Delivered
  <2>3. QED BY <2>1, <2>2
<1>9. ASSUME NEW t \in Threads, LogReject(t) PROVE IInv'
  BY <1>9, LogType, FinishInv DEF LogReject, Actions, TypeOK
<1>10. ASSUME NEW t \in Threads, CommitFails(t) PROVE IInv'
  BY <1>10, FinishInv DEF CommitFails, TypeOK
<1>11. CASE Restart
  BY <1>11, FinishInv DEF Restart, TypeOK
<1>12. CASE UNCHANGED vars
  BY <1>12 DEF vars, rows, TypeOK, ApprovedHasItsCertificate, Delivered
<1>13. QED
  BY <1>1, <1>2, <1>3, <1>4, <1>5, <1>6, <1>7, <1>8, <1>9, <1>10, <1>11, <1>12
  DEF Next, Step

\* The invariant holds in every reachable state.
LEMMA AlwaysInv == Spec => []IInv
<1>1. IInv /\ [Next]_vars => IInv' BY StepInv
<1>2. QED BY InitInv, <1>1, PTL DEF Spec

\* Type correctness of the workflow (services/cert_request_service.py): a thread
\* that is about to approve has a certificate signed for its request.
THEOREM TypeCorrect == Spec => []TypeOK
BY AlwaysInv, PTL DEF IInv

\* An approved request has a certificate that was signed for it, however reviews
\* overlap and wherever approve_request is cut short.
THEOREM ApprovedAlwaysHasItsCertificate == Spec => []ApprovedHasItsCertificate
BY AlwaysInv, PTL DEF IInv
-----------------------------------------------------------------------------
(* The audit log *)

\* A step with no fault begins with none.
LEMMA FaultsGrow ==
    ASSUME IInv, [Next]_vars, faults' = 0
    PROVE  faults = 0
<1>1. CASE Restart \/ \E t \in Threads : CommitFails(t)
  <2>1. faults \in Nat BY DEF IInv, TypeOK
  <2>2. faults' = faults + 1 BY <1>1 DEF Restart, CommitFails
  <2>3. QED BY <2>1, <2>2
<1>2. CASE \E t \in Threads : Step(t)
  BY <1>2 DEF Step, LogSubmit, Issue, IssueRefused, Approve, LogApprove, Reject, LogReject
<1>3. CASE \E t \in Threads, r \in Requests :
             Submit(t, r) \/ GetPending(t, r, "issue") \/ GetPending(t, r, "reject")
  BY <1>3 DEF Submit, GetPending
<1>4. CASE UNCHANGED vars BY <1>4 DEF vars
<1>5. QED BY <1>1, <1>2, <1>3, <1>4 DEF Next

LEMMA StepDecisionLogged ==
    ASSUME IInv, DecisionLogged, [Next]_vars
    PROVE  DecisionLogged'
<1> SUFFICES ASSUME faults' = 0, NEW r \in Requests
             PROVE  /\ certificate'[r] # None /\ logged'["certrequest.approve"][r] = 0
                         => Deciding(r, "logApprove")' # {}
                    /\ reason'[r] /\ logged'["certrequest.reject"][r] = 0
                         => Deciding(r, "logReject")' # {}
  BY DEF DecisionLogged
<1> USE DEF IInv
<1>0. /\ faults = 0
      /\ certificate[r] # None /\ logged["certrequest.approve"][r] = 0
           => Deciding(r, "logApprove") # {}
      /\ reason[r] /\ logged["certrequest.reject"][r] = 0 => Deciding(r, "logReject") # {}
  BY FaultsGrow DEF DecisionLogged
<1>1. ASSUME NEW t \in Threads, NEW q \in Requests, Submit(t, q)
      PROVE  \A s \in {"logApprove", "logReject"} : Deciding(r, s)' = Deciding(r, s)
  BY <1>1 DEF Submit, Goto, Deciding, TypeOK
<1>2. ASSUME NEW t \in Threads, NEW q \in Requests, NEW next \in {"issue", "reject"},
             GetPending(t, q, next)
      PROVE  \A s \in {"logApprove", "logReject"} : Deciding(r, s)' = Deciding(r, s)
  BY <1>2 DEF GetPending, Goto, Deciding, TypeOK
<1>3. ASSUME NEW t \in Threads, NEW c \in Certs, Issue(t, c)
      PROVE  \A s \in {"logApprove", "logReject"} : Deciding(r, s)' = Deciding(r, s)
  BY <1>3 DEF Issue, Goto, Deciding, TypeOK
<1>4. ASSUME NEW t \in Threads, IssueRefused(t)
      PROVE  \A s \in {"logApprove", "logReject"} : Deciding(r, s)' = Deciding(r, s)
  BY <1>4 DEF IssueRefused, Finish, Deciding, TypeOK
<1>5. ASSUME NEW t \in Threads, LogSubmit(t)
      PROVE  /\ \A s \in {"logApprove", "logReject"} : Deciding(r, s)' = Deciding(r, s)
             /\ \A a \in Actions \ {"certrequest.submit"} : logged'[a][r] = logged[a][r]
  BY <1>5, LogType DEF LogSubmit, Finish, Deciding, TypeOK, Actions
<1>6. CASE \E t \in Threads, q \in Requests : Submit(t, q) \/ GetPending(t, q, "issue")
                                             \/ GetPending(t, q, "reject")
  BY <1>0, <1>1, <1>2, <1>6 DEF Submit, GetPending, rows
<1>7. CASE \E t \in Threads : IssueRefused(t) \/ LogSubmit(t) \/ \E c \in Certs : Issue(t, c)
  BY <1>0, <1>3, <1>4, <1>5, <1>7 DEF Issue, IssueRefused, LogSubmit, rows, Actions
<1>8. ASSUME NEW t \in Threads, Approve(t)
      PROVE  /\ certificate'[r] # None => certificate[r] # None \/ t \in Deciding(r, "logApprove")'
             /\ Deciding(r, "logApprove") \subseteq Deciding(r, "logApprove")'
             /\ Deciding(r, "logReject") = Deciding(r, "logReject")'
             /\ reason' = reason /\ logged' = logged
  BY <1>8 DEF Approve, Goto, Deciding, TypeOK
<1>9. ASSUME NEW t \in Threads, Reject(t)
      PROVE  /\ reason'[r] => reason[r] \/ t \in Deciding(r, "logReject")'
             /\ Deciding(r, "logReject") \subseteq Deciding(r, "logReject")'
             /\ Deciding(r, "logApprove") = Deciding(r, "logApprove")'
             /\ certificate' = certificate /\ logged' = logged
  BY <1>9 DEF Reject, Goto, Deciding, TypeOK
<1>10. ASSUME NEW t \in Threads, LogApprove(t)
       PROVE  /\ logged'["certrequest.approve"][r] # 0
                 \/ /\ logged'["certrequest.approve"][r] = logged["certrequest.approve"][r]
                    /\ Deciding(r, "logApprove") = Deciding(r, "logApprove")'
              /\ logged'["certrequest.reject"][r] = logged["certrequest.reject"][r]
              /\ Deciding(r, "logReject") = Deciding(r, "logReject")'
              /\ certificate' = certificate /\ reason' = reason
  <2>1. CASE req[t] = r
    BY <1>10, <2>1, LogType DEF LogApprove, Finish, Deciding, TypeOK, Actions, rows
  <2>2. CASE req[t] # r
    BY <1>10, <2>2, LogType DEF LogApprove, Finish, Deciding, TypeOK, Actions, rows
  <2>3. QED BY <2>1, <2>2
<1>11. ASSUME NEW t \in Threads, LogReject(t)
       PROVE  /\ logged'["certrequest.reject"][r] # 0
                 \/ /\ logged'["certrequest.reject"][r] = logged["certrequest.reject"][r]
                    /\ Deciding(r, "logReject") = Deciding(r, "logReject")'
              /\ logged'["certrequest.approve"][r] = logged["certrequest.approve"][r]
              /\ Deciding(r, "logApprove") = Deciding(r, "logApprove")'
              /\ certificate' = certificate /\ reason' = reason
  <2>1. CASE req[t] = r
    BY <1>11, <2>1, LogType DEF LogReject, Finish, Deciding, TypeOK, Actions, rows
  <2>2. CASE req[t] # r
    BY <1>11, <2>2, LogType DEF LogReject, Finish, Deciding, TypeOK, Actions, rows
  <2>3. QED BY <2>1, <2>2
<1>12. CASE \E t \in Threads : Approve(t) \/ Reject(t) \/ LogApprove(t) \/ LogReject(t)
  BY <1>0, <1>8, <1>9, <1>10, <1>11, <1>12
<1>13. CASE Restart \/ \E t \in Threads : CommitFails(t)
  BY <1>0, <1>13 DEF Restart, CommitFails
<1>14. CASE UNCHANGED vars
  BY <1>0, <1>14 DEF vars, rows, Deciding
<1>15. QED BY <1>6, <1>7, <1>12, <1>13, <1>14 DEF Next, Step

\* As long as nothing fails, every decision is in the audit log, or its entry is
\* about to be made: also of the decision that a second reviewer overwrites.
THEOREM DecisionAlwaysLogged == Spec => []DecisionLogged
<1>1. Init => DecisionLogged BY DEF Init, DecisionLogged
<1>2. IInv /\ DecisionLogged /\ [Next]_vars => DecisionLogged' BY StepDecisionLogged
<1>3. QED BY <1>1, <1>2, AlwaysInv, PTL DEF Spec
-----------------------------------------------------------------------------
(* Certificates against approvals *)

\* CertificatesAccountedFor, for one request.
Balanced(r) ==
    Cardinality(SignedFor(r)) = logged["certrequest.approve"][r]
      + Cardinality(Deciding(r, "approve")) + Cardinality(Deciding(r, "logApprove"))

\* One more, or one less, counts for one.
LEMMA Counted ==
    /\ \A r \in Requests : IsFiniteSet(SignedFor(r)) /\ Cardinality(SignedFor(r)) \in Nat
    /\ \A r \in Requests, s \in Steps :
         IsFiniteSet(Deciding(r, s)) /\ Cardinality(Deciding(r, s)) \in Nat
<1>1. \A r : SignedFor(r) \subseteq Certs BY DEF SignedFor
<1>2. \A r, s : Deciding(r, s) \subseteq Threads BY DEF Deciding
<1>3. IsFiniteSet(Certs) /\ IsFiniteSet(Threads) BY ConstantsAssumption
<1>4. QED BY <1>1, <1>2, <1>3, FS_Subset, FS_CardinalityType

\* A step that touches none of the sets of r.
LEMMA Untouched ==
    ASSUME NEW r \in Requests, Balanced(r), SignedFor(r)' = SignedFor(r),
           Deciding(r, "approve")' = Deciding(r, "approve"),
           Deciding(r, "logApprove")' = Deciding(r, "logApprove"),
           logged'["certrequest.approve"][r] = logged["certrequest.approve"][r]
    PROVE  Balanced(r)'
BY DEF Balanced

\* The certificate and the thread that has signed it.
LEMMA IssueBalanced ==
    ASSUME IInv, NEW t \in Threads, NEW c \in Certs, Issue(t, c), NEW r \in Requests, Balanced(r)
    PROVE  Balanced(r)'
<1> USE DEF IInv
<1>1. CASE req[t] # r
  <2>1. SignedFor(r)' = SignedFor(r)
    BY <1>1, ConstantsAssumption DEF Issue, SignedFor, TypeOK
  <2>2. \A s \in {"approve", "logApprove"} : Deciding(r, s)' = Deciding(r, s)
    BY <1>1 DEF Issue, Goto, Deciding, TypeOK
  <2>3. QED BY <2>1, <2>2, Untouched DEF Issue
<1>2. CASE req[t] = r
  <2>1. SignedFor(r)' = SignedFor(r) \cup {c} /\ c \notin SignedFor(r)
    BY <1>2, ConstantsAssumption DEF Issue, SignedFor, TypeOK
  <2>2. Deciding(r, "approve")' = Deciding(r, "approve") \cup {t} /\ t \notin Deciding(r, "approve")
    BY <1>2 DEF Issue, Goto, Deciding, TypeOK
  <2>3. Deciding(r, "logApprove")' = Deciding(r, "logApprove") /\ logged' = logged
    BY <1>2 DEF Issue, Goto, Deciding, TypeOK
  <2>4. Cardinality(SignedFor(r)') = Cardinality(SignedFor(r)) + 1
    BY <2>1, Counted, FS_AddElement
  <2>5. Cardinality(Deciding(r, "approve")') = Cardinality(Deciding(r, "approve")) + 1
    BY <2>2, Counted, FS_AddElement DEF Steps
  <2>6. logged["certrequest.approve"][r] \in Nat BY DEF TypeOK, Actions
  <2>7. QED BY <2>3, <2>4, <2>5, <2>6, Counted DEF Balanced, Steps
<1>3. QED BY <1>1, <1>2

\* The thread goes on to its audit entry.
LEMMA ApproveBalanced ==
    ASSUME IInv, NEW t \in Threads, Approve(t), NEW r \in Requests, Balanced(r)
    PROVE  Balanced(r)'
<1> USE DEF IInv
<1>0. SignedFor(r)' = SignedFor(r) /\ logged' = logged BY DEF Approve, SignedFor
<1>1. CASE req[t] # r
  <2>1. \A s \in {"approve", "logApprove"} : Deciding(r, s)' = Deciding(r, s)
    BY <1>1 DEF Approve, Goto, Deciding, TypeOK
  <2>2. QED BY <1>0, <2>1, Untouched
<1>2. CASE req[t] = r
  <2>1. Deciding(r, "approve")' = Deciding(r, "approve") \ {t} /\ t \in Deciding(r, "approve")
    BY <1>2 DEF Approve, Goto, Deciding, TypeOK
  <2>2. /\ Deciding(r, "logApprove")' = Deciding(r, "logApprove") \cup {t}
        /\ t \notin Deciding(r, "logApprove")
    BY <1>2 DEF Approve, Goto, Deciding, TypeOK
  <2>3. Cardinality(Deciding(r, "approve")') = Cardinality(Deciding(r, "approve")) - 1
    BY <2>1, Counted, FS_RemoveElement DEF Steps
  <2>4. Cardinality(Deciding(r, "logApprove")') = Cardinality(Deciding(r, "logApprove")) + 1
    BY <2>2, Counted, FS_AddElement DEF Steps
  <2>5. logged["certrequest.approve"][r] \in Nat BY DEF TypeOK, Actions
  <2>6. QED BY <1>0, <2>3, <2>4, <2>5, Counted DEF Balanced, Steps
<1>3. QED BY <1>1, <1>2

\* The audit entry takes the place of the thread.
LEMMA LogApproveBalanced ==
    ASSUME IInv, NEW t \in Threads, LogApprove(t), NEW r \in Requests, Balanced(r)
    PROVE  Balanced(r)'
<1> USE DEF IInv
<1>0. SignedFor(r)' = SignedFor(r) BY DEF LogApprove, SignedFor
<1>1. Deciding(r, "approve")' = Deciding(r, "approve")
  BY DEF LogApprove, Finish, Deciding, TypeOK
<1>2. logged'["certrequest.approve"][r] =
        IF r = req[t] THEN logged["certrequest.approve"][r] + 1 ELSE logged["certrequest.approve"][r]
  BY LogType DEF LogApprove, Actions
<1>3. CASE req[t] # r
  <2>1. Deciding(r, "logApprove")' = Deciding(r, "logApprove")
    BY <1>3 DEF LogApprove, Finish, Deciding, TypeOK
  <2>2. QED BY <1>0, <1>1, <1>2, <1>3, <2>1, Untouched
<1>4. CASE req[t] = r
  <2>1. /\ Deciding(r, "logApprove")' = Deciding(r, "logApprove") \ {t}
        /\ t \in Deciding(r, "logApprove")
    BY <1>4 DEF LogApprove, Finish, Deciding, TypeOK
  <2>2. Cardinality(Deciding(r, "logApprove")') = Cardinality(Deciding(r, "logApprove")) - 1
    BY <2>1, Counted, FS_RemoveElement DEF Steps
  <2>3. logged["certrequest.approve"][r] \in Nat BY DEF TypeOK, Actions
  <2>4. QED BY <1>0, <1>1, <1>2, <1>4, <2>2, <2>3, Counted DEF Balanced, Steps
<1>5. QED BY <1>3, <1>4

\* Every other step leaves the sets alone, or is a fault.
LEMMA OtherStepBalanced ==
    ASSUME IInv, NEW r \in Requests, Balanced(r),
           \/ UNCHANGED vars
           \/ \E t \in Threads, q \in Requests :
                Submit(t, q) \/ GetPending(t, q, "issue") \/ GetPending(t, q, "reject")
           \/ \E t \in Threads : LogSubmit(t) \/ IssueRefused(t) \/ Reject(t) \/ LogReject(t)
    PROVE  Balanced(r)'
<1> USE DEF IInv
<1>1. CASE UNCHANGED vars
  BY <1>1, Untouched DEF vars, rows, Deciding, SignedFor
<1>2. ASSUME NEW t \in Threads, NEW q \in Requests, NEW next \in {"issue", "reject"},
             Submit(t, q) \/ GetPending(t, q, next)
      PROVE  Balanced(r)'
  <2>1. \A s \in {"approve", "logApprove"} : Deciding(r, s)' = Deciding(r, s)
    BY <1>2 DEF Submit, GetPending, Goto, Deciding, TypeOK
  <2>2. SignedFor(r)' = SignedFor(r) /\ logged' = logged
    BY <1>2 DEF Submit, GetPending, SignedFor
  <2>3. QED BY <2>1, <2>2, Untouched
<1>3. ASSUME NEW t \in Threads, IssueRefused(t) \/ Reject(t) PROVE Balanced(r)'
  <2>1. \A s \in {"approve", "logApprove"} : Deciding(r, s)' = Deciding(r, s)
    BY <1>3 DEF IssueRefused, Reject, Finish, Goto, Deciding, TypeOK
  <2>2. SignedFor(r)' = SignedFor(r) /\ logged' = logged
    BY <1>3 DEF IssueRefused, Reject, SignedFor
  <2>3. QED BY <2>1, <2>2, Untouched
<1>4. ASSUME NEW t \in Threads, LogSubmit(t) \/ LogReject(t) PROVE Balanced(r)'
  <2>1. \A s \in {"approve", "logApprove"} : Deciding(r, s)' = Deciding(r, s)
    BY <1>4 DEF LogSubmit, LogReject, Finish, Deciding, TypeOK
  <2>2. SignedFor(r)' = SignedFor(r) BY <1>4 DEF LogSubmit, LogReject, SignedFor
  <2>3. logged'["certrequest.approve"][r] = logged["certrequest.approve"][r]
    BY <1>4, LogType DEF LogSubmit, LogReject, Actions
  <2>4. QED BY <2>1, <2>2, <2>3, Untouched
<1>5. QED BY <1>1, <1>2, <1>3, <1>4

LEMMA StepAccountedFor ==
    ASSUME IInv, CertificatesAccountedFor, [Next]_vars
    PROVE  CertificatesAccountedFor'
<1> SUFFICES ASSUME faults' = 0, NEW r \in Requests PROVE Balanced(r)'
  BY DEF CertificatesAccountedFor, Balanced
<1>1. faults = 0 /\ Balanced(r) BY FaultsGrow DEF CertificatesAccountedFor, Balanced
<1>2. ~ Restart /\ \A t \in Threads : ~ CommitFails(t)
  <2>1. faults' # faults + 1 BY <1>1
  <2>2. QED BY <2>1 DEF Restart, CommitFails
<1>3. QED
  BY <1>1, <1>2, IssueBalanced, ApproveBalanced, LogApproveBalanced, OtherStepBalanced
  DEF Next, Step

\* As long as nothing fails, the approvals in the audit log, with those about to be
\* logged, are as many as the certificates signed for the request, also where the
\* row has forgotten one that another reviewer's approval overwrote.
THEOREM CertificatesAlwaysAccountedFor == Spec => []CertificatesAccountedFor
<1>1. Init => CertificatesAccountedFor
  <2> SUFFICES ASSUME Init, NEW r \in Requests PROVE Balanced(r)
    BY DEF CertificatesAccountedFor, Balanced
  <2>1. SignedFor(r) = {} BY ConstantsAssumption DEF Init, SignedFor
  <2>2. Deciding(r, "approve") = {} /\ Deciding(r, "logApprove") = {} BY DEF Init, Deciding
  <2>3. logged["certrequest.approve"][r] = 0 BY DEF Init, Actions
  <2>4. QED BY <2>1, <2>2, <2>3, FS_EmptySet DEF Balanced
<1>2. IInv /\ CertificatesAccountedFor /\ [Next]_vars => CertificatesAccountedFor'
  BY StepAccountedFor
<1>3. QED BY <1>1, <1>2, AlwaysInv, PTL DEF Spec
-----------------------------------------------------------------------------
(* Reviews that do not overlap *)

Approvals(r) == logged["certrequest.approve"][r]
Rejections(r) == logged["certrequest.reject"][r]

\* A request that is not decided has no trace of a decision, and the log tells of the
\* one there is.
Consistent(r) ==
    /\ status[r] \notin Decided =>
         certificate[r] = None /\ Approvals(r) = 0 /\ Rejections(r) = 0
    /\ Approvals(r) + Rejections(r) <= 1
    /\ Approvals(r) # 0 => status[r] = "approved"
    /\ Rejections(r) # 0 => status[r] = "rejected"

\* A thread reviews what is pending, and logs what is decided and not logged.
AtWork(t) ==
    /\ pc[t] \in {"issue", "approve", "reject"} => status[req[t]] = "pending"
    /\ pc[t] = "logApprove" => status[req[t]] = "approved" /\ Approvals(req[t]) = 0
    /\ pc[t] = "logReject" => status[req[t]] = "rejected" /\ Rejections(req[t]) = 0

Logging(t, r) == pc[t] \in {"logApprove", "logReject"} /\ req[t] = r

\* A request at which no two reviews have overlapped has one reviewer at a time, and
\* one thread that logs its decision.
Solo(r) ==
    /\ Consistent(r)
    /\ \A t \in Threads : req[t] = r => AtWork(t)
    /\ \A s, t \in Threads : Reviewing(s, r) /\ Reviewing(t, r) => s = t
    /\ \A s, t \in Threads : Logging(s, r) /\ Logging(t, r) => s = t

SoloInv == IInv /\ \A r \in Requests \ overlapped : Solo(r)

LEMMA SoloInit == Init => SoloInv
<1> SUFFICES ASSUME Init, NEW r \in Requests PROVE Solo(r) BY InitInv DEF SoloInv
<1>1. Consistent(r) BY DEF Init, Consistent, Approvals, Rejections, Actions, Decided
<1>2. \A t \in Threads : pc[t] = "idle" BY DEF Init
<1>3. QED BY <1>1, <1>2 DEF Solo, AtWork, Reviewing, Logging

\* Threads leave r, or work elsewhere.
LEMMA SoloStays ==
    ASSUME IInv, NEW r \in Requests, Solo(r),
           status'[r] = status[r], certificate'[r] = certificate[r],
           Approvals(r)' = Approvals(r), Rejections(r)' = Rejections(r),
           \A t \in Threads : \/ pc'[t] = pc[t] /\ req'[t] = req[t]
                              \/ pc'[t] \in {"idle", "logSubmit"}
                              \/ req'[t] # r
    PROVE  Solo(r)'
<1>1. Consistent(r)' BY DEF Solo, Consistent
<1>2. \A t \in Threads : req'[t] = r => AtWork(t)' BY DEF Solo, AtWork, Approvals, Rejections
<1>3. \A t \in Threads : /\ Reviewing(t, r)' => Reviewing(t, r)
                         /\ Logging(t, r)' => Logging(t, r)
  BY DEF Reviewing, Logging
<1>4. QED BY <1>1, <1>2, <1>3 DEF Solo

\* A thread begins a review of r, or goes on with it.
LEMMA SoloGoes ==
    ASSUME NEW r \in Requests, Solo(r), NEW t \in Threads,
           UNCHANGED <<rows, logged>>, status[r] = "pending",
           pc'[t] \in {"issue", "approve", "reject"}, req'[t] = r,
           \A s \in Threads \ {t} : pc'[s] = pc[s] /\ req'[s] = req[s] /\ ~Reviewing(s, r)
    PROVE  Solo(r)'
<1>1. Consistent(r)' BY DEF Solo, Consistent, Approvals, Rejections, rows
<1>2. \A s \in Threads : req'[s] = r => AtWork(s)'
  BY DEF Solo, AtWork, Approvals, Rejections, rows
<1>3. /\ \A s, u \in Threads : Reviewing(s, r)' /\ Reviewing(u, r)' => s = u
      /\ \A s, u \in Threads : Logging(s, r)' /\ Logging(u, r)' => s = u
  BY DEF Solo, Reviewing, Logging
<1>4. QED BY <1>1, <1>2, <1>3 DEF Solo

\* The commit of a decision: no other thread is at this request.
LEMMA SoloDecides ==
    ASSUME IInv, NEW t \in Threads, Approve(t) \/ Reject(t),
           NEW r \in Requests, r = req[t], Solo(r)
    PROVE  Solo(r)'
<1>1. /\ status[r] = "pending" /\ Reviewing(t, r)
      /\ status \in [Requests -> {"absent", "pending"} \cup Decided]
      /\ pc \in [Threads -> Steps]
  BY DEF IInv, TypeOK, Approve, Reject, Solo, AtWork, Reviewing
<1>2. Approvals(r) = 0 /\ Rejections(r) = 0 BY <1>1 DEF Solo, Consistent, Decided
<1>3. /\ \A s \in Threads \ {t} : pc'[s] = pc[s]
      /\ UNCHANGED <<req, logged>>
      /\ \/ status'[r] = "approved" /\ pc'[t] = "logApprove"
         \/ status'[r] = "rejected" /\ pc'[t] = "logReject"
  BY <1>1 DEF Approve, Reject, Goto
<1>4. ASSUME NEW s \in Threads \ {t}, req[s] = r
      PROVE  pc[s] \notin {"issue", "approve", "reject", "logApprove", "logReject"}
  BY <1>1, <1>4 DEF Solo, Reviewing, AtWork
<1>5. Consistent(r)' BY <1>2, <1>3 DEF Consistent, Approvals, Rejections, Decided
<1>6. \A s \in Threads : req'[s] = r => AtWork(s)'
  BY <1>2, <1>3, <1>4 DEF AtWork, Approvals, Rejections
<1>7. /\ \A s, u \in Threads : Reviewing(s, r)' /\ Reviewing(u, r)' => s = u
      /\ \A s, u \in Threads : Logging(s, r)' /\ Logging(u, r)' => s = u
  BY <1>3, <1>4 DEF Reviewing, Logging
<1>8. QED BY <1>5, <1>6, <1>7 DEF Solo

\* The audit entry of a decision: the first of its request.
LEMMA SoloLogs ==
    ASSUME IInv, NEW t \in Threads, LogApprove(t) \/ LogReject(t),
           NEW r \in Requests, r = req[t], Solo(r)
    PROVE  Solo(r)'
<1>1. /\ Logging(t, r) /\ TypeOK
      /\ \/ /\ pc[t] = "logApprove" /\ status[r] = "approved"
            /\ Approvals(r)' = 1 /\ Rejections(r)' = 0
         \/ /\ pc[t] = "logReject" /\ status[r] = "rejected"
            /\ Approvals(r)' = 0 /\ Rejections(r)' = 1
  <2>1. TypeOK /\ Approvals(r) \in Nat /\ Rejections(r) \in Nat
    BY DEF IInv, TypeOK, Approvals, Rejections, Actions
  <2>2. CASE LogApprove(t)
    <3>1. status[r] = "approved" /\ Approvals(r) = 0 /\ Rejections(r) = 0
      BY <2>1, <2>2 DEF Solo, AtWork, Consistent, LogApprove
    <3>2. QED
      BY <2>1, <2>2, <3>1, LogType DEF LogApprove, Approvals, Rejections, Actions, Logging
  <2>3. CASE LogReject(t)
    <3>1. status[r] = "rejected" /\ Approvals(r) = 0 /\ Rejections(r) = 0
      BY <2>1, <2>3 DEF Solo, AtWork, Consistent, LogReject
    <3>2. QED
      BY <2>1, <2>3, <3>1, LogType DEF LogReject, Approvals, Rejections, Actions, Logging
  <2>4. QED BY <2>2, <2>3
<1>2. /\ UNCHANGED rows /\ pc'[t] = "idle"
      /\ \A s \in Threads \ {t} : pc'[s] = pc[s] /\ req'[s] = req[s]
  BY DEF LogApprove, LogReject, Finish
<1>3. Consistent(r)' BY <1>1, <1>2 DEF Consistent, Decided, rows
<1>4. ASSUME NEW s \in Threads, req'[s] = r PROVE AtWork(s)'
  <2>1. CASE s = t BY <1>2, <2>1 DEF AtWork
  <2>2. CASE s # t
    <3>1. pc[s] \notin {"logApprove", "logReject"} BY <1>1, <1>2, <1>4, <2>2 DEF Solo, Logging
    <3>2. QED BY <1>2, <1>4, <2>2, <3>1 DEF Solo, AtWork, rows
  <2>3. QED BY <2>1, <2>2
<1>5. /\ \A s, u \in Threads : Reviewing(s, r)' /\ Reviewing(u, r)' => s = u
      /\ \A s, u \in Threads : Logging(s, r)' /\ Logging(u, r)' => s = u
  BY <1>2 DEF Solo, Reviewing, Logging
<1>6. QED BY <1>3, <1>4, <1>5 DEF Solo

\* A step that leaves r without an overlap leaves it in order.
LEMMA SoloStep ==
    ASSUME IInv, [Next]_vars, NEW r \in Requests \ overlapped, r \notin overlapped', Solo(r)
    PROVE  Solo(r)'
<1> USE DEF IInv
<1>1. TypeOK /\ pc \in [Threads -> Steps] /\ req \in [Threads -> Requests \cup {None}] BY DEF TypeOK
<1>2. ASSUME NEW t \in Threads, NEW q \in Requests, Submit(t, q) PROVE Solo(r)'
  <2>1. /\ status[q] = "absent" /\ status'[q] = "pending" /\ pc'[t] = "logSubmit"
        /\ \A i \in Requests \ {q} : status'[i] = status[i]
        /\ \A s \in Threads \ {t} : pc'[s] = pc[s] /\ req'[s] = req[s]
        /\ UNCHANGED <<certificate, logged>>
    BY <1>1, <1>2 DEF Submit, Goto, TypeOK
  <2>2. CASE q # r BY <2>1, <2>2, SoloStays DEF Approvals, Rejections
  <2>3. CASE q = r
    <3>1. Consistent(r)' BY <2>1, <2>3 DEF Solo, Consistent, Approvals, Rejections, Decided
    <3>2. \A s \in Threads : req'[s] = r => AtWork(s)' BY <2>1, <2>3 DEF Solo, AtWork
    <3>3. QED BY <2>1, <3>1, <3>2 DEF Solo, Reviewing, Logging
  <2>4. QED BY <2>2, <2>3
<1>3. ASSUME NEW t \in Threads, NEW q \in Requests, NEW next \in {"issue", "reject"},
             GetPending(t, q, next)
      PROVE  Solo(r)'
  <2>1. /\ pc'[t] = next /\ req'[t] = q /\ status[q] = "pending" /\ UNCHANGED <<rows, logged>>
        /\ \A s \in Threads \ {t} : pc'[s] = pc[s] /\ req'[s] = req[s]
        /\ q = r => \A s \in Threads : ~Reviewing(s, r)
    BY <1>1, <1>3 DEF GetPending, Goto, Note
  <2>2. CASE q # r BY <2>1, <2>2, SoloStays DEF Approvals, Rejections, rows
  <2>3. CASE q = r BY <2>1, <2>3, SoloGoes
  <2>4. QED BY <2>2, <2>3
<1>4. ASSUME NEW t \in Threads, NEW c \in Certs, Issue(t, c) PROVE Solo(r)'
  <2>1. /\ pc[t] = "issue" /\ pc'[t] = "approve" /\ UNCHANGED <<rows, logged, req>>
        /\ \A s \in Threads \ {t} : pc'[s] = pc[s]
    BY <1>1, <1>4 DEF Issue, Goto
  <2>2. CASE req[t] # r BY <2>1, <2>2, SoloStays DEF Approvals, Rejections, rows
  <2>3. CASE req[t] = r
    <3>1. status[r] = "pending" /\ \A s \in Threads \ {t} : ~Reviewing(s, r)
      BY <2>1, <2>3 DEF Solo, AtWork, Reviewing
    <3>2. QED BY <2>1, <2>3, <3>1, SoloGoes
  <2>4. QED BY <2>2, <2>3
<1>5. ASSUME NEW T \in SUBSET Threads, Finish(T), UNCHANGED rows,
             Approvals(r)' = Approvals(r), Rejections(r)' = Rejections(r)
      PROVE  Solo(r)'
  BY <1>5, SoloStays DEF Finish, rows
<1>6. ASSUME NEW t \in Threads, LogSubmit(t) PROVE Solo(r)'
  <2>1. Approvals(r)' = Approvals(r) /\ Rejections(r)' = Rejections(r)
    BY <1>1, <1>6, LogType DEF LogSubmit, Approvals, Rejections, Actions
  <2>2. QED BY <1>5, <1>6, <2>1 DEF LogSubmit
<1>7. ASSUME NEW t \in Threads, IssueRefused(t) \/ CommitFails(t) PROVE Solo(r)'
  BY <1>5, <1>7 DEF IssueRefused, CommitFails, Approvals, Rejections
<1>8. CASE Restart BY <1>5, <1>8 DEF Restart, Approvals, Rejections
<1>9. ASSUME NEW t \in Threads, Approve(t) \/ Reject(t) PROVE Solo(r)'
  <2>1. CASE req[t] = r BY <1>9, <2>1, SoloDecides
  <2>2. CASE req[t] # r
    <3>1. /\ status'[r] = status[r] /\ certificate'[r] = certificate[r] /\ UNCHANGED <<req, logged>>
          /\ \A s \in Threads \ {t} : pc'[s] = pc[s]
      BY <1>1, <1>9, <2>2 DEF Approve, Reject, Goto, TypeOK
    <3>2. QED BY <2>2, <3>1, SoloStays DEF Approvals, Rejections
  <2>3. QED BY <2>1, <2>2
<1>10. ASSUME NEW t \in Threads, LogApprove(t) \/ LogReject(t) PROVE Solo(r)'
  <2>1. CASE req[t] = r BY <1>10, <2>1, SoloLogs
  <2>2. CASE req[t] # r
    <3>1. Approvals(r)' = Approvals(r) /\ Rejections(r)' = Rejections(r)
      BY <1>1, <1>10, <2>2, LogType DEF LogApprove, LogReject, Approvals, Rejections, Actions
    <3>2. QED BY <1>5, <1>10, <3>1 DEF LogApprove, LogReject
  <2>3. QED BY <2>1, <2>2
<1>11. CASE UNCHANGED vars
  BY <1>11 DEF vars, rows, Solo, Consistent, AtWork, Reviewing, Logging, Approvals, Rejections
<1>12. QED
  BY <1>2, <1>3, <1>4, <1>6, <1>7, <1>8, <1>9, <1>10, <1>11 DEF Next, Step

\* An overlap is never forgotten.
LEMMA OverlapsStay == [Next]_vars => overlapped \subseteq overlapped'
BY DEF Next, Step, Submit, GetPending, Note, LogSubmit, Issue, IssueRefused, Approve, LogApprove,
   Reject, LogReject, CommitFails, Restart, vars

LEMMA SoloInvariant == Spec => []SoloInv
<1>1. SoloInv /\ [Next]_vars => SoloInv'
  BY StepInv, SoloStep, OverlapsStay DEF SoloInv
<1>2. QED BY <1>1, SoloInit, PTL DEF Spec

\* Unless two reviews of a request have overlapped, the audit log tells of one decision
\* of it at most, and of the one its row shows.
THEOREM LogAlwaysTellsDecision == Spec => []LogTellsDecision
<1>1. SoloInv => LogTellsDecision
  BY DEF SoloInv, Solo, LogTellsDecision, Consistent, Approvals, Rejections
<1>2. QED BY <1>1, SoloInvariant, PTL

\* Every decision gets into the log, and of a request at which no two reviews have overlapped
\* the log tells nothing else.
THEOREM DecisionsAlwaysInLog == Spec => []DecisionsInLog
BY DecisionAlwaysLogged, LogAlwaysTellsDecision, PTL DEF DecisionsInLog

\* Unless two reviews of a request have overlapped, what was decided stays as it was.
THEOREM DecisionsAlwaysFinal == Spec => DecisionsFinal
<1> DEFINE Kept == \A r \in Requests \ overlapped' : status[r] \in Decided =>
                     /\ status'[r] = status[r] /\ reviewer'[r] = reviewer[r]
                     /\ reason'[r] = reason[r] /\ certificate'[r] = certificate[r]
<1>1. SoloInv /\ [Next]_vars => [Kept]_vars
  <2> SUFFICES ASSUME SoloInv, Next, NEW r \in Requests \ overlapped', status[r] \in Decided
               PROVE  /\ status'[r] = status[r] /\ reviewer'[r] = reviewer[r]
                      /\ reason'[r] = reason[r] /\ certificate'[r] = certificate[r]
    OBVIOUS
  <2>1. TypeOK /\ Solo(r) BY OverlapsStay DEF SoloInv, IInv
  <2>2. ASSUME NEW t \in Threads, Approve(t) \/ Reject(t) PROVE req[t] # r
    BY <2>1, <2>2 DEF Solo, AtWork, Approve, Reject, Decided
  <2>3. CASE \E t \in Threads : Approve(t) \/ Reject(t)
    BY <2>1, <2>2, <2>3 DEF Approve, Reject, TypeOK
  <2>4. CASE \E t \in Threads, q \in Requests : Submit(t, q)
    BY <2>1, <2>4 DEF Submit, TypeOK, Decided
  <2>5. CASE ~(\E t \in Threads : Approve(t) \/ Reject(t) \/ \E q \in Requests : Submit(t, q))
    <3>1. UNCHANGED rows
      BY <2>5 DEF Next, Step, GetPending, LogSubmit, Issue, IssueRefused, LogApprove, LogReject,
         CommitFails, Restart
    <3>2. QED BY <3>1 DEF rows
  <2>6. QED BY <2>3, <2>4, <2>5
<1> HIDE DEF Kept
<1>2. Spec => [][Kept]_vars BY <1>1, SoloInvariant, PTL DEF Spec
<1>3. QED BY <1>2 DEF DecisionsFinal, Kept

\* A step that is no fault strands nothing.
LEMMA NothingStranded ==
    ASSUME IInv, [Next]_vars, NEW r \in Requests, Solo(r),
           ~Restart, \A t \in Threads : ~CommitFails(t)
    PROVE  Stranded(r)' \subseteq Stranded(r)
<1> USE DEF IInv
<1>0. TypeOK /\ None \notin Certs BY ConstantsAssumption
<1>1. ASSUME NEW t \in Threads, NEW c \in Certs, Issue(t, c)
      PROVE  Stranded(r)' \subseteq Stranded(r)
  <2>1. /\ issuedFor' = [issuedFor EXCEPT ![c] = req[t]] /\ UNCHANGED <<certificate, req>>
        /\ pc' = [pc EXCEPT ![t] = "approve"] /\ cert' = [cert EXCEPT ![t] = c] /\ pc[t] = "issue"
    BY <1>1 DEF Issue, Goto, rows
  <2>2. SignedFor(r)' \subseteq SignedFor(r) \cup (IF req[t] = r THEN {c} ELSE {})
    BY <1>0, <2>1 DEF SignedFor, TypeOK
  <2>3. /\ Deciding(r, "approve") \subseteq Deciding(r, "approve")'
        /\ \A s \in Deciding(r, "approve") : cert'[s] = cert[s]
        /\ req[t] = r => t \in Deciding(r, "approve")' /\ cert'[t] = c
    BY <1>0, <2>1 DEF Deciding, TypeOK
  <2>4. QED BY <2>1, <2>2, <2>3 DEF Stranded
<1>2. ASSUME NEW t \in Threads, Approve(t) PROVE Stranded(r)' \subseteq Stranded(r)
  <2>1. /\ certificate' = [certificate EXCEPT ![req[t]] = cert[t]] /\ UNCHANGED <<req, cert, issuedFor>>
        /\ pc' = [pc EXCEPT ![t] = "logApprove"] /\ pc[t] = "approve"
    BY <1>2 DEF Approve, Goto
  <2>2. SignedFor(r)' = SignedFor(r) /\ SignedFor(r) \subseteq Certs BY <2>1 DEF SignedFor
  <2>3. Deciding(r, "approve") \subseteq Deciding(r, "approve")' \cup {t}
    BY <1>0, <2>1 DEF Deciding, TypeOK
  <2>4. CASE req[t] = r
    <3>1. certificate'[r] = cert[t] BY <1>0, <2>1, <2>4 DEF TypeOK
    <3>2. status[r] \notin Decided BY <2>1, <2>4 DEF Solo, AtWork, Decided
    <3>3. certificate[r] = None BY <3>2 DEF Solo, Consistent
    <3>4. QED BY <1>0, <2>1, <2>2, <2>3, <3>1, <3>3 DEF Stranded
  <2>5. CASE req[t] # r
    <3>1. certificate'[r] = certificate[r] BY <1>0, <2>1, <2>5 DEF TypeOK
    <3>2. Deciding(r, "approve") \subseteq Deciding(r, "approve")' BY <2>3, <2>5 DEF Deciding
    <3>3. QED BY <2>1, <2>2, <3>1, <3>2 DEF Stranded
  <2>6. QED BY <2>4, <2>5
<1>3. ASSUME UNCHANGED <<certificate, issuedFor>>,
             \A s \in Threads : pc[s] = "approve" =>
               pc'[s] = pc[s] /\ req'[s] = req[s] /\ cert'[s] = cert[s]
      PROVE  Stranded(r)' \subseteq Stranded(r)
  <2>1. SignedFor(r)' = SignedFor(r) BY <1>3 DEF SignedFor
  <2>2. /\ Deciding(r, "approve") \subseteq Deciding(r, "approve")'
        /\ \A s \in Deciding(r, "approve") : cert'[s] = cert[s]
    BY <1>3 DEF Deciding
  <2>3. QED BY <1>3, <2>1, <2>2 DEF Stranded
<1>4. ASSUME NEW t \in Threads, NEW q \in Requests,
             Submit(t, q) \/ GetPending(t, q, "issue") \/ GetPending(t, q, "reject")
      PROVE  Stranded(r)' \subseteq Stranded(r)
  BY <1>0, <1>3, <1>4 DEF Submit, GetPending, Goto, TypeOK, rows
<1>5. ASSUME NEW t \in Threads,
             LogSubmit(t) \/ IssueRefused(t) \/ LogApprove(t) \/ LogReject(t)
      PROVE  Stranded(r)' \subseteq Stranded(r)
  BY <1>0, <1>3, <1>5 DEF LogSubmit, IssueRefused, LogApprove, LogReject, Finish, TypeOK, rows
<1>6. ASSUME NEW t \in Threads, Reject(t) PROVE Stranded(r)' \subseteq Stranded(r)
  BY <1>0, <1>3, <1>6 DEF Reject, Goto, TypeOK
<1>7. CASE UNCHANGED vars BY <1>3, <1>7 DEF vars, rows
<1>8. QED BY <1>1, <1>2, <1>4, <1>5, <1>6, <1>7 DEF Next, Step

\* A fault strands the certificate of the one thread that was about to approve.
LEMMA FaultStrands ==
    ASSUME NEW r \in Requests, Solo(r), NEW T \in SUBSET Threads, Finish(T),
           UNCHANGED <<rows, issuedFor>>
    PROVE  \E x : Stranded(r)' \subseteq Stranded(r) \cup {x}
<1>1. SignedFor(r)' = SignedFor(r) /\ certificate' = certificate BY DEF SignedFor, rows
<1>2. \A s \in Threads \ T : pc'[s] = pc[s] /\ req'[s] = req[s] /\ cert'[s] = cert[s]
  BY DEF Finish
<1>3. CASE Deciding(r, "approve") = {} BY <1>1, <1>3 DEF Stranded
<1>4. ASSUME NEW t \in Deciding(r, "approve") PROVE \E x : Stranded(r)' \subseteq Stranded(r) \cup {x}
  <2>1. \A s \in Deciding(r, "approve") : s = t
    BY DEF Solo, Reviewing, Deciding
  <2>2. Stranded(r)' \subseteq Stranded(r) \cup {cert[t]} BY <1>1, <2>1 DEF Stranded
  <2>3. QED BY <2>2
<1>5. QED BY <1>3, <1>4

\* A set within another and one element more.
LEMMA OneMore ==
    ASSUME NEW S, IsFiniteSet(S), NEW x, NEW T, T \subseteq S \cup {x}
    PROVE  Cardinality(T) <= Cardinality(S) + 1
<1>1. Cardinality(S) \in Nat BY FS_CardinalityType
<1>2. CASE x \in S
  <2>1. T \subseteq S BY <1>2
  <2>2. Cardinality(T) \in Nat /\ Cardinality(T) <= Cardinality(S)
    BY <2>1, FS_Subset, FS_CardinalityType
  <2>3. QED BY <1>1, <2>2
<1>3. CASE x \notin S
  <2>1. IsFiniteSet(S \cup {x}) /\ Cardinality(S \cup {x}) = Cardinality(S) + 1
    BY <1>3, FS_AddElement
  <2>2. Cardinality(T) <= Cardinality(S \cup {x}) BY <2>1, FS_Subset
  <2>3. QED BY <2>1, <2>2
<1>4. QED BY <1>2, <1>3

LEMMA StrandedStep ==
    ASSUME SoloInv, StrandedByFaults, [Next]_vars
    PROVE  StrandedByFaults'
<1> SUFFICES ASSUME NEW r \in Requests \ overlapped' PROVE Cardinality(Stranded(r)') <= faults'
  BY DEF StrandedByFaults
<1> r \in Requests \ overlapped /\ IInv /\ Solo(r) BY OverlapsStay DEF SoloInv
<1>0. faults \in Nat /\ faults' \in Nat
  BY StepInv DEF IInv, TypeOK
<1>1. /\ IsFiniteSet(Stranded(r)) /\ Cardinality(Stranded(r)) \in Nat
      /\ Cardinality(Stranded(r)) <= faults
      /\ IsFiniteSet(Stranded(r)') /\ Cardinality(Stranded(r)') \in Nat
  <2>1. Stranded(r) \subseteq Certs /\ Stranded(r)' \subseteq Certs BY DEF Stranded, SignedFor
  <2>2. QED BY <2>1, ConstantsAssumption, FS_Subset, FS_CardinalityType DEF StrandedByFaults
<1>2. ASSUME NEW T \in SUBSET Threads, Finish(T), UNCHANGED <<rows, issuedFor>>,
             faults' = faults + 1
      PROVE  Cardinality(Stranded(r)') <= faults'
  <2>1. PICK x : Stranded(r)' \subseteq Stranded(r) \cup {x} BY <1>2, FaultStrands
  <2>2. Cardinality(Stranded(r)') <= Cardinality(Stranded(r)) + 1 BY <1>1, <2>1, OneMore
  <2>3. QED BY <1>0, <1>1, <1>2, <2>2
<1>3. CASE Restart BY <1>2, <1>3 DEF Restart
<1>4. CASE \E t \in Threads : CommitFails(t) BY <1>2, <1>4 DEF CommitFails
<1>5. CASE ~Restart /\ \A t \in Threads : ~CommitFails(t)
  <2>1. Stranded(r)' \subseteq Stranded(r) BY <1>5, NothingStranded
  <2>2. Cardinality(Stranded(r)') <= Cardinality(Stranded(r)) BY <1>1, <2>1, FS_Subset
  <2>3. faults <= faults'
    <3>1. faults' = faults
      BY <1>5 DEF Next, Step, Submit, GetPending, LogSubmit, Issue, IssueRefused, Approve, LogApprove,
         Reject, LogReject, vars
    <3>2. QED BY <1>0, <3>1
  <2>4. QED BY <1>0, <1>1, <2>2, <2>3
<1>6. QED BY <1>3, <1>4, <1>5

\* Unless two reviews of a request have overlapped, it has at most one certificate that
\* nobody knows of for each commit that failed and each restart.
THEOREM StrandedOnlyByFaults == Spec => []StrandedByFaults
<1>1. Init => StrandedByFaults
  <2> SUFFICES ASSUME Init, NEW r \in Requests PROVE Cardinality(Stranded(r)) <= faults
    BY DEF StrandedByFaults
  <2>1. Stranded(r) = {} BY ConstantsAssumption DEF Init, Stranded, SignedFor
  <2>2. QED BY <2>1, FS_EmptySet DEF Init
<1>2. SoloInv /\ StrandedByFaults /\ [Next]_vars => StrandedByFaults' BY StrandedStep
<1>3. QED BY <1>1, <1>2, SoloInvariant, PTL DEF Spec

\* The approvals in the log account for every certificate signed, and those that nobody
\* fetches for no more than the faults, but for overlaps.
THEOREM ApprovalsAlwaysAccountedFor == Spec => []ApprovalsAccountedFor
BY CertificatesAlwaysAccountedFor, StrandedOnlyByFaults, PTL DEF ApprovalsAccountedFor
-----------------------------------------------------------------------------
(* What the certificates are good for (ProfilePolicy) *)

\* A root made on day r, the intermediate it signed on day i, and a leaf that this
\* one signed on day d.
Chain(code, csr, asked, r, i, d) ==
    <<LeafCertificate(Profiles[code], csr, asked, d), IntermediateCertificate(i), RootCertificate(r)>>

\* A chain is accepted on a day if it is one of all three certificates, whatever
\* their number of days: nothing else in what ca_engine.py builds is in the way.
\* One signed late in the life of its intermediate is not accepted to its own last
\* day (cert_service.py compares the two nowhere).
THEOREM AcceptedWithinAllValidities ==
    ASSUME NEW code \in Codes, NEW csr \in Csrs, NEW asked \in Int,
           NEW r \in Int, NEW i \in Int, NEW d \in Int, r <= i, i <= d, NEW day \in Int
    PROVE  Accepted(Chain(code, csr, asked, r, i, d), day) <=>
             /\ d - 1 <= day /\ day <= d + EffectiveDays(Profiles[code], asked)
             /\ day <= i + 1827 /\ day <= r + 3653
<1> DEFINE leaf == LeafCertificate(Profiles[code], csr, asked, d)
           inter == IntermediateCertificate(i)
           root == RootCertificate(r)
           chain == <<leaf, inter, root>>
<1>1. EffectiveDays(Profiles[code], asked) \in Int BY DEF Codes, Profiles, EffectiveDays
<1>2. /\ leaf.from = d - 1 /\ leaf.to = d + EffectiveDays(Profiles[code], asked)
      /\ inter.from = i - 1 /\ inter.to = i + 1827 /\ inter.ca /\ inter.pathLen = 0
      /\ "key_cert_sign" \in inter.usage
      /\ root.from = r - 1 /\ root.to = r + 3653 /\ root.ca /\ root.pathLen = -1
      /\ "key_cert_sign" \in root.usage
  BY DEF LeafCertificate, IntermediateCertificate, RootCertificate, CaKeyUsage
<1>3. DOMAIN chain = {1, 2, 3} /\ chain[1] = leaf /\ chain[2] = inter /\ chain[3] = root
  OBVIOUS
<1>4. Chain(code, csr, asked, r, i, d) = chain BY DEF Chain
<1> HIDE DEF leaf, inter, root, chain
<1>5. Accepted(chain, day) <=>
        /\ leaf.from <= day /\ day <= leaf.to /\ inter.from <= day /\ day <= inter.to
        /\ root.from <= day /\ day <= root.to
  BY <1>2, <1>3 DEF Accepted
<1>6. QED BY <1>1, <1>2, <1>4, <1>5

\* No certificate that is signed for a CSR, under any profile and for any number of
\* days, signs another that is accepted, on any day.
THEOREM LeavesSignNothing ==
    ASSUME NEW code \in Codes, NEW csr \in Csrs, NEW asked \in Int,
           NEW r \in Int, NEW i \in Int, NEW d \in Int, NEW day \in Int, NEW below
    PROVE  ~Accepted(<<below>> \o Chain(code, csr, asked, r, i, d), day)
<1> DEFINE leaf == LeafCertificate(Profiles[code], csr, asked, d)
           longer == <<below>> \o Chain(code, csr, asked, r, i, d)
<1>1. 2 \in DOMAIN longer /\ longer[2] = leaf BY DEF Chain
<1>2. ~leaf.ca BY DEF LeafCertificate
<1> HIDE DEF leaf, longer
<1>3. ~Accepted(longer, day) BY <1>1, <1>2 DEF Accepted
<1>4. QED BY <1>3 DEF longer
\* Nor would a CA certificate under the intermediate do, whoever had made it: the path
\* length in the intermediate's forbids it.
THEOREM IntermediateSignsOnlyLeaves ==
    ASSUME NEW r \in Int, NEW i \in Int, NEW day \in Int, NEW sub, NEW below
    PROVE  ~Accepted(<<below, sub, IntermediateCertificate(i), RootCertificate(r)>>, day)
<1> DEFINE inter == IntermediateCertificate(i)
           longer == <<below, sub, inter, RootCertificate(r)>>
<1>1. 3 \in DOMAIN longer \ {1} /\ longer[3] = inter OBVIOUS
<1>2. inter.pathLen = 0 BY DEF IntermediateCertificate
<1> HIDE DEF inter, longer
<1>3. ~Accepted(longer, day) BY <1>1, <1>2 DEF Accepted
<1>4. QED BY <1>3 DEF longer, inter
=============================================================================
