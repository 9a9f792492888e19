---------------------------- MODULE CertRequests ----------------------------
(***************************************************************************)
(* The request/approval workflow of services/cert_request_service.py: a    *)
(* requester submits a CSR, an operator or admin approves it, which signs  *)
(* it, or rejects it.                                                      *)
(*                                                                         *)
(* A request thread reads the row once (_get_pending_or_raise) and decides *)
(* on what it read; an approval then commits twice, the certificate        *)
(* (cert_service.issue_certificate) and the decision, and an UPDATE writes *)
(* only the columns that were assigned, whatever the row holds by then.    *)
(***************************************************************************)
EXTENDS Naturals, FiniteSets

CONSTANTS
    Requests,   \* rows the certificate_requests table may hold
    Certs,      \* rows the certificates table may hold
    Threads,    \* request threads, of requesters and of reviewers
    None,       \* Python's None
    MaxFaults   \* bound: failed commits and process restarts

ASSUME ConstantsAssumption ==
    /\ None \notin Requests \cup Certs \cup Threads
    /\ IsFiniteSet(Certs) /\ IsFiniteSet(Threads)
    /\ MaxFaults \in Nat

VARIABLES
    \* --- certificate_requests
    status,       \* "absent" before the row is inserted
    reviewer,     \* reviewed_by_user_id (a thread stands for its user)
    reason,       \* rejection_reason is set
    certificate,  \* certificate_id
    \* --- other tables
    issuedFor,    \* the request a certificate was signed for, None before the row exists
    logged,       \* number of audit entries of each action on a request
    \* --- threads
    pc, req, cert,
    \* --- bookkeeping
    overlapped,   \* the requests at which two reviews have overlapped
    faults        \* counts up to the bound

rows == <<status, reviewer, reason, certificate>>
vars == <<rows, issuedFor, logged, pc, req, cert, overlapped, faults>>

Actions == {"certrequest.submit", "certrequest.approve", "certrequest.reject"}
Decided == {"approved", "rejected"}

\* The certificates signed for a request.
SignedFor(r) == {c \in Certs : issuedFor[c] = r}
-----------------------------------------------------------------------------
Init ==
    /\ status = [r \in Requests |-> "absent"]
    /\ reviewer = [r \in Requests |-> None]
    /\ reason = [r \in Requests |-> FALSE]
    /\ certificate = [r \in Requests |-> None]
    /\ issuedFor = [c \in Certs |-> None]
    /\ logged = [a \in Actions |-> [r \in Requests |-> 0]]
    /\ pc = [t \in Threads |-> "idle"]
    /\ req = [t \in Threads |-> None]
    /\ cert = [t \in Threads |-> None]
    /\ overlapped = {}
    /\ faults = 0

Goto(t, step) == pc' = [pc EXCEPT ![t] = step]

\* The requests of the threads in T are over, answered or not.
Finish(T) ==
    /\ pc' = [t \in Threads |-> IF t \in T THEN "idle" ELSE pc[t]]
    /\ req' = [t \in Threads |-> IF t \in T THEN None ELSE req[t]]
    /\ cert' = [t \in Threads |-> IF t \in T THEN None ELSE cert[t]]

\* log_action
Log(t, action) == logged' = [logged EXCEPT ![action][req[t]] = @ + 1]
-----------------------------------------------------------------------------
\* submit_request: a CSR that the profile does not admit (ProfilePolicy) changes
\* nothing.
Submit(t, r) ==
    /\ pc[t] = "idle"
    /\ status[r] = "absent"
    /\ status' = [status EXCEPT ![r] = "pending"]
    /\ req' = [req EXCEPT ![t] = r]
    /\ Goto(t, "logSubmit")
    /\ UNCHANGED <<reviewer, reason, certificate, issuedFor, logged, cert, overlapped, faults>>

LogSubmit(t) ==
    /\ pc[t] = "logSubmit"
    /\ Log(t, "certrequest.submit")
    /\ Finish({t})
    /\ UNCHANGED <<rows, issuedFor, overlapped, faults>>

\* A thread is between the read of r and the commit of the decision.
Reviewing(t, r) == pc[t] \in {"issue", "approve", "reject"} /\ req[t] = r

\* Nothing in the code keeps a second reviewer away, so the model notes it.
Note(r) ==
    overlapped' = IF \E t \in Threads : Reviewing(t, r) THEN overlapped \cup {r} ELSE overlapped

\* Mutant: what was decided is taken up again.
GetAny(t, r, next) ==
    /\ pc[t] = "idle"
    /\ status[r] # "absent"
    /\ req' = [req EXCEPT ![t] = r]
    /\ Goto(t, next)
    /\ Note(r)
    /\ UNCHANGED <<rows, issuedFor, logged, cert, faults>>

\* _get_pending_or_raise: not_found and not_pending change nothing.
GetPending(t, r, next) ==
    /\ pc[t] = "idle"
    /\ status[r] = "pending"
    /\ req' = [req EXCEPT ![t] = r]
    /\ Goto(t, next)
    /\ Note(r)
    /\ UNCHANGED <<rows, issuedFor, logged, cert, faults>>

\* Mutant: the certificate that was signed is not kept.
IssueUnrecorded(t, c) ==
    /\ pc[t] = "issue"
    /\ issuedFor[c] = None
    /\ issuedFor' = [issuedFor EXCEPT ![c] = req[t]]
    /\ Goto(t, "approve")
    /\ UNCHANGED <<rows, logged, req, cert, overlapped, faults>>

\* approve_request calls issue_certificate, which commits the new row ...
Issue(t, c) ==
    /\ pc[t] = "issue"
    /\ issuedFor[c] = None
    /\ issuedFor' = [issuedFor EXCEPT ![c] = req[t]]
    /\ cert' = [cert EXCEPT ![t] = c]
    /\ Goto(t, "approve")
    /\ UNCHANGED <<rows, logged, req, overlapped, faults>>

\* Mutant: it refuses what it has signed and committed already.
RefusedTooLate(t) ==
    /\ pc[t] = "issue"
    /\ \E c \in Certs : /\ issuedFor[c] = None
                        /\ issuedFor' = [issuedFor EXCEPT ![c] = req[t]]
    /\ Finish({t})
    /\ UNCHANGED <<rows, logged, overlapped, faults>>

\* ... or refuses (issuance_failed), and the request stays pending.
IssueRefused(t) ==
    /\ pc[t] = "issue"
    /\ Finish({t})
    /\ UNCHANGED <<rows, issuedFor, logged, overlapped, faults>>

\* Mutant: the certificate is not recorded with the decision.
ApproveOnly(t) ==
    /\ pc[t] = "approve"
    /\ status' = [status EXCEPT ![req[t]] = "approved"]
    /\ reviewer' = [reviewer EXCEPT ![req[t]] = t]
    /\ Goto(t, "logApprove")
    /\ UNCHANGED <<reason, certificate, issuedFor, logged, req, cert, overlapped, faults>>

\* The second commit of approve_request.
Approve(t) ==
    /\ pc[t] = "approve"
    /\ status' = [status EXCEPT ![req[t]] = "approved"]
    /\ reviewer' = [reviewer EXCEPT ![req[t]] = t]
    /\ certificate' = [certificate EXCEPT ![req[t]] = cert[t]]
    /\ Goto(t, "logApprove")
    /\ UNCHANGED <<reason, issuedFor, logged, req, cert, overlapped, faults>>

\* Mutant: the approval is logged as a rejection.
LogApproveWrong(t) ==
    /\ pc[t] = "logApprove"
    /\ Log(t, "certrequest.reject")
    /\ Finish({t})
    /\ UNCHANGED <<rows, issuedFor, overlapped, faults>>

LogApprove(t) ==
    /\ pc[t] = "logApprove"
    /\ Log(t, "certrequest.approve")
    /\ Finish({t})
    /\ UNCHANGED <<rows, issuedFor, overlapped, faults>>

\* reject_request
Reject(t) ==
    /\ pc[t] = "reject"
    /\ status' = [status EXCEPT ![req[t]] = "rejected"]
    /\ reviewer' = [reviewer EXCEPT ![req[t]] = t]
    /\ reason' = [reason EXCEPT ![req[t]] = TRUE]
    /\ Goto(t, "logReject")
    /\ UNCHANGED <<certificate, issuedFor, logged, req, cert, overlapped, faults>>

LogReject(t) ==
    /\ pc[t] = "logReject"
    /\ Log(t, "certrequest.reject")
    /\ Finish({t})
    /\ UNCHANGED <<rows, issuedFor, overlapped, faults>>

\* get_owned_certificate: what the owner of a request is given, if anything.
Delivered(r) ==
    IF status[r] = "approved" /\ certificate[r] # None THEN certificate[r] ELSE None
-----------------------------------------------------------------------------
\* A commit raises ("database is locked"), or issue_certificate does after its
\* own commit (its audit entry): the thread's request ends with status 500.
CommitFails(t) ==
    /\ pc[t] \in {"logSubmit", "issue", "approve", "logApprove", "reject", "logReject"}
    /\ faults < MaxFaults
    /\ faults' = faults + 1
    /\ Finish({t})
    /\ UNCHANGED <<rows, issuedFor, logged, overlapped>>

\* The process exits and is started again.
Restart ==
    /\ faults < MaxFaults
    /\ faults' = faults + 1
    /\ Finish(Threads)
    /\ UNCHANGED <<rows, issuedFor, logged, overlapped>>

Step(t) ==
    \/ LogSubmit(t)
    \/ \E c \in Certs : Issue(t, c)
    \/ IssueRefused(t)
    \/ Approve(t)
    \/ LogApprove(t)
    \/ Reject(t)
    \/ LogReject(t)

Next ==
    \/ \E t \in Threads :
         \/ \E r \in Requests : \/ Submit(t, r)
                                \/ GetPending(t, r, "issue")
                                \/ GetPending(t, r, "reject")
         \/ Step(t)
         \/ CommitFails(t)
    \/ Restart

Spec == Init /\ [][Next]_vars
-----------------------------------------------------------------------------
(* Properties *)

Steps == {"idle", "logSubmit", "issue", "approve", "logApprove", "reject", "logReject"}

\* The type invariant; a thread that is reviewing has a request, and one that
\* is about to approve it has signed a certificate for it.
TypeOK ==
    /\ status \in [Requests -> {"absent", "pending"} \cup Decided]
    /\ reviewer \in [Requests -> Threads \cup {None}]
    /\ reason \in [Requests -> BOOLEAN]
    /\ certificate \in [Requests -> Certs \cup {None}]
    /\ issuedFor \in [Certs -> Requests \cup {None}]
    /\ logged \in [Actions -> [Requests -> Nat]]
    /\ pc \in [Threads -> Steps]
    /\ req \in [Threads -> Requests \cup {None}]
    /\ cert \in [Threads -> Certs \cup {None}]
    /\ overlapped \in SUBSET Requests
    /\ faults \in Nat
    /\ \A t \in Threads :
         /\ pc[t] # "idle" => req[t] \in Requests
         /\ pc[t] \in {"approve", "logApprove"} =>
              cert[t] \in Certs /\ issuedFor[cert[t]] = req[t]

\* An approved request has a certificate, and it is one that was signed for
\* this very request, however reviews overlap and whatever fails.
ApprovedHasItsCertificate ==
    \A r \in Requests :
      /\ status[r] = "approved" => Delivered(r) # None
      /\ certificate[r] # None => issuedFor[certificate[r]] = r

\* The threads between a decision of r and its audit entry.
Deciding(r, step) == {t \in Threads : pc[t] = step /\ req[t] = r}

\* With no fault, every decision that has left a trace in the row has an audit
\* entry or is about to get it, one that was overwritten by another included.
DecisionLogged ==
    faults = 0 =>
      \A r \in Requests :
        /\ certificate[r] # None /\ logged["certrequest.approve"][r] = 0
             => Deciding(r, "logApprove") # {}
        /\ reason[r] /\ logged["certrequest.reject"][r] = 0
             => Deciding(r, "logReject") # {}

\* With no fault, the approvals in the audit log account for every certificate
\* signed for a request, those that the row forgot included.
CertificatesAccountedFor ==
    faults = 0 =>
      \A r \in Requests :
        Cardinality(SignedFor(r)) = logged["certrequest.approve"][r]
          + Cardinality(Deciding(r, "approve")) + Cardinality(Deciding(r, "logApprove"))

\* What was decided stays decided, as it was and by whom, whatever fails, unless
\* two reviewers were at the request together.
DecisionsFinal ==
    [][\A r \in Requests \ overlapped' : status[r] \in Decided =>
         /\ status'[r] = status[r] /\ reviewer'[r] = reviewer[r]
         /\ reason'[r] = reason[r] /\ certificate'[r] = certificate[r]]_vars

\* The audit log tells of one decision of such a request at most, and of the one in
\* its row.
LogTellsDecision ==
    \A r \in Requests \ overlapped :
      /\ logged["certrequest.approve"][r] + logged["certrequest.reject"][r] <= 1
      /\ logged["certrequest.approve"][r] # 0 => status[r] = "approved"
      /\ logged["certrequest.reject"][r] # 0 => status[r] = "rejected"

\* The log of decisions, as a reader of it would want it: none is missing and, where
\* reviews have not overlapped, none is there that the row does not show.
DecisionsInLog == DecisionLogged /\ LogTellsDecision

\* The certificates signed for r that neither its row nor a thread that is about
\* to approve it knows of: valid, and delivered to no one.
Stranded(r) ==
    SignedFor(r) \ ({certificate[r]} \cup {cert[t] : t \in Deciding(r, "approve")})

\* An approval that is cut short strands one certificate of a request; but for
\* overlaps nothing else does, however often the request is reviewed again.
StrandedByFaults == \A r \in Requests \ overlapped : Cardinality(Stranded(r)) <= faults

\* No certificate of an approval is lost sight of: the log accounts for each, and those
\* that no row points at are no more than the faults, but for overlaps.
ApprovalsAccountedFor == CertificatesAccountedFor /\ StrandedByFaults
=============================================================================
