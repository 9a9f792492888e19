---------------------------- MODULE CertLifecycle ----------------------------
(***************************************************************************)
(* Issuing, renewing and revoking certificates, and publishing the CRL:    *)
(* services/cert_service.py, services/revocation_service.py,               *)
(* core/crypto/crl.py and the crl_refresh job of scheduler.py.             *)
(*                                                                         *)
(* Every HTTP request runs in a thread of its own (Workers) with its own   *)
(* database session; the periodic job is one more thread (Job).  SQLite    *)
(* makes each statement and each commit atomic; a SELECT sees the latest   *)
(* commit and holds no lock, so between two of the steps below any other   *)
(* thread may run.  What a session has read into an ORM object it keeps:   *)
(* `seen' is the status of a renewal's predecessor, `caView' the           *)
(* crl_number of the CA rows.                                              *)
(***************************************************************************)
EXTENDS Naturals, FiniteSets

CONSTANTS
    Certs,         \* rows the certificates table may ever hold
    PreIssued,     \* those issued before the behaviour starts
    Workers,       \* request threads
    Job,           \* the crl_refresh thread (max_instances = 1)
    Root,          \* the root CA
    Intermediate,  \* the intermediate CA, which issued every certificate
    Cas,           \* the active CAs: both, or the intermediate alone to leave the root out
    NoCert,        \* Python's None
    MaxIdleRuns,   \* bound: runs of the job that find the CRLs complete
    MaxFaults      \* bound: failed commits and process restarts

Procs == Workers \cup {Job}

ASSUME ConstantsAssumption ==
    /\ PreIssued \subseteq Certs
    /\ NoCert \notin Certs
    /\ Job \notin Workers
    /\ Root # Intermediate
    /\ Cas \in {{Intermediate}, {Root, Intermediate}}
    /\ MaxIdleRuns \in Nat
    /\ MaxFaults \in Nat

VARIABLES
    \* --- the database
    status,        \* certificates.status, "absent" before the row is inserted
    revocations,   \* certificates with a row in revocations (certificate_id is UNIQUE)
    crlNumber,     \* certificate_authorities.crl_number
    crls,          \* crl_issuances of each CA, what a row says of number and entries
    audit,         \* number of audit_log entries for an action on a certificate
    \* --- the process
    rootUnlocked,  \* key_vault.root_key is not None
    pc,            \* the step a thread is at
    target,        \* the certificate a request revokes (a renewal's predecessor)
    seen,          \* the status the session read of it
    fresh,         \* the certificate a request has issued
    caView,        \* crl_number of the CA rows, as the session last saw them
    todo,          \* CAs whose CRL the thread has still to refresh
    ca,            \* the CA whose CRL it is building
    listing,       \* certificates listed in the CRL it has signed
    \* --- bookkeeping
    overlapped,    \* have two refreshes overlapped?
    idleRuns, faults  \* count up to the bounds

db == <<status, revocations, crlNumber, crls, audit>>
locals == <<target, seen, fresh, caView, todo, ca, listing>>
book == <<overlapped, idleRuns, faults>>
vars == <<db, rootUnlocked, pc, locals, book>>

Revoked == {c \in Certs : status[c] = "revoked"}

\* The rows build_crl's join selects for a CA: only the intermediate issues certificates.
RevokedBy(a) ==
    IF a = Intermediate
    THEN {c \in Certs : status[c] = "revoked" /\ c \in revocations}
    ELSE {}

\* get_ca_crl answers with a row of the highest number (any of them: nothing
\* orders rows of one number).
Served(a) == {i \in crls[a] : \A j \in crls[a] : j.number <= i.number}

\* Whichever row is served lists every revoked certificate.
Complete(a) == \A i \in Served(a) : RevokedBy(a) \subseteq i.listed

\* _issuer_key_for: the intermediate's key is loaded whenever requests are served.
KeyAvailable(a) == a = Intermediate \/ rootUnlocked
-----------------------------------------------------------------------------
\* The CAs exist; the empty CRL that init_root and init_intermediate try to
\* publish may be missing.
Init ==
    /\ status = [c \in Certs |-> IF c \in PreIssued THEN "valid" ELSE "absent"]
    /\ revocations = {}
    /\ \E initial \in SUBSET Cas :
         /\ crlNumber = [a \in Cas |-> IF a \in initial THEN 1 ELSE 0]
         /\ crls = [a \in Cas |-> IF a \in initial
                                  THEN {[number |-> 1, listed |-> {}]} ELSE {}]
    /\ audit = [e \in {"cert.issue", "cert.revoke"} |-> [c \in Certs |->
                  IF e = "cert.issue" /\ c \in PreIssued THEN 1 ELSE 0]]
    /\ rootUnlocked = FALSE
    /\ pc = [p \in Procs |-> "idle"]
    /\ target = [p \in Procs |-> NoCert]
    /\ seen = [p \in Procs |-> "absent"]
    /\ fresh = [p \in Procs |-> NoCert]
    /\ caView = [p \in Procs |-> [a \in Cas |-> 0]]
    /\ todo = [p \in Procs |-> {}]
    /\ ca = [p \in Procs |-> Intermediate]
    /\ listing = [p \in Procs |-> {}]
    /\ overlapped = FALSE
    /\ idleRuns = 0
    /\ faults = 0

Goto(p, step) == pc' = [pc EXCEPT ![p] = step]

\* The sessions of the threads in P are closed: what they held is gone.
Close(P) ==
    /\ seen' = [p \in Procs |-> IF p \in P THEN "absent" ELSE seen[p]]
    /\ caView' = [p \in Procs |-> IF p \in P THEN [a \in Cas |-> 0] ELSE caView[p]]
    /\ todo' = [p \in Procs |-> IF p \in P THEN {} ELSE todo[p]]
    /\ ca' = [p \in Procs |-> IF p \in P THEN Intermediate ELSE ca[p]]
    /\ listing' = [p \in Procs |-> IF p \in P THEN {} ELSE listing[p]]

\* ... and the request is over (a failed one is remembered in target and fresh).
Finish(P) ==
    /\ Close(P)
    /\ pc' = [p \in Procs |-> IF p \in P THEN "idle" ELSE pc[p]]
    /\ target' = [p \in Procs |-> IF p \in P THEN NoCert ELSE target[p]]
    /\ fresh' = [p \in Procs |-> IF p \in P THEN NoCert ELSE fresh[p]]

Fail(w) ==
    /\ Close({w})
    /\ Goto(w, "failed")
    /\ UNCHANGED <<target, fresh>>

\* A request may start in a thread that has finished or failed its last one.
Free(w) == pc[w] \in {"idle", "failed"}
-----------------------------------------------------------------------------
(* issue_certificate, and renew_certificate around it *)

IssueBegin(w) ==
    /\ Free(w)
    /\ target' = [target EXCEPT ![w] = NoCert]
    /\ fresh' = [fresh EXCEPT ![w] = NoCert]
    /\ seen' = [seen EXCEPT ![w] = "absent"]
    /\ Goto(w, "issue")
    /\ UNCHANGED <<db, rootUnlocked, caView, todo, ca, listing, book>>

\* db.get(Certificate, predecessor_cert_id): the object stays in the session
\* with the status it has now.
RenewBegin(w, c) ==
    /\ Free(w)
    /\ status[c] # "absent"
    /\ target' = [target EXCEPT ![w] = c]
    /\ fresh' = [fresh EXCEPT ![w] = NoCert]
    /\ seen' = [seen EXCEPT ![w] = status[c]]
    /\ Goto(w, "issue")
    /\ UNCHANGED <<db, rootUnlocked, caView, todo, ca, listing, book>>

\* The INSERT of the new row, under a serial that no row has.
IssueCommit(w, c) ==
    /\ pc[w] = "issue"
    /\ status[c] = "absent"
    /\ status' = [status EXCEPT ![c] = "valid"]
    /\ fresh' = [fresh EXCEPT ![w] = c]
    /\ Goto(w, "logIssue")
    /\ UNCHANGED <<revocations, crlNumber, crls, audit, rootUnlocked,
                   target, seen, caView, todo, ca, listing, book>>

\* CertIssuanceError: no intermediate, unknown profile, a CSR or a validity the
\* profile does not admit, or five serials in a row already taken.
IssueRefused(w) ==
    /\ pc[w] = "issue"
    /\ Finish({w})
    /\ UNCHANGED <<db, rootUnlocked, book>>

\* Mutant: the renewal supersedes whatever is not known to be revoked.
SupersedeAnything(w) ==
    /\ pc[w] = "logIssue"
    /\ audit' = [audit EXCEPT !["cert.issue"][fresh[w]] = @ + 1]
    /\ IF seen[w] # "revoked"
       THEN Goto(w, "revoke") /\ UNCHANGED locals
       ELSE Finish({w})
    /\ UNCHANGED <<status, revocations, crlNumber, crls, rootUnlocked, book>>

\* Mutant: only plain issuance writes the audit entry.
RenewalNotLogged(w) ==
    /\ pc[w] = "logIssue"
    /\ audit' = [audit EXCEPT !["cert.issue"][fresh[w]] =
                    IF target[w] = NoCert THEN @ + 1 ELSE @]
    /\ IF target[w] # NoCert /\ seen[w] = "valid"
       THEN Goto(w, "revoke") /\ UNCHANGED locals
       ELSE Finish({w})
    /\ UNCHANGED <<status, revocations, crlNumber, crls, rootUnlocked, book>>

\* log_action; a renewal then goes on to supersede its predecessor if the
\* status it read at the start was VALID.
LogIssue(w) ==
    /\ pc[w] = "logIssue"
    /\ audit' = [audit EXCEPT !["cert.issue"][fresh[w]] = @ + 1]
    /\ IF target[w] # NoCert /\ seen[w] = "valid"
       THEN Goto(w, "revoke") /\ UNCHANGED locals
       ELSE Finish({w})
    /\ UNCHANGED <<status, revocations, crlNumber, crls, rootUnlocked, book>>
-----------------------------------------------------------------------------
(* revoke_certificate *)

\* The checks: the certificate exists and was not REVOKED when it was read.
RevokeBegin(w, c) ==
    /\ Free(w)
    /\ status[c] = "valid"
    /\ target' = [target EXCEPT ![w] = c]
    /\ fresh' = [fresh EXCEPT ![w] = NoCert]
    /\ seen' = [seen EXCEPT ![w] = status[c]]
    /\ Goto(w, "revoke")
    /\ UNCHANGED <<db, rootUnlocked, caView, todo, ca, listing, book>>

\* Mutant: no commit before the CRL is built.
CommitForgotten(w) ==
    /\ pc[w] = "revoke"
    /\ target[w] \notin revocations
    /\ Goto(w, "loadCa")
    /\ UNCHANGED <<db, rootUnlocked, locals, book>>

\* One commit writes the status and the revocations row.
RevokeCommit(w) ==
    /\ pc[w] = "revoke"
    /\ target[w] \notin revocations
    /\ status' = [status EXCEPT ![target[w]] = "revoked"]
    /\ revocations' = revocations \cup {target[w]}
    /\ Goto(w, "loadCa")
    /\ UNCHANGED <<crlNumber, crls, audit, rootUnlocked, locals, book>>

\* revocations.certificate_id is UNIQUE: IntegrityError, and the request ends
\* with status 500.
RevokeConflict(w) ==
    /\ pc[w] = "revoke"
    /\ target[w] \in revocations
    /\ Fail(w)
    /\ UNCHANGED <<db, rootUnlocked, book>>

\* Mutant: the CRL is left to the job.
RefreshForgotten(w) ==
    /\ pc[w] = "loadCa"
    /\ Goto(w, "logRevoke")
    /\ UNCHANGED <<db, rootUnlocked, locals, book>>

Refreshing == {p \in Procs : pc[p] \in {"refresh", "commitCrl"}}

\* Nothing in the code keeps a refresh from beginning while another is between its
\* read of crl_number and its commit: the model notes that one does.
NoteOverlap == overlapped' = (overlapped \/ Refreshing # {})

\* db.get(CertificateAuthority, cert.ca_id)
LoadCa(w) ==
    /\ pc[w] = "loadCa"
    /\ NoteOverlap
    /\ caView' = [caView EXCEPT ![w][Intermediate] = crlNumber[Intermediate]]
    /\ todo' = [todo EXCEPT ![w] = {Intermediate}]
    /\ Goto(w, "refresh")
    /\ UNCHANGED <<db, rootUnlocked, target, seen, fresh, ca, listing, idleRuns, faults>>
-----------------------------------------------------------------------------
(* refresh_crl, in a request or in the job *)

\* Mutant: a new CRL is the served one plus the certificate just revoked.
AppendToServed(p, a) ==
    /\ pc[p] = "refresh"
    /\ a \in todo[p]
    /\ KeyAvailable(a)
    /\ caView' = [caView EXCEPT ![p][a] = @ + 1]
    /\ \E old \in {{}} \cup {i.listed : i \in Served(a)} :
         listing' = [listing EXCEPT ![p] = old \cup ({target[p]} \ {NoCert})]
    /\ ca' = [ca EXCEPT ![p] = a]
    /\ todo' = [todo EXCEPT ![p] = @ \ {a}]
    /\ Goto(p, "commitCrl")
    /\ UNCHANGED <<db, rootUnlocked, target, seen, fresh, book>>

\* build_crl: the number comes from the object in the session, the entries
\* from the database as it is now.
BuildCrl(p, a) ==
    /\ pc[p] = "refresh"
    /\ a \in todo[p]
    /\ KeyAvailable(a)
    /\ caView' = [caView EXCEPT ![p][a] = @ + 1]
    /\ listing' = [listing EXCEPT ![p] = RevokedBy(a)]
    /\ ca' = [ca EXCEPT ![p] = a]
    /\ todo' = [todo EXCEPT ![p] = @ \ {a}]
    /\ Goto(p, "commitCrl")
    /\ UNCHANGED <<db, rootUnlocked, target, seen, fresh, book>>

\* refresh_crl returns None: the job goes on with the next CA.
SkipCrl(p, a) ==
    /\ pc[p] = "refresh"
    /\ a \in todo[p]
    /\ ~KeyAvailable(a)
    /\ todo' = [todo EXCEPT ![p] = @ \ {a}]
    /\ UNCHANGED <<db, rootUnlocked, pc, target, seen, fresh, caView, ca, listing, book>>

\* Mutant: the issuance is inserted, the CA's crl_number is not updated.
NumberNotStored(p) ==
    /\ pc[p] = "commitCrl"
    /\ crls' = [crls EXCEPT ![ca[p]] =
                  @ \cup {[number |-> caView[p][ca[p]], listed |-> listing[p]]}]
    /\ listing' = [listing EXCEPT ![p] = {}]
    /\ ca' = [ca EXCEPT ![p] = Intermediate]
    /\ Goto(p, "refresh")
    /\ UNCHANGED <<status, revocations, crlNumber, audit, rootUnlocked,
                   target, seen, fresh, caView, todo, book>>

\* One commit inserts the issuance and updates the CA's crl_number.
CommitCrl(p) ==
    /\ pc[p] = "commitCrl"
    /\ crlNumber' = [crlNumber EXCEPT ![ca[p]] = caView[p][ca[p]]]
    /\ crls' = [crls EXCEPT ![ca[p]] =
                  @ \cup {[number |-> caView[p][ca[p]], listed |-> listing[p]]}]
    /\ listing' = [listing EXCEPT ![p] = {}]
    /\ ca' = [ca EXCEPT ![p] = Intermediate]
    /\ Goto(p, "refresh")
    /\ UNCHANGED <<status, revocations, audit, rootUnlocked,
                   target, seen, fresh, caView, todo, book>>

RefreshDone(p) ==
    /\ pc[p] = "refresh"
    /\ todo[p] = {}
    /\ IF p = Job
       THEN Finish({Job})
       ELSE /\ Close({p})
            /\ Goto(p, "logRevoke")
            /\ UNCHANGED <<target, fresh>>
    /\ UNCHANGED <<db, rootUnlocked, book>>

LogRevoke(w) ==
    /\ pc[w] = "logRevoke"
    /\ audit' = [audit EXCEPT !["cert.revoke"][target[w]] = @ + 1]
    /\ Finish({w})
    /\ UNCHANGED <<status, revocations, crlNumber, crls, rootUnlocked, book>>

\* Mutant: the job refreshes the root's CRL only.
RefreshRootOnly ==
    /\ pc[Job] = "idle"
    /\ \E a \in Cas : ~Complete(a)
    /\ caView' = [caView EXCEPT ![Job] = crlNumber]
    /\ todo' = [todo EXCEPT ![Job] = Cas \ {Intermediate}]
    /\ Goto(Job, "refresh")
    /\ UNCHANGED <<db, rootUnlocked, target, seen, fresh, ca, listing, book>>

\* _refresh_all_crls loads every active CA in one query.  Runs that find
\* nothing missing from a served CRL only roll next_update forward:
\* MaxIdleRuns bounds them.
RefreshAllBegin ==
    /\ pc[Job] = "idle"
    /\ NoteOverlap
    /\ \/ \E a \in Cas : ~Complete(a) /\ UNCHANGED idleRuns
       \/ /\ \A a \in Cas : Complete(a)
          /\ idleRuns < MaxIdleRuns
          /\ idleRuns' = idleRuns + 1
    /\ caView' = [caView EXCEPT ![Job] = crlNumber]
    /\ todo' = [todo EXCEPT ![Job] = Cas]
    /\ Goto(Job, "refresh")
    /\ UNCHANGED <<db, rootUnlocked, target, seen, fresh, ca, listing, faults>>
-----------------------------------------------------------------------------
(* The environment *)

\* The admin unlocks or locks the root (key_vault.unlock_root, lock_root).
ToggleRoot ==
    /\ Root \in Cas
    /\ rootUnlocked' = ~rootUnlocked
    /\ UNCHANGED <<db, pc, locals, book>>

CommitSteps == {"issue", "logIssue", "revoke", "commitCrl", "logRevoke"}

\* The commit raises ("database is locked"): nothing is written, the request
\* ends with status 500, the job's run ends.
CommitFails(p) ==
    /\ pc[p] \in CommitSteps
    /\ faults < MaxFaults
    /\ faults' = faults + 1
    /\ IF p = Job THEN Finish({Job}) ELSE Fail(p)
    /\ UNCHANGED <<db, rootUnlocked, overlapped, idleRuns>>

\* The process exits and is started again: requests in flight are gone, the
\* root is locked.
Restart ==
    /\ faults < MaxFaults
    /\ faults' = faults + 1
    /\ rootUnlocked' = FALSE
    /\ Finish(Procs)
    /\ UNCHANGED <<db, overlapped, idleRuns>>
-----------------------------------------------------------------------------
WorkerStep(w) ==
    \/ \E c \in Certs : IssueCommit(w, c)
    \/ IssueRefused(w)
    \/ LogIssue(w)
    \/ RevokeCommit(w)
    \/ RevokeConflict(w)
    \/ LoadCa(w)
    \/ LogRevoke(w)

RefreshStep(p) ==
    \/ \E a \in Cas : BuildCrl(p, a) \/ SkipCrl(p, a)
    \/ CommitCrl(p)
    \/ RefreshDone(p)

Next ==
    \/ \E w \in Workers :
         \/ IssueBegin(w)
         \/ \E c \in Certs : RenewBegin(w, c) \/ RevokeBegin(w, c)
         \/ WorkerStep(w)
    \/ RefreshAllBegin
    \/ \E p \in Procs : RefreshStep(p) \/ CommitFails(p)
    \/ ToggleRoot
    \/ Restart

Spec == Init /\ [][Next]_vars

\* A thread that has begun goes on (the interpreter switches between threads),
\* and the scheduler starts the job at every interval.
Fairness ==
    /\ \A w \in Workers : WF_vars(WorkerStep(w) \/ RefreshStep(w))
    /\ WF_vars(RefreshAllBegin)
    /\ WF_vars(RefreshStep(Job))

FairSpec == Spec /\ Fairness
-----------------------------------------------------------------------------
(* Properties *)

WorkerSteps == {"idle", "failed", "issue", "logIssue", "revoke", "loadCa",
                "refresh", "commitCrl", "logRevoke"}
JobSteps == {"idle", "refresh", "commitCrl"}
CrlRecord == [number : Nat, listed : SUBSET Certs]

\* The type invariant; a thread that is revoking has a certificate to revoke
\* and one that logs an issuance has issued one.
TypeOK ==
    /\ status \in [Certs -> {"absent", "valid", "revoked"}]
    /\ revocations \in SUBSET Certs
    /\ crlNumber \in [Cas -> Nat]
    /\ crls \in [Cas -> SUBSET CrlRecord]
    /\ audit \in [{"cert.issue", "cert.revoke"} -> [Certs -> Nat]]
    /\ rootUnlocked \in BOOLEAN
    /\ pc \in [Procs -> WorkerSteps]
    /\ target \in [Procs -> Certs \cup {NoCert}]
    /\ seen \in [Procs -> {"absent", "valid", "revoked"}]
    /\ fresh \in [Procs -> Certs \cup {NoCert}]
    /\ caView \in [Procs -> [Cas -> Nat]]
    /\ todo \in [Procs -> SUBSET Cas]
    /\ ca \in [Procs -> Cas]
    /\ listing \in [Procs -> SUBSET Certs]
    /\ overlapped \in BOOLEAN
    /\ idleRuns \in Nat
    /\ faults \in Nat
    /\ pc[Job] \in JobSteps
    /\ \A w \in Workers :
         /\ pc[w] \in {"revoke", "loadCa", "refresh", "commitCrl", "logRevoke"}
              => target[w] \in Certs
         /\ pc[w] = "logIssue" => fresh[w] \in Certs

\* The contents of the intermediate's CRLs, published or about to be.
Pictures == {i.listed : i \in crls[Intermediate]} \cup {listing[p] : p \in Procs}

\* Any two CRLs of a CA that were ever published or are about to be, one
\* contains the other: no CRL lists a later revocation and misses an earlier
\* one that another CRL has, however the threads that build them interleave.
CrlsNested ==
    /\ \A P, Q \in Pictures : P \subseteq Q \/ Q \subseteq P
    /\ \A P \in Pictures : P \subseteq Revoked

\* No CRL number is skipped, and the number stored with the CA has been
\* issued: a failed commit or an overtaken refresh leaves no gap behind.
NumbersDense ==
    \A a \in Cas :
      /\ \A i \in crls[a] : \A n \in 1..i.number : \E j \in crls[a] : j.number = n
      /\ crlNumber[a] = 0 \/ \E j \in crls[a] : j.number = crlNumber[a]

\* When the refresh of a revocation is done, some CRL that lists the
\* certificate has been stored (whether or not it is the one being served).
OwnCrlStored ==
    \A w \in Workers :
      pc[w] = "logRevoke" => \E i \in crls[Intermediate] : target[w] \in i.listed

\* As long as no commit fails and the process does not restart, every
\* certificate and every revocation has exactly one audit entry, except the
\* one a thread is about to write; and never more than one.
AuditComplete ==
    \A c \in Certs :
      /\ audit["cert.issue"][c] <= 1
      /\ audit["cert.revoke"][c] <= 1
      /\ faults = 0 /\ status[c] # "absent" /\ audit["cert.issue"][c] = 0
           => \E w \in Workers : pc[w] = "logIssue" /\ fresh[w] = c
      /\ faults = 0 /\ status[c] = "revoked" /\ audit["cert.revoke"][c] = 0
           => \E w \in Workers :
                pc[w] \in {"loadCa", "refresh", "commitCrl", "logRevoke"} /\ target[w] = c

\* Whatever the threads, failed commits and restarts, the system does what the
\* ledger of revocations promises.
Ledger == INSTANCE RevocationLedger WITH
    Publishers <- Procs,
    revoked <- Revoked,
    snapshot <- listing,
    published <- {i.listed : i \in crls[Intermediate]}
LedgerSpec == Ledger!Spec

\* Two CRLs of one number are the only way in which a revocation goes missing:
\* as long as every number names one CRL, a later number never lists less, and
\* whenever no request is at work nothing is missing from the served CRL.
NumbersUnique(a) == \A i, j \in crls[a] : i.number = j.number => i = j

StaleOnlyByCollision ==
    NumbersUnique(Intermediate) =>
      /\ \A i, j \in crls[Intermediate] : i.number < j.number => i.listed \subseteq j.listed
      /\ faults = 0 /\ (\A w \in Workers : pc[w] \in {"idle", "failed"})
           => Complete(Intermediate)

\* The periodic job catches up: a revoked certificate is in time, and from then
\* on, listed by whatever CRL is served, even after refreshes that overtook
\* each other, failed commits and restarts.
EventuallyPublished ==
    \A c \in Certs :
      status[c] = "revoked" ~> [](\A i \in Served(Intermediate) : c \in i.listed)

\* "Regenerated synchronously right after every revocation": once revoke_certificate
\* has refreshed the CRL, the served CRL lists the certificate.
RevocationServed ==
    \A w \in Workers :
      pc[w] = "logRevoke" => \A i \in Served(Intermediate) : target[w] \in i.listed

\* As long as no two refreshes have overlapped, the same is true of what is served.
ServedUnlessOverlapped == ~overlapped => RevocationServed

\* What a revocation has to show when it is answered: a stored CRL that lists the
\* certificate and, before any overlap, the served one.
RevocationStored == OwnCrlStored /\ ServedUnlessOverlapped

\* As long as no refreshes have, a CRL number names one CRL of its CA (the extension is there to
\* tell them apart), failed commits and restarts or not.
OneNumberOneCrl == ~overlapped => \A a \in Cas : NumbersUnique(a)

\* The CRL numbers of a CA have no gap, and before any overlap no repetition.
NumbersInOrder == NumbersDense /\ OneNumberOneCrl

\* As long as no refreshes have, who fetches the CRL again finds on it all that the
\* earlier one listed.
NeverUnlisted ==
    [][~overlapped' =>
         \A i \in Served(Intermediate), j \in Served(Intermediate)' : i.listed \subseteq j.listed]_vars
=============================================================================
