---------------------------- MODULE CaLifecycle ----------------------------
(***************************************************************************)
(* The certificate authorities and their private keys: services/           *)
(* ca_service.py, core/crypto/key_vault.py, the endpoints of api/routers/  *)
(* ca.py that change state and the root_auto_relock job of scheduler.py.   *)
(*                                                                         *)
(* The key vault is a process-wide object that request threads and the job *)
(* share without a lock: unlocking sets the key and then the time, locking *)
(* clears the key and then the time, in two steps each.  "The" root and    *)
(* "the" intermediate are whichever row a query without ORDER BY returns   *)
(* first, the one with the lowest id.  A key is named by the id of its CA. *)
(***************************************************************************)
EXTENDS Naturals, FiniteSets

CONSTANTS
    MaxCas,       \* bound: rows of certificate_authorities
    Admins,       \* request threads of administrators
    Job,          \* the root_auto_relock thread
    Passphrases,  \* root passphrases
    None,         \* Python's None
    MaxFaults     \* bound: failed commits and process restarts

Ids == 1..MaxCas
Threads == Admins \cup {Job}

ASSUME ConstantsAssumption ==
    /\ MaxCas \in Nat
    /\ Job \notin Admins
    /\ None \notin Ids \cup Passphrases /\ None \notin {"recent", "old"}
    /\ MaxFaults \in Nat

VARIABLES
    \* --- certificate_authorities
    type,        \* "absent" before the row is inserted (then its status is ACTIVE for good)
    passphrase,  \* what unwraps private_key_encrypted of a root
    parent,      \* parent_ca_id
    signedBy,    \* the key that signed certificate_pem
    \* --- other tables
    crls,        \* the keys that have signed a CRL of each CA
    leaves,      \* certificates: the CA they name and the key that signed them
    audit,       \* audit_log: the entries that name a CA
    \* --- key_vault
    rootKey, unlockedAt, interKey,
    \* --- threads
    pc, own, given, event,
    \* --- bookkeeping, which no action reads but for the bound
    doubled,     \* the kinds of CA two initialisations of which have overlapped
    torn,        \* the root was unlocked between the two assignments of a lock_root
    faults

table == <<type, passphrase, parent, signedBy>>
db == <<table, crls, leaves, audit>>
vault == <<rootKey, unlockedAt, interKey>>
locals == <<own, given, event>>
book == <<doubled, torn, faults>>
vars == <<db, vault, pc, locals, book>>

RowsOf(kind) == {i \in Ids : type[i] = kind}

\* Mutant: the newest row instead of the oldest.
Last(kind) ==
    IF RowsOf(kind) = {} THEN None
    ELSE CHOOSE i \in RowsOf(kind) : \A j \in RowsOf(kind) : j <= i

\* get_root, get_active_intermediate: .first() on the table.
First(kind) ==
    IF RowsOf(kind) = {} THEN None
    ELSE CHOOSE i \in RowsOf(kind) : \A j \in RowsOf(kind) : i <= j

\* The id the next row gets: rows are never deleted.
Fresh(i) == type[i] = "absent" /\ \A j \in Ids : j < i => type[j] # "absent"
-----------------------------------------------------------------------------
Init ==
    /\ type = [i \in Ids |-> "absent"]
    /\ passphrase = [i \in Ids |-> None]
    /\ parent = [i \in Ids |-> None]
    /\ signedBy = [i \in Ids |-> None]
    /\ crls = [i \in Ids |-> {}]
    /\ leaves = {}
    /\ audit = {}
    /\ rootKey = None
    /\ unlockedAt = None
    /\ interKey = None
    /\ pc = [t \in Threads |-> "idle"]
    /\ own = [t \in Threads |-> None]
    /\ given = [t \in Threads |-> None]
    /\ event = [t \in Threads |-> None]
    /\ doubled = {}
    /\ torn = FALSE
    /\ faults = 0

Goto(t, step) == pc' = [pc EXCEPT ![t] = step]

\* The requests of the threads in T are over.
Finish(T) ==
    /\ pc' = [t \in Threads |-> IF t \in T THEN "idle" ELSE pc[t]]
    /\ own' = [t \in Threads |-> IF t \in T THEN None ELSE own[t]]
    /\ given' = [t \in Threads |-> IF t \in T THEN None ELSE given[t]]
    /\ event' = [t \in Threads |-> IF t \in T THEN None ELSE event[t]]

\* An initialisation of this kind begins: has another found no CA either, and
\* not inserted one yet?
NoteDouble(kind, inserting) ==
    doubled' = IF \E u \in Threads : pc[u] = inserting THEN doubled \cup {kind} ELSE doubled
-----------------------------------------------------------------------------
(* init_root *)

InitRootBegin(t, p) ==
    /\ pc[t] = "idle"
    /\ First("root") = None
    /\ given' = [given EXCEPT ![t] = p]
    /\ event' = [event EXCEPT ![t] = "ca.root_init"]
    /\ Goto(t, "insertRoot")
    /\ NoteDouble("root", "insertRoot")
    /\ UNCHANGED <<db, vault, own, torn, faults>>

\* From the flush to the commit the session holds SQLite's write lock, so the
\* row appears with its self-signed certificate and its wrapped key.
InsertRoot(t, i) ==
    /\ pc[t] = "insertRoot"
    /\ Fresh(i)
    /\ type' = [type EXCEPT ![i] = "root"]
    /\ passphrase' = [passphrase EXCEPT ![i] = given[t]]
    /\ signedBy' = [signedBy EXCEPT ![i] = i]
    /\ own' = [own EXCEPT ![t] = i]
    /\ Goto(t, "unlock")
    /\ UNCHANGED <<parent, crls, leaves, audit, vault, given, event, book>>
-----------------------------------------------------------------------------
(* unlock_root, called by init_root and by the endpoint *)

UnlockBegin(t, p) ==
    /\ pc[t] = "idle"
    /\ given' = [given EXCEPT ![t] = p]
    /\ event' = [event EXCEPT ![t] = "ca.root_unlock"]
    /\ Goto(t, "unlock")
    /\ UNCHANGED <<db, vault, own, book>>

\* Mutant: the endpoint refreshes a CRL too.
AlwaysCrl(t) == "crl"

\* init_root goes on to its CRL, the endpoint to its audit entry.
AfterUnlock(t) == IF event[t] = "ca.root_init" THEN "crl" ELSE "log"

\* Some lock_root has cleared the key and not the time yet.
Locking == \E u \in Threads : pc[u] = "lockStamp"

Unwraps(p) == First("root") # None /\ passphrase[First("root")] = p

\* The key is set when the passphrase unwraps the root's key ...
UnlockKey(t) ==
    /\ pc[t] = "unlock"
    /\ Unwraps(given[t])
    /\ rootKey' = First("root")
    /\ torn' = Locking
    /\ Goto(t, "stamp")
    /\ UNCHANGED <<db, unlockedAt, interKey, locals, doubled, faults>>

\* Mutant: the time of the unlock is not kept.
StampForgotten(t) ==
    /\ pc[t] = "stamp"
    /\ Goto(t, AfterUnlock(t))
    /\ UNCHANGED <<db, vault, locals, book>>

\* ... and the time after it.
UnlockStamp(t) ==
    /\ pc[t] = "stamp"
    /\ unlockedAt' = "recent"
    /\ torn' = (torn /\ Locking)
    /\ Goto(t, AfterUnlock(t))
    /\ UNCHANGED <<db, rootKey, interKey, locals, doubled, faults>>

\* It returns False; init_root does not look at the result, the endpoint logs
\* the failure.
UnlockRefused(t) ==
    /\ pc[t] = "unlock"
    /\ ~Unwraps(given[t])
    /\ event' = [event EXCEPT ![t] = IF @ = "ca.root_init" THEN @ ELSE "ca.root_unlock failed"]
    /\ Goto(t, AfterUnlock(t))
    /\ UNCHANGED <<db, vault, own, given, book>>
-----------------------------------------------------------------------------
(* lock_root, called by the endpoint and by the job *)

LockBegin(t) ==
    /\ pc[t] = "idle"
    /\ event' = [event EXCEPT ![t] = "ca.root_lock"]
    /\ Goto(t, "lock")
    /\ UNCHANGED <<db, vault, own, given, book>>

\* Time passes: root_ca_auto_relock_minutes since the root was unlocked.
Age ==
    /\ unlockedAt = "recent"
    /\ unlockedAt' = "old"
    /\ UNCHANGED <<db, rootKey, interKey, pc, locals, book>>

\* _check_root_auto_relock: it does nothing unless the time it reads is old.
RelockBegin ==
    /\ pc[Job] = "idle"
    /\ unlockedAt = "old"
    /\ Goto(Job, "lock")
    /\ UNCHANGED <<db, vault, locals, book>>

LockKey(t) ==
    /\ pc[t] = "lock"
    /\ rootKey' = None
    /\ torn' = FALSE
    /\ Goto(t, "lockStamp")
    /\ UNCHANGED <<db, unlockedAt, interKey, locals, doubled, faults>>

LockStamp(t) ==
    /\ pc[t] = "lockStamp"
    /\ unlockedAt' = None
    /\ Goto(t, IF t = Job THEN "idle" ELSE "log")
    /\ UNCHANGED <<db, rootKey, interKey, locals, book>>
-----------------------------------------------------------------------------
(* init_intermediate *)

InitInterBegin(t) ==
    /\ pc[t] = "idle"
    /\ First("root") # None
    /\ rootKey # None
    /\ First("intermediate") = None
    /\ given' = [given EXCEPT ![t] = First("root")]
    /\ event' = [event EXCEPT ![t] = "ca.intermediate_init"]
    /\ Goto(t, "insertInter")
    /\ NoteDouble("intermediate", "insertInter")
    /\ UNCHANGED <<db, vault, own, torn, faults>>

\* key_vault.root_key is read again to sign; the commit follows under the
\* write lock taken by the flush.
InsertInter(t, i) ==
    /\ pc[t] = "insertInter"
    /\ Fresh(i)
    /\ rootKey # None
    /\ type' = [type EXCEPT ![i] = "intermediate"]
    /\ parent' = [parent EXCEPT ![i] = given[t]]
    /\ signedBy' = [signedBy EXCEPT ![i] = rootKey]
    /\ own' = [own EXCEPT ![t] = i]
    /\ Goto(t, "loadInter")
    /\ UNCHANGED <<passphrase, crls, leaves, audit, vault, given, event, book>>

\* The root was locked meanwhile: signing with None raises, nothing is written.
InsertInterFails(t) ==
    /\ pc[t] = "insertInter"
    /\ rootKey = None
    /\ Finish({t})
    /\ UNCHANGED <<db, vault, book>>

\* key_vault.load_intermediate
LoadInter(t) ==
    /\ pc[t] = "loadInter"
    /\ interKey' = First("intermediate")
    /\ Goto(t, "crl")
    /\ UNCHANGED <<db, rootKey, unlockedAt, locals, book>>
-----------------------------------------------------------------------------
(* CRLs, leaves and the audit log *)

\* Mutant: whatever key is unlocked.
AnyKey(i) == IF rootKey # None THEN rootKey ELSE interKey

\* _issuer_key_for
IssuerKey(i) == IF type[i] = "root" THEN rootKey ELSE interKey

\* refresh_crl of the new CA; without a key it returns None.  (The number of
\* the CRL and the steps of refresh_crl are the matter of CertLifecycle.)
FirstCrl(t) ==
    /\ pc[t] = "crl"
    /\ crls' = [crls EXCEPT ![own[t]] = @ \cup ({IssuerKey(own[t])} \ {None})]
    /\ Goto(t, "log")
    /\ UNCHANGED <<table, leaves, audit, vault, locals, book>>

\* The crl_refresh job comes to an active CA.
RefreshCrl(i) ==
    /\ type[i] # "absent"
    /\ IssuerKey(i) # None
    /\ crls' = [crls EXCEPT ![i] = @ \cup {IssuerKey(i)}]
    /\ UNCHANGED <<table, leaves, audit, vault, pc, locals, book>>

\* issue_certificate: the key is there and the row is read ...
IssueBegin(t) ==
    /\ pc[t] = "idle"
    /\ interKey # None
    /\ First("intermediate") # None
    /\ own' = [own EXCEPT ![t] = First("intermediate")]
    /\ Goto(t, "signLeaf")
    /\ UNCHANGED <<db, vault, given, event, book>>

\* ... and the key is read again to sign.
SignLeaf(t) ==
    /\ pc[t] = "signLeaf"
    /\ leaves' = leaves \cup {[ca |-> own[t], key |-> interKey]}
    /\ Finish({t})
    /\ UNCHANGED <<table, crls, audit, vault, book>>

\* Mutant: the entry names no CA.
LogNoTarget(t) ==
    /\ pc[t] = "log"
    /\ Finish({t})
    /\ UNCHANGED <<db, vault, book>>

\* log_action; of the entries of unlocks and locks, which name no CA, nothing is said.
Log(t) ==
    /\ pc[t] = "log"
    /\ audit' = audit \cup {[action |-> event[t], target |-> i] : i \in {own[t]} \ {None}}
    /\ Finish({t})
    /\ UNCHANGED <<table, crls, leaves, vault, book>>
-----------------------------------------------------------------------------
(* The environment *)

\* A commit raises ("database is locked"): the request ends with status 500.
CommitFails(t) ==
    /\ pc[t] \in {"insertRoot", "insertInter", "crl", "signLeaf", "log"}
    /\ faults < MaxFaults
    /\ faults' = faults + 1
    /\ Finish({t})
    /\ UNCHANGED <<db, vault, doubled, torn>>

\* The process exits and is started again: an empty vault, into which the
\* lifespan handler loads the intermediate's key.
Restart ==
    /\ faults < MaxFaults
    /\ faults' = faults + 1
    /\ rootKey' = None
    /\ unlockedAt' = None
    /\ interKey' = First("intermediate")
    /\ torn' = FALSE
    /\ Finish(Threads)
    /\ UNCHANGED <<db, doubled>>
-----------------------------------------------------------------------------
Begin(t) ==
    \/ \E p \in Passphrases : InitRootBegin(t, p) \/ UnlockBegin(t, p)
    \/ LockBegin(t)
    \/ InitInterBegin(t)
    \/ IssueBegin(t)

Step(t) ==
    \/ \E i \in Ids : InsertRoot(t, i) \/ InsertInter(t, i)
    \/ UnlockKey(t)
    \/ UnlockStamp(t)
    \/ UnlockRefused(t)
    \/ LockKey(t)
    \/ LockStamp(t)
    \/ InsertInterFails(t)
    \/ LoadInter(t)
    \/ FirstCrl(t)
    \/ SignLeaf(t)
    \/ Log(t)

Next ==
    \/ \E t \in Admins : Begin(t) \/ CommitFails(t)
    \/ \E t \in Threads : Step(t)
    \/ RelockBegin
    \/ Age
    \/ \E i \in Ids : RefreshCrl(i)
    \/ Restart

Spec == Init /\ [][Next]_vars

\* A thread that has begun goes on, time passes, and the scheduler runs the
\* job every minute.
Fairness ==
    /\ \A t \in Threads : WF_vars(Step(t))
    /\ WF_vars(Age)
    /\ WF_vars(RelockBegin)

FairSpec == Spec /\ Fairness

-----------------------------------------------------------------------------
(* Properties *)

Events == {"ca.root_init", "ca.intermediate_init", "ca.root_unlock",
           "ca.root_unlock failed", "ca.root_lock"}
Steps == {"idle", "insertRoot", "unlock", "stamp", "lock", "lockStamp", "insertInter",
          "loadInter", "crl", "signLeaf", "log"}

\* The type invariant; a thread that has to refresh or log a CA has one.
TypeOK ==
    /\ type \in [Ids -> {"absent", "root", "intermediate"}]
    /\ passphrase \in [Ids -> Passphrases \cup {None}]
    /\ parent \in [Ids -> Ids \cup {None}]
    /\ signedBy \in [Ids -> Ids \cup {None}]
    /\ crls \in [Ids -> SUBSET Ids]
    /\ leaves \in SUBSET [ca : Ids, key : Ids]
    /\ audit \in SUBSET [action : Events, target : Ids]
    /\ rootKey \in Ids \cup {None}
    /\ unlockedAt \in {None, "recent", "old"}
    /\ interKey \in Ids \cup {None}
    /\ pc \in [Threads -> Steps]
    /\ own \in [Threads -> Ids \cup {None}]
    /\ given \in [Threads -> Passphrases \cup Ids \cup {None}]
    /\ event \in [Threads -> Events \cup {None}]
    /\ doubled \subseteq {"root", "intermediate"} /\ torn \in BOOLEAN /\ faults \in Nat
    /\ pc[Job] \in {"idle", "lock", "lockStamp"}
    /\ \A t \in Threads : pc[t] \in {"crl", "signLeaf"} => own[t] \in Ids

\* Every chain build_chain_pem puts together verifies, however requests
\* overlap: a leaf is signed by the key of the CA it names, and that CA by the
\* root that get_root finds, its parent.
ChainsVerify ==
    /\ \A leaf \in leaves : leaf.key = leaf.ca /\ type[leaf.ca] = "intermediate"
    /\ \A i \in RowsOf("intermediate") :
         signedBy[i] = First("root") /\ parent[i] = First("root")

\* The vault never holds a key that is not the one the queries lead to.
VaultMatchesTable ==
    /\ rootKey # None => rootKey = First("root")
    /\ interKey # None => interKey = First("intermediate")

\* As long as no commit fails and nothing restarts, a CA has the audit entry
\* of its creation, or the thread that created it is on the way there.
CreationLogged ==
    faults = 0 =>
      \A i \in Ids : type[i] # "absent" =>
        \/ \E e \in audit : e.target = i /\ e.action = IF type[i] = "root"
                                                      THEN "ca.root_init"
                                                      ELSE "ca.intermediate_init"
        \/ \E t \in Admins : pc[t] # "idle" /\ own[t] = i

\* "root_already_exists", "intermediate_already_exists" -> 409: there is one CA of
\* a kind, but where two initialisations of that kind have overlapped.
AtMostOneOfEach ==
    \A kind \in {"root", "intermediate"} \ doubled : Cardinality(RowsOf(kind)) <= 1

\* Whatever else overlaps or fails, the CRLs of a CA are signed by that CA's own key,
\* although the key is chosen by the CA's type: a CA of a kind that was never
\* initialised twice at once has no CRL of another's, published by whichever thread.
CrlsBySubject ==
    \A i \in Ids : type[i] \notin doubled => crls[i] \subseteq {i}

\* A key in memory has the time the job goes by, or a thread is about to note it, but
\* for a root that was unlocked between the two assignments of a lock_root.
KeyIsTimed ==
    rootKey # None /\ ~torn => unlockedAt # None \/ \E t \in Threads : pc[t] = "stamp"

\* "Unlocking the root only lasts ROOT_CA_AUTO_RELOCK_MINUTES or until the process
\* restarts": however unlocks, locks and runs of the job overlap, a key is cleared in
\* time or unlocked anew, unless the whole of the unlock fell between the two
\* assignments of a lock_root: that key has no time, and the job leaves it alone.
RootRelocked ==
    rootKey # None /\ ~torn /\ unlockedAt # "recent" ~> rootKey = None \/ unlockedAt = "recent"

\* What the rows, the vault and the leaves stand for in TwoTierPki: a row that is
\* not the first of its kind stands for nothing, and a chain (build_chain_pem) is
\* the issuers its certificates name and the keys that signed them.
Secret == IF First("root") = None THEN None ELSE passphrase[First("root")]
Chain(leaf) == [names |-> <<leaf.ca, parent[leaf.ca]>>,
                keys |-> <<leaf.key, signedBy[leaf.ca]>>]
Chains == {Chain(leaf) : leaf \in leaves}

Pki == INSTANCE TwoTierPki WITH
    CAs <- Ids, root <- First("root"), secret <- Secret, inter <- First("intermediate"),
    openRoot <- rootKey, openInter <- interKey, chains <- Chains

\* However initialisations, unlocks, locks, leaves and restarts overlap
\* (services/ca_service.py, core/crypto/key_vault.py), what is seen from outside is
\* one root and one intermediate, each founded once: the duplicates that a race may
\* leave in the table are never asked for, signed with or named in a chain.
KeepsPkiPromise == Pki!Spec
=============================================================================
