# A TLA+ model of capki

capki is a certificate authority for internal use: a root CA and an intermediate, certificates issued
from CSRs, a request/approval workflow, revocation with CRLs, an audit log, and the settings, users and
outbound integrations around them. The program is a FastAPI process over one SQLite file
(`src/backend/src/capki`) with a React client (`src/frontend`). It has no tests of its own.

What is hard about it is not one request but several at once. Endpoints are synchronous functions, so
each request runs in a thread of a pool; three scheduler jobs (`scheduler.py`) are threads too; the key
vault, the config caches and the log queue are process-wide objects. No lock is held across a service
function: a function reads rows, decides, and commits later, often more than once.

## What every module assumes of the runtime

* **Statements and commits are atomic, functions are not.** `db/session.py` opens SQLite in WAL mode
  with a busy timeout. A SELECT holds no lock and sees the last commit; a transaction begins with the
  first INSERT/UPDATE/flush and then holds the write lock up to its commit. So a step of a model is:
  a read, or everything from the first write to the commit.
* **A session remembers.** The sessions are made with `autoflush=False, expire_on_commit=False`: an
  object that was read keeps its values, and `db.get` gives back the object the session has. Where a
  decision is taken on such an object, the model has a variable for what was read (`seen`, `caView`,
  `given`).
* **An UPDATE writes the columns that were assigned**, whatever the row holds by then.
* **A commit may fail** (`database is locked`), and then its function ends with status 500; **the process
  may restart**, and then requests in flight are gone while what was committed stays. Both are bounded by
  `MaxFaults`.
* **One process, many threads, one event loop.** Uvicorn runs a single worker. Endpoints that are plain
  functions run in its thread pool; the end of a SAML login (`acs`) is a coroutine with no await between
  its first read and its answer, so two SAML logins never overlap, and while one runs no request begins.
* A query without ORDER BY (`.first()`) returns the row with the lowest id, as SQLite does for these
  tables. DDL is committed statement by statement (`transactional_ddl` is false for SQLite in alembic).

## Inventory

| Part | State it keeps | Operations | What makes it correct | Module |
|---|---|---|---|---|
| Certificate lifecycle, CRLs (`cert_service`, `revocation_service`, `core/crypto/crl`, job `crl_refresh`) | `certificates`, `revocations`, `crl_issuances`, `crl_number` | issue, renew, revoke, refresh and serve a CRL | CRLs are pictures of one growing set; a revocation reaches the served CRL; nothing is issued or revoked without audit entry | `CertLifecycle`, `RevocationLedger` |
| Request workflow (`cert_request_service`) | `certificate_requests` | submit, approve, reject, fetch | a decision is final and matches the certificate and the log | `CertRequests` |
| CA lifecycle and key vault (`ca_service`, `core/crypto/key_vault`, job `root_auto_relock`) | `certificate_authorities`, keys in memory | init root, init intermediate, unlock, lock, relock, load | chains verify; keys belong to the rows; the root does not stay unlocked | `CaLifecycle`, `TwoTierPki` |
| Log forwarding (`log_forwarding_service`) | bounded queue, drop counter, config cache, two locks | log a record, log an audit entry, deliver, reconfigure | callers return; nothing refused goes uncounted; the queue drains | `LogForwarding` |
| Audit log (`audit_service`) | `audit_log` | `log_action` | one entry per operation | a step of each of the above |
| Database session (`db/session`) | the connection and its transaction | read, commit | see above | the basis of all |
| Profiles and CSRs (`cert_service.validate_*`, `csr_service`, `ca_engine`) | `cert_profiles` | check a CSR, generate one, build certificates | only what a profile admits is signed; what the program generates is admitted; chains verify | `ProfilePolicy` |
| Sessions, users, tokens, SAML provisioning (`sessions`, `user_service`, `token_service`, `deps`) | `sessions`, `users`, `user_roles`, `api_tokens` | login, logout, authenticate, create, update, deactivate, create and revoke a token | a deactivation ends the sessions there are; deadlines hold; one role each; the log explains what there is | `Accounts`, `SignOn` |
| Roles and permissions (`core/rbac`, two migrations) | `role_permissions` | seed, look up | the database has the documented table | `RolePermissions` |
| Trust store, settings (`trust_service`, `core/net/trust_store`, `log_forwarding_service`) | rows and the caches that copy them | add, enable, disable, remove, reconfigure, refresh | the copy is the table once changes have ended | `ConfigCaches`, `LaggingCopy` |
| Expiry job and notifications (`_check_expiring_certs`, `notification_service`) | `expiry_notified_at`, `notification_config` | warn, notify, mark | every owner is told, at least once and not for ever | `ExpiryNotices` |
| Start of the process (`entrypoint.sh`, alembic, `bootstrap`, `main.lifespan`, `master_key`, `tls_bootstrap`, `tls_service`) | key file, TLS row and files, schema version | migrate, create or load, serve, replace the pair | a start after any crash finds keys it can use; a replaced pair is served | `Boot` |
| Frontend, configuration, container | - | - | - | not modelled |

How they interact: the routers call the services, the services commit and call `audit_service.log_action`,
which commits again and puts the entry in the forwarding queue; approving a request calls
`issue_certificate`, renewing calls `issue_certificate` and then `revoke_certificate`, which calls
`refresh_crl`; the jobs call `refresh_crl` and the key vault; both CA initialisations call `refresh_crl`.
The models share these calls by repeating the step that matters: `CaLifecycle` keeps of `refresh_crl` only
which key signs, `CertRequests` keeps of `issue_certificate` only that it commits or refuses, and
`CertLifecycle` has them in full. `Boot` keeps of `init_intermediate` only which master key its private key is
under. `Accounts` extends `RolePermissions`: what a request may do is what the role it has read grants.

The hazards, each at its line and with the properties that watch it, are listed in `PROJECT.json`.

## The modules

### RevocationLedger

What the CA promises about revocation, in four actions. A certificate is revoked once and for good
(`Revoke`); a publisher reads the whole set (`Read`), and later publishes exactly what it read
(`Publish`) or gives up (`Discard`). It says nothing of numbers, sessions or who serves what.

### CertLifecycle

One thread per request (`Workers`) and one for the job (`Job`). `pc` is the next commit or read of the
thread; the names follow the code:

| Step | Code |
|---|---|
| `IssueBegin`, `RenewBegin`, `RevokeBegin` | the reads and checks at the head of `issue_certificate`, `renew_certificate`, `revoke_certificate` |
| `IssueCommit`, `IssueRefused`, `LogIssue` | the INSERT under a fresh serial; any `CertIssuanceError`; `log_action`, then for a renewal the test of the predecessor's status *as read at the start* |
| `RevokeCommit`, `RevokeConflict` | the commit of status and revocation row; the IntegrityError of `UNIQUE(certificate_id)` |
| `LoadCa`, `BuildCrl`, `SkipCrl`, `CommitCrl`, `RefreshDone` | `db.get` of the CA; `build_crl`: number from the session's object, entries from the database; no key, so `None`; the commit of number and issuance |
| `RefreshAllBegin` | the job reads every active CA in one query, then refreshes them one after the other |
| `CommitFails`, `Restart`, `ToggleRoot` | environment |

`Served` is what `get_ca_crl` may answer: any row with the highest number. `EXPIRED` is left out of
`status`: nothing in the code sets it. Only the intermediate issues certificates, so the root's CRL is
empty. `overlapped` is no state of the program: it notes, at `LoadCa` and `RefreshAllBegin`, that a refresh begins
while another is between its read of `crl_number` and its commit, which nothing in the code prevents.

### CertRequests

`GetPending` is `_get_pending_or_raise`, the only look at the status; `Issue`, `Approve`, `LogApprove` are
the three commits of an approval (in `issue_certificate`, of the decision, of the audit entry), `Reject`
and `LogReject` those of a rejection. The audit entry that `issue_certificate` writes is in
`CertLifecycle`; here its failure is one of the ways `CommitFails` ends an approval. `overlapped` notes the requests at which
two reviewers were at work together, between the read of the status and the commit of the decision.

### CaLifecycle

Rows are numbered as SQLite numbers them; a key is named by the id of its CA. `First` is the `.first()` of
`get_root` and `get_active_intermediate`. The vault has no lock, so `unlock_root` is two steps
(`UnlockKey`, `UnlockStamp`) and `lock_root` two (`LockKey`, `LockStamp`). The time of an unlock is
`recent` until `Age` makes it `old`, which is when `_check_root_auto_relock` acts on it.
`FirstCrl` and `RefreshCrl` keep of `refresh_crl` which key signs. Of the audit log the model keeps the entries that
name a CA. Two variables are no state of the program: `doubled` has the kinds of CA two initialisations of which
were between their look at the table and their INSERT together, and `torn` says that the key in memory was put there
by an `unlock_root` of which both assignments fell between the two of a `lock_root`. Nothing in the code prevents
either.

### TwoTierPki

What the hierarchy promises, in seven actions and without rows or requests: a root is founded once, with a passphrase
that is kept, and opened with that one only; an open root founds one intermediate; what the open intermediate signs
has a chain that names and is signed by these two. `KeepsPkiPromise` says that `CaLifecycle` implements this: the
root and the intermediate are the rows the queries find, a duplicate row stands for nothing, and so inserting one is
a stutter.

### LogForwarding

The two locks are variables that hold a thread: `handlerLock`, re-entrant, taken by
`logging.Handler.handle` around `emit`, and `droppedLock`, not re-entrant. A refused event is counted
under the second one, and the warning about it is logged under it too: `Count` sends the thread back to
`handle` with `warning` set. The worker takes an event with the config of that moment and offers it to
both outputs. Serialisation, sockets and HTTP are left out: a send ends, delivered or not, because each
has a timeout.

### ProfilePolicy

No state: the profiles as the migration seeds them, `Admits` (`validate_csr_for_profile` and
`validate_public_key`), `DaysAllowed`, the two places that make a CSR themselves (`GeneratedCsr`,
`ListenerCsr`), the three certificate builders of `ca_engine`, and `Accepted`, the part of RFC 5280 path
validation that the builders decide. These are written apart from each other in the source, so that they
fit together is an assumption TLC evaluates: every name in a profile is one `ca_engine` knows; every profile
admits what the generator makes of the SANs it allows; whatever is admitted ends in a chain that is accepted
from the first day to the last and that nobody can extend.

### RolePermissions and Accounts

`RolePermissions` writes out the role table of `core/rbac/permissions.py` and the rows of the two migrations
that seed the database; `SeedsAgree` says that they are one table.

In `Accounts` a thread's record `my` is what its session and context hold: the user, the session row with
the deadline *as read*, the target, its role and `is_active` *as read*.

| Step | Code |
|---|---|
| `LocalLogin`, `CreateSession`, `LogLogin` | `authenticate_local_user`, `create_session`, the audit entry |
| `LookUp`, `CheckDeadlines`, `Refresh` | `get_valid_session`: the row; then the clock; then the commit of `last_seen_at` and `expires_at`, which leaves `expires_at` out when it is the value that was read |
| `LoadUser`, `LoadContext`, `EndRequest` | `get_current_actor` and `load_auth_context_for_user`; 401, 403 or another endpoint |
| `LookUpToken`, `CreateToken`, `FindToken`, `RevokeToken` | `token_service` |
| `CreateUser`, `FindUser`, `Deactivate`, `Update`, `RefusePassword`, `LogUpdate` | `create_local_user`, `update_user`: a deactivation commits inside `revoke_all_sessions_for_user`, before the password is refused |
| `FindSamlUser`, `SamlInsert`, `SamlUpdate` | `sync_saml_user` |
| `Conflict` | a statement that fails: the role that was read is gone, or a unique key is taken |

The expiry and scopes of a token and `last_used_at` are left out: they only refuse more or inform. Checking
a password or a SAML assertion is the libraries' work; a login here is one that passes.

`crossed` notes the users whose deactivation was committed between the check of `is_active` and the session of a
login of theirs, which nothing in the code prevents, and `refused` those whose new password was refused
(`not_a_local_user`), which happens after the commit of what else the request changed.

### SignOn

What the accounts promise, in nine actions and without a request: a user is registered with one role, amended
or expelled; a pass is opened for one user, used and closed; a badge is issued and withdrawn. Whoever expels a
user ends all the passes the user has in one step, a use never extends a pass beyond `Absolute` after its
beginning, and a pass that is over stays over. `KeepsSignOnPromise` says that `Accounts` implements this:
`Standing`, `Passes`, `roles` and `token` are what the abstract variables stand for. The pass of a revoked
session is over and has no end, so that what a late request may still write into its row is invisible; what it
writes into a row that is valid is a use.

### LaggingCopy and ConfigCaches

`LaggingCopy` is what an in-memory copy promises that is read and assigned in two steps: it holds a value
the table had at one moment. `ConfigCaches` is the trusted CAs and the log-forwarding row with their copies.
`Insert`, `Set`, `Delete` commit, `RefreshRead` and `Install` are `refresh_cache`, `Log` and `RowGone` the
`db.refresh` and the audit entry of row after row. `ConfigCommit` and `ConfigAssign` are
`update_log_forwarding_config`, whose copy is the very object of the request. `fresh` and `clean` are
bookkeeping: they say whether something was committed between a read and the assignment made from it. So is `cut`:
the CAs that stay without the entry of their addition because another CA of the very same bundle was removed before
all of the bundle was logged. A CA that is removed and added again counts as one row, because SQLite may give it
the same id; `logged` therefore forgets its entries when it is added anew.

### ExpiryNotices

One run of `_check_expiring_certs` at a time: `Start` and `CreateSettings` read or create the notification
settings, `List` and `ListCas` are the two queries, `Warn` and `WarnCa` the warnings, `Tell` one channel,
`Mark`, `LogNotified`, `GiveUp` what follows. Beside it an administrator reads and edits the settings,
certificates come and cease to be due, and servers go down and come back.

### Boot

`Main` is the process from `entrypoint.sh` on: `Create` and `Stamp` are one DDL statement and the end of one
revision; `Ensure`, `Store`, `Unwrap`, `WriteCrt`, `WritePem` are `tls_bootstrap`; `LoadPair` is Uvicorn's;
`MakeAdmin`, `LogAdmin`, `FindIntermediate`, `LoadIntermediate`, `Serve` are the lifespan. `LoadKey`,
`CreateKeyFile`, `WriteKeyFile` are `load_or_create_master_key`, run by the start and by every request that
wraps a key. Requests upload a pair, have one issued, or create the intermediate; `Arm` and `Exit` are
`_schedule_restart`. `LogFails` is the commit of the audit entry that fails after the pair's has succeeded; `unarmed`
notes it, for the restart comes after that entry. `Weak` are the uploads whose certificate and key fit, but which the
server's TLS library refuses: `replace_with_uploaded` looks at the fit only, and `LoadPair` is where such a pair is
found out. The self-signed pair (P-256) and those the intermediate issues (RSA, 2048 bits) are taken to be loadable, and
so is every upload that is not in `Weak`. A master key is the number of its making. The module is written for a deployment with
`INITIAL_ADMIN_USERNAME` and `INITIAL_ADMIN_PASSWORD` set and `CA_MASTER_KEY` not set; with `CA_MASTER_KEY`
there is no file to lose.

### MC and proof modules

`MCCertLifecycle`, `MCCertRequests`, `MCCaLifecycle`, `MCLogForwarding`, `MCAccounts`, `MCConfigCaches`,
`MCExpiryNotices` and `MCBoot` give the constants small values and say which threads or rows are
interchangeable (never in a run with a liveness property). Definitions that begin with "Mutant:" in a comment
are not part of the model: each is a plausible mistake that breaks one of the properties. `CertLifecycleProofs`,
`CertRequestsProofs`, `CaLifecycleProofs`, `LogForwardingProofs`, `AccountsProofs`, `ConfigCachesProofs`,
`ExpiryNoticesProofs` and `BootProofs` hold the theorems.

## The runs

Runs that pass (TLC exhausts the state space; times with two workers):

| Run | Bounds | States | Shows |
|---|---|---|---|
| `cert_overlap` | 2 request threads and the job, 2 certificates (1 issued before), both CAs, no faults | 393,606 (20 s) | `AuditComplete`, `StaleOnlyByCollision` |
| `cert_fair` | 2 request threads and the job, 2 certificates to revoke, 1 fault | 143,770 (65 s) | `NumbersInOrder`, `RevocationStored`, `NeverUnlisted`; implements `RevocationLedger`; `EventuallyPublished` |
| `requests` | 2 threads, 2 requests, 5 certificates, 1 fault | 18,229 (10 s) | `ApprovedHasItsCertificate`, `DecisionsInLog`, `ApprovalsAccountedFor`, `DecisionsFinal`; the assumptions of `ProfilePolicy` |
| `ca_overlap` | 2 administrators and the job, 3 rows, 2 passphrases, 1 fault | 998,084 (95 s) | `CreationLogged`, `CrlsBySubject`; implements `TwoTierPki` |
| `ca_fair` | 2 administrators and the job, 2 rows, 1 passphrase, 1 fault | 246,056 (45 s) | `RootRelocked` |
| `log_queue` | 1 logging and 1 auditing thread, queue of 2, warning at every second drop, 3 refusals, 3 configs | 247,212 (30 s) | `DropsCounted`, `DeadlockNeedsWarning`, `QueueDrains` |
| `accounts` | 2 threads, 3 requests, 2 local users and 1 SAML user, 2 sessions, 1 token, 2 bodies, `Idle` 2, `Absolute` 3, clock up to 3, 1 fault | 1,034,646 (115 s) | `ChangesLogged`, `DeadlinesKept`, `InactiveSignedOut`; implements `SignOn`; `SeedsAgree` |
| `caches` | 2 threads, 5 requests, 2 CAs, 2 columns of 2 values, 1 fault | 1,401,889 (50 s) | `StaleOnlyByOverlap`, `AddsLogged`; implements `LaggingCopy` |
| `notices` | 1 certificate, 1 CA, 2 channels, an administrator, 1 fault | 312,624 (60 s) | `NoticesCounted`, `EventuallyTold`, `EventuallyWarned` |
| `boot` | 2 threads, 3 requests, 2 uploads, 1 of them weak, and 1 issuable pair, 2 faults, 1 loss of the key file | 195,680 (15 s) | `SecretsUsable`, `ReplacedIsServed`, `StopsForACause`, `StartsAgain` |

Each run but `cert_fair` and `ca_fair`, whose modules have another, checks the `TypeOK` of its module as well. Four properties are two statements about one subject:
`NumbersInOrder` is `NumbersDense` and `OneNumberOneCrl`, `RevocationStored` is `OwnCrlStored` and
`ServedUnlessOverlapped`, `DecisionsInLog` is `DecisionLogged` and `LogTellsDecision`, `ApprovalsAccountedFor` is
`CertificatesAccountedFor` and `StrandedByFaults`.

`StaleOnlyByCollision` and `CertificatesAccountedFor` delimit the damage of the races below. The first
says that two CRLs of one number are the *only* way for a revocation to go missing: while numbers are
unique, a later number never lists less, and what is served when no request is at work is complete. The
second says that the audit log, unlike the request's row, tells of every certificate signed.

`DeadlockNeedsWarning` does it for the locks: whatever order threads take them in, a circle of waiting threads
passes through one that logs the warning about dropped events.

`StopsForACause` does it for the start. A process ends to serve a replaced pair, at a fault (a crash or a commit that
fails) in that very step, or in a start that raises on one of five things that are on its disk:

* `HalfMigrated`: a fault cut a revision short;
* `EmptyKeyFile`: a fault came between creating and writing the key file (which a request does anew once the file was
  lost, so that a loss is named beside it);
* `LostKey`: the key file was lost, and a secret is wrapped with what it held;
* `MixedPair`: two replacements overlapped and the row has the certificate of one and the key of the other. This needs
  neither fault nor loss;
* `WeakPair`: an administrator uploaded a pair that fits and that the TLS library refuses. Nor does this.

The last two are errors of the code that an operator sees only after the restart. `StartsAgain` is the other half: from
a disk with none of these (`Bootable`) the process comes up, whatever step a crash hits.

`StaleOnlyByOverlap` and `AddsLogged` delimit the damage in the caches. The first holds of both copies, but
that a copy is a value its table *had* is checked of the trusted CAs only (`LaggingCopy`): the copy of the log-forwarding
row is the object of a request, with the columns it read and the columns it wrote, and where two requests overlap that
may be a row that never was. `AddsLogged` says that a CA is trusted without the entry of its addition only where
another CA of its own bundle was removed before both were logged. `ChangesLogged` does it for the accounts, whose one
gap is the SAML user deactivated by a request whose password is then refused: exactly those in `refused`.

Seven sets of properties say what holds under a condition the code does not enforce, and so what is lost without
it. Each condition excepts what one named overlap, or one named failure, has touched, and nothing else: other faults,
restarts and all other interleavings stay.

* `CrlsBySubject` (and `AtMostOneOfEach`, which is only a theorem): of a kind of CA that no two initialisations
  overlapped at (`doubled`). Unlocks, locks, leaves, jobs and the initialisation of the other kind overlap as they like.
* `RootRelocked` (and `KeyIsTimed`, which is only a theorem): of a key that was not unlocked inside a `lock_root`
  (`torn`). Such a key has no time, and the job leaves it alone.
* `AddsLogged`: of a CA that is not in `cut`.
* `ReplacedIsServed`: of a process in which no replacement lost its log entry (`unarmed`).
* `ServedUnlessOverlapped`, `OneNumberOneCrl`, `NeverUnlisted`: no two refreshes have overlapped. `RevocationServed`,
  which `cert_served` refutes, then holds: the missing order of the refreshes is all that is wrong with the promise.
* `DecisionsFinal`, `LogTellsDecision`, `StrandedByFaults`: no two reviews of the request have overlapped. What
  remains is that a fault between the two commits of an approval leaves a certificate that nobody fetches, one for
  each such fault.
* `InactiveSignedOut`: the user was not signing in when deactivated. A session made then stays, unusable, and is
  usable again if the user is reactivated. SAML users are excepted: their login does not look at `is_active`.

Beside these, the properties that say something of every entry in the audit log (`AuditComplete`, `CreationLogged`,
`ChangesLogged`, `AddsLogged`, `DecisionLogged`) say it as long as nothing has failed (`faults = 0`): `log_action` commits after what it
logs, and a failure in between leaves the change without its entry. `SecretsUsable` says nothing of a key file that was lost,
nor that certificate and key fit after an overlap of replacements (`overlapped`).

Runs in which TLC finds what a comment or the README says violated by what the code does:

| Run | Statement | What happens |
|---|---|---|
| `cert_served` | "Regenerated synchronously right after every revocation" | Two refreshes read one `crl_number`; both CRLs get the same number, and the one served may be the one without the other's certificate. |
| `log_warning` | "Non-blocking" | The warning about a full queue comes back to `_enqueue` in the same thread and waits for the lock that thread holds. The same property also fails for one logging and one auditing thread with only errors forwarded: they take the two locks in opposite order. |

Other places where the models show the code doing less than its text says have no run of their own; the
properties above are stated so as to delimit them:

* `cert_service.py:204-206`: superseding a predecessor that is no longer valid is "skipped (not an error)".
  Revoked between the renewal's read and its own revocation, it ends the renewal with the IntegrityError of
  `UNIQUE(certificate_id)`, after the new certificate was issued.
* `cert_request_service.py:17-18`, "not_pending -> 409": a rejection that commits while an approval signs is
  overwritten by it, and the other way round. `CertificatesAccountedFor` says what remains true.
* `ca_service.py:17`, "*_already_exists -> 409": two initialisations that overlap both find nothing and both
  insert. `KeepsPkiPromise` holds all the same: the duplicate is never reached.
* `README.md:139-141`, an unlock that lasts so long: a whole `unlock_root` between the two assignments of
  `lock_root` (a request's or the job's) leaves a key without a time, which the relock job ignores, so that the root stays
  unlocked until somebody locks it. The reverse, a `lock_root` between the two assignments of `unlock_root`, leaves a time
  without a key, which is harmless. `RootRelocked` says that only the former can.
* `README.md:111`, settings "take effect immediately (no restart)": two changes whose refreshes overtake each
  other leave the older copy in memory until the next change or start. `StaleOnlyByOverlap` says that only
  this can.
* `tls_service.py:4-5`, a replaced pair is served after a restart: `replace_with_uploaded` checks that the pair fits
  (46-57) and not that it can be served. A pair whose key the TLS library refuses ends every start after the restart.
* A start that is cut short inside a revision finds the tables it made and can not go on (the guard on `ddl` in
  `Bootable`); one cut short between creating and writing the key file finds an empty key
  (`keyFile # Empty`). Both need the operator.

**Why the bounds are enough.** Every race here is between two threads that read and then write, and the
third party is at most the job; two request threads and the job meet in every order. Two certificates let
one CRL list what the other misses. Three rows allow two roots and an intermediate, or a root and two
intermediates. An approval signs once, and two threads with one fault need at most four certificates for two
requests; `requests` has five, so a fifth would be seen. A queue of two fills and drains; warning at every
second drop instead of every hundredth makes both branches common. A fault may hit any commit or any
moment. `MaxIdleRuns` bounds the runs of the job that would only repeat what is published, `MaxRefused`
the events a full queue refuses before callers stop.

`MaxRequests` bounds the requests that begin: three in `accounts` are two that overlap after a third has made
the session, user or token they meet in; five in `caches` are two CAs added and then changed by two overlapping
requests; three in `boot` are two replacements and an intermediate. With `Idle` 2, `Absolute` 3 and a
clock that runs up to 3 a session passes its sliding deadline, one that is used after a tick has it cut to the absolute
one, and the clock reaches that as well: requests come at the very deadline and after it. The two bodies
of `MCBodies` are a deactivation that brings a new role and a password that a SAML user cannot have, and a
reactivation with a change of role. One certificate and one CA are enough in `notices`: certificates meet only in that
an exception ends the run for those after it, which is what happens to the CA. What the theorems cover does
not depend on these bounds at all.

Deadlock checking is off where the bounded system stops: every certificate revoked and no run of the
job left, every request decided, callers stopped at `MaxRefused` (and in `LogForwarding` threads that
really wait for each other, which is what `log_warning` shows), requests used up in `Accounts` and
`ConfigCaches`. `CaLifecycle`, `ExpiryNotices` and `Boot` never stop and are checked for deadlock.

**Fairness.** Weak fairness of each thread's next step: the interpreter switches between threads, and
SQLite's write lock is held only between a first write and its commit. Weak fairness of the start of each
job: the scheduler starts it at every interval (`start_scheduler`), which for `ExpiryNotices` is
`WF_vars(Job)`. Weak fairness of the worker: its sends have timeouts. Weak fairness of `MainStep` in `Boot`:
the container has `restart: unless-stopped`, and a start goes on. Nothing makes a client send a request, an
administrator unlock a root or edit a setting, a server come back, or a fault happen. `FairLocksSpec` adds
that a thread waiting for a lock that is free again and again gets it, so that the counterexample of
`log_warning` is a deadlock and not bad luck.

## The proofs

TLAPS checks these for every value of the constants: any certificates, threads, rows, users, passphrases,
queue capacity and number of faults, from the named assumptions of each module alone. Each module's
`TypeCorrect` shows `TypeOK` inductive; `TypeOK` also says what a thread at each step has already read, which
is what makes it a fit base for the rest. Where a run checks two statements under one name, the theorem about the
name (`NumbersAlwaysInOrder`, `AlwaysRevocationStored`, `DecisionsAlwaysInLog`, `ApprovalsAlwaysAccountedFor`) is those
about the two.

Nine properties are theorems and checked by no run of their own; each stands behind one that a run does check. `CrlsNested` is
part of the argument that `RevocationLedger` is implemented, `OneRoleEach` and `DeactivationEndsSessions` of the
argument for `SignOn`, `ChainsVerify` and `VaultMatchesTable` of the argument for `TwoTierPki`; `CrlsBySubject` rests on
`AtMostOneOfEach`, `DropsCounted` on `LocksExclude`, `DeadlinesKept` includes `WithinDeadlines`, and `KeyIsTimed` is
the safety half of `RootRelocked`: what the job needs to see.

**CertLifecycleProofs.** `CrlsAlwaysNested`: the invariant adds that a
certificate is REVOKED exactly when it has a revocation row (so that `build_crl`'s join selects the whole
ledger) and that a picture never lists more than is revoked; then a new picture is the whole set and
contains every other. `ImplementsLedger`: the initial states map to the ledger's; `RevokeCommit` is
`Revoke`, `BuildCrl` for the intermediate is `Read`, `CommitCrl` is `Publish`, whatever drops a session is
`Discard`, everything else stutters. `OwnCrlAlwaysStored`: the invariant follows a revoking thread from its
commit to its refresh: its own certificate is revoked before it reads, so it is in what it reads, so it is
in what it stores. That needs the intermediate's key to be loaded, which `KeyAvailable` states.
`NumbersAlwaysDense`: the numbers a thread has read were issued, and a number it is about to issue is one
more than an issued one; a failed commit leaves both untouched.

`AuditAlwaysComplete`: the invariant keeps an account of each certificate: its issuance is in the log once, or
owed by exactly one request (`IssueAccount`), and so its revocation (`RevokeAccount`); four steps change one
account and all others leave every account alone (`StepKinds`). `AlwaysStaleOnlyByCollision` has
uniqueness of CRL numbers as its premise, so its invariant is an implication too: while numbers are unique, a
number that is issued is not issued again (`IssuedRow`), what a thread is about to publish lists what the
lower numbers list (`AheadOf`), and every revocation is in some CRL or its request is on the way to one
(`Covered`).

`AlwaysOneNumberOneCrl`, `AlwaysServedUnlessOverlapped` and `NothingUnlisted`: as long as nothing has overlapped one
thread refreshes at a time (`OneRefresh`), what it has read of `crl_number` is still what the row holds
(`Current`), and the row holds the highest number (`Topmost`). A new number is then higher than every other, so
numbers are unique, which is the premise of `StaleOnlyByCollision`: its invariant and that of `OwnCrlAlwaysStored` do
the rest.

**CertRequestsProofs.** `ApprovedAlwaysHasItsCertificate`, `DecisionAlwaysLogged`,
`CertificatesAlwaysAccountedFor`: a thread that is about to approve holds a certificate that was signed for its
own request (which `TypeOK` includes), and for each request the certificates are counted against the
approvals that are logged, under way or cut short (`Balanced`).

`DecisionsAlwaysFinal` and `LogAlwaysTellsDecision`, of the requests at which nothing has overlapped (`Solo`): one
that is not decided has no trace of a decision (`Consistent`), one thread at most reviews it and one at most is
about to log, and they review what is still pending, or log what is decided and not yet logged (`AtWork`).
`StrandedOnlyByFaults` counts: a certificate joins `Stranded` only by the step that
counts a fault.

The theorems about `ProfilePolicy` need no state and no bound on days. `AcceptedWithinAllValidities`: whatever
profile admits a CSR, for whatever days and on whatever day the leaf is signed, the chain is accepted on
exactly the days on which all three certificates are valid. `ChainsFit`, which TLC evaluates, covers the day the
CAs were made; the theorem says what becomes of a leaf that is issued late. `LeavesSignNothing` and
`IntermediateSignsOnlyLeaves`: nothing that was signed for a CSR signs further, and the path length of the
intermediate stops a CA under it whoever made that.

**CaLifecycleProofs.** `ChainsAlwaysVerify`, `VaultAlwaysMatches`, from one invariant: rows
are numbered without gaps (`Dense`), so a new row never becomes the `First` of its kind where there is
one; whatever a thread has read of a root or an intermediate is that first row; and the keys in the vault
are those of the first rows. So even where races create a second root, the chains that are handed out
verify: the duplicate is never reached. That `First` is a least element is the one fact about numbers it
rests on (`LeastId`, from the well-foundedness of `<` on the naturals). `AlwaysKeepsPkiPromise`: `InsertRoot` is
`FoundRoot` and `InsertInter` is `FoundInter` where they insert the first row of their kind, and stutters elsewhere
(`RowStep`); `UnlockKey` is `Open`, `LockKey` is `Close`, `LoadInter` is `Load`, `SignLeaf` is `Sign`; that the key a leaf is
signed with and the CA it names are the first intermediate, which the invariant says of a thread at `signLeaf`, makes
its chain the promised one. `CreationAlwaysLogged`: a thread
between the commit of its CA and the log holds the id of that CA and the kind it is about to log
(`Creating`, `Announced`). `AlwaysAtMostOneOfEach` and `AlwaysCrlsBySubject`, of `Spec` with all its
overlaps: while two initialisations of a kind have not overlapped, one thread at most is about to insert a row of it,
the row is missing until that thread inserts it, and there is one row at most (`Single`). So the first row of a
kind, whose key the vault has, is the row whose CRL is built (`OwnKey`), whichever thread builds it. `KeyAlwaysTimed`: as
long as a key is not `torn`, no thread that would clear its time alone is left (`TimeInv`): one that was
there when it was unlocked would have made it so.

**LogForwardingProofs.** `LocksAlwaysExclude`: the invariant adds where a thread may be while it logs the
warning (`Placed`): it can not count inside its own warning, because it would have to pass its own lock
first. `DropsAlwaysCounted` rests on it: the events refused are those counted and those in the hands of the
threads in `Pending`, a finite set, and the number a counting thread has read is still current because it
holds the lock. `DeadlocksOnlyByWarning`: a thread that holds `_dropped_lock` is counting or inside its warning, and
during the latter the count stays at the drop that is warned of (`HolderInv`). In a set of threads that all wait
for one another some thread waits for `_dropped_lock`, for those that wait only for the handler's lock wait for a
thread that is inside it; its holder waits too, so it is not counting, so it warns.

**AccountsProofs.** `AlwaysOneRoleEach`: a role is written over the one that was read, and a write whose
premise is gone fails, so that a user has one role before and after. `DeactivationAlwaysEndsSessions`: the step
that clears `is_active` is the one that revokes, and `Refresh` writes two columns only. `AlwaysWithinDeadlines`:
what a thread has read of the clock is not later than the clock and passed the absolute deadline of *its*
session (`Seen`), and a request that leaves `expires_at` alone does so only where that column is no later than what it
would write (`Window`). `DeadlinesAlwaysKept` adds a step property: a session that is over, with no request that had found
it valid, has `expires_at` and `last_seen_at` where they are after every step, because a request gets to `Refresh`
only past a clock earlier than the deadline it read, and the clock does not go back (`StepOver`). `ChangesAlwaysLogged`: a step that ends a request has
logged what the request had to (`Paid`), and what a step adds to a table its thread is about to log (`SessionsOwed`,
`TokensOwed`, `UsersOwed`); a refused password ends one without entry, and is noted in the same step (`Explained`).

`AlwaysKeepsSignOnPromise` maps every step of a thread to an action of `SignOn` or to a stutter: `CreateSession` is
`Open`, `Refresh` is `Use` while the row is valid and a stutter after that, `Deactivate` is `Expel`, `Update` and
`SamlUpdate` are `Amend`, `CreateUser` and `SamlInsert` are `Register`, a logout is `Close`, a tick is `Elapse`. That needs that
the user a thread acts for is there (`Known`, `Owned`), that a SAML login that will insert a user finds none, which
only the event loop ensures (`OneInLoop`), and from the deadline invariant that what `Refresh` writes is
within both limits of the row it writes to. `InactiveAlwaysSignedOut`: a local login that has passed
the check of `is_active` finds it still set when its session is made, or else the deactivation has noted it
(`Checked`).

**ConfigCachesProofs.** `CopiesStaleOnlyByOverlap`: what a thread has read is what is there, unless another has
committed since (`ReadsOK`), so a copy made from a fresh read is the table, or a thread is still to
renew it. `ImplementsLaggingCopy`: `Insert`, `Set`, `Delete` are `Change`, `RefreshRead` is `Take`, `Install` is
`Put`, whatever drops a read stutters or is covered by `Put`'s room for losses, `Restart` is `Reload`.
`AddsAlwaysLogged`: a CA that is present and not in `cut` is logged, or a thread is on the way to log it that misses
none of the CAs it has still to log (`Whole`), so that no `db.refresh` stops it; where a removal takes one of those
away, the same step puts the others into `cut` (`KnownRemoved`).

**ExpiryNoticesProofs.** `NoticesAlwaysCounted`: while the owner of a certificate is being told, a channel that is
still left has told at most as often as there were faults (`Due`), and a certificate that is marked, or about
to be, was told (`Told`).

**BootProofs.** `SecretsAlwaysUsable`, `ReplacedAlwaysServed`: as long as the file was not lost, only the start
ever makes a key, and it does so before anything is wrapped (`KeyOK`); every key a thread or the start
has in memory is the file's (`MainOK`, `ThreadOK`); the pair that is served is the one of the row that the
start has read, or a request has replaced the row and is on its way to arm the restart.
`ReplacedAlwaysServed` needs no absence of faults: a request that dies before it has armed the restart dies with its
process or in `LogFails`, or has not stored its pair. `AlwaysStopsForACause` goes through the steps at which a start can
raise: between the load of the master key and its use the file may be lost but is not replaced (`ReadKey`); a revision
is half applied only behind a fault or under a start that is at it, and an empty key file is there only behind a
fault or a loss or under the start that is about to write it (`Leavings`); two halves that do not fit are there only
after an overlap (`SecretsUsable`). So a start that raises finds one of the five (`StartEnds`), and every other end of a process is armed or a
fault (`StepStops`).

Only model-checked: everything about liveness (`EventuallyPublished`, `RootRelocked`, `QueueDrains`,
`EventuallyTold`, `EventuallyWarned`, `StartsAgain`), which is out of the prover's reach, as are ENABLED and
induction over data; that `EnqueueReturns` and, after an overlap, `RevocationServed` fail, which
counterexamples show; and the assumptions about fixed tables (`SeedsAgree`, `SeededNamesAreKnown`,
`GeneratedIsAdmitted`, `ChainsFit`), which TLC evaluates.

## What is not modelled, and why

Cryptography, X.509 encoding and the verification of SAML assertions are the libraries': a key is a name, a
signature says who made it. HTTP, JSON, paging, formatting and the frontend keep no state of their own, and
configuration is read once. SQLite itself is taken as the assumptions above say. Time is what the properties
need of it: an unlock is recent or old, a session has a clock, CRLs do not expire, and a certificate is due or
not. The SAML and notification settings, the test buttons of the settings page and the reading of the audit log
are plain reads and writes of one row.

## Plan

Done: every part of the inventory but the frontend, the configuration and the container, each with its run
and with theorems for its safety properties. What is left, in the order of its use:

1. A composition of `Accounts` with one of the services it guards: a permission that is withdrawn while a
   request that was admitted with it is still at work.
2. The expiry, scopes and `last_used_at` of API tokens, and the SAML settings, as a second cached row.
