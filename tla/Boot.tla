-------------------------------- MODULE Boot --------------------------------
(***************************************************************************)
(* How the process starts, and starts again: docker/entrypoint.sh runs the *)
(* migrations, then the pre-flight step bootstrap.py, which makes the TLS  *)
(* listener's key pair if there is none and writes it where Uvicorn reads  *)
(* it, then the server, whose lifespan (main.py) makes the first           *)
(* administrator and loads the intermediate CA's key.  Whatever raises     *)
(* ends the process, and the container starts it again.                    *)
(*                                                                         *)
(* The private keys in the database are wrapped with the master key, which *)
(* is in a file of its own (core/crypto/master_key.py).  A request that    *)
(* replaces the TLS pair (services/tls_service.py) ends the process, half  *)
(* a second later, for the next one to serve it.                           *)
(***************************************************************************)
EXTENDS Naturals, Sequences, FiniteSets

CONSTANTS
    Main,         \* the process from its entry point to the server's loop
    Threads,      \* request threads
    Uploads,      \* the key pairs administrators hold
    Weak,         \* those of them that the server's TLS library refuses
    Issuable,     \* the key pairs the intermediate CA can still certify
    SelfSigned,   \* the key pair the pre-flight step makes
    None, Empty,
    MaxRequests, MaxFaults, MaxLosses  \* bounds

Pairs == Uploads \cup Issuable \cup {SelfSigned}
Actors == Threads \cup {Main}

ASSUME ConstantsAssumption ==
    /\ Main \notin Threads
    /\ None \notin Nat /\ Empty \notin Nat /\ None # Empty
    /\ None \notin Pairs /\ SelfSigned \notin Uploads \cup Issuable
    /\ Uploads \cap Issuable = {} /\ Weak \subseteq Uploads
    /\ None \notin [crt : Pairs, key : Pairs, under : Nat]
    /\ {MaxRequests, MaxFaults, MaxLosses} \subseteq Nat
-----------------------------------------------------------------------------
(* The migrations of alembic/versions, in order: what each creates.  SQLite *)
(* commits a CREATE or an ALTER at once; rows are inserted and updated in   *)
(* one transaction with the number of the revision.                         *)

InitialSchema ==
    <<"cert_profiles", "certificate_authorities", "permissions", "roles", "saml_config",
      "tls_listener_config", "users", "api_tokens", "app_settings", "crl_issuances",
      "role_permissions", "sessions", "user_roles", "audit_log", "certificates", "revocations">>
SeedRoles == <<>>
SeedProfiles == <<>>
BackfillSubjects == <<>>
SeedRequester == <<>>
AddCertificateRequests == <<"certificate_requests">>
AddNotifications == <<"notification_config", "expiry_notified_at", "telegram_chat_id">>
AddLogForwarding == <<"log_forwarding_config">>
AddTrustedCas == <<"trusted_ca_certs">>

Revisions ==
    <<InitialSchema, SeedRoles, SeedProfiles, BackfillSubjects, SeedRequester,
      AddCertificateRequests, AddNotifications, AddLogForwarding, AddTrustedCas>>
-----------------------------------------------------------------------------
VARIABLES
    \* --- on disk
    version,    \* the revisions that alembic_version has seen
    ddl,        \* how much of the next one the database has
    keyFile,    \* the master key: its number, Empty, or None: no file
    tls,        \* tls_listener_config: certificate, private key, the key it is under
    inter,      \* the master key that wraps the ACTIVE intermediate's; None: no CA
    admin,      \* the first administrator: "none", "made", "logged"
    files,      \* tls.crt and tls.key
    \* --- in the process
    pc, my,     \* of Main and of the threads
    served,     \* the pair the listener has loaded
    vault,      \* the intermediate's key is in memory
    armed,      \* the timer of _schedule_restart runs
    unarmed,    \* a replacement was stored, and the entry before its timer failed
                \* (only the properties use this)
    \* --- counters, and what only the properties use
    made, issued, begun, faults, losses,
    overlapped  \* a replacement was written over one it had not read

disk == <<version, ddl, keyFile, tls, inter, admin, files>>
memory == <<served, vault, armed, unarmed>>
counters == <<made, issued, begun, faults, losses, overlapped>>
vars == <<disk, pc, my, memory, counters>>

NoPair == [crt |-> None, key |-> None]
Fresh == [pair |-> NoPair, row |-> None, key |-> None, done |-> 0, then |-> "-"]

Init ==
    /\ version = 0 /\ ddl = 0 /\ keyFile = None /\ tls = None /\ inter = None
    /\ admin = "none" /\ files = NoPair
    /\ pc = [a \in Actors |-> IF a = Main THEN "down" ELSE "idle"]
    /\ my = [a \in Actors |-> Fresh]
    /\ served = NoPair /\ vault = FALSE /\ armed = FALSE /\ unarmed = FALSE
    /\ made = 0 /\ issued = {} /\ begun = 0 /\ faults = 0 /\ losses = 0
    /\ overlapped = FALSE

Goto(a, l) == pc' = [pc EXCEPT ![a] = l]

\* Actor a loads the master key, and goes on at l.
KeyThen(a, l) == Goto(a, "key") /\ my' = [my EXCEPT ![a].then = l]

\* The process is gone, with its threads and what it had in memory.
Die ==
    /\ pc' = [a \in Actors |-> IF a = Main THEN "down" ELSE "idle"]
    /\ my' = [a \in Actors |-> Fresh]
    /\ served' = NoPair /\ vault' = FALSE /\ armed' = FALSE /\ unarmed' = FALSE

\* An exception: the end of a start, a 500 for a request.
Raise(a) ==
    IF a = Main THEN Die
    ELSE Goto(a, "idle") /\ my' = [my EXCEPT ![a] = Fresh] /\ UNCHANGED memory
-----------------------------------------------------------------------------
(* load_or_create_master_key *)

\* The file is there (an empty one is no AES key, and whatever uses it raises) ...
LoadKey(a) ==
    /\ pc[a] = "key"
    /\ CASE keyFile = None -> Goto(a, "createKey") /\ UNCHANGED <<my, memory>>
         [] keyFile = Empty -> Raise(a)
         [] OTHER -> /\ Goto(a, my[a].then)
                     /\ my' = [my EXCEPT ![a].key = keyFile]
                     /\ UNCHANGED memory
    /\ UNCHANGED <<disk, counters>>

\* ... or is created, ...
CreateKeyFile(a) ==
    /\ pc[a] = "createKey"
    /\ keyFile' = Empty
    /\ Goto(a, "writeKey")
    /\ UNCHANGED <<version, ddl, tls, inter, admin, files, my, memory, counters>>

\* Mutant: the write does not reach the file.
KeyNotWritten(a) ==
    /\ pc[a] = "writeKey"
    /\ made' = made + 1
    /\ my' = [my EXCEPT ![a].key = made']
    /\ Goto(a, my[a].then)
    /\ UNCHANGED <<disk, memory, issued, begun, faults, losses, overlapped>>

\* ... and written, unless it was removed since: then the key is in memory only.
WriteKeyFile(a) ==
    /\ pc[a] = "writeKey"
    /\ made' = made + 1
    /\ keyFile' = IF keyFile = None THEN None ELSE made'
    /\ my' = [my EXCEPT ![a].key = made']
    /\ Goto(a, my[a].then)
    /\ UNCHANGED <<version, ddl, tls, inter, admin, files, memory, issued, begun, faults,
                   losses, overlapped>>
-----------------------------------------------------------------------------
(* The start *)

\* restart: unless-stopped
Start ==
    /\ pc[Main] = "down"
    /\ Goto(Main, "migrate")
    /\ UNCHANGED <<disk, my, memory, counters>>

\* A statement of the next revision; what it creates may be there already, from
\* a start that did not get to the end of that revision.
Create ==
    /\ pc[Main] = "migrate" /\ version < Len(Revisions)
    /\ my[Main].done < Len(Revisions[version + 1])
    /\ IF my[Main].done < ddl
       THEN Raise(Main) /\ UNCHANGED ddl
       ELSE /\ ddl' = ddl + 1 /\ my' = [my EXCEPT ![Main].done = @ + 1]
            /\ UNCHANGED <<pc, memory>>
    /\ UNCHANGED <<version, keyFile, tls, inter, admin, files, counters>>

\* Its rows, and its number.
Stamp ==
    /\ pc[Main] = "migrate" /\ version < Len(Revisions)
    /\ my[Main].done = Len(Revisions[version + 1])
    /\ version' = version + 1 /\ ddl' = 0
    /\ my' = [my EXCEPT ![Main].done = 0]
    /\ UNCHANGED <<keyFile, tls, inter, admin, files, pc, memory, counters>>

\* Mutant: the server is started without the pre-flight step.
MigratedServe ==
    /\ pc[Main] = "migrate" /\ version = Len(Revisions)
    /\ Goto(Main, "load")
    /\ UNCHANGED <<disk, my, memory, counters>>

Migrated ==
    /\ pc[Main] = "migrate" /\ version = Len(Revisions)
    /\ Goto(Main, "ensure")
    /\ UNCHANGED <<disk, my, memory, counters>>

\* ensure_tls_listener_config: the row, or ...
Ensure ==
    /\ pc[Main] = "ensure"
    /\ IF tls = None
       THEN KeyThen(Main, "store")
       ELSE Goto(Main, "key") /\ my' = [my EXCEPT ![Main].row = tls, ![Main].then = "unwrap"]
    /\ UNCHANGED <<disk, memory, counters>>

\* ... a new one, with its private key wrapped.
Store ==
    /\ pc[Main] = "store"
    /\ tls' = [crt |-> SelfSigned, key |-> SelfSigned, under |-> my[Main].key]
    /\ my' = [my EXCEPT ![Main].row = tls', ![Main].then = "unwrap"]
    /\ Goto(Main, "key")
    /\ UNCHANGED <<version, ddl, keyFile, inter, admin, files, memory, counters>>

\* materialize_tls_files: the private key is unwrapped, ...
Unwrap ==
    /\ pc[Main] = "unwrap"
    /\ IF my[Main].row.under = my[Main].key
       THEN Goto(Main, "writeCrt") /\ UNCHANGED <<my, memory>>
       ELSE Raise(Main)
    /\ UNCHANGED <<disk, counters>>

\* ... the certificate is written, ...
WriteCrt ==
    /\ pc[Main] = "writeCrt"
    /\ files' = [files EXCEPT !.crt = my[Main].row.crt]
    /\ Goto(Main, "writePem")
    /\ UNCHANGED <<version, ddl, keyFile, tls, inter, admin, my, memory, counters>>

\* ... and the key.
WritePem ==
    /\ pc[Main] = "writePem"
    /\ files' = [files EXCEPT !.key = my[Main].row.key]
    /\ Goto(Main, "load")
    /\ UNCHANGED <<version, ddl, keyFile, tls, inter, admin, my, memory, counters>>

\* Uvicorn loads the pair, which must be one, and strong enough for the library.
LoadPair ==
    /\ pc[Main] = "load"
    /\ IF files.crt = files.key /\ files.crt \notin Weak
       THEN served' = files /\ Goto(Main, "admin") /\ UNCHANGED <<my, vault, armed, unarmed>>
       ELSE Raise(Main)
    /\ UNCHANGED <<disk, counters>>

\* Mutant: the administrator is inserted at each start, against the unique name.
MakeAdminAgain ==
    /\ pc[Main] = "admin"
    /\ IF admin = "none"
       THEN admin' = "made" /\ Goto(Main, "logAdmin") /\ UNCHANGED <<my, memory>>
       ELSE Raise(Main) /\ UNCHANGED admin
    /\ UNCHANGED <<version, ddl, keyFile, tls, inter, files, counters>>

\* bootstrap_initial_admin
MakeAdmin ==
    /\ pc[Main] = "admin"
    /\ IF admin = "none"
       THEN admin' = "made" /\ Goto(Main, "logAdmin")
       ELSE UNCHANGED admin /\ Goto(Main, "vault")
    /\ UNCHANGED <<version, ddl, keyFile, tls, inter, files, my, memory, counters>>

LogAdmin ==
    /\ pc[Main] = "logAdmin"
    /\ admin' = "logged"
    /\ Goto(Main, "vault")
    /\ UNCHANGED <<version, ddl, keyFile, tls, inter, files, my, memory, counters>>

\* load_intermediate, if there is an ACTIVE one, ...
FindIntermediate ==
    /\ pc[Main] = "vault"
    /\ IF inter = None THEN Goto(Main, "caches") /\ UNCHANGED my
                       ELSE KeyThen(Main, "unwrapCa")
    /\ UNCHANGED <<disk, memory, counters>>

\* ... unwraps its key, outside any try.
LoadIntermediate(a) ==
    /\ pc[a] = "unwrapCa"
    /\ IF inter = my[a].key
       THEN /\ vault' = TRUE
            /\ IF a = Main THEN Goto(a, "caches") /\ UNCHANGED my
                           ELSE Goto(a, "idle") /\ my' = [my EXCEPT ![a] = Fresh]
            /\ UNCHANGED <<served, armed, unarmed>>
       ELSE Raise(a)
    /\ UNCHANGED <<disk, counters>>

\* The caches are filled, log forwarding and the scheduler started.
Serve ==
    /\ pc[Main] = "caches"
    /\ Goto(Main, "up")
    /\ my' = [my EXCEPT ![Main] = Fresh]
    /\ UNCHANGED <<disk, memory, counters>>
-----------------------------------------------------------------------------
(* Requests *)

Idle(t) == pc[Main] = "up" /\ pc[t] = "idle"
Admit == begun < MaxRequests /\ begun' = begun + 1

\* Mutant: whether certificate and private key fit makes no difference.
UploadUnchecked(t) ==
    /\ Idle(t)
    /\ \/ UNCHANGED <<pc, my, begun>>
       \/ \E c, k \in Uploads :
            /\ Admit
            /\ Goto(t, "key")
            /\ my' = [my EXCEPT ![t].pair = [crt |-> c, key |-> k], ![t].then = "get"]
    /\ UNCHANGED <<disk, memory, made, issued, faults, losses, overlapped>>

\* replace_with_uploaded: 400 unless the two fit (whatever their strength), ...
Upload(t) ==
    /\ Idle(t)
    /\ \E c, k \in Uploads :
         IF c = k
         THEN /\ Admit
              /\ Goto(t, "key")
              /\ my' = [my EXCEPT ![t].pair = [crt |-> c, key |-> k], ![t].then = "get"]
         ELSE UNCHANGED <<pc, my, begun>>
    /\ UNCHANGED <<disk, memory, made, issued, faults, losses, overlapped>>

\* ... replace_with_intermediate: 503 without its key, else a certificate for a new
\* key (its issuance is CertLifecycle's), ...
Issue(t) ==
    /\ Idle(t) /\ Admit /\ vault
    /\ \E p \in Issuable \ issued :
         /\ issued' = issued \cup {p}
         /\ Goto(t, "key")
         /\ my' = [my EXCEPT ![t].pair = [crt |-> p, key |-> p], ![t].then = "get"]
    /\ UNCHANGED <<disk, memory, made, faults, losses, overlapped>>

\* ... _upsert_tls_config: the row is read, ...
Get(t) ==
    /\ pc[t] = "get"
    /\ my' = [my EXCEPT ![t].row = tls]
    /\ Goto(t, "put")
    /\ UNCHANGED <<disk, memory, counters>>

\* ... and the columns that differ from what was read are written: the wrapped key
\* always, the certificate unless it is the same.
Put(t) ==
    /\ pc[t] = "put"
    /\ tls' = [crt |-> IF my[t].row # None /\ my[t].row.crt = my[t].pair.crt
                       THEN tls.crt ELSE my[t].pair.crt,
               key |-> my[t].pair.key, under |-> my[t].key]
    /\ overlapped' = (overlapped \/ tls # my[t].row)
    /\ Goto(t, "log") /\ my' = [my EXCEPT ![t] = Fresh]
    /\ UNCHANGED <<version, ddl, keyFile, inter, admin, files, memory, made, issued,
                   begun, faults, losses>>

\* Mutant: the answer is sent, and the process goes on.
LogAndAnswer(t) ==
    /\ pc[t] = "log"
    /\ Goto(t, "idle")
    /\ UNCHANGED <<disk, my, memory, counters>>

\* log_action, ...
Log(t) ==
    /\ pc[t] = "log"
    /\ Goto(t, "arm")
    /\ UNCHANGED <<disk, my, memory, counters>>

\* ... and _schedule_restart.
Arm(t) ==
    /\ pc[t] = "arm"
    /\ armed' = TRUE
    /\ Goto(t, "idle")
    /\ UNCHANGED <<disk, my, served, vault, unarmed, counters>>

\* os._exit
Exit ==
    /\ armed
    /\ Die
    /\ UNCHANGED <<disk, counters>>

\* init_intermediate (the rest of it is CaLifecycle's): 409 if there is one, else
\* its key is wrapped, ...
InitIntermediate(t) ==
    /\ Idle(t) /\ Admit /\ inter = None
    /\ KeyThen(t, "activate")
    /\ UNCHANGED <<disk, memory, made, issued, faults, losses, overlapped>>

\* ... the row committed, which is the one in use unless another is older, and
\* that one's key loaded.
Activate(t) ==
    /\ pc[t] = "activate"
    /\ inter' = IF inter = None THEN my[t].key ELSE inter
    /\ KeyThen(t, "unwrapCa")
    /\ UNCHANGED <<version, ddl, keyFile, tls, admin, files, memory, counters>>
-----------------------------------------------------------------------------
(* Faults *)

\* A commit raises ("database is locked").
CommitFails(a) ==
    /\ faults < MaxFaults
    /\ faults' = faults + 1
    /\ pc[a] \in {"store", "admin", "logAdmin", "put", "activate"}
    /\ Raise(a)
    /\ UNCHANGED <<disk, made, issued, begun, losses, overlapped>>

\* The entry's commit raises, after the pair's: the request ends before the timer.
LogFails(t) ==
    /\ faults < MaxFaults
    /\ faults' = faults + 1
    /\ pc[t] = "log"
    /\ Goto(t, "idle") /\ my' = [my EXCEPT ![t] = Fresh]
    /\ unarmed' = TRUE
    /\ UNCHANGED <<disk, served, vault, armed, made, issued, begun, losses, overlapped>>

\* The process or its host stops, at any point.
Crash ==
    /\ faults < MaxFaults
    /\ faults' = faults + 1
    /\ Die
    /\ UNCHANGED <<disk, made, issued, begun, losses, overlapped>>

\* The file with the master key is lost, or its volume not mounted.
LoseKeyFile ==
    /\ losses < MaxLosses /\ keyFile # None
    /\ losses' = losses + 1
    /\ keyFile' = None
    /\ UNCHANGED <<version, ddl, tls, inter, admin, files, pc, my, memory, made, issued,
                   begun, faults, overlapped>>
-----------------------------------------------------------------------------
KeyStep(a) == LoadKey(a) \/ CreateKeyFile(a) \/ WriteKeyFile(a)

MainStep ==
    \/ Start \/ Create \/ Stamp \/ Migrated
    \/ KeyStep(Main)
    \/ Ensure \/ Store \/ Unwrap \/ WriteCrt \/ WritePem \/ LoadPair
    \/ MakeAdmin \/ LogAdmin \/ FindIntermediate \/ LoadIntermediate(Main) \/ Serve

Request(t) ==
    \/ KeyStep(t)
    \/ Upload(t) \/ Issue(t) \/ Get(t) \/ Put(t) \/ Log(t) \/ Arm(t)
    \/ InitIntermediate(t) \/ Activate(t) \/ LoadIntermediate(t)

Next ==
    \/ MainStep
    \/ \E t \in Threads : Request(t)
    \/ Exit
    \/ \E a \in Actors : CommitFails(a)
    \/ \E t \in Threads : LogFails(t)
    \/ Crash \/ LoseKeyFile

Spec == Init /\ [][Next]_vars

\* The container is started again whenever it has exited, and a start goes on.
FairSpec == Spec /\ WF_vars(MainStep)
-----------------------------------------------------------------------------
(* Properties *)

Starting == {"migrate", "ensure", "store", "unwrap", "writeCrt", "writePem", "load", "admin",
             "logAdmin", "vault", "unwrapCa", "caches", "key", "createKey", "writeKey"}
Working == {"key", "createKey", "writeKey", "get", "put", "log", "arm", "activate", "unwrapCa"}
Keys == Nat \ {0}
Row == [crt : Pairs, key : Pairs, under : Keys]
Files == [crt : Pairs \cup {None}, key : Pairs \cup {None}]

\* The type invariant; a request runs in a process that is up, and a process that
\* is past the pre-flight step has the schema, a pair and the row it came from.
TypeOK ==
    /\ version \in 0 .. Len(Revisions) /\ ddl \in Nat
    /\ keyFile \in {None, Empty} \cup Keys /\ tls \in {None} \cup Row
    /\ inter \in {None} \cup Keys /\ admin \in {"none", "made", "logged"} /\ files \in Files
    /\ pc \in [Actors -> {"down", "up", "idle"} \cup Starting \cup Working]
    /\ pc[Main] \in {"down", "up"} \cup Starting
    /\ my \in [Actors -> [pair : Files, row : {None} \cup Row, key : {None} \cup Keys,
                          done : Nat,
                          then : {"-", "store", "unwrap", "unwrapCa", "get", "activate"}]]
    /\ served \in Files /\ vault \in BOOLEAN /\ armed \in BOOLEAN
    /\ unarmed \in BOOLEAN
    /\ made \in Nat /\ issued \subseteq Issuable /\ begun \in Nat /\ faults \in Nat
    /\ losses \in Nat /\ overlapped \in BOOLEAN
    /\ \A t \in Threads : pc[t] \in {"idle"} \cup Working
    /\ \A t \in Threads : pc[t] # "idle" => pc[Main] = "up"
    /\ pc[Main] = "up" => served \in [crt : Pairs, key : Pairs] /\ tls # None

\* As long as the master key's file was not lost, every private key in the
\* database is wrapped with the key in that file, wherever a start or a request
\* was cut short; and the certificate in the row is that of its key, but where
\* two replacements overlapped.
SecretsUsable ==
    /\ losses = 0 =>
         /\ tls # None => tls.under = keyFile
         /\ inter # None => inter = keyFile
    /\ tls # None /\ ~overlapped => tls.crt = tls.key

\* A replaced pair does not stay unserved: a process that serves another one than
\* the row's is about to end, or in the request that will see to it, whatever other
\* requests did and failed to do meanwhile -- unless a replacement was stored in this
\* process and its log entry, which comes before the timer, was not.
ReplacedIsServed ==
    /\ pc[Main] = "up" /\ ~unarmed
    /\ [crt |-> tls.crt, key |-> tls.key] # served
    => armed \/ \E t \in Threads : pc[t] \in {"log", "arm"}

\* What a start needs to find on the disk to succeed.
Bootable ==
    /\ ddl = 0
    /\ keyFile # Empty
    /\ tls # None => tls.crt = tls.key /\ tls.under = keyFile /\ tls.crt \notin Weak
    /\ inter # None => inter = keyFile

\* A container that is started on a disk that is whole gets to serve, however often
\* it is stopped, unless that leaves a revision half applied or the key's file
\* empty, or the file is lost, or two replacements have mixed their pairs, or an
\* administrator has uploaded a pair that the TLS library refuses.
StartsAgain ==
    pc[Main] = "down" /\ Bootable ~> (pc[Main] = "up" \/ (pc[Main] = "down" /\ ~Bootable))

\* What can have left a disk that a start raises on:
\* a start cut short in the middle of a revision, ...
HalfMigrated == ddl # 0 /\ faults > 0
\* ... or of the creation of the master key's file (a request creates it anew only
\* once it was lost), ...
EmptyKeyFile == keyFile = Empty /\ (faults > 0 \/ losses > 0)
\* ... the loss of that file, with secrets that it had wrapped, ...
LostKey ==
    /\ losses > 0
    /\ (tls # None /\ tls.under # keyFile) \/ (inter # None /\ inter # keyFile)
\* ... two replacements of which one wrote over what it had not read, without any
\* fault, ...
MixedPair == overlapped /\ tls # None /\ tls.crt # tls.key
\* ... and the upload of a pair that fits, but that the TLS library refuses.
WeakPair == tls # None /\ tls.crt \in Weak

\* A process that serves, or starts, ends only to serve a replaced pair, at a fault, or
\* in a start that raises on what one of these five has left.  In particular no other
\* request, and no earlier start wherever it was cut short, leaves anything that a
\* later start raises on.
StopsForACause ==
    [][ pc[Main] # "down" /\ pc'[Main] = "down"
        => \/ armed \/ faults' # faults
           \/ HalfMigrated \/ EmptyKeyFile \/ LostKey \/ MixedPair \/ WeakPair ]_vars
=============================================================================
