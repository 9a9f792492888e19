--------------------------- MODULE ExpiryNotices ---------------------------
(***************************************************************************)
(* The daily expiry check (_check_expiring_certs of scheduler.py): it logs *)
(* a warning for every certificate and CA about to expire, and tells the   *)
(* owner of a certificate once, by email and Telegram                      *)
(* (services/notification_service.py).                                     *)
(*                                                                         *)
(* One run works on what it read: the notification settings at its start,  *)
(* then the certificates, then the CAs.  Beside it an administrator edits  *)
(* the settings, whose only row either of the two creates when it is       *)
(* missed, and an exception anywhere ends the run.                         *)
(***************************************************************************)
EXTENDS Naturals, FiniteSets

CONSTANTS
    Certs,        \* leaf certificates
    Owned,        \* those with a requested_by_user_id
    Contact,      \* the channels the owner has an address for
    Authorities,  \* CAs
    Channels,     \* email and Telegram
    None,
    MaxFaults     \* bound: failed commits, failed acknowledgements and restarts

ASSUME ConstantsAssumption ==
    /\ Owned \subseteq Certs
    /\ Contact \subseteq Channels
    /\ Certs \cap Authorities = {}
    /\ None \notin Certs \cup Authorities /\ \A S \in SUBSET Channels : S # None
    /\ MaxFaults \in Nat

Items == Certs \cup Authorities

VARIABLES
    \* --- the database
    expiring,   \* the items that are VALID or ACTIVE, not_after within the window
    over,       \* those that are no longer VALID or ACTIVE
    notified,   \* expiry_notified_at is set
    warned,     \* the items that have an expiry_warning in the audit log
    settings,   \* the enabled channels in notification_config; None: no row
    \* --- the world
    working,    \* the channels that deliver
    told,       \* how often the owner was told of a certificate, by channel
    \* --- the job
    pc,
    enabled,    \* its notification_config object
    batch,      \* what it has listed and not yet handled
    done,       \* the certificates that were notified when it listed them
    cur,        \* the certificate whose owner is being told
    left,       \* the channels not tried yet
    delivered,
    \* --- the request that reads or edits the settings
    adminPc, faults

world == <<expiring, over, working>>
job == <<pc, enabled, batch, done, cur, left, delivered>>
vars == <<world, notified, warned, settings, told, job, adminPc, faults>>
-----------------------------------------------------------------------------
Init ==
    /\ expiring = {} /\ over = {}
    /\ notified = [c \in Certs |-> FALSE]
    /\ warned = {}
    /\ settings = None
    /\ working \in SUBSET Channels
    /\ told = [c \in Certs |-> [h \in Channels |-> 0]]
    /\ pc = "idle"
    /\ enabled = {} /\ batch = {} /\ done = {}
    /\ cur = None /\ left = {} /\ delivered = FALSE
    /\ adminPc = "idle"
    /\ faults = 0

\* The run is over; db.close() drops what it had read.
EndRun ==
    /\ pc' = "idle"
    /\ enabled' = {} /\ batch' = {} /\ done' = {}
    /\ cur' = None /\ left' = {} /\ delivered' = FALSE
-----------------------------------------------------------------------------
(* The job; APScheduler runs one at a time *)

\* Mutant: a row that is missing stands for the defaults.
StartBare ==
    /\ pc = "idle"
    /\ pc' = "list" /\ enabled' = IF settings = None THEN {} ELSE settings
    /\ UNCHANGED <<world, notified, warned, settings, told, batch, done, cur, left,
                   delivered, adminPc, faults>>

\* get_notification_config
Start ==
    /\ pc = "idle"
    /\ IF settings = None THEN pc' = "createSettings" /\ UNCHANGED enabled
                          ELSE pc' = "list" /\ enabled' = settings
    /\ UNCHANGED <<world, notified, warned, settings, told, batch, done, cur, left,
                   delivered, adminPc, faults>>

\* The row with id 1 is inserted; if a request has done it first, the
\* IntegrityError ends the run.
CreateSettings ==
    /\ pc = "createSettings"
    /\ IF settings = None
       THEN settings' = {} /\ pc' = "list" /\ UNCHANGED <<enabled, batch, done, cur, left, delivered>>
       ELSE EndRun /\ UNCHANGED settings
    /\ UNCHANGED <<world, notified, warned, told, adminPc, faults>>

\* The query for the certificates, expired ones included.
List ==
    /\ pc = "list"
    /\ pc' = "certs"
    /\ batch' = Certs \cap expiring
    /\ done' = {c \in Certs : notified[c]}
    /\ UNCHANGED <<world, notified, warned, settings, told, enabled, cur, left,
                   delivered, adminPc, faults>>

\* log_action, and the owner is told unless there is none, or no need.
Warn(c) ==
    /\ pc = "certs" /\ c \in batch
    /\ batch' = batch \ {c}
    /\ warned' = warned \cup {c}
    /\ IF c \in done \/ c \notin Owned
       THEN UNCHANGED <<pc, cur, left, delivered>>
       ELSE /\ pc' = "tell" /\ cur' = c /\ delivered' = FALSE
            /\ left' = enabled \cap Contact
    /\ UNCHANGED <<world, notified, settings, told, enabled, done, adminPc, faults>>

\* Mutant: the first channel that fails ends the attempt.
TellUntilFailure(h) ==
    /\ pc = "tell" /\ h \in left
    /\ IF h \in working
       THEN left' = left \ {h} /\ delivered' = TRUE /\ told' = [told EXCEPT ![cur][h] = @ + 1]
       ELSE left' = {} /\ UNCHANGED <<delivered, told>>
    /\ UNCHANGED <<world, notified, warned, settings, pc, enabled, batch, done, cur,
                   adminPc, faults>>

\* notify_expiring_certificate, in either order of the channels: one that fails is
\* only logged.
Tell(h) ==
    /\ pc = "tell" /\ h \in left
    /\ left' = left \ {h}
    /\ IF h \in working
       THEN delivered' = TRUE /\ told' = [told EXCEPT ![cur][h] = @ + 1]
       ELSE UNCHANGED <<delivered, told>>
    /\ UNCHANGED <<world, notified, warned, settings, pc, enabled, batch, done, cur,
                   adminPc, faults>>

\* Mutant: the run is over when a certificate could not be notified.
GiveUpRun ==
    /\ pc = "tell" /\ left = {} /\ ~delivered
    /\ EndRun
    /\ UNCHANGED <<world, notified, warned, settings, told, adminPc, faults>>

\* Nobody was reached: the certificate is left for the next run.
GiveUp ==
    /\ pc = "tell" /\ left = {} /\ ~delivered
    /\ pc' = "certs" /\ cur' = None
    /\ UNCHANGED <<world, notified, warned, settings, told, enabled, batch, done, left,
                   delivered, adminPc, faults>>

\* Mutant: it is marked whether or not a channel has delivered.
MarkAlways ==
    /\ pc = "tell" /\ left = {}
    /\ notified' = [notified EXCEPT ![cur] = TRUE]
    /\ pc' = "logNotified"
    /\ UNCHANGED <<world, warned, settings, told, enabled, batch, done, cur, left,
                   delivered, adminPc, faults>>

\* expiry_notified_at is committed, on whatever the row is by now.
Mark ==
    /\ pc = "tell" /\ left = {} /\ delivered
    /\ notified' = [notified EXCEPT ![cur] = TRUE]
    /\ pc' = "logNotified"
    /\ UNCHANGED <<world, warned, settings, told, enabled, batch, done, cur, left,
                   delivered, adminPc, faults>>

LogNotified ==
    /\ pc = "logNotified"
    /\ pc' = "certs" /\ cur' = None
    /\ UNCHANGED <<world, notified, warned, settings, told, enabled, batch, done, left,
                   delivered, adminPc, faults>>

\* The query for the CAs, ...
ListCas ==
    /\ pc = "certs" /\ batch = {}
    /\ pc' = "cas"
    /\ batch' = Authorities \cap expiring
    /\ UNCHANGED <<world, notified, warned, settings, told, enabled, done, cur, left,
                   delivered, adminPc, faults>>

\* ... a warning for each, ...
WarnCa(a) ==
    /\ pc = "cas" /\ a \in batch
    /\ batch' = batch \ {a}
    /\ warned' = warned \cup {a}
    /\ UNCHANGED <<world, notified, settings, told, pc, enabled, done, cur, left,
                   delivered, adminPc, faults>>

\* ... and the run is over.
End ==
    /\ pc = "cas" /\ batch = {}
    /\ EndRun
    /\ UNCHANGED <<world, notified, warned, settings, told, adminPc, faults>>
-----------------------------------------------------------------------------
(* Faults *)

\* A channel delivers, and then raises (a lost acknowledgement).
TellUnconfirmed(h) ==
    /\ pc = "tell" /\ h \in left \cap working
    /\ faults < MaxFaults
    /\ faults' = faults + 1
    /\ left' = left \ {h}
    /\ told' = [told EXCEPT ![cur][h] = @ + 1]
    /\ UNCHANGED <<world, notified, warned, settings, pc, enabled, batch, done, cur,
                   delivered, adminPc>>

\* A commit of the run raises ("database is locked").
CommitFails ==
    /\ \/ pc \in {"createSettings", "logNotified"}
       \/ pc \in {"certs", "cas"} /\ batch # {}
       \/ pc = "tell" /\ left = {} /\ delivered
    /\ faults < MaxFaults
    /\ faults' = faults + 1
    /\ EndRun
    /\ UNCHANGED <<world, notified, warned, settings, told, adminPc>>

\* The process exits and is started again; the next run is a day away.
Restart ==
    /\ faults < MaxFaults
    /\ faults' = faults + 1
    /\ EndRun
    /\ adminPc' = "idle"
    /\ UNCHANGED <<world, notified, warned, settings, told>>
-----------------------------------------------------------------------------
(* What goes on beside the job *)

\* GET and PATCH /settings/notifications: get_notification_config ...
AdminBegin ==
    /\ adminPc = "idle"
    /\ adminPc' = IF settings = None THEN "create" ELSE "set"
    /\ UNCHANGED <<world, notified, warned, settings, told, job, faults>>

\* ... creates the row, or meets one and answers 500, ...
AdminCreate ==
    /\ adminPc = "create"
    /\ IF settings = None THEN settings' = {} /\ adminPc' = "set"
                          ELSE adminPc' = "idle" /\ UNCHANGED settings
    /\ UNCHANGED <<world, notified, warned, told, job, faults>>

\* ... and a PATCH commits the columns that it changes.
AdminSet(on, off) ==
    /\ adminPc = "set"
    /\ adminPc' = "idle"
    /\ settings' = (settings \cup on) \ off
    /\ UNCHANGED <<world, notified, warned, told, job, faults>>

\* An item comes to be about to expire (or does not after all: the window is a
\* setting), is revoked, renewed or superseded; a server goes down or comes back.
Environment ==
    /\ \/ \E i \in Items \ over :
            /\ \/ expiring' = expiring \cup {i} /\ UNCHANGED over
               \/ expiring' = expiring \ {i} /\ (over' = over \/ over' = over \cup {i})
            /\ UNCHANGED working
       \/ working' \in SUBSET Channels /\ UNCHANGED <<expiring, over>>
    /\ UNCHANGED <<notified, warned, settings, told, job, adminPc, faults>>

Job ==
    \/ Start \/ CreateSettings \/ List \/ GiveUp \/ Mark \/ LogNotified \/ ListCas \/ End
    \/ \E c \in Certs : Warn(c)
    \/ \E h \in Channels : Tell(h)
    \/ \E a \in Authorities : WarnCa(a)

Next ==
    \/ Job
    \/ \E h \in Channels : TellUnconfirmed(h)
    \/ CommitFails \/ Restart
    \/ AdminBegin \/ AdminCreate \/ \E on, off \in SUBSET Channels : AdminSet(on, off)
    \/ Environment

Spec == Init /\ [][Next]_vars

\* The scheduler starts the job every 24 hours, and a job that runs goes on.
FairSpec == Spec /\ WF_vars(Job)

-----------------------------------------------------------------------------
(* Properties *)

\* The type invariant; the settings are there once the run has read them, and
\* a run that tells somebody tells the owner of a certificate it found due.
TypeOK ==
    /\ expiring \subseteq Items /\ over \subseteq Items \ expiring
    /\ notified \in [Certs -> BOOLEAN] /\ warned \subseteq Items
    /\ settings \in {None} \cup SUBSET Channels
    /\ working \subseteq Channels
    /\ told \in [Certs -> [Channels -> Nat]]
    /\ pc \in {"idle", "createSettings", "list", "certs", "tell", "logNotified", "cas"}
    /\ enabled \subseteq Channels /\ batch \subseteq Items /\ done \subseteq Certs
    /\ cur \in Owned \cup {None} /\ left \subseteq Channels /\ delivered \in BOOLEAN
    /\ adminPc \in {"idle", "create", "set"}
    /\ faults \in Nat
    /\ pc \in {"list", "certs", "tell", "logNotified", "cas"} \/ adminPc = "set" => settings # None
    /\ pc \in {"tell", "logNotified"} => cur # None /\ cur \in warned
    /\ pc \in {"certs", "tell", "logNotified"} => batch \subseteq Certs
    /\ pc = "cas" => batch \subseteq Authorities

\* "once per cert": an owner is not told again over a channel that has done it
\* but for a fault in between, and a certificate is marked only when the owner
\* was told; without a fault one that was told is marked, or about to be.
NoticesCounted ==
    \A c \in Certs :
      /\ \A h \in Channels : told[c][h] <= 1 + faults
      /\ notified[c] => \E h \in Channels : told[c][h] > 0
      /\ faults = 0 /\ ~notified[c] /\ (\E h \in Channels : told[c][h] > 0) =>
           pc = "tell" /\ cur = c /\ delivered

\* "a misconfigured SMTP/Telegram setup naturally retries on the next run": a
\* certificate that stays valid and about to expire, and whose owner can from
\* some time on be reached over a channel, is notified, whatever failed before.
EventuallyTold ==
    \A c \in Owned, h \in Channels :
      <>[](/\ c \in expiring
           /\ settings # None /\ h \in settings \cap Contact \cap working) => <>notified[c]

\* A warning is logged for whatever stays about to expire, the CAs included that
\* come after all the certificates, however often the telling fails.
EventuallyWarned == \A i \in Items : <>[](i \in expiring) => <>(i \in warned)
=============================================================================
