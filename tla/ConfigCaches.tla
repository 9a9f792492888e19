---------------------------- MODULE ConfigCaches ----------------------------
(***************************************************************************)
(* The two settings the process keeps a copy of in memory: the enabled     *)
(* trusted CAs (services/trust_service.py, core/net/trust_store.py) and    *)
(* the log-forwarding configuration (services/log_forwarding_service.py).  *)
(*                                                                         *)
(* Every change commits first and renews the copy afterwards: the trust    *)
(* store reads the table once more and then assigns, the log forwarder     *)
(* assigns the very row object of the request, with the other columns as   *)
(* that request read them.  Nothing else renews a copy but a restart.      *)
(* A CA that is removed and added again is taken for the same row: SQLite  *)
(* may give the id again.                                                  *)
(***************************************************************************)
EXTENDS Naturals, FiniteSets

CONSTANTS
    Cas,       \* CA certificates an operator may trust, by fingerprint
    Columns,   \* columns of log_forwarding_config
    Values,    \* their values
    Default,   \* the value a column starts with
    Threads,
    MaxRequests,  \* bound: requests begun
    MaxFaults     \* bound: failed commits and process restarts

ASSUME ConstantsAssumption ==
    /\ Default \in Values
    /\ MaxRequests \in Nat /\ MaxFaults \in Nat

VARIABLES
    trusted,  \* trusted_ca_certs: "absent", "off" or "on" (enabled)
    blob,     \* _cached_pem_blob, as the CAs in it
    row,      \* log_forwarding_config
    config,   \* _cached_config
    logged,   \* the <<action, CA>> that have an audit entry since the CA was last added
    pc,
    my,       \* what the thread works on, the record Fresh when it begins
    \* --- bookkeeping
    cut,      \* CAs whose addition was still to be logged, after that of another CA of
              \* their bundle or before it, when that other one was removed
    clean,    \* no change was committed between the read and the
              \* assignment that a copy was renewed by
    begun, faults

vars == <<trusted, blob, row, config, logged, pc, my, cut, clean, begun, faults>>

Enabled == {c \in Cas : trusted[c] = "on"}
Present == {c \in Cas : trusted[c] # "absent"}
Defaults == [k \in Columns |-> Default]

Fresh ==
    [act |-> "add", cas |-> {},     \* what it does, and the CAs still to be logged
     want |-> "on", read |-> "on",  \* enabled, as asked for and as read
     found |-> {},                  \* the enabled CAs that refresh_cache has read
     object |-> Defaults,           \* the LogForwardingConfig object
     dirty |-> {},                  \* its columns that were changed
     fresh |-> TRUE]                \* bookkeeping: no commit of others since its read
-----------------------------------------------------------------------------
\* A fresh database, after lifespan.
Init ==
    /\ trusted = [c \in Cas |-> "absent"]
    /\ blob = {}
    /\ row = Defaults
    /\ config = Defaults
    /\ logged = {}
    /\ pc = [t \in Threads |-> "idle"]
    /\ my = [t \in Threads |-> Fresh]
    /\ cut = {}
    /\ clean = [trust |-> TRUE, log |-> TRUE]
    /\ begun = 0
    /\ faults = 0

\* The thread goes on with what it has in mine.
Goto(t, step, mine) ==
    /\ pc' = [pc EXCEPT ![t] = step]
    /\ my' = [my EXCEPT ![t] = mine]

\* A request reaches an idle thread.
BeginAt(t, step, mine) ==
    /\ pc[t] = "idle" /\ begun < MaxRequests
    /\ begun' = begun + 1
    /\ Goto(t, step, mine)
    /\ UNCHANGED <<trusted, blob, row, config, logged, cut, clean, faults>>

\* A commit of t: what the threads in these steps have read is not the latest.
Commit(t, step, others) ==
    /\ pc' = [pc EXCEPT ![t] = step]
    /\ my' = [u \in Threads |-> [my[u] EXCEPT !.fresh = @ /\ (u = t \/ pc[u] \notin others)]]

Finish(T) ==
    /\ pc' = [t \in Threads |-> IF t \in T THEN "idle" ELSE pc[t]]
    /\ my' = [t \in Threads |-> IF t \in T THEN Fresh ELSE my[t]]
-----------------------------------------------------------------------------
(* Trusted CAs *)

\* u has committed an addition and has entries of it to write.
Adding(u) == pc[u] \in {"refresh", "install", "log"} /\ my[u].act = "add"

\* These CAs are removed: whose additions does that leave without an entry?
NoteCut(gone) ==
    cut' = cut \cup UNION {my[u].cas \ gone :
                            u \in {v \in Threads : Adding(v) /\ my[v].cas \cap gone # {}}}

\* add_trusted_cas: a bundle; those that are there already are skipped, and
\* if nothing is left (duplicate) nothing is done.
AddBegin(t, bundle) ==
    /\ bundle \ Present # {}
    /\ BeginAt(t, "insert", [Fresh EXCEPT !.act = "add", !.cas = bundle \ Present])

Insert(t) ==
    /\ pc[t] = "insert"
    /\ my[t].cas \cap Present = {}
    /\ trusted' = [c \in Cas |-> IF c \in my[t].cas THEN "on" ELSE trusted[c]]
    /\ Commit(t, "refresh", {"install"})
    /\ logged' = {entry \in logged : entry[2] \notin my[t].cas}
    /\ cut' = cut \ my[t].cas
    /\ UNCHANGED <<blob, row, config, clean, begun, faults>>

\* Mutant: the request forgets which row it is about.
SetBeginBlind(t, c, want) ==
    /\ c \in Present
    /\ BeginAt(t, "set", [Fresh EXCEPT !.act = "update", !.want = want, !.read = trusted[c]])

\* update_trusted_ca
SetBegin(t, c, want) ==
    /\ c \in Present
    /\ BeginAt(t, "set", [Fresh EXCEPT !.act = "update", !.cas = {c}, !.want = want, !.read = trusted[c]])

\* The UPDATE leaves out a value that is the one that was read.
Set(t) ==
    /\ pc[t] = "set"
    /\ my[t].want # my[t].read => my[t].cas \subseteq Present
    /\ trusted' = [c \in Cas |-> IF c \in my[t].cas /\ my[t].want # my[t].read
                                 THEN my[t].want ELSE trusted[c]]
    /\ Commit(t, "refresh", {"install"})
    /\ UNCHANGED <<blob, row, config, logged, cut, clean, begun, faults>>

\* The row of the fingerprint is there already, or there no more: 500.
Conflict(t) ==
    /\ \/ pc[t] = "insert" /\ my[t].cas \cap Present # {}
       \/ pc[t] = "set" /\ my[t].want # my[t].read /\ ~(my[t].cas \subseteq Present)
    /\ Finish({t})
    /\ UNCHANGED <<trusted, blob, row, config, logged, cut, clean, begun, faults>>

\* delete_trusted_ca
DeleteBegin(t, c) ==
    /\ c \in Present
    /\ BeginAt(t, "delete", [Fresh EXCEPT !.act = "remove", !.cas = {c}])

\* Mutant: a removal does not renew the copy.
DeleteOnly(t) ==
    /\ pc[t] = "delete"
    /\ trusted' = [c \in Cas |-> IF c \in my[t].cas THEN "absent" ELSE trusted[c]]
    /\ Commit(t, "log", {"install"})
    /\ NoteCut(my[t].cas \cap Present)
    /\ UNCHANGED <<blob, row, config, logged, clean, begun, faults>>

\* A DELETE that finds no row any more is only warned about.
Delete(t) ==
    /\ pc[t] = "delete"
    /\ trusted' = [c \in Cas |-> IF c \in my[t].cas THEN "absent" ELSE trusted[c]]
    /\ Commit(t, "refresh", {"install"})
    /\ NoteCut(my[t].cas \cap Present)
    /\ UNCHANGED <<blob, row, config, logged, clean, begun, faults>>

\* refresh_cache reads the table ...
RefreshRead(t) ==
    /\ pc[t] = "refresh"
    /\ Goto(t, "install", [my[t] EXCEPT !.found = Enabled, !.fresh = TRUE])
    /\ UNCHANGED <<trusted, blob, row, config, logged, cut, clean, begun, faults>>

\* Mutant: the CAs are added to those that are in the copy.
InstallMerged(t) ==
    /\ pc[t] = "install"
    /\ blob' = blob \cup my[t].found
    /\ clean' = [clean EXCEPT !.trust = my[t].fresh]
    /\ Goto(t, "log", my[t])
    /\ UNCHANGED <<trusted, row, config, logged, cut, begun, faults>>

\* ... and assigns the copy.
Install(t) ==
    /\ pc[t] = "install"
    /\ blob' = my[t].found
    /\ clean' = [clean EXCEPT !.trust = my[t].fresh]
    /\ Goto(t, "log", my[t])
    /\ UNCHANGED <<trusted, row, config, logged, cut, begun, faults>>

\* Mutant: one entry for the whole bundle.
LogFirst(t, c) ==
    /\ pc[t] = "log" /\ c \in my[t].cas
    /\ logged' = logged \cup {<<my[t].act, c>>}
    /\ Finish({t})
    /\ UNCHANGED <<trusted, blob, row, config, cut, clean, begun, faults>>

\* db.refresh, but for a removal, and log_action: row after row.
Log(t, c) ==
    /\ pc[t] = "log" /\ c \in my[t].cas
    /\ my[t].act = "remove" \/ c \in Present
    /\ logged' = logged \cup {<<my[t].act, c>>}
    /\ IF my[t].cas = {c} THEN Finish({t})
       ELSE Goto(t, "log", [my[t] EXCEPT !.cas = @ \ {c}])
    /\ UNCHANGED <<trusted, blob, row, config, cut, clean, begun, faults>>

\* db.refresh of a row that was removed meanwhile raises: 500, and the rows
\* after it are not logged.
RowGone(t) ==
    /\ pc[t] = "log" /\ my[t].act # "remove"
    /\ ~(my[t].cas \subseteq Present)
    /\ Finish({t})
    /\ UNCHANGED <<trusted, blob, row, config, logged, cut, clean, begun, faults>>
-----------------------------------------------------------------------------
(* Log forwarding *)

\* update_log_forwarding_config: the row is read and columns of it are set.
ConfigBegin(t, object) ==
    /\ BeginAt(t, "commitConfig", [Fresh EXCEPT !.object = object,
                                            !.dirty = {k \in Columns : object[k] # row[k]}])

ConfigCommit(t) ==
    /\ pc[t] = "commitConfig"
    /\ row' = [k \in Columns |-> IF k \in my[t].dirty THEN my[t].object[k] ELSE row[k]]
    /\ Commit(t, "assignConfig", {"commitConfig", "assignConfig"})
    /\ UNCHANGED <<trusted, blob, config, logged, cut, clean, begun, faults>>

\* _refresh_cache: the copy is the object of this request.
ConfigAssign(t) ==
    /\ pc[t] = "assignConfig"
    /\ config' = my[t].object
    /\ clean' = [clean EXCEPT !.log = my[t].fresh]
    /\ Finish({t})
    /\ UNCHANGED <<trusted, blob, row, logged, cut, begun, faults>>
-----------------------------------------------------------------------------
\* A commit raises ("database is locked"): the request ends with status 500.
CommitFails(t) ==
    /\ pc[t] \in {"insert", "set", "delete", "log", "commitConfig"}
    /\ faults < MaxFaults
    /\ faults' = faults + 1
    /\ Finish({t})
    /\ UNCHANGED <<trusted, blob, row, config, logged, cut, clean, begun>>

\* The process exits and is started again: lifespan reads both tables.
Restart ==
    /\ faults < MaxFaults
    /\ faults' = faults + 1
    /\ blob' = Enabled
    /\ config' = row
    /\ clean' = [trust |-> TRUE, log |-> TRUE]
    /\ Finish(Threads)
    /\ UNCHANGED <<trusted, row, logged, cut, begun>>

Begin(t) ==
    \/ \E bundle \in SUBSET Cas : AddBegin(t, bundle)
    \/ \E c \in Cas : DeleteBegin(t, c) \/ \E want \in {"on", "off"} : SetBegin(t, c, want)
    \/ \E object \in [Columns -> Values] : ConfigBegin(t, object)

Step(t) ==
    \/ Insert(t) \/ Set(t) \/ Conflict(t) \/ Delete(t) \/ RefreshRead(t) \/ Install(t)
    \/ \E c \in Cas : Log(t, c)
    \/ RowGone(t) \/ ConfigCommit(t) \/ ConfigAssign(t)

Next ==
    \/ \E t \in Threads : Begin(t) \/ Step(t) \/ CommitFails(t)
    \/ Restart

Spec == Init /\ [][Next]_vars

-----------------------------------------------------------------------------
(* Properties *)

Steps == {"idle", "insert", "set", "delete", "refresh", "install", "log",
          "commitConfig", "assignConfig"}
Configs == [Columns -> Values]
Reads ==
    [act : {"add", "update", "remove"}, cas : SUBSET Cas, want : {"on", "off"},
     read : {"on", "off"}, found : SUBSET Cas, object : Configs, dirty : SUBSET Columns,
     fresh : BOOLEAN]

\* The type invariant; a request about CAs has some.
TypeOK ==
    /\ trusted \in [Cas -> {"absent", "off", "on"}]
    /\ blob \subseteq Cas
    /\ row \in Configs /\ config \in Configs
    /\ pc \in [Threads -> Steps]
    /\ my \in [Threads -> Reads]
    /\ logged \subseteq {"add", "update", "remove"} \X Cas
    /\ cut \subseteq Cas /\ clean \in [trust : BOOLEAN, log : BOOLEAN]
    /\ begun \in Nat /\ faults \in Nat
    /\ \A t \in Threads :
         pc[t] \in Steps \ {"idle", "commitConfig", "assignConfig"} => my[t].cas # {}

\* "take effect immediately": once every change has been carried through, a
\* copy that is not the table was renewed last by a request that had read the
\* table, or the row, before another one committed.  No other sequence of
\* changes, failures and restarts leaves a removed CA trusted.
StaleOnlyByOverlap ==
    /\ clean.trust /\ (\A t \in Threads : pc[t] \notin {"refresh", "install"}) => blob = Enabled
    /\ clean.log /\ (\A t \in Threads : pc[t] # "assignConfig") => config = row

\* With no fault, a CA is trusted without the audit entry of its addition only while
\* the request that added it is on the way there, or where another CA of its bundle was
\* removed before both entries were written (db.refresh of that one raises, and what
\* came after it in the bundle stays unlogged).
AddsLogged ==
    faults = 0 =>
      \A c \in Present \ cut :
        <<"add", c>> \in logged \/ \E t \in Threads : Adding(t) /\ c \in my[t].cas

Copy == INSTANCE LaggingCopy WITH
    Values <- SUBSET Cas, source <- Enabled, copy <- blob,
    taken <- {my[t].found : t \in {u \in Threads : pc[u] = "install"}}

\* However changes overlap, the CAs that outbound TLS trusts are ones that were
\* enabled together at one moment since the process started.
CopyOfTheTable == Copy!Spec
=============================================================================
