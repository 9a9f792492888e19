--------------------------- MODULE LogForwarding ---------------------------
(***************************************************************************)
(* The log-forwarding queue of services/log_forwarding_service.py: threads *)
(* that log a record or write an audit entry put it in a bounded queue, a  *)
(* worker thread takes it out and sends it.                                *)
(*                                                                         *)
(* Two locks are involved.  logging.Handler.handle holds the handler's     *)
(* lock, which is re-entrant, while it calls emit.  _enqueue holds         *)
(* _dropped_lock, which is not, while it counts an event the full queue    *)
(* refused, and while it logs a warning about it, which goes through the   *)
(* same handler into _enqueue again.                                       *)
(***************************************************************************)
EXTENDS Naturals, Sequences, FiniteSets

CONSTANTS
    Loggers,      \* threads that log records of the "capki" loggers
    Auditors,     \* threads that call audit_service.log_action
    Configs,      \* values of the cached log_forwarding_config row
    Capacity,     \* _QUEUE_MAXSIZE
    WarnEvery,    \* every 100th dropped event is warned about
    None,         \* no thread
    MaxRefused    \* bound: events refused by a full queue before calls stop

Threads == Loggers \cup Auditors
Streams == {"app", "audit"}
Outputs == {"hec", "syslog"}
Levels == {"INFO", "WARNING", "ERROR"}

\* A config: which outputs are enabled, the streams each takes, and the levels
\* that app_log_min_level lets through.
Config == [enabled : SUBSET Outputs, takes : [Outputs -> SUBSET Streams], levels : SUBSET Levels]

ASSUME ConstantsAssumption ==
    /\ Loggers \cap Auditors = {}
    /\ None \notin Threads
    /\ Configs \subseteq Config
    /\ Capacity \in Nat \ {0}
    /\ WarnEvery \in Nat \ {0, 1}
    /\ MaxRefused \in Nat

VARIABLES
    cached,       \* _cached_config
    queue,        \* _queue: the stream of each event in it
    refused,      \* history: how often put_nowait raised Full
    dropped,      \* _dropped_count
    droppedLock,  \* the thread that holds _dropped_lock
    handlerLock,  \* the thread that holds the lock of _ForwardingLogHandler
    pc,           \* the step a thread is at
    level,        \* the level of the record it logs
    warning,      \* it is logging the warning about dropped events
    count,        \* the _dropped_count it has read
    worker,       \* the step the worker is at
    holding,      \* the stream of the event the worker has taken
    using         \* the config it read for it

locks == <<droppedLock, handlerLock>>
locals == <<level, warning, count>>
workerVars == <<worker, holding, using>>
vars == <<cached, queue, refused, dropped, locks, pc, locals, workerVars>>

\* hec_enabled or syslog_enabled
Forwarding == cached.enabled # {}

\* start() has filled the cache, attached the handler and started the worker
\* before the first request is served: None stays out of the cache.
Init ==
    /\ cached \in Configs
    /\ queue = <<>>
    /\ refused = 0
    /\ dropped = 0
    /\ droppedLock = None
    /\ handlerLock = None
    /\ pc = [t \in Threads |-> "idle"]
    /\ level = [t \in Threads |-> "INFO"]
    /\ warning = [t \in Threads |-> FALSE]
    /\ count = [t \in Threads |-> 0]
    /\ worker = "get"
    /\ holding = "app"
    /\ using = cached

Goto(t, step) == pc' = [pc EXCEPT ![t] = step]
-----------------------------------------------------------------------------
(* logger.info, logger.warning, ...: Handler.handle around emit *)

LogBegin(t, lv) ==
    /\ t \in Loggers
    /\ pc[t] = "idle"
    /\ refused < MaxRefused
    /\ level' = [level EXCEPT ![t] = lv]
    /\ Goto(t, "handle")
    /\ UNCHANGED <<cached, queue, refused, dropped, locks, warning, count, workerVars>>

AcquireHandler(t) ==
    /\ pc[t] = "handle"
    /\ handlerLock \in {None, t}
    /\ handlerLock' = t
    /\ Goto(t, "emit")
    /\ UNCHANGED <<cached, queue, refused, dropped, droppedLock, locals, workerVars>>

\* enqueue_app_log: nothing to do unless forwarding is enabled and the level
\* high enough.  (It reads the config twice: a change between the two reads is
\* one before them or after them.)
Emit(t) ==
    /\ pc[t] = "emit"
    /\ LET lv == IF warning[t] THEN "WARNING" ELSE level[t]
       IN  Goto(t, IF Forwarding /\ lv \in cached.levels THEN "put" ELSE "emitted")
    /\ UNCHANGED <<cached, queue, refused, dropped, locks, locals, workerVars>>

\* The nested record leaves the handler to the record that caused it.
ReleaseHandler(t) ==
    /\ pc[t] = "emitted"
    /\ handlerLock' = IF warning[t] /\ t \in Loggers THEN t ELSE None
    /\ warning' = [warning EXCEPT ![t] = FALSE]
    /\ Goto(t, IF warning[t] THEN "counted" ELSE "idle")
    /\ UNCHANGED <<cached, queue, refused, dropped, droppedLock, level, count, workerVars>>
-----------------------------------------------------------------------------
(* _enqueue *)

\* log_action calls it after its commit.
AuditBegin(t) ==
    /\ t \in Auditors
    /\ pc[t] = "idle"
    /\ refused < MaxRefused
    /\ Forwarding
    /\ Goto(t, "put")
    /\ UNCHANGED <<cached, queue, refused, dropped, locks, locals, workerVars>>

\* Back to the caller: the handler, or log_action.
Return(t) == Goto(t, IF warning[t] \/ t \in Loggers THEN "emitted" ELSE "idle")

StreamOf(t) == IF warning[t] \/ t \in Loggers THEN "app" ELSE "audit"

\* Mutant: a queue without maxsize.
PutUnbounded(t) ==
    /\ pc[t] = "put"
    /\ queue' = Append(queue, StreamOf(t))
    /\ Return(t)
    /\ UNCHANGED <<cached, refused, dropped, locks, locals, workerVars>>

\* put_nowait
Put(t) ==
    /\ pc[t] = "put"
    /\ Len(queue) < Capacity
    /\ queue' = Append(queue, StreamOf(t))
    /\ Return(t)
    /\ UNCHANGED <<cached, refused, dropped, locks, locals, workerVars>>

\* put_nowait raises Full
PutRefused(t) ==
    /\ pc[t] = "put"
    /\ Len(queue) = Capacity
    /\ refused' = refused + 1
    /\ Goto(t, "full")
    /\ UNCHANGED <<cached, queue, dropped, locks, locals, workerVars>>

\* Mutant: the count is not protected by the lock.
CountUnlocked(t) ==
    /\ pc[t] = "full"
    /\ droppedLock' = t
    /\ count' = [count EXCEPT ![t] = dropped]
    /\ Goto(t, "count")
    /\ UNCHANGED <<cached, queue, refused, dropped, handlerLock, level, warning, workerVars>>

\* Entering _dropped_lock, and the read of _dropped_count += 1: a thread that
\* comes here from its own warning waits for itself.
AcquireDropped(t) ==
    /\ pc[t] = "full"
    /\ droppedLock = None
    /\ droppedLock' = t
    /\ count' = [count EXCEPT ![t] = dropped]
    /\ Goto(t, "count")
    /\ UNCHANGED <<cached, queue, refused, dropped, handlerLock, level, warning, workerVars>>

\* The write of _dropped_count; every so often a warning is logged.
Count(t) ==
    /\ pc[t] = "count"
    /\ dropped' = count[t] + 1
    /\ IF (count[t] + 1) % WarnEvery = 1
       THEN warning' = [warning EXCEPT ![t] = TRUE] /\ Goto(t, "handle")
       ELSE UNCHANGED warning /\ Goto(t, "counted")
    /\ UNCHANGED <<cached, queue, refused, locks, level, count, workerVars>>

\* Mutant: the event is tried again once it is counted, with the lock still held.
RetryCounted(t) ==
    /\ pc[t] = "counted"
    /\ Goto(t, "put")
    /\ UNCHANGED <<cached, queue, refused, dropped, locks, locals, workerVars>>

ReleaseDropped(t) ==
    /\ pc[t] = "counted"
    /\ droppedLock' = None
    /\ Return(t)
    /\ UNCHANGED <<cached, queue, refused, dropped, handlerLock, locals, workerVars>>
-----------------------------------------------------------------------------
(* _worker_loop *)

\* _queue.get, and the config read for this event.
WorkerGet ==
    /\ worker = "get"
    /\ queue # <<>>
    /\ holding' = Head(queue)
    /\ queue' = Tail(queue)
    /\ using' = cached
    /\ worker' = "hec"
    /\ UNCHANGED <<cached, refused, dropped, locks, pc, locals>>

Takes(output) == output \in using.enabled /\ holding \in using.takes[output]

\* Mutant: a failed delivery ends the loop.
WorkerSendRaises(output, next) ==
    /\ worker = output
    /\ \/ worker' = next
       \/ Takes(output) /\ worker' = "dead"
    /\ UNCHANGED <<cached, queue, refused, dropped, locks, pc, locals, holding, using>>

\* send_hec_event, send_syslog_event: whether it is sent, skipped or fails (a
\* timeout at the latest), the loop goes on.  What it logs is below the
\* loggers' level (INFO) and does not reach the handler.
WorkerSend(output, next) ==
    /\ worker = output
    /\ worker' = next
    /\ UNCHANGED <<cached, queue, refused, dropped, locks, pc, locals, holding, using>>

\* _refresh_cache
Reconfigure ==
    /\ \E c \in Configs : c # cached /\ cached' = c
    /\ UNCHANGED <<queue, refused, dropped, locks, pc, locals, workerVars>>
-----------------------------------------------------------------------------
Step(t) ==
    \/ AcquireHandler(t)
    \/ Emit(t)
    \/ ReleaseHandler(t)
    \/ Put(t)
    \/ PutRefused(t)
    \/ AcquireDropped(t)
    \/ Count(t)
    \/ ReleaseDropped(t)

WorkerStep ==
    \/ WorkerGet
    \/ WorkerSend("hec", "syslog")
    \/ WorkerSend("syslog", "get")

Next ==
    \/ \E t \in Threads :
         \/ \E lv \in Levels : LogBegin(t, lv)
         \/ AuditBegin(t)
         \/ Step(t)
    \/ WorkerStep
    \/ Reconfigure

Spec == Init /\ [][Next]_vars

\* A thread that can go on does, and so does the worker: its sends time out.
Fairness ==
    /\ \A t \in Threads : WF_vars(Step(t))
    /\ WF_vars(WorkerStep)

FairSpec == Spec /\ Fairness

\* Locks that are fair as well: who waits for one that is free again and again
\* gets it, so that waiting for ever is a deadlock.
FairLocksSpec == FairSpec /\ \A t \in Threads : SF_vars(AcquireHandler(t) \/ AcquireDropped(t))
-----------------------------------------------------------------------------
(* Properties *)

Steps == {"idle", "handle", "emit", "emitted", "put", "full", "count", "counted"}

\* The type invariant; the queue never holds more than it is made for.
TypeOK ==
    /\ cached \in Configs
    /\ queue \in Seq(Streams) /\ Len(queue) <= Capacity
    /\ refused \in Nat /\ dropped \in Nat
    /\ droppedLock \in Threads \cup {None}
    /\ handlerLock \in Threads \cup {None}
    /\ pc \in [Threads -> Steps]
    /\ level \in [Threads -> Levels]
    /\ warning \in [Threads -> BOOLEAN]
    /\ count \in [Threads -> Nat]
    /\ worker \in {"get", "hec", "syslog"}
    /\ holding \in Streams
    /\ using \in Configs

Counting(t) == pc[t] \in {"count", "counted"} \/ warning[t]
Handling(t) ==
    \/ t \in Loggers /\ ~(pc[t] \in {"idle", "handle"} /\ ~warning[t])
    \/ warning[t] /\ pc[t] # "handle"

\* The locks do what they are for: one thread at a time counts, and one at a
\* time is inside the handler, also while its warning is logged from within.
LocksExclude ==
    \A t \in Threads :
      /\ Counting(t) => droppedLock = t
      /\ Handling(t) => handlerLock = t

\* No event that the queue refused goes uncounted: _dropped_count is what was
\* refused, less what threads are about to count.
DropsCounted ==
    refused = dropped + Cardinality({t \in Threads : pc[t] \in {"full", "count"}})

\* The thread whose lock t waits for.
Awaited(t) ==
    CASE pc[t] = "handle" /\ handlerLock # t -> handlerLock
      [] pc[t] = "full" -> droppedLock
      [] OTHER -> None

\* Threads wait for each other, or one for itself, only where a warning about
\* dropped events is logged from within _dropped_lock: at the first drop, and at
\* each one that WarnEvery later calls for another.
DeadlockNeedsWarning ==
    \A waiting \in (SUBSET Threads) \ {{}} :
      (\A t \in waiting : Awaited(t) \in waiting)
      => /\ droppedLock \in waiting /\ warning[droppedLock]
         /\ dropped % WarnEvery = 1

\* A full queue gets room again, whatever fails to be delivered and even with
\* producers that never return.
QueueDrains == Len(queue) = Capacity ~> Len(queue) < Capacity

\* "Nothing on a request's critical path ever blocks", "Non-blocking": who logs
\* a record or an audit entry gets back to work.
EnqueueReturns == \A t \in Threads : pc[t] # "idle" ~> pc[t] = "idle"
=============================================================================
