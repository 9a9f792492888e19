------------------------- MODULE LogForwardingProofs -------------------------
(* What TLAPS proves of LogForwarding, for any threads, configs, capacity of *)
(* the queue and pace of the warnings.                                       *)
EXTENDS LogForwarding, FiniteSetTheorems, TLAPS

-----------------------------------------------------------------------------
\* Where a thread can be: it counts outside of its own warning (inside it would
\* wait for itself), and an auditor is in the handler for a warning only.
Placed(t) ==
    /\ pc[t] \in {"idle", "count", "counted"} => ~warning[t]
    /\ t \notin Loggers /\ pc[t] \in {"handle", "emit", "emitted"} => warning[t]

IInv == TypeOK /\ LocksExclude /\ \A t \in Threads : Placed(t)

\* Idle threads, free locks and an empty queue.
LEMMA InitInv == Init => IInv
BY ConstantsAssumption
   DEF Init, IInv, TypeOK, LocksExclude, Placed, Steps, Levels, Streams, Counting, Handling

\* A thread that does not move and whose locks no one gives up is as it was.
LEMMA Unmoved ==
    ASSUME NEW s \in Threads, pc'[s] = pc[s], warning'[s] = warning[s],
           droppedLock = s => droppedLock' = s, handlerLock = s => handlerLock' = s,
           Counting(s) => droppedLock = s, Handling(s) => handlerLock = s, Placed(s)
    PROVE  /\ Counting(s)' => droppedLock' = s
           /\ Handling(s)' => handlerLock' = s
           /\ Placed(s)'
BY DEF Counting, Handling, Placed

\* One thread moves: it keeps the invariant if its own claims hold after the
\* step and it gives up no lock but its own.
LEMMA OneThreadMoves ==
    ASSUME IInv, NEW t \in Threads, TypeOK',
           \A s \in Threads \ {t} : /\ pc'[s] = pc[s] /\ warning'[s] = warning[s]
                                    /\ droppedLock = s => droppedLock' = s
                                    /\ handlerLock = s => handlerLock' = s,
           Counting(t)' => droppedLock' = t, Handling(t)' => handlerLock' = t, Placed(t)'
    PROVE  IInv'
<1>1. \A s \in Threads \ {t} : /\ Counting(s)' => droppedLock' = s
                               /\ Handling(s)' => handlerLock' = s
                               /\ Placed(s)'
  BY Unmoved DEF IInv, LocksExclude
<1>2. QED BY <1>1 DEF IInv, LocksExclude

\* Every step keeps the invariant.
LEMMA StepInv ==
    ASSUME IInv, [Next]_vars
    PROVE  IInv'
<1> USE ConstantsAssumption DEF locks, locals, workerVars
<1>0. TypeOK /\ LocksExclude /\ \A t \in Threads : Placed(t) BY DEF IInv
<1>1. ASSUME NEW t \in Threads, NEW lv \in Levels, LogBegin(t, lv) PROVE IInv'
  <2>1. TypeOK' BY <1>0, <1>1 DEF LogBegin, Goto, TypeOK, Steps
  <2>2. /\ Counting(t)' => droppedLock' = t
        /\ Handling(t)' => handlerLock' = t
        /\ Placed(t)'
    BY <1>0, <1>1 DEF LogBegin, Goto, TypeOK, LocksExclude, Placed, Counting, Handling
  <2>3. \A s \in Threads \ {t} : /\ pc'[s] = pc[s] /\ warning'[s] = warning[s]
                                 /\ droppedLock = s => droppedLock' = s
                                 /\ handlerLock = s => handlerLock' = s
    BY <1>0, <1>1 DEF LogBegin, Goto, TypeOK, LocksExclude, Placed, Counting, Handling
  <2>4. QED BY <2>1, <2>2, <2>3, OneThreadMoves
<1>2. ASSUME NEW t \in Threads, AcquireHandler(t) PROVE IInv'
  <2>1. TypeOK' BY <1>0, <1>2 DEF AcquireHandler, Goto, TypeOK, Steps
  <2>2. /\ Counting(t)' => droppedLock' = t
        /\ Handling(t)' => handlerLock' = t
        /\ Placed(t)'
    BY <1>0, <1>2 DEF AcquireHandler, Goto, TypeOK, LocksExclude, Placed, Counting, Handling
  <2>3. \A s \in Threads \ {t} : /\ pc'[s] = pc[s] /\ warning'[s] = warning[s]
                                 /\ droppedLock = s => droppedLock' = s
                                 /\ handlerLock = s => handlerLock' = s
    BY <1>0, <1>2 DEF AcquireHandler, Goto, TypeOK, LocksExclude, Placed, Counting, Handling
  <2>4. QED BY <2>1, <2>2, <2>3, OneThreadMoves
<1>3. ASSUME NEW t \in Threads, Emit(t) PROVE IInv'
  <2>1. TypeOK' BY <1>0, <1>3 DEF Emit, Goto, TypeOK, Steps
  <2>2. /\ Counting(t)' => droppedLock' = t
        /\ Handling(t)' => handlerLock' = t
        /\ Placed(t)'
    BY <1>0, <1>3 DEF Emit, Goto, TypeOK, LocksExclude, Placed, Counting, Handling
  <2>3. \A s \in Threads \ {t} : /\ pc'[s] = pc[s] /\ warning'[s] = warning[s]
                                 /\ droppedLock = s => droppedLock' = s
                                 /\ handlerLock = s => handlerLock' = s
    BY <1>0, <1>3 DEF Emit, Goto, TypeOK, LocksExclude, Placed, Counting, Handling
  <2>4. QED BY <2>1, <2>2, <2>3, OneThreadMoves
<1>4. ASSUME NEW t \in Threads, ReleaseHandler(t) PROVE IInv'
  <2>1. TypeOK' BY <1>0, <1>4 DEF ReleaseHandler, Goto, TypeOK, Steps
  <2>2. /\ Counting(t)' => droppedLock' = t
        /\ Handling(t)' => handlerLock' = t
        /\ Placed(t)'
    BY <1>0, <1>4 DEF ReleaseHandler, Goto, TypeOK, LocksExclude, Placed, Counting, Handling
  <2>3. \A s \in Threads \ {t} : /\ pc'[s] = pc[s] /\ warning'[s] = warning[s]
                                 /\ droppedLock = s => droppedLock' = s
                                 /\ handlerLock = s => handlerLock' = s
    BY <1>0, <1>4 DEF ReleaseHandler, Goto, TypeOK, LocksExclude, Placed, Counting, Handling
  <2>4. QED BY <2>1, <2>2, <2>3, OneThreadMoves
<1>5. ASSUME NEW t \in Threads, AuditBegin(t) PROVE IInv'
  <2>1. TypeOK' BY <1>0, <1>5 DEF AuditBegin, Goto, TypeOK, Steps
  <2>2. /\ Counting(t)' => droppedLock' = t
        /\ Handling(t)' => handlerLock' = t
        /\ Placed(t)'
    BY <1>0, <1>5 DEF AuditBegin, Goto, TypeOK, LocksExclude, Placed, Counting, Handling
  <2>3. \A s \in Threads \ {t} : /\ pc'[s] = pc[s] /\ warning'[s] = warning[s]
                                 /\ droppedLock = s => droppedLock' = s
                                 /\ handlerLock = s => handlerLock' = s
    BY <1>0, <1>5 DEF AuditBegin, Goto, TypeOK, LocksExclude, Placed, Counting, Handling
  <2>4. QED BY <2>1, <2>2, <2>3, OneThreadMoves
<1>6. ASSUME NEW t \in Threads, Put(t) PROVE IInv'
  <2>1. TypeOK' BY <1>0, <1>6 DEF Put, Goto, TypeOK, Steps, Return, StreamOf, Streams
  <2>2. /\ Counting(t)' => droppedLock' = t
        /\ Handling(t)' => handlerLock' = t
        /\ Placed(t)'
    BY <1>0, <1>6 DEF Put, Goto, TypeOK, LocksExclude, Placed, Counting, Handling, Return, StreamOf
  <2>3. \A s \in Threads \ {t} : /\ pc'[s] = pc[s] /\ warning'[s] = warning[s]
                                 /\ droppedLock = s => droppedLock' = s
                                 /\ handlerLock = s => handlerLock' = s
    BY <1>0, <1>6 DEF Put, Goto, TypeOK, LocksExclude, Placed, Counting, Handling, Return, StreamOf
  <2>4. QED BY <2>1, <2>2, <2>3, OneThreadMoves
<1>7. ASSUME NEW t \in Threads, PutRefused(t) PROVE IInv'
  <2>1. TypeOK' BY <1>0, <1>7 DEF PutRefused, Goto, TypeOK, Steps
  <2>2. /\ Counting(t)' => droppedLock' = t
        /\ Handling(t)' => handlerLock' = t
        /\ Placed(t)'
    BY <1>0, <1>7 DEF PutRefused, Goto, TypeOK, LocksExclude, Placed, Counting, Handling
  <2>3. \A s \in Threads \ {t} : /\ pc'[s] = pc[s] /\ warning'[s] = warning[s]
                                 /\ droppedLock = s => droppedLock' = s
                                 /\ handlerLock = s => handlerLock' = s
    BY <1>0, <1>7 DEF PutRefused, Goto, TypeOK, LocksExclude, Placed, Counting, Handling
  <2>4. QED BY <2>1, <2>2, <2>3, OneThreadMoves
<1>8. ASSUME NEW t \in Threads, AcquireDropped(t) PROVE IInv'
  <2>1. TypeOK' BY <1>0, <1>8 DEF AcquireDropped, Goto, TypeOK, Steps
  <2>2. /\ Counting(t)' => droppedLock' = t
        /\ Handling(t)' => handlerLock' = t
        /\ Placed(t)'
    BY <1>0, <1>8 DEF AcquireDropped, Goto, TypeOK, LocksExclude, Placed, Counting, Handling
  <2>3. \A s \in Threads \ {t} : /\ pc'[s] = pc[s] /\ warning'[s] = warning[s]
                                 /\ droppedLock = s => droppedLock' = s
                                 /\ handlerLock = s => handlerLock' = s
    BY <1>0, <1>8 DEF AcquireDropped, Goto, TypeOK, LocksExclude, Placed, Counting, Handling
  <2>4. QED BY <2>1, <2>2, <2>3, OneThreadMoves
<1>9. ASSUME NEW t \in Threads, Count(t) PROVE IInv'
  <2>1. TypeOK'
    <3>1. dropped' \in Nat BY <1>0, <1>9 DEF Count, TypeOK
    <3>2. \/ warning' = [warning EXCEPT ![t] = TRUE] /\ pc' = [pc EXCEPT ![t] = "handle"]
          \/ warning' = warning /\ pc' = [pc EXCEPT ![t] = "counted"]
      <4> DEFINE warn == (count[t] + 1) % WarnEvery = 1
      <4>1. IF warn THEN warning' = [warning EXCEPT ![t] = TRUE] /\ Goto(t, "handle")
                    ELSE UNCHANGED warning /\ Goto(t, "counted")
        BY <1>9 DEF Count
      <4> HIDE DEF warn
      <4>2. QED BY <4>1 DEF Goto
    <3>3. /\ warning \in [Threads -> BOOLEAN]
          /\ pc \in [Threads -> Steps]
      BY <1>0 DEF TypeOK
    <3>4. warning' \in [Threads -> BOOLEAN] /\ pc' \in [Threads -> Steps]
      BY <3>2, <3>3 DEF Steps
    <3>5. UNCHANGED <<cached, queue, refused, locks, level, count, workerVars>>
      BY <1>9 DEF Count
    <3>6. QED BY <1>0, <3>1, <3>4, <3>5 DEF TypeOK, locks, workerVars
  <2>2. /\ Counting(t)' => droppedLock' = t
        /\ Handling(t)' => handlerLock' = t
        /\ Placed(t)'
    BY <1>0, <1>9 DEF Count, Goto, TypeOK, LocksExclude, Placed, Counting, Handling
  <2>3. \A s \in Threads \ {t} : /\ pc'[s] = pc[s] /\ warning'[s] = warning[s]
                                 /\ droppedLock = s => droppedLock' = s
                                 /\ handlerLock = s => handlerLock' = s
    BY <1>0, <1>9 DEF Count, Goto, TypeOK, LocksExclude, Placed, Counting, Handling
  <2>4. QED BY <2>1, <2>2, <2>3, OneThreadMoves
<1>10. ASSUME NEW t \in Threads, ReleaseDropped(t) PROVE IInv'
  <2>1. TypeOK' BY <1>0, <1>10 DEF ReleaseDropped, Goto, TypeOK, Steps, Return
  <2>2. /\ Counting(t)' => droppedLock' = t
        /\ Handling(t)' => handlerLock' = t
        /\ Placed(t)'
    BY <1>0, <1>10 DEF ReleaseDropped, Goto, TypeOK, LocksExclude, Placed, Counting, Handling, Return
  <2>3. \A s \in Threads \ {t} : /\ pc'[s] = pc[s] /\ warning'[s] = warning[s]
                                 /\ droppedLock = s => droppedLock' = s
                                 /\ handlerLock = s => handlerLock' = s
    BY <1>0, <1>10 DEF ReleaseDropped, Goto, TypeOK, LocksExclude, Placed, Counting, Handling, Return
  <2>4. QED BY <2>1, <2>2, <2>3, OneThreadMoves
<1>11. ASSUME WorkerGet PROVE IInv'
  <2>1. TypeOK' BY <1>0, <1>11 DEF WorkerGet, TypeOK, Streams
  <2>2. QED BY <1>0, <1>11, <2>1 DEF WorkerGet, IInv, LocksExclude, Placed, Counting, Handling
<1>12. ASSUME NEW output \in Outputs, NEW next \in {"syslog", "get"}, WorkerSend(output, next) PROVE IInv'
  <2>1. TypeOK' BY <1>0, <1>12 DEF WorkerSend, TypeOK
  <2>2. QED BY <1>0, <1>12, <2>1 DEF WorkerSend, IInv, LocksExclude, Placed, Counting, Handling
<1>13. ASSUME Reconfigure PROVE IInv'
  <2>1. TypeOK' BY <1>0, <1>13 DEF Reconfigure, TypeOK
  <2>2. QED BY <1>0, <1>13, <2>1 DEF Reconfigure, IInv, LocksExclude, Placed, Counting, Handling
<1>14. CASE UNCHANGED vars
  <2>1. TypeOK' BY <1>0, <1>14 DEF vars, TypeOK
  <2>2. QED BY <1>0, <1>14, <2>1 DEF vars, IInv, LocksExclude, Placed, Counting, Handling
<1>15. QED
  BY <1>1, <1>2, <1>3, <1>4, <1>5, <1>6, <1>7, <1>8, <1>9, <1>10, <1>11, <1>12, <1>13, <1>14 DEF Next, Step, WorkerStep, Outputs

\* The inductive invariant holds throughout.
THEOREM Invariance == Spec => []IInv
BY InitInv, StepInv, PTL DEF Spec

\* Type correctness; the queue never holds more than it is made for.
THEOREM TypeCorrect == Spec => []TypeOK
<1>1. IInv => TypeOK BY DEF IInv
<1>2. QED BY <1>1, Invariance, PTL

\* One thread at a time counts dropped events and one at a time is in the
\* handler, however often a warning re-enters it.
THEOREM LocksAlwaysExclude == Spec => []LocksExclude
<1>1. IInv => LocksExclude BY DEF IInv
<1>2. QED BY <1>1, Invariance, PTL

-----------------------------------------------------------------------------
\* The threads that have an event refused and not counted yet.
Pending == {t \in Threads : pc[t] \in {"full", "count"}}

\* They are finitely many, because each was refused one event, and what a thread
\* has read of the counter is still what it is.
DropsInv ==
    /\ IsFiniteSet(Pending)
    /\ refused = dropped + Cardinality(Pending)
    /\ \A t \in Threads : pc[t] = "count" => count[t] = dropped

LEMMA InitDrops == Init => DropsInv
<1> SUFFICES ASSUME Init PROVE DropsInv OBVIOUS
<1>1. Pending = {} BY DEF Init, Pending
<1>2. QED BY <1>1, FS_EmptySet DEF Init, DropsInv

\* A step in which no thread comes to count, or has counted.
LEMMA NoneCounts ==
    ASSUME DropsInv, UNCHANGED <<refused, dropped, count>>,
           \A s \in Threads : /\ pc'[s] \in {"full", "count"} <=> pc[s] \in {"full", "count"}
                              /\ pc'[s] = "count" => pc[s] = "count"
    PROVE  DropsInv'
<1>1. Pending' = Pending BY DEF Pending
<1>2. QED BY <1>1 DEF DropsInv

\* Where a thread may go without counting.
LEMMA Elsewhere ==
    ASSUME TypeOK, DropsInv, UNCHANGED <<refused, dropped, count>>,
           NEW t \in Threads, NEW step, pc' = [pc EXCEPT ![t] = step],
           pc[t] \notin {"full", "count"}, step \notin {"full", "count"}
    PROVE  DropsInv'
<1>1. \A s \in Threads : pc'[s] = IF s = t THEN step ELSE pc[s] BY DEF TypeOK
<1>2. QED BY <1>1, NoneCounts

\* Every step keeps the account: a refusal adds a thread, a count removes it.
LEMMA StepDrops ==
    ASSUME IInv, DropsInv, [Next]_vars
    PROVE  DropsInv'
<1> USE DEF locks, locals, workerVars
<1>0. TypeOK /\ LocksExclude BY DEF IInv
<1>1. ASSUME NEW t \in Threads, NEW lv \in Levels, LogBegin(t, lv) PROVE DropsInv'
  <2>1. /\ UNCHANGED <<refused, dropped, count>> /\ pc[t] \notin {"full", "count"}
        /\ \E step \in {"handle"} : pc' = [pc EXCEPT ![t] = step]
    BY <1>1 DEF LogBegin, Goto
  <2>2. QED BY <1>0, <2>1, Elsewhere
<1>2. ASSUME NEW t \in Threads, AcquireHandler(t) PROVE DropsInv'
  <2>1. /\ UNCHANGED <<refused, dropped, count>> /\ pc[t] \notin {"full", "count"}
        /\ \E step \in {"emit"} : pc' = [pc EXCEPT ![t] = step]
    BY <1>2 DEF AcquireHandler, Goto
  <2>2. QED BY <1>0, <2>1, Elsewhere
<1>3. ASSUME NEW t \in Threads, Emit(t) PROVE DropsInv'
  <2>1. /\ UNCHANGED <<refused, dropped, count>> /\ pc[t] \notin {"full", "count"}
        /\ \E step \in {"put", "emitted"} : pc' = [pc EXCEPT ![t] = step]
    BY <1>3 DEF Emit, Goto
  <2>2. QED BY <1>0, <2>1, Elsewhere
<1>4. ASSUME NEW t \in Threads, ReleaseHandler(t) PROVE DropsInv'
  <2>1. /\ UNCHANGED <<refused, dropped, count>> /\ pc[t] \notin {"full", "count"}
        /\ \E step \in {"counted", "idle"} : pc' = [pc EXCEPT ![t] = step]
    BY <1>4 DEF ReleaseHandler, Goto
  <2>2. QED BY <1>0, <2>1, Elsewhere
<1>5. ASSUME NEW t \in Threads, AuditBegin(t) PROVE DropsInv'
  <2>1. /\ UNCHANGED <<refused, dropped, count>> /\ pc[t] \notin {"full", "count"}
        /\ \E step \in {"put"} : pc' = [pc EXCEPT ![t] = step]
    BY <1>5 DEF AuditBegin, Goto
  <2>2. QED BY <1>0, <2>1, Elsewhere
<1>6. ASSUME NEW t \in Threads, Put(t) PROVE DropsInv'
  <2>1. /\ UNCHANGED <<refused, dropped, count>> /\ pc[t] \notin {"full", "count"}
        /\ \E step \in {"emitted", "idle"} : pc' = [pc EXCEPT ![t] = step]
    BY <1>6 DEF Put, Return, Goto
  <2>2. QED BY <1>0, <2>1, Elsewhere
<1>7. ASSUME NEW t \in Threads, ReleaseDropped(t) PROVE DropsInv'
  <2>1. /\ UNCHANGED <<refused, dropped, count>> /\ pc[t] \notin {"full", "count"}
        /\ \E step \in {"emitted", "idle"} : pc' = [pc EXCEPT ![t] = step]
    BY <1>7 DEF ReleaseDropped, Return, Goto
  <2>2. QED BY <1>0, <2>1, Elsewhere
<1>8. ASSUME NEW t \in Threads, PutRefused(t) PROVE DropsInv'
  <2>1. /\ pc[t] = "put" /\ pc' = [pc EXCEPT ![t] = "full"]
        /\ refused' = refused + 1 /\ UNCHANGED <<dropped, count>>
    BY <1>8 DEF PutRefused, Goto
  <2>2. Pending' = Pending \cup {t} /\ t \notin Pending BY <1>0, <2>1 DEF Pending, TypeOK
  <2>3. IsFiniteSet(Pending') /\ Cardinality(Pending') = Cardinality(Pending) + 1
    BY <2>2, FS_AddElement DEF DropsInv
  <2>4. Cardinality(Pending) \in Nat BY FS_CardinalityType DEF DropsInv
  <2>5. refused' = dropped' + Cardinality(Pending')
    BY <1>0, <2>1, <2>3, <2>4 DEF DropsInv, TypeOK
  <2>6. \A s \in Threads : pc'[s] = "count" => count'[s] = dropped'
    BY <1>0, <2>1 DEF DropsInv, TypeOK
  <2>7. QED BY <2>3, <2>5, <2>6 DEF DropsInv
<1>9. ASSUME NEW t \in Threads, AcquireDropped(t) PROVE DropsInv'
  <2>1. /\ pc[t] = "full" /\ pc' = [pc EXCEPT ![t] = "count"]
        /\ count' = [count EXCEPT ![t] = dropped] /\ UNCHANGED <<refused, dropped>>
    BY <1>9 DEF AcquireDropped, Goto
  <2>2. Pending' = Pending BY <1>0, <2>1 DEF Pending, TypeOK
  <2>3. \A s \in Threads : pc'[s] = "count" => count'[s] = dropped'
    BY <1>0, <2>1 DEF DropsInv, TypeOK
  <2>4. QED BY <2>1, <2>2, <2>3 DEF DropsInv
\* The others are not counting: the lock is this thread's.
<1>10. ASSUME NEW t \in Threads, Count(t) PROVE DropsInv'
  <2>1. /\ pc[t] = "count" /\ dropped' = count[t] + 1 /\ UNCHANGED <<refused, count>>
        /\ \E step \in {"handle", "counted"} : pc' = [pc EXCEPT ![t] = step]
    <3> DEFINE warn == (count[t] + 1) % WarnEvery = 1
    <3>1. IF warn THEN Goto(t, "handle") ELSE Goto(t, "counted") BY <1>10 DEF Count
    <3> HIDE DEF warn
    <3>2. QED BY <1>10, <3>1 DEF Count, Goto
  <2>2. dropped' = dropped + 1 BY <2>1 DEF DropsInv
  <2>3. Pending' = Pending \ {t} /\ t \in Pending BY <1>0, <2>1 DEF Pending, TypeOK
  <2>4. IsFiniteSet(Pending') /\ Cardinality(Pending') = Cardinality(Pending) - 1
    BY <2>3, FS_RemoveElement DEF DropsInv
  <2>5. Cardinality(Pending) \in Nat BY FS_CardinalityType DEF DropsInv
  <2>6. refused' = dropped' + Cardinality(Pending')
    BY <1>0, <2>1, <2>2, <2>4, <2>5 DEF DropsInv, TypeOK
  <2>7. \A s \in Threads : pc'[s] = "count" => count'[s] = dropped'
    <3>1. \A s \in Threads \ {t} : pc[s] # "count"
      <4>1. \A s \in Threads : pc[s] = "count" => droppedLock = s
        BY <1>0 DEF LocksExclude, Counting
      <4>2. QED BY <2>1, <4>1
    <3>2. pc'[t] # "count" /\ \A s \in Threads \ {t} : pc'[s] = pc[s]
      BY <1>0, <2>1 DEF TypeOK
    <3>3. QED BY <3>1, <3>2
  <2>8. QED BY <2>4, <2>6, <2>7 DEF DropsInv
<1>11. ASSUME WorkerStep PROVE DropsInv'
  BY <1>11, NoneCounts DEF WorkerStep, WorkerGet, WorkerSend
<1>12. ASSUME Reconfigure PROVE DropsInv' BY <1>12, NoneCounts DEF Reconfigure
<1>13. CASE UNCHANGED vars BY <1>13, NoneCounts DEF vars
<1>14. QED
  BY <1>1, <1>2, <1>3, <1>4, <1>5, <1>6, <1>7, <1>8, <1>9, <1>10, <1>11, <1>12, <1>13 DEF Next, Step

\* No event that the queue refused goes uncounted, although the counter is read
\* and written in two steps: between them no other thread is at it.
THEOREM DropsAlwaysCounted == Spec => []DropsCounted
<1>1. DropsInv => DropsCounted BY DEF DropsInv, DropsCounted, Pending
<1>2. IInv /\ DropsInv /\ [Next]_vars => DropsInv' BY StepDrops
<1>3. QED BY <1>1, <1>2, InitDrops, Invariance, PTL DEF Spec
-----------------------------------------------------------------------------
\* A thread that holds _dropped_lock counts, or logs its warning; and as long as it
\* does the latter, the count stays at the drop that it warns of.
HolderInv ==
    /\ droppedLock # None => Counting(droppedLock)
    /\ \A t \in Threads : warning[t] => dropped % WarnEvery = 1

\* A step that neither counts nor warns.
LEMMA HolderStays ==
    ASSUME IInv, HolderInv, UNCHANGED <<droppedLock, dropped, warning>>,
           \A s \in Threads : pc[s] \in {"count", "counted"} => pc'[s] = pc[s]
    PROVE  HolderInv'
BY DEF HolderInv, IInv, TypeOK, Counting

LEMMA HolderGoes ==
    ASSUME IInv, HolderInv, UNCHANGED <<droppedLock, dropped, warning>>,
           NEW t \in Threads, NEW step, pc' = [pc EXCEPT ![t] = step],
           pc[t] \notin {"count", "counted"}
    PROVE  HolderInv'
<1>1. \A s \in Threads : pc'[s] = IF s = t THEN step ELSE pc[s] BY DEF IInv, TypeOK
<1>2. QED BY <1>1, HolderStays

LEMMA StepHolder ==
    ASSUME IInv, HolderInv, [Next]_vars
    PROVE  HolderInv'
<1> USE DEF locks, locals, workerVars
<1>0. /\ pc \in [Threads -> Steps] /\ warning \in [Threads -> BOOLEAN] /\ None \notin Threads
      /\ droppedLock \in Threads \cup {None}
  BY ConstantsAssumption DEF IInv, TypeOK
<1>1. ASSUME NEW t \in Threads, NEW lv \in Levels, LogBegin(t, lv) PROVE HolderInv'
  BY <1>1, HolderGoes DEF LogBegin, Goto
<1>2. ASSUME NEW t \in Threads, AcquireHandler(t) PROVE HolderInv'
  BY <1>2, HolderGoes DEF AcquireHandler, Goto
<1>3. ASSUME NEW t \in Threads, Emit(t) PROVE HolderInv'
  <2>1. /\ \E step \in {"put", "emitted"} : pc' = [pc EXCEPT ![t] = step]
        /\ UNCHANGED <<droppedLock, dropped, warning>> /\ pc[t] = "emit"
    BY <1>3 DEF Emit, Goto
  <2>2. QED BY <2>1, HolderGoes
\* A nested record: the warning is logged, and its thread is back at the count.
<1>4. ASSUME NEW t \in Threads, ReleaseHandler(t) PROVE HolderInv'
  <2>1. /\ pc[t] = "emitted" /\ UNCHANGED <<droppedLock, dropped>>
        /\ warning' = [warning EXCEPT ![t] = FALSE]
        /\ pc' = [pc EXCEPT ![t] = IF warning[t] THEN "counted" ELSE "idle"]
    BY <1>4 DEF ReleaseHandler, Goto
  <2>2. \A s \in Threads : warning'[s] => warning[s] BY <1>0, <2>1
  <2>3. CASE droppedLock = t
    <3>1. warning[t] BY <1>0, <2>1, <2>3 DEF HolderInv, Counting
    <3>2. pc'[t] = "counted" BY <1>0, <2>1, <3>1
    <3>3. QED BY <2>1, <2>2, <2>3, <3>2 DEF HolderInv, Counting
  <2>4. CASE droppedLock # t
    <3>1. \A s \in Threads \ {t} : pc'[s] = pc[s] /\ warning'[s] = warning[s] BY <1>0, <2>1
    <3>2. QED BY <1>0, <2>1, <2>2, <2>4, <3>1 DEF HolderInv, Counting
  <2>5. QED BY <2>3, <2>4
<1>5. ASSUME NEW t \in Threads, AuditBegin(t) PROVE HolderInv'
  BY <1>5, HolderGoes DEF AuditBegin, Goto
<1>6. ASSUME NEW t \in Threads, Put(t) PROVE HolderInv'
  <2>1. /\ \E step \in {"emitted", "idle"} : pc' = [pc EXCEPT ![t] = step]
        /\ UNCHANGED <<droppedLock, dropped, warning>> /\ pc[t] = "put"
    BY <1>6 DEF Put, Return, Goto
  <2>2. QED BY <2>1, HolderGoes
<1>7. ASSUME NEW t \in Threads, PutRefused(t) PROVE HolderInv'
  BY <1>7, HolderGoes DEF PutRefused, Goto
<1>8. ASSUME NEW t \in Threads, AcquireDropped(t) PROVE HolderInv'
  <2>1. pc'[t] = "count" /\ droppedLock' = t /\ UNCHANGED <<dropped, warning>>
    BY <1>0, <1>8 DEF AcquireDropped, Goto
  <2>2. QED BY <2>1 DEF HolderInv, Counting
<1>9. ASSUME NEW t \in Threads, Count(t) PROVE HolderInv'
  <2> DEFINE warn == (count[t] + 1) % WarnEvery = 1
  <2>1. /\ pc[t] = "count" /\ dropped' = count[t] + 1 /\ droppedLock' = droppedLock
        /\ IF warn THEN warning' = [warning EXCEPT ![t] = TRUE] /\ Goto(t, "handle")
                   ELSE UNCHANGED warning /\ Goto(t, "counted")
    BY <1>9 DEF Count
  <2>2. warn => dropped' % WarnEvery = 1 BY <2>1
  <2> HIDE DEF warn
  <2>3. droppedLock = t BY <2>1 DEF IInv, LocksExclude, Counting
  <2>4. \A s \in Threads : warning[s] => s = t
    BY <2>3 DEF IInv, LocksExclude, Counting
  <2>5. ~warning[t] BY <2>1 DEF IInv, Placed
  <2>6. CASE warn
    <3>1. warning'[t] BY <1>0, <2>1, <2>6
    <3>2. QED BY <2>1, <2>2, <2>3, <2>6, <3>1 DEF HolderInv, Counting
  <2>7. CASE ~warn
    <3>1. pc'[t] = "counted" /\ warning' = warning BY <1>0, <2>1, <2>7 DEF Goto
    <3>2. QED BY <2>1, <2>3, <2>4, <2>5, <3>1 DEF HolderInv, Counting
  <2>8. QED BY <2>6, <2>7
<1>10. ASSUME NEW t \in Threads, ReleaseDropped(t) PROVE HolderInv'
  BY <1>10 DEF ReleaseDropped, HolderInv
<1>11. ASSUME WorkerStep PROVE HolderInv'
  BY <1>11, HolderStays DEF WorkerStep, WorkerGet, WorkerSend
<1>12. ASSUME Reconfigure PROVE HolderInv' BY <1>12, HolderStays DEF Reconfigure
<1>13. CASE UNCHANGED vars BY <1>13, HolderStays DEF vars
<1>14. QED
  BY <1>1, <1>2, <1>3, <1>4, <1>5, <1>6, <1>7, <1>8, <1>9, <1>10, <1>11, <1>12, <1>13 DEF Next, Step

\* Whoever waits in a cycle waits, at the end of it, for a thread that warns.
LEMMA CycleWarns ==
    ASSUME IInv, HolderInv
    PROVE  DeadlockNeedsWarning
<1> SUFFICES ASSUME NEW waiting \in SUBSET Threads, waiting # {},
                    \A t \in waiting : Awaited(t) \in waiting
             PROVE  /\ droppedLock \in waiting /\ warning[droppedLock]
                    /\ dropped % WarnEvery = 1
  BY DEF DeadlockNeedsWarning
<1>0. None \notin waiting BY ConstantsAssumption
<1>1. \A t \in waiting : \/ pc[t] = "handle" /\ handlerLock # t /\ handlerLock \in waiting
                         \/ pc[t] = "full" /\ droppedLock \in waiting
  BY <1>0 DEF Awaited
<1>2. droppedLock \in waiting BY <1>1
<1>3. pc[droppedLock] \in {"handle", "full"} BY <1>1, <1>2
<1>4. warning[droppedLock] BY <1>0, <1>2, <1>3 DEF HolderInv, Counting
<1>5. QED BY <1>2, <1>4 DEF HolderInv

\* Apart from a warning about dropped events, which is logged at the first drop and at
\* every WarnEvery-th after it, no threads can come to wait for each other for ever.
THEOREM DeadlocksOnlyByWarning == Spec => []DeadlockNeedsWarning
<1>1. Init => HolderInv BY DEF Init, HolderInv
<1>2. IInv /\ HolderInv /\ [Next]_vars => HolderInv' BY StepHolder
<1>3. IInv /\ HolderInv => DeadlockNeedsWarning BY CycleWarns
<1>4. QED BY <1>1, <1>2, <1>3, Invariance, PTL DEF Spec
=============================================================================
