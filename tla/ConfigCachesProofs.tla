------------------------- MODULE ConfigCachesProofs -------------------------
(* What TLAPS proves of ConfigCaches, for any CAs, columns, values, threads *)
(* and faults.                                                              *)
EXTENDS ConfigCaches, TLAPS

-----------------------------------------------------------------------------
(* Types *)

TablesOK ==
    /\ trusted \in [Cas -> {"absent", "off", "on"}]
    /\ blob \subseteq Cas
    /\ row \in Configs /\ config \in Configs
    /\ logged \subseteq {"add", "update", "remove"} \X Cas
    /\ cut \subseteq Cas /\ clean \in [trust : BOOLEAN, log : BOOLEAN]
    /\ begun \in Nat /\ faults \in Nat

\* A request about CAs has some.
Knows(t) == pc[t] \in Steps \ {"idle", "commitConfig", "assignConfig"} => my[t].cas # {}

LEMMA TypeParts ==
    ASSUME TypeOK
    PROVE  /\ TablesOK
           /\ pc \in [Threads -> Steps] /\ my \in [Threads -> Reads]
           /\ \A t \in Threads : Knows(t)
BY DEF TypeOK, TablesOK, Knows

LEMMA FreshType == Fresh \in Reads /\ Defaults \in Configs
BY ConstantsAssumption DEF Fresh, Reads, Defaults, Configs

LEMMA InitType == Init => TypeOK
BY FreshType DEF Init, TypeOK, Steps

\* A thread goes on with what it has in mine.
LEMMA GotoType ==
    ASSUME TypeOK, NEW t \in Threads, NEW step \in Steps, NEW mine \in Reads, Goto(t, step, mine),
           TablesOK', step \in Steps \ {"idle", "commitConfig", "assignConfig"} => mine.cas # {}
    PROVE  TypeOK'
<1> USE TypeParts
<1>1. pc' \in [Threads -> Steps] /\ my' \in [Threads -> Reads] BY DEF Goto
<1>2. \A u \in Threads : Knows(u)' BY DEF Goto, Knows
<1>3. QED BY <1>1, <1>2 DEF TypeOK, TablesOK, Knows

\* The requests of T are over.
LEMMA FinishType ==
    ASSUME TypeOK, NEW T \in SUBSET Threads, Finish(T), TablesOK'
    PROVE  TypeOK'
<1> USE TypeParts, FreshType
<1>1. pc' \in [Threads -> Steps] /\ my' \in [Threads -> Reads] BY DEF Finish, Steps
<1>2. \A u \in Threads : Knows(u)' BY DEF Finish, Knows
<1>3. QED BY <1>1, <1>2 DEF TypeOK, TablesOK, Knows

\* A commit leaves what was read as it is, and only marks it.
LEMMA CommitType ==
    ASSUME TypeOK, NEW t \in Threads, NEW step \in Steps, NEW others, Commit(t, step, others),
           TablesOK', step \in Steps \ {"idle", "commitConfig", "assignConfig"} => my[t].cas # {}
    PROVE  /\ TypeOK'
           /\ \A u \in Threads :
                /\ my'[u].act = my[u].act /\ my'[u].cas = my[u].cas
                /\ my'[u].found = my[u].found
                /\ my'[u].object = my[u].object /\ my'[u].dirty = my[u].dirty
                /\ my'[u].fresh => my[u].fresh /\ (u = t \/ pc[u] \notin others)
<1> USE TypeParts
<1>1. \A u \in Threads : my'[u] = [my[u] EXCEPT !.fresh = @ /\ (u = t \/ pc[u] \notin others)]
  BY DEF Commit
<1>2. ASSUME NEW u \in Threads
      PROVE  /\ my'[u] \in Reads
             /\ my'[u].act = my[u].act /\ my'[u].cas = my[u].cas
             /\ my'[u].found = my[u].found
             /\ my'[u].object = my[u].object /\ my'[u].dirty = my[u].dirty
             /\ my'[u].fresh => my[u].fresh /\ (u = t \/ pc[u] \notin others)
  <2>1. my[u] \in Reads OBVIOUS
  <2> DEFINE b == my[u].fresh /\ (u = t \/ pc[u] \notin others)
  <2>2. b \in BOOLEAN BY <2>1 DEF Reads
  <2>3. my'[u] = [my[u] EXCEPT !.fresh = b] BY <1>1
  <2> HIDE DEF b
  <2>4. QED BY <2>1, <2>2, <2>3 DEF Reads, b
<1>3. pc' \in [Threads -> Steps] /\ my' \in [Threads -> Reads] BY <1>2 DEF Commit
<1>4. ASSUME NEW u \in Threads PROVE Knows(u)'
  <2>1. my'[u].cas = my[u].cas BY <1>2
  <2>2. CASE u = t BY <2>1, <2>2 DEF Commit, Knows
  <2>3. CASE u # t
    <3>1. pc'[u] = pc[u] BY <2>3 DEF Commit
    <3>2. QED BY <2>1, <3>1 DEF Knows
  <2>4. QED BY <2>2, <2>3
<1>5. QED BY <1>2, <1>3, <1>4 DEF TypeOK, TablesOK, Knows

LEMMA BeginType ==
    ASSUME TypeOK, NEW t \in Threads, Begin(t)
    PROVE  TypeOK'
<1> USE TypeParts, FreshType DEF TablesOK
<1>1. TablesOK'
  <2>1. UNCHANGED <<trusted, blob, row, config, logged, cut, clean, faults>> /\ begun' = begun + 1
    BY DEF Begin, AddBegin, SetBegin, DeleteBegin, ConfigBegin, BeginAt
  <2>2. QED BY <2>1
<1>2. ASSUME NEW step \in {"insert", "set", "delete"}, NEW mine \in Reads, mine.cas # {},
             BeginAt(t, step, mine)
      PROVE  TypeOK'
  BY <1>1, <1>2, GotoType DEF BeginAt, Steps
<1>3. ASSUME NEW bundle \in SUBSET Cas, AddBegin(t, bundle) PROVE TypeOK'
  <2> DEFINE mine == [Fresh EXCEPT !.act = "add", !.cas = bundle \ Present]
  <2>1. mine \in Reads /\ mine.cas = bundle \ Present BY DEF Reads, Fresh
  <2>2. BeginAt(t, "insert", mine) /\ mine.cas # {} BY <1>3, <2>1 DEF AddBegin
  <2>3. QED BY <1>2, <2>1, <2>2
<1>4. ASSUME NEW c \in Cas, DeleteBegin(t, c) PROVE TypeOK'
  <2> DEFINE mine == [Fresh EXCEPT !.act = "remove", !.cas = {c}]
  <2>1. mine \in Reads /\ mine.cas = {c} BY DEF Reads, Fresh
  <2>2. BeginAt(t, "delete", mine) BY <1>4 DEF DeleteBegin
  <2> HIDE DEF mine
  <2>3. QED BY <1>2, <2>1, <2>2
<1>5. ASSUME NEW c \in Cas, NEW want \in {"on", "off"}, SetBegin(t, c, want) PROVE TypeOK'
  <2> DEFINE mine == [Fresh EXCEPT !.act = "update", !.cas = {c}, !.want = want,
                                   !.read = trusted[c]]
  <2>1. trusted[c] \in {"on", "off"} BY <1>5 DEF SetBegin, Present
  <2>2. mine \in Reads /\ mine.cas = {c} BY <2>1 DEF Reads, Fresh
  <2>3. BeginAt(t, "set", mine) BY <1>5 DEF SetBegin
  <2> HIDE DEF mine
  <2>4. QED BY <1>2, <2>2, <2>3
<1>6. ASSUME NEW object \in Configs, ConfigBegin(t, object) PROVE TypeOK'
  <2> DEFINE mine == [Fresh EXCEPT !.object = object,
                                   !.dirty = {k \in Columns : object[k] # row[k]}]
  <2>1. mine \in Reads BY DEF Reads, Fresh
  <2>2. BeginAt(t, "commitConfig", mine) BY <1>6 DEF ConfigBegin
  <2> HIDE DEF mine
  <2>3. QED BY <1>1, <2>1, <2>2, GotoType DEF BeginAt, Steps
<1>7. QED BY <1>3, <1>4, <1>5, <1>6 DEF Begin, Configs

\* The rows that a request commits.
LEMMA CommitsTables ==
    ASSUME TypeOK, NEW t \in Threads, Insert(t) \/ Set(t) \/ Delete(t) \/ ConfigCommit(t)
    PROVE  TablesOK'
<1> USE TypeParts DEF TablesOK
<1>0. my[t].want \in {"on", "off"} /\ my[t].object \in Configs BY DEF Reads
<1>1. CASE Insert(t) BY <1>1 DEF Insert
<1>2. CASE Set(t) BY <1>0, <1>2 DEF Set
<1>3. CASE Delete(t)
  <2>1. \A u \in Threads : my[u].cas \subseteq Cas BY DEF Reads
  <2>2. cut' \subseteq Cas BY <1>3, <2>1 DEF Delete, NoteCut
  <2>3. QED BY <1>3, <2>2 DEF Delete
<1>4. CASE ConfigCommit(t) BY <1>0, <1>4 DEF ConfigCommit, Configs
<1>5. QED BY <1>1, <1>2, <1>3, <1>4

LEMMA StepType ==
    ASSUME TypeOK, [Next]_vars
    PROVE  TypeOK'
<1> USE TypeParts
<1>1. ASSUME NEW t \in Threads, Insert(t) \/ Set(t) \/ Delete(t) \/ ConfigCommit(t) PROVE TypeOK'
  <2>1. TablesOK' BY <1>1, CommitsTables
  <2>2. CASE Insert(t) \/ Set(t) \/ Delete(t)
    <3>1. my[t].cas # {} BY <2>2 DEF Insert, Set, Delete, Knows, Steps
    <3>2. Commit(t, "refresh", {"install"}) BY <2>2 DEF Insert, Set, Delete
    <3>3. QED BY <2>1, <3>1, <3>2, CommitType DEF Steps
  <2>3. CASE ConfigCommit(t)
    <3>1. Commit(t, "assignConfig", {"commitConfig", "assignConfig"}) BY <2>3 DEF ConfigCommit
    <3>2. QED BY <2>1, <3>1, CommitType DEF Steps
  <2>4. QED BY <1>1, <2>2, <2>3
<1>2. ASSUME NEW t \in Threads, RefreshRead(t) PROVE TypeOK'
  <2> DEFINE mine == [my[t] EXCEPT !.found = Enabled, !.fresh = TRUE]
  <2>1. mine \in Reads /\ mine.cas = my[t].cas BY DEF Reads, Enabled
  <2>2. Goto(t, "install", mine) /\ TablesOK' BY <1>2 DEF RefreshRead, TablesOK
  <2>3. my[t].cas # {} BY <1>2 DEF RefreshRead, Knows, Steps
  <2> HIDE DEF mine
  <2>4. QED BY <2>1, <2>2, <2>3, GotoType DEF Steps
<1>3. ASSUME NEW t \in Threads, Install(t) PROVE TypeOK'
  <2>1. my[t].cas # {} BY <1>3 DEF Install, Knows, Steps
  <2>2. my[t].found \in SUBSET Cas /\ my[t].fresh \in BOOLEAN BY DEF Reads
  <2>3. TablesOK' BY <1>3, <2>2 DEF Install, TablesOK
  <2>4. Goto(t, "log", my[t]) BY <1>3 DEF Install
  <2>5. QED BY <2>1, <2>3, <2>4, GotoType DEF Steps
<1>4. ASSUME NEW t \in Threads, NEW c \in Cas, Log(t, c) PROVE TypeOK'
  <2>0. my[t].act \in {"add", "update", "remove"} BY DEF Reads
  <2>1. TablesOK' BY <1>4, <2>0 DEF Log, TablesOK
  <2>2. CASE my[t].cas = {c}
    <3>1. Finish({t}) BY <1>4, <2>2 DEF Log
    <3>2. QED BY <2>1, <3>1, FinishType
  <2>3. CASE my[t].cas # {c}
    <3> DEFINE mine == [my[t] EXCEPT !.cas = @ \ {c}]
    <3>1. mine \in Reads /\ mine.cas = my[t].cas \ {c} BY DEF Reads
    <3>2. Goto(t, "log", mine) /\ c \in my[t].cas BY <1>4, <2>3 DEF Log
    <3> HIDE DEF mine
    <3>3. mine.cas # {} BY <2>3, <3>1, <3>2
    <3>4. QED BY <2>1, <3>1, <3>2, <3>3, GotoType DEF Steps
  <2>4. QED BY <2>2, <2>3
<1>5. ASSUME NEW t \in Threads, Conflict(t) \/ RowGone(t) \/ ConfigAssign(t) \/ CommitFails(t)
      PROVE  TypeOK'
  <2>1. Finish({t}) BY <1>5 DEF Conflict, RowGone, ConfigAssign, CommitFails
  <2>2. my[t].object \in Configs /\ my[t].fresh \in BOOLEAN BY DEF Reads
  <2>3. TablesOK' BY <1>5, <2>2 DEF Conflict, RowGone, ConfigAssign, CommitFails, TablesOK
  <2>4. QED BY <2>1, <2>3, FinishType
<1>6. CASE Restart
  <2>1. TablesOK' BY <1>6 DEF Restart, TablesOK, Enabled
  <2>2. QED BY <1>6, <2>1, FinishType DEF Restart
<1>7. CASE UNCHANGED vars BY <1>7 DEF vars, TypeOK
<1>8. QED BY <1>1, <1>2, <1>3, <1>4, <1>5, <1>6, <1>7, BeginType DEF Next, Step

\* The tables and the copies keep their types, and a request about CAs never runs out
\* of them before it is over.
THEOREM TypeCorrect == Spec => []TypeOK
<1>1. TypeOK /\ [Next]_vars => TypeOK' BY StepType
<1>2. QED BY InitType, <1>1, PTL DEF Spec
-----------------------------------------------------------------------------
(* The copies *)

\* What a thread has read is what is there, unless another one has committed since.
ReadsOK(t) ==
    my[t].fresh =>
      /\ pc[t] = "install" => my[t].found = Enabled
      /\ pc[t] = "commitConfig" => \A k \in Columns \ my[t].dirty : my[t].object[k] = row[k]
      /\ pc[t] = "assignConfig" => my[t].object = row

CopyInv == TypeOK /\ StaleOnlyByOverlap /\ \A t \in Threads : ReadsOK(t)

LEMMA InitCopies == Init => CopyInv
<1>1. Init => TypeOK /\ StaleOnlyByOverlap
  BY InitType DEF Init, StaleOnlyByOverlap, Enabled
<1>2. Init => \A t \in Threads : ReadsOK(t) BY DEF Init, ReadsOK
<1>3. QED BY <1>1, <1>2 DEF CopyInv

\* A step that writes neither table: the threads where they were are as they were.
LEMMA ReadsKept ==
    ASSUME CopyInv, NEW t \in Threads, UNCHANGED <<trusted, row>>,
           \/ pc'[t] = pc[t] /\ my'[t] = my[t]
           \/ pc'[t] \notin {"install", "commitConfig", "assignConfig"}
    PROVE  ReadsOK(t)'
BY DEF CopyInv, ReadsOK, Enabled

\* A request about CAs commits.
LEMMA TrustCommitted ==
    ASSUME CopyInv, TypeOK', NEW t \in Threads, Insert(t) \/ Set(t) \/ Delete(t)
    PROVE  CopyInv'
<1> USE TypeParts DEF CopyInv
<1>1. /\ Commit(t, "refresh", {"install"}) /\ UNCHANGED <<blob, row, config, clean>>
      /\ pc[t] # "assignConfig"
  BY DEF Insert, Set, Delete
<1>2. /\ pc' = [pc EXCEPT ![t] = "refresh"] /\ TablesOK' /\ my[t].cas # {}
      /\ \A u \in Threads : /\ my'[u].object = my[u].object /\ my'[u].dirty = my[u].dirty
                            /\ my'[u].fresh => my[u].fresh /\ (u = t \/ pc[u] # "install")
  <2>1. TablesOK' BY DEF TypeOK, TablesOK
  <2>2. my[t].cas # {} BY DEF Insert, Set, Delete, Knows, Steps
  <2>3. \A u \in Threads : /\ my'[u].object = my[u].object /\ my'[u].dirty = my[u].dirty
                           /\ my'[u].fresh => my[u].fresh /\ (u = t \/ pc[u] # "install")
    BY <1>1, <2>1, <2>2, CommitType DEF Steps
  <2>4. QED BY <1>1, <2>1, <2>2, <2>3 DEF Commit
<1>3. ASSUME NEW u \in Threads PROVE ReadsOK(u)'
  BY <1>1, <1>2 DEF ReadsOK
<1>4. StaleOnlyByOverlap' BY <1>1, <1>2 DEF StaleOnlyByOverlap
<1>5. QED BY <1>3, <1>4

\* The configuration is committed.
LEMMA ConfigCommitted ==
    ASSUME CopyInv, TypeOK', NEW t \in Threads, ConfigCommit(t)
    PROVE  CopyInv'
<1> USE TypeParts DEF CopyInv
<1>1. /\ Commit(t, "assignConfig", {"commitConfig", "assignConfig"})
      /\ UNCHANGED <<trusted, blob, config, clean>> /\ pc[t] = "commitConfig"
      /\ row' = [k \in Columns |-> IF k \in my[t].dirty THEN my[t].object[k] ELSE row[k]]
  BY DEF ConfigCommit
<1>2. /\ pc' = [pc EXCEPT ![t] = "assignConfig"]
      /\ \A u \in Threads :
           /\ my'[u].object = my[u].object /\ my'[u].found = my[u].found
           /\ my'[u].fresh =>
                my[u].fresh /\ (u = t \/ pc[u] \notin {"commitConfig", "assignConfig"})
  <2>1. TablesOK' BY DEF TypeOK, TablesOK
  <2>2. \A u \in Threads :
          /\ my'[u].object = my[u].object /\ my'[u].found = my[u].found
          /\ my'[u].fresh =>
               my[u].fresh /\ (u = t \/ pc[u] \notin {"commitConfig", "assignConfig"})
    BY <1>1, <2>1, CommitType DEF Steps
  <2>3. QED BY <1>1, <2>2 DEF Commit
<1>3. ASSUME NEW u \in Threads, u # t PROVE ReadsOK(u)'
  BY <1>1, <1>2, <1>3 DEF ReadsOK, Enabled
<1>4. ReadsOK(t)'
  <2>1. my[t].object \in Configs /\ row \in Configs BY DEF Reads, TablesOK
  <2>2. my[t].fresh => \A k \in Columns : row'[k] = my[t].object[k]
    BY <1>1 DEF ReadsOK
  <2>3. my[t].fresh => row' = my[t].object BY <1>1, <2>1, <2>2 DEF Configs
  <2>4. QED BY <1>2, <2>3 DEF ReadsOK
<1>5. StaleOnlyByOverlap' BY <1>1, <1>2 DEF StaleOnlyByOverlap, Enabled
<1>6. QED BY <1>3, <1>4, <1>5

LEMMA StepCopies ==
    ASSUME CopyInv, [Next]_vars
    PROVE  CopyInv'
<1> USE TypeParts DEF CopyInv
<1>0. TypeOK' BY StepType
<1>1. ASSUME NEW t \in Threads, Begin(t) PROVE CopyInv'
  <2>1. /\ UNCHANGED <<trusted, blob, row, config, clean>> /\ pc[t] = "idle"
        /\ \A u \in Threads \ {t} : pc'[u] = pc[u] /\ my'[u] = my[u]
    BY <1>1 DEF Begin, AddBegin, SetBegin, DeleteBegin, ConfigBegin, BeginAt, Goto
  <2>2. CASE pc'[t] \in {"insert", "set", "delete"}
    <3>1. \A u \in Threads : ReadsOK(u)' BY <2>1, <2>2, ReadsKept
    <3>2. StaleOnlyByOverlap' BY <2>1, <2>2 DEF StaleOnlyByOverlap, Enabled
    <3>3. QED BY <1>0, <3>1, <3>2
  <2>3. ASSUME NEW object \in Configs, ConfigBegin(t, object) PROVE CopyInv'
    <3> DEFINE mine == [Fresh EXCEPT !.object = object,
                                     !.dirty = {k \in Columns : object[k] # row[k]}]
    <3>1. my'[t] = mine /\ pc'[t] = "commitConfig" BY <2>3 DEF ConfigBegin, BeginAt, Goto
    <3>2. mine.object = object /\ mine.dirty = {k \in Columns : object[k] # row[k]} BY DEF Fresh
    <3> HIDE DEF mine
    <3>3. ReadsOK(t)' BY <2>1, <3>1, <3>2 DEF ReadsOK
    <3>4. \A u \in Threads \ {t} : ReadsOK(u)' BY <2>1, ReadsKept
    <3>5. StaleOnlyByOverlap' BY <2>1, <3>1 DEF StaleOnlyByOverlap, Enabled
    <3>6. QED BY <1>0, <3>3, <3>4, <3>5
  <2>4. CASE \/ \E bundle \in SUBSET Cas : AddBegin(t, bundle)
             \/ \E c \in Cas : DeleteBegin(t, c) \/ \E want \in {"on", "off"} : SetBegin(t, c, want)
    <3>1. pc'[t] \in {"insert", "set", "delete"}
      BY <2>4 DEF AddBegin, SetBegin, DeleteBegin, BeginAt, Goto
    <3>2. QED BY <2>2, <3>1
  <2>5. QED BY <1>1, <2>3, <2>4 DEF Begin, Configs
<1>2. ASSUME NEW t \in Threads, RefreshRead(t) PROVE CopyInv'
  <2> DEFINE mine == [my[t] EXCEPT !.found = Enabled, !.fresh = TRUE]
  <2>1. mine.found = Enabled BY DEF Reads
  <2>2. /\ UNCHANGED <<trusted, blob, row, config, clean>> /\ my'[t] = mine /\ pc'[t] = "install"
        /\ \A u \in Threads \ {t} : pc'[u] = pc[u] /\ my'[u] = my[u]
    BY <1>2 DEF RefreshRead, Goto
  <2> HIDE DEF mine
  <2>3. ReadsOK(t)' BY <2>1, <2>2 DEF ReadsOK, Enabled
  <2>4. \A u \in Threads \ {t} : ReadsOK(u)' BY <2>2, ReadsKept
  <2>5. pc[t] = "refresh" BY <1>2 DEF RefreshRead
  <2>6. StaleOnlyByOverlap' BY <2>2, <2>5 DEF StaleOnlyByOverlap, Enabled
  <2>7. QED BY <1>0, <2>3, <2>4, <2>6
<1>3. ASSUME NEW t \in Threads, Install(t) PROVE CopyInv'
  <2>1. /\ UNCHANGED <<trusted, row, config>> /\ pc[t] = "install" /\ pc'[t] = "log"
        /\ blob' = my[t].found /\ clean'.trust = my[t].fresh /\ clean'.log = clean.log
        /\ \A u \in Threads \ {t} : pc'[u] = pc[u] /\ my'[u] = my[u]
    BY <1>3 DEF Install, Goto, TablesOK
  <2>2. \A u \in Threads : ReadsOK(u)' BY <2>1, ReadsKept
  <2>3. my[t].fresh => blob' = Enabled' BY <2>1 DEF ReadsOK, Enabled
  <2>4. StaleOnlyByOverlap' BY <2>1, <2>3 DEF StaleOnlyByOverlap
  <2>5. QED BY <1>0, <2>2, <2>4
<1>4. ASSUME NEW t \in Threads, ConfigAssign(t) PROVE CopyInv'
  <2>1. /\ UNCHANGED <<trusted, row, blob>> /\ pc[t] = "assignConfig" /\ pc'[t] = "idle"
        /\ config' = my[t].object /\ clean'.log = my[t].fresh /\ clean'.trust = clean.trust
        /\ \A u \in Threads \ {t} : pc'[u] = pc[u] /\ my'[u] = my[u]
    BY <1>4 DEF ConfigAssign, Finish, TablesOK
  <2>2. \A u \in Threads : ReadsOK(u)' BY <2>1, ReadsKept
  <2>3. my[t].fresh => config' = row' BY <2>1 DEF ReadsOK
  <2>4. StaleOnlyByOverlap' BY <2>1, <2>3 DEF StaleOnlyByOverlap, Enabled
  <2>5. QED BY <1>0, <2>2, <2>4
<1>5. ASSUME NEW t \in Threads,
             Conflict(t) \/ RowGone(t) \/ CommitFails(t) \/ \E c \in Cas : Log(t, c)
      PROVE  CopyInv'
  <2>1. /\ UNCHANGED <<trusted, row, blob, config, clean>>
        /\ pc[t] \notin {"refresh", "install", "assignConfig"} /\ pc'[t] \in {"idle", "log"}
        /\ \A u \in Threads \ {t} : pc'[u] = pc[u] /\ my'[u] = my[u]
    BY <1>5 DEF Conflict, RowGone, CommitFails, Log, Finish, Goto
  <2>2. \A u \in Threads : ReadsOK(u)' BY <2>1, ReadsKept
  <2>3. StaleOnlyByOverlap' BY <2>1 DEF StaleOnlyByOverlap, Enabled
  <2>4. QED BY <1>0, <2>2, <2>3
<1>6. CASE Restart
  <2>1. /\ UNCHANGED <<trusted, row>> /\ blob' = Enabled /\ config' = row
        /\ \A u \in Threads : pc'[u] = "idle"
    BY <1>6 DEF Restart, Finish
  <2>2. \A u \in Threads : ReadsOK(u)' BY <2>1, ReadsKept
  <2>3. StaleOnlyByOverlap' BY <2>1 DEF StaleOnlyByOverlap, Enabled
  <2>4. QED BY <1>0, <2>2, <2>3
<1>7. CASE UNCHANGED vars
  <2>1. \A u \in Threads : ReadsOK(u)' BY <1>7, ReadsKept DEF vars
  <2>2. StaleOnlyByOverlap' BY <1>7 DEF StaleOnlyByOverlap, Enabled, vars
  <2>3. QED BY <1>0, <2>1, <2>2
<1>8. QED
  BY <1>0, <1>1, <1>2, <1>3, <1>4, <1>5, <1>6, <1>7, TrustCommitted, ConfigCommitted
  DEF Next, Step

\* Once the changes are carried through, the copy of the trusted CAs and that of the
\* log-forwarding configuration are the tables, unless the request that renewed it
\* last had read before another one's commit.
THEOREM CopiesStaleOnlyByOverlap == Spec => []StaleOnlyByOverlap
<1>1. CopyInv /\ [Next]_vars => CopyInv' BY StepCopies
<1>2. CopyInv => StaleOnlyByOverlap BY DEF CopyInv
<1>3. QED BY InitCopies, <1>1, <1>2, PTL DEF Spec
-----------------------------------------------------------------------------
(* Refinement *)

Installing == {u \in Threads : pc[u] = "install"}
Taken == {my[t].found : t \in Installing}

LEMMA InitCopy == Init => Copy!Init
BY DEF Init, Copy!Init, Enabled

\* A step that leaves the copy alone, and the threads that are about to assign it.
LEMMA CopyChange ==
    ASSUME TypeOK', blob' = blob, Installing' = Installing,
           \A t \in Installing : my'[t].found = my[t].found
    PROVE  Copy!Next
<1>1. Taken' = Taken BY DEF Taken
<1>2. Enabled' \in SUBSET Cas BY DEF Enabled
<1>3. QED BY <1>1, <1>2 DEF Copy!Next, Copy!Change, Taken, Installing

LEMMA StepCopy ==
    ASSUME TypeOK, [Next]_vars
    PROVE  [Copy!Next]_(Copy!vars)
<1> USE TypeParts
<1>0. TypeOK' BY StepType
<1>1. ASSUME NEW t \in Threads, Insert(t) \/ Set(t) \/ Delete(t) \/ ConfigCommit(t)
      PROVE  Copy!Next
  <2>1. PICK step \in {"refresh", "assignConfig"}, others \in SUBSET Steps :
            /\ Commit(t, step, others)
            /\ step = "refresh" => my[t].cas # {}
    <3>1. CASE Insert(t) \/ Set(t) \/ Delete(t)
      <4>1. Commit(t, "refresh", {"install"}) BY <3>1 DEF Insert, Set, Delete
      <4>2. my[t].cas # {} BY <3>1 DEF Insert, Set, Delete, Knows, Steps
      <4>3. QED BY <4>1, <4>2 DEF Steps
    <3>2. CASE ConfigCommit(t)
      <4>1. Commit(t, "assignConfig", {"commitConfig", "assignConfig"}) BY <3>2 DEF ConfigCommit
      <4>2. {"commitConfig", "assignConfig"} \in SUBSET Steps BY DEF Steps
      <4>3. QED BY <4>1, <4>2
    <3>3. QED BY <1>1, <3>1, <3>2
  <2>2. TablesOK' /\ step \in Steps BY <1>0 DEF TypeOK, TablesOK, Steps
  <2>3. \A u \in Threads : my'[u].found = my[u].found BY <2>1, <2>2, CommitType
  <2>4. pc' = [pc EXCEPT ![t] = step] BY <2>1 DEF Commit
  <2>5. pc[t] # "install" /\ step # "install" /\ blob' = blob
    BY <1>1, <2>1 DEF Insert, Set, Delete, ConfigCommit
  <2>6. Installing' = Installing BY <2>4, <2>5 DEF Installing
  <2>7. QED BY <1>0, <2>3, <2>5, <2>6, CopyChange DEF Installing
<1>2. ASSUME NEW t \in Threads,
             \/ Begin(t) \/ Conflict(t) \/ RowGone(t) \/ ConfigAssign(t) \/ CommitFails(t)
             \/ \E c \in Cas : Log(t, c)
      PROVE  Copy!Next
  <2>1. /\ blob' = blob /\ pc[t] # "install" /\ pc'[t] # "install"
        /\ \A u \in Threads \ {t} : pc'[u] = pc[u] /\ my'[u] = my[u]
    <3>1. CASE Begin(t)
      BY <3>1 DEF Begin, AddBegin, SetBegin, DeleteBegin, ConfigBegin, BeginAt, Goto
    <3>2. CASE \E c \in Cas : Log(t, c) BY <3>2 DEF Log, Finish, Goto
    <3>3. CASE Conflict(t) \/ RowGone(t) \/ ConfigAssign(t) \/ CommitFails(t)
      BY <3>3 DEF Conflict, RowGone, ConfigAssign, CommitFails, Finish
    <3>4. QED BY <1>2, <3>1, <3>2, <3>3
  <2>2. Installing' = Installing BY <2>1 DEF Installing
  <2>3. \A u \in Installing : my'[u].found = my[u].found BY <2>1 DEF Installing
  <2>4. QED BY <1>0, <2>1, <2>2, <2>3, CopyChange
<1>3. ASSUME NEW t \in Threads, RefreshRead(t) PROVE Copy!Next
  <2> DEFINE mine == [my[t] EXCEPT !.found = Enabled, !.fresh = TRUE]
  <2>1. mine.found = Enabled BY DEF Reads
  <2>2. /\ UNCHANGED <<trusted, blob>> /\ my'[t] = mine /\ pc[t] = "refresh" /\ pc'[t] = "install"
        /\ \A u \in Threads \ {t} : pc'[u] = pc[u] /\ my'[u] = my[u]
    BY <1>3 DEF RefreshRead, Goto
  <2> HIDE DEF mine
  <2>3. Installing' = Installing \cup {t} /\ t \notin Installing BY <2>2 DEF Installing
  <2>4. Taken' = Taken \cup {Enabled}
    <3>1. \A u \in Installing : my'[u].found = my[u].found BY <2>2, <2>3 DEF Installing
    <3>2. my'[t].found = Enabled BY <2>1, <2>2
    <3>3. QED BY <2>3, <3>1, <3>2 DEF Taken
  <2>5. QED BY <2>2, <2>4 DEF Copy!Next, Copy!Take, Taken, Installing, Enabled
<1>4. ASSUME NEW t \in Threads, Install(t) PROVE Copy!Next
  <2>1. /\ UNCHANGED trusted /\ pc[t] = "install" /\ pc'[t] = "log" /\ blob' = my[t].found
        /\ \A u \in Threads \ {t} : pc'[u] = pc[u] /\ my'[u] = my[u]
    BY <1>4 DEF Install, Goto
  <2>2. Installing' = Installing \ {t} /\ t \in Installing BY <2>1 DEF Installing
  <2>3. blob' \in Taken /\ Taken' \subseteq Taken BY <2>1, <2>2 DEF Taken, Installing
  <2>4. QED BY <2>1, <2>3 DEF Copy!Next, Copy!Put, Taken, Installing, Enabled
<1>5. CASE Restart
  <2>1. /\ UNCHANGED trusted /\ blob' = Enabled /\ \A u \in Threads : pc'[u] = "idle"
    BY <1>5 DEF Restart, Finish
  <2>2. Taken' = {} BY <2>1 DEF Taken, Installing
  <2>3. QED BY <2>1, <2>2 DEF Copy!Next, Copy!Reload, Taken, Installing, Enabled
<1>6. CASE UNCHANGED vars BY <1>6 DEF vars, Copy!vars, Enabled
<1>7. QED BY <1>1, <1>2, <1>3, <1>4, <1>5, <1>6 DEF Next, Step

\* The copy of the trusted CAs is always one that the table held at some moment since
\* the process started: it lags, and never mixes two moments.
THEOREM ImplementsLaggingCopy == Spec => CopyOfTheTable
<1>1. TypeOK /\ [Next]_vars => [Copy!Next]_(Copy!vars) BY StepCopy
<1>2. QED BY InitCopy, <1>1, TypeCorrect, PTL DEF Spec, CopyOfTheTable, Copy!Spec
-----------------------------------------------------------------------------
(* Audit entries *)

\* Each step but the last has one kind of request.
Asked(t) ==
    /\ pc[t] = "insert" => my[t].act = "add"
    /\ pc[t] = "set" => my[t].act = "update"
    /\ pc[t] = "delete" => my[t].act = "remove"

\* A request is on the way to the entry of c, and none of the CAs it has still to log
\* is missing, so that it will get there.
Whole(u, c) == Adding(u) /\ c \in my[u].cas /\ my[u].cas \subseteq Present

Known == faults = 0 => \A c \in Present \ cut : <<"add", c>> \in logged \/ \E u \in Threads : Whole(u, c)

LogInv == TypeOK /\ Known /\ \A t \in Threads : Asked(t)

LEMMA InitLog == Init => LogInv
<1>1. Init => TypeOK /\ Known BY InitType DEF Init, Known, Present
<1>2. Init => \A t \in Threads : Asked(t) BY DEF Init, Asked
<1>3. QED BY <1>1, <1>2 DEF LogInv

\* What the other threads do to a request.
LEMMA OthersKeep ==
    ASSUME TypeOK, NEW t \in Threads, Begin(t) \/ Step(t), NEW v \in Threads \ {t}
    PROVE  pc'[v] = pc[v] /\ my'[v].act = my[v].act /\ my'[v].cas = my[v].cas
<1> USE TypeParts
<1>0. TypeOK' BY StepType DEF Next
<1>1. CASE Begin(t)
  BY <1>1 DEF Begin, AddBegin, SetBegin, DeleteBegin, ConfigBegin, BeginAt, Goto
<1>2. CASE \/ Conflict(t) \/ RefreshRead(t) \/ Install(t) \/ (\E c \in Cas : Log(t, c))
           \/ RowGone(t) \/ ConfigAssign(t)
  BY <1>2 DEF Conflict, RefreshRead, Install, Log, RowGone, ConfigAssign, Finish, Goto
<1>3. CASE Insert(t) \/ Set(t) \/ Delete(t) \/ ConfigCommit(t)
  <2>1. TablesOK' BY <1>0 DEF TypeOK, TablesOK
  <2>2. CASE Insert(t) \/ Set(t) \/ Delete(t)
    <3>1. my[t].cas # {} BY <2>2 DEF Insert, Set, Delete, Knows, Steps
    <3>2. Commit(t, "refresh", {"install"}) BY <2>2 DEF Insert, Set, Delete
    <3>3. my'[v].act = my[v].act /\ my'[v].cas = my[v].cas
      BY <2>1, <3>1, <3>2, CommitType DEF Steps
    <3>4. QED BY <3>2, <3>3 DEF Commit
  <2>3. CASE ConfigCommit(t)
    <3>1. Commit(t, "assignConfig", {"commitConfig", "assignConfig"}) BY <2>3 DEF ConfigCommit
    <3>2. my'[v].act = my[v].act /\ my'[v].cas = my[v].cas BY <2>1, <3>1, CommitType DEF Steps
    <3>3. QED BY <3>1, <3>2 DEF Commit
  <2>4. QED BY <1>3, <2>2, <2>3
<1>4. QED BY <1>1, <1>2, <1>3 DEF Step

\* An addition or a removal that has just been committed.
LEMMA NewlyAsked ==
    ASSUME TypeOK, NEW t \in Threads, Insert(t) \/ Set(t) \/ Delete(t)
    PROVE  my'[t].act = my[t].act /\ my'[t].cas = my[t].cas /\ pc'[t] = "refresh"
<1> USE TypeParts
<1>1. TypeOK' BY StepType DEF Next, Step
<1>2. TablesOK' BY <1>1 DEF TypeOK, TablesOK
<1>3. my[t].cas # {} BY DEF Insert, Set, Delete, Knows, Steps
<1>4. Commit(t, "refresh", {"install"}) BY DEF Insert, Set, Delete
<1>5. my'[t].act = my[t].act /\ my'[t].cas = my[t].cas BY <1>2, <1>3, <1>4, CommitType DEF Steps
<1>6. QED BY <1>4, <1>5 DEF Commit

\* A request is of one kind.
LEMMA StepAsked ==
    ASSUME LogInv, NEW t \in Threads, Begin(t) \/ Step(t), NEW v \in Threads
    PROVE  Asked(v)'
<1> USE TypeParts DEF LogInv
<1>1. CASE v # t
  <2>1. v \in Threads \ {t} BY <1>1
  <2>2. pc'[v] = pc[v] /\ my'[v].act = my[v].act BY <2>1, OthersKeep
  <2>3. QED BY <2>2 DEF Asked
<1>2. ASSUME NEW bundle \in SUBSET Cas, AddBegin(t, bundle) PROVE Asked(t)'
  BY <1>2 DEF AddBegin, BeginAt, Goto, Asked, Fresh
<1>3. ASSUME NEW c \in Cas, DeleteBegin(t, c) PROVE Asked(t)'
  BY <1>3 DEF DeleteBegin, BeginAt, Goto, Asked, Fresh
<1>4. ASSUME NEW c \in Cas, NEW want \in {"on", "off"}, SetBegin(t, c, want) PROVE Asked(t)'
  BY <1>4 DEF SetBegin, BeginAt, Goto, Asked, Fresh
<1>5. ASSUME NEW object \in Configs, ConfigBegin(t, object) PROVE Asked(t)'
  BY <1>5 DEF ConfigBegin, BeginAt, Goto, Asked
<1>6. ASSUME Step(t) PROVE Asked(t)'
  <2>1. pc'[t] \notin {"insert", "set", "delete"}
    BY <1>6 DEF Step, Insert, Set, Conflict, Delete, RefreshRead, Install, Log, RowGone,
       ConfigCommit, ConfigAssign, Commit, Finish, Goto
  <2>2. QED BY <2>1 DEF Asked
<1>7. QED BY <1>1, <1>2, <1>3, <1>4, <1>5, <1>6 DEF Begin, Configs

\* A request whose step is not its last, nor one of its entries, goes on.
LEMMA WholeStays ==
    ASSUME TypeOK, NEW t \in Threads, Begin(t) \/ Step(t), NEW u \in Threads, NEW c, Whole(u, c),
           Present \subseteq Present'
    PROVE  Whole(u, c)' \/ <<"add", c>> \in logged'
<1> USE TypeParts DEF Whole, Adding
<1>1. CASE u # t
  <2>1. u \in Threads \ {t} BY <1>1
  <2>2. pc'[u] = pc[u] /\ my'[u].act = my[u].act /\ my'[u].cas = my[u].cas BY <2>1, OthersKeep
  <2>3. QED BY <2>2
<1>2. CASE u = t /\ RefreshRead(t)
  <2> DEFINE mine == [my[t] EXCEPT !.found = Enabled, !.fresh = TRUE]
  <2>1. mine.act = my[t].act /\ mine.cas = my[t].cas BY DEF Reads
  <2>2. my'[t] = mine /\ pc'[t] = "install" BY <1>2 DEF RefreshRead, Goto
  <2> HIDE DEF mine
  <2>3. QED BY <1>2, <2>1, <2>2
<1>3. CASE u = t /\ Install(t) BY <1>3 DEF Install, Goto
<1>4. ASSUME u = t, NEW d \in Cas, Log(t, d) PROVE Whole(u, c)' \/ <<"add", c>> \in logged'
  <2>1. CASE d = c BY <1>4, <2>1 DEF Log
  <2>2. CASE d # c
    <3> DEFINE mine == [my[t] EXCEPT !.cas = @ \ {d}]
    <3>1. mine.act = my[t].act /\ mine.cas = my[t].cas \ {d} BY DEF Reads
    <3>2. Goto(t, "log", mine) BY <1>4, <2>2 DEF Log
    <3> HIDE DEF mine
    <3>3. my'[t] = mine /\ pc'[t] = "log" BY <3>2 DEF Goto
    <3>4. QED BY <1>4, <2>2, <3>1, <3>3
  <2>3. QED BY <2>1, <2>2
<1>5. ASSUME u = t,
             Begin(t) \/ Insert(t) \/ Set(t) \/ Conflict(t) \/ Delete(t) \/ RowGone(t)
               \/ ConfigCommit(t) \/ ConfigAssign(t)
      PROVE  FALSE
  BY <1>5 DEF Begin, AddBegin, SetBegin, DeleteBegin, ConfigBegin, BeginAt,
     Insert, Set, Conflict, Delete, RowGone, ConfigCommit, ConfigAssign
<1>6. QED BY <1>1, <1>2, <1>3, <1>4, <1>5 DEF Step

\* CAs are added.
LEMMA KnownInserted ==
    ASSUME LogInv, NEW t \in Threads, Insert(t)
    PROVE  Known'
<1> USE TypeParts DEF LogInv
<1>1. /\ pc[t] = "insert" /\ my[t].act = "add" /\ UNCHANGED faults
      /\ trusted' = [c \in Cas |-> IF c \in my[t].cas THEN "on" ELSE trusted[c]]
      /\ logged' = {entry \in logged : entry[2] \notin my[t].cas} /\ cut' = cut \ my[t].cas
  BY DEF Insert, Asked
<1>2. my[t].cas \subseteq Cas BY DEF Reads
<1>3. Present' = Present \cup my[t].cas BY <1>1, <1>2 DEF Present, TablesOK
<1>4. ASSUME faults' = 0, NEW c \in Present' \ cut'
      PROVE  <<"add", c>> \in logged' \/ \E u \in Threads : Whole(u, c)'
  <2>1. CASE c \in my[t].cas
    <3>1. my'[t].act = "add" /\ my'[t].cas = my[t].cas /\ pc'[t] = "refresh"
      BY <1>1, NewlyAsked
    <3>2. Whole(t, c)' BY <1>3, <2>1, <3>1 DEF Whole, Adding
    <3>3. QED BY <3>2
  <2>2. CASE c \notin my[t].cas
    <3>1. c \in Present \ cut BY <1>1, <1>3, <1>4, <2>2
    <3>2. CASE <<"add", c>> \in logged BY <1>1, <2>2, <3>2
    <3>3. ASSUME NEW u \in Threads, Whole(u, c) PROVE Whole(u, c)' \/ <<"add", c>> \in logged'
      BY <1>3, <3>3, WholeStays DEF Step
    <3>4. QED BY <1>1, <1>4, <3>1, <3>2, <3>3 DEF Known
  <2>3. QED BY <2>1, <2>2
<1>5. QED BY <1>4 DEF Known

\* A CA is removed: who still owed entries beside its own leaves them to cut.
LEMMA KnownRemoved ==
    ASSUME LogInv, NEW t \in Threads, Delete(t)
    PROVE  Known'
<1> USE TypeParts DEF LogInv
<1> DEFINE gone == my[t].cas \cap Present
<1>1. /\ pc[t] = "delete" /\ UNCHANGED <<logged, faults>> /\ NoteCut(gone)
      /\ trusted' = [c \in Cas |-> IF c \in my[t].cas THEN "absent" ELSE trusted[c]]
  BY DEF Delete
<1>2. Present' = Present \ gone BY <1>1 DEF Present, TablesOK
<1>3. cut \subseteq cut' /\ \A u \in Threads : Adding(u) /\ my[u].cas \cap gone # {} => my[u].cas \ gone \subseteq cut'
  BY <1>1 DEF NoteCut
<1>4. ASSUME faults' = 0, NEW c \in Present' \ cut'
      PROVE  <<"add", c>> \in logged' \/ \E u \in Threads : Whole(u, c)'
  <2>1. c \in Present \ cut /\ c \notin gone BY <1>2, <1>3, <1>4
  <2>2. <<"add", c>> \in logged \/ \E u \in Threads : Whole(u, c) BY <1>1, <1>4, <2>1 DEF Known
  <2>3. ASSUME NEW u \in Threads, Whole(u, c) PROVE Whole(u, c)'
    <3>1. my[u].cas \cap gone = {} BY <1>3, <1>4, <2>1, <2>3 DEF Whole
    <3>2. my[u].cas \subseteq Present' BY <1>2, <2>3, <3>1 DEF Whole
    <3>3. u # t BY <1>1, <2>3 DEF Whole, Adding
    <3>4. u \in Threads \ {t} /\ Step(t) BY <3>3 DEF Step
    <3>5. pc'[u] = pc[u] /\ my'[u].act = my[u].act /\ my'[u].cas = my[u].cas
      BY <3>4, OthersKeep
    <3>6. QED BY <2>3, <3>2, <3>5 DEF Whole, Adding
  <2>4. QED BY <1>1, <2>2, <2>3
<1>5. QED BY <1>4 DEF Known

\* Any other step of a thread.
LEMMA KnownStays ==
    ASSUME LogInv, NEW t \in Threads, Begin(t) \/ Step(t), ~Insert(t), ~Delete(t)
    PROVE  Known'
<1> USE TypeParts DEF LogInv
<1>1. UNCHANGED <<cut, faults>> /\ logged \subseteq logged'
  BY DEF Begin, AddBegin, SetBegin, DeleteBegin, ConfigBegin, BeginAt, Step, Set, Conflict,
     RefreshRead, Install, Log, RowGone, ConfigCommit, ConfigAssign
<1>2. Present' = Present
  <2>1. CASE Set(t)
    <3>1. my[t].want \in {"on", "off"} BY DEF Reads
    <3>2. /\ my[t].want # my[t].read => my[t].cas \subseteq Present
          /\ trusted' = [c \in Cas |-> IF c \in my[t].cas /\ my[t].want # my[t].read
                                       THEN my[t].want ELSE trusted[c]]
      BY <2>1 DEF Set
    <3>3. QED BY <3>1, <3>2 DEF Present, TablesOK
  <2>2. CASE ~Set(t)
    <3>1. UNCHANGED trusted
      BY <2>2 DEF Begin, AddBegin, SetBegin, DeleteBegin, ConfigBegin, BeginAt, Step, Conflict,
         RefreshRead, Install, Log, RowGone, ConfigCommit, ConfigAssign
    <3>2. QED BY <3>1 DEF Present
  <2>3. QED BY <2>1, <2>2
<1>3. ASSUME faults' = 0, NEW c \in Present' \ cut'
      PROVE  <<"add", c>> \in logged' \/ \E u \in Threads : Whole(u, c)'
  <2>1. <<"add", c>> \in logged \/ \E u \in Threads : Whole(u, c) BY <1>1, <1>2, <1>3 DEF Known
  <2>2. ASSUME NEW u \in Threads, Whole(u, c) PROVE Whole(u, c)' \/ <<"add", c>> \in logged'
    BY <1>2, <2>2, WholeStays
  <2>3. QED BY <1>1, <2>1, <2>2
<1>4. QED BY <1>3 DEF Known

LEMMA StepLog ==
    ASSUME LogInv, [Next]_vars
    PROVE  LogInv'
<1> USE TypeParts DEF LogInv
<1>0. TypeOK' BY StepType
<1>1. ASSUME NEW t \in Threads, Begin(t) \/ Step(t) PROVE LogInv'
  BY <1>0, <1>1, StepAsked, KnownInserted, KnownRemoved, KnownStays
<1>2. ASSUME Restart \/ \E t \in Threads : CommitFails(t) PROVE LogInv'
  <2>1. faults \in Nat BY DEF TablesOK
  <2>2. faults' = faults + 1 BY <1>2 DEF Restart, CommitFails
  <2>3. faults' # 0 BY <2>1, <2>2
  <2>4. ASSUME NEW v \in Threads
        PROVE  pc'[v] = "idle" \/ (pc'[v] = pc[v] /\ my'[v] = my[v])
    <3>1. PICK T \in SUBSET Threads : Finish(T) BY <1>2 DEF Restart, CommitFails
    <3>2. QED BY <3>1 DEF Finish
  <2>5. \A v \in Threads : Asked(v)' BY <2>4 DEF Asked
  <2>6. QED BY <1>0, <2>3, <2>5 DEF Known
<1>3. CASE UNCHANGED vars
  <2>1. UNCHANGED <<trusted, logged, pc, my, cut, faults>> BY <1>3 DEF vars
  <2>2. Known' BY <2>1 DEF Known, Whole, Adding, Present
  <2>3. \A t \in Threads : Asked(t)' BY <2>1 DEF Asked
  <2>4. QED BY <1>0, <2>2, <2>3
<1>4. QED BY <1>1, <1>2, <1>3 DEF Next

\* As long as no commit fails and the process runs, with any number of threads and CAs
\* (services/trust_service.py): a trusted CA has the entry of its addition or it is on
\* the way, unless another CA of that bundle was removed before both were logged.
THEOREM AddsAlwaysLogged == Spec => []AddsLogged
<1>1. LogInv /\ [Next]_vars => LogInv' BY StepLog
<1>2. LogInv => AddsLogged BY DEF LogInv, Known, Whole, AddsLogged
<1>3. QED BY InitLog, <1>1, <1>2, PTL DEF Spec
=============================================================================
