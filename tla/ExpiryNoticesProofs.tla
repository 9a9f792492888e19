------------------------ MODULE ExpiryNoticesProofs ------------------------
(* What TLAPS proves of ExpiryNotices, for any certificates, owners, CAs,  *)
(* channels and number of faults.                                          *)
EXTENDS ExpiryNotices, TLAPS

Running == {"list", "certs", "tell", "logNotified", "cas"}
-----------------------------------------------------------------------------
(* Types *)

\* The database and the world, and what the job works on.
TablesOK ==
    /\ expiring \subseteq Items /\ over \subseteq Items \ expiring
    /\ notified \in [Certs -> BOOLEAN] /\ warned \subseteq Items
    /\ settings \in {None} \cup SUBSET Channels
    /\ working \subseteq Channels
    /\ told \in [Certs -> [Channels -> Nat]]
    /\ adminPc \in {"idle", "create", "set"} /\ faults \in Nat

JobOK ==
    /\ pc \in {"idle", "createSettings"} \cup Running
    /\ enabled \subseteq Channels /\ batch \subseteq Items /\ done \subseteq Certs
    /\ cur \in Owned \cup {None} /\ left \subseteq Channels /\ delivered \in BOOLEAN
    /\ pc \in {"tell", "logNotified"} => cur # None /\ cur \in warned
    /\ pc \in {"certs", "tell", "logNotified"} => batch \subseteq Certs
    /\ pc = "cas" => batch \subseteq Authorities

Known == pc \in Running \/ adminPc = "set" => settings # None

LEMMA TypeParts == TypeOK => TablesOK /\ JobOK /\ Known
BY DEF TypeOK, TablesOK, JobOK, Known, Running

LEMMA PartsType ==
    ASSUME TablesOK', JobOK', Known'
    PROVE  TypeOK'
BY DEF TypeOK, TablesOK, JobOK, Known, Running

LEMMA InitType == Init => TypeOK
<1> SUFFICES ASSUME Init PROVE TypeOK OBVIOUS
<1>1. notified \in [Certs -> BOOLEAN] /\ told \in [Certs -> [Channels -> Nat]] BY DEF Init
<1>2. QED BY <1>1, ConstantsAssumption DEF Init, TypeOK

\* The tables' part of a step of the job.
LEMMA JobTables ==
    ASSUME TypeOK, Job
    PROVE  TablesOK'
<1> USE TypeParts, ConstantsAssumption DEF TablesOK, Items, world
<1>1. CASE Start \/ List \/ GiveUp \/ LogNotified \/ ListCas \/ End
  BY <1>1 DEF Start, List, GiveUp, LogNotified, ListCas, End
<1>2. CASE CreateSettings BY <1>2 DEF CreateSettings
<1>3. CASE Mark
  <2>1. cur \in Certs BY <1>3 DEF Mark, JobOK
  <2>2. QED BY <1>3, <2>1 DEF Mark
<1>4. ASSUME NEW c \in Certs, Warn(c) PROVE TablesOK' BY <1>4 DEF Warn
<1>5. ASSUME NEW h \in Channels, Tell(h) PROVE TablesOK'
  <2>1. cur \in Certs BY <1>5 DEF Tell, JobOK
  <2>2. told' \in [Certs -> [Channels -> Nat]] BY <1>5, <2>1 DEF Tell
  <2>3. QED BY <1>5, <2>2 DEF Tell
<1>6. ASSUME NEW a \in Authorities, WarnCa(a) PROVE TablesOK' BY <1>6 DEF WarnCa
<1>7. QED BY <1>1, <1>2, <1>3, <1>4, <1>5, <1>6 DEF Job

LEMMA EndRunType ==
    ASSUME EndRun
    PROVE  JobOK' /\ pc' = "idle"
BY DEF EndRun, JobOK, Running

LEMMA JobType ==
    ASSUME TypeOK, Job
    PROVE  JobOK' /\ Known'
<1> USE TypeParts, ConstantsAssumption DEF JobOK, Known, Running
<1>1. CASE Start BY <1>1 DEF Start, TablesOK
<1>2. CASE CreateSettings
  <2>1. CASE settings = None BY <1>2, <2>1 DEF CreateSettings
  <2>2. CASE settings # None BY <1>2, <2>2, EndRunType DEF CreateSettings
  <2>3. QED BY <2>1, <2>2
<1>3. CASE List \/ ListCas BY <1>3 DEF List, ListCas, TablesOK, Items
<1>4. CASE GiveUp \/ Mark \/ LogNotified BY <1>4 DEF GiveUp, Mark, LogNotified
<1>5. CASE End BY <1>5, EndRunType DEF End
<1>6. ASSUME NEW c \in Certs, Warn(c) PROVE JobOK' /\ Known' BY <1>6 DEF Warn
<1>7. ASSUME NEW h \in Channels, Tell(h) PROVE JobOK' /\ Known' BY <1>7 DEF Tell
<1>8. ASSUME NEW a \in Authorities, WarnCa(a) PROVE JobOK' /\ Known' BY <1>8 DEF WarnCa
<1>9. QED BY <1>1, <1>2, <1>3, <1>4, <1>5, <1>6, <1>7, <1>8 DEF Job

LEMMA StepType ==
    ASSUME TypeOK, [Next]_vars
    PROVE  TypeOK'
<1> USE TypeParts, ConstantsAssumption DEF job, world
<1>1. CASE Job BY <1>1, JobTables, JobType, PartsType
<1>2. ASSUME NEW h \in Channels, TellUnconfirmed(h) PROVE TypeOK'
  <2>1. cur \in Certs BY <1>2 DEF TellUnconfirmed, JobOK
  <2>2. told' \in [Certs -> [Channels -> Nat]] BY <1>2, <2>1 DEF TellUnconfirmed, TablesOK
  <2>3. TablesOK' BY <1>2, <2>2 DEF TellUnconfirmed, TablesOK
  <2>4. JobOK' /\ Known' BY <1>2 DEF TellUnconfirmed, JobOK, Known
  <2>5. QED BY <2>3, <2>4, PartsType
<1>3. CASE CommitFails \/ Restart
  <2>1. JobOK' /\ pc' = "idle" BY <1>3, EndRunType DEF CommitFails, Restart
  <2>2. TablesOK' BY <1>3 DEF CommitFails, Restart, TablesOK
  <2>3. Known' BY <1>3, <2>1 DEF CommitFails, Restart, Known, Running
  <2>4. QED BY <2>1, <2>2, <2>3, PartsType
<1>4. CASE AdminBegin \/ AdminCreate \/ \E on, off \in SUBSET Channels : AdminSet(on, off)
  <2>1. UNCHANGED <<world, notified, warned, told, job, faults>>
    BY <1>4 DEF AdminBegin, AdminCreate, AdminSet
  <2>2. /\ settings' \in {None} \cup SUBSET Channels /\ adminPc' \in {"idle", "create", "set"}
        /\ settings # None => settings' # None
        /\ adminPc' = "set" => settings' # None
    <3>1. CASE AdminBegin BY <3>1 DEF AdminBegin, TablesOK
    <3>2. CASE AdminCreate BY <3>2 DEF AdminCreate, TablesOK
    <3>3. ASSUME NEW on \in SUBSET Channels, NEW off \in SUBSET Channels, AdminSet(on, off)
          PROVE  settings' \in SUBSET Channels /\ adminPc' = "idle"
      <4>1. settings \in SUBSET Channels BY <3>3 DEF AdminSet, TablesOK, Known
      <4>2. QED BY <3>3, <4>1 DEF AdminSet
    <3>4. QED BY <1>4, <3>1, <3>2, <3>3
  <2>3. TablesOK' BY <2>1, <2>2 DEF TablesOK
  <2>4. JobOK' BY <2>1 DEF JobOK
  <2>5. Known' BY <2>1, <2>2 DEF Known
  <2>6. QED BY <2>3, <2>4, <2>5, PartsType
<1>5. CASE Environment
  <2>1. expiring' \subseteq Items /\ over' \subseteq Items \ expiring' /\ working' \subseteq Channels
    BY <1>5 DEF Environment, TablesOK
  <2>2. TablesOK' BY <1>5, <2>1 DEF Environment, TablesOK
  <2>3. JobOK' /\ Known' BY <1>5 DEF Environment, JobOK, Known
  <2>4. QED BY <2>2, <2>3, PartsType
<1>6. CASE UNCHANGED vars BY <1>6 DEF vars, TypeOK
<1>7. QED BY <1>1, <1>2, <1>3, <1>4, <1>5, <1>6 DEF Next

\* Every state has its type: among other things, a run that tells an owner has logged
\* the warning, and finds the settings' row, whoever has made it.
THEOREM TypeCorrect == Spec => []TypeOK
<1>1. TypeOK /\ [Next]_vars => TypeOK' BY StepType
<1>2. QED BY InitType, <1>1, PTL DEF Spec
-----------------------------------------------------------------------------
(* Notices *)

\* What the run is about to handle was not notified, and will not be twice.
Due ==
    /\ pc \in {"certs", "tell", "logNotified"} =>
         \A c \in batch \ done : ~notified[c]
    /\ pc \in {"tell", "logNotified"} => cur \notin batch
    /\ pc = "tell" => ~notified[cur]

\* The owner is being told of c, and was over h.
ToldNow(c, h) == pc = "tell" /\ cur = c /\ delivered /\ h \notin left

Told(c) ==
    /\ \A h \in Channels :
         /\ told[c][h] <= 1 + faults
         /\ ~notified[c] /\ ~ToldNow(c, h) => told[c][h] <= faults
    /\ notified[c] \/ (pc = "tell" /\ cur = c /\ delivered) => \E h \in Channels : told[c][h] > 0

NoticeInv == TypeOK /\ Due /\ \A c \in Certs : Told(c)

LEMMA InitNotices == Init => NoticeInv
<1>1. Init => TypeOK /\ Due BY InitType DEF Init, Due
<1>2. ASSUME Init, NEW c \in Certs PROVE Told(c) BY <1>2 DEF Init, Told, ToldNow
<1>3. QED BY <1>1, <1>2 DEF NoticeInv

\* With no fault, nothing is left over of an attempt that was not marked.
LEMMA InvNotices == NoticeInv => NoticesCounted
<1> SUFFICES ASSUME NoticeInv, NEW c \in Certs
             PROVE  /\ \A h \in Channels : told[c][h] <= 1 + faults
                    /\ notified[c] => \E h \in Channels : told[c][h] > 0
                    /\ faults = 0 /\ ~notified[c] /\ (\E h \in Channels : told[c][h] > 0) =>
                         pc = "tell" /\ cur = c /\ delivered
  BY DEF NoticesCounted
<1>1. Told(c) /\ TablesOK BY TypeParts DEF NoticeInv
<1>2. QED BY <1>1 DEF Told, ToldNow, TablesOK

\* A step that tells nobody, and after which nobody is being told.
LEMMA QuietStep ==
    ASSUME NoticeInv, TypeOK', Due', UNCHANGED told, faults' >= faults,
           \A c \in Certs : notified'[c] = notified[c],
           faults' > faults \/ (pc = "tell" => ~delivered),
           pc' = "tell" => ~delivered'
    PROVE  NoticeInv'
<1> USE TypeParts DEF NoticeInv, TablesOK
<1> SUFFICES ASSUME NEW c \in Certs PROVE Told(c)' OBVIOUS
<1>1. Told(c) OBVIOUS
<1>2. faults \in Nat /\ faults' \in Nat /\ \A h \in Channels : told[c][h] \in Nat
  BY DEF TypeOK
<1>3. ASSUME NEW h \in Channels
      PROVE  /\ told'[c][h] <= 1 + faults'
             /\ ~notified'[c] /\ ~ToldNow(c, h)' => told'[c][h] <= faults'
  BY <1>1, <1>2 DEF Told, ToldNow
<1>4. notified'[c] => \E h \in Channels : told'[c][h] > 0 BY <1>1 DEF Told
<1>5. QED BY <1>3, <1>4 DEF Told

LEMMA JobNotices ==
    ASSUME NoticeInv, Job
    PROVE  NoticeInv'
<1> USE TypeParts DEF NoticeInv
<1>0. TypeOK' /\ faults' = faults /\ faults \in Nat /\ notified \in [Certs -> BOOLEAN]
  <2>1. TypeOK' BY StepType DEF Next
  <2>2. faults' = faults
    BY DEF Job, Start, CreateSettings, List, GiveUp, Mark, LogNotified, ListCas, End, Warn, Tell,
       WarnCa
  <2>3. QED BY <2>1, <2>2 DEF TablesOK
<1>1. CASE Start \/ CreateSettings \/ GiveUp \/ LogNotified \/ ListCas \/ End
  <2>1. UNCHANGED <<told, notified>> /\ (pc = "tell" => ~delivered) /\ pc' # "tell"
    BY <1>1 DEF Start, CreateSettings, GiveUp, LogNotified, ListCas, End, EndRun
  <2>2. Due'
    BY <1>1 DEF Due, Start, CreateSettings, GiveUp, LogNotified, ListCas, End, EndRun
  <2>3. QED BY <1>0, <2>1, <2>2, QuietStep
<1>2. CASE List
  <2>1. UNCHANGED <<told, notified>> /\ pc = "list" /\ pc' = "certs" BY <1>2 DEF List
  <2>2. Due' BY <1>0, <1>2 DEF Due, List
  <2>3. QED BY <1>0, <2>1, <2>2, QuietStep
<1>3. ASSUME NEW c \in Certs, Warn(c) PROVE NoticeInv'
  <2>1. UNCHANGED <<told, notified>> /\ pc = "certs" /\ (pc' = "tell" => ~delivered')
    BY <1>3 DEF Warn
  <2>2. Due' BY <1>3 DEF Due, Warn
  <2>3. QED BY <1>0, <2>1, <2>2, QuietStep
<1>4. ASSUME NEW a \in Authorities, WarnCa(a) PROVE NoticeInv'
  <2>1. UNCHANGED <<told, notified>> /\ pc = "cas" /\ pc' = "cas" BY <1>4 DEF WarnCa
  <2>2. Due' BY <2>1 DEF Due
  <2>3. QED BY <1>0, <2>1, <2>2, QuietStep
<1>5. CASE Mark
  <2>1. /\ pc = "tell" /\ delivered /\ pc' = "logNotified" /\ cur \in Certs
        /\ notified' = [notified EXCEPT ![cur] = TRUE] /\ UNCHANGED <<told, cur, batch, done>>
    BY <1>5, ConstantsAssumption DEF Mark, JobOK
  <2>2. Due' BY <1>0, <2>1 DEF Due, JobOK
  <2>3. ASSUME NEW c \in Certs PROVE Told(c)'
    <3>1. Told(c) OBVIOUS
    <3>2. c # cur => notified'[c] = notified[c] BY <1>0, <2>1
    <3>3. notified'[cur] BY <1>0, <2>1
    <3>4. QED BY <1>0, <2>1, <3>1, <3>2, <3>3 DEF Told, ToldNow
  <2>4. QED BY <1>0, <2>2, <2>3
<1>6. ASSUME NEW h \in Channels, Tell(h) PROVE NoticeInv'
  <2>1. /\ pc = "tell" /\ pc' = "tell" /\ h \in left /\ left' = left \ {h}
        /\ UNCHANGED <<notified, cur, batch, done>> /\ cur \in Certs
    BY <1>6, ConstantsAssumption DEF Tell, JobOK
  <2>2. Due' BY <2>1 DEF Due
  <2>3. CASE h \notin working
    <3>1. UNCHANGED <<told, delivered>> BY <1>6, <2>3 DEF Tell
    <3>2. ASSUME NEW c \in Certs, NEW g \in Channels PROVE ToldNow(c, g) => ToldNow(c, g)'
      BY <2>1, <3>1 DEF ToldNow
    <3>3. \A c \in Certs : Told(c)' BY <1>0, <2>1, <3>1, <3>2 DEF Told
    <3>4. QED BY <1>0, <2>2, <3>3
  <2>4. CASE h \in working
    <3>1. delivered' /\ told' = [told EXCEPT ![cur][h] = @ + 1] BY <1>6, <2>4 DEF Tell
    <3>2. told \in [Certs -> [Channels -> Nat]] BY DEF TablesOK
    <3>3. /\ told'[cur][h] = told[cur][h] + 1 /\ told[cur][h] \in Nat
          /\ \A c \in Certs, g \in Channels : c # cur \/ g # h => told'[c][g] = told[c][g]
      BY <2>1, <3>1, <3>2
    <3>4. told[cur][h] <= faults BY <2>1 DEF Due, Told, ToldNow
    <3>5. ASSUME NEW c \in Certs PROVE Told(c)'
      <4>1. Told(c) OBVIOUS
      <4>2. CASE c # cur
        BY <1>0, <2>1, <3>3, <4>1, <4>2 DEF Told, ToldNow
      <4>3. CASE c = cur
        <5>1. ASSUME NEW g \in Channels
              PROVE  /\ told'[c][g] <= 1 + faults'
                     /\ ~notified'[c] /\ ~ToldNow(c, g)' => told'[c][g] <= faults'
          <6>1. CASE g = h BY <1>0, <2>1, <3>1, <3>3, <3>4, <4>3, <6>1 DEF ToldNow
          <6>2. CASE g # h BY <1>0, <2>1, <3>1, <3>3, <4>1, <4>3, <6>2 DEF Told, ToldNow
          <6>3. QED BY <6>1, <6>2
        <5>2. told'[c][h] > 0 BY <3>3, <4>3
        <5>3. QED BY <5>1, <5>2 DEF Told
      <4>4. QED BY <4>2, <4>3
    <3>6. QED BY <1>0, <2>2, <3>5
  <2>5. QED BY <2>3, <2>4
<1>7. QED BY <1>1, <1>2, <1>3, <1>4, <1>5, <1>6 DEF Job

LEMMA StepNotices ==
    ASSUME NoticeInv, [Next]_vars
    PROVE  NoticeInv'
<1> USE TypeParts DEF NoticeInv, job, world
<1>0. TypeOK' /\ faults \in Nat BY StepType DEF TablesOK
<1>1. ASSUME NEW h \in Channels, TellUnconfirmed(h) PROVE NoticeInv'
  <2>1. /\ pc = "tell" /\ h \in left /\ left' = left \ {h} /\ faults' = faults + 1
        /\ UNCHANGED <<notified, pc, cur, batch, done, delivered>> /\ cur \in Certs
        /\ told' = [told EXCEPT ![cur][h] = @ + 1]
    BY <1>1, ConstantsAssumption DEF TellUnconfirmed, JobOK
  <2>2. Due' BY <2>1 DEF Due
  <2>3. told \in [Certs -> [Channels -> Nat]] BY DEF TablesOK
  <2>4. /\ told'[cur][h] = told[cur][h] + 1
        /\ \A c \in Certs, g \in Channels : c # cur \/ g # h => told'[c][g] = told[c][g]
    BY <2>1, <2>3
  <2>5. told[cur][h] <= faults BY <2>1 DEF Due, Told, ToldNow
  <2>6. ASSUME NEW c \in Certs PROVE Told(c)'
    <3>1. ASSUME NEW g \in Channels
          PROVE  told'[c][g] <= faults' /\ (told[c][g] > 0 => told'[c][g] > 0)
      <4>1. told[c][g] \in Nat /\ told[c][g] <= 1 + faults BY <2>3 DEF Told
      <4>2. CASE c = cur /\ g = h BY <1>0, <2>1, <2>4, <2>5, <4>1, <4>2
      <4>3. CASE c # cur \/ g # h BY <1>0, <2>1, <2>4, <4>1, <4>3
      <4>4. QED BY <4>2, <4>3
    <3>2. faults' \in Nat /\ \A g \in Channels : told'[c][g] \in Nat BY <1>0, <2>1 DEF TablesOK
    <3>3. QED BY <2>1, <3>1, <3>2 DEF Told
  <2>7. QED BY <1>0, <2>2, <2>6
<1>2. CASE CommitFails \/ Restart
  <2>1. pc' = "idle" /\ UNCHANGED <<told, notified>> /\ faults' = faults + 1
    BY <1>2 DEF CommitFails, Restart, EndRun
  <2>2. Due' BY <2>1 DEF Due
  <2>3. QED BY <1>0, <2>1, <2>2, QuietStep
<1>3. CASE \/ AdminBegin \/ AdminCreate \/ Environment \/ UNCHANGED vars
           \/ \E on, off \in SUBSET Channels : AdminSet(on, off)
  <2>1. UNCHANGED <<told, notified, faults, job>>
    BY <1>3 DEF AdminBegin, AdminCreate, AdminSet, Environment, vars
  <2>2. Due' BY <2>1 DEF Due
  <2>3. \A c \in Certs : Told(c)' BY <2>1 DEF Told, ToldNow
  <2>4. QED BY <1>0, <2>2, <2>3
<1>4. QED BY <1>1, <1>2, <1>3, JobNotices DEF Next

\* An owner is told of a certificate over a channel at most once more often than
\* something fails, and is told of every certificate that is marked; while nothing has
\* failed, each one that the owner was told of is marked, or about to be.
THEOREM NoticesAlwaysCounted == Spec => []NoticesCounted
<1>1. NoticeInv /\ [Next]_vars => NoticeInv' BY StepNotices
<1>2. QED BY InitNotices, InvNotices, <1>1, PTL DEF Spec
=============================================================================
