----------------------------- MODULE BootProofs -----------------------------
(* What TLAPS proves of Boot, for any threads, key pairs and number of     *)
(* requests, crashes and losses of the master key's file.                  *)
EXTENDS Boot, TLAPS

Locals ==
    [pair : Files, row : {None} \cup Row, key : {None} \cup Keys, done : Nat,
     then : {"-", "store", "unwrap", "unwrapCa", "get", "activate"}]

KeySteps == {"key", "createKey", "writeKey"}

PairOf(r) == [crt |-> r.crt, key |-> r.key]

\* Types alone.
DiskOK ==
    /\ version \in 0 .. Len(Revisions) /\ ddl \in Nat
    /\ keyFile \in {None, Empty} \cup Keys /\ tls \in {None} \cup Row
    /\ inter \in {None} \cup Keys /\ admin \in {"none", "made", "logged"} /\ files \in Files

MemoryOK ==
    served \in Files /\ vault \in BOOLEAN /\ armed \in BOOLEAN /\ unarmed \in BOOLEAN

CountersOK ==
    /\ made \in Nat /\ issued \subseteq Issuable /\ begun \in Nat /\ faults \in Nat
    /\ losses \in Nat /\ overlapped \in BOOLEAN

PlacesOK ==
    /\ pc \in [Actors -> {"down", "up", "idle"} \cup Starting \cup Working]
    /\ my \in [Actors -> Locals]

Types == DiskOK /\ MemoryOK /\ CountersOK /\ PlacesOK

\* Actor a is at step l, or loads the master key for it.
For(a, l) == pc[a] = l \/ (pc[a] \in KeySteps /\ my[a].then = l)

\* What a start has done by each of its steps.
MainOK ==
    /\ pc[Main] \in {"down", "up"} \cup Starting
    /\ pc[Main] \in KeySteps => my[Main].then \in {"store", "unwrap", "unwrapCa"}
    /\ pc[Main] \in {"store", "unwrap", "unwrapCa"} => my[Main].key \in Keys
    /\ For(Main, "unwrap") \/ pc[Main] \in {"writeCrt", "writePem"} =>
         tls # None /\ my[Main].row = tls
    /\ pc[Main] = "writePem" => files.crt = tls.crt
    /\ pc[Main] = "load" => tls # None /\ files = PairOf(tls)
    /\ For(Main, "unwrapCa") \/ pc[Main] \in {"admin", "logAdmin", "vault", "caches"} =>
         tls # None /\ served = PairOf(tls)
    /\ pc[Main] = "up" => tls # None /\ served \in [crt : Pairs, key : Pairs]

\* What a request has at each of its steps.
ThreadOK(t) ==
    /\ pc[t] \in {"idle"} \cup Working
    /\ pc[t] # "idle" => pc[Main] = "up"
    /\ pc[t] \in KeySteps => my[t].then \in {"get", "activate", "unwrapCa"}
    /\ pc[t] \in {"get", "put", "activate", "unwrapCa"} => my[t].key \in Keys
    /\ For(t, "get") \/ pc[t] = "put" => my[t].pair.crt \in Pairs /\ my[t].pair.key \in Pairs
    /\ my[t].pair.crt = my[t].pair.key

\* The key that an actor works with is that of the file, which only a start makes.
KeyOK(a) ==
    losses = 0 =>
      /\ pc[a] \in {"store", "unwrap", "unwrapCa", "get", "put", "activate"} => my[a].key = keyFile
      /\ pc[a] = "createKey" => a = Main /\ keyFile = None
      /\ pc[a] = "writeKey" => a = Main /\ keyFile = Empty

Inv ==
    /\ Types /\ MainOK
    /\ \A t \in Threads : ThreadOK(t) /\ KeyOK(t)
    /\ KeyOK(Main)
    /\ SecretsUsable /\ ReplacedIsServed

USE ConstantsAssumption DEF Actors
-----------------------------------------------------------------------------
LEMMA FreshOK == Fresh \in Locals /\ Fresh.pair.crt = Fresh.pair.key /\ NoPair \in Files
BY DEF Fresh, Locals, NoPair, Files, Keys, Row

LEMMA InvTypes == Inv => TypeOK
BY DEF Inv, Types, DiskOK, MemoryOK, CountersOK, PlacesOK, MainOK, ThreadOK, TypeOK, Locals

LEMMA InitInv == Init => Inv
<1> SUFFICES ASSUME Init PROVE Inv OBVIOUS
<1>1. Types
  <2>1. Len(Revisions) \in Nat BY DEF Revisions
  <2>2. DiskOK BY <2>1, FreshOK DEF Init, DiskOK
  <2>3. MemoryOK /\ CountersOK BY FreshOK DEF Init, MemoryOK, CountersOK
  <2>4. PlacesOK BY FreshOK DEF Init, PlacesOK
  <2>5. QED BY <2>2, <2>3, <2>4 DEF Types
<1>2. MainOK /\ KeyOK(Main) BY DEF Init, MainOK, KeyOK, KeySteps, For
<1>3. ASSUME NEW t \in Threads PROVE ThreadOK(t) /\ KeyOK(t)
  <2>1. pc[t] = "idle" /\ my[t] = Fresh BY DEF Init
  <2>2. QED BY <2>1, FreshOK DEF ThreadOK, KeyOK, KeySteps, For
<1>4. SecretsUsable /\ ReplacedIsServed BY DEF Init, SecretsUsable, ReplacedIsServed
<1>5. QED BY <1>1, <1>2, <1>3, <1>4 DEF Inv
-----------------------------------------------------------------------------
(* How a step ends *)

LEMMA Stutters ==
    ASSUME Inv, UNCHANGED vars
    PROVE  Inv'
BY DEF Inv, vars, disk, memory, counters, Types, DiskOK, MemoryOK, CountersOK, PlacesOK,
   MainOK, ThreadOK, KeyOK, For, SecretsUsable, ReplacedIsServed

\* What the properties need of a step that leaves the secrets as they are.
Settled == UNCHANGED <<keyFile, tls, inter, losses, overlapped>>

\* The process has ended.
LEMMA Dead ==
    ASSUME Inv, Die, UNCHANGED <<disk, made, issued, begun, losses, overlapped>>,
           faults' \in Nat
    PROVE  Inv'
<1> USE FreshOK DEF Inv, disk
<1>1. /\ pc' = [a \in Actors |-> IF a = Main THEN "down" ELSE "idle"]
      /\ my' = [a \in Actors |-> Fresh]
  BY DEF Die
<1>2. Types'
  <2>1. DiskOK' /\ CountersOK' BY DEF Types, DiskOK, CountersOK
  <2>2. MemoryOK' BY DEF Die, Types, MemoryOK
  <2>3. PlacesOK' BY <1>1 DEF PlacesOK
  <2>4. QED BY <2>1, <2>2, <2>3 DEF Types
<1>3. pc'[Main] = "down" /\ \A t \in Threads : pc'[t] = "idle" /\ my'[t] = Fresh BY <1>1
<1>4. MainOK' /\ KeyOK(Main)' BY <1>3 DEF MainOK, KeyOK, KeySteps, For
<1>5. \A t \in Threads : ThreadOK(t)' /\ KeyOK(t)' BY <1>3 DEF ThreadOK, KeyOK, KeySteps, For
<1>6. SecretsUsable' BY DEF SecretsUsable
<1>7. ReplacedIsServed' BY <1>3 DEF ReplacedIsServed
<1>8. QED BY <1>2, <1>4, <1>5, <1>6, <1>7

\* The start goes on, and there are no requests yet.
LEMMA MainMoves ==
    ASSUME Inv, pc[Main] # "up", Types', Settled, MainOK', KeyOK(Main)',
           \A t \in Threads : pc'[t] = pc[t] /\ my'[t] = my[t],
           pc'[Main] = "up" => served' = PairOf(tls)
    PROVE  Inv'
<1> USE DEF Inv, Settled
<1>1. ASSUME NEW t \in Threads PROVE ThreadOK(t)' /\ KeyOK(t)'
  <2>1. pc[t] = "idle" BY DEF ThreadOK
  <2>2. QED BY <2>1 DEF ThreadOK, KeyOK, KeySteps, For
<1>2. SecretsUsable' BY DEF SecretsUsable
<1>3. ReplacedIsServed' BY DEF ReplacedIsServed, PairOf
<1>4. QED BY <1>1, <1>2, <1>3

\* A request goes on.
LEMMA ThreadMoves ==
    ASSUME Inv, NEW t \in Threads, pc[Main] = "up", Types', Settled, ThreadOK(t)', KeyOK(t)',
           UNCHANGED served, pc'[Main] = pc[Main], my'[Main] = my[Main],
           \A u \in Threads \ {t} : pc'[u] = pc[u] /\ my'[u] = my[u],
           armed => armed', unarmed => unarmed',
           ~unarmed' /\ pc[t] \in {"log", "arm"} => armed' \/ pc'[t] \in {"log", "arm"}
    PROVE  Inv'
<1> USE DEF Inv, Settled
<1>1. ASSUME NEW u \in Threads \ {t} PROVE ThreadOK(u)' /\ KeyOK(u)'
  BY DEF ThreadOK, KeyOK, KeySteps, For
<1>2. MainOK' /\ KeyOK(Main)' BY DEF MainOK, KeyOK, KeySteps, For
<1>3. SecretsUsable' BY DEF SecretsUsable
<1>4. ReplacedIsServed' BY DEF ReplacedIsServed
<1>5. QED BY <1>1, <1>2, <1>3, <1>4

Labels == {"down", "up", "idle"} \cup Starting \cup Working

\* One actor moves.
LEMMA Moves ==
    ASSUME Types, NEW a \in Actors, NEW l \in Labels, NEW mine \in Locals,
           Goto(a, l), my' = [my EXCEPT ![a] = mine], DiskOK', MemoryOK', CountersOK'
    PROVE  /\ Types' /\ pc'[a] = l /\ my'[a] = mine
           /\ \A b \in Actors \ {a} : pc'[b] = pc[b] /\ my'[b] = my[b]
<1>1. pc' = [pc EXCEPT ![a] = l] BY DEF Goto
<1>2. pc \in [Actors -> Labels] /\ my \in [Actors -> Locals] BY DEF Types, PlacesOK, Labels
<1>3. pc' \in [Actors -> Labels] /\ my' \in [Actors -> Locals] BY <1>1, <1>2
<1>4. QED BY <1>1, <1>2, <1>3 DEF Types, PlacesOK, Labels

\* A thread's exception.
LEMMA Failed ==
    ASSUME Inv, NEW t \in Threads, pc[Main] = "up", Goto(t, "idle"), my' = [my EXCEPT ![t] = Fresh],
           UNCHANGED <<disk, served, vault, armed, made, issued, begun, losses, overlapped>>,
           faults' \in Nat, unarmed' \in BOOLEAN, unarmed => unarmed',
           ~unarmed' => pc[t] \notin {"log", "arm"}
    PROVE  Inv'
<1> USE FreshOK DEF Inv, disk
<1>1. DiskOK' /\ MemoryOK' /\ CountersOK' BY DEF Types, DiskOK, MemoryOK, CountersOK
<1>2. /\ Types' /\ pc'[t] = "idle" /\ my'[t] = Fresh
      /\ \A b \in Actors \ {t} : pc'[b] = pc[b] /\ my'[b] = my[b]
  BY <1>1, Moves DEF Labels
<1>3. ThreadOK(t)' /\ KeyOK(t)' BY <1>2 DEF ThreadOK, KeyOK, KeySteps, For
<1>4. QED BY <1>2, <1>3, ThreadMoves DEF Settled
-----------------------------------------------------------------------------
(* The master key *)

\* While requests run there is a key, unless its file was lost.
LEMMA KeyThere ==
    ASSUME Inv, pc[Main] = "up", losses = 0
    PROVE  keyFile \in Keys
BY DEF Inv, MainOK, SecretsUsable, Types, DiskOK, Row

\* A start that makes one finds nothing that is wrapped with another.
LEMMA NothingWrapped ==
    ASSUME Inv, losses = 0, keyFile \notin Keys
    PROVE  tls = None /\ inter = None
BY DEF Inv, SecretsUsable, Types, DiskOK, Row

LEMMA LoadKeyInv ==
    ASSUME Inv, NEW a \in Actors, LoadKey(a)
    PROVE  Inv'
<1> USE DEF disk, memory, counters
<1>1. Types /\ my[a] \in Locals BY DEF Inv, Types, PlacesOK
<1>2. CASE keyFile = None
  <2>1. Goto(a, "createKey") /\ UNCHANGED <<my, memory, disk, counters>> BY <1>2 DEF LoadKey
  <2>2. DiskOK' /\ MemoryOK' /\ CountersOK' BY <1>1, <2>1 DEF Types, DiskOK, MemoryOK, CountersOK
  <2>3. my' = [my EXCEPT ![a] = my[a]] BY <1>1, <2>1 DEF Types, PlacesOK
  <2>4. /\ Types' /\ pc'[a] = "createKey" /\ my'[a] = my[a]
        /\ \A b \in Actors \ {a} : pc'[b] = pc[b] /\ my'[b] = my[b]
    BY <1>1, <2>1, <2>2, <2>3, Moves DEF Labels, Starting
  <2>5. CASE a = Main
    <3>1. MainOK' /\ KeyOK(Main)'
      BY <1>2, <2>1, <2>4, <2>5 DEF Inv, LoadKey, MainOK, KeyOK, For, KeySteps, Starting
    <3>2. QED BY <2>1, <2>4, <2>5, <3>1, MainMoves DEF LoadKey, Settled
  <2>6. CASE a \in Threads
    <3>1. pc[Main] = "up" BY <2>6 DEF Inv, ThreadOK, LoadKey
    <3>2. losses # 0 BY <1>2, <3>1, KeyThere DEF Keys
    <3>3. ThreadOK(a)' /\ KeyOK(a)'
      BY <2>1, <2>4, <2>6, <3>1, <3>2 DEF Inv, LoadKey, ThreadOK, KeyOK, For, KeySteps, Working
    <3>4. QED BY <2>1, <2>4, <2>6, <3>1, <3>3, ThreadMoves DEF LoadKey, Settled
  <2>7. QED BY <2>5, <2>6
<1>3. CASE keyFile = Empty
  <2>1. Raise(a) /\ UNCHANGED <<disk, counters>> BY <1>3 DEF LoadKey
  <2>2. faults' \in Nat BY <1>1, <2>1 DEF Types, CountersOK
  <2>3. CASE a = Main BY <2>1, <2>2, <2>3, Dead DEF Raise
  <2>4. CASE a \in Threads
    <3>1. pc[Main] = "up" /\ pc[a] = "key" BY <2>4 DEF Inv, ThreadOK, LoadKey
    <3>2. Goto(a, "idle") /\ my' = [my EXCEPT ![a] = Fresh] /\ UNCHANGED memory
      BY <2>1, <2>4 DEF Raise
    <3>3. QED BY <1>1, <2>1, <2>2, <2>4, <3>1, <3>2, Failed DEF Types, MemoryOK
  <2>5. QED BY <2>3, <2>4
<1>4. CASE keyFile \in Keys
  <2> DEFINE mine == [my[a] EXCEPT !.key = keyFile]
  <2>1. keyFile # None /\ keyFile # Empty BY <1>4 DEF Keys
  <2>2. Goto(a, my[a].then) /\ my' = [my EXCEPT ![a] = mine] /\ UNCHANGED <<memory, disk, counters>>
    BY <2>1 DEF LoadKey
  <2>3. /\ mine \in Locals /\ mine.key = keyFile
        /\ mine.pair = my[a].pair /\ mine.row = my[a].row /\ mine.then = my[a].then
    BY <1>1, <1>4 DEF Locals
  <2> HIDE DEF mine
  <2>4. DiskOK' /\ MemoryOK' /\ CountersOK' BY <1>1, <2>2 DEF Types, DiskOK, MemoryOK, CountersOK
  <2>5. CASE a = Main
    <3>1. my[a].then \in {"store", "unwrap", "unwrapCa"}
      BY <2>5 DEF Inv, MainOK, LoadKey, KeySteps
    <3>2. my[a].then \in Labels BY <3>1 DEF Labels, Starting
    <3>3. /\ Types' /\ pc'[a] = my[a].then /\ my'[a] = mine
          /\ \A b \in Actors \ {a} : pc'[b] = pc[b] /\ my'[b] = my[b]
      BY <1>1, <2>2, <2>3, <2>4, <3>2, Moves
    <3>4. pc[Main] = "key" BY <2>5 DEF LoadKey
    <3>5. MainOK'
      BY <1>4, <2>2, <2>3, <2>5, <3>1, <3>3, <3>4 DEF Inv, MainOK, For, KeySteps, Starting
    <3>6. KeyOK(Main)' BY <2>2, <2>3, <2>5, <3>1, <3>3 DEF KeyOK
    <3>7. pc[Main] # "up" /\ pc'[Main] # "up" BY <2>5, <3>1, <3>3, <3>4
    <3>8. QED BY <2>2, <2>5, <3>3, <3>5, <3>6, <3>7, MainMoves DEF Settled
  <2>6. CASE a \in Threads
    <3>1. pc[Main] = "up" /\ my[a].then \in {"get", "activate", "unwrapCa"} /\ pc[a] = "key"
      BY <2>6 DEF Inv, ThreadOK, LoadKey, KeySteps
    <3>2. my[a].then \in Labels BY <3>1 DEF Labels, Working
    <3>3. /\ Types' /\ pc'[a] = my[a].then /\ my'[a] = mine
          /\ \A b \in Actors \ {a} : pc'[b] = pc[b] /\ my'[b] = my[b]
      BY <1>1, <2>2, <2>3, <2>4, <3>2, Moves
    <3>4. ThreadOK(a)'
      BY <1>4, <2>3, <2>6, <3>1, <3>3 DEF Inv, ThreadOK, For, KeySteps, Working
    <3>5. KeyOK(a)' BY <2>2, <2>3, <3>1, <3>3 DEF KeyOK
    <3>6. QED BY <2>2, <2>6, <3>1, <3>3, <3>4, <3>5, ThreadMoves DEF Settled
  <2>7. QED BY <2>5, <2>6
<1>5. QED BY <1>1, <1>2, <1>3, <1>4 DEF Types, DiskOK

LEMMA CreateKeyInv ==
    ASSUME Inv, NEW a \in Actors, CreateKeyFile(a)
    PROVE  Inv'
<1>1. Types /\ my[a] \in Locals BY DEF Inv, Types, PlacesOK
<1>2. /\ pc[a] = "createKey" /\ keyFile' = Empty /\ Goto(a, "writeKey")
      /\ UNCHANGED <<version, ddl, tls, inter, admin, files, my, memory, counters>>
  BY DEF CreateKeyFile
<1>3. DiskOK' /\ MemoryOK' /\ CountersOK'
  BY <1>1, <1>2 DEF Types, DiskOK, MemoryOK, CountersOK, memory, counters
<1>4. my' = [my EXCEPT ![a] = my[a]] BY <1>1, <1>2 DEF Types, PlacesOK
<1>5. /\ Types' /\ pc'[a] = "writeKey" /\ my'[a] = my[a]
      /\ \A b \in Actors \ {a} : pc'[b] = pc[b] /\ my'[b] = my[b]
  BY <1>1, <1>2, <1>3, <1>4, Moves DEF Labels, Starting
<1>6. CASE a = Main
  <2>1. \A t \in Threads : pc[t] = "idle" BY <1>2, <1>6 DEF Inv, ThreadOK
  <2>2. MainOK'
    BY <1>2, <1>5, <1>6 DEF Inv, MainOK, For, KeySteps, Starting, memory
  <2>3. ASSUME NEW t \in Threads PROVE ThreadOK(t)' /\ KeyOK(t)'
    BY <1>5, <1>6, <2>1, <2>3 DEF Inv, ThreadOK, KeyOK, For, KeySteps
  <2>4. KeyOK(Main)' BY <1>2, <1>5, <1>6 DEF KeyOK
  <2>5. losses' = losses /\ UNCHANGED <<tls, inter, overlapped>> BY <1>2 DEF counters
  <2>6. losses = 0 => tls = None /\ inter = None
    <3>1. losses = 0 => keyFile = None BY <1>2, <1>6 DEF Inv, KeyOK
    <3>2. None \notin Keys BY DEF Keys
    <3>3. QED BY <3>1, <3>2, NothingWrapped
  <2>7. SecretsUsable' BY <2>5, <2>6 DEF Inv, SecretsUsable
  <2>8. ReplacedIsServed' BY <1>5, <1>6 DEF ReplacedIsServed
  <2>9. QED BY <1>5, <2>2, <2>3, <2>4, <2>7, <2>8 DEF Inv
<1>7. CASE a \in Threads
  <2>1. pc[Main] = "up" /\ losses # 0 BY <1>2, <1>7 DEF Inv, ThreadOK, KeyOK
  <2>2. ThreadOK(a)' /\ losses' # 0
    BY <1>2, <1>5, <1>7, <2>1 DEF Inv, ThreadOK, For, KeySteps, Working, counters
  <2>3. ASSUME NEW u \in Threads \ {a} PROVE ThreadOK(u)'
    BY <1>5, <1>7, <2>1 DEF Inv, ThreadOK, For, KeySteps
  <2>4. MainOK' BY <1>2, <1>5, <1>7, <2>1 DEF Inv, MainOK, For, KeySteps, memory
  <2>5. \A b \in Actors : KeyOK(b)' BY <2>2 DEF KeyOK
  <2>6. SecretsUsable' BY <1>2, <2>2 DEF Inv, SecretsUsable, counters
  <2>7. ReplacedIsServed' BY <1>2, <1>5, <1>7 DEF Inv, ReplacedIsServed, memory, counters
  <2>8. QED BY <1>5, <2>2, <2>3, <2>4, <2>5, <2>6, <2>7 DEF Inv
<1>8. QED BY <1>6, <1>7

LEMMA WriteKeyInv ==
    ASSUME Inv, NEW a \in Actors, WriteKeyFile(a)
    PROVE  Inv'
<1>1. Types /\ my[a] \in Locals /\ my \in [Actors -> Locals] BY DEF Inv, Types, PlacesOK
<1> DEFINE mine == [my[a] EXCEPT !.key = made']
<1>2. /\ pc[a] = "writeKey" /\ made' = made + 1 /\ Goto(a, my[a].then)
      /\ keyFile' = IF keyFile = None THEN None ELSE made'
      /\ my' = [my EXCEPT ![a] = mine]
      /\ UNCHANGED <<version, ddl, tls, inter, admin, files, memory, issued, begun, faults,
                     losses, overlapped>>
  BY <1>1 DEF WriteKeyFile
<1>3. made' \in Keys /\ made' \in Nat BY <1>1, <1>2 DEF Types, CountersOK, Keys
<1>4. /\ mine \in Locals /\ mine.key = made'
      /\ mine.pair = my[a].pair /\ mine.row = my[a].row /\ mine.then = my[a].then
  BY <1>1, <1>3 DEF Locals
<1> HIDE DEF mine
<1>5. DiskOK' /\ MemoryOK' /\ CountersOK'
  BY <1>1, <1>2, <1>3 DEF Types, DiskOK, MemoryOK, CountersOK, memory
<1>6. CASE a = Main
  <2>1. \A t \in Threads : pc[t] = "idle" BY <1>2, <1>6 DEF Inv, ThreadOK
  <2>2. my[a].then \in {"store", "unwrap", "unwrapCa"}
    BY <1>2, <1>6 DEF Inv, MainOK, KeySteps
  <2>3. my[a].then \in Labels BY <2>2 DEF Labels, Starting
  <2>4. /\ Types' /\ pc'[a] = my[a].then /\ my'[a] = mine
        /\ \A b \in Actors \ {a} : pc'[b] = pc[b] /\ my'[b] = my[b]
    BY <1>1, <1>2, <1>4, <1>5, <2>3, Moves
  <2>5. MainOK'
    BY <1>2, <1>3, <1>4, <1>6, <2>2, <2>4 DEF Inv, MainOK, For, KeySteps, Starting, memory
  <2>6. ASSUME NEW t \in Threads PROVE ThreadOK(t)' /\ KeyOK(t)'
    BY <1>6, <2>1, <2>4, <2>6 DEF Inv, ThreadOK, KeyOK, For, KeySteps
  <2>7. losses = 0 => keyFile = Empty BY <1>2, <1>6 DEF Inv, KeyOK
  <2>8. losses = 0 => keyFile' = made' BY <1>2, <2>7
  <2>9. KeyOK(Main)' BY <1>2, <1>4, <1>6, <2>2, <2>4, <2>8 DEF KeyOK
  <2>10. losses = 0 => tls = None /\ inter = None
    <3>1. Empty \notin Keys BY DEF Keys
    <3>2. QED BY <2>7, <3>1, NothingWrapped
  <2>11. SecretsUsable' BY <1>2, <2>10 DEF Inv, SecretsUsable
  <2>12. ReplacedIsServed' BY <1>6, <2>2, <2>4 DEF ReplacedIsServed
  <2>13. QED BY <2>4, <2>5, <2>6, <2>9, <2>11, <2>12 DEF Inv
<1>7. CASE a \in Threads
  <2>1. pc[Main] = "up" /\ losses # 0 BY <1>2, <1>7 DEF Inv, ThreadOK, KeyOK
  <2>2. my[a].then \in {"get", "activate", "unwrapCa"}
    BY <1>2, <1>7 DEF Inv, ThreadOK, KeySteps
  <2>3. my[a].then \in Labels BY <2>2 DEF Labels, Working
  <2>4. /\ Types' /\ pc'[a] = my[a].then /\ my'[a] = mine
        /\ \A b \in Actors \ {a} : pc'[b] = pc[b] /\ my'[b] = my[b]
    BY <1>1, <1>2, <1>4, <1>5, <2>3, Moves
  <2>5. ThreadOK(a)'
    BY <1>2, <1>3, <1>4, <1>7, <2>1, <2>2, <2>4 DEF Inv, ThreadOK, For, KeySteps, Working
  <2>6. ASSUME NEW u \in Threads \ {a} PROVE ThreadOK(u)'
    BY <1>7, <2>1, <2>4 DEF Inv, ThreadOK, For, KeySteps
  <2>7. MainOK' BY <1>2, <1>7, <2>1, <2>4 DEF Inv, MainOK, For, KeySteps, memory
  <2>8. \A b \in Actors : KeyOK(b)' BY <1>2, <2>1 DEF KeyOK
  <2>9. SecretsUsable' BY <1>2, <2>1 DEF Inv, SecretsUsable
  <2>10. ReplacedIsServed'
    BY <1>2, <1>7, <2>2, <2>4 DEF Inv, ReplacedIsServed, memory
  <2>11. QED BY <2>4, <2>5, <2>6, <2>7, <2>8, <2>9, <2>10 DEF Inv
<1>8. QED BY <1>6, <1>7
-----------------------------------------------------------------------------
(* The start *)

\* A step of the start that makes no secret.
LEMMA MainGoes ==
    ASSUME Inv, pc[Main] # "up", NEW l \in Labels, NEW mine \in Locals,
           Goto(Main, l), my' = [my EXCEPT ![Main] = mine],
           DiskOK', MemoryOK', Settled, UNCHANGED counters,
           pc'[Main] = l /\ my'[Main] = mine => MainOK' /\ KeyOK(Main)',
           l = "up" => served' = PairOf(tls)
    PROVE  Inv'
<1>1. Types /\ CountersOK' BY DEF Inv, Types, CountersOK, counters
<1>2. /\ Types' /\ pc'[Main] = l /\ my'[Main] = mine
      /\ \A b \in Actors \ {Main} : pc'[b] = pc[b] /\ my'[b] = my[b]
  BY <1>1, Moves
<1>3. QED BY <1>2, MainMoves

LEMMA MainParts ==
    ASSUME Inv
    PROVE  /\ DiskOK /\ MemoryOK /\ MainOK /\ KeyOK(Main)
           /\ my[Main] \in Locals /\ my = [my EXCEPT ![Main] = my[Main]]
           /\ pc = [pc EXCEPT ![Main] = pc[Main]] /\ faults \in Nat
BY DEF Inv, Types, PlacesOK, CountersOK

\* The schema.
LEMMA SchemaInv ==
    ASSUME Inv, Start \/ Create \/ Stamp \/ Migrated
    PROVE  Inv'
<1> USE MainParts
<1>1. CASE Start
  <2>1. /\ pc[Main] = "down" /\ Goto(Main, "migrate") /\ UNCHANGED <<disk, my, memory, counters>>
    BY <1>1 DEF Start
  <2>2. pc'[Main] = "migrate" => MainOK' /\ KeyOK(Main)'
    BY DEF MainOK, KeyOK, For, KeySteps, Starting
  <2>3. DiskOK' /\ MemoryOK' /\ Settled
    BY <2>1 DEF DiskOK, MemoryOK, Settled, disk, memory, counters
  <2>4. QED BY <2>1, <2>2, <2>3, MainGoes DEF Labels, Starting
<1>2. CASE Create
  <2>1. pc[Main] = "migrate" /\ UNCHANGED <<version, keyFile, tls, inter, admin, files, counters>>
    BY <1>2 DEF Create
  <2>2. CASE my[Main].done < ddl
    <3>1. Die /\ ddl' = ddl BY <1>2, <2>2 DEF Create, Raise
    <3>2. QED BY <2>1, <3>1, Dead DEF disk, counters
  <2>3. CASE ~(my[Main].done < ddl)
    <3> DEFINE mine == [my[Main] EXCEPT !.done = @ + 1]
    <3>1. ddl' = ddl + 1 /\ my' = [my EXCEPT ![Main] = mine] /\ UNCHANGED <<pc, memory>>
      BY <1>2, <2>3 DEF Create
    <3>2. mine \in Locals BY DEF Locals
    <3> HIDE DEF mine
    <3>3. Goto(Main, "migrate") BY <2>1, <3>1 DEF Goto
    <3>4. pc'[Main] = "migrate" => MainOK' /\ KeyOK(Main)'
      BY DEF MainOK, KeyOK, For, KeySteps, Starting
    <3>5. DiskOK' /\ MemoryOK' /\ Settled
      BY <2>1, <3>1 DEF DiskOK, MemoryOK, Settled, memory, counters
    <3>6. QED BY <2>1, <3>1, <3>2, <3>3, <3>4, <3>5, MainGoes DEF Labels, Starting
  <2>4. QED BY <2>2, <2>3
<1>3. CASE Stamp
  <2> DEFINE mine == [my[Main] EXCEPT !.done = 0]
  <2>1. /\ pc[Main] = "migrate" /\ version < Len(Revisions) /\ version' = version + 1 /\ ddl' = 0
        /\ my' = [my EXCEPT ![Main] = mine]
        /\ UNCHANGED <<keyFile, tls, inter, admin, files, pc, memory, counters>>
    BY <1>3 DEF Stamp
  <2>2. mine \in Locals BY DEF Locals
  <2> HIDE DEF mine
  <2>3. Goto(Main, "migrate") BY <2>1 DEF Goto
  <2>4. pc'[Main] = "migrate" => MainOK' /\ KeyOK(Main)'
    BY DEF MainOK, KeyOK, For, KeySteps, Starting
  <2>5. Len(Revisions) \in Nat BY DEF Revisions
  <2>6. version' \in 0 .. Len(Revisions) BY <2>1, <2>5 DEF DiskOK
  <2>7. DiskOK' /\ MemoryOK' /\ Settled
    BY <2>1, <2>6 DEF DiskOK, MemoryOK, Settled, memory, counters
  <2>8. QED BY <2>1, <2>2, <2>3, <2>4, <2>7, MainGoes DEF Labels, Starting
<1>4. CASE Migrated
  <2>1. /\ pc[Main] = "migrate" /\ Goto(Main, "ensure")
        /\ UNCHANGED <<disk, my, memory, counters>>
    BY <1>4 DEF Migrated
  <2>2. pc'[Main] = "ensure" => MainOK' /\ KeyOK(Main)'
    BY DEF MainOK, KeyOK, For, KeySteps, Starting
  <2>3. DiskOK' /\ MemoryOK' /\ Settled
    BY <2>1 DEF DiskOK, MemoryOK, Settled, disk, memory, counters
  <2>4. QED BY <2>1, <2>2, <2>3, MainGoes DEF Labels, Starting
<1>5. QED BY <1>1, <1>2, <1>3, <1>4

\* The pre-flight step: the pair that is written is that of the row.
LEMMA PreflightInv ==
    ASSUME Inv, Ensure \/ Store \/ Unwrap \/ WriteCrt \/ WritePem
    PROVE  Inv'
<1> USE MainParts
<1>1. CASE Ensure
  <2>1. pc[Main] = "ensure" /\ UNCHANGED <<disk, memory, counters>> /\ Goto(Main, "key")
    BY <1>1 DEF Ensure, KeyThen
  <2>2. DiskOK' /\ MemoryOK' /\ Settled
    BY <2>1 DEF DiskOK, MemoryOK, Settled, disk, memory, counters
  <2>3. CASE tls = None
    <3> DEFINE mine == [my[Main] EXCEPT !.then = "store"]
    <3>1. my' = [my EXCEPT ![Main] = mine] BY <1>1, <2>3 DEF Ensure, KeyThen
    <3>2. mine \in Locals /\ mine.then = "store" BY DEF Locals
    <3> HIDE DEF mine
    <3>3. pc'[Main] = "key" /\ my'[Main] = mine => MainOK' /\ KeyOK(Main)'
      BY <3>2 DEF MainOK, KeyOK, For, KeySteps, Starting
    <3>4. QED BY <2>1, <2>2, <3>1, <3>2, <3>3, MainGoes DEF Labels, Starting
  <2>4. CASE tls # None
    <3> DEFINE mine == [my[Main] EXCEPT !.row = tls, !.then = "unwrap"]
    <3>1. my' = [my EXCEPT ![Main] = mine] BY <1>1, <2>4 DEF Ensure
    <3>2. mine \in Locals /\ mine.then = "unwrap" /\ mine.row = tls BY DEF Locals, DiskOK
    <3> HIDE DEF mine
    <3>3. pc'[Main] = "key" /\ my'[Main] = mine => MainOK' /\ KeyOK(Main)'
      BY <2>1, <2>4, <3>2 DEF MainOK, KeyOK, For, KeySteps, Starting, disk
    <3>4. QED BY <2>1, <2>2, <3>1, <3>2, <3>3, MainGoes DEF Labels, Starting
  <2>5. QED BY <2>3, <2>4
<1>2. CASE Store
  <2> DEFINE new == [crt |-> SelfSigned, key |-> SelfSigned, under |-> my[Main].key]
             mine == [my[Main] EXCEPT !.row = new, !.then = "unwrap"]
  <2>1. /\ pc[Main] = "store" /\ tls' = new /\ Goto(Main, "key")
        /\ my' = [my EXCEPT ![Main] = mine]
        /\ UNCHANGED <<version, ddl, keyFile, inter, admin, files, memory, counters>>
    BY <1>2 DEF Store
  <2>2. new \in Row /\ new # None
    BY <2>1 DEF MainOK, Row, Pairs, Keys
  <2>3. new.under = my[Main].key /\ new.crt = new.key OBVIOUS
  <2> HIDE DEF new
  <2>4. mine \in Locals /\ mine.then = "unwrap" /\ mine.row = new BY <2>2 DEF Locals
  <2> HIDE DEF mine
  <2>5. DiskOK' /\ MemoryOK' /\ CountersOK'
    BY <2>1, <2>2 DEF Inv, Types, DiskOK, MemoryOK, CountersOK, memory, counters
  <2>6. /\ Types' /\ pc'[Main] = "key" /\ my'[Main] = mine
        /\ \A b \in Actors \ {Main} : pc'[b] = pc[b] /\ my'[b] = my[b]
    BY <2>1, <2>4, <2>5, Moves DEF Inv, Labels, Starting
  <2>7. MainOK' /\ KeyOK(Main)'
    BY <2>1, <2>2, <2>4, <2>6 DEF MainOK, KeyOK, For, KeySteps, Starting
  <2>8. ASSUME NEW t \in Threads PROVE ThreadOK(t)' /\ KeyOK(t)'
    <3>1. pc[t] = "idle" BY <2>1 DEF Inv, ThreadOK
    <3>2. QED BY <2>6, <3>1 DEF Inv, ThreadOK, KeyOK, For, KeySteps
  <2>9. SecretsUsable'
    <3>1. losses = 0 => my[Main].key = keyFile BY <2>1 DEF KeyOK
    <3>2. QED BY <2>1, <2>3, <3>1 DEF Inv, SecretsUsable, counters
  <2>10. ReplacedIsServed' BY <2>6 DEF ReplacedIsServed
  <2>11. QED BY <2>6, <2>7, <2>8, <2>9, <2>10 DEF Inv
<1>3. CASE Unwrap
  <2>1. pc[Main] = "unwrap" /\ UNCHANGED <<disk, counters>> BY <1>3 DEF Unwrap
  <2>2. CASE my[Main].row.under = my[Main].key
    <3>1. Goto(Main, "writeCrt") /\ UNCHANGED <<my, memory>> BY <1>3, <2>2 DEF Unwrap
    <3>2. pc'[Main] = "writeCrt" /\ my'[Main] = my[Main] => MainOK' /\ KeyOK(Main)'
      BY <2>1, <3>1 DEF MainOK, KeyOK, For, KeySteps, Starting, disk
    <3>3. DiskOK' /\ MemoryOK' /\ Settled
      BY <2>1, <3>1 DEF DiskOK, MemoryOK, Settled, disk, memory, counters
    <3>4. QED BY <2>1, <3>1, <3>2, <3>3, MainGoes DEF Labels, Starting
  <2>3. CASE my[Main].row.under # my[Main].key
    <3>1. Die BY <1>3, <2>3 DEF Unwrap, Raise
    <3>2. QED BY <2>1, <3>1, Dead DEF counters
  <2>4. QED BY <2>2, <2>3
<1>4. CASE WriteCrt
  <2>1. /\ pc[Main] = "writeCrt" /\ files' = [files EXCEPT !.crt = my[Main].row.crt]
        /\ Goto(Main, "writePem")
        /\ UNCHANGED <<version, ddl, keyFile, tls, inter, admin, my, memory, counters>>
    BY <1>4 DEF WriteCrt
  <2>2. my[Main].row = tls /\ tls # None /\ tls \in Row BY <2>1 DEF MainOK, DiskOK
  <2>3. files' \in Files /\ files'.crt = tls.crt BY <2>1, <2>2 DEF DiskOK, Files, Row
  <2>4. pc'[Main] = "writePem" /\ my'[Main] = my[Main] => MainOK' /\ KeyOK(Main)'
    BY <2>1, <2>2, <2>3 DEF MainOK, KeyOK, For, KeySteps, Starting
  <2>5. DiskOK' /\ MemoryOK' /\ Settled
    BY <2>1, <2>3 DEF DiskOK, MemoryOK, Settled, memory, counters
  <2>6. QED BY <2>1, <2>4, <2>5, MainGoes DEF Labels, Starting
<1>5. CASE WritePem
  <2>1. /\ pc[Main] = "writePem" /\ files' = [files EXCEPT !.key = my[Main].row.key]
        /\ Goto(Main, "load")
        /\ UNCHANGED <<version, ddl, keyFile, tls, inter, admin, my, memory, counters>>
    BY <1>5 DEF WritePem
  <2>2. my[Main].row = tls /\ tls # None /\ tls \in Row /\ files.crt = tls.crt
    BY <2>1 DEF MainOK, DiskOK
  <2>3. files' \in Files /\ files' = PairOf(tls)
    BY <2>1, <2>2 DEF DiskOK, Files, Row, PairOf
  <2>4. pc'[Main] = "load" /\ my'[Main] = my[Main] => MainOK' /\ KeyOK(Main)'
    BY <2>1, <2>2, <2>3 DEF MainOK, KeyOK, For, KeySteps, Starting
  <2>5. DiskOK' /\ MemoryOK' /\ Settled
    BY <2>1, <2>3 DEF DiskOK, MemoryOK, Settled, memory, counters
  <2>6. QED BY <2>1, <2>4, <2>5, MainGoes DEF Labels, Starting
<1>6. QED BY <1>1, <1>2, <1>3, <1>4, <1>5

\* The server: what it serves is the row's pair until the first request.
LEMMA LifespanInv ==
    ASSUME Inv, \/ LoadPair \/ MakeAdmin \/ LogAdmin \/ FindIntermediate
                \/ LoadIntermediate(Main) \/ Serve
    PROVE  Inv'
<1> USE MainParts
<1>1. CASE LoadPair
  <2>1. pc[Main] = "load" /\ UNCHANGED <<disk, counters>> BY <1>1 DEF LoadPair
  <2>2. CASE files.crt = files.key /\ files.crt \notin Weak
    <3>1. served' = files /\ Goto(Main, "admin") /\ UNCHANGED <<my, vault, armed, unarmed>>
      BY <1>1, <2>2 DEF LoadPair
    <3>2. pc'[Main] = "admin" /\ my'[Main] = my[Main] => MainOK' /\ KeyOK(Main)'
      BY <2>1, <3>1 DEF MainOK, KeyOK, For, KeySteps, Starting, disk
    <3>3. DiskOK' /\ MemoryOK' /\ Settled
      BY <2>1, <3>1 DEF DiskOK, MemoryOK, Settled, disk, counters
    <3>4. QED BY <2>1, <3>1, <3>2, <3>3, MainGoes DEF Labels, Starting
  <2>3. CASE ~(files.crt = files.key /\ files.crt \notin Weak)
    <3>1. Die BY <1>1, <2>3 DEF LoadPair, Raise
    <3>2. QED BY <2>1, <3>1, Dead DEF counters
  <2>4. QED BY <2>2, <2>3
<1>2. ASSUME NEW l \in {"logAdmin", "vault", "caches"},
             pc[Main] \in {"admin", "logAdmin", "vault"}, Goto(Main, l),
             UNCHANGED <<version, ddl, keyFile, tls, inter, files, my, memory, counters>>,
             admin' \in {"none", "made", "logged"}
      PROVE  Inv'
  <2>1. pc'[Main] = l /\ my'[Main] = my[Main] => MainOK' /\ KeyOK(Main)'
    BY <1>2 DEF MainOK, KeyOK, For, KeySteps, Starting, memory
  <2>2. DiskOK' /\ MemoryOK' /\ Settled
    BY <1>2 DEF DiskOK, MemoryOK, Settled, memory, counters
  <2>3. QED BY <1>2, <2>1, <2>2, MainGoes DEF Labels, Starting
<1>3. CASE MakeAdmin
  <2>1. admin' \in {"none", "made", "logged"} BY <1>3 DEF MakeAdmin, DiskOK
  <2>2. PICK l \in {"logAdmin", "vault"} : Goto(Main, l) BY <1>3 DEF MakeAdmin
  <2>3. QED BY <1>2, <1>3, <2>1, <2>2 DEF MakeAdmin
<1>4. CASE LogAdmin BY <1>2, <1>4 DEF LogAdmin
<1>5. CASE FindIntermediate
  <2>1. CASE inter = None
    <3>1. Goto(Main, "caches") /\ pc[Main] = "vault" /\ UNCHANGED <<disk, my, memory, counters>>
      BY <1>5, <2>1 DEF FindIntermediate
    <3>2. admin' \in {"none", "made", "logged"} BY <3>1 DEF DiskOK, disk
    <3>3. QED BY <1>2, <3>1, <3>2 DEF disk
  <2>2. CASE inter # None
    <3> DEFINE mine == [my[Main] EXCEPT !.then = "unwrapCa"]
    <3>1. /\ my' = [my EXCEPT ![Main] = mine] /\ Goto(Main, "key") /\ pc[Main] = "vault"
          /\ UNCHANGED <<disk, memory, counters>>
      BY <1>5, <2>2 DEF FindIntermediate, KeyThen
    <3>2. mine \in Locals /\ mine.then = "unwrapCa" BY DEF Locals
    <3> HIDE DEF mine
    <3>3. pc'[Main] = "key" /\ my'[Main] = mine => MainOK' /\ KeyOK(Main)'
      BY <3>1, <3>2 DEF MainOK, KeyOK, For, KeySteps, Starting, disk, memory
    <3>4. DiskOK' /\ MemoryOK' /\ Settled
      BY <3>1 DEF DiskOK, MemoryOK, Settled, disk, memory, counters
    <3>5. QED BY <3>1, <3>2, <3>3, <3>4, MainGoes DEF Labels, Starting
  <2>3. QED BY <2>1, <2>2
<1>6. CASE LoadIntermediate(Main)
  <2>1. pc[Main] = "unwrapCa" /\ UNCHANGED <<disk, counters>> BY <1>6 DEF LoadIntermediate
  <2>2. CASE inter = my[Main].key
    <3>1. vault' = TRUE /\ Goto(Main, "caches") /\ UNCHANGED <<my, served, armed, unarmed>>
      BY <1>6, <2>2 DEF LoadIntermediate
    <3>2. pc'[Main] = "caches" /\ my'[Main] = my[Main] => MainOK' /\ KeyOK(Main)'
      BY <2>1, <3>1 DEF MainOK, KeyOK, For, KeySteps, Starting, disk
    <3>3. DiskOK' /\ MemoryOK' /\ Settled
      BY <2>1, <3>1 DEF DiskOK, MemoryOK, Settled, disk, counters
    <3>4. QED BY <2>1, <3>1, <3>2, <3>3, MainGoes DEF Labels, Starting
  <2>3. CASE inter # my[Main].key
    <3>1. Die BY <1>6, <2>3 DEF LoadIntermediate, Raise
    <3>2. QED BY <2>1, <3>1, Dead DEF counters
  <2>4. QED BY <2>2, <2>3
<1>7. CASE Serve
  <2>1. /\ pc[Main] = "caches" /\ Goto(Main, "up") /\ my' = [my EXCEPT ![Main] = Fresh]
        /\ UNCHANGED <<disk, memory, counters>>
    BY <1>7 DEF Serve
  <2>2. tls # None /\ served = PairOf(tls) /\ tls \in Row BY <2>1 DEF MainOK, DiskOK
  <2>3. served \in [crt : Pairs, key : Pairs] BY <2>2 DEF Row, PairOf
  <2>4. pc'[Main] = "up" => MainOK' /\ KeyOK(Main)'
    BY <2>1, <2>2, <2>3 DEF MainOK, KeyOK, For, KeySteps, Starting, disk, memory
  <2>5. DiskOK' /\ MemoryOK' /\ Settled
    BY <2>1 DEF DiskOK, MemoryOK, Settled, disk, memory, counters
  <2>6. served' = PairOf(tls) /\ pc[Main] # "up" BY <2>1, <2>2 DEF memory
  <2>7. QED BY <2>1, <2>4, <2>5, <2>6, FreshOK, MainGoes DEF Labels
<1>8. QED BY <1>1, <1>3, <1>4, <1>5, <1>6, <1>7
-----------------------------------------------------------------------------
(* Requests *)

LEMMA ThreadParts ==
    ASSUME Inv, NEW t \in Threads
    PROVE  /\ DiskOK /\ MemoryOK /\ CountersOK /\ MainOK /\ ThreadOK(t) /\ KeyOK(t)
           /\ my[t] \in Locals /\ my = [my EXCEPT ![t] = my[t]]
BY DEF Inv, Types, PlacesOK

\* A step of a request that replaces neither the pair nor the intermediate.
LEMMA ThreadGoes ==
    ASSUME Inv, NEW t \in Threads, pc[Main] = "up",
           NEW l \in {"idle"} \cup Working, NEW mine \in Locals,
           Goto(t, l), my' = [my EXCEPT ![t] = mine],
           DiskOK', MemoryOK', CountersOK', Settled, UNCHANGED <<served, unarmed>>,
           armed => armed', pc[t] \in {"log", "arm"} => l \in {"log", "arm"} \/ armed',
           pc'[t] = l /\ my'[t] = mine /\ pc'[Main] = "up" => ThreadOK(t)' /\ KeyOK(t)'
    PROVE  Inv'
<1>1. Types /\ l \in Labels BY DEF Inv, Labels
<1>2. /\ Types' /\ pc'[t] = l /\ my'[t] = mine
      /\ \A b \in Actors \ {t} : pc'[b] = pc[b] /\ my'[b] = my[b]
  BY <1>1, Moves
<1>3. QED BY <1>2, ThreadMoves

LEMMA AskInv ==
    ASSUME Inv, NEW t \in Threads, Upload(t) \/ Issue(t) \/ InitIntermediate(t)
    PROVE  Inv'
<1> USE ThreadParts
<1>1. pc[Main] = "up" /\ pc[t] = "idle" BY DEF Upload, Issue, InitIntermediate, Idle
<1>2. ASSUME NEW p \in Pairs, Goto(t, "key"),
             my' = [my EXCEPT ![t].pair = [crt |-> p, key |-> p], ![t].then = "get"],
             UNCHANGED <<disk, memory, made, faults, losses, overlapped>>,
             begun' = begun + 1, issued' \subseteq Issuable
      PROVE  Inv'
  <2> DEFINE mine == [my[t] EXCEPT !.pair = [crt |-> p, key |-> p], !.then = "get"]
  <2>1. my' = [my EXCEPT ![t] = mine] BY <1>2
  <2>2. mine \in Locals /\ mine.then = "get" /\ mine.pair.crt = p /\ mine.pair.key = p
    BY DEF Locals, Files
  <2> HIDE DEF mine
  <2>3. DiskOK' /\ MemoryOK' /\ CountersOK' /\ Settled
    BY <1>2 DEF DiskOK, MemoryOK, CountersOK, Settled, disk, memory
  <2>4. pc'[t] = "key" /\ my'[t] = mine /\ pc'[Main] = "up" => ThreadOK(t)' /\ KeyOK(t)'
    BY <2>2 DEF ThreadOK, KeyOK, For, KeySteps, Working
  <2>5. QED BY <1>1, <1>2, <2>1, <2>2, <2>3, <2>4, ThreadGoes DEF Working, memory
<1>3. CASE Upload(t)
  <2>1. PICK c \in Uploads, k \in Uploads :
          IF c = k
          THEN /\ Admit
               /\ Goto(t, "key")
               /\ my' = [my EXCEPT ![t].pair = [crt |-> c, key |-> k], ![t].then = "get"]
          ELSE UNCHANGED <<pc, my, begun>>
    BY <1>3 DEF Upload
  <2>2. UNCHANGED <<disk, memory, made, issued, faults, losses, overlapped>> BY <1>3 DEF Upload
  <2>3. CASE c = k BY <1>2, <2>1, <2>2, <2>3 DEF Admit, Pairs, CountersOK
  <2>4. CASE c # k
    BY <2>1, <2>2, <2>4, Stutters DEF disk, memory, counters, vars
  <2>5. QED BY <2>3, <2>4
<1>4. CASE Issue(t) BY <1>2, <1>4 DEF Issue, Admit, Pairs, CountersOK
<1>5. CASE InitIntermediate(t)
  <2> DEFINE mine == [my[t] EXCEPT !.then = "activate"]
  <2>1. /\ my' = [my EXCEPT ![t] = mine] /\ Goto(t, "key") /\ begun' = begun + 1
        /\ UNCHANGED <<disk, memory, made, issued, faults, losses, overlapped>>
    BY <1>5 DEF InitIntermediate, KeyThen, Admit
  <2>2. mine \in Locals /\ mine.then = "activate" /\ mine.pair = my[t].pair BY DEF Locals
  <2> HIDE DEF mine
  <2>3. DiskOK' /\ MemoryOK' /\ CountersOK' /\ Settled
    BY <2>1 DEF DiskOK, MemoryOK, CountersOK, Settled, disk, memory
  <2>4. pc'[t] = "key" /\ my'[t] = mine /\ pc'[Main] = "up" => ThreadOK(t)' /\ KeyOK(t)'
    BY <2>2 DEF ThreadOK, KeyOK, For, KeySteps, Working
  <2>5. QED BY <1>1, <2>1, <2>2, <2>3, <2>4, ThreadGoes DEF Working, memory
<1>6. QED BY <1>3, <1>4, <1>5

LEMMA AnswerInv ==
    ASSUME Inv, NEW t \in Threads, Get(t) \/ Log(t) \/ Arm(t) \/ LoadIntermediate(t)
    PROVE  Inv'
<1> USE ThreadParts
<1>0. pc[Main] = "up" BY DEF Get, Log, Arm, LoadIntermediate, ThreadOK
<1>1. CASE Get(t)
  <2> DEFINE mine == [my[t] EXCEPT !.row = tls]
  <2>1. /\ my' = [my EXCEPT ![t] = mine] /\ Goto(t, "put") /\ pc[t] = "get"
        /\ UNCHANGED <<disk, memory, counters>>
    BY <1>1 DEF Get
  <2>2. mine \in Locals /\ mine.pair = my[t].pair /\ mine.key = my[t].key
    BY DEF Locals, DiskOK
  <2> HIDE DEF mine
  <2>3. DiskOK' /\ MemoryOK' /\ CountersOK' /\ Settled
    BY <2>1 DEF DiskOK, MemoryOK, CountersOK, Settled, disk, memory, counters
  <2>4. pc'[t] = "put" /\ my'[t] = mine /\ pc'[Main] = "up" => ThreadOK(t)' /\ KeyOK(t)'
    BY <2>1, <2>2 DEF ThreadOK, KeyOK, For, KeySteps, Working, disk, counters
  <2>5. QED BY <1>0, <2>1, <2>2, <2>3, <2>4, ThreadGoes DEF Working, memory, counters
<1>2. CASE Log(t)
  <2>1. Goto(t, "arm") /\ pc[t] = "log" /\ UNCHANGED <<disk, my, memory, counters>>
    BY <1>2 DEF Log
  <2>2. DiskOK' /\ MemoryOK' /\ CountersOK' /\ Settled
    BY <2>1 DEF DiskOK, MemoryOK, CountersOK, Settled, disk, memory, counters
  <2>3. pc'[t] = "arm" /\ my'[t] = my[t] /\ pc'[Main] = "up" => ThreadOK(t)' /\ KeyOK(t)'
    BY DEF ThreadOK, KeyOK, For, KeySteps, Working
  <2>4. QED BY <1>0, <2>1, <2>2, <2>3, ThreadGoes DEF Working, memory, counters
<1>3. CASE Arm(t)
  <2>1. /\ Goto(t, "idle") /\ pc[t] = "arm" /\ armed' = TRUE
        /\ UNCHANGED <<disk, my, served, vault, unarmed, counters>>
    BY <1>3 DEF Arm
  <2>2. DiskOK' /\ MemoryOK' /\ CountersOK' /\ Settled
    BY <2>1 DEF DiskOK, MemoryOK, CountersOK, Settled, disk, counters
  <2>3. pc'[t] = "idle" /\ my'[t] = my[t] /\ pc'[Main] = "up" => ThreadOK(t)' /\ KeyOK(t)'
    BY DEF ThreadOK, KeyOK, For, KeySteps, Working
  <2>4. QED BY <1>0, <2>1, <2>2, <2>3, ThreadGoes DEF counters
<1>4. CASE LoadIntermediate(t)
  <2>1. pc[t] = "unwrapCa" /\ UNCHANGED <<disk, counters>> /\ t # Main
    BY <1>4 DEF LoadIntermediate
  <2>2. CASE inter = my[t].key
    <3>1. /\ vault' = TRUE /\ Goto(t, "idle") /\ my' = [my EXCEPT ![t] = Fresh]
          /\ UNCHANGED <<served, armed, unarmed>>
      BY <1>4, <2>1, <2>2 DEF LoadIntermediate
    <3>2. DiskOK' /\ MemoryOK' /\ CountersOK' /\ Settled
      BY <2>1, <3>1 DEF DiskOK, MemoryOK, CountersOK, Settled, disk, counters
    <3>3. pc'[t] = "idle" /\ my'[t] = Fresh /\ pc'[Main] = "up" => ThreadOK(t)' /\ KeyOK(t)'
      BY FreshOK DEF ThreadOK, KeyOK, For, KeySteps
    <3>4. QED BY <1>0, <2>1, <3>1, <3>2, <3>3, FreshOK, ThreadGoes DEF counters
  <2>3. CASE inter # my[t].key
    <3>1. Raise(t) BY <1>4, <2>3 DEF LoadIntermediate
    <3>2. Goto(t, "idle") /\ my' = [my EXCEPT ![t] = Fresh] /\ UNCHANGED memory
      BY <2>1, <3>1 DEF Raise
    <3>3. faults' = faults /\ faults \in Nat BY <2>1 DEF counters, CountersOK
    <3>4. QED BY <1>0, <2>1, <3>2, <3>3, Failed DEF counters, memory, MemoryOK
  <2>4. QED BY <2>2, <2>3
<1>5. QED BY <1>1, <1>2, <1>3, <1>4

\* The row is written: the request owes a restart, and has the file's key.
LEMMA PutInv ==
    ASSUME Inv, NEW t \in Threads, Put(t)
    PROVE  Inv'
<1> USE ThreadParts
<1>1. /\ pc[t] = "put" /\ pc[Main] = "up" /\ Goto(t, "log") /\ my' = [my EXCEPT ![t] = Fresh]
      /\ UNCHANGED <<version, ddl, keyFile, inter, admin, files, memory, made, issued, begun,
                     faults, losses>>
      /\ overlapped' = (overlapped \/ tls # my[t].row)
  BY DEF Put, ThreadOK
<1> DEFINE new == [crt |-> IF my[t].row # None /\ my[t].row.crt = my[t].pair.crt
                           THEN tls.crt ELSE my[t].pair.crt,
                   key |-> my[t].pair.key, under |-> my[t].key]
<1>2. tls' = new BY DEF Put
<1>3. tls # None /\ tls \in Row BY <1>1 DEF MainOK, DiskOK
<1>4. /\ my[t].pair.crt \in Pairs /\ my[t].pair.key \in Pairs /\ my[t].key \in Keys
      /\ my[t].pair.crt = my[t].pair.key
  BY <1>1 DEF ThreadOK
<1>5. new \in Row /\ new # None
  <2>1. new.crt \in Pairs BY <1>3, <1>4 DEF Row
  <2>2. new \in Row BY <1>4, <2>1 DEF Row
  <2>3. QED BY <2>2 DEF Row, Keys
<1>6. /\ new.key = my[t].pair.key /\ new.under = my[t].key
      /\ tls = my[t].row => new.crt = my[t].pair.crt
  BY <1>3
<1> HIDE DEF new
<1>7. DiskOK' /\ MemoryOK' /\ CountersOK'
  BY <1>1, <1>2, <1>5 DEF DiskOK, MemoryOK, CountersOK, memory
<1>8. /\ Types' /\ pc'[t] = "log" /\ my'[t] = Fresh
      /\ \A b \in Actors \ {t} : pc'[b] = pc[b] /\ my'[b] = my[b]
  BY <1>1, <1>7, FreshOK, Moves DEF Inv, Labels, Working
<1>9. ThreadOK(t)' /\ KeyOK(t)' BY <1>1, <1>8, FreshOK DEF ThreadOK, KeyOK, For, KeySteps, Working
<1>10. ASSUME NEW u \in Threads \ {t} PROVE ThreadOK(u)' /\ KeyOK(u)'
  BY <1>1, <1>8 DEF Inv, ThreadOK, KeyOK, For, KeySteps
<1>11. MainOK' /\ KeyOK(Main)'
  BY <1>1, <1>2, <1>5, <1>8 DEF Inv, MainOK, KeyOK, For, KeySteps, memory
<1>12. SecretsUsable'
  <2>1. losses = 0 => my[t].key = keyFile BY <1>1 DEF KeyOK
  <2>2. ~overlapped' => tls = my[t].row BY <1>1
  <2>3. QED BY <1>1, <1>2, <1>4, <1>6, <2>1, <2>2 DEF Inv, SecretsUsable
<1>13. ReplacedIsServed' BY <1>8 DEF ReplacedIsServed
<1>14. QED BY <1>8, <1>9, <1>10, <1>11, <1>12, <1>13 DEF Inv

\* The first intermediate's key is wrapped with the file's key.
LEMMA ActivateInv ==
    ASSUME Inv, NEW t \in Threads, Activate(t)
    PROVE  Inv'
<1> USE ThreadParts
<1> DEFINE mine == [my[t] EXCEPT !.then = "unwrapCa"]
<1>1. /\ pc[t] = "activate" /\ pc[Main] = "up" /\ Goto(t, "key") /\ my' = [my EXCEPT ![t] = mine]
      /\ inter' = IF inter = None THEN my[t].key ELSE inter
      /\ UNCHANGED <<version, ddl, keyFile, tls, admin, files, memory, counters>>
  BY DEF Activate, KeyThen, ThreadOK
<1>2. mine \in Locals /\ mine.then = "unwrapCa" /\ mine.pair = my[t].pair BY DEF Locals
<1> HIDE DEF mine
<1>3. my[t].key \in Keys BY <1>1 DEF ThreadOK
<1>4. DiskOK' /\ MemoryOK' /\ CountersOK'
  BY <1>1, <1>3 DEF DiskOK, MemoryOK, CountersOK, memory, counters
<1>5. /\ Types' /\ pc'[t] = "key" /\ my'[t] = mine
      /\ \A b \in Actors \ {t} : pc'[b] = pc[b] /\ my'[b] = my[b]
  BY <1>1, <1>2, <1>4, Moves DEF Inv, Labels, Working
<1>6. ThreadOK(t)' /\ KeyOK(t)'
  BY <1>1, <1>2, <1>5 DEF ThreadOK, KeyOK, For, KeySteps, Working
<1>7. ASSUME NEW u \in Threads \ {t} PROVE ThreadOK(u)' /\ KeyOK(u)'
  BY <1>1, <1>5 DEF Inv, ThreadOK, KeyOK, For, KeySteps, counters
<1>8. MainOK' /\ KeyOK(Main)'
  BY <1>1, <1>5 DEF Inv, MainOK, KeyOK, For, KeySteps, memory, counters
<1>9. SecretsUsable'
  <2>1. losses = 0 => my[t].key = keyFile BY <1>1 DEF KeyOK
  <2>2. QED BY <1>1, <2>1 DEF Inv, SecretsUsable, counters
<1>10. ReplacedIsServed'
  BY <1>1, <1>5 DEF Inv, ReplacedIsServed, memory, counters
<1>11. QED BY <1>5, <1>6, <1>7, <1>8, <1>9, <1>10 DEF Inv
-----------------------------------------------------------------------------
(* Faults *)

LEMMA FaultInv ==
    ASSUME Inv, \/ Exit \/ Crash \/ LoseKeyFile
                \/ \E a \in Actors : CommitFails(a)
                \/ \E t \in Threads : LogFails(t)
    PROVE  Inv'
<1>0. faults \in Nat /\ losses \in Nat /\ DiskOK /\ MemoryOK /\ CountersOK
  BY DEF Inv, Types, CountersOK
<1>1. CASE Exit BY <1>0, <1>1, Dead DEF Exit, counters
<1>2. CASE Crash
  <2>1. faults' \in Nat BY <1>0, <1>2 DEF Crash
  <2>2. QED BY <1>2, <2>1, Dead DEF Crash
<1>3. ASSUME NEW a \in Actors, CommitFails(a) PROVE Inv'
  <2>1. /\ faults' = faults + 1 /\ Raise(a)
        /\ pc[a] \in {"store", "admin", "logAdmin", "put", "activate"}
        /\ UNCHANGED <<disk, made, issued, begun, losses, overlapped>>
    BY <1>3 DEF CommitFails
  <2>2. faults' \in Nat BY <1>0, <2>1
  <2>3. CASE a = Main BY <2>1, <2>2, <2>3, Dead DEF Raise
  <2>4. CASE a \in Threads
    <3>1. Goto(a, "idle") /\ my' = [my EXCEPT ![a] = Fresh] /\ UNCHANGED memory
      BY <2>1, <2>4 DEF Raise
    <3>2. pc[Main] = "up" BY <2>1, <2>4 DEF Inv, ThreadOK
    <3>3. QED BY <1>0, <2>1, <2>2, <2>4, <3>1, <3>2, Failed DEF memory, MemoryOK
  <2>5. QED BY <2>3, <2>4
<1>4. ASSUME NEW t \in Threads, LogFails(t) PROVE Inv'
  <2>1. /\ faults' = faults + 1 /\ pc[t] = "log" /\ unarmed' = TRUE
        /\ Goto(t, "idle") /\ my' = [my EXCEPT ![t] = Fresh]
        /\ UNCHANGED <<disk, served, vault, armed, made, issued, begun, losses, overlapped>>
    BY <1>4 DEF LogFails
  <2>2. pc[Main] = "up" BY <2>1 DEF Inv, ThreadOK
  <2>3. faults' \in Nat BY <1>0, <2>1
  <2>4. QED BY <2>1, <2>2, <2>3, Failed
<1>5. CASE LoseKeyFile
  <2>1. /\ losses' = losses + 1 /\ keyFile' = None
        /\ UNCHANGED <<version, ddl, tls, inter, admin, files, pc, my, memory, made, issued,
                       begun, faults, overlapped>>
    BY <1>5 DEF LoseKeyFile
  <2>2. losses' # 0 /\ losses' \in Nat BY <1>0, <2>1
  <2>3. Types'
    BY <2>1, <2>2 DEF Inv, Types, DiskOK, MemoryOK, CountersOK, PlacesOK, memory
  <2>4. MainOK' BY <2>1 DEF Inv, MainOK, For, memory
  <2>5. \A t \in Threads : ThreadOK(t)' BY <2>1 DEF Inv, ThreadOK, For
  <2>6. \A a \in Actors : KeyOK(a)' BY <2>2 DEF KeyOK
  <2>7. SecretsUsable' BY <2>1, <2>2 DEF Inv, SecretsUsable
  <2>8. ReplacedIsServed' BY <2>1 DEF Inv, ReplacedIsServed, memory
  <2>9. QED BY <2>3, <2>4, <2>5, <2>6, <2>7, <2>8 DEF Inv
<1>6. QED BY <1>1, <1>2, <1>3, <1>4, <1>5

LEMMA StepInv ==
    ASSUME Inv, [Next]_vars
    PROVE  Inv'
<1>1. ASSUME NEW a \in Actors, KeyStep(a) PROVE Inv'
  BY <1>1, LoadKeyInv, CreateKeyInv, WriteKeyInv DEF KeyStep
<1>2. CASE MainStep BY <1>1, <1>2, SchemaInv, PreflightInv, LifespanInv DEF MainStep
<1>3. ASSUME NEW t \in Threads, Request(t) PROVE Inv'
  BY <1>1, <1>3, AskInv, AnswerInv, PutInv, ActivateInv DEF Request
<1>4. CASE \/ Exit \/ Crash \/ LoseKeyFile
           \/ \E a \in Actors : CommitFails(a)
           \/ \E t \in Threads : LogFails(t)
  BY <1>4, FaultInv
<1>5. CASE UNCHANGED vars BY <1>5, Stutters
<1>6. QED BY <1>2, <1>3, <1>4, <1>5 DEF Next

LEMMA AlwaysInv == Spec => []Inv
<1>1. Inv /\ [Next]_vars => Inv' BY StepInv
<1>2. QED BY InitInv, <1>1, PTL DEF Spec

\* Every state has its type: among other things, a request runs only in a process that
\* has come up, and such a process has a row and a pair that it serves.
THEOREM TypeCorrect == Spec => []TypeOK
<1>1. Inv => TypeOK BY InvTypes
<1>2. QED BY <1>1, AlwaysInv, PTL

\* Wherever starts and requests are cut short: until the master key's file is lost, each
\* private key in the database can be unwrapped, and the certificate in the row is that
\* of its key until two replacements overlap.
THEOREM SecretsAlwaysUsable == Spec => []SecretsUsable
<1>1. Inv => SecretsUsable BY DEF Inv
<1>2. QED BY <1>1, AlwaysInv, PTL

\* A process that does not serve the row's pair is about to end, or has a request that
\* will see to it, whatever other commits failed, unless a replacement's log entry failed.
THEOREM ReplacedAlwaysServed == Spec => []ReplacedIsServed
<1>1. Inv => ReplacedIsServed BY DEF Inv
<1>2. QED BY <1>1, AlwaysInv, PTL
-----------------------------------------------------------------------------
(* Why a process ends *)

\* Between the load of the master key and its use, the file with it may be lost, but it
\* is not replaced; and the intermediate's key is unwrapped only if there is one.
ReadKey ==
    /\ pc[Main] \in {"store", "unwrap", "unwrapCa"} => keyFile = None \/ my[Main].key = keyFile
    /\ For(Main, "unwrapCa") => inter # None

\* Only a fault leaves a revision half applied behind a process that has gone on or
\* ended, and only a fault, or a request after the loss of the file, an empty file; the
\* timer runs in a process that is up.
Leavings ==
    /\ armed => pc[Main] = "up"
    /\ pc[Main] = "down" => my[Main].done = 0
    /\ version = Len(Revisions) => ddl = 0
    /\ faults = 0 => ddl = IF pc[Main] = "migrate" THEN my[Main].done ELSE 0
    /\ faults = 0 /\ losses = 0 /\ keyFile = Empty => pc[Main] = "writeKey"

\* The steps at which a start uses the key, or loads it for a use.
KeyUses == KeySteps \cup {"store", "unwrap", "unwrapCa"}

\* A request leaves the process up.
LEMMA RequestStays ==
    ASSUME Inv, NEW t \in Threads, Request(t) \/ CommitFails(t) \/ LogFails(t)
    PROVE  pc[Main] = "up" /\ pc'[Main] = "up"
<1>1. pc[t] # "idle" \/ pc[Main] = "up"
  BY DEF Request, KeyStep, LoadKey, CreateKeyFile, WriteKeyFile, Upload, Issue, Get, Put, Log, Arm,
     InitIntermediate, Activate, LoadIntermediate, Idle, CommitFails, LogFails
<1>2. pc[Main] = "up" BY <1>1 DEF Inv, ThreadOK
<1>3. \A l : Goto(t, l) => pc'[Main] = pc[Main] BY DEF Goto, Inv, Types, PlacesOK
<1>4. pc'[Main] = pc[Main]
  <2>1. CASE KeyStep(t)
    BY <1>3, <2>1 DEF KeyStep, LoadKey, CreateKeyFile, WriteKeyFile, Raise
  <2>2. CASE Upload(t) \/ Issue(t) \/ InitIntermediate(t)
    BY <1>3, <2>2 DEF Upload, Issue, InitIntermediate, KeyThen
  <2>3. CASE Get(t) \/ Put(t) \/ Log(t) \/ Arm(t) \/ Activate(t)
    BY <1>3, <2>3 DEF Get, Put, Log, Arm, Activate, KeyThen
  <2>4. CASE LoadIntermediate(t) BY <1>3, <2>4 DEF LoadIntermediate, Raise
  <2>5. CASE CommitFails(t) BY <1>3, <2>5 DEF CommitFails, Raise
  <2>6. CASE LogFails(t) BY <1>3, <2>6 DEF LogFails
  <2>7. QED BY <2>1, <2>2, <2>3, <2>4, <2>5, <2>6 DEF Request
<1>5. QED BY <1>2, <1>4

\* The start, and what ends it.
LEMMA MainKeepsReadKey ==
    ASSUME Inv, ReadKey, MainStep
    PROVE  ReadKey'
<1> USE MainParts
<1>0. /\ pc \in [Actors -> Labels] /\ my \in [Actors -> Locals]
      /\ \A l : Goto(Main, l) => pc'[Main] = l
      /\ Die => pc'[Main] = "down"
  BY DEF Inv, Types, PlacesOK, Labels, Goto, Die
<1>1. CASE pc'[Main] \notin KeyUses BY <1>1 DEF ReadKey, KeyUses, For
<1>2. CASE LoadKey(Main)
  <2>1. pc[Main] = "key" /\ inter' = inter BY <1>2 DEF LoadKey, disk
  <2>2. CASE keyFile = None
    <3>1. Goto(Main, "createKey") /\ my' = my BY <1>2, <2>2 DEF LoadKey
    <3>2. QED BY <1>0, <2>1, <3>1 DEF ReadKey, For, KeySteps
  <2>3. CASE keyFile = Empty
    <3>1. Die BY <1>2, <2>3 DEF LoadKey, Raise
    <3>2. QED BY <1>0, <1>1, <3>1 DEF KeyUses, KeySteps
  <2>4. CASE keyFile # None /\ keyFile # Empty
    <3>1. /\ Goto(Main, my[Main].then) /\ my' = [my EXCEPT ![Main].key = keyFile]
          /\ keyFile' = keyFile
      BY <1>2, <2>4 DEF LoadKey, disk
    <3>2. my'[Main].key = keyFile' BY <1>0, <3>1 DEF Locals
    <3>3. pc'[Main] = my[Main].then /\ my[Main].then \in {"store", "unwrap", "unwrapCa"}
      BY <1>0, <2>1, <3>1 DEF MainOK, KeySteps
    <3>4. QED BY <2>1, <3>2, <3>3 DEF ReadKey, For, KeySteps
  <2>5. QED BY <2>2, <2>3, <2>4
<1>3. CASE CreateKeyFile(Main)
  <2>1. pc[Main] = "createKey" /\ pc'[Main] = "writeKey" /\ UNCHANGED <<inter, my>>
    BY <1>0, <1>3 DEF CreateKeyFile
  <2>2. QED BY <2>1 DEF ReadKey, For, KeySteps
<1>4. CASE WriteKeyFile(Main)
  <2>1. /\ pc[Main] = "writeKey" /\ pc'[Main] = my[Main].then /\ inter' = inter
        /\ my' = [my EXCEPT ![Main].key = made']
        /\ keyFile' = IF keyFile = None THEN None ELSE made'
    BY <1>0, <1>4 DEF WriteKeyFile
  <2>2. my'[Main].key = made' BY <1>0, <2>1 DEF Locals
  <2>3. my[Main].then \in {"store", "unwrap", "unwrapCa"} BY <2>1 DEF MainOK, KeySteps
  <2>4. QED BY <2>1, <2>2, <2>3 DEF ReadKey, For, KeySteps
<1>5. CASE Ensure \/ Store
  <2>1. pc'[Main] = "key" BY <1>0, <1>5 DEF Ensure, Store, KeyThen
  <2>2. my'[Main].then \in {"store", "unwrap"}
    BY <1>0, <1>5 DEF Ensure, Store, KeyThen, Locals
  <2>3. QED BY <2>1, <2>2 DEF ReadKey, For, KeySteps
<1>6. CASE FindIntermediate
  <2>1. CASE inter = None BY <1>0, <1>1, <1>6, <2>1 DEF FindIntermediate, KeyUses, KeySteps
  <2>2. CASE inter # None
    <3>1. pc'[Main] = "key" /\ inter' = inter
      BY <1>0, <1>6, <2>2 DEF FindIntermediate, KeyThen, disk
    <3>2. QED BY <2>2, <3>1 DEF ReadKey, KeySteps
  <2>3. QED BY <2>1, <2>2
<1>7. CASE Start \/ Migrated \/ WriteCrt \/ WritePem \/ LogAdmin \/ Serve
  BY <1>0, <1>1, <1>7 DEF Start, Migrated, WriteCrt, WritePem, LogAdmin, Serve, KeyUses, KeySteps
<1>8. CASE Create \/ Stamp
  BY <1>0, <1>1, <1>8 DEF Create, Stamp, Raise, KeyUses, KeySteps
<1>9. CASE Unwrap \/ LoadPair
  BY <1>0, <1>1, <1>9 DEF Unwrap, LoadPair, Raise, KeyUses, KeySteps
<1>10. CASE MakeAdmin \/ LoadIntermediate(Main)
  BY <1>0, <1>1, <1>10 DEF MakeAdmin, LoadIntermediate, Raise, KeyUses, KeySteps
<1>11. QED
  BY <1>2, <1>3, <1>4, <1>5, <1>6, <1>7, <1>8, <1>9, <1>10 DEF MainStep, KeyStep

LEMMA StepReadKey ==
    ASSUME Inv, ReadKey, [Next]_vars
    PROVE  ReadKey'
<1>1. CASE MainStep BY <1>1, MainKeepsReadKey
<1>2. ASSUME NEW t \in Threads, Request(t) PROVE ReadKey'
  BY <1>2, RequestStays DEF ReadKey, For, KeySteps
<1>3. ASSUME NEW a \in Actors, CommitFails(a) PROVE ReadKey'
  <2>1. CASE a \in Threads BY <1>3, <2>1, RequestStays DEF ReadKey, For, KeySteps
  <2>2. CASE a = Main
    <3>1. Die BY <1>3, <2>2 DEF CommitFails, Raise
    <3>2. pc'[Main] = "down" BY <3>1 DEF Die
    <3>3. QED BY <3>2 DEF ReadKey, For, KeySteps
  <2>3. QED BY <2>1, <2>2
<1>4. CASE Exit \/ Crash
  <2>1. pc'[Main] = "down" BY <1>4 DEF Exit, Crash, Die
  <2>2. QED BY <2>1 DEF ReadKey, For, KeySteps
<1>5. CASE LoseKeyFile BY <1>5 DEF LoseKeyFile, ReadKey, For
<1>6. CASE UNCHANGED vars BY <1>6 DEF vars, disk, ReadKey, For
<1>7. ASSUME NEW t \in Threads, LogFails(t) PROVE ReadKey'
  BY <1>7, RequestStays DEF ReadKey, For, KeySteps, LogFails
<1>8. QED BY <1>1, <1>2, <1>3, <1>4, <1>5, <1>6, <1>7 DEF Next

\* A start adds to the next revision, and ends nowhere with an empty file of its own.
LEMMA MainKeepsLeavings ==
    ASSUME Inv, Leavings, MainStep
    PROVE  Leavings'
<1> USE MainParts
<1>0. /\ pc \in [Actors -> Labels] /\ my \in [Actors -> Locals] /\ made \in Nat
      /\ \A l : Goto(Main, l) => pc'[Main] = l
      /\ Die => pc'[Main] = "down" /\ my'[Main].done = 0 /\ armed' = FALSE
      /\ Len(Revisions) \in Nat
  BY DEF Inv, Types, PlacesOK, CountersOK, Labels, Goto, Die, Fresh, Revisions
<1>1. ASSUME Die, UNCHANGED <<disk, counters>>,
             faults = 0 => ddl = 0, pc[Main] # "writeKey"
      PROVE  Leavings'
  BY <1>0, <1>1 DEF Leavings, disk, counters
<1>2. ASSUME UNCHANGED <<version, ddl, keyFile, faults, losses, armed>>,
             pc[Main] \notin {"up", "migrate", "writeKey"}, pc'[Main] \notin {"down", "migrate"}
      PROVE  Leavings'
  BY <1>2 DEF Leavings
<1>3. CASE Start
  BY <1>0, <1>3 DEF Start, Leavings, disk, memory, counters
<1>4. CASE Create
  <2>1. /\ pc[Main] = "migrate" /\ version # Len(Revisions)
        /\ UNCHANGED <<version, keyFile, counters>>
    BY <1>4, <1>0 DEF Create, DiskOK
  <2>2. CASE my[Main].done < ddl
    <3>1. Die /\ ddl' = ddl BY <1>4, <2>2 DEF Create, Raise
    <3>2. faults # 0 BY <2>1, <2>2 DEF Leavings, DiskOK, Locals
    <3>3. QED BY <1>0, <2>1, <3>1, <3>2 DEF Leavings, counters
  <2>3. CASE ~(my[Main].done < ddl)
    <3>1. /\ ddl' = ddl + 1 /\ my' = [my EXCEPT ![Main].done = @ + 1]
          /\ UNCHANGED <<pc, memory>>
      BY <1>4, <2>3 DEF Create
    <3>2. my'[Main].done = my[Main].done + 1 BY <1>0, <3>1 DEF Locals
    <3>3. QED BY <2>1, <3>1, <3>2 DEF Leavings, memory, counters
  <2>4. QED BY <2>2, <2>3
<1>5. CASE Stamp
  <2>1. /\ pc[Main] = "migrate" /\ ddl' = 0
        /\ my' = [my EXCEPT ![Main].done = 0]
        /\ UNCHANGED <<keyFile, pc, memory, counters>>
    BY <1>5 DEF Stamp
  <2>2. my'[Main].done = 0 BY <1>0, <2>1 DEF Locals
  <2>3. QED BY <2>1, <2>2 DEF Leavings, memory, counters
<1>6. CASE Migrated
  <2>1. /\ pc[Main] = "migrate" /\ version = Len(Revisions) /\ pc'[Main] = "ensure"
        /\ UNCHANGED <<disk, my, memory, counters>>
    BY <1>0, <1>6 DEF Migrated
  <2>2. QED BY <2>1 DEF Leavings, disk, memory, counters
<1>7. CASE LoadKey(Main)
  <2>1. pc[Main] = "key" /\ UNCHANGED <<disk, counters>> BY <1>7 DEF LoadKey
  <2>2. CASE keyFile = Empty /\ keyFile # None
    <3>1. Die BY <1>7, <2>2 DEF LoadKey, Raise
    <3>2. QED BY <1>1, <2>1, <3>1 DEF Leavings
  <2>3. CASE keyFile = None \/ keyFile # Empty
    <3>1. my[Main].then \in {"store", "unwrap", "unwrapCa"} BY <2>1 DEF MainOK, KeySteps
    <3>2. UNCHANGED memory /\ pc'[Main] \in {"createKey", my[Main].then}
      BY <1>0, <1>7, <2>3 DEF LoadKey
    <3>3. QED BY <1>2, <2>1, <3>1, <3>2 DEF disk, memory, counters
  <2>4. QED BY <2>2, <2>3
<1>8. CASE CreateKeyFile(Main)
  <2>1. /\ pc[Main] = "createKey" /\ pc'[Main] = "writeKey"
        /\ UNCHANGED <<version, ddl, memory, counters>>
    BY <1>0, <1>8 DEF CreateKeyFile
  <2>2. QED BY <2>1 DEF Leavings, memory, counters
<1>9. CASE WriteKeyFile(Main)
  <2>1. /\ pc[Main] = "writeKey" /\ made' = made + 1 /\ pc'[Main] = my[Main].then
        /\ keyFile' = IF keyFile = None THEN None ELSE made'
        /\ UNCHANGED <<version, ddl, memory, faults, losses>>
    BY <1>0, <1>9 DEF WriteKeyFile
  <2>2. my[Main].then \in {"store", "unwrap", "unwrapCa"} BY <2>1 DEF MainOK, KeySteps
  <2>3. keyFile' # Empty BY <1>0, <2>1
  <2>4. QED BY <2>1, <2>2, <2>3 DEF Leavings, memory
<1>10. CASE Ensure \/ Store \/ WriteCrt \/ WritePem
  <2>1. /\ pc[Main] \in {"ensure", "store", "writeCrt", "writePem"}
        /\ pc'[Main] \in {"key", "writePem", "load"}
        /\ UNCHANGED <<version, ddl, keyFile, memory, counters>>
    BY <1>0, <1>10 DEF Ensure, Store, WriteCrt, WritePem, KeyThen, disk
  <2>2. QED BY <1>2, <2>1 DEF memory, counters
<1>11. CASE Unwrap \/ LoadPair \/ LoadIntermediate(Main)
  <2>1. pc[Main] \in {"unwrap", "load", "unwrapCa"} /\ UNCHANGED <<disk, counters>>
    BY <1>11 DEF Unwrap, LoadPair, LoadIntermediate
  <2>2. Die \/ (armed' = armed /\ pc'[Main] \in {"writeCrt", "admin", "caches"})
    BY <1>0, <1>11 DEF Unwrap, LoadPair, LoadIntermediate, Raise, memory
  <2>3. QED BY <1>1, <1>2, <2>1, <2>2 DEF Leavings, disk, counters
<1>12. CASE MakeAdmin \/ LogAdmin \/ FindIntermediate \/ Serve
  <2>1. /\ pc[Main] \in {"admin", "logAdmin", "vault", "caches"}
        /\ pc'[Main] \in {"logAdmin", "vault", "caches", "key", "up"}
        /\ UNCHANGED <<version, ddl, keyFile, memory, counters>>
    BY <1>0, <1>12 DEF MakeAdmin, LogAdmin, FindIntermediate, Serve, KeyThen, disk
  <2>2. QED BY <1>2, <2>1 DEF memory, counters
<1>13. QED
  BY <1>3, <1>4, <1>5, <1>6, <1>7, <1>8, <1>9, <1>10, <1>11, <1>12 DEF MainStep, KeyStep

\* A request creates the master key's file only once it was lost.
LEMMA RequestKeepsLeavings ==
    ASSUME Inv, Leavings, NEW t \in Threads, Request(t)
    PROVE  Leavings'
<1> USE ThreadParts
<1>1. pc[Main] = "up" /\ pc'[Main] = "up" BY RequestStays
<1>2. UNCHANGED <<version, ddl, faults, losses>>
  BY DEF Request, KeyStep, LoadKey, CreateKeyFile, WriteKeyFile, Upload, Issue, Get, Put, Log,
     Arm, InitIntermediate, Activate, LoadIntermediate, disk, counters
<1>3. losses = 0 /\ keyFile' = Empty => keyFile = Empty
  <2>1. CASE CreateKeyFile(t)
    <3>1. pc[t] = "createKey" BY <2>1 DEF CreateKeyFile
    <3>2. losses # 0 BY <3>1 DEF KeyOK
    <3>3. QED BY <3>2
  <2>2. CASE WriteKeyFile(t)
    <3>1. made' = made + 1 /\ keyFile' = IF keyFile = None THEN None ELSE made'
      BY <2>2 DEF WriteKeyFile
    <3>2. keyFile' # Empty BY <3>1 DEF CountersOK
    <3>3. QED BY <3>2
  <2>3. CASE ~CreateKeyFile(t) /\ ~WriteKeyFile(t)
    BY <2>3 DEF Request, KeyStep, LoadKey, Upload, Issue, Get, Put, Log, Arm,
       InitIntermediate, Activate, LoadIntermediate, disk
  <2>4. QED BY <2>1, <2>2, <2>3
<1>4. QED BY <1>1, <1>2, <1>3 DEF Leavings

LEMMA StepLeavings ==
    ASSUME Inv, Leavings, [Next]_vars
    PROVE  Leavings'
<1>0. faults \in Nat /\ losses \in Nat BY DEF Inv, Types, CountersOK
<1>1. Die => pc'[Main] = "down" /\ my'[Main].done = 0 /\ armed' = FALSE BY DEF Die, Fresh
<1>2. CASE MainStep BY <1>2, MainKeepsLeavings
<1>3. ASSUME NEW t \in Threads, Request(t) PROVE Leavings' BY <1>3, RequestKeepsLeavings
<1>4. CASE Exit
  <2>1. armed /\ Die /\ UNCHANGED <<disk, counters>> BY <1>4 DEF Exit
  <2>2. QED BY <1>1, <2>1 DEF Leavings, disk, counters
<1>5. CASE Crash
  <2>1. faults' # 0 /\ Die /\ UNCHANGED <<version, ddl>> BY <1>0, <1>5 DEF Crash, disk
  <2>2. QED BY <1>1, <2>1 DEF Leavings
<1>6. ASSUME NEW a \in Actors, CommitFails(a) PROVE Leavings'
  <2>1. faults' # 0 /\ UNCHANGED <<version, ddl>> BY <1>0, <1>6 DEF CommitFails, disk
  <2>2. CASE a = Main
    <3>1. Die BY <1>6, <2>2 DEF CommitFails, Raise
    <3>2. QED BY <1>1, <2>1, <3>1 DEF Leavings
  <2>3. CASE a \in Threads BY <1>6, <2>1, <2>3, RequestStays DEF Leavings
  <2>4. QED BY <2>2, <2>3
<1>7. ASSUME NEW t \in Threads, LogFails(t) PROVE Leavings'
  <2>1. faults' # 0 /\ UNCHANGED <<version, ddl>> BY <1>0, <1>7 DEF LogFails, disk
  <2>2. QED BY <1>7, <2>1, RequestStays DEF Leavings
<1>8. CASE LoseKeyFile
  <2>1. keyFile' = None /\ UNCHANGED <<version, ddl, pc, my, memory, faults>>
    BY <1>8 DEF LoseKeyFile
  <2>2. QED BY <2>1 DEF Leavings, memory
<1>9. CASE UNCHANGED vars BY <1>9 DEF vars, disk, memory, counters, Leavings
<1>10. QED BY <1>2, <1>3, <1>4, <1>5, <1>6, <1>7, <1>8, <1>9 DEF Next

\* A step of the start that ends it has found one of the five.
LEMMA StartEnds ==
    ASSUME Inv, ReadKey, Leavings, MainStep, pc[Main] # "down", pc'[Main] = "down"
    PROVE  HalfMigrated \/ EmptyKeyFile \/ LostKey \/ MixedPair \/ WeakPair
<1> USE MainParts
<1>0. /\ pc \in [Actors -> Labels] /\ losses \in Nat
      /\ \A l : Goto(Main, l) => pc'[Main] = l
  BY DEF Inv, Types, PlacesOK, CountersOK, Labels, Goto
<1>1. None \notin Keys BY DEF Keys
<1>2. CASE Create
  <2>1. pc[Main] = "migrate" /\ my[Main].done < ddl BY <1>2 DEF Create
  <2>2. ddl # 0 /\ ddl # my[Main].done BY <2>1 DEF DiskOK, Locals
  <2>3. faults > 0 BY <2>1, <2>2 DEF Leavings
  <2>4. QED BY <2>2, <2>3 DEF HalfMigrated
<1>3. CASE KeyStep(Main)
  <2>1. CASE LoadKey(Main)
    <3>1. pc[Main] = "key" BY <2>1 DEF LoadKey
    <3>2. my[Main].then # "down" BY <3>1 DEF MainOK, KeySteps
    <3>3. keyFile = Empty BY <1>0, <2>1, <3>2 DEF LoadKey
    <3>4. faults # 0 \/ losses # 0 BY <3>1, <3>3 DEF Leavings
    <3>5. QED BY <1>0, <3>3, <3>4 DEF EmptyKeyFile
  <2>2. CASE CreateKeyFile(Main) BY <1>0, <2>2 DEF CreateKeyFile
  <2>3. CASE WriteKeyFile(Main)
    <3>1. my[Main].then = "down" /\ pc[Main] = "writeKey" BY <1>0, <2>3 DEF WriteKeyFile
    <3>2. QED BY <3>1 DEF MainOK, KeySteps
  <2>4. QED BY <1>3, <2>1, <2>2, <2>3 DEF KeyStep
<1>4. CASE Unwrap
  <2>1. pc[Main] = "unwrap" /\ my[Main].row.under # my[Main].key BY <1>0, <1>4 DEF Unwrap
  <2>2. tls # None /\ my[Main].row = tls /\ tls \in Row BY <2>1 DEF MainOK, For, DiskOK
  <2>3. keyFile = None \/ my[Main].key = keyFile BY <2>1 DEF ReadKey
  <2>4. tls.under # keyFile BY <1>1, <2>1, <2>2, <2>3 DEF Row
  <2>5. losses # 0 BY <2>2, <2>4 DEF Inv, SecretsUsable
  <2>6. QED BY <1>0, <2>2, <2>4, <2>5 DEF LostKey
<1>5. CASE LoadPair
  <2>1. pc[Main] = "load" /\ (files.crt # files.key \/ files.crt \in Weak)
    BY <1>0, <1>5 DEF LoadPair
  <2>2. tls # None /\ files = PairOf(tls) BY <2>1 DEF MainOK
  <2>3. tls.crt # tls.key \/ tls.crt \in Weak BY <2>1, <2>2 DEF PairOf
  <2>4. tls.crt # tls.key => overlapped BY <2>2 DEF Inv, SecretsUsable
  <2>5. QED BY <2>2, <2>3, <2>4 DEF MixedPair, WeakPair
<1>6. CASE LoadIntermediate(Main)
  <2>1. pc[Main] = "unwrapCa" /\ inter # my[Main].key BY <1>0, <1>6 DEF LoadIntermediate
  <2>2. inter # None /\ (keyFile = None \/ my[Main].key = keyFile) BY <2>1 DEF ReadKey, For
  <2>3. inter # keyFile BY <1>1, <2>1, <2>2 DEF DiskOK
  <2>4. losses # 0 BY <2>2, <2>3 DEF Inv, SecretsUsable
  <2>5. QED BY <1>0, <2>2, <2>3, <2>4 DEF LostKey
<1>7. CASE Stamp BY <1>7 DEF Stamp
<1>8. CASE Start \/ Migrated \/ Ensure \/ Store \/ WriteCrt \/ WritePem
  BY <1>0, <1>8 DEF Start, Migrated, Ensure, Store, WriteCrt, WritePem, KeyThen
<1>9. CASE MakeAdmin \/ LogAdmin \/ FindIntermediate \/ Serve
  BY <1>0, <1>9 DEF MakeAdmin, LogAdmin, FindIntermediate, KeyThen, Serve
<1>10. QED BY <1>2, <1>3, <1>4, <1>5, <1>6, <1>7, <1>8, <1>9 DEF MainStep

Cause ==
    \/ armed \/ faults' # faults
    \/ HalfMigrated \/ EmptyKeyFile \/ LostKey \/ MixedPair \/ WeakPair

LEMMA StepStops ==
    ASSUME Inv, ReadKey, Leavings, [Next]_vars, pc[Main] # "down", pc'[Main] = "down"
    PROVE  Cause
<1>1. CASE MainStep BY <1>1, StartEnds DEF Cause
<1>2. CASE Exit BY <1>2 DEF Exit, Cause
<1>3. CASE Crash \/ \E a \in Actors : CommitFails(a)
  BY <1>3, MainParts DEF Crash, CommitFails, Cause
<1>4. ASSUME NEW t \in Threads, Request(t) \/ LogFails(t) PROVE FALSE BY <1>4, RequestStays
<1>5. CASE LoseKeyFile \/ UNCHANGED vars BY <1>5 DEF LoseKeyFile, vars
<1>6. QED BY <1>1, <1>2, <1>3, <1>4, <1>5 DEF Next

\* A process ends only to serve a replaced pair, at a fault, or in a start that raises on
\* one of five things, each of which names what left it: a revision half applied or an
\* empty key file on account of a fault (or of the loss of the file), secrets under a lost
\* key, a pair that two overlapping replacements have mixed, and an uploaded pair that
\* the TLS library refuses.
THEOREM AlwaysStopsForACause == Spec => StopsForACause
<1>1. Init => ReadKey /\ Leavings
  <2>1. Len(Revisions) # 0 BY DEF Revisions
  <2>2. QED BY <2>1 DEF Init, ReadKey, Leavings, For, KeySteps, Fresh
<1>2. Inv /\ ReadKey /\ Leavings /\ [Next]_vars => ReadKey' /\ Leavings'
  BY StepReadKey, StepLeavings
<1>3. Spec => [](ReadKey /\ Leavings) BY <1>1, <1>2, AlwaysInv, PTL DEF Spec
<1>4. Inv /\ ReadKey /\ Leavings /\ [Next]_vars
      => [ pc[Main] # "down" /\ pc'[Main] = "down"
           => \/ armed \/ faults' # faults
              \/ HalfMigrated \/ EmptyKeyFile \/ LostKey \/ MixedPair \/ WeakPair ]_vars
  BY StepStops DEF Cause
<1>5. QED BY <1>3, <1>4, AlwaysInv, PTL DEF Spec, StopsForACause
=============================================================================
