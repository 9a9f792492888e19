-------------------------- MODULE CaLifecycleProofs --------------------------
(* What TLAPS proves of CaLifecycle, for any number of rows, administrators, *)
(* passphrases and faults.                                                   *)
EXTENDS CaLifecycle, TLAPS, WellFoundedInduction, FiniteSetTheorems

-----------------------------------------------------------------------------
(* The first row of a kind, and what inserting a row does to it *)

\* A set of row ids has a least element.
LEMMA LeastId ==
    ASSUME NEW S, S \subseteq Nat, S # {}
    PROVE  \E i \in S : \A j \in S : i <= j
<1> DEFINE R == OpToRel(<, Nat)
<1>1. IsWellFoundedOn(R, Nat) BY NatLessThanWellFounded
<1>2. PICK i \in S : \A j \in S : ~ (<<j, i>> \in R)
  <2> HIDE DEF R
  <2> QED BY <1>1, WFMin
<1>3. \A j \in S : j < i => <<j, i>> \in R BY DEF OpToRel
<1>4. \A j \in S : ~(j < i)
  <2> HIDE DEF R
  <2> QED BY <1>2, <1>3
<1>5. \A j \in S : i <= j
  <2> HIDE DEF R
  <2> QED BY <1>4
<1>6. QED BY <1>5

\* Adding a greater id to a set does not change its least element.
LEMMA LeastStays ==
    ASSUME NEW S, NEW T, NEW i \in Nat, NEW f \in S, S \subseteq Nat,
           \A j \in S : f <= j, f < i, S \subseteq T, T \subseteq S \cup {i}
    PROVE  /\ f \in T
           /\ \A j \in T : f <= j
           /\ \A g \in T : (\A j \in T : g <= j) => g = f
<1>1. f \in T /\ f \in Nat OBVIOUS
<1>2. ASSUME NEW j \in T PROVE f <= j
  <2>1. j \in S \/ j = i OBVIOUS
  <2>2. QED BY <2>1
<1>3. ASSUME NEW g \in T, \A j \in T : g <= j PROVE g = f
  <2>1. g <= f /\ f <= g BY <1>1, <1>2, <1>3
  <2>2. g \in Nat OBVIOUS
  <2>3. QED BY <1>1, <2>1, <2>2
<1>4. QED BY <1>1, <1>2, <1>3

\* The queries return the row with the lowest id of those there are.
LEMMA FirstIsLeast ==
    ASSUME NEW kind, RowsOf(kind) # {}
    PROVE  /\ First(kind) \in RowsOf(kind)
           /\ \A j \in RowsOf(kind) : First(kind) <= j
<1>1. RowsOf(kind) \subseteq Nat BY ConstantsAssumption DEF RowsOf, Ids
<1>2. \E i \in RowsOf(kind) : \A j \in RowsOf(kind) : i <= j BY <1>1, LeastId
<1>3. QED BY <1>2 DEF First

\* They return None exactly when there is no row.
LEMMA FirstOrNone ==
    ASSUME NEW kind
    PROVE  /\ First(kind) \in Ids \cup {None}
           /\ First(kind) = None <=> RowsOf(kind) = {}
<1>1. CASE RowsOf(kind) = {} BY <1>1 DEF First
<1>2. CASE RowsOf(kind) # {}
  <2>1. First(kind) \in Ids BY <1>2, FirstIsLeast DEF RowsOf
  <2>2. QED BY <2>1, <1>2, ConstantsAssumption
<1>3. QED BY <1>1, <1>2

\* Rows are inserted in the order of their ids.
Dense == \A i, j \in Ids : j < i /\ type[i] # "absent" => type[j] # "absent"

\* A new row comes after all others, so it is first of its kind only if it is
\* the only one.
LEMMA Inserted ==
    ASSUME type \in [Ids -> {"absent", "root", "intermediate"}], Dense,
           NEW i \in Ids, Fresh(i),
           NEW k \in {"root", "intermediate"}, type' = [type EXCEPT ![i] = k]
    PROVE  /\ Dense'
           /\ \A kind \in {"root", "intermediate"} :
                First(kind) # None => First(kind)' = First(kind)
           /\ First(k)' # None
           /\ RowsOf(k)' = RowsOf(k) \cup {i}
           /\ \A kind \in {"root", "intermediate"} : kind # k => RowsOf(kind)' = RowsOf(kind)
<1> USE ConstantsAssumption DEF Ids
<1>1. \A j \in Ids : type[j] # "absent" => j < i BY DEF Fresh, Dense
<1>2. Dense' BY <1>1 DEF Dense, Fresh
<1>3. RowsOf(k)' = RowsOf(k) \cup {i} BY DEF RowsOf
<1>4. \A kind \in {"root", "intermediate"} : kind # k => RowsOf(kind)' = RowsOf(kind)
  BY DEF RowsOf, Fresh
<1>5. ASSUME NEW kind \in {"root", "intermediate"}, First(kind) # None
      PROVE  First(kind)' = First(kind)
  <2> DEFINE f == First(kind)
  <2>1. f \in RowsOf(kind) /\ \A j \in RowsOf(kind) : f <= j
    BY <1>5, FirstIsLeast, FirstOrNone
  <2>2. f < i BY <2>1, <1>1 DEF RowsOf
  <2>3. RowsOf(kind)' \subseteq RowsOf(kind) \cup {i} /\ RowsOf(kind) \subseteq RowsOf(kind)'
    BY <1>3, <1>4
  <2>4. RowsOf(kind) \subseteq Nat /\ i \in Nat BY DEF RowsOf
  <2>5. /\ f \in RowsOf(kind)'
        /\ \A j \in RowsOf(kind)' : f <= j
        /\ \A g \in RowsOf(kind)' : (\A j \in RowsOf(kind)' : g <= j) => g = f
    <3> HIDE DEF f
    <3> QED BY <2>1, <2>2, <2>3, <2>4, LeastStays
  <2>6. QED BY <2>5 DEF First
<1>6. First(k)' # None
  <2>1. RowsOf(k)' # {} /\ RowsOf(k)' \subseteq Nat BY <1>3 DEF RowsOf
  <2>2. \E g \in RowsOf(k)' : \A j \in RowsOf(k)' : g <= j BY <2>1, LeastId
  <2>3. First(k)' \in RowsOf(k)' BY <2>1, <2>2 DEF First
  <2>4. RowsOf(k)' \subseteq Ids BY DEF RowsOf
  <2>5. QED BY <2>3, <2>4
<1>7. QED BY <1>2, <1>3, <1>4, <1>5, <1>6

\* Who leaves the table alone leaves the queries alone.
LEMMA SameRows ==
    ASSUME UNCHANGED type
    PROVE  /\ \A kind : RowsOf(kind)' = RowsOf(kind) /\ First(kind)' = First(kind)
           /\ Dense' <=> Dense
<1>1. \A kind : RowsOf(kind)' = RowsOf(kind) BY DEF RowsOf
<1>2. ASSUME NEW kind PROVE First(kind)' = First(kind)
  BY DEF First, RowsOf
<1>3. Dense' <=> Dense BY DEF Dense
<1>4. QED BY <1>1, <1>2, <1>3

-----------------------------------------------------------------------------
(* The inductive invariant *)

\* What a thread has found out and still relies on: it is going to log an
\* action, an intermediate is signed below the first root, a leaf below the
\* first intermediate.
Threaded(t) ==
    /\ pc[t] \notin {"idle", "signLeaf"} /\ t # Job => event[t] \in Events
    /\ pc[t] = "insertRoot" => given[t] \in Passphrases
    /\ pc[t] = "insertInter" => given[t] = First("root") /\ First("root") # None
    /\ pc[t] \in {"unlock", "stamp"} /\ event[t] = "ca.root_init" => own[t] \in Ids
    /\ pc[t] = "loadInter" => own[t] \in Ids
    /\ pc[t] = "signLeaf" => /\ own[t] = First("intermediate")
                            /\ interKey = First("intermediate")
                            /\ First("intermediate") # None

\* There is no intermediate without a root.
Grounded == RowsOf("intermediate") # {} => First("root") # None

IInv ==
    /\ TypeOK
    /\ Grounded
    /\ Dense
    /\ VaultMatchesTable
    /\ ChainsVerify
    /\ \A t \in Threads : Threaded(t)

\* Nothing changes what the queries return once they return something.
FirstKept ==
    \A kind \in {"root", "intermediate"} : First(kind) # None => First(kind)' = First(kind)

\* A thread that does not move keeps what it relies on.
LEMMA Unmoved ==
    ASSUME NEW s \in Threads, Threaded(s), FirstKept,
           pc'[s] = pc[s], own'[s] = own[s], given'[s] = given[s], event'[s] = event[s],
           interKey' \in {interKey, First("intermediate")'}
    PROVE  Threaded(s)'
BY DEF Threaded, FirstKept

\* A step that inserts no CA and signs no leaf; the vault is left alone, emptied
\* of the root's key, or filled with what the queries lead to.
LEMMA NoRowInserted ==
    ASSUME IInv, UNCHANGED <<type, parent, signedBy, leaves>>,
           rootKey' \in {rootKey, None, First("root")},
           interKey' \in {interKey, First("intermediate")}
    PROVE  /\ Dense' /\ Grounded' /\ VaultMatchesTable' /\ ChainsVerify' /\ FirstKept
           /\ interKey' \in {interKey, First("intermediate")'}
<1>1. /\ \A kind : RowsOf(kind)' = RowsOf(kind) /\ First(kind)' = First(kind)
      /\ Dense'
  BY SameRows DEF IInv
<1>2. VaultMatchesTable' BY <1>1 DEF IInv, VaultMatchesTable
<1>3. ChainsVerify' BY <1>1 DEF IInv, ChainsVerify
<1>4. Grounded' BY <1>1 DEF IInv, Grounded
<1>5. QED BY <1>1, <1>2, <1>3, <1>4 DEF FirstKept

\* Requests that end leave no claim behind, and move no other thread.
LEMMA FinishTypes ==
    ASSUME TypeOK, NEW T \in SUBSET Threads, Finish(T)
    PROVE  /\ pc' \in [Threads -> Steps]
           /\ own' \in [Threads -> Ids \cup {None}]
           /\ given' \in [Threads -> Passphrases \cup Ids \cup {None}]
           /\ event' \in [Threads -> Events \cup {None}]
           /\ pc'[Job] \in {"idle", "lock", "lockStamp"}
           /\ \A t \in Threads : pc'[t] \in {"crl", "signLeaf"} => own'[t] \in Ids
           /\ \A t \in T : Threaded(t)'
           /\ \A t \in Threads \ T : /\ pc'[t] = pc[t] /\ own'[t] = own[t]
                                     /\ given'[t] = given[t] /\ event'[t] = event[t]
<1>1. \A t \in T : pc'[t] = "idle" BY DEF Finish
<1>2. \A t \in T : Threaded(t)' BY <1>1 DEF Threaded
<1>3. \A t \in Threads \ T : /\ pc'[t] = pc[t] /\ own'[t] = own[t]
                              /\ given'[t] = given[t] /\ event'[t] = event[t]
  BY DEF Finish
<1>4. /\ pc' \in [Threads -> Steps]
      /\ own' \in [Threads -> Ids \cup {None}]
      /\ given' \in [Threads -> Passphrases \cup Ids \cup {None}]
      /\ event' \in [Threads -> Events \cup {None}]
  BY DEF Finish, TypeOK, Steps
<1>5. pc'[Job] \in {"idle", "lock", "lockStamp"}
  BY <1>1, <1>3 DEF TypeOK, Threads
<1>6. \A t \in Threads : pc'[t] \in {"crl", "signLeaf"} => own'[t] \in Ids
  BY <1>1, <1>3 DEF TypeOK
<1>7. QED BY <1>2, <1>3, <1>4, <1>5, <1>6

\* An empty table, an empty vault and idle threads.
LEMMA InitInv == Init => IInv
<1> SUFFICES ASSUME Init PROVE IInv
  OBVIOUS
<1>1. TypeOK BY ConstantsAssumption DEF Init, TypeOK, Steps, Threads
<1>2. \A kind \in {"root", "intermediate"} : RowsOf(kind) = {} BY DEF Init, RowsOf
<1>3. Dense BY DEF Init, Dense
<1>4. VaultMatchesTable BY DEF Init, VaultMatchesTable
<1>5. ChainsVerify BY <1>2 DEF Init, ChainsVerify
<1>6. \A t \in Threads : Threaded(t) BY DEF Init, Threaded
<1>7. QED BY <1>1, <1>2, <1>3, <1>4, <1>5, <1>6 DEF IInv, Grounded
-----------------------------------------------------------------------------
(* Steps *)

\* A step of one thread that inserts no row and signs no leaf keeps the
\* invariant if it keeps the types and what this thread relies on.
LEMMA OneThreadMoves ==
    ASSUME IInv, NEW t \in Threads, TypeOK',
           UNCHANGED <<type, parent, signedBy, leaves>>,
           rootKey' \in {rootKey, None, First("root")},
           interKey' \in {interKey, First("intermediate")},
           Threaded(t)',
           \A s \in Threads \ {t} : /\ pc'[s] = pc[s] /\ own'[s] = own[s]
                                    /\ given'[s] = given[s] /\ event'[s] = event[s]
    PROVE  IInv'
<1>1. /\ Dense' /\ Grounded' /\ VaultMatchesTable' /\ ChainsVerify' /\ FirstKept
      /\ interKey' \in {interKey, First("intermediate")'}
  BY NoRowInserted
<1>2. \A s \in Threads \ {t} : Threaded(s)' BY <1>1, Unmoved DEF IInv
<1>3. QED BY <1>1, <1>2 DEF IInv

\* The two actions that insert a row: the first row of each kind stays, so
\* the vault, the chains and the other threads are as they were.
LEMMA OneRowInserted ==
    ASSUME IInv, NEW t \in Threads, NEW i \in Ids, Fresh(i), TypeOK',
           NEW k \in {"root", "intermediate"}, type' = [type EXCEPT ![i] = k],
           \A j \in Ids \ {i} : parent'[j] = parent[j] /\ signedBy'[j] = signedBy[j],
           k = "intermediate" => /\ First("root") # None
                                 /\ parent'[i] = First("root") /\ signedBy'[i] = First("root"),
           UNCHANGED <<leaves, rootKey, interKey>>,
           Threaded(t)',
           \A s \in Threads \ {t} : /\ pc'[s] = pc[s] /\ own'[s] = own[s]
                                    /\ given'[s] = given[s] /\ event'[s] = event[s]
    PROVE  IInv'
<1>1. /\ Dense' /\ FirstKept
      /\ RowsOf(k)' = RowsOf(k) \cup {i}
      /\ \A kind \in {"root", "intermediate"} : kind # k => RowsOf(kind)' = RowsOf(kind)
  BY Inserted DEF IInv, TypeOK, FirstKept
<1>2. \A s \in Threads \ {t} : Threaded(s)' BY <1>1, Unmoved DEF IInv
<1>3. VaultMatchesTable'
  BY <1>1, FirstOrNone, ConstantsAssumption DEF IInv, VaultMatchesTable, FirstKept
<1>4. \A leaf \in leaves' : leaf.key = leaf.ca /\ type'[leaf.ca] = "intermediate"
  BY DEF IInv, ChainsVerify, Fresh, TypeOK
<1>5. ASSUME NEW j \in RowsOf("intermediate")'
      PROVE  signedBy'[j] = First("root")' /\ parent'[j] = First("root")'
  <2>1. CASE j = i
    <3>1. k = "intermediate" BY <1>5, <2>1 DEF RowsOf, IInv, TypeOK
    <3>2. QED BY <1>1, <2>1, <3>1 DEF FirstKept
  <2>2. CASE j # i
    <3>1. j \in RowsOf("intermediate") /\ j \in Ids BY <1>1, <2>2 DEF RowsOf
    <3>2. signedBy[j] = First("root") /\ parent[j] = First("root")
      BY <3>1 DEF IInv, ChainsVerify
    <3>3. First("root") # None BY <3>1 DEF IInv, Grounded
    <3>4. QED BY <1>1, <2>2, <3>1, <3>2, <3>3 DEF FirstKept
  <2>3. QED BY <2>1, <2>2
<1>6. Grounded'
  <2>1. CASE k = "intermediate"
    <3>1. First("root")' = First("root") BY <1>1, <2>1 DEF FirstKept
    <3>2. QED BY <2>1, <3>1 DEF Grounded
  <2>2. CASE k = "root"
    <3>1. First("root")' # None BY <2>2, Inserted DEF IInv, TypeOK
    <3>2. QED BY <3>1 DEF Grounded
  <2>3. QED BY <2>1, <2>2
<1>7. QED BY <1>1, <1>2, <1>3, <1>4, <1>5, <1>6 DEF IInv, ChainsVerify

\* The end of requests keeps the invariant when nothing but the audit log or,
\* in a restart, the vault changes with it.
LEMMA FinishKeeps ==
    ASSUME IInv, TypeOK', NEW T \in SUBSET Threads, Finish(T), UNCHANGED table,
           UNCHANGED leaves, rootKey' \in {rootKey, None},
           interKey' \in {interKey, First("intermediate")}
    PROVE  IInv'
<1>1. UNCHANGED <<type, parent, signedBy, leaves>> BY DEF table
<1>2. /\ Dense' /\ VaultMatchesTable' /\ ChainsVerify' /\ FirstKept
      /\ interKey' \in {interKey, First("intermediate")'}
  BY <1>1, NoRowInserted
<1>3. /\ \A t \in T : Threaded(t)'
      /\ \A t \in Threads \ T : /\ pc'[t] = pc[t] /\ own'[t] = own[t]
                                /\ given'[t] = given[t] /\ event'[t] = event[t]
  BY FinishTypes DEF IInv
<1>4. \A t \in Threads \ T : Threaded(t)' BY <1>2, <1>3, Unmoved DEF IInv
<1>5. Dense' /\ Grounded'
  BY <1>1, NoRowInserted
<1>6. QED BY <1>2, <1>3, <1>4, <1>5 DEF IInv

\* Every step keeps the invariant.
LEMMA StepInv ==
    ASSUME IInv, [Next]_vars
    PROVE  IInv'
<1> USE ConstantsAssumption DEF Threads, vault, db, table, locals, book
<1>0. /\ TypeOK /\ VaultMatchesTable /\ ChainsVerify
      /\ \A t \in Threads : Threaded(t)
      /\ First("root") \in Ids \cup {None} /\ First("intermediate") \in Ids \cup {None}
  BY FirstOrNone DEF IInv
<1>1. ASSUME NEW t \in Admins, NEW p \in Passphrases, InitRootBegin(t, p) PROVE IInv'
  <2>0. doubled' \subseteq {"root", "intermediate"} BY <1>0, <1>1 DEF InitRootBegin, NoteDouble, TypeOK
  <2>1. TypeOK' BY <1>0, <1>1, <2>0 DEF InitRootBegin, Goto, TypeOK, Threaded, Steps, Events
  <2>2. Threaded(t)'
    BY <1>0, <1>1, SameRows DEF InitRootBegin, Goto, TypeOK, Threaded, Events, VaultMatchesTable
  <2>3. QED BY <1>1, <2>1, <2>2, OneThreadMoves DEF InitRootBegin, Goto, TypeOK
<1>2. ASSUME NEW t \in Admins, NEW p \in Passphrases, UnlockBegin(t, p) PROVE IInv'
  <2>1. TypeOK' BY <1>0, <1>2 DEF UnlockBegin, Goto, TypeOK, Threaded, Steps, Events
  <2>2. Threaded(t)'
    BY <1>0, <1>2, SameRows DEF UnlockBegin, Goto, TypeOK, Threaded, Events, VaultMatchesTable
  <2>3. QED BY <1>2, <2>1, <2>2, OneThreadMoves DEF UnlockBegin, Goto, TypeOK
<1>3. ASSUME NEW t \in Threads, UnlockKey(t) PROVE IInv'
  <2>0. torn' \in BOOLEAN
    <3>1. torn' = Locking BY <1>3 DEF UnlockKey
    <3>2. Locking \in BOOLEAN BY DEF Locking
    <3>3. QED BY <3>1, <3>2
  <2>1. TypeOK' BY <1>0, <1>3, <2>0 DEF UnlockKey, Goto, TypeOK, Threaded, Steps, Events
  <2>2. Threaded(t)'
    BY <1>0, <1>3, SameRows DEF UnlockKey, Goto, TypeOK, Threaded, Events, VaultMatchesTable
  <2>3. QED BY <1>3, <2>1, <2>2, OneThreadMoves DEF UnlockKey, Goto, TypeOK
<1>4. ASSUME NEW t \in Threads, UnlockStamp(t) PROVE IInv'
  <2>1. TypeOK' BY <1>0, <1>4 DEF UnlockStamp, Goto, TypeOK, Threaded, Steps, Events, AfterUnlock
  <2>2. Threaded(t)'
    BY <1>0, <1>4, SameRows DEF UnlockStamp, Goto, TypeOK, Threaded, Events, VaultMatchesTable, AfterUnlock
  <2>3. QED BY <1>4, <2>1, <2>2, OneThreadMoves DEF UnlockStamp, Goto, TypeOK
<1>5. ASSUME NEW t \in Threads, UnlockRefused(t) PROVE IInv'
  <2>1. TypeOK' BY <1>0, <1>5 DEF UnlockRefused, Goto, TypeOK, Threaded, Steps, Events, AfterUnlock
  <2>2. Threaded(t)'
    BY <1>0, <1>5, SameRows DEF UnlockRefused, Goto, TypeOK, Threaded, Events, VaultMatchesTable, AfterUnlock
  <2>3. QED BY <1>5, <2>1, <2>2, OneThreadMoves DEF UnlockRefused, Goto, TypeOK
<1>6. ASSUME NEW t \in Admins, LockBegin(t) PROVE IInv'
  <2>1. TypeOK' BY <1>0, <1>6 DEF LockBegin, Goto, TypeOK, Threaded, Steps, Events
  <2>2. Threaded(t)'
    BY <1>0, <1>6, SameRows DEF LockBegin, Goto, TypeOK, Threaded, Events, VaultMatchesTable
  <2>3. QED BY <1>6, <2>1, <2>2, OneThreadMoves DEF LockBegin, Goto, TypeOK
<1>7. ASSUME NEW t \in Threads, LockKey(t) PROVE IInv'
  <2>1. TypeOK' BY <1>0, <1>7 DEF LockKey, Goto, TypeOK, Threaded, Steps, Events
  <2>2. Threaded(t)'
    BY <1>0, <1>7, SameRows DEF LockKey, Goto, TypeOK, Threaded, Events, VaultMatchesTable
  <2>3. QED BY <1>7, <2>1, <2>2, OneThreadMoves DEF LockKey, Goto, TypeOK
<1>8. ASSUME NEW t \in Threads, LockStamp(t) PROVE IInv'
  <2>1. TypeOK' BY <1>0, <1>8 DEF LockStamp, Goto, TypeOK, Threaded, Steps, Events
  <2>2. Threaded(t)'
    BY <1>0, <1>8, SameRows DEF LockStamp, Goto, TypeOK, Threaded, Events, VaultMatchesTable
  <2>3. QED BY <1>8, <2>1, <2>2, OneThreadMoves DEF LockStamp, Goto, TypeOK
<1>9. ASSUME NEW t \in Admins, InitInterBegin(t) PROVE IInv'
  <2>0. doubled' \subseteq {"root", "intermediate"} BY <1>0, <1>9 DEF InitInterBegin, NoteDouble, TypeOK
  <2>1. TypeOK' BY <1>0, <1>9, <2>0 DEF InitInterBegin, Goto, TypeOK, Threaded, Steps, Events
  <2>2. Threaded(t)'
    BY <1>0, <1>9, SameRows DEF InitInterBegin, Goto, TypeOK, Threaded, Events, VaultMatchesTable
  <2>3. QED BY <1>9, <2>1, <2>2, OneThreadMoves DEF InitInterBegin, Goto, TypeOK
<1>10. ASSUME NEW t \in Threads, LoadInter(t) PROVE IInv'
  <2>1. TypeOK' BY <1>0, <1>10 DEF LoadInter, Goto, TypeOK, Threaded, Steps, Events
  <2>2. Threaded(t)'
    BY <1>0, <1>10, SameRows DEF LoadInter, Goto, TypeOK, Threaded, Events, VaultMatchesTable
  <2>3. QED BY <1>10, <2>1, <2>2, OneThreadMoves DEF LoadInter, Goto, TypeOK
<1>11. ASSUME NEW t \in Threads, FirstCrl(t) PROVE IInv'
  <2>1. TypeOK' BY <1>0, <1>11 DEF FirstCrl, Goto, TypeOK, Threaded, Steps, Events, IssuerKey
  <2>2. Threaded(t)'
    BY <1>0, <1>11, SameRows DEF FirstCrl, Goto, TypeOK, Threaded, Events, VaultMatchesTable
  <2>3. QED BY <1>11, <2>1, <2>2, OneThreadMoves DEF FirstCrl, Goto, TypeOK
<1>12. ASSUME NEW t \in Admins, IssueBegin(t) PROVE IInv'
  <2>1. TypeOK' BY <1>0, <1>12 DEF IssueBegin, Goto, TypeOK, Threaded, Steps, Events
  <2>2. Threaded(t)'
    BY <1>0, <1>12, SameRows DEF IssueBegin, Goto, TypeOK, Threaded, Events, VaultMatchesTable
  <2>3. QED BY <1>12, <2>1, <2>2, OneThreadMoves DEF IssueBegin, Goto, TypeOK
<1>13. ASSUME NEW t \in Threads, NEW i \in Ids, InsertRoot(t, i) PROVE IInv'
  <2>1. TypeOK' BY <1>0, <1>13 DEF InsertRoot, Goto, TypeOK, Threaded, Steps
  <2>2. Threaded(t)' BY <1>0, <1>13 DEF InsertRoot, Goto, TypeOK, Threaded
  <2>3. Fresh(i) /\ type' = [type EXCEPT ![i] = "root"] BY <1>13 DEF InsertRoot
  <2>4. /\ \A j \in Ids \ {i} : parent'[j] = parent[j] /\ signedBy'[j] = signedBy[j]
        /\ \A s \in Threads \ {t} : /\ pc'[s] = pc[s] /\ own'[s] = own[s]
                                   /\ given'[s] = given[s] /\ event'[s] = event[s]
        /\ UNCHANGED <<leaves, rootKey, interKey>>
    BY <1>0, <1>13 DEF InsertRoot, Goto, TypeOK
  <2>5. QED BY <2>1, <2>2, <2>3, <2>4, OneRowInserted
<1>14. ASSUME NEW t \in Threads, NEW i \in Ids, InsertInter(t, i) PROVE IInv'
  <2>1. given[t] = First("root") /\ rootKey = First("root") /\ First("root") \in Ids
    BY <1>0, <1>14 DEF InsertInter, Threaded, VaultMatchesTable
  <2>2. TypeOK' BY <1>0, <1>14, <2>1 DEF InsertInter, Goto, TypeOK, Threaded, Steps
  <2>3. Threaded(t)' BY <1>0, <1>14 DEF InsertInter, Goto, TypeOK, Threaded
  <2>4. Fresh(i) /\ type' = [type EXCEPT ![i] = "intermediate"] BY <1>14 DEF InsertInter
  <2>5. parent'[i] = First("root") /\ signedBy'[i] = First("root") /\ First("root") # None
    BY <1>0, <1>14, <2>1 DEF InsertInter, TypeOK
  <2>6. /\ \A j \in Ids \ {i} : parent'[j] = parent[j] /\ signedBy'[j] = signedBy[j]
        /\ \A s \in Threads \ {t} : /\ pc'[s] = pc[s] /\ own'[s] = own[s]
                                   /\ given'[s] = given[s] /\ event'[s] = event[s]
        /\ UNCHANGED <<leaves, rootKey, interKey>>
    BY <1>0, <1>14 DEF InsertInter, Goto, TypeOK
  <2>7. QED BY <2>2, <2>3, <2>4, <2>5, <2>6, OneRowInserted
<1>15. ASSUME NEW t \in Threads, InsertInterFails(t) PROVE IInv'
  <2>1. Finish({t}) /\ {t} \in SUBSET Threads BY <1>15 DEF InsertInterFails
  <2>2. TypeOK' BY <1>0, <1>15, <2>1, FinishTypes DEF InsertInterFails, TypeOK
  <2>3. QED BY <1>15, <2>1, <2>2, FinishKeeps DEF InsertInterFails
<1>16. ASSUME NEW t \in Threads, Log(t) PROVE IInv'
  <2>1. Finish({t}) /\ {t} \in SUBSET Threads BY <1>16 DEF Log
  <2>2. event[t] \in Events /\ own[t] \in Ids \cup {None} BY <1>0, <1>16 DEF Log, Threaded, TypeOK
  <2>3. audit' \in SUBSET [action : Events, target : Ids]
    BY <1>0, <1>16, <2>2 DEF Log, TypeOK
  <2>4. TypeOK' BY <1>0, <1>16, <2>1, <2>3, FinishTypes DEF Log, TypeOK
  <2>5. QED BY <1>16, <2>1, <2>4, FinishKeeps DEF Log
<1>17. ASSUME NEW t \in Admins, CommitFails(t) PROVE IInv'
  <2>1. Finish({t}) /\ {t} \in SUBSET Threads BY <1>17 DEF CommitFails
  <2>2. TypeOK' BY <1>0, <1>17, <2>1, FinishTypes DEF CommitFails, TypeOK
  <2>3. QED BY <1>17, <2>1, <2>2, FinishKeeps DEF CommitFails
<1>18. ASSUME Restart PROVE IInv'
  <2>1. Finish(Threads) /\ Threads \in SUBSET Threads BY <1>18 DEF Restart
  <2>2. TypeOK'
    <3>1. /\ rootKey' = None /\ unlockedAt' = None /\ interKey' = First("intermediate")
          /\ faults' = faults + 1 /\ UNCHANGED <<db, doubled>>
      BY <1>18 DEF Restart
    <3>2. torn' \in BOOLEAN BY <1>18, Zenon DEF Restart
    <3>3. faults' \in Nat BY <1>0, <3>1 DEF TypeOK
    <3>4. QED BY <1>0, <2>1, <3>1, <3>2, <3>3, FinishTypes DEF TypeOK
  <2>3. QED BY <1>18, <2>1, <2>2, FinishKeeps DEF Restart
<1>19. ASSUME NEW t \in Threads, SignLeaf(t) PROVE IInv'
  <2>1. Finish({t}) /\ {t} \in SUBSET Threads BY <1>19 DEF SignLeaf
  <2>2. own[t] = First("intermediate") /\ interKey = First("intermediate")
        /\ First("intermediate") \in RowsOf("intermediate")
    BY <1>0, <1>19, FirstIsLeast, FirstOrNone DEF SignLeaf, Threaded
  <2>3. RowsOf("intermediate") \subseteq Ids BY DEF RowsOf
  <2>4. TypeOK' BY <1>0, <1>19, <2>1, <2>2, <2>3, FinishTypes DEF SignLeaf, TypeOK
  <2>5. ChainsVerify'
    <3>1. \A j \in RowsOf("intermediate") : type[j] = "intermediate" BY DEF RowsOf
    <3>2. QED BY <1>0, <1>19, <2>2, <3>1, SameRows DEF SignLeaf, ChainsVerify
  <2>6. QED
    <3>1. \A s \in Threads \ {t} : Threaded(s)'
      BY <1>0, <1>19, <2>1, FinishTypes, SameRows, Unmoved DEF SignLeaf, FirstKept
    <3>2. Threaded(t)' BY <1>0, <2>1, FinishTypes
    <3>3. Dense' /\ Grounded' /\ VaultMatchesTable'
      BY <1>19, SameRows DEF SignLeaf, IInv, Grounded, VaultMatchesTable
    <3>4. QED BY <2>4, <2>5, <3>1, <3>2, <3>3 DEF IInv
<1>20. ASSUME Age PROVE IInv'
  <2>1. TypeOK' BY <1>0, <1>20 DEF Age, TypeOK
  <2>2. Threaded(Job)' BY <1>0, <1>20, SameRows DEF Age, Goto, TypeOK, Threaded
  <2>3. QED BY <1>20, <2>1, <2>2, OneThreadMoves DEF Age, Goto, TypeOK
<1>21. ASSUME RelockBegin PROVE IInv'
  <2>1. TypeOK' BY <1>0, <1>21 DEF RelockBegin, Goto, Steps, TypeOK
  <2>2. Threaded(Job)' BY <1>0, <1>21, SameRows DEF RelockBegin, Goto, TypeOK, Threaded
  <2>3. QED BY <1>21, <2>1, <2>2, OneThreadMoves DEF RelockBegin, Goto, TypeOK
<1>22. ASSUME NEW i \in Ids, RefreshCrl(i) PROVE IInv'
  <2>1. TypeOK' BY <1>0, <1>22 DEF RefreshCrl, IssuerKey, TypeOK
  <2>2. Threaded(Job)' BY <1>0, <1>22, SameRows DEF RefreshCrl, Goto, TypeOK, Threaded
  <2>3. QED BY <1>22, <2>1, <2>2, OneThreadMoves DEF RefreshCrl, Goto, TypeOK
<1>23. ASSUME UNCHANGED vars PROVE IInv'
  <2>1. TypeOK' BY <1>0, <1>23 DEF vars, TypeOK
  <2>2. Dense' /\ Grounded' /\ VaultMatchesTable' /\ ChainsVerify' /\ FirstKept
    BY <1>23, NoRowInserted DEF vars
  <2>3. \A t \in Threads : Threaded(t)' BY <1>0, <1>23, <2>2, Unmoved DEF vars
  <2>4. QED BY <2>1, <2>2, <2>3 DEF IInv
<1>24. QED
  BY <1>1, <1>2, <1>3, <1>4, <1>5, <1>6, <1>7, <1>8, <1>9, <1>10, <1>11, <1>12, <1>13, <1>14, <1>15, <1>16, <1>17, <1>18, <1>19, <1>20, <1>21, <1>22, <1>23 DEF Next, Begin, Step

\* The inductive invariant holds throughout.
THEOREM Invariance == Spec => []IInv
BY InitInv, StepInv, PTL DEF Spec

\* Type correctness: rows, vault and threads are what the code's types say, and
\* a thread that publishes a CRL or signs a leaf has a CA to do it for.
THEOREM TypeCorrect == Spec => []TypeOK
<1>1. IInv => TypeOK BY DEF IInv
<1>2. QED BY <1>1, Invariance, PTL

\* Every chain the API hands out verifies, with any number of concurrent
\* initialisations, unlocks, locks, failed commits and restarts.
THEOREM ChainsAlwaysVerify == Spec => []ChainsVerify
<1>1. IInv => ChainsVerify BY DEF IInv
<1>2. QED BY <1>1, Invariance, PTL

\* The keys in memory are those of the root and of the intermediate that the
\* queries return, even where races leave several of them in the table.
THEOREM VaultAlwaysMatches == Spec => []VaultMatchesTable
<1>1. IInv => VaultMatchesTable BY DEF IInv
<1>2. QED BY <1>1, Invariance, PTL

-----------------------------------------------------------------------------
(* The hierarchy that is seen from outside *)

\* What wraps a root's key is a passphrase somebody gave.
Wrapped == \A i \in RowsOf("root") : passphrase[i] \in Passphrases

LEMMA InitPki == Init => Wrapped /\ Pki!Init
<1> SUFFICES ASSUME Init PROVE Wrapped /\ Pki!Init
  OBVIOUS
<1>1. \A kind \in {"root", "intermediate"} : RowsOf(kind) = {} BY DEF Init, RowsOf
<1>2. First("root") = None /\ First("intermediate") = None BY <1>1, FirstOrNone
<1>3. Chains = {} BY DEF Init, Chains
<1>4. QED BY <1>1, <1>2, <1>3 DEF Init, Wrapped, Secret, Pki!Init

\* Leaves keep their chains as long as no row they name is written.
LEMMA ChainsKept ==
    ASSUME UNCHANGED leaves,
           \A leaf \in leaves : parent'[leaf.ca] = parent[leaf.ca] /\ signedBy'[leaf.ca] = signedBy[leaf.ca]
    PROVE  Chains' = Chains
<1>1. \A leaf \in leaves : Chain(leaf)' = Chain(leaf) BY DEF Chain
<1>2. QED BY <1>1 DEF Chains

\* A step that writes no row shows at most in the vault and among the leaves.
LEMMA TableKept ==
    ASSUME UNCHANGED table
    PROVE  /\ First("root")' = First("root") /\ First("intermediate")' = First("intermediate")
           /\ Secret' = Secret
           /\ UNCHANGED leaves => Chains' = Chains
           /\ Wrapped => Wrapped'
<1>1. UNCHANGED <<type, passphrase, parent, signedBy>> BY DEF table
<1>2. /\ \A kind : RowsOf(kind)' = RowsOf(kind) /\ First(kind)' = First(kind)
  BY <1>1, SameRows
<1>3. Secret' = Secret BY <1>1, <1>2 DEF Secret
<1>4. UNCHANGED leaves => Chains' = Chains BY <1>1, ChainsKept
<1>5. Wrapped => Wrapped' BY <1>1, <1>2 DEF Wrapped
<1>6. QED BY <1>2, <1>3, <1>4, <1>5

\* A step that writes no row and signs no leaf is one of the vault, or is not seen.
LEMMA VaultStep ==
    ASSUME Wrapped, UNCHANGED <<table, leaves>>,
           \/ UNCHANGED rootKey /\ UNCHANGED interKey
           \/ Pki!Open(Secret) /\ Secret \in Passphrases
           \/ rootKey' = None /\ UNCHANGED interKey
           \/ UNCHANGED rootKey /\ interKey' = First("intermediate")
           \/ rootKey' = None /\ interKey' = First("intermediate")
    PROVE  Wrapped' /\ [Pki!Next]_(Pki!pkiVars)
<1>1. /\ First("root")' = First("root") /\ First("intermediate")' = First("intermediate")
      /\ Secret' = Secret /\ Chains' = Chains /\ Wrapped'
  BY TableKept
<1>2. CASE UNCHANGED rootKey /\ UNCHANGED interKey BY <1>1, <1>2 DEF Pki!pkiVars
<1>3. CASE Pki!Open(Secret) /\ Secret \in Passphrases BY <1>1, <1>3 DEF Pki!Next
<1>4. CASE rootKey' = None /\ UNCHANGED interKey BY <1>1, <1>4 DEF Pki!Next, Pki!Close
<1>5. CASE UNCHANGED rootKey /\ interKey' = First("intermediate")
  BY <1>1, <1>5 DEF Pki!Next, Pki!Load
<1>6. CASE rootKey' = None /\ interKey' = First("intermediate")
  BY <1>1, <1>6 DEF Pki!Next, Pki!Restart
<1>7. QED BY <1>2, <1>3, <1>4, <1>5, <1>6

\* A row is inserted: the first of its kind founds it, another is not seen.
LEMMA RowStep ==
    ASSUME IInv, Wrapped, NEW i \in Ids, Fresh(i),
           NEW k \in {"root", "intermediate"}, type' = [type EXCEPT ![i] = k],
           \A j \in Ids \ {i} : /\ parent'[j] = parent[j] /\ signedBy'[j] = signedBy[j]
                                /\ passphrase'[j] = passphrase[j],
           k = "root" => passphrase'[i] \in Passphrases,
           k = "intermediate" => rootKey # None,
           UNCHANGED <<leaves, rootKey, interKey>>
    PROVE  Wrapped' /\ [Pki!Next]_(Pki!pkiVars)
<1>0. type \in [Ids -> {"absent", "root", "intermediate"}] /\ leaves \in SUBSET [ca : Ids, key : Ids]
  BY DEF IInv, TypeOK
<1>1. /\ \A kind \in {"root", "intermediate"} : First(kind) # None => First(kind)' = First(kind)
      /\ RowsOf(k)' = RowsOf(k) \cup {i}
      /\ \A kind \in {"root", "intermediate"} : kind # k => RowsOf(kind)' = RowsOf(kind)
  BY <1>0, Inserted DEF IInv
<1>2. ASSUME NEW kind \in {"root", "intermediate"}, kind # k PROVE First(kind)' = First(kind)
  <2>1. RowsOf(kind)' = RowsOf(kind) BY <1>1, <1>2
  <2>2. QED BY <2>1 DEF First
<1>3. Wrapped' BY <1>1 DEF Wrapped, RowsOf, Fresh
<1>4. Chains' = Chains
  <2>1. \A leaf \in leaves : leaf.ca # i /\ leaf.ca \in Ids
    BY <1>0 DEF IInv, ChainsVerify, Fresh
  <2>2. QED BY <2>1, ChainsKept
<1>5. ASSUME First("root") # None PROVE First("root")' = First("root") /\ Secret' = Secret
  <2>1. First("root") \in RowsOf("root") BY <1>5, FirstIsLeast, FirstOrNone
  <2>2. First("root") \in Ids \ {i} BY <2>1 DEF RowsOf, Fresh
  <2>3. QED BY <1>1, <1>5, <2>2 DEF Secret
<1>6. ASSUME k # "root" PROVE Secret' = Secret
  BY <1>2, <1>5, <1>6 DEF Secret
<1>7. ASSUME First(k) = None PROVE First(k)' = i
  <2>1. RowsOf(k)' = {i} BY <1>1, <1>7, FirstOrNone
  <2>2. First(k)' = CHOOSE j \in {i} : \A n \in {i} : j <= n BY <2>1 DEF First
  <2>3. i <= i BY ConstantsAssumption DEF Ids
  <2>4. QED BY <2>2, <2>3
<1>8. CASE First(k) # None
  <2>1. /\ First("root")' = First("root") /\ First("intermediate")' = First("intermediate")
        /\ Secret' = Secret
    BY <1>1, <1>2, <1>5, <1>6, <1>8
  <2>2. QED BY <1>3, <1>4, <2>1 DEF Pki!pkiVars
<1>9. CASE First(k) = None /\ k = "root"
  <2>1. /\ First("root")' = i /\ First("intermediate")' = First("intermediate")
        /\ Secret' = passphrase'[i] /\ passphrase'[i] \in Passphrases
    BY <1>2, <1>7, <1>9, ConstantsAssumption DEF Secret
  <2>2. Pki!FoundRoot(i, passphrase'[i]) BY <1>4, <1>9, <2>1 DEF Pki!FoundRoot
  <2>3. QED BY <1>3, <2>1, <2>2 DEF Pki!Next
<1>10. CASE First(k) = None /\ k = "intermediate"
  <2>1. First("intermediate")' = i /\ First("root")' = First("root") /\ Secret' = Secret
    BY <1>2, <1>6, <1>7, <1>10
  <2>2. i # First("root")
    <3>1. First("root") # None => First("root") \in RowsOf("root") BY FirstIsLeast, FirstOrNone
    <3>2. i \notin RowsOf("root") /\ i # None BY ConstantsAssumption DEF RowsOf, Fresh
    <3>3. QED BY <3>1, <3>2
  <2>3. Pki!FoundInter(i) BY <1>4, <1>10, <2>1, <2>2 DEF Pki!FoundInter
  <2>4. QED BY <1>3, <2>3 DEF Pki!Next
<1>11. QED BY <1>8, <1>9, <1>10

\* Every step of a thread, of time or of the process is a step of the hierarchy or
\* is not seen.
LEMMA StepPki ==
    ASSUME IInv, Wrapped, [Next]_vars
    PROVE  Wrapped' /\ [Pki!Next]_(Pki!pkiVars)
<1> USE DEF vault, db, locals, book
<1>0. /\ TypeOK /\ VaultMatchesTable /\ ChainsVerify
      /\ \A t \in Threads : Threaded(t)
  BY DEF IInv
<1>1. ASSUME NEW t \in Threads, NEW i \in Ids, InsertRoot(t, i) PROVE Wrapped' /\ [Pki!Next]_(Pki!pkiVars)
  <2>1. given[t] \in Passphrases BY <1>0, <1>1 DEF InsertRoot, Threaded
  <2>2. /\ Fresh(i) /\ type' = [type EXCEPT ![i] = "root"] /\ passphrase'[i] = given[t]
        /\ \A j \in Ids \ {i} : /\ parent'[j] = parent[j] /\ signedBy'[j] = signedBy[j]
                                /\ passphrase'[j] = passphrase[j]
        /\ UNCHANGED <<leaves, rootKey, interKey>>
    BY <1>0, <1>1 DEF InsertRoot, TypeOK
  <2>3. QED BY <2>1, <2>2, RowStep
<1>2. ASSUME NEW t \in Threads, NEW i \in Ids, InsertInter(t, i) PROVE Wrapped' /\ [Pki!Next]_(Pki!pkiVars)
  <2>1. /\ Fresh(i) /\ type' = [type EXCEPT ![i] = "intermediate"] /\ rootKey # None
        /\ \A j \in Ids \ {i} : /\ parent'[j] = parent[j] /\ signedBy'[j] = signedBy[j]
                                /\ passphrase'[j] = passphrase[j]
        /\ UNCHANGED <<leaves, rootKey, interKey>>
    BY <1>0, <1>2 DEF InsertInter, TypeOK
  <2>2. QED BY <2>1, RowStep
<1>3. ASSUME NEW t \in Threads, UnlockKey(t) PROVE Wrapped' /\ [Pki!Next]_(Pki!pkiVars)
  <2>1. UNCHANGED <<table, leaves, interKey>> /\ rootKey' = First("root") /\ First("root") # None
    BY <1>3 DEF UnlockKey, Unwraps
  <2>2. Secret \in Passphrases
    BY <2>1, FirstIsLeast, FirstOrNone DEF Wrapped, Secret
  <2>3. Pki!Open(Secret) BY <2>1, TableKept DEF Pki!Open
  <2>4. QED BY <2>1, <2>2, <2>3, VaultStep
<1>4. ASSUME NEW t \in Threads, SignLeaf(t) PROVE Wrapped' /\ [Pki!Next]_(Pki!pkiVars)
  <2>1. /\ own[t] = First("intermediate") /\ interKey = First("intermediate")
        /\ First("intermediate") # None
    BY <1>0, <1>4 DEF SignLeaf, Threaded
  <2>2. /\ signedBy[First("intermediate")] = First("root")
        /\ parent[First("intermediate")] = First("root")
    BY <1>0, <2>1, FirstIsLeast, FirstOrNone DEF ChainsVerify
  <2>3. /\ UNCHANGED <<table, rootKey, interKey>>
        /\ leaves' = leaves \cup {[ca |-> own[t], key |-> interKey]}
    BY <1>4 DEF SignLeaf
  <2>4. UNCHANGED <<parent, signedBy>> BY <2>3 DEF table
  <2>5. \A leaf : Chain(leaf)' = Chain(leaf) BY <2>4 DEF Chain
  <2>6. Chains' = Chains \cup {Chain([ca |-> own[t], key |-> interKey])}
    BY <2>3, <2>5 DEF Chains
  <2>7. Chain([ca |-> own[t], key |-> interKey])
          = [names |-> <<First("intermediate"), First("root")>>, keys |-> <<interKey, First("root")>>]
    BY <2>1, <2>2 DEF Chain
  <2>8. Pki!Sign BY <2>1, <2>3, <2>6, <2>7, TableKept DEF Pki!Sign
  <2>9. QED BY <2>3, <2>8, TableKept DEF Pki!Next
<1>5. ASSUME NEW t \in Threads, LockKey(t) PROVE Wrapped' /\ [Pki!Next]_(Pki!pkiVars)
  BY <1>5, VaultStep DEF LockKey
<1>6. ASSUME NEW t \in Threads, LoadInter(t) PROVE Wrapped' /\ [Pki!Next]_(Pki!pkiVars)
  BY <1>6, VaultStep DEF LoadInter
<1>7. ASSUME Restart PROVE Wrapped' /\ [Pki!Next]_(Pki!pkiVars)
  BY <1>7, VaultStep DEF Restart
<1>8. ASSUME UNCHANGED <<table, leaves, rootKey, interKey>> PROVE Wrapped' /\ [Pki!Next]_(Pki!pkiVars)
  BY <1>8, VaultStep
<1>9. ASSUME NEW t \in Admins, Begin(t) PROVE UNCHANGED <<table, leaves, rootKey, interKey>>
  BY <1>9 DEF Begin, InitRootBegin, UnlockBegin, LockBegin, InitInterBegin, IssueBegin
<1>10. ASSUME NEW t \in Threads,
              \/ UnlockStamp(t) \/ UnlockRefused(t) \/ LockStamp(t) \/ InsertInterFails(t)
              \/ FirstCrl(t) \/ Log(t)
       PROVE  UNCHANGED <<table, leaves, rootKey, interKey>>
  BY <1>10 DEF UnlockStamp, UnlockRefused, LockStamp, InsertInterFails, FirstCrl, Log
<1>11. ASSUME NEW t \in Admins, CommitFails(t) PROVE UNCHANGED <<table, leaves, rootKey, interKey>>
  BY <1>11 DEF CommitFails
<1>12. ASSUME \/ RelockBegin \/ Age \/ (\E i \in Ids : RefreshCrl(i)) \/ UNCHANGED vars
       PROVE  UNCHANGED <<table, leaves, rootKey, interKey>>
  BY <1>12 DEF RelockBegin, Age, RefreshCrl, vars
<1>13. QED
  BY <1>1, <1>2, <1>3, <1>4, <1>5, <1>6, <1>7, <1>8, <1>9, <1>10, <1>11, <1>12 DEF Next, Step

\* services/ca_service.py and core/crypto/key_vault.py implement the hierarchy with one
\* root and one intermediate, with any number of concurrent initialisations, unlocks,
\* locks, leaves, failed commits and restarts.
THEOREM AlwaysKeepsPkiPromise == Spec => KeepsPkiPromise
<1>1. IInv /\ Wrapped /\ [Next]_vars => IInv' /\ Wrapped' /\ [Pki!Next]_(Pki!pkiVars)
  BY StepInv, StepPki
<1>2. QED BY InitInv, InitPki, <1>1, PTL DEF Spec, KeepsPkiPromise, Pki!Spec

-----------------------------------------------------------------------------
(* The audit entry of a CA's creation *)

Creation(i) == IF type[i] = "root" THEN "ca.root_init" ELSE "ca.intermediate_init"
Logged(i) == \E e \in audit : e.target = i /\ e.action = Creation(i)

\* The thread has inserted row i and will log it: neither unlocking the new
\* root, which may be refused, nor its CRL leads it elsewhere.
Creating(t, i) ==
    /\ own[t] = i
    /\ event[t] = Creation(i)
    /\ pc[t] \in {"crl", "log"} \cup IF type[i] = "root" THEN {"unlock", "stamp"} ELSE {"loadInter"}

\* Who is about to insert a row knows what it will log.
Announced(t) ==
    /\ pc[t] = "insertRoot" => event[t] = "ca.root_init"
    /\ pc[t] = "insertInter" => event[t] = "ca.intermediate_init"

LogInv ==
    /\ \A t \in Threads : Announced(t)
    /\ faults = 0 =>
         \A i \in Ids : type[i] # "absent" => Logged(i) \/ \E t \in Admins : Creating(t, i)

\* One thread moves, no row is inserted: it is still on the way to the entries
\* it owes, or has written them.
LEMMA StillLogged ==
    ASSUME LogInv, NEW t \in Threads, UNCHANGED <<type, faults>>, audit \subseteq audit',
           \A s \in Threads \ {t} : pc'[s] = pc[s] /\ own'[s] = own[s] /\ event'[s] = event[s],
           Announced(t)',
           \A i \in Ids : Creating(t, i) => Creating(t, i)' \/ Logged(i)'
    PROVE  LogInv'
<1>1. \A s \in Threads : Announced(s)' BY DEF LogInv, Announced
<1>2. \A i \in Ids : Logged(i) => Logged(i)' BY DEF Logged, Creation
<1>3. \A s \in Threads, i \in Ids : Creating(s, i) => Creating(s, i)' \/ Logged(i)'
  BY DEF Creating, Creation
<1>4. ASSUME faults' = 0, NEW i \in Ids, type'[i] # "absent"
      PROVE  Logged(i)' \/ \E s \in Admins : Creating(s, i)'
  <2>1. Logged(i) \/ \E s \in Admins : Creating(s, i) BY <1>4 DEF LogInv
  <2>2. QED BY <1>2, <1>3, <2>1 DEF Threads
<1>5. QED BY <1>1, <1>4 DEF LogInv

\* A row is inserted by the thread that will log it.
LEMMA InsertedLogged ==
    ASSUME IInv, LogInv, NEW t \in Admins, NEW i \in Ids, type[i] = "absent",
           NEW k \in {"root", "intermediate"}, type' = [type EXCEPT ![i] = k],
           UNCHANGED <<faults, audit, event>>, own' = [own EXCEPT ![t] = i],
           NEW step \in {"unlock", "loadInter"}, pc' = [pc EXCEPT ![t] = step],
           pc[t] \in {"insertRoot", "insertInter"}, Creating(t, i)'
    PROVE  LogInv'
<1> USE DEF Threads
<1>0. /\ type \in [Ids -> {"absent", "root", "intermediate"}]
      /\ pc \in [Threads -> Steps] /\ own \in [Threads -> Ids \cup {None}]
  BY DEF IInv, TypeOK
<1>1. \A s \in Threads : Announced(s)' BY <1>0 DEF LogInv, Announced
<1>2. \A j \in Ids \ {i} : type'[j] = type[j] BY <1>0
<1>3. ASSUME faults' = 0, NEW j \in Ids \ {i}, type'[j] # "absent"
      PROVE  Logged(j)' \/ \E s \in Admins : Creating(s, j)'
  <2>1. Logged(j) \/ \E s \in Admins : Creating(s, j) BY <1>2, <1>3 DEF LogInv
  <2>2. Logged(j) => Logged(j)' BY <1>2 DEF Logged, Creation
  <2>3. ASSUME NEW s \in Admins, Creating(s, j) PROVE Creating(s, j)'
    <3>1. s # t BY <2>3 DEF Creating
    <3>2. pc'[s] = pc[s] /\ own'[s] = own[s] /\ event'[s] = event[s] BY <1>0, <3>1
    <3>3. QED BY <1>2, <2>3, <3>2 DEF Creating, Creation
  <2>4. QED BY <2>1, <2>2, <2>3
<1>4. QED BY <1>1, <1>3 DEF LogInv

LEMMA InitLog == Init => LogInv
BY DEF Init, LogInv, Announced

LEMMA StepLog ==
    ASSUME IInv, LogInv, [Next]_vars
    PROVE  LogInv'
<1> USE ConstantsAssumption DEF Threads, vault, db, table, locals, book
<1>0. /\ type \in [Ids -> {"absent", "root", "intermediate"}]
      /\ pc \in [Threads -> Steps]
      /\ own \in [Threads -> Ids \cup {None}]
      /\ event \in [Threads -> Events \cup {None}]
      /\ faults \in Nat
      /\ pc[Job] \in {"idle", "lock", "lockStamp"}
      /\ \A t \in Threads : Announced(t)
  BY DEF IInv, TypeOK, LogInv
<1>1. ASSUME NEW t \in Admins, NEW p \in Passphrases, InitRootBegin(t, p) PROVE LogInv'
  <2>1. /\ UNCHANGED <<type, faults, audit>> /\ Announced(t)'
        /\ \A s \in Threads \ {t} : pc'[s] = pc[s] /\ own'[s] = own[s] /\ event'[s] = event[s]
    BY <1>0, <1>1 DEF InitRootBegin, Goto, Announced
  <2>2. \A i \in Ids : Creating(t, i) => Creating(t, i)'
    BY <1>0, <1>1, <2>1 DEF InitRootBegin, Goto, Creating, Creation
  <2>3. QED BY <2>1, <2>2, StillLogged
<1>2. ASSUME NEW t \in Admins, NEW p \in Passphrases, UnlockBegin(t, p) PROVE LogInv'
  <2>1. /\ UNCHANGED <<type, faults, audit>> /\ Announced(t)'
        /\ \A s \in Threads \ {t} : pc'[s] = pc[s] /\ own'[s] = own[s] /\ event'[s] = event[s]
    BY <1>0, <1>2 DEF UnlockBegin, Goto, Announced
  <2>2. \A i \in Ids : Creating(t, i) => Creating(t, i)'
    BY <1>0, <1>2, <2>1 DEF UnlockBegin, Goto, Creating, Creation
  <2>3. QED BY <2>1, <2>2, StillLogged
<1>3. ASSUME NEW t \in Threads, UnlockKey(t) PROVE LogInv'
  <2>1. /\ UNCHANGED <<type, faults, audit>> /\ Announced(t)'
        /\ \A s \in Threads \ {t} : pc'[s] = pc[s] /\ own'[s] = own[s] /\ event'[s] = event[s]
    BY <1>0, <1>3 DEF UnlockKey, Goto, Announced
  <2>2. \A i \in Ids : Creating(t, i) => Creating(t, i)'
    BY <1>0, <1>3, <2>1 DEF UnlockKey, Goto, Creating, Creation
  <2>3. QED BY <2>1, <2>2, StillLogged
<1>4. ASSUME NEW t \in Threads, UnlockStamp(t) PROVE LogInv'
  <2>1. /\ UNCHANGED <<type, faults, audit>> /\ Announced(t)'
        /\ \A s \in Threads \ {t} : pc'[s] = pc[s] /\ own'[s] = own[s] /\ event'[s] = event[s]
    BY <1>0, <1>4 DEF UnlockStamp, AfterUnlock, Goto, Announced
  <2>2. \A i \in Ids : Creating(t, i) => Creating(t, i)'
    BY <1>0, <1>4, <2>1 DEF UnlockStamp, AfterUnlock, Goto, Creating, Creation
  <2>3. QED BY <2>1, <2>2, StillLogged
<1>5. ASSUME NEW t \in Threads, UnlockRefused(t) PROVE LogInv'
  <2>1. /\ UNCHANGED <<type, faults, audit>> /\ Announced(t)'
        /\ \A s \in Threads \ {t} : pc'[s] = pc[s] /\ own'[s] = own[s] /\ event'[s] = event[s]
    BY <1>0, <1>5 DEF UnlockRefused, AfterUnlock, Goto, Announced
  <2>2. \A i \in Ids : Creating(t, i) => Creating(t, i)'
    BY <1>0, <1>5, <2>1 DEF UnlockRefused, AfterUnlock, Goto, Creating, Creation
  <2>3. QED BY <2>1, <2>2, StillLogged
<1>6. ASSUME NEW t \in Admins, LockBegin(t) PROVE LogInv'
  <2>1. /\ UNCHANGED <<type, faults, audit>> /\ Announced(t)'
        /\ \A s \in Threads \ {t} : pc'[s] = pc[s] /\ own'[s] = own[s] /\ event'[s] = event[s]
    BY <1>0, <1>6 DEF LockBegin, Goto, Announced
  <2>2. \A i \in Ids : Creating(t, i) => Creating(t, i)'
    BY <1>0, <1>6, <2>1 DEF LockBegin, Goto, Creating, Creation
  <2>3. QED BY <2>1, <2>2, StillLogged
<1>7. ASSUME NEW t \in Threads, LockKey(t) PROVE LogInv'
  <2>1. /\ UNCHANGED <<type, faults, audit>> /\ Announced(t)'
        /\ \A s \in Threads \ {t} : pc'[s] = pc[s] /\ own'[s] = own[s] /\ event'[s] = event[s]
    BY <1>0, <1>7 DEF LockKey, Goto, Announced
  <2>2. \A i \in Ids : Creating(t, i) => Creating(t, i)'
    BY <1>0, <1>7, <2>1 DEF LockKey, Goto, Creating, Creation
  <2>3. QED BY <2>1, <2>2, StillLogged
<1>8. ASSUME NEW t \in Threads, LockStamp(t) PROVE LogInv'
  <2>1. /\ UNCHANGED <<type, faults, audit>> /\ Announced(t)'
        /\ \A s \in Threads \ {t} : pc'[s] = pc[s] /\ own'[s] = own[s] /\ event'[s] = event[s]
    BY <1>0, <1>8 DEF LockStamp, Goto, Announced
  <2>2. \A i \in Ids : Creating(t, i) => Creating(t, i)'
    BY <1>0, <1>8, <2>1 DEF LockStamp, Goto, Creating, Creation
  <2>3. QED BY <2>1, <2>2, StillLogged
<1>9. ASSUME NEW t \in Admins, InitInterBegin(t) PROVE LogInv'
  <2>1. /\ UNCHANGED <<type, faults, audit>> /\ Announced(t)'
        /\ \A s \in Threads \ {t} : pc'[s] = pc[s] /\ own'[s] = own[s] /\ event'[s] = event[s]
    BY <1>0, <1>9 DEF InitInterBegin, Goto, Announced
  <2>2. \A i \in Ids : Creating(t, i) => Creating(t, i)'
    BY <1>0, <1>9, <2>1 DEF InitInterBegin, Goto, Creating, Creation
  <2>3. QED BY <2>1, <2>2, StillLogged
<1>10. ASSUME NEW t \in Threads, LoadInter(t) PROVE LogInv'
  <2>1. /\ UNCHANGED <<type, faults, audit>> /\ Announced(t)'
        /\ \A s \in Threads \ {t} : pc'[s] = pc[s] /\ own'[s] = own[s] /\ event'[s] = event[s]
    BY <1>0, <1>10 DEF LoadInter, Goto, Announced
  <2>2. \A i \in Ids : Creating(t, i) => Creating(t, i)'
    BY <1>0, <1>10, <2>1 DEF LoadInter, Goto, Creating, Creation
  <2>3. QED BY <2>1, <2>2, StillLogged
<1>11. ASSUME NEW t \in Threads, FirstCrl(t) PROVE LogInv'
  <2>1. /\ UNCHANGED <<type, faults, audit>> /\ Announced(t)'
        /\ \A s \in Threads \ {t} : pc'[s] = pc[s] /\ own'[s] = own[s] /\ event'[s] = event[s]
    BY <1>0, <1>11 DEF FirstCrl, Goto, Announced
  <2>2. \A i \in Ids : Creating(t, i) => Creating(t, i)'
    BY <1>0, <1>11, <2>1 DEF FirstCrl, Goto, Creating, Creation
  <2>3. QED BY <2>1, <2>2, StillLogged
<1>12. ASSUME NEW t \in Admins, IssueBegin(t) PROVE LogInv'
  <2>1. /\ UNCHANGED <<type, faults, audit>> /\ Announced(t)'
        /\ \A s \in Threads \ {t} : pc'[s] = pc[s] /\ own'[s] = own[s] /\ event'[s] = event[s]
    BY <1>0, <1>12 DEF IssueBegin, Goto, Announced
  <2>2. \A i \in Ids : Creating(t, i) => Creating(t, i)'
    BY <1>0, <1>12, <2>1 DEF IssueBegin, Goto, Creating, Creation
  <2>3. QED BY <2>1, <2>2, StillLogged
<1>13. ASSUME NEW t \in Threads, InsertInterFails(t) PROVE LogInv'
  <2>1. /\ UNCHANGED <<type, faults, audit>> /\ Announced(t)'
        /\ \A s \in Threads \ {t} : pc'[s] = pc[s] /\ own'[s] = own[s] /\ event'[s] = event[s]
    BY <1>0, <1>13 DEF InsertInterFails, Finish, Announced
  <2>2. \A i \in Ids : Creating(t, i) => Creating(t, i)'
    BY <1>0, <1>13, <2>1 DEF InsertInterFails, Finish, Creating, Creation
  <2>3. QED BY <2>1, <2>2, StillLogged
<1>14. ASSUME NEW t \in Threads, SignLeaf(t) PROVE LogInv'
  <2>1. /\ UNCHANGED <<type, faults, audit>> /\ Announced(t)'
        /\ \A s \in Threads \ {t} : pc'[s] = pc[s] /\ own'[s] = own[s] /\ event'[s] = event[s]
    BY <1>0, <1>14 DEF SignLeaf, Finish, Announced
  <2>2. \A i \in Ids : Creating(t, i) => Creating(t, i)'
    BY <1>0, <1>14, <2>1 DEF SignLeaf, Finish, Creating, Creation
  <2>3. QED BY <2>1, <2>2, StillLogged
<1>15. ASSUME NEW t \in Threads, Log(t) PROVE LogInv'
  <2>1. /\ UNCHANGED <<type, faults>> /\ audit \subseteq audit' /\ Announced(t)'
        /\ \A s \in Threads \ {t} : pc'[s] = pc[s] /\ own'[s] = own[s] /\ event'[s] = event[s]
    BY <1>0, <1>15 DEF Log, Finish, Announced
  <2>2. ASSUME NEW i \in Ids, Creating(t, i) PROVE Logged(i)'
    <3>1. own[t] \in {own[t]} \ {None} BY <2>2 DEF Creating
    <3>2. [action |-> event[t], target |-> own[t]] \in audit' BY <1>15, <3>1 DEF Log
    <3>3. own[t] = i /\ event[t] = Creation(i)' BY <2>1, <2>2 DEF Creating, Creation
    <3>4. QED BY <3>2, <3>3 DEF Logged
  <2>3. QED BY <2>1, <2>2, StillLogged
<1>16. ASSUME NEW t \in Threads, NEW i \in Ids, InsertRoot(t, i) PROVE LogInv'
  <2>1. t \in Admins /\ event[t] = "ca.root_init" BY <1>0, <1>16 DEF InsertRoot, Announced
  <2>2. /\ type[i] = "absent" /\ type' = [type EXCEPT ![i] = "root"]
        /\ own' = [own EXCEPT ![t] = i] /\ pc' = [pc EXCEPT ![t] = "unlock"]
        /\ UNCHANGED <<faults, audit, event>> /\ pc[t] = "insertRoot"
    BY <1>16 DEF InsertRoot, Goto, Fresh
  <2>3. Creating(t, i)' BY <1>0, <2>1, <2>2 DEF Creating, Creation
  <2>4. QED BY <2>1, <2>2, <2>3, InsertedLogged
<1>17. ASSUME NEW t \in Threads, NEW i \in Ids, InsertInter(t, i) PROVE LogInv'
  <2>1. t \in Admins /\ event[t] = "ca.intermediate_init" BY <1>0, <1>17 DEF InsertInter, Announced
  <2>2. /\ type[i] = "absent" /\ type' = [type EXCEPT ![i] = "intermediate"]
        /\ own' = [own EXCEPT ![t] = i] /\ pc' = [pc EXCEPT ![t] = "loadInter"]
        /\ UNCHANGED <<faults, audit, event>> /\ pc[t] = "insertInter"
    BY <1>17 DEF InsertInter, Goto, Fresh
  <2>3. Creating(t, i)' BY <1>0, <2>1, <2>2 DEF Creating, Creation
  <2>4. QED BY <2>1, <2>2, <2>3, InsertedLogged
\* After a fault nothing is claimed but what the threads have announced.
<1>18. ASSUME NEW t \in Admins, CommitFails(t) PROVE LogInv'
  BY <1>0, <1>18 DEF CommitFails, Finish, LogInv, Announced
<1>19. ASSUME Restart PROVE LogInv'
  BY <1>0, <1>19 DEF Restart, Finish, LogInv, Announced
<1>20. ASSUME UNCHANGED <<type, faults, audit, event, own>>,
               pc' = pc \/ pc' = [pc EXCEPT ![Job] = "lock"]
        PROVE  LogInv'
  <2>1. /\ \A s \in Threads \ {Job} : pc'[s] = pc[s] /\ own'[s] = own[s] /\ event'[s] = event[s]
        /\ pc'[Job] \in {"idle", "lock", "lockStamp"}
    BY <1>0, <1>20
  <2>2. \A i \in Ids : ~Creating(Job, i) BY <1>0 DEF Creating
  <2>3. Announced(Job)' BY <2>1 DEF Announced
  <2>4. QED BY <1>20, <2>1, <2>2, <2>3, StillLogged
<1>21. ASSUME Age PROVE LogInv' BY <1>20, <1>21 DEF Age
<1>22. ASSUME RelockBegin PROVE LogInv' BY <1>20, <1>22 DEF RelockBegin, Goto
<1>23. ASSUME NEW i \in Ids, RefreshCrl(i) PROVE LogInv' BY <1>20, <1>23 DEF RefreshCrl
<1>24. ASSUME UNCHANGED vars PROVE LogInv' BY <1>20, <1>24 DEF vars
<1>25. QED
  BY <1>1, <1>2, <1>3, <1>4, <1>5, <1>6, <1>7, <1>8, <1>9, <1>10, <1>11, <1>12, <1>13, <1>14, <1>15, <1>16, <1>17, <1>18, <1>19, <1>21, <1>22, <1>23, <1>24 DEF Next, Begin, Step

\* While nothing fails, a CA has the audit entry of its creation or the thread
\* that created it is on the way to it, also where two threads create CAs at
\* once and where the new root can not be unlocked.
THEOREM CreationAlwaysLogged == Spec => []CreationLogged
<1>1. LogInv => CreationLogged BY DEF LogInv, CreationLogged, Creating, Creation, Logged
<1>2. IInv /\ LogInv /\ [Next]_vars => LogInv' BY StepLog
<1>3. QED BY <1>1, <1>2, InitLog, Invariance, PTL DEF Spec
-----------------------------------------------------------------------------
(* Initialisations that do not overlap *)

Kinds == {"root", "intermediate"}
Inserting(kind) == IF kind = "root" THEN "insertRoot" ELSE "insertInter"

\* A kind of CA that one thread at a time has been initialising: what that thread
\* found missing is missing until it inserts its row.
Single(kind) ==
    /\ \A s, t \in Threads : pc[s] = Inserting(kind) /\ pc[t] = Inserting(kind) => s = t
    /\ \A t \in Threads : pc[t] = Inserting(kind) => RowsOf(kind) = {}
    /\ \A i, j \in RowsOf(kind) : i = j

Singles == \A kind \in Kinds \ doubled : Single(kind)

\* Who is going to publish the first CRL of a CA has inserted its row.
Ready(t) ==
    \/ pc[t] \in {"crl", "loadInter"}
    \/ pc[t] \in {"unlock", "stamp"} /\ event[t] = "ca.root_init"
    => own[t] \in Ids /\ type[own[t]] # "absent"

CrlInv ==
    /\ Singles
    /\ \A t \in Threads : Ready(t)
    /\ CrlsBySubject

LEMMA InitCrl == Init => CrlInv
<1> SUFFICES ASSUME Init PROVE CrlInv
  OBVIOUS
<1>1. \A t \in Threads : pc[t] = "idle" BY DEF Init
<1>2. \A kind \in Kinds : RowsOf(kind) = {} BY DEF Init, RowsOf, Kinds
<1>3. Singles BY <1>1, <1>2 DEF Singles, Single, Inserting
<1>4. \A t \in Threads : Ready(t) BY <1>1 DEF Ready
<1>5. CrlsBySubject BY DEF Init, CrlsBySubject
<1>6. QED BY <1>3, <1>4, <1>5 DEF CrlInv

\* No thread begins to insert a row of this kind, and no row appears.
LEMMA SingleKept ==
    ASSUME NEW kind \in Kinds, Single(kind), UNCHANGED type,
           \A s \in Threads : pc'[s] = Inserting(kind) => pc[s] = Inserting(kind)
    PROVE  Single(kind)'
<1>1. RowsOf(kind)' = RowsOf(kind) BY DEF RowsOf
<1>2. QED BY <1>1 DEF Single, Inserting

\* A thread begins to insert one: it finds none, and no other thread at it, or the
\* overlap is noted.
LEMMA SingleBegun ==
    ASSUME TypeOK, NEW kind \in Kinds, kind \notin doubled', NEW t \in Threads,
           First(kind) = None, Goto(t, Inserting(kind)), NoteDouble(kind, Inserting(kind)),
           UNCHANGED type
    PROVE  Single(kind)'
<1>1. pc \in [Threads -> Steps] BY DEF TypeOK
<1>2. \A u \in Threads : pc[u] # Inserting(kind) BY DEF NoteDouble
<1>3. \A u \in Threads : pc'[u] = Inserting(kind) => u = t BY <1>1, <1>2 DEF Goto
<1>4. RowsOf(kind)' = {} BY FirstOrNone DEF RowsOf
<1>5. QED BY <1>3, <1>4 DEF Single, Inserting

\* The thread that was alone at it inserts one.
LEMMA SingleInserted ==
    ASSUME TypeOK, NEW kind \in Kinds, Single(kind), NEW t \in Threads,
           pc[t] = Inserting(kind), NEW i \in Ids, type' = [type EXCEPT ![i] = kind],
           NEW l \in {"unlock", "loadInter"}, Goto(t, l)
    PROVE  Single(kind)'
<1>1. /\ pc \in [Threads -> Steps] /\ type \in [Ids -> {"absent", "root", "intermediate"}]
  BY DEF TypeOK
<1>2. RowsOf(kind) = {} BY DEF Single
<1>3. RowsOf(kind)' = {i} BY <1>1, <1>2 DEF RowsOf
<1>4. \A u \in Threads : pc'[u] # Inserting(kind)
  BY <1>1 DEF Goto, Single, Inserting, Kinds
<1>5. QED BY <1>3, <1>4 DEF Single, Inserting

\* No step but those that begin or end with a row moves a thread to an insertion
\* or touches the table.
LEMMA NoInsertion ==
    ASSUME TypeOK,
           \/ \E t \in Admins : \/ \E p \in Passphrases : UnlockBegin(t, p)
                                \/ LockBegin(t) \/ IssueBegin(t) \/ CommitFails(t)
           \/ \E t \in Threads : \/ UnlockKey(t) \/ UnlockStamp(t) \/ UnlockRefused(t)
                                 \/ LockKey(t) \/ LockStamp(t)
                                 \/ InsertInterFails(t) \/ LoadInter(t) \/ FirstCrl(t)
                                 \/ SignLeaf(t) \/ Log(t)
           \/ RelockBegin \/ Age \/ (\E i \in Ids : RefreshCrl(i)) \/ Restart
           \/ UNCHANGED vars
    PROVE  /\ UNCHANGED <<type, doubled>>
           /\ \A s \in Threads : pc'[s] \in {"insertRoot", "insertInter"} => pc'[s] = pc[s]
<1> DEFINE Goal == /\ UNCHANGED <<type, doubled>>
                   /\ \A s \in Threads : pc'[s] \in {"insertRoot", "insertInter"} => pc'[s] = pc[s]
<1> USE DEF db, table, book
<1>0. pc \in [Threads -> Steps] /\ Job \in Threads /\ Admins \subseteq Threads
  BY DEF TypeOK, Threads
<1>1. ASSUME NEW t \in Threads, NEW l, l \notin {"insertRoot", "insertInter"}, Goto(t, l),
             UNCHANGED <<type, doubled>>
      PROVE  Goal
  BY <1>0, <1>1 DEF Goto
<1>2. ASSUME NEW T \in SUBSET Threads, Finish(T), UNCHANGED <<type, doubled>> PROVE Goal
  BY <1>0, <1>2 DEF Finish
<1>3. ASSUME UNCHANGED <<type, doubled, pc>> PROVE Goal BY <1>0, <1>3
<1>4. ASSUME NEW t \in Admins, (\E p \in Passphrases : UnlockBegin(t, p)) \/ LockBegin(t) \/ IssueBegin(t)
      PROVE  Goal
  BY <1>0, <1>1, <1>4 DEF UnlockBegin, LockBegin, IssueBegin
<1>5. ASSUME NEW t \in Threads, UnlockKey(t) PROVE Goal
  BY <1>1, <1>5 DEF UnlockKey
<1>6. ASSUME NEW t \in Threads, UnlockStamp(t) \/ UnlockRefused(t) PROVE Goal
  <2>1. Goto(t, AfterUnlock(t)) /\ UNCHANGED <<type, doubled>>
    BY <1>6, Zenon DEF UnlockStamp, UnlockRefused, db, table, book
  <2>2. AfterUnlock(t) \notin {"insertRoot", "insertInter"} BY DEF AfterUnlock
  <2>3. QED BY <1>1, <2>1, <2>2
<1>7. ASSUME NEW t \in Threads, LockKey(t) \/ LockStamp(t) \/ LoadInter(t) \/ FirstCrl(t) PROVE Goal
  BY <1>1, <1>7 DEF LockKey, LockStamp, LoadInter, FirstCrl
<1>8. ASSUME NEW t \in Threads, InsertInterFails(t) \/ SignLeaf(t) \/ Log(t) PROVE Goal
  BY <1>2, <1>8 DEF InsertInterFails, SignLeaf, Log
<1>9. ASSUME NEW t \in Admins, CommitFails(t) PROVE Goal BY <1>0, <1>2, <1>9 DEF CommitFails
<1>10. ASSUME Restart PROVE Goal BY <1>2, <1>10 DEF Restart
<1>11. ASSUME RelockBegin PROVE Goal BY <1>0, <1>1, <1>11 DEF RelockBegin
<1>12. ASSUME Age \/ (\E i \in Ids : RefreshCrl(i)) \/ UNCHANGED vars PROVE Goal
  BY <1>3, <1>12 DEF Age, vars, RefreshCrl
<1>13. QED BY <1>4, <1>5, <1>6, <1>7, <1>8, <1>9, <1>10, <1>11, <1>12

LEMMA StepSingle ==
    ASSUME TypeOK, Singles, [Next]_vars
    PROVE  Singles' /\ doubled \subseteq doubled'
<1> USE DEF db, table, book
<1>0. Job \in Threads /\ Admins \subseteq Threads /\ pc \in [Threads -> Steps]
      /\ type \in [Ids -> {"absent", "root", "intermediate"}]
  BY DEF TypeOK, Threads
<1>1. ASSUME NEW t \in Threads, NEW k \in Kinds, First(k) = None, Goto(t, Inserting(k)),
             NoteDouble(k, Inserting(k)), UNCHANGED type
      PROVE  Singles' /\ doubled \subseteq doubled'
  <2>1. doubled \subseteq doubled' BY <1>1 DEF NoteDouble
  <2>2. ASSUME NEW kind \in Kinds \ doubled' PROVE Single(kind)'
    <3>1. CASE kind = k BY <1>1, <2>2, <3>1, SingleBegun
    <3>2. CASE kind # k
      <4>1. \A s \in Threads : pc'[s] = Inserting(kind) => pc[s] = Inserting(kind)
        BY <1>0, <1>1, <3>2 DEF Goto, Inserting, Kinds
      <4>2. QED BY <1>1, <2>1, <2>2, <4>1, SingleKept DEF Singles
    <3>3. QED BY <3>1, <3>2
  <2>3. QED BY <2>1, <2>2 DEF Singles
<1>2. ASSUME NEW t \in Threads, NEW k \in Kinds, pc[t] = Inserting(k), NEW i \in Ids, Fresh(i),
             type' = [type EXCEPT ![i] = k], NEW l \in {"unlock", "loadInter"}, Goto(t, l),
             UNCHANGED doubled
      PROVE  Singles' /\ doubled \subseteq doubled'
  <2>1. ASSUME NEW kind \in Kinds \ doubled PROVE Single(kind)'
    <3>1. CASE kind = k BY <1>2, <2>1, <3>1, SingleInserted DEF Singles
    <3>2. CASE kind # k
      <4>1. RowsOf(kind)' = RowsOf(kind) BY <1>0, <1>2, <3>2 DEF RowsOf, Fresh, Kinds
      <4>2. \A s \in Threads : pc'[s] = Inserting(kind) => pc[s] = Inserting(kind)
        BY <1>0, <1>2 DEF Goto, Inserting
      <4>3. Single(kind) BY <2>1 DEF Singles
      <4>4. QED BY <4>1, <4>2, <4>3 DEF Single, Inserting
    <3>3. QED BY <3>1, <3>2
  <2>2. QED BY <1>2, <2>1 DEF Singles
<1>3. ASSUME NEW t \in Admins, NEW p \in Passphrases, InitRootBegin(t, p)
      PROVE  Singles' /\ doubled \subseteq doubled'
  <2>1. /\ First("root") = None /\ Goto(t, Inserting("root")) /\ NoteDouble("root", Inserting("root"))
        /\ UNCHANGED type
    BY <1>3 DEF InitRootBegin, Inserting
  <2>2. QED BY <1>0, <1>1, <2>1 DEF Kinds
<1>4. ASSUME NEW t \in Admins, InitInterBegin(t)
      PROVE  Singles' /\ doubled \subseteq doubled'
  <2>1. /\ First("intermediate") = None /\ Goto(t, Inserting("intermediate"))
        /\ NoteDouble("intermediate", Inserting("intermediate")) /\ UNCHANGED type
    BY <1>4 DEF InitInterBegin, Inserting
  <2>2. QED BY <1>0, <1>1, <2>1 DEF Kinds
<1>5. ASSUME NEW t \in Threads, NEW i \in Ids, InsertRoot(t, i)
      PROVE  Singles' /\ doubled \subseteq doubled'
  <2>1. /\ pc[t] = Inserting("root") /\ Fresh(i) /\ type' = [type EXCEPT ![i] = "root"]
        /\ Goto(t, "unlock") /\ UNCHANGED doubled
    BY <1>5 DEF InsertRoot, Inserting
  <2>2. QED BY <1>2, <2>1 DEF Kinds
<1>6. ASSUME NEW t \in Threads, NEW i \in Ids, InsertInter(t, i)
      PROVE  Singles' /\ doubled \subseteq doubled'
  <2>1. /\ pc[t] = Inserting("intermediate") /\ Fresh(i) /\ type' = [type EXCEPT ![i] = "intermediate"]
        /\ Goto(t, "loadInter") /\ UNCHANGED doubled
    BY <1>6 DEF InsertInter, Inserting
  <2>2. QED BY <1>2, <2>1 DEF Kinds
<1>7. ASSUME UNCHANGED <<type, doubled>>,
             \A s \in Threads : pc'[s] \in {"insertRoot", "insertInter"} => pc'[s] = pc[s]
      PROVE  Singles' /\ doubled \subseteq doubled'
  BY <1>7, SingleKept DEF Singles, Inserting
<1>8. QED
  BY <1>3, <1>4, <1>5, <1>6, <1>7, NoInsertion DEF Next, Begin, Step

\* The key that signs a CRL is that of its CA.
LEMMA OwnKey ==
    ASSUME TypeOK, Singles, VaultMatchesTable, NEW i \in Ids, type[i] # "absent", type[i] \notin doubled
    PROVE  IssuerKey(i) \in {i, None}
<1>1. type[i] \in Kinds /\ i \in RowsOf(type[i]) BY DEF TypeOK, RowsOf, Kinds
<1>2. First(type[i]) \in RowsOf(type[i]) BY <1>1, FirstIsLeast
<1>3. First(type[i]) = i BY <1>1, <1>2 DEF Singles, Single
<1>4. CASE type[i] = "root" BY <1>3, <1>4 DEF IssuerKey, VaultMatchesTable
<1>5. CASE type[i] = "intermediate" BY <1>3, <1>5 DEF IssuerKey, VaultMatchesTable
<1>6. QED BY <1>1, <1>4, <1>5 DEF Kinds

\* One thread moves and inserts no row.
LEMMA CrlKept ==
    ASSUME CrlInv, Singles', UNCHANGED type, CrlsBySubject', NEW t \in Threads, Ready(t)',
           \A s \in Threads \ {t} : pc'[s] = pc[s] /\ own'[s] = own[s] /\ event'[s] = event[s]
    PROVE  CrlInv'
<1>1. ASSUME NEW s \in Threads \ {t} PROVE Ready(s)'
  BY DEF CrlInv, Ready
<1>2. QED BY <1>1 DEF CrlInv

\* One inserts a row, which has no CRL yet.
LEMMA CrlInserted ==
    ASSUME TypeOK, CrlInv, Singles', NEW t \in Threads, NEW i \in Ids, NEW k \in Kinds,
           type' = [type EXCEPT ![i] = k], type[i] = "absent", own' = [own EXCEPT ![t] = i],
           NEW l, Goto(t, l), UNCHANGED <<crls, event, doubled>>
    PROVE  CrlInv'
<1>1. /\ type \in [Ids -> {"absent", "root", "intermediate"}] /\ doubled \subseteq Kinds
      /\ pc \in [Threads -> Steps] /\ own \in [Threads -> Ids \cup {None}]
  BY DEF TypeOK, Kinds
<1>2. CrlsBySubject' BY <1>1 DEF CrlInv, CrlsBySubject, Kinds
<1>3. ASSUME NEW s \in Threads PROVE Ready(s)'
  <2>1. CASE s = t BY <1>1, <2>1 DEF Ready, Kinds
  <2>2. CASE s # t
    <3>1. pc'[s] = pc[s] /\ own'[s] = own[s] /\ event'[s] = event[s] BY <1>1, <2>2 DEF Goto
    <3>2. Ready(s) BY DEF CrlInv
    <3>3. QED BY <1>1, <3>1, <3>2 DEF Ready, Kinds
  <2>3. QED BY <2>1, <2>2
<1>4. QED BY <1>2, <1>3 DEF CrlInv

LEMMA StepCrl ==
    ASSUME IInv, CrlInv, [Next]_vars
    PROVE  CrlInv'
<1> USE DEF db, table, locals, book
<1>0. /\ TypeOK /\ Singles /\ CrlsBySubject /\ VaultMatchesTable
      /\ \A t \in Threads : Ready(t)
      /\ Job \in Threads /\ Admins \subseteq Threads
  BY DEF IInv, CrlInv, Threads
<1>t. /\ pc \in [Threads -> Steps] /\ own \in [Threads -> Ids \cup {None}]
      /\ event \in [Threads -> Events \cup {None}] /\ crls \in [Ids -> SUBSET Ids]
      /\ type \in [Ids -> {"absent", "root", "intermediate"}] /\ doubled \subseteq Kinds
      /\ pc[Job] \in {"idle", "lock", "lockStamp"}
  BY <1>0 DEF TypeOK, Kinds
<1>a. Singles' /\ doubled \subseteq doubled' BY <1>0, StepSingle
<1>k. UNCHANGED <<type, crls>> => CrlsBySubject' BY <1>0, <1>a DEF CrlsBySubject
\* A request begins.
<1>1. ASSUME NEW t \in Threads, NEW l \in Steps \ {"loadInter", "crl"},
             Goto(t, l), UNCHANGED <<type, crls>>,
             \A s \in Threads \ {t} : own'[s] = own[s] /\ event'[s] = event[s],
             ~(l \in {"unlock", "stamp"} /\ event'[t] = "ca.root_init")
      PROVE  CrlInv'
  <2>1. pc'[t] = l /\ \A s \in Threads \ {t} : pc'[s] = pc[s] BY <1>t, <1>1 DEF Goto
  <2>2. Ready(t)' BY <1>1, <2>1 DEF Ready
  <2>3. QED BY <1>a, <1>k, <1>1, <2>1, <2>2, CrlKept
<1>2. ASSUME NEW t \in Admins, NEW p \in Passphrases, InitRootBegin(t, p) PROVE CrlInv'
  <2>1. /\ UNCHANGED <<type, crls>> /\ Goto(t, "insertRoot")
        /\ \A s \in Threads \ {t} : own'[s] = own[s] /\ event'[s] = event[s]
    BY <1>0, <1>t, <1>2 DEF InitRootBegin
  <2>2. QED BY <1>0, <1>1, <2>1 DEF Steps
<1>3. ASSUME NEW t \in Admins, InitInterBegin(t) PROVE CrlInv'
  <2>1. /\ UNCHANGED <<type, crls>> /\ Goto(t, "insertInter")
        /\ \A s \in Threads \ {t} : own'[s] = own[s] /\ event'[s] = event[s]
    BY <1>0, <1>t, <1>3 DEF InitInterBegin
  <2>2. QED BY <1>0, <1>1, <2>1 DEF Steps
<1>4. ASSUME NEW t \in Admins, NEW p \in Passphrases, UnlockBegin(t, p) PROVE CrlInv'
  <2>1. /\ event'[t] = "ca.root_unlock" /\ UNCHANGED <<type, crls>> /\ Goto(t, "unlock")
        /\ \A s \in Threads \ {t} : own'[s] = own[s] /\ event'[s] = event[s]
    BY <1>0, <1>t, <1>4 DEF UnlockBegin
  <2>2. QED BY <1>0, <1>1, <2>1 DEF Steps
<1>5. ASSUME NEW t \in Admins, LockBegin(t) \/ IssueBegin(t) PROVE CrlInv'
  <2>1. /\ UNCHANGED <<type, crls>> /\ (Goto(t, "lock") \/ Goto(t, "signLeaf"))
        /\ \A s \in Threads \ {t} : own'[s] = own[s] /\ event'[s] = event[s]
    BY <1>0, <1>t, <1>5 DEF LockBegin, IssueBegin
  <2>2. QED BY <1>0, <1>1, <2>1 DEF Steps
\* It inserts a row.
<1>6. ASSUME NEW t \in Threads, NEW i \in Ids, InsertRoot(t, i) PROVE CrlInv'
  <2>1. /\ type[i] = "absent" /\ type' = [type EXCEPT ![i] = "root"] /\ Goto(t, "unlock")
        /\ own' = [own EXCEPT ![t] = i] /\ UNCHANGED <<crls, event, doubled>>
    BY <1>6 DEF InsertRoot, Fresh
  <2>2. "root" \in Kinds BY DEF Kinds
  <2>3. QED BY <1>0, <1>a, <2>1, <2>2, CrlInserted
<1>7. ASSUME NEW t \in Threads, NEW i \in Ids, InsertInter(t, i) PROVE CrlInv'
  <2>1. /\ type[i] = "absent" /\ type' = [type EXCEPT ![i] = "intermediate"] /\ Goto(t, "loadInter")
        /\ own' = [own EXCEPT ![t] = i] /\ UNCHANGED <<crls, event, doubled>>
    BY <1>7 DEF InsertInter, Fresh
  <2>2. "intermediate" \in Kinds BY DEF Kinds
  <2>3. QED BY <1>0, <1>a, <2>1, <2>2, CrlInserted
\* It goes on.
<1>8. ASSUME NEW t \in Threads, UNCHANGED <<type, crls, own>>, pc[t] \in {"unlock", "stamp"},
             NEW l \in {"stamp", "crl", "log"}, Goto(t, l),
             UNCHANGED event, l = "crl" => event[t] = "ca.root_init"
      PROVE  CrlInv'
  <2>1. pc'[t] = l /\ \A s \in Threads \ {t} : pc'[s] = pc[s] BY <1>t, <1>8 DEF Goto
  <2>2. Ready(t)' BY <1>0, <1>8, <2>1 DEF Ready
  <2>3. QED BY <1>a, <1>k, <1>8, <2>1, <2>2, CrlKept
<1>9. ASSUME NEW t \in Threads, UnlockKey(t) PROVE CrlInv'
  BY <1>8, <1>9 DEF UnlockKey
<1>10. ASSUME NEW t \in Threads, UnlockStamp(t) PROVE CrlInv'
  <2>1. CASE event[t] = "ca.root_init"
    BY <1>8, <1>10, <2>1 DEF UnlockStamp, AfterUnlock
  <2>2. CASE event[t] # "ca.root_init"
    BY <1>8, <1>10, <2>2 DEF UnlockStamp, AfterUnlock
  <2>3. QED BY <2>1, <2>2
<1>11. ASSUME NEW t \in Threads, UnlockRefused(t) PROVE CrlInv'
  <2>1. pc[t] = "unlock" /\ Goto(t, AfterUnlock(t)) /\ UNCHANGED <<db, own>>
    BY <1>11, Zenon DEF UnlockRefused
  <2>2. /\ UNCHANGED <<type, crls, own>> /\ pc'[t] = AfterUnlock(t)
        /\ \A s \in Threads \ {t} : pc'[s] = pc[s]
    BY <1>t, <2>1 DEF Goto
  <2>3. \A s \in Threads \ {t} : event'[s] = event[s]
    <3>1. \E e : event' = [event EXCEPT ![t] = e] BY <1>11, Zenon DEF UnlockRefused
    <3>2. QED BY <1>t, <3>1
  <2>4. Ready(t)' BY <1>0, <2>1, <2>2 DEF Ready, AfterUnlock
  <2>5. QED BY <1>a, <1>k, <2>2, <2>3, <2>4, CrlKept
<1>12. ASSUME NEW t \in Threads, LockKey(t) PROVE CrlInv'
  BY <1>1, <1>12 DEF LockKey, Steps
<1>13. ASSUME NEW t \in Threads, LockStamp(t) PROVE CrlInv'
  <2>1. Goto(t, "idle") \/ Goto(t, "log") BY <1>13 DEF LockStamp
  <2>2. QED BY <1>1, <1>13, <2>1 DEF LockStamp, Steps
<1>14. ASSUME NEW t \in Threads, LoadInter(t) PROVE CrlInv'
  <2>1. /\ pc'[t] = "crl" /\ pc[t] = "loadInter" /\ UNCHANGED <<type, crls, own, event>>
        /\ \A s \in Threads \ {t} : pc'[s] = pc[s]
    BY <1>t, <1>14 DEF LoadInter, Goto
  <2>2. Ready(t)' BY <1>0, <2>1 DEF Ready
  <2>3. QED BY <1>a, <1>k, <2>1, <2>2, CrlKept
<1>15. ASSUME NEW t \in Threads, FirstCrl(t) PROVE CrlInv'
  <2>1. /\ pc[t] = "crl" /\ pc'[t] = "log" /\ UNCHANGED <<type, own, event, doubled>>
        /\ crls' = [crls EXCEPT ![own[t]] = @ \cup ({IssuerKey(own[t])} \ {None})]
        /\ \A s \in Threads \ {t} : pc'[s] = pc[s]
    BY <1>t, <1>15 DEF FirstCrl, Goto
  <2>2. own[t] \in Ids /\ type[own[t]] # "absent" BY <1>0, <2>1 DEF Ready
  <2>3. type[own[t]] \notin doubled => {IssuerKey(own[t])} \ {None} \subseteq {own[t]}
    BY <1>0, <2>2, OwnKey
  <2>4. CrlsBySubject' BY <1>0, <1>t, <2>1, <2>2, <2>3 DEF CrlsBySubject
  <2>5. Ready(t)' BY <2>1 DEF Ready
  <2>6. QED BY <1>a, <2>1, <2>4, <2>5, CrlKept
\* It is over.
<1>16. ASSUME NEW t \in Threads, Finish({t}), UNCHANGED <<type, crls>> PROVE CrlInv'
  <2>1. /\ pc'[t] = "idle"
        /\ \A s \in Threads \ {t} : pc'[s] = pc[s] /\ own'[s] = own[s] /\ event'[s] = event[s]
    BY <1>16 DEF Finish
  <2>2. Ready(t)' BY <2>1 DEF Ready
  <2>3. QED BY <1>a, <1>k, <1>16, <2>1, <2>2, CrlKept
<1>17. ASSUME NEW t \in Threads, InsertInterFails(t) \/ SignLeaf(t) \/ Log(t) PROVE CrlInv'
  BY <1>16, <1>17 DEF InsertInterFails, SignLeaf, Log
<1>18. ASSUME NEW t \in Admins, CommitFails(t) PROVE CrlInv'
  BY <1>0, <1>16, <1>18 DEF CommitFails
<1>19. ASSUME Restart PROVE CrlInv'
  <2>1. \A s \in Threads : pc'[s] = "idle" BY <1>19 DEF Restart, Finish
  <2>2. UNCHANGED <<type, crls>> BY <1>19 DEF Restart
  <2>3. QED BY <1>a, <1>k, <2>1, <2>2 DEF CrlInv, Ready
\* Beside it.
<1>20. ASSUME UNCHANGED <<type, own, event, pc>>, CrlsBySubject' PROVE CrlInv'
  <2>1. pc'[Job] \notin {"crl", "loadInter", "unlock", "stamp"} BY <1>t, <1>20
  <2>2. Ready(Job)' BY <2>1 DEF Ready
  <2>3. QED BY <1>0, <1>a, <1>20, <2>2, CrlKept
<1>21. ASSUME Age \/ UNCHANGED vars PROVE CrlInv'
  BY <1>k, <1>20, <1>21 DEF Age, vars
<1>22. ASSUME RelockBegin PROVE CrlInv'
  BY <1>0, <1>1, <1>22 DEF RelockBegin, Steps
<1>23. ASSUME NEW i \in Ids, RefreshCrl(i) PROVE CrlInv'
  <2>1. /\ UNCHANGED <<type, own, event, pc, doubled>> /\ type[i] # "absent" /\ IssuerKey(i) # None
        /\ crls' = [crls EXCEPT ![i] = @ \cup {IssuerKey(i)}]
    BY <1>23 DEF RefreshCrl
  <2>2. type[i] \notin doubled => IssuerKey(i) = i BY <1>0, <2>1, OwnKey
  <2>3. CrlsBySubject' BY <1>0, <1>t, <2>1, <2>2 DEF CrlsBySubject
  <2>4. QED BY <1>20, <2>1, <2>3
<1>24. QED
  BY <1>2, <1>3, <1>4, <1>5, <1>6, <1>7, <1>9, <1>10, <1>11, <1>12, <1>13, <1>14, <1>15, <1>17,
     <1>18, <1>19, <1>21, <1>22, <1>23
  DEF Next, Begin, Step

LEMMA CrlInvariance == Spec => []CrlInv
<1>1. IInv /\ CrlInv /\ [Next]_vars => CrlInv' BY StepCrl
<1>2. QED BY InitCrl, Invariance, <1>1, PTL DEF Spec

\* "root_already_exists", "intermediate_already_exists" (services/ca_service.py): with
\* any number of threads, failed commits and restarts there is one CA of a kind, unless
\* two initialisations of that kind have both found none.
THEOREM AlwaysAtMostOneOfEach == Spec => []AtMostOneOfEach
<1>1. ASSUME Singles, NEW kind \in Kinds \ doubled PROVE Cardinality(RowsOf(kind)) <= 1
  <2>1. CASE RowsOf(kind) = {} BY <2>1, FS_EmptySet
  <2>2. CASE RowsOf(kind) # {}
    <3>1. PICK i \in Ids : i \in RowsOf(kind) BY <2>2 DEF RowsOf
    <3>2. RowsOf(kind) = {i} BY <1>1, <3>1 DEF Singles, Single
    <3>3. QED BY <3>2, FS_Singleton
  <2>3. QED BY <2>1, <2>2
<1>2. CrlInv => AtMostOneOfEach BY <1>1 DEF CrlInv, AtMostOneOfEach, Kinds
<1>3. QED BY CrlInvariance, <1>2, PTL

\* Whatever threads unlock, lock, issue and refresh meanwhile, and whatever fails: a
\* CA's CRLs (revocation_service._issuer_key_for) are signed with the key of that very
\* CA, unless its kind was initialised twice at once.
THEOREM AlwaysCrlsBySubject == Spec => []CrlsBySubject
<1>1. CrlInv => CrlsBySubject BY DEF CrlInv
<1>2. QED BY CrlInvariance, <1>1, PTL

-----------------------------------------------------------------------------
(* The time of an unlock *)

\* A key that was not unlocked inside a lock_root can only lose its time with the key:
\* no thread is left that would clear the time alone.
TimeInv ==
    rootKey # None /\ ~torn =>
      ~Locking /\ (unlockedAt # None \/ \E t \in Threads : pc[t] = "stamp")

\* The vault is left alone, no thread leaves its "stamp" or comes to a "lockStamp".
LEMMA TimeKept ==
    ASSUME TimeInv, UNCHANGED <<rootKey, torn>>, unlockedAt = None => unlockedAt' = None,
           unlockedAt # None => unlockedAt' # None,
           \A s \in Threads : /\ pc[s] = "stamp" => pc'[s] = "stamp"
                              /\ pc'[s] = "lockStamp" => pc[s] = "lockStamp"
    PROVE  TimeInv'
BY DEF TimeInv, Locking

LEMMA StepTime ==
    ASSUME TypeOK, TimeInv, [Next]_vars
    PROVE  TimeInv'
<1> USE ConstantsAssumption DEF vault, book
<1>0. pc \in [Threads -> Steps] /\ Job \in Threads /\ Admins \subseteq Threads
      /\ torn \in BOOLEAN
  BY DEF TypeOK, Threads
<1>1. ASSUME NEW t \in Threads, pc[t] # "stamp", NEW l, l # "lockStamp", Goto(t, l),
             UNCHANGED <<rootKey, unlockedAt, torn>>
      PROVE  TimeInv'
  <2>1. \A s \in Threads : /\ pc[s] = "stamp" => pc'[s] = "stamp"
                           /\ pc'[s] = "lockStamp" => pc[s] = "lockStamp"
    BY <1>0, <1>1 DEF Goto
  <2>2. QED BY <1>1, <2>1, TimeKept
<1>2. ASSUME NEW t \in Threads, pc[t] # "stamp", Finish({t}), UNCHANGED <<rootKey, unlockedAt, torn>>
      PROVE  TimeInv'
  <2>1. \A s \in Threads : /\ pc[s] = "stamp" => pc'[s] = "stamp"
                           /\ pc'[s] = "lockStamp" => pc[s] = "lockStamp"
    BY <1>0, <1>2 DEF Finish
  <2>2. QED BY <1>2, <2>1, TimeKept
<1>3. ASSUME NEW t \in Admins, Begin(t) PROVE TimeInv'
  BY <1>0, <1>1, <1>3 DEF Begin, InitRootBegin, UnlockBegin, LockBegin, InitInterBegin, IssueBegin
<1>4. ASSUME NEW t \in Threads, UnlockKey(t) PROVE TimeInv'
  <2>1. pc'[t] = "stamp" /\ (Locking' => Locking)
    BY <1>0, <1>4 DEF UnlockKey, Goto, Locking
  <2>2. torn' = Locking BY <1>4 DEF UnlockKey
  <2>3. QED BY <2>1, <2>2 DEF TimeInv
<1>5. ASSUME NEW t \in Threads, UnlockStamp(t) PROVE TimeInv'
  <2>1. UNCHANGED rootKey /\ unlockedAt' = "recent" /\ torn' = (torn /\ Locking) /\ pc[t] = "stamp"
        /\ Goto(t, AfterUnlock(t))
    BY <1>5 DEF UnlockStamp
  <2>2. Locking' => Locking
    <3>1. AfterUnlock(t) # "lockStamp" BY DEF AfterUnlock
    <3>2. QED BY <1>0, <2>1, <3>1 DEF Goto, Locking
  <2>3. unlockedAt' # None
    BY <2>1 DEF TimeInv
  <2>4. rootKey # None /\ ~torn' => ~Locking BY <2>1 DEF TimeInv
  <2>5. QED BY <2>1, <2>2, <2>3, <2>4 DEF TimeInv
<1>6. ASSUME NEW t \in Threads, UnlockRefused(t) PROVE TimeInv'
  <2>1. pc[t] = "unlock" /\ Goto(t, AfterUnlock(t)) /\ UNCHANGED <<rootKey, unlockedAt, torn>>
    BY <1>6, Zenon DEF UnlockRefused, vault, book
  <2>2. AfterUnlock(t) # "lockStamp" BY DEF AfterUnlock
  <2>3. QED BY <1>1, <2>1, <2>2
<1>7. ASSUME NEW t \in Threads, LockKey(t) PROVE TimeInv' BY <1>7 DEF LockKey, TimeInv
<1>8. ASSUME NEW t \in Threads, LockStamp(t) PROVE TimeInv'
  BY <1>8 DEF LockStamp, TimeInv, Locking
<1>9. ASSUME NEW t \in Threads, NEW i \in Ids, InsertRoot(t, i) \/ InsertInter(t, i) PROVE TimeInv'
  BY <1>1, <1>9 DEF InsertRoot, InsertInter
<1>10. ASSUME NEW t \in Threads, LoadInter(t) \/ FirstCrl(t) PROVE TimeInv'
  BY <1>1, <1>10 DEF LoadInter, FirstCrl
<1>11. ASSUME NEW t \in Threads, InsertInterFails(t) \/ SignLeaf(t) \/ Log(t) PROVE TimeInv'
  BY <1>2, <1>11 DEF InsertInterFails, SignLeaf, Log
<1>12. ASSUME NEW t \in Admins, CommitFails(t) PROVE TimeInv'
  BY <1>0, <1>2, <1>12 DEF CommitFails
<1>13. ASSUME Restart PROVE TimeInv' BY <1>13 DEF Restart, TimeInv
<1>14. ASSUME RelockBegin PROVE TimeInv' BY <1>0, <1>1, <1>14 DEF RelockBegin
<1>15. ASSUME Age \/ (\E i \in Ids : RefreshCrl(i)) \/ UNCHANGED vars PROVE TimeInv'
  <2>1. /\ UNCHANGED <<rootKey, torn, pc>>
        /\ UNCHANGED unlockedAt \/ unlockedAt' = "old"
    BY <1>15 DEF Age, RefreshCrl, vars
  <2>2. QED BY <2>1 DEF TimeInv, Locking
<1>16. QED
  BY <1>3, <1>4, <1>5, <1>6, <1>7, <1>8, <1>9, <1>10, <1>11, <1>12, <1>13, <1>14, <1>15
  DEF Next, Step

\* core/crypto/key_vault.py: with any number of threads that unlock and lock, a key in
\* memory has the time the relock job needs, or is about to get it, unless the whole of
\* its unlock fell between the two assignments of a lock_root.
THEOREM KeyAlwaysTimed == Spec => []KeyIsTimed
<1>1. Init => TimeInv BY DEF Init, TimeInv
<1>2. TypeOK /\ TimeInv /\ [Next]_vars => TimeInv' BY StepTime
<1>3. TimeInv => KeyIsTimed BY DEF TimeInv, KeyIsTimed
<1>4. QED BY TypeCorrect, <1>1, <1>2, <1>3, PTL DEF Spec
=============================================================================
