--------------------------- MODULE AccountsProofs ---------------------------
(* What TLAPS proves of Accounts, for any users, sessions, tokens, request *)
(* bodies, threads, timeouts and faults.                                   *)
EXTENDS Accounts, TLAPS

-----------------------------------------------------------------------------
(* Types *)

\* TypeOK in two parts: the tables, ...
TablesOK ==
    /\ created \in [Users -> BOOLEAN] /\ active \in [Users -> BOOLEAN]
    /\ roles \in [Users -> SUBSET Roles]
    /\ session \in [Sessions -> SessionRows \cup {None}]
    /\ token \in [Tokens -> TokenRows \cup {None}]
    /\ clock \in Nat /\ crossed \in SUBSET Users /\ refused \in SUBSET Users
    /\ begun \in Nat /\ faults \in Nat

\* ... and what a thread knows.
Knows(t) ==
    /\ pc[t] \in {"newSession", "logLogin", "loadContext", "admitted"} => my[t].who # None
    /\ pc[t] \in {"checkDeadlines", "refresh", "loadUser"} =>
         my[t].sess # None /\ session[my[t].sess] # None
    /\ pc[t] \in {"logCreateToken", "revokeToken", "logRevokeToken"} =>
         my[t].target \in Tokens /\ token[my[t].target] # None
    /\ pc[t] \in {"logCreateUser", "deactivate", "update", "logUpdate"} => my[t].target \in Users
    /\ pc[t] \in {"samlInsert", "samlUpdate"} =>
         my[t].target \in Users /\ my[t].target = my[t].who /\ my[t].ask.role # None

LEMMA TypeParts ==
    ASSUME TypeOK
    PROVE  /\ TablesOK
           /\ pc \in [Threads -> Steps] /\ my \in [Threads -> Reads]
           /\ \A t \in Threads : Knows(t)
BY DEF TypeOK, TablesOK, Knows

\* The tables are empty but for the administrator.
LEMMA InitType == Init => TypeOK
<1> SUFFICES ASSUME Init PROVE TypeOK OBVIOUS
<1>1. TablesOK
  BY ConstantsAssumption DEF Init, TablesOK, TokenRows, SessionRows
<1>2. Fresh \in Reads BY DEF Fresh, Keep, Reads, Asks
<1>3. my \in [Threads -> Reads] BY <1>2 DEF Init
<1>4. pc \in [Threads -> Steps] /\ \A t \in Threads : Knows(t) BY DEF Init, Steps, Knows
<1>5. QED BY <1>1, <1>3, <1>4 DEF TypeOK, TablesOK, Knows

\* No row of sessions and api_tokens is ever removed.
RowsStay ==
    /\ \A s \in Sessions : session[s] # None => session'[s] # None
    /\ \A k \in Tokens : token[k] # None => token'[k] # None

\* A step of one thread.
LEMMA OneThreadMoves ==
    ASSUME TypeOK, NEW t \in Threads, NEW l \in Steps, Goto(t, l), TablesOK', RowsStay,
           NEW mine \in Reads, my' = [my EXCEPT ![t] = mine], Knows(t)'
    PROVE  TypeOK'
<1> USE TypeParts
<1>1. pc' \in [Threads -> Steps] /\ my' \in [Threads -> Reads] BY DEF Goto
<1>2. ASSUME NEW s \in Threads, s # t PROVE Knows(s)'
  <2>1. pc'[s] = pc[s] /\ my'[s] = my[s] /\ my[s] \in Reads /\ Knows(s) BY <1>2 DEF Goto
  <2>2. my[s].sess \in Sessions \cup {None} BY <2>1 DEF Reads
  <2>3. QED BY <2>1, <2>2 DEF Knows, RowsStay
<1>3. Knows(t)' /\ TablesOK' OBVIOUS
<1>4. QED BY <1>1, <1>2, <1>3 DEF TypeOK, TablesOK, Knows

\* The same, when it leaves what it has read alone.
LEMMA OneThreadGoes ==
    ASSUME TypeOK, NEW t \in Threads, NEW l \in Steps, Goto(t, l), TablesOK', RowsStay,
           UNCHANGED my, Knows(t)'
    PROVE  TypeOK'
<1>1. my \in [Threads -> Reads] BY DEF TypeOK
<1>2. my[t] \in Reads /\ my' = [my EXCEPT ![t] = my[t]] BY <1>1
<1>3. QED BY <1>2, OneThreadMoves

LEMMA SameTables ==
    ASSUME TypeOK, UNCHANGED <<tables, clock, crossed>>, refused' \in SUBSET Users,
           begun' \in Nat, faults' \in Nat
    PROVE  TablesOK' /\ RowsStay
BY TypeParts DEF TablesOK, RowsStay, tables

\* The end of requests leaves the other threads as they were.
LEMMA FinishType ==
    ASSUME TypeOK, NEW T \in SUBSET Threads, Finish(T), UNCHANGED <<tables, clock, crossed>>,
           refused' \in SUBSET Users, begun' \in Nat, faults' \in Nat
    PROVE  TypeOK'
<1> USE TypeParts
<1>1. TablesOK' /\ RowsStay BY SameTables
<1>2. Fresh \in Reads BY DEF Fresh, Keep, Reads, Asks
<1>3. pc' \in [Threads -> Steps] /\ my' \in [Threads -> Reads] BY <1>2 DEF Finish, Steps
<1>4. ASSUME NEW t \in Threads PROVE Knows(t)'
  <2>1. CASE t \in T BY <2>1 DEF Finish, Knows
  <2>2. CASE t \notin T
    <3>1. pc'[t] = pc[t] /\ my'[t] = my[t] /\ Knows(t) BY <2>2 DEF Finish
    <3>2. QED BY <3>1 DEF Knows, tables
  <2>3. QED BY <2>1, <2>2
<1>5. QED BY <1>1, <1>3, <1>4 DEF TypeOK, TablesOK, Knows

\* A login, and a session or token that is looked up.
LEMMA BeginType ==
    ASSUME TypeOK, NEW t \in Threads, Begin(t)
    PROVE  TypeOK'
<1> USE TypeParts, ConstantsAssumption DEF BeginAt
<1>0. my[t] \in Reads OBVIOUS
<1>1. ASSUME NEW l \in Steps, NEW mine \in Reads, BeginAt(t, l), my' = [my EXCEPT ![t] = mine],
             Knows(t)'
      PROVE  TypeOK'
  <2>1. TablesOK' /\ RowsStay BY <1>1, SameTables DEF TablesOK, book
  <2>2. QED BY <1>1, <2>1, OneThreadMoves
<1>2. ASSUME NEW u \in Users, LocalLogin(t, u) PROVE TypeOK'
  <2> DEFINE mine == [my[t] EXCEPT !.who = u]
  <2>1. mine \in Reads BY <1>0 DEF Reads
  <2>2. my' = [my EXCEPT ![t] = mine] BY <1>2 DEF LocalLogin
  <2>3. my'[t].who = u BY <1>0, <2>2 DEF Reads
  <2>4. Knows(t)' BY <1>2, <2>3 DEF LocalLogin, Knows, Goto
  <2>5. QED BY <1>1, <1>2, <2>1, <2>2, <2>4 DEF LocalLogin, Steps
<1>3. ASSUME NEW u \in Users, NEW r \in Roles, FindSamlUser(t, u, r) PROVE TypeOK'
  <2>1. PICK old \in FirstRole(u) :
          my' = [my EXCEPT ![t].inLoop = TRUE, ![t].who = u, ![t].target = u,
                           ![t].ask.role = r, ![t].held = old]
    BY <1>3 DEF FindSamlUser
  <2>2. old \in Roles \cup {None} BY DEF FirstRole, TablesOK
  <2> DEFINE asked == [my[t].ask EXCEPT !.role = r]
             mine == [my[t] EXCEPT !.inLoop = TRUE, !.who = u, !.target = u, !.ask = asked,
                                   !.held = old]
  <2>3. asked \in Asks /\ asked.role = r BY <1>0 DEF Reads, Asks
  <2>4. mine \in Reads BY <1>0, <2>2, <2>3 DEF Reads
  <2>5. my' = [my EXCEPT ![t] = mine] BY <1>0, <2>1 DEF Reads
  <2>6. my'[t].who = u /\ my'[t].target = u /\ my'[t].ask.role = r
    BY <1>0, <2>3, <2>5 DEF Reads
  <2>7. Knows(t)' BY <1>3, <2>6 DEF FindSamlUser, Knows, Goto
  <2>8. QED BY <1>1, <1>3, <2>4, <2>5, <2>7 DEF FindSamlUser, Steps
<1>4. ASSUME NEW s \in Sessions, LookUp(t, s) PROVE TypeOK'
  <2> DEFINE mine == [my[t] EXCEPT !.sess = s, !.deadline = session[s].expires]
  <2>1. session[s] \in SessionRows BY <1>4 DEF LookUp, TablesOK
  <2>2. mine \in Reads BY <1>0, <2>1 DEF Reads, SessionRows
  <2>3. my' = [my EXCEPT ![t] = mine] BY <1>4 DEF LookUp
  <2>4. my'[t].sess = s BY <1>0, <2>3 DEF Reads
  <2>5. Knows(t)' BY <1>4, <2>4 DEF LookUp, Knows, Goto, tables
  <2>6. QED BY <1>1, <1>4, <2>2, <2>3, <2>5 DEF LookUp, Steps
<1>5. ASSUME NEW k \in Tokens, LookUpToken(t, k) PROVE TypeOK'
  <2> DEFINE mine == [my[t] EXCEPT !.who = token[k].user]
  <2>1. token[k].user \in Users BY <1>5 DEF LookUpToken, TablesOK, TokenRows
  <2>2. mine \in Reads BY <1>0, <2>1 DEF Reads
  <2>3. my' = [my EXCEPT ![t] = mine] BY <1>5 DEF LookUpToken
  <2>4. my'[t].who = token[k].user BY <1>0, <2>3 DEF Reads
  <2>5. Knows(t)' BY <1>5, <2>1, <2>4 DEF LookUpToken, Knows, Goto
  <2>6. QED BY <1>1, <1>5, <2>2, <2>3, <2>5 DEF LookUpToken, Steps
<1>6. QED BY <1>2, <1>3, <1>4, <1>5 DEF Begin

\* Every role grants permissions there are.
LEMMA PermissionsKnown == \A r \in Roles : RolePermissions[r] \subseteq AllPermissions
<1>1. DOMAIN RolePermissions = {"admin", "operator", "auditor", "requester"}
  BY DEF RolePermissions
<1>2. /\ RolePermissions["admin"] = AllPermissions
      /\ RolePermissions["operator"] =
           Reading \cup OwnTokens \cup {"cert:issue", "cert:revoke", "cert:approve", "settings:read"}
      /\ RolePermissions["auditor"] =
           Reading \cup {"audit:read", "settings:read", "token:read_own"}
      /\ RolePermissions["requester"] = {"cert:request"}
  BY DEF RolePermissions
<1>3. \A r \in DOMAIN RolePermissions : RolePermissions[r] \subseteq AllPermissions
  BY <1>1, <1>2 DEF AllPermissions, OwnTokens
<1>4. QED BY <1>3, ConstantsAssumption

\* Sessions, and what admits a request.
LEMMA AdmitType ==
    ASSUME TypeOK, NEW t \in Threads, Admit(t)
    PROVE  TypeOK'
<1> USE TypeParts, ConstantsAssumption, NoneIsNoRow
<1>0. my[t] \in Reads /\ Knows(t) OBVIOUS
<1>1. ASSUME NEW s \in Sessions, CreateSession(t, s) PROVE TypeOK'
  <2> DEFINE row == [user |-> my[t].who, created |-> clock, seen |-> clock,
                     expires |-> clock + Idle, revoked |-> FALSE]
  <2>1. row \in SessionRows BY <1>0, <1>1 DEF CreateSession, Knows, Reads, TablesOK, SessionRows
  <2>2. session' = [session EXCEPT ![s] = row] BY <1>1 DEF CreateSession
  <2>3. TablesOK' BY <1>1, <2>1, <2>2 DEF CreateSession, TablesOK, book
  <2>4. RowsStay BY <1>1, <2>1, <2>2 DEF CreateSession, TablesOK, RowsStay
  <2>5. Knows(t)' BY <1>0, <1>1 DEF CreateSession, Knows, Goto
  <2>6. QED BY <1>1, <2>3, <2>4, <2>5, OneThreadGoes DEF CreateSession, Steps
<1>2. CASE LogLogin(t) BY <1>2, FinishType DEF LogLogin, Log, TablesOK, book
<1>3. CASE CheckDeadlines(t)
  <2> DEFINE mine == [my[t] EXCEPT !.now = clock]
  <2>1. mine \in Reads BY <1>0 DEF Reads, TablesOK
  <2>2. my' = [my EXCEPT ![t] = mine] BY <1>3 DEF CheckDeadlines
  <2>3. TablesOK' /\ RowsStay BY <1>3, SameTables DEF CheckDeadlines, TablesOK, book
  <2>4. my'[t].sess = my[t].sess BY <1>0, <2>2 DEF Reads
  <2>5. Knows(t)' BY <1>0, <1>3, <2>4 DEF CheckDeadlines, Knows, Goto, tables
  <2>6. QED BY <1>3, <2>1, <2>2, <2>3, <2>5, OneThreadMoves DEF CheckDeadlines, Steps
<1>4. CASE Refresh(t)
  <2>1. /\ my[t].sess \in Sessions /\ session[my[t].sess] \in SessionRows
        /\ my[t].now \in Nat
    BY <1>0, <1>4 DEF Refresh, Knows, Reads, TablesOK
  <2>2. Extended(t) \in Nat BY <2>1 DEF Extended, SessionRows
  <2> DEFINE row == [session[my[t].sess] EXCEPT !.seen = my[t].now, !.expires = Extended(t)]
  <2>3. row \in SessionRows BY <2>1, <2>2 DEF SessionRows
  <2>4. session' = [session EXCEPT ![my[t].sess] = row] BY <1>4 DEF Refresh
  <2>5. TablesOK' BY <1>4, <2>1, <2>3, <2>4 DEF Refresh, TablesOK, book
  <2>6. RowsStay BY <1>4, <2>1, <2>3, <2>4 DEF Refresh, TablesOK, RowsStay
  <2>7. Knows(t)' BY <1>0, <1>4, <2>1, <2>6 DEF Refresh, Knows, Goto, RowsStay
  <2>8. QED BY <1>4, <2>5, <2>6, <2>7, OneThreadGoes DEF Refresh, Steps
<1>5. CASE LoadUser(t)
  <2> DEFINE u == session[my[t].sess].user
             mine == [my[t] EXCEPT !.who = u]
  <2>1. u \in Users BY <1>0, <1>5 DEF LoadUser, Knows, Reads, TablesOK, SessionRows
  <2>2. mine \in Reads BY <1>0, <2>1 DEF Reads
  <2>3. my' = [my EXCEPT ![t] = mine] BY <1>5 DEF LoadUser
  <2>4. TablesOK' /\ RowsStay BY <1>5, SameTables DEF LoadUser, TablesOK, book
  <2>5. my'[t].who = u BY <1>0, <2>3 DEF Reads
  <2>6. Knows(t)' BY <1>5, <2>1, <2>5 DEF LoadUser, Knows, Goto
  <2>7. QED BY <1>5, <2>2, <2>3, <2>4, <2>6, OneThreadMoves DEF LoadUser, Steps
<1>6. CASE LoadContext(t)
  <2> DEFINE granted == UNION {RolePermissions[r] : r \in roles[my[t].who]}
             mine == [my[t] EXCEPT !.grants = granted]
  <2>1. \A r \in Roles : RolePermissions[r] \subseteq AllPermissions
    BY PermissionsKnown
  <2>2. my[t].who \in Users BY <1>0, <1>6 DEF LoadContext, Knows, Reads
  <2>3. granted \subseteq AllPermissions BY <2>1, <2>2 DEF TablesOK
  <2>4. mine \in Reads BY <1>0, <2>3 DEF Reads
  <2>5. my' = [my EXCEPT ![t] = mine] BY <1>6 DEF LoadContext
  <2>6. TablesOK' /\ RowsStay BY <1>6, SameTables DEF LoadContext, TablesOK, book
  <2>7. my'[t].who = my[t].who BY <1>0, <2>5 DEF Reads
  <2>8. Knows(t)' BY <1>0, <1>6, <2>7 DEF LoadContext, Knows, Goto
  <2>9. QED BY <1>6, <2>4, <2>5, <2>6, <2>8, OneThreadMoves DEF LoadContext, Steps
<1>7. CASE EndRequest(t) BY <1>7, FinishType DEF EndRequest, TablesOK, book
<1>8. QED BY <1>1, <1>2, <1>3, <1>4, <1>5, <1>6, <1>7 DEF Admit

\* API tokens.
LEMMA TokenType ==
    ASSUME TypeOK, NEW t \in Threads,
           \/ \E k \in Tokens : CreateToken(t, k) \/ FindToken(t, k)
           \/ LogCreateToken(t) \/ RevokeToken(t) \/ LogRevokeToken(t)
    PROVE  TypeOK'
<1> USE TypeParts, ConstantsAssumption, NoneIsNoRow
<1>0. my[t] \in Reads /\ Knows(t) OBVIOUS
<1> DEFINE mine(k) == [my[t] EXCEPT !.target = k]
<1>1. \A k \in Tokens : mine(k) \in Reads BY <1>0 DEF Reads
<1>2. ASSUME NEW k \in Tokens, CreateToken(t, k) PROVE TypeOK'
  <2> DEFINE row == [user |-> my[t].who, revoked |-> FALSE]
  <2>1. row \in TokenRows BY <1>0, <1>2 DEF CreateToken, Knows, Reads, TokenRows
  <2>2. token' = [token EXCEPT ![k] = row] BY <1>2 DEF CreateToken
  <2>3. TablesOK' BY <1>2, <2>1, <2>2 DEF CreateToken, TablesOK, book
  <2>4. RowsStay BY <1>2, <2>1, <2>2 DEF CreateToken, TablesOK, RowsStay
  <2>5. my' = [my EXCEPT ![t] = mine(k)] BY <1>2 DEF CreateToken
  <2>6. my'[t].target = k BY <1>0, <2>5 DEF Reads
  <2>7. token'[k] # None BY <2>1, <2>2 DEF TablesOK
  <2>8. Knows(t)' BY <1>2, <2>6, <2>7 DEF CreateToken, Knows, Goto
  <2>9. QED BY <1>1, <1>2, <2>3, <2>4, <2>5, <2>8, OneThreadMoves DEF CreateToken, Steps
<1>3. ASSUME NEW k \in Tokens, FindToken(t, k) PROVE TypeOK'
  <2>1. my' = [my EXCEPT ![t] = mine(k)] BY <1>3 DEF FindToken
  <2>2. TablesOK' /\ RowsStay BY <1>3, SameTables DEF FindToken, TablesOK, book
  <2>3. my'[t].target = k BY <1>0, <2>1 DEF Reads
  <2>4. Knows(t)' BY <1>3, <2>3 DEF FindToken, Knows, Goto, tables
  <2>5. QED BY <1>1, <1>3, <2>1, <2>2, <2>4, OneThreadMoves DEF FindToken, Steps
<1>4. CASE RevokeToken(t)
  <2> DEFINE row == [token[my[t].target] EXCEPT !.revoked = TRUE]
  <2>1. my[t].target \in Tokens /\ token[my[t].target] \in TokenRows
    BY <1>0, <1>4 DEF RevokeToken, Knows, TablesOK
  <2>2. row \in TokenRows BY <2>1 DEF TokenRows
  <2>3. token' = [token EXCEPT ![my[t].target] = row] BY <1>4 DEF RevokeToken
  <2>4. TablesOK' BY <1>4, <2>1, <2>2, <2>3 DEF RevokeToken, TablesOK, book
  <2>5. RowsStay BY <1>4, <2>1, <2>2, <2>3 DEF RevokeToken, TablesOK, RowsStay
  <2>6. Knows(t)' BY <1>0, <1>4, <2>1, <2>5 DEF RevokeToken, Knows, Goto, RowsStay
  <2>7. QED BY <1>4, <2>4, <2>5, <2>6, OneThreadGoes DEF RevokeToken, Steps
<1>5. CASE LogCreateToken(t) \/ LogRevokeToken(t)
  BY <1>5, FinishType DEF LogCreateToken, LogRevokeToken, Log, TablesOK, book
<1>6. QED BY <1>2, <1>3, <1>4, <1>5

\* The role that a change writes, or leaves.
LEMMA RolesType ==
    ASSUME TypeOK, NEW t \in Threads, my[t].target \in Users
    PROVE  RolesWritten(t) \subseteq Roles
BY TypeParts DEF RolesWritten, TablesOK, Reads, Asks

LEMMA RevokedRow ==
    ASSUME NEW row \in SessionRows
    PROVE  [row EXCEPT !.revoked = TRUE] \in SessionRows
BY DEF SessionRows

\* Users.
LEMMA UserType ==
    ASSUME TypeOK, NEW t \in Threads,
           \/ \E u \in Users, r \in Roles : CreateUser(t, u, r)
           \/ \E u \in Users, body \in Bodies : FindUser(t, u, body)
           \/ LogCreateUser(t) \/ Deactivate(t) \/ Update(t) \/ RefusePassword(t) \/ LogUpdate(t)
           \/ SamlInsert(t) \/ SamlUpdate(t) \/ Conflict(t)
    PROVE  TypeOK'
<1> USE TypeParts, ConstantsAssumption, NoneIsNoRow
<1>0. my[t] \in Reads /\ Knows(t) OBVIOUS
<1>1. ASSUME NEW u \in Users, NEW r \in Roles, CreateUser(t, u, r) PROVE TypeOK'
  <2> DEFINE mine == [my[t] EXCEPT !.target = u]
  <2>1. mine \in Reads BY <1>0 DEF Reads
  <2>2. my' = [my EXCEPT ![t] = mine] BY <1>1 DEF CreateUser
  <2>3. TablesOK' BY <1>1 DEF CreateUser, TablesOK, book
  <2>4. RowsStay BY <1>1 DEF CreateUser, RowsStay
  <2>5. my'[t].target = u BY <1>0, <2>2 DEF Reads
  <2>6. Knows(t)' BY <1>1, <2>5 DEF CreateUser, Knows, Goto
  <2>7. QED BY <1>1, <2>1, <2>2, <2>3, <2>4, <2>6, OneThreadMoves DEF CreateUser, Steps
<1>2. ASSUME NEW u \in Users, NEW body \in Bodies, FindUser(t, u, body) PROVE TypeOK'
  <2>1. PICK r \in FirstRole(u) :
          my' = [my EXCEPT ![t].target = u, ![t].ask = body, ![t].held = r,
                           ![t].was = active[u] \/ u = my[t].who]
    BY <1>2 DEF FindUser
  <2>2. r \in Roles \cup {None} BY DEF FirstRole, TablesOK
  <2>3. body \in Asks BY DEF Asks
  <2> DEFINE mine == [my[t] EXCEPT !.target = u, !.ask = body, !.held = r,
                                   !.was = active[u] \/ u = my[t].who]
  <2>4. (active[u] \/ u = my[t].who) \in BOOLEAN BY DEF TablesOK
  <2>5. mine \in Reads
    <3> DEFINE b == active[u] \/ u = my[t].who
    <3>1. b \in BOOLEAN BY <2>4
    <3>2. mine = [my[t] EXCEPT !.target = u, !.ask = body, !.held = r, !.was = b] OBVIOUS
    <3> HIDE DEF mine, b
    <3>3. QED BY <1>0, <2>2, <2>3, <3>1, <3>2 DEF Reads
  <2>6. my' = [my EXCEPT ![t] = mine] BY <2>1
  <2>7. TablesOK' /\ RowsStay BY <1>2, SameTables DEF FindUser, TablesOK, book
  <2>8. my'[t].target = u BY <1>0, <2>6 DEF Reads
  <2>9. Knows(t)' BY <1>2, <2>8 DEF FindUser, Knows, Goto
  <2>10. QED BY <1>2, <2>5, <2>6, <2>7, <2>9, OneThreadMoves DEF FindUser, Steps
<1>3. CASE Deactivate(t)
  <2>1. my[t].target \in Users BY <1>0, <1>3 DEF Deactivate, Knows
  <2>2. RolesWritten(t) \in SUBSET Roles BY <2>1, RolesType
  <2>3. \A s \in Sessions : session[s] # None => Revoke(s) \in SessionRows
    BY RevokedRow DEF Revoke, TablesOK
  <2>4. /\ session' \in [Sessions -> SessionRows \cup {None}]
        /\ \A s \in Sessions : session[s] # None => session'[s] # None
    BY <1>3, <2>3 DEF Deactivate, TablesOK
  <2>5. TablesOK' BY <1>3, <2>1, <2>2, <2>4 DEF Deactivate, NoteLogins, TablesOK
  <2>6. RowsStay BY <1>3, <2>4 DEF Deactivate, RowsStay
  <2>7. Knows(t)' BY <1>3, <2>1 DEF Deactivate, Knows, Goto
  <2>8. QED BY <1>3, <2>5, <2>6, <2>7, OneThreadGoes DEF Deactivate, Steps
<1>4. CASE Update(t)
  <2>1. my[t].target \in Users BY <1>0, <1>4 DEF Update, Knows
  <2>2. RolesWritten(t) \in SUBSET Roles BY <2>1, RolesType
  <2>3. TablesOK' BY <1>4, <2>1, <2>2 DEF Update, TablesOK, book
  <2>4. RowsStay BY <1>4 DEF Update, RowsStay
  <2>5. Knows(t)' BY <1>4, <2>1 DEF Update, Knows, Goto
  <2>6. QED BY <1>4, <2>3, <2>4, <2>5, OneThreadGoes DEF Update, Steps
<1>5. CASE SamlInsert(t)
  <2>1. my[t].who \in Users /\ my[t].ask.role \in Roles
    BY <1>0, <1>5 DEF SamlInsert, Knows, Reads, Asks
  <2>2. TablesOK' BY <1>5, <2>1 DEF SamlInsert, TablesOK, book
  <2>3. RowsStay BY <1>5 DEF SamlInsert, RowsStay
  <2>4. Knows(t)' BY <1>5, <2>1 DEF SamlInsert, Knows, Goto
  <2>5. QED BY <1>5, <2>2, <2>3, <2>4, OneThreadGoes DEF SamlInsert, Steps
<1>6. CASE SamlUpdate(t)
  <2>1. my[t].who \in Users /\ my[t].target \in Users BY <1>0, <1>6 DEF SamlUpdate, Knows
  <2>2. RolesWritten(t) \in SUBSET Roles BY <2>1, RolesType
  <2>3. TablesOK' BY <1>6, <2>1, <2>2 DEF SamlUpdate, TablesOK, book
  <2>4. RowsStay BY <1>6 DEF SamlUpdate, RowsStay
  <2>5. Knows(t)' BY <1>6, <2>1 DEF SamlUpdate, Knows, Goto
  <2>6. QED BY <1>6, <2>3, <2>4, <2>5, OneThreadGoes DEF SamlUpdate, Steps
<1>7. CASE LogCreateUser(t) \/ LogUpdate(t) \/ Conflict(t)
  BY <1>7, FinishType DEF LogCreateUser, LogUpdate, Conflict, Log, TablesOK, book
<1>8. CASE RefusePassword(t)
  <2>1. my[t].target \in Users BY <1>0, <1>8 DEF RefusePassword, Knows
  <2>2. refused' \in SUBSET Users BY <1>8, <2>1 DEF RefusePassword, TablesOK
  <2>3. QED BY <1>8, <2>2, FinishType DEF RefusePassword, TablesOK
<1>9. QED BY <1>1, <1>2, <1>3, <1>4, <1>5, <1>6, <1>7, <1>8

\* Faults, the clock, and a logout, whose thread does nothing else.
LEMMA OtherType ==
    ASSUME TypeOK,
           \/ Restart \/ Tick \/ UNCHANGED vars
           \/ \E t \in Threads : CommitFails(t)
           \/ \E s \in Sessions : Logout(s)
    PROVE  TypeOK'
<1> USE TypeParts, ConstantsAssumption, NoneIsNoRow
<1>1. CASE Restart BY <1>1, FinishType DEF Restart, TablesOK
<1>2. ASSUME NEW t \in Threads, CommitFails(t) PROVE TypeOK'
  BY <1>2, FinishType DEF CommitFails, TablesOK
<1>3. CASE Tick
  BY <1>3 DEF Tick, TypeOK, tables, book
<1>4. ASSUME NEW s \in Sessions, Logout(s) PROVE TypeOK'
  <2>1. Revoke(s) \in SessionRows BY <1>4, RevokedRow DEF Logout, Revoke, TablesOK
  <2>2. session' = [session EXCEPT ![s] = Revoke(s)] BY <1>4 DEF Logout
  <2>3. TablesOK' BY <1>4, <2>1, <2>2 DEF Logout, TablesOK, book
  <2>4. RowsStay BY <1>4, <2>1, <2>2 DEF Logout, TablesOK, RowsStay
  <2>5. \A t \in Threads : Knows(t)'
    <3> SUFFICES ASSUME NEW t \in Threads PROVE Knows(t)' OBVIOUS
    <3>1. my[t] \in Reads /\ Knows(t) OBVIOUS
    <3>2. my[t].sess \in Sessions \cup {None} BY <3>1 DEF Reads
    <3>3. QED BY <1>4, <2>4, <3>1, <3>2 DEF Logout, Knows, RowsStay
  <2>6. QED BY <1>4, <2>3, <2>5 DEF Logout, TypeOK, TablesOK, Knows
<1>5. CASE UNCHANGED vars BY <1>5 DEF vars, tables, book, TypeOK
<1>6. QED BY <1>1, <1>2, <1>3, <1>4, <1>5

LEMMA StepType ==
    ASSUME TypeOK, [Next]_vars
    PROVE  TypeOK'
<1>1. ASSUME NEW t \in Threads, Manage(t) PROVE TypeOK'
  BY <1>1, TokenType, UserType DEF Manage
<1>2. QED BY <1>1, BeginType, AdmitType, OtherType DEF Next

\* Type correctness of users, sessions and tokens (core/security/sessions.py,
\* services/user_service.py, services/token_service.py): a thread that has read a
\* row knows which, and the row is still there.
THEOREM TypeCorrect == Spec => []TypeOK
<1>1. TypeOK /\ [Next]_vars => TypeOK' BY StepType
<1>2. QED BY InitType, <1>1, PTL DEF Spec
-----------------------------------------------------------------------------
(* One role each *)

\* A thread that will change a role has read the role that its user has or had.
Holds(t) ==
    pc[t] \in {"deactivate", "update", "samlUpdate"} =>
      created[my[t].target] /\ my[t].held # None

RolesInv == TypeOK /\ OneRoleEach /\ \A t \in Threads : Holds(t)

LEMMA InitRoles == Init => RolesInv
BY InitType, ConstantsAssumption DEF Init, RolesInv, OneRoleEach, Holds

\* What keeps the invariant, of a step after which every user has one role:
\* the threads that have read a role stay put, or are over.
LEMMA HoldsKept ==
    ASSUME RolesInv, TypeOK', OneRoleEach', \A u \in Users : created[u] => created'[u],
           \A t \in Threads : \/ pc'[t] = pc[t] /\ my'[t] = my[t]
                             \/ pc'[t] \notin {"deactivate", "update", "samlUpdate"}
                             \/ Holds(t)'
    PROVE  RolesInv'
<1> SUFFICES ASSUME NEW t \in Threads, pc'[t] = pc[t], my'[t] = my[t] PROVE Holds(t)'
  BY DEF RolesInv, Holds
<1>1. Knows(t) /\ Holds(t) BY TypeParts DEF RolesInv
<1>2. QED BY <1>1 DEF Knows, Holds

\* The roles of one user are replaced by one.
LEMMA OneRoleWritten ==
    ASSUME RolesInv, NEW u \in Users, NEW r \in Roles, roles' = [roles EXCEPT ![u] = {r}],
           created' = [created EXCEPT ![u] = TRUE]
    PROVE  OneRoleEach'
BY DEF RolesInv, TypeOK, OneRoleEach

\* A change of a user that has a role leaves one: the one that was read is replaced
\* if it is still there, and the statement fails otherwise.
LEMMA RolesWrittenOne ==
    ASSUME RolesInv, NEW t \in Threads, pc[t] \in {"deactivate", "update", "samlUpdate"},
           RoleWritable(t)
    PROVE  my[t].target \in Users /\ \E r \in Roles : RolesWritten(t) = {r}
<1>1. /\ my[t].target \in Users /\ my[t].ask.role \in Roles \cup {None}
      /\ created[my[t].target] /\ my[t].held # None
  BY TypeParts DEF RolesInv, Holds, Knows, Reads, Asks
<1>2. PICK x \in Roles : roles[my[t].target] = {x} BY <1>1 DEF RolesInv, OneRoleEach
<1>3. CASE my[t].ask.role \in {None, my[t].held} BY <1>1, <1>2, <1>3 DEF RolesWritten
<1>4. CASE my[t].ask.role \notin {None, my[t].held}
  <2>1. x = my[t].held BY <1>1, <1>2, <1>4 DEF RoleWritable
  <2>2. RolesWritten(t) = {my[t].ask.role} BY <1>2, <1>4, <2>1 DEF RolesWritten
  <2>3. QED BY <1>1, <1>4, <2>2
<1>5. QED BY <1>1, <1>3, <1>4

LEMMA StepRoles ==
    ASSUME RolesInv, [Next]_vars
    PROVE  RolesInv'
<1> USE DEF RolesInv
<1>0. TypeOK' BY StepType
<1>1. ASSUME UNCHANGED <<created, roles>>,
             \A t \in Threads : \/ pc'[t] = pc[t] /\ my'[t] = my[t]
                               \/ pc'[t] \notin {"deactivate", "update", "samlUpdate"}
                               \/ Holds(t)'
      PROVE  RolesInv'
  BY <1>0, <1>1, HoldsKept DEF OneRoleEach
<1>2. ASSUME NEW t \in Threads, NEW u \in Users, NEW r \in Roles, FindSamlUser(t, u, r)
      PROVE  RolesInv'
  <2>1. my[t] \in Reads /\ OneRoleEach /\ roles[u] \subseteq Roles /\ None \notin Roles
    BY TypeParts, ConstantsAssumption DEF TablesOK
  <2>2. PICK old \in FirstRole(u) :
          my' = [my EXCEPT ![t].inLoop = TRUE, ![t].who = u, ![t].target = u,
                           ![t].ask.role = r, ![t].held = old]
    BY <1>2 DEF FindSamlUser
  <2>3. my'[t].target = u /\ my'[t].held = old BY <2>1, <2>2, TypeParts DEF Reads
  <2>4. created[u] => old # None BY <2>1, <2>2 DEF OneRoleEach, FirstRole
  <2>5. Holds(t)' BY <1>2, <2>3, <2>4 DEF FindSamlUser, BeginAt, Goto, Holds, TypeOK, tables
  <2>6. \A s \in Threads \ {t} : pc'[s] = pc[s] /\ my'[s] = my[s]
    BY <1>2, <2>2 DEF FindSamlUser, BeginAt, Goto, TypeOK
  <2>7. QED BY <1>1, <1>2, <2>5, <2>6 DEF FindSamlUser, BeginAt, tables
<1>3. ASSUME NEW t \in Threads, NEW u \in Users, NEW body \in Bodies, FindUser(t, u, body)
      PROVE  RolesInv'
  <2>1. my[t] \in Reads /\ OneRoleEach /\ roles[u] \subseteq Roles /\ None \notin Roles
    BY TypeParts, ConstantsAssumption DEF TablesOK
  <2>2. PICK r \in FirstRole(u) :
          my' = [my EXCEPT ![t].target = u, ![t].ask = body, ![t].held = r,
                           ![t].was = active[u] \/ u = my[t].who]
    BY <1>3 DEF FindUser
  <2>3. my'[t].target = u /\ my'[t].held = r BY <2>1, <2>2, TypeParts DEF Reads
  <2>4. created[u] /\ r # None BY <1>3, <2>1, <2>2 DEF FindUser, OneRoleEach, FirstRole
  <2>5. Holds(t)' BY <1>3, <2>3, <2>4 DEF FindUser, Holds, tables
  <2>6. \A s \in Threads \ {t} : pc'[s] = pc[s] /\ my'[s] = my[s]
    BY <1>3, <2>2 DEF FindUser, Goto, TypeOK
  <2>7. QED BY <1>1, <1>3, <2>5, <2>6 DEF FindUser, tables
<1>4. ASSUME NEW t \in Threads, NEW u \in Users, NEW r \in Roles, CreateUser(t, u, r)
      PROVE  RolesInv'
  <2>1. OneRoleEach' BY <1>4, OneRoleWritten DEF CreateUser
  <2>2. \A s \in Threads : \/ pc'[s] = pc[s] /\ my'[s] = my[s]
                          \/ pc'[s] \notin {"deactivate", "update", "samlUpdate"}
    BY <1>4 DEF CreateUser, Goto, TypeOK
  <2>3. \A v \in Users : created[v] => created'[v] BY <1>4 DEF CreateUser, TypeOK
  <2>4. QED BY <1>0, <2>1, <2>2, <2>3, HoldsKept
<1>5. ASSUME NEW t \in Threads, SamlInsert(t) PROVE RolesInv'
  <2>1. my[t].who \in Users /\ my[t].ask.role \in Roles
    BY <1>5, TypeParts DEF SamlInsert, Knows, Reads, Asks
  <2>2. OneRoleEach' BY <1>5, <2>1, OneRoleWritten DEF SamlInsert
  <2>3. \A s \in Threads : \/ pc'[s] = pc[s] /\ my'[s] = my[s]
                          \/ pc'[s] \notin {"deactivate", "update", "samlUpdate"}
    BY <1>5 DEF SamlInsert, Goto, TypeOK
  <2>4. \A v \in Users : created[v] => created'[v] BY <1>5 DEF SamlInsert, TypeOK
  <2>5. QED BY <1>0, <2>2, <2>3, <2>4, HoldsKept
<1>6. ASSUME NEW t \in Threads, Deactivate(t) \/ Update(t) \/ SamlUpdate(t) PROVE RolesInv'
  <2>1. pc[t] \in {"deactivate", "update", "samlUpdate"} /\ RoleWritable(t)
    BY <1>6 DEF Deactivate, Update, SamlUpdate
  <2>2. my[t].target \in Users BY <2>1, RolesWrittenOne
  <2>3. PICK r \in Roles : RolesWritten(t) = {r} BY <2>1, RolesWrittenOne
  <2>4. created[my[t].target] BY <2>1 DEF Holds
  <2>5. roles' = [roles EXCEPT ![my[t].target] = {r}] /\ created' = created
    BY <1>6, <2>1, <2>3, TypeParts DEF Deactivate, Update, SamlUpdate, Knows
  <2>6. OneRoleEach' BY <2>2, <2>4, <2>5 DEF OneRoleEach, TypeOK
  <2>7. \A s \in Threads : \/ pc'[s] = pc[s] /\ my'[s] = my[s]
                          \/ pc'[s] \notin {"deactivate", "update", "samlUpdate"}
    BY <1>6 DEF Deactivate, Update, SamlUpdate, Goto, TypeOK
  <2>8. QED BY <1>0, <2>5, <2>6, <2>7, HoldsKept
<1>7. ASSUME NEW t \in Threads,
             \/ \E u \in Users : LocalLogin(t, u)
             \/ \E s \in Sessions : LookUp(t, s)
             \/ \E k \in Tokens : LookUpToken(t, k)
      PROVE  RolesInv'
  <2>1. UNCHANGED <<created, roles>> BY <1>7 DEF LocalLogin, LookUp, LookUpToken, BeginAt, tables
  <2>2. \A s \in Threads : \/ pc'[s] = pc[s] /\ my'[s] = my[s]
                          \/ pc'[s] \notin {"deactivate", "update", "samlUpdate"}
    <3>1. \E l \in {"newSession", "checkDeadlines", "loadContext"} : Goto(t, l)
      BY <1>7 DEF LocalLogin, LookUp, LookUpToken, BeginAt
    <3>2. ASSUME NEW s \in Threads \ {t} PROVE my'[s] = my[s]
      <4>1. CASE \E u \in Users : LocalLogin(t, u) BY <4>1 DEF LocalLogin
      <4>2. ASSUME NEW q \in Sessions, LookUp(t, q) PROVE my'[s] = my[s]
        <5>1. my' = [my EXCEPT ![t].sess = q, ![t].deadline = session[q].expires]
          BY <4>2 DEF LookUp
        <5>2. my \in [Threads -> Reads] BY TypeParts
        <5>3. QED BY ONLY <5>1, <5>2, s \in Threads \ {t}
      <4>3. CASE \E k \in Tokens : LookUpToken(t, k) BY <4>3 DEF LookUpToken
      <4>4. QED BY <1>7, <4>1, <4>2, <4>3
    <3>3. PICK l \in {"newSession", "checkDeadlines", "loadContext"} : pc' = [pc EXCEPT ![t] = l]
      BY <3>1 DEF Goto
    <3>4. pc'[t] \notin {"deactivate", "update", "samlUpdate"}
          /\ \A s \in Threads \ {t} : pc'[s] = pc[s]
      BY <3>3, TypeParts
    <3>5. QED BY <3>2, <3>4
  <2>3. QED BY <1>1, <2>1, <2>2
<1>8. ASSUME NEW t \in Threads, Admit(t) PROVE RolesInv'
  <2>1. UNCHANGED <<created, roles>>
    BY <1>8 DEF Admit, CreateSession, LogLogin, CheckDeadlines, Refresh, LoadUser, LoadContext,
                EndRequest, Log, tables
  <2>2. \A s \in Threads : \/ pc'[s] = pc[s] /\ my'[s] = my[s]
                          \/ pc'[s] \notin {"deactivate", "update", "samlUpdate"}
    BY <1>8 DEF Admit, CreateSession, LogLogin, CheckDeadlines, Refresh, LoadUser, LoadContext,
                EndRequest, Log, Goto, Finish, TypeOK
  <2>3. QED BY <1>1, <2>1, <2>2
<1>9. ASSUME NEW t \in Threads,
             \/ \E k \in Tokens : CreateToken(t, k) \/ FindToken(t, k)
             \/ LogCreateToken(t) \/ RevokeToken(t) \/ LogRevokeToken(t)
             \/ LogCreateUser(t) \/ RefusePassword(t) \/ LogUpdate(t) \/ Conflict(t)
      PROVE  RolesInv'
  <2>1. UNCHANGED <<created, roles>>
    BY <1>9 DEF CreateToken, FindToken, LogCreateToken, RevokeToken, LogRevokeToken,
                LogCreateUser, RefusePassword, LogUpdate, Conflict, Log, tables
  <2>2. \A s \in Threads : \/ pc'[s] = pc[s] /\ my'[s] = my[s]
                          \/ pc'[s] \notin {"deactivate", "update", "samlUpdate"}
    BY <1>9 DEF CreateToken, FindToken, LogCreateToken, RevokeToken, LogRevokeToken,
                LogCreateUser, RefusePassword, LogUpdate, Conflict, Log, Goto, Finish, TypeOK
  <2>3. QED BY <1>1, <2>1, <2>2
<1>10. CASE Restart \/ Tick \/ UNCHANGED vars \/ (\E t \in Threads : CommitFails(t))
            \/ (\E s \in Sessions : Logout(s))
  BY <1>1, <1>10 DEF Restart, Tick, CommitFails, Logout, Finish, vars, tables
<1>11. QED
  BY <1>2, <1>3, <1>4, <1>5, <1>6, <1>7, <1>8, <1>9, <1>10 DEF Next, Begin, Manage

\* However changes of a user's role, SAML logins, failures and restarts overlap, a
\* user has one role (user_roles admits several, and user_service.py inserts one
\* wherever it finds none).
THEOREM AlwaysOneRoleEach == Spec => []OneRoleEach
<1>1. RolesInv /\ [Next]_vars => RolesInv' BY StepRoles
<1>2. RolesInv => OneRoleEach BY DEF RolesInv
<1>3. QED BY InitRoles, <1>1, <1>2, PTL DEF Spec
-----------------------------------------------------------------------------
(* Sessions *)

\* What sessions keep: their user and the time they were made, and a revocation.
Ended(s) ==
    session[s] # None =>
      /\ session'[s] # None
      /\ session'[s].user = session[s].user /\ session'[s].created = session[s].created
      /\ session[s].revoked \/ (active[session[s].user] /\ ~active'[session[s].user])
           => session'[s].revoked

\* The steps that neither write a session nor deactivate a user.
Elsewhere(t) ==
    \/ Begin(t) \/ LogLogin(t) \/ CheckDeadlines(t) \/ LoadUser(t) \/ LoadContext(t)
    \/ EndRequest(t)
    \/ \E k \in Tokens : CreateToken(t, k) \/ FindToken(t, k)
    \/ LogCreateToken(t) \/ RevokeToken(t) \/ LogRevokeToken(t)
    \/ \E u \in Users, r \in Roles : CreateUser(t, u, r)
    \/ \E u \in Users, body \in Bodies : FindUser(t, u, body)
    \/ LogCreateUser(t) \/ Update(t) \/ RefusePassword(t) \/ LogUpdate(t)
    \/ SamlInsert(t) \/ SamlUpdate(t) \/ Conflict(t)

\* Which they leave alone, and the clock with them.
LEMMA ElsewhereKeeps ==
    ASSUME TypeOK, NEW t \in Threads, Elsewhere(t)
    PROVE  UNCHANGED <<session, clock>> /\ \A u \in Users : active[u] => active'[u]
<1> USE TypeParts DEF TablesOK, tables
<1>1. CASE Begin(t)
  BY <1>1 DEF Begin, LocalLogin, FindSamlUser, LookUp, LookUpToken, BeginAt
<1>2. CASE \/ LogLogin(t) \/ CheckDeadlines(t) \/ LoadUser(t) \/ LoadContext(t) \/ EndRequest(t)
  BY <1>2 DEF LogLogin, CheckDeadlines, LoadUser, LoadContext, EndRequest, Log
<1>3. CASE \/ \E k \in Tokens : CreateToken(t, k) \/ FindToken(t, k)
           \/ LogCreateToken(t) \/ RevokeToken(t) \/ LogRevokeToken(t)
  BY <1>3 DEF CreateToken, FindToken, LogCreateToken, RevokeToken, LogRevokeToken, Log
<1>4. CASE \/ \E u \in Users, r \in Roles : CreateUser(t, u, r)
           \/ \E u \in Users, body \in Bodies : FindUser(t, u, body)
           \/ LogCreateUser(t) \/ RefusePassword(t) \/ LogUpdate(t) \/ Conflict(t)
  BY <1>4 DEF CreateUser, FindUser, LogCreateUser, RefusePassword, LogUpdate, Conflict, Log
<1>5. CASE Update(t) \/ SamlInsert(t) \/ SamlUpdate(t)
  BY <1>5 DEF Update, SamlInsert, SamlUpdate
<1>6. QED BY <1>1, <1>2, <1>3, <1>4, <1>5 DEF Elsewhere

\* The steps of a thread that do write one.
LEMMA StepCases ==
    ASSUME Next
    PROVE  \/ \E t \in Threads :
                \/ Elsewhere(t) \/ CommitFails(t) \/ Refresh(t) \/ Deactivate(t)
                \/ \E s \in Sessions : CreateSession(t, s)
           \/ \E s \in Sessions : Logout(s)
           \/ Tick \/ Restart
BY DEF Next, Admit, Manage, Elsewhere

\* The row that a thread extends.
LEMMA RefreshedRow ==
    ASSUME TypeOK, NEW t \in Threads, Refresh(t)
    PROVE  /\ my[t].sess \in Sessions /\ session[my[t].sess] \in SessionRows
           /\ my[t].now \in Nat /\ Extended(t) \in Nat
           /\ session'[my[t].sess] =
                [session[my[t].sess] EXCEPT !.seen = my[t].now, !.expires = Extended(t)]
           /\ \A q \in Sessions : q # my[t].sess => session'[q] = session[q]
<1>1. /\ my[t].sess \in Sessions /\ session[my[t].sess] \in SessionRows
      /\ my[t].now \in Nat
  BY TypeParts DEF Refresh, Knows, Reads, TablesOK
<1>2. Extended(t) \in Nat BY <1>1, ConstantsAssumption DEF Extended, SessionRows
<1> DEFINE row == [session[my[t].sess] EXCEPT !.seen = my[t].now, !.expires = Extended(t)]
<1>3. session' = [session EXCEPT ![my[t].sess] = row] BY DEF Refresh
<1>4. session \in [Sessions -> SessionRows \cup {None}] BY TypeParts DEF TablesOK
<1> HIDE DEF row
<1>5. session'[my[t].sess] = row /\ \A q \in Sessions : q # my[t].sess => session'[q] = session[q]
  BY <1>1, <1>3, <1>4
<1>6. QED BY <1>1, <1>2, <1>5 DEF row

LEMMA StepEnded ==
    ASSUME TypeOK, [Next]_vars, NEW s \in Sessions
    PROVE  Ended(s)
<1> USE TypeParts, NoneIsNoRow DEF tables
<1>0. session[s] # None => session[s] \in SessionRows /\ session[s].user \in Users
  BY DEF TablesOK, SessionRows
<1>1. ASSUME session' = session, \A u \in Users : active[u] => active'[u] PROVE Ended(s)
  BY <1>0, <1>1 DEF Ended
<1>2. ASSUME NEW t \in Threads, Elsewhere(t) PROVE Ended(s) BY <1>1, <1>2, ElsewhereKeeps
<1>3. ASSUME NEW t \in Threads, NEW q \in Sessions, CreateSession(t, q) PROVE Ended(s)
  BY <1>0, <1>3 DEF CreateSession, Ended, TablesOK
<1>4. ASSUME NEW t \in Threads, Refresh(t) PROVE Ended(s)
  <2>1. CASE s # my[t].sess
    BY <1>0, <1>4, <2>1, RefreshedRow DEF Ended, Refresh, TablesOK
  <2>2. CASE s = my[t].sess
    <3>1. /\ session'[s] = [session[s] EXCEPT !.seen = my[t].now, !.expires = Extended(t)]
          /\ session[s] \in SessionRows
      BY <1>4, <2>2, RefreshedRow
    <3>2. /\ session'[s] \in SessionRows /\ session'[s].user = session[s].user
          /\ session'[s].created = session[s].created /\ session'[s].revoked = session[s].revoked
      <4>1. my[t].now \in Nat /\ Extended(t) \in Nat BY <1>4, RefreshedRow
      <4>2. QED BY ONLY <3>1, <4>1 DEF SessionRows
    <3>3. QED BY <1>4, <3>1, <3>2 DEF Ended, Refresh
  <2>3. QED BY <2>1, <2>2
<1>5. ASSUME NEW t \in Threads, Deactivate(t) PROVE Ended(s)
  <2> SUFFICES ASSUME session[s] # None PROVE Ended(s) BY DEF Ended
  <2>1. my[t].target \in Users BY <1>5 DEF Deactivate, Knows
  <2>2. session[s] \in SessionRows BY DEF TablesOK
  <2>3. /\ Revoke(s) \in SessionRows /\ Revoke(s).user = session[s].user
        /\ Revoke(s).created = session[s].created /\ Revoke(s).revoked
    BY <2>2 DEF Revoke, SessionRows
  <2>4. CASE session[s].user = my[t].target
    <3>1. session'[s] = Revoke(s) BY <1>5, <2>4 DEF Deactivate
    <3>2. QED BY <2>3, <3>1 DEF Ended
  <2>5. CASE session[s].user # my[t].target
    <3>1. session'[s] = session[s] BY <1>5, <2>5 DEF Deactivate
    <3>2. active'[session[s].user] = active[session[s].user]
      BY <1>0, <1>5, <2>5 DEF Deactivate, TablesOK
    <3>3. QED BY <3>1, <3>2 DEF Ended
  <2>6. QED BY <2>4, <2>5
<1>6. ASSUME NEW q \in Sessions, Logout(q) PROVE Ended(s)
  <2>1. CASE s # q BY <1>0, <1>6, <2>1 DEF Logout, Ended, TablesOK
  <2>2. CASE s = q
    <3>1. session'[s] = Revoke(s) BY <1>6, <2>2 DEF Logout, TablesOK
    <3>2. session[s] \in SessionRows BY <1>6, <2>2 DEF Logout, TablesOK
    <3>3. /\ Revoke(s) \in SessionRows /\ Revoke(s).user = session[s].user
          /\ Revoke(s).created = session[s].created /\ Revoke(s).revoked
      BY <3>2 DEF Revoke, SessionRows
    <3>4. QED BY <3>1, <3>3 DEF Ended
  <2>3. QED BY <2>1, <2>2
<1>7. CASE Tick \/ Restart \/ UNCHANGED vars \/ \E t \in Threads : CommitFails(t)
  BY <1>1, <1>7 DEF Tick, Restart, CommitFails, vars
<1>8. QED BY <1>2, <1>3, <1>4, <1>5, <1>6, <1>7, StepCases

\* The deactivation of a user ends the user's sessions, and no session that has been
\* revoked is ever valid again, although requests go on to write to its row.
THEOREM DeactivationAlwaysEndsSessions == Spec => DeactivationEndsSessions
<1>1. TypeOK /\ [Next]_vars =>
        [\A s \in Sessions :
           /\ session[s] # None
           /\ \/ session[s].revoked
              \/ active[session[s].user] /\ ~active'[session[s].user]
           => session'[s].revoked]_vars
  BY StepEnded DEF Ended
<1>2. QED BY <1>1, TypeCorrect, PTL DEF Spec, DeactivationEndsSessions
-----------------------------------------------------------------------------
(* Deadlines *)

End(s) == session[s].created + Absolute

\* A session was last seen since it was made, and by now.
Seen(s) ==
    session[s] # None =>
      /\ session[s].created <= session[s].seen /\ session[s].seen <= clock
      /\ session[s].expires <= session[s].seen + Idle
      /\ session[s].seen # session[s].created =>
           session[s].seen < End(s) /\ session[s].expires <= End(s)

\* A thread that has read the absolute deadline in expires_at, and will leave that
\* column alone, does so only where it is no later than the column it would write.
Window(t) ==
    pc[t] \in {"checkDeadlines", "refresh"} =>
      LET s == my[t].sess
          time == IF pc[t] = "refresh" THEN my[t].now ELSE clock
      IN  /\ my[t].deadline = End(s) => session[s].expires <= End(s) /\ End(s) <= time + Idle
          /\ session[s].created <= time /\ time <= clock
          /\ pc[t] = "refresh" => time < End(s)

DeadlineInv ==
    TypeOK /\ (\A s \in Sessions : Seen(s)) /\ (\A t \in Threads : Window(t))

LEMMA InitDeadlines == Init => DeadlineInv
BY InitType DEF Init, DeadlineInv, Seen, Window

\* What a step that is not a request's own does to the row the request has read.
Later ==
    /\ clock' \in Nat /\ clock <= clock'
    /\ \A s \in Sessions : session[s] # None =>
         /\ session'[s].created = session[s].created
         /\ session[s].expires <= End(s) => session'[s].expires <= End(s)

\* It keeps the window of a thread that stays where it is.
LEMMA WindowKept ==
    ASSUME DeadlineInv, TypeOK', Later, NEW t \in Threads, pc'[t] = pc[t], my'[t] = my[t]
    PROVE  Window(t)'
<1> SUFFICES ASSUME pc[t] \in {"checkDeadlines", "refresh"} PROVE Window(t)'
  BY DEF Window
<1> DEFINE s == my[t].sess
<1>1. Window(t) /\ TypeOK BY DEF DeadlineInv
<1>2. /\ s \in Sessions /\ session[s] \in SessionRows /\ my[t].now \in Nat /\ my[t].deadline \in Nat
      /\ session[s] # None /\ clock \in Nat
  BY <1>1, TypeParts DEF Knows, Reads, TablesOK
<1>3. session[s].created \in Nat /\ session[s].expires \in Nat BY <1>2 DEF SessionRows
<1>4. session'[s].created = session[s].created /\ End(s)' = End(s) BY <1>2 DEF Later, End
<1>5. session[s].expires <= End(s) => session'[s].expires <= End(s) BY <1>2 DEF Later
<1>6. End(s) \in Nat /\ Idle \in Nat BY <1>3, ConstantsAssumption DEF End
<1>7. clock' \in Nat /\ clock <= clock' BY DEF Later
<1>8. my'[t].sess = s /\ my'[t].now = my[t].now /\ my'[t].deadline = my[t].deadline OBVIOUS
<1> HIDE DEF s
<1>9. CASE pc[t] = "refresh"
  BY <1>1, <1>2, <1>3, <1>4, <1>5, <1>6, <1>7, <1>8, <1>9 DEF Window, s
<1>10. CASE pc[t] = "checkDeadlines"
  BY <1>1, <1>2, <1>3, <1>4, <1>5, <1>6, <1>7, <1>8, <1>10 DEF Window, s
<1>11. QED BY <1>9, <1>10

\* A step that leaves the sessions alone.
LEMMA SessionsKept ==
    ASSUME DeadlineInv, TypeOK', session' = session, clock' \in Nat, clock <= clock',
           \A t \in Threads : \/ pc'[t] = pc[t] /\ my'[t] = my[t]
                             \/ pc'[t] \notin {"checkDeadlines", "refresh"}
                             \/ Window(t)'
    PROVE  DeadlineInv'
<1>1. ASSUME NEW s \in Sessions PROVE Seen(s)'
  <2> SUFFICES ASSUME session[s] # None PROVE Seen(s)' BY DEF Seen
  <2>1. session[s] \in SessionRows /\ clock \in Nat /\ Seen(s)
    BY TypeParts DEF DeadlineInv, TablesOK
  <2>2. session[s].seen \in Nat BY <2>1 DEF SessionRows
  <2>3. session[s].seen <= clock' BY <2>1, <2>2 DEF Seen
  <2>4. QED BY <2>1, <2>3 DEF Seen, End
<1>2. Later BY DEF Later
<1>3. ASSUME NEW t \in Threads PROVE Window(t)'
  <2>1. CASE pc'[t] = pc[t] /\ my'[t] = my[t] BY <1>2, <2>1, WindowKept
  <2>2. CASE pc'[t] \notin {"checkDeadlines", "refresh"} BY <2>2 DEF Window
  <2>3. QED BY <2>1, <2>2
<1>4. QED BY <1>1, <1>3 DEF DeadlineInv

\* A step that revokes sessions, or makes or extends one: the rows before and after.
LEMMA SessionsWritten ==
    ASSUME DeadlineInv, TypeOK', clock' = clock, \A s \in Sessions : Seen(s)',
           \A s \in Sessions : session[s] # None =>
             /\ session'[s].created = session[s].created
             /\ session[s].expires <= End(s) => session'[s].expires <= End(s),
           \A t \in Threads : \/ pc'[t] = pc[t] /\ my'[t] = my[t]
                             \/ pc'[t] \notin {"checkDeadlines", "refresh"}
    PROVE  DeadlineInv'
<1>1. clock \in Nat BY TypeParts DEF DeadlineInv, TablesOK
<1>2. Later BY <1>1 DEF Later
<1>3. ASSUME NEW t \in Threads PROVE Window(t)'
  <2>1. CASE pc'[t] = pc[t] /\ my'[t] = my[t] BY <1>2, <2>1, WindowKept
  <2>2. CASE pc'[t] \notin {"checkDeadlines", "refresh"} BY <2>2 DEF Window
  <2>3. QED BY <2>1, <2>2
<1>4. QED BY <1>3 DEF DeadlineInv

LEMMA LookUpWindow ==
    ASSUME DeadlineInv, TypeOK', NEW t \in Threads, NEW q \in Sessions, LookUp(t, q)
    PROVE  DeadlineInv'
<1>1. session[q] \in SessionRows /\ my[t] \in Reads /\ clock \in Nat /\ Seen(q)
  BY TypeParts DEF DeadlineInv, LookUp, TablesOK
<1>2. my' = [my EXCEPT ![t].sess = q, ![t].deadline = session[q].expires] BY DEF LookUp
<1>3. my'[t].sess = q /\ my'[t].deadline = session[q].expires
  BY <1>1, <1>2, TypeParts DEF DeadlineInv, Reads
<1>4. UNCHANGED <<session, clock>> /\ pc'[t] = "checkDeadlines"
  BY TypeParts DEF DeadlineInv, LookUp, BeginAt, Goto, tables
<1>5. /\ session[q].created <= clock
      /\ session[q].expires = End(q) => End(q) <= clock + Idle
  <2>1. /\ session[q].created \in Nat /\ session[q].seen \in Nat /\ session[q].expires \in Nat
        /\ Idle \in Nat
    BY <1>1, ConstantsAssumption DEF SessionRows
  <2>2. /\ session[q].created <= session[q].seen /\ session[q].seen <= clock
        /\ session[q].expires <= session[q].seen + Idle
    BY <1>1 DEF Seen, LookUp
  <2>3. session[q].expires <= clock + Idle BY <1>1, <2>1, <2>2
  <2>4. QED BY <1>1, <2>1, <2>2, <2>3
<1>6. End(q)' = End(q) /\ End(q) <= End(q)
  <2>1. session[q].created \in Nat BY <1>1 DEF SessionRows
  <2>2. QED BY <1>4, <2>1, ConstantsAssumption DEF End
<1>7. Window(t)' BY <1>1, <1>3, <1>4, <1>5, <1>6 DEF Window
<1>8. \A s \in Threads \ {t} : pc'[s] = pc[s] /\ my'[s] = my[s]
  BY <1>2, TypeParts DEF DeadlineInv, LookUp, BeginAt, Goto
<1>9. QED BY <1>1, <1>4, <1>7, <1>8, SessionsKept

LEMMA CheckWindow ==
    ASSUME DeadlineInv, TypeOK', NEW t \in Threads, CheckDeadlines(t)
    PROVE  DeadlineInv'
<1> DEFINE q == my[t].sess
<1>1. my[t] \in Reads /\ clock \in Nat /\ Window(t) /\ pc[t] = "checkDeadlines"
  BY TypeParts DEF DeadlineInv, CheckDeadlines, TablesOK
<1>2. my' = [my EXCEPT ![t].now = clock] BY DEF CheckDeadlines
<1>3. my'[t].sess = q /\ my'[t].deadline = my[t].deadline /\ my'[t].now = clock
  BY <1>1, <1>2, TypeParts DEF DeadlineInv, Reads
<1>4. UNCHANGED <<session, clock>> /\ pc'[t] = "refresh"
  BY TypeParts DEF DeadlineInv, CheckDeadlines, Goto, tables
<1>5. clock < End(q) BY DEF CheckDeadlines, End
<1>6. \A s \in Sessions : session'[s] = session[s] /\ End(s)' = End(s) BY <1>4 DEF End
<1>7. Window(t)'
  <2>1. q \in Sessions BY <1>1, TypeParts DEF DeadlineInv, Knows, Reads
  <2>2. my[t].deadline = End(q) => session[q].expires <= End(q) /\ End(q) <= clock + Idle
    BY <1>1 DEF Window
  <2>3. session[q].created <= clock BY <1>1 DEF Window
  <2>4. session'[q] = session[q] /\ session[q].created + Absolute = End(q) BY <1>4 DEF End
  <2>5. session'[my'[t].sess].created + Absolute = End(q) BY <1>3, <2>4
  <2>6. clock <= clock BY <1>1
  <2> HIDE DEF q
  <2>7. QED BY <1>1, <1>3, <1>4, <1>5, <2>2, <2>3, <2>4, <2>5, <2>6 DEF Window, End
<1>8. \A s \in Threads \ {t} : pc'[s] = pc[s] /\ my'[s] = my[s]
  BY <1>2, TypeParts DEF DeadlineInv, CheckDeadlines, Goto
<1>9. QED BY <1>1, <1>4, <1>7, <1>8, SessionsKept

\* The extended deadline is no later than Idle after the time that was read, nor
\* than the absolute one.
LEMMA RefreshSeen ==
    ASSUME DeadlineInv, TypeOK', NEW t \in Threads, Refresh(t)
    PROVE  DeadlineInv'
<1> DEFINE q == my[t].sess
<1>1. /\ TypeOK /\ Window(t) /\ pc[t] = "refresh" /\ clock \in Nat /\ clock' = clock
      /\ my[t] \in Reads /\ Knows(t)
  BY TypeParts DEF DeadlineInv, Refresh, TablesOK
<1>2. /\ q \in Sessions /\ session[q] \in SessionRows /\ my[t].now \in Nat /\ Extended(t) \in Nat
      /\ session'[q] = [session[q] EXCEPT !.seen = my[t].now, !.expires = Extended(t)]
      /\ \A s \in Sessions : s # q => session'[s] = session[s]
  BY <1>1, RefreshedRow
<1>3. /\ session'[q].created = session[q].created /\ session'[q].seen = my[t].now
      /\ session'[q].expires = Extended(t)
  BY <1>2 DEF SessionRows
<1>4. /\ session[q].created \in Nat /\ session[q].expires \in Nat /\ my[t].deadline \in Nat
      /\ Idle \in Nat /\ End(q) \in Nat /\ session[q] # None
  BY <1>1, <1>2, ConstantsAssumption DEF SessionRows, Reads, End, Knows
<1>5. /\ my[t].deadline = End(q) => session[q].expires <= End(q) /\ End(q) <= my[t].now + Idle
      /\ session[q].created <= my[t].now /\ my[t].now <= clock /\ my[t].now < End(q)
  BY <1>1 DEF Window
<1>6. Extended(t) <= my[t].now + Idle /\ Extended(t) <= End(q)
  <2>1. Extended(t) = IF my[t].deadline = End(q) THEN session[q].expires
                      ELSE IF my[t].now + Idle <= End(q) THEN my[t].now + Idle ELSE End(q)
    BY DEF Extended, End
  <2> HIDE DEF q
  <2>2. QED BY <1>2, <1>4, <1>5, <2>1
<1>7. ASSUME NEW s \in Sessions
      PROVE  /\ Seen(s)'
             /\ session[s] # None =>
                  /\ session'[s].created = session[s].created
                  /\ session[s].expires <= End(s) => session'[s].expires <= End(s)
  <2>1. CASE s = q
    BY <1>1, <1>3, <1>4, <1>5, <1>6, <2>1 DEF Seen, End
  <2>2. CASE s # q
    <3>1. session'[s] = session[s] /\ Seen(s) BY <1>2, <2>2 DEF DeadlineInv
    <3>2. QED BY <1>1, <3>1 DEF Seen, End
  <2>3. QED BY <2>1, <2>2
<1>8. \A s \in Threads : \/ pc'[s] = pc[s] /\ my'[s] = my[s]
                        \/ pc'[s] \notin {"checkDeadlines", "refresh"}
  BY TypeParts DEF DeadlineInv, Refresh, Goto
<1>9. QED BY <1>1, <1>7, <1>8, SessionsWritten

\* A session is made, or some are revoked.
LEMMA SessionSeen ==
    ASSUME DeadlineInv, TypeOK',
           \/ \E t \in Threads : Deactivate(t) \/ \E q \in Sessions : CreateSession(t, q)
           \/ \E q \in Sessions : Logout(q)
    PROVE  DeadlineInv'
<1> USE TypeParts DEF DeadlineInv
<1>0. clock \in Nat /\ clock' = clock BY DEF Deactivate, CreateSession, Logout, TablesOK
<1>1. \A t \in Threads : \/ pc'[t] = pc[t] /\ my'[t] = my[t]
                        \/ pc'[t] \notin {"checkDeadlines", "refresh"}
  BY DEF Deactivate, CreateSession, Logout, Goto
<1>2. ASSUME NEW s \in Sessions
      PROVE  \/ session'[s] = session[s]
             \/ session[s] # None /\ session'[s] = Revoke(s)
             \/ /\ session[s] = None
                /\ session'[s].created = clock /\ session'[s].seen = clock
                /\ session'[s].expires = clock + Idle
  <2>1. CASE \E t \in Threads : Deactivate(t) BY <2>1 DEF Deactivate
  <2>2. ASSUME NEW t \in Threads, NEW q \in Sessions, CreateSession(t, q)
        PROVE  session[q] = None /\ session' = [session EXCEPT ![q] =
                 [user |-> my[t].who, created |-> clock, seen |-> clock,
                  expires |-> clock + Idle, revoked |-> FALSE]]
    BY <2>2 DEF CreateSession
  <2>3. CASE \E t \in Threads, q \in Sessions : CreateSession(t, q) BY <2>2, <2>3 DEF TablesOK
  <2>4. CASE \E q \in Sessions : Logout(q) BY <2>4 DEF Logout, TablesOK
  <2>5. QED BY <2>1, <2>3, <2>4
<1>3. ASSUME NEW s \in Sessions
      PROVE  /\ Seen(s)'
             /\ session[s] # None =>
                  /\ session'[s].created = session[s].created
                  /\ session[s].expires <= End(s) => session'[s].expires <= End(s)
  <2>1. CASE session'[s] = session[s] BY <1>0, <2>1 DEF Seen, End
  <2>2. CASE session[s] # None /\ session'[s] = Revoke(s)
    <3>1. session[s] \in SessionRows BY <2>2 DEF TablesOK
    <3>2. /\ session'[s].created = session[s].created /\ session'[s].seen = session[s].seen
          /\ session'[s].expires = session[s].expires
      BY <2>2, <3>1 DEF Revoke, SessionRows
    <3>3. QED BY <1>0, <2>2, <3>2 DEF Seen, End
  <2>3. CASE /\ session[s] = None
             /\ session'[s].created = clock /\ session'[s].seen = clock
             /\ session'[s].expires = clock + Idle
    BY <1>0, <2>3, ConstantsAssumption DEF Seen, End
  <2>4. QED BY <1>2, <2>1, <2>2, <2>3
<1>4. QED BY <1>0, <1>1, <1>3, SessionsWritten

\* Only the look-up of a session, and the check of its deadlines, bring a request to the
\* steps of the window.
LEMMA OthersElsewhere ==
    ASSUME NEW t \in Threads, Elsewhere(t), TypeOK,
           ~(\E s \in Sessions : LookUp(t, s)), ~CheckDeadlines(t)
    PROVE  \A s \in Threads : \/ pc'[s] = pc[s] /\ my'[s] = my[s]
                             \/ pc'[s] \notin {"checkDeadlines", "refresh"}
<1> USE TypeParts
<1> DEFINE Goal == \A s \in Threads : \/ pc'[s] = pc[s] /\ my'[s] = my[s]
                                     \/ pc'[s] \notin {"checkDeadlines", "refresh"}
<1>1. CASE \/ \E u \in Users : LocalLogin(t, u)
           \/ \E u \in Users, r \in Roles : FindSamlUser(t, u, r)
           \/ \E k \in Tokens : LookUpToken(t, k)
  <2>1. \E l \in {"newSession", "samlUpdate", "samlInsert", "loadContext"} : Goto(t, l)
    BY <1>1 DEF LocalLogin, FindSamlUser, LookUpToken, BeginAt
  <2>2. ASSUME NEW s \in Threads \ {t} PROVE my'[s] = my[s]
    <3>1. CASE \E u \in Users : LocalLogin(t, u) BY <3>1 DEF LocalLogin
    <3>2. CASE \E u \in Users, r \in Roles : FindSamlUser(t, u, r) BY <3>2 DEF FindSamlUser
    <3>3. CASE \E k \in Tokens : LookUpToken(t, k) BY <3>3 DEF LookUpToken
    <3>4. QED BY <1>1, <3>1, <3>2, <3>3
  <2>3. QED BY <2>1, <2>2 DEF Goto
<1>2. CASE \/ \E k \in Tokens : CreateToken(t, k) \/ FindToken(t, k)
           \/ \E u \in Users, r \in Roles : CreateUser(t, u, r)
  BY <1>2 DEF CreateToken, FindToken, CreateUser, Goto
<1>3. ASSUME NEW u \in Users, NEW body \in Bodies, FindUser(t, u, body) PROVE Goal
  <2>1. PICK l \in {"deactivate", "update"} : Goto(t, l) BY <1>3 DEF FindUser
  <2>2. \A s \in Threads \ {t} : pc'[s] = pc[s] /\ my'[s] = my[s]
    BY <1>3, <2>1 DEF FindUser, Goto
  <2>3. pc'[t] \notin {"checkDeadlines", "refresh"} BY <2>1 DEF Goto
  <2>4. QED BY <2>2, <2>3
<1>4. CASE \/ LoadUser(t) \/ LoadContext(t) \/ RevokeToken(t) \/ Update(t) \/ SamlInsert(t)
           \/ SamlUpdate(t)
  BY <1>4 DEF LoadUser, LoadContext, RevokeToken, Update, SamlInsert, SamlUpdate, Goto
<1>5. CASE \/ LogLogin(t) \/ EndRequest(t) \/ LogCreateToken(t) \/ LogRevokeToken(t)
           \/ LogCreateUser(t) \/ RefusePassword(t) \/ LogUpdate(t) \/ Conflict(t)
  <2>1. Finish({t})
    BY <1>5 DEF LogLogin, EndRequest, LogCreateToken, LogRevokeToken, LogCreateUser,
                RefusePassword, LogUpdate, Conflict, Log
  <2>2. QED BY <2>1 DEF Finish
<1>6. QED BY <1>1, <1>2, <1>3, <1>4, <1>5 DEF Elsewhere, Begin

LEMMA StepDeadlines ==
    ASSUME DeadlineInv, [Next]_vars
    PROVE  DeadlineInv'
<1> USE TypeParts DEF DeadlineInv
<1>0. TypeOK' /\ clock \in Nat BY StepType DEF TablesOK
<1>1. ASSUME UNCHANGED <<session, clock>>,
             \A t \in Threads : \/ pc'[t] = pc[t] /\ my'[t] = my[t]
                               \/ pc'[t] \notin {"checkDeadlines", "refresh"}
      PROVE  DeadlineInv'
  BY <1>0, <1>1, SessionsKept
<1>2. ASSUME NEW t \in Threads, Elsewhere(t) PROVE DeadlineInv'
  <2>1. UNCHANGED <<session, clock>> BY <1>2, ElsewhereKeeps
  <2>2. CASE (\E s \in Sessions : LookUp(t, s)) \/ CheckDeadlines(t)
    BY <1>0, <2>2, LookUpWindow, CheckWindow
  <2>3. CASE ~(\E s \in Sessions : LookUp(t, s)) /\ ~CheckDeadlines(t)
    BY <1>1, <1>2, <2>1, <2>3, OthersElsewhere
  <2>4. QED BY <2>2, <2>3
<1>3. CASE Restart \/ UNCHANGED vars \/ \E t \in Threads : CommitFails(t)
  BY <1>1, <1>3 DEF Restart, CommitFails, Finish, vars, tables
<1>4. CASE Tick BY <1>0, <1>4, SessionsKept DEF Tick, tables
<1>5. QED BY <1>0, <1>2, <1>3, <1>4, RefreshSeen, SessionSeen, StepCases

\* A session that is over stays over through a step that leaves its window, and brings
\* no request on it to the check.
LEMMA OverKept ==
    ASSUME TypeOK, NEW s \in Sessions, Over(s), session'[s] # None,
           session'[s].expires = session[s].expires, clock' \in Nat, clock <= clock',
           \A t \in Threads : \/ pc'[t] = pc[t] /\ my'[t] = my[t]
                             \/ pc'[t] \notin {"checkDeadlines", "refresh"}
    PROVE  Over(s)'
<1>1. session[s] \in SessionRows /\ clock \in Nat /\ my \in [Threads -> Reads]
  BY TypeParts DEF Over, TablesOK
<1>2. session[s].expires \in Nat /\ session'[s].expires <= clock' BY <1>1 DEF SessionRows, Over
<1>3. ASSUME NEW t \in Threads, my'[t].sess = s
      PROVE  /\ pc'[t] # "refresh"
             /\ pc'[t] = "checkDeadlines" => my'[t].deadline <= clock'
  <2>1. my[t].deadline \in Nat BY <1>1 DEF Reads
  <2>2. QED BY <1>1, <1>3, <2>1 DEF Over
<1>4. QED BY <1>2, <1>3 DEF Over

LEMMA StepOver ==
    ASSUME TypeOK, [Next]_vars, NEW s \in Sessions, Over(s)
    PROVE  Over(s)' /\ session'[s].seen = session[s].seen
<1> USE TypeParts
<1> DEFINE Goal == Over(s)' /\ session'[s].seen = session[s].seen
<1>0. session[s] \in SessionRows /\ session[s] # None /\ clock \in Nat BY DEF Over, TablesOK
<1>1. ASSUME session'[s] \in {session[s], Revoke(s)}, clock' \in Nat, clock <= clock',
             \A t \in Threads : \/ pc'[t] = pc[t] /\ my'[t] = my[t]
                               \/ pc'[t] \notin {"checkDeadlines", "refresh"}
      PROVE  Goal
  <2>1. /\ Revoke(s).expires = session[s].expires /\ Revoke(s).seen = session[s].seen
        /\ Revoke(s) # None
    BY <1>0, NoneIsNoRow DEF Revoke, SessionRows
  <2>2. QED BY <1>0, <1>1, <2>1, OverKept
<1>2. ASSUME NEW t \in Threads, NEW q \in Sessions, LookUp(t, q) PROVE Goal
  <2>1. my' = [my EXCEPT ![t].sess = q, ![t].deadline = session[q].expires] BY <1>2 DEF LookUp
  <2>2. my'[t].sess = q /\ my'[t].deadline = session[q].expires BY <2>1 DEF Reads
  <2>3. UNCHANGED <<session, clock>> /\ pc'[t] = "checkDeadlines"
    BY <1>2 DEF LookUp, BeginAt, Goto, tables
  <2>4. \A o \in Threads \ {t} : pc'[o] = pc[o] /\ my'[o] = my[o]
    BY <1>2, <2>1 DEF LookUp, BeginAt, Goto
  <2>5. QED BY <2>2, <2>3, <2>4 DEF Over
<1>3. ASSUME NEW t \in Threads, CheckDeadlines(t) PROVE Goal
  <2>1. my' = [my EXCEPT ![t].now = clock] /\ pc[t] = "checkDeadlines" /\ clock < my[t].deadline
    BY <1>3 DEF CheckDeadlines
  <2>2. my'[t].sess = my[t].sess BY <2>1 DEF Reads
  <2>3. my[t].deadline \in Nat BY DEF Reads
  <2>4. my[t].sess # s BY <1>0, <2>1, <2>3 DEF Over
  <2>5. UNCHANGED <<session, clock>> BY <1>3 DEF CheckDeadlines, tables
  <2>6. \A o \in Threads \ {t} : pc'[o] = pc[o] /\ my'[o] = my[o]
    BY <1>3, <2>1 DEF CheckDeadlines, Goto
  <2>7. QED BY <2>2, <2>4, <2>5, <2>6 DEF Over
<1>4. ASSUME NEW t \in Threads, Elsewhere(t) PROVE Goal
  <2>1. UNCHANGED <<session, clock>> BY <1>4, ElsewhereKeeps
  <2>2. CASE ~(\E q \in Sessions : LookUp(t, q)) /\ ~CheckDeadlines(t)
    BY <1>0, <1>1, <1>4, <2>1, <2>2, OthersElsewhere
  <2>3. QED BY <1>2, <1>3, <2>2
<1>5. ASSUME NEW t \in Threads, Refresh(t) PROVE Goal
  <2>1. my[t].sess # s BY <1>5 DEF Refresh, Over
  <2>2. session'[s] = session[s] BY <1>5, <2>1, RefreshedRow
  <2>3. clock' = clock BY <1>5 DEF Refresh
  <2>4. \A o \in Threads : \/ pc'[o] = pc[o] /\ my'[o] = my[o]
                          \/ pc'[o] \notin {"checkDeadlines", "refresh"}
    BY <1>5 DEF Refresh, Goto
  <2>5. QED BY <1>0, <1>1, <2>2, <2>3, <2>4
<1>6. CASE \/ \E t \in Threads : Deactivate(t) \/ \E q \in Sessions : CreateSession(t, q)
           \/ \E q \in Sessions : Logout(q)
  <2>1. clock' = clock BY <1>6 DEF Deactivate, CreateSession, Logout
  <2>2. \A t \in Threads : \/ pc'[t] = pc[t] /\ my'[t] = my[t]
                          \/ pc'[t] \notin {"checkDeadlines", "refresh"}
    BY <1>6 DEF Deactivate, CreateSession, Logout, Goto
  <2>3. CASE \E t \in Threads : Deactivate(t)
    BY <1>0, <1>1, <2>1, <2>2, <2>3 DEF Deactivate
  <2>4. CASE \E t \in Threads, q \in Sessions : CreateSession(t, q)
    <3>1. session'[s] = session[s] BY <1>0, <2>4 DEF CreateSession, TablesOK
    <3>2. QED BY <1>0, <1>1, <2>1, <2>2, <3>1
  <2>5. CASE \E q \in Sessions : Logout(q)
    <3>1. session'[s] \in {session[s], Revoke(s)} BY <2>5 DEF Logout, TablesOK
    <3>2. QED BY <1>0, <1>1, <2>1, <2>2, <3>1
  <2>6. QED BY <1>6, <2>3, <2>4, <2>5
<1>7. CASE Restart \/ UNCHANGED vars \/ \E t \in Threads : CommitFails(t)
  BY <1>0, <1>1, <1>7 DEF Restart, CommitFails, Finish, vars, tables
<1>8. CASE Tick BY <1>0, <1>1, <1>8 DEF Tick, tables
<1>9. QED BY <1>4, <1>5, <1>6, <1>7, <1>8, StepCases

\* No session outlives its deadlines (core/security/sessions.py), however the requests
\* that extend it overlap: it was last seen before the absolute deadline, and ends
\* Idle after it was seen, at the latest.
THEOREM AlwaysWithinDeadlines == Spec => []WithinDeadlines
<1>1. DeadlineInv /\ [Next]_vars => DeadlineInv' BY StepDeadlines
<1>2. DeadlineInv => WithinDeadlines BY DEF DeadlineInv, Seen, End, WithinDeadlines
<1>3. QED BY InitDeadlines, <1>1, <1>2, PTL DEF Spec

\* And from its deadline on it is of no use: get_valid_session refuses a request at the
\* very deadline, and nothing revives a session that no request had found valid before.
THEOREM DeadlinesAlwaysKept == Spec => DeadlinesKept
<1>1. DeadlineInv /\ [Next]_vars
      => /\ DeadlineInv'
         /\ [ /\ WithinDeadlines'
              /\ \A s \in Sessions :
                   Over(s) => Over(s)' /\ session'[s].seen = session[s].seen ]_vars
  <2> SUFFICES ASSUME DeadlineInv, [Next]_vars
               PROVE  /\ DeadlineInv'
                      /\ WithinDeadlines'
                      /\ \A s \in Sessions :
                           Over(s) => Over(s)' /\ session'[s].seen = session[s].seen
    OBVIOUS
  <2>1. DeadlineInv' BY StepDeadlines
  <2>2. WithinDeadlines' BY <2>1 DEF DeadlineInv, Seen, End, WithinDeadlines
  <2>3. \A s \in Sessions : Over(s) => Over(s)' /\ session'[s].seen = session[s].seen
    BY StepOver DEF DeadlineInv
  <2>4. QED BY <2>1, <2>2, <2>3
<1>2. QED BY InitDeadlines, <1>1, PTL DEF Spec, DeadlinesKept
-----------------------------------------------------------------------------
(* Audit entries *)

\* The change of a table that a thread is about to log, by its step.
Changes == [logCreateToken |-> "token.create", logRevokeToken |-> "token.revoke",
            logCreateUser |-> "user.create", logUpdate |-> "user.update"]

\* The entry for a login of u is written, or about to be.
LoginLogged(u) ==
    \/ <<"auth.login", u>> \in logged
    \/ \E t \in Threads : pc[t] = "logLogin" /\ my[t].who = u

\* The last change of u is logged, or about to be, or a refused password has cut it short.
Explained(u) == u \in refused \ LocalUsers \/ Logged("user.update", u, "logUpdate")

\* A SAML login inserts no local user.
LogInv ==
    TypeOK /\ ChangesLogged /\ \A t \in Threads : pc[t] = "samlInsert" => my[t].who \notin LocalUsers

LEMMA InitLog == Init => LogInv
<1> SUFFICES ASSUME Init PROVE LogInv OBVIOUS
<1>1. TypeOK BY InitType
<1>2. ChangesLogged
  <2>1. PICK K \in SUBSET Tokens :
          /\ token = [k \in Tokens |-> IF k \in K THEN [user |-> Admin, revoked |-> FALSE] ELSE None]
          /\ logged = {<<"token.create", k>> : k \in K}
    BY DEF Init
  <2>2. \A s \in Sessions : session[s] = None BY DEF Init
  <2>3. \A u \in Users : created[u] => u = Admin /\ active[u]
    BY ConstantsAssumption DEF Init
  <2>4. \A k \in Tokens : token[k] # None => <<"token.create", k>> \in logged /\ ~token[k].revoked
    BY <2>1
  <2>5. QED BY <2>2, <2>3, <2>4, ConstantsAssumption DEF ChangesLogged, Logged
<1>3. \A t \in Threads : pc[t] = "idle" BY DEF Init
<1>4. QED BY <1>1, <1>2, <1>3 DEF LogInv

\* No thread but those in T moves, and one that does has logged what it had to.
Paid(T) ==
    /\ logged \subseteq logged' /\ refused \subseteq refused'
    /\ \A t \in Threads \ T : pc'[t] = pc[t] /\ my'[t] = my[t]
    /\ \A t \in T :
         /\ pc[t] = "logLogin" => <<"auth.login", my[t].who>> \in logged'
         /\ pc[t] \in DOMAIN Changes =>
              \/ <<Changes[pc[t]], my[t].target>> \in logged'
              \/ pc[t] = "logUpdate" /\ my[t].target \in refused' \ LocalUsers

\* So whatever was explained still is.
LEMMA StillLogged ==
    ASSUME NEW T \in SUBSET Threads, Paid(T)
    PROVE  /\ \A u \in Users : LoginLogged(u) => LoginLogged(u)'
           /\ \A u : Explained(u) => Explained(u)'
           /\ \A l \in DOMAIN Changes \ {"logUpdate"} : \A x :
                Logged(Changes[l], x, l) => Logged(Changes[l], x, l)'
<1>1. ASSUME NEW u \in Users, LoginLogged(u) PROVE LoginLogged(u)'
  <2>1. CASE <<"auth.login", u>> \in logged BY <2>1 DEF Paid, LoginLogged
  <2>2. ASSUME NEW t \in Threads, pc[t] = "logLogin", my[t].who = u PROVE LoginLogged(u)'
    <3>1. CASE t \in T BY <2>2, <3>1 DEF Paid, LoginLogged
    <3>2. CASE t \notin T BY <2>2, <3>2 DEF Paid, LoginLogged
    <3>3. QED BY <3>1, <3>2
  <2>3. QED BY <1>1, <2>1, <2>2 DEF LoginLogged
<1>2. ASSUME NEW l \in DOMAIN Changes \ {"logUpdate"}, NEW x, Logged(Changes[l], x, l)
      PROVE  Logged(Changes[l], x, l)'
  <2>1. CASE <<Changes[l], x>> \in logged BY <2>1 DEF Paid, Logged
  <2>2. ASSUME NEW t \in Threads, pc[t] = l, my[t].target = x PROVE Logged(Changes[l], x, l)'
    <3>1. CASE t \in T BY <1>2, <2>2, <3>1 DEF Paid, Logged
    <3>2. CASE t \notin T BY <2>2, <3>2 DEF Paid, Logged
    <3>3. QED BY <3>1, <3>2
  <2>3. QED BY <1>2, <2>1, <2>2 DEF Logged
<1>3. ASSUME NEW u, Explained(u) PROVE Explained(u)'
  <2>1. CASE u \in refused \ LocalUsers \/ <<"user.update", u>> \in logged
    BY <2>1 DEF Paid, Explained, Logged
  <2>2. ASSUME NEW t \in Threads, pc[t] = "logUpdate", my[t].target = u PROVE Explained(u)'
    <3>1. CASE t \in T
      <4>1. pc[t] \in DOMAIN Changes /\ Changes[pc[t]] = "user.update" BY <2>2 DEF Changes
      <4>2. <<"user.update", u>> \in logged' \/ u \in refused' \ LocalUsers
        BY <2>2, <3>1, <4>1 DEF Paid
      <4>3. QED BY <4>2 DEF Explained, Logged
    <3>2. CASE t \notin T BY <2>2, <3>2 DEF Paid, Explained, Logged
    <3>3. QED BY <3>1, <3>2
  <2>3. QED BY <1>3, <2>1, <2>2 DEF Explained, Logged
<1>4. QED BY <1>1, <1>2, <1>3

\* What a step makes is about to be logged by a thread in T.
SessionsOwed(T) ==
    \A s \in Sessions : session'[s] # None =>
      \/ session[s] # None
      \/ \E t \in T : pc'[t] = "logLogin" /\ my'[t].who = session'[s].user

TokensOwed(T) ==
    \A k \in Tokens : token'[k] # None =>
      /\ token[k] # None \/ \E t \in T : pc'[t] = "logCreateToken" /\ my'[t].target = k
      /\ token'[k].revoked =>
           \/ token[k] # None /\ token[k].revoked
           \/ \E t \in T : pc'[t] = "logRevokeToken" /\ my'[t].target = k

UsersOwed(T) ==
    \A u \in Users : created'[u] =>
      /\ u \in LocalUsers =>
           created[u] \/ \E t \in T : pc'[t] = "logCreateUser" /\ my'[t].target = u
      /\ ~active'[u] =>
           \/ created[u] /\ ~active[u]
           \/ \E t \in T : pc'[t] = "logUpdate" /\ my'[t].target = u

LEMMA LoggedKept ==
    ASSUME LogInv, [Next]_vars, faults' = 0 => faults = 0, NEW T \in SUBSET Threads,
           Paid(T), SessionsOwed(T), TokensOwed(T), UsersOwed(T)
    PROVE  ChangesLogged'
<1> SUFFICES ASSUME faults' = 0 PROVE ChangesLogged' BY DEF ChangesLogged
<1>0. faults = 0 /\ TypeOK /\ TypeOK' /\ ChangesLogged /\ LocalUsers \subseteq Users
  BY StepType, ConstantsAssumption DEF LogInv
<1>1. ASSUME NEW s \in Sessions, session'[s] # None PROVE LoginLogged(session[s].user)'
  <2>1. session'[s].user \in Users
    BY <1>0, <1>1 DEF TypeOK, SessionRows
  <2>2. CASE session[s] # None
    <3>1. session'[s].user = session[s].user BY <1>0, <2>2, StepEnded DEF Ended
    <3>2. LoginLogged(session[s].user) BY <1>0, <2>2 DEF ChangesLogged, LoginLogged
    <3>3. PICK u \in Users : u = session[s].user BY <2>1, <3>1
    <3>4. LoginLogged(u)' BY <3>2, <3>3, StillLogged DEF LoginLogged
    <3>5. QED BY <3>1, <3>3, <3>4 DEF LoginLogged
  <2>3. CASE session[s] = None BY <1>1, <2>3 DEF SessionsOwed, LoginLogged
  <2>4. QED BY <2>2, <2>3
<1>2. ASSUME NEW k \in Tokens, token'[k] # None
      PROVE  /\ Logged("token.create", k, "logCreateToken")'
             /\ token'[k].revoked => Logged("token.revoke", k, "logRevokeToken")'
  <2>1. /\ Logged("token.create", k, "logCreateToken") => Logged("token.create", k, "logCreateToken")'
        /\ Logged("token.revoke", k, "logRevokeToken") => Logged("token.revoke", k, "logRevokeToken")'
    BY StillLogged DEF Changes
  <2>2. /\ token[k] # None => Logged("token.create", k, "logCreateToken")
        /\ token[k] # None /\ token[k].revoked => Logged("token.revoke", k, "logRevokeToken")
    BY <1>0 DEF ChangesLogged
  <2>3. QED BY <1>2, <2>1, <2>2 DEF TokensOwed, Logged
<1>3. ASSUME NEW u \in Users, created'[u]
      PROVE  /\ u \in LocalUsers /\ u # Admin => Logged("user.create", u, "logCreateUser")'
             /\ ~active'[u] => Explained(u)'
  <2>1. /\ Logged("user.create", u, "logCreateUser") => Logged("user.create", u, "logCreateUser")'
        /\ Explained(u) => Explained(u)'
    BY StillLogged DEF Changes
  <2>2. /\ u \in LocalUsers /\ created[u] /\ u # Admin =>
             Logged("user.create", u, "logCreateUser")
        /\ created[u] /\ ~active[u] => Explained(u)
    BY <1>0 DEF ChangesLogged, Explained
  <2>3. QED BY <1>3, <2>1, <2>2 DEF UsersOwed, Logged, Explained
<1>4. QED BY <1>0, <1>1, <1>2, <1>3 DEF ChangesLogged, LoginLogged, Explained

\* A step that changes no table.
LEMMA NothingOwed ==
    ASSUME UNCHANGED tables, NEW T
    PROVE  SessionsOwed(T) /\ TokensOwed(T) /\ UsersOwed(T)
BY DEF tables, SessionsOwed, TokensOwed, UsersOwed

\* A request that begins writes nothing, and has nothing to log.
LEMMA BeginLogged ==
    ASSUME LogInv, NEW t \in Threads, Begin(t)
    PROVE  Paid({t}) /\ UNCHANGED <<tables, faults>> /\ (pc'[t] = "samlInsert" => my'[t].who \notin LocalUsers)
<1> USE TypeParts DEF LogInv
<1>1. PICK l \in {"newSession", "samlUpdate", "samlInsert", "checkDeadlines", "loadContext"} :
        /\ pc[t] = "idle" /\ Goto(t, l) /\ UNCHANGED <<tables, logged, refused, faults>>
        /\ l = "samlInsert" => \E u \in Users, r \in Roles : FindSamlUser(t, u, r)
  <2>1. CASE \E u \in Users : LocalLogin(t, u) BY <2>1 DEF LocalLogin, BeginAt
  <2>2. ASSUME NEW u \in Users, NEW r \in Roles, FindSamlUser(t, u, r)
        PROVE  \E l \in {"samlUpdate", "samlInsert"} :
                 pc[t] = "idle" /\ Goto(t, l) /\ UNCHANGED <<tables, logged, refused, faults>>
    <3>1. BeginAt(t, IF created[u] THEN "samlUpdate" ELSE "samlInsert") BY <2>2 DEF FindSamlUser
    <3>2. QED BY <3>1 DEF BeginAt
  <2>3. CASE \E s \in Sessions : LookUp(t, s) BY <2>3 DEF LookUp, BeginAt
  <2>4. CASE \E k \in Tokens : LookUpToken(t, k) BY <2>4 DEF LookUpToken, BeginAt
  <2>5. QED BY <2>1, <2>2, <2>3, <2>4 DEF Begin
<1>2. \A s \in Threads \ {t} : pc'[s] = pc[s] BY <1>1 DEF Goto
<1>3. \A s \in Threads \ {t} : my'[s] = my[s]
  <2>1. CASE \E u \in Users : LocalLogin(t, u) BY <2>1 DEF LocalLogin
  <2>2. CASE \E u \in Users, r \in Roles : FindSamlUser(t, u, r) BY <2>2 DEF FindSamlUser
  <2>3. CASE \E s \in Sessions : LookUp(t, s) BY <2>3 DEF LookUp
  <2>4. CASE \E k \in Tokens : LookUpToken(t, k) BY <2>4 DEF LookUpToken
  <2>5. QED BY <2>1, <2>2, <2>3, <2>4 DEF Begin
<1>4. Paid({t}) BY <1>1, <1>2, <1>3 DEF Paid, Changes
<1>5. ASSUME NEW u \in Users, NEW r \in Roles, FindSamlUser(t, u, r) PROVE my'[t].who \notin LocalUsers
  <2>1. PICK old \in FirstRole(u) :
          my' = [my EXCEPT ![t].inLoop = TRUE, ![t].who = u, ![t].target = u,
                           ![t].ask.role = r, ![t].held = old]
    BY ONLY <1>5 DEF FindSamlUser, BeginAt
  <2>2. my[t] \in Reads OBVIOUS
  <2>3. my'[t].who = u BY <2>1, <2>2 DEF Reads
  <2>4. QED BY <1>5, <2>3 DEF FindSamlUser
<1>6. pc'[t] = l BY <1>1 DEF Goto
<1>7. QED BY <1>1, <1>4, <1>5, <1>6

\* The commits of log_action, and the other ends of a request.
LEMMA EndLogged ==
    ASSUME LogInv, NEW t \in Threads,
           \/ LogLogin(t) \/ EndRequest(t) \/ LogCreateToken(t) \/ LogRevokeToken(t)
           \/ LogCreateUser(t) \/ RefusePassword(t) \/ LogUpdate(t) \/ Conflict(t)
    PROVE  Paid({t}) /\ UNCHANGED <<tables, faults>> /\ pc'[t] = "idle"
<1> USE TypeParts DEF LogInv
<1>1. /\ Finish({t}) /\ UNCHANGED <<tables, faults>>
      /\ logged \subseteq logged' /\ refused \subseteq refused'
  BY DEF LogLogin, EndRequest, LogCreateToken, LogRevokeToken, LogCreateUser, RefusePassword,
         LogUpdate, Conflict, Log, book
<1>2. pc'[t] = "idle" /\ \A s \in Threads \ {t} : pc'[s] = pc[s] /\ my'[s] = my[s]
  BY <1>1 DEF Finish
<1>3. pc[t] = "logLogin" => <<"auth.login", my[t].who>> \in logged'
  BY DEF LogLogin, EndRequest, LogCreateToken, LogRevokeToken, LogCreateUser, RefusePassword,
         LogUpdate, Conflict, Log
<1>4. ASSUME pc[t] \in DOMAIN Changes
      PROVE  \/ <<Changes[pc[t]], my[t].target>> \in logged'
             \/ pc[t] = "logUpdate" /\ my[t].target \in refused' \ LocalUsers
  BY <1>4 DEF Changes, LogLogin, EndRequest, LogCreateToken, LogRevokeToken, LogCreateUser,
              RefusePassword, LogUpdate, Conflict, Log
<1>5. QED BY <1>1, <1>2, <1>3, <1>4 DEF Paid

\* The steps between: they have nothing to log yet.
Between(t) ==
    \/ \E s \in Sessions : CreateSession(t, s)
    \/ CheckDeadlines(t) \/ Refresh(t) \/ LoadUser(t) \/ LoadContext(t)
    \/ \E k \in Tokens : CreateToken(t, k) \/ FindToken(t, k)
    \/ RevokeToken(t)
    \/ \E u \in Users, r \in Roles : CreateUser(t, u, r)
    \/ \E u \in Users, body \in Bodies : FindUser(t, u, body)
    \/ Deactivate(t) \/ Update(t) \/ SamlInsert(t) \/ SamlUpdate(t)

LEMMA BetweenLogged ==
    ASSUME LogInv, NEW t \in Threads, Between(t)
    PROVE  Paid({t}) /\ UNCHANGED faults /\ pc'[t] # "samlInsert"
<1> USE TypeParts DEF LogInv
<1> DEFINE Goal == /\ UNCHANGED <<logged, refused, faults>> /\ pc[t] \notin DOMAIN Changes \cup {"logLogin"}
                    /\ \E l \in Steps \ {"samlInsert"} : Goto(t, l)
                    /\ \A s \in Threads \ {t} : my'[s] = my[s]
<1>1. ASSUME NEW s \in Sessions, CreateSession(t, s) PROVE Goal
  BY <1>1 DEF CreateSession, book, Changes, Steps
<1>2. ASSUME CheckDeadlines(t) \/ Refresh(t) \/ LoadUser(t) \/ LoadContext(t) PROVE Goal
  BY <1>2 DEF CheckDeadlines, Refresh, LoadUser, LoadContext, book, Changes, Steps
<1>3. ASSUME NEW k \in Tokens, CreateToken(t, k) \/ FindToken(t, k) PROVE Goal
  BY <1>3 DEF CreateToken, FindToken, book, Changes, Steps
<1>4. ASSUME NEW u \in Users, NEW r \in Roles, CreateUser(t, u, r) PROVE Goal
  BY <1>4 DEF CreateUser, book, Changes, Steps
<1>5. ASSUME NEW u \in Users, NEW body \in Bodies, FindUser(t, u, body) PROVE Goal
  <2>1. Goto(t, IF body.active = "false" THEN "deactivate" ELSE "update") BY <1>5 DEF FindUser
  <2>2. \E l \in Steps \ {"samlInsert"} : Goto(t, l) BY <2>1 DEF Steps
  <2>3. QED BY <1>5, <2>2 DEF FindUser, book, Changes
<1>6. ASSUME \/ Deactivate(t) \/ Update(t) \/ SamlInsert(t) \/ SamlUpdate(t) \/ RevokeToken(t)
      PROVE  Goal
  BY <1>6 DEF Deactivate, Update, SamlInsert, SamlUpdate, RevokeToken, book, Changes, Steps
<1>7. Goal BY <1>1, <1>2, <1>3, <1>4, <1>5, <1>6 DEF Between
<1>8. QED BY <1>7 DEF Paid, Goto

\* What they do to the tables is about to be logged.
LEMMA BetweenOwed ==
    ASSUME LogInv, NEW t \in Threads, Between(t)
    PROVE  SessionsOwed({t}) /\ TokensOwed({t}) /\ UsersOwed({t})
<1> USE TypeParts DEF LogInv
<1> DEFINE Goal == SessionsOwed({t}) /\ TokensOwed({t}) /\ UsersOwed({t})
<1>0. /\ session \in [Sessions -> SessionRows \cup {None}]
      /\ token \in [Tokens -> TokenRows \cup {None}]
      /\ created \in [Users -> BOOLEAN] /\ active \in [Users -> BOOLEAN]
      /\ pc \in [Threads -> Steps] /\ my \in [Threads -> Reads] /\ Knows(t)
      /\ LocalUsers \subseteq Users
  BY ConstantsAssumption DEF TablesOK
<1>s. UNCHANGED session => SessionsOwed({t}) BY DEF SessionsOwed
<1>k. UNCHANGED token => TokensOwed({t}) BY DEF TokensOwed
<1>u. UNCHANGED <<created, active>> => UsersOwed({t}) BY DEF UsersOwed
<1>1. ASSUME NEW s \in Sessions, CreateSession(t, s) PROVE Goal
  <2>1. /\ pc'[t] = "logLogin" /\ my' = my /\ UNCHANGED <<created, active, token>>
        /\ \A q \in Sessions \ {s} : session'[q] = session[q]
        /\ session'[s].user = my[t].who
    BY <1>0, <1>1 DEF CreateSession, Goto
  <2>2. SessionsOwed({t}) BY <2>1 DEF SessionsOwed
  <2>3. QED BY <1>k, <1>u, <2>1, <2>2
<1>2. ASSUME \/ CheckDeadlines(t) \/ LoadUser(t) \/ LoadContext(t)
             \/ \E k \in Tokens : FindToken(t, k)
             \/ \E u \in Users, body \in Bodies : FindUser(t, u, body)
      PROVE  Goal
  <2>1. UNCHANGED tables
    <3>1. CASE CheckDeadlines(t) \/ LoadUser(t) \/ LoadContext(t)
      BY <3>1 DEF CheckDeadlines, LoadUser, LoadContext
    <3>2. CASE \E k \in Tokens : FindToken(t, k) BY <3>2 DEF FindToken
    <3>3. CASE \E u \in Users, body \in Bodies : FindUser(t, u, body) BY <3>3 DEF FindUser
    <3>4. QED BY <1>2, <3>1, <3>2, <3>3
  <2>2. QED BY <2>1, NothingOwed
<1>3. ASSUME Refresh(t) PROVE Goal
  <2>1. session[my[t].sess] # None BY <1>0, <1>3 DEF Refresh, Knows
  <2>2. \A q \in Sessions : q # my[t].sess => session'[q] = session[q] BY <1>0, <1>3 DEF Refresh
  <2>3. SessionsOwed({t}) BY <2>1, <2>2 DEF SessionsOwed
  <2>4. QED BY <1>3, <1>k, <1>u, <2>3 DEF Refresh
<1>4. ASSUME NEW k \in Tokens, CreateToken(t, k) PROVE Goal
  <2>1. /\ pc'[t] = "logCreateToken" /\ UNCHANGED <<created, active, session>>
        /\ \A q \in Tokens \ {k} : token'[q] = token[q]
        /\ ~token'[k].revoked
    BY <1>0, <1>4 DEF CreateToken, Goto
  <2>2. my'[t].target = k BY <1>0, <1>4 DEF CreateToken, Reads
  <2>3. TokensOwed({t}) BY <2>1, <2>2 DEF TokensOwed
  <2>4. QED BY <1>s, <1>u, <2>1, <2>3
<1>5. ASSUME RevokeToken(t) PROVE Goal
  <2>1. /\ pc'[t] = "logRevokeToken" /\ my' = my /\ UNCHANGED <<created, active, session>>
        /\ my[t].target \in Tokens /\ token[my[t].target] # None
        /\ \A q \in Tokens \ {my[t].target} : token'[q] = token[q]
    BY <1>0, <1>5 DEF RevokeToken, Goto, Knows
  <2>2. TokensOwed({t}) BY <2>1 DEF TokensOwed
  <2>3. QED BY <1>s, <1>u, <2>1, <2>2
<1>6. ASSUME NEW u \in Users, NEW r \in Roles, CreateUser(t, u, r) PROVE Goal
  <2>1. /\ pc'[t] = "logCreateUser" /\ UNCHANGED <<session, token>> /\ active'[u]
        /\ \A v \in Users \ {u} : created'[v] = created[v] /\ active'[v] = active[v]
    BY <1>0, <1>6 DEF CreateUser, Goto
  <2>2. my'[t].target = u BY <1>0, <1>6 DEF CreateUser, Reads
  <2>3. UsersOwed({t}) BY <1>0, <2>1, <2>2 DEF UsersOwed
  <2>4. QED BY <1>s, <1>k, <2>1, <2>3
<1>7. ASSUME Deactivate(t) PROVE Goal
  <2>1. /\ pc'[t] = "logUpdate" /\ my' = my /\ UNCHANGED <<created, token>>
        /\ \A s \in Sessions : session'[s] # None => session[s] # None
        /\ \A v \in Users \ {my[t].target} : active'[v] = active[v]
    BY <1>0, <1>7 DEF Deactivate, Goto
  <2>2. SessionsOwed({t}) BY <2>1 DEF SessionsOwed
  <2>3. UsersOwed({t}) BY <1>0, <2>1 DEF UsersOwed
  <2>4. QED BY <1>k, <2>1, <2>2, <2>3
<1>8. ASSUME Update(t) PROVE Goal
  <2>1. UNCHANGED <<created, session, token>> /\ \A v \in Users : active[v] => active'[v]
    BY <1>0, <1>8 DEF Update
  <2>2. UsersOwed({t}) BY <1>0, <2>1 DEF UsersOwed
  <2>3. QED BY <1>s, <1>k, <2>1, <2>2
<1>9. ASSUME SamlInsert(t) PROVE Goal
  <2>1. /\ UNCHANGED <<session, token>> /\ my[t].who \notin LocalUsers
        /\ my[t].who \in Users => active'[my[t].who]
        /\ \A v \in Users \ {my[t].who} : created'[v] = created[v] /\ active'[v] = active[v]
    BY <1>0, <1>9 DEF SamlInsert
  <2>2. UsersOwed({t}) BY <1>0, <2>1 DEF UsersOwed
  <2>3. QED BY <1>s, <1>k, <2>1, <2>2
<1>10. ASSUME SamlUpdate(t) PROVE Goal
  BY <1>10, <1>s, <1>k, <1>u DEF SamlUpdate
<1>11. QED
  BY <1>1, <1>2, <1>3, <1>4, <1>5, <1>6, <1>7, <1>8, <1>9, <1>10 DEF Between

\* A thread that is about to insert a user is about to insert no local one.
LEMMA InsertsKept ==
    ASSUME LogInv, [Next]_vars, ChangesLogged', NEW t \in Threads,
           \A s \in Threads \ {t} : pc'[s] = pc[s] /\ my'[s] = my[s],
           pc'[t] = "samlInsert" => my'[t].who \notin LocalUsers
    PROVE  LogInv'
BY StepType DEF LogInv

LEMMA StepLogged ==
    ASSUME LogInv, [Next]_vars
    PROVE  LogInv'
<1>1. ASSUME NEW t \in Threads, Begin(t) PROVE LogInv'
  <2>1. /\ Paid({t}) /\ UNCHANGED <<tables, faults>>
        /\ pc'[t] = "samlInsert" => my'[t].who \notin LocalUsers
    BY <1>1, BeginLogged
  <2>2. ChangesLogged' BY <2>1, NothingOwed, LoggedKept
  <2>3. QED BY <2>1, <2>2, InsertsKept DEF Paid
<1>2. ASSUME NEW t \in Threads,
             \/ LogLogin(t) \/ EndRequest(t) \/ LogCreateToken(t) \/ LogRevokeToken(t)
             \/ LogCreateUser(t) \/ RefusePassword(t) \/ LogUpdate(t) \/ Conflict(t)
      PROVE  LogInv'
  <2>1. Paid({t}) /\ UNCHANGED <<tables, faults>> /\ pc'[t] = "idle" BY <1>2, EndLogged
  <2>2. ChangesLogged' BY <2>1, NothingOwed, LoggedKept
  <2>3. QED BY <2>1, <2>2, InsertsKept DEF Paid
<1>3. ASSUME NEW t \in Threads, Between(t) PROVE LogInv'
  <2>1. Paid({t}) /\ UNCHANGED faults /\ pc'[t] # "samlInsert" BY <1>3, BetweenLogged
  <2>2. ChangesLogged' BY <1>3, <2>1, BetweenOwed, LoggedKept
  <2>3. QED BY <2>1, <2>2, InsertsKept DEF Paid
<1>4. CASE Restart \/ \E t \in Threads : CommitFails(t)
  <2>1. faults \in Nat /\ faults' = faults + 1 BY <1>4 DEF LogInv, TypeOK, Restart, CommitFails
  <2>2. ChangesLogged' BY <2>1 DEF ChangesLogged
  <2>3. \A t \in Threads : \/ pc'[t] = "idle"
                           \/ pc'[t] = pc[t] /\ my'[t] = my[t]
    BY <1>4 DEF Restart, CommitFails, Finish
  <2>4. QED BY <2>2, <2>3, StepType DEF LogInv
<1>5. CASE Tick \/ UNCHANGED vars \/ \E s \in Sessions : Logout(s)
  <2>1. UNCHANGED <<logged, refused, pc, my, faults, token, created, active>>
    BY <1>5 DEF Tick, vars, tables, book, Logout
  <2>2. SessionsOwed({})
    <3>1. CASE \E s \in Sessions : Logout(s)
      BY <3>1, TypeParts DEF LogInv, Logout, SessionsOwed, TablesOK
    <3>2. CASE Tick \/ UNCHANGED vars BY <3>2 DEF Tick, vars, tables, SessionsOwed
    <3>3. QED BY <1>5, <3>1, <3>2
  <2>3. Paid({}) /\ TokensOwed({}) /\ UsersOwed({})
    BY <2>1 DEF Paid, TokensOwed, UsersOwed
  <2>4. ChangesLogged' BY <2>1, <2>2, <2>3, LoggedKept
  <2>5. QED BY <2>1, <2>4, StepType DEF LogInv
<1>6. QED BY <1>1, <1>2, <1>3, <1>4, <1>5 DEF Next, Admit, Manage, Between

\* Without faults the audit log explains what the tables hold: every session, token,
\* revoked token, local user and deactivated user (services/audit_service.py), but for a
\* SAML user whose new password was refused after the deactivation.
THEOREM ChangesAlwaysLogged == Spec => []ChangesLogged
<1>1. LogInv /\ [Next]_vars => LogInv' BY StepLogged
<1>2. LogInv => ChangesLogged BY DEF LogInv
<1>3. QED BY InitLog, <1>1, <1>2, PTL DEF Spec
-----------------------------------------------------------------------------
(* Who may be signed in *)

\* The step of one thread leaves the others where they are.
LEMMA OthersStay ==
    ASSUME TypeOK, NEW t \in Threads, Begin(t) \/ Admit(t) \/ Manage(t) \/ CommitFails(t),
           NEW s \in Threads, s # t
    PROVE  pc'[s] = pc[s] /\ my'[s] = my[s]
<1> USE TypeParts
<1>0. pc \in [Threads -> Steps] /\ my \in [Threads -> Reads] OBVIOUS
<1>1. ASSUME Finish({t}) PROVE pc'[s] = pc[s] /\ my'[s] = my[s] BY <1>1 DEF Finish
<1>2. CASE Begin(t)
  <2>0. ASSUME NEW l, BeginAt(t, l) PROVE pc'[s] = pc[s] BY <2>0 DEF BeginAt, Goto
  <2>1. ASSUME NEW u \in Users, LocalLogin(t, u) PROVE pc'[s] = pc[s] /\ my'[s] = my[s]
    BY <2>0, <2>1 DEF LocalLogin
  <2>2. ASSUME NEW u \in Users, NEW r \in Roles, FindSamlUser(t, u, r)
        PROVE  pc'[s] = pc[s] /\ my'[s] = my[s]
    <3>1. \E l : BeginAt(t, l) BY <2>2 DEF FindSamlUser
    <3>2. my'[s] = my[s] BY <2>2 DEF FindSamlUser
    <3>3. QED BY <2>0, <3>1, <3>2
  <2>3. ASSUME NEW q \in Sessions, LookUp(t, q) PROVE pc'[s] = pc[s] /\ my'[s] = my[s]
    BY <2>0, <2>3 DEF LookUp
  <2>4. ASSUME NEW k \in Tokens, LookUpToken(t, k) PROVE pc'[s] = pc[s] /\ my'[s] = my[s]
    BY <2>0, <2>4 DEF LookUpToken
  <2>5. QED BY <1>2, <2>1, <2>2, <2>3, <2>4 DEF Begin
<1>3. CASE \/ LogLogin(t) \/ EndRequest(t) \/ LogCreateToken(t) \/ LogRevokeToken(t)
           \/ LogCreateUser(t) \/ RefusePassword(t) \/ LogUpdate(t) \/ Conflict(t)
           \/ CommitFails(t)
  BY <1>1, <1>3 DEF LogLogin, EndRequest, LogCreateToken, LogRevokeToken, LogCreateUser,
                    RefusePassword, LogUpdate, Conflict, CommitFails, Log
<1>4. CASE \/ \E q \in Sessions : CreateSession(t, q)
           \/ CheckDeadlines(t) \/ Refresh(t) \/ LoadUser(t) \/ LoadContext(t)
  BY <1>4 DEF CreateSession, CheckDeadlines, Refresh, LoadUser, LoadContext, Goto
<1>5. CASE \/ \E k \in Tokens : CreateToken(t, k) \/ FindToken(t, k)
           \/ RevokeToken(t) \/ Deactivate(t) \/ Update(t) \/ SamlInsert(t) \/ SamlUpdate(t)
           \/ \E u \in Users, r \in Roles : CreateUser(t, u, r)
  BY <1>5 DEF CreateToken, FindToken, RevokeToken, Deactivate, Update, SamlInsert, SamlUpdate,
              CreateUser, Goto
<1>6. ASSUME NEW u \in Users, NEW body \in Bodies, FindUser(t, u, body)
      PROVE  pc'[s] = pc[s] /\ my'[s] = my[s]
  <2>1. my'[s] = my[s] BY <1>6 DEF FindUser
  <2>2. QED BY <1>6, <2>1 DEF FindUser, Goto
<1>7. QED BY <1>2, <1>3, <1>4, <1>5, <1>6 DEF Admit, Manage

\* A login that has passed the check of is_active, until its session is made; the
\* logins that do not make one are those of SAML users.
Checked(t) ==
    /\ pc[t] \in {"samlInsert", "samlUpdate"} => my[t].who \notin LocalUsers
    /\ pc[t] = "newSession" /\ my[t].who \in LocalUsers \ crossed => active[my[t].who]

SignedOutInv == TypeOK /\ InactiveSignedOut /\ \A t \in Threads : Checked(t)

LEMMA InitSignedOut == Init => SignedOutInv
BY InitType DEF Init, SignedOutInv, InactiveSignedOut, Checked

\* The steps that leave a thread about to make a session, or to write the role that a
\* SAML login brings.
LEMMA CheckedKept ==
    ASSUME TypeOK, NEW t \in Threads, Checked(t),
           Begin(t) \/ Admit(t) \/ Manage(t) \/ CommitFails(t)
    PROVE  Checked(t)'
<1> USE TypeParts, ConstantsAssumption
<1>0. pc \in [Threads -> Steps] /\ my \in [Threads -> Reads] /\ my[t] \in Reads OBVIOUS
<1>1. ASSUME pc'[t] \notin {"newSession", "samlInsert", "samlUpdate"} PROVE Checked(t)'
  BY <1>1 DEF Checked
<1>2. ASSUME NEW u \in Users, LocalLogin(t, u) PROVE Checked(t)'
  <2>1. my'[t].who = u BY <1>0, <1>2 DEF LocalLogin, Reads
  <2>2. pc'[t] = "newSession" /\ active[u] /\ active' = active
    BY <1>0, <1>2 DEF LocalLogin, BeginAt, Goto, tables
  <2>3. QED BY <2>1, <2>2 DEF Checked
<1>3. ASSUME NEW u \in Users, NEW r \in Roles, FindSamlUser(t, u, r) PROVE Checked(t)'
  <2>1. PICK old \in FirstRole(u) :
          my' = [my EXCEPT ![t].inLoop = TRUE, ![t].who = u, ![t].target = u,
                           ![t].ask.role = r, ![t].held = old]
    BY ONLY <1>3 DEF FindSamlUser
  <2>2. my'[t].who = u BY <1>0, <2>1 DEF Reads
  <2>3. pc'[t] \in {"samlInsert", "samlUpdate"} /\ u \notin LocalUsers
    BY <1>0, <1>3 DEF FindSamlUser, BeginAt, Goto
  <2>4. QED BY <2>2, <2>3 DEF Checked
<1>4. CASE (\E q \in Sessions : LookUp(t, q)) \/ (\E k \in Tokens : LookUpToken(t, k))
  BY <1>0, <1>1, <1>4 DEF LookUp, LookUpToken, BeginAt, Goto
<1>5. CASE Admit(t)
  BY <1>0, <1>1, <1>5 DEF Admit, CreateSession, LogLogin, CheckDeadlines, Refresh, LoadUser,
                          LoadContext, EndRequest, Log, Finish, Goto
<1>6. CASE SamlInsert(t) \/ SamlUpdate(t)
  <2>1. my' = my /\ pc'[t] = "newSession" /\ my[t].who \notin LocalUsers
    BY <1>0, <1>6 DEF SamlInsert, SamlUpdate, Checked, Goto
  <2>2. QED BY <2>1 DEF Checked
<1>7. CASE \/ \E k \in Tokens : CreateToken(t, k) \/ FindToken(t, k)
           \/ RevokeToken(t) \/ Deactivate(t) \/ Update(t)
           \/ \E u \in Users, r \in Roles : CreateUser(t, u, r)
  BY <1>0, <1>1, <1>7 DEF CreateToken, FindToken, RevokeToken, Deactivate, Update, CreateUser, Goto
<1>8. CASE \/ LogCreateToken(t) \/ LogRevokeToken(t) \/ LogCreateUser(t) \/ RefusePassword(t)
           \/ LogUpdate(t) \/ Conflict(t) \/ CommitFails(t)
  BY <1>0, <1>1, <1>8 DEF LogCreateToken, LogRevokeToken, LogCreateUser, RefusePassword,
                          LogUpdate, Conflict, CommitFails, Log, Finish
<1>9. ASSUME NEW u \in Users, NEW body \in Bodies, FindUser(t, u, body) PROVE Checked(t)'
  <2>1. \E l \in {"deactivate", "update"} : Goto(t, l) BY <1>9 DEF FindUser
  <2>2. QED BY <1>0, <1>1, <2>1 DEF Goto
<1>10. QED BY <1>2, <1>3, <1>4, <1>5, <1>6, <1>7, <1>8, <1>9 DEF Begin, Manage

\* Every request begins the same way.
LEMMA Begins ==
    ASSUME NEW t \in Threads, Begin(t)
    PROVE  \E l : BeginAt(t, l)
<1>1. ASSUME NEW u \in Users, NEW r \in Roles, FindSamlUser(t, u, r) PROVE \E l : BeginAt(t, l)
  BY <1>1 DEF FindSamlUser
<1>2. QED BY <1>1 DEF Begin, LocalLogin, LookUp, LookUpToken

\* The note of who was signing in when deactivated is made by update_user alone.
LEMMA CrossedStay ==
    ASSUME [Next]_vars
    PROVE  /\ crossed \subseteq crossed'
           /\ \/ UNCHANGED crossed
              \/ \E t \in Threads : Deactivate(t)
<1>1. ASSUME NEW t \in Threads, Begin(t) PROVE UNCHANGED crossed
  BY <1>1, Begins DEF BeginAt
<1>2. ASSUME NEW t \in Threads, Admit(t) \/ CommitFails(t) PROVE UNCHANGED crossed
  BY <1>2 DEF Admit, CreateSession, LogLogin, CheckDeadlines, Refresh, LoadUser, LoadContext,
              EndRequest, CommitFails, Log, book
<1>3. ASSUME NEW t \in Threads, NEW u \in Users, NEW body \in Bodies, FindUser(t, u, body)
      PROVE  UNCHANGED crossed
  BY <1>3 DEF FindUser, book
<1>4. ASSUME NEW t \in Threads,
             \/ \E k \in Tokens : CreateToken(t, k) \/ FindToken(t, k)
             \/ LogCreateToken(t) \/ RevokeToken(t) \/ LogRevokeToken(t)
             \/ \E u \in Users, r \in Roles : CreateUser(t, u, r)
             \/ LogCreateUser(t) \/ Update(t) \/ RefusePassword(t) \/ LogUpdate(t)
             \/ SamlInsert(t) \/ SamlUpdate(t) \/ Conflict(t)
      PROVE  UNCHANGED crossed
  BY <1>4 DEF CreateToken, FindToken, LogCreateToken, RevokeToken, LogRevokeToken, CreateUser,
              LogCreateUser, Update, RefusePassword, LogUpdate, SamlInsert, SamlUpdate, Conflict,
              Log, book
<1>5. ASSUME NEW t \in Threads, Deactivate(t) PROVE crossed \subseteq crossed'
  BY <1>5 DEF Deactivate, NoteLogins
<1>6. CASE Tick \/ Restart \/ UNCHANGED vars \/ \E s \in Sessions : Logout(s)
  BY <1>6 DEF Tick, Restart, Logout, vars, book
<1>7. QED BY <1>1, <1>2, <1>3, <1>4, <1>5, <1>6 DEF Next, Manage

LEMMA StepSignedOut ==
    ASSUME SignedOutInv, [Next]_vars
    PROVE  SignedOutInv'
<1> USE TypeParts DEF SignedOutInv
<1>0. TypeOK' BY StepType
<1>1. crossed \subseteq crossed' BY CrossedStay
<1>2. ASSUME \A u \in Users : active[u] => active'[u],
             \A s \in Sessions : session[s] # None => session'[s] # None,
             \A s \in Sessions : session'[s] # None => session[s] # None
      PROVE  InactiveSignedOut'
  <2> SUFFICES ASSUME NEW s \in Sessions, session'[s] # None, session'[s].user \in LocalUsers \ crossed',
                      ~active'[session'[s].user]
               PROVE  session'[s].revoked
    BY DEF InactiveSignedOut
  <2>1. session[s] # None /\ Ended(s) BY <1>2, StepEnded
  <2>2. session[s].user = session'[s].user BY <2>1 DEF Ended
  <2>3. session[s].user \in Users BY <2>1 DEF TablesOK, SessionRows
  <2>4. ~active[session[s].user] BY <1>2, <2>2, <2>3
  <2>5. QED BY <1>1, <2>1, <2>2, <2>4 DEF InactiveSignedOut, Ended
<1>3. ASSUME NEW t \in Threads, NEW q \in Sessions, CreateSession(t, q) PROVE InactiveSignedOut'
  <2>1. /\ session'[q].user = my[t].who /\ active' = active
        /\ \A s \in Sessions : s # q => session'[s] = session[s]
        /\ pc[t] = "newSession"
    BY <1>3 DEF CreateSession, TablesOK
  <2>2. QED BY <1>1, <2>1 DEF InactiveSignedOut, Checked
<1>4. ASSUME NEW t \in Threads, Deactivate(t) PROVE InactiveSignedOut'
  <2> SUFFICES ASSUME NEW s \in Sessions, session'[s] # None, session'[s].user \in LocalUsers \ crossed',
                      ~active'[session'[s].user]
               PROVE  session'[s].revoked
    BY DEF InactiveSignedOut
  <2>1. session[s] # None BY <1>4 DEF Deactivate
  <2>2. session[s] \in SessionRows /\ session[s].user \in Users BY <2>1 DEF TablesOK, SessionRows
  <2>3. Ended(s) /\ session'[s].user = session[s].user BY <2>1, StepEnded DEF Ended
  <2>4. QED BY <1>1, <2>1, <2>2, <2>3 DEF InactiveSignedOut, Ended, TablesOK
<1>5. ASSUME NEW t \in Threads, Refresh(t) PROVE InactiveSignedOut'
  <2>1. active' = active /\ session[my[t].sess] # None BY <1>5 DEF Refresh, Knows
  <2>2. \A s \in Sessions : s # my[t].sess => session'[s] = session[s]
    <3>1. TypeOK OBVIOUS
    <3>2. QED BY ONLY <1>5, <3>1, RefreshedRow, t \in Threads, Zenon
  <2>3. QED BY <1>2, <2>1, <2>2, StepEnded DEF Ended
<1>6. InactiveSignedOut'
  <2>1. ASSUME NEW t \in Threads, Elsewhere(t) PROVE InactiveSignedOut'
    BY <1>2, <2>1, ElsewhereKeeps
  <2>2. CASE Tick \/ Restart \/ UNCHANGED vars \/ \E t \in Threads : CommitFails(t)
    BY <1>2, <2>2 DEF Tick, Restart, CommitFails, vars, tables
  <2>4. ASSUME NEW q \in Sessions, Logout(q) PROVE InactiveSignedOut'
    BY <1>2, <2>4, StepEnded DEF Logout, Ended, TablesOK
  <2>5. QED BY <1>3, <1>4, <1>5, <2>1, <2>2, <2>4, StepCases
<1>7. ASSUME NEW t \in Threads PROVE Checked(t)'
  <2>1. ASSUME pc'[t] = pc[t], my'[t] = my[t],
               my[t].who \in LocalUsers \ crossed' /\ pc[t] = "newSession" =>
                 (active[my[t].who] => active'[my[t].who])
        PROVE  Checked(t)'
    BY <1>1, <2>1 DEF Checked
  <2>2. ASSUME NEW o \in Threads, Begin(o) \/ Admit(o) \/ Manage(o) \/ CommitFails(o)
        PROVE  Checked(t)'
    <3>1. CASE o = t BY <2>2, <3>1, CheckedKept
    <3>2. CASE o # t
      <4>1. pc'[t] = pc[t] /\ my'[t] = my[t] BY <2>2, <3>2, OthersStay
      <4>2. CASE Deactivate(o)
        <5>1. pc[t] = "newSession" /\ my[t].who \notin crossed' => my[t].who # my[o].target
          BY <4>2 DEF Deactivate, NoteLogins
        <5>2. pc[t] = "newSession" /\ my[t].who \in LocalUsers \ crossed' =>
                active'[my[t].who] = active[my[t].who]
          BY <4>2, <5>1, ConstantsAssumption DEF Deactivate, TablesOK
        <5>3. QED BY <2>1, <4>1, <5>2
      <4>3. CASE ~Deactivate(o)
        <5>1. \A u \in Users : active[u] => active'[u]
          <6>1. \/ Elsewhere(o) \/ Refresh(o) \/ CommitFails(o)
                \/ \E s \in Sessions : CreateSession(o, s)
            BY <2>2, <4>3 DEF Admit, Manage, Elsewhere
          <6>2. QED BY <6>1, ElsewhereKeeps DEF Refresh, CommitFails, CreateSession, tables
        <5>2. QED BY <2>1, <4>1, <5>1, ConstantsAssumption
      <4>4. QED BY <4>2, <4>3
    <3>3. QED BY <3>1, <3>2
  <2>3. CASE (\E q \in Sessions : Logout(q)) \/ Tick \/ UNCHANGED vars
    BY <2>1, <2>3 DEF Logout, Tick, vars, tables
  <2>4. CASE Restart BY <2>4 DEF Restart, Finish, Checked
  <2>5. QED BY <2>2, <2>3, <2>4 DEF Next
<1>8. QED BY <1>0, <1>1, <1>6, <1>7

\* A deactivated local user is signed out everywhere, and stays so (update_user revokes
\* the sessions that there are), unless the deactivation came while the user was
\* signing in.
THEOREM InactiveAlwaysSignedOut == Spec => []InactiveSignedOut
<1>1. SignedOutInv /\ [Next]_vars => SignedOutInv' BY StepSignedOut
<1>2. SignedOutInv => InactiveSignedOut BY DEF SignedOutInv
<1>3. QED BY InitSignedOut, <1>1, <1>2, PTL DEF Spec
-----------------------------------------------------------------------------
(* The threads keep the promise of SignOn *)

\* A thread acts for a user that there is; the one that will insert a user is the
\* only thread there is in the event loop, and its user is not there.
Known(t) ==
    /\ pc[t] \in {"newSession", "loadContext", "admitted"} => created[my[t].who]
    /\ pc[t] \in {"samlInsert", "samlUpdate"} => my[t].inLoop /\ my[t].who \notin LocalUsers
    /\ pc[t] = "samlInsert" => ~created[my[t].who]

OneInLoop == \A s, t \in Threads : my[s].inLoop /\ my[t].inLoop => s = t

\* What refers to a user refers to one that there is.
Owned ==
    /\ \A u \in Users : active[u] => created[u]
    /\ \A s \in Sessions : session[s] # None => created[session[s].user]
    /\ \A k \in Tokens : token[k] # None => created[token[k].user]

OwnedInv == RolesInv /\ Owned /\ OneInLoop /\ \A t \in Threads : Known(t)

LEMMA InitOwned == Init => OwnedInv
<1> SUFFICES ASSUME Init PROVE OwnedInv OBVIOUS
<1>1. Owned
  <2>1. PICK K \in SUBSET Tokens :
          token = [k \in Tokens |-> IF k \in K THEN [user |-> Admin, revoked |-> FALSE] ELSE None]
    BY DEF Init
  <2>2. \A k \in Tokens : token[k] # None => token[k].user = Admin BY <2>1
  <2>3. QED BY <2>2, ConstantsAssumption DEF Init, Owned
<1>2. OneInLoop /\ \A t \in Threads : Known(t) BY DEF Init, OneInLoop, Known, Fresh
<1>3. QED BY <1>1, <1>2, InitRoles DEF OwnedInv

\* The steps that add a user, ...
Adds(t, u) ==
    \/ \E r \in Roles : CreateUser(t, u, r)
    \/ SamlInsert(t) /\ u = my[t].who

\* ... those of requests that do not, ...
Works(t) ==
    \/ Begin(t) \/ Admit(t) \/ CommitFails(t)
    \/ \E k \in Tokens : CreateToken(t, k) \/ FindToken(t, k)
    \/ LogCreateToken(t) \/ RevokeToken(t) \/ LogRevokeToken(t)
    \/ \E u \in Users, body \in Bodies : FindUser(t, u, body)
    \/ LogCreateUser(t) \/ Deactivate(t) \/ Update(t) \/ RefusePassword(t) \/ LogUpdate(t)
    \/ SamlUpdate(t) \/ Conflict(t)

\* ... and the others.
LEMMA AddsOrWorks ==
    ASSUME TypeOK, Next
    PROVE  \/ \E t \in Threads : Works(t) \/ \E u \in Users : Adds(t, u)
           \/ \E s \in Sessions : Logout(s)
           \/ Tick \/ Restart
<1>1. ASSUME NEW t \in Threads, SamlInsert(t) PROVE my[t].who \in Users
  BY <1>1, TypeParts DEF SamlInsert, Knows
<1>2. QED BY <1>1 DEF Next, Manage, Adds, Works

LEMMA WorksKeeps ==
    ASSUME TypeOK, NEW t \in Threads, Works(t)
    PROVE  UNCHANGED created
<1>1. CASE Begin(t)
  BY <1>1, Begins DEF BeginAt, tables
<1>2. CASE Admit(t) \/ CommitFails(t)
  BY <1>2 DEF Admit, CreateSession, LogLogin, CheckDeadlines, Refresh, LoadUser, LoadContext,
              EndRequest, CommitFails, Log, tables
<1>3. CASE \/ \E k \in Tokens : CreateToken(t, k) \/ FindToken(t, k)
           \/ LogCreateToken(t) \/ RevokeToken(t) \/ LogRevokeToken(t)
           \/ LogCreateUser(t) \/ Deactivate(t) \/ Update(t) \/ RefusePassword(t) \/ LogUpdate(t)
           \/ SamlUpdate(t) \/ Conflict(t)
  BY <1>3 DEF CreateToken, FindToken, LogCreateToken, RevokeToken, LogRevokeToken, LogCreateUser,
              Deactivate, Update, RefusePassword, LogUpdate, SamlUpdate, Conflict, Log, tables
<1>4. ASSUME NEW u \in Users, NEW body \in Bodies, FindUser(t, u, body) PROVE UNCHANGED created
  BY <1>4 DEF FindUser, tables
<1>5. QED BY <1>1, <1>2, <1>3, <1>4 DEF Works

LEMMA AddsOne ==
    ASSUME OwnedInv, NEW t \in Threads, NEW u \in Users, Adds(t, u)
    PROVE  /\ created' = [created EXCEPT ![u] = TRUE] /\ active' = [active EXCEPT ![u] = TRUE]
           /\ ~created[u] /\ UNCHANGED <<session, token, clock>>
           /\ \E r \in Roles : roles' = [roles EXCEPT ![u] = {r}]
           /\ \A s \in Threads : s # t /\ pc[s] = "samlInsert" => my[s].who # u
           /\ \A s \in Threads \ {t} : pc'[s] = pc[s] /\ my'[s] = my[s]
           /\ pc'[t] \in {"logCreateUser", "newSession"} /\ my'[t].inLoop = my[t].inLoop
           /\ pc'[t] = "newSession" => my'[t].who = u
<1>0. TypeOK /\ my[t] \in Reads /\ pc \in [Threads -> Steps] /\ my \in [Threads -> Reads]
  BY TypeParts DEF OwnedInv, RolesInv
<1>s. \A s \in Threads : s # t => pc'[s] = pc[s] /\ my'[s] = my[s]
  BY <1>0, OthersStay DEF Adds, Manage
<1>1. ASSUME NEW r \in Roles, CreateUser(t, u, r)
      PROVE  /\ pc'[t] = "logCreateUser" /\ my'[t].inLoop = my[t].inLoop
             /\ u \in LocalUsers /\ ~created[u] /\ UNCHANGED <<session, token, clock>>
             /\ created' = [created EXCEPT ![u] = TRUE] /\ active' = [active EXCEPT ![u] = TRUE]
             /\ roles' = [roles EXCEPT ![u] = {r}]
  BY <1>0, <1>1 DEF CreateUser, Goto, Reads
<1>2. CASE \E r \in Roles : CreateUser(t, u, r) BY <1>s, <1>1, <1>2 DEF OwnedInv, Known
<1>3. CASE SamlInsert(t) /\ u = my[t].who
  <2>1. my[t].ask.role \in Roles /\ pc[t] = "samlInsert"
    BY <1>0, <1>3, TypeParts DEF SamlInsert, Knows, Reads, Asks
  <2>2. /\ pc'[t] = "newSession" /\ my' = my /\ UNCHANGED <<session, token, clock>>
        /\ created' = [created EXCEPT ![u] = TRUE] /\ active' = [active EXCEPT ![u] = TRUE]
        /\ roles' = [roles EXCEPT ![u] = {my[t].ask.role}]
    BY <1>0, <1>3 DEF SamlInsert, Goto
  <2>3. ~created[u] /\ \A s \in Threads : s # t /\ pc[s] = "samlInsert" => my[s].who # u
    BY <1>3, <2>1 DEF OwnedInv, Known, OneInLoop
  <2>4. QED BY <1>s, <1>3, <2>1, <2>2, <2>3
<1>4. QED BY <1>2, <1>3 DEF Adds

\* Where the step of a request leaves its thread.
LEMMA WorksKnown ==
    ASSUME OwnedInv, NEW t \in Threads, Works(t)
    PROVE  /\ Known(t)'
           /\ my'[t].inLoop => my[t].inLoop \/ \A s \in Threads : ~my[s].inLoop
<1> DEFINE Goal == /\ Known(t)'
                   /\ my'[t].inLoop => my[t].inLoop \/ \A s \in Threads : ~my[s].inLoop
           Quiet == pc'[t] \notin {"newSession", "loadContext", "admitted", "samlInsert", "samlUpdate"}
<1>0. /\ TypeOK /\ my[t] \in Reads /\ pc \in [Threads -> Steps] /\ my \in [Threads -> Reads]
      /\ Knows(t) /\ Known(t) /\ Owned /\ created' = created
  BY TypeParts, WorksKeeps DEF OwnedInv, RolesInv
<1>1. ASSUME Finish({t}) PROVE Goal
  <2>1. pc'[t] = "idle" /\ my'[t] = Fresh BY <1>1 DEF Finish
  <2>2. QED BY <2>1 DEF Known, Fresh
<1>2. ASSUME NEW u \in Users, LocalLogin(t, u) PROVE Goal
  <2>1. my'[t].who = u /\ my'[t].inLoop = my[t].inLoop BY <1>0, <1>2 DEF LocalLogin, Reads
  <2>2. pc'[t] = "newSession" /\ created[u] BY <1>0, <1>2 DEF LocalLogin, BeginAt, Goto
  <2>3. QED BY <1>0, <2>1, <2>2 DEF Known
<1>3. ASSUME NEW u \in Users, NEW r \in Roles, FindSamlUser(t, u, r) PROVE Goal
  <2>1. PICK old \in FirstRole(u) :
          my' = [my EXCEPT ![t].inLoop = TRUE, ![t].who = u, ![t].target = u,
                           ![t].ask.role = r, ![t].held = old]
    BY <1>3 DEF FindSamlUser
  <2>2. my'[t].who = u /\ my'[t].inLoop BY <1>0, <2>1 DEF Reads
  <2>3. /\ pc'[t] = IF created[u] THEN "samlUpdate" ELSE "samlInsert"
        /\ u \notin LocalUsers /\ \A s \in Threads : ~my[s].inLoop
    BY <1>0, <1>3 DEF FindSamlUser, BeginAt, Goto
  <2>4. QED BY <1>0, <2>2, <2>3 DEF Known
<1>4. ASSUME NEW q \in Sessions, LookUp(t, q) PROVE Goal
  <2>1. my'[t].inLoop = my[t].inLoop BY <1>0, <1>4 DEF LookUp, Reads
  <2>2. pc'[t] = "checkDeadlines" BY <1>0, <1>4 DEF LookUp, BeginAt, Goto
  <2>3. QED BY <2>1, <2>2 DEF Known
<1>5. ASSUME NEW k \in Tokens, LookUpToken(t, k) PROVE Goal
  <2>1. my'[t].inLoop = my[t].inLoop /\ my'[t].who = token[k].user
    BY <1>0, <1>5 DEF LookUpToken, Reads
  <2>2. pc'[t] = "loadContext" /\ created[token[k].user]
    BY <1>0, <1>5 DEF LookUpToken, BeginAt, Goto, Owned
  <2>3. QED BY <1>0, <2>1, <2>2 DEF Known
<1>6. CASE \/ \E q \in Sessions : CreateSession(t, q)
           \/ Refresh(t) \/ RevokeToken(t) \/ Deactivate(t) \/ Update(t)
  <2>1. my' = my /\ Quiet
    BY <1>0, <1>6 DEF CreateSession, Refresh, RevokeToken, Deactivate, Update, Goto
  <2>2. QED BY <2>1 DEF Known
<1>7. CASE \/ CheckDeadlines(t) \/ \E k \in Tokens : CreateToken(t, k) \/ FindToken(t, k)
  <2>1. my'[t].inLoop = my[t].inLoop /\ Quiet
    BY <1>0, <1>7 DEF CheckDeadlines, CreateToken, FindToken, Goto, Reads
  <2>2. QED BY <2>1 DEF Known
<1>8. CASE LoadUser(t)
  <2>1. my'[t].inLoop = my[t].inLoop /\ my'[t].who = session[my[t].sess].user
    BY <1>0, <1>8 DEF LoadUser, Reads
  <2>2. pc'[t] = "loadContext" /\ created[session[my[t].sess].user]
    BY <1>0, <1>8 DEF LoadUser, Goto, Owned, Knows, Reads
  <2>3. QED BY <1>0, <2>1, <2>2 DEF Known
<1>9. CASE LoadContext(t)
  <2>1. my'[t].inLoop = my[t].inLoop /\ my'[t].who = my[t].who
    BY <1>0, <1>9 DEF LoadContext, Reads
  <2>2. pc'[t] = "admitted" /\ created[my[t].who] BY <1>0, <1>9 DEF LoadContext, Goto, Known
  <2>3. QED BY <1>0, <2>1, <2>2 DEF Known
<1>10. ASSUME NEW u \in Users, NEW body \in Bodies, FindUser(t, u, body) PROVE Goal
  <2>1. my'[t].inLoop = my[t].inLoop BY <1>0, <1>10 DEF FindUser, Reads
  <2>2. Quiet BY <1>0, <1>10 DEF FindUser, Goto
  <2>3. QED BY <2>1, <2>2 DEF Known
<1>11. CASE SamlUpdate(t)
  <2>1. Holds(t) /\ pc[t] = "samlUpdate" BY <1>11 DEF OwnedInv, RolesInv, SamlUpdate
  <2>2. created[my[t].who] BY <1>0, <2>1 DEF Holds, Knows
  <2>3. my' = my /\ pc'[t] = "newSession" BY <1>0, <1>11 DEF SamlUpdate, Goto
  <2>4. QED BY <1>0, <2>2, <2>3 DEF Known
<1>12. CASE \/ LogLogin(t) \/ EndRequest(t) \/ LogCreateToken(t) \/ LogRevokeToken(t)
            \/ LogCreateUser(t) \/ RefusePassword(t) \/ LogUpdate(t) \/ Conflict(t)
            \/ CommitFails(t)
  BY <1>1, <1>12 DEF LogLogin, EndRequest, LogCreateToken, LogRevokeToken, LogCreateUser,
                     RefusePassword, LogUpdate, Conflict, CommitFails, Log
<1>13. QED
  BY <1>2, <1>3, <1>4, <1>5, <1>6, <1>7, <1>8, <1>9, <1>10, <1>11, <1>12 DEF Works, Begin, Admit
\* A session that a step makes is that of a user there is, ...
LEMMA SessionsOwned ==
    ASSUME OwnedInv, [Next]_vars, \A u \in Users : created[u] => created'[u]
    PROVE  \A s \in Sessions : session'[s] # None => created'[session'[s].user]
<1> SUFFICES ASSUME NEW s \in Sessions, session'[s] # None PROVE created'[session'[s].user]
  OBVIOUS
<1>0. TypeOK /\ Owned /\ TablesOK BY TypeParts DEF OwnedInv, RolesInv
<1>1. CASE session[s] # None
  <2>1. session[s].user \in Users BY <1>0, <1>1 DEF TablesOK, SessionRows
  <2>2. session'[s].user = session[s].user BY <1>0, <1>1, StepEnded DEF Ended
  <2>3. QED BY <1>0, <1>1, <2>1, <2>2 DEF Owned
<1>2. CASE session[s] = None
  <2>1. ASSUME NEW t \in Threads, NEW q \in Sessions, CreateSession(t, q)
        PROVE  created'[session'[s].user]
    <3>1. s = q /\ session'[q].user = my[t].who /\ pc[t] = "newSession" /\ created' = created
      BY <1>0, <1>2, <2>1 DEF CreateSession, TablesOK
    <3>2. QED BY <3>1 DEF OwnedInv, Known
  <2>2. ASSUME NEW t \in Threads, Refresh(t) PROVE FALSE
    <3>1. session[my[t].sess] # None BY <1>0, <2>2, TypeParts DEF Refresh, Knows
    <3>2. \A q \in Sessions : q # my[t].sess => session'[q] = session[q]
      BY ONLY <1>0, <2>2, RefreshedRow, t \in Threads, Zenon
    <3>3. QED BY <1>2, <3>1, <3>2
  <2>3. ASSUME NEW q \in Sessions, Logout(q) PROVE FALSE
    BY <1>0, <1>2, <2>3 DEF Logout, TablesOK
  <2>4. ASSUME NEW t \in Threads, Deactivate(t) PROVE FALSE BY <1>2, <2>4 DEF Deactivate
  <2>5. ASSUME session' = session PROVE FALSE BY <1>2, <2>5
  <2>6. QED
    BY <1>0, <2>1, <2>2, <2>3, <2>4, <2>5, StepCases, ElsewhereKeeps
       DEF Tick, Restart, CommitFails, vars, tables
<1>3. QED BY <1>1, <1>2

\* The steps that leave the API tokens alone.
LEMMA TokensKept ==
    ASSUME TypeOK, [Next]_vars, UNCHANGED token => FALSE
    PROVE  \E t \in Threads : RevokeToken(t) \/ \E k \in Tokens : CreateToken(t, k)
<1>1. ASSUME NEW t \in Threads, Begin(t) PROVE UNCHANGED token
  BY <1>1, Begins DEF BeginAt, tables
<1>2. ASSUME NEW t \in Threads, Admit(t) \/ CommitFails(t) PROVE UNCHANGED token
  BY <1>2 DEF Admit, CreateSession, LogLogin, CheckDeadlines, Refresh, LoadUser, LoadContext,
              EndRequest, CommitFails, Log, tables
<1>3. ASSUME NEW t \in Threads,
             \/ \E k \in Tokens : FindToken(t, k)
             \/ LogCreateToken(t) \/ LogRevokeToken(t) \/ LogCreateUser(t) \/ Deactivate(t)
             \/ Update(t) \/ RefusePassword(t) \/ LogUpdate(t) \/ SamlInsert(t)
             \/ SamlUpdate(t) \/ Conflict(t) \/ \E u \in Users, r \in Roles : CreateUser(t, u, r)
      PROVE  UNCHANGED token
  BY <1>3 DEF FindToken, LogCreateToken, LogRevokeToken, LogCreateUser, Deactivate, Update,
              RefusePassword, LogUpdate, SamlInsert, SamlUpdate, Conflict, CreateUser, Log, tables
<1>4. ASSUME NEW t \in Threads, NEW u \in Users, NEW body \in Bodies, FindUser(t, u, body)
      PROVE  UNCHANGED token
  BY <1>4 DEF FindUser, tables
<1>5. CASE (\E s \in Sessions : Logout(s)) \/ Tick \/ Restart \/ UNCHANGED vars
  BY <1>5 DEF Logout, Tick, Restart, vars, tables
<1>6. QED BY <1>1, <1>2, <1>3, <1>4, <1>5 DEF Next, Manage

\* ... and so is an API token.
LEMMA TokensOwned ==
    ASSUME OwnedInv, [Next]_vars, \A u \in Users : created[u] => created'[u]
    PROVE  \A k \in Tokens : token'[k] # None => created'[token'[k].user]
<1> SUFFICES ASSUME NEW k \in Tokens, token'[k] # None PROVE created'[token'[k].user]
  OBVIOUS
<1>0. TypeOK /\ Owned /\ TablesOK /\ None \notin TokenRows
  BY TypeParts, NoneIsNoRow DEF OwnedInv, RolesInv
<1>1. CASE token' = token BY <1>0, <1>1 DEF Owned, TablesOK, TokenRows
<1>2. ASSUME NEW t \in Threads, NEW q \in Tokens, CreateToken(t, q) PROVE created'[token'[k].user]
  <2>1. CASE k = q
    <3>1. token'[k].user = my[t].who /\ pc[t] = "admitted" /\ created' = created
      BY <1>0, <1>2, <2>1 DEF CreateToken, TablesOK
    <3>2. QED BY <3>1 DEF OwnedInv, Known
  <2>2. CASE k # q BY <1>0, <1>2, <2>2 DEF CreateToken, Owned, TablesOK, TokenRows
  <2>3. QED BY <2>1, <2>2
<1>3. ASSUME NEW t \in Threads, RevokeToken(t) PROVE created'[token'[k].user]
  <2>1. my[t].target \in Tokens /\ token[my[t].target] # None
    BY <1>0, <1>3, TypeParts DEF RevokeToken, Knows
  <2>2. token[k] # None /\ token'[k].user = token[k].user
    BY <1>0, <1>3, <2>1 DEF RevokeToken, TablesOK, TokenRows
  <2>3. token[k].user \in Users BY <1>0, <2>2 DEF TablesOK, TokenRows
  <2>4. QED BY <1>0, <2>2, <2>3 DEF Owned
<1>4. QED BY <1>0, <1>1, <1>2, <1>3, TokensKept

LEMMA StepOwned ==
    ASSUME OwnedInv, [Next]_vars
    PROVE  OwnedInv'
<1>0. /\ RolesInv /\ TypeOK /\ Owned /\ TablesOK /\ RolesInv'
      /\ pc \in [Threads -> Steps] /\ my \in [Threads -> Reads]
  BY TypeParts, StepRoles DEF OwnedInv, RolesInv
<1>1. ASSUME \A u \in Users : created[u] => created'[u],
             \A u \in Users : active'[u] => created'[u],
             OneInLoop', \A t \in Threads : Known(t)'
      PROVE  OwnedInv'
  BY <1>0, <1>1, SessionsOwned, TokensOwned DEF OwnedInv, Owned
<1>2. ASSUME NEW t \in Threads, NEW u \in Users, Adds(t, u) PROVE OwnedInv'
  <2>1. /\ created' = [created EXCEPT ![u] = TRUE] /\ active' = [active EXCEPT ![u] = TRUE]
        /\ \A s \in Threads : s # t /\ pc[s] = "samlInsert" => my[s].who # u
        /\ \A s \in Threads \ {t} : pc'[s] = pc[s] /\ my'[s] = my[s]
        /\ pc'[t] \in {"logCreateUser", "newSession"} /\ my'[t].inLoop = my[t].inLoop
        /\ pc'[t] = "newSession" => my'[t].who = u
    BY <1>2, AddsOne
  <2>2. \A v \in Users : (created[v] => created'[v]) /\ (active'[v] => created'[v])
    BY <1>0, <2>1 DEF Owned, TablesOK
  <2>3. OneInLoop' BY <2>1 DEF OwnedInv, OneInLoop
  <2>4. Known(t)' BY <1>0, <2>1 DEF Known, TablesOK
  <2>5. ASSUME NEW s \in Threads, s # t PROVE Known(s)'
    <3>1. pc'[s] = pc[s] /\ my'[s] = my[s] /\ Known(s) BY <2>1, <2>5 DEF OwnedInv
    <3>2. pc[s] = "samlInsert" => ~created'[my[s].who]
      BY <1>0, <2>1, <2>5, <3>1, TypeParts DEF Known, Knows, TablesOK
    <3>3. pc[s] \in {"newSession", "loadContext", "admitted"} => created'[my[s].who]
      BY <1>0, <2>2, <3>1, TypeParts DEF Known, Knows, Reads
    <3>4. QED BY <3>1, <3>2, <3>3 DEF Known
  <2>6. QED BY <1>1, <2>2, <2>3, <2>4, <2>5
<1>3. ASSUME NEW t \in Threads, Works(t) PROVE OwnedInv'
  <2>1. created' = created BY <1>0, <1>3, WorksKeeps
  <2>2. ASSUME NEW s \in Threads, s # t PROVE pc'[s] = pc[s] /\ my'[s] = my[s]
    BY <1>0, <1>3, <2>2, OthersStay DEF Works, Manage
  <2>3. /\ Known(t)'
        /\ my'[t].inLoop => my[t].inLoop \/ \A s \in Threads : ~my[s].inLoop
    BY <1>3, WorksKnown
  <2>4. OneInLoop' BY <2>2, <2>3 DEF OwnedInv, OneInLoop
  <2>5. \A s \in Threads : Known(s)' BY <2>1, <2>2, <2>3 DEF OwnedInv, Known
  <2>6. \A v \in Users : active'[v] => created'[v]
    <3>1. CASE Update(t)
      <4>1. my[t].target \in Users /\ created[my[t].target]
        BY <1>0, <3>1, TypeParts DEF Update, RolesInv, Holds, Knows
      <4>2. QED BY <1>0, <2>1, <3>1, <4>1 DEF Update, Owned, TablesOK
    <3>2. CASE Deactivate(t) BY <1>0, <2>1, <3>2 DEF Deactivate, Owned, TablesOK
    <3>3. ASSUME UNCHANGED active PROVE \A v \in Users : active'[v] => created'[v]
      BY <1>0, <2>1, <3>3 DEF Owned
    <3>4. CASE Begin(t) BY <3>3, <3>4, Begins DEF BeginAt, tables
    <3>5. CASE Admit(t) \/ CommitFails(t)
      BY <3>3, <3>5 DEF Admit, CreateSession, LogLogin, CheckDeadlines, Refresh, LoadUser,
                        LoadContext, EndRequest, CommitFails, Log, tables
    <3>6. CASE \/ \E k \in Tokens : CreateToken(t, k) \/ FindToken(t, k)
               \/ LogCreateToken(t) \/ RevokeToken(t) \/ LogRevokeToken(t)
               \/ LogCreateUser(t) \/ RefusePassword(t) \/ LogUpdate(t)
               \/ SamlUpdate(t) \/ Conflict(t)
      BY <3>3, <3>6 DEF CreateToken, FindToken, LogCreateToken, RevokeToken, LogRevokeToken,
                        LogCreateUser, RefusePassword, LogUpdate, SamlUpdate, Conflict, Log, tables
    <3>7. ASSUME NEW u \in Users, NEW body \in Bodies, FindUser(t, u, body) PROVE UNCHANGED active
      BY <3>7 DEF FindUser, tables
    <3>8. QED BY <1>3, <3>1, <3>2, <3>3, <3>4, <3>5, <3>6, <3>7 DEF Works
  <2>7. QED BY <1>1, <2>1, <2>4, <2>5, <2>6
<1>4. CASE (\E s \in Sessions : Logout(s)) \/ Tick \/ UNCHANGED vars
  <2>1. UNCHANGED <<created, active, pc, my>> BY <1>4 DEF Logout, Tick, vars, tables
  <2>2. QED BY <1>0, <1>1, <2>1 DEF OwnedInv, Owned, OneInLoop, Known
<1>5. CASE Restart
  <2>1. /\ UNCHANGED <<created, active>>
        /\ \A t \in Threads : pc'[t] = "idle" /\ my'[t] = Fresh
    BY <1>5 DEF Restart, Finish, tables
  <2>2. QED BY <1>0, <1>1, <2>1 DEF Owned, OneInLoop, Known, Fresh
<1>6. QED BY <1>0, <1>2, <1>3, <1>4, <1>5, AddsOrWorks
\* The first users and tokens.
LEMMA InitPromise == Init => SignOnPromise!Init
<1> SUFFICES ASSUME Init PROVE SignOnPromise!Init OBVIOUS
<1>1. Standing = [u \in Users |-> IF u = Admin THEN "active" ELSE "absent"]
  BY DEF Init, Standing
<1>2. Passes = [s \in Sessions |-> None] BY DEF Init, Passes, PassOf
<1>3. PICK K \in SUBSET Tokens :
        token = [k \in Tokens |-> IF k \in K THEN [user |-> Admin, revoked |-> FALSE] ELSE None]
  BY DEF Init
<1>4. token \in [Tokens -> {None, [user |-> Admin, revoked |-> FALSE]}] BY <1>3
<1>5. roles = [u \in Users |-> IF u = Admin THEN {"admin"} ELSE {}] /\ clock = 0 BY DEF Init
<1>6. QED BY <1>1, <1>2, <1>4, <1>5 DEF SignOnPromise!Init

\* A user, once there, is active or suspended.
LEMMA ThoseThere ==
    ASSUME TypeOK, NEW u \in Users
    PROVE  /\ Standing[u] = "absent" <=> ~created[u]
           /\ Standing = [Standing EXCEPT ![u] = Standing[u]]
BY DEF Standing

\* A row of sessions, and the pass that it stands for.
LEMMA PassOfRow ==
    ASSUME NEW row \in SessionRows
    PROVE  /\ PassOf(row) \in PassRows /\ PassOf(row) # None
           /\ PassOf(row).holder = row.user /\ PassOf(row).since = row.created
           /\ PassOf(row).until = (IF row.revoked THEN 0 ELSE row.expires)
           /\ PassOf(row).over = row.revoked
<1>1. row # None BY NoneIsNoRow
<1>2. PassOf(row) = [holder |-> row.user, since |-> row.created,
                     until |-> IF row.revoked THEN 0 ELSE row.expires, over |-> row.revoked]
  BY <1>1 DEF PassOf
<1>3. row.user \in Users /\ row.created \in Nat /\ row.expires \in Nat /\ row.revoked \in BOOLEAN
  BY DEF SessionRows
<1>4. PassOf(row) \in PassRows BY <1>2, <1>3 DEF PassRows
<1>5. QED BY <1>2, <1>4, NoneIsNoRow

LEMMA PassRow ==
    ASSUME TypeOK, NEW s \in Sessions
    PROVE  /\ Passes[s] = PassOf(session[s])
           /\ Passes[s] = None <=> session[s] = None
           /\ session[s] # None => session[s] \in SessionRows
<1>1. session[s] \in SessionRows \cup {None} BY TypeParts DEF TablesOK
<1>2. Passes[s] = PassOf(session[s]) BY DEF Passes
<1>3. session[s] = None => PassOf(session[s]) = None BY DEF PassOf
<1>4. QED BY <1>1, <1>2, <1>3, PassOfRow

\* A revoked row stands for a pass that is over, as the promise makes one.
LEMMA PassRevoked ==
    ASSUME TypeOK, NEW s \in Sessions, session[s] # None
    PROVE  PassOf(Revoke(s)) = SignOnPromise!Over(s)
<1> DEFINE row == session[s]
<1>1. row \in SessionRows /\ Passes[s] = PassOf(row) BY PassRow
<1>2. /\ Revoke(s) = [row EXCEPT !.revoked = TRUE] /\ Revoke(s) \in SessionRows
      /\ Revoke(s).user = row.user /\ Revoke(s).created = row.created /\ Revoke(s).revoked
  BY <1>1 DEF Revoke, SessionRows
<1>3. PassOf(Revoke(s)) = [holder |-> row.user, since |-> row.created, until |-> 0, over |-> TRUE]
  BY <1>2, NoneIsNoRow DEF PassOf, SessionRows
<1>4. PassOf(row) = [holder |-> row.user, since |-> row.created,
                     until |-> IF row.revoked THEN 0 ELSE row.expires, over |-> row.revoked]
  BY DEF PassOf
<1> HIDE DEF row
<1>5. QED BY <1>1, <1>3, <1>4 DEF SignOnPromise!Over

\* The step that adds a user is a registration, ...
LEMMA AddsRegisters ==
    ASSUME OwnedInv, NEW t \in Threads, NEW u \in Users, Adds(t, u)
    PROVE  \E r \in Roles : SignOnPromise!Register(u, r)
<1>0. TypeOK BY DEF OwnedInv, RolesInv
<1>1. /\ created' = [created EXCEPT ![u] = TRUE] /\ active' = [active EXCEPT ![u] = TRUE]
      /\ ~created[u] /\ UNCHANGED <<session, token, clock>>
  BY AddsOne
<1>2. PICK r \in Roles : roles' = [roles EXCEPT ![u] = {r}] BY AddsOne
<1>3. Standing[u] = "absent" BY <1>0, <1>1, ThoseThere
<1>4. Standing' = [Standing EXCEPT ![u] = "active"]
  BY <1>0, <1>1, TypeParts DEF Standing, TablesOK
<1>5. Passes' = Passes BY <1>1 DEF Passes
<1>6. QED BY <1>1, <1>2, <1>3, <1>4, <1>5 DEF SignOnPromise!Register

\* ... that of a request which changes one amends or expels it, ...
LEMMA RoleChanged ==
    ASSUME OwnedInv, NEW t \in Threads, Deactivate(t) \/ Update(t) \/ SamlUpdate(t)
    PROVE  /\ my[t].target \in Users /\ Standing[my[t].target] # "absent"
           /\ \E r \in Roles : roles' = [roles EXCEPT ![my[t].target] = {r}]
<1>0. RolesInv /\ TypeOK BY DEF OwnedInv, RolesInv
<1>1. pc[t] \in {"deactivate", "update", "samlUpdate"} /\ RoleWritable(t)
  BY DEF Deactivate, Update, SamlUpdate
<1>2. my[t].target \in Users /\ \E r \in Roles : RolesWritten(t) = {r}
  BY <1>0, <1>1, RolesWrittenOne
<1>3. created[my[t].target] BY <1>0, <1>1 DEF RolesInv, Holds
<1>4. SamlUpdate(t) => my[t].target = my[t].who BY <1>0, TypeParts DEF SamlUpdate, Knows
<1>5. roles' = [roles EXCEPT ![my[t].target] = RolesWritten(t)]
  BY <1>4 DEF Deactivate, Update, SamlUpdate
<1>6. QED BY <1>0, <1>2, <1>3, <1>5, ThoseThere

LEMMA UpdateAmends ==
    ASSUME OwnedInv, NEW t \in Threads, Update(t) \/ SamlUpdate(t)
    PROVE  \E u \in Users, r \in Roles : SignOnPromise!Amend(u, r)
<1>0. TypeOK BY DEF OwnedInv, RolesInv
<1>1. PICK u \in Users : u = my[t].target BY RoleChanged
<1>2. PICK r \in Roles : roles' = [roles EXCEPT ![u] = {r}] BY <1>1, RoleChanged
<1>3. Standing[u] # "absent" /\ created[u] BY <1>0, <1>1, RoleChanged, ThoseThere
<1>4. created' = created /\ UNCHANGED <<session, token, clock>> BY DEF Update, SamlUpdate
<1>5. active' = active \/ active' = [active EXCEPT ![u] = TRUE]
  BY <1>0, <1>1, TypeParts DEF Update, SamlUpdate, TablesOK
<1>6. Standing' \in {Standing, [Standing EXCEPT ![u] = "active"]}
  BY <1>0, <1>3, <1>4, <1>5, TypeParts DEF Standing, TablesOK
<1>7. Passes' = Passes BY <1>4 DEF Passes
<1>8. QED BY <1>2, <1>3, <1>4, <1>6, <1>7 DEF SignOnPromise!Amend

LEMMA DeactivateExpels ==
    ASSUME OwnedInv, NEW t \in Threads, Deactivate(t)
    PROVE  \E u \in Users, r \in Roles : SignOnPromise!Expel(u, r)
<1>0. TypeOK BY DEF OwnedInv, RolesInv
<1>1. PICK u \in Users : u = my[t].target BY RoleChanged
<1>2. PICK r \in Roles : roles' = [roles EXCEPT ![u] = {r}] BY <1>1, RoleChanged
<1>3. Standing[u] # "absent" /\ created[u] BY <1>0, <1>1, RoleChanged, ThoseThere
<1>4. created' = created /\ UNCHANGED <<token, clock>> BY DEF Deactivate
<1>5. active' = active \/ active' = [active EXCEPT ![u] = FALSE]
  BY <1>0, <1>1, TypeParts DEF Deactivate, TablesOK
<1>6. Standing' \in {Standing, [Standing EXCEPT ![u] = "suspended"]}
  BY <1>0, <1>3, <1>4, <1>5, TypeParts DEF Standing, TablesOK
<1>7. ASSUME NEW s \in Sessions
      PROVE  PassOf(session'[s]) = IF Passes[s] # None /\ Passes[s].holder = u
                                   THEN SignOnPromise!Over(s) ELSE Passes[s]
  <2>1. session'[s] = IF session[s] # None /\ session[s].user = u THEN Revoke(s) ELSE session[s]
    BY <1>1 DEF Deactivate
  <2>2. session[s] # None => Passes[s].holder = session[s].user BY <1>0, PassRow, PassOfRow
  <2>3. QED BY <1>0, <2>1, <2>2, PassRow, PassRevoked
<1>8. Passes' = [s \in Sessions |-> IF Passes[s] # None /\ Passes[s].holder = u
                                    THEN SignOnPromise!Over(s) ELSE Passes[s]]
  BY <1>7 DEF Passes
<1>9. QED BY <1>2, <1>3, <1>4, <1>6, <1>8 DEF SignOnPromise!Expel
\* ... and the steps that write one session open, use or close one pass.
LEMMA OnePass ==
    ASSUME TypeOK, NEW s \in Sessions, NEW row, session' = [session EXCEPT ![s] = row]
    PROVE  Passes' = [Passes EXCEPT ![s] = PassOf(row)]
<1>1. session \in [Sessions -> SessionRows \cup {None}] BY TypeParts DEF TablesOK
<1>2. QED BY <1>1 DEF Passes

LEMMA CreateOpens ==
    ASSUME OwnedInv, NEW t \in Threads, NEW s \in Sessions, CreateSession(t, s)
    PROVE  \E u \in Users : SignOnPromise!Open(s, u)
<1>0. TypeOK BY DEF OwnedInv, RolesInv
<1>1. my[t].who \in Users /\ created[my[t].who]
  BY <1>0, TypeParts DEF CreateSession, Knows, Reads, OwnedInv, Known
<1>2. PICK u \in Users : u = my[t].who BY <1>1
<1> DEFINE row == [user |-> u, created |-> clock, seen |-> clock, expires |-> clock + Idle,
                   revoked |-> FALSE]
<1>3. session' = [session EXCEPT ![s] = row] BY <1>2 DEF CreateSession
<1>4. row \in SessionRows BY <1>0, TypeParts, ConstantsAssumption DEF SessionRows, TablesOK
<1>5. PassOf(row) = [holder |-> u, since |-> clock, until |-> clock + Idle, over |-> FALSE]
  BY <1>4, NoneIsNoRow DEF PassOf
<1>6. Passes' = [Passes EXCEPT ![s] = PassOf(row)] BY <1>0, <1>3, OnePass
<1>7. Passes[s] = None BY <1>0, PassRow DEF CreateSession
<1>8. Standing[u] # "absent" BY <1>0, <1>1, <1>2, ThoseThere
<1>9. UNCHANGED <<Standing, roles, token, clock>> BY DEF CreateSession, Standing
<1>10. QED BY <1>5, <1>6, <1>7, <1>8, <1>9 DEF SignOnPromise!Open

LEMMA LogoutCloses ==
    ASSUME OwnedInv, NEW s \in Sessions, Logout(s)
    PROVE  SignOnPromise!Close(s)
<1>0. TypeOK BY DEF OwnedInv, RolesInv
<1>1. session' = [session EXCEPT ![s] = Revoke(s)] /\ session[s] # None /\ ~session[s].revoked
  BY DEF Logout
<1>2. Passes' = [Passes EXCEPT ![s] = SignOnPromise!Over(s)]
  BY <1>0, <1>1, OnePass, PassRevoked
<1>3. Passes[s] # None /\ ~Passes[s].over BY <1>0, <1>1, PassRow, PassOfRow
<1>4. UNCHANGED <<Standing, roles, token, clock>> BY DEF Logout, Standing
<1>5. QED BY <1>2, <1>3, <1>4 DEF SignOnPromise!Close

\* A refresh is no use of a pass that is over, nor of one whose deadline it leaves alone.
LEMMA RefreshUses ==
    ASSUME OwnedInv, DeadlineInv, NEW t \in Threads, Refresh(t)
    PROVE  (\E s \in Sessions : SignOnPromise!Use(s)) \/ UNCHANGED Passes
<1>0. TypeOK BY DEF OwnedInv, RolesInv
<1>1. PICK s \in Sessions : s = my[t].sess
  BY <1>0, TypeParts DEF Refresh, Knows, Reads
<1> DEFINE row == session[s]
           next == [row EXCEPT !.seen = my[t].now, !.expires = Extended(t)]
<1>2. /\ row \in SessionRows /\ my[t].now \in Nat /\ Extended(t) \in Nat
      /\ session'[s] = next /\ \A q \in Sessions : q # s => session'[q] = session[q]
  BY <1>0, <1>1, RefreshedRow, Zenon
<1>3. /\ next \in SessionRows /\ next.user = row.user /\ next.created = row.created
      /\ next.expires = Extended(t) /\ next.revoked = row.revoked
  BY <1>2 DEF SessionRows
<1>4. Passes'[s] = PassOf(next) /\ \A q \in Sessions : q # s => Passes'[q] = Passes[q]
  BY <1>2 DEF Passes
<1>5. /\ PassOf(row) = [holder |-> row.user, since |-> row.created,
                        until |-> IF row.revoked THEN 0 ELSE row.expires, over |-> row.revoked]
      /\ PassOf(next) = [holder |-> row.user, since |-> row.created,
                         until |-> IF row.revoked THEN 0 ELSE Extended(t), over |-> row.revoked]
  BY <1>2, <1>3, NoneIsNoRow DEF PassOf
<1>6. Passes[s] = PassOf(row) /\ Passes[s] # None BY <1>0, <1>2, PassRow, PassOfRow
<1> HIDE DEF row, next
<1>7. CASE row.revoked \/ Extended(t) = row.expires
  <2>1. PassOf(next) = PassOf(row) BY <1>5, <1>7
  <2>2. Passes' = Passes BY <1>4, <1>6, <2>1 DEF Passes
  <2>3. QED BY <2>2
<1>8. CASE ~row.revoked /\ Extended(t) # row.expires
  <2>1. /\ row.created \in Nat /\ row.expires \in Nat /\ clock \in Nat
        /\ Idle \in Nat /\ Absolute \in Nat
    BY <1>0, <1>2, TypeParts, ConstantsAssumption DEF SessionRows, TablesOK
  <2>2. my[t].now <= clock BY DEF DeadlineInv, Window, Refresh
  <2>3. Extended(t) <= clock + Idle /\ Extended(t) <= row.created + Absolute
    BY <1>1, <1>2, <1>8, <2>1, <2>2 DEF Extended, row
  <2>4. Extended(t) \in 0 .. clock + Idle BY <1>2, <2>1, <2>3
  <2>5. Passes[s].since = row.created /\ ~Passes[s].over BY <1>5, <1>6, <1>8
  <2>6. PassOf(next) = [Passes[s] EXCEPT !.until = Extended(t)] BY <1>5, <1>6, <1>8
  <2>7. Passes' = [Passes EXCEPT ![s].until = Extended(t)] BY <1>4, <2>6 DEF Passes
  <2>8. UNCHANGED <<Standing, roles, token, clock>> BY DEF Refresh, Standing
  <2>9. SignOnPromise!Use(s) BY <1>6, <2>3, <2>4, <2>5, <2>7, <2>8 DEF SignOnPromise!Use
  <2>10. QED BY <2>9
<1>9. QED BY <1>7, <1>8
\* A token is issued to a user there is, and withdrawn once.
LEMMA CreateIssues ==
    ASSUME OwnedInv, NEW t \in Threads, NEW k \in Tokens, CreateToken(t, k)
    PROVE  \E u \in Users : SignOnPromise!Issue(k, u)
<1>0. TypeOK BY DEF OwnedInv, RolesInv
<1>1. my[t].who \in Users /\ created[my[t].who]
  BY <1>0, TypeParts DEF CreateToken, Knows, Reads, OwnedInv, Known
<1>2. PICK u \in Users : u = my[t].who BY <1>1
<1>3. Standing[u] # "absent" BY <1>0, <1>1, <1>2, ThoseThere
<1>4. UNCHANGED <<Standing, roles, Passes, clock>> BY DEF CreateToken, Standing, Passes
<1>5. token[k] = None /\ token' = [token EXCEPT ![k] = [user |-> u, revoked |-> FALSE]]
  BY <1>2 DEF CreateToken
<1>6. QED BY <1>3, <1>4, <1>5 DEF SignOnPromise!Issue

LEMMA RevokeWithdraws ==
    ASSUME OwnedInv, NEW t \in Threads, RevokeToken(t)
    PROVE  \/ \E k \in Tokens : SignOnPromise!Withdraw(k)
           \/ UNCHANGED <<Standing, roles, Passes, token, clock>>
<1>0. TypeOK BY DEF OwnedInv, RolesInv
<1>1. PICK k \in Tokens : k = my[t].target BY <1>0, TypeParts DEF RevokeToken, Knows
<1>2. token' = [token EXCEPT ![k].revoked = TRUE] /\ token[k] # None
  BY <1>0, <1>1, TypeParts DEF RevokeToken, Knows
<1>3. UNCHANGED <<Standing, roles, Passes, clock>> BY DEF RevokeToken, Standing, Passes
<1>4. CASE ~token[k].revoked BY <1>2, <1>3, <1>4 DEF SignOnPromise!Withdraw
<1>5. CASE token[k].revoked
  <2>1. token \in [Tokens -> TokenRows \cup {None}] BY <1>0, TypeParts DEF TablesOK
  <2>2. token[k] \in TokenRows BY <1>2, <2>1
  <2>3. token[k].revoked = TRUE BY <1>5, <2>2 DEF TokenRows
  <2>4. [token[k] EXCEPT !.revoked = TRUE] = token[k] BY <2>2, <2>3 DEF TokenRows
  <2>5. token' = token BY <1>2, <2>1, <2>4
  <2>6. QED BY <1>3, <2>5
<1>6. QED BY <1>4, <1>5

\* Every other step is nothing that the promise is about.
LEMMA ElsewhereStutters ==
    ASSUME OwnedInv, NEW t \in Threads, Elsewhere(t) \/ CommitFails(t), UNCHANGED token,
           ~Update(t), ~SamlUpdate(t), ~\E u \in Users : Adds(t, u)
    PROVE  UNCHANGED <<Standing, roles, Passes, token, clock>>
<1>0. TypeOK BY DEF OwnedInv, RolesInv
<1>1. UNCHANGED <<session, clock>>
  BY <1>0, ElsewhereKeeps DEF CommitFails, tables
<1>2. SamlInsert(t) => FALSE BY <1>0, TypeParts DEF SamlInsert, Adds, Knows
<1>3. UNCHANGED <<created, active, roles>>
  <2>1. CASE Begin(t) BY <2>1, Begins DEF BeginAt, tables
  <2>2. CASE \/ LogLogin(t) \/ CheckDeadlines(t) \/ LoadUser(t) \/ LoadContext(t)
             \/ EndRequest(t) \/ CommitFails(t)
    BY <2>2 DEF LogLogin, CheckDeadlines, LoadUser, LoadContext, EndRequest, CommitFails, Log,
                tables
  <2>3. CASE \/ \E k \in Tokens : CreateToken(t, k) \/ FindToken(t, k)
             \/ LogCreateToken(t) \/ RevokeToken(t) \/ LogRevokeToken(t)
             \/ LogCreateUser(t) \/ RefusePassword(t) \/ LogUpdate(t) \/ Conflict(t)
    BY <2>3 DEF CreateToken, FindToken, LogCreateToken, RevokeToken, LogRevokeToken,
                LogCreateUser, RefusePassword, LogUpdate, Conflict, Log, tables
  <2>4. ASSUME NEW u \in Users, NEW body \in Bodies, FindUser(t, u, body)
        PROVE  UNCHANGED <<created, active, roles>>
    BY <2>4 DEF FindUser, tables
  <2>5. QED BY <1>2, <2>1, <2>2, <2>3, <2>4 DEF Elsewhere, Adds
<1>4. QED BY <1>1, <1>3 DEF Standing, Passes

LEMMA StepPromise ==
    ASSUME OwnedInv, DeadlineInv, [Next]_vars
    PROVE  [SignOnPromise!Next]_(SignOnPromise!vars)
<1> DEFINE Stutters == UNCHANGED <<Standing, roles, Passes, token, clock>>
<1>0. TypeOK BY DEF OwnedInv, RolesInv
<1> SUFFICES SignOnPromise!Next \/ Stutters BY DEF SignOnPromise!vars
<1>1. CASE ~UNCHANGED token
  <2>1. PICK t \in Threads : RevokeToken(t) \/ \E k \in Tokens : CreateToken(t, k)
    BY <1>0, <1>1, TokensKept
  <2>2. QED BY <2>1, CreateIssues, RevokeWithdraws DEF SignOnPromise!Next
<1>2. CASE UNCHANGED token
  <2>1. ASSUME NEW t \in Threads, Elsewhere(t) \/ CommitFails(t)
        PROVE  SignOnPromise!Next \/ Stutters
    <3>1. ASSUME NEW u \in Users, Adds(t, u) PROVE SignOnPromise!Next
      BY <3>1, AddsRegisters DEF SignOnPromise!Next
    <3>2. CASE Update(t) \/ SamlUpdate(t) BY <3>2, UpdateAmends DEF SignOnPromise!Next
    <3>3. CASE ~Update(t) /\ ~SamlUpdate(t) /\ ~\E u \in Users : Adds(t, u)
      BY <1>2, <2>1, <3>3, ElsewhereStutters
    <3>4. QED BY <3>1, <3>2, <3>3
  <2>2. ASSUME NEW t \in Threads, Refresh(t) PROVE SignOnPromise!Next \/ Stutters
    BY <1>2, <2>2, RefreshUses DEF SignOnPromise!Next, Refresh, Standing
  <2>3. ASSUME NEW t \in Threads, Deactivate(t) PROVE SignOnPromise!Next
    BY <2>3, DeactivateExpels DEF SignOnPromise!Next
  <2>4. ASSUME NEW t \in Threads, NEW s \in Sessions, CreateSession(t, s) PROVE SignOnPromise!Next
    BY <2>4, CreateOpens DEF SignOnPromise!Next
  <2>5. ASSUME NEW s \in Sessions, Logout(s) PROVE SignOnPromise!Next
    BY <2>5, LogoutCloses DEF SignOnPromise!Next
  <2>6. CASE Tick
    BY <2>6 DEF Tick, tables, Standing, Passes, SignOnPromise!Elapse, SignOnPromise!Next
  <2>7. CASE Restart \/ UNCHANGED vars BY <2>7 DEF Restart, vars, tables, Standing, Passes
  <2>8. QED BY <2>1, <2>2, <2>3, <2>4, <2>5, <2>6, <2>7, StepCases
<1>3. QED BY <1>1, <1>2

\* Whatever the requests of all the threads do between them, one after the other or
\* overlapping, is what SignOn promises (core/security/sessions.py,
\* services/user_service.py, services/token_service.py).
THEOREM AlwaysKeepsSignOnPromise == Spec => KeepsSignOnPromise
<1>1. OwnedInv /\ [Next]_vars => OwnedInv' BY StepOwned
<1>2. DeadlineInv /\ [Next]_vars => DeadlineInv' BY StepDeadlines
<1>3. OwnedInv /\ DeadlineInv /\ [Next]_vars => [SignOnPromise!Next]_(SignOnPromise!vars)
  BY StepPromise
<1>4. QED
  BY InitOwned, InitDeadlines, InitPromise, <1>1, <1>2, <1>3, PTL
     DEF Spec, KeepsSignOnPromise, SignOnPromise!Spec
=============================================================================
