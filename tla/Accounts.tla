------------------------------ MODULE Accounts ------------------------------
(***************************************************************************)
(* Users and how a request is admitted: logins (local and SAML), sessions  *)
(* with a sliding and an absolute deadline, API tokens, and the changes an *)
(* administrator makes to a user.                                          *)
(*                                                                         *)
(* core/security/sessions.py, services/user_service.py,                    *)
(* services/token_service.py, api/deps.py.  Every request has a database   *)
(* session of its own: what it has read stays as it was read, and an       *)
(* UPDATE writes the columns whose value the request changed.  Requests    *)
(* run in threads, but for the end of a SAML login, a coroutine: while it  *)
(* runs, the event loop starts no other request.  Passwords and SAML       *)
(* responses are checked elsewhere: a login here is one that passes.  The  *)
(* expiry of a token, which only refuses more, is left out.                *)
(***************************************************************************)
EXTENDS Naturals, FiniteSets, RolePermissions

CONSTANTS
    Users, LocalUsers,  \* the users of AuthSource.SAML are the others
    Admin,              \* INITIAL_ADMIN_USERNAME
    Sessions, Tokens,   \* rows the tables may hold
    Roles,              \* roles that users are given
    Bodies,             \* the PATCH /users/{id} bodies that requests carry
    Threads, None,
    Idle, Absolute,     \* session_idle_timeout_minutes, session_absolute_timeout_minutes
    MaxTime,            \* bound: the clock stops
    MaxRequests,        \* bound: requests begun
    MaxFaults           \* bound: failed commits and process restarts

ASSUME ConstantsAssumption ==
    /\ LocalUsers \subseteq Users /\ Admin \in LocalUsers
    /\ "admin" \in Roles /\ Roles \subseteq DOMAIN RolePermissions
    /\ Bodies \subseteq [role : Roles \cup {None}, active : {"same", "true", "false"}, password : BOOLEAN]
    /\ None \notin Users \cup Sessions \cup Tokens \cup Roles
    /\ Users \cap Tokens = {}
    /\ Idle \in Nat /\ Absolute \in Nat /\ MaxTime \in Nat
    /\ MaxRequests \in Nat /\ MaxFaults \in Nat

VARIABLES
    \* --- users, user_roles
    created,   \* the row of the user exists
    active,    \* is_active
    roles,     \* the roles of the user's rows in user_roles
    \* --- sessions, api_tokens, audit_log
    session,
    token,
    logged,    \* the <<action, target>> that have an entry
    clock,
    \* --- threads
    pc,
    my,            \* what the thread has read, the record Fresh when it begins
    \* --- bookkeeping
    crossed,       \* users deactivated between the check and the session of a login of theirs
    refused,       \* users whose new password was, after what else the request changed
    begun, faults  \* count up to the bounds

tables == <<created, active, roles, session, token>>
book == <<crossed, refused, begun, faults>>
vars == <<tables, logged, clock, pc, my, book>>

\* A request body that changes nothing.
Keep == [role |-> None, active |-> "same", password |-> FALSE]

Fresh ==
    [inLoop |-> FALSE,   \* it is run by the event loop
     who |-> None,       \* the user who logs in, or whose request it is
     grants |-> {},      \* AuthContext.permissions
     sess |-> None,      \* the session row, ...
     deadline |-> 0,     \* ... its expires_at, ...
     now |-> 0,          \* ... and the time read after that
     target |-> None,    \* the user or token that the request is about
     ask |-> Keep,       \* the change of the user it asks for
     held |-> None,      \* the role in that user's row of user_roles
     was |-> FALSE]      \* is_active of that user
-----------------------------------------------------------------------------
\* The database after its first start, bootstrap_initial_admin, once the
\* administrator has made some API tokens.
Init ==
    /\ created = [u \in Users |-> u = Admin]
    /\ active = [u \in Users |-> u = Admin]
    /\ roles = [u \in Users |-> IF u = Admin THEN {"admin"} ELSE {}]
    /\ session = [s \in Sessions |-> None]
    /\ \E K \in SUBSET Tokens :
         /\ token = [k \in Tokens |-> IF k \in K THEN [user |-> Admin, revoked |-> FALSE] ELSE None]
         /\ logged = {<<"token.create", k>> : k \in K}
    /\ clock = 0
    /\ pc = [t \in Threads |-> "idle"]
    /\ my = [t \in Threads |-> Fresh]
    /\ crossed = {}
    /\ refused = {}
    /\ begun = 0
    /\ faults = 0

Goto(t, step) == pc' = [pc EXCEPT ![t] = step]

\* A request reaches an idle thread.
BeginAt(t, step) ==
    /\ pc[t] = "idle" /\ begun < MaxRequests
    /\ \A o \in Threads : ~my[o].inLoop
    /\ begun' = begun + 1
    /\ Goto(t, step)
    /\ UNCHANGED <<tables, logged, clock, crossed, refused, faults>>

\* The requests of the threads in T are over, and what they had read is gone.
Finish(T) ==
    /\ pc' = [t \in Threads |-> IF t \in T THEN "idle" ELSE pc[t]]
    /\ my' = [t \in Threads |-> IF t \in T THEN Fresh ELSE my[t]]

\* log_action, the last commit of the request
Log(t, action, target) ==
    /\ logged' = logged \cup {<<action, target>>}
    /\ Finish({t})
    /\ UNCHANGED <<tables, clock, book>>
-----------------------------------------------------------------------------
(* Sessions *)

Revoke(s) == [session[s] EXCEPT !.revoked = TRUE]

\* authenticate_local
LocalLogin(t, u) ==
    /\ u \in LocalUsers /\ created[u] /\ active[u]
    /\ my' = [my EXCEPT ![t].who = u]
    /\ BeginAt(t, "newSession")

\* create_session
CreateSession(t, s) ==
    /\ pc[t] = "newSession"
    /\ session[s] = None
    /\ session' = [session EXCEPT ![s] = [user |-> my[t].who, created |-> clock, seen |-> clock,
                                          expires |-> clock + Idle, revoked |-> FALSE]]
    /\ Goto(t, "logLogin")
    /\ UNCHANGED <<created, active, roles, token, logged, clock, my, book>>

LogLogin(t) == pc[t] = "logLogin" /\ Log(t, "auth.login", my[t].who)

\* get_valid_session reads the row ...
LookUp(t, s) ==
    /\ session[s] # None /\ ~session[s].revoked
    /\ my' = [my EXCEPT ![t].sess = s, ![t].deadline = session[s].expires]
    /\ BeginAt(t, "checkDeadlines")

\* Mutant: a session is over only after its deadline.
CheckDeadlinesLate(t) ==
    /\ pc[t] = "checkDeadlines"
    /\ clock <= my[t].deadline /\ clock <= session[my[t].sess].created + Absolute
    /\ my' = [my EXCEPT ![t].now = clock]
    /\ Goto(t, "refresh")
    /\ UNCHANGED <<tables, logged, clock, book>>

\* ... then the clock (a session that is over is refused) ...
CheckDeadlines(t) ==
    /\ pc[t] = "checkDeadlines"
    /\ clock < my[t].deadline /\ clock < session[my[t].sess].created + Absolute
    /\ my' = [my EXCEPT ![t].now = clock]
    /\ Goto(t, "refresh")
    /\ UNCHANGED <<tables, logged, clock, book>>

\* Mutant: the absolute deadline is forgotten.
ExtendedForever(t) == my[t].now + Idle

\* The new expires_at.  Once it is the absolute deadline it stays there, and an
\* UPDATE leaves out a column whose value is the one that was read.
Extended(t) ==
    LET end == session[my[t].sess].created + Absolute
    IN  IF my[t].deadline = end THEN session[my[t].sess].expires
        ELSE IF my[t].now + Idle <= end THEN my[t].now + Idle ELSE end

\* ... and commits the two columns of the sliding window.
Refresh(t) ==
    /\ pc[t] = "refresh"
    /\ session' = [session EXCEPT ![my[t].sess].seen = my[t].now, ![my[t].sess].expires = Extended(t)]
    /\ Goto(t, "loadUser")
    /\ UNCHANGED <<created, active, roles, token, logged, clock, my, book>>

\* get_current_actor: the owner of the session must be active.
LoadUser(t) ==
    /\ pc[t] = "loadUser"
    /\ active[session[my[t].sess].user]
    /\ my' = [my EXCEPT ![t].who = session[my[t].sess].user]
    /\ Goto(t, "loadContext")
    /\ UNCHANGED <<tables, logged, clock, book>>

\* load_auth_context_for_user
LoadContext(t) ==
    /\ pc[t] = "loadContext"
    /\ my' = [my EXCEPT ![t].grants = UNION {RolePermissions[r] : r \in roles[my[t].who]}]
    /\ Goto(t, "admitted")
    /\ UNCHANGED <<tables, logged, clock, book>>

\* The request is refused: 401 (the session is over, its user is not active) or
\* 403; or it was admitted, and did something else.
EndRequest(t) ==
    /\ pc[t] \in {"checkDeadlines", "loadUser", "admitted"}
    /\ Finish({t})
    /\ UNCHANGED <<tables, logged, clock, book>>

\* logout: revoke_session
Logout(s) ==
    /\ session[s] # None /\ ~session[s].revoked
    /\ session' = [session EXCEPT ![s] = Revoke(s)]
    /\ UNCHANGED <<created, active, roles, token, logged, clock, pc, my, book>>
-----------------------------------------------------------------------------
(* API tokens *)

\* authenticate_token
LookUpToken(t, k) ==
    /\ token[k] # None /\ ~token[k].revoked /\ active[token[k].user]
    /\ my' = [my EXCEPT ![t].who = token[k].user]
    /\ BeginAt(t, "loadContext")

\* Mutant: the row is not read back after the commit.
CreateTokenUnread(t, k) ==
    /\ pc[t] = "admitted" /\ "token:manage_own" \in my[t].grants
    /\ token[k] = None
    /\ token' = [token EXCEPT ![k] = [user |-> my[t].who, revoked |-> FALSE]]
    /\ Goto(t, "logCreateToken")
    /\ UNCHANGED <<created, active, roles, session, logged, clock, my, book>>

\* create_token
CreateToken(t, k) ==
    /\ pc[t] = "admitted" /\ "token:manage_own" \in my[t].grants
    /\ token[k] = None
    /\ token' = [token EXCEPT ![k] = [user |-> my[t].who, revoked |-> FALSE]]
    /\ my' = [my EXCEPT ![t].target = k]
    /\ Goto(t, "logCreateToken")
    /\ UNCHANGED <<created, active, roles, session, logged, clock, book>>

LogCreateToken(t) == pc[t] = "logCreateToken" /\ Log(t, "token.create", my[t].target)

\* revoke_token: an owner or a user with token:manage_all; a token that is
\* revoked already is left as it is.
FindToken(t, k) ==
    /\ pc[t] = "admitted" /\ "token:manage_own" \in my[t].grants
    /\ token[k] # None /\ ~token[k].revoked
    /\ token[k].user = my[t].who \/ "token:manage_all" \in my[t].grants
    /\ my' = [my EXCEPT ![t].target = k]
    /\ Goto(t, "revokeToken")
    /\ UNCHANGED <<tables, logged, clock, book>>

RevokeToken(t) ==
    /\ pc[t] = "revokeToken"
    /\ token' = [token EXCEPT ![my[t].target].revoked = TRUE]
    /\ Goto(t, "logRevokeToken")
    /\ UNCHANGED <<created, active, roles, session, logged, clock, my, book>>

LogRevokeToken(t) == pc[t] = "logRevokeToken" /\ Log(t, "token.revoke", my[t].target)
-----------------------------------------------------------------------------
(* Users *)

\* UserRole rows are keyed by (user, role): db.add inserts one, a change of
\* role_id is UPDATE ... WHERE role_id is the one that was read.  No row
\* matched, or the key taken: StaleDataError or IntegrityError.
RoleWritable(t) ==
    LET r == my[t].ask.role
        rows == roles[my[t].target]
    IN  \/ r \in {None, my[t].held}
        \/ r \notin rows /\ (my[t].held = None \/ my[t].held \in rows)

RolesWritten(t) ==
    LET r == my[t].ask.role
        rows == roles[my[t].target]
    IN  IF r \in {None, my[t].held} THEN rows ELSE (rows \ {my[t].held}) \cup {r}

\* db.query(UserRole).filter(...).first()
FirstRole(u) == IF roles[u] = {} THEN {None} ELSE roles[u]

\* create_local_user
CreateUser(t, u, r) ==
    /\ pc[t] = "admitted" /\ "user:manage" \in my[t].grants
    /\ u \in LocalUsers /\ ~created[u]
    /\ created' = [created EXCEPT ![u] = TRUE]
    /\ active' = [active EXCEPT ![u] = TRUE]
    /\ roles' = [roles EXCEPT ![u] = {r}]
    /\ my' = [my EXCEPT ![t].target = u]
    /\ Goto(t, "logCreateUser")
    /\ UNCHANGED <<session, token, logged, clock, book>>

LogCreateUser(t) == pc[t] = "logCreateUser" /\ Log(t, "user.create", my[t].target)

\* update_user reads the user and the role.  The password of a SAML user is
\* refused, but only after the commit that a deactivation makes of its own.
\* The actor's own row is the one its request has read, and found active.
FindUser(t, u, body) ==
    /\ pc[t] = "admitted" /\ "user:manage" \in my[t].grants
    /\ created[u]
    /\ body.active = "false" => u # my[t].who
    /\ body.active # "false" => u \in LocalUsers \/ ~body.password
    /\ \E r \in FirstRole(u) :
         my' = [my EXCEPT ![t].target = u, ![t].ask = body, ![t].held = r,
                          ![t].was = active[u] \/ u = my[t].who]
    /\ Goto(t, IF body.active = "false" THEN "deactivate" ELSE "update")
    /\ UNCHANGED <<tables, logged, clock, book>>

\* Nothing in the code keeps the user from signing in at this very moment: the model
\* notes who does.
NoteLogins(t) ==
    crossed' = crossed \cup {u \in {my[t].target} :
                               \E o \in Threads : pc[o] = "newSession" /\ my[o].who = u}

\* Mutant: the sessions are left to their deadlines.
DeactivateOnly(t) ==
    /\ pc[t] = "deactivate" /\ RoleWritable(t)
    /\ roles' = [roles EXCEPT ![my[t].target] = RolesWritten(t)]
    /\ active' = [active EXCEPT ![my[t].target] = IF my[t].was THEN FALSE ELSE @]
    /\ NoteLogins(t)
    /\ Goto(t, "logUpdate")
    /\ UNCHANGED <<created, session, token, logged, clock, my, refused, begun, faults>>

\* revoke_all_sessions_for_user commits the revocations, is_active and the role.
Deactivate(t) ==
    /\ pc[t] = "deactivate" /\ RoleWritable(t)
    /\ roles' = [roles EXCEPT ![my[t].target] = RolesWritten(t)]
    /\ active' = [active EXCEPT ![my[t].target] = IF my[t].was THEN FALSE ELSE @]
    /\ session' = [s \in Sessions |->
                     IF session[s] # None /\ session[s].user = my[t].target THEN Revoke(s) ELSE session[s]]
    /\ NoteLogins(t)
    /\ Goto(t, "logUpdate")
    /\ UNCHANGED <<created, token, logged, clock, my, refused, begun, faults>>

Update(t) ==
    /\ pc[t] = "update" /\ RoleWritable(t)
    /\ roles' = [roles EXCEPT ![my[t].target] = RolesWritten(t)]
    /\ active' = [active EXCEPT ![my[t].target] =
                    IF my[t].ask.active = "true" /\ ~my[t].was THEN TRUE ELSE @]
    /\ Goto(t, "logUpdate")
    /\ UNCHANGED <<created, session, token, logged, clock, my, book>>

\* Mutant: the password of any user is refused.
RefuseAnyPassword(t) ==
    /\ pc[t] = "logUpdate"
    /\ my[t].ask.password
    /\ refused' = refused \cup {my[t].target}
    /\ Finish({t})
    /\ UNCHANGED <<tables, logged, clock, crossed, begun, faults>>

\* not_a_local_user: the model notes whose.
RefusePassword(t) ==
    /\ pc[t] = "logUpdate"
    /\ my[t].ask.password /\ my[t].target \notin LocalUsers
    /\ refused' = refused \cup {my[t].target}
    /\ Finish({t})
    /\ UNCHANGED <<tables, logged, clock, crossed, begun, faults>>

LogUpdate(t) ==
    /\ pc[t] = "logUpdate"
    /\ my[t].target \in LocalUsers \/ ~my[t].ask.password
    /\ Log(t, "user.update", my[t].target)

\* sync_saml_user: _find_or_create_saml_user, and the role if there is a user.
FindSamlUser(t, u, r) ==
    /\ u \notin LocalUsers
    /\ \E old \in FirstRole(u) :
         my' = [my EXCEPT ![t].inLoop = TRUE, ![t].who = u, ![t].target = u,
                          ![t].ask.role = r, ![t].held = old]
    /\ BeginAt(t, IF created[u] THEN "samlUpdate" ELSE "samlInsert")

SamlInsert(t) ==
    /\ pc[t] = "samlInsert"
    /\ created' = [created EXCEPT ![my[t].who] = TRUE]
    /\ active' = [active EXCEPT ![my[t].who] = TRUE]
    /\ roles' = [roles EXCEPT ![my[t].who] = {my[t].ask.role}]
    /\ Goto(t, "newSession")
    /\ UNCHANGED <<session, token, logged, clock, my, book>>

\* is_active is not looked at.
SamlUpdate(t) ==
    /\ pc[t] = "samlUpdate" /\ RoleWritable(t)
    /\ roles' = [roles EXCEPT ![my[t].who] = RolesWritten(t)]
    /\ Goto(t, "newSession")
    /\ UNCHANGED <<created, active, session, token, logged, clock, my, book>>

\* A statement that cannot be executed: 500, and nothing is committed.  An email
\* address that another user has is met in all five attempts to insert.
Conflict(t) ==
    /\ \/ pc[t] = "samlInsert"
       \/ pc[t] \in {"deactivate", "update", "samlUpdate"} /\ ~RoleWritable(t)
    /\ Finish({t})
    /\ UNCHANGED <<tables, logged, clock, book>>
-----------------------------------------------------------------------------
\* Threads that are about to commit.
Committing(t) ==
    pc[t] \in {"newSession", "logLogin", "refresh", "logCreateToken", "revokeToken",
               "logRevokeToken", "logCreateUser", "deactivate", "update", "logUpdate",
               "samlInsert", "samlUpdate"}

\* A commit raises ("database is locked"): the request ends with status 500.
CommitFails(t) ==
    /\ Committing(t)
    /\ faults < MaxFaults
    /\ faults' = faults + 1
    /\ Finish({t})
    /\ UNCHANGED <<tables, logged, clock, crossed, refused, begun>>

\* The process exits and is started again.
Restart ==
    /\ faults < MaxFaults
    /\ faults' = faults + 1
    /\ Finish(Threads)
    /\ UNCHANGED <<tables, logged, clock, crossed, refused, begun>>

Tick ==
    /\ clock < MaxTime
    /\ clock' = clock + 1
    /\ UNCHANGED <<tables, logged, pc, my, book>>

Begin(t) ==
    \/ \E u \in Users : LocalLogin(t, u)
    \/ \E u \in Users, r \in Roles : FindSamlUser(t, u, r)
    \/ \E s \in Sessions : LookUp(t, s)
    \/ \E k \in Tokens : LookUpToken(t, k)

Admit(t) ==
    \/ \E s \in Sessions : CreateSession(t, s)
    \/ LogLogin(t)
    \/ CheckDeadlines(t)
    \/ Refresh(t)
    \/ LoadUser(t)
    \/ LoadContext(t)
    \/ EndRequest(t)

Manage(t) ==
    \/ \E k \in Tokens : CreateToken(t, k) \/ FindToken(t, k)
    \/ LogCreateToken(t) \/ RevokeToken(t) \/ LogRevokeToken(t)
    \/ \E u \in Users, r \in Roles : CreateUser(t, u, r)
    \/ \E u \in Users, body \in Bodies : FindUser(t, u, body)
    \/ LogCreateUser(t) \/ Deactivate(t) \/ Update(t) \/ RefusePassword(t) \/ LogUpdate(t)
    \/ SamlInsert(t) \/ SamlUpdate(t) \/ Conflict(t)

Next ==
    \/ \E t \in Threads : Begin(t) \/ Admit(t) \/ Manage(t) \/ CommitFails(t)
    \/ \E s \in Sessions : Logout(s)
    \/ Tick
    \/ Restart

Spec == Init /\ [][Next]_vars
-----------------------------------------------------------------------------
(* Properties *)

SessionRows ==
    [user : Users, created : Nat, seen : Nat, expires : Nat, revoked : BOOLEAN]
TokenRows == [user : Users, revoked : BOOLEAN]
PassRows == [holder : Users, since : Nat, until : Nat, over : BOOLEAN]
ASSUME NoneIsNoRow == None \notin SessionRows \cup TokenRows \cup PassRows
Asks == [role : Roles \cup {None}, active : {"same", "true", "false"}, password : BOOLEAN]
Reads ==
    [inLoop : BOOLEAN, who : Users \cup {None}, grants : SUBSET AllPermissions, sess : Sessions \cup {None},
     deadline : Nat, now : Nat, target : Users \cup Tokens \cup {None}, ask : Asks,
     held : Roles \cup {None}, was : BOOLEAN]
Steps == {"idle", "newSession", "logLogin", "checkDeadlines", "refresh", "loadUser",
          "loadContext", "admitted", "logCreateToken", "revokeToken", "logRevokeToken",
          "logCreateUser", "deactivate", "update", "logUpdate", "samlInsert", "samlUpdate"}

\* The type invariant; a thread that has read or written a row knows which.
TypeOK ==
    /\ created \in [Users -> BOOLEAN] /\ active \in [Users -> BOOLEAN]
    /\ roles \in [Users -> SUBSET Roles]
    /\ session \in [Sessions -> SessionRows \cup {None}]
    /\ token \in [Tokens -> TokenRows \cup {None}]
    /\ crossed \in SUBSET Users /\ refused \in SUBSET Users
    /\ clock \in Nat /\ begun \in Nat /\ faults \in Nat
    /\ pc \in [Threads -> Steps]
    /\ my \in [Threads -> Reads]
    /\ \A t \in Threads :
         /\ pc[t] \in {"newSession", "logLogin", "loadContext", "admitted"} => my[t].who # None
         /\ pc[t] \in {"checkDeadlines", "refresh", "loadUser"} =>
              my[t].sess # None /\ session[my[t].sess] # None
         /\ pc[t] \in {"logCreateToken", "revokeToken", "logRevokeToken"} =>
              my[t].target \in Tokens /\ token[my[t].target] # None
         /\ pc[t] \in {"logCreateUser", "deactivate", "update", "logUpdate"} =>
              my[t].target \in Users
         /\ pc[t] \in {"samlInsert", "samlUpdate"} =>
              my[t].target \in Users /\ my[t].target = my[t].who /\ my[t].ask.role # None

\* A user has exactly one role, the rule that "first()" relies on, although the
\* table admits several and a missing row is inserted wherever it is missed:
\* no overlap of changes and SAML logins leaves two roles or none.
OneRoleEach ==
    \A u \in Users : IF created[u] THEN \E r \in Roles : roles[u] = {r} ELSE roles[u] = {}

\* A step that deactivates a user revokes every session there is of that user,
\* and a revoked session stays revoked: a request that had read it before, and
\* extends it afterwards, does not bring it back, nor does a reactivation.
DeactivationEndsSessions ==
    [][\A s \in Sessions :
         /\ session[s] # None
         /\ \/ session[s].revoked
            \/ active[session[s].user] /\ ~active'[session[s].user]
         => session'[s].revoked]_vars

\* However requests on one session overlap, it was last seen before its absolute
\* deadline, its next deadline is at most Idle after that, and once it has been
\* used also within the absolute one.
WithinDeadlines ==
    \A s \in Sessions :
      session[s] # None =>
        LET end == session[s].created + Absolute
        IN  /\ session[s].expires <= session[s].seen + Idle
            /\ session[s].seen # session[s].created =>
                 session[s].seen < end /\ session[s].expires <= end

\* A session whose deadline has come, and that no request has found valid before: one
\* that has passed the check is about to extend it, one that has read a later deadline
\* may pass it yet.
Over(s) ==
    /\ session[s] # None /\ session[s].expires <= clock
    /\ \A t \in Threads : my[t].sess = s =>
         /\ pc[t] # "refresh"
         /\ pc[t] = "checkDeadlines" => my[t].deadline <= clock

\* The deadlines hold, and a session that is over, from the very deadline on, stays so:
\* no request on it gets past the check, and none of those that overlap moves its window.
DeadlinesKept ==
    [][ /\ WithinDeadlines'
        /\ \A s \in Sessions :
             Over(s) => Over(s)' /\ session'[s].seen = session[s].seen ]_vars

\* The entry is written, or a thread is about to write it.
Logged(action, x, step) ==
    <<action, x>> \in logged \/ \E t \in Threads : pc[t] = step /\ my[t].target = x

\* With no fault, the audit log explains every session, token, local user and revoked
\* token there is, and every inactive user but a SAML one whose new password was
\* refused: update_user does that after it has committed the deactivation.
ChangesLogged ==
    faults = 0 =>
      /\ \A s \in Sessions :
           session[s] # None =>
             \/ <<"auth.login", session[s].user>> \in logged
             \/ \E t \in Threads : pc[t] = "logLogin" /\ my[t].who = session[s].user
      /\ \A k \in Tokens :
           /\ token[k] # None => Logged("token.create", k, "logCreateToken")
           /\ token[k] # None /\ token[k].revoked => Logged("token.revoke", k, "logRevokeToken")
      /\ \A u \in LocalUsers :
           created[u] /\ u # Admin => Logged("user.create", u, "logCreateUser")
      /\ \A u \in Users :
           created[u] /\ ~active[u] =>
             u \in refused \ LocalUsers \/ Logged("user.update", u, "logUpdate")

\* A local user who is not active has no valid session left to come back to when
\* reactivated, but for one who was signing in when the deactivation came.  (A SAML
\* login does not look at is_active.)
InactiveSignedOut ==
    \A s \in Sessions :
      session[s] # None /\ session[s].user \in LocalUsers \ crossed /\ ~active[session[s].user] =>
        session[s].revoked

\* What the tables say of users and of sessions, without the row's columns.
Standing ==
    [u \in Users |-> IF ~created[u] THEN "absent" ELSE IF active[u] THEN "active" ELSE "suspended"]
PassOf(row) ==
    IF row = None THEN None
    ELSE [holder |-> row.user, since |-> row.created,
          until |-> IF row.revoked THEN 0 ELSE row.expires, over |-> row.revoked]
Passes == [s \in Sessions |-> PassOf(session[s])]

\* Requests, however they overlap, do no more to users, sessions and tokens than the
\* abstract promise: a session that is over stays over whatever is written to its row.
SignOnPromise == INSTANCE SignOn WITH
    Founder <- Admin, Passes <- Sessions, Badges <- Tokens,
    standing <- Standing, role <- roles, pass <- Passes, badge <- token, now <- clock
KeepsSignOnPromise == SignOnPromise!Spec
=============================================================================
