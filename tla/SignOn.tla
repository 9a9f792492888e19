------------------------------- MODULE SignOn -------------------------------
(***************************************************************************)
(* What the accounts promise, without the requests that overlap in them.   *)
(* Every user has one role from registration on.  A pass belongs to one    *)
(* user for good, a use extends it by Idle at most and never beyond        *)
(* Absolute after its beginning, and once over it stays over; whoever      *)
(* suspends a user ends, in the same step, all the passes the user has.  A *)
(* badge is issued once and withdrawn once.                                *)
(***************************************************************************)
EXTENDS Naturals

CONSTANTS Users, Founder, Roles,
          Passes, Badges,  \* sessions and API tokens
          None, Idle, Absolute

VARIABLES standing,  \* "absent", "active" or "suspended"
          role,      \* the set of the user's roles
          pass, badge, now

vars == <<standing, role, pass, badge, now>>

Init ==
    /\ standing = [u \in Users |-> IF u = Founder THEN "active" ELSE "absent"]
    /\ role = [u \in Users |-> IF u = Founder THEN {"admin"} ELSE {}]
    /\ pass = [p \in Passes |-> None]
    /\ badge \in [Badges -> {None, [user |-> Founder, revoked |-> FALSE]}]
    /\ now = 0

Register(u, r) ==
    /\ standing[u] = "absent"
    /\ standing' = [standing EXCEPT ![u] = "active"]
    /\ role' = [role EXCEPT ![u] = {r}]
    /\ UNCHANGED <<pass, badge, now>>

\* A user is given a role, and may be taken back.
Amend(u, r) ==
    /\ standing[u] # "absent"
    /\ standing' \in {standing, [standing EXCEPT ![u] = "active"]}
    /\ role' = [role EXCEPT ![u] = {r}]
    /\ UNCHANGED <<pass, badge, now>>

Over(p) == [holder |-> pass[p].holder, since |-> pass[p].since, until |-> 0, over |-> TRUE]

\* A user is signed out everywhere, and may be suspended.
Expel(u, r) ==
    /\ standing[u] # "absent"
    /\ standing' \in {standing, [standing EXCEPT ![u] = "suspended"]}
    /\ role' = [role EXCEPT ![u] = {r}]
    /\ pass' = [p \in Passes |->
                  IF pass[p] # None /\ pass[p].holder = u THEN Over(p) ELSE pass[p]]
    /\ UNCHANGED <<badge, now>>

Open(p, u) ==
    /\ pass[p] = None /\ standing[u] # "absent"
    /\ pass' = [pass EXCEPT ![p] = [holder |-> u, since |-> now, until |-> now + Idle, over |-> FALSE]]
    /\ UNCHANGED <<standing, role, badge, now>>

Use(p) ==
    /\ pass[p] # None /\ ~pass[p].over
    /\ \E end \in 0 .. now + Idle :
         /\ end <= pass[p].since + Absolute
         /\ pass' = [pass EXCEPT ![p].until = end]
    /\ UNCHANGED <<standing, role, badge, now>>

Close(p) ==
    /\ pass[p] # None /\ ~pass[p].over
    /\ pass' = [pass EXCEPT ![p] = Over(p)]
    /\ UNCHANGED <<standing, role, badge, now>>

Issue(b, u) ==
    /\ badge[b] = None /\ standing[u] # "absent"
    /\ badge' = [badge EXCEPT ![b] = [user |-> u, revoked |-> FALSE]]
    /\ UNCHANGED <<standing, role, pass, now>>

Withdraw(b) ==
    /\ badge[b] # None /\ ~badge[b].revoked
    /\ badge' = [badge EXCEPT ![b].revoked = TRUE]
    /\ UNCHANGED <<standing, role, pass, now>>

Elapse == now' = now + 1 /\ UNCHANGED <<standing, role, pass, badge>>

Next ==
    \/ \E u \in Users, r \in Roles : Register(u, r) \/ Amend(u, r) \/ Expel(u, r)
    \/ \E u \in Users, p \in Passes : Open(p, u)
    \/ \E p \in Passes : Use(p) \/ Close(p)
    \/ \E u \in Users, b \in Badges : Issue(b, u)
    \/ \E b \in Badges : Withdraw(b)
    \/ Elapse

Spec == Init /\ [][Next]_vars
=============================================================================
