-------------------------- MODULE RolePermissions --------------------------
(***************************************************************************)
(* The role -> permission table of core/rbac/permissions.py, and the same  *)
(* table as a fresh database gets it: seeded by the migration b6169774fd50 *)
(* and completed by 000ca8172725.  The two are written out independently   *)
(* in the source ("frozen snapshot"); the program reads the database.      *)
(***************************************************************************)

Reading == {"cert:read", "ca:read"}
OwnTokens == {"token:read_own", "token:manage_own"}

\* ALL_PERMISSIONS
AllPermissions ==
    Reading \cup OwnTokens \cup
    {"cert:issue", "cert:revoke", "cert:request", "cert:approve", "ca:manage",
     "ca:unlock_root", "ca:lock_root", "user:read", "user:manage", "token:manage_all",
     "settings:read", "settings:manage", "audit:read"}

\* ROLE_PERMISSIONS
RolePermissions ==
    [admin     |-> AllPermissions,
     operator  |-> Reading \cup OwnTokens \cup
                   {"cert:issue", "cert:revoke", "cert:approve", "settings:read"},
     auditor   |-> Reading \cup {"audit:read", "settings:read", "token:read_own"},
     requester |-> {"cert:request"}]

\* Migration b6169774fd50: three roles, and their permissions at that time.
SeededPermissions ==
    Reading \cup OwnTokens \cup
    {"cert:issue", "cert:revoke", "ca:manage", "ca:unlock_root", "ca:lock_root",
     "user:read", "user:manage", "token:manage_all", "settings:read",
     "settings:manage", "audit:read"}

SeededRoles ==
    [admin    |-> SeededPermissions,
     operator |-> Reading \cup OwnTokens \cup {"cert:issue", "cert:revoke", "settings:read"},
     auditor  |-> Reading \cup {"audit:read", "settings:read", "token:read_own"}]

\* Migration 000ca8172725: a role, two permissions, and who gets them.
AddedRows ==
    {<<"requester", "cert:request">>, <<"operator", "cert:approve">>,
     <<"admin", "cert:request">>, <<"admin", "cert:approve">>}

\* role_permissions after both migrations.
MigratedRoles ==
    [r \in DOMAIN SeededRoles \cup {"requester"} |->
       (IF r \in DOMAIN SeededRoles THEN SeededRoles[r] ELSE {})
         \cup {row[2] : row \in {x \in AddedRows : x[1] = r}}]

\* A database built by the migrations holds the table the program documents.
ASSUME SeedsAgree == MigratedRoles = RolePermissions
=============================================================================
