----------------------------- MODULE AuthService -----------------------------
(***************************************************************************)
(* The auth service: the registered users, and which consumers,            *)
(* restaurants and couriers each of them has been granted.  A token is     *)
(* issued to a registered user and names that user; users and grants are   *)
(* never taken away.  Passphrases, hashes and the expiry of tokens are     *)
(* left out.                                                               *)
(***************************************************************************)
CONSTANT Users

VARIABLES
    users,    \* the users table
    grants    \* <<user, entity>>, the three grant tables in one

authVars == <<users, grants>>

AuthInit ==
    /\ users = {}
    /\ grants = {}

\* The user and its credential are one transaction; a username is unique.
CreateUser(u) ==
    /\ u \notin users
    /\ users' = users \cup {u}
    /\ UNCHANGED grants

\* issue_token gives tokens to users only, get_token_info decodes them.
HasToken(u) == u \in users

\* get_user.
GrantsOf(u) == {g[2] : g \in {h \in grants : h[1] = u}}

\* The three grant calls: a plain insert, (user, entity) is the primary key.
Grant(u, e) ==
    /\ u \in users
    /\ <<u, e>> \notin grants
    /\ grants' = grants \cup {<<u, e>>}
    /\ UNCHANGED users
=============================================================================
