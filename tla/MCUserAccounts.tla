--------------------------- MODULE MCUserAccounts ---------------------------
(* A super admin, an admin and a plain user.  The admin may deactivate or  *)
(* activate the user, the super admin may grant the user admin rights, and *)
(* the user may change their password or log in: every pair of these can   *)
(* race on the user's row or sessions with three requests.  The admin may *)
(* also activate an id that no account has.                                *)
EXTENDS UserAccounts, TLC

CONSTANTS root, adm, usr  \* the three accounts, as model values
CONSTANT ghost            \* a user id with no row in the users table

MCInitRole == (root :> "super_admin") @@ (adm :> "admin") @@ (usr :> "user")

\* Every account active, or the user deactivated before the requests arrive
MCAllActive == [u \in {root, adm, usr} |-> TRUE]
MCUserInactive == (usr :> FALSE) @@ MCAllActive

MCCommands ==
  { [kind |-> "deactivate", actor |-> adm, target |-> usr],
    [kind |-> "activate", actor |-> adm, target |-> usr],
    [kind |-> "activate", actor |-> adm, target |-> ghost],
    [kind |-> "grantAdmin", actor |-> root, target |-> usr],
    [kind |-> "changePassword", actor |-> usr, target |-> usr],
    [kind |-> "logIn", actor |-> usr, target |-> usr] }
=============================================================================
