---------------------------- MODULE MCListUsers ----------------------------
EXTENDS ListUsers, TLC

CONSTANTS u1, u2, u3, u4, c1, c2, c3

MCUsers == {u1, u2, u3, u4}

\* c1 and c2 are admins, c3 a plain user.
MCClientRole == (c1 :> "super_admin") @@ (c2 :> "admin") @@ (c3 :> "user")

\* users_table: the usernames sort u1 < u2 < u3 < u4; u1 is the super
\* admin, u2 an admin, u3 and u4 are users; u4 is inactive.
MCKey ==
  [f \in {"username", "role", "is_active"} |->
     CASE f = "username" -> (u1 :> 1) @@ (u2 :> 2) @@ (u3 :> 3) @@ (u4 :> 4)
       [] f = "role" -> (u1 :> 3) @@ (u2 :> 2) @@ (u3 :> 1) @@ (u4 :> 1)
       [] f = "is_active" -> (u1 :> 1) @@ (u2 :> 1) @@ (u3 :> 1) @@ (u4 :> 0)]

MCColumns == {"id", "username", "password_hash", "role", "is_active"}
====
