----------------------------- MODULE RolePolicy -----------------------------
(***************************************************************************)
(* The role policy the commands and queries authorize against: UserRole    *)
(* and the permissions CanManageRole and CanManageSubordinate of           *)
(* application/common/services/authorization.  These files are not in the  *)
(* repository; the definitions follow the behaviour the interactors'       *)
(* docstrings describe (super admin above admin above user; the super      *)
(* admin's role is fixed).                                                 *)
(***************************************************************************)
EXTENDS Naturals

Roles == {"super_admin", "admin", "user"}

Rank(x) == CASE x = "super_admin" -> 3 [] x = "admin" -> 2 [] x = "user" -> 1

\* UserRole.is_changeable / is_assignable: only the super admin's role is fixed
IsChangeable(x) == x # "super_admin"

\* CanManageRole: the subject ranks above the role it manages
CanManageRole(subject, targetRole) == Rank(subject) > Rank(targetRole)

\* CanManageSubordinate: the subject ranks above the target user
CanManageSubordinate(subject, target) == Rank(subject) > Rank(target)
====
