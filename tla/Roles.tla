--------------------------------- MODULE Roles ---------------------------------
(***************************************************************************)
(* The role arithmetic both services share: apps/server/api/roles.py and   *)
(* its copy apps/server/sync/roles.py.  Roles are the strings the code     *)
(* uses; NoRole stands for Python's None.                                  *)
(***************************************************************************)
EXTENDS Naturals

NoRole == "none"

\* roles.py: the keys of ROLE_RANK, and the rank of each.
Role == {"viewer", "commenter", "editor", "owner"}

ROLE_RANK == [viewer |-> 1, commenter |-> 2, editor |-> 3, owner |-> 4]

\* ROLE_RANK.get(role, 0), with None at the bottom.
Rank(role) == IF role \in Role THEN ROLE_RANK[role] ELSE 0

has_role(role, minimum) == Rank(role) >= Rank(minimum)

\* rooms.py: the roles whose updates the sync server applies.
WRITE_ROLES == {"editor", "owner"}

\* roles.py: a permission row of a user who is not the owner never grants
\* ownership, whatever string it holds.
PermissionCandidates(permission_role) ==
  IF permission_role = "owner" THEN {"editor"} ELSE {permission_role} \cap Role

LinkCandidates(is_link_shareable, link_share_role) ==
  IF is_link_shareable THEN {link_share_role} \cap (Role \ {"owner"}) ELSE {}

\* The highest-ranked role of a non-empty set, NoRole of the empty one.
Highest(roles) ==
  IF roles = {} THEN NoRole
  ELSE CHOOSE r \in roles : \A s \in roles : Rank(s) <= Rank(r)

compute_role(owner_id, user_id, permission_role, is_link_shareable, link_share_role) ==
  IF owner_id = user_id THEN "owner"
  ELSE Highest(PermissionCandidates(permission_role)
               \cup LinkCandidates(is_link_shareable, link_share_role))

================================================================================
