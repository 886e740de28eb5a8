------------------------------- MODULE Access -------------------------------
(***************************************************************************)
(* Roles and permissions of the service.  A request carries the role its   *)
(* JWT claims; each route asks for one permission before its handler runs. *)
(***************************************************************************)

Roles == {"admin", "process_engineer", "safety_reviewer", "auditor"}

Permissions == {"read", "node:write", "scenario:write", "scenario:review",
                "safeguard:write", "evaluation:run", "evaluation:confirm"}

rolePermissions ==
  [admin            |-> Permissions,
   process_engineer |-> {"read", "node:write", "scenario:write",
                         "safeguard:write", "evaluation:run"},
   safety_reviewer  |-> {"read", "scenario:review", "safeguard:write",
                         "evaluation:run", "evaluation:confirm"},
   auditor          |-> {"read"}]

HasPermission(role, permission) ==
  role \in Roles /\ permission \in rolePermissions[role]

=============================================================================
