--------------------------- MODULE RbacResources ---------------------------
(***************************************************************************)
(* The RBAC objects one Breakglass owns, as internal/operator/rbac names   *)
(* and orders them.  A resource is its position in the order of creation:  *)
(* first one ClusterRoleBinding per cluster role, then a Role and a        *)
(* RoleBinding per policy.                                                 *)
(***************************************************************************)
EXTENDS Integers

CONSTANTS NClusterRoles, NPolicies

ASSUME ResourcesAssumption == NClusterRoles \in Nat /\ NPolicies \in Nat

Resources == 1 .. (NClusterRoles + 2 * NPolicies)

Kinds == {"RoleBinding", "Role", "ClusterRoleBinding"}

Kind(r) ==
    IF r <= NClusterRoles THEN "ClusterRoleBinding"
    ELSE IF (r - NClusterRoles) % 2 = 1 THEN "Role" ELSE "RoleBinding"

\* The other half of the Role / RoleBinding pair of a policy.
Partner(r) == IF Kind(r) = "Role" THEN r + 1 ELSE r - 1

\* Mutant: the loop over the policies runs once too often.
ToCreateOffByOne(created) ==
    {r \in 1 .. (NClusterRoles + 2 * NPolicies + 1) : r \notin created}

\* What GrantAccess creates, given status.createdResources: a
\* ClusterRoleBinding unless it is recorded, a policy's pair unless both
\* halves are.
ToCreate(created) ==
    {r \in Resources :
        \/ r \notin created
        \/ Kind(r) # "ClusterRoleBinding" /\ Partner(r) \notin created}

\* Mutant: the Roles are forgotten.
NextKindSkipsRoles(kind) == "ClusterRoleBinding"

\* CleanupResources deletes RoleBindings, then Roles, then
\* ClusterRoleBindings.
FirstKind == "RoleBinding"
LastKind  == "ClusterRoleBinding"
NextKind(kind) == IF kind = "RoleBinding" THEN "Role" ELSE "ClusterRoleBinding"

\* The resources of one kind the label selector finds among those in view.
ListKind(view, kind) == {r \in view : Kind(r) = kind}
=============================================================================
