----------------------------- MODULE Refinement -----------------------------
(***************************************************************************)
(* The controller implements Access: everything but the API server's       *)
(* objects and the kind of call the reconcile is at is forgotten.          *)
(***************************************************************************)
EXTENDS Properties

\* Past dispatch, a reconcile is granting until its status update, which
\* commits the activation or, when recording failed, may still record what was
\* created; lists and deletions revoke.
Operation ==
    IF pc \in {"list", "delete"} THEN "revoke"
    ELSE IF pc \in {"create", "record", "activate"} THEN "grant"
    ELSE IF pc = "status" /\ bg.status.count > obj.status.count THEN "commit"
    ELSE IF pc = "status" /\ ~(bg.status.created \subseteq obj.status.created)
    THEN "grant"
    ELSE "none"

Promise == INSTANCE Access WITH
    request  <- [spec     |-> obj.spec,
                 approved |-> obj.status.approvedBy = "human",
                 deleting |-> obj.deleting,
                 exists   |-> obj.exists],
    grants   <- rbac,
    recorded <- obj.status.created,
    count    <- obj.status.count,
    over     <- CurrentCondition(obj) = "Expired",
    op       <- Operation

\* Every behaviour of the controller, with its faults, crashes, conflicts and
\* stale copies, is one Access allows: grants start when the request is
\* cleared and its window open, are complete and recorded before they are
\* counted, are revoked only when the window is over or the request
\* deleted, and a request is finished or gone only without access.
KeepsPromise == Promise!Spec
=============================================================================
