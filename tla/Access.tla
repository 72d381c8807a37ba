------------------------------- MODULE Access -------------------------------
(***************************************************************************)
(* What a Breakglass promises, without the machinery that keeps it: no     *)
(* conditions, conflicts, caches, queue or retries.  Access is a set of    *)
(* grants; one operation at a time adds to it or takes from it, any        *)
(* operation may be broken off, and time and people come in between.       *)
(* Of Schedule only the vocabulary of specs and times is used.  Refinement *)
(* maps the controller to this specification.                              *)
(***************************************************************************)
EXTENDS Schedule

CONSTANTS
    InitSpecs,  \* the specs a request may be created with
    Resources   \* the RBAC objects access consists of

VARIABLES
    now,
    request,   \* spec, and what people and the API server do with it
    grants,    \* the RBAC objects that exist
    recorded,  \* those the status names as created
    count,     \* activations
    over,      \* is the request finished for good?
    op         \* the operation in progress

vars == <<now, request, grants, recorded, count, over, op>>

Init ==
    /\ now = 0
    /\ \E spec \in InitSpecs :
          request = [spec |-> spec, approved |-> FALSE, deleting |-> FALSE,
                     exists |-> TRUE]
    /\ grants = {} /\ recorded = {} /\ count = 0 /\ over = FALSE /\ op = "none"

-----------------------------------------------------------------------------
Cleared == request.spec.approval = "required" => request.approved

InWindow(t) ==
    \E w \in Ticks \cup {request.spec.start} :
        /\ request.spec.cron = "none" => w = request.spec.start
        /\ request.spec.start <= t /\ w <= t /\ t <= w + request.spec.duration

\* A request with one activation only may be late for it.
MayGrant ==
    /\ Cleared /\ ~over
    /\ request.spec.start # NoTime /\ request.spec.start <= now
    /\ request.spec.cron # "none" => InWindow(now)

MayRevoke ==
    \/ request.deleting
    \/ request.spec.duration > 0 /\ ~InWindow(now)

\* The next activation is within the limit.
BelowLimit ==
    /\ request.spec.max # NoMax => count < request.spec.max
    /\ request.spec.cron = "none" => count = 0

-----------------------------------------------------------------------------
StartGrant ==
    /\ op = "none" /\ MayGrant
    /\ op' = "grant"
    /\ UNCHANGED <<now, request, grants, recorded, count, over>>

Grant(r) ==
    /\ op = "grant"
    /\ grants' = grants \cup {r}
    /\ op' \in {"grant", "none"}
    /\ UNCHANGED <<now, request, recorded, count, over>>

Record ==
    /\ op = "grant" /\ grants = Resources
    /\ recorded' = Resources
    /\ op' \in {"grant", "none"}
    /\ UNCHANGED <<now, request, grants, count, over>>

\* Access is complete, and about to be counted.
Granted ==
    /\ op = "grant" /\ recorded = Resources
    /\ op' = "commit"
    /\ UNCHANGED <<now, request, grants, recorded, count, over>>

Commit ==
    /\ op = "commit" /\ BelowLimit
    /\ ~request.deleting => grants = Resources
    /\ count' = count + 1
    /\ op' = "none"
    /\ UNCHANGED <<now, request, grants, recorded, over>>

StartRevoke ==
    /\ op = "none" /\ MayRevoke
    /\ op' = "revoke"
    /\ UNCHANGED <<now, request, grants, recorded, count, over>>

Revoke(r) ==
    /\ op = "revoke"
    /\ grants' = grants \ {r}
    /\ op' \in {"revoke", "none"}
    /\ UNCHANGED <<now, request, recorded, count, over>>

\* An operation ends, finished or not.
Stop ==
    /\ op' = "none"
    /\ UNCHANGED <<now, request, grants, recorded, count, over>>

Finish ==
    /\ op = "none" /\ grants = {} /\ count > 0
    /\ over' = TRUE
    /\ UNCHANGED <<now, request, grants, recorded, count, op>>

-----------------------------------------------------------------------------
\* People and the API server change the request: it is approved, its start is
\* filled in, it is marked for deletion, and it goes when access is gone.
Approve ==
    /\ request.exists
    /\ request' = [request EXCEPT !.approved = TRUE]
    /\ UNCHANGED <<now, grants, recorded, count, over, op>>

SetStart ==
    /\ request.spec.start = NoTime /\ grants = {}
    /\ \E t \in 0 .. now : request' = [request EXCEPT !.spec.start = t]
    /\ UNCHANGED <<now, grants, recorded, count, over, op>>

MarkDeleted ==
    /\ request' = [request EXCEPT !.deleting = TRUE]
    /\ UNCHANGED <<now, grants, recorded, count, over, op>>

Go ==
    /\ grants = {}
    /\ request' = [request EXCEPT !.deleting = TRUE, !.exists = FALSE]
    /\ UNCHANGED <<now, grants, recorded, count, over, op>>

Tick ==
    /\ now' = now + 1
    /\ UNCHANGED <<request, grants, recorded, count, over, op>>

Next ==
    \/ StartGrant \/ (\E r \in Resources : Grant(r)) \/ Record \/ Granted \/ Commit
    \/ StartRevoke \/ (\E r \in Resources : Revoke(r)) \/ Stop \/ Finish
    \/ Approve \/ SetStart \/ MarkDeleted \/ Go \/ Tick

Spec == Init /\ [][Next]_vars

-----------------------------------------------------------------------------
\* There is access only for a cleared request whose start has come, none once
\* the request is finished, and never an activation too many.
Safe ==
    /\ grants # {} => Cleared /\ request.spec.start # NoTime
    /\ grants # {} => request.spec.start <= now
    /\ over => grants = {}
    /\ request.spec.max # NoMax => count <= request.spec.max
    /\ request.spec.cron = "none" => count <= 1
=============================================================================
