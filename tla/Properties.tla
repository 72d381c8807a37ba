----------------------------- MODULE Properties -----------------------------
(***************************************************************************)
(* What the Breakglass controller promises.  "Access" is rbac # {}: some   *)
(* RBAC object created for the Breakglass exists in the API server.        *)
(***************************************************************************)
EXTENDS Reconciler

Access == rbac # {}

Finite == obj.spec.duration > 0

\* The conditions that do not vouch for an approval: from them no handler
\* grants or revokes before it has looked for one.  The handlers of the other
\* three take it for given (recurring_pending.go, recurring_active.go).
Unprivileged ==
    ConditionTypes \ {"Active", "RecurringActive", "RecurringPending"}

\* Nobody patches in another one.
Guarded == "patch" \in UserOps => Patched \subseteq Unprivileged

-----------------------------------------------------------------------------
(* Invariants.                                                             *)

\* Every variable has its type: in particular the working copy of a reconcile
\* and the informer's copy are well-formed Breakglass records.
TypeOK == ClusterTypeOK /\ LocalTypeOK

\* A request that requires approval has no RBAC object before a person is
\* recorded in status.approvedBy, whatever stale copy a reconcile granted
\* from and whatever Unprivileged condition someone patched in, the Approved of
\* the documentation included (the checks of pending.go and approved.go).
ApprovalGate ==
    obj.spec.approval = "required" /\ Access => obj.status.approvedBy = "human"

\* No access before spec.schedule.start, given or defaulted (ShouldActivate
\* and calculateNextActivation), even when a firing before it left its window
\* open.
NotBeforeStart ==
    Access => obj.spec.start # NoTime /\ obj.spec.start <= now

\* The recorded activations never exceed maxActivations, and a schedule
\* without cron is activated at most once (checkActivationLimits,
\* OnActivationGranted), across retries, crashes and re-approvals.
CountWithinLimit ==
    /\ obj.spec.max # NoMax => obj.status.count <= obj.spec.max
    /\ obj.spec.cron = "none" => obj.status.count <= 1

\* The terminal Expired condition, on which the controller never acts again,
\* is only reached once every RBAC object is gone (RevokeAndExpire).
ExpiredIsRevoked ==
    CurrentCondition(obj) = "Expired" => ~Access

\* When an active Breakglass has been deleted, no access is left behind.
DeletedActiveIsRevoked ==
    ~obj.exists /\ CurrentCondition(obj) = "RecurringActive" => ~Access

-----------------------------------------------------------------------------
(* Why the approval gate holds: an inductive invariant.                    *)

Approved(x) == x.status.approvedBy = "human"

\* x needs no approval, or has it.
Cleared(x) == x.spec.approval = "required" => Approved(x)

\* What is not cleared has not been beyond the check for an approval.
Waits(x) ==
    \/ Cleared(x)
    \/ /\ x.status.approvedBy = ""
       /\ \A i \in DOMAIN x.status.conds : x.status.conds[i] \in Unprivileged

\* The reconcile is past the checks for an approval.
Granting ==
    \/ pc \in {"create", "record", "activate"}
    \/ pc \in {"list", "delete"} /\ caller = "expire"

StoredApproval ==
    /\ cacheFresh => cache = obj
    /\ cache.spec.approval = obj.spec.approval
    /\ Waits(obj) /\ Waits(cache)
    /\ Approved(cache) => Approved(obj)
    /\ Access => Cleared(obj)

WorkingApproval ==
    pc # "idle" =>
        /\ bg.spec.approval = obj.spec.approval
        /\ Waits(bg)
        /\ Approved(bg) => Approved(obj)
        /\ bgFresh /\ Approved(obj) => Approved(bg)
        /\ Granting => Cleared(bg)

\* What is stored, cached and held by a running reconcile agree about the
\* approval: no copy shows one the API server has not got, a copy that may
\* still be written shows the one it has got, and only a cleared request gets
\* beyond the Unprivileged conditions or into GrantAndActivate.
ApprovalInv == StoredApproval /\ WorkingApproval

-----------------------------------------------------------------------------
(* Action properties.                                                      *)

\* A person's approval survives every status write of the controller: a
\* reconcile working on a copy from before the approval cannot erase it.
ApprovalNeverLost ==
    [][obj.status.approvedBy = "human" => obj'.status.approvedBy = "human"]_vars

\* When the status says that an activation took place, all RBAC objects the
\* spec asks for exist (GrantAndActivate after retries and partial grants).
ActivationIsReal ==
    [][obj'.status.count > obj.status.count /\ ~obj'.deleting
        => rbac = Resources]_vars

\* Windows a recurring schedule may be granted in: they open at a firing, or
\* at spec.start.
InWindow(t) ==
    \E w \in Ticks \cup {obj.spec.start} :
        obj.spec.start <= t /\ w <= t /\ t <= w + obj.spec.duration

\* A recurring Breakglass is only granted while one of its windows is open: the
\* schedule kept in status.nextActivationAt may be old, lost or recomputed.
GrantOnSchedule ==
    [][pc = "dispatch" /\ pc' \in {"create", "activate"} /\ obj.spec.cron = "valid"
        => InWindow(now)]_vars

\* The last RBAC object is gone before the finalizer is (cleanupOnDelete).
CleanedUpBeforeGone ==
    [][obj.finalizer /\ ~obj'.exists => ~Access]_vars

\* Once the Breakglass is gone nothing more is created for it.
GoneStaysGone ==
    [][~obj.exists => rbac' \subseteq rbac]_vars

\* How late a revocation may be: a wake-up is at least MinRequeue away, each
\* fault may cost one backoff, and every timer may be one unit late.
Slack == MinRequeue + 1 + faults * (Backoff + 1)

\* With a controller that keeps up, time never passes the end of a window by
\* more than Slack while access is held (the requeue times of
\* GrantAndActivate, RecurringActiveCondition and RevokeAndExpire).  When the
\* spec has been edited, this is promised of access the status records as
\* active: the window is that of the duration now in the spec, and an edit after
\* its end counts as the end.
RevokedInTime ==
    [][(/\ now' > now /\ Access /\ Finite
        /\ patches.count > 0 => CurrentCondition(obj) = "RecurringActive") =>
        \E w \in Ticks \cup {obj.spec.start} :
            /\ obj.spec.cron = "none" => w = obj.spec.start
            /\ w <= now'
            /\ \E end \in {w + obj.spec.duration, patches.edited} :
                  now' <= end + Slack]_vars

-----------------------------------------------------------------------------
(* Liveness.                                                               *)

\* Access of finite duration ends, whatever faults hit the grant or the
\* revocation.
AccessEnds == (Access /\ Finite) ~> ~Access

\* An approved request is eventually activated.
ApprovedIsActivated ==
    (obj.status.approvedBy = "human") ~> (obj.status.count > 0)

\* A deleted Breakglass eventually goes away.
DeletionCompletes == obj.deleting ~> ~obj.exists

\* A recurring Breakglass that was revoked is activated again at the next
\* firing (one whose window lies before the horizon).
Reactivated ==
    (/\ obj.status.count = 1 /\ ~Access
     /\ \E t \in Ticks : now < t /\ t + obj.spec.duration <= MaxTime)
        ~> (obj.status.count = 2)
=============================================================================
