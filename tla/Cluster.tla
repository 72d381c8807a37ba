------------------------------- MODULE Cluster -------------------------------
(***************************************************************************)
(* What surrounds the controller, modelled from how its code uses it: the  *)
(* Kubernetes API server with one Breakglass object and its RBAC objects,  *)
(* the informer caches the manager's client reads from, the clock, the     *)
(* people who approve, patch and delete, and the ways an API call fails.   *)
(*                                                                         *)
(* resourceVersions are abstracted exactly: cacheFresh and bgFresh say     *)
(* whether the informer's copy, and the copy a running reconcile holds,    *)
(* still carry the version stored in the API server.                       *)
(***************************************************************************)
EXTENDS Schedule, RbacResources, K8sErrors

CONSTANTS
    InitSpecs,   \* the specs a Breakglass may be created with
    MaxTime,     \* the horizon: the clock stops here
    Faults,      \* errors API calls may end in, and "lost" and "crash"
    MaxFaults,   \* how many faults a behaviour may contain
    UserOps,     \* subset of {"approve", "patch", "edit", "delete"}
    Patched,     \* the conditions someone may patch the status to
    Durations,   \* the durations someone may edit the spec to
    MaxPatches,  \* how often someone edits the spec or patches the status
    RbacLag      \* may a List see an RBAC cache that lags behind?

ASSUME InitSpecsAssumption == InitSpecs \subseteq Specs
ASSUME PatchedAssumption == Patched \subseteq ConditionTypes
ASSUME DurationsAssumption == Durations \subseteq Nat
ASSUME MaxTimeAssumption == MaxTime \in Nat
ASSUME BoundsAssumption == MaxFaults \in Nat /\ MaxPatches \in Nat
ASSUME RbacLagAssumption == RbacLag \in BOOLEAN

VARIABLES
    now,         \* the time all clocks show
    obj,         \* the Breakglass stored in the API server
    rbac,        \* the RBAC objects stored in the API server
    cache,       \* the informer's copy of the Breakglass
    cacheFresh,  \* does that copy carry the stored version?
    rbacCache,   \* the informers' view of the RBAC objects
    bgFresh,     \* does the reconcile's copy carry the stored version?
    faults,      \* faults so far
    patches      \* edits and patches so far, and the time of the last edit

clusterVars ==
    <<now, obj, rbac, cache, cacheFresh, rbacCache, bgFresh, faults, patches>>

Breakglasses ==
    [exists : BOOLEAN, deleting : BOOLEAN, finalizer : BOOLEAN,
     spec : Specs, status : Statuses(Resources)]

NewBreakglass(spec) ==
    [exists |-> TRUE, deleting |-> FALSE, finalizer |-> FALSE,
     spec |-> spec, status |-> NewStatus]

ClusterInit ==
    /\ now = 0
    /\ \E spec \in InitSpecs : obj = NewBreakglass(spec)
    /\ cache = obj
    /\ rbac = {} /\ rbacCache = {}
    /\ cacheFresh = TRUE /\ bgFresh = FALSE
    /\ faults = 0 /\ patches = [count |-> 0, edited |-> NoTime]

-----------------------------------------------------------------------------
(* Writes.                                                                 *)

\* new is stored.  Copies keep their version only if nothing changed; own
\* says whether the running reconcile receives the new version.
Store(new, own) ==
    /\ obj' = new
    /\ cacheFresh' = (cacheFresh /\ new = obj)
    /\ bgFresh' = (own \/ (bgFresh /\ new = obj))

Fault == faults < MaxFaults /\ faults' = faults + 1

\* The client's Update of the Breakglass, answered by o: a conflict when the
\* copy is not of the stored version, NotFound when the object is gone, an
\* injected error without effect, or a timeout after the write took effect.
UpdateObj(new, o) ==
    \/ /\ o = "ok" /\ obj.exists /\ bgFresh
       /\ Store(new, TRUE)
       /\ UNCHANGED faults
    \/ /\ o = "conflict" /\ obj.exists /\ ~bgFresh
       /\ UNCHANGED <<obj, cacheFresh, bgFresh, faults>>
    \/ /\ o = "notFound" /\ ~obj.exists
       /\ UNCHANGED <<obj, cacheFresh, bgFresh, faults>>
    \/ /\ o # "ok" /\ o \in Faults /\ Fault
       /\ UNCHANGED <<obj, cacheFresh, bgFresh>>
    \/ /\ o = "timeout" /\ "lost" \in Faults /\ Fault
       /\ obj.exists /\ bgFresh
       /\ Store(new, FALSE)

\* Create or Delete of an RBAC object.  createResourceWithTimeout takes
\* AlreadyExists, deleteResourceWithTimeout NotFound, for a success, so only
\* faults make the call fail.
UpdateRbac(new, o) ==
    \/ o = "ok" /\ rbac' = new /\ UNCHANGED faults
    \/ o # "ok" /\ o \in Faults /\ Fault /\ UNCHANGED rbac
    \/ o = "timeout" /\ "lost" \in Faults /\ Fault /\ rbac' = new

-----------------------------------------------------------------------------
(* People.                                                                 *)

\* Someone fills in status.approvedBy of a request that needs approval.
Approve ==
    /\ "approve" \in UserOps
    /\ obj.exists /\ obj.spec.approval = "required"
    /\ obj.status.approvedBy = ""
    /\ Store([obj EXCEPT !.status.approvedBy = "human"], FALSE)
    /\ UNCHANGED <<now, rbac, cache, rbacCache, faults, patches>>

\* Someone replaces the list of conditions by a single one with a merge patch
\* of the status.  The documented approval does so with Approved.
PatchConditions ==
    /\ "patch" \in UserOps
    /\ obj.exists /\ patches.count < MaxPatches
    /\ patches' = [patches EXCEPT !.count = @ + 1]
    /\ \E c \in Patched : Store([obj EXCEPT !.status.conds = <<c>>], FALSE)
    /\ UNCHANGED <<now, rbac, cache, rbacCache, faults>>

\* Someone edits the spec of a request, before, during or after its windows:
\* the duration changes.
Edit ==
    /\ "edit" \in UserOps
    /\ obj.exists /\ patches.count < MaxPatches
    /\ patches' = [count |-> patches.count + 1, edited |-> now]
    /\ \E d \in Durations :
          d # obj.spec.duration /\ Store([obj EXCEPT !.spec.duration = d], FALSE)
    /\ UNCHANGED <<now, rbac, cache, rbacCache, faults>>

\* kubectl delete: with a finalizer the object is only marked.
Delete ==
    /\ "delete" \in UserOps
    /\ obj.exists /\ ~obj.deleting
    /\ Store(IF obj.finalizer THEN [obj EXCEPT !.deleting = TRUE]
             ELSE [obj EXCEPT !.deleting = TRUE, !.exists = FALSE], FALSE)
    /\ UNCHANGED <<now, rbac, cache, rbacCache, faults, patches>>

User == Approve \/ PatchConditions \/ Edit \/ Delete

-----------------------------------------------------------------------------
(* Informers.                                                              *)

\* The watch delivers the stored Breakglass; the controller adds the event.
DeliverObj ==
    /\ ~cacheFresh
    /\ cache' = obj /\ cacheFresh' = TRUE
    /\ UNCHANGED <<now, obj, rbac, rbacCache, bgFresh, faults, patches>>

\* The RBAC informers catch up; nobody is notified.
DeliverRbac ==
    /\ rbacCache # rbac
    /\ rbacCache' = rbac
    /\ UNCHANGED <<now, obj, rbac, cache, cacheFresh, bgFresh, faults, patches>>

\* Whether a List may be answered now.
ListReady == RbacLag \/ rbacCache = rbac

ClusterTypeOK ==
    /\ now \in 0 .. MaxTime
    /\ obj \in Breakglasses /\ cache \in Breakglasses
    /\ rbac \subseteq Resources /\ rbacCache \subseteq Resources
    /\ cacheFresh \in BOOLEAN /\ bgFresh \in BOOLEAN
    /\ faults \in 0 .. MaxFaults
    /\ patches \in [count : 0 .. MaxPatches, edited : Times]
=============================================================================
