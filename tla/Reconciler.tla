----------------------------- MODULE Reconciler -----------------------------
(***************************************************************************)
(* The Breakglass controller: BreakglassReconciler.Reconcile, the handlers *)
(* it dispatches to, the RBAC operator they call and the work queue that   *)
(* runs them (one worker).  A reconcile is split at every API call, so the *)
(* clock, the users, the informers and a crash may come between two calls; *)
(* what happens between two calls is one step.                             *)
(***************************************************************************)
EXTENDS Cluster

CONSTANTS
    MinRequeue,  \* 30 seconds
    MaxRequeue,  \* one hour
    Backoff,     \* Config.Controller.Backoff, 10 seconds
    Prompt       \* does the clock wait for due work?

ASSUME RequeueAssumption ==
    MinRequeue \in Nat /\ MaxRequeue \in Nat /\ Backoff \in Nat
ASSUME PromptAssumption == Prompt \in BOOLEAN

VARIABLES
    queued,   \* is the object's key in the work queue?
    timer,    \* deadline of the earliest AddAfter, or NoTime
    pc,       \* the API call the running reconcile is about to make
    bg,       \* the *Breakglass the reconcile works on
    todo,     \* resources the loop of GrantAccess or CleanupResources has left
    kind,     \* the kind CleanupResources is at
    caller,   \* who called CleanupResources
    ret,      \* what the handler returns once the status is written ...
    wake      \* ... and the instant a RequeueAfter aims at

recVars   == <<pc, bg, todo, kind, caller, ret, wake>>
queueVars == <<queued, timer>>
vars      == <<clusterVars, recVars, queueVars>>

Results == {"none", "requeue", "error", "after"}
Callers == {"revoke", "cleanup", "expire"}
Calls   == {"idle", "addFinalizer", "list", "delete", "dropFinalizer",
            "dispatch", "create", "record", "activate", "status"}

NoBreakglass ==
    [exists |-> FALSE, deleting |-> FALSE, finalizer |-> FALSE,
     spec |-> [cron |-> "none", start |-> NoTime, duration |-> 0,
               max |-> NoMax, approval |-> "unset"],
     status |-> NewStatus]

Init ==
    /\ ClusterInit
    /\ pc = "idle" /\ bg = NoBreakglass /\ todo = {}
    /\ kind = FirstKind /\ caller = "expire"
    /\ ret = "none" /\ wake = NoTime
    /\ queued = TRUE /\ timer = NoTime

-----------------------------------------------------------------------------
(* The work queue.                                                         *)

\* Clock.Until and, below, Clock.IsExpired of the simple clock.
Until(t) == IF t = NoTime THEN -1 ELSE IF t < now THEN 0 ELSE t - now

\* Mutant: a window ends one unit too soon.
IsExpiredEarly(t) == t # NoTime /\ now >= t

IsExpired(t) == t # NoTime /\ now > t

\* Mutant: the bounds are swapped for short delays.
ClampSwapped(d) == IF d < MinRequeue \/ d > MaxRequeue THEN MaxRequeue ELSE d

ClampRequeueDuration(d) ==
    IF d < MinRequeue THEN MinRequeue ELSE IF d > MaxRequeue THEN MaxRequeue ELSE d

\* A deadline past the horizon counts as falling on it.
AddAfter(d) ==
    LET due == IF now + d > MaxTime THEN MaxTime ELSE now + d
    IN  IF timer = NoTime \/ due < timer THEN due ELSE timer

\* The locals of a reconcile that has ended.
Ended ==
    /\ pc' = "idle" /\ bg' = NoBreakglass /\ todo' = {}
    /\ kind' = FirstKind /\ caller' = "expire"
    /\ ret' = "none" /\ wake' = NoTime

\* The reconcile returns r; d is its RequeueAfter.  An error and Requeue both
\* put the key back after a rate-limited delay of any length.
Return(r, d) ==
    /\ Ended
    /\ queued' = (queued \/ r \in {"requeue", "error"})
    /\ timer' = IF r = "after" THEN AddAfter(d) ELSE timer

\* RequeueAfter the clamped time until t (MinRequeue when t is unset or past).
ReturnUntil(r, t) == Return(r, ClampRequeueDuration(Until(t)))

\* The reconcile goes on to its next call with working copy b.
Goto(call, b) ==
    /\ pc' = call /\ bg' = b
    /\ UNCHANGED <<kind, caller, ret, wake>>
    /\ UNCHANGED queueVars

\* updateStatus: condition c is set and Status().Update comes next; once
\* it succeeds the handler returns r, aiming at t.
UpdateStatus(b, c, r, t) ==
    /\ pc' = "status" /\ bg' = SetCondition(b, c)
    /\ ret' = r /\ wake' = t
    /\ UNCHANGED <<todo, kind, caller>>
    /\ UNCHANGED queueVars

-----------------------------------------------------------------------------
(* Reconcile, up to the handler.                                           *)

\* The schedules Reconcile refuses before it looks at finalizers.
InvalidSchedule(spec) ==
    \/ spec.cron = "none" /\ spec.start = NoTime
    \/ spec.cron # "none" /\ spec.duration = 0

\* An unset start of a recurring schedule becomes the present.
DefaultStart(b) ==
    IF b.spec.start = NoTime THEN [b EXCEPT !.spec.start = now] ELSE b

StartCleanup(who, b) ==
    /\ pc' = "list" /\ bg' = b /\ caller' = who /\ kind' = FirstKind
    /\ todo' = {}
    /\ UNCHANGED <<ret, wake>>

\* fetchAndInit and getFresh read the cached object.
Found == cache.exists

\* A worker takes the key, reads the cached object, validates the schedule
\* and enters reconcileFinalizers.
Begin ==
    /\ pc = "idle" /\ queued
    /\ queued' = (Found /\ InvalidSchedule(cache.spec))
    /\ bgFresh' = cacheFresh
    /\ UNCHANGED <<now, obj, rbac, cache, cacheFresh, rbacCache, faults, patches, timer>>
    /\ LET b == DefaultStart(cache) IN
       \/ /\ ~Found \/ InvalidSchedule(cache.spec)
          /\ UNCHANGED recVars
       \/ /\ Found /\ ~InvalidSchedule(cache.spec)
          /\ IF b.deleting THEN StartCleanup("revoke", b)
             ELSE /\ IF b.finalizer
                     THEN pc' = "dispatch" /\ bg' = b
                     ELSE pc' = "addFinalizer" /\ bg' = [b EXCEPT !.finalizer = TRUE]
                  /\ UNCHANGED <<todo, kind, caller, ret, wake>>

\* Update also persists the defaulted start; any outcome ends the reconcile.
AddFinalizer ==
    /\ pc = "addFinalizer"
    /\ \E o \in Answers :
          UpdateObj([obj EXCEPT !.finalizer = TRUE, !.spec = bg.spec], o)
    /\ Return("requeue", 0)
    /\ UNCHANGED <<now, rbac, cache, rbacCache, patches>>

\* After the cleanup of a deleted object the finalizer goes, and with it the
\* object; Reconcile then carries on to the handler.
DropFinalizer ==
    /\ pc = "dropFinalizer"
    /\ \E o \in Answers :
          /\ UpdateObj([obj EXCEPT !.finalizer = FALSE, !.exists = FALSE,
                                   !.spec = bg.spec], o)
          /\ IF o = "ok"
             THEN Goto("dispatch", [bg EXCEPT !.finalizer = FALSE]) /\ todo' = {}
             ELSE Return("error", 0)
    /\ UNCHANGED <<now, rbac, cache, rbacCache, patches>>

-----------------------------------------------------------------------------
(* CleanupResources, called by RevokeAccess and by cleanupOnDelete.        *)

TransitionToRecurringPending ==
    UpdateStatus([bg EXCEPT !.status.expiresAt = NoTime],
                 "RecurringPending", "after", bg.status.nextAt)

MarkExpired ==
    UpdateStatus([bg EXCEPT !.status.expiresAt = FinalCompletionTime(bg, now),
                            !.status.nextAt = NoTime],
                 "Expired", "none", NoTime)

\* postRevokeTransition.
PostRevoke ==
    IF HasFutureActivations(bg) THEN TransitionToRecurringPending ELSE MarkExpired

\* Mutant: the finalizer is not removed after the cleanup.
CleanupDoneKeepsFinalizer ==
    \/ caller = "expire" /\ PostRevoke
    \/ caller # "expire" /\ Goto("dispatch", bg) /\ todo' = {}

\* cleanupOnDelete revokes and then cleans up, which is the same work twice.
CleanupDone ==
    \/ /\ caller = "revoke"
       /\ StartCleanup("cleanup", bg)
       /\ UNCHANGED queueVars
    \/ /\ caller = "cleanup"
       /\ Goto("dropFinalizer", bg) /\ todo' = {}
    \/ caller = "expire" /\ PostRevoke

\* Mutant: a failed cleanup lets the object go.
CleanupFailedDropsFinalizer(o) ==
    IF caller # "expire" THEN Goto("dropFinalizer", bg) /\ todo' = {}
    ELSE Return("after", Backoff)

\* Mutant: a retryable error on expiry is not retried.
CleanupFailedForgets(o) ==
    IF caller # "expire" THEN Goto("dispatch", bg) /\ todo' = {}
    ELSE Return("none", 0)

\* On deletion the RequeueAfter of reconcileFinalizers is not returned:
\* Reconcile goes on to the handler.  On expiry a retryable error backs off
\* and a permanent one is recorded and returned.
CleanupFailed(o) ==
    IF caller # "expire" THEN Goto("dispatch", bg) /\ todo' = {}
    ELSE IF IsRetryable(pc, o) THEN Return("after", Backoff)
    ELSE UpdateStatus(bg, "Failed", "error", NoTime)

\* The kind at hand is finished.
KindDone ==
    IF kind = LastKind THEN CleanupDone
    ELSE /\ pc' = "list" /\ kind' = NextKind(kind) /\ todo' = {}
         /\ UNCHANGED <<bg, caller, ret, wake>>
         /\ UNCHANGED queueVars

\* List from the informer cache.
List ==
    /\ pc = "list" /\ ListReady
    /\ \/ /\ ListKind(rbacCache, kind) # {}
          /\ Goto("delete", bg) /\ todo' = ListKind(rbacCache, kind)
          /\ UNCHANGED faults
       \/ /\ ListKind(rbacCache, kind) = {}
          /\ KindDone
          /\ UNCHANGED faults
       \/ \E o \in Answers \cap Faults : Fault /\ CleanupFailed(o)
    /\ UNCHANGED <<now, obj, rbac, cache, cacheFresh, rbacCache, bgFresh, patches>>

\* One turn of a deletion loop, in the cache's arbitrary order.
DeleteResource ==
    /\ pc = "delete"
    /\ \E r \in todo, o \in Answers :
          /\ UpdateRbac(rbac \ {r}, o)
          /\ IF o # "ok" THEN CleanupFailed(o)
             ELSE IF todo = {r} THEN KindDone
             ELSE Goto("delete", bg) /\ todo' = todo \ {r}
    /\ UNCHANGED <<now, obj, cache, cacheFresh, rbacCache, bgFresh, patches>>

-----------------------------------------------------------------------------
(* GrantAndActivate.                                                       *)

\* Mutant: the policies are forgotten.
GrantAccessSkipsPolicies(b) ==
    LET missing == {r \in ToCreate(b.status.created) :
                        Kind(r) = "ClusterRoleBinding"}
    IN  /\ Goto(IF missing = {} THEN "activate" ELSE "create", b)
        /\ todo' = missing

\* GrantAccess of b: create what status.createdResources lacks.
GrantAccess(b) ==
    LET missing == ToCreate(b.status.created)
    IN  /\ Goto(IF missing = {} THEN "activate" ELSE "create", b)
        /\ todo' = missing

\* One Create, in order; after the last one the names are recorded.
CreateResource ==
    /\ pc = "create"
    /\ \E o \in Answers, r \in todo :
          /\ \A s \in todo : r <= s
          /\ UpdateRbac(rbac \cup {r}, o)
          /\ CASE o = "ok" ->
                     /\ todo' = todo \ {r}
                     /\ IF todo = {r}
                        THEN Goto("record", [bg EXCEPT !.status.created =
                                                @ \cup ToCreate(@)])
                        ELSE Goto("create", bg)
               [] IsRetryable(pc, o) -> Return("after", Backoff)
               [] OTHER -> UpdateStatus(bg, "Failed", "none", NoTime)
    /\ UNCHANGED <<now, obj, cache, cacheFresh, rbacCache, bgFresh, patches>>

\* updateStatusWithCreatedResources; the answer replaces the working copy.
RecordResources ==
    /\ pc = "record"
    /\ LET new == [obj EXCEPT !.status = bg.status] IN
       \E o \in Answers :
          /\ UpdateObj(new, o)
          /\ CASE o = "ok" -> Goto("activate", new) /\ todo' = {}
               [] IsRetryable(pc, o) -> Return("after", Backoff)
               [] OTHER -> UpdateStatus(bg, "Failed", "none", NoTime)
    /\ UNCHANGED <<now, rbac, cache, rbacCache, patches>>

\* Approver, grantedAt and schedule are filled in; the window is the one
\* before the schedule advances.
Activate ==
    /\ pc = "activate"
    /\ LET granted == [bg EXCEPT
                !.status.approvedBy = IF @ = "" THEN "system" ELSE @,
                !.status.grantedAt  = now,
                !.status.expiresAt  = NoTime]
           end == WindowEnd(granted, now)
       IN  UpdateStatus(OnActivationGranted(granted), "RecurringActive",
                        IF end = NoTime THEN "none" ELSE "after", end)
    /\ UNCHANGED clusterVars

\* Mutant: the status is written whatever version the copy has.
WriteStatusForced ==
    /\ pc = "status" /\ obj.exists
    /\ Store([obj EXCEPT !.status = bg.status], TRUE)
    /\ ReturnUntil(ret, wake)
    /\ UNCHANGED <<now, rbac, cache, rbacCache, faults, patches>>

\* Mutant: a conflict is answered by counting once more on the latest status.
WriteStatusReapplied ==
    /\ pc = "status" /\ obj.exists
    /\ Store([obj EXCEPT !.status =
                [bg.status EXCEPT !.count =
                    IF CurrentCondition(bg) = "RecurringActive"
                    THEN obj.status.count + 1 ELSE @]], TRUE)
    /\ ReturnUntil(ret, wake)
    /\ UNCHANGED <<now, rbac, cache, rbacCache, faults, patches>>

\* The Status().Update of updateStatus.
WriteStatus ==
    /\ pc = "status"
    /\ \E o \in Answers :
          /\ UpdateObj([obj EXCEPT !.status = bg.status], o)
          /\ ReturnUntil(IF o = "ok" THEN ret ELSE "error", wake)
    /\ UNCHANGED <<now, rbac, cache, rbacCache, patches>>

-----------------------------------------------------------------------------
(* The handlers.                                                           *)

\* Mutant: no wake-up for the next activation.
RecurringPendingHandleSleeps ==
    LET b == ProcessRecurring(bg, now) IN
    IF CurrentCondition(bg) # "RecurringPending"
    THEN UpdateStatus(bg, "RecurringPending", "requeue", NoTime)
    ELSE IF ScheduleFails(bg) THEN Return("error", 0)
    ELSE IF ShouldActivate(b, now) THEN GrantAccess(b)
    ELSE Return("none", 0)

RecurringPendingHandle ==
    LET b == ProcessRecurring(bg, now) IN
    IF CurrentCondition(bg) # "RecurringPending"
    THEN UpdateStatus(bg, "RecurringPending", "requeue", NoTime)
    ELSE IF ScheduleFails(bg) THEN Return("error", 0)
    ELSE IF ShouldActivate(b, now) THEN GrantAccess(b)
    ELSE ReturnUntil("after", b.status.nextAt)

PendingHandle ==
    IF bg.status.conds = << >>
    THEN UpdateStatus(bg, "Pending", "requeue", NoTime)
    ELSE IF bg.spec.approval = "required" /\ bg.status.approvedBy = ""
    THEN UpdateStatus(bg, "Pending", "after", NoTime)
    ELSE RecurringPendingHandle

\* Mutant: the Approved condition is taken for an approval.
ApprovedHandleTrusts == RecurringPendingHandle

ApprovedHandle ==
    IF bg.status.approvedBy = ""
    THEN UpdateStatus(bg, "Pending", "none", NoTime)
    ELSE RecurringPendingHandle

RecurringActiveHandle ==
    LET end == WindowEnd(bg, now)
        b   == ProcessRecurring(bg, now)
    IN  IF IsExpired(end)
        THEN StartCleanup("expire", bg) /\ UNCHANGED queueVars
        ELSE IF ScheduleFails(bg) THEN Return("error", 0)
        ELSE IF CurrentCondition(b) = "RecurringPending" THEN Return("requeue", 0)
        ELSE ReturnUntil("after", IF end # NoTime THEN end ELSE b.status.nextAt)

TerminalHandle == Return("none", 0)

\* handlerFactories; NoCondition, Failed and unknown conditions go to Pending.
HandlerFor(cond) ==
    CASE cond = "RecurringPending" -> "recurringPending"
      [] cond \in {"Active", "RecurringActive"} -> "recurringActive"
      [] cond = "Approved" -> "approved"
      [] cond \in {"Denied", "Expired", "Revoked"} -> "terminal"
      [] OTHER -> "pending"

Dispatch ==
    /\ pc = "dispatch"
    /\ LET handler == HandlerFor(CurrentCondition(bg)) IN
       \/ handler = "pending"          /\ PendingHandle
       \/ handler = "approved"         /\ ApprovedHandle
       \/ handler = "recurringPending" /\ RecurringPendingHandle
       \/ handler = "recurringActive"  /\ RecurringActiveHandle
       \/ handler = "terminal"         /\ TerminalHandle
    /\ UNCHANGED clusterVars

-----------------------------------------------------------------------------
(* The controller runtime and the clock.                                   *)

Controller ==
    \/ Begin \/ AddFinalizer \/ DropFinalizer \/ List \/ DeleteResource
    \/ CreateResource \/ RecordResources \/ Activate \/ WriteStatus \/ Dispatch

UserStep == User /\ UNCHANGED <<recVars, queueVars>>

WatchEvent == DeliverObj /\ queued' = TRUE /\ UNCHANGED <<recVars, timer>>

WatchRbac == DeliverRbac /\ UNCHANGED <<recVars, queueVars>>

FireTimer ==
    /\ timer # NoTime /\ now >= timer
    /\ queued' = TRUE /\ timer' = NoTime
    /\ UNCHANGED <<clusterVars, recVars>>

\* The informer's periodic resync.
Resync ==
    /\ cache.exists /\ ~queued
    /\ queued' = TRUE
    /\ UNCHANGED <<clusterVars, recVars, timer>>

\* The manager dies and is restarted: the queue and the reconcile are lost,
\* the caches are filled afresh and every object in them is queued.
Crash ==
    /\ "crash" \in Faults /\ Fault
    /\ cache' = obj /\ cacheFresh' = TRUE /\ rbacCache' = rbac
    /\ bgFresh' = FALSE
    /\ queued' = TRUE /\ timer' = NoTime
    /\ Ended
    /\ UNCHANGED <<now, obj, rbac, patches>>

\* Nothing the controller could do now is outstanding, except that a timer may
\* fire one unit late.
Quiet ==
    /\ pc = "idle" /\ ~queued /\ cacheFresh /\ rbacCache = rbac
    /\ timer = NoTime \/ now <= timer

Tick ==
    /\ now < MaxTime
    /\ Prompt => Quiet
    /\ now' = now + 1
    /\ UNCHANGED <<obj, rbac, cache, cacheFresh, rbacCache, bgFresh, faults,
                   patches, recVars, queueVars>>

Next ==
    \/ Controller \/ UserStep \/ WatchEvent \/ WatchRbac
    \/ FireTimer \/ Resync \/ Crash \/ Tick

Spec == Init /\ [][Next]_vars

\* The worker, the watches, the timers and time do not stop forever.
Fairness ==
    /\ WF_vars(Controller) /\ WF_vars(WatchEvent) /\ WF_vars(WatchRbac)
    /\ WF_vars(FireTimer) /\ WF_vars(Tick)

FairSpec == Spec /\ Fairness

\* The informers resync again and again as well (every ten hours).
ResyncSpec == FairSpec /\ WF_vars(Resync)

LocalTypeOK ==
    /\ queued \in BOOLEAN /\ timer \in Times
    /\ pc \in Calls /\ bg \in Breakglasses
    /\ todo \subseteq Resources
    /\ kind \in Kinds /\ caller \in Callers
    /\ ret \in Results /\ wake \in Times
=============================================================================
