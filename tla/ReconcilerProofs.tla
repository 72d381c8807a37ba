-------------------------- MODULE ReconcilerProofs --------------------------
(***************************************************************************)
(* Proofs about the controller, for every value of the constants.          *)
(***************************************************************************)
EXTENDS Properties, TLAPS

USE DEF NoTime, NoMax

-----------------------------------------------------------------------------
(* Types of the scheduling operators.                                      *)

\* A status condition keeps a Breakglass well-formed.
LEMMA SetConditionType ==
    ASSUME NEW b \in Breakglasses, NEW c \in ConditionTypes
    PROVE  SetCondition(b, c) \in Breakglasses
<1> DEFINE conds == SetStatusCondition(b.status.conds, c)
<1>1. b.status.conds \in Seq(ConditionTypes)
  BY DEF Breakglasses, Statuses
<1>2. conds \in Seq(ConditionTypes)
  BY <1>1 DEF SetStatusCondition
<1>3. SetCondition(b, c) = [b EXCEPT !.status.conds = conds]
  BY DEF SetCondition, Breakglasses, Statuses
<1> HIDE DEF conds
<1> QED
  BY <1>2, <1>3 DEF Breakglasses, Statuses

\* Cron firings are times.
LEMMA TickTypes ==
    ASSUME NEW t \in Int
    PROVE  /\ CronNext(t) \in Times
           /\ FindPrevActivation(t) \in Times
BY TicksAssumption DEF CronNext, FindPrevActivation, Times

\* The end of a window is a time.
LEMMA WindowEndType ==
    ASSUME NEW b \in Breakglasses, NEW t \in Nat
    PROVE  WindowEnd(b, t) \in Times
<1>1. /\ b.spec.cron \in {"none", "valid", "invalid"}
      /\ b.spec.start \in Times /\ b.spec.duration \in Nat
      /\ b.status.nextAt \in Times /\ b.status.grantedAt \in Times
  BY DEF Breakglasses, Specs, Statuses
<1>2. ResolveOneShotStart(b, t) \in Times
  BY <1>1 DEF ResolveOneShotStart, Times
<1>3. CronWindowStart(b, t) \in Times
  BY <1>1, TickTypes DEF CronWindowStart, FindPreviousActivation, Times
<1> QED
  BY <1>1, <1>2, <1>3 DEF WindowEnd, ParseCronSchedule, Times

\* The next activation is a time.
LEMMA NextActivationType ==
    ASSUME NEW b \in Breakglasses, NEW t \in Int
    PROVE  CalculateNextActivation(b, t) \in Times
<1>1. b.spec.start \in Times
  BY DEF Breakglasses, Specs
<1> QED
  BY <1>1, TickTypes DEF CalculateNextActivation, Times

\* Scheduling an activation keeps a Breakglass well-formed.
LEMMA ScheduleAtType ==
    ASSUME NEW b \in Breakglasses, NEW t \in Times
    PROVE  ScheduleAt(b, t) \in Breakglasses
<1>1. [b EXCEPT !.status.nextAt = t] \in Breakglasses
  BY DEF Breakglasses, Statuses
<1> QED
  BY <1>1, SetConditionType DEF ScheduleAt, ConditionTypes

\* ProcessRecurring keeps a Breakglass well-formed.
LEMMA ProcessRecurringType ==
    ASSUME NEW b \in Breakglasses, NEW t \in Nat
    PROVE  ProcessRecurring(b, t) \in Breakglasses
<1>1. /\ b.spec.cron \in {"none", "valid", "invalid"}
      /\ b.spec.start \in Times
  BY DEF Breakglasses, Specs
<1>2. SetCondition(b, "RecurringPending") \in Breakglasses
  BY SetConditionType DEF ConditionTypes
<1>3. SetCondition(b, "Failed") \in Breakglasses
  BY SetConditionType DEF ConditionTypes
<1>4. StopRecurrence(b) \in Breakglasses
  <2>1. [b EXCEPT !.status.nextAt = NoTime] \in Breakglasses
    BY DEF Breakglasses, Statuses, Times
  <2> QED
    BY <2>1, SetConditionType DEF ConditionTypes, StopRecurrence
<1>5. ProcessOneShot(b, t) \in Breakglasses
  BY <1>1, <1>2, ScheduleAtType DEF ProcessOneShot, Times
<1>6. HandleInitialActivation(b, t) \in Breakglasses
  <2>1. FindPrevActivation(t) \in Times
    BY TickTypes
  <2>2. CalculateNextActivation(b, t) \in Times
    BY NextActivationType
  <2> QED
    BY <2>1, <2>2, ScheduleAtType DEF HandleInitialActivation
<1>7. ProcessCron(b, t) \in Breakglasses
  BY <1>2, <1>6, NextActivationType, ScheduleAtType DEF ProcessCron
<1> QED
  BY <1>1, <1>3, <1>4, <1>5, <1>7 DEF ProcessRecurring

\* Advancing the schedule keeps a Breakglass well-formed.
LEMMA OnActivationGrantedType ==
    ASSUME NEW b \in Breakglasses
    PROVE  OnActivationGranted(b) \in Breakglasses
<1>1. [b EXCEPT !.status.count = @ + 1] \in Breakglasses
  BY DEF Breakglasses, Statuses
<1>2. [b EXCEPT !.status.nextAt = NoTime, !.status.count = @ + 1] \in Breakglasses
  <2>1. b.status \in Statuses(Resources) /\ b.status.count + 1 \in Nat
    BY DEF Breakglasses, Statuses
  <2>2. [b.status EXCEPT !.nextAt = NoTime, !.count = @ + 1] \in Statuses(Resources)
    BY <2>1 DEF Statuses, Times
  <2> QED
    BY <2>2 DEF Breakglasses
<1>3. b.status.grantedAt \in Int
  BY DEF Breakglasses, Statuses, Times
<1>4. CalculateNextActivation(b, b.status.grantedAt) \in Times
  BY <1>3, NextActivationType
<1> QED
  BY <1>1, <1>2, <1>4, ScheduleAtType DEF OnActivationGranted

-----------------------------------------------------------------------------
(* Types of the steps of a reconcile.                                      *)

\* The sentinel copy is a Breakglass record.
LEMMA NoBreakglassType == NoBreakglass \in Breakglasses
<1>1. NewStatus \in Statuses(Resources)
  BY DEF NewStatus, Statuses, Approvers, Times
<1> QED
  BY <1>1 DEF NoBreakglass, Breakglasses, Specs, Times

\* Ending a reconcile leaves the locals and the queue well-typed.
LEMMA ReturnType ==
    ASSUME TypeOK, NEW r \in Results, NEW d \in Nat, Return(r, d)
    PROVE  LocalTypeOK'
<1>1. AddAfter(d) \in Times
  BY MaxTimeAssumption DEF AddAfter, Times, TypeOK, ClusterTypeOK, LocalTypeOK
<1>2. timer' \in Times /\ queued' \in BOOLEAN
  BY <1>1 DEF Return, TypeOK, LocalTypeOK
<1> QED
  BY <1>2, NoBreakglassType
  DEF Return, Ended, LocalTypeOK, Calls, Kinds, FirstKind, Callers, Results, Times

\* So does returning a RequeueAfter.
LEMMA ReturnUntilType ==
    ASSUME TypeOK, NEW r \in Results, NEW t \in Times, ReturnUntil(r, t)
    PROVE  LocalTypeOK'
<1>1. ClampRequeueDuration(Until(t)) \in Nat
  BY RequeueAssumption
  DEF ClampRequeueDuration, Until, Times, TypeOK, ClusterTypeOK
<1> QED
  BY <1>1, ReturnType DEF ReturnUntil

\* Going on to the next call.
LEMMA GotoType ==
    ASSUME TypeOK, NEW c \in Calls, NEW b \in Breakglasses,
           Goto(c, b), todo' \subseteq Resources
    PROVE  LocalTypeOK'
BY DEF Goto, queueVars, TypeOK, LocalTypeOK

\* Preparing a status update.
LEMMA UpdateStatusType ==
    ASSUME TypeOK, NEW b \in Breakglasses, NEW c \in ConditionTypes,
           NEW r \in Results, NEW t \in Times, UpdateStatus(b, c, r, t)
    PROVE  LocalTypeOK'
<1>1. SetCondition(b, c) \in Breakglasses
  BY SetConditionType
<1> QED
  BY <1>1 DEF UpdateStatus, queueVars, TypeOK, LocalTypeOK, Calls

\* Entering CleanupResources.
LEMMA StartCleanupType ==
    ASSUME TypeOK, NEW w \in Callers, NEW b \in Breakglasses,
           StartCleanup(w, b), queued' \in BOOLEAN, timer' \in Times
    PROVE  LocalTypeOK'
BY DEF StartCleanup, TypeOK, LocalTypeOK, Calls, Kinds, FirstKind

\* After a revocation.
LEMMA PostRevokeType ==
    ASSUME TypeOK, PostRevoke
    PROVE  LocalTypeOK'
<1>1. bg \in Breakglasses /\ now \in Nat
  BY DEF TypeOK, LocalTypeOK, ClusterTypeOK
<1>2. bg.status.nextAt \in Times
  BY <1>1 DEF Breakglasses, Statuses
<1>3. [bg EXCEPT !.status.expiresAt = NoTime] \in Breakglasses
  BY <1>1 DEF Breakglasses, Statuses, Times
<1>4. FinalCompletionTime(bg, now) \in Times
  BY <1>1, WindowEndType DEF FinalCompletionTime
<1>5. [bg EXCEPT !.status.expiresAt = FinalCompletionTime(bg, now),
                 !.status.nextAt = NoTime] \in Breakglasses
  <2> DEFINE end == FinalCompletionTime(bg, now)
  <2>1. [bg.status EXCEPT !.expiresAt = end, !.nextAt = NoTime] \in Statuses(Resources)
    <3> HIDE DEF end
    <3>1. end \in Times
      BY <1>4 DEF end
    <3> QED
      BY <1>1, <3>1 DEF Breakglasses, Statuses, Times
  <2> HIDE DEF end
  <2>2. [bg EXCEPT !.status.expiresAt = end, !.status.nextAt = NoTime] \in Breakglasses
    BY <1>1, <2>1 DEF Breakglasses
  <2> QED
    BY <2>2 DEF end
<1>6. CASE HasFutureActivations(bg)
  BY <1>2, <1>3, <1>6, UpdateStatusType
  DEF PostRevoke, TransitionToRecurringPending, ConditionTypes, Results
<1>7. CASE ~HasFutureActivations(bg)
  BY <1>5, <1>7, UpdateStatusType
  DEF PostRevoke, MarkExpired, ConditionTypes, Results, Times
<1> QED
  BY <1>6, <1>7

\* After the last kind.
LEMMA CleanupDoneType ==
    ASSUME TypeOK, CleanupDone
    PROVE  LocalTypeOK'
<1>1. bg \in Breakglasses /\ queued \in BOOLEAN /\ timer \in Times
  BY DEF TypeOK, LocalTypeOK
<1>2. CASE caller = "revoke" /\ StartCleanup("cleanup", bg) /\ UNCHANGED queueVars
  BY <1>1, <1>2, StartCleanupType DEF Callers, queueVars
<1>3. CASE caller = "cleanup" /\ Goto("dropFinalizer", bg) /\ todo' = {}
  BY <1>1, <1>3, GotoType DEF Calls
<1>4. CASE caller = "expire" /\ PostRevoke
  BY <1>4, PostRevokeType
<1> QED
  BY <1>2, <1>3, <1>4 DEF CleanupDone

\* After a failed List or Delete.
LEMMA CleanupFailedType ==
    ASSUME TypeOK, NEW o, CleanupFailed(o)
    PROVE  LocalTypeOK'
<1>1. bg \in Breakglasses
  BY DEF TypeOK, LocalTypeOK
<1>2. CASE Goto("dispatch", bg) /\ todo' = {}
  BY <1>1, <1>2, GotoType DEF Calls
<1>3. CASE Return("after", Backoff)
  BY <1>3, ReturnType, RequeueAssumption DEF Results
<1>4. CASE UpdateStatus(bg, "Failed", "error", NoTime)
  BY <1>1, <1>4, UpdateStatusType DEF ConditionTypes, Results, Times
<1> QED
  BY <1>2, <1>3, <1>4 DEF CleanupFailed

\* From one kind to the next.
LEMMA KindDoneType ==
    ASSUME TypeOK, KindDone
    PROVE  LocalTypeOK'
<1>1. CASE kind = LastKind
  BY <1>1, CleanupDoneType DEF KindDone
<1>2. CASE kind # LastKind
  BY <1>2 DEF KindDone, TypeOK, LocalTypeOK, queueVars, NextKind, Kinds, Calls
<1> QED
  BY <1>1, <1>2

\* GrantAccess asks for resources of the spec only.
LEMMA GrantAccessType ==
    ASSUME TypeOK, NEW b \in Breakglasses, GrantAccess(b)
    PROVE  LocalTypeOK'
<1>1. ToCreate(b.status.created) \subseteq Resources
  BY DEF ToCreate
<1>2. /\ todo' \subseteq Resources
      /\ \E c \in {"activate", "create"} : Goto(c, b)
  BY <1>1 DEF GrantAccess
<1> QED
  BY <1>2, GotoType DEF Calls

\* The handler of RecurringPending.
LEMMA RecurringPendingHandleType ==
    ASSUME TypeOK, RecurringPendingHandle
    PROVE  LocalTypeOK'
<1> DEFINE b == ProcessRecurring(bg, now)
<1>1. bg \in Breakglasses /\ now \in Nat
  BY DEF TypeOK, LocalTypeOK, ClusterTypeOK
<1>2. b \in Breakglasses
  BY <1>1, ProcessRecurringType
<1>3. b.status.nextAt \in Times
  BY <1>2 DEF Breakglasses, Statuses
<1> HIDE DEF b
<1>4. CASE UpdateStatus(bg, "RecurringPending", "requeue", NoTime)
  BY <1>1, <1>4, UpdateStatusType DEF ConditionTypes, Results, Times
<1>5. CASE Return("error", 0)
  BY <1>5, ReturnType DEF Results
<1>6. CASE GrantAccess(b)
  BY <1>2, <1>6, GrantAccessType
<1>7. CASE ReturnUntil("after", b.status.nextAt)
  BY <1>3, <1>7, ReturnUntilType DEF Results
<1> QED
  BY <1>4, <1>5, <1>6, <1>7 DEF RecurringPendingHandle, b

\* The handler of the active conditions.
LEMMA RecurringActiveHandleType ==
    ASSUME TypeOK, RecurringActiveHandle
    PROVE  LocalTypeOK'
<1> DEFINE end == WindowEnd(bg, now)
           b == ProcessRecurring(bg, now)
           t == IF end # NoTime THEN end ELSE b.status.nextAt
<1>1. bg \in Breakglasses /\ now \in Nat /\ queued \in BOOLEAN /\ timer \in Times
  BY DEF TypeOK, LocalTypeOK, ClusterTypeOK
<1>2. end \in Times
  BY <1>1, WindowEndType
<1>3. b \in Breakglasses
  BY <1>1, ProcessRecurringType
<1>4. b.status.nextAt \in Times
  <2> HIDE DEF b
  <2> QED
    BY <1>3 DEF Breakglasses, Statuses
<1>5. t \in Times
  <2> HIDE DEF end, b
  <2> QED
    BY <1>2, <1>4
<1> HIDE DEF end, b, t
<1>6. CASE StartCleanup("expire", bg) /\ UNCHANGED queueVars
  BY <1>1, <1>6, StartCleanupType DEF Callers, queueVars
<1>7. CASE Return("error", 0)
  BY <1>7, ReturnType DEF Results
<1>8. CASE Return("requeue", 0)
  BY <1>8, ReturnType DEF Results
<1>9. CASE ReturnUntil("after", t)
  BY <1>5, <1>9, ReturnUntilType DEF Results
<1> QED
  BY <1>6, <1>7, <1>8, <1>9 DEF RecurringActiveHandle, t, b, end

-----------------------------------------------------------------------------
(* Types of the API calls.                                                 *)

\* A fault stays within the bound.
LEMMA FaultType ==
    ASSUME TypeOK, Fault
    PROVE  faults' \in 0 .. MaxFaults
BY BoundsAssumption DEF TypeOK, ClusterTypeOK, Fault

\* An Update of the Breakglass keeps the cluster well-typed.
LEMMA UpdateObjType ==
    ASSUME TypeOK, NEW new \in Breakglasses, NEW o, UpdateObj(new, o),
           UNCHANGED <<now, rbac, cache, rbacCache, patches>>
    PROVE  ClusterTypeOK'
<1>1. faults' \in 0 .. MaxFaults
  BY FaultType DEF UpdateObj, TypeOK, ClusterTypeOK
<1>2. obj' \in Breakglasses /\ cacheFresh' \in BOOLEAN /\ bgFresh' \in BOOLEAN
  BY DEF UpdateObj, Store, TypeOK, ClusterTypeOK
<1> QED
  BY <1>1, <1>2 DEF TypeOK, ClusterTypeOK

\* So does a Create or Delete of an RBAC object.
LEMMA UpdateRbacType ==
    ASSUME TypeOK, NEW new \in SUBSET Resources, NEW o, UpdateRbac(new, o),
           UNCHANGED <<now, obj, cache, cacheFresh, rbacCache, bgFresh, patches>>
    PROVE  ClusterTypeOK'
<1>1. faults' \in 0 .. MaxFaults
  BY FaultType DEF UpdateRbac, TypeOK, ClusterTypeOK
<1>2. rbac' \subseteq Resources
  BY DEF UpdateRbac, TypeOK, ClusterTypeOK
<1> QED
  BY <1>1, <1>2 DEF TypeOK, ClusterTypeOK

\* And a write by a person.
LEMMA StoreType ==
    ASSUME TypeOK, NEW new \in Breakglasses, Store(new, FALSE),
           UNCHANGED <<now, rbac, cache, rbacCache, faults>>,
           patches' \in [count : 0 .. MaxPatches, edited : Times]
    PROVE  ClusterTypeOK'
BY DEF Store, TypeOK, ClusterTypeOK

-----------------------------------------------------------------------------
(* Types of the actions.                                                   *)

\* Begin.
LEMMA BeginType ==
    ASSUME TypeOK, Begin
    PROVE  TypeOK'
<1> DEFINE b == DefaultStart(cache)
<1>1. cache \in Breakglasses /\ now \in Nat
  BY DEF TypeOK, ClusterTypeOK
<1>2. b \in Breakglasses
  BY <1>1 DEF DefaultStart, Breakglasses, Specs, Times
<1>3. [b EXCEPT !.finalizer = TRUE] \in Breakglasses
  <2> HIDE DEF b
  <2> QED
    BY <1>2 DEF Breakglasses
<1> HIDE DEF b
<1>4. ClusterTypeOK' /\ timer' \in Times
  BY DEF Begin, TypeOK, ClusterTypeOK, LocalTypeOK
<1>5. queued' \in BOOLEAN
  BY <1>1 DEF Begin, Found, Breakglasses
<1>6. LocalTypeOK'
  <2>1. CASE UNCHANGED recVars
    BY <1>4, <1>5, <2>1 DEF recVars, TypeOK, LocalTypeOK
  <2>2. CASE StartCleanup("revoke", b)
    BY <1>2, <1>4, <1>5, <2>2, StartCleanupType DEF Callers
  <2>3. CASE /\ \/ pc' = "dispatch" /\ bg' = b
                \/ pc' = "addFinalizer" /\ bg' = [b EXCEPT !.finalizer = TRUE]
             /\ UNCHANGED <<todo, kind, caller, ret, wake>>
    BY <1>2, <1>3, <1>4, <1>5, <2>3 DEF TypeOK, LocalTypeOK, Calls
  <2> QED
    BY <2>1, <2>2, <2>3 DEF Begin, b
<1> QED
  BY <1>4, <1>6 DEF TypeOK

\* AddFinalizer.
LEMMA AddFinalizerType ==
    ASSUME TypeOK, AddFinalizer
    PROVE  TypeOK'
<1> DEFINE new == [obj EXCEPT !.finalizer = TRUE, !.spec = bg.spec]
<1>1. obj \in Breakglasses /\ bg \in Breakglasses
  BY DEF TypeOK, ClusterTypeOK, LocalTypeOK
<1>2. new \in Breakglasses
  BY <1>1 DEF Breakglasses
<1> HIDE DEF new
<1>3. ClusterTypeOK'
  BY <1>2, UpdateObjType DEF AddFinalizer, new
<1>4. LocalTypeOK'
  BY ReturnType DEF AddFinalizer, Results
<1> QED
  BY <1>3, <1>4 DEF TypeOK

\* DropFinalizer.
LEMMA DropFinalizerType ==
    ASSUME TypeOK, DropFinalizer
    PROVE  TypeOK'
<1> DEFINE new == [obj EXCEPT !.finalizer = FALSE, !.exists = FALSE,
                              !.spec = bg.spec]
           b == [bg EXCEPT !.finalizer = FALSE]
<1>1. obj \in Breakglasses /\ bg \in Breakglasses
  BY DEF TypeOK, ClusterTypeOK, LocalTypeOK
<1>2. new \in Breakglasses /\ b \in Breakglasses
  BY <1>1 DEF Breakglasses
<1> HIDE DEF new, b
<1>3. PICK o \in Answers :
          /\ UpdateObj(new, o)
          /\ \/ Goto("dispatch", b) /\ todo' = {}
             \/ Return("error", 0)
  BY DEF DropFinalizer, new, b
<1>4. ClusterTypeOK'
  BY <1>2, <1>3, UpdateObjType DEF DropFinalizer
<1>5. LocalTypeOK'
  BY <1>2, <1>3, GotoType, ReturnType DEF Calls, Results
<1> QED
  BY <1>4, <1>5 DEF TypeOK

\* List.
LEMMA ListType ==
    ASSUME TypeOK, List
    PROVE  TypeOK'
<1>1. bg \in Breakglasses /\ ListKind(rbacCache, kind) \subseteq Resources
  BY DEF TypeOK, ClusterTypeOK, LocalTypeOK, ListKind
<1>2. faults' \in 0 .. MaxFaults
  BY FaultType DEF List, TypeOK, ClusterTypeOK
<1>3. ClusterTypeOK'
  BY <1>2 DEF List, TypeOK, ClusterTypeOK
<1>4. LocalTypeOK'
  <2>1. CASE Goto("delete", bg) /\ todo' = ListKind(rbacCache, kind)
    BY <1>1, <2>1, GotoType DEF Calls
  <2>2. CASE KindDone
    BY <2>2, KindDoneType
  <2>3. CASE \E o : CleanupFailed(o)
    BY <2>3, CleanupFailedType
  <2> QED
    BY <2>1, <2>2, <2>3 DEF List
<1> QED
  BY <1>3, <1>4 DEF TypeOK

\* DeleteResource.
LEMMA DeleteResourceType ==
    ASSUME TypeOK, DeleteResource
    PROVE  TypeOK'
<1>1. bg \in Breakglasses /\ todo \subseteq Resources /\ rbac \subseteq Resources
  BY DEF TypeOK, ClusterTypeOK, LocalTypeOK
<1>2. PICK r \in todo, o \in Answers :
          /\ UpdateRbac(rbac \ {r}, o)
          /\ \/ CleanupFailed(o)
             \/ KindDone
             \/ Goto("delete", bg) /\ todo' = todo \ {r}
  BY DEF DeleteResource
<1>3. rbac \ {r} \in SUBSET Resources /\ todo \ {r} \subseteq Resources
  BY <1>1
<1>4. ClusterTypeOK'
  BY <1>2, <1>3, UpdateRbacType DEF DeleteResource
<1>5. LocalTypeOK'
  BY <1>1, <1>2, <1>3, CleanupFailedType, KindDoneType, GotoType DEF Calls
<1> QED
  BY <1>4, <1>5 DEF TypeOK

\* CreateResource.
LEMMA CreateResourceType ==
    ASSUME TypeOK, CreateResource
    PROVE  TypeOK'
<1> DEFINE b == [bg EXCEPT !.status.created = @ \cup ToCreate(@)]
<1>1. bg \in Breakglasses /\ todo \subseteq Resources /\ rbac \subseteq Resources
  BY DEF TypeOK, ClusterTypeOK, LocalTypeOK
<1>2. b \in Breakglasses
  <2>1. bg.status.created \cup ToCreate(bg.status.created) \in SUBSET Resources
    BY <1>1 DEF ToCreate, Breakglasses, Statuses
  <2> QED
    BY <1>1, <2>1 DEF Breakglasses, Statuses
<1> HIDE DEF b
<1>3. PICK o \in Answers, r \in todo :
          /\ UpdateRbac(rbac \cup {r}, o)
          /\ \/ todo' = todo \ {r} /\ (Goto("record", b) \/ Goto("create", bg))
             \/ Return("after", Backoff)
             \/ UpdateStatus(bg, "Failed", "none", NoTime)
  BY DEF CreateResource, b
<1>4. rbac \cup {r} \in SUBSET Resources /\ todo \ {r} \subseteq Resources
  BY <1>1, <1>3
<1>5. ClusterTypeOK'
  BY <1>3, <1>4, UpdateRbacType DEF CreateResource
<1>6. LocalTypeOK'
  <2>1. CASE todo' = todo \ {r} /\ (Goto("record", b) \/ Goto("create", bg))
    BY <1>1, <1>2, <1>4, <2>1, GotoType DEF Calls
  <2>2. CASE Return("after", Backoff)
    BY <2>2, ReturnType, RequeueAssumption DEF Results
  <2>3. CASE UpdateStatus(bg, "Failed", "none", NoTime)
    BY <1>1, <2>3, UpdateStatusType DEF ConditionTypes, Results, Times
  <2> QED
    BY <1>3, <2>1, <2>2, <2>3
<1> QED
  BY <1>5, <1>6 DEF TypeOK

\* RecordResources.
LEMMA RecordResourcesType ==
    ASSUME TypeOK, RecordResources
    PROVE  TypeOK'
<1> DEFINE new == [obj EXCEPT !.status = bg.status]
<1>1. obj \in Breakglasses /\ bg \in Breakglasses
  BY DEF TypeOK, ClusterTypeOK, LocalTypeOK
<1>2. new \in Breakglasses
  BY <1>1 DEF Breakglasses
<1> HIDE DEF new
<1>3. PICK o \in Answers :
          /\ UpdateObj(new, o)
          /\ \/ Goto("activate", new) /\ todo' = {}
             \/ Return("after", Backoff)
             \/ UpdateStatus(bg, "Failed", "none", NoTime)
  BY DEF RecordResources, new
<1>4. ClusterTypeOK'
  BY <1>2, <1>3, UpdateObjType DEF RecordResources
<1>5. LocalTypeOK'
  <2>1. CASE Goto("activate", new) /\ todo' = {}
    BY <1>2, <2>1, GotoType DEF Calls
  <2>2. CASE Return("after", Backoff)
    BY <2>2, ReturnType, RequeueAssumption DEF Results
  <2>3. CASE UpdateStatus(bg, "Failed", "none", NoTime)
    BY <1>1, <2>3, UpdateStatusType DEF ConditionTypes, Results, Times
  <2> QED
    BY <1>3, <2>1, <2>2, <2>3
<1> QED
  BY <1>4, <1>5 DEF TypeOK

\* Activate.
LEMMA ActivateType ==
    ASSUME TypeOK, Activate
    PROVE  TypeOK'
<1> DEFINE by == IF bg.status.approvedBy = "" THEN "system" ELSE bg.status.approvedBy
           granted == [bg EXCEPT
                !.status.approvedBy = IF @ = "" THEN "system" ELSE @,
                !.status.grantedAt  = now,
                !.status.expiresAt  = NoTime]
           end == WindowEnd(granted, now)
           r == IF end = NoTime THEN "none" ELSE "after"
<1>1. bg \in Breakglasses /\ now \in Nat
  BY DEF TypeOK, ClusterTypeOK, LocalTypeOK
<1>2. granted \in Breakglasses
  <2>1. by \in Approvers
    BY <1>1 DEF Approvers, Breakglasses, Statuses
  <2>2. [bg.status EXCEPT !.approvedBy = by, !.grantedAt = now, !.expiresAt = NoTime]
            \in Statuses(Resources)
    <3> HIDE DEF by
    <3> QED
      BY <1>1, <2>1 DEF Breakglasses, Statuses, Times
  <2> QED
    BY <1>1, <2>2 DEF Breakglasses
<1> HIDE DEF granted
<1>3. end \in Times
  BY <1>1, <1>2, WindowEndType
<1>4. OnActivationGranted(granted) \in Breakglasses
  BY <1>2, OnActivationGrantedType
<1>5. r \in Results
  BY DEF Results
<1> HIDE DEF end, r
<1>6. LocalTypeOK'
  BY <1>3, <1>4, <1>5, UpdateStatusType
  DEF Activate, granted, end, r, ConditionTypes
<1>7. ClusterTypeOK'
  BY DEF Activate, clusterVars, TypeOK, ClusterTypeOK
<1> QED
  BY <1>6, <1>7 DEF TypeOK

\* WriteStatus.
LEMMA WriteStatusType ==
    ASSUME TypeOK, WriteStatus
    PROVE  TypeOK'
<1> DEFINE new == [obj EXCEPT !.status = bg.status]
<1>1. /\ obj \in Breakglasses /\ bg \in Breakglasses
      /\ ret \in Results /\ wake \in Times
  BY DEF TypeOK, ClusterTypeOK, LocalTypeOK
<1>2. new \in Breakglasses
  BY <1>1 DEF Breakglasses
<1> HIDE DEF new
<1>3. PICK o \in Answers :
          /\ UpdateObj(new, o)
          /\ ReturnUntil(ret, wake) \/ ReturnUntil("error", wake)
  BY DEF WriteStatus, new
<1>4. ClusterTypeOK'
  BY <1>2, <1>3, UpdateObjType DEF WriteStatus
<1>5. LocalTypeOK'
  BY <1>1, <1>3, ReturnUntilType DEF Results
<1> QED
  BY <1>4, <1>5 DEF TypeOK

\* Dispatch.
LEMMA DispatchType ==
    ASSUME TypeOK, Dispatch
    PROVE  TypeOK'
<1>1. bg \in Breakglasses
  BY DEF TypeOK, LocalTypeOK
<1>2. ClusterTypeOK'
  BY DEF Dispatch, clusterVars, TypeOK, ClusterTypeOK
<1>3. CASE RecurringPendingHandle
  BY <1>2, <1>3, RecurringPendingHandleType DEF TypeOK
<1>4. CASE RecurringActiveHandle
  BY <1>2, <1>4, RecurringActiveHandleType DEF TypeOK
<1>5. CASE ApprovedHandle
  <2>1. CASE UpdateStatus(bg, "Pending", "none", NoTime)
    BY <1>1, <1>2, <2>1, UpdateStatusType DEF ConditionTypes, Results, Times, TypeOK
  <2> QED
    BY <1>3, <1>5, <2>1 DEF ApprovedHandle
<1>6. CASE TerminalHandle
  BY <1>2, <1>6, ReturnType DEF TerminalHandle, Results, TypeOK
<1>7. CASE PendingHandle
  <2>1. ASSUME NEW r \in Results, UpdateStatus(bg, "Pending", r, NoTime)
        PROVE  LocalTypeOK'
    BY <1>1, <2>1, UpdateStatusType DEF ConditionTypes, Times
  <2>2. \/ UpdateStatus(bg, "Pending", "requeue", NoTime)
        \/ UpdateStatus(bg, "Pending", "after", NoTime)
        \/ RecurringPendingHandle
    BY <1>7 DEF PendingHandle
  <2> QED
    BY <1>2, <1>3, <2>1, <2>2 DEF Results, TypeOK
<1> QED
  BY <1>3, <1>4, <1>5, <1>6, <1>7 DEF Dispatch

\* People.
LEMMA UserStepType ==
    ASSUME TypeOK, UserStep
    PROVE  TypeOK'
<1>1. /\ obj \in Breakglasses
      /\ patches \in [count : 0 .. MaxPatches, edited : Times]
  BY DEF TypeOK, ClusterTypeOK
<1>2. LocalTypeOK'
  BY DEF UserStep, recVars, queueVars, TypeOK, LocalTypeOK
<1>3. CASE Approve
  <2>1. [obj EXCEPT !.status.approvedBy = "human"] \in Breakglasses
    BY <1>1 DEF Breakglasses, Statuses, Approvers
  <2> QED
    BY <1>1, <1>2, <1>3, <2>1, StoreType DEF Approve, TypeOK
<1>4. CASE PatchConditions
  <2>1. \A c \in Patched : [obj EXCEPT !.status.conds = <<c>>] \in Breakglasses
    <3> SUFFICES ASSUME NEW c \in Patched
                 PROVE  [obj EXCEPT !.status.conds = <<c>>] \in Breakglasses
      OBVIOUS
    <3> DEFINE conds == <<c>>
    <3>1. conds \in Seq(ConditionTypes)
      BY PatchedAssumption
    <3> HIDE DEF conds
    <3>2. [obj EXCEPT !.status.conds = conds] \in Breakglasses
      BY <1>1, <3>1 DEF Breakglasses, Statuses
    <3> QED
      BY <3>2 DEF conds
  <2>2. patches' \in [count : 0 .. MaxPatches, edited : Times]
    BY <1>1, <1>4, BoundsAssumption DEF PatchConditions
  <2>3. PICK c \in Patched : Store([obj EXCEPT !.status.conds = <<c>>], FALSE)
    BY <1>4 DEF PatchConditions
  <2>4. /\ now' \in 0 .. MaxTime /\ cache' \in Breakglasses
        /\ rbac' \subseteq Resources /\ rbacCache' \subseteq Resources
        /\ faults' \in 0 .. MaxFaults
    BY <1>4 DEF PatchConditions, TypeOK, ClusterTypeOK
  <2>5. [obj EXCEPT !.status.conds = <<c>>] \in Breakglasses
    BY <2>1
  <2>6. /\ obj' \in Breakglasses /\ cacheFresh' \in BOOLEAN /\ bgFresh' \in BOOLEAN
    BY <2>3, <2>5 DEF Store, TypeOK, ClusterTypeOK
  <2> QED
    BY <1>2, <2>2, <2>4, <2>6 DEF TypeOK, ClusterTypeOK
<1>5. CASE Delete
  <2>1. /\ [obj EXCEPT !.deleting = TRUE] \in Breakglasses
        /\ [obj EXCEPT !.deleting = TRUE, !.exists = FALSE] \in Breakglasses
    BY <1>1 DEF Breakglasses
  <2> QED
    BY <1>1, <1>2, <1>5, <2>1, StoreType DEF Delete, TypeOK
<1>6. CASE Edit
  <2>1. PICK d \in Durations : Store([obj EXCEPT !.spec.duration = d], FALSE)
    BY <1>6 DEF Edit
  <2>2. [obj EXCEPT !.spec.duration = d] \in Breakglasses
    BY <1>1, DurationsAssumption DEF Breakglasses, Specs
  <2>3. patches' \in [count : 0 .. MaxPatches, edited : Times]
    BY <1>1, <1>6, BoundsAssumption, MaxTimeAssumption
    DEF Edit, TypeOK, ClusterTypeOK, Times
  <2> QED
    BY <1>2, <1>6, <2>1, <2>2, <2>3, StoreType DEF Edit, TypeOK
<1> QED
  BY <1>3, <1>4, <1>5, <1>6 DEF UserStep, User

\* The controller runtime and the clock.
LEMMA RuntimeType ==
    ASSUME TypeOK, WatchEvent \/ WatchRbac \/ FireTimer \/ Resync \/ Crash \/ Tick
    PROVE  TypeOK'
<1> USE DEF TypeOK, ClusterTypeOK, LocalTypeOK, clusterVars, recVars, queueVars
<1>1. CASE WatchEvent
  BY <1>1 DEF WatchEvent, DeliverObj
<1>2. CASE WatchRbac
  BY <1>2 DEF WatchRbac, DeliverRbac
<1>3. CASE FireTimer
  BY <1>3 DEF FireTimer, Times
<1>4. CASE Resync
  BY <1>4 DEF Resync
<1>5. CASE Crash
  <2>1. faults' \in 0 .. MaxFaults
    BY <1>5, FaultType DEF Crash
  <2> QED
    BY <1>5, <2>1, NoBreakglassType
    DEF Crash, Ended, Calls, Kinds, FirstKind, Callers, Results, Times
<1>6. CASE Tick
  BY <1>6, MaxTimeAssumption DEF Tick
<1> QED
  BY <1>1, <1>2, <1>3, <1>4, <1>5, <1>6

-----------------------------------------------------------------------------
(* Type correctness.                                                       *)

\* The initial states are well-typed.
LEMMA InitType == Init => TypeOK
<1> SUFFICES ASSUME Init PROVE TypeOK
  OBVIOUS
<1>1. NewStatus \in Statuses(Resources)
  BY DEF NewStatus, Statuses, Approvers, Times
<1>2. PICK spec \in InitSpecs : obj = NewBreakglass(spec)
  BY DEF Init, ClusterInit
<1>3. obj \in Breakglasses
  BY <1>1, <1>2, InitSpecsAssumption DEF NewBreakglass, Breakglasses
<1>4. ClusterTypeOK
  <2>1. /\ now \in 0 .. MaxTime /\ faults \in 0 .. MaxFaults
        /\ patches \in [count : 0 .. MaxPatches, edited : Times]
    BY MaxTimeAssumption, BoundsAssumption DEF Init, ClusterInit, Times
  <2>2. cache = obj /\ rbac = {} /\ rbacCache = {}
    BY DEF Init, ClusterInit
  <2>3. cacheFresh \in BOOLEAN /\ bgFresh \in BOOLEAN
    BY Zenon DEF Init, ClusterInit
  <2> QED
    BY <1>3, <2>1, <2>2, <2>3 DEF ClusterTypeOK
<1>5. LocalTypeOK
  BY NoBreakglassType
  DEF Init, LocalTypeOK, Calls, Kinds, FirstKind, Callers, Results, Times
<1> QED
  BY <1>4, <1>5 DEF TypeOK

\* Every step keeps the types.
LEMMA NextType == TypeOK /\ [Next]_vars => TypeOK'
<1> SUFFICES ASSUME TypeOK, [Next]_vars PROVE TypeOK'
  OBVIOUS
<1>1. CASE Controller
  BY <1>1, BeginType, AddFinalizerType, DropFinalizerType, ListType,
     DeleteResourceType, CreateResourceType, RecordResourcesType,
     ActivateType, WriteStatusType, DispatchType DEF Controller
<1>2. CASE UserStep
  BY <1>2, UserStepType
<1>3. CASE WatchEvent \/ WatchRbac \/ FireTimer \/ Resync \/ Crash \/ Tick
  BY <1>3, RuntimeType
<1>4. CASE UNCHANGED vars
  BY <1>4 DEF vars, clusterVars, recVars, queueVars, TypeOK, ClusterTypeOK, LocalTypeOK
<1> QED
  BY <1>1, <1>2, <1>3, <1>4 DEF Next

\* Every copy of the Breakglass, stored, cached or being reconciled, stays a
\* well-formed record, and the queue and the locals keep their types.
THEOREM TypeCorrect == Spec => []TypeOK
BY InitType, NextType, PTL DEF Spec
=============================================================================
