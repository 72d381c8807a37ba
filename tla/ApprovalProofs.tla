--------------------------- MODULE ApprovalProofs ---------------------------
(***************************************************************************)
(* The approval gate, proved for every value of the constants: any number  *)
(* of cluster roles and policies, any cron, any faults, stale caches,      *)
(* crashes and patches.  ApprovalInv is the inductive invariant.           *)
(***************************************************************************)
EXTENDS ReconcilerProofs

USE DEF NoTime, NoMax

-----------------------------------------------------------------------------
(* The operators that change a Breakglass leave its approval alone.        *)

SameApproval(x, y) ==
    /\ x.spec.approval = y.spec.approval
    /\ x.status.approvedBy = y.status.approvedBy

\* Setting a condition.
LEMMA SetConditionKeeps ==
    ASSUME NEW b \in Breakglasses, NEW c
    PROVE  SameApproval(SetCondition(b, c), b)
BY DEF SetCondition, SameApproval, Breakglasses, Specs, Statuses

\* Setting Pending does not take a Breakglass out of its wait.
LEMMA SetPendingWaits ==
    ASSUME NEW b \in Breakglasses, Waits(b)
    PROVE  Waits(SetCondition(b, "Pending"))
<1> DEFINE conds == SetStatusCondition(b.status.conds, "Pending")
           new == SetCondition(b, "Pending")
<1>1. SameApproval(new, b)
  BY SetConditionKeeps
<1>2. CASE Cleared(b)
  BY <1>1, <1>2 DEF Waits, Cleared, Approved, SameApproval
<1>3. CASE ~Cleared(b)
  <2>1. b.status.conds \in Seq(ConditionTypes)
    BY DEF Breakglasses, Statuses
  <2>2. \A i \in DOMAIN b.status.conds : b.status.conds[i] \in Unprivileged
    BY <1>3 DEF Waits
  <2>3. \A i \in DOMAIN conds : conds[i] \in Unprivileged
    BY <2>1, <2>2 DEF SetStatusCondition, Unprivileged, ConditionTypes
  <2>4. new.status.conds = conds
    BY DEF SetCondition, Breakglasses, Statuses
  <2>5. new.status.approvedBy = ""
    BY <1>1, <1>3 DEF SameApproval, Waits
  <2> QED
    BY <2>3, <2>4, <2>5 DEF Waits
<1> QED
  BY <1>2, <1>3

\* Scheduling an activation.
LEMMA ScheduleAtKeeps ==
    ASSUME NEW b \in Breakglasses, NEW t \in Times
    PROVE  SameApproval(ScheduleAt(b, t), b)
<1> DEFINE x == [b EXCEPT !.status.nextAt = t]
<1>1. x \in Breakglasses
  BY DEF Breakglasses, Statuses
<1>2. SameApproval(x, b)
  BY DEF SameApproval, Breakglasses, Specs, Statuses
<1> HIDE DEF x
<1>3. SameApproval(SetCondition(x, "RecurringPending"), x)
  BY <1>1, SetConditionKeeps
<1> QED
  BY <1>2, <1>3 DEF ScheduleAt, SameApproval, x

\* ProcessRecurring.
LEMMA ProcessRecurringKeeps ==
    ASSUME NEW b \in Breakglasses, NEW t \in Nat
    PROVE  SameApproval(ProcessRecurring(b, t), b)
<1>1. /\ b.spec.cron \in {"none", "valid", "invalid"}
      /\ b.spec.start \in Times
  BY DEF Breakglasses, Specs
<1>2. SameApproval(b, b)
  BY DEF SameApproval
<1>3. \A c : SameApproval(SetCondition(b, c), b)
  BY SetConditionKeeps
<1>4. SameApproval(StopRecurrence(b), b)
  <2> DEFINE x == [b EXCEPT !.status.nextAt = NoTime]
  <2>1. x \in Breakglasses
    BY DEF Breakglasses, Statuses, Times
  <2>2. SameApproval(x, b)
    BY DEF SameApproval, Breakglasses, Specs, Statuses
  <2> HIDE DEF x
  <2>3. SameApproval(SetCondition(x, "Failed"), b)
    BY <2>1, <2>2, SetConditionKeeps DEF SameApproval
  <2> QED
    BY <2>3 DEF x, StopRecurrence
<1>5. SameApproval(ProcessOneShot(b, t), b)
  BY <1>1, <1>2, <1>3, ScheduleAtKeeps DEF ProcessOneShot, Times
<1>6. SameApproval(HandleInitialActivation(b, t), b)
  <2>1. FindPrevActivation(t) \in Times
    BY TickTypes
  <2>2. CalculateNextActivation(b, t) \in Times
    BY NextActivationType
  <2> QED
    BY <2>1, <2>2, ScheduleAtKeeps DEF HandleInitialActivation
<1>7. SameApproval(ProcessCron(b, t), b)
  BY <1>2, <1>3, <1>6, NextActivationType, ScheduleAtKeeps DEF ProcessCron
<1> QED
  BY <1>1, <1>3, <1>4, <1>5, <1>7 DEF ProcessRecurring

\* OnActivationGranted.
LEMMA OnActivationGrantedKeeps ==
    ASSUME NEW b \in Breakglasses
    PROVE  SameApproval(OnActivationGranted(b), b)
<1> DEFINE x == [b EXCEPT !.status.count = @ + 1]
<1>1. x \in Breakglasses
  BY DEF Breakglasses, Statuses
<1>2. SameApproval(x, b)
  BY DEF SameApproval, Breakglasses, Specs, Statuses
<1> HIDE DEF x
<1>3. SameApproval([b EXCEPT !.status.nextAt = NoTime, !.status.count = @ + 1], b)
  <2> DEFINE s == [b.status EXCEPT !.nextAt = NoTime, !.count = @ + 1]
             y == [b EXCEPT !.status.nextAt = NoTime, !.status.count = @ + 1]
  <2>1. s.approvedBy = b.status.approvedBy
    BY DEF Breakglasses, Statuses
  <2>2. y.status = s /\ y.spec = b.spec
    BY DEF Breakglasses
  <2> HIDE DEF s, y
  <2>3. SameApproval(y, b)
    BY <2>1, <2>2 DEF SameApproval
  <2> QED
    BY <2>3 DEF y
<1>4. b.status.grantedAt \in Int
  BY DEF Breakglasses, Statuses, Times
<1>5. CalculateNextActivation(b, b.status.grantedAt) \in Times
  BY <1>4, NextActivationType
<1>6. SameApproval(ScheduleAt(x, CalculateNextActivation(b, b.status.grantedAt)), b)
  BY <1>1, <1>2, <1>5, ScheduleAtKeeps DEF SameApproval
<1> QED
  BY <1>3, <1>6 DEF OnActivationGranted, x

-----------------------------------------------------------------------------
(* What a step of a reconcile does to its working copy.                    *)

\* The reconcile ends, or its next copy has the same approval, waits if it has
\* to and grants only if it may.
WorkingStep ==
    \/ pc' = "idle"
    \/ /\ bg'.spec.approval = bg.spec.approval
       /\ Approved(bg)' <=> Approved(bg)
       /\ Waits(bg)'
       /\ Granting' => Cleared(bg)'

\* The stored approval is as before, and no new right to write it arose.
StoredKept ==
    /\ obj'.spec.approval = obj.spec.approval
    /\ Approved(obj)' <=> Approved(obj)
    /\ bgFresh' => bgFresh

\* Such a step preserves the part of the invariant about the working copy.
LEMMA WorkingKept ==
    ASSUME WorkingApproval, pc # "idle", WorkingStep, StoredKept
    PROVE  WorkingApproval'
BY DEF WorkingApproval, WorkingStep, StoredKept

\* A call that leaves the copy alone.
LEMMA GotoWorks ==
    ASSUME WorkingApproval, pc # "idle", NEW c, NEW b,
           SameApproval(b, bg), Waits(b),
           Cleared(bg) \/ (c \notin {"create", "record", "activate", "list", "delete"})
                       \/ (c \in {"list", "delete"} /\ caller # "expire"),
           Goto(c, b)
    PROVE  WorkingStep
BY DEF Goto, WorkingStep, SameApproval, Approved, Cleared, Waits, Granting

\* A status update with Pending, or of a cleared request with any condition.
LEMMA UpdateStatusWorks ==
    ASSUME WorkingApproval, pc # "idle", NEW b \in Breakglasses, NEW c, NEW r, NEW t,
           b.spec.approval = bg.spec.approval, Approved(b) <=> Approved(bg),
           Cleared(b) \/ (c = "Pending" /\ Waits(b)),
           UpdateStatus(b, c, r, t)
    PROVE  WorkingStep
<1>1. SameApproval(SetCondition(b, c), b)
  BY SetConditionKeeps
<1>2. Waits(SetCondition(b, c))
  <2>1. CASE Cleared(b)
    BY <1>1, <2>1 DEF Waits, Cleared, Approved, SameApproval
  <2>2. CASE c = "Pending" /\ Waits(b)
    BY <2>2, SetPendingWaits
  <2> QED
    BY <2>1, <2>2
<1>3. pc' = "status" /\ bg' = SetCondition(b, c)
  BY DEF UpdateStatus
<1> QED
  BY <1>1, <1>2, <1>3 DEF WorkingStep, SameApproval, Approved, Waits, Cleared, Granting

\* Ending the reconcile.
LEMMA ReturnWorks ==
    ASSUME NEW r, NEW d, Return(r, d)
    PROVE  WorkingStep
BY DEF Return, Ended, WorkingStep

\* ReturnUntil is a Return.
LEMMA ReturnUntilWorks ==
    ASSUME NEW r, NEW t, ReturnUntil(r, t)
    PROVE  WorkingStep
BY ReturnWorks DEF ReturnUntil

\* GrantAccess is only called for a cleared request.
LEMMA GrantAccessWorks ==
    ASSUME WorkingApproval, pc # "idle", NEW b, SameApproval(b, bg), Cleared(bg),
           GrantAccess(b)
    PROVE  WorkingStep
<1>1. Waits(b)
  BY DEF Waits, Cleared, Approved, SameApproval
<1>2. \E c : Goto(c, b)
  BY DEF GrantAccess
<1> QED
  BY <1>1, <1>2, GotoWorks

\* The handler of RecurringPending, reached only by a cleared request.
LEMMA RecurringPendingWorks ==
    ASSUME TypeOK, WorkingApproval, pc # "idle", Cleared(bg), RecurringPendingHandle
    PROVE  WorkingStep
<1> DEFINE b == ProcessRecurring(bg, now)
<1>1. bg \in Breakglasses /\ now \in Nat
  BY DEF TypeOK, LocalTypeOK, ClusterTypeOK
<1>2. SameApproval(b, bg)
  BY <1>1, ProcessRecurringKeeps
<1> HIDE DEF b
<1>3. CASE UpdateStatus(bg, "RecurringPending", "requeue", NoTime)
  BY <1>1, <1>3, UpdateStatusWorks
<1>4. CASE Return("error", 0)
  BY <1>4, ReturnWorks
<1>5. CASE GrantAccess(b)
  BY <1>2, <1>5, GrantAccessWorks
<1>6. CASE ReturnUntil("after", b.status.nextAt)
  BY <1>6, ReturnUntilWorks
<1> QED
  BY <1>3, <1>4, <1>5, <1>6 DEF RecurringPendingHandle, b

\* The last position of a sequence that is not empty.
LEMMA LastIndex ==
    ASSUME NEW S, NEW s \in Seq(S), s # << >>
    PROVE  Len(s) \in DOMAIN s
<1>1. Len(s) \in Nat /\ DOMAIN s = 1 .. Len(s)
  OBVIOUS
<1>2. Len(s) # 0
  OBVIOUS
<1> QED
  BY <1>1, <1>2

\* A current condition that is not Unprivileged belongs to a cleared request.
LEMMA ConditionCleared ==
    ASSUME NEW b \in Breakglasses, Waits(b),
           CurrentCondition(b) \in {"Active", "RecurringActive", "RecurringPending"}
    PROVE  Cleared(b)
<1>1. b.status.conds \in Seq(ConditionTypes)
  BY DEF Breakglasses, Statuses
<1>2. /\ b.status.conds # << >>
      /\ b.status.conds[Len(b.status.conds)] \notin Unprivileged
  BY DEF CurrentCondition, Unprivileged
<1>3. Len(b.status.conds) \in DOMAIN b.status.conds
  BY <1>1, <1>2, LastIndex
<1> QED
  BY <1>2, <1>3 DEF Waits

\* Whatever the handler, the working copy keeps to the rules.
LEMMA DispatchWorks ==
    ASSUME TypeOK, WorkingApproval, Dispatch
    PROVE  WorkingStep
<1>1. bg \in Breakglasses /\ pc # "idle"
  BY DEF TypeOK, LocalTypeOK, Dispatch
<1>2. Waits(bg)
  BY <1>1 DEF WorkingApproval
<1> DEFINE cond == CurrentCondition(bg)
<1>3. CASE HandlerFor(cond) = "recurringPending" /\ RecurringPendingHandle
  <2>1. Cleared(bg)
    BY <1>1, <1>2, <1>3, ConditionCleared DEF HandlerFor
  <2> QED
    BY <1>1, <1>3, <2>1, RecurringPendingWorks
<1>4. CASE HandlerFor(cond) = "recurringActive" /\ RecurringActiveHandle
  <2>1. Cleared(bg)
    BY <1>1, <1>2, <1>4, ConditionCleared DEF HandlerFor
  <2>2. CASE StartCleanup("expire", bg)
    BY <1>2, <2>1, <2>2 DEF StartCleanup, WorkingStep, Approved, Cleared, Waits
  <2>3. CASE \E r, d : Return(r, d)
    BY <2>3, ReturnWorks
  <2>4. CASE \E r, t : ReturnUntil(r, t)
    BY <2>4, ReturnUntilWorks
  <2> QED
    BY <1>4, <2>2, <2>3, <2>4 DEF RecurringActiveHandle
<1>5. CASE ApprovedHandle
  <2>1. CASE bg.status.approvedBy = ""
    BY <1>1, <1>2, <1>5, <2>1, UpdateStatusWorks DEF ApprovedHandle
  <2>2. CASE bg.status.approvedBy # ""
    <3>1. Cleared(bg)
      BY <1>2, <2>2 DEF Waits
    <3> QED
      BY <1>1, <1>5, <2>2, <3>1, RecurringPendingWorks DEF ApprovedHandle
  <2> QED
    BY <2>1, <2>2
<1>6. CASE TerminalHandle
  BY <1>6, ReturnWorks DEF TerminalHandle
<1>7. CASE PendingHandle
  <2>1. CASE \E r, t : UpdateStatus(bg, "Pending", r, t)
    BY <1>1, <1>2, <2>1, UpdateStatusWorks
  <2>2. CASE ~(\E r, t : UpdateStatus(bg, "Pending", r, t))
    <3>1. ~(bg.spec.approval = "required" /\ bg.status.approvedBy = "")
      BY <1>7, <2>2 DEF PendingHandle
    <3>2. RecurringPendingHandle
      BY <1>7, <2>2 DEF PendingHandle
    <3>3. Cleared(bg)
      BY <1>2, <3>1 DEF Waits, Cleared
    <3> QED
      BY <1>1, <3>2, <3>3, RecurringPendingWorks
  <2> QED
    BY <2>1, <2>2
<1> QED
  BY <1>3, <1>4, <1>5, <1>6, <1>7 DEF Dispatch

\* The steps of CleanupResources.
LEMMA CleanupWorks ==
    ASSUME TypeOK, WorkingApproval, pc \in {"list", "delete"},
           KindDone \/ (\E o : CleanupFailed(o)) \/ Goto("delete", bg)
    PROVE  WorkingStep
<1>1. bg \in Breakglasses /\ pc # "idle" /\ SameApproval(bg, bg)
  BY DEF TypeOK, LocalTypeOK, SameApproval
<1>2. Waits(bg) /\ (caller = "expire" => Cleared(bg))
  BY <1>1 DEF WorkingApproval, Granting
<1>3. CASE Goto("delete", bg)
  BY <1>1, <1>2, <1>3, GotoWorks
<1>4. CASE \E o : CleanupFailed(o)
  <2>1. PICK o : CleanupFailed(o)
    BY <1>4
  <2>2. CASE Goto("dispatch", bg)
    BY <1>1, <1>2, <2>2, GotoWorks
  <2>3. CASE Return("after", Backoff)
    BY <2>3, ReturnWorks
  <2>4. CASE caller = "expire" /\ UpdateStatus(bg, "Failed", "error", NoTime)
    BY <1>1, <1>2, <2>4, UpdateStatusWorks
  <2> QED
    BY <2>1, <2>2, <2>3, <2>4 DEF CleanupFailed
<1>5. CASE KindDone
  <2>1. CASE pc' = "list" /\ UNCHANGED <<bg, caller>>
    BY <1>2, <2>1 DEF WorkingStep, Granting, Approved, Cleared, Waits
  <2>2. CASE StartCleanup("cleanup", bg)
    BY <1>2, <2>2 DEF StartCleanup, WorkingStep, Granting, Approved, Cleared, Waits
  <2>3. CASE Goto("dropFinalizer", bg)
    BY <1>1, <1>2, <2>3, GotoWorks
  <2>4. CASE caller = "expire" /\ PostRevoke
    <3> DEFINE x == [bg EXCEPT !.status.expiresAt = NoTime]
               y == [bg EXCEPT !.status.expiresAt = FinalCompletionTime(bg, now),
                               !.status.nextAt = NoTime]
    <3>1. now \in Nat
      BY DEF TypeOK, ClusterTypeOK
    <3>2. x \in Breakglasses /\ SameApproval(x, bg)
      BY <1>1 DEF Breakglasses, Specs, Statuses, Times, SameApproval
    <3>3. y \in Breakglasses /\ SameApproval(y, bg)
      <4> DEFINE end == FinalCompletionTime(bg, now)
                 s == [bg.status EXCEPT !.expiresAt = end, !.nextAt = NoTime]
      <4>1. end \in Times
        BY <1>1, <3>1, WindowEndType DEF FinalCompletionTime
      <4> HIDE DEF end
      <4>2. s \in Statuses(Resources) /\ s.approvedBy = bg.status.approvedBy
        BY <1>1, <4>1 DEF Breakglasses, Statuses, Times
      <4>3. y = [bg EXCEPT !.status = s]
        BY <1>1 DEF end, Breakglasses
      <4> HIDE DEF s, y
      <4> QED
        BY <1>1, <4>2, <4>3 DEF Breakglasses, SameApproval
    <3>4. /\ Cleared(x) /\ Cleared(y)
          /\ Approved(x) <=> Approved(bg)
          /\ Approved(y) <=> Approved(bg)
      <4> HIDE DEF x, y
      <4> QED
        BY <1>2, <2>4, <3>2, <3>3 DEF SameApproval, Cleared, Approved
    <3>5. \E r, t : \/ UpdateStatus(x, "RecurringPending", r, t)
                    \/ UpdateStatus(y, "Expired", r, t)
      BY <2>4 DEF PostRevoke, TransitionToRecurringPending, MarkExpired
    <3> HIDE DEF x, y
    <3> QED
      BY <1>1, <3>2, <3>3, <3>4, <3>5, UpdateStatusWorks DEF SameApproval
  <2> QED
    BY <1>5, <2>1, <2>2, <2>3, <2>4 DEF KindDone, CleanupDone
<1> QED
  BY <1>3, <1>4, <1>5

-----------------------------------------------------------------------------
(* Writes.                                                                 *)

\* The controller's Updates neither add nor erase an approval: the version
\* check lets only a copy through that shows the stored one.
LEMMA UpdateObjKeeps ==
    ASSUME ApprovalInv, pc # "idle", NEW new, NEW o,
           new.spec.approval = obj.spec.approval,
           new.status = obj.status \/ new.status = bg.status,
           UpdateObj(new, o), UNCHANGED <<rbac, cache>>
    PROVE  StoredApproval' /\ StoredKept
<1>1. bg.spec.approval = obj.spec.approval /\ Waits(bg) /\ Waits(obj)
  BY DEF ApprovalInv, StoredApproval, WorkingApproval
<1>2. \/ UNCHANGED <<obj, cacheFresh, bgFresh>>
      \/ bgFresh /\ \E own : Store(new, own)
  BY DEF UpdateObj
<1>3. CASE UNCHANGED <<obj, cacheFresh, bgFresh>>
  BY <1>3 DEF ApprovalInv, StoredApproval, StoredKept, Waits, Cleared, Approved, Access
<1>4. CASE bgFresh /\ \E own : Store(new, own)
  <2>1. Approved(new) <=> Approved(obj)
    BY <1>4 DEF ApprovalInv, WorkingApproval, Approved
  <2>2. Waits(new)
    <3>1. CASE new.status = obj.status
      BY <1>1, <3>1 DEF Waits, Cleared, Approved
    <3>2. CASE new.status = bg.status
      BY <1>1, <3>2 DEF Waits, Cleared, Approved
    <3> QED
      BY <3>1, <3>2
  <2>3. obj' = new /\ (cacheFresh' => cacheFresh /\ new = obj) /\ bgFresh
    BY <1>4 DEF Store
  <2>4. StoredKept
    BY <2>1, <2>3 DEF StoredKept, Approved
  <2>5. Cleared(obj) => Cleared(new)
    BY <2>1 DEF Cleared
  <2>6. StoredApproval'
    BY <2>1, <2>2, <2>3, <2>5
    DEF ApprovalInv, StoredApproval, Waits, Cleared, Approved, Access
  <2> QED
    BY <2>4, <2>6
<1> QED
  BY <1>2, <1>3, <1>4

\* So it is for each of the four Updates: the finalizer updates write the spec
\* of the working copy, the status updates its status.
LEMMA WriterKeeps ==
    ASSUME TypeOK, ApprovalInv,
           AddFinalizer \/ DropFinalizer \/ RecordResources \/ WriteStatus
    PROVE  StoredApproval' /\ StoredKept
<1> DEFINE added   == [obj EXCEPT !.finalizer = TRUE, !.spec = bg.spec]
           dropped == [obj EXCEPT !.finalizer = FALSE, !.exists = FALSE,
                                  !.spec = bg.spec]
           written == [obj EXCEPT !.status = bg.status]
<1>1. obj \in Breakglasses /\ bg \in Breakglasses /\ pc # "idle"
  BY DEF TypeOK, ClusterTypeOK, LocalTypeOK,
         AddFinalizer, DropFinalizer, RecordResources, WriteStatus
<1>2. bg.spec.approval = obj.spec.approval
  BY <1>1 DEF ApprovalInv, WorkingApproval
<1>3. /\ added.spec.approval = obj.spec.approval /\ added.status = obj.status
      /\ dropped.spec.approval = obj.spec.approval /\ dropped.status = obj.status
      /\ written.spec.approval = obj.spec.approval /\ written.status = bg.status
  BY <1>1, <1>2 DEF Breakglasses
<1> HIDE DEF added, dropped, written
<1>4. /\ \E o : \/ UpdateObj(added, o) \/ UpdateObj(dropped, o)
                \/ UpdateObj(written, o)
      /\ UNCHANGED <<rbac, cache>>
  BY DEF AddFinalizer, DropFinalizer, RecordResources, WriteStatus,
         added, dropped, written
<1> QED
  BY <1>1, <1>3, <1>4, UpdateObjKeeps

\* Nothing changes in the stored objects but the RBAC objects, and those only
\* grow while a cleared request is being granted.
LEMMA RbacKeeps ==
    ASSUME ApprovalInv, UNCHANGED <<obj, cache, cacheFresh, bgFresh>>,
           Access' => Access \/ Cleared(obj)
    PROVE  StoredApproval' /\ StoredKept
BY DEF ApprovalInv, StoredApproval, StoredKept, Waits, Cleared, Approved

-----------------------------------------------------------------------------
(* The actions.                                                            *)

\* Begin: the copy of the cache is as good as the cache.
LEMMA BeginApproval ==
    ASSUME TypeOK, ApprovalInv, Begin
    PROVE  ApprovalInv'
<1> DEFINE b == DefaultStart(cache)
<1>1. cache \in Breakglasses
  BY DEF TypeOK, ClusterTypeOK
<1>2. SameApproval(b, cache) /\ b.status = cache.status
  BY <1>1 DEF DefaultStart, SameApproval, Breakglasses, Specs
<1>3. Waits(b) /\ (Approved(b) <=> Approved(cache))
  BY <1>2 DEF ApprovalInv, StoredApproval, Waits, Cleared, Approved, SameApproval
<1>4. StoredApproval'
  BY DEF Begin, ApprovalInv, StoredApproval, Waits, Cleared, Approved, Access
<1>5. \/ UNCHANGED recVars /\ pc = "idle"
      \/ /\ bg' = b \/ bg' = [b EXCEPT !.finalizer = TRUE]
         /\ ~Granting'
  <2>1. CASE UNCHANGED recVars
    BY <2>1 DEF Begin
  <2>2. CASE StartCleanup("revoke", b)
    BY <2>2 DEF StartCleanup, Granting
  <2>3. CASE \/ pc' = "dispatch" /\ bg' = b
             \/ pc' = "addFinalizer" /\ bg' = [b EXCEPT !.finalizer = TRUE]
    BY <2>3 DEF Granting
  <2> HIDE DEF b
  <2> QED
    BY <2>1, <2>2, <2>3 DEF Begin, b
<1>6. CASE UNCHANGED recVars /\ pc = "idle"
  BY <1>4, <1>6 DEF ApprovalInv, WorkingApproval, recVars
<1>7. CASE (bg' = b \/ bg' = [b EXCEPT !.finalizer = TRUE]) /\ ~Granting'
  <2> HIDE DEF b
  <2>1. SameApproval(bg, b)' /\ bg'.status = b.status
    <3>1. b \in Breakglasses
      BY <1>1 DEF b, DefaultStart, Breakglasses, Specs, Times, TypeOK, ClusterTypeOK
    <3>2. SameApproval([b EXCEPT !.finalizer = TRUE], b)
      BY <3>1 DEF SameApproval, Breakglasses
    <3>3. b' = b
      BY DEF b, DefaultStart, Begin
    <3> QED
      BY <1>7, <3>1, <3>2, <3>3 DEF SameApproval, Breakglasses
  <2>2. b' = b
    BY DEF b, DefaultStart, Begin
  <2>3. bg'.spec.approval = b.spec.approval
    BY <2>1, <2>2 DEF SameApproval
  <2>4. UNCHANGED obj /\ bgFresh' = cacheFresh
    BY DEF Begin
  <2>5. Waits(bg)'
    BY <1>3, <2>1, <2>3 DEF Waits, Cleared, Approved
  <2>6. Approved(bg)' <=> Approved(cache)
    BY <1>3, <2>1 DEF Approved
  <2>7. WorkingApproval'
    BY <1>2, <1>7, <2>3, <2>4, <2>5, <2>6
    DEF WorkingApproval, ApprovalInv, StoredApproval, SameApproval, Approved
  <2> QED
    BY <1>4, <2>7 DEF ApprovalInv
<1> QED
  BY <1>5, <1>6, <1>7

\* The other steps of a reconcile.
LEMMA StepApproval ==
    ASSUME ApprovalInv, pc # "idle", StoredApproval', StoredKept, WorkingStep
    PROVE  ApprovalInv'
BY WorkingKept DEF ApprovalInv

\* The finalizer updates.
LEMMA FinalizerApproval ==
    ASSUME TypeOK, ApprovalInv, AddFinalizer \/ DropFinalizer
    PROVE  ApprovalInv'
<1> DEFINE b == [bg EXCEPT !.finalizer = FALSE]
<1>1. bg \in Breakglasses /\ pc # "idle"
  BY DEF TypeOK, LocalTypeOK, AddFinalizer, DropFinalizer
<1>2. Waits(bg)
  BY <1>1 DEF ApprovalInv, WorkingApproval
<1>3. SameApproval(b, bg) /\ b.status = bg.status
  BY <1>1 DEF Breakglasses, SameApproval
<1> HIDE DEF b
<1>4. Waits(b)
  BY <1>2, <1>3 DEF SameApproval, Waits, Cleared, Approved
<1>5. Goto("dispatch", b) \/ \E r : Return(r, 0)
  BY DEF AddFinalizer, DropFinalizer, b
<1>6. WorkingStep
  BY <1>1, <1>3, <1>4, <1>5, GotoWorks, ReturnWorks DEF ApprovalInv
<1> QED
  BY <1>1, <1>6, WriterKeeps, StepApproval

\* The cleanup, which only removes access.
LEMMA CleanupApproval ==
    ASSUME TypeOK, ApprovalInv, List \/ DeleteResource
    PROVE  ApprovalInv'
<1>1. pc \in {"list", "delete"} /\ UNCHANGED <<obj, cache, cacheFresh, bgFresh>>
  BY DEF List, DeleteResource
<1>2. Access' => Access
  BY DEF List, DeleteResource, UpdateRbac, Access
<1>3. KindDone \/ (\E o : CleanupFailed(o)) \/ Goto("delete", bg)
  BY DEF List, DeleteResource
<1>4. WorkingStep
  BY <1>1, <1>3, CleanupWorks DEF ApprovalInv
<1> QED
  BY <1>1, <1>2, <1>4, RbacKeeps, StepApproval

\* Creating an RBAC object: the request is cleared.
LEMMA CreateApproval ==
    ASSUME TypeOK, ApprovalInv, CreateResource
    PROVE  ApprovalInv'
<1> DEFINE b == [bg EXCEPT !.status.created = @ \cup ToCreate(@)]
<1>1. bg \in Breakglasses /\ pc # "idle"
  BY DEF TypeOK, LocalTypeOK, CreateResource
<1>2. Cleared(bg)
  BY DEF ApprovalInv, WorkingApproval, CreateResource, Granting
<1>3. Cleared(obj)
  BY <1>1, <1>2 DEF ApprovalInv, WorkingApproval, Cleared
<1>4. StoredApproval' /\ StoredKept
  BY <1>3, RbacKeeps DEF CreateResource
<1>5. SameApproval(b, bg) /\ SameApproval(bg, bg)
  BY <1>1 DEF SameApproval, Breakglasses, Specs, Statuses
<1> HIDE DEF b
<1>6. Waits(b) /\ Waits(bg)
  BY <1>2, <1>5 DEF Waits, Cleared, Approved, SameApproval
<1>7. \/ Goto("record", b) \/ Goto("create", bg)
      \/ Return("after", Backoff)
      \/ UpdateStatus(bg, "Failed", "none", NoTime)
  BY DEF CreateResource, b
<1>8. WorkingStep
  <2>1. CASE Goto("record", b) \/ Goto("create", bg)
    BY <1>1, <1>2, <1>5, <1>6, <2>1, GotoWorks DEF ApprovalInv
  <2>2. CASE Return("after", Backoff)
    BY <2>2, ReturnWorks
  <2>3. CASE UpdateStatus(bg, "Failed", "none", NoTime)
    BY <1>1, <1>2, <2>3, UpdateStatusWorks DEF ApprovalInv
  <2> QED
    BY <1>7, <2>1, <2>2, <2>3
<1> QED
  BY <1>1, <1>4, <1>8, StepApproval

\* Recording what was created.
LEMMA RecordApproval ==
    ASSUME TypeOK, ApprovalInv, RecordResources
    PROVE  ApprovalInv'
<1> DEFINE new == [obj EXCEPT !.status = bg.status]
<1>1. obj \in Breakglasses /\ bg \in Breakglasses /\ pc # "idle"
  BY DEF TypeOK, ClusterTypeOK, LocalTypeOK, RecordResources
<1>2. Cleared(bg) /\ bg.spec.approval = obj.spec.approval
  BY <1>1 DEF ApprovalInv, WorkingApproval, RecordResources, Granting
<1>3. new.spec.approval = obj.spec.approval /\ new.status = bg.status
  BY <1>1 DEF Breakglasses
<1> HIDE DEF new
<1>4. SameApproval(new, bg) /\ Waits(new)
  BY <1>2, <1>3 DEF SameApproval, Waits, Cleared, Approved
<1>5. \/ Goto("activate", new)
      \/ Return("after", Backoff)
      \/ UpdateStatus(bg, "Failed", "none", NoTime)
  BY DEF RecordResources, new
<1>6. WorkingStep
  <2>1. CASE Goto("activate", new)
    BY <1>1, <1>2, <1>4, <2>1, GotoWorks DEF ApprovalInv
  <2>2. CASE Return("after", Backoff)
    BY <2>2, ReturnWorks
  <2>3. CASE UpdateStatus(bg, "Failed", "none", NoTime)
    BY <1>1, <1>2, <2>3, UpdateStatusWorks DEF ApprovalInv
  <2> QED
    BY <1>5, <2>1, <2>2, <2>3
<1> QED
  BY <1>1, <1>6, WriterKeeps, StepApproval

\* Activate names "system" as the approver only where no person is needed.
LEMMA ActivateApproval ==
    ASSUME TypeOK, ApprovalInv, Activate
    PROVE  ApprovalInv'
<1> DEFINE by == IF bg.status.approvedBy = "" THEN "system" ELSE bg.status.approvedBy
           granted == [bg EXCEPT
                !.status.approvedBy = IF @ = "" THEN "system" ELSE @,
                !.status.grantedAt  = now,
                !.status.expiresAt  = NoTime]
           b == OnActivationGranted(granted)
<1>1. bg \in Breakglasses /\ now \in Nat /\ pc # "idle"
  BY DEF TypeOK, ClusterTypeOK, LocalTypeOK, Activate
<1>2. Cleared(bg)
  BY DEF ApprovalInv, WorkingApproval, Activate, Granting
<1>3. /\ granted \in Breakglasses
      /\ granted.spec.approval = bg.spec.approval
      /\ Approved(granted) <=> Approved(bg)
  <2> DEFINE s == [bg.status EXCEPT !.approvedBy = by, !.grantedAt = now,
                                    !.expiresAt = NoTime]
  <2>1. by \in Approvers /\ (by = "human" <=> Approved(bg))
    BY <1>1 DEF Approvers, Approved, Breakglasses, Statuses
  <2> HIDE DEF by
  <2>2. s \in Statuses(Resources) /\ s.approvedBy = by
    BY <1>1, <2>1 DEF Breakglasses, Statuses, Times
  <2>3. granted = [bg EXCEPT !.status = s]
    BY <1>1 DEF by, Breakglasses
  <2> HIDE DEF s, granted
  <2> QED
    BY <1>1, <2>1, <2>2, <2>3 DEF Breakglasses, Approved
<1> HIDE DEF granted
<1>4. b \in Breakglasses /\ SameApproval(b, granted)
  BY <1>3, OnActivationGrantedType, OnActivationGrantedKeeps
<1> HIDE DEF b
<1>5. /\ b.spec.approval = bg.spec.approval
      /\ Approved(b) <=> Approved(bg)
      /\ Cleared(b)
  BY <1>2, <1>3, <1>4 DEF SameApproval, Approved, Cleared
<1>6. \E r, t : UpdateStatus(b, "RecurringActive", r, t)
  BY DEF Activate, granted, b
<1>7. WorkingStep
  BY <1>1, <1>4, <1>5, <1>6, UpdateStatusWorks DEF ApprovalInv
<1>8. StoredApproval' /\ StoredKept
  BY RbacKeeps DEF Activate, clusterVars, Access
<1> QED
  BY <1>1, <1>7, <1>8, StepApproval

\* The status write at the end of a handler.
LEMMA WriteStatusApproval ==
    ASSUME TypeOK, ApprovalInv, WriteStatus
    PROVE  ApprovalInv'
<1>1. WorkingStep /\ pc # "idle"
  BY ReturnUntilWorks DEF WriteStatus
<1> QED
  BY <1>1, WriterKeeps, StepApproval

\* The handlers themselves write nothing.
LEMMA DispatchApproval ==
    ASSUME TypeOK, ApprovalInv, Dispatch
    PROVE  ApprovalInv'
<1>1. StoredApproval' /\ StoredKept
  BY RbacKeeps DEF Dispatch, clusterVars, Access
<1>2. WorkingStep
  BY DispatchWorks DEF ApprovalInv
<1>3. pc # "idle"
  BY DEF Dispatch
<1> QED
  BY <1>1, <1>2, <1>3, StepApproval

\* People: an approval makes every copy from before it unwritable.
LEMMA UserApproval ==
    ASSUME Guarded, TypeOK, ApprovalInv, UserStep
    PROVE  ApprovalInv'
<1>1. obj \in Breakglasses
  BY DEF TypeOK, ClusterTypeOK
<1>2. UNCHANGED <<rbac, cache, pc, bg, caller>>
  BY DEF UserStep, User, Approve, PatchConditions, Edit, Delete, recVars
<1>3. PICK new \in Breakglasses :
          /\ Store(new, FALSE)
          /\ new.spec.approval = obj.spec.approval
          /\ Waits(new)
          /\ Approved(obj) => Approved(new)
          /\ Approved(new) # Approved(obj) => new # obj
  <2>1. CASE Approve
    <3> DEFINE new == [obj EXCEPT !.status.approvedBy = "human"]
    <3>1. /\ new \in Breakglasses /\ Approved(new) /\ ~Approved(obj)
          /\ new.spec.approval = obj.spec.approval
      BY <1>1, <2>1 DEF Approve, Approved, Breakglasses, Specs, Statuses, Approvers
    <3>2. Store(new, FALSE)
      BY <2>1 DEF Approve
    <3> HIDE DEF new
    <3>3. new # obj /\ Waits(new)
      BY <3>1 DEF Waits, Cleared
    <3> QED
      BY <3>1, <3>2, <3>3
  <2>2. CASE PatchConditions
    <3>0. PICK c \in Patched : Store([obj EXCEPT !.status.conds = <<c>>], FALSE)
      BY <2>2 DEF PatchConditions
    <3> DEFINE conds == <<c>>
               new == [obj EXCEPT !.status.conds = conds]
    <3>1. conds \in Seq(ConditionTypes) /\ \A i \in DOMAIN conds : conds[i] \in Unprivileged
      BY <2>2, PatchedAssumption DEF PatchConditions, Guarded
    <3>2. Store(new, FALSE)
      BY <3>0
    <3> HIDE DEF conds
    <3>3. new \in Breakglasses /\ SameApproval(new, obj) /\ new.status.conds = conds
      BY <1>1, <3>1 DEF SameApproval, Breakglasses, Specs, Statuses
    <3> HIDE DEF new
    <3>4. Waits(new)
      BY <3>1, <3>3 DEF ApprovalInv, StoredApproval, Waits, Cleared, Approved, SameApproval
    <3> QED
      BY <3>2, <3>3, <3>4 DEF SameApproval, Approved
  <2>3. CASE Delete
    <3> DEFINE marked == [obj EXCEPT !.deleting = TRUE]
               gone == [obj EXCEPT !.deleting = TRUE, !.exists = FALSE]
    <3>0. /\ marked \in Breakglasses /\ gone \in Breakglasses
          /\ marked.spec = obj.spec /\ marked.status = obj.status
          /\ gone.spec = obj.spec /\ gone.status = obj.status
      BY <1>1 DEF Breakglasses
    <3> HIDE DEF marked, gone
    <3>1. PICK new \in Breakglasses :
              Store(new, FALSE) /\ new.spec = obj.spec /\ new.status = obj.status
      BY <2>3, <3>0 DEF Delete, marked, gone
    <3>2. Waits(new)
      BY <3>1 DEF ApprovalInv, StoredApproval, Waits, Cleared, Approved
    <3> QED
      BY <3>1, <3>2 DEF Approved
  <2>4. CASE Edit
    <3>1. PICK d \in Durations : Store([obj EXCEPT !.spec.duration = d], FALSE)
      BY <2>4 DEF Edit
    <3> DEFINE new == [obj EXCEPT !.spec.duration = d]
    <3>2. new \in Breakglasses /\ SameApproval(new, obj) /\ new.status = obj.status
      BY <1>1, DurationsAssumption DEF SameApproval, Breakglasses, Specs
    <3>3. Store(new, FALSE)
      BY <3>1
    <3> HIDE DEF new
    <3>4. Waits(new)
      BY <3>2 DEF ApprovalInv, StoredApproval, Waits, Cleared, Approved, SameApproval
    <3> QED
      BY <3>2, <3>3, <3>4 DEF SameApproval, Approved
  <2> QED
    BY <2>1, <2>2, <2>3, <2>4 DEF UserStep, User
<1>4. /\ obj' = new /\ (cacheFresh' => cacheFresh /\ new = obj)
      /\ bgFresh' => bgFresh /\ new = obj
  BY <1>3 DEF Store
<1>5. StoredApproval'
  <2>1. Cleared(obj) => Cleared(new)
    BY <1>3 DEF Cleared
  <2> QED
    BY <1>2, <1>3, <1>4, <2>1
    DEF ApprovalInv, StoredApproval, Waits, Cleared, Approved, Access
<1>6. WorkingApproval'
  BY <1>2, <1>3, <1>4
  DEF ApprovalInv, WorkingApproval, Waits, Cleared, Approved, Granting
<1> QED
  BY <1>5, <1>6 DEF ApprovalInv

\* The controller runtime and the clock.
LEMMA RuntimeApproval ==
    ASSUME ApprovalInv, WatchEvent \/ WatchRbac \/ FireTimer \/ Resync \/ Crash \/ Tick
    PROVE  ApprovalInv'
<1> USE DEF ApprovalInv, StoredApproval, WorkingApproval, Waits, Cleared, Approved,
            Granting, Access
<1>1. CASE WatchEvent
  BY <1>1 DEF WatchEvent, DeliverObj, recVars
<1>2. CASE Crash
  <2>1. UNCHANGED <<obj, rbac>> /\ cache' = obj /\ pc' = "idle"
    BY <1>2 DEF Crash, Ended
  <2> QED
    BY <2>1
<1>3. CASE WatchRbac \/ FireTimer \/ Resync \/ Tick
  <2>1. UNCHANGED <<obj, rbac, cache, cacheFresh, bgFresh, pc, bg, caller>>
    BY <1>3
    DEF WatchRbac, DeliverRbac, FireTimer, Resync, Tick, clusterVars, recVars
  <2> QED
    BY <2>1
<1> QED
  BY <1>1, <1>2, <1>3

-----------------------------------------------------------------------------
(* The theorems.                                                           *)

\* A new Breakglass waits.
LEMMA InitApproval == Init => ApprovalInv
<1> SUFFICES ASSUME Init PROVE ApprovalInv
  OBVIOUS
<1>1. cache = obj /\ rbac = {} /\ pc = "idle"
  BY DEF Init, ClusterInit
<1>2. PICK spec \in InitSpecs : obj = NewBreakglass(spec)
  BY DEF Init, ClusterInit
<1>3. Waits(obj)
  <2>1. obj.status = NewStatus
    BY <1>2 DEF NewBreakglass
  <2>2. NewStatus.approvedBy = "" /\ NewStatus.conds = << >>
    BY DEF NewStatus
  <2>3. DOMAIN << >> = {}
    OBVIOUS
  <2> QED
    BY <2>1, <2>2, <2>3, Zenon DEF Waits
<1> QED
  BY <1>1, <1>3 DEF ApprovalInv, StoredApproval, WorkingApproval, Access

\* Every step preserves the invariant.
LEMMA NextApproval ==
    ASSUME Guarded, TypeOK, ApprovalInv, [Next]_vars
    PROVE  ApprovalInv'
<1>1. CASE Controller
  BY <1>1, BeginApproval, FinalizerApproval, CleanupApproval, CreateApproval,
     RecordApproval, ActivateApproval, WriteStatusApproval, DispatchApproval
  DEF Controller
<1>2. CASE UserStep
  BY <1>2, UserApproval
<1>3. CASE WatchEvent \/ WatchRbac \/ FireTimer \/ Resync \/ Crash \/ Tick
  BY <1>3, RuntimeApproval
<1>4. CASE UNCHANGED vars
  BY <1>4 DEF vars, clusterVars, recVars, ApprovalInv, StoredApproval,
     WorkingApproval, Waits, Cleared, Approved, Granting, Access
<1> QED
  BY <1>1, <1>2, <1>3, <1>4 DEF Next

\* The copies of a Breakglass agree about its approval throughout, as long as
\* nobody patches in a condition that vouches for one.
THEOREM ApprovalInvariant == ASSUME Guarded PROVE Spec => []ApprovalInv
<1>1. Spec => []TypeOK
  BY TypeCorrect
<1>2. TypeOK /\ ApprovalInv /\ [Next]_vars => ApprovalInv'
  BY NextApproval
<1> QED
  BY <1>1, <1>2, InitApproval, PTL DEF Spec

\* No RBAC object exists for a request that requires approval before a person
\* is recorded as its approver, as long as nobody patches in a condition that
\* vouches for an approval.
THEOREM ApprovalGateHolds == ASSUME Guarded PROVE Spec => []ApprovalGate
<1>1. ApprovalInv => ApprovalGate
  BY DEF ApprovalInv, StoredApproval, ApprovalGate, Cleared, Approved
<1> QED
  BY <1>1, ApprovalInvariant, PTL

\* The stored approval is only touched by the four Updates and by people.
LEMMA ApprovalKept ==
    ASSUME TypeOK, ApprovalInv, [Next]_vars, Approved(obj)
    PROVE  Approved(obj)'
<1>1. CASE AddFinalizer \/ DropFinalizer \/ RecordResources \/ WriteStatus
  BY <1>1, WriterKeeps DEF StoredKept
<1>2. CASE UserStep
  <2>1. obj \in Breakglasses
    BY DEF TypeOK, ClusterTypeOK
  <2>2. obj'.status.approvedBy = obj.status.approvedBy
    BY <1>2, <2>1
    DEF UserStep, User, Approve, PatchConditions, Edit, Delete, Store, Approved,
        Breakglasses, Statuses
  <2> QED
    BY <2>2 DEF Approved
<1>3. CASE UNCHANGED obj
  BY <1>3 DEF Approved
<1>4. \/ AddFinalizer \/ DropFinalizer \/ RecordResources \/ WriteStatus
      \/ UserStep \/ UNCHANGED obj
  BY DEF Next, Controller, Begin, List, DeleteResource, CreateResource, Activate,
         Dispatch, WatchEvent, DeliverObj, WatchRbac, DeliverRbac, FireTimer,
         Resync, Crash, Tick, vars, clusterVars
<1> QED
  BY <1>1, <1>2, <1>3, <1>4

\* No step, of the controller or of anyone else, erases a person's approval
\* (again with Guarded patches only).
THEOREM ApprovalNeverLostHolds == ASSUME Guarded PROVE Spec => ApprovalNeverLost
<1>1. TypeOK /\ ApprovalInv /\ [Next]_vars
        => [obj.status.approvedBy = "human" => obj'.status.approvedBy = "human"]_vars
  BY ApprovalKept DEF Approved
<1> QED
  BY <1>1, TypeCorrect, ApprovalInvariant, PTL DEF Spec, ApprovalNeverLost
=============================================================================
