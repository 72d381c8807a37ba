----------------------------- MODULE TermProofs -----------------------------
(***************************************************************************)
(* The terms of a schedule, proved for every value of the constants: never *)
(* more activations than its limit, no access before its start.            *)
(***************************************************************************)
EXTENDS ReconcilerProofs

-----------------------------------------------------------------------------
(* The limit on activations.  No freshness of any copy is needed: whatever *)
(* copy a reconcile works on, it only starts a grant below the limit of    *)
(* that copy, and what it may write back is the count of that copy or one  *)
(* more.                                                                   *)


\* The terms nobody changes.
SameTerms(x, y) == x.spec.max = y.spec.max /\ x.spec.cron = y.spec.cron

SameCount(x, y) == SameTerms(x, y) /\ x.status.count = y.status.count

\* x is within its limit, and a one-shot that was activated has no schedule.
Counted(x) ==
    /\ x.spec.max # NoMax => x.status.count <= x.spec.max
    /\ x.spec.cron = "none" =>
           /\ x.status.count <= 1
           /\ x.status.count > 0 => x.status.nextAt = NoTime

\* There is room for one more activation.
Room(x) ==
    /\ x.spec.max # NoMax => x.status.count < x.spec.max
    /\ x.spec.cron = "none" => x.status.count = 0

WorkingCount ==
    pc # "idle" =>
        /\ SameTerms(bg, obj) /\ Counted(bg)
        /\ pc \in {"create", "record", "activate"} => Room(bg)

\* The inductive invariant: every copy is within the limit of the terms all
\* copies share, and grants are in progress only with room left.
CountInv ==
    /\ SameTerms(cache, obj) /\ Counted(obj) /\ Counted(cache)
    /\ WorkingCount

-----------------------------------------------------------------------------
(* The operators that change a Breakglass.                                 *)

\* A count is a number, and so is a limit.
LEMMA CountTypes ==
    ASSUME NEW b \in Breakglasses
    PROVE  /\ b.status.count \in Nat
           /\ b.spec.max \in Nat \cup {NoMax}
           /\ b.status.nextAt \in Times
BY DEF Breakglasses, Specs, Statuses

\* Setting a condition.
LEMMA SetConditionCounts ==
    ASSUME NEW b \in Breakglasses, NEW c
    PROVE  /\ SameCount(SetCondition(b, c), b)
           /\ SetCondition(b, c).status.nextAt = b.status.nextAt
BY DEF SetCondition, SameCount, SameTerms, Breakglasses, Specs, Statuses

\* Planning the next activation, or none.
LEMMA NextAtCounts ==
    ASSUME NEW b \in Breakglasses, NEW t \in Times, NEW c
    PROVE  /\ SameCount(SetCondition([b EXCEPT !.status.nextAt = t], c), b)
           /\ SetCondition([b EXCEPT !.status.nextAt = t], c).status.nextAt = t
<1> DEFINE x == [b EXCEPT !.status.nextAt = t]
<1>1. x \in Breakglasses
  BY DEF Breakglasses, Statuses
<1>2. SameCount(x, b) /\ x.status.nextAt = t
  BY DEF SameCount, SameTerms, Breakglasses, Specs, Statuses
<1> HIDE DEF x
<1>3. SameCount(SetCondition(x, c), x) /\ SetCondition(x, c).status.nextAt = t
  BY <1>1, <1>2, SetConditionCounts
<1> QED
  BY <1>2, <1>3 DEF SameCount, SameTerms, x

\* A copy with the count and the schedule of a counted one is counted.
LEMMA CountedSame ==
    ASSUME NEW x, NEW y, SameCount(x, y), Counted(y),
           x.status.nextAt \in {y.status.nextAt, NoTime}
    PROVE  Counted(x)
BY DEF Counted, SameCount, SameTerms

\* ProcessRecurring counts nothing and lets an activation become due only with
\* room left.
LEMMA ProcessRecurringCounts ==
    ASSUME NEW b \in Breakglasses, NEW t \in Nat, Counted(b)
    PROVE  /\ SameCount(ProcessRecurring(b, t), b)
           /\ Counted(ProcessRecurring(b, t))
           /\ ShouldActivate(ProcessRecurring(b, t), t)
                => Room(ProcessRecurring(b, t))
<1> DEFINE x == ProcessRecurring(b, t)
<1>1. /\ b.spec.cron \in {"none", "valid", "invalid"} /\ b.spec.start \in Times
      /\ b.status.count \in Nat /\ b.spec.max \in Nat \cup {NoMax}
      /\ SameCount(b, b)
  BY CountTypes DEF Breakglasses, Specs, SameCount, SameTerms
<1>2. CASE MaxActivationsReached(b)
  <2>1. x = StopRecurrence(b)
    BY <1>2 DEF ProcessRecurring
  <2>2. SameCount(x, b) /\ x.status.nextAt = NoTime
    BY <2>1, NextAtCounts DEF StopRecurrence, Times
  <2> HIDE DEF x
  <2> QED
    BY <2>2, CountedSame DEF ShouldActivate, x
<1>3. CASE ~MaxActivationsReached(b)
  <2>1. b.spec.max # NoMax => b.status.count < b.spec.max
    BY <1>1, <1>3 DEF MaxActivationsReached
  <2>2. CASE b.spec.cron = "none" /\ b.status.count > 0
    <3>1. x = b /\ b.status.nextAt = NoTime
      BY <1>3, <2>2 DEF ProcessRecurring, ProcessOneShot, Counted
    <3> HIDE DEF x
    <3> QED
      BY <1>1, <3>1 DEF ShouldActivate, x
  <2>3. CASE b.spec.cron = "none" => b.status.count = 0
    <3>1. SameCount(x, b)
      <4>1. \A c : SameCount(SetCondition(b, c), b)
        BY SetConditionCounts
      <4>2. \A s \in Times : SameCount(ScheduleAt(b, s), b)
        BY NextAtCounts DEF ScheduleAt
      <4>3. SameCount(ProcessOneShot(b, t), b)
        BY <1>1, <4>1, <4>2 DEF ProcessOneShot, Times
      <4>4. SameCount(HandleInitialActivation(b, t), b)
        <5>1. FindPrevActivation(t) \in Times
          BY TickTypes
        <5>2. CalculateNextActivation(b, t) \in Times
          BY NextActivationType
        <5> QED
          BY <4>2, <5>1, <5>2 DEF HandleInitialActivation
      <4>5. SameCount(ProcessCron(b, t), b)
        <5>1. CalculateNextActivation(b, t) \in Times
          BY NextActivationType
        <5> QED
          BY <1>1, <4>1, <4>2, <4>4, <5>1 DEF ProcessCron
      <4> QED
        BY <1>1, <1>3, <4>1, <4>3, <4>5 DEF ProcessRecurring
    <3> HIDE DEF x
    <3>2. Room(x)
      BY <2>1, <2>3, <3>1 DEF Room, SameCount, SameTerms
    <3>3. Counted(x)
      BY <1>1, <3>1, <3>2 DEF Room, Counted, SameCount, SameTerms
    <3> QED
      BY <3>1, <3>2, <3>3 DEF x
  <2> QED
    BY <1>1, <2>2, <2>3
<1> QED
  BY <1>2, <1>3

\* An activation uses the room there was.
LEMMA OnActivationGrantedCounts ==
    ASSUME NEW b \in Breakglasses, Room(b)
    PROVE  /\ SameTerms(OnActivationGranted(b), b)
           /\ Counted(OnActivationGranted(b))
<1>1. b.status.count \in Nat /\ b.spec.max \in Nat \cup {NoMax}
  BY CountTypes
<1>2. CASE b.spec.cron = "none"
  <2> DEFINE s == [b.status EXCEPT !.nextAt = NoTime, !.count = @ + 1]
             y == [b EXCEPT !.status = s]
  <2>1. s.count = b.status.count + 1 /\ s.nextAt = NoTime
    BY DEF Breakglasses, Statuses
  <2>2. y.status = s /\ y.spec = b.spec
    BY DEF Breakglasses
  <2>3. OnActivationGranted(b) = y
    BY <1>2 DEF OnActivationGranted, Breakglasses
  <2> HIDE DEF s, y
  <2> QED
    BY <1>1, <1>2, <2>1, <2>2, <2>3 DEF Room, Counted, SameTerms
<1>3. CASE b.spec.cron # "none"
  <2> DEFINE x == [b EXCEPT !.status.count = @ + 1]
             y == ScheduleAt(x, CalculateNextActivation(b, b.status.grantedAt))
  <2>1. x \in Breakglasses
    <3>1. b.status \in Statuses(Resources) /\ b.status.count + 1 \in Nat
      BY DEF Breakglasses, Statuses
    <3>2. [b.status EXCEPT !.count = @ + 1] \in Statuses(Resources)
      BY <3>1 DEF Statuses
    <3> QED
      BY <3>2 DEF Breakglasses
  <2>2. SameTerms(x, b) /\ x.status.count = b.status.count + 1
    BY DEF SameTerms, Breakglasses, Specs, Statuses
  <2>3. CalculateNextActivation(b, b.status.grantedAt) \in Times
    <3>1. b.status.grantedAt \in Int
      BY DEF Breakglasses, Statuses, Times, NoTime
    <3> QED
      BY <3>1, NextActivationType
  <2> HIDE DEF x
  <2>4. SameCount(y, x)
    BY <2>1, <2>3, NextAtCounts DEF ScheduleAt
  <2>5. OnActivationGranted(b) = y
    BY <1>3 DEF OnActivationGranted, x
  <2> HIDE DEF y
  <2> QED
    BY <1>1, <1>3, <2>2, <2>4, <2>5 DEF Room, Counted, SameCount, SameTerms
<1> QED
  BY <1>2, <1>3

-----------------------------------------------------------------------------
(* What a step of a reconcile does to its working copy.                    *)

\* The reconcile ends, or its next copy has the same terms, is counted and
\* grants only if there is room.
CountStep ==
    \/ pc' = "idle"
    \/ /\ SameTerms(bg', bg) /\ Counted(bg')
       /\ pc' \in {"create", "record", "activate"} => Room(bg')

\* Going on with copy b.
LEMMA GotoCounts ==
    ASSUME NEW c, NEW b, Goto(c, b), SameTerms(b, bg), Counted(b),
           c \in {"create", "record", "activate"} => Room(b)
    PROVE  CountStep
BY DEF Goto, CountStep

\* A status update.
LEMMA UpdateStatusCounts ==
    ASSUME NEW b \in Breakglasses, NEW c, NEW r, NEW t,
           SameTerms(b, bg), Counted(b), UpdateStatus(b, c, r, t)
    PROVE  CountStep
<1>1. SameCount(SetCondition(b, c), b) /\ Counted(SetCondition(b, c))
  BY SetConditionCounts, CountedSame
<1>2. pc' = "status" /\ bg' = SetCondition(b, c)
  BY DEF UpdateStatus
<1> QED
  BY <1>1, <1>2 DEF CountStep, SameCount, SameTerms

\* Ending the reconcile.
LEMMA ReturnCounts ==
    ASSUME \/ \E r, d : Return(r, d)
           \/ \E r, t : ReturnUntil(r, t)
    PROVE  CountStep
BY DEF Return, ReturnUntil, Ended, CountStep

\* The handler of RecurringPending.
LEMMA RecurringPendingCounts ==
    ASSUME TypeOK, WorkingCount, pc # "idle", RecurringPendingHandle
    PROVE  CountStep
<1> DEFINE b == ProcessRecurring(bg, now)
<1>1. bg \in Breakglasses /\ now \in Nat /\ Counted(bg) /\ SameTerms(bg, bg)
  BY DEF TypeOK, LocalTypeOK, ClusterTypeOK, WorkingCount, SameTerms
<1>2. /\ SameTerms(b, bg) /\ Counted(b)
      /\ ShouldActivate(b, now) => Room(b)
  BY <1>1, ProcessRecurringCounts DEF SameCount
<1> HIDE DEF b
<1>3. CASE UpdateStatus(bg, "RecurringPending", "requeue", NoTime)
  BY <1>1, <1>3, UpdateStatusCounts
<1>4. CASE ShouldActivate(b, now) /\ GrantAccess(b)
  <2>1. \E c : Goto(c, b)
    BY <1>4 DEF GrantAccess
  <2> QED
    BY <1>2, <1>4, <2>1, GotoCounts
<1>5. CASE Return("error", 0) \/ ReturnUntil("after", b.status.nextAt)
  BY <1>5, ReturnCounts
<1> QED
  BY <1>3, <1>4, <1>5 DEF RecurringPendingHandle, b

\* Whatever the handler.
LEMMA DispatchCounts ==
    ASSUME TypeOK, WorkingCount, Dispatch
    PROVE  CountStep
<1>1. bg \in Breakglasses /\ pc # "idle" /\ Counted(bg) /\ SameTerms(bg, bg)
  BY DEF TypeOK, LocalTypeOK, Dispatch, WorkingCount, SameTerms
<1>2. CASE RecurringPendingHandle
  BY <1>1, <1>2, RecurringPendingCounts
<1>3. CASE \E r, t : UpdateStatus(bg, "Pending", r, t)
  BY <1>1, <1>3, UpdateStatusCounts
<1>4. CASE StartCleanup("expire", bg)
  BY <1>1, <1>4 DEF StartCleanup, CountStep
<1>5. CASE (\E r, d : Return(r, d)) \/ (\E r, t : ReturnUntil(r, t))
  BY <1>5, ReturnCounts
<1>6. CASE PendingHandle
  BY <1>2, <1>3, <1>6 DEF PendingHandle
<1>7. CASE ApprovedHandle
  BY <1>2, <1>3, <1>7 DEF ApprovedHandle
<1>8. CASE RecurringActiveHandle
  BY <1>4, <1>5, <1>8 DEF RecurringActiveHandle
<1>9. CASE TerminalHandle
  BY <1>5, <1>9 DEF TerminalHandle
<1> QED
  BY <1>2, <1>6, <1>7, <1>8, <1>9 DEF Dispatch

\* The steps of CleanupResources.
LEMMA CleanupCounts ==
    ASSUME TypeOK, WorkingCount, pc \in {"list", "delete"},
           KindDone \/ (\E o : CleanupFailed(o)) \/ Goto("delete", bg)
    PROVE  CountStep
<1>1. bg \in Breakglasses /\ Counted(bg) /\ SameTerms(bg, bg)
  BY DEF TypeOK, LocalTypeOK, WorkingCount, SameTerms
<1>2. CASE \E c \in {"delete", "dispatch", "dropFinalizer"} : Goto(c, bg)
  BY <1>1, <1>2, GotoCounts
<1>3. CASE Return("after", Backoff)
  BY <1>3, ReturnCounts
<1>4. CASE UpdateStatus(bg, "Failed", "error", NoTime)
  BY <1>1, <1>4, UpdateStatusCounts
<1>5. CASE \E o : CleanupFailed(o)
  BY <1>2, <1>3, <1>4, <1>5 DEF CleanupFailed
<1>6. CASE pc' = "list" /\ bg' = bg
  BY <1>1, <1>6 DEF CountStep
<1>7. CASE PostRevoke
  <2> DEFINE end == FinalCompletionTime(bg, now)
             s == [bg.status EXCEPT !.expiresAt = end, !.nextAt = NoTime]
             x == [bg EXCEPT !.status.expiresAt = NoTime]
             y == [bg EXCEPT !.status = s]
  <2>1. now \in Nat
    BY DEF TypeOK, ClusterTypeOK
  <2>2. x \in Breakglasses /\ SameCount(x, bg) /\ x.status.nextAt = bg.status.nextAt
    BY <1>1 DEF Breakglasses, Specs, Statuses, Times, SameCount, SameTerms
  <2>3. end \in Times
    BY <1>1, <2>1, WindowEndType DEF FinalCompletionTime
  <2> HIDE DEF end
  <2>4. /\ s \in Statuses(Resources) /\ s.count = bg.status.count
        /\ s.nextAt = NoTime
    BY <1>1, <2>3 DEF Breakglasses, Statuses, Times
  <2>5. \E r, t : \/ UpdateStatus(x, "RecurringPending", r, t)
                  \/ UpdateStatus(y, "Expired", r, t)
    <3>1. y = [bg EXCEPT !.status.expiresAt = end, !.status.nextAt = NoTime]
      BY <1>1 DEF Breakglasses
    <3> HIDE DEF x, y
    <3> QED
      BY <1>7, <3>1
      DEF PostRevoke, TransitionToRecurringPending, MarkExpired, x, end
  <2> HIDE DEF s
  <2>6. y \in Breakglasses /\ SameCount(y, bg) /\ y.status.nextAt = NoTime
    BY <1>1, <2>4 DEF Breakglasses, SameCount, SameTerms
  <2> HIDE DEF x, y
  <2>7. Counted(x) /\ Counted(y)
    BY <1>1, <2>2, <2>6, CountedSame
  <2> QED
    BY <2>2, <2>5, <2>6, <2>7, UpdateStatusCounts DEF SameCount
<1>8. CASE KindDone
  <2>1. CASE StartCleanup("cleanup", bg)
    BY <1>6, <2>1 DEF StartCleanup
  <2> QED
    BY <1>2, <1>6, <1>7, <1>8, <2>1 DEF KindDone, CleanupDone
<1> QED
  BY <1>2, <1>5, <1>8

-----------------------------------------------------------------------------
(* The actions.                                                            *)

\* A step of a reconcile that leaves the stored object alone.
LEMMA LocalCounts ==
    ASSUME CountInv, pc # "idle", CountStep, UNCHANGED <<obj, cache>>
    PROVE  CountInv'
BY DEF CountInv, WorkingCount, CountStep, SameTerms, Counted, Room

\* An Update of the Breakglass with a counted object of the same terms.
LEMMA UpdateCounts ==
    ASSUME CountInv, pc # "idle", CountStep, NEW new, NEW o, UpdateObj(new, o),
           SameTerms(new, obj), Counted(new), UNCHANGED cache
    PROVE  CountInv'
<1>1. obj' \in {obj, new}
  BY DEF UpdateObj, Store
<1>2. SameTerms(obj', obj) /\ Counted(obj')
  BY <1>1 DEF CountInv, SameTerms
<1> QED
  BY <1>2 DEF CountInv, WorkingCount, CountStep, SameTerms, Counted, Room

\* Begin: the copy of the cache is as good as the cache.
LEMMA BeginCounts ==
    ASSUME TypeOK, CountInv, Begin
    PROVE  CountInv'
<1> DEFINE b == DefaultStart(cache)
           f == [b EXCEPT !.finalizer = TRUE]
<1>1. cache \in Breakglasses /\ now \in Nat
  BY DEF TypeOK, ClusterTypeOK
<1>2. b \in Breakglasses /\ SameCount(b, cache) /\ b.status = cache.status
  BY <1>1 DEF DefaultStart, Breakglasses, Specs, Times, SameCount, SameTerms
<1> HIDE DEF b
<1>3. SameTerms(f, b) /\ f.status = b.status
  BY <1>2 DEF Breakglasses, SameTerms
<1> HIDE DEF f
<1>4. \/ UNCHANGED <<pc, bg>>
      \/ bg' \in {b, f} /\ pc' \in {"list", "dispatch", "addFinalizer"}
  BY DEF Begin, StartCleanup, recVars, b, f
<1>5. \A x \in {b, f} : SameTerms(x, cache) /\ Counted(x)
  BY <1>2, <1>3 DEF CountInv, SameCount, SameTerms, Counted
<1>6. UNCHANGED <<obj, cache>>
  BY DEF Begin
<1> QED
  BY <1>4, <1>5, <1>6 DEF CountInv, WorkingCount, SameTerms, Counted, Room

\* The finalizer updates.
LEMMA FinalizerCounts ==
    ASSUME TypeOK, CountInv, AddFinalizer \/ DropFinalizer
    PROVE  CountInv'
<1> DEFINE b == [bg EXCEPT !.finalizer = FALSE]
           added == [obj EXCEPT !.finalizer = TRUE, !.spec = bg.spec]
           dropped == [obj EXCEPT !.finalizer = FALSE, !.exists = FALSE,
                                  !.spec = bg.spec]
<1>1. obj \in Breakglasses /\ bg \in Breakglasses /\ pc # "idle"
  BY DEF TypeOK, ClusterTypeOK, LocalTypeOK, AddFinalizer, DropFinalizer
<1>2. SameTerms(bg, obj) /\ Counted(bg) /\ Counted(obj)
  BY <1>1 DEF CountInv, WorkingCount
<1>3. b.spec = bg.spec /\ b.status = bg.status
  BY <1>1 DEF Breakglasses
<1>4. \A x \in {added, dropped} : x.spec = bg.spec /\ x.status = obj.status
  BY <1>1 DEF Breakglasses
<1>5. \/ \E r : Return(r, 0)
      \/ Goto("dispatch", b)
  BY DEF AddFinalizer, DropFinalizer
<1>6. \E x \in {added, dropped} : \E o : UpdateObj(x, o)
  BY DEF AddFinalizer, DropFinalizer
<1>7. UNCHANGED cache
  BY DEF AddFinalizer, DropFinalizer
<1> HIDE DEF b, added, dropped
<1>8. CountStep
  BY <1>2, <1>3, <1>5, GotoCounts, ReturnCounts DEF SameTerms, Counted
<1>9. \A x \in {added, dropped} : SameTerms(x, obj) /\ Counted(x)
  BY <1>2, <1>4 DEF SameTerms, Counted
<1> QED
  BY <1>1, <1>6, <1>7, <1>8, <1>9, UpdateCounts

\* The cleanup.
LEMMA CleanupActionsCount ==
    ASSUME TypeOK, CountInv, List \/ DeleteResource
    PROVE  CountInv'
<1>1. pc \in {"list", "delete"} /\ UNCHANGED <<obj, cache>>
  BY DEF List, DeleteResource
<1>2. KindDone \/ (\E o : CleanupFailed(o)) \/ Goto("delete", bg)
  BY DEF List, DeleteResource
<1> QED
  BY <1>1, <1>2, CleanupCounts, LocalCounts DEF CountInv

\* Creating an RBAC object.
LEMMA CreateCounts ==
    ASSUME TypeOK, CountInv, CreateResource
    PROVE  CountInv'
<1> DEFINE b == [bg EXCEPT !.status.created = @ \cup ToCreate(@)]
<1>1. bg \in Breakglasses /\ pc # "idle" /\ UNCHANGED <<obj, cache>>
  BY DEF TypeOK, LocalTypeOK, CreateResource
<1>2. Counted(bg) /\ Room(bg) /\ SameTerms(bg, bg)
  BY <1>1 DEF CountInv, WorkingCount, CreateResource, SameTerms
<1>3. b.spec = bg.spec /\ SameCount(b, bg) /\ b.status.nextAt = bg.status.nextAt
  BY <1>1 DEF Breakglasses, Statuses, SameCount, SameTerms
<1> HIDE DEF b
<1>4. Counted(b) /\ Room(b) /\ SameTerms(b, bg)
  BY <1>2, <1>3, CountedSame DEF Room, SameCount
<1>5. \/ Goto("record", b) \/ Goto("create", bg)
      \/ Return("after", Backoff)
      \/ UpdateStatus(bg, "Failed", "none", NoTime)
  BY DEF CreateResource, b
<1>6. CountStep
  BY <1>1, <1>2, <1>4, <1>5, GotoCounts, ReturnCounts, UpdateStatusCounts
<1> QED
  BY <1>1, <1>6, LocalCounts

\* The status updates store the working copy's status.
LEMMA StatusCounts ==
    ASSUME TypeOK, CountInv, RecordResources \/ WriteStatus
    PROVE  CountInv'
<1> DEFINE new == [obj EXCEPT !.status = bg.status]
<1>1. obj \in Breakglasses /\ bg \in Breakglasses /\ pc # "idle"
  BY DEF TypeOK, ClusterTypeOK, LocalTypeOK, RecordResources, WriteStatus
<1>2. SameTerms(bg, obj) /\ SameTerms(bg, bg) /\ Counted(bg)
  BY <1>1 DEF CountInv, WorkingCount, SameTerms
<1>3. new.spec = obj.spec /\ new.status = bg.status
  BY <1>1 DEF Breakglasses
<1>4. UNCHANGED cache /\ \E o : UpdateObj(new, o)
  BY DEF RecordResources, WriteStatus
<1>5. \/ RecordResources /\ Goto("activate", new)
      \/ (\E r, d : Return(r, d)) \/ (\E r, t : ReturnUntil(r, t))
      \/ UpdateStatus(bg, "Failed", "none", NoTime)
  BY DEF RecordResources, WriteStatus
<1> HIDE DEF new
<1>6. SameTerms(new, obj) /\ SameTerms(new, bg) /\ Counted(new)
  BY <1>2, <1>3 DEF SameTerms, Counted
<1>7. RecordResources => Room(new)
  BY <1>2, <1>3 DEF RecordResources, CountInv, WorkingCount, Room, SameTerms
<1>8. CountStep
  BY <1>1, <1>2, <1>5, <1>6, <1>7, GotoCounts, ReturnCounts, UpdateStatusCounts
<1> QED
  BY <1>1, <1>4, <1>6, <1>8, UpdateCounts

\* Activate counts the activation there was room for.
LEMMA ActivateCounts ==
    ASSUME TypeOK, CountInv, Activate
    PROVE  CountInv'
<1> DEFINE by == IF bg.status.approvedBy = "" THEN "system" ELSE bg.status.approvedBy
           s == [bg.status EXCEPT !.approvedBy = by, !.grantedAt = now,
                                  !.expiresAt = NoTime]
           granted == [bg EXCEPT !.status = s]
           b == OnActivationGranted(granted)
<1>1. bg \in Breakglasses /\ now \in Nat /\ pc # "idle"
  BY DEF TypeOK, ClusterTypeOK, LocalTypeOK, Activate
<1>2. Room(bg)
  BY DEF CountInv, WorkingCount, Activate
<1>3. \E r, t : UpdateStatus(b, "RecurringActive", r, t)
  <2>1. granted = [bg EXCEPT !.status.approvedBy = IF @ = "" THEN "system" ELSE @,
                             !.status.grantedAt  = now,
                             !.status.expiresAt  = NoTime]
    BY <1>1 DEF Breakglasses
  <2> HIDE DEF granted
  <2> QED
    BY <2>1 DEF Activate
<1>4. by \in Approvers
  BY <1>1 DEF Approvers, Breakglasses, Statuses
<1> HIDE DEF by
<1>5. s \in Statuses(Resources) /\ s.count = bg.status.count
  BY <1>1, <1>4 DEF Breakglasses, Statuses, Times
<1> HIDE DEF s
<1>6. granted \in Breakglasses /\ SameCount(granted, bg)
  BY <1>1, <1>5 DEF Breakglasses, SameCount, SameTerms
<1> HIDE DEF granted
<1>7. b \in Breakglasses /\ SameTerms(b, bg) /\ Counted(b)
  <2>1. Room(granted)
    BY <1>2, <1>6 DEF Room, SameCount, SameTerms
  <2> QED
    BY <1>6, <2>1, OnActivationGrantedType, OnActivationGrantedCounts
    DEF SameCount, SameTerms
<1> HIDE DEF b
<1>8. CountStep
  BY <1>3, <1>7, UpdateStatusCounts
<1> QED
  BY <1>1, <1>8, LocalCounts DEF Activate, clusterVars

\* People: neither an approval nor a patch, an edit or a deletion counts.
LEMMA UserCounts ==
    ASSUME TypeOK, CountInv, UserStep
    PROVE  CountInv'
<1>1. obj \in Breakglasses
  BY DEF TypeOK, ClusterTypeOK
<1>2. UNCHANGED <<cache, pc, bg>>
  BY DEF UserStep, User, Approve, PatchConditions, Edit, Delete, recVars
<1>3. SameCount(obj', obj) /\ obj'.status.nextAt = obj.status.nextAt
  <2>1. CASE Approve
    BY <1>1, <2>1 DEF Approve, Store, SameCount, SameTerms, Breakglasses, Statuses
  <2>2. CASE PatchConditions
    <3>0. PICK c \in Patched : obj' = [obj EXCEPT !.status.conds = <<c>>]
      BY <2>2 DEF PatchConditions, Store
    <3> DEFINE conds == <<c>>
               new == [obj EXCEPT !.status.conds = conds]
    <3>1. obj' = new
      BY <3>0
    <3> HIDE DEF conds
    <3> QED
      BY <1>1, <3>1 DEF SameCount, SameTerms, Breakglasses, Statuses
  <2>3. CASE Edit
    <3>1. PICK d \in Durations : obj' = [obj EXCEPT !.spec.duration = d]
      BY <2>3 DEF Edit, Store
    <3> QED
      BY <1>1, <3>1 DEF SameCount, SameTerms, Breakglasses, Specs
  <2>4. CASE Delete
    <3>1. obj' \in {[obj EXCEPT !.deleting = TRUE],
                    [obj EXCEPT !.deleting = TRUE, !.exists = FALSE]}
      BY <2>4 DEF Delete, Store
    <3> QED
      BY <1>1, <3>1 DEF SameCount, SameTerms, Breakglasses
  <2> QED
    BY <2>1, <2>2, <2>3, <2>4 DEF UserStep, User
<1>4. Counted(obj')
  BY <1>3, CountedSame DEF CountInv
<1> QED
  BY <1>2, <1>3, <1>4 DEF CountInv, WorkingCount, SameCount, SameTerms, Counted, Room

\* The controller runtime and the clock.
LEMMA RuntimeCounts ==
    ASSUME CountInv, WatchEvent \/ WatchRbac \/ FireTimer \/ Resync \/ Crash \/ Tick
    PROVE  CountInv'
<1>1. UNCHANGED obj /\ cache' \in {cache, obj}
  BY DEF WatchEvent, DeliverObj, WatchRbac, DeliverRbac, FireTimer, Resync, Crash,
         Tick, clusterVars
<1>2. UNCHANGED <<pc, bg>> \/ pc' = "idle"
  BY DEF WatchEvent, DeliverObj, WatchRbac, DeliverRbac, FireTimer, Resync, Crash,
         Ended, Tick, clusterVars, recVars
<1> QED
  BY <1>1, <1>2 DEF CountInv, WorkingCount, SameTerms, Counted, Room

\* A new Breakglass has not been activated.
LEMMA InitCounts == Init => CountInv
<1> SUFFICES ASSUME Init PROVE CountInv
  OBVIOUS
<1>1. PICK spec \in InitSpecs : obj = NewBreakglass(spec)
  BY DEF Init, ClusterInit
<1>2. spec.max \in Nat \cup {NoMax}
  BY InitSpecsAssumption DEF Specs
<1>3. obj.spec = spec /\ obj.status.count = 0
  BY <1>1 DEF NewBreakglass, NewStatus
<1>4. Counted(obj)
  BY <1>2, <1>3 DEF Counted
<1>5. cache = obj /\ pc = "idle"
  BY DEF Init, ClusterInit
<1> QED
  BY <1>4, <1>5 DEF CountInv, WorkingCount, SameTerms

\* Every step keeps the counts.
LEMMA NextCounts == TypeOK /\ CountInv /\ [Next]_vars => CountInv'
<1> SUFFICES ASSUME TypeOK, CountInv, [Next]_vars PROVE CountInv'
  OBVIOUS
<1>1. CASE Dispatch
  BY <1>1, DispatchCounts, LocalCounts DEF CountInv, Dispatch, clusterVars
<1>2. CASE UNCHANGED vars
  BY <1>2 DEF CountInv, WorkingCount, SameTerms, Counted, Room, vars, clusterVars, recVars
<1> QED
  BY <1>1, <1>2, BeginCounts, FinalizerCounts, CleanupActionsCount, CreateCounts,
     StatusCounts, ActivateCounts, UserCounts, RuntimeCounts DEF Next, Controller

\* Every copy is within the limit: the inductive invariant.
THEOREM CountInvariant == Spec => []CountInv
<1> QED
  BY InitCounts, NextCounts, TypeCorrect, PTL DEF Spec

\* No Breakglass is ever activated more often than its schedule allows, whatever
\* crashes, conflicts, lost answers, stale copies and re-approvals occur.
THEOREM CountWithinLimitHolds == Spec => []CountWithinLimit
<1>1. CountInv => CountWithinLimit
  BY DEF CountInv, Counted, CountWithinLimit
<1> QED
  BY <1>1, CountInvariant, PTL

-----------------------------------------------------------------------------
(* The start.  It may be missing at first: the copy of a reconcile then    *)
(* shows a default that is only that copy's, until the update that adds    *)
(* the finalizer stores it.  The heart of the proof is that a copy with a  *)
(* default of its own never gets as far as the handlers.                   *)


GrantCalls == {"create", "record", "activate"}

\* Once a Breakglass has its finalizer, or is marked for deletion, its start
\* is stored.
StartStored(x) ==
    x.exists /\ (x.finalizer \/ x.deleting) => x.spec.start # NoTime

\* x shows no start but the stored one.
Agrees(x) == x.spec.start # NoTime => x.spec.start = obj.spec.start

WorkingStart ==
    /\ pc = "addFinalizer" =>
           /\ bg.spec.start # NoTime
           /\ bgFresh /\ obj.spec.start # NoTime => bg.spec.start = obj.spec.start
    /\ pc \notin {"idle", "addFinalizer"} =>
           bg.spec.start # NoTime /\ bg.spec.start = obj.spec.start
    /\ pc \in GrantCalls => bg.spec.start <= now

\* The inductive invariant.
StartInv ==
    /\ obj.exists /\ obj.deleting => obj.finalizer
    /\ StartStored(obj) /\ StartStored(cache)
    /\ cacheFresh => cache = obj
    /\ Agrees(cache)
    /\ WorkingStart
    /\ NotBeforeStart

-----------------------------------------------------------------------------
(* The operators that change a Breakglass leave its spec alone.            *)

\* None of the operators that change the status touches the spec.
LEMMA SetConditionSpec ==
    ASSUME NEW b \in Breakglasses, NEW c
    PROVE  SetCondition(b, c).spec = b.spec
BY DEF SetCondition, Breakglasses

\* Nor does planning.
LEMMA NextAtSpec ==
    ASSUME NEW b \in Breakglasses, NEW t \in Times, NEW c
    PROVE  SetCondition([b EXCEPT !.status.nextAt = t], c).spec = b.spec
<1> DEFINE x == [b EXCEPT !.status.nextAt = t]
<1>1. x \in Breakglasses /\ x.spec = b.spec
  BY DEF Breakglasses, Statuses
<1> HIDE DEF x
<1>2. SetCondition(x, c).spec = b.spec
  BY <1>1, SetConditionSpec
<1> QED
  BY <1>2 DEF x

\* Nor does ProcessRecurring.
LEMMA ProcessRecurringSpec ==
    ASSUME NEW b \in Breakglasses, NEW t \in Nat
    PROVE  ProcessRecurring(b, t).spec = b.spec
<1>1. b.spec.cron \in {"none", "valid", "invalid"} /\ b.spec.start \in Times
  BY DEF Breakglasses, Specs
<1>2. \A c : SetCondition(b, c).spec = b.spec
  BY SetConditionSpec
<1>3. \A s \in Times : ScheduleAt(b, s).spec = b.spec
  BY NextAtSpec DEF ScheduleAt
<1>4. StopRecurrence(b).spec = b.spec
  BY NextAtSpec DEF StopRecurrence, Times
<1>5. ProcessOneShot(b, t).spec = b.spec
  BY <1>1, <1>2, <1>3 DEF ProcessOneShot, Times
<1>6. FindPrevActivation(t) \in Times /\ CalculateNextActivation(b, t) \in Times
  BY TickTypes, NextActivationType
<1>7. HandleInitialActivation(b, t).spec = b.spec
  BY <1>3, <1>6 DEF HandleInitialActivation
<1>8. ProcessCron(b, t).spec = b.spec
  BY <1>2, <1>3, <1>6, <1>7 DEF ProcessCron
<1> QED
  BY <1>1, <1>2, <1>4, <1>5, <1>8 DEF ProcessRecurring

\* Nor does the advance after a grant.
LEMMA OnActivationGrantedSpec ==
    ASSUME NEW b \in Breakglasses
    PROVE  OnActivationGranted(b).spec = b.spec
<1>1. CASE b.spec.cron = "none"
  BY <1>1 DEF OnActivationGranted, Breakglasses
<1>2. CASE b.spec.cron # "none"
  <2> DEFINE x == [b EXCEPT !.status.count = @ + 1]
  <2>1. x \in Breakglasses /\ x.spec = b.spec
    BY DEF Breakglasses, Statuses
  <2>2. b.status.grantedAt \in Int
    BY DEF Breakglasses, Statuses, Times, NoTime
  <2>3. CalculateNextActivation(b, b.status.grantedAt) \in Times
    BY <2>2, NextActivationType
  <2>4. OnActivationGranted(b)
            = ScheduleAt(x, CalculateNextActivation(b, b.status.grantedAt))
    BY <1>2 DEF OnActivationGranted
  <2> HIDE DEF x
  <2> QED
    BY <2>1, <2>3, <2>4, NextAtSpec DEF ScheduleAt
<1> QED
  BY <1>1, <1>2

-----------------------------------------------------------------------------
(* What a step of a reconcile past the finalizer does to its working copy. *)

\* The reconcile ends, or goes on with the same start, granting only once that
\* start has come.
StartStep ==
    \/ pc' = "idle"
    \/ /\ bg'.spec.start = bg.spec.start /\ pc' # "addFinalizer"
       /\ pc' \in GrantCalls => bg.spec.start <= now

\* The next call of a reconcile.
LEMMA GotoStart ==
    ASSUME NEW c, NEW b, Goto(c, b), b.spec.start = bg.spec.start,
           c # "addFinalizer", c \in GrantCalls => bg.spec.start <= now
    PROVE  StartStep
BY DEF Goto, StartStep

\* A reconcile that goes on to its status update.
LEMMA UpdateStatusStart ==
    ASSUME NEW b \in Breakglasses, NEW c, NEW r, NEW t,
           b.spec.start = bg.spec.start, UpdateStatus(b, c, r, t)
    PROVE  StartStep
BY SetConditionSpec DEF UpdateStatus, StartStep, GrantCalls

\* A reconcile that ends.
LEMMA ReturnStart ==
    ASSUME \/ \E r, d : Return(r, d)
           \/ \E r, t : ReturnUntil(r, t)
    PROVE  StartStep
BY DEF Return, ReturnUntil, Ended, StartStep

\* ShouldActivate compares the present with the start.
LEMMA RecurringPendingStart ==
    ASSUME TypeOK, RecurringPendingHandle
    PROVE  StartStep
<1> DEFINE b == ProcessRecurring(bg, now)
<1>1. bg \in Breakglasses /\ now \in Nat
  BY DEF TypeOK, LocalTypeOK, ClusterTypeOK
<1>2. b.spec = bg.spec
  BY <1>1, ProcessRecurringSpec
<1> HIDE DEF b
<1>3. CASE UpdateStatus(bg, "RecurringPending", "requeue", NoTime)
  BY <1>1, <1>3, UpdateStatusStart
<1>4. CASE ShouldActivate(b, now) /\ GrantAccess(b)
  <2>1. \E c \in GrantCalls : Goto(c, b)
    BY <1>4 DEF GrantAccess, GrantCalls
  <2>2. bg.spec.start <= now
    BY <1>1, <1>2, <1>4 DEF ShouldActivate, Breakglasses, Specs, Times
  <2> QED
    BY <1>2, <2>1, <2>2, GotoStart DEF GrantCalls
<1>5. CASE Return("error", 0) \/ ReturnUntil("after", b.status.nextAt)
  BY <1>5, ReturnStart
<1> QED
  BY <1>3, <1>4, <1>5 DEF RecurringPendingHandle, b

\* The handlers grant only when the start has come.
LEMMA DispatchStart ==
    ASSUME TypeOK, Dispatch
    PROVE  StartStep
<1>1. bg \in Breakglasses
  BY DEF TypeOK, LocalTypeOK
<1>2. CASE RecurringPendingHandle
  BY <1>2, RecurringPendingStart
<1>3. CASE \E r, t : UpdateStatus(bg, "Pending", r, t)
  BY <1>1, <1>3, UpdateStatusStart
<1>4. CASE StartCleanup("expire", bg)
  BY <1>4 DEF StartCleanup, StartStep, GrantCalls
<1>5. CASE (\E r, d : Return(r, d)) \/ (\E r, t : ReturnUntil(r, t))
  BY <1>5, ReturnStart
<1>6. CASE PendingHandle
  BY <1>2, <1>3, <1>6 DEF PendingHandle
<1>7. CASE ApprovedHandle
  BY <1>2, <1>3, <1>7 DEF ApprovedHandle
<1>8. CASE RecurringActiveHandle
  BY <1>4, <1>5, <1>8 DEF RecurringActiveHandle
<1>9. CASE TerminalHandle
  BY <1>5, <1>9 DEF TerminalHandle
<1> QED
  BY <1>2, <1>6, <1>7, <1>8, <1>9 DEF Dispatch

\* A cleanup never grants.
LEMMA CleanupStart ==
    ASSUME TypeOK, KindDone \/ (\E o : CleanupFailed(o)) \/ Goto("delete", bg)
    PROVE  StartStep
<1>1. bg \in Breakglasses
  BY DEF TypeOK, LocalTypeOK
<1>2. CASE \E c \in {"delete", "dispatch", "dropFinalizer"} : Goto(c, bg)
  BY <1>2, GotoStart DEF GrantCalls
<1>3. CASE Return("after", Backoff)
  BY <1>3, ReturnStart
<1>4. CASE UpdateStatus(bg, "Failed", "error", NoTime)
  BY <1>1, <1>4, UpdateStatusStart
<1>5. CASE \E o : CleanupFailed(o)
  BY <1>2, <1>3, <1>4, <1>5 DEF CleanupFailed
<1>6. CASE pc' = "list" /\ bg' = bg
  BY <1>6 DEF StartStep, GrantCalls
<1>7. CASE PostRevoke
  <2> DEFINE end == FinalCompletionTime(bg, now)
             s == [bg.status EXCEPT !.expiresAt = end, !.nextAt = NoTime]
             x == [bg EXCEPT !.status.expiresAt = NoTime]
             y == [bg EXCEPT !.status = s]
  <2>1. now \in Nat
    BY DEF TypeOK, ClusterTypeOK
  <2>2. x \in Breakglasses /\ x.spec = bg.spec
    BY <1>1 DEF Breakglasses, Statuses, Times
  <2>3. end \in Times
    BY <1>1, <2>1, WindowEndType DEF FinalCompletionTime
  <2> HIDE DEF end
  <2>4. s \in Statuses(Resources)
    BY <1>1, <2>3 DEF Breakglasses, Statuses, Times
  <2>5. \E r, t : \/ UpdateStatus(x, "RecurringPending", r, t)
                  \/ UpdateStatus(y, "Expired", r, t)
    <3>1. y = [bg EXCEPT !.status.expiresAt = end, !.status.nextAt = NoTime]
      BY <1>1 DEF Breakglasses
    <3> HIDE DEF x, y
    <3> QED
      BY <1>7, <3>1
      DEF PostRevoke, TransitionToRecurringPending, MarkExpired, x, end
  <2> HIDE DEF s
  <2>6. y \in Breakglasses /\ y.spec = bg.spec
    BY <1>1, <2>4 DEF Breakglasses
  <2> HIDE DEF x, y
  <2> QED
    BY <2>2, <2>5, <2>6, UpdateStatusStart
<1>8. CASE KindDone
  <2>1. CASE StartCleanup("cleanup", bg)
    BY <1>6, <2>1 DEF StartCleanup
  <2> QED
    BY <1>2, <1>6, <1>7, <1>8, <2>1 DEF KindDone, CleanupDone
<1> QED
  BY <1>2, <1>5, <1>8

-----------------------------------------------------------------------------
(* The actions.                                                            *)

\* A step of a reconcile past the finalizer, which may store an object with
\* the same start.
LEMMA StepStart ==
    ASSUME TypeOK, StartInv, pc \notin {"idle", "addFinalizer"}, StartStep,
           UNCHANGED <<now, cache>>,
           obj'.spec.start = obj.spec.start, StartStored(obj'),
           obj'.exists /\ obj'.deleting => obj'.finalizer,
           cacheFresh' => cacheFresh /\ obj' = obj,
           Access' => Access \/ pc \in GrantCalls
    PROVE  StartInv'
<1>1. WorkingStart'
  BY DEF StartInv, WorkingStart, StartStep, GrantCalls
<1>2. NotBeforeStart'
  BY DEF StartInv, WorkingStart, NotBeforeStart
<1> QED
  BY <1>1, <1>2 DEF StartInv, Agrees, StartStored

\* What a write of the object leaves of the freshness of the cache and of the
\* working copy.
LEMMA StoreFacts ==
    ASSUME NEW new, NEW own, Store(new, own)
    PROVE  /\ obj' = new
           /\ cacheFresh' => cacheFresh /\ obj' = obj
           /\ bgFresh' => own \/ bgFresh
<1>1. obj' = new /\ cacheFresh' = (cacheFresh /\ new = obj)
      /\ bgFresh' = (own \/ (bgFresh /\ new = obj))
  BY DEF Store
<1>2. cacheFresh' => cacheFresh /\ new = obj
  BY <1>1
<1>3. bgFresh' => own \/ bgFresh
  BY <1>1
<1> QED
  BY <1>1, <1>2, <1>3

\* What an Update of the Breakglass may do.
LEMMA UpdateObjFacts ==
    ASSUME NEW new, NEW o, UpdateObj(new, o)
    PROVE  /\ obj' = obj \/ (obj' = new /\ bgFresh)
           /\ cacheFresh' => cacheFresh /\ obj' = obj
<1>1. CASE UNCHANGED <<obj, cacheFresh>>
  BY <1>1
<1>2. CASE bgFresh /\ \E own : Store(new, own)
  BY <1>2, StoreFacts
<1> QED
  BY <1>1, <1>2 DEF UpdateObj

\* Begin: a copy that lacks the stored start only goes to AddFinalizer.
LEMMA BeginStart ==
    ASSUME TypeOK, StartInv, Begin
    PROVE  StartInv'
<1> DEFINE b == DefaultStart(cache)
           f == [b EXCEPT !.finalizer = TRUE]
<1>1. cache \in Breakglasses /\ now \in Nat
  BY DEF TypeOK, ClusterTypeOK
<1>2. /\ b \in Breakglasses /\ b.spec.start # NoTime
      /\ cache.spec.start # NoTime => b.spec.start = cache.spec.start
      /\ b.deleting = cache.deleting /\ b.finalizer = cache.finalizer
  BY <1>1 DEF DefaultStart, Breakglasses, Specs, Times, NoTime
<1> HIDE DEF b
<1>3. f.spec = b.spec
  BY <1>2 DEF Breakglasses
<1> HIDE DEF f
<1>4. UNCHANGED <<now, obj, rbac, cache, cacheFresh>> /\ bgFresh' = cacheFresh
  BY DEF Begin
<1>5. \/ UNCHANGED <<pc, bg>> /\ pc = "idle"
      \/ /\ cache.exists /\ (cache.deleting \/ cache.finalizer)
         /\ bg' = b /\ pc' \in {"list", "dispatch"}
      \/ bg' = f /\ pc' = "addFinalizer"
  BY <1>2 DEF Begin, Found, StartCleanup, recVars, b, f
<1>6. WorkingStart'
  <2>1. CASE UNCHANGED <<pc, bg>> /\ pc = "idle"
    BY <2>1 DEF WorkingStart, GrantCalls
  <2>2. CASE /\ cache.exists /\ (cache.deleting \/ cache.finalizer)
             /\ bg' = b /\ pc' \in {"list", "dispatch"}
    BY <1>2, <1>4, <2>2 DEF StartInv, StartStored, Agrees, WorkingStart, GrantCalls
  <2>3. CASE bg' = f /\ pc' = "addFinalizer"
    BY <1>2, <1>3, <1>4, <2>3 DEF StartInv, WorkingStart, GrantCalls
  <2> QED
    BY <1>5, <2>1, <2>2, <2>3
<1> QED
  BY <1>4, <1>6 DEF StartInv, Agrees, StartStored, NotBeforeStart, Access

\* AddFinalizer stores the default of a copy only over no start at all.
LEMMA AddFinalizerStart ==
    ASSUME TypeOK, StartInv, AddFinalizer
    PROVE  StartInv'
<1> DEFINE new == [obj EXCEPT !.finalizer = TRUE, !.spec = bg.spec]
<1>1. obj \in Breakglasses /\ bg \in Breakglasses
  BY DEF TypeOK, ClusterTypeOK, LocalTypeOK
<1>2. new.spec = bg.spec /\ new.finalizer
  BY <1>1 DEF Breakglasses
<1> HIDE DEF new
<1>3. /\ UNCHANGED <<now, rbac, cache>> /\ pc' = "idle"
      /\ obj' = obj \/ (obj' = new /\ bgFresh)
      /\ cacheFresh' => cacheFresh /\ obj' = obj
  BY UpdateObjFacts DEF AddFinalizer, Return, Ended, new
<1>4. bg.spec.start # NoTime
      /\ (bgFresh /\ obj.spec.start # NoTime => bg.spec.start = obj.spec.start)
  BY DEF StartInv, WorkingStart, AddFinalizer
<1>5. WorkingStart'
  BY <1>3 DEF WorkingStart, GrantCalls
<1>6. CASE obj' = obj
  BY <1>3, <1>5, <1>6 DEF StartInv, Agrees, StartStored, NotBeforeStart, Access
<1>7. CASE obj' = new /\ bgFresh
  BY <1>2, <1>3, <1>4, <1>5, <1>7
  DEF StartInv, Agrees, StartStored, NotBeforeStart, Access
<1> QED
  BY <1>3, <1>6, <1>7

\* DropFinalizer writes the spec of a copy that shows the stored start.
LEMMA DropFinalizerStart ==
    ASSUME TypeOK, StartInv, DropFinalizer
    PROVE  StartInv'
<1> DEFINE new == [obj EXCEPT !.finalizer = FALSE, !.exists = FALSE, !.spec = bg.spec]
           b == [bg EXCEPT !.finalizer = FALSE]
<1>1. /\ obj \in Breakglasses /\ bg \in Breakglasses
      /\ bg.spec.start = obj.spec.start
  BY DEF TypeOK, ClusterTypeOK, LocalTypeOK, DropFinalizer, StartInv, WorkingStart
<1>2. new.spec = bg.spec /\ ~new.exists /\ b.spec = bg.spec
  BY <1>1 DEF Breakglasses
<1>3. Goto("dispatch", b) \/ Return("error", 0)
  BY DEF DropFinalizer
<1> HIDE DEF new, b
<1>4. /\ UNCHANGED <<now, rbac, cache>> /\ pc \notin {"idle", "addFinalizer"}
      /\ obj' = obj \/ obj' = new
      /\ cacheFresh' => cacheFresh /\ obj' = obj
  BY UpdateObjFacts DEF DropFinalizer, new
<1>5. StartStep
  BY <1>2, <1>3, GotoStart, ReturnStart DEF GrantCalls
<1>6. /\ obj'.spec.start = obj.spec.start /\ StartStored(obj')
      /\ obj'.exists /\ obj'.deleting => obj'.finalizer
  BY <1>1, <1>2, <1>4 DEF StartInv, StartStored
<1> QED
  BY <1>4, <1>5, <1>6, StepStart DEF Access

\* The steps that leave the Breakglass alone.
LEMMA LocalStart ==
    ASSUME TypeOK, StartInv,
           List \/ DeleteResource \/ CreateResource \/ Activate \/ Dispatch
    PROVE  StartInv'
<1>1. bg \in Breakglasses /\ now \in Nat
  BY DEF TypeOK, LocalTypeOK, ClusterTypeOK
<1>2. /\ UNCHANGED <<now, obj, cache, cacheFresh>>
      /\ pc \notin {"idle", "addFinalizer"}
  BY DEF List, DeleteResource, CreateResource, Activate, Dispatch, clusterVars
<1>3. Access' => Access \/ pc \in GrantCalls
  BY DEF List, DeleteResource, CreateResource, Activate, Dispatch, clusterVars,
         UpdateRbac, Access, GrantCalls
<1>4. pc \in GrantCalls => bg.spec.start <= now
  BY DEF StartInv, WorkingStart
<1>5. CASE List \/ DeleteResource
  <2>1. KindDone \/ (\E o : CleanupFailed(o)) \/ Goto("delete", bg)
    BY <1>5 DEF List, DeleteResource
  <2>2. StartStep
    BY <2>1, CleanupStart
  <2> QED
    BY <1>2, <1>3, <2>2, StepStart DEF StartInv
<1>6. CASE CreateResource
  <2> DEFINE b == [bg EXCEPT !.status.created = @ \cup ToCreate(@)]
  <2>1. b.spec = bg.spec
    BY <1>1 DEF Breakglasses
  <2>2. \/ Goto("record", b) \/ Goto("create", bg)
        \/ Return("after", Backoff)
        \/ UpdateStatus(bg, "Failed", "none", NoTime)
    BY <1>6 DEF CreateResource
  <2> HIDE DEF b
  <2>3. bg.spec.start <= now
    BY <1>4, <1>6 DEF CreateResource, GrantCalls
  <2>4. StartStep
    BY <1>1, <2>1, <2>2, <2>3, GotoStart, ReturnStart, UpdateStatusStart
  <2> QED
    BY <1>2, <1>3, <2>4, StepStart DEF StartInv
<1>7. CASE Activate
  <2> DEFINE by == IF bg.status.approvedBy = "" THEN "system"
                   ELSE bg.status.approvedBy
             s == [bg.status EXCEPT !.approvedBy = by, !.grantedAt = now,
                                    !.expiresAt = NoTime]
             granted == [bg EXCEPT !.status = s]
             b == OnActivationGranted(granted)
  <2>1. \E r, t : UpdateStatus(b, "RecurringActive", r, t)
    <3>1. granted = [bg EXCEPT !.status.approvedBy = IF @ = "" THEN "system" ELSE @,
                               !.status.grantedAt  = now,
                               !.status.expiresAt  = NoTime]
      BY <1>1 DEF Breakglasses
    <3> HIDE DEF granted
    <3> QED
      BY <1>7, <3>1 DEF Activate
  <2>2. by \in Approvers
    BY <1>1 DEF Approvers, Breakglasses, Statuses
  <2> HIDE DEF by
  <2>3. s \in Statuses(Resources)
    BY <1>1, <2>2 DEF Breakglasses, Statuses, Times
  <2> HIDE DEF s
  <2>4. granted \in Breakglasses /\ granted.spec = bg.spec
    BY <1>1, <2>3 DEF Breakglasses
  <2> HIDE DEF granted
  <2>5. b \in Breakglasses /\ b.spec = bg.spec
    BY <2>4, OnActivationGrantedType, OnActivationGrantedSpec
  <2> HIDE DEF b
  <2>6. StartStep
    BY <2>1, <2>5, UpdateStatusStart
  <2> QED
    BY <1>2, <1>3, <2>6, StepStart DEF StartInv
<1>8. CASE Dispatch
  BY <1>2, <1>3, <1>8, DispatchStart, StepStart DEF StartInv
<1> QED
  BY <1>5, <1>6, <1>7, <1>8

\* The status updates keep the stored spec.
LEMMA StatusStart ==
    ASSUME TypeOK, StartInv, RecordResources \/ WriteStatus
    PROVE  StartInv'
<1> DEFINE new == [obj EXCEPT !.status = bg.status]
<1>1. /\ obj \in Breakglasses /\ bg \in Breakglasses
      /\ pc \notin {"idle", "addFinalizer"}
      /\ bg.spec.start = obj.spec.start
  BY DEF TypeOK, ClusterTypeOK, LocalTypeOK, RecordResources, WriteStatus,
         StartInv, WorkingStart
<1>2. /\ new.spec = obj.spec /\ new.exists = obj.exists
      /\ new.deleting = obj.deleting /\ new.finalizer = obj.finalizer
  BY <1>1 DEF Breakglasses
<1>3. \/ RecordResources /\ Goto("activate", new)
      \/ (\E r, d : Return(r, d)) \/ (\E r, t : ReturnUntil(r, t))
      \/ UpdateStatus(bg, "Failed", "none", NoTime)
  BY DEF RecordResources, WriteStatus
<1>4. UNCHANGED <<now, rbac, cache>> /\ \E o : UpdateObj(new, o)
  BY DEF RecordResources, WriteStatus
<1> HIDE DEF new
<1>5. RecordResources => bg.spec.start <= now
  BY DEF RecordResources, StartInv, WorkingStart, GrantCalls
<1>6. StartStep
  BY <1>1, <1>2, <1>3, <1>5, GotoStart, ReturnStart, UpdateStatusStart
<1>7. /\ obj' = obj \/ obj' = new
      /\ cacheFresh' => cacheFresh /\ obj' = obj
  BY <1>4, UpdateObjFacts
<1>8. /\ obj'.spec.start = obj.spec.start /\ StartStored(obj')
      /\ obj'.exists /\ obj'.deleting => obj'.finalizer
  BY <1>2, <1>7 DEF StartInv, StartStored
<1> QED
  BY <1>1, <1>4, <1>6, <1>7, <1>8, StepStart DEF Access

\* People leave the start alone and delete for good what has no finalizer.
LEMMA UserStart ==
    ASSUME TypeOK, StartInv, UserStep
    PROVE  StartInv'
<1>1. obj \in Breakglasses
  BY DEF TypeOK, ClusterTypeOK
<1>2. UNCHANGED <<now, rbac, cache, pc, bg>>
  BY DEF UserStep, User, Approve, PatchConditions, Edit, Delete, recVars
<1>3. /\ cacheFresh' => cacheFresh /\ obj' = obj
      /\ bgFresh' => bgFresh
  <2>1. \E new : Store(new, FALSE)
    BY DEF UserStep, User, Approve, PatchConditions, Edit, Delete
  <2> QED
    BY <2>1, StoreFacts
<1>4. /\ obj'.spec.start = obj.spec.start
      /\ \/ /\ obj'.exists = obj.exists /\ obj'.finalizer = obj.finalizer
            /\ obj'.deleting = obj.deleting
         \/ /\ obj'.exists = obj.exists /\ obj'.finalizer = obj.finalizer
            /\ obj.finalizer
         \/ ~obj'.exists
  <2>1. CASE Approve
    BY <1>1, <2>1 DEF Approve, Store, Breakglasses
  <2>2. CASE PatchConditions
    BY <1>1, <2>2 DEF PatchConditions, Store, Breakglasses
  <2>3. CASE Edit
    <3>1. PICK d \in Durations : obj' = [obj EXCEPT !.spec.duration = d]
      BY <2>3 DEF Edit, Store
    <3> QED
      BY <1>1, <3>1 DEF Breakglasses, Specs
  <2>4. CASE Delete
    <3>1. \/ obj.finalizer /\ obj' = [obj EXCEPT !.deleting = TRUE]
          \/ obj' = [obj EXCEPT !.deleting = TRUE, !.exists = FALSE]
      BY <2>4 DEF Delete, Store
    <3> QED
      BY <1>1, <3>1 DEF Breakglasses
  <2> QED
    BY <2>1, <2>2, <2>3, <2>4 DEF UserStep, User
<1>5. StartStored(obj') /\ (obj'.exists /\ obj'.deleting => obj'.finalizer)
  BY <1>4 DEF StartInv, StartStored
<1>6. WorkingStart'
  BY <1>2, <1>3, <1>4 DEF StartInv, WorkingStart
<1> QED
  BY <1>2, <1>3, <1>4, <1>5, <1>6
  DEF StartInv, StartStored, Agrees, NotBeforeStart, Access

\* The controller runtime and the clock.
LEMMA RuntimeStart ==
    ASSUME TypeOK, StartInv,
           WatchEvent \/ WatchRbac \/ FireTimer \/ Resync \/ Crash \/ Tick
    PROVE  StartInv'
<1>1. /\ UNCHANGED <<obj, rbac>>
      /\ \/ UNCHANGED <<cache, cacheFresh>>
         \/ cache' = obj
  BY DEF WatchEvent, DeliverObj, WatchRbac, DeliverRbac, FireTimer, Resync, Crash,
         Tick, clusterVars
<1>2. UNCHANGED <<pc, bg, bgFresh>> \/ pc' = "idle"
  BY DEF WatchEvent, DeliverObj, WatchRbac, DeliverRbac, FireTimer, Resync, Crash,
         Ended, Tick, clusterVars, recVars
<1>3. now \in Nat /\ now' \in {now, now + 1}
  BY DEF WatchEvent, DeliverObj, WatchRbac, DeliverRbac, FireTimer, Resync, Crash,
         Tick, clusterVars, TypeOK, ClusterTypeOK
<1>4. obj.spec.start \in Int /\ bg.spec.start \in Int
  BY DEF TypeOK, ClusterTypeOK, LocalTypeOK, Breakglasses, Specs, Times, NoTime
<1>5. WorkingStart'
  BY <1>1, <1>2, <1>3, <1>4 DEF StartInv, WorkingStart, GrantCalls
<1>6. NotBeforeStart'
  BY <1>1, <1>3, <1>4 DEF StartInv, NotBeforeStart, Access
<1> QED
  BY <1>1, <1>5, <1>6 DEF StartInv, StartStored, Agrees

\* The first copies have the start of the request.
LEMMA InitStart == Init => StartInv
<1> SUFFICES ASSUME Init PROVE StartInv
  OBVIOUS
<1>1. /\ cache = obj /\ rbac = {} /\ pc = "idle"
      /\ ~obj.deleting /\ ~obj.finalizer
  BY DEF Init, ClusterInit, NewBreakglass
<1> QED
  BY <1>1 DEF StartInv, StartStored, Agrees, WorkingStart, GrantCalls,
              NotBeforeStart, Access

\* Every step keeps the starts in order.
LEMMA NextStart == TypeOK /\ StartInv /\ [Next]_vars => StartInv'
<1> SUFFICES ASSUME TypeOK, StartInv, [Next]_vars PROVE StartInv'
  OBVIOUS
<1>1. CASE UNCHANGED vars
  BY <1>1 DEF StartInv, StartStored, Agrees, WorkingStart, NotBeforeStart, Access,
              vars, clusterVars, recVars
<1> QED
  BY <1>1, BeginStart, AddFinalizerStart, DropFinalizerStart, LocalStart,
     StatusStart, UserStart, RuntimeStart DEF Next, Controller

\* There is never access before the start of the schedule, given or defaulted,
\* whatever copy a reconcile grants from.
THEOREM NotBeforeStartHolds == Spec => []NotBeforeStart
<1>1. StartInv => NotBeforeStart
  BY DEF StartInv
<1> QED
  BY <1>1, InitStart, NextStart, TypeCorrect, PTL DEF Spec
=============================================================================
