---------------------------- MODULE RevokeProofs ----------------------------
(***************************************************************************)
(* Revocation, proved for every value of the constants: what is over has   *)
(* no access left.  First comes what each step of a reconcile does to its  *)
(* working copy, of use to every proof; then what a reconcile may believe  *)
(* of a copy that may be stale; then that a cleanup leaves nothing behind. *)
(***************************************************************************)
EXTENDS TermProofs

USE DEF NoTime, NoMax

Last(x) == CurrentCondition(x)

Has(x, c) == \E i \in DOMAIN x.status.conds : x.status.conds[i] = c

\* y is x with another status, in which the created resources are the same.
Carries(y, x) ==
    /\ y \in Breakglasses
    /\ y.exists = x.exists /\ y.deleting = x.deleting /\ y.finalizer = x.finalizer
    /\ y.spec = x.spec /\ y.status.created = x.status.created

\* So are the activations.
Replans(y, x) == Carries(y, x) /\ y.status.count = x.status.count

-----------------------------------------------------------------------------
(* The operators that change a Breakglass.                                 *)

\* Carrying over the status composes.
LEMMA CarriesFacts ==
    ASSUME NEW x, NEW y, NEW z
    PROVE  /\ Carries(z, y) /\ Carries(y, x) => Carries(z, x)
           /\ Replans(z, y) /\ Replans(y, x) => Replans(z, x)
           /\ x \in Breakglasses => Replans(x, x)
BY DEF Carries, Replans

\* The last condition is one of the list.
LEMMA LastHas ==
    ASSUME NEW b \in Breakglasses
    PROVE  /\ Last(b) # "" => Has(b, Last(b))
           /\ \A c \in ConditionTypes : Last(b) = c => Has(b, c)
<1>1. b.status.conds \in Seq(ConditionTypes)
  BY DEF Breakglasses, Statuses
<1>2. b.status.conds # << >> => Len(b.status.conds) \in DOMAIN b.status.conds
  BY <1>1
<1>3. Last(b) # "" => Has(b, Last(b))
  BY <1>2 DEF Last, CurrentCondition, Has
<1>4. "" \notin ConditionTypes
  BY DEF ConditionTypes
<1> QED
  BY <1>3, <1>4

\* A condition is appended unless it is there already.
LEMMA SetStatusConditionEffect ==
    ASSUME NEW s \in Seq(ConditionTypes), NEW c \in ConditionTypes
    PROVE  /\ (\E i \in DOMAIN s : s[i] = c) => SetStatusCondition(s, c) = s
           /\ ~(\E i \in DOMAIN s : s[i] = c) =>
                 /\ SetStatusCondition(s, c) # << >>
                 /\ SetStatusCondition(s, c)[Len(SetStatusCondition(s, c))] = c
                 /\ \A d : (\E i \in DOMAIN SetStatusCondition(s, c) :
                                SetStatusCondition(s, c)[i] = d)
                           <=> (\E i \in DOMAIN s : s[i] = d) \/ d = c
<1>1. CASE \E i \in DOMAIN s : s[i] = c
  BY <1>1 DEF SetStatusCondition
<1>2. CASE ~(\E i \in DOMAIN s : s[i] = c)
  <2> DEFINE a == Append(s, c)
  <2>1. SetStatusCondition(s, c) = a
    BY <1>2 DEF SetStatusCondition
  <2>2. /\ Len(a) = Len(s) + 1 /\ a[Len(s) + 1] = c
        /\ DOMAIN a = 1 .. Len(s) + 1 /\ DOMAIN s = 1 .. Len(s)
        /\ \A i \in DOMAIN s : a[i] = s[i]
        /\ Len(s) \in Nat
    OBVIOUS
  <2> HIDE DEF a
  <2>3. \A d : (\E i \in DOMAIN a : a[i] = d) <=> (\E i \in DOMAIN s : s[i] = d) \/ d = c
    <3> SUFFICES ASSUME NEW d
                 PROVE  (\E i \in DOMAIN a : a[i] = d)
                            <=> (\E i \in DOMAIN s : s[i] = d) \/ d = c
      OBVIOUS
    <3>1. \A i \in DOMAIN a : i \in DOMAIN s \/ i = Len(s) + 1
      BY <2>2
    <3>2. DOMAIN s \subseteq DOMAIN a /\ Len(s) + 1 \in DOMAIN a
      BY <2>2
    <3> QED
      BY <2>2, <3>1, <3>2
  <2>4. a # << >>
    BY <2>2
  <2> QED
    BY <1>2, <2>1, <2>2, <2>3, <2>4
<1> QED
  BY <1>1, <1>2

\* Setting a condition changes the conditions and nothing else.
LEMMA SetConditionEffect ==
    ASSUME NEW b \in Breakglasses, NEW c \in ConditionTypes
    PROVE  /\ Replans(SetCondition(b, c), b)
           /\ SetCondition(b, c).status.nextAt = b.status.nextAt
           /\ Has(b, c) => SetCondition(b, c).status.conds = b.status.conds
           /\ Has(b, c) => Last(SetCondition(b, c)) = Last(b)
           /\ ~Has(b, c) => Last(SetCondition(b, c)) = c
           /\ \A d : Has(SetCondition(b, c), d) <=> Has(b, d) \/ d = c
<1> DEFINE y == SetCondition(b, c)
           s == SetStatusCondition(b.status.conds, c)
<1>1. b.status.conds \in Seq(ConditionTypes)
  BY DEF Breakglasses, Statuses
<1>2. y.status.conds = s /\ y.status.nextAt = b.status.nextAt
  BY DEF SetCondition, Breakglasses, Statuses
<1>3. Replans(y, b)
  BY SetConditionType DEF SetCondition, Replans, Carries, Breakglasses, Statuses
<1> HIDE DEF y
<1>4. Has(b, c) => s = b.status.conds
  BY <1>1, SetStatusConditionEffect DEF Has
<1>5. ~Has(b, c) => /\ s # << >> /\ s[Len(s)] = c
                    /\ \A d : (\E i \in DOMAIN s : s[i] = d) <=> Has(b, d) \/ d = c
  BY <1>1, SetStatusConditionEffect DEF Has
<1> HIDE DEF s
<1>6. Has(b, c) => Last(y) = Last(b) /\ \A d : Has(y, d) <=> Has(b, d) \/ d = c
  BY <1>2, <1>4 DEF Last, CurrentCondition, Has
<1>7. ~Has(b, c) => Last(y) = c /\ \A d : Has(y, d) <=> Has(b, d) \/ d = c
  <2> SUFFICES ASSUME ~Has(b, c)
               PROVE  Last(y) = c /\ \A d : Has(y, d) <=> Has(b, d) \/ d = c
    OBVIOUS
  <2>1. Last(y) = c
    BY <1>2, <1>5 DEF Last, CurrentCondition
  <2>2. \A d : Has(y, d) <=> Has(b, d) \/ d = c
    BY <1>2, <1>5 DEF Has
  <2> QED
    BY <2>1, <2>2
<1> QED
  BY <1>2, <1>3, <1>4, <1>6, <1>7 DEF y

\* A copy whose list of conditions is the same has the same last one.
LEMMA SameConditions ==
    ASSUME NEW x, NEW y, x.status.conds = y.status.conds
    PROVE  Last(x) = Last(y) /\ \A d : Has(x, d) <=> Has(y, d)
BY DEF Last, CurrentCondition, Has

\* Planning changes the plan and the conditions.
LEMMA ScheduleAtEffect ==
    ASSUME NEW b \in Breakglasses, NEW t \in Times
    PROVE  /\ Replans(ScheduleAt(b, t), b)
           /\ ScheduleAt(b, t).status.nextAt = t
           /\ Has(b, "RecurringPending") =>
                 ScheduleAt(b, t).status.conds = b.status.conds
<1> DEFINE x == [b EXCEPT !.status.nextAt = t]
<1>1. Replans(x, b) /\ x.status.nextAt = t /\ x.status.conds = b.status.conds
  BY DEF Replans, Carries, Breakglasses, Statuses
<1>2. ScheduleAt(b, t) = SetCondition(x, "RecurringPending")
  BY DEF ScheduleAt
<1> HIDE DEF x
<1>3. x \in Breakglasses
  BY <1>1 DEF Replans, Carries
<1>4. /\ Replans(SetCondition(x, "RecurringPending"), x)
      /\ SetCondition(x, "RecurringPending").status.nextAt = t
      /\ Has(x, "RecurringPending") =>
            SetCondition(x, "RecurringPending").status.conds = b.status.conds
  BY <1>1, <1>3, SetConditionEffect DEF ConditionTypes
<1>5. Has(x, "RecurringPending") <=> Has(b, "RecurringPending")
  BY <1>1, SameConditions
<1> QED
  BY <1>1, <1>2, <1>4, <1>5, CarriesFacts

\* ProcessRecurring only plans; what it makes due keeps its conditions.
LEMMA ProcessRecurringEffect ==
    ASSUME NEW b \in Breakglasses, NEW t \in Nat
    PROVE  /\ Replans(ProcessRecurring(b, t), b)
           /\ /\ ~ScheduleFails(b) /\ Has(b, "RecurringPending")
              /\ ShouldActivate(ProcessRecurring(b, t), t)
              => ProcessRecurring(b, t).status.conds = b.status.conds
<1> DEFINE x == ProcessRecurring(b, t)
           Good(y) == /\ Replans(y, b)
                      /\ Has(b, "RecurringPending") => y.status.conds = b.status.conds
<1>1. b.spec.cron \in {"none", "valid", "invalid"} /\ b.spec.start \in Times
  BY DEF Breakglasses, Specs
<1>2. Good(b) /\ Good(SetCondition(b, "RecurringPending"))
  BY SetConditionEffect, CarriesFacts DEF ConditionTypes
<1>3. \A s \in Times : Good(ScheduleAt(b, s))
  BY ScheduleAtEffect
<1>4. FindPrevActivation(t) \in Times /\ CalculateNextActivation(b, t) \in Times
  BY TickTypes, NextActivationType
<1>5. StopRecurrence(b).status.nextAt = NoTime /\ Replans(StopRecurrence(b), b)
  <2> DEFINE y == [b EXCEPT !.status.nextAt = NoTime]
  <2>1. Replans(y, b) /\ y.status.nextAt = NoTime
    BY DEF Replans, Carries, Breakglasses, Statuses, Times
  <2>2. StopRecurrence(b) = SetCondition(y, "Failed")
    BY DEF StopRecurrence
  <2> HIDE DEF y
  <2>3. y \in Breakglasses
    BY <2>1 DEF Replans, Carries
  <2>4. /\ Replans(SetCondition(y, "Failed"), y)
        /\ SetCondition(y, "Failed").status.nextAt = NoTime
    BY <2>1, <2>3, SetConditionEffect DEF ConditionTypes
  <2> QED
    BY <2>1, <2>2, <2>4, CarriesFacts
<1>6. Replans(SetCondition(b, "Failed"), b)
  BY SetConditionEffect DEF ConditionTypes
<1> HIDE DEF Good
<1>7. Good(ProcessOneShot(b, t))
  BY <1>1, <1>2, <1>3 DEF ProcessOneShot, Times
<1>8. Good(HandleInitialActivation(b, t))
  BY <1>3, <1>4 DEF HandleInitialActivation
<1>9. Good(ProcessCron(b, t))
  BY <1>2, <1>3, <1>4, <1>8 DEF ProcessCron
<1>10. CASE MaxActivationsReached(b)
  <2>1. x = StopRecurrence(b)
    BY <1>10 DEF ProcessRecurring
  <2> HIDE DEF x
  <2>2. ~ShouldActivate(x, t)
    BY <1>5, <2>1 DEF ShouldActivate
  <2> QED
    BY <1>5, <2>1, <2>2 DEF x
<1>11. CASE ~MaxActivationsReached(b) /\ b.spec.cron = "invalid"
  BY <1>6, <1>11 DEF ScheduleFails, ProcessRecurring
<1>12. CASE ~MaxActivationsReached(b) /\ b.spec.cron # "invalid"
  <2>1. Good(x)
    BY <1>1, <1>7, <1>9, <1>12 DEF ProcessRecurring
  <2> HIDE DEF x
  <2> QED
    BY <2>1 DEF Good, x
<1> QED
  BY <1>10, <1>11, <1>12

\* One activation is counted; RecurringPending is there.
LEMMA OnActivationGrantedEffect ==
    ASSUME NEW b \in Breakglasses, Has(b, "RecurringPending")
    PROVE  /\ Carries(OnActivationGranted(b), b)
           /\ OnActivationGranted(b).status.count = b.status.count + 1
           /\ OnActivationGranted(b).status.conds = b.status.conds
<1> DEFINE y == OnActivationGranted(b)
<1>1. y \in Breakglasses
  BY OnActivationGrantedType
<1>2. CASE b.spec.cron = "none"
  <2> DEFINE s == [b.status EXCEPT !.nextAt = NoTime, !.count = @ + 1]
  <2>1. /\ s.count = b.status.count + 1 /\ s.created = b.status.created
        /\ s.conds = b.status.conds
    BY DEF Breakglasses, Statuses
  <2>2. y = [b EXCEPT !.status = s]
    BY <1>2 DEF OnActivationGranted, Breakglasses
  <2> HIDE DEF s, y
  <2> QED
    BY <1>1, <2>1, <2>2 DEF Carries, Breakglasses, y
<1>3. CASE b.spec.cron # "none"
  <2> DEFINE x == [b EXCEPT !.status.count = @ + 1]
  <2>1. /\ Carries(x, b) /\ x.status.count = b.status.count + 1
        /\ x.status.conds = b.status.conds
    BY DEF Carries, Breakglasses, Statuses
  <2>2. CalculateNextActivation(b, b.status.grantedAt) \in Times
    <3>1. b.status.grantedAt \in Int
      BY DEF Breakglasses, Statuses, Times
    <3> QED
      BY <3>1, NextActivationType
  <2>3. y = ScheduleAt(x, CalculateNextActivation(b, b.status.grantedAt))
    BY <1>3 DEF OnActivationGranted
  <2> HIDE DEF x, y
  <2>4. x \in Breakglasses /\ Has(x, "RecurringPending")
    BY <2>1, SameConditions DEF Carries
  <2>5. Replans(y, x) /\ y.status.conds = x.status.conds
    BY <2>2, <2>3, <2>4, ScheduleAtEffect
  <2> QED
    BY <2>1, <2>5, CarriesFacts DEF Replans, y
<1> QED
  BY <1>2, <1>3

-----------------------------------------------------------------------------
(* The steps of a reconcile.                                               *)

\* The handler reports condition c of the working copy.
Reports(c) == pc' = "status" /\ bg' = SetCondition(bg, c)

\* A due activation is started from a copy that is waiting for it.
Grants ==
    /\ Last(bg) = "RecurringPending" /\ ~ScheduleFails(bg)
    /\ bg' = ProcessRecurring(bg, now) /\ ShouldActivate(bg', now)
    /\ Replans(bg', bg) /\ bg'.status.conds = bg.status.conds
    /\ todo' = ToCreate(bg.status.created)
    /\ pc' = IF todo' = {} THEN "activate" ELSE "create"

\* The revocation of a window that has ended is started from an active copy.
Expires ==
    /\ Last(bg) \in {"Active", "RecurringActive"} /\ IsExpired(WindowEnd(bg, now))
    /\ pc' = "list" /\ bg' = bg /\ kind' = FirstKind /\ caller' = "expire"

\* RecurringPendingCondition.Handle ends, reports or starts a grant.
LEMMA RecurringPendingMoves ==
    ASSUME TypeOK, RecurringPendingHandle
    PROVE  \/ pc' = "idle"
           \/ Last(bg) # "RecurringPending" /\ Reports("RecurringPending")
           \/ Grants
<1> DEFINE b == ProcessRecurring(bg, now)
<1>1. bg \in Breakglasses /\ now \in Nat
  BY DEF TypeOK, LocalTypeOK, ClusterTypeOK
<1>2. CASE Last(bg) # "RecurringPending"
  BY <1>2 DEF RecurringPendingHandle, UpdateStatus, Reports, Last
<1>3. CASE Last(bg) = "RecurringPending" /\ ~ScheduleFails(bg) /\ ShouldActivate(b, now)
  <2>1. Has(bg, "RecurringPending")
    BY <1>1, <1>3, LastHas DEF ConditionTypes
  <2>2. Replans(b, bg) /\ b.status.conds = bg.status.conds
    BY <1>1, <1>3, <2>1, ProcessRecurringEffect
  <2> HIDE DEF b
  <2>3. GrantAccess(b)
    BY <1>3 DEF RecurringPendingHandle, Last, b
  <2>4. /\ todo' = ToCreate(bg.status.created) /\ bg' = b
        /\ pc' = IF todo' = {} THEN "activate" ELSE "create"
    BY <2>2, <2>3 DEF GrantAccess, Goto, Replans, Carries
  <2> QED
    BY <1>3, <2>2, <2>4 DEF Grants, b
<1>4. CASE /\ Last(bg) = "RecurringPending"
           /\ ScheduleFails(bg) \/ ~ShouldActivate(b, now)
  BY <1>4 DEF RecurringPendingHandle, Last, Return, ReturnUntil, Ended
<1> QED
  BY <1>2, <1>3, <1>4

\* What the handlers come to, by the last condition.
LEMMA DispatchMoves ==
    ASSUME TypeOK, Dispatch
    PROVE  \/ pc' = "idle"
           \/ /\ Last(bg) \notin {"Active", "RecurringActive", "Expired"}
              /\ \E c \in {"Pending", "RecurringPending"} : Reports(c)
           \/ Grants
           \/ Expires
<1>1. CASE /\ Last(bg) \notin {"Active", "RecurringActive", "Expired"}
           /\ RecurringPendingHandle
  BY <1>1, RecurringPendingMoves
<1>2. CASE /\ Last(bg) \notin {"Active", "RecurringActive", "Expired"}
           /\ \E r, t : UpdateStatus(bg, "Pending", r, t)
  BY <1>2 DEF UpdateStatus, Reports
<1>3. CASE (\E r, d : Return(r, d)) \/ (\E r, t : ReturnUntil(r, t))
  BY <1>3 DEF Return, ReturnUntil, Ended
<1>4. CASE HandlerFor(Last(bg)) = "recurringActive" /\ RecurringActiveHandle
  <2>1. Last(bg) \in {"Active", "RecurringActive"}
    BY <1>4 DEF HandlerFor
  <2>2. CASE IsExpired(WindowEnd(bg, now)) /\ StartCleanup("expire", bg)
    BY <2>1, <2>2 DEF StartCleanup, Expires
  <2> QED
    BY <1>3, <1>4, <2>2 DEF RecurringActiveHandle
<1>5. CASE HandlerFor(Last(bg)) = "pending" /\ PendingHandle
  <2>1. Last(bg) \notin {"Active", "RecurringActive", "Expired"}
    BY <1>5 DEF HandlerFor
  <2> QED
    BY <1>1, <1>2, <1>5, <2>1 DEF PendingHandle
<1>6. CASE HandlerFor(Last(bg)) = "approved" /\ ApprovedHandle
  <2>1. Last(bg) \notin {"Active", "RecurringActive", "Expired"}
    BY <1>6 DEF HandlerFor
  <2> QED
    BY <1>1, <1>2, <1>6, <2>1 DEF ApprovedHandle
<1>7. CASE HandlerFor(Last(bg)) = "recurringPending" /\ RecurringPendingHandle
  <2>1. Last(bg) \notin {"Active", "RecurringActive", "Expired"}
    BY <1>7 DEF HandlerFor
  <2> QED
    BY <1>1, <1>7, <2>1
<1>8. CASE TerminalHandle
  BY <1>3, <1>8 DEF TerminalHandle
<1> QED
  BY <1>4, <1>5, <1>6, <1>7, <1>8 DEF Dispatch, Last

\* After the last kind: what was revoked on expiry is planned anew or over.
Concludes ==
    /\ pc' = "status"
    /\ \E b, c : /\ Replans(b, bg) /\ b.status.conds = bg.status.conds
                 /\ b.status.nextAt \in {bg.status.nextAt, NoTime}
                 /\ c \in {"RecurringPending", "Expired"} /\ bg' = SetCondition(b, c)

\* postRevokeTransition records the end, or the next activation.
LEMMA PostRevokeMoves ==
    ASSUME TypeOK, PostRevoke
    PROVE  Concludes
<1> DEFINE end == FinalCompletionTime(bg, now)
           s == [bg.status EXCEPT !.expiresAt = end, !.nextAt = NoTime]
           x == [bg EXCEPT !.status.expiresAt = NoTime]
           y == [bg EXCEPT !.status = s]
<1>1. bg \in Breakglasses /\ now \in Nat
  BY DEF TypeOK, LocalTypeOK, ClusterTypeOK
<1>2. /\ Replans(x, bg) /\ x.status.conds = bg.status.conds
      /\ x.status.nextAt = bg.status.nextAt
  BY <1>1 DEF Replans, Carries, Breakglasses, Statuses, Times
<1>3. end \in Times
  BY <1>1, WindowEndType DEF FinalCompletionTime
<1> HIDE DEF end
<1>4. /\ s \in Statuses(Resources) /\ s.count = bg.status.count
      /\ s.nextAt = NoTime /\ s.conds = bg.status.conds
      /\ s.created = bg.status.created
  BY <1>1, <1>3 DEF Breakglasses, Statuses, Times
<1>5. \/ pc' = "status" /\ bg' = SetCondition(x, "RecurringPending")
      \/ pc' = "status" /\ bg' = SetCondition(y, "Expired")
  <2>1. y = [bg EXCEPT !.status.expiresAt = end, !.status.nextAt = NoTime]
    BY <1>1 DEF Breakglasses
  <2> HIDE DEF x, y
  <2> QED
    BY <2>1 DEF PostRevoke, TransitionToRecurringPending, MarkExpired, UpdateStatus,
                x, end
<1> HIDE DEF s
<1>6. /\ Replans(y, bg) /\ y.status.conds = bg.status.conds
      /\ y.status.nextAt = NoTime
  BY <1>1, <1>4 DEF Replans, Carries, Breakglasses
<1> HIDE DEF x, y
<1> QED
  BY <1>2, <1>5, <1>6 DEF Concludes

\* When a kind is emptied: the next kind, the next round or the end.
LEMMA KindDoneMoves ==
    ASSUME TypeOK, KindDone
    PROVE  \/ /\ kind # LastKind /\ pc' = "list" /\ bg' = bg
              /\ kind' = NextKind(kind) /\ caller' = caller
           \/ /\ kind = LastKind /\ caller = "revoke" /\ pc' = "list" /\ bg' = bg
              /\ kind' = FirstKind /\ caller' = "cleanup"
           \/ kind = LastKind /\ caller = "cleanup" /\ pc' = "dropFinalizer" /\ bg' = bg
           \/ kind = LastKind /\ caller = "expire" /\ Concludes
BY PostRevokeMoves DEF KindDone, CleanupDone, StartCleanup, Goto

\* When the cleanup fails, the reconcile ends or reports.
LEMMA CleanupFailedMoves ==
    ASSUME NEW o, CleanupFailed(o)
    PROVE  \/ pc' = "idle"
           \/ caller # "expire" /\ pc' = "dispatch" /\ bg' = bg
           \/ caller = "expire" /\ Reports("Failed")
BY DEF CleanupFailed, Goto, Return, Ended, UpdateStatus, Reports

\* One Create: the loop goes on, records what it created, or breaks off.
LEMMA CreateMoves ==
    ASSUME TypeOK, CreateResource
    PROVE  /\ \E r \in todo :
                 \/ rbac' = rbac \cup {r}
                 \/ rbac' = rbac /\ pc' \notin {"create", "record"}
           /\ \/ pc' = "idle"
              \/ Reports("Failed")
              \/ /\ pc' = "create" /\ bg' = bg
                 /\ \E r \in todo : rbac' = rbac \cup {r} /\ todo' = todo \ {r}
              \/ /\ pc' = "record"
                 /\ \E r \in todo : rbac' = rbac \cup {r} /\ todo = {r}
                 /\ bg' = [bg EXCEPT !.status.created = @ \cup ToCreate(@)]
<1>1. PICK o \in Answers, r \in todo :
          /\ UpdateRbac(rbac \cup {r}, o)
          /\ \/ /\ o = "ok" /\ todo' = todo \ {r}
                /\ IF todo = {r}
                   THEN Goto("record", [bg EXCEPT !.status.created = @ \cup ToCreate(@)])
                   ELSE Goto("create", bg)
             \/ o # "ok" /\ Return("after", Backoff)
             \/ o # "ok" /\ UpdateStatus(bg, "Failed", "none", NoTime)
  BY DEF CreateResource, IsRetryable, IsRetryableK8sError
<1>2. /\ rbac' \in {rbac, rbac \cup {r}}
      /\ o = "ok" => rbac' = rbac \cup {r}
  BY <1>1 DEF UpdateRbac
<1>3. \/ pc' = "idle"
      \/ Reports("Failed")
      \/ o = "ok" /\ todo' = todo \ {r} /\ pc' = "create" /\ bg' = bg
      \/ /\ o = "ok" /\ todo = {r} /\ pc' = "record"
         /\ bg' = [bg EXCEPT !.status.created = @ \cup ToCreate(@)]
  BY <1>1 DEF Return, Ended, UpdateStatus, Reports, Goto
<1> HIDE DEF Reports
<1>4. Reports("Failed") => pc' = "status"
  BY DEF Reports
<1> QED
  BY <1>2, <1>3, <1>4

\* Activate: the approver and the time of the grant are filled in, the
\* schedule advances.
LEMMA ActivateMoves ==
    ASSUME TypeOK, Activate, Last(bg) = "RecurringPending"
    PROVE  /\ pc' = "status"
           /\ \E b : /\ Carries(b, bg) /\ b.status.count = bg.status.count + 1
                     /\ b.status.conds = bg.status.conds
                     /\ bg' = SetCondition(b, "RecurringActive")
                     /\ \E g : Replans(g, bg) /\ b = OnActivationGranted(g)
<1> DEFINE by == IF bg.status.approvedBy = "" THEN "system" ELSE bg.status.approvedBy
           s == [bg.status EXCEPT !.approvedBy = by, !.grantedAt = now,
                                  !.expiresAt = NoTime]
           granted == [bg EXCEPT !.status = s]
           b == OnActivationGranted(granted)
<1>1. bg \in Breakglasses /\ now \in Nat
  BY DEF TypeOK, ClusterTypeOK, LocalTypeOK
<1>2. pc' = "status" /\ bg' = SetCondition(b, "RecurringActive")
  <2>1. granted = [bg EXCEPT !.status.approvedBy = IF @ = "" THEN "system" ELSE @,
                             !.status.grantedAt  = now,
                             !.status.expiresAt  = NoTime]
    BY <1>1 DEF Breakglasses
  <2> HIDE DEF granted
  <2> QED
    BY <2>1 DEF Activate, UpdateStatus
<1>3. by \in Approvers
  BY <1>1 DEF Approvers, Breakglasses, Statuses
<1> HIDE DEF by
<1>4. /\ s \in Statuses(Resources) /\ s.count = bg.status.count
      /\ s.conds = bg.status.conds /\ s.created = bg.status.created
  BY <1>1, <1>3 DEF Breakglasses, Statuses, Times
<1> HIDE DEF s
<1>5. Replans(granted, bg) /\ granted.status.conds = bg.status.conds
  BY <1>1, <1>4 DEF Replans, Carries, Breakglasses
<1> HIDE DEF granted
<1>6. granted \in Breakglasses /\ Has(granted, "RecurringPending")
  <2>1. Has(bg, "RecurringPending")
    BY <1>1, LastHas DEF ConditionTypes
  <2> QED
    BY <1>5, <2>1, SameConditions DEF Replans, Carries
<1>7. /\ Carries(b, granted) /\ b.status.count = granted.status.count + 1
      /\ b.status.conds = granted.status.conds
  BY <1>6, OnActivationGrantedEffect
<1>8. \E g : Replans(g, bg) /\ b = OnActivationGranted(g)
  BY <1>5
<1> HIDE DEF b
<1> QED
  BY <1>2, <1>5, <1>7, <1>8, CarriesFacts DEF Replans

\* Begin: the copy of the cache, with a start, enters the finalizers.
LEMMA BeginMoves ==
    ASSUME TypeOK, Begin
    PROVE  \/ UNCHANGED recVars
           \/ /\ cache.exists /\ bg'.deleting = cache.deleting
              /\ bg'.status = cache.status /\ bg' \in Breakglasses
              /\ bg'.spec = DefaultStart(cache).spec /\ ~InvalidSchedule(cache.spec)
              /\ \/ /\ cache.deleting /\ pc' = "list"
                    /\ kind' = FirstKind /\ caller' = "revoke"
                 \/ ~cache.deleting /\ cache.finalizer /\ pc' = "dispatch"
                 \/ ~cache.deleting /\ ~cache.finalizer /\ pc' = "addFinalizer"
<1> DEFINE b == DefaultStart(cache)
           f == [b EXCEPT !.finalizer = TRUE]
<1>1. cache \in Breakglasses /\ now \in Nat
  BY DEF TypeOK, ClusterTypeOK
<1>2. /\ b \in Breakglasses /\ b.status = cache.status
      /\ b.deleting = cache.deleting /\ b.finalizer = cache.finalizer
  BY <1>1 DEF DefaultStart, Breakglasses, Specs, Times
<1> HIDE DEF b
<1>3. /\ f \in Breakglasses /\ f.status = b.status /\ f.deleting = b.deleting
      /\ f.spec = b.spec
  BY <1>2 DEF Breakglasses
<1> HIDE DEF f
<1>4. CASE /\ ~InvalidSchedule(cache.spec) /\ cache.exists
          /\ StartCleanup("revoke", b) /\ b.deleting
  BY <1>2, <1>4 DEF StartCleanup, b
<1>5. CASE /\ ~InvalidSchedule(cache.spec) /\ cache.exists
          /\ ~b.deleting /\ b.finalizer /\ pc' = "dispatch" /\ bg' = b
  BY <1>2, <1>5 DEF b
<1>6. CASE /\ ~InvalidSchedule(cache.spec) /\ cache.exists
          /\ ~b.deleting /\ ~b.finalizer /\ pc' = "addFinalizer" /\ bg' = f
  BY <1>2, <1>3, <1>6 DEF b
<1> QED
  BY <1>4, <1>5, <1>6 DEF Begin, Found, b, f

\* The answers an Update of the Breakglass may get.
LEMMA UpdateObjMoves ==
    ASSUME NEW new, NEW o, UpdateObj(new, o)
    PROVE  /\ \/ obj' = obj
              \/ obj' = new /\ obj.exists /\ bgFresh
           /\ o = "ok" => obj' = new /\ obj.exists /\ bgFresh
           /\ cacheFresh' => cacheFresh /\ obj' = obj
           /\ bgFresh' /\ o # "ok" => bgFresh /\ obj' = obj
<1>1. CASE UNCHANGED <<obj, cacheFresh, bgFresh>> /\ o # "ok"
  BY <1>1
<1>2. CASE \E own : Store(new, own) /\ obj.exists /\ bgFresh /\ (own => o = "ok")
  <2>1. PICK own : Store(new, own) /\ (own => o = "ok")
    BY <1>2
  <2>2. obj' = new /\ (cacheFresh' => cacheFresh /\ new = obj)
    BY <2>1 DEF Store
  <2>3. bgFresh' => own \/ new = obj
    BY <2>1 DEF Store
  <2> QED
    BY <1>2, <2>1, <2>2, <2>3
<1> QED
  BY <1>1, <1>2 DEF UpdateObj

-----------------------------------------------------------------------------
(* What a reconcile may believe of its copies.                             *)

\* The calls of a reconcile that has written nothing of its own yet.
ReadCalls == {"dispatch", "list", "delete", "dropFinalizer"}

\* The stored object and the informer's copy: a Breakglass is deleted before
\* it is gone, its finalizer, once added, is only dropped to let it go, and
\* nothing is granted without one.
StoredCopies ==
    /\ cacheFresh => cache = obj
    /\ ~obj.exists => obj.deleting /\ ~obj.finalizer
    /\ obj.exists /\ obj.deleting => obj.finalizer
    /\ cache.exists /\ cache.deleting => cache.finalizer
    /\ cache.finalizer => obj.finalizer \/ ~obj.exists
    /\ cache.deleting => obj.deleting
    /\ obj.exists /\ ~obj.finalizer => ~Access /\ Last(obj) # "RecurringActive"

\* The working copy: how far a reconcile gets depends on what the copy it read
\* showed, stale or not.
WorkingCopy ==
    /\ pc \notin {"idle", "addFinalizer"} => obj.finalizer \/ ~obj.exists
    /\ pc # "idle" /\ bg.deleting => obj.deleting
    /\ pc \in {"list", "delete"} /\ caller # "expire" => bg.deleting
    /\ pc = "dropFinalizer" => bg.deleting
    /\ pc \in {"list", "delete"} /\ caller = "expire"
           => Last(bg) \in {"Active", "RecurringActive"}
    /\ pc \in GrantCalls => Last(bg) = "RecurringPending"

\* A working copy of the stored version is up to date, so that what it makes
\* the reconcile write was decided on the stored status.
Synced ==
    bgFresh /\ obj.exists =>
        /\ pc \in ReadCalls => cacheFresh /\ bg.status = obj.status
        /\ pc \in GrantCalls \cup {"status"} => Last(obj) # "Expired"
        /\ pc = "status" /\ Last(bg) = "Expired"
              => cacheFresh /\ Last(obj) # "RecurringPending"

CopyInv == StoredCopies /\ WorkingCopy /\ Synced

\* The steps of a reconcile that leave the Breakglass alone.
LEMMA LocalCopies ==
    ASSUME TypeOK, CopyInv,
           List \/ DeleteResource \/ CreateResource \/ Activate \/ Dispatch
    PROVE  CopyInv'
<1>1. /\ bg \in Breakglasses /\ obj \in Breakglasses
      /\ UNCHANGED <<obj, cache, cacheFresh, bgFresh>>
      /\ pc \notin {"idle", "addFinalizer"}
  BY DEF List, DeleteResource, CreateResource, Activate, Dispatch, clusterVars,
         TypeOK, LocalTypeOK, ClusterTypeOK
<1>2. obj.finalizer \/ ~obj.exists
  BY <1>1 DEF CopyInv, WorkingCopy
<1>3. StoredCopies'
  BY <1>1, <1>2 DEF CopyInv, StoredCopies
<1>4. Last(bg') = Last(bg) \/ ~(bg' = bg)
  BY DEF Last, CurrentCondition
<1>5. \A c \in ConditionTypes : Reports(c) =>
          /\ pc' = "status" /\ bg'.deleting = bg.deleting
          /\ Last(bg') \in {c, Last(bg)}
  BY <1>1, SetConditionEffect DEF Reports, Replans, Carries
<1>6. bgFresh /\ obj.exists /\ pc \in ReadCalls => Last(bg) = Last(obj) /\ cacheFresh
  BY SameConditions DEF CopyInv, Synced
<1>7. CASE pc' = "idle"
  BY <1>3, <1>7 DEF CopyInv, WorkingCopy, Synced, ReadCalls, GrantCalls
<1>8. CASE List \/ DeleteResource
  <2>1. pc \in {"list", "delete"}
    BY <1>8 DEF List, DeleteResource
  <2>2. CASE pc' = "delete" /\ bg' = bg /\ caller' = caller
    BY <1>1, <1>2, <1>3, <2>1, <2>2
    DEF CopyInv, WorkingCopy, Synced, ReadCalls, GrantCalls, Last, CurrentCondition
  <2>3. CASE \E o : CleanupFailed(o)
    <3>1. CASE caller # "expire" /\ pc' = "dispatch" /\ bg' = bg
      BY <1>1, <1>2, <1>3, <2>1, <3>1
      DEF CopyInv, WorkingCopy, Synced, ReadCalls, GrantCalls
    <3>2. CASE caller = "expire" /\ Reports("Failed")
      <4>1. /\ pc' = "status" /\ bg'.deleting = bg.deleting
            /\ Last(bg') \in {"Failed", Last(bg)}
            /\ Last(bg) \in {"Active", "RecurringActive"}
        BY <1>5, <2>1, <3>2 DEF ConditionTypes, CopyInv, WorkingCopy
      <4>2. WorkingCopy'
        BY <1>1, <1>2, <2>1, <4>1 DEF CopyInv, WorkingCopy, GrantCalls
      <4>3. Synced'
        BY <1>1, <1>6, <2>1, <4>1 DEF CopyInv, Synced, ReadCalls, GrantCalls, Last, CurrentCondition
      <4> QED
        BY <1>3, <4>2, <4>3 DEF CopyInv
    <3> QED
      BY <1>7, <2>3, <3>1, <3>2, CleanupFailedMoves
  <2>4. CASE KindDone
    <3>1. CASE /\ pc' = "list" /\ bg' = bg
               /\ caller' = caller \/ (caller = "revoke" /\ caller' = "cleanup")
      <4>1. WorkingCopy'
        BY <1>1, <1>2, <2>1, <3>1 DEF CopyInv, WorkingCopy, GrantCalls, Last, CurrentCondition
      <4>2. Synced'
        BY <1>1, <2>1, <3>1 DEF CopyInv, Synced, ReadCalls, GrantCalls
      <4> QED
        BY <1>3, <4>1, <4>2 DEF CopyInv
    <3>2. CASE caller = "cleanup" /\ pc' = "dropFinalizer" /\ bg' = bg
      <4>1. WorkingCopy'
        BY <1>1, <1>2, <2>1, <3>2 DEF CopyInv, WorkingCopy, GrantCalls
      <4>2. Synced'
        BY <1>1, <2>1, <3>2 DEF CopyInv, Synced, ReadCalls, GrantCalls
      <4> QED
        BY <1>3, <4>1, <4>2 DEF CopyInv
    <3>3. CASE caller = "expire" /\ Concludes
      <4>1. PICK b, c : /\ Replans(b, bg) /\ b.status.conds = bg.status.conds
                        /\ c \in {"RecurringPending", "Expired"}
                        /\ bg' = SetCondition(b, c)
        BY <3>3 DEF Concludes
      <4>2. /\ pc' = "status" /\ bg'.deleting = bg.deleting
            /\ Last(bg) \in {"Active", "RecurringActive"}
        BY <2>1, <3>3, <4>1, SetConditionEffect
        DEF Concludes, Replans, Carries, ConditionTypes, CopyInv, WorkingCopy
      <4>3. WorkingCopy'
        BY <1>1, <1>2, <2>1, <4>2 DEF CopyInv, WorkingCopy, GrantCalls
      <4>4. Synced'
        BY <1>1, <1>6, <2>1, <4>2 DEF CopyInv, Synced, ReadCalls, GrantCalls, Last, CurrentCondition
      <4> QED
        BY <1>3, <4>3, <4>4 DEF CopyInv
    <3> QED
      BY <2>4, <3>1, <3>2, <3>3, KindDoneMoves
  <2>5. CASE Goto("delete", bg)
    BY <2>2, <2>5 DEF Goto
  <2> QED
    BY <1>8, <2>3, <2>4, <2>5 DEF List, DeleteResource
<1>9. CASE CreateResource
  <2> DEFINE b == [bg EXCEPT !.status.created = @ \cup ToCreate(@)]
  <2>1. pc = "create" /\ Last(bg) = "RecurringPending"
    BY <1>9 DEF CreateResource, CopyInv, WorkingCopy, GrantCalls
  <2>2. b.deleting = bg.deleting /\ Last(b) = Last(bg)
    BY <1>1 DEF Breakglasses, Statuses, Last, CurrentCondition
  <2>3. \/ pc' = "idle"
        \/ Reports("Failed")
        \/ pc' \in {"create", "record"} /\ bg' \in {bg, b}
    BY <1>9, CreateMoves
  <2> HIDE DEF b
  <2>4. CASE pc' \in {"create", "record"} /\ bg' \in {bg, b}
    <3>1. bg'.deleting = bg.deleting /\ Last(bg') = "RecurringPending"
      BY <2>1, <2>2, <2>4, <1>4
    <3>2. WorkingCopy'
      BY <1>1, <1>2, <2>1, <2>4, <3>1 DEF CopyInv, WorkingCopy, GrantCalls
    <3>3. Synced'
      BY <1>1, <2>1, <2>4 DEF CopyInv, Synced, ReadCalls, GrantCalls, Last, CurrentCondition
    <3> QED
      BY <1>3, <3>2, <3>3 DEF CopyInv
  <2>5. CASE Reports("Failed")
    <3>1. /\ pc' = "status" /\ bg'.deleting = bg.deleting
          /\ Last(bg') # "Expired"
      BY <1>5, <2>1, <2>5 DEF ConditionTypes
    <3>2. WorkingCopy'
      BY <1>1, <1>2, <2>1, <3>1 DEF CopyInv, WorkingCopy, GrantCalls
    <3>3. Synced'
      BY <1>1, <2>1, <3>1 DEF CopyInv, Synced, ReadCalls, GrantCalls, Last, CurrentCondition
    <3> QED
      BY <1>3, <3>2, <3>3 DEF CopyInv
  <2> QED
    BY <1>7, <2>3, <2>4, <2>5
<1>10. CASE Activate
  <2>1. pc = "activate" /\ Last(bg) = "RecurringPending"
    BY <1>10 DEF Activate, CopyInv, WorkingCopy, GrantCalls
  <2>2. PICK b : /\ Carries(b, bg) /\ b.status.conds = bg.status.conds
                 /\ bg' = SetCondition(b, "RecurringActive")
    BY <1>10, <2>1, ActivateMoves
  <2>3. /\ pc' = "status" /\ bg'.deleting = bg.deleting
        /\ Last(bg') # "Expired"
    <3>1. b \in Breakglasses /\ b.deleting = bg.deleting /\ Last(b) = Last(bg)
      BY <2>2, SameConditions DEF Carries
    <3> QED
      BY <1>10, <2>1, <2>2, <3>1, ActivateMoves, SetConditionEffect
      DEF ConditionTypes, Replans, Carries
  <2>4. WorkingCopy'
    BY <1>1, <1>2, <2>1, <2>3 DEF CopyInv, WorkingCopy, GrantCalls
  <2>5. Synced'
    BY <1>1, <2>1, <2>3 DEF CopyInv, Synced, ReadCalls, GrantCalls, Last, CurrentCondition
  <2> QED
    BY <1>3, <2>4, <2>5 DEF CopyInv
<1>11. CASE Dispatch
  <2>1. pc = "dispatch"
    BY <1>11 DEF Dispatch
  <2>2. CASE /\ Last(bg) \notin {"Active", "RecurringActive", "Expired"}
             /\ \E c \in {"Pending", "RecurringPending"} : Reports(c)
    <3>1. /\ pc' = "status" /\ bg'.deleting = bg.deleting
          /\ Last(bg') # "Expired"
      BY <1>5, <2>2 DEF ConditionTypes
    <3>2. WorkingCopy'
      BY <1>1, <1>2, <2>1, <3>1 DEF CopyInv, WorkingCopy, GrantCalls
    <3>3. Synced'
      BY <1>1, <1>6, <2>1, <2>2, <3>1 DEF CopyInv, Synced, ReadCalls, GrantCalls, Last, CurrentCondition
    <3> QED
      BY <1>3, <3>2, <3>3 DEF CopyInv
  <2>3. CASE Grants
    <3>1. /\ pc' \in {"create", "activate"} /\ bg'.deleting = bg.deleting
          /\ Last(bg) = "RecurringPending" /\ Last(bg') = "RecurringPending"
      BY <2>3, SameConditions DEF Grants, Replans, Carries
    <3>2. WorkingCopy'
      BY <1>1, <1>2, <2>1, <3>1 DEF CopyInv, WorkingCopy, GrantCalls
    <3>3. Synced'
      BY <1>1, <1>6, <2>1, <3>1 DEF CopyInv, Synced, ReadCalls, GrantCalls, Last, CurrentCondition
    <3> QED
      BY <1>3, <3>2, <3>3 DEF CopyInv
  <2>4. CASE Expires
    <3>1. /\ pc' = "list" /\ bg' = bg /\ caller' = "expire"
          /\ Last(bg) \in {"Active", "RecurringActive"}
      BY <2>4 DEF Expires
    <3>2. WorkingCopy'
      BY <1>1, <1>2, <2>1, <3>1 DEF CopyInv, WorkingCopy, GrantCalls, Last, CurrentCondition
    <3>3. Synced'
      BY <1>1, <2>1, <3>1 DEF CopyInv, Synced, ReadCalls, GrantCalls
    <3> QED
      BY <1>3, <3>2, <3>3 DEF CopyInv
  <2> QED
    BY <1>7, <1>11, <2>2, <2>3, <2>4, DispatchMoves
<1> QED
  BY <1>8, <1>9, <1>10, <1>11

\* Begin reads the informer's copy.
LEMMA BeginCopies ==
    ASSUME TypeOK, CopyInv, Begin
    PROVE  CopyInv'
<1>1. /\ UNCHANGED <<obj, rbac, cache, cacheFresh>> /\ bgFresh' = cacheFresh
      /\ pc = "idle"
  BY DEF Begin
<1>2. StoredCopies'
  BY <1>1 DEF CopyInv, StoredCopies, Access, Last, CurrentCondition
<1>3. cacheFresh => cache = obj
  BY DEF CopyInv, StoredCopies
<1>4. CASE UNCHANGED recVars
  BY <1>1, <1>2, <1>4 DEF recVars, CopyInv, WorkingCopy, Synced, ReadCalls, GrantCalls
<1>5. CASE /\ cache.exists /\ bg'.deleting = cache.deleting
           /\ bg'.status = cache.status
           /\ \/ cache.deleting /\ pc' = "list" /\ caller' = "revoke"
              \/ ~cache.deleting /\ cache.finalizer /\ pc' = "dispatch"
              \/ ~cache.deleting /\ ~cache.finalizer /\ pc' = "addFinalizer"
  <2>1. WorkingCopy'
    BY <1>1, <1>5 DEF CopyInv, StoredCopies, WorkingCopy, GrantCalls
  <2>2. Synced'
    BY <1>1, <1>3, <1>5 DEF Synced, ReadCalls, GrantCalls
  <2> QED
    BY <1>2, <2>1, <2>2 DEF CopyInv
<1> QED
  BY <1>4, <1>5, BeginMoves

\* A write that keeps what the other copies rely on.
LEMMA StoredCopiesKept ==
    ASSUME StoredCopies, UNCHANGED cache, Access' => Access \/ obj'.finalizer,
           cacheFresh' => cacheFresh /\ obj' = obj,
           obj.deleting => obj'.deleting,
           obj'.exists => obj.exists,
           ~obj'.exists => obj'.deleting /\ ~obj'.finalizer,
           obj'.exists /\ obj'.deleting => obj'.finalizer,
           obj.finalizer => obj'.finalizer \/ ~obj'.exists,
           obj'.exists /\ ~obj'.finalizer => Last(obj') # "RecurringActive"
    PROVE  StoredCopies'
BY DEF StoredCopies, Last, CurrentCondition

\* The finalizer comes, and goes with the object.
LEMMA FinalizerCopies ==
    ASSUME TypeOK, CopyInv, AddFinalizer \/ DropFinalizer
    PROVE  CopyInv'
<1> DEFINE b == [bg EXCEPT !.finalizer = FALSE]
           added == [obj EXCEPT !.finalizer = TRUE, !.spec = bg.spec]
           dropped == [obj EXCEPT !.finalizer = FALSE, !.exists = FALSE,
                                  !.spec = bg.spec]
<1>1. obj \in Breakglasses /\ bg \in Breakglasses /\ pc # "idle"
  BY DEF TypeOK, ClusterTypeOK, LocalTypeOK, AddFinalizer, DropFinalizer
<1>2. b.deleting = bg.deleting
  BY <1>1 DEF Breakglasses
<1>3. /\ added.finalizer /\ added.exists = obj.exists /\ added.deleting = obj.deleting
      /\ ~dropped.finalizer /\ ~dropped.exists /\ dropped.deleting = obj.deleting
  BY <1>1 DEF Breakglasses
<1>4. UNCHANGED <<cache, rbac>>
  BY DEF AddFinalizer, DropFinalizer
<1>5. CASE AddFinalizer
  <2>1. pc' = "idle" /\ \E o : UpdateObj(added, o)
    BY <1>5 DEF AddFinalizer, Return, Ended
  <2>2. /\ obj' = obj \/ (obj' = added /\ obj.exists)
        /\ cacheFresh' => cacheFresh /\ obj' = obj
    BY <2>1, UpdateObjMoves
  <2> HIDE DEF added
  <2>3. StoredCopies'
    <3>1. CASE obj' = obj
      BY <1>4, <2>2, <3>1 DEF CopyInv, StoredCopies, Access
    <3>2. CASE obj' = added /\ obj.exists
      BY <1>3, <1>4, <2>2, <3>2, StoredCopiesKept DEF CopyInv, StoredCopies, Access
    <3> QED
      BY <2>2, <3>1, <3>2
  <2> QED
    BY <2>1, <2>3 DEF CopyInv, WorkingCopy, Synced, ReadCalls, GrantCalls
<1>6. CASE DropFinalizer
  <2>1. PICK o : /\ UpdateObj(dropped, o)
                 /\ \/ o = "ok" /\ Goto("dispatch", b)
                    \/ Return("error", 0)
    BY <1>6 DEF DropFinalizer
  <2>2. /\ obj' = obj \/ obj' = dropped
        /\ o = "ok" => obj' = dropped
        /\ cacheFresh' => cacheFresh /\ obj' = obj
    BY <2>1, UpdateObjMoves
  <2>3. bg.deleting /\ obj.deleting
    BY <1>1, <1>6 DEF DropFinalizer, CopyInv, WorkingCopy
  <2> HIDE DEF dropped, b
  <2>4. StoredCopies'
    <3>1. CASE obj' = obj
      BY <1>4, <2>2, <3>1 DEF CopyInv, StoredCopies, Access
    <3>2. CASE obj' = dropped
      BY <1>3, <1>4, <2>2, <2>3, <3>2, StoredCopiesKept DEF CopyInv, Access
    <3> QED
      BY <2>2, <3>1, <3>2
  <2>5. \/ pc' = "idle"
        \/ pc' = "dispatch" /\ bg'.deleting = bg.deleting /\ obj' = dropped
    BY <1>2, <2>1, <2>2 DEF Goto, Return, Ended
  <2> QED
    BY <1>3, <2>3, <2>4, <2>5
    DEF CopyInv, WorkingCopy, Synced, ReadCalls, GrantCalls
<1> QED
  BY <1>5, <1>6

\* The status updates.
LEMMA StatusCopies ==
    ASSUME TypeOK, CopyInv, RecordResources \/ WriteStatus
    PROVE  CopyInv'
<1> DEFINE new == [obj EXCEPT !.status = bg.status]
<1>1. /\ obj \in Breakglasses /\ bg \in Breakglasses
      /\ obj.finalizer \/ ~obj.exists
  BY DEF TypeOK, ClusterTypeOK, LocalTypeOK, RecordResources, WriteStatus,
         CopyInv, WorkingCopy
<1>2. /\ new.exists = obj.exists /\ new.deleting = obj.deleting
      /\ new.finalizer = obj.finalizer /\ new.status = bg.status
  BY <1>1 DEF Breakglasses
<1>3. UNCHANGED <<cache, rbac>>
  BY DEF RecordResources, WriteStatus
<1>4. PICK o : /\ UpdateObj(new, o)
               /\ \/ pc' = "idle"
                  \/ /\ RecordResources
                     /\ \/ o = "ok" /\ pc' = "activate" /\ bg' = new
                        \/ o # "ok" /\ Reports("Failed")
  BY DEF RecordResources, WriteStatus, Goto, Return, ReturnUntil, Ended,
         UpdateStatus, Reports, IsRetryable, IsRetryableK8sError
<1>5. /\ obj' = obj \/ obj' = new
      /\ o = "ok" => obj' = new
      /\ cacheFresh' => cacheFresh /\ obj' = obj
      /\ bgFresh' /\ o # "ok" => bgFresh /\ obj' = obj
  BY <1>4, UpdateObjMoves
<1> HIDE DEF new
<1>6. /\ obj'.exists = obj.exists /\ obj'.deleting = obj.deleting
      /\ obj'.finalizer = obj.finalizer
  BY <1>2, <1>5
<1>7. StoredCopies'
  BY <1>1, <1>3, <1>5, <1>6, StoredCopiesKept DEF CopyInv, StoredCopies, Access
<1>8. CASE pc' = "idle"
  BY <1>7, <1>8 DEF CopyInv, WorkingCopy, Synced, ReadCalls, GrantCalls
<1>9. RecordResources => /\ pc = "record" /\ Last(bg) = "RecurringPending"
                         /\ bg.deleting => obj.deleting
  BY DEF RecordResources, CopyInv, WorkingCopy, GrantCalls
<1>10. CASE RecordResources /\ o = "ok" /\ pc' = "activate" /\ bg' = new
  <2>1. Last(bg') = "RecurringPending" /\ Last(obj') = "RecurringPending"
    BY <1>2, <1>5, <1>9, <1>10, SameConditions
  <2>2. WorkingCopy'
    BY <1>1, <1>2, <1>6, <1>10, <2>1 DEF WorkingCopy, GrantCalls
  <2>3. Synced'
    BY <1>10, <2>1 DEF Synced, ReadCalls, GrantCalls, Last, CurrentCondition
  <2> QED
    BY <1>7, <2>2, <2>3 DEF CopyInv
<1>11. CASE RecordResources /\ o # "ok" /\ Reports("Failed")
  <2>1. /\ pc' = "status" /\ bg'.deleting = bg.deleting /\ Last(bg') # "Expired"
    BY <1>1, <1>9, <1>11, SetConditionEffect
    DEF Reports, Replans, Carries, ConditionTypes
  <2>2. WorkingCopy'
    BY <1>1, <1>6, <1>9, <1>11, <2>1 DEF WorkingCopy, GrantCalls
  <2>3. Synced'
    <3>1. bgFresh /\ obj.exists => Last(obj) # "Expired"
      BY <1>9, <1>11 DEF CopyInv, Synced, GrantCalls
    <3>2. bgFresh' => bgFresh /\ obj' = obj
      BY <1>5, <1>11
    <3> QED
      BY <2>1, <3>1, <3>2 DEF Synced, ReadCalls, GrantCalls, Last, CurrentCondition
  <2> QED
    BY <1>7, <2>2, <2>3 DEF CopyInv
<1> QED
  BY <1>4, <1>8, <1>10, <1>11

\* Nobody patches in the claim that the request is active, or finished.
Unforged == "patch" \in UserOps => Patched \cap {"RecurringActive", "Expired"} = {}

\* People: approvals, patches and edits keep the object, a deletion takes it
\* if it has no finalizer.
LEMMA UserCopies ==
    ASSUME Unforged, TypeOK, CopyInv, UserStep
    PROVE  CopyInv'
<1>1. obj \in Breakglasses
  BY DEF TypeOK, ClusterTypeOK
<1>2. UNCHANGED <<cache, rbac, pc, bg, caller>>
  BY DEF UserStep, User, Approve, PatchConditions, Edit, Delete, recVars
<1>3. /\ cacheFresh' => cacheFresh /\ obj' = obj
      /\ bgFresh' => bgFresh /\ obj' = obj
      /\ obj' = obj => cacheFresh' = cacheFresh
  <2>1. PICK new : Store(new, FALSE)
    BY DEF UserStep, User, Approve, PatchConditions, Edit, Delete
  <2>2. obj' = new /\ cacheFresh' = (cacheFresh /\ new = obj)
        /\ bgFresh' = (bgFresh /\ new = obj)
    BY <2>1, Zenon DEF Store
  <2>3. cacheFresh' => cacheFresh /\ obj' = obj
    BY <2>2
  <2>4. bgFresh' => bgFresh /\ obj' = obj
    BY <2>2
  <2>5. obj' = obj => cacheFresh' = cacheFresh
    BY <2>2 DEF TypeOK, ClusterTypeOK
  <2> QED
    BY <2>3, <2>4, <2>5
<1>4. /\ obj.exists /\ (Last(obj') = "RecurringActive" => Last(obj) = "RecurringActive")
      /\ obj.deleting => obj'.deleting
      /\ \/ /\ obj'.exists /\ obj'.finalizer = obj.finalizer
            /\ obj'.deleting = obj.deleting \/ obj.finalizer
         \/ ~obj'.exists /\ obj'.deleting /\ ~obj'.finalizer /\ ~obj.finalizer
  <2>1. CASE Approve
    BY <1>1, <2>1 DEF Approve, Store, Breakglasses, Statuses, Last, CurrentCondition
  <2>2. CASE PatchConditions
    <3>0. PICK c \in Patched : obj' = [obj EXCEPT !.status.conds = <<c>>]
      BY <2>2 DEF PatchConditions, Store
    <3>9. obj.exists /\ c \notin {"Expired", "RecurringActive"}
      BY <2>2 DEF PatchConditions, Unforged
    <3> DEFINE conds == <<c>>
               new == [obj EXCEPT !.status.conds = conds]
    <3>1. obj' = new /\ obj.exists
      BY <3>0, <3>9
    <3>2. conds # << >> /\ conds[Len(conds)] = c
      OBVIOUS
    <3> HIDE DEF conds
    <3>3. /\ new.status.conds = conds /\ new.exists = obj.exists
          /\ new.finalizer = obj.finalizer /\ new.deleting = obj.deleting
      BY <1>1 DEF Breakglasses, Statuses
    <3> HIDE DEF new
    <3>4. Last(obj') = c
      BY <3>1, <3>2, <3>3 DEF Last, CurrentCondition
    <3> QED
      BY <3>9, <3>1, <3>3, <3>4
  <2>3. CASE Edit
    <3>1. PICK d \in Durations : obj' = [obj EXCEPT !.spec.duration = d] /\ obj.exists
      BY <2>3 DEF Edit, Store
    <3> QED
      BY <1>1, <3>1 DEF Breakglasses, Specs, Last, CurrentCondition
  <2>4. CASE Delete
    <3>1. /\ obj.exists
          /\ \/ obj.finalizer /\ obj' = [obj EXCEPT !.deleting = TRUE]
             \/ /\ ~obj.finalizer
                /\ obj' = [obj EXCEPT !.deleting = TRUE, !.exists = FALSE]
      BY <2>4 DEF Delete, Store
    <3> QED
      BY <1>1, <3>1 DEF Breakglasses, Last, CurrentCondition
  <2> QED
    BY <2>1, <2>2, <2>3, <2>4 DEF UserStep, User
<1>5. StoredCopies'
  BY <1>2, <1>3, <1>4, StoredCopiesKept DEF CopyInv, StoredCopies, Access
<1>6. WorkingCopy'
  BY <1>2, <1>4 DEF CopyInv, WorkingCopy, GrantCalls, Last, CurrentCondition
<1>7. Synced'
  BY <1>2, <1>3 DEF CopyInv, Synced, ReadCalls, GrantCalls, Last, CurrentCondition
<1> QED
  BY <1>5, <1>6, <1>7 DEF CopyInv

\* The controller runtime and the clock.
LEMMA RuntimeCopies ==
    ASSUME TypeOK, CopyInv,
           WatchEvent \/ WatchRbac \/ FireTimer \/ Resync \/ Crash \/ Tick
    PROVE  CopyInv'
<1>1. /\ UNCHANGED <<obj, rbac>>
      /\ \/ UNCHANGED <<cache, cacheFresh>>
         \/ cache' = obj /\ cacheFresh'
  BY DEF WatchEvent, DeliverObj, WatchRbac, DeliverRbac, FireTimer, Resync, Crash,
         Tick, clusterVars
<1>2. UNCHANGED <<pc, bg, caller, bgFresh>> \/ pc' = "idle"
  BY DEF WatchEvent, DeliverObj, WatchRbac, DeliverRbac, FireTimer, Resync, Crash,
         Ended, Tick, clusterVars, recVars
<1>3. StoredCopies'
  BY <1>1 DEF CopyInv, StoredCopies, Access, Last, CurrentCondition
<1>4. WorkingCopy'
  BY <1>1, <1>2 DEF CopyInv, WorkingCopy, GrantCalls, Last, CurrentCondition
<1>5. Synced'
  BY <1>1, <1>2 DEF CopyInv, Synced, ReadCalls, GrantCalls, Last, CurrentCondition
<1> QED
  BY <1>3, <1>4, <1>5 DEF CopyInv

\* The first copies agree.
LEMMA InitCopies == Init => CopyInv
<1> SUFFICES ASSUME Init PROVE CopyInv
  OBVIOUS
<1>1. /\ cache = obj /\ rbac = {} /\ pc = "idle"
      /\ obj.exists /\ ~obj.deleting /\ ~obj.finalizer /\ obj.status.conds = << >>
  <2>1. PICK spec \in InitSpecs : obj = NewBreakglass(spec)
    BY DEF Init, ClusterInit
  <2>2. obj.status.conds = << >>
    BY <2>1 DEF NewBreakglass, NewStatus
  <2>3. obj.exists /\ ~obj.deleting /\ ~obj.finalizer
    BY <2>1 DEF NewBreakglass
  <2> QED
    BY <2>2, <2>3 DEF Init, ClusterInit
<1>2. Last(obj) # "RecurringActive"
  BY <1>1 DEF Last, CurrentCondition
<1> QED
  BY <1>1, <1>2 DEF CopyInv, StoredCopies, WorkingCopy, Synced, ReadCalls, GrantCalls, Access

\* Every step keeps the copies of the status in order.
LEMMA NextCopies ==
    ASSUME Unforged
    PROVE  TypeOK /\ CopyInv /\ [Next]_vars => CopyInv'
<1> SUFFICES ASSUME TypeOK, CopyInv, [Next]_vars PROVE CopyInv'
  OBVIOUS
<1>1. CASE UNCHANGED vars
  BY <1>1 DEF CopyInv, StoredCopies, WorkingCopy, Synced, Access, Last,
              CurrentCondition, vars, clusterVars, recVars
<1> QED
  BY <1>1, LocalCopies, BeginCopies, FinalizerCopies, StatusCopies, UserCopies,
     RuntimeCopies DEF Next, Controller

\* What a reconcile may believe of the copy it works on, however stale.
THEOREM CopyInvariant == ASSUME Unforged PROVE Spec => []CopyInv
BY InitCopies, NextCopies, TypeCorrect, PTL DEF Spec

-----------------------------------------------------------------------------
(* A cleanup leaves nothing behind, and nothing comes back.                *)

\* The kinds that are through before kind k.
Earlier(k) ==
    IF k = FirstKind THEN {}
    ELSE IF k = LastKind THEN Kinds \ {LastKind} ELSE {FirstKind}

\* How far a cleanup is, and that it came to its end.
Emptied ==
    /\ pc \in {"list", "delete"} => \A r \in rbac : Kind(r) \notin Earlier(kind)
    /\ pc = "delete" => \A r \in rbac : Kind(r) = kind => r \in todo
    /\ pc = "dropFinalizer" => ~Access
    /\ pc = "status" /\ Last(bg) = "Expired" => ~Access

\* The request is over: it has expired, or went while it was active.
Over == Last(obj) = "Expired" \/ (~obj.exists /\ Last(obj) = "RecurringActive")

\* No copy that is waiting for an activation is left when the request is over,
\* so nothing is granted again.
Settled ==
    Over =>
        /\ ~Access
        /\ Last(cache) # "RecurringPending"
        /\ pc \notin GrantCalls
        /\ pc \in ReadCalls \cup {"addFinalizer"} => Last(bg) # "RecurringPending"

RevokeInv == Emptied /\ Settled

\* The kinds in the order of cleanup.
LEMMA KindFacts ==
    /\ \A r : Kind(r) \in Kinds
    /\ Earlier(FirstKind) = {}
    /\ \A k \in Kinds : k # LastKind => Earlier(NextKind(k)) = Earlier(k) \cup {k}
    /\ Kinds = Earlier(LastKind) \cup {LastKind}
<1>1. \A r : Kind(r) \in Kinds
  BY DEF Kind, Kinds
<1>2. Earlier(FirstKind) = {}
  BY DEF Earlier, Kinds, FirstKind, LastKind
<1>3. \A k \in Kinds : k # LastKind => Earlier(NextKind(k)) = Earlier(k) \cup {k}
  BY DEF Earlier, Kinds, FirstKind, LastKind, NextKind
<1>4. Kinds = Earlier(LastKind) \cup {LastKind}
  BY DEF Earlier, Kinds, FirstKind, LastKind
<1> QED
  BY <1>1, <1>2, <1>3, <1>4

\* A kind is through when nothing of it, or of an earlier one, is left.
LEMMA KindDoneEmpties ==
    ASSUME TypeOK, KindDone,
           \A r \in rbac' : Kind(r) \notin Earlier(kind) \cup {kind}
    PROVE  Emptied'
<1>1. kind \in Kinds
  BY DEF TypeOK, LocalTypeOK
<1>2. kind = LastKind => ~Access'
  BY KindFacts DEF Access
<1>3. CASE kind # LastKind /\ pc' = "list" /\ kind' = NextKind(kind)
  BY <1>1, <1>3, KindFacts DEF Emptied
<1>4. CASE pc' = "list" /\ kind' = FirstKind
  BY <1>4, KindFacts DEF Emptied
<1>5. CASE kind = LastKind /\ pc' \in {"dropFinalizer", "status"}
  BY <1>2, <1>5 DEF Emptied
<1> QED
  BY <1>3, <1>4, <1>5, KindDoneMoves DEF Concludes

\* Only a revocation that came to its end reports Expired.
LEMMA NotYetExpired ==
    ASSUME TypeOK, CopyInv,
           \/ CreateResource \/ Activate \/ Dispatch
           \/ pc \in {"list", "delete"} /\ \E o : CleanupFailed(o)
    PROVE  pc' = "status" => Last(bg') # "Expired"
<1>1. bg \in Breakglasses
  BY DEF TypeOK, LocalTypeOK
<1>2. \A c \in ConditionTypes : Reports(c) => Last(bg') \in {c, Last(bg)}
  BY <1>1, SetConditionEffect DEF Reports
<1>3. CASE CreateResource
  <2>1. Last(bg) = "RecurringPending"
    BY <1>3 DEF CreateResource, CopyInv, WorkingCopy, GrantCalls
  <2> QED
    BY <1>2, <1>3, <2>1, CreateMoves DEF ConditionTypes
<1>4. CASE Activate
  <2>1. Last(bg) = "RecurringPending"
    BY <1>4 DEF Activate, CopyInv, WorkingCopy, GrantCalls
  <2>2. PICK b : /\ Carries(b, bg) /\ b.status.conds = bg.status.conds
                 /\ bg' = SetCondition(b, "RecurringActive")
    BY <1>4, <2>1, ActivateMoves
  <2>3. b \in Breakglasses /\ Last(b) = Last(bg)
    BY <2>2, SameConditions DEF Carries
  <2> QED
    BY <2>1, <2>2, <2>3, SetConditionEffect DEF ConditionTypes
<1>5. CASE Dispatch
  BY <1>2, <1>5, DispatchMoves DEF ConditionTypes, Grants, Expires
<1>6. CASE pc \in {"list", "delete"} /\ \E o : CleanupFailed(o)
  <2>1. caller = "expire" => Last(bg) \in {"Active", "RecurringActive"}
    BY <1>6 DEF CopyInv, WorkingCopy
  <2> QED
    BY <1>2, <1>6, <2>1, CleanupFailedMoves DEF ConditionTypes
<1> QED
  BY <1>3, <1>4, <1>5, <1>6

\* What has been emptied stays so while nothing is created.
LEMMA LocalEmptied ==
    ASSUME TypeOK, CopyInv, Emptied, ~RbacLag,
           List \/ DeleteResource \/ CreateResource \/ Activate \/ Dispatch
    PROVE  Emptied'
<1>1. CASE CreateResource \/ Activate
  <2>1. pc' \in {"idle", "status", "create", "record"}
    BY <1>1, CreateMoves DEF Activate, UpdateStatus, Reports
  <2> QED
    BY <1>1, <2>1, NotYetExpired DEF Emptied
<1>2. CASE Dispatch
  <2>1. \/ pc' \in {"idle", "status", "create", "activate"}
        \/ pc' = "list" /\ kind' = FirstKind
    BY <1>2, DispatchMoves DEF Reports, Grants, Expires
  <2> QED
    BY <1>2, <2>1, NotYetExpired, KindFacts DEF Emptied
<1>3. CASE pc \in {"list", "delete"} /\ \E o : CleanupFailed(o)
  BY <1>3, NotYetExpired, CleanupFailedMoves DEF Emptied, Reports
<1>4. CASE List
  <2>1. rbacCache = rbac /\ rbac' = rbac /\ pc = "list"
    BY <1>4 DEF List, ListReady
  <2>2. CASE ListKind(rbac, kind) = {} /\ KindDone
    <3>1. \A r \in rbac' : Kind(r) \notin Earlier(kind) \cup {kind}
      BY <2>1, <2>2 DEF Emptied, ListKind
    <3> QED
      BY <2>2, <3>1, KindDoneEmpties
  <2>3. CASE Goto("delete", bg) /\ todo' = ListKind(rbac, kind)
    BY <2>1, <2>3 DEF Goto, Emptied, ListKind
  <2> QED
    BY <1>3, <1>4, <2>1, <2>2, <2>3 DEF List
<1>5. CASE DeleteResource
  <2>1. PICK r \in todo, o \in Answers :
            /\ UpdateRbac(rbac \ {r}, o)
            /\ \/ CleanupFailed(o)
               \/ o = "ok" /\ todo = {r} /\ KindDone
               \/ o = "ok" /\ Goto("delete", bg) /\ todo' = todo \ {r}
    BY <1>5 DEF DeleteResource
  <2>2. o = "ok" => rbac' = rbac \ {r}
    BY <2>1 DEF UpdateRbac
  <2>3. /\ pc = "delete" /\ \A q \in rbac : Kind(q) \notin Earlier(kind)
        /\ \A q \in rbac : Kind(q) = kind => q \in todo
    BY <1>5 DEF DeleteResource, Emptied
  <2>4. CASE o = "ok" /\ todo = {r} /\ KindDone
    <3>1. \A q \in rbac' : Kind(q) \notin Earlier(kind) \cup {kind}
      BY <2>2, <2>3, <2>4
    <3> QED
      BY <2>4, <3>1, KindDoneEmpties
  <2>5. CASE o = "ok" /\ Goto("delete", bg) /\ todo' = todo \ {r}
    BY <2>2, <2>3, <2>5 DEF Goto, Emptied
  <2> QED
    BY <1>3, <2>1, <2>3, <2>4, <2>5
<1> QED
  BY <1>1, <1>2, <1>4, <1>5

\* A reconcile grants only from a copy that is waiting, and decides on the
\* copy it read until it has written.
LEMMA LocalSettled ==
    ASSUME TypeOK, Settled,
           List \/ DeleteResource \/ CreateResource \/ Activate \/ Dispatch
    PROVE  Settled'
<1> SUFFICES ASSUME Over'
             PROVE  /\ ~Access' /\ Last(cache') # "RecurringPending"
                    /\ pc' \notin GrantCalls
                    /\ pc' \in ReadCalls \cup {"addFinalizer"} =>
                            Last(bg') # "RecurringPending"
  BY DEF Settled, Last, CurrentCondition
<1>1. UNCHANGED <<obj, cache>>
  BY DEF List, DeleteResource, CreateResource, Activate, Dispatch, clusterVars
<1>2. /\ ~Access /\ Last(cache) # "RecurringPending" /\ pc \notin GrantCalls
      /\ pc \in ReadCalls => Last(bg) # "RecurringPending"
  BY <1>1 DEF Settled, Over, Last, CurrentCondition
<1>3. ~Access'
  <2>1. rbac' \subseteq rbac
    BY <1>2 DEF List, DeleteResource, CreateResource, Activate, Dispatch,
                clusterVars, UpdateRbac, GrantCalls
  <2> QED
    BY <1>2, <2>1 DEF Access
<1>4. CASE List \/ DeleteResource
  <2>1. \/ Goto("delete", bg) \/ KindDone \/ \E o : CleanupFailed(o)
    BY <1>4 DEF List, DeleteResource
  <2>2. \/ pc' \in {"idle", "status"}
        \/ pc' \in {"list", "delete", "dropFinalizer", "dispatch"} /\ bg' = bg
    BY <2>1, KindDoneMoves, CleanupFailedMoves DEF Goto, Concludes, Reports
  <2>3. Last(bg) # "RecurringPending"
    BY <1>2, <1>4 DEF List, DeleteResource, ReadCalls
  <2> QED
    BY <1>1, <1>2, <1>3, <2>2, <2>3 DEF GrantCalls, ReadCalls, Last, CurrentCondition
<1>5. CASE Dispatch
  <2>1. pc = "dispatch" /\ Last(bg) # "RecurringPending"
    BY <1>2, <1>5 DEF Dispatch, ReadCalls
  <2>2. pc' \in {"idle", "status"} \/ (pc' = "list" /\ bg' = bg)
    BY <1>5, <2>1, DispatchMoves DEF Reports, Grants, Expires
  <2> QED
    BY <1>1, <1>2, <1>3, <2>1, <2>2 DEF GrantCalls, ReadCalls, Last, CurrentCondition
<1> QED
  BY <1>2, <1>4, <1>5 DEF CreateResource, Activate, GrantCalls

\* Begin and the first update of a reconcile.
LEMMA BeginRevoke ==
    ASSUME TypeOK, CopyInv, RevokeInv, Begin \/ AddFinalizer
    PROVE  RevokeInv'
<1>1. UNCHANGED <<rbac, cache>>
  BY DEF Begin, AddFinalizer
<1>2. CASE Begin
  <2>1. UNCHANGED obj /\ pc = "idle"
    BY <1>2 DEF Begin
  <2>2. \/ UNCHANGED recVars
        \/ /\ Last(bg') = Last(cache) /\ pc' \in {"list", "dispatch", "addFinalizer"}
           /\ pc' = "list" => kind' = FirstKind
    BY <1>2, BeginMoves, SameConditions
  <2>3. Emptied'
    BY <1>1, <2>1, <2>2, KindFacts DEF Emptied, recVars
  <2>4. Settled'
    BY <1>1, <2>1, <2>2
    DEF RevokeInv, Settled, Over, recVars, Access, GrantCalls, ReadCalls, Last, CurrentCondition
  <2> QED
    BY <2>3, <2>4 DEF RevokeInv
<1>3. CASE AddFinalizer
  <2> DEFINE new == [obj EXCEPT !.finalizer = TRUE, !.spec = bg.spec]
  <2>1. new.exists = obj.exists /\ new.status = obj.status
    BY DEF TypeOK, ClusterTypeOK, Breakglasses
  <2>2. pc' = "idle" /\ \E o : UpdateObj(new, o)
    BY <1>3 DEF AddFinalizer, Return, Ended
  <2>3. obj' \in {obj, new}
    BY <2>2, UpdateObjMoves
  <2> HIDE DEF new
  <2>4. Over' => Over
    BY <2>1, <2>3, SameConditions DEF Over
  <2> QED
    BY <1>1, <2>2, <2>4
    DEF RevokeInv, Emptied, Settled, Access, GrantCalls, ReadCalls, Last, CurrentCondition
<1> QED
  BY <1>2, <1>3

\* The object goes after the cleanup, and what it shows then was read from a
\* copy that was up to date.
LEMMA DropFinalizerRevoke ==
    ASSUME TypeOK, CopyInv, RevokeInv, DropFinalizer
    PROVE  RevokeInv'
<1> DEFINE b == [bg EXCEPT !.finalizer = FALSE]
           new == [obj EXCEPT !.finalizer = FALSE, !.exists = FALSE, !.spec = bg.spec]
<1>1. /\ pc = "dropFinalizer" /\ UNCHANGED <<rbac, cache>>
      /\ obj \in Breakglasses /\ bg \in Breakglasses
  BY DEF DropFinalizer, TypeOK, ClusterTypeOK, LocalTypeOK
<1>2. new.status = obj.status /\ b.status = bg.status
  BY <1>1 DEF Breakglasses
<1>3. PICK o : /\ UpdateObj(new, o)
               /\ pc' = "idle" \/ (o = "ok" /\ pc' = "dispatch" /\ bg' = b)
  BY DEF DropFinalizer, Goto, Return, Ended
<1>4. /\ obj' = obj \/ (obj' = new /\ obj.exists /\ bgFresh)
      /\ o = "ok" => obj' = new /\ obj.exists /\ bgFresh
  BY <1>3, UpdateObjMoves
<1> HIDE DEF new, b
<1>5. ~Access'
  BY <1>1 DEF RevokeInv, Emptied, Access
<1>6. Emptied'
  BY <1>3 DEF Emptied
<1>7. CASE obj' = obj /\ pc' = "idle"
  BY <1>1, <1>5, <1>6, <1>7
  DEF RevokeInv, Settled, Over, GrantCalls, ReadCalls, Last, CurrentCondition
<1>8. CASE obj' = new /\ obj.exists /\ bgFresh
  <2>1. cache = obj /\ bg.status = obj.status
    BY <1>1, <1>8 DEF CopyInv, StoredCopies, Synced, ReadCalls
  <2>2. /\ Last(obj') = Last(obj) /\ Last(bg) = Last(obj) /\ Last(b) = Last(bg)
        /\ Last(cache') = Last(obj)
    BY <1>1, <1>2, <1>8, <2>1, SameConditions
  <2>3. Over' => Last(obj) \in {"Expired", "RecurringActive"}
    BY <2>2 DEF Over, Last, CurrentCondition
  <2>4. pc' \in {"idle", "dispatch"} /\ (pc' = "dispatch" => Last(bg') = Last(obj))
    BY <1>3, <2>2
  <2>5. Settled'
    BY <1>5, <2>2, <2>3, <2>4 DEF Settled, GrantCalls, ReadCalls, Last, CurrentCondition
  <2> QED
    BY <1>6, <2>5 DEF RevokeInv
<1> QED
  BY <1>3, <1>4, <1>7, <1>8

\* Expired is written over the active status it was decided on.
LEMMA StatusRevoke ==
    ASSUME TypeOK, CopyInv, RevokeInv, RecordResources \/ WriteStatus
    PROVE  RevokeInv'
<1> DEFINE new == [obj EXCEPT !.status = bg.status]
<1>1. /\ UNCHANGED <<rbac, cache>> /\ obj \in Breakglasses /\ bg \in Breakglasses
  BY DEF RecordResources, WriteStatus, TypeOK, ClusterTypeOK, LocalTypeOK
<1>2. new.exists = obj.exists /\ new.status = bg.status
  BY <1>1 DEF Breakglasses
<1>3. /\ \E o : UpdateObj(new, o)
      /\ \/ pc' = "idle"
         \/ /\ RecordResources
            /\ (pc' = "activate" /\ bg' = new) \/ Reports("Failed")
  BY DEF RecordResources, WriteStatus, Goto, Return, ReturnUntil, Ended,
         UpdateStatus, Reports
<1>4. obj' = obj \/ (obj' = new /\ obj.exists /\ bgFresh)
  BY <1>3, UpdateObjMoves
<1> HIDE DEF new
<1>5. CASE RecordResources
  <2>1. pc = "record" /\ Last(bg) = "RecurringPending"
    BY <1>5 DEF RecordResources, CopyInv, WorkingCopy, GrantCalls
  <2>2. ~Over
    BY <2>1 DEF RevokeInv, Settled, GrantCalls
  <2>3. ~Over'
    <3>1. CASE obj' = obj
      BY <2>2, <3>1 DEF Over, Last, CurrentCondition
    <3>2. CASE obj' = new
      BY <1>2, <2>1, <3>2, SameConditions DEF Over
    <3> QED
      BY <1>4, <3>1, <3>2
  <2>4. Reports("Failed") => pc' = "status" /\ Last(bg') # "Expired"
    BY <1>1, <2>1, SetConditionEffect DEF Reports, ConditionTypes
  <2> QED
    BY <1>3, <2>3, <2>4 DEF RevokeInv, Emptied, Settled
<1>6. CASE WriteStatus
  <2>1. pc = "status" /\ pc' = "idle"
    BY <1>3, <1>6 DEF WriteStatus, RecordResources
  <2>2. CASE obj' = obj
    BY <1>1, <2>1, <2>2
    DEF RevokeInv, Emptied, Settled, Over, Access, GrantCalls, ReadCalls, Last, CurrentCondition
  <2>3. CASE obj' = new /\ obj.exists /\ bgFresh
    <3>1. Over' => Last(bg) = "Expired"
      BY <1>2, <2>3, SameConditions DEF Over
    <3>2. Last(bg) = "Expired" => ~Access /\ cache = obj /\ Last(obj) # "RecurringPending"
      BY <2>1, <2>3 DEF RevokeInv, Emptied, CopyInv, StoredCopies, Synced
    <3> QED
      BY <1>1, <2>1, <3>1, <3>2
      DEF RevokeInv, Emptied, Settled, Access, GrantCalls, ReadCalls, Last, CurrentCondition
  <2> QED
    BY <1>4, <2>2, <2>3
<1> QED
  BY <1>5, <1>6

\* No person makes a request over: without a finalizer it was not active.
LEMMA UserRevoke ==
    ASSUME Unforged, TypeOK, CopyInv, RevokeInv, UserStep
    PROVE  RevokeInv'
<1>1. obj \in Breakglasses /\ UNCHANGED <<rbac, cache, recVars>>
  BY DEF TypeOK, ClusterTypeOK, UserStep, User, Approve, PatchConditions, Edit, Delete
<1>2. Over' => Over
  <2>1. CASE Approve
    BY <1>1, <2>1
    DEF Approve, Store, Breakglasses, Statuses, Over, Last, CurrentCondition
  <2>2. CASE PatchConditions
    <3>0. PICK c \in Patched : obj' = [obj EXCEPT !.status.conds = <<c>>]
      BY <2>2 DEF PatchConditions, Store
    <3>9. obj.exists /\ c \notin {"Expired", "RecurringActive"}
      BY <2>2 DEF PatchConditions, Unforged
    <3> DEFINE conds == <<c>>
               new == [obj EXCEPT !.status.conds = conds]
    <3>1. obj' = new /\ obj.exists
      BY <3>0, <3>9
    <3>2. conds # << >> /\ conds[Len(conds)] = c
      OBVIOUS
    <3> HIDE DEF conds
    <3>3. new.status.conds = conds /\ new.exists = obj.exists
      BY <1>1 DEF Breakglasses, Statuses
    <3> HIDE DEF new
    <3>4. Last(obj') = c
      BY <3>1, <3>2, <3>3 DEF Last, CurrentCondition
    <3> QED
      BY <3>9, <3>4 DEF Over, Last
  <2>3. CASE Edit
    <3>1. PICK d \in Durations : obj' = [obj EXCEPT !.spec.duration = d]
      BY <2>3 DEF Edit, Store
    <3> QED
      BY <1>1, <3>1 DEF Breakglasses, Specs, Over, Last, CurrentCondition
  <2>4. CASE Delete
    <3>1. /\ obj.exists
          /\ \/ obj.finalizer /\ obj' = [obj EXCEPT !.deleting = TRUE]
             \/ /\ ~obj.finalizer
                /\ obj' = [obj EXCEPT !.deleting = TRUE, !.exists = FALSE]
      BY <2>4 DEF Delete, Store
    <3>2. ~obj.finalizer => Last(obj) # "RecurringActive"
      BY <3>1 DEF CopyInv, StoredCopies
    <3>3. obj'.status = obj.status /\ (obj.finalizer => obj'.exists)
      BY <1>1, <3>1 DEF Breakglasses
    <3> QED
      BY <3>2, <3>3, SameConditions DEF Over, Last, CurrentCondition
  <2> QED
    BY <2>1, <2>2, <2>3, <2>4 DEF UserStep, User
<1> QED
  BY <1>1, <1>2
  DEF RevokeInv, Emptied, Settled, Access, recVars, Last, CurrentCondition

\* The informers only bring the copies closer to the stored object.
LEMMA RuntimeRevoke ==
    ASSUME TypeOK, CopyInv, RevokeInv,
           WatchEvent \/ WatchRbac \/ FireTimer \/ Resync \/ Crash \/ Tick
    PROVE  RevokeInv'
<1>1. UNCHANGED <<obj, rbac>> /\ cache' \in {cache, obj}
  BY DEF WatchEvent, DeliverObj, WatchRbac, DeliverRbac, FireTimer, Resync, Crash,
         Tick, clusterVars
<1>2. UNCHANGED recVars \/ pc' = "idle"
  BY DEF WatchEvent, DeliverObj, WatchRbac, DeliverRbac, FireTimer, Resync, Crash,
         Ended, Tick, clusterVars
<1>3. Emptied'
  BY <1>1, <1>2 DEF RevokeInv, Emptied, Access, recVars, Last, CurrentCondition
<1>4. Over' => Over /\ Last(cache') # "RecurringPending"
  BY <1>1 DEF RevokeInv, Settled, Over, Last, CurrentCondition
<1>5. Settled'
  BY <1>1, <1>2, <1>4
  DEF RevokeInv, Settled, Access, recVars, GrantCalls, ReadCalls, Last, CurrentCondition
<1> QED
  BY <1>3, <1>5 DEF RevokeInv

\* Initially nothing is revoked and nothing is over.
LEMMA InitRevoke == Init => RevokeInv
<1> SUFFICES ASSUME Init PROVE RevokeInv
  OBVIOUS
<1>1. PICK spec \in InitSpecs : obj = NewBreakglass(spec)
  BY DEF Init, ClusterInit
<1>2. obj.status.conds = << >> /\ obj.exists
  BY <1>1 DEF NewBreakglass, NewStatus
<1>3. ~Over
  BY <1>2 DEF Over, Last, CurrentCondition
<1> QED
  BY <1>3 DEF Init, RevokeInv, Emptied, Settled

\* Every step keeps the invariant, when lists are up to date.
LEMMA NextRevoke ==
    ASSUME ~RbacLag, Unforged
    PROVE  TypeOK /\ CopyInv /\ RevokeInv /\ [Next]_vars => RevokeInv'
<1> SUFFICES ASSUME TypeOK, CopyInv, RevokeInv, [Next]_vars PROVE RevokeInv'
  OBVIOUS
<1>1. CASE List \/ DeleteResource \/ CreateResource \/ Activate \/ Dispatch
  BY <1>1, LocalEmptied, LocalSettled DEF RevokeInv
<1>2. CASE UNCHANGED vars
  BY <1>2 DEF RevokeInv, Emptied, Settled, Over, Access, Last, CurrentCondition,
              vars, clusterVars, recVars
<1> QED
  BY <1>1, <1>2, BeginRevoke, DropFinalizerRevoke, StatusRevoke, UserRevoke,
     RuntimeRevoke DEF Next, Controller

-----------------------------------------------------------------------------
(* The theorems.  A List must not be answered from a view of the RBAC      *)
(* objects that lacks one just created: then a cleanup would miss it.  And *)
(* a patch must not say that the request is active or finished.            *)

\* A cleanup has emptied the kinds before the one at hand, and what is over has
\* no access: the inductive invariant behind the three theorems that follow.
THEOREM RevokeInvariant ==
    ASSUME ~RbacLag, Unforged PROVE Spec => []RevokeInv
BY InitRevoke, NextRevoke, CopyInvariant, TypeCorrect, PTL DEF Spec

\* The terminal condition Expired is only reached once every RBAC object is
\* gone, and none is created again, whatever faults and stale copies occur.
THEOREM ExpiredIsRevokedHolds ==
    ASSUME ~RbacLag, Unforged PROVE Spec => []ExpiredIsRevoked
<1>1. RevokeInv => ExpiredIsRevoked
  BY DEF RevokeInv, Settled, Over, ExpiredIsRevoked, Last
<1> QED
  BY <1>1, RevokeInvariant, PTL

\* A Breakglass that was active when it went has left no access behind.
THEOREM DeletedActiveIsRevokedHolds ==
    ASSUME ~RbacLag, Unforged PROVE Spec => []DeletedActiveIsRevoked
<1>1. RevokeInv => DeletedActiveIsRevoked
  BY DEF RevokeInv, Settled, Over, DeletedActiveIsRevoked, Last
<1> QED
  BY <1>1, RevokeInvariant, PTL

\* The finalizer lets a Breakglass go only after the last RBAC object.
LEMMA CleanedUpStep ==
    ASSUME TypeOK, CopyInv, RevokeInv, [Next]_vars, obj.finalizer, ~obj'.exists
    PROVE  ~Access
<1>1. obj \in Breakglasses /\ bg \in Breakglasses /\ obj.exists
  BY DEF TypeOK, ClusterTypeOK, LocalTypeOK, CopyInv, StoredCopies
<1>2. CASE DropFinalizer
  BY <1>2 DEF DropFinalizer, RevokeInv, Emptied
<1>3. CASE AddFinalizer
  <2> DEFINE new == [obj EXCEPT !.finalizer = TRUE, !.spec = bg.spec]
  <2>1. new.exists = obj.exists
    BY <1>1 DEF Breakglasses
  <2>2. \E o : UpdateObj(new, o)
    BY <1>3 DEF AddFinalizer
  <2> HIDE DEF new
  <2> QED
    BY <1>1, <2>1, <2>2, UpdateObjMoves
<1>4. CASE RecordResources \/ WriteStatus
  <2> DEFINE new == [obj EXCEPT !.status = bg.status]
  <2>1. new.exists = obj.exists
    BY <1>1 DEF Breakglasses
  <2>2. \E o : UpdateObj(new, o)
    BY <1>4 DEF RecordResources, WriteStatus
  <2> HIDE DEF new
  <2> QED
    BY <1>1, <2>1, <2>2, UpdateObjMoves
<1>5. CASE UserStep
  <2>1. obj' \in {[obj EXCEPT !.status = obj'.status], [obj EXCEPT !.spec = obj'.spec],
                  [obj EXCEPT !.deleting = TRUE]}
    BY <1>1, <1>5 DEF UserStep, User, Approve, PatchConditions, Edit, Delete, Store, Breakglasses
  <2> QED
    BY <1>1, <2>1 DEF Breakglasses
<1>6. CASE UNCHANGED obj
  BY <1>1, <1>6
<1> QED
  BY <1>2, <1>3, <1>4, <1>5, <1>6
  DEF Next, Controller, Begin, List, DeleteResource, CreateResource, Activate,
      Dispatch, WatchEvent, DeliverObj, WatchRbac, DeliverRbac, FireTimer, Resync,
      Crash, Tick, vars, clusterVars

\* The step that lets a Breakglass with our finalizer go finds no RBAC object.
THEOREM CleanedUpBeforeGoneHolds ==
    ASSUME ~RbacLag, Unforged PROVE Spec => CleanedUpBeforeGone
<1>1. TypeOK /\ CopyInv /\ RevokeInv /\ [Next]_vars
          => [obj.finalizer /\ ~obj'.exists => ~Access]_vars
  BY CleanedUpStep
<1> QED
  BY <1>1, RevokeInvariant, CopyInvariant, TypeCorrect, PTL
  DEF Spec, CleanedUpBeforeGone
=============================================================================
