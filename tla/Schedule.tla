------------------------------ MODULE Schedule ------------------------------
(***************************************************************************)
(* The pure scheduling logic of the firedoor operator: the recurring       *)
(* manager (internal/operator/recurring/manager.go), the use cases shared  *)
(* by the handlers (internal/controller/breakglass/usecases) and the       *)
(* status conditions.  Every operator maps a Breakglass record to a value  *)
(* or to an updated Breakglass record; nothing here has state.             *)
(*                                                                         *)
(* Times are naturals.  NoTime, smaller than every time, stands for a nil  *)
(* *metav1.Time and for Go's zero time, which also precedes every instant. *)
(***************************************************************************)
EXTENDS Integers, Sequences

CONSTANTS
    Ticks,      \* the instants at which the cron expression fires
    Lookback    \* how far back a missed firing is looked for (one year)

ASSUME TicksAssumption == Ticks \subseteq Nat
ASSUME LookbackAssumption == Lookback \in Nat

NoTime == -1
NoMax  == -1
Times  == Nat \cup {NoTime}

Approvers == {"", "system", "human"}

ConditionTypes ==
    {"Pending", "Approved", "Denied", "Active", "Expired", "Revoked",
     "Failed", "RecurringPending", "RecurringActive"}

\* spec.schedule and spec.approval.  "invalid" stands for a cron string the
\* parser rejects; a duration of 0 for an omitted one.
Specs ==
    [cron     : {"none", "valid", "invalid"},
     start    : Times,
     duration : Nat,
     max      : Nat \cup {NoMax},
     approval : {"unset", "required", "notRequired"}]

\* status.  A condition is its type: reasons and messages steer nothing.
Statuses(resources) ==
    [conds      : Seq(ConditionTypes),
     approvedBy : Approvers,
     grantedAt  : Times,
     expiresAt  : Times,
     nextAt     : Times,
     count      : Nat,
     created    : SUBSET resources]

NewStatus ==
    [conds |-> << >>, approvedBy |-> "", grantedAt |-> NoTime,
     expiresAt |-> NoTime, nextAt |-> NoTime, count |-> 0, created |-> {}]

-----------------------------------------------------------------------------
(* Conditions.                                                             *)

\* meta.SetStatusCondition: a type already present is updated in place, a
\* new one is appended.
SetStatusCondition(conds, c) ==
    IF \E i \in DOMAIN conds : conds[i] = c THEN conds ELSE Append(conds, c)

SetCondition(bg, c) ==
    [bg EXCEPT !.status.conds = SetStatusCondition(@, c)]

\* The condition that drives the controller is the last one of the list.
CurrentCondition(bg) ==
    IF bg.status.conds = << >> THEN "" ELSE bg.status.conds[Len(bg.status.conds)]

-----------------------------------------------------------------------------
(* The cron library, seen through Schedule.Next.                           *)

IsNextTick(x, t) == x > t /\ \A y \in Ticks : y > t => x <= y

\* The first firing strictly after t; the zero time when there is none.
CronNext(t) ==
    IF \E x \in Ticks : IsNextTick(x, t)
    THEN CHOOSE x \in Ticks : IsNextTick(x, t) ELSE NoTime

IsPrevTick(x, t) ==
    /\ x <= t /\ x > t - Lookback
    /\ \A y \in Ticks : y <= t => y <= x

\* The last firing in (t - Lookback, t].  When nothing fires after t, the loop
\* of the code runs on to the zero time that Next then returns.
FindPrevActivation(t) ==
    IF CronNext(t) # NoTime /\ \E x \in Ticks : IsPrevTick(x, t)
    THEN CHOOSE x \in Ticks : IsPrevTick(x, t) ELSE NoTime

\* The same search as duplicated in the use cases.
FindPreviousActivation(t) == FindPrevActivation(t)

-----------------------------------------------------------------------------
(* usecases: the current window and what comes after it.                   *)

ResolveOneShotStart(bg, t) ==
    IF bg.spec.start # NoTime THEN bg.spec.start
    ELSE IF bg.status.nextAt # NoTime THEN bg.status.nextAt
    ELSE IF bg.status.grantedAt # NoTime THEN bg.status.grantedAt
    ELSE t

\* A firing before spec.start counts as a window that opens at spec.start.
CronWindowStart(bg, t) ==
    LET prev  == FindPreviousActivation(t)
        begin == IF prev = NoTime /\ bg.status.nextAt <= t
                 THEN bg.status.nextAt ELSE prev
    IN  IF t < bg.spec.start \/ begin = NoTime THEN NoTime
        ELSE IF begin < bg.spec.start THEN bg.spec.start ELSE begin

ParseCronSchedule(spec) == spec.cron = "valid"

\* CurrentWindow, of which the callers use only the end.
WindowEnd(bg, t) ==
    LET start == CASE bg.spec.cron = "none"       -> ResolveOneShotStart(bg, t)
                   [] ParseCronSchedule(bg.spec)  -> CronWindowStart(bg, t)
                   [] OTHER                       -> NoTime
    IN  IF bg.spec.duration = 0 \/ start = NoTime THEN NoTime
        ELSE start + bg.spec.duration

\* Mutant: one activation too many.
MaxActivationsPassed(bg) ==
    bg.spec.max # NoMax /\ bg.status.count > bg.spec.max

MaxActivationsReached(bg) ==
    bg.spec.max # NoMax /\ bg.status.count >= bg.spec.max

Determine(bg) ==
    IF bg.spec.cron = "none"
    THEN IF bg.spec.duration = 0 THEN "oneShotUnlimited" ELSE "oneShotFinite"
    ELSE IF bg.spec.max # NoMax THEN "recurringFinite" ELSE "recurringUnlimited"

HasFutureActivations(bg) ==
    /\ Determine(bg) \in {"recurringFinite", "recurringUnlimited"}
    /\ ~MaxActivationsReached(bg)
    /\ bg.status.nextAt # NoTime

\* The time recorded as expiresAt when the Breakglass is over.
FinalCompletionTime(bg, t) == WindowEnd(bg, t)

-----------------------------------------------------------------------------
(* recurring.Manager.                                                      *)

CalculateNextActivation(bg, t) ==
    IF CronNext(t) < bg.spec.start THEN bg.spec.start ELSE CronNext(t)

\* Is t strictly inside the window of the last firing?
InPrevWindow(bg, t) ==
    LET prev == FindPrevActivation(t)
    IN  prev # NoTime /\ prev < t /\ t < prev + bg.spec.duration

\* nextActivationAt is set and RecurringPending recorded.
ScheduleAt(bg, t) ==
    SetCondition([bg EXCEPT !.status.nextAt = t], "RecurringPending")

ProcessOneShot(bg, t) ==
    IF bg.status.count > 0 THEN bg
    ELSE IF bg.status.nextAt = NoTime
         THEN ScheduleAt(bg, IF bg.spec.start = NoTime THEN t ELSE bg.spec.start)
    ELSE IF t >= bg.status.nextAt THEN SetCondition(bg, "RecurringPending")
    ELSE bg

\* Mutant: a window that is already open is not used.
HandleInitialActivationWaits(bg, t) ==
    ScheduleAt(bg, CalculateNextActivation(bg, t))

HandleInitialActivation(bg, t) ==
    ScheduleAt(bg, IF InPrevWindow(bg, t) THEN FindPrevActivation(t)
                   ELSE CalculateNextActivation(bg, t))

ShouldActivateNow(bg, t) == InPrevWindow(bg, t) \/ t >= bg.status.nextAt

\* Mutant: a missed window is not rescheduled.
ProcessCronKeepsMissed(bg, t) ==
    IF bg.status.nextAt = NoTime THEN HandleInitialActivation(bg, t)
    ELSE SetCondition(bg, "RecurringPending")

\* The branch of ProcessRecurring for a cron schedule that parses.
ProcessCron(bg, t) ==
    IF bg.status.nextAt = NoTime THEN HandleInitialActivation(bg, t)
    ELSE IF t < bg.spec.start THEN bg
    ELSE IF bg.spec.duration > 0 /\ t > bg.status.nextAt + bg.spec.duration
         THEN ScheduleAt(bg, CalculateNextActivation(bg, t))
    ELSE IF ShouldActivateNow(bg, t) THEN SetCondition(bg, "RecurringPending")
    ELSE bg

ScheduleFails(bg) == ~MaxActivationsReached(bg) /\ bg.spec.cron = "invalid"

\* checkActivationLimits, when the limit is reached.
StopRecurrence(bg) ==
    SetCondition([bg EXCEPT !.status.nextAt = NoTime], "Failed")

\* The Breakglass ProcessRecurring leaves in memory; it reports an error
\* exactly when ScheduleFails.
ProcessRecurring(bg, t) ==
    IF MaxActivationsReached(bg) THEN StopRecurrence(bg)
    ELSE CASE bg.spec.cron = "none"    -> ProcessOneShot(bg, t)
           [] bg.spec.cron = "invalid" -> SetCondition(bg, "Failed")
           [] bg.spec.cron = "valid"   -> ProcessCron(bg, t)

\* Mutant: spec.start is not looked at.
ShouldActivateEarly(bg, t) ==
    bg.status.nextAt # NoTime /\ t >= bg.status.nextAt

\* Mutant: the scheduled time is not compared with the present.
ShouldActivateUnscheduled(bg, t) ==
    bg.status.nextAt # NoTime /\ t >= bg.spec.start

ShouldActivate(bg, t) ==
    /\ bg.status.nextAt # NoTime
    /\ t >= bg.spec.start
    /\ t >= bg.status.nextAt

\* Advances the schedule once access has been granted at grantedAt.
OnActivationGranted(bg) ==
    IF bg.spec.cron = "none"
    THEN [bg EXCEPT !.status.nextAt = NoTime, !.status.count = @ + 1]
    ELSE ScheduleAt([bg EXCEPT !.status.count = @ + 1],
                    CalculateNextActivation(bg, bg.status.grantedAt))
=============================================================================
