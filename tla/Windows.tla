------------------------------- MODULE Windows -------------------------------
(***************************************************************************)
(* The life of one schedule, apart from the API server: the recurring      *)
(* manager decides when to activate, the use cases say when the window is  *)
(* over, and the two are written independently of each other.  The firings *)
(* of the cron expression are part of the initial state, so one run covers *)
(* every small pattern of firings; the controller may look at the schedule *)
(* at any time or not at all.  The calls that may fail in between are the  *)
(* subject of Reconciler.                                                  *)
(***************************************************************************)
EXTENDS Integers, Sequences

CONSTANTS
    Horizon,     \* the clock stops here
    Lookback,    \* how far back a firing is looked for
    MaxCount,    \* no more activations are looked at
    Firings,     \* the sets of firing times considered
    WindowSpecs  \* the schedules considered

ASSUME HorizonAssumption == Horizon \in Nat /\ MaxCount \in Nat
ASSUME LookbackAssumption == Lookback \in Nat
ASSUME FiringsAssumption == Firings \subseteq SUBSET Nat

VARIABLES
    now,
    ticks,   \* when the cron expression fires
    bg,      \* spec and status of the Breakglass
    active   \* is access granted?

vars == <<now, ticks, bg, active>>

S == INSTANCE Schedule WITH Ticks <- ticks

ASSUME WindowSpecsAssumption == WindowSpecs \subseteq S!Specs

Init ==
    /\ now = 0 /\ active = FALSE
    /\ ticks \in Firings
    /\ bg \in [spec : WindowSpecs, status : {S!NewStatus}]

-----------------------------------------------------------------------------
(* What the handlers do with the schedule.                                 *)

\* The schedule as RecurringPendingCondition.Handle leaves it in memory.
Processed == S!ProcessRecurring(bg, now)

Due == S!ShouldActivate(Processed, now)

\* GrantAndActivate stores what was processed, advanced to the next firing.
Activate ==
    /\ ~active /\ Due /\ bg.status.count < MaxCount
    /\ bg' = S!OnActivationGranted([Processed EXCEPT !.status.grantedAt = now])
    /\ active' = TRUE
    /\ UNCHANGED <<now, ticks>>

\* RecurringActiveCondition finds the window over; RevokeAndExpire keeps the
\* schedule or, without future activations, ends it.
Expire ==
    /\ active
    /\ S!WindowEnd(bg, now) # S!NoTime /\ now > S!WindowEnd(bg, now)
    /\ active' = FALSE
    /\ bg' = IF S!HasFutureActivations(bg) THEN bg
             ELSE [bg EXCEPT !.status.nextAt = S!NoTime]
    /\ UNCHANGED <<now, ticks>>

Tick ==
    /\ now < Horizon
    /\ now' = now + 1
    /\ UNCHANGED <<ticks, bg, active>>

Next == Activate \/ Expire \/ Tick

Spec == Init /\ [][Next]_vars

-----------------------------------------------------------------------------
(* The search for the previous firing, as the loop the code runs.          *)

\* Mutant: a firing at t itself is not seen.
SearchFromMissesNow(p, t) ==
    LET last[q \in (t - Lookback) .. t] ==
            LET n == S!CronNext(q)
            IN  IF n >= t THEN q ELSE IF n = S!NoTime THEN n ELSE last[n]
    IN  last[p]

\* From firing p on to the last one not after t; the zero time ends the loop.
SearchFrom(p, t) ==
    LET last[q \in (t - Lookback) .. t] ==
            LET n == S!CronNext(q)
            IN  IF n > t THEN q ELSE IF n = S!NoTime THEN n ELSE last[n]
    IN  last[p]

SearchPrev(t) ==
    LET prev == SearchFrom(t - Lookback, t)
    IN  IF prev = t - Lookback THEN S!NoTime ELSE prev

-----------------------------------------------------------------------------
(* Properties.                                                             *)

Recurring == bg.spec.cron = "valid"

\* An expression such as 30 February never fires.
Fires == ticks # {}

\* The loop of findPrevActivation and findPreviousActivation finds the last
\* firing of the look-back period, for every pattern of firings.
SearchIsExact == SearchPrev(now) = S!FindPrevActivation(now)

\* When the recurring manager says that an activation is due, the use cases
\* see a window that is still open: access is not granted for a window that
\* has to be closed at once.
DueWindowIsOpen ==
    ~active /\ Recurring /\ Fires /\ Due => S!WindowEnd(Processed, now) >= now

\* Conversely, strictly inside the window of a firing, with activations left
\* and the planned one not missed, an activation is due.
OpenWindowIsDue ==
    (/\ ~active /\ Recurring
     /\ bg.spec.start <= now /\ ~S!MaxActivationsReached(bg)
     /\ now \notin ticks
     /\ \E w \in ticks : /\ bg.status.nextAt <= w
                         /\ w < now /\ now < w + bg.spec.duration
     /\ bg.status.nextAt # S!NoTime => now <= bg.status.nextAt + bg.spec.duration)
        => Due

\* A window is used for one activation only.
OncePerWindow ==
    [][Fires /\ bg.status.count > 0 /\ bg'.status.count > bg.status.count
        => \E w \in ticks : bg.status.grantedAt < w /\ w <= now]_vars

\* A cron expression that never fires is never activated: the manager has an
\* error for a schedule without a next activation (handleInitialActivation).
NeverFiresNeverActivated ==
    [][Recurring /\ ~Fires => bg'.status.count = bg.status.count]_vars
=============================================================================
