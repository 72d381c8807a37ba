--------------------------- MODULE WindowsProofs ---------------------------
(***************************************************************************)
(* The recurring manager and the use cases agree about windows, proved for *)
(* every pattern of firings, every schedule and every horizon.             *)
(***************************************************************************)
EXTENDS Windows, TLAPS, WellFoundedInduction

USE DEF S!NoTime, S!NoMax

-----------------------------------------------------------------------------
(* Firings.                                                                *)

\* A set of naturals has a least element.
LEMMA LeastNatural ==
    ASSUME NEW U \in SUBSET Nat, U # {}
    PROVE  \E x \in U : \A y \in U : x <= y
<1> DEFINE R == OpToRel(<, Nat)
<1>1. IsWellFoundedOn(R, Nat)
  BY NatLessThanWellFounded, Zenon
<1>2. \A x, y \in Nat : y < x => <<y, x>> \in R
  BY DEF OpToRel
<1> HIDE DEF R
<1>3. PICK x \in U : \A y \in U : ~(<<y, x>> \in R)
  BY <1>1, WFMin, Zenon
<1>4. \A y \in U : x <= y
  <2> SUFFICES ASSUME NEW y \in U PROVE x <= y
    OBVIOUS
  <2>1. ~(y < x)
    BY <1>2, <1>3
  <2> QED
    BY <2>1
<1> QED
  BY <1>4

\* Among the integers not above t, a set of them has a greatest one.
LEMMA GreatestUpTo ==
    ASSUME NEW t \in Int, NEW U, U # {}, \A x \in U : x \in Int /\ x <= t
    PROVE  \E x \in U : \A y \in U : y <= x
<1> DEFINE D == {n \in Nat : \E x \in U : n = t - x}
<1>1. \A x \in U : t - x \in D
  OBVIOUS
<1>2. D \in SUBSET Nat /\ D # {}
  BY <1>1
<1>3. PICK n \in D : \A m \in D : n <= m
  BY <1>2, LeastNatural
<1>4. PICK x \in U : n = t - x
  BY <1>3
<1>5. \A y \in U : y <= x
  <2> SUFFICES ASSUME NEW y \in U PROVE y <= x
    OBVIOUS
  <2>1. n <= t - y
    BY <1>1, <1>3
  <2> QED
    BY <1>4, <2>1
<1> QED
  BY <1>5

\* CronNext is the least firing after t, if there is one.
LEMMA NextFiring ==
    ASSUME ticks \subseteq Nat, NEW t \in Int
    PROVE  \/ S!CronNext(t) = S!NoTime /\ \A x \in ticks : x <= t
           \/ /\ S!CronNext(t) \in ticks /\ S!CronNext(t) > t
              /\ \A x \in ticks : x > t => S!CronNext(t) <= x
<1> DEFINE U == {x \in ticks : x > t}
<1>1. CASE U = {}
  <2>1. \A x \in ticks : x <= t
    BY <1>1
  <2>2. ~\E x \in ticks : S!IsNextTick(x, t)
    BY <2>1 DEF S!IsNextTick
  <2>3. S!CronNext(t) = S!NoTime
    BY <2>2 DEF S!CronNext
  <2> QED
    BY <2>1, <2>3
<1>2. CASE U # {}
  <2>1. PICK x \in U : \A y \in U : x <= y
    BY <1>2, LeastNatural
  <2>2. x \in ticks /\ S!IsNextTick(x, t)
    BY <2>1 DEF S!IsNextTick
  <2>3. S!CronNext(t) \in ticks /\ S!IsNextTick(S!CronNext(t), t)
    BY <2>2 DEF S!CronNext
  <2> QED
    BY <2>3 DEF S!IsNextTick
<1> QED
  BY <1>1, <1>2

\* The search finds the last firing of the look-back period, when there is one
\* and the schedule goes on.
LEMMA PrevFiring ==
    ASSUME ticks \subseteq Nat, NEW t \in Nat
    PROVE  /\ \/ S!FindPrevActivation(t) = S!NoTime
              \/ /\ S!FindPrevActivation(t) \in ticks
                 /\ S!IsPrevTick(S!FindPrevActivation(t), t)
           /\ (/\ S!CronNext(t) # S!NoTime
               /\ \E x \in ticks : x <= t /\ x > t - Lookback)
                  <=> S!FindPrevActivation(t) # S!NoTime
<1>1. ASSUME NEW x \in ticks, x <= t, x > t - Lookback
      PROVE  \E y \in ticks : S!IsPrevTick(y, t)
  <2> DEFINE U == {y \in ticks : y <= t}
  <2>1. PICK y \in U : \A z \in U : z <= y
    <3>1. U # {} /\ \A z \in U : z \in Int /\ z <= t
      BY <1>1
    <3> HIDE DEF U
    <3> QED
      BY <3>1, GreatestUpTo
  <2>2. x <= y
    BY <1>1, <2>1
  <2>3. S!IsPrevTick(y, t)
    BY <1>1, <2>1, <2>2, LookbackAssumption DEF S!IsPrevTick
  <2> QED
    BY <2>1, <2>3
<1>2. CASE S!CronNext(t) # S!NoTime /\ \E x \in ticks : S!IsPrevTick(x, t)
  <2>1. /\ S!FindPrevActivation(t) \in ticks
        /\ S!IsPrevTick(S!FindPrevActivation(t), t)
    BY <1>2 DEF S!FindPrevActivation
  <2> QED
    BY <1>2, <2>1 DEF S!IsPrevTick
<1>3. CASE ~(S!CronNext(t) # S!NoTime /\ \E x \in ticks : S!IsPrevTick(x, t))
  <2>1. S!FindPrevActivation(t) = S!NoTime
    BY <1>3 DEF S!FindPrevActivation
  <2> QED
    BY <1>1, <1>3, <2>1
<1> QED
  BY <1>2, <1>3

-----------------------------------------------------------------------------
(* The loop that searches for the last firing.                             *)

\* What the loop returns when it starts from q.
Found(q, t) ==
    IF S!CronNext(t) = S!NoTime THEN S!NoTime
    ELSE IF \E x \in ticks : q < x /\ x <= t
    THEN CHOOSE x \in ticks : x <= t /\ \A y \in ticks : y <= t => y <= x
    ELSE q

\* f is what the loop computes from every instant of the look-back period.
Loop(f, t) ==
    f = [q \in (t - Lookback) .. t |->
            LET n == S!CronNext(q)
            IN  IF n > t THEN q ELSE IF n = S!NoTime THEN n ELSE f[n]]

\* One turn of the loop, from one firing to the next.
LEMMA LoopTurn ==
    ASSUME ticks \subseteq Nat, NEW t \in Nat, NEW q \in (t - Lookback) .. t
    PROVE  LET n == S!CronNext(q) IN
           /\ n > t => Found(q, t) = q
           /\ ~(n > t) /\ n = S!NoTime => Found(q, t) = n
           /\ ~(n > t) /\ n # S!NoTime =>
                  /\ n \in (t - Lookback) .. t /\ n > q
                  /\ Found(q, t) = Found(n, t)
<1> DEFINE n == S!CronNext(q)
<1>1. q \in Int /\ q <= t /\ t - Lookback <= q
  BY LookbackAssumption
<1>2. \/ n = S!NoTime /\ \A x \in ticks : x <= q
      \/ n \in ticks /\ n > q /\ \A x \in ticks : x > q => n <= x
  BY <1>1, NextFiring
<1>3. \/ S!CronNext(t) = S!NoTime /\ \A x \in ticks : x <= t
      \/ S!CronNext(t) \in ticks /\ S!CronNext(t) > t
  BY NextFiring
<1> HIDE DEF n
<1>7. n = S!NoTime => ~(n > t)
  OBVIOUS
<1>4. CASE n > t
  <2>1. n \in ticks /\ n \in Nat /\ \A x \in ticks : x > q => n <= x
    BY <1>2, <1>4, <1>7
  <2>2. S!CronNext(t) # S!NoTime
    BY <1>3, <1>4, <2>1
  <2>3. ~\E x \in ticks : q < x /\ x <= t
    BY <1>1, <1>4, <2>1
  <2>4. Found(q, t) = q
    BY <2>2, <2>3 DEF Found
  <2> QED
    BY <1>4, <2>4 DEF n
<1>5. CASE ~(n > t) /\ n = S!NoTime
  <2>1. \A x \in ticks : x <= t
    BY <1>1, <1>2, <1>5
  <2>2. \A x \in ticks : ~(x > t)
    <3>1. \A x \in Nat : x <= t => ~(x > t)
      OBVIOUS
    <3> QED
      BY <2>1, <3>1
  <2>5. S!CronNext(t) = S!NoTime
    BY <1>3, <2>2, Zenon
  <2>3. Found(q, t) = n
    BY <1>5, <2>5 DEF Found
  <2> QED
    BY <1>5, <2>3 DEF n
<1>6. CASE ~(n > t) /\ n # S!NoTime
  <2>1. n \in ticks /\ n \in Int /\ n > q /\ n <= t
    <3>1. n \in ticks /\ n > q
      BY <1>2, <1>6
    <3>2. n \in Nat
      BY <3>1
    <3> QED
      BY <1>6, <3>1, <3>2
  <2>2. n \in (t - Lookback) .. t
    BY <1>1, <2>1, LookbackAssumption
  <2>3. Found(q, t) = Found(n, t)
    <3> DEFINE U == {x \in ticks : x <= t}
               last == CHOOSE x \in ticks : x <= t /\ \A y \in ticks : y <= t => y <= x
    <3>1. \E x \in ticks : x <= t /\ \A y \in ticks : y <= t => y <= x
      <4>1. U # {} /\ \A x \in U : x \in Int /\ x <= t
        BY <2>1
      <4> HIDE DEF U
      <4>2. PICK x \in U : \A y \in U : y <= x
        BY <4>1, GreatestUpTo
      <4> USE DEF U
      <4> QED
        BY <4>2
    <3>2. last \in ticks /\ last <= t /\ \A y \in ticks : y <= t => y <= last
      BY <3>1
    <3>3. S!CronNext(t) # S!NoTime => Found(q, t) = last
      <4>1. \E x \in ticks : q < x /\ x <= t
        BY <1>1, <2>1
      <4> QED
        BY <4>1, Zenon DEF Found
    <3>6. S!CronNext(t) = S!NoTime => Found(q, t) = Found(n, t)
      BY Zenon DEF Found
    <3>4. CASE \E x \in ticks : n < x /\ x <= t
      <4>1. S!CronNext(t) # S!NoTime => Found(n, t) = last
        BY <3>4, Zenon DEF Found
      <4> QED
        BY <3>3, <3>6, <4>1
    <3> HIDE DEF last
    <3>5. CASE ~\E x \in ticks : n < x /\ x <= t
      <4>1. last = n
        BY <2>1, <3>2, <3>5
      <4> QED
        BY <3>3, <3>5, <3>6, <4>1 DEF Found
    <3> QED
      BY <3>4, <3>5
  <2> QED
    BY <1>6, <2>1, <2>2, <2>3 DEF n
<1> QED
  BY <1>4, <1>5, <1>6

\* Found solves the equation of the loop.
LEMMA LoopIsFound ==
    ASSUME ticks \subseteq Nat, NEW t \in Nat
    PROVE  Loop([q \in (t - Lookback) .. t |-> Found(q, t)], t)
<1> DEFINE D == (t - Lookback) .. t
           g == [q \in D |-> Found(q, t)]
           body(q) == LET n == S!CronNext(q)
                      IN  IF n > t THEN q ELSE IF n = S!NoTime THEN n ELSE g[n]
<1>1. ASSUME NEW q \in D
      PROVE  Found(q, t) = body(q)
  <2> DEFINE n == S!CronNext(q)
  <2>1. CASE n > t
    BY <2>1, LoopTurn
  <2>2. CASE ~(n > t) /\ n = S!NoTime
    BY <2>2, LoopTurn
  <2>3. CASE ~(n > t) /\ n # S!NoTime
    <3>1. n \in D /\ Found(q, t) = Found(n, t)
      BY <2>3, LoopTurn
    <3> QED
      BY <2>3, <3>1
  <2> QED
    BY <2>1, <2>2, <2>3
<1> QED
  BY <1>1 DEF Loop

\* The loop ends, and its equation has one solution.
LEMMA LoopIsUnique ==
    ASSUME ticks \subseteq Nat, NEW t \in Nat, NEW f, NEW g, Loop(f, t), Loop(g, t),
           NEW p \in (t - Lookback) .. t
    PROVE  f[p] = g[p]
<1> DEFINE D == (t - Lookback) .. t
           U == {q \in D : f[q] # g[q]}
<1>1. SUFFICES ASSUME U # {} PROVE FALSE
  OBVIOUS
<1>2. D \subseteq Int /\ \A q \in D : q <= t
  BY LookbackAssumption
<1>3. PICK q \in U : \A y \in U : y <= q
  <2>1. \A q \in U : q \in Int /\ q <= t
    BY <1>2
  <2> HIDE DEF U
  <2> QED
    BY <1>1, <2>1, GreatestUpTo
<1> DEFINE n == S!CronNext(q)
<1>4. /\ f[q] = IF n > t THEN q ELSE IF n = S!NoTime THEN n ELSE f[n]
      /\ g[q] = IF n > t THEN q ELSE IF n = S!NoTime THEN n ELSE g[n]
  BY DEF Loop
<1>5. ~(n > t) /\ n # S!NoTime
  BY <1>3, <1>4
<1>6. n \in D /\ n > q
  BY <1>5, LoopTurn
<1>7. f[n] = g[n]
  BY <1>2, <1>3, <1>6
<1> QED
  BY <1>3, <1>4, <1>5, <1>7

\* So the loop returns it.
LEMMA SearchFinds ==
    ASSUME ticks \subseteq Nat, NEW t \in Nat, NEW p \in (t - Lookback) .. t
    PROVE  SearchFrom(p, t) = Found(p, t)
<1> DEFINE g == [q \in (t - Lookback) .. t |-> Found(q, t)]
           f == CHOOSE f : Loop(f, t)
<1>1. Loop(g, t)
  BY LoopIsFound
<1>2. Loop(f, t)
  BY <1>1, Zenon
<1>3. SearchFrom(p, t) = f[p]
  BY Zenon DEF SearchFrom, Loop
<1>4. f[p] = g[p]
  <2> HIDE DEF f, g
  <2> QED
    BY <1>1, <1>2, LoopIsUnique, Zenon
<1> QED
  BY <1>3, <1>4

\* From the beginning of the look-back period, that is the last firing in it.
LEMMA SearchPrevExact ==
    ASSUME ticks \subseteq Nat, NEW t \in Nat
    PROVE  SearchPrev(t) = S!FindPrevActivation(t)
<1> DEFINE p == t - Lookback
<1>1. p \in (t - Lookback) .. t /\ p \in Int
  BY LookbackAssumption
<1>2. SearchPrev(t) = IF Found(p, t) = p THEN S!NoTime ELSE Found(p, t)
  BY <1>1, SearchFinds DEF SearchPrev
<1>3. CASE S!CronNext(t) = S!NoTime
  <2>1. Found(p, t) = S!NoTime
    BY <1>3 DEF Found
  <2>2. S!FindPrevActivation(t) = S!NoTime
    BY <1>3 DEF S!FindPrevActivation
  <2> QED
    BY <1>2, <2>1, <2>2
<1>4. CASE S!CronNext(t) # S!NoTime /\ ~\E x \in ticks : p < x /\ x <= t
  <2>1. Found(p, t) = p
    BY <1>4 DEF Found
  <2>2. ~\E x \in ticks : S!IsPrevTick(x, t)
    BY <1>1, <1>4 DEF S!IsPrevTick
  <2>3. S!FindPrevActivation(t) = S!NoTime
    BY <2>2 DEF S!FindPrevActivation
  <2> QED
    BY <1>2, <2>1, <2>3
<1>5. CASE S!CronNext(t) # S!NoTime /\ \E x \in ticks : p < x /\ x <= t
  <2> DEFINE prev == S!FindPrevActivation(t)
             last == CHOOSE x \in ticks : x <= t /\ \A y \in ticks : y <= t => y <= x
  <2>1. Found(p, t) = last
    BY <1>5 DEF Found
  <2>2. prev \in ticks /\ prev > p /\ prev <= t /\ \A y \in ticks : y <= t => y <= prev
    <3>1. PICK x \in ticks : x <= t /\ x > t - Lookback
      BY <1>1, <1>5
    <3>2. prev # S!NoTime
      BY <1>5, <3>1, PrevFiring
    <3> QED
      BY <3>2, PrevFiring DEF S!IsPrevTick
  <2>3. last \in ticks /\ last <= t /\ \A y \in ticks : y <= t => y <= last
    BY <2>2
  <2> HIDE DEF last, prev
  <2>4. last = prev
    BY <2>2, <2>3
  <2> QED
    BY <1>1, <1>2, <2>1, <2>2, <2>4 DEF prev
<1> QED
  BY <1>3, <1>4, <1>5

-----------------------------------------------------------------------------
(* The assumptions and the inductive invariant.                            *)

\* A cron expression that fires goes on firing.
Regular == \A T \in Firings : T = {} \/ \E x \in T : x > Horizon

\* Reconcile refuses a recurring Breakglass without a duration.
Validated == \A s \in WindowSpecs : s.cron = "valid" => s.duration > 0

\* A window is shorter than the look-back period (one year in the code).
ShortWindows == \A s \in WindowSpecs : s.cron = "valid" => s.duration <= Lookback

Breakglasses == [spec : S!Specs, status : S!Statuses({})]

TypeInv ==
    /\ now \in 0 .. Horizon /\ ticks \in Firings /\ active \in BOOLEAN
    /\ bg \in Breakglasses /\ bg.spec \in WindowSpecs

\* What is planned is a firing or the start of the schedule.
PlanInv ==
    bg.spec.cron = "valid" => bg.status.nextAt \in ticks \cup {bg.spec.start, S!NoTime}

\* After a first activation the plan lies after the last one, or is over for
\* good.
AheadInv ==
    Fires /\ bg.status.count > 0 =>
        IF bg.spec.cron = "valid"
        THEN \/ bg.status.nextAt \in ticks /\ bg.status.grantedAt < bg.status.nextAt
             \/ bg.status.nextAt = S!NoTime /\ S!MaxActivationsReached(bg)
        ELSE bg.status.nextAt = S!NoTime

\* A schedule the parser rejects is never planned.
InvalidInv == bg.spec.cron = "invalid" => bg.status.nextAt = S!NoTime

-----------------------------------------------------------------------------
(* What the scheduling operators do.                                       *)

\* x differs from b in its conditions only.
SameButConditions(x, b) ==
    /\ x \in Breakglasses /\ x.spec = b.spec
    /\ x.status.nextAt = b.status.nextAt /\ x.status.count = b.status.count
    /\ x.status.grantedAt = b.status.grantedAt

\* x is b with its next activation planned at t.
PlannedAt(x, b, t) ==
    /\ x \in Breakglasses /\ x.spec = b.spec
    /\ x.status.nextAt = t /\ x.status.count = b.status.count
    /\ x.status.grantedAt = b.status.grantedAt

\* The fields the scheduling reads.
LEMMA BreakglassTypes ==
    ASSUME NEW b \in Breakglasses
    PROVE  /\ b.spec.cron \in {"none", "valid", "invalid"}
           /\ b.spec.start \in Int /\ b.spec.start >= -1 /\ b.spec.duration \in Nat
           /\ b.status.nextAt \in S!Times /\ b.status.count \in Nat
           /\ b.status.grantedAt \in S!Times
BY DEF Breakglasses, S!Specs, S!Statuses, S!Times

\* A condition changes the conditions only.
LEMMA SetConditionEffect ==
    ASSUME NEW b \in Breakglasses, NEW c \in S!ConditionTypes
    PROVE  SameButConditions(S!SetCondition(b, c), b)
<1> DEFINE conds == S!SetStatusCondition(b.status.conds, c)
<1>1. b.status.conds \in Seq(S!ConditionTypes)
  BY DEF Breakglasses, S!Statuses
<1>2. conds \in Seq(S!ConditionTypes)
  BY <1>1 DEF S!SetStatusCondition
<1>3. S!SetCondition(b, c) = [b EXCEPT !.status.conds = conds]
  BY DEF S!SetCondition, Breakglasses, S!Statuses
<1> HIDE DEF conds
<1> QED
  BY <1>2, <1>3 DEF SameButConditions, Breakglasses, S!Statuses

\* A plan and a condition.
LEMMA PlanEffect ==
    ASSUME NEW b \in Breakglasses, NEW t \in S!Times, NEW c \in S!ConditionTypes
    PROVE  PlannedAt(S!SetCondition([b EXCEPT !.status.nextAt = t], c), b, t)
<1> DEFINE x == [b EXCEPT !.status.nextAt = t]
<1>1. /\ x \in Breakglasses /\ x.spec = b.spec /\ x.status.nextAt = t
      /\ x.status.count = b.status.count
      /\ x.status.grantedAt = b.status.grantedAt
  BY DEF Breakglasses, S!Statuses
<1> HIDE DEF x
<1>2. SameButConditions(S!SetCondition(x, c), x)
  BY <1>1, SetConditionEffect
<1> QED
  BY <1>1, <1>2 DEF SameButConditions, PlannedAt, x

\* Scheduling an activation.
LEMMA ScheduleAtEffect ==
    ASSUME NEW b \in Breakglasses, NEW t \in S!Times
    PROVE  PlannedAt(S!ScheduleAt(b, t), b, t)
BY PlanEffect DEF S!ScheduleAt, S!ConditionTypes

\* The next activation is the next firing, or the start when that is later.
LEMMA NextActivation ==
    ASSUME NEW b \in Breakglasses, ticks \subseteq Nat, NEW t \in Int
    PROVE  /\ S!CalculateNextActivation(b, t) \in S!Times
           /\ S!CalculateNextActivation(b, t) \in ticks \cup {b.spec.start, S!NoTime}
           /\ ((\E x \in ticks : x > t) /\ b.spec.start <= t)
                  => /\ S!CalculateNextActivation(b, t) \in ticks
                     /\ S!CalculateNextActivation(b, t) > t
<1> DEFINE c == S!CronNext(t)
<1>1. b.spec.start \in Int /\ b.spec.start >= -1
  BY BreakglassTypes
<1>2. \/ c = S!NoTime /\ \A x \in ticks : x <= t
      \/ c \in ticks /\ c > t
  BY NextFiring
<1> HIDE DEF c
<1>3. S!CalculateNextActivation(b, t) = IF c < b.spec.start THEN b.spec.start ELSE c
  BY DEF S!CalculateNextActivation, c
<1>4. c \in Int /\ c >= -1
  <2>1. CASE c = S!NoTime
    BY <2>1
  <2>2. CASE c \in ticks
    <3>1. c \in Nat
      BY <2>2
    <3> QED
      BY <3>1
  <2> QED
    BY <1>2, <2>1, <2>2
<1>5. (\E x \in ticks : x > t) => c \in ticks /\ c > t
  BY <1>2
<1> QED
  BY <1>1, <1>2, <1>3, <1>4, <1>5 DEF S!Times

\* The plan ProcessRecurring leaves.
Plan(b, t) ==
    IF S!MaxActivationsReached(b) \/ b.spec.cron = "invalid"
    THEN IF S!MaxActivationsReached(b) THEN S!NoTime ELSE b.status.nextAt
    ELSE IF b.spec.cron = "none"
    THEN IF b.status.count = 0 /\ b.status.nextAt = S!NoTime
         THEN IF b.spec.start = S!NoTime THEN t ELSE b.spec.start
         ELSE b.status.nextAt
    ELSE IF b.status.nextAt = S!NoTime
    THEN IF S!InPrevWindow(b, t) THEN S!FindPrevActivation(t)
         ELSE S!CalculateNextActivation(b, t)
    ELSE IF b.spec.start <= t /\ b.spec.duration > 0
            /\ t > b.status.nextAt + b.spec.duration
    THEN S!CalculateNextActivation(b, t)
    ELSE b.status.nextAt

\* ProcessRecurring plans, and changes nothing else but the conditions.
LEMMA ProcessPlans ==
    ASSUME NEW b \in Breakglasses, ticks \subseteq Nat, NEW t \in Nat
    PROVE  PlannedAt(S!ProcessRecurring(b, t), b, Plan(b, t))
<1> DEFINE next == S!CalculateNextActivation(b, t)
           prev == S!FindPrevActivation(t)
<1>1. /\ b.spec.cron \in {"none", "valid", "invalid"}
      /\ b.spec.start \in Int /\ b.spec.start >= -1 /\ b.spec.duration \in Nat
      /\ b.status.nextAt \in S!Times /\ b.status.count \in Nat
  BY BreakglassTypes
<1>2. next \in S!Times /\ prev \in S!Times
  <2>1. next \in S!Times
    BY NextActivation
  <2>2. prev = S!NoTime \/ prev \in ticks
    BY PrevFiring, Zenon
  <2> HIDE DEF next, prev
  <2>3. prev \in S!Times
    BY <2>2 DEF S!Times
  <2> QED
    BY <2>1, <2>3
<1>3. \A c \in S!ConditionTypes : PlannedAt(S!SetCondition(b, c), b, b.status.nextAt)
  BY SetConditionEffect DEF SameButConditions, PlannedAt
<1>4. PlannedAt(S!StopRecurrence(b), b, S!NoTime)
  BY PlanEffect DEF S!StopRecurrence, S!ConditionTypes, S!Times
<1>5. PlannedAt(b, b, b.status.nextAt)
  BY DEF PlannedAt
<1>6. CASE S!MaxActivationsReached(b)
  BY <1>4, <1>6 DEF S!ProcessRecurring, Plan
<1>7. CASE ~S!MaxActivationsReached(b) /\ b.spec.cron = "invalid"
  <2>1. S!ProcessRecurring(b, t) = S!SetCondition(b, "Failed")
    BY <1>7 DEF S!ProcessRecurring
  <2> QED
    BY <1>3, <1>7, <2>1 DEF Plan, S!ConditionTypes
<1>8. CASE ~S!MaxActivationsReached(b) /\ b.spec.cron = "none"
  <2>1. S!ProcessRecurring(b, t) = S!ProcessOneShot(b, t)
    BY <1>8 DEF S!ProcessRecurring
  <2>2. CASE b.status.count = 0 /\ b.status.nextAt = S!NoTime
    <3> DEFINE w == IF b.spec.start = S!NoTime THEN t ELSE b.spec.start
    <3>1. w \in S!Times
      BY <1>1 DEF S!Times
    <3>2. S!ProcessOneShot(b, t) = S!ScheduleAt(b, w)
      BY <2>2 DEF S!ProcessOneShot
    <3>3. Plan(b, t) = w
      BY <1>8, <2>2 DEF Plan
    <3> HIDE DEF w
    <3> QED
      BY <2>1, <3>1, <3>2, <3>3, ScheduleAtEffect
  <2>3. CASE ~(b.status.count = 0 /\ b.status.nextAt = S!NoTime)
    <3>1. S!ProcessOneShot(b, t) \in {b, S!SetCondition(b, "RecurringPending")}
      BY <1>1, <2>3 DEF S!ProcessOneShot
    <3>2. Plan(b, t) = b.status.nextAt
      BY <1>8, <2>3 DEF Plan
    <3> QED
      BY <1>3, <1>5, <2>1, <3>1, <3>2 DEF S!ConditionTypes
  <2> QED
    BY <2>2, <2>3
<1>9. CASE ~S!MaxActivationsReached(b) /\ b.spec.cron = "valid"
  <2>1. S!ProcessRecurring(b, t) = S!ProcessCron(b, t)
    BY <1>9 DEF S!ProcessRecurring
  <2>2. CASE b.status.nextAt = S!NoTime
    <3> DEFINE w == IF S!InPrevWindow(b, t) THEN prev ELSE next
    <3>1. S!ProcessCron(b, t) = S!ScheduleAt(b, w)
      BY <2>2 DEF S!ProcessCron, S!HandleInitialActivation
    <3>2. Plan(b, t) = w
      BY <1>9, <2>2 DEF Plan
    <3>3. w \in S!Times
      BY <1>2
    <3> HIDE DEF w
    <3> QED
      BY <2>1, <3>1, <3>2, <3>3, ScheduleAtEffect
  <2>3. CASE /\ b.status.nextAt # S!NoTime /\ b.spec.start <= t
             /\ b.spec.duration > 0 /\ t > b.status.nextAt + b.spec.duration
    <3>1. ~(t < b.spec.start)
      BY <1>1, <2>3
    <3>2. S!ProcessCron(b, t) = S!ScheduleAt(b, next)
      BY <2>3, <3>1 DEF S!ProcessCron
    <3>3. Plan(b, t) = next
      BY <1>9, <2>3 DEF Plan
    <3> HIDE DEF next
    <3> QED
      BY <1>2, <2>1, <3>2, <3>3, ScheduleAtEffect
  <2>4. CASE /\ b.status.nextAt # S!NoTime
             /\ ~(/\ b.spec.start <= t /\ b.spec.duration > 0
                  /\ t > b.status.nextAt + b.spec.duration)
    <3>1. ~(t < b.spec.start) => b.spec.start <= t
      BY <1>1
    <3>2. S!ProcessCron(b, t) \in {b, S!SetCondition(b, "RecurringPending")}
      BY <2>4, <3>1 DEF S!ProcessCron
    <3>3. Plan(b, t) = b.status.nextAt
      BY <1>9, <2>4 DEF Plan
    <3> QED
      BY <1>3, <1>5, <2>1, <3>2, <3>3 DEF S!ConditionTypes
  <2> QED
    BY <2>2, <2>3, <2>4
<1> QED
  BY <1>1, <1>6, <1>7, <1>8, <1>9

\* Revoking access and expiring the schedule.
LEMMA EndEffect ==
    ASSUME NEW b \in Breakglasses
    PROVE  PlannedAt([b EXCEPT !.status.nextAt = S!NoTime], b, S!NoTime)
BY DEF PlannedAt, Breakglasses, S!Statuses, S!Times

\* The activation of access: it is counted, and what comes next is planned.
LEMMA GrantEffect ==
    ASSUME NEW b \in Breakglasses, ticks \subseteq Nat, NEW t \in Nat
    PROVE  LET z == S!OnActivationGranted([b EXCEPT !.status.grantedAt = t]) IN
           /\ z \in Breakglasses /\ z.spec = b.spec
           /\ z.status.count = b.status.count + 1 /\ z.status.grantedAt = t
           /\ z.status.nextAt = IF b.spec.cron = "none" THEN S!NoTime
                                ELSE S!CalculateNextActivation(b, t)
<1> DEFINE g == [b EXCEPT !.status.grantedAt = t]
           c == [g EXCEPT !.status.count = @ + 1]
           next == S!CalculateNextActivation(b, t)
<1>1. /\ g \in Breakglasses /\ g.spec = b.spec /\ g.status.grantedAt = t
      /\ g.status.count = b.status.count
  BY DEF Breakglasses, S!Statuses, S!Times
<1> HIDE DEF g
<1>2. g.status \in S!Statuses({}) /\ g.status.count + 1 \in Nat
  BY <1>1 DEF Breakglasses, S!Statuses
<1>3. /\ c \in Breakglasses /\ c.spec = b.spec /\ c.status.grantedAt = t
      /\ c.status.count = b.status.count + 1
  BY <1>1, <1>2 DEF Breakglasses, S!Statuses
<1>4. next \in S!Times
  BY NextActivation
<1>5. S!CalculateNextActivation(c, t) = next
  BY <1>3 DEF S!CalculateNextActivation
<1> HIDE DEF c, next
<1>6. CASE b.spec.cron = "none"
  <2> DEFINE z == [g EXCEPT !.status.nextAt = S!NoTime, !.status.count = @ + 1]
  <2>1. S!OnActivationGranted(g) = z
    BY <1>1, <1>6 DEF S!OnActivationGranted
  <2>2. [g.status EXCEPT !.nextAt = S!NoTime, !.count = @ + 1] \in S!Statuses({})
    BY <1>2 DEF S!Statuses, S!Times
  <2>3. /\ z \in Breakglasses /\ z.spec = b.spec /\ z.status.nextAt = S!NoTime
        /\ z.status.count = b.status.count + 1 /\ z.status.grantedAt = t
    BY <1>1, <2>2 DEF Breakglasses, S!Statuses
  <2> HIDE DEF z
  <2> QED
    BY <1>6, <2>1, <2>3 DEF g
<1>7. CASE b.spec.cron # "none"
  <2>1. S!OnActivationGranted(g) = S!ScheduleAt(c, S!CalculateNextActivation(c, t))
    <3>1. S!CalculateNextActivation(c, g.status.grantedAt)
              = S!CalculateNextActivation(c, t)
      BY <1>1
    <3>2. S!CalculateNextActivation(g, t) = S!CalculateNextActivation(c, t)
      BY <1>1, <1>3 DEF S!CalculateNextActivation
    <3> QED
      BY <1>1, <1>7, <3>1, <3>2 DEF S!OnActivationGranted, c
  <2>2. PlannedAt(S!ScheduleAt(c, next), c, next)
    BY <1>3, <1>4, ScheduleAtEffect
  <2> QED
    BY <1>3, <1>5, <1>7, <2>1, <2>2 DEF PlannedAt, g, next
<1> QED
  BY <1>6, <1>7

-----------------------------------------------------------------------------
(* Types.                                                                  *)

\* What the proofs use of the types.
LEMMA TypeFacts ==
    ASSUME TypeInv
    PROVE  now \in Nat /\ ticks \subseteq Nat /\ bg \in Breakglasses
BY FiringsAssumption, HorizonAssumption DEF TypeInv

\* What Activate stores.
LEMMA ActivateEffect ==
    ASSUME TypeInv, Activate
    PROVE  /\ bg' \in Breakglasses /\ bg'.spec = bg.spec
           /\ bg'.status.count = bg.status.count + 1 /\ bg'.status.grantedAt = now
           /\ bg'.status.nextAt = IF bg.spec.cron = "none" THEN S!NoTime
                                  ELSE S!CalculateNextActivation(bg, now)
           /\ Plan(bg, now) # S!NoTime /\ bg.spec.start <= now /\ Plan(bg, now) <= now
<1>1. now \in Nat /\ ticks \subseteq Nat /\ bg \in Breakglasses
  BY TypeFacts
<1>2. PlannedAt(Processed, bg, Plan(bg, now))
  BY <1>1, ProcessPlans DEF Processed
<1> DEFINE y == Processed
<1> HIDE DEF y
<1>3. y \in Breakglasses /\ y.spec = bg.spec /\ y.status.count = bg.status.count
      /\ y.status.nextAt = Plan(bg, now)
  BY <1>2 DEF PlannedAt, y
<1>4. bg' = S!OnActivationGranted([y EXCEPT !.status.grantedAt = now])
  BY DEF Activate, y
<1>5. S!CalculateNextActivation(y, now) = S!CalculateNextActivation(bg, now)
  BY <1>3 DEF S!CalculateNextActivation
<1>6. /\ y.status.nextAt # S!NoTime /\ y.spec.start <= now /\ y.status.nextAt <= now
  <2>1. S!ShouldActivate(y, now)
    BY DEF Activate, Due, y
  <2>2. y.spec.start \in Int /\ y.status.nextAt \in Int /\ now \in Int
    BY <1>1, <1>3, BreakglassTypes DEF S!Times
  <2> QED
    BY <2>1, <2>2 DEF S!ShouldActivate
<1> QED
  BY <1>1, <1>3, <1>4, <1>5, <1>6, GrantEffect

\* The first schedule is well-formed.
LEMMA InitTypes == Init => TypeInv
<1> SUFFICES ASSUME Init PROVE TypeInv
  OBVIOUS
<1>1. S!NewStatus \in S!Statuses({})
  BY DEF S!NewStatus, S!Statuses, S!Times, S!Approvers
<1>2. bg.spec \in WindowSpecs /\ bg.status = S!NewStatus
      /\ bg = [spec |-> bg.spec, status |-> bg.status]
  BY DEF Init
<1>3. bg \in Breakglasses
  BY <1>1, <1>2, WindowSpecsAssumption DEF Breakglasses
<1>4. now \in 0 .. Horizon /\ ticks \in Firings
  BY HorizonAssumption DEF Init
<1>5. active \in BOOLEAN
  BY Zenon DEF Init
<1> QED
  BY <1>2, <1>3, <1>4, <1>5, Zenon DEF TypeInv

\* Every step keeps it so.
LEMMA NextTypes == TypeInv /\ [Next]_vars => TypeInv'
<1> SUFFICES ASSUME TypeInv, [Next]_vars PROVE TypeInv'
  OBVIOUS
<1>1. CASE Activate
  BY <1>1, ActivateEffect DEF TypeInv, Activate
<1>2. CASE Expire
  <2>1. bg' \in Breakglasses /\ bg'.spec = bg.spec
    BY <1>2, EndEffect DEF Expire, TypeInv, PlannedAt
  <2> QED
    BY <1>2, <2>1 DEF TypeInv, Expire
<1>3. CASE Tick
  BY <1>3, HorizonAssumption DEF TypeInv, Tick
<1>4. CASE UNCHANGED vars
  BY <1>4 DEF TypeInv, vars
<1> QED
  BY <1>1, <1>2, <1>3, <1>4 DEF Next

\* Types.
THEOREM WindowTypes == Spec => []TypeInv
BY InitTypes, NextTypes, PTL DEF Spec

\* The loop of findPrevActivation and findPreviousActivation always finds the
\* last firing of the look-back period.
THEOREM SearchIsExactHolds == Spec => []SearchIsExact
<1>1. TypeInv => SearchIsExact
  BY TypeFacts, SearchPrevExact DEF SearchIsExact
<1> QED
  BY <1>1, WindowTypes, PTL

-----------------------------------------------------------------------------
(* The plan.                                                               *)

\* Nothing is planned yet.
LEMMA InitPlan == Init => PlanInv /\ AheadInv /\ InvalidInv
<1> SUFFICES ASSUME Init PROVE PlanInv /\ AheadInv /\ InvalidInv
  OBVIOUS
<1>1. bg.status.nextAt = S!NoTime /\ bg.status.count = 0
  <2>1. bg.status = S!NewStatus
    BY DEF Init
  <2>2. S!NewStatus.nextAt = S!NoTime
    BY Zenon DEF S!NewStatus
  <2>3. S!NewStatus.count = 0
    BY Zenon DEF S!NewStatus
  <2> QED
    BY <2>1, <2>2, <2>3, Zenon
<1>2. ~(bg.status.count > 0)
  BY <1>1
<1> QED
  BY <1>1, <1>2, Zenon DEF PlanInv, AheadInv, InvalidInv

\* A firing still to come.
LEMMA FiringAhead ==
    ASSUME Regular, TypeInv, Fires
    PROVE  \E x \in ticks : x > now
<1>1. PICK x \in ticks : x > Horizon
  BY DEF Regular, TypeInv, Fires
<1>2. x \in Int /\ now \in Int /\ now <= Horizon /\ Horizon \in Int
  BY TypeFacts, HorizonAssumption DEF TypeInv
<1> QED
  BY <1>1, <1>2

\* Every step plans a firing, the start or nothing.
LEMMA NextPlan == TypeInv /\ PlanInv /\ [Next]_vars => PlanInv'
<1> SUFFICES ASSUME TypeInv, PlanInv, [Next]_vars, bg'.spec.cron = "valid"
             PROVE  bg'.status.nextAt \in ticks' \cup {bg'.spec.start, S!NoTime}
  BY DEF PlanInv
<1>1. now \in Nat /\ ticks \subseteq Nat /\ bg \in Breakglasses
  BY TypeFacts
<1>2. CASE Activate
  <2>1. /\ bg'.spec = bg.spec /\ ticks' = ticks
        /\ bg'.status.nextAt = S!CalculateNextActivation(bg, now)
    BY <1>2, ActivateEffect DEF Activate
  <2> QED
    BY <1>1, <2>1, NextActivation
<1>3. CASE Expire
  BY <1>1, <1>3, EndEffect DEF Expire, PlanInv, PlannedAt
<1>4. CASE Tick \/ UNCHANGED vars
  BY <1>4 DEF Tick, vars, PlanInv
<1> QED
  BY <1>2, <1>3, <1>4 DEF Next

\* A schedule the parser rejects is left alone.
LEMMA NextInvalid == TypeInv /\ InvalidInv /\ [Next]_vars => InvalidInv'
<1> SUFFICES ASSUME TypeInv, InvalidInv, [Next]_vars, bg'.spec.cron = "invalid"
             PROVE  bg'.status.nextAt = S!NoTime
  BY DEF InvalidInv
<1>1. bg \in Breakglasses
  BY TypeFacts
<1>2. CASE Activate
  <2>1. bg.spec.cron = "invalid" /\ Plan(bg, now) # S!NoTime
    BY <1>2, ActivateEffect
  <2> QED
    BY <2>1 DEF Plan, InvalidInv
<1>3. CASE Expire
  BY <1>1, <1>3, EndEffect DEF Expire, InvalidInv, PlannedAt
<1>4. CASE Tick \/ UNCHANGED vars
  BY <1>4 DEF Tick, vars, InvalidInv
<1> QED
  BY <1>2, <1>3, <1>4 DEF Next

\* After an activation the next firing is planned, and it lies ahead.
LEMMA NextAhead ==
    ASSUME Regular
    PROVE  TypeInv /\ InvalidInv /\ AheadInv /\ [Next]_vars => AheadInv'
<1> SUFFICES ASSUME TypeInv, InvalidInv, AheadInv, [Next]_vars PROVE AheadInv'
  OBVIOUS
<1>1. /\ now \in Nat /\ ticks \subseteq Nat /\ bg \in Breakglasses
      /\ bg.spec.cron \in {"none", "valid", "invalid"}
  BY TypeFacts, BreakglassTypes
<1>2. CASE Activate
  <2>1. SUFFICES ASSUME Fires PROVE AheadInv'
    BY <1>2 DEF AheadInv, Fires, Activate
  <2>2. /\ bg'.spec = bg.spec /\ bg'.status.grantedAt = now /\ ticks' = ticks
        /\ bg'.status.nextAt = IF bg.spec.cron = "none" THEN S!NoTime
                               ELSE S!CalculateNextActivation(bg, now)
        /\ Plan(bg, now) # S!NoTime /\ bg.spec.start <= now
    BY <1>2, ActivateEffect DEF Activate
  <2>3. bg.spec.cron # "invalid"
    BY <2>2 DEF Plan, InvalidInv
  <2>4. CASE bg.spec.cron = "valid"
    <3>1. /\ S!CalculateNextActivation(bg, now) \in ticks
          /\ S!CalculateNextActivation(bg, now) > now
      BY <1>1, <2>1, <2>2, FiringAhead, NextActivation
    <3>2. S!CalculateNextActivation(bg, now) \in Nat
      BY <1>1, <3>1
    <3>3. now < S!CalculateNextActivation(bg, now)
      BY <1>1, <3>1, <3>2
    <3> QED
      BY <2>2, <2>4, <3>1, <3>3 DEF AheadInv
  <2>5. CASE bg.spec.cron = "none"
    BY <2>2, <2>5 DEF AheadInv
  <2> QED
    BY <1>1, <2>3, <2>4, <2>5
<1>3. CASE Expire
  <2>1. CASE S!HasFutureActivations(bg)
    <3>1. bg' = bg /\ ticks' = ticks
      BY <1>3, <2>1 DEF Expire
    <3> QED
      BY <3>1 DEF AheadInv, Fires, S!MaxActivationsReached
  <2>2. CASE ~S!HasFutureActivations(bg)
    <3>1. ticks' = ticks /\ PlannedAt(bg', bg, S!NoTime)
      BY <1>1, <1>3, <2>2, EndEffect DEF Expire
    <3>2. /\ bg'.spec = bg.spec /\ bg'.status.count = bg.status.count
          /\ bg'.status.nextAt = S!NoTime
      BY <3>1 DEF PlannedAt
    <3>3. S!MaxActivationsReached(bg)' <=> S!MaxActivationsReached(bg)
      BY <3>2 DEF S!MaxActivationsReached
    <3>4. CASE bg.spec.cron = "valid" /\ Fires /\ bg.status.count > 0
      <4>1. S!Determine(bg) \in {"recurringFinite", "recurringUnlimited"}
        BY <3>4 DEF S!Determine
      <4>2. S!MaxActivationsReached(bg) \/ bg.status.nextAt = S!NoTime
        BY <2>2, <4>1, Zenon DEF S!HasFutureActivations
      <4>3. bg.status.nextAt \in ticks \/ S!MaxActivationsReached(bg)
        BY <3>4, Zenon DEF AheadInv
      <4>4. bg.status.nextAt \in ticks => bg.status.nextAt # S!NoTime
        BY <1>1
      <4>5. S!MaxActivationsReached(bg)
        BY <4>2, <4>3, <4>4, Zenon
      <4> QED
        BY <3>2, <3>3, <4>5 DEF AheadInv
    <3>5. CASE ~(bg.spec.cron = "valid" /\ Fires /\ bg.status.count > 0)
      BY <3>1, <3>2, <3>5 DEF AheadInv, Fires
    <3> QED
      BY <3>4, <3>5
  <2> QED
    BY <2>1, <2>2
<1>4. CASE Tick \/ UNCHANGED vars
  BY <1>4 DEF Tick, vars, AheadInv, Fires, S!MaxActivationsReached
<1> QED
  BY <1>2, <1>3, <1>4 DEF Next

\* The inductive invariant.
THEOREM PlanInvariant == Spec => []PlanInv
BY InitPlan, NextPlan, WindowTypes, PTL DEF Spec

\* The plan lies after the last activation, or is over for good.
THEOREM AheadInvariant ==
    ASSUME Regular
    PROVE  Spec => [](AheadInv /\ InvalidInv)
BY InitPlan, NextAhead, NextInvalid, WindowTypes, PTL DEF Spec

-----------------------------------------------------------------------------
(* The properties.                                                         *)

\* What is due, and why.
LEMMA DuePlan ==
    ASSUME TypeInv
    PROVE  /\ Processed \in Breakglasses /\ Processed.spec = bg.spec
           /\ Processed.status.nextAt = Plan(bg, now)
           /\ Due <=> /\ Plan(bg, now) # S!NoTime
                      /\ now >= bg.spec.start /\ now >= Plan(bg, now)
<1>1. PlannedAt(Processed, bg, Plan(bg, now))
  BY TypeFacts, ProcessPlans DEF Processed
<1>2. /\ Processed \in Breakglasses /\ Processed.spec = bg.spec
      /\ Processed.status.nextAt = Plan(bg, now)
  BY <1>1 DEF PlannedAt
<1>3. Due <=> /\ Processed.status.nextAt # S!NoTime
              /\ now >= Processed.spec.start /\ now >= Processed.status.nextAt
  BY Zenon DEF Due, S!ShouldActivate
<1> QED
  BY <1>2, <1>3

\* Is now in the window of the last firing?
LEMMA InPrevWindowFacts ==
    ASSUME TypeInv
    PROVE  LET prev == S!FindPrevActivation(now) IN
           S!InPrevWindow(bg, now) =>
               prev \in ticks /\ prev < now /\ now < prev + bg.spec.duration
<1>1. \/ S!FindPrevActivation(now) = S!NoTime
      \/ S!FindPrevActivation(now) \in ticks
  BY TypeFacts, PrevFiring, Zenon
<1> QED
  BY <1>1, Zenon DEF S!InPrevWindow

\* A recurring activation that is due: no limit is reached, and the plan is the
\* last firing, strictly inside its window, or the one made before, in time.
LEMMA DueRecurring ==
    ASSUME Regular, Validated, TypeInv, Recurring, Fires, Due
    PROVE  /\ ~S!MaxActivationsReached(bg)
           /\ bg.spec.start <= now
           /\ \/ /\ bg.status.nextAt = S!NoTime
                 /\ S!InPrevWindow(bg, now)
                 /\ Plan(bg, now) = S!FindPrevActivation(now)
              \/ /\ bg.status.nextAt # S!NoTime
                 /\ Plan(bg, now) = bg.status.nextAt
                 /\ bg.status.nextAt <= now
                 /\ now <= bg.status.nextAt + bg.spec.duration
<1> DEFINE next == S!CalculateNextActivation(bg, now)
<1>1. /\ now \in Nat /\ ticks \subseteq Nat /\ bg \in Breakglasses
      /\ bg.spec.cron = "valid" /\ bg.spec.duration > 0
  BY TypeFacts DEF Recurring, Validated, TypeInv
<1>2. /\ bg.spec.start \in Int /\ bg.spec.duration \in Nat
      /\ bg.status.nextAt \in S!Times
  BY <1>1, BreakglassTypes
<1>3. /\ Plan(bg, now) # S!NoTime
      /\ now >= bg.spec.start /\ now >= Plan(bg, now)
  BY DuePlan
<1>4. ~S!MaxActivationsReached(bg)
  BY <1>3 DEF Plan
<1>5. bg.spec.start <= now
  BY <1>1, <1>2, <1>3
<1>6. next > now /\ next \in Int
  <2>1. next > now /\ next \in ticks
    BY <1>1, <1>5, FiringAhead, NextActivation
  <2> HIDE DEF next
  <2> QED
    BY <1>1, <2>1
<1>7. Plan(bg, now) # next
  <2> HIDE DEF next
  <2> QED
    BY <1>1, <1>3, <1>6
<1>8. CASE bg.status.nextAt = S!NoTime
  <2>1. Plan(bg, now) = IF S!InPrevWindow(bg, now) THEN S!FindPrevActivation(now)
                        ELSE next
    BY <1>1, <1>4, <1>8 DEF Plan
  <2> HIDE DEF next
  <2> QED
    BY <1>4, <1>5, <1>7, <1>8, <2>1
<1>9. CASE bg.status.nextAt # S!NoTime
  <2>1. ~(now > bg.status.nextAt + bg.spec.duration)
    BY <1>1, <1>4, <1>5, <1>7, <1>9 DEF Plan
  <2>2. Plan(bg, now) = bg.status.nextAt
    BY <1>1, <1>4, <1>9, <2>1 DEF Plan
  <2>3. bg.status.nextAt \in Int
    BY <1>2 DEF S!Times
  <2> QED
    BY <1>1, <1>2, <1>3, <1>4, <1>5, <1>9, <2>1, <2>2, <2>3
<1> QED
  BY <1>8, <1>9

\* When the recurring manager says that an activation is due, the use cases
\* see a window that is still open.
THEOREM DueWindowIsOpenHolds ==
    ASSUME Regular, Validated
    PROVE  Spec => []DueWindowIsOpen
<1>1. ASSUME TypeInv, PlanInv
      PROVE  DueWindowIsOpen
  <2> DEFINE y == Processed
             prev == S!FindPrevActivation(now)
             d == bg.spec.duration
             begin == IF prev = S!NoTime /\ y.status.nextAt <= now
                      THEN y.status.nextAt ELSE prev
             start == S!CronWindowStart(y, now)
  <2> SUFFICES ASSUME Recurring, Fires, Due
               PROVE  S!WindowEnd(y, now) >= now
    BY Zenon DEF DueWindowIsOpen
  <2>1. /\ now \in Nat /\ ticks \subseteq Nat /\ bg \in Breakglasses
        /\ bg.spec.cron = "valid" /\ d \in Nat /\ d > 0
        /\ bg.spec.start \in Int /\ bg.spec.start >= -1
        /\ bg.status.nextAt \in S!Times
    BY <1>1, TypeFacts, BreakglassTypes DEF Recurring, Validated, TypeInv
  <2>2. y.spec = bg.spec /\ y.status.nextAt = Plan(bg, now)
    BY <1>1, DuePlan
  <2>3. \/ prev = S!NoTime
        \/ prev \in ticks /\ \A x \in ticks : x <= now => x <= prev
    BY <2>1, PrevFiring DEF S!IsPrevTick
  <2>4. bg.spec.start <= now
    BY <1>1, DueRecurring
  <2>5. start = IF begin = S!NoTime THEN S!NoTime
                ELSE IF begin < bg.spec.start THEN bg.spec.start ELSE begin
    <3>1. ~(now < bg.spec.start)
      BY <2>1, <2>4
    <3> QED
      BY <2>2, <3>1 DEF S!CronWindowStart, S!FindPreviousActivation
  <2>6. S!WindowEnd(y, now) = IF start = S!NoTime THEN S!NoTime ELSE start + d
    <3>1. d # 0
      BY <2>1
    <3>2. y.spec.cron = "valid" /\ y.spec.duration = d
      BY <2>1, <2>2
    <3> QED
      BY <3>1, <3>2 DEF S!WindowEnd, S!ParseCronSchedule
  \* It is enough that the window begins late enough.
  <2>7. SUFFICES /\ begin \in Nat
                 /\ (now <= begin + d) \/ (now <= bg.spec.start + d)
    <3> HIDE DEF begin, start, y, d
    <3>1. start \in Int /\ start >= begin /\ start >= bg.spec.start /\ start # S!NoTime
      <4>1. CASE begin < bg.spec.start
        BY <2>1, <2>5, <2>7, <4>1
      <4>2. CASE ~(begin < bg.spec.start)
        BY <2>1, <2>5, <2>7, <4>2
      <4> QED
        BY <4>1, <4>2
    <3>2. S!WindowEnd(y, now) = start + d
      BY <2>6, <3>1
    <3> QED
      BY <2>1, <2>7, <3>1, <3>2
  <2>8. CASE bg.status.nextAt = S!NoTime
    <3>1. prev \in ticks /\ prev < now /\ now < prev + d
      BY <1>1, <2>8, DueRecurring, InPrevWindowFacts
    <3>2. prev \in Nat
      BY <2>1, <3>1
    <3> HIDE DEF prev, d
    <3>3. prev # S!NoTime /\ prev \in Int /\ now <= prev + d
      BY <2>1, <3>1, <3>2
    <3>4. begin = prev
      BY <3>3
    <3> QED
      BY <3>2, <3>3, <3>4
  <2>9. CASE bg.status.nextAt # S!NoTime
    <3>1. /\ Plan(bg, now) = bg.status.nextAt
          /\ bg.status.nextAt <= now /\ now <= bg.status.nextAt + d
      BY <1>1, <2>9, DueRecurring
    <3>2. bg.status.nextAt \in Nat
      BY <2>1, <2>9 DEF S!Times
    <3>3. bg.status.nextAt \in ticks \cup {bg.spec.start}
      BY <1>1, <2>1, <2>9 DEF PlanInv
    <3>4. CASE prev = S!NoTime
      <4>1. begin = bg.status.nextAt
        BY <2>2, <3>1, <3>4
      <4> QED
        BY <3>1, <3>2, <4>1
    <3>5. CASE prev # S!NoTime
      <4>1. begin = prev
        BY <3>5
      <4>2. prev \in Nat /\ \A x \in ticks : x <= now => x <= prev
        BY <2>1, <2>3, <3>5
      <4> HIDE DEF prev, begin, d
      <4>3. CASE bg.status.nextAt \in ticks
        <5>1. bg.status.nextAt <= prev
          BY <3>1, <4>2, <4>3
        <5> QED
          BY <2>1, <3>1, <3>2, <4>1, <4>2, <5>1
      <4>4. CASE bg.status.nextAt = bg.spec.start
        BY <3>1, <4>1, <4>2, <4>4
      <4> QED
        BY <3>3, <4>3, <4>4
    <3> QED
      BY <3>4, <3>5
  <2> QED
    BY <2>8, <2>9
<1> QED
  BY <1>1, WindowTypes, PlanInvariant, PTL

\* Strictly inside the window of a firing, with activations left and the
\* planned one not missed, an activation is due.
THEOREM OpenWindowIsDueHolds ==
    ASSUME Regular, ShortWindows
    PROVE  Spec => []OpenWindowIsDue
<1>1. ASSUME TypeInv
      PROVE  OpenWindowIsDue
  <2> DEFINE prev == S!FindPrevActivation(now)
             d == bg.spec.duration
  <2> SUFFICES ASSUME Recurring, bg.spec.start <= now, ~S!MaxActivationsReached(bg),
                      now \notin ticks,
                      NEW w \in ticks, bg.status.nextAt <= w, w < now, now < w + d,
                      bg.status.nextAt # S!NoTime => now <= bg.status.nextAt + d
               PROVE  Due
    BY DEF OpenWindowIsDue
  <2>1. /\ now \in Nat /\ ticks \subseteq Nat /\ bg \in Breakglasses /\ w \in Nat
        /\ bg.spec.cron = "valid" /\ d \in Nat /\ d <= Lookback
        /\ bg.spec.start \in Int /\ bg.status.nextAt \in S!Times
    BY <1>1, TypeFacts, BreakglassTypes DEF Recurring, ShortWindows, TypeInv
  <2>2. SUFFICES Plan(bg, now) # S!NoTime /\ now >= Plan(bg, now)
    <3>1. now >= bg.spec.start
      BY <2>1
    <3> QED
      BY <1>1, <2>2, <3>1, DuePlan
  <2>3. CASE bg.status.nextAt = S!NoTime
    <3>1. S!CronNext(now) # S!NoTime
      <4>1. \E x \in ticks : x > now
        BY <1>1, FiringAhead DEF Fires
      <4> QED
        BY <2>1, <4>1, NextFiring
    <3>2. w <= now /\ w > now - Lookback
      BY <2>1, LookbackAssumption
    <3>3. /\ prev \in ticks /\ prev <= now /\ w <= prev
      <4>1. prev # S!NoTime
        BY <2>1, <3>1, <3>2, PrevFiring
      <4> QED
        BY <2>1, <3>2, <4>1, PrevFiring DEF S!IsPrevTick
    <3>4. prev \in Nat /\ prev # now
      BY <2>1, <3>3
    <3> HIDE DEF prev
    <3>5. prev # S!NoTime /\ prev < now /\ now < prev + d
      BY <2>1, <3>3, <3>4
    <3>6. S!InPrevWindow(bg, now)
      BY <3>5 DEF S!InPrevWindow, prev
    <3>7. Plan(bg, now) = prev
      BY <2>1, <2>3, <3>6 DEF Plan, prev
    <3> QED
      BY <2>1, <3>3, <3>4, <3>5, <3>7
  <2>4. CASE bg.status.nextAt # S!NoTime
    <3>1. bg.status.nextAt \in Nat
      BY <2>1, <2>4 DEF S!Times
    <3>2. ~(now > bg.status.nextAt + d)
      BY <2>1, <2>4, <3>1
    <3>3. Plan(bg, now) = bg.status.nextAt
      BY <2>1, <2>4, <3>2 DEF Plan
    <3> QED
      BY <2>1, <2>4, <3>1, <3>3
  <2> QED
    BY <2>3, <2>4
<1> QED
  BY <1>1, WindowTypes, PTL

\* A window is used for one activation only.
THEOREM OncePerWindowHolds ==
    ASSUME Regular, Validated
    PROVE  Spec => OncePerWindow
<1>1. ASSUME TypeInv, AheadInv, InvalidInv, [Next]_vars
      PROVE  [Fires /\ bg.status.count > 0 /\ bg'.status.count > bg.status.count
                  => \E w \in ticks : bg.status.grantedAt < w /\ w <= now]_vars
  <2> SUFFICES ASSUME Next, Fires, bg.status.count > 0,
                      bg'.status.count > bg.status.count
               PROVE  \E w \in ticks : bg.status.grantedAt < w /\ w <= now
    BY <1>1
  <2>1. bg \in Breakglasses /\ bg.spec.cron \in {"none", "valid", "invalid"}
        /\ bg.status.count \in Nat
    BY <1>1, TypeFacts, BreakglassTypes
  <2>2. Activate
    <3>1. ~(bg.status.count > bg.status.count)
      BY <2>1
    <3>2. ASSUME Expire PROVE bg'.status.count = bg.status.count
      BY <2>1, <3>2, EndEffect DEF Expire, PlannedAt
    <3>3. ASSUME Tick PROVE bg' = bg
      BY <3>3 DEF Tick
    <3> QED
      BY <3>1, <3>2, <3>3 DEF Next
  <2>3. Plan(bg, now) # S!NoTime /\ Due
    BY <1>1, <2>2, ActivateEffect DEF Activate
  <2>4. CASE bg.spec.cron = "valid"
    <3>1. Recurring
      BY <2>4 DEF Recurring
    <3>2. ~S!MaxActivationsReached(bg)
      BY <1>1, <2>3, <3>1, DueRecurring
    <3>3. bg.status.nextAt \in ticks /\ bg.status.grantedAt < bg.status.nextAt
      BY <1>1, <2>4, <3>2, Zenon DEF AheadInv
    <3>4. bg.status.nextAt # S!NoTime
      BY <1>1, <3>3, TypeFacts
    <3>5. bg.status.nextAt <= now
      BY <1>1, <2>3, <3>1, <3>4, DueRecurring
    <3> QED
      BY <3>3, <3>5
  <2>5. CASE bg.spec.cron = "none"
    <3>1. bg.status.nextAt = S!NoTime
      BY <1>1, <2>5 DEF AheadInv
    <3>2. bg.status.count # 0
      BY <2>1
    <3> QED
      BY <2>3, <2>5, <3>1, <3>2 DEF Plan
  <2>6. CASE bg.spec.cron = "invalid"
    BY <1>1, <2>3, <2>6 DEF Plan, InvalidInv
  <2> QED
    BY <2>1, <2>4, <2>5, <2>6
<1> QED
  BY <1>1, WindowTypes, AheadInvariant, PTL DEF Spec, OncePerWindow
=============================================================================
