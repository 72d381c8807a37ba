# A TLA+ model of the firedoor operator

firedoor is a Kubernetes operator. A person creates a `Breakglass` object that
asks for RBAC permissions for some time; the controller waits for an approval
where one is required, creates the bindings and roles when a window of the
schedule opens, and deletes them when it closes. This directory models the
controller in TLA+, checks it with TLC on small instances, states what it
promises as an abstract specification, and proves with TLAPS, for all values of
the constants, the safety of one controller and that it implements that
specification.

## The system

| part | source | state | operations | model |
|---|---|---|---|---|
| reconciler | `internal/controller/breakglass/reconciler.go` | the object it works on | validate and default the schedule, finalizers, cleanup on delete, dispatch on the last condition | `Reconciler` |
| condition handlers | `internal/controller/breakglass/handlers` | (none) | Pending, Approved, RecurringPending, RecurringActive, terminal; GrantAndActivate, RevokeAndExpire, postRevokeTransition, updateStatus | `Reconciler` |
| recurring manager | `internal/operator/recurring/manager.go` | (in the status) nextActivationAt, activationCount | ProcessRecurring, ShouldActivate, OnActivationGranted | `Schedule`, `Windows` |
| use cases | `internal/controller/breakglass/usecases` | (none) | CurrentWindow, Determine, MaxActivationsReached, HasFutureActivations | `Schedule`, `Windows` |
| RBAC operator | `internal/operator/rbac/operator.go` | (in the status) createdResources | GrantAccess, RevokeAccess, CleanupResources | `RbacResources`, `Reconciler` |
| error classification | `internal/errors` | (none) | IsRetryableK8sError | `K8sErrors` |
| clock | `internal/clock` | (none) | Until, IsExpired | `Reconciler` |
| API server, informers, people | outside the repository | stored objects, caches | Update with a version check, Create, Delete, List, watch; approve, patch, edit, delete | `Cluster` |
| work queue, controller-runtime | outside the repository | queue, timers | one worker, requeue, RequeueAfter, resync, restart | `Reconciler` |
| manager process | `cmd/cli/manager.go` | (none) | starts the controller, with or without leader election | `TwoManagers` |

The parts talk through the API server only: the reconciler reads the object
from an informer cache, writes it back with optimistic concurrency (spec and
metadata by Update, status by Status().Update), creates and deletes RBAC
objects by name and lists them, from a cache, by label. Watch events and the
delays a reconcile returns bring it back.

What is hard about it:

- a reconcile is a sequence of API calls; the clock, people, other writes and a
  crash come between any two of them;
- the copy it works on, and the lists it deletes by, come from caches;
- RBAC objects and the status that accounts for them are written separately;
- an answer may be lost after the call took effect, an error may be transient or
  permanent, and several calls make up one grant or one cleanup;
- everything that happens later depends on a delay some handler returned;
- the state machine is driven by the last element of a list of conditions that
  is updated in place.

What makes the parts correct: nothing is granted without the approval it needs,
before its start or outside its windows; limits are kept; the status says what
the RBAC objects bear out; access ends when its window does; a deleted
Breakglass leaves nothing behind and goes away.

## Modules

Each module extends the one above it on its branch; `->` is an INSTANCE.

    Schedule, RbacResources, K8sErrors        pure operators
    |- Windows -> Schedule                    the life of one schedule
    |  |- MCWindows
    |  `- WindowsProofs                       manager and use cases agree
    |- Access                                 the abstract specification
    |  `- AccessProofs                        its safety
    `- Cluster                                API server, caches, people (external)
       `- Reconciler                          controller, work queue, clock
          `- Properties                       what is checked and proved
             |- Refinement -> Access          the controller implements Access
             |  |- MCReconciler
             |  `- RefinementProofs           ... proved (with the proofs below)
             |- TwoManagers -> Reconciler     two controllers, one cluster
             |  `- MCTwoManagers
             `- ReconcilerProofs              type correctness
                |- ApprovalProofs             the approval gate
                `- TermProofs                 the limit, no access before the start
                   `- RevokeProofs            what is over has no access
                      `- GrantProofs          what is counted is real and on time

`Schedule` has one operator per function of the recurring manager and of the use
cases, on records that keep the fields of spec and status the code reads. The
cron library appears as a set `Ticks` of firing times and the operator
`CronNext`; the one-year search window is `Lookback`.

`RbacResources` numbers the objects of a Breakglass in the order of creation;
`ToCreate` is the test of `createdResources`, `NextKind` the order of cleanup.

`Cluster` stores one Breakglass (`obj`) and its RBAC objects (`rbac`), the
informers' copies (`cache`, `rbacCache`) and who may still write: `cacheFresh`
and `bgFresh` say whether the informer's and the running reconcile's copy carry
the stored resourceVersion. `UpdateObj` answers ok, a conflict, NotFound, an
injected error, or a timeout although the write took effect.

`Reconciler` has one action per API call: `Begin` (work queue to finalizers),
`AddFinalizer`, `DropFinalizer`, `List`, `DeleteResource`, `CreateResource`,
`RecordResources`, `WriteStatus`, and the steps between calls `Dispatch` (the
handlers, up to their first call) and `Activate` (after GrantAccess succeeded).
`pc` names the call that comes next, `bg` is the working copy. The runtime adds
`WatchEvent`, `WatchRbac`, `FireTimer`, `Resync`, `Crash` and `Tick`.

`Windows` runs the operators of `Schedule` as the life of one schedule, without
API calls: activate when the manager says so, expire when the use cases say so,
or let time pass. The firings are a variable, fixed by the initial state, so
that one run covers all of them. It also holds the loop of `findPrevActivation`
and `findPreviousActivation` as the code runs it (`SearchFrom`), where
`Schedule` has the definition of what it looks for.

`TwoManagers` instantiates `Reconciler` a second time over the same `now`, `obj`
and `rbac`, with informers, queue and working copy of its own; what one manager
writes makes the other's copies old.

`Access` is the abstract specification: a request, the set of its grants, those
recorded, a count, and one operation at a time (grant, commit, revoke) that may
break off anywhere. It knows no conditions, caches, versions, queue or retries.
`Refinement` maps the controller to it: `grants` is `rbac`, the operation is read
off `pc`, and a status update that carries a higher count is the commit.

### Abstractions

- Conditions are their types. Reasons, messages and observedGeneration steer
  nothing; a write that changes only those counts as no change, which leaves out
  one watch event (the first change of Pending from NewResource to
  WaitingForApproval).
- An informer jumps to the latest version: skipping intermediate versions only
  removes reconciles that would end in a conflict or repeat.
- `Get` is answered from the cache and does not fail. Every error of a `List`
  is wrapped as retryable by the code, so one is enough.
- Rate-limited requeues take any time: the key is put back and the worker may
  wait. Timers past the horizon count as falling on it.
- Times are whole units. The truncation of stored times to seconds is not
  modelled; a unit is at least that.
- `RevokeAndExpire`'s NotFound branch and the parse error of
  `OnActivationGranted` cannot be reached: Delete ignores NotFound, and a grant
  presupposes a parse.
- Only our finalizer exists. People set approvedBy, replace the conditions by one
  of the set `Patched`, edit the duration and delete. Edits of the roles, the cron
  expression or the start are left out.
- An RBAC object is its name. Its rules and subjects are not modelled, so neither
  is what happens when an object of that name exists with another content.
- The deployed role (`config/rbac/role.yaml`) is taken to allow the calls the
  code makes.

## What is checked

Deadlock is not checked: behind the horizon, and once the object is gone, the
system rests.

Bounds: `MaxTime` (horizon), `MaxFaults` (errors, lost answers, crashes),
`MaxPatches` (edits of the spec and patches of the conditions). They leave room
for two windows of a recurring schedule, a fault in each phase of a grant, of a
revocation or of a deletion, and an approval before, during and after a window.
`MinRequeue`, `MaxRequeue` and `Backoff` are 1, 3 and 1 (2, 3, 1 in `Timely`), so
that both ends of the clamp are met. One cluster role and one policy give one
object of each kind; runs that do not look at partial grants have the cluster
role only. In `Approval` the conditions are patched to Approved, as documented,
or to Failed, from which the Pending handler starts over; a recurring request
with the limit 0 is among its specs. `Windows` takes all sets of firings in 0..7
with one more beyond the horizon of 8, starts in 0..4, durations up to 3 and a
`Lookback` of 5, so that firings fall before, at and after the start, windows
overlap, and the look-back period ends inside the horizon; `MaxCount` (9) is never the reason an activation
is left out, as there are no more firings than that. `TwoManagers` goes to time
3. Its recurring requests, one without limit and one with the limit 1, have
windows of two units at 0 and at 2: both managers can activate in the first,
strictly inside it, and the second is open before the horizon. Its one-shot starts
at 2, so that it is approved before or after that.

| run | module | shows |
|---|---|---|
| `Approval` | `MCReconciler` | approval required; approvals, patches of the conditions, deletions and one fault anywhere, all caches lagging: `ApprovalGate`, `NotBeforeStart`, `CountWithinLimit`, `ApprovalNeverLost`, and the inductive `ApprovalInv` |
| `Lifecycle` | `MCReconciler` | every shape of schedule, approval, deletion and one fault anywhere: `ExpiredIsRevoked`, `DeletedActiveIsRevoked`, `ActivationIsReal`, `GrantOnSchedule`, `CleanedUpBeforeGone`, and `KeepsPromise`, the refinement |
| `Timely` | `MCReconciler` | a controller that keeps up (`Prompt`: time passes only when nothing is due, timers at most one unit late) with two faults and an edit of the duration: `RevokedInTime` |
| `Progress` | `MCReconciler` | under fairness, two transient faults or crashes: `AccessEnds`, `ApprovedIsActivated` |
| `Deletion` | `MCReconciler` | under fairness and resync, two transient faults or crashes: `DeletionCompletes` |
| `Windows` | `MCWindows` | the manager and the use cases agree: `SearchIsExact`, `DueWindowIsOpen`, `OpenWindowIsDue`, `OncePerWindow` |
| `TwoManagers` | `MCTwoManagers` | two managers, an approval, a fault: `ApprovalGate`, `CountWithinLimit`, `CountedOnce`, `ApprovalSurvives` |

Fairness: the worker (`Controller`) runs whenever it can, watches deliver, timers
fire and time passes. That is what controller-runtime's work queue, a live watch
and a clock provide. Nothing is assumed of people, faults or crashes. `Deletion`
also assumes that the informers resync again and again (`ResyncSpec`;
controller-runtime does so every ten hours): reconcileFinalizers answers a failed
cleanup with a RequeueAfter that Reconcile drops (`reconciler.go:188`), although
it logs "will retry", and for a terminal condition nothing else brings the object
back. Without resync or a restart TLC finds a deletion that never completes.

### What the runs assume

The approval gate stands as long as the conditions people patch in are
`Unprivileged`, that is, all but Active, RecurringActive and RecurringPending. The
handlers of these three take the approval for given, because the controller only
sets them after it: `recurring_pending.go:23-50` looks at the schedule only. With
RecurringPending in `Patched` TLC finds `ApprovalGate` violated, by a grant that
nobody approved and that records `system` as its approver. Who may patch the
status may also write approvedBy, so this takes no right an approver lacks.

`Approval` is the only run in which a List may see RBAC objects as they were
(`RbacLag`). With lagging lists TLC finds `CleanedUpBeforeGone`,
`ExpiredIsRevoked` and `KeepsPromise` violated: the cleanup misses a fresh grant,
and the object goes, or expires, with access in place. The other runs take lists
to be up to date.

Two managers without leader election keep the approval gate, the approvals and
the count, because status updates carry a version. They do not keep
`ExpiredIsRevoked`: one manager may still be creating RBAC objects, which carry
none, when the other has revoked and recorded Expired. Leader election is off by
default (the repository's README.md:312) while `installation.md:108`
(docs/getting-started) shows three replicas; the chart's values turn it on. Under
leader election a change of leader is a `Crash`.

`RevokedInTime` promises less after an edit: only access the status records as
RecurringActive, since an edit between the Create calls and the status update
makes that update conflict, and a window that is shorter by then may leave the
access unrecorded, as in `LostActivation`. The durations edited in are valid.
With 0 among them (invalid for a recurring schedule) `DeletionCompletes` fails:
`reconciler.go:184` refuses the object before its finalizer is looked at, and
neither the end of the window nor a deletion is acted on until the schedule is
repaired.

### Where code and documentation disagree

Each of these runs checks one property that a document, a comment or a message
of the code states, and TLC finds a behaviour of the code that violates it.

| run | what happens |
|---|---|
| `Reactivation` | a recurring Breakglass is activated once: `SetStatusCondition` updates in place, so RecurringActive stays last and keeps driving the controller |
| `GrantAfterGone` | after the finalizer is removed Reconcile goes on to the handler, which may grant |
| `PartialGrant` | a permanent error in the middle of a grant leaves what was created before it |
| `LostActivation` | a crash between the Create calls and the status update; at the end of the window nothing is revoked |
| `NeverFires` | a cron expression that never fires is activated at spec.start: `calculateNextActivation` (`manager.go:303`) replaces the zero time of the cron library, and never returns the nil its caller has an error for |

Disagreements that follow from one line of code and have no run of their own:

- the documented approval (`docs/getting-started/quick-start.md:56`) patches a
  condition only; `handlers/approved.go:24` wants status.approvedBy and goes back
  to Pending;
- without an approval stanza nobody is asked (`handlers/pending.go:59`), where
  README.md:572 says approval "defaults to required: true";
- a duration longer than the distance of two firings is accepted
  (`reconciler.go:184`), where Design.md:85 says it should fail;
- an empty schedule is refused (`reconciler.go:166`), where Design.md:7 gives it
  unlimited duration;
- `createdResources` is never cleared (`operator.go:222`), so a second grant after
  a revocation would create nothing;
- a test names maxActivations 0 "unlimited" (`manager_test.go:228`), but the use
  cases (`usecase.go:45`) and the API documentation (`breakglass_spec.go:74`) make it
  a limit of zero, as the model does; the test asserts nothing that tells;
- a missed activation "reschedules to next window" (`manager_test.go:145`), but in
  memory only: each look finds the old nextActivationAt missed again and plans the
  next firing strictly after the present (`manager.go:126-147`), so that no firing
  is ever due.

`AccessEnds` thus holds for one-shot schedules under transient faults and
crashes (`Progress`) and fails for permanent errors and for recurring schedules
(`PartialGrant`, `LostActivation`).

About schedules the runs also settle what to expect: an activation planned at
the very instant of a firing waits for the next one when it is the first look at
the schedule (`handleInitialActivation` wants the present strictly after the
firing); once a stored plan has been missed, which takes a crash or an
error between the recording of the created resources and that of the activation,
the recurring Breakglass is not activated any more; a one-shot may be granted
late, after its window, and is then revoked at the next requeue.

## What is proved

From the assumptions on the constants that `Schedule`, `RbacResources`,
`Cluster` and `Reconciler` name (naturals, Booleans, well-formed initial specs;
nothing bounds the number of roles, policies, firings or faults):

- `TypeCorrect`: `Spec => []TypeOK`. One lemma per operator that builds a
  Breakglass, one per way a step of a reconcile can end (`Return`, `Goto`,
  `UpdateStatus`, ...), one per action.
- `ApprovalInvariant`, `ApprovalGateHolds`, `ApprovalNeverLostHolds`, when patches
  leave an `Unprivileged` condition (`Guarded`; any number of patches, to any of the
  six conditions). The gate is not inductive: a grant is decided on a copy and
  carried out several calls later. `ApprovalInv` adds that no copy shows an approval the API server has not
  got; that a copy which may still be written shows the one it has got (so a
  write cannot erase it: an approval changes the version of the object); that a
  request without its approval only ever carries `Unprivileged` conditions, so that
  neither the handlers of later conditions nor the automatic approver `system` can
  be reached; and that whoever is past the checks holds a cleared copy. The proof follows the split: `WorkingStep` is what every step
  does to the working copy, `StoredKept` what every write does to the stored
  object.
- `CountWithinLimitHolds`: a reconcile decides on a copy, creates for a while and
  then writes the count plus one. No freshness of any copy is needed: the
  invariant (`CountInv`) says that every copy, stored, cached or working, is within
  the limit, that all of them share the terms nobody edits, and that a grant is
  only in progress with room for one more in its own copy.
- `NotBeforeStartHolds`: the start may be defaulted, and a reconcile sees its own
  default until the update that adds the finalizer stores it. The invariant
  (`StartInv`) says that a copy with a default of its own never gets to the
  handlers, that stored, cached and working starts agree from then on, and that
  whoever is past ShouldActivate has a start that has come.
- `AccessIsSafe`: the abstract specification implies its own promises, `Safe`.

But for `Guarded` these need no hypothesis beyond the named assumptions. The
following do, and each says which; the runs that check the same properties satisfy
it. `Unforged` says that nobody patches in RecurringActive or Expired.

- `ExpiredIsRevokedHolds`, `DeletedActiveIsRevokedHolds`,
  `CleanedUpBeforeGoneHolds`, when lists are up to date (`~RbacLag`) and `Unforged`:
  with lagging lists they are false, as they are of an Expired somebody patched
  in. A cleanup takes a List and several Deletes per kind, and in between the copy
  it works on grows old. `CopyInv` says what the three copies
  still share (the finalizer once added, the deletion once asked for, which
  conditions a copy may be at while a call is under way), `RevokeInv` that the
  kinds before the one at hand have been emptied, that what is still to be
  deleted covers the rest, and that once a request is over no copy is left from
  which a handler would grant again. The last part is what carries the
  theorems: expiry is recorded by one reconcile, and a cache a reconcile later
  still shows the Breakglass before it.
- `ActivationIsRealHolds`, `ActivatedOnce`, when nobody patches the conditions. An
  activation is counted several calls after the objects were created, maybe by
  another reconcile after a crash or a lost answer, and `createdResources` decides
  what is created again. `RealInv` says that what is recorded as created is there
  until the request is activated or deleted, that a reconcile past GrantAccess
  has all of it, and that a count is 1 exactly when RecurringActive is in the
  list. Hence `ActivatedOnce`: the count never exceeds one, for every schedule.
  That is the disagreement the run `Reactivation` exhibits on an instance. With
  patches a Breakglass can be brought back to Approved and this no longer holds.
- `GrantOnScheduleHolds`, when some firing lies beyond the horizon
  (`FiringsGoOn`; without it the code takes a zero time for the next firing, see
  `NeverFires`), the spec is not edited, and `Unforged`. `ScheduleInv` says that every copy has
  the spec it was created with, up to the defaulted start, and that what is
  planned is a firing, the start or nothing; `DueInWindow` derives from it that
  what ShouldActivate lets through is in a window, whichever branch of
  ProcessRecurring planned it.
- `KeepsPromiseHolds`: `Spec => KeepsPromise`, the refinement, under all of the
  above and when windows are shorter than the look-back period (`Promising`).
  The invariant is the conjunction of those of the other theorems. There is one
  lemma per action. Begin, the runtime and most errors are stutters; AddFinalizer
  and DropFinalizer are changes of the request; Dispatch starts a grant or a
  revocation, and its lemma needs the approval, the limit, the start and the
  window of the stored request from a copy that may be old; Create and
  RecordResources are steps of a grant; Activate prepares the commit and
  WriteStatus carries it out, or finishes the request, which needs that nothing
  is left; a conflict, an error or a crash breaks the operation off. The look-back
  period matters where a window is over: the end that RecurringActive computes
  is that of the last firing found, and beyond the period it is not found.
  With `AccessIsSafe`, the promises of the abstract specification are those of
  the controller.

`WindowsProofs` is about `Windows`, for every set of firings, schedule and
look-back period:

- `SearchIsExactHolds`: the loop of `findPrevActivation` finds the last firing of
  the look-back period. `SearchFrom` is a recursive function, that is, a CHOOSE of
  a function that satisfies an equation; `LoopIsFound` exhibits one that does, in
  closed form, and `LoopIsUnique` shows, from the greatest point of disagreement,
  that there is no other. Induction principles cannot be instantiated here, but
  this one needs only that a set of naturals has a least element.
- `DueWindowIsOpenHolds`, `OncePerWindowHolds`, when a cron expression that fires
  goes on firing beyond the horizon (`Regular`) and recurring schedules have a
  duration (`Validated`: Reconcile refuses others). `ProcessPlans` reduces the
  branches of ProcessRecurring to the plan they leave; `PlanInv` says that the
  plan is a firing, the start or nothing, so that a plan that is due lies in the
  window the use cases find from the firings alone; `AheadInv` that after an
  activation at time t the plan is a firing later than t, or the limit is reached.
- `OpenWindowIsDueHolds`, with `Regular` and windows not longer than the look-back
  period (`ShortWindows`; a year in the code): the firing of a longer window would
  not be found. It needs no invariant beyond the types.

The inductive invariants were checked by TLC before they were proved;
`ApprovalInv` is kept in the run `Approval`.

Only model-checked: `RevokedInTime` (it rests on a controller that keeps up, and on
every delay a handler returns), the properties of `TwoManagers`, and all liveness:
`AccessEnds`, `ApprovedIsActivated`, `DeletionCompletes`. Liveness under fairness is
out of the prover's reach.

## Not modelled

- Location cache: idempotent lookups behind a lock, and one worker.
- Telemetry, alerting (a stub no handler calls), charts and the documentation
  site: output or wiring without state of the protocol. The only JavaScript in
  the repository, `site/assets/javascripts/lunr`, is third-party code (Thai and
  Japanese word segmenters of the site's search box) that the operator, a Go
  program, has no part in.
- Configuration: parsing of files, flags and environment. The manager does not
  hand its configuration to the controller, whose backoff is always the default.
- `ValidateAccess`, `ShouldDeactivate` and `MapK8sErrorToRBACError` have no caller.
- Contents of RBAC objects, edits of anything but the duration, time zones
  (instants are compared, whatever their zone).

## Plan

Done: the controller and its environment; its runs; the abstract specification
and the refinement; the schedule on all small patterns of firings; two managers;
edits of the duration; proofs of types, approval, limit, start, revocation,
activation and schedule for one controller, of the refinement, and of the
properties of `Windows`.

Left: the safety of two managers (the approval gate, the approvals and the
count), from the invariants of one with a second set of copies. `RevokedInTime`
would need an invariant about which timers are pending in each state.
