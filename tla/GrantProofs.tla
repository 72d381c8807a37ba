---------------------------- MODULE GrantProofs ----------------------------
(***************************************************************************)
(* Granting, proved for every value of the constants: an activation that   *)
(* is counted is one whose RBAC objects all exist, and a recurring request *)
(* is granted in its windows only.  Each holds under the condition on what *)
(* people do without which the runs find it violated.                      *)
(***************************************************************************)
EXTENDS RevokeProofs, WellFoundedInduction

USE DEF NoTime, NoMax

-----------------------------------------------------------------------------
(* What is created.                                                        *)

\* A Role and its RoleBinding are created together, so that nothing is left to
\* create exactly when everything is recorded.
LEMMA ToCreateFacts ==
    /\ ToCreate({}) = Resources
    /\ ToCreate(Resources) = {}
<1>1. ToCreate({}) = Resources
  BY DEF ToCreate
<1>2. ASSUME NEW r \in Resources, Kind(r) # "ClusterRoleBinding"
      PROVE  Partner(r) \in Resources
  BY <1>2, ResourcesAssumption DEF Resources, Kind, Partner
<1> QED
  BY <1>1, <1>2 DEF ToCreate

-----------------------------------------------------------------------------
(* Activations.  Nobody resets the conditions, so RecurringPending, once   *)
(* an activation has been counted, is never the current one again.         *)

Once(x) ==
    /\ x.status.count <= 1
    /\ x.status.count > 0 <=> Has(x, "RecurringActive")
    /\ Has(x, "RecurringActive") =>
           Has(x, "RecurringPending") /\ Last(x) # "RecurringPending"
    /\ ~Has(x, "Active")
    /\ x.status.created \in {{}, Resources}

\* The informer's copy lags behind; what is recorded is there until the request
\* has been activated or deleted.
StoredReal ==
    /\ Once(obj) /\ Once(cache)
    /\ cache.status.count <= obj.status.count
    /\ cache.status.created \subseteq obj.status.created
    /\ obj.status.count = 0 /\ ~obj.deleting => obj.status.created \subseteq rbac

\* What a status update may add to the stored status: an activation, or, when
\* the update that records the created resources has failed, those.
Reported ==
    /\ ~(bg.status.created \subseteq obj.status.created) =>
           /\ bg.status.count <= obj.status.count /\ rbac = Resources
           /\ Last(bg) # "Expired"
    /\ bg.status.count > obj.status.count =>
           /\ bg.status.created = Resources /\ Last(bg) # "Expired"
           /\ ~obj.deleting => rbac = Resources
    /\ Last(bg) = "Expired" => bg.status.count > 0

\* The working copy lags behind too, except for what its reconcile has just
\* created or counted.
WorkingReal ==
    pc # "idle" =>
        /\ Once(bg)
        /\ bgFresh => /\ obj.status.count <= bg.status.count
                      /\ obj.status.created \subseteq bg.status.created
        /\ pc # "status" => bg.status.count <= obj.status.count
        /\ pc \notin {"record", "status"} =>
               bg.status.created \subseteq obj.status.created
        /\ pc = "create" => bg.status.created = {} /\ rbac \cup todo = Resources
        /\ pc = "record" => bg.status.created = Resources /\ rbac = Resources
        /\ pc = "activate" =>
               /\ bg.status.created = Resources
               /\ obj.status.count = 0 /\ ~obj.deleting => rbac = Resources
        /\ pc = "status" => Reported

RealInv == StoredReal /\ WorkingReal

-----------------------------------------------------------------------------
\* Once depends on three fields of the status.
LEMMA OnceSame ==
    ASSUME NEW x, NEW y, Once(x), y.status.conds = x.status.conds,
           y.status.count = x.status.count, y.status.created = x.status.created
    PROVE  Once(y)
<1>1. Last(x) = Last(y) /\ \A d : Has(x, d) <=> Has(y, d)
  BY SameConditions
<1> QED
  BY <1>1 DEF Once

\* A condition other than the active ones may be recorded at any time.
LEMMA OncePlanned ==
    ASSUME NEW b \in Breakglasses, Once(b),
           NEW c \in ConditionTypes \ {"Active", "RecurringActive"}
    PROVE  Once(SetCondition(b, c))
<1> DEFINE y == SetCondition(b, c)
<1>1. /\ y.status.count = b.status.count /\ y.status.created = b.status.created
      /\ Has(b, c) => Last(y) = Last(b)
      /\ ~Has(b, c) => Last(y) = c
      /\ \A d : Has(y, d) <=> Has(b, d) \/ d = c
  BY SetConditionEffect DEF Replans, Carries
<1> HIDE DEF y
<1>2. Has(y, "RecurringActive") <=> Has(b, "RecurringActive")
  BY <1>1
<1>3. ~Has(y, "Active")
  BY <1>1 DEF Once
<1>4. Has(y, "RecurringActive") => Has(y, "RecurringPending") /\ Last(y) # "RecurringPending"
  BY <1>1, <1>2 DEF Once
<1> QED
  BY <1>1, <1>2, <1>3, <1>4 DEF Once, y

\* A copy waiting for an activation has not had one.
LEMMA WaitingIsUncounted ==
    ASSUME NEW b \in Breakglasses, Once(b), Last(b) = "RecurringPending"
    PROVE  /\ b.status.count = 0 /\ Has(b, "RecurringPending")
           /\ ~Has(b, "RecurringActive")
<1>1. b.status.count \in Nat
  BY DEF Breakglasses, Statuses
<1>2. Has(b, "RecurringPending")
  BY LastHas DEF ConditionTypes
<1>3. ~Has(b, "RecurringActive") /\ ~(b.status.count > 0)
  BY DEF Once
<1> QED
  BY <1>1, <1>2, <1>3

\* An active copy has been counted.
LEMMA ActiveIsCounted ==
    ASSUME NEW b \in Breakglasses, Once(b), Last(b) \in {"Active", "RecurringActive"}
    PROVE  b.status.count > 0
BY LastHas DEF Once, ConditionTypes

-----------------------------------------------------------------------------
(* The steps of a reconcile.                                               *)

\* A handler that records a condition other than an activation.
LEMMA ReportReal ==
    ASSUME TypeOK, RealInv, pc \notin {"idle", "record", "status"},
           UNCHANGED <<obj, bgFresh>>,
           NEW b, Replans(b, bg), b.status.conds = bg.status.conds,
           NEW c \in ConditionTypes \ {"Active", "RecurringActive"},
           pc' = "status", bg' = SetCondition(b, c),
           Last(bg') = "Expired" => bg.status.count > 0
    PROVE  WorkingReal'
<1>1. b \in Breakglasses
  BY DEF Replans, Carries
<1>2. Once(b)
  BY OnceSame DEF RealInv, WorkingReal, Replans, Carries
<1>3. Once(bg')
  BY <1>1, <1>2, OncePlanned
<1>4. /\ bg'.status.count = bg.status.count
      /\ bg'.status.created = bg.status.created
  BY <1>1, SetConditionEffect DEF Replans, Carries
<1>5. /\ obj.status.count \in Nat /\ bg.status.count \in Nat
  BY DEF TypeOK, ClusterTypeOK, LocalTypeOK, Breakglasses, Statuses
<1>6. Reported'
  BY <1>4, <1>5 DEF RealInv, WorkingReal, Reported
<1>7. bgFresh' => /\ obj'.status.count <= bg'.status.count
                  /\ obj'.status.created \subseteq bg'.status.created
  BY <1>4 DEF RealInv, WorkingReal
<1> QED
  BY <1>3, <1>6, <1>7 DEF WorkingReal, Once, Has, Last, CurrentCondition

\* A reconcile that reads and deletes keeps its copy.
LEMMA ReadReal ==
    ASSUME RealInv, pc \notin {"idle", "record", "status"},
           UNCHANGED <<obj, bgFresh, bg>>, pc' \in ReadCalls
    PROVE  WorkingReal'
BY DEF RealInv, WorkingReal, ReadCalls, Once, Has, Last, CurrentCondition

\* Only what has been activated or deleted is revoked.
LEMMA CleanupReal ==
    ASSUME TypeOK, CopyInv, RealInv, List \/ DeleteResource
    PROVE  RealInv'
<1>1. /\ UNCHANGED <<obj, cache, bgFresh>> /\ pc \in {"list", "delete"}
      /\ bg \in Breakglasses /\ Replans(bg, bg)
  BY CarriesFacts DEF List, DeleteResource, TypeOK, LocalTypeOK
<1>2. caller # "expire" => obj.deleting
  BY <1>1 DEF CopyInv, WorkingCopy
<1>3. caller = "expire" => bg.status.count > 0 /\ Last(bg) # "Expired"
  BY <1>1, ActiveIsCounted DEF CopyInv, WorkingCopy, RealInv, WorkingReal
<1>4. obj.deleting \/ obj.status.count # 0
  <2>1. obj.status.count \in Nat /\ bg.status.count \in Nat
    BY DEF TypeOK, ClusterTypeOK, LocalTypeOK, Breakglasses, Statuses
  <2>2. bg.status.count <= obj.status.count
    BY <1>1 DEF RealInv, WorkingReal
  <2> QED
    BY <1>2, <1>3, <2>1, <2>2
<1>5. StoredReal'
  BY <1>1, <1>4 DEF RealInv, StoredReal, Once, Has, Last, CurrentCondition
<1>6. KindDone \/ (\E o : CleanupFailed(o)) \/ Goto("delete", bg)
  BY DEF List, DeleteResource
<1>7. CASE pc' = "idle"
  BY <1>5, <1>7 DEF RealInv, WorkingReal
<1>8. CASE pc' \in ReadCalls /\ bg' = bg
  BY <1>1, <1>5, <1>8, ReadReal DEF RealInv
<1>9. CASE caller = "expire" /\ Reports("Failed")
  BY <1>1, <1>3, <1>5, <1>9, ReportReal DEF Reports, RealInv, ConditionTypes
<1>10. CASE caller = "expire" /\ Concludes
  <2>1. PICK b, c : /\ Replans(b, bg) /\ b.status.conds = bg.status.conds
                    /\ c \in {"RecurringPending", "Expired"}
                    /\ bg' = SetCondition(b, c)
    BY <1>10 DEF Concludes
  <2> QED
    BY <1>1, <1>3, <1>5, <1>10, <2>1, ReportReal
    DEF Concludes, RealInv, ConditionTypes
<1> QED
  BY <1>6, <1>7, <1>8, <1>9, <1>10, KindDoneMoves, CleanupFailedMoves
  DEF Goto, ReadCalls

\* The handlers, up to their first call.
LEMMA DispatchReal ==
    ASSUME TypeOK, CopyInv, RealInv, Dispatch
    PROVE  RealInv'
<1>1. /\ UNCHANGED <<obj, cache, bgFresh, rbac>> /\ pc = "dispatch"
      /\ bg \in Breakglasses /\ Replans(bg, bg) /\ Once(bg)
      /\ obj.status.created \subseteq Resources
      /\ rbac \subseteq Resources
  BY CarriesFacts DEF Dispatch, clusterVars, TypeOK, ClusterTypeOK, LocalTypeOK,
                      Breakglasses, Statuses, RealInv, WorkingReal
<1>2. StoredReal'
  BY <1>1 DEF RealInv, StoredReal, Once, Has, Last, CurrentCondition
<1>3. CASE pc' = "idle"
  BY <1>2, <1>3 DEF RealInv, WorkingReal
<1>4. CASE \E c \in {"Pending", "RecurringPending"} : Reports(c)
  <2>1. PICK c \in {"Pending", "RecurringPending"} : Reports(c)
    BY <1>4
  <2>2. pc' = "status" => Last(bg') # "Expired"
    BY NotYetExpired
  <2> QED
    BY <1>1, <1>2, <2>1, <2>2, ReportReal DEF Reports, RealInv, ConditionTypes
<1>5. CASE Expires
  BY <1>1, <1>2, <1>5, ReadReal DEF Expires, RealInv, ReadCalls
<1>6. CASE Grants
  <2>1. /\ Once(bg') /\ bg'.status.count = bg.status.count
        /\ bg'.status.created = bg.status.created
        /\ pc' \in {"create", "activate"}
        /\ todo' = ToCreate(bg.status.created)
        /\ pc' = "activate" <=> todo' = {}
    BY <1>1, <1>6, OnceSame DEF Grants, Replans, Carries
  <2>2. /\ bg.status.created \subseteq obj.status.created
        /\ bg.status.created \in {{}, Resources}
    BY <1>1 DEF RealInv, WorkingReal, Once
  <2>3. CASE pc' = "create"
    <3>1. bg.status.created = {} /\ todo' = Resources
      BY <2>1, <2>2, <2>3, ToCreateFacts
    <3>2. rbac' \cup todo' = Resources
      BY <1>1, <3>1
    <3> QED
      BY <1>1, <1>2, <2>1, <2>2, <2>3, <3>1, <3>2
      DEF RealInv, WorkingReal, Once, Has, Last, CurrentCondition
  <2>4. CASE pc' = "activate"
    <3>1. bg.status.created = Resources
      BY <2>1, <2>2, <2>4, ToCreateFacts
    <3>2. obj.status.count = 0 /\ ~obj.deleting => rbac = Resources
      BY <1>1, <2>2, <3>1 DEF RealInv, StoredReal
    <3> QED
      BY <1>1, <1>2, <2>1, <2>2, <2>4, <3>1, <3>2
      DEF RealInv, WorkingReal, Once, Has, Last, CurrentCondition
  <2> QED
    BY <2>1, <2>3, <2>4
<1> QED
  BY <1>3, <1>4, <1>5, <1>6, DispatchMoves

\* A Create call: the objects still to do are the ones that do not exist.
LEMMA CreateReal ==
    ASSUME TypeOK, CopyInv, RealInv, CreateResource
    PROVE  RealInv'
<1>1. /\ UNCHANGED <<obj, cache, bgFresh>> /\ pc = "create"
      /\ bg \in Breakglasses /\ Replans(bg, bg) /\ Once(bg)
      /\ bg.status.created = {} /\ rbac \cup todo = Resources
      /\ bg.status.count <= obj.status.count
      /\ obj.status.created \subseteq Resources
  BY CarriesFacts DEF CreateResource, TypeOK, ClusterTypeOK, LocalTypeOK,
                      Breakglasses, Statuses, RealInv, WorkingReal
<1>2. \E r \in todo : rbac' \in {rbac, rbac \cup {r}}
  BY CreateMoves
<1>3. StoredReal'
  BY <1>1, <1>2 DEF RealInv, StoredReal, Once, Has, Last, CurrentCondition
<1>4. CASE pc' = "idle"
  BY <1>3, <1>4 DEF RealInv, WorkingReal
<1>5. CASE Reports("Failed")
  <2>1. pc' = "status" => Last(bg') # "Expired"
    BY NotYetExpired
  <2> QED
    BY <1>1, <1>3, <1>5, <2>1, ReportReal DEF Reports, RealInv, ConditionTypes
<1>6. CASE /\ pc' = "create" /\ bg' = bg
           /\ \E r \in todo : rbac' = rbac \cup {r} /\ todo' = todo \ {r}
  BY <1>1, <1>3, <1>6 DEF RealInv, WorkingReal, Once, Has, Last, CurrentCondition
<1>7. CASE /\ pc' = "record"
           /\ \E r \in todo : rbac' = rbac \cup {r} /\ todo = {r}
           /\ bg' = [bg EXCEPT !.status.created = @ \cup ToCreate(@)]
  <2>1. /\ bg'.status.created = bg.status.created \cup ToCreate(bg.status.created)
        /\ bg'.status.count = bg.status.count /\ bg'.status.conds = bg.status.conds
    BY <1>1, <1>7 DEF Breakglasses, Statuses
  <2>2. bg'.status.created = Resources /\ rbac' = Resources
    BY <1>1, <1>7, <2>1, ToCreateFacts
  <2>3. Last(bg') = Last(bg) /\ \A d : Has(bg', d) <=> Has(bg, d)
    BY <2>1, SameConditions
  <2>4. Once(bg')
    BY <1>1, <2>1, <2>2, <2>3 DEF Once
  <2> QED
    BY <1>1, <1>3, <1>7, <2>1, <2>2, <2>4 DEF RealInv, WorkingReal
<1> QED
  BY <1>4, <1>5, <1>6, <1>7, CreateMoves

\* The activation is counted on a copy that shows everything as created.
LEMMA ActivateReal ==
    ASSUME TypeOK, CopyInv, RealInv, Activate
    PROVE  RealInv'
<1>1. /\ UNCHANGED <<obj, cache, bgFresh, rbac>> /\ pc = "activate"
      /\ bg \in Breakglasses /\ Once(bg) /\ Last(bg) = "RecurringPending"
      /\ bg.status.created = Resources
      /\ bg.status.created \subseteq obj.status.created
      /\ obj.status.count = 0 /\ ~obj.deleting => rbac = Resources
      /\ obj.status.count \in Nat
  BY DEF Activate, clusterVars, TypeOK, ClusterTypeOK, LocalTypeOK, Breakglasses,
         Statuses, CopyInv, WorkingCopy, GrantCalls, RealInv, WorkingReal
<1>2. StoredReal'
  BY <1>1 DEF RealInv, StoredReal, Once, Has, Last, CurrentCondition
<1>3. /\ bg.status.count = 0 /\ Has(bg, "RecurringPending")
      /\ ~Has(bg, "RecurringActive") /\ ~Has(bg, "Active")
  BY <1>1, WaitingIsUncounted DEF Once
<1>4. PICK b : /\ Carries(b, bg) /\ b.status.count = bg.status.count + 1
               /\ b.status.conds = bg.status.conds
               /\ bg' = SetCondition(b, "RecurringActive")
  BY <1>1, ActivateMoves
<1>5. /\ b \in Breakglasses /\ b.status.count = 1
      /\ b.status.created = Resources
      /\ \A d : Has(b, d) <=> Has(bg, d)
  BY <1>1, <1>3, <1>4, SameConditions DEF Carries
<1>6. /\ bg'.status.count = 1 /\ bg'.status.created = Resources
      /\ Last(bg') = "RecurringActive" /\ Has(bg', "RecurringActive")
      /\ Has(bg', "RecurringPending") /\ ~Has(bg', "Active")
  <2>1. /\ bg'.status.count = b.status.count /\ bg'.status.created = b.status.created
        /\ ~Has(b, "RecurringActive") => Last(bg') = "RecurringActive"
        /\ \A d : Has(bg', d) <=> Has(b, d) \/ d = "RecurringActive"
    BY <1>4, <1>5, SetConditionEffect DEF Replans, Carries, ConditionTypes
  <2> QED
    BY <1>3, <1>5, <2>1
<1>7. Once(bg')
  BY <1>6 DEF Once
<1>8. Reported'
  BY <1>1, <1>6 DEF Reported
<1>9. obj.status.count <= 1
  BY DEF RealInv, StoredReal, Once
<1>10. pc' = "status"
  BY <1>1, ActivateMoves
<1> QED
  BY <1>1, <1>2, <1>6, <1>7, <1>8, <1>9, <1>10 DEF RealInv, WorkingReal

\* A reconcile starts from the informer's copy.
LEMMA BeginReal ==
    ASSUME TypeOK, CopyInv, RealInv, Begin
    PROVE  RealInv'
<1>1. UNCHANGED <<obj, rbac, cache>> /\ bgFresh' = cacheFresh /\ pc = "idle"
  BY DEF Begin
<1>2. StoredReal'
  BY <1>1 DEF RealInv, StoredReal, Once, Has, Last, CurrentCondition
<1>3. CASE UNCHANGED recVars
  BY <1>1, <1>2, <1>3 DEF RealInv, WorkingReal, recVars
<1>4. CASE bg'.status = cache.status /\ pc' \in {"list", "dispatch", "addFinalizer"}
  <2>1. Once(bg')
    BY <1>4, OnceSame DEF RealInv, StoredReal
  <2>2. /\ bg'.status.count <= obj'.status.count
        /\ bg'.status.created \subseteq obj'.status.created
    BY <1>1, <1>4 DEF RealInv, StoredReal
  <2>3. bgFresh' => bg'.status = obj'.status
    BY <1>1, <1>4 DEF CopyInv, StoredCopies
  <2>4. obj'.status.count \in Nat
    BY <1>1 DEF TypeOK, ClusterTypeOK, Breakglasses, Statuses
  <2> QED
    BY <1>2, <1>4, <2>1, <2>2, <2>3, <2>4 DEF RealInv, WorkingReal
<1> QED
  BY <1>3, <1>4, BeginMoves

\* The finalizer comes and goes with the status as it is.
LEMMA FinalizerReal ==
    ASSUME TypeOK, RealInv, AddFinalizer \/ DropFinalizer
    PROVE  RealInv'
<1> DEFINE b == [bg EXCEPT !.finalizer = FALSE]
           added == [obj EXCEPT !.finalizer = TRUE, !.spec = bg.spec]
           dropped == [obj EXCEPT !.finalizer = FALSE, !.exists = FALSE,
                                  !.spec = bg.spec]
<1>1. /\ obj \in Breakglasses /\ bg \in Breakglasses
      /\ UNCHANGED <<cache, rbac>> /\ pc \in {"addFinalizer", "dropFinalizer"}
  BY DEF TypeOK, ClusterTypeOK, LocalTypeOK, AddFinalizer, DropFinalizer
<1>2. /\ added.status = obj.status /\ added.deleting = obj.deleting
      /\ dropped.status = obj.status /\ dropped.deleting = obj.deleting
      /\ b.status = bg.status
  BY <1>1 DEF Breakglasses
<1>3. \E o : /\ UpdateObj(added, o) \/ UpdateObj(dropped, o)
             /\ \/ pc' = "idle"
                \/ o = "ok" /\ pc' = "dispatch" /\ bg' = b
  BY DEF AddFinalizer, DropFinalizer, Goto, Return, Ended
<1> HIDE DEF added, dropped, b
<1>4. /\ obj'.status = obj.status /\ obj'.deleting = obj.deleting
      /\ pc' = "idle" \/ (pc' = "dispatch" /\ bg'.status = bg.status /\ bgFresh)
  BY <1>2, <1>3, UpdateObjMoves
<1>5. Once(obj') /\ StoredReal'
  <2>1. Once(obj') /\ Once(cache')
    BY <1>1, <1>4, OnceSame DEF RealInv, StoredReal
  <2> QED
    BY <1>1, <1>4, <2>1 DEF RealInv, StoredReal
<1>6. CASE pc' = "idle"
  BY <1>5, <1>6 DEF RealInv, WorkingReal
<1>7. CASE pc' = "dispatch" /\ bg'.status = bg.status /\ bgFresh
  <2>1. Once(bg')
    BY <1>1, <1>7, OnceSame DEF RealInv, WorkingReal
  <2> QED
    BY <1>1, <1>4, <1>5, <1>7, <2>1 DEF RealInv, WorkingReal
<1> QED
  BY <1>4, <1>6, <1>7

\* A status update is accepted from a copy that is not behind, and what it adds
\* to the stored status is true.
LEMMA StatusReal ==
    ASSUME TypeOK, CopyInv, RealInv, RecordResources \/ WriteStatus
    PROVE  RealInv'
<1> DEFINE new == [obj EXCEPT !.status = bg.status]
<1>1. /\ obj \in Breakglasses /\ bg \in Breakglasses /\ cache \in Breakglasses
      /\ UNCHANGED <<cache, rbac>> /\ pc \in {"record", "status"}
      /\ Once(bg)
      /\ pc = "status" => Reported
      /\ pc = "record" => bg.status.created = Resources /\ rbac = Resources
      /\ obj.status.count \in Nat /\ bg.status.count \in Nat
      /\ cache.status.count \in Nat /\ bg.status.created \subseteq Resources
  BY DEF TypeOK, ClusterTypeOK, LocalTypeOK, RecordResources, WriteStatus,
         RealInv, WorkingReal, Breakglasses, Statuses
<1>2. new.status = bg.status /\ new.deleting = obj.deleting
  BY <1>1 DEF Breakglasses
<1>3. PICK o : /\ UpdateObj(new, o)
               /\ \/ pc' = "idle"
                  \/ /\ pc = "record"
                     /\ \/ o = "ok" /\ pc' = "activate" /\ bg' = new
                        \/ o # "ok" /\ Reports("Failed")
  BY DEF RecordResources, WriteStatus, Goto, Return, ReturnUntil, Ended,
         UpdateStatus, Reports, IsRetryable, IsRetryableK8sError
<1>4. /\ \/ obj' = obj
         \/ obj' = new /\ bgFresh
      /\ o = "ok" => obj' = new
      /\ bgFresh' /\ o # "ok" => bgFresh /\ obj' = obj
  BY <1>3, UpdateObjMoves
<1> HIDE DEF new
<1>5. StoredReal'
  <2>1. CASE obj' = obj
    BY <1>1, <2>1 DEF RealInv, StoredReal, Once, Has, Last, CurrentCondition
  <2>2. CASE obj' = new /\ bgFresh
    <3>1. /\ obj'.status = bg.status /\ obj'.deleting = obj.deleting
          /\ obj.status.count <= bg.status.count
          /\ obj.status.created \subseteq bg.status.created
      BY <1>1, <1>2, <2>2 DEF RealInv, WorkingReal
    <3>2. Once(obj') /\ Once(cache')
      BY <1>1, <3>1, OnceSame DEF RealInv, StoredReal
    <3>3. /\ cache'.status.count <= obj'.status.count
          /\ cache'.status.created \subseteq obj'.status.created
      BY <1>1, <3>1 DEF RealInv, StoredReal
    <3>4. obj'.status.count = 0 /\ ~obj'.deleting => obj'.status.created \subseteq rbac'
      BY <1>1, <3>1 DEF RealInv, StoredReal, Reported
    <3> QED
      BY <3>2, <3>3, <3>4 DEF StoredReal
  <2> QED
    BY <1>4, <2>1, <2>2
<1>6. CASE pc' = "idle"
  BY <1>5, <1>6 DEF RealInv, WorkingReal
<1>7. CASE pc = "record" /\ o = "ok" /\ pc' = "activate" /\ bg' = new
  <2>1. /\ bg' = obj' /\ bg'.status.created = Resources /\ rbac' = Resources
        /\ bg'.status.count \in Nat
    BY <1>1, <1>2, <1>4, <1>7
  <2>2. Once(bg')
    BY <1>1, <1>2, <1>7, OnceSame
  <2> QED
    BY <1>5, <1>7, <2>1, <2>2 DEF RealInv, WorkingReal
<1>8. CASE pc = "record" /\ o # "ok" /\ Reports("Failed")
  <2>1. Last(bg) = "RecurringPending" /\ bg.status.count <= obj.status.count
    BY <1>1, <1>8 DEF CopyInv, WorkingCopy, GrantCalls, RealInv, WorkingReal
  <2>2. /\ pc' = "status" /\ Last(bg') \in {"Failed", "RecurringPending"}
        /\ bg'.status.count = bg.status.count
        /\ bg'.status.created = Resources /\ Once(bg')
    BY <1>1, <1>8, <2>1, SetConditionEffect, OncePlanned
    DEF Reports, Replans, Carries, ConditionTypes
  <2>3. bg'.status.count <= obj'.status.count
    BY <1>1, <1>2, <1>4, <2>1, <2>2
  <2>4. bgFresh' => /\ obj'.status.count <= bg'.status.count
                    /\ obj'.status.created \subseteq bg'.status.created
    BY <1>1, <1>4, <1>8, <2>2 DEF RealInv, WorkingReal
  <2>5. obj'.status.count \in Nat /\ bg'.status.count \in Nat
    BY <1>1, <1>2, <1>4, <2>2
  <2>6. Reported'
    BY <1>1, <1>8, <2>2, <2>3, <2>5 DEF Reported, Last, CurrentCondition
  <2> QED
    BY <1>5, <2>2, <2>4, <2>6 DEF RealInv, WorkingReal
<1> QED
  BY <1>3, <1>6, <1>7, <1>8

\* Without patches of the conditions, people leave activations and records
\* alone.
LEMMA UserReal ==
    ASSUME TypeOK, RealInv, "patch" \notin UserOps, UserStep
    PROVE  RealInv'
<1>1. /\ obj \in Breakglasses
      /\ UNCHANGED <<cache, rbac, pc, bg, todo>>
  BY DEF TypeOK, ClusterTypeOK, UserStep, User, Approve, PatchConditions, Edit, Delete,
         recVars
<1>2. bgFresh' => bgFresh
  <2>1. \E new : Store(new, FALSE)
    BY DEF UserStep, User, Approve, PatchConditions, Edit, Delete
  <2> QED
    BY <2>1, StoreFacts
<1>3. /\ obj'.status.conds = obj.status.conds
      /\ obj'.status.count = obj.status.count
      /\ obj'.status.created = obj.status.created
      /\ obj.deleting => obj'.deleting
  <2>1. CASE Approve
    BY <1>1, <2>1 DEF Approve, Store, Breakglasses, Statuses
  <2>2. CASE Edit
    <3>1. PICK d \in Durations : obj' = [obj EXCEPT !.spec.duration = d]
      BY <2>2 DEF Edit, Store
    <3> QED
      BY <1>1, <3>1 DEF Breakglasses, Specs
  <2>3. CASE Delete
    <3>1. \/ obj' = [obj EXCEPT !.deleting = TRUE]
          \/ obj' = [obj EXCEPT !.deleting = TRUE, !.exists = FALSE]
      BY <2>3 DEF Delete, Store
    <3> QED
      BY <1>1, <3>1 DEF Breakglasses
  <2> QED
    BY <2>1, <2>2, <2>3 DEF UserStep, User, PatchConditions
<1>4. Once(obj')
  BY <1>3, OnceSame DEF RealInv, StoredReal
<1>5. StoredReal'
  BY <1>1, <1>3, <1>4 DEF RealInv, StoredReal, Once, Has, Last, CurrentCondition
<1>6. Reported => Reported'
  BY <1>1, <1>3 DEF Reported, Last, CurrentCondition
<1>7. WorkingReal'
  BY <1>1, <1>2, <1>3, <1>6
  DEF RealInv, WorkingReal, Once, Has, Last, CurrentCondition
<1> QED
  BY <1>5, <1>7 DEF RealInv

\* Watches, timers, crashes and the clock change no stored object.
LEMMA RuntimeReal ==
    ASSUME TypeOK, RealInv,
           WatchEvent \/ WatchRbac \/ FireTimer \/ Resync \/ Crash \/ Tick
    PROVE  RealInv'
<1>1. /\ UNCHANGED <<obj, rbac>>
      /\ cache' \in {cache, obj}
      /\ UNCHANGED <<pc, bg, todo, bgFresh>> \/ pc' = "idle"
  BY DEF WatchEvent, DeliverObj, WatchRbac, DeliverRbac, FireTimer, Resync, Crash,
         Ended, Tick, clusterVars, recVars
<1>2. obj.status.count \in Nat
  BY DEF TypeOK, ClusterTypeOK, Breakglasses, Statuses
<1>3. StoredReal'
  BY <1>1, <1>2 DEF RealInv, StoredReal, Once, Has, Last, CurrentCondition
<1>4. WorkingReal'
  BY <1>1 DEF RealInv, WorkingReal, Reported, Once, Has, Last, CurrentCondition
<1> QED
  BY <1>3, <1>4 DEF RealInv

\* A fresh Breakglass reports nothing.
LEMMA InitReal == Init => RealInv
<1> SUFFICES ASSUME Init PROVE RealInv
  OBVIOUS
<1>1. cache = obj /\ rbac = {} /\ pc = "idle"
  BY DEF Init, ClusterInit
<1>2. /\ obj.status.conds = << >> /\ obj.status.count = 0
      /\ obj.status.created = {}
  <2>1. PICK spec \in InitSpecs : obj = NewBreakglass(spec)
    BY DEF Init, ClusterInit
  <2>2. obj.status.conds = << >>
    BY <2>1 DEF NewBreakglass, NewStatus
  <2>3. obj.status.count = 0 /\ obj.status.created = {}
    BY <2>1 DEF NewBreakglass, NewStatus
  <2> QED
    BY <2>2, <2>3
<1>3. \A c : ~Has(obj, c)
  BY <1>2 DEF Has
<1>4. Once(obj)
  BY <1>2, <1>3 DEF Once
<1> QED
  BY <1>1, <1>2, <1>4 DEF RealInv, StoredReal, WorkingReal

\* Every step keeps what the status says borne out by the RBAC objects.
LEMMA NextReal ==
    ASSUME "patch" \notin UserOps
    PROVE  TypeOK /\ CopyInv /\ RealInv /\ [Next]_vars => RealInv'
<1> SUFFICES ASSUME TypeOK, CopyInv, RealInv, [Next]_vars PROVE RealInv'
  OBVIOUS
<1>1. CASE UNCHANGED vars
  <2>1. UNCHANGED <<obj, cache, rbac, pc, bg, todo, bgFresh>>
    BY <1>1 DEF vars, clusterVars, recVars
  <2> QED
    BY <2>1 DEF RealInv, StoredReal, WorkingReal, Reported, Once, Has, Last,
                CurrentCondition
<1> QED
  BY <1>1, BeginReal, FinalizerReal, CleanupReal, DispatchReal, CreateReal,
     ActivateReal, StatusReal, UserReal, RuntimeReal DEF Next, Controller

\* When nobody patches the conditions, an activation is only counted while all
\* RBAC objects exist, whatever was created before, by which reconcile, and
\* whichever answers got lost.
THEOREM ActivationIsRealHolds ==
    ASSUME "patch" \notin UserOps
    PROVE  Spec => ActivationIsReal
<1>1. ASSUME TypeOK, CopyInv, RealInv, [Next]_vars
      PROVE  [obj'.status.count > obj.status.count /\ ~obj'.deleting
                  => rbac = Resources]_vars
  <2> SUFFICES ASSUME Next, obj'.status.count > obj.status.count, ~obj'.deleting
               PROVE  rbac = Resources
    BY <1>1
  <2>1. obj \in Breakglasses /\ obj.status.count \in Nat /\ bg.status.count \in Nat
    BY <1>1 DEF TypeOK, ClusterTypeOK, LocalTypeOK, Breakglasses, Statuses
  <2>2. obj' # obj
    BY <2>1
  <2>3. CASE RecordResources \/ WriteStatus
    <3> DEFINE new == [obj EXCEPT !.status = bg.status]
    <3>1. new.status = bg.status /\ new.deleting = obj.deleting
      BY <2>1 DEF Breakglasses
    <3>2. pc \in {"record", "status"} /\ \E o : UpdateObj(new, o)
      BY <2>3 DEF RecordResources, WriteStatus
    <3> HIDE DEF new
    <3>3. obj'.status = bg.status /\ obj'.deleting = obj.deleting
      BY <2>2, <3>1, <3>2, UpdateObjMoves
    <3> QED
      BY <1>1, <2>1, <3>2, <3>3 DEF RealInv, WorkingReal, Reported
  <2>4. CASE AddFinalizer \/ DropFinalizer
    <3> DEFINE added == [obj EXCEPT !.finalizer = TRUE, !.spec = bg.spec]
               dropped == [obj EXCEPT !.finalizer = FALSE, !.exists = FALSE,
                                      !.spec = bg.spec]
    <3>1. added.status = obj.status /\ dropped.status = obj.status
      BY <2>1 DEF Breakglasses
    <3>2. \E o : UpdateObj(added, o) \/ UpdateObj(dropped, o)
      BY <2>4 DEF AddFinalizer, DropFinalizer
    <3> HIDE DEF added, dropped
    <3> QED
      BY <2>1, <2>2, <3>1, <3>2, UpdateObjMoves
  <2>5. CASE UserStep
    <3>1. obj'.status.count = obj.status.count
      <4>1. CASE Approve
        BY <2>1, <4>1 DEF Approve, Store, Breakglasses, Statuses
      <4>2. CASE PatchConditions
        BY <4>2 DEF PatchConditions
      <4>3. CASE Edit
        BY <2>1, <4>3 DEF Edit, Store, Breakglasses
      <4>4. CASE Delete
        BY <2>1, <4>4 DEF Delete, Store, Breakglasses
      <4> QED
        BY <2>5, <4>1, <4>2, <4>3, <4>4 DEF UserStep, User
    <3> QED
      BY <2>1, <3>1
  <2>6. CASE UNCHANGED obj
    BY <2>2, <2>6
  <2> QED
    BY <2>3, <2>4, <2>5, <2>6
    DEF Next, Controller, Begin, List, DeleteResource, CreateResource, Activate,
        Dispatch, WatchEvent, DeliverObj, WatchRbac, DeliverRbac, FireTimer, Resync,
        Crash, Tick, clusterVars
<1>2. Unforged
  BY DEF Unforged
<1>3. TypeOK /\ CopyInv /\ [Next]_vars => CopyInv'
  BY <1>2, NextCopies
<1> QED
  BY <1>1, <1>3, InitCopies, InitReal, NextReal, TypeCorrect, PTL
  DEF Spec, ActivationIsReal

\* When nobody patches the conditions, a Breakglass is activated at most once,
\* a recurring one too: RecurringPending, being in the list already, is never
\* the current condition again.
THEOREM ActivatedOnce ==
    ASSUME "patch" \notin UserOps
    PROVE  Spec => [](obj.status.count <= 1)
<1>1. RealInv => obj.status.count <= 1
  BY DEF RealInv, StoredReal, Once
<1>2. Unforged
  BY DEF Unforged
<1>3. TypeOK /\ CopyInv /\ [Next]_vars => CopyInv'
  BY <1>2, NextCopies
<1> QED
  BY <1>1, <1>3, InitCopies, InitReal, NextReal, TypeCorrect, PTL DEF Spec

-----------------------------------------------------------------------------
(* The schedule.                                                           *)

\* Some firing lies beyond the horizon.  (The cron library gives up after five
\* years, and the code then takes the zero time for the next firing.)
FiringsGoOn == \E x \in Ticks : x > MaxTime

\* Nobody but the defaulting of the start changes a spec: every copy has the
\* one the Breakglass was created with.
SameSpec(x) == x.spec = [obj.spec EXCEPT !.start = x.spec.start]

\* The schedule in a status is a firing, or the start.
Planned(x) ==
    obj.spec.cron = "valid" =>
        x.status.nextAt \in Ticks \cup {obj.spec.start, NoTime}

ScheduleInv ==
    /\ \E s \in InitSpecs : obj.spec = [s EXCEPT !.start = obj.spec.start]
    /\ SameSpec(cache) /\ Planned(obj) /\ Planned(cache)
    /\ pc # "idle" =>
           /\ SameSpec(bg) /\ Planned(bg)
           /\ obj.spec.cron # "none" => obj.spec.duration > 0
    /\ pc = "addFinalizer" /\ obj.spec.start = NoTime => bg.spec.start <= now

\* Every nonempty set of naturals has a least element.
LEMMA LeastNatural ==
    ASSUME NEW S \in SUBSET Nat, S # {}
    PROVE  \E x \in S : \A y \in S : x <= y
<1> DEFINE R == OpToRel(<, Nat)
<1>1. IsWellFoundedOn(R, Nat)
  BY NatLessThanWellFounded, Zenon
<1>2. \A x, y \in Nat : y < x => <<y, x>> \in R
  BY DEF OpToRel
<1> HIDE DEF R
<1>3. PICK x \in S : \A y \in S : ~(<<y, x>> \in R)
  BY <1>1, WFMin, Zenon
<1>4. \A y \in S : x <= y
  <2> SUFFICES ASSUME NEW y \in S PROVE x <= y
    OBVIOUS
  <2>1. ~(y < x)
    BY <1>2, <1>3
  <2> QED
    BY <2>1
<1> QED
  BY <1>4

\* What the cron library and the search return is a firing, if anything.
LEMMA TickFacts ==
    ASSUME NEW t \in Int
    PROVE  /\ CronNext(t) \in Ticks \cup {NoTime}
           /\ FindPrevActivation(t) \in Ticks \cup {NoTime}
BY DEF CronNext, FindPrevActivation

\* The next firing lies ahead.
LEMMA CronNextAhead ==
    ASSUME FiringsGoOn, NEW t \in 0 .. MaxTime
    PROVE  CronNext(t) \in Ticks /\ CronNext(t) > t
<1> DEFINE S == {x \in Ticks : x > t}
<1>1. S \in SUBSET Nat /\ S # {}
  <2>1. PICK x \in Ticks : x > MaxTime
    BY DEF FiringsGoOn
  <2>2. x \in S
    BY <2>1, TicksAssumption, MaxTimeAssumption
  <2> QED
    BY <2>2, TicksAssumption
<1>2. PICK x \in S : \A y \in S : x <= y
  BY <1>1, LeastNatural
<1>3. x \in Ticks /\ IsNextTick(x, t)
  BY <1>2 DEF IsNextTick
<1> QED
  BY <1>3 DEF CronNext, IsNextTick

\* What the plans of b may be.
Plans(b) == Ticks \cup {b.spec.start, NoTime}

\* The next activation is a plan of the schedule.
LEMMA NextActivationPlanned ==
    ASSUME NEW b \in Breakglasses, NEW t \in Int
    PROVE  CalculateNextActivation(b, t) \in Plans(b)
BY TickFacts DEF CalculateNextActivation, Plans

\* ProcessRecurring replaces a plan by a plan.
LEMMA ProcessRecurringPlanned ==
    ASSUME NEW b \in Breakglasses, NEW t \in Nat, b.spec.cron = "valid",
           b.status.nextAt \in Plans(b)
    PROVE  ProcessRecurring(b, t).status.nextAt \in Plans(b)
<1> DEFINE Good(y) == y.status.nextAt \in Plans(b)
<1>1. Good(SetCondition(b, "RecurringPending"))
  BY SetConditionEffect DEF ConditionTypes
<1>2. \A s \in Times : s \in Plans(b) => Good(ScheduleAt(b, s))
  BY ScheduleAtEffect
<1>3. /\ FindPrevActivation(t) \in Times /\ FindPrevActivation(t) \in Plans(b)
      /\ CalculateNextActivation(b, t) \in Times
      /\ CalculateNextActivation(b, t) \in Plans(b)
  BY TickTypes, TickFacts, NextActivationType, NextActivationPlanned DEF Plans
<1>4. Good(StopRecurrence(b))
  <2> DEFINE y == [b EXCEPT !.status.nextAt = NoTime]
  <2>1. y \in Breakglasses /\ y.status.nextAt = NoTime
    BY DEF Breakglasses, Statuses, Times
  <2>2. StopRecurrence(b) = SetCondition(y, "Failed")
    BY DEF StopRecurrence
  <2> HIDE DEF y
  <2> QED
    BY <2>1, <2>2, SetConditionEffect DEF Plans, ConditionTypes
<1> HIDE DEF Good
<1>5. Good(HandleInitialActivation(b, t))
  BY <1>2, <1>3 DEF HandleInitialActivation
<1>6. Good(b)
  BY DEF Good
<1>7. Good(ProcessCron(b, t))
  BY <1>1, <1>2, <1>3, <1>5, <1>6 DEF ProcessCron
<1>8. Good(ProcessRecurring(b, t))
  BY <1>4, <1>7 DEF ProcessRecurring
<1> QED
  BY <1>8 DEF Good

\* So does the advance after a grant.
LEMMA OnActivationGrantedPlanned ==
    ASSUME NEW b \in Breakglasses, b.spec.cron = "valid"
    PROVE  OnActivationGranted(b).status.nextAt \in Plans(b)
<1> DEFINE x == [b EXCEPT !.status.count = @ + 1]
           next == CalculateNextActivation(b, b.status.grantedAt)
<1>1. x \in Breakglasses /\ b.status.grantedAt \in Int
  BY DEF Breakglasses, Statuses, Times
<1>2. next \in Times /\ next \in Plans(b)
  BY <1>1, NextActivationType, NextActivationPlanned
<1>3. OnActivationGranted(b) = ScheduleAt(x, next)
  BY DEF OnActivationGranted
<1> HIDE DEF x, next
<1> QED
  BY <1>1, <1>2, <1>3, ScheduleAtEffect

\* What is made due for an activation is made due in a window.
LEMMA DueInWindow ==
    ASSUME NEW b \in Breakglasses, NEW t \in 0 .. MaxTime, FiringsGoOn,
           b.spec.cron = "valid", b.spec.duration > 0, b.status.nextAt \in Plans(b),
           ShouldActivate(ProcessRecurring(b, t), t)
    PROVE  /\ b.spec.start <= t
           /\ \E w \in Ticks \cup {b.spec.start} : w <= t /\ t <= w + b.spec.duration
<1> DEFINE y == ProcessRecurring(b, t)
           next == CalculateNextActivation(b, t)
           prev == FindPrevActivation(t)
<1>1. /\ t \in Nat /\ b.spec.start \in Times /\ b.spec.duration \in Nat
      /\ b.status.nextAt \in Times /\ Ticks \subseteq Nat
      /\ prev \in Ticks \cup {NoTime}
  BY MaxTimeAssumption, TicksAssumption, TickFacts DEF Breakglasses, Specs, Statuses
<1>2. y.spec = b.spec
  BY <1>1, ProcessRecurringSpec
<1>3. /\ y.status.nextAt # NoTime /\ y.status.nextAt <= t
      /\ b.spec.start <= t
  BY <1>1, <1>2 DEF ShouldActivate, Times
<1>4. next > t /\ next \in Times
  <2>1. CronNext(t) \in Ticks /\ CronNext(t) > t
    BY CronNextAhead
  <2> HIDE DEF next
  <2>2. next \in Times
    BY <1>1, NextActivationType DEF next
  <2>3. CronNext(t) \in Int
    BY <1>1, TickTypes DEF Times
  <2>4. ~(CronNext(t) < b.spec.start)
    <3>1. b.spec.start \in Int
      BY <1>1 DEF Times
    <3>2. t \in Int
      BY <1>1
    <3> QED
      BY <1>3, <2>1, <2>3, <3>1, <3>2
  <2>5. next = CronNext(t)
    BY <2>4 DEF CalculateNextActivation, next
  <2> QED
    BY <2>1, <2>2, <2>5
<1>5. \A s \in Times : ScheduleAt(b, s).status.nextAt = s
  BY ScheduleAtEffect
<1>6. SetCondition(b, "RecurringPending").status.nextAt = b.status.nextAt
  BY SetConditionEffect DEF ConditionTypes
<1>7. StopRecurrence(b).status.nextAt = NoTime
  <2> DEFINE z == [b EXCEPT !.status.nextAt = NoTime]
  <2>1. z \in Breakglasses /\ z.status.nextAt = NoTime
    BY DEF Breakglasses, Statuses, Times
  <2>2. StopRecurrence(b) = SetCondition(z, "Failed")
    BY DEF StopRecurrence
  <2> HIDE DEF z
  <2> QED
    BY <2>1, <2>2, SetConditionEffect DEF ConditionTypes
<1>8. y = ProcessCron(b, t)
  BY <1>3, <1>7 DEF ProcessRecurring
<1> HIDE DEF y, next, prev
<1>9. CASE b.status.nextAt = NoTime
  <2>1. y = ScheduleAt(b, IF InPrevWindow(b, t) THEN prev ELSE next)
    BY <1>8, <1>9 DEF ProcessCron, HandleInitialActivation, prev, next
  <2>2. InPrevWindow(b, t)
    BY <1>1, <1>3, <1>4, <1>5, <2>1 DEF Times
  <2>3. prev # NoTime /\ prev < t /\ t < prev + b.spec.duration
    BY <2>2 DEF InPrevWindow, prev
  <2>4. prev \in Ticks /\ prev \in Int /\ t \in Int /\ b.spec.duration \in Int
    <3>1. prev \in Ticks
      BY <1>1, <2>3
    <3>2. prev \in Int
      BY <1>1, <3>1
    <3>3. t \in Int
      BY <1>1
    <3>4. b.spec.duration \in Int
      BY <1>1
    <3> QED
      BY <3>1, <3>2, <3>3, <3>4
  <2>5. prev <= t /\ t <= prev + b.spec.duration
    BY <2>3, <2>4
  <2> QED
    BY <1>3, <2>4, <2>5
<1>10. CASE b.status.nextAt # NoTime
  <2>1. ~(t < b.spec.start)
    BY <1>1, <1>3 DEF Times
  <2>2. t <= b.status.nextAt + b.spec.duration
    <3>1. CASE t > b.status.nextAt + b.spec.duration
      <4>1. y = ScheduleAt(b, next)
        BY <1>8, <1>10, <2>1, <3>1 DEF ProcessCron, next
      <4> QED
        BY <1>1, <1>3, <1>4, <1>5, <4>1 DEF Times
    <3> QED
      BY <1>1, <3>1 DEF Times
  <2>3. y \in {b, SetCondition(b, "RecurringPending")}
    BY <1>1, <1>8, <1>10, <2>1, <2>2 DEF ProcessCron, Times
  <2>4. b.status.nextAt <= t
    BY <1>3, <1>6, <2>3
  <2> QED
    BY <1>1, <1>3, <1>10, <2>2, <2>4 DEF Plans
<1> QED
  BY <1>9, <1>10

-----------------------------------------------------------------------------
\* The reconcile ends, or goes on with the same spec and a plan that fits it.
PlanStep ==
    \/ pc' = "idle"
    \/ /\ pc' # "addFinalizer" /\ bg'.spec = bg.spec
       /\ bg.spec.cron = "valid" => bg'.status.nextAt \in Plans(bg)

\* What the steps of a reconcile past its update calls do to the plan.
LEMMA LocalPlanned ==
    ASSUME TypeOK, CopyInv, bg.spec.cron = "valid" => bg.status.nextAt \in Plans(bg),
           List \/ DeleteResource \/ CreateResource \/ Activate \/ Dispatch
    PROVE  PlanStep
<1>1. bg \in Breakglasses /\ now \in Nat
  BY DEF TypeOK, ClusterTypeOK, LocalTypeOK
<1>2. \A c \in ConditionTypes : Reports(c) => PlanStep
  BY <1>1, SetConditionEffect DEF Reports, Replans, Carries, PlanStep
<1>3. CASE List \/ DeleteResource
  <2>1. KindDone \/ (\E o : CleanupFailed(o)) \/ Goto("delete", bg)
    BY <1>3 DEF List, DeleteResource
  <2>2. CASE pc' \in ReadCalls /\ bg' = bg
    BY <2>2 DEF PlanStep, ReadCalls
  <2>3. CASE Concludes
    <3>1. PICK b, c : /\ Replans(b, bg)
                      /\ b.status.nextAt \in {bg.status.nextAt, NoTime}
                      /\ c \in {"RecurringPending", "Expired"}
                      /\ bg' = SetCondition(b, c)
      BY <2>3 DEF Concludes
    <3>2. pc' = "status"
      BY <2>3 DEF Concludes
    <3>3. bg'.spec = bg.spec /\ bg'.status.nextAt = b.status.nextAt
      BY <3>1, SetConditionEffect DEF Replans, Carries, ConditionTypes
    <3> QED
      BY <3>1, <3>2, <3>3 DEF PlanStep, Plans
  <2>4. CASE pc' = "idle"
    BY <2>4 DEF PlanStep
  <2> QED
    BY <1>2, <2>1, <2>2, <2>3, <2>4, KindDoneMoves, CleanupFailedMoves
    DEF Goto, ReadCalls, ConditionTypes
<1>4. CASE CreateResource
  <2> DEFINE b == [bg EXCEPT !.status.created = @ \cup ToCreate(@)]
  <2>1. b.spec = bg.spec /\ b.status.nextAt = bg.status.nextAt
    BY <1>1 DEF Breakglasses, Statuses
  <2>2. \/ pc' = "idle"
        \/ Reports("Failed")
        \/ pc' \in {"create", "record"} /\ bg' \in {bg, b}
    BY <1>4, CreateMoves
  <2> HIDE DEF b
  <2> QED
    BY <1>2, <2>1, <2>2 DEF PlanStep, ConditionTypes
<1>5. CASE Activate
  <2>1. Last(bg) = "RecurringPending"
    BY <1>5 DEF Activate, CopyInv, WorkingCopy, GrantCalls
  <2>2. pc' = "status"
    BY <1>5, <2>1, ActivateMoves
  <2>3. PICK b, g : /\ Carries(b, bg) /\ bg' = SetCondition(b, "RecurringActive")
                    /\ Replans(g, bg) /\ b = OnActivationGranted(g)
    BY <1>5, <2>1, ActivateMoves
  <2>4. b \in Breakglasses /\ g \in Breakglasses /\ g.spec = bg.spec /\ b.spec = bg.spec
    BY <2>3 DEF Carries, Replans
  <2>5. bg'.spec = bg.spec /\ bg'.status.nextAt = b.status.nextAt
    BY <2>3, <2>4, SetConditionEffect DEF Replans, Carries, ConditionTypes
  <2>6. bg.spec.cron = "valid" => b.status.nextAt \in Plans(bg)
    BY <2>3, <2>4, OnActivationGrantedPlanned DEF Plans
  <2> QED
    BY <2>2, <2>5, <2>6 DEF PlanStep
<1>6. CASE Dispatch
  <2>1. CASE Grants
    <3>1. /\ bg' = ProcessRecurring(bg, now) /\ pc' \in {"create", "activate"}
          /\ bg'.spec = bg.spec
      BY <2>1 DEF Grants, Replans, Carries
    <3> QED
      BY <1>1, <3>1, ProcessRecurringPlanned DEF PlanStep
  <2>2. CASE Expires
    BY <2>2 DEF Expires, PlanStep
  <2>3. CASE pc' = "idle"
    BY <2>3 DEF PlanStep
  <2> QED
    BY <1>2, <1>6, <2>1, <2>2, <2>3, DispatchMoves DEF ConditionTypes
<1> QED
  BY <1>3, <1>4, <1>5, <1>6

\* Past the finalizer the working copy has the stored spec.
LEMMA WorkingSpec ==
    ASSUME TypeOK, StartInv, ScheduleInv, pc \notin {"idle", "addFinalizer"}
    PROVE  /\ bg.spec = obj.spec /\ Plans(bg) = Ticks \cup {obj.spec.start, NoTime}
           /\ bg.spec.cron = "valid" => bg.status.nextAt \in Plans(bg)
<1>1. obj \in Breakglasses /\ bg.spec.start = obj.spec.start
  BY DEF StartInv, WorkingStart, TypeOK, ClusterTypeOK
<1>2. bg.spec = obj.spec
  BY <1>1 DEF ScheduleInv, SameSpec, Breakglasses, Specs
<1> QED
  BY <1>2 DEF ScheduleInv, Planned, Plans

\* A step of a reconcile past the finalizer, which may store its status.
LEMMA StepSchedule ==
    ASSUME TypeOK, StartInv, ScheduleInv, pc \notin {"idle", "addFinalizer"},
           PlanStep, UNCHANGED cache, obj'.spec = obj.spec,
           obj'.status.nextAt \in {obj.status.nextAt, bg.status.nextAt}
    PROVE  ScheduleInv'
<1>1. /\ bg.spec = obj.spec /\ Plans(bg) = Ticks \cup {obj.spec.start, NoTime}
      /\ bg.spec.cron = "valid" => bg.status.nextAt \in Plans(bg)
  BY WorkingSpec
<1>2. Planned(obj)' /\ Planned(cache)' /\ SameSpec(cache)'
  BY <1>1 DEF ScheduleInv, Planned, SameSpec
<1>3. pc' # "idle" => SameSpec(bg)' /\ Planned(bg)'
  BY <1>1 DEF PlanStep, SameSpec, Planned, ScheduleInv
<1>4. pc' # "addFinalizer"
  BY DEF PlanStep
<1> QED
  BY <1>2, <1>3, <1>4 DEF ScheduleInv

\* Those steps keep the invariant.
LEMMA LocalSchedule ==
    ASSUME TypeOK, StartInv, CopyInv, ScheduleInv,
           List \/ DeleteResource \/ CreateResource \/ Activate \/ Dispatch
    PROVE  ScheduleInv'
<1>1. /\ UNCHANGED <<obj, cache>> /\ pc \notin {"idle", "addFinalizer"}
  BY DEF List, DeleteResource, CreateResource, Activate, Dispatch, clusterVars
<1>2. PlanStep
  BY <1>1, WorkingSpec, LocalPlanned
<1> QED
  BY <1>1, <1>2, StepSchedule

\* A default of the start is the present.
LEMMA BeginSchedule ==
    ASSUME TypeOK, StartInv, ScheduleInv, Begin
    PROVE  ScheduleInv'
<1>1. /\ UNCHANGED <<now, obj, cache>> /\ pc = "idle"
      /\ obj \in Breakglasses /\ cache \in Breakglasses /\ now \in Nat
  BY DEF Begin, TypeOK, ClusterTypeOK
<1>2. CASE UNCHANGED recVars
  BY <1>1, <1>2 DEF recVars, ScheduleInv, Planned, SameSpec
<1>3. CASE /\ bg'.status = cache.status /\ bg'.spec = DefaultStart(cache).spec
           /\ ~InvalidSchedule(cache.spec)
  <2>1. /\ bg'.spec = [cache.spec EXCEPT !.start = bg'.spec.start]
        /\ bg'.spec.start = IF cache.spec.start = NoTime THEN now ELSE cache.spec.start
    BY <1>1, <1>3 DEF DefaultStart, Breakglasses, Specs
  <2>2. cache.spec = [obj.spec EXCEPT !.start = cache.spec.start]
    BY DEF ScheduleInv, SameSpec
  <2>3. SameSpec(bg)'
    BY <1>1, <2>1, <2>2 DEF SameSpec, Breakglasses, Specs
  <2>4. cache.spec.cron = obj.spec.cron /\ cache.spec.duration = obj.spec.duration
    BY <1>1, <2>2 DEF Breakglasses, Specs
  <2>5. obj.spec.cron # "none" => obj.spec.duration > 0
    BY <1>1, <1>3, <2>4 DEF InvalidSchedule, Breakglasses, Specs
  <2>6. Planned(bg)'
    BY <1>1, <1>3 DEF ScheduleInv, Planned
  <2>7. obj.spec.start = NoTime => bg'.spec.start = now
    BY <2>1 DEF StartInv, Agrees
  <2>8. SameSpec(cache)' /\ Planned(obj)' /\ Planned(cache)'
    BY <1>1 DEF ScheduleInv, SameSpec, Planned
  <2> QED
    BY <1>1, <2>3, <2>5, <2>6, <2>7, <2>8 DEF ScheduleInv
<1> QED
  BY <1>2, <1>3, BeginMoves

\* The default is stored over no start at all.
LEMMA AddFinalizerSchedule ==
    ASSUME TypeOK, StartInv, ScheduleInv, AddFinalizer
    PROVE  ScheduleInv'
<1> DEFINE new == [obj EXCEPT !.finalizer = TRUE, !.spec = bg.spec]
<1>1. /\ UNCHANGED <<now, cache>> /\ pc = "addFinalizer" /\ pc' = "idle"
      /\ obj \in Breakglasses /\ bg \in Breakglasses /\ cache \in Breakglasses
      /\ \E o : UpdateObj(new, o)
  BY DEF AddFinalizer, Return, Ended, TypeOK, ClusterTypeOK, LocalTypeOK
<1>2. new.spec = bg.spec /\ new.status = obj.status
  BY <1>1 DEF Breakglasses
<1> HIDE DEF new
<1>3. obj' = obj \/ (obj' = new /\ bgFresh)
  BY <1>1, UpdateObjMoves
<1>4. CASE obj' = obj
  BY <1>1, <1>4 DEF ScheduleInv, SameSpec, Planned
<1>5. CASE obj' = new /\ bgFresh
  <2>1. obj.spec.start # NoTime => bg.spec.start = obj.spec.start
    BY <1>1, <1>5 DEF StartInv, WorkingStart
  <2>2. /\ obj'.spec = [obj.spec EXCEPT !.start = obj'.spec.start]
        /\ obj'.status = obj.status
        /\ obj.spec.start \in {NoTime, obj'.spec.start}
    BY <1>1, <1>2, <1>5, <2>1 DEF ScheduleInv, SameSpec
  <2>3. /\ obj'.spec.cron = obj.spec.cron /\ obj'.spec.duration = obj.spec.duration
    BY <1>1, <2>2 DEF Breakglasses, Specs
  <2>4. SameSpec(cache)'
    BY <1>1, <2>2 DEF ScheduleInv, SameSpec, Breakglasses, Specs
  <2>5. Planned(obj)' /\ Planned(cache)'
    BY <1>1, <2>2, <2>3 DEF ScheduleInv, Planned
  <2>6. \E s \in InitSpecs : obj'.spec = [s EXCEPT !.start = obj'.spec.start]
    <3>1. PICK s \in InitSpecs : obj.spec = [s EXCEPT !.start = obj.spec.start]
      BY DEF ScheduleInv
    <3>2. s \in Specs
      BY InitSpecsAssumption
    <3> QED
      BY <2>2, <3>1, <3>2 DEF Specs
  <2> QED
    BY <1>1, <2>4, <2>5, <2>6 DEF ScheduleInv
<1> QED
  BY <1>3, <1>4, <1>5

\* The updates of a reconcile past the finalizer keep the stored spec.
LEMMA UpdateSchedule ==
    ASSUME TypeOK, StartInv, ScheduleInv, DropFinalizer \/ RecordResources \/ WriteStatus
    PROVE  ScheduleInv'
<1> DEFINE b == [bg EXCEPT !.finalizer = FALSE]
           dropped == [obj EXCEPT !.finalizer = FALSE, !.exists = FALSE,
                                  !.spec = bg.spec]
           new == [obj EXCEPT !.status = bg.status]
<1>1. /\ UNCHANGED cache /\ pc \notin {"idle", "addFinalizer"}
      /\ obj \in Breakglasses /\ bg \in Breakglasses
  BY DEF DropFinalizer, RecordResources, WriteStatus, TypeOK, ClusterTypeOK, LocalTypeOK
<1>2. /\ bg.spec = obj.spec
      /\ bg.spec.cron = "valid" => bg.status.nextAt \in Plans(bg)
  BY <1>1, WorkingSpec
<1>3. /\ b.spec = bg.spec /\ b.status = bg.status
      /\ dropped.spec = bg.spec /\ dropped.status = obj.status
      /\ new.spec = obj.spec /\ new.status = bg.status
  BY <1>1 DEF Breakglasses
<1>4. \/ pc' = "idle"
      \/ pc' = "dispatch" /\ bg' = b
      \/ pc' = "activate" /\ bg' = new
      \/ Reports("Failed")
  BY DEF DropFinalizer, RecordResources, WriteStatus, Goto, Return, ReturnUntil, Ended,
         UpdateStatus, Reports
<1>5. \E o : UpdateObj(dropped, o) \/ UpdateObj(new, o)
  BY DEF DropFinalizer, RecordResources, WriteStatus
<1> HIDE DEF b, dropped, new
<1>6. obj' \in {obj, dropped, new}
  BY <1>5, UpdateObjMoves
<1>7. Reports("Failed") => PlanStep
  BY <1>1, <1>2, SetConditionEffect
  DEF Reports, Replans, Carries, PlanStep, ConditionTypes
<1>8. PlanStep
  BY <1>2, <1>3, <1>4, <1>7 DEF PlanStep
<1> QED
  BY <1>1, <1>2, <1>3, <1>6, <1>8, StepSchedule

\* Without edits people leave spec and schedule alone, as the runtime does.
LEMMA OthersSchedule ==
    ASSUME TypeOK, ScheduleInv, "edit" \notin UserOps,
           \/ UserStep \/ WatchEvent \/ WatchRbac \/ FireTimer \/ Resync \/ Crash
           \/ Tick
    PROVE  ScheduleInv'
<1>1. obj \in Breakglasses /\ now \in Nat /\ bg \in Breakglasses
  BY DEF TypeOK, ClusterTypeOK, LocalTypeOK
<1>2. obj'.spec = obj.spec /\ obj'.status.nextAt = obj.status.nextAt
  <2>1. CASE Approve
    BY <1>1, <2>1 DEF Approve, Store, Breakglasses, Statuses
  <2>2. CASE PatchConditions
    BY <1>1, <2>2 DEF PatchConditions, Store, Breakglasses, Statuses
  <2>3. CASE Delete
    <3>1. \/ obj' = [obj EXCEPT !.deleting = TRUE]
          \/ obj' = [obj EXCEPT !.deleting = TRUE, !.exists = FALSE]
      BY <2>3 DEF Delete, Store
    <3> QED
      BY <1>1, <3>1 DEF Breakglasses
  <2>4. CASE UNCHANGED obj
    BY <2>4
  <2> QED
    BY <2>1, <2>2, <2>3, <2>4
    DEF UserStep, User, Edit, WatchEvent, DeliverObj, WatchRbac, DeliverRbac,
        FireTimer, Resync, Crash, Tick, clusterVars
<1>3. /\ cache' \in {cache, obj} /\ (UNCHANGED <<pc, bg>> \/ pc' = "idle")
      /\ now' \in {now, now + 1}
  BY DEF UserStep, User, Approve, PatchConditions, Edit, Delete, WatchEvent, DeliverObj,
         WatchRbac, DeliverRbac, FireTimer, Resync, Crash, Ended, Tick, clusterVars,
         recVars
<1>4. SameSpec(obj)
  BY <1>1 DEF SameSpec, Breakglasses, Specs
<1>5. SameSpec(cache)' /\ Planned(obj)' /\ Planned(cache)'
  BY <1>2, <1>3, <1>4 DEF ScheduleInv, SameSpec, Planned
<1>6. pc' # "idle" => SameSpec(bg)' /\ Planned(bg)'
  BY <1>2, <1>3 DEF ScheduleInv, SameSpec, Planned
<1>7. bg.spec.start \in Int
  BY <1>1 DEF Breakglasses, Specs, Times
<1>8. pc' = "addFinalizer" /\ obj'.spec.start = NoTime => bg'.spec.start <= now'
  BY <1>1, <1>2, <1>3, <1>7 DEF ScheduleInv
<1> QED
  BY <1>2, <1>3, <1>5, <1>6, <1>8 DEF ScheduleInv

\* A fresh Breakglass has no plan.
LEMMA InitSchedule == Init => ScheduleInv
<1> SUFFICES ASSUME Init PROVE ScheduleInv
  OBVIOUS
<1>1. cache = obj /\ pc = "idle"
  BY DEF Init, ClusterInit
<1>2. PICK spec \in InitSpecs : obj = NewBreakglass(spec)
  BY DEF Init, ClusterInit
<1>3. obj.spec = spec /\ spec \in Specs /\ obj.status.nextAt = NoTime
  BY <1>2, InitSpecsAssumption DEF NewBreakglass, NewStatus
<1>4. obj.spec = [spec EXCEPT !.start = obj.spec.start]
  BY <1>3 DEF Specs
<1> QED
  BY <1>1, <1>3, <1>4 DEF ScheduleInv, SameSpec, Planned

\* Every step keeps plans among firings and starts.
LEMMA NextSchedule ==
    ASSUME "edit" \notin UserOps
    PROVE  TypeOK /\ StartInv /\ CopyInv /\ ScheduleInv /\ [Next]_vars => ScheduleInv'
<1> SUFFICES ASSUME TypeOK, StartInv, CopyInv, ScheduleInv, [Next]_vars
             PROVE  ScheduleInv'
  OBVIOUS
<1>1. CASE UNCHANGED vars
  BY <1>1 DEF ScheduleInv, SameSpec, Planned, vars, clusterVars, recVars
<1> QED
  BY <1>1, BeginSchedule, AddFinalizerSchedule, UpdateSchedule, LocalSchedule,
     OthersSchedule DEF Next, Controller

\* A reconcile that leaves the handlers to grant does so in a window of the
\* stored schedule.
LEMMA GrantStepInWindow ==
    ASSUME FiringsGoOn, TypeOK, StartInv, ScheduleInv, Dispatch,
           pc' \in {"create", "activate"}, obj.spec.cron = "valid"
    PROVE  InWindow(now)
<1>1. /\ pc = "dispatch" /\ bg \in Breakglasses /\ now \in 0 .. MaxTime
  BY DEF Dispatch, TypeOK, ClusterTypeOK, LocalTypeOK
<1>2. Grants
  BY DispatchMoves DEF Reports, Expires
<1>3. ShouldActivate(ProcessRecurring(bg, now), now)
  BY <1>2 DEF Grants
<1>4. /\ bg.spec = obj.spec /\ bg.status.nextAt \in Plans(bg) /\ bg.spec.duration > 0
  BY <1>1, WorkingSpec DEF ScheduleInv
<1> QED
  BY <1>1, <1>3, <1>4, DueInWindow DEF InWindow

\* When nobody edits the spec, patches leave Expired and RecurringActive to the
\* controller and the cron expression goes on firing, a recurring Breakglass is
\* only granted while one of its windows is open.
THEOREM GrantOnScheduleHolds ==
    ASSUME FiringsGoOn, "edit" \notin UserOps, Unforged
    PROVE  Spec => GrantOnSchedule
<1>1. ASSUME TypeOK, StartInv, ScheduleInv, [Next]_vars
      PROVE  [pc = "dispatch" /\ pc' \in {"create", "activate"}
                  /\ obj.spec.cron = "valid" => InWindow(now)]_vars
  <2> SUFFICES ASSUME Next, pc = "dispatch", pc' \in {"create", "activate"},
                      obj.spec.cron = "valid"
               PROVE  InWindow(now)
    BY <1>1
  <2>1. Dispatch
    BY DEF Next, Controller, Begin, AddFinalizer, DropFinalizer, List, DeleteResource,
           CreateResource, RecordResources, Activate, WriteStatus, UserStep,
           WatchEvent, WatchRbac, FireTimer, Resync, Crash, Ended, Tick, recVars
  <2> QED
    BY <1>1, <2>1, GrantStepInWindow
<1> QED
  BY <1>1, InitStart, NextStart, CopyInvariant, InitSchedule, NextSchedule,
     TypeCorrect, PTL DEF Spec, GrantOnSchedule
=============================================================================
