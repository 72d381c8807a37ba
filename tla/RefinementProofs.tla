-------------------------- MODULE RefinementProofs --------------------------
(***************************************************************************)
(* The controller implements Access, proved for every value of the         *)
(* constants: the initial states map to initial states, and every step     *)
(* maps to a step of Access or leaves it alone.  The invariants of the     *)
(* other proofs say why a step maps as it does.                            *)
(***************************************************************************)
EXTENDS Refinement, ApprovalProofs, GrantProofs

USE DEF NoTime, NoMax, Promise!NoTime, Promise!NoMax

\* Where a cleanup cannot miss what was just created, nobody edits or patches
\* the request, the schedule goes on, and no window is longer than the search
\* for the firing that opened it.
Promising ==
    /\ ~RbacLag
    /\ UserOps \subseteq {"approve", "delete"}
    /\ FiringsGoOn
    /\ \A s \in InitSpecs : s.cron = "valid" => s.duration < Lookback

Inv ==
    /\ TypeOK /\ ApprovalInv /\ StartInv /\ CountInv
    /\ CopyInv /\ RevokeInv /\ RealInv /\ ScheduleInv

\* The state Access sees.
Request ==
    [spec |-> obj.spec, approved |-> obj.status.approvedBy = "human",
     deleting |-> obj.deleting, exists |-> obj.exists]

Finished == CurrentCondition(obj) = "Expired"

\* Everything but the operation in progress.
View == <<now, Request, rbac, obj.status.created, obj.status.count, Finished>>

-----------------------------------------------------------------------------
\* An initial state of the controller is one of Access.
LEMMA InitPromise == Init => Promise!Init
<1> SUFFICES ASSUME Init PROVE Promise!Init
  OBVIOUS
<1>1. now = 0 /\ rbac = {} /\ pc = "idle"
  BY DEF Init, ClusterInit
<1>2. PICK spec \in InitSpecs : obj = NewBreakglass(spec)
  BY DEF Init, ClusterInit
<1>3. /\ obj.spec = spec /\ obj.exists = TRUE /\ obj.deleting = FALSE
      /\ obj.status.count = 0 /\ obj.status.created = {}
  BY <1>2 DEF NewBreakglass, NewStatus
<1>4. (obj.status.approvedBy = "human") = FALSE
  BY <1>2 DEF NewBreakglass, NewStatus
<1>5. obj.status.conds = << >>
  BY <1>2 DEF NewBreakglass, NewStatus
<1>6. (CurrentCondition(obj) = "Expired") = FALSE
  BY <1>5 DEF CurrentCondition
<1>7. [spec |-> obj.spec, approved |-> obj.status.approvedBy = "human",
       deleting |-> obj.deleting, exists |-> obj.exists]
        = [spec |-> spec, approved |-> FALSE, deleting |-> FALSE, exists |-> TRUE]
  BY <1>3, <1>4, Zenon
<1>8. Operation = "none"
  BY <1>1 DEF Operation
<1> QED
  BY <1>1, <1>2, <1>3, <1>6, <1>7, <1>8, Zenon DEF Promise!Init

\* An operation that goes on, or ends, without a change in view.
LEMMA StopPromised ==
    ASSUME UNCHANGED View, Operation' \in {Operation, "none"}
    PROVE  [Promise!Next]_(Promise!vars)
<1>1. CASE Operation' = Operation
  BY <1>1 DEF View, Request, Finished, Promise!vars
<1>2. CASE Operation' = "none"
  BY <1>2 DEF View, Request, Finished, Promise!Next, Promise!Stop
<1> QED
  BY <1>1, <1>2

\* What is not reported to the API server yet is no operation.
LEMMA QuietOperation ==
    ASSUME TypeOK, RealInv, pc \notin {"idle", "record", "status"}, UNCHANGED obj,
           bg'.status.count = bg.status.count, bg'.status.created = bg.status.created,
           pc' \in {"status", "idle", "dispatch", "dropFinalizer"}
    PROVE  Operation' = "none"
<1>1. obj.status.count \in Nat /\ bg.status.count \in Nat
  BY DEF TypeOK, ClusterTypeOK, LocalTypeOK, Breakglasses, Statuses
<1>2. ~(bg.status.count > obj.status.count) /\ bg.status.created \subseteq obj.status.created
  BY <1>1 DEF RealInv, WorkingReal
<1> QED
  BY <1>2 DEF Operation

\* Before the handlers, no operation of Access is in progress.
LEMMA IdleOperation ==
    ASSUME pc \in {"idle", "addFinalizer", "dropFinalizer", "dispatch"}
    PROVE  Operation = "none"
BY DEF Operation

-----------------------------------------------------------------------------
(* The steps of a reconcile.                                               *)

\* Taking a key from the queue is a stutter.
LEMMA BeginPromised ==
    ASSUME Inv, Begin
    PROVE  [Promise!Next]_(Promise!vars)
<1>1. UNCHANGED <<now, obj, rbac>> /\ pc = "idle"
  BY DEF Begin
<1>2. UNCHANGED View
  BY <1>1 DEF View, Request, Finished, CurrentCondition
<1>3. Operation = "none"
  BY <1>1, IdleOperation
<1>4. CASE pc' \in {"idle", "dispatch", "addFinalizer"}
  BY <1>2, <1>4, StopPromised DEF Operation
<1>5. CASE pc' = "list" /\ cache.deleting
  <2>1. Operation' = "revoke"
    BY <1>5 DEF Operation
  <2>2. obj.deleting
    BY <1>5 DEF Inv, CopyInv, StoredCopies
  <2>3. Promise!MayRevoke
    BY <2>2 DEF Promise!MayRevoke
  <2>4. Promise!StartRevoke
    BY <1>2, <1>3, <2>1, <2>3 DEF Promise!StartRevoke, View, Request, Finished
  <2> QED
    BY <2>4 DEF Promise!Next
<1> QED
  BY <1>1, <1>4, <1>5, BeginMoves DEF Inv, recVars

\* How people and the API server change the request.
LEMMA RequestUpdates ==
    /\ [Request EXCEPT !.approved = TRUE]
         = [spec |-> obj.spec, approved |-> TRUE,
            deleting |-> obj.deleting, exists |-> obj.exists]
    /\ [Request EXCEPT !.deleting = TRUE]
         = [spec |-> obj.spec, approved |-> obj.status.approvedBy = "human",
            deleting |-> TRUE, exists |-> obj.exists]
    /\ [Request EXCEPT !.deleting = TRUE, !.exists = FALSE]
         = [spec |-> obj.spec, approved |-> obj.status.approvedBy = "human",
            deleting |-> TRUE, exists |-> FALSE]
<1> DEFINE a == obj.status.approvedBy = "human"
           yes == TRUE
           no  == FALSE
<1>1. Request = [spec |-> obj.spec, approved |-> a,
                 deleting |-> obj.deleting, exists |-> obj.exists]
  BY Zenon DEF Request
<1> HIDE DEF a, yes, no
<1>2. ASSUME NEW x
      PROVE  [Request EXCEPT !.approved = x]
                 = [spec |-> obj.spec, approved |-> x,
                    deleting |-> obj.deleting, exists |-> obj.exists]
  BY <1>1
<1>3. ASSUME NEW x
      PROVE  [Request EXCEPT !.deleting = x]
                 = [spec |-> obj.spec, approved |-> a, deleting |-> x,
                    exists |-> obj.exists]
  BY <1>1
<1>4. ASSUME NEW x, NEW y
      PROVE  [Request EXCEPT !.deleting = x, !.exists = y]
                 = [spec |-> obj.spec, approved |-> a, deleting |-> x, exists |-> y]
  <2> DEFINE p == [Request EXCEPT !.deleting = x]
  <2>1. [Request EXCEPT !.deleting = x, !.exists = y] = [p EXCEPT !.exists = y]
    OBVIOUS
  <2>2. p = [spec |-> obj.spec, approved |-> a, deleting |-> x, exists |-> obj.exists]
    BY <1>3
  <2> HIDE DEF p
  <2>3. [p EXCEPT !.exists = y]
            = [spec |-> obj.spec, approved |-> a, deleting |-> x, exists |-> y]
    BY <2>2
  <2> QED
    BY <2>1, <2>3, Zenon
<1>5. [Request EXCEPT !.approved = yes]
          = [spec |-> obj.spec, approved |-> yes,
             deleting |-> obj.deleting, exists |-> obj.exists]
  BY <1>2, Zenon
<1>6. [Request EXCEPT !.deleting = yes]
          = [spec |-> obj.spec, approved |-> a, deleting |-> yes, exists |-> obj.exists]
  BY <1>3, Zenon
<1>7. [Request EXCEPT !.deleting = yes, !.exists = no]
          = [spec |-> obj.spec, approved |-> a, deleting |-> yes, exists |-> no]
  BY <1>4, Zenon
<1> QED
  BY <1>5, <1>6, <1>7, Zenon DEF a, yes, no

\* Adding the finalizer may store the defaulted start, nothing else.
LEMMA AddFinalizerPromised ==
    ASSUME Inv, AddFinalizer
    PROVE  [Promise!Next]_(Promise!vars)
<1> DEFINE new == [obj EXCEPT !.finalizer = TRUE, !.spec = bg.spec]
<1>1. pc = "addFinalizer" /\ pc' = "idle" /\ UNCHANGED <<now, rbac>>
  BY DEF AddFinalizer, Return, Ended
<1>2. Operation = "none" /\ Operation' = "none"
  BY <1>1 DEF Operation
<1>3. /\ obj \in Breakglasses /\ bg \in Breakglasses /\ now \in Nat
      /\ obj.spec \in Specs /\ bg.spec \in Specs
  BY DEF Inv, TypeOK, ClusterTypeOK, LocalTypeOK, Breakglasses
<1>4. /\ new.spec = bg.spec /\ new.status = obj.status
      /\ new.deleting = obj.deleting /\ new.exists = obj.exists
  BY <1>3 DEF Breakglasses
<1>5. \E o : UpdateObj(new, o)
  BY DEF AddFinalizer
<1> HIDE DEF new
<1>6. obj' = obj \/ (obj' = new /\ bgFresh)
  BY <1>5, UpdateObjMoves
<1>7. bg.spec = [obj.spec EXCEPT !.start = bg.spec.start]
  BY <1>1 DEF Inv, ScheduleInv, SameSpec
<1>8. CASE obj' = obj
  BY <1>1, <1>2, <1>8, StopPromised DEF View, Request, Finished, CurrentCondition
<1>9. CASE obj' = new /\ bgFresh /\ obj.spec.start # NoTime
  <2>1. bg.spec.start = obj.spec.start
    BY <1>1, <1>9 DEF Inv, StartInv, WorkingStart
  <2>2. bg.spec = obj.spec
    BY <1>3, <1>7, <2>1 DEF Specs
  <2>3. UNCHANGED View
    BY <1>1, <1>4, <1>9, <2>2 DEF View, Request, Finished, CurrentCondition
  <2> QED
    BY <1>2, <2>3, StopPromised
<1>10. CASE obj' = new /\ bgFresh /\ obj.spec.start = NoTime
  <2>1. bg.spec.start \in 0 .. now
    <3>1. bg.spec.start # NoTime /\ bg.spec.start <= now
      BY <1>1, <1>10 DEF Inv, StartInv, WorkingStart, ScheduleInv
    <3>2. bg.spec.start \in Nat
      BY <1>3, <3>1 DEF Specs, Times
    <3> QED
      BY <1>3, <3>1, <3>2
  <2>2. rbac = {}
    BY <1>10 DEF Inv, StartInv, NotBeforeStart, Access
  <2>3. UNCHANGED <<obj.status.created, obj.status.count, Finished>>
    BY <1>4, <1>10 DEF Finished, CurrentCondition
  <2>4. Request' = [Request EXCEPT !.spec.start = bg.spec.start]
    BY <1>4, <1>7, <1>10 DEF Request
  <2>5. /\ Request.spec.start = NoTime
        /\ \E s \in 0 .. now : Request' = [Request EXCEPT !.spec.start = s]
    BY <1>10, <2>1, <2>4 DEF Request
  <2>6. UNCHANGED <<now, rbac, obj.status.created, obj.status.count, Finished, Operation>>
    BY <1>1, <1>2, <2>3
  <2>7. Promise!SetStart
    BY <2>2, <2>5, <2>6, Zenon DEF Promise!SetStart, Request, Finished
  <2> QED
    BY <2>7 DEF Promise!Next
<1> QED
  BY <1>6, <1>8, <1>9, <1>10

\* Removing the finalizer of a deleted request lets it go.
LEMMA DropFinalizerPromised ==
    ASSUME Inv, DropFinalizer
    PROVE  [Promise!Next]_(Promise!vars)
<1> DEFINE new == [obj EXCEPT !.finalizer = FALSE, !.exists = FALSE, !.spec = bg.spec]
<1>1. pc = "dropFinalizer" /\ pc' \in {"idle", "dispatch"} /\ UNCHANGED <<now, rbac>>
  BY DEF DropFinalizer, Return, Ended, Goto
<1>2. Operation = "none" /\ Operation' = "none"
  BY <1>1 DEF Operation
<1>3. obj \in Breakglasses
  BY DEF Inv, TypeOK, ClusterTypeOK
<1>4. /\ new.spec = bg.spec /\ new.status = obj.status
      /\ new.deleting = obj.deleting /\ new.exists = FALSE
  BY <1>3 DEF Breakglasses
<1>5. \E o : UpdateObj(new, o)
  BY DEF DropFinalizer
<1> HIDE DEF new
<1>6. obj' = obj \/ obj' = new
  BY <1>5, UpdateObjMoves
<1>7. CASE obj' = obj
  BY <1>1, <1>2, <1>7, StopPromised DEF View, Request, Finished, CurrentCondition
<1>8. CASE obj' = new
  <2>1. bg.spec = obj.spec
    BY <1>1, WorkingSpec DEF Inv
  <2>2. rbac = {}
    BY <1>1 DEF Inv, RevokeInv, Emptied, Access
  <2>3. obj.deleting = TRUE
    BY <1>1, <1>3 DEF Inv, CopyInv, WorkingCopy, Breakglasses
  <2>4. UNCHANGED <<obj.status.created, obj.status.count, Finished>>
    BY <1>4, <1>8 DEF Finished, CurrentCondition
  <2>5. Request' = [Request EXCEPT !.deleting = TRUE, !.exists = FALSE]
    <3>1. /\ obj'.spec = obj.spec /\ obj'.status.approvedBy = obj.status.approvedBy
          /\ obj'.deleting = TRUE /\ obj'.exists = FALSE
      BY <1>4, <1>8, <2>1, <2>3
    <3>2. Request' = [spec |-> obj.spec, approved |-> obj.status.approvedBy = "human",
                      deleting |-> TRUE, exists |-> FALSE]
      BY <3>1, Zenon DEF Request
    <3> QED
      BY <3>2, RequestUpdates, Zenon
  <2>6. Promise!Go
    BY <1>1, <1>2, <2>2, <2>4, <2>5 DEF Promise!Go, Request, Finished
  <2> QED
    BY <2>6 DEF Promise!Next
<1> QED
  BY <1>6, <1>7, <1>8

-----------------------------------------------------------------------------
(* The cleanup and the creation.                                           *)

\* A call that ends the operation: the reconcile ends, moves on, or reports
\* what counts and records nothing new.
LEMMA EndsOperation ==
    ASSUME TypeOK, RealInv, UNCHANGED obj, pc \notin {"idle", "record", "status"},
           \/ pc' \in {"idle", "dispatch", "dropFinalizer"}
           \/ \E c \in ConditionTypes : Reports(c)
           \/ Concludes
    PROVE  Operation' = "none"
<1>1. bg \in Breakglasses
  BY DEF TypeOK, LocalTypeOK
<1>2. CASE pc' \in {"idle", "dispatch", "dropFinalizer"}
  BY <1>2 DEF Operation
<1>3. ASSUME NEW c \in ConditionTypes, Reports(c)
      PROVE  Operation' = "none"
  <2>1. Replans(bg', bg)
    BY <1>1, <1>3, SetConditionEffect DEF Reports
  <2> QED
    BY <1>3, <2>1, QuietOperation DEF Reports, Replans, Carries
<1>4. CASE Concludes
  <2>1. PICK b, c : /\ Replans(b, bg) /\ c \in {"RecurringPending", "Expired"}
                    /\ bg' = SetCondition(b, c)
    BY <1>4 DEF Concludes
  <2>2. Replans(bg', b)
    BY <2>1, SetConditionEffect DEF Replans, Carries, ConditionTypes
  <2> QED
    BY <1>4, <2>1, <2>2, QuietOperation DEF Concludes, Replans, Carries
<1> QED
  BY <1>2, <1>3, <1>4

\* When a kind is emptied, the revocation goes on or ends.
LEMMA KindDoneOperation ==
    ASSUME TypeOK, RealInv, UNCHANGED obj, pc \in {"list", "delete"}, KindDone
    PROVE  Operation' \in {"revoke", "none"}
<1>1. CASE pc' = "list"
  BY <1>1 DEF Operation
<1>2. CASE pc' = "dropFinalizer" \/ Concludes
  BY <1>2, EndsOperation
<1> QED
  BY <1>1, <1>2, KindDoneMoves

\* A cleanup that fails breaks the revocation off.
LEMMA CleanupFailedOperation ==
    ASSUME TypeOK, RealInv, UNCHANGED obj, pc \in {"list", "delete"},
           NEW o, CleanupFailed(o)
    PROVE  Operation' = "none"
<1>1. \/ pc' \in {"idle", "dispatch"}
      \/ \E c \in ConditionTypes : Reports(c)
  BY CleanupFailedMoves DEF ConditionTypes
<1> QED
  BY <1>1, EndsOperation

\* A List starts, continues or breaks off a revocation.
LEMMA ListPromised ==
    ASSUME Inv, List
    PROVE  [Promise!Next]_(Promise!vars)
<1>1. pc = "list" /\ UNCHANGED <<now, obj, rbac>>
  BY DEF List
<1>2. Operation = "revoke" /\ UNCHANGED View
  BY <1>1 DEF Operation, View, Request, Finished, CurrentCondition
<1>3. Operation' \in {"revoke", "none"}
  <2>1. \/ pc' = "delete" \/ KindDone
        \/ \E o : CleanupFailed(o)
    BY DEF List, Goto
  <2>2. CASE pc' = "delete"
    BY <2>2 DEF Operation
  <2>3. CASE KindDone
    BY <1>1, <2>3, KindDoneOperation DEF Inv
  <2>4. CASE \E o : CleanupFailed(o)
    BY <1>1, <2>4, CleanupFailedOperation DEF Inv
  <2> QED
    BY <2>1, <2>2, <2>3, <2>4
<1> QED
  BY <1>2, <1>3, StopPromised

\* A Delete revokes one grant, or none.
LEMMA DeleteResourcePromised ==
    ASSUME Inv, DeleteResource
    PROVE  [Promise!Next]_(Promise!vars)
<1>1. pc = "delete" /\ UNCHANGED <<now, obj>> /\ todo \subseteq Resources
  BY DEF DeleteResource, Inv, TypeOK, LocalTypeOK
<1>2. Operation = "revoke"
  BY <1>1 DEF Operation
<1>3. UNCHANGED <<now, Request, obj.status.created, obj.status.count, Finished>>
  BY <1>1 DEF Request, Finished, CurrentCondition
<1>4. PICK r \in todo, o \in Answers :
          /\ UpdateRbac(rbac \ {r}, o)
          /\ \/ CleanupFailed(o)
             \/ KindDone
             \/ Goto("delete", bg)
  BY DEF DeleteResource
<1>5. Operation' \in {"revoke", "none"}
  <2>1. CASE CleanupFailed(o)
    BY <1>1, <2>1, CleanupFailedOperation DEF Inv
  <2>2. CASE KindDone
    BY <1>1, <2>2, KindDoneOperation DEF Inv
  <2>3. CASE Goto("delete", bg)
    BY <2>3 DEF Goto, Operation
  <2> QED
    BY <1>4, <2>1, <2>2, <2>3
<1>6. CASE rbac' = rbac
  BY <1>2, <1>3, <1>5, <1>6, StopPromised DEF View
<1>7. CASE rbac' = rbac \ {r}
  <2>1. Promise!Revoke(r)
    BY <1>2, <1>3, <1>5, <1>7, Zenon DEF Promise!Revoke, Request, Finished
  <2> QED
    BY <1>1, <2>1 DEF Promise!Next
<1> QED
  BY <1>4, <1>6, <1>7 DEF UpdateRbac

\* A Create makes one grant of an operation that is granting.
LEMMA CreateResourcePromised ==
    ASSUME Inv, CreateResource
    PROVE  [Promise!Next]_(Promise!vars)
<1>1. pc = "create" /\ UNCHANGED <<now, obj>> /\ todo \subseteq Resources
  BY DEF CreateResource, Inv, TypeOK, LocalTypeOK
<1>2. Operation = "grant"
  BY <1>1 DEF Operation
<1>3. UNCHANGED <<now, Request, obj.status.created, obj.status.count, Finished>>
  BY <1>1 DEF Request, Finished, CurrentCondition
<1>4. PICK r \in todo : rbac' = rbac \cup {r} \/ rbac' = rbac
  BY CreateMoves DEF Inv
<1>5. Operation' \in {"grant", "none"}
  <2>1. \/ pc' \in {"create", "record"}
        \/ pc' = "idle" \/ \E c \in ConditionTypes : Reports(c)
    BY CreateMoves DEF Inv, ConditionTypes
  <2>2. CASE pc' \in {"create", "record"}
    BY <2>2 DEF Operation
  <2>3. CASE pc' = "idle" \/ \E c \in ConditionTypes : Reports(c)
    BY <1>1, <2>3, EndsOperation DEF Inv
  <2> QED
    BY <2>1, <2>2, <2>3
<1>6. CASE rbac' = rbac
  BY <1>2, <1>3, <1>5, <1>6, StopPromised DEF View
<1>7. CASE rbac' = rbac \cup {r}
  <2>1. Promise!Grant(r)
    BY <1>2, <1>3, <1>5, <1>7, Zenon DEF Promise!Grant, Request, Finished
  <2> QED
    BY <1>1, <2>1 DEF Promise!Next
<1> QED
  BY <1>4, <1>6, <1>7

-----------------------------------------------------------------------------
(* The status updates.                                                     *)

\* A write of the working copy's status leaves the request as it is: it has
\* the approval that is stored, or the write conflicts.
LEMMA StatusRequest ==
    ASSUME Inv, pc # "idle", bgFresh, obj' = [obj EXCEPT !.status = bg.status]
    PROVE  /\ Request' = Request /\ obj'.status = bg.status
           /\ obj'.spec = obj.spec /\ obj'.deleting = obj.deleting
<1>1. obj \in Breakglasses
  BY DEF Inv, TypeOK, ClusterTypeOK
<1>2. /\ obj'.status = bg.status /\ obj'.spec = obj.spec
      /\ obj'.deleting = obj.deleting /\ obj'.exists = obj.exists
  BY <1>1 DEF Breakglasses
<1>3. bg.status.approvedBy = "human" <=> obj.status.approvedBy = "human"
  BY DEF Inv, ApprovalInv, WorkingApproval, Approved
<1>4. (obj'.status.approvedBy = "human") = (obj.status.approvedBy = "human")
  BY <1>2, <1>3
<1>5. Request' = Request
  BY <1>2, <1>4, Zenon DEF Request
<1> QED
  BY <1>2, <1>5

\* Storing createdResources records grants that exist.
LEMMA RecordResourcesPromised ==
    ASSUME Inv, RecordResources
    PROVE  [Promise!Next]_(Promise!vars)
<1> DEFINE new == [obj EXCEPT !.status = bg.status]
<1>1. pc = "record" /\ UNCHANGED <<now, rbac>>
  BY DEF RecordResources
<1>2. Operation = "grant"
  BY <1>1 DEF Operation
<1>3. /\ obj \in Breakglasses /\ bg \in Breakglasses
      /\ obj.status.count \in Nat /\ bg.status.count \in Nat
      /\ bg.status.count <= obj.status.count
      /\ bg.status.created = Resources /\ rbac = Resources
  BY <1>1
  DEF Inv, TypeOK, ClusterTypeOK, LocalTypeOK, RealInv, WorkingReal, Breakglasses, Statuses
<1>4. new.status = bg.status
  BY <1>3 DEF Breakglasses
<1>5. \E o : /\ UpdateObj(new, o)
             /\ \/ pc' \in {"activate", "idle"}
                \/ Reports("Failed")
  BY DEF RecordResources, Goto, Return, Ended, UpdateStatus, Reports
<1>6. /\ obj' = obj \/ (obj' = new /\ obj.exists /\ bgFresh)
      /\ pc' \in {"activate", "idle"} \/ Reports("Failed")
  <2> HIDE DEF new
  <2> QED
    BY <1>5, UpdateObjMoves
<1>7. Operation' \in {"grant", "none"}
  <2>1. CASE pc' \in {"activate", "idle"}
    BY <2>1 DEF Operation
  <2>2. CASE Reports("Failed")
    <3>1. bg'.status.count = bg.status.count
      BY <1>3, <2>2, SetConditionEffect DEF Reports, Replans, ConditionTypes
    <3>2. obj'.status.count \in {obj.status.count, bg.status.count}
      BY <1>4, <1>6
    <3>3. ~(bg'.status.count > obj'.status.count)
      BY <1>3, <3>1, <3>2
    <3> QED
      BY <2>2, <3>3 DEF Reports, Operation
  <2> QED
    BY <1>6, <2>1, <2>2
<1>8. CASE obj' = obj
  BY <1>1, <1>2, <1>7, <1>8, StopPromised DEF View, Request, Finished, CurrentCondition
<1>9. CASE obj' = new /\ obj.exists /\ bgFresh
  <2>1. Request' = Request /\ obj'.status = bg.status
    BY <1>1, <1>9, StatusRequest
  <2>2. obj'.status.count = obj.status.count
    <3>1. obj.status.count <= bg.status.count
      BY <1>1, <1>9 DEF Inv, RealInv, WorkingReal
    <3> QED
      BY <1>3, <2>1, <3>1
  <2>3. Finished' = Finished
    <3>1. CurrentCondition(bg) = "RecurringPending"
      BY <1>1 DEF Inv, CopyInv, WorkingCopy, GrantCalls, Last
    <3>2. CurrentCondition(obj) # "Expired"
      BY <1>1, <1>9 DEF Inv, CopyInv, Synced, GrantCalls, Last
    <3>3. CurrentCondition(obj)' = CurrentCondition(bg)
      BY <2>1 DEF CurrentCondition
    <3> QED
      BY <3>1, <3>2, <3>3 DEF Finished
  <2>4. Promise!Record
    BY <1>1, <1>2, <1>3, <1>7, <2>1, <2>2, <2>3, Zenon
    DEF Promise!Record, Request, Finished
  <2> QED
    BY <2>4 DEF Promise!Next
<1> QED
  BY <1>6, <1>8, <1>9

\* GrantAccess has succeeded: the commit is prepared.
LEMMA ActivatePromised ==
    ASSUME Inv, Activate
    PROVE  [Promise!Next]_(Promise!vars)
<1>1. pc = "activate" /\ UNCHANGED <<now, obj, rbac>>
  BY DEF Activate, clusterVars
<1>2. Operation = "grant" /\ UNCHANGED View
  BY <1>1 DEF Operation, View, Request, Finished, CurrentCondition
<1>3. /\ bg \in Breakglasses /\ obj.status.count \in Nat
      /\ obj.status.created \subseteq Resources
  BY DEF Inv, TypeOK, ClusterTypeOK, LocalTypeOK, Breakglasses, Statuses
<1>4. Last(bg) = "RecurringPending"
  BY <1>1 DEF Inv, CopyInv, WorkingCopy, GrantCalls
<1>5. bg.status.count = 0
  BY <1>1, <1>3, <1>4, WaitingIsUncounted DEF Inv, RealInv, WorkingReal
<1>6. bg.status.created = Resources /\ obj.status.created = Resources
  BY <1>1, <1>3 DEF Inv, RealInv, WorkingReal
<1>7. pc' = "status" /\ bg'.status.count = 1 /\ bg'.status.created = Resources
  <2>1. PICK b : /\ Carries(b, bg) /\ b.status.count = bg.status.count + 1
                 /\ bg' = SetCondition(b, "RecurringActive")
    BY <1>4, ActivateMoves DEF Inv
  <2>2. Replans(bg', b)
    BY <2>1, SetConditionEffect DEF Carries, ConditionTypes
  <2>3. pc' = "status"
    BY <1>4, ActivateMoves DEF Inv
  <2> QED
    BY <1>5, <1>6, <2>1, <2>2, <2>3 DEF Replans, Carries
<1>8. CASE obj.status.count = 0
  <2>1. Operation' = "commit"
    BY <1>1, <1>7, <1>8 DEF Operation
  <2>2. Promise!Granted
    BY <1>2, <1>6, <2>1, Zenon DEF Promise!Granted, View, Request, Finished
  <2> QED
    BY <2>2 DEF Promise!Next
<1>9. CASE obj.status.count # 0
  <2>1. ~(bg'.status.count > obj'.status.count)
    BY <1>1, <1>3, <1>7, <1>9
  <2>2. Operation' = "none"
    BY <1>1, <1>6, <1>7, <2>1 DEF Operation
  <2> QED
    BY <1>2, <2>2, StopPromised
<1> QED
  BY <1>8, <1>9

\* A status update is a commit, a finish, a record or a stutter.
LEMMA WriteStatusPromised ==
    ASSUME Inv, CountInv', WriteStatus
    PROVE  [Promise!Next]_(Promise!vars)
<1> DEFINE new == [obj EXCEPT !.status = bg.status]
<1>1. pc = "status" /\ pc' = "idle" /\ UNCHANGED <<now, rbac>>
  BY DEF WriteStatus, ReturnUntil, Return, Ended
<1>2. Operation' = "none"
  BY <1>1 DEF Operation
<1>3. \E o : UpdateObj(new, o)
  BY DEF WriteStatus
<1>4. obj' = obj \/ (obj' = new /\ obj.exists /\ bgFresh)
  <2> HIDE DEF new
  <2> QED
    BY <1>3, UpdateObjMoves
<1>5. CASE obj' = obj
  BY <1>1, <1>2, <1>5, StopPromised DEF View, Request, Finished, CurrentCondition
<1>6. CASE obj' = new /\ obj.exists /\ bgFresh
  <2>1. /\ obj.status.count \in Nat /\ bg.status.count \in Nat
        /\ obj.status.created \subseteq Resources
        /\ obj.spec.max \in Nat \cup {NoMax}
    BY DEF Inv, TypeOK, ClusterTypeOK, LocalTypeOK, Breakglasses, Statuses, Specs
  <2>2. /\ Request' = Request /\ obj'.status = bg.status
        /\ obj'.spec = obj.spec /\ obj'.deleting = obj.deleting
    BY <1>1, <1>6, StatusRequest
  <2>3. /\ Once(bg) /\ Reported
        /\ obj.status.count <= bg.status.count
        /\ obj.status.created \subseteq bg.status.created
    BY <1>1, <1>6 DEF Inv, RealInv, WorkingReal
  <2>4. CurrentCondition(obj) # "Expired"
    BY <1>1, <1>6 DEF Inv, CopyInv, Synced, Last
  <2>5. CurrentCondition(obj)' = CurrentCondition(bg)
    BY <2>2 DEF CurrentCondition
  <2>6. CASE bg.status.count > obj.status.count
    <3>1. Operation = "commit"
      BY <1>1, <2>6 DEF Operation
    <3>2. obj.status.count = 0 /\ obj'.status.count = obj.status.count + 1
      BY <2>1, <2>2, <2>3, <2>6 DEF Once
    <3>3. ~obj.deleting => rbac = Resources
      BY <2>3, <2>6 DEF Reported
    <3>4. obj'.status.created = obj.status.created
      <4>1. ~(bg.status.count <= obj.status.count)
        BY <2>1, <2>6
      <4>2. bg.status.created \subseteq obj.status.created
        BY <2>3, <4>1 DEF Reported
      <4> QED
        BY <2>2, <2>3, <4>2
    <3>5. Finished' = Finished
      BY <2>3, <2>4, <2>5, <2>6 DEF Reported, Last, Finished
    <3>6. obj.spec.max # NoMax => obj.status.count < obj.spec.max
      <4>1. obj.spec.max # NoMax => obj'.status.count <= obj.spec.max
        BY <2>2 DEF CountInv, Counted
      <4> QED
        BY <2>1, <3>2, <4>1
    <3>7. Promise!BelowLimit
      BY <3>2, <3>6 DEF Promise!BelowLimit
    <3>8. Promise!Commit
      <4>1. ~Request.deleting => rbac = Resources
        BY <3>3 DEF Request
      <4> QED
        BY <1>1, <1>2, <2>2, <3>1, <3>2, <3>4, <3>5, <3>7, <4>1, Zenon
        DEF Promise!Commit, Request, Finished
    <3> QED
      BY <3>8 DEF Promise!Next
  <2>7. CASE /\ ~(bg.status.count > obj.status.count)
             /\ ~(bg.status.created \subseteq obj.status.created)
    <3>1. Operation = "grant"
      BY <1>1, <2>7 DEF Operation
    <3>2. rbac = Resources /\ obj'.status.created = Resources
      BY <2>2, <2>3, <2>7 DEF Once, Reported
    <3>3. obj'.status.count = obj.status.count
      BY <2>1, <2>2, <2>3, <2>7
    <3>4. Finished' = Finished
      BY <2>3, <2>4, <2>5, <2>7 DEF Reported, Last, Finished
    <3>5. Promise!Record
      BY <1>1, <1>2, <2>2, <3>1, <3>2, <3>3, <3>4, Zenon
      DEF Promise!Record, Request, Finished
    <3> QED
      BY <3>5 DEF Promise!Next
  <2>8. CASE /\ ~(bg.status.count > obj.status.count)
             /\ bg.status.created \subseteq obj.status.created
    <3>1. Operation = "none"
      BY <1>1, <2>8 DEF Operation
    <3>2. /\ obj'.status.count = obj.status.count
          /\ obj'.status.created = obj.status.created
      BY <2>1, <2>2, <2>3, <2>8
    <3>3. CASE CurrentCondition(bg) # "Expired"
      <4>1. Finished' = Finished
        BY <2>4, <2>5, <3>3 DEF Finished
      <4> QED
        BY <1>1, <1>2, <2>2, <3>1, <3>2, <4>1, StopPromised DEF View
    <3>4. CASE CurrentCondition(bg) = "Expired"
      <4>1. rbac = {}
        BY <1>1, <3>4 DEF Inv, RevokeInv, Emptied, Last, Access
      <4>2. obj.status.count > 0
        BY <2>1, <2>2, <2>3, <3>2, <3>4 DEF Reported, Last
      <4>3. Finished' = TRUE
        BY <2>5, <3>4 DEF Finished
      <4>4. Promise!Finish
        BY <1>1, <1>2, <2>2, <3>1, <3>2, <4>1, <4>2, <4>3, Zenon
        DEF Promise!Finish, Request, Finished
      <4> QED
        BY <4>4 DEF Promise!Next
    <3> QED
      BY <3>3, <3>4
  <2> QED
    BY <2>6, <2>7, <2>8
<1> QED
  BY <1>4, <1>5, <1>6

-----------------------------------------------------------------------------
(* People, the informers, the queue, crashes and time.                     *)

\* People approve or delete.
LEMMA UserPromised ==
    ASSUME Promising, Inv, UserStep
    PROVE  [Promise!Next]_(Promise!vars)
<1>1. UNCHANGED <<now, rbac, pc, bg>>
  BY DEF UserStep, User, Approve, PatchConditions, Edit, Delete, recVars
<1>2. obj \in Breakglasses
  BY DEF Inv, TypeOK, ClusterTypeOK
<1>3. Approve \/ Delete
  BY DEF Promising, UserStep, User, PatchConditions, Edit
<1>4. CASE Approve
  <2> DEFINE new == [obj EXCEPT !.status.approvedBy = "human"]
  <2>1. obj.exists /\ obj' = new
    BY <1>4 DEF Approve, Store
  <2>2. /\ new.spec = obj.spec /\ new.deleting = obj.deleting /\ new.exists = obj.exists
        /\ new.status.approvedBy = "human" /\ new.status.conds = obj.status.conds
        /\ new.status.count = obj.status.count /\ new.status.created = obj.status.created
    BY <1>2 DEF Breakglasses, Statuses
  <2>3. UNCHANGED <<Operation, Finished, obj.status.count, obj.status.created>>
    <3>1. UNCHANGED <<Finished, obj.status.count, obj.status.created>>
      BY <2>1, <2>2 DEF Finished, CurrentCondition
    <3> QED
      BY <1>1, <3>1 DEF Operation
  <2>4. Request' = [spec |-> obj.spec, approved |-> TRUE,
                    deleting |-> obj.deleting, exists |-> obj.exists]
    <3>1. (obj'.status.approvedBy = "human") = TRUE
      BY <2>1, <2>2
    <3> QED
      BY <2>1, <2>2, <3>1, Zenon DEF Request
  <2>5. Request' = [Request EXCEPT !.approved = TRUE]
    BY <2>4, RequestUpdates, Zenon
  <2>6. Request.exists
    BY <2>1 DEF Request
  <2>7. Promise!Approve
    BY <1>1, <2>3, <2>5, <2>6, Zenon DEF Promise!Approve, Request, Finished
  <2> QED
    BY <2>7 DEF Promise!Next
<1>5. CASE Delete
  <2> DEFINE marked == [obj EXCEPT !.deleting = TRUE]
             gone   == [obj EXCEPT !.deleting = TRUE, !.exists = FALSE]
  <2>1. /\ obj.exists
        /\ obj' = IF obj.finalizer THEN marked ELSE gone
    BY <1>5 DEF Delete, Store
  <2>2. /\ marked.spec = obj.spec /\ marked.status = obj.status
        /\ marked.deleting = TRUE /\ marked.exists = obj.exists
        /\ gone.spec = obj.spec /\ gone.status = obj.status
        /\ gone.deleting = TRUE /\ gone.exists = FALSE
    BY <1>2 DEF Breakglasses
  <2> HIDE DEF marked, gone
  <2>3. obj'.spec = obj.spec /\ obj'.status = obj.status
    BY <2>1, <2>2
  <2>4. UNCHANGED <<Operation, Finished, obj.status.count, obj.status.created>>
    <3>1. UNCHANGED <<Finished, obj.status.count, obj.status.created>>
      BY <2>3 DEF Finished, CurrentCondition
    <3> QED
      BY <1>1, <3>1 DEF Operation
  <2>5. CASE obj.finalizer
    <3>1. obj'.deleting = TRUE /\ obj'.exists = obj.exists
      BY <2>1, <2>2, <2>5
    <3>2. Request' = [spec |-> obj.spec, approved |-> obj.status.approvedBy = "human",
                      deleting |-> TRUE, exists |-> obj.exists]
      BY <2>3, <3>1, Zenon DEF Request
    <3>3. Request' = [Request EXCEPT !.deleting = TRUE]
      BY <3>2, RequestUpdates, Zenon
    <3>4. Promise!MarkDeleted
      BY <1>1, <2>4, <3>3, Zenon DEF Promise!MarkDeleted, Request, Finished
    <3> QED
      BY <3>4 DEF Promise!Next
  <2>6. CASE ~obj.finalizer
    <3>1. obj'.deleting = TRUE /\ obj'.exists = FALSE
      BY <2>1, <2>2, <2>6
    <3>2. Request' = [spec |-> obj.spec, approved |-> obj.status.approvedBy = "human",
                      deleting |-> TRUE, exists |-> FALSE]
      BY <2>3, <3>1, Zenon DEF Request
    <3>3. Request' = [Request EXCEPT !.deleting = TRUE, !.exists = FALSE]
      BY <3>2, RequestUpdates, Zenon
    <3>4. rbac = {}
      BY <2>1, <2>6 DEF Inv, CopyInv, StoredCopies, Access
    <3>5. Promise!Go
      BY <1>1, <2>4, <3>3, <3>4, Zenon DEF Promise!Go, Request, Finished
    <3> QED
      BY <3>5 DEF Promise!Next
  <2> QED
    BY <2>5, <2>6
<1> QED
  BY <1>3, <1>4, <1>5

\* The runtime is invisible but for the clock.
LEMMA RuntimePromised ==
    ASSUME WatchEvent \/ WatchRbac \/ FireTimer \/ Resync \/ Crash \/ Tick
    PROVE  [Promise!Next]_(Promise!vars)
<1>1. UNCHANGED <<Request, rbac, obj.status.created, obj.status.count, Finished>>
  BY DEF WatchEvent, WatchRbac, FireTimer, Resync, Crash, Tick, DeliverObj, DeliverRbac,
         clusterVars, Request, Finished, CurrentCondition
<1>2. CASE WatchEvent \/ WatchRbac \/ FireTimer \/ Resync
  <2>1. UNCHANGED <<now, obj, pc, bg>>
    BY <1>2 DEF WatchEvent, WatchRbac, FireTimer, Resync, DeliverObj, DeliverRbac,
                clusterVars, recVars
  <2>2. Operation' = Operation
    BY <2>1 DEF Operation
  <2> QED
    BY <1>1, <2>1, <2>2, StopPromised DEF View
<1>3. CASE Crash
  <2>1. UNCHANGED now /\ pc' = "idle"
    BY <1>3 DEF Crash, Ended
  <2>2. Operation' = "none"
    BY <2>1 DEF Operation
  <2> QED
    BY <1>1, <2>1, <2>2, StopPromised DEF View
<1>4. CASE Tick
  <2>1. now' = now + 1 /\ UNCHANGED <<obj, pc, bg>>
    BY <1>4 DEF Tick, recVars
  <2>2. Operation' = Operation
    BY <2>1 DEF Operation
  <2>3. Promise!Tick
    BY <1>1, <2>1, <2>2, Zenon DEF Promise!Tick, Request, Finished
  <2> QED
    BY <2>3 DEF Promise!Next
<1> QED
  BY <1>2, <1>3, <1>4

-----------------------------------------------------------------------------
(* The handlers.                                                           *)

\* The search for the last firing finds none earlier than one it could find.
LEMMA PrevTick ==
    ASSUME NEW t \in Nat, CronNext(t) # NoTime,
           NEW w \in Ticks, w <= t, w > t - Lookback
    PROVE  /\ FindPreviousActivation(t) \in Ticks
           /\ w <= FindPreviousActivation(t) /\ FindPreviousActivation(t) <= t
<1> DEFINE S == {n \in Nat : \E x \in Ticks : x <= t /\ n = t - x}
<1>1. Ticks \subseteq Nat /\ Lookback \in Nat
  BY TicksAssumption, LookbackAssumption
<1>2. \A x \in Ticks : x <= t => t - x \in S
  BY <1>1
<1>3. S \in SUBSET Nat /\ S # {}
  BY <1>2
<1>4. PICK n \in S : \A m \in S : n <= m
  BY <1>3, LeastNatural
<1>5. PICK x \in Ticks : x <= t /\ n = t - x
  BY <1>4
<1>6. \A y \in Ticks : y <= t => y <= x
  <2> SUFFICES ASSUME NEW y \in Ticks, y <= t PROVE y <= x
    OBVIOUS
  <2>1. n <= t - y
    BY <1>2, <1>4
  <2> QED
    BY <1>1, <1>5, <2>1
<1>7. IsPrevTick(x, t)
  BY <1>1, <1>5, <1>6 DEF IsPrevTick
<1>8. /\ FindPrevActivation(t) \in Ticks
      /\ IsPrevTick(FindPrevActivation(t), t)
  BY <1>7 DEF FindPrevActivation
<1> QED
  BY <1>8 DEF IsPrevTick, FindPreviousActivation

\* The window of which the end has passed is the last one that opened: the
\* search for the firing that opened it reaches back far enough.
LEMMA ExpiredIsOver ==
    ASSUME FiringsGoOn, NEW b \in Breakglasses, NEW t \in 0 .. MaxTime,
           b.spec.start # NoTime, b.spec.cron = "valid" => b.spec.duration < Lookback,
           WindowEnd(b, t) # NoTime, t > WindowEnd(b, t)
    PROVE  /\ b.spec.duration > 0
           /\ \A w \in Ticks \cup {b.spec.start} :
                  (b.spec.cron = "none" => w = b.spec.start)
                      => ~(w <= t /\ t <= w + b.spec.duration)
<1>1. /\ t \in Nat /\ b.spec.start \in Nat /\ b.spec.duration \in Nat
      /\ b.status.nextAt \in Times /\ Ticks \subseteq Nat /\ Lookback \in Nat
      /\ b.spec.cron \in {"none", "valid", "invalid"}
  BY MaxTimeAssumption, TicksAssumption, LookbackAssumption
  DEF Breakglasses, Specs, Statuses, Times
<1>2. b.spec.duration # 0
  BY DEF WindowEnd
<1>3. b.spec.duration > 0
  BY <1>1, <1>2
<1>4. CASE b.spec.cron = "none"
  <2>1. WindowEnd(b, t) = b.spec.start + b.spec.duration
    <3>1. ResolveOneShotStart(b, t) = b.spec.start
      BY DEF ResolveOneShotStart
    <3> QED
      BY <1>2, <1>4, <3>1 DEF WindowEnd, ParseCronSchedule
  <2>2. ~(t <= b.spec.start + b.spec.duration)
    BY <1>1, <2>1
  <2> QED
    BY <1>3, <1>4, <2>2
<1>5. CASE b.spec.cron = "valid"
  <2> DEFINE prev  == FindPreviousActivation(t)
             begin == IF prev = NoTime /\ b.status.nextAt <= t
                      THEN b.status.nextAt ELSE prev
             s     == CronWindowStart(b, t)
  <2>1. s # NoTime /\ WindowEnd(b, t) = s + b.spec.duration
    BY <1>2, <1>5 DEF WindowEnd, ParseCronSchedule
  <2>2. /\ begin # NoTime
        /\ s = IF begin < b.spec.start THEN b.spec.start ELSE begin
    BY <2>1 DEF CronWindowStart
  <2>3. prev \in Times
    BY <1>1, TickTypes DEF FindPreviousActivation
  <2>4. begin \in Nat
    BY <1>1, <2>2, <2>3 DEF Times
  <2> HIDE DEF s, prev
  <2>5. s \in Nat /\ b.spec.start <= s /\ begin <= s
    BY <1>1, <2>2, <2>4
  <2>6. t > s + b.spec.duration
    BY <2>1
  <2>7. ASSUME NEW w \in Ticks, w <= t, t <= w + b.spec.duration
        PROVE  FALSE
    <3>1. w \in Nat /\ w > t - Lookback
      BY <1>1, <1>5, <2>7
    <3>2. CronNext(t) # NoTime
      BY CronNextAhead, <1>1
    <3>3. prev \in Nat /\ w <= prev
      BY <1>1, <2>7, <3>1, <3>2, PrevTick DEF prev
    <3>4. begin = prev
      BY <3>3
    <3> QED
      BY <1>1, <2>5, <2>6, <2>7, <3>1, <3>3, <3>4
  <2>8. ~(t <= b.spec.start + b.spec.duration)
    BY <1>1, <2>5, <2>6
  <2> QED
    BY <1>3, <2>7, <2>8
<1>6. CASE b.spec.cron = "invalid"
  BY <1>6 DEF WindowEnd, ParseCronSchedule
<1> QED
  BY <1>1, <1>4, <1>5, <1>6

\* A handler starts a grant or a revocation, or none.
LEMMA DispatchPromised ==
    ASSUME Promising, Inv, ApprovalInv', StartInv', Dispatch
    PROVE  [Promise!Next]_(Promise!vars)
<1>1. pc = "dispatch" /\ UNCHANGED <<now, obj, rbac>>
  BY DEF Dispatch, clusterVars
<1>2. Operation = "none" /\ UNCHANGED View
  BY <1>1 DEF Operation, View, Request, Finished, CurrentCondition
<1>3. /\ bg.spec = obj.spec /\ obj.spec.start # NoTime
      /\ bg \in Breakglasses /\ obj \in Breakglasses /\ now \in 0 .. MaxTime
  BY <1>1, WorkingSpec DEF Inv, TypeOK, ClusterTypeOK, LocalTypeOK, StartInv, WorkingStart
<1>4. CASE pc' = "idle" \/ \E c \in ConditionTypes : Reports(c)
  BY <1>1, <1>2, <1>4, EndsOperation, StopPromised DEF Inv
<1>5. CASE Grants
  <2>1. pc' \in {"create", "activate"} /\ Last(bg) = "RecurringPending"
    BY <1>5 DEF Grants
  <2>2. Operation' = "grant"
    BY <2>1 DEF Operation
  <2>3. Promise!Cleared
    <3>1. Cleared(bg)' /\ (Approved(bg)' => Approved(obj)')
          /\ bg'.spec.approval = obj'.spec.approval
      BY <2>1 DEF ApprovalInv, WorkingApproval, Granting
    <3>2. obj.spec.approval = "required" => obj.status.approvedBy = "human"
      BY <1>1, <3>1 DEF Cleared, Approved
    <3> QED
      BY <3>2 DEF Promise!Cleared
  <2>4. ~Finished
    BY <1>1, <2>1 DEF Inv, RevokeInv, Settled, Over, ReadCalls, Finished, Last
  <2>5. obj.spec.start <= now
    BY <1>1, <2>1 DEF StartInv, WorkingStart, GrantCalls
  <2>6. obj.spec.cron # "none" => Promise!InWindow(now)
    <3>1. obj.spec.cron # "invalid"
      <4>1. CASE obj.spec.cron = "invalid"
        <5>1. MaxActivationsReached(bg)
          BY <1>3, <1>5, <4>1 DEF Grants, ScheduleFails
        <5>2. bg' = StopRecurrence(bg)
          BY <1>5, <5>1 DEF Grants, ProcessRecurring
        <5> DEFINE z == [bg EXCEPT !.status.nextAt = NoTime]
        <5>3. z \in Breakglasses /\ z.status.nextAt = NoTime
          BY <1>3 DEF Breakglasses, Statuses, Times
        <5>4. bg' = SetCondition(z, "Failed")
          BY <5>2 DEF StopRecurrence
        <5> HIDE DEF z
        <5>5. bg'.status.nextAt = NoTime
          BY <5>3, <5>4, SetConditionEffect DEF ConditionTypes
        <5> QED
          BY <1>5, <5>5 DEF Grants, ShouldActivate
      <4> QED
        BY <4>1
    <3>2. obj.spec.cron \in {"none", "valid", "invalid"}
      BY <1>3 DEF Breakglasses, Specs
    <3>3. CASE obj.spec.cron = "valid"
      <4>1. InWindow(now)
        BY <2>1, <3>3, GrantStepInWindow DEF Promising, Inv
      <4> QED
        BY <3>3, <4>1 DEF InWindow, Promise!InWindow
    <3> QED
      BY <3>1, <3>2, <3>3
  <2>7. Promise!MayGrant
    BY <1>3, <2>3, <2>4, <2>5, <2>6 DEF Promise!MayGrant, Finished
  <2>8. Promise!StartGrant
    BY <1>2, <2>2, <2>7, Zenon DEF Promise!StartGrant, View, Request, Finished
  <2> QED
    BY <2>8 DEF Promise!Next
<1>6. CASE Expires
  <2>1. Operation' = "revoke"
    BY <1>6 DEF Expires, Operation
  <2>2. obj.spec.cron = "valid" => obj.spec.duration < Lookback
    <3>1. PICK s \in InitSpecs : obj.spec = [s EXCEPT !.start = obj.spec.start]
      BY DEF Inv, ScheduleInv
    <3>2. s \in Specs
      BY InitSpecsAssumption
    <3>3. s.cron = obj.spec.cron /\ s.duration = obj.spec.duration
      BY <3>1, <3>2 DEF Specs
    <3> QED
      BY <3>3 DEF Promising
  <2>3. WindowEnd(bg, now) # NoTime /\ now > WindowEnd(bg, now)
    BY <1>6 DEF Expires, IsExpired
  <2>4. /\ obj.spec.duration > 0
        /\ \A w \in Ticks \cup {obj.spec.start} :
               (obj.spec.cron = "none" => w = obj.spec.start)
                   => ~(w <= now /\ now <= w + obj.spec.duration)
    <3>1. FiringsGoOn
      BY DEF Promising
    <3> QED
      BY <1>3, <2>2, <2>3, <3>1, ExpiredIsOver
  <2>5. Promise!MayRevoke
    BY <2>4 DEF Promise!MayRevoke, Promise!InWindow
  <2>6. Promise!StartRevoke
    BY <1>2, <2>1, <2>5, Zenon DEF Promise!StartRevoke, View, Request, Finished
  <2> QED
    BY <2>6 DEF Promise!Next
<1>7. \/ pc' = "idle" \/ \E c \in ConditionTypes : Reports(c)
      \/ Grants \/ Expires
  BY DispatchMoves DEF Inv, ConditionTypes
<1> QED
  BY <1>4, <1>5, <1>6, <1>7

-----------------------------------------------------------------------------
\* The invariants proved elsewhere, taken together, are inductive.
LEMMA NextInv == Promising /\ Inv /\ [Next]_vars => Inv'
<1> SUFFICES ASSUME Promising, Inv, [Next]_vars PROVE Inv'
  OBVIOUS
<1>0. Guarded /\ Unforged
  BY DEF Promising, Guarded, Unforged
<1>1. TypeOK' /\ ApprovalInv' /\ StartInv' /\ CountInv' /\ CopyInv'
  BY <1>0, NextType, NextApproval, NextStart, NextCounts, NextCopies DEF Inv
<1>2. RevokeInv'
  BY <1>0, NextRevoke DEF Inv, Promising
<1>3. RealInv'
  BY NextReal DEF Inv, Promising
<1>4. ScheduleInv'
  BY NextSchedule DEF Inv, Promising
<1> QED
  BY <1>1, <1>2, <1>3, <1>4 DEF Inv

\* Every step of the controller is a step of Access or a stutter.
LEMMA NextPromised ==
    Promising /\ Inv /\ Inv' /\ [Next]_vars => [Promise!Next]_(Promise!vars)
<1> SUFFICES ASSUME Promising, Inv, Inv', [Next]_vars
             PROVE  [Promise!Next]_(Promise!vars)
  OBVIOUS
<1>1. ApprovalInv' /\ StartInv' /\ CountInv'
  BY DEF Inv
<1>2. CASE Controller
  BY <1>1, <1>2, BeginPromised, AddFinalizerPromised, DropFinalizerPromised,
     ListPromised, DeleteResourcePromised, CreateResourcePromised,
     RecordResourcesPromised, ActivatePromised, WriteStatusPromised, DispatchPromised
  DEF Controller
<1>3. CASE UserStep
  BY <1>3, UserPromised
<1>4. CASE WatchEvent \/ WatchRbac \/ FireTimer \/ Resync \/ Crash \/ Tick
  BY <1>4, RuntimePromised
<1>5. CASE UNCHANGED vars
  <2>1. UNCHANGED <<now, obj, rbac, pc, bg>>
    BY <1>5 DEF vars, clusterVars, recVars
  <2>2. UNCHANGED View
    BY <2>1 DEF View, Request, Finished, CurrentCondition
  <2>3. Operation' = Operation
    BY <2>1 DEF Operation
  <2> QED
    BY <2>2, <2>3, StopPromised
<1> QED
  BY <1>2, <1>3, <1>4, <1>5 DEF Next

\* The controller implements Access: with its crashes, conflicts, lost answers
\* and stale copies, whatever it does to the RBAC objects and the status is
\* something Access allows, at a time Access allows it.
THEOREM KeepsPromiseHolds == ASSUME Promising PROVE Spec => KeepsPromise
<1>1. Init => Inv
  BY InitType, InitApproval, InitStart, InitCounts, InitCopies, InitRevoke, InitReal,
     InitSchedule DEF Inv
<1>2. Inv /\ [Next]_vars => Inv'
  BY NextInv
<1>3. Inv /\ Inv' /\ [Next]_vars => [Promise!Next]_(Promise!vars)
  BY NextPromised
<1> QED
  BY <1>1, <1>2, <1>3, InitPromise, PTL DEF Spec, KeepsPromise, Promise!Spec
=============================================================================
