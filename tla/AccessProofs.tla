---------------------------- MODULE AccessProofs ----------------------------
(***************************************************************************)
(* Access is safe for every set of specs, every schedule of firings and    *)
(* every number of RBAC objects.                                           *)
(***************************************************************************)
EXTENDS Access, TLAPS

Requests ==
    [spec : Specs, approved : BOOLEAN, deleting : BOOLEAN, exists : BOOLEAN]

\* There is access, or a grant in progress.
Granting == grants # {} \/ op = "grant"

Limits ==
    /\ request.spec.max # NoMax => count <= request.spec.max
    /\ request.spec.cron = "none" => count <= 1

\* Safe is not inductive: a grant in progress must already satisfy what access
\* will need, and a finished request must have none in progress.
SafeInv ==
    /\ now \in Nat /\ count \in Nat /\ request \in Requests
    /\ Granting => /\ Cleared
                   /\ request.spec.start # NoTime /\ request.spec.start <= now
    /\ over => ~Granting
    /\ Limits

\* What the comparisons of times and counts need.
LEMMA SpecFields ==
    ASSUME NEW s \in Specs
    PROVE  s.start \in Int /\ s.max \in Nat \cup {NoMax}
BY DEF Specs, Times, NoTime

\* A fresh request has no grants and promises nothing yet.
LEMMA InitSafe == (InitSpecs \subseteq Specs) /\ Init => SafeInv
<1> SUFFICES ASSUME InitSpecs \subseteq Specs, Init PROVE SafeInv
  OBVIOUS
<1>1. PICK s \in Specs :
          request = [spec |-> s, approved |-> FALSE, deleting |-> FALSE, exists |-> TRUE]
  BY DEF Init
<1>2. request \in Requests /\ request.spec = s
  BY <1>1 DEF Requests
<1>3. Limits
  BY <1>2, SpecFields DEF Init, Limits
<1> QED
  BY <1>2, <1>3 DEF Init, SafeInv, Granting

\* Only an operation that starts a grant has to look at the request; a grant in
\* progress goes on under the terms it started with.
LEMMA GrantingSafe ==
    ASSUME SafeInv,
           \/ StartGrant \/ (\E r \in Resources : Grant(r)) \/ Record \/ Granted
           \/ StartRevoke \/ (\E r \in Resources : Revoke(r)) \/ Stop \/ Finish
    PROVE  SafeInv'
<1>1. UNCHANGED <<now, request, count>>
  BY DEF StartGrant, Grant, Record, Granted, StartRevoke, Revoke, Stop, Finish
<1>2. Limits' /\ now' \in Nat /\ count' \in Nat /\ request' \in Requests
  BY <1>1 DEF SafeInv, Limits
<1>3. CASE StartGrant
  BY <1>1, <1>2, <1>3 DEF StartGrant, MayGrant, SafeInv, Granting, Cleared
<1>4. CASE \E r \in Resources : Grant(r)
  BY <1>1, <1>2, <1>4 DEF Grant, SafeInv, Granting, Cleared
<1>5. CASE Record \/ Granted \/ StartRevoke \/ Stop
  BY <1>1, <1>2, <1>5
  DEF Record, Granted, StartRevoke, Stop, SafeInv, Granting, Cleared
<1>6. CASE \E r \in Resources : Revoke(r)
  BY <1>1, <1>2, <1>6 DEF Revoke, SafeInv, Granting, Cleared
<1>7. CASE Finish
  BY <1>1, <1>2, <1>7 DEF Finish, SafeInv, Granting, Cleared
<1> QED
  BY <1>3, <1>4, <1>5, <1>6, <1>7

\* An activation is counted only below the limit.
LEMMA CommitSafe ==
    ASSUME SafeInv, Commit
    PROVE  SafeInv'
<1>1. UNCHANGED <<now, request, grants, over>> /\ count' = count + 1 /\ op' = "none"
  BY DEF Commit
<1>2. request.spec \in Specs /\ count \in Nat
  BY DEF SafeInv, Requests
<1>3. Limits'
  BY <1>1, <1>2, SpecFields DEF Commit, BelowLimit, Limits
<1>4. Granting' => Granting
  BY <1>1 DEF Granting
<1> QED
  BY <1>1, <1>2, <1>3, <1>4 DEF SafeInv, Cleared

\* People: no change of the request takes its clearance or its start away.
LEMMA RequestSafe ==
    ASSUME SafeInv, Approve \/ SetStart \/ MarkDeleted \/ Go
    PROVE  SafeInv'
<1>1. UNCHANGED <<now, grants, count, over, op>>
  BY DEF Approve, SetStart, MarkDeleted, Go
<1>2. request \in Requests /\ now \in Nat
  BY DEF SafeInv
<1>3. CASE Approve \/ MarkDeleted \/ Go
  <2>1. /\ request' \in Requests /\ request'.spec = request.spec
        /\ request.approved => request'.approved
    BY <1>2, <1>3 DEF Approve, MarkDeleted, Go, Requests
  <2> QED
    BY <1>1, <2>1 DEF SafeInv, Granting, Limits, Cleared
<1>4. CASE SetStart
  <2>1. ~Granting
    BY <1>4 DEF SetStart, SafeInv, Granting
  <2>2. PICK t \in 0 .. now : request' = [request EXCEPT !.spec.start = t]
    BY <1>4 DEF SetStart
  <2>3. t \in Times
    BY <1>2, <2>2 DEF Times
  <2>4. /\ request' \in Requests
        /\ request'.spec.max = request.spec.max
        /\ request'.spec.cron = request.spec.cron
    BY <1>2, <2>2, <2>3 DEF Requests, Specs
  <2> QED
    BY <1>1, <2>1, <2>4 DEF SafeInv, Granting, Limits
<1> QED
  BY <1>3, <1>4

\* Time only opens windows.
LEMMA TickSafe ==
    ASSUME SafeInv, Tick
    PROVE  SafeInv'
<1>1. request.spec \in Specs /\ now \in Nat
  BY DEF SafeInv, Requests
<1> QED
  BY <1>1, SpecFields DEF SafeInv, Tick, Granting, Limits, Cleared

\* Every operation of the abstract specification keeps the invariant.
LEMMA NextSafe == SafeInv /\ [Next]_vars => SafeInv'
<1> SUFFICES ASSUME SafeInv, [Next]_vars PROVE SafeInv'
  OBVIOUS
<1>1. CASE UNCHANGED vars
  BY <1>1 DEF vars, SafeInv, Granting, Limits, Cleared
<1>2. CASE Next
  BY <1>2, GrantingSafe, CommitSafe, RequestSafe, TickSafe DEF Next
<1> QED
  BY <1>1, <1>2

\* Every behaviour Access allows keeps access within the approval, the start,
\* the limit and the life of the request.
THEOREM AccessIsSafe ==
    ASSUME InitSpecs \subseteq Specs
    PROVE  Spec => []Safe
<1>1. Init => SafeInv
  BY InitSafe
<1>2. SafeInv => Safe
  BY DEF SafeInv, Safe, Granting, Limits
<1> QED
  BY <1>1, <1>2, NextSafe, PTL DEF Spec
=============================================================================
