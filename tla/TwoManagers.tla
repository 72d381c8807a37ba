---------------------------- MODULE TwoManagers ----------------------------
(***************************************************************************)
(* Two managers on one cluster.  Leader election is off by default         *)
(* (cmd/cli/manager.go), so nothing but the optimistic concurrency of the  *)
(* API server stands between two reconciles of the same Breakglass.  Each  *)
(* manager has its own informers, work queue and reconcile; the API        *)
(* server, the clock and the people are shared.  The variables of         *)
(* Reconciler are the first manager's.                                     *)
(***************************************************************************)
EXTENDS Properties

VARIABLES
    cache2, cacheFresh2, rbacCache2, bgFresh2, queued2, timer2,
    pc2, bg2, todo2, kind2, caller2, ret2, wake2

Other == INSTANCE Reconciler WITH
    cache <- cache2, cacheFresh <- cacheFresh2, rbacCache <- rbacCache2,
    bgFresh <- bgFresh2, queued <- queued2, timer <- timer2, pc <- pc2,
    bg <- bg2, todo <- todo2, kind <- kind2, caller <- caller2, ret <- ret2,
    wake <- wake2

\* What only one manager ever changes.
own1 == <<cache, rbacCache, queueVars, recVars>>
own2 == <<cache2, rbacCache2, queued2, timer2, pc2, bg2, todo2, kind2, caller2,
          ret2, wake2>>

bothVars == <<vars, own2, cacheFresh2, bgFresh2>>

BothInit == Init /\ Other!Init

-----------------------------------------------------------------------------
\* What the other one writes makes a manager's copies old.
AgesFirst ==
    /\ cacheFresh' = (cacheFresh /\ obj' = obj)
    /\ bgFresh' = (bgFresh /\ obj' = obj)

AgesSecond ==
    /\ cacheFresh2' = (cacheFresh2 /\ obj' = obj)
    /\ bgFresh2' = (bgFresh2 /\ obj' = obj)

\* What a manager does on its own.
FirstStep ==
    /\ Controller \/ WatchEvent \/ WatchRbac \/ FireTimer \/ Crash
    /\ AgesSecond /\ UNCHANGED own2

SecondStep ==
    /\ \/ Other!Controller \/ Other!WatchEvent \/ Other!WatchRbac
       \/ Other!FireTimer \/ Other!Crash
    /\ AgesFirst /\ UNCHANGED own1

\* What happens to both.
SharedStep ==
    /\ UserStep \/ Tick
    /\ AgesSecond /\ UNCHANGED own2

BothNext == FirstStep \/ SecondStep \/ SharedStep

BothSpec == BothInit /\ [][BothNext]_bothVars

-----------------------------------------------------------------------------
(* Properties.                                                             *)

\* A recurring activation that two managers, or a manager and its retry after a
\* lost answer, both see due is counted once: between two counts there is a
\* firing.  The second status update meets a conflict, and a retry from a fresh
\* copy finds the schedule advanced (Status().Update, OnActivationGranted).
CountedOnce ==
    [][(/\ obj.spec.cron = "valid"
        /\ obj'.status.count > obj.status.count /\ obj.status.count > 0) =>
        \E w \in Ticks : obj.status.grantedAt < w /\ w <= now]_bothVars

\* A person's approval survives the status updates of both managers.
ApprovalSurvives ==
    [][obj.status.approvedBy = "human" => obj'.status.approvedBy = "human"]_bothVars
=============================================================================
