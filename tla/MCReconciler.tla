---------------------------- MODULE MCReconciler ----------------------------
(***************************************************************************)
(* Small instances of the controller for TLC: the specs, and the firings   *)
(* of the cron expression, that the configurations pick.  A last firing    *)
(* lies beyond every horizon, so that a schedule never runs out.           *)
(***************************************************************************)
EXTENDS Refinement

OneShot(start, duration, approval) ==
    [cron |-> "none", start |-> start, duration |-> duration, max |-> NoMax,
     approval |-> approval]

Recurring(start, duration, max, approval) ==
    [cron |-> "valid", start |-> start, duration |-> duration, max |-> max,
     approval |-> approval]

Unparsable ==
    [Recurring(NoTime, 1, NoMax, "notRequired") EXCEPT !.cron = "invalid"]

EmptySchedule == OneShot(NoTime, 0, "notRequired")

\* Approval required: one-shot, recurring with a start inside an open window
\* and a limit, recurring with the start defaulted, recurring with the limit 0.
MCApprovalSpecs ==
    {OneShot(1, 2, "required"), Recurring(3, 3, 1, "required"),
     Recurring(NoTime, 2, NoMax, "required"), Recurring(1, 2, 0, "required")}

\* Every shape of schedule, the refused ones too.
MCAutoSpecs ==
    {OneShot(1, 2, "required"), OneShot(1, 0, "unset"), EmptySchedule,
     Unparsable, Recurring(3, 3, 0, "notRequired"),
     Recurring(NoTime, 2, 2, "unset")}

MCTimelySpecs ==
    {OneShot(1, 4, "notRequired"), Recurring(NoTime, 3, NoMax, "unset"),
     Recurring(2, 3, 1, "notRequired")}

MCProgressSpecs == {OneShot(1, 2, "required"), OneShot(3, 1, "required")}

MCDeletionSpecs ==
    {OneShot(1, 1, "notRequired"), OneShot(1, 1, "required"),
     Recurring(NoTime, 1, NoMax, "notRequired")}

MCReactivationSpecs == {Recurring(NoTime, 2, NoMax, "notRequired")}

MCWindowSpecs == {Recurring(0, 2, NoMax, "notRequired")}

MCLateSpecs == {OneShot(1, 1, "notRequired")}

MCTicks == {2, 6, 99}
MCSparseTicks == {1, 7, 99}
MCEarlyTicks == {1, 5, 99}
=============================================================================
