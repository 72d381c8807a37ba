------------------------------ MODULE MCWindows ------------------------------
(***************************************************************************)
(* Every pattern of firings up to the horizon, with one more beyond it (a  *)
(* cron expression that fires goes on firing), and the one that never      *)
(* fires; every schedule with small start, duration and limit.             *)
(***************************************************************************)
EXTENDS Windows

MCFirings == {T \cup {99} : T \in SUBSET (0 .. 7)} \cup {{}}
MCNoFirings == {{}}

MCWindowSpecs ==
    [cron : {"valid"}, start : 0 .. 4, duration : 1 .. 3, max : {-1, 1, 2},
     approval : {"unset"}]
    \cup [cron : {"none"}, start : 0 .. 4, duration : 0 .. 3, max : {-1},
          approval : {"unset"}]
=============================================================================
