--------------------------- MODULE MCTwoManagers ---------------------------
(***************************************************************************)
(* Two managers in the smallest instances where they can get into each     *)
(* other's way: a request that is approved while both handle it, before or *)
(* after its start, and recurring ones that both find inside the window of *)
(* the first firing, with a second window before the horizon and with room *)
(* for another activation or without.                                      *)
(***************************************************************************)
EXTENDS TwoManagers

MCRecurring(max) ==
    [cron |-> "valid", start |-> 0, duration |-> 2, max |-> max,
     approval |-> "notRequired"]

MCSpecs ==
    {[cron |-> "none", start |-> 2, duration |-> 1, max |-> NoMax,
      approval |-> "required"],
     MCRecurring(NoMax), MCRecurring(1)}

MCTicks == {0, 2, 99}
=============================================================================
