------------------------ MODULE MCBackgroundJobPlugin ------------------------
(***************************************************************************)
(* The clock for the runs of BackgroundJobPlugin, which have one worker.   *)
(***************************************************************************)
EXTENDS BackgroundJobPlugin

OneClock == [w \in Worker |-> 0]
=============================================================================
