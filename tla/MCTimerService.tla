--------------------------- MODULE MCTimerService ---------------------------
(***************************************************************************)
(* TimerService for TLC.  A countdown of one second is enough for a display *)
(* to change while a request to openHAB is under way, and one restart for  *)
(* every point at which the process can die.                               *)
(***************************************************************************)
EXTENDS TimerService

=============================================================================
