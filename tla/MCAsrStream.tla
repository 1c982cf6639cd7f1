---------------------------- MODULE MCAsrStream ----------------------------
(***************************************************************************)
(* AsrStream for TLC: a session is superseded by another, and continued.   *)
(***************************************************************************)
EXTENDS AsrStream

=============================================================================
