--------------------------- MODULE MCClientBrain ---------------------------
(***************************************************************************)
(* ClientBrain for TLC.  Two workers as in the code; the sessions supersede *)
(* one another while a worker still plans, acts or speaks for an older one. *)
(***************************************************************************)
EXTENDS ClientBrain

=============================================================================
