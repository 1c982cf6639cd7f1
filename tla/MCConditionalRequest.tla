------------------------ MODULE MCConditionalRequest ------------------------
(***************************************************************************)
(* HomeAgent for TLC, with tools known by what they do as well as by how   *)
(* their names read: search_and_play reads like a query and starts music.  *)
(***************************************************************************)
EXTENDS HomeAgent

CONSTANT Changes         \* the tools that change something in the house

\* A schema returns the kitchen in one spelling and refuses nonsense.
MCCoerced == [kitchen |-> "kitchen", Kitchen |-> "kitchen", nonsense |-> "refused"]

\* planner.py: "Never run a conditional write without evaluating its condition";
\* src/README.md: conditional writes "are not supported".  No call that was begun
\* for a text with "if" or "unless" changes anything.
NoConditionalWrite == text.conditional => \A i \in DOMAIN made : made[i].tool \notin Changes

=============================================================================
