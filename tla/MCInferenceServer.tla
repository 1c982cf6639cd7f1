-------------------------- MODULE MCInferenceServer --------------------------
(***************************************************************************)
(* InferenceServer for TLC: more connections than the semaphore admits, or *)
(* three handlers in the queue of one gate.                                *)
(***************************************************************************)
EXTENDS InferenceServer, TLC

\* The connections of one endpoint are interchangeable.
Symmetry == Permutations(Asr) \cup Permutations(Rpc)

=============================================================================
