------------------------------ MODULE MCWaiting ------------------------------
(***************************************************************************)
(* Who waits for a model, for TLC: the gate alone, with a queue of three   *)
(* behind one holder, or the service that waits at its gates, with a model *)
(* that may be stuck and a client that may not read.  One of the two is    *)
(* chosen and runs; the state of the other is fixed.                       *)
(***************************************************************************)
EXTENDS FairGate

CONSTANTS Asr, Rpc, SlowReaders, MaxConnections, MaxCalls       \* InferenceServer

VARIABLES program,
          thread, gone, slots, gpuLine, gpuHolder,              \* InferenceServer
          needleLine, needleHolder, watched, passed

Service == INSTANCE InferenceServer

service == <<thread, gone, slots, gpuLine, gpuHolder, needleLine, needleHolder,
             watched, passed>>

WaitingInit == program \in {"gate", "service"} /\ Init /\ Service!Init

WaitingNext == /\ UNCHANGED program
               /\ \/ program = "gate" /\ Next /\ UNCHANGED service
                  \/ program = "service" /\ Service!Next /\ UNCHANGED vars

WaitingSpec == /\ WaitingInit
               /\ [][WaitingNext]_<<program, vars, service>>
               /\ SchedulerFairness /\ Service!Fairness

-----------------------------------------------------------------------------
\* InferenceServer: every request ends, though a model may be stuck for ever.
EveryRequestEnds == Service!EveryRequestEnds

\* InferenceServer: nor does a client that stops reading keep the others waiting.
NobodyQueuesForEver == Service!NobodyQueuesForEver

=============================================================================
