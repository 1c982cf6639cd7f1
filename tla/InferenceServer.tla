--------------------------- MODULE InferenceServer ---------------------------
(***************************************************************************)
(* handler() of the inference service (src/jarvis/server.py): one thread   *)
(* per accepted connection, a semaphore that counts the connections, two   *)
(* gates that admit the threads to the shared models, and a watchdog that  *)
(* ends the process when a model call is stuck.                            *)
(*                                                                         *)
(* The gates are two FifoLocks, which FairGate implements.  One action is  *)
(* one step of a handler between two points where it can wait: recv, a     *)
(* gate, a model call, a write to its client.  The timing records of a     *)
(* request are writes to its client too: TimingForwarder sends them from   *)
(* the thread that logs, the one of queue.wait and the one of the model    *)
(* call before the gate is left.  Of a message the model keeps its kind    *)
(* and the number of model calls it needs; a restart forgets everything.   *)
(***************************************************************************)
EXTENDS Integers, Sequences, FiniteSets

CONSTANTS Asr,             \* the connections to /asr
          Rpc,             \* the connections to /rpc
          SlowReaders,     \* the clients that may stop reading what they are sent
          Nobody,          \* the holder of a free gate
          MaxConnections,  \* server_max_connections
          MaxCalls         \* bound: model calls for one message

Conn == Asr \cup Rpc

ASSUME ServerAssumption == /\ Asr \cap Rpc = {} /\ Nobody \notin Conn
                           /\ SlowReaders \subseteq Conn
                           /\ MaxConnections \in Nat \ {0}
                           /\ MaxCalls \in Nat \ {0}

VARIABLES thread,                    \* thread[c]: the handler of connection c
          gone,                      \* gone[c]: the client has closed the connection
          slots,                     \* the connections the semaphore still grants
          gpuLine, gpuHolder,        \* gpu_lock
          needleLine, needleHolder,  \* needle_lock
          watched,                   \* watched[c]: inference_deadline runs for c
          passed                     \* history: passed[w][c], the model calls c
                                     \* began since w queued for the same gate

gates == <<gpuLine, gpuHolder, needleLine, needleHolder>>
vars == <<thread, gone, slots, gates, watched, passed>>

Gpu == INSTANCE FifoLock WITH Customer <- Conn, line <- gpuLine, owner <- gpuHolder
Needle == INSTANCE FifoLock WITH Customer <- Conn, line <- needleLine, owner <- needleHolder

(***************************************************************************)
(* off       no handler             refused   over capacity, closing       *)
(* ready     writes the greeting    recv      waits for a message          *)
(* ask       about to enter a gate  wait      in the queue of the gate     *)
(* logWait   admitted, writes the timing of queue.wait                     *)
(* model     in the model call                                             *)
(* logModel, logRaised   writes the timing of the call, still admitted     *)
(* answer    writes a result        gap       writes "Audio stream timed out" *)
(* ttsStart  writes the format of the speech to come                       *)
(* logBusy   gave up waiting, writes the timing of queue.wait              *)
(* error     writes the error that ends the connection                     *)
(***************************************************************************)
Writing == {"ready", "logWait", "logModel", "logRaised", "answer", "gap",
            "ttsStart", "logBusy", "error"}
Location == Writing \cup {"off", "refused", "recv", "ask", "wait", "model"}
Job == {"none", "start", "feed", "finish", "plan", "speak"}

Off == [at |-> "off", job |-> "none", left |-> 0, active |-> FALSE]
Unpassed == [w \in Conn |-> [c \in Conn |-> 0]]

Init == /\ thread = [c \in Conn |-> Off]
        /\ gone = [c \in Conn |-> FALSE]
        /\ slots = MaxConnections
        /\ Gpu!LockInit /\ Needle!LockInit
        /\ watched = [c \in Conn |-> FALSE]
        /\ passed = Unpassed

-----------------------------------------------------------------------------
At(c, where) == thread[c].at = where
Go(c, where) == thread' = [thread EXCEPT ![c].at = where]

\* Bug: the semaphore is released on the way out of the loop only, not in the
\* finally clause.
EndWithoutFinally(c) ==
  /\ thread' = [thread EXCEPT ![c] = Off]
  /\ slots' = IF At(c, "error") THEN slots ELSE slots + 1

\* The finally clause of handler(), and the return that closes the connection.
End(c) == /\ thread' = [thread EXCEPT ![c] = Off]
          /\ slots' = slots + 1

\* A connection arrives: acquire(blocking=False).
Connect(c) == /\ At(c, "off")
              /\ IF slots > 0 THEN Go(c, "ready") /\ slots' = slots - 1
                              ELSE Go(c, "refused") /\ UNCHANGED slots
              /\ gone' = [gone EXCEPT ![c] = FALSE]
              /\ UNCHANGED <<gates, watched, passed>>

\* close(1013): the handler returns before its try block.
Refuse(c) == /\ At(c, "refused")
             /\ thread' = [thread EXCEPT ![c] = Off]
             /\ UNCHANGED <<gone, slots, gates, watched, passed>>

\* The client closes its connection, or the connection breaks.
GoAway(c) == /\ ~At(c, "off") /\ ~gone[c]
             /\ gone' = [gone EXCEPT ![c] = TRUE]
             /\ UNCHANGED <<thread, slots, gates, watched, passed>>

-----------------------------------------------------------------------------
(* The loop of handler(): what recv(timeout=5) returns.                    *)

Received(c, job, left, where) ==
  /\ At(c, "recv")
  /\ thread' = [thread EXCEPT ![c].at = where, ![c].job = job, ![c].left = left]
  /\ UNCHANGED <<gone, slots, gates, watched, passed>>

StartStream(c) == c \in Asr /\ Received(c, "start", 1, "ask")

\* A binary message of an active stream, fed to the model block by block.
Audio(c) == /\ c \in Asr /\ thread[c].active
            /\ \E n \in 1..MaxCalls : Received(c, "feed", n, "ask")

FinishStream(c) == c \in Asr /\ thread[c].active /\ Received(c, "finish", 1, "ask")

CancelStream(c) == /\ c \in Asr /\ At(c, "recv")
                   /\ thread' = [thread EXCEPT ![c].active = FALSE]
                   /\ UNCHANGED <<gone, slots, gates, watched, passed>>

Plan(c) == c \in Rpc /\ Received(c, "plan", 1, "ask")

\* n chunks of speech and the call that finds no more.
Speak(c) == c \in Rpc /\ \E n \in 1..MaxCalls : Received(c, "speak", n + 1, "ttsStart")

\* What raises: no JSON, an unknown kind, asr_finish without a stream, half a
\* sample, a stream or a text that is too long, a speed out of range.
Unsupported(c) == Received(c, "none", 0, "error")

\* Five seconds without a message: an active stream is discarded.
NoAudio(c) == /\ At(c, "recv") /\ thread[c].active
              /\ thread' = [thread EXCEPT ![c].at = "gap", ![c].active = FALSE]
              /\ UNCHANGED <<gone, slots, gates, watched, passed>>

\* recv raises ConnectionClosed.
RecvFails(c) == /\ At(c, "recv") /\ gone[c]
                /\ End(c)
                /\ UNCHANGED <<gone, gates, watched, passed>>

Receive(c) == \/ StartStream(c) \/ Audio(c) \/ FinishStream(c) \/ CancelStream(c)
              \/ Plan(c) \/ Speak(c) \/ Unsupported(c) \/ NoAudio(c)

-----------------------------------------------------------------------------
(* A model call: with gate, inference_deadline().                          *)

UsesNeedle(c) == thread[c].job = "plan"
LineOf(c) == IF UsesNeedle(c) THEN needleLine ELSE gpuLine

\* A step of the gate that the job of c uses; the other gate is left alone.
GateStep(c, onNeedle, onGpu) ==
  IF UsesNeedle(c) THEN onNeedle /\ UNCHANGED <<gpuLine, gpuHolder>>
                   ELSE onGpu /\ UNCHANGED <<needleLine, needleHolder>>

\* __enter__ of the gate.
AskFreeGate(c) == /\ At(c, "ask")
                  /\ GateStep(c, Needle!ServedOnArrival(c), Gpu!ServedOnArrival(c))
                  /\ Go(c, "logWait")
                  /\ UNCHANGED <<gone, slots, watched, passed>>

AskBusyGate(c) == /\ At(c, "ask")
                  /\ GateStep(c, Needle!JoinLine(c), Gpu!JoinLine(c))
                  /\ Go(c, "wait")
                  /\ passed' = [passed EXCEPT ![c] = [d \in Conn |-> 0]]
                  /\ UNCHANGED <<gone, slots, watched>>

Admitted(c) == /\ At(c, "wait")
               /\ GateStep(c, Needle!Serve(c), Gpu!Serve(c))
               /\ Go(c, "logWait")
               /\ passed' = [passed EXCEPT ![c] = [d \in Conn |-> 0]]
               /\ UNCHANGED <<gone, slots, watched>>

\* Bug: a waiter without a deadline.
NeverWaitsTooLong(c) == FALSE

\* The 30 s of the queue are over: TimeoutError, after the timing is written.
WaitedTooLong(c) == /\ At(c, "wait")
                    /\ GateStep(c, Needle!Leave(c), Gpu!Leave(c))
                    /\ Go(c, "logBusy")
                    /\ passed' = [passed EXCEPT ![c] = [d \in Conn |-> 0]]
                    /\ UNCHANGED <<gone, slots, watched>>

\* Bug: a model call without inference_deadline.
EnterModelUnwatched(c) == /\ At(c, "logWait")
                          /\ Go(c, "model")
                          /\ UNCHANGED <<gone, slots, gates, watched, passed>>

\* The timing of queue.wait is written, or the client is gone and the handler
\* of the log ignores it; the deadline starts, but for the creation of a stream.
EnterModel(c) ==
  /\ At(c, "logWait")
  /\ Go(c, "model")
  /\ watched' = [watched EXCEPT ![c] = thread[c].job # "start"]
  /\ passed' = [w \in Conn |-> IF \E i \in 1..Len(LineOf(c)) : LineOf(c)[i] = w
                               THEN [passed[w] EXCEPT ![c] = @ + 1] ELSE passed[w]]
  /\ UNCHANGED <<gone, slots, gates>>

\* Where c goes when its model call is over and the gate left: to the answer,
\* or without one back to recv, or to the error.
Outcome(c, ok) ==
  LET t == thread[c]
  IN IF ~ok THEN [t EXCEPT !.at = "error"]
     ELSE IF t.job = "start" THEN [t EXCEPT !.at = "recv", !.left = 0, !.active = TRUE]
     ELSE IF t.job = "finish" THEN [t EXCEPT !.at = "answer", !.left = 0, !.active = FALSE]
     ELSE [t EXCEPT !.at = "answer", !.left = @ - 1]

\* Bug: the gate is taken once for the whole speech.
ReleaseAfterLastChunk(c, ok) ==
  IF ok /\ thread[c].job = "speak" /\ thread[c].left > 1
  THEN /\ thread' = [thread EXCEPT ![c].at = "logWait", ![c].left = @ - 1]
       /\ UNCHANGED <<gates, watched>>
  ELSE /\ thread' = [thread EXCEPT ![c] = Outcome(c, ok)]
       /\ watched' = [watched EXCEPT ![c] = FALSE]
       /\ GateStep(c, Needle!Free(c), Gpu!Free(c))

\* Bug: an exception of the model leaves the gate busy.
ReleaseOnResultOnly(c, ok) ==
  /\ thread' = [thread EXCEPT ![c] = Outcome(c, ok)]
  /\ watched' = [watched EXCEPT ![c] = FALSE]
  /\ IF ok THEN GateStep(c, Needle!Free(c), Gpu!Free(c)) ELSE UNCHANGED gates

\* Leaving the with block, on a result and on an exception alike.
Release(c, ok) == /\ thread' = [thread EXCEPT ![c] = Outcome(c, ok)]
                  /\ watched' = [watched EXCEPT ![c] = FALSE]
                  /\ GateStep(c, Needle!Free(c), Gpu!Free(c))

\* The creation of a stream and a chunk of speech are not timed: the gate is
\* left at once.  A generator logs its timing when it is exhausted.
Timed(c) == ~(thread[c].job = "start" \/ (thread[c].job = "speak" /\ thread[c].left > 1))

ModelReturns(c) == /\ At(c, "model")
                   /\ IF Timed(c) THEN Go(c, "logModel") /\ UNCHANGED <<gates, watched>>
                                  ELSE Release(c, TRUE)
                   /\ UNCHANGED <<gone, slots, passed>>

ModelRaises(c) == /\ At(c, "model") /\ thread[c].job # "start"
                  /\ Go(c, "logRaised")
                  /\ UNCHANGED <<gone, slots, gates, watched, passed>>

LeaveModel(c) == /\ At(c, "logModel") \/ At(c, "logRaised")
                 /\ Release(c, At(c, "logModel"))
                 /\ UNCHANGED <<gone, slots, passed>>

\* A model call took more than 20 s, or 30 s for speech: os._exit(1), and
\* systemd starts the service again.
Watchdog(c) == /\ watched[c]
               /\ thread' = [d \in Conn |-> Off]
               /\ gone' = [d \in Conn |-> FALSE]
               /\ slots' = MaxConnections
               /\ gpuLine' = <<>> /\ gpuHolder' = Nobody
               /\ needleLine' = <<>> /\ needleHolder' = Nobody
               /\ watched' = [d \in Conn |-> FALSE]
               /\ passed' = Unpassed

-----------------------------------------------------------------------------
(* The writes outside the gates.                                           *)

\* What follows an answer: the next block of audio or speech, the next message,
\* or the end of a request of its own connection.
Answered(c) ==
  LET t == thread[c]
  IN IF t.left > 0 THEN Go(c, "ask") /\ UNCHANGED slots
     ELSE IF c \in Asr THEN Go(c, "recv") /\ UNCHANGED slots
     ELSE End(c)

\* A write ends, unless the client is gone: then it raises ConnectionClosed.
Sent(c) == /\ ~gone[c]
           /\ \/ (At(c, "ready") \/ At(c, "gap")) /\ Go(c, "recv") /\ UNCHANGED slots
              \/ At(c, "ttsStart") /\ Go(c, "ask") /\ UNCHANGED slots
              \/ At(c, "answer") /\ Answered(c)
              \/ At(c, "error") /\ End(c)
           /\ UNCHANGED <<gone, gates, watched, passed>>

SendFails(c) == /\ gone[c]
                /\ thread[c].at \in {"ready", "gap", "ttsStart", "answer", "error"}
                /\ End(c)
                /\ UNCHANGED <<gone, gates, watched, passed>>

BusyLogged(c) == /\ At(c, "logBusy")
                 /\ Go(c, "error")
                 /\ UNCHANGED <<gone, slots, gates, watched, passed>>

\* The steps of a handler that only its own thread, or its client, can delay.
Handle(c) == \/ Refuse(c) \/ RecvFails(c) \/ AskFreeGate(c) \/ AskBusyGate(c)
             \/ Admitted(c) \/ EnterModel(c) \/ LeaveModel(c)
             \/ Sent(c) \/ SendFails(c) \/ BusyLogged(c)

Next == \E c \in Conn : \/ Connect(c) \/ GoAway(c) \/ Receive(c) \/ Handle(c)
                        \/ WaitedTooLong(c) \/ ModelReturns(c) \/ ModelRaises(c)
                        \/ Watchdog(c)

Spec == Init /\ [][Next]_vars

(***************************************************************************)
(* Threads are scheduled.  A write ends when the client reads or is gone;  *)
(* only a slow reader may leave it pending for ever.  A model call need    *)
(* not return: it is the watchdog that ends a stuck one.  Only new_state,  *)
(* which is not watched and runs no inference, is taken to return.         *)
(***************************************************************************)
Unblocked(c) == c \notin SlowReaders \/ gone[c] \/ thread[c].at \notin Writing

Fairness == \A c \in Conn : /\ WF_vars(Unblocked(c) /\ Handle(c))
                           /\ WF_vars(WaitedTooLong(c))
                           /\ WF_vars(thread[c].job = "start" /\ ModelReturns(c))
                           /\ WF_vars(Watchdog(c))

-----------------------------------------------------------------------------
Accepted(c) == thread[c].at \notin {"off", "refused"}
InGate(c) == thread[c].at \in {"logWait", "model", "logModel", "logRaised"}

\* Type correctness of the server's state.
TypeOK == /\ thread \in [Conn -> [at : Location, job : Job, left : 0..(MaxCalls + 1),
                                  active : BOOLEAN]]
          /\ gone \in [Conn -> BOOLEAN]
          /\ slots \in 0..MaxConnections
          /\ watched \in [Conn -> BOOLEAN]
          /\ gpuHolder \in Conn \cup {Nobody} /\ needleHolder \in Conn \cup {Nobody}

\* No connection slot leaks and none is released twice, on whatever path a
\* handler ends: an answer, an error, a lost client, a busy gate, a restart.
SlotsAgree == slots = MaxConnections - Cardinality({c \in Conn : Accepted(c)})

\* A thread is between a gate's __enter__ and __exit__ exactly when the gate
\* says so; so no two threads are in the same model, and none keeps a gate.  The
\* watchdog runs only while its thread is in a model call: waiting in a queue,
\* receiving and answering never restart the service.
GatesAgree ==
  /\ \A c \in Conn : gpuHolder = c <=> (InGate(c) /\ ~UsesNeedle(c))
  /\ \A c \in Conn : needleHolder = c <=> (InGate(c) /\ UsesNeedle(c))
  /\ \A c \in Conn : (\E i \in 1..Len(LineOf(c)) : LineOf(c)[i] = c) <=> At(c, "wait")
  /\ \A c \in Conn : watched[c] => InGate(c) /\ thread[c].job # "start"

\* The server's ledgers are right in every state: types, slots, gates, watchdog.
LedgersAgree == TypeOK /\ SlotsAgree /\ GatesAgree

\* API.md: the queue is "released between audio chunks".  Whoever waits for a
\* model sees at most one call of every other connection begin before its own.
OneCallEach == \A w, c \in Conn : passed[w][c] <= 1

\* API.md: "network writes do not hold that queue".
NetworkWritesHoldNoGate == \A c \in Conn : thread[c].at \in Writing => ~InGate(c)

\* Every request is answered, refused or cut off if the clients read their
\* answers, though a model may be stuck for ever: the queue has a deadline and
\* the call a watchdog.
EveryRequestEnds ==
  (\A c \in SlowReaders : WF_vars(Handle(c)))
    => \A c \in Conn : At(c, "ask") ~> At(c, "recv") \/ At(c, "off")

\* Even when a client stops reading while it holds a gate, no other connection
\* waits in the queue for ever.
NobodyQueuesForEver == \A c \in Conn : At(c, "wait") ~> ~At(c, "wait")

=============================================================================
