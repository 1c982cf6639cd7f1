-------------------------- MODULE StandaloneClient --------------------------
(***************************************************************************)
(* One call of InferenceClient (src/clients/inference_client.py), which    *)
(* other projects use: plan, speak or transcribe.  Every call owns a       *)
(* connection; speak and transcribe are generators, which the consumer may *)
(* abandon; transcribe has a thread that sends what the consumer's         *)
(* iterable of audio gives, or fails to give.                              *)
(*                                                                         *)
(* The thread that drains a speech is in SpeechOutput; timing records,     *)
(* which every loop passes over, are left out.  The service may answer     *)
(* late, never or with an error, and the connection may break.             *)
(***************************************************************************)
EXTENDS Integers, Sequences

CONSTANT Backlog         \* events of the service that nobody has received

VARIABLES call,          \* the operation, where its caller is, what it raised, and
                         \* whether its last event came
          sender,        \* where the sending thread is
          errors,        \* what it has put into errors
          socket,        \* the connection: who ended it first, and self.ws is closed
          events         \* from the service, not received

vars == <<call, sender, errors, socket, events>>

Init == /\ call = [op |-> "plan", at |-> "ended", raised |-> "nothing", final |-> FALSE]
        /\ sender = "none" /\ errors = "nothing"
        /\ socket = [over |-> "client", closed |-> TRUE, finish |-> FALSE]
        /\ events = <<>>

\* Closing a connection, by the caller or by the thread that sends.
Shut(who) == socket' = [socket EXCEPT !.closed = TRUE, !.over = IF @ = "nobody" THEN who ELSE @]

\* The next call; a thread that an earlier one left blocked in its iterable has ended.
Connect == /\ call.at = "ended" /\ sender \in {"none", "done"}
           /\ \E op \in {"plan", "speak", "transcribe"} :
                call' = [op |-> op, at |-> "greeting", raised |-> "nothing", final |-> FALSE]
           /\ sender' = "none" /\ errors' = "nothing" /\ events' = <<>>
           /\ socket' = [over |-> "nobody", closed |-> FALSE, finish |-> FALSE]

\* The service is ready and the request is sent.
Request == /\ call.at = "greeting" /\ socket.over = "nobody"
           /\ call' = [call EXCEPT !.at = "receiving"]
           /\ sender' = IF call.op = "transcribe" THEN "pulling" ELSE "none"
           /\ UNCHANGED <<errors, socket, events>>

Leaves(cause) == call' = [call EXCEPT !.at = "leaving", !.raised = cause]

\* Bug: a failure on the way is reported as it comes.
RaisesAnyway(cause) == Leaves(cause)

\* The except clause: a failure of the sending thread is the one that is raised.
Raises(cause) == Leaves(IF errors # "nothing" THEN errors ELSE cause)

\* Not ready in time, another protocol, or a connection that is lost.
RequestFails == /\ call.at = "greeting"
                /\ Leaves("service")
                /\ UNCHANGED <<sender, errors, socket, events>>

Receive ==
  /\ call.at = "receiving" /\ events # <<>>
  /\ CASE Head(events) = "error" -> Raises("service")
       [] Head(events) = "last" -> call' = [call EXCEPT !.at = "leaving", !.final = TRUE]
       [] OTHER -> call' = [call EXCEPT !.at = "yielded"]
  /\ events' = Tail(events)
  /\ UNCHANGED <<sender, errors, socket>>

\* Bug: recv has no timeout.
ReceiveFailsOnLoss == /\ call.at = "receiving" /\ socket.over # "nobody"
                      /\ Raises("lost")
                      /\ UNCHANGED <<sender, errors, socket, events>>

\* The connection has ended, or nothing came for 60 s.
ReceiveFails == /\ call.at = "receiving"
                /\ socket.over # "nobody" \/ events = <<>>
                /\ Raises(IF socket.over # "nobody" THEN "lost" ELSE "silence")
                /\ UNCHANGED <<sender, errors, socket, events>>

Resume == /\ call.at = "yielded"
          /\ call' = [call EXCEPT !.at = "receiving"]
          /\ UNCHANGED <<sender, errors, socket, events>>

\* close() of the generator, or its end at the consumer.
Abandon == /\ call.at = "yielded"
           /\ Leaves("nothing")
           /\ UNCHANGED <<sender, errors, socket, events>>

\* Bug: only a call that fails or is abandoned closes its connection.
LeaveOpen == /\ call.at = "leaving"
             /\ call' = [call EXCEPT !.at = "ended"]
             /\ IF call.final THEN UNCHANGED socket ELSE Shut("client")
             /\ UNCHANGED <<sender, errors, events>>

\* The finally and with blocks; the thread is waited for at most 1 s.
Leave == /\ call.at = "leaving"
         /\ call' = [call EXCEPT !.at = "ended"]
         /\ Shut("client")
         /\ UNCHANGED <<sender, errors, events>>

-----------------------------------------------------------------------------
(* The thread of transcribe().                                             *)

Stopped == call.at = "ended"

\* The iterable gives a chunk, ends, gives half a sample or raises.
Pull == /\ sender = "pulling"
        /\ \/ /\ sender' = IF Stopped THEN "done" ELSE "sending"
              /\ UNCHANGED errors
           \/ sender' = "finishing" /\ UNCHANGED errors
           \/ sender' = "failing" /\ errors' = "producer"
        /\ UNCHANGED <<call, socket, events>>

Send == /\ sender \in {"sending", "finishing"}
        /\ \/ /\ ~socket.closed
              /\ sender' = IF sender = "sending" THEN "pulling" ELSE "done"
              /\ socket' = [socket EXCEPT !.finish = (sender = "finishing")]
              /\ UNCHANGED errors
           \/ /\ socket.over # "nobody"
              /\ sender' = "failing" /\ errors' = "connection"
              /\ UNCHANGED socket
        /\ UNCHANGED <<call, events>>

Fail == /\ sender = "failing"
        /\ sender' = "done"
        /\ Shut(errors)
        /\ UNCHANGED <<call, errors, events>>

-----------------------------------------------------------------------------
(* The service and the network.                                            *)

\* Parts of a speech or of a transcript, then the end, or an error at any time, which
\* ends the connection unless it says that audio stopped coming.
Emit(m) == /\ socket.over = "nobody" /\ call.at \in {"receiving", "yielded"}
           /\ Len(events) < Backlog
           /\ \A i \in 1..Len(events) : events[i] = "more"
           /\ m = "more" => call.op # "plan"
           /\ m = "last" /\ call.op = "transcribe" => socket.finish
           /\ events' = Append(events, m)
           /\ \/ UNCHANGED socket
              \/ m = "error" /\ socket' = [socket EXCEPT !.over = "service"]
           /\ UNCHANGED <<call, sender, errors>>

Break == /\ socket.over = "nobody"
         /\ socket' = [socket EXCEPT !.over = "service"]
         /\ UNCHANGED <<call, sender, errors, events>>

Next == \/ Connect \/ Request \/ RequestFails \/ Receive \/ ReceiveFails \/ Resume \/ Abandon
        \/ Leave \/ Pull \/ Send \/ Fail \/ Break
        \/ \E m \in {"more", "last", "error"} : Emit(m)

\* Timeouts strike; the service, the consumer and the iterable may be silent for ever.
Fairness == WF_vars(RequestFails) /\ WF_vars(Receive \/ ReceiveFails)

\* The service reads, or its connection breaks: a send that waits for it keeps the
\* lock which the closing of the connection needs, and neither has a timeout.
ServiceReads == WF_vars(Leave) /\ WF_vars(Fail) /\ WF_vars(Send)

Spec == Init /\ [][Next]_vars

-----------------------------------------------------------------------------
(* Properties.                                                             *)

\* A call that has ended has closed its connection, however it ended.
ConnectionEndsWithCall == call.at = "ended" => socket.closed

\* What is raised is the cause: a call that the sending thread ended because of
\* the consumer's own audio does not pass for a lost connection or for silence.
CauseIsRaised == [][call.at = "receiving" /\ call'.at = "leaving" /\ socket.over = "producer"
                    => call'.raised = "producer"]_vars

\* The caller never waits for ever for the service to be ready or to answer.  If the
\* service reads what is sent, the call ends too, and the thread of a call that has
\* ended is in the consumer's iterable or ends.
EveryCallEnds ==
  /\ call.at \in {"greeting", "receiving"} ~> call.at \notin {"greeting", "receiving"}
  /\ ServiceReads => /\ call.at = "leaving" ~> call.at = "ended"
                     /\ call.at = "ended" ~> sender \in {"none", "pulling", "done"}

=============================================================================
