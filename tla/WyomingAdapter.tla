--------------------------- MODULE WyomingAdapter ---------------------------
(***************************************************************************)
(* R2T2Handler (src/jarvis/wyoming.py): one connection of Home Assistant's *)
(* voice pipeline, whose events open, feed and end streams of the shared   *)
(* inference service.  The handler reads one event at a time; beside it    *)
(* runs the result task, which drains what the service sends; between      *)
(* handler and service are two channels of bounded capacity.               *)
(*                                                                         *)
(* Audio is counted in slices of 5120 bytes, a transcript by the slices it *)
(* was made from.  The service may fail, refuse or fall silent anywhere,   *)
(* and either neighbour may stop reading: every write and every close is a *)
(* place of its own, with a timeout where the code has one.                *)
(***************************************************************************)
EXTENDS Integers, Sequences

CONSTANTS Limit,         \* slices the adapter accepts (33 s by default)
          WorkerLimit,   \* slices the service accepts
          ChunkSize,     \* the most slices of one chunk of the client
          Window         \* messages a channel holds before its sender waits

VARIABLES handling,      \* what the handler does
          ws,            \* self.ws is a connection
          open,          \* backend connections that are not closed
          started,       \* self.started
          received,      \* self.received
          left,          \* slices of the chunk in hand that are not sent
          result,        \* the result task: "none", "pending", "final", "failed"
          transcript,    \* what the final transcript was made from
          link           \* the stream of the service and the two channels

own == <<ws, open, started, received, left, result, transcript>>
vars == <<handling, own, link>>

NoLink == [worker |-> "none", heard |-> 0, inbox |-> <<>>, outbox |-> <<>>]

\* Bug: only a started stream is closed.
DisconnectStarted == /\ ws' = FALSE
                     /\ open' = IF ws /\ started THEN open - 1 ELSE open
                     /\ started' = FALSE /\ received' = 0 /\ left' = 0
                     /\ result' = "none" /\ transcript' = 0
                     /\ link' = NoLink

\* The end of disconnect(): the result task is gone, the connection closed.
Disconnect == /\ ws' = FALSE
              /\ open' = IF ws THEN open - 1 ELSE open
              /\ started' = FALSE /\ received' = 0 /\ left' = 0
              /\ result' = "none" /\ transcript' = 0
              /\ link' = NoLink

Init == /\ handling = "reading" /\ ws = FALSE /\ open = 0
        /\ started = FALSE /\ received = 0 /\ left = 0
        /\ result = "none" /\ transcript = 0 /\ link = NoLink

Go(place) == handling' = place /\ UNCHANGED <<own, link>>

-----------------------------------------------------------------------------
(* Events.  An event that is refused is answered by an Error and ends the  *)
(* connection; so does a failure of the service.                           *)

\* An extension the adapter does not know is passed over.
Ignored == handling = "reading" /\ Go("reading")

Describe == handling = "reading" /\ Go("describing")

\* A format, language, model, text or sample count that is not accepted.
Unacceptable == handling = "reading" /\ Go("refusing")

\* The client is gone.
ReadEnds == handling = "reading" /\ Go("leaving")

\* A malformed event, or 60 s without one: run() itself writes the Error.
ReadFails == handling = "reading" /\ Go("refusing")

Transcribe == handling = "reading" /\ Go("closing")

AudioStart == /\ handling = "reading"
              /\ Go(IF started THEN "refusing" ELSE "connecting")

\* The size is counted before it is compared, and the result task looked at last.
AudioChunk(size) ==
  /\ handling = "reading"
  /\ IF ~started
     THEN Go("refusing")
     ELSE /\ received' = received + size
          /\ left' = size
          /\ handling' = IF received + size > Limit \/ result \in {"final", "failed"}
                   THEN "refusing" ELSE "forwarding"
          /\ UNCHANGED <<ws, open, started, result, transcript, link>>

AudioStop == handling = "reading" /\ Go(IF started THEN "finishing" ELSE "refusing")

\* What an earlier event left open is closed first.
Synthesize == handling = "reading" /\ Go("clearing")

-----------------------------------------------------------------------------
(* The handler, while it serves an event.                                  *)

Connect(from, to) == /\ handling = from
                     /\ handling' = to
                     /\ ws' = TRUE /\ open' = open + 1
                     /\ link' = [NoLink EXCEPT !.worker = "greeting"]
                     /\ UNCHANGED <<started, received, left, result, transcript>>

\* Bug: the result task begins when it is awaited.
ReadyUndrained == /\ handling = "greeting"
                  /\ handling' = "reading"
                  /\ started' = TRUE
                  /\ link' = [link EXCEPT !.worker = "streaming"]
                  /\ UNCHANGED <<ws, open, received, left, result, transcript>>

\* The service is ready, asr_start is sent, and the result task begins.
Ready == /\ handling = "greeting"
         /\ handling' = "reading"
         /\ started' = TRUE /\ result' = "pending"
         /\ link' = [link EXCEPT !.worker = "streaming"]
         /\ UNCHANGED <<ws, open, received, left, transcript>>

CanSend == Len(link.inbox) < Window \/ link.worker = "gone"
Send(m) == link' = [link EXCEPT !.inbox = IF link.worker = "gone" THEN @ ELSE Append(@, m)]

\* Bug: the last slice of a chunk that is not full is left out.
ForwardFull == /\ handling = "forwarding" /\ CanSend
               /\ IF left = 1 /\ received = Limit THEN UNCHANGED link ELSE Send("audio")
               /\ left' = left - 1
               /\ handling' = IF left = 1 THEN "reading" ELSE "forwarding"
               /\ UNCHANGED <<ws, open, started, received, result, transcript>>

Forward == /\ handling = "forwarding" /\ CanSend
           /\ Send("audio")
           /\ left' = left - 1
           /\ handling' = IF left = 1 THEN "reading" ELSE "forwarding"
           /\ UNCHANGED <<ws, open, started, received, result, transcript>>

Finish == /\ handling = "finishing" /\ CanSend
          /\ Send("finish")
          /\ handling' = "awaiting"
          /\ UNCHANGED own

Awaited == /\ handling = "awaiting" /\ result \in {"final", "failed"}
           /\ Go(IF result = "final" THEN "answering" ELSE "refusing")

\* The description, the transcript and the error are written to the client, which
\* must read them or be gone: no timeout ends these waits.
Described == handling = "describing" /\ Go("reading")
Answer == handling = "answering" /\ Go("closing")
Refuse == handling = "refusing" /\ Go("leaving")

\* Writing to a client that is gone fails like everything else in handle_event.
ClientGone == handling \in {"describing", "answering", "speaking"} /\ Go("refusing")

\* Bug: the next event uses the connection of this one.
HangUpToLeave(from, to) == /\ handling = from
                           /\ handling' = to
                           /\ IF to = "reading" THEN UNCHANGED <<own, link>> ELSE Disconnect

\* disconnect(): the result task is cancelled, and the connection closed.  The answer
\* of the service to the closing message has 2 s (close_timeout); that the message
\* can be sent, behind what the service has not read, takes a service that reads.
HangUp(from, to) == /\ handling = from
                    /\ handling' = to
                    /\ Disconnect

Waits == {"connecting", "greeting", "forwarding", "finishing", "awaiting",
          "connecting_speech", "greeting_speech", "speaking"}

\* Bug: nothing bounds the wait for the transcript.
FailsUnlessAwaiting == handling \in Waits \ {"awaiting"} /\ Go("refusing")

\* A timeout (10 s to connect and to be greeted, 60 s for the rest), or a service
\* that is gone or not ready; asr_finish is sent without a timeout.
Fails == handling \in Waits /\ Go("refusing")

\* Another client connects.
Accept == handling = "ended" /\ handling' = "reading" /\ UNCHANGED <<own, link>>

-----------------------------------------------------------------------------
(* synthesize(): the messages of the service are passed on if they come in *)
(* the order of a speech.  heard counts what was passed on: the start and  *)
(* at least one chunk.                                                     *)

SpeechReady == /\ handling = "greeting_speech"
               /\ handling' = "speaking"
               /\ link' = [link EXCEPT !.worker = "speaking"]
               /\ UNCHANGED own

Speak(m) ==
  /\ handling = "speaking"
  /\ \/ /\ (m = "start" /\ link.heard = 0) \/ (m = "audio" /\ link.heard > 0)
        /\ link' = [link EXCEPT !.heard = IF m = "start" THEN 1 ELSE 2]
        /\ UNCHANGED <<handling, own>>
     \/ /\ m = "end" /\ link.heard = 2
        /\ Go("closing")
     \/ /\ \/ m = "error"
           \/ m = "start" /\ link.heard > 0
           \/ m = "audio" /\ link.heard = 0
           \/ m = "end" /\ link.heard < 2
        /\ Go("refusing")

-----------------------------------------------------------------------------
(* The result task and the service.                                        *)

\* receive_result(): partial transcripts are drained, until disconnect() begins.
TakeResult ==
  /\ result = "pending" /\ handling \notin {"closing", "clearing", "leaving"}
  /\ \/ /\ link.outbox # <<>>
        /\ link' = [link EXCEPT !.outbox = Tail(@)]
        /\ result' = CASE Head(link.outbox) = "final" -> "final"
                       [] Head(link.outbox) = "error" -> "failed"
                       [] OTHER -> "pending"
        /\ transcript' = IF Head(link.outbox) = "final" THEN link.heard ELSE transcript
     \/ /\ link.outbox = <<>> /\ link.worker = "gone"
        /\ result' = "failed"
        /\ UNCHANGED <<transcript, link>>
  /\ UNCHANGED <<handling, ws, open, started, received, left>>

Emits(m, worker) == link' = [link EXCEPT !.outbox = Append(@, m), !.worker = worker]

\* The service takes a message and answers it: it waits while the channel to
\* the adapter is full.
Serve ==
  /\ link.worker = "streaming" /\ link.inbox # <<>> /\ Len(link.outbox) < Window
  /\ LET rest == Tail(link.inbox)
     IN IF Head(link.inbox) = "finish"
        THEN link' = [link EXCEPT !.inbox = rest, !.worker = "idle", !.outbox = Append(@, "final")]
        ELSE IF link.heard = WorkerLimit
        THEN link' = [link EXCEPT !.inbox = rest, !.worker = "gone", !.outbox = Append(@, "error")]
        ELSE link' = [link EXCEPT !.inbox = rest, !.heard = @ + 1, !.outbox = Append(@, "partial")]
  /\ UNCHANGED <<handling, own>>

\* 5 s without audio: the stream is given up, the connection kept.
ServiceTimesOut == /\ link.worker = "streaming" /\ link.inbox = <<>>
                   /\ Len(link.outbox) < Window
                   /\ Emits("error", "idle")
                   /\ UNCHANGED <<handling, own>>

\* Without a stream audio is ignored, and a finish ends the connection.
ServeIdle == /\ link.worker = "idle" /\ link.inbox # <<>>
             /\ link' = [link EXCEPT !.inbox = Tail(@),
                                     !.worker = IF Head(link.inbox) = "finish" THEN "gone" ELSE "idle"]
             /\ UNCHANGED <<handling, own>>

ServiceGone == /\ link.worker \in {"streaming", "idle"}
               /\ link' = [link EXCEPT !.worker = "gone"]
               /\ UNCHANGED <<handling, own>>

-----------------------------------------------------------------------------
Event == \/ Ignored \/ Describe \/ Unacceptable \/ ReadEnds \/ ReadFails \/ Transcribe
         \/ AudioStart \/ (\E size \in 1..ChunkSize : AudioChunk(size)) \/ AudioStop
         \/ Synthesize

Closes == \/ HangUp("closing", "reading") \/ HangUp("clearing", "connecting_speech")
          \/ HangUp("leaving", "ended")

Writes == Described \/ Answer \/ Refuse

Handler == \/ Connect("connecting", "greeting") \/ Connect("connecting_speech", "greeting_speech")
           \/ Ready \/ SpeechReady \/ Forward \/ Finish \/ Awaited \/ Writes \/ Closes

Service == Serve \/ ServeIdle

Next == \/ Event \/ Handler \/ TakeResult \/ Service
        \/ Fails \/ ClientGone \/ Accept \/ ServiceTimesOut \/ ServiceGone
        \/ \E m \in {"start", "audio", "end", "error"} : Speak(m)

\* The timeouts of the code strike; nothing is assumed of client, service or network.
Fairness == WF_vars(handling # "finishing" /\ Fails)

\* The client reads what is written, or is gone.
ClientReads == WF_vars(Writes \/ ClientGone)

\* The service reads asr_finish and the closing of a connection, or is gone.
ServiceReads == WF_vars(Finish \/ Fails) /\ WF_vars(Closes)

Spec == Init /\ [][Next]_vars

-----------------------------------------------------------------------------
(* Properties.                                                             *)

\* A transcript that is about to be written was made of all the audio received
\* since the start of its stream, and of nothing else: chunks are forwarded in
\* slices, the result task runs ahead or behind, and the limits of adapter and
\* service differ (33 s and 28 s), so that some utterances must fail.
TranscriptIsWhole == handling = "answering" => transcript = received /\ received <= WorkerLimit

\* No backend connection is left open or forgotten, whatever fails: one at
\* most, known to the handler, only while a stream is open or being opened.
NoBackendLeaks == /\ open = IF ws THEN 1 ELSE 0
                  /\ handling = "reading" => ws = started
                  /\ handling = "ended" => ~ws

\* A service that waits to send while the handler sends or waits is always
\* drained ("Otherwise the worker's output queue can block a long utterance").
NeverStalls == /\ handling \in {"forwarding", "finishing", "awaiting"}
               /\ link.worker = "streaming" /\ Len(link.outbox) = Window
               => result = "pending"

\* No answer of the service is waited for without a bound, and no slice of audio:
\* the handler leaves those waits in spite of a service that falls silent or stops
\* reading.  Writing to the client, asr_finish and the closing of a connection have
\* no timeout, so that an event is answered or ends the connection only if both
\* neighbours read.
EveryEventEnds ==
  /\ handling \in Waits \ {"finishing"} ~> handling \notin Waits \ {"finishing"}
  /\ ClientReads /\ ServiceReads
       => (handling \notin {"reading", "ended"} ~> handling \in {"reading", "ended"})

=============================================================================
