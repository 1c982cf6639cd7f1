---------------------------- MODULE SpeechOutput ----------------------------
(***************************************************************************)
(* SpeechOutput (src/jarvis/remote_rpc.py) with speech_messages            *)
(* (src/clients/inference_client.py): replies and chimes share one speaker *)
(* under a lock, a reply is received by a thread of its own while it is    *)
(* played, any sound may be cancelled at any time, and the listener reads  *)
(* muted without the lock to keep the microphone from hearing the speaker. *)
(*                                                                         *)
(* The server sends the messages of a reply in order, so the next one is   *)
(* given by the number received (got); the socket and the receiver's recv  *)
(* are one step.  Timing events, volume and the contents of the audio are  *)
(* left out, and so is tts_enabled = false, where speak returns at once.   *)
(***************************************************************************)
EXTENDS Naturals, Sequences

CONSTANTS Worker,        \* the threads that call speak
          Ringer,        \* the threads that call chime
          Free,          \* not a thread: the owner of the free lock
          Slices,        \* audio messages of a reply, writes of a chime
          MaxFrames,     \* bound: microphone frames waiting for the listener
          FallsBehind    \* may the listener lag by more than the quiet time?

Thread == Worker \cup Ringer

ASSUME FreeAssumption == Free \notin Thread
ASSUME ThreadAssumption == Worker \cap Ringer = {}
ASSUME SlicesAssumption == Slices \in Nat
ASSUME BoundAssumption == MaxFrames \in Nat /\ FallsBehind \in BOOLEAN

VARIABLES lock,          \* SpeechOutput.lock: its owner
          busy,          \* SpeechOutput.busy
          quiet,         \* time.monotonic() < SpeechOutput.quiet_until
          pc,            \* where each thread is in speak or chime
          cancelled,     \* the event given to the thread's sound
          stream,        \* the thread's output device
          played,        \* slices written to it
          late,          \* of these, written after the cancellation
          result,        \* how the thread's sound has ended
          receiver,      \* the thread tts-receiver of a reply
          got,           \* messages it has received
          inbox,         \* the queue from it to the player
          hand,          \* the message the player has taken from the inbox
          frames,        \* captured frames: TRUE when the speaker sounded
          frame,         \* the frame in the listener's hands
          listener       \* how far the listener is with it

sound == <<pc, cancelled, stream, played, late, result>>
reply == <<receiver, got, inbox, hand>>
mic == <<frames, frame, listener>>
vars == <<lock, busy, quiet, sound, reply, mic>>

(***************************************************************************)
(* idle        outside speak and chime                                     *)
(* waiting     in "with self.lock"          locked    has it               *)
(* connecting  in connect_remote, ready and send (replies only)            *)
(* looking     about to test cancelled and to take a message               *)
(* writing     a message or slice in hand   draining  after the loop       *)
(* closing     in the finally block         clearing  before busy.clear()  *)
(***************************************************************************)
Location == {"idle", "waiting", "locked", "connecting", "looking", "writing",
             "draining", "closing", "clearing"}

Message == {"tts_start", "audio", "tts_end", "error", "exception"}

\* cut: played until its cancellation.
Result == {"none", "heard", "cut", "raised"}

Init == /\ lock = Free
        /\ busy = FALSE
        /\ quiet = FALSE
        /\ pc = [t \in Thread |-> "idle"]
        /\ cancelled = [t \in Thread |-> FALSE]
        /\ stream = [t \in Thread |-> "none"]
        /\ played = [t \in Thread |-> 0]
        /\ late = [t \in Thread |-> 0]
        /\ result = [t \in Thread |-> "none"]
        /\ receiver = [w \in Worker |-> "none"]
        /\ got = [w \in Worker |-> 0]
        /\ inbox = [w \in Worker |-> <<>>]
        /\ hand = [w \in Worker |-> "tts_start"]
        /\ frames = <<>>
        /\ frame = FALSE
        /\ listener = "away"

Go(t, where) == pc' = [pc EXCEPT ![t] = where]

\* An exception leaves the loop for the finally block.
Raise(t) == /\ Go(t, "closing")
            /\ result' = [result EXCEPT ![t] = "raised"]

\* A buffer written to a device is heard until the device is stopped, aborted
\* or closed.
Sounding == \E t \in Thread : stream[t] = "sounding"

-----------------------------------------------------------------------------
\* speak or chime is called with a new event.
Call(t) == /\ pc[t] = "idle"
           /\ Go(t, "waiting")
           /\ UNCHANGED <<lock, busy, quiet, cancelled, stream, played, late, result, reply, mic>>

\* The session or the ring is cancelled: another thread sets the event.
Cancel(t) == /\ pc[t] # "idle"
             /\ ~cancelled[t]
             /\ cancelled' = [cancelled EXCEPT ![t] = TRUE]
             /\ UNCHANGED <<lock, busy, quiet, pc, stream, played, late, result, reply, mic>>

TakeLock(t) == /\ pc[t] = "waiting"
               /\ lock = Free
               /\ lock' = t
               /\ Go(t, "locked")
               /\ UNCHANGED <<busy, quiet, cancelled, stream, played, late, result, reply, mic>>

\* The call returns; its event and local variables are gone.
Return(t) == /\ lock' = Free
             /\ Go(t, "idle")
             /\ cancelled' = [cancelled EXCEPT ![t] = FALSE]
             /\ played' = [played EXCEPT ![t] = 0]
             /\ late' = [late EXCEPT ![t] = 0]
             /\ result' = [result EXCEPT ![t] = "none"]

\* A sound that was cancelled while it waited makes no sound.
Skip(t) == /\ pc[t] = "locked"
           /\ cancelled[t]
           /\ Return(t)
           /\ UNCHANGED <<busy, quiet, stream, reply, mic>>

Begin(t) == /\ pc[t] = "locked"
            /\ ~cancelled[t]
            /\ busy' = TRUE
            /\ Go(t, IF t \in Worker THEN "connecting" ELSE "looking")
            /\ stream' = [stream EXCEPT ![t] = IF t \in Worker THEN "none" ELSE "open"]
            /\ UNCHANGED <<lock, quiet, cancelled, played, late, result, reply, mic>>

\* The connection, its ready event or its close fails, or the device does when
\* it is opened, written or stopped.
Fails(t) == /\ \/ pc[t] \in {"connecting", "writing", "draining"}
               \/ pc[t] = "looking" /\ t \in Ringer /\ played[t] = 0
            /\ Raise(t)
            /\ UNCHANGED <<lock, busy, quiet, cancelled, stream, played, late, reply, mic>>

\* The request is sent and the first next() of speech_messages starts the
\* receiver.
Connect(w) == /\ pc[w] = "connecting"
              /\ Go(w, "looking")
              /\ receiver' = [receiver EXCEPT ![w] = "running"]
              /\ UNCHANGED <<lock, busy, quiet, cancelled, stream, played, late, result,
                             got, inbox, hand, mic>>

-----------------------------------------------------------------------------
(***************************************************************************)
(* The receiver: server.py sends tts_start, the audio and tts_end, or an   *)
(* error event at any point.  recv raises when the connection is lost or   *)
(* silent for 20 s, and a reply over 16 MB raises too.                     *)
(***************************************************************************)
Script(n) == IF n = 0 THEN "tts_start" ELSE IF n <= Slices THEN "audio" ELSE "tts_end"

\* The receiver of w puts message m, its last one if it ends the reply.
Put(w, m) == /\ inbox' = [inbox EXCEPT ![w] = Append(@, m)]
             /\ receiver' = [receiver EXCEPT ![w] =
                               IF m \in {"tts_end", "error", "exception"} THEN "done" ELSE @]

\* Bug: an exception in recv ends the thread without a word to the player.
ReceiveSilently(w) == /\ receiver[w] = "running"
                      /\ \/ /\ Put(w, Script(got[w]))
                            /\ got' = [got EXCEPT ![w] = @ + 1]
                         \/ /\ receiver' = [receiver EXCEPT ![w] = "done"]
                            /\ UNCHANGED <<got, inbox>>
                      /\ UNCHANGED <<lock, busy, quiet, sound, hand, mic>>

Receive(w) == /\ receiver[w] = "running"
              /\ \/ /\ Put(w, Script(got[w]))
                    /\ got' = [got EXCEPT ![w] = @ + 1]
                 \/ /\ \E m \in {"error", "exception"} : Put(w, m)
                    /\ UNCHANGED got
              /\ UNCHANGED <<lock, busy, quiet, sound, hand, mic>>

\* The receiver sees the cancellation before its next recv.
ReceiverStops(w) == /\ receiver[w] = "running"
                    /\ cancelled[w]
                    /\ receiver' = [receiver EXCEPT ![w] = "done"]
                    /\ UNCHANGED <<lock, busy, quiet, sound, got, inbox, hand, mic>>

-----------------------------------------------------------------------------
\* The loop ends early: speech_messages returns, or chime breaks.
Interrupted(t) == /\ pc[t] = "looking"
                  /\ cancelled[t]
                  /\ Go(t, "draining")
                  /\ UNCHANGED <<lock, busy, quiet, cancelled, stream, played, late, result,
                                 reply, mic>>

\* Bug: the queue is read without a test of cancelled.
TakeMessageAnyway(w) == /\ pc[w] = "looking"
                        /\ inbox[w] # <<>>
                        /\ hand' = [hand EXCEPT ![w] = Head(inbox[w])]
                        /\ inbox' = [inbox EXCEPT ![w] = Tail(@)]
                        /\ Go(w, "writing")
                        /\ UNCHANGED <<lock, busy, quiet, cancelled, stream, played, late, result,
                                       receiver, got, mic>>

\* inbox.get gives the player of a reply its next message; an empty queue is
\* polled every .1 s.
TakeMessage(w) == /\ pc[w] = "looking"
                  /\ ~cancelled[w]
                  /\ inbox[w] # <<>>
                  /\ hand' = [hand EXCEPT ![w] = Head(inbox[w])]
                  /\ inbox' = [inbox EXCEPT ![w] = Tail(@)]
                  /\ Go(w, "writing")
                  /\ UNCHANGED <<lock, busy, quiet, cancelled, stream, played, late, result,
                                 receiver, got, mic>>

\* A slice goes to the device; write blocks until the device takes it.
Play(t) == /\ stream' = [stream EXCEPT ![t] = "sounding"]
           /\ played' = [played EXCEPT ![t] = @ + 1]
           /\ late' = [late EXCEPT ![t] = IF cancelled[t] THEN @ + 1 ELSE @]
           /\ Go(t, "looking")
           /\ UNCHANGED result

\* Bug: the first slice only stops the clock of tts.first_audio.
HandleDroppingFirst(w) ==
  /\ pc[w] = "writing"
  /\ \/ hand[w] = "audio" /\ stream[w] = "sounding" /\ Play(w)
     \/ /\ hand[w] \in {"tts_start", "audio"}
        /\ hand[w] = "audio" => stream[w] = "open"
        /\ stream' = [stream EXCEPT ![w] = IF hand[w] = "audio" THEN "sounding" ELSE "open"]
        /\ Go(w, "looking")
        /\ UNCHANGED <<played, late, result>>
     \/ hand[w] = "tts_end" /\ Go(w, "draining") /\ UNCHANGED <<stream, played, late, result>>
     \/ hand[w] \in {"error", "exception"} /\ Raise(w) /\ UNCHANGED <<stream, played, late>>
  /\ UNCHANGED <<lock, busy, quiet, cancelled, reply, mic>>

\* One round of the loop of _speak; hand = "tts_end" is its completed.
Handle(w) ==
  /\ pc[w] = "writing"
  /\ \/ /\ hand[w] = "tts_start"
        /\ stream' = [stream EXCEPT ![w] = "open"]
        /\ Go(w, "looking")
        /\ UNCHANGED <<played, late, result>>
     \/ hand[w] = "audio" /\ Play(w)
     \/ hand[w] = "tts_end" /\ Go(w, "draining") /\ UNCHANGED <<stream, played, late, result>>
     \/ hand[w] \in {"error", "exception"} /\ Raise(w) /\ UNCHANGED <<stream, played, late>>
  /\ UNCHANGED <<lock, busy, quiet, cancelled, reply, mic>>

\* The next round of chime's loop: it ends, or has a slice to write.
NextSlice(r) == /\ pc[r] = "looking"
                /\ ~cancelled[r]
                /\ Go(r, IF played[r] = Slices THEN "draining" ELSE "writing")
                /\ UNCHANGED <<lock, busy, quiet, cancelled, stream, played, late, result,
                               reply, mic>>

WriteSlice(r) == /\ pc[r] = "writing"
                 /\ Play(r)
                 /\ UNCHANGED <<lock, busy, quiet, cancelled, reply, mic>>

-----------------------------------------------------------------------------
\* Did the loop reach its end?  Otherwise _speak raises.
Completed(t) == IF t \in Worker THEN hand[t] = "tts_end" ELSE played[t] = Slices

\* abort drops what the device still holds, stop plays it to the end.
Drain(t) == /\ pc[t] = "draining"
            /\ stream' = [stream EXCEPT ![t] = IF @ = "none" THEN "none" ELSE "stopped"]
            /\ result' = [result EXCEPT ![t] = IF cancelled[t] THEN "cut"
                                               ELSE IF Completed(t) THEN "heard" ELSE "raised"]
            /\ Go(t, "closing")
            /\ UNCHANGED <<lock, busy, quiet, cancelled, played, late, reply, mic>>

\* Bug: chime forgets the quiet time.
CloseUnquietChime(t) == /\ pc[t] = "closing"
                        /\ stream' = [stream EXCEPT ![t] = "none"]
                        /\ quiet' = (quiet \/ t \in Worker)
                        /\ Go(t, "clearing")
                        /\ IF t \in Worker
                           THEN /\ receiver' = [receiver EXCEPT ![t] = "none"]
                                /\ got' = [got EXCEPT ![t] = 0]
                                /\ inbox' = [inbox EXCEPT ![t] = <<>>]
                                /\ hand' = [hand EXCEPT ![t] = "tts_start"]
                           ELSE UNCHANGED reply
                        /\ UNCHANGED <<lock, busy, cancelled, played, late, result, mic>>

\* messages.close() stops the receiver, stream.close() drops what was not
\* played, and the quiet time starts: .5 s after a reply, .3 s after a chime.
CloseSound(t) == /\ pc[t] = "closing"
                 /\ stream' = [stream EXCEPT ![t] = "none"]
                 /\ quiet' = TRUE
                 /\ Go(t, "clearing")
                 /\ IF t \in Worker
                    THEN /\ receiver' = [receiver EXCEPT ![t] = "none"]
                         /\ got' = [got EXCEPT ![t] = 0]
                         /\ inbox' = [inbox EXCEPT ![t] = <<>>]
                         /\ hand' = [hand EXCEPT ![t] = "tts_start"]
                    ELSE UNCHANGED reply
                 /\ UNCHANGED <<lock, busy, cancelled, played, late, result, mic>>

\* busy.clear(), and the lock is left.
Leave(t) == /\ pc[t] = "clearing"
            /\ busy' = FALSE
            /\ Return(t)
            /\ UNCHANGED <<quiet, stream, reply, mic>>

-----------------------------------------------------------------------------
(***************************************************************************)
(* The listener (src/jarvis/remote_client.py) takes one frame after the    *)
(* other and reads muted for it, first busy and then quiet_until.  The     *)
(* audio callback queues a frame every 20 ms.                              *)
(***************************************************************************)
Capture == /\ Len(frames) < MaxFrames
           /\ frames' = Append(frames, Sounding)
           /\ UNCHANGED <<lock, busy, quiet, sound, reply, frame, listener>>

TakeFrame == /\ listener = "away"
             /\ frames # <<>>
             /\ frame' = Head(frames)
             /\ frames' = Tail(frames)
             /\ listener' = "reading_busy"
             /\ UNCHANGED <<lock, busy, quiet, sound, reply>>

ReadBusy == /\ listener = "reading_busy"
            /\ listener' = IF busy THEN "away" ELSE "reading_quiet"
            /\ UNCHANGED <<lock, busy, quiet, sound, reply, frames, frame>>

ReadQuiet == /\ listener = "reading_quiet"
             /\ listener' = IF quiet THEN "away" ELSE "hearing"
             /\ UNCHANGED <<lock, busy, quiet, sound, reply, frames, frame>>

\* The frame is given to the wake word detector and to the utterance.
Hear == /\ listener = "hearing"
        /\ listener' = "away"
        /\ UNCHANGED <<lock, busy, quiet, sound, reply, frames, frame>>

\* An overflow, or a frame over 2 s old: the whole queue is dropped.
DropBacklog == /\ listener = "hearing"
               /\ listener' = "away"
               /\ frames' = <<>>
               /\ UNCHANGED <<lock, busy, quiet, sound, reply, frame>>

\* No frame captured while the speaker sounded is still to be judged.
CaughtUp == /\ \A i \in 1..Len(frames) : ~frames[i]
            /\ listener # "away" => ~frame

\* The quiet time is over.  A listener that keeps up has by then judged every
\* frame captured before it.
QuietEnds == /\ quiet
             /\ FallsBehind \/ CaughtUp
             /\ quiet' = FALSE
             /\ UNCHANGED <<lock, busy, sound, reply, mic>>

-----------------------------------------------------------------------------
Player(t) == \/ TakeLock(t) \/ Skip(t) \/ Begin(t) \/ Interrupted(t) \/ Drain(t)
             \/ CloseSound(t) \/ Leave(t)

SpeakStep(w) == Connect(w) \/ TakeMessage(w) \/ Handle(w)

ReceiverStep(w) == Receive(w) \/ ReceiverStops(w)

ChimeStep(r) == NextSlice(r) \/ WriteSlice(r)

Listener == TakeFrame \/ ReadBusy \/ ReadQuiet \/ Hear \/ DropBacklog

Next == \/ \E t \in Thread : Call(t) \/ Cancel(t) \/ Fails(t) \/ Player(t)
        \/ \E w \in Worker : SpeakStep(w) \/ ReceiverStep(w)
        \/ \E r \in Ringer : ChimeStep(r)
        \/ Capture \/ Listener \/ QuietEnds

Spec == Init /\ [][Next]_vars

(***************************************************************************)
(* Threads are scheduled, the device takes what it is given and recv ends  *)
(* within its 20 s.  The lock is not fair by itself, but a reply waits for *)
(* it only behind a chime of 1.8 s, which 7 s of silence follow, and       *)
(* behind the other pool thread's reply: a thread that waits gets its      *)
(* turn.  Nothing makes anybody call, cancel or fail.                      *)
(***************************************************************************)
Fairness == /\ \A t \in Thread : SF_vars(TakeLock(t)) /\ WF_vars(Player(t))
            /\ \A w \in Worker : WF_vars(SpeakStep(w)) /\ WF_vars(ReceiverStep(w))
            /\ \A r \in Ringer : WF_vars(ChimeStep(r))

FairSpec == Spec /\ Fairness

-----------------------------------------------------------------------------
\* The variables have the types of the program's.
TypeOK ==
  /\ lock \in Thread \cup {Free}
  /\ busy \in BOOLEAN
  /\ quiet \in BOOLEAN
  /\ pc \in [Thread -> Location]
  /\ cancelled \in [Thread -> BOOLEAN]
  /\ stream \in [Thread -> {"none", "open", "sounding", "stopped"}]
  /\ played \in [Thread -> Nat]
  /\ late \in [Thread -> Nat]
  /\ result \in [Thread -> Result]
  /\ receiver \in [Worker -> {"none", "running", "done"}]
  /\ got \in [Worker -> 0..(Slices + 2)]
  /\ inbox \in [Worker -> Seq(Message)]
  /\ hand \in [Worker -> Message]
  /\ frames \in Seq(BOOLEAN)
  /\ frame \in BOOLEAN
  /\ listener \in {"away", "reading_busy", "reading_quiet", "hearing"}

\* src/README.md: "Audio is muted during normal reply playback".  A frame that
\* the listener hears was not captured while the speaker sounded, whatever
\* sound starts or ends between the two reads of muted.
HearsOnlyTheRoom == listener = "hearing" => ~frame

\* src/API.md: a slow consumer can play a complete reply after the server has
\* finished and closed its socket.  A sound that neither failed nor was
\* cancelled has been written whole, nothing but a cancellation cuts it, and
\* the loop of a reply ends without tts_end only when it is cancelled: the
\* RuntimeError "Speech stream ended without completion" cannot occur.
HeardWhole ==
  \A t \in Thread :
    /\ result[t] = "heard" => played[t] = Slices
    /\ result[t] = "cut" => cancelled[t]
    /\ pc[t] = "draining" => cancelled[t] \/ Completed(t)

\* A cancelled sound stops: at most the slice in hand is still written.
AtMostOneLateSlice == \A t \in Thread : late[t] <= 1

\* Every call of speak and chime returns, whatever the server, the connection,
\* the device and the cancellation do.
EverySoundEnds == \A t \in Thread : pc[t] = "waiting" ~> pc[t] = "idle"

=============================================================================
