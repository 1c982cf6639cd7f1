------------------------------ MODULE AsrStream ------------------------------
(***************************************************************************)
(* The stream of utterances between the listener of the client (listen()   *)
(* in src/jarvis/remote_client.py) and its handler on the inference        *)
(* service (handler() in src/jarvis/server.py): a connection with two      *)
(* reliable, ordered channels, any delay in either, and either end failing *)
(* at any moment.                                                          *)
(*                                                                         *)
(* The main loop goes through three steps, over and over: the events that  *)
(* have arrived, the tick of the brain, one frame of the microphone.  A    *)
(* message of the channel down has arrived when the loop takes it, so the  *)
(* receiver thread and its queue are part of the channel.  The frames of   *)
(* one chunk are one piece of audio, known by the utterance it was sent    *)
(* for.  The brain is known by its session (ClientBrain has the rest).     *)
(***************************************************************************)
EXTENDS Integers, Sequences

CONSTANTS MaxUtterance,   \* max_utterance_seconds, in chunks
          PreRoll,        \* asr_preroll_seconds, in chunks
          Margin,         \* the server accepts Margin chunks more than MaxUtterance
          MaxSessions,    \* bound: wake words in a behaviour
          MaxContinued    \* bound: utterances that continue a session

ASSUME StreamAssumption == /\ MaxUtterance \in Nat \ {0, 1} /\ PreRoll \in Nat
                           /\ Margin \in Nat /\ PreRoll <= Margin
                           /\ MaxSessions \in Nat \ {0} /\ MaxContinued \in Nat

VARIABLES step,       \* where the main loop is
          brain,      \* the brain's current session, and whether it listens
          ear,        \* the local variables of listen()
          quiet,      \* no progress of the transcription for 15 s
          up,         \* the messages on the way to the server
          down,       \* the messages on the way to the client
          server,     \* the connection at the server, and its local variables
          gap,        \* history: the server gave up a stream of this connection
          refused     \* history: why the server refused a message

vars == <<step, brain, ear, quiet, up, down, server, gap, refused>>

SessionId == 1..MaxSessions
Utterance == 0..MaxContinued

\* The audio and the messages of an utterance u of session s.
AsrStart(s, u) == [type |-> "asr_start", s |-> s, u |-> u]
Audio(s, u) == [type |-> "audio", s |-> s, u |-> u]
AsrFinish(s, u) == [type |-> "asr_finish", s |-> s, u |-> u]
AsrCancel(s, u) == [type |-> "cancel", s |-> s, u |-> u]
Transcript(s, u, final, of) == [type |-> "transcript", s |-> s, u |-> u, final |-> final, of |-> of]
Error(s, u) == [type |-> "error", s |-> s, u |-> u, final |-> FALSE, of |-> {}]

NotRecording == [stream |-> 0, recording |-> FALSE, awaiting |-> FALSE, utterance |-> 0, total |-> 0]
NewHandler == [open |-> TRUE, active |-> FALSE, s |-> 0, u |-> 0, samples |-> 0, of |-> {}]

Init == /\ step = "events"
        /\ brain = [id |-> 0, listening |-> FALSE, heard |-> FALSE]
        /\ ear = NotRecording
        /\ quiet = FALSE
        /\ up = <<>> /\ down = <<>>
        /\ server = NewHandler
        /\ gap = FALSE
        /\ refused = "nothing"

client == <<step, brain, ear, quiet>>

-----------------------------------------------------------------------------
(* The main loop of listen(): the events.                                  *)

\* What brain.transcript() makes of a transcript: a final one can be blank, be
\* planned, or end a session whose wake word was doubtful.
HeardBy(b, final) == IF b.listening /\ final
                     THEN {b, [b EXCEPT !.heard = TRUE], [b EXCEPT !.listening = FALSE]}
                     ELSE {b}

\* A transcript of the brain's session is progress; others are dropped.
HandleTranscript ==
  /\ step = "events" /\ down # <<>> /\ Head(down).type = "transcript"
  /\ down' = Tail(down)
  /\ IF Head(down).s = brain.id
     THEN /\ quiet' = FALSE
          /\ ear' = [ear EXCEPT !.awaiting = @ /\ ~Head(down).final]
          /\ brain' \in HeardBy(brain, Head(down).final)
     ELSE UNCHANGED <<quiet, ear, brain>>
  /\ UNCHANGED <<step, up, server, gap, refused>>

\* An error cancels the current session, whichever session it was sent for.
HandleError == /\ step = "events" /\ down # <<>> /\ Head(down).type = "error"
               /\ down' = Tail(down)
               /\ brain' = [brain EXCEPT !.listening = FALSE]
               /\ UNCHANGED <<step, ear, quiet, up, server, gap, refused>>

\* events.empty(): whatever is still in down has not arrived yet.
NoMoreEvents == /\ step = "events"
                /\ step' = "tick"
                /\ UNCHANGED <<brain, ear, quiet, up, down, server, gap, refused>>

-----------------------------------------------------------------------------
(* The main loop: the tick.                                                *)

\* What brain.tick() leaves: a plan that is done or fails ends the listening, and
\* so does the continuation deadline while no input is active.
Ticked(b) == IF b.listening /\ (b.heard \/ ~(ear.recording \/ ear.awaiting))
             THEN {b, [b EXCEPT !.listening = FALSE]}
             ELSE {b}

\* Bug: the server is not told that the stream is over, only the client forgets it.
StopStreamSilently == /\ ear' = [ear EXCEPT !.stream = 0, !.recording = FALSE, !.awaiting = FALSE]
                      /\ UNCHANGED up

\* The session is over: cancel is sent, and the recording forgotten.
StopStream == /\ up' = Append(up, AsrCancel(ear.stream, ear.utterance))
              /\ ear' = [ear EXCEPT !.stream = 0, !.recording = FALSE, !.awaiting = FALSE]

Tick == /\ step = "tick"
        /\ brain' \in Ticked(brain)
        /\ IF ear.stream # 0 /\ ~brain'.listening THEN StopStream
           ELSE /\ ~(ear.stream # 0 /\ quiet)
                /\ UNCHANGED <<ear, up>>
        /\ step' = "frame"
        /\ UNCHANGED <<quiet, down, server, gap, refused>>

\* Bug: 15 s without progress are ignored.
NoProgressIgnored == FALSE

\* 15 s without a transcript: the session is cancelled and the connection left.
NoProgress == /\ step = "tick" /\ ear.stream # 0 /\ quiet
              /\ \E b \in Ticked(brain) : b.listening
              /\ brain' = [brain EXCEPT !.listening = FALSE]
              /\ server' = [server EXCEPT !.open = FALSE]
              /\ step' = "lost"
              /\ UNCHANGED <<ear, quiet, up, down, gap, refused>>

-----------------------------------------------------------------------------
(* The main loop: a frame of the microphone.                               *)

FrameDone == /\ step = "frame"
             /\ step' = "events"
             /\ UNCHANGED <<down, server, gap, refused>>

\* No frame, a muted one, or one that calls for nothing.
NothingToDo == FrameDone /\ UNCHANGED <<brain, ear, quiet, up>>

\* Frames were lost, or are two seconds old.
Overflow == /\ FrameDone
            /\ brain' = [brain EXCEPT !.listening = FALSE]
            /\ UNCHANGED <<ear, quiet, up>>

\* The wake word, or speech while the timer rings: a new session supersedes the
\* one that may be recording.  The audio before the wake word is sent with it.
Wake == /\ FrameDone
        /\ brain.id < MaxSessions
        /\ brain' = [id |-> brain.id + 1, listening |-> TRUE, heard |-> FALSE]
        /\ ear' = [stream |-> brain.id + 1, recording |-> TRUE, awaiting |-> FALSE,
                   utterance |-> 0, total |-> 0]
        /\ up' = up \o <<AsrStart(brain.id + 1, 0)>>
                    \o [i \in 1..PreRoll |-> Audio(brain.id + 1, 0)]
        /\ quiet' = FALSE

\* What is counted of the first chunk of an utterance that continues a session: it
\* begins with sound from before the speech, as far as the pre-roll has kept it.
FirstTotal == IF PreRoll = 0 THEN 1 ELSE 0

\* Bug: the next utterance does not wait for the transcript of the last one.
ContinueUnanswered ==
  /\ FrameDone
  /\ brain.listening /\ ~ear.recording
  /\ ear.utterance < MaxContinued
  /\ LET u == ear.utterance + 1
     IN /\ ear' = [ear EXCEPT !.utterance = u, !.recording = TRUE, !.total = FirstTotal]
        /\ up' = up \o <<AsrStart(ear.stream, u), Audio(ear.stream, u)>>
  /\ quiet' = FALSE
  /\ UNCHANGED brain

\* Speech in a session whose last utterance was answered: the next utterance.
Continue == /\ FrameDone
            /\ brain.listening /\ ~ear.recording /\ ~ear.awaiting
            /\ ear.utterance < MaxContinued
            /\ LET u == ear.utterance + 1
               IN /\ ear' = [ear EXCEPT !.utterance = u, !.recording = TRUE, !.total = FirstTotal]
                  /\ up' = up \o <<AsrStart(ear.stream, u), Audio(ear.stream, u)>>
            /\ quiet' = FALSE
            /\ UNCHANGED brain

\* A chunk of an utterance that goes on.
Record == /\ FrameDone
          /\ brain.listening /\ ear.recording /\ ear.total + 1 < MaxUtterance
          /\ ear' = [ear EXCEPT !.total = @ + 1]
          /\ up' = Append(up, Audio(ear.stream, ear.utterance))
          /\ UNCHANGED <<brain, quiet>>

\* Bug: the silence ends the utterance again and again.
EndUtteranceRecording ==
  /\ FrameDone
  /\ brain.listening /\ ear.recording /\ ear.total + 1 < MaxUtterance
  /\ ear' = [ear EXCEPT !.awaiting = TRUE, !.total = @ + 1]
  /\ up' = up \o <<Audio(ear.stream, ear.utterance), AsrFinish(ear.stream, ear.utterance)>>
  /\ UNCHANGED <<brain, quiet>>

\* The silence after an utterance: its last chunk, and asr_finish.
EndUtterance ==
  /\ FrameDone
  /\ brain.listening /\ ear.recording /\ ear.total + 1 < MaxUtterance
  /\ ear' = [ear EXCEPT !.recording = FALSE, !.awaiting = TRUE, !.total = @ + 1]
  /\ up' = up \o <<Audio(ear.stream, ear.utterance), AsrFinish(ear.stream, ear.utterance)>>
  /\ UNCHANGED <<brain, quiet>>

\* The utterance reaches max_utterance_seconds and is discarded.
TooLong == /\ FrameDone
           /\ brain.listening /\ ear.recording /\ ear.total + 1 >= MaxUtterance
           /\ brain' = [brain EXCEPT !.listening = FALSE]
           /\ ear' = [ear EXCEPT !.total = MaxUtterance]
           /\ UNCHANGED <<quiet, up>>

Frame == \/ NothingToDo \/ Overflow \/ Wake \/ Continue
         \/ Record \/ EndUtterance \/ TooLong

\* Bug: the session is not cancelled with its connection.
LoseConnectionOnly == /\ step # "lost" /\ ~server.open
                      /\ step' = "lost"
                      /\ UNCHANGED <<brain, ear, quiet, up, down, server, gap, refused>>

\* The loop finds the connection closed, or a send fails: the session is over.
LoseConnection == /\ step # "lost" /\ ~server.open
                  /\ step' = "lost"
                  /\ brain' = [brain EXCEPT !.listening = FALSE]
                  /\ UNCHANGED <<ear, quiet, up, down, server, gap, refused>>

\* Three seconds later: a new connection, without replay.
Reconnect == /\ step = "lost"
             /\ step' = "events"
             /\ ear' = NotRecording
             /\ quiet' = FALSE
             /\ server' = NewHandler
             /\ up' = <<>> /\ down' = <<>>
             /\ gap' = FALSE /\ refused' = "nothing"
             /\ UNCHANGED brain

\* 15 s pass since the last progress.
ProgressStalls == /\ ear.stream # 0 /\ ~quiet
                  /\ quiet' = TRUE
                  /\ UNCHANGED <<step, brain, ear, up, down, server, gap, refused>>

-----------------------------------------------------------------------------
(* The handler of the connection.                                          *)

Takes(type) == server.open /\ up # <<>> /\ Head(up).type = type

\* The handler raises: the error is sent, and the connection closed.
Refuses(why) == /\ server' = [server EXCEPT !.open = FALSE]
                /\ down' = Append(down, Error(server.s, server.u))
                /\ refused' = why

\* Bug: the state of the model is kept for the next utterance.
TakeStartKeepingState ==
  /\ Takes("asr_start")
  /\ server' = [server EXCEPT !.active = TRUE, !.s = Head(up).s, !.u = Head(up).u, !.samples = 0]
  /\ up' = Tail(up)
  /\ UNCHANGED <<client, down, gap, refused>>

TakeStart == /\ Takes("asr_start")
             /\ server' = [open |-> TRUE, active |-> TRUE, s |-> Head(up).s, u |-> Head(up).u,
                           samples |-> 0, of |-> {}]
             /\ up' = Tail(up)
             /\ UNCHANGED <<client, down, gap, refused>>

\* Audio without a stream is dropped, and too much of it refused.
TakeAudio ==
  /\ Takes("audio")
  /\ LET heard == server.of \cup {<<Head(up).s, Head(up).u>>}
     IN IF ~server.active THEN UNCHANGED <<server, down, refused>>
        ELSE IF server.samples + 1 > MaxUtterance + Margin THEN Refuses("audio")
        ELSE /\ server' = [server EXCEPT !.samples = @ + 1, !.of = heard]
             /\ down' = Append(down, Transcript(server.s, server.u, FALSE, heard))
             /\ UNCHANGED refused
  /\ up' = Tail(up)
  /\ UNCHANGED <<client, gap>>

TakeFinish ==
  /\ Takes("asr_finish")
  /\ IF ~server.active THEN Refuses("asr_finish")
     ELSE /\ server' = [server EXCEPT !.active = FALSE]
          /\ down' = Append(down, Transcript(server.s, server.u, TRUE, server.of))
          /\ UNCHANGED refused
  /\ up' = Tail(up)
  /\ UNCHANGED <<client, gap>>

TakeCancel == /\ Takes("cancel")
              /\ server' = [server EXCEPT !.active = FALSE]
              /\ up' = Tail(up)
              /\ UNCHANGED <<client, down, gap, refused>>

\* Five seconds without a message, be it a muted microphone or a slow network.
GiveUpStream == /\ server.open /\ server.active
                /\ server' = [server EXCEPT !.active = FALSE]
                /\ down' = Append(down, Error(server.s, server.u))
                /\ gap' = TRUE
                /\ UNCHANGED <<client, up, refused>>

\* The gate is busy, the model fails, the service restarts, the network breaks.
ServerFails == /\ server.open
               /\ server' = [server EXCEPT !.open = FALSE]
               /\ down' \in {down, Append(down, Error(server.s, server.u))}
               /\ UNCHANGED <<client, up, gap, refused>>

Serve == TakeStart \/ TakeAudio \/ TakeFinish \/ TakeCancel

Loop == \/ HandleTranscript \/ HandleError \/ NoMoreEvents \/ Tick \/ NoProgress
        \/ Frame \/ LoseConnection \/ Reconnect

Next == Loop \/ ProgressStalls \/ Serve \/ GiveUpStream \/ ServerFails

Spec == Init /\ [][Next]_vars

(***************************************************************************)
(* The main loop always comes round: it waits 200 ms for a frame at most,  *)
(* and reconnects for ever.  Time passes.  Nothing is assumed of the       *)
(* server, the network or the microphone, which may all be silent.         *)
(***************************************************************************)
FairSpec == Spec /\ WF_vars(Loop) /\ WF_vars(ProgressStalls)

-----------------------------------------------------------------------------
\* The messages of channel c of a type.
In(c, type) == {i \in 1..Len(c) : c[i].type = type}

\* Type correctness of both ends.
TypeOK ==
  /\ step \in {"events", "tick", "frame", "lost"}
  /\ brain \in [id : 0..MaxSessions, listening : BOOLEAN, heard : BOOLEAN]
  /\ ear \in [stream : 0..MaxSessions, recording : BOOLEAN, awaiting : BOOLEAN,
              utterance : Utterance, total : 0..MaxUtterance]
  /\ server \in [open : BOOLEAN, active : BOOLEAN, s : 0..MaxSessions, u : Utterance,
                 samples : 0..(MaxUtterance + Margin), of : SUBSET (SessionId \X Utterance)]
  /\ quiet \in BOOLEAN /\ gap \in BOOLEAN
  /\ refused \in {"nothing", "audio", "asr_finish"}

\* A transcript is made of the audio of its own utterance, whatever was
\* cancelled, superseded or given up on the same connection before.
OwnAudioOnly == \A i \in In(down, "transcript") : down[i].of \subseteq {<<down[i].s, down[i].u>>}

\* A final transcript the brain would take is the one the client waits for, of
\* the utterance it counts, and the only one on its way.
FinalIsAwaited ==
  \A i \in In(down, "transcript") :
    down[i].final /\ down[i].s = brain.id /\ brain.listening
      => /\ ear.awaiting /\ down[i].u = ear.utterance
         /\ \A j \in In(down, "transcript") : down[j].final /\ down[j].s = brain.id => i = j

\* When nothing is left to deliver to it, an open handler has the stream that
\* the client records, unless it gave one up.
ServerFollowsClient ==
  step # "lost" /\ server.open /\ ~gap /\ up = <<>>
    => /\ ear.recording /\ brain.listening
            => server.active /\ server.s = ear.stream /\ server.u = ear.utterance
       /\ ear.stream = 0 => ~server.active

\* The server refuses no message of this client, except for an asr_finish that
\* crossed with its own "Audio stream timed out": the client's limit keeps the
\* audio within the server's, and no finish comes without its stream.
RefusesOnlyAfterGap == refused = "nothing" \/ (refused = "asr_finish" /\ gap)

\* A listening session has the stream, and a connection to carry it.
SessionHasItsStream == brain.listening => ear.stream = brain.id /\ step # "lost"

\* Client, server and brain agree on the stream there is.
EndsAgree == TypeOK /\ SessionHasItsStream /\ ServerFollowsClient

\* The input does not stay active for ever, whatever the server does: the
\* continuation deadline of the brain waits for that.
InputEnds == /\ ear.awaiting ~> ~ear.awaiting
             /\ ear.recording ~> ~ear.recording

=============================================================================
