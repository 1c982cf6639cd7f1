# A TLA+ verification of the voice assistant

The repository is a voice assistant in two programs: a client beside the
microphone (`src/jarvis/remote_client.py` and what it imports) that detects wake
words, owns the conversation, validates and sends the commands to the house and
keeps the timer, and an inference service (`src/jarvis/server.py`) that runs
three shared models for all clients. Two adapters offer the service to Home
Assistant, a small library offers it to other projects, and an older local mode
does without it. This directory models the parts whose correctness depends on the
order in which threads, messages, timeouts and failures meet, checks them with
TLC, and proves theorems about them with TLAPS.

- [1. The system](#1-the-system): the parts, their state, and what makes them correct
- [2. Modules and runs](#2-modules-and-runs): how each model corresponds to the code, what the runs show
- [3. Fairness](#3-fairness), [4. Bounds](#4-bounds)
- [5. Proofs](#5-proofs)
- [6. Findings](#6-findings)
- [7. What is not modelled](#7-what-is-not-modelled)
- [8. Plan](#8-plan)

To check one run: `tlc -config MCWaiting.cfg MCWaiting`. To check the proofs:
`tlapm FairGateProofs.tla`, and the same for the other modules named `...Proofs`.
`PROJECT.json` lists the runs, the source lines each definition models, the hazards and, for every property, a mutant: a plausible
bug (the definitions commented "Bug:") that makes TLC find the property violated.

## 1. The system

```
 microphone ──frames──> listen() ──/asr: audio, asr_start, asr_finish, cancel──> handler() ─┐
                        │    ^  <────── transcripts, errors, timings ─────────── (thread)   │
                  wake, │    │ tick, muted                                                  v
             transcripts v    │                                         gpu FairGate ── R2T2, Kokoro
                     ClientBrain ── plan job ──/rpc: plan──> handler() ─ needle FairGate ── Needle
                        │  two workers
                        ├─ delivery ──REST──> openHAB / Home Assistant
                        │       └─ TimerService.apply     (clock, publisher, ring threads)
                        └─ speech ──/rpc: speak──> handler() ──PCM──> SpeechOutput <── chime
```

| Part (source) | State it keeps | Operations | Hard behaviour |
|---|---|---|---|
| **FairGate** (`scheduling.py`) | deque of tickets, busy flag, condition variable | enter, wait, give up after 30 s, exit | wakeups that meet arrivals and timeouts |
| **Inference service** (`server.py`, `remote_asr.py`, `tts.py`, `inference.py`) | connection slots, one thread per connection with its stream, two gates, a watchdog per model call | greeting, asr_start, audio, asr_finish, cancel, plan, speak, errors | every path out of a handler must give back slot, gate and watchdog; a stuck model; a client that does not read |
| **Listener** (`remote_client.py`) | the session being streamed, recording, awaiting, utterance counter, last progress; the connection | events, tick, frame: wake, continue, record, finish, discard; reconnect | a stream cut by another session, by both ends' timeouts, by a lost connection, with messages of the old one under way |
| **ClientBrain** (`client_brain.py`) | the current session with its text, revision and three futures; a pool of two workers | start, cancel, transcript, tick, close; plan, deliver and speak jobs | a session superseded while a worker plans or acts for it; a failed action among several |
| **TimerService** (`timers.py`) | deadline in memory and on disk, ringing flag, display, ring thread and its event | start, cancel, stop, tick, ring, publish, close, restart | crashes and failed writes between two steps; ring threads that outlive their timer; lost display updates |
| **SpeechOutput** (`remote_rpc.py`, `clients/inference_client.py`) | the speaker's lock, busy, quiet_until; a receiver thread with its queue | speak, chime, muted | a slow speaker and a fast socket; two sounds; cancellation in the middle |
| **RemotePlanner** (`remote_rpc.py`, `groq_fallback.py`) | none; a pipeline of up to four stages | plan | every stage can fail or answer for another text; only what was validated for its text may act |
| **Catalog, ItemPolicy** (`control.py`, `item_policy.py`) | the items, their tools, the groups | candidates, validate, excluded, normalize | groups nested in groups, in circles, or unknown; rooms with a default |
| **Home Assistant agent** (`custom_components/`) | none between messages; a plan under execution | handle message | deadlines inside deadlines; an action that may have happened |
| **Wyoming adapter** (`wyoming.py`) | a backend connection, a result task, a byte count | describe, transcribe, start, chunk, stop, synthesize | the result task ends or lags while audio is still coming; two limits that differ |
| **Standalone client** (`clients/inference_client.py`) | none between calls; a connection and a sending thread | plan, speak, transcribe | two threads that fail at once; a consumer that stops half-way |
| **WakeWord** (`wake.py`) | hits, quiet frames, cooldown, armed | feed, reset | one phrase, one trigger |
| **Local mode** (`audio.py`, `asr.py`, `Conversation`, `PlainTranscript`) | the sound kept, a recording, one session, the line of the transcript file | listen, activate, confirm, utterance, expire, send | a session that several utterances make, and what is left of it after lost audio or a doubtful wake |

What makes each correct:

- *FairGate*: one thread at a time, first come first served; nobody sleeps on a
  free gate; nobody waits much longer than 30 s.
- *Inference service*: slots and gates never leak and are never released twice;
  the watchdog runs exactly during model calls; no connection is passed over
  again and again; every request ends.
- *Listener with handler*: a transcript is made of its own utterance's audio;
  both ends agree on which stream is open; the service refuses nothing a correct
  client sends; recording and waiting end.
- *ClientBrain*: what is sent to the house is the plan of the latest utterance,
  in order, once, only if the wake word was verified; a cancelled session stops;
  every session, delivery and `close()` ends.
- *TimerService*: a timer the user was told of is on disk, one the user was told is
  gone is not; a confirmed timer rings, a dismissed one does not; one sound at a time.
- *SpeechOutput*: the microphone is muted while anything sounds; a reply is
  played whole or reported as failed; a cancelled sound stops.
- *RemotePlanner with the catalog*: an action names a device of the text it was
  planned for, and none that the policy excludes.
- *Home Assistant agent*: no unvalidated call is executed, none twice, none after a
  failure; a failure is told; every message is answered.
- *Wyoming adapter*: a transcript is that of all the audio since its start; no
  backend connection leaks; the service is never left undrained.
- *Standalone client*: the connection ends with the call; the cause of a failure is
  what the caller is told.
- *Local mode*: what is sent was heard whole, in a session that a wake word
  authorized; one phrase makes one session; a text is on the line of its own wake.

## 2. Modules and runs

| Module | Models | Composes | Run |
|---|---|---|---|
| `FifoLock` | what a gate promises: the abstract specification | | (through the next two) |
| `FairGate` | `scheduling.py` in full | implements `FifoLock` | `waiting` |
| `FairGateProofs` | theorems about `FairGate` | | |
| `InferenceServer` | `handler()` with gates, slots, watchdog | two instances of `FifoLock` | `server_safety`, `waiting`, `network_writes` |
| `InferenceServerProofs` | theorems about `InferenceServer` | | |
| `MCWaiting` | | `FairGate` or `InferenceServer`, chosen at the start | `waiting` |
| `AsrStream` | the loop of `listen()` and the `/asr` part of `handler()`, joined by two channels | | `stream` |
| `AsrStreamProofs` | theorems about `AsrStream` | | |
| `ClientBrain` | `client_brain.py`, and `text_request()` | | `brain`, `stale_action` |
| `ClientBrainProofs` | theorems about `ClientBrain` | | |
| `TimerService` | `TimerService` | | `timer` |
| `TimerServiceProofs` | theorems about `TimerService` | | |
| `SpeechOutput` | `SpeechOutput` with `speech_messages` and the listener's use of `muted` | | `speech`, `own_voice` |
| `SpeechOutputProofs` | theorems about `SpeechOutput` | | |
| `PlannedRequest` | what the user of a planner is promised: an abstract specification | | (through the next) |
| `HomeAgent` | `conversation.py`, `planner.py` | implements `PlannedRequest` | `programs`, `conditional_request` |
| `WyomingAdapter` | `R2T2Handler` with its result task, joined to the `/asr` part of `handler()` by two channels | | `programs` |
| `WyomingAdapterProofs` | theorems about `WyomingAdapter` | | |
| `Catalog` | `Catalog` and `ItemPolicy` as operators | | (through the next) |
| `RemotePlanner` | `RemotePlanner.plan`, `GroqFallback` | `Catalog` | `programs` |
| `LocalMode` | `listen()` of `audio.py`, `WakeWord`, `Conversation`, `R2T2`, `PlainTranscript` | | `programs`, `clean_session` |
| `StandaloneClient` | one call of `InferenceClient` | | `programs` |
| `MCPrograms` | | one of the last five programs, chosen at the start | `programs` |
| `ProgramsProofs` | theorems about the programs of `MCPrograms` | cites `WyomingAdapterProofs` | |

The modules meet in what one assumes of another. `InferenceServer` uses the gate
by its promise `FifoLock`, which `FairGate` is proved to implement. `FairGate`
needs holders that leave for `EveryCallReturns`; `InferenceServer` shows that
the watchdog sees to it. `ClientBrain` needs input that ends for its
continuation deadline; that is `InputEnds` of `AsrStream`. `AsrStream` in turn
has the brain as an arbitrary session that starts, hears, and may end at any
tick, which is what `ClientBrain` allows. The plan job of `ClientBrain` returns any
actions or none; `RemotePlanner` says which ones they can be.

`MCPrograms` puts five programs in one run because they are small and share nothing
but the service, which each of them meets as an environment that answers anything,
late, or not at all. A behaviour chooses one of them; the others stand still.
`MCWaiting` does the same with the gate alone and the service at its gates: who waits
for a model, and for how long.

### FairGate, FifoLock

One action is one critical section of the condition variable's lock: from taking
it to `wait`, to raising, or to returning. `Call` is the computation of the
deadline before the lock is taken; `Join` and `LookAgain` are the first and every
later turn of the loop, each of which passes, gives up or waits (`Look`);
`WaitTimesOut` is the return of a timed `wait`; `Exit` is `__exit__`. A ticket is
named by its thread, since a thread has one entry at a time. The clock is the flag
`late[t]`.

Run `waiting` (four threads): `MutualExclusion` with the busy flag;
`ImplementsFifoLock`, by the mapping `line <- queue`, `owner <- Holder`;
`EveryCallReturns` if holders leave, for which no wakeup may be lost; and
`WaitIsCapped`, which assumes nothing of the holder: the comment in API.md that
queue waiting is capped at 30 seconds.

### InferenceServer

A handler is a program counter `thread[c].at` over the places where it can wait:
`recv`, a gate, a model call, a write to its client. Writes are separate steps
because each can fail, and because `TimingForwarder` makes them happen *inside* the
gates: the timing records of `queue.wait` and of the model call are sent to the
client by the thread that logs them. `Release` is the end of the `with` blocks in
their order, `Outcome` what the handler does next: a further chunk of speech (back
to `ask`), an answer, or an error that ends the connection. `Watchdog` ends the
process, and systemd restarts it with empty state (`jarvis-vm.service`).

- `server_safety`: `LedgersAgree`, which is `SlotsAgree` (slots = limit − accepted
  handlers, on every path out of a handler) and `GatesAgree` (the gate's owner is
  exactly the thread between enter and exit, and the watchdog runs only in model
  calls, so that waiting in a queue never restarts the service), with types;
  `OneCallEach` (the promise that the queue is "released between audio chunks":
  while one waits, every other connection begins at most one call).
- `waiting`: with models that may be stuck for ever and a client that may
  stop reading: `EveryRequestEnds` if the clients read their answers, and
  `NobodyQueuesForEver` even if not.
- `network_writes`: see [Findings](#6-findings).

### AsrStream

Two reliable ordered channels of unbounded delay join the loop of the client and
the handler of the service. The loop goes round `events`, `tick`, `frame`; a
message has arrived when the loop takes it, so receiver thread and queue belong
to the channel. Audio is counted in chunks and each chunk carries the utterance
it was recorded for, which only the property `OwnAudioOnly` looks at. The
15 s without progress, the service's 5 s without audio, model failures and broken
connections can all happen at any moment; a muted microphone is `NothingToDo`
for as long as it lasts.

Run `stream`: `OwnAudioOnly`; `FinalIsAwaited` (a final transcript that the brain
would take is the one awaited, and the only one under way); `EndsAgree`, which is
`ServerFollowsClient` (with nothing left to deliver, the open handler has exactly the
stream that is recorded, and none if the client has none) and `SessionHasItsStream`;
`RefusesOnlyAfterGap` (the limits of the two ends fit, and no finish comes without
its stream, save the one that crossed with the service's own timeout); `InputEnds`.

### ClientBrain

Each call of the main loop is one action, for no other thread writes what it reads
except that a future becomes done. A delivery is three steps, because the main
loop can cancel between them: the test of `cancelled`, the request, its outcome. A
text is known by whether words are left after the wake phrase and by its
revision; a plan by its number of actions. `mode` says which loop owns the brain:
`listen()`, which may call anything at any time, or `text_request()`.

Run `brain`: `WellFormed`, with `OneFutureAtATime` (it justifies that `tick()` is
modelled as the collection of one future); `ActsOnLatestUtterance`;
`SentOnceInOrder` (and nothing after a failure); `OnlyVerifiedActs`;
`AtMostOneLateAction`; `EveryActionIsAnswered`; and `EverythingEnds`: sessions,
deliveries, command line requests and `close()`.

### TimerService

`apply()` and `tick()` hold the lock throughout, but are split where the process
can die or a write can fail: change in memory, `_save`, and the confirmation or the
rest of the tick. The ring threads and the publisher are small loops beside them.
Time is counted in seconds left, in memory and on disk alike.
A tick that has passed the test of `stop_event` may still take the lock after `close()`
has set it (`Ticking` says when the clock must run, not when it may).

Run `timer`: `PromiseOnDisk` and `DismissedIsGone` relate what the user was told
to memory and disk at every point at which the process can stop; `WellFormed` holds
`OneRing` (at most one thread can chime, the one that commands and `close()`
silence); `PromiseIsKept` across a restart; `UserIsTold`: ringing is heard, and the
display follows in spite of failed requests.

### SpeechOutput

Each thread that calls `speak` or `chime` is a program counter; the lock, `busy` and
`quiet_until` are shared, and the socket with the receiver's `recv` is one step, for
the server's messages come in a fixed order (`Script`). `TakeMessage` is the test of
`cancelled` with the `get`, `Handle` what the loop does with the message, so that a
cancellation can fall between them; `Drain` is the choice between `stop` and `abort`,
`CloseSound` and `Leave` the finally block in its order. `speech_messages` looks at
`cancelled` only between messages, and so does the receiver. A frame is TRUE if the
speaker sounded when it was captured; `ReadBusy` and `ReadQuiet` are the two reads of
`muted`.

- `speech`: `HearsOnlyTheRoom`; `HeardWhole` (it also shows that the error "Speech
  stream ended without completion" is unreachable); `AtMostOneLateSlice`;
  `EverySoundEnds`, which is what `ClientBrain` takes for granted of its speech job.
  Here `FallsBehind` is FALSE: the quiet time ends after the frames captured
  before it have been judged.
- `own_voice`: replies only, with a listener that lags. Its property,
  `NormalReplyIsMuted`, says nothing of behaviours in which a reply is cancelled or
  fails, so that the counterexample is a reply played from `tts_start` to `tts_end`;
  see [Findings](#6-findings).

### HomeAgent, PlannedRequest

`PlannedRequest` is the promise: a message is planned once, from what is allowed for
it, before anything is executed; the calls are made one at a time, in order, none
twice, none after one that failed or may have failed. `HomeAgent` has one action per
place where the handler awaits. `Accept(stage)` is a response of Needle, of Needle
after Groq's repair, or of Groq's proposal, that `validate_plan` accepts (`Accepted`);
`NeedleFails`, `Repair`, `RetryFails` and `ProposalFails` are the ways to the next
stage; `PlanningEnds` is the limit of 65 s over all of them, or an exception that no
stage expects. `Begin`, `Result`, `CallEnds` and `CallBreaks` are the execution of a
call, which may give several results, none, or run into its 30 s. A text is known by
the kinds of words that `select_tools` looks for, which decide whether every tool is
allowed or only those whose name contains "get" or "search" (`Reads`), whatever they
do; the scores among the allowed tools are free.

`ImplementsPlannedRequest`, in which "allowed" is what `select_tools` allows for the
message's own words; `FailureIsTold` (`told` is set only if the warning fits into the
900 characters whole); and every message is answered. That a tool which is allowed for
a question or a condition changes nothing is another matter: run
`conditional_request`, see [Findings](#6-findings).

### WyomingAdapter

The handler takes one event at a time and `handling` is where it awaits; beside it
runs the result task (`TakeResult`), and each direction of the connection holds
`Window` messages before its sender waits. `Serve`, `ServiceTimesOut` and `ServeIdle`
are the stream of `server.py`, which accepts less audio than the adapter.
A write to the client is a place of its own (`describing`, `answering`, `refusing`),
left when the client reads or is gone (`Described`, `Answer`, `Refuse`, `ClientGone`);
so is each `disconnect()` (`closing`, `clearing`, `leaving`), left by `HangUp`, before
which the result task is cancelled already. In a speech `Speak` checks the order of the
service's messages.

`TranscriptIsWhole` relates the transcript to the slices counted since the start;
`NeverStalls` is the comment that without the result task "the worker's output
queue can block a long utterance". `EveryEventEnds`, the adapter's part of
`EveryCallerIsAnswered`, has two halves, for not every wait of the code is bounded. No
connecting, no answer and no slice of audio is waited for for ever, whatever the
neighbours do. But `write_event`, the sending of `asr_finish` and of the closing message
have no timeout, so an event is answered or ends the connection only if the client reads
or is gone (`ClientReads`) and the service reads what is sent (`ServiceReads`).

### RemotePlanner, Catalog

`Catalog` has no state: the operators take the group memberships `g`. A label, a
text and a transcript are sets of words, so that the choice among names, rooms and
their defaults is kept and spelling is not. `Ancestors` is the loop of the code;
`Above`, in the property, is the least closed set. `RemotePlanner` is the pipeline:
`Outcomes(text)` is everything that `validate_response` can make of any answer to a
request about the text, with the shortlist that `candidates` gives for it.

`ActsOnWhatWasHeard` says, of whichever stage the actions come from, that each names
a device of the text they were planned for, completely and in the room that was said,
that no group above it is ignored, and that ON and OFF were spoken.

### LocalMode

One thread: a `Turn` is 80 ms of sound, fed to the detector and kept (`Feed`,
`Keep`), and then one of `Wake`, `Idle`, `Resume`, `Record`, `TooLong` and `End`, the
branches of the loop in `audio.py`. `End` is the whole of `utterance()` up to the
planning; the actions are then sent one by one (`Send`), during which no sound is
processed. Scores are classes between the thresholds of `wake.py`; a sound is a wake
phrase, a word or nothing; what the recognizer makes of the sounds is free within
`Transcripts`. `past` is history that only the properties read.

`ActsOnWholeCommand`, `PageFollowsSession` (the line of the transcript file that a
text goes to, and when it is held back), `OneSessionPerPhrase`.

### StandaloneClient

One call, its connection and the thread of `transcribe()` that sends what the
consumer's iterable gives. The consumer may abandon a generator at any event
(`Abandon`), the iterable may block, raise or give half a sample (`Pull`), and
either end may close first. `CauseIsRaised` needs the order of `Fail`: the error is
recorded before the connection is closed. Its part of `NoConnectionLeaks` is that a
call that has ended has closed its connection, and its part of
`EveryCallerIsAnswered` that a silent service is given up: the caller does not wait for
ever for an answer. That the call then ends takes a service that reads, for the closing
of the connection waits behind a send of the other thread that nothing bounds
(`ServiceReads`).

## 3. Fairness

- *Scheduling.* Runnable threads run: weak fairness of the steps of workers, clock,
  publisher, ring threads, gate waiters and handlers.
- *Holders.* `FairGate` assumes nothing of holders in `FairSpec`; the premise
  `HolderFairness` of `EveryCallReturns` is what `inference_deadline` enforces. A
  thread stuck in a timing write before the watchdog starts is the exception,
  found by `network_writes`; `NobodyQueuesForEver` shows that the others still
  leave the queue.
- *Models* need not return, except `new_state`, which runs no inference and is not
  watched.
- *The main loop* of the client comes round: it waits 200 ms for a frame at most.
  That a tick without input comes is `InputEnds` of `AsrStream`, which itself
  assumes nothing of service, network or microphone.
- *Requests* of the workers have timeouts in the code (8 s, 15 s, 20 s and so on),
  so a job that runs ends.
- *openHAB* answers again and again if asked again and again (strong fairness of
  `PublishSucceeds`); so does the timer's lock, which commands hold for an instant.
- *The speaker's lock* is not fair by itself, but a chime of 1.8 s is followed by 7 s
  of silence, so a reply that waits gets it (strong fairness of `TakeLock`). The
  device takes what is written, and `recv` ends within its 20 s.
- *Timeouts* strike: the limits of 65 s and 30 s of the Home Assistant agent, of 10 s
  and 60 s of the Wyoming adapter, and the timeout of each `recv` of the standalone
  client. Where the code has a timeout nothing is assumed of models, tools, service,
  consumer or network. Where it has none nothing is assumed either, but a premise of the
  property says who has to read: `ClientReads` and `ServiceReads` in `WyomingAdapter`
  (writing to the client; `asr_finish`; closing), `ServiceReads` in `StandaloneClient`
  (sending, and the closing that waits for it). The local mode has no liveness property: its one thread waits for nothing but the microphone.
- Nobody is assumed to speak, to connect, to set a timer or to call `close()`.

## 4. Bounds

| Run | Bounds | Why they are enough |
|---|---|---|
| `waiting`, gate | 4 threads | one holds, three queue: head, middle and tail behave differently |
| `server_safety` | `Asr` 1, `Rpc` 3, 3 slots, 1 call before the last | one connection more than slots; three in the queue of a gate; a speech of one chunk and its end; the two kinds of connection |
| `waiting`, service | `Asr` 2, `Rpc` 1 (reads slowly), 2 slots | holder, waiter and a stuck or slow third |
| `stream` | utterance of 3 chunks, pre-roll 1, margin 1, 2 sessions, 2 utterances each | a session superseded in each of its states, with the old one's messages under way; a first and a continued utterance; the limit reached with and without pre-roll |
| `brain` | 2 workers, 2 sessions, 2 utterances each, 2 actions | two workers as in the code; a supersession; a correction; a failure before and at the last action |
| `timer` | 1 second, 1 crash, 2 ring threads alive | a display that changes under a request; a crash at every point; an old ring thread beside a new one |
| `speech` | 2 callers of `speak`, 1 of `chime`, 2 slices, 1 waiting frame and one in hand | two replies and a chime want the lock; a cancellation before, between and after slices; a frame captured under one sound and judged under the next |
| `own_voice` | 1 caller of `speak`, none of `chime`, 2 slices | one reply is enough |
| `programs`, agent | 3 tools (one changes, one reads, one searches and plays, which reads like a query), 3 arguments (two that become one, one refused), 2 offered, plans of 2 calls, a reply of 2 parts | duplicates that only coercion shows; a plan too long; a failure before, at and after the last call; a reply that is full |
| `programs`, adapter | limits of 4 and 3 slices, chunks of 1 or 2, 1 message in a channel | an utterance within both limits, between them, and beyond both; every channel full |
| `programs`, planner | 5 devices, 3 groups, 64 ways to nest them (circles included), 7 texts, 8 calls, plans of 2 and of 3, one too many | names that contain one another; a room with a default, qualified and bare; exclusion by a group, by a group of a group, by a room |
| `programs`, local | 2 confirmations, rearm 2, cooldown 3, pre-roll 2, lead 2, pause 2, utterance 4, continuation 3, 2 actions | cooldown longer and shorter than the quiet; a wake in every state of a recording; two utterances of one session |
| `programs`, client | 2 unread events | the end of a stream behind a part of it |
| `conditional_request` | the agent's | one call is enough |
| `clean_session` | in half-seconds: pre-roll 6, cooldown 3, rearm 1, pause 1 | their proportions are those of the code |

`MaxSessions`, `MaxRevisions`, `MaxActions`, `MaxCalls`, `MaxContinued`,
`MaxSeconds`, `MaxCrashes` and `MaxFrames` are bounds of the models; `MaxUtterance`, `PreRoll`,
`Margin`, `MaxConnections`, `Limit`, `WorkerLimit`, `Top`, `Room` and the parameters
of `LocalMode` are parameters of the system in small units; so is `MaxCalls` in
`HomeAgent` and in `Catalog` (`MaxPlanned` in `MCPrograms`). `Window` and `Backlog` stand for buffers.

`ClientBrain` has CHECK_DEADLOCK off: after `close()` everything really stops.

## 5. Proofs

`FairGateProofs` proves, for every set of threads, from `NobodyAssumption` only:

- `TypeCorrect`, `GateIsExclusive`, `NoTicketIsLeftBehind`, `NoLostWakeup`: the
  invariants;
- `AdmissionIsFifo`: nobody enters past one who queued before;
- `GateIsAFifoLock`: the gate implements `FifoLock`.

The inductive invariant is `IInv`, the conjunction of the type invariant,
exclusion, `TicketsOfWaiters` and `HeadIsAwake`. None of the last three is
inductive alone: that the head is awake after `Exit` needs the ticket at the head
to be a waiter's (`TicketsOfWaiters`), which after `Join` and `GiveUp` needs each
ticket to be there once, and exclusion needs the head's ticket not to be the
holder's. `LookKeepsIInv` treats the loop body once for `Join`, where the deque has
just grown, and `LookAgain`, where it has not; `LoopEntry` says what both have in
common. `DropProperties` and `AppendElements` are the facts about sequences it
rests on. The refinement maps `Pass` to `ServedOnArrival` or `Serve`, `Wait` to
`JoinLine` or a stutter, `GiveUp` to `Leave` or a stutter, and `Exit` to `Free`.

`SpeechOutputProofs` proves, for every set of callers, every number of slices and
every backlog, from `FreeAssumption` and `SlicesAssumption`:

- `TypeCorrect`, and `CancelledSoundStops`: a cancelled sound writes at most one
  slice more;
- `OwnVoiceIsMuted`: if the listener keeps up (`~FallsBehind`), `HearsOnlyTheRoom`;
- `SoundsAreWhole`: `HeardWhole`.

`HearsOnlyTheRoom` needs two strengthenings. `BusyHolder` ties the device to the
thread that holds the lock and that thread to `busy`. `MuteCovers` follows a frame:
as long as a frame of the speaker is not judged, either the quiet time runs or some
thread is between `busy.set()` and the finally block; and once the listener has read
`busy` as false, only the first is left, which is why `quiet_until` must be set
before `busy` is cleared, and be read after it.

`HeardWhole` is about the end of a sound and its proof about the way there. The messages
of a reply are numbered, and `InOrder` says that the queue between the two threads holds
them from the one that the player waits for onwards (`Chain`), that a failure can only be
the last in it, and that the receiver has taken as many from the socket as the player has
played and the queue holds. So a player that finds `tts_end` has played every slice.
`Told` then follows a result through the finally block: until there it has none. The
lemmas `ChainPut`, `ChainTaken`, `ChainFails` and `ChainEnds` are the things that can
happen to such a queue.

`WyomingAdapterProofs` proves, for every limit of the adapter, every size of chunks
and every capacity of the channels, from `WorkerLimit \in Nat`, the theorems'
only hypothesis:

- `ConnectionsAreClosed`: `NoBackendLeaks`;
- `ServiceIsDrained`: `NeverStalls`;
- `TranscriptsAreWhole`: `TranscriptIsWhole`.

`IInv` says with `Connections` where the handler can be with and without a stream,
with `Streams` that the result task runs as long as the service has the stream (what
ends the task is sent only when the service is done), and with `Accounts` where the
audio is: what was heard, what is in the channel and what is left of the chunk add up
to what was received, until the service is done. A finish is the last message in the
channel and is sent when nothing is left, so that what was heard is the whole when it
is taken; from then on the handler is in `Closing` and receives nothing. `SlicesSent`
and `SlicesTaken` are the facts about the channel, and `ServiceKeepsIInv` treats the
steps of the service together.

`ProgramsProofs` is about `MCPrograms`. Of `HomeAgent` it proves, for every set of tools,
every schema, and every bound on plans and replies, from `AgentAssumption`:

- `TypeCorrect`: among others, that plan and executed calls have coerced arguments;
- `FailuresAreTold`: `FailureIsTold`;
- `AgentKeepsItsPromise`: `HomeAgent` implements `PlannedRequest`.

`IInv` is the type invariant with three more: `OffersOnlyAllowed` (the tools offered
to the models are those `select_tools` allows for the original words, which the repair of the text does
not change), `MadeInOrder` (what was made is a prefix of the plan) and
`FailureIsCurrent` (where the handler goes on, the last call succeeded, and where it
ends after one that did not, the reply tells). The plan is made in up to four stages and a call has any number of results, so in the refinement
`Accept` is `Plan`, `Begin` is `Make`, `CallEnds` is `Succeed` or `Answer`, and the
failed stages and `Result` stutter. `AcceptedPlans` is what the step from `Accept` to
`Plan` rests on: an accepted response, once coerced, is a sequence over the allowed
calls with none twice.

Of the other programs it proves, for every value of their limits, what the run `programs`
checks:

- `CommandsAreWhole`, `TextsFindTheirLine` (`LocalMode`): `ActsOnWholeCommand` and
  `PageFollowsSession`, with no assumption;
- `OnePhraseOneSession` (`LocalMode` with `WakeWord`): `OneSessionPerPhrase`;
- `CauseIsAlwaysRaised` (`StandaloneClient`): `CauseIsRaised`, with no assumption;
- `TranscriptsAreWhole`, `ServiceIsDrained` (`WyomingAdapter`): `TranscriptIsWhole` and
  `NeverStalls`;
- `ConnectionsAreClosed` (`WyomingAdapter` and `StandaloneClient`): `NoConnectionLeaks`;
- `ActsOnWhatIsHeard` (`RemotePlanner` with `Catalog`): `ActsOnWhatWasHeard`.

`ProgramsAssumption` is what `OnePhraseOneSession` and the theorems about the adapter and
the planner rest on: the service's limit and that of a plan are numbers, the detector waits
for one quiet step at least, a house has finitely many groups and knows its own devices,
and the default room is not called "on" or "off".

`LocalInv` relates the session, its history and the page of the transcript. An open
session has lost no audio; it is verified only after a wake word or a transcript with the
wake phrase, and then its page is the current line; until then the page is held back
(`Authorized`). A recording belongs to an open session. What the session is given to plan
is sent by the step that closes it, so `Commands` carries these facts over to the moment
of sending. The words of an utterance are left untyped: they come out of a fold over the
sound that was kept, about which nothing need be known, since no property here depends on
which words they are. `DetectorWaits` has the detector's count of quiet steps agree with
the quiet that there was since the last wake: while that is too short, the detector cannot
be armed, whatever the cooldown does (`FeedKeepsDetector`, `TurnNotesQuiet`).

`ClientInv` follows the two threads of a call. An error is recorded before the sending
thread closes the connection, and neither changes after it (`SenderIsRight`); a connection
on which the finish was not sent gives no last event (`LastIsDue`), so that a thread that
fails on the consumer's audio cannot be taken for one that was answered. `CauseStep` is
the property itself, from that.

`ActsOnWhatIsHeard` needs to know what two loops of the code compute, for every house and
every plan. `Ancestors` and `Validate` are recursive functions, and a recursive function is
a CHOOSE: nothing follows from it until some function is shown to satisfy its equation. The
library's theorem for that takes operators as parameters, which the installed provers cannot
instantiate; `RecursionDefines` says the same with sets and functions (the least relation
closed under the recursion is a function, because a smallest counterexample would have a
smaller one). The loop of `ancestors()` goes down a well-founded order, for with each turn
fewer groups are left to visit, or as many, and fewer are pending (`DownIsWellFounded`,
`Turning`); so it ends, for groups nested in circles too, and it returns names that contain
the groups of the item and, with a group, its own (`AncestorsAreAll`). `ValidateIsRight`:
with actions, every call was valid, every action is that of a call, and none is there
twice. From these, `OutcomesFit`: whatever a model answers to a request about a text, what
is left of it names a device of that text, says ON or OFF only if it does, and is not
excluded. `PlannerInv` adds that no request is made about an ignored room.

The theorems about the adapter are those of `WyomingAdapterProofs`, cited through
`Adapter == INSTANCE WyomingAdapterProofs`; `RunsEach` and `RunsAdapter` say that each
program keeps its own specification in `ProgramsSpec`, in which the others stand still.

`InferenceServerProofs` proves, for every set of connections, finite or not, every
number of slots and of model calls for a message, from `ServerAssumption`:

- `LedgersAreRight`: `LedgersAgree`, which is type correctness, `SlotsAgree` and
  `GatesAgree`;
- `CallsDoNotOvertake`: `OneCallEach`.

`IInv` has the same ledger twice, once for each gate: `GateAgrees` relates the line and
the holder to the threads that wait and that are inside. It adds to the property that
nobody is in a line twice, without which one that gives up would remain in it, and that
a thread on its way to a model has a call left, without which the count of its calls
would leave its type. `SlotsCount` says that the accepted connections are finitely many,
however many clients there are. A gate is known by what its steps do to the line and to
the two sets (`GateServes`, `GateJoined`, `GateDropped`, `GateFreed`); the steps of the
threads follow from two lemmas, one for those outside the gates (`OutsideKeepsIInv`) and
one for those that are a step of a gate (`GateStepKeepsIInv`).

`OneCallEach` counts calls, which its own bound does not preserve. What does is a
statement about positions (`Overtaken`): a thread that has begun a call since another one
queued does not stand before that one in the line, nor has it passed the line already; it
can only be behind. The lines on which this rests are those of `IInv`: a newcomer is put
at the end (`BeforeAppended`), nobody changes places when one leaves (`BeforeWithout`),
and only the head is admitted.

`TimerServiceProofs` proves, for every longest countdown and every number of restarts,
from `TimerAssumption`:

- `OneThreadRings`: `WellFormed`, which is type correctness and `OneRing`;
- `PromisesAreOnDisk`: `PromiseOnDisk`, and `PromisedIsSaved`: as long as a promise
  stands, which is until the timer is due, another command changes it or a restart finds
  the file unreadable, the file holds the very countdown that memory has. What the file
  holds when nothing is promised is not said: a process that dies between the write and
  the confirmation leaves a timer in it that nobody was told of;
- `DismissedTimersAreGone`: `DismissedIsGone`.

The two properties say nothing about the steps within a command, in which memory has
changed and the file has not. `Command` does: for each holder of the lock, what it has
changed and written so far, and that nothing has been promised meanwhile, so that a write
that fails or a process that dies there leaves nobody misinformed. `Displayed` (the
publisher is woken only when there is a display) is what its type needs.

`ClientBrainProofs` proves, for every number of workers, sessions, utterances and actions,
from `BrainAssumption`:

- `SessionsAreWellFormed`: `WellFormed`, with `OneFutureAtATime`;
- `ActsOnTheLatest`: `ActsOnLatestUtterance`;
- `UnverifiedNeverActs`: `OnlyVerifiedActs`;
- `OneLateActionAtMost`: `AtMostOneLateAction`;
- `ActsOnceInOrder`: the action property `SentOnceInOrder`.

None is inductive, for what a session sends is decided by a piece of work that carries a
copy of its plan while the main loop goes on. `IInv` therefore follows the work, in the
queue and in the workers, as closely as the sessions: what waits or runs is what a future
of its session stands for, and no session has two (`WorkIsSingle`); a delivery has the
revision of its session, which can no longer be revised because it listens no more, and
knows how much of the plan was sent (`WorkIs`); between its test of `cancelled` and the
request it has sent nothing late. The futures of a session exclude each other and it plans
before it sends anything (`SessionIs`). A step is one of the main loop or of a worker:
`MainLoopKeepsIInv` requires of the first that it leaves alone what a worker relies on
(`Keeps`), `WorkerKeepsIInv` of the second that it touches its own session only.

`AsrStreamProofs` proves, for every length of an utterance, of the audio before the wake
word and of the server's margin, and every number of sessions and utterances, from
`StreamAssumption`:

- `BothEndsAgree`: `EndsAgree`;
- `TranscriptsAreOwn`: `OwnAudioOnly`;
- `FinalsAreAwaited`: `FinalIsAwaited`;
- `RefusalsFollowGaps`: `RefusesOnlyAfterGap`.

`EndsAgree` speaks of empty channels, and the invariant has to say what it means while
messages are under way: `Has` and `HasNone` are the stream that the handler will have after
the first `i` of them. With these, `Legal` says that no audio and no finish comes without its
stream, and `StreamIsRight` that after all of them the handler has what the client records.
That no audio is refused is a bound on runs of audio in the channel (`Bounded`): a run that
begins at the handler counts what it has already, and the last run has what the client has
counted, plus the pre-roll. `FinalsAreRight` says that of the session that listens one final
transcript is on its way at most, as a finish or as its answer, and `SessionsExist` that a
new session finds nothing of its own number. A channel is known by what a step does to it:
sending (`SendStart`, `SendAudio`, `SendEnd`), being taken from (`HandlerTakes`), and losing
its stream at the other end (`HandlerGivesUp`), which is what `gap` records.

Only model-checked: everything under fairness (the liveness properties of all modules),
which is out of the prover's reach. Every invariant and every action property that a
passing run checks is also a theorem.

## 6. Findings

Five statements of documents and comments do not hold as written. Each has a run
that ends in a counterexample.

- `stale_action`: "Stale session results cannot act" (README.md:36). `_deliver`
  tests `cancelled` and then sends; a cancellation in between comes too late for
  that one request. `AtMostOneLateAction` shows that it is one at most.
- `network_writes`: "network writes do not hold that queue" (API.md:78). Results are
  indeed sent outside the gates, but the timing records go to the client through
  `TimingForwarder`, from inside the `with` blocks. A client that does not read
  can hold a gate until the watchdog restarts the service, and, if it is the record
  of `queue.wait`, before the watchdog runs.
- `own_voice`: "Audio is muted during normal reply playback to prevent feedback"
  (README.md:241). `listen()` asks `muted` when it processes a frame, and accepts
  frames up to 2 s old (`remote_client.py:202`), but the mute ends .5 s after a reply.
  In the run there are no chimes and no reply is cancelled or fails. A loop that lags in between, behind a send that blocks for example, gives frames of
  the reply to the wake word detector and to the utterance. `OwnVoiceIsMuted`
  shows that nothing else can.
- `clean_session`: "A new wake phrase starts a clean command session."
  (`audio.py:91`). The session is new, but its recording begins with all 3 s of sound
  that were kept, and only lost audio clears them. `Conversation.utterance` takes the
  words after the *first* wake phrase of the transcript (`control.py:333`). If a short
  command has been sent and the next wake phrase comes within these 3 s, the old
  command can be in the new transcript and be sent again. `SessionStartsClean` marks
  the words of a command that was sent where they are kept.

- `conditional_request`: "Conditional writes ("if ... then ...") are not supported"
  (README.md:203) and "Never run a conditional write without evaluating its condition."
  (`planner.py:25`). For a text with "if" or "unless" `select_tools` keeps the tools
  whose name contains "get" or "search" (`planner.py:41`), and a tool that searches for
  media and plays them, the `mediasearch` of `planner.py:31`, is one of those. A model may
  call it, `validate_plan` accepts the call and the handler executes it. "Read-only
  questions are restricted to query tools" (README.md:202) fails in the same way.

Facts that the models show and no document denies:

- A timer whose file could not be written still runs though the user was told that
  setting it failed (`SaveFails`, `timers.py:179`).
- An error the service sends for a superseded utterance cancels the newer session
  (`HandleError`, `remote_client.py:176`).
- After the creation of a model failed, the old one, closed already, is closed
  again by the next one (`inference.py:18`).
- A reply is cut after 900 characters, so a warning that a call failed can be cut off
  (`conversation.py:108`); `FailureIsTold` says so. The test `len(schemas) > 100` never
  applies, for `select_tools` returns ten at most.
- A Home Assistant client that stops reading keeps the handler of the Wyoming adapter
  and its backend connection for ever: `write_event` has no timeout in
  `wyoming.py:72,156,200,205,208`, and in the writing of the `Error` the 60 s of a speech
  (`:118`) are over. The sending of `asr_finish` (`:198`) has none either.
- `propose()` offers all tools if the shortlist is empty (`groq_fallback.py:64`), but
  the validation then accepts none of them. The mutant `OutcomesUnlisted` is the
  code without that validation.
- If the service refuses audio and closes while `transcribe()` is sending, the
  caller may be told of the closed connection in place of the service's message:
  the sending thread's error has precedence (`inference_client.py:150`).

## 7. What is not modelled

In the modelled parts: texts, formats and wording; the feedback lines; the scores,
gains and votes that decide whether a frame is speech (inputs chosen freely);
`/health`, `/services` and authorization, which keep no state; the bytes of
audio. In `TimerService` the parsing of spoken durations (a fact of it without a
model: `amount()` accepts "fifty nineteen"). In the listener the choice of a
microphone and the capture callback, whose only effect is an overflow. In
`SpeechOutput`, `tts_enabled = false` and the wave of the chime. In `HomeAgent` the
prompts, the scores of the tools and the configuration flow. In `Catalog` spelling,
synonyms, name patterns, room mappings, item defaults, and the adapters to the two
houses, each of which is one REST request. In `LocalMode` the text mode of
`__main__.py`, a straight line, and `remote_session.AudioSession`, which only tests
use. In `WyomingAdapter` the description of the service and `main()`. Timing records,
except where they hold a gate (`InferenceServer`).

Whole parts, out of the prover's and TLC's reach or without state of their own:
`input_audio.py` (floating-point), the models themselves, `instance.py` (one lock of
the operating system), `clock_queries.py`, `weather.py`, `speech.py` (pure text),
`logview.py`, the deployment tools and scripts.

## 8. Plan

Done so far:

1. `FairGate`, `FifoLock`, `FairGateProofs`.
2. `ClientBrain`, `ClientBrainProofs`.
3. `TimerService`, `TimerServiceProofs`.
4. `InferenceServer`, `InferenceServerProofs`.
5. `AsrStream`, `AsrStreamProofs`.
6. `SpeechOutput`, `SpeechOutputProofs`.
7. `HomeAgent` on `PlannedRequest`; `RemotePlanner` with `Catalog`.
8. `WyomingAdapter`, `WyomingAdapterProofs`, `LocalMode` with `WakeWord`, `StandaloneClient`.
9. `MCPrograms`, which puts the programs of 7 and 8 together, and `ProgramsProofs`.

Left:

10. Abstract specifications: a request of the brain ("heard, planned, sent in
    order, answered or cancelled") and a timer ("set, due, rung, dismissed"), with
    `ClientBrain` and `TimerService` shown to implement them.
11. `duration_seconds` as an operator, against a reference definition.
