---------------------------- MODULE ClientBrain ----------------------------
(***************************************************************************)
(* ClientBrain (src/jarvis/client_brain.py): the wake sessions of the      *)
(* Windows client.  The client's main loop starts, cancels and ticks       *)
(* sessions and feeds them transcripts; two pool workers plan a request,   *)
(* deliver its actions and speak the reply.  The threads meet only in the  *)
(* futures of a session and in its cancelled event.                        *)
(*                                                                         *)
(* Each call of the main loop is one action: no other thread writes what   *)
(* it reads, except for a future becoming done.  A delivery is split where *)
(* the main loop can come between: the test of cancelled, the request, the *)
(* response.  A text is known by whether anything is left after the wake   *)
(* phrase, a plan by its number of actions, time by expired.               *)
(***************************************************************************)
EXTENDS Integers, Sequences, FiniteSets

CONSTANTS Worker,          \* the threads of the pool (two in the code)
          MaxSessions,     \* bound: sessions started in a behaviour
          MaxRevisions,    \* bound: final utterances of a session
          MaxActions       \* bound: actions of a plan

ASSUME BrainAssumption == /\ IsFiniteSet(Worker) /\ Worker # {}
                          /\ MaxSessions \in Nat \ {0}
                          /\ MaxRevisions \in Nat \ {0}
                          /\ MaxActions \in Nat \ {0}

VARIABLES mode,            \* which main loop owns the brain: "listener", "text"
          current,         \* ClientBrain.current: the latest session, 0 for None
          session,         \* session[s]: the fields of Session number s
          jobs,            \* the work queue of the pool
          running,         \* running[w]: what worker w executes
          phase,           \* "open", then "closing" in close(), then "closed"
          issued,          \* history: the requests session s sent, in order
          rejected         \* history: a request of session s failed

vars == <<mode, current, session, jobs, running, phase, issued, rejected>>

SessionId == 1..MaxSessions

\* A field of a session that holds a future: n counts the actions of a plan
\* that is done, or the outcomes of a delivery that is done.
Future == [at : {"none", "submitted", "done", "failed"}, n : 0..MaxActions]
None == [at |-> "none", n |-> 0]
Submitted == [at |-> "submitted", n |-> 0]
Failed == [at |-> "failed", n |-> 0]
Done(n) == [at |-> "done", n |-> n]

\* A fresh Session.  pending: some text is left to plan.
NewSession(verified, timerOnly) ==
  [verified |-> verified, timerOnly |-> timerOnly, listening |-> TRUE,
   cancelled |-> FALSE, pending |-> FALSE, revision |-> 0, planned |-> 0,
   expired |-> FALSE, plan |-> None, delivery |-> None, speech |-> None]

\* What a worker executes: a job and, in a delivery, the loop's position.
Idle == [kind |-> "idle", s |-> 0, rev |-> 0, n |-> 0, at |-> "idle", i |-> 0]
Job(kind, s, rev, n) == [kind |-> kind, s |-> s, rev |-> rev, n |-> n, at |-> "test", i |-> 1]

Init == /\ mode \in {"listener", "text"}
        /\ current = 0
        /\ session = [s \in SessionId |-> [NewSession(FALSE, FALSE) EXCEPT !.listening = FALSE]]
        /\ jobs = <<>>
        /\ running = [w \in Worker |-> Idle]
        /\ phase = "open"
        /\ issued = [s \in SessionId |-> <<>>]
        /\ rejected = [s \in SessionId |-> FALSE]

-----------------------------------------------------------------------------
(* The main loop.                                                          *)

Open == phase = "open" /\ current # 0

Listening == /\ current # 0
             /\ session[current].listening
             /\ ~session[current].cancelled

Cancelled(st) == [st EXCEPT !.cancelled = TRUE, !.listening = FALSE]

\* cancel(): the current session, if there is one, is told to stop.
CancelCurrent == IF current = 0 THEN session
                 ELSE [session EXCEPT ![current] = Cancelled(@)]

\* start(): a wake word, or speech while the timer rings, opens a session.
Start(tentative, timerOnly) ==
  /\ phase = "open"
  /\ current < MaxSessions
  /\ current' = current + 1
  /\ session' = [CancelCurrent EXCEPT ![current + 1] = NewSession(~tentative, timerOnly)]
  /\ UNCHANGED <<jobs, running, phase, issued, rejected>>

\* cancel() from the listener: an error of the server, lost audio, an
\* utterance without end, a lost connection.
Cancel == /\ Open
          /\ session' = CancelCurrent
          /\ UNCHANGED <<current, jobs, running, phase, issued, rejected>>

\* _plan(): nothing to do without text, or while a plan is being made.
WithPlan(st) == IF st.pending /\ st.plan = None
                THEN [st EXCEPT !.planned = st.revision, !.plan = Submitted]
                ELSE st

\* The job that _plan() submits for a session that goes from st to WithPlan(st).
PlanJobs(s, st) == IF WithPlan(st) = st THEN jobs
                   ELSE Append(jobs, Job("plan", s, st.revision, 0))

\* Bug: the doubtful wake word is not checked on a final transcript.
TranscriptOfAnyone(s, final, wake, rest) ==
  /\ phase = "open" /\ Listening /\ s = current
  /\ LET revised == [session[s] EXCEPT !.verified = @ \/ wake, !.expired = FALSE,
                                       !.pending = rest \/ (~wake /\ @), !.revision = @ + 1]
     IN /\ final /\ (wake \/ rest)
        /\ session[s].revision < MaxRevisions
        /\ session' = [session EXCEPT ![s] = WithPlan(revised)]
        /\ jobs' = PlanJobs(s, revised)
  /\ UNCHANGED <<current, running, phase, issued, rejected>>

\* transcript() for an event of session s.  wake: the text holds the wake
\* phrase; rest: the text is not blank, after the wake phrase if there is one.
Transcript(s, final, wake, rest) ==
  /\ phase = "open" /\ Listening /\ s = current
  /\ LET heard == [session[s] EXCEPT !.verified = @ \/ wake]
         revised == [heard EXCEPT !.pending = rest \/ (~wake /\ @), !.expired = FALSE,
                                  !.revision = @ + 1]
     IN \/ /\ ~final \/ (heard.verified /\ ~wake /\ ~rest)
           /\ session' = [session EXCEPT ![s] = heard]
           /\ UNCHANGED jobs
        \/ /\ final /\ ~heard.verified
           /\ session' = [session EXCEPT ![s] = Cancelled(heard)]
           /\ UNCHANGED jobs
        \/ /\ final /\ heard.verified /\ (wake \/ rest)
           /\ heard.revision < MaxRevisions
           /\ session' = [session EXCEPT ![s] = WithPlan(revised)]
           /\ jobs' = PlanJobs(s, revised)
  /\ UNCHANGED <<current, running, phase, issued, rejected>>

\* Bug: only a session that heard an utterance expires.
ExpiryAfterUtterance(st, inputActive) ==
  IF st.listening /\ ~inputActive /\ st.plan = None /\ st.expired /\ st.revision > 0
  THEN Cancelled(st) ELSE st

\* The end of tick(): a session that heard nothing for continuation_seconds.
Expiry(st, inputActive) ==
  IF st.listening /\ ~st.cancelled /\ ~inputActive /\ st.plan = None /\ st.expired
  THEN Cancelled(st) ELSE st

\* Bug: the result is delivered whatever was said meanwhile.
CollectAnyPlan(inputActive) ==
  LET s == current
      st == [session[s] EXCEPT !.plan = None]
  IN /\ session[s].plan.at = "done" /\ session[s].plan.n > 0
     /\ session' = [session EXCEPT ![s] = [st EXCEPT !.listening = FALSE, !.delivery = Submitted]]
     /\ jobs' = Append(jobs, Job("deliver", s, st.planned, session[s].plan.n))

\* Bug: the session goes on listening while its actions are delivered.
CollectPlanListening(inputActive) ==
  LET s == current
      st == [session[s] EXCEPT !.plan = None]
  IN /\ session[s].plan.at = "done" /\ st.planned = st.revision /\ session[s].plan.n > 0
     /\ session' = [session EXCEPT ![s] = [st EXCEPT !.delivery = Submitted]]
     /\ jobs' = Append(jobs, Job("deliver", s, st.planned, session[s].plan.n))

\* Bug: future.result() raises before the plan is taken from the session.
CollectPlanKeepingFailed(inputActive) ==
  LET s == current
      st == [session[s] EXCEPT !.plan = None]
  IN /\ session[s].plan.at \in {"done", "failed"}
     /\ session' = [session EXCEPT ![s] =
                      IF session[s].plan.at = "failed" THEN Cancelled(session[s])
                      ELSE Expiry(st, inputActive)]
     /\ UNCHANGED jobs

\* tick() finds the plan done: it is delivered if no utterance came after it,
\* made again if one did.
CollectPlan(inputActive) ==
  LET s == current
      st == [session[s] EXCEPT !.plan = None]
  IN /\ session[s].plan.at \in {"done", "failed"}
     /\ \/ /\ session[s].plan.at = "failed"
           /\ session' = [session EXCEPT ![s] = Cancelled(st)]
           /\ UNCHANGED jobs
        \/ /\ session[s].plan.at = "done" /\ st.planned # st.revision
           /\ session' = [session EXCEPT ![s] = Expiry(WithPlan(st), inputActive)]
           /\ jobs' = PlanJobs(s, st)
        \/ /\ session[s].plan.at = "done" /\ st.planned = st.revision /\ session[s].plan.n > 0
           /\ session' = [session EXCEPT ![s] = [st EXCEPT !.listening = FALSE,
                                                           !.delivery = Submitted]]
           /\ jobs' = Append(jobs, Job("deliver", s, st.planned, session[s].plan.n))
        \/ /\ session[s].plan.at = "done" /\ st.planned = st.revision /\ session[s].plan.n = 0
           /\ session' = [session EXCEPT ![s] = Expiry(st, inputActive)]
           /\ UNCHANGED jobs

\* tick() finds the delivery done: every outcome has a reply to speak.
CollectDelivery ==
  LET s == current
      st == [session[s] EXCEPT !.delivery = None]
  IN /\ session[s].delivery.at = "done"
     /\ IF session[s].delivery.n > 0
        THEN /\ session' = [session EXCEPT ![s] = [st EXCEPT !.speech = Submitted]]
             /\ jobs' = Append(jobs, Job("speak", s, st.planned, 0))
        ELSE /\ session' = [session EXCEPT ![s] = st]
             /\ UNCHANGED jobs

\* tick() finds the speech done; a failure of it cancels the session.
CollectSpeech ==
  LET st == [session[current] EXCEPT !.speech = None]
  IN /\ session[current].speech.at \in {"done", "failed"}
     /\ session' = [session EXCEPT ![current] =
                      IF session[current].speech.at = "failed" THEN Cancelled(st) ELSE st]
     /\ UNCHANGED jobs

\* tick() finds no future done.
CollectNothing(inputActive) ==
  /\ session[current].plan.at \in {"none", "submitted"}
  /\ session[current].delivery.at \in {"none", "submitted"}
  /\ session[current].speech.at \in {"none", "submitted"}
  /\ session' = [session EXCEPT ![current] = Expiry(@, inputActive)]
  /\ UNCHANGED jobs

\* tick(): OneFutureAtATime says that at most one future is there to collect.
Tick(inputActive) ==
  /\ Open /\ ~session[current].cancelled
  /\ CollectPlan(inputActive) \/ CollectDelivery \/ CollectSpeech \/ CollectNothing(inputActive)
  /\ UNCHANGED <<current, running, phase, issued, rejected>>

\* continuation_seconds go by since the deadline of the session was set.
DeadlinePasses == /\ Open /\ Listening
                  /\ ~session[current].expired
                  /\ session' = [session EXCEPT ![current].expired = TRUE]
                  /\ UNCHANGED <<current, jobs, running, phase, issued, rejected>>

\* close(): queued work is dropped, and the pool waited for.
Close == /\ phase = "open"
         /\ session' = CancelCurrent
         /\ jobs' = <<>>
         /\ phase' = "closing"
         /\ UNCHANGED <<current, running, issued, rejected>>

Closed == /\ phase = "closing"
          /\ \A w \in Worker : running[w] = Idle
          /\ phase' = "closed"
          /\ UNCHANGED <<current, session, jobs, running, issued, rejected>>

-----------------------------------------------------------------------------
(* The pool.                                                               *)

\* A free worker takes the oldest job.
Take(w) == /\ running[w] = Idle
           /\ jobs # <<>>
           /\ running' = [running EXCEPT ![w] = Head(jobs)]
           /\ jobs' = Tail(jobs)
           /\ UNCHANGED <<current, session, phase, issued, rejected>>

\* The job of worker w ends and its future takes the value f.
Finish(w, field, f) == /\ running' = [running EXCEPT ![w] = Idle]
                       /\ session' = [session EXCEPT ![running[w].s][field] = f]

\* _run_plan(): any number of actions, or an exception of the planner.  A
\* session opened while the timer rings asks no model: the sentence is a stop or
\* cancel of the timer, or nothing.
RunPlan(w) ==
  /\ running[w].kind = "plan"
  /\ \/ \E n \in 0..(IF session[running[w].s].timerOnly THEN 1 ELSE MaxActions) :
          Finish(w, "plan", Done(n))
     \/ ~session[running[w].s].timerOnly /\ Finish(w, "plan", Failed)
  /\ UNCHANGED <<current, jobs, phase, issued, rejected>>

\* Bug: the event is looked at once, before the first action.
TestCancelledOnce(w) ==
  LET r == running[w]
  IN /\ r.kind = "deliver" /\ r.at = "test"
     /\ IF r.i > r.n \/ (r.i = 1 /\ session[r.s].cancelled)
        THEN Finish(w, "delivery", Done(r.i - 1))
        ELSE running' = [running EXCEPT ![w].at = "send"] /\ UNCHANGED session
     /\ UNCHANGED <<current, jobs, phase, issued, rejected>>

\* _deliver(): before each action the cancelled event is looked at.
TestCancelled(w) ==
  LET r == running[w]
  IN /\ r.kind = "deliver" /\ r.at = "test"
     /\ IF r.i > r.n \/ session[r.s].cancelled
        THEN Finish(w, "delivery", Done(r.i - 1))
        ELSE running' = [running EXCEPT ![w].at = "send"] /\ UNCHANGED session
     /\ UNCHANGED <<current, jobs, phase, issued, rejected>>

\* The request leaves the client; the history notes whether it was cancelled.
Send(w) ==
  LET r == running[w]
  IN /\ r.kind = "deliver" /\ r.at = "send"
     /\ issued' = [issued EXCEPT ![r.s] = Append(@, [rev |-> r.rev, i |-> r.i,
                                                     stale |-> session[r.s].cancelled])]
     /\ running' = [running EXCEPT ![w].at = "reply"]
     /\ UNCHANGED <<current, session, jobs, phase, rejected>>

\* The request returns, and the loop goes on.
Accepted(w) ==
  /\ running[w].kind = "deliver" /\ running[w].at = "reply"
  /\ running' = [running EXCEPT ![w].at = "test", ![w].i = @ + 1]
  /\ UNCHANGED <<current, session, jobs, phase, issued, rejected>>

\* Bug: a failed request is tried again.
RejectedAndRetried(w) ==
  LET r == running[w]
  IN /\ r.kind = "deliver" /\ r.at = "reply" /\ ~rejected[r.s]
     /\ rejected' = [rejected EXCEPT ![r.s] = TRUE]
     /\ running' = [running EXCEPT ![w].at = "test"]
     /\ UNCHANGED <<current, session, jobs, phase, issued>>

\* Bug: the loop goes on after a failure.
RejectedGoesOn(w) ==
  LET r == running[w]
  IN /\ r.kind = "deliver" /\ r.at = "reply"
     /\ rejected' = [rejected EXCEPT ![r.s] = TRUE]
     /\ running' = [running EXCEPT ![w].at = "test", ![w].i = @ + 1]
     /\ UNCHANGED <<current, session, jobs, phase, issued>>

\* Bug: the failure has no outcome.
RejectedUnreported(w) ==
  LET r == running[w]
  IN /\ r.kind = "deliver" /\ r.at = "reply"
     /\ rejected' = [rejected EXCEPT ![r.s] = TRUE]
     /\ Finish(w, "delivery", Done(r.i - 1))
     /\ UNCHANGED <<current, jobs, phase, issued>>

\* The request fails, whatever became of it: no retry, and no further action.
Rejected(w) ==
  LET r == running[w]
  IN /\ r.kind = "deliver" /\ r.at = "reply"
     /\ rejected' = [rejected EXCEPT ![r.s] = TRUE]
     /\ Finish(w, "delivery", Done(r.i))
     /\ UNCHANGED <<current, jobs, phase, issued>>

\* Bug: the speaker waits for the end of a stream that cancel() aborted.
SpeakDeafToCancel(w) ==
  /\ running[w].kind = "speak"
  /\ ~session[running[w].s].cancelled
  /\ \E f \in {Done(0), Failed} : Finish(w, "speech", f)
  /\ UNCHANGED <<current, jobs, phase, issued, rejected>>

\* SpeechOutput.speak() ends or raises.
Speak(w) == /\ running[w].kind = "speak"
            /\ \E f \in {Done(0), Failed} : Finish(w, "speech", f)
            /\ UNCHANGED <<current, jobs, phase, issued, rejected>>

Work(w) == \/ Take(w) \/ RunPlan(w) \/ TestCancelled(w) \/ Send(w)
           \/ Accepted(w) \/ Rejected(w) \/ Speak(w)

\* listen() (src/jarvis/remote_client.py) calls what it likes, as it likes.
Listener == \/ \E tentative \in BOOLEAN : Start(tentative, FALSE)
            \/ Start(FALSE, TRUE)
            \/ \E final, wake, rest \in BOOLEAN, s \in SessionId : Transcript(s, final, wake, rest)
            \/ Cancel \/ Close
            \/ \E inputActive \in BOOLEAN : Tick(inputActive)

\* text_request() goes round its loop while one of these holds.
TextWaits == \/ Listening
             \/ session[current].plan # None
             \/ session[current].delivery # None
             \/ session[current].speech # None

\* text_request() (src/jarvis/remote_client.py): one session, one final
\* transcript, and ticks until nothing is left to wait for.
TextRequest == \/ mode = "text" /\ current = 0 /\ Start(FALSE, FALSE) /\ UNCHANGED mode
               \/ /\ mode = "text" /\ current = 1
                  /\ \E wake, rest \in BOOLEAN : Transcript(1, TRUE, wake, rest)
                  /\ mode' = "text_loop"
               \/ mode = "text_loop" /\ TextWaits /\ Tick(FALSE) /\ UNCHANGED mode
               \/ mode = "text_loop" /\ ~TextWaits /\ Close /\ UNCHANGED mode

Next == \/ mode = "listener" /\ Listener /\ UNCHANGED mode
        \/ TextRequest
        \/ (DeadlinePasses \/ Closed \/ \E w \in Worker : Work(w)) /\ UNCHANGED mode

Spec == Init /\ [][Next]_vars

(***************************************************************************)
(* The main loop goes round every 200 ms and no utterance lasts for ever   *)
(* (AsrStream, InputEnds), so a tick with no input comes.  Requests,       *)
(* planning and speech have timeouts, so a worker that can go on does.     *)
(* Nobody has to speak, and close() need not be called.                    *)
(***************************************************************************)
FairSpec == /\ Spec
            /\ WF_vars(mode = "listener" /\ Tick(FALSE) /\ UNCHANGED mode)
            /\ WF_vars(TextRequest)
            /\ WF_vars(DeadlinePasses /\ UNCHANGED mode) /\ WF_vars(Closed /\ UNCHANGED mode)
            /\ \A w \in Worker : WF_vars(Work(w) /\ UNCHANGED mode)

-----------------------------------------------------------------------------
Outstanding(s) == {f \in {"plan", "delivery", "speech"} : session[s][f] # None}

\* Type correctness of the brain's state.
TypeOK ==
  /\ mode \in {"listener", "text", "text_loop"}
  /\ current \in 0..MaxSessions
  /\ session \in [SessionId ->
       [verified : BOOLEAN, timerOnly : BOOLEAN, listening : BOOLEAN, cancelled : BOOLEAN,
        pending : BOOLEAN, revision : 0..MaxRevisions, planned : 0..MaxRevisions,
        expired : BOOLEAN, plan : Future, delivery : Future, speech : Future]]
  /\ \A w \in Worker : running[w].kind \in {"idle", "plan", "deliver", "speak"}
  /\ phase \in {"open", "closing", "closed"}

\* A session has one thing under way: it plans, or acts, or speaks.  tick()
\* relies on it when it handles the three futures one after the other.
OneFutureAtATime == \A s \in SessionId : Cardinality(Outstanding(s)) <= 1

\* The sessions as tick() expects them.
WellFormed == TypeOK /\ OneFutureAtATime

\* What is sent to the house is the plan of the last utterance: the sentence
\* was not continued or corrected after the text that was planned.
ActsOnLatestUtterance ==
  \A s \in SessionId : \A k \in 1..Len(issued[s]) : issued[s][k].rev = session[s].revision

\* The actions of a request are sent in order, none twice and none skipped, over
\* all plans, sessions and workers; and a failed one is the last of its session:
\* it is not repeated, and the actions after it are dropped.
SentOnceInOrder ==
  /\ [](\A s \in SessionId : \A k \in 1..Len(issued[s]) : issued[s][k].i = k)
  /\ [][\A s \in SessionId : rejected[s] => issued'[s] = issued[s]]_vars

\* A session whose wake word was doubtful sends nothing before the wake phrase
\* was found in its transcript.
OnlyVerifiedActs == \A s \in SessionId : issued[s] # <<>> => session[s].verified

\* After a session is cancelled or superseded, at most the one request that
\* was already past the test of the cancelled event is still sent.
AtMostOneLateAction ==
  \A s \in SessionId : Cardinality({k \in 1..Len(issued[s]) : issued[s][k].stale}) <= 1

\* README: "Stale session results cannot act".  The test of the cancelled event
\* and the request are two steps, and the main loop can cancel between them.
StaleNeverActs == \A s \in SessionId : \A k \in 1..Len(issued[s]) : ~issued[s][k].stale

\* A request that is delivered is answered, whether its actions succeeded or one
\* failed, unless the session was cancelled meanwhile.
EveryActionIsAnswered ==
  \A s \in SessionId :
    session[s].delivery # None ~> session[s].speech # None \/ session[s].cancelled

\* Whatever planner, house and speaker answer: a session does not listen for ever;
\* close() ends, for no worker is left waiting, in whatever state it is called; and
\* so does the command line request.
EverythingEnds == /\ \A s \in SessionId : session[s].listening ~> ~session[s].listening
                  /\ phase = "closing" ~> phase = "closed"
                  /\ mode = "text" ~> phase = "closed"

=============================================================================
