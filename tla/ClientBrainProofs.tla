------------------------- MODULE ClientBrainProofs -------------------------
(***************************************************************************)
(* Theorems about ClientBrain, for every number of workers, sessions,      *)
(* utterances and actions.                                                 *)
(***************************************************************************)
EXTENDS ClientBrain, FiniteSetTheorems, TLAPS

SessionType ==
  [verified : BOOLEAN, timerOnly : BOOLEAN, listening : BOOLEAN, cancelled : BOOLEAN,
   pending : BOOLEAN, revision : 0..MaxRevisions, planned : 0..MaxRevisions,
   expired : BOOLEAN, plan : Future, delivery : Future, speech : Future]

JobType == [kind : {"plan", "deliver", "speak"}, s : SessionId, rev : 0..MaxRevisions,
            n : 0..MaxActions, at : {"test", "send", "reply"}, i : 1..(MaxActions + 1)]

Request == [rev : 0..MaxRevisions, i : 1..(MaxActions + 1), stale : BOOLEAN]

Types == /\ mode \in {"listener", "text", "text_loop"}
         /\ phase \in {"open", "closing", "closed"}
         /\ current \in 0..MaxSessions
         /\ session \in [SessionId -> SessionType]
         /\ jobs \in Seq(JobType)
         /\ running \in [Worker -> JobType \cup {Idle}]
         /\ issued \in [SessionId -> Seq(Request)]
         /\ rejected \in [SessionId -> BOOLEAN]

(***************************************************************************)
(* A session st with the requests log it sent, rej if one of them failed.  *)
(* Its futures exclude each other, it plans before it sends anything, and  *)
(* listens no longer from then on: what it sent is for its last utterance. *)
(***************************************************************************)
Quiet(st) == st.plan = None /\ st.delivery = None /\ st.speech = None

SessionIs(st, log, rej) ==
  /\ st.plan # None => /\ st.delivery = None /\ st.speech = None
                       /\ st.verified /\ log = <<>>
                       /\ st.listening \/ st.cancelled
  /\ st.delivery # None => st.speech = None /\ ~st.listening /\ st.verified
  /\ st.speech # None => ~st.listening
  /\ log # <<>> => ~st.listening /\ st.verified
  /\ \A k \in 1..Len(log) : /\ log[k].rev = st.revision
                            /\ log[k].i = k
                            /\ log[k].stale => st.cancelled /\ k = Len(log)
  /\ rej => log # <<>> /\ st.delivery # Submitted

(***************************************************************************)
(* The work x on a session st: it is what a future of st waits for.  A     *)
(* delivery is of the last utterance and knows what was sent; past the     *)
(* test of cancelled it has sent nothing late.                             *)
(***************************************************************************)
Owns(x, st) == \/ x.kind = "plan" /\ st.plan = Submitted
               \/ x.kind = "deliver" /\ st.delivery = Submitted
               \/ x.kind = "speak" /\ st.speech = Submitted

WorkIs(x, st, log) ==
  /\ Owns(x, st)
  /\ x.kind = "deliver" =>
       /\ x.rev = st.revision
       /\ x.i <= IF x.at = "test" THEN x.n + 1 ELSE x.n
       /\ Len(log) = IF x.at = "reply" THEN x.i ELSE x.i - 1
       /\ x.at = "send" => \A k \in 1..Len(log) : ~log[k].stale

SessionsAreRight == \A s \in SessionId : SessionIs(session[s], issued[s], rejected[s])

Unstarted == \A s \in SessionId : s > current => Quiet(session[s]) /\ issued[s] = <<>>

QueueIsRight == \A j \in 1..Len(jobs) :
                  /\ jobs[j].at = "test" /\ jobs[j].i = 1
                  /\ WorkIs(jobs[j], session[jobs[j].s], issued[jobs[j].s])

WorkersAreRight == \A w \in Worker :
                     running[w] # Idle => WorkIs(running[w], session[running[w].s],
                                                 issued[running[w].s])

\* No session has two pieces of work.
WorkIsSingle ==
  /\ \A j, k \in 1..Len(jobs) : jobs[j].s = jobs[k].s => j = k
  /\ \A w \in Worker : running[w] # Idle => \A j \in 1..Len(jobs) : jobs[j].s # running[w].s
  /\ \A v, w \in Worker : running[v] # Idle /\ running[w] # Idle /\ running[v].s = running[w].s
                            => v = w

IInv == /\ Types /\ SessionsAreRight /\ Unstarted /\ QueueIsRight /\ WorkersAreRight
        /\ WorkIsSingle

(***************************************************************************)
(* What the main loop may do to a session: work that is under way is still *)
(* awaited, and the utterance of a delivery is not revised.                *)
(***************************************************************************)
Keeps(old, st) == /\ old.plan = Submitted => st.plan = Submitted
                  /\ old.delivery = Submitted => /\ st.delivery = Submitted
                                                 /\ st.revision = old.revision
                  /\ old.speech = Submitted => st.speech = Submitted

Workless(st) == /\ st.plan # Submitted
                /\ st.delivery # Submitted
                /\ st.speech # Submitted

-----------------------------------------------------------------------------
(* Futures and queues.                                                     *)

LEMMA FuturesDiffer == None # Submitted /\ \A n : Submitted # Done(n) /\ None # Done(n)
  BY DEF None, Submitted, Done

LEMMA FutureTypes == /\ None \in Future /\ Submitted \in Future /\ Failed \in Future
                     /\ \A n \in 0..MaxActions : Done(n) \in Future
                     /\ Failed # Submitted /\ Failed # None
  BY BrainAssumption DEF Future, None, Submitted, Failed, Done

LEMMA IdleIsNoJob == Idle \notin JobType
  BY DEF Idle, JobType

LEMMA AppendElements ==
  ASSUME NEW S, NEW q \in Seq(S), NEW e \in S
  PROVE  /\ Append(q, e) \in Seq(S)
         /\ Len(Append(q, e)) = Len(q) + 1 /\ Len(q) \in Nat
         /\ \A i \in 1..Len(q) : Append(q, e)[i] = q[i]
         /\ Append(q, e)[Len(q) + 1] = e
  OBVIOUS

LEMMA TailElements ==
  ASSUME NEW S, NEW q \in Seq(S), q # <<>>
  PROVE  /\ Head(q) = q[1] /\ 1 \in 1..Len(q) /\ Head(q) \in S
         /\ Tail(q) \in Seq(S)
         /\ \A i \in 1..Len(Tail(q)) : i + 1 \in 1..Len(q) /\ Tail(q)[i] = q[i + 1]
  OBVIOUS

-----------------------------------------------------------------------------
(* The two kinds of step.                                                  *)

\* A step of the main loop: sessions change, and a new piece of work for one
\* that had none may join the queue.
LEMMA MainLoopKeepsIInv ==
  ASSUME IInv, UNCHANGED <<running, issued, rejected>>,
         mode' \in {"listener", "text", "text_loop"}, phase' \in {"open", "closing", "closed"},
         current' \in 0..MaxSessions, session' \in [SessionId -> SessionType],
         \A t \in SessionId : /\ SessionIs(session'[t], issued[t], rejected[t])
                              /\ Keeps(session[t], session'[t])
                              /\ t > current' => t > current /\ session'[t] = session[t],
         \/ jobs' = jobs
         \/ jobs' = <<>>
         \/ \E x \in JobType : /\ jobs' = Append(jobs, x) /\ x.at = "test" /\ x.i = 1
                               /\ Workless(session[x.s])
                               /\ WorkIs(x, session'[x.s], issued[x.s])
  PROVE  IInv'
<1>1. /\ jobs \in Seq(JobType) /\ running \in [Worker -> JobType \cup {Idle}]
      /\ \A x \in JobType : x.s \in SessionId
  BY DEF IInv, Types, JobType
<1>2. \A x \in JobType : \A log : WorkIs(x, session[x.s], log) => WorkIs(x, session'[x.s], log)
  <2>1. SUFFICES ASSUME NEW x \in JobType, NEW log, WorkIs(x, session[x.s], log)
                 PROVE  WorkIs(x, session'[x.s], log)
    OBVIOUS
  <2>2. x.s \in SessionId
    BY <1>1
  <2>4. Keeps(session[x.s], session'[x.s])
    BY <2>2, Zenon
  <2>3. QED
    BY <2>1, <2>4 DEF Keeps, WorkIs, Owns
<1>3. \A x \in JobType : \A log : WorkIs(x, session[x.s], log) => ~Workless(session[x.s])
  BY DEF WorkIs, Owns, Workless
<1>4. \A w \in Worker : running[w] # Idle => running[w] \in JobType
  BY <1>1
<1>5. WorkersAreRight'
  BY <1>2, <1>4 DEF WorkersAreRight, IInv
<1>6. SessionsAreRight' /\ Unstarted'
  <2>1. \A t \in SessionId : SessionIs(session'[t], issued'[t], rejected'[t])
    BY Zenon
  <2>2. \A t \in SessionId : t > current' => Quiet(session'[t]) /\ issued'[t] = <<>>
    BY Zenon DEF IInv, Unstarted
  <2>3. QED
    BY <2>1, <2>2 DEF SessionsAreRight, Unstarted
<1>7. CASE jobs' = jobs
  <2>1. QueueIsRight'
    <3>1. \A j \in 1..Len(jobs) : jobs[j] \in JobType
      BY <1>1
    <3>2. QED
      BY <1>2, <1>7, <3>1 DEF QueueIsRight, IInv
  <2>2. Types' /\ WorkIsSingle'
    BY <1>7 DEF Types, WorkIsSingle, IInv
  <2>3. QED
    BY <1>5, <1>6, <2>1, <2>2 DEF IInv
<1>8. CASE jobs' = <<>>
  <2>1. Len(jobs') = 0 /\ jobs' \in Seq(JobType)
    BY <1>8
  <2>2. Types'
    BY <2>1 DEF Types, IInv
  <2>3. QueueIsRight' /\ WorkIsSingle'
    BY <2>1 DEF QueueIsRight, WorkIsSingle, IInv
  <2>4. QED
    BY <1>5, <1>6, <2>2, <2>3 DEF IInv
<1>9. CASE \E x \in JobType : /\ jobs' = Append(jobs, x) /\ x.at = "test" /\ x.i = 1
                              /\ Workless(session[x.s])
                              /\ WorkIs(x, session'[x.s], issued[x.s])
  <2>1. PICK x \in JobType : /\ jobs' = Append(jobs, x) /\ x.at = "test" /\ x.i = 1
                             /\ Workless(session[x.s])
                             /\ WorkIs(x, session'[x.s], issued[x.s])
    BY <1>9
  <2>2. /\ jobs' \in Seq(JobType) /\ Len(jobs') = Len(jobs) + 1 /\ Len(jobs) \in Nat
        /\ \A i \in 1..Len(jobs) : jobs'[i] = jobs[i] /\ jobs[i] \in JobType
        /\ jobs'[Len(jobs) + 1] = x
    BY <1>1, <2>1, AppendElements
  <2>3. \A i \in 1..Len(jobs') : i \in 1..Len(jobs) \/ i = Len(jobs) + 1
    BY <2>2
  <2>4. Types'
    BY <2>2 DEF Types, IInv
  <2>5. QueueIsRight'
    <3>1. ASSUME NEW j \in 1..Len(jobs')
          PROVE  /\ jobs'[j].at = "test" /\ jobs'[j].i = 1
                 /\ WorkIs(jobs'[j], session'[jobs'[j].s], issued[jobs'[j].s])
      <4>1. CASE j \in 1..Len(jobs)
        BY <1>2, <2>2, <4>1 DEF IInv, QueueIsRight
      <4>2. CASE j = Len(jobs) + 1
        BY <2>1, <2>2, <4>2
      <4>3. QED
        BY <2>3, <4>1, <4>2
    <3>2. QED
      BY <3>1 DEF QueueIsRight
  <2>6. \A j \in 1..Len(jobs) : jobs[j].s # x.s
    <3>1. \A j \in 1..Len(jobs) : ~Workless(session[jobs[j].s])
      BY <1>3, <2>2 DEF IInv, QueueIsRight
    <3>2. QED
      BY <2>1, <3>1
  <2>7. \A w \in Worker : running[w] # Idle => running[w].s # x.s
    <3>1. \A w \in Worker : running[w] # Idle => ~Workless(session[running[w].s])
      BY <1>3, <1>4 DEF IInv, WorkersAreRight
    <3>2. QED
      BY <2>1, <3>1
  <2>8. WorkIsSingle'
    <3>1. ASSUME NEW j \in 1..Len(jobs'), NEW k \in 1..Len(jobs'), jobs'[j].s = jobs'[k].s
          PROVE  j = k
      <4>1. CASE j \in 1..Len(jobs) /\ k \in 1..Len(jobs)
        BY <2>2, <3>1, <4>1 DEF IInv, WorkIsSingle
      <4>2. CASE j = Len(jobs) + 1 /\ k \in 1..Len(jobs)
        BY <2>2, <2>6, <3>1, <4>2
      <4>3. CASE j \in 1..Len(jobs) /\ k = Len(jobs) + 1
        BY <2>2, <2>6, <3>1, <4>3
      <4>4. QED
        BY <2>3, <4>1, <4>2, <4>3
    <3>2. ASSUME NEW w \in Worker, running[w] # Idle, NEW j \in 1..Len(jobs')
          PROVE  jobs'[j].s # running[w].s
      <4>1. CASE j \in 1..Len(jobs)
        BY <2>2, <3>2, <4>1 DEF IInv, WorkIsSingle
      <4>2. CASE j = Len(jobs) + 1
        BY <2>2, <2>7, <3>2, <4>2
      <4>3. QED
        BY <2>3, <4>1, <4>2
    <3>3. QED
      BY <3>1, <3>2 DEF IInv, WorkIsSingle
  <2>9. QED
    BY <1>5, <1>6, <2>4, <2>5, <2>8 DEF IInv
<1>10. QED
  BY <1>7, <1>8, <1>9

\* A step of a worker in its job: the session of the job, its requests and the
\* worker's place change together, and no other piece of work is of that session.
WorkerMoves(w, s, y, st, log, rej) ==
  /\ running[w] # Idle /\ s = running[w].s
  /\ UNCHANGED <<mode, phase, current, jobs>>
  /\ y \in JobType \cup {Idle} /\ st \in SessionType /\ log \in Seq(Request)
  /\ rej \in BOOLEAN
  /\ running' = [running EXCEPT ![w] = y] /\ session' = [session EXCEPT ![s] = st]
  /\ issued' = [issued EXCEPT ![s] = log] /\ rejected' = [rejected EXCEPT ![s] = rej]
  /\ SessionIs(st, log, rej)
  /\ y # Idle => y.s = s /\ WorkIs(y, st, log)

LEMMA WorkerKeepsIInv ==
  ASSUME IInv, NEW w \in Worker, NEW s, NEW y, NEW st, NEW log, NEW rej,
         WorkerMoves(w, s, y, st, log, rej)
  PROVE  IInv'
<1> USE DEF WorkerMoves
<1>1. /\ running[w] \in JobType /\ s \in SessionId
      /\ jobs \in Seq(JobType) /\ running \in [Worker -> JobType \cup {Idle}]
      /\ session \in [SessionId -> SessionType] /\ issued \in [SessionId -> Seq(Request)]
      /\ rejected \in [SessionId -> BOOLEAN]
  BY DEF IInv, Types, JobType
<1>2. Types'
  BY <1>1 DEF IInv, Types
<1>3. \A t \in SessionId :
        /\ session'[t] = IF t = s THEN st ELSE session[t]
        /\ issued'[t] = IF t = s THEN log ELSE issued[t]
        /\ rejected'[t] = IF t = s THEN rej ELSE rejected[t]
  BY <1>1
<1>4. \A v \in Worker : running'[v] = IF v = w THEN y ELSE running[v]
  BY <1>1
<1>5. SessionsAreRight'
  BY <1>3 DEF IInv, SessionsAreRight
<1>6. Unstarted'
  <2>1. ~Quiet(session[s])
    BY <1>1, FuturesDiffer DEF IInv, WorkersAreRight, WorkIs, Owns, Quiet
  <2>2. ~(s > current)
    BY <1>1, <2>1 DEF IInv, Unstarted
  <2>3. QED
    BY <1>3, <2>2 DEF IInv, Unstarted
<1>7. \A j \in 1..Len(jobs) : jobs[j].s # s /\ jobs[j].s \in SessionId
  <2>1. \A x \in JobType : x.s \in SessionId
    BY DEF JobType
  <2>2. QED
    BY <1>1, <2>1 DEF IInv, WorkIsSingle
<1>8. QueueIsRight'
  BY <1>3, <1>7 DEF IInv, QueueIsRight
<1>9. WorkersAreRight'
  <2>1. SUFFICES ASSUME NEW v \in Worker, running'[v] # Idle
                 PROVE  WorkIs(running'[v], session'[running'[v].s], issued'[running'[v].s])
    BY DEF WorkersAreRight
  <2>2. CASE v = w
    BY <1>1, <1>3, <1>4, <2>1, <2>2
  <2>3. CASE v # w
    <3>1. running'[v] = running[v] /\ running[v] # Idle
      BY <1>4, <2>1, <2>3
    <3>2. running[v].s # s /\ running[v].s \in SessionId
      BY <1>1, <2>3, <3>1 DEF IInv, WorkIsSingle, JobType
    <3>3. QED
      BY <1>3, <3>1, <3>2 DEF IInv, WorkersAreRight
  <2>4. QED
    BY <2>2, <2>3
<1>10. WorkIsSingle'
  <2>1. \A v \in Worker : running'[v] # Idle => running[v] # Idle /\ running'[v].s = running[v].s
    BY <1>4
  <2>2. QED
    BY <2>1 DEF IInv, WorkIsSingle
<1>11. QED
  BY <1>2, <1>5, <1>6, <1>8, <1>9, <1>10 DEF IInv

-----------------------------------------------------------------------------
(* What the main loop makes of a session.                                  *)

LEMMA CancelledSession ==
  ASSUME NEW st \in SessionType
  PROVE  /\ Cancelled(st) \in SessionType
         /\ Cancelled(st).plan = st.plan /\ Cancelled(st).delivery = st.delivery
         /\ Cancelled(st).speech = st.speech /\ Cancelled(st).revision = st.revision
         /\ Cancelled(st).verified = st.verified
         /\ Cancelled(st).cancelled = TRUE /\ Cancelled(st).listening = FALSE
<1> DEFINE u == [st EXCEPT !.cancelled = TRUE]
           v == [u EXCEPT !.listening = FALSE]
<1>1. /\ u \in SessionType /\ u.plan = st.plan /\ u.delivery = st.delivery
      /\ u.speech = st.speech /\ u.revision = st.revision /\ u.verified = st.verified
      /\ u.cancelled = TRUE
  BY DEF SessionType
<1>2. /\ v \in SessionType /\ v.plan = u.plan /\ v.delivery = u.delivery
      /\ v.speech = u.speech /\ v.revision = u.revision /\ v.verified = u.verified
      /\ v.cancelled = u.cancelled /\ v.listening = FALSE
  BY <1>1 DEF SessionType
<1>3. Cancelled(st) = v
  BY DEF Cancelled
<1>4. QED
  BY <1>1, <1>2, <1>3

\* A session that is told to stop is as right as before.
LEMMA CancelledIsRight ==
  ASSUME NEW st \in SessionType, NEW log, NEW rej, SessionIs(st, log, rej)
  PROVE  SessionIs(Cancelled(st), log, rej) /\ Keeps(st, Cancelled(st))
  BY CancelledSession DEF SessionIs, Keeps

LEMMA CurrentIsCancelled ==
  ASSUME IInv
  PROVE  /\ CancelCurrent \in [SessionId -> SessionType]
         /\ \A t \in SessionId : /\ SessionIs(CancelCurrent[t], issued[t], rejected[t])
                                 /\ Keeps(session[t], CancelCurrent[t])
                                 /\ t # current => CancelCurrent[t] = session[t]
<1>1. session \in [SessionId -> SessionType] /\ current \in 0..MaxSessions
      /\ \A t \in SessionId : SessionIs(session[t], issued[t], rejected[t])
  BY DEF IInv, Types, SessionsAreRight
<1>2. CASE current = 0
  BY <1>1, <1>2 DEF CancelCurrent, Keeps
<1>3. CASE current # 0
  <2>1. current \in SessionId
    BY <1>1, <1>3 DEF SessionId
  <2>2. CancelCurrent = [session EXCEPT ![current] = Cancelled(session[current])]
    BY <1>3 DEF CancelCurrent
  <2>3. Cancelled(session[current]) \in SessionType
    BY <1>1, <2>1, CancelledSession
  <2>4. /\ SessionIs(Cancelled(session[current]), issued[current], rejected[current])
        /\ Keeps(session[current], Cancelled(session[current]))
    BY <1>1, <2>1, CancelledIsRight
  <2>5. QED
    BY <1>1, <2>1, <2>2, <2>3, <2>4 DEF Keeps
<1>4. QED
  BY <1>2, <1>3

\* _plan(): the session as it is, or one that waits for the plan of a new job.
LEMMA PlannedSession ==
  ASSUME NEW st \in SessionType, NEW s \in SessionId
  PROVE  /\ WithPlan(st) \in SessionType
         /\ \/ WithPlan(st) = st /\ PlanJobs(s, st) = jobs
            \/ /\ st.plan = None /\ WithPlan(st).plan = Submitted
               /\ WithPlan(st).delivery = st.delivery /\ WithPlan(st).speech = st.speech
               /\ WithPlan(st).revision = st.revision /\ WithPlan(st).verified = st.verified
               /\ WithPlan(st).listening = st.listening
               /\ PlanJobs(s, st) = Append(jobs, Job("plan", s, st.revision, 0))
<1>1. CASE ~(st.pending /\ st.plan = None)
  BY <1>1 DEF WithPlan, PlanJobs
<1>2. CASE st.pending /\ st.plan = None
  <2> DEFINE u == [st EXCEPT !.planned = st.revision]
             v == [u EXCEPT !.plan = Submitted]
  <2>1. /\ u \in SessionType /\ u.delivery = st.delivery /\ u.speech = st.speech
        /\ u.revision = st.revision /\ u.verified = st.verified /\ u.listening = st.listening
    BY DEF SessionType
  <2>2. /\ v \in SessionType /\ v.delivery = u.delivery /\ v.speech = u.speech
        /\ v.revision = u.revision /\ v.verified = u.verified /\ v.listening = u.listening
        /\ v.plan = Submitted
    BY <2>1, FutureTypes DEF SessionType
  <2>3. WithPlan(st) = v
    BY <1>2 DEF WithPlan
  <2>4. v # st
    BY <1>2, <2>2, FuturesDiffer
  <2> HIDE DEF v
  <2>5. PlanJobs(s, st) = Append(jobs, Job("plan", s, st.revision, 0))
    BY <2>3, <2>4 DEF PlanJobs
  <2>6. QED
    BY <1>2, <2>1, <2>2, <2>3, <2>5
<1>3. QED
  BY <1>1, <1>2

LEMMA JobFields ==
  ASSUME NEW kind \in {"plan", "deliver", "speak"}, NEW s \in SessionId,
         NEW rev \in 0..MaxRevisions, NEW n \in 0..MaxActions
  PROVE  /\ Job(kind, s, rev, n) \in JobType /\ Job(kind, s, rev, n).kind = kind
         /\ Job(kind, s, rev, n).s = s /\ Job(kind, s, rev, n).rev = rev
         /\ Job(kind, s, rev, n).n = n /\ Job(kind, s, rev, n).at = "test"
         /\ Job(kind, s, rev, n).i = 1
  BY BrainAssumption DEF Job, JobType

\* Expiry leaves the session as it is or cancels it.
LEMMA ExpiryCancels ==
  ASSUME NEW st, NEW inputActive
  PROVE  Expiry(st, inputActive) \in {st, Cancelled(st)}
  BY DEF Expiry

-----------------------------------------------------------------------------
(* The steps of the main loop.                                             *)

Calls == /\ UNCHANGED <<running, issued, rejected>>
         /\ mode' \in {"listener", "text", "text_loop"}
         /\ phase' \in {"open", "closing", "closed"}

\* A step that concerns the current session only.
LEMMA CurrentKeepsIInv ==
  ASSUME IInv, Calls, UNCHANGED current, NEW s \in SessionId, s = current,
         NEW st \in SessionType, session' = [session EXCEPT ![s] = st],
         SessionIs(st, issued[s], rejected[s]), Keeps(session[s], st),
         \/ jobs' = jobs
         \/ \E x \in JobType : /\ jobs' = Append(jobs, x) /\ x.at = "test" /\ x.i = 1 /\ x.s = s
                               /\ Workless(session[s]) /\ WorkIs(x, st, issued[s])
  PROVE  IInv'
<1>1. /\ session \in [SessionId -> SessionType] /\ current \in 0..MaxSessions
      /\ \A t \in SessionId : SessionIs(session[t], issued[t], rejected[t])
  BY DEF IInv, Types, SessionsAreRight
<1>2. /\ session' \in [SessionId -> SessionType]
      /\ \A t \in SessionId : session'[t] = IF t = s THEN st ELSE session[t]
  BY <1>1
<1>3. \A t \in SessionId : Keeps(session[t], session[t]) /\ t \in Int
  BY DEF Keeps, SessionId
<1>4. ~(s > current)
  BY DEF SessionId
<1>5. \A t \in SessionId : /\ SessionIs(session'[t], issued[t], rejected[t])
                           /\ Keeps(session[t], session'[t])
                           /\ t > current' => t > current /\ session'[t] = session[t]
  BY <1>1, <1>2, <1>3, <1>4
<1>6. \/ jobs' = jobs
      \/ \E x \in JobType : /\ jobs' = Append(jobs, x) /\ x.at = "test" /\ x.i = 1
                            /\ Workless(session[x.s])
                            /\ WorkIs(x, session'[x.s], issued[x.s])
  BY <1>2
<1>7. QED
  BY <1>1, <1>2, <1>5, <1>6, MainLoopKeepsIInv DEF Calls

\* A session that the main loop reads is as the invariant says.
LEMMA CurrentIsRight ==
  ASSUME IInv, current # 0
  PROVE  /\ current \in SessionId /\ session[current] \in SessionType
         /\ SessionIs(session[current], issued[current], rejected[current])
         /\ session \in [SessionId -> SessionType]
  BY DEF IInv, Types, SessionsAreRight, SessionId

LEMMA NewSessionFields ==
  ASSUME NEW verified \in BOOLEAN, NEW timerOnly \in BOOLEAN
  PROVE  NewSession(verified, timerOnly) \in SessionType /\ Quiet(NewSession(verified, timerOnly))
<1>1. 0 \in 0..MaxRevisions
  BY BrainAssumption
<1>2. QED
  BY <1>1, FutureTypes DEF NewSession, SessionType, Quiet

LEMMA StartKeepsIInv ==
  ASSUME IInv, Calls, NEW tentative \in BOOLEAN, NEW timerOnly \in BOOLEAN,
         Start(tentative, timerOnly)
  PROVE  IInv'
<1> DEFINE new == NewSession(~tentative, timerOnly)
           t0 == current + 1
<1>1. /\ current \in 0..MaxSessions /\ current < MaxSessions /\ MaxSessions \in Nat
      /\ session \in [SessionId -> SessionType]
  BY BrainAssumption DEF Start, IInv, Types
<1>2. t0 \in SessionId /\ t0 \in 0..MaxSessions /\ t0 > current /\ current' = t0
      /\ \A t \in SessionId : t > t0 => t > current /\ t # current
  BY <1>1 DEF Start, SessionId
<1>3. session' = [CancelCurrent EXCEPT ![t0] = new] /\ jobs' = jobs
  BY DEF Start
<1>4. new \in SessionType /\ Quiet(new)
  BY NewSessionFields
<1>5. SessionIs(new, issued[t0], rejected[t0]) /\ Keeps(session[t0], new)
  <2>1. Quiet(session[t0]) /\ issued[t0] = <<>>
    BY <1>2 DEF IInv, Unstarted
  <2>2. SessionIs(session[t0], issued[t0], rejected[t0])
    BY <1>2 DEF IInv, SessionsAreRight
  <2>3. ~rejected[t0]
    BY <2>1, <2>2 DEF SessionIs
  <2>4. Len(issued[t0]) = 0
    BY <2>1
  <2>5. SessionIs(new, issued[t0], rejected[t0])
    BY <1>4, <2>1, <2>3, <2>4 DEF SessionIs, Quiet
  <2>6. Keeps(session[t0], new)
    BY <2>1, FuturesDiffer DEF Keeps, Quiet
  <2>7. QED
    BY <2>5, <2>6
<1> HIDE DEF new, t0
<1>6. /\ CancelCurrent \in [SessionId -> SessionType]
      /\ \A t \in SessionId : /\ SessionIs(CancelCurrent[t], issued[t], rejected[t])
                              /\ Keeps(session[t], CancelCurrent[t])
                              /\ t # current => CancelCurrent[t] = session[t]
  BY CurrentIsCancelled
<1>7. /\ session' \in [SessionId -> SessionType]
      /\ \A t \in SessionId : session'[t] = IF t = t0 THEN new ELSE CancelCurrent[t]
  BY <1>2, <1>3, <1>4, <1>6
<1>8. \A t \in SessionId : t > t0 => t # t0
  BY <1>2 DEF SessionId
<1>9. \A t \in SessionId : /\ SessionIs(session'[t], issued[t], rejected[t])
                           /\ Keeps(session[t], session'[t])
                           /\ t > current' => t > current /\ session'[t] = session[t]
  BY <1>2, <1>5, <1>6, <1>7, <1>8
<1>10. QED
  BY <1>2, <1>3, <1>7, <1>9, MainLoopKeepsIInv DEF Calls

\* cancel(), and close(), which drops the queue too.
LEMMA CancelKeepsIInv ==
  ASSUME IInv, Calls, UNCHANGED current, session' = CancelCurrent,
         jobs' = jobs \/ jobs' = <<>>
  PROVE  IInv'
<1>1. /\ CancelCurrent \in [SessionId -> SessionType]
      /\ \A t \in SessionId : /\ SessionIs(CancelCurrent[t], issued[t], rejected[t])
                              /\ Keeps(session[t], CancelCurrent[t])
                              /\ t # current => CancelCurrent[t] = session[t]
  BY CurrentIsCancelled
<1>2. \A t \in SessionId : t > current => t # current
  BY DEF SessionId, IInv, Types
<1>3. current \in 0..MaxSessions
  BY DEF IInv, Types
<1>4. QED
  BY <1>1, <1>2, <1>3, MainLoopKeepsIInv DEF Calls

\* _plan() for a session that has nothing under way, or a plan that is made.
LEMMA PlanningKeepsIInv ==
  ASSUME IInv, Calls, UNCHANGED current, NEW s \in SessionId, s = current,
         NEW st \in SessionType, SessionIs(st, issued[s], rejected[s]), Keeps(session[s], st),
         st.delivery = None, st.speech = None, st.verified, st.listening, issued[s] = <<>>,
         st.plan = None => Workless(session[s]),
         NEW new \in {WithPlan(st), Cancelled(WithPlan(st))},
         session' = [session EXCEPT ![s] = new], jobs' = PlanJobs(s, st)
  PROVE  IInv'
<1>1. /\ WithPlan(st) \in SessionType
      /\ \/ WithPlan(st) = st /\ PlanJobs(s, st) = jobs
         \/ /\ st.plan = None /\ WithPlan(st).plan = Submitted
            /\ WithPlan(st).delivery = st.delivery /\ WithPlan(st).speech = st.speech
            /\ WithPlan(st).revision = st.revision /\ WithPlan(st).verified = st.verified
            /\ WithPlan(st).listening = st.listening
            /\ PlanJobs(s, st) = Append(jobs, Job("plan", s, st.revision, 0))
  BY PlannedSession
<1>2. Len(issued[s]) = 0
  OBVIOUS
<1>3. SessionIs(WithPlan(st), issued[s], rejected[s])
  <2>1. CASE WithPlan(st) = st
    BY <2>1
  <2>2. CASE WithPlan(st) # st
    <3>1. /\ WithPlan(st).delivery = None /\ WithPlan(st).speech = None
          /\ WithPlan(st).verified /\ WithPlan(st).listening
      BY <1>1, <2>2
    <3>2. ~rejected[s]
      BY DEF SessionIs
    <3>3. \A k \in 1..Len(issued[s]) : FALSE
      BY <1>2
    <3>4. QED
      BY <3>1, <3>2, <3>3 DEF SessionIs
  <2>3. QED
    BY <2>1, <2>2
<1>4. Keeps(session[s], WithPlan(st))
  BY <1>1 DEF Keeps, Workless
<1>5. /\ SessionIs(new, issued[s], rejected[s]) /\ Keeps(session[s], new)
      /\ new \in SessionType /\ new.plan = WithPlan(st).plan
  <2>1. CASE new = WithPlan(st)
    BY <1>1, <1>3, <1>4, <2>1
  <2>2. CASE new = Cancelled(WithPlan(st))
    <3>1. SessionIs(new, issued[s], rejected[s]) /\ Keeps(WithPlan(st), new)
      BY <1>1, <1>3, <2>2, CancelledIsRight
    <3>2. Keeps(session[s], new)
      BY <1>4, <3>1 DEF Keeps
    <3>3. QED
      BY <1>1, <2>2, <3>1, <3>2, CancelledSession
  <2>3. QED
    BY <2>1, <2>2
<1>6. CASE jobs' = jobs
  BY <1>5, <1>6, CurrentKeepsIInv
<1>7. CASE jobs' # jobs
  <2> DEFINE x == Job("plan", s, st.revision, 0)
  <2>1. st.revision \in 0..MaxRevisions /\ 0 \in 0..MaxActions
    BY BrainAssumption DEF SessionType
  <2>2. x \in JobType /\ x.kind = "plan" /\ x.s = s /\ x.at = "test" /\ x.i = 1
    BY <2>1, JobFields
  <2> HIDE DEF x
  <2>3. /\ jobs' = Append(jobs, x) /\ Workless(session[s]) /\ new.plan = Submitted
    BY <1>1, <1>5, <1>7 DEF x
  <2>4. WorkIs(x, new, issued[s])
    BY <2>2, <2>3 DEF WorkIs, Owns
  <2>5. QED
    BY <1>5, <2>2, <2>3, <2>4, CurrentKeepsIInv
<1>8. QED
  BY <1>6, <1>7

\* What transcript() hears and revises.
LEMMA HeardSession ==
  ASSUME NEW st \in SessionType, NEW wake \in BOOLEAN, NEW log, NEW rej, SessionIs(st, log, rej),
         NEW u, u = [st EXCEPT !.verified = @ \/ wake]
  PROVE  /\ u \in SessionType /\ SessionIs(u, log, rej) /\ Keeps(st, u)
         /\ u.plan = st.plan /\ u.delivery = st.delivery /\ u.speech = st.speech
         /\ u.listening = st.listening /\ u.cancelled = st.cancelled
         /\ u.revision = st.revision /\ u.pending = st.pending
<1>1. (st.verified \/ wake) \in BOOLEAN
  OBVIOUS
<1>2. /\ u \in SessionType
      /\ u.plan = st.plan /\ u.delivery = st.delivery /\ u.speech = st.speech
      /\ u.listening = st.listening /\ u.cancelled = st.cancelled
      /\ u.revision = st.revision /\ u.pending = st.pending
  BY <1>1 DEF SessionType
<1>3. st.verified => u.verified
  BY DEF SessionType
<1>4. SessionIs(u, log, rej) /\ Keeps(st, u)
  BY <1>2, <1>3 DEF SessionIs, Keeps
<1>5. QED
  BY <1>2, <1>4

LEMMA RevisedSession ==
  ASSUME NEW st \in SessionType, NEW pending \in BOOLEAN, st.revision < MaxRevisions,
         NEW u, u = [st EXCEPT !.pending = pending, !.expired = FALSE, !.revision = @ + 1]
  PROVE  /\ u \in SessionType
         /\ u.plan = st.plan /\ u.delivery = st.delivery /\ u.speech = st.speech
         /\ u.listening = st.listening /\ u.cancelled = st.cancelled /\ u.verified = st.verified
<1> DEFINE a == [st EXCEPT !.pending = pending]
           b == [a EXCEPT !.expired = FALSE]
           c == [b EXCEPT !.revision = b.revision + 1]
<1>1. /\ a \in SessionType /\ a.plan = st.plan /\ a.delivery = st.delivery
      /\ a.speech = st.speech /\ a.listening = st.listening /\ a.cancelled = st.cancelled
      /\ a.verified = st.verified /\ a.revision = st.revision
  BY DEF SessionType
<1>2. /\ b \in SessionType /\ b.plan = st.plan /\ b.delivery = st.delivery
      /\ b.speech = st.speech /\ b.listening = st.listening /\ b.cancelled = st.cancelled
      /\ b.verified = st.verified /\ b.revision = st.revision
  BY <1>1 DEF SessionType
<1>3. b.revision + 1 \in 0..MaxRevisions
  BY <1>2, BrainAssumption DEF SessionType
<1>4. /\ c \in SessionType /\ c.plan = st.plan /\ c.delivery = st.delivery
      /\ c.speech = st.speech /\ c.listening = st.listening /\ c.cancelled = st.cancelled
      /\ c.verified = st.verified
  BY <1>2, <1>3 DEF SessionType
<1>5. u = c
  BY DEF SessionType
<1>6. QED
  BY <1>4, <1>5

LEMMA TranscriptKeepsIInv ==
  ASSUME IInv, Calls, NEW s \in SessionId, NEW final \in BOOLEAN, NEW wake \in BOOLEAN,
         NEW rest \in BOOLEAN, Transcript(s, final, wake, rest)
  PROVE  IInv'
<1> DEFINE old == session[s]
           heard == [old EXCEPT !.verified = @ \/ wake]
           revised == [heard EXCEPT !.pending = rest \/ (~wake /\ @), !.expired = FALSE,
                                    !.revision = @ + 1]
<1>1. /\ s = current /\ old.listening /\ UNCHANGED current
      /\ \/ session' = [session EXCEPT ![s] = heard] /\ jobs' = jobs
         \/ session' = [session EXCEPT ![s] = Cancelled(heard)] /\ jobs' = jobs
         \/ /\ heard.verified /\ heard.revision < MaxRevisions
            /\ session' = [session EXCEPT ![s] = WithPlan(revised)]
            /\ jobs' = PlanJobs(s, revised)
  BY DEF Transcript, Listening
<1>2. old \in SessionType /\ SessionIs(old, issued[s], rejected[s])
  BY DEF IInv, Types, SessionsAreRight
<1>3. /\ heard \in SessionType /\ SessionIs(heard, issued[s], rejected[s]) /\ Keeps(old, heard)
      /\ heard.plan = old.plan /\ heard.delivery = old.delivery /\ heard.speech = old.speech
      /\ heard.listening = old.listening /\ heard.cancelled = old.cancelled
      /\ heard.revision = old.revision /\ heard.pending = old.pending
  BY <1>2, HeardSession
<1> HIDE DEF heard
<1>4. CASE session' = [session EXCEPT ![s] = heard] /\ jobs' = jobs
  BY <1>1, <1>3, <1>4, CurrentKeepsIInv
<1>5. CASE session' = [session EXCEPT ![s] = Cancelled(heard)] /\ jobs' = jobs
  <2>1. /\ SessionIs(Cancelled(heard), issued[s], rejected[s]) /\ Keeps(heard, Cancelled(heard))
        /\ Cancelled(heard) \in SessionType
    BY <1>3, CancelledIsRight, CancelledSession
  <2>2. Keeps(old, Cancelled(heard))
    BY <1>3, <2>1 DEF Keeps
  <2>3. QED
    BY <1>1, <1>5, <2>1, <2>2, CurrentKeepsIInv
<1>6. CASE /\ heard.verified /\ heard.revision < MaxRevisions
           /\ session' = [session EXCEPT ![s] = WithPlan(revised)]
           /\ jobs' = PlanJobs(s, revised)
  <2>1. (rest \/ (~wake /\ heard.pending)) \in BOOLEAN
    OBVIOUS
  <2>2. revised = [heard EXCEPT !.pending = rest \/ (~wake /\ heard.pending), !.expired = FALSE,
                                !.revision = @ + 1]
    BY DEF SessionType
  <2>3. /\ revised \in SessionType
        /\ revised.plan = heard.plan /\ revised.delivery = heard.delivery
        /\ revised.speech = heard.speech /\ revised.listening = heard.listening
        /\ revised.cancelled = heard.cancelled /\ revised.verified = heard.verified
    BY <1>3, <1>6, <2>1, <2>2, RevisedSession
  <2> HIDE DEF revised
  <2>4. /\ old.delivery = None /\ old.speech = None /\ issued[s] = <<>> /\ ~rejected[s]
    BY <1>1, <1>2 DEF SessionIs
  <2>5. Len(issued[s]) = 0
    BY <2>4
  <2>6. SessionIs(revised, issued[s], rejected[s])
    <3>1. \A k \in 1..Len(issued[s]) : FALSE
      BY <2>5
    <3>2. QED
      BY <1>1, <1>3, <1>6, <2>3, <2>4, <3>1 DEF SessionIs
  <2>7. Keeps(old, revised)
    BY <1>3, <2>3, <2>4, FuturesDiffer DEF Keeps
  <2>8. revised.plan = None => Workless(old)
    BY <1>3, <2>3, <2>4, FuturesDiffer DEF Workless
  <2>9. QED
    BY <1>1, <1>3, <1>6, <2>3, <2>4, <2>6, <2>7, <2>8, PlanningKeepsIInv
<1>7. QED
  BY <1>1, <1>4, <1>5, <1>6

\* A session as it is, or cancelled because it heard nothing for too long.
LEMMA ExpiryKeepsIInv ==
  ASSUME IInv, Calls, UNCHANGED <<current, jobs>>, NEW s \in SessionId, s = current,
         NEW st \in SessionType, SessionIs(st, issued[s], rejected[s]), Keeps(session[s], st),
         NEW new \in {st, Cancelled(st)}, session' = [session EXCEPT ![s] = new]
  PROVE  IInv'
<1>1. CASE new = st
  BY <1>1, CurrentKeepsIInv
<1>2. CASE new = Cancelled(st)
  <2>1. /\ SessionIs(new, issued[s], rejected[s]) /\ Keeps(st, new) /\ new \in SessionType
    BY <1>2, CancelledIsRight, CancelledSession
  <2>2. Keeps(session[s], new)
    BY <2>1 DEF Keeps
  <2>3. QED
    BY <2>1, <2>2, CurrentKeepsIInv
<1>3. QED
  BY <1>1, <1>2

\* A field of a session is emptied.
LEMMA EmptiedSession ==
  ASSUME NEW st \in SessionType
  PROVE  /\ LET u == [st EXCEPT !.plan = None]
            IN /\ u \in SessionType /\ u.plan = None /\ u.delivery = st.delivery
               /\ u.speech = st.speech /\ u.verified = st.verified
               /\ u.listening = st.listening /\ u.cancelled = st.cancelled
               /\ u.revision = st.revision /\ u.planned = st.planned
         /\ LET u == [st EXCEPT !.delivery = None]
            IN /\ u \in SessionType /\ u.plan = st.plan /\ u.delivery = None
               /\ u.speech = st.speech /\ u.verified = st.verified
               /\ u.listening = st.listening /\ u.cancelled = st.cancelled
               /\ u.revision = st.revision /\ u.planned = st.planned
         /\ LET u == [st EXCEPT !.speech = None]
            IN /\ u \in SessionType /\ u.plan = st.plan /\ u.delivery = st.delivery
               /\ u.speech = None /\ u.verified = st.verified
               /\ u.listening = st.listening /\ u.cancelled = st.cancelled
               /\ u.revision = st.revision /\ u.planned = st.planned
  BY FutureTypes DEF SessionType

LEMMA CollectPlanKeepsIInv ==
  ASSUME IInv, Calls, UNCHANGED current, current # 0, ~session[current].cancelled,
         NEW inputActive \in BOOLEAN, CollectPlan(inputActive)
  PROVE  IInv'
<1> DEFINE s == current
           old == session[s]
           st == [old EXCEPT !.plan = None]
<1>1. s \in SessionId /\ old \in SessionType /\ SessionIs(old, issued[s], rejected[s])
  BY CurrentIsRight
<1>2. /\ st \in SessionType /\ st.plan = None /\ st.delivery = old.delivery
      /\ st.speech = old.speech /\ st.verified = old.verified
      /\ st.listening = old.listening /\ st.cancelled = old.cancelled
      /\ st.revision = old.revision /\ st.planned = old.planned
  BY <1>1, EmptiedSession
<1>3. /\ old.plan.at \in {"done", "failed"}
      /\ \/ session' = [session EXCEPT ![s] = Cancelled(st)] /\ jobs' = jobs
         \/ session' = [session EXCEPT ![s] = Expiry(WithPlan(st), inputActive)]
            /\ jobs' = PlanJobs(s, st)
         \/ /\ st.planned = st.revision
            /\ session' = [session EXCEPT ![s] = [st EXCEPT !.listening = FALSE,
                                                            !.delivery = Submitted]]
            /\ jobs' = Append(jobs, Job("deliver", s, st.planned, old.plan.n))
         \/ session' = [session EXCEPT ![s] = Expiry(st, inputActive)] /\ jobs' = jobs
  BY DEF CollectPlan
<1>4. old.plan # None /\ old.plan # Submitted /\ old.plan.n \in 0..MaxActions
  BY <1>1, <1>3 DEF None, Submitted, SessionType, Future
<1>5. /\ old.delivery = None /\ old.speech = None /\ old.verified
      /\ issued[s] = <<>> /\ old.listening /\ ~rejected[s]
  BY <1>1, <1>4 DEF SessionIs
<1>6. Workless(old)
  BY <1>4, <1>5, FuturesDiffer DEF Workless
<1>7. \A new : Keeps(old, new)
  BY <1>6 DEF Keeps, Workless
<1> HIDE DEF st
<1>8. Len(issued[s]) = 0
  BY <1>5
<1>9. \A k \in 1..Len(issued[s]) : FALSE
  BY <1>8
<1>10. SessionIs(st, issued[s], rejected[s])
  BY <1>2, <1>5, <1>9 DEF SessionIs
<1>11. CASE session' = [session EXCEPT ![s] = Cancelled(st)] /\ jobs' = jobs
  <2>1. Cancelled(st) \in {st, Cancelled(st)}
    OBVIOUS
  <2>2. QED
    BY <1>1, <1>2, <1>7, <1>10, <1>11, <2>1, ExpiryKeepsIInv
<1>12. CASE session' = [session EXCEPT ![s] = Expiry(st, inputActive)] /\ jobs' = jobs
  <2>1. Expiry(st, inputActive) \in {st, Cancelled(st)}
    BY ExpiryCancels
  <2>2. QED
    BY <1>1, <1>2, <1>7, <1>10, <1>12, <2>1, ExpiryKeepsIInv
<1>13. CASE session' = [session EXCEPT ![s] = Expiry(WithPlan(st), inputActive)]
            /\ jobs' = PlanJobs(s, st)
  <2>1. Expiry(WithPlan(st), inputActive) \in {WithPlan(st), Cancelled(WithPlan(st))}
    BY ExpiryCancels
  <2>2. QED
    BY <1>1, <1>2, <1>5, <1>6, <1>7, <1>10, <1>13, <2>1, PlanningKeepsIInv
<1>14. CASE /\ st.planned = st.revision
            /\ session' = [session EXCEPT ![s] = [st EXCEPT !.listening = FALSE,
                                                            !.delivery = Submitted]]
            /\ jobs' = Append(jobs, Job("deliver", s, st.planned, old.plan.n))
  <2> DEFINE a == [st EXCEPT !.listening = FALSE]
             new == [a EXCEPT !.delivery = Submitted]
             x == Job("deliver", s, st.planned, old.plan.n)
  <2>1. /\ a \in SessionType /\ a.plan = None /\ a.speech = None /\ a.verified
        /\ a.listening = FALSE /\ a.revision = st.revision
    BY <1>2, <1>5 DEF SessionType
  <2>2. /\ new \in SessionType /\ new.plan = None /\ new.delivery = Submitted
        /\ new.speech = None /\ new.verified /\ new.listening = FALSE
        /\ new.revision = st.revision
    BY <2>1, FutureTypes DEF SessionType
  <2>3. st.planned \in 0..MaxRevisions
    BY <1>2 DEF SessionType
  <2>4. /\ x \in JobType /\ x.kind = "deliver" /\ x.s = s /\ x.rev = st.planned
        /\ x.n = old.plan.n /\ x.at = "test" /\ x.i = 1
    BY <1>1, <1>4, <2>3, JobFields
  <2>5. session' = [session EXCEPT ![s] = new] /\ jobs' = Append(jobs, x)
    BY <1>14
  <2> HIDE DEF new, x
  <2>6. SessionIs(new, issued[s], rejected[s])
    BY <1>5, <1>9, <2>2 DEF SessionIs
  <2>7. WorkIs(x, new, issued[s])
    <3>1. x.i <= x.n + 1 /\ Len(issued[s]) = x.i - 1
      BY <1>4, <1>8, <2>4
    <3>2. QED
      BY <1>14, <2>2, <2>4, <3>1 DEF WorkIs, Owns
  <2>8. QED
    BY <1>1, <1>6, <1>7, <2>2, <2>4, <2>5, <2>6, <2>7, CurrentKeepsIInv
<1>15. QED
  BY <1>3, <1>11, <1>12, <1>13, <1>14

LEMMA CollectDeliveryKeepsIInv ==
  ASSUME IInv, Calls, UNCHANGED current, current # 0, CollectDelivery
  PROVE  IInv'
<1> DEFINE s == current
           old == session[s]
           st == [old EXCEPT !.delivery = None]
           new == [st EXCEPT !.speech = Submitted]
           x == Job("speak", s, st.planned, 0)
<1>1. s \in SessionId /\ old \in SessionType /\ SessionIs(old, issued[s], rejected[s])
  BY CurrentIsRight
<1>2. /\ st \in SessionType /\ st.plan = old.plan /\ st.delivery = None
      /\ st.speech = old.speech /\ st.verified = old.verified
      /\ st.listening = old.listening /\ st.cancelled = old.cancelled
      /\ st.revision = old.revision /\ st.planned = old.planned
  BY <1>1, EmptiedSession
<1>3. /\ old.delivery.at = "done"
      /\ \/ session' = [session EXCEPT ![s] = new] /\ jobs' = Append(jobs, x)
         \/ session' = [session EXCEPT ![s] = st] /\ jobs' = jobs
  BY DEF CollectDelivery
<1>4. old.delivery # None /\ old.delivery # Submitted
  BY <1>1, <1>3 DEF None, Submitted
<1>5. old.plan = None /\ old.speech = None /\ ~old.listening /\ old.verified
  BY <1>1, <1>4 DEF SessionIs
<1>6. Workless(old)
  BY <1>4, <1>5, FuturesDiffer DEF Workless
<1>7. \A any : Keeps(old, any)
  BY <1>6 DEF Keeps, Workless
<1> HIDE DEF st
<1>8. /\ new \in SessionType /\ new.plan = st.plan /\ new.delivery = None
      /\ new.speech = Submitted /\ new.verified = st.verified
      /\ new.listening = st.listening /\ new.cancelled = st.cancelled
      /\ new.revision = st.revision
  BY <1>2, FutureTypes DEF SessionType
<1>9. st.planned \in 0..MaxRevisions /\ 0 \in 0..MaxActions
  BY <1>2, BrainAssumption DEF SessionType
<1>10. x \in JobType /\ x.kind = "speak" /\ x.s = s /\ x.at = "test" /\ x.i = 1
  BY <1>1, <1>9, JobFields
<1> HIDE DEF new, x
<1>11. SessionIs(st, issued[s], rejected[s])
  BY <1>1, <1>2, <1>4, <1>5, FuturesDiffer DEF SessionIs
<1>12. SessionIs(new, issued[s], rejected[s])
  BY <1>1, <1>2, <1>4, <1>5, <1>8, FuturesDiffer DEF SessionIs
<1>13. WorkIs(x, new, issued[s])
  BY <1>8, <1>10 DEF WorkIs, Owns
<1>14. CASE session' = [session EXCEPT ![s] = new] /\ jobs' = Append(jobs, x)
  BY <1>1, <1>6, <1>7, <1>8, <1>10, <1>12, <1>13, <1>14, CurrentKeepsIInv
<1>15. CASE session' = [session EXCEPT ![s] = st] /\ jobs' = jobs
  BY <1>1, <1>2, <1>7, <1>11, <1>15, CurrentKeepsIInv
<1>16. QED
  BY <1>3, <1>14, <1>15

LEMMA CollectSpeechKeepsIInv ==
  ASSUME IInv, Calls, UNCHANGED current, current # 0, CollectSpeech
  PROVE  IInv'
<1> DEFINE s == current
           old == session[s]
           st == [old EXCEPT !.speech = None]
           new == IF old.speech.at = "failed" THEN Cancelled(st) ELSE st
<1>1. s \in SessionId /\ old \in SessionType /\ SessionIs(old, issued[s], rejected[s])
  BY CurrentIsRight
<1>2. /\ st \in SessionType /\ st.plan = old.plan /\ st.delivery = old.delivery
      /\ st.speech = None /\ st.verified = old.verified
      /\ st.listening = old.listening /\ st.cancelled = old.cancelled
      /\ st.revision = old.revision /\ st.planned = old.planned
  BY <1>1, EmptiedSession
<1>3. /\ old.speech.at \in {"done", "failed"}
      /\ session' = [session EXCEPT ![s] = new] /\ jobs' = jobs
  BY DEF CollectSpeech
<1>4. old.speech # Submitted
  BY <1>1, <1>3 DEF Submitted
<1> HIDE DEF st
<1>5. SessionIs(st, issued[s], rejected[s])
  BY <1>1, <1>2 DEF SessionIs
<1>6. Keeps(old, st)
  BY <1>2, <1>4 DEF Keeps
<1>7. new \in {st, Cancelled(st)}
  OBVIOUS
<1> HIDE DEF new
<1>8. QED
  BY <1>1, <1>2, <1>3, <1>5, <1>6, <1>7, ExpiryKeepsIInv

LEMMA CollectNothingKeepsIInv ==
  ASSUME IInv, Calls, UNCHANGED current, current # 0, NEW inputActive \in BOOLEAN,
         CollectNothing(inputActive)
  PROVE  IInv'
<1>1. /\ current \in SessionId /\ session[current] \in SessionType
      /\ SessionIs(session[current], issued[current], rejected[current])
  BY CurrentIsRight
<1>2. /\ session' = [session EXCEPT ![current] = Expiry(session[current], inputActive)]
      /\ jobs' = jobs
  BY DEF CollectNothing
<1>3. Expiry(session[current], inputActive) \in {session[current], Cancelled(session[current])}
  BY ExpiryCancels
<1>4. Keeps(session[current], session[current])
  BY DEF Keeps
<1>5. QED
  BY <1>1, <1>2, <1>3, <1>4, ExpiryKeepsIInv

LEMMA TickKeepsIInv ==
  ASSUME IInv, Calls, NEW inputActive \in BOOLEAN, Tick(inputActive)
  PROVE  IInv'
  BY CollectPlanKeepsIInv, CollectDeliveryKeepsIInv, CollectSpeechKeepsIInv,
     CollectNothingKeepsIInv DEF Tick, Open

LEMMA DeadlineKeepsIInv == ASSUME IInv, Calls, DeadlinePasses PROVE IInv'
<1> DEFINE s == current
           st == [session[s] EXCEPT !.expired = TRUE]
<1>1. s \in SessionId /\ session[s] \in SessionType /\ SessionIs(session[s], issued[s], rejected[s])
  BY CurrentIsRight DEF DeadlinePasses, Open
<1>2. session' = [session EXCEPT ![s] = st] /\ jobs' = jobs /\ current' = current
  BY DEF DeadlinePasses
<1>3. /\ st \in SessionType /\ st.plan = session[s].plan /\ st.delivery = session[s].delivery
      /\ st.speech = session[s].speech /\ st.verified = session[s].verified
      /\ st.listening = session[s].listening /\ st.cancelled = session[s].cancelled
      /\ st.revision = session[s].revision
  BY <1>1 DEF SessionType
<1> HIDE DEF st
<1>4. SessionIs(st, issued[s], rejected[s]) /\ Keeps(session[s], st)
  BY <1>1, <1>3 DEF SessionIs, Keeps
<1>5. QED
  BY <1>1, <1>2, <1>3, <1>4, CurrentKeepsIInv

-----------------------------------------------------------------------------
(* The steps of the pool.                                                  *)

LEMMA TakeKeepsIInv ==
  ASSUME IInv, NEW w \in Worker, Take(w), UNCHANGED mode
  PROVE  IInv'
<1> DEFINE x == Head(jobs)
<1>1. /\ jobs \in Seq(JobType) /\ jobs # <<>> /\ running \in [Worker -> JobType \cup {Idle}]
      /\ running[w] = Idle /\ running' = [running EXCEPT ![w] = x] /\ jobs' = Tail(jobs)
      /\ UNCHANGED <<mode, current, session, phase, issued, rejected>>
  BY DEF IInv, Types, Take
<1>2. /\ x = jobs[1] /\ 1 \in 1..Len(jobs) /\ x \in JobType /\ jobs' \in Seq(JobType)
      /\ \A i \in 1..Len(jobs') : i + 1 \in 1..Len(jobs) /\ jobs'[i] = jobs[i + 1]
  BY <1>1, TailElements
<1> HIDE DEF x
<1>3. \A v \in Worker : running'[v] = IF v = w THEN x ELSE running[v]
  BY <1>1
<1>4. x # Idle
  BY <1>2, IdleIsNoJob
<1>5. running' \in [Worker -> JobType \cup {Idle}]
  BY <1>1, <1>2
<1>6. Types'
  BY <1>1, <1>2, <1>5 DEF IInv, Types
<1>7. SessionsAreRight' /\ Unstarted'
  BY <1>1 DEF IInv, SessionsAreRight, Unstarted
<1>8. QueueIsRight'
  BY <1>1, <1>2 DEF IInv, QueueIsRight
<1>9. WorkersAreRight'
  <2>1. WorkIs(x, session[x.s], issued[x.s])
    BY <1>2 DEF IInv, QueueIsRight
  <2>2. QED
    BY <1>1, <1>3, <2>1 DEF IInv, WorkersAreRight
<1>10. WorkIsSingle'
  <2>1. ASSUME NEW j \in 1..Len(jobs'), NEW k \in 1..Len(jobs'), jobs'[j].s = jobs'[k].s
        PROVE  j = k
    <3>1. j + 1 = k + 1
      BY <1>2, <2>1 DEF IInv, WorkIsSingle
    <3>2. j \in Int /\ k \in Int
      OBVIOUS
    <3>3. QED
      BY <3>1, <3>2
  <2>2. ASSUME NEW j \in 1..Len(jobs')
        PROVE  jobs'[j].s # x.s
    <3>1. j + 1 # 1
      OBVIOUS
    <3>2. QED
      BY <1>2, <3>1 DEF IInv, WorkIsSingle
  <2>3. ASSUME NEW v \in Worker, running'[v] # Idle, NEW j \in 1..Len(jobs')
        PROVE  jobs'[j].s # running'[v].s
    <3>1. CASE v = w
      BY <1>3, <2>2, <3>1
    <3>2. CASE v # w
      BY <1>2, <1>3, <2>3, <3>2 DEF IInv, WorkIsSingle
    <3>3. QED
      BY <3>1, <3>2
  <2>4. \A v \in Worker : v # w /\ running'[v] # Idle => running'[v].s # x.s
    BY <1>2, <1>3 DEF IInv, WorkIsSingle
  <2>5. ASSUME NEW u \in Worker, NEW v \in Worker, running'[u] # Idle, running'[v] # Idle,
               running'[u].s = running'[v].s
        PROVE  u = v
    <3>1. CASE u = w \/ v = w
      BY <1>3, <2>4, <2>5, <3>1
    <3>2. CASE u # w /\ v # w
      BY <1>3, <2>5, <3>2 DEF IInv, WorkIsSingle
    <3>3. QED
      BY <3>1, <3>2
  <2>6. QED
    BY <2>1, <2>3, <2>5 DEF WorkIsSingle
<1>11. QED
  BY <1>6, <1>7, <1>8, <1>9, <1>10 DEF IInv

\* What a worker in a job knows.
LEMMA WorkerIsRight ==
  ASSUME IInv, NEW w \in Worker, running[w].kind # "idle"
  PROVE  LET r == running[w]
         IN /\ r # Idle /\ r \in JobType /\ r.s \in SessionId /\ session[r.s] \in SessionType
            /\ issued[r.s] \in Seq(Request) /\ rejected[r.s] \in BOOLEAN
            /\ SessionIs(session[r.s], issued[r.s], rejected[r.s])
            /\ WorkIs(r, session[r.s], issued[r.s])
<1>1. running[w] # Idle
  BY DEF Idle
<1>2. running[w] \in JobType
  BY <1>1 DEF IInv, Types
<1>3. running[w].s \in SessionId
  BY <1>2 DEF JobType
<1>4. QED
  BY <1>1, <1>2, <1>3 DEF IInv, Types, SessionsAreRight, WorkersAreRight

LEMMA RunPlanKeepsIInv ==
  ASSUME IInv, NEW w \in Worker, RunPlan(w), UNCHANGED mode
  PROVE  IInv'
<1> DEFINE r == running[w]
           s == r.s
<1>1. /\ r # Idle /\ r \in JobType /\ s \in SessionId /\ session[s] \in SessionType
      /\ issued[s] \in Seq(Request) /\ rejected[s] \in BOOLEAN
      /\ SessionIs(session[s], issued[s], rejected[s])
      /\ WorkIs(r, session[s], issued[s])
  BY WorkerIsRight DEF RunPlan
<1>2. PICK f \in Future : f # None /\ f # Submitted /\ Finish(w, "plan", f)
  <2>1. 1 <= MaxActions /\ MaxActions \in Nat
    BY BrainAssumption
  <2>2. \A n \in 0..(IF session[s].timerOnly THEN 1 ELSE MaxActions) : n \in 0..MaxActions
    BY <2>1
  <2>3. QED
    BY <2>2, FutureTypes, FuturesDiffer DEF RunPlan
<1> DEFINE st == [session[s] EXCEPT !.plan = f]
<1>3. /\ st \in SessionType /\ st.plan = f /\ st.delivery = session[s].delivery
      /\ st.speech = session[s].speech /\ st.verified = session[s].verified
      /\ st.listening = session[s].listening /\ st.cancelled = session[s].cancelled
      /\ st.revision = session[s].revision
  BY <1>1 DEF SessionType
<1>4. session' = [session EXCEPT ![s] = st]
  BY <1>1, <1>2 DEF Finish, IInv, Types
<1>5. session[s].plan = Submitted
  BY <1>1 DEF RunPlan, WorkIs, Owns
<1> HIDE DEF st
<1>6. SessionIs(st, issued[s], rejected[s])
  BY <1>1, <1>3, <1>5, FuturesDiffer DEF SessionIs
<1>7. /\ running' = [running EXCEPT ![w] = Idle]
      /\ issued' = [issued EXCEPT ![s] = issued[s]]
      /\ rejected' = [rejected EXCEPT ![s] = rejected[s]]
      /\ UNCHANGED <<mode, phase, current, jobs>>
  BY <1>1, <1>2 DEF RunPlan, Finish, IInv, Types
<1>8. WorkerMoves(w, s, Idle, st, issued[s], rejected[s])
  BY <1>1, <1>3, <1>4, <1>6, <1>7 DEF WorkerMoves
<1>9. QED
  BY <1>8, WorkerKeepsIInv

LEMMA SpeakKeepsIInv ==
  ASSUME IInv, NEW w \in Worker, Speak(w), UNCHANGED mode
  PROVE  IInv'
<1> DEFINE r == running[w]
           s == r.s
<1>1. /\ r # Idle /\ r \in JobType /\ s \in SessionId /\ session[s] \in SessionType
      /\ issued[s] \in Seq(Request) /\ rejected[s] \in BOOLEAN
      /\ SessionIs(session[s], issued[s], rejected[s])
      /\ WorkIs(r, session[s], issued[s])
  BY WorkerIsRight DEF Speak
<1>2. PICK f \in Future : f # None /\ f # Submitted /\ Finish(w, "speech", f)
  <2>1. 0 \in 0..MaxActions
    BY BrainAssumption
  <2>2. QED
    BY <2>1, FutureTypes, FuturesDiffer DEF Speak
<1> DEFINE st == [session[s] EXCEPT !.speech = f]
<1>3. /\ st \in SessionType /\ st.plan = session[s].plan /\ st.delivery = session[s].delivery
      /\ st.speech = f /\ st.verified = session[s].verified
      /\ st.listening = session[s].listening /\ st.cancelled = session[s].cancelled
      /\ st.revision = session[s].revision
  BY <1>1 DEF SessionType
<1>4. session' = [session EXCEPT ![s] = st]
  BY <1>1, <1>2 DEF Finish, IInv, Types
<1>5. session[s].speech = Submitted
  BY <1>1 DEF Speak, WorkIs, Owns
<1> HIDE DEF st
<1>6. SessionIs(st, issued[s], rejected[s])
  BY <1>1, <1>3, <1>5, FuturesDiffer DEF SessionIs
<1>7. /\ running' = [running EXCEPT ![w] = Idle]
      /\ issued' = [issued EXCEPT ![s] = issued[s]]
      /\ rejected' = [rejected EXCEPT ![s] = rejected[s]]
      /\ UNCHANGED <<mode, phase, current, jobs>>
  BY <1>1, <1>2 DEF Speak, Finish, IInv, Types
<1>8. WorkerMoves(w, s, Idle, st, issued[s], rejected[s])
  BY <1>1, <1>3, <1>4, <1>6, <1>7 DEF WorkerMoves
<1>9. QED
  BY <1>8, WorkerKeepsIInv

\* What is known of a delivery: the session no longer plans nor listens.
LEMMA DeliveryIsRight ==
  ASSUME IInv, NEW w \in Worker, running[w].kind = "deliver"
  PROVE  LET r == running[w]
         IN /\ r # Idle /\ r \in JobType /\ r.s \in SessionId /\ session[r.s] \in SessionType
            /\ issued[r.s] \in Seq(Request) /\ rejected[r.s] \in BOOLEAN
            /\ SessionIs(session[r.s], issued[r.s], rejected[r.s])
            /\ WorkIs(r, session[r.s], issued[r.s])
            /\ session[r.s].delivery = Submitted /\ session[r.s].plan = None
            /\ session[r.s].speech = None /\ ~session[r.s].listening
            /\ session[r.s].verified /\ ~rejected[r.s]
            /\ r.i \in 1..(MaxActions + 1) /\ r.n \in 0..MaxActions
<1> DEFINE r == running[w]
<1>1. /\ r # Idle /\ r \in JobType /\ r.s \in SessionId /\ session[r.s] \in SessionType
      /\ issued[r.s] \in Seq(Request) /\ rejected[r.s] \in BOOLEAN
      /\ SessionIs(session[r.s], issued[r.s], rejected[r.s])
      /\ WorkIs(r, session[r.s], issued[r.s])
  BY WorkerIsRight
<1>2. session[r.s].delivery = Submitted
  BY <1>1 DEF WorkIs, Owns
<1>3. /\ session[r.s].plan = None /\ session[r.s].speech = None /\ ~session[r.s].listening
      /\ session[r.s].verified /\ ~rejected[r.s]
  BY <1>1, <1>2, FuturesDiffer DEF SessionIs
<1>4. r.i \in 1..(MaxActions + 1) /\ r.n \in 0..MaxActions
  BY <1>1 DEF JobType
<1>5. QED
  BY <1>1, <1>2, <1>3, <1>4

\* The delivery of w ends with n outcomes.
LEMMA DeliveryEndsKeepsIInv ==
  ASSUME IInv, NEW w \in Worker, running[w].kind = "deliver", NEW n \in 0..MaxActions,
         Finish(w, "delivery", Done(n)), NEW rej \in BOOLEAN,
         rejected' = [rejected EXCEPT ![running[w].s] = rej],
         rej => issued[running[w].s] # <<>>,
         UNCHANGED <<mode, phase, current, jobs, issued>>
  PROVE  IInv'
<1> DEFINE r == running[w]
           s == r.s
           st == [session[s] EXCEPT !.delivery = Done(n)]
<1>1. /\ r # Idle /\ r \in JobType /\ s \in SessionId /\ session[s] \in SessionType
      /\ issued[s] \in Seq(Request)
      /\ SessionIs(session[s], issued[s], rejected[s])
      /\ session[s].delivery = Submitted /\ session[s].plan = None
      /\ session[s].speech = None /\ ~session[s].listening /\ session[s].verified
  BY DeliveryIsRight
<1>2. Done(n) \in Future /\ Done(n) # None /\ Done(n) # Submitted
  BY FutureTypes, FuturesDiffer
<1>3. /\ st \in SessionType /\ st.plan = None /\ st.delivery = Done(n)
      /\ st.speech = None /\ st.verified /\ ~st.listening
      /\ st.cancelled = session[s].cancelled /\ st.revision = session[s].revision
  BY <1>1, <1>2 DEF SessionType
<1>4. session' = [session EXCEPT ![s] = st] /\ running' = [running EXCEPT ![w] = Idle]
  BY <1>1 DEF Finish, IInv, Types
<1> HIDE DEF st
<1>5. SessionIs(st, issued[s], rej)
  BY <1>1, <1>2, <1>3, FuturesDiffer DEF SessionIs
<1>6. /\ issued' = [issued EXCEPT ![s] = issued[s]]
      /\ rejected' = [rejected EXCEPT ![s] = rej]
      /\ UNCHANGED <<mode, phase, current, jobs>>
  BY <1>1 DEF IInv, Types
<1>7. WorkerMoves(w, s, Idle, st, issued[s], rej)
  BY <1>1, <1>3, <1>4, <1>5, <1>6 DEF WorkerMoves
<1>8. QED
  BY <1>7, WorkerKeepsIInv

\* The delivery of w goes on, its session as it was.
LEMMA DeliveryGoesOnKeepsIInv ==
  ASSUME IInv, NEW w \in Worker, running[w].kind = "deliver", NEW y \in JobType,
         running' = [running EXCEPT ![w] = y], y.s = running[w].s,
         NEW log \in Seq(Request), issued' = [issued EXCEPT ![running[w].s] = log],
         SessionIs(session[running[w].s], log, rejected[running[w].s]),
         WorkIs(y, session[running[w].s], log),
         UNCHANGED <<mode, phase, current, jobs, session, rejected>>
  PROVE  IInv'
<1> DEFINE s == running[w].s
<1>1. /\ running[w] # Idle /\ s \in SessionId /\ session[s] \in SessionType
      /\ rejected[s] \in BOOLEAN
  BY DeliveryIsRight
<1>2. /\ session' = [session EXCEPT ![s] = session[s]]
      /\ rejected' = [rejected EXCEPT ![s] = rejected[s]]
      /\ issued' = [issued EXCEPT ![s] = log]
      /\ UNCHANGED <<mode, phase, current, jobs>>
  BY <1>1 DEF IInv, Types
<1>3. WorkerMoves(w, s, y, session[s], log, rejected[s])
  BY <1>1, <1>2 DEF WorkerMoves
<1>4. QED
  BY <1>3, WorkerKeepsIInv

LEMMA TestCancelledKeepsIInv ==
  ASSUME IInv, NEW w \in Worker, TestCancelled(w), UNCHANGED mode
  PROVE  IInv'
<1> DEFINE r == running[w]
           s == r.s
<1>1. /\ r \in JobType /\ s \in SessionId /\ issued[s] \in Seq(Request)
      /\ SessionIs(session[s], issued[s], rejected[s])
      /\ WorkIs(r, session[s], issued[s])
      /\ rejected[s] \in BOOLEAN /\ ~rejected[s]
      /\ r.i \in 1..(MaxActions + 1) /\ r.n \in 0..MaxActions
      /\ r.kind = "deliver" /\ r.at = "test"
  BY DeliveryIsRight DEF TestCancelled
<1>2. /\ r.rev = session[s].revision /\ r.i <= r.n + 1 /\ Len(issued[s]) = r.i - 1
      /\ session[s].delivery = Submitted
  BY <1>1 DEF WorkIs, Owns
<1>3. CASE r.i > r.n \/ session[s].cancelled
  <2>1. r.i - 1 \in 0..MaxActions
    <3>1. \A k \in 1..(MaxActions + 1) : k - 1 \in 0..MaxActions
      BY BrainAssumption
    <3>2. QED
      BY <1>1, <3>1
  <2>2. Finish(w, "delivery", Done(r.i - 1)) /\ UNCHANGED <<current, jobs, phase, issued>>
    BY <1>3 DEF TestCancelled
  <2>3. rejected' = [rejected EXCEPT ![s] = FALSE]
    BY <1>1, <1>3 DEF TestCancelled, IInv, Types
  <2>4. QED
    BY <1>1, <2>1, <2>2, <2>3, DeliveryEndsKeepsIInv
<1>4. CASE ~(r.i > r.n \/ session[s].cancelled)
  <2> DEFINE y == [r EXCEPT !.at = "send"]
  <2>1. /\ running' = [running EXCEPT ![w] = y]
        /\ UNCHANGED <<current, jobs, phase, issued, rejected, session>>
    BY <1>4 DEF TestCancelled
  <2>2. /\ y \in JobType /\ y.kind = "deliver" /\ y.at = "send" /\ y.s = s /\ y.rev = r.rev
        /\ y.i = r.i /\ y.n = r.n
    BY <1>1 DEF JobType
  <2> HIDE DEF y
  <2>3. y.i <= y.n
    BY <1>1, <1>4, <2>2
  <2>4. \A k \in 1..Len(issued[s]) : ~issued[s][k].stale
    BY <1>1, <1>4 DEF SessionIs
  <2>5. WorkIs(y, session[s], issued[s])
    BY <1>2, <2>2, <2>3, <2>4 DEF WorkIs, Owns
  <2>6. issued' = [issued EXCEPT ![s] = issued[s]]
    BY <1>1, <2>1 DEF IInv, Types
  <2>7. QED
    BY <1>1, <2>1, <2>2, <2>5, <2>6, DeliveryGoesOnKeepsIInv
<1>5. QED
  BY <1>3, <1>4

LEMMA SendKeepsIInv ==
  ASSUME IInv, NEW w \in Worker, Send(w), UNCHANGED mode
  PROVE  IInv'
<1> DEFINE r == running[w]
           s == r.s
           q == [rev |-> r.rev, i |-> r.i, stale |-> session[s].cancelled]
           log == Append(issued[s], q)
           y == [r EXCEPT !.at = "reply"]
<1>1. /\ r \in JobType /\ s \in SessionId /\ issued[s] \in Seq(Request)
      /\ session[s] \in SessionType
      /\ SessionIs(session[s], issued[s], rejected[s])
      /\ WorkIs(r, session[s], issued[s])
      /\ session[s].plan = None /\ session[s].speech = None /\ ~session[s].listening
      /\ session[s].verified /\ ~rejected[s] /\ session[s].delivery = Submitted
      /\ r.i \in 1..(MaxActions + 1) /\ r.n \in 0..MaxActions
      /\ r.kind = "deliver" /\ r.at = "send"
  BY DeliveryIsRight DEF Send
<1>2. /\ r.rev = session[s].revision /\ r.i <= r.n /\ Len(issued[s]) = r.i - 1
      /\ \A k \in 1..Len(issued[s]) : ~issued[s][k].stale
  BY <1>1 DEF WorkIs
<1>3. /\ running' = [running EXCEPT ![w] = y] /\ issued' = [issued EXCEPT ![s] = log]
      /\ UNCHANGED <<current, session, jobs, phase, rejected>>
  BY <1>1 DEF Send, IInv, Types
<1>4. q \in Request /\ q.rev = r.rev /\ q.i = r.i /\ q.stale = session[s].cancelled
  BY <1>1 DEF Request, JobType, SessionType
<1>5. /\ y \in JobType /\ y.kind = "deliver" /\ y.at = "reply" /\ y.s = s /\ y.rev = r.rev
      /\ y.i = r.i /\ y.n = r.n
  BY <1>1 DEF JobType
<1> HIDE DEF q, y
<1>6. /\ log \in Seq(Request) /\ Len(log) = Len(issued[s]) + 1 /\ Len(issued[s]) \in Nat
      /\ \A k \in 1..Len(issued[s]) : log[k] = issued[s][k]
      /\ log[Len(issued[s]) + 1] = q
  BY <1>1, <1>4, AppendElements
<1> HIDE DEF log
<1>7. Len(log) = r.i /\ \A k \in 1..Len(log) : k \in 1..Len(issued[s]) \/ k = Len(log)
  BY <1>1, <1>2, <1>6
<1>8. \A k \in 1..Len(log) : /\ log[k].rev = session[s].revision
                             /\ log[k].i = k
                             /\ log[k].stale => session[s].cancelled /\ k = Len(log)
  <2>1. ASSUME NEW k \in 1..Len(issued[s])
        PROVE  log[k].rev = session[s].revision /\ log[k].i = k /\ ~log[k].stale
    BY <1>1, <1>2, <1>6 DEF SessionIs
  <2>2. log[Len(log)] = q /\ Len(log) = r.i
    BY <1>6, <1>7
  <2>3. QED
    BY <1>2, <1>4, <1>7, <2>1, <2>2
<1>9. log # <<>>
  BY <1>6
<1>10. SessionIs(session[s], log, rejected[s])
  BY <1>1, <1>8, FuturesDiffer DEF SessionIs
<1>11. WorkIs(y, session[s], log)
  BY <1>1, <1>2, <1>5, <1>7 DEF WorkIs, Owns
<1>12. QED
  BY <1>1, <1>3, <1>5, <1>6, <1>10, <1>11, DeliveryGoesOnKeepsIInv

LEMMA AcceptedKeepsIInv ==
  ASSUME IInv, NEW w \in Worker, Accepted(w), UNCHANGED mode
  PROVE  IInv'
<1> DEFINE r == running[w]
           s == r.s
           u == [r EXCEPT !.at = "test"]
           y == [u EXCEPT !.i = u.i + 1]
<1>1. /\ r \in JobType /\ s \in SessionId /\ issued[s] \in Seq(Request)
      /\ SessionIs(session[s], issued[s], rejected[s])
      /\ WorkIs(r, session[s], issued[s])
      /\ r.i \in 1..(MaxActions + 1) /\ r.n \in 0..MaxActions
      /\ r.kind = "deliver" /\ r.at = "reply"
  BY DeliveryIsRight DEF Accepted
<1>2. /\ r.rev = session[s].revision /\ r.i <= r.n /\ Len(issued[s]) = r.i
      /\ session[s].delivery = Submitted
  BY <1>1 DEF WorkIs, Owns
<1>3. /\ running' = [running EXCEPT ![w] = y]
      /\ UNCHANGED <<current, session, jobs, phase, issued, rejected>>
  BY <1>1 DEF Accepted, JobType
<1>4. /\ u \in JobType /\ u.kind = "deliver" /\ u.at = "test" /\ u.s = s /\ u.rev = r.rev
      /\ u.i = r.i /\ u.n = r.n
  BY <1>1 DEF JobType
<1>5. r.i + 1 \in 1..(MaxActions + 1)
  BY <1>1, <1>2, BrainAssumption
<1>6. /\ y \in JobType /\ y.kind = "deliver" /\ y.at = "test" /\ y.s = s /\ y.rev = r.rev
      /\ y.i = r.i + 1 /\ y.n = r.n
  BY <1>4, <1>5 DEF JobType
<1> HIDE DEF y, u
<1>7. y.i <= y.n + 1 /\ Len(issued[s]) = y.i - 1
  BY <1>1, <1>2, <1>6
<1>8. WorkIs(y, session[s], issued[s])
  BY <1>2, <1>6, <1>7 DEF WorkIs, Owns
<1>9. issued' = [issued EXCEPT ![s] = issued[s]]
  BY <1>1, <1>3 DEF IInv, Types
<1>10. QED
  BY <1>1, <1>3, <1>6, <1>8, <1>9, DeliveryGoesOnKeepsIInv

LEMMA RejectedKeepsIInv ==
  ASSUME IInv, NEW w \in Worker, Rejected(w), UNCHANGED mode
  PROVE  IInv'
<1> DEFINE r == running[w]
<1>1. /\ WorkIs(r, session[r.s], issued[r.s])
      /\ r.i \in 1..(MaxActions + 1) /\ r.n \in 0..MaxActions
      /\ r.kind = "deliver" /\ r.at = "reply"
  BY DeliveryIsRight DEF Rejected
<1>2. r.i <= r.n /\ Len(issued[r.s]) = r.i
  BY <1>1 DEF WorkIs
<1>3. r.i \in 0..MaxActions /\ issued[r.s] # <<>>
  <2>1. \A k \in 1..(MaxActions + 1), n \in 0..MaxActions : k <= n => k \in 0..MaxActions /\ k # 0
    BY BrainAssumption
  <2>2. Len(<<>>) = 0
    OBVIOUS
  <2>3. QED
    BY <1>1, <1>2, <2>1, <2>2
<1>4. /\ rejected' = [rejected EXCEPT ![r.s] = TRUE]
      /\ Finish(w, "delivery", Done(r.i)) /\ UNCHANGED <<current, jobs, phase, issued>>
  BY DEF Rejected
<1>5. QED
  BY <1>1, <1>3, <1>4, DeliveryEndsKeepsIInv

-----------------------------------------------------------------------------
(* The invariant holds throughout.                                         *)

LEMMA InitIInv == Init => IInv
<1> SUFFICES ASSUME Init PROVE IInv
  OBVIOUS
<1> DEFINE new == NewSession(FALSE, FALSE)
           st == [new EXCEPT !.listening = FALSE]
<1>1. new \in SessionType /\ Quiet(new)
  BY NewSessionFields
<1>2. st \in SessionType /\ Quiet(st)
  BY <1>1 DEF SessionType, Quiet
<1>3. /\ session = [s \in SessionId |-> st] /\ issued = [s \in SessionId |-> <<>>]
      /\ rejected = [s \in SessionId |-> FALSE] /\ running = [w \in Worker |-> Idle]
      /\ jobs = <<>> /\ current = 0
  BY DEF Init
<1> HIDE DEF st
<1>4. Types
  <2>1. mode \in {"listener", "text", "text_loop"}
    BY DEF Init
  <2>2. phase \in {"open", "closing", "closed"}
    BY DEF Init
  <2>3. current \in 0..MaxSessions
    BY <1>3, BrainAssumption
  <2>4. session \in [SessionId -> SessionType]
    BY <1>2, <1>3
  <2>5. jobs \in Seq(JobType)
    BY <1>3
  <2>6. running \in [Worker -> JobType \cup {Idle}]
    BY <1>3
  <2>7. <<>> \in Seq(Request)
    OBVIOUS
  <2>8. issued \in [SessionId -> Seq(Request)] /\ rejected \in [SessionId -> BOOLEAN]
    BY <1>3, <2>7
  <2>9. QED
    BY <2>1, <2>2, <2>3, <2>4, <2>5, <2>6, <2>8 DEF Types
<1>5. \A s \in SessionId : session[s] = st /\ issued[s] = <<>> /\ rejected[s] = FALSE
  BY <1>3
<1>6. SessionIs(st, <<>>, FALSE)
  <2>1. Len(<<>>) = 0
    OBVIOUS
  <2>2. QED
    BY <1>2, <2>1 DEF SessionIs, Quiet
<1>7. SessionsAreRight
  BY <1>5, <1>6 DEF SessionsAreRight
<1>8. Unstarted
  BY <1>2, <1>5 DEF Unstarted
<1>9. Len(jobs) = 0
  BY <1>3
<1>10. \A w \in Worker : running[w] = Idle
  BY <1>3
<1>11. QueueIsRight /\ WorkersAreRight /\ WorkIsSingle
  BY <1>9, <1>10 DEF QueueIsRight, WorkersAreRight, WorkIsSingle
<1>12. QED
  BY <1>4, <1>7, <1>8, <1>11 DEF IInv

\* Nothing is read but the variables.
LEMMA StutterKeepsIInv == IInv /\ UNCHANGED vars => IInv'
<1> SUFFICES ASSUME IInv, UNCHANGED vars PROVE IInv'
  OBVIOUS
<1> USE DEF vars
<1>1. Types' /\ SessionsAreRight' /\ Unstarted'
  BY DEF IInv, Types, SessionsAreRight, Unstarted
<1>2. QueueIsRight' /\ WorkersAreRight' /\ WorkIsSingle'
  BY DEF IInv, QueueIsRight, WorkersAreRight, WorkIsSingle
<1>3. QED
  BY <1>1, <1>2 DEF IInv

LEMMA ClosedKeepsIInv == ASSUME IInv, Closed, UNCHANGED mode PROVE IInv'
<1>1. UNCHANGED <<mode, current, session, jobs, running, issued, rejected>>
  BY DEF Closed
<1>2. Types'
  BY <1>1 DEF IInv, Types, Closed
<1>3. SessionsAreRight' /\ Unstarted'
  BY <1>1 DEF IInv, SessionsAreRight, Unstarted
<1>4. QueueIsRight' /\ WorkersAreRight' /\ WorkIsSingle'
  BY <1>1 DEF IInv, QueueIsRight, WorkersAreRight, WorkIsSingle
<1>5. QED
  BY <1>2, <1>3, <1>4 DEF IInv

LEMMA CloseKeepsIInv ==
  ASSUME IInv, Close, mode' \in {"listener", "text", "text_loop"}
  PROVE  IInv'
<1>1. /\ Calls /\ UNCHANGED current /\ session' = CancelCurrent /\ jobs' = <<>>
  BY DEF Close, Calls
<1>2. QED
  BY <1>1, CancelKeepsIInv

\* Every call of the main loop leaves the workers and the requests alone, and
\* all of them but close() leave the phase alone.
LEMMA ListenerKeepsIInv ==
  ASSUME IInv, Listener, UNCHANGED mode
  PROVE  IInv'
<1>1. /\ mode' \in {"listener", "text", "text_loop"}
      /\ phase \in {"open", "closing", "closed"}
  BY DEF IInv, Types
<1>2. ASSUME NEW tentative \in BOOLEAN, NEW timerOnly \in BOOLEAN, Start(tentative, timerOnly)
      PROVE  IInv'
  <2>1. Calls
    BY <1>1, <1>2 DEF Calls, Start
  <2>2. QED
    BY <1>2, <2>1, StartKeepsIInv
<1>3. ASSUME NEW final \in BOOLEAN, NEW wake \in BOOLEAN, NEW rest \in BOOLEAN,
             NEW s \in SessionId, Transcript(s, final, wake, rest)
      PROVE  IInv'
  <2>1. Calls
    BY <1>1, <1>3 DEF Calls, Transcript
  <2>2. QED
    BY <1>3, <2>1, TranscriptKeepsIInv
<1>4. CASE Cancel
  <2>1. Calls /\ UNCHANGED current /\ session' = CancelCurrent /\ jobs' = jobs
    BY <1>1, <1>4 DEF Calls, Cancel
  <2>2. QED
    BY <2>1, CancelKeepsIInv
<1>5. ASSUME NEW inputActive \in BOOLEAN, Tick(inputActive)
      PROVE  IInv'
  <2>1. Calls
    BY <1>1, <1>5 DEF Calls, Tick
  <2>2. QED
    BY <1>5, <2>1, TickKeepsIInv
<1>6. QED
  BY <1>1, <1>2, <1>3, <1>4, <1>5, CloseKeepsIInv DEF Listener

LEMMA TextRequestKeepsIInv == ASSUME IInv, TextRequest PROVE IInv'
<1>1. /\ mode' \in {"listener", "text", "text_loop"}
      /\ phase \in {"open", "closing", "closed"}
  BY DEF TextRequest, IInv, Types
<1>2. CASE Start(FALSE, FALSE)
  <2>1. Calls
    BY <1>1, <1>2 DEF Calls, Start
  <2>2. QED
    BY <1>2, <2>1, StartKeepsIInv
<1>3. ASSUME NEW wake \in BOOLEAN, NEW rest \in BOOLEAN, Transcript(1, TRUE, wake, rest)
      PROVE  IInv'
  <2>1. Calls
    BY <1>1, <1>3 DEF Calls, Transcript
  <2>2. 1 \in SessionId
    BY BrainAssumption DEF SessionId
  <2>3. QED
    BY <1>3, <2>1, <2>2, TranscriptKeepsIInv
<1>4. CASE Tick(FALSE)
  <2>1. Calls
    BY <1>1, <1>4 DEF Calls, Tick
  <2>2. QED
    BY <1>4, <2>1, TickKeepsIInv
<1>5. CASE Close
  BY <1>1, <1>5, CloseKeepsIInv
<1>6. QED
  BY <1>2, <1>3, <1>4, <1>5 DEF TextRequest

LEMMA WorkKeepsIInv ==
  ASSUME IInv, NEW w \in Worker, Work(w), UNCHANGED mode
  PROVE  IInv'
  BY TakeKeepsIInv, RunPlanKeepsIInv, TestCancelledKeepsIInv, SendKeepsIInv,
     AcceptedKeepsIInv, RejectedKeepsIInv, SpeakKeepsIInv DEF Work

LEMMA NextKeepsIInv == IInv /\ [Next]_vars => IInv'
<1> SUFFICES ASSUME IInv, [Next]_vars PROVE IInv'
  OBVIOUS
<1>1. CASE Listener /\ UNCHANGED mode
  BY <1>1, ListenerKeepsIInv
<1>2. CASE TextRequest
  BY <1>2, TextRequestKeepsIInv
<1>3. CASE DeadlinePasses /\ UNCHANGED mode
  <2>1. Calls
    BY <1>3 DEF Calls, DeadlinePasses, IInv, Types
  <2>2. QED
    BY <1>3, <2>1, DeadlineKeepsIInv
<1>4. CASE Closed /\ UNCHANGED mode
  BY <1>4, ClosedKeepsIInv
<1>5. CASE (\E w \in Worker : Work(w)) /\ UNCHANGED mode
  BY <1>5, WorkKeepsIInv
<1>6. CASE UNCHANGED vars
  BY <1>6, StutterKeepsIInv
<1>7. QED
  BY <1>1, <1>2, <1>3, <1>4, <1>5, <1>6 DEF Next

LEMMA Invariance == Spec => []IInv
  BY InitIInv, NextKeepsIInv, PTL DEF Spec

-----------------------------------------------------------------------------
(* The theorems.                                                           *)

LEMMA AtMostOne ==
  ASSUME NEW x, NEW T \in SUBSET {x}
  PROVE  Cardinality(T) <= 1
<1>1. IsFiniteSet({x}) /\ Cardinality({x}) = 1
  BY FS_Singleton
<1>2. QED
  BY <1>1, FS_Subset

\* A session plans, or acts, or speaks, and never two of these: tick() may look at
\* the three futures one after the other, whatever was said, cancelled or started
\* while the workers were busy.
THEOREM SessionsAreWellFormed == Spec => []WellFormed
<1>1. IInv => WellFormed
  <2> SUFFICES ASSUME IInv PROVE WellFormed
    OBVIOUS
  <2>1. TypeOK
    <3>1. \A w \in Worker : running[w].kind \in {"idle", "plan", "deliver", "speak"}
      BY DEF IInv, Types, JobType, Idle
    <3>2. QED
      BY <3>1 DEF IInv, Types, TypeOK, SessionType
  <2>2. ASSUME NEW s \in SessionId
        PROVE  Cardinality(Outstanding(s)) <= 1
    <3>1. SessionIs(session[s], issued[s], rejected[s])
      BY DEF IInv, SessionsAreRight
    <3>2. \/ Outstanding(s) \subseteq {"plan"}
          \/ Outstanding(s) \subseteq {"delivery"}
          \/ Outstanding(s) \subseteq {"speech"}
      <4>1. session \in [SessionId -> SessionType]
        BY DEF IInv, Types
      <4>2. /\ session[s]["plan"] = session[s].plan
            /\ session[s]["delivery"] = session[s].delivery
            /\ session[s]["speech"] = session[s].speech
        OBVIOUS
      <4>3. QED
        BY <3>1, <4>2 DEF Outstanding, SessionIs
    <3>3. QED
      BY <3>2, AtMostOne
  <2>3. QED
    BY <2>1, <2>2 DEF WellFormed, OneFutureAtATime
<1>2. QED
  BY Invariance, <1>1, PTL

\* A plan of an utterance that was continued or corrected is never carried out:
\* the house gets the plan of the session's last utterance or nothing, whatever
\* order the transcripts, the planner and the main loop come in.
THEOREM ActsOnTheLatest == Spec => []ActsOnLatestUtterance
<1>1. IInv => ActsOnLatestUtterance
  BY DEF IInv, SessionsAreRight, SessionIs, ActsOnLatestUtterance
<1>2. QED
  BY Invariance, <1>1, PTL

\* A session opened on a doubtful wake word, or while it is doubted, controls nothing.
THEOREM UnverifiedNeverActs == Spec => []OnlyVerifiedActs
<1>1. IInv => OnlyVerifiedActs
  BY DEF IInv, SessionsAreRight, SessionIs, OnlyVerifiedActs
<1>2. QED
  BY Invariance, <1>1, PTL

\* What a cancelled session still sends is the one request that the worker had
\* decided to send: after it the event is looked at again, on every path.
THEOREM OneLateActionAtMost == Spec => []AtMostOneLateAction
<1>1. IInv => AtMostOneLateAction
  <2> SUFFICES ASSUME IInv, NEW s \in SessionId
               PROVE  Cardinality({k \in 1..Len(issued[s]) : issued[s][k].stale}) <= 1
    BY DEF AtMostOneLateAction
  <2>1. \A k \in 1..Len(issued[s]) : issued[s][k].stale => k = Len(issued[s])
    BY DEF IInv, SessionsAreRight, SessionIs
  <2>2. {k \in 1..Len(issued[s]) : issued[s][k].stale} \in SUBSET {Len(issued[s])}
    BY <2>1
  <2>3. QED
    BY <2>2, AtMostOne
<1>2. QED
  BY Invariance, <1>1, PTL

\* The actions of a session reach the house in their order, none twice and none
\* left out before another, by whichever worker, and none after one that failed.
THEOREM ActsOnceInOrder == Spec => SentOnceInOrder
<1>1. IInv => \A s \in SessionId : \A k \in 1..Len(issued[s]) : issued[s][k].i = k
  BY DEF IInv, SessionsAreRight, SessionIs
<1>2. IInv /\ [Next]_vars => [\A s \in SessionId : rejected[s] => issued'[s] = issued[s]]_vars
  <2>1. SUFFICES ASSUME IInv, [Next]_vars, NEW s \in SessionId, rejected[s]
                 PROVE  issued'[s] = issued[s]
    OBVIOUS
  <2>2. issued \in [SessionId -> Seq(Request)]
    BY <2>1 DEF IInv, Types
  <2>3. ASSUME NEW w \in Worker, Send(w)
        PROVE  issued'[s] = issued[s]
    <3>1. ~rejected[running[w].s] /\ running[w].s \in SessionId
      BY <2>1, <2>3, DeliveryIsRight DEF Send
    <3>2. s # running[w].s
      BY <2>1, <3>1
    <3>3. QED
      BY <2>2, <2>3, <3>1, <3>2 DEF Send
  <2>4. ASSUME NEW w \in Worker, Work(w)
        PROVE  issued'[s] = issued[s]
    BY <2>3, <2>4 DEF Work, Take, RunPlan, TestCancelled, Accepted, Rejected, Speak
  <2>5. CASE Listener \/ TextRequest
    <3>1. (\E tentative, timerOnly \in BOOLEAN : Start(tentative, timerOnly)) => UNCHANGED issued
      BY DEF Start
    <3>2. (\E r, wake, rest \in BOOLEAN, x \in SessionId : Transcript(x, r, wake, rest))
            => UNCHANGED issued
      BY DEF Transcript
    <3>3. Cancel \/ Close \/ (\E inputActive \in BOOLEAN : Tick(inputActive)) => UNCHANGED issued
      BY DEF Cancel, Close, Tick
    <3>4. CASE Listener
      BY <3>1, <3>2, <3>3, <3>4 DEF Listener
    <3>5. CASE TextRequest
      <4>1. \/ \E tentative, timerOnly \in BOOLEAN : Start(tentative, timerOnly)
            \/ \E wake, rest \in BOOLEAN : Transcript(1, TRUE, wake, rest)
            \/ Close \/ \E inputActive \in BOOLEAN : Tick(inputActive)
        BY <3>5 DEF TextRequest
      <4>2. (\E wake, rest \in BOOLEAN : Transcript(1, TRUE, wake, rest)) => UNCHANGED issued
        BY DEF Transcript
      <4>3. QED
        BY <3>1, <3>3, <4>1, <4>2
    <3>6. QED
      BY <2>5, <3>4, <3>5
  <2>6. QED
    BY <2>1, <2>4, <2>5 DEF Next, DeadlinePasses, Closed, vars
<1>3. QED
  BY Invariance, <1>1, <1>2, PTL DEF Spec, SentOnceInOrder

=============================================================================
