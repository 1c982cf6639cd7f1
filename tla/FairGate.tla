------------------------------ MODULE FairGate ------------------------------
(***************************************************************************)
(* FairGate (src/jarvis/scheduling.py): first-come-first-served admission  *)
(* of the server's threads to one shared model, built from a deque of      *)
(* tickets, a busy flag and a condition variable.                          *)
(*                                                                         *)
(* Every access to the deque and the flag holds the condition's lock, and  *)
(* wait() gives it up, so one action is one critical section: from taking  *)
(* the lock to waiting, raising or returning.  A ticket is a fresh object  *)
(* per entry and a thread has one entry at a time, so a ticket is named by *)
(* its thread.  Time is the flag late[t]: the 30 s of thread t are over.   *)
(***************************************************************************)
EXTENDS Integers, Sequences

CONSTANTS Thread,       \* the server threads that use the gate
          Nobody        \* not a thread: the owner of a free gate

ASSUME NobodyAssumption == Nobody \notin Thread

VARIABLES queue,        \* FairGate.queue, the tickets in order of arrival
          busy,         \* FairGate.busy
          pc,           \* where each thread is in __enter__ or __exit__
          late          \* late[t]: the deadline computed by t has passed

vars == <<queue, busy, pc, late>>

(***************************************************************************)
(* idle     outside the gate                                               *)
(* called   in __enter__, the deadline is computed, the lock not yet taken *)
(* parked   in condition.wait, not notified                                *)
(* ready    notified, or its wait timed out: will look at the gate again   *)
(* inside   __enter__ returned: the thread uses the model                  *)
(***************************************************************************)
Location == {"idle", "called", "parked", "ready", "inside"}

Init == /\ queue = <<>>
        /\ busy = FALSE
        /\ pc = [t \in Thread |-> "idle"]
        /\ late = [t \in Thread |-> FALSE]

-----------------------------------------------------------------------------
\* The sequence s without its element at position i.
Drop(s, i) == [j \in 1..(Len(s) - 1) |-> IF j < i THEN s[j] ELSE s[j + 1]]

\* Bug: condition.notify(), which wakes one waiter, and not always the head.
NotifyOneAndGo(t, where) ==
  IF \E s \in Thread : pc[s] = "parked"
  THEN \E s \in Thread : pc[s] = "parked" /\ pc' = [pc EXCEPT ![s] = "ready", ![t] = where]
  ELSE pc' = [pc EXCEPT ![t] = where]

\* condition.notify_all(), then thread t goes to location where.
NotifyAllAndGo(t, where) ==
  pc' = [s \in Thread |-> IF s = t THEN where
                          ELSE IF pc[s] = "parked" THEN "ready" ELSE pc[s]]

\* Bug: "and" for "or" in the loop condition.
MayPassIfEither(t, q) == ~busy \/ q[1] = t

\* The loop condition of __enter__ is false for the holder of ticket t.
MayPass(t, q) == ~busy /\ q[1] = t

\* One round of the loop of __enter__ by thread t, q being the deque.
Pass(t, q) == /\ MayPass(t, q)
              /\ queue' = Drop(q, 1)
              /\ busy' = TRUE
              /\ pc' = [pc EXCEPT ![t] = "inside"]

GiveUp(t, q) == /\ ~MayPass(t, q)
                /\ late[t]
                /\ \E i \in 1..Len(q) : q[i] = t /\ queue' = Drop(q, i)
                /\ NotifyAllAndGo(t, "idle")
                /\ UNCHANGED busy

Wait(t, q) == /\ ~MayPass(t, q)
              /\ ~late[t]
              /\ queue' = q
              /\ pc' = [pc EXCEPT ![t] = "parked"]
              /\ UNCHANGED busy

Look(t, q) == Pass(t, q) \/ GiveUp(t, q) \/ Wait(t, q)

-----------------------------------------------------------------------------
\* __enter__ starts: a new ticket, and the deadline 30 s from now.
Call(t) == /\ pc[t] = "idle"
           /\ pc' = [pc EXCEPT ![t] = "called"]
           /\ late' = [late EXCEPT ![t] = FALSE]
           /\ UNCHANGED <<queue, busy>>

\* Bug: appendleft for append.
JoinAtTheFront(t) == /\ pc[t] = "called"
                     /\ Look(t, <<t>> \o queue)
                     /\ UNCHANGED late

\* The lock is taken for the first time, the ticket queued, the loop entered.
Join(t) == /\ pc[t] = "called"
           /\ Look(t, Append(queue, t))
           /\ UNCHANGED late

\* wait() has returned with the lock: the loop goes round.
LookAgain(t) == /\ pc[t] = "ready"
                /\ Look(t, queue)
                /\ UNCHANGED late

\* Bug: condition.wait() without a timeout.
WaitNeverTimesOut(t) == FALSE

\* condition.wait(remaining) returns because the remaining time is over.
WaitTimesOut(t) == /\ pc[t] = "parked"
                   /\ late[t]
                   /\ pc' = [pc EXCEPT ![t] = "ready"]
                   /\ UNCHANGED <<queue, busy, late>>

\* __exit__, on a normal end of the block and on an exception alike.
Exit(t) == /\ pc[t] = "inside"
           /\ busy' = FALSE
           /\ NotifyAllAndGo(t, "idle")
           /\ UNCHANGED <<queue, late>>

\* The clock reaches the deadline of a thread that is still in __enter__.
DeadlinePasses(t) == /\ pc[t] \in {"called", "parked", "ready"}
                     /\ ~late[t]
                     /\ late' = [late EXCEPT ![t] = TRUE]
                     /\ UNCHANGED <<queue, busy, pc>>

Next == \E t \in Thread : \/ Call(t) \/ Join(t) \/ LookAgain(t)
                          \/ WaitTimesOut(t) \/ Exit(t) \/ DeadlinePasses(t)

Spec == Init /\ [][Next]_vars

(***************************************************************************)
(* A runnable thread is scheduled and a wait with a timeout returns.       *)
(* Nothing forces a caller to come, nor a deadline to pass before the gate *)
(* is free.  SchedulerFairness leaves the holder free to stay inside for   *)
(* ever; HolderFairness says that every inference ends, which the server   *)
(* enforces with inference_deadline (src/jarvis/server.py).                *)
(***************************************************************************)
SchedulerFairness ==
  \A t \in Thread : WF_vars(Join(t)) /\ WF_vars(LookAgain(t)) /\ WF_vars(WaitTimesOut(t))

HolderFairness == \A t \in Thread : WF_vars(Exit(t))

FairSpec == Spec /\ SchedulerFairness

-----------------------------------------------------------------------------
Waiting(t) == pc[t] \in {"parked", "ready"}

\* Type correctness of the gate's state.
TypeOK == /\ queue \in Seq(Thread)
          /\ busy \in BOOLEAN
          /\ pc \in [Thread -> Location]
          /\ late \in [Thread -> BOOLEAN]

\* At most one thread is past __enter__, and busy says whether there is one:
\* popleft, the flag and __exit__ stay in step over every path.
MutualExclusion == /\ \A s, t \in Thread : pc[s] = "inside" /\ pc[t] = "inside" => s = t
                   /\ busy <=> \E t \in Thread : pc[t] = "inside"

\* A ticket is in the deque exactly while its thread waits, and once: a thread
\* that gave up or was admitted leaves nothing behind that would block others.
TicketsOfWaiters ==
  /\ \A t \in Thread : Waiting(t) <=> \E i \in 1..Len(queue) : queue[i] = t
  /\ \A i, j \in 1..Len(queue) : queue[i] = queue[j] => i = j

\* No lost wakeup: while the gate is free, the thread whose turn it is has been
\* notified and is about to look again; it never sleeps on a free gate.
HeadIsAwake == ~busy /\ queue # <<>> => pc[queue[1]] = "ready"

\* First come, first served: a thread enters only when nobody that queued
\* before it is still waiting, a thread that just arrived only when nobody is.
Behind(t) == \E i, j \in 1..Len(queue) : i < j /\ queue[j] = t

NoOvertaking ==
  [][\A t \in Thread : pc[t] # "inside" /\ pc'[t] = "inside"
       => ~Behind(t) /\ (pc[t] = "called" => queue = <<>>)]_vars

\* The thread past __enter__ when the threads are where p says, if there is one.
HolderOf(p) == IF \E t \in Thread : p[t] = "inside"
               THEN CHOOSE t \in Thread : p[t] = "inside"
               ELSE Nobody

Holder == HolderOf(pc)

Fifo == INSTANCE FifoLock WITH Customer <- Thread, line <- queue, owner <- Holder

\* The condition variable, the deadlines and the wakeups implement the plain
\* first-come-first-served lock.
ImplementsFifoLock == Fifo!LockSpec

\* Whoever enters the queue is admitted or told that the server is busy,
\* provided every admitted thread leaves in the end.
EveryCallReturns ==
  HolderFairness => \A t \in Thread : pc[t] = "called" ~> pc[t] \in {"inside", "idle"}

\* "Queue waiting is capped at 30 seconds": after its deadline a thread does
\* not stay in the queue even if the holder never leaves.
WaitIsCapped == \A t \in Thread : Waiting(t) /\ late[t] ~> ~Waiting(t)

=============================================================================
