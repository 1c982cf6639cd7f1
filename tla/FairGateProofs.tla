--------------------------- MODULE FairGateProofs ---------------------------
(***************************************************************************)
(* Theorems about FairGate, for every set of threads.                      *)
(***************************************************************************)
EXTENDS FairGate, TLAPS

\* Dropping an element of a sequence leaves a sequence one shorter, the others
\* in their order.
LEMMA DropProperties ==
  ASSUME NEW S, NEW s \in Seq(S), NEW i \in 1..Len(s)
  PROVE  /\ Drop(s, i) \in Seq(S)
         /\ Len(Drop(s, i)) = Len(s) - 1
         /\ \A j \in 1..(Len(s) - 1) :
              Drop(s, i)[j] = IF j < i THEN s[j] ELSE s[j + 1]
<1>1. Len(s) \in Nat /\ Len(s) - 1 \in Nat
  OBVIOUS
<1>2. \A j \in 1..(Len(s) - 1) : (IF j < i THEN s[j] ELSE s[j + 1]) \in S
  OBVIOUS
<1>3. QED
  BY <1>1, <1>2 DEF Drop

\* Appending keeps the old elements in place and puts the new one last.
LEMMA AppendElements ==
  ASSUME NEW S, NEW s \in Seq(S), NEW e \in S
  PROVE  /\ Append(s, e) \in Seq(S)
         /\ Len(Append(s, e)) = Len(s) + 1
         /\ \A i \in 1..Len(s) : Append(s, e)[i] = s[i]
         /\ Append(s, e)[Len(s) + 1] = e
  OBVIOUS

-----------------------------------------------------------------------------
(***************************************************************************)
(* The inductive invariant.  The lock is exclusive because a thread enters *)
(* only while busy is false; nobody sleeps on a free gate because leaving  *)
(* wakes every waiter, the one at the head among them; and that argument   *)
(* needs the tickets to be exactly those of the waiters.                   *)
(***************************************************************************)
IInv == TypeOK /\ MutualExclusion /\ TicketsOfWaiters /\ HeadIsAwake

\* What thread t relies on when it goes round the loop with deque q: q holds its
\* own ticket and those of the waiters, each once.
LoopEntry(t, q) ==
  /\ q \in Seq(Thread)
  /\ \A s \in Thread : (\E i \in 1..Len(q) : q[i] = s) <=> (s = t \/ Waiting(s))
  /\ \A i, j \in 1..Len(q) : q[i] = q[j] => i = j
  /\ ~busy /\ q[1] # t => pc[q[1]] = "ready"

\* A deque with a ticket in it is not empty, and its head is a thread.
LEMMA HeadOfDeque ==
  ASSUME NEW t \in Thread, NEW q, LoopEntry(t, q)
  PROVE  Len(q) > 0 /\ 1 \in 1..Len(q) /\ q[1] \in Thread
<1>1. PICK i \in 1..Len(q) : q[i] = t
  BY DEF LoopEntry
<1>2. QED
  BY <1>1 DEF LoopEntry

\* Going once round the loop of __enter__ keeps the invariant.
LEMMA LookKeepsIInv ==
  ASSUME IInv, NEW t \in Thread, NEW q,
         pc[t] \in {"called", "ready"},
         LoopEntry(t, q), Look(t, q), UNCHANGED late
  PROVE  IInv'
<1>1. /\ q \in Seq(Thread) /\ Len(q) \in Nat /\ Len(q) > 0 /\ 1 \in 1..Len(q) /\ q[1] \in Thread
      /\ pc \in [Thread -> Location] /\ busy \in BOOLEAN /\ late \in [Thread -> BOOLEAN]
  BY HeadOfDeque DEF LoopEntry, IInv, TypeOK
<1>2. CASE Pass(t, q)
  <2>1. /\ Drop(q, 1) \in Seq(Thread)
        /\ Len(Drop(q, 1)) = Len(q) - 1
        /\ \A j \in 1..(Len(q) - 1) : Drop(q, 1)[j] = q[j + 1]
    BY <1>1, DropProperties
  <2>2. ~busy /\ q[1] = t /\ queue' = Drop(q, 1) /\ busy' = TRUE
        /\ pc' = [pc EXCEPT ![t] = "inside"]
    BY <1>2 DEF Pass, MayPass
  <2>3. TypeOK'
    BY <1>1, <2>1, <2>2 DEF TypeOK, Location
  <2>4. MutualExclusion'
    BY <1>1, <2>2 DEF IInv, MutualExclusion
  <2>5. TicketsOfWaiters'
    <3>1. ASSUME NEW s \in Thread
          PROVE  Waiting(s)' <=> \E i \in 1..Len(queue') : queue'[i] = s
      <4>1. Waiting(s)' <=> s # t /\ Waiting(s)
        BY <1>1, <2>2 DEF Waiting
      <4>2. (\E i \in 1..Len(queue') : queue'[i] = s) <=> \E i \in 2..Len(q) : q[i] = s
        <5>1. ASSUME NEW i \in 1..Len(queue'), queue'[i] = s
              PROVE  i + 1 \in 2..Len(q) /\ q[i + 1] = s
          BY <1>1, <2>1, <2>2, <5>1
        <5>2. ASSUME NEW i \in 2..Len(q), q[i] = s
              PROVE  i - 1 \in 1..Len(queue') /\ queue'[i - 1] = s
          BY <1>1, <2>1, <2>2, <5>2
        <5>3. QED
          BY <5>1, <5>2
      <4>3. (\E i \in 2..Len(q) : q[i] = s) <=> s # t /\ \E i \in 1..Len(q) : q[i] = s
        BY <1>1, <2>2 DEF LoopEntry
      <4>4. QED
        BY <4>1, <4>2, <4>3 DEF LoopEntry
    <3>2. ASSUME NEW i \in 1..Len(queue'), NEW j \in 1..Len(queue'), queue'[i] = queue'[j]
          PROVE  i = j
      BY <1>1, <2>1, <2>2, <3>2 DEF LoopEntry
    <3>3. QED
      BY <3>1, <3>2 DEF TicketsOfWaiters
  <2>6. HeadIsAwake'
    BY <2>2 DEF HeadIsAwake
  <2>7. QED
    BY <2>3, <2>4, <2>5, <2>6 DEF IInv
<1>3. CASE GiveUp(t, q)
  <2>1. PICK k \in 1..Len(q) : q[k] = t /\ queue' = Drop(q, k)
    BY <1>3 DEF GiveUp
  <2>2. /\ Drop(q, k) \in Seq(Thread)
        /\ Len(Drop(q, k)) = Len(q) - 1
        /\ \A j \in 1..(Len(q) - 1) : Drop(q, k)[j] = IF j < k THEN q[j] ELSE q[j + 1]
    BY <1>1, DropProperties
  <2>3. /\ busy \/ q[1] # t
        /\ busy' = busy
        /\ pc' = [s \in Thread |-> IF s = t THEN "idle"
                                   ELSE IF pc[s] = "parked" THEN "ready" ELSE pc[s]]
    BY <1>3 DEF GiveUp, MayPass, NotifyAllAndGo
  <2>4. TypeOK'
    BY <1>1, <2>1, <2>2, <2>3 DEF TypeOK, Location
  <2>5. MutualExclusion'
    BY <1>1, <2>3 DEF IInv, MutualExclusion
  <2>6. TicketsOfWaiters'
    <3>1. ASSUME NEW s \in Thread
          PROVE  Waiting(s)' <=> \E i \in 1..Len(queue') : queue'[i] = s
      <4>1. Waiting(s)' <=> s # t /\ Waiting(s)
        BY <1>1, <2>3 DEF Waiting
      <4>2. (\E i \in 1..Len(queue') : queue'[i] = s)
              <=> \E i \in 1..Len(q) : i # k /\ q[i] = s
        <5>1. ASSUME NEW i \in 1..Len(queue'), queue'[i] = s
              PROVE  \E j \in 1..Len(q) : j # k /\ q[j] = s
          <6>1. CASE i < k
            BY <1>1, <2>1, <2>2, <5>1, <6>1
          <6>2. CASE i >= k
            <7>1. i + 1 \in 1..Len(q) /\ i + 1 # k /\ q[i + 1] = s
              BY <1>1, <2>1, <2>2, <5>1, <6>2
            <7>2. QED
              BY <7>1
          <6>3. QED
            BY <6>1, <6>2, <2>1, <2>2, <1>1
        <5>2. ASSUME NEW i \in 1..Len(q), i # k, q[i] = s
              PROVE  \E j \in 1..Len(queue') : queue'[j] = s
          <6>1. CASE i < k
            <7>1. i \in 1..Len(queue') /\ queue'[i] = s
              BY <1>1, <2>1, <2>2, <5>2, <6>1
            <7>2. QED
              BY <7>1
          <6>2. CASE i > k
            <7>1. i - 1 \in 1..Len(queue') /\ queue'[i - 1] = s
              BY <1>1, <2>1, <2>2, <5>2, <6>2
            <7>2. QED
              BY <7>1
          <6>3. QED
            BY <5>2, <6>1, <6>2, <1>1
        <5>3. QED
          BY <5>1, <5>2
      <4>3. (\E i \in 1..Len(q) : i # k /\ q[i] = s) <=> s # t /\ \E i \in 1..Len(q) : q[i] = s
        BY <1>1, <2>1 DEF LoopEntry
      <4>4. QED
        BY <4>1, <4>2, <4>3 DEF LoopEntry
    <3>2. ASSUME NEW i \in 1..Len(queue'), NEW j \in 1..Len(queue'), queue'[i] = queue'[j]
          PROVE  i = j
      BY <1>1, <2>1, <2>2, <3>2 DEF LoopEntry
    <3>3. QED
      BY <3>1, <3>2 DEF TicketsOfWaiters
  <2>7. HeadIsAwake'
    <3>1. SUFFICES ASSUME ~busy, queue' # <<>>
                   PROVE  pc'[queue'[1]] = "ready"
      BY <2>3 DEF HeadIsAwake
    <3>2. k > 1 /\ q[1] # t /\ pc[q[1]] = "ready"
      BY <1>1, <2>1, <2>3, <3>1 DEF LoopEntry
    <3>3. queue'[1] = q[1]
      BY <1>1, <2>1, <2>2, <3>1, <3>2
    <3>4. QED
      BY <1>1, <2>3, <3>2, <3>3
  <2>8. QED
    BY <2>4, <2>5, <2>6, <2>7 DEF IInv
<1>4. CASE Wait(t, q)
  <2>1. /\ busy \/ q[1] # t
        /\ queue' = q /\ busy' = busy
        /\ pc' = [pc EXCEPT ![t] = "parked"]
    BY <1>4 DEF Wait, MayPass
  <2>2. TypeOK'
    BY <1>1, <2>1 DEF TypeOK, Location
  <2>3. MutualExclusion'
    BY <1>1, <2>1 DEF IInv, MutualExclusion
  <2>4. TicketsOfWaiters'
    BY <1>1, <2>1 DEF TicketsOfWaiters, LoopEntry, Waiting
  <2>5. HeadIsAwake'
    BY <1>1, <2>1 DEF HeadIsAwake, LoopEntry
  <2>6. QED
    BY <2>2, <2>3, <2>4, <2>5 DEF IInv
<1>5. QED
  BY <1>2, <1>3, <1>4 DEF Look

\* The first round of the loop starts with the ticket just appended.
LEMMA JoinEntersLoop ==
  ASSUME IInv, NEW t \in Thread, pc[t] = "called"
  PROVE  LoopEntry(t, Append(queue, t))
<1> DEFINE q == Append(queue, t)
<1>1. /\ q \in Seq(Thread) /\ Len(queue) \in Nat /\ Len(q) = Len(queue) + 1
      /\ \A i \in 1..Len(queue) : q[i] = queue[i]
      /\ q[Len(queue) + 1] = t
  BY AppendElements DEF IInv, TypeOK
<1>2. ~Waiting(t) /\ ~ \E i \in 1..Len(queue) : queue[i] = t
  BY DEF IInv, TicketsOfWaiters, Waiting
<1>3. ASSUME NEW s \in Thread
      PROVE  (\E i \in 1..Len(q) : q[i] = s) <=> (s = t \/ Waiting(s))
  <2>1. (\E i \in 1..Len(q) : q[i] = s) <=> (s = t \/ \E i \in 1..Len(queue) : queue[i] = s)
    <3>1. ASSUME NEW i \in 1..Len(q), q[i] = s
          PROVE  s = t \/ \E k \in 1..Len(queue) : queue[k] = s
      BY <1>1, <3>1
    <3>2. ASSUME NEW i \in 1..Len(queue), queue[i] = s
          PROVE  i \in 1..Len(q) /\ q[i] = s
      BY <1>1, <3>2
    <3>3. Len(q) \in 1..Len(q) /\ q[Len(q)] = t
      BY <1>1
    <3>4. QED
      BY <3>1, <3>2, <3>3
  <2>2. QED
    BY <2>1 DEF IInv, TicketsOfWaiters
<1>4. ASSUME NEW i \in 1..Len(q), NEW j \in 1..Len(q), q[i] = q[j]
      PROVE  i = j
  <2>1. CASE i \in 1..Len(queue) /\ j \in 1..Len(queue)
    BY <1>1, <1>4, <2>1 DEF IInv, TicketsOfWaiters
  <2>2. CASE i = Len(queue) + 1 \/ j = Len(queue) + 1
    BY <1>1, <1>2, <1>4, <2>2
  <2>3. QED
    BY <1>1, <2>1, <2>2
<1>5. ~busy /\ q[1] # t => pc[q[1]] = "ready"
  BY <1>1 DEF IInv, HeadIsAwake
<1>6. QED
  BY <1>1, <1>3, <1>4, <1>5 DEF LoopEntry

\* A later round starts with the deque as it is.
LEMMA LookAgainEntersLoop ==
  ASSUME IInv, NEW t \in Thread, pc[t] = "ready"
  PROVE  LoopEntry(t, queue)
<1>1. Waiting(t) /\ queue # <<>>
  BY DEF IInv, TypeOK, TicketsOfWaiters, Waiting
<1>2. QED
  BY <1>1 DEF IInv, TypeOK, TicketsOfWaiters, HeadIsAwake, LoopEntry

\* Every step of the gate keeps the invariant: one case per action.
LEMMA NextKeepsIInv == IInv /\ [Next]_vars => IInv'
<1> SUFFICES ASSUME IInv, [Next]_vars
             PROVE  IInv'
  OBVIOUS
<1>1. CASE UNCHANGED vars
  BY <1>1 DEF vars, IInv, TypeOK, MutualExclusion, TicketsOfWaiters, HeadIsAwake, Waiting
<1>2. ASSUME NEW t \in Thread, Call(t)
      PROVE  IInv'
  <2>1. TypeOK'
    BY <1>2 DEF IInv, TypeOK, Call, Location
  <2>2. MutualExclusion'
    BY <1>2 DEF IInv, TypeOK, MutualExclusion, Call
  <2>3. TicketsOfWaiters'
    BY <1>2 DEF IInv, TypeOK, TicketsOfWaiters, Waiting, Call
  <2>4. HeadIsAwake'
    <3>1. queue # <<>> => queue[1] \in Thread
      BY DEF IInv, TypeOK
    <3>2. QED
      BY <1>2, <3>1 DEF IInv, TypeOK, HeadIsAwake, Call
  <2>5. QED
    BY <2>1, <2>2, <2>3, <2>4 DEF IInv
<1>3. ASSUME NEW t \in Thread, Join(t)
      PROVE  IInv'
  BY <1>3, JoinEntersLoop, LookKeepsIInv DEF Join
<1>4. ASSUME NEW t \in Thread, LookAgain(t)
      PROVE  IInv'
  BY <1>4, LookAgainEntersLoop, LookKeepsIInv DEF LookAgain
<1>5. ASSUME NEW t \in Thread, WaitTimesOut(t)
      PROVE  IInv'
  <2>1. TypeOK'
    BY <1>5 DEF IInv, TypeOK, WaitTimesOut, Location
  <2>2. MutualExclusion'
    BY <1>5 DEF IInv, TypeOK, MutualExclusion, WaitTimesOut
  <2>3. TicketsOfWaiters'
    BY <1>5 DEF IInv, TypeOK, TicketsOfWaiters, Waiting, WaitTimesOut
  <2>4. HeadIsAwake'
    BY <1>5 DEF IInv, TypeOK, HeadIsAwake, WaitTimesOut
  <2>5. QED
    BY <2>1, <2>2, <2>3, <2>4 DEF IInv
<1>6. ASSUME NEW t \in Thread, Exit(t)
      PROVE  IInv'
  <2>1. TypeOK'
    BY <1>6 DEF IInv, TypeOK, Exit, NotifyAllAndGo, Location
  <2>2. MutualExclusion'
    BY <1>6 DEF IInv, TypeOK, MutualExclusion, Exit, NotifyAllAndGo
  <2>3. TicketsOfWaiters'
    BY <1>6 DEF IInv, TypeOK, TicketsOfWaiters, Waiting, Exit, NotifyAllAndGo
  <2>4. HeadIsAwake'
    <3>1. SUFFICES ASSUME queue # <<>>
                   PROVE  pc'[queue[1]] = "ready"
      BY <1>6 DEF HeadIsAwake, Exit
    <3>2. queue[1] \in Thread /\ Waiting(queue[1])
      BY <3>1 DEF IInv, TypeOK, TicketsOfWaiters
    <3>3. QED
      BY <1>6, <3>2 DEF Exit, NotifyAllAndGo, Waiting
  <2>5. QED
    BY <2>1, <2>2, <2>3, <2>4 DEF IInv
<1>7. ASSUME NEW t \in Thread, DeadlinePasses(t)
      PROVE  IInv'
  BY <1>7 DEF DeadlinePasses, IInv, TypeOK, MutualExclusion, TicketsOfWaiters, HeadIsAwake, Waiting
<1>8. QED
  BY <1>1, <1>2, <1>3, <1>4, <1>5, <1>6, <1>7 DEF Next

\* The gate starts free, with no ticket.
LEMMA InitIInv == Init => IInv
<1> SUFFICES ASSUME Init
             PROVE  IInv
  OBVIOUS
<1>1. TypeOK
  <2>1. queue \in Seq(Thread)
    BY DEF Init
  <2>2. busy \in BOOLEAN
    BY DEF Init
  <2>3. pc \in [Thread -> Location]
    BY DEF Init, Location
  <2>4. late \in [Thread -> BOOLEAN]
    BY DEF Init
  <2>5. QED
    BY <2>1, <2>2, <2>3, <2>4 DEF TypeOK
<1>2. MutualExclusion
  BY DEF Init, MutualExclusion
<1>3. TicketsOfWaiters
  BY DEF Init, TicketsOfWaiters, Waiting
<1>4. HeadIsAwake
  BY DEF Init, HeadIsAwake
<1>5. QED
  BY <1>1, <1>2, <1>3, <1>4 DEF IInv

LEMMA InductiveInvariant == Spec => []IInv
  BY InitIInv, NextKeepsIInv, PTL DEF Spec

\* The variables of the gate keep their types, whatever the number of threads.
THEOREM TypeCorrect == Spec => []TypeOK
  BY InductiveInvariant, PTL DEF IInv

\* At most one thread at a time uses the model behind a FairGate.
THEOREM GateIsExclusive == Spec => []MutualExclusion
  BY InductiveInvariant, PTL DEF IInv

\* The deque holds the tickets of the waiting threads, each once, and no other.
THEOREM NoTicketIsLeftBehind == Spec => []TicketsOfWaiters
  BY InductiveInvariant, PTL DEF IInv

\* The thread whose turn it is never sleeps while the gate is free.
THEOREM NoLostWakeup == Spec => []HeadIsAwake
  BY InductiveInvariant, PTL DEF IInv

\* The step into the gate is taken by the thread whose turn it is.
LEMMA EntersInTurn ==
  ASSUME IInv, [Next]_vars, NEW t \in Thread, pc[t] # "inside", pc'[t] = "inside"
  PROVE  ~Behind(t) /\ (pc[t] = "called" => queue = <<>>)
<1>1. pc \in [Thread -> Location] /\ queue \in Seq(Thread) /\ Len(queue) \in Nat
  BY DEF IInv, TypeOK
<1>2. PICK s \in Thread : Join(s) \/ LookAgain(s)
  BY <1>1 DEF Next, vars, Call, WaitTimesOut, Exit, DeadlinePasses, NotifyAllAndGo
<1>3. ASSUME NEW q, GiveUp(s, q) \/ Wait(s, q)
      PROVE  FALSE
  BY <1>1, <1>3 DEF GiveUp, Wait, NotifyAllAndGo
<1>4. CASE Join(s)
  <2>1. pc[s] = "called" /\ Pass(s, Append(queue, s))
    BY <1>3, <1>4 DEF Join, Look
  <2>2. s = t /\ Append(queue, t)[1] = t
    BY <1>1, <2>1 DEF Pass, MayPass
  <2>3. ~ \E i \in 1..Len(queue) : queue[i] = t
    BY <2>1, <2>2 DEF IInv, TicketsOfWaiters, Waiting
  <2>4. \A i \in 1..Len(queue) : Append(queue, t)[i] = queue[i]
    BY <1>1, AppendElements
  <2>5. QED
    BY <1>1, <2>2, <2>3, <2>4 DEF Behind
<1>5. CASE LookAgain(s)
  <2>1. pc[s] = "ready" /\ Pass(s, queue)
    BY <1>3, <1>5 DEF LookAgain, Look
  <2>2. s = t /\ queue[1] = t
    BY <1>1, <2>1 DEF Pass, MayPass
  <2>3. ASSUME NEW i \in 1..Len(queue), NEW j \in 1..Len(queue), i < j, queue[j] = t
        PROVE  FALSE
    <3>1. 1 \in 1..Len(queue)
      BY <1>1
    <3>2. j = 1
      BY <2>2, <2>3, <3>1 DEF IInv, TicketsOfWaiters
    <3>3. QED
      BY <2>3, <3>2
  <2>4. QED
    BY <2>1, <2>2, <2>3 DEF Behind
<1>6. QED
  BY <1>2, <1>4, <1>5

\* Admission is first come, first served, for every number of threads.
THEOREM AdmissionIsFifo == Spec => NoOvertaking
<1>1. IInv /\ [Next]_vars
        => [\A t \in Thread : pc[t] # "inside" /\ pc'[t] = "inside"
              => ~Behind(t) /\ (pc[t] = "called" => queue = <<>>)]_vars
  BY EntersInTurn
<1>2. QED
  BY <1>1, InductiveInvariant, PTL DEF Spec, NoOvertaking

-----------------------------------------------------------------------------
(***************************************************************************)
(* The gate implements FifoLock: its deque is the line, and the thread     *)
(* past __enter__ is the owner.  Waiting, notifying and the deadlines are  *)
(* stuttering steps.                                                       *)
(***************************************************************************)

\* The holder of the gate is the one thread inside.
LEMMA HolderIsInside ==
  ASSUME NEW p, \A s, t \in Thread : p[s] = "inside" /\ p[t] = "inside" => s = t
  PROVE  /\ HolderOf(p) \in Thread \cup {Nobody}
         /\ HolderOf(p) = Nobody <=> ~ \E t \in Thread : p[t] = "inside"
         /\ \A t \in Thread : HolderOf(p) = t <=> p[t] = "inside"
<1>1. CASE \E t \in Thread : p[t] = "inside"
  <2>1. HolderOf(p) = CHOOSE t \in Thread : p[t] = "inside"
    BY <1>1 DEF HolderOf
  <2>2. HolderOf(p) \in Thread /\ p[HolderOf(p)] = "inside"
    BY <1>1, <2>1
  <2>3. QED
    BY <1>1, <2>2, NobodyAssumption
<1>2. CASE ~ \E t \in Thread : p[t] = "inside"
  BY <1>2, NobodyAssumption DEF HolderOf
<1>3. QED
  BY <1>1, <1>2

\* One round of the loop of a thread outside the gate is a step of the lock.
LEMMA LookIsALockStep ==
  ASSUME IInv, IInv', NEW t \in Thread, NEW q,
         \/ pc[t] = "called" /\ q = Append(queue, t)
         \/ pc[t] = "ready" /\ q = queue,
         Look(t, q)
  PROVE  [Fifo!LockNext]_<<queue, Holder>>
<1>1. /\ Holder = Nobody <=> ~busy
      /\ \A s \in Thread : Holder = s <=> pc[s] = "inside"
      /\ Holder' = Nobody <=> ~busy'
      /\ \A s \in Thread : Holder' = s <=> pc'[s] = "inside"
  <2>1. MutualExclusion /\ MutualExclusion'
    BY DEF IInv
  <2>2. QED
    BY <2>1, HolderIsInside DEF MutualExclusion, Holder
<1>2. /\ queue \in Seq(Thread) /\ Len(queue) \in Nat /\ pc \in [Thread -> Location]
      /\ busy \in BOOLEAN /\ Holder \in Thread \cup {Nobody} /\ Holder' \in Thread \cup {Nobody}
  BY HolderIsInside DEF IInv, TypeOK, MutualExclusion, Holder
<1>3. CASE pc[t] = "called" /\ q = Append(queue, t)
  <2>1. /\ q \in Seq(Thread) /\ Len(q) = Len(queue) + 1
        /\ \A i \in 1..Len(queue) : q[i] = queue[i]
        /\ q[Len(queue) + 1] = t
    BY <1>2, <1>3, AppendElements
  <2>2. ~Fifo!Queued(t) /\ Holder # t
    BY <1>1, <1>3 DEF Fifo!Queued, IInv, TicketsOfWaiters, Waiting
  <2>3. CASE Pass(t, q)
    <3>1. ~busy /\ q[1] = t /\ queue' = Drop(q, 1) /\ pc' = [pc EXCEPT ![t] = "inside"]
      BY <2>3 DEF Pass, MayPass
    <3>2. queue = <<>>
      <4>1. SUFFICES ASSUME Len(queue) > 0
                     PROVE  FALSE
        BY <1>2
      <4>2. 1 \in 1..Len(queue) /\ queue[1] = t
        BY <1>2, <2>1, <3>1, <4>1
      <4>3. QED
        BY <2>2, <4>2 DEF Fifo!Queued
    <3>3. queue' = queue
      BY <1>2, <2>1, <3>1, <3>2 DEF Drop
    <3>4. Holder = Nobody /\ Holder' = t
      BY <1>1, <1>2, <3>1
    <3>5. Fifo!ServedOnArrival(t)
      BY <2>2, <3>2, <3>3, <3>4 DEF Fifo!ServedOnArrival
    <3>6. QED
      BY <3>5 DEF Fifo!LockNext
  <2>4. CASE GiveUp(t, q)
    <3>1. PICK k \in 1..Len(q) : q[k] = t /\ queue' = Drop(q, k)
      BY <2>4 DEF GiveUp
    <3>2. k = Len(queue) + 1
      BY <1>2, <2>1, <2>2, <3>1 DEF Fifo!Queued
    <3>3. /\ Drop(q, k) \in Seq(Thread) /\ Len(Drop(q, k)) = Len(queue)
          /\ \A i \in 1..Len(queue) : Drop(q, k)[i] = queue[i]
      <4>1. /\ Drop(q, k) \in Seq(Thread) /\ Len(Drop(q, k)) = Len(q) - 1
            /\ \A i \in 1..(Len(q) - 1) : Drop(q, k)[i] = IF i < k THEN q[i] ELSE q[i + 1]
        BY <2>1, DropProperties
      <4>2. QED
        BY <1>2, <2>1, <3>2, <4>1
    <3>4. queue' = queue
      BY <1>2, <3>1, <3>3
    <3>5. \A s \in Thread : pc'[s] = "inside" <=> pc[s] = "inside"
      BY <1>2, <1>3, <2>4 DEF GiveUp, NotifyAllAndGo
    <3>6. Holder' = Holder
      BY <1>1, <1>2, <2>4, <3>5 DEF GiveUp
    <3>7. QED
      BY <3>4, <3>6
  <2>5. CASE Wait(t, q)
    <3>1. /\ busy \/ q[1] # t
          /\ queue' = Append(queue, t) /\ busy' = busy
          /\ pc' = [pc EXCEPT ![t] = "parked"]
      BY <1>3, <2>5 DEF Wait, MayPass
    <3>2. queue # <<>> \/ Holder # Nobody
      BY <1>1, <1>2, <2>1, <3>1
    <3>3. \A s \in Thread : pc'[s] = "inside" <=> pc[s] = "inside"
      BY <1>2, <1>3, <3>1
    <3>4. Holder' = Holder
      BY <1>1, <1>2, <3>1, <3>3
    <3>5. Fifo!JoinLine(t)
      BY <2>2, <3>1, <3>2, <3>4 DEF Fifo!JoinLine
    <3>6. QED
      BY <3>5 DEF Fifo!LockNext
  <2>6. QED
    BY <2>3, <2>4, <2>5 DEF Look
<1>4. CASE pc[t] = "ready" /\ q = queue
  <2>1. queue # <<>> /\ Holder # t
    BY <1>1, <1>2, <1>4 DEF IInv, TicketsOfWaiters, Waiting
  <2>2. CASE Pass(t, q)
    <3>1. ~busy /\ queue[1] = t /\ queue' = Drop(queue, 1) /\ pc' = [pc EXCEPT ![t] = "inside"]
      BY <1>4, <2>2 DEF Pass, MayPass
    <3>2. Holder = Nobody /\ Holder' = t
      BY <1>1, <1>2, <3>1
    <3>3. Fifo!Serve(t)
      BY <2>1, <3>1, <3>2 DEF Fifo!Serve, Fifo!Drop, Drop
    <3>4. QED
      BY <3>3 DEF Fifo!LockNext
  <2>3. CASE GiveUp(t, q)
    <3>1. PICK k \in 1..Len(queue) : queue[k] = t /\ queue' = Drop(queue, k)
      BY <1>4, <2>3 DEF GiveUp
    <3>2. k > 1 \/ Holder # Nobody
      BY <1>1, <1>2, <1>4, <2>3, <3>1 DEF GiveUp, MayPass
    <3>3. \A s \in Thread : pc'[s] = "inside" <=> pc[s] = "inside"
      BY <1>2, <1>4, <2>3 DEF GiveUp, NotifyAllAndGo
    <3>4. Holder' = Holder
      BY <1>1, <1>2, <2>3, <3>3 DEF GiveUp
    <3>5. Fifo!Leave(t)
      BY <3>1, <3>2, <3>4 DEF Fifo!Leave, Fifo!Drop, Drop
    <3>6. QED
      BY <3>5 DEF Fifo!LockNext
  <2>4. CASE Wait(t, q)
    <3>1. \A s \in Thread : pc'[s] = "inside" <=> pc[s] = "inside"
      BY <1>2, <1>4, <2>4 DEF Wait
    <3>2. Holder' = Holder
      BY <1>1, <1>2, <2>4, <3>1 DEF Wait
    <3>3. QED
      BY <1>4, <2>4, <3>2 DEF Wait
  <2>5. QED
    BY <2>2, <2>3, <2>4 DEF Look
<1>5. QED
  BY <1>3, <1>4

\* Every step of the gate is a step of the lock or leaves it as it is.
LEMMA NextIsALockStep ==
  IInv /\ IInv' /\ [Next]_vars => [Fifo!LockNext]_<<queue, Holder>>
<1> SUFFICES ASSUME IInv, IInv', [Next]_vars
             PROVE  [Fifo!LockNext]_<<queue, Holder>>
  OBVIOUS
<1>1. /\ Holder = Nobody <=> ~busy
      /\ \A s \in Thread : Holder = s <=> pc[s] = "inside"
      /\ Holder' = Nobody <=> ~busy'
      /\ \A s \in Thread : Holder' = s <=> pc'[s] = "inside"
  <2>1. MutualExclusion /\ MutualExclusion'
    BY DEF IInv
  <2>2. QED
    BY <2>1, HolderIsInside DEF MutualExclusion, Holder
<1>2. pc \in [Thread -> Location] /\ Holder \in Thread \cup {Nobody} /\ Holder' \in Thread \cup {Nobody}
  BY HolderIsInside DEF IInv, TypeOK, MutualExclusion, Holder
<1>3. ASSUME queue' = queue, \A s \in Thread : pc'[s] = "inside" <=> pc[s] = "inside"
      PROVE  [Fifo!LockNext]_<<queue, Holder>>
  BY <1>1, <1>2, <1>3
<1>4. CASE UNCHANGED vars
  BY <1>3, <1>4 DEF vars
<1>5. ASSUME NEW t \in Thread, Call(t)
      PROVE  [Fifo!LockNext]_<<queue, Holder>>
  BY <1>2, <1>3, <1>5 DEF Call
<1>6. ASSUME NEW t \in Thread, Join(t)
      PROVE  [Fifo!LockNext]_<<queue, Holder>>
  BY <1>6, LookIsALockStep DEF Join
<1>7. ASSUME NEW t \in Thread, LookAgain(t)
      PROVE  [Fifo!LockNext]_<<queue, Holder>>
  BY <1>7, LookIsALockStep DEF LookAgain
<1>8. ASSUME NEW t \in Thread, WaitTimesOut(t)
      PROVE  [Fifo!LockNext]_<<queue, Holder>>
  BY <1>2, <1>3, <1>8 DEF WaitTimesOut
<1>9. ASSUME NEW t \in Thread, Exit(t)
      PROVE  [Fifo!LockNext]_<<queue, Holder>>
  <2>1. Holder = t /\ Holder' = Nobody /\ queue' = queue
    BY <1>1, <1>9 DEF Exit
  <2>2. Fifo!Free(t)
    BY <2>1 DEF Fifo!Free
  <2>3. QED
    BY <2>2 DEF Fifo!LockNext
<1>10. ASSUME NEW t \in Thread, DeadlinePasses(t)
       PROVE  [Fifo!LockNext]_<<queue, Holder>>
  BY <1>3, <1>10 DEF DeadlinePasses
<1>11. QED
  BY <1>4, <1>5, <1>6, <1>7, <1>8, <1>9, <1>10 DEF Next

\* The gate with its condition variable and deadlines implements the plain
\* first-come-first-served lock, for every set of threads.
THEOREM GateIsAFifoLock == Spec => ImplementsFifoLock
<1>1. Init => Fifo!LockInit
  <2> SUFFICES ASSUME Init
               PROVE  Fifo!LockInit
    OBVIOUS
  <2>1. ~ \E t \in Thread : pc[t] = "inside"
    BY DEF Init
  <2>2. Holder = Nobody
    BY <2>1 DEF Holder, HolderOf
  <2>3. queue = <<>>
    BY DEF Init
  <2>4. QED
    BY <2>2, <2>3 DEF Fifo!LockInit
<1>2. QED
  BY <1>1, InductiveInvariant, NextIsALockStep, PTL DEF Spec, ImplementsFifoLock, Fifo!LockSpec, Fifo!lockVars

=============================================================================
