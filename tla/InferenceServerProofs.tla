----------------------- MODULE InferenceServerProofs -----------------------
(***************************************************************************)
(* Theorems about InferenceServer, for every set of connections, every     *)
(* number of slots and of model calls.                                     *)
(***************************************************************************)
EXTENDS InferenceServer, FiniteSetTheorems, TLAPS

Handler == [at : Location, job : Job, left : 0..(MaxCalls + 1), active : BOOLEAN]

Gated == {"logWait", "model", "logModel", "logRaised"}

\* Where a message still needs a model call.
Needing == Gated \cup {"ask", "wait", "ttsStart"}

(***************************************************************************)
(* The inductive invariant.  A gate agrees with the threads if its holder  *)
(* is the one that is in it and its line has those that wait for it, each  *)
(* once: otherwise one that gives up would remain in the line.             *)
(***************************************************************************)
GateAgrees(line, holder, in, waiting) ==
  /\ line \in Seq(Conn) /\ holder \in Conn \cup {Nobody}
  /\ \A c \in Conn : holder = c <=> c \in in
  /\ \A c \in Conn : (\E i \in 1..Len(line) : line[i] = c) <=> c \in waiting
  /\ \A i, j \in 1..Len(line) : line[i] = line[j] => i = j

GpuIn == {c \in Conn : thread[c].at \in Gated /\ thread[c].job # "plan"}
GpuWaiting == {c \in Conn : thread[c].at = "wait" /\ thread[c].job # "plan"}
NeedleIn == {c \in Conn : thread[c].at \in Gated /\ thread[c].job = "plan"}
NeedleWaiting == {c \in Conn : thread[c].at = "wait" /\ thread[c].job = "plan"}
AcceptedSet == {c \in Conn : thread[c].at \notin {"off", "refused"}}

Types == /\ thread \in [Conn -> Handler]
         /\ gone \in [Conn -> BOOLEAN]
         /\ watched \in [Conn -> BOOLEAN]

\* There may be any number of clients, but only so many are accepted.
SlotsCount == /\ slots \in Nat
              /\ IsFiniteSet(AcceptedSet)
              /\ slots + Cardinality(AcceptedSet) = MaxConnections

GpuAgrees == GateAgrees(gpuLine, gpuHolder, GpuIn, GpuWaiting)
NeedleAgrees == GateAgrees(needleLine, needleHolder, NeedleIn, NeedleWaiting)

WatchesCalls == \A c \in Conn : watched[c] => thread[c].at \in Gated /\ thread[c].job # "start"

CallsAreLeft == \A c \in Conn : thread[c].at \in Needing => thread[c].left > 0

IInv == /\ Types /\ SlotsCount /\ GpuAgrees /\ NeedleAgrees
        /\ WatchesCalls /\ CallsAreLeft

-----------------------------------------------------------------------------
(* The steps of a gate.                                                    *)

Without(s, i) == [j \in 1..(Len(s) - 1) |-> IF j < i THEN s[j] ELSE s[j + 1]]

\* S with c or without it.
Put(S, c, b) == IF b THEN S \cup {c} ELSE S \ {c}

LEMMA WithoutElements ==
  ASSUME NEW S, NEW s \in Seq(S), NEW i \in 1..Len(s)
  PROVE  /\ Without(s, i) \in Seq(S)
         /\ Len(Without(s, i)) = Len(s) - 1 /\ Len(s) \in Nat
         /\ \A j \in 1..(Len(s) - 1) : Without(s, i)[j] = IF j < i THEN s[j] ELSE s[j + 1]
<1>1. Len(s) \in Nat /\ Len(s) - 1 \in Nat
  OBVIOUS
<1>2. \A j \in 1..(Len(s) - 1) : (IF j < i THEN s[j] ELSE s[j + 1]) \in S
  OBVIOUS
<1>3. QED
  BY <1>1, <1>2 DEF Without

LEMMA AppendElements ==
  ASSUME NEW S, NEW s \in Seq(S), NEW e \in S
  PROVE  /\ Append(s, e) \in Seq(S)
         /\ Len(Append(s, e)) = Len(s) + 1 /\ Len(s) \in Nat
         /\ \A i \in 1..Len(s) : Append(s, e)[i] = s[i]
         /\ Append(s, e)[Len(s) + 1] = e
  OBVIOUS

\* A line in which everybody is once, without one of them, has the others.
LEMMA WithoutOne ==
  ASSUME NEW s \in Seq(Conn), NEW i \in 1..Len(s), NEW c \in Conn, s[i] = c,
         \A j, k \in 1..Len(s) : s[j] = s[k] => j = k
  PROVE  /\ Without(s, i) \in Seq(Conn)
         /\ \A d \in Conn : (\E j \in 1..Len(Without(s, i)) : Without(s, i)[j] = d)
                              <=> (d # c /\ \E j \in 1..Len(s) : s[j] = d)
         /\ \A j, k \in 1..Len(Without(s, i)) : Without(s, i)[j] = Without(s, i)[k] => j = k
<1> DEFINE w == Without(s, i)
<1>1. /\ w \in Seq(Conn) /\ Len(w) = Len(s) - 1 /\ Len(s) \in Nat
      /\ \A j \in 1..(Len(s) - 1) : w[j] = IF j < i THEN s[j] ELSE s[j + 1]
  BY WithoutElements
<1> HIDE DEF w
<1>2. ASSUME NEW d \in Conn, NEW j \in 1..Len(w), w[j] = d
      PROVE  d # c /\ \E k \in 1..Len(s) : s[k] = d
  <2>1. CASE j < i
    <3>1. j \in 1..Len(s) /\ s[j] = d /\ j # i
      BY <1>1, <1>2, <2>1
    <3>2. QED
      BY <3>1
  <2>2. CASE ~(j < i)
    <3>1. j + 1 \in 1..Len(s) /\ s[j + 1] = d /\ j + 1 # i
      BY <1>1, <1>2, <2>2
    <3>2. QED
      BY <3>1
  <2>3. QED
    BY <2>1, <2>2
<1>3. ASSUME NEW d \in Conn, d # c, NEW k \in 1..Len(s), s[k] = d
      PROVE  \E j \in 1..Len(w) : w[j] = d
  <2>1. CASE k < i
    <3>1. k \in 1..Len(w) /\ w[k] = d
      BY <1>1, <1>3, <2>1
    <3>2. QED
      BY <3>1
  <2>2. CASE k > i
    <3>1. k - 1 \in 1..Len(w) /\ ~(k - 1 < i) /\ (k - 1) + 1 = k
      BY <1>1, <2>2
    <3>2. w[k - 1] = d
      BY <1>1, <1>3, <3>1
    <3>3. QED
      BY <3>1, <3>2
  <2>3. QED
    BY <1>3, <2>1, <2>2
<1>4. ASSUME NEW j \in 1..Len(w), NEW k \in 1..Len(w), w[j] = w[k]
      PROVE  j = k
  <2> DEFINE old(n) == IF n < i THEN n ELSE n + 1
  <2>1. old(j) \in 1..Len(s) /\ w[j] = s[old(j)]
    BY <1>1
  <2>2. old(k) \in 1..Len(s) /\ w[k] = s[old(k)]
    BY <1>1
  <2>3. old(j) = old(k)
    BY <1>4, <2>1, <2>2
  <2>4. QED
    BY <1>1, <2>3
<1>5. QED
  BY <1>1, <1>2, <1>3, <1>4 DEF w

\* The gate's own steps keep it in agreement with the threads.
LEMMA GateServes ==
  ASSUME NEW l, NEW in, NEW waiting, NEW c \in Conn,
         GateAgrees(l, Nobody, in, waiting), l = <<>>
  PROVE  GateAgrees(l, c, Put(in, c, TRUE), Put(waiting, c, FALSE))
<1>1. Len(l) = 0
  OBVIOUS
<1>2. \A d \in Conn : d \notin in /\ d \notin waiting
  BY <1>1, ServerAssumption DEF GateAgrees
<1>3. QED
  BY <1>1, <1>2 DEF GateAgrees, Put

LEMMA GateJoined ==
  ASSUME NEW l, NEW h, NEW in, NEW waiting, NEW c \in Conn,
         GateAgrees(l, h, in, waiting), h # c, ~ \E i \in 1..Len(l) : l[i] = c
  PROVE  GateAgrees(Append(l, c), h, Put(in, c, FALSE), Put(waiting, c, TRUE))
<1> DEFINE a == Append(l, c)
<1>1. /\ a \in Seq(Conn) /\ Len(a) = Len(l) + 1 /\ Len(l) \in Nat
      /\ \A i \in 1..Len(l) : a[i] = l[i]
      /\ a[Len(l) + 1] = c
  BY AppendElements DEF GateAgrees
<1> HIDE DEF a
<1>2. \A i \in 1..Len(a) : i \in 1..Len(l) \/ i = Len(l) + 1
  BY <1>1
<1>3. \A i \in 1..Len(l) : i \in 1..Len(a)
  BY <1>1
<1>4. Len(l) + 1 \in 1..Len(a)
  BY <1>1
<1>5. \A d \in Conn : (\E i \in 1..Len(a) : a[i] = d) <=> (d = c \/ \E i \in 1..Len(l) : l[i] = d)
  BY <1>1, <1>2, <1>3, <1>4
<1>6. \A i, j \in 1..Len(a) : a[i] = a[j] => i = j
  <2>1. SUFFICES ASSUME NEW i \in 1..Len(a), NEW j \in 1..Len(a), a[i] = a[j]
                 PROVE  i = j
    OBVIOUS
  <2>2. CASE i \in 1..Len(l) /\ j \in 1..Len(l)
    BY <1>1, <2>1, <2>2 DEF GateAgrees
  <2>3. CASE i = Len(l) + 1 /\ j \in 1..Len(l)
    BY <1>1, <2>1, <2>3
  <2>4. CASE i \in 1..Len(l) /\ j = Len(l) + 1
    BY <1>1, <2>1, <2>4
  <2>5. QED
    BY <1>2, <2>2, <2>3, <2>4
<1>7. /\ h \in Conn \cup {Nobody}
      /\ \A d \in Conn : h = d <=> d \in Put(in, c, FALSE)
      /\ \A d \in Conn : (\E i \in 1..Len(l) : l[i] = d) <=> d \in waiting
  BY DEF GateAgrees, Put
<1>8. \A d \in Conn : (\E i \in 1..Len(a) : a[i] = d) <=> d \in Put(waiting, c, TRUE)
  BY <1>5, <1>7 DEF Put
<1>9. QED
  BY <1>1, <1>6, <1>7, <1>8 DEF GateAgrees, a

\* One in the line is served, or leaves it.
LEMMA GateDropped ==
  ASSUME NEW l, NEW h, NEW new, NEW in, NEW waiting, NEW c \in Conn,
         GateAgrees(l, h, in, waiting), NEW i \in 1..Len(l), l[i] = c, c \notin in,
         \/ h = Nobody /\ new = c
         \/ new = h
  PROVE  GateAgrees(Without(l, i), new, Put(in, c, new = c), Put(waiting, c, FALSE))
<1>1. /\ Without(l, i) \in Seq(Conn)
      /\ \A d \in Conn : (\E j \in 1..Len(Without(l, i)) : Without(l, i)[j] = d)
                           <=> (d # c /\ \E j \in 1..Len(l) : l[j] = d)
      /\ \A j, k \in 1..Len(Without(l, i)) : Without(l, i)[j] = Without(l, i)[k] => j = k
  <2>1. l \in Seq(Conn) /\ \A j, k \in 1..Len(l) : l[j] = l[k] => j = k
    BY DEF GateAgrees
  <2>2. QED
    BY <2>1, WithoutOne
<1>2. /\ h \in Conn \cup {Nobody} /\ \A d \in Conn : h = d <=> d \in in
      /\ \A d \in Conn : (\E j \in 1..Len(l) : l[j] = d) <=> d \in waiting
  BY DEF GateAgrees
<1>3. new \in Conn \cup {Nobody} /\ \A d \in Conn : new = d <=> d \in Put(in, c, new = c)
  BY <1>2, ServerAssumption DEF Put
<1>4. \A d \in Conn : (\E j \in 1..Len(Without(l, i)) : Without(l, i)[j] = d) <=> d \in Put(waiting, c, FALSE)
  BY <1>1, <1>2 DEF Put
<1>5. QED
  BY <1>1, <1>3, <1>4 DEF GateAgrees

LEMMA GateFreed ==
  ASSUME NEW l, NEW in, NEW waiting, NEW c \in Conn,
         GateAgrees(l, c, in, waiting), c \notin waiting
  PROVE  GateAgrees(l, Nobody, Put(in, c, FALSE), Put(waiting, c, FALSE))
  BY ServerAssumption DEF GateAgrees, Put

-----------------------------------------------------------------------------
(* The threads: one step moves one of them.                                *)

Moves(c, t) == t \in Handler /\ thread' = [thread EXCEPT ![c] = t]

\* The connection c keeps its slot, or takes a free one, or gives its own back.
SlotKept(c, t) ==
  LET holds == thread[c].at \notin {"off", "refused"}
      keeps == t.at \notin {"off", "refused"}
  IN \/ keeps = holds /\ slots' = slots
     \/ ~holds /\ keeps /\ slots > 0 /\ slots' = slots - 1
     \/ holds /\ ~keeps /\ slots' = slots + 1

LEMMA SlotsMove ==
  ASSUME Types, SlotsCount, NEW c \in Conn, NEW t, Moves(c, t), SlotKept(c, t)
  PROVE  SlotsCount'
<1> DEFINE keeps == t.at \notin {"off", "refused"}
<1>1. AcceptedSet' = Put(AcceptedSet, c, keeps)
  BY DEF Types, AcceptedSet, Moves, Put
<1>2. c \in AcceptedSet <=> thread[c].at \notin {"off", "refused"}
  BY DEF AcceptedSet
<1>3. slots \in Nat /\ MaxConnections \in Nat /\ IsFiniteSet(AcceptedSet)
      /\ slots + Cardinality(AcceptedSet) = MaxConnections
  BY ServerAssumption DEF SlotsCount
<1>4. Cardinality(AcceptedSet) \in Nat
  BY <1>3, FS_CardinalityType
<1>5. CASE keeps = (thread[c].at \notin {"off", "refused"}) /\ slots' = slots
  <2>1. AcceptedSet' = AcceptedSet
    BY <1>1, <1>2, <1>5 DEF Put
  <2>2. QED
    BY <1>3, <1>5, <2>1 DEF SlotsCount
<1>6. CASE thread[c].at \in {"off", "refused"} /\ keeps /\ slots > 0 /\ slots' = slots - 1
  <2>1. AcceptedSet' = AcceptedSet \cup {c} /\ c \notin AcceptedSet
    BY <1>1, <1>2, <1>6 DEF Put
  <2>2. IsFiniteSet(AcceptedSet') /\ Cardinality(AcceptedSet') = Cardinality(AcceptedSet) + 1
    BY <1>3, <2>1, FS_AddElement
  <2>3. slots' \in Nat /\ slots' + Cardinality(AcceptedSet') = MaxConnections
    BY <1>3, <1>4, <1>6, <2>2
  <2>4. QED
    BY <2>2, <2>3 DEF SlotsCount
<1>7. CASE thread[c].at \notin {"off", "refused"} /\ ~keeps /\ slots' = slots + 1
  <2>1. AcceptedSet' = AcceptedSet \ {c} /\ c \in AcceptedSet
    BY <1>1, <1>2, <1>7 DEF Put
  <2>2. IsFiniteSet(AcceptedSet') /\ Cardinality(AcceptedSet') = Cardinality(AcceptedSet) - 1
    BY <1>3, <2>1, FS_RemoveElement
  <2>3. slots' \in Nat /\ slots' + Cardinality(AcceptedSet') = MaxConnections
    BY <1>3, <1>4, <1>7, <2>2
  <2>4. QED
    BY <2>2, <2>3 DEF SlotsCount
<1>8. QED
  BY <1>5, <1>6, <1>7 DEF SlotKept

\* A step of a thread that concerns no gate.
LEMMA GatesStay ==
  ASSUME Types, GpuAgrees, NeedleAgrees, NEW c \in Conn, NEW t, Moves(c, t),
         UNCHANGED gates,
         t.at \in Gated <=> thread[c].at \in Gated,
         t.at = "wait" <=> thread[c].at = "wait",
         t.at \in Gated \cup {"wait"} => t.job = thread[c].job
  PROVE  GpuAgrees' /\ NeedleAgrees'
<1>1. /\ GpuIn' = GpuIn /\ GpuWaiting' = GpuWaiting
      /\ NeedleIn' = NeedleIn /\ NeedleWaiting' = NeedleWaiting
  BY DEF Types, Moves, GpuIn, GpuWaiting, NeedleIn, NeedleWaiting
<1>2. QED
  BY <1>1 DEF gates, GpuAgrees, NeedleAgrees, GateAgrees

\* A step of the gate that the job of c uses.
LEMMA GateMoves ==
  ASSUME Types, GpuAgrees, NeedleAgrees, NEW c \in Conn, NEW t, Moves(c, t),
         t.job = thread[c].job,
         GateStep(c,
           GateAgrees(needleLine', needleHolder', Put(NeedleIn, c, t.at \in Gated),
                      Put(NeedleWaiting, c, t.at = "wait")),
           GateAgrees(gpuLine', gpuHolder', Put(GpuIn, c, t.at \in Gated),
                      Put(GpuWaiting, c, t.at = "wait")))
  PROVE  GpuAgrees' /\ NeedleAgrees'
<1>1. CASE UsesNeedle(c)
  <2>1. GpuIn' = GpuIn /\ GpuWaiting' = GpuWaiting
    BY <1>1 DEF Types, Moves, GpuIn, GpuWaiting, UsesNeedle
  <2>2. /\ NeedleIn' = Put(NeedleIn, c, t.at \in Gated)
        /\ NeedleWaiting' = Put(NeedleWaiting, c, t.at = "wait")
    BY <1>1 DEF Types, Moves, NeedleIn, NeedleWaiting, UsesNeedle, Put
  <2>3. GpuAgrees'
    BY <1>1, <2>1 DEF GateStep, GpuAgrees, GateAgrees
  <2>4. NeedleAgrees'
    BY <1>1, <2>2 DEF GateStep, NeedleAgrees
  <2>5. QED
    BY <2>3, <2>4
<1>2. CASE ~UsesNeedle(c)
  <2>1. NeedleIn' = NeedleIn /\ NeedleWaiting' = NeedleWaiting
    BY <1>2 DEF Types, Moves, NeedleIn, NeedleWaiting, UsesNeedle
  <2>2. /\ GpuIn' = Put(GpuIn, c, t.at \in Gated)
        /\ GpuWaiting' = Put(GpuWaiting, c, t.at = "wait")
    BY <1>2 DEF Types, Moves, GpuIn, GpuWaiting, UsesNeedle, Put
  <2>3. NeedleAgrees'
    BY <1>2, <2>1 DEF GateStep, NeedleAgrees, GateAgrees
  <2>4. GpuAgrees'
    BY <1>2, <2>2 DEF GateStep, GpuAgrees
  <2>5. QED
    BY <2>3, <2>4
<1>3. QED
  BY <1>1, <1>2

\* The deadline of c is as it was, or stopped, or started for its call.
WatchKept(c, t) ==
  \/ watched' = watched
  \/ watched' = [watched EXCEPT ![c] = FALSE]
  \/ watched' = [watched EXCEPT ![c] = t.job # "start"] /\ t.at \in Gated

LEMMA ThreadMoves ==
  ASSUME Types, WatchesCalls, CallsAreLeft, NEW c \in Conn, NEW t, Moves(c, t),
         gone' \in [Conn -> BOOLEAN], WatchKept(c, t),
         watched[c] /\ watched' = watched => t.at \in Gated /\ t.job = thread[c].job,
         t.at \in Needing => t.left > 0
  PROVE  Types' /\ WatchesCalls' /\ CallsAreLeft'
<1>1. thread' \in [Conn -> Handler] /\ \A d \in Conn : thread'[d] = IF d = c THEN t ELSE thread[d]
  BY DEF Types, Moves
<1>2. watched' \in [Conn -> BOOLEAN]
  <2>1. (t.job # "start") \in BOOLEAN
    OBVIOUS
  <2>2. QED
    BY <2>1 DEF Types, WatchKept
<1>3. \A d \in Conn : watched'[d] => thread'[d].at \in Gated /\ thread'[d].job # "start"
  <2>1. SUFFICES ASSUME NEW d \in Conn, watched'[d]
                 PROVE  thread'[d].at \in Gated /\ thread'[d].job # "start"
    OBVIOUS
  <2>2. CASE d # c
    <3>1. watched'[d] = watched[d]
      BY <2>2 DEF Types, WatchKept
    <3>2. QED
      BY <1>1, <2>1, <2>2, <3>1 DEF WatchesCalls
  <2>3. CASE d = c
    <3>1. CASE watched' = watched
      BY <1>1, <2>1, <2>3, <3>1 DEF WatchesCalls
    <3>2. CASE watched' = [watched EXCEPT ![c] = FALSE]
      BY <2>1, <2>3, <3>2 DEF Types
    <3>3. CASE watched' = [watched EXCEPT ![c] = t.job # "start"] /\ t.at \in Gated
      BY <1>1, <2>1, <2>3, <3>3 DEF Types
    <3>4. QED
      BY <3>1, <3>2, <3>3 DEF WatchKept
  <2>4. QED
    BY <2>2, <2>3
<1>4. \A d \in Conn : thread'[d].at \in Needing => thread'[d].left > 0
  BY <1>1 DEF CallsAreLeft
<1>5. QED
  BY <1>1, <1>2, <1>3, <1>4 DEF Types, WatchesCalls, CallsAreLeft

\* A step outside the gates, or from one point inside to another.
LEMMA OutsideKeepsIInv ==
  ASSUME IInv, NEW c \in Conn, NEW t, Moves(c, t), SlotKept(c, t), WatchKept(c, t),
         gone' \in [Conn -> BOOLEAN], UNCHANGED gates,
         t.at \in Gated <=> thread[c].at \in Gated,
         t.at = "wait" <=> thread[c].at = "wait",
         t.at \in Gated \cup {"wait"} => t.job = thread[c].job,
         t.at \in Needing => t.left > 0
  PROVE  IInv'
<1>1. SlotsCount'
  BY SlotsMove DEF IInv
<1>2. GpuAgrees' /\ NeedleAgrees'
  BY GatesStay DEF IInv
<1>3. watched[c] => t.at \in Gated /\ t.job = thread[c].job
  BY DEF IInv, WatchesCalls
<1>4. Types' /\ WatchesCalls' /\ CallsAreLeft'
  BY <1>3, ThreadMoves DEF IInv
<1>5. QED
  BY <1>1, <1>2, <1>4 DEF IInv

\* A step of a gate: c enters it, queues for it, gives up or leaves.
LEMMA GateStepKeepsIInv ==
  ASSUME IInv, NEW c \in Conn, NEW t, Moves(c, t), t.job = thread[c].job,
         GateStep(c,
           GateAgrees(needleLine', needleHolder', Put(NeedleIn, c, t.at \in Gated),
                      Put(NeedleWaiting, c, t.at = "wait")),
           GateAgrees(gpuLine', gpuHolder', Put(GpuIn, c, t.at \in Gated),
                      Put(GpuWaiting, c, t.at = "wait"))),
         UNCHANGED <<gone, slots>>,
         thread[c].at \notin {"off", "refused"}, t.at \notin {"off", "refused"},
         \/ watched' = watched /\ thread[c].at \notin Gated
         \/ watched' = [watched EXCEPT ![c] = FALSE],
         t.at \in Needing => t.left > 0
  PROVE  IInv'
<1>1. SlotsCount'
  BY SlotsMove DEF IInv, SlotKept
<1>2. GpuAgrees' /\ NeedleAgrees'
  BY GateMoves DEF IInv
<1>3. WatchKept(c, t) /\ gone' \in [Conn -> BOOLEAN]
  BY DEF IInv, Types, WatchKept
<1>4. watched[c] /\ watched' = watched => t.at \in Gated /\ t.job = thread[c].job
  BY DEF IInv, Types, WatchesCalls
<1>5. Types' /\ WatchesCalls' /\ CallsAreLeft'
  BY <1>3, <1>4, ThreadMoves DEF IInv
<1>6. QED
  BY <1>1, <1>2, <1>5 DEF IInv

-----------------------------------------------------------------------------
(* The initial state, which is also the one after a restart.               *)

Fresh == /\ thread = [c \in Conn |-> Off]
         /\ gone = [c \in Conn |-> FALSE]
         /\ slots = MaxConnections
         /\ gpuLine = <<>> /\ gpuHolder = Nobody
         /\ needleLine = <<>> /\ needleHolder = Nobody
         /\ watched = [c \in Conn |-> FALSE]

LEMMA FreshIInv == Fresh => IInv
<1> SUFFICES ASSUME Fresh PROVE IInv
  OBVIOUS
<1>1. Off \in Handler /\ \A c \in Conn : thread[c] = Off
  BY ServerAssumption DEF Fresh, Off, Handler, Location, Job
<1>2. Types
  BY <1>1 DEF Fresh, Types
<1>3. SlotsCount
  <2>1. AcceptedSet = {}
    BY <1>1 DEF AcceptedSet, Off
  <2>2. IsFiniteSet(AcceptedSet) /\ Cardinality(AcceptedSet) = 0
    BY <2>1, FS_EmptySet
  <2>3. QED
    BY <2>2, ServerAssumption DEF Fresh, SlotsCount
<1>4. /\ GpuIn = {} /\ GpuWaiting = {}
      /\ NeedleIn = {} /\ NeedleWaiting = {}
  BY <1>1 DEF GpuIn, GpuWaiting, NeedleIn, NeedleWaiting, Off, Gated
<1>5. GateAgrees(<<>>, Nobody, {}, {})
  BY ServerAssumption DEF GateAgrees
<1>6. GpuAgrees /\ NeedleAgrees
  BY <1>4, <1>5 DEF Fresh, GpuAgrees, NeedleAgrees
<1>7. WatchesCalls
  BY DEF Fresh, WatchesCalls
<1>8. CallsAreLeft
  BY <1>1 DEF CallsAreLeft, Off, Needing, Gated
<1>9. QED
  BY <1>2, <1>3, <1>6, <1>7, <1>8 DEF IInv

LEMMA InitIInv == Init => IInv
<1>1. Init => Fresh
  BY DEF Init, Fresh, Gpu!LockInit, Needle!LockInit
<1>2. QED
  BY <1>1, FreshIInv

LEMMA WatchdogKeepsIInv == ASSUME IInv, NEW c \in Conn, Watchdog(c) PROVE IInv'
<1>1. Fresh'
  BY DEF Watchdog, Fresh
<1>2. Fresh' => IInv'
  BY FreshIInv, PTL
<1>3. QED
  BY <1>1, <1>2

-----------------------------------------------------------------------------
(* The steps of a handler.                                                 *)

\* A change of the place only.
LEMMA GoIsMove ==
  ASSUME Types, NEW c \in Conn, NEW where \in Location, Go(c, where)
  PROVE  \E t : /\ Moves(c, t) /\ t.at = where
                /\ t.job = thread[c].job /\ t.left = thread[c].left
<1> DEFINE t == [thread[c] EXCEPT !.at = where]
<1>1. thread[c] \in Handler
  BY DEF Types
<1>2. t \in Handler /\ t.at = where /\ t.job = thread[c].job /\ t.left = thread[c].left
  BY <1>1 DEF Handler
<1>3. thread' = [thread EXCEPT ![c] = t]
  BY DEF Go
<1>4. QED
  BY <1>2, <1>3 DEF Moves

\* The handler ends: Off, and its slot is given back.
LEMMA EndKeepsIInv ==
  ASSUME IInv, NEW c \in Conn, End(c), UNCHANGED <<gone, gates, watched>>,
         thread[c].at \in {"recv", "ready", "gap", "ttsStart", "answer", "error"}
  PROVE  IInv'
<1>1. /\ Moves(c, Off) /\ Off.at = "off"
  BY ServerAssumption DEF End, Moves, Off, Handler, Location, Job
<1>2. SlotKept(c, Off)
  BY <1>1 DEF End, SlotKept
<1>3. WatchKept(c, Off) /\ gone' \in [Conn -> BOOLEAN]
  BY DEF WatchKept, IInv, Types
<1>4. QED
  BY <1>1, <1>2, <1>3, OutsideKeepsIInv DEF Gated, Needing

\* A step to another place outside the gates.
LEMMA GoKeepsIInv ==
  ASSUME IInv, NEW c \in Conn, NEW where \in Location, Go(c, where),
         UNCHANGED <<slots, gone, gates, watched>>,
         thread[c].at \notin Gated \cup {"off", "refused", "wait"},
         where \notin Gated \cup {"off", "refused", "wait"},
         where \in Needing => thread[c].left > 0
  PROVE  IInv'
<1>1. PICK t : /\ Moves(c, t) /\ t.at = where
               /\ t.job = thread[c].job /\ t.left = thread[c].left
  BY GoIsMove DEF IInv
<1>2. SlotKept(c, t) /\ WatchKept(c, t) /\ gone' \in [Conn -> BOOLEAN]
  BY <1>1 DEF SlotKept, WatchKept, IInv, Types
<1>3. QED
  BY <1>1, <1>2, OutsideKeepsIInv

\* From one place inside a gate to another.
LEMMA GoInsideKeepsIInv ==
  ASSUME IInv, NEW c \in Conn, NEW where \in Gated, Go(c, where),
         UNCHANGED <<slots, gone, gates>>,
         watched' = watched \/ watched' = [watched EXCEPT ![c] = thread[c].job # "start"],
         thread[c].at \in Gated
  PROVE  IInv'
<1>1. PICK t : /\ Moves(c, t) /\ t.at = where
               /\ t.job = thread[c].job /\ t.left = thread[c].left
  BY GoIsMove DEF IInv, Gated, Location, Writing
<1>2. SlotKept(c, t) /\ gone' \in [Conn -> BOOLEAN] /\ WatchKept(c, t)
  BY <1>1 DEF SlotKept, WatchKept, IInv, Types, Gated
<1>3. thread[c].left > 0
  BY DEF IInv, CallsAreLeft, Needing
<1>4. t.at \in Gated /\ t.at # "wait" /\ thread[c].at # "wait"
  BY <1>1 DEF Gated
<1>5. QED
  BY <1>1, <1>2, <1>3, <1>4, OutsideKeepsIInv

LEMMA ConnectKeepsIInv == ASSUME IInv, NEW c \in Conn, Connect(c) PROVE IInv'
<1>1. PICK where \in {"ready", "refused"} :
        /\ Go(c, where)
        /\ IF where = "ready" THEN slots > 0 /\ slots' = slots - 1 ELSE slots' = slots
  BY DEF Connect
<1>2. PICK t : /\ Moves(c, t) /\ t.at = where
               /\ t.job = thread[c].job /\ t.left = thread[c].left
  BY <1>1, GoIsMove DEF IInv, Location, Writing
<1>3. SlotKept(c, t)
  BY <1>1, <1>2 DEF SlotKept, Connect, At
<1>4. WatchKept(c, t) /\ gone' \in [Conn -> BOOLEAN]
  BY DEF Connect, WatchKept, IInv, Types
<1>5. QED
  BY <1>2, <1>3, <1>4, OutsideKeepsIInv DEF Connect, At, Gated, Needing

LEMMA RefuseKeepsIInv == ASSUME IInv, NEW c \in Conn, Refuse(c) PROVE IInv'
<1>1. Moves(c, Off) /\ Off.at = "off"
  BY ServerAssumption DEF Refuse, Moves, Off, Handler, Location, Job
<1>2. SlotKept(c, Off) /\ WatchKept(c, Off) /\ gone' \in [Conn -> BOOLEAN]
  BY <1>1 DEF Refuse, At, SlotKept, WatchKept, IInv, Types
<1>3. QED
  BY <1>1, <1>2, OutsideKeepsIInv DEF Refuse, At, Gated, Needing

LEMMA GoAwayKeepsIInv == ASSUME IInv, NEW c \in Conn, GoAway(c) PROVE IInv'
<1>1. Moves(c, thread[c])
  BY DEF GoAway, Moves, IInv, Types
<1>2. SlotKept(c, thread[c]) /\ WatchKept(c, thread[c]) /\ gone' \in [Conn -> BOOLEAN]
  BY DEF GoAway, SlotKept, WatchKept, IInv, Types
<1>3. thread[c].at \in Needing => thread[c].left > 0
  BY DEF IInv, CallsAreLeft
<1>4. QED
  BY <1>1, <1>2, <1>3, OutsideKeepsIInv DEF GoAway

\* recv: a message, and the model calls it needs.
LEMMA ReceivedKeepsIInv ==
  ASSUME IInv, NEW c \in Conn, NEW job \in Job, NEW left \in 0..(MaxCalls + 1),
         NEW where \in {"ask", "ttsStart", "error"}, Received(c, job, left, where),
         where = "error" \/ left > 0
  PROVE  IInv'
<1> DEFINE u == [thread[c] EXCEPT !.at = where]
           v == [u EXCEPT !.job = job]
           t == [v EXCEPT !.left = left]
<1>1. thread[c] \in Handler /\ thread \in [Conn -> Handler]
  BY DEF IInv, Types
<1>2. where \in Location
  BY DEF Location, Writing
<1>3. u \in Handler /\ u.at = where
  BY <1>1, <1>2 DEF Handler
<1>4. v \in Handler /\ v.at = where
  BY <1>3 DEF Handler
<1>5. t \in Handler /\ t.at = where /\ t.left = left
  BY <1>4 DEF Handler
<1>6. Moves(c, t)
  BY <1>1, <1>5 DEF Received, Moves
<1> HIDE DEF t
<1>7. SlotKept(c, t) /\ WatchKept(c, t) /\ gone' \in [Conn -> BOOLEAN]
  BY <1>5 DEF Received, At, SlotKept, WatchKept, IInv, Types
<1>8. thread[c].at = "recv" /\ UNCHANGED gates
  BY DEF Received, At
<1>9. QED
  BY <1>5, <1>6, <1>7, <1>8, OutsideKeepsIInv DEF Gated, Needing

\* A stream is no longer active.
LEMMA DiscardKeepsIInv ==
  ASSUME IInv, NEW c \in Conn, CancelStream(c) \/ NoAudio(c)
  PROVE  IInv'
<1>1. thread[c] \in Handler /\ thread \in [Conn -> Handler]
  BY DEF IInv, Types
<1>2. PICK t \in Handler : t.at \in {"recv", "gap"} /\ thread' = [thread EXCEPT ![c] = t]
  <2>1. CASE CancelStream(c)
    <3> DEFINE t == [thread[c] EXCEPT !.active = FALSE]
    <3>1. thread' = [thread EXCEPT ![c] = t]
      BY <1>1, <2>1 DEF CancelStream
    <3>2. t \in Handler /\ t.at = "recv"
      BY <1>1, <2>1 DEF CancelStream, At, Handler
    <3>3. QED
      BY <3>1, <3>2
  <2>2. CASE NoAudio(c)
    <3> DEFINE u == [thread[c] EXCEPT !.at = "gap"]
               t == [u EXCEPT !.active = FALSE]
    <3>1. thread' = [thread EXCEPT ![c] = t]
      BY <1>1, <2>2 DEF NoAudio
    <3>2. u \in Handler /\ u.at = "gap"
      BY <1>1 DEF Handler, Location, Writing
    <3>3. t \in Handler /\ t.at = "gap"
      BY <3>2 DEF Handler
    <3>4. QED
      BY <3>1, <3>3
  <2>3. QED
    BY <2>1, <2>2
<1>3. Moves(c, t)
  BY <1>2 DEF Moves
<1>4. thread[c].at = "recv" /\ UNCHANGED <<gates, slots, gone, watched>>
  BY DEF CancelStream, NoAudio, At
<1>5. SlotKept(c, t) /\ WatchKept(c, t) /\ gone' \in [Conn -> BOOLEAN]
  BY <1>2, <1>4 DEF SlotKept, WatchKept, IInv, Types
<1>6. QED
  BY <1>2, <1>3, <1>4, <1>5, OutsideKeepsIInv DEF Gated, Needing

LEMMA ReceiveKeepsIInv == ASSUME IInv, NEW c \in Conn, Receive(c) PROVE IInv'
<1>0. MaxCalls \in Nat \ {0}
  BY ServerAssumption
<1>1. CASE StartStream(c)
  <2>1. 1 \in 0..(MaxCalls + 1)
    BY <1>0
  <2>2. QED
    BY <1>1, <2>1, ReceivedKeepsIInv DEF StartStream, Job
<1>2. CASE Audio(c)
  <2>1. PICK n \in 1..MaxCalls : Received(c, "feed", n, "ask")
    BY <1>2 DEF Audio
  <2>2. n \in 0..(MaxCalls + 1) /\ n > 0
    BY <1>0
  <2>3. QED
    BY <2>1, <2>2, ReceivedKeepsIInv DEF Job
<1>3. CASE FinishStream(c)
  <2>1. 1 \in 0..(MaxCalls + 1)
    BY <1>0
  <2>2. QED
    BY <1>3, <2>1, ReceivedKeepsIInv DEF FinishStream, Job
<1>4. CASE CancelStream(c) \/ NoAudio(c)
  BY <1>4, DiscardKeepsIInv
<1>5. CASE Plan(c)
  <2>1. 1 \in 0..(MaxCalls + 1)
    BY <1>0
  <2>2. QED
    BY <1>5, <2>1, ReceivedKeepsIInv DEF Plan, Job
<1>6. CASE Speak(c)
  <2>1. PICK n \in 1..MaxCalls : Received(c, "speak", n + 1, "ttsStart")
    BY <1>6 DEF Speak
  <2>2. n + 1 \in 0..(MaxCalls + 1) /\ n + 1 > 0
    BY <1>0
  <2>3. QED
    BY <2>1, <2>2, ReceivedKeepsIInv DEF Job
<1>7. CASE Unsupported(c)
  <2>1. 0 \in 0..(MaxCalls + 1)
    BY <1>0
  <2>2. QED
    BY <1>7, <2>1, ReceivedKeepsIInv DEF Unsupported, Job
<1>8. QED
  BY <1>1, <1>2, <1>3, <1>4, <1>5, <1>6, <1>7 DEF Receive

-----------------------------------------------------------------------------
(* The steps of a gate, taken by a handler.                                *)

\* c is in no line and holds no gate, or waits in the line of its job only.
LEMMA GatesKnow ==
  ASSUME IInv, NEW c \in Conn
  PROVE  /\ UsesNeedle(c) => /\ c \in NeedleIn <=> thread[c].at \in Gated
                             /\ c \in NeedleWaiting <=> thread[c].at = "wait"
         /\ ~UsesNeedle(c) => /\ c \in GpuIn <=> thread[c].at \in Gated
                              /\ c \in GpuWaiting <=> thread[c].at = "wait"
         /\ c \in NeedleIn \cup NeedleWaiting => UsesNeedle(c)
         /\ c \in GpuIn \cup GpuWaiting => ~UsesNeedle(c)
         /\ GateAgrees(needleLine, needleHolder, NeedleIn, NeedleWaiting)
         /\ GateAgrees(gpuLine, gpuHolder, GpuIn, GpuWaiting)
  BY DEF IInv, UsesNeedle, NeedleIn, NeedleWaiting, GpuIn, GpuWaiting, NeedleAgrees, GpuAgrees

LEMMA AskFreeGateKeepsIInv == ASSUME IInv, NEW c \in Conn, AskFreeGate(c) PROVE IInv'
<1>1. PICK t : /\ Moves(c, t) /\ t.at = "logWait"
               /\ t.job = thread[c].job /\ t.left = thread[c].left
  BY GoIsMove DEF AskFreeGate, IInv, Location, Writing
<1>2. /\ Put(NeedleIn, c, t.at \in Gated) = Put(NeedleIn, c, TRUE)
      /\ Put(NeedleWaiting, c, t.at = "wait") = Put(NeedleWaiting, c, FALSE)
      /\ Put(GpuIn, c, t.at \in Gated) = Put(GpuIn, c, TRUE)
      /\ Put(GpuWaiting, c, t.at = "wait") = Put(GpuWaiting, c, FALSE)
  BY <1>1 DEF Put, Gated
<1>3. CASE UsesNeedle(c)
  <2>1. /\ needleLine = <<>> /\ needleHolder = Nobody
        /\ needleLine' = needleLine /\ needleHolder' = c
        /\ UNCHANGED <<gpuLine, gpuHolder>>
    BY <1>3 DEF AskFreeGate, GateStep, Needle!ServedOnArrival
  <2>2. GateAgrees(needleLine', needleHolder', Put(NeedleIn, c, TRUE), Put(NeedleWaiting, c, FALSE))
    BY <2>1, GatesKnow, GateServes
  <2>3. QED
    BY <1>1, <1>2, <1>3, <2>1, <2>2, GateStepKeepsIInv
       DEF AskFreeGate, At, GateStep, IInv, CallsAreLeft, Needing, Gated
<1>4. CASE ~UsesNeedle(c)
  <2>1. /\ gpuLine = <<>> /\ gpuHolder = Nobody
        /\ gpuLine' = gpuLine /\ gpuHolder' = c
        /\ UNCHANGED <<needleLine, needleHolder>>
    BY <1>4 DEF AskFreeGate, GateStep, Gpu!ServedOnArrival
  <2>2. GateAgrees(gpuLine', gpuHolder', Put(GpuIn, c, TRUE), Put(GpuWaiting, c, FALSE))
    BY <2>1, GatesKnow, GateServes
  <2>3. QED
    BY <1>1, <1>2, <1>4, <2>1, <2>2, GateStepKeepsIInv
       DEF AskFreeGate, At, GateStep, IInv, CallsAreLeft, Needing, Gated
<1>5. QED
  BY <1>3, <1>4

LEMMA AskBusyGateKeepsIInv == ASSUME IInv, NEW c \in Conn, AskBusyGate(c) PROVE IInv'
<1>1. PICK t : /\ Moves(c, t) /\ t.at = "wait"
               /\ t.job = thread[c].job /\ t.left = thread[c].left
  BY GoIsMove DEF AskBusyGate, IInv, Location, Writing
<1>2. /\ Put(NeedleIn, c, t.at \in Gated) = Put(NeedleIn, c, FALSE)
      /\ Put(NeedleWaiting, c, t.at = "wait") = Put(NeedleWaiting, c, TRUE)
      /\ Put(GpuIn, c, t.at \in Gated) = Put(GpuIn, c, FALSE)
      /\ Put(GpuWaiting, c, t.at = "wait") = Put(GpuWaiting, c, TRUE)
  BY <1>1 DEF Put, Gated
<1>3. CASE UsesNeedle(c)
  <2>1. /\ needleHolder # c /\ ~ \E i \in 1..Len(needleLine) : needleLine[i] = c
        /\ needleLine' = Append(needleLine, c) /\ needleHolder' = needleHolder
        /\ UNCHANGED <<gpuLine, gpuHolder>>
    BY <1>3 DEF AskBusyGate, GateStep, Needle!JoinLine, Needle!Queued
  <2>2. GateAgrees(needleLine', needleHolder', Put(NeedleIn, c, FALSE), Put(NeedleWaiting, c, TRUE))
    BY <2>1, GatesKnow, GateJoined
  <2>3. QED
    BY <1>1, <1>2, <1>3, <2>1, <2>2, GateStepKeepsIInv
       DEF AskBusyGate, At, GateStep, IInv, CallsAreLeft, Needing, Gated
<1>4. CASE ~UsesNeedle(c)
  <2>1. /\ gpuHolder # c /\ ~ \E i \in 1..Len(gpuLine) : gpuLine[i] = c
        /\ gpuLine' = Append(gpuLine, c) /\ gpuHolder' = gpuHolder
        /\ UNCHANGED <<needleLine, needleHolder>>
    BY <1>4 DEF AskBusyGate, GateStep, Gpu!JoinLine, Gpu!Queued
  <2>2. GateAgrees(gpuLine', gpuHolder', Put(GpuIn, c, FALSE), Put(GpuWaiting, c, TRUE))
    BY <2>1, GatesKnow, GateJoined
  <2>3. QED
    BY <1>1, <1>2, <1>4, <2>1, <2>2, GateStepKeepsIInv
       DEF AskBusyGate, At, GateStep, IInv, CallsAreLeft, Needing, Gated
<1>5. QED
  BY <1>3, <1>4

LEMMA AdmittedKeepsIInv == ASSUME IInv, NEW c \in Conn, Admitted(c) PROVE IInv'
<1>1. PICK t : /\ Moves(c, t) /\ t.at = "logWait"
               /\ t.job = thread[c].job /\ t.left = thread[c].left
  BY GoIsMove DEF Admitted, IInv, Location, Writing
<1>2. /\ Put(NeedleIn, c, t.at \in Gated) = Put(NeedleIn, c, TRUE)
      /\ Put(NeedleWaiting, c, t.at = "wait") = Put(NeedleWaiting, c, FALSE)
      /\ Put(GpuIn, c, t.at \in Gated) = Put(GpuIn, c, TRUE)
      /\ Put(GpuWaiting, c, t.at = "wait") = Put(GpuWaiting, c, FALSE)
  BY <1>1 DEF Put, Gated
<1>3. thread[c].at = "wait" /\ thread[c].at \notin Gated
  BY DEF Admitted, At, Gated
<1>4. CASE UsesNeedle(c)
  <2>1. /\ needleLine # <<>> /\ needleLine[1] = c /\ needleHolder = Nobody
        /\ needleLine' = Without(needleLine, 1) /\ needleHolder' = c
        /\ UNCHANGED <<gpuLine, gpuHolder>>
    BY <1>4 DEF Admitted, GateStep, Needle!Serve, Needle!Drop, Without
  <2>2. 1 \in 1..Len(needleLine)
    BY <2>1, GatesKnow DEF GateAgrees
  <2>3. GateAgrees(needleLine', needleHolder', Put(NeedleIn, c, TRUE), Put(NeedleWaiting, c, FALSE))
    <3>1. GateAgrees(Without(needleLine, 1), c, Put(NeedleIn, c, c = c), Put(NeedleWaiting, c, FALSE))
      BY <1>3, <1>4, <2>1, <2>2, GatesKnow, GateDropped
    <3>2. Put(NeedleIn, c, c = c) = Put(NeedleIn, c, TRUE)
      BY DEF Put
    <3>3. QED
      BY <2>1, <3>1, <3>2
  <2>4. QED
    BY <1>1, <1>2, <1>4, <2>1, <2>3, GateStepKeepsIInv
       DEF Admitted, At, GateStep, IInv, CallsAreLeft, Needing, Gated
<1>5. CASE ~UsesNeedle(c)
  <2>1. /\ gpuLine # <<>> /\ gpuLine[1] = c /\ gpuHolder = Nobody
        /\ gpuLine' = Without(gpuLine, 1) /\ gpuHolder' = c
        /\ UNCHANGED <<needleLine, needleHolder>>
    BY <1>5 DEF Admitted, GateStep, Gpu!Serve, Gpu!Drop, Without
  <2>2. 1 \in 1..Len(gpuLine)
    BY <2>1, GatesKnow DEF GateAgrees
  <2>3. GateAgrees(gpuLine', gpuHolder', Put(GpuIn, c, TRUE), Put(GpuWaiting, c, FALSE))
    <3>1. GateAgrees(Without(gpuLine, 1), c, Put(GpuIn, c, c = c), Put(GpuWaiting, c, FALSE))
      BY <1>3, <1>5, <2>1, <2>2, GatesKnow, GateDropped
    <3>2. Put(GpuIn, c, c = c) = Put(GpuIn, c, TRUE)
      BY DEF Put
    <3>3. QED
      BY <2>1, <3>1, <3>2
  <2>4. QED
    BY <1>1, <1>2, <1>5, <2>1, <2>3, GateStepKeepsIInv
       DEF Admitted, At, GateStep, IInv, CallsAreLeft, Needing, Gated
<1>6. QED
  BY <1>4, <1>5

LEMMA WaitedTooLongKeepsIInv == ASSUME IInv, NEW c \in Conn, WaitedTooLong(c) PROVE IInv'
<1>1. PICK t : /\ Moves(c, t) /\ t.at = "logBusy"
               /\ t.job = thread[c].job /\ t.left = thread[c].left
  BY GoIsMove DEF WaitedTooLong, IInv, Location, Writing
<1>2. /\ Put(NeedleIn, c, t.at \in Gated) = Put(NeedleIn, c, FALSE)
      /\ Put(NeedleWaiting, c, t.at = "wait") = Put(NeedleWaiting, c, FALSE)
      /\ Put(GpuIn, c, t.at \in Gated) = Put(GpuIn, c, FALSE)
      /\ Put(GpuWaiting, c, t.at = "wait") = Put(GpuWaiting, c, FALSE)
  BY <1>1 DEF Put, Gated
<1>3. thread[c].at = "wait" /\ thread[c].at \notin Gated
  BY DEF WaitedTooLong, At, Gated
<1>4. CASE UsesNeedle(c)
  <2>1. PICK i \in 1..Len(needleLine) : needleLine[i] = c /\ needleLine' = Without(needleLine, i)
    BY <1>4 DEF WaitedTooLong, GateStep, Needle!Leave, Needle!Drop, Without
  <2>2. needleHolder' = needleHolder /\ UNCHANGED <<gpuLine, gpuHolder>>
    BY <1>4 DEF WaitedTooLong, GateStep, Needle!Leave
  <2>3. c \notin NeedleIn /\ needleHolder # c
    BY <1>3, <1>4, GatesKnow DEF GateAgrees
  <2>4. GateAgrees(needleLine', needleHolder', Put(NeedleIn, c, FALSE), Put(NeedleWaiting, c, FALSE))
    <3>1. GateAgrees(Without(needleLine, i), needleHolder, Put(NeedleIn, c, needleHolder = c),
                     Put(NeedleWaiting, c, FALSE))
      BY <2>1, <2>3, GatesKnow, GateDropped
    <3>2. Put(NeedleIn, c, needleHolder = c) = Put(NeedleIn, c, FALSE)
      BY <2>3 DEF Put
    <3>3. QED
      BY <2>1, <2>2, <3>1, <3>2
  <2>5. QED
    BY <1>1, <1>2, <1>3, <1>4, <2>2, <2>4, GateStepKeepsIInv
       DEF WaitedTooLong, GateStep, Needing, Gated
<1>5. CASE ~UsesNeedle(c)
  <2>1. PICK i \in 1..Len(gpuLine) : gpuLine[i] = c /\ gpuLine' = Without(gpuLine, i)
    BY <1>5 DEF WaitedTooLong, GateStep, Gpu!Leave, Gpu!Drop, Without
  <2>2. gpuHolder' = gpuHolder /\ UNCHANGED <<needleLine, needleHolder>>
    BY <1>5 DEF WaitedTooLong, GateStep, Gpu!Leave
  <2>3. c \notin GpuIn /\ gpuHolder # c
    BY <1>3, <1>5, GatesKnow DEF GateAgrees
  <2>4. GateAgrees(gpuLine', gpuHolder', Put(GpuIn, c, FALSE), Put(GpuWaiting, c, FALSE))
    <3>1. GateAgrees(Without(gpuLine, i), gpuHolder, Put(GpuIn, c, gpuHolder = c),
                     Put(GpuWaiting, c, FALSE))
      BY <2>1, <2>3, GatesKnow, GateDropped
    <3>2. Put(GpuIn, c, gpuHolder = c) = Put(GpuIn, c, FALSE)
      BY <2>3 DEF Put
    <3>3. QED
      BY <2>1, <2>2, <3>1, <3>2
  <2>5. QED
    BY <1>1, <1>2, <1>3, <1>5, <2>2, <2>4, GateStepKeepsIInv
       DEF WaitedTooLong, GateStep, Needing, Gated
<1>6. QED
  BY <1>4, <1>5

\* What a thread is after its call, whether it has a result or not.
LEMMA OutcomeIsHandler ==
  ASSUME IInv, NEW c \in Conn, thread[c].at \in Gated, NEW ok \in BOOLEAN
  PROVE  /\ Outcome(c, ok) \in Handler
         /\ Outcome(c, ok).at \in {"error", "recv", "answer"}
         /\ Outcome(c, ok).job = thread[c].job
<1> DEFINE h == thread[c]
<1>1. h \in Handler /\ h.left \in 0..(MaxCalls + 1) /\ h.left > 0 /\ MaxCalls \in Nat
  BY ServerAssumption DEF IInv, Types, CallsAreLeft, Needing, Handler
<1>2. h.left - 1 \in 0..(MaxCalls + 1) /\ 0 \in 0..(MaxCalls + 1)
  BY <1>1
<1>3. {"error", "recv", "answer"} \subseteq Location
  BY DEF Location, Writing
<1>4. CASE ~ok
  BY <1>1, <1>3, <1>4 DEF Outcome, Handler
<1>5. CASE ok /\ h.job = "start"
  BY <1>1, <1>2, <1>3, <1>5 DEF Outcome, Handler
<1>6. CASE ok /\ h.job = "finish"
  BY <1>1, <1>2, <1>3, <1>6 DEF Outcome, Handler
<1>7. CASE ok /\ h.job \notin {"start", "finish"}
  BY <1>1, <1>2, <1>3, <1>7 DEF Outcome, Handler
<1>8. QED
  BY <1>4, <1>5, <1>6, <1>7

LEMMA ReleaseKeepsIInv ==
  ASSUME IInv, NEW c \in Conn, NEW ok \in BOOLEAN, Release(c, ok),
         thread[c].at \in Gated, UNCHANGED <<gone, slots>>
  PROVE  IInv'
<1>1. PICK t : /\ Moves(c, t) /\ t.at \in {"error", "recv", "answer"}
               /\ t.job = thread[c].job
  BY OutcomeIsHandler DEF Release, Moves
<1>2. /\ Put(NeedleIn, c, t.at \in Gated) = Put(NeedleIn, c, FALSE)
      /\ Put(NeedleWaiting, c, t.at = "wait") = Put(NeedleWaiting, c, FALSE)
      /\ Put(GpuIn, c, t.at \in Gated) = Put(GpuIn, c, FALSE)
      /\ Put(GpuWaiting, c, t.at = "wait") = Put(GpuWaiting, c, FALSE)
  BY <1>1 DEF Put, Gated
<1>3. thread[c].at \in Gated /\ thread[c].at \notin {"off", "refused", "wait"}
  BY DEF Gated
<1>4. CASE UsesNeedle(c)
  <2>1. needleHolder = c /\ needleHolder' = Nobody /\ needleLine' = needleLine
        /\ UNCHANGED <<gpuLine, gpuHolder>>
    BY <1>4 DEF Release, GateStep, Needle!Free
  <2>2. c \notin NeedleWaiting
    BY <1>3, <1>4, GatesKnow DEF Gated
  <2>3. GateAgrees(needleLine', needleHolder', Put(NeedleIn, c, FALSE), Put(NeedleWaiting, c, FALSE))
    BY <2>1, <2>2, GatesKnow, GateFreed
  <2>4. QED
    BY <1>1, <1>2, <1>3, <1>4, <2>1, <2>3, GateStepKeepsIInv
       DEF Release, GateStep, Needing, Gated
<1>5. CASE ~UsesNeedle(c)
  <2>1. gpuHolder = c /\ gpuHolder' = Nobody /\ gpuLine' = gpuLine
        /\ UNCHANGED <<needleLine, needleHolder>>
    BY <1>5 DEF Release, GateStep, Gpu!Free
  <2>2. c \notin GpuWaiting
    BY <1>3, <1>5, GatesKnow DEF Gated
  <2>3. GateAgrees(gpuLine', gpuHolder', Put(GpuIn, c, FALSE), Put(GpuWaiting, c, FALSE))
    BY <2>1, <2>2, GatesKnow, GateFreed
  <2>4. QED
    BY <1>1, <1>2, <1>3, <1>5, <2>1, <2>3, GateStepKeepsIInv
       DEF Release, GateStep, Needing, Gated
<1>6. QED
  BY <1>4, <1>5

-----------------------------------------------------------------------------
(* The model call, the answers, and every step.                            *)

LEMMA ModelKeepsIInv ==
  ASSUME IInv, NEW c \in Conn,
         EnterModel(c) \/ ModelReturns(c) \/ ModelRaises(c) \/ LeaveModel(c)
  PROVE  IInv'
<1>1. CASE EnterModel(c)
  <2>1. /\ Go(c, "model") /\ UNCHANGED <<slots, gone, gates>>
        /\ watched' = [watched EXCEPT ![c] = thread[c].job # "start"]
        /\ thread[c].at \in Gated /\ "model" \in Gated
    BY <1>1 DEF EnterModel, At, Gated
  <2>2. QED
    BY <2>1, GoInsideKeepsIInv
<1>2. CASE ModelReturns(c)
  <2>1. thread[c].at \in Gated /\ UNCHANGED <<slots, gone>>
    BY <1>2 DEF ModelReturns, At, Gated
  <2>2. CASE Timed(c)
    <3>1. Go(c, "logModel") /\ UNCHANGED <<gates, watched>> /\ "logModel" \in Gated
      BY <1>2, <2>2 DEF ModelReturns, Gated
    <3>2. QED
      BY <2>1, <3>1, GoInsideKeepsIInv
  <2>3. CASE ~Timed(c)
    <3>1. Release(c, TRUE)
      BY <1>2, <2>3 DEF ModelReturns
    <3>2. QED
      BY <2>1, <3>1, ReleaseKeepsIInv
  <2>4. QED
    BY <2>2, <2>3
<1>3. CASE ModelRaises(c)
  <2>1. /\ Go(c, "logRaised") /\ UNCHANGED <<slots, gone, gates, watched>>
        /\ thread[c].at \in Gated /\ "logRaised" \in Gated
    BY <1>3 DEF ModelRaises, At, Gated
  <2>2. QED
    BY <2>1, GoInsideKeepsIInv
<1>4. CASE LeaveModel(c)
  <2>1. /\ Release(c, thread[c].at = "logModel") /\ UNCHANGED <<gone, slots>>
        /\ thread[c].at \in Gated /\ (thread[c].at = "logModel") \in BOOLEAN
    BY <1>4 DEF LeaveModel, At, Gated
  <2>2. QED
    BY <2>1, ReleaseKeepsIInv
<1>5. QED
  BY <1>1, <1>2, <1>3, <1>4

LEMMA SentKeepsIInv == ASSUME IInv, NEW c \in Conn, Sent(c) PROVE IInv'
<1>1. UNCHANGED <<gone, gates, watched>>
  BY DEF Sent
<1>2. CASE (At(c, "ready") \/ At(c, "gap")) /\ Go(c, "recv") /\ UNCHANGED slots
  BY <1>1, <1>2, GoKeepsIInv DEF At, Location, Gated, Needing
<1>3. CASE At(c, "ttsStart") /\ Go(c, "ask") /\ UNCHANGED slots
  <2>1. thread[c].left > 0
    BY <1>3 DEF At, IInv, CallsAreLeft, Needing
  <2>2. QED
    BY <1>1, <1>3, <2>1, GoKeepsIInv DEF At, Location, Gated
<1>4. CASE At(c, "answer") /\ Answered(c)
  <2>1. CASE thread[c].left > 0
    <3>1. Go(c, "ask") /\ UNCHANGED slots
      BY <1>4, <2>1 DEF Answered
    <3>2. QED
      BY <1>1, <1>4, <2>1, <3>1, GoKeepsIInv DEF At, Location, Gated
  <2>2. CASE ~(thread[c].left > 0) /\ c \in Asr
    <3>1. Go(c, "recv") /\ UNCHANGED slots
      BY <1>4, <2>2 DEF Answered
    <3>2. QED
      BY <1>1, <1>4, <3>1, GoKeepsIInv DEF At, Location, Gated, Needing
  <2>3. CASE ~(thread[c].left > 0) /\ c \notin Asr
    <3>1. End(c)
      BY <1>4, <2>3 DEF Answered
    <3>2. QED
      BY <1>1, <1>4, <3>1, EndKeepsIInv DEF At
  <2>4. QED
    BY <2>1, <2>2, <2>3
<1>5. CASE At(c, "error") /\ End(c)
  BY <1>1, <1>5, EndKeepsIInv DEF At
<1>6. QED
  BY <1>2, <1>3, <1>4, <1>5 DEF Sent

LEMMA EndingsKeepIInv ==
  ASSUME IInv, NEW c \in Conn, RecvFails(c) \/ SendFails(c) \/ BusyLogged(c)
  PROVE  IInv'
<1>1. CASE RecvFails(c)
  BY <1>1, EndKeepsIInv DEF RecvFails, At
<1>2. CASE SendFails(c)
  BY <1>2, EndKeepsIInv DEF SendFails
<1>3. CASE BusyLogged(c)
  BY <1>3, GoKeepsIInv DEF BusyLogged, At, Location, Writing, Gated, Needing
<1>4. QED
  BY <1>1, <1>2, <1>3

LEMMA NextKeepsIInv == ASSUME IInv, [Next]_vars PROVE IInv'
<1>1. CASE UNCHANGED vars
  BY <1>1 DEF vars, gates, IInv, Types, SlotsCount, AcceptedSet, GpuAgrees, NeedleAgrees,
              GpuIn, GpuWaiting, NeedleIn, NeedleWaiting, GateAgrees, WatchesCalls, CallsAreLeft
<1>2. CASE Next
  <2>1. PICK c \in Conn : \/ Connect(c) \/ GoAway(c) \/ Receive(c) \/ Handle(c)
                          \/ WaitedTooLong(c) \/ ModelReturns(c) \/ ModelRaises(c)
                          \/ Watchdog(c)
    BY <1>2 DEF Next
  <2>2. CASE Handle(c)
    BY <2>2, RefuseKeepsIInv, EndingsKeepIInv, AskFreeGateKeepsIInv, AskBusyGateKeepsIInv,
       AdmittedKeepsIInv, ModelKeepsIInv, SentKeepsIInv DEF Handle
  <2>3. QED
    BY <2>1, <2>2, ConnectKeepsIInv, GoAwayKeepsIInv, ReceiveKeepsIInv, WaitedTooLongKeepsIInv,
       ModelKeepsIInv, WatchdogKeepsIInv
<1>3. QED
  BY <1>1, <1>2

LEMMA Invariance == Spec => []IInv
<1>1. IInv /\ [Next]_vars => IInv'
  BY NextKeepsIInv
<1>2. QED
  BY InitIInv, <1>1, PTL DEF Spec

-----------------------------------------------------------------------------
(***************************************************************************)
(* Overtaking.  Who has begun a call since w queued is neither before w in *)
(* its line nor about to begin another: it can only be behind w.           *)
(***************************************************************************)
Before(l, c, w) == \E i, j \in 1..Len(l) : l[i] = c /\ l[j] = w /\ i <= j

Behind(w, c) ==
  passed[w][c] = 1 => /\ At(w, "wait")
                      /\ ~Before(gpuLine, c, w) /\ ~Before(needleLine, c, w)
                      /\ At(c, "logWait") => UsesNeedle(c) # UsesNeedle(w)

Overtaken == /\ passed \in [Conn -> [Conn -> {0, 1}]]
             /\ \A w, c \in Conn : Behind(w, c)

\* Nobody comes before another when one leaves the line, and a newcomer comes
\* before nobody but itself.
LEMMA BeforeWithout ==
  ASSUME NEW l \in Seq(Conn), NEW k \in 1..Len(l), NEW c, NEW w, Before(Without(l, k), c, w)
  PROVE  Before(l, c, w)
<1> DEFINE s == Without(l, k)
<1>1. /\ Len(s) = Len(l) - 1 /\ Len(l) \in Nat
      /\ \A j \in 1..(Len(l) - 1) : s[j] = IF j < k THEN l[j] ELSE l[j + 1]
  BY WithoutElements
<1>2. PICK i \in 1..Len(s), j \in 1..Len(s) : s[i] = c /\ s[j] = w /\ i <= j
  BY DEF Before
<1> HIDE DEF s
<1> DEFINE old(n) == IF n < k THEN n ELSE n + 1
<1>3. old(i) \in 1..Len(l) /\ l[old(i)] = c
  BY <1>1, <1>2
<1>4. old(j) \in 1..Len(l) /\ l[old(j)] = w
  BY <1>1, <1>2
<1>5. old(i) <= old(j)
  BY <1>1, <1>2
<1> HIDE DEF old
<1>6. QED
  BY <1>3, <1>4, <1>5 DEF Before

LEMMA BeforeAppended ==
  ASSUME NEW l \in Seq(Conn), NEW e \in Conn, NEW c, NEW w, Before(Append(l, e), c, w), w # e
  PROVE  Before(l, c, w)
<1> DEFINE s == Append(l, e)
<1>1. /\ Len(s) = Len(l) + 1 /\ Len(l) \in Nat
      /\ \A i \in 1..Len(l) : s[i] = l[i]
      /\ s[Len(l) + 1] = e
  BY AppendElements
<1>2. PICK i \in 1..Len(s), j \in 1..Len(s) : s[i] = c /\ s[j] = w /\ i <= j
  BY DEF Before
<1> HIDE DEF s
<1>3. j # Len(l) + 1
  BY <1>1, <1>2
<1>4. i \in 1..Len(l) /\ j \in 1..Len(l)
  BY <1>1, <1>2, <1>3
<1>5. l[i] = c /\ l[j] = w
  BY <1>1, <1>2, <1>4
<1>6. QED
  BY <1>2, <1>4, <1>5 DEF Before

\* A step of a thread that neither waited nor now begins a call, and that leaves
\* both lines alone.
LEMMA OutsideKeepsOvertaken ==
  ASSUME Overtaken, NEW c \in Conn, \A d \in Conn : d # c => thread'[d] = thread[d],
         UNCHANGED <<gpuLine, needleLine, passed>>,
         thread[c].at # "wait", thread'[c].at # "logWait"
  PROVE  Overtaken'
<1>1. ASSUME NEW w \in Conn, NEW d \in Conn
      PROVE  Behind(w, d)'
  BY <1>1 DEF Overtaken, Behind, At, UsesNeedle, Before
<1>2. QED
  BY <1>1 DEF Overtaken

\* A step that concerns neither the threads nor the lines.
LEMMA LinesAndThreads ==
  ASSUME Overtaken, UNCHANGED <<thread, gpuLine, needleLine, passed>>
  PROVE  Overtaken'
<1>1. ASSUME NEW w \in Conn, NEW d \in Conn
      PROVE  Behind(w, d)'
  BY <1>1 DEF Overtaken, Behind, At, UsesNeedle, Before
<1>2. QED
  BY <1>1 DEF Overtaken

\* c stops waiting: it leaves its line, or its line and the queue together.
LEMMA LeavingKeepsOvertaken ==
  ASSUME Overtaken, NEW c \in Conn, \A d \in Conn : d # c => thread'[d] = thread[d],
         \A d, w \in Conn : /\ Before(gpuLine', d, w) => Before(gpuLine, d, w)
                            /\ Before(needleLine', d, w) => Before(needleLine, d, w),
         passed' = [passed EXCEPT ![c] = [d \in Conn |-> 0]],
         thread'[c].at = "logWait" =>
           \A w \in Conn : w # c /\ passed[w][c] = 1 => UsesNeedle(c)' # UsesNeedle(w)
  PROVE  Overtaken'
<1>1. passed' \in [Conn -> [Conn -> {0, 1}]]
  BY DEF Overtaken
<1>2. \A w, d \in Conn : passed'[w][d] = IF w = c THEN 0 ELSE passed[w][d]
  BY DEF Overtaken
<1>3. ASSUME NEW w \in Conn, NEW d \in Conn, passed'[w][d] = 1
      PROVE  /\ At(w, "wait")' /\ ~Before(gpuLine', d, w) /\ ~Before(needleLine', d, w)
             /\ At(d, "logWait")' => UsesNeedle(d)' # UsesNeedle(w)'
  <2>1. w # c /\ passed[w][d] = 1
    BY <1>2, <1>3
  <2>2. /\ At(w, "wait") /\ ~Before(gpuLine, d, w) /\ ~Before(needleLine, d, w)
        /\ At(d, "logWait") => UsesNeedle(d) # UsesNeedle(w)
    BY <2>1 DEF Overtaken, Behind
  <2>3. At(w, "wait")' /\ UsesNeedle(w)' = UsesNeedle(w)
    BY <2>1, <2>2 DEF At, UsesNeedle
  <2>4. At(d, "logWait")' => UsesNeedle(d)' # UsesNeedle(w)
    <3>1. CASE d = c
      BY <2>1, <3>1 DEF At
    <3>2. CASE d # c
      BY <2>2, <3>2 DEF At, UsesNeedle
    <3>3. QED
      BY <3>1, <3>2
  <2>5. QED
    BY <2>2, <2>3, <2>4
<1>4. QED
  BY <1>1, <1>3 DEF Overtaken, Behind

\* The steps that let nobody into a line, out of it, or to the start of a call.
LEMMA ElsewhereKeepsOvertaken ==
  ASSUME IInv, Overtaken, NEW c \in Conn,
         \/ Connect(c) \/ GoAway(c) \/ Receive(c) \/ Refuse(c) \/ RecvFails(c) \/ LeaveModel(c)
         \/ Sent(c) \/ SendFails(c) \/ BusyLogged(c) \/ ModelReturns(c) \/ ModelRaises(c)
  PROVE  Overtaken'
<1>1. thread \in [Conn -> Handler]
  BY DEF IInv, Types
<1>2. CASE Connect(c) \/ Refuse(c) \/ BusyLogged(c) \/ ModelRaises(c)
  BY <1>1, <1>2, OutsideKeepsOvertaken
     DEF Connect, Refuse, BusyLogged, ModelRaises, Go, At, Off, gates, Handler
<1>3. CASE GoAway(c)
  BY <1>3, LinesAndThreads DEF GoAway, gates
<1>4. CASE Receive(c)
  <2>1. thread[c].at = "recv" /\ UNCHANGED <<gpuLine, needleLine, passed>>
    BY <1>4 DEF Receive, StartStream, Audio, FinishStream, CancelStream, Plan, Speak, Unsupported,
                NoAudio, Received, At, gates
  <2>2. /\ \A d \in Conn : d # c => thread'[d] = thread[d]
        /\ thread'[c].at # "logWait"
    BY <1>1, <1>4 DEF Receive, StartStream, Audio, FinishStream, CancelStream, Plan, Speak,
                Unsupported, NoAudio, Received, At, Handler
  <2>3. QED
    BY <2>1, <2>2, OutsideKeepsOvertaken
<1>5. CASE RecvFails(c) \/ SendFails(c)
  BY <1>1, <1>5, OutsideKeepsOvertaken DEF RecvFails, SendFails, End, At, Off, gates
<1>6. CASE LeaveModel(c)
  <2>1. thread[c].at # "wait" /\ UNCHANGED <<gpuLine, needleLine, passed>>
    BY <1>6 DEF LeaveModel, Release, GateStep, Gpu!Free, Needle!Free, At
  <2>2. /\ \A d \in Conn : d # c => thread'[d] = thread[d]
        /\ thread'[c] = Outcome(c, At(c, "logModel"))
    BY <1>1, <1>6 DEF LeaveModel, Release
  <2>3. thread'[c].at # "logWait"
    BY <1>1, <2>2 DEF Outcome, Handler
  <2>4. QED
    BY <2>1, <2>2, <2>3, OutsideKeepsOvertaken
<1>7. CASE ModelReturns(c)
  <2>1. thread[c].at # "wait" /\ UNCHANGED <<gpuLine, needleLine, passed>>
    BY <1>7 DEF ModelReturns, Release, GateStep, Gpu!Free, Needle!Free, At, gates
  <2>2. /\ \A d \in Conn : d # c => thread'[d] = thread[d]
        /\ thread'[c] = Outcome(c, TRUE) \/ thread'[c] = [thread[c] EXCEPT !.at = "logModel"]
    BY <1>1, <1>7 DEF ModelReturns, Release, Go
  <2>3. thread'[c].at # "logWait"
    BY <1>1, <2>2 DEF Outcome, Handler
  <2>4. QED
    BY <2>1, <2>2, <2>3, OutsideKeepsOvertaken
<1>8. CASE Sent(c)
  <2>1. thread[c].at # "wait" /\ UNCHANGED <<gpuLine, needleLine, passed>>
    BY <1>8 DEF Sent, At, gates
  <2>2. /\ \A d \in Conn : d # c => thread'[d] = thread[d]
        /\ thread'[c].at # "logWait"
    BY <1>1, <1>8 DEF Sent, Answered, Go, End, Off, Handler
  <2>3. QED
    BY <2>1, <2>2, OutsideKeepsOvertaken
<1>9. QED
  BY <1>2, <1>3, <1>4, <1>5, <1>6, <1>7, <1>8

\* A thread that finds the gate free finds nobody in its line.
LEMMA AskFreeGateKeepsOvertaken ==
  ASSUME IInv, Overtaken, NEW c \in Conn, AskFreeGate(c)
  PROVE  Overtaken'
<1>1. /\ thread \in [Conn -> Handler] /\ thread[c].at = "ask"
      /\ thread' = [thread EXCEPT ![c].at = "logWait"]
      /\ UNCHANGED <<gpuLine, needleLine, passed>>
  BY DEF IInv, Types, AskFreeGate, At, Go, GateStep, Gpu!ServedOnArrival, Needle!ServedOnArrival
<1>2. ASSUME NEW w \in Conn, passed[w][c] = 1
      PROVE  UsesNeedle(c) # UsesNeedle(w)
  <2>1. thread[w].at = "wait"
    BY <1>2 DEF Overtaken, Behind, At
  <2>2. UsesNeedle(w) => needleLine # <<>>
    BY <2>1, GatesKnow, <1>2 DEF GateAgrees
  <2>3. ~UsesNeedle(w) => gpuLine # <<>>
    BY <2>1, GatesKnow, <1>2 DEF GateAgrees
  <2>4. UsesNeedle(c) => needleLine = <<>>
    BY DEF AskFreeGate, GateStep, Needle!ServedOnArrival
  <2>5. ~UsesNeedle(c) => gpuLine = <<>>
    BY DEF AskFreeGate, GateStep, Gpu!ServedOnArrival
  <2>6. QED
    BY <2>2, <2>3, <2>4, <2>5, Zenon DEF UsesNeedle
<1>3. /\ \A d \in Conn : UsesNeedle(d)' = UsesNeedle(d)
      /\ \A d \in Conn : d # c => thread'[d] = thread[d]
  BY <1>1 DEF UsesNeedle, Handler
<1>4. ASSUME NEW w \in Conn, NEW d \in Conn, passed'[w][d] = 1
      PROVE  /\ At(w, "wait")' /\ ~Before(gpuLine', d, w) /\ ~Before(needleLine', d, w)
             /\ At(d, "logWait")' => UsesNeedle(d)' # UsesNeedle(w)'
  <2>1. passed[w][d] = 1
    BY <1>1, <1>4
  <2>2. /\ At(w, "wait") /\ ~Before(gpuLine, d, w) /\ ~Before(needleLine, d, w)
        /\ At(d, "logWait") => UsesNeedle(d) # UsesNeedle(w)
    BY <2>1 DEF Overtaken, Behind
  <2>3. At(w, "wait")'
    BY <1>1, <1>3, <2>2 DEF At
  <2>4. At(d, "logWait")' => UsesNeedle(d) # UsesNeedle(w)
    <3>1. CASE d = c
      BY <1>2, <2>1, <3>1
    <3>2. CASE d # c
      BY <1>3, <2>2, <3>2 DEF At
    <3>3. QED
      BY <3>1, <3>2
  <2>5. QED
    BY <1>1, <1>3, <2>2, <2>3, <2>4
<1>5. QED
  BY <1>1, <1>4 DEF Overtaken, Behind

\* A thread that must queue is behind all who wait, and nobody has passed it yet.
LEMMA AskBusyGateKeepsOvertaken ==
  ASSUME IInv, Overtaken, NEW c \in Conn, AskBusyGate(c)
  PROVE  Overtaken'
<1>1. /\ thread \in [Conn -> Handler] /\ thread[c].at = "ask"
      /\ thread' = [thread EXCEPT ![c].at = "wait"]
      /\ passed' = [passed EXCEPT ![c] = [d \in Conn |-> 0]]
  BY DEF IInv, Types, AskBusyGate, At, Go
<1>2. /\ gpuLine' = gpuLine \/ gpuLine' = Append(gpuLine, c)
      /\ needleLine' = needleLine \/ needleLine' = Append(needleLine, c)
  BY DEF AskBusyGate, GateStep, Gpu!JoinLine, Needle!JoinLine
<1>3. gpuLine \in Seq(Conn) /\ needleLine \in Seq(Conn)
  BY DEF IInv, GpuAgrees, NeedleAgrees, GateAgrees
<1>4. \A d, w \in Conn : w # c => /\ Before(gpuLine', d, w) => Before(gpuLine, d, w)
                                  /\ Before(needleLine', d, w) => Before(needleLine, d, w)
  BY <1>2, <1>3, BeforeAppended
<1>5. /\ \A d \in Conn : UsesNeedle(d)' = UsesNeedle(d)
      /\ \A d \in Conn : d # c => thread'[d] = thread[d]
      /\ thread'[c].at = "wait"
  BY <1>1 DEF UsesNeedle, Handler
<1>6. passed' \in [Conn -> [Conn -> {0, 1}]]
  BY <1>1 DEF Overtaken
<1>7. \A w, d \in Conn : passed'[w][d] = IF w = c THEN 0 ELSE passed[w][d]
  BY <1>1 DEF Overtaken
<1>8. ASSUME NEW w \in Conn, NEW d \in Conn, passed'[w][d] = 1
      PROVE  /\ At(w, "wait")' /\ ~Before(gpuLine', d, w) /\ ~Before(needleLine', d, w)
             /\ At(d, "logWait")' => UsesNeedle(d)' # UsesNeedle(w)'
  <2>1. w # c /\ passed[w][d] = 1
    BY <1>7, <1>8
  <2>2. /\ At(w, "wait") /\ ~Before(gpuLine, d, w) /\ ~Before(needleLine, d, w)
        /\ At(d, "logWait") => UsesNeedle(d) # UsesNeedle(w)
    BY <2>1 DEF Overtaken, Behind
  <2>3. At(w, "wait")' /\ (At(d, "logWait")' => At(d, "logWait"))
    BY <1>5, <2>1, <2>2 DEF At
  <2>4. QED
    BY <1>4, <1>5, <2>1, <2>2, <2>3
<1>9. QED
  BY <1>6, <1>8 DEF Overtaken, Behind

\* Only the first in the line is admitted: who has passed somebody in that line is
\* behind it.
LEMMA AdmittedKeepsOvertaken ==
  ASSUME IInv, Overtaken, NEW c \in Conn, Admitted(c)
  PROVE  Overtaken'
<1>1. /\ thread \in [Conn -> Handler] /\ thread[c].at = "wait"
      /\ thread' = [thread EXCEPT ![c].at = "logWait"]
      /\ passed' = [passed EXCEPT ![c] = [d \in Conn |-> 0]]
  BY DEF IInv, Types, Admitted, At, Go
<1>2. gpuLine \in Seq(Conn) /\ needleLine \in Seq(Conn)
  BY DEF IInv, GpuAgrees, NeedleAgrees, GateAgrees
<1>3. \/ UsesNeedle(c) /\ needleLine # <<>> /\ c = needleLine[1] /\ gpuLine' = gpuLine
         /\ needleLine' = Without(needleLine, 1)
      \/ ~UsesNeedle(c) /\ gpuLine # <<>> /\ c = gpuLine[1] /\ needleLine' = needleLine
         /\ gpuLine' = Without(gpuLine, 1)
  BY DEF Admitted, GateStep, Gpu!Serve, Needle!Serve, Gpu!Drop, Needle!Drop, Without
<1>4. \A d, w \in Conn : /\ Before(gpuLine', d, w) => Before(gpuLine, d, w)
                         /\ Before(needleLine', d, w) => Before(needleLine, d, w)
  <2>1. \A l \in Seq(Conn) : l # <<>> => 1 \in 1..Len(l)
    OBVIOUS
  <2>2. QED
    BY <1>2, <1>3, <2>1, BeforeWithout
<1>5. /\ \A d \in Conn : UsesNeedle(d)' = UsesNeedle(d)
      /\ \A d \in Conn : d # c => thread'[d] = thread[d]
  BY <1>1 DEF UsesNeedle, Handler
<1>6. ASSUME NEW w \in Conn, passed[w][c] = 1
      PROVE  UsesNeedle(c) # UsesNeedle(w)
  <2>1. /\ thread[w].at = "wait"
        /\ ~Before(gpuLine, c, w) /\ ~Before(needleLine, c, w)
    BY <1>6 DEF Overtaken, Behind, At
  <2>2. \A l \in Seq(Conn) : l # <<>> /\ c = l[1] /\ (\E j \in 1..Len(l) : l[j] = w)
                               => Before(l, c, w)
    <3>1. \A l \in Seq(Conn) : l # <<>> => 1 \in 1..Len(l) /\ \A j \in 1..Len(l) : 1 <= j
      OBVIOUS
    <3>2. QED
      BY <3>1 DEF Before
  <2>3. UsesNeedle(w) => \E j \in 1..Len(needleLine) : needleLine[j] = w
    BY <1>6, <2>1, GatesKnow DEF GateAgrees
  <2>4. ~UsesNeedle(w) => \E j \in 1..Len(gpuLine) : gpuLine[j] = w
    BY <1>6, <2>1, GatesKnow DEF GateAgrees
  <2>5. QED
    BY <1>2, <1>3, <2>1, <2>2, <2>3, <2>4, Zenon DEF UsesNeedle
<1>7. QED
  BY <1>1, <1>4, <1>5, <1>6, LeavingKeepsOvertaken

LEMMA WaitedTooLongKeepsOvertaken ==
  ASSUME IInv, Overtaken, NEW c \in Conn, WaitedTooLong(c)
  PROVE  Overtaken'
<1>1. /\ thread \in [Conn -> Handler]
      /\ thread' = [thread EXCEPT ![c].at = "logBusy"]
      /\ passed' = [passed EXCEPT ![c] = [d \in Conn |-> 0]]
  BY DEF IInv, Types, WaitedTooLong, Go
<1>2. gpuLine \in Seq(Conn) /\ needleLine \in Seq(Conn)
  BY DEF IInv, GpuAgrees, NeedleAgrees, GateAgrees
<1>3. \/ gpuLine' = gpuLine /\ \E i \in 1..Len(needleLine) : needleLine' = Without(needleLine, i)
      \/ needleLine' = needleLine /\ \E i \in 1..Len(gpuLine) : gpuLine' = Without(gpuLine, i)
  BY DEF WaitedTooLong, GateStep, Gpu!Leave, Needle!Leave, Gpu!Drop, Needle!Drop, Without
<1>4. \A d, w \in Conn : /\ Before(gpuLine', d, w) => Before(gpuLine, d, w)
                         /\ Before(needleLine', d, w) => Before(needleLine, d, w)
  BY <1>2, <1>3, BeforeWithout
<1>5. /\ \A d \in Conn : d # c => thread'[d] = thread[d]
      /\ thread'[c].at # "logWait"
  BY <1>1 DEF Handler
<1>6. QED
  BY <1>1, <1>4, <1>5, LeavingKeepsOvertaken

\* Who begins a call has passed nobody in its line since they queued.
LEMMA EnterModelKeepsOvertaken ==
  ASSUME IInv, Overtaken, NEW c \in Conn, EnterModel(c)
  PROVE  Overtaken'
<1> DEFINE inLine(w) == \E i \in 1..Len(LineOf(c)) : LineOf(c)[i] = w
<1>1. /\ thread \in [Conn -> Handler] /\ thread[c].at = "logWait"
      /\ thread' = [thread EXCEPT ![c].at = "model"]
      /\ UNCHANGED <<gpuLine, needleLine>>
      /\ passed' = [w \in Conn |-> IF inLine(w) THEN [passed[w] EXCEPT ![c] = @ + 1] ELSE passed[w]]
  BY DEF IInv, Types, EnterModel, At, Go, gates
<1>2. ASSUME NEW w \in Conn, inLine(w)
      PROVE  thread[w].at = "wait" /\ UsesNeedle(w) = UsesNeedle(c)
  <2>1. CASE UsesNeedle(c)
    <3>1. w \in NeedleWaiting
      BY <1>2, <2>1 DEF LineOf, IInv, NeedleAgrees, GateAgrees
    <3>2. QED
      BY <2>1, <3>1 DEF NeedleWaiting, UsesNeedle
  <2>2. CASE ~UsesNeedle(c)
    <3>1. w \in GpuWaiting
      BY <1>2, <2>2 DEF LineOf, IInv, GpuAgrees, GateAgrees
    <3>2. QED
      BY <2>2, <3>1 DEF GpuWaiting, UsesNeedle
  <2>3. QED
    BY <2>1, <2>2
<1>3. \A w \in Conn : inLine(w) => passed[w][c] = 0
  BY <1>1, <1>2 DEF Overtaken, Behind, At
<1>4. ~Before(gpuLine, c, c) /\ ~Before(needleLine, c, c)
      /\ \A w \in Conn : ~Before(gpuLine, c, w) /\ ~Before(needleLine, c, w)
  <2>1. c \notin GpuWaiting /\ c \notin NeedleWaiting
    BY <1>1 DEF GpuWaiting, NeedleWaiting
  <2>2. /\ ~ \E i \in 1..Len(gpuLine) : gpuLine[i] = c
        /\ ~ \E i \in 1..Len(needleLine) : needleLine[i] = c
    BY <2>1 DEF IInv, GpuAgrees, NeedleAgrees, GateAgrees
  <2>3. QED
    BY <2>2 DEF Before
<1> HIDE DEF inLine
<1>5. \A w, d \in Conn : passed'[w][d] = IF inLine(w) /\ d = c THEN 1 ELSE passed[w][d]
  <2>1. SUFFICES ASSUME NEW w \in Conn, NEW d \in Conn
                 PROVE  passed'[w][d] = IF inLine(w) /\ d = c THEN 1 ELSE passed[w][d]
    OBVIOUS
  <2>2. passed[w] \in [Conn -> {0, 1}]
    BY DEF Overtaken
  <2>3. CASE inLine(w)
    <3>1. passed'[w] = [passed[w] EXCEPT ![c] = passed[w][c] + 1]
      BY <1>1, <2>3
    <3>2. passed[w][c] + 1 = 1
      BY <1>3, <2>3
    <3>3. QED
      BY <2>2, <2>3, <3>1, <3>2
  <2>4. CASE ~inLine(w)
    BY <1>1, <2>4
  <2>5. QED
    BY <2>3, <2>4
<1>6. passed' \in [Conn -> [Conn -> {0, 1}]]
  <2>1. \A w \in Conn : passed'[w] \in [Conn -> {0, 1}]
    <3>1. SUFFICES ASSUME NEW w \in Conn PROVE passed'[w] \in [Conn -> {0, 1}]
      OBVIOUS
    <3>2. passed[w] \in [Conn -> {0, 1}]
      BY DEF Overtaken
    <3>3. passed'[w] = passed[w] \/ passed'[w] = [passed[w] EXCEPT ![c] = passed[w][c] + 1]
      BY <1>1
    <3>4. \A d \in Conn : passed'[w][d] \in {0, 1}
      BY <1>5, <3>2
    <3>5. QED
      BY <3>2, <3>3, <3>4
  <2>2. passed' = [w \in Conn |-> passed'[w]]
    BY <1>1
  <2>3. QED
    BY <2>1, <2>2
<1>7. /\ \A d \in Conn : UsesNeedle(d)' = UsesNeedle(d)
      /\ \A d \in Conn : d # c => thread'[d] = thread[d]
      /\ thread'[c].at = "model"
  BY <1>1 DEF UsesNeedle, Handler
<1>8. ASSUME NEW w \in Conn, NEW d \in Conn, passed'[w][d] = 1
      PROVE  /\ At(w, "wait")' /\ ~Before(gpuLine', d, w) /\ ~Before(needleLine', d, w)
             /\ At(d, "logWait")' => UsesNeedle(d)' # UsesNeedle(w)'
  <2>1. CASE inLine(w) /\ d = c
    <3>1. At(w, "wait")'
      BY <1>1, <1>2, <1>7, <2>1 DEF At
    <3>2. QED
      BY <1>1, <1>4, <1>7, <2>1, <3>1 DEF At
  <2>2. CASE ~(inLine(w) /\ d = c)
    <3>1. passed[w][d] = 1
      BY <1>5, <1>8, <2>2
    <3>2. /\ At(w, "wait") /\ ~Before(gpuLine, d, w) /\ ~Before(needleLine, d, w)
          /\ At(d, "logWait") => UsesNeedle(d) # UsesNeedle(w)
      BY <3>1 DEF Overtaken, Behind
    <3>3. At(w, "wait")' /\ (At(d, "logWait")' => At(d, "logWait"))
      BY <1>1, <1>7, <3>2 DEF At
    <3>4. QED
      BY <1>1, <1>7, <3>2, <3>3
  <2>3. QED
    BY <2>1, <2>2
<1>9. QED
  BY <1>6, <1>8 DEF Overtaken, Behind

LEMMA UnpassedOvertaken == passed = Unpassed => Overtaken
<1> SUFFICES ASSUME passed = Unpassed PROVE Overtaken
  OBVIOUS
<1>1. \A w, c \in Conn : passed[w][c] = 0
  BY DEF Unpassed
<1>2. QED
  BY <1>1 DEF Overtaken, Behind, Unpassed

LEMMA NextKeepsOvertaken == IInv /\ Overtaken /\ [Next]_vars => Overtaken'
<1> SUFFICES ASSUME IInv, Overtaken, [Next]_vars PROVE Overtaken'
  OBVIOUS
<1>1. CASE UNCHANGED vars
  BY <1>1, LinesAndThreads DEF vars, gates
<1>2. ASSUME NEW c \in Conn, Watchdog(c)
      PROVE  Overtaken'
  <2>1. (passed = Unpassed)' => Overtaken'
    BY UnpassedOvertaken, PTL
  <2>2. QED
    BY <1>2, <2>1 DEF Watchdog, Unpassed
<1>3. QED
  BY <1>1, <1>2, ElsewhereKeepsOvertaken, AskFreeGateKeepsOvertaken, AskBusyGateKeepsOvertaken,
     AdmittedKeepsOvertaken, WaitedTooLongKeepsOvertaken, EnterModelKeepsOvertaken DEF Next, Handle

-----------------------------------------------------------------------------
(* The theorems.                                                           *)

\* The slots of the semaphore are those that no accepted connection has, each gate is
\* held by the thread that is in it and its line has those that wait for it, and the
\* watchdog runs only during a call: after any step of any number of connections,
\* whichever of them fail, give up, are refused or are ended by the watchdog.
THEOREM LedgersAreRight == Spec => []LedgersAgree
<1>1. IInv => LedgersAgree
  <2> SUFFICES ASSUME IInv PROVE LedgersAgree
    OBVIOUS
  <2>1. MaxConnections \in Nat /\ slots \in Nat /\ IsFiniteSet(AcceptedSet)
        /\ slots + Cardinality(AcceptedSet) = MaxConnections
    BY ServerAssumption DEF IInv, SlotsCount
  <2>2. Cardinality(AcceptedSet) \in Nat
    BY <2>1, FS_CardinalityType
  <2>3. TypeOK
    <3>1. slots \in 0..MaxConnections
      BY <2>1, <2>2
    <3>2. QED
      BY <3>1 DEF TypeOK, IInv, Types, Handler, GpuAgrees, NeedleAgrees, GateAgrees
  <2>4. SlotsAgree
    <3>1. AcceptedSet = {c \in Conn : Accepted(c)}
      BY DEF AcceptedSet, Accepted
    <3>2. slots = MaxConnections - Cardinality(AcceptedSet)
      BY <2>1, <2>2
    <3>3. QED
      BY <3>1, <3>2 DEF SlotsAgree
  <2>5. GatesAgree
    <3>1. ASSUME NEW c \in Conn
          PROVE  /\ gpuHolder = c <=> InGate(c) /\ ~UsesNeedle(c)
                 /\ needleHolder = c <=> InGate(c) /\ UsesNeedle(c)
      BY DEF IInv, GpuAgrees, NeedleAgrees, GateAgrees, GpuIn, NeedleIn, InGate, UsesNeedle, Gated
    <3>2. ASSUME NEW c \in Conn
          PROVE  (\E i \in 1..Len(LineOf(c)) : LineOf(c)[i] = c) <=> At(c, "wait")
      <4>1. CASE UsesNeedle(c)
        BY <4>1 DEF IInv, NeedleAgrees, GateAgrees, NeedleWaiting, LineOf, UsesNeedle, At
      <4>2. CASE ~UsesNeedle(c)
        BY <4>2 DEF IInv, GpuAgrees, GateAgrees, GpuWaiting, LineOf, UsesNeedle, At
      <4>3. QED
        BY <4>1, <4>2
    <3>3. ASSUME NEW c \in Conn, watched[c]
          PROVE  InGate(c) /\ thread[c].job # "start"
      BY <3>3 DEF IInv, WatchesCalls, InGate, Gated
    <3>4. QED
      BY <3>1, <3>2, <3>3 DEF GatesAgree
  <2>6. QED
    BY <2>3, <2>4, <2>5 DEF LedgersAgree
<1>2. QED
  BY Invariance, <1>1, PTL

\* Whoever waits for a model sees at most one call of every other connection begin
\* before its own: the queue is released between the chunks of a speech and the
\* blocks of an utterance, and who asks again is behind all that wait.
THEOREM CallsDoNotOvertake == Spec => []OneCallEach
<1>1. Init => Overtaken
  BY UnpassedOvertaken DEF Init
<1>2. Overtaken => OneCallEach
  <2>1. \A n \in {0, 1} : n <= 1
    OBVIOUS
  <2>2. QED
    BY <2>1 DEF Overtaken, OneCallEach
<1>3. QED
  BY Invariance, <1>1, <1>2, NextKeepsOvertaken, PTL DEF Spec

=============================================================================
