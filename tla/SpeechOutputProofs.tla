------------------------- MODULE SpeechOutputProofs -------------------------
(***************************************************************************)
(* Theorems about SpeechOutput, for every set of callers, every length of  *)
(* a sound and every backlog of frames.                                    *)
(***************************************************************************)
EXTENDS SpeechOutput, TLAPS

\* The threads that hold the lock, and those of them whose device may sound.
Holding == {"locked", "connecting", "looking", "writing", "draining", "closing", "clearing"}
Loud == {"looking", "writing", "draining", "closing"}

\* A receiver that still runs has not yet received tts_end, and a call without
\* a connection has no receiver.
ReceivesToTheEnd ==
  \A w \in Worker :
    /\ receiver[w] = "running" => got[w] <= Slices + 1
    /\ pc[w] \in Location \ Loud => receiver[w] = "none" /\ got[w] = 0

\* The lock's owner is the one thread between its acquisition and its release;
\* it is busy from busy.set() to busy.clear(), and only then is a device open.
BusyHolder ==
  /\ \A t \in Thread : pc[t] \in Holding <=> lock = t
  /\ \A t \in Thread : pc[t] \in Holding \ {"locked"} => busy
  /\ \A t \in Thread : stream[t] # "none" => pc[t] \in Loud

\* The mute covers what was captured: a frame of the speaker that is not yet
\* judged finds the quiet time running or a thread that is busy, and if the
\* listener has already seen that nobody is busy, it finds the quiet time.
MuteCovers ==
  /\ CaughtUp \/ quiet \/ \E t \in Thread : pc[t] \in Loud
  /\ listener = "reading_quiet" /\ frame => quiet
  /\ HearsOnlyTheRoom

\* A slice is late only if it was in hand when its sound was cancelled.
LateOnce ==
  \A t \in Thread : /\ late[t] \in {0, 1}
                    /\ late[t] = 1 => cancelled[t] /\ pc[t] # "writing"

\* A queue holds the messages of the reply from the k-th on, one after the
\* other; only when nothing follows may its last message be a failure.
Failure == {"error", "exception"}

Chain(q, k, open) ==
  \A i \in 1..Len(q) : \/ q[i] = Script(k + i - 1)
                       \/ i = Len(q) /\ ~open /\ q[i] \in Failure

\* The number of the message that the player of w handles or waits for, and of
\* the one after that if the first is in its hand.
Awaited(w) == IF stream[w] = "none" THEN 0 ELSE played[w] + 1
Queued(w) == IF pc[w] = "writing" THEN Awaited(w) + 1 ELSE Awaited(w)

\* The player takes the messages of its own reply in the order they were sent,
\* none twice and none left out.
InOrder(w) ==
  /\ pc[w] \in {"looking", "writing"} =>
       /\ stream[w] = "none" => played[w] = 0
       /\ played[w] <= Slices
       /\ Chain(inbox[w], Queued(w), receiver[w] = "running")
       /\ receiver[w] = "running" => got[w] = Queued(w) + Len(inbox[w])
  /\ pc[w] = "writing" => \/ hand[w] = Script(Awaited(w))
                          \/ hand[w] \in Failure
  /\ pc[w] \in Location \ Loud => inbox[w] = <<>>

\* A sound has no result before its finally block and the one it deserves in it.
Told(t) ==
  /\ pc[t] \in Location \ {"closing", "clearing"} => result[t] = "none"
  /\ pc[t] \in {"idle", "waiting", "locked", "connecting"} => played[t] = 0
  /\ pc[t] = "draining" => cancelled[t] \/ (Completed(t) /\ played[t] = Slices)
  /\ result[t] = "heard" => played[t] = Slices
  /\ result[t] = "cut" => cancelled[t]

Faithful == /\ \A w \in Worker : InOrder(w)
            /\ \A t \in Thread : Told(t)

IInv == TypeOK /\ ReceivesToTheEnd /\ BusyHolder /\ LateOnce

-----------------------------------------------------------------------------
LEMMA InitIInv == Init => IInv /\ MuteCovers
<1> SUFFICES ASSUME Init
             PROVE  IInv /\ MuteCovers
  OBVIOUS
<1>1. TypeOK
  <2>1. lock \in Thread \cup {Free} /\ busy \in BOOLEAN /\ quiet \in BOOLEAN
    BY DEF Init
  <2>2. pc \in [Thread -> Location] /\ cancelled \in [Thread -> BOOLEAN]
    BY DEF Init, Location
  <2>3. /\ stream \in [Thread -> {"none", "open", "sounding", "stopped"}]
        /\ result \in [Thread -> Result]
    BY DEF Init, Result
  <2>4. played \in [Thread -> Nat] /\ late \in [Thread -> Nat]
    BY DEF Init
  <2>5. receiver \in [Worker -> {"none", "running", "done"}] /\ hand \in [Worker -> Message]
    BY DEF Init, Message
  <2>6. got \in [Worker -> 0..(Slices + 2)]
    BY SlicesAssumption DEF Init
  <2>7. inbox \in [Worker -> Seq(Message)] /\ frames \in Seq(BOOLEAN)
    BY DEF Init
  <2>8. frame \in BOOLEAN /\ listener \in {"away", "reading_busy", "reading_quiet", "hearing"}
    BY DEF Init
  <2>9. QED
    BY <2>1, <2>2, <2>3, <2>4, <2>5, <2>6, <2>7, <2>8 DEF TypeOK
<1>2. ReceivesToTheEnd
  BY DEF Init, ReceivesToTheEnd, Location, Loud
<1>3. BusyHolder
  BY FreeAssumption DEF Init, BusyHolder, Holding, Loud
<1>4. LateOnce
  BY DEF Init, LateOnce
<1>5. MuteCovers
  BY DEF Init, MuteCovers, CaughtUp, HearsOnlyTheRoom
<1>6. QED
  BY <1>1, <1>2, <1>3, <1>4, <1>5 DEF IInv

\* Functions to queues and to counters stay such.
LEMMA QueueFunctions ==
  ASSUME NEW S, NEW M, NEW f \in [S -> Seq(M)], NEW s \in S
  PROVE  /\ [f EXCEPT ![s] = <<>>] \in [S -> Seq(M)]
         /\ f[s] # <<>> => [f EXCEPT ![s] = Tail(@)] \in [S -> Seq(M)]
         /\ \A m \in M : [f EXCEPT ![s] = Append(@, m)] \in [S -> Seq(M)]
<1>1. f[s] \in Seq(M)
  OBVIOUS
<1>2. /\ <<>> \in Seq(M)
      /\ f[s] # <<>> => Tail(f[s]) \in Seq(M)
      /\ \A m \in M : Append(f[s], m) \in Seq(M)
  BY <1>1
<1>3. \A q \in Seq(M) : [f EXCEPT ![s] = q] \in [S -> Seq(M)]
  OBVIOUS
<1>4. QED
  BY <1>2, <1>3

LEMMA CounterFunctions ==
  ASSUME NEW S, NEW f \in [S -> Nat], NEW s \in S
  PROVE  [f EXCEPT ![s] = @ + 1] \in [S -> Nat]
<1>1. f[s] + 1 \in Nat
  OBVIOUS
<1>2. QED
  BY <1>1

\* Every step keeps the types.
LEMMA NextKeepsTypes == TypeOK /\ ReceivesToTheEnd /\ [Next]_vars => TypeOK' /\ ReceivesToTheEnd'
<1> SUFFICES ASSUME TypeOK /\ ReceivesToTheEnd, [Next]_vars
             PROVE  TypeOK' /\ ReceivesToTheEnd'
  OBVIOUS
<1>1. CASE UNCHANGED vars
  BY <1>1, SlicesAssumption DEF vars, sound, reply, mic, TypeOK, ReceivesToTheEnd, Loud, Thread, Location, Result, Message
<1>2. ASSUME NEW t \in Thread, Call(t)
      PROVE  TypeOK' /\ ReceivesToTheEnd'
  BY <1>2, SlicesAssumption DEF Call, Go, sound, reply, mic, TypeOK, ReceivesToTheEnd, Loud, Thread, Location, Result, Message
<1>3. ASSUME NEW t \in Thread, Cancel(t)
      PROVE  TypeOK' /\ ReceivesToTheEnd'
  BY <1>3, SlicesAssumption DEF Cancel, sound, reply, mic, TypeOK, ReceivesToTheEnd, Loud, Thread, Location, Result, Message
<1>4. ASSUME NEW t \in Thread, Fails(t)
      PROVE  TypeOK' /\ ReceivesToTheEnd'
  BY <1>4, SlicesAssumption DEF Fails, Raise, Go, sound, reply, mic, TypeOK, ReceivesToTheEnd, Loud, Thread, Location, Result, Message
<1>5. ASSUME NEW t \in Thread, TakeLock(t)
      PROVE  TypeOK' /\ ReceivesToTheEnd'
  BY <1>5, SlicesAssumption DEF TakeLock, Go, sound, reply, mic, TypeOK, ReceivesToTheEnd, Loud, Thread, Location, Result, Message
<1>6. ASSUME NEW t \in Thread, Skip(t)
      PROVE  TypeOK' /\ ReceivesToTheEnd'
  BY <1>6, SlicesAssumption DEF Skip, Return, Go, sound, reply, mic, TypeOK, ReceivesToTheEnd, Loud, Thread, Location, Result, Message
<1>7. ASSUME NEW t \in Thread, Begin(t)
      PROVE  TypeOK' /\ ReceivesToTheEnd'
  BY <1>7, SlicesAssumption DEF Begin, Go, sound, reply, mic, TypeOK, ReceivesToTheEnd, Loud, Thread, Location, Result, Message
<1>8. ASSUME NEW t \in Thread, Interrupted(t)
      PROVE  TypeOK' /\ ReceivesToTheEnd'
  BY <1>8, SlicesAssumption DEF Interrupted, Go, sound, reply, mic, TypeOK, ReceivesToTheEnd, Loud, Thread, Location, Result, Message
<1>9. ASSUME NEW t \in Thread, Drain(t)
      PROVE  TypeOK' /\ ReceivesToTheEnd'
  BY <1>9, SlicesAssumption DEF Drain, Go, sound, reply, mic, TypeOK, ReceivesToTheEnd, Loud, Thread, Location, Result, Message
<1>10. ASSUME NEW t \in Thread, CloseSound(t)
       PROVE  TypeOK' /\ ReceivesToTheEnd'
  <2>1. /\ lock' \in Thread \cup {Free} /\ busy' \in BOOLEAN /\ quiet' \in BOOLEAN
        /\ frames' \in Seq(BOOLEAN) /\ frame' \in BOOLEAN
        /\ listener' \in {"away", "reading_busy", "reading_quiet", "hearing"}
    BY <1>10 DEF CloseSound, Go, sound, reply, mic, TypeOK
  <2>2. pc' \in [Thread -> Location] /\ cancelled' \in [Thread -> BOOLEAN]
    BY <1>10 DEF CloseSound, Go, sound, reply, mic, TypeOK, Location, Thread
  <2>3. /\ stream' \in [Thread -> {"none", "open", "sounding", "stopped"}]
        /\ result' \in [Thread -> Result]
    BY <1>10 DEF CloseSound, Go, sound, reply, mic, TypeOK, Result, Thread
  <2>4. played' \in [Thread -> Nat] /\ late' \in [Thread -> Nat]
    BY <1>10 DEF CloseSound, Go, sound, reply, mic, TypeOK, Thread
  <2>5. receiver' \in [Worker -> {"none", "running", "done"}] /\ hand' \in [Worker -> Message]
    BY <1>10 DEF CloseSound, Go, sound, reply, mic, TypeOK, Message
  <2>6. got' \in [Worker -> 0..(Slices + 2)] /\ ReceivesToTheEnd'
    <3>1. got' = got \/ got' = [got EXCEPT ![t] = 0]
      BY <1>10 DEF CloseSound, reply
    <3>2. \A w \in Worker :
            \/ w = t /\ receiver'[w] = "none" /\ got'[w] = 0
            \/ w # t /\ receiver'[w] = receiver[w] /\ got'[w] = got[w] /\ pc'[w] = pc[w]
      BY <1>10 DEF CloseSound, Go, reply, TypeOK, Thread
    <3>3. got \in [Worker -> 0..(Slices + 2)]
      BY DEF TypeOK
    <3>4. got' \in [Worker -> 0..(Slices + 2)]
      <4>1. 0 \in 0..(Slices + 2)
        BY SlicesAssumption
      <4>2. QED
        BY <3>1, <3>3, <4>1
    <3>5. ReceivesToTheEnd'
      BY <3>2 DEF ReceivesToTheEnd
    <3>6. QED
      BY <3>4, <3>5
  <2>7. inbox' \in [Worker -> Seq(Message)]
    <3>1. inbox' = inbox \/ (t \in Worker /\ inbox' = [inbox EXCEPT ![t] = <<>>])
      BY <1>10 DEF CloseSound, reply
    <3>2. inbox \in [Worker -> Seq(Message)]
      BY DEF TypeOK
    <3>3. t \in Worker => [inbox EXCEPT ![t] = <<>>] \in [Worker -> Seq(Message)]
      BY <3>2, QueueFunctions
    <3>4. QED
      BY <3>1, <3>2, <3>3
  <2>8. QED
    BY <2>1, <2>2, <2>3, <2>4, <2>5, <2>6, <2>7 DEF TypeOK
<1>11. ASSUME NEW t \in Thread, Leave(t)
       PROVE  TypeOK' /\ ReceivesToTheEnd'
  BY <1>11, SlicesAssumption DEF Leave, Return, Go, sound, reply, mic, TypeOK, ReceivesToTheEnd, Loud, Thread, Location, Result, Message
<1>12. ASSUME NEW w \in Worker, Connect(w)
       PROVE  TypeOK' /\ ReceivesToTheEnd'
  <2>1. /\ lock' \in Thread \cup {Free} /\ busy' \in BOOLEAN /\ quiet' \in BOOLEAN
        /\ frames' \in Seq(BOOLEAN) /\ frame' \in BOOLEAN
        /\ listener' \in {"away", "reading_busy", "reading_quiet", "hearing"}
    BY <1>12 DEF Connect, Go, sound, reply, mic, TypeOK
  <2>2. pc' \in [Thread -> Location] /\ cancelled' \in [Thread -> BOOLEAN]
    BY <1>12 DEF Connect, Go, sound, reply, mic, TypeOK, Location, Thread
  <2>3. /\ stream' \in [Thread -> {"none", "open", "sounding", "stopped"}]
        /\ result' \in [Thread -> Result]
    BY <1>12 DEF Connect, Go, sound, reply, mic, TypeOK, Result, Thread
  <2>4. played' \in [Thread -> Nat] /\ late' \in [Thread -> Nat]
    BY <1>12 DEF Connect, Go, sound, reply, mic, TypeOK, Thread
  <2>5. receiver' \in [Worker -> {"none", "running", "done"}] /\ hand' \in [Worker -> Message]
    BY <1>12 DEF Connect, Go, sound, reply, mic, TypeOK, Message
  <2>6. got' \in [Worker -> 0..(Slices + 2)] /\ ReceivesToTheEnd'
    <3>1. got' = got /\ got[w] = 0 /\ receiver' = [receiver EXCEPT ![w] = "running"]
      BY <1>12 DEF Connect, ReceivesToTheEnd, Location, Loud
    <3>2. \A v \in Worker \ {w} : receiver'[v] = receiver[v] /\ pc'[v] = pc[v]
      BY <1>12, <3>1 DEF Connect, Go, TypeOK, Thread
    <3>3. pc'[w] \notin Location \ Loud
      BY <1>12 DEF Connect, Go, TypeOK, Thread, Loud
    <3>4. ReceivesToTheEnd'
      BY <3>1, <3>2, <3>3, SlicesAssumption DEF ReceivesToTheEnd
    <3>5. QED
      BY <3>1, <3>4 DEF TypeOK
  <2>7. inbox' \in [Worker -> Seq(Message)]
    BY <1>12 DEF Connect, Go, sound, reply, mic, TypeOK, Message
  <2>8. QED
    BY <2>1, <2>2, <2>3, <2>4, <2>5, <2>6, <2>7 DEF TypeOK
<1>13. ASSUME NEW w \in Worker, TakeMessage(w)
       PROVE  TypeOK' /\ ReceivesToTheEnd'
  <2>1. /\ lock' \in Thread \cup {Free} /\ busy' \in BOOLEAN /\ quiet' \in BOOLEAN
        /\ frames' \in Seq(BOOLEAN) /\ frame' \in BOOLEAN
        /\ listener' \in {"away", "reading_busy", "reading_quiet", "hearing"}
    BY <1>13 DEF TakeMessage, Go, sound, reply, mic, TypeOK
  <2>2. pc' \in [Thread -> Location] /\ cancelled' \in [Thread -> BOOLEAN]
    BY <1>13 DEF TakeMessage, Go, sound, reply, mic, TypeOK, Location, Thread
  <2>3. /\ stream' \in [Thread -> {"none", "open", "sounding", "stopped"}]
        /\ result' \in [Thread -> Result]
    BY <1>13 DEF TakeMessage, Go, sound, reply, mic, TypeOK, Result, Thread
  <2>4. played' \in [Thread -> Nat] /\ late' \in [Thread -> Nat]
    BY <1>13 DEF TakeMessage, Go, sound, reply, mic, TypeOK, Thread
  <2>5. receiver' \in [Worker -> {"none", "running", "done"}] /\ hand' \in [Worker -> Message]
    <3>1. Head(inbox[w]) \in Message /\ hand' = [hand EXCEPT ![w] = Head(inbox[w])] /\ receiver' = receiver
      <4>1. inbox[w] \in Seq(Message) /\ inbox[w] # <<>>
        BY <1>13 DEF TakeMessage, TypeOK
      <4>2. QED
        BY <1>13, <4>1 DEF TakeMessage
    <3>2. QED
      BY <3>1 DEF TypeOK
  <2>6. got' \in [Worker -> 0..(Slices + 2)] /\ ReceivesToTheEnd'
    BY <1>13, SlicesAssumption DEF TakeMessage, Go, sound, reply, mic, TypeOK, ReceivesToTheEnd, Loud, Location, Thread
  <2>7. inbox' \in [Worker -> Seq(Message)]
    <3>1. inbox[w] # <<>> /\ inbox' = [inbox EXCEPT ![w] = Tail(@)]
      BY <1>13 DEF TakeMessage
    <3>2. inbox \in [Worker -> Seq(Message)]
      BY DEF TypeOK
    <3>3. QED
      BY <3>1, <3>2, QueueFunctions
  <2>8. QED
    BY <2>1, <2>2, <2>3, <2>4, <2>5, <2>6, <2>7 DEF TypeOK
<1>14. ASSUME NEW w \in Worker, Handle(w)
       PROVE  TypeOK' /\ ReceivesToTheEnd'
  <2>1. /\ lock' \in Thread \cup {Free} /\ busy' \in BOOLEAN /\ quiet' \in BOOLEAN
        /\ frames' \in Seq(BOOLEAN) /\ frame' \in BOOLEAN
        /\ listener' \in {"away", "reading_busy", "reading_quiet", "hearing"}
    BY <1>14 DEF Handle, Play, Raise, Go, sound, reply, mic, TypeOK
  <2>2. pc' \in [Thread -> Location] /\ cancelled' \in [Thread -> BOOLEAN]
    BY <1>14 DEF Handle, Play, Raise, Go, sound, reply, mic, TypeOK, Location, Thread
  <2>3. /\ stream' \in [Thread -> {"none", "open", "sounding", "stopped"}]
        /\ result' \in [Thread -> Result]
    BY <1>14 DEF Handle, Play, Raise, Go, sound, reply, mic, TypeOK, Result, Thread
  <2>4. played' \in [Thread -> Nat] /\ late' \in [Thread -> Nat]
    <3>1. /\ played' = played \/ played' = [played EXCEPT ![w] = @ + 1]
          /\ late' = late \/ late' = [late EXCEPT ![w] = @ + 1]
      BY <1>14 DEF Handle, Play, Raise, TypeOK, Thread
    <3>2. played \in [Thread -> Nat] /\ late \in [Thread -> Nat] /\ w \in Thread
      BY DEF TypeOK, Thread
    <3>3. QED
      BY <3>1, <3>2, CounterFunctions
  <2>5. receiver' \in [Worker -> {"none", "running", "done"}] /\ hand' \in [Worker -> Message]
    BY <1>14 DEF Handle, Play, Raise, Go, sound, reply, mic, TypeOK, Message
  <2>6. got' \in [Worker -> 0..(Slices + 2)] /\ ReceivesToTheEnd'
    BY <1>14, SlicesAssumption DEF Handle, Play, Raise, Go, sound, reply, mic, TypeOK, ReceivesToTheEnd, Loud, Location, Thread
  <2>7. inbox' \in [Worker -> Seq(Message)]
    BY <1>14 DEF Handle, Play, Raise, Go, sound, reply, mic, TypeOK, Message
  <2>8. QED
    BY <2>1, <2>2, <2>3, <2>4, <2>5, <2>6, <2>7 DEF TypeOK
<1>15. ASSUME NEW w \in Worker, Receive(w)
       PROVE  TypeOK' /\ ReceivesToTheEnd'
  <2>1. /\ lock' \in Thread \cup {Free} /\ busy' \in BOOLEAN /\ quiet' \in BOOLEAN
        /\ frames' \in Seq(BOOLEAN) /\ frame' \in BOOLEAN
        /\ listener' \in {"away", "reading_busy", "reading_quiet", "hearing"}
    BY <1>15 DEF Receive, Put, Script, sound, reply, mic, TypeOK
  <2>2. pc' \in [Thread -> Location] /\ cancelled' \in [Thread -> BOOLEAN]
    BY <1>15 DEF Receive, Put, Script, sound, reply, mic, TypeOK, Location, Thread
  <2>3. /\ stream' \in [Thread -> {"none", "open", "sounding", "stopped"}]
        /\ result' \in [Thread -> Result]
    BY <1>15 DEF Receive, Put, Script, sound, reply, mic, TypeOK, Result, Thread
  <2>4. played' \in [Thread -> Nat] /\ late' \in [Thread -> Nat]
    BY <1>15 DEF Receive, Put, Script, sound, reply, mic, TypeOK, Thread
  <2>5. receiver' \in [Worker -> {"none", "running", "done"}] /\ hand' \in [Worker -> Message]
    BY <1>15 DEF Receive, Put, Script, sound, reply, mic, TypeOK, Message
  <2>6. got' \in [Worker -> 0..(Slices + 2)] /\ ReceivesToTheEnd'
    <3>1. receiver[w] = "running" /\ got \in [Worker -> 0..(Slices + 2)]
      BY <1>15 DEF Receive, TypeOK
    <3>2. got[w] \in 0..(Slices + 1)
      BY <3>1, SlicesAssumption DEF ReceivesToTheEnd
    <3>3. /\ \A v \in Worker \ {w} : got'[v] = got[v] /\ receiver'[v] = receiver[v]
          /\ pc' = pc /\ pc[w] \notin Location \ Loud
      BY <1>15 DEF Receive, Put, TypeOK, ReceivesToTheEnd, sound
    <3>4. CASE got' = got /\ \E m \in {"error", "exception"} : Put(w, m)
      <4>1. receiver'[w] = "done"
        BY <3>4 DEF Put, TypeOK
      <4>2. QED
        BY <3>1, <3>3, <3>4, <4>1 DEF ReceivesToTheEnd
    <3>5. CASE got' = [got EXCEPT ![w] = @ + 1] /\ Put(w, Script(got[w]))
      <4>1. got'[w] = got[w] + 1 /\ got[w] + 1 \in 0..(Slices + 2)
        BY <3>1, <3>2, <3>5, SlicesAssumption
      <4>2. got' \in [Worker -> 0..(Slices + 2)]
        BY <3>1, <3>5, <4>1
      <4>3. got[w] = Slices + 1 => Script(got[w]) = "tts_end"
        BY SlicesAssumption DEF Script
      <4>4. got[w] = Slices + 1 => receiver'[w] = "done"
        BY <3>5, <4>3 DEF Put, TypeOK
      <4>5. receiver'[w] = "running" => got'[w] <= Slices + 1
        BY <3>2, <4>1, <4>4, SlicesAssumption
      <4>6. QED
        BY <3>3, <4>2, <4>5 DEF ReceivesToTheEnd
    <3>6. QED
      BY <1>15, <3>4, <3>5 DEF Receive
  <2>7. inbox' \in [Worker -> Seq(Message)]
    <3>1. \E m \in Message : inbox' = [inbox EXCEPT ![w] = Append(@, m)]
      BY <1>15 DEF Receive, Put, Script, Message
    <3>2. inbox \in [Worker -> Seq(Message)]
      BY DEF TypeOK
    <3>3. QED
      BY <3>1, <3>2, QueueFunctions
  <2>8. QED
    BY <2>1, <2>2, <2>3, <2>4, <2>5, <2>6, <2>7 DEF TypeOK
<1>16. ASSUME NEW w \in Worker, ReceiverStops(w)
       PROVE  TypeOK' /\ ReceivesToTheEnd'
  BY <1>16, SlicesAssumption DEF ReceiverStops, sound, reply, mic, TypeOK, ReceivesToTheEnd, Loud, Thread, Location, Result, Message
<1>17. ASSUME NEW r \in Ringer, NextSlice(r)
       PROVE  TypeOK' /\ ReceivesToTheEnd'
  BY <1>17, SlicesAssumption DEF NextSlice, Go, sound, reply, mic, TypeOK, ReceivesToTheEnd, Loud, Thread, Location, Result, Message
<1>18. ASSUME NEW r \in Ringer, WriteSlice(r)
       PROVE  TypeOK' /\ ReceivesToTheEnd'
  <2>1. /\ lock' \in Thread \cup {Free} /\ busy' \in BOOLEAN /\ quiet' \in BOOLEAN
        /\ frames' \in Seq(BOOLEAN) /\ frame' \in BOOLEAN
        /\ listener' \in {"away", "reading_busy", "reading_quiet", "hearing"}
    BY <1>18 DEF WriteSlice, Play, Go, sound, reply, mic, TypeOK
  <2>2. pc' \in [Thread -> Location] /\ cancelled' \in [Thread -> BOOLEAN]
    BY <1>18 DEF WriteSlice, Play, Go, sound, reply, mic, TypeOK, Location, Thread
  <2>3. /\ stream' \in [Thread -> {"none", "open", "sounding", "stopped"}]
        /\ result' \in [Thread -> Result]
    BY <1>18 DEF WriteSlice, Play, Go, sound, reply, mic, TypeOK, Result, Thread
  <2>4. played' \in [Thread -> Nat] /\ late' \in [Thread -> Nat]
    <3>1. /\ played' = [played EXCEPT ![r] = @ + 1]
          /\ late' = late \/ late' = [late EXCEPT ![r] = @ + 1]
      BY <1>18 DEF WriteSlice, Play, TypeOK, Thread
    <3>2. played \in [Thread -> Nat] /\ late \in [Thread -> Nat] /\ r \in Thread
      BY DEF TypeOK, Thread
    <3>3. QED
      BY <3>1, <3>2, CounterFunctions
  <2>5. receiver' \in [Worker -> {"none", "running", "done"}] /\ hand' \in [Worker -> Message]
    BY <1>18 DEF WriteSlice, Play, Go, sound, reply, mic, TypeOK, Message
  <2>6. got' \in [Worker -> 0..(Slices + 2)] /\ ReceivesToTheEnd'
    BY <1>18, SlicesAssumption DEF WriteSlice, Play, Go, sound, reply, mic, TypeOK, ReceivesToTheEnd, Loud, Location, Thread
  <2>7. inbox' \in [Worker -> Seq(Message)]
    BY <1>18 DEF WriteSlice, Play, Go, sound, reply, mic, TypeOK, Message
  <2>8. QED
    BY <2>1, <2>2, <2>3, <2>4, <2>5, <2>6, <2>7 DEF TypeOK
<1>19. CASE Capture
  <2>1. /\ lock' \in Thread \cup {Free} /\ busy' \in BOOLEAN /\ quiet' \in BOOLEAN
        /\ frames' \in Seq(BOOLEAN) /\ frame' \in BOOLEAN
        /\ listener' \in {"away", "reading_busy", "reading_quiet", "hearing"}
    <3>1. Sounding \in BOOLEAN /\ frames \in Seq(BOOLEAN) /\ frames' = Append(frames, Sounding)
      BY <1>19 DEF Capture, TypeOK, Sounding
    <3>2. frames' \in Seq(BOOLEAN)
      BY <3>1
    <3>3. QED
      BY <1>19, <3>2 DEF Capture, TypeOK
  <2>2. pc' \in [Thread -> Location] /\ cancelled' \in [Thread -> BOOLEAN]
    BY <1>19 DEF Capture, sound, reply, mic, TypeOK, Location, Thread
  <2>3. /\ stream' \in [Thread -> {"none", "open", "sounding", "stopped"}]
        /\ result' \in [Thread -> Result]
    BY <1>19 DEF Capture, sound, reply, mic, TypeOK, Result, Thread
  <2>4. played' \in [Thread -> Nat] /\ late' \in [Thread -> Nat]
    BY <1>19 DEF Capture, sound, reply, mic, TypeOK, Thread
  <2>5. receiver' \in [Worker -> {"none", "running", "done"}] /\ hand' \in [Worker -> Message]
    BY <1>19 DEF Capture, sound, reply, mic, TypeOK, Message
  <2>6. got' \in [Worker -> 0..(Slices + 2)] /\ ReceivesToTheEnd'
    BY <1>19, SlicesAssumption DEF Capture, sound, reply, mic, TypeOK, ReceivesToTheEnd, Loud, Location, Thread
  <2>7. inbox' \in [Worker -> Seq(Message)]
    BY <1>19 DEF Capture, sound, reply, mic, TypeOK, Message
  <2>8. QED
    BY <2>1, <2>2, <2>3, <2>4, <2>5, <2>6, <2>7 DEF TypeOK
<1>20. CASE TakeFrame
  <2>1. /\ lock' \in Thread \cup {Free} /\ busy' \in BOOLEAN /\ quiet' \in BOOLEAN
        /\ frames' \in Seq(BOOLEAN) /\ frame' \in BOOLEAN
        /\ listener' \in {"away", "reading_busy", "reading_quiet", "hearing"}
    <3>1. frames \in Seq(BOOLEAN) /\ frames # <<>>
      BY <1>20 DEF TakeFrame, TypeOK
    <3>2. Head(frames) \in BOOLEAN /\ Tail(frames) \in Seq(BOOLEAN)
      BY <3>1
    <3>3. QED
      BY <1>20, <3>2 DEF TakeFrame, TypeOK
  <2>2. pc' \in [Thread -> Location] /\ cancelled' \in [Thread -> BOOLEAN]
    BY <1>20 DEF TakeFrame, sound, reply, mic, TypeOK, Location, Thread
  <2>3. /\ stream' \in [Thread -> {"none", "open", "sounding", "stopped"}]
        /\ result' \in [Thread -> Result]
    BY <1>20 DEF TakeFrame, sound, reply, mic, TypeOK, Result, Thread
  <2>4. played' \in [Thread -> Nat] /\ late' \in [Thread -> Nat]
    BY <1>20 DEF TakeFrame, sound, reply, mic, TypeOK, Thread
  <2>5. receiver' \in [Worker -> {"none", "running", "done"}] /\ hand' \in [Worker -> Message]
    BY <1>20 DEF TakeFrame, sound, reply, mic, TypeOK, Message
  <2>6. got' \in [Worker -> 0..(Slices + 2)] /\ ReceivesToTheEnd'
    BY <1>20, SlicesAssumption DEF TakeFrame, sound, reply, mic, TypeOK, ReceivesToTheEnd, Loud, Location, Thread
  <2>7. inbox' \in [Worker -> Seq(Message)]
    BY <1>20 DEF TakeFrame, sound, reply, mic, TypeOK, Message
  <2>8. QED
    BY <2>1, <2>2, <2>3, <2>4, <2>5, <2>6, <2>7 DEF TypeOK
<1>21. CASE ReadBusy
  BY <1>21, SlicesAssumption DEF ReadBusy, sound, reply, mic, TypeOK, ReceivesToTheEnd, Loud, Thread, Location, Result, Message
<1>22. CASE ReadQuiet
  BY <1>22, SlicesAssumption DEF ReadQuiet, sound, reply, mic, TypeOK, ReceivesToTheEnd, Loud, Thread, Location, Result, Message
<1>23. CASE Hear
  BY <1>23, SlicesAssumption DEF Hear, sound, reply, mic, TypeOK, ReceivesToTheEnd, Loud, Thread, Location, Result, Message
<1>24. CASE DropBacklog
  BY <1>24, SlicesAssumption DEF DropBacklog, sound, reply, mic, TypeOK, ReceivesToTheEnd, Loud, Thread, Location, Result, Message
<1>25. CASE QuietEnds
  BY <1>25, SlicesAssumption DEF QuietEnds, sound, reply, mic, TypeOK, ReceivesToTheEnd, Loud, Thread, Location, Result, Message
<1>26. QED
  BY <1>1, <1>2, <1>3, <1>4, <1>5, <1>6, <1>7, <1>8, <1>9, <1>10, <1>11, <1>12, <1>13, <1>14, <1>15, <1>16, <1>17, <1>18, <1>19, <1>20, <1>21, <1>22, <1>23, <1>24, <1>25 DEF Next, Player, SpeakStep, ReceiverStep, ChimeStep, Listener

\* Every step keeps the lock with the one thread that plays.
LEMMA NextKeepsHolder == TypeOK /\ BusyHolder /\ [Next]_vars => BusyHolder'
<1> SUFFICES ASSUME TypeOK /\ BusyHolder, [Next]_vars
             PROVE  BusyHolder'
  OBVIOUS
<1>1. CASE UNCHANGED vars
  BY <1>1, FreeAssumption DEF vars, sound, reply, mic, TypeOK, BusyHolder, Thread, Holding, Loud
<1>2. ASSUME NEW t \in Thread, Call(t)
      PROVE  BusyHolder'
  BY <1>2, FreeAssumption DEF Call, Go, sound, reply, mic, TypeOK, BusyHolder, Thread, Holding, Loud
<1>3. ASSUME NEW t \in Thread, Cancel(t)
      PROVE  BusyHolder'
  BY <1>3, FreeAssumption DEF Cancel, sound, reply, mic, TypeOK, BusyHolder, Thread, Holding, Loud
<1>4. ASSUME NEW t \in Thread, Fails(t)
      PROVE  BusyHolder'
  BY <1>4, FreeAssumption DEF Fails, Raise, Go, sound, reply, mic, TypeOK, BusyHolder, Thread, Holding, Loud
<1>5. ASSUME NEW t \in Thread, TakeLock(t)
      PROVE  BusyHolder'
  BY <1>5, FreeAssumption DEF TakeLock, Go, sound, reply, mic, TypeOK, BusyHolder, Thread, Holding, Loud
<1>6. ASSUME NEW t \in Thread, Skip(t)
      PROVE  BusyHolder'
  BY <1>6, FreeAssumption DEF Skip, Return, Go, sound, reply, mic, TypeOK, BusyHolder, Thread, Holding, Loud
<1>7. ASSUME NEW t \in Thread, Begin(t)
      PROVE  BusyHolder'
  BY <1>7, FreeAssumption DEF Begin, Go, sound, reply, mic, TypeOK, BusyHolder, Thread, Holding, Loud
<1>8. ASSUME NEW t \in Thread, Interrupted(t)
      PROVE  BusyHolder'
  BY <1>8, FreeAssumption DEF Interrupted, Go, sound, reply, mic, TypeOK, BusyHolder, Thread, Holding, Loud
<1>9. ASSUME NEW t \in Thread, Drain(t)
      PROVE  BusyHolder'
  BY <1>9, FreeAssumption DEF Drain, Go, sound, reply, mic, TypeOK, BusyHolder, Thread, Holding, Loud
<1>10. ASSUME NEW t \in Thread, CloseSound(t)
       PROVE  BusyHolder'
  BY <1>10, FreeAssumption DEF CloseSound, Go, sound, reply, mic, TypeOK, BusyHolder, Thread, Holding, Loud
<1>11. ASSUME NEW t \in Thread, Leave(t)
       PROVE  BusyHolder'
  BY <1>11, FreeAssumption DEF Leave, Return, Go, sound, reply, mic, TypeOK, BusyHolder, Thread, Holding, Loud
<1>12. ASSUME NEW w \in Worker, Connect(w)
       PROVE  BusyHolder'
  BY <1>12, FreeAssumption DEF Connect, Go, sound, reply, mic, TypeOK, BusyHolder, Thread, Holding, Loud
<1>13. ASSUME NEW w \in Worker, TakeMessage(w)
       PROVE  BusyHolder'
  BY <1>13, FreeAssumption DEF TakeMessage, Go, sound, reply, mic, TypeOK, BusyHolder, Thread, Holding, Loud
<1>14. ASSUME NEW w \in Worker, Handle(w)
       PROVE  BusyHolder'
  BY <1>14, FreeAssumption DEF Handle, Play, Raise, Go, sound, reply, mic, TypeOK, BusyHolder, Thread, Holding, Loud
<1>15. ASSUME NEW w \in Worker, Receive(w)
       PROVE  BusyHolder'
  BY <1>15, FreeAssumption DEF Receive, Put, Script, sound, reply, mic, TypeOK, BusyHolder, Thread, Holding, Loud
<1>16. ASSUME NEW w \in Worker, ReceiverStops(w)
       PROVE  BusyHolder'
  BY <1>16, FreeAssumption DEF ReceiverStops, sound, reply, mic, TypeOK, BusyHolder, Thread, Holding, Loud
<1>17. ASSUME NEW r \in Ringer, NextSlice(r)
       PROVE  BusyHolder'
  BY <1>17, FreeAssumption DEF NextSlice, Go, sound, reply, mic, TypeOK, BusyHolder, Thread, Holding, Loud
<1>18. ASSUME NEW r \in Ringer, WriteSlice(r)
       PROVE  BusyHolder'
  BY <1>18, FreeAssumption DEF WriteSlice, Play, Go, sound, reply, mic, TypeOK, BusyHolder, Thread, Holding, Loud
<1>19. CASE Capture
  BY <1>19, FreeAssumption DEF Capture, sound, reply, mic, TypeOK, BusyHolder, Thread, Holding, Loud
<1>20. CASE TakeFrame
  BY <1>20, FreeAssumption DEF TakeFrame, sound, reply, mic, TypeOK, BusyHolder, Thread, Holding, Loud
<1>21. CASE ReadBusy
  BY <1>21, FreeAssumption DEF ReadBusy, sound, reply, mic, TypeOK, BusyHolder, Thread, Holding, Loud
<1>22. CASE ReadQuiet
  BY <1>22, FreeAssumption DEF ReadQuiet, sound, reply, mic, TypeOK, BusyHolder, Thread, Holding, Loud
<1>23. CASE Hear
  BY <1>23, FreeAssumption DEF Hear, sound, reply, mic, TypeOK, BusyHolder, Thread, Holding, Loud
<1>24. CASE DropBacklog
  BY <1>24, FreeAssumption DEF DropBacklog, sound, reply, mic, TypeOK, BusyHolder, Thread, Holding, Loud
<1>25. CASE QuietEnds
  BY <1>25, FreeAssumption DEF QuietEnds, sound, reply, mic, TypeOK, BusyHolder, Thread, Holding, Loud
<1>26. QED
  BY <1>1, <1>2, <1>3, <1>4, <1>5, <1>6, <1>7, <1>8, <1>9, <1>10, <1>11, <1>12, <1>13, <1>14, <1>15, <1>16, <1>17, <1>18, <1>19, <1>20, <1>21, <1>22, <1>23, <1>24, <1>25 DEF Next, Player, SpeakStep, ReceiverStep, ChimeStep, Listener

\* The write of the slice in hand makes a cancelled sound late by one.
LEMMA LateByOne ==
  ASSUME TypeOK, LateOnce, NEW t \in Thread, pc[t] = "writing", cancelled' = cancelled,
         late' = late \/ late' = [late EXCEPT ![t] = IF cancelled[t] THEN @ + 1 ELSE @],
         \E l \in {"looking", "draining", "closing"} : pc' = [pc EXCEPT ![t] = l]
  PROVE  LateOnce'
<1>1. late[t] = 0
  BY DEF LateOnce
<1>2. \A s \in Thread : s # t => pc'[s] = pc[s] /\ late'[s] = late[s]
  BY DEF TypeOK
<1>3. pc'[t] # "writing"
  BY DEF TypeOK
<1>4. late'[t] = 0 \/ (cancelled[t] /\ late'[t] = 1)
  <2>1. CASE late' = late
    BY <1>1, <2>1
  <2>2. CASE late' = [late EXCEPT ![t] = IF cancelled[t] THEN @ + 1 ELSE @]
    <3>1. late'[t] = IF cancelled[t] THEN late[t] + 1 ELSE late[t]
      BY <2>2 DEF TypeOK
    <3>2. late[t] + 1 = 1
      BY <1>1
    <3>3. QED
      BY <1>1, <3>1, <3>2
  <2>3. QED
    BY <2>1, <2>2
<1>5. ASSUME NEW s \in Thread
      PROVE  late'[s] \in {0, 1} /\ (late'[s] = 1 => cancelled'[s] /\ pc'[s] # "writing")
  BY <1>2, <1>3, <1>4 DEF LateOnce
<1>6. QED
  BY <1>5 DEF LateOnce

\* Every step keeps a late slice the last.
LEMMA NextKeepsLate == TypeOK /\ LateOnce /\ [Next]_vars => LateOnce'
<1> SUFFICES ASSUME TypeOK /\ LateOnce, [Next]_vars
             PROVE  LateOnce'
  OBVIOUS
<1>1. CASE UNCHANGED vars
  BY <1>1 DEF vars, sound, reply, mic, TypeOK, LateOnce, Thread
<1>2. ASSUME NEW t \in Thread, Call(t)
      PROVE  LateOnce'
  BY <1>2 DEF Call, Go, sound, reply, mic, TypeOK, LateOnce, Thread
<1>3. ASSUME NEW t \in Thread, Cancel(t)
      PROVE  LateOnce'
  BY <1>3 DEF Cancel, sound, reply, mic, TypeOK, LateOnce, Thread
<1>4. ASSUME NEW t \in Thread, Fails(t)
      PROVE  LateOnce'
  BY <1>4 DEF Fails, Raise, Go, sound, reply, mic, TypeOK, LateOnce, Thread
<1>5. ASSUME NEW t \in Thread, TakeLock(t)
      PROVE  LateOnce'
  BY <1>5 DEF TakeLock, Go, sound, reply, mic, TypeOK, LateOnce, Thread
<1>6. ASSUME NEW t \in Thread, Skip(t)
      PROVE  LateOnce'
  <2>1. \A s \in Thread : /\ late'[s] = IF s = t THEN 0 ELSE late[s]
                          /\ s # t => cancelled'[s] = cancelled[s] /\ pc'[s] = pc[s]
    BY <1>6 DEF Skip, Return, Go, TypeOK, Thread
  <2>2. QED
    BY <2>1 DEF LateOnce
<1>7. ASSUME NEW t \in Thread, Begin(t)
      PROVE  LateOnce'
  BY <1>7 DEF Begin, Go, sound, reply, mic, TypeOK, LateOnce, Thread
<1>8. ASSUME NEW t \in Thread, Interrupted(t)
      PROVE  LateOnce'
  BY <1>8 DEF Interrupted, Go, sound, reply, mic, TypeOK, LateOnce, Thread
<1>9. ASSUME NEW t \in Thread, Drain(t)
      PROVE  LateOnce'
  BY <1>9 DEF Drain, Go, sound, reply, mic, TypeOK, LateOnce, Thread
<1>10. ASSUME NEW t \in Thread, CloseSound(t)
       PROVE  LateOnce'
  BY <1>10 DEF CloseSound, Go, sound, reply, mic, TypeOK, LateOnce, Thread
<1>11. ASSUME NEW t \in Thread, Leave(t)
       PROVE  LateOnce'
  <2>1. \A s \in Thread : /\ late'[s] = IF s = t THEN 0 ELSE late[s]
                          /\ s # t => cancelled'[s] = cancelled[s] /\ pc'[s] = pc[s]
    BY <1>11 DEF Leave, Return, Go, TypeOK, Thread
  <2>2. QED
    BY <2>1 DEF LateOnce
<1>12. ASSUME NEW w \in Worker, Connect(w)
       PROVE  LateOnce'
  BY <1>12 DEF Connect, Go, sound, reply, mic, TypeOK, LateOnce, Thread
<1>13. ASSUME NEW w \in Worker, TakeMessage(w)
       PROVE  LateOnce'
  BY <1>13 DEF TakeMessage, Go, sound, reply, mic, TypeOK, LateOnce, Thread
<1>14. ASSUME NEW w \in Worker, Handle(w)
       PROVE  LateOnce'
  <2>1. /\ pc[w] = "writing" /\ cancelled' = cancelled
        /\ late' = late \/ late' = [late EXCEPT ![w] = IF cancelled[w] THEN @ + 1 ELSE @]
        /\ \E l \in {"looking", "draining", "closing"} : pc' = [pc EXCEPT ![w] = l]
    BY <1>14 DEF Handle, Play, Raise, Go
  <2>2. QED
    BY <2>1, LateByOne DEF Thread
<1>15. ASSUME NEW w \in Worker, Receive(w)
       PROVE  LateOnce'
  BY <1>15 DEF Receive, Put, Script, sound, reply, mic, TypeOK, LateOnce, Thread
<1>16. ASSUME NEW w \in Worker, ReceiverStops(w)
       PROVE  LateOnce'
  BY <1>16 DEF ReceiverStops, sound, reply, mic, TypeOK, LateOnce, Thread
<1>17. ASSUME NEW r \in Ringer, NextSlice(r)
       PROVE  LateOnce'
  BY <1>17 DEF NextSlice, Go, sound, reply, mic, TypeOK, LateOnce, Thread
<1>18. ASSUME NEW r \in Ringer, WriteSlice(r)
       PROVE  LateOnce'
  <2>1. /\ late' = [late EXCEPT ![r] = IF cancelled[r] THEN @ + 1 ELSE @]
        /\ pc[r] = "writing" /\ pc' = [pc EXCEPT ![r] = "looking"] /\ cancelled' = cancelled
    BY <1>18 DEF WriteSlice, Play, Go
  <2>2. QED
    BY <2>1, LateByOne DEF Thread
<1>19. CASE Capture
  BY <1>19 DEF Capture, sound, reply, mic, TypeOK, LateOnce, Thread
<1>20. CASE TakeFrame
  BY <1>20 DEF TakeFrame, sound, reply, mic, TypeOK, LateOnce, Thread
<1>21. CASE ReadBusy
  BY <1>21 DEF ReadBusy, sound, reply, mic, TypeOK, LateOnce, Thread
<1>22. CASE ReadQuiet
  BY <1>22 DEF ReadQuiet, sound, reply, mic, TypeOK, LateOnce, Thread
<1>23. CASE Hear
  BY <1>23 DEF Hear, sound, reply, mic, TypeOK, LateOnce, Thread
<1>24. CASE DropBacklog
  BY <1>24 DEF DropBacklog, sound, reply, mic, TypeOK, LateOnce, Thread
<1>25. CASE QuietEnds
  BY <1>25 DEF QuietEnds, sound, reply, mic, TypeOK, LateOnce, Thread
<1>26. QED
  BY <1>1, <1>2, <1>3, <1>4, <1>5, <1>6, <1>7, <1>8, <1>9, <1>10, <1>11, <1>12, <1>13, <1>14, <1>15, <1>16, <1>17, <1>18, <1>19, <1>20, <1>21, <1>22, <1>23, <1>24, <1>25 DEF Next, Player, SpeakStep, ReceiverStep, ChimeStep, Listener

\* Every step keeps what was captured under the mute, if the listener keeps up.
LEMMA NextKeepsMute == ~FallsBehind /\ TypeOK /\ BusyHolder /\ MuteCovers /\ [Next]_vars => MuteCovers'
<1> SUFFICES ASSUME ~FallsBehind /\ TypeOK /\ BusyHolder /\ MuteCovers, [Next]_vars
             PROVE  MuteCovers'
  OBVIOUS
<1>1. CASE UNCHANGED vars
  BY <1>1 DEF vars, sound, reply, mic, TypeOK, BusyHolder, MuteCovers, HearsOnlyTheRoom, CaughtUp, Thread, Holding, Loud, Sounding
<1>2. ASSUME NEW t \in Thread, Call(t)
      PROVE  MuteCovers'
  BY <1>2 DEF Call, Go, sound, reply, mic, TypeOK, BusyHolder, MuteCovers, HearsOnlyTheRoom, CaughtUp, Thread, Holding, Loud, Sounding
<1>3. ASSUME NEW t \in Thread, Cancel(t)
      PROVE  MuteCovers'
  BY <1>3 DEF Cancel, sound, reply, mic, TypeOK, BusyHolder, MuteCovers, HearsOnlyTheRoom, CaughtUp, Thread, Holding, Loud, Sounding
<1>4. ASSUME NEW t \in Thread, Fails(t)
      PROVE  MuteCovers'
  BY <1>4 DEF Fails, Raise, Go, sound, reply, mic, TypeOK, BusyHolder, MuteCovers, HearsOnlyTheRoom, CaughtUp, Thread, Holding, Loud, Sounding
<1>5. ASSUME NEW t \in Thread, TakeLock(t)
      PROVE  MuteCovers'
  BY <1>5 DEF TakeLock, Go, sound, reply, mic, TypeOK, BusyHolder, MuteCovers, HearsOnlyTheRoom, CaughtUp, Thread, Holding, Loud, Sounding
<1>6. ASSUME NEW t \in Thread, Skip(t)
      PROVE  MuteCovers'
  BY <1>6 DEF Skip, Return, Go, sound, reply, mic, TypeOK, BusyHolder, MuteCovers, HearsOnlyTheRoom, CaughtUp, Thread, Holding, Loud, Sounding
<1>7. ASSUME NEW t \in Thread, Begin(t)
      PROVE  MuteCovers'
  BY <1>7 DEF Begin, Go, sound, reply, mic, TypeOK, BusyHolder, MuteCovers, HearsOnlyTheRoom, CaughtUp, Thread, Holding, Loud, Sounding
<1>8. ASSUME NEW t \in Thread, Interrupted(t)
      PROVE  MuteCovers'
  BY <1>8 DEF Interrupted, Go, sound, reply, mic, TypeOK, BusyHolder, MuteCovers, HearsOnlyTheRoom, CaughtUp, Thread, Holding, Loud, Sounding
<1>9. ASSUME NEW t \in Thread, Drain(t)
      PROVE  MuteCovers'
  BY <1>9 DEF Drain, Go, sound, reply, mic, TypeOK, BusyHolder, MuteCovers, HearsOnlyTheRoom, CaughtUp, Thread, Holding, Loud, Sounding
<1>10. ASSUME NEW t \in Thread, CloseSound(t)
       PROVE  MuteCovers'
  BY <1>10 DEF CloseSound, Go, sound, reply, mic, TypeOK, BusyHolder, MuteCovers, HearsOnlyTheRoom, CaughtUp, Thread, Holding, Loud, Sounding
<1>11. ASSUME NEW t \in Thread, Leave(t)
       PROVE  MuteCovers'
  BY <1>11 DEF Leave, Return, Go, sound, reply, mic, TypeOK, BusyHolder, MuteCovers, HearsOnlyTheRoom, CaughtUp, Thread, Holding, Loud, Sounding
<1>12. ASSUME NEW w \in Worker, Connect(w)
       PROVE  MuteCovers'
  BY <1>12 DEF Connect, Go, sound, reply, mic, TypeOK, BusyHolder, MuteCovers, HearsOnlyTheRoom, CaughtUp, Thread, Holding, Loud, Sounding
<1>13. ASSUME NEW w \in Worker, TakeMessage(w)
       PROVE  MuteCovers'
  BY <1>13 DEF TakeMessage, Go, sound, reply, mic, TypeOK, BusyHolder, MuteCovers, HearsOnlyTheRoom, CaughtUp, Thread, Holding, Loud, Sounding
<1>14. ASSUME NEW w \in Worker, Handle(w)
       PROVE  MuteCovers'
  BY <1>14 DEF Handle, Play, Raise, Go, sound, reply, mic, TypeOK, BusyHolder, MuteCovers, HearsOnlyTheRoom, CaughtUp, Thread, Holding, Loud, Sounding
<1>15. ASSUME NEW w \in Worker, Receive(w)
       PROVE  MuteCovers'
  BY <1>15 DEF Receive, Put, Script, sound, reply, mic, TypeOK, BusyHolder, MuteCovers, HearsOnlyTheRoom, CaughtUp, Thread, Holding, Loud, Sounding
<1>16. ASSUME NEW w \in Worker, ReceiverStops(w)
       PROVE  MuteCovers'
  BY <1>16 DEF ReceiverStops, sound, reply, mic, TypeOK, BusyHolder, MuteCovers, HearsOnlyTheRoom, CaughtUp, Thread, Holding, Loud, Sounding
<1>17. ASSUME NEW r \in Ringer, NextSlice(r)
       PROVE  MuteCovers'
  BY <1>17 DEF NextSlice, Go, sound, reply, mic, TypeOK, BusyHolder, MuteCovers, HearsOnlyTheRoom, CaughtUp, Thread, Holding, Loud, Sounding
<1>18. ASSUME NEW r \in Ringer, WriteSlice(r)
       PROVE  MuteCovers'
  BY <1>18 DEF WriteSlice, Play, Go, sound, reply, mic, TypeOK, BusyHolder, MuteCovers, HearsOnlyTheRoom, CaughtUp, Thread, Holding, Loud, Sounding
<1>19. CASE Capture
  <2>1. CASE Sounding
    <3>1. PICK t \in Thread : stream[t] = "sounding"
      BY <2>1 DEF Sounding
    <3>2. pc[t] \in Loud /\ pc' = pc
      BY <1>19, <3>1 DEF BusyHolder, Capture, sound
    <3>3. QED
      BY <1>19, <3>2 DEF Capture, sound, MuteCovers, HearsOnlyTheRoom
  <2>2. CASE ~Sounding
    <3>1. frames \in Seq(BOOLEAN) /\ frames' = Append(frames, FALSE)
      BY <1>19, <2>2 DEF Capture, TypeOK, Sounding
    <3>2. CaughtUp => CaughtUp'
      BY <1>19, <3>1 DEF Capture, CaughtUp
    <3>3. QED
      BY <1>19, <3>2 DEF Capture, sound, MuteCovers, HearsOnlyTheRoom
  <2>3. QED
    BY <2>1, <2>2
<1>20. CASE TakeFrame
  <2>1. /\ frames \in Seq(BOOLEAN) /\ frames # <<>>
        /\ frame' = Head(frames) /\ frames' = Tail(frames)
    BY <1>20 DEF TakeFrame, TypeOK
  <2>2. CaughtUp => CaughtUp'
    <3>1. Len(frames) \in Nat /\ Len(frames) > 0 /\ frame' = frames[1]
      BY <2>1
    <3>2. Len(frames') = Len(frames) - 1 /\ \A i \in 1..Len(frames') : frames'[i] = frames[i + 1]
      BY <2>1
    <3>3. QED
      BY <3>1, <3>2 DEF CaughtUp
  <2>3. QED
    BY <1>20, <2>2 DEF TakeFrame, sound, MuteCovers, HearsOnlyTheRoom
<1>21. CASE ReadBusy
  BY <1>21 DEF ReadBusy, sound, reply, mic, TypeOK, BusyHolder, MuteCovers, HearsOnlyTheRoom, CaughtUp, Thread, Holding, Loud, Sounding
<1>22. CASE ReadQuiet
  BY <1>22 DEF ReadQuiet, sound, reply, mic, TypeOK, BusyHolder, MuteCovers, HearsOnlyTheRoom, CaughtUp, Thread, Holding, Loud, Sounding
<1>23. CASE Hear
  BY <1>23 DEF Hear, sound, reply, mic, TypeOK, BusyHolder, MuteCovers, HearsOnlyTheRoom, CaughtUp, Thread, Holding, Loud, Sounding
<1>24. CASE DropBacklog
  BY <1>24 DEF DropBacklog, sound, reply, mic, TypeOK, BusyHolder, MuteCovers, HearsOnlyTheRoom, CaughtUp, Thread, Holding, Loud, Sounding
<1>25. CASE QuietEnds
  BY <1>25 DEF QuietEnds, sound, reply, mic, TypeOK, BusyHolder, MuteCovers, HearsOnlyTheRoom, CaughtUp, Thread, Holding, Loud, Sounding
<1>26. QED
  BY <1>1, <1>2, <1>3, <1>4, <1>5, <1>6, <1>7, <1>8, <1>9, <1>10, <1>11, <1>12, <1>13, <1>14, <1>15, <1>16, <1>17, <1>18, <1>19, <1>20, <1>21, <1>22, <1>23, <1>24, <1>25 DEF Next, Player, SpeakStep, ReceiverStep, ChimeStep, Listener

\* A queue in order stays in order when its next message is put, when a failure
\* is put as its last, when nothing follows any more, and when its head is taken.
LEMMA ChainPut ==
  ASSUME NEW q \in Seq(Message), NEW k \in Nat, Chain(q, k, TRUE), NEW open
  PROVE  Chain(Append(q, Script(k + Len(q))), k, open)
<1>1. \A i \in 1..Len(q) : q[i] = Script(k + i - 1)
  BY DEF Chain
<1> DEFINE a == Append(q, Script(k + Len(q)))
<1>2. Len(q) \in Nat /\ Len(a) = Len(q) + 1
  OBVIOUS
<1>3. ASSUME NEW i \in 1..Len(a)
      PROVE  a[i] = Script(k + i - 1)
  <2>1. CASE i \in 1..Len(q)
    BY <1>1, <1>2, <2>1
  <2>2. CASE i = Len(q) + 1
    <3>1. k + i - 1 = k + Len(q)
      BY <1>2, <2>2
    <3>2. a[i] = Script(k + Len(q))
      BY <1>2, <2>2
    <3>3. QED
      BY <3>1, <3>2
  <2>3. QED
    BY <1>2, <2>1, <2>2
<1>4. QED
  BY <1>3 DEF Chain

LEMMA ChainFails ==
  ASSUME NEW q \in Seq(Message), NEW k \in Nat, Chain(q, k, TRUE), NEW m \in Failure
  PROVE  Chain(Append(q, m), k, FALSE)
<1>1. \A i \in 1..Len(q) : q[i] = Script(k + i - 1)
  BY DEF Chain
<1> DEFINE a == Append(q, m)
<1>2. Len(q) \in Nat /\ Len(a) = Len(q) + 1 /\ a[Len(a)] = m
  OBVIOUS
<1>3. \A i \in 1..Len(q) : a[i] = Script(k + i - 1)
  BY <1>1, <1>2
<1>4. \A i \in 1..Len(a) : i \in 1..Len(q) \/ i = Len(a)
  BY <1>2
<1> HIDE DEF a
<1>5. Chain(a, k, FALSE)
  BY <1>2, <1>3, <1>4 DEF Chain
<1>6. QED
  BY <1>5 DEF a

LEMMA ChainEnds ==
  ASSUME NEW q, NEW k, Chain(q, k, TRUE), NEW open
  PROVE  Chain(q, k, open)
  BY DEF Chain

LEMMA ChainEmpty ==
  ASSUME NEW k, NEW open
  PROVE  Chain(<<>>, k, open) /\ Len(<<>>) = 0
  BY DEF Chain

LEMMA ChainTaken ==
  ASSUME NEW q \in Seq(Message), NEW k \in Nat, NEW open, Chain(q, k, open), q # <<>>
  PROVE  /\ Head(q) = Script(k) \/ Head(q) \in Failure
         /\ Chain(Tail(q), k + 1, open)
         /\ Len(Tail(q)) = Len(q) - 1 /\ Len(q) \in Nat
<1>1. /\ Len(q) \in Nat /\ Len(q) >= 1 /\ Head(q) = q[1]
      /\ Len(Tail(q)) = Len(q) - 1
      /\ \A i \in 1..Len(Tail(q)) : Tail(q)[i] = q[i + 1]
  OBVIOUS
<1>2. Head(q) = Script(k) \/ Head(q) \in Failure
  <2>1. k + 1 - 1 = k /\ 1 \in 1..Len(q)
    BY <1>1
  <2>2. q[1] = Script(k + 1 - 1) \/ q[1] \in Failure
    BY <2>1, Zenon DEF Chain
  <2>3. QED
    BY <1>1, <2>1, <2>2
<1>3. ASSUME NEW i \in 1..Len(Tail(q))
      PROVE  \/ Tail(q)[i] = Script((k + 1) + i - 1)
             \/ i = Len(Tail(q)) /\ ~open /\ Tail(q)[i] \in Failure
  <2>1. /\ i + 1 \in 1..Len(q) /\ i \in Nat
        /\ i + 1 = Len(q) => i = Len(Tail(q))
    <3> DEFINE n == Len(q)
               m == Len(Tail(q))
    <3>1. n \in Nat /\ m = n - 1 /\ i \in 1..m
      BY <1>1
    <3> HIDE DEF n, m
    <3>2. i + 1 \in 1..n /\ i \in Nat /\ (i + 1 = n => i = m)
      BY <3>1
    <3>3. QED
      BY <3>2 DEF n, m
  <2>4. k + (i + 1) - 1 = (k + 1) + i - 1
    BY <2>1
  <2>2. \/ q[i + 1] = Script(k + (i + 1) - 1)
        \/ i + 1 = Len(q) /\ ~open /\ q[i + 1] \in Failure
    BY <2>1, Zenon DEF Chain
  <2>3. QED
    BY <1>1, <2>1, <2>2, <2>4
<1>4. QED
  BY <1>1, <1>2, <1>3, Zenon DEF Chain

\* Every step keeps the messages of each reply in order.
LEMMA NextKeepsOrder == TypeOK /\ ReceivesToTheEnd /\ BusyHolder /\ Faithful /\ [Next]_vars => \A w \in Worker : InOrder(w)'
<1> SUFFICES ASSUME TypeOK, ReceivesToTheEnd, BusyHolder, Faithful, [Next]_vars,
                    NEW x \in Worker
             PROVE  InOrder(x)'
  OBVIOUS
<1>1. CASE UNCHANGED vars
  BY <1>1 DEF vars, sound, reply, mic, TypeOK, ReceivesToTheEnd, BusyHolder, Faithful, InOrder, Awaited, Queued, Loud, Location, Thread
<1>2. ASSUME NEW t \in Thread, Call(t)
      PROVE  InOrder(x)'
  BY <1>2, ThreadAssumption DEF Call, Go, sound, reply, mic, TypeOK, ReceivesToTheEnd, BusyHolder, Faithful, InOrder, Awaited, Queued, Loud, Location, Thread
<1>3. ASSUME NEW t \in Thread, Cancel(t)
      PROVE  InOrder(x)'
  BY <1>3, ThreadAssumption DEF Cancel, sound, reply, mic, TypeOK, ReceivesToTheEnd, BusyHolder, Faithful, InOrder, Awaited, Queued, Loud, Location, Thread
<1>4. ASSUME NEW t \in Thread, Fails(t)
      PROVE  InOrder(x)'
  BY <1>4, ThreadAssumption DEF Fails, Raise, Go, sound, reply, mic, TypeOK, ReceivesToTheEnd, BusyHolder, Faithful, InOrder, Awaited, Queued, Loud, Location, Thread
<1>5. ASSUME NEW t \in Thread, TakeLock(t)
      PROVE  InOrder(x)'
  BY <1>5, ThreadAssumption DEF TakeLock, Go, sound, reply, mic, TypeOK, ReceivesToTheEnd, BusyHolder, Faithful, InOrder, Awaited, Queued, Loud, Location, Thread
<1>6. ASSUME NEW t \in Thread, Skip(t)
      PROVE  InOrder(x)'
  BY <1>6, ThreadAssumption DEF Skip, Return, Go, sound, reply, mic, TypeOK, ReceivesToTheEnd, BusyHolder, Faithful, InOrder, Awaited, Queued, Loud, Location, Thread
<1>7. ASSUME NEW t \in Thread, Begin(t)
      PROVE  InOrder(x)'
  BY <1>7, ThreadAssumption DEF Begin, Go, sound, reply, mic, TypeOK, ReceivesToTheEnd, BusyHolder, Faithful, InOrder, Awaited, Queued, Loud, Location, Thread
<1>8. ASSUME NEW t \in Thread, Interrupted(t)
      PROVE  InOrder(x)'
  BY <1>8, ThreadAssumption DEF Interrupted, Go, sound, reply, mic, TypeOK, ReceivesToTheEnd, BusyHolder, Faithful, InOrder, Awaited, Queued, Loud, Location, Thread
<1>9. ASSUME NEW t \in Thread, Drain(t)
      PROVE  InOrder(x)'
  BY <1>9, ThreadAssumption DEF Drain, Go, sound, reply, mic, TypeOK, ReceivesToTheEnd, BusyHolder, Faithful, InOrder, Awaited, Queued, Loud, Location, Thread
<1>10. ASSUME NEW t \in Thread, CloseSound(t)
       PROVE  InOrder(x)'
  BY <1>10, ThreadAssumption DEF CloseSound, Go, sound, reply, mic, TypeOK, ReceivesToTheEnd, BusyHolder, Faithful, InOrder, Awaited, Queued, Loud, Location, Thread
<1>11. ASSUME NEW t \in Thread, Leave(t)
       PROVE  InOrder(x)'
  BY <1>11, ThreadAssumption DEF Leave, Return, Go, sound, reply, mic, TypeOK, ReceivesToTheEnd, BusyHolder, Faithful, InOrder, Awaited, Queued, Loud, Location, Thread
<1>12. ASSUME NEW w \in Worker, Connect(w)
       PROVE  InOrder(x)'
  <2>1. CASE x # w
    BY <1>12, <2>1 DEF Connect, Go, sound, reply, mic, TypeOK, ReceivesToTheEnd, BusyHolder, Faithful, InOrder, Awaited, Queued, Loud, Location, Thread
  <2>2. CASE x = w
    <3>1. /\ pc[w] = "connecting" /\ pc'[w] = "looking" /\ stream' = stream /\ played' = played
          /\ inbox' = inbox /\ got' = got
      BY <1>12 DEF Connect, Go, TypeOK, Thread
    <3>2. inbox[w] = <<>> /\ got[w] = 0 /\ played[w] = 0 /\ stream[w] = "none"
      BY <3>1 DEF Faithful, InOrder, Told, ReceivesToTheEnd, BusyHolder, Location, Loud, Thread
    <3>3. Queued(w)' = 0
      BY <3>1, <3>2 DEF Queued, Awaited
    <3>4. QED
      BY <2>2, <3>1, <3>2, <3>3, ChainEmpty, SlicesAssumption DEF InOrder, Loud
  <2>3. QED
    BY <2>1, <2>2
<1>13. ASSUME NEW w \in Worker, TakeMessage(w)
       PROVE  InOrder(x)'
  <2>1. CASE x # w
    BY <1>13, <2>1 DEF TakeMessage, Go, sound, reply, mic, TypeOK, ReceivesToTheEnd, BusyHolder, Faithful, InOrder, Awaited, Queued, Loud, Location, Thread
  <2>2. CASE x = w
    <3>1. /\ inbox[w] \in Seq(Message) /\ inbox[w] # <<>> /\ pc[w] = "looking"
          /\ inbox'[w] = Tail(inbox[w]) /\ hand'[w] = Head(inbox[w]) /\ pc'[w] = "writing"
          /\ stream' = stream /\ played' = played /\ receiver' = receiver /\ got' = got
          /\ played[w] \in Nat /\ got[w] \in Nat
      BY <1>13, SlicesAssumption DEF TakeMessage, Go, TypeOK, Thread
    <3>2. /\ Awaited(w) \in Nat /\ Awaited(w)' = Awaited(w)
          /\ Queued(w) = Awaited(w) /\ Queued(w)' = Awaited(w) + 1
      BY <3>1 DEF Awaited, Queued
    <3>3. /\ stream[w] = "none" => played[w] = 0
          /\ played[w] <= Slices
          /\ Chain(inbox[w], Awaited(w), receiver[w] = "running")
          /\ receiver[w] = "running" => got[w] = Awaited(w) + Len(inbox[w])
      BY <3>1, <3>2 DEF Faithful, InOrder
    <3>4. /\ Head(inbox[w]) = Script(Awaited(w)) \/ Head(inbox[w]) \in Failure
          /\ Chain(Tail(inbox[w]), Awaited(w) + 1, receiver[w] = "running")
          /\ Len(Tail(inbox[w])) = Len(inbox[w]) - 1 /\ Len(inbox[w]) \in Nat
      BY <3>1, <3>2, <3>3, ChainTaken
    <3>5. receiver[w] = "running" => got[w] = (Awaited(w) + 1) + Len(Tail(inbox[w]))
      BY <3>2, <3>3, <3>4
    <3>6. QED
      BY <2>2, <3>1, <3>2, <3>3, <3>4, <3>5 DEF InOrder, Loud
  <2>3. QED
    BY <2>1, <2>2
<1>14. ASSUME NEW w \in Worker, Handle(w)
       PROVE  InOrder(x)'
  <2>1. CASE x # w
    <3>1. /\ inbox'[x] = inbox[x] /\ receiver'[x] = receiver[x] /\ got'[x] = got[x]
          /\ pc'[x] = pc[x] /\ stream'[x] = stream[x] /\ played'[x] = played[x]
          /\ hand'[x] = hand[x]
      BY <1>14, <2>1 DEF Handle, Play, Raise, Go, sound, reply, mic, TypeOK, Location, Thread
    <3>2. QED
      BY <3>1 DEF Faithful, InOrder, Awaited, Queued
  <2>2. CASE x = w
    <3>1. /\ pc[w] = "writing" /\ inbox' = inbox /\ receiver' = receiver /\ got' = got
          /\ played[w] \in Nat /\ Slices \in Nat
      BY <1>14, SlicesAssumption DEF Handle, reply, TypeOK, Thread
    <3>2. /\ Awaited(w) \in Nat /\ Queued(w) = Awaited(w) + 1
          /\ stream[w] = "none" => played[w] = 0
          /\ played[w] <= Slices
          /\ Chain(inbox[w], Awaited(w) + 1, receiver[w] = "running")
          /\ receiver[w] = "running" => got[w] = (Awaited(w) + 1) + Len(inbox[w])
          /\ hand[w] = Script(Awaited(w)) \/ hand[w] \in Failure
      BY <3>1 DEF Faithful, InOrder, Awaited, Queued
    <3>3. CASE hand[w] = "tts_start"
      <4>1. pc'[w] = "looking" /\ stream'[w] = "open" /\ played' = played
        BY <1>14, <3>3 DEF Handle, Play, Raise, Go, TypeOK, Thread
      <4>2. Awaited(w) = 0
        BY <3>2, <3>3 DEF Script, Failure
      <4>3. played[w] = 0
        BY <3>1, <3>2, <4>2 DEF Awaited
      <4>4. Queued(w)' = Awaited(w) + 1
        BY <3>1, <4>1, <4>2, <4>3 DEF Awaited, Queued
      <4>5. QED
        BY <2>2, <3>1, <3>2, <4>1, <4>4 DEF InOrder, Loud
    <3>4. CASE hand[w] = "audio"
      <4>1. pc'[w] = "looking" /\ stream'[w] = "sounding" /\ played'[w] = played[w] + 1
        BY <1>14, <3>4 DEF Handle, Play, Raise, Go, TypeOK, Thread
      <4>2. Awaited(w) # 0 /\ Awaited(w) <= Slices
        BY <3>2, <3>4 DEF Script, Failure
      <4>3. Awaited(w) = played[w] + 1
        BY <4>2 DEF Awaited
      <4>4. Queued(w)' = Awaited(w) + 1 /\ played'[w] <= Slices
        BY <3>1, <4>1, <4>2, <4>3 DEF Awaited, Queued
      <4>5. QED
        BY <2>2, <3>1, <3>2, <4>1, <4>4 DEF InOrder, Loud
    <3>5. CASE hand[w] \in Failure \cup {"tts_end"}
      <4>1. pc'[w] \in {"closing", "draining"}
        BY <1>14, <3>5 DEF Handle, Play, Raise, Go, TypeOK, Thread, Failure
      <4>2. QED
        BY <2>2, <4>1 DEF InOrder, Loud
    <3>6. QED
      BY <3>3, <3>4, <3>5 DEF TypeOK, Message, Failure
  <2>3. QED
    BY <2>1, <2>2
<1>15. ASSUME NEW w \in Worker, Receive(w)
       PROVE  InOrder(x)'
  <2>1. CASE x # w
    <3>1. /\ inbox'[x] = inbox[x] /\ receiver'[x] = receiver[x] /\ got'[x] = got[x]
          /\ pc'[x] = pc[x] /\ stream'[x] = stream[x] /\ played'[x] = played[x]
          /\ hand'[x] = hand[x]
      BY <1>15, <2>1 DEF Receive, Put, sound, TypeOK
    <3>2. QED
      BY <3>1 DEF Faithful, InOrder, Awaited, Queued
  <2>2. CASE x = w
    <3>1. /\ inbox[w] \in Seq(Message) /\ receiver[w] = "running" /\ pc[w] \in Loud
          /\ pc' = pc /\ stream' = stream /\ played' = played /\ hand' = hand
          /\ played[w] \in Nat /\ got[w] \in Nat
      BY <1>15, SlicesAssumption DEF Receive, sound, TypeOK, Thread, ReceivesToTheEnd
    <3>2. /\ Queued(w) \in Nat /\ Queued(w)' = Queued(w) /\ Awaited(w)' = Awaited(w)
      BY <3>1 DEF Awaited, Queued
    <3>3. CASE pc[w] \in {"looking", "writing"}
      <4>1. Chain(inbox[w], Queued(w), TRUE) /\ got[w] = Queued(w) + Len(inbox[w])
        BY <3>1, <3>3 DEF Faithful, InOrder
      <4>2. Chain(inbox'[w], Queued(w), receiver'[w] = "running")
        <5>1. CASE inbox'[w] = Append(inbox[w], Script(got[w]))
          BY <3>1, <3>2, <4>1, <5>1, ChainPut
        <5>2. CASE \E m \in Failure : inbox'[w] = Append(inbox[w], m) /\ receiver'[w] = "done"
          BY <3>1, <3>2, <4>1, <5>2, ChainFails
        <5>3. QED
          BY <1>15, <5>1, <5>2 DEF Receive, Put, TypeOK, Failure
      <4>3. receiver'[w] = "running" => got'[w] = Queued(w) + Len(inbox'[w])
        <5>1. CASE inbox'[w] = Append(inbox[w], Script(got[w])) /\ got'[w] = got[w] + 1
          <6>1. Len(inbox'[w]) = Len(inbox[w]) + 1 /\ Len(inbox[w]) \in Nat
            BY <3>1, <5>1
          <6>2. QED
            BY <3>2, <4>1, <5>1, <6>1
        <5>2. CASE receiver'[w] = "done"
          BY <5>2
        <5>3. QED
          BY <1>15, <5>1, <5>2 DEF Receive, Put, TypeOK, Failure
      <4>4. QED
        BY <2>2, <3>1, <3>2, <3>3, <4>2, <4>3 DEF Faithful, InOrder, Loud
    <3>4. CASE pc[w] \notin {"looking", "writing"}
      BY <2>2, <3>1, <3>4 DEF InOrder
    <3>5. QED
      BY <3>3, <3>4
  <2>3. QED
    BY <2>1, <2>2
<1>16. ASSUME NEW w \in Worker, ReceiverStops(w)
       PROVE  InOrder(x)'
  <2>1. \A k : Chain(inbox[w], k, TRUE) => Chain(inbox[w], k, FALSE)
    BY ChainEnds
  <2>2. receiver'[w] = "done" /\ \A v \in Worker : v # w => receiver'[v] = receiver[v]
    BY <1>16 DEF ReceiverStops, TypeOK
  <2>3. /\ receiver[w] = "running" /\ pc' = pc /\ stream' = stream /\ played' = played
        /\ got' = got /\ inbox' = inbox /\ hand' = hand
    BY <1>16 DEF ReceiverStops, sound
  <2>4. QED
    BY <2>1, <2>2, <2>3 DEF Faithful, InOrder, Awaited, Queued
<1>17. ASSUME NEW r \in Ringer, NextSlice(r)
       PROVE  InOrder(x)'
  BY <1>17, ThreadAssumption DEF NextSlice, Go, sound, reply, mic, TypeOK, ReceivesToTheEnd, BusyHolder, Faithful, InOrder, Awaited, Queued, Loud, Location, Thread
<1>18. ASSUME NEW r \in Ringer, WriteSlice(r)
       PROVE  InOrder(x)'
  BY <1>18, ThreadAssumption DEF WriteSlice, Play, Go, sound, reply, mic, TypeOK, ReceivesToTheEnd, BusyHolder, Faithful, InOrder, Awaited, Queued, Loud, Location, Thread
<1>19. CASE Capture \/ Listener \/ QuietEnds
  BY <1>19 DEF Capture, TakeFrame, ReadBusy, ReadQuiet, Hear, DropBacklog, QuietEnds, Listener, sound, reply, TypeOK, ReceivesToTheEnd, BusyHolder, Faithful, InOrder, Awaited, Queued, Loud, Location, Thread
<1>20. QED
  BY <1>1, <1>2, <1>3, <1>4, <1>5, <1>6, <1>7, <1>8, <1>9, <1>10, <1>11, <1>12, <1>13, <1>14, <1>15, <1>16, <1>17, <1>18, <1>19 DEF Next, Player, SpeakStep, ReceiverStep, ChimeStep

\* Every step keeps the results true.
LEMMA NextKeepsResults == TypeOK /\ ReceivesToTheEnd /\ BusyHolder /\ Faithful /\ [Next]_vars => \A t \in Thread : Told(t)'
<1> SUFFICES ASSUME TypeOK, ReceivesToTheEnd, BusyHolder, Faithful, [Next]_vars,
                    NEW x \in Thread
             PROVE  Told(x)'
  OBVIOUS
<1>1. CASE UNCHANGED vars
  BY <1>1 DEF vars, sound, reply, mic, TypeOK, ReceivesToTheEnd, BusyHolder, Faithful, Told, Completed, Location, Thread, Loud
<1>2. ASSUME NEW t \in Thread, Call(t)
      PROVE  Told(x)'
  BY <1>2, ThreadAssumption DEF Call, Go, sound, reply, mic, TypeOK, ReceivesToTheEnd, BusyHolder, Faithful, Told, Completed, Location, Thread, Loud
<1>3. ASSUME NEW t \in Thread, Cancel(t)
      PROVE  Told(x)'
  BY <1>3, ThreadAssumption DEF Cancel, sound, reply, mic, TypeOK, ReceivesToTheEnd, BusyHolder, Faithful, Told, Completed, Location, Thread, Loud
<1>4. ASSUME NEW t \in Thread, Fails(t)
      PROVE  Told(x)'
  BY <1>4, ThreadAssumption DEF Fails, Raise, Go, sound, reply, mic, TypeOK, ReceivesToTheEnd, BusyHolder, Faithful, Told, Completed, Location, Thread, Loud
<1>5. ASSUME NEW t \in Thread, TakeLock(t)
      PROVE  Told(x)'
  BY <1>5, ThreadAssumption DEF TakeLock, Go, sound, reply, mic, TypeOK, ReceivesToTheEnd, BusyHolder, Faithful, Told, Completed, Location, Thread, Loud
<1>6. ASSUME NEW t \in Thread, Skip(t)
      PROVE  Told(x)'
  BY <1>6, ThreadAssumption DEF Skip, Return, Go, sound, reply, mic, TypeOK, ReceivesToTheEnd, BusyHolder, Faithful, Told, Completed, Location, Thread, Loud
<1>7. ASSUME NEW t \in Thread, Begin(t)
      PROVE  Told(x)'
  BY <1>7, ThreadAssumption DEF Begin, Go, sound, reply, mic, TypeOK, ReceivesToTheEnd, BusyHolder, Faithful, Told, Completed, Location, Thread, Loud
<1>8. ASSUME NEW t \in Thread, Interrupted(t)
      PROVE  Told(x)'
  BY <1>8, ThreadAssumption DEF Interrupted, Go, sound, reply, mic, TypeOK, ReceivesToTheEnd, BusyHolder, Faithful, Told, Completed, Location, Thread, Loud
<1>9. ASSUME NEW t \in Thread, Drain(t)
      PROVE  Told(x)'
  BY <1>9, ThreadAssumption DEF Drain, Go, sound, reply, mic, TypeOK, ReceivesToTheEnd, BusyHolder, Faithful, Told, Completed, Location, Thread, Loud
<1>10. ASSUME NEW t \in Thread, CloseSound(t)
       PROVE  Told(x)'
  BY <1>10, ThreadAssumption DEF CloseSound, Go, sound, reply, mic, TypeOK, ReceivesToTheEnd, BusyHolder, Faithful, Told, Completed, Location, Thread, Loud
<1>11. ASSUME NEW t \in Thread, Leave(t)
       PROVE  Told(x)'
  BY <1>11, ThreadAssumption DEF Leave, Return, Go, sound, reply, mic, TypeOK, ReceivesToTheEnd, BusyHolder, Faithful, Told, Completed, Location, Thread, Loud
<1>12. ASSUME NEW w \in Worker, Connect(w)
       PROVE  Told(x)'
  BY <1>12, ThreadAssumption DEF Connect, Go, sound, reply, mic, TypeOK, ReceivesToTheEnd, BusyHolder, Faithful, Told, Completed, Location, Thread, Loud
<1>13. ASSUME NEW w \in Worker, TakeMessage(w)
       PROVE  Told(x)'
  BY <1>13, ThreadAssumption DEF TakeMessage, Go, sound, reply, mic, TypeOK, ReceivesToTheEnd, BusyHolder, Faithful, Told, Completed, Location, Thread, Loud
<1>14. ASSUME NEW w \in Worker, Handle(w)
       PROVE  Told(x)'
  <2>1. CASE x # w
    <3>1. /\ pc'[x] = pc[x] /\ played'[x] = played[x] /\ cancelled'[x] = cancelled[x]
          /\ result'[x] = result[x] /\ hand'[x] = hand[x]
      BY <1>14, <2>1 DEF Handle, Play, Raise, Go, sound, reply, mic, TypeOK, Location, Thread
    <3>2. QED
      BY <3>1 DEF Faithful, Told, Completed
  <2>2. CASE x = w /\ hand[w] \in {"tts_start", "audio"}
    <3>1. pc'[w] = "looking" /\ result' = result /\ pc[w] = "writing" /\ cancelled' = cancelled
      BY <1>14, <2>2 DEF Handle, Play, Raise, Go, TypeOK, Thread
    <3>2. QED
      BY <2>2, <3>1 DEF Faithful, Told, Location
  <2>3. CASE x = w /\ hand[w] = "tts_end"
    <3>1. /\ pc'[w] = "draining" /\ result' = result /\ pc[w] = "writing" /\ cancelled' = cancelled
          /\ played' = played /\ hand' = hand
      BY <1>14, <2>3 DEF Handle, Play, Raise, Go, reply, TypeOK, Thread
    <3>2. Script(Awaited(w)) = "tts_end" /\ played[w] <= Slices
      BY <2>3, <3>1 DEF Faithful, InOrder, Failure
    <3>3. played[w] = Slices
      <4>1. played[w] \in Nat /\ Slices \in Nat
        BY SlicesAssumption DEF TypeOK, Thread
      <4>2. QED
        BY <3>2, <4>1 DEF Script, Awaited
    <3>4. QED
      BY <2>3, <3>1, <3>3 DEF Faithful, Told, Completed, Location
  <2>4. CASE x = w /\ hand[w] \in {"error", "exception"}
    <3>1. /\ pc'[w] = "closing" /\ result'[w] = "raised" /\ pc[w] = "writing"
          /\ cancelled' = cancelled /\ played' = played
      BY <1>14, <2>4 DEF Handle, Play, Raise, Go, reply, TypeOK, Thread
    <3>2. QED
      BY <2>4, <3>1 DEF Told, Location
  <2>5. QED
    BY <2>1, <2>2, <2>3, <2>4 DEF TypeOK, Message
<1>15. ASSUME NEW w \in Worker, Receive(w)
       PROVE  Told(x)'
  BY <1>15, ThreadAssumption DEF Receive, Put, sound, reply, mic, TypeOK, ReceivesToTheEnd, BusyHolder, Faithful, Told, Completed, Location, Thread, Loud
<1>16. ASSUME NEW w \in Worker, ReceiverStops(w)
       PROVE  Told(x)'
  BY <1>16, ThreadAssumption DEF ReceiverStops, sound, reply, mic, TypeOK, ReceivesToTheEnd, BusyHolder, Faithful, Told, Completed, Location, Thread, Loud
<1>17. ASSUME NEW r \in Ringer, NextSlice(r)
       PROVE  Told(x)'
  BY <1>17, ThreadAssumption DEF NextSlice, Go, sound, reply, mic, TypeOK, ReceivesToTheEnd, BusyHolder, Faithful, Told, Completed, Location, Thread, Loud
<1>18. ASSUME NEW r \in Ringer, WriteSlice(r)
       PROVE  Told(x)'
  BY <1>18, ThreadAssumption DEF WriteSlice, Play, Go, sound, reply, mic, TypeOK, ReceivesToTheEnd, BusyHolder, Faithful, Told, Completed, Location, Thread, Loud
<1>19. CASE Capture \/ Listener \/ QuietEnds
  BY <1>19 DEF Capture, TakeFrame, ReadBusy, ReadQuiet, Hear, DropBacklog, QuietEnds, Listener, sound, reply, TypeOK, ReceivesToTheEnd, BusyHolder, Faithful, Told, Completed, Location, Thread, Loud
<1>20. QED
  BY <1>1, <1>2, <1>3, <1>4, <1>5, <1>6, <1>7, <1>8, <1>9, <1>10, <1>11, <1>12, <1>13, <1>14, <1>15, <1>16, <1>17, <1>18, <1>19 DEF Next, Player, SpeakStep, ReceiverStep, ChimeStep

LEMMA InitFaithful == Init => Faithful
<1>1. ASSUME Init, NEW w \in Worker
      PROVE  InOrder(w)
  BY <1>1 DEF Init, InOrder, Thread
<1>2. ASSUME Init, NEW t \in Thread
      PROVE  Told(t)
  BY <1>2 DEF Init, Told
<1>3. QED
  BY <1>1, <1>2 DEF Faithful

LEMMA InductiveInvariant == Spec => []IInv
<1>1. IInv /\ [Next]_vars => IInv'
  BY NextKeepsTypes, NextKeepsHolder, NextKeepsLate DEF IInv
<1>2. QED
  BY InitIInv, <1>1, PTL DEF Spec

-----------------------------------------------------------------------------
\* The variables keep their types, whatever the number of callers and slices.
THEOREM TypeCorrect == Spec => []TypeOK
  BY InductiveInvariant, PTL DEF IInv

\* A cancelled reply or chime writes at most the slice it has in hand, whatever
\* its length and whoever else wants the speaker.
THEOREM CancelledSoundStops == Spec => []AtMostOneLateSlice
<1>1. IInv => AtMostOneLateSlice
  BY DEF IInv, LateOnce, AtMostOneLateSlice
<1>2. QED
  BY InductiveInvariant, <1>1, PTL

\* A sound that neither failed nor was cancelled was written whole, whatever its
\* length and however far the receiver runs ahead of the player; the loop of a
\* reply never ends without its tts_end unless it is cancelled.
THEOREM SoundsAreWhole == Spec => []HeardWhole
<1>1. IInv /\ Faithful /\ [Next]_vars => Faithful'
  <2>1. IInv /\ Faithful /\ [Next]_vars => \A w \in Worker : InOrder(w)'
    BY NextKeepsOrder DEF IInv
  <2>2. IInv /\ Faithful /\ [Next]_vars => \A t \in Thread : Told(t)'
    BY NextKeepsResults DEF IInv
  <2>3. QED
    BY <2>1, <2>2 DEF Faithful
<1>2. Faithful => HeardWhole
  BY DEF Faithful, Told, HeardWhole
<1>3. QED
  BY InitFaithful, InductiveInvariant, <1>1, <1>2, PTL DEF Spec

\* A listener that judges its frames within the quiet time never hears the
\* speaker, however replies, chimes, failures and cancellations follow each
\* other and whatever happens between its two reads of muted.
THEOREM OwnVoiceIsMuted == ~FallsBehind => (Spec => []HearsOnlyTheRoom)
<1> SUFFICES ASSUME ~FallsBehind
             PROVE  Spec => []HearsOnlyTheRoom
  OBVIOUS
<1>1. IInv /\ MuteCovers /\ [Next]_vars => MuteCovers'
  BY NextKeepsMute DEF IInv
<1>2. MuteCovers => HearsOnlyTheRoom
  BY DEF MuteCovers
<1>3. QED
  BY InitIInv, InductiveInvariant, <1>1, <1>2, PTL DEF Spec

=============================================================================
