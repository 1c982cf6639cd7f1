------------------------ MODULE WyomingAdapterProofs ------------------------
(***************************************************************************)
(* Theorems about WyomingAdapter, for every limit of the adapter and of    *)
(* the service, every size of chunks and every capacity of the channels.   *)
(***************************************************************************)
EXTENDS WyomingAdapter, TLAPS

Message == {"audio", "finish"}
Reply == {"partial", "final", "error"}

Types == /\ ws \in BOOLEAN /\ started \in BOOLEAN
         /\ received \in Nat /\ left \in Nat /\ transcript \in Nat
         /\ link \in [worker : {"none", "greeting", "streaming", "speaking", "idle", "gone"},
                      heard : Nat, inbox : Seq(Message), outbox : Seq(Reply)]

(***************************************************************************)
(* The inductive invariant.  Where the handler is tells whether there is a *)
(* connection and whether it carries a stream.                             *)
(***************************************************************************)
Counted == open = IF ws THEN 1 ELSE 0

Connections ==
  /\ started => ws
  /\ handling \in {"reading", "describing"} => ws = started
  /\ handling \in {"forwarding", "finishing", "awaiting", "answering"} => started
  /\ handling \in {"connecting", "connecting_speech", "ended"} => ~ws
  /\ handling \in {"greeting", "greeting_speech", "speaking"} => ws /\ ~started

\* The result task runs for as long as the service has the stream, for what ends the
\* task is sent when the service is done with it.
Streams ==
  /\ ~started => /\ received = 0 /\ left = 0 /\ result = "none"
                 /\ link.inbox = <<>> /\ link.outbox = <<>>
                 /\ link.worker \notin {"streaming", "idle", "gone"}
  /\ started => result # "none" /\ link.worker \in {"streaming", "idle", "gone"}
  /\ link.worker = "streaming" => /\ result = "pending"
                                  /\ \A i \in 1..Len(link.outbox) : link.outbox[i] = "partial"
  /\ link.worker = "greeting" => link.heard = 0
  /\ handling = "greeting" => link.worker = "greeting"
  /\ handling = "speaking" => link.worker # "greeting"

\* Where the handler is after asr_finish, until it has disconnected.
Closing == {"awaiting", "answering", "refusing", "closing", "leaving"}

\* The audio among the messages: a finish is the last of them.
Slices(q) == IF q # <<>> /\ q[Len(q)] = "finish" THEN Len(q) - 1 ELSE Len(q)

FinishIsLast(q) == \A i \in 1..Len(q) : q[i] = "finish" => i = Len(q)

Whole(n) == n = received /\ n <= WorkerLimit /\ handling \in Closing

\* What was received was heard, or is under way, or is not sent yet; what the
\* result is made from does not change any more.
Accounts ==
  /\ handling \in {"reading", "describing", "finishing", "awaiting", "answering"} => left = 0
  /\ handling = "forwarding" => left > 0
  /\ FinishIsLast(link.inbox)
  /\ \A i \in 1..Len(link.inbox) : link.inbox[i] = "finish" => left = 0 /\ handling \in Closing
  /\ link.worker = "streaming" => /\ link.heard + Slices(link.inbox) + left = received
                                  /\ link.heard <= WorkerLimit
  /\ \A i \in 1..Len(link.outbox) : link.outbox[i] = "final" => Whole(link.heard)
  /\ result = "final" => Whole(transcript)
  /\ handling = "answering" => result = "final"

IInv == Types /\ Counted /\ Connections /\ Streams /\ Accounts

-----------------------------------------------------------------------------
(* The channels.                                                           *)

\* A message put into a channel is its last.
LEMMA AppendElements ==
  ASSUME NEW S, NEW q \in Seq(S), NEW m \in S
  PROVE  /\ Append(q, m) \in Seq(S)
         /\ Len(Append(q, m)) = Len(q) + 1 /\ Len(q) \in Nat
         /\ \A i \in 1..Len(q) : Append(q, m)[i] = q[i]
         /\ Append(q, m)[Len(q) + 1] = m
  OBVIOUS

\* What remains when the first message is taken.
LEMMA TailElements ==
  ASSUME NEW S, NEW q \in Seq(S), q # <<>>
  PROVE  /\ Tail(q) \in Seq(S) /\ Head(q) \in S /\ Head(q) = q[1]
         /\ Len(Tail(q)) = Len(q) - 1 /\ Len(q) \in Nat \ {0}
         /\ \A i \in 1..Len(Tail(q)) : i + 1 \in 1..Len(q) /\ Tail(q)[i] = q[i + 1]
  OBVIOUS

LEMMA NotEmpty ==
  ASSUME NEW S, NEW q \in Seq(S), Len(q) > 0
  PROVE  q # <<>>
  OBVIOUS

\* A message that follows audio only: the audio is counted, a finish is not.
LEMMA SlicesSent ==
  ASSUME NEW q \in Seq(Message), NEW m \in Message,
         \A i \in 1..Len(q) : q[i] # "finish"
  PROVE  /\ Append(q, m) \in Seq(Message)
         /\ FinishIsLast(Append(q, m))
         /\ Slices(Append(q, m)) = Slices(q) + (IF m = "audio" THEN 1 ELSE 0)
         /\ Slices(q) \in Nat
         /\ m = "audio" => \A i \in 1..Len(Append(q, m)) : Append(q, m)[i] # "finish"
<1> DEFINE a == Append(q, m)
<1>1. /\ a \in Seq(Message) /\ Len(a) = Len(q) + 1 /\ Len(q) \in Nat
      /\ \A i \in 1..Len(q) : a[i] = q[i]
      /\ a[Len(q) + 1] = m /\ a # <<>>
  BY AppendElements
<1>2. Slices(q) = Len(q)
  BY <1>1 DEF Slices
<1>3. FinishIsLast(a)
  BY <1>1 DEF FinishIsLast
<1>4. a[Len(a)] = m
  BY <1>1
<1>5. Slices(a) = Len(q) + (IF m = "audio" THEN 1 ELSE 0)
  BY <1>1, <1>4 DEF Slices, Message
<1>6. m = "audio" => \A i \in 1..Len(a) : a[i] # "finish"
  BY <1>1
<1>7. QED
  BY <1>1, <1>2, <1>3, <1>5, <1>6

\* Taking a message: a finish leaves nothing behind it.
LEMMA SlicesTaken ==
  ASSUME NEW q \in Seq(Message), q # <<>>, FinishIsLast(q)
  PROVE  /\ Tail(q) \in Seq(Message)
         /\ FinishIsLast(Tail(q))
         /\ \A i \in 1..Len(Tail(q)) : Tail(q)[i] = "finish" => \E j \in 1..Len(q) : q[j] = "finish"
         /\ Head(q) = "finish" => Slices(q) = 0 /\ \E j \in 1..Len(q) : q[j] = "finish"
         /\ Head(q) # "finish" => Slices(Tail(q)) = Slices(q) - 1
         /\ Slices(Tail(q)) \in Nat /\ Slices(q) \in Nat
<1> DEFINE t == Tail(q)
<1>1. /\ t \in Seq(Message) /\ Head(q) = q[1] /\ Len(t) = Len(q) - 1 /\ Len(q) \in Nat \ {0}
      /\ \A i \in 1..Len(t) : i + 1 \in 1..Len(q) /\ t[i] = q[i + 1]
  BY TailElements
<1>2. FinishIsLast(t)
  <2>1. SUFFICES ASSUME NEW i \in 1..Len(t), t[i] = "finish" PROVE i = Len(t)
    BY DEF FinishIsLast
  <2>2. i + 1 \in 1..Len(q) /\ q[i + 1] = "finish"
    BY <1>1, <2>1
  <2>3. i + 1 = Len(q)
    BY <2>2 DEF FinishIsLast
  <2>4. Len(t) = Len(q) - 1 /\ Len(q) \in Nat
    BY <1>1
  <2>5. QED
    BY <2>1, <2>3, <2>4
<1>3. \A i \in 1..Len(t) : t[i] = "finish" => \E j \in 1..Len(q) : q[j] = "finish"
  BY <1>1
<1>4. ASSUME Head(q) = "finish"
      PROVE  Slices(q) = 0 /\ \E j \in 1..Len(q) : q[j] = "finish"
  <2>1. 1 \in 1..Len(q) /\ q[1] = "finish"
    BY <1>1, <1>4
  <2>2. Len(q) = 1
    BY <2>1 DEF FinishIsLast
  <2>3. QED
    BY <1>1, <2>1, <2>2 DEF Slices
<1>5. ASSUME Head(q) # "finish"
      PROVE  Slices(t) = Slices(q) - 1
  <2>1. CASE Len(q) = 1
    <3>1. t = <<>> /\ Len(t) = 0
      BY <1>1, <2>1
    <3>2. QED
      BY <1>1, <1>5, <2>1, <3>1 DEF Slices
  <2>2. CASE Len(q) > 1
    <3>1. Len(t) \in 1..Len(t) /\ Len(t) + 1 = Len(q)
      BY <1>1, <2>2
    <3>2. t[Len(t)] = q[Len(q)]
      BY <1>1, <3>1
    <3>3. t # <<>>
      <4>1. t \in Seq(Message) /\ Len(t) > 0
        BY <1>1, <2>2
      <4>2. QED
        BY <4>1, NotEmpty
    <3>4. QED
      BY <1>1, <3>1, <3>2, <3>3 DEF Slices
  <2>3. QED
    BY <1>1, <2>1, <2>2
<1>6. Slices(t) \in Nat /\ Slices(q) \in Nat
  <2>1. Slices(q) \in Nat
    BY <1>1 DEF Slices
  <2>2. Len(t) \in Nat /\ (t # <<>> => Len(t) > 0)
    BY <1>1
  <2>3. QED
    BY <2>1, <2>2 DEF Slices
<1>7. QED
  BY <1>1, <1>2, <1>3, <1>4, <1>5, <1>6

-----------------------------------------------------------------------------
(* The inductive invariant.                                                *)

\* NoLink is the state of the channels without a connection.
LEMMA NoLinkFacts ==
  /\ NoLink \in [worker : {"none", "greeting", "streaming", "speaking", "idle", "gone"},
                 heard : Nat, inbox : Seq(Message), outbox : Seq(Reply)]
  /\ NoLink.worker = "none" /\ NoLink.heard = 0
  /\ NoLink.inbox = <<>> /\ NoLink.outbox = <<>>
  /\ Len(NoLink.inbox) = 0 /\ Len(NoLink.outbox) = 0
<1>1. <<>> \in Seq(Message) /\ <<>> \in Seq(Reply) /\ Len(<<>>) = 0
  OBVIOUS
<1>2. QED
  BY <1>1 DEF NoLink

LEMMA InitIInv == Init => IInv
<1> SUFFICES ASSUME Init PROVE IInv
  OBVIOUS
<1>1. /\ handling = "reading" /\ ws = FALSE /\ open = 0 /\ started = FALSE
      /\ received = 0 /\ left = 0 /\ result = "none" /\ transcript = 0 /\ link = NoLink
  BY DEF Init
<1>2. Types
  BY <1>1, NoLinkFacts DEF Types
<1>3. Counted
  BY <1>1 DEF Counted
<1>4. Connections
  BY <1>1 DEF Connections
<1>5. Streams
  BY <1>1, NoLinkFacts DEF Streams
<1>6. Accounts
  BY <1>1, NoLinkFacts DEF Accounts, FinishIsLast
<1>7. QED
  BY <1>2, <1>3, <1>4, <1>5, <1>6 DEF IInv

\* After disconnect() everything is as before the first connection.
LEMMA DisconnectKeepsIInv ==
  ASSUME IInv, Disconnect, handling' \in {"reading", "ended", "connecting_speech"}
  PROVE  IInv'
<1>1. /\ ws' = FALSE /\ started' = FALSE /\ received' = 0 /\ left' = 0
      /\ result' = "none" /\ transcript' = 0 /\ link' = NoLink
      /\ open' = IF ws THEN open - 1 ELSE open
  BY DEF Disconnect
<1>2. Types'
  BY <1>1, NoLinkFacts DEF Types
<1>3. open' = 0
  <2>1. open = IF ws THEN 1 ELSE 0
    BY DEF IInv, Counted
  <2>2. QED
    BY <1>1, <2>1
<1>4. Counted'
  BY <1>1, <1>3 DEF Counted
<1>5. Connections'
  BY <1>1 DEF Connections
<1>6. Streams'
  BY <1>1, NoLinkFacts DEF Streams
<1>7. Accounts'
  BY <1>1, NoLinkFacts DEF Accounts, FinishIsLast
<1>8. QED
  BY <1>2, <1>4, <1>5, <1>6, <1>7 DEF IInv

\* The handler goes to another place, and nothing else happens.
LEMMA GoKeepsIInv ==
  ASSUME IInv, UNCHANGED <<own, link>>,
         \/ handling' = handling
         \/ handling' \in {"refusing", "closing", "leaving"}
         \/ handling = "ended" /\ handling' = "reading"
         \/ handling = "reading" /\ handling' \in {"describing", "clearing"}
         \/ handling = "describing" /\ handling' = "reading"
         \/ handling = "reading" /\ ~started /\ handling' = "connecting"
         \/ handling = "reading" /\ started /\ handling' = "finishing"
         \/ handling = "awaiting" /\ result = "final" /\ handling' = "answering"
  PROVE  IInv'
<1>1. UNCHANGED <<ws, open, started, received, left, result, transcript, link>>
  BY DEF own
<1>2. Types'
  BY <1>1 DEF IInv, Types
<1>3. Counted'
  BY <1>1 DEF IInv, Counted
<1>4. Connections'
  BY <1>1 DEF IInv, Types, Connections
<1>5. Streams'
  BY <1>1 DEF IInv, Streams
<1>6. handling \in Closing => handling' \in Closing
  BY DEF Closing
<1>7. Accounts'
  <2>1. Whole(link.heard) => Whole(link.heard)'
    BY <1>1, <1>6 DEF Whole
  <2>2. Whole(transcript) => Whole(transcript)'
    BY <1>1, <1>6 DEF Whole
  <2>3. /\ handling' \in {"reading", "describing", "finishing", "awaiting", "answering"} => left' = 0
        /\ handling' = "forwarding" => left' > 0
        /\ handling' = "answering" => result' = "final"
    BY <1>1 DEF IInv, Accounts, Connections, Streams, Types
  <2>4. QED
    BY <1>1, <1>6, <2>1, <2>2, <2>3 DEF IInv, Accounts
<1>8. QED
  BY <1>2, <1>3, <1>4, <1>5, <1>7 DEF IInv

\* The chunk is counted when it comes; none of it is sent yet.
LEMMA AudioChunkKeepsIInv ==
  ASSUME IInv, NEW size \in 1..ChunkSize, AudioChunk(size), started
  PROVE  IInv'
<1>1. /\ UNCHANGED <<ws, open, started, result, transcript, link>>
      /\ handling = "reading" /\ handling' \in {"refusing", "forwarding"}
      /\ received' = received + size /\ left' = size
  BY DEF AudioChunk
<1>2. size \in Nat \ {0} /\ received \in Nat /\ left = 0
  BY <1>1 DEF IInv, Types, Accounts
<1>3. Types'
  BY <1>1, <1>2 DEF IInv, Types
<1>4. Counted'
  BY <1>1 DEF IInv, Counted
<1>5. Connections'
  BY <1>1 DEF IInv, Connections
<1>6. Streams'
  BY <1>1 DEF IInv, Streams
<1>7. handling \notin Closing
  BY <1>1 DEF Closing
<1>8. /\ \A i \in 1..Len(link.inbox) : link.inbox[i] # "finish"
      /\ \A i \in 1..Len(link.outbox) : link.outbox[i] # "final"
      /\ result # "final"
  BY <1>7 DEF IInv, Accounts, Whole
<1>9. link.worker = "streaming" => link.heard + Slices(link.inbox) + left' = received'
  <2>1. link.worker = "streaming" => link.heard + Slices(link.inbox) = received
    <3>1. link.worker = "streaming" => link.heard + Slices(link.inbox) + 0 = received
      BY <1>2 DEF IInv, Accounts
    <3>2. Slices(link.inbox) \in Nat /\ link.heard \in Nat
      BY <1>8, SlicesSent DEF IInv, Types, Message
    <3>3. QED
      BY <3>1, <3>2
  <2>2. QED
    BY <1>1, <2>1
<1>10. Accounts'
  BY <1>1, <1>2, <1>8, <1>9 DEF IInv, Accounts
<1>11. QED
  BY <1>3, <1>4, <1>5, <1>6, <1>10 DEF IInv

\* connect(): there was no connection.
LEMMA ConnectKeepsIInv ==
  ASSUME IInv,
         \/ Connect("connecting", "greeting")
         \/ Connect("connecting_speech", "greeting_speech")
  PROVE  IInv'
<1>1. /\ handling \in {"connecting", "connecting_speech"}
      /\ handling' \in {"greeting", "greeting_speech"}
      /\ ws' = TRUE /\ open' = open + 1
      /\ link' = [NoLink EXCEPT !.worker = "greeting"]
      /\ UNCHANGED <<started, received, left, result, transcript>>
  BY DEF Connect
<1>2. ~ws /\ ~started
  BY <1>1 DEF IInv, Connections
<1>3. /\ link' \in [worker : {"none", "greeting", "streaming", "speaking", "idle", "gone"},
                    heard : Nat, inbox : Seq(Message), outbox : Seq(Reply)]
      /\ link'.worker = "greeting" /\ link'.heard = 0
      /\ link'.inbox = <<>> /\ link'.outbox = <<>>
      /\ Len(link'.inbox) = 0 /\ Len(link'.outbox) = 0
  BY <1>1, NoLinkFacts
<1>4. Types'
  BY <1>1, <1>3 DEF IInv, Types
<1>5. Counted'
  BY <1>1, <1>2 DEF IInv, Counted
<1>6. Connections'
  BY <1>1, <1>2 DEF Connections
<1>7. Streams'
  BY <1>1, <1>2, <1>3 DEF IInv, Streams
<1>8. result' = "none"
  BY <1>1, <1>2 DEF IInv, Streams
<1>9. Accounts'
  BY <1>1, <1>3, <1>8 DEF Accounts, FinishIsLast
<1>10. QED
  BY <1>4, <1>5, <1>6, <1>7, <1>9 DEF IInv

\* A new stream has heard and received nothing.
LEMMA ReadyKeepsIInv ==
  ASSUME WorkerLimit \in Nat, IInv, Ready
  PROVE  IInv'
<1>1. /\ handling = "greeting" /\ handling' = "reading"
      /\ started' = TRUE /\ result' = "pending"
      /\ link' = [link EXCEPT !.worker = "streaming"]
      /\ UNCHANGED <<ws, open, received, left, transcript>>
  BY DEF Ready
<1>2. ws /\ ~started
  BY <1>1 DEF IInv, Connections
<1>3. /\ received = 0 /\ left = 0 /\ link.heard = 0
      /\ link.inbox = <<>> /\ link.outbox = <<>>
  BY <1>1, <1>2 DEF IInv, Streams
<1>4. /\ link'.worker = "streaming" /\ link'.heard = 0
      /\ link'.inbox = <<>> /\ link'.outbox = <<>>
      /\ Len(link'.inbox) = 0 /\ Len(link'.outbox) = 0
  BY <1>1, <1>3 DEF IInv, Types
<1>5. Types'
  BY <1>1 DEF IInv, Types
<1>6. Counted'
  BY <1>1 DEF IInv, Counted
<1>7. Connections'
  BY <1>1, <1>2 DEF Connections
<1>8. Streams'
  BY <1>1, <1>4 DEF Streams
<1>9. Slices(link'.inbox) = 0
  BY <1>4 DEF Slices
<1>10. Accounts'
  BY <1>1, <1>3, <1>4, <1>9 DEF Accounts, FinishIsLast
<1>11. QED
  BY <1>5, <1>6, <1>7, <1>8, <1>10 DEF IInv

\* Without a stream the channels are empty, and remain so.
LEMMA SpeechKeepsIInv ==
  ASSUME IInv, handling \in {"greeting_speech", "speaking"}, handling' = "speaking",
         UNCHANGED own, NEW n \in Nat, NEW w \in {"speaking", link.worker},
         link' = [link EXCEPT !.worker = w, !.heard = n],
         link.worker = "greeting" => w = "speaking"
  PROVE  IInv'
<1>1. UNCHANGED <<ws, open, started, received, left, result, transcript>>
  BY DEF own
<1>2. ws /\ ~started
  BY DEF IInv, Connections
<1>3. /\ link'.worker = w /\ link'.heard = n
      /\ link'.inbox = link.inbox /\ link'.outbox = link.outbox
      /\ w \in {"none", "greeting", "streaming", "speaking", "idle", "gone"}
  BY DEF IInv, Types
<1>4. /\ link.inbox = <<>> /\ link.outbox = <<>> /\ result = "none"
      /\ link.worker \notin {"streaming", "idle", "gone"}
  BY <1>2 DEF IInv, Streams
<1>5. Types'
  BY <1>1, <1>3 DEF IInv, Types
<1>6. Counted'
  BY <1>1 DEF IInv, Counted
<1>7. Connections'
  BY <1>1, <1>2 DEF Connections
<1>8. Streams'
  BY <1>1, <1>2, <1>3, <1>4 DEF IInv, Streams
<1>9. Len(link'.inbox) = 0 /\ Len(link'.outbox) = 0
  BY <1>3, <1>4
<1>10. Accounts'
  BY <1>1, <1>3, <1>4, <1>9 DEF Accounts, FinishIsLast
<1>11. QED
  BY <1>5, <1>6, <1>7, <1>8, <1>10 DEF IInv

\* A slice goes from the handler to the channel, or is lost with the service.
LEMMA ForwardKeepsIInv ==
  ASSUME IInv, Forward
  PROVE  IInv'
<1>1. /\ handling = "forwarding"
      /\ link' = [link EXCEPT !.inbox = IF link.worker = "gone" THEN @ ELSE Append(@, "audio")]
      /\ left' = left - 1
      /\ handling' = IF left = 1 THEN "reading" ELSE "forwarding"
      /\ UNCHANGED <<ws, open, started, received, result, transcript>>
  BY DEF Forward, Send
<1>2. left \in Nat \ {0} /\ started /\ ws
  BY <1>1 DEF IInv, Types, Accounts, Connections
<1>3. /\ \A i \in 1..Len(link.inbox) : link.inbox[i] # "finish"
      /\ \A i \in 1..Len(link.outbox) : link.outbox[i] # "final"
      /\ result # "final"
  BY <1>1 DEF IInv, Accounts, Whole, Closing
<1>4. link.inbox \in Seq(Message) /\ "audio" \in Message
  BY DEF IInv, Types, Message
<1>5. /\ link'.worker = link.worker /\ link'.heard = link.heard /\ link'.outbox = link.outbox
      /\ link'.inbox = IF link.worker = "gone" THEN link.inbox ELSE Append(link.inbox, "audio")
  BY <1>1 DEF IInv, Types
<1>6. /\ link'.inbox \in Seq(Message)
      /\ \A i \in 1..Len(link'.inbox) : link'.inbox[i] # "finish"
      /\ link.worker # "gone" => Slices(link'.inbox) = Slices(link.inbox) + 1
      /\ Slices(link.inbox) \in Nat
  BY <1>3, <1>4, <1>5, SlicesSent
<1>7. Types'
  <2>1. left' \in Nat
    BY <1>1, <1>2
  <2>2. link' \in [worker : {"none", "greeting", "streaming", "speaking", "idle", "gone"},
                   heard : Nat, inbox : Seq(Message), outbox : Seq(Reply)]
    BY <1>1, <1>5, <1>6 DEF IInv, Types
  <2>3. QED
    BY <1>1, <2>1, <2>2 DEF IInv, Types
<1>8. Counted'
  BY <1>1 DEF IInv, Counted
<1>9. Connections'
  BY <1>1, <1>2 DEF Connections
<1>10. Streams'
  BY <1>1, <1>2, <1>5 DEF IInv, Streams
<1>11. link'.worker = "streaming" => link'.heard + Slices(link'.inbox) + left' = received'
  <2>1. link.worker = "streaming" => link.heard + Slices(link.inbox) + left = received
    BY DEF IInv, Accounts
  <2>2. link.heard \in Nat /\ received \in Nat
    BY DEF IInv, Types
  <2>3. link.worker = "streaming" => Slices(link'.inbox) = Slices(link.inbox) + 1
    BY <1>6
  <2>4. QED
    BY <1>1, <1>2, <1>5, <1>6, <2>1, <2>2, <2>3
<1>12. link'.worker = "streaming" => link'.heard <= WorkerLimit
  BY <1>5 DEF IInv, Accounts
<1>13. /\ handling' \in {"reading", "describing", "finishing", "awaiting", "answering"} => left' = 0
       /\ handling' = "forwarding" => left' > 0
       /\ handling' # "answering" /\ result' # "final"
  BY <1>1, <1>2, <1>3
<1>14. FinishIsLast(link'.inbox)
  BY <1>6 DEF FinishIsLast
<1>15. Accounts'
  BY <1>3, <1>5, <1>6, <1>11, <1>12, <1>13, <1>14 DEF Accounts
<1>16. QED
  BY <1>7, <1>8, <1>9, <1>10, <1>15 DEF IInv

\* asr_finish comes after everything.
LEMMA FinishKeepsIInv ==
  ASSUME IInv, Finish
  PROVE  IInv'
<1>1. /\ handling = "finishing" /\ handling' = "awaiting"
      /\ link' = [link EXCEPT !.inbox = IF link.worker = "gone" THEN @ ELSE Append(@, "finish")]
      /\ UNCHANGED <<ws, open, started, received, left, result, transcript>>
  BY DEF Finish, Send, own
<1>2. left = 0 /\ started /\ ws
  BY <1>1 DEF IInv, Accounts, Connections
<1>3. /\ \A i \in 1..Len(link.inbox) : link.inbox[i] # "finish"
      /\ \A i \in 1..Len(link.outbox) : link.outbox[i] # "final"
      /\ result # "final"
  BY <1>1 DEF IInv, Accounts, Whole, Closing
<1>4. link.inbox \in Seq(Message) /\ "finish" \in Message
  BY DEF IInv, Types, Message
<1>5. /\ link'.worker = link.worker /\ link'.heard = link.heard /\ link'.outbox = link.outbox
      /\ link'.inbox = IF link.worker = "gone" THEN link.inbox ELSE Append(link.inbox, "finish")
  BY <1>1 DEF IInv, Types
<1>6. FinishIsLast(link.inbox) /\ Slices(link.inbox) \in Nat
  BY <1>3, <1>4, SlicesSent DEF FinishIsLast
<1>7. /\ link'.inbox \in Seq(Message)
      /\ FinishIsLast(link'.inbox)
      /\ Slices(link'.inbox) = Slices(link.inbox)
  <2>1. CASE link.worker = "gone"
    BY <1>4, <1>5, <1>6, <2>1
  <2>2. CASE link.worker # "gone"
    <3>1. link'.inbox = Append(link.inbox, "finish")
      BY <1>5, <2>2
    <3>2. /\ Append(link.inbox, "finish") \in Seq(Message)
          /\ FinishIsLast(Append(link.inbox, "finish"))
          /\ Slices(Append(link.inbox, "finish")) = Slices(link.inbox) + 0
      BY <1>3, <1>4, SlicesSent
    <3>3. QED
      BY <1>6, <3>1, <3>2
  <2>3. QED
    BY <2>1, <2>2
<1>8. Types'
  BY <1>1, <1>7 DEF IInv, Types
<1>9. Counted'
  BY <1>1 DEF IInv, Counted
<1>10. Connections'
  BY <1>1, <1>2 DEF Connections
<1>11. Streams'
  BY <1>1, <1>2, <1>5 DEF IInv, Streams
<1>12. handling' \in Closing
  BY <1>1 DEF Closing
<1>13. Accounts'
  BY <1>1, <1>2, <1>3, <1>5, <1>7, <1>12 DEF IInv, Accounts
<1>14. QED
  BY <1>8, <1>9, <1>10, <1>11, <1>13 DEF IInv

\* The handler and its variables stand still while the service moves: what is left
\* to show is about the channels and the stream.
LEMMA ServiceKeepsIInv ==
  ASSUME IInv, UNCHANGED <<handling, own>>, started,
         link' \in [worker : {"streaming", "idle", "gone"},
                    heard : Nat, inbox : Seq(Message), outbox : Seq(Reply)],
         link'.worker = "streaming" => /\ result = "pending"
                                       /\ \A i \in 1..Len(link'.outbox) : link'.outbox[i] = "partial",
         FinishIsLast(link'.inbox),
         \A i \in 1..Len(link'.inbox) : link'.inbox[i] = "finish" => left = 0 /\ handling \in Closing,
         link'.worker = "streaming" => /\ link'.heard + Slices(link'.inbox) + left = received
                                       /\ link'.heard <= WorkerLimit,
         \A i \in 1..Len(link'.outbox) : link'.outbox[i] = "final" => Whole(link'.heard)
  PROVE  IInv'
<1>1. UNCHANGED <<handling, ws, open, started, received, left, result, transcript>>
  BY DEF own
<1>2. Types'
  BY <1>1 DEF IInv, Types
<1>3. Counted'
  BY <1>1 DEF IInv, Counted
<1>4. Connections'
  BY <1>1 DEF IInv, Connections
<1>5. handling # "greeting"
  BY DEF IInv, Connections
<1>6. Streams'
  BY <1>1, <1>5 DEF IInv, Streams
<1>7. \A i \in 1..Len(link'.outbox) : link'.outbox[i] = "final" => Whole(link.heard)'
  BY <1>1 DEF Whole
<1>8. result' = "final" => Whole(transcript)'
  BY <1>1 DEF IInv, Accounts, Whole
<1>9. Accounts'
  BY <1>1, <1>7, <1>8 DEF IInv, Accounts
<1>10. QED
  BY <1>2, <1>3, <1>4, <1>6, <1>9 DEF IInv

\* Taking and answering a message.
LEMMA ServeKeepsIInv ==
  ASSUME WorkerLimit \in Nat, IInv, Serve
  PROVE  IInv'
<1> DEFINE rest == Tail(link.inbox)
<1>1. UNCHANGED <<handling, own>> /\ link.worker = "streaming" /\ link.inbox # <<>>
  BY DEF Serve
<1>2. /\ started /\ result = "pending"
      /\ \A i \in 1..Len(link.outbox) : link.outbox[i] = "partial"
  BY <1>1 DEF IInv, Streams
<1>3. /\ link.inbox \in Seq(Message) /\ link.outbox \in Seq(Reply)
      /\ link.heard \in Nat /\ left \in Nat /\ received \in Nat
      /\ FinishIsLast(link.inbox)
      /\ \A i \in 1..Len(link.inbox) : link.inbox[i] = "finish" => left = 0 /\ handling \in Closing
      /\ link.heard + Slices(link.inbox) + left = received
      /\ link.heard <= WorkerLimit
  BY <1>1 DEF IInv, Types, Accounts
<1>4. /\ rest \in Seq(Message) /\ FinishIsLast(rest)
      /\ \A i \in 1..Len(rest) : rest[i] = "finish" => \E j \in 1..Len(link.inbox) : link.inbox[j] = "finish"
      /\ Head(link.inbox) = "finish" =>
           Slices(link.inbox) = 0 /\ \E j \in 1..Len(link.inbox) : link.inbox[j] = "finish"
      /\ Head(link.inbox) # "finish" => Slices(rest) = Slices(link.inbox) - 1
      /\ Slices(rest) \in Nat /\ Slices(link.inbox) \in Nat
  BY <1>1, <1>3, SlicesTaken
<1>5. \A i \in 1..Len(rest) : rest[i] = "finish" => left = 0 /\ handling \in Closing
  BY <1>3, <1>4
<1>6. ASSUME NEW m \in Reply
      PROVE  /\ Append(link.outbox, m) \in Seq(Reply)
             /\ m = "partial" => \A i \in 1..Len(Append(link.outbox, m)) : Append(link.outbox, m)[i] = "partial"
             /\ m # "final" => \A i \in 1..Len(Append(link.outbox, m)) : Append(link.outbox, m)[i] # "final"
  <2>1. /\ Append(link.outbox, m) \in Seq(Reply)
        /\ Len(Append(link.outbox, m)) = Len(link.outbox) + 1 /\ Len(link.outbox) \in Nat
        /\ \A i \in 1..Len(link.outbox) : Append(link.outbox, m)[i] = link.outbox[i]
        /\ Append(link.outbox, m)[Len(link.outbox) + 1] = m
    BY <1>3, AppendElements
  <2>2. \A i \in 1..Len(Append(link.outbox, m)) : i \in 1..Len(link.outbox) \/ i = Len(link.outbox) + 1
    BY <2>1
  <2>3. QED
    BY <1>2, <2>1, <2>2
<1>7. CASE Head(link.inbox) = "finish"
  <2>1. link' = [link EXCEPT !.inbox = rest, !.worker = "idle", !.outbox = Append(@, "final")]
    BY <1>7 DEF Serve
  <2>2. /\ link'.inbox = rest /\ link'.worker = "idle" /\ link'.heard = link.heard
        /\ link'.outbox = Append(link.outbox, "final")
    BY <2>1 DEF IInv, Types
  <2>3. Append(link.outbox, "final") \in Seq(Reply)
    BY <1>6 DEF Reply
  <2>4. link' \in [worker : {"streaming", "idle", "gone"},
                   heard : Nat, inbox : Seq(Message), outbox : Seq(Reply)]
    BY <1>3, <1>4, <2>1, <2>3 DEF IInv, Types
  <2>5. left = 0 /\ handling \in Closing /\ Slices(link.inbox) = 0
    BY <1>3, <1>4, <1>7
  <2>6. Whole(link'.heard)
    BY <1>3, <2>2, <2>5 DEF Whole
  <2>7. QED
    BY <1>1, <1>2, <1>4, <1>5, <2>2, <2>4, <2>6, ServiceKeepsIInv
<1>8. CASE Head(link.inbox) # "finish" /\ link.heard = WorkerLimit
  <2>1. link' = [link EXCEPT !.inbox = rest, !.worker = "gone", !.outbox = Append(@, "error")]
    BY <1>8 DEF Serve
  <2>2. /\ link'.inbox = rest /\ link'.worker = "gone"
        /\ link'.outbox = Append(link.outbox, "error")
    BY <2>1 DEF IInv, Types
  <2>3. /\ Append(link.outbox, "error") \in Seq(Reply)
        /\ \A i \in 1..Len(Append(link.outbox, "error")) : Append(link.outbox, "error")[i] # "final"
    BY <1>6 DEF Reply
  <2>4. link' \in [worker : {"streaming", "idle", "gone"},
                   heard : Nat, inbox : Seq(Message), outbox : Seq(Reply)]
    BY <1>3, <1>4, <2>1, <2>3 DEF IInv, Types
  <2>5. QED
    BY <1>1, <1>2, <1>4, <1>5, <2>2, <2>3, <2>4, ServiceKeepsIInv
<1>9. CASE Head(link.inbox) # "finish" /\ link.heard # WorkerLimit
  <2>1. link' = [link EXCEPT !.inbox = rest, !.heard = @ + 1, !.outbox = Append(@, "partial")]
    BY <1>9 DEF Serve
  <2>2. /\ link'.inbox = rest /\ link'.worker = "streaming" /\ link'.heard = link.heard + 1
        /\ link'.outbox = Append(link.outbox, "partial")
    BY <1>1, <2>1 DEF IInv, Types
  <2>3. /\ Append(link.outbox, "partial") \in Seq(Reply)
        /\ \A i \in 1..Len(Append(link.outbox, "partial")) : Append(link.outbox, "partial")[i] = "partial"
        /\ \A i \in 1..Len(Append(link.outbox, "partial")) : Append(link.outbox, "partial")[i] # "final"
    BY <1>6 DEF Reply
  <2>4. link' \in [worker : {"streaming", "idle", "gone"},
                   heard : Nat, inbox : Seq(Message), outbox : Seq(Reply)]
    <3>1. link.heard + 1 \in Nat
      BY <1>3
    <3>2. QED
      BY <1>1, <1>4, <2>1, <2>3, <3>1 DEF IInv, Types
  <2>5. link'.heard + Slices(rest) + left = received /\ link'.heard <= WorkerLimit
    <3>1. Slices(rest) = Slices(link.inbox) - 1
      BY <1>4, <1>9
    <3>2. /\ link.heard \in Nat /\ left \in Nat /\ Slices(rest) \in Nat /\ Slices(link.inbox) \in Nat
          /\ link.heard + Slices(link.inbox) + left = received
          /\ link.heard <= WorkerLimit /\ link.heard # WorkerLimit
      BY <1>3, <1>4, <1>9
    <3>3. link'.heard = link.heard + 1
      BY <2>2
    <3> HIDE DEF rest
    <3>4. QED
      BY <3>1, <3>2, <3>3
  <2>6. QED
    BY <1>1, <1>2, <1>4, <1>5, <2>2, <2>3, <2>4, <2>5, ServiceKeepsIInv
<1>10. QED
  BY <1>7, <1>8, <1>9

\* The stream ends without a transcript: nothing more is asked of it.
LEMMA ServiceStopsKeepsIInv ==
  ASSUME IInv, ServiceTimesOut \/ ServeIdle \/ ServiceGone
  PROVE  IInv'
<1>1. UNCHANGED <<handling, own>> /\ link.worker \in {"streaming", "idle"} /\ started
  BY DEF ServiceTimesOut, ServeIdle, ServiceGone, IInv, Streams, Types
<1>2. /\ link.inbox \in Seq(Message) /\ link.outbox \in Seq(Reply) /\ link.heard \in Nat
      /\ FinishIsLast(link.inbox)
      /\ \A i \in 1..Len(link.inbox) : link.inbox[i] = "finish" => left = 0 /\ handling \in Closing
      /\ \A i \in 1..Len(link.outbox) : link.outbox[i] = "final" => Whole(link.heard)
  BY DEF IInv, Types, Accounts
<1>3. CASE ServiceTimesOut
  <2>1. link' = [link EXCEPT !.outbox = Append(@, "error"), !.worker = "idle"]
    BY <1>3 DEF ServiceTimesOut, Emits
  <2>2. /\ Append(link.outbox, "error") \in Seq(Reply)
        /\ Len(Append(link.outbox, "error")) = Len(link.outbox) + 1 /\ Len(link.outbox) \in Nat
        /\ \A i \in 1..Len(link.outbox) : Append(link.outbox, "error")[i] = link.outbox[i]
        /\ Append(link.outbox, "error")[Len(link.outbox) + 1] = "error"
    BY <1>2, AppendElements DEF Reply
  <2>3. /\ link'.inbox = link.inbox /\ link'.worker = "idle" /\ link'.heard = link.heard
        /\ link'.outbox = Append(link.outbox, "error")
    BY <2>1 DEF IInv, Types
  <2>4. link' \in [worker : {"streaming", "idle", "gone"},
                   heard : Nat, inbox : Seq(Message), outbox : Seq(Reply)]
    BY <2>1, <2>2 DEF IInv, Types
  <2>5. \A i \in 1..Len(link'.outbox) : link'.outbox[i] = "final" => Whole(link'.heard)
    <3>1. \A i \in 1..Len(link'.outbox) : i \in 1..Len(link.outbox) \/ i = Len(link.outbox) + 1
      BY <2>2, <2>3
    <3>2. QED
      BY <1>2, <2>2, <2>3, <3>1
  <2>6. QED
    BY <1>1, <1>2, <2>3, <2>4, <2>5, ServiceKeepsIInv
<1>4. CASE ServeIdle
  <2>1. /\ link.inbox # <<>>
        /\ link' = [link EXCEPT !.inbox = Tail(@),
                                !.worker = IF Head(link.inbox) = "finish" THEN "gone" ELSE "idle"]
    BY <1>4 DEF ServeIdle
  <2>2. /\ Tail(link.inbox) \in Seq(Message) /\ FinishIsLast(Tail(link.inbox))
        /\ \A i \in 1..Len(Tail(link.inbox)) :
             Tail(link.inbox)[i] = "finish" => \E j \in 1..Len(link.inbox) : link.inbox[j] = "finish"
    BY <1>2, <2>1, SlicesTaken
  <2>3. /\ link'.inbox = Tail(link.inbox) /\ link'.worker \in {"idle", "gone"}
        /\ link'.heard = link.heard /\ link'.outbox = link.outbox
    BY <2>1 DEF IInv, Types
  <2>4. link' \in [worker : {"streaming", "idle", "gone"},
                   heard : Nat, inbox : Seq(Message), outbox : Seq(Reply)]
    BY <2>1, <2>2 DEF IInv, Types
  <2>5. \A i \in 1..Len(link'.inbox) : link'.inbox[i] = "finish" => left = 0 /\ handling \in Closing
    BY <1>2, <2>2, <2>3
  <2>6. QED
    BY <1>1, <1>2, <2>2, <2>3, <2>4, <2>5, ServiceKeepsIInv
<1>5. CASE ServiceGone
  <2>1. link' = [link EXCEPT !.worker = "gone"]
    BY <1>5 DEF ServiceGone
  <2>2. /\ link'.inbox = link.inbox /\ link'.worker = "gone"
        /\ link'.heard = link.heard /\ link'.outbox = link.outbox
    BY <2>1 DEF IInv, Types
  <2>3. link' \in [worker : {"streaming", "idle", "gone"},
                   heard : Nat, inbox : Seq(Message), outbox : Seq(Reply)]
    BY <2>1 DEF IInv, Types
  <2>4. QED
    BY <1>1, <1>2, <2>2, <2>3, ServiceKeepsIInv
<1>6. QED
  BY <1>3, <1>4, <1>5

\* The result task takes what ends it, or a partial transcript.
LEMMA TakeResultKeepsIInv ==
  ASSUME IInv, TakeResult
  PROVE  IInv'
<1>1. /\ UNCHANGED <<handling, ws, open, started, received, left>>
      /\ result = "pending"
  BY DEF TakeResult
<1>2. started /\ link.worker \in {"streaming", "idle", "gone"} /\ handling # "answering"
  BY <1>1 DEF IInv, Streams, Types, Accounts
<1>3. Counted'
  BY <1>1 DEF IInv, Counted
<1>4. Connections'
  BY <1>1 DEF IInv, Connections
<1>5. CASE /\ link.outbox = <<>> /\ link.worker = "gone"
           /\ result' = "failed"
           /\ UNCHANGED <<transcript, link>>
  <2>1. Types'
    BY <1>1, <1>5 DEF IInv, Types
  <2>2. Streams'
    BY <1>1, <1>2, <1>5 DEF IInv, Streams
  <2>3. Accounts'
    BY <1>1, <1>2, <1>5 DEF IInv, Accounts, Whole
  <2>4. QED
    BY <1>3, <1>4, <2>1, <2>2, <2>3 DEF IInv
<1>6. CASE /\ link.outbox # <<>>
           /\ link' = [link EXCEPT !.outbox = Tail(@)]
           /\ result' = CASE Head(link.outbox) = "final" -> "final"
                          [] Head(link.outbox) = "error" -> "failed"
                          [] OTHER -> "pending"
           /\ transcript' = IF Head(link.outbox) = "final" THEN link.heard ELSE transcript
  <2>1. /\ link.outbox \in Seq(Reply) /\ link.heard \in Nat /\ transcript \in Nat
    BY DEF IInv, Types
  <2>2. /\ Tail(link.outbox) \in Seq(Reply) /\ Head(link.outbox) = link.outbox[1]
        /\ Head(link.outbox) \in Reply
        /\ 1 \in 1..Len(link.outbox)
        /\ \A i \in 1..Len(Tail(link.outbox)) :
             i + 1 \in 1..Len(link.outbox) /\ Tail(link.outbox)[i] = link.outbox[i + 1]
    BY <1>6, <2>1, TailElements
  <2>3. /\ link'.worker = link.worker /\ link'.heard = link.heard
        /\ link'.inbox = link.inbox /\ link'.outbox = Tail(link.outbox)
    BY <1>6 DEF IInv, Types
  <2>4. Types'
    <3>1. transcript' \in Nat
      BY <1>6, <2>1
    <3>2. QED
      BY <1>1, <1>6, <2>2, <3>1 DEF IInv, Types
  <2>5. result' \in {"pending", "final", "failed"}
    BY <1>6
  <2>6. link.worker = "streaming" =>
          result' = "pending" /\ \A i \in 1..Len(link'.outbox) : link'.outbox[i] = "partial"
    <3>1. link.worker = "streaming" => \A i \in 1..Len(link.outbox) : link.outbox[i] = "partial"
      BY DEF IInv, Streams
    <3>2. link.worker = "streaming" => Head(link.outbox) = "partial"
      BY <2>2, <3>1
    <3>3. QED
      BY <1>6, <2>2, <2>3, <3>1, <3>2
  <2>7. Streams'
    BY <1>1, <1>2, <2>3, <2>5, <2>6 DEF IInv, Streams
  <2>8. \A i \in 1..Len(link.outbox) : link.outbox[i] = "final" => Whole(link.heard)
    BY DEF IInv, Accounts
  <2>9. result' = "final" => Whole(link.heard) /\ transcript' = link.heard
    BY <1>6, <2>2, <2>8
  <2>10. result' = "final" => Whole(transcript)'
    BY <1>1, <2>9 DEF Whole
  <2>11. \A i \in 1..Len(link'.outbox) : link'.outbox[i] = "final" => Whole(link.heard)'
    BY <1>1, <2>2, <2>3, <2>8 DEF Whole
  <2>12. Accounts'
    BY <1>1, <1>2, <2>3, <2>10, <2>11 DEF IInv, Accounts
  <2>13. QED
    BY <1>3, <1>4, <2>4, <2>7, <2>12 DEF IInv
<1>7. QED
  BY <1>5, <1>6 DEF TakeResult

\* One step per action of Next; those that disconnect, and those that only move the
\* handler, are treated together.
LEMMA NextKeepsIInv ==
  ASSUME WorkerLimit \in Nat, IInv, [Next]_vars
  PROVE  IInv'
<1>1. CASE Closes
  BY <1>1, DisconnectKeepsIInv DEF Closes, HangUp
<1>2. CASE \/ Ignored \/ Describe \/ Unacceptable \/ ReadEnds \/ ReadFails \/ Transcribe
           \/ AudioStart \/ AudioStop \/ Synthesize \/ Awaited \/ Writes
           \/ Fails \/ ClientGone \/ Accept
  <2> USE DEF Ignored, Describe, Unacceptable, ReadEnds, ReadFails, Transcribe,
              AudioStart, AudioStop, Synthesize, Awaited, Writes, Described, Answer, Refuse,
              Fails, ClientGone, Accept, Go
  <2>1. UNCHANGED <<own, link>>
    BY <1>2
  <2>2. \/ handling' = handling
        \/ handling' \in {"refusing", "closing", "leaving"}
        \/ handling = "ended" /\ handling' = "reading"
        \/ handling = "reading" /\ handling' \in {"describing", "clearing"}
        \/ handling = "describing" /\ handling' = "reading"
        \/ handling = "reading" /\ ~started /\ handling' = "connecting"
        \/ handling = "reading" /\ started /\ handling' = "finishing"
        \/ handling = "awaiting" /\ result = "final" /\ handling' = "answering"
    BY <1>2
  <2>3. QED
    BY <2>1, <2>2, GoKeepsIInv
<1>3. ASSUME NEW size \in 1..ChunkSize, AudioChunk(size)
      PROVE  IInv'
  <2>1. CASE started
    BY <1>3, <2>1, AudioChunkKeepsIInv
  <2>2. CASE ~started
    <3>1. UNCHANGED <<own, link>> /\ handling' = "refusing"
      BY <1>3, <2>2 DEF AudioChunk, Go
    <3>2. QED
      BY <3>1, GoKeepsIInv
  <2>3. QED
    BY <2>1, <2>2
<1>4. CASE Connect("connecting", "greeting") \/ Connect("connecting_speech", "greeting_speech")
  BY <1>4, ConnectKeepsIInv
<1>5. CASE Ready
  BY <1>5, ReadyKeepsIInv
<1>6. CASE SpeechReady
  <2>1. /\ handling = "greeting_speech" /\ handling' = "speaking" /\ UNCHANGED own
        /\ link' = [link EXCEPT !.worker = "speaking"]
    BY <1>6 DEF SpeechReady
  <2>2. link.heard \in Nat /\ link' = [link EXCEPT !.worker = "speaking", !.heard = link.heard]
    BY <2>1 DEF IInv, Types
  <2>3. QED
    BY <2>1, <2>2, SpeechKeepsIInv
<1>7. ASSUME NEW m \in {"start", "audio", "end", "error"}, Speak(m)
      PROVE  IInv'
  <2>1. CASE link' = [link EXCEPT !.heard = IF m = "start" THEN 1 ELSE 2] /\ UNCHANGED <<handling, own>>
    <3>1. handling = "speaking"
      BY <1>7 DEF Speak
    <3>2. PICK n \in Nat : link' = [link EXCEPT !.heard = n]
      BY <2>1
    <3>3. link' = [link EXCEPT !.worker = link.worker, !.heard = n]
      BY <3>2 DEF IInv, Types
    <3>4. link.worker # "greeting"
      BY <3>1 DEF IInv, Streams
    <3>5. QED
      BY <2>1, <3>1, <3>3, <3>4, SpeechKeepsIInv
  <2>2. CASE Go("closing") \/ Go("refusing")
    <3>1. handling = "speaking" /\ UNCHANGED <<own, link>> /\ handling' \in {"closing", "refusing"}
      BY <1>7, <2>2 DEF Speak, Go
    <3>2. QED
      BY <3>1, GoKeepsIInv
  <2>3. QED
    BY <1>7, <2>1, <2>2 DEF Speak
<1>8. CASE Forward
  BY <1>8, ForwardKeepsIInv
<1>9. CASE Finish
  BY <1>9, FinishKeepsIInv
<1>10. CASE TakeResult
  BY <1>10, TakeResultKeepsIInv
<1>11. CASE Serve
  BY <1>11, ServeKeepsIInv
<1>12. CASE ServiceTimesOut \/ ServeIdle \/ ServiceGone
  BY <1>12, ServiceStopsKeepsIInv
<1>13. CASE UNCHANGED vars
  BY <1>13, GoKeepsIInv DEF vars
<1>14. QED
  BY <1>1, <1>2, <1>3, <1>4, <1>5, <1>6, <1>7, <1>8, <1>9, <1>10, <1>11, <1>12, <1>13
     DEF Next, Event, Handler, Service

\* For every limit of the service, the adapter's limit being what it may be.
LEMMA Invariance == WorkerLimit \in Nat => (Spec => []IInv)
<1> SUFFICES ASSUME WorkerLimit \in Nat PROVE Spec => []IInv
  OBVIOUS
<1>1. IInv /\ [Next]_vars => IInv'
  BY NextKeepsIInv
<1>2. QED
  BY InitIInv, <1>1, PTL DEF Spec

-----------------------------------------------------------------------------
(* The theorems.                                                           *)

\* Whatever fails, the adapter has one backend connection at most, knows it, and has
\* none when it waits for a request or its own connection has ended.
THEOREM ConnectionsAreClosed == WorkerLimit \in Nat => (Spec => []NoBackendLeaks)
<1> SUFFICES ASSUME WorkerLimit \in Nat PROVE Spec => []NoBackendLeaks
  OBVIOUS
<1>1. IInv => NoBackendLeaks
  BY DEF IInv, Counted, Connections, NoBackendLeaks
<1>2. QED
  BY Invariance, <1>1, PTL

\* The service is drained for as long as the handler sends to it or waits for it,
\* for every capacity of the channels.
THEOREM ServiceIsDrained == WorkerLimit \in Nat => (Spec => []NeverStalls)
<1> SUFFICES ASSUME WorkerLimit \in Nat PROVE Spec => []NeverStalls
  OBVIOUS
<1>1. IInv => NeverStalls
  BY DEF IInv, Streams, NeverStalls
<1>2. QED
  BY Invariance, <1>1, PTL

\* A transcript that is written was made of all the audio since the start of its
\* stream, for every limit of the adapter and of the service and every way in which
\* the audio is cut into chunks.
THEOREM TranscriptsAreWhole == WorkerLimit \in Nat => (Spec => []TranscriptIsWhole)
<1> SUFFICES ASSUME WorkerLimit \in Nat PROVE Spec => []TranscriptIsWhole
  OBVIOUS
<1>1. IInv => TranscriptIsWhole
  <2>1. SUFFICES ASSUME IInv, handling = "answering"
                 PROVE  transcript = received /\ received <= WorkerLimit
    BY DEF TranscriptIsWhole
  <2>2. Whole(transcript)
    BY <2>1 DEF IInv, Accounts
  <2>3. QED
    BY <2>2 DEF Whole
<1>2. QED
  BY Invariance, <1>1, PTL

=============================================================================
