--------------------------- MODULE AsrStreamProofs ---------------------------
(***************************************************************************)
(* Theorems about AsrStream, for every length of an utterance, of the      *)
(* audio before the wake word and of the server's margin, and for every    *)
(* number of sessions and utterances.                                      *)
(***************************************************************************)
EXTENDS AsrStream, TLAPS

UpMessage == [type : {"asr_start", "audio", "asr_finish", "cancel"},
              s : SessionId, u : Utterance]

DownMessage == [type : {"transcript", "error"}, s : 0..MaxSessions, u : Utterance,
                final : BOOLEAN, of : SUBSET (SessionId \X Utterance)]

Types == TypeOK /\ up \in Seq(UpMessage) /\ down \in Seq(DownMessage)

(***************************************************************************)
(* The protocol, for the messages q on their way to a handler sv: after    *)
(* the first i of them it has the stream of utterance u of session s, be   *)
(* it that it gave one up (g); or it has none.                             *)
(***************************************************************************)
Has(q, sv, g, i, s, u) ==
  IF i = 0 THEN IF sv.active THEN sv.s = s /\ sv.u = u ELSE g
  ELSE q[i].type \in {"asr_start", "audio"} /\ q[i].s = s /\ q[i].u = u

HasNone(q, sv, i) ==
  IF i = 0 THEN ~sv.active ELSE q[i].type \in {"asr_finish", "cancel"}

\* No audio and no end of an utterance without its stream.
Legal(q, sv, g) ==
  \A i \in 1..Len(q) : q[i].type \in {"audio", "asr_finish"}
                         => Has(q, sv, g, i - 1, q[i].s, q[i].u)

(***************************************************************************)
(* The audio of a stream: a run of pieces up to the j-th message, to which *)
(* those the handler has are added when the run begins at the handler.     *)
(***************************************************************************)
Before(sv, i) == IF i = 0 /\ sv.active THEN sv.samples ELSE 0

Run(q, i, j) == \A k \in (i + 1)..j : q[k].type = "audio"

Within(q, sv, j, n) == \A i \in 0..j : Run(q, i, j) => Before(sv, i) + (j - i) <= n

Limit == PreRoll + MaxUtterance

Bounded(q, sv) == \A j \in 0..Len(q) : Within(q, sv, j, Limit)

\* The handler will be left with what the client records, within its limits.
StreamIsRight ==
  server.open =>
    /\ Legal(up, server, gap)
    /\ Bounded(up, server)
    /\ IF ear.recording
       THEN /\ Has(up, server, gap, Len(up), ear.stream, ear.utterance)
            /\ Within(up, server, Len(up), PreRoll + ear.total)
       ELSE HasNone(up, server, Len(up))

(***************************************************************************)
(* The final transcripts of a listening session: one is on its way at      *)
(* most, as an asr_finish or as the answer to it, and is awaited.          *)
(***************************************************************************)
Finish(m) == m.type = "asr_finish" /\ m.s = brain.id
Final(m) == m.type = "transcript" /\ m.final /\ m.s = brain.id

FinalsAreRight ==
  brain.listening =>
    /\ \A i \in 1..Len(up) : Finish(up[i]) => ear.awaiting /\ up[i].u = ear.utterance
    /\ \A i \in 1..Len(down) : Final(down[i]) => ear.awaiting /\ down[i].u = ear.utterance
    /\ \A i, j \in 1..Len(up) : Finish(up[i]) /\ Finish(up[j]) => i = j
    /\ \A i, j \in 1..Len(down) : Final(down[i]) /\ Final(down[j]) => i = j
    /\ \A i \in 1..Len(up), j \in 1..Len(down) : ~(Finish(up[i]) /\ Final(down[j]))

\* Nothing is of a session that does not exist yet.
SessionsExist ==
  /\ ear.stream <= brain.id /\ server.s <= brain.id
  /\ \A i \in 1..Len(up) : up[i].s <= brain.id
  /\ \A i \in 1..Len(down) : down[i].s <= brain.id

EarIsRight ==
  /\ ear.recording => ~ear.awaiting /\ ear.stream # 0
  /\ brain.listening => brain.id # 0
  /\ step = "lost" => ~server.open

AudioIsOwn == /\ server.active => server.of \subseteq {<<server.s, server.u>>}
              /\ OwnAudioOnly

IInv == /\ Types /\ SessionHasItsStream /\ EarIsRight /\ SessionsExist
        /\ StreamIsRight /\ FinalsAreRight /\ AudioIsOwn /\ RefusesOnlyAfterGap

-----------------------------------------------------------------------------
(* Types and sequences.                                                    *)

BrainType == [id : 0..MaxSessions, listening : BOOLEAN, heard : BOOLEAN]
EarType == [stream : 0..MaxSessions, recording : BOOLEAN, awaiting : BOOLEAN,
            utterance : Utterance, total : 0..MaxUtterance]
ServerType == [open : BOOLEAN, active : BOOLEAN, s : 0..MaxSessions, u : Utterance,
               samples : 0..(MaxUtterance + Margin), of : SUBSET (SessionId \X Utterance)]

LEMMA TypesAre ==
  Types <=> /\ step \in {"events", "tick", "frame", "lost"}
            /\ brain \in BrainType /\ ear \in EarType /\ server \in ServerType
            /\ quiet \in BOOLEAN /\ gap \in BOOLEAN
            /\ refused \in {"nothing", "audio", "asr_finish"}
            /\ up \in Seq(UpMessage) /\ down \in Seq(DownMessage)
  BY DEF Types, TypeOK, BrainType, EarType, ServerType

LEMMA AppendElements ==
  ASSUME NEW S, NEW q \in Seq(S), NEW e \in S
  PROVE  /\ Append(q, e) \in Seq(S)
         /\ Len(Append(q, e)) = Len(q) + 1 /\ Len(q) \in Nat
         /\ \A i \in 1..Len(q) : Append(q, e)[i] = q[i]
         /\ Append(q, e)[Len(q) + 1] = e
  OBVIOUS

LEMMA TailElements ==
  ASSUME NEW S, NEW q \in Seq(S), q # <<>>
  PROVE  /\ Head(q) = q[1] /\ 1 \in 1..Len(q) /\ Head(q) \in S
         /\ Tail(q) \in Seq(S) /\ Len(Tail(q)) = Len(q) - 1 /\ Len(q) \in Nat
         /\ \A i \in 1..Len(Tail(q)) : i + 1 \in 1..Len(q) /\ Tail(q)[i] = q[i + 1]
  OBVIOUS

\* p is q followed by n messages m.
Adds(q, p, n, m) == /\ p \in Seq(UpMessage) /\ Len(p) = Len(q) + n
                    /\ \A i \in 1..Len(q) : p[i] = q[i]
                    /\ \A i \in (Len(q) + 1)..Len(p) : p[i] = m

LEMMA AppendAdds ==
  ASSUME NEW q \in Seq(UpMessage), NEW m \in UpMessage
  PROVE  Adds(q, Append(q, m), 1, m)
<1>1. /\ Append(q, m) \in Seq(UpMessage) /\ Len(q) \in Nat /\ Len(Append(q, m)) = Len(q) + 1
      /\ \A i \in 1..Len(q) : Append(q, m)[i] = q[i]
      /\ Append(q, m)[Len(q) + 1] = m
  BY AppendElements
<1>2. \A i \in (Len(q) + 1)..(Len(q) + 1) : i = Len(q) + 1
  BY <1>1
<1>3. QED
  BY <1>1, <1>2 DEF Adds

\* Two messages added at once are two additions.
LEMMA PairAdds ==
  ASSUME NEW q \in Seq(UpMessage), NEW a \in UpMessage, NEW b \in UpMessage
  PROVE  /\ Append(q, a) \in Seq(UpMessage)
         /\ Adds(q, Append(q, a), 1, a)
         /\ Adds(Append(q, a), q \o <<a, b>>, 1, b)
<1> DEFINE r == Append(q, a)
           p == q \o <<a, b>>
<1>1. /\ r \in Seq(UpMessage) /\ Len(q) \in Nat /\ Len(r) = Len(q) + 1
      /\ \A i \in 1..Len(q) : r[i] = q[i]
      /\ r[Len(q) + 1] = a
  BY AppendElements
<1>2. /\ <<a, b>> \in Seq(UpMessage) /\ Len(<<a, b>>) = 2
      /\ <<a, b>>[1] = a /\ <<a, b>>[2] = b
  OBVIOUS
<1>3. /\ p \in Seq(UpMessage) /\ Len(p) = Len(q) + 2
      /\ \A i \in 1..Len(q) : p[i] = q[i]
      /\ p[Len(q) + 1] = a /\ p[Len(q) + 2] = b
  BY <1>1, <1>2
<1> HIDE DEF p, r
<1>4. \A i \in 1..Len(r) : p[i] = r[i]
  <2>1. \A i \in 1..Len(r) : i \in 1..Len(q) \/ i = Len(q) + 1
    BY <1>1
  <2>2. QED
    BY <1>1, <1>3, <2>1
<1>5. \A i \in (Len(r) + 1)..Len(p) : i = Len(q) + 2
  BY <1>1, <1>3
<1>6. Adds(r, p, 1, b)
  BY <1>1, <1>3, <1>4, <1>5 DEF Adds
<1>7. QED
  BY <1>1, <1>6, AppendAdds DEF r, p

\* The audio before a wake word, after its asr_start.
LEMMA PreRollAdds ==
  ASSUME NEW q \in Seq(UpMessage), NEW a \in UpMessage, NEW b \in UpMessage, NEW n \in Nat
  PROVE  /\ Append(q, a) \in Seq(UpMessage)
         /\ Adds(q, Append(q, a), 1, a)
         /\ Adds(Append(q, a), q \o <<a>> \o [i \in 1..n |-> b], n, b)
<1> DEFINE r == Append(q, a)
           t == q \o <<a>>
           pre == [i \in 1..n |-> b]
           p == t \o pre
<1>1. /\ r \in Seq(UpMessage) /\ Len(q) \in Nat /\ Len(r) = Len(q) + 1
      /\ \A i \in 1..Len(q) : r[i] = q[i]
      /\ r[Len(q) + 1] = a
  BY AppendElements
<1>2. <<a>> \in Seq(UpMessage) /\ Len(<<a>>) = 1 /\ <<a>>[1] = a
  OBVIOUS
<1>3. /\ t \in Seq(UpMessage) /\ Len(t) = Len(q) + 1
      /\ \A i \in 1..Len(q) : t[i] = q[i]
      /\ t[Len(q) + 1] = a
  BY <1>1, <1>2
<1>4. pre \in Seq(UpMessage) /\ Len(pre) = n /\ \A i \in 1..n : pre[i] = b
  OBVIOUS
<1> HIDE DEF t, pre, r
<1>5. /\ p \in Seq(UpMessage) /\ Len(p) = Len(t) + n
      /\ \A i \in 1..Len(t) : p[i] = t[i]
      /\ \A i \in (Len(t) + 1)..Len(p) : p[i] = pre[i - Len(t)] /\ i - Len(t) \in 1..n
  BY <1>3, <1>4, <1>1
<1> HIDE DEF p
<1>6. \A i \in 1..Len(r) : p[i] = r[i]
  <2>1. \A i \in 1..Len(r) : i \in 1..Len(q) \/ i = Len(q) + 1
    BY <1>1
  <2>2. QED
    BY <1>1, <1>3, <1>5, <2>1
<1>7. Adds(r, p, n, b)
  BY <1>1, <1>3, <1>4, <1>5, <1>6 DEF Adds
<1>8. QED
  BY <1>1, <1>7, AppendAdds DEF r, p, t, pre

-----------------------------------------------------------------------------
(* What a message sent to the handler does to the protocol.                *)

LEMMA Numbers == /\ PreRoll \in Nat /\ MaxUtterance \in Nat /\ Margin \in Nat
                 /\ Limit \in Nat /\ Limit <= MaxUtterance + Margin
                 /\ 1 < MaxUtterance /\ MaxSessions \in Nat /\ 1 <= MaxSessions
                 /\ MaxContinued \in Nat
  BY StreamAssumption DEF Limit

LEMMA BeforeIsCount ==
  ASSUME NEW sv \in ServerType
  PROVE  /\ \A i \in Nat : Before(sv, i) \in Nat
         /\ \A i \in Nat : i # 0 => Before(sv, i) = 0
  BY Numbers DEF Before, ServerType

\* What held of the messages before holds of them after.
LEMMA AddedKeeps ==
  ASSUME NEW q \in Seq(UpMessage), NEW p, NEW n \in Nat, NEW m, Adds(q, p, n, m), NEW sv, NEW g
  PROVE  /\ \A s, u : \A i \in 0..Len(q) : Has(p, sv, g, i, s, u) <=> Has(q, sv, g, i, s, u)
         /\ \A i, j \in 0..Len(q) : Run(p, i, j) <=> Run(q, i, j)
         /\ \A k : \A j \in 0..Len(q) : Within(p, sv, j, k) <=> Within(q, sv, j, k)
<1>1. Len(q) \in Nat /\ \A i \in 1..Len(q) : p[i] = q[i]
  BY DEF Adds
<1>2. \A s, u : \A i \in 0..Len(q) : Has(p, sv, g, i, s, u) <=> Has(q, sv, g, i, s, u)
  BY <1>1 DEF Has
<1>3. ASSUME NEW i \in 0..Len(q), NEW j \in 0..Len(q)
      PROVE  Run(p, i, j) <=> Run(q, i, j)
  <2>1. \A k \in (i + 1)..j : k \in 1..Len(q)
    BY <1>1
  <2>2. QED
    BY <1>1, <2>1 DEF Run
<1>4. ASSUME NEW j \in 0..Len(q), NEW k
      PROVE  Within(p, sv, j, k) <=> Within(q, sv, j, k)
  <2>1. \A i \in 0..j : i \in 0..Len(q)
    BY <1>1
  <2>2. QED
    BY <1>3, <2>1 DEF Within
<1>5. QED
  BY <1>2, <1>3, <1>4

\* Any message but audio begins a new count.
LEMMA MessageStartsRun ==
  ASSUME NEW q \in Seq(UpMessage), NEW p, NEW m, Adds(q, p, 1, m), m.type # "audio",
         NEW sv \in ServerType, Bounded(q, sv)
  PROVE  Bounded(p, sv) /\ Within(p, sv, Len(p), 0)
<1>1. /\ Len(q) \in Nat /\ Len(p) = Len(q) + 1 /\ p[Len(p)] = m
  BY DEF Adds
<1>2. ASSUME NEW i \in 0..Len(p), Run(p, i, Len(p))
      PROVE  Before(sv, i) + (Len(p) - i) = 0
  <2>1. CASE i <= Len(q)
    <3>1. Len(p) \in (i + 1)..Len(p)
      BY <1>1, <2>1
    <3>2. QED
      BY <1>1, <1>2, <3>1 DEF Run
  <2>2. CASE i = Len(p)
    BY <1>1, <2>2, BeforeIsCount
  <2>3. QED
    BY <1>1, <2>1, <2>2
<1>3. Within(p, sv, Len(p), 0) /\ Within(p, sv, Len(p), Limit)
  BY <1>2, Numbers DEF Within
<1>4. ASSUME NEW j \in 0..Len(p)
      PROVE  Within(p, sv, j, Limit)
  <2>1. CASE j \in 0..Len(q)
    BY <2>1, AddedKeeps DEF Bounded
  <2>2. CASE j = Len(p)
    BY <1>3, <2>2
  <2>3. QED
    BY <1>1, <2>1, <2>2
<1>5. QED
  BY <1>3, <1>4 DEF Bounded

LEMMA SendStart ==
  ASSUME NEW q \in Seq(UpMessage), NEW p, NEW s, NEW u, Adds(q, p, 1, AsrStart(s, u)),
         NEW sv \in ServerType, NEW g, Legal(q, sv, g), Bounded(q, sv)
  PROVE  /\ Legal(p, sv, g) /\ Bounded(p, sv)
         /\ Has(p, sv, g, Len(p), s, u) /\ Within(p, sv, Len(p), 0)
<1>1. /\ Len(q) \in Nat /\ Len(p) = Len(q) + 1 /\ p[Len(p)] = AsrStart(s, u)
      /\ \A i \in 1..Len(q) : p[i] = q[i]
  BY DEF Adds
<1>2. /\ AsrStart(s, u).type = "asr_start" /\ AsrStart(s, u).s = s /\ AsrStart(s, u).u = u
  BY DEF AsrStart
<1>3. Bounded(p, sv) /\ Within(p, sv, Len(p), 0)
  BY <1>2, MessageStartsRun
<1>4. Has(p, sv, g, Len(p), s, u)
  BY <1>1, <1>2 DEF Has
<1>5. ASSUME NEW i \in 1..Len(p), p[i].type \in {"audio", "asr_finish"}
      PROVE  Has(p, sv, g, i - 1, p[i].s, p[i].u)
  <2>1. i # Len(p)
    BY <1>1, <1>2, <1>5
  <2>2. i \in 1..Len(q) /\ i - 1 \in 0..Len(q)
    BY <1>1, <2>1
  <2>3. QED
    BY <1>1, <1>5, <2>2, AddedKeeps DEF Legal
<1>6. QED
  BY <1>3, <1>4, <1>5 DEF Legal

\* The end of a stream: asr_finish of the stream there is, or cancel.
LEMMA SendEnd ==
  ASSUME NEW q \in Seq(UpMessage), NEW p, NEW m, Adds(q, p, 1, m),
         NEW sv \in ServerType, NEW g, Legal(q, sv, g), Bounded(q, sv),
         \/ m.type = "cancel"
         \/ m.type = "asr_finish" /\ Has(q, sv, g, Len(q), m.s, m.u)
  PROVE  /\ Legal(p, sv, g) /\ Bounded(p, sv) /\ HasNone(p, sv, Len(p))
<1>1. /\ Len(q) \in Nat /\ Len(p) = Len(q) + 1 /\ p[Len(p)] = m
      /\ \A i \in 1..Len(q) : p[i] = q[i]
  BY DEF Adds
<1>2. Bounded(p, sv)
  BY MessageStartsRun
<1>3. HasNone(p, sv, Len(p))
  BY <1>1 DEF HasNone
<1>4. ASSUME NEW i \in 1..Len(p), p[i].type \in {"audio", "asr_finish"}
      PROVE  Has(p, sv, g, i - 1, p[i].s, p[i].u)
  <2>1. CASE i = Len(p)
    <3>1. i - 1 = Len(q) /\ Len(q) \in 0..Len(q) /\ p[i] = m
      BY <1>1, <2>1
    <3>2. Has(q, sv, g, Len(q), m.s, m.u)
      BY <1>4, <3>1
    <3>3. QED
      BY <3>1, <3>2, AddedKeeps
  <2>2. CASE i # Len(p)
    <3>1. i \in 1..Len(q) /\ i - 1 \in 0..Len(q)
      BY <1>1, <2>2
    <3>2. QED
      BY <1>1, <1>4, <3>1, AddedKeeps DEF Legal
  <2>3. QED
    BY <2>1, <2>2
<1>5. QED
  BY <1>2, <1>3, <1>4 DEF Legal

\* Audio of the stream there is, k pieces of which are on their way or heard.
LEMMA SendAudio ==
  ASSUME NEW q \in Seq(UpMessage), NEW p, NEW s, NEW u, NEW n \in Nat, NEW k \in Nat,
         Adds(q, p, n, Audio(s, u)), k + n <= Limit,
         NEW sv \in ServerType, NEW g, Legal(q, sv, g), Bounded(q, sv),
         Has(q, sv, g, Len(q), s, u), Within(q, sv, Len(q), k)
  PROVE  /\ Legal(p, sv, g) /\ Bounded(p, sv)
         /\ Has(p, sv, g, Len(p), s, u) /\ Within(p, sv, Len(p), k + n)
<1>1. /\ Len(q) \in Nat /\ Len(p) = Len(q) + n
      /\ \A i \in 1..Len(q) : p[i] = q[i]
      /\ \A i \in (Len(q) + 1)..Len(p) : p[i] = Audio(s, u)
  BY DEF Adds
<1>2. /\ Audio(s, u).type = "audio" /\ Audio(s, u).s = s /\ Audio(s, u).u = u
  BY DEF Audio
<1>3. ASSUME NEW j \in Len(q)..Len(p)
      PROVE  Has(p, sv, g, j, s, u)
  <2>1. CASE j = Len(q)
    <3>1. Len(q) \in 0..Len(q)
      BY <1>1
    <3>2. Has(p, sv, g, Len(q), s, u)
      BY <3>1, AddedKeeps
    <3>3. QED
      BY <2>1, <3>2
  <2>2. CASE j # Len(q)
    <3>1. j \in (Len(q) + 1)..Len(p) /\ j # 0
      BY <1>1, <2>2
    <3>2. QED
      BY <1>1, <1>2, <3>1 DEF Has
  <2>3. QED
    BY <2>1, <2>2
<1>4. ASSUME NEW i \in 1..Len(p), p[i].type \in {"audio", "asr_finish"}
      PROVE  Has(p, sv, g, i - 1, p[i].s, p[i].u)
  <2>1. CASE i \in 1..Len(q)
    <3>1. i - 1 \in 0..Len(q)
      BY <1>1, <2>1
    <3>2. QED
      BY <1>1, <1>4, <2>1, <3>1, AddedKeeps DEF Legal
  <2>2. CASE i \in (Len(q) + 1)..Len(p)
    <3>1. i - 1 \in Len(q)..Len(p)
      BY <1>1, <2>2
    <3>2. QED
      BY <1>1, <1>2, <1>3, <2>2, <3>1
  <2>3. QED
    BY <1>1, <2>1, <2>2
<1>5. ASSUME NEW j \in Len(q)..Len(p)
      PROVE  Within(p, sv, j, k + n)
  <2>1. SUFFICES ASSUME NEW i \in 0..j, Run(p, i, j)
                 PROVE  Before(sv, i) + (j - i) <= k + n
    BY DEF Within
  <2>2. CASE i \in 0..Len(q)
    <3>1. Run(p, i, Len(q))
      <4>1. \A x \in (i + 1)..Len(q) : x \in (i + 1)..j
        BY <1>1, <2>2
      <4>2. QED
        BY <2>1, <4>1 DEF Run
    <3>2. Run(q, i, Len(q))
      <4>1. Len(q) \in 0..Len(q)
        BY <1>1
      <4>2. QED
        BY <2>2, <3>1, <4>1, AddedKeeps
    <3>3. Before(sv, i) + (Len(q) - i) <= k
      BY <2>2, <3>2 DEF Within
    <3>4. Before(sv, i) \in Nat
      BY <1>1, <2>2, BeforeIsCount
    <3>5. QED
      BY <1>1, <2>2, <3>3, <3>4
  <2>3. CASE i > Len(q)
    <3>1. Before(sv, i) = 0
      BY <1>1, <2>3, BeforeIsCount
    <3>2. QED
      BY <1>1, <2>3, <3>1
  <2>4. QED
    BY <1>1, <2>2, <2>3
<1>6. ASSUME NEW j \in 0..Len(p)
      PROVE  Within(p, sv, j, Limit)
  <2>1. CASE j \in 0..Len(q)
    BY <2>1, AddedKeeps DEF Bounded
  <2>2. CASE j \in Len(q)..Len(p)
    <3>1. Within(p, sv, j, k + n)
      BY <1>5, <2>2
    <3>2. \A i \in 0..j : i \in Nat /\ j - i \in Nat
      BY <1>1, <2>2
    <3>3. \A i \in 0..j : Before(sv, i) \in Nat
      BY <3>2, BeforeIsCount
    <3>4. QED
      BY <3>1, <3>2, <3>3, Numbers DEF Within
  <2>3. QED
    BY <1>1, <2>1, <2>2
<1>7. Len(p) \in Len(q)..Len(p)
  BY <1>1
<1>8. QED
  BY <1>3, <1>4, <1>5, <1>6, <1>7 DEF Legal, Bounded

-----------------------------------------------------------------------------
(* What the handler makes of the protocol.                                 *)

\* The handler goes from sv to sw with the first message: what held after that
\* message holds now.
LEMMA HandlerTakes ==
  ASSUME NEW q \in Seq(UpMessage), q # <<>>, NEW p, p = Tail(q),
         NEW sv \in ServerType, NEW sw \in ServerType, NEW g,
         \A s, u : Has(q, sv, g, 1, s, u) => Has(p, sw, g, 0, s, u),
         HasNone(q, sv, 1) => HasNone(p, sw, 0),
         Before(sw, 0) <= IF q[1].type = "audio" THEN Before(sv, 0) + 1 ELSE 0,
         Legal(q, sv, g), Bounded(q, sv)
  PROVE  /\ Legal(p, sw, g) /\ Bounded(p, sw)
         /\ \A s, u : Has(q, sv, g, Len(q), s, u) => Has(p, sw, g, Len(p), s, u)
         /\ HasNone(q, sv, Len(q)) => HasNone(p, sw, Len(p))
         /\ \A n \in Nat : Within(q, sv, Len(q), n) => Within(p, sw, Len(p), n)
<1>1. /\ Len(q) \in Nat /\ Len(p) = Len(q) - 1 /\ Len(q) >= 1 /\ p \in Seq(UpMessage)
      /\ \A i \in 1..Len(p) : p[i] = q[i + 1]
  BY TailElements
<1>2. ASSUME NEW i \in 0..Len(p), NEW s, NEW u, Has(q, sv, g, i + 1, s, u)
      PROVE  Has(p, sw, g, i, s, u)
  <2>1. CASE i = 0
    <3>1. Has(q, sv, g, 1, s, u)
      BY <1>2, <2>1
    <3>2. Has(p, sw, g, 0, s, u)
      BY <3>1
    <3>3. QED
      BY <2>1, <3>2
  <2>2. CASE i # 0
    <3>1. i \in 1..Len(p) /\ i + 1 # 0
      BY <1>1, <2>2
    <3>2. QED
      BY <1>1, <1>2, <2>2, <3>1 DEF Has
  <2>3. QED
    BY <2>1, <2>2
<1>3. ASSUME NEW i \in 0..Len(p), HasNone(q, sv, i + 1)
      PROVE  HasNone(p, sw, i)
  <2>1. CASE i = 0
    BY <1>3, <2>1
  <2>2. CASE i # 0
    <3>1. i \in 1..Len(p) /\ i + 1 # 0
      BY <1>1, <2>2
    <3>2. QED
      BY <1>1, <1>3, <2>2, <3>1 DEF HasNone
  <2>3. QED
    BY <2>1, <2>2
<1>4. Legal(p, sw, g)
  <2>1. SUFFICES ASSUME NEW i \in 1..Len(p), p[i].type \in {"audio", "asr_finish"}
                 PROVE  Has(p, sw, g, i - 1, p[i].s, p[i].u)
    BY DEF Legal
  <2>2. i + 1 \in 1..Len(q) /\ i - 1 \in 0..Len(p) /\ (i - 1) + 1 = (i + 1) - 1
    BY <1>1
  <2>3. p[i] = q[i + 1]
    BY <1>1
  <2>4. Has(q, sv, g, (i - 1) + 1, p[i].s, p[i].u)
    BY <2>1, <2>2, <2>3 DEF Legal
  <2>5. QED
    BY <1>2, <2>2, <2>4
<1>5. ASSUME NEW j \in 0..Len(p), NEW n \in Nat, Within(q, sv, j + 1, n)
      PROVE  Within(p, sw, j, n)
  <2>1. SUFFICES ASSUME NEW i \in 0..j, Run(p, i, j)
                 PROVE  Before(sw, i) + (j - i) <= n
    BY DEF Within
  <2>2. Run(q, i + 1, j + 1)
    <3>1. SUFFICES ASSUME NEW k \in (i + 2)..(j + 1) PROVE q[k].type = "audio"
      BY <1>1 DEF Run
    <3>2. k - 1 \in (i + 1)..j /\ k - 1 \in 1..Len(p) /\ (k - 1) + 1 = k
      BY <1>1
    <3>3. QED
      BY <1>1, <2>1, <3>2 DEF Run
  <2>3. i + 1 \in 0..(j + 1) /\ i + 1 # 0 /\ i + 1 \in Nat
    BY <1>1
  <2>4. (j + 1) - (i + 1) <= n
    <3>1. Before(sv, i + 1) = 0
      BY <2>3, BeforeIsCount
    <3>2. Before(sv, i + 1) + ((j + 1) - (i + 1)) <= n
      BY <1>5, <2>2, <2>3 DEF Within
    <3>3. QED
      BY <1>1, <3>1, <3>2
  <2>5. CASE i # 0
    <3>1. Before(sw, i) = 0
      BY <1>1, <2>5, BeforeIsCount
    <3>2. QED
      BY <1>1, <2>4, <3>1
  <2>6. CASE i = 0 /\ q[1].type # "audio"
    <3>1. Before(sw, 0) <= 0 /\ Before(sw, 0) \in Nat
      BY <2>6, BeforeIsCount
    <3>2. QED
      BY <1>1, <2>4, <2>6, <3>1
  <2>7. CASE i = 0 /\ q[1].type = "audio"
    <3>1. Run(q, 0, j + 1)
      <4>1. SUFFICES ASSUME NEW k \in 1..(j + 1) PROVE q[k].type = "audio"
        BY DEF Run
      <4>2. k = 1 \/ k \in (i + 2)..(j + 1)
        BY <1>1, <2>7
      <4>3. QED
        BY <1>1, <2>2, <2>7, <4>2 DEF Run
    <3>2. Before(sv, 0) + ((j + 1) - 0) <= n
      <4>1. 0 \in 0..(j + 1)
        BY <1>1
      <4>2. QED
        BY <1>5, <3>1, <4>1 DEF Within
    <3>3. Before(sw, 0) <= Before(sv, 0) + 1
      BY <2>7
    <3>4. Before(sv, 0) \in Nat /\ Before(sw, 0) \in Nat
      BY BeforeIsCount
    <3>5. QED
      BY <1>1, <2>7, <3>2, <3>3, <3>4
  <2>8. QED
    BY <2>5, <2>6, <2>7
<1>6. Bounded(p, sw)
  <2>1. \A j \in 0..Len(p) : j + 1 \in 0..Len(q)
    BY <1>1
  <2>2. QED
    BY <1>5, <2>1, Numbers DEF Bounded
<1>7. Len(p) \in 0..Len(p) /\ Len(p) + 1 = Len(q)
  BY <1>1
<1>8. QED
  BY <1>2, <1>3, <1>4, <1>5, <1>6, <1>7

\* The handler gives up its stream, and the gap is known.
LEMMA HandlerGivesUp ==
  ASSUME NEW q \in Seq(UpMessage), NEW sv \in ServerType, NEW sw \in ServerType, NEW g,
         ~sw.active, Legal(q, sv, g), Bounded(q, sv)
  PROVE  /\ Legal(q, sw, TRUE) /\ Bounded(q, sw)
         /\ \A s, u : Has(q, sv, g, Len(q), s, u) => Has(q, sw, TRUE, Len(q), s, u)
         /\ HasNone(q, sv, Len(q)) => HasNone(q, sw, Len(q))
         /\ \A n \in Nat : Within(q, sv, Len(q), n) => Within(q, sw, Len(q), n)
<1>1. Len(q) \in Nat
  OBVIOUS
<1>2. \A i, s, u : Has(q, sv, g, i, s, u) => Has(q, sw, TRUE, i, s, u)
  BY DEF Has
<1>3. ASSUME NEW j \in 0..Len(q), NEW n \in Nat, Within(q, sv, j, n)
      PROVE  Within(q, sw, j, n)
  <2>1. SUFFICES ASSUME NEW i \in 0..j, Run(q, i, j)
                 PROVE  Before(sw, i) + (j - i) <= n
    BY DEF Within
  <2>2. Before(sw, i) = 0 /\ Before(sv, i) \in Nat
    BY <1>1, BeforeIsCount DEF Before
  <2>3. Before(sv, i) + (j - i) <= n
    BY <1>3, <2>1 DEF Within
  <2>4. QED
    BY <1>1, <2>2, <2>3
<1>4. Legal(q, sw, TRUE)
  BY <1>2 DEF Legal
<1>5. HasNone(q, sv, Len(q)) => HasNone(q, sw, Len(q))
  BY DEF HasNone
<1>6. Len(q) \in 0..Len(q)
  BY <1>1
<1>7. QED
  BY <1>2, <1>3, <1>4, <1>5, <1>6, Numbers DEF Bounded

-----------------------------------------------------------------------------
(* What holds of the brain, the ear and the channels after a step.         *)

LEMMA BrainChoices ==
  ASSUME NEW b \in BrainType
  PROVE  /\ \A c \in Ticked(b) : /\ c \in BrainType /\ c.id = b.id
                                 /\ c.listening => b.listening
         /\ \A f, c : c \in HeardBy(b, f) => /\ c \in BrainType /\ c.id = b.id
                                             /\ c.listening => b.listening
<1> DEFINE deaf == [b EXCEPT !.listening = FALSE]
           told == [b EXCEPT !.heard = TRUE]
<1>1. /\ deaf \in BrainType /\ deaf.id = b.id /\ ~deaf.listening
      /\ told \in BrainType /\ told.id = b.id /\ told.listening = b.listening
  BY DEF BrainType
<1> HIDE DEF deaf, told
<1>2. \A c \in Ticked(b) : c = b \/ c = deaf
  BY DEF Ticked, deaf
<1>3. \A f, c : c \in HeardBy(b, f) => c = b \/ c = deaf \/ c = told
  BY DEF HeardBy, deaf, told
<1>4. QED
  BY <1>1, <1>2, <1>3

\* Finals stay right when messages are taken, and others than finals added.
LEMMA FinalsKept ==
  ASSUME FinalsAreRight, up \in Seq(UpMessage), down \in Seq(DownMessage),
         up' \in Seq(UpMessage), down' \in Seq(DownMessage),
         brain'.id = brain.id, brain'.listening => brain.listening,
         ear'.awaiting = ear.awaiting, ear'.utterance = ear.utterance,
         NEW a \in Nat, NEW b \in Nat,
         \A i \in 1..Len(up') : \/ i + a \in 1..Len(up) /\ up'[i] = up[i + a]
                                \/ up'[i].type # "asr_finish",
         \A i \in 1..Len(down') : \/ i + b \in 1..Len(down) /\ down'[i] = down[i + b]
                                  \/ down'[i].type # "transcript" \/ ~down'[i].final
  PROVE  FinalsAreRight'
<1> SUFFICES ASSUME brain'.listening PROVE FinalsAreRight'
  BY DEF FinalsAreRight
<1>1. \A m : (Finish(m) <=> Finish(m)') /\ (Final(m) <=> Final(m)')
  BY DEF Finish, Final
<1>2. \A i \in 1..Len(up') : Finish(up'[i]) => i + a \in 1..Len(up) /\ up'[i] = up[i + a]
  BY DEF Finish
<1>3. \A i \in 1..Len(down') : Final(down'[i]) => i + b \in 1..Len(down) /\ down'[i] = down[i + b]
  BY DEF Final
<1>4. \A i \in 1..Len(up') : Finish(up'[i]) => ear'.awaiting /\ up'[i].u = ear'.utterance
  BY <1>2 DEF FinalsAreRight
<1>5. \A i \in 1..Len(down') : Final(down'[i]) => ear'.awaiting /\ down'[i].u = ear'.utterance
  BY <1>3 DEF FinalsAreRight
<1>6. \A i, j \in 1..Len(up') : Finish(up'[i]) /\ Finish(up'[j]) => i = j
  <2>1. \A i, j \in 1..Len(up') : Finish(up'[i]) /\ Finish(up'[j]) => i + a = j + a
    BY <1>2 DEF FinalsAreRight
  <2>2. \A i, j \in 1..Len(up') : i + a = j + a => i = j
    OBVIOUS
  <2>3. QED
    BY <2>1, <2>2
<1>7. \A i, j \in 1..Len(down') : Final(down'[i]) /\ Final(down'[j]) => i = j
  <2>1. \A i, j \in 1..Len(down') : Final(down'[i]) /\ Final(down'[j]) => i + b = j + b
    BY <1>3 DEF FinalsAreRight
  <2>2. \A i, j \in 1..Len(down') : i + b = j + b => i = j
    OBVIOUS
  <2>3. QED
    BY <2>1, <2>2
<1>8. \A i \in 1..Len(up'), j \in 1..Len(down') : ~(Finish(up'[i]) /\ Final(down'[j]))
  BY <1>2, <1>3 DEF FinalsAreRight
<1>9. \A m : (Finish(m)' <=> m.type = "asr_finish" /\ m.s = brain'.id)
             /\ (Final(m)' <=> m.type = "transcript" /\ m.final /\ m.s = brain'.id)
  BY DEF Finish, Final
<1>10. QED
  BY <1>4, <1>5, <1>6, <1>7, <1>8 DEF FinalsAreRight, Finish, Final

\* A step of the client that sends nothing: an event, a tick or a frame that
\* leaves the recording as it is.
LEMMA QuietStepKeepsIInv ==
  ASSUME IInv, UNCHANGED <<up, server, gap, refused>>,
         down' = down \/ (down # <<>> /\ down' = Tail(down)),
         step' \in {"events", "tick", "frame", "lost"}, quiet' \in BOOLEAN,
         ear' \in EarType, ear'.stream = ear.stream, ear'.recording = ear.recording,
         ear'.awaiting = ear.awaiting, ear'.utterance = ear.utterance,
         ear'.total >= ear.total,
         brain' \in BrainType, brain'.id = brain.id, brain'.listening => brain.listening,
         brain'.listening => step' # "lost", step' = "lost" => ~server.open
  PROVE  IInv'
<1>1. /\ brain \in BrainType /\ ear \in EarType /\ server \in ServerType
      /\ quiet \in BOOLEAN /\ gap \in BOOLEAN /\ refused \in {"nothing", "audio", "asr_finish"}
      /\ up \in Seq(UpMessage) /\ down \in Seq(DownMessage)
  BY TypesAre DEF IInv
<1>2. PICK b \in Nat : \A i \in 1..Len(down') : i + b \in 1..Len(down) /\ down'[i] = down[i + b]
  <2>1. CASE down' = down
    <3>1. \A i \in 1..Len(down') : i + 0 \in 1..Len(down) /\ down'[i] = down[i + 0]
      BY <1>1, <2>1
    <3>2. QED
      BY <3>1
  <2>2. CASE down # <<>> /\ down' = Tail(down)
    <3>1. \A i \in 1..Len(down') : i + 1 \in 1..Len(down) /\ down'[i] = down[i + 1]
      BY <1>1, <2>2, TailElements
    <3>2. QED
      BY <3>1
  <2>3. QED
    BY <2>1, <2>2
<1>3. down' \in Seq(DownMessage)
  BY <1>1, TailElements
<1>4. Types'
  <2>1. /\ step' \in {"events", "tick", "frame", "lost"}
        /\ brain' \in BrainType /\ ear' \in EarType /\ server' \in ServerType
        /\ quiet' \in BOOLEAN /\ gap' \in BOOLEAN
        /\ refused' \in {"nothing", "audio", "asr_finish"}
        /\ up' \in Seq(UpMessage) /\ down' \in Seq(DownMessage)
    BY <1>1, <1>3
  <2>2. QED
    BY <2>1 DEF Types, TypeOK, BrainType, EarType, ServerType
<1>5. SessionHasItsStream' /\ EarIsRight'
  BY DEF IInv, SessionHasItsStream, EarIsRight
<1>6. SessionsExist'
  BY <1>2 DEF IInv, SessionsExist
<1>7. StreamIsRight'
  <2>1. CASE ~server.open
    BY <2>1 DEF StreamIsRight
  <2>2. CASE server.open /\ ~ear.recording
    BY <2>2 DEF IInv, StreamIsRight
  <2>3. CASE server.open /\ ear.recording
    <3>1. /\ Legal(up, server, gap) /\ Bounded(up, server)
          /\ Has(up, server, gap, Len(up), ear.stream, ear.utterance)
          /\ Within(up, server, Len(up), PreRoll + ear.total)
      BY <2>3 DEF IInv, StreamIsRight
    <3>2. Within(up, server, Len(up), PreRoll + ear'.total)
      <4>1. /\ Len(up) \in Nat /\ ear.total \in Nat /\ ear'.total \in Nat
            /\ PreRoll + ear.total <= PreRoll + ear'.total
            /\ PreRoll + ear.total \in Nat /\ PreRoll + ear'.total \in Nat
        BY <1>1, Numbers DEF EarType
      <4>2. \A i \in 0..Len(up) : i \in Nat /\ Len(up) - i \in Nat
        BY <4>1
      <4>3. \A i \in 0..Len(up) : Before(server, i) \in Nat
        BY <1>1, <4>2, BeforeIsCount
      <4>4. QED
        BY <3>1, <4>1, <4>2, <4>3 DEF Within
    <3>3. QED
      BY <2>3, <3>1, <3>2 DEF StreamIsRight
  <2>4. QED
    BY <2>1, <2>2, <2>3
<1>8. FinalsAreRight'
  <2>1. \A i \in 1..Len(up') : i + 0 \in 1..Len(up) /\ up'[i] = up[i + 0]
    BY <1>1
  <2>2. up' \in Seq(UpMessage) /\ 0 \in Nat /\ FinalsAreRight
    BY <1>1 DEF IInv
  <2>3. QED
    BY <1>1, <1>2, <1>3, <2>1, <2>2, FinalsKept
<1>9. AudioIsOwn' /\ RefusesOnlyAfterGap'
  <2>1. \A i \in In(down', "transcript") : i \in 1..Len(down') /\ down'[i].type = "transcript"
    BY DEF In
  <2>2. \A i \in 1..Len(down) : down[i].type = "transcript"
          => down[i].of \subseteq {<<down[i].s, down[i].u>>}
    BY DEF IInv, AudioIsOwn, OwnAudioOnly, In
  <2>3. OwnAudioOnly'
    BY <1>2, <2>1, <2>2 DEF OwnAudioOnly
  <2>4. QED
    BY <2>3 DEF IInv, AudioIsOwn, RefusesOnlyAfterGap
<1>10. QED
  BY <1>4, <1>5, <1>6, <1>7, <1>8, <1>9 DEF IInv

-----------------------------------------------------------------------------
(* The steps of the client that send nothing.                              *)

LEMMA IInvTypes ==
  ASSUME IInv
  PROVE  /\ brain \in BrainType /\ ear \in EarType /\ server \in ServerType
         /\ quiet \in BOOLEAN /\ gap \in BOOLEAN
         /\ refused \in {"nothing", "audio", "asr_finish"}
         /\ up \in Seq(UpMessage) /\ down \in Seq(DownMessage)
         /\ step \in {"events", "tick", "frame", "lost"}
         /\ ear.total >= ear.total
  BY TypesAre DEF IInv, EarType

LEMMA HandleErrorKeepsIInv == ASSUME IInv, HandleError PROVE IInv'
<1>1. /\ UNCHANGED <<up, server, gap, refused, ear, quiet, step>> /\ step = "events"
      /\ down # <<>> /\ down' = Tail(down) /\ brain' = [brain EXCEPT !.listening = FALSE]
  BY DEF HandleError
<1>2. brain' \in BrainType /\ brain'.id = brain.id /\ ~brain'.listening
  BY <1>1, IInvTypes DEF BrainType
<1>3. QED
  BY <1>1, <1>2, IInvTypes, QuietStepKeepsIInv

LEMMA NoMoreEventsKeepsIInv == ASSUME IInv, NoMoreEvents PROVE IInv'
<1>1. /\ UNCHANGED <<up, server, gap, refused, ear, quiet, down, brain>> /\ step' = "tick"
  BY DEF NoMoreEvents
<1>2. QED
  BY <1>1, IInvTypes, QuietStepKeepsIInv

LEMMA FrameWithoutMessageKeepsIInv ==
  ASSUME IInv, NothingToDo \/ Overflow \/ TooLong
  PROVE  IInv'
<1>1. CASE NothingToDo
  <2>1. UNCHANGED <<up, server, gap, refused, ear, quiet, down, brain>> /\ step' = "events"
    BY <1>1 DEF NothingToDo, FrameDone
  <2>2. QED
    BY <2>1, IInvTypes, QuietStepKeepsIInv
<1>2. CASE Overflow
  <2>1. /\ UNCHANGED <<up, server, gap, refused, ear, quiet, down>> /\ step' = "events"
        /\ brain' = [brain EXCEPT !.listening = FALSE]
    BY <1>2 DEF Overflow, FrameDone
  <2>2. brain' \in BrainType /\ brain'.id = brain.id /\ ~brain'.listening
    BY <2>1, IInvTypes DEF BrainType
  <2>3. QED
    BY <2>1, <2>2, IInvTypes, QuietStepKeepsIInv
<1>3. CASE TooLong
  <2>1. /\ UNCHANGED <<up, server, gap, refused, quiet, down>> /\ step' = "events"
        /\ brain' = [brain EXCEPT !.listening = FALSE]
        /\ ear' = [ear EXCEPT !.total = MaxUtterance]
    BY <1>3 DEF TooLong, FrameDone
  <2>2. brain' \in BrainType /\ brain'.id = brain.id /\ ~brain'.listening
    BY <2>1, IInvTypes DEF BrainType
  <2>3. /\ ear' \in EarType /\ ear'.stream = ear.stream /\ ear'.recording = ear.recording
        /\ ear'.awaiting = ear.awaiting /\ ear'.utterance = ear.utterance
        /\ ear'.total = MaxUtterance
    <3>1. MaxUtterance \in 0..MaxUtterance
      BY Numbers
    <3>2. QED
      BY <2>1, <3>1, IInvTypes DEF EarType
  <2>4. ear'.total >= ear.total
    BY <2>3, IInvTypes, Numbers DEF EarType
  <2>5. QED
    BY <2>1, <2>2, <2>3, <2>4, IInvTypes, QuietStepKeepsIInv
<1>4. QED
  BY <1>1, <1>2, <1>3

LEMMA LoseConnectionKeepsIInv == ASSUME IInv, LoseConnection PROVE IInv'
<1>1. /\ UNCHANGED <<up, server, gap, refused, ear, quiet, down>> /\ step' = "lost"
      /\ ~server.open /\ brain' = [brain EXCEPT !.listening = FALSE]
  BY DEF LoseConnection
<1>2. brain' \in BrainType /\ brain'.id = brain.id /\ ~brain'.listening
  BY <1>1, IInvTypes DEF BrainType
<1>3. QED
  BY <1>1, <1>2, IInvTypes, QuietStepKeepsIInv

LEMMA ProgressStallsKeepsIInv == ASSUME IInv, ProgressStalls \/ UNCHANGED vars PROVE IInv'
<1>1. /\ UNCHANGED <<up, server, gap, refused, ear, down, step, brain>> /\ quiet' \in BOOLEAN
  BY IInvTypes DEF ProgressStalls, vars
<1>2. /\ brain.listening => step # "lost"
      /\ step = "lost" => ~server.open
  BY DEF IInv, SessionHasItsStream, EarIsRight
<1>3. QED
  BY <1>1, <1>2, IInvTypes, QuietStepKeepsIInv

\* A transcript: of another session, on the way to the final one, or the final
\* one that the session awaits.
LEMMA HandleTranscriptKeepsIInv == ASSUME IInv, HandleTranscript PROVE IInv'
<1> DEFINE m == Head(down)
<1>1. /\ UNCHANGED <<up, server, gap, refused, step>> /\ step = "events"
      /\ down # <<>> /\ down' = Tail(down)
      /\ m = down[1] /\ 1 \in 1..Len(down) /\ m.type = "transcript" /\ m \in DownMessage
      /\ down' \in Seq(DownMessage)
      /\ \A i \in 1..Len(down') : i + 1 \in 1..Len(down) /\ down'[i] = down[i + 1]
  BY IInvTypes, TailElements DEF HandleTranscript
<1>2. CASE m.s # brain.id
  <2>1. UNCHANGED <<quiet, ear, brain>>
    BY <1>2 DEF HandleTranscript
  <2>2. QED
    BY <1>1, <2>1, IInvTypes, QuietStepKeepsIInv
<1>3. CASE m.s = brain.id /\ ~m.final
  <2>1. /\ quiet' = FALSE /\ ear' = [ear EXCEPT !.awaiting = @ /\ ~m.final]
        /\ brain' \in HeardBy(brain, m.final)
    BY <1>3 DEF HandleTranscript
  <2>2. ear' \in EarType /\ ear'.stream = ear.stream /\ ear'.recording = ear.recording
        /\ ear'.awaiting = ear.awaiting /\ ear'.utterance = ear.utterance
        /\ ear'.total = ear.total
    BY <1>3, <2>1, IInvTypes DEF EarType
  <2>3. brain' \in BrainType /\ brain'.id = brain.id /\ (brain'.listening => brain.listening)
    BY <2>1, IInvTypes, BrainChoices
  <2>4. QED
    BY <1>1, <2>1, <2>2, <2>3, IInvTypes, QuietStepKeepsIInv
<1>4. CASE m.s = brain.id /\ m.final
  <2>1. /\ quiet' = FALSE /\ ear' = [ear EXCEPT !.awaiting = @ /\ ~m.final]
        /\ brain' \in HeardBy(brain, m.final)
    BY <1>4 DEF HandleTranscript
  <2>2. ear' \in EarType /\ ear'.stream = ear.stream /\ ear'.recording = ear.recording
        /\ ~ear'.awaiting /\ ear'.utterance = ear.utterance /\ ear'.total = ear.total
    BY <1>4, <2>1, IInvTypes DEF EarType
  <2>3. brain' \in BrainType /\ brain'.id = brain.id /\ (brain'.listening => brain.listening)
    BY <2>1, IInvTypes, BrainChoices
  <2>4. Types'
    <3>1. /\ step' \in {"events", "tick", "frame", "lost"}
          /\ brain' \in BrainType /\ ear' \in EarType /\ server' \in ServerType
          /\ quiet' \in BOOLEAN /\ gap' \in BOOLEAN
          /\ refused' \in {"nothing", "audio", "asr_finish"}
          /\ up' \in Seq(UpMessage) /\ down' \in Seq(DownMessage)
      BY <1>1, <2>1, <2>2, <2>3, IInvTypes
    <3>2. QED
      BY <3>1 DEF Types, TypeOK, BrainType, EarType, ServerType
  <2>5. SessionHasItsStream' /\ EarIsRight'
    BY <1>1, <2>2, <2>3 DEF IInv, SessionHasItsStream, EarIsRight
  <2>6. SessionsExist'
    BY <1>1, <2>2, <2>3 DEF IInv, SessionsExist
  <2>7. StreamIsRight'
    BY <1>1, <2>2 DEF IInv, StreamIsRight
  <2>8. FinalsAreRight'
    <3>1. SUFFICES ASSUME brain'.listening PROVE FinalsAreRight'
      BY DEF FinalsAreRight
    <3>2. FinalsAreRight /\ brain.listening /\ Final(down[1])
      BY <1>1, <1>4, <2>3, <3>1 DEF IInv, Final
    <3>3. \A i \in 1..Len(up) : ~(up[i].type = "asr_finish" /\ up[i].s = brain.id)
      BY <1>1, <3>2 DEF FinalsAreRight, Finish
    <3>4. \A i \in 1..Len(down) : i # 1 => ~(down[i].type = "transcript" /\ down[i].final
                                             /\ down[i].s = brain.id)
      BY <1>1, <3>2 DEF FinalsAreRight, Final
    <3>5. \A i \in 1..Len(down') : ~(down'[i].type = "transcript" /\ down'[i].final
                                     /\ down'[i].s = brain.id)
      BY <1>1, <3>4
    <3>6. QED
      BY <1>1, <2>3, <3>3, <3>5 DEF FinalsAreRight, Finish, Final
  <2>9. AudioIsOwn' /\ RefusesOnlyAfterGap'
    BY <1>1 DEF IInv, AudioIsOwn, OwnAudioOnly, In, RefusesOnlyAfterGap
  <2>10. QED
    BY <2>4, <2>5, <2>6, <2>7, <2>8, <2>9 DEF IInv
<1>5. QED
  BY <1>1, <1>2, <1>3, <1>4 DEF DownMessage

-----------------------------------------------------------------------------
(* The steps of the client that send.                                      *)

\* What is left to show of a step that only adds to the messages on their way.
LEMMA SendingKeepsIInv ==
  ASSUME IInv, UNCHANGED <<down, server, gap, refused>>, step' \in {"events", "frame"},
         quiet' \in BOOLEAN, brain' \in BrainType, ear' \in EarType, up' \in Seq(UpMessage),
         brain.id <= brain'.id, brain'.listening => brain'.id # 0 /\ ear'.stream = brain'.id,
         ear'.recording => ~ear'.awaiting /\ ear'.stream # 0, ear'.stream <= brain'.id,
         \A i \in 1..Len(up') : \/ i \in 1..Len(up) /\ up'[i] = up[i]
                                \/ up'[i].s = ear.stream \/ up'[i].s = ear'.stream,
         StreamIsRight', FinalsAreRight'
  PROVE  IInv'
<1>1. Types'
  <2>1. /\ step' \in {"events", "tick", "frame", "lost"}
        /\ brain' \in BrainType /\ ear' \in EarType /\ server' \in ServerType
        /\ quiet' \in BOOLEAN /\ gap' \in BOOLEAN
        /\ refused' \in {"nothing", "audio", "asr_finish"}
        /\ up' \in Seq(UpMessage) /\ down' \in Seq(DownMessage)
    BY IInvTypes
  <2>2. QED
    BY <2>1 DEF Types, TypeOK, BrainType, EarType, ServerType
<1>2. SessionHasItsStream' /\ EarIsRight'
  BY DEF SessionHasItsStream, EarIsRight
<1>3. SessionsExist'
  <2>1. /\ brain.id \in Int /\ brain'.id \in Int /\ server.s \in Int
        /\ ear.stream \in Int /\ ear'.stream \in Int
    BY IInvTypes, Numbers DEF BrainType, ServerType, EarType
  <2>2. /\ \A i \in 1..Len(up) : up[i] \in UpMessage
        /\ \A i \in 1..Len(down) : down[i] \in DownMessage
    BY IInvTypes
  <2>3. /\ \A i \in 1..Len(up) : up[i].s \in Int
        /\ \A i \in 1..Len(down) : down[i].s \in Int
    BY <2>2, Numbers DEF UpMessage, DownMessage, SessionId
  <2>4. /\ \A i \in 1..Len(up) : up[i].s <= brain'.id
        /\ \A i \in 1..Len(down) : down[i].s <= brain'.id
        /\ server.s <= brain'.id /\ ear.stream <= brain'.id
    BY <2>1, <2>3 DEF IInv, SessionsExist
  <2>5. QED
    BY <2>4 DEF SessionsExist
<1>4. AudioIsOwn' /\ RefusesOnlyAfterGap'
  BY DEF IInv, AudioIsOwn, OwnAudioOnly, In, RefusesOnlyAfterGap
<1>5. QED
  BY <1>1, <1>2, <1>3, <1>4 DEF IInv

\* The messages of a stream.
LEMMA MessageTypes ==
  ASSUME NEW s \in SessionId, NEW u \in Utterance
  PROVE  /\ AsrStart(s, u) \in UpMessage /\ AsrStart(s, u).s = s
         /\ AsrStart(s, u).type = "asr_start"
         /\ Audio(s, u) \in UpMessage /\ Audio(s, u).s = s /\ Audio(s, u).type = "audio"
         /\ AsrFinish(s, u) \in UpMessage /\ AsrFinish(s, u).s = s /\ AsrFinish(s, u).u = u
         /\ AsrFinish(s, u).type = "asr_finish"
         /\ AsrCancel(s, u) \in UpMessage /\ AsrCancel(s, u).s = s
         /\ AsrCancel(s, u).type = "cancel"
  BY DEF AsrStart, Audio, AsrFinish, AsrCancel, UpMessage

\* A step that ends no utterance, in the session there is.
LEMMA FinalsUnsent ==
  ASSUME IInv, UNCHANGED down, up' \in Seq(UpMessage),
         \A i \in 1..Len(up') : \/ i \in 1..Len(up) /\ up'[i] = up[i]
                                \/ up'[i].type # "asr_finish",
         brain'.id = brain.id, brain'.listening => brain.listening,
         ear'.awaiting = ear.awaiting, ear'.utterance = ear.utterance
  PROVE  FinalsAreRight'
<1>1. up \in Seq(UpMessage) /\ down \in Seq(DownMessage) /\ down' \in Seq(DownMessage)
  BY IInvTypes
<1>2. \A i \in 1..Len(up') : \/ i + 0 \in 1..Len(up) /\ up'[i] = up[i + 0]
                             \/ up'[i].type # "asr_finish"
  BY <1>1
<1>3. \A i \in 1..Len(down') : i + 0 \in 1..Len(down) /\ down'[i] = down[i + 0]
  BY <1>1
<1>4. 0 \in Nat /\ FinalsAreRight
  BY DEF IInv
<1>5. QED
  BY <1>1, <1>2, <1>3, <1>4, FinalsKept

\* The tick finds the session over, and cancel is sent; or it sends nothing.
LEMMA TickKeepsIInv == ASSUME IInv, Tick PROVE IInv'
<1>1. /\ UNCHANGED <<server, gap, refused, quiet, down>> /\ step' = "frame"
      /\ brain' \in BrainType /\ brain'.id = brain.id
      /\ brain'.listening => brain.listening
  BY IInvTypes, BrainChoices DEF Tick
<1>2. CASE ~(ear.stream # 0 /\ ~brain'.listening)
  <2>1. UNCHANGED <<ear, up>>
    BY <1>2 DEF Tick
  <2>2. QED
    BY <1>1, <2>1, IInvTypes, QuietStepKeepsIInv
<1>3. CASE ear.stream # 0 /\ ~brain'.listening
  <2> DEFINE m == AsrCancel(ear.stream, ear.utterance)
  <2>1. /\ up' = Append(up, m)
        /\ ear' = [ear EXCEPT !.stream = 0, !.recording = FALSE, !.awaiting = FALSE]
    BY <1>3 DEF Tick, StopStream
  <2>2. /\ ear' \in EarType /\ ear'.stream = 0 /\ ~ear'.recording
    <3>1. 0 \in 0..MaxSessions
      BY Numbers
    <3>2. QED
      BY <2>1, <3>1, IInvTypes DEF EarType
  <2>3. ear.stream \in SessionId /\ ear.utterance \in Utterance
    BY <1>3, IInvTypes, Numbers DEF EarType, SessionId
  <2>4. m \in UpMessage /\ m.type = "cancel" /\ m.s = ear.stream
    BY <2>3, MessageTypes
  <2>5. Adds(up, up', 1, m)
    BY <2>1, <2>4, IInvTypes, AppendAdds
  <2> HIDE DEF m
  <2>6. /\ up' \in Seq(UpMessage)
        /\ \A i \in 1..Len(up') : (i \in 1..Len(up) /\ up'[i] = up[i]) \/ up'[i] = m
    BY <2>5, IInvTypes DEF Adds
  <2>7. StreamIsRight'
    <3>1. SUFFICES ASSUME server.open PROVE StreamIsRight'
      BY <1>1 DEF StreamIsRight
    <3>2. /\ Legal(up', server, gap) /\ Bounded(up', server)
          /\ HasNone(up', server, Len(up'))
      BY <2>4, <2>5, <3>1, IInvTypes, SendEnd DEF IInv, StreamIsRight
    <3>3. QED
      BY <1>1, <2>2, <3>2 DEF StreamIsRight
  <2>8. FinalsAreRight'
    BY <1>3 DEF FinalsAreRight
  <2>9. ear'.stream <= brain'.id /\ brain.id <= brain'.id
    BY <1>1, <2>2, IInvTypes, Numbers DEF BrainType
  <2>10. QED
    BY <1>1, <1>3, <2>2, <2>4, <2>6, <2>7, <2>8, <2>9, IInvTypes, SendingKeepsIInv
<1>4. QED
  BY <1>2, <1>3

LEMMA RecordKeepsIInv == ASSUME IInv, Record PROVE IInv'
<1> DEFINE m == Audio(ear.stream, ear.utterance)
<1>1. /\ UNCHANGED <<server, gap, refused, quiet, down, brain>> /\ step' = "events"
      /\ brain.listening /\ ear.recording /\ ear.total + 1 < MaxUtterance
      /\ ear' = [ear EXCEPT !.total = @ + 1] /\ up' = Append(up, m)
  BY DEF Record, FrameDone
<1>2. /\ ear.stream = brain.id /\ brain.id # 0 /\ ear.stream <= brain.id
      /\ ear.recording => ~ear.awaiting /\ ear.stream # 0
  BY <1>1 DEF IInv, SessionHasItsStream, EarIsRight, SessionsExist
<1>3. ear.stream \in SessionId /\ ear.utterance \in Utterance /\ ear.total \in Nat
  BY <1>2, IInvTypes, Numbers DEF EarType, SessionId
<1>4. /\ ear' \in EarType /\ ear'.stream = ear.stream /\ ear'.recording = ear.recording
      /\ ear'.awaiting = ear.awaiting /\ ear'.utterance = ear.utterance
      /\ ear'.total = ear.total + 1
  <2>1. ear.total + 1 \in 0..MaxUtterance
    BY <1>1, <1>3, Numbers
  <2>2. QED
    BY <1>1, <2>1, IInvTypes DEF EarType
<1>5. m \in UpMessage /\ m.type = "audio" /\ m.s = ear.stream
  BY <1>3, MessageTypes
<1>6. Adds(up, up', 1, m)
  BY <1>1, <1>5, IInvTypes, AppendAdds
<1>7. /\ up' \in Seq(UpMessage)
      /\ \A i \in 1..Len(up') : (i \in 1..Len(up) /\ up'[i] = up[i]) \/ up'[i] = m
  BY <1>6, IInvTypes DEF Adds
<1>8. StreamIsRight'
  <2>1. SUFFICES ASSUME server.open PROVE StreamIsRight'
    BY <1>1 DEF StreamIsRight
  <2>2. /\ Legal(up, server, gap) /\ Bounded(up, server)
        /\ Has(up, server, gap, Len(up), ear.stream, ear.utterance)
        /\ Within(up, server, Len(up), PreRoll + ear.total)
    BY <1>1, <2>1 DEF IInv, StreamIsRight
  <2>3. /\ PreRoll + ear.total \in Nat /\ 1 \in Nat /\ (PreRoll + ear.total) + 1 <= Limit
        /\ (PreRoll + ear.total) + 1 = PreRoll + ear'.total
    BY <1>1, <1>3, <1>4, Numbers DEF Limit
  <2>4. /\ Legal(up', server, gap) /\ Bounded(up', server)
        /\ Has(up', server, gap, Len(up'), ear.stream, ear.utterance)
        /\ Within(up', server, Len(up'), (PreRoll + ear.total) + 1)
    BY <1>6, <2>2, <2>3, IInvTypes, SendAudio
  <2>5. QED
    BY <1>1, <1>4, <2>3, <2>4 DEF StreamIsRight
<1> HIDE DEF m
<1>9. FinalsAreRight'
  BY <1>1, <1>4, <1>5, <1>7, FinalsUnsent
<1>10. brain.id <= brain'.id /\ brain' \in BrainType /\ quiet' \in BOOLEAN
  BY <1>1, IInvTypes, Numbers DEF BrainType
<1>11. QED
  BY <1>1, <1>2, <1>4, <1>5, <1>7, <1>8, <1>9, <1>10, SendingKeepsIInv


LEMMA EndUtteranceKeepsIInv == ASSUME IInv, EndUtterance PROVE IInv'
<1> DEFINE a == Audio(ear.stream, ear.utterance)
           f == AsrFinish(ear.stream, ear.utterance)
           q == Append(up, a)
<1>1. /\ UNCHANGED <<server, gap, refused, quiet, down, brain>> /\ step' = "events"
      /\ brain.listening /\ ear.recording /\ ear.total + 1 < MaxUtterance
      /\ ear' = [ear EXCEPT !.recording = FALSE, !.awaiting = TRUE, !.total = @ + 1]
      /\ up' = up \o <<a, f>>
  BY DEF EndUtterance, FrameDone
<1>2. /\ ear.stream = brain.id /\ brain.id # 0 /\ ear.stream <= brain.id
      /\ ~ear.awaiting /\ ear.stream # 0
  BY <1>1 DEF IInv, SessionHasItsStream, EarIsRight, SessionsExist
<1>3. ear.stream \in SessionId /\ ear.utterance \in Utterance /\ ear.total \in Nat
  BY <1>2, IInvTypes, Numbers DEF EarType, SessionId
<1>4. /\ ear' \in EarType /\ ear'.stream = ear.stream /\ ear'.recording = FALSE
      /\ ear'.awaiting = TRUE /\ ear'.utterance = ear.utterance
  <2>1. ear.total + 1 \in 0..MaxUtterance
    BY <1>1, <1>3, Numbers
  <2>2. QED
    BY <1>1, <2>1, IInvTypes DEF EarType
<1>5. /\ a \in UpMessage /\ a.type = "audio" /\ a.s = ear.stream
      /\ f \in UpMessage /\ f.type = "asr_finish" /\ f.s = ear.stream /\ f.u = ear.utterance
  BY <1>3, MessageTypes
<1>6. q \in Seq(UpMessage) /\ Adds(up, q, 1, a) /\ Adds(q, up', 1, f)
  BY <1>1, <1>5, IInvTypes, PairAdds
<1> HIDE DEF q
<1>7. /\ up' \in Seq(UpMessage) /\ Len(up') = Len(up) + 2 /\ Len(up) \in Nat
      /\ \A i \in 1..Len(up) : up'[i] = up[i]
      /\ up'[Len(up) + 1] = a /\ up'[Len(up) + 2] = f
  BY <1>6, IInvTypes DEF Adds
<1>8. \A i \in 1..Len(up') : i \in 1..Len(up) \/ i = Len(up) + 1 \/ i = Len(up) + 2
  BY <1>7
<1>9. StreamIsRight'
  <2>1. SUFFICES ASSUME server.open PROVE StreamIsRight'
    BY <1>1 DEF StreamIsRight
  <2>2. /\ Legal(up, server, gap) /\ Bounded(up, server)
        /\ Has(up, server, gap, Len(up), ear.stream, ear.utterance)
        /\ Within(up, server, Len(up), PreRoll + ear.total)
    BY <1>1, <2>1 DEF IInv, StreamIsRight
  <2>3. PreRoll + ear.total \in Nat /\ 1 \in Nat /\ (PreRoll + ear.total) + 1 <= Limit
    <3>1. ear.total + 1 < MaxUtterance
      BY <1>1
    <3>2. QED
      BY <1>3, <3>1, Numbers DEF Limit
  <2>4. /\ Legal(q, server, gap) /\ Bounded(q, server)
        /\ Has(q, server, gap, Len(q), ear.stream, ear.utterance)
    BY <1>6, <2>2, <2>3, IInvTypes, SendAudio
  <2> HIDE DEF f
  <2>5. Legal(up', server, gap) /\ Bounded(up', server) /\ HasNone(up', server, Len(up'))
    BY <1>5, <1>6, <2>4, IInvTypes, SendEnd
  <2>6. QED
    BY <1>1, <1>4, <2>5 DEF StreamIsRight
<1> HIDE DEF a, f
<1>10. FinalsAreRight'
  <2>1. /\ \A i \in 1..Len(up) : ~(up[i].type = "asr_finish" /\ up[i].s = brain.id)
        /\ \A i \in 1..Len(down) : ~(down[i].type = "transcript" /\ down[i].final
                                     /\ down[i].s = brain.id)
    BY <1>1, <1>2 DEF IInv, FinalsAreRight, Finish, Final
  <2>2. \A i \in 1..Len(up') : up'[i].type = "asr_finish" /\ up'[i].s = brain.id
                                 => i = Len(up) + 2 /\ up'[i].u = ear'.utterance
    BY <1>4, <1>5, <1>7, <1>8, <2>1
  <2>3. /\ \A i \in 1..Len(up') : Finish(up[i])' => ear'.awaiting /\ up'[i].u = ear'.utterance
        /\ \A i, j \in 1..Len(up') : Finish(up[i])' /\ Finish(up[j])' => i = j
    BY <1>1, <1>4, <2>2 DEF Finish
  <2>4. \A i \in 1..Len(down') : ~Final(down[i])'
    BY <1>1, <2>1 DEF Final
  <2>5. QED
    BY <2>3, <2>4 DEF FinalsAreRight
<1>11. \A i \in 1..Len(up') : (i \in 1..Len(up) /\ up'[i] = up[i]) \/ up'[i].s = ear.stream
  BY <1>5, <1>7, <1>8
<1>12. brain.id <= brain'.id /\ brain' \in BrainType /\ quiet' \in BOOLEAN
  BY <1>1, IInvTypes, Numbers DEF BrainType
<1>13. QED
  BY <1>1, <1>2, <1>4, <1>7, <1>9, <1>10, <1>11, <1>12, SendingKeepsIInv

\* The next utterance of a session whose last one was answered: no final of it
\* is left.
LEMMA ContinueKeepsIInv == ASSUME IInv, Continue PROVE IInv'
<1> DEFINE n == ear.utterance + 1
           b == AsrStart(ear.stream, n)
           a == Audio(ear.stream, n)
           q == Append(up, b)
<1>1. /\ UNCHANGED <<server, gap, refused, down, brain>> /\ step' = "events" /\ quiet' = FALSE
      /\ brain.listening /\ ~ear.recording /\ ~ear.awaiting /\ ear.utterance < MaxContinued
      /\ ear' = [ear EXCEPT !.utterance = n, !.recording = TRUE, !.total = FirstTotal]
      /\ up' = up \o <<b, a>>
  BY DEF Continue, FrameDone
<1>2. /\ ear.stream = brain.id /\ brain.id # 0 /\ ear.stream <= brain.id
  BY <1>1 DEF IInv, SessionHasItsStream, EarIsRight, SessionsExist
<1>3. ear.stream \in SessionId /\ n \in Utterance
  <2>1. ear.stream \in SessionId /\ ear.utterance \in Utterance
    BY <1>2, IInvTypes, Numbers DEF EarType, SessionId
  <2>2. QED
    BY <1>1, <2>1, Numbers DEF Utterance
<1> HIDE DEF n
<1>4. /\ ear' \in EarType /\ ear'.stream = ear.stream /\ ear'.recording = TRUE
      /\ ear'.awaiting = ear.awaiting /\ ear'.utterance = n /\ ear'.total = FirstTotal
  <2>1. FirstTotal \in 0..MaxUtterance
    BY StreamAssumption DEF FirstTotal
  <2>2. QED
    BY <1>1, <1>3, <2>1, IInvTypes DEF EarType
<1>5. /\ a \in UpMessage /\ a.type = "audio" /\ a.s = ear.stream
      /\ b \in UpMessage /\ b.type = "asr_start" /\ b.s = ear.stream
  BY <1>3, MessageTypes
<1>6. q \in Seq(UpMessage) /\ Adds(up, q, 1, b) /\ Adds(q, up', 1, a)
  BY <1>1, <1>5, IInvTypes, PairAdds
<1> HIDE DEF q
<1>7. /\ up' \in Seq(UpMessage) /\ Len(up') = Len(up) + 2 /\ Len(up) \in Nat
      /\ \A i \in 1..Len(up) : up'[i] = up[i]
      /\ up'[Len(up) + 1] = b /\ up'[Len(up) + 2] = a
  BY <1>6, IInvTypes DEF Adds
<1>8. \A i \in 1..Len(up') : i \in 1..Len(up) \/ i = Len(up) + 1 \/ i = Len(up) + 2
  BY <1>7
<1>9. StreamIsRight'
  <2>1. SUFFICES ASSUME server.open PROVE StreamIsRight'
    BY <1>1 DEF StreamIsRight
  <2>2. Legal(up, server, gap) /\ Bounded(up, server)
    BY <2>1 DEF IInv, StreamIsRight
  <2>3. /\ Legal(q, server, gap) /\ Bounded(q, server)
        /\ Has(q, server, gap, Len(q), ear.stream, n) /\ Within(q, server, Len(q), 0)
    BY <1>6, <2>2, IInvTypes, SendStart
  <2>4. 0 \in Nat /\ 1 \in Nat /\ 0 + 1 <= Limit
    BY Numbers DEF Limit
  <2>5. /\ Legal(up', server, gap) /\ Bounded(up', server)
        /\ Has(up', server, gap, Len(up'), ear.stream, n)
        /\ Within(up', server, Len(up'), 0 + 1)
    BY <1>6, <2>3, <2>4, IInvTypes, SendAudio
  <2>6. Within(up', server, Len(up'), PreRoll + ear'.total)
    <3>1. 0 + 1 <= PreRoll + ear'.total /\ PreRoll + ear'.total \in Nat
      BY <1>4, Numbers DEF FirstTotal
    <3>2. \A i \in 0..Len(up') : i \in Nat /\ Len(up') - i \in Nat
      BY <1>7
    <3>3. \A i \in 0..Len(up') : Before(server, i) \in Nat
      BY <3>2, IInvTypes, BeforeIsCount
    <3>4. QED
      BY <2>5, <3>1, <3>2, <3>3 DEF Within
  <2>7. QED
    BY <1>1, <1>4, <2>5, <2>6 DEF StreamIsRight
<1> HIDE DEF a, b
<1>10. FinalsAreRight'
  <2>1. /\ \A i \in 1..Len(up) : ~(up[i].type = "asr_finish" /\ up[i].s = brain.id)
        /\ \A i \in 1..Len(down) : ~(down[i].type = "transcript" /\ down[i].final
                                     /\ down[i].s = brain.id)
    BY <1>1 DEF IInv, FinalsAreRight, Finish, Final
  <2>2. \A i \in 1..Len(up') : ~(up'[i].type = "asr_finish" /\ up'[i].s = brain.id)
    BY <1>5, <1>7, <1>8, <2>1
  <2>3. QED
    BY <1>1, <2>1, <2>2 DEF FinalsAreRight, Finish, Final
<1>11. \A i \in 1..Len(up') : (i \in 1..Len(up) /\ up'[i] = up[i]) \/ up'[i].s = ear.stream
  BY <1>5, <1>7, <1>8
<1>12. brain.id <= brain'.id /\ brain' \in BrainType
  <2>1. brain' = brain /\ brain.id \in Int
    BY <1>1, IInvTypes, Numbers DEF BrainType
  <2>2. QED
    BY <2>1, IInvTypes
<1>13. ear'.recording => ~ear'.awaiting /\ ear'.stream # 0
  BY <1>1, <1>2, <1>4
<1>14. QED
  BY <1>1, <1>2, <1>4, <1>7, <1>9, <1>10, <1>11, <1>12, <1>13, SendingKeepsIInv

\* A new session: nothing on its way is of it.
LEMMA WakeKeepsIInv == ASSUME IInv, Wake PROVE IInv'
<1> DEFINE n == brain.id + 1
           b == AsrStart(n, 0)
           a == Audio(n, 0)
           q == Append(up, b)
<1>1. /\ UNCHANGED <<server, gap, refused, down>> /\ step' = "events" /\ quiet' = FALSE
      /\ brain.id < MaxSessions
      /\ brain' = [id |-> n, listening |-> TRUE, heard |-> FALSE]
      /\ ear' = [stream |-> n, recording |-> TRUE, awaiting |-> FALSE,
                 utterance |-> 0, total |-> 0]
      /\ up' = up \o <<b>> \o [i \in 1..PreRoll |-> a]
  BY DEF Wake, FrameDone
<1>2. /\ brain.id \in Nat /\ n \in SessionId /\ n \in 0..MaxSessions /\ n > brain.id /\ n # 0
      /\ brain.id <= n /\ 0 \in Utterance
  BY <1>1, IInvTypes, Numbers DEF BrainType, SessionId, Utterance
<1> HIDE DEF n
<1>3. /\ brain' \in BrainType /\ brain'.id = n /\ brain'.listening
      /\ ear' \in EarType /\ ear'.stream = n /\ ear'.recording /\ ~ear'.awaiting
      /\ ear'.utterance = 0 /\ ear'.total = 0
  <2>1. 0 \in 0..MaxUtterance
    BY Numbers
  <2>2. QED
    BY <1>1, <1>2, <2>1 DEF BrainType, EarType
<1>4. /\ a \in UpMessage /\ a.type = "audio" /\ a.s = n
      /\ b \in UpMessage /\ b.type = "asr_start" /\ b.s = n
  BY <1>2, MessageTypes
<1>5. q \in Seq(UpMessage) /\ Adds(up, q, 1, b) /\ Adds(q, up', PreRoll, a)
  BY <1>1, <1>4, IInvTypes, Numbers, PreRollAdds
<1> HIDE DEF q
<1>6. /\ up' \in Seq(UpMessage) /\ Len(up) \in Nat /\ Len(up') = Len(up) + 1 + PreRoll
      /\ \A i \in 1..Len(up) : up'[i] = up[i]
      /\ up'[Len(up) + 1] = b
      /\ \A i \in (Len(up) + 2)..Len(up') : up'[i] = a
  BY <1>5, IInvTypes, Numbers DEF Adds
<1>7. \A i \in 1..Len(up') : \/ i \in 1..Len(up) \/ i = Len(up) + 1
                             \/ i \in (Len(up) + 2)..Len(up')
  BY <1>6, Numbers
<1>8. StreamIsRight'
  <2>1. SUFFICES ASSUME server.open PROVE StreamIsRight'
    BY <1>1 DEF StreamIsRight
  <2>2. Legal(up, server, gap) /\ Bounded(up, server)
    BY <2>1 DEF IInv, StreamIsRight
  <2>3. /\ Legal(q, server, gap) /\ Bounded(q, server)
        /\ Has(q, server, gap, Len(q), n, 0) /\ Within(q, server, Len(q), 0)
    BY <1>5, <2>2, IInvTypes, SendStart
  <2>4. 0 \in Nat /\ PreRoll \in Nat /\ 0 + PreRoll <= Limit /\ 0 + PreRoll = PreRoll + 0
    BY Numbers DEF Limit
  <2>5. /\ Legal(up', server, gap) /\ Bounded(up', server)
        /\ Has(up', server, gap, Len(up'), n, 0)
        /\ Within(up', server, Len(up'), 0 + PreRoll)
    BY <1>5, <2>3, <2>4, IInvTypes, SendAudio
  <2>6. QED
    BY <1>1, <1>3, <2>4, <2>5 DEF StreamIsRight
<1> HIDE DEF a, b
<1>9. FinalsAreRight'
  <2>1. /\ \A i \in 1..Len(up) : up[i].s <= brain.id
        /\ \A i \in 1..Len(down) : down[i].s <= brain.id
    BY DEF IInv, SessionsExist
  <2>2. \A x \in Int : x <= brain.id => x # n
    BY <1>2
  <2>3. /\ \A i \in 1..Len(up) : up[i].s \in Int
        /\ \A i \in 1..Len(down) : down[i].s \in Int
    <3>1. /\ \A i \in 1..Len(up) : up[i] \in UpMessage
          /\ \A i \in 1..Len(down) : down[i] \in DownMessage
      BY IInvTypes
    <3>2. QED
      BY <3>1, Numbers DEF UpMessage, DownMessage, SessionId
  <2>4. /\ \A i \in 1..Len(up) : up[i].s # n
        /\ \A i \in 1..Len(down) : down[i].s # n
    BY <2>1, <2>2, <2>3
  <2>5. \A i \in 1..Len(up') : ~(up'[i].type = "asr_finish" /\ up'[i].s = n)
    BY <1>4, <1>6, <1>7, <2>4
  <2>6. QED
    BY <1>1, <1>3, <2>4, <2>5 DEF FinalsAreRight, Finish, Final
<1>10. \A i \in 1..Len(up') : (i \in 1..Len(up) /\ up'[i] = up[i]) \/ up'[i].s = ear'.stream
  BY <1>3, <1>4, <1>6, <1>7
<1>11. ear'.stream <= brain'.id /\ brain.id <= brain'.id
  BY <1>2, <1>3
<1>12. QED
  BY <1>1, <1>2, <1>3, <1>6, <1>8, <1>9, <1>10, <1>11, SendingKeepsIInv


-----------------------------------------------------------------------------
(* The connection is left, and another one opened.                         *)

LEMMA NoProgressKeepsIInv == ASSUME IInv, NoProgress PROVE IInv'
<1>1. /\ UNCHANGED <<ear, quiet, up, down, gap, refused>> /\ step' = "lost"
      /\ brain' = [brain EXCEPT !.listening = FALSE]
      /\ server' = [server EXCEPT !.open = FALSE]
  BY DEF NoProgress
<1>2. brain' \in BrainType /\ brain'.id = brain.id /\ ~brain'.listening
  BY <1>1, IInvTypes DEF BrainType
<1>3. /\ server' \in ServerType /\ ~server'.open /\ server'.active = server.active
      /\ server'.s = server.s /\ server'.u = server.u /\ server'.of = server.of
  BY <1>1, IInvTypes DEF ServerType
<1>4. Types'
  <2>1. /\ step' \in {"events", "tick", "frame", "lost"}
        /\ brain' \in BrainType /\ ear' \in EarType /\ server' \in ServerType
        /\ quiet' \in BOOLEAN /\ gap' \in BOOLEAN
        /\ refused' \in {"nothing", "audio", "asr_finish"}
        /\ up' \in Seq(UpMessage) /\ down' \in Seq(DownMessage)
    BY <1>1, <1>2, <1>3, IInvTypes
  <2>2. QED
    BY <2>1 DEF Types, TypeOK, BrainType, EarType, ServerType
<1>5. SessionHasItsStream' /\ EarIsRight' /\ StreamIsRight' /\ FinalsAreRight'
  BY <1>1, <1>2, <1>3
     DEF IInv, SessionHasItsStream, EarIsRight, StreamIsRight, FinalsAreRight
<1>6. SessionsExist'
  BY <1>1, <1>2, <1>3 DEF IInv, SessionsExist
<1>7. AudioIsOwn' /\ RefusesOnlyAfterGap'
  BY <1>1, <1>3 DEF IInv, AudioIsOwn, OwnAudioOnly, In, RefusesOnlyAfterGap
<1>8. QED
  BY <1>4, <1>5, <1>6, <1>7 DEF IInv

\* A new connection has nothing on its way.
LEMMA NewConnection ==
  ASSUME brain.id \in 0..MaxSessions
  PROVE  /\ NotRecording \in EarType /\ NewHandler \in ServerType
         /\ NotRecording.stream = 0 /\ ~NotRecording.recording /\ ~NotRecording.awaiting
         /\ NewHandler.s = 0 /\ ~NewHandler.active
         /\ Len(<<>>) = 0 /\ 0 <= brain.id
         /\ \A g : Legal(<<>>, NewHandler, g)
         /\ Bounded(<<>>, NewHandler) /\ HasNone(<<>>, NewHandler, 0)
<1>1. 0 \in 0..MaxSessions /\ 0 \in Utterance /\ 0 \in 0..MaxUtterance
      /\ 0 \in 0..(MaxUtterance + Margin)
  BY Numbers DEF Utterance
<1>2. NotRecording \in EarType /\ NewHandler \in ServerType
  BY <1>1 DEF NotRecording, NewHandler, EarType, ServerType
<1>3. /\ NotRecording.stream = 0 /\ ~NotRecording.recording /\ ~NotRecording.awaiting
      /\ NewHandler.s = 0 /\ ~NewHandler.active
  BY DEF NotRecording, NewHandler
<1>4. Len(<<>>) = 0 /\ 0 <= brain.id
  BY Numbers
<1>5. \A g : Legal(<<>>, NewHandler, g)
  BY <1>4 DEF Legal
<1>6. HasNone(<<>>, NewHandler, 0)
  BY <1>3 DEF HasNone
<1>7. Bounded(<<>>, NewHandler)
  <2>1. Before(NewHandler, 0) + (0 - 0) <= Limit
    BY <1>3, Numbers DEF Before
  <2>2. \A j \in 0..0 : j = 0
    OBVIOUS
  <2>3. QED
    BY <1>4, <2>1, <2>2 DEF Bounded, Within
<1>8. QED
  BY <1>2, <1>3, <1>4, <1>5, <1>6, <1>7

\* What holds when a connection is new.
Connected == /\ brain \in BrainType /\ ~brain.listening /\ step = "events"
             /\ ear = NotRecording /\ quiet = FALSE /\ server = NewHandler
             /\ up = <<>> /\ down = <<>> /\ gap = FALSE /\ refused = "nothing"

LEMMA NewConnectionIsRight == Connected => IInv
<1> SUFFICES ASSUME Connected PROVE IInv
  OBVIOUS
<1> USE DEF Connected
<1>1. brain.id \in 0..MaxSessions
  BY DEF BrainType
<1>2. /\ ear \in EarType /\ server \in ServerType /\ ear.stream = 0 /\ ~ear.recording
      /\ server.s = 0 /\ ~server.active /\ Len(up) = 0 /\ Len(down) = 0 /\ 0 <= brain.id
      /\ Legal(up, server, gap) /\ Bounded(up, server) /\ HasNone(up, server, 0)
  BY <1>1, NewConnection
<1>3. Types
  <2>1. up \in Seq(UpMessage) /\ down \in Seq(DownMessage)
    OBVIOUS
  <2>2. step \in {"events", "tick", "frame", "lost"} /\ quiet \in BOOLEAN /\ gap \in BOOLEAN
    OBVIOUS
  <2>3. refused \in {"nothing", "audio", "asr_finish"}
    OBVIOUS
  <2>4. QED
    BY <1>2, <2>1, <2>2, <2>3, TypesAre
<1>4. SessionHasItsStream /\ EarIsRight
  BY <1>2 DEF SessionHasItsStream, EarIsRight
<1>5. SessionsExist
  BY <1>2 DEF SessionsExist
<1>6. StreamIsRight /\ FinalsAreRight
  BY <1>2 DEF StreamIsRight, FinalsAreRight
<1>7. AudioIsOwn /\ RefusesOnlyAfterGap
  BY <1>2 DEF AudioIsOwn, OwnAudioOnly, In, RefusesOnlyAfterGap
<1>8. QED
  BY <1>3, <1>4, <1>5, <1>6, <1>7 DEF IInv

LEMMA ReconnectKeepsIInv == ASSUME IInv, Reconnect PROVE IInv'
<1>1. /\ brain' \in BrainType /\ ~brain'.listening /\ step' = "events"
      /\ ear' = NotRecording /\ quiet' = FALSE /\ server' = NewHandler
      /\ up' = <<>> /\ down' = <<>> /\ gap' = FALSE /\ refused' = "nothing"
  BY IInvTypes DEF Reconnect, IInv, SessionHasItsStream
<1>2. Connected'
  BY <1>1 DEF Connected, BrainType
<1>3. QED
  BY <1>2, NewConnectionIsRight, PTL


-----------------------------------------------------------------------------
(* The steps of the handler.                                               *)

\* What is left to show of a step of the handler: it answers with at most one
\* message, of the session it has.
LEMMA ServingKeepsIInv ==
  ASSUME IInv, UNCHANGED client, server' \in ServerType,
         up' = up \/ (up # <<>> /\ up' = Tail(up)),
         \/ down' = down
         \/ \E m \in DownMessage : /\ down' = Append(down, m) /\ m.s = server.s
                                   /\ m.type = "transcript" => m.of \subseteq {<<m.s, m.u>>},
         server'.s <= brain.id, gap' \in BOOLEAN,
         refused' \in {"nothing", "audio", "asr_finish"},
         server'.active => server'.of \subseteq {<<server'.s, server'.u>>},
         step = "lost" => ~server'.open,
         StreamIsRight', FinalsAreRight', RefusesOnlyAfterGap'
  PROVE  IInv'
<1>1. up' \in Seq(UpMessage) /\ \A i \in 1..Len(up') : \E j \in 1..Len(up) : up'[i] = up[j]
  <2>1. CASE up' = up
    BY <2>1, IInvTypes
  <2>2. CASE up # <<>> /\ up' = Tail(up)
    <3>1. /\ up' \in Seq(UpMessage)
          /\ \A i \in 1..Len(up') : i + 1 \in 1..Len(up) /\ up'[i] = up[i + 1]
      BY <2>2, IInvTypes, TailElements
    <3>2. QED
      BY <3>1
  <2>3. QED
    BY <2>1, <2>2
<1>2. /\ down' \in Seq(DownMessage)
      /\ \A i \in 1..Len(down') :
           \/ i \in 1..Len(down) /\ down'[i] = down[i]
           \/ /\ down'[i].s = server.s
              /\ down'[i].type = "transcript"
                   => down'[i].of \subseteq {<<down'[i].s, down'[i].u>>}
  <2>1. CASE down' = down
    BY <2>1, IInvTypes
  <2>2. CASE \E m \in DownMessage : /\ down' = Append(down, m) /\ m.s = server.s
                                    /\ m.type = "transcript" => m.of \subseteq {<<m.s, m.u>>}
    <3> PICK m \in DownMessage : /\ down' = Append(down, m) /\ m.s = server.s
                                 /\ m.type = "transcript" => m.of \subseteq {<<m.s, m.u>>}
      BY <2>2
    <3>1. /\ down' \in Seq(DownMessage) /\ Len(down') = Len(down) + 1 /\ Len(down) \in Nat
          /\ \A i \in 1..Len(down) : down'[i] = down[i]
          /\ down'[Len(down) + 1] = m
      BY IInvTypes, AppendElements
    <3>2. \A i \in 1..Len(down') : i \in 1..Len(down) \/ i = Len(down) + 1
      BY <3>1
    <3>3. QED
      BY <3>1, <3>2
  <2>3. QED
    BY <2>1, <2>2
<1>3. Types'
  <2>1. /\ step' \in {"events", "tick", "frame", "lost"}
        /\ brain' \in BrainType /\ ear' \in EarType /\ server' \in ServerType
        /\ quiet' \in BOOLEAN /\ gap' \in BOOLEAN
        /\ refused' \in {"nothing", "audio", "asr_finish"}
        /\ up' \in Seq(UpMessage) /\ down' \in Seq(DownMessage)
    BY <1>1, <1>2, IInvTypes DEF client
  <2>2. QED
    BY <2>1 DEF Types, TypeOK, BrainType, EarType, ServerType
<1>4. SessionHasItsStream' /\ EarIsRight'
  BY DEF IInv, SessionHasItsStream, EarIsRight, client
<1>5. SessionsExist'
  BY <1>1, <1>2 DEF IInv, SessionsExist, client
<1>6. AudioIsOwn'
  <2>1. \A i \in 1..Len(down) : down[i].type = "transcript"
          => down[i].of \subseteq {<<down[i].s, down[i].u>>}
    BY DEF IInv, AudioIsOwn, OwnAudioOnly, In
  <2>2. \A i \in 1..Len(down') : down'[i].type = "transcript"
          => down'[i].of \subseteq {<<down'[i].s, down'[i].u>>}
    BY <1>2, <2>1
  <2>3. QED
    BY <2>2 DEF AudioIsOwn, OwnAudioOnly, In
<1>7. QED
  BY <1>3, <1>4, <1>5, <1>6 DEF IInv


\* What the handler has taken the first message of its connection means.
LEMMA TakenMessage ==
  ASSUME IInv, server.open, up # <<>>, up' = Tail(up)
  PROVE  /\ Head(up) = up[1] /\ up[1] \in UpMessage /\ 1 \in 1..Len(up) /\ up[1].s <= brain.id
         /\ Legal(up, server, gap) /\ Bounded(up, server)
         /\ up[1].type \in {"audio", "asr_finish"} =>
              IF server.active THEN server.s = up[1].s /\ server.u = up[1].u ELSE gap
         /\ \A i \in 1..Len(up') : i + 1 \in 1..Len(up) /\ up'[i] = up[i + 1]
<1>1. /\ Head(up) = up[1] /\ up[1] \in UpMessage /\ 1 \in 1..Len(up)
      /\ \A i \in 1..Len(up') : i + 1 \in 1..Len(up) /\ up'[i] = up[i + 1]
  BY IInvTypes, TailElements
<1>2. up[1].s <= brain.id
  BY <1>1 DEF IInv, SessionsExist
<1>3. Legal(up, server, gap) /\ Bounded(up, server)
  BY DEF IInv, StreamIsRight
<1>4. up[1].type \in {"audio", "asr_finish"} => Has(up, server, gap, 0, up[1].s, up[1].u)
  <2>1. 1 - 1 = 0
    OBVIOUS
  <2>2. up[1].type \in {"audio", "asr_finish"} => Has(up, server, gap, 1 - 1, up[1].s, up[1].u)
    BY <1>1, <1>3 DEF Legal
  <2>3. QED
    BY <2>1, <2>2
<1>5. QED
  BY <1>1, <1>2, <1>3, <1>4 DEF Has

\* The stream stays right when the handler takes a message and stays open.
LEMMA TakingKeepsStream ==
  ASSUME IInv, UNCHANGED client, gap' = gap, server.open, up # <<>>, up' = Tail(up),
         server' \in ServerType,
         \A s, u : Has(up, server, gap, 1, s, u) => Has(up', server', gap, 0, s, u),
         HasNone(up, server, 1) => HasNone(up', server', 0),
         Before(server', 0) <= IF up[1].type = "audio" THEN Before(server, 0) + 1 ELSE 0
  PROVE  StreamIsRight'
<1>1. Legal(up, server, gap) /\ Bounded(up, server)
  BY DEF IInv, StreamIsRight
<1>2. /\ Legal(up', server', gap) /\ Bounded(up', server')
      /\ \A s, u : Has(up, server, gap, Len(up), s, u) => Has(up', server', gap, Len(up'), s, u)
      /\ HasNone(up, server, Len(up)) => HasNone(up', server', Len(up'))
      /\ \A n \in Nat : Within(up, server, Len(up), n) => Within(up', server', Len(up'), n)
  BY <1>1, IInvTypes, HandlerTakes
<1>3. PreRoll + ear.total \in Nat
  BY IInvTypes, Numbers DEF EarType
<1>4. CASE ear.recording
  <2>1. /\ Has(up, server, gap, Len(up), ear.stream, ear.utterance)
        /\ Within(up, server, Len(up), PreRoll + ear.total)
    BY <1>4 DEF IInv, StreamIsRight
  <2>2. /\ Has(up', server', gap, Len(up'), ear.stream, ear.utterance)
        /\ Within(up', server', Len(up'), PreRoll + ear.total)
    BY <1>2, <1>3, <2>1
  <2>3. QED
    BY <1>2, <1>4, <2>2 DEF StreamIsRight, client
<1>5. CASE ~ear.recording
  <2>1. HasNone(up, server, Len(up))
    BY <1>5 DEF IInv, StreamIsRight
  <2>2. QED
    BY <1>2, <1>5, <2>1 DEF StreamIsRight, client
<1>6. QED
  BY <1>4, <1>5

\* Finals when the handler takes a message that is no finish, and answers with
\* no final.
LEMMA TakingKeepsFinals ==
  ASSUME IInv, UNCHANGED client, up' = up \/ (up # <<>> /\ up' = Tail(up)),
         \/ down' = down
         \/ \E m \in DownMessage : /\ down' = Append(down, m)
                                   /\ m.type # "transcript" \/ ~m.final
  PROVE  FinalsAreRight'
<1>1. /\ up \in Seq(UpMessage) /\ down \in Seq(DownMessage) /\ FinalsAreRight
      /\ brain'.id = brain.id /\ brain'.listening = brain.listening
      /\ ear'.awaiting = ear.awaiting /\ ear'.utterance = ear.utterance /\ 0 \in Nat
  BY IInvTypes DEF IInv, client
<1>2. PICK a \in Nat : \A i \in 1..Len(up') : i + a \in 1..Len(up) /\ up'[i] = up[i + a]
  <2>1. CASE up' = up
    <3>1. \A i \in 1..Len(up') : i + 0 \in 1..Len(up) /\ up'[i] = up[i + 0]
      BY <1>1, <2>1
    <3>2. QED
      BY <3>1
  <2>2. CASE up # <<>> /\ up' = Tail(up)
    <3>1. \A i \in 1..Len(up') : i + 1 \in 1..Len(up) /\ up'[i] = up[i + 1]
      BY <1>1, <2>2, TailElements
    <3>2. QED
      BY <3>1
  <2>3. QED
    BY <2>1, <2>2
<1>3. up' \in Seq(UpMessage)
  BY <1>1, TailElements
<1>4. /\ down' \in Seq(DownMessage)
      /\ \A i \in 1..Len(down') : \/ i + 0 \in 1..Len(down) /\ down'[i] = down[i + 0]
                                  \/ down'[i].type # "transcript" \/ ~down'[i].final
  <2>1. CASE down' = down
    BY <1>1, <2>1
  <2>2. CASE \E m \in DownMessage : /\ down' = Append(down, m)
                                    /\ m.type # "transcript" \/ ~m.final
    <3> PICK m \in DownMessage : /\ down' = Append(down, m)
                                 /\ m.type # "transcript" \/ ~m.final
      BY <2>2
    <3>1. /\ down' \in Seq(DownMessage) /\ Len(down') = Len(down) + 1 /\ Len(down) \in Nat
          /\ \A i \in 1..Len(down) : down'[i] = down[i]
          /\ down'[Len(down) + 1] = m
      BY <1>1, AppendElements
    <3>2. \A i \in 1..Len(down') : (i + 0 \in 1..Len(down) /\ i + 0 = i) \/ i = Len(down) + 1
      BY <3>1
    <3>3. QED
      BY <3>1, <3>2
  <2>3. QED
    BY <2>1, <2>2
<1>5. QED
  BY <1>1, <1>2, <1>3, <1>4, FinalsKept


LEMMA AnswerTypes ==
  ASSUME IInv
  PROVE  /\ Error(server.s, server.u) \in DownMessage /\ Error(server.s, server.u).s = server.s
         /\ Error(server.s, server.u).type = "error"
         /\ \A f \in BOOLEAN, of \in SUBSET (SessionId \X Utterance) :
              LET m == Transcript(server.s, server.u, f, of)
              IN /\ m \in DownMessage /\ m.type = "transcript" /\ m.s = server.s
                 /\ m.u = server.u /\ m.final = f /\ m.of = of
         /\ server.s <= brain.id
<1>1. server.s \in 0..MaxSessions /\ server.u \in Utterance /\ server.s <= brain.id
  BY IInvTypes DEF ServerType, IInv, SessionsExist
<1>2. QED
  BY <1>1 DEF Error, Transcript, DownMessage

LEMMA OpenConnection == ASSUME IInv, server.open PROVE step # "lost"
  BY DEF IInv, EarIsRight

LEMMA TakeStartKeepsIInv == ASSUME IInv, TakeStart PROVE IInv'
<1>1. /\ UNCHANGED <<client, down, gap, refused>> /\ server.open /\ up # <<>> /\ up' = Tail(up)
      /\ Head(up).type = "asr_start"
      /\ server' = [open |-> TRUE, active |-> TRUE, s |-> Head(up).s, u |-> Head(up).u,
                    samples |-> 0, of |-> {}]
  BY DEF TakeStart, Takes
<1>2. /\ Head(up) = up[1] /\ up[1] \in UpMessage /\ up[1].s <= brain.id
  BY <1>1, TakenMessage
<1>3. /\ server' \in ServerType /\ server'.active /\ server'.s = up[1].s
      /\ server'.u = up[1].u /\ server'.samples = 0 /\ server'.of = {}
  <2>1. 0 \in 0..(MaxUtterance + Margin) /\ up[1].s \in 0..MaxSessions /\ up[1].u \in Utterance
    BY <1>2, Numbers DEF UpMessage, SessionId
  <2>2. QED
    BY <1>1, <1>2, <2>1 DEF ServerType
<1>4. StreamIsRight'
  <2>1. \A s, u : Has(up, server, gap, 1, s, u) => Has(up', server', gap, 0, s, u)
    BY <1>3 DEF Has
  <2>2. ~HasNone(up, server, 1)
    BY <1>1, <1>2 DEF HasNone
  <2>3. Before(server', 0) = 0 /\ Before(server, 0) \in Nat
    BY <1>3, IInvTypes, BeforeIsCount DEF Before
  <2>4. Before(server', 0) <= IF up[1].type = "audio" THEN Before(server, 0) + 1 ELSE 0
    BY <2>3
  <2>5. QED
    BY <1>1, <1>3, <2>1, <2>2, <2>4, TakingKeepsStream
<1>5. FinalsAreRight' /\ RefusesOnlyAfterGap'
  BY <1>1, TakingKeepsFinals DEF IInv, RefusesOnlyAfterGap
<1>6. QED
  BY <1>1, <1>2, <1>3, <1>4, <1>5, IInvTypes, OpenConnection, ServingKeepsIInv

LEMMA TakeCancelKeepsIInv == ASSUME IInv, TakeCancel PROVE IInv'
<1>1. /\ UNCHANGED <<client, down, gap, refused>> /\ server.open /\ up # <<>> /\ up' = Tail(up)
      /\ Head(up).type = "cancel" /\ server' = [server EXCEPT !.active = FALSE]
  BY DEF TakeCancel, Takes
<1>2. Head(up) = up[1] /\ server.s <= brain.id
  BY <1>1, TakenMessage, AnswerTypes
<1>3. server' \in ServerType /\ ~server'.active /\ server'.s = server.s
  BY <1>1, IInvTypes DEF ServerType
<1>4. StreamIsRight'
  <2>1. \A s, u : ~Has(up, server, gap, 1, s, u)
    BY <1>1, <1>2 DEF Has
  <2>2. HasNone(up', server', 0)
    BY <1>3 DEF HasNone
  <2>3. Before(server', 0) = 0 /\ Before(server, 0) \in Nat
    BY <1>3, IInvTypes, BeforeIsCount DEF Before
  <2>4. Before(server', 0) <= IF up[1].type = "audio" THEN Before(server, 0) + 1 ELSE 0
    BY <2>3
  <2>5. QED
    BY <1>1, <1>3, <2>1, <2>2, <2>4, TakingKeepsStream
<1>5. FinalsAreRight' /\ RefusesOnlyAfterGap'
  BY <1>1, TakingKeepsFinals DEF IInv, RefusesOnlyAfterGap
<1>6. QED
  BY <1>1, <1>2, <1>3, <1>4, <1>5, IInvTypes, OpenConnection, ServingKeepsIInv

\* Audio is of the handler's stream, and within its limit.
LEMMA TakeAudioKeepsIInv == ASSUME IInv, TakeAudio PROVE IInv'
<1> DEFINE heard == server.of \cup {<<up[1].s, up[1].u>>}
           m == Transcript(server.s, server.u, FALSE, heard)
<1>1. /\ UNCHANGED <<client, gap>> /\ server.open /\ up # <<>> /\ up' = Tail(up)
      /\ Head(up).type = "audio"
  BY DEF TakeAudio, Takes
<1>2. /\ Head(up) = up[1] /\ up[1] \in UpMessage /\ 1 \in 1..Len(up) /\ up[1].type = "audio"
      /\ Bounded(up, server)
      /\ IF server.active THEN server.s = up[1].s /\ server.u = up[1].u ELSE gap
      /\ server.s <= brain.id
  BY <1>1, TakenMessage, AnswerTypes
<1>3. CASE ~server.active
  <2>1. UNCHANGED <<server, down, refused>>
    BY <1>1, <1>3 DEF TakeAudio
  <2>2. StreamIsRight'
    <3>1. \A s, u : Has(up', server', gap, 0, s, u)
      BY <1>2, <1>3, <2>1 DEF Has
    <3>2. ~HasNone(up, server, 1)
      BY <1>2 DEF HasNone
    <3>3. Before(server', 0) = 0 /\ Before(server, 0) \in Nat
      BY <1>3, <2>1, IInvTypes, BeforeIsCount DEF Before
    <3>4. Before(server', 0) <= IF up[1].type = "audio" THEN Before(server, 0) + 1 ELSE 0
      BY <3>3
    <3>5. server' \in ServerType
      BY <2>1, IInvTypes
    <3>6. QED
      BY <1>1, <3>1, <3>2, <3>4, <3>5, TakingKeepsStream
  <2>3. FinalsAreRight' /\ RefusesOnlyAfterGap'
    BY <1>1, <2>1, TakingKeepsFinals DEF IInv, RefusesOnlyAfterGap
  <2>4. QED
    BY <1>1, <1>2, <1>3, <2>1, <2>2, <2>3, IInvTypes, OpenConnection, ServingKeepsIInv
<1>4. CASE server.active
  <2>1. server.samples + 1 <= MaxUtterance + Margin /\ server.samples \in Nat
    <3>1. Run(up, 0, 1)
      <4>1. \A k \in (0 + 1)..1 : k = 1
        OBVIOUS
      <4>2. QED
        BY <1>2, <4>1 DEF Run
    <3>2. 1 \in 0..Len(up) /\ 0 \in 0..1
      BY <1>2
    <3>3. Before(server, 0) + (1 - 0) <= Limit
      BY <1>2, <3>1, <3>2 DEF Bounded, Within
    <3>4. Before(server, 0) = server.samples
      BY <1>4 DEF Before
    <3>5. server.samples \in Nat
      BY IInvTypes, Numbers DEF ServerType
    <3>6. QED
      BY <3>3, <3>4, <3>5, Numbers
  <2>2. /\ server' = [server EXCEPT !.samples = @ + 1, !.of = heard]
        /\ down' = Append(down, m) /\ UNCHANGED refused
    <3>1. ~(server.samples + 1 > MaxUtterance + Margin)
      BY <2>1, Numbers
    <3>2. QED
      BY <1>2, <1>4, <3>1 DEF TakeAudio
  <2>3. heard \in SUBSET (SessionId \X Utterance)
    BY <1>2, IInvTypes DEF ServerType, UpMessage
  <2>4. /\ server' \in ServerType /\ server'.active /\ server'.s = server.s
        /\ server'.u = server.u /\ server'.samples = server.samples + 1
        /\ server'.of = heard /\ server'.open
    <3>1. server.samples + 1 \in 0..(MaxUtterance + Margin)
      BY <2>1, Numbers
    <3> HIDE DEF heard
    <3>2. QED
      BY <1>1, <1>4, <2>2, <2>3, <3>1, IInvTypes DEF ServerType
  <2>5. /\ m \in DownMessage /\ m.type = "transcript" /\ m.s = server.s /\ m.u = server.u
        /\ ~m.final /\ m.of = heard
    BY <2>3, AnswerTypes
  <2>6. heard \subseteq {<<server.s, server.u>>}
    BY <1>2, <1>4 DEF IInv, AudioIsOwn
  <2> HIDE DEF m, heard
  <2>7. StreamIsRight'
    <3>1. \A s, u : Has(up, server, gap, 1, s, u) => Has(up', server', gap, 0, s, u)
      BY <1>2, <1>4, <2>4 DEF Has
    <3>2. ~HasNone(up, server, 1)
      BY <1>2 DEF HasNone
    <3>3. /\ Before(server', 0) = server.samples + 1
          /\ Before(server, 0) = server.samples
      BY <1>4, <2>4 DEF Before
    <3>4. Before(server', 0) <= IF up[1].type = "audio" THEN Before(server, 0) + 1 ELSE 0
      BY <1>2, <2>1, <3>3
    <3>5. QED
      BY <1>1, <2>4, <3>1, <3>2, <3>4, TakingKeepsStream
  <2>8. FinalsAreRight' /\ RefusesOnlyAfterGap'
    BY <1>1, <2>2, <2>5, TakingKeepsFinals DEF IInv, RefusesOnlyAfterGap
  <2>9. QED
    BY <1>1, <1>2, <2>2, <2>4, <2>5, <2>6, <2>7, <2>8, IInvTypes, OpenConnection,
       ServingKeepsIInv
<1>5. QED
  BY <1>3, <1>4


\* asr_finish ends the handler's stream, and its final transcript takes the place
\* of the message on the way; without a stream it is refused, after a gap.
LEMMA TakeFinishKeepsIInv == ASSUME IInv, TakeFinish PROVE IInv'
<1> DEFINE m == Transcript(server.s, server.u, TRUE, server.of)
           e == Error(server.s, server.u)
<1>1. /\ UNCHANGED <<client, gap>> /\ server.open /\ up # <<>> /\ up' = Tail(up)
      /\ Head(up).type = "asr_finish"
  BY DEF TakeFinish, Takes
<1>2. /\ Head(up) = up[1] /\ up[1] \in UpMessage /\ 1 \in 1..Len(up)
      /\ up[1].type = "asr_finish"
      /\ IF server.active THEN server.s = up[1].s /\ server.u = up[1].u ELSE gap
      /\ \A i \in 1..Len(up') : i + 1 \in 1..Len(up) /\ up'[i] = up[i + 1]
  BY <1>1, TakenMessage
<1>3. CASE ~server.active
  <2>1. /\ server' = [server EXCEPT !.open = FALSE] /\ down' = Append(down, e)
        /\ refused' = "asr_finish"
    BY <1>1, <1>3 DEF TakeFinish, Refuses
  <2>2. /\ server' \in ServerType /\ ~server'.open /\ ~server'.active
        /\ server'.s = server.s /\ server.s <= brain.id
    BY <1>3, <2>1, IInvTypes, AnswerTypes DEF ServerType
  <2>3. e \in DownMessage /\ e.s = server.s /\ e.type = "error"
    BY AnswerTypes
  <2> HIDE DEF e
  <2>4. StreamIsRight'
    BY <2>2 DEF StreamIsRight
  <2>5. FinalsAreRight'
    BY <1>1, <2>1, <2>3, TakingKeepsFinals
  <2>6. RefusesOnlyAfterGap'
    BY <1>1, <1>2, <1>3, <2>1 DEF RefusesOnlyAfterGap
  <2>7. QED
    BY <1>1, <2>1, <2>2, <2>3, <2>4, <2>5, <2>6, IInvTypes, ServingKeepsIInv
<1>4. CASE server.active
  <2>1. /\ server' = [server EXCEPT !.active = FALSE] /\ down' = Append(down, m)
        /\ UNCHANGED refused
    BY <1>1, <1>4 DEF TakeFinish
  <2>2. /\ server' \in ServerType /\ server'.open /\ ~server'.active
        /\ server'.s = server.s /\ server.s <= brain.id
        /\ server.of \in SUBSET (SessionId \X Utterance)
        /\ server.of \subseteq {<<server.s, server.u>>}
    BY <1>1, <1>4, <2>1, IInvTypes, AnswerTypes DEF ServerType, IInv, AudioIsOwn
  <2>3. /\ m \in DownMessage /\ m.type = "transcript" /\ m.s = server.s /\ m.u = server.u
        /\ m.of = server.of
    BY <2>2, AnswerTypes
  <2> HIDE DEF m
  <2>4. StreamIsRight'
    <3>1. \A s, u : ~Has(up, server, gap, 1, s, u)
      BY <1>2 DEF Has
    <3>2. HasNone(up', server', 0)
      BY <2>2 DEF HasNone
    <3>3. Before(server', 0) = 0 /\ Before(server, 0) \in Nat
      BY <2>2, IInvTypes, BeforeIsCount DEF Before
    <3>4. Before(server', 0) <= IF up[1].type = "audio" THEN Before(server, 0) + 1 ELSE 0
      BY <3>3
    <3>5. QED
      BY <1>1, <2>2, <3>1, <3>2, <3>4, TakingKeepsStream
  <2>5. FinalsAreRight'
    <3>1. SUFFICES ASSUME brain.listening PROVE FinalsAreRight'
      BY <1>1 DEF FinalsAreRight, client
    <3>2. /\ Len(down') = Len(down) + 1 /\ Len(down) \in Nat
          /\ \A i \in 1..Len(down) : down'[i] = down[i]
          /\ down'[Len(down) + 1] = m
      BY <2>1, <2>3, IInvTypes, AppendElements
    <3>3. \A i \in 1..Len(down') : i \in 1..Len(down) \/ i = Len(down) + 1
      BY <3>2
    <3>4. FinalsAreRight /\ Len(up) \in Nat /\ UNCHANGED <<brain, ear>>
      BY <1>1, IInvTypes DEF IInv, client
    <3>5. \A i, j \in 1..Len(up') : i + 1 = j + 1 => i = j
      OBVIOUS
    <3>6. \A i \in 1..Len(up') : i + 1 # 1
      OBVIOUS
    <3>7. CASE up[1].s = brain.id
      <4>1. Finish(up[1])
        BY <1>2, <3>7 DEF Finish
      <4>2. /\ ear.awaiting /\ m.u = ear.utterance
            /\ \A i \in 1..Len(down) : ~Final(down[i])
            /\ \A i \in 1..Len(up) : i # 1 => ~Finish(up[i])
        BY <1>2, <1>4, <2>3, <3>1, <3>4, <4>1 DEF FinalsAreRight
      <4>3. \A i \in 1..Len(up') : ~Finish(up'[i])
        BY <1>2, <3>6, <4>2
      <4>4. \A i \in 1..Len(down') : Final(down'[i]) => i = Len(down) + 1
        BY <3>2, <3>3, <4>2
      <4>5. \A i \in 1..Len(down') : Final(down'[i]) => down'[i] = m
        BY <3>2, <4>4
      <4>6. \A i \in 1..Len(down') : Final(down'[i]) => ear.awaiting /\ down'[i].u = ear.utterance
        BY <4>2, <4>5
      <4>7. \A i, j \in 1..Len(down') : Final(down'[i]) /\ Final(down'[j]) => i = j
        BY <4>4
      <4>8. QED
        BY <3>4, <4>3, <4>6, <4>7 DEF FinalsAreRight, Finish, Final
    <3>8. CASE up[1].s # brain.id
      <4>1. ~Final(m)
        BY <1>2, <1>4, <2>3, <3>8 DEF Final
      <4>2. \A i \in 1..Len(down') : Final(down'[i]) => i \in 1..Len(down) /\ down'[i] = down[i]
        BY <3>2, <3>3, <4>1
      <4>3. \A i \in 1..Len(up') : Finish(up'[i]) => ear.awaiting /\ up'[i].u = ear.utterance
        BY <1>2, <3>1, <3>4 DEF FinalsAreRight
      <4>4. \A i, j \in 1..Len(up') : Finish(up'[i]) /\ Finish(up'[j]) => i = j
        <5>1. \A i, j \in 1..Len(up') : Finish(up'[i]) /\ Finish(up'[j]) => i + 1 = j + 1
          BY <1>2, <3>1, <3>4 DEF FinalsAreRight
        <5>2. QED
          BY <3>5, <5>1
      <4>5. \A i \in 1..Len(up'), j \in 1..Len(down') : ~(Finish(up'[i]) /\ Final(down'[j]))
        BY <1>2, <3>1, <3>4, <4>2 DEF FinalsAreRight
      <4>6. /\ \A i \in 1..Len(down') : Final(down'[i]) => ear.awaiting
                                                           /\ down'[i].u = ear.utterance
            /\ \A i, j \in 1..Len(down') : Final(down'[i]) /\ Final(down'[j]) => i = j
        BY <3>1, <3>4, <4>2 DEF FinalsAreRight
      <4>7. QED
        BY <3>4, <4>3, <4>4, <4>5, <4>6 DEF FinalsAreRight, Finish, Final
    <3>9. QED
      BY <3>7, <3>8
  <2>6. RefusesOnlyAfterGap'
    BY <1>1, <2>1 DEF IInv, RefusesOnlyAfterGap
  <2>7. QED
    BY <1>1, <2>1, <2>2, <2>3, <2>4, <2>5, <2>6, IInvTypes, OpenConnection, ServingKeepsIInv
<1>5. QED
  BY <1>3, <1>4

LEMMA GiveUpStreamKeepsIInv == ASSUME IInv, GiveUpStream PROVE IInv'
<1> DEFINE e == Error(server.s, server.u)
<1>1. /\ UNCHANGED <<client, up, refused>> /\ server.open /\ gap' = TRUE
      /\ server' = [server EXCEPT !.active = FALSE] /\ down' = Append(down, e)
  BY DEF GiveUpStream
<1>2. /\ server' \in ServerType /\ ~server'.active /\ server'.s = server.s
      /\ server.s <= brain.id
  BY <1>1, IInvTypes, AnswerTypes DEF ServerType
<1>3. e \in DownMessage /\ e.s = server.s /\ e.type = "error"
  BY AnswerTypes
<1> HIDE DEF e
<1>4. StreamIsRight'
  <2>1. Legal(up, server, gap) /\ Bounded(up, server)
    BY <1>1 DEF IInv, StreamIsRight
  <2>2. /\ Legal(up, server', TRUE) /\ Bounded(up, server')
        /\ \A s, u : Has(up, server, gap, Len(up), s, u) => Has(up, server', TRUE, Len(up), s, u)
        /\ HasNone(up, server, Len(up)) => HasNone(up, server', Len(up))
        /\ \A n \in Nat : Within(up, server, Len(up), n) => Within(up, server', Len(up), n)
    BY <1>2, <2>1, IInvTypes, HandlerGivesUp
  <2>3. PreRoll + ear.total \in Nat
    BY IInvTypes, Numbers DEF EarType
  <2>4. CASE ear.recording
    <3>1. /\ Has(up, server, gap, Len(up), ear.stream, ear.utterance)
          /\ Within(up, server, Len(up), PreRoll + ear.total)
      BY <1>1, <2>4 DEF IInv, StreamIsRight
    <3>2. /\ Has(up, server', TRUE, Len(up), ear.stream, ear.utterance)
          /\ Within(up, server', Len(up), PreRoll + ear.total)
      BY <2>2, <2>3, <3>1
    <3>3. QED
      BY <1>1, <2>2, <2>4, <3>2 DEF StreamIsRight, client
  <2>5. CASE ~ear.recording
    BY <1>1, <2>2, <2>5 DEF IInv, StreamIsRight, client
  <2>6. QED
    BY <2>4, <2>5
<1>5. FinalsAreRight'
  BY <1>1, <1>3, TakingKeepsFinals
<1>6. RefusesOnlyAfterGap'
  BY <1>1 DEF IInv, RefusesOnlyAfterGap
<1>7. QED
  BY <1>1, <1>2, <1>3, <1>4, <1>5, <1>6, IInvTypes, OpenConnection, ServingKeepsIInv

LEMMA ServerFailsKeepsIInv == ASSUME IInv, ServerFails PROVE IInv'
<1> DEFINE e == Error(server.s, server.u)
<1>1. /\ UNCHANGED <<client, up, gap, refused>>
      /\ server' = [server EXCEPT !.open = FALSE]
      /\ down' = down \/ down' = Append(down, e)
  BY DEF ServerFails
<1>2. /\ server' \in ServerType /\ ~server'.open /\ server'.s = server.s
      /\ server'.active = server.active /\ server'.u = server.u /\ server'.of = server.of
      /\ server.s <= brain.id
  BY <1>1, IInvTypes, AnswerTypes DEF ServerType
<1>3. e \in DownMessage /\ e.s = server.s /\ e.type = "error"
  BY AnswerTypes
<1> HIDE DEF e
<1>4. StreamIsRight'
  BY <1>2 DEF StreamIsRight
<1>5. FinalsAreRight'
  BY <1>1, <1>3, TakingKeepsFinals
<1>6. /\ RefusesOnlyAfterGap'
      /\ server'.active => server'.of \subseteq {<<server'.s, server'.u>>}
  BY <1>1, <1>2 DEF IInv, RefusesOnlyAfterGap, AudioIsOwn
<1>7. QED
  BY <1>1, <1>2, <1>3, <1>4, <1>5, <1>6, IInvTypes, ServingKeepsIInv

-----------------------------------------------------------------------------
(* The invariant holds throughout.                                         *)

LEMMA InitIInv == Init => IInv
<1>1. Init => Connected
  <2>1. 0 \in 0..MaxSessions
    BY Numbers
  <2>2. QED
    BY <2>1 DEF Init, Connected, BrainType
<1>2. QED
  BY <1>1, NewConnectionIsRight

LEMMA NextKeepsIInv == IInv /\ [Next]_vars => IInv'
<1> SUFFICES ASSUME IInv, [Next]_vars PROVE IInv'
  OBVIOUS
<1>1. CASE HandleTranscript \/ HandleError \/ NoMoreEvents
  BY <1>1, HandleTranscriptKeepsIInv, HandleErrorKeepsIInv, NoMoreEventsKeepsIInv
<1>2. CASE Tick \/ NoProgress
  BY <1>2, TickKeepsIInv, NoProgressKeepsIInv
<1>3. CASE Frame
  BY <1>3, FrameWithoutMessageKeepsIInv, WakeKeepsIInv, ContinueKeepsIInv, RecordKeepsIInv,
     EndUtteranceKeepsIInv DEF Frame
<1>4. CASE LoseConnection \/ Reconnect
  BY <1>4, LoseConnectionKeepsIInv, ReconnectKeepsIInv
<1>5. CASE ProgressStalls \/ UNCHANGED vars
  BY <1>5, ProgressStallsKeepsIInv
<1>6. CASE Serve
  BY <1>6, TakeStartKeepsIInv, TakeAudioKeepsIInv, TakeFinishKeepsIInv, TakeCancelKeepsIInv
     DEF Serve
<1>7. CASE GiveUpStream \/ ServerFails
  BY <1>7, GiveUpStreamKeepsIInv, ServerFailsKeepsIInv
<1>8. QED
  BY <1>1, <1>2, <1>3, <1>4, <1>5, <1>6, <1>7 DEF Next, Loop

LEMMA Invariance == Spec => []IInv
  BY InitIInv, NextKeepsIInv, PTL DEF Spec

-----------------------------------------------------------------------------
(* The theorems.                                                           *)

\* Brain, listener and handler agree on the stream there is: a listening session
\* has the stream and a connection, and a handler that has caught up has what the
\* client records, and nothing when the client has stopped.
THEOREM BothEndsAgree == Spec => []EndsAgree
<1>1. IInv => EndsAgree
  <2> SUFFICES ASSUME IInv PROVE EndsAgree
    OBVIOUS
  <2>1. TypeOK /\ SessionHasItsStream
    BY DEF IInv, Types
  <2>2. ServerFollowsClient
    <3>1. SUFFICES ASSUME step # "lost", server.open, ~gap, up = <<>>
                   PROVE  /\ ear.recording /\ brain.listening
                               => server.active /\ server.s = ear.stream
                                  /\ server.u = ear.utterance
                          /\ ear.stream = 0 => ~server.active
      BY DEF ServerFollowsClient
    <3>2. Len(up) = 0
      BY <3>1
    <3>3. /\ ear.recording => Has(up, server, gap, 0, ear.stream, ear.utterance)
          /\ ~ear.recording => HasNone(up, server, 0)
          /\ ear.stream = 0 => ~ear.recording
      BY <3>1, <3>2 DEF IInv, StreamIsRight, EarIsRight
    <3>4. QED
      BY <3>1, <3>3 DEF Has, HasNone
  <2>3. QED
    BY <2>1, <2>2 DEF EndsAgree
<1>2. QED
  BY Invariance, <1>1, PTL

\* No transcript is made of the audio of another utterance, whatever was cancelled,
\* superseded, given up or delayed on its connection.
THEOREM TranscriptsAreOwn == Spec => []OwnAudioOnly
<1>1. IInv => OwnAudioOnly
  BY DEF IInv, AudioIsOwn
<1>2. QED
  BY Invariance, <1>1, PTL

\* A final transcript that the brain would take is the one the client waits for.
THEOREM FinalsAreAwaited == Spec => []FinalIsAwaited
<1>1. IInv => FinalIsAwaited
  <2> SUFFICES ASSUME IInv PROVE FinalIsAwaited
    OBVIOUS
  <2>1. \A i \in In(down, "transcript") : i \in 1..Len(down) /\ down[i].type = "transcript"
    BY DEF In
  <2>2. brain.listening =>
          /\ \A i \in 1..Len(down) : Final(down[i]) => ear.awaiting /\ down[i].u = ear.utterance
          /\ \A i, j \in 1..Len(down) : Final(down[i]) /\ Final(down[j]) => i = j
    BY DEF IInv, FinalsAreRight
  <2>3. QED
    BY <2>1, <2>2 DEF FinalIsAwaited, Final
<1>2. QED
  BY Invariance, <1>1, PTL

\* No legal utterance is refused: neither for its length, whatever the limits, nor
\* for a finish without a stream, unless the server itself gave the stream up.
THEOREM RefusalsFollowGaps == Spec => []RefusesOnlyAfterGap
<1>1. IInv => RefusesOnlyAfterGap
  BY DEF IInv
<1>2. QED
  BY Invariance, <1>1, PTL

=============================================================================
