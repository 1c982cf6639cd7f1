------------------------------ MODULE LocalMode ------------------------------
(***************************************************************************)
(* The assistant without a service: listen() in src/jarvis/audio.py with   *)
(* WakeWord (wake.py), Conversation and Planner (control.py), R2T2's       *)
(* stream (asr.py) and the transcript file (observability.py).  One thread *)
(* turns a loop, in which any score, transcript or loss of audio may come. *)
(*                                                                         *)
(* A step is 80 ms of sound, for which the detector gives one score.  A    *)
(* text is known by whether the wake phrase is in it and by the kinds of   *)
(* words after it, or of all words if it is not.                           *)
(***************************************************************************)
EXTENDS Integers, Sequences, SequencesExt

CONSTANTS Confirmations, \* strong scores that make a detection (2 by default)
          Rearm,         \* quiet steps before the next detection (4 in the code)
          Cooldown,      \* steps before the next detection (1.5 s)
          PreRoll,       \* steps of sound kept for a detection (3 s)
          Lead,          \* those of them that a continued session begins with (0.3 s)
          Pause,         \* steps without speech that end an utterance
          MaxUtterance,  \* steps of the longest utterance
          Continuation,  \* steps until a session expires
          MaxActions     \* actions of one command

VARIABLES det,           \* the detector
          pre,           \* the sounds kept
          rec,           \* the recording: what the recognizer was given, and its length
          session,       \* the Conversation; left and before: steps to its deadlines
          page,          \* line: whose is the last line of the transcript file;
                         \* held: candidate_segments keeps the text back
          sending,       \* actions of a command that are not sent
          past           \* history for the properties

vars == <<det, pre, rec, session, page, sending, past>>

Strong == {"jarvis", "alexa"}    \* at least 0.3, by keyword
Weak == {"murmur", "doubt"}      \* 0.1 to 0.3
Quiet == {"silence", "murmur"}   \* below 0.15
Score == Strong \cup Weak \cup Quiet

Sound == {"nothing", "wake", "word"}
Word == {"word", "done"}         \* "done": a command with it was already sent

NoRecording == [active |-> FALSE, wake |-> FALSE, words |-> {}, after |-> {}, silence |-> 0, total |-> 0]

Armed == [armed |-> TRUE, hits |-> 0, keyword |-> "none", quiet |-> 0, cooldown |-> 0]

Init == /\ det = Armed /\ pre = <<>> /\ rec = NoRecording /\ sending = 0
        /\ session = [open |-> FALSE, pending |-> {}, verified |-> TRUE, left |-> -1, before |-> -1]
        /\ page = [line |-> "none", held |-> FALSE]
        /\ past = [trusted |-> FALSE, broken |-> FALSE, acted |-> {}, settled |-> TRUE, calm |-> 0]

-----------------------------------------------------------------------------
(* WakeWord.feed().                                                        *)

Less(n, least) == IF n > least THEN n - 1 ELSE least

Hits(score) == IF score \notin Strong THEN 0 ELSE IF score = det.keyword THEN det.hits + 1 ELSE 1

Verdict(score) == IF det.armed /\ Hits(score) >= Confirmations THEN "detected"
                  ELSE IF det.armed /\ score \in Weak THEN "candidate"
                  ELSE "nothing"

\* Bug: a loud step does not interrupt the quiet.
QuietStepsInAll(score) == IF score \in Quiet /\ det.quiet < Rearm THEN det.quiet + 1 ELSE det.quiet

QuietSteps(score) == IF score \notin Quiet THEN 0 ELSE IF det.quiet < Rearm THEN det.quiet + 1 ELSE Rearm

Feed(score) ==
  /\ det' = IF ~det.armed
            THEN LET quiet == QuietSteps(score)
                     cooldown == Less(det.cooldown, 0)
                 IN IF quiet = Rearm /\ cooldown = 0 THEN Armed
                    ELSE [det EXCEPT !.quiet = quiet, !.cooldown = cooldown]
            ELSE IF Verdict(score) = "nothing"
            THEN [Armed EXCEPT !.hits = Hits(score), !.keyword = IF Hits(score) > 0 THEN score ELSE "none"]
            ELSE [Armed EXCEPT !.armed = FALSE, !.cooldown = Cooldown]

\* History: calm counts the quiet steps since the last detection.
Calmer(score) ==
  LET calm == IF score \in Quiet THEN past.calm + 1 ELSE 0
  IN IF past.settled \/ calm = Rearm THEN [past EXCEPT !.settled = TRUE, !.calm = 0]
     ELSE [past EXCEPT !.calm = calm]

-----------------------------------------------------------------------------
(* The recognizer and the conversation.                                    *)

Hear(r, sound) == LET words == {sound} \cap Word
                  IN [r EXCEPT !.wake = @ \/ sound = "wake", !.words = @ \cup words,
                               !.after = IF r.wake THEN @ \cup words ELSE @]

\* What the recognizer may make of the sounds: the wake phrase missed or
\* imagined, the words understood or not.
Transcripts(r) == {[wake |-> FALSE, words |-> w] : w \in {{}, r.words}} \cup
                  {[wake |-> TRUE, words |-> w] : w \in {{}, IF r.wake THEN r.after ELSE r.words}}

Blank(text) == ~text.wake /\ text.words = {}

Later(s) == [s EXCEPT !.left = Less(@, -1), !.before = Less(@, -1)]
Expired(s) == s.open /\ s.left < 0
Closed(s) == [s EXCEPT !.open = FALSE, !.pending = {}]
Dropped(p) == [p EXCEPT !.held = FALSE]

\* Bug: a candidate in a verified session needs no confirmation.
ActivatedAnew(strong) == [open |-> TRUE, pending |-> {}, verified |-> strong \/ session.verified,
                          left |-> Continuation, before |-> Continuation]

Activated(strong) == [open |-> TRUE, pending |-> {}, verified |-> strong,
                      left |-> Continuation, before |-> Continuation]

\* Bug: the text of a candidate goes to the line there is.
PageOfAll(strong) == [line |-> IF strong THEN "current" ELSE page.line, held |-> FALSE]

\* plain_wake() begins a line, plain_candidate() holds the text back.
PageOf(strong) == IF strong THEN [line |-> "current", held |-> FALSE]
                  ELSE [line |-> IF page.line = "none" THEN "none" ELSE "earlier", held |-> TRUE]

\* confirm_wake(), at every result of the recognizer.
Confirmed(s, text) == [s EXCEPT !.verified = @ \/ text.wake]
ConfirmedPage(text) == IF ~session.verified /\ text.wake THEN [line |-> "current", held |-> FALSE] ELSE page
Trust(p, text) == [p EXCEPT !.trusted = @ \/ text.wake]

-----------------------------------------------------------------------------
(* The turns of listen(): each feeds the detector and keeps the sound.     *)

Keep(sound) == pre' = (IF Len(pre) < PreRoll THEN pre ELSE Tail(pre)) \o <<sound>>

\* A detection, at any time, begins a session with the sounds kept.
Wake(strong) ==
  /\ session' = Activated(strong)
  /\ page' = PageOf(strong)
  /\ rec' = [FoldLeft(Hear, NoRecording, pre') EXCEPT !.active = TRUE]
  /\ past' = [past EXCEPT !.trusted = strong, !.broken = FALSE, !.settled = FALSE, !.calm = 0]
  /\ UNCHANGED sending

\* No utterance begins.
Idle(score) ==
  /\ ~rec.active
  /\ LET s == Later(session)
     IN /\ session' = IF Expired(s) THEN Closed(s) ELSE s
        /\ page' = IF Expired(s) THEN Dropped(page) ELSE page
  /\ past' = Calmer(score)
  /\ UNCHANGED <<rec, sending>>

\* A text of the recognizer, or none yet.
Partial(s, r, score) ==
  \E text \in Transcripts(r) :
    /\ session' = Confirmed(s, text)
    /\ page' = ConfirmedPage(text)
    /\ past' = Trust(Calmer(score), text)
    /\ UNCHANGED sending

\* The last of the sounds kept, with which an utterance begins that has no wake word.
Latest == IF Len(pre') <= Lead THEN pre' ELSE SubSeq(pre', Len(pre') - Lead + 1, Len(pre'))

\* Speech continues the session without a wake word.
Resume(score) ==
  /\ ~rec.active
  /\ LET s == Later(session)
     IN /\ s.open /\ ~Expired(s)
        /\ rec' = [FoldLeft(Hear, NoRecording, Latest) EXCEPT !.active = TRUE, !.total = 1]
        /\ Partial([s EXCEPT !.before = s.left, !.left = Continuation], rec', score)

Longer(sound, speech) == [Hear(rec, sound) EXCEPT !.total = @ + 1, !.silence = IF speech THEN 0 ELSE @ + 1]

Record(score, r) ==
  /\ rec.active /\ r.silence < Pause /\ r.total < MaxUtterance
  /\ rec' = r
  /\ Partial([Later(session) EXCEPT !.left = Continuation], r, score)

\* Bug: what was understood so far stays for the continuation.
TooLongKept(score, r) ==
  /\ rec.active /\ r.total >= MaxUtterance
  /\ rec' = NoRecording
  /\ session' = Later(session)
  /\ page' = page
  /\ past' = [Calmer(score) EXCEPT !.broken = TRUE]
  /\ UNCHANGED sending

\* The limit of an utterance: the command is discarded.
TooLong(score, r) ==
  /\ rec.active /\ r.total >= MaxUtterance
  /\ rec' = NoRecording
  /\ session' = Closed(Later(session))
  /\ page' = Dropped(page)
  /\ past' = [Calmer(score) EXCEPT !.broken = TRUE]
  /\ UNCHANGED sending

\* utterance(), up to the planning.
Answered(s, text) ==
  IF Expired(s) \/ ~s.verified THEN Closed(s)
  ELSE IF Blank(text) THEN s
  ELSE [s EXCEPT !.pending = IF text.wake THEN text.words ELSE @ \cup text.words]

\* A pause ends the utterance.  What was said so far is planned: it may be
\* incomplete, fail, or give actions; the session is closed before they are sent.
End(score, r) ==
  /\ rec.active /\ r.silence >= Pause /\ r.total < MaxUtterance
  /\ rec' = NoRecording
  /\ \E text \in Transcripts(r) :
       LET left == IF Blank(text) THEN Later(session).before ELSE Continuation
           s == Answered(Confirmed([Later(session) EXCEPT !.left = left], text), text)
       IN /\ page' = IF s.open THEN ConfirmedPage(text) ELSE Dropped(page)
          /\ \/ /\ session' = s /\ sending' = 0
                /\ past' = Trust(Calmer(score), text)
             \/ /\ s.open /\ ~Blank(text) /\ s.pending # {}
                /\ session' = Closed(s) /\ sending' \in 0..MaxActions
                /\ past' = [Trust(Calmer(score), text) EXCEPT !.acted = s.pending]

Turn == /\ sending = 0
        /\ \E score \in Score, sound \in Sound :
             /\ Feed(score) /\ Keep(sound)
             /\ IF Verdict(score) # "nothing" THEN Wake(Verdict(score) = "detected")
                ELSE \/ Idle(score) \/ Resume(score)
                     \/ \E speech \in BOOLEAN :
                          LET r == Longer(sound, speech)
                          IN Record(score, r) \/ TooLong(score, r) \/ End(score, r)

\* execute_action(): an exception ends the command, which is not repeated.  The
\* words of the command are marked where they are kept.
Send == /\ sending > 0
        /\ sending' \in {sending - 1, 0}
        /\ pre' = [i \in DOMAIN pre |->
                     IF pre[i] = "word" /\ ("wake" \in ToSet(pre) => \E j \in 1..i : pre[j] = "wake")
                     THEN "done" ELSE pre[i]]
        /\ UNCHANGED <<det, rec, session, page, past>>

\* Audio was lost or is 4 s old.
Overflow == /\ sending = 0
            /\ det' = Armed /\ pre' = <<>> /\ rec' = NoRecording
            /\ session' = Closed(session) /\ page' = Dropped(page)
            /\ past' = [past EXCEPT !.broken = TRUE, !.settled = TRUE, !.calm = 0]
            /\ UNCHANGED sending

Next == Turn \/ Send \/ Overflow

Spec == Init /\ [][Next]_vars

-----------------------------------------------------------------------------
(* Properties.                                                             *)

\* A command that is sent was heard whole, in a session that the detector or a
\* transcript with the wake phrase authorized since it began: after lost audio or
\* the limit of an utterance nothing of it is left to be completed and sent, and a
\* doubtful detection inherits nothing from the session before it.
ActsOnWholeCommand == sending > 0 => past.trusted /\ ~past.broken /\ ~session.open

\* What is recognized goes to the line of its own wake, and while the wake is in
\* doubt nowhere ("rejected fragments accumulate", but not in the transcript).
PageFollowsSession ==
  /\ rec.active => session.open /\ page.held = ~session.verified
  /\ rec.active /\ session.verified => page.line = "current"
  /\ sending > 0 => page = [line |-> "current", held |-> FALSE]

\* One phrase makes one session: between two detections, of whatever strength,
\* it was quiet for Rearm steps in a row.
OneSessionPerPhrase == [][det.armed /\ ~det'.armed => past.settled]_vars

\* "A new wake phrase starts a clean command session." (audio.py:91)
SessionStartsClean == sending > 0 => "done" \notin past.acted

=============================================================================
