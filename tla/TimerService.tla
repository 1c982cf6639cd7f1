---------------------------- MODULE TimerService ----------------------------
(***************************************************************************)
(* TimerService (src/jarvis/timers.py): the one persistent countdown of    *)
(* the client.  Four kinds of threads share it: a pool worker that applies *)
(* a command, the clock thread, the publisher that shows the remaining     *)
(* time in openHAB, and the threads that ring.                             *)
(*                                                                         *)
(* apply() and tick() hold self.lock from their first to their last step;  *)
(* the steps are separate because the process can stop between them, a     *)
(* write can fail between them, and the ring threads do not take the lock. *)
(* Time is counted in seconds left, so that both the monotonic deadline    *)
(* and the one on disk run down with Second; Off stands for None.          *)
(***************************************************************************)
EXTENDS Integers, FiniteSets

CONSTANTS MaxSeconds,       \* bound: the longest countdown (86400 in the code)
          MaxCrashes        \* bound: how often the process stops and restarts

ASSUME TimerAssumption == MaxSeconds \in Nat \ {0} /\ MaxCrashes \in Nat

VARIABLES up,               \* the client runs
          left,             \* self.deadline: seconds left, or Off
          ringing,          \* self.ringing
          disk,             \* timer.json
          holder,           \* who holds self.lock and how far it came
          display,          \* self.latest_display, or Never
          changed,          \* the changed event
          publisher,        \* where the publisher is, and the value it read
          shown,            \* what openHAB shows
          rings,            \* the ring threads, each with its cancel event
          ring,             \* self.ring_thread and self.ring_cancel, 0 at first
          stopping,         \* close(): how far it came; stop_event is set
          crashes           \* how often the process has stopped

\* What the user was told, for the properties only.
VARIABLES promise,          \* "Timer set", and neither replaced nor rung since
          dismissed         \* "Timer cancelled" or "stopped", and none set since

service == <<left, ringing, disk, holder, display, changed, publisher, shown, rings, ring>>
told == <<promise, dismissed>>
vars == <<up, service, stopping, crashes, told>>

Off == -1                   \* no deadline
Ringing == -1               \* the display "00:00:00 - Ringing"
Never == -2                 \* nothing shown yet

Slot == {1, 2}              \* ring threads that may be alive at once

Quiet == [at |-> "dead", cancelled |-> TRUE]

\* display(): the text as the number it stands for.
Display == IF ringing THEN Ringing ELSE IF left = Off THEN 0 ELSE left

\* The memory of a process that has just started with a countdown and a flag.
Fresh(l, r) == /\ left' = l
               /\ ringing' = r
               /\ holder' = "nobody"
               /\ display' = Never
               /\ changed' = FALSE
               /\ publisher' = [at |-> "wait", value |-> Never]
               /\ rings' = [s \in Slot |-> Quiet]
               /\ ring' = 0
               /\ stopping' = "no"

Init == /\ up = TRUE
        /\ left = Off /\ ringing = FALSE
        /\ disk = [left |-> Off, ringing |-> FALSE]
        /\ holder = "nobody" /\ display = Never /\ changed = FALSE
        /\ publisher = [at |-> "wait", value |-> Never]
        /\ shown = Never
        /\ rings = [s \in Slot |-> Quiet] /\ ring = 0
        /\ stopping = "no" /\ crashes = 0
        /\ promise = FALSE /\ dismissed = FALSE

-----------------------------------------------------------------------------
(* apply(): a command of the user.  "invalid", "status" and dry runs change *)
(* nothing, nor does "stop" while nothing rings.                            *)

Free == up /\ holder = "nobody"

\* ring_cancel.set(): the event of the latest ring thread, if there is one.
CancelRing == rings' = [s \in Slot |-> IF s = ring THEN [rings[s] EXCEPT !.cancelled = TRUE]
                                       ELSE rings[s]]

\* The deadlines, the ringing flag and the ring event change in memory.
Change(operation, seconds) ==
  /\ Free /\ stopping = "no"
  /\ holder' = operation
  /\ left' = seconds /\ ringing' = FALSE
  /\ CancelRing
  /\ promise' = FALSE
  /\ dismissed' = (dismissed /\ operation # "start")
  /\ UNCHANGED <<up, disk, display, changed, publisher, shown, ring, stopping, crashes>>

\* Bug: "cancel" silences the timer and leaves its deadline.
ApplyCancelKeepingDeadline == Change("cancel", left)

ApplyStart == \E seconds \in 1..MaxSeconds : Change("start", seconds)
ApplyCancel == Change("cancel", Off)
ApplyStop == ringing /\ Change("stop", Off)

Operations == {"start", "cancel", "stop"}

\* _save() replaces the file by one that says what memory says.
Saved(next) == /\ disk' = [left |-> left, ringing |-> ringing]
               /\ holder' = next
               /\ UNCHANGED <<up, left, ringing, display, changed, publisher, shown, rings,
                              ring, stopping, crashes, promise, dismissed>>

\* Bug: the error of a write is swallowed.
SaveFailsUnnoticed == /\ up /\ holder = "start"
                      /\ holder' = "confirm_start"
                      /\ UNCHANGED <<up, left, ringing, disk, display, changed, publisher, shown,
                                     rings, ring, stopping, crashes, promise, dismissed>>

\* _save() raises: what was changed in memory stays changed, the rest of the
\* caller is skipped.
SaveFails == /\ up /\ holder \in Operations \cup {"expiring"}
             /\ holder' = "nobody"
             /\ UNCHANGED <<up, left, ringing, disk, display, changed, publisher, shown, rings,
                            ring, stopping, crashes, promise, dismissed>>

ApplySaves == /\ up /\ holder \in Operations
              /\ Saved(IF holder = "start" THEN "confirm_start" ELSE "confirm_end")

\* The display is brought up to date and the user is told.
Confirm == /\ up /\ holder \in {"confirm_start", "confirm_end"}
           /\ holder' = "nobody"
           /\ display' = Display /\ changed' = TRUE
           /\ promise' = (holder = "confirm_start")
           /\ dismissed' = (holder = "confirm_end")
           /\ UNCHANGED <<up, left, ringing, disk, publisher, shown, rings, ring, stopping,
                          crashes>>

-----------------------------------------------------------------------------
(* tick(): the clock thread, ten times a second.  A tick that has passed    *)
(* the test of stop_event may come after close(); that there is only one   *)
(* is left open.                                                           *)

TickExpires == /\ Free /\ left = 0
               /\ left' = Off /\ ringing' = TRUE
               /\ holder' = "expiring"
               /\ promise' = FALSE
               /\ UNCHANGED <<up, disk, display, changed, publisher, shown, rings, ring,
                              stopping, crashes, dismissed>>

TickSaves == up /\ holder = "expiring" /\ Saved("ticking")

\* Bug: a ring thread is started whether or not one is alive.
RingIgnored == TRUE

\* Bug: a ring thread is started once only.
RingNeverStarted == ring = 0

\* The ring thread, if there ever was one, has ended.
RingDead == ring = 0 \/ rings[ring].at = "dead"

\* The rest of tick(), after an expiry was saved or when nothing expires: the
\* display, and a ring thread if the timer rings and none is alive.
TickRest ==
  /\ up /\ \/ holder = "ticking"
           \/ holder = "nobody" /\ left # 0
  /\ holder' = "nobody"
  /\ display' = Display
  /\ changed' = (changed \/ display # Display)
  /\ IF ringing /\ RingDead
     THEN \E s \in Slot : /\ rings[s].at = "dead"
                          /\ rings' = [rings EXCEPT ![s] = [at |-> "loop", cancelled |-> FALSE]]
                          /\ ring' = s
     ELSE UNCHANGED <<rings, ring>>
  /\ UNCHANGED <<up, left, ringing, disk, publisher, shown, stopping, crashes, told>>

-----------------------------------------------------------------------------
(* _ring(): a chime, then a quiet interval in which "stop" can be heard.   *)

RingGoes(s, to) == /\ rings' = [rings EXCEPT ![s].at = to]
                   /\ UNCHANGED <<up, left, ringing, disk, holder, display, changed, publisher,
                                  shown, ring, stopping, crashes, told>>

RingTests(s) == /\ up /\ rings[s].at = "loop"
                /\ RingGoes(s, IF rings[s].cancelled \/ stopping # "no" THEN "dead" ELSE "chime")

ChimeEnds(s) == up /\ rings[s].at = "chime" /\ RingGoes(s, "quiet")

QuietEnds(s) == /\ up /\ rings[s].at = "quiet"
                /\ RingGoes(s, IF rings[s].cancelled THEN "dead" ELSE "loop")

RingSteps(s) == RingTests(s) \/ ChimeEnds(s) \/ QuietEnds(s)

-----------------------------------------------------------------------------
(* _publish_loop(): sends the latest display, and again after a failure.   *)

PublisherGoes(to, value, flag, seen) ==
  /\ publisher' = [at |-> to, value |-> value]
  /\ changed' = flag
  /\ shown' = seen
  /\ UNCHANGED <<up, left, ringing, disk, holder, display, rings, ring, stopping, crashes, told>>

PublisherWakes == /\ up /\ publisher.at = "wait" /\ changed
                  /\ PublisherGoes(IF stopping = "no" THEN "cleared" ELSE "ended",
                                   publisher.value, stopping # "no", shown)

PublisherReads == /\ Free /\ publisher.at = "cleared"
                  /\ PublisherGoes("send", display, changed, shown)

PublishSucceeds == /\ up /\ publisher.at = "send"
                   /\ PublisherGoes("wait", Never, changed, publisher.value)

\* The request fails; openHAB may have taken it nevertheless.
PublishFails == /\ up /\ publisher.at = "send"
                /\ \E seen \in {shown, publisher.value} :
                     PublisherGoes("failed", Never, changed, seen)

\* Bug: a failed request is forgotten until the display changes.
PublisherForgets == /\ up /\ publisher.at = "failed"
                    /\ PublisherGoes("wait", Never, changed, shown)

PublisherRetries == /\ up /\ publisher.at = "failed"
                    /\ PublisherGoes("wait", Never, TRUE, shown)

-----------------------------------------------------------------------------
(* close(), the death of the process, its restart, and time.  The last life *)
(* that the bound allows is neither closed nor ended.                      *)

CloseStops == /\ up /\ stopping = "no" /\ crashes < MaxCrashes
              /\ holder \notin Operations \cup {"confirm_start", "confirm_end"}
              /\ stopping' = "stop_set"
              /\ UNCHANGED <<up, service, crashes, told>>

CloseCancels == /\ up /\ stopping = "stop_set"
                /\ stopping' = "closed"
                /\ CancelRing
                /\ changed' = TRUE
                /\ UNCHANGED <<up, left, ringing, disk, holder, display, publisher, shown, ring,
                               crashes, told>>

\* The process ends after close(), or dies at any moment before.
Dies == /\ up /\ crashes < MaxCrashes
        /\ up' = FALSE
        /\ crashes' = crashes + 1
        /\ UNCHANGED <<service, stopping, told>>

ProcessEnds == stopping = "closed" /\ Dies

\* Bug: a deadline that passed while the client was down is dropped.
RestartsDroppingOverdue == /\ ~up
                           /\ up' = TRUE
                           /\ Fresh(IF disk.left = 0 THEN Off ELSE disk.left, disk.ringing)
                           /\ UNCHANGED <<disk, shown, crashes, promise, dismissed>>

\* __init__ reads the file; a deadline that passed meanwhile is due at once.
Restarts == /\ ~up
            /\ up' = TRUE
            /\ Fresh(disk.left, disk.ringing)
            /\ UNCHANGED <<disk, shown, crashes, promise, dismissed>>

\* A file that cannot be read is logged, and the client starts without a timer.
RestartsUnreadable == /\ ~up
                      /\ up' = TRUE
                      /\ Fresh(Off, FALSE)
                      /\ promise' = FALSE
                      /\ UNCHANGED <<disk, shown, crashes, dismissed>>

Less(seconds) == IF seconds > 0 THEN seconds - 1 ELSE seconds

Second == /\ left > 0 \/ disk.left > 0
          /\ left' = Less(left)
          /\ disk' = [disk EXCEPT !.left = Less(@)]
          /\ UNCHANGED <<up, ringing, holder, display, changed, publisher, shown, rings, ring,
                         stopping, crashes, told>>

-----------------------------------------------------------------------------
Clock == TickExpires \/ TickSaves \/ TickRest
Ticking == (stopping = "no" \/ holder # "nobody") /\ Clock
Publisher == PublisherWakes \/ PublisherReads \/ PublishSucceeds \/ PublisherRetries

Next == \/ ApplyStart \/ ApplyCancel \/ ApplyStop \/ ApplySaves \/ SaveFails \/ Confirm
        \/ TickExpires \/ TickSaves \/ TickRest
        \/ \E s \in Slot : RingSteps(s)
        \/ PublisherWakes \/ PublisherReads \/ PublishSucceeds \/ PublishFails
        \/ PublisherRetries
        \/ CloseStops \/ CloseCancels \/ Dies \/ Restarts \/ RestartsUnreadable \/ Second

Spec == Init /\ [][Next]_vars

(***************************************************************************)
(* Time passes, runnable threads run and a stopped client is started again *)
(* with a readable file.  openHAB answers again and again, not always: the *)
(* success of a request is strongly fair.  So is what needs the lock, which *)
(* a user who goes on commanding holds again and again but for an instant. *)
(* Nobody has to set a timer.                                              *)
(***************************************************************************)
FairSpec == /\ Spec
            /\ WF_vars(Second) /\ SF_vars(Ticking) /\ WF_vars(ApplySaves) /\ WF_vars(Confirm)
            /\ WF_vars(Publisher) /\ SF_vars(PublisherReads) /\ SF_vars(PublishSucceeds)
            /\ \A s \in Slot : WF_vars(RingSteps(s))
            /\ WF_vars(CloseCancels) /\ WF_vars(ProcessEnds) /\ WF_vars(Restarts)

-----------------------------------------------------------------------------
\* Type correctness; nothing but a display is ever sent to openHAB.
TypeOK == /\ up \in BOOLEAN /\ ringing \in BOOLEAN /\ changed \in BOOLEAN
          /\ left \in Off..MaxSeconds
          /\ disk \in [left : Off..MaxSeconds, ringing : BOOLEAN]
          /\ holder \in Operations \cup {"nobody", "confirm_start", "confirm_end", "expiring", "ticking"}
          /\ display \in Never..MaxSeconds
          /\ publisher.at \in {"wait", "cleared", "send", "failed", "ended"}
          /\ publisher.at = "send" => publisher.value \in Ringing..MaxSeconds
          /\ rings \in [Slot -> [at : {"dead", "loop", "chime", "quiet"}, cancelled : BOOLEAN]]
          /\ ring \in Slot \cup {0}
          /\ stopping \in {"no", "stop_set", "closed"}

\* A timer the user was told is set is on disk, so that neither a crash nor a
\* restart at any point loses it.
PromiseOnDisk == promise => disk.left # Off \/ disk.ringing

\* A timer the user was told is cancelled or stopped is gone: it does not ring,
\* nor come back after a restart.
DismissedIsGone == dismissed => ~ringing /\ left = Off /\ ~disk.ringing /\ disk.left = Off

\* At most one thread can chime, the one whose event commands and close() set,
\* and while no timer rings it has been told to stop.
OneRing == \A s \in Slot : up /\ rings[s].at # "dead" => s = ring /\ (ringing \/ rings[s].cancelled)

\* Types, and the ring threads in order.
WellFormed == TypeOK /\ OneRing

\* A timer that was promised rings, unless the user changes it first: across
\* crashes, failed writes and restarts.
PromiseIsKept == promise ~> ~promise

\* A ringing timer is heard, even if an older ring thread is still ending; and
\* openHAB shows what the timer displays, unless that has changed again.
UserIsTold ==
  /\ up /\ ringing /\ stopping = "no" ~>
       (\E s \in Slot : rings[s].at = "chime" /\ ~rings[s].cancelled)
       \/ ~ringing \/ stopping # "no" \/ ~up
  /\ \A d \in Ringing..MaxSeconds :
       up /\ Display = d ~> shown = d \/ Display # d \/ ~up \/ stopping # "no"

=============================================================================
