------------------------- MODULE TimerServiceProofs -------------------------
(***************************************************************************)
(* Theorems about TimerService, for every longest countdown and every      *)
(* number of restarts.                                                     *)
(***************************************************************************)
EXTENDS TimerService, TLAPS

(***************************************************************************)
(* The inductive invariant.  What the user is told is decided while the    *)
(* lock is held, in several steps with a write between them that may fail  *)
(* and time that goes by: Command says what each holder of the lock has    *)
(* done so far.                                                            *)
(***************************************************************************)
Command ==
  /\ holder \in Operations \cup {"confirm_start", "confirm_end", "expiring"} => ~promise
  /\ holder \in {"start", "confirm_start"} => ~dismissed
  /\ holder = "start" => left # Off /\ ~ringing
  /\ holder = "confirm_start" => left # Off /\ disk = [left |-> left, ringing |-> FALSE]
  /\ holder \in {"cancel", "stop", "confirm_end"} => left = Off /\ ~ringing
  /\ holder = "confirm_end" => disk.left = Off /\ ~disk.ringing

\* The publisher is woken, but by close(), only when there is a display.
Displayed ==
  /\ publisher.at \in {"cleared", "send", "failed"} => display # Never
  /\ changed /\ stopping = "no" => display # Never

\* While a promise stands the file holds the countdown that memory has.
PromisedIsSaved == promise => left # Off /\ disk = [left |-> left, ringing |-> FALSE]

HistoryOK == promise \in BOOLEAN /\ dismissed \in BOOLEAN

IInv == /\ TypeOK /\ HistoryOK /\ OneRing /\ Command /\ Displayed
        /\ PromiseOnDisk /\ PromisedIsSaved /\ DismissedIsGone

-----------------------------------------------------------------------------
LEMMA InitIInv == Init => IInv
<1> SUFFICES ASSUME Init PROVE IInv
  OBVIOUS
<1>1. TypeOK
  <2>1. MaxSeconds \in Nat
    BY TimerAssumption
  <2>2. left \in Off..MaxSeconds /\ disk \in [left : Off..MaxSeconds, ringing : BOOLEAN]
    BY <2>1 DEF Init, Off
  <2>3. display \in Never..MaxSeconds
    BY <2>1 DEF Init, Never
  <2>4. /\ up \in BOOLEAN /\ ringing \in BOOLEAN /\ changed \in BOOLEAN
        /\ holder \in Operations \cup {"nobody", "confirm_start", "confirm_end", "expiring", "ticking"}
        /\ publisher.at \in {"wait", "cleared", "send", "failed", "ended"}
        /\ publisher.at = "send" => publisher.value \in Ringing..MaxSeconds
    BY DEF Init
  <2>5. rings \in [Slot -> [at : {"dead", "loop", "chime", "quiet"}, cancelled : BOOLEAN]]
    BY DEF Init, Quiet
  <2>6. ring \in Slot \cup {0} /\ stopping \in {"no", "stop_set", "closed"}
    BY DEF Init
  <2>7. QED
    BY <2>2, <2>3, <2>4, <2>5, <2>6 DEF TypeOK
<1>2. HistoryOK /\ OneRing /\ Command /\ Displayed /\ PromiseOnDisk /\ PromisedIsSaved /\ DismissedIsGone
  BY DEF Init, HistoryOK, OneRing, Command, Displayed, PromiseOnDisk, PromisedIsSaved, DismissedIsGone, Quiet, Off, Operations
<1>3. QED
  BY <1>1, <1>2 DEF IInv

\* The event of a ring thread is set.
LEMMA CancelRingTypes ==
  ASSUME TypeOK, CancelRing
  PROVE  rings' \in [Slot -> [at : {"dead", "loop", "chime", "quiet"}, cancelled : BOOLEAN]]
<1>1. \A s \in Slot : (IF s = ring THEN [rings[s] EXCEPT !.cancelled = TRUE] ELSE rings[s])
                        \in [at : {"dead", "loop", "chime", "quiet"}, cancelled : BOOLEAN]
  BY DEF TypeOK
<1>2. QED
  BY <1>1 DEF CancelRing

LEMMA ChangeTypes ==
  ASSUME TypeOK, HistoryOK, NEW operation \in Operations, NEW seconds \in Off..MaxSeconds,
         Change(operation, seconds)
  PROVE  TypeOK' /\ HistoryOK'
<1>1. rings' \in [Slot -> [at : {"dead", "loop", "chime", "quiet"}, cancelled : BOOLEAN]]
  BY CancelRingTypes DEF Change
<1>2. HistoryOK'
  BY DEF HistoryOK, Change
<1>3. /\ left' \in Off..MaxSeconds /\ ringing' \in BOOLEAN
      /\ holder' \in Operations \cup {"nobody", "confirm_start", "confirm_end", "expiring", "ticking"}
      /\ UNCHANGED <<up, disk, display, changed, publisher, ring, stopping>>
  BY DEF Change
<1>4. QED
  BY <1>1, <1>2, <1>3 DEF TypeOK

\* What a display can be.
LEMMA DisplayType == TypeOK => Display \in Ringing..MaxSeconds /\ Display \in Never..MaxSeconds
                                 /\ Display # Never
  BY TimerAssumption DEF TypeOK, Display, Ringing, Never, Off

LEMMA FreshTypes ==
  ASSUME NEW l \in Off..MaxSeconds, NEW r \in BOOLEAN, Fresh(l, r), up' \in BOOLEAN,
         disk' \in [left : Off..MaxSeconds, ringing : BOOLEAN]
  PROVE  TypeOK'
<1>1. /\ left' \in Off..MaxSeconds /\ ringing' \in BOOLEAN
      /\ holder' = "nobody" /\ changed' = FALSE
      /\ publisher'.at = "wait" /\ ring' = 0 /\ stopping' = "no"
  BY DEF Fresh
<1>2. display' \in Never..MaxSeconds
  BY TimerAssumption DEF Fresh, Never
<1>3. rings' \in [Slot -> [at : {"dead", "loop", "chime", "quiet"}, cancelled : BOOLEAN]]
  BY DEF Fresh, Quiet
<1>4. QED
  BY <1>1, <1>2, <1>3 DEF TypeOK

\* Every step keeps the types.
LEMMA NextKeepsTypes == ASSUME IInv, [Next]_vars PROVE TypeOK' /\ HistoryOK'
<1>1. CASE UNCHANGED vars
  BY <1>1 DEF vars, service, told, IInv, TypeOK, HistoryOK
<1>2. CASE ApplyStart
  <2>1. PICK seconds \in 1..MaxSeconds : Change("start", seconds)
    BY <1>2 DEF ApplyStart
  <2>2. seconds \in Off..MaxSeconds
    BY TimerAssumption DEF Off
  <2>3. QED
    BY <2>1, <2>2, ChangeTypes DEF IInv, Operations
<1>3. CASE ApplyCancel
  <2>1. Change("cancel", Off) /\ Off \in Off..MaxSeconds
    BY <1>3, TimerAssumption DEF ApplyCancel, Off
  <2>2. QED
    BY <2>1, ChangeTypes DEF IInv, Operations
<1>4. CASE ApplyStop
  <2>1. Change("stop", Off) /\ Off \in Off..MaxSeconds
    BY <1>4, TimerAssumption DEF ApplyStop, Off
  <2>2. QED
    BY <2>1, ChangeTypes DEF IInv, Operations
<1>5. CASE ApplySaves
  <2>1. UNCHANGED <<up, left, ringing, display, changed, publisher, rings, ring, stopping, told>>
    BY <1>5 DEF ApplySaves, Saved, told
  <2>2. disk' = [left |-> left, ringing |-> ringing] /\ holder' \in {"confirm_start", "confirm_end"}
    BY <1>5 DEF ApplySaves, Saved
  <2>3. QED
    BY <2>1, <2>2 DEF told, IInv, TypeOK, HistoryOK
<1>6. CASE SaveFails
  <2>1. /\ UNCHANGED <<up, left, ringing, disk, display, changed, publisher, rings, ring, stopping, told>>
        /\ holder' = "nobody"
    BY <1>6 DEF SaveFails, told
  <2>2. QED
    BY <2>1 DEF told, IInv, TypeOK, HistoryOK
<1>7. CASE Confirm
  <2>1. /\ UNCHANGED <<up, left, ringing, disk, publisher, rings, ring, stopping>>
        /\ holder' = "nobody" /\ changed' = TRUE /\ display' = Display
        /\ promise' \in BOOLEAN /\ dismissed' \in BOOLEAN
    BY <1>7 DEF Confirm
  <2>2. display' \in Never..MaxSeconds
    BY <2>1, DisplayType DEF IInv
  <2>3. QED
    BY <2>1, <2>2 DEF IInv, TypeOK, HistoryOK
<1>8. CASE TickExpires
  <2>1. Off \in Off..MaxSeconds
    BY TimerAssumption DEF Off
  <2>2. QED
    BY <1>8, <2>1 DEF TickExpires, IInv, TypeOK, HistoryOK
<1>9. CASE TickSaves
  <2>1. UNCHANGED <<up, left, ringing, display, changed, publisher, rings, ring, stopping, told>>
    BY <1>9 DEF TickSaves, Saved, told
  <2>2. disk' = [left |-> left, ringing |-> ringing] /\ holder' \in {"ticking"}
    BY <1>9 DEF TickSaves, Saved
  <2>3. QED
    BY <2>1, <2>2 DEF told, IInv, TypeOK, HistoryOK
<1>10. CASE TickRest
  <2>1. /\ rings' \in [Slot -> [at : {"dead", "loop", "chime", "quiet"}, cancelled : BOOLEAN]]
        /\ ring' \in Slot \cup {0}
    <3>1. CASE ringing /\ RingDead
      <4>1. PICK s \in Slot : /\ rings' = [rings EXCEPT ![s] = [at |-> "loop", cancelled |-> FALSE]]
                              /\ ring' = s
        BY <1>10, <3>1 DEF TickRest
      <4>2. QED
        BY <4>1 DEF IInv, TypeOK
    <3>2. CASE ~(ringing /\ RingDead)
      BY <1>10, <3>2 DEF TickRest, IInv, TypeOK
    <3>3. QED
      BY <3>1, <3>2
  <2>2. display' \in Never..MaxSeconds /\ changed' \in BOOLEAN /\ holder' = "nobody"
    BY <1>10, DisplayType DEF TickRest, IInv, TypeOK
  <2>3. UNCHANGED <<up, left, ringing, disk, publisher, stopping, promise, dismissed>>
    BY <1>10 DEF TickRest, told
  <2>4. QED
    BY <2>1, <2>2, <2>3 DEF IInv, TypeOK, HistoryOK
<1>11. CASE \E s \in Slot : RingSteps(s)
  <2>1. PICK s \in Slot, to \in {"dead", "loop", "chime", "quiet"} : RingGoes(s, to)
    BY <1>11 DEF RingSteps, RingTests, ChimeEnds, QuietEnds
  <2>2. rings' = [rings EXCEPT ![s].at = to]
    BY <2>1 DEF RingGoes
  <2>3. rings' \in [Slot -> [at : {"dead", "loop", "chime", "quiet"}, cancelled : BOOLEAN]]
    BY <2>2 DEF IInv, TypeOK
  <2>4. UNCHANGED <<up, left, ringing, disk, holder, display, changed, publisher, ring, stopping, told>>
    BY <2>1 DEF RingGoes
  <2>5. QED
    BY <2>3, <2>4 DEF told, IInv, TypeOK, HistoryOK
<1>12. CASE PublisherWakes
  <2>1. /\ UNCHANGED <<up, left, ringing, disk, holder, display, rings, ring, stopping, told>>
        /\ publisher'.at \in {"cleared", "ended"} /\ changed' \in BOOLEAN
    BY <1>12 DEF PublisherWakes, PublisherGoes, IInv, TypeOK
  <2>2. QED
    BY <2>1 DEF told, IInv, TypeOK, HistoryOK
<1>13. CASE PublisherReads
  <2>1. display \in Ringing..MaxSeconds
    BY <1>13, TimerAssumption DEF PublisherReads, IInv, TypeOK, Displayed, Ringing, Never
  <2>2. /\ UNCHANGED <<up, left, ringing, disk, holder, display, changed, rings, ring, stopping, told>>
        /\ publisher'.at = "send" /\ publisher'.value = display
    BY <1>13 DEF PublisherReads, PublisherGoes
  <2>3. QED
    BY <2>1, <2>2 DEF told, IInv, TypeOK, HistoryOK
<1>14. CASE PublishSucceeds
  <2>1. /\ UNCHANGED <<up, left, ringing, disk, holder, display, rings, ring, stopping, told>>
        /\ publisher'.at = "wait" /\ changed' \in BOOLEAN
    BY <1>14 DEF PublishSucceeds, PublisherGoes, IInv, TypeOK
  <2>2. QED
    BY <2>1 DEF told, IInv, TypeOK, HistoryOK
<1>15. CASE PublishFails
  <2>1. /\ UNCHANGED <<up, left, ringing, disk, holder, display, rings, ring, stopping, told>>
        /\ publisher'.at = "failed" /\ changed' \in BOOLEAN
    BY <1>15 DEF PublishFails, PublisherGoes, IInv, TypeOK
  <2>2. QED
    BY <2>1 DEF told, IInv, TypeOK, HistoryOK
<1>16. CASE PublisherRetries
  <2>1. /\ UNCHANGED <<up, left, ringing, disk, holder, display, rings, ring, stopping, told>>
        /\ publisher'.at = "wait" /\ changed' \in BOOLEAN
    BY <1>16 DEF PublisherRetries, PublisherGoes, IInv, TypeOK
  <2>2. QED
    BY <2>1 DEF told, IInv, TypeOK, HistoryOK
<1>17. CASE CloseStops
  <2>1. /\ UNCHANGED <<up, left, ringing, disk, holder, display, changed, publisher, rings, ring, told>>
        /\ stopping' = "stop_set"
    BY <1>17 DEF CloseStops, service
  <2>2. QED
    BY <2>1 DEF told, IInv, TypeOK, HistoryOK
<1>18. CASE CloseCancels
  <2>1. rings' \in [Slot -> [at : {"dead", "loop", "chime", "quiet"}, cancelled : BOOLEAN]]
    BY <1>18, CancelRingTypes DEF CloseCancels, IInv
  <2>2. /\ UNCHANGED <<up, left, ringing, disk, holder, display, publisher, ring, told>>
        /\ changed' = TRUE /\ stopping' = "closed"
    BY <1>18 DEF CloseCancels
  <2>3. QED
    BY <2>1, <2>2 DEF told, IInv, TypeOK, HistoryOK
<1>19. CASE Dies
  <2>1. /\ UNCHANGED <<left, ringing, disk, holder, display, changed, publisher, rings, ring>>
        /\ UNCHANGED <<stopping, told>> /\ up' = FALSE
    BY <1>19 DEF Dies, service
  <2>2. TypeOK'
    BY <2>1 DEF IInv, TypeOK
  <2>3. HistoryOK'
    BY <2>1 DEF told, IInv, HistoryOK
  <2>4. QED
    BY <2>2, <2>3
<1>20. CASE Restarts
  <2>1. HistoryOK' /\ Fresh(disk.left, disk.ringing) /\ up' \in BOOLEAN /\ disk' = disk
    BY <1>20 DEF Restarts, IInv, HistoryOK
  <2>2. QED
    BY <2>1, FreshTypes DEF IInv, TypeOK
<1>21. CASE RestartsUnreadable
  <2>1. HistoryOK' /\ Fresh(Off, FALSE) /\ up' \in BOOLEAN /\ disk' = disk
    BY <1>21 DEF RestartsUnreadable, IInv, HistoryOK
  <2>2. Off \in Off..MaxSeconds
    BY TimerAssumption DEF Off
  <2>3. QED
    BY <2>1, <2>2, FreshTypes DEF IInv, TypeOK
<1>22. CASE Second
  <2>1. \A l \in Off..MaxSeconds : Less(l) \in Off..MaxSeconds
    BY TimerAssumption DEF Less, Off
  <2>2. /\ left' = Less(left) /\ disk' = [disk EXCEPT !.left = Less(@)]
        /\ UNCHANGED <<up, ringing, holder, display, changed, publisher, rings, ring, stopping, told>>
    BY <1>22 DEF Second
  <2>3. left' \in Off..MaxSeconds /\ disk' \in [left : Off..MaxSeconds, ringing : BOOLEAN]
    BY <2>1, <2>2 DEF IInv, TypeOK
  <2>4. QED
    BY <2>2, <2>3 DEF told, IInv, TypeOK, HistoryOK
<1>23. QED
  BY <1>1, <1>2, <1>3, <1>4, <1>5, <1>6, <1>7, <1>8, <1>9, <1>10, <1>11, <1>12, <1>13, <1>14, <1>15, <1>16, <1>17, <1>18, <1>19, <1>20, <1>21, <1>22 DEF Next

\* Every step keeps the ring threads in order.
LEMMA NextKeepsOneRing == ASSUME IInv, [Next]_vars PROVE OneRing'
<1>1. CASE UNCHANGED vars
  BY <1>1 DEF vars, service, told, IInv, TypeOK, OneRing, Slot
<1>2. CASE ApplyStart
  BY <1>2, TimerAssumption DEF ApplyStart, Change, CancelRing, Free, IInv, TypeOK, OneRing, Slot
<1>3. CASE ApplyCancel
  BY <1>3, TimerAssumption DEF ApplyCancel, Change, CancelRing, Free, IInv, TypeOK, OneRing, Slot
<1>4. CASE ApplyStop
  BY <1>4, TimerAssumption DEF ApplyStop, Change, CancelRing, Free, IInv, TypeOK, OneRing, Slot
<1>5. CASE ApplySaves
  BY <1>5, TimerAssumption DEF ApplySaves, Saved, IInv, TypeOK, OneRing, Slot
<1>6. CASE SaveFails
  BY <1>6, TimerAssumption DEF SaveFails, IInv, TypeOK, OneRing, Slot
<1>7. CASE Confirm
  BY <1>7, TimerAssumption DEF Confirm, Display, IInv, TypeOK, OneRing, Slot
<1>8. CASE TickExpires
  BY <1>8, TimerAssumption DEF TickExpires, Free, IInv, TypeOK, OneRing, Slot
<1>9. CASE TickSaves
  BY <1>9, TimerAssumption DEF TickSaves, Saved, IInv, TypeOK, OneRing, Slot
<1>10. CASE TickRest
  BY <1>10, TimerAssumption DEF TickRest, Display, RingDead, told, IInv, TypeOK, OneRing, Slot
<1>11. CASE \E s \in Slot : RingSteps(s)
  <2>1. PICK s \in Slot, to \in {"dead", "chime", "quiet", "loop"} :
          up /\ rings[s].at # "dead" /\ RingGoes(s, to)
    BY <1>11 DEF RingSteps, RingTests, ChimeEnds, QuietEnds
  <2>2. \A q \in Slot : /\ rings'[q].cancelled = rings[q].cancelled
                        /\ rings'[q].at # "dead" => rings[q].at # "dead"
    BY <2>1 DEF RingGoes, IInv, TypeOK
  <2>3. UNCHANGED <<up, ring, ringing>>
    BY <2>1 DEF RingGoes
  <2>4. QED
    BY <2>2, <2>3 DEF IInv, OneRing
<1>12. CASE PublisherWakes
  BY <1>12, TimerAssumption DEF PublisherWakes, PublisherGoes, told, IInv, TypeOK, OneRing, Slot
<1>13. CASE PublisherReads
  BY <1>13, TimerAssumption DEF PublisherReads, PublisherGoes, Free, told, IInv, TypeOK, OneRing, Slot
<1>14. CASE PublishSucceeds
  BY <1>14, TimerAssumption DEF PublishSucceeds, PublisherGoes, told, IInv, TypeOK, OneRing, Slot
<1>15. CASE PublishFails
  BY <1>15, TimerAssumption DEF PublishFails, PublisherGoes, told, IInv, TypeOK, OneRing, Slot
<1>16. CASE PublisherRetries
  BY <1>16, TimerAssumption DEF PublisherRetries, PublisherGoes, told, IInv, TypeOK, OneRing, Slot
<1>17. CASE CloseStops
  BY <1>17, TimerAssumption DEF CloseStops, service, told, IInv, TypeOK, OneRing, Slot
<1>18. CASE CloseCancels
  BY <1>18, TimerAssumption DEF CloseCancels, CancelRing, told, IInv, TypeOK, OneRing, Slot
<1>19. CASE Dies
  BY <1>19, TimerAssumption DEF Dies, service, told, IInv, TypeOK, OneRing, Slot
<1>20. CASE Restarts
  BY <1>20, TimerAssumption DEF Restarts, Fresh, Quiet, IInv, TypeOK, OneRing, Slot
<1>21. CASE RestartsUnreadable
  BY <1>21, TimerAssumption DEF RestartsUnreadable, Fresh, Quiet, IInv, TypeOK, OneRing, Slot
<1>22. CASE Second
  BY <1>22, TimerAssumption DEF Second, Less, told, IInv, TypeOK, OneRing, Slot
<1>23. QED
  BY <1>1, <1>2, <1>3, <1>4, <1>5, <1>6, <1>7, <1>8, <1>9, <1>10, <1>11, <1>12, <1>13, <1>14, <1>15, <1>16, <1>17, <1>18, <1>19, <1>20, <1>21, <1>22 DEF Next

\* Every step keeps what the user was told true.
LEMMA NextKeepsWord == ASSUME IInv, [Next]_vars PROVE Command' /\ PromiseOnDisk' /\ PromisedIsSaved' /\ DismissedIsGone'
<1>1. CASE UNCHANGED vars
  BY <1>1 DEF vars, service, told, IInv, TypeOK, HistoryOK, Command, PromiseOnDisk, PromisedIsSaved, DismissedIsGone, Operations, Off
<1>2. CASE ApplyStart
  BY <1>2, TimerAssumption DEF ApplyStart, Change, CancelRing, Free, IInv, TypeOK, HistoryOK, Command, PromiseOnDisk, PromisedIsSaved, DismissedIsGone, Operations, Off
<1>3. CASE ApplyCancel
  BY <1>3, TimerAssumption DEF ApplyCancel, Change, CancelRing, Free, IInv, TypeOK, HistoryOK, Command, PromiseOnDisk, PromisedIsSaved, DismissedIsGone, Operations, Off
<1>4. CASE ApplyStop
  BY <1>4, TimerAssumption DEF ApplyStop, Change, CancelRing, Free, IInv, TypeOK, HistoryOK, Command, PromiseOnDisk, PromisedIsSaved, DismissedIsGone, Operations, Off
<1>5. CASE ApplySaves
  BY <1>5, TimerAssumption DEF ApplySaves, Saved, IInv, TypeOK, HistoryOK, Command, PromiseOnDisk, PromisedIsSaved, DismissedIsGone, Operations, Off
<1>6. CASE SaveFails
  BY <1>6, TimerAssumption DEF SaveFails, IInv, TypeOK, HistoryOK, Command, PromiseOnDisk, PromisedIsSaved, DismissedIsGone, Operations, Off
<1>7. CASE Confirm
  BY <1>7, TimerAssumption DEF Confirm, Display, IInv, TypeOK, HistoryOK, Command, PromiseOnDisk, PromisedIsSaved, DismissedIsGone, Operations, Off
<1>8. CASE TickExpires
  BY <1>8, TimerAssumption DEF TickExpires, Free, IInv, TypeOK, HistoryOK, Command, PromiseOnDisk, PromisedIsSaved, DismissedIsGone, Operations, Off
<1>9. CASE TickSaves
  BY <1>9, TimerAssumption DEF TickSaves, Saved, IInv, TypeOK, HistoryOK, Command, PromiseOnDisk, PromisedIsSaved, DismissedIsGone, Operations, Off
<1>10. CASE TickRest
  BY <1>10, TimerAssumption DEF TickRest, Display, RingDead, told, IInv, TypeOK, HistoryOK, Command, PromiseOnDisk, PromisedIsSaved, DismissedIsGone, Operations, Off
<1>11. CASE \E s \in Slot : RingSteps(s)
  BY <1>11, TimerAssumption DEF RingSteps, RingTests, ChimeEnds, QuietEnds, RingGoes, told, IInv, TypeOK, HistoryOK, Command, PromiseOnDisk, PromisedIsSaved, DismissedIsGone, Operations, Off
<1>12. CASE PublisherWakes
  BY <1>12, TimerAssumption DEF PublisherWakes, PublisherGoes, told, IInv, TypeOK, HistoryOK, Command, PromiseOnDisk, PromisedIsSaved, DismissedIsGone, Operations, Off
<1>13. CASE PublisherReads
  BY <1>13, TimerAssumption DEF PublisherReads, PublisherGoes, Free, told, IInv, TypeOK, HistoryOK, Command, PromiseOnDisk, PromisedIsSaved, DismissedIsGone, Operations, Off
<1>14. CASE PublishSucceeds
  BY <1>14, TimerAssumption DEF PublishSucceeds, PublisherGoes, told, IInv, TypeOK, HistoryOK, Command, PromiseOnDisk, PromisedIsSaved, DismissedIsGone, Operations, Off
<1>15. CASE PublishFails
  BY <1>15, TimerAssumption DEF PublishFails, PublisherGoes, told, IInv, TypeOK, HistoryOK, Command, PromiseOnDisk, PromisedIsSaved, DismissedIsGone, Operations, Off
<1>16. CASE PublisherRetries
  BY <1>16, TimerAssumption DEF PublisherRetries, PublisherGoes, told, IInv, TypeOK, HistoryOK, Command, PromiseOnDisk, PromisedIsSaved, DismissedIsGone, Operations, Off
<1>17. CASE CloseStops
  BY <1>17, TimerAssumption DEF CloseStops, service, told, IInv, TypeOK, HistoryOK, Command, PromiseOnDisk, PromisedIsSaved, DismissedIsGone, Operations, Off
<1>18. CASE CloseCancels
  BY <1>18, TimerAssumption DEF CloseCancels, CancelRing, told, IInv, TypeOK, HistoryOK, Command, PromiseOnDisk, PromisedIsSaved, DismissedIsGone, Operations, Off
<1>19. CASE Dies
  BY <1>19, TimerAssumption DEF Dies, service, told, IInv, TypeOK, HistoryOK, Command, PromiseOnDisk, PromisedIsSaved, DismissedIsGone, Operations, Off
<1>20. CASE Restarts
  BY <1>20, TimerAssumption DEF Restarts, Fresh, Quiet, IInv, TypeOK, HistoryOK, Command, PromiseOnDisk, PromisedIsSaved, DismissedIsGone, Operations, Off
<1>21. CASE RestartsUnreadable
  BY <1>21, TimerAssumption DEF RestartsUnreadable, Fresh, Quiet, IInv, TypeOK, HistoryOK, Command, PromiseOnDisk, PromisedIsSaved, DismissedIsGone, Operations, Off
<1>22. CASE Second
  <2>1. /\ left' = Less(left) /\ disk' = [disk EXCEPT !.left = Less(@)]
        /\ UNCHANGED <<ringing, holder, promise, dismissed>>
    BY <1>22 DEF Second, told
  <2>2. disk \in [left : Off..MaxSeconds, ringing : BOOLEAN] /\ left \in Off..MaxSeconds
    BY DEF IInv, TypeOK
  <2>3. /\ disk'.left = Less(disk.left) /\ disk'.ringing = disk.ringing
        /\ \A n \in Off..MaxSeconds : Less(n) = Off <=> n = Off
    BY <2>1, <2>2, TimerAssumption DEF Less, Off
  <2>4. (left' = Off <=> left = Off) /\ (disk'.left = Off <=> disk.left = Off)
    BY <2>1, <2>2, <2>3
  <2>5. ASSUME disk = [left |-> left, ringing |-> FALSE]
        PROVE  disk' = [left |-> left', ringing |-> FALSE]
    <3>1. disk' = [[left |-> left, ringing |-> FALSE] EXCEPT !.left = Less(left)]
      BY <2>1, <2>5
    <3>2. QED
      BY <3>1, <2>1
  <2>6. Command'
    BY <2>1, <2>3, <2>4, <2>5 DEF IInv, Command
  <2>7. PromiseOnDisk' /\ PromisedIsSaved' /\ DismissedIsGone'
    BY <2>1, <2>3, <2>4, <2>5 DEF IInv, PromiseOnDisk, PromisedIsSaved, DismissedIsGone
  <2>8. QED
    BY <2>6, <2>7
<1>23. QED
  BY <1>1, <1>2, <1>3, <1>4, <1>5, <1>6, <1>7, <1>8, <1>9, <1>10, <1>11, <1>12, <1>13, <1>14, <1>15, <1>16, <1>17, <1>18, <1>19, <1>20, <1>21, <1>22 DEF Next

\* Every step keeps the publisher's displays.
LEMMA NextKeepsDisplayed == ASSUME IInv, [Next]_vars PROVE Displayed'
<1>0. Display # Never
  BY DisplayType DEF IInv
<1>1. CASE UNCHANGED vars
  BY <1>1 DEF vars, service, IInv, Displayed
<1>2. CASE ApplyStart
  BY <1>0, <1>2 DEF ApplyStart, Change, IInv, Displayed
<1>3. CASE ApplyCancel
  BY <1>0, <1>3 DEF ApplyCancel, Change, IInv, Displayed
<1>4. CASE ApplyStop
  BY <1>0, <1>4 DEF ApplyStop, Change, IInv, Displayed
<1>5. CASE ApplySaves
  BY <1>0, <1>5 DEF ApplySaves, Saved, IInv, Displayed
<1>6. CASE SaveFails
  BY <1>0, <1>6 DEF SaveFails, IInv, Displayed
<1>7. CASE Confirm
  BY <1>0, <1>7 DEF Confirm, IInv, Displayed
<1>8. CASE TickExpires
  BY <1>0, <1>8 DEF TickExpires, IInv, Displayed
<1>9. CASE TickSaves
  BY <1>0, <1>9 DEF TickSaves, Saved, IInv, Displayed
<1>10. CASE TickRest
  BY <1>0, <1>10 DEF TickRest, IInv, Displayed
<1>11. CASE \E s \in Slot : RingSteps(s)
  BY <1>0, <1>11 DEF RingSteps, RingTests, ChimeEnds, QuietEnds, RingGoes, IInv, Displayed
<1>12. CASE PublisherWakes
  BY <1>0, <1>12 DEF PublisherWakes, PublisherGoes, IInv, Displayed
<1>13. CASE PublisherReads
  BY <1>0, <1>13 DEF PublisherReads, PublisherGoes, IInv, Displayed
<1>14. CASE PublishSucceeds
  BY <1>0, <1>14 DEF PublishSucceeds, PublisherGoes, IInv, Displayed
<1>15. CASE PublishFails
  BY <1>0, <1>15 DEF PublishFails, PublisherGoes, IInv, Displayed
<1>16. CASE PublisherRetries
  BY <1>0, <1>16 DEF PublisherRetries, PublisherGoes, IInv, Displayed
<1>17. CASE CloseStops
  BY <1>0, <1>17 DEF CloseStops, service, IInv, Displayed
<1>18. CASE CloseCancels
  BY <1>0, <1>18 DEF CloseCancels, IInv, Displayed
<1>19. CASE Dies
  BY <1>0, <1>19 DEF Dies, service, IInv, Displayed
<1>20. CASE Restarts
  BY <1>0, <1>20 DEF Restarts, Fresh, IInv, Displayed
<1>21. CASE RestartsUnreadable
  BY <1>0, <1>21 DEF RestartsUnreadable, Fresh, IInv, Displayed
<1>22. CASE Second
  BY <1>0, <1>22 DEF Second, IInv, Displayed
<1>23. QED
  BY <1>1, <1>2, <1>3, <1>4, <1>5, <1>6, <1>7, <1>8, <1>9, <1>10, <1>11, <1>12, <1>13, <1>14, <1>15, <1>16, <1>17, <1>18, <1>19, <1>20, <1>21, <1>22 DEF Next

LEMMA Invariance == Spec => []IInv
<1>1. IInv /\ [Next]_vars => IInv'
  BY NextKeepsTypes, NextKeepsOneRing, NextKeepsWord,
     NextKeepsDisplayed DEF IInv
<1>2. QED
  BY InitIInv, <1>1, PTL DEF Spec

-----------------------------------------------------------------------------
\* Types, and the ring threads in order: whatever is commanded, fails, dies and
\* restarts, no second thread ever chimes and none that was stopped goes on.
THEOREM OneThreadRings == Spec => []WellFormed
<1>1. IInv => WellFormed
  BY DEF IInv, WellFormed
<1>2. QED
  BY Invariance, <1>1, PTL

\* From the moment the user is told that a timer is set until it is due, is changed by
\* another command or the file cannot be read at a restart, there is a timer in the
\* file, and it is the very countdown that memory has, or had when the process died:
\* for every countdown and every number of crashes.  What the file holds when nothing is promised is not said.
THEOREM PromisesAreOnDisk == Spec => [](PromiseOnDisk /\ PromisedIsSaved)
<1>1. IInv => PromiseOnDisk /\ PromisedIsSaved
  BY DEF IInv
<1>2. QED
  BY Invariance, <1>1, PTL

\* A timer the user was told is cancelled or stopped is gone from memory and from
\* disk, and no crash brings it back.
THEOREM DismissedTimersAreGone == Spec => []DismissedIsGone
<1>1. IInv => DismissedIsGone
  BY DEF IInv
<1>2. QED
  BY Invariance, <1>1, PTL

=============================================================================
