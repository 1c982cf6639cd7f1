-------------------------- MODULE ProgramsProofs --------------------------
(***************************************************************************)
(* Theorems about the programs of MCPrograms, for every value of their     *)
(* parameters: first of HomeAgent, then of LocalMode, of StandaloneClient  *)
(* and of RemotePlanner, and at the end of all of them together, with      *)
(* those that WyomingAdapterProofs has of the adapter.                     *)
(***************************************************************************)
EXTENDS MCPrograms, FiniteSetTheorems, WellFoundedInduction, TLAPS

\* A function on 1..n is a sequence of length n.
LEMMA FunctionIsSequence ==
  ASSUME NEW S, NEW n \in Nat, NEW f \in [1..n -> S]
  PROVE  f \in Seq(S) /\ Len(f) = n /\ DOMAIN f = 1..n
  OBVIOUS

\* Appending keeps the old elements in place and puts the new one last.
LEMMA AppendElements ==
  ASSUME NEW S, NEW s \in Seq(S), NEW e \in S
  PROVE  /\ Append(s, e) \in Seq(S)
         /\ Len(Append(s, e)) = Len(s) + 1
         /\ \A i \in 1..Len(s) : Append(s, e)[i] = s[i]
         /\ Append(s, e)[Len(s) + 1] = e
  OBVIOUS

\* Sequences of the same length with the same elements are equal.
LEMMA SameElements ==
  ASSUME NEW S, NEW s \in Seq(S), NEW t \in Seq(S), Len(s) = Len(t),
         \A i \in 1..Len(s) : s[i] = t[i]
  PROVE  s = t
  OBVIOUS

-----------------------------------------------------------------------------
(***************************************************************************)
(* The inductive invariant.  The refinement needs that the tools on offer  *)
(* are all allowed by the text, since a plan is compared with them only,   *)
(* and that the calls made are the first ones of the plan, so that as many *)
(* calls as planned are the plan.  The reply needs that a failure is known *)
(* only while a call is under way or ended the request.                    *)
(***************************************************************************)
OffersOnlyAllowed == schemas \subseteq Selectable(text)

MadeInOrder == /\ Len(made) <= Len(plan)
               /\ \A i \in 1..Len(made) : made[i] = plan[i]
               /\ at \in Planning => made = <<>>

Told == told \/ filled = Room

FailureIsCurrent == /\ at \in Planning \cup {"shortcut", "ready"} => ~failed
                    /\ at = "calling" /\ got /\ failed => Told
                    /\ at = "answered" /\ failed => Told

IInv == TypeOK /\ OffersOnlyAllowed /\ MadeInOrder /\ FailureIsCurrent

\* What validate_plan accepts is a sequence of allowed calls, none twice.
LEMMA AcceptedPlans ==
  ASSUME TypeOK, OffersOnlyAllowed, NEW r \in Response, NEW stage, Accepted(r, stage)
  PROVE  /\ Coerce(r.calls) \in Seq(Allowed)
         /\ Coerce(r.calls) \in Seq(Call)
         /\ Promise!NoneTwice(Coerce(r.calls))
<1>1. PICK n \in 0..(MaxCalls + 1) : r.calls \in [1..n -> RawCall]
  BY DEF Response
<1>2. n \in Nat
  BY <1>1, AgentAssumption
<1>3. DOMAIN r.calls = 1..n
  BY <1>1
<1>4. \A i \in 1..n : /\ r.calls[i] \in RawCall
                      /\ r.calls[i].tool \in schemas
                      /\ Coerced[r.calls[i].arg] # Invalid
  BY <1>1, <1>3 DEF Accepted
<1>5. ASSUME NEW i \in 1..n
      PROVE  [r.calls[i] EXCEPT !.arg = Coerced[@]] \in Allowed
  <2>1. /\ r.calls[i].tool \in Tool /\ r.calls[i].arg \in Arg
        /\ [r.calls[i] EXCEPT !.arg = Coerced[@]]
             = [tool |-> r.calls[i].tool, arg |-> Coerced[r.calls[i].arg]]
    BY <1>4 DEF RawCall
  <2>2. Coerced[r.calls[i].arg] \in {Coerced[a] : a \in Arg} \ {Invalid}
    BY <1>4, <2>1
  <2>3. r.calls[i].tool \in Selectable(text)
    BY <1>4 DEF OffersOnlyAllowed
  <2>4. QED
    BY <2>1, <2>2, <2>3 DEF Allowed, Call
<1>6. Coerce(r.calls) \in [1..n -> Allowed]
  BY <1>3, <1>5 DEF Coerce
<1>7. Coerce(r.calls) \in Seq(Allowed) /\ Len(Coerce(r.calls)) = n /\ DOMAIN Coerce(r.calls) = 1..n
  BY <1>2, <1>6, FunctionIsSequence
<1>8. Coerce(r.calls) \in [1..n -> Call]
  BY <1>6 DEF Allowed
<1>9. Coerce(r.calls) \in Seq(Call)
  BY <1>2, <1>8, FunctionIsSequence
<1>10. Promise!NoneTwice(Coerce(r.calls))
  BY <1>7 DEF Accepted, Promise!NoneTwice
<1>11. QED
  BY <1>7, <1>9, <1>10

\* The next call of a plan is one of it, and the calls made stay its first ones.
LEMMA NextCall ==
  ASSUME TypeOK, MadeInOrder, Len(made) < Len(plan),
         NEW next, next = Append(made, plan[Len(made) + 1])
  PROVE  /\ next \in Seq(Call) /\ Len(next) <= Len(plan)
         /\ \A i \in 1..Len(next) : next[i] = plan[i]
<1>1. /\ made \in Seq(Call) /\ plan \in Seq(Call)
      /\ Len(made) \in Nat /\ Len(plan) \in Nat
  BY DEF TypeOK
<1>2. Len(made) + 1 \in 1..Len(plan) /\ plan[Len(made) + 1] \in Call
  BY <1>1
<1>3. /\ next \in Seq(Call) /\ Len(next) = Len(made) + 1
      /\ \A i \in 1..Len(made) : next[i] = made[i]
      /\ next[Len(made) + 1] = plan[Len(made) + 1]
  BY <1>1, <1>2, AppendElements
<1>4. QED
  BY <1>1, <1>2, <1>3 DEF MadeInOrder

\* A part of the reply keeps what was said, and a warning is said or cut off.
LEMMA Saying ==
  ASSUME TypeOK, NEW warning \in BOOLEAN, Say(warning)
  PROVE  /\ told' \in BOOLEAN /\ filled' \in 0..Room
         /\ Told => Told'
         /\ warning => Told'
<1>1. filled \in 0..Room /\ told \in BOOLEAN /\ Room \in Nat
  BY AgentAssumption DEF TypeOK
<1>2. PICK n \in 1..Room : /\ filled' = IF filled + n > Room THEN Room ELSE filled + n
                           /\ told' = (told \/ (warning /\ filled + n <= Room))
  BY DEF Say
<1>3. filled' \in 0..Room /\ (filled = Room => filled' = Room)
      /\ (~(filled + n <= Room) => filled' = Room)
  BY <1>1, <1>2
<1>4. told' \in BOOLEAN /\ (told => told') /\ (warning /\ filled + n <= Room => told')
  BY <1>2, Zenon
<1>5. QED
  BY <1>3, <1>4, Zenon DEF Told

-----------------------------------------------------------------------------
LEMMA InitIInv == Init => IInv
<1> SUFFICES ASSUME Init PROVE IInv
  OBVIOUS
<1>1. text \in Text /\ schemas \subseteq Tool
  BY DEF Init, Text
<1>2. plan \in Seq(Call) /\ made \in Seq(Call) /\ Len(made) = 0 /\ Len(plan) = 0
  BY DEF Init
<1>3. filled \in 0..Room
  BY AgentAssumption DEF Init
<1>4. TypeOK
  BY <1>1, <1>2, <1>3 DEF Init, TypeOK, Planning
<1>5. OffersOnlyAllowed
  BY DEF Init, OffersOnlyAllowed
<1>6. MadeInOrder
  BY <1>2 DEF Init, MadeInOrder
<1>7. FailureIsCurrent
  BY DEF Init, FailureIsCurrent, Planning
<1>8. QED
  BY <1>4, <1>5, <1>6, <1>7 DEF IInv

\* The steps that leave plan, calls and reply alone.
LEMMA PlanningKeepsIInv ==
  ASSUME IInv, NeedleFails \/ Repair \/ RetryFails \/ ProposalFails \/ Shortcut
  PROVE  IInv'
<1>1. /\ UNCHANGED <<text, schemas, keyed, plan, made, failed, got, filled, told>>
      /\ local' \in BOOLEAN
      /\ at \in Planning \cup {"shortcut"}
      /\ at' \in Planning => at \in Planning
      /\ at' \in Planning \cup {"answered"}
  BY DEF NeedleFails, Repair, RetryFails, ProposalFails, Shortcut, After, Planning,
         request, speech, IInv, TypeOK
<1>2. TypeOK'
  BY <1>1 DEF IInv, TypeOK
<1>3. OffersOnlyAllowed'
  BY <1>1 DEF IInv, OffersOnlyAllowed, Selectable, ReadOnly
<1>4. MadeInOrder'
  BY <1>1 DEF IInv, MadeInOrder
<1>5. FailureIsCurrent'
  BY <1>1 DEF IInv, FailureIsCurrent, Planning, Told
<1>6. QED
  BY <1>2, <1>3, <1>4, <1>5 DEF IInv

LEMMA NextKeepsIInv == IInv /\ [Next]_vars => IInv'
<1> SUFFICES ASSUME IInv, [Next]_vars PROVE IInv'
  OBVIOUS
<1>1. CASE Ask
  <2>1. /\ text' \in Text /\ schemas' \in Selected(text') /\ local' = TRUE /\ keyed' = keyed
        /\ at' \in {"needle", "shortcut"}
        /\ plan' = <<>> /\ made' = <<>> /\ failed' = FALSE /\ got' = FALSE
        /\ filled' = 0 /\ told' = FALSE
    BY <1>1 DEF Ask
  <2>2. schemas' \subseteq Selectable(text') /\ schemas' \subseteq Tool
    BY <2>1, AgentAssumption DEF Selected, Selectable
  <2>3. plan' \in Seq(Call) /\ made' \in Seq(Call) /\ Len(made') = 0 /\ Len(plan') = 0
    BY <2>1
  <2>4. filled' \in 0..Room
    BY <2>1, AgentAssumption
  <2>5. keyed' \in BOOLEAN
    BY <2>1 DEF IInv, TypeOK
  <2>6. TypeOK'
    BY <2>1, <2>2, <2>3, <2>4, <2>5 DEF TypeOK, Planning
  <2>7. OffersOnlyAllowed'
    BY <2>2 DEF OffersOnlyAllowed, Selectable, ReadOnly
  <2>8. MadeInOrder'
    BY <2>1, <2>3 DEF MadeInOrder
  <2>9. FailureIsCurrent'
    BY <2>1 DEF FailureIsCurrent, Planning
  <2>10. QED
    BY <2>6, <2>7, <2>8, <2>9 DEF IInv
<1>2. CASE NeedleFails \/ Repair \/ RetryFails \/ ProposalFails \/ Shortcut
  BY <1>2, PlanningKeepsIInv
<1>3. ASSUME NEW stage \in Planning, Accept(stage)
      PROVE  IInv'
  <2>1. /\ UNCHANGED <<text, schemas, keyed, local, made, failed, got, filled, told>>
        /\ at \in Planning /\ at' = "ready"
    BY <1>3 DEF Accept, request, speech
  <2>2. plan' \in Seq(Call)
    BY <1>3, AcceptedPlans DEF Accept, IInv
  <2>3. TypeOK'
    BY <2>1, <2>2 DEF IInv, TypeOK
  <2>4. OffersOnlyAllowed'
    BY <2>1 DEF IInv, OffersOnlyAllowed, Selectable, ReadOnly
  <2>5. MadeInOrder'
    <3>1. made' = <<>> /\ Len(made') = 0 /\ Len(plan') \in Nat
      BY <2>1, <2>2 DEF IInv, MadeInOrder
    <3>2. QED
      BY <2>1, <3>1 DEF MadeInOrder, Planning
  <2>6. FailureIsCurrent'
    BY <2>1 DEF IInv, FailureIsCurrent, Planning
  <2>7. QED
    BY <2>3, <2>4, <2>5, <2>6 DEF IInv
<1>4. CASE Begin
  <2>1. /\ UNCHANGED <<text, schemas, keyed, local, plan, filled, told>>
        /\ at = "ready" /\ at' = "calling" /\ Len(made) < Len(plan)
        /\ made' = Append(made, plan[Len(made) + 1])
        /\ failed' = TRUE /\ got' = FALSE
    BY <1>4 DEF Begin, request, speech
  <2>2. /\ made' \in Seq(Call) /\ Len(made') <= Len(plan)
        /\ \A i \in 1..Len(made') : made'[i] = plan[i]
    BY <2>1, NextCall DEF IInv
  <2>3. TypeOK'
    BY <2>1, <2>2 DEF IInv, TypeOK
  <2>4. OffersOnlyAllowed'
    BY <2>1 DEF IInv, OffersOnlyAllowed, Selectable, ReadOnly
  <2>5. MadeInOrder'
    BY <2>1, <2>2 DEF MadeInOrder, Planning
  <2>6. FailureIsCurrent'
    BY <2>1 DEF FailureIsCurrent, Planning
  <2>7. QED
    BY <2>3, <2>4, <2>5, <2>6 DEF IInv
<1>5. ASSUME NEW error \in BOOLEAN, at = "calling", got' = TRUE, failed' = error, Say(error),
             UNCHANGED <<at, request, plan, made>>
      PROVE  IInv'
  <2>1. UNCHANGED <<at, text, schemas, keyed, local, plan, made>>
    BY <1>5 DEF request
  <2>2. told' \in BOOLEAN /\ filled' \in 0..Room /\ (error => Told')
    BY <1>5, Saying DEF IInv
  <2>3. TypeOK'
    <3>1. failed' \in BOOLEAN /\ got' \in BOOLEAN
      BY <1>5
    <3>2. QED
      BY <2>1, <2>2, <3>1 DEF IInv, TypeOK
  <2>4. OffersOnlyAllowed'
    BY <2>1 DEF IInv, OffersOnlyAllowed, Selectable, ReadOnly
  <2>5. MadeInOrder'
    BY <2>1 DEF IInv, MadeInOrder
  <2>6. FailureIsCurrent'
    BY <1>5, <2>1, <2>2 DEF FailureIsCurrent, Planning
  <2>7. QED
    BY <2>3, <2>4, <2>5, <2>6 DEF IInv
<1>6. CASE CallEnds
  <2>1. /\ at = "calling" /\ at' = IF failed THEN "answered" ELSE "ready"
        /\ UNCHANGED <<text, schemas, keyed, local, plan, made, failed, got>>
    BY <1>6 DEF CallEnds, request
  <2>2. told' \in BOOLEAN /\ filled' \in 0..Room /\ (failed => Told')
    <3>1. CASE got
      <4>1. told' = told /\ filled' = filled
        BY <1>6, <3>1 DEF CallEnds, speech
      <4>2. QED
        BY <2>1, <3>1, <4>1 DEF IInv, TypeOK, FailureIsCurrent, Told
    <3>2. CASE ~got
      BY <1>6, <3>2, Saying DEF CallEnds, IInv
    <3>3. QED
      BY <3>1, <3>2
  <2>3. TypeOK'
    BY <2>1, <2>2 DEF IInv, TypeOK
  <2>4. OffersOnlyAllowed'
    BY <2>1 DEF IInv, OffersOnlyAllowed, Selectable, ReadOnly
  <2>5. MadeInOrder'
    BY <2>1 DEF IInv, MadeInOrder, Planning
  <2>6. FailureIsCurrent'
    BY <2>1, <2>2 DEF FailureIsCurrent, Planning
  <2>7. QED
    BY <2>3, <2>4, <2>5, <2>6 DEF IInv
<1>7. CASE PlanningEnds \/ CallBreaks
  <2>1. /\ UNCHANGED <<text, schemas, keyed, local, plan, made, failed, got, filled>>
        /\ at' = "answered" /\ told' = TRUE
    BY <1>7 DEF PlanningEnds, CallBreaks, request
  <2>2. TypeOK'
    BY <2>1 DEF IInv, TypeOK
  <2>3. OffersOnlyAllowed'
    BY <2>1 DEF IInv, OffersOnlyAllowed, Selectable, ReadOnly
  <2>4. MadeInOrder'
    BY <2>1 DEF IInv, MadeInOrder, Planning
  <2>5. FailureIsCurrent'
    BY <2>1 DEF FailureIsCurrent, Planning, Told
  <2>6. QED
    BY <2>2, <2>3, <2>4, <2>5 DEF IInv
<1>8. CASE Finish \/ UNCHANGED vars
  <2>1. /\ UNCHANGED <<text, schemas, keyed, local, plan, made, failed, got, filled, told>>
        /\ \/ at = "ready" /\ at' = "answered"
           \/ at' = at
    BY <1>8 DEF Finish, vars, request, speech
  <2>2. TypeOK'
    BY <2>1 DEF IInv, TypeOK
  <2>3. OffersOnlyAllowed'
    BY <2>1 DEF IInv, OffersOnlyAllowed, Selectable, ReadOnly
  <2>4. MadeInOrder'
    BY <2>1 DEF IInv, MadeInOrder, Planning
  <2>5. FailureIsCurrent'
    BY <2>1 DEF IInv, FailureIsCurrent, Planning, Told
  <2>6. QED
    BY <2>2, <2>3, <2>4, <2>5 DEF IInv
<1>9. QED
  BY <1>1, <1>2, <1>3, <1>4, <1>5, <1>6, <1>7, <1>8 DEF Next, Handle, Stages, Result

\* The variables of the handler keep their types: its place among the stages, the
\* calls of plan and execution with coerced arguments, the length of the reply.
THEOREM TypeCorrect == Spec => []TypeOK
<1>1. IInv => TypeOK
  BY DEF IInv
<1>2. QED
  BY InitIInv, NextKeepsIInv, <1>1, PTL DEF Spec

\* A call that is not known to have succeeded is told, or the reply is full: for
\* every number of calls and results and every length of what they say.
THEOREM FailuresAreTold == Spec => []FailureIsTold
<1>1. IInv => FailureIsTold
  BY DEF IInv, FailureIsCurrent, FailureIsTold, Told
<1>2. QED
  BY InitIInv, NextKeepsIInv, <1>1, PTL DEF Spec

-----------------------------------------------------------------------------
(***************************************************************************)
(* The refinement.  Planning is one step of PlannedRequest, so that every  *)
(* stage but the last is a stutter; so are the results of a call.  The     *)
(* end of a call is Succeed or Answer, and every deadline an Answer.       *)
(***************************************************************************)
LEMMA InitRefines == Init => Promise!RequestInit
<1> SUFFICES ASSUME Init PROVE Promise!RequestInit
  OBVIOUS
<1>1. Phase = "answered"
  BY DEF Init, Phase, Planning
<1>2. Allowed \subseteq Call
  BY DEF Allowed
<1>3. QED
  BY <1>1, <1>2 DEF Init, Promise!RequestInit

LEMMA NextRefines == IInv /\ [Next]_vars => [Promise!RequestNext]_(Promise!requestVars)
<1> SUFFICES ASSUME IInv, [Next]_vars
             PROVE  Promise!RequestNext \/ UNCHANGED Promise!requestVars
  OBVIOUS
<1> USE DEF Promise!requestVars, Promise!RequestNext
<1>1. text' = text => Allowed' = Allowed
  BY DEF Allowed, Selectable, ReadOnly
<1>2. CASE Ask
  <2>1. /\ Phase = "answered" /\ Phase' = "asked"
        /\ plan' = <<>> /\ made' = <<>>
    BY <1>2 DEF Ask, Phase, Planning
  <2>2. Allowed' \in SUBSET Call
    BY DEF Allowed
  <2>3. QED
    BY <2>1, <2>2 DEF Promise!Ask
<1>3. CASE NeedleFails \/ Repair \/ RetryFails \/ ProposalFails \/ Shortcut
  <2>1. /\ UNCHANGED <<text, plan, made>>
        /\ at \in Planning \cup {"shortcut"}
        /\ at' \in Planning \cup {"answered"}
    BY <1>3 DEF NeedleFails, Repair, RetryFails, ProposalFails, Shortcut, After, Planning, request
  <2>2. Phase = "asked" /\ Phase' \in {"asked", "answered"}
    BY <2>1 DEF Phase, Planning
  <2>3. QED
    BY <1>1, <2>1, <2>2 DEF Promise!Answer
<1>4. ASSUME NEW stage \in Planning, Accept(stage)
      PROVE  Promise!Plan
  <2>1. UNCHANGED <<text, made>> /\ at \in Planning /\ at' = "ready"
    BY <1>4 DEF Accept, request
  <2>2. plan' \in Seq(Allowed) /\ Promise!NoneTwice(plan')
    BY <1>4, AcceptedPlans DEF Accept, IInv
  <2>3. Phase = "asked" /\ Phase' = "ready"
    BY <2>1 DEF Phase, Planning
  <2>4. QED
    BY <1>1, <2>1, <2>2, <2>3 DEF Promise!Plan
<1>5. CASE Begin
  <2>1. /\ UNCHANGED <<text, plan>> /\ at = "ready" /\ at' = "calling"
        /\ Len(made) < Len(plan) /\ made' = Append(made, plan[Len(made) + 1])
    BY <1>5 DEF Begin, request
  <2>2. Phase = "ready" /\ Phase' = "waiting"
    BY <2>1 DEF Phase, Planning
  <2>3. QED
    BY <1>1, <2>1, <2>2 DEF Promise!Make
<1>6. CASE Result
  <2>1. UNCHANGED <<at, text, plan, made>>
    BY <1>6 DEF Result, request
  <2>2. QED
    BY <1>1, <2>1 DEF Phase
<1>7. CASE CallEnds \/ CallBreaks
  <2>1. /\ UNCHANGED <<text, plan, made>>
        /\ at = "calling" /\ at' \in {"answered", "ready"}
    BY <1>7 DEF CallEnds, CallBreaks, request
  <2>2. Phase = "waiting" /\ Phase' \in {"answered", "ready"}
    BY <2>1 DEF Phase, Planning
  <2>3. QED
    BY <1>1, <2>1, <2>2 DEF Promise!Succeed, Promise!Answer
<1>8. CASE PlanningEnds
  <2>1. UNCHANGED <<text, plan, made>> /\ at \in Planning /\ at' = "answered"
    BY <1>8 DEF PlanningEnds, request
  <2>2. Phase = "asked" /\ Phase' = "answered"
    BY <2>1 DEF Phase, Planning
  <2>3. QED
    BY <1>1, <2>1, <2>2 DEF Promise!Answer
<1>9. CASE Finish
  <2>1. /\ UNCHANGED <<text, plan, made>>
        /\ at = "ready" /\ at' = "answered" /\ Len(made) = Len(plan)
    BY <1>9 DEF Finish, request
  <2>2. made = plan
    BY <2>1, SameElements DEF IInv, TypeOK, MadeInOrder
  <2>3. Phase = "ready" /\ Phase' = "answered"
    BY <2>1 DEF Phase, Planning
  <2>4. QED
    BY <1>1, <2>1, <2>2, <2>3 DEF Promise!Answer
<1>10. CASE UNCHANGED vars
  <2>1. UNCHANGED <<at, text, plan, made>>
    BY <1>10 DEF vars, request
  <2>2. QED
    BY <1>1, <2>1 DEF Phase
<1>11. QED
  BY <1>2, <1>3, <1>4, <1>5, <1>6, <1>7, <1>8, <1>9, <1>10 DEF Next, Handle, Stages

\* The agent keeps its promise whatever the models propose and the tools do, for
\* every set of tools and every schema: a message is planned once and completely,
\* with tools its own words allow, and the calls are made in order, none twice,
\* none after one that is not known to have succeeded.
THEOREM AgentKeepsItsPromise == Spec => ImplementsPlannedRequest
BY InitIInv, NextKeepsIInv, InitRefines, NextRefines, PTL
   DEF Spec, ImplementsPlannedRequest, Promise!RequestSpec

-----------------------------------------------------------------------------
(***************************************************************************)
(* LocalMode.  An open session has lost nothing, its text is held back as  *)
(* long as it is in doubt, and once it is verified it is trusted and has   *)
(* the last line; a recording has an open session.  What the recognizer    *)
(* was given can be anything.                                              *)
(***************************************************************************)
IsSession(s) == s \in [open : BOOLEAN, pending : {s.pending}, verified : BOOLEAN,
                       left : {s.left}, before : {s.before}]

IsPast(p) == p \in [trusted : BOOLEAN, broken : BOOLEAN, acted : {p.acted},
                    settled : BOOLEAN, calm : {p.calm}]

IsPage(g) == g \in [line : {"none", "current", "earlier"}, held : BOOLEAN]

IsDetector(d) == d \in [armed : BOOLEAN, hits : {d.hits}, keyword : {d.keyword},
                        quiet : 0..Rearm, cooldown : {d.cooldown}]

Shapes == IsSession(session) /\ IsPast(past) /\ IsPage(page)

\* The session s with the history p and the page g.
Authorized(s, p, g) ==
  s.open => /\ ~p.broken
            /\ g.held = ~s.verified
            /\ s.verified => p.trusted /\ g.line = "current"

Commands == sending > 0 => /\ past.trusted /\ ~past.broken /\ ~session.open
                           /\ page = [line |-> "current", held |-> FALSE]

\* Until it was quiet for long enough the detector has counted as much of the
\* quiet as there was, and is not armed.
DetectorWaits ==
  /\ IsDetector(det) /\ det.quiet \in 0..Rearm /\ past.calm \in Nat
  /\ det.armed => past.settled
  /\ ~past.settled => past.calm = det.quiet /\ det.quiet < Rearm

LocalInv == /\ Shapes /\ Commands
            /\ Authorized(session, past, page)
            /\ rec.active => session.open

\* What the conversation's operators leave of a session.
LEMMA Sessions ==
  ASSUME NEW s, IsSession(s)
  PROVE  /\ IsSession(Local!Later(s)) /\ IsSession(Local!Closed(s))
         /\ Local!Later(s).open = s.open /\ Local!Later(s).verified = s.verified
         /\ Local!Closed(s).open = FALSE /\ Local!Closed(s).verified = s.verified
<1>1. IsSession(Local!Later(s)) /\ Local!Later(s).open = s.open
      /\ Local!Later(s).verified = s.verified
  <2> DEFINE t == [s EXCEPT !.left = Local!Less(s.left, -1)]
  <2>1. IsSession(t) /\ t.open = s.open /\ t.verified = s.verified
    BY DEF IsSession
  <2>2. Local!Later(s) = [t EXCEPT !.before = Local!Less(s.before, -1)]
    BY DEF Local!Later, IsSession
  <2>3. QED
    BY <2>1, <2>2 DEF IsSession
<1>2. IsSession(Local!Closed(s)) /\ Local!Closed(s).open = FALSE
      /\ Local!Closed(s).verified = s.verified
  <2> DEFINE t == [s EXCEPT !.open = FALSE]
  <2>1. IsSession(t) /\ t.open = FALSE /\ t.verified = s.verified
    BY DEF IsSession
  <2>2. Local!Closed(s) = [t EXCEPT !.pending = {}]
    BY DEF Local!Closed
  <2>3. QED
    BY <2>1, <2>2 DEF IsSession
<1>3. QED
  BY <1>1, <1>2

\* A text can confirm the session, its page and the trust in it at once.
LEMMA Confirming ==
  ASSUME NEW s, IsSession(s), NEW heardAs, heardAs.wake \in BOOLEAN
  PROVE  /\ IsSession(Local!Confirmed(s, heardAs))
         /\ Local!Confirmed(s, heardAs).open = s.open
         /\ Local!Confirmed(s, heardAs).verified = (s.verified \/ heardAs.wake)
  BY DEF IsSession, Local!Confirmed

LEMMA Histories ==
  ASSUME NEW score, IsPast(past)
  PROVE  /\ IsPast(Local!Calmer(score))
         /\ Local!Calmer(score).trusted = past.trusted
         /\ Local!Calmer(score).broken = past.broken
  BY DEF IsPast, Local!Calmer

LEMMA Trusted ==
  ASSUME NEW p, IsPast(p), NEW heardAs, heardAs.wake \in BOOLEAN
  PROVE  /\ IsPast(Local!Trust(p, heardAs))
         /\ Local!Trust(p, heardAs).trusted = (p.trusted \/ heardAs.wake)
         /\ Local!Trust(p, heardAs).broken = p.broken
         /\ Local!Trust(p, heardAs).settled = p.settled
         /\ Local!Trust(p, heardAs).calm = p.calm
  BY DEF IsPast, Local!Trust

LEMMA Texts == ASSUME NEW r, NEW heardAs \in Local!Transcripts(r) PROVE heardAs.wake \in BOOLEAN
<1>1. \E w : heardAs = [wake |-> FALSE, words |-> w] \/ heardAs = [wake |-> TRUE, words |-> w]
  BY DEF Local!Transcripts
<1>2. heardAs.wake = FALSE \/ heardAs.wake = TRUE
  BY <1>1
<1>3. QED
  BY <1>2

LEMMA LocalInitIsRight == Local!Init => LocalInv
<1> SUFFICES ASSUME Local!Init PROVE LocalInv
  OBVIOUS
<1>1. Shapes
  BY DEF Local!Init, Shapes, IsSession, IsPast, IsPage
<1>2. QED
  BY <1>1 DEF Local!Init, LocalInv, Commands, Authorized, Local!NoRecording

LEMMA Dropping ==
  ASSUME IsPage(page)
  PROVE  IsPage(Local!Dropped(page)) /\ Local!Dropped(page).held = FALSE
  BY DEF IsPage, Local!Dropped

LEMMA Lines ==
  ASSUME NEW strong \in BOOLEAN
  PROVE  /\ IsPage(Local!PageOf(strong))
         /\ Local!PageOf(strong).held = ~strong
         /\ strong => Local!PageOf(strong).line = "current"
<1>1. CASE strong
  BY <1>1 DEF IsPage, Local!PageOf
<1>2. CASE ~strong
  BY <1>2 DEF IsPage, Local!PageOf
<1>3. QED
  BY <1>1, <1>2

\* A text that the recognizer gives for a session that stays open.
LEMMA HeardIsRight ==
  ASSUME Shapes, Authorized(session, past, page), NEW s, IsSession(s),
         s.open = session.open, s.verified = session.verified,
         NEW score, NEW heardAs, heardAs.wake \in BOOLEAN
  PROVE  /\ IsPage(Local!ConfirmedPage(heardAs))
         /\ Local!ConfirmedPage(heardAs).held \in BOOLEAN
         /\ Authorized(Local!Confirmed(s, heardAs), Local!Trust(Local!Calmer(score), heardAs),
                       Local!ConfirmedPage(heardAs))
<1>1. /\ Local!Confirmed(s, heardAs).open = session.open
      /\ Local!Confirmed(s, heardAs).verified = (session.verified \/ heardAs.wake)
  BY Confirming DEF Shapes
<1>2. /\ Local!Trust(Local!Calmer(score), heardAs).trusted = (past.trusted \/ heardAs.wake)
      /\ Local!Trust(Local!Calmer(score), heardAs).broken = past.broken
  BY Histories, Trusted DEF Shapes
<1>3. Local!ConfirmedPage(heardAs)
        = IF ~session.verified /\ heardAs.wake THEN [line |-> "current", held |-> FALSE] ELSE page
  BY DEF Local!ConfirmedPage
<1>4. CASE ~session.verified /\ heardAs.wake
  <2>1. Local!ConfirmedPage(heardAs) = [line |-> "current", held |-> FALSE]
    BY <1>3, <1>4
  <2>2. /\ IsPage(Local!ConfirmedPage(heardAs))
        /\ Local!ConfirmedPage(heardAs).held = FALSE
        /\ Local!ConfirmedPage(heardAs).line = "current"
    BY <2>1 DEF IsPage
  <2>3. QED
    BY <1>1, <1>2, <1>4, <2>2 DEF Authorized, Shapes
<1>5. CASE ~(~session.verified /\ heardAs.wake)
  <2>1. Local!ConfirmedPage(heardAs) = page
    BY <1>3, <1>5
  <2>2. Local!Confirmed(s, heardAs).verified = session.verified
    BY <1>1, <1>5 DEF Shapes, IsSession
  <2>3. Local!Trust(Local!Calmer(score), heardAs).trusted = (past.trusted \/ heardAs.wake)
    BY <1>2
  <2>4. QED
    BY <1>1, <1>2, <2>1, <2>2 DEF Authorized, Shapes, IsPage
<1>6. QED
  BY <1>4, <1>5

LEMMA PartialKeepsLocalInv ==
  ASSUME LocalInv, sending = 0, NEW s, IsSession(s), s.open, s.open = session.open,
         s.verified = session.verified, NEW r, NEW score, Local!Partial(s, r, score)
  PROVE  LocalInv'
<1>1. PICK heardAs \in Local!Transcripts(r) :
        /\ session' = Local!Confirmed(s, heardAs)
        /\ page' = Local!ConfirmedPage(heardAs)
        /\ past' = Local!Trust(Local!Calmer(score), heardAs)
        /\ UNCHANGED sending
  BY DEF Local!Partial
<1>2. heardAs.wake \in BOOLEAN
  BY Texts
<1>3. /\ IsSession(session') /\ session'.open = session.open
      /\ session'.verified = (session.verified \/ heardAs.wake)
  BY <1>1, <1>2, Confirming DEF LocalInv, Shapes
<1>4. /\ IsPast(past') /\ past'.trusted = (past.trusted \/ heardAs.wake)
      /\ past'.broken = past.broken
  BY <1>1, <1>2, Histories, Trusted DEF LocalInv, Shapes
<1>5. IsPage(page') /\ page'.held \in BOOLEAN /\ Authorized(session', past', page')
  BY <1>1, <1>2, HeardIsRight DEF LocalInv
<1>6. Shapes'
  BY <1>3, <1>4, <1>5 DEF LocalInv, Shapes
<1>7. Commands' /\ session'.open
  BY <1>1, <1>3 DEF Commands
<1>8. QED
  BY <1>5, <1>6, <1>7 DEF LocalInv

\* The recording is given up, and the session with it.
LEMMA ClosingKeepsLocalInv ==
  ASSUME LocalInv, sending = 0, sending' = 0, IsSession(session'), session'.open = FALSE,
         IsPast(past'), page' = Local!Dropped(page), ~rec'.active
  PROVE  LocalInv'
<1>1. Shapes'
  BY Dropping DEF LocalInv, Shapes
<1>2. QED
  BY <1>1 DEF LocalInv, Commands, Authorized

LEMMA WakeKeepsLocalInv ==
  ASSUME LocalInv, sending = 0, NEW strong \in BOOLEAN, Local!Wake(strong)
  PROVE  LocalInv'
<1>1. /\ session' = Local!Activated(strong) /\ page' = Local!PageOf(strong)
      /\ past' = [past EXCEPT !.trusted = strong, !.broken = FALSE, !.settled = FALSE, !.calm = 0]
      /\ sending' = 0
  BY DEF Local!Wake
<1>2. IsSession(session') /\ session'.open = TRUE /\ session'.verified = strong
  BY <1>1 DEF Local!Activated, IsSession
<1>3. IsPast(past') /\ past'.trusted = strong /\ past'.broken = FALSE
  BY <1>1 DEF LocalInv, Shapes, IsPast
<1>4. IsPage(page') /\ page'.held = ~strong /\ (strong => page'.line = "current")
  BY <1>1, Lines DEF LocalInv, Shapes
<1>5. Shapes'
  BY <1>2, <1>3, <1>4 DEF Shapes
<1>6. QED
  BY <1>1, <1>2, <1>3, <1>4, <1>5 DEF LocalInv, Commands, Authorized

LEMMA IdleKeepsLocalInv ==
  ASSUME LocalInv, sending = 0, NEW score, Local!Idle(score)
  PROVE  LocalInv'
<1> DEFINE s == Local!Later(session)
<1>1. /\ IsSession(s) /\ s.open = session.open /\ s.verified = session.verified
      /\ IsSession(Local!Closed(s)) /\ Local!Closed(s).open = FALSE
      /\ Local!Closed(s).verified = session.verified
  BY Sessions DEF LocalInv, Shapes
<1>2. IsPast(past') /\ past'.trusted = past.trusted /\ past'.broken = past.broken
  BY Histories DEF Local!Idle, LocalInv, Shapes
<1>3. ~rec'.active /\ sending' = 0
  BY DEF Local!Idle
<1>4. CASE Local!Expired(s)
  <2>1. session' = Local!Closed(s) /\ page' = Local!Dropped(page)
    BY <1>4 DEF Local!Idle
  <2>2. QED
    BY <1>1, <1>2, <1>3, <2>1, ClosingKeepsLocalInv DEF LocalInv, Shapes
<1>5. CASE ~Local!Expired(s)
  <2>1. session' = s /\ page' = page
    BY <1>5 DEF Local!Idle
  <2>2. Shapes'
    BY <1>1, <1>2, <2>1 DEF LocalInv, Shapes
  <2>3. QED
    BY <1>1, <1>2, <1>3, <2>1, <2>2 DEF LocalInv, Commands, Authorized
<1>6. QED
  BY <1>4, <1>5


LEMMA ResumeKeepsLocalInv ==
  ASSUME LocalInv, sending = 0, NEW score, Local!Resume(score)
  PROVE  LocalInv'
<1> DEFINE s == Local!Later(session)
           t == [s EXCEPT !.before = s.left, !.left = Continuation]
<1>1. s.open /\ Local!Partial(t, rec', score)
  BY DEF Local!Resume
<1>2. IsSession(s) /\ s.open = session.open /\ s.verified = session.verified
  BY Sessions DEF LocalInv, Shapes
<1>3. IsSession(t) /\ t.open = s.open /\ t.verified = s.verified
  <2> HIDE DEF s
  <2> DEFINE u == [s EXCEPT !.before = s.left]
  <2>1. IsSession(u) /\ u.open = s.open /\ u.verified = s.verified
    BY <1>2 DEF IsSession
  <2>2. t = [u EXCEPT !.left = Continuation]
    OBVIOUS
  <2> HIDE DEF t, u
  <2>3. QED
    BY <2>1, <2>2 DEF IsSession
<1>4. QED
  BY <1>1, <1>2, <1>3, PartialKeepsLocalInv

LEMMA RecordKeepsLocalInv ==
  ASSUME LocalInv, sending = 0, NEW score, NEW r, Local!Record(score, r)
  PROVE  LocalInv'
<1> DEFINE s == Local!Later(session)
           t == [s EXCEPT !.left = Continuation]
<1>1. rec.active /\ Local!Partial(t, r, score)
  BY DEF Local!Record
<1>2. IsSession(s) /\ s.open = session.open /\ s.verified = session.verified
  BY Sessions DEF LocalInv, Shapes
<1>3. IsSession(t) /\ t.open = s.open /\ t.verified = s.verified
  <2> HIDE DEF s
  <2>1. QED
    BY <1>2 DEF IsSession
<1>4. session.open
  BY <1>1 DEF LocalInv
<1>5. t.open /\ t.open = session.open /\ t.verified = session.verified
  BY <1>2, <1>3, <1>4 DEF LocalInv, Shapes
<1>6. QED
  BY <1>1, <1>3, <1>5, PartialKeepsLocalInv

LEMMA TooLongKeepsLocalInv ==
  ASSUME LocalInv, sending = 0, NEW score, NEW r, Local!TooLong(score, r)
  PROVE  LocalInv'
<1> DEFINE s == Local!Later(session)
<1>1. /\ rec' = Local!NoRecording /\ session' = Local!Closed(s) /\ page' = Local!Dropped(page)
      /\ past' = [Local!Calmer(score) EXCEPT !.broken = TRUE] /\ sending' = 0
  BY DEF Local!TooLong
<1>2. /\ IsSession(session') /\ session'.open = FALSE /\ session'.verified = session.verified
  BY <1>1, Sessions DEF LocalInv, Shapes
<1>3. IsPast(Local!Calmer(score)) /\ Local!Calmer(score).trusted = past.trusted
  BY Histories DEF LocalInv, Shapes
<1>4. IsPast(past') /\ past'.trusted = past.trusted /\ past'.broken = TRUE
  BY <1>1, <1>3 DEF IsPast
<1>5. ~rec'.active
  BY <1>1 DEF Local!NoRecording
<1>6. QED
  BY <1>1, <1>2, <1>4, <1>5, ClosingKeepsLocalInv DEF LocalInv, Shapes

\* What utterance() makes of a session that the text has confirmed: it closes
\* one that has expired or is in doubt, and leaves the others open.
LEMMA Answers ==
  ASSUME NEW s, IsSession(s), NEW heardAs
  PROVE  /\ IsSession(Local!Answered(s, heardAs))
         /\ Local!Answered(s, heardAs).verified = s.verified
         /\ Local!Answered(s, heardAs).open \in BOOLEAN
         /\ Local!Answered(s, heardAs).open => s.open
         /\ Local!Answered(s, heardAs).open => s.verified
<1> DEFINE t == Local!Answered(s, heardAs)
<1>1. CASE Local!Expired(s) \/ ~s.verified
  <2>1. t = Local!Closed(s)
    BY <1>1 DEF Local!Answered, IsSession
  <2>2. QED
    BY <2>1, Sessions
<1>2. CASE ~(Local!Expired(s) \/ ~s.verified) /\ Local!Blank(heardAs)
  <2>1. t = s
    BY <1>2 DEF Local!Answered
  <2>2. QED
    BY <1>2, <2>1 DEF IsSession
<1>3. CASE ~(Local!Expired(s) \/ ~s.verified) /\ ~Local!Blank(heardAs)
  <2>1. PICK words : t = [s EXCEPT !.pending = words]
    BY <1>3 DEF Local!Answered
  <2>2. IsSession(t) /\ t.open = s.open /\ t.verified = s.verified
    BY <2>1 DEF IsSession
  <2>3. QED
    BY <1>3, <2>2 DEF IsSession
<1>4. QED
  BY <1>1, <1>2, <1>3

LEMMA EndKeepsLocalInv ==
  ASSUME LocalInv, sending = 0, NEW score, NEW r, Local!End(score, r)
  PROVE  LocalInv'
<1> DEFINE later == Local!Later(session)
<1>1. PICK heardAs \in Local!Transcripts(r) :
        LET n == IF Local!Blank(heardAs) THEN later.before ELSE Continuation
            s == Local!Answered(Local!Confirmed([later EXCEPT !.left = n], heardAs), heardAs)
        IN /\ page' = IF s.open THEN Local!ConfirmedPage(heardAs) ELSE Local!Dropped(page)
           /\ \/ /\ session' = s /\ sending' = 0
                 /\ past' = Local!Trust(Local!Calmer(score), heardAs)
              \/ /\ s.open
                 /\ session' = Local!Closed(s) /\ sending' \in 0..MaxActions
                 /\ past' = [Local!Trust(Local!Calmer(score), heardAs) EXCEPT !.acted = s.pending]
  BY DEF Local!End
<1> DEFINE n == IF Local!Blank(heardAs) THEN later.before ELSE Continuation
           asked == [later EXCEPT !.left = n]
           known == Local!Confirmed(asked, heardAs)
           s == Local!Answered(known, heardAs)
           p == Local!Trust(Local!Calmer(score), heardAs)
<1>2. heardAs.wake \in BOOLEAN /\ ~rec'.active
  BY Texts DEF Local!End, Local!NoRecording
<1>3. /\ IsSession(asked) /\ asked.open = session.open /\ asked.verified = session.verified
  <2>1. /\ IsSession(later) /\ later.open = session.open /\ later.verified = session.verified
    BY Sessions DEF LocalInv, Shapes
  <2> HIDE DEF later, n
  <2>2. QED
    BY <2>1 DEF IsSession
<1>4. /\ IsSession(known) /\ known.open = session.open
      /\ known.verified = (session.verified \/ heardAs.wake)
  <2> HIDE DEF asked
  <2>1. QED
    BY <1>2, <1>3, Confirming
<1>5. /\ IsSession(s) /\ s.verified = known.verified /\ s.open \in BOOLEAN
      /\ s.open => session.open /\ known.verified
  BY <1>4, Answers DEF LocalInv, Shapes
<1>6. /\ IsPast(p) /\ p.trusted = (past.trusted \/ heardAs.wake) /\ p.broken = past.broken
  BY <1>2, Histories, Trusted DEF LocalInv, Shapes
<1>7. /\ IsPage(Local!ConfirmedPage(heardAs)) /\ Local!ConfirmedPage(heardAs).held \in BOOLEAN
      /\ Authorized(known, p, Local!ConfirmedPage(heardAs))
  <2> HIDE DEF asked
  <2>1. QED
    BY <1>2, <1>3, HeardIsRight DEF LocalInv
<1>8. CASE ~s.open
  <2>1. session' = s /\ sending' = 0 /\ page' = Local!Dropped(page) /\ past' = p
    BY <1>1, <1>8
  <2>2. QED
    BY <1>2, <1>5, <1>6, <1>8, <2>1, ClosingKeepsLocalInv DEF IsSession
<1>9. CASE s.open
  <2>1. page' = Local!ConfirmedPage(heardAs)
    BY <1>1, <1>9
  <2>2. /\ session.open /\ known.open /\ known.verified /\ p.trusted /\ ~p.broken
        /\ page'.line = "current" /\ page'.held = FALSE
    BY <1>4, <1>5, <1>7, <1>9, <2>1 DEF Authorized
  <2>3. CASE session' = s /\ sending' = 0 /\ past' = p
    <3>1. Shapes'
      BY <1>2, <1>4, <1>5, <1>6, <1>7, <1>9, <2>1, <2>3 DEF LocalInv, Shapes
    <3>2. QED
      BY <1>2, <1>5, <2>2, <2>3, <3>1 DEF LocalInv, Commands, Authorized
  <2>4. CASE session' = Local!Closed(s) /\ past' = [p EXCEPT !.acted = s.pending]
    <3>1. IsSession(session') /\ session'.open = FALSE /\ session'.verified = s.verified
      BY <1>5, <2>4, Sessions
    <3>2. IsPast(past') /\ past'.trusted = p.trusted /\ past'.broken = p.broken
      BY <1>6, <2>4 DEF IsPast
    <3>3. Shapes'
      BY <1>2, <1>4, <1>5, <1>6, <1>7, <2>1, <3>1, <3>2 DEF LocalInv, Shapes
    <3>4. page' = [line |-> "current", held |-> FALSE]
      BY <1>7, <2>1, <2>2 DEF IsPage
    <3>5. QED
      BY <1>2, <2>2, <3>1, <3>2, <3>3, <3>4 DEF LocalInv, Commands, Authorized
  <2>5. QED
    BY <1>1, <1>9, <2>3, <2>4
<1>10. QED
  BY <1>8, <1>9

LEMMA TurnKeepsLocalInv == ASSUME LocalInv, Local!Turn PROVE LocalInv'
<1>1. PICK score, sound :
        IF Local!Verdict(score) # "nothing" THEN Local!Wake(Local!Verdict(score) = "detected")
        ELSE \/ Local!Idle(score) \/ Local!Resume(score)
             \/ \E r : Local!Record(score, r) \/ Local!TooLong(score, r) \/ Local!End(score, r)
  BY DEF Local!Turn
<1>2. sending = 0
  BY DEF Local!Turn
<1>3. CASE Local!Verdict(score) # "nothing"
  BY <1>1, <1>2, <1>3, WakeKeepsLocalInv
<1>4. CASE Local!Verdict(score) = "nothing"
  BY <1>1, <1>2, <1>4, IdleKeepsLocalInv, ResumeKeepsLocalInv, RecordKeepsLocalInv,
     TooLongKeepsLocalInv, EndKeepsLocalInv
<1>5. QED
  BY <1>3, <1>4

LEMMA LocalNextKeepsLocalInv == LocalInv /\ [Local!Next]_Local!vars => LocalInv'
<1> SUFFICES ASSUME LocalInv, [Local!Next]_Local!vars PROVE LocalInv'
  OBVIOUS
<1>1. CASE UNCHANGED Local!vars
  BY <1>1 DEF Local!vars, LocalInv, Shapes, Commands, Authorized, IsSession, IsPast, IsPage
<1>2. CASE Local!Turn
  BY <1>2, TurnKeepsLocalInv
<1>3. CASE Local!Send
  <2>1. sending > 0 /\ UNCHANGED <<det, rec, session, page, past>>
    BY <1>3 DEF Local!Send
  <2>2. QED
    BY <2>1 DEF LocalInv, Shapes, Commands, Authorized, IsSession, IsPast, IsPage
<1>4. CASE Local!Overflow
  <2>1. /\ sending = 0 /\ rec' = Local!NoRecording /\ session' = Local!Closed(session)
        /\ page' = Local!Dropped(page) /\ sending' = 0
        /\ past' = [past EXCEPT !.broken = TRUE, !.settled = TRUE, !.calm = 0]
    BY <1>4 DEF Local!Overflow
  <2>2. IsSession(session') /\ session'.open = FALSE /\ session'.verified = session.verified
    BY <2>1, Sessions DEF LocalInv, Shapes
  <2>3. IsPast(past') /\ past'.trusted = past.trusted /\ past'.broken = TRUE /\ ~rec'.active
    BY <2>1 DEF LocalInv, Shapes, IsPast, Local!NoRecording
  <2>4. QED
    BY <2>1, <2>2, <2>3, ClosingKeepsLocalInv DEF LocalInv, Shapes
<1>5. QED
  BY <1>1, <1>2, <1>3, <1>4 DEF Local!Next


\* Fed with a score, the detector counts the quiet as the history does.
LEMMA FeedKeepsDetector ==
  ASSUME Rearm \in Nat \ {0}, DetectorWaits, IsPast(past), NEW score, Local!Feed(score)
  PROVE  /\ IsDetector(det')
         /\ Local!Verdict(score) # "nothing" => ~det'.armed /\ det'.quiet = 0
         /\ Local!Verdict(score) = "nothing" =>
              LET p == Local!Calmer(score)
              IN /\ p.calm \in Nat
                 /\ det'.armed => p.settled
                 /\ ~p.settled => p.calm = det'.quiet /\ det'.quiet < Rearm
<1> DEFINE p == Local!Calmer(score)
           quiet == Local!QuietSteps(score)
           calm == IF score \in Local!Quiet THEN past.calm + 1 ELSE 0
<1>1. quiet \in 0..Rearm
  BY DEF Local!QuietSteps, DetectorWaits, IsDetector
<1>2. /\ p.calm \in Nat
      /\ past.settled \/ calm = Rearm => p.settled
      /\ ~(past.settled \/ calm = Rearm) => ~p.settled /\ p.calm = calm
  <2>1. CASE past.settled \/ calm = Rearm
    <3> DEFINE q == [past EXCEPT !.settled = TRUE]
    <3>1. q.settled = TRUE /\ IsPast(q)
      BY DEF IsPast
    <3>2. p = [q EXCEPT !.calm = 0]
      BY <2>1 DEF Local!Calmer
    <3>3. p.settled = TRUE /\ p.calm = 0
      BY <3>1, <3>2 DEF IsPast
    <3>4. QED
      BY <2>1, <3>3
  <2>2. CASE ~(past.settled \/ calm = Rearm)
    <3>1. p = [past EXCEPT !.calm = calm] /\ calm \in Nat
      BY <2>2 DEF Local!Calmer, DetectorWaits
    <3>2. p.calm = calm /\ p.settled = past.settled
      BY <3>1 DEF IsPast
    <3>3. QED
      BY <2>2, <3>1, <3>2
  <2>3. QED
    BY <2>1, <2>2
<1>3. ~past.settled => /\ ~det.armed
                       /\ calm = quiet \/ calm = Rearm
                       /\ quiet = Rearm => calm = Rearm
  BY DEF DetectorWaits, IsDetector, Local!QuietSteps
<1> HIDE DEF p, quiet, calm
<1>4. CASE ~det.armed
  <2>1. Local!Verdict(score) = "nothing"
    BY <1>4 DEF Local!Verdict
  <2>2. CASE det' = Local!Armed
    <3>1. quiet = Rearm
      <4> SUFFICES ASSUME quiet # Rearm PROVE FALSE
        OBVIOUS
      <4>1. PICK c : det' = [det EXCEPT !.quiet = quiet, !.cooldown = c]
        BY <1>4 DEF Local!Feed, quiet
      <4> DEFINE d == [det EXCEPT !.quiet = quiet]
      <4>2. IsDetector(d) /\ d.armed = det.armed
        BY <1>1 DEF DetectorWaits, IsDetector
      <4>3. det' = [d EXCEPT !.cooldown = c]
        BY <4>1
      <4>4. det'.armed = det.armed
        BY <4>2, <4>3 DEF IsDetector
      <4>5. QED
        BY <1>4, <2>2, <4>4 DEF Local!Armed
    <3>2. IsDetector(det') /\ det'.armed = TRUE
      BY <2>2 DEF IsDetector, Local!Armed
    <3>3. p.settled
      BY <1>2, <1>3, <3>1
    <3>4. QED
      BY <1>2, <2>1, <3>2, <3>3 DEF p
  <2>3. CASE det' # Local!Armed
    <3>1. PICK c : det' = [det EXCEPT !.quiet = quiet, !.cooldown = c]
      BY <1>4, <2>3 DEF Local!Feed, quiet
    <3> DEFINE d == [det EXCEPT !.quiet = quiet]
    <3>2. IsDetector(d) /\ d.quiet = quiet /\ d.armed = det.armed
      BY <1>1 DEF DetectorWaits, IsDetector
    <3>3. det' = [d EXCEPT !.cooldown = c]
      BY <3>1
    <3>4. IsDetector(det') /\ det'.quiet = quiet /\ det'.armed = det.armed
      BY <3>2, <3>3 DEF IsDetector
    <3>5. ~p.settled => p.calm = det'.quiet /\ det'.quiet < Rearm
      BY <1>1, <1>2, <1>3, <3>4
    <3>6. QED
      BY <1>2, <1>4, <2>1, <3>4, <3>5 DEF p
  <2>4. QED
    BY <2>2, <2>3
<1>5. CASE det.armed /\ Local!Verdict(score) = "nothing"
  <2>1. PICK h, k : det' = [Local!Armed EXCEPT !.hits = h, !.keyword = k]
    BY <1>5 DEF Local!Feed
  <2>2. det' = [armed |-> TRUE, hits |-> h, keyword |-> k, quiet |-> 0, cooldown |-> 0]
    BY <2>1 DEF Local!Armed
  <2>3. IsDetector(det') /\ det'.armed = TRUE /\ past.settled
    BY <1>5, <2>2 DEF IsDetector, DetectorWaits
  <2>4. QED
    BY <1>2, <1>5, <2>3 DEF p
<1>6. CASE det.armed /\ Local!Verdict(score) # "nothing"
  <2>1. det' = [Local!Armed EXCEPT !.armed = FALSE, !.cooldown = Cooldown]
    BY <1>6 DEF Local!Feed
  <2>2. det' = [armed |-> FALSE, hits |-> 0, keyword |-> "none", quiet |-> 0, cooldown |-> Cooldown]
    BY <2>1 DEF Local!Armed
  <2>3. IsDetector(det') /\ det'.armed = FALSE /\ det'.quiet = 0
    BY <2>2 DEF IsDetector
  <2>4. QED
    BY <1>6, <2>3
<1>7. QED
  BY <1>4, <1>5, <1>6

\* Whatever else a turn without a detection does, it notes the quiet.
LEMMA TurnNotesQuiet ==
  ASSUME IsPast(past), NEW score, NEW sound, NEW r,
         \/ Local!Idle(score) \/ Local!Resume(score) \/ Local!Record(score, r)
         \/ Local!TooLong(score, r) \/ Local!End(score, r)
  PROVE  past'.settled = Local!Calmer(score).settled /\ past'.calm = Local!Calmer(score).calm
<1> DEFINE p == Local!Calmer(score)
<1>1. IsPast(p)
  BY Histories
<1>2. ASSUME NEW heardAs
      PROVE  /\ IsPast(Local!Trust(p, heardAs))
             /\ Local!Trust(p, heardAs).settled = p.settled
             /\ Local!Trust(p, heardAs).calm = p.calm
  BY <1>1 DEF IsPast, Local!Trust
<1>3. ASSUME NEW s, NEW q, Local!Partial(s, q, score)
      PROVE  \E heardAs : past' = Local!Trust(p, heardAs)
  BY <1>3 DEF Local!Partial
<1>4. \/ past' = p
      \/ past' = [p EXCEPT !.broken = TRUE]
      \/ \E heardAs : past' = Local!Trust(p, heardAs)
      \/ \E heardAs, words : past' = [Local!Trust(p, heardAs) EXCEPT !.acted = words]
  <2>1. CASE Local!Idle(score)
    BY <2>1 DEF Local!Idle
  <2>2. CASE Local!Resume(score)
    BY <2>2, <1>3 DEF Local!Resume
  <2>3. CASE Local!Record(score, r)
    BY <2>3, <1>3 DEF Local!Record
  <2>4. CASE Local!TooLong(score, r)
    BY <2>4 DEF Local!TooLong
  <2>5. CASE Local!End(score, r)
    BY <2>5 DEF Local!End
  <2>6. QED
    BY <2>1, <2>2, <2>3, <2>4, <2>5
<1> HIDE DEF p
<1>5. CASE past' = [p EXCEPT !.broken = TRUE]
  BY <1>1, <1>5 DEF IsPast, p
<1>6. CASE \E heardAs, words : past' = [Local!Trust(p, heardAs) EXCEPT !.acted = words]
  <2>1. PICK heardAs, words : past' = [Local!Trust(p, heardAs) EXCEPT !.acted = words]
    BY <1>6
  <2> DEFINE q == Local!Trust(p, heardAs)
  <2>2. IsPast(q) /\ q.settled = p.settled /\ q.calm = p.calm /\ past' = [q EXCEPT !.acted = words]
    BY <1>2, <2>1
  <2> HIDE DEF q
  <2>3. past'.settled = q.settled /\ past'.calm = q.calm
    BY <2>2 DEF IsPast
  <2>4. QED
    BY <2>2, <2>3 DEF p
<1>7. QED
  BY <1>2, <1>4, <1>5, <1>6 DEF p

LEMMA DetectorInit == Rearm \in Nat \ {0} /\ Local!Init => DetectorWaits
<1> SUFFICES ASSUME Rearm \in Nat \ {0}, Local!Init PROVE DetectorWaits
  OBVIOUS
<1>1. /\ det = [armed |-> TRUE, hits |-> 0, keyword |-> "none", quiet |-> 0, cooldown |-> 0]
      /\ past.settled = TRUE /\ past.calm = 0
  BY DEF Local!Init, Local!Armed
<1>2. IsDetector(det)
  BY <1>1 DEF IsDetector
<1>3. QED
  BY <1>1, <1>2 DEF DetectorWaits

LEMMA NextKeepsDetector ==
  ASSUME Rearm \in Nat \ {0}, IsPast(past), DetectorWaits, [Local!Next]_Local!vars
  PROVE  DetectorWaits'
<1>1. CASE UNCHANGED <<det, past>>
  BY <1>1 DEF DetectorWaits, IsDetector
<1>2. CASE Local!Turn
  <2>1. PICK score, sound :
          /\ Local!Feed(score)
          /\ IF Local!Verdict(score) # "nothing" THEN Local!Wake(Local!Verdict(score) = "detected")
             ELSE \/ Local!Idle(score) \/ Local!Resume(score)
                  \/ \E r : Local!Record(score, r) \/ Local!TooLong(score, r) \/ Local!End(score, r)
    BY <1>2 DEF Local!Turn
  <2>2. IsDetector(det') /\ det'.quiet \in 0..Rearm
    BY <2>1, FeedKeepsDetector DEF IsDetector
  <2>3. CASE Local!Verdict(score) # "nothing"
    <3>1. PICK strong : past' = [past EXCEPT !.trusted = strong, !.broken = FALSE,
                                             !.settled = FALSE, !.calm = 0]
      BY <2>1, <2>3 DEF Local!Wake
    <3>2. past'.settled = FALSE /\ past'.calm = 0
      BY <3>1 DEF IsPast
    <3>3. ~det'.armed /\ det'.quiet = 0
      BY <2>1, <2>3, FeedKeepsDetector
    <3>4. QED
      BY <2>2, <3>2, <3>3 DEF DetectorWaits
  <2>4. CASE Local!Verdict(score) = "nothing"
    <3>1. past'.settled = Local!Calmer(score).settled /\ past'.calm = Local!Calmer(score).calm
      BY <2>1, <2>4, TurnNotesQuiet
    <3>2. /\ Local!Calmer(score).calm \in Nat
          /\ det'.armed => Local!Calmer(score).settled
          /\ ~Local!Calmer(score).settled => /\ Local!Calmer(score).calm = det'.quiet
                                             /\ det'.quiet < Rearm
      BY <2>1, <2>4, FeedKeepsDetector
    <3>3. QED
      BY <2>2, <3>1, <3>2 DEF DetectorWaits
  <2>5. QED
    BY <2>3, <2>4
<1>3. CASE Local!Overflow
  <2>1. det' = [armed |-> TRUE, hits |-> 0, keyword |-> "none", quiet |-> 0, cooldown |-> 0]
    BY <1>3 DEF Local!Overflow, Local!Armed
  <2>2. past'.settled = TRUE /\ past'.calm = 0
    BY <1>3 DEF Local!Overflow, IsPast
  <2>3. IsDetector(det')
    BY <2>1 DEF IsDetector
  <2>4. QED
    BY <2>1, <2>2, <2>3 DEF DetectorWaits
<1>4. QED
  BY <1>1, <1>2, <1>3 DEF Local!Next, Local!Send, Local!vars

-----------------------------------------------------------------------------
(***************************************************************************)
(* StandaloneClient.  Whatever the sending thread reports stays reported,  *)
(* for it ends with it; a connection that it closed because of the audio   *)
(* has no finish, without which there is no last event of a transcript.    *)
(***************************************************************************)
CallType == [op : {"plan", "speak", "transcribe"},
             at : {"ended", "greeting", "receiving", "yielded", "leaving"},
             raised : {"nothing", "service", "lost", "silence", "producer", "connection"},
             final : BOOLEAN]

SocketType == [over : {"nobody", "client", "service", "producer", "connection"},
               closed : BOOLEAN, finish : BOOLEAN]

CallTypes == /\ call \in CallType /\ socket \in SocketType
             /\ events \in Seq({"more", "last", "error"})
             /\ errors \in {"nothing", "producer", "connection"}

SenderIsRight ==
  /\ call.op # "transcribe" \/ call.at = "greeting" => sender = "none"
  /\ sender \in {"none", "pulling", "sending", "finishing"} => errors = "nothing"
  /\ sender = "failing" => errors # "nothing"
  /\ socket.finish => sender = "done" /\ errors = "nothing"
  /\ socket.over = "producer" => sender = "done" /\ errors = "producer"

LastIsDue == call.op = "transcribe" /\ (\E i \in 1..Len(events) : events[i] = "last")
             => socket.finish

ClientInv == /\ CallTypes /\ SenderIsRight /\ LastIsDue
             /\ Standalone!ConnectionEndsWithCall

LEMMA ClientInit == Standalone!Init => ClientInv
<1> SUFFICES ASSUME Standalone!Init PROVE ClientInv
  OBVIOUS
<1>1. CallTypes
  BY DEF Standalone!Init, CallTypes, CallType, SocketType
<1>2. QED
  BY <1>1 DEF Standalone!Init, ClientInv, SenderIsRight, LastIsDue,
     Standalone!ConnectionEndsWithCall

\* The caller goes on; the connection and the thread are as they were.
LEMMA CallerKeepsClientInv ==
  ASSUME ClientInv, call' \in CallType, call'.op = call.op, call'.at \notin {"ended", "greeting"},
         UNCHANGED <<sender, errors, socket>>, events' \in Seq({"more", "last", "error"}),
         \A i \in 1..Len(events') : \E j \in 1..Len(events) : events'[i] = events[j]
  PROVE  ClientInv'
<1>1. CallTypes'
  BY DEF ClientInv, CallTypes
<1>2. SenderIsRight'
  BY DEF ClientInv, SenderIsRight
<1>3. LastIsDue'
  BY DEF ClientInv, LastIsDue
<1>4. QED
  BY <1>1, <1>2, <1>3 DEF ClientInv, Standalone!ConnectionEndsWithCall

LEMMA Leaving ==
  ASSUME call \in CallType,
         NEW cause \in {"nothing", "service", "lost", "silence", "producer", "connection"},
         Standalone!Leaves(cause)
  PROVE  call' \in CallType /\ call'.op = call.op /\ call'.at = "leaving" /\ call'.raised = cause
  BY DEF Standalone!Leaves, CallType

LEMMA Raising ==
  ASSUME CallTypes, NEW cause \in {"service", "lost", "silence"}, Standalone!Raises(cause)
  PROVE  /\ call' \in CallType /\ call'.op = call.op /\ call'.at = "leaving"
         /\ errors # "nothing" => call'.raised = errors
<1> DEFINE c == IF errors # "nothing" THEN errors ELSE cause
<1>1. /\ c \in {"nothing", "service", "lost", "silence", "producer", "connection"}
      /\ Standalone!Leaves(c)
  BY DEF Standalone!Raises, CallTypes
<1>2. call \in CallType
  BY DEF CallTypes
<1> HIDE DEF c
<1>3. call' \in CallType /\ call'.op = call.op /\ call'.at = "leaving" /\ call'.raised = c
  BY <1>1, <1>2, Leaving
<1>4. QED
  BY <1>3 DEF c

LEMMA ShutSocket ==
  ASSUME socket \in SocketType, NEW who \in {"client", "producer", "connection"},
         Standalone!Shut(who)
  PROVE  /\ socket' \in SocketType /\ socket'.closed = TRUE /\ socket'.finish = socket.finish
         /\ socket'.over = IF socket.over = "nobody" THEN who ELSE socket.over
<1> DEFINE s == [socket EXCEPT !.closed = TRUE]
           o == IF socket.over = "nobody" THEN who ELSE socket.over
<1>1. s \in SocketType /\ s.closed = TRUE /\ s.finish = socket.finish
  BY DEF SocketType
<1>2. o \in {"nobody", "client", "service", "producer", "connection"}
  BY DEF SocketType
<1>3. socket' = [s EXCEPT !.over = o]
  BY DEF Standalone!Shut, SocketType
<1> HIDE DEF s, o
<1>4. socket' \in SocketType /\ socket'.closed = TRUE /\ socket'.finish = socket.finish
      /\ socket'.over = o
  BY <1>1, <1>2, <1>3 DEF SocketType
<1>5. QED
  BY <1>4 DEF o

\* Nobody waits for the last event of a transcript whose audio failed.
LEMMA NoLastAfterFailure ==
  ASSUME ClientInv, socket.over = "producer", events # <<>>
  PROVE  Head(events) # "last"
<1>1. call.op = "transcribe" /\ ~socket.finish
  BY DEF ClientInv, SenderIsRight
<1>2. Len(events) \in Nat \ {0} /\ Head(events) = events[1]
  BY DEF ClientInv, CallTypes
<1>3. QED
  BY <1>1, <1>2 DEF ClientInv, LastIsDue

LEMMA ReceiveKeepsClientInv == ASSUME ClientInv, Standalone!Receive PROVE ClientInv'
<1>1. events # <<>> /\ events' = Tail(events) /\ UNCHANGED <<sender, errors, socket>>
  BY DEF Standalone!Receive
<1>2. /\ events' \in Seq({"more", "last", "error"})
      /\ \A i \in 1..Len(events') : \E j \in 1..Len(events) : events'[i] = events[j]
  <2>1. events \in Seq({"more", "last", "error"})
    BY DEF ClientInv, CallTypes
  <2>2. /\ Tail(events) \in Seq({"more", "last", "error"}) /\ Len(Tail(events)) = Len(events) - 1
        /\ \A i \in 1..Len(Tail(events)) : Tail(events)[i] = events[i + 1]
        /\ Len(events) \in Nat
    BY <1>1, <2>1
  <2>3. QED
    BY <1>1, <2>2
<1>3. call' \in CallType /\ call'.op = call.op /\ call'.at \notin {"ended", "greeting"}
  <2>1. CASE Head(events) = "error"
    BY <2>1, Raising DEF Standalone!Receive, ClientInv
  <2>2. CASE Head(events) = "last"
    <3>1. call' = [call EXCEPT !.at = "leaving", !.final = TRUE]
      BY <2>2 DEF Standalone!Receive
    <3>2. QED
      BY <3>1 DEF ClientInv, CallTypes, CallType
  <2>3. CASE Head(events) \notin {"error", "last"}
    <3>1. call' = [call EXCEPT !.at = "yielded"]
      BY <2>3 DEF Standalone!Receive
    <3>2. QED
      BY <3>1 DEF ClientInv, CallTypes, CallType
  <2>4. QED
    BY <2>1, <2>2, <2>3
<1>4. QED
  BY <1>1, <1>2, <1>3, CallerKeepsClientInv

LEMMA CallerStepsKeepClientInv ==
  ASSUME ClientInv,
         \/ Standalone!RequestFails \/ Standalone!ReceiveFails \/ Standalone!Resume
         \/ Standalone!Abandon
  PROVE  ClientInv'
<1>1. UNCHANGED <<sender, errors, socket, events>>
  BY DEF Standalone!RequestFails, Standalone!ReceiveFails, Standalone!Resume, Standalone!Abandon
<1>2. call' \in CallType /\ call'.op = call.op /\ call'.at \notin {"ended", "greeting"}
  <2>1. CASE Standalone!RequestFails
    BY <2>1, Leaving DEF Standalone!RequestFails, ClientInv, CallTypes
  <2>2. CASE Standalone!ReceiveFails
    BY <2>2, Raising DEF Standalone!ReceiveFails, ClientInv
  <2>3. CASE Standalone!Resume
    BY <2>3 DEF Standalone!Resume, ClientInv, CallTypes, CallType
  <2>4. CASE Standalone!Abandon
    BY <2>4, Leaving DEF Standalone!Abandon, ClientInv, CallTypes
  <2>5. QED
    BY <2>1, <2>2, <2>3, <2>4
<1>3. events' \in Seq({"more", "last", "error"})
  BY <1>1 DEF ClientInv, CallTypes
<1>4. QED
  BY <1>1, <1>2, <1>3, CallerKeepsClientInv

LEMMA ClientNextKeepsClientInv == ClientInv /\ [Standalone!Next]_Standalone!vars => ClientInv'
<1> SUFFICES ASSUME ClientInv, [Standalone!Next]_Standalone!vars PROVE ClientInv'
  OBVIOUS
<1> USE DEF ClientInv
<1>1. CASE UNCHANGED Standalone!vars
  BY <1>1 DEF Standalone!vars, CallTypes, SenderIsRight, LastIsDue,
     Standalone!ConnectionEndsWithCall
<1>2. CASE Standalone!Connect
  <2>1. PICK op \in {"plan", "speak", "transcribe"} :
          call' = [op |-> op, at |-> "greeting", raised |-> "nothing", final |-> FALSE]
    BY <1>2 DEF Standalone!Connect
  <2>2. /\ sender' = "none" /\ errors' = "nothing" /\ events' = <<>>
        /\ socket' = [over |-> "nobody", closed |-> FALSE, finish |-> FALSE]
    BY <1>2 DEF Standalone!Connect
  <2>3. CallTypes' /\ call'.at = "greeting"
    BY <2>1, <2>2 DEF CallTypes, CallType, SocketType
  <2>4. QED
    BY <2>2, <2>3 DEF SenderIsRight, LastIsDue, Standalone!ConnectionEndsWithCall
<1>3. CASE Standalone!Request
  <2>1. /\ call.at = "greeting" /\ call' = [call EXCEPT !.at = "receiving"]
        /\ sender' = IF call.op = "transcribe" THEN "pulling" ELSE "none"
        /\ UNCHANGED <<errors, socket, events>>
    BY <1>3 DEF Standalone!Request
  <2>2. call' \in CallType /\ call'.op = call.op /\ call'.at = "receiving"
    BY <2>1 DEF CallTypes, CallType
  <2>3. CallTypes'
    BY <2>1, <2>2 DEF CallTypes
  <2>4. SenderIsRight' /\ LastIsDue'
    BY <2>1, <2>2 DEF SenderIsRight, LastIsDue
  <2>5. QED
    BY <2>2, <2>3, <2>4 DEF Standalone!ConnectionEndsWithCall
<1>4. CASE Standalone!Receive
  BY <1>4, ReceiveKeepsClientInv
<1>5. CASE \/ Standalone!RequestFails \/ Standalone!ReceiveFails \/ Standalone!Resume
           \/ Standalone!Abandon
  BY <1>5, CallerStepsKeepClientInv
<1>6. CASE Standalone!Leave
  <2>1. /\ call' = [call EXCEPT !.at = "ended"] /\ Standalone!Shut("client")
        /\ UNCHANGED <<sender, errors, events>>
    BY <1>6 DEF Standalone!Leave
  <2>2. call' \in CallType /\ call'.op = call.op /\ call'.at = "ended"
    BY <2>1 DEF CallTypes, CallType
  <2>3. /\ socket' \in SocketType /\ socket'.closed = TRUE /\ socket'.finish = socket.finish
        /\ socket'.over = IF socket.over = "nobody" THEN "client" ELSE socket.over
    BY <2>1, ShutSocket DEF CallTypes
  <2>4. CallTypes'
    BY <2>1, <2>2, <2>3 DEF CallTypes
  <2>5. SenderIsRight' /\ LastIsDue'
    BY <2>1, <2>2, <2>3 DEF SenderIsRight, LastIsDue
  <2>6. QED
    BY <2>3, <2>4, <2>5 DEF Standalone!ConnectionEndsWithCall
<1>7. CASE Standalone!Pull
  <2>1. /\ sender = "pulling" /\ UNCHANGED <<call, socket, events>>
        /\ \/ sender' \in {"done", "sending", "finishing"} /\ errors' = errors
           \/ sender' = "failing" /\ errors' = "producer"
    BY <1>7 DEF Standalone!Pull
  <2>2. CallTypes'
    BY <2>1 DEF CallTypes
  <2>3. SenderIsRight' /\ LastIsDue'
    BY <2>1 DEF SenderIsRight, LastIsDue
  <2>4. QED
    BY <2>1, <2>2, <2>3 DEF Standalone!ConnectionEndsWithCall
<1>8. CASE Standalone!Send
  <2>1. sender \in {"sending", "finishing"} /\ UNCHANGED <<call, events>>
    BY <1>8 DEF Standalone!Send
  <2>2. errors = "nothing" /\ ~socket.finish /\ socket.over # "producer"
    BY <2>1 DEF SenderIsRight
  <2>3. CASE /\ sender' = IF sender = "sending" THEN "pulling" ELSE "done"
             /\ socket' = [socket EXCEPT !.finish = (sender = "finishing")]
             /\ errors' = errors
    <3>1. /\ socket' \in SocketType /\ socket'.over = socket.over /\ socket'.closed = socket.closed
          /\ socket'.finish = (sender = "finishing")
      BY <2>3 DEF CallTypes, SocketType
    <3>2. CallTypes'
      BY <2>1, <2>3, <3>1 DEF CallTypes
    <3>3. SenderIsRight' /\ LastIsDue'
      BY <2>1, <2>2, <2>3, <3>1 DEF SenderIsRight, LastIsDue
    <3>4. QED
      BY <2>1, <3>1, <3>2, <3>3 DEF Standalone!ConnectionEndsWithCall
  <2>4. CASE sender' = "failing" /\ errors' = "connection" /\ socket' = socket
    <3>1. CallTypes'
      BY <2>1, <2>4 DEF CallTypes
    <3>2. SenderIsRight' /\ LastIsDue'
      BY <2>1, <2>2, <2>4 DEF SenderIsRight, LastIsDue
    <3>3. QED
      BY <2>1, <2>4, <3>1, <3>2 DEF Standalone!ConnectionEndsWithCall
  <2>5. QED
    BY <1>8, <2>3, <2>4 DEF Standalone!Send
<1>9. CASE Standalone!Fail
  <2>1. /\ sender = "failing" /\ sender' = "done" /\ Standalone!Shut(errors)
        /\ UNCHANGED <<call, errors, events>>
    BY <1>9 DEF Standalone!Fail
  <2>2. errors \in {"producer", "connection"} /\ ~socket.finish /\ socket.over # "producer"
    BY <2>1 DEF SenderIsRight, CallTypes
  <2>3. /\ socket' \in SocketType /\ socket'.closed = TRUE /\ socket'.finish = socket.finish
        /\ socket'.over = IF socket.over = "nobody" THEN errors ELSE socket.over
    BY <2>1, <2>2, ShutSocket DEF CallTypes
  <2>4. CallTypes'
    BY <2>1, <2>3 DEF CallTypes
  <2>5. SenderIsRight' /\ LastIsDue'
    BY <2>1, <2>2, <2>3 DEF SenderIsRight, LastIsDue
  <2>6. QED
    BY <2>3, <2>4, <2>5 DEF Standalone!ConnectionEndsWithCall
<1>10. CASE Standalone!Break
  <2>1. /\ socket' = [socket EXCEPT !.over = "service"] /\ socket.over = "nobody"
        /\ UNCHANGED <<call, sender, errors, events>>
    BY <1>10 DEF Standalone!Break
  <2>2. /\ socket' \in SocketType /\ socket'.over = "service" /\ socket'.finish = socket.finish
        /\ socket'.closed = socket.closed
    BY <2>1 DEF CallTypes, SocketType
  <2>3. CallTypes'
    BY <2>1, <2>2 DEF CallTypes
  <2>4. QED
    BY <2>1, <2>2, <2>3 DEF SenderIsRight, LastIsDue, Standalone!ConnectionEndsWithCall
<1>11. ASSUME NEW m \in {"more", "last", "error"}, Standalone!Emit(m)
       PROVE  ClientInv'
  <2>1. /\ events' = Append(events, m) /\ UNCHANGED <<call, sender, errors>>
        /\ m = "last" /\ call.op = "transcribe" => socket.finish
        /\ socket' = socket \/ socket' = [socket EXCEPT !.over = "service"]
    BY <1>11 DEF Standalone!Emit
  <2>2. /\ socket' \in SocketType /\ socket'.finish = socket.finish
        /\ socket'.closed = socket.closed
        /\ socket'.over = socket.over \/ socket'.over = "service"
    BY <2>1 DEF CallTypes, SocketType
  <2>3. /\ events' \in Seq({"more", "last", "error"}) /\ Len(events') = Len(events) + 1
        /\ \A i \in 1..Len(events) : events'[i] = events[i]
        /\ events'[Len(events) + 1] = m /\ Len(events) \in Nat
    BY <2>1 DEF CallTypes
  <2>4. CallTypes'
    BY <2>1, <2>2, <2>3 DEF CallTypes
  <2>5. SenderIsRight'
    BY <2>1, <2>2 DEF SenderIsRight
  <2>6. LastIsDue'
    BY <2>1, <2>2, <2>3 DEF LastIsDue
  <2>7. QED
    BY <2>1, <2>2, <2>4, <2>5, <2>6 DEF Standalone!ConnectionEndsWithCall
<1>12. QED
  BY <1>1, <1>2, <1>3, <1>4, <1>5, <1>6, <1>7, <1>8, <1>9, <1>10, <1>11 DEF Standalone!Next

\* What a caller is told when the thread ended the call because of the audio.
LEMMA CauseStep ==
  ASSUME ClientInv, [Standalone!Next]_Standalone!vars, call.at = "receiving",
         call'.at = "leaving", socket.over = "producer"
  PROVE  call'.raised = "producer"
<1>1. errors = "producer" /\ CallTypes
  BY DEF ClientInv, SenderIsRight
<1>2. CASE Standalone!Receive
  <2>1. Head(events) # "last"
    BY <1>2, NoLastAfterFailure DEF Standalone!Receive
  <2>2. CASE Head(events) = "error"
    BY <1>1, <1>2, <2>2, Raising DEF Standalone!Receive
  <2>3. CASE Head(events) # "error"
    <3>1. call' = [call EXCEPT !.at = "yielded"]
      BY <1>2, <2>1, <2>3 DEF Standalone!Receive
    <3>2. call'.at = "yielded"
      BY <1>1, <3>1 DEF CallTypes, CallType
    <3>3. QED
      BY <3>2
  <2>4. QED
    BY <2>2, <2>3
<1>3. CASE Standalone!ReceiveFails
  <2>1. Standalone!Raises("lost")
    BY <1>3 DEF Standalone!ReceiveFails
  <2>2. QED
    BY <1>1, <2>1, Raising
<1>4. call'.at = call.at \/ call.at # "receiving" \/ Standalone!Receive \/ Standalone!ReceiveFails
  BY DEF Standalone!Next, Standalone!vars, Standalone!Connect, Standalone!Request,
     Standalone!RequestFails, Standalone!Resume, Standalone!Abandon, Standalone!Leave,
     Standalone!Pull, Standalone!Send, Standalone!Fail, Standalone!Break, Standalone!Emit
<1>5. QED
  BY <1>2, <1>3, <1>4

-----------------------------------------------------------------------------
(***************************************************************************)
(* Recursion over data.  A recursive function is a CHOOSE, of which little *)
(* is known before some function satisfies its equation.  This says when   *)
(* one does; its arguments are sets and functions, and no operators.       *)
(***************************************************************************)
\* F is defined by recursion on D: at the points of Last it is what out says, elsewhere
\* what merge makes of its value at the next point.
Recursive(F, D, Last, next, out, merge) ==
  F = [x \in D |-> IF x \in Last THEN out[x] ELSE merge[<<x, F[next[x]]>>]]

\* The pairs of every set that contains the ends and, with a point, those before it.
Grown(C, D, V, Last, next, out, merge) ==
  /\ \A x \in Last : <<x, out[x]>> \in C
  /\ \A x \in D \ Last : \A y \in V : <<next[x], y>> \in C => <<x, merge[<<x, y>>]>> \in C

\* A recursion in which every merge goes down a well-founded order defines a function.
LEMMA RecursionDefines ==
  ASSUME NEW D, NEW V, NEW R, IsWellFoundedOn(R, D), NEW Last \in SUBSET D,
         NEW next \in [D -> D], NEW out \in [D -> V], NEW merge \in [D \X V -> V],
         \A x \in D \ Last : <<next[x], x>> \in R
  PROVE  \E F \in [D -> V] : Recursive(F, D, Last, next, out, merge)
<1> DEFINE G(C) == Grown(C, D, V, Last, next, out, merge)
           L == {c \in D \X V : \A C \in SUBSET (D \X V) : G(C) => c \in C}
<1>1. L \in SUBSET (D \X V) /\ G(L)
  <2>1. \A x \in Last : <<x, out[x]>> \in L
    BY DEF Grown
  <2>2. ASSUME NEW x \in D \ Last, NEW y \in V, <<next[x], y>> \in L
        PROVE  <<x, merge[<<x, y>>]>> \in L
    <3>1. merge[<<x, y>>] \in V
      OBVIOUS
    <3>2. ASSUME NEW C \in SUBSET (D \X V), G(C) PROVE <<x, merge[<<x, y>>]>> \in C
      BY <2>2, <3>2 DEF Grown
    <3>3. QED
      BY <3>1, <3>2
  <2>3. QED
    BY <2>1, <2>2 DEF Grown
<1>2. ASSUME NEW x \in Last, NEW y, <<x, y>> \in L
      PROVE  y = out[x]
  <2> DEFINE C == L \ {<<x, y>>}
  <2>1. SUFFICES ASSUME y # out[x] PROVE FALSE
    OBVIOUS
  <2>2. C \in SUBSET (D \X V) /\ <<x, y>> \notin C
    BY <1>1
  <2>3. G(C)
    <3>1. \A z \in Last : <<z, out[z]>> \in C
      BY <1>1, <2>1 DEF Grown
    <3>2. \A z \in D \ Last : \A v \in V : <<next[z], v>> \in C => <<z, merge[<<z, v>>]>> \in C
      BY <1>1, <1>2 DEF Grown
    <3>3. QED
      BY <3>1, <3>2 DEF Grown
  <2>4. QED
    BY <1>2, <2>2, <2>3
<1>3. ASSUME NEW x \in D \ Last, NEW z, <<x, z>> \in L
      PROVE  \E y \in V : <<next[x], y>> \in L /\ z = merge[<<x, y>>]
  <2> DEFINE C == L \ {<<x, z>>}
  <2>1. SUFFICES ASSUME \A y \in V : <<next[x], y>> \in L => z # merge[<<x, y>>] PROVE FALSE
    OBVIOUS
  <2>2. C \in SUBSET (D \X V) /\ <<x, z>> \notin C
    BY <1>1
  <2>3. G(C)
    <3>1. \A w \in Last : <<w, out[w]>> \in C
      BY <1>1, <1>3 DEF Grown
    <3>2. ASSUME NEW w \in D \ Last, NEW v \in V, <<next[w], v>> \in C
          PROVE  <<w, merge[<<w, v>>]>> \in C
      <4>1. <<next[w], v>> \in L /\ <<w, merge[<<w, v>>]>> \in L
        BY <1>1, <3>2 DEF Grown
      <4>2. CASE w = x
        <5>1. z # merge[<<x, v>>]
          BY <2>1, <4>1, <4>2
        <5>2. QED
          BY <4>1, <4>2, <5>1
      <4>3. CASE w # x
        BY <4>1, <4>3
      <4>4. QED
        BY <4>2, <4>3
    <3>3. QED
      BY <3>1, <3>2 DEF Grown
  <2>4. QED
    BY <1>3, <2>2, <2>3
<1> DEFINE Single(x) == /\ \E y \in V : <<x, y>> \in L
                        /\ \A y, z : <<x, y>> \in L /\ <<x, z>> \in L => y = z
           Bad == {x \in D : ~Single(x)}
<1>4. Bad = {}
  <2>1. SUFFICES ASSUME Bad # {} PROVE FALSE
    OBVIOUS
  <2>2. Bad \subseteq D
    OBVIOUS
  <2> HIDE DEF L
  <2>3. PICK x \in Bad : \A y \in Bad : ~ (<<y, x>> \in R)
    <3> HIDE DEF Bad
    <3> QED
      BY <2>1, <2>2, WFMin
  <2>4. CASE x \in Last
    BY <1>1, <1>2, <2>3, <2>4 DEF Grown
  <2>5. CASE x \notin Last
    <3>1. next[x] \in D /\ next[x] \notin Bad
      BY <2>3, <2>5
    <3>2. Single(next[x])
      BY <3>1
    <3>3. PICK y \in V : <<next[x], y>> \in L
      BY <3>2
    <3>4. <<x, merge[<<x, y>>]>> \in L /\ merge[<<x, y>>] \in V
      BY <1>1, <2>2, <2>3, <2>5, <3>3 DEF Grown
    <3>5. ASSUME NEW a, NEW b, <<x, a>> \in L, <<x, b>> \in L PROVE a = b
      <4>1. x \in D \ Last
        BY <2>3, <2>5
      <4>2. PICK ya \in V : <<next[x], ya>> \in L /\ a = merge[<<x, ya>>]
        BY <1>3, <3>5, <4>1
      <4>3. PICK yb \in V : <<next[x], yb>> \in L /\ b = merge[<<x, yb>>]
        BY <1>3, <3>5, <4>1
      <4>4. ya = yb
        BY <3>2, <4>2, <4>3
      <4>5. QED
        BY <4>2, <4>3, <4>4
    <3>6. QED
      BY <2>3, <3>4, <3>5
  <2>6. QED
    BY <2>4, <2>5
<1> DEFINE Value(x) == CHOOSE y \in V : <<x, y>> \in L
           F == [x \in D |-> Value(x)]
<1>5. ASSUME NEW x \in D
      PROVE  F[x] \in V /\ <<x, F[x]>> \in L /\ \A z : <<x, z>> \in L => z = F[x]
  <2>1. Single(x)
    BY <1>4
  <2> HIDE DEF L
  <2>2. QED
    BY <2>1
<1> HIDE DEF L, Value
<1>6. ASSUME NEW x \in D
      PROVE  F[x] = IF x \in Last THEN out[x] ELSE merge[<<x, F[next[x]]>>]
  <2> HIDE DEF F
  <2>1. CASE x \in Last
    BY <1>1, <1>5, <2>1 DEF Grown
  <2>2. CASE x \notin Last
    <3>1. next[x] \in D
      OBVIOUS
    <3>2. F[next[x]] \in V /\ <<next[x], F[next[x]]>> \in L
      BY <1>5, <3>1
    <3>3. <<x, merge[<<x, F[next[x]]>>]>> \in L
      BY <1>1, <2>2, <3>2 DEF Grown
    <3>4. QED
      BY <1>5, <2>2, <3>3
  <2>3. QED
    BY <2>1, <2>2
<1>7. F = [x \in D |-> IF x \in Last THEN out[x] ELSE merge[<<x, F[next[x]]>>]]
  BY <1>6
<1>8. F \in [D -> V]
  BY <1>5
<1>9. QED
  BY <1>7, <1>8 DEF Recursive

-----------------------------------------------------------------------------
(***************************************************************************)
(* RemotePlanner: what Ancestors computes.                                 *)
(***************************************************************************)
GroupNames(g) == UNION {g[n] : n \in DOMAIN g}
Searches(g) == (SUBSET GroupNames(g)) \X SUBSET GroupNames(g)

\* A turn goes down: fewer names are left to visit, or as many, and fewer pending.
Down(g) == {q \in Searches(g) \X Searches(g) :
              \/ <<GroupNames(g) \ q[1][1], GroupNames(g) \ q[2][1]>>
                   \in StrictSubsetOrdering(GroupNames(g))
              \/ /\ GroupNames(g) \ q[1][1] = GroupNames(g) \ q[2][1]
                 /\ <<q[1][2], q[2][2]>> \in StrictSubsetOrdering(GroupNames(g))}

LEMMA DownIsWellFounded ==
  ASSUME NEW g, IsFiniteSet(GroupNames(g))
  PROVE  IsWellFoundedOn(Down(g), Searches(g))
<1> DEFINE N == GroupNames(g)
           O == StrictSubsetOrdering(N)
           S == SUBSET N
<1> HIDE DEF N
<1>1. IsWellFoundedOn(O, S)
  <2>1. FiniteSubsetsOf(N) = SUBSET N
    BY FS_FiniteSubsetsOfFinite DEF N
  <2>2. IsWellFoundedOn(StrictSubsetOrdering(N), FiniteSubsetsOf(N))
    BY FS_StrictSubsetOrderingWellFounded
  <2>3. QED
    BY <2>1, <2>2
<1> HIDE DEF O, S
<1>2. IsWellFoundedOn(LexPairOrdering(O, O, S, S), S \X S)
  BY <1>1, WFLexPairOrdering
<1>3. SUFFICES ASSUME NEW f \in [Nat -> Searches(g)], \A n \in Nat : <<f[n + 1], f[n]>> \in Down(g)
               PROVE  FALSE
  BY DEF IsWellFoundedOn
<1> DEFINE h == [n \in Nat |-> <<N \ f[n][1], f[n][2]>>]
<1>4. ASSUME NEW n \in Nat PROVE N \ f[n][1] \in S /\ f[n][2] \in S
  BY DEF Searches, N, S
<1>5. h \in [Nat -> S \X S]
  BY <1>4
<1>6. ASSUME NEW n \in Nat PROVE <<h[n + 1], h[n]>> \in LexPairOrdering(O, O, S, S)
  <2>1. n + 1 \in Nat
    OBVIOUS
  <2>2. <<f[n + 1], f[n]>> \in Down(g)
    BY <1>3
  <2>3. \/ <<N \ f[n + 1][1], N \ f[n][1]>> \in O
        \/ N \ f[n + 1][1] = N \ f[n][1] /\ <<f[n + 1][2], f[n][2]>> \in O
    BY <2>2 DEF Down, N, O
  <2>4. h[n + 1] \in S \X S /\ h[n] \in S \X S
    BY <1>5, <2>1
  <2>5. h[n + 1] = <<N \ f[n + 1][1], f[n + 1][2]>> /\ h[n] = <<N \ f[n][1], f[n][2]>>
    BY <2>1
  <2>6. /\ h[n + 1][1] = N \ f[n + 1][1] /\ h[n + 1][2] = f[n + 1][2]
        /\ h[n][1] = N \ f[n][1] /\ h[n][2] = f[n][2]
    BY <2>5
  <2> DEFINE a == h[n + 1]
             b == h[n]
  <2>7. a \in S \X S /\ b \in S \X S
    BY <2>4
  <2>8. <<a[1], b[1]>> \in O \/ (a[1] = b[1] /\ <<a[2], b[2]>> \in O)
    BY <2>3, <2>6
  <2> HIDE DEF a, b
  <2>9. <<a, b>> \in LexPairOrdering(O, O, S, S)
    BY <2>7, <2>8 DEF LexPairOrdering
  <2>10. QED
    BY <2>9 DEF a, b
<1> HIDE DEF h
<1>7. QED
  BY <1>2, <1>5, <1>6 DEF IsWellFoundedOn

\* What a turn makes of s when it takes name: name is visited, its groups are pending.
Turned(g, s, t, name) ==
  /\ t[1] = s[1] \cup {name}
  /\ t[1] \cup t[2] = (s[1] \cup s[2]) \cup
       IF name \in s[1] \/ name \notin DOMAIN g THEN {} ELSE g[name]

\* A turn of the loop that is not the last one.
LEMMA Turning ==
  ASSUME NEW g, NEW s \in Searches(g), s[2] # {}
  PROVE  /\ Planner!Turn(g, s) \in Searches(g)
         /\ <<Planner!Turn(g, s), s>> \in Down(g)
         /\ \E name \in s[2] : Turned(g, s, Planner!Turn(g, s), name)
<1> DEFINE N == GroupNames(g)
           name == CHOOSE n \in s[2] : TRUE
           rest == s[2] \ {name}
           t == Planner!Turn(g, s)
<1>1. s = <<s[1], s[2]>> /\ s[1] \in SUBSET N /\ s[2] \in SUBSET N
  BY DEF Searches
<1>2. name \in s[2]
  OBVIOUS
<1> HIDE DEF name
<1>3. name \in DOMAIN g => g[name] \in SUBSET N
  BY DEF GroupNames
<1>4. t = IF name \in s[1] THEN <<s[1], rest>>
          ELSE <<s[1] \cup {name}, IF name \in DOMAIN g THEN rest \cup g[name] ELSE rest>>
  BY DEF Planner!Turn, name
<1> HIDE DEF t, N
<1>5. CASE name \in s[1]
  <2>1. t = <<s[1], rest>> /\ rest \in SUBSET N /\ rest \subseteq s[2] /\ rest # s[2]
    BY <1>1, <1>2, <1>4, <1>5
  <2>2. t \in Searches(g)
    BY <1>1, <2>1 DEF Searches, N
  <2>3. t[1] = s[1] /\ t[2] = rest
    BY <2>1
  <2>4. <<rest, s[2]>> \in StrictSubsetOrdering(N)
    BY <1>1, <2>1 DEF StrictSubsetOrdering
  <2>5. <<t, s>> \in Down(g)
    BY <2>2, <2>3, <2>4 DEF Down, N
  <2>6. t[1] = s[1] \cup {name} /\ t[1] \cup t[2] = (s[1] \cup s[2]) \cup {}
    BY <1>2, <1>5, <2>3
  <2>7. Turned(g, s, t, name)
    BY <1>5, <2>6 DEF Turned
  <2>8. QED
    BY <1>2, <2>2, <2>5, <2>7 DEF t
<1>6. CASE name \notin s[1]
  <2> DEFINE more == IF name \in DOMAIN g THEN rest \cup g[name] ELSE rest
  <2>1. t = <<s[1] \cup {name}, more>>
    BY <1>4, <1>6
  <2>2. more \in SUBSET N /\ s[1] \cup {name} \in SUBSET N
    BY <1>1, <1>2, <1>3
  <2>3. t[1] = s[1] \cup {name} /\ t[2] = more
    BY <2>1
  <2>4. t \in Searches(g)
    BY <2>1, <2>2 DEF Searches, N
  <2>5. /\ N \ (s[1] \cup {name}) \subseteq N \ s[1] /\ N \ (s[1] \cup {name}) # N \ s[1]
    BY <1>1, <1>2, <1>6
  <2>6. <<N \ t[1], N \ s[1]>> \in StrictSubsetOrdering(N)
    BY <2>3, <2>5 DEF StrictSubsetOrdering
  <2>7. <<t, s>> \in Down(g)
    BY <2>4, <2>6 DEF Down, N
  <2>8. t[1] \cup t[2] = (s[1] \cup s[2]) \cup IF name \notin DOMAIN g THEN {} ELSE g[name]
    BY <1>2, <2>3
  <2>9. Turned(g, s, t, name)
    BY <1>6, <2>3, <2>8 DEF Turned
  <2>10. QED
    BY <1>2, <2>4, <2>7, <2>9 DEF t
<1>7. QED
  BY <1>5, <1>6

\* The function that Ancestors defines by recursion.
Climbs(F, g) ==
  LET Names == UNION {g[n] : n \in DOMAIN g}
  IN F = [s \in (SUBSET Names) \X SUBSET Names |->
            IF s[2] = {} THEN s[1] ELSE F[Planner!Turn(g, s)]]

LEMMA ClimbExists ==
  ASSUME NEW g, IsFiniteSet(GroupNames(g))
  PROVE  \E F \in [Searches(g) -> SUBSET GroupNames(g)] : Climbs(F, g)
<1> DEFINE D == Searches(g)
           V == SUBSET GroupNames(g)
           Last == {s \in D : s[2] = {}}
           next == [s \in D |-> IF s[2] = {} THEN s ELSE Planner!Turn(g, s)]
           out == [s \in D |-> s[1]]
           merge == [q \in D \X V |-> q[2]]
<1>1. next \in [D -> D]
  BY Turning
<1>2. out \in [D -> V]
  BY DEF Searches
<1>3. merge \in [D \X V -> V]
  OBVIOUS
<1>4. \A s \in D \ Last : <<next[s], s>> \in Down(g)
  BY Turning
<1>5. Last \in SUBSET D /\ IsWellFoundedOn(Down(g), D)
  BY DownIsWellFounded
<1>6. \E F \in [D -> V] : Recursive(F, D, Last, next, out, merge)
  <2> HIDE DEF D, V, Last, next, out, merge
  <2>1. QED
    BY <1>1, <1>2, <1>3, <1>4, <1>5, RecursionDefines
<1>7. PICK F \in [D -> V] : Recursive(F, D, Last, next, out, merge)
  BY <1>6
<1>8. ASSUME NEW s \in D
      PROVE  F[s] = IF s[2] = {} THEN s[1] ELSE F[Planner!Turn(g, s)]
  <2>1. F[s] = IF s \in Last THEN out[s] ELSE merge[<<s, F[next[s]]>>]
    <3> HIDE DEF Last, next, out, merge
    <3> QED
      BY <1>7 DEF Recursive
  <2>2. CASE s[2] = {}
    BY <2>1, <2>2
  <2>3. CASE s[2] # {}
    <3>1. next[s] = Planner!Turn(g, s) /\ next[s] \in D
      BY <1>1, <2>3
    <3>2. F[next[s]] \in V
      BY <3>1
    <3>3. merge[<<s, F[next[s]]>>] = F[next[s]]
      <4> HIDE DEF next
      <4> QED
        BY <3>2
    <3>4. QED
      BY <2>1, <2>3, <3>1, <3>3
  <2>4. QED
    BY <2>2, <2>3
<1>9. F = [s \in D |-> IF s[2] = {} THEN s[1] ELSE F[Planner!Turn(g, s)]]
  <2> HIDE DEF D, V
  <2> QED
    BY <1>8
<1>10. QED
  BY <1>9 DEF Climbs, Searches, GroupNames

LEMMA AncestorsClimb ==
  ASSUME NEW g, NEW d, \E f : Climbs(f, g)
  PROVE  \E F : Climbs(F, g) /\ Planner!Ancestors(g, d) = F[<<{}, g[d]>>]
<1> DEFINE F == CHOOSE f : Climbs(f, g)
<1>1. Climbs(F, g)
  BY Zenon
<1>2. Planner!Ancestors(g, d) = F[<<{}, g[d]>>]
  BY Zenon DEF Planner!Ancestors, Climbs
<1>3. QED
  BY <1>1, <1>2, Zenon

\* Names that contain the groups of d, and with a group its own groups.
Upward(g, d, names) ==
  g[d] \subseteq names /\ \A n \in names \cap DOMAIN g : g[n] \subseteq names

\* What is pending makes up for what is missing among the visited.
OnTheWay(g, d, s) ==
  /\ g[d] \subseteq s[1] \cup s[2]
  /\ \A n \in s[1] \cap DOMAIN g : g[n] \subseteq s[1] \cup s[2]

LEMMA TurnStaysOnTheWay ==
  ASSUME NEW g, NEW d, NEW s \in Searches(g), s[2] # {}, OnTheWay(g, d, s)
  PROVE  OnTheWay(g, d, Planner!Turn(g, s))
<1> DEFINE t == Planner!Turn(g, s)
<1>0. PICK name \in s[2] : Turned(g, s, t, name)
  BY Turning
<1> HIDE DEF t
<1>1. /\ t[1] = s[1] \cup {name}
      /\ t[1] \cup t[2] = (s[1] \cup s[2]) \cup
           IF name \in s[1] \/ name \notin DOMAIN g THEN {} ELSE g[name]
  BY <1>0 DEF Turned
<1>2. g[d] \subseteq t[1] \cup t[2]
  BY <1>1 DEF OnTheWay
<1>3. ASSUME NEW n \in t[1] \cap DOMAIN g PROVE g[n] \subseteq t[1] \cup t[2]
  <2>1. CASE n \in s[1]
    BY <1>1, <1>3, <2>1 DEF OnTheWay
  <2>2. CASE n \notin s[1]
    BY <1>1, <1>3, <2>2
  <2>3. QED
    BY <2>1, <2>2
<1>4. QED
  BY <1>2, <1>3 DEF OnTheWay, t

\* ancestors() finds the groups above an item, however groups are nested: it ends,
\* and what it returns is complete.
LEMMA AncestorsAreAll ==
  ASSUME NEW g, NEW d \in DOMAIN g, IsFiniteSet(GroupNames(g))
  PROVE  Planner!Ancestors(g, d) \subseteq GroupNames(g) /\ Upward(g, d, Planner!Ancestors(g, d))
<1>1. PICK F : Climbs(F, g) /\ Planner!Ancestors(g, d) = F[<<{}, g[d]>>]
  BY ClimbExists, AncestorsClimb
<1>2. ASSUME NEW s \in Searches(g)
      PROVE  F[s] = IF s[2] = {} THEN s[1] ELSE F[Planner!Turn(g, s)]
  BY <1>1 DEF Climbs, Searches, GroupNames
<1> DEFINE Right(s) == OnTheWay(g, d, s) => F[s] \subseteq GroupNames(g) /\ Upward(g, d, F[s])
           Wrong == {s \in Searches(g) : ~Right(s)}
<1>3. Wrong = {}
  <2>1. SUFFICES ASSUME Wrong # {} PROVE FALSE
    OBVIOUS
  <2>2. PICK s \in Wrong : \A t \in Wrong : ~(<<t, s>> \in Down(g))
    <3>1. Wrong \subseteq Searches(g)
      OBVIOUS
    <3> HIDE DEF Wrong
    <3>2. QED
      BY <2>1, <3>1, DownIsWellFounded, WFMin
  <2>3. s \in Searches(g) /\ OnTheWay(g, d, s) /\ ~Right(s)
    OBVIOUS
  <2>4. CASE s[2] = {}
    <3>1. F[s] = s[1] /\ s[1] \in SUBSET GroupNames(g)
      BY <1>2, <2>3, <2>4 DEF Searches
    <3>2. Upward(g, d, s[1])
      BY <2>3, <2>4 DEF OnTheWay, Upward
    <3>3. QED
      BY <2>3, <3>1, <3>2
  <2>5. CASE s[2] # {}
    <3> DEFINE t == Planner!Turn(g, s)
    <3>1. t \in Searches(g) /\ <<t, s>> \in Down(g) /\ OnTheWay(g, d, t)
      BY <2>3, <2>5, Turning, TurnStaysOnTheWay
    <3>2. F[s] = F[t]
      BY <1>2, <2>3, <2>5
    <3> HIDE DEF t
    <3>3. Right(t)
      BY <2>2, <3>1
    <3>4. QED
      BY <2>3, <3>1, <3>2, <3>3
  <2>6. QED
    BY <2>4, <2>5
<1>4. g[d] \in SUBSET GroupNames(g)
  BY DEF GroupNames
<1>5. <<{}, g[d]>> \in Searches(g) /\ OnTheWay(g, d, <<{}, g[d]>>)
  BY <1>4 DEF Searches, OnTheWay
<1>6. Right(<<{}, g[d]>>)
  BY <1>3, <1>5
<1>7. QED
  BY <1>1, <1>5, <1>6

-----------------------------------------------------------------------------
(* RemotePlanner: what Validate computes.                                  *)

Distinct(q) == \A i, j \in 1..Len(q) : q[i] = q[j] => i = j

\* The function that Validate defines by recursion.
Collects(F, calls) ==
  F = [n \in 0..Len(calls) |->
         IF n = 0 THEN <<>>
         ELSE IF Planner!Contains(F[n - 1], Planner!Action(calls[n])) THEN F[n - 1]
         ELSE Append(F[n - 1], Planner!Action(calls[n]))]

ActionsOfCalls(calls) == {Planner!Action(calls[k]) : k \in 1..Len(calls)}

LEMMA AppendDistinct ==
  ASSUME NEW S, NEW q \in Seq(S), Distinct(q), NEW e \in S, ~Planner!Contains(q, e)
  PROVE  Append(q, e) \in Seq(S) /\ Distinct(Append(q, e))
<1> DEFINE a == Append(q, e)
<1>1. /\ a \in Seq(S) /\ Len(q) \in Nat /\ Len(a) = Len(q) + 1
      /\ \A i \in 1..Len(q) : a[i] = q[i]
      /\ a[Len(q) + 1] = e
  OBVIOUS
<1>2. \A i \in 1..Len(q) : q[i] # e
  BY DEF Planner!Contains
<1> HIDE DEF a
<1>3. ASSUME NEW i \in 1..Len(a), NEW j \in 1..Len(a), a[i] = a[j] PROVE i = j
  <2>1. (i \in 1..Len(q) \/ i = Len(q) + 1) /\ (j \in 1..Len(q) \/ j = Len(q) + 1)
    BY <1>1
  <2>2. QED
    BY <1>1, <1>2, <1>3, <2>1 DEF Distinct
<1>4. QED
  BY <1>1, <1>3 DEF a, Distinct

LEMMA CollectExists ==
  ASSUME NEW calls, Len(calls) \in Nat
  PROVE  \E F \in [0..Len(calls) -> {q \in Seq(ActionsOfCalls(calls)) : Distinct(q)}] :
            Collects(F, calls)
<1> DEFINE D == 0..Len(calls)
           A == ActionsOfCalls(calls)
           V == {q \in Seq(A) : Distinct(q)}
           a(n) == Planner!Action(calls[n])
           R == {m \in Nat \X Nat : m[1] < m[2]}
           next == [n \in D |-> IF n = 0 THEN 0 ELSE n - 1]
           out == [n \in D |-> <<>>]
           More(n, q) == IF n = 0 \/ Planner!Contains(q, a(n)) THEN q ELSE Append(q, a(n))
           merge == [p \in D \X V |-> More(p[1], p[2])]
<1>1. next \in [D -> D]
  OBVIOUS
<1>2. out \in [D -> V]
  <2>1. <<>> \in V
    BY DEF Distinct
  <2> HIDE DEF V
  <2>2. QED
    BY <2>1
<1>3. merge \in [D \X V -> V]
  <2>1. ASSUME NEW n \in D, NEW q \in V PROVE More(n, q) \in V
    <3>1. CASE n = 0 \/ Planner!Contains(q, a(n))
      BY <3>1
    <3>2. CASE n # 0 /\ ~Planner!Contains(q, a(n))
      <4>1. a(n) \in A
        <5>1. n \in 1..Len(calls)
          BY <3>2
        <5>2. QED
          BY <5>1 DEF ActionsOfCalls
      <4>2. QED
        BY <3>2, <4>1, AppendDistinct
    <3>3. QED
      BY <3>1, <3>2
  <2> HIDE DEF D, V, More
  <2>2. QED
    BY <2>1
<1>4. \A n \in D \ {0} : <<next[n], n>> \in R
  OBVIOUS
<1>5. IsWellFoundedOn(R, D)
  <2>1. IsWellFoundedOn(R, Nat) /\ D \subseteq Nat
    BY NatLessThanWellFounded DEF OpToRel
  <2> HIDE DEF R, D
  <2>2. QED
    BY <2>1, IsWellFoundedOnSubset
<1>6. \E F \in [D -> V] : Recursive(F, D, {0}, next, out, merge)
  <2>1. {0} \in SUBSET D
    OBVIOUS
  <2> HIDE DEF D, V, R, next, out, merge
  <2>2. QED
    BY <1>1, <1>2, <1>3, <1>4, <1>5, <2>1, RecursionDefines
<1>7. PICK F \in [D -> V] : Recursive(F, D, {0}, next, out, merge)
  BY <1>6
<1>8. ASSUME NEW n \in D
      PROVE  F[n] = IF n = 0 THEN <<>>
                    ELSE IF Planner!Contains(F[n - 1], a(n)) THEN F[n - 1]
                    ELSE Append(F[n - 1], a(n))
  <2>1. F[n] = IF n \in {0} THEN out[n] ELSE merge[<<n, F[next[n]]>>]
    <3> HIDE DEF D, V, next, out, merge
    <3> QED
      BY <1>7 DEF Recursive
  <2>2. CASE n = 0
    BY <2>1, <2>2
  <2>3. CASE n # 0
    <3>1. next[n] = n - 1 /\ n - 1 \in D
      BY <2>3
    <3> HIDE DEF D, V, next, a
    <3>2. F[n - 1] \in V
      BY <1>7, <3>1
    <3>3. merge[<<n, F[n - 1]>>] = More(n, F[n - 1])
      BY <3>2
    <3>4. QED
      BY <2>1, <2>3, <3>1, <3>3
  <2>4. QED
    BY <2>2, <2>3
<1>9. Collects(F, calls)
  <2>1. F = [n \in D |-> F[n]]
    <3> HIDE DEF D, V
    <3> QED
      BY <1>7
  <2>2. QED
    BY <1>8, <2>1 DEF Collects
<1>10. QED
  BY <1>7, <1>9

ValidCalls(g, calls) ==
  /\ Len(calls) \in 1..MaxPlanned
  /\ \A i \in DOMAIN calls : /\ calls[i].tool \in Planner!Schemas(g)
                             /\ calls[i].value \in Planner!Values(calls[i].tool[1])

LEMMA ValidateCollects ==
  ASSUME NEW g, NEW calls, \E f : Collects(f, calls)
  PROVE  \E F : /\ Collects(F, calls)
               /\ Planner!Validate(g, calls) =
                    IF ValidCalls(g, calls) THEN F[Len(calls)] ELSE <<>>
<1> DEFINE F == CHOOSE f : Collects(f, calls)
<1>1. Collects(F, calls)
  BY Zenon
<1>2. Planner!Validate(g, calls) = IF ValidCalls(g, calls) THEN F[Len(calls)] ELSE <<>>
  BY Zenon DEF Planner!Validate, Collects, ValidCalls
<1>3. QED
  BY <1>1, <1>2, Zenon

\* Collects determines the function.
LEMMA CollectUnique ==
  ASSUME NEW calls, Len(calls) \in Nat, NEW F, Collects(F, calls), NEW G, Collects(G, calls)
  PROVE  F[Len(calls)] = G[Len(calls)]
<1> DEFINE D == 0..Len(calls)
           R == {m \in Nat \X Nat : m[1] < m[2]}
           Bad == {n \in D : F[n] # G[n]}
<1>1. SUFFICES ASSUME Bad # {} PROVE FALSE
  OBVIOUS
<1>2. IsWellFoundedOn(R, Nat) /\ Bad \subseteq Nat
  BY NatLessThanWellFounded DEF OpToRel
<1>3. PICK n \in Bad : \A m \in Bad : ~(<<m, n>> \in R)
  <2> HIDE DEF R, Bad
  <2> QED
    BY <1>1, <1>2, WFMin
<1>4. CASE n = 0
  BY <1>4 DEF Collects
<1>5. CASE n # 0
  <2>1. n \in D /\ n - 1 \in D /\ <<n - 1, n>> \in R
    BY <1>5
  <2>2. F[n - 1] = G[n - 1]
    <3> HIDE DEF R
    <3> QED
      BY <1>3, <2>1
  <2> DEFINE e == Planner!Action(calls[n])
             after(v) == IF Planner!Contains(v, e) THEN v ELSE Append(v, e)
  <2>3. F[n] = after(F[n - 1]) /\ G[n] = after(G[n - 1])
    BY <1>5, <2>1 DEF Collects
  <2>4. F[n] = G[n]
    BY <2>2, <2>3
  <2>5. QED
    BY <2>4
<1>6. QED
  BY <1>4, <1>5

\* validate() is all or nothing: with actions, every call was valid; every action is
\* that of a call, and none is there twice.
LEMMA ValidateIsRight ==
  ASSUME NEW g, NEW calls, Len(calls) \in Nat, Planner!Validate(g, calls) # <<>>
  PROVE  /\ ValidCalls(g, calls)
         /\ Planner!Validate(g, calls) \in Seq(ActionsOfCalls(calls))
         /\ Distinct(Planner!Validate(g, calls))
<1>1. PICK F \in [0..Len(calls) -> {q \in Seq(ActionsOfCalls(calls)) : Distinct(q)}] :
             Collects(F, calls)
  BY CollectExists
<1>2. PICK G : Collects(G, calls) /\ Planner!Validate(g, calls) =
                                       IF ValidCalls(g, calls) THEN G[Len(calls)] ELSE <<>>
  BY <1>1, ValidateCollects
<1>3. ValidCalls(g, calls) /\ Planner!Validate(g, calls) = F[Len(calls)]
  BY <1>1, <1>2, CollectUnique
<1>4. F[Len(calls)] \in {q \in Seq(ActionsOfCalls(calls)) : Distinct(q)}
  BY <1>1
<1>5. QED
  BY <1>3, <1>4

-----------------------------------------------------------------------------
(***************************************************************************)
(* RemotePlanner: the pipeline.  Needle, the repair and the proposal write *)
(* anything; what comes of it was named by the text of its own request.    *)
(***************************************************************************)

\* A tool on the shortlist is one of the house whose device the text names.
LEMMA CandidateIsNamed ==
  ASSUME NEW g, NEW spoken, NEW tool \in Planner!Candidates(g, spoken)
  PROVE  /\ tool \in Planner!Schemas(g)
         /\ Words[tool[2]] \subseteq Planner!Normalize(spoken)
<1> DEFINE said == Planner!Normalize(spoken)
           devices == {t[2] : t \in {s \in Planner!Schemas(g) : s[1] # "get"}}
           matches == {m \in UNION {Planner!Labels(g, d) \X {d} : d \in devices} :
                         m[1] \subseteq said /\ Planner!LabelMatchesRoom(m[1], said)}
           named == {m[2] : m \in {n \in matches :
                       \A o \in matches : ~(n[1] \subseteq o[1] /\ n[1] # o[1] /\ n[2] # o[2])}}
<1>1. /\ tool \in Planner!Schemas(g)
      /\ \/ tool[1] = "get" /\ Words[tool[2]] \subseteq said
         \/ tool[2] \in named
  BY DEF Planner!Candidates
<1>2. ASSUME tool[2] \in named PROVE Words[tool[2]] \subseteq said
  <2>1. PICK m \in matches : m[2] = tool[2]
    BY <1>2
  <2>2. PICK d \in devices : m \in Planner!Labels(g, d) \X {d}
    OBVIOUS
  <2>3. m[2] = d /\ m[1] \in Planner!Labels(g, d) /\ m[1] \subseteq said
    BY <2>2
  <2>4. Words[d] \subseteq m[1]
    BY <2>3 DEF Planner!Labels
  <2>5. QED
    BY <2>1, <2>3, <2>4
<1>3. QED
  BY <1>1, <1>2

\* A room is made explicit once.
LEMMA NormalizedOnce ==
  ASSUME NEW said
  PROVE  Planner!Normalize(Planner!Normalize(said)) = Planner!Normalize(said)
  BY DEF Planner!Normalize

\* What the house may receive for the text t.
Fits(g, t, a) ==
  /\ Words[a.item] \subseteq Planner!Normalize(t)
  /\ a.command = "ON" => "on" \in t
  /\ a.command = "OFF" => "off" \in t
  /\ a.item \in Device /\ ~Planner!Excluded(g, a.item)

LEMMA CommandIsValue ==
  ASSUME NEW c, Planner!Action(c).command \in {"ON", "OFF"}
  PROVE  c.value = Planner!Action(c).command
  BY DEF Planner!Action

LEMMA OutcomesFit ==
  ASSUME NEW said, NEW q \in Planner!Outcomes(Planner!Normalize(said)), q # <<>>
  PROVE  Distinct(q) /\ DOMAIN q = 1..Len(q) /\ \A i \in 1..Len(q) : Fits(groups, said, q[i])
<1> DEFINE spoken == Planner!Normalize(said)
           shortlist == Planner!Candidates(groups, spoken)
<1>1. PICK r \in Planner!Response : q = Planner!ValidateResponse(spoken, shortlist, r)
  BY DEF Planner!Outcomes
<1>2. PICK n \in 0..(MaxPlanned + 1) : r.calls \in [1..n -> Proposed]
  BY DEF Planner!Response
<1> DEFINE calls == r.calls
<1>3. n \in Nat /\ Len(calls) = n /\ DOMAIN calls = 1..n
  BY <1>2, ProgramsAssumption
<1>4. /\ \A i \in 1..n : /\ calls[i].tool \in shortlist
                         /\ calls[i].value = "ON" => "on" \in spoken
                         /\ calls[i].value = "OFF" => "off" \in spoken
      /\ q = Planner!Validate(groups, calls)
  BY <1>1, <1>3 DEF Planner!ValidateResponse
<1> HIDE DEF spoken, shortlist, calls
<1>5. q \in Seq(ActionsOfCalls(calls)) /\ Distinct(q)
  BY <1>3, <1>4, ValidateIsRight
<1>6. ASSUME NEW k \in 1..n PROVE Fits(groups, said, Planner!Action(calls[k]))
  <2> DEFINE c == calls[k]
             a == Planner!Action(c)
  <2>1. /\ c.tool \in shortlist
        /\ c.value = "ON" => "on" \in spoken
        /\ c.value = "OFF" => "off" \in spoken
    BY <1>4
  <2> HIDE DEF c
  <2>2. a.item = c.tool[2]
    BY DEF Planner!Action
  <2>3. c.tool \in Planner!Schemas(groups) /\ Words[c.tool[2]] \subseteq spoken
    BY <2>1, CandidateIsNamed, NormalizedOnce DEF shortlist, spoken
  <2>4. c.tool[2] \in Device /\ ~Planner!Excluded(groups, c.tool[2])
    BY <2>3 DEF Planner!Schemas
  <2>5. ("on" \in spoken => "on" \in said) /\ ("off" \in spoken => "off" \in said)
    BY ProgramsAssumption DEF spoken, Planner!Normalize
  <2>6. (a.command = "ON" => c.value = "ON") /\ (a.command = "OFF" => c.value = "OFF")
    BY CommandIsValue
  <2> HIDE DEF a
  <2>7. Fits(groups, said, a)
    BY <2>1, <2>2, <2>3, <2>4, <2>5, <2>6 DEF Fits, spoken
  <2>8. QED
    BY <2>7 DEF a, c
<1>7. \A i \in 1..Len(q) : q[i] \in ActionsOfCalls(calls)
  BY <1>5
<1>8. \A i \in 1..Len(q) : Fits(groups, said, q[i])
  BY <1>3, <1>6, <1>7 DEF ActionsOfCalls
<1>9. DOMAIN q = 1..Len(q)
  BY <1>5
<1>10. QED
  BY <1>5, <1>8, <1>9

\* Nothing is returned before a stage has ended, and none begins with an ignored room.
PlannerInv ==
  /\ groups \in House /\ Planner!ActsOnWhatWasHeard
  /\ step # "planned" => actions = <<>>
  /\ step = "needle" => ~Planner!IgnoredRequest(heard)
  /\ step \in {"retry", "propose"} => ~Planner!IgnoredRequest(corrected)

\* A device that is not excluded has nothing ignored above it.
LEMMA NothingIgnoredAbove ==
  ASSUME groups \in House, NEW d \in Device, ~Planner!Excluded(groups, d)
  PROVE  /\ d \notin ExcludedNames /\ Planner!Above(d) \cap IgnoredGroups = {}
         /\ \A n \in {d} \cup (Planner!Above(d) \cap DOMAIN groups) :
               Words[n] \cap IgnoredRooms = {}
<1> DEFINE found == Planner!Ancestors(groups, d)
<1>1. d \in DOMAIN groups /\ IsFiniteSet(GroupNames(groups))
  BY ProgramsAssumption DEF GroupNames
<1>2. found \subseteq GroupNames(groups) /\ Upward(groups, d, found)
  BY <1>1, AncestorsAreAll
<1>3. /\ d \notin ExcludedNames /\ found \cap IgnoredGroups = {}
      /\ \A n \in {d} \cup (found \cap DOMAIN groups) : Words[n] \cap IgnoredRooms = {}
  BY DEF Planner!Excluded, Planner!IgnoredRequest
<1> HIDE DEF found
<1>4. Planner!Above(d) \subseteq found
  <2>1. found \in SUBSET UNION {groups[n] : n \in DOMAIN groups}
    BY <1>2 DEF GroupNames
  <2>2. groups[d] \subseteq found /\ \A n \in found \cap DOMAIN groups : groups[n] \subseteq found
    BY <1>2 DEF Upward
  <2>3. QED
    BY <2>1, <2>2 DEF Planner!Above
<1>5. QED
  BY <1>3, <1>4

LEMMA PlannerInit == Planner!Init => PlannerInv
  BY DEF Planner!Init, PlannerInv, Planner!ActsOnWhatWasHeard

\* A request that returns actions.
LEMMA NeedleKeepsPlannerInv ==
  ASSUME PlannerInv, NEW stage, NEW said \in {heard, corrected}, NEW next,
         Planner!Needle(stage, said, next), ~Planner!IgnoredRequest(said),
         stage = "needle" => next \in {"repair", "planned"},
         stage = "retry" => next = "propose" /\ said = corrected,
         stage = "propose" => next = "planned",
         stage \in {"needle", "retry", "propose"}
  PROVE  PlannerInv'
<1>1. /\ step = stage /\ actions' \in Planner!Outcomes(Planner!Normalize(said)) /\ basis' = said
      /\ step' = IF actions' # <<>> THEN "planned" ELSE next
      /\ UNCHANGED <<groups, token, heard, corrected>>
  BY DEF Planner!Needle
<1>2. groups' \in House
  BY <1>1 DEF PlannerInv
<1>3. CASE actions' = <<>>
  BY <1>1, <1>2, <1>3 DEF PlannerInv, Planner!ActsOnWhatWasHeard, Planner!IgnoredRequest
<1>4. CASE actions' # <<>>
  <2>1. /\ Distinct(actions') /\ DOMAIN actions' = 1..Len(actions')
        /\ \A i \in 1..Len(actions') : Fits(groups, said, actions'[i])
    BY <1>1, <1>4, OutcomesFit
  <2>2. \A i, j \in DOMAIN actions' : actions'[i] = actions'[j] => i = j
    BY <2>1 DEF Distinct
  <2>3. ASSUME NEW i \in DOMAIN actions'
        PROVE  /\ Words[actions'[i].item] \subseteq Planner!Meant' /\ Planner!Spoken(actions[i])'
               /\ actions'[i].item \notin ExcludedNames
               /\ Planner!Above(actions[i].item)' \cap IgnoredGroups = {}
               /\ \A n \in {actions'[i].item}
                          \cup (Planner!Above(actions[i].item)' \cap DOMAIN groups') :
                     Words[n] \cap IgnoredRooms = {}
    <3>1. Fits(groups, said, actions'[i])
      BY <2>1
    <3>2. Planner!Meant' = Planner!Normalize(said)
      BY <1>1 DEF Planner!Meant, Planner!Normalize
    <3>3. Words[actions'[i].item] \subseteq Planner!Meant' /\ Planner!Spoken(actions[i])'
      BY <1>1, <3>1, <3>2 DEF Fits, Planner!Spoken
    <3>4. PICK d \in Device : d = actions'[i].item
      BY <3>1 DEF Fits
    <3>5. /\ d \notin ExcludedNames /\ Planner!Above(d) \cap IgnoredGroups = {}
          /\ \A n \in {d} \cup (Planner!Above(d) \cap DOMAIN groups) :
                Words[n] \cap IgnoredRooms = {}
      BY <3>1, <3>4, NothingIgnoredAbove DEF Fits, PlannerInv
    <3>6. Planner!Above(actions[i].item)' = Planner!Above(d) /\ groups' = groups
      BY <1>1, <3>4 DEF Planner!Above
    <3>7. QED
      BY <3>3, <3>4, <3>5, <3>6
  <2>4. basis' \in {heard', corrected'} /\ ~Planner!IgnoredRequest(basis)'
    BY <1>1 DEF Planner!IgnoredRequest
  <2>5. Planner!ActsOnWhatWasHeard'
    BY <2>2, <2>3, <2>4 DEF Planner!ActsOnWhatWasHeard
  <2>6. step' = "planned"
    BY <1>1, <1>4
  <2>7. QED
    BY <1>2, <2>5, <2>6 DEF PlannerInv
<1>5. QED
  BY <1>3, <1>4

LEMMA PlannerNextKeepsPlannerInv == PlannerInv /\ [Planner!Next]_Planner!vars => PlannerInv'
<1> SUFFICES ASSUME PlannerInv, [Planner!Next]_Planner!vars PROVE PlannerInv'
  OBVIOUS
<1>1. CASE UNCHANGED Planner!vars
  <2>1. UNCHANGED <<step, groups, heard, corrected, actions, basis>>
    BY <1>1 DEF Planner!vars
  <2>2. Planner!ActsOnWhatWasHeard' = Planner!ActsOnWhatWasHeard
    BY <2>1 DEF Planner!ActsOnWhatWasHeard, Planner!IgnoredRequest, Planner!Meant,
       Planner!Spoken, Planner!Above
  <2>3. QED
    BY <2>1, <2>2 DEF PlannerInv, Planner!IgnoredRequest
<1>2. CASE Planner!Plan
  <2>1. actions' = <<>> /\ groups' = groups
    BY <1>2 DEF Planner!Plan, Planner!Ends
  <2>2. \/ step' = "planned"
        \/ step' = "needle" /\ ~Planner!IgnoredRequest(heard')
    BY <1>2 DEF Planner!Plan, Planner!Ends
  <2>3. Planner!ActsOnWhatWasHeard'
    BY <2>1 DEF Planner!ActsOnWhatWasHeard
  <2>4. QED
    BY <2>1, <2>2, <2>3 DEF PlannerInv, Planner!IgnoredRequest
<1>3. CASE Planner!Repair
  <2>1. actions' = <<>> /\ groups' = groups
    BY <1>3 DEF Planner!Repair, Planner!Ends, PlannerInv
  <2>2. \/ step' = "planned"
        \/ step' = "retry" /\ ~Planner!IgnoredRequest(corrected')
    BY <1>3 DEF Planner!Repair, Planner!Ends
  <2>3. Planner!ActsOnWhatWasHeard'
    BY <2>1 DEF Planner!ActsOnWhatWasHeard
  <2>4. QED
    BY <2>1, <2>2, <2>3 DEF PlannerInv, Planner!IgnoredRequest
<1>4. CASE Planner!Propose
  <2>1. Planner!Needle("propose", corrected, "planned")
    BY <1>4 DEF Planner!Propose
  <2>2. ~Planner!IgnoredRequest(corrected)
    BY <2>1 DEF Planner!Needle, PlannerInv
  <2>3. QED
    BY <2>1, <2>2, NeedleKeepsPlannerInv
<1>5. CASE Planner!Needle("needle", heard, IF token THEN "repair" ELSE "planned")
  <2>1. ~Planner!IgnoredRequest(heard)
    BY <1>5 DEF Planner!Needle, PlannerInv
  <2>2. QED
    BY <1>5, <2>1, NeedleKeepsPlannerInv
<1>6. CASE Planner!Needle("retry", corrected, "propose")
  <2>1. ~Planner!IgnoredRequest(corrected)
    BY <1>6 DEF Planner!Needle, PlannerInv
  <2>2. QED
    BY <1>6, <2>1, NeedleKeepsPlannerInv
<1>7. QED
  BY <1>1, <1>2, <1>3, <1>4, <1>5, <1>6 DEF Planner!Next

-----------------------------------------------------------------------------
(***************************************************************************)
(* The composition.  Every program keeps its own specification in it, for  *)
(* the steps of the others leave its state as it is; so what is proved of  *)
(* each holds in ProgramsSpec.  Adapter is WyomingAdapterProofs with the   *)
(* same variables: its definitions are those of Wyoming.                   *)
(***************************************************************************)
Adapter == INSTANCE WyomingAdapterProofs

LEMMA RunsEach ==
  ASSUME [ProgramsNext]_everything
  PROVE  /\ [Wyoming!Next]_Wyoming!vars
         /\ [Local!Next]_Local!vars
         /\ [Standalone!Next]_Standalone!vars
         /\ [Planner!Next]_Planner!vars
<1>1. CASE UNCHANGED everything
  BY <1>1 DEF everything, wyoming, locally, standalone, planner, Wyoming!vars, Wyoming!own,
     Local!vars, Standalone!vars, Planner!vars
<1>2. CASE ProgramsNext
  <2>1. Wyoming!Next \/ UNCHANGED wyoming
    BY <1>2 DEF ProgramsNext
  <2>2. Local!Next \/ UNCHANGED locally
    BY <1>2 DEF ProgramsNext
  <2>3. Standalone!Next \/ UNCHANGED standalone
    BY <1>2 DEF ProgramsNext
  <2>4. Planner!Next \/ UNCHANGED planner
    BY <1>2 DEF ProgramsNext
  <2>5. QED
    BY <2>1, <2>2, <2>3, <2>4 DEF wyoming, locally, standalone, planner, Wyoming!vars,
       Wyoming!own, Local!vars, Standalone!vars, Planner!vars
<1>3. QED
  BY <1>1, <1>2

LEMMA AdapterInit == Wyoming!Init <=> Adapter!Init
  BY DEF Wyoming!Init, Wyoming!NoLink, Adapter!Init, Adapter!NoLink

LEMMA AdapterNext == [Wyoming!Next]_Wyoming!vars <=> [Adapter!Next]_Adapter!vars
  BY DEF
  Wyoming!Next, Wyoming!vars, Wyoming!own, Wyoming!Event, Wyoming!Handler, Wyoming!Service,
  Wyoming!Ignored, Wyoming!ReadFails, Wyoming!Described, Wyoming!Writes, Wyoming!HangUp, Wyoming!Closes,
  Wyoming!Describe, Wyoming!Unacceptable, Wyoming!ReadEnds, Wyoming!Transcribe,
  Wyoming!AudioStart, Wyoming!AudioChunk, Wyoming!AudioStop, Wyoming!Synthesize,
  Wyoming!Connect, Wyoming!Ready, Wyoming!CanSend, Wyoming!Send, Wyoming!Forward,
  Wyoming!Finish, Wyoming!Awaited, Wyoming!Answer, Wyoming!Waits, Wyoming!Fails,
  Wyoming!Refuse, Wyoming!ClientGone, Wyoming!Accept, Wyoming!SpeechReady, Wyoming!Speak,
  Wyoming!TakeResult, Wyoming!Emits, Wyoming!Serve, Wyoming!ServiceTimesOut,
  Wyoming!ServeIdle, Wyoming!ServiceGone, Wyoming!Go, Wyoming!Disconnect, Wyoming!NoLink,
  Adapter!Next, Adapter!vars, Adapter!own, Adapter!Event, Adapter!Handler, Adapter!Service,
  Adapter!Ignored, Adapter!ReadFails, Adapter!Described, Adapter!Writes, Adapter!HangUp, Adapter!Closes,
  Adapter!Describe, Adapter!Unacceptable, Adapter!ReadEnds, Adapter!Transcribe,
  Adapter!AudioStart, Adapter!AudioChunk, Adapter!AudioStop, Adapter!Synthesize,
  Adapter!Connect, Adapter!Ready, Adapter!CanSend, Adapter!Send, Adapter!Forward,
  Adapter!Finish, Adapter!Awaited, Adapter!Answer, Adapter!Waits, Adapter!Fails,
  Adapter!Refuse, Adapter!ClientGone, Adapter!Accept, Adapter!SpeechReady, Adapter!Speak,
  Adapter!TakeResult, Adapter!Emits, Adapter!Serve, Adapter!ServiceTimesOut,
  Adapter!ServeIdle, Adapter!ServiceGone, Adapter!Go, Adapter!Disconnect, Adapter!NoLink

LEMMA RunsAdapter == ProgramsSpec => Adapter!Spec
<1>1. ProgramsInit => Adapter!Init
  BY AdapterInit DEF ProgramsInit
<1>2. [ProgramsNext]_everything => [Adapter!Next]_Adapter!vars
  BY RunsEach, AdapterNext
<1>3. QED
  BY <1>1, <1>2, PTL DEF ProgramsSpec, Adapter!Spec, everything

-----------------------------------------------------------------------------
\* The transcript the adapter writes was made of all the audio of its stream, and
\* an utterance beyond the service's own limit has none (receive_result).
THEOREM TranscriptsAreWhole == ProgramsSpec => []TranscriptIsWhole
<1>1. Adapter!Spec => []Adapter!TranscriptIsWhole
  BY ProgramsAssumption, Adapter!TranscriptsAreWhole
<1>2. Adapter!TranscriptIsWhole => TranscriptIsWhole
  BY DEF Adapter!TranscriptIsWhole, TranscriptIsWhole, Wyoming!TranscriptIsWhole
<1>3. QED
  BY <1>1, <1>2, RunsAdapter, PTL

\* While the adapter sends or waits, somebody drains the service: a long utterance
\* cannot block on the worker's output queue (the result task begins with the stream).
THEOREM ServiceIsDrained == ProgramsSpec => []NeverStalls
<1>1. Adapter!Spec => []Adapter!NeverStalls
  BY ProgramsAssumption, Adapter!ServiceIsDrained
<1>2. Adapter!NeverStalls => NeverStalls
  BY DEF Adapter!NeverStalls, NeverStalls, Wyoming!NeverStalls
<1>3. QED
  BY <1>1, <1>2, RunsAdapter, PTL

\* No client of the service leaves a connection: the adapter has one at most and
\* knows it (disconnect in every handler), and a call of StandaloneClient that has
\* ended, however it ended, has closed its own (the with statement).
THEOREM ConnectionsAreClosed == ProgramsSpec => []NoConnectionLeaks
<1>1. Adapter!Spec => []Adapter!NoBackendLeaks
  BY ProgramsAssumption, Adapter!ConnectionsAreClosed
<1>2. ProgramsInit => ClientInv
  BY ClientInit DEF ProgramsInit
<1>3. ClientInv /\ [ProgramsNext]_everything => ClientInv'
  BY RunsEach, ClientNextKeepsClientInv
<1>4. Adapter!NoBackendLeaks /\ ClientInv => NoConnectionLeaks
  BY DEF Adapter!NoBackendLeaks, ClientInv, NoConnectionLeaks, Wyoming!NoBackendLeaks
<1>5. QED
  BY <1>1, <1>2, <1>3, <1>4, RunsAdapter, PTL DEF ProgramsSpec, everything

\* A command that the assistant sends without a service was heard whole, in a session
\* that was authorized since it began, whatever is recognized and however long the
\* limits are (control.py, audio.py).
THEOREM CommandsAreWhole == ProgramsSpec => []ActsOnWholeCommand
<1>1. ProgramsInit => LocalInv
  BY LocalInitIsRight DEF ProgramsInit
<1>2. LocalInv /\ [ProgramsNext]_everything => LocalInv'
  BY RunsEach, LocalNextKeepsLocalInv
<1>3. LocalInv => ActsOnWholeCommand
  BY DEF LocalInv, Commands, ActsOnWholeCommand, Local!ActsOnWholeCommand
<1>4. QED
  BY <1>1, <1>2, <1>3, PTL DEF ProgramsSpec, everything

\* What is recognized goes to the line of its own wake, and nowhere while the wake
\* is in doubt (transcript.py, the assistant of __main__).
THEOREM TextsFindTheirLine == ProgramsSpec => []PageFollowsSession
<1>1. ProgramsInit => LocalInv
  BY LocalInitIsRight DEF ProgramsInit
<1>2. LocalInv /\ [ProgramsNext]_everything => LocalInv'
  BY RunsEach, LocalNextKeepsLocalInv
<1>3. LocalInv => PageFollowsSession
  BY DEF LocalInv, Shapes, Commands, Authorized, PageFollowsSession, Local!PageFollowsSession
<1>4. QED
  BY <1>1, <1>2, <1>3, PTL DEF ProgramsSpec, everything

\* Between two detections it was quiet for Rearm steps in a row: one phrase that
\* lingers over the threshold makes one session (wake_word.py).
THEOREM OnePhraseOneSession == ProgramsSpec => OneSessionPerPhrase
<1> DEFINE Inv == LocalInv /\ DetectorWaits
<1>1. ProgramsInit => Inv
  BY ProgramsAssumption, LocalInitIsRight, DetectorInit DEF ProgramsInit
<1>2. Inv /\ [ProgramsNext]_everything => Inv'
  BY ProgramsAssumption, RunsEach, LocalNextKeepsLocalInv, NextKeepsDetector DEF LocalInv, Shapes
<1>3. Inv => (det.armed /\ ~det'.armed => past.settled)
  BY DEF DetectorWaits
<1>4. QED
  BY <1>1, <1>2, <1>3, PTL DEF ProgramsSpec, everything, OneSessionPerPhrase,
     Local!OneSessionPerPhrase

\* A call that its own sending thread ended because of the consumer's audio raises
\* that, and not the loss of the connection that this looks like (client.py).
THEOREM CauseIsAlwaysRaised == ProgramsSpec => CauseIsRaised
<1>1. ProgramsInit => ClientInv
  BY ClientInit DEF ProgramsInit
<1>2. ClientInv /\ [ProgramsNext]_everything => ClientInv'
  BY RunsEach, ClientNextKeepsClientInv
<1>3. ClientInv /\ [ProgramsNext]_everything
        => (call.at = "receiving" /\ call'.at = "leaving" /\ socket.over = "producer"
            => call'.raised = "producer")
  BY RunsEach, CauseStep
<1>4. QED
  BY <1>1, <1>2, <1>3, PTL DEF ProgramsSpec, everything, CauseIsRaised, Standalone!CauseIsRaised

\* What is sent to the house fits the text it was planned for, whatever the models
\* propose: each device is named in it, "on" and "off" are said, nothing is done twice,
\* and nothing that is excluded or lies in an ignored group or room (ItemPolicy).
THEOREM ActsOnWhatIsHeard == ProgramsSpec => []ActsOnWhatWasHeard
<1>1. ProgramsInit => PlannerInv
  BY PlannerInit DEF ProgramsInit
<1>2. PlannerInv /\ [ProgramsNext]_everything => PlannerInv'
  BY RunsEach, PlannerNextKeepsPlannerInv
<1>3. PlannerInv => ActsOnWhatWasHeard
  BY DEF PlannerInv, ActsOnWhatWasHeard
<1>4. QED
  BY <1>1, <1>2, <1>3, PTL DEF ProgramsSpec, everything

=============================================================================
