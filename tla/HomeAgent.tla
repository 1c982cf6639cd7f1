----------------------------- MODULE HomeAgent -----------------------------
(***************************************************************************)
(* The conversation agent in Home Assistant: conversation.py and           *)
(* planner.py in src/custom_components/jarvis_conversation.  A message is  *)
(* planned by up to four requests (Needle, Groq's repair, Needle again,    *)
(* Groq's proposal), each of which may answer anything, fail or time out;  *)
(* then the calls of the plan are executed by Home Assistant's tools.      *)
(*                                                                         *)
(* The handler of one message awaits at each of these places, and nothing  *)
(* else writes its state.  A text is known by the kinds of words that      *)
(* select_tools looks for, a tool by whether its name reads like a query,  *)
(* a response by its confidence, its calls and whether it has a reply, and *)
(* the speech of a result by its length.                                   *)
(***************************************************************************)
EXTENDS Integers, Sequences, FiniteSets

CONSTANTS Tool,          \* the tools Home Assistant exposes
          Reads,         \* those whose name contains "get" or "search"
          Arg,           \* arguments as a model may write them
          Coerced,       \* Coerced[a]: a as the tool's schema returns it
          Invalid,       \* what the schema refuses
          Top,           \* tools offered to the models (10 in the code)
          MaxCalls,      \* calls of a plan (8 in the code)
          Room           \* length of a reply (900 characters in the code)

ASSUME AgentAssumption == /\ Reads \subseteq Tool
                          /\ Coerced \in [Arg -> Arg \cup {Invalid}]
                          /\ Invalid \notin Arg
                          /\ Top \in Nat /\ MaxCalls \in Nat /\ Room \in Nat \ {0}

VARIABLES at,            \* where the handler is
          text,          \* the message
          schemas,       \* the tools offered for it
          keyed,         \* a Groq key is configured
          local,         \* needle_available
          plan,          \* the calls of the plan
          made,          \* the calls begun
          failed,        \* failed: the call begun last is not known to have succeeded
          got,           \* received_result
          filled,        \* the length of the replies so far, up to Room
          told           \* the reply tells that something may have failed

request == <<text, schemas, keyed, local>>
speech == <<filled, told>>
vars == <<at, request, plan, made, failed, got, speech>>

\* verb: "strong" for a word that always asks for a change (turn, set, open),
\* "weak" for one that a question may contain as well (on, off, dim).
Text == [verb : {"none", "weak", "strong"}, question : BOOLEAN, conditional : BOOLEAN]

ReadOnly(t) == \/ t.verb = "none"
               \/ t.question /\ t.verb # "strong"
               \/ t.conditional

\* select_tools(): if nothing is to be changed, those whose name reads like a query.
\* What a tool does is not looked at.
Selectable(t) == IF ReadOnly(t) THEN Reads ELSE Tool

\* The best ones by a score that depends on wording.
Selected(t) == {S \in SUBSET Selectable(t) : Cardinality(S) <= Top}

RawCall == [tool : Tool, arg : Arg]
\* A call with coerced arguments.
Call == [tool : Tool, arg : {Coerced[a] : a \in Arg} \ {Invalid}]

Response == [sure : BOOLEAN, reply : BOOLEAN,
             calls : UNION {[1..n -> RawCall] : n \in 0..(MaxCalls + 1)}]

Coerce(calls) == [i \in DOMAIN calls |-> [calls[i] EXCEPT !.arg = Coerced[@]]]

\* Bug: a call is compared with the others before its arguments are coerced.
AcceptedRaw(r, stage) ==
  /\ r.sure /\ Len(r.calls) <= MaxCalls
  /\ \A i \in DOMAIN r.calls : r.calls[i].tool \in schemas /\ Coerced[r.calls[i].arg] # Invalid
  /\ \A i, j \in DOMAIN r.calls : r.calls[i] = r.calls[j] => i = j
  /\ r.calls # <<>> \/ (stage = "groq" /\ r.reply)

\* validate_plan(): all of the proposal or nothing.
Accepted(r, stage) ==
  /\ r.sure /\ Len(r.calls) <= MaxCalls
  /\ \A i \in DOMAIN r.calls : r.calls[i].tool \in schemas /\ Coerced[r.calls[i].arg] # Invalid
  /\ LET calls == Coerce(r.calls)
     IN \A i, j \in DOMAIN calls : calls[i] = calls[j] => i = j
  /\ r.calls # <<>> \/ (stage = "groq" /\ r.reply)

Init == /\ at = "answered"
        /\ text = [verb |-> "none", question |-> FALSE, conditional |-> FALSE]
        /\ schemas = {}
        /\ keyed \in BOOLEAN /\ local = TRUE
        /\ plan = <<>> /\ made = <<>>
        /\ failed = FALSE /\ got = FALSE
        /\ filled = 0 /\ told = FALSE

-----------------------------------------------------------------------------
(* Planning.                                                               *)

\* A message that needs no model ends here: a clock question, no access to the
\* tools, a blank or overlong text.
Ask == /\ at = "answered"
       /\ text' \in Text
       /\ schemas' \in Selected(text')
       /\ local' = TRUE
       /\ at' \in {"needle", "shortcut"}
       /\ plan' = <<>> /\ made' = <<>> /\ failed' = FALSE /\ got' = FALSE
       /\ filled' = 0 /\ told' = FALSE
       /\ UNCHANGED keyed

Shortcut == /\ at = "shortcut"
            /\ at' = "answered"
            /\ UNCHANGED <<request, plan, made, failed, got, speech>>

Planning == {"needle", "repair", "retry", "propose"}

\* The stage of a planner that follows when a stage yields nothing.
After(stage, available) == IF stage = "repair" /\ available THEN "retry" ELSE "propose"

\* An accepted response ends the planning.
Accept(stage) ==
  /\ at = stage /\ stage # "repair"
  /\ stage \in {"needle", "retry"} => schemas # {}
  /\ \E r \in Response : /\ Accepted(r, IF stage = "propose" THEN "groq" ELSE stage)
                         /\ plan' = Coerce(r.calls)
  /\ at' = "ready"
  /\ UNCHANGED <<request, made, failed, got, speech>>

\* Needle: a response that is not accepted, or a failure the code expects.
\* Without a Groq key, or after the last stage, a fixed reply is the plan.
NeedleFails ==
  /\ at = "needle"
  /\ local' \in (IF schemas = {} THEN {FALSE} ELSE BOOLEAN)
  /\ at' = IF keyed THEN "repair" ELSE "answered"
  /\ UNCHANGED <<text, schemas, keyed, plan, made, failed, got, speech>>

\* Bug: the tools are selected again, for the repaired text.
RepairAnew == /\ at = "repair"
              /\ at' = After("repair", local)
              /\ \E t \in Text : schemas' \in Selected(t)
              /\ UNCHANGED <<text, keyed, local, plan, made, failed, got, speech>>

\* The repaired text, or the original one if there is none: the tools stay
\* those selected for the original.
Repair == /\ at = "repair"
          /\ at' = After("repair", local)
          /\ UNCHANGED <<request, plan, made, failed, got, speech>>

RetryFails == /\ at = "retry"
              /\ at' = After("retry", local)
              /\ UNCHANGED <<request, plan, made, failed, got, speech>>

ProposalFails == /\ at = "propose"
                 /\ at' = "answered"
                 /\ UNCHANGED <<request, plan, made, failed, got, speech>>

\* Bug: the limit is that of Needle, and not of all stages together.
PlanningEndsEarly == /\ at \in {"needle", "retry"}
                     /\ at' = "answered"
                     /\ told' = TRUE
                     /\ UNCHANGED <<request, plan, made, failed, got, filled>>

\* The 65 s of the whole planning, or an exception no stage expects.
PlanningEnds == /\ at \in Planning
                /\ at' = "answered"
                /\ told' = TRUE
                /\ UNCHANGED <<request, plan, made, failed, got, filled>>

-----------------------------------------------------------------------------
(* Execution.                                                              *)

\* A part of the reply, of any length; what does not fit is cut off.
Say(warning) == \E n \in 1..Room :
  /\ filled' = IF filled + n > Room THEN Room ELSE filled + n
  /\ told' = (told \/ (warning /\ filled + n <= Room))

\* Bug: the results of a call are collected after the next one is begun.
BeginNext == /\ at \in {"ready", "calling"} /\ Len(made) < Len(plan)
             /\ at' = "calling"
             /\ made' = Append(made, plan[Len(made) + 1])
             /\ failed' = TRUE /\ got' = FALSE
             /\ UNCHANGED <<request, plan, speech>>

Begin == /\ at = "ready" /\ Len(made) < Len(plan)
         /\ at' = "calling"
         /\ made' = Append(made, plan[Len(made) + 1])
         /\ failed' = TRUE /\ got' = FALSE
         /\ UNCHANGED <<request, plan, speech>>

\* One result of the tool, as result_speech reads it.
Result == /\ at = "calling"
          /\ got' = TRUE
          /\ \E error \in BOOLEAN : failed' = error /\ Say(error)
          /\ UNCHANGED <<at, request, plan, made>>

\* Bug: no result at all counts as success in the reply.
SilentCallEnds == /\ at = "calling"
                  /\ at' = IF failed THEN "answered" ELSE "ready"
                  /\ UNCHANGED <<request, plan, made, failed, got, speech>>

\* No more results.
CallEnds == /\ at = "calling"
            /\ IF got THEN UNCHANGED speech ELSE Say(TRUE)
            /\ at' = IF failed THEN "answered" ELSE "ready"
            /\ UNCHANGED <<request, plan, made, failed, got>>

\* The 30 s of a call, or an exception: the reply is replaced.
CallBreaks == /\ at = "calling"
              /\ at' = "answered"
              /\ told' = TRUE
              /\ UNCHANGED <<request, plan, made, failed, got, filled>>

Finish == /\ at = "ready" /\ Len(made) = Len(plan)
          /\ at' = "answered"
          /\ UNCHANGED <<request, plan, made, failed, got, speech>>

Stages == \/ \E stage \in Planning : Accept(stage)
          \/ NeedleFails \/ Repair \/ RetryFails \/ ProposalFails

Handle == \/ Shortcut \/ Stages \/ Begin \/ CallEnds \/ Finish

Next == Ask \/ Handle \/ PlanningEnds \/ Result \/ CallBreaks

Spec == Init /\ [][Next]_vars

\* The handler goes on, and its deadlines strike; a tool need not end.
Fairness == WF_vars(Shortcut \/ Begin \/ Finish) /\ WF_vars(PlanningEnds) /\ WF_vars(CallBreaks)

FairSpec == Spec /\ Fairness

-----------------------------------------------------------------------------
(* Properties.                                                             *)

TypeOK == /\ at \in Planning \cup {"answered", "shortcut", "ready", "calling"}
          /\ text \in Text /\ schemas \subseteq Tool
          /\ keyed \in BOOLEAN /\ local \in BOOLEAN
          /\ plan \in Seq(Call) /\ made \in Seq(Call)
          /\ failed \in BOOLEAN /\ got \in BOOLEAN
          /\ filled \in 0..Room /\ told \in BOOLEAN

Phase == CASE at \in Planning \cup {"shortcut"} -> "asked"
           [] at = "calling" -> "waiting"
           [] OTHER -> at

\* What the text allows, whatever was repaired or proposed on the way.
Allowed == {c \in Call : c.tool \in Selectable(text)}

Promise == INSTANCE PlannedRequest WITH phase <- Phase, allowed <- Allowed

\* The agent implements PlannedRequest: each message is planned once, before
\* anything is executed, with tools that select_tools allows for its own words (not
\* those of a repair); the calls are made in order, none twice, none after one that
\* failed or may have failed.
\* (conversation.py: "One call at a time, so a failure cannot trigger later
\* actions", "never replan or replay an executed call".)
ImplementsPlannedRequest == Promise!RequestSpec

\* A call that is not known to have succeeded is told to the user, unless what
\* was said before fills the reply, which is cut after 900 characters.
FailureIsTold == at = "answered" /\ failed => told \/ filled = Room

\* Every message is answered, whatever the models and the tools do: the
\* deadlines of planning and of each call cover every place where it waits.
EveryMessageIsAnswered == at # "answered" ~> at = "answered"

=============================================================================
