--------------------------- MODULE PlannedRequest ---------------------------
(***************************************************************************)
(* What the user of a planner is promised, whatever models propose: a      *)
(* request is planned once, completely, from what is allowed for it; the   *)
(* planned calls are made one at a time, in order, each at most once; a    *)
(* call that is not known to have succeeded is the last.  HomeAgent is     *)
(* shown to implement this module.                                         *)
(***************************************************************************)
EXTENDS Integers, Sequences

CONSTANT Call            \* tool calls with their arguments

VARIABLES phase,         \* "asked", "ready", "waiting", "answered"
          allowed,       \* the calls that may be made for this request
          plan,          \* the calls to make
          made           \* the calls made

requestVars == <<phase, allowed, plan, made>>

NoneTwice(s) == \A i, j \in 1..Len(s) : s[i] = s[j] => i = j

RequestInit == /\ phase = "answered"
               /\ allowed \subseteq Call
               /\ plan = <<>> /\ made = <<>>

Ask == /\ phase = "answered"
       /\ phase' = "asked"
       /\ allowed' \in SUBSET Call
       /\ plan' = <<>> /\ made' = <<>>

Plan == /\ phase = "asked"
        /\ phase' = "ready"
        /\ plan' \in Seq(allowed)
        /\ NoneTwice(plan')
        /\ UNCHANGED <<allowed, made>>

Make == /\ phase = "ready"
        /\ Len(made) < Len(plan)
        /\ phase' = "waiting"
        /\ made' = Append(made, plan[Len(made) + 1])
        /\ UNCHANGED <<allowed, plan>>

Succeed == /\ phase = "waiting"
           /\ phase' = "ready"
           /\ UNCHANGED <<allowed, plan, made>>

\* The answer ends the request: nothing to make, everything made, or a call
\* that failed or may have failed.
Answer == /\ \/ phase \in {"asked", "waiting"}
             \/ phase = "ready" /\ made = plan
          /\ phase' = "answered"
          /\ UNCHANGED <<allowed, plan, made>>

RequestNext == Ask \/ Plan \/ Make \/ Succeed \/ Answer

RequestSpec == RequestInit /\ [][RequestNext]_requestVars

=============================================================================
