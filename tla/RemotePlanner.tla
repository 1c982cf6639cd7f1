--------------------------- MODULE RemotePlanner ---------------------------
(***************************************************************************)
(* RemotePlanner.plan (src/jarvis/remote_rpc.py) with GroqFallback         *)
(* (groq_fallback.py): from a transcript to actions, by Needle, by Needle  *)
(* with a repaired transcript, or by a proposal of Groq.  Each of these    *)
(* requests may answer anything, fail or time out.                         *)
(***************************************************************************)
EXTENDS Catalog

CONSTANTS House,         \* the group memberships considered
          Text,          \* transcripts, as sets of words
          RawCall        \* calls as a model may write them

VARIABLES step,          \* the stage
          groups,        \* the house
          token,         \* a Groq token is configured
          heard,         \* the transcript
          corrected,     \* the repaired transcript
          actions,       \* what plan() returned
          basis          \* the text it was planned for

vars == <<step, groups, token, heard, corrected, actions, basis>>

Response == [sure : BOOLEAN, calls : UNION {[1..n -> RawCall] : n \in 0..(MaxCalls + 1)}]

\* validate_response(): of the tools on the shortlist, ON and OFF only if spoken.
ValidateResponse(text, schemas, r) ==
  IF /\ r.sure
     /\ \A i \in DOMAIN r.calls : r.calls[i].tool \in schemas
     /\ \A i \in DOMAIN r.calls :
          /\ r.calls[i].value = "ON" => "on" \in text
          /\ r.calls[i].value = "OFF" => "off" \in text
  THEN Validate(groups, r.calls)
  ELSE <<>>

\* Bug: the answer may use every tool, as propose() offers them if the shortlist
\* is empty.
OutcomesUnlisted(text) ==
  {ValidateResponse(text, Schemas(groups), r) : r \in Response}

\* What plan() may make of the answers to a request about the text.
Outcomes(text) ==
  LET schemas == Candidates(groups, text)
  IN {ValidateResponse(text, schemas, r) : r \in Response}

Init == /\ step = "planned" /\ groups \in House /\ token \in BOOLEAN
        /\ heard = {} /\ corrected = {}
        /\ actions = <<>> /\ basis = {}

\* A request about an ignored room ends here, and so does one that parse_clock,
\* parse_weather or parse_timer answers without a model.
Ends(text) == /\ step' = "planned" /\ actions' = <<>> /\ basis' = text

Plan == /\ step = "planned"
        /\ \E text \in Text :
             /\ heard' = text /\ corrected' = text
             /\ \/ Ends(text)
                \/ /\ ~IgnoredRequest(text)
                   /\ step' = "needle" /\ actions' = <<>> /\ basis' = text
        /\ UNCHANGED <<groups, token>>

\* _try_needle(): a failure is an empty result.
Needle(stage, text, next) ==
  /\ step = stage
  /\ actions' \in Outcomes(Normalize(text))
  /\ basis' = text
  /\ step' = IF actions' # <<>> THEN "planned" ELSE next
  /\ UNCHANGED <<groups, token, heard, corrected>>

\* The repair may say anything; if it fails the text stays as it is.
Repair == /\ step = "repair"
          /\ \E text \in Text \cup {heard} :
               /\ corrected' = text
               /\ \/ Ends(text)
                  \/ /\ ~IgnoredRequest(text)
                     /\ step' = "retry"
                     /\ UNCHANGED <<actions, basis>>
          /\ UNCHANGED <<groups, token, heard>>

Propose == Needle("propose", corrected, "planned")

Next == \/ Plan \/ Repair \/ Propose
        \/ Needle("needle", heard, IF token THEN "repair" ELSE "planned")
        \/ Needle("retry", corrected, "propose")

Spec == Init /\ [][Next]_vars

-----------------------------------------------------------------------------
(* Properties.                                                             *)

\* The groups above an item: what every set of groups that contains those of the
\* item, and with each group those of the group, contains.
Above(d) ==
  LET names == UNION {groups[n] : n \in DOMAIN groups}
      Closed(S) == \A n \in S \cap DOMAIN groups : groups[n] \subseteq S
  IN {n \in names : \A S \in SUBSET names : groups[d] \subseteq S /\ Closed(S) => n \in S}

Spoken(a) == /\ a.command = "ON" => "on" \in basis
             /\ a.command = "OFF" => "off" \in basis

\* What a bare room means.
Meant == IF Room \in basis /\ basis \cap Qualifiers = {} THEN basis \cup {Default} ELSE basis

\* Whichever of the three requests the actions come from, each names a device of
\* the text it was planned for, completely and in the room that was said; the
\* device is not excluded by itself or by any group above it, however groups are
\* nested; nothing is done in or about an ignored room; ON and OFF were spoken;
\* no action is there twice.
ActsOnWhatWasHeard ==
  actions # <<>> =>
    /\ basis \in {heard, corrected} /\ ~IgnoredRequest(basis)
    /\ \A i, j \in DOMAIN actions : actions[i] = actions[j] => i = j
    /\ \A i \in DOMAIN actions :
         LET d == actions[i].item
         IN /\ Words[d] \subseteq Meant /\ Spoken(actions[i])
            /\ d \notin ExcludedNames /\ Above(d) \cap IgnoredGroups = {}
            /\ \A n \in {d} \cup (Above(d) \cap DOMAIN groups) : Words[n] \cap IgnoredRooms = {}

=============================================================================
