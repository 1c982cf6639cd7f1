------------------------------ MODULE Catalog ------------------------------
(***************************************************************************)
(* What a client knows of the house, and what it lets a model do there:    *)
(* Catalog (src/jarvis/control.py) and ItemPolicy (item_policy.py).  The   *)
(* operators are pure; g[n] is the set of groups that item n belongs to.   *)
(*                                                                         *)
(* A text or a label is the set of its words.  Spelling, synonyms, name    *)
(* patterns (part of ExcludedNames) and room_mappings are left out.        *)
(***************************************************************************)
EXTENDS Integers, Sequences, SequencesExt

CONSTANTS Device,        \* the items that are not groups
          Kind,          \* Kind[d]: the type of the item
          Words,         \* Words[n]: the words of the label of an item or group
          ExcludedNames, IgnoredGroups, IgnoredRooms,
          RoomGroups,    \* RoomGroups[r]: the groups whose items are in room r
          Room, Qualifiers, Default,
                         \* "bedroom", the words that tell bedrooms apart, and the
                         \* one a bare "bedroom" stands for (room_defaults)
          MaxCalls       \* 12 in the code

\* Bug: only the groups of the item itself count.
Parents(g, d) == g[d]

\* One turn of the loop of ancestors(), whose state is visited and pending: a group
\* need not be in the catalogue, and groups may contain one another.
Turn(g, s) ==
  LET name == CHOOSE n \in s[2] : TRUE
      rest == s[2] \ {name}
  IN IF name \in s[1] THEN <<s[1], rest>>
     ELSE <<s[1] \cup {name}, IF name \in DOMAIN g THEN rest \cup g[name] ELSE rest>>

Ancestors(g, d) ==
  LET Names == UNION {g[n] : n \in DOMAIN g}
      climb[s \in (SUBSET Names) \X SUBSET Names] == IF s[2] = {} THEN s[1] ELSE climb[Turn(g, s)]
  IN climb[<<{}, g[d]>>]

IgnoredRequest(text) == text \cap IgnoredRooms # {}

Excluded(g, d) ==
  LET above == Ancestors(g, d)
  IN \/ d \in ExcludedNames
     \/ above \cap IgnoredGroups # {}
     \/ \E n \in {d} \cup (above \cap DOMAIN g) : IgnoredRequest(Words[n])

\* Bug: the default room replaces whatever was said.
NormalizeAlways(text) == IF Room \in text THEN (text \ Qualifiers) \cup {Default} ELSE text

\* A bare room stands for the default one; a qualified one is left alone.
Normalize(text) == IF Room \in text /\ text \cap Qualifiers = {} THEN text \cup {Default} ELSE text

\* The label, and one with the room for each room whose groups contain the item.
Labels(g, d) == {Words[d]} \cup
  {Words[d] \cup {r} : r \in {q \in DOMAIN RoomGroups : Ancestors(g, d) \cap RoomGroups[q] # {}}}

LabelMatchesRoom(label, text) ==
  Room \in label /\ text \cap Qualifiers # {} => label \cap text \cap Qualifiers # {}

-----------------------------------------------------------------------------
(* Tools and calls.                                                        *)

ActionsOf(kind) == CASE kind = "Switch" -> {"switch"}
                     [] kind = "Dimmer" -> {"switch", "level"}
                     [] kind = "Rollershutter" -> {"move", "position"}
                     [] kind = "Player" -> {"play"}
                     [] kind = "Sensor" -> {"get"}
                     [] OTHER -> {}

\* The schemas of Catalog.__init__ and add().
Schemas(g) == {t \in {"switch", "level", "move", "position", "play", "get"} \X Device :
                 ~Excluded(g, t[2]) /\ t[1] \in ActionsOf(Kind[t[2]])}

Numeric == {"level", "position"}

Values(action) == CASE action = "switch" -> {"ON", "OFF"}
                    [] action = "move" -> {"open", "close", "stop"}
                    [] action = "play" -> {"PLAY", "PAUSE", "NEXT", "PREVIOUS"}
                    [] action = "get" -> {"nothing"}
                    [] OTHER -> {"0", "50", "100"}

\* What the house receives for a call.
Action(call) == [item |-> call.tool[2],
                 command |-> CASE call.value = "open" -> "UP"
                               [] call.value = "close" -> "DOWN"
                               [] call.value = "stop" -> "STOP"
                               [] OTHER -> call.value]

\* validate(): all calls or none (<<>>), each action once.
Validate(g, calls) ==
  LET Valid(call) == call.tool \in Schemas(g) /\ call.value \in Values(call.tool[1])
      done[n \in 0..Len(calls)] ==
        IF n = 0 THEN <<>>
        ELSE IF Contains(done[n - 1], Action(calls[n])) THEN done[n - 1]
        ELSE Append(done[n - 1], Action(calls[n]))
  IN IF Len(calls) \in 1..MaxCalls /\ \A i \in DOMAIN calls : Valid(calls[i])
     THEN done[Len(calls)] ELSE <<>>

\* candidates(): the tools of the devices that the text names completely.  A name
\* that is contained in the longer one of another device yields to it.
Candidates(g, spoken) ==
  LET text == Normalize(spoken)
      asked == {t \in Schemas(g) : /\ t[1] = "get"
                                   /\ "temperature" \in text
                                   /\ Words[t[2]] \subseteq text}
      devices == {t[2] : t \in {s \in Schemas(g) : s[1] # "get"}}
      matches == {m \in UNION {Labels(g, d) \X {d} : d \in devices} :
                    m[1] \subseteq text /\ LabelMatchesRoom(m[1], text)}
      named == {m[2] : m \in {n \in matches :
                  \A o \in matches : ~(n[1] \subseteq o[1] /\ n[1] # o[1] /\ n[2] # o[2])}}
  IN IF IgnoredRequest(spoken) THEN {}
     ELSE asked \cup {t \in Schemas(g) : /\ t[2] \in named /\ t[1] # "get"
                                         /\ (t[1] \in Numeric) = ("dim" \in text)}

=============================================================================
