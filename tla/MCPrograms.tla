----------------------------- MODULE MCPrograms -----------------------------
(***************************************************************************)
(* Five programs for TLC that share nothing but the service, which each of *)
(* them has as an environment that may do anything: the agent in Home      *)
(* Assistant, the Wyoming adapter, the planner of the client, the          *)
(* assistant without a service, and the client that other projects use.    *)
(* One of them is chosen and runs; the state of the others is fixed.       *)
(***************************************************************************)
EXTENDS HomeAgent, FiniteSets, TLC

CONSTANTS Limit, WorkerLimit, ChunkSize, Window,                \* WyomingAdapter
          Confirmations, Rearm, Cooldown, PreRoll, Lead, Pause, \* LocalMode
          MaxUtterance, Continuation, MaxActions,
          Backlog,                                              \* StandaloneClient
          Device, Kind, Words, ExcludedNames, IgnoredGroups,    \* RemotePlanner
          IgnoredRooms, RoomGroups, Bedroom, Qualifiers, Default,
          MaxPlanned, House, Asked, Proposed

\* The service has a limit (max_utterance_seconds, which is positive, and 3 s more);
\* the detector waits for some quiet before it is armed again (four steps); a house
\* has finitely many groups, and no room is called "on" or "off".
ASSUME ProgramsAssumption ==
  /\ WorkerLimit \in Nat /\ Rearm \in Nat \ {0} /\ MaxPlanned \in Nat
  /\ \A g \in House : /\ Device \subseteq DOMAIN g
                      /\ IsFiniteSet(UNION {g[n] : n \in DOMAIN g})
  /\ Default \notin {"on", "off"}

VARIABLES program,
          \* WyomingAdapter
          handling, ws, open, started, received, left, result, transcript, link,
          \* RemotePlanner
          step, groups, token, heard, corrected, actions, basis,
          \* LocalMode
          det, pre, rec, session, page, sending, past,
          \* StandaloneClient
          call, sender, errors, socket, events

\* The agent: a schema returns the kitchen in one spelling and refuses nonsense.  A
\* tool that searches and plays is among those that read like a query, for its name
\* has "search", though it starts music (MCConditionalRequest).
MCCoerced == [kitchen |-> "kitchen", Kitchen |-> "kitchen", nonsense |-> "refused"]

\* The adapter, the assistant without a service, and the client of other projects.
Wyoming == INSTANCE WyomingAdapter
Local == INSTANCE LocalMode
Standalone == INSTANCE StandaloneClient

Planner == INSTANCE RemotePlanner
             WITH Room <- Bedroom, MaxCalls <- MaxPlanned, Text <- Asked,
                  RawCall <- Proposed

\* The planner: two lamps, one with a longer name, two shades told apart by the
\* bedroom, a sensor; three groups, one ignored, one in an ignored room, one in a
\* known room, nested in every way or in a circle; one is not in the catalogue.
MCKind == [lamp |-> "Switch", desk |-> "Dimmer", shade |-> "Rollershutter",
           nursery |-> "Rollershutter", outside |-> "Sensor"]
MCWords == [lamp |-> {"lamp"}, desk |-> {"desk", "lamp"}, shade |-> {"master", "bedroom", "shade"},
            nursery |-> {"guest", "bedroom", "shade"}, outside |-> {"outside"},
            floor |-> {"floor"}, cellar |-> {"garage"}]
MCRoomGroups == [study |-> {"floor"}]
MCHouse == {[lamp |-> l, desk |-> {"floor"}, shade |-> {}, nursery |-> s, outside |-> {},
             floor |-> f, cellar |-> c] :
              l \in SUBSET {"floor"}, s \in {{}, {"hidden"}},
              f \in SUBSET {"hidden", "cellar", "floor"}, c \in {{}, {"floor", "hidden"}}}
MCAsked == {{"on", "lamp"}, {"off", "desk", "lamp"}, {"dim", "study", "lamp"},
            {"open", "bedroom", "shade"}, {"open", "guest", "bedroom", "shade"},
            {"garage", "on", "lamp"}, {"temperature", "outside"}}
MCProposed == {[tool |-> <<"switch", "lamp">>, value |-> "ON"],
               [tool |-> <<"switch", "desk">>, value |-> "OFF"],
               [tool |-> <<"level", "desk">>, value |-> "50"],
               [tool |-> <<"level", "lamp">>, value |-> "50"],
               [tool |-> <<"move", "shade">>, value |-> "open"],
               [tool |-> <<"move", "shade">>, value |-> "UP"],
               [tool |-> <<"move", "nursery">>, value |-> "open"],
               [tool |-> <<"get", "outside">>, value |-> "nothing"]}

wyoming == <<handling, ws, open, started, received, left, result, transcript, link>>
planner == <<step, groups, token, heard, corrected, actions, basis>>
locally == <<det, pre, rec, session, page, sending, past>>
standalone == <<call, sender, errors, socket, events>>
everything == <<program, vars, wyoming, planner, locally, standalone>>

ProgramsInit ==
  /\ program \in {"agent", "adapter", "planner", "local", "client"}
  /\ Init /\ Wyoming!Init /\ Planner!Init /\ Local!Init /\ Standalone!Init
  /\ program # "agent" => ~keyed
  /\ program # "planner" => ~token /\ groups = CHOOSE h \in House : TRUE

ProgramsNext ==
  /\ UNCHANGED program
  /\ \/ program = "agent" /\ Next /\ UNCHANGED <<wyoming, planner, locally, standalone>>
     \/ program = "adapter" /\ Wyoming!Next /\ UNCHANGED <<vars, planner, locally, standalone>>
     \/ program = "planner" /\ Planner!Next /\ UNCHANGED <<vars, wyoming, locally, standalone>>
     \/ program = "local" /\ Local!Next /\ UNCHANGED <<vars, wyoming, planner, standalone>>
     \/ program = "client" /\ Standalone!Next /\ UNCHANGED <<vars, wyoming, planner, locally>>

ProgramsSpec == /\ ProgramsInit
                /\ [][ProgramsNext]_everything
                /\ Fairness /\ Wyoming!Fairness /\ Standalone!Fairness

-----------------------------------------------------------------------------
(* The properties, by the modules that state them.                         *)

\* WyomingAdapter: a transcript is that of all audio since the start.
TranscriptIsWhole == Wyoming!TranscriptIsWhole

\* Both clients of the service: WyomingAdapter has one connection at most and forgets
\* none; StandaloneClient has none left when its call has ended.
NoConnectionLeaks == /\ Wyoming!NoBackendLeaks
                     /\ Standalone!ConnectionEndsWithCall

\* WyomingAdapter: the service is drained while the adapter sends or waits.
NeverStalls == Wyoming!NeverStalls

\* A silent service keeps nobody waiting: HomeAgent answers every message, and
\* WyomingAdapter and StandaloneClient wait for no answer without a bound; if those
\* they write to read, every event of the one and every call of the other ends.
EveryCallerIsAnswered == /\ EveryMessageIsAnswered
                         /\ Wyoming!EveryEventEnds
                         /\ Standalone!EveryCallEnds

\* RemotePlanner: actions fit the text they were planned for.
ActsOnWhatWasHeard == Planner!ActsOnWhatWasHeard

\* LocalMode: what is sent was heard whole in an authorized session.
ActsOnWholeCommand == Local!ActsOnWholeCommand

\* LocalMode: texts go to the line of their own wake, or are held back.
PageFollowsSession == Local!PageFollowsSession

\* StandaloneClient: a failure of the consumer's audio is reported as that.
CauseIsRaised == Standalone!CauseIsRaised

\* LocalMode: one phrase makes one session.
OneSessionPerPhrase == Local!OneSessionPerPhrase

=============================================================================
