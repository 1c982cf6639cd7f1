SPECIFICATION ProgramsSpec
CONSTANTS
  Tool = {"turn_on", "search_and_play", "get_state"}
  Reads = {"search_and_play", "get_state"}
  Arg = {"kitchen", "Kitchen", "nonsense"}
  Coerced <- MCCoerced
  Invalid = "refused"
  Top = 2
  MaxCalls = 2
  Room = 2
  Limit = 4
  WorkerLimit = 3
  ChunkSize = 2
  Window = 1
  Confirmations = 2
  Rearm = 2
  Cooldown = 3
  PreRoll = 2
  Lead = 2
  Pause = 2
  MaxUtterance = 4
  Continuation = 3
  MaxActions = 2
  Backlog = 2
  Device = {"lamp", "desk", "shade", "nursery", "outside"}
  Kind <- MCKind
  Words <- MCWords
  ExcludedNames = {}
  IgnoredGroups = {"hidden"}
  IgnoredRooms = {"garage"}
  RoomGroups <- MCRoomGroups
  Bedroom = "bedroom"
  Qualifiers = {"guest", "master"}
  Default = "master"
  MaxPlanned = 2
  House <- MCHouse
  Asked <- MCAsked
  Proposed <- MCProposed
INVARIANTS
  FailureIsTold
  TranscriptIsWhole
  NoConnectionLeaks
  NeverStalls
  ActsOnWhatWasHeard
  ActsOnWholeCommand
  PageFollowsSession
PROPERTIES
  ImplementsPlannedRequest
  EveryCallerIsAnswered
  CauseIsRaised
  OneSessionPerPhrase
