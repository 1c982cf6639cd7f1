SPECIFICATION Spec
CONSTANTS
  Tool = {"turn_on", "search_and_play", "get_state"}
  Reads = {"search_and_play", "get_state"}
  Changes = {"turn_on", "search_and_play"}
  Arg = {"kitchen", "Kitchen", "nonsense"}
  Coerced <- MCCoerced
  Invalid = "refused"
  Top = 2
  MaxCalls = 2
  Room = 2
INVARIANTS
  NoConditionalWrite
