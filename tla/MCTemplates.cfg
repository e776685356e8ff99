SPECIFICATION Spec
CONSTANTS
  Primary <- MCPrimary
  Sources <- MCSources
  MaxItems = 4
  MaxUses = 2
  MaxSessions = 2
INVARIANTS PatternsFit OneClassPerArguments
CHECK_DEADLOCK FALSE
