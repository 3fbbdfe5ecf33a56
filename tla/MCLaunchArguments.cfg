\* Every list of arguments and every config file up to a length.
SPECIFICATION Spec
CONSTANTS
  MaxArguments = 4
  MaxText = 6
  Calls <- MCCalls
  Files <- MCFiles
INVARIANTS
  ToolSurvives
  CallerKept
  OnlyCommentsStripped
CHECK_DEADLOCK FALSE
