CONSTANTS
  MaxProcs = 4
  CAPACITY = 1
  MaxOutput = 2
  ArgLists <- MCArgLists
  Paths <- MCPaths
  CommandLines <- MCLines
SPECIFICATION MCSpec
INVARIANTS TypeOK RunsAsWritten PromptAfterCommands
PROPERTIES NoZombies PromptReturns
CHECK_DEADLOCK FALSE
