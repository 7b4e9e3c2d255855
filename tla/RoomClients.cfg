CONSTANTS
  Cli = "cli"
  Loc = "loc"
  Procs = {"cli", "loc"}
  Attempts <- MCAttempts
  Names = {"r1", "r2", "r3"}
  MAX_ROOMS = 2
  Argvs <- MCArgvs
  MaxCmds = 3
  Documents <- MCDocuments
SPECIFICATION SysSpec
INVARIANTS AnswersStayTrue ExistsExplained ApplyInOrder ShowFindsDriver
PROPERTIES ImplementsSet ClientsEnd
CHECK_DEADLOCK FALSE
