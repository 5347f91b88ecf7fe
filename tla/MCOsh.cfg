SPECIFICATION Spec
CONSTANTS
  Procs = {1, 2, 3, 4}
  Lines <- MCLines
  MaxLines = 3
  MaxWords = 4
  Installed = {"cat", "echo", "less", "yes"}
  Verbose = {"yes"}
  Files = {"out"}
  NULL = NULL
INVARIANTS
  ProcessTable
  FlagReset
PROPERTY CommandsEnd
CHECK_DEADLOCK FALSE
