SPECIFICATION Spec
CONSTANTS
  FileNames <- Names2
  ErrorTests <- Errors
  Characters <- Chars
  Contents <- Texts
  Compilers <- Behaviours
  MaxRuns = 3
INVARIANTS UpdatesSettle OutcomeMatchesFiles
PROPERTY ProgramKept
CHECK_DEADLOCK FALSE
