SPECIFICATION Spec
CONSTANTS
  LINESIZE = 6
  EDIT_HISTORY = 3
  Keys <- MCKeys
  Received <- MCReceived
  MAXSTRINGS = 2
  STRINGBYTES = 10
  Env <- MCEnv
  Characters <- MCCharacters
  Arrived <- MCArrived
INVARIANTS LinesSound ArgvRight
PROPERTIES Remembered RunsEntered
