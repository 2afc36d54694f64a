CONSTANTS
  MAXSTRINGS = 6
  STRINGBYTES = 20
  Chars <- MCChars
  Defaults <- MCDefaults
  UserSets <- MCUserSets
  VARIABLE_NAMES <- MCVariables
  READONLY_NAMES <- MCReadOnly
  KERN_ENVP = 4
SPECIFICATION Spec
INVARIANTS ListOK BootfilesInOrder
PROPERTIES SetEnvHonoured ScanAdvances KernelEnvComplete
