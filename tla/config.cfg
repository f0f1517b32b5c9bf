SPECIFICATION Spec
CONSTANTS
  LinuxKeys <- Keys
  CommandLines <- CommandLinesMC
  FileSystems <- FileSystemsMC
  Indeterminate = Indeterminate
INVARIANTS
  Precedence
  OkIffValid
  KeymapsAsWritten
CHECK_DEADLOCK FALSE
