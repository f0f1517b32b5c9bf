SPECIFICATION Spec
CONSTANTS
  LinuxKeys <- Keys
  CommandLines <- CommandLinesMC
  FileSystems <- FileSystemsMC
  Indeterminate = Indeterminate
INVARIANT EverySettingHasADefault
CHECK_DEADLOCK FALSE
