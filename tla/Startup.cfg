\* main() ends.
SPECIFICATION Spec
CONSTANTS
  CommandLines <- MCCommandLines
  Number <- MCNumber
  MaxInt = 5000
  MaxFloat = 5000
  Machines <- MCMachines
  Ggufs <- MCGgufs
  n_batch = 4
  n_ubatch = 2
  llama_max_devices = 2
CHECK_DEADLOCK FALSE
INVARIANTS
  ConfigIsTheLine
  SharesFitDevices
  FitToServe
  NothingOutlives
