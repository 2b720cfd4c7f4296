SPECIFICATION FairSpec
CONSTANTS
  Procs <- MCProcs
  Selectors <- MCSelectors
  Routers <- MCRouters
  Configs <- MCConfigs
  ConfigOf <- MCConfigOf
  Version <- MCVersion
  SelectorsOf <- MCSelectorsOf
  Uses <- MCUses
  None = None
  MaxFaults = 4
INVARIANTS TypeOK RoutersRunnable ClientRunnable LoadedIsComplete
PROPERTIES VersionMonotone LoadEnds
CHECK_DEADLOCK FALSE
