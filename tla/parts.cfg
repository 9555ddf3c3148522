SPECIFICATION FairSpec
CONSTANTS
  panel = panel
  ext = ext
  HeadCount = 6
  Internal <- MCInternal
  pid_by_output <- MCPids
  PREF_DEFAULT_SIDE <- MCDefaultSide
  LayoutProfiles <- MCLayouts
  MaxPlug = 1
  InitialHeads <- MCInitialHeads
  InitialPrefs <- MCPrefs
  MaxPref = 1
  WINDOW = 24
  THRESHOLD = 2
  BASE = 3
  STEP = 3
  DECAY = 1
  CAP = 7
  Windows = {w1, w2}
  Pids = {p1, p2}
  Outputs = {panel, ext}
  InitialNumber <- MCNumber
  None = None
  MaxWorld = 2
  TIMEOUT = 2
  HDR = 2
  MAX_REPLY_SIZE = 2
  MaxCalls = 2
CHECK_DEADLOCK FALSE
INVARIANTS
  TypeOK
  OverInTime
  NothingLeftOpen
  EveryHeadConfigured
  SpotsDistinct
  AnchorsPlacedFirst
  SideLostOnlyToNewer
  DelayBounded
  TimesBounded
  BackoffKeepsUp
  CoherentIdentity
  OutputWhereShown
  SteadyWindowsRecorded
PROPERTIES
  CallReturns
  KeepsContract
  PlacementStable
  DebounceRecovers
