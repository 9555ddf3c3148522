SPECIFICATION Spec
CONSTANTS
  panel = panel
  ext = ext
  Connectors = {panel, ext}
  Daemon = daemon
  Siblings = {oneshot}
  Stubborn = {}
  Layouts <- NoLayouts
  HoldDown = TRUE
  EventsOk = TRUE
  UNHEALED_APPLY_LIMIT = 1
  MaxHotplug = 3
  MaxFail = 1
  MaxCrash = 1
  MaxMapping = 0
  CanStop = FALSE
SYMMETRY HeadSymmetry
INVARIANTS
  TypeOK
  MutualExclusion
  NoOffThenOn
  AbsorbedFaultsExcused
PROPERTIES
  Reconciles
  NeverBlanksSteadyHead
