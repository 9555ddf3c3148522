SPECIFICATION FairSpec
CONSTANTS
  panel = panel
  ext = ext
  Connectors = {panel, ext}
  Daemon = daemon
  Siblings = {}
  Stubborn = {ext}
  Layouts <- PanelLayouts
  HoldDown = TRUE
  EventsOk = FALSE
  UNHEALED_APPLY_LIMIT = 1
  MaxHotplug = 2
  MaxFail = 1
  MaxCrash = 1
  MaxMapping = 1
  CanStop = TRUE
CHECK_DEADLOCK FALSE
PROPERTY SigtermStops
