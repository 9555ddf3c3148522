SPECIFICATION FairSpec
CONSTANTS
  panel = panel
  ext = ext
  Connectors = {panel, ext}
  Daemon = daemon
  Siblings = {oneshot}
  Stubborn = {}
  Layouts <- NoLayouts
  HoldDown = TRUE
  EventsOk = TRUE
  UNHEALED_APPLY_LIMIT = 3
  MaxHotplug = 1
  MaxFail = 0
  MaxCrash = 0
  MaxMapping = 0
  CanStop = FALSE
PROPERTY DarkHeadsHealed
