SPECIFICATION FairSpec
CONSTANTS
  panel = panel
  ext = ext
  Connectors = {panel, ext}
  Daemon = daemon
  Siblings = {oneshot}
  Stubborn = {ext}
  Layouts <- DeskLayouts
  HoldDown = TRUE
  EventsOk = TRUE
  UNHEALED_APPLY_LIMIT = 2
  MaxHotplug = 2
  MaxFail = 1
  MaxCrash = 0
  MaxMapping = 0
  CanStop = FALSE
PROPERTIES
  Settles
  ChangeNoticed
