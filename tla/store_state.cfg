SPECIFICATION Spec
CONSTANTS
  panel = panel
  dp = dp
  hdmi = hdmi
  dock = dock
  e1 = e1
  e2 = e2
  Conns = {panel, dp, hdmi}
  Panels = {panel}
  EDIDs = {e1, e2}
  NoEdid = noedid
  Unplugged = unplugged
  ReadOrder <- ReadHdmiFirst
  Primaries <- PanelFirst
  Sides = {right, left}
  DefaultSide = right
  NoSide = noside
  Appliers = {apply}
  Setters = {setpref}
  MaxSwap = 2
  MaxRun = 2
  MaxFail = 1
CHECK_DEADLOCK FALSE
SYMMETRY MonitorSymmetry
INVARIANTS
  TypeOK
  NoLostUpdate
  PrefKept
  IdentitiesLead
  StackUnique
  NobodyStuck
PROPERTY
  StackOrderKept
