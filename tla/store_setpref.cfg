SPECIFICATION Spec
CONSTANTS
  panel = panel
  dp = dp
  hdmi = hdmi
  dock = dock
  e1 = e1
  e2 = e2
  Conns = {dp, hdmi, dock}
  Panels = {}
  EDIDs = {e1, e2}
  NoEdid = noedid
  Unplugged = unplugged
  ReadOrder <- Desktop
  Primaries <- Desktop
  Sides = {right, left}
  DefaultSide = right
  NoSide = noside
  Appliers = {}
  Setters = {setpref}
  MaxSwap = 2
  MaxRun = 2
  MaxFail = 0
CHECK_DEADLOCK FALSE
SYMMETRY MonitorSymmetry
PROPERTY SetPrefTakesEffect
