SPECIFICATION FairSpec
CONSTANTS
  panel = panel
  hdmi = hdmi
  dock = dock
  w1 = w1
  w2 = w2
  p1 = p1
  p2 = p2
  t1 = t1
  t2 = t2
  None = none
  Conns = {panel, hdmi}
  XOrder <- PanelHdmi
  Wins = {w1}
  Owners = {p1, p2}
  Tags = {t1, t2}
  DefaultTag = t1
  TRIES = 2
  MaxHot = 2
  MaxUser = 2
  MaxFail = 0
CHECK_DEADLOCK FALSE
INVARIANT
  NeverAnotherInstance
PROPERTY
  SettleReturns
  KeptUntilBack
