---------------------------- MODULE MCStateStore ----------------------------
(* Instances of StateStore for TLC: a laptop panel without a readable EDID and *)
(* up to three external connectors.                                            *)
EXTENDS StateStore, TLC

CONSTANTS panel, dp, hdmi, dock, e1, e2
MonitorSymmetry == Permutations({e1, e2})
PanelFirst == <<panel, dp, hdmi>>
ReadHdmiFirst == <<panel, hdmi, dp>>
Desktop == <<dp, hdmi, dock>>
=============================================================================
