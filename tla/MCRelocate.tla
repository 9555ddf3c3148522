----------------------------- MODULE MCRelocate -----------------------------
(* Instances of Relocate for TLC: a laptop panel and one or two externals. *)
EXTENDS Relocate, TLC

CONSTANTS panel, hdmi, dock, w1, w2, p1, p2, t1, t2
WindowSymmetry == Permutations({w1, w2}) \cup Permutations({p1, p2})
PanelHdmi == <<panel, hdmi>>
PanelHdmiDock == <<panel, hdmi, dock>>
=============================================================================
