--------------------------- MODULE MCDisplayWatch ---------------------------
(* Instances of DisplayWatch for TLC. *)
EXTENDS WatchReconciles, TLC

(* Heads are interchangeable where none is stubborn and no layout names one. *)
HeadSymmetry == Permutations(Connectors)

(* A layout profile for the laptop panel alone and for the full desk. *)
CONSTANTS panel, ext
DeskLayouts == {{panel, ext}}
PanelLayouts == {{panel}}
NoLayouts == {}
=============================================================================
