------------------------------- MODULE MCParts ------------------------------
(* The parts of the daemon that share no state, for TLC: each behaviour is one *)
(* of one part, the others standing still.                                     *)
EXTENDS Placement, Churn, WindowCapture, DwmIpc, TLC

(* Heads 5 and 6 are two monitors of one kind without serial numbers. *)
MCHeads == 1..6
MCInternal == {3}
MCPids == [c \in MCHeads |-> IF c = 6 THEN 5 ELSE c]
MCLayouts == {[name |-> 1, connectors |-> {3}], [name |-> 2, connectors |-> {3}],
              [name |-> 3, connectors |-> {1, 3}]}
MCInitialHeads == {MCHeads, MCHeads \ {3}, {1}, {3}}
MCDefaultSide == "right-of"
MCPrefs == {<<"above", Unset, "left-of", "below", "left-of">>}

CONSTANTS panel, ext
MCNumber == [o \in Outputs |-> IF o = panel THEN 0 ELSE 1]

VARIABLE part
vars == <<part, placementVars, churnVars, captureVars, ipcVars>>

(* A part that stands still does so in one state. *)
OneOf(S) == CHOOSE x \in S : TRUE
PlacementStill == PlacementInit /\ connected = OneOf(InitialHeads) /\ pref = OneOf(InitialPrefs)
CaptureStill ==
  /\ CaptureInit
  /\ owner = OneOf([Windows -> Pids])
  /\ output = OneOf([Windows -> Outputs])

Init ==
  /\ ChurnInit /\ IpcInit
  /\ \/ part = "placement" /\ PlacementInit /\ CaptureStill
     \/ part \in {"churn", "ipc"} /\ PlacementStill /\ CaptureStill
     \/ part = "capture" /\ PlacementStill /\ CaptureInit

Next ==
  /\ part' = part
  /\ \/ part = "placement" /\ PlacementNext /\ UNCHANGED <<churnVars, captureVars, ipcVars>>
     \/ part = "churn" /\ ChurnNext /\ UNCHANGED <<placementVars, captureVars, ipcVars>>
     \/ part = "capture" /\ CaptureNext /\ UNCHANGED <<placementVars, churnVars, ipcVars>>
     \/ part = "ipc" /\ IpcNext /\ UNCHANGED <<placementVars, churnVars, captureVars>>

FairSpec == Init /\ [][Next]_vars /\ IpcFairness
=============================================================================
