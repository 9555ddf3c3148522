----------------------------- MODULE Placement ------------------------------
(***************************************************************************)
(* What one apply decides about the connected heads (apply.py, policy.py,  *)
(* profiles.py): the layout profile that fits them, or the primary and the *)
(* side of every external, newest first, over successive applies between   *)
(* which heads are plugged and --set-pref changes sides.                   *)
(*                                                                         *)
(* Heads are numbered in the order of their names.  Which profile id a     *)
(* head has is StateStore's affair: here it is a constant, and identical   *)
(* heads share one.                                                        *)
(***************************************************************************)
EXTENDS Naturals, FiniteSets, Sequences, SequencesExt, FiniteSetsExt, Subsequences

CONSTANTS
  HeadCount, Internal,   \* connectors, and those named as a built-in panel
  pid_by_output,         \* the profile id of each head
  PREF_DEFAULT_SIDE,     \* the side of a profile that has none
  LayoutProfiles,        \* the LAYOUT_* profiles: records of a name and connectors
  InitialHeads,          \* sets of heads that may be connected at first
  InitialPrefs,          \* preferred sides the state may hold at first
  MaxPlug, MaxPref       \* bounds on hot-plugs and --set-prefs

Heads == 1..HeadCount

ASSUME HeadsAssumption ==
  HeadCount \in Nat /\ Internal \subseteq Heads /\ InitialHeads \subseteq SUBSET Heads
ASSUME BoundAssumption == {MaxPlug, MaxPref} \subseteq Nat
ASSUME LayoutAssumption ==
  \A l \in LayoutProfiles : l.name \in Nat /\ l.connectors \in SUBSET Heads

Profiles == {pid_by_output[c] : c \in Heads}
SIDES == <<"right-of", "left-of", "above", "below">>
Sides == Range(SIDES)
chain_side == "right-of"
Unset == "unset"                     \* no preferred_side

VARIABLES
  stage,                 \* of apply_once: "rest", "resolve", "place"
  connected,             \* the heads of the read, and of the hardware between applies
  pref,                  \* preferred_side of each profile
  attach_stack,          \* profile ids, newest last
  primary,
  todo,                  \* externals not yet resolved
  fresh,                 \* new profile ids, in the order they were met
  conns,                 \* conns_by_pid, each in the order it was met
  ordered,               \* connectors yet to be placed, newest first
  occupied, last_item,   \* assign_placements' own
  placed,                \* placements made: connector, side, anchor
  configured,            \* heads this apply gave a command
  layout,                \* observed: what the last finished apply worked on, and did
  plugs, prefs           \* environment steps spent

hwVars == <<connected, pref, plugs, prefs>>
orderVars == <<attach_stack, primary, todo, fresh, conns>>
placeVars == <<ordered, occupied, last_item, placed, configured>>
placementVars == <<stage, hwVars, orderVars, placeVars, layout>>

(***************************************************************************)
(* Between applies.                                                        *)
(***************************************************************************)
Plug(c) ==
  /\ stage = "rest" /\ plugs < MaxPlug
  /\ plugs' = plugs + 1
  /\ connected' = IF c \in connected THEN connected \ {c} ELSE connected \cup {c}
  /\ UNCHANGED <<stage, pref, prefs, orderVars, placeVars, layout>>

SetSide(p, side) ==
  /\ stage = "rest" /\ prefs < MaxPref
  /\ prefs' = prefs + 1
  /\ pref' = [pref EXCEPT ![p] = side]
  /\ UNCHANGED <<stage, connected, plugs, orderVars, placeVars, layout>>

(***************************************************************************)
(* One apply.                                                              *)
(***************************************************************************)
(* A profile fires only on exactly its connectors; of two, the first by name. *)
match_profile_subset == {l \in LayoutProfiles : l.connectors \subseteq connected}
match_profile == {l \in LayoutProfiles : l.connectors = connected}
FirstByName(ls) == CHOOSE l \in ls : \A k \in ls : l.name <= k.name

(* A built-in panel if there is one; else the first head by name. *)
PrimaryOf(cs) == Min(IF cs \cap Internal # {} THEN cs \cap Internal ELSE cs)

Finish(cs, ps) ==
  /\ stage' = "rest"
  /\ layout' = [connected |-> connected, pref |-> pref, configured |-> cs, placed |-> ps]

Apply ==
  /\ stage = "rest" /\ connected # {}
  /\ IF match_profile # {}
     THEN /\ Finish(FirstByName(match_profile).connectors, <<>>)
          /\ UNCHANGED <<primary, todo, fresh, conns, placeVars>>
     ELSE /\ stage' = "resolve"
          /\ primary' = PrimaryOf(connected)
          /\ configured' = {primary'}
          /\ todo' = connected \ {primary'}
          /\ UNCHANGED <<fresh, conns, ordered, occupied, last_item, placed, layout>>
  /\ UNCHANGED <<hwVars, attach_stack>>

(* The next external in the order of the read, which is any order. *)
Resolve(c) ==
  /\ stage = "resolve" /\ c \in todo
  /\ LET p == pid_by_output[c] IN
       /\ fresh' = IF p \in Range(attach_stack) \cup Range(fresh) THEN fresh
                   ELSE Append(fresh, p)
       /\ conns' = [conns EXCEPT ![p] = Append(@, c)]
  /\ todo' = todo \ {c}
  /\ UNCHANGED <<stage, hwVars, attach_stack, primary, placeVars, layout>>

(* The connectors of one profile, by name. *)
ConnectorsUnsorted(p) == conns[p]
Connectors(p) == Only([c \in Heads |-> c], Range(conns[p]))

(* The stack keeps the profiles still there, and gets the new ones on top. *)
Kept == Only(attach_stack, {p \in Profiles : conns[p] # <<>>}) \o fresh

(* Newest first, each profile with all its connectors. *)
Order ==
  /\ stage = "resolve" /\ todo = {}
  /\ stage' = "place"
  /\ attach_stack' = Kept
  /\ ordered' = FlattenSeq([i \in 1..Len(Kept) |-> Connectors(Reverse(Kept)[i])])
  /\ UNCHANGED <<hwVars, primary, todo, fresh, conns, occupied, last_item, placed,
                 configured, layout>>

Free == Only(SIDES, Sides \ DOMAIN occupied)

(* The side assign_placements gives: the wanted one if free, else the next free one. *)
Wanted(c) ==
  LET preferred == pref[pid_by_output[c]]
      side == IF preferred = Unset THEN PREF_DEFAULT_SIDE ELSE preferred
  IN IF side \in Sides THEN side ELSE chain_side
SideByIndex(c) == Free[1]
SideAlwaysWanted(c) == Wanted(c)
Side(c) == IF Wanted(c) \in DOMAIN occupied THEN Free[1] ELSE Wanted(c)

(* Once the four sides are taken, the anchor is the item placed last. *)
AnchorChained == IF placed = <<>> THEN primary ELSE ordered[Len(ordered)]
Anchor == IF Cardinality(DOMAIN occupied) >= Len(SIDES) THEN last_item ELSE primary

(* auto_pos and rotate for the next connector. *)
Place ==
  /\ stage = "place" /\ ordered # <<>>
  /\ LET c == Head(ordered)
         side == IF Free = <<>> THEN chain_side ELSE Side(c) IN
       /\ placed' = Append(placed, [connector |-> c, side |-> side, anchor |-> Anchor])
       /\ occupied' = IF Free = <<>> THEN occupied
                      ELSE [s \in DOMAIN occupied \cup {side} |->
                              IF s = side THEN c ELSE occupied[s]]
       /\ last_item' = c
       /\ configured' = configured \cup {c}
  /\ ordered' = Tail(ordered)
  /\ UNCHANGED <<stage, hwVars, orderVars, layout>>

Done ==
  /\ stage = "place" /\ ordered = <<>>
  /\ Finish(configured, placed)
  /\ primary' = 0 /\ todo' = {} /\ fresh' = <<>> /\ conns' = [p \in Profiles |-> <<>>]
  /\ occupied' = [s \in {} |-> 0] /\ last_item' = 0
  /\ placed' = <<>> /\ configured' = {} /\ UNCHANGED ordered
  /\ UNCHANGED <<hwVars, attach_stack>>

PlacementInit ==
  /\ stage = "rest"
  /\ connected \in InitialHeads
  /\ pref \in InitialPrefs
  /\ attach_stack = <<>>
  /\ primary = 0 /\ todo = {} /\ fresh = <<>> /\ conns = [p \in Profiles |-> <<>>]
  /\ ordered = <<>> /\ occupied = [s \in {} |-> 0] /\ last_item = 0
  /\ placed = <<>> /\ configured = {}
  /\ layout = [connected |-> {}, pref |-> pref, configured |-> {}, placed |-> <<>>]
  /\ plugs = 0 /\ prefs = 0

PlacementNext ==
  \/ Apply \/ Order \/ Place \/ Done
  \/ \E c \in Heads : Plug(c) \/ Resolve(c)
  \/ \E p \in Profiles, side \in Sides : SetSide(p, side)

PlacementSpec == PlacementInit /\ [][PlacementNext]_placementVars

(***************************************************************************)
(* Properties.                                                             *)
(***************************************************************************)
(* After a finished apply every head it saw has been given a command, also    *)
(* when a layout profile took over ("{DSI-1} profile fire with {DSI-1,        *)
(* HDMI-1} connected ... HDMI-1 never configured", profiles.py:91).           *)
EveryHeadConfigured == layout.configured = layout.connected

(* No two externals are put on the same side of the same head, however many   *)
(* there are and whatever sides they want (policy.py:22).                     *)
SpotsDistinct ==
  \A i, j \in DOMAIN placed :
    (placed[i].side = placed[j].side /\ placed[i].anchor = placed[j].anchor) => i = j

(* Every external is put next to a head whose own place is already decided.   *)
AnchorsPlacedFirst ==
  \A i \in DOMAIN placed :
    placed[i].anchor \in {primary} \cup {placed[j].connector : j \in 1..i - 1}

(* "Honoring preferred_side is what makes set-pref persist" (policy.py:27): a *)
(* head beside the primary is off its wanted side only if a newer one has it. *)
SideLostOnlyToNewer ==
  stage = "place" => \A i \in DOMAIN placed :
    i <= Len(SIDES) =>
      \E j \in 1..i : /\ placed[j].side = Wanted(placed[i].connector)
                      /\ placed[j].anchor = primary

(* Applying again with the same heads and preferences places nothing anew,    *)
(* whatever order RandR reports the heads in.                                 *)
PlacementStable ==
  [][(layout.connected = layout'.connected /\ layout.pref = layout'.pref)
       => layout'.placed = layout.placed]_layout
=============================================================================
