------------------------------ MODULE Topology ------------------------------
(***************************************************************************)
(* What one RandR read returns and the pure predicates the daemon derives  *)
(* from it (xrandr.py, and the scrub filter of apply.py).                  *)
(*                                                                         *)
(* A read ("outs") is a record: the connectors that report "connected" and *)
(* the connectors whose CRTC is live ("lit").  The two are independent:    *)
(* unplugging a head leaves its CRTC driving pixels, plugging one in does  *)
(* not light it.  Mode sizes and positions are abstracted to lit / dark:   *)
(* randr_resources_to_outputs fills position and current_mode together.    *)
(***************************************************************************)
CONSTANT Connectors

Outs == [connected : SUBSET Connectors, lit : SUBSET Connectors]

(* The entry topology_hash_from_outputs writes for a connector. *)
Entry(outs, c) == <<c, c \in outs.connected, c \in outs.lit>>

(* The digest; an idle disconnected connector stays out of it. *)
topology_hash(outs) == {Entry(outs, c) : c \in outs.connected \cup outs.lit}

Hashes == SUBSET (Connectors \X BOOLEAN \X BOOLEAN)

(* Connected, but driven by no CRTC. *)
unhealed_outputs(outs) == outs.connected \ outs.lit

(* The heads scrub_stale powers off: disconnected and still lit. *)
scrub_all(outs) == outs.lit
scrub_stale(outs) == outs.lit \ outs.connected

(* Connectors that a digest shows disconnected but lit, or connected but dark. *)
PhantomIn(hash) == {c \in Connectors : <<c, FALSE, TRUE>> \in hash}
DarkIn(hash)    == {c \in Connectors : <<c, TRUE, FALSE>> \in hash}
=============================================================================
