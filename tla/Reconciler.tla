----------------------------- MODULE Reconciler -----------------------------
(***************************************************************************)
(* What the display daemon promises, whatever happens inside an apply.     *)
(*                                                                         *)
(* Only the owner of the apply-lock changes what is lit, and lights only   *)
(* connected heads.  The daemon leaves its rest only because the topology  *)
(* differs from the one it knows.  It comes to know a topology in two ways *)
(* only: by reading it when it starts to watch, and by reading it after an *)
(* apply that went through under the lock; never by an apply that bailed.  *)
(***************************************************************************)
EXTENDS Topology

CONSTANTS Daemon, Procs

VARIABLES
  connected, lit,        \* the hardware
  lock,                  \* holders of the apply-lock
  phase,                 \* what the daemon is doing
  known, sample          \* the topology it rests on, and one it may adopt

rVars == <<connected, lit, lock, phase, known, sample>>

Wire == topology_hash([connected |-> connected, lit |-> lit])

Init ==
  /\ connected \in SUBSET Connectors /\ lit \in SUBSET Connectors
  /\ lock = {} /\ phase = "down" /\ known = {} /\ sample = {}

Plug ==
  /\ connected' \in SUBSET Connectors
  /\ UNCHANGED <<lit, lock, phase, known, sample>>

(* Some heads go dark, and some connected ones light up. *)
Power ==
  /\ lock # {}
  /\ \E dark \in SUBSET lit, fresh \in SUBSET connected : lit' = (lit \ dark) \cup fresh
  /\ UNCHANGED <<connected, lock, phase, known, sample>>

(* An apply begins: at boot, in another process, or on a change the daemon saw. *)
Acquire(p) ==
  /\ lock = {} /\ lock' = {p}
  /\ IF p # Daemon \/ phase = "down" THEN phase' = phase
     ELSE phase = "looking" /\ phase' = "healing"
  /\ UNCHANGED <<connected, lit, known, sample>>

(* An apply ends; the daemon's may have gone through, or bailed. *)
Release(p) ==
  /\ p \in lock /\ lock' = lock \ {p}
  /\ IF p # Daemon \/ phase = "down" THEN phase' = phase
     ELSE phase = "healing" /\ phase' \in {"done", "looking"}
  /\ UNCHANGED <<connected, lit, known, sample>>

Start ==
  /\ phase = "down" /\ phase' = "resting"
  /\ known' = Wire
  /\ UNCHANGED <<connected, lit, lock, sample>>

Look ==
  /\ phase = "resting" /\ phase' = "looking"
  /\ Wire # known
  /\ UNCHANGED <<connected, lit, lock, known, sample>>

(* It came back, or nothing could be done: what is known stays. *)
Rest ==
  /\ phase = "looking" /\ phase' = "resting"
  /\ UNCHANGED <<connected, lit, lock, known, sample>>

Sample ==
  /\ phase = "done" /\ phase' = "sampled"
  /\ sample' = Wire
  /\ UNCHANGED <<connected, lit, lock, known>>

(* Adopt the sample, or keep what is known in order to try again. *)
Conclude ==
  /\ phase = "sampled" /\ phase' = "resting"
  /\ known' \in {known, sample}
  /\ sample' = {}
  /\ UNCHANGED <<connected, lit, lock>>

Stop ==
  /\ phase = "resting" /\ phase' = "stopped"
  /\ UNCHANGED <<connected, lit, lock, known, sample>>

Crash ==
  /\ phase # "stopped" /\ phase' \in {"down", "stopped"}
  /\ lock' = lock \ {Daemon}
  /\ known' = {} /\ sample' = {}
  /\ UNCHANGED <<connected, lit>>

Next ==
  \/ Plug \/ Power
  \/ \E p \in Procs : Acquire(p) \/ Release(p)
  \/ Start \/ Look \/ Rest \/ Sample \/ Conclude \/ Stop \/ Crash

Spec == Init /\ [][Next]_rVars
=============================================================================
