--------------------------- MODULE WatchReconciles --------------------------
(* DisplayWatch implements Reconciler: every step of the detailed daemon is a *)
(* step of the abstract one, or none.                                         *)
EXTENDS DisplayWatch

(* What the daemon is doing, seen from its control points. *)
Phase ==
  CASE pc \in {"down", "boot", "seed", "start"} -> "down"
    [] pc = "select" -> "resting"
    [] pc \in {"debounce", "bounce", "hold"} -> "looking"
    [] pc = "apply" -> IF at[Daemon] \in Critical THEN "healing"
                       ELSE IF at[Daemon] = "true" THEN "done" ELSE "looking"
    [] pc = "settle" -> "done"
    [] pc \in SettleSteps -> "sampled"
    [] OTHER -> "stopped"

Abstract == INSTANCE Reconciler WITH phase <- Phase, known <- last, sample <- settled

(* The daemon keeps the promise of Reconciler: it applies only on a difference, *)
(* changes outputs only under the lock, and adopts only a topology it read      *)
(* after an apply that went through (watch.py:226, apply.py:178).               *)
Reconciles == Abstract!Spec
=============================================================================
