------------------------------- MODULE Churn --------------------------------
(***************************************************************************)
(* The debounce of the watch loop (watch.py, _debounce_ms_for_churn): each *)
(* change of the topology hash is noted, changes that come in excess make  *)
(* the wait before the apply longer, others make it shorter again.         *)
(*                                                                         *)
(* Time is counted in ticks of 50 ms.  churn["times"] is kept as the ages  *)
(* of its entries; no age grows past WINDOW + 1, where an entry no longer  *)
(* counts.                                                                 *)
(***************************************************************************)
EXTENDS Naturals, Sequences, FiniteSetsExt, Subsequences

CONSTANTS
  WINDOW, THRESHOLD,     \* EXCESS_WINDOW_SEC in ticks, EXCESS_THRESHOLD
  BASE,                  \* the debounce without back-off (150 ms)
  STEP, DECAY, CAP       \* growth, decay and limit of the back-off (150, 50, 1000 ms)

ASSUME ChurnAssumption ==
  /\ {WINDOW, THRESHOLD, DECAY, CAP} \subseteq Nat
  /\ {BASE, STEP} \subseteq Nat \ {0}

VARIABLES
  ages,                  \* churn["times"]
  backoff,               \* churn["backoff"]
  sleep,                 \* what is left of the debounce sleep
  excess                 \* observed: the last change was one too many

churnVars == <<ages, backoff, sleep, excess>>

PruneNothing(ts) == ts
Prune(ts) == Only(ts, 0..WINDOW)

(* len(churn["times"]) > churn["threshold"], the new entry included. *)
InExcessBefore(ts) == Len(ts) - 1 > THRESHOLD
InExcess(ts) == Len(ts) > THRESHOLD

GrownUncapped(b) == b + STEP
Grown(b) == Min({CAP, b + STEP})
NeverDecayed(b) == b
Decayed(b) == IF b >= DECAY THEN b - DECAY ELSE 0

(* The loop is awake and sees a hash that differs: note it, and sleep. *)
Change ==
  /\ sleep = 0
  /\ ages' = Prune(Append(ages, 0))
  /\ excess' = InExcess(ages')
  /\ backoff' = IF excess' THEN Grown(backoff) ELSE Decayed(backoff)
  /\ sleep' = BASE + backoff'

Tick ==
  /\ ages' = [i \in DOMAIN ages |-> Min({ages[i] + 1, WINDOW + 1})]
  /\ sleep' = IF sleep > 0 THEN sleep - 1 ELSE 0
  /\ UNCHANGED <<backoff, excess>>

ChurnInit == ages = <<>> /\ backoff = 0 /\ sleep = 0 /\ excess = FALSE
ChurnNext == Change \/ Tick
ChurnSpec == ChurnInit /\ [][ChurnNext]_churnVars

(***************************************************************************)
(* Properties.                                                             *)
(***************************************************************************)
(* The wait before an apply stays between its base and its cap, whatever the  *)
(* pattern of changes (watch.py:146).                                         *)
DelayBounded == backoff <= CAP /\ sleep <= BASE + CAP

(* churn["times"] never grows past what fits into one window, although only   *)
(* a change shortens it (watch.py:142).                                       *)
TimesBounded == Len(ages) <= (WINDOW \div BASE) + 1

(* However the changes are spread, and whatever decayed in between, the       *)
(* back-off has grown by a step for each change noted beyond the threshold.   *)
BackoffKeepsUp ==
  Len(ages) > THRESHOLD => backoff >= Min({CAP, STEP * (Len(ages) - THRESHOLD)})

(* A storm is forgotten: if changes keep coming but no longer in excess, the  *)
(* debounce comes back to its base for good.                                  *)
DebounceRecovers ==
  (<>[](~excess) /\ []<><<Change>>_churnVars) => <>[](backoff = 0)
=============================================================================
