---------------------------- MODULE DisplayWatch ----------------------------
(***************************************************************************)
(* The display daemon: boot apply, watch loop and apply_once (watch.py,    *)
(* apply.py, cli.py main), running against hot-pluggable hardware and      *)
(* against one-shot "xrandrw --apply" processes that contend for the       *)
(* apply-lock.  Every RandR read, every xrandr command and every wait of   *)
(* the code is a step of its own, so hardware may change between any two.  *)
(***************************************************************************)
EXTENDS Topology, Naturals

CONSTANTS
  Daemon,                \* the long-running process (--daemon / --watch)
  Siblings,              \* one-shot applies: udev / xplugd hooks, a user's --apply
  Stubborn,              \* heads that refuse to light (dead cable, bad mode)
  Layouts,               \* connector sets that have a LAYOUT_* profile
  HoldDown,              \* BOUNCE_HOLDDOWN_MS > 0
  EventsOk,              \* the X server has RandR >= 1.5
  UNHEALED_APPLY_LIMIT,
  MaxHotplug, MaxFail, MaxCrash, MaxMapping,  \* bounds on environment steps
  CanStop                \* SIGTERM may arrive

ASSUME ProcAssumption == Daemon \notin Siblings
ASSUME HeadAssumption == Stubborn \subseteq Connectors
ASSUME LimitAssumption == UNHEALED_APPLY_LIMIT \in Nat
ASSUME FlagAssumption == {HoldDown, EventsOk, CanStop} \subseteq BOOLEAN
ASSUME BoundAssumption == {MaxHotplug, MaxFail, MaxCrash, MaxMapping} \subseteq Nat

Procs == {Daemon} \cup Siblings

VARIABLES
  connected, lit,        \* the hardware, as a RandR read would report it
  xq,                    \* the watch connection holds an undelivered X event
  plugs, fails, crashes, mappings,   \* environment steps spent (see Max...)
  lock,                  \* holders of the flock on env["LOCKFILE"]
  at, outs, todo,        \* per process: step of apply_once, its `outs`, commands due
  pc, last, settled,     \* the daemon: control point, last_hash, settled hash
  dark,                  \* the daemon's unhealed_connectors() result
  attempts, recent, present,  \* churn["unhealed"], apply_done_at is recent, churn["present"]
  stop,                  \* stop_evt
  offs, autos,           \* observed: connectors this apply sent --off / --auto
  touched,               \* observed: heads hot-plugged, or whose command failed, since read #2
  late,                  \* observed: heads whose RandR entry changed since the settle read
  excused                \* observed: faults the absorbed `last` may show, and why (Excuse)

hwVars == <<connected, lit, xq>>
envVars == <<plugs, fails, crashes, mappings>>
applyVars == <<lock, at, outs, todo, offs, autos>>
loopVars == <<pc, last, settled, dark, attempts, recent, present, stop, excused>>
watchVars == <<touched, late>>
vars == <<hwVars, envVars, applyVars, loopVars, watchVars>>

(* A RandR read that completes returns this. *)
RandR == [connected |-> connected, lit |-> lit]
NoOuts == [connected |-> {}, lit |-> {}]

(***************************************************************************)
(* Environment.                                                            *)
(***************************************************************************)
(* The observation variables are live during an apply and, in the daemon, *)
(* until it has absorbed a hash.                                          *)
SettleSteps == {"present", "unhealed", "hook", "decide"}
Observing(p) == \/ at[p] \notin {"idle", "true", "false"}
                \/ p = Daemon /\ pc \in {"boot", "seed", "start", "apply", "settle"} \cup SettleSteps
Touch(cs) ==
  touched' = [p \in Procs |-> IF Observing(p) THEN touched[p] \cup cs ELSE touched[p]]
Late(cs) == late' = IF pc \in SettleSteps THEN late \cup cs ELSE late

(* A head is plugged in or pulled; its CRTC keeps its state either way. *)
Hotplug(c) ==
  /\ plugs < MaxHotplug
  /\ plugs' = plugs + 1
  /\ connected' = IF c \in connected THEN connected \ {c} ELSE connected \cup {c}
  /\ xq' = (xq \/ EventsOk)
  /\ Touch({c})
  /\ Late({c})
  /\ UNCHANGED <<lit, fails, crashes, mappings, applyVars, loopVars>>

(* Every X client is sent MappingNotify, whatever it selected. *)
MappingNotify ==
  /\ mappings < MaxMapping
  /\ mappings' = mappings + 1
  /\ xq' = TRUE
  /\ UNCHANGED <<connected, lit, plugs, fails, crashes, applyVars, loopVars, watchVars>>

(* BOUNCE_SUSPECT_MS elapses since apply_done_at. *)
SuspectWindowEnds ==
  /\ recent
  /\ recent' = FALSE
  /\ UNCHANGED <<hwVars, envVars, applyVars, pc, last, settled, dark, attempts,
                 present, stop, excused, watchVars>>

(* A read or a command of the code fails. *)
Fault == fails < MaxFail /\ fails' = fails + 1

(***************************************************************************)
(* apply_once, for a process p of either kind.                             *)
(***************************************************************************)
Goto(p, step) == at' = [at EXCEPT ![p] = step]

(* The `finally` closes the lock fd on every way out. *)
Return(p, applied) ==
  /\ Goto(p, applied)
  /\ lock' = lock \ {p}
  /\ outs' = [outs EXCEPT ![p] = NoOuts]
  /\ todo' = [todo EXCEPT ![p] = {}]
  /\ offs' = [offs EXCEPT ![p] = {}]
  /\ autos' = [autos EXCEPT ![p] = {}]

Bail(p) == Return(p, "false")

(* flock(LOCK_EX | LOCK_NB) succeeds only on a free lock. *)
LockFreeUnchecked == TRUE
LockFree == lock = {}

(* The lock is owned elsewhere, or its path is refused: bail. *)
ApplyLock(p) ==
  /\ at[p] = "lock"
  /\ \/ /\ LockFree
        /\ lock' = lock \cup {p}
        /\ Goto(p, "read1")
        /\ UNCHANGED <<outs, todo, offs, autos, fails>>
     \/ ~LockFree /\ Bail(p) /\ UNCHANGED fails
     \/ Fault /\ Bail(p)
  /\ UNCHANGED <<hwVars, plugs, crashes, mappings, watchVars>>

ApplyRead1(p) ==
  /\ at[p] = "read1"
  /\ \/ /\ outs' = [outs EXCEPT ![p] = RandR]
        /\ Goto(p, "read2")
        /\ UNCHANGED <<lock, todo, offs, autos, fails>>
     \/ Fault /\ Bail(p)
  /\ UNCHANGED <<hwVars, plugs, crashes, mappings, watchVars>>

(* The heads to scrub: those of the read just made, not of outs' old value. *)
StaleHeadsRead1(p) == scrub_stale(outs[p])
StaleHeads(p) == scrub_stale(RandR)

(* The second read replaces the first; scrub and placement both use it. *)
ApplyRead2(p) ==
  /\ at[p] = "read2"
  /\ \/ /\ outs' = [outs EXCEPT ![p] = RandR]
        /\ todo' = [todo EXCEPT ![p] = StaleHeads(p)]
        /\ touched' = [touched EXCEPT ![p] = {}]
        /\ Goto(p, "scrub")
        /\ UNCHANGED <<lock, offs, autos, fails>>
     \/ Fault /\ Bail(p) /\ UNCHANGED touched
  /\ UNCHANGED <<hwVars, plugs, crashes, mappings, late>>

(* An xrandr command changes CRTCs, or exits non-zero, which run() ignores. *)
Xrandr(p, cs, newLit) ==
  \/ /\ lit' = newLit
     /\ xq' = (xq \/ (EventsOk /\ newLit # lit))
     /\ Late((lit \ newLit) \cup (newLit \ lit))
     /\ UNCHANGED <<fails, touched>>
  \/ /\ Fault
     /\ Touch(cs)
     /\ UNCHANGED <<lit, xq, late>>

(* `xrandr --output c --off` for one stale head. *)
output_off(p) ==
  /\ at[p] = "scrub"
  /\ \E c \in todo[p] :
       /\ Xrandr(p, {c}, lit \ {c})
       /\ todo' = [todo EXCEPT ![p] = @ \ {c}]
       /\ offs' = [offs EXCEPT ![p] = @ \cup {c}]
  /\ UNCHANGED <<connected, plugs, crashes, mappings, lock, at, outs, autos>>

(* The scrub is over: nothing connected, a layout profile, or placement. *)
AfterScrub(p) ==
  /\ at[p] = "scrub"
  /\ todo[p] = {}
  /\ \/ outs[p].connected = {} /\ Return(p, "true")
     \/ /\ outs[p].connected # {}
        /\ Goto(p, IF outs[p].connected \in Layouts THEN "profile" ELSE "place")
        /\ todo' = [todo EXCEPT ![p] = outs[p].connected]
        /\ UNCHANGED <<lock, outs, offs, autos>>
  /\ UNCHANGED <<hwVars, envVars, watchVars>>

(* xrandr --auto lights a connected head and turns a disconnected one off. *)
AutoLit(cs) == (lit \ (cs \ connected)) \cup ((cs \cap connected) \ Stubborn)

(* primary_scale / --auto --primary / auto_pos for one connected output. *)
auto_pos(p) ==
  /\ at[p] = "place"
  /\ \E c \in todo[p] :
       /\ Xrandr(p, {c}, AutoLit({c}))
       /\ todo' = [todo EXCEPT ![p] = @ \ {c}]
       /\ autos' = [autos EXCEPT ![p] = @ \cup {c}]
  /\ UNCHANGED <<connected, plugs, crashes, mappings, lock, at, outs, offs>>

(* The profile's single argv; it is refused as a whole if a head is gone or fails. *)
run_profile(p) ==
  /\ at[p] = "profile"
  /\ todo[p] # {}
  /\ \/ Xrandr(p, todo[p], AutoLit(todo[p]))
     \/ /\ ~(todo[p] \subseteq connected \ Stubborn)
        /\ Touch(todo[p])
        /\ UNCHANGED <<lit, xq, fails, late>>
  /\ todo' = [todo EXCEPT ![p] = {}]
  /\ autos' = [autos EXCEPT ![p] = todo[p]]
  /\ UNCHANGED <<connected, plugs, crashes, mappings, lock, at, outs, offs>>

(* Wallpaper and touch remap, then `return True`. *)
ApplyDone(p) ==
  /\ at[p] \in {"place", "profile"}
  /\ todo[p] = {}
  /\ Return(p, "true")
  /\ UNCHANGED <<hwVars, envVars, watchVars>>

ApplyOnce(p) ==
  /\ \/ ApplyLock(p) \/ ApplyRead1(p) \/ ApplyRead2(p) \/ output_off(p)
     \/ AfterScrub(p) \/ auto_pos(p) \/ run_profile(p) \/ ApplyDone(p)
  /\ UNCHANGED loopVars

(* Entering apply_once. *)
BeginApply(p) ==
  /\ Goto(p, "lock")
  /\ touched' = [touched EXCEPT ![p] = {}]
  /\ UNCHANGED <<lock, outs, todo, offs, autos, late>>

(* A one-shot process runs one apply_once and exits. *)
SiblingStart(s) ==
  /\ at[s] = "idle"
  /\ BeginApply(s)
  /\ UNCHANGED <<hwVars, envVars, loopVars>>

(***************************************************************************)
(* The daemon: cli.main, then watch_loop.                                  *)
(***************************************************************************)
Boot ==
  /\ pc = "down"
  /\ pc' = "boot"
  /\ BeginApply(Daemon)
  /\ UNCHANGED <<hwVars, envVars, last, settled, dark, attempts, recent, present,
                 stop, excused>>

(* main ignores what the boot apply returns; a bail leaves every head unknown. *)
BootApplied ==
  /\ pc = "boot"
  /\ at[Daemon] \in {"true", "false"}
  /\ pc' = "seed"
  /\ Goto(Daemon, "idle")
  /\ touched' = IF at[Daemon] = "true" THEN touched
                ELSE [touched EXCEPT ![Daemon] = Connectors]
  /\ UNCHANGED <<hwVars, envVars, lock, outs, todo, offs, autos, last, settled, dark,
                 attempts, recent, present, stop, excused, late>>

(* _seeded_coordinator may wait about ten seconds for dwm-ipc. *)
Seed ==
  /\ pc = "seed"
  /\ pc' = "start"
  /\ UNCHANGED <<hwVars, envVars, applyVars, last, settled, dark, attempts, recent,
                 present, stop, excused, watchVars>>

(* The faults a hash may show: a phantom that raced the apply, a dark head in `allowed`. *)
Excuse(hash, allowed) ==
  (PhantomIn(hash) \cap touched[Daemon]) \cup (DarkIn(hash) \cap allowed)

(* watch_loop before its loop: churn is fresh, the first hash is taken as read. *)
StartLoop ==
  /\ pc = "start"
  /\ pc' = "select"
  /\ last' = topology_hash(RandR)
  /\ attempts' = 0 /\ recent' = FALSE /\ present' = {}
  /\ excused' = Excuse(last', touched[Daemon] \cup Stubborn)
  /\ touched' = [touched EXCEPT ![Daemon] = {}]
  /\ UNCHANGED <<hwVars, envVars, applyVars, settled, dark, stop, late>>

(* select returns for an event burst to drain or for the slow-poll timeout.     *)
(* Without RandR events the connection is never read: a waiting event hides the *)
(* timeout too, because `xfd not in r` is false.                                *)
SelectReturnsEventsOnly == EventsOk /\ xq
SelectReturns == EventsOk \/ ~xq

Wake ==
  /\ pc = "select"
  /\ ~stop
  /\ SelectReturns
  /\ xq' = FALSE
  /\ pc' = IF topology_hash(RandR) = last THEN "select" ELSE "debounce"
  /\ UNCHANGED <<connected, lit, envVars, applyVars, last, settled, dark, attempts,
                 recent, present, stop, excused, watchVars>>

(* ... and the loop spins on the readable connection without looking. *)
Spin ==
  /\ pc = "select"
  /\ ~stop
  /\ ~SelectReturns
  /\ UNCHANGED vars

(* After the debounce sleep. *)
Verify ==
  /\ pc = "debounce"
  /\ pc' = IF topology_hash(RandR) = last THEN "select" ELSE "bounce"
  /\ UNCHANGED <<hwVars, envVars, applyVars, last, settled, dark, attempts, recent,
                 present, stop, excused, watchVars>>

CallApply == pc' = "apply" /\ BeginApply(Daemon)

(* present_connectors: an unreadable topology yields the empty set. *)
present_connectors(seen) ==
  \/ seen = connected /\ UNCHANGED fails
  \/ seen = {} /\ Fault

(* _bounce_settled up to its wait: the kill switch and the two gates. *)
BounceGate ==
  /\ pc = "bounce"
  /\ \/ (~HoldDown \/ ~recent \/ present = {}) /\ CallApply /\ UNCHANGED fails
     \/ /\ HoldDown /\ recent /\ present # {}
        /\ \E seen \in SUBSET Connectors :
             /\ present_connectors(seen)
             /\ IF present \ seen = {} THEN CallApply
                ELSE pc' = "hold" /\ UNCHANGED <<applyVars, watchVars>>
  /\ UNCHANGED <<hwVars, plugs, crashes, mappings, last, settled, dark, attempts,
                 recent, present, stop, excused>>

(* One poll of the hold-down loop sees the old topology again. *)
HoldPoll ==
  /\ pc = "hold"
  /\ ~stop
  /\ topology_hash(RandR) = last
  /\ pc' = "select"
  /\ UNCHANGED <<hwVars, envVars, applyVars, last, settled, dark, attempts, recent,
                 present, stop, excused, watchVars>>

(* The deadline passes, or shutdown interrupts the wait: apply. *)
HoldEnd ==
  /\ pc = "hold"
  /\ CallApply
  /\ UNCHANGED <<hwVars, envVars, last, settled, dark, attempts, recent, present,
                 stop, excused>>

(* A bail keeps the old hash and skips the hook. *)
AfterApplyAbsorbing(applied) == "settle"
AfterApply(applied) == IF applied = "true" THEN "settle" ELSE "select"

ApplyReturned ==
  /\ pc = "apply"
  /\ at[Daemon] \in {"true", "false"}
  /\ pc' = AfterApply(at[Daemon])
  /\ Goto(Daemon, "idle")
  /\ UNCHANGED <<hwVars, envVars, lock, outs, todo, offs, autos, last, settled, dark,
                 attempts, recent, present, stop, excused, watchVars>>

Settle ==
  /\ pc = "settle"
  /\ settled' = topology_hash(RandR)
  /\ late' = {}
  /\ recent' = HoldDown
  /\ pc' = IF HoldDown THEN "present" ELSE "unhealed"
  /\ UNCHANGED <<hwVars, envVars, applyVars, last, dark, attempts, present, stop,
                 excused, touched>>

RecordPresent ==
  /\ pc = "present"
  /\ pc' = "unhealed"
  /\ present_connectors(present')
  /\ UNCHANGED <<hwVars, plugs, crashes, mappings, applyVars, last, settled, dark,
                 attempts, recent, stop, excused, watchVars>>

(* unhealed_connectors: a failed read reports nothing. *)
ReadUnhealed ==
  /\ pc = "unhealed"
  /\ pc' = "hook"
  /\ \/ dark' = unhealed_outputs(RandR) /\ UNCHANGED <<fails, late>>
     \/ dark' = {} /\ Fault /\ late' = Connectors
  /\ UNCHANGED <<hwVars, plugs, crashes, mappings, applyVars, last, settled, attempts,
                 recent, present, stop, excused, touched>>

(* coordinator.on_settled: takes time, changes no display state, never raises. *)
Hook ==
  /\ pc = "hook"
  /\ pc' = "decide"
  /\ UNCHANGED <<hwVars, envVars, applyVars, last, settled, dark, attempts, recent,
                 present, stop, excused, watchVars>>

(* attempts <= UNHEALED_APPLY_LIMIT, once this attempt is counted. *)
MayRetryOnceMore == dark # {} /\ attempts <= UNHEALED_APPLY_LIMIT
MayRetry == dark # {} /\ attempts < UNHEALED_APPLY_LIMIT

(* Retry a connected-but-dark head, or absorb the settled hash. *)
Decide ==
  /\ pc = "decide"
  /\ pc' = "select"
  /\ IF MayRetry
     THEN /\ attempts' = attempts + 1
          /\ UNCHANGED <<last, excused>>
     ELSE /\ attempts' = 0
          /\ last' = settled
          /\ excused' = Excuse(settled, late \cup IF attempts < UNHEALED_APPLY_LIMIT THEN {} ELSE dark)
  /\ settled' = {} /\ dark' = {} /\ late' = {}
  /\ touched' = [touched EXCEPT ![Daemon] = {}]
  /\ UNCHANGED <<hwVars, envVars, applyVars, recent, present, stop>>

(* SIGTERM; the wakeup pipe makes select return to the loop head at once. *)
Sigterm ==
  /\ CanStop /\ ~stop
  /\ pc \notin {"down", "stopped"}
  /\ stop' = TRUE
  /\ UNCHANGED <<hwVars, envVars, applyVars, pc, last, settled, dark, attempts, recent,
                 present, excused, watchVars>>

(* The wakeup pipe wakes select, and the loop head looks at stop_evt. *)
StopSeenWithEvent == stop /\ xq
StopSeen == stop

LeaveLoop ==
  /\ pc = "select"
  /\ StopSeen
  /\ pc' = "stopped"
  /\ UNCHANGED <<hwVars, envVars, applyVars, last, settled, dark, attempts, recent,
                 present, stop, excused, watchVars>>

(* The process dies: killed, or an exception leaves main, as any topology_hash   *)
(* read that fails does.  The kernel drops its lock; systemd restarts it (Boot). *)
Crash ==
  /\ pc \notin {"down", "stopped"}
  /\ crashes < MaxCrash
  /\ crashes' = crashes + 1
  /\ pc' = IF stop THEN "stopped" ELSE "down"
  /\ Return(Daemon, "idle")
  /\ last' = {} /\ settled' = {} /\ dark' = {} /\ excused' = {} /\ late' = {}
  /\ attempts' = 0 /\ recent' = FALSE /\ present' = {}
  /\ touched' = [touched EXCEPT ![Daemon] = {}]
  /\ UNCHANGED <<hwVars, plugs, fails, mappings, stop>>

(* A one-shot process is killed in its apply, and with it the command under way. *)
SiblingKilled(s) ==
  /\ at[s] \notin {"idle", "true", "false"}
  /\ crashes < MaxCrash
  /\ crashes' = crashes + 1
  /\ Return(s, "false")
  /\ UNCHANGED <<hwVars, plugs, fails, mappings, loopVars, watchVars>>

(***************************************************************************)
(* Specification.                                                          *)
(***************************************************************************)
Init ==
  /\ connected \in SUBSET Connectors
  /\ lit \in SUBSET (Connectors \ Stubborn)
  /\ xq = FALSE
  /\ plugs = 0 /\ fails = 0 /\ crashes = 0 /\ mappings = 0
  /\ lock = {}
  /\ at = [p \in Procs |-> "idle"]
  /\ outs = [p \in Procs |-> NoOuts]
  /\ todo = [p \in Procs |-> {}]
  /\ offs = [p \in Procs |-> {}] /\ autos = [p \in Procs |-> {}]
  /\ pc = "down"
  /\ last = {} /\ settled = {} /\ dark = {} /\ present = {}
  /\ attempts = 0 /\ recent = FALSE /\ stop = FALSE
  /\ touched = [p \in Procs |-> {}] /\ late = {} /\ excused = {}

Loop ==
  \/ BootApplied \/ Seed \/ StartLoop \/ Wake \/ Spin \/ Verify \/ BounceGate \/ HoldPoll
  \/ HoldEnd \/ ApplyReturned \/ Settle \/ RecordPresent \/ ReadUnhealed \/ Hook
  \/ Decide \/ LeaveLoop

Environment ==
  \/ \E c \in Connectors : Hotplug(c)
  \/ MappingNotify \/ SuspectWindowEnds \/ Sigterm \/ Crash
  \/ \E s \in Siblings : SiblingStart(s) \/ SiblingKilled(s)

Next == Boot \/ Loop \/ (\E p \in Procs : ApplyOnce(p)) \/ Environment

(* Processes keep running and systemd restarts the daemon (Restart=always). *)
(* Hotplugs, faults, crashes, kills, signals and one-shots are never owed.  *)
Fairness == WF_vars(Boot) /\ WF_vars(Loop) /\ \A p \in Procs : WF_vars(ApplyOnce(p))

Spec == Init /\ [][Next]_vars
FairSpec == Spec /\ Fairness

(***************************************************************************)
(* Properties.                                                             *)
(***************************************************************************)
ApplySteps == {"idle", "lock", "read1", "read2", "scrub", "place", "profile", "true", "false"}
Critical == {"read1", "read2", "scrub", "place", "profile"}
LoopSteps == {"select", "debounce", "bounce", "hold", "apply", "settle"} \cup SettleSteps
Points == {"down", "boot", "seed", "start", "stopped"} \cup LoopSteps

(* Every variable has its type, and the counters stay within their bounds. *)
TypeOK ==
  /\ connected \in SUBSET Connectors /\ lit \in SUBSET Connectors /\ xq \in BOOLEAN
  /\ plugs \in 0..MaxHotplug /\ fails \in 0..MaxFail
  /\ crashes \in 0..MaxCrash /\ mappings \in 0..MaxMapping
  /\ lock \in SUBSET Procs
  /\ at \in [Procs -> ApplySteps] /\ outs \in [Procs -> Outs]
  /\ todo \in [Procs -> SUBSET Connectors]
  /\ offs \in [Procs -> SUBSET Connectors] /\ autos \in [Procs -> SUBSET Connectors]
  /\ pc \in Points
  /\ last \in Hashes /\ settled \in Hashes
  /\ dark \in SUBSET Connectors /\ present \in SUBSET Connectors
  /\ attempts \in 0..UNHEALED_APPLY_LIMIT
  /\ recent \in BOOLEAN /\ stop \in BOOLEAN
  /\ touched \in [Procs -> SUBSET Connectors]
  /\ late \in SUBSET Connectors /\ excused \in SUBSET Connectors

(* The apply-lock: no two processes are ever between their first read and     *)
(* their last xrandr command together, crashes of the daemon and kills of     *)
(* one-shot processes included.                                               *)
MutualExclusion ==
  \A p, q \in Procs : at[p] \in Critical /\ at[q] \in Critical => p = q

(* One apply_once never powers a connector off and brings it back up, however *)
(* often the head bounces between its reads and commands (apply.py:218).      *)
NoOffThenOn == \A p \in Procs : offs[p] \cap autos[p] = {}

(* The hash the loop compares against hides a fault (a disconnected head lit, *)
(* a connected one dark) only for one of these reasons: the head was          *)
(* hot-plugged, or its command failed, after the second read of the apply;    *)
(* a dark one changed after the settle read, or the read of the unhealed      *)
(* heads failed, or every retry was spent on it; and at the start of the loop *)
(* the boot apply bailed, or a dark head is one that cannot light.  So a      *)
(* bailed apply of the loop, or one a crash or kill cut off, is not absorbed. *)
AbsorbedFaultsExcused ==
  pc \in LoopSteps => PhantomIn(last) \cup DarkIn(last) \subseteq excused

(* No apply blanks a head that stays connected: a CRTC goes dark only under a *)
(* disconnected head or under one that was re-plugged after the apply's       *)
(* second read (apply.py:84).                                                 *)
NeverBlanksSteadyHead ==
  [][\A c \in lit \ lit' :
       c \in connected => \E p \in Procs : at[p] \in Critical /\ c \in touched[p]]_vars

(* Once the hardware is quiet the daemon comes to rest with the topology it   *)
(* remembers on the wire: it neither re-applies for ever (a head that cannot  *)
(* light, its own events) nor leaves a seen change unhandled (a bail, a held  *)
(* disconnect).                                                               *)
Settles ==
  <>[](pc = "stopped" \/ (pc = "select" /\ topology_hash(RandR) = last))

(* SIGTERM ends the daemon wherever it arrives (watch.py:288).                *)
SigtermStops == stop ~> pc = "stopped"

(* A changed topology is looked at: by its event or by the slow poll.         *)
ChangeNoticed ==
  (pc = "select" /\ ~stop /\ topology_hash(RandR) # last)
    ~> (pc # "select" \/ topology_hash(RandR) = last)

(* "A monitor is never left connected-but-dark" (CHANGELOG.md:58).            *)
DarkHeadsHealed == []<>(connected \ Stubborn \subseteq lit)
=============================================================================
