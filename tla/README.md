# Specifications of xrandrw

xrandrw is a daemon that keeps the monitors of an X11 session laid out: it watches RandR for
hot-plugs, powers off what was unplugged, places what was plugged in, remembers monitors and
preferences in a state file, and moves windows back when their monitor returns. This directory
holds TLA+ models of it, the TLC runs over them, and proofs checked by TLAPS. Paths below are
relative to the repository.

## The system

| Component | Code | State it keeps | Operations | Talks to |
|---|---|---|---|---|
| watch loop | `src/xrandrw/watch.py`, boot in `cli.py` | `last_hash`, `churn` (unhealed counter, bounce baseline, times), `stop_evt` | boot, seed, select, debounce and verify, bounce gate and hold-down, apply, settle, retry, signals | X events, apply pass, coordinator hook |
| apply pass | `apply.py` | the apply-lock; `outs` | lock, two reads, scrub, profile or placement commands, save | RandR, `xrandr`, state store |
| topology | `xrandr.py` | none | read, hash, unhealed heads, EDIDs | X server |
| state store | `state.py` | `state.json`: identity map, profiles, attach stack; the state-lock | load, ensure profile (with merges), save | applies and `--set-pref` in other processes |
| set-pref | `cli.py` | none | choose a side for a connector, an EDID or a profile | state store |
| relocation coordinator | `relocate.py` | `_prev_present`, `_snapshot`, `_snapshot_focus`, `_displaced` | record, restore cycle, crash guard, focus give-back, sweep, capture | dwm over its IPC socket, X, `/proc` |
| window capture | `windows.py` | none | enumerate windows, resolve processes, match monitors to outputs | dwm, X, `/proc`, RandR |
| service unit | `systemd/xrandrw.service` | none | restart after a crash | daemon |
| dwm IPC client | `dwmipc.py` | none | framed request and reply under a deadline | dwm |
| placement and layout profiles | `policy.py`, `profiles.py`, `apply.py` | none (works on the attach stack and preferences of the state store) | choose a layout profile; order the heads, give each a side and an anchor | apply pass |
| wallpaper, touch, configuration, logging | `wallpaper.py`, `touch.py`, `config.py`, `logging_utils.py` | none | text, or one external command after another | |

The daemon has one working thread. What makes it hard is what runs beside it: the hardware
changes between any two reads and commands; one-shot applies (udev, a user) contend for the
apply-lock and `--set-pref` for the state file; dwm and the user move windows and the selection
between two IPC round trips; and any read, command or write may fail and any process be killed.

What makes each part correct:

- *watch and apply*: one apply at a time; one apply never cuts a head and lights it again, and
  never cuts a connected one; the absorbed hash hides no fault the daemon could know of; every
  change is looked at, the loop comes to rest, and SIGTERM ends it.
- *state store*: no lost update; every identity leads to a usable profile; a chosen side stays;
  the attach order is stable and free of duplicates; nobody waits for a lock for ever.
- *placement*: every connected head is configured; no two externals share a spot, however many
  there are; a wanted side is lost only to a newer head; applying again moves nothing.
- *churn back-off*: the wait grows with the churn, stays within its cap, and comes back down.
- *dwm IPC client*: a call ends within its deadline, closes its socket, and returns what dwm
  decided on that very request or fails.
- *window capture*: a record is of one process and of the place its window was shown at; a window
  that vanishes costs no other one its record.
- *coordinator*: a command only follows a confirmed focus; no window of another process is
  touched; dwm is never led into its crash condition; a record lives until its window is back;
  every cycle ends.

`PROJECT.json` lists under `hazards` the lines where this can go wrong and the property for each.

## Modules

| Module | Models | Extends |
|---|---|---|
| `Topology` | hash, unhealed heads and scrub set of a RandR read | |
| `DisplayWatch` | the daemon (boot, seed, loop), `apply_once` of daemon and one-shot processes, hardware | `Topology` |
| `Subsequences` | the elements of a list that a comprehension or a loop keeps, in their order | |
| `StateStore` | `state.json` and the two locks, under applies and `--set-pref` | `Subsequences` |
| `Relocate` | the coordinator and the capture, beside dwm and a user | `Subsequences` |
| `Reconciler` | abstract: what the daemon promises | `Topology` |
| `WatchReconciles` | the refinement mapping from `DisplayWatch` to `Reconciler` | `DisplayWatch` |
| `RoundTrip` | abstract: what a caller of the IPC client may rely on | |
| `DwmIpc` | one framed call after another, with its peer and the clock; implements `RoundTrip` | |
| `Placement` | layout profile, primary, order, sides and anchors over successive applies | `Subsequences` |
| `Churn` | the back-off of the debounce | `Subsequences` |
| `WindowCapture` | one capture, read by read, beside processes, windows and dwm | |
| `MCDisplayWatch`, `MCStateStore`, `MCRelocate` | instances for TLC | `WatchReconciles`, the module of that name |
| `MCParts` | one instance of the four parts that share no state | `Placement`, `Churn`, `WindowCapture`, `DwmIpc` |
| `DisplayWatchProofs` | theorems, the refinement among them | `WatchReconciles`, `TLAPS` |
| `SubsequencesProofs` | lemmas about lists, for the next four | `Subsequences`, `TLAPS` |
| `StateStoreProofs`, `PlacementProofs`, `ChurnProofs`, `RelocateProofs` | theorems | the component, `SubsequencesProofs` |
| `DwmIpcProofs`, `WindowCaptureProofs` | theorems | the component, `TLAPS` |

`DisplayWatch` composes the watch loop with any number of concurrent `apply_once` processes. It
and `Relocate` meet in one call, `on_settled`: in `DisplayWatch` it is the step `Hook`, a stretch
of time in which the hardware may change and which alters nothing the loop uses; `Relocate!Settle`
may start at any time the coordinator is idle, which includes every time the loop calls it.
`StateStore` and `DisplayWatch` meet in the state-lock span of `apply_once`; the profile branch
never enters it. Three modules look closer at what these leave abstract: `Placement` computes the
sides and anchors of the heads `DisplayWatch!auto_pos` lights, from the preferences and the stack
`StateStore` keeps; `Churn` the length of the wait before `DisplayWatch!Verify`; `WindowCapture` the
reads behind `Relocate!Capture` and `Relocate!Records`. `DwmIpc` is what is inside one round trip of
`Relocate`.

### DisplayWatch

| In the module | In the code |
|---|---|
| `connected`, `lit` | what a RandR read returns: hot-plug detect, and whether the output has a CRTC |
| `at[p]`, `outs[p]`, `todo[p]` | where process `p` is in `apply_once`; its read; the commands due |
| `lock` | the flock on `LOCKFILE`; a dead process holds none |
| `pc`, `last`, `settled`, `dark` | where the daemon is; `last_hash`; the settled hash; `unhealed` |
| `attempts`, `recent`, `present` | `churn["unhealed"]`; `apply_done_at` within `BOUNCE_SUSPECT_MS`; `churn["present"]` |
| `xq` | an X event is pending on the watch connection |
| `offs`, `autos`, `touched`, `late`, `excused` | observers the properties need; no action reads them to decide |

Every RandR read, every `xrandr` command and every wait is a step, and `Hotplug` may come between
any two. The debounce and hold-down lengths are arbitrary waits. A failed command lights or cuts
nothing, since exit codes are ignored. `Stubborn` heads never light. A crash at any point (`Crash`)
ends the daemon and the unit starts it again; a kill (`SiblingKilled`) ends a one-shot process in its
apply, and its lock goes with it. The command under way goes down with either.

### Reconciler

The abstract daemon has a phase, a topology it knows and one it may adopt. It leaves its rest only
on a difference, changes outputs only while it holds the lock, lights only connected heads, and
adopts only a topology read after an apply that went through. `WatchReconciles` maps `pc` and `at`
to the phase, `last` to `known`, `settled` to `sample`. The reads, the commands, debounce and
hold-down inside an apply are stutters or `Power` steps of it. What the property adds to the
invariants of `DisplayWatch` is the protocol as a whole: no path of the loop, bails and crashes
included, reaches an adoption that is not preceded by a completed apply and a read of its own.

### StateStore

`file` is `state.json`; `st[p]` the copy a process works on; `applyLock` and `stateLock` the
flocks; `outs[p]` the outputs still to be resolved by `ensure_profile`, one per step;
`pids[p]` is `pid_by_output`. A profile id is the SHA-1 of the key it was made for and is modelled by
that key, so an id that was merged away can be made again. The name list of a profile is
abstracted to whether it exists. `base`, `dropped` and `chosen` are observers. `Kill` and the fault
branches of `LockAndLoad` and `Save` are the crash, the unreadable file, which loads as an empty
state, and the failed write, which is logged and ignored.

### Relocate

`win`, `sel`, `view`, `selmon`, `mons` are dwm: the clients, the selected client and tag of each
monitor, the selected monitor, the monitors by number. dwm is external and modelled by what the
code relies on: monitors are numbered in screen order, clients of a vanished monitor go to the
first, commands act on the selected client of the selected monitor, and a `_NET_ACTIVE_WINDOW`
message is handled at some time or never (`asked`). `prev`, `snapshot`, `focus`, `displaced` are
the coordinator's attributes; `pc` and `cyc` its position and locals in one `on_settled`. Each IPC
round trip is a step: `Entry`, `Resolve`, `Focus`, `Poll`, `Guard`, `RunVerb`, `Where`,
`GiveBack`, `BackPoll`, `Walk`, `Capture`, `Records`. Two are merged: the reads of the crash guard,
and the read of the selected monitor with the `focusmon` of a walk. In a calm cycle nothing the guard
reads can change in between; a selection that changes inside a walk's pair may turn one of its hops,
which are bounded whatever they do, the wrong way. A round trip that fails, is rejected, or
whose reply is lost after the command was carried out is a fault branch. The user opens windows (dwm's
rules may choose the monitor), closes, selects and moves them, selects a monitor and views a tag.

`calm` observes whether user or dwm interfered inside the present cycle: no code can exclude that a
user changes the selection between a reply and the next command, so the properties about commands
are stated for cycles in which nobody did. What the coordinator does itself never ends `calm`, a
command that hits another window included. Late and missing answers to its own focus messages are
not excluded either, except a late answer for another window. `astray` observes that the `tag` command
of the present restore hit another window, or none.

### Placement

`stage` is where `apply_once` is, `todo`, `fresh`, `conns` the loop of `_place_externals`, `ordered`
the heads newest first, `occupied`, `last_item`, `placed` the variables of `assign_placements`.
Heads are numbered in the order of their names; which profile id a head has is given, and identical
heads share one. `Resolve` takes the heads in any order, which is the order of the read. Between
applies heads are plugged and sides are set. `layout` records what the last apply saw and did. An
apply that finds no head connected places nothing and is left out.

### Churn

`ages` is `churn["times"]`, `backoff` is `churn["backoff"]`, `sleep` what is left of `time.sleep`, in
ticks of 50 ms. `Change` is the whole of `_debounce_ms_for_churn` for a hash that differs.

### DwmIpc and RoundTrip

`pc` is where `request` is; `buf` and `need` are `_recvall`'s; `elapsed` counts from the moment the
deadline is set, `wake` is when the armed `recv` times out. The peer writes in pieces, late, never,
something malformed, or hangs up. Time passes only while the client is blocked in `recv` with
nothing to read: `connect` and the send of a short request on a local socket do not block.
`Handle` is dwm carrying the request out, which may happen after the call has failed. A
full backlog may in fact hold `connect` up for as long as the timeout, before the deadline is
set (dwmipc.py:313, 322): a call may take twice its timeout, and `OverInTime` speaks of the time from
the deadline on. The refinement maps `pc` to `busy` and the replies to decisions; framing, deadline and pieces are
stutters. `RoundTrip` also says what a caller may *not* assume: a failed call may have been, or may
still be, carried out; and it may fail with another exception than `DwmIpcUnavailable` (`raised`),
though dwmipc.py:302 says that nothing else escapes: `socket()` stands outside the `try`, and
`json.loads` raises `RecursionError` on deep nesting. `subscribe` is called from nowhere and is left out.

### WindowCapture

A command line may be empty or unreadable also of a living process. `step` is where the capture is: the listing (`get_monitors`), the RandR read, then per window the
pid, `/proc/<pid>/stat`, `comm`, `cmdline`, `stat` again, and `get_dwm_client`. A pid names a sequence
of process instances; what is read of an instance is its number. Between any two reads a process
may end (its pid used again at once, later, or not), a window move, or dwm number its monitors
anew. dwm may answer for a window just closed. `steady` and `renumbered` are observers.

## Runs

TLC, at most a few minutes each. `CHECK_DEADLOCK FALSE` stands where the system may stop: SIGTERM,
and models whose environment has used up its bounds with all processes idle.

| Run | Checks | Bounds, and why they are enough |
|---|---|---|
| `watch_safety` | `TypeOK`, `MutualExclusion`, `NoOffThenOn`, `AbsorbedFaultsExcused`, `Reconciles`, `NeverBlanksSteadyHead` | two heads, a sibling apply, 3 hot-plugs, 1 fault, 1 crash or kill: a change before, during and after an apply, and two applies in conflict over one head while the other is steady. After a crash inside an apply `AbsorbedFaultsExcused` asks that the next boot apply, if it goes through, leave nothing dark or disconnected-and-lit for the first hash to absorb; if it bails, that is what `watch_dark` shows |
| `watch_liveness` | `Settles`, `ChangeNoticed` | a stubborn head, a layout, a sibling, 2 hot-plugs, 1 fault, retry limit 2. No crash: a restarted loop comes to rest on the hash it finds, whatever that is, so `Settles` would not say that a crash is made good. Crashes belong to `watch_safety` and `watch_stop`; with one, this run holds too, and takes some minutes more |
| `watch_stop` | `SigtermStops` | no RandR events, a crash, a stray X event |
| `store_state` | `TypeOK`, `NoLostUpdate`, `PrefKept`, `IdentitiesLead`, `StackUnique`, `NobodyStuck`, `StackOrderKept` | an apply and a set-pref, 2 process runs (also two of the same kind, one after the other), two monitors and an unreadable EDID, 2 re-cablings, 1 fault, externals read in the reverse of the apply's order: a read-modify-write inside another, and every merge two monitors on two ports and a panel can cause |
| `relocate_focus` | `TypeOK`, `CommandsFollowFocus`, `MovesNeverCrashDwm`, `KeptUntilBack` | every placement of two windows (tag, monitor, floating) on two heads, unplug and replug, 1 fault, no user: dwm's messages, the guard and the faults by themselves |
| `relocate_reuse` | `NeverAnotherInstance`, `SettleReturns`, `KeptUntilBack` | one window id, two process instances, 2 user actions (close, and open under another process or on another monitor; select or move; select a monitor; view a tag) and 2 hot-plugs while the cycle walks the monitors. Actions before the cycle leave it calm: a user who has selected another monitor makes the cycle's commands miss the window. Liveness admits no symmetry, and a third head takes the run from one to several minutes: it was checked apart, with one tag, before the user could select monitors, and holds |
| `parts` | of `Placement`: `EveryHeadConfigured`, `SpotsDistinct`, `AnchorsPlacedFirst`, `SideLostOnlyToNewer`, `PlacementStable` | six heads: a panel, and two identical monitors among five externals, so that the four sides overflow and one head is chained; preferences that collide, one unset; layout profiles that tie, and one that fits part of the heads; one hot-plug and one `--set-pref` between applies |
| | of `Churn`: `DelayBounded`, `TimesBounded`, `BackoffKeepsUp`, `DebounceRecovers` | a window of 24 ticks, a threshold of 2 changes and a cap that is no multiple of the step: the excess ends, returns and reaches the cap in mid-step |
| | of `WindowCapture`: `CoherentIdentity`, `OutputWhereShown`, `SteadyWindowsRecorded` | two windows, of one process or of two, two outputs, 2 events beside the capture: one between two reads and one that hides it |
| | of `DwmIpc`: `TypeOK`, `OverInTime`, `NothingLeftOpen`, `CallReturns`, `KeepsContract` | two calls, so that the first can be answered during the second; a timeout of 2 ticks, header and body of 2 pieces, so that a piece may come just before the deadline. Three calls and 3 pieces were checked apart, and hold |

`parts` is one run because its four parts share no state: each behaviour is one of one part, while
the others stand still. It is the sum of four state spaces, not their product.

Every property of these runs has a mutant in `PROJECT.json`: a plausible slip in the code that
makes TLC report it violated.

Runs that show a disagreement between the code and its own documentation:

| Run | What happens |
|---|---|
| `watch_dark` | a head plugged in during boot is absorbed dark |
| `store_setpref` | a side just set is dropped by a merge in the same command |
| `relocate_wrong_window` | a client selected on an unselected monitor counts as focused; the command hits another window |
| `relocate_honest` | a head back before dwm has its monitor: the record is dropped as restored, the window is not |
| `relocate_blank` | a failed capture empties the snapshot |

Behaviour of the code that the models follow, and that a reader of the documentation would not
expect, but that has no run of its own:

- a head pulled between the apply's read and the settle read is absorbed disconnected-and-lit and
  stays powered until the next change (`excused` records it);
- a failed read of the connected heads, and a cable moved from one connector to another, pass the
  bounce gate and start the hold-down;
- with RandR < 1.5 nothing drains the X connection, so one stray X event keeps `select` from ever
  timing out and the slow poll from looking (`Spin`);
- exchanging the monitors on a port merges their profiles (`MergedInto`), and an apply may place a
  connector by a profile id that a later output of the same apply merged away (`pids`);
- the back-off decays by a step per change that is not in excess, not with time: after a storm and a
  quiet day the next change still waits long (`Churn!Decayed`);
- a fifth external is put `right-of` the one placed before it; when that one is left of the primary,
  it lands on the primary (`Placement!Place`). `SpotsDistinct` is about the pairs of side and anchor
  the code hands to `xrandr`, not about overlaps on the screen;
- when the primary changes (a panel appears), the old primary enters the attach stack as the newest
  head, because a primary is never on it (`Placement!Kept`);
- a command may be carried out by dwm after its call failed (`RoundTrip!CarryOut`);
- a capture during which dwm numbers its monitors anew records a wrong output (`renumbered`);
- windows opened since the last settle are not in the snapshot and are not brought back;
- a `tag` command that hits another window goes unnoticed (`astray`). A window the user has opened
  again is back on its monitor, selected there, while the user is on another: the fallback at
  relocate.py:79-87 takes it as focused, `tag` hits the user's window, no further read looks at the
  tag, and the record goes as restored with its window on the wrong tag. `KeptUntilBack` without
  `\/ astray'` is violated in `relocate_reuse` by this behaviour of 15 states; the monitor is safe,
  since `Where` reads it again.

The statements that fail in these runs are kept apart from those that hold. In particular
`AbsorbedFaultsExcused` names exactly the ways a fault can be absorbed, `CommandsFollowFocus` says
what the focus check does guarantee (the window is the selected client of *some* monitor), and
`KeptUntilBack` is what remains of `RestoreReportedHonestly`: for records whose monitor was found the
window is back on that monitor, whatever went wrong, and on its tag unless the `tag` command hit
another window.

Fairness. The daemon's steps, and those of an apply that holds the lock, are weakly fair: they are
straight-line code, and every wait in them has a timeout. Hot-plugs, faults, crashes, users and
dwm's answers are not fair. A started one-shot process is fair, starting one is not. In `DwmIpc` the
calling thread and the clock are fair and the peer owes nothing, so that `CallReturns` rests on the
deadline alone. `Churn` needs no fairness: `DebounceRecovers` speaks of behaviours in which changes
keep coming but not in excess. `StateStore` states freedom from deadlock as an invariant,
`NobodyStuck`: whoever waits waits for the state-lock, whose holder waits for nothing.

## Proofs

Proved for every value of the constants, from the named assumptions of the modules: the daemon is no
sibling, stubborn heads are heads, the key sets are disjoint, `None` is no value of the kind it
stands in for, bounds are naturals, and timeouts, piece counts and back-off steps are not 0. Every
invariant and every action property of the passing runs, and both refinements, are stated by a
theorem. Each module builds one inductive invariant and reads the properties off it.

`DisplayWatchProofs`, in order, each from the ones before:

1. `TypeCorrect`: every variable has its type.
2. `ControlFollowsApply`: the daemon is in an apply exactly at its control points for it.
3. `LockHeld`: a process is between lock and return exactly when it holds the lock, and one holds
   it; hence `ApplyMutualExclusion`.
4. `CommandsFollowRead2`: the heads cut so far are disconnected, and the heads lit so far connected,
   in the read the commands follow; hence `OneApplyNeverBounces`. The property alone is not
   inductive: it does not say which heads are still to come.
5. `Read2StaysTrue`: that read agrees with the hardware except for heads touched since; hence
   `SteadyHeadsStayLit`.
6. `LaterApplySawMore`: a sibling that commands after the daemon's apply has read no
   earlier than the daemon, so that what it touches is known to the daemon as touched.
7. `AppliesHeal`, `SettledHashExplained`: what an apply has left disconnected and lit was
   touched since its read, and so is what the settled hash shows; hence
   `NothingKnownIsAbsorbed`.
8. `DaemonReconciles`: each step of the daemon, of a sibling and of the hardware is, under the
   mapping of `WatchReconciles`, a step of `Reconciler` or a stutter. 1 to 3 are what it needs: that
   an adoption comes after the daemon's own completed apply is control flow, and that outputs
   change only in a phase that may change them is the lock.

`SubsequencesProofs`, about lists of any length: what `Only` keeps of a list is a recursive function of its length. Induction
over naturals is derived in the module itself (`NatSetInduction`, on a set of naturals, from the
well-foundedness of `<`), since the library's theorem takes an operator. `SubsequenceProperties` and
`SubsequenceOrder` say of every list: what is kept is of the list, in the list's order, as often as
it was.

`StateStoreProofs`, for any number of processes, outputs and monitors:

- `NothingOverwritten`, `LocksComeFree`. `NoLostUpdate` is not inductive: it needs `HolderInv`
  (whoever works on a copy holds the state-lock, and one process does) and `ShapeInv`.
- `Typed`, `IdentitiesAlwaysLead`, `PrefAlwaysKept`, `StackAlwaysUnique`, `StackOrderAlwaysKept`. The
  operations are treated first, as lemmas about a state: a merge, a new profile, a side, a scrubbed
  stack each take a `Good` state to a `Good` one. `Good` is more than the property (every identity
  leads to a named profile): a merge keeps it only because each profile id is itself a known
  identity. A property of what is *saved* must hold before it is saved, so `ProcInv` says it of the
  copy each process holds: the sides chosen so far stand in it (`SidesStand`), and it has exchanged
  no two ids of the file's stack (`OrderStands`). That a save of one
  process leaves this true of all others rests on `HolderInv`: nobody else works on a copy.

`RelocateProofs`, for any number of windows, process instances, tags, heads, tries and events:

- `MonsInv`, `ClientsInv`: dwm has a monitor, each client is on one there is, and what is selected on
  a monitor is a client it shows. `MemoryInv`, `CycleInv`: the coordinator's attributes and locals;
  a plan is `Ordered` (the move first, then the tag, then what is not essential), and a restore under
  way has a record and a step left. Together `Typed`.
- `CalmInv` is what holds of a cycle nobody interfered with: the window is of the instance the
  record names; if nothing sent was refused, what is no longer in the plan has been done, but for a
  `tag` that went astray (`Progress`); after the poll the window is selected on some monitor; at the command the crash guard
  has just passed on dwm as it is. Each is needed: `KeptUntilBack` at the last step rests on `Progress`
  through all steps before, and `MovesNeverCrashDwm` on the guard having seen the state the command
  meets. `CommandsAlwaysFollowFocus`, `NeverTouchesAnother`, `MovesAreSafe` and `RecordsKeptUntilBack` follow. The theorems are
  about calm cycles, as the properties are, whatever the coordinator's own commands hit.
- `Observed`, the type of `calm` and `astray`, is kept by every step by itself.

`DwmIpcProofs`: `TimeInv` (every `recv` of a call times out at the same moment, and time passes only
in `recv`) gives `DeadlineKept`; `SentInv` and `ReplyInv` (bytes on the wire are of the reply to this
very call, and a body is read only behind a good header) give `Typed`, `SocketsClosed` and, step by
step, the refinement `ImplementsContract`.

`WindowCaptureProofs`: `ReadsInv` orders the reads: the instances of a pid only count up, so that two
equal start times enclose the reads between them, which gives `IdentityCoherent`. `MappingInv` (until
dwm renumbers, a number leads to its output or to none) gives `OutputAsShown`; `SteadyInv` (a window
nothing happened to is recorded, at work or still to come) gives `SteadyRecorded`.

`PlacementProofs`, for any number of heads: the order is a function of stack and heads
(`OrderOfExternals`: each external once), and the placements made so far are a `Run` over it, which
says of each what side and anchor it has in terms of the ones before. Two runs over the same
order agree (`RunUnique`): hence `PlacementAlwaysStable`. While sides are free each placement takes
another one and anchors at the primary, afterwards each anchors at the one before it, which no other
does: hence `SpotsAlwaysDistinct`, `AnchorsAlwaysPlacedFirst`, `WantedSideLostOnlyToNewer`.
`ResolveInv` carries the stack's facts to the point where the order is made.

`ChurnProofs`: `TimesBounded` is not inductive, since nothing in it says why the list stops growing.
`SpacingInv` does: two entries are a base apart, because the thread slept at least that long in
between (`Waited`), so that a window of time holds no more than it has room for. `DelayAlwaysBounded`
and `BackoffAlwaysKeepsUp` need the types and the caps only.

Only model-checked: the liveness properties `Settles`, `ChangeNoticed`, `SigtermStops`, `SettleReturns`,
`CallReturns` and `DebounceRecovers` (outside the prover's reach, like `ENABLED`), and the runs that show
a disagreement, whose counterexample is the point.

## Not modelled, and what is abstracted

- A RandR read is atomic; in the code it is several round trips. What a head shows in a torn read it
  did show during it, so a property of one head sees a hot-plug just before or after the read.
- Geometry, scale and rotation are left out, and with them where on the screen a side puts a head; a monitor matches an output when the
  read of the outputs found that one lit. A mirrored pair, which the matcher refuses, does not occur.
- A dwm tag mask is one tag. A process is alive while it owns a window. A guard over its
  client budget is a fault.
- The watchdog thread: a periodic ping that reads nothing of the main loop; the unit sets no
  `WatchdogSec`.
- Wallpaper: one external command after another, the next tried when one fails. It keeps nothing and
  nothing depends on its outcome. Touch remapping is one command per device.
- The configuration and layout parsers, the assembly of command lines, logging: text and I/O.
- `on_settled` not running because the feature is off or its first read failed is a step not taken.

## Plan

1. *Done*: `Topology`, `DisplayWatch` and its proofs; `StateStore` and its first proofs; `Relocate`.
2. *Done*: `Reconciler`, refined by `DisplayWatch`; `DwmIpc`, refining `RoundTrip`; `Placement`;
   `Churn`; `WindowCapture`.
3. *Done*: proofs about `StateStore`: types, identities, sides, the attach stack.
4. *Done*: proofs about the parts: `Placement`, `Churn`, `DwmIpc` with its refinement, `WindowCapture`.
5. *Done*: proofs about `Relocate`: types, focus, instances, the crash condition, records kept.
6. *Done*: the refinement of `Reconciler`.
7. Next: what the theorems leave between the parts. That the stack `StateStore` keeps satisfies what
   `Placement` assumes of the one it is given, and that a record of `WindowCapture` is one `Relocate`
   may start from, are read off by hand so far.
8. If a need arises: tag masks of several tags in the crash guard of `Relocate`.
