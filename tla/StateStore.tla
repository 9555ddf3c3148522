----------------------------- MODULE StateStore -----------------------------
(***************************************************************************)
(* The persistent placement state (state.json): monitor identities, side   *)
(* preferences and the attach stack, read, changed and written back under  *)
(* the state-lock by applies (apply.py) and by `xrandrw --set-pref`        *)
(* (cli.py), which may be killed or fail to write at any point.            *)
(*                                                                         *)
(* A profile id is the sha1 of the EDID or of the connector name it was    *)
(* made for; ids are modelled by that key itself, so making a profile for  *)
(* a key again gives the same id, as in the code.  The lists of connector  *)
(* names in a profile are abstracted to whether the list exists, which     *)
(* decides whether ensure_profile raises.                                  *)
(***************************************************************************)
EXTENDS Naturals, Sequences, Subsequences

CONSTANTS
  Conns,                 \* connectors
  Panels,                \* the built-in ones: always on, without a readable EDID
  EDIDs,                 \* monitor identities
  NoEdid,                \* a connected monitor whose EDID cannot be read
  Unplugged,             \* a connector with nothing on it
  ReadOrder,             \* the order in which a RandR read lists the connectors
  Primaries,             \* the order in which connectors are preferred as primary
  Sides, DefaultSide, NoSide,
  Appliers, Setters,     \* processes running apply_once, and --set-pref
  MaxSwap, MaxRun, MaxFail   \* bounds on re-cabling, process starts, faults

ASSUME KeyAssumption == Conns \cap EDIDs = {} /\ {NoEdid, Unplugged} \cap (Conns \cup EDIDs) = {}
ASSUME SideAssumption == DefaultSide \in Sides /\ NoSide \notin Sides
ASSUME PanelAssumption == Panels \subseteq Conns
ASSUME OrderAssumption == ReadOrder \in Seq(Conns) /\ Primaries \in Seq(Conns)
ASSUME RoleAssumption == Appliers \cap Setters = {}
ASSUME BoundAssumption == {MaxSwap, MaxRun, MaxFail} \subseteq Nat

Keys == Conns \cup EDIDs
Procs == Appliers \cup Setters

(* What the state file holds.  A profile made by get_profile alone is bare. *)
Profile == [named : BOOLEAN, edid : EDIDs \cup {NoEdid}, side : Sides \cup {NoSide}]
Bare == [named |-> FALSE, edid |-> NoEdid, side |-> NoSide]
IsPartial(f, D, R) == DOMAIN f \subseteq D /\ f \in [DOMAIN f -> R]
IsState(s) ==
  /\ s = [imap |-> s.imap, profs |-> s.profs, stack |-> s.stack]
  /\ IsPartial(s.imap, Keys, Keys) /\ IsPartial(s.profs, Keys, Profile)
  /\ s.stack \in Seq(Keys)
EmptyState == [imap |-> <<>>, profs |-> <<>>, stack |-> <<>>]

(* --set-pref's argument: an output by name, an EDID or a profile id; and a side. *)
Args == [kind : {"conn"}, key : Conns, side : Sides] \cup
        [kind : {"edid"}, key : EDIDs, side : Sides] \cup [kind : {"id"}, key : Keys, side : Sides]
NoArg == [kind |-> "none"]

VARIABLES
  plugged,               \* the monitor on each connector
  file,                  \* state.json
  applyLock, stateLock,  \* holders of the two flocks
  at,                    \* control point of each process
  outs,                  \* the connected outputs still to be resolved
  st, pids,              \* the loaded state, and the profile id per resolved output
  arg, matched,          \* --set-pref's argument; the ids it matched so far
  swaps, runs, fails,    \* environment steps spent
  base,                  \* observed: the file as each process loaded it
  dropped,               \* observed: ids lost to this process's copy by a merge or a failed load
  chosen                 \* observed: sides chosen by --set-pref and not dropped since

procVars == <<at, outs, st, pids, arg, matched, base, dropped>>
envVars == <<swaps, runs, fails>>
vars == <<plugged, file, applyLock, stateLock, procVars, envVars, chosen>>

Set(f, p, v) == [f EXCEPT ![p] = v]
Put(f, k, v) == [x \in DOMAIN f \cup {k} |-> IF x = k THEN v ELSE f[x]]
Keep(f, S) == [x \in DOMAIN f \cap S |-> f[x]]

(***************************************************************************)
(* Identity (state.py).                                                    *)
(***************************************************************************)

(* profs.get(pid, {}) / setdefault(pid, {}): an unknown id reads as bare. *)
ProfileOf(s, pid) == IF pid \in DOMAIN s.profs THEN s.profs[pid] ELSE Bare

(* A connected output: its connector and its EDID. *)
ident_keys(o) == ({o.edid} \cap EDIDs) \cup {o.name}

(* The id the output's keys are mapped to, the EDID's first; a new id is the seed's. *)
KnownKeys(s, o) == ident_keys(o) \cap DOMAIN s.imap
SeedEdidOnly(o) == o.edid
Seed(o) == IF o.edid \in EDIDs THEN o.edid ELSE o.name
Target(s, o) ==
  IF KnownKeys(s, o) = {} THEN Seed(o)
  ELSE IF o.edid \in KnownKeys(s, o) THEN s.imap[o.edid]
  ELSE s.imap[o.name]

(* The other profile the output's keys map to, if any: it is merged away. *)
MergedInto(s, o) == {s.imap[k] : k \in KnownKeys(s, o)} \ {Target(s, o)}

MergeSideFromOther(s, target, pid) ==
  [s EXCEPT
     !.profs = Keep(Put(@, target,
                 [ProfileOf(s, target) EXCEPT !.named = TRUE, !.side = ProfileOf(s, pid).side]),
               Keys \ {pid}),
     !.imap = [k \in DOMAIN @ |-> IF @[k] = pid THEN target ELSE @[k]]]
MergeUnlinked(s, target, pid) ==
  [s EXCEPT !.profs = Keep([@ EXCEPT ![target].named = TRUE], Keys \ {pid})]

(* The kept profile takes what it lacks from the merged one. *)
Merge(s, target, pid) ==
  LET dst == ProfileOf(s, target)
      src == ProfileOf(s, pid)
  IN [s EXCEPT
        !.profs = Keep(Put(@, target,
                    [named |-> TRUE,
                     edid |-> IF dst.edid = NoEdid THEN src.edid ELSE dst.edid,
                     side |-> IF dst.side = NoSide THEN src.side ELSE dst.side]),
                  Keys \ {pid}),
        !.imap = [k \in DOMAIN @ |-> IF @[k] = pid THEN target ELSE @[k]]]

NewProfile(s, o) ==
  [s EXCEPT !.profs = Put(@, Seed(o),
     [named |-> TRUE, edid |-> IF o.edid \in EDIDs THEN o.edid ELSE NoEdid,
      side |-> DefaultSide])]

Link(s, o, target) ==
  [s EXCEPT
     !.imap = [k \in DOMAIN @ \cup ident_keys(o) |->
                 IF k \in ident_keys(o) THEN target ELSE @[k]],
     !.profs[target].edid = IF @ = NoEdid /\ o.edid \in EDIDs THEN o.edid ELSE @]

ensure_profile(s, o) ==
  LET t == Target(s, o)
      known == IF KnownKeys(s, o) = {} THEN NewProfile(s, o)
               ELSE IF MergedInto(s, o) = {} THEN s
               ELSE Merge(s, t, CHOOSE pid \in MergedInto(s, o) : TRUE)
  IN Link(known, o, t)

SetSide(s, pid, side) ==
  [s EXCEPT !.profs = Put(@, pid, [ProfileOf(s, pid) EXCEPT !.side = side])]

(***************************************************************************)
(* Processes.                                                              *)
(***************************************************************************)

(* The connected outputs of a read, in its order. *)
On == {c \in Conns : plugged[c] # Unplugged}
Connected(cs) ==
  LET order == Only(ReadOrder, cs \cap On)
  IN [i \in 1..Len(order) |-> [name |-> order[i], edid |-> plugged[order[i]]]]

(* The internal panel, or else the first connected output, is primary. *)
PrimaryOf == Head(Only(Primaries, On))
AnyConnected == On # {}

(* A monitor is connected, removed or exchanged. *)
Recable(c, e) ==
  /\ swaps < MaxSwap
  /\ swaps' = swaps + 1
  /\ e # plugged[c] /\ c \notin Panels
  /\ plugged' = Set(plugged, c, e)
  /\ UNCHANGED <<file, applyLock, stateLock, procVars, runs, fails, chosen>>

Start == runs < MaxRun /\ runs' = runs + 1
Fault == fails < MaxFail /\ fails' = fails + 1

(* apply_once up to the state-lock; a busy apply-lock is a bail. *)
ApplyBegin(a) ==
  /\ at[a] = "idle"
  /\ Start
  /\ applyLock = {} /\ AnyConnected
  /\ applyLock' = {a}
  /\ outs' = Set(outs, a, Connected(Conns \ {PrimaryOf}))
  /\ at' = Set(at, a, "wait")
  /\ UNCHANGED <<plugged, file, stateLock, st, pids, arg, matched, base, dropped, swaps, fails,
                 chosen>>

(* set_pref reads the outputs before it takes the state-lock, its only lock. *)
SetPrefBegin(s) ==
  /\ at[s] = "idle"
  /\ Start
  /\ arg' \in {Set(arg, s, a) : a \in Args}
  /\ outs' = Set(outs, s, Connected(Conns))
  /\ at' = Set(at, s, "wait")
  /\ UNCHANGED <<plugged, file, applyLock, stateLock, st, pids, matched, base, dropped, swaps,
                 fails, chosen>>

(* flock(LOCK_EX) blocks until the lock is free. *)
StateLockFreeUnchecked == TRUE
StateLockFree == stateLock = {}

(* An unreadable state file loads as the empty state. *)
LockAndLoad(p) ==
  /\ at[p] = "wait"
  /\ StateLockFree
  /\ stateLock' = stateLock \cup {p}
  /\ at' = Set(at, p, "ensure")
  /\ base' = Set(base, p, file)
  /\ \/ st' = Set(st, p, file) /\ UNCHANGED <<fails, dropped>>
     \/ Fault /\ st' = Set(st, p, EmptyState) /\ dropped' = Set(dropped, p, Keys)
  /\ UNCHANGED <<plugged, file, applyLock, outs, pids, arg, matched, swaps, runs, chosen>>

Matches(a, o) == \/ a.kind = "conn" /\ a.key = o.name
                 \/ a.kind = "edid" /\ a.key = o.edid

(* ensure_profile for the next output; set_pref sets the side of a match at once. *)
Ensure(p) ==
  /\ at[p] = "ensure"
  /\ outs[p] # <<>>
  /\ LET o == Head(outs[p])
         s == ensure_profile(st[p], o)
         pid == s.imap[o.name]
         hit == p \in Setters /\ Matches(arg[p], o)
     IN /\ st' = Set(st, p, IF hit THEN SetSide(s, pid, arg[p].side) ELSE s)
        /\ matched' = IF hit THEN [matched EXCEPT ![p] = @ \cup {pid}] ELSE matched
        /\ pids' = [pids EXCEPT ![p] = Put(@, o.name, pid)]
        /\ dropped' = [dropped EXCEPT ![p] = @ \cup MergedInto(st[p], o)]
  /\ outs' = [outs EXCEPT ![p] = Tail(@)]
  /\ UNCHANGED <<plugged, file, applyLock, stateLock, at, arg, base, envVars, chosen>>

(* The attach stack: ids still connected keep their order, new ones go last, once. *)
Elements(list) == {list[i] : i \in 1..Len(list)}
FirstSeen(list) == {i \in 1..Len(list) : list[i] \notin {list[j] : j \in 1..i - 1}}
AppendAlways(stack, cur) == stack \o cur
AppendNew(stack, cur) ==
  stack \o Subsequence(cur, {i \in FirstSeen(cur) : cur[i] \notin Elements(stack)})

attach_stack_newest_first(stack, cur) ==
  LET new == AppendNew(Only(stack, Elements(cur)), cur)
  IN [i \in DOMAIN new |-> new[Len(new) + 1 - i]]
attach_stack(stack, cur) == AppendNew(Only(stack, Elements(cur)), cur)

(* The ids of the placed connectors, in the order they were resolved. *)
CurPids(p) ==
  LET exts == Only(ReadOrder, DOMAIN pids[p])
  IN [i \in 1..Len(exts) |-> pids[p][exts[i]]]

(* get_profile inserts a bare profile for an id that is gone. *)
WithProfiles(s, ids) ==
  [s EXCEPT !.profs = [k \in DOMAIN @ \cup ids |-> IF k \in DOMAIN @ THEN @[k] ELSE Bare]]

(* The rest of _place_externals; the xrandr commands leave the state alone. *)
Place(a) ==
  /\ a \in Appliers
  /\ at[a] = "ensure"
  /\ outs[a] = <<>>
  /\ LET s == [st[a] EXCEPT !.stack = attach_stack(@, CurPids(a))]
     IN st' = Set(st, a, WithProfiles(s, {pids[a][c] : c \in DOMAIN pids[a]}))
  /\ at' = Set(at, a, "save")
  /\ UNCHANGED <<plugged, file, applyLock, stateLock, outs, pids, arg, matched, base, dropped,
                 envVars, chosen>>

LeaveKeepingLock(p) ==
  /\ at' = Set(at, p, "idle")
  /\ applyLock' = applyLock \ {p}
  /\ outs' = Set(outs, p, <<>>) /\ st' = Set(st, p, EmptyState) /\ pids' = Set(pids, p, <<>>)
  /\ arg' = Set(arg, p, NoArg) /\ matched' = Set(matched, p, {})
  /\ base' = Set(base, p, EmptyState) /\ dropped' = Set(dropped, p, {})
  /\ UNCHANGED stateLock

(* The process ends, or apply_once returns: its locks are closed with their fds. *)
Leave(p) ==
  /\ at' = Set(at, p, "idle")
  /\ applyLock' = applyLock \ {p}
  /\ stateLock' = stateLock \ {p}
  /\ outs' = Set(outs, p, <<>>) /\ st' = Set(st, p, EmptyState) /\ pids' = Set(pids, p, <<>>)
  /\ arg' = Set(arg, p, NoArg) /\ matched' = Set(matched, p, {})
  /\ base' = Set(base, p, EmptyState) /\ dropped' = Set(dropped, p, {})

(* set_pref after its loop: a known profile id is the last thing it may name. *)
Decide(s) ==
  /\ s \in Setters
  /\ at[s] = "ensure"
  /\ outs[s] = <<>>
  /\ LET byId == matched[s] = {} /\ arg[s].kind = "id" /\ arg[s].key \in DOMAIN st[s].profs
     IN /\ matched[s] # {} \/ byId
        /\ st' = IF byId THEN Set(st, s, SetSide(st[s], arg[s].key, arg[s].side)) ELSE st
        /\ matched' = IF byId THEN Set(matched, s, {arg[s].key}) ELSE matched
  /\ at' = Set(at, s, "save")
  /\ UNCHANGED <<plugged, file, applyLock, stateLock, outs, pids, arg, base, dropped, envVars,
                 chosen>>

(* SystemExit: nothing matched, nothing is saved; `finally` drops the lock. *)
NoMatch(s) ==
  /\ s \in Setters
  /\ at[s] = "ensure"
  /\ outs[s] = <<>>
  /\ matched[s] = {}
  /\ arg[s].kind # "id" \/ arg[s].key \notin DOMAIN st[s].profs
  /\ Leave(s)
  /\ UNCHANGED <<plugged, file, envVars, chosen>>

(* What --set-pref is now known to have chosen. *)
Chosen(p) ==
  [k \in (DOMAIN chosen \cup matched[p]) \ dropped[p] |->
     IF k \in matched[p] THEN arg[p].side ELSE chosen[k]]

(* save_state: os.replace swaps the file whole, or the write fails and is logged. *)
Save(p) ==
  /\ at[p] = "save"
  /\ \/ file' = st[p] /\ chosen' = Chosen(p) /\ UNCHANGED fails
     \/ Fault /\ UNCHANGED <<file, chosen>>
  /\ Leave(p)
  /\ UNCHANGED <<plugged, swaps, runs>>

(* The process is killed; the kernel drops its locks. *)
Kill(p) ==
  /\ at[p] # "idle"
  /\ Fault
  /\ Leave(p)
  /\ UNCHANGED <<plugged, file, swaps, runs, chosen>>

Init ==
  /\ plugged \in [Conns -> EDIDs \cup {NoEdid, Unplugged}]
  /\ \A c \in Panels : plugged[c] = NoEdid
  /\ file = EmptyState
  /\ applyLock = {} /\ stateLock = {}
  /\ at = [p \in Procs |-> "idle"]
  /\ outs = [p \in Procs |-> <<>>]
  /\ st = [p \in Procs |-> EmptyState]
  /\ pids = [p \in Procs |-> <<>>]
  /\ arg = [p \in Procs |-> NoArg]
  /\ matched = [p \in Procs |-> {}]
  /\ base = [p \in Procs |-> EmptyState]
  /\ dropped = [p \in Procs |-> {}]
  /\ swaps = 0 /\ runs = 0 /\ fails = 0
  /\ chosen = <<>>

Step(p) == LockAndLoad(p) \/ Ensure(p) \/ Place(p) \/ Decide(p) \/ NoMatch(p) \/ Save(p)

Next ==
  \/ \E c \in Conns, e \in EDIDs \cup {NoEdid, Unplugged} : Recable(c, e)
  \/ \E a \in Appliers : ApplyBegin(a)
  \/ \E s \in Setters : SetPrefBegin(s)
  \/ \E p \in Procs : Step(p) \/ Kill(p)

Spec == Init /\ [][Next]_vars

(***************************************************************************)
(* Properties.                                                             *)
(***************************************************************************)

(* Every variable has its type. *)
TypeOK ==
  /\ plugged \in [Conns -> EDIDs \cup {NoEdid, Unplugged}]
  /\ IsState(file)
  /\ applyLock \in SUBSET Appliers /\ stateLock \in SUBSET Procs
  /\ at \in [Procs -> {"idle", "wait", "ensure", "save"}]
  /\ outs \in [Procs -> Seq([name : Conns, edid : EDIDs \cup {NoEdid}])]
  /\ DOMAIN st = Procs /\ DOMAIN pids = Procs
  /\ DOMAIN base = Procs
  /\ \A p \in Procs : IsState(st[p]) /\ IsState(base[p]) /\ IsPartial(pids[p], Conns, Keys)
  /\ arg \in [Procs -> Args \cup {NoArg}]
  /\ matched \in [Procs -> SUBSET Keys] /\ dropped \in [Procs -> SUBSET Keys]
  /\ swaps \in 0..MaxSwap /\ runs \in 0..MaxRun /\ fails \in 0..MaxFail
  /\ IsPartial(chosen, Keys, Sides)

(* Every identity leads to a profile that has its list of names. *)
Sound(s) == \A k \in DOMAIN s.imap :
  s.imap[k] \in DOMAIN s.profs /\ s.profs[s.imap[k]].named

(* No merge, failed load, crash or resurrected profile leaves an identity that *)
(* leads nowhere, on disk or in a process: p = profs[target] and p["names"]     *)
(* (state.py:129) never raise, which would end every apply from then on.       *)
IdentitiesLead == Sound(file) /\ \A p \in Procs : Sound(st[p])

(* Nobody writes back a state it loaded before another process's save: while a *)
(* process works on its copy, the file is still the one it loaded (state.py:77). *)
Working(p) == at[p] \in {"ensure", "save"}
NoLostUpdate == \A p \in Procs : Working(p) => file = base[p]

(* A side chosen with --set-pref stays with its profile through every later    *)
(* apply, set-pref, failed write and crash, until a merge or an unreadable     *)
(* state file drops it.                                                        *)
PrefKept ==
  \A pid \in DOMAIN chosen :
    pid \in DOMAIN file.profs /\ file.profs[pid].side = chosen[pid]

(* The attach stack lists an id once, two identical monitors included.         *)
StackUnique ==
  \A i, j \in DOMAIN file.stack : file.stack[i] = file.stack[j] => i = j

(* A save never reorders the ids it keeps on the stack: earliest stays first.  *)
Before(x, y, stack) ==
  \E i, j \in DOMAIN stack : i < j /\ stack[i] = x /\ stack[j] = y
StackOrderKept ==
  [][\A x, y \in Keys \ UNION {dropped[p] : p \in stateLock} :
       Before(x, y, file.stack) => ~Before(y, x, file'.stack)]_vars

(* Nobody can wait for ever: the holder of the state-lock waits for nothing,   *)
(* and neither lock outlives its process, whichever of an apply, a --set-pref,  *)
(* a failed write, an argument that matches nothing or a kill released it.      *)
NobodyStuck ==
  /\ \A p \in stateLock : Working(p)
  /\ \A a \in applyLock : at[a] # "idle"

(* "preferred side updated" (cli.py:57): once --set-pref of a connector or an  *)
(* EDID has saved, that identity's profile has the side.                       *)
SetPrefTakesEffect ==
  [][\A s \in Setters :
       (at[s] = "save" /\ file' # file /\ arg[s].key \in DOMAIN file'.imap /\ arg[s].kind # "id")
         => file'.profs[file'.imap[arg[s].key]].side = arg[s].side]_vars
=============================================================================
