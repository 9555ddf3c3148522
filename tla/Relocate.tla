------------------------------ MODULE Relocate ------------------------------
(***************************************************************************)
(* The relocation coordinator (relocate.py) with the capture it takes      *)
(* (windows.py): windows displaced by an unplug are remembered and moved   *)
(* back over dwm's IPC when their output returns.  Each IPC round trip is  *)
(* a step; between two of them the user and dwm go on.                     *)
(*                                                                         *)
(* dwm is external: its monitors, its selection and what its commands do   *)
(* are modelled as the code uses them.  A tag mask is one tag; geometry is *)
(* left out but for the monitor it belongs to, so a monitor matches the    *)
(* output it shows as long as the read of the outputs found that one lit.  *)
(* The reads of the crash guard are one step, and so are the read of the   *)
(* selected monitor and the focusmon of a walk.                            *)
(***************************************************************************)
EXTENDS Naturals, Sequences, FiniteSets, Subsequences

CONSTANTS
  Conns, XOrder,         \* outputs, and their order on the X screen
  Wins, Owners,          \* window ids; process instances, a (pid, starttime) each
  Tags, DefaultTag,
  None,
  TRIES,                 \* _FOCUS_CONFIRM_TRIES
  MaxHot, MaxUser, MaxFail   \* bounds on hotplug, user actions, faults

ASSUME OrderAssumption == XOrder \in Seq(Conns) /\ \A c \in Conns : \E i \in DOMAIN XOrder : XOrder[i] = c
ASSUME NoneAssumption == None \notin Conns \cup Wins \cup Owners
ASSUME BoundAssumption == TRIES \in Nat \ {0} /\ {MaxHot, MaxUser, MaxFail} \subseteq Nat
ASSUME TagAssumption == DefaultTag \in Tags

Nums == 1..Len(XOrder)
Window == [owner : Owners, mon : Nums, tag : Tags, floating : BOOLEAN]
ASSUME WindowAssumption == None \notin Window
WindowRecord == [win : Wins, output : Conns \cup {None}, tag : Tags, floating : BOOLEAN]

VARIABLES
  lit,                   \* outputs with a live CRTC
  mons, win, sel, view, selmon,  \* dwm: monitors, clients, selected client and tag per
                                 \* monitor, selected monitor
  asked,                 \* the _NET_ACTIVE_WINDOW messages dwm has not handled yet
  prev, snapshot, focus, displaced,  \* _prev_present, _snapshot, _snapshot_focus, _displaced
  pc, cyc,               \* control point and locals of on_settled
  stop,                  \* the stop event
  hot, acts, fails,      \* environment steps spent
  calm,                  \* observed: user and dwm have not interfered in the present cycle
  astray                 \* observed: this restore's tag command missed its window

dwmVars == <<mons, win, sel, view, selmon, asked>>
memVars == <<prev, snapshot, focus, displaced>>
envVars == <<stop, hot, acts, fails>>
vars == <<lit, dwmVars, memVars, pc, cyc, envVars, calm, astray>>

Drop(f, S) == [x \in DOMAIN f \ S |-> f[x]]
Over(f, g) == [x \in DOMAIN f \cup DOMAIN g |-> IF x \in DOMAIN g THEN g[x] ELSE f[x]]
Fault == fails < MaxFail /\ fails' = fails + 1

(***************************************************************************)
(* dwm: clients seen on a monitor, for clients W and tagsets V.            *)
(***************************************************************************)
On(W, m) == {w \in Wins : W[w] # None /\ W[w].mon = m}
Visible(W, V, m) == {w \in On(W, m) : W[w].tag = V[m]}
Tiled(W, V, m) == {w \in Visible(W, V, m) : ~W[w].floating}
NextMon(m) == (m % Len(mons)) + 1

(* focus(NULL): some visible client of the monitor, if it has one. *)
Refocus(W, V, m) == IF Visible(W, V, m) = {} THEN {None} ELSE Visible(W, V, m)

(* dwm focuses a client, switching its monitor to the client's tag. *)
FocusWin(w) ==
  LET m == win[w].mon IN
  /\ selmon' = m
  /\ sel' = [sel EXCEPT ![m] = w]
  /\ view' = [view EXCEPT ![m] = win[w].tag]

(* The commands act on the selected client of the selected monitor. *)
Tagmon ==
  LET w == sel[selmon]
      moved == [win EXCEPT ![w].mon = NextMon(selmon), ![w].tag = view[NextMon(selmon)]]
  IN IF w = None \/ Len(mons) < 2 THEN UNCHANGED <<win, sel>>
     ELSE /\ win' = moved
          /\ \E f \in Refocus(moved, view, selmon) : sel' = [sel EXCEPT ![selmon] = f]

Tag(t) ==
  LET w == sel[selmon]
      retagged == [win EXCEPT ![w].tag = t]
  IN IF w = None \/ t = view[selmon] THEN UNCHANGED <<win, sel>>
     ELSE /\ win' = retagged
          /\ \E f \in Refocus(retagged, view, selmon) : sel' = [sel EXCEPT ![selmon] = f]

ToggleFloating ==
  /\ win' = IF sel[selmon] = None THEN win
            ELSE [win EXCEPT ![sel[selmon]].floating = ~@]
  /\ UNCHANGED sel

Command(verb, rec) ==
  /\ \/ verb = "tagmon" /\ Tagmon
     \/ verb = "tag" /\ Tag(rec.tag)
     \/ verb = "togglefloating" /\ ToggleFloating
     \/ verb = "configure" /\ UNCHANGED <<win, sel>>
  /\ UNCHANGED <<mons, view, selmon, asked>>

(***************************************************************************)
(* The environment: cables, dwm, the user, SIGTERM.                        *)
(***************************************************************************)
Restoring == pc \in {"focus", "poll", "guard", "verb", "where"}
InCycle == Restoring \/ pc = "next"
Verb == Head(cyc.plan)         \* the step and the record being restored
Rec == displaced[cyc.key]
Interfere == calm' = (calm /\ ~InCycle)

(* An output goes dark or is lit (unplug and --off, replug and --auto). *)
Hotplug(c) ==
  /\ hot < MaxHot /\ hot' = hot + 1
  /\ lit' = IF c \in lit THEN lit \ {c} ELSE lit \cup {c}
  /\ lit' # {}
  /\ UNCHANGED <<dwmVars, memVars, pc, cyc, stop, acts, fails, calm, astray>>

(* dwm's updategeom: monitors are numbered in screen order; the clients of a    *)
(* number that is gone move to the first monitor.                               *)
Heads == Only(XOrder, lit)
DwmSync ==
  /\ mons # Heads
  /\ mons' = Heads
  /\ LET n == Len(Heads)
         gone == {w \in Wins : win[w] # None /\ win[w].mon > n}
         W == [w \in Wins |-> IF w \in gone THEN [win[w] EXCEPT !.mon = 1] ELSE win[w]]
         V == [m \in Nums |-> IF m <= n THEN view[m] ELSE DefaultTag]
         m0 == IF selmon <= n THEN selmon ELSE 1
     IN /\ win' = W /\ view' = V /\ selmon' = m0
        /\ \E f \in Refocus(W, V, m0) :
             sel' = [m \in Nums |-> IF m > n THEN None ELSE IF m = m0 THEN f ELSE sel[m]]
  /\ Interfere
  /\ UNCHANGED <<lit, asked, memVars, pc, cyc, envVars, astray>>

(* dwm gets to a focus message, some time; stock dwm, which only flags urgency,   *)
(* never does.  A late answer for an earlier window interferes with this one.     *)
DwmFocus(w) ==
  /\ w \in asked
  /\ asked' = asked \ {w}
  /\ IF win[w] # None /\ sel[selmon] # w
     THEN FocusWin(w) ELSE UNCHANGED <<selmon, sel, view>>
  /\ calm' = (calm /\ (Restoring => w = Rec.win))
  /\ UNCHANGED <<lit, mons, win, memVars, pc, cyc, envVars, astray>>

UserFocuses(w) ==
  /\ win[w] # None /\ w \in Visible(win, view, win[w].mon) /\ sel[selmon] # w
  /\ FocusWin(w)
  /\ UNCHANGED win

(* A window is mapped, again or anew, on the monitor dwm's rules give it. *)
UserOpens(w, p, m) ==
  /\ win[w] = None
  /\ \E fl \in BOOLEAN :
       win' = [win EXCEPT ![w] = [owner |-> p, mon |-> m, tag |-> view[m], floating |-> fl]]
  /\ sel' = [sel EXCEPT ![m] = w]
  /\ UNCHANGED <<view, selmon>>

UserCloses(w) ==
  /\ win[w] # None
  /\ LET m == win[w].mon
         W == [win EXCEPT ![w] = None]
     IN /\ win' = W
        /\ IF sel[m] = w
           THEN \E f \in Refocus(W, view, m) : sel' = [sel EXCEPT ![m] = f]
           ELSE UNCHANGED sel
  /\ UNCHANGED <<view, selmon>>

UserViews(t) ==
  /\ view[selmon] # t
  /\ view' = [view EXCEPT ![selmon] = t]
  /\ \E f \in Refocus(win, view', selmon) : sel' = [sel EXCEPT ![selmon] = f]
  /\ UNCHANGED <<win, selmon>>

UserSelects(m) ==
  /\ selmon # m /\ selmon' = m
  /\ \E f \in Refocus(win, view, m) : sel' = [sel EXCEPT ![m] = f]
  /\ UNCHANGED <<win, view>>

UserMoves ==
  /\ sel[selmon] # None /\ Len(mons) >= 2
  /\ Tagmon
  /\ UNCHANGED <<view, selmon>>

User ==
  /\ acts < MaxUser /\ acts' = acts + 1
  /\ \/ \E w \in Wins : UserFocuses(w) \/ UserCloses(w)
     \/ \E w \in Wins, p \in Owners, m \in 1..Len(mons) : UserOpens(w, p, m)
     \/ \E t \in Tags : UserViews(t)
     \/ \E m \in 1..Len(mons) : UserSelects(m)
     \/ UserMoves
  /\ Interfere
  /\ UNCHANGED <<lit, mons, asked, memVars, pc, cyc, stop, hot, fails, astray>>

Sigterm ==
  /\ ~stop /\ stop' = TRUE
  /\ Fault
  /\ UNCHANGED <<lit, dwmVars, memVars, pc, cyc, hot, acts, calm, astray>>

(***************************************************************************)
(* The coordinator.                                                        *)
(***************************************************************************)
NoCycle ==
  [outs |-> {}, returned |-> {}, steady |-> FALSE, heads |-> <<>>, todo |-> {}, key |-> None,
   plan |-> <<>>, target |-> 0, tries |-> 0, hops |-> 0, ok |-> TRUE, stole |-> FALSE,
   seen |-> {}]
Goto(p, c) == pc' = p /\ cyc' = c

(* match_dwm_monitor_to_output: the number of an output's monitor, 0 if unmatched. *)
NumOf(heads, outs, c) ==
  IF \E i \in DOMAIN heads : heads[i] = c /\ c \in outs
  THEN CHOOSE i \in DOMAIN heads : heads[i] = c ELSE 0

(* After the restore: a steady settle sweeps and captures. *)
Ended(c) == IF c.steady THEN Goto("sweep", NoCycle) ELSE Goto("idle", NoCycle)

(* Records of the last snapshot on a removed output; new ones replace old ones. *)
RecordedOn(removed) ==
  [k \in {p \in DOMAIN snapshot : snapshot[p].output \in removed} |-> snapshot[k]]

(* on_settled up to its first round trip to dwm. *)
Settle ==
  /\ pc = "idle" /\ ~stop
  /\ prev' = lit
  /\ IF prev = None
     THEN Goto("capture", NoCycle) /\ UNCHANGED displaced
     ELSE LET removed == prev \ lit
              returned == lit \ prev
              c == [NoCycle EXCEPT !.outs = lit, !.returned = returned, !.steady = removed = {}]
          IN /\ displaced' = Over(displaced, RecordedOn(removed))
             /\ IF returned # {} THEN Goto("entry", c) ELSE Ended(c)
  /\ UNCHANGED <<lit, dwmVars, snapshot, focus, envVars, calm, astray>>

(* The cycle's own get_monitors; without it the cycle is abandoned. *)
Entry ==
  /\ pc = "entry"
  /\ \/ /\ Goto("next", [cyc EXCEPT !.heads = mons,
              !.todo = {p \in DOMAIN displaced : displaced[p].output \in cyc.returned}])
        /\ UNCHANGED fails
     \/ Fault /\ Ended(cyc)
  /\ UNCHANGED <<lit, dwmVars, memVars, stop, hot, acts, calm, astray>>

plan_restore_differences(rec, target, live) ==
  (IF target # 0 /\ target # live.mon THEN <<"tagmon">> ELSE <<>>) \o
  (IF live.tag # rec.tag THEN <<"tag">> ELSE <<>>) \o
  (IF live.floating # rec.floating THEN <<"togglefloating">> ELSE <<>>) \o
  (IF rec.floating /\ target # 0 THEN <<"configure">> ELSE <<>>)

(* plan_restore: move to the output's monitor, retag, restore floating state. *)
plan_restore(rec, target, live) ==
  (IF target # 0 /\ target # live.mon THEN <<"tagmon">> ELSE <<>>) \o <<"tag">> \o
  (IF live.floating # rec.floating THEN <<"togglefloating">> ELSE <<>>) \o
  (IF rec.floating /\ target # 0 THEN <<"configure">> ELSE <<>>)

identity_by_window(live, p) == live # None
identity_matches(live, p) == live # None /\ live.owner = p

(* The next record.  A stale identity, or a failure to read it, drops the record *)
(* with no control call; a failed client read keeps it.                          *)
Resolve(p) ==
  /\ pc = "next" /\ p \in cyc.todo /\ ~stop
  /\ LET rec == displaced[p]
         live == win[rec.win]
         same == identity_matches(live, p)
         rest == [cyc EXCEPT !.todo = @ \ {p}]
         target == NumOf(cyc.heads, cyc.outs, rec.output)
     IN \/ /\ same
           /\ Goto("focus", [rest EXCEPT !.key = p, !.target = target, !.hops = 0, !.ok = TRUE,
                                         !.plan = plan_restore(rec, target, live)])
           /\ UNCHANGED <<displaced, fails>>
        \/ /\ IF same THEN Fault ELSE UNCHANGED fails
           /\ displaced' = Drop(displaced, {p})
           /\ Goto("next", rest)
        \/ same /\ Fault /\ Goto("next", rest) /\ UNCHANGED displaced
  /\ astray' = FALSE
  /\ UNCHANGED <<lit, dwmVars, prev, snapshot, focus, stop, hot, acts, calm>>

(* All windows done, or stopping: give the focus back if it was taken. *)
CycleDone ==
  /\ pc = "next" /\ (cyc.todo = {} \/ stop)
  /\ IF cyc.stole THEN Goto("giveback", cyc) ELSE Ended(cyc)
  /\ calm' = TRUE /\ astray' = FALSE
  /\ UNCHANGED <<lit, dwmVars, memVars, envVars>>

EssentialTagOnly == {"tag"}
Essential == {"tagmon", "tag"}

(* The window is finished with: its record goes if every essential step took effect. *)
Finish(c) ==
  /\ displaced' = IF c.ok THEN Drop(displaced, {c.key}) ELSE displaced
  /\ Goto("next", [c EXCEPT !.key = None, !.plan = <<>>, !.target = 0, !.hops = 0,
                            !.tries = 0, !.ok = TRUE])

(* The step is over; the next one, if any, focuses again. *)
Advance(accepted) ==
  LET c == [cyc EXCEPT !.ok = @ /\ (accepted \/ Verb \notin Essential),
                       !.plan = Tail(@), !.tries = 0]
  IN IF c.plan = <<>> THEN Finish(c) ELSE Goto("focus", c) /\ UNCHANGED displaced

(* dwm never confirmed the focus: the window's remaining steps are abandoned. *)
UnconfirmedProceeds == Goto("verb", cyc) /\ UNCHANGED displaced
Unconfirmed == Finish([cyc EXCEPT !.ok = @ /\ Verb \notin Essential])

(* focus() sends the message, or fails unnoticed. *)
Focus ==
  /\ pc = "focus"
  /\ \/ asked' = asked \cup {Rec.win} /\ UNCHANGED fails
     \/ Fault /\ UNCHANGED asked
  /\ Goto("poll", [cyc EXCEPT !.stole = TRUE, !.tries = 0])
  /\ UNCHANGED <<lit, mons, win, sel, view, selmon, memVars, stop, hot, acts, calm, astray>>

(* _selected_confirmed: the selected client of the selected monitor, or else of any. *)
selected_confirmed(w) == \E m \in 1..Len(mons) : sel[m] = w

(* One poll of _focus_and_confirm. *)
TriedUncounted(tries) == tries
Tried(tries) == tries + 1
Poll ==
  /\ pc = "poll"
  /\ \/ /\ selected_confirmed(Rec.win)
        /\ Goto(IF Verb = "tagmon" THEN "guard" ELSE "verb", cyc)
        /\ UNCHANGED <<displaced, fails>>
     \/ /\ ~selected_confirmed(Rec.win) /\ UNCHANGED fails
        /\ IF Tried(cyc.tries) >= TRIES THEN Unconfirmed
           ELSE Goto("poll", [cyc EXCEPT !.tries = Tried(@)]) /\ UNCHANGED displaced
     \/ Fault /\ Unconfirmed
  /\ UNCHANGED <<lit, dwmVars, prev, snapshot, focus, stop, hot, acts, calm, astray>>

(* tagmon_crash_risk: sendmon would leave the source without a visible client *)
(* while some monitor has exactly one tiled client; unresolved is a risk.     *)
tagmon_crash_risk_by_count(w) ==
  win[w] # None /\ Len(mons) >= 2 =>
     LET src == win[w].mon
         post(m) == (On(win, m) \ {w}) \cup (IF m = NextMon(src) THEN {w} ELSE {})
     IN On(win, src) = {w} /\ \E m \in 1..Len(mons) : Cardinality(post(m)) = 1
tagmon_crash_risk(w) ==
  win[w] # None /\ Len(mons) >= 2 =>
     LET src == win[w].mon
         arrives == IF win[w].floating THEN {} ELSE {w}
         post(m) == (Tiled(win, view, m) \ {w}) \cup (IF m = NextMon(src) THEN arrives ELSE {})
     IN /\ Visible(win, view, src) \subseteq {w}
        /\ \E m \in 1..Len(mons) : Cardinality(post(m)) = 1

(* _tagmon_would_crash_dwm, after the focus is confirmed; a failed read refuses. *)
Guard ==
  /\ pc = "guard"
  /\ \/ ~tagmon_crash_risk(Rec.win) /\ Goto("verb", cyc) /\ UNCHANGED <<displaced, fails>>
     \/ tagmon_crash_risk(Rec.win) /\ Advance(FALSE) /\ UNCHANGED fails
     \/ Fault /\ Advance(FALSE)
  /\ UNCHANGED <<lit, dwmVars, prev, snapshot, focus, stop, hot, acts, calm, astray>>

(* run_command: accepted, or rejected, or its reply is lost, carried out or not.  *)
(* Whoever is selected is hit.                                                    *)
RunVerb ==
  /\ pc = "verb"
  /\ \/ /\ Command(Verb, Rec) /\ UNCHANGED fails
        /\ IF Verb = "tagmon" THEN Goto("where", cyc) /\ UNCHANGED displaced
           ELSE Advance(TRUE)
     \/ /\ Command(Verb, Rec) \/ UNCHANGED dwmVars
        /\ Fault /\ Advance(FALSE)
  /\ astray' = (astray \/ (Verb = "tag" /\ sel[selmon] # Rec.win))
  /\ UNCHANGED <<lit, prev, snapshot, focus, stop, hot, acts, calm>>

WhereTrusting ==
  /\ pc = "where" /\ Advance(TRUE)
  /\ UNCHANGED <<lit, dwmVars, prev, snapshot, focus, stop, hot, acts, calm, astray, fails>>

(* After tagmon: there, or another hop, at most one per monitor. *)
Where ==
  /\ pc = "where"
  /\ LET w == Rec.win IN
     \/ win[w] # None /\ win[w].mon = cyc.target /\ Advance(TRUE) /\ UNCHANGED fails
     \/ /\ win[w] # None /\ win[w].mon # cyc.target /\ UNCHANGED fails
        /\ IF cyc.hops + 1 < Len(cyc.heads)
           THEN Goto("focus", [cyc EXCEPT !.hops = @ + 1]) /\ UNCHANGED displaced
           ELSE Advance(FALSE)
     \/ win[w] = None /\ Advance(FALSE) /\ UNCHANGED fails
     \/ Fault /\ Advance(FALSE)
  /\ UNCHANGED <<lit, dwmVars, prev, snapshot, focus, stop, hot, acts, calm, astray>>

(* _restore_focus: refocus the snapshot's client, or walk back to its monitor. *)
GiveBack ==
  /\ pc = "giveback"
  /\ \/ focus = None /\ Ended(cyc) /\ UNCHANGED <<asked, fails>>
     \/ Fault /\ Ended(cyc) /\ UNCHANGED asked
     \/ /\ focus # None /\ win[focus.win] # None
        /\ \/ asked' = asked \cup {focus.win} /\ UNCHANGED fails
           \/ Fault /\ UNCHANGED asked
        /\ Goto("backpoll", [cyc EXCEPT !.tries = 0])
     \/ /\ focus # None /\ win[focus.win] = None /\ UNCHANGED <<asked, fails>>
        /\ IF Len(mons) < 2 THEN Ended(cyc)
           ELSE Goto("walk", [cyc EXCEPT !.hops = Len(mons)])
  /\ UNCHANGED <<lit, mons, win, sel, view, selmon, memVars, stop, hot, acts, calm, astray>>

BackPoll ==
  /\ pc = "backpoll"
  /\ \/ selected_confirmed(focus.win) /\ Ended(cyc) /\ UNCHANGED fails
     \/ /\ ~selected_confirmed(focus.win) /\ UNCHANGED fails
        /\ IF Tried(cyc.tries) >= TRIES THEN Ended(cyc)
           ELSE Goto("backpoll", [cyc EXCEPT !.tries = Tried(@)])
     \/ Fault /\ Ended(cyc)
  /\ UNCHANGED <<lit, dwmVars, memVars, stop, hot, acts, calm, astray>>

(* focusmon +1 until the monitor is selected, at most once per monitor; rejected, *)
(* or a reply lost with the command carried out, ends the walk.                   *)
Walk ==
  /\ pc = "walk"
  /\ \/ /\ selmon # focus.num /\ cyc.hops > 0
        /\ selmon' = NextMon(selmon)
        /\ \E f \in Refocus(win, view, selmon') : sel' = [sel EXCEPT ![selmon'] = f]
        /\ \/ Goto("walk", [cyc EXCEPT !.hops = @ - 1]) /\ UNCHANGED fails
           \/ Fault /\ Ended(cyc)
     \/ (selmon = focus.num \/ cyc.hops = 0) /\ Ended(cyc) /\ UNCHANGED <<selmon, sel, fails>>
     \/ Fault /\ Ended(cyc) /\ UNCHANGED <<selmon, sel>>
  /\ UNCHANGED <<lit, mons, win, view, asked, memVars, stop, hot, acts, calm, astray>>

(* Records of processes that are gone are evicted. *)
Alive == {win[w].owner : w \in {v \in Wins : win[v] # None}}
Sweep ==
  /\ pc = "sweep"
  /\ displaced' = Drop(displaced, DOMAIN displaced \ Alive)
  /\ Goto("capture", NoCycle)
  /\ UNCHANGED <<lit, dwmVars, prev, snapshot, focus, envVars, calm, astray>>

(* _selected_focus: the selected monitor's client, or else the first monitor's with one. *)
selected_focus ==
  LET having == {m \in 1..Len(mons) : sel[m] # None}
      first == CHOOSE m \in having : \A k \in having : m <= k
      m0 == IF sel[selmon] # None THEN selmon ELSE first
  IN IF having = {} THEN None ELSE [num |-> m0, win |-> sel[m0]]

(* capture_windows: the monitors and the selection ... *)
Capture ==
  /\ pc = "capture"
  /\ \/ /\ focus' = selected_focus
        /\ Goto("records", [NoCycle EXCEPT !.heads = mons,
                              !.seen = {w \in Wins : win[w] # None}])
        /\ UNCHANGED <<snapshot, fails>>
     \/ Fault /\ snapshot' = <<>> /\ Goto("idle", NoCycle) /\ UNCHANGED focus
  /\ UNCHANGED <<lit, dwmVars, prev, displaced, stop, hot, acts, calm, astray>>

RecordOf(w) ==
  LET m == win[w].mon
      matched == m \in DOMAIN cyc.heads /\ cyc.heads[m] \in lit
  IN [win |-> w, output |-> IF matched THEN cyc.heads[m] ELSE None,
      tag |-> win[w].tag, floating |-> win[w].floating]

(* ... then the outputs and, window by window, a record per process instance. *)
Records ==
  /\ pc = "records"
  /\ \/ \E skipped \in SUBSET cyc.seen :
          /\ IF skipped = {} THEN UNCHANGED fails ELSE Cardinality(skipped) = 1 /\ Fault
          /\ LET ws == {w \in cyc.seen \ skipped : win[w] # None}
                 owners == {win[w].owner : w \in ws}
             IN \E kept \in [owners -> ws] :
                  /\ \A p \in owners : win[kept[p]].owner = p
                  /\ snapshot' = [p \in owners |-> RecordOf(kept[p])]
     \/ Fault /\ snapshot' = <<>>
  /\ Goto("idle", NoCycle)
  /\ UNCHANGED <<lit, dwmVars, prev, focus, displaced, stop, hot, acts, calm, astray>>

(* The daemon starts beside a running dwm. *)
Init ==
  /\ lit = Conns /\ mons = XOrder
  /\ win \in [Wins -> Window \cup {None}]
  /\ view \in [Nums -> Tags] /\ selmon \in Nums
  /\ sel \in {s \in [Nums -> Wins \cup {None}] : \A m \in Nums : s[m] \in Refocus(win, view, m)}
  /\ asked = {}
  /\ prev = None /\ snapshot = <<>> /\ focus = None /\ displaced = <<>>
  /\ pc = "idle" /\ cyc = NoCycle
  /\ stop = FALSE /\ hot = 0 /\ acts = 0 /\ fails = 0
  /\ calm = TRUE /\ astray = FALSE

Step ==
  \/ Entry \/ CycleDone \/ Focus \/ Poll \/ Guard \/ RunVerb \/ Where
  \/ GiveBack \/ BackPoll \/ Walk \/ Sweep \/ Capture \/ Records
  \/ \E p \in Owners : Resolve(p)

Next ==
  \/ Settle \/ Step
  \/ DwmSync \/ User \/ Sigterm
  \/ \E c \in Conns : Hotplug(c)
  \/ \E w \in Wins : DwmFocus(w)

Spec == Init /\ [][Next]_vars

(* on_settled runs on the daemon's only thread until it returns. *)
FairSpec == Spec /\ WF_vars(Step)

(***************************************************************************)
(* Properties.                                                             *)
(***************************************************************************)
IsMap(f, K, V) == DOMAIN f \subseteq K /\ \A k \in DOMAIN f : f[k] \in V
Verbs == {"tagmon", "tag", "togglefloating", "configure"}

(* Every variable has its type; a restore under way has a record and a step. *)
TypeOK ==
  /\ lit \subseteq Conns /\ mons \in Seq(Conns) /\ Len(mons) \in Nums
  /\ win \in [Wins -> Window \cup {None}]
  /\ sel \in [Nums -> Wins \cup {None}] /\ view \in [Nums -> Tags] /\ selmon \in Nums
  /\ asked \subseteq Wins
  /\ prev \in (SUBSET Conns) \cup {None}
  /\ IsMap(snapshot, Owners, WindowRecord) /\ IsMap(displaced, Owners, WindowRecord)
  /\ focus \in [num : Nums, win : Wins] \cup {None}
  /\ pc \in {"idle", "entry", "next", "focus", "poll", "guard", "verb", "where", "giveback",
             "backpoll", "walk", "sweep", "capture", "records"}
  /\ Restoring => cyc.key \in DOMAIN displaced /\ cyc.plan # <<>> /\ Verb \in Verbs
  /\ cyc.todo \subseteq DOMAIN displaced \ {cyc.key} /\ cyc.tries < TRIES /\ cyc.hops \in 0..Len(XOrder)
  /\ {calm, astray} \subseteq BOOLEAN

(* "An unconfirmed focus aborts that window's verbs" (relocate.py:866): unless    *)
(* somebody interfered in this cycle, a command is sent only while its window is  *)
(* the selected client of some monitor, dwm focusing late or never.               *)
CommandsFollowFocus ==
  pc = "verb" /\ calm => \E m \in 1..Len(mons) : sel[m] = Rec.win

(* "never touch another instance" (relocate.py:980): unless somebody interfered,  *)
(* no step is taken for a window whose id has passed to another process.          *)
NeverAnotherInstance ==
  Restoring /\ calm => win[Rec.win] # None /\ win[Rec.win].owner = cyc.key

(* "never crash dwm" (relocate.py:1040): a tagmon that moves the window it is for *)
(* never leaves dwm without a selected client while a monitor tiles a lone one.   *)
Crashes == sel'[selmon'] = None /\ \E m \in 1..Len(mons) : Cardinality(Tiled(win', view', m)) = 1
MovesNeverCrashDwm ==
  [][pc = "verb" /\ pc' # "verb" /\ Verb = "tagmon" /\ calm /\ sel[selmon] = Rec.win
     => ~Crashes]_vars

(* A record that was worked on goes only when its window is back on the monitor   *)
(* of its output, whatever was refused, was lost or hit another window on the way *)
(* (relocate.py:1022); and on its tag, unless the tag command missed the window,  *)
(* which the code does not notice (relocate.py:86).  Both unless user or dwm      *)
(* interfered in this cycle or the output's monitor was not found.                *)
BackOnOutput(rec) == /\ win'[rec.win].mon \in DOMAIN mons
                     /\ mons[win'[rec.win].mon] = rec.output
BackOnTag(rec) == win'[rec.win].tag = rec.tag
Reported(p) == Restoring /\ calm' /\ p \in DOMAIN displaced \ DOMAIN displaced'
KeptUntilBack ==
  [][\A p \in Owners : Reported(p) /\ cyc.target # 0 =>
       BackOnOutput(displaced[p]) /\ (BackOnTag(displaced[p]) \/ astray')]_vars

(* on_settled always returns, however dwm's selection, monitors and IPC behave.   *)
SettleReturns == pc # "idle" ~> pc = "idle"

(* "a verb never lands on the previously-selected client" (relocate.py:846).      *)
VerbHitsItsWindow ==
  pc = "verb" /\ calm /\ Verb # "configure" => sel[selmon] = Rec.win

(* "A restore that does not actually take effect is now reported honestly"        *)
(* (CHANGELOG.md:77): the record is dropped as restored only with the window back. *)
RestoreReportedHonestly ==
  [][\A p \in Owners : Reported(p) => BackOnOutput(displaced[p]) /\ BackOnTag(displaced[p])]_vars

(* "a failed capture must never blow away the last good baseline"                 *)
(* (relocate.py:604).                                                             *)
FailedCaptureKeepsSnapshot ==
  [][pc = "capture" /\ fails' # fails => snapshot' = snapshot]_vars
=============================================================================
