--------------------------- MODULE RelocateProofs ---------------------------
(***************************************************************************)
(* Machine-checked proofs about Relocate, for any outputs, windows,        *)
(* processes and tags, any number of polls and any bounds.                 *)
(***************************************************************************)
EXTENDS Relocate, SubsequencesProofs, FiniteSetTheorems

(***************************************************************************)
(* The invariant.                                                          *)
(***************************************************************************)
Cycle ==
  [outs : SUBSET Conns, returned : SUBSET Conns, steady : BOOLEAN, heads : Seq(Conns),
   todo : SUBSET Owners, key : Owners \cup {None}, plan : Seq(Verbs), target : Nat,
   tries : Nat, hops : Nat, ok : BOOLEAN, stole : BOOLEAN, seen : SUBSET Wins]
Points == {"idle", "entry", "next", "focus", "poll", "guard", "verb", "where", "giveback",
           "backpoll", "walk", "sweep", "capture", "records"}

(* The monitors of dwm are outputs, and there is one. *)
MonsInv ==
  /\ lit \subseteq Conns /\ lit # {} /\ mons \in Seq(Conns)
  /\ Len(mons) \in Nums /\ selmon \in 1..Len(mons)

(* Clients are on monitors there are; a selected client is one dwm shows. *)
ClientsInv ==
  /\ win \in [Wins -> Window \cup {None}] /\ sel \in [Nums -> Wins \cup {None}]
  /\ view \in [Nums -> Tags]
  /\ \A w \in Wins : win[w] # None => win[w].mon \in 1..Len(mons)
  /\ \A m \in Nums : sel[m] # None =>
       /\ win[sel[m]] # None /\ win[sel[m]].mon = m /\ win[sel[m]].tag = view[m]

(* What the coordinator remembers. *)
MemoryInv ==
  /\ asked \subseteq Wins /\ prev \in (SUBSET Conns) \cup {None}
  /\ IsMap(snapshot, Owners, WindowRecord) /\ IsMap(displaced, Owners, WindowRecord)
  /\ focus \in [num : Nums, win : Wins] \cup {None}

(* A plan moves first, then tags, then does what is not essential. *)
Ordered(plan) ==
  \A i \in 1..Len(plan) :
    /\ plan[i] = "tagmon" => i = 1 /\ Len(plan) > 1 /\ plan[2] = "tag"
    /\ plan[i] = "tag" => i <= 2 /\ (i = 2 => plan[1] = "tagmon")
InPlan(verb, plan) == \E i \in 1..Len(plan) : plan[i] = verb

(* The locals of on_settled. *)
CycleInv ==
  /\ pc \in Points /\ cyc \in Cycle
  /\ Restoring => cyc.key \in DOMAIN displaced /\ cyc.plan # <<>> /\ Ordered(cyc.plan)
  /\ ~ Restoring => cyc.key = None
  /\ pc \in {"guard", "where"} => Verb = "tagmon"
  /\ cyc.todo \subseteq DOMAIN displaced \ {cyc.key}
  /\ cyc.tries < TRIES /\ cyc.hops <= Len(XOrder) /\ Len(cyc.heads) <= Len(XOrder)

(* How far the restore of one window is, if nothing it sent was refused or lost: on *)
(* the monitor whatever went astray, on the tag unless the tag did.                 *)
Progress(W, c, rec) ==
  /\ c.target # 0 => c.target \in 1..Len(mons) /\ mons[c.target] = rec.output
  /\ c.target # 0 /\ c.ok /\ ~ InPlan("tagmon", c.plan) => W[rec.win].mon = c.target
  /\ c.ok /\ ~ InPlan("tag", c.plan) /\ ~ astray => W[rec.win].tag = rec.tag

(* What holds of a restore that nobody interferes with. *)
CalmInv ==
  calm =>
    /\ InCycle => cyc.heads = mons
    /\ Restoring => /\ win[Rec.win] # None /\ win[Rec.win].owner = cyc.key
                    /\ Progress(win, cyc, Rec)
    /\ pc \in {"guard", "verb"} => selected_confirmed(Rec.win)
    /\ pc = "verb" /\ Verb = "tagmon" => ~ tagmon_crash_risk(Rec.win)

IInv == MonsInv /\ ClientsInv /\ MemoryInv /\ CycleInv /\ CalmInv

(***************************************************************************)
(* Maps, monitors and numbers.                                             *)
(***************************************************************************)
LEMMA DropMap ==
  ASSUME NEW f, NEW K, NEW V, IsMap(f, K, V), NEW S
  PROVE  /\ IsMap(Drop(f, S), K, V) /\ DOMAIN Drop(f, S) = DOMAIN f \ S
         /\ \A k \in DOMAIN f \ S : Drop(f, S)[k] = f[k]
BY DEF Drop, IsMap

LEMMA OverMap ==
  ASSUME NEW f, NEW g, NEW K, NEW V, IsMap(f, K, V), IsMap(g, K, V)
  PROVE  IsMap(Over(f, g), K, V)
BY DEF Over, IsMap

LEMMA EmptyMap == \A K, V : IsMap(<<>>, K, V)
<1>1. DOMAIN <<>> = {}
  BY EmptySeq
<1> QED
  BY <1>1 DEF IsMap

(* The next monitor is one there is, and another one if there are two. *)
LEMMA NextMonitor ==
  ASSUME NEW n \in Nat \ {0}, NEW m \in 1..n
  PROVE  (m % n) + 1 \in 1..n /\ (n >= 2 => (m % n) + 1 # m)
<1>1. CASE m = n
  <2>1. m % n = 0
    BY <1>1
  <2> QED
    BY <2>1
<1>2. CASE m < n
  <2>1. m % n = m
    BY <1>2
  <2> QED
    BY <1>2, <2>1
<1> QED
  BY <1>1, <1>2

(* The lit outputs, in screen order. *)
LEMMA HeadsType ==
  ASSUME lit \subseteq Conns, lit # {}
  PROVE  Heads \in Seq(Conns) /\ Len(Heads) \in Nums
<1>1. XOrder \in Seq(Conns) /\ Len(XOrder) \in Nat /\ DOMAIN XOrder = 1..Len(XOrder)
  BY OrderAssumption, LenProperties
<1>2. PICK J : J = {i \in 1..Len(XOrder) : XOrder[i] \in lit}
  OBVIOUS
<1>3. Heads \in Seq(Conns) /\ Len(Heads) <= Len(XOrder) /\ InOrder(Heads, XOrder, J)
  BY <1>1, <1>2, OnlyProperties DEF Heads
<1>4. PICK i \in J : TRUE
  BY <1>1, <1>2, OrderAssumption
<1>5. \E j \in 1..Len(Heads) : Heads[j] = XOrder[i]
  BY <1>3, <1>4 DEF InOrder
<1>6. Len(Heads) \in Nat /\ Len(Heads) # 0
  BY <1>3, <1>5, LenProperties
<1> QED
  BY <1>1, <1>3, <1>6 DEF Nums

(***************************************************************************)
(* dwm keeps its clients in order, whatever moves them.                    *)
(***************************************************************************)
LEMMA Refocused ==
  ASSUME NEW W, NEW V, NEW m, NEW f \in Refocus(W, V, m)
  PROVE  f = None \/ (f \in Wins /\ W[f] # None /\ W[f].mon = m /\ W[f].tag = V[m])
BY DEF Refocus, Visible, On

LEMMA FocusWinKeeps ==
  ASSUME MonsInv, ClientsInv, NEW w \in Wins, win[w] # None, FocusWin(w),
         UNCHANGED <<mons, win>>
  PROVE  /\ ClientsInv' /\ selmon' = win[w].mon /\ selmon' \in 1..Len(mons)
         /\ sel'[win[w].mon] = w /\ view'[win[w].mon] = win[w].tag
         /\ \A m \in Nums : m # win[w].mon => sel'[m] = sel[m] /\ view'[m] = view[m]
<1>1. PICK m \in Nums : m = win[w].mon /\ m \in 1..Len(mons)
  BY DEF MonsInv, ClientsInv, Nums
<1>2. win[w] \in Window /\ win[w].tag \in Tags
  BY DEF ClientsInv, Window
<1>3. selmon' = m /\ sel' = [sel EXCEPT ![m] = w] /\ view' = [view EXCEPT ![m] = win[w].tag]
  BY <1>1 DEF FocusWin
<1>4. sel' \in [Nums -> Wins \cup {None}] /\ view' \in [Nums -> Tags]
  BY <1>2, <1>3 DEF ClientsInv
<1>5. sel'[m] = w /\ view'[m] = win[w].tag
      /\ \A k \in Nums : k # m => sel'[k] = sel[k] /\ view'[k] = view[k]
  BY <1>3 DEF ClientsInv
<1>6. ClientsInv'
  BY <1>1, <1>4, <1>5 DEF ClientsInv
<1> QED
  BY <1>1, <1>3, <1>5, <1>6

(* A client that is changed in some fields is still a client. *)
LEMMA ClientRetagged ==
  ASSUME NEW r \in Window, NEW t \in Tags, NEW x, x = [r EXCEPT !.tag = t]
  PROVE  x \in Window /\ x.owner = r.owner /\ x.mon = r.mon /\ x.tag = t /\ x.floating = r.floating
BY DEF Window

LEMMA ClientRehomed ==
  ASSUME NEW r \in Window, NEW m \in Nums, NEW x, x = [r EXCEPT !.mon = m]
  PROVE  x \in Window /\ x.owner = r.owner /\ x.mon = m /\ x.tag = r.tag /\ x.floating = r.floating
BY DEF Window

LEMMA ClientFloated ==
  ASSUME NEW r \in Window, NEW fl \in BOOLEAN, NEW x, x = [r EXCEPT !.floating = fl]
  PROVE  x \in Window /\ x.owner = r.owner /\ x.mon = r.mon /\ x.tag = r.tag
BY DEF Window

(* No client comes, goes or changes hands. *)
SameClients ==
  \A w \in Wins : /\ win'[w] = None <=> win[w] = None
                  /\ win[w] # None => win'[w].owner = win[w].owner

(* tagmon sends the selected client to the next monitor, and its tag there. *)
LEMMA TagmonKeeps ==
  ASSUME MonsInv, ClientsInv, Tagmon, UNCHANGED <<mons, view, selmon>>
  PROVE  /\ ClientsInv' /\ SameClients
         /\ (sel[selmon] = None \/ Len(mons) < 2) => win' = win /\ sel' = sel
         /\ (sel[selmon] # None /\ Len(mons) >= 2) =>
              /\ win'[sel[selmon]].mon = NextMon(selmon)
              /\ win'[sel[selmon]].tag = view[NextMon(selmon)]
              /\ win'[sel[selmon]].floating = win[sel[selmon]].floating
              /\ \A v \in Wins \ {sel[selmon]} : win'[v] = win[v]
              /\ NextMon(selmon) # selmon /\ NextMon(selmon) \in 1..Len(mons)
              /\ sel'[selmon] = None => Visible(win', view, selmon) = {}
<1>1. CASE sel[selmon] = None \/ Len(mons) < 2
  <2>1. win' = win /\ sel' = sel
    BY <1>1 DEF Tagmon
  <2>2. ClientsInv' /\ SameClients
    BY <2>1 DEF ClientsInv, SameClients
  <2> QED
    BY <1>1, <2>1, <2>2 DEF MonsInv, Nums
<1>2. CASE ~ (sel[selmon] = None \/ Len(mons) < 2)
  <2>1. Len(mons) \in Nat \ {0} /\ Len(mons) >= 2 /\ selmon \in 1..Len(mons)
        /\ 1..Len(mons) \subseteq Nums /\ sel[selmon] # None
    BY <1>2, OrderAssumption, LenProperties DEF MonsInv, Nums
  <2>2. PICK w \in Wins : w = sel[selmon] /\ win[w] # None /\ win[w] \in Window
                         /\ win[w].mon = selmon
    BY <2>1 DEF ClientsInv
  <2>3. PICK k \in 1..Len(mons) : k = NextMon(selmon) /\ k # selmon
    BY <2>1, NextMonitor DEF NextMon
  <2>4. PICK t \in Tags : t = view[k]
    BY <2>1 DEF ClientsInv
  <2>5. win' = [win EXCEPT ![w].mon = k, ![w].tag = t]
        /\ \E f \in Refocus(win', view, selmon) : sel' = [sel EXCEPT ![selmon] = f]
    BY <1>2, <2>2, <2>3, <2>4 DEF Tagmon
  <2>6. PICK f : f \in Refocus(win', view, selmon) /\ sel' = [sel EXCEPT ![selmon] = f]
    BY <2>5
  <2>7. win'[w] = [win[w] EXCEPT !.mon = k, !.tag = t] /\ \A v \in Wins \ {w} : win'[v] = win[v]
    BY <2>5 DEF ClientsInv
  <2>8. PICK r : r = [win[w] EXCEPT !.mon = k, !.tag = t]
    OBVIOUS
  <2>9. r \in Window /\ r.owner = win[w].owner /\ r.mon = k /\ r.tag = t
        /\ r.floating = win[w].floating
    <3>1. PICK o \in Owners, j \in Nums, u \in Tags, fl \in BOOLEAN :
            win[w] = [owner |-> o, mon |-> j, tag |-> u, floating |-> fl]
      BY <2>2 DEF Window
    <3>2. PICK q : q = [owner |-> o, mon |-> j, tag |-> u, floating |-> fl]
      OBVIOUS
    <3>3. r = [q EXCEPT !.mon = k, !.tag = t]
      BY <2>8, <3>1, <3>2
    <3>4. r = [owner |-> o, mon |-> k, tag |-> t, floating |-> fl] /\ k \in Nums
      BY <2>1, <3>2, <3>3
    <3> QED
      BY <3>1, <3>4 DEF Window
  <2>10. r # None
    BY <2>9, WindowAssumption
  <2>11. win' \in [Wins -> Window \cup {None}]
    <3>1. win' = [v \in Wins |-> win'[v]]
      BY <2>5 DEF ClientsInv
    <3>2. \A v \in Wins : win'[v] \in Window \cup {None}
      BY <2>7, <2>8, <2>9 DEF ClientsInv
    <3> QED
      BY <3>1, <3>2
  <2>12. \A v \in Wins : win'[v] # None => win'[v].mon \in 1..Len(mons)
    <3>1. win'[w].mon \in 1..Len(mons)
      BY <2>7, <2>8, <2>9
    <3>2. \A v \in Wins \ {w} : win'[v] # None => win'[v].mon \in 1..Len(mons)
      BY <2>7 DEF ClientsInv
    <3> QED
      BY <3>1, <3>2
  <2>13. f = None \/ (f \in Wins /\ win'[f] # None /\ win'[f].mon = selmon /\ win'[f].tag = view[selmon])
    BY <2>6, Refocused
  <2>14. sel' \in [Nums -> Wins \cup {None}] /\ sel'[selmon] = f
         /\ \A m \in Nums : m # selmon => sel'[m] = sel[m]
    BY <2>1, <2>6, <2>13 DEF ClientsInv
  <2>15. \A m \in Nums : sel'[m] # None =>
           /\ win'[sel'[m]] # None /\ win'[sel'[m]].mon = m /\ win'[sel'[m]].tag = view[m]
    <3> SUFFICES ASSUME NEW m \in Nums, sel'[m] # None
                 PROVE  /\ win'[sel'[m]] # None /\ win'[sel'[m]].mon = m
                        /\ win'[sel'[m]].tag = view[m]
      OBVIOUS
    <3>1. CASE m = selmon
      BY <2>13, <2>14, <3>1
    <3>2. CASE m # selmon
      <4>1. sel'[m] = sel[m] /\ sel[m] \in Wins /\ win[sel[m]].mon = m /\ sel[m] # w
        BY <2>2, <2>14, <3>2 DEF ClientsInv
      <4> QED
        BY <2>7, <4>1 DEF ClientsInv
    <3> QED
      BY <3>1, <3>2
  <2>16. ClientsInv'
    BY <2>11, <2>12, <2>14, <2>15 DEF ClientsInv
  <2>17. SameClients
    BY <2>2, <2>7, <2>8, <2>9, <2>10 DEF SameClients
  <2>18. sel'[selmon] = None => Visible(win', view, selmon) = {}
    BY <2>6, <2>14, NoneAssumption DEF Refocus, Visible, On
  <2> QED
    BY <1>2, <2>1, <2>2, <2>3, <2>4, <2>7, <2>8, <2>9, <2>16, <2>17, <2>18
<1> QED
  BY <1>1, <1>2

(* tag gives the selected client a tag, and takes it from view unless it has it. *)
LEMMA TagKeeps ==
  ASSUME MonsInv, ClientsInv, NEW t \in Tags, Tag(t), UNCHANGED <<mons, view, selmon>>
  PROVE  /\ ClientsInv' /\ SameClients
         /\ \A v \in Wins : win[v] # None => win'[v].mon = win[v].mon
         /\ sel[selmon] # None => win'[sel[selmon]].tag = t
<1>1. CASE sel[selmon] = None \/ t = view[selmon]
  <2>1. win' = win /\ sel' = sel
    BY <1>1 DEF Tag
  <2>2. ClientsInv' /\ SameClients
    BY <2>1 DEF ClientsInv, SameClients
  <2>3. selmon \in Nums
    BY OrderAssumption, LenProperties DEF MonsInv, Nums
  <2> QED
    BY <1>1, <2>1, <2>2, <2>3 DEF ClientsInv
<1>2. CASE ~ (sel[selmon] = None \/ t = view[selmon])
  <2>1. selmon \in Nums
    BY OrderAssumption, LenProperties DEF MonsInv, Nums
  <2>2. PICK w \in Wins : w = sel[selmon] /\ win[w] # None /\ win[w] \in Window
                         /\ win[w].mon = selmon
    BY <1>2, <2>1 DEF ClientsInv
  <2>3. win' = [win EXCEPT ![w].tag = t]
        /\ \E f \in Refocus(win', view, selmon) : sel' = [sel EXCEPT ![selmon] = f]
    BY <1>2, <2>2 DEF Tag
  <2>4. PICK f : f \in Refocus(win', view, selmon) /\ sel' = [sel EXCEPT ![selmon] = f]
    BY <2>3
  <2>5. win'[w] = [win[w] EXCEPT !.tag = t] /\ \A v \in Wins \ {w} : win'[v] = win[v]
    BY <2>3 DEF ClientsInv
  <2>6. PICK r : r = [win[w] EXCEPT !.tag = t]
    OBVIOUS
  <2>7. r \in Window /\ r.owner = win[w].owner /\ r.mon = win[w].mon /\ r.tag = t
    BY <2>2, <2>6, ClientRetagged
  <2>8. r # None
    BY <2>7, WindowAssumption
  <2>9. win' \in [Wins -> Window \cup {None}]
    <3>1. win' = [v \in Wins |-> win'[v]]
      BY <2>3 DEF ClientsInv
    <3>2. \A v \in Wins : win'[v] \in Window \cup {None}
      BY <2>5, <2>6, <2>7 DEF ClientsInv
    <3> QED
      BY <3>1, <3>2
  <2>10. \A v \in Wins : win'[v] # None => win'[v].mon \in 1..Len(mons)
    <3>1. win'[w].mon \in 1..Len(mons)
      BY <2>2, <2>5, <2>6, <2>7 DEF ClientsInv
    <3>2. \A v \in Wins \ {w} : win'[v] # None => win'[v].mon \in 1..Len(mons)
      BY <2>5 DEF ClientsInv
    <3> QED
      BY <3>1, <3>2
  <2>11. f = None \/ (f \in Wins /\ win'[f] # None /\ win'[f].mon = selmon /\ win'[f].tag = view[selmon])
    BY <2>4, Refocused
  <2>12. sel' \in [Nums -> Wins \cup {None}] /\ sel'[selmon] = f
         /\ \A m \in Nums : m # selmon => sel'[m] = sel[m]
    BY <2>1, <2>4, <2>11 DEF ClientsInv
  <2>13. \A m \in Nums : sel'[m] # None =>
           /\ win'[sel'[m]] # None /\ win'[sel'[m]].mon = m /\ win'[sel'[m]].tag = view[m]
    <3> SUFFICES ASSUME NEW m \in Nums, sel'[m] # None
                 PROVE  /\ win'[sel'[m]] # None /\ win'[sel'[m]].mon = m
                        /\ win'[sel'[m]].tag = view[m]
      OBVIOUS
    <3>1. CASE m = selmon
      BY <2>11, <2>12, <3>1
    <3>2. CASE m # selmon
      <4>1. sel'[m] = sel[m] /\ sel[m] \in Wins /\ win[sel[m]].mon = m /\ sel[m] # w
        BY <2>2, <2>12, <3>2 DEF ClientsInv
      <4> QED
        BY <2>5, <4>1 DEF ClientsInv
    <3> QED
      BY <3>1, <3>2
  <2>14. ClientsInv'
    BY <2>9, <2>10, <2>12, <2>13 DEF ClientsInv
  <2>15. SameClients
    BY <2>2, <2>5, <2>6, <2>7, <2>8 DEF SameClients
  <2> QED
    BY <2>2, <2>5, <2>6, <2>7, <2>14, <2>15
<1> QED
  BY <1>1, <1>2

(* togglefloating moves and retags nothing. *)
LEMMA ToggleKeeps ==
  ASSUME MonsInv, ClientsInv, ToggleFloating, UNCHANGED <<mons, view, selmon>>
  PROVE  /\ ClientsInv' /\ SameClients
         /\ \A v \in Wins : win[v] # None => win'[v].mon = win[v].mon /\ win'[v].tag = win[v].tag
<1>1. CASE sel[selmon] = None
  <2>1. win' = win /\ sel' = sel
    BY <1>1 DEF ToggleFloating
  <2> QED
    BY <2>1 DEF ClientsInv, SameClients
<1>2. CASE sel[selmon] # None
  <2>1. selmon \in Nums
    BY OrderAssumption, LenProperties DEF MonsInv, Nums
  <2>2. PICK w \in Wins : w = sel[selmon] /\ win[w] # None /\ win[w] \in Window
    BY <1>2, <2>1 DEF ClientsInv
  <2>3. PICK fl \in BOOLEAN : fl = ~ win[w].floating
    BY <2>2 DEF Window
  <2>4. win' = [win EXCEPT ![w].floating = ~@] /\ sel' = sel
    BY <1>2, <2>2 DEF ToggleFloating
  <2>5. win'[w] = [win[w] EXCEPT !.floating = fl] /\ \A v \in Wins \ {w} : win'[v] = win[v]
    BY <2>3, <2>4 DEF ClientsInv
  <2>6. PICK r : r = [win[w] EXCEPT !.floating = fl]
    OBVIOUS
  <2>7. r \in Window /\ r.owner = win[w].owner /\ r.mon = win[w].mon /\ r.tag = win[w].tag
    BY <2>2, <2>6, ClientFloated
  <2>8. r # None
    BY <2>7, WindowAssumption
  <2>9. win' \in [Wins -> Window \cup {None}]
    <3>1. win' = [v \in Wins |-> win'[v]]
      BY <2>4 DEF ClientsInv
    <3>2. \A v \in Wins : win'[v] \in Window \cup {None}
      BY <2>5, <2>6, <2>7 DEF ClientsInv
    <3> QED
      BY <3>1, <3>2
  <2>10. \A v \in Wins : /\ win'[v] = None <=> win[v] = None
                         /\ win[v] # None => /\ win'[v].mon = win[v].mon /\ win'[v].tag = win[v].tag
                                             /\ win'[v].owner = win[v].owner
    BY <2>2, <2>5, <2>6, <2>7, <2>8
  <2>11. ClientsInv'
    <3>1. \A v \in Wins : win'[v] # None => win'[v].mon \in 1..Len(mons)
      BY <2>10 DEF ClientsInv
    <3>2. \A m \in Nums : sel[m] # None =>
            /\ win'[sel[m]] # None /\ win'[sel[m]].mon = m /\ win'[sel[m]].tag = view[m]
      BY <2>10 DEF ClientsInv
    <3> QED
      BY <2>4, <2>9, <3>1, <3>2 DEF ClientsInv
  <2> QED
    BY <2>10, <2>11 DEF SameClients
<1> QED
  BY <1>1, <1>2

(***************************************************************************)
(* What the user and the cables do to dwm.                                 *)
(***************************************************************************)
LEMMA SelmonType == MonsInv => selmon \in Nums /\ 1..Len(mons) \subseteq Nums /\ Len(mons) \in Nat \ {0}
BY OrderAssumption, LenProperties DEF MonsInv, Nums

LEMMA OpensKeeps ==
  ASSUME MonsInv, ClientsInv, NEW w \in Wins, NEW p \in Owners, NEW k \in 1..Len(mons),
         UserOpens(w, p, k), mons' = mons
  PROVE  ClientsInv' /\ selmon' = selmon
<1>1. k \in Nums /\ view[k] \in Tags
  BY SelmonType DEF MonsInv, ClientsInv
<1>2. PICK fl \in BOOLEAN :
        win' = [win EXCEPT ![w] = [owner |-> p, mon |-> k, tag |-> view[k], floating |-> fl]]
  BY DEF UserOpens
<1>3. PICK r : r = [owner |-> p, mon |-> k, tag |-> view[k], floating |-> fl]
  OBVIOUS
<1>4. r \in Window /\ r.mon = k /\ r.tag = view[k] /\ r # None
  BY <1>1, <1>3, WindowAssumption DEF Window
<1>5. /\ win[w] = None /\ sel' = [sel EXCEPT ![k] = w] /\ view' = view /\ selmon' = selmon
      /\ win' = [win EXCEPT ![w] = r]
  BY <1>2, <1>3 DEF UserOpens
<1>6. win' \in [Wins -> Window \cup {None}] /\ sel' \in [Nums -> Wins \cup {None}]
  BY <1>1, <1>4, <1>5 DEF ClientsInv
<1>7. \A v \in Wins : win'[v] # None => win'[v].mon \in 1..Len(mons)
  BY <1>1, <1>4, <1>5 DEF ClientsInv
<1>8. \A m \in Nums : sel'[m] # None =>
        /\ win'[sel'[m]] # None /\ win'[sel'[m]].mon = m /\ win'[sel'[m]].tag = view[m]
  <2> SUFFICES ASSUME NEW m \in Nums, sel'[m] # None
               PROVE  /\ win'[sel'[m]] # None /\ win'[sel'[m]].mon = m
                      /\ win'[sel'[m]].tag = view[m]
    OBVIOUS
  <2>1. CASE m = k
    <3>1. sel'[m] = w /\ win'[w] = r
      BY <1>1, <1>5, <2>1 DEF ClientsInv
    <3> QED
      BY <1>4, <2>1, <3>1
  <2>2. CASE m # k
    <3>1. sel'[m] = sel[m] /\ sel[m] \in Wins /\ win[sel[m]] # None
      BY <1>5, <2>2 DEF ClientsInv
    <3>2. sel[m] # w /\ win'[sel[m]] = win[sel[m]]
      BY <1>5, <3>1 DEF ClientsInv
    <3> QED
      BY <3>1, <3>2 DEF ClientsInv
  <2> QED
    BY <2>1, <2>2
<1> QED
  BY <1>5, <1>6, <1>7, <1>8 DEF ClientsInv

LEMMA ClosesKeeps ==
  ASSUME MonsInv, ClientsInv, NEW w \in Wins, UserCloses(w), mons' = mons
  PROVE  ClientsInv' /\ selmon' = selmon
<1>1. PICK k \in Nums : k = win[w].mon /\ win[w] # None
  BY SelmonType DEF UserCloses, ClientsInv
<1>2. /\ win' = [win EXCEPT ![w] = None] /\ view' = view /\ selmon' = selmon
      /\ IF sel[k] = w THEN \E f \in Refocus(win', view, k) : sel' = [sel EXCEPT ![k] = f]
         ELSE sel' = sel
  BY <1>1 DEF UserCloses
<1>3. win' \in [Wins -> Window \cup {None}] /\ win'[w] = None
      /\ \A v \in Wins \ {w} : win'[v] = win[v]
  BY <1>2 DEF ClientsInv
<1>4. \A v \in Wins : win'[v] # None => win'[v].mon \in 1..Len(mons)
  BY <1>3 DEF ClientsInv
<1>5. PICK f : /\ sel[k] = w => f \in Refocus(win', view, k)
               /\ sel[k] # w => f = sel[k]
               /\ sel' = [sel EXCEPT ![k] = f]
  <2>1. CASE sel[k] = w
    BY <1>2, <2>1
  <2>2. CASE sel[k] # w
    <3>1. sel' = [sel EXCEPT ![k] = sel[k]]
      BY <1>2, <2>2 DEF ClientsInv
    <3> QED
      BY <2>2, <3>1
  <2> QED
    BY <2>1, <2>2
<1>6. f \in Wins \cup {None} /\ (f # None => win'[f] # None /\ win'[f].mon = k /\ win'[f].tag = view[k])
  <2>1. CASE sel[k] = w
    BY <1>5, <2>1, Refocused
  <2>2. CASE sel[k] # w
    BY <1>3, <1>5, <2>2 DEF ClientsInv
  <2> QED
    BY <2>1, <2>2
<1>7. sel' \in [Nums -> Wins \cup {None}] /\ sel'[k] = f /\ \A m \in Nums : m # k => sel'[m] = sel[m]
  BY <1>5, <1>6 DEF ClientsInv
<1>8. \A m \in Nums : sel'[m] # None =>
        /\ win'[sel'[m]] # None /\ win'[sel'[m]].mon = m /\ win'[sel'[m]].tag = view[m]
  <2> SUFFICES ASSUME NEW m \in Nums, sel'[m] # None
               PROVE  /\ win'[sel'[m]] # None /\ win'[sel'[m]].mon = m
                      /\ win'[sel'[m]].tag = view[m]
    OBVIOUS
  <2>1. CASE m = k
    BY <1>6, <1>7, <2>1
  <2>2. CASE m # k
    <3>1. sel'[m] = sel[m] /\ sel[m] \in Wins /\ win[sel[m]].mon = m /\ win[sel[m]] # None
          /\ win[sel[m]].tag = view[m]
      BY <1>7, <2>2 DEF ClientsInv
    <3>2. win'[sel[m]] = win[sel[m]]
      BY <1>1, <1>3, <2>2, <3>1
    <3> QED
      BY <3>1, <3>2
  <2> QED
    BY <2>1, <2>2
<1> QED
  BY <1>2, <1>3, <1>4, <1>7, <1>8 DEF ClientsInv

LEMMA ViewsKeeps ==
  ASSUME MonsInv, ClientsInv, NEW t \in Tags, UserViews(t), mons' = mons
  PROVE  ClientsInv' /\ selmon' = selmon
<1>1. PICK k \in Nums : k = selmon
  BY SelmonType
<1>2. /\ win' = win /\ selmon' = selmon /\ view' = [view EXCEPT ![k] = t]
      /\ \E f \in Refocus(win, view', k) : sel' = [sel EXCEPT ![k] = f]
  BY <1>1 DEF UserViews
<1>3. PICK f \in Refocus(win, view', k) : sel' = [sel EXCEPT ![k] = f]
  BY <1>2
<1>4. f \in Wins \cup {None} /\ (f # None => win[f] # None /\ win[f].mon = k /\ win[f].tag = view'[k])
  BY <1>3, Refocused
<1>5. /\ sel' \in [Nums -> Wins \cup {None}] /\ view' \in [Nums -> Tags]
      /\ sel'[k] = f /\ \A m \in Nums : m # k => sel'[m] = sel[m] /\ view'[m] = view[m]
  BY <1>2, <1>3, <1>4 DEF ClientsInv
<1> QED
  BY <1>2, <1>4, <1>5 DEF ClientsInv

(* A monitor is selected, with a visible client of it if it has one. *)
LEMMA SelectKeeps ==
  ASSUME MonsInv, ClientsInv, NEW k \in 1..Len(mons),
         \E f \in Refocus(win, view, k) : sel' = [sel EXCEPT ![k] = f],
         UNCHANGED <<mons, win, view>>
  PROVE  ClientsInv'
<1>1. PICK f \in Refocus(win, view, k) : sel' = [sel EXCEPT ![k] = f]
  OBVIOUS
<1>2. f \in Wins \cup {None} /\ (f # None => win[f] # None /\ win[f].mon = k /\ win[f].tag = view[k])
  BY <1>1, Refocused
<1>3. /\ sel' \in [Nums -> Wins \cup {None}] /\ sel'[k] = f
      /\ \A m \in Nums : m # k => sel'[m] = sel[m]
  BY <1>1, <1>2, SelmonType DEF ClientsInv
<1> QED
  BY <1>2, <1>3 DEF ClientsInv

LEMMA UserKeeps ==
  ASSUME MonsInv, ClientsInv, User
  PROVE  MonsInv' /\ ClientsInv'
<1>1. UNCHANGED <<mons, lit>>
  BY DEF User
<1>2. ASSUME NEW w \in Wins, UserFocuses(w) PROVE ClientsInv' /\ selmon' \in 1..Len(mons)
  BY <1>1, <1>2, FocusWinKeeps DEF UserFocuses
<1>3. ASSUME NEW w \in Wins, UserCloses(w) PROVE ClientsInv' /\ selmon' \in 1..Len(mons)
  BY <1>1, <1>3, ClosesKeeps DEF MonsInv
<1>4. ASSUME NEW w \in Wins, NEW p \in Owners, NEW m \in 1..Len(mons), UserOpens(w, p, m)
      PROVE  ClientsInv' /\ selmon' \in 1..Len(mons)
  BY <1>1, <1>4, OpensKeeps DEF MonsInv
<1>5. ASSUME NEW t \in Tags, UserViews(t) PROVE ClientsInv' /\ selmon' \in 1..Len(mons)
  BY <1>1, <1>5, ViewsKeeps DEF MonsInv
<1>6. ASSUME NEW m \in 1..Len(mons), UserSelects(m) PROVE ClientsInv' /\ selmon' \in 1..Len(mons)
  BY <1>1, <1>6, SelectKeeps DEF UserSelects
<1>7. ASSUME UserMoves PROVE ClientsInv' /\ selmon' \in 1..Len(mons)
  BY <1>1, <1>7, TagmonKeeps DEF UserMoves, MonsInv
<1>8. ClientsInv' /\ selmon' \in 1..Len(mons)
  BY <1>2, <1>3, <1>4, <1>5, <1>6, <1>7 DEF User
<1> QED
  BY <1>1, <1>8 DEF MonsInv

(* updategeom: no client is left on a number that is gone. *)
LEMMA SyncKeeps ==
  ASSUME MonsInv, ClientsInv, DwmSync
  PROVE  MonsInv' /\ ClientsInv'
<1>1. lit \subseteq Conns /\ lit # {} /\ lit' = lit /\ mons' = Heads
  BY DEF MonsInv, DwmSync
<1>2. mons' \in Seq(Conns) /\ Len(mons') \in Nums
  BY <1>1, HeadsType
<1> DEFINE n == Len(Heads)
           gone == {w \in Wins : win[w] # None /\ win[w].mon > n}
           W == [w \in Wins |-> IF w \in gone THEN [win[w] EXCEPT !.mon = 1] ELSE win[w]]
           V == [m \in Nums |-> IF m <= n THEN view[m] ELSE DefaultTag]
           m0 == IF selmon <= n THEN selmon ELSE 1
<1>3. n \in Nums /\ n = Len(mons')
  BY <1>1, <1>2
<1>4. n \in Nat \ {0} /\ 1..n \subseteq Nums /\ 1 \in 1..n /\ selmon \in Nums
  BY <1>3, SelmonType, OrderAssumption, LenProperties DEF Nums
<1>5. gone = {w \in Wins : win[w] # None /\ win[w].mon > n}
  OBVIOUS
<1>6. W = [w \in Wins |-> IF w \in gone THEN [win[w] EXCEPT !.mon = 1] ELSE win[w]]
  OBVIOUS
<1>7. V = [m \in Nums |-> IF m <= n THEN view[m] ELSE DefaultTag]
  OBVIOUS
<1>8. m0 = IF selmon <= n THEN selmon ELSE 1
  OBVIOUS
<1>9. /\ win' = W /\ view' = V /\ selmon' = m0
      /\ \E f \in Refocus(W, V, m0) :
           sel' = [m \in Nums |-> IF m > n THEN None ELSE IF m = m0 THEN f ELSE sel[m]]
  BY DEF DwmSync
<1> HIDE DEF n, gone, W, V, m0
<1>10. PICK f \in Refocus(W, V, m0) :
          sel' = [m \in Nums |-> IF m > n THEN None ELSE IF m = m0 THEN f ELSE sel[m]]
  BY <1>9
<1>11. m0 \in 1..n
  <2>1. selmon \in Nat /\ selmon >= 1
    BY SelmonType, OrderAssumption, LenProperties DEF Nums
  <2>2. CASE selmon <= n
    BY <1>4, <1>8, <2>1, <2>2
  <2>3. CASE ~ (selmon <= n)
    BY <1>4, <1>8, <2>3
  <2> QED
    BY <2>2, <2>3
<1>12. \A w \in gone : W[w] \in Window /\ W[w].mon = 1 /\ W[w] # None
  <2> SUFFICES ASSUME NEW w \in gone PROVE W[w] \in Window /\ W[w].mon = 1
    BY WindowAssumption
  <2>1. w \in Wins /\ win[w] \in Window /\ W[w] = [win[w] EXCEPT !.mon = 1]
    BY <1>5, <1>6 DEF ClientsInv
  <2>2. 1 \in Nums
    BY <1>4
  <2> QED
    BY <2>1, <2>2, ClientRehomed
<1>13. \A w \in Wins \ gone : W[w] = win[w]
  BY <1>6
<1>14. W \in [Wins -> Window \cup {None}]
  BY <1>5, <1>6, <1>12, <1>13 DEF ClientsInv
<1>15. \A w \in Wins : W[w] # None => W[w].mon \in 1..n
  <2> SUFFICES ASSUME NEW w \in Wins, W[w] # None PROVE W[w].mon \in 1..n
    OBVIOUS
  <2>1. CASE w \in gone
    BY <1>4, <1>12, <2>1
  <2>2. CASE w \notin gone
    <3>1. win[w] # None /\ W[w] = win[w] /\ win[w].mon \in 1..Len(mons) /\ ~ (win[w].mon > n)
      BY <1>5, <1>13, <2>2 DEF ClientsInv
    <3> QED
      BY <1>4, <3>1
  <2> QED
    BY <2>1, <2>2
<1>16. V \in [Nums -> Tags] /\ \A m \in 1..n : V[m] = view[m]
  BY <1>4, <1>7, TagAssumption DEF ClientsInv
<1>17. f \in Wins \cup {None} /\ (f # None => W[f] # None /\ W[f].mon = m0 /\ W[f].tag = V[m0])
  BY <1>10, Refocused
<1>18. sel' \in [Nums -> Wins \cup {None}]
  BY <1>10, <1>17 DEF ClientsInv
<1>19. \A m \in Nums : sel'[m] # None => W[sel'[m]] # None /\ W[sel'[m]].mon = m /\ W[sel'[m]].tag = V[m]
  <2> SUFFICES ASSUME NEW m \in Nums, sel'[m] # None
               PROVE  W[sel'[m]] # None /\ W[sel'[m]].mon = m /\ W[sel'[m]].tag = V[m]
    OBVIOUS
  <2>1. m \in 1..n /\ (m = m0 => sel'[m] = f) /\ (m # m0 => sel'[m] = sel[m])
    <3>1. sel'[m] = IF m > n THEN None ELSE IF m = m0 THEN f ELSE sel[m]
      BY <1>10
    <3>2. m \in Nat /\ m # 0
      BY OrderAssumption, LenProperties DEF Nums
    <3> QED
      BY <1>4, <3>1, <3>2
  <2>2. CASE m = m0
    BY <1>17, <2>1, <2>2
  <2>3. CASE m # m0
    <3>1. sel[m] \in Wins /\ win[sel[m]] # None /\ win[sel[m]].mon = m /\ win[sel[m]].tag = view[m]
      BY <2>1, <2>3 DEF ClientsInv
    <3>2. sel[m] \notin gone
      BY <1>4, <1>5, <2>1, <3>1
    <3> QED
      BY <1>13, <1>16, <2>1, <2>3, <3>1, <3>2
  <2> QED
    BY <2>2, <2>3
<1>20. ClientsInv'
  BY <1>3, <1>9, <1>14, <1>15, <1>16, <1>18, <1>19 DEF ClientsInv
<1> QED
  BY <1>1, <1>2, <1>3, <1>9, <1>11, <1>20 DEF MonsInv

(***************************************************************************)
(* Plans.                                                                  *)
(***************************************************************************)
(* One more step, or none, that is not essential. *)
LEMMA StepAppended ==
  ASSUME NEW P \in Seq(Verbs), NEW v \in Verbs, NEW e, e = <<>> \/ e = <<v>>
  PROVE  /\ P \o e \in Seq(Verbs) /\ Len(P \o e) >= Len(P)
         /\ \A i \in 1..Len(P) : (P \o e)[i] = P[i]
         /\ \A i \in 1..Len(P \o e) : i > Len(P) => (P \o e)[i] = v
<1>1. e \in Seq(Verbs) /\ Len(e) \in Nat /\ \A i \in 1..Len(e) : i = 1 /\ e[i] = v
  <2>1. CASE e = <<>>
    BY <2>1, EmptySeq
  <2>2. CASE e = <<v>>
    BY <2>2
  <2> QED
    BY <2>1, <2>2
<1>2. Len(P) \in Nat
  BY LenProperties
<1>3. PICK Q : Q = P \o e
  OBVIOUS
<1>4. /\ Q \in Seq(Verbs) /\ Len(Q) = Len(P) + Len(e)
      /\ \A i \in 1..Len(P) + Len(e) : Q[i] = IF i <= Len(P) THEN P[i] ELSE e[i - Len(P)]
  BY <1>1, <1>3, ConcatProperties
<1>5. ASSUME NEW i \in 1..Len(Q), i > Len(P) PROVE Q[i] = v
  <2>1. i - Len(P) \in 1..Len(e)
    BY <1>1, <1>2, <1>4, <1>5
  <2>2. Q[i] = e[i - Len(P)]
    BY <1>2, <1>4, <1>5
  <2> QED
    BY <1>1, <2>1, <2>2
<1>6. ASSUME NEW i \in 1..Len(P) PROVE Q[i] = P[i]
  BY <1>1, <1>2, <1>4
<1> QED
  BY <1>1, <1>2, <1>3, <1>4, <1>5, <1>6

(* plan_restore: the move first, if there is one, then the tag. *)
LEMMA PlanFacts ==
  ASSUME NEW rec, NEW target, NEW live, NEW P, P = plan_restore(rec, target, live)
  PROVE  /\ P \in Seq(Verbs) /\ P # <<>> /\ Ordered(P) /\ InPlan("tag", P)
         /\ ~ InPlan("tagmon", P) => target = 0 \/ target = live.mon
<1>1. PICK A : A = IF target # 0 /\ target # live.mon THEN <<"tagmon">> ELSE <<>>
  OBVIOUS
<1>2. PICK C : C = IF live.floating # rec.floating THEN <<"togglefloating">> ELSE <<>>
  OBVIOUS
<1>3. PICK D : D = IF rec.floating /\ target # 0 THEN <<"configure">> ELSE <<>>
  OBVIOUS
<1>4. PICK H : H = A \o <<"tag">>
  OBVIOUS
<1>5. PICK G : G = H \o C
  OBVIOUS
<1>6. P = G \o D
  BY <1>1, <1>2, <1>3, <1>4, <1>5 DEF plan_restore
<1>7. {"tagmon", "tag", "togglefloating", "configure"} = Verbs
  BY DEF Verbs
<1>8. PICK B : B = <<"tag">>
  OBVIOUS
<1>9. /\ H \in Seq(Verbs) /\ Len(H) \in 1..2 /\ H[Len(H)] = "tag" /\ (Len(H) = 2 => H[1] = "tagmon")
      /\ Len(H) = 1 => target = 0 \/ target = live.mon
  <2>1. "tag" \in Verbs /\ "tagmon" \in Verbs
    BY <1>7
  <2>2. B \in Seq(Verbs) /\ Len(B) = 1 /\ B[1] = "tag"
    BY <1>8, <2>1
  <2>3. A \in Seq(Verbs)
        /\ \/ Len(A) = 0 /\ (target = 0 \/ target = live.mon)
           \/ Len(A) = 1 /\ A[1] = "tagmon"
    <3>1. CASE target # 0 /\ target # live.mon
      <4>1. A = <<"tagmon">>
        BY <1>1, <3>1
      <4> QED
        BY <2>1, <4>1
    <3>2. CASE ~ (target # 0 /\ target # live.mon)
      <4>1. A = <<>>
        BY <1>1, <3>2
      <4>2. A \in Seq(Verbs) /\ Len(A) = 0
        BY <4>1, EmptySeq
      <4> QED
        BY <3>2, <4>2
    <3> QED
      BY <3>1, <3>2
  <2>4. /\ H \in Seq(Verbs) /\ Len(H) = Len(A) + 1
        /\ \A i \in 1..Len(A) + 1 : H[i] = IF i <= Len(A) THEN A[i] ELSE B[i - Len(A)]
    BY <1>4, <1>8, <2>2, <2>3, ConcatProperties
  <2>5. CASE Len(A) = 0
    BY <2>2, <2>3, <2>4, <2>5
  <2>6. CASE Len(A) = 1
    BY <2>2, <2>3, <2>4, <2>6
  <2> QED
    BY <2>3, <2>5, <2>6
<1>10. /\ G \in Seq(Verbs) /\ Len(G) >= Len(H) /\ \A i \in 1..Len(H) : G[i] = H[i]
       /\ \A i \in 1..Len(G) : i > Len(H) => G[i] = "togglefloating"
  <2>1. "togglefloating" \in Verbs /\ (C = <<>> \/ C = <<"togglefloating">>)
    BY <1>2, <1>7
  <2> QED
    BY <1>5, <1>9, <2>1, StepAppended
<1>11. /\ P \in Seq(Verbs) /\ Len(P) >= Len(G) /\ \A i \in 1..Len(G) : P[i] = G[i]
       /\ \A i \in 1..Len(P) : i > Len(G) => P[i] = "configure"
  <2>1. "configure" \in Verbs /\ (D = <<>> \/ D = <<"configure">>)
    BY <1>3, <1>7
  <2> QED
    BY <1>6, <1>10, <2>1, StepAppended
<1>12. Len(P) \in Nat /\ Len(G) \in Nat /\ Len(H) \in Nat
  BY <1>9, <1>10, <1>11, LenProperties
<1>13. /\ \A i \in 1..Len(H) : P[i] = H[i]
       /\ \A i \in 1..Len(P) : i > Len(H) => P[i] = "togglefloating" \/ P[i] = "configure"
  <2>1. ASSUME NEW i \in 1..Len(H) PROVE P[i] = H[i]
    BY <1>10, <1>11, <1>12
  <2>2. ASSUME NEW i \in 1..Len(P), i > Len(H) PROVE P[i] = "togglefloating" \/ P[i] = "configure"
    <3>1. CASE i <= Len(G)
      BY <1>10, <1>11, <1>12, <2>2, <3>1
    <3>2. CASE ~ (i <= Len(G))
      BY <1>11, <1>12, <3>2
    <3> QED
      BY <3>1, <3>2
  <2> QED
    BY <2>1, <2>2
<1>14. CASE Len(H) = 1
  <2>1. P[1] = "tag" /\ Len(P) >= 1 /\ (target = 0 \/ target = live.mon)
    BY <1>9, <1>10, <1>11, <1>12, <1>13, <1>14
  <2>2. \A i \in 1..Len(P) : i > 1 => P[i] = "togglefloating" \/ P[i] = "configure"
    BY <1>13, <1>14
  <2>3. Ordered(P)
    BY <1>12, <2>1, <2>2 DEF Ordered
  <2>4. InPlan("tag", P) /\ P # <<>>
    BY <1>12, <2>1, EmptySeq DEF InPlan
  <2> QED
    BY <1>11, <2>1, <2>3, <2>4
<1>15. CASE Len(H) = 2
  <2>1. P[1] = "tagmon" /\ P[2] = "tag" /\ Len(P) >= 2
    BY <1>9, <1>10, <1>11, <1>12, <1>13, <1>15
  <2>2. \A i \in 1..Len(P) : i > 2 => P[i] = "togglefloating" \/ P[i] = "configure"
    BY <1>13, <1>15
  <2>3. Ordered(P)
    BY <1>12, <2>1, <2>2 DEF Ordered
  <2>4. InPlan("tag", P) /\ InPlan("tagmon", P) /\ P # <<>>
    BY <1>12, <2>1, EmptySeq DEF InPlan
  <2> QED
    BY <1>11, <2>3, <2>4
<1> QED
  BY <1>9, <1>14, <1>15

(* What is left of a plan after its first step. *)
LEMMA PlanStep ==
  ASSUME NEW P \in Seq(Verbs), P # <<>>, Ordered(P)
  PROVE  /\ Head(P) \in Verbs /\ Tail(P) \in Seq(Verbs) /\ Ordered(Tail(P))
         /\ ~ InPlan("tagmon", Tail(P)) /\ ~ InPlan("tag", <<>>)
         /\ Head(P) = "tagmon" => InPlan("tagmon", P) /\ InPlan("tag", Tail(P)) /\ InPlan("tag", P)
         /\ Head(P) # "tagmon" => ~ InPlan("tagmon", P)
         /\ Head(P) \notin Essential => ~ InPlan("tag", P)
<1>1. Len(P) \in Nat \ {0} /\ Head(P) = P[1]
  BY LenProperties, EmptySeq
<1>2. PICK T : T = Tail(P)
  OBVIOUS
<1>3. /\ Head(P) \in Verbs /\ T \in Seq(Verbs) /\ Len(T) = Len(P) - 1 /\ Len(T) \in Nat
      /\ \A i \in 1..Len(T) : T[i] = P[i + 1]
  BY <1>1, <1>2, HeadTailProperties
<1>4. \A i \in 1..Len(T) : T[i] # "tagmon" /\ (T[i] = "tag" => i = 1)
  <2> SUFFICES ASSUME NEW i \in 1..Len(T) PROVE T[i] # "tagmon" /\ (T[i] = "tag" => i = 1)
    OBVIOUS
  <2>1. i + 1 \in 1..Len(P) /\ i + 1 # 1 /\ T[i] = P[i + 1]
    BY <1>1, <1>3
  <2>2. /\ P[i + 1] = "tagmon" => i + 1 = 1
        /\ P[i + 1] = "tag" => i + 1 <= 2
    BY <2>1 DEF Ordered
  <2> QED
    BY <1>3, <2>1, <2>2
<1>5. Ordered(T) /\ ~ InPlan("tagmon", T)
  <2>1. ~ InPlan("tagmon", T)
    BY <1>4 DEF InPlan
  <2>2. \A i \in 1..Len(T) : T[i] = "tag" => i <= 2 /\ (i = 2 => T[1] = "tagmon")
    BY <1>3, <1>4
  <2> QED
    BY <1>4, <2>1, <2>2 DEF Ordered
<1>6. ASSUME Head(P) = "tagmon" PROVE InPlan("tagmon", P) /\ InPlan("tag", T) /\ InPlan("tag", P)
  <2>1. 1 \in 1..Len(P) /\ P[1] = "tagmon"
    BY <1>1, <1>6
  <2>2. Len(P) > 1 /\ P[2] = "tag"
    BY <2>1 DEF Ordered
  <2>3. 1 \in 1..Len(T) /\ T[1] = P[1 + 1] /\ 2 \in 1..Len(P)
    BY <1>1, <1>3, <2>2
  <2> QED
    BY <2>1, <2>2, <2>3 DEF InPlan
<1>7. ASSUME Head(P) # "tagmon" PROVE ~ InPlan("tagmon", P)
  BY <1>1, <1>7 DEF Ordered, InPlan
<1>8. ASSUME Head(P) \notin Essential PROVE ~ InPlan("tag", P)
  <2>1. P[1] # "tag" /\ P[1] # "tagmon"
    BY <1>1, <1>8 DEF Essential
  <2>2. \A i \in 1..Len(P) : P[i] # "tag"
    <3> SUFFICES ASSUME NEW i \in 1..Len(P), P[i] = "tag" PROVE FALSE
      OBVIOUS
    <3>1. i <= 2 /\ i # 2 /\ i # 1
      BY <2>1 DEF Ordered
    <3> QED
      BY <1>1, <3>1
  <2> QED
    BY <2>2 DEF InPlan
<1>9. ~ InPlan("tag", <<>>)
  BY EmptySeq DEF InPlan
<1> QED
  BY <1>2, <1>3, <1>5, <1>6, <1>7, <1>8, <1>9

(***************************************************************************)
(* The locals of on_settled, as its steps change them.                     *)
(***************************************************************************)
LEMMA NoCycleFacts ==
  /\ NoCycle \in Cycle /\ NoCycle.key = None /\ NoCycle.todo = {} /\ NoCycle.tries = 0
  /\ NoCycle.hops = 0 /\ NoCycle.heads = <<>>
<1>1. <<>> \in Seq(Conns) /\ <<>> \in Seq(Verbs)
  BY EmptySeq
<1> QED
  BY <1>1 DEF NoCycle, Cycle

LEMMA CycleFinished ==
  ASSUME NEW c \in Cycle, NEW d,
         d = [c EXCEPT !.key = None, !.plan = <<>>, !.target = 0, !.hops = 0, !.tries = 0, !.ok = TRUE]
  PROVE  /\ d \in Cycle /\ d.todo = c.todo /\ d.key = None /\ d.tries = 0 /\ d.hops = 0
         /\ d.heads = c.heads
<1>1. <<>> \in Seq(Verbs)
  BY EmptySeq
<1> QED
  BY <1>1 DEF Cycle

(* Outside of a cycle there is nothing to keep of one. *)
LEMMA OutOfCycle == ~ InCycle' => CalmInv'
BY DEF CalmInv, InCycle, Restoring

LEMMA AtRest ==
  ASSUME pc' \in {"idle", "sweep", "capture"}, cyc' = NoCycle
  PROVE  CycleInv' /\ CalmInv'
<1>1. ~ InCycle' /\ ~ Restoring' /\ pc' \in Points /\ pc' \notin {"guard", "where"}
  BY DEF InCycle, Restoring, Points
<1>2. Len(<<>>) = 0 /\ Len(XOrder) \in Nat
  BY OrderAssumption, LenProperties
<1>3. CycleInv'
  BY <1>1, <1>2, NoCycleFacts, BoundAssumption DEF CycleInv
<1> QED
  BY <1>1, <1>3, OutOfCycle

LEMMA EndedKeeps ==
  ASSUME NEW c, Ended(c)
  PROVE  CycleInv' /\ CalmInv'
BY AtRest DEF Ended, Goto

(* The window is finished with. *)
LEMMA FinishKeeps ==
  ASSUME MemoryInv, CycleInv, Restoring, NEW c \in Cycle, Finish(c),
         c.key = cyc.key, c.todo = cyc.todo, c.heads = cyc.heads
  PROVE  /\ CycleInv' /\ IsMap(displaced', Owners, WindowRecord) /\ pc' = "next"
         /\ cyc'.heads = cyc.heads /\ DOMAIN displaced \ DOMAIN displaced' \subseteq {cyc.key}
         /\ ~ c.ok => displaced' = displaced
<1>1. /\ displaced' = IF c.ok THEN Drop(displaced, {c.key}) ELSE displaced
      /\ pc' = "next"
      /\ cyc' = [c EXCEPT !.key = None, !.plan = <<>>, !.target = 0, !.hops = 0, !.tries = 0,
                          !.ok = TRUE]
  BY DEF Finish, Goto
<1>2. /\ cyc' \in Cycle /\ cyc'.todo = c.todo /\ cyc'.key = None /\ cyc'.tries = 0
      /\ cyc'.hops = 0 /\ cyc'.heads = c.heads
  BY <1>1, CycleFinished
<1>3. IsMap(displaced, Owners, WindowRecord)
  BY DEF MemoryInv
<1>4. IsMap(displaced', Owners, WindowRecord)
      /\ DOMAIN displaced \ {cyc.key} \subseteq DOMAIN displaced'
      /\ (~ c.ok => displaced' = displaced)
  <2>1. CASE c.ok
    <3>1. displaced' = Drop(displaced, {cyc.key})
      BY <1>1, <2>1
    <3>2. IsMap(displaced', Owners, WindowRecord) /\ DOMAIN displaced' = DOMAIN displaced \ {cyc.key}
      BY <1>3, <3>1, DropMap
    <3> QED
      BY <2>1, <3>2
  <2>2. CASE ~ c.ok
    BY <1>1, <1>3, <2>2
  <2> QED
    BY <2>1, <2>2
<1>5. ~ Restoring' /\ pc' \in Points /\ pc' \notin {"guard", "where"}
  BY <1>1 DEF Restoring, Points
<1>6. cyc'.todo \subseteq DOMAIN displaced' \ {cyc'.key}
  <2>1. cyc.todo \subseteq DOMAIN displaced \ {cyc.key} /\ DOMAIN displaced \subseteq Owners
    BY <1>3 DEF CycleInv, IsMap
  <2> QED
    BY <1>2, <1>4, <2>1, NoneAssumption
<1>7. cyc'.tries < TRIES /\ cyc'.hops <= Len(XOrder) /\ Len(cyc'.heads) <= Len(XOrder)
  <2>1. Len(XOrder) \in Nat
    BY OrderAssumption, LenProperties
  <2> QED
    BY <1>2, <2>1, BoundAssumption DEF CycleInv
<1>8. CycleInv'
  BY <1>2, <1>5, <1>6, <1>7 DEF CycleInv
<1> QED
  BY <1>1, <1>2, <1>4, <1>8

(* What a step of the restore has to leave behind, if nobody interfered. *)
Took(ok) ==
  calm' => /\ calm /\ win'[Rec.win] # None /\ win'[Rec.win].owner = cyc.key
           /\ ok /\ cyc.target # 0 => win'[Rec.win].mon = cyc.target
           /\ ok /\ ~ InPlan("tag", Tail(cyc.plan)) /\ ~ astray' => win'[Rec.win].tag = Rec.tag

(* A record that goes had its window brought back. *)
BroughtBack(rec) == BackOnOutput(rec) /\ (BackOnTag(rec) \/ astray')
Kept == \A p \in Owners : Reported(p) /\ cyc.target # 0 => BroughtBack(displaced[p])

LEMMA AdvanceKeeps ==
  ASSUME MonsInv, MemoryInv, CycleInv, CalmInv, Restoring, NEW accepted \in BOOLEAN,
         Advance(accepted), mons' = mons, Took(cyc.ok /\ (accepted \/ Verb \notin Essential))
  PROVE  CycleInv' /\ IsMap(displaced', Owners, WindowRecord) /\ CalmInv' /\ Kept
<1>1. PICK o \in BOOLEAN : o = (cyc.ok /\ (accepted \/ Verb \notin Essential))
  OBVIOUS
<1>2. PICK P : P = Tail(cyc.plan)
  OBVIOUS
<1>3. cyc \in Cycle /\ cyc.key \in DOMAIN displaced /\ cyc.plan # <<>> /\ Ordered(cyc.plan)
  BY DEF CycleInv
<1>4. cyc.plan \in Seq(Verbs)
  BY <1>3 DEF Cycle
<1>5. P \in Seq(Verbs) /\ Ordered(P) /\ ~ InPlan("tagmon", P) /\ ~ InPlan("tag", <<>>)
  BY <1>2, <1>3, <1>4, PlanStep
<1>6. PICK c : c = [cyc EXCEPT !.ok = o, !.plan = P, !.tries = 0]
  OBVIOUS
<1>7. c = [cyc EXCEPT !.ok = @ /\ (accepted \/ Verb \notin Essential), !.plan = Tail(@), !.tries = 0]
  BY <1>1, <1>2, <1>6
<1>8. IF c.plan = <<>> THEN Finish(c) ELSE Goto("focus", c) /\ UNCHANGED displaced
  BY <1>7 DEF Advance
<1>9. /\ c \in Cycle /\ c.todo = cyc.todo /\ c.key = cyc.key /\ c.tries = 0 /\ c.hops = cyc.hops
      /\ c.heads = cyc.heads /\ c.target = cyc.target /\ c.ok = o /\ c.plan = P
  <2>1. cyc \in Cycle /\ P \in Seq(Verbs) /\ o \in BOOLEAN
    BY <1>1, <1>3, <1>5
  <2> QED
    BY <1>6, <2>1 DEF Cycle
<1>10. Took(o)
  BY <1>1
<1>11. CASE P = <<>>
  <2>1. Finish(c)
    BY <1>8, <1>9, <1>11
  <2>2. /\ CycleInv' /\ IsMap(displaced', Owners, WindowRecord) /\ pc' = "next"
        /\ cyc'.heads = cyc.heads /\ DOMAIN displaced \ DOMAIN displaced' \subseteq {cyc.key}
        /\ ~ o => displaced' = displaced
    BY <1>9, <2>1, FinishKeeps
  <2>3. CalmInv'
    <3>1. calm' => cyc'.heads = mons'
      BY <1>10, <2>2 DEF Took, CalmInv, InCycle
    <3>2. InCycle' /\ ~ Restoring' /\ pc' \notin {"guard", "verb"}
      BY <2>2 DEF InCycle, Restoring
    <3> QED
      BY <3>1, <3>2 DEF CalmInv
  <2>4. Kept
    <3> SUFFICES ASSUME NEW p \in Owners, Reported(p), cyc.target # 0 PROVE BroughtBack(displaced[p])
      BY DEF Kept
    <3>1. p = cyc.key /\ o /\ calm'
      BY <2>2 DEF Reported
    <3>2. /\ calm /\ win'[Rec.win].mon = cyc.target
          /\ win'[Rec.win].tag = Rec.tag \/ astray'
      BY <1>2, <1>5, <1>10, <1>11, <3>1 DEF Took
    <3>3. cyc.target \in 1..Len(mons) /\ mons[cyc.target] = Rec.output
      BY <3>2 DEF CalmInv, Progress
    <3>4. DOMAIN mons = 1..Len(mons)
      BY LenProperties DEF MonsInv
    <3> QED
      BY <3>1, <3>2, <3>3, <3>4 DEF BroughtBack, BackOnOutput, BackOnTag, Rec
  <2> QED
    BY <2>2, <2>3, <2>4
<1>12. CASE P # <<>>
  <2>1. pc' = "focus" /\ cyc' = c /\ displaced' = displaced
    BY <1>8, <1>9, <1>12 DEF Goto
  <2>2. Restoring' /\ InCycle' /\ pc' \in Points /\ pc' \notin {"guard", "where", "verb"}
    BY <2>1 DEF InCycle, Restoring, Points
  <2>3. CycleInv'
    BY <1>3, <1>5, <1>9, <1>12, <2>1, <2>2, BoundAssumption DEF CycleInv
  <2>4. Rec' = Rec
    BY <1>9, <2>1 DEF Rec
  <2>5. CalmInv'
    <3> SUFFICES ASSUME calm' PROVE /\ cyc'.heads = mons' /\ win'[Rec.win] # None
                                    /\ win'[Rec.win].owner = cyc'.key
                                    /\ Progress(win, cyc, Rec)'
      BY <2>2, <2>4 DEF CalmInv
    <3>1. /\ calm /\ win'[Rec.win] # None /\ win'[Rec.win].owner = cyc.key
          /\ o /\ cyc.target # 0 => win'[Rec.win].mon = cyc.target
          /\ o /\ ~ InPlan("tag", P) /\ ~ astray' => win'[Rec.win].tag = Rec.tag
      BY <1>2, <1>10 DEF Took
    <3>2. /\ cyc.heads = mons
          /\ cyc.target # 0 => cyc.target \in 1..Len(mons) /\ mons[cyc.target] = Rec.output
      BY <3>1 DEF CalmInv, InCycle, Progress
    <3>3. /\ cyc'.heads = cyc.heads /\ cyc'.target = cyc.target /\ cyc'.ok = o /\ cyc'.plan = P
          /\ cyc'.key = cyc.key
      BY <1>9, <2>1
    <3>4. Progress(win, cyc, Rec)'
      BY <2>4, <3>1, <3>2, <3>3 DEF Progress
    <3> QED
      BY <3>1, <3>2, <3>3, <3>4
  <2>6. Kept
    BY <2>1 DEF Kept, Reported
  <2> QED
    BY <1>3, <2>1, <2>3, <2>5, <2>6 DEF MemoryInv
<1> QED
  BY <1>11, <1>12

(* The focus never came: what is left is not essential, or the record stays. *)
LEMMA UnconfirmedKeeps ==
  ASSUME MonsInv, MemoryInv, CycleInv, CalmInv, Restoring, Unconfirmed,
         mons' = mons, win' = win, calm' = calm, astray' = astray
  PROVE  CycleInv' /\ IsMap(displaced', Owners, WindowRecord) /\ CalmInv' /\ Kept
<1>1. PICK o \in BOOLEAN : o = (cyc.ok /\ Verb \notin Essential)
  OBVIOUS
<1>2. cyc \in Cycle /\ cyc.key \in DOMAIN displaced /\ cyc.plan # <<>> /\ Ordered(cyc.plan)
  BY DEF CycleInv
<1>3. PICK c : c = [cyc EXCEPT !.ok = o]
  OBVIOUS
<1>4. c = [cyc EXCEPT !.ok = @ /\ Verb \notin Essential]
  BY <1>1, <1>3
<1>5. Finish(c)
  BY <1>4 DEF Unconfirmed
<1>6. c \in Cycle /\ c.todo = cyc.todo /\ c.key = cyc.key /\ c.heads = cyc.heads /\ (c.ok <=> o)
  BY <1>2, <1>3 DEF Cycle
<1>7. /\ CycleInv' /\ IsMap(displaced', Owners, WindowRecord) /\ pc' = "next"
      /\ cyc'.heads = cyc.heads /\ DOMAIN displaced \ DOMAIN displaced' \subseteq {cyc.key}
      /\ ~ o => displaced' = displaced
  BY <1>5, <1>6, FinishKeeps
<1>8. CalmInv'
  <2>1. calm' => cyc'.heads = mons'
    BY <1>7 DEF CalmInv, InCycle
  <2>2. InCycle' /\ ~ Restoring' /\ pc' \notin {"guard", "verb"}
    BY <1>7 DEF InCycle, Restoring
  <2> QED
    BY <2>1, <2>2 DEF CalmInv
<1>9. Kept
  <2> SUFFICES ASSUME NEW p \in Owners, Reported(p), cyc.target # 0 PROVE BroughtBack(displaced[p])
    BY DEF Kept
  <2>1. p = cyc.key /\ o /\ calm
    BY <1>7 DEF Reported
  <2>2. cyc.ok /\ Verb \notin Essential
    BY <1>1, <2>1
  <2>3. cyc.plan \in Seq(Verbs) /\ Verb = Head(cyc.plan) /\ Verb # "tagmon"
    BY <1>2, <2>2 DEF Cycle, Verb, Essential
  <2>4. ~ InPlan("tagmon", cyc.plan) /\ ~ InPlan("tag", cyc.plan)
    BY <1>2, <2>2, <2>3, PlanStep
  <2>5. /\ cyc.target \in 1..Len(mons) /\ mons[cyc.target] = Rec.output
        /\ win[Rec.win].mon = cyc.target /\ (win[Rec.win].tag = Rec.tag \/ astray)
    BY <2>1, <2>2, <2>4 DEF CalmInv, Progress
  <2>6. DOMAIN mons = 1..Len(mons)
    BY LenProperties DEF MonsInv
  <2> QED
    BY <2>1, <2>5, <2>6 DEF BroughtBack, BackOnOutput, BackOnTag, Rec
<1> QED
  BY <1>7, <1>8, <1>9

(* The restore of this window goes on. *)
GoesOn ==
  /\ Restoring /\ pc' \in {"focus", "poll", "guard", "verb", "where"} /\ displaced' = displaced
  /\ mons' = mons /\ (calm' => calm) /\ (astray => astray')
  /\ cyc' \in Cycle /\ cyc'.todo = cyc.todo /\ cyc'.key = cyc.key /\ cyc'.heads = cyc.heads
  /\ cyc'.target = cyc.target /\ cyc'.plan = cyc.plan /\ cyc'.ok = cyc.ok
  /\ cyc'.tries < TRIES /\ cyc'.hops <= Len(XOrder)
  /\ pc' \in {"guard", "where"} => Verb = "tagmon"

LEMMA GoesOnCycle ==
  ASSUME CycleInv, GoesOn
  PROVE  CycleInv' /\ Kept /\ Rec' = Rec /\ Verb' = Verb
<1>1. Restoring' /\ pc' \in Points
  BY DEF GoesOn, Restoring, Points
<1>2. Rec' = Rec /\ Verb' = Verb
  BY DEF GoesOn, Rec, Verb
<1>3. CycleInv'
  BY <1>1, <1>2 DEF GoesOn, CycleInv
<1>4. Kept
  BY DEF GoesOn, Kept, Reported
<1> QED
  BY <1>2, <1>3, <1>4

LEMMA GoesOnCalm ==
  ASSUME CycleInv, CalmInv, GoesOn, win' = win,
         calm' /\ pc' \in {"guard", "verb"} => selected_confirmed(Rec.win)',
         calm' /\ pc' = "verb" /\ Verb = "tagmon" => ~ tagmon_crash_risk(Rec.win)'
  PROVE  CalmInv'
<1>1. Rec' = Rec /\ Verb' = Verb
  BY GoesOnCycle
<1>2. calm' => /\ cyc'.heads = mons' /\ win'[Rec'.win] # None /\ win'[Rec'.win].owner = cyc'.key
  BY <1>1 DEF GoesOn, CalmInv, InCycle
<1>3. calm' => Progress(win, cyc, Rec)'
  <2> SUFFICES ASSUME calm' PROVE Progress(win, cyc, Rec)'
    OBVIOUS
  <2>1. Progress(win, cyc, Rec)
    BY DEF GoesOn, CalmInv
  <2> QED
    BY <1>1, <2>1 DEF GoesOn, Progress
<1> QED
  BY <1>1, <1>2, <1>3 DEF CalmInv

(***************************************************************************)
(* The steps of a restore.                                                 *)
(***************************************************************************)
LEMMA DwmSame ==
  ASSUME MonsInv, ClientsInv, UNCHANGED <<lit, mons, win, sel, view, selmon>>
  PROVE  MonsInv' /\ ClientsInv'
BY DEF MonsInv, ClientsInv

LEMMA TookNothing ==
  ASSUME CalmInv, Restoring, win' = win, calm' => calm, NEW ok, ~ ok
  PROVE  Took(ok)
BY DEF CalmInv, Took

LEMMA RecType ==
  ASSUME MemoryInv, CycleInv, Restoring
  PROVE  /\ Rec \in WindowRecord /\ Rec.win \in Wins /\ Rec.tag \in Tags
         /\ cyc \in Cycle /\ cyc.plan \in Seq(Verbs) /\ cyc.plan # <<>> /\ Ordered(cyc.plan)
         /\ Verb = Head(cyc.plan) /\ Verb \in Verbs
<1>1. Rec \in WindowRecord
  BY DEF MemoryInv, CycleInv, IsMap, Rec
<1>2. Rec.win \in Wins /\ Rec.tag \in Tags
  BY <1>1 DEF WindowRecord
<1>3. cyc \in Cycle /\ cyc.plan # <<>> /\ Ordered(cyc.plan) /\ Verb = Head(cyc.plan)
  BY DEF CycleInv, Verb
<1>4. cyc.plan \in Seq(Verbs)
  BY <1>3 DEF Cycle
<1>5. Verb \in Verbs
  BY <1>3, <1>4, PlanStep
<1> QED
  BY <1>1, <1>2, <1>3, <1>4, <1>5

LEMMA FocusKeeps ==
  ASSUME IInv, Focus
  PROVE  IInv' /\ Kept
<1>1. MonsInv /\ ClientsInv /\ MemoryInv /\ CycleInv /\ CalmInv /\ Restoring
  BY DEF IInv, Focus, Restoring
<1>2. MonsInv' /\ ClientsInv'
  BY <1>1, DwmSame DEF Focus
<1>3. cyc' = [cyc EXCEPT !.stole = TRUE, !.tries = 0] /\ pc' = "poll" /\ displaced' = displaced
      /\ mons' = mons /\ win' = win /\ calm' = calm /\ astray' = astray
  BY DEF Focus, Goto, memVars
<1>4. /\ cyc' \in Cycle /\ cyc'.todo = cyc.todo /\ cyc'.key = cyc.key /\ cyc'.heads = cyc.heads
      /\ cyc'.target = cyc.target /\ cyc'.plan = cyc.plan /\ cyc'.ok = cyc.ok
      /\ cyc'.tries = 0 /\ cyc'.hops = cyc.hops
  BY <1>1, <1>3 DEF CycleInv, Cycle
<1>5. GoesOn
  BY <1>1, <1>3, <1>4, BoundAssumption DEF GoesOn, CycleInv
<1>6. CycleInv' /\ Kept
  BY <1>1, <1>5, GoesOnCycle
<1>7. CalmInv'
  BY <1>1, <1>3, <1>5, GoesOnCalm
<1>8. MemoryInv'
  BY <1>1, RecType DEF Focus, MemoryInv, memVars
<1> QED
  BY <1>2, <1>6, <1>7, <1>8 DEF IInv

LEMMA PollKeeps ==
  ASSUME IInv, Poll
  PROVE  IInv' /\ Kept
<1>1. MonsInv /\ ClientsInv /\ MemoryInv /\ CycleInv /\ CalmInv /\ Restoring
  BY DEF IInv, Poll, Restoring
<1>2. /\ UNCHANGED <<lit, mons, win, sel, view, selmon>> /\ calm' = calm /\ astray' = astray
      /\ UNCHANGED <<asked, prev, snapshot, focus>>
  BY DEF Poll, dwmVars
<1>3. MonsInv' /\ ClientsInv'
  BY <1>1, <1>2, DwmSame
<1>4. CASE /\ selected_confirmed(Rec.win) /\ displaced' = displaced
           /\ Goto(IF Verb = "tagmon" THEN "guard" ELSE "verb", cyc)
  <2>1. /\ pc' \in {"guard", "verb"} /\ (pc' = "guard" => Verb = "tagmon")
        /\ (pc' = "verb" => Verb # "tagmon") /\ cyc' = cyc
    BY <1>4 DEF Goto
  <2>2. GoesOn
    BY <1>1, <1>2, <1>4, <2>1 DEF GoesOn, CycleInv
  <2>3. CycleInv' /\ Kept /\ Rec' = Rec
    BY <1>1, <2>2, GoesOnCycle
  <2>4. selected_confirmed(Rec.win)'
    BY <1>2, <1>4, <2>3 DEF selected_confirmed
  <2>5. CalmInv'
    BY <1>1, <1>2, <2>1, <2>2, <2>4, GoesOnCalm
  <2>6. MemoryInv'
    BY <1>1, <1>2, <1>4 DEF MemoryInv
  <2> QED
    BY <1>3, <2>3, <2>5, <2>6 DEF IInv
<1>5. CASE Unconfirmed
  <2>1. CycleInv' /\ IsMap(displaced', Owners, WindowRecord) /\ CalmInv' /\ Kept
    BY <1>1, <1>2, <1>5, UnconfirmedKeeps
  <2>2. MemoryInv'
    BY <1>1, <1>2, <2>1 DEF MemoryInv
  <2> QED
    BY <1>3, <2>1, <2>2 DEF IInv
<1>6. CASE /\ ~ (Tried(cyc.tries) >= TRIES) /\ displaced' = displaced
           /\ Goto("poll", [cyc EXCEPT !.tries = Tried(@)])
  <2>1. cyc' = [cyc EXCEPT !.tries = cyc.tries + 1] /\ pc' = "poll" /\ cyc \in Cycle
    BY <1>1, <1>6 DEF Goto, Tried, CycleInv
  <2>2. cyc.tries \in Nat /\ cyc.tries + 1 < TRIES
    BY <1>6, <2>1, BoundAssumption DEF Cycle, Tried
  <2>3. /\ cyc' \in Cycle /\ cyc'.todo = cyc.todo /\ cyc'.key = cyc.key /\ cyc'.heads = cyc.heads
        /\ cyc'.target = cyc.target /\ cyc'.plan = cyc.plan /\ cyc'.ok = cyc.ok
        /\ cyc'.tries = cyc.tries + 1 /\ cyc'.hops = cyc.hops
    <3>1. PICK k \in Nat : k = cyc.tries + 1
      BY <2>2
    <3>2. cyc' = [cyc EXCEPT !.tries = k] /\ cyc \in Cycle
      BY <2>1, <3>1
    <3> QED
      BY <3>1, <3>2 DEF Cycle
  <2>4. GoesOn
    BY <1>1, <1>2, <1>6, <2>1, <2>2, <2>3 DEF GoesOn, CycleInv
  <2>5. CycleInv' /\ Kept
    BY <1>1, <2>4, GoesOnCycle
  <2>6. CalmInv'
    BY <1>1, <1>2, <2>1, <2>4, GoesOnCalm
  <2>7. MemoryInv'
    BY <1>1, <1>2, <1>6 DEF MemoryInv
  <2> QED
    BY <1>3, <2>5, <2>6, <2>7 DEF IInv
<1> QED
  BY <1>4, <1>5, <1>6 DEF Poll

LEMMA GuardKeeps ==
  ASSUME IInv, Guard
  PROVE  IInv' /\ Kept
<1>1. MonsInv /\ ClientsInv /\ MemoryInv /\ CycleInv /\ CalmInv /\ Restoring /\ Verb = "tagmon"
  BY DEF IInv, Guard, Restoring, CycleInv
<1>2. /\ UNCHANGED <<lit, mons, win, sel, view, selmon>> /\ calm' = calm /\ astray' = astray
      /\ UNCHANGED <<asked, prev, snapshot, focus>>
  BY DEF Guard, dwmVars
<1>3. MonsInv' /\ ClientsInv'
  BY <1>1, <1>2, DwmSame
<1>4. CASE ~ tagmon_crash_risk(Rec.win) /\ Goto("verb", cyc) /\ displaced' = displaced
  <2>1. GoesOn /\ pc' = "verb"
    BY <1>1, <1>2, <1>4 DEF GoesOn, CycleInv, Goto
  <2>2. CycleInv' /\ Kept /\ Rec' = Rec
    BY <1>1, <2>1, GoesOnCycle
  <2>3. calm' => selected_confirmed(Rec.win)'
    <3>1. calm => selected_confirmed(Rec.win)
      BY <1>1 DEF Guard, CalmInv
    <3> QED
      BY <1>2, <2>2, <3>1 DEF selected_confirmed
  <2>4. ~ tagmon_crash_risk(Rec.win)'
    BY <1>2, <1>4, <2>2 DEF tagmon_crash_risk, Visible, Tiled, On, NextMon
  <2>5. CalmInv'
    BY <1>1, <1>2, <2>1, <2>3, <2>4, GoesOnCalm
  <2>6. MemoryInv'
    BY <1>1, <1>2, <1>4 DEF MemoryInv
  <2> QED
    BY <1>3, <2>2, <2>5, <2>6 DEF IInv
<1>5. CASE Advance(FALSE)
  <2>1. ~ (cyc.ok /\ (FALSE \/ Verb \notin Essential))
    BY <1>1 DEF Essential
  <2>2. Took(cyc.ok /\ (FALSE \/ Verb \notin Essential))
    BY <1>1, <1>2, <2>1, TookNothing
  <2>3. CycleInv' /\ IsMap(displaced', Owners, WindowRecord) /\ CalmInv' /\ Kept
    BY <1>1, <1>2, <1>5, <2>2, AdvanceKeeps
  <2>4. MemoryInv'
    BY <1>1, <1>2, <2>3 DEF MemoryInv
  <2> QED
    BY <1>3, <2>3, <2>4 DEF IInv
<1> QED
  BY <1>4, <1>5 DEF Guard

LEMMA WhereKeeps ==
  ASSUME IInv, Where
  PROVE  IInv' /\ Kept
<1>1. MonsInv /\ ClientsInv /\ MemoryInv /\ CycleInv /\ CalmInv /\ Restoring /\ Verb = "tagmon"
  BY DEF IInv, Where, Restoring, CycleInv
<1>2. /\ UNCHANGED <<lit, mons, win, sel, view, selmon>> /\ calm' = calm /\ astray' = astray
      /\ UNCHANGED <<asked, prev, snapshot, focus>>
  BY DEF Where, dwmVars
<1>3. MonsInv' /\ ClientsInv'
  BY <1>1, <1>2, DwmSame
<1>4. CASE win[Rec.win] # None /\ win[Rec.win].mon = cyc.target /\ Advance(TRUE)
  <2>1. InPlan("tag", Tail(cyc.plan))
    BY <1>1, RecType, PlanStep
  <2>2. Took(cyc.ok /\ (TRUE \/ Verb \notin Essential))
    BY <1>1, <1>2, <1>4, <2>1 DEF Took, CalmInv
  <2>3. CycleInv' /\ IsMap(displaced', Owners, WindowRecord) /\ CalmInv' /\ Kept
    BY <1>1, <1>2, <1>4, <2>2, AdvanceKeeps
  <2>4. MemoryInv'
    BY <1>1, <1>2, <2>3 DEF MemoryInv
  <2> QED
    BY <1>3, <2>3, <2>4 DEF IInv
<1>5. CASE /\ cyc.hops + 1 < Len(cyc.heads) /\ displaced' = displaced
           /\ Goto("focus", [cyc EXCEPT !.hops = @ + 1])
  <2>1. cyc' = [cyc EXCEPT !.hops = cyc.hops + 1] /\ pc' = "focus" /\ cyc \in Cycle
    BY <1>1, <1>5 DEF Goto, CycleInv
  <2>2. cyc.hops \in Nat /\ cyc.hops + 1 <= Len(XOrder)
    <3>1. cyc.hops \in Nat /\ cyc.heads \in Seq(Conns) /\ Len(cyc.heads) <= Len(XOrder)
      BY <1>1, <2>1 DEF Cycle, CycleInv
    <3> QED
      BY <1>5, <3>1, OrderAssumption, LenProperties
  <2>3. /\ cyc' \in Cycle /\ cyc'.todo = cyc.todo /\ cyc'.key = cyc.key /\ cyc'.heads = cyc.heads
        /\ cyc'.target = cyc.target /\ cyc'.plan = cyc.plan /\ cyc'.ok = cyc.ok
        /\ cyc'.tries = cyc.tries /\ cyc'.hops = cyc.hops + 1
    <3>1. PICK k \in Nat : k = cyc.hops + 1
      BY <2>2
    <3>2. cyc' = [cyc EXCEPT !.hops = k] /\ cyc \in Cycle
      BY <2>1, <3>1
    <3> QED
      BY <3>1, <3>2 DEF Cycle
  <2>4. GoesOn
    BY <1>1, <1>2, <1>5, <2>1, <2>2, <2>3 DEF GoesOn, CycleInv
  <2>5. CycleInv' /\ Kept
    BY <1>1, <2>4, GoesOnCycle
  <2>6. CalmInv'
    BY <1>1, <1>2, <2>1, <2>4, GoesOnCalm
  <2>7. MemoryInv'
    BY <1>1, <1>2, <1>5 DEF MemoryInv
  <2> QED
    BY <1>3, <2>5, <2>6, <2>7 DEF IInv
<1>6. CASE Advance(FALSE)
  <2>1. ~ (cyc.ok /\ (FALSE \/ Verb \notin Essential))
    BY <1>1 DEF Essential
  <2>2. Took(cyc.ok /\ (FALSE \/ Verb \notin Essential))
    BY <1>1, <1>2, <2>1, TookNothing
  <2>3. CycleInv' /\ IsMap(displaced', Owners, WindowRecord) /\ CalmInv' /\ Kept
    BY <1>1, <1>2, <1>6, <2>2, AdvanceKeeps
  <2>4. MemoryInv'
    BY <1>1, <1>2, <2>3 DEF MemoryInv
  <2> QED
    BY <1>3, <2>3, <2>4 DEF IInv
<1> QED
  BY <1>4, <1>5, <1>6 DEF Where

(* What a command of the coordinator does, whoever it hits. *)
LEMMA CommandKeeps ==
  ASSUME MonsInv, ClientsInv, Rec.tag \in Tags, Command(Verb, Rec), lit' = lit
  PROVE  /\ MonsInv' /\ ClientsInv' /\ SameClients /\ UNCHANGED <<mons, view, selmon, asked>>
         /\ Verb # "tagmon" => \A v \in Wins : win[v] # None => win'[v].mon = win[v].mon
         /\ Verb \notin Essential => \A v \in Wins : win[v] # None => win'[v].tag = win[v].tag
         /\ Verb = "tag" /\ sel[selmon] # None => win'[sel[selmon]].tag = Rec.tag
<1>1. UNCHANGED <<mons, view, selmon, asked>>
  BY DEF Command
<1>2. MonsInv'
  BY <1>1 DEF MonsInv
<1>3. CASE Verb = "tagmon" /\ Tagmon
  BY <1>1, <1>2, <1>3, TagmonKeeps DEF Essential
<1>4. CASE Verb = "tag" /\ Tag(Rec.tag)
  <2>1. PICK t \in Tags : t = Rec.tag
    OBVIOUS
  <2>2. Tag(t)
    BY <1>4, <2>1
  <2>3. /\ ClientsInv' /\ SameClients
        /\ \A v \in Wins : win[v] # None => win'[v].mon = win[v].mon
        /\ sel[selmon] # None => win'[sel[selmon]].tag = t
    BY <1>1, <2>2, TagKeeps
  <2> QED
    BY <1>1, <1>2, <1>4, <2>1, <2>3 DEF Essential
<1>5. CASE Verb = "togglefloating" /\ ToggleFloating
  BY <1>1, <1>2, <1>5, ToggleKeeps
<1>6. CASE Verb = "configure" /\ UNCHANGED <<win, sel>>
  <2>1. ClientsInv' /\ SameClients
    BY <1>1, <1>6 DEF ClientsInv, SameClients
  <2> QED
    BY <1>1, <1>2, <1>6, <2>1
<1> QED
  BY <1>3, <1>4, <1>5, <1>6 DEF Command

LEMMA RunVerbKeeps ==
  ASSUME IInv, RunVerb
  PROVE  IInv' /\ Kept
<1>1. MonsInv /\ ClientsInv /\ MemoryInv /\ CycleInv /\ CalmInv /\ Restoring /\ lit' = lit
  BY DEF IInv, RunVerb, Restoring
<1>2. /\ Rec.win \in Wins /\ Rec.tag \in Tags /\ cyc \in Cycle /\ cyc.plan \in Seq(Verbs)
      /\ cyc.plan # <<>> /\ Ordered(cyc.plan) /\ Verb = Head(cyc.plan) /\ Verb \in Verbs
  BY <1>1, RecType
<1>3. /\ calm' => calm
      /\ ~ astray' => ~ astray /\ (Verb = "tag" => sel[selmon] = Rec.win)
  BY DEF RunVerb
<1>4. UNCHANGED <<prev, snapshot, focus>>
  BY DEF RunVerb
<1>5. \/ Command(Verb, Rec) \/ UNCHANGED dwmVars
  BY DEF RunVerb
<1>6. /\ MonsInv' /\ ClientsInv' /\ SameClients /\ mons' = mons /\ asked' = asked
      /\ Verb # "tagmon" => \A v \in Wins : win[v] # None => win'[v].mon = win[v].mon
      /\ Verb \notin Essential => \A v \in Wins : win[v] # None => win'[v].tag = win[v].tag
  <2>1. CASE Command(Verb, Rec)
    BY <1>1, <1>2, <2>1, CommandKeeps
  <2>2. CASE UNCHANGED dwmVars
    <3>1. UNCHANGED <<mons, win, sel, view, selmon, asked>>
      BY <2>2 DEF dwmVars
    <3>2. MonsInv' /\ ClientsInv' /\ SameClients
      BY <1>1, <3>1, DwmSame DEF SameClients
    <3> QED
      BY <3>1, <3>2
  <2> QED
    BY <1>5, <2>1, <2>2
<1>7. calm' => /\ calm /\ win[Rec.win] # None /\ win'[Rec.win] # None
               /\ win'[Rec.win].owner = cyc.key /\ cyc.heads = mons /\ Progress(win, cyc, Rec)
  BY <1>1, <1>2, <1>3, <1>6 DEF CalmInv, SameClients, InCycle
<1>8. /\ Verb # "tagmon" => ~ InPlan("tagmon", cyc.plan)
      /\ Verb \notin Essential => ~ InPlan("tag", cyc.plan)
      /\ Verb = "tagmon" => InPlan("tagmon", cyc.plan) /\ InPlan("tag", cyc.plan)
  BY <1>2, PlanStep
<1>9. CASE Command(Verb, Rec) /\ Verb = "tagmon" /\ Goto("where", cyc) /\ displaced' = displaced
  <2>1. GoesOn /\ pc' = "where" /\ cyc' = cyc
    BY <1>1, <1>3, <1>6, <1>9 DEF GoesOn, CycleInv, Goto
  <2>2. CycleInv' /\ Kept /\ Rec' = Rec
    BY <1>1, <2>1, GoesOnCycle
  <2>3. CalmInv'
    <3>1. calm' => Progress(win, cyc, Rec)'
      BY <1>6, <1>7, <1>8, <1>9, <2>1, <2>2 DEF Progress
    <3> QED
      BY <1>6, <1>7, <2>1, <2>2, <3>1 DEF CalmInv
  <2>4. MemoryInv'
    BY <1>1, <1>4, <1>6, <1>9 DEF MemoryInv
  <2> QED
    BY <1>6, <2>2, <2>3, <2>4 DEF IInv
<1>10. CASE Command(Verb, Rec) /\ Verb # "tagmon" /\ Advance(TRUE)
  <2>1. calm' => /\ cyc.ok /\ cyc.target # 0 => win'[Rec.win].mon = cyc.target
                 /\ cyc.ok /\ Verb # "tag" /\ ~ astray' => win'[Rec.win].tag = Rec.tag
    BY <1>2, <1>3, <1>6, <1>7, <1>8, <1>10 DEF Progress, Essential
  <2>2. ~ astray' /\ Verb = "tag" => win'[Rec.win].tag = Rec.tag
    <3> SUFFICES ASSUME ~ astray', Verb = "tag" PROVE win'[Rec.win].tag = Rec.tag
      OBVIOUS
    <3>1. sel[selmon] = Rec.win /\ sel[selmon] # None
      BY <1>2, <1>3, NoneAssumption
    <3> QED
      BY <1>1, <1>2, <1>10, <3>1, CommandKeeps
  <2>3. Took(cyc.ok /\ (TRUE \/ Verb \notin Essential))
    BY <1>7, <2>1, <2>2 DEF Took
  <2>4. CycleInv' /\ IsMap(displaced', Owners, WindowRecord) /\ CalmInv' /\ Kept
    BY <1>1, <1>6, <1>10, <2>3, AdvanceKeeps
  <2>5. MemoryInv'
    BY <1>1, <1>4, <1>6, <2>4 DEF MemoryInv
  <2> QED
    BY <1>6, <2>4, <2>5 DEF IInv
<1>11. CASE Advance(FALSE)
  <2>1. calm' /\ cyc.ok /\ Verb \notin Essential =>
          /\ cyc.target # 0 => win'[Rec.win].mon = cyc.target
          /\ ~ astray' => win'[Rec.win].tag = Rec.tag
    BY <1>2, <1>3, <1>6, <1>7, <1>8 DEF Progress, Essential
  <2>2. Took(cyc.ok /\ (FALSE \/ Verb \notin Essential))
    BY <1>7, <2>1 DEF Took
  <2>3. CycleInv' /\ IsMap(displaced', Owners, WindowRecord) /\ CalmInv' /\ Kept
    BY <1>1, <1>6, <1>11, <2>2, AdvanceKeeps
  <2>4. MemoryInv'
    BY <1>1, <1>4, <1>6, <2>3 DEF MemoryInv
  <2> QED
    BY <1>6, <2>3, <2>4 DEF IInv
<1> QED
  BY <1>9, <1>10, <1>11 DEF RunVerb

(***************************************************************************)
(* The environment, whatever the coordinator is doing.                     *)
(***************************************************************************)
LEMMA CoordinatorSame ==
  ASSUME MemoryInv, CycleInv, UNCHANGED <<memVars, pc, cyc>>, asked' \subseteq Wins
  PROVE  MemoryInv' /\ CycleInv' /\ Rec' = Rec /\ Verb' = Verb
         /\ (Restoring' <=> Restoring) /\ (InCycle' <=> InCycle)
<1>1. UNCHANGED <<prev, snapshot, focus, displaced, pc, cyc>>
  BY DEF memVars
<1>2. Rec' = Rec /\ Verb' = Verb /\ (Restoring' <=> Restoring) /\ (InCycle' <=> InCycle)
  BY <1>1 DEF Rec, Verb, Restoring, InCycle
<1> QED
  BY <1>1, <1>2 DEF MemoryInv, CycleInv

LEMMA CalmSame ==
  ASSUME CalmInv, calm' => calm, astray' = astray, UNCHANGED <<mons, win, sel, view, selmon, pc, cyc>>,
         Rec' = Rec, Verb' = Verb, Restoring' <=> Restoring, InCycle' <=> InCycle
  PROVE  CalmInv'
<1> SUFFICES ASSUME calm' PROVE CalmInv'
  BY DEF CalmInv
<1>1. calm
  OBVIOUS
<1>2. /\ selected_confirmed(Rec.win)' <=> selected_confirmed(Rec.win)
      /\ Progress(win, cyc, Rec)' <=> Progress(win, cyc, Rec)
  BY DEF selected_confirmed, Progress
<1>3. tagmon_crash_risk(Rec.win)' <=> tagmon_crash_risk(Rec.win)
  BY DEF tagmon_crash_risk, Visible, Tiled, On, NextMon
<1> QED
  BY <1>1, <1>2, <1>3 DEF CalmInv

LEMMA Unseen ==
  ASSUME IInv, UNCHANGED <<dwmVars, memVars, pc, cyc, calm, astray>>, lit' \subseteq Conns, lit' # {}
  PROVE  IInv'
<1>1. UNCHANGED <<mons, win, sel, view, selmon, asked>>
  BY DEF dwmVars
<1>2. MonsInv' /\ ClientsInv'
  BY <1>1 DEF IInv, MonsInv, ClientsInv
<1>3. /\ MemoryInv' /\ CycleInv' /\ Rec' = Rec /\ Verb' = Verb
      /\ (Restoring' <=> Restoring) /\ (InCycle' <=> InCycle)
  BY <1>1, CoordinatorSame DEF IInv, MemoryInv
<1>4. CalmInv'
  BY <1>1, <1>3, CalmSame DEF IInv
<1> QED
  BY <1>2, <1>3, <1>4 DEF IInv

LEMMA HotplugKeeps ==
  ASSUME IInv, NEW c \in Conns, Hotplug(c)
  PROVE  IInv'
<1>1. lit' \subseteq Conns /\ lit' # {}
  BY DEF Hotplug, IInv, MonsInv
<1> QED
  BY <1>1, Unseen DEF Hotplug

LEMMA SigtermKeeps ==
  ASSUME IInv, Sigterm
  PROVE  IInv'
BY Unseen DEF Sigterm, IInv, MonsInv

(* Whoever interferes with a cycle takes the calm from it. *)
LEMMA InterferenceSeen ==
  ASSUME MemoryInv, CycleInv, Interfere, UNCHANGED <<asked, memVars, pc, cyc>>
  PROVE  MemoryInv' /\ CycleInv' /\ CalmInv'
<1>1. MemoryInv' /\ CycleInv' /\ (Restoring' <=> Restoring) /\ (InCycle' <=> InCycle)
  BY CoordinatorSame DEF MemoryInv
<1>2. calm' => ~ InCycle'
  BY <1>1 DEF Interfere
<1> QED
  BY <1>1, <1>2, OutOfCycle DEF CalmInv

LEMMA DwmSyncKeeps ==
  ASSUME IInv, DwmSync
  PROVE  IInv'
<1>1. MonsInv' /\ ClientsInv'
  BY SyncKeeps DEF IInv
<1>2. MemoryInv' /\ CycleInv' /\ CalmInv'
  BY InterferenceSeen DEF IInv, DwmSync
<1> QED
  BY <1>1, <1>2 DEF IInv

LEMMA AnyUserKeeps ==
  ASSUME IInv, User
  PROVE  IInv'
<1>1. MonsInv' /\ ClientsInv'
  BY UserKeeps DEF IInv
<1>2. MemoryInv' /\ CycleInv' /\ CalmInv'
  BY InterferenceSeen DEF IInv, User
<1> QED
  BY <1>1, <1>2 DEF IInv

(* dwm focusing the window the cycle waits for is what the cycle waits for. *)
LEMMA DwmFocusKeeps ==
  ASSUME IInv, NEW w \in Wins, DwmFocus(w)
  PROVE  IInv'
<1>1. MonsInv /\ ClientsInv /\ MemoryInv /\ CycleInv /\ CalmInv
  BY DEF IInv
<1>2. /\ UNCHANGED <<lit, mons, win>> /\ asked' \subseteq Wins /\ UNCHANGED <<memVars, pc, cyc>>
      /\ calm' = (calm /\ (Restoring => w = Rec.win)) /\ astray' = astray
  BY <1>1 DEF DwmFocus, MemoryInv
<1>3. /\ MemoryInv' /\ CycleInv' /\ Rec' = Rec /\ Verb' = Verb
      /\ (Restoring' <=> Restoring) /\ (InCycle' <=> InCycle)
  BY <1>1, <1>2, CoordinatorSame
<1>4. UNCHANGED <<displaced, pc, cyc>>
  BY <1>2 DEF memVars
<1>5. CASE win[w] # None /\ sel[selmon] # w /\ FocusWin(w)
  <2>1. /\ ClientsInv' /\ selmon' = win[w].mon /\ selmon' \in 1..Len(mons)
        /\ sel'[win[w].mon] = w /\ view'[win[w].mon] = win[w].tag
        /\ \A m \in Nums : m # win[w].mon => sel'[m] = sel[m] /\ view'[m] = view[m]
    BY <1>1, <1>2, <1>5, FocusWinKeeps
  <2>2. MonsInv'
    BY <1>1, <1>2, <2>1 DEF MonsInv
  <2>3. CalmInv'
    <3> SUFFICES ASSUME calm' PROVE CalmInv'
      BY DEF CalmInv
    <3>1. calm /\ (Restoring => w = Rec.win)
      BY <1>2
    <3>2. CASE ~ Restoring
      <4>1. pc \notin {"guard", "verb"}
        BY <3>2 DEF Restoring
      <4> QED
        BY <1>1, <1>2, <1>3, <1>4, <3>1, <3>2, <4>1 DEF CalmInv
    <3>3. CASE Restoring
      <4>1. selected_confirmed(Rec.win)'
        BY <1>2, <1>3, <2>1, <3>1, <3>3 DEF selected_confirmed
      <4>2. Progress(win, cyc, Rec)'
        BY <1>1, <1>2, <1>3, <1>4, <3>1, <3>3 DEF CalmInv, Progress
      <4>3. pc = "verb" /\ Verb = "tagmon" => ~ tagmon_crash_risk(Rec.win)'
        <5> SUFFICES ASSUME pc = "verb", Verb = "tagmon" PROVE ~ tagmon_crash_risk(Rec.win)'
          OBVIOUS
        <5>1. selected_confirmed(w) /\ ~ tagmon_crash_risk(w)
          BY <1>1, <3>1, <3>3 DEF CalmInv
        <5>2. PICK k \in 1..Len(mons) : sel[k] = w
          BY <5>1 DEF selected_confirmed
        <5>3. k \in Nums /\ win[w].mon = k /\ win[w].tag = view[k]
          BY <1>1, <1>5, <5>2, NoneAssumption, SelmonType DEF ClientsInv
        <5>4. view' = view
          <6>1. view' = [view EXCEPT ![k] = view[k]]
            BY <1>5, <5>3 DEF FocusWin
          <6> QED
            BY <1>1, <5>3, <6>1 DEF ClientsInv
        <5> QED
          BY <1>2, <1>3, <3>1, <3>3, <5>1, <5>4
             DEF tagmon_crash_risk, Visible, Tiled, On, NextMon
      <4> QED
        BY <1>1, <1>2, <1>3, <1>4, <3>1, <3>3, <4>1, <4>2, <4>3 DEF CalmInv
    <3> QED
      BY <3>2, <3>3
  <2> QED
    BY <1>3, <2>1, <2>2, <2>3 DEF IInv
<1>6. CASE UNCHANGED <<selmon, sel, view>>
  <2>1. MonsInv' /\ ClientsInv'
    BY <1>1, <1>2, <1>6, DwmSame
  <2>2. CalmInv'
    <3>1. calm' => calm
      BY <1>2
    <3> QED
      BY <1>1, <1>2, <1>3, <1>4, <1>6, <3>1, CalmSame
  <2> QED
    BY <1>3, <2>1, <2>2 DEF IInv
<1> QED
  BY <1>5, <1>6 DEF DwmFocus

(***************************************************************************)
(* The rest of on_settled.                                                 *)
(***************************************************************************)
LEMMA SettleKeeps ==
  ASSUME IInv, Settle
  PROVE  IInv'
<1>1. MonsInv /\ ClientsInv /\ MemoryInv /\ CycleInv /\ CalmInv
  BY DEF IInv
<1>2. /\ UNCHANGED <<lit, mons, win, sel, view, selmon, asked, snapshot, focus>> /\ prev' = lit
      /\ lit \subseteq Conns
  BY <1>1 DEF Settle, dwmVars, MonsInv
<1>3. MonsInv' /\ ClientsInv'
  BY <1>1, <1>2, DwmSame
<1>4. CASE prev = None
  <2>1. pc' = "capture" /\ cyc' = NoCycle /\ displaced' = displaced
    BY <1>4 DEF Settle, Goto
  <2>2. CycleInv' /\ CalmInv'
    BY <2>1, AtRest
  <2>3. MemoryInv'
    BY <1>1, <1>2, <2>1 DEF MemoryInv
  <2> QED
    BY <1>3, <2>2, <2>3 DEF IInv
<1>5. CASE prev # None
  <2>1. PICK removed : removed = prev \ lit
    OBVIOUS
  <2>2. PICK returned \in SUBSET Conns : returned = lit \ prev
    BY <1>2
  <2>3. PICK b \in BOOLEAN : b = (removed = {})
    OBVIOUS
  <2>4. PICK O \in SUBSET Conns : O = lit
    BY <1>2
  <2>5. PICK c : c = [NoCycle EXCEPT !.outs = O, !.returned = returned, !.steady = b]
    OBVIOUS
  <2>6. /\ displaced' = Over(displaced, RecordedOn(removed))
        /\ IF returned # {} THEN Goto("entry", c) ELSE Ended(c)
    BY <1>5, <2>1, <2>2, <2>3, <2>4, <2>5 DEF Settle
  <2>7. IsMap(RecordedOn(removed), Owners, WindowRecord)
    BY <1>1 DEF MemoryInv, IsMap, RecordedOn
  <2>8. MemoryInv'
    <3>1. IsMap(displaced', Owners, WindowRecord)
      BY <1>1, <2>6, <2>7, OverMap DEF MemoryInv
    <3> QED
      BY <1>1, <1>2, <3>1 DEF MemoryInv
  <2>9. CASE returned # {}
    <3>1. pc' = "entry" /\ cyc' = c
      BY <2>6, <2>9 DEF Goto
    <3>2. /\ c \in Cycle /\ c.key = None /\ c.todo = {} /\ c.tries = 0 /\ c.hops = 0
          /\ c.heads = <<>>
      BY <2>2, <2>3, <2>4, <2>5, NoCycleFacts DEF Cycle
    <3>3. ~ InCycle' /\ ~ Restoring' /\ pc' \in Points /\ pc' \notin {"guard", "where"}
      BY <3>1 DEF InCycle, Restoring, Points
    <3>4. Len(<<>>) = 0 /\ Len(XOrder) \in Nat
      BY OrderAssumption, LenProperties
    <3>5. CycleInv'
      BY <3>1, <3>2, <3>3, <3>4, BoundAssumption DEF CycleInv
    <3> QED
      BY <1>3, <2>8, <3>3, <3>5, OutOfCycle DEF IInv
  <2>10. CASE returned = {}
    BY <1>3, <2>6, <2>8, <2>10, EndedKeeps DEF IInv
  <2> QED
    BY <2>9, <2>10
<1> QED
  BY <1>4, <1>5

LEMMA EntryKeeps ==
  ASSUME IInv, Entry
  PROVE  IInv'
<1>1. MonsInv /\ ClientsInv /\ MemoryInv /\ CycleInv /\ ~ Restoring
  BY DEF IInv, Entry, Restoring
<1>2. UNCHANGED <<lit, mons, win, sel, view, selmon, asked, prev, snapshot, focus, displaced>>
  BY DEF Entry, dwmVars, memVars
<1>3. MonsInv' /\ ClientsInv' /\ MemoryInv'
  BY <1>1, <1>2, DwmSame DEF MemoryInv
<1>4. CASE Ended(cyc)
  BY <1>3, <1>4, EndedKeeps DEF IInv
<1>5. CASE Goto("next", [cyc EXCEPT !.heads = mons,
              !.todo = {p \in DOMAIN displaced : displaced[p].output \in cyc.returned}])
  <2>1. PICK T : T = {p \in DOMAIN displaced : displaced[p].output \in cyc.returned}
    OBVIOUS
  <2>2. T \in SUBSET Owners /\ T \subseteq DOMAIN displaced /\ mons \in Seq(Conns)
        /\ Len(mons) <= Len(XOrder) /\ cyc \in Cycle /\ cyc.key = None
    BY <1>1, <2>1, OrderAssumption, LenProperties
       DEF MemoryInv, IsMap, MonsInv, Nums, CycleInv
  <2>3. pc' = "next" /\ cyc' = [cyc EXCEPT !.heads = mons, !.todo = T]
    BY <1>5, <2>1 DEF Goto
  <2>4. /\ cyc' \in Cycle /\ cyc'.todo = T /\ cyc'.key = None /\ cyc'.heads = mons
        /\ cyc'.tries = cyc.tries /\ cyc'.hops = cyc.hops
    BY <2>2, <2>3 DEF Cycle
  <2>5. InCycle' /\ ~ Restoring' /\ pc' \in Points /\ pc' \notin {"guard", "where", "verb"}
    BY <2>3 DEF InCycle, Restoring, Points
  <2>6. cyc'.todo \subseteq DOMAIN displaced' \ {cyc'.key}
    BY <1>2, <2>2, <2>4, NoneAssumption
  <2>7. CycleInv'
    BY <1>1, <2>2, <2>4, <2>5, <2>6 DEF CycleInv
  <2>8. CalmInv'
    BY <1>2, <2>4, <2>5 DEF CalmInv
  <2> QED
    BY <1>3, <2>7, <2>8 DEF IInv
<1> QED
  BY <1>4, <1>5 DEF Entry

(* The number of an output's monitor. *)
LEMMA NumOfMonitor ==
  ASSUME NEW heads \in Seq(Conns), NEW outs, NEW c, NEW n, n = NumOf(heads, outs, c)
  PROVE  n \in Nat /\ (n # 0 => n \in 1..Len(heads) /\ heads[n] = c)
<1>1. DOMAIN heads = 1..Len(heads) /\ Len(heads) \in Nat
  BY LenProperties
<1>2. CASE \E i \in DOMAIN heads : heads[i] = c /\ c \in outs
  <2>1. n = CHOOSE i \in DOMAIN heads : heads[i] = c
    BY <1>2 DEF NumOf
  <2>2. n \in DOMAIN heads /\ heads[n] = c
    BY <1>2, <2>1
  <2> QED
    BY <1>1, <2>2
<1>3. CASE ~ \E i \in DOMAIN heads : heads[i] = c /\ c \in outs
  BY <1>3 DEF NumOf
<1> QED
  BY <1>2, <1>3

LEMMA ResolveKeeps ==
  ASSUME IInv, NEW p \in Owners, Resolve(p)
  PROVE  IInv'
<1>1. MonsInv /\ ClientsInv /\ MemoryInv /\ CycleInv /\ CalmInv /\ ~ Restoring /\ InCycle
  BY DEF IInv, Resolve, Restoring, InCycle
<1>2. UNCHANGED <<lit, mons, win, sel, view, selmon, asked, prev, snapshot, focus, calm>>
  BY DEF Resolve, dwmVars
<1>3. MonsInv' /\ ClientsInv'
  BY <1>1, <1>2, DwmSame
<1>4. PICK rec : rec = displaced[p]
  OBVIOUS
<1>5. PICK live : live = win[rec.win]
  OBVIOUS
<1>6. PICK t : t = NumOf(cyc.heads, cyc.outs, rec.output)
  OBVIOUS
<1>7. PICK P : P = plan_restore(rec, t, live)
  OBVIOUS
<1>8. PICK r : r = [cyc EXCEPT !.todo = @ \ {p}]
  OBVIOUS
<1>9. PICK d : d = [r EXCEPT !.key = p, !.target = t, !.hops = 0, !.ok = TRUE, !.plan = P]
  OBVIOUS
<1>10. cyc \in Cycle /\ cyc.heads \in Seq(Conns) /\ p \in cyc.todo /\ p \in DOMAIN displaced
       /\ cyc.key = None
  BY <1>1 DEF Resolve, CycleInv, Cycle
<1>11. t \in Nat /\ (t # 0 => t \in 1..Len(cyc.heads) /\ cyc.heads[t] = rec.output)
  BY <1>6, <1>10, NumOfMonitor
<1>12. /\ P \in Seq(Verbs) /\ P # <<>> /\ Ordered(P) /\ InPlan("tag", P)
       /\ ~ InPlan("tagmon", P) => t = 0 \/ t = live.mon
  BY <1>7, PlanFacts
<1>13. /\ r \in Cycle /\ r.todo = cyc.todo \ {p} /\ r.key = cyc.key /\ r.tries = cyc.tries
       /\ r.hops = cyc.hops /\ r.heads = cyc.heads
       /\ d \in Cycle /\ d.todo = cyc.todo \ {p} /\ d.key = p /\ d.tries = cyc.tries
       /\ d.hops = 0 /\ d.heads = cyc.heads /\ d.ok = TRUE /\ d.target = t /\ d.plan = P
  <2>1. PICK U \in SUBSET Owners : U = cyc.todo \ {p}
    BY <1>10 DEF Cycle
  <2>2. /\ r \in Cycle /\ r.todo = U /\ r.key = cyc.key /\ r.tries = cyc.tries
        /\ r.hops = cyc.hops /\ r.heads = cyc.heads
    BY <1>8, <1>10, <2>1 DEF Cycle
  <2>3. /\ d \in Cycle /\ d.todo = r.todo /\ d.key = p /\ d.tries = r.tries /\ d.hops = 0
        /\ d.heads = r.heads /\ d.ok = TRUE /\ d.target = t /\ d.plan = P
    BY <1>9, <1>11, <1>12, <2>2 DEF Cycle
  <2> QED
    BY <2>1, <2>2, <2>3
<1>14. \/ identity_matches(live, p) /\ Goto("focus", d) /\ displaced' = displaced
       \/ displaced' = Drop(displaced, {p}) /\ Goto("next", r)
       \/ Goto("next", r) /\ displaced' = displaced
  BY <1>4, <1>5, <1>6, <1>7, <1>8, <1>9 DEF Resolve
<1>15. CASE identity_matches(live, p) /\ Goto("focus", d) /\ displaced' = displaced
  <2>1. pc' = "focus" /\ cyc' = d
    BY <1>15 DEF Goto
  <2>2. InCycle' /\ Restoring' /\ pc' \in Points /\ pc' \notin {"guard", "where", "verb"}
    BY <2>1 DEF InCycle, Restoring, Points
  <2>3. cyc'.todo \subseteq DOMAIN displaced' \ {cyc'.key}
    BY <1>1, <1>13, <1>15, <2>1 DEF CycleInv
  <2>4. Len(XOrder) \in Nat
    BY OrderAssumption, LenProperties
  <2>5. CycleInv'
    BY <1>1, <1>10, <1>12, <1>13, <1>15, <2>1, <2>2, <2>3, <2>4 DEF CycleInv
  <2>6. Rec' = rec /\ live # None /\ live.owner = p /\ live = win'[rec.win]
    BY <1>2, <1>4, <1>5, <1>13, <1>15, <2>1 DEF Rec, identity_matches
  <2>7. calm' => cyc.heads = mons
    BY <1>1, <1>2 DEF CalmInv
  <2>8. calm' => Progress(win, cyc, Rec)'
    BY <1>2, <1>11, <1>12, <1>13, <2>1, <2>6, <2>7 DEF Progress
  <2>9. CalmInv'
    BY <1>2, <1>13, <2>1, <2>2, <2>6, <2>7, <2>8 DEF CalmInv
  <2>10. MemoryInv'
    BY <1>1, <1>2, <1>15 DEF MemoryInv
  <2> QED
    BY <1>3, <2>5, <2>9, <2>10 DEF IInv
<1>16. CASE Goto("next", r) /\ (displaced' = Drop(displaced, {p}) \/ displaced' = displaced)
  <2>1. pc' = "next" /\ cyc' = r
    BY <1>16 DEF Goto
  <2>2. InCycle' /\ ~ Restoring' /\ pc' \in Points /\ pc' \notin {"guard", "where", "verb"}
    BY <2>1 DEF InCycle, Restoring, Points
  <2>3. IsMap(displaced', Owners, WindowRecord) /\ DOMAIN displaced \ {p} \subseteq DOMAIN displaced'
    <3>1. IsMap(displaced, Owners, WindowRecord)
      BY <1>1 DEF MemoryInv
    <3>2. CASE displaced' = Drop(displaced, {p})
      BY <3>1, <3>2, DropMap
    <3> QED
      BY <1>16, <3>1, <3>2
  <2>4. cyc'.todo \subseteq DOMAIN displaced' \ {cyc'.key}
    BY <1>1, <1>13, <2>1, <2>3 DEF CycleInv
  <2>5. CycleInv'
    BY <1>1, <1>10, <1>13, <2>1, <2>2, <2>4 DEF CycleInv
  <2>6. CalmInv'
    BY <1>1, <1>2, <1>13, <2>1, <2>2 DEF CalmInv
  <2>7. MemoryInv'
    BY <1>1, <1>2, <2>3 DEF MemoryInv
  <2> QED
    BY <1>3, <2>5, <2>6, <2>7 DEF IInv
<1> QED
  BY <1>14, <1>15, <1>16

(* Giving the focus back is outside of the cycle, with nothing left under way. *)
LEMMA AwayKeeps ==
  ASSUME CycleInv, ~ Restoring, pc' \in {"giveback", "backpoll", "walk"}, displaced' = displaced,
         cyc' \in Cycle, cyc'.todo = cyc.todo, cyc'.key = cyc.key, cyc'.heads = cyc.heads,
         cyc'.tries < TRIES, cyc'.hops <= Len(XOrder)
  PROVE  CycleInv' /\ CalmInv'
<1>1. ~ InCycle' /\ ~ Restoring' /\ pc' \in Points /\ pc' \notin {"guard", "where"}
  BY DEF InCycle, Restoring, Points
<1>2. CycleInv'
  BY <1>1 DEF CycleInv
<1> QED
  BY <1>1, <1>2, OutOfCycle

LEMMA CycleDoneKeeps ==
  ASSUME IInv, CycleDone
  PROVE  IInv'
<1>1. MonsInv /\ ClientsInv /\ MemoryInv /\ CycleInv /\ ~ Restoring
  BY DEF IInv, CycleDone, Restoring
<1>2. UNCHANGED <<lit, mons, win, sel, view, selmon, asked, prev, snapshot, focus, displaced>>
  BY DEF CycleDone, dwmVars, memVars
<1>3. MonsInv' /\ ClientsInv' /\ MemoryInv'
  BY <1>1, <1>2, DwmSame DEF MemoryInv
<1>4. CASE Goto("giveback", cyc)
  <2>1. pc' = "giveback" /\ cyc' = cyc
    BY <1>4 DEF Goto
  <2> QED
    BY <1>1, <1>2, <1>3, <2>1, AwayKeeps DEF IInv, CycleInv
<1>5. CASE Ended(cyc)
  BY <1>3, <1>5, EndedKeeps DEF IInv
<1> QED
  BY <1>4, <1>5 DEF CycleDone

LEMMA GiveBackKeeps ==
  ASSUME IInv, GiveBack
  PROVE  IInv'
<1>1. MonsInv /\ ClientsInv /\ MemoryInv /\ CycleInv /\ ~ Restoring /\ cyc \in Cycle
  BY DEF IInv, GiveBack, Restoring, CycleInv
<1>2. UNCHANGED <<lit, mons, win, sel, view, selmon, prev, snapshot, focus, displaced>>
  BY DEF GiveBack, memVars
<1>3. MonsInv' /\ ClientsInv'
  BY <1>1, <1>2, DwmSame
<1>4. asked' \subseteq Wins
  <2>1. CASE asked' = asked
    BY <1>1, <2>1 DEF MemoryInv
  <2>2. CASE focus # None /\ asked' = asked \cup {focus.win}
    <3>1. focus \in [num : Nums, win : Wins]
      BY <1>1, <2>2 DEF MemoryInv
    <3>2. focus.win \in Wins
      BY <3>1
    <3> QED
      BY <1>1, <2>2, <3>2 DEF MemoryInv
  <2> QED
    BY <2>1, <2>2 DEF GiveBack
<1>5. MemoryInv'
  BY <1>1, <1>2, <1>4 DEF MemoryInv
<1>6. CASE Ended(cyc)
  BY <1>3, <1>5, <1>6, EndedKeeps DEF IInv
<1>7. CASE Goto("backpoll", [cyc EXCEPT !.tries = 0])
  <2>1. pc' = "backpoll" /\ cyc' = [cyc EXCEPT !.tries = 0]
    BY <1>7 DEF Goto
  <2>2. /\ cyc' \in Cycle /\ cyc'.todo = cyc.todo /\ cyc'.key = cyc.key
        /\ cyc'.heads = cyc.heads /\ cyc'.tries = 0 /\ cyc'.hops = cyc.hops
    BY <1>1, <2>1 DEF Cycle
  <2>3. cyc'.tries < TRIES /\ cyc'.hops <= Len(XOrder)
    BY <1>1, <2>2, BoundAssumption DEF CycleInv
  <2> QED
    BY <1>1, <1>2, <1>3, <1>5, <2>1, <2>2, <2>3, AwayKeeps DEF IInv
<1>8. CASE Goto("walk", [cyc EXCEPT !.hops = Len(mons)])
  <2>1. PICK n \in Nat : n = Len(mons) /\ n <= Len(XOrder)
    BY <1>1, OrderAssumption, LenProperties DEF MonsInv, Nums
  <2>2. pc' = "walk" /\ cyc' = [cyc EXCEPT !.hops = n]
    BY <1>8, <2>1 DEF Goto
  <2>3. /\ cyc' \in Cycle /\ cyc'.todo = cyc.todo /\ cyc'.key = cyc.key
        /\ cyc'.heads = cyc.heads /\ cyc'.tries = cyc.tries /\ cyc'.hops = n
    BY <1>1, <2>1, <2>2 DEF Cycle
  <2>4. cyc'.tries < TRIES /\ cyc'.hops <= Len(XOrder)
    BY <1>1, <2>1, <2>3 DEF CycleInv
  <2> QED
    BY <1>1, <1>2, <1>3, <1>5, <2>2, <2>3, <2>4, AwayKeeps DEF IInv
<1> QED
  BY <1>6, <1>7, <1>8 DEF GiveBack

LEMMA BackPollKeeps ==
  ASSUME IInv, BackPoll
  PROVE  IInv'
<1>1. MonsInv /\ ClientsInv /\ MemoryInv /\ CycleInv /\ ~ Restoring /\ cyc \in Cycle
  BY DEF IInv, BackPoll, Restoring, CycleInv
<1>2. UNCHANGED <<lit, mons, win, sel, view, selmon, asked, prev, snapshot, focus, displaced>>
  BY DEF BackPoll, dwmVars, memVars
<1>3. MonsInv' /\ ClientsInv' /\ MemoryInv'
  BY <1>1, <1>2, DwmSame DEF MemoryInv
<1>4. CASE Ended(cyc)
  BY <1>3, <1>4, EndedKeeps DEF IInv
<1>5. CASE ~ (Tried(cyc.tries) >= TRIES) /\ Goto("backpoll", [cyc EXCEPT !.tries = Tried(@)])
  <2>1. PICK k \in Nat : k = cyc.tries + 1 /\ k < TRIES
    BY <1>1, <1>5, BoundAssumption DEF Cycle, Tried
  <2>2. pc' = "backpoll" /\ cyc' = [cyc EXCEPT !.tries = k]
    BY <1>1, <1>5, <2>1 DEF Goto, Tried, Cycle
  <2>3. /\ cyc' \in Cycle /\ cyc'.todo = cyc.todo /\ cyc'.key = cyc.key
        /\ cyc'.heads = cyc.heads /\ cyc'.tries = k /\ cyc'.hops = cyc.hops
    BY <1>1, <2>1, <2>2 DEF Cycle
  <2>4. cyc'.tries < TRIES /\ cyc'.hops <= Len(XOrder)
    BY <1>1, <2>1, <2>3 DEF CycleInv
  <2> QED
    BY <1>1, <1>2, <1>3, <2>2, <2>3, <2>4, AwayKeeps DEF IInv
<1> QED
  BY <1>4, <1>5 DEF BackPoll

LEMMA WalkKeeps ==
  ASSUME IInv, Walk
  PROVE  IInv'
<1>1. MonsInv /\ ClientsInv /\ MemoryInv /\ CycleInv /\ ~ Restoring /\ cyc \in Cycle
  BY DEF IInv, Walk, Restoring, CycleInv
<1>2. UNCHANGED <<lit, mons, win, view, asked, prev, snapshot, focus, displaced>>
  BY DEF Walk, memVars
<1>3. MemoryInv'
  BY <1>1, <1>2 DEF MemoryInv
<1>4. MonsInv' /\ ClientsInv'
  <2>1. CASE UNCHANGED <<selmon, sel>>
    BY <1>1, <1>2, <2>1, DwmSame
  <2>2. CASE /\ selmon' = NextMon(selmon)
             /\ \E f \in Refocus(win, view, selmon') : sel' = [sel EXCEPT ![selmon'] = f]
    <3>1. Len(mons) \in Nat \ {0} /\ selmon \in 1..Len(mons) /\ 1..Len(mons) \subseteq Nums
      BY <1>1, SelmonType DEF MonsInv
    <3>2. PICK k \in 1..Len(mons) : k = selmon'
      BY <2>2, <3>1, NextMonitor DEF NextMon
    <3>3. ClientsInv'
      BY <1>1, <1>2, <2>2, <3>2, SelectKeeps
    <3> QED
      BY <1>1, <1>2, <3>2, <3>3 DEF MonsInv
  <2> QED
    BY <2>1, <2>2 DEF Walk
<1>5. CASE Ended(cyc)
  BY <1>3, <1>4, <1>5, EndedKeeps DEF IInv
<1>6. CASE cyc.hops > 0 /\ Goto("walk", [cyc EXCEPT !.hops = @ - 1])
  <2>1. cyc.hops \in Nat /\ cyc.hops <= Len(XOrder) /\ Len(XOrder) \in Nat
    BY <1>1, OrderAssumption, LenProperties DEF CycleInv, Cycle
  <2>2. PICK k \in Nat : k = cyc.hops - 1 /\ k <= Len(XOrder)
    BY <1>6, <2>1
  <2>3. pc' = "walk" /\ cyc' = [cyc EXCEPT !.hops = k]
    BY <1>1, <1>6, <2>2 DEF Goto, Cycle
  <2>4. /\ cyc' \in Cycle /\ cyc'.todo = cyc.todo /\ cyc'.key = cyc.key
        /\ cyc'.heads = cyc.heads /\ cyc'.tries = cyc.tries /\ cyc'.hops = k
    BY <1>1, <2>2, <2>3 DEF Cycle
  <2>5. cyc'.tries < TRIES /\ cyc'.hops <= Len(XOrder)
    BY <1>1, <2>2, <2>4 DEF CycleInv
  <2> QED
    BY <1>1, <1>2, <1>3, <1>4, <2>3, <2>4, <2>5, AwayKeeps DEF IInv
<1> QED
  BY <1>5, <1>6 DEF Walk

LEMMA SweepKeeps ==
  ASSUME IInv, Sweep
  PROVE  IInv'
<1>1. MonsInv /\ ClientsInv /\ MemoryInv
  BY DEF IInv
<1>2. /\ UNCHANGED <<lit, mons, win, sel, view, selmon, asked, prev, snapshot, focus>>
      /\ displaced' = Drop(displaced, DOMAIN displaced \ Alive) /\ pc' = "capture" /\ cyc' = NoCycle
  BY DEF Sweep, dwmVars, Goto
<1>3. MonsInv' /\ ClientsInv' /\ CycleInv' /\ CalmInv'
  BY <1>1, <1>2, DwmSame, AtRest
<1>4. IsMap(displaced', Owners, WindowRecord)
  BY <1>1, <1>2, DropMap DEF MemoryInv
<1>5. MemoryInv'
  BY <1>1, <1>2, <1>4 DEF MemoryInv
<1> QED
  BY <1>3, <1>5 DEF IInv

(* The focus a snapshot takes is a client of a monitor. *)
LEMMA SelectedType ==
  ASSUME MonsInv, ClientsInv
  PROVE  selected_focus \in [num : Nums, win : Wins] \cup {None}
<1>1. PICK having : having = {m \in 1..Len(mons) : sel[m] # None}
  OBVIOUS
<1>2. CASE having = {}
  BY <1>1, <1>2 DEF selected_focus
<1>3. CASE having # {}
  <2>1. 1..Len(mons) \subseteq Nums /\ selmon \in 1..Len(mons) /\ having \in SUBSET Nat
    BY <1>1, SelmonType DEF MonsInv
  <2>2. PICK first : first = CHOOSE m \in having : \A k \in having : m <= k
    OBVIOUS
  <2>3. first \in having
    BY <1>3, <2>1, <2>2, LeastNat
  <2>4. PICK m0 : m0 = IF sel[selmon] # None THEN selmon ELSE first
    OBVIOUS
  <2>5. m0 \in 1..Len(mons) /\ sel[m0] # None
    BY <1>1, <2>1, <2>3, <2>4
  <2>6. m0 \in Nums /\ sel[m0] \in Wins
    BY <2>1, <2>5 DEF ClientsInv
  <2>7. selected_focus = [num |-> m0, win |-> sel[m0]]
    BY <1>1, <1>3, <2>2, <2>4 DEF selected_focus
  <2> QED
    BY <2>6, <2>7
<1> QED
  BY <1>2, <1>3

LEMMA CaptureKeeps ==
  ASSUME IInv, Capture
  PROVE  IInv'
<1>1. MonsInv /\ ClientsInv /\ MemoryInv /\ CycleInv
  BY DEF IInv
<1>2. UNCHANGED <<lit, mons, win, sel, view, selmon, asked, prev, displaced>>
  BY DEF Capture, dwmVars
<1>3. MonsInv' /\ ClientsInv'
  BY <1>1, <1>2, DwmSame
<1>4. CASE /\ focus' = selected_focus /\ snapshot' = snapshot
           /\ Goto("records", [NoCycle EXCEPT !.heads = mons, !.seen = {w \in Wins : win[w] # None}])
  <2>1. PICK Z \in SUBSET Wins : Z = {w \in Wins : win[w] # None}
    OBVIOUS
  <2>2. pc' = "records" /\ cyc' = [NoCycle EXCEPT !.heads = mons, !.seen = Z]
    BY <1>4, <2>1 DEF Goto
  <2>3. mons \in Seq(Conns) /\ Len(mons) <= Len(XOrder) /\ Len(XOrder) \in Nat
    BY <1>1, OrderAssumption, LenProperties DEF MonsInv, Nums
  <2>4. /\ cyc' \in Cycle /\ cyc'.todo = {} /\ cyc'.key = None /\ cyc'.heads = mons
        /\ cyc'.tries = 0 /\ cyc'.hops = 0
    BY <2>1, <2>2, <2>3, NoCycleFacts DEF Cycle
  <2>5. ~ InCycle' /\ ~ Restoring' /\ pc' \in Points /\ pc' \notin {"guard", "where"}
    BY <2>2 DEF InCycle, Restoring, Points
  <2>6. CycleInv'
    BY <2>3, <2>4, <2>5, BoundAssumption DEF CycleInv
  <2>7. MemoryInv'
    BY <1>1, <1>2, <1>4, SelectedType DEF MemoryInv
  <2> QED
    BY <1>3, <2>5, <2>6, <2>7, OutOfCycle DEF IInv
<1>5. CASE snapshot' = <<>> /\ Goto("idle", NoCycle) /\ focus' = focus
  <2>1. CycleInv' /\ CalmInv'
    BY <1>5, AtRest DEF Goto
  <2>2. MemoryInv'
    BY <1>1, <1>2, <1>5, EmptyMap DEF MemoryInv
  <2> QED
    BY <1>3, <2>1, <2>2 DEF IInv
<1> QED
  BY <1>4, <1>5 DEF Capture

LEMMA RecordsKeeps ==
  ASSUME IInv, Records
  PROVE  IInv'
<1>1. MonsInv /\ ClientsInv /\ MemoryInv /\ CycleInv
  BY DEF IInv
<1>2. /\ UNCHANGED <<lit, mons, win, sel, view, selmon, asked, prev, focus, displaced>>
      /\ pc' = "idle" /\ cyc' = NoCycle
  BY DEF Records, dwmVars, Goto
<1>3. MonsInv' /\ ClientsInv' /\ CycleInv' /\ CalmInv'
  BY <1>1, <1>2, DwmSame, AtRest
<1>4. \A w \in Wins : win[w] # None => RecordOf(w) \in WindowRecord
  <2> SUFFICES ASSUME NEW w \in Wins, win[w] # None PROVE RecordOf(w) \in WindowRecord
    OBVIOUS
  <2>1. win[w] \in Window /\ win[w].tag \in Tags /\ win[w].floating \in BOOLEAN
    BY <1>1 DEF ClientsInv, Window
  <2>2. PICK m : m = win[w].mon
    OBVIOUS
  <2>3. PICK o : o = IF m \in DOMAIN cyc.heads /\ cyc.heads[m] \in lit THEN cyc.heads[m] ELSE None
    OBVIOUS
  <2>4. o \in Conns \cup {None}
    BY <1>1, <2>3 DEF MonsInv
  <2>5. RecordOf(w) = [win |-> w, output |-> o, tag |-> win[w].tag, floating |-> win[w].floating]
    BY <2>2, <2>3 DEF RecordOf
  <2> QED
    BY <2>1, <2>4, <2>5 DEF WindowRecord
<1>5. IsMap(snapshot', Owners, WindowRecord)
  <2>1. CASE snapshot' = <<>>
    BY <2>1, EmptyMap
  <2>2. CASE snapshot' # <<>>
    <3>1. \E skipped \in SUBSET cyc.seen :
            LET ws == {w \in cyc.seen \ skipped : win[w] # None}
                owners == {win[w].owner : w \in ws}
            IN \E kept \in [owners -> ws] : snapshot' = [p \in owners |-> RecordOf(kept[p])]
      BY <2>2 DEF Records
    <3>2. PICK skipped \in SUBSET cyc.seen :
            LET ws == {w \in cyc.seen \ skipped : win[w] # None}
                owners == {win[w].owner : w \in ws}
            IN \E kept \in [owners -> ws] : snapshot' = [p \in owners |-> RecordOf(kept[p])]
      BY <3>1
    <3>3. PICK ws : ws = {w \in cyc.seen \ skipped : win[w] # None}
      OBVIOUS
    <3>4. PICK owners : owners = {win[w].owner : w \in ws}
      OBVIOUS
    <3>5. PICK kept \in [owners -> ws] : snapshot' = [p \in owners |-> RecordOf(kept[p])]
      BY <3>2, <3>3, <3>4
    <3>6. cyc.seen \subseteq Wins
      BY <1>1 DEF CycleInv, Cycle
    <3>7. ws \subseteq Wins /\ \A w \in ws : win[w] # None
      BY <3>3, <3>6
    <3>8. owners \subseteq Owners
      BY <1>1, <3>4, <3>7 DEF ClientsInv, Window
    <3>9. \A p \in owners : RecordOf(kept[p]) \in WindowRecord
      BY <1>4, <3>5, <3>7
    <3> QED
      BY <3>5, <3>8, <3>9 DEF IsMap
  <2> QED
    BY <2>1, <2>2
<1>6. MemoryInv'
  BY <1>1, <1>2, <1>5 DEF MemoryInv
<1> QED
  BY <1>3, <1>6 DEF IInv

(***************************************************************************)
(* The theorems.                                                           *)
(***************************************************************************)
LEMMA InitKeeps == Init => IInv
<1> SUFFICES ASSUME Init PROVE IInv
  OBVIOUS
<1>1. XOrder \in Seq(Conns) /\ Len(XOrder) \in Nat /\ \A i \in 1..Len(XOrder) : XOrder[i] \in Conns
  BY OrderAssumption, LenProperties, ElementOfSeq
<1>2. lit = Conns /\ mons = XOrder /\ selmon \in Nums
  BY DEF Init
<1>3. MonsInv
  BY <1>1, <1>2 DEF MonsInv, Nums
<1>4. ClientsInv
  <2>1. \A w \in Wins : win[w] # None => win[w].mon \in 1..Len(mons)
    BY <1>2 DEF Init, Window, Nums
  <2>2. sel \in [Nums -> Wins \cup {None}] /\ \A m \in Nums : sel[m] \in Refocus(win, view, m)
    BY DEF Init
  <2>3. \A m \in Nums : sel[m] # None =>
          /\ win[sel[m]] # None /\ win[sel[m]].mon = m /\ win[sel[m]].tag = view[m]
    BY <2>2, Refocused
  <2> QED
    BY <2>1, <2>2, <2>3 DEF Init, ClientsInv
<1>5. MemoryInv
  <2>1. /\ asked = {} /\ prev = None /\ snapshot = <<>> /\ displaced = <<>> /\ focus = None
    BY DEF Init
  <2>2. IsMap(snapshot, Owners, WindowRecord) /\ IsMap(displaced, Owners, WindowRecord)
    BY <2>1, EmptyMap
  <2>3. asked \subseteq Wins /\ prev \in (SUBSET Conns) \cup {None}
    BY <2>1
  <2>4. focus \in [num : Nums, win : Wins] \cup {None}
    BY <2>1
  <2> QED
    BY <2>2, <2>3, <2>4 DEF MemoryInv
<1>6. ~ InCycle /\ ~ Restoring /\ pc \in Points /\ pc \notin {"guard", "where"} /\ cyc = NoCycle
  BY DEF Init, InCycle, Restoring, Points
<1>7. CycleInv
  <2>1. Len(<<>>) = 0
    BY EmptySeq
  <2> QED
    BY <1>1, <1>6, <2>1, NoCycleFacts, BoundAssumption DEF CycleInv
<1>8. CalmInv
  BY <1>6 DEF CalmInv, InCycle, Restoring
<1> QED
  BY <1>3, <1>4, <1>5, <1>7, <1>8 DEF IInv

(* Outside of Poll, Guard, RunVerb and Where no record goes from under a restore. *)
LEMMA KeptAtRest == (~ Restoring \/ displaced' = displaced) => Kept
BY DEF Kept, Reported

LEMMA StepKeeps ==
  ASSUME IInv, Step
  PROVE  IInv' /\ Kept
<1>1. CASE Entry
  BY <1>1, EntryKeeps, KeptAtRest DEF Entry, Restoring
<1>2. CASE CycleDone
  BY <1>2, CycleDoneKeeps, KeptAtRest DEF CycleDone, Restoring
<1>3. CASE GiveBack
  BY <1>3, GiveBackKeeps, KeptAtRest DEF GiveBack, Restoring
<1>4. CASE BackPoll
  BY <1>4, BackPollKeeps, KeptAtRest DEF BackPoll, Restoring
<1>5. CASE Walk
  BY <1>5, WalkKeeps, KeptAtRest DEF Walk, Restoring
<1>6. CASE Sweep
  BY <1>6, SweepKeeps, KeptAtRest DEF Sweep, Restoring
<1>7. CASE Capture
  BY <1>7, CaptureKeeps, KeptAtRest DEF Capture, Restoring
<1>8. CASE Records
  BY <1>8, RecordsKeeps, KeptAtRest DEF Records, Restoring
<1>9. ASSUME NEW p \in Owners, Resolve(p) PROVE IInv' /\ Kept
  BY <1>9, ResolveKeeps, KeptAtRest DEF Resolve, Restoring
<1>10. CASE Focus \/ Poll \/ Guard \/ RunVerb \/ Where
  BY <1>10, FocusKeeps, PollKeeps, GuardKeeps, RunVerbKeeps, WhereKeeps
<1> QED
  BY <1>1, <1>2, <1>3, <1>4, <1>5, <1>6, <1>7, <1>8, <1>9, <1>10 DEF Step

LEMMA NextKeeps ==
  ASSUME IInv, [Next]_vars
  PROVE  IInv' /\ Kept
<1>1. CASE Settle
  BY <1>1, SettleKeeps, KeptAtRest DEF Settle, Restoring
<1>2. CASE Step
  BY <1>2, StepKeeps
<1>3. CASE DwmSync
  BY <1>3, DwmSyncKeeps, KeptAtRest DEF DwmSync, memVars
<1>4. CASE User
  BY <1>4, AnyUserKeeps, KeptAtRest DEF User, memVars
<1>5. CASE Sigterm
  BY <1>5, SigtermKeeps, KeptAtRest DEF Sigterm, memVars
<1>6. ASSUME NEW c \in Conns, Hotplug(c) PROVE IInv' /\ Kept
  BY <1>6, HotplugKeeps, KeptAtRest DEF Hotplug, memVars
<1>7. ASSUME NEW w \in Wins, DwmFocus(w) PROVE IInv' /\ Kept
  BY <1>7, DwmFocusKeeps, KeptAtRest DEF DwmFocus, memVars
<1>8. CASE UNCHANGED vars
  <2>1. UNCHANGED <<lit, dwmVars, memVars, pc, cyc, calm, astray>>
    BY <1>8 DEF vars
  <2>2. IInv'
    BY <2>1, Unseen DEF IInv, MonsInv
  <2> QED
    BY <2>1, <2>2, KeptAtRest DEF memVars
<1> QED
  BY <1>1, <1>2, <1>3, <1>4, <1>5, <1>6, <1>7, <1>8 DEF Next

LEMMA Invariant == Spec => []IInv
<1>1. Init => IInv
  BY InitKeeps
<1>2. IInv /\ [Next]_vars => IInv'
  BY NextKeeps
<1> QED
  BY <1>1, <1>2, PTL DEF Spec

(* What is observed is true or false. *)
Observed == {calm, astray} \subseteq BOOLEAN

LEMMA ObservedKept ==
  ASSUME Observed, [Next]_vars
  PROVE  Observed'
<1>1. CASE UNCHANGED vars
  BY <1>1 DEF vars, Observed
<1>2. CASE Step
  BY <1>2 DEF Observed, Step, Entry, CycleDone, Focus, Poll, Guard, RunVerb, Where, GiveBack,
              BackPoll, Walk, Sweep, Capture, Records, Resolve
<1>3. CASE Next /\ ~ Step
  BY <1>3 DEF Observed, Next, Settle, DwmSync, Interfere, User, Sigterm, Hotplug, DwmFocus
<1> QED
  BY <1>1, <1>2, <1>3

LEMMA AlwaysObserved == Spec => []Observed
<1>1. Init => Observed
  BY DEF Init, Observed
<1> QED
  BY <1>1, ObservedKept, PTL DEF Spec

LEMMA TypeFollows == IInv /\ Observed => TypeOK
<1> SUFFICES ASSUME IInv, Observed PROVE TypeOK
  OBVIOUS
<1>1. MonsInv /\ ClientsInv /\ MemoryInv /\ CycleInv
  BY DEF IInv
<1>2. selmon \in Nums
  BY <1>1, SelmonType
<1>3. Restoring => cyc.key \in DOMAIN displaced /\ cyc.plan # <<>> /\ Verb \in Verbs
  BY <1>1, RecType DEF CycleInv
<1>4. cyc.hops \in 0..Len(XOrder)
  <2>1. Len(XOrder) \in Nat /\ cyc.hops \in Nat /\ cyc.hops <= Len(XOrder)
    BY <1>1, OrderAssumption, LenProperties DEF CycleInv, Cycle
  <2> QED
    BY <2>1
<1> QED
  BY <1>1, <1>2, <1>3, <1>4 DEF Observed, TypeOK, MonsInv, ClientsInv, MemoryInv, CycleInv, Points

(* A tagmon of a window that is not at risk leaves no monitor empty-handed while  *)
(* another one tiles a lone client.                                               *)
LEMMA MoveIsSafe ==
  ASSUME MonsInv, ClientsInv, NEW w \in Wins, sel[selmon] = w, ~ tagmon_crash_risk(w), Tagmon,
         UNCHANGED <<mons, view, selmon>>
  PROVE  ~ Crashes
<1>1. w # None /\ selmon \in Nums /\ win[w] # None /\ win[w].mon = selmon
  BY NoneAssumption, SelmonType DEF ClientsInv
<1>2. SUFFICES ASSUME Crashes PROVE FALSE
  OBVIOUS
<1>3. Len(mons) >= 2
  <2>1. sel'[selmon] = None
    BY <1>2 DEF Crashes
  <2>2. ~ (Len(mons) < 2)
    BY <1>1, <2>1, TagmonKeeps
  <2> QED
    BY <2>2, SelmonType
<1>4. PICK next \in 1..Len(mons) : next = NextMon(selmon) /\ next # selmon
  BY <1>1, <1>3, TagmonKeeps
<1>5. /\ ClientsInv' /\ SameClients /\ win'[w].mon = next /\ win'[w].tag = view[next]
      /\ win'[w].floating = win[w].floating /\ \A v \in Wins \ {w} : win'[v] = win[v]
      /\ Visible(win', view, selmon) = {}
  BY <1>1, <1>2, <1>3, <1>4, TagmonKeeps DEF Crashes
<1>6. win'[w] # None
  BY <1>1, <1>5 DEF SameClients
<1>7. Visible(win, view, selmon) \subseteq {w}
  BY <1>5 DEF Visible, On
<1>8. PICK arrives : arrives = IF win[w].floating THEN {} ELSE {w}
  OBVIOUS
<1>9. \A m \in 1..Len(mons) :
        Tiled(win', view, m) = (Tiled(win, view, m) \ {w}) \cup (IF m = next THEN arrives ELSE {})
  <2> SUFFICES ASSUME NEW m \in 1..Len(mons)
               PROVE  Tiled(win', view, m)
                      = (Tiled(win, view, m) \ {w}) \cup (IF m = next THEN arrives ELSE {})
    OBVIOUS
  <2>1. \A v \in Wins \ {w} : v \in Tiled(win', view, m) <=> v \in Tiled(win, view, m)
    BY <1>5 DEF Tiled, Visible, On
  <2>2. w \in Tiled(win', view, m) <=> m = next /\ ~ win[w].floating
    BY <1>5, <1>6 DEF Tiled, Visible, On
  <2>3. Tiled(win', view, m) \subseteq Wins /\ Tiled(win, view, m) \subseteq Wins
    BY DEF Tiled, Visible, On
  <2> QED
    BY <1>8, <2>1, <2>2, <2>3
<1>10. PICK m \in 1..Len(mons) : Cardinality(Tiled(win', view, m)) = 1
  BY <1>2 DEF Crashes
<1>11. Cardinality((Tiled(win, view, m) \ {w}) \cup (IF m = next THEN arrives ELSE {})) = 1
  BY <1>9, <1>10
<1>12. tagmon_crash_risk(w)
  BY <1>1, <1>4, <1>7, <1>8, <1>11 DEF tagmon_crash_risk
<1> QED
  BY <1>12

LEMMA CommandIsSafe ==
  ASSUME IInv, [Next]_vars, pc = "verb", pc' # "verb", Verb = "tagmon", calm, sel[selmon] = Rec.win
  PROVE  ~ Crashes
<1>1. MonsInv /\ ClientsInv /\ MemoryInv /\ CycleInv /\ CalmInv /\ Restoring
  BY DEF IInv, Restoring
<1>2. RunVerb
  BY DEF Next, Step, vars, Settle, DwmSync, User, Sigterm, Hotplug, DwmFocus, Entry, CycleDone,
         Focus, Poll, Guard, Where, GiveBack, BackPoll, Walk, Sweep, Capture, Records, Resolve
<1>3. PICK w \in Wins : w = Rec.win
  BY <1>1, RecType
<1>4. ~ tagmon_crash_risk(w)
  BY <1>1, <1>3 DEF CalmInv
<1>5. CASE Command(Verb, Rec)
  <2>1. Tagmon /\ UNCHANGED <<mons, view, selmon>>
    BY <1>5 DEF Command
  <2> QED
    BY <1>1, <1>3, <1>4, <2>1, MoveIsSafe
<1>6. CASE UNCHANGED dwmVars
  <2>1. sel'[selmon'] # None
    BY <1>3, <1>6, NoneAssumption DEF dwmVars
  <2> QED
    BY <2>1 DEF Crashes
<1> QED
  BY <1>2, <1>5, <1>6 DEF RunVerb

(* Every variable keeps its type, and a restore under way always has its record   *)
(* and a step left, whatever the user, dwm and the cables do (on_settled).        *)
THEOREM Typed == Spec => []TypeOK
BY Invariant, AlwaysObserved, TypeFollows, PTL

(* Left alone by user and dwm, a command is sent only with its window selected on *)
(* (_focus_and_confirm), however late dwm focuses, whatever is refused or lost.   *)
THEOREM CommandsAlwaysFollowFocus == Spec => []CommandsFollowFocus
<1>1. IInv => CommandsFollowFocus
  BY DEF IInv, CalmInv, CommandsFollowFocus, selected_confirmed
<1> QED
  BY <1>1, Invariant, PTL

(* Left alone by user and dwm, every step is taken for the process instance the   *)
(* record names (identity_matches in _restore_one), though window ids are reused. *)
THEOREM NeverTouchesAnother == Spec => []NeverAnotherInstance
<1>1. IInv => NeverAnotherInstance
  BY DEF IInv, CalmInv, NeverAnotherInstance
<1> QED
  BY <1>1, Invariant, PTL

(* Left alone by user and dwm, a tagmon that hits its window never crashes dwm    *)
(* (_tagmon_would_crash_dwm), with a guard read one round trip before it.         *)
THEOREM MovesAreSafe == Spec => MovesNeverCrashDwm
<1>1. IInv /\ [Next]_vars
      => [pc = "verb" /\ pc' # "verb" /\ Verb = "tagmon" /\ calm /\ sel[selmon] = Rec.win
          => ~ Crashes]_vars
  BY CommandIsSafe
<1> QED
  BY <1>1, Invariant, PTL DEF Spec, MovesNeverCrashDwm

(* In a cycle that neither user nor dwm interferes with, whatever of its own      *)
(* commands goes astray: a record worked on goes only with its window back on the *)
(* monitor of its output (_restore_one), if that monitor was found, and on its    *)
(* tag unless the tag command hit another window.                                 *)
THEOREM RecordsKeptUntilBack == Spec => KeptUntilBack
<1>1. IInv /\ [Next]_vars
      => [\A p \in Owners : Reported(p) /\ cyc.target # 0 =>
            BackOnOutput(displaced[p]) /\ (BackOnTag(displaced[p]) \/ astray')]_vars
  BY NextKeeps DEF Kept, BroughtBack
<1> QED
  BY <1>1, Invariant, PTL DEF Spec, KeptUntilBack
=============================================================================
