-------------------------- MODULE StateStoreProofs --------------------------
(***************************************************************************)
(* Machine-checked proofs about StateStore, for any monitors, connectors   *)
(* and processes and any bounds.                                           *)
(***************************************************************************)
EXTENDS StateStore, SubsequencesProofs

(* The control points of a process. *)
Points == {"idle", "wait", "ensure", "save"}

(* The functions the argument updates are functions on Procs. *)
ShapeInv == DOMAIN at = Procs /\ DOMAIN base = Procs /\ at \in [Procs -> Points]
            /\ stateLock \subseteq Procs /\ applyLock \subseteq Procs

(* The processes that work on a copy hold the state-lock, and only one holds it. *)
HolderInv ==
  /\ \A p \in Procs : Working(p) => p \in stateLock
  /\ \A p, q \in stateLock : p = q

IInv == ShapeInv /\ HolderInv /\ NoLostUpdate /\ NobodyStuck

(* In the initial state nobody works. *)
LEMMA InitIInv == Init => IInv
  BY DEF Init, IInv, ShapeInv, HolderInv, NoLostUpdate, NobodyStuck, Working, Points

(* A process that leaves stops working; the other processes are untouched, and *)
(* the file may change, because nobody else works while this one does.         *)
LEMMA LeaveKeeps ==
  ASSUME IInv, NEW p \in Procs, Leave(p),
         file' = file \/ Working(p)
  PROVE  IInv'
<1> USE DEF Leave, Set
<1>1. /\ DOMAIN at' = Procs /\ DOMAIN base' = Procs /\ at' \in [Procs -> Points]
      /\ at'[p] = "idle"
      /\ \A q \in Procs \ {p} : at'[q] = at[q] /\ base'[q] = base[q]
  BY DEF IInv, ShapeInv, Points
<1>2. ShapeInv'
  BY <1>1 DEF IInv, ShapeInv, Points
<1>3. HolderInv'
  BY <1>1 DEF IInv, HolderInv, Working, Points
<1>4. ASSUME NEW q \in Procs, Working(q)' PROVE file' = base'[q]
  <2>1. q # p /\ Working(q) /\ base'[q] = base[q]
    BY <1>1, <1>4 DEF Working, Points
  <2>2. ~ Working(p)
    BY <2>1 DEF IInv, HolderInv
  <2> QED
    BY <2>1, <2>2 DEF IInv, NoLostUpdate
<1>5. NobodyStuck'
  <2>1. \A q \in stateLock' : Working(q)'
    BY <1>1 DEF IInv, ShapeInv, HolderInv, NobodyStuck, Working
  <2>2. \A a \in applyLock' : at'[a] # "idle"
    BY <1>1 DEF IInv, ShapeInv, NobodyStuck
  <2> QED
    BY <2>1, <2>2 DEF NobodyStuck
<1> QED
  BY <1>2, <1>3, <1>4, <1>5 DEF IInv, NoLostUpdate

(* Steps that leave the state-lock and the copies' origin alone, and on which    *)
(* nobody starts or stops working; an apply-lock stays with a process at work.   *)
LEMMA QuietKeeps ==
  ASSUME IInv, UNCHANGED <<file, stateLock, base>>,
         at' \in [Procs -> Points], \A q \in Procs : Working(q)' <=> Working(q),
         \A q \in Procs : at[q] # "idle" => at'[q] # "idle",
         \A a \in applyLock' \ applyLock : a \in Procs /\ at'[a] # "idle"
  PROVE  IInv'
<1>1. ShapeInv' /\ HolderInv'
  BY DEF IInv, ShapeInv, HolderInv
<1>2. NoLostUpdate'
  BY DEF IInv, NoLostUpdate
<1>3. NobodyStuck'
  BY DEF IInv, ShapeInv, NobodyStuck
<1> QED
  BY <1>1, <1>2, <1>3 DEF IInv

(* Every step preserves the invariant. *)
LEMMA NextIInv == IInv /\ [Next]_vars => IInv'
<1> SUFFICES ASSUME IInv, [Next]_vars PROVE IInv'
  OBVIOUS
<1>0. at \in [Procs -> Points]
  BY DEF IInv, ShapeInv, Points
<1>1. ASSUME NEW c \in Conns, NEW e \in EDIDs \cup {NoEdid, Unplugged}, Recable(c, e)
      PROVE  IInv'
  <2>1. UNCHANGED <<file, stateLock, base, applyLock, at>>
    BY <1>1 DEF Recable, procVars
  <2> QED
    BY <1>0, <2>1, QuietKeeps DEF Working
<1>2. ASSUME NEW a \in Appliers, ApplyBegin(a) PROVE IInv'
  <2>1. /\ UNCHANGED <<file, stateLock, base>> /\ applyLock' = {a}
        /\ at[a] = "idle" /\ at' = [at EXCEPT ![a] = "wait"] /\ a \in Procs
    BY <1>2 DEF ApplyBegin, Set, Procs
  <2>2. /\ at' \in [Procs -> Points] /\ \A q \in Procs : Working(q)' <=> Working(q)
        /\ at'[a] = "wait" /\ \A q \in Procs \ {a} : at'[q] = at[q]
    BY <1>0, <2>1 DEF Working, Points
  <2> QED
    BY <2>1, <2>2, QuietKeeps
<1>3. ASSUME NEW s \in Setters, SetPrefBegin(s) PROVE IInv'
  <2>1. /\ UNCHANGED <<file, stateLock, base>> /\ applyLock' = applyLock
        /\ at[s] = "idle" /\ at' = [at EXCEPT ![s] = "wait"] /\ s \in Procs
    BY <1>3 DEF SetPrefBegin, Set, Procs
  <2>2. /\ at' \in [Procs -> Points] /\ \A q \in Procs : Working(q)' <=> Working(q)
        /\ at'[s] = "wait" /\ \A q \in Procs \ {s} : at'[q] = at[q]
    BY <1>0, <2>1 DEF Working, Points
  <2> QED
    BY <2>1, <2>2, QuietKeeps
<1>4. ASSUME NEW p \in Procs, LockAndLoad(p) PROVE IInv'
  <2>1. /\ stateLock = {} /\ stateLock' = {p} /\ file' = file
        /\ at' = [at EXCEPT ![p] = "ensure"] /\ base' = [base EXCEPT ![p] = file]
    BY <1>4 DEF LockAndLoad, StateLockFree, Set
  <2>2. \A q \in Procs : ~ Working(q)
    BY <2>1 DEF IInv, HolderInv
  <2>3. /\ ShapeInv' /\ base'[p] = file
        /\ \A q \in Procs : Working(q)' => q = p
    BY <1>0, <1>4, <2>1, <2>2 DEF LockAndLoad, IInv, ShapeInv, Working, Points
  <2>4. HolderInv'
    BY <2>1, <2>3 DEF HolderInv
  <2>5. NoLostUpdate'
    BY <2>1, <2>3 DEF NoLostUpdate
  <2>6. NobodyStuck'
    <3>1. /\ at'[p] = "ensure" /\ \A q \in Procs \ {p} : at'[q] = at[q]
          /\ applyLock' = applyLock
      BY <1>0, <1>4, <2>1 DEF LockAndLoad
    <3> QED
      BY <2>1, <3>1 DEF IInv, ShapeInv, NobodyStuck, Working
  <2> QED
    BY <2>3, <2>4, <2>5, <2>6 DEF IInv
<1>5. ASSUME NEW p \in Procs, Ensure(p) PROVE IInv'
  <2>1. UNCHANGED <<file, stateLock, base, applyLock, at>>
    BY <1>5 DEF Ensure
  <2> QED
    BY <1>0, <2>1, QuietKeeps DEF Working
<1>6. ASSUME NEW p \in Procs, Place(p) PROVE IInv'
  <2>1. /\ UNCHANGED <<file, stateLock, base>> /\ Working(p)
        /\ at' = [at EXCEPT ![p] = "save"] /\ applyLock' = applyLock
    BY <1>6 DEF Place, Set, Working, Points
  <2>2. /\ at' \in [Procs -> Points] /\ \A q \in Procs : Working(q)' <=> Working(q)
        /\ at'[p] = "save" /\ \A q \in Procs \ {p} : at'[q] = at[q]
    BY <1>0, <2>1 DEF Working, Points
  <2> QED
    BY <2>1, <2>2, QuietKeeps
<1>7. ASSUME NEW p \in Procs, Decide(p) PROVE IInv'
  <2>1. /\ UNCHANGED <<file, stateLock, base>> /\ Working(p)
        /\ at' = [at EXCEPT ![p] = "save"] /\ applyLock' = applyLock
    BY <1>7 DEF Decide, Set, Working, Points
  <2>2. /\ at' \in [Procs -> Points] /\ \A q \in Procs : Working(q)' <=> Working(q)
        /\ at'[p] = "save" /\ \A q \in Procs \ {p} : at'[q] = at[q]
    BY <1>0, <2>1 DEF Working, Points
  <2> QED
    BY <2>1, <2>2, QuietKeeps
<1>8. ASSUME NEW p \in Procs, NoMatch(p) PROVE IInv'
  BY <1>8, LeaveKeeps DEF NoMatch
<1>9. ASSUME NEW p \in Procs, Save(p) PROVE IInv'
  BY <1>9, LeaveKeeps DEF Save, Working, Points
<1>10. ASSUME NEW p \in Procs, Kill(p) PROVE IInv'
  BY <1>10, LeaveKeeps DEF Kill
<1>11. ASSUME UNCHANGED vars PROVE IInv'
  <2>1. UNCHANGED <<file, stateLock, base, applyLock, at>>
    BY <1>11 DEF vars, procVars
  <2> QED
    BY <1>0, <2>1, QuietKeeps DEF Working
<1>12. Appliers \subseteq Procs /\ Setters \subseteq Procs
  BY DEF Procs
<1> QED
  BY <1>1, <1>2, <1>3, <1>4, <1>5, <1>6, <1>7, <1>8, <1>9, <1>10, <1>11 DEF Next, Step

(* Whatever applies, --set-prefs, failed writes, failed loads and kills do, no   *)
(* process ever saves over a change that another one made after it loaded.       *)
THEOREM NothingOverwritten == Spec => []NoLostUpdate
<1>1. IInv => NoLostUpdate
  BY DEF IInv
<1> QED
  BY <1>1, InitIInv, NextIInv, PTL DEF Spec

(* Whoever waits for the state-lock waits for a process that waits for nothing,  *)
(* and no lock is left behind by an apply or a --set-pref that is gone.          *)
THEOREM LocksComeFree == Spec => []NobodyStuck
<1>1. IInv => NobodyStuck
  BY DEF IInv
<1> QED
  BY <1>1, InitIInv, NextIInv, PTL DEF Spec

(***************************************************************************)
(* What the operations do to a state.                                      *)
(***************************************************************************)
(* A connected output. *)
Output == [name : Conns, edid : EDIDs \cup {NoEdid}]

(* The parts of a state. *)
LEMMA StateParts ==
  ASSUME NEW s, IsState(s)
  PROVE  /\ IsPartial(s.imap, Keys, Keys) /\ IsPartial(s.profs, Keys, Profile)
         /\ s.stack \in Seq(Keys)
         /\ \A p : [s EXCEPT !.profs = p] = [imap |-> s.imap, profs |-> p, stack |-> s.stack]
         /\ \A p, m : [s EXCEPT !.profs = p, !.imap = m] = [imap |-> m, profs |-> p, stack |-> s.stack]
         /\ \A k : [s EXCEPT !.stack = k] = [imap |-> s.imap, profs |-> s.profs, stack |-> k]
<1>1. PICK m0, p0, k0 : s = [imap |-> m0, profs |-> p0, stack |-> k0]
  BY DEF IsState
<1>2. s.imap = m0 /\ s.profs = p0 /\ s.stack = k0
  BY <1>1
<1>3. /\ \A p : [s EXCEPT !.profs = p] = [imap |-> m0, profs |-> p, stack |-> k0]
      /\ \A p, m : [s EXCEPT !.profs = p, !.imap = m] = [imap |-> m, profs |-> p, stack |-> k0]
      /\ \A k : [s EXCEPT !.stack = k] = [imap |-> m0, profs |-> p0, stack |-> k]
  <2>1. \A p : [s EXCEPT !.profs = p] = [imap |-> m0, profs |-> p, stack |-> k0]
    BY <1>1
  <2>2. \A p, m : [s EXCEPT !.profs = p, !.imap = m] = [imap |-> m, profs |-> p, stack |-> k0]
    <3> TAKE p, m
    <3>1. PICK t : t = [s EXCEPT !.profs = p, !.imap = m]
      OBVIOUS
    <3>2. t = [imap |-> m, profs |-> p, stack |-> k0]
      BY <1>1, <3>1
    <3> QED
      BY <3>1, <3>2
  <2>3. \A k : [s EXCEPT !.stack = k] = [imap |-> m0, profs |-> p0, stack |-> k]
    BY <1>1
  <2> QED
    BY <2>1, <2>2, <2>3
<1> QED
  BY <1>2, <1>3 DEF IsState

(* And back. *)
LEMMA StateOfParts ==
  ASSUME NEW m, NEW p, NEW k, IsPartial(m, Keys, Keys), IsPartial(p, Keys, Profile), k \in Seq(Keys)
  PROVE  IsState([imap |-> m, profs |-> p, stack |-> k])
  BY DEF IsState

(* Put and Keep on partial maps. *)
LEMMA PutPartial ==
  ASSUME NEW f, NEW D, NEW R, IsPartial(f, D, R), NEW k \in D, NEW v \in R
  PROVE  /\ IsPartial(Put(f, k, v), D, R)
         /\ DOMAIN Put(f, k, v) = DOMAIN f \cup {k} /\ Put(f, k, v)[k] = v
         /\ \A x \in DOMAIN f : x # k => Put(f, k, v)[x] = f[x]
  BY DEF IsPartial, Put

(* Keep restricts. *)
LEMMA KeepPartial ==
  ASSUME NEW f, NEW D, NEW R, IsPartial(f, D, R), NEW S
  PROVE  /\ IsPartial(Keep(f, S), D, R)
         /\ DOMAIN Keep(f, S) = DOMAIN f \cap S
         /\ \A x \in DOMAIN f \cap S : Keep(f, S)[x] = f[x]
  BY DEF IsPartial, Keep

(* A profile is its three fields. *)
LEMMA ProfileFields ==
  ASSUME NEW p
  PROVE p \in Profile <=> /\ p = [named |-> p.named, edid |-> p.edid, side |-> p.side]
       /\ p.named \in BOOLEAN /\ p.edid \in EDIDs \cup {NoEdid} /\ p.side \in Sides \cup {NoSide}
  BY DEF Profile

(* Every id has a profile, if only a bare one. *)
LEMMA ProfileOfType ==
  ASSUME NEW s, IsState(s), NEW pid
  PROVE  ProfileOf(s, pid) \in Profile
<1>1. Bare \in Profile
  BY DEF Bare, Profile
<1> QED
  BY <1>1, StateParts DEF ProfileOf, IsPartial

(* What holds of a state between two operations: every identity leads to a     *)
(* named profile, and every profile id is itself a known identity.             *)
Good(s) == IsState(s) /\ Sound(s) /\ DOMAIN s.profs \subseteq DOMAIN s.imap

(* t keeps the profiles of s but those in D, and the sides chosen for them. *)
KeepsSides(s, t, D) ==
  \A k \in DOMAIN s.profs \ D :
    k \in DOMAIN t.profs /\ (s.profs[k].side \in Sides => t.profs[k].side = s.profs[k].side)

(* A merge: the other id is gone, everything that led to it leads to the target. *)
LEMMA MergeGood ==
  ASSUME NEW s, Good(s), NEW target \in DOMAIN s.profs, NEW pid \in DOMAIN s.profs, pid # target,
         NEW t, t = Merge(s, target, pid)
  PROVE  /\ Good(t) /\ DOMAIN t.imap = DOMAIN s.imap /\ t.stack = s.stack
         /\ target \in DOMAIN t.profs /\ t.profs[target].named
         /\ KeepsSides(s, t, {pid})
<1> DEFINE dst == ProfileOf(s, target)
           src == ProfileOf(s, pid)
           q == [named |-> TRUE, edid |-> IF dst.edid = NoEdid THEN src.edid ELSE dst.edid,
                 side |-> IF dst.side = NoSide THEN src.side ELSE dst.side]
           p == Keep(Put(s.profs, target, q), Keys \ {pid})
           m == [k \in DOMAIN s.imap |-> IF s.imap[k] = pid THEN target ELSE s.imap[k]]
<1>1. dst \in Profile /\ src \in Profile /\ dst = s.profs[target]
  BY ProfileOfType DEF Good, ProfileOf
<1>2. q \in Profile
  BY <1>1, ProfileFields DEF Profile
<1>3. target \in Keys /\ pid \in Keys /\ IsPartial(s.profs, Keys, Profile)
      /\ IsPartial(s.imap, Keys, Keys) /\ s.stack \in Seq(Keys)
  BY StateParts DEF Good, IsPartial
<1>4. t = [imap |-> m, profs |-> p, stack |-> s.stack]
  <2>1. t = [s EXCEPT !.profs = p, !.imap = m]
    BY DEF Merge
  <2> HIDE DEF p, m
  <2> QED
    BY <2>1, StateParts DEF Good
<1>5. /\ IsPartial(p, Keys, Profile)
      /\ DOMAIN p = (DOMAIN s.profs \cup {target}) \ {pid}
      /\ p[target] = q
      /\ \A x \in DOMAIN s.profs \ {pid} : x # target => p[x] = s.profs[x]
  <2> HIDE DEF q
  <2>1. IsPartial(Put(s.profs, target, q), Keys, Profile)
        /\ DOMAIN Put(s.profs, target, q) = DOMAIN s.profs \cup {target}
        /\ Put(s.profs, target, q)[target] = q
        /\ \A x \in DOMAIN s.profs : x # target => Put(s.profs, target, q)[x] = s.profs[x]
    <3>1. IsPartial(s.profs, Keys, Profile) /\ target \in Keys /\ q \in Profile
      BY <1>2, <1>3
    <3> HIDE DEF p, m
    <3> QED
      BY <3>1, PutPartial
  <2>2. DOMAIN s.profs \cup {target} \subseteq Keys
    BY <1>3 DEF IsPartial
  <2>3. IsPartial(p, Keys, Profile) /\ DOMAIN p = DOMAIN Put(s.profs, target, q) \cap (Keys \ {pid})
        /\ \A x \in DOMAIN Put(s.profs, target, q) \cap (Keys \ {pid}) : p[x] = Put(s.profs, target, q)[x]
    BY <2>1, KeepPartial
  <2> HIDE DEF p
  <2> QED
    BY <2>1, <2>2, <2>3
<1>6. IsPartial(m, Keys, Keys) /\ DOMAIN m = DOMAIN s.imap
  BY <1>3 DEF IsPartial
<1>7. IsState(t) /\ t.imap = m /\ t.profs = p /\ t.stack = s.stack
  <2> HIDE DEF p, m
  <2> QED
    BY <1>3, <1>4, <1>5, <1>6, StateOfParts
<1>8. \A k \in DOMAIN s.imap : s.imap[k] \in DOMAIN s.profs /\ s.profs[s.imap[k]].named
  BY DEF Good, Sound
<1>9. q.named
  OBVIOUS
<1>10. s.profs[target].side \in Sides => q.side = s.profs[target].side
  BY <1>1, SideAssumption
<1>11. \A k \in DOMAIN m : m[k] \in DOMAIN p /\ p[m[k]].named
  <2> HIDE DEF p, q
  <2> QED
    BY <1>5, <1>8, <1>9
<1> HIDE DEF p, q, m
<1>12. Sound(t) /\ DOMAIN t.profs \subseteq DOMAIN t.imap
  BY <1>5, <1>6, <1>7, <1>11 DEF Sound, Good
<1>13. KeepsSides(s, t, {pid})
  BY <1>5, <1>7, <1>10 DEF KeepsSides
<1> QED
  BY <1>5, <1>6, <1>7, <1>9, <1>12, <1>13 DEF Good

(* An output is known by its connector, and by its EDID if it has one. *)
LEMMA IdentKeys ==
  ASSUME NEW o \in Output
  PROVE  /\ o.name \in ident_keys(o) /\ ident_keys(o) \subseteq Keys
         /\ Seed(o) \in ident_keys(o) /\ Seed(o) \in Keys
         /\ \A k \in ident_keys(o) : k = o.name \/ k = o.edid
<1>1. o.name \in Conns /\ o.edid \in EDIDs \cup {NoEdid}
  BY DEF Output
<1> QED
  BY <1>1 DEF ident_keys, Seed, Keys

(* The output's keys are linked to a named profile. *)
LEMMA LinkGood ==
  ASSUME NEW s, IsState(s), Sound(s), NEW o \in Output, NEW target \in DOMAIN s.profs,
         s.profs[target].named, DOMAIN s.profs \subseteq DOMAIN s.imap \cup ident_keys(o),
         NEW t, t = Link(s, o, target)
  PROVE  /\ Good(t) /\ DOMAIN t.imap = DOMAIN s.imap \cup ident_keys(o) /\ t.stack = s.stack
         /\ t.imap[o.name] = target /\ DOMAIN t.profs = DOMAIN s.profs
         /\ \A k \in DOMAIN s.profs : t.profs[k].side = s.profs[k].side
<1> DEFINE m == [k \in DOMAIN s.imap \cup ident_keys(o) |->
                   IF k \in ident_keys(o) THEN target ELSE s.imap[k]]
           e == IF s.profs[target].edid = NoEdid /\ o.edid \in EDIDs THEN o.edid
                ELSE s.profs[target].edid
           q == [s.profs[target] EXCEPT !.edid = e]
           p == [s.profs EXCEPT ![target] = q]
<1>1. /\ IsPartial(s.imap, Keys, Keys) /\ IsPartial(s.profs, Keys, Profile)
      /\ s.stack \in Seq(Keys) /\ target \in Keys /\ s.profs[target] \in Profile
  BY StateParts DEF IsPartial
<1>2. ident_keys(o) \subseteq Keys /\ o.name \in ident_keys(o)
  BY IdentKeys
<1>3. q \in Profile /\ q.named = s.profs[target].named /\ q.side = s.profs[target].side
  <2>1. e \in EDIDs \cup {NoEdid}
    BY <1>1 DEF Profile
  <2> HIDE DEF e
  <2> QED
    BY <1>1, <2>1 DEF Profile
<1>4. t = [imap |-> m, profs |-> p, stack |-> s.stack]
  <2>1. t = [s EXCEPT !.profs = p, !.imap = m]
    BY DEF Link
  <2> HIDE DEF p, m
  <2> QED
    BY <2>1, StateParts
<1> HIDE DEF q
<1>5. /\ IsPartial(p, Keys, Profile) /\ DOMAIN p = DOMAIN s.profs /\ p[target] = q
      /\ \A k \in DOMAIN s.profs : k # target => p[k] = s.profs[k]
  BY <1>1, <1>3 DEF IsPartial
<1>6. /\ IsPartial(m, Keys, Keys) /\ DOMAIN m = DOMAIN s.imap \cup ident_keys(o)
      /\ m[o.name] = target
      /\ \A k \in DOMAIN m : m[k] = target \/ (k \in DOMAIN s.imap /\ m[k] = s.imap[k])
  BY <1>1, <1>2 DEF IsPartial
<1> HIDE DEF p, m
<1>7. IsState(t) /\ t.imap = m /\ t.profs = p /\ t.stack = s.stack
  BY <1>1, <1>4, <1>5, <1>6, StateOfParts
<1>8. \A k \in DOMAIN m : m[k] \in DOMAIN p /\ p[m[k]].named
  BY <1>3, <1>5, <1>6 DEF Sound
<1>9. Sound(t) /\ DOMAIN t.profs \subseteq DOMAIN t.imap
  BY <1>5, <1>6, <1>7, <1>8 DEF Sound
<1> QED
  BY <1>3, <1>5, <1>6, <1>7, <1>9 DEF Good

(* A profile made for an output nothing is known of. *)
LEMMA NewGood ==
  ASSUME NEW s, Good(s), NEW o \in Output, NEW t, t = NewProfile(s, o)
  PROVE  /\ IsState(t) /\ Sound(t) /\ t.imap = s.imap /\ t.stack = s.stack
         /\ DOMAIN t.profs = DOMAIN s.profs \cup {Seed(o)} /\ t.profs[Seed(o)].named
         /\ \A k \in DOMAIN s.profs : k # Seed(o) => t.profs[k] = s.profs[k]
<1> DEFINE q == [named |-> TRUE, edid |-> IF o.edid \in EDIDs THEN o.edid ELSE NoEdid,
                 side |-> DefaultSide]
           p == Put(s.profs, Seed(o), q)
<1>1. /\ IsPartial(s.imap, Keys, Keys) /\ IsPartial(s.profs, Keys, Profile)
      /\ s.stack \in Seq(Keys) /\ Seed(o) \in Keys
  BY StateParts, IdentKeys DEF Good
<1>2. q \in Profile /\ q.named
  BY SideAssumption DEF Profile
<1>3. t = [imap |-> s.imap, profs |-> p, stack |-> s.stack]
  BY StateParts DEF Good, NewProfile
<1> HIDE DEF q
<1>4. /\ IsPartial(p, Keys, Profile) /\ DOMAIN p = DOMAIN s.profs \cup {Seed(o)}
      /\ p[Seed(o)] = q /\ \A k \in DOMAIN s.profs : k # Seed(o) => p[k] = s.profs[k]
  <2>1. IsPartial(s.profs, Keys, Profile) /\ Seed(o) \in Keys /\ q \in Profile
    BY <1>1, <1>2
  <2>2. PICK x, r, f : x = Seed(o) /\ r = q /\ f = Put(s.profs, x, r)
    OBVIOUS
  <2>3. x \in Keys /\ r \in Profile /\ IsPartial(s.profs, Keys, Profile)
    BY <2>1, <2>2
  <2>4. /\ IsPartial(f, Keys, Profile) /\ DOMAIN f = DOMAIN s.profs \cup {x}
        /\ f[x] = r /\ \A k \in DOMAIN s.profs : k # x => f[k] = s.profs[k]
    BY <2>2, <2>3, PutPartial
  <2> QED
    BY <2>2, <2>4
<1> HIDE DEF p
<1>5. IsState(t) /\ t.imap = s.imap /\ t.profs = p /\ t.stack = s.stack
  BY <1>1, <1>3, <1>4, StateOfParts
<1>6. Sound(t)
  BY <1>2, <1>4, <1>5 DEF Good, Sound
<1> QED
  BY <1>2, <1>4, <1>5, <1>6

(* ensure_profile, whichever way it takes, loses no profile but a merged one. *)
LEMMA EnsureGood ==
  ASSUME NEW s, Good(s), NEW o \in Output, NEW t, t = ensure_profile(s, o)
  PROVE  /\ Good(t) /\ o.name \in DOMAIN t.imap /\ DOMAIN s.imap \subseteq DOMAIN t.imap
         /\ t.stack = s.stack /\ KeepsSides(s, t, MergedInto(s, o))
         /\ MergedInto(s, o) \subseteq Keys
<1> DEFINE target == Target(s, o)
<1>1. /\ KnownKeys(s, o) \subseteq DOMAIN s.imap /\ KnownKeys(s, o) \subseteq ident_keys(o)
      /\ \A k \in KnownKeys(s, o) : s.imap[k] \in DOMAIN s.profs /\ s.profs[s.imap[k]].named
  BY DEF KnownKeys, Good, Sound
<1>2. DOMAIN s.profs \subseteq Keys
  BY StateParts DEF Good, IsPartial
<1>3. MergedInto(s, o) \subseteq DOMAIN s.profs
  BY <1>1 DEF MergedInto
<1>4. ASSUME NEW k, IsState(k), Sound(k), target \in DOMAIN k.profs, k.profs[target].named,
             DOMAIN k.profs \subseteq DOMAIN k.imap \cup ident_keys(o), k.stack = s.stack,
             DOMAIN s.imap \subseteq DOMAIN k.imap, KeepsSides(s, k, MergedInto(s, o)),
             t = Link(k, o, target)
      PROVE  /\ Good(t) /\ o.name \in DOMAIN t.imap /\ DOMAIN s.imap \subseteq DOMAIN t.imap
             /\ t.stack = s.stack /\ KeepsSides(s, t, MergedInto(s, o))
  <2> HIDE DEF target
  <2>1. /\ Good(t) /\ DOMAIN t.imap = DOMAIN k.imap \cup ident_keys(o) /\ t.stack = k.stack
        /\ DOMAIN t.profs = DOMAIN k.profs
        /\ \A x \in DOMAIN k.profs : t.profs[x].side = k.profs[x].side
    BY <1>4, LinkGood
  <2> QED
    BY <1>4, <2>1, IdentKeys DEF KeepsSides
<1>5. CASE KnownKeys(s, o) = {}
  <2>1. target = Seed(o) /\ t = Link(NewProfile(s, o), o, target)
    BY <1>5 DEF Target, ensure_profile
  <2>2. PICK k : k = NewProfile(s, o)
    OBVIOUS
  <2>3. /\ IsState(k) /\ Sound(k) /\ k.imap = s.imap /\ k.stack = s.stack
        /\ DOMAIN k.profs = DOMAIN s.profs \cup {Seed(o)} /\ k.profs[Seed(o)].named
        /\ \A x \in DOMAIN s.profs : x # Seed(o) => k.profs[x] = s.profs[x]
    BY <2>2, NewGood
  <2>4. Seed(o) \notin DOMAIN s.profs
    BY <1>5, IdentKeys DEF KnownKeys, Good
  <2>5. KeepsSides(s, k, MergedInto(s, o))
    BY <2>3, <2>4 DEF KeepsSides
  <2>6. DOMAIN k.profs \subseteq DOMAIN k.imap \cup ident_keys(o)
    BY <2>3, IdentKeys DEF Good
  <2> HIDE DEF target
  <2> QED
    BY <1>2, <1>3, <1>4, <2>1, <2>2, <2>3, <2>5, <2>6
<1>6. CASE KnownKeys(s, o) # {}
  <2>1. target \in DOMAIN s.profs /\ s.profs[target].named
    BY <1>1, <1>6, IdentKeys DEF Target, KnownKeys
  <2>2. CASE MergedInto(s, o) = {}
    <3>1. t = Link(s, o, target)
      BY <1>6, <2>2 DEF ensure_profile
    <3>2. KeepsSides(s, s, MergedInto(s, o)) /\ DOMAIN s.profs \subseteq DOMAIN s.imap \cup ident_keys(o)
      BY DEF KeepsSides, Good
    <3> HIDE DEF target
    <3> QED
      BY <1>2, <1>3, <1>4, <2>1, <3>1, <3>2 DEF Good
  <2>3. CASE MergedInto(s, o) # {}
    <3>1. PICK pid : pid = CHOOSE x \in MergedInto(s, o) : TRUE
      OBVIOUS
    <3>2. pid \in MergedInto(s, o)
      BY <2>3, <3>1
    <3>3. pid \in DOMAIN s.profs /\ pid # target
      BY <1>3, <3>2 DEF MergedInto
    <3>4. t = Link(Merge(s, target, pid), o, target)
      BY <1>6, <2>3, <3>1 DEF ensure_profile
    <3>5. PICK k : k = Merge(s, target, pid)
      OBVIOUS
    <3> HIDE DEF target
    <3>6. /\ Good(k) /\ DOMAIN k.imap = DOMAIN s.imap /\ k.stack = s.stack
          /\ target \in DOMAIN k.profs /\ k.profs[target].named /\ KeepsSides(s, k, {pid})
      <4>1. Good(s) /\ target \in DOMAIN s.profs /\ pid \in DOMAIN s.profs /\ pid # target
        BY <2>1, <3>3
      <4> QED
        BY <3>5, <4>1, MergeGood
    <3>7. KeepsSides(s, k, MergedInto(s, o)) /\ DOMAIN k.profs \subseteq DOMAIN k.imap \cup ident_keys(o)
      BY <3>2, <3>6 DEF KeepsSides, Good
    <3> QED
      BY <1>2, <1>3, <1>4, <3>4, <3>5, <3>6, <3>7 DEF Good
  <2> QED
    BY <2>2, <2>3
<1> QED
  BY <1>5, <1>6, <1>2, <1>3

(* --set-pref changes the side of one profile that exists, and nothing else. *)
LEMMA SetSideGood ==
  ASSUME NEW s, Good(s), NEW pid \in DOMAIN s.profs, NEW side \in Sides,
         NEW t, t = SetSide(s, pid, side)
  PROVE  /\ Good(t) /\ t.imap = s.imap /\ t.stack = s.stack /\ DOMAIN t.profs = DOMAIN s.profs
         /\ t.profs[pid].side = side
         /\ \A k \in DOMAIN s.profs : k # pid => t.profs[k] = s.profs[k]
<1> DEFINE q == [ProfileOf(s, pid) EXCEPT !.side = side]
           p == Put(s.profs, pid, q)
<1>1. /\ IsPartial(s.imap, Keys, Keys) /\ IsPartial(s.profs, Keys, Profile)
      /\ s.stack \in Seq(Keys) /\ pid \in Keys /\ s.profs[pid] \in Profile
  BY StateParts DEF Good, IsPartial
<1>2. q \in Profile /\ q.named = s.profs[pid].named /\ q.side = side
  BY <1>1 DEF Profile, ProfileOf
<1>3. t = [imap |-> s.imap, profs |-> p, stack |-> s.stack]
  BY StateParts DEF Good, SetSide
<1> HIDE DEF q
<1>4. /\ IsPartial(p, Keys, Profile) /\ DOMAIN p = DOMAIN s.profs \cup {pid}
      /\ p[pid] = q /\ \A k \in DOMAIN s.profs : k # pid => p[k] = s.profs[k]
  <2>1. IsPartial(s.profs, Keys, Profile) /\ pid \in Keys /\ q \in Profile
    BY <1>1, <1>2
  <2>2. PICK f : f = Put(s.profs, pid, q)
    OBVIOUS
  <2>3. /\ IsPartial(f, Keys, Profile) /\ DOMAIN f = DOMAIN s.profs \cup {pid}
        /\ f[pid] = q /\ \A k \in DOMAIN s.profs : k # pid => f[k] = s.profs[k]
    BY <2>1, <2>2, PutPartial
  <2> QED
    BY <2>2, <2>3
<1> HIDE DEF p
<1>5. IsState(t) /\ t.imap = s.imap /\ t.profs = p /\ t.stack = s.stack
  BY <1>1, <1>3, <1>4, StateOfParts
<1>6. Sound(t) /\ DOMAIN t.profs \subseteq DOMAIN t.imap
  BY <1>2, <1>4, <1>5 DEF Good, Sound
<1> QED
  BY <1>2, <1>4, <1>5, <1>6 DEF Good

(* A resurrected profile is bare, and an id nobody leads to. *)
LEMMA WithProfilesGood ==
  ASSUME NEW s, Good(s), NEW ids, ids \subseteq DOMAIN s.imap, NEW t, t = WithProfiles(s, ids)
  PROVE  Good(t) /\ t.imap = s.imap /\ t.stack = s.stack /\ KeepsSides(s, t, {})
<1> DEFINE p == [k \in DOMAIN s.profs \cup ids |-> IF k \in DOMAIN s.profs THEN s.profs[k] ELSE Bare]
<1>1. /\ IsPartial(s.imap, Keys, Keys) /\ IsPartial(s.profs, Keys, Profile) /\ s.stack \in Seq(Keys)
  BY StateParts DEF Good
<1>2. t = [imap |-> s.imap, profs |-> p, stack |-> s.stack]
  BY StateParts DEF Good, WithProfiles
<1>3. Bare \in Profile
  BY DEF Bare, Profile
<1>4. /\ IsPartial(p, Keys, Profile) /\ DOMAIN p = DOMAIN s.profs \cup ids
      /\ \A k \in DOMAIN s.profs : p[k] = s.profs[k]
  BY <1>1, <1>3 DEF IsPartial
<1> HIDE DEF p
<1>5. IsState(t) /\ t.imap = s.imap /\ t.profs = p /\ t.stack = s.stack
  BY <1>1, <1>2, <1>4, StateOfParts
<1>6. Sound(t) /\ DOMAIN t.profs \subseteq DOMAIN t.imap
  BY <1>4, <1>5 DEF Good, Sound
<1> QED
  BY <1>4, <1>5, <1>6 DEF Good, KeepsSides

(* The attach stack: no id twice, and no two ids of the old one exchanged. *)
LEMMA AttachStack ==
  ASSUME NEW stack \in Seq(Keys), NEW cur \in Seq(Keys), Distinct(stack),
         NEW n, n = attach_stack(stack, cur)
  PROVE  /\ n \in Seq(Keys) /\ Distinct(n)
         /\ \A x, y : Before(x, y, stack) => ~ Before(y, x, n)
<1>1. PICK k : k = Only(stack, Elements(cur))
  OBVIOUS
<1>2. PICK I : I = {i \in FirstSeen(cur) : cur[i] \notin Elements(k)}
  OBVIOUS
<1>3. PICK a : a = Subsequence(cur, I)
  OBVIOUS
<1>4. n = k \o a
  BY <1>1, <1>2, <1>3 DEF attach_stack, AppendNew
<1>5. /\ k \in Seq(Keys) /\ InOrder(k, stack, {i \in 1..Len(stack) : stack[i] \in Elements(cur)})
      /\ a \in Seq(Keys) /\ InOrder(a, cur, I \cap 1..Len(cur))
  BY <1>1, <1>3, OnlyProperties, SubsequenceProperties, SubsequenceOrder
<1>6. /\ Len(k) \in Nat /\ Len(a) \in Nat /\ Len(stack) \in Nat /\ Len(cur) \in Nat
      /\ DOMAIN stack = 1..Len(stack)
  BY <1>5, LenProperties
<1>7. /\ n \in Seq(Keys) /\ Len(n) = Len(k) + Len(a) /\ DOMAIN n = 1..Len(n)
      /\ \A i \in 1..Len(k) : n[i] = k[i]
      /\ \A i \in Len(k)+1..Len(n) : i - Len(k) \in 1..Len(a) /\ n[i] = a[i - Len(k)]
  <2>1. /\ n \in Seq(Keys) /\ Len(n) = Len(k) + Len(a)
        /\ \A i \in 1..Len(k) + Len(a) : n[i] = IF i <= Len(k) THEN k[i] ELSE a[i - Len(k)]
    BY <1>4, <1>5, ConcatProperties
  <2>2. DOMAIN n = 1..Len(n)
    BY <2>1, LenProperties
  <2> QED
    BY <1>6, <2>1, <2>2
<1>8. Distinct(k)
  BY <1>5, <1>6, InOrderDistinct
<1>9. \A i \in 1..Len(a) : /\ \E j \in 1..Len(cur) : a[i] = cur[j]
                           /\ \A j \in 1..Len(k) : k[j] # a[i]
  <2> SUFFICES ASSUME NEW i \in 1..Len(a)
               PROVE  /\ \E j \in 1..Len(cur) : a[i] = cur[j]
                      /\ \A j \in 1..Len(k) : k[j] # a[i]
    OBVIOUS
  <2>1. PICK m \in I \cap 1..Len(cur) : a[i] = cur[m]
    BY <1>5 DEF InOrder
  <2>2. cur[m] \notin Elements(k)
    BY <1>2
  <2> QED
    BY <2>1, <2>2 DEF Elements
<1>10. Distinct(a)
  <2>1. ASSUME NEW i \in I \cap 1..Len(cur), NEW l \in I \cap 1..Len(cur), i < l
        PROVE  cur[i] # cur[l]
    BY <1>2, <1>6, <2>1 DEF FirstSeen
  <2>2. \A i, j \in 1..Len(a) : i < j => a[i] # a[j]
    <3> TAKE i, j \in 1..Len(a)
    <3> HAVE i < j
    <3>1. PICK u \in I \cap 1..Len(cur), v \in I \cap 1..Len(cur) :
            u < v /\ a[i] = cur[u] /\ a[j] = cur[v]
      BY <1>5 DEF InOrder
    <3> QED
      BY <2>1, <3>1
  <2> QED
    BY <1>6, <2>2 DEF Distinct
<1>11. Distinct(n)
  <2> SUFFICES ASSUME NEW i \in 1..Len(n), NEW j \in 1..Len(n), n[i] = n[j], i < j PROVE FALSE
    BY <1>6, <1>7 DEF Distinct
  <2>1. CASE j <= Len(k)
    BY <1>6, <1>7, <1>8, <2>1 DEF Distinct
  <2>2. CASE i <= Len(k) /\ j > Len(k)
    <3>1. n[i] = k[i] /\ i \in 1..Len(k)
      BY <1>6, <1>7, <2>2
    <3>2. j - Len(k) \in 1..Len(a) /\ n[j] = a[j - Len(k)]
      BY <1>6, <1>7, <2>2
    <3> QED
      BY <1>9, <3>1, <3>2
  <2>3. CASE i > Len(k)
    <3>1. i - Len(k) \in 1..Len(a) /\ n[i] = a[i - Len(k)]
      BY <1>6, <1>7, <2>3
    <3>2. j - Len(k) \in 1..Len(a) /\ n[j] = a[j - Len(k)]
      BY <1>6, <1>7, <2>3
    <3>3. i - Len(k) = j - Len(k)
      BY <1>10, <3>1, <3>2 DEF Distinct
    <3> QED
      BY <1>6, <1>7, <3>3
  <2> QED
    BY <1>6, <1>7, <2>1, <2>2, <2>3
<1>12. ASSUME NEW x, NEW y, Before(x, y, stack), Before(y, x, n) PROVE FALSE
  <2>1. PICK i \in 1..Len(stack), j \in 1..Len(stack) : i < j /\ stack[i] = x /\ stack[j] = y
    BY <1>6, <1>12 DEF Before
  <2>2. PICK p \in 1..Len(n), q \in 1..Len(n) : p < q /\ n[p] = y /\ n[q] = x
    BY <1>7, <1>12 DEF Before
  <2>3. CASE q <= Len(k)
    <3>1. p \in 1..Len(k) /\ q \in 1..Len(k) /\ k[p] = y /\ k[q] = x
      BY <1>6, <1>7, <2>2, <2>3
    <3>2. PICK u \in 1..Len(stack), v \in 1..Len(stack) : u < v /\ stack[u] = y /\ stack[v] = x
      <4>1. PICK u \in {m \in 1..Len(stack) : stack[m] \in Elements(cur)},
                 v \in {m \in 1..Len(stack) : stack[m] \in Elements(cur)} :
              u < v /\ k[p] = stack[u] /\ k[q] = stack[v]
        BY <1>5, <2>2, <3>1 DEF InOrder
      <4> QED
        BY <3>1, <4>1
    <3>3. u = j /\ v = i
      BY <2>1, <3>2 DEF Distinct
    <3> QED
      BY <1>6, <2>1, <3>2, <3>3
  <2>4. CASE q > Len(k)
    <3>1. q - Len(k) \in 1..Len(a) /\ x = a[q - Len(k)]
      BY <1>6, <1>7, <2>2, <2>4
    <3>2. x \in Elements(cur) /\ \A l \in 1..Len(k) : k[l] # x
      BY <1>9, <3>1 DEF Elements
    <3>3. \E l \in 1..Len(k) : k[l] = x
      BY <1>5, <2>1, <3>2 DEF InOrder
    <3> QED
      BY <3>2, <3>3
  <2> QED
    BY <1>6, <1>7, <2>3, <2>4
<1> QED
  BY <1>7, <1>11, <1>12

(***************************************************************************)
(* The invariant about what is stored.                                     *)
(***************************************************************************)
Monitors == EDIDs \cup {NoEdid, Unplugged}

(* The functions on Procs, and the file between two saves. *)
Frame ==
  /\ plugged \in [Conns -> Monitors]
  /\ applyLock \in SUBSET Appliers /\ stateLock \in SUBSET Procs
  /\ at \in [Procs -> Points] /\ outs \in [Procs -> Seq(Output)]
  /\ arg \in [Procs -> Args \cup {NoArg}]
  /\ matched \in [Procs -> SUBSET Keys] /\ dropped \in [Procs -> SUBSET Keys]
  /\ DOMAIN st = Procs /\ DOMAIN pids = Procs /\ DOMAIN base = Procs
  /\ swaps \in 0..MaxSwap /\ runs \in 0..MaxRun /\ fails \in 0..MaxFail
FileInv ==
  /\ Good(file) /\ Distinct(file.stack)
  /\ IsPartial(chosen, Keys, Sides) /\ PrefKept

(* What --set-pref has chosen, this process's choice included, stands in its   *)
(* copy of the state.                                                          *)
SidesStand(p) ==
  \A k \in (DOMAIN chosen \cup matched[p]) \ dropped[p] :
    /\ k \in DOMAIN st[p].profs
    /\ st[p].profs[k].side = IF k \in matched[p] THEN arg[p].side ELSE chosen[k]

(* Its copy of the stack has exchanged no two ids of the file's. *)
OrderStands(p) ==
  /\ at[p] = "ensure" /\ dropped[p] # Keys => st[p].stack = file.stack
  /\ \A x, y \in Keys \ dropped[p] :
       Before(x, y, file.stack) => ~ Before(y, x, st[p].stack)

ProcInv(p) ==
  /\ Good(st[p]) /\ Distinct(st[p].stack) /\ IsState(base[p])
  /\ IsPartial(pids[p], Conns, Keys)
  /\ \A c \in DOMAIN pids[p] : pids[p][c] \in DOMAIN st[p].imap
  /\ p \in Setters /\ at[p] # "idle" => arg[p] \in Args
  /\ p \in Appliers => matched[p] = {}
  /\ ~ Working(p) => matched[p] = {} /\ dropped[p] = {} /\ pids[p] = <<>>
  /\ Working(p) => SidesStand(p) /\ OrderStands(p)

StateInv == Frame /\ FileInv /\ \A p \in Procs : ProcInv(p)

(* The empty state, with no name, no profile and no stack. *)
LEMMA EmptyGood ==
  /\ Good(EmptyState) /\ Distinct(EmptyState.stack)
  /\ \A D, R : IsPartial(<<>>, D, R) /\ DOMAIN <<>> = {}
<1>1. DOMAIN <<>> = {}
  OBVIOUS
<1>2. \A D, R : IsPartial(<<>>, D, R)
  BY <1>1 DEF IsPartial
<1>3. /\ EmptyState = [imap |-> <<>>, profs |-> <<>>, stack |-> <<>>]
      /\ EmptyState.imap = <<>> /\ EmptyState.profs = <<>> /\ EmptyState.stack = <<>>
  BY DEF EmptyState
<1>4. IsState(EmptyState)
  BY <1>2, <1>3, StateOfParts, EmptySeq
<1>5. Sound(EmptyState) /\ DOMAIN EmptyState.profs \subseteq DOMAIN EmptyState.imap
  BY <1>1, <1>3 DEF Sound
<1>6. Distinct(EmptyState.stack)
  BY <1>3, EmptySeq DEF Distinct
<1> QED
  BY <1>1, <1>2, <1>4, <1>5, <1>6 DEF Good

(* A list made of another one, element by element. *)
LEMMA MapSeq ==
  ASSUME NEW S, NEW n \in Nat, NEW t, t \in [1..n -> S]
  PROVE  t \in Seq(S)
  BY SeqDef

(* The outputs of a read. *)
LEMMA ConnectedType ==
  ASSUME plugged \in [Conns -> Monitors], NEW cs
  PROVE  Connected(cs) \in Seq(Output)
<1>1. PICK order : order = Only(ReadOrder, cs \cap On)
  OBVIOUS
<1>2. /\ order \in Seq(Conns)
      /\ InOrder(order, ReadOrder, {i \in 1..Len(ReadOrder) : ReadOrder[i] \in cs \cap On})
  BY <1>1, OrderAssumption, OnlyProperties
<1>3. Len(order) \in Nat
  BY <1>2, LenProperties
<1>4. ASSUME NEW i \in 1..Len(order)
      PROVE  [name |-> order[i], edid |-> plugged[order[i]]] \in Output
  <2>1. order[i] \in On
    BY <1>2 DEF InOrder
  <2>2. order[i] \in Conns /\ plugged[order[i]] \in EDIDs \cup {NoEdid}
    BY <2>1 DEF On, Monitors
  <2> QED
    BY <2>2 DEF Output
<1>5. Connected(cs) = [i \in 1..Len(order) |-> [name |-> order[i], edid |-> plugged[order[i]]]]
  BY <1>1 DEF Connected
<1>6. Connected(cs) \in [1..Len(order) -> Output]
  BY <1>4, <1>5
<1> QED
  BY <1>3, <1>6, MapSeq

(* The ids of the placed connectors. *)
LEMMA CurPidsType ==
  ASSUME NEW p, IsPartial(pids[p], Conns, Keys)
  PROVE  CurPids(p) \in Seq(Keys)
<1>1. PICK exts : exts = Only(ReadOrder, DOMAIN pids[p])
  OBVIOUS
<1>2. /\ exts \in Seq(Conns)
      /\ InOrder(exts, ReadOrder, {i \in 1..Len(ReadOrder) : ReadOrder[i] \in DOMAIN pids[p]})
  BY <1>1, OrderAssumption, OnlyProperties
<1>3. Len(exts) \in Nat
  BY <1>2, LenProperties
<1>4. \A i \in 1..Len(exts) : exts[i] \in DOMAIN pids[p]
  BY <1>2 DEF InOrder
<1>5. CurPids(p) = [i \in 1..Len(exts) |-> pids[p][exts[i]]]
  BY <1>1 DEF CurPids
<1>6. CurPids(p) \in [1..Len(exts) -> Keys]
  BY <1>4, <1>5 DEF IsPartial
<1> QED
  BY <1>3, <1>6, MapSeq

(* Nothing is stored at first, and nobody works. *)
LEMMA InitStateInv == Init => StateInv
<1> SUFFICES ASSUME Init PROVE StateInv
  OBVIOUS
<1>1. Frame
  <2>1. <<>> \in Seq(Output) /\ MaxSwap \in Nat /\ MaxRun \in Nat /\ MaxFail \in Nat
    BY EmptySeq, BoundAssumption
  <2> QED
    BY <2>1 DEF Init, Frame, Points, Monitors
<1>2. FileInv
  BY EmptyGood DEF Init, FileInv, PrefKept
<1>3. ASSUME NEW p \in Procs PROVE ProcInv(p)
  <2>1. /\ at[p] = "idle" /\ st[p] = EmptyState /\ pids[p] = <<>> /\ matched[p] = {}
        /\ base[p] = EmptyState /\ dropped[p] = {}
    BY DEF Init
  <2>2. ~ Working(p)
    BY <2>1 DEF Working
  <2> QED
    BY <2>1, <2>2, EmptyGood DEF ProcInv, Good
<1> QED
  BY <1>1, <1>2, <1>3 DEF StateInv

(* A process that does not move keeps its part of the invariant. *)
LEMMA OthersKeep ==
  ASSUME NEW q \in Procs, ProcInv(q),
         at'[q] = at[q], st'[q] = st[q], pids'[q] = pids[q], arg'[q] = arg[q],
         matched'[q] = matched[q], base'[q] = base[q], dropped'[q] = dropped[q],
         (file' = file /\ chosen' = chosen) \/ ~ Working(q)
  PROVE  ProcInv(q)'
<1>1. Working(q)' <=> Working(q)
  BY DEF Working
<1>2. CASE ~ Working(q)
  BY <1>1, <1>2 DEF ProcInv
<1>3. CASE Working(q)
  <2>1. file' = file /\ chosen' = chosen
    BY <1>3
  <2>2. SidesStand(q)' /\ OrderStands(q)'
    BY <1>3, <2>1 DEF ProcInv, SidesStand, OrderStands
  <2> QED
    BY <1>1, <1>3, <2>2 DEF ProcInv
<1> QED
  BY <1>2, <1>3

(* One process moves, the others are as they were. *)
LEMMA OneMoves ==
  ASSUME StateInv, Frame', FileInv', NEW p \in Procs, ProcInv(p)',
         \A q \in Procs \ {p} :
           /\ at'[q] = at[q] /\ st'[q] = st[q] /\ pids'[q] = pids[q] /\ arg'[q] = arg[q]
           /\ matched'[q] = matched[q] /\ base'[q] = base[q] /\ dropped'[q] = dropped[q],
         (file' = file /\ chosen' = chosen) \/ \A q \in Procs \ {p} : ~ Working(q)
  PROVE  StateInv'
<1>1. ASSUME NEW q \in Procs PROVE ProcInv(q)'
  <2>1. CASE q = p
    BY <2>1
  <2>2. CASE q # p
    <3>1. ProcInv(q)
      BY DEF StateInv
    <3> QED
      BY <2>2, <3>1, OthersKeep
  <2> QED
    BY <2>1, <2>2
<1> QED
  BY <1>1 DEF StateInv

(* The file and what was chosen stay sound while they are left alone. *)
LEMMA FileKept ==
  ASSUME StateInv, UNCHANGED <<file, chosen>>
  PROVE  FileInv'
  BY DEF StateInv, FileInv, PrefKept

(* The environment swaps monitors. *)
LEMMA RecableKeeps ==
  ASSUME StateInv, NEW c \in Conns, NEW e \in Monitors, Recable(c, e)
  PROVE  StateInv'
<1>1. /\ UNCHANGED <<file, chosen, applyLock, stateLock, at, outs, st, pids, arg, matched, base,
                     dropped, runs, fails>>
      /\ swaps < MaxSwap /\ swaps' = swaps + 1 /\ plugged' = [plugged EXCEPT ![c] = e]
  BY DEF Recable, procVars, Set
<1>2. Frame
  BY DEF StateInv
<1>3. swaps' \in 0..MaxSwap
  BY <1>1, <1>2, BoundAssumption DEF Frame
<1>4. plugged' \in [Conns -> Monitors]
  BY <1>1, <1>2 DEF Frame
<1>5. Frame'
  BY <1>1, <1>2, <1>3, <1>4 DEF Frame
<1>6. ASSUME NEW q \in Procs PROVE ProcInv(q)'
  <2>1. ProcInv(q)
    BY DEF StateInv
  <2> QED
    BY <1>1, <2>1, OthersKeep
<1> QED
  BY <1>1, <1>5, <1>6, FileKept DEF StateInv

(* An apply or a --set-pref starts. *)
LEMMA BeginKeeps ==
  ASSUME StateInv, NEW p \in Procs, at[p] = "idle", at' = Set(at, p, "wait"),
         Start, NEW cs, outs' = Set(outs, p, Connected(cs)),
         applyLock' \in SUBSET Appliers,
         \/ arg' = arg /\ p \in Appliers
         \/ p \in Setters /\ \E a \in Args : arg' = Set(arg, p, a),
         UNCHANGED <<plugged, file, stateLock, st, pids, matched, base, dropped, swaps, fails, chosen>>
  PROVE  StateInv'
<1>1. Frame /\ ProcInv(p)
  BY DEF StateInv
<1>2. Connected(cs) \in Seq(Output)
  BY <1>1, ConnectedType DEF Frame
<1>3. runs' \in 0..MaxRun
  BY <1>1, BoundAssumption DEF Start, Frame
<1>4. /\ arg' \in [Procs -> Args \cup {NoArg}] /\ (p \in Setters => arg'[p] \in Args)
      /\ \A q \in Procs \ {p} : arg'[q] = arg[q]
  BY <1>1, RoleAssumption DEF Frame, Set
<1>5. at' \in [Procs -> Points] /\ outs' \in [Procs -> Seq(Output)]
  BY <1>1, <1>2 DEF Frame, Set, Points
<1>6. Frame'
  BY <1>1, <1>3, <1>4, <1>5 DEF Frame
<1>7. at'[p] = "wait" /\ \A q \in Procs \ {p} : at'[q] = at[q]
  BY <1>1 DEF Frame, Set
<1>8. ~ Working(p) /\ ~ Working(p)'
  BY <1>7 DEF Working
<1>9. ProcInv(p)'
  BY <1>1, <1>4, <1>8 DEF ProcInv
<1> QED
  BY <1>4, <1>6, <1>7, <1>9, OneMoves, FileKept

(* A process takes the lock and loads the file, or nothing.  What --set-pref    *)
(* has chosen stands in what it loaded because it stands in the file.           *)
LEMMA LoadKeeps ==
  ASSUME StateInv, NEW p \in Procs, LockAndLoad(p)
  PROVE  StateInv'
<1>1. Frame /\ FileInv /\ ProcInv(p)
  BY DEF StateInv
<1>2. /\ at[p] = "wait" /\ stateLock' = {p} /\ at' = [at EXCEPT ![p] = "ensure"]
      /\ base' = [base EXCEPT ![p] = file]
      /\ UNCHANGED <<plugged, file, applyLock, outs, pids, arg, matched, swaps, runs, chosen>>
  BY DEF LockAndLoad, StateLockFree, Set
<1>3. matched[p] = {} /\ dropped[p] = {} /\ pids[p] = <<>>
  BY <1>1, <1>2 DEF ProcInv, Working
<1>4. \/ st' = [st EXCEPT ![p] = file] /\ fails' = fails /\ dropped' = dropped
      \/ st' = [st EXCEPT ![p] = EmptyState] /\ dropped' = [dropped EXCEPT ![p] = Keys]
         /\ fails < MaxFail /\ fails' = fails + 1
  BY DEF LockAndLoad, Set, Fault
<1>5. fails' \in 0..MaxFail
  BY <1>1, <1>4, BoundAssumption DEF Frame
<1>6. dropped' \in [Procs -> SUBSET Keys]
  BY <1>1, <1>4 DEF Frame
<1>7. at' \in [Procs -> Points] /\ stateLock' \in SUBSET Procs
  BY <1>1, <1>2 DEF Frame, Points
<1>8. DOMAIN st' = Procs /\ DOMAIN base' = Procs
  BY <1>1, <1>2, <1>4 DEF Frame
<1>9. Frame'
  BY <1>1, <1>2, <1>5, <1>6, <1>7, <1>8 DEF Frame
<1>10. /\ at'[p] = "ensure" /\ base'[p] = file
       /\ (st'[p] = file /\ dropped'[p] = {}) \/ (st'[p] = EmptyState /\ dropped'[p] = Keys)
  <2>1. at'[p] = "ensure" /\ base'[p] = file
    BY <1>1, <1>2 DEF Frame
  <2>2. (st'[p] = file /\ dropped'[p] = {}) \/ (st'[p] = EmptyState /\ dropped'[p] = Keys)
    BY <1>1, <1>3, <1>4 DEF Frame
  <2> QED
    BY <2>1, <2>2
<1>11. Good(st'[p]) /\ Distinct(st'[p].stack)
  BY <1>1, <1>10, EmptyGood DEF FileInv
<1>12. DOMAIN chosen \subseteq Keys
  BY <1>1 DEF FileInv, IsPartial
<1>13. SidesStand(p)'
  BY <1>1, <1>2, <1>3, <1>10, <1>12 DEF SidesStand, FileInv, PrefKept
<1>14. OrderStands(p)'
  <2>1. ASSUME NEW x, NEW y, Before(x, y, file.stack) PROVE ~ Before(y, x, file.stack)
    <3>1. DOMAIN file.stack = 1..Len(file.stack) /\ Len(file.stack) \in Nat
      BY <1>1, StateParts, LenProperties DEF FileInv, Good
    <3> QED
      BY <1>1, <2>1, <3>1 DEF Before, FileInv, Distinct
  <2>2. CASE st'[p] = file
    BY <1>2, <2>1, <2>2 DEF OrderStands
  <2>3. CASE dropped'[p] = Keys
    BY <2>3 DEF OrderStands
  <2> QED
    BY <1>10, <2>2, <2>3
<1>15. ProcInv(p)'
  <2>1. pids'[p] = <<>> /\ matched'[p] = {} /\ Working(p)' /\ arg'[p] = arg[p]
    BY <1>2, <1>3, <1>10 DEF Working
  <2>2. IsPartial(pids[p], Conns, Keys) /\ DOMAIN pids'[p] = {}
    BY <1>1, <2>1, EmptyGood DEF ProcInv
  <2>3. IsState(base'[p])
    BY <1>1, <1>10 DEF FileInv, Good
  <2> QED
    BY <1>1, <1>2, <1>11, <1>13, <1>14, <2>1, <2>2, <2>3 DEF ProcInv
<1>16. \A q \in Procs \ {p} :
         /\ at'[q] = at[q] /\ st'[q] = st[q] /\ base'[q] = base[q] /\ dropped'[q] = dropped[q]
  BY <1>1, <1>2, <1>4 DEF Frame
<1> QED
  BY <1>2, <1>9, <1>15, <1>16, OneMoves, FileKept

(* An output is resolved.  Only a merge loses a chosen side, and it is dropped. *)
LEMMA EnsureKeeps ==
  ASSUME StateInv, NEW p \in Procs, Ensure(p)
  PROVE  StateInv'
<1>1. Frame /\ FileInv /\ ProcInv(p)
  BY DEF StateInv
<1>2. PICK o : o = Head(outs[p])
  OBVIOUS
<1>3. PICK s : s = ensure_profile(st[p], o)
  OBVIOUS
<1>4. PICK pid : pid = s.imap[o.name]
  OBVIOUS
<1>5. PICK hit : hit = (p \in Setters /\ Matches(arg[p], o))
  OBVIOUS
<1>6. /\ at[p] = "ensure" /\ outs[p] # <<>>
      /\ st' = Set(st, p, IF hit THEN SetSide(s, pid, arg[p].side) ELSE s)
      /\ matched' = IF hit THEN [matched EXCEPT ![p] = @ \cup {pid}] ELSE matched
      /\ pids' = [pids EXCEPT ![p] = Put(@, o.name, pid)]
      /\ dropped' = [dropped EXCEPT ![p] = @ \cup MergedInto(st[p], o)]
      /\ outs' = [outs EXCEPT ![p] = Tail(@)]
      /\ UNCHANGED <<plugged, file, applyLock, stateLock, at, arg, base, swaps, runs, fails, chosen>>
  BY <1>2, <1>3, <1>4, <1>5 DEF Ensure, envVars
<1>7. o \in Output /\ Tail(outs[p]) \in Seq(Output)
  BY <1>1, <1>2, <1>6, HeadTailProperties DEF Frame
<1>8. Good(st[p]) /\ Working(p)
  BY <1>1, <1>6 DEF ProcInv, Working
<1>9. /\ Good(s) /\ o.name \in DOMAIN s.imap /\ DOMAIN st[p].imap \subseteq DOMAIN s.imap
      /\ s.stack = st[p].stack /\ KeepsSides(st[p], s, MergedInto(st[p], o))
      /\ MergedInto(st[p], o) \subseteq Keys
  BY <1>3, <1>7, <1>8, EnsureGood
<1>10. pid \in DOMAIN s.profs /\ pid \in Keys /\ o.name \in Conns
  <2>1. pid \in DOMAIN s.profs
    BY <1>4, <1>9 DEF Good, Sound
  <2>2. DOMAIN s.profs \subseteq Keys
    BY <1>9, StateParts DEF Good, IsPartial
  <2> QED
    BY <1>7, <2>1, <2>2 DEF Output
<1>11. hit => p \in Setters /\ arg[p] \in Args /\ arg[p].side \in Sides
  <2>1. ASSUME hit PROVE p \in Setters /\ arg[p] \in Args
    BY <1>1, <1>5, <1>6, <2>1 DEF ProcInv
  <2>2. \A a \in Args : a.side \in Sides
    BY DEF Args
  <2> QED
    BY <2>1, <2>2
<1>12. PICK t : t = IF hit THEN SetSide(s, pid, arg[p].side) ELSE s
  OBVIOUS
<1>13. /\ Good(t) /\ t.imap = s.imap /\ t.stack = s.stack /\ DOMAIN t.profs = DOMAIN s.profs
       /\ hit => t.profs[pid].side = arg[p].side
       /\ \A k \in DOMAIN s.profs : ~ hit \/ k # pid => t.profs[k] = s.profs[k]
  <2>1. CASE hit
    <3>1. PICK side \in Sides : side = arg[p].side
      BY <1>11, <2>1
    <3>2. t = SetSide(s, pid, side)
      BY <1>12, <2>1, <3>1
    <3> QED
      BY <1>9, <1>10, <2>1, <3>1, <3>2, SetSideGood
  <2>2. CASE ~ hit
    BY <1>9, <1>12, <2>2
  <2> QED
    BY <2>1, <2>2
<1>14. /\ st'[p] = t /\ pids'[p] = Put(pids[p], o.name, pid)
       /\ matched'[p] = IF hit THEN matched[p] \cup {pid} ELSE matched[p]
       /\ dropped'[p] = dropped[p] \cup MergedInto(st[p], o)
       /\ \A q \in Procs \ {p} : /\ st'[q] = st[q] /\ pids'[q] = pids[q]
                                 /\ matched'[q] = matched[q] /\ dropped'[q] = dropped[q]
  BY <1>1, <1>6, <1>12 DEF Frame, Set
<1>15. Frame'
  <2>1. outs' \in [Procs -> Seq(Output)]
    BY <1>1, <1>6, <1>7 DEF Frame
  <2>2. dropped' \in [Procs -> SUBSET Keys]
    BY <1>1, <1>6, <1>9 DEF Frame
  <2>3. matched' \in [Procs -> SUBSET Keys]
    BY <1>1, <1>6, <1>10 DEF Frame
  <2>4. DOMAIN st' = Procs /\ DOMAIN pids' = Procs
    BY <1>1, <1>6 DEF Frame, Set
  <2> QED
    BY <1>1, <1>6, <2>1, <2>2, <2>3, <2>4 DEF Frame
<1>16. SidesStand(p)'
  <2>1. SidesStand(p)
    BY <1>1, <1>8 DEF ProcInv
  <2> SUFFICES ASSUME NEW k \in (DOMAIN chosen \cup matched'[p]) \ dropped'[p]
               PROVE  /\ k \in DOMAIN t.profs
                      /\ t.profs[k].side = IF k \in matched'[p] THEN arg[p].side ELSE chosen[k]
    BY <1>6, <1>14 DEF SidesStand
  <2>2. CASE hit /\ k = pid
    BY <1>10, <1>13, <1>14, <2>2
  <2>3. CASE ~ (hit /\ k = pid)
    <3>1. /\ k \in (DOMAIN chosen \cup matched[p]) \ dropped[p] /\ k \notin MergedInto(st[p], o)
          /\ k \in matched'[p] <=> k \in matched[p]
      BY <1>14, <2>3
    <3>2. /\ k \in DOMAIN st[p].profs
          /\ st[p].profs[k].side = IF k \in matched[p] THEN arg[p].side ELSE chosen[k]
      BY <2>1, <3>1 DEF SidesStand
    <3>3. st[p].profs[k].side \in Sides
      <4>1. CASE k \in matched[p]
        <5>1. p \in Setters
          BY <1>1, <4>1 DEF ProcInv, Procs
        <5>2. arg[p] \in Args
          BY <1>1, <1>6, <5>1 DEF ProcInv
        <5>3. arg[p].side \in Sides
          BY <5>2 DEF Args
        <5> QED
          BY <3>2, <4>1, <5>3
      <4>2. CASE k \notin matched[p]
        BY <1>1, <3>1, <3>2, <4>2 DEF FileInv, IsPartial
      <4> QED
        BY <4>1, <4>2
    <3>4. k \in DOMAIN s.profs /\ s.profs[k].side = st[p].profs[k].side
      BY <1>9, <3>1, <3>2, <3>3 DEF KeepsSides
    <3>5. k \in DOMAIN t.profs /\ t.profs[k] = s.profs[k]
      BY <1>13, <2>3, <3>4
    <3> QED
      BY <3>1, <3>2, <3>4, <3>5
  <2> QED
    BY <2>2, <2>3
<1>17. OrderStands(p)'
  <2>1. OrderStands(p)
    BY <1>1, <1>8 DEF ProcInv
  <2>2. dropped[p] \subseteq dropped'[p] /\ dropped[p] \subseteq Keys /\ dropped'[p] \subseteq Keys
        /\ st'[p].stack = st[p].stack /\ at'[p] = at[p] /\ file' = file
    BY <1>1, <1>6, <1>9, <1>13, <1>14 DEF Frame
  <2> QED
    BY <2>1, <2>2 DEF OrderStands
<1>18. /\ IsPartial(pids'[p], Conns, Keys)
       /\ \A c \in DOMAIN pids'[p] : pids'[p][c] \in DOMAIN st'[p].imap
  <2>1. IsPartial(pids[p], Conns, Keys) /\ \A c \in DOMAIN pids[p] : pids[p][c] \in DOMAIN st[p].imap
    BY <1>1 DEF ProcInv
  <2>2. PICK c0 \in Conns, v \in Keys : c0 = o.name /\ v = pid
    BY <1>10
  <2>3. PICK f : f = Put(pids[p], c0, v)
    OBVIOUS
  <2>4. IsPartial(f, Conns, Keys) /\ DOMAIN f = DOMAIN pids[p] \cup {c0} /\ f[c0] = v
        /\ \A x \in DOMAIN pids[p] : x # c0 => f[x] = pids[p][x]
    BY <2>1, <2>3, PutPartial
  <2>5. v \in DOMAIN s.imap
    BY <1>9, <1>10, <2>2 DEF Good
  <2>6. pids'[p] = f
    BY <1>14, <2>2, <2>3
  <2>7. \A c \in DOMAIN f : f[c] \in DOMAIN s.imap
    BY <1>9, <2>1, <2>4, <2>5
  <2> QED
    BY <1>13, <1>14, <2>4, <2>6, <2>7
<1>19. ProcInv(p)'
  <2>1. p \in Appliers => matched'[p] = {}
    BY <1>1, <1>11, <1>14, RoleAssumption DEF ProcInv
  <2>2. Good(st'[p]) /\ Distinct(st'[p].stack) /\ IsState(base'[p])
    BY <1>1, <1>6, <1>9, <1>13, <1>14 DEF ProcInv
  <2>3. Working(p)' /\ at'[p] = at[p] /\ arg'[p] = arg[p]
    BY <1>6 DEF Working
  <2> QED
    BY <1>1, <1>16, <1>17, <1>18, <2>1, <2>2, <2>3 DEF ProcInv
<1> QED
  BY <1>6, <1>14, <1>15, <1>19, OneMoves, FileKept

(* The placed connectors' ids join the stack; ids that are gone get a bare profile. *)
LEMMA PlaceKeeps ==
  ASSUME StateInv, NEW p \in Procs, Place(p)
  PROVE  StateInv'
<1>1. Frame /\ FileInv /\ ProcInv(p)
  BY DEF StateInv
<1>2. PICK k : k = attach_stack(st[p].stack, CurPids(p))
  OBVIOUS
<1>3. PICK s : s = [st[p] EXCEPT !.stack = k]
  OBVIOUS
<1>4. PICK ids : ids = {pids[p][c] : c \in DOMAIN pids[p]}
  OBVIOUS
<1>5. PICK t : t = WithProfiles(s, ids)
  OBVIOUS
<1>6. /\ at[p] = "ensure" /\ p \in Appliers
      /\ st' = [st EXCEPT ![p] = t] /\ at' = [at EXCEPT ![p] = "save"]
      /\ UNCHANGED <<plugged, file, applyLock, stateLock, outs, pids, arg, matched, base, dropped,
                     swaps, runs, fails, chosen>>
  <2>1. st' = Set(st, p, WithProfiles([st[p] EXCEPT !.stack = attach_stack(@, CurPids(p))], ids))
    BY <1>4 DEF Place
  <2>2. [st[p] EXCEPT !.stack = attach_stack(@, CurPids(p))] = s
    BY <1>2, <1>3
  <2>3. st' = Set(st, p, t)
    BY <1>5, <2>1, <2>2
  <2> QED
    BY <2>3 DEF Place, Set, envVars
<1>7. /\ Good(st[p]) /\ Distinct(st[p].stack) /\ Working(p) /\ st[p].stack \in Seq(Keys)
      /\ matched[p] = {} /\ SidesStand(p) /\ OrderStands(p)
  BY <1>1, <1>6, StateParts DEF ProcInv, Working, Good
<1>8. CurPids(p) \in Seq(Keys)
  BY <1>1, CurPidsType DEF ProcInv
<1>9. /\ k \in Seq(Keys) /\ Distinct(k)
      /\ \A x, y : Before(x, y, st[p].stack) => ~ Before(y, x, k)
  <2>1. PICK old \in Seq(Keys), cur \in Seq(Keys) : old = st[p].stack /\ cur = CurPids(p)
    BY <1>7, <1>8
  <2>2. Distinct(old) /\ k = attach_stack(old, cur)
    BY <1>2, <1>7, <2>1
  <2> QED
    BY <2>1, <2>2, AttachStack
<1>10. Good(s) /\ s.imap = st[p].imap /\ s.profs = st[p].profs /\ s.stack = k
  <2>1. s = [imap |-> st[p].imap, profs |-> st[p].profs, stack |-> k]
    BY <1>3, <1>7, StateParts DEF Good
  <2>2. s.imap = st[p].imap /\ s.profs = st[p].profs /\ s.stack = k
    BY <2>1
  <2>3. IsState(s)
    BY <1>7, <1>9, <2>1, StateParts, StateOfParts DEF Good
  <2> QED
    BY <1>7, <2>2, <2>3 DEF Good, Sound
<1>11. ids \subseteq DOMAIN s.imap
  BY <1>1, <1>4, <1>10 DEF ProcInv
<1>12. Good(t) /\ t.imap = s.imap /\ t.stack = s.stack /\ KeepsSides(s, t, {})
  BY <1>5, <1>10, <1>11, WithProfilesGood
<1>13. /\ st'[p] = t /\ at'[p] = "save"
       /\ \A q \in Procs \ {p} : st'[q] = st[q] /\ at'[q] = at[q]
  BY <1>1, <1>6 DEF Frame
<1>14. Frame'
  <2>1. at' \in [Procs -> Points] /\ DOMAIN st' = Procs
    BY <1>1, <1>6 DEF Frame, Points
  <2> QED
    BY <1>1, <1>6, <2>1 DEF Frame
<1>15. SidesStand(p)'
  <2> SUFFICES ASSUME NEW x \in DOMAIN chosen \ dropped[p]
               PROVE  x \in DOMAIN t.profs /\ t.profs[x].side = chosen[x]
    BY <1>6, <1>7, <1>13 DEF SidesStand
  <2>1. x \in DOMAIN s.profs /\ s.profs[x].side = chosen[x] /\ chosen[x] \in Sides
    BY <1>1, <1>7, <1>10 DEF SidesStand, FileInv, IsPartial
  <2> QED
    BY <1>12, <2>1 DEF KeepsSides
<1>16. OrderStands(p)'
  <2>1. CASE dropped[p] = Keys
    BY <1>6, <1>13, <2>1 DEF OrderStands
  <2>2. CASE dropped[p] # Keys
    <3>1. st[p].stack = file.stack
      BY <1>6, <1>7, <2>2 DEF OrderStands
    <3>2. \A x, y : Before(x, y, file.stack) => ~ Before(y, x, t.stack)
      BY <1>9, <1>10, <1>12, <3>1
    <3> QED
      BY <1>6, <1>13, <3>2 DEF OrderStands
  <2> QED
    BY <2>1, <2>2
<1>17. ProcInv(p)'
  <2>1. Working(p)' /\ pids'[p] = pids[p] /\ matched'[p] = {} /\ arg'[p] = arg[p] /\ base'[p] = base[p]
    BY <1>6, <1>7, <1>13 DEF Working
  <2>2. Good(st'[p]) /\ Distinct(st'[p].stack) /\ st'[p].imap = st[p].imap
    BY <1>9, <1>10, <1>12, <1>13
  <2>3. p \in Setters => FALSE
    BY <1>6, RoleAssumption
  <2> QED
    BY <1>1, <1>15, <1>16, <2>1, <2>2, <2>3 DEF ProcInv
<1> QED
  BY <1>6, <1>13, <1>14, <1>17, OneMoves, FileKept

(* --set-pref has seen every output: it may still name a profile by its id. *)
LEMMA DecideKeeps ==
  ASSUME StateInv, NEW p \in Procs, Decide(p)
  PROVE  StateInv'
<1>1. Frame /\ FileInv /\ ProcInv(p)
  BY DEF StateInv
<1>2. PICK byId : byId = (/\ matched[p] = {} /\ arg[p].kind = "id"
                          /\ arg[p].key \in DOMAIN st[p].profs)
  OBVIOUS
<1>3. /\ at[p] = "ensure" /\ p \in Setters
      /\ st' = IF byId THEN Set(st, p, SetSide(st[p], arg[p].key, arg[p].side)) ELSE st
      /\ matched' = IF byId THEN Set(matched, p, {arg[p].key}) ELSE matched
      /\ at' = [at EXCEPT ![p] = "save"]
      /\ UNCHANGED <<plugged, file, applyLock, stateLock, outs, pids, arg, base, dropped,
                     swaps, runs, fails, chosen>>
  BY <1>2 DEF Decide, envVars, Set
<1>4. Good(st[p]) /\ Working(p) /\ SidesStand(p) /\ OrderStands(p) /\ arg[p] \in Args
  BY <1>1, <1>3 DEF ProcInv, Working
<1>5. arg[p].side \in Sides
  BY <1>4 DEF Args
<1>6. PICK t : t = IF byId THEN SetSide(st[p], arg[p].key, arg[p].side) ELSE st[p]
  OBVIOUS
<1>7. /\ Good(t) /\ t.imap = st[p].imap /\ t.stack = st[p].stack /\ DOMAIN t.profs = DOMAIN st[p].profs
      /\ byId => arg[p].key \in DOMAIN t.profs /\ t.profs[arg[p].key].side = arg[p].side
      /\ \A k \in DOMAIN st[p].profs : ~ byId \/ k # arg[p].key => t.profs[k] = st[p].profs[k]
  <2>1. CASE byId
    <3>1. PICK s : s = st[p]
      OBVIOUS
    <3>2. PICK pid \in DOMAIN s.profs, side \in Sides : pid = arg[p].key /\ side = arg[p].side
      BY <1>2, <1>5, <2>1, <3>1
    <3>3. t = SetSide(s, pid, side) /\ Good(s)
      BY <1>4, <1>6, <2>1, <3>1, <3>2
    <3> QED
      BY <2>1, <3>1, <3>2, <3>3, SetSideGood
  <2>2. CASE ~ byId
    BY <1>4, <1>6, <2>2
  <2> QED
    BY <2>1, <2>2
<1>8. byId => arg[p].key \in Keys
  BY <1>2, <1>4, StateParts DEF Good, IsPartial
<1>9. /\ st'[p] = t /\ at'[p] = "save"
      /\ matched'[p] = IF byId THEN {arg[p].key} ELSE matched[p]
      /\ \A q \in Procs \ {p} : st'[q] = st[q] /\ at'[q] = at[q] /\ matched'[q] = matched[q]
  <2>1. st'[p] = t /\ \A q \in Procs \ {p} : st'[q] = st[q]
    <3>1. CASE byId
      BY <1>1, <1>3, <1>6, <3>1 DEF Frame, Set
    <3>2. CASE ~ byId
      BY <1>3, <1>6, <3>2
    <3> QED
      BY <3>1, <3>2
  <2> QED
    BY <1>1, <1>3, <2>1 DEF Frame, Set
<1>10. Frame'
  <2>1. at' \in [Procs -> Points] /\ DOMAIN st' = Procs
    BY <1>1, <1>3 DEF Frame, Points, Set
  <2>2. matched' \in [Procs -> SUBSET Keys]
    BY <1>1, <1>3, <1>8 DEF Frame, Set
  <2> QED
    BY <1>1, <1>3, <2>1, <2>2 DEF Frame
<1>11. SidesStand(p)'
  <2> SUFFICES ASSUME NEW k \in (DOMAIN chosen \cup matched'[p]) \ dropped[p]
               PROVE  /\ k \in DOMAIN t.profs
                      /\ t.profs[k].side = IF k \in matched'[p] THEN arg[p].side ELSE chosen[k]
    BY <1>3, <1>9 DEF SidesStand
  <2>1. CASE byId /\ k = arg[p].key
    BY <1>7, <1>9, <2>1
  <2>2. CASE ~ (byId /\ k = arg[p].key)
    <3>1. k \in (DOMAIN chosen \cup matched[p]) \ dropped[p] /\ (k \in matched'[p] <=> k \in matched[p])
      BY <1>2, <1>9, <2>2
    <3>2. /\ k \in DOMAIN st[p].profs
          /\ st[p].profs[k].side = IF k \in matched[p] THEN arg[p].side ELSE chosen[k]
      BY <1>4, <3>1 DEF SidesStand
    <3> QED
      BY <1>7, <2>2, <3>1, <3>2
  <2> QED
    BY <2>1, <2>2
<1>12. OrderStands(p)'
  BY <1>3, <1>4, <1>7, <1>9 DEF OrderStands
<1>13. ProcInv(p)'
  <2>1. Working(p)' /\ pids'[p] = pids[p] /\ arg'[p] = arg[p] /\ base'[p] = base[p]
    BY <1>3, <1>9 DEF Working
  <2>2. Good(st'[p]) /\ Distinct(st'[p].stack) /\ st'[p].imap = st[p].imap
    BY <1>1, <1>7, <1>9 DEF ProcInv
  <2>3. p \in Appliers => FALSE
    BY <1>3, RoleAssumption
  <2> QED
    BY <1>1, <1>4, <1>11, <1>12, <2>1, <2>2, <2>3 DEF ProcInv
<1> QED
  BY <1>3, <1>9, <1>10, <1>13, OneMoves, FileKept

(* A process leaves, with its copy saved or not. *)
LEMMA LeaveKeepsState ==
  ASSUME IInv, StateInv, NEW p \in Procs, Leave(p), UNCHANGED <<plugged, swaps, runs>>,
         fails' \in 0..MaxFail,
         \/ UNCHANGED <<file, chosen>>
         \/ at[p] = "save" /\ file' = st[p] /\ chosen' = Chosen(p)
  PROVE  StateInv'
<1>1. Frame /\ FileInv /\ ProcInv(p)
  BY DEF StateInv
<1>2. /\ at' = [at EXCEPT ![p] = "idle"] /\ outs' = [outs EXCEPT ![p] = <<>>]
      /\ st' = [st EXCEPT ![p] = EmptyState] /\ pids' = [pids EXCEPT ![p] = <<>>]
      /\ arg' = [arg EXCEPT ![p] = NoArg] /\ matched' = [matched EXCEPT ![p] = {}]
      /\ base' = [base EXCEPT ![p] = EmptyState] /\ dropped' = [dropped EXCEPT ![p] = {}]
      /\ applyLock' = applyLock \ {p} /\ stateLock' = stateLock \ {p}
  BY DEF Leave, Set
<1>3. /\ at'[p] = "idle" /\ st'[p] = EmptyState /\ pids'[p] = <<>> /\ matched'[p] = {}
      /\ base'[p] = EmptyState /\ dropped'[p] = {}
  BY <1>1, <1>2 DEF Frame
<1>4. \A q \in Procs \ {p} :
        /\ at'[q] = at[q] /\ st'[q] = st[q] /\ pids'[q] = pids[q] /\ arg'[q] = arg[q]
        /\ matched'[q] = matched[q] /\ base'[q] = base[q] /\ dropped'[q] = dropped[q]
  BY <1>1, <1>2 DEF Frame
<1>5. Frame'
  <2>1. at' \in [Procs -> Points] /\ outs' \in [Procs -> Seq(Output)]
    BY <1>1, <1>2, EmptySeq DEF Frame, Points
  <2>2. arg' \in [Procs -> Args \cup {NoArg}]
    BY <1>1, <1>2 DEF Frame
  <2>3. matched' \in [Procs -> SUBSET Keys] /\ dropped' \in [Procs -> SUBSET Keys]
    BY <1>1, <1>2 DEF Frame
  <2>4. DOMAIN st' = Procs /\ DOMAIN pids' = Procs /\ DOMAIN base' = Procs
    BY <1>1, <1>2 DEF Frame
  <2>5. applyLock' \in SUBSET Appliers /\ stateLock' \in SUBSET Procs
    BY <1>1, <1>2 DEF Frame
  <2> QED
    BY <1>1, <2>1, <2>2, <2>3, <2>4, <2>5 DEF Frame
<1>6. ProcInv(p)'
  <2>1. ~ Working(p)'
    BY <1>3 DEF Working
  <2> QED
    BY <1>3, <2>1, EmptyGood DEF ProcInv, Good
<1>7. CASE UNCHANGED <<file, chosen>>
  BY <1>4, <1>5, <1>6, <1>7, OneMoves, FileKept
<1>8. CASE at[p] = "save" /\ file' = st[p] /\ chosen' = Chosen(p)
  <2>1. Working(p) /\ Good(st[p]) /\ Distinct(st[p].stack) /\ SidesStand(p)
    BY <1>1, <1>8 DEF ProcInv, Working
  <2>2. \A q \in Procs \ {p} : ~ Working(q)
    BY <2>1 DEF IInv, HolderInv
  <2>3. /\ DOMAIN chosen' = (DOMAIN chosen \cup matched[p]) \ dropped[p]
        /\ \A k \in DOMAIN chosen' : chosen'[k] = IF k \in matched[p] THEN arg[p].side ELSE chosen[k]
    BY <1>8 DEF Chosen
  <2>4. IsPartial(chosen', Keys, Sides)
    <3>1. \A k \in matched[p] : arg[p].side \in Sides
      <4> TAKE k \in matched[p]
      <4>1. p \in Setters /\ at[p] # "idle"
        BY <1>1, <1>8 DEF ProcInv, Procs
      <4>2. arg[p] \in Args
        BY <1>1, <4>1 DEF ProcInv
      <4> QED
        BY <4>2 DEF Args
    <3>2. \A k \in DOMAIN chosen : chosen[k] \in Sides
      BY <1>1 DEF FileInv, IsPartial
    <3>3. DOMAIN chosen' \subseteq Keys
      BY <1>1, <2>3 DEF Frame, FileInv, IsPartial
    <3>4. \A k \in DOMAIN chosen' : chosen'[k] \in Sides
      BY <2>3, <3>1, <3>2
    <3>5. chosen' = [k \in DOMAIN chosen' |-> chosen'[k]]
      BY <1>8, <2>3 DEF Chosen
    <3> QED
      BY <3>3, <3>4, <3>5 DEF IsPartial
  <2>5. PrefKept'
    BY <1>8, <2>1, <2>3 DEF PrefKept, SidesStand
  <2>6. FileInv'
    BY <1>8, <2>1, <2>4, <2>5 DEF FileInv
  <2> QED
    BY <1>4, <1>5, <1>6, <2>2, <2>6, OneMoves
<1> QED
  BY <1>7, <1>8

(* Every step preserves the invariant. *)
LEMMA NextStateInv == IInv /\ StateInv /\ [Next]_vars => StateInv'
<1> SUFFICES ASSUME IInv, StateInv, [Next]_vars PROVE StateInv'
  OBVIOUS
<1>1. ASSUME NEW c \in Conns, NEW e \in Monitors, Recable(c, e) PROVE StateInv'
  BY <1>1, RecableKeeps
<1>2. ASSUME NEW a \in Appliers, ApplyBegin(a) PROVE StateInv'
  <2>1. a \in Procs
    BY DEF Procs
  <2>2. PICK cs : cs = Conns \ {PrimaryOf}
    OBVIOUS
  <2>3. /\ at[a] = "idle" /\ Start /\ applyLock' \in SUBSET Appliers
        /\ at' = Set(at, a, "wait") /\ outs' = Set(outs, a, Connected(cs))
        /\ UNCHANGED <<plugged, file, stateLock, st, pids, matched, base, dropped, swaps, fails,
                       chosen, arg>>
    BY <1>2, <2>2 DEF ApplyBegin
  <2> QED
    BY <2>1, <2>3, BeginKeeps
<1>3. ASSUME NEW s \in Setters, SetPrefBegin(s) PROVE StateInv'
  <2>1. s \in Procs
    BY DEF Procs
  <2>2. PICK cs : cs = Conns
    OBVIOUS
  <2>3. /\ at[s] = "idle" /\ Start /\ \E a \in Args : arg' = Set(arg, s, a)
        /\ at' = Set(at, s, "wait") /\ outs' = Set(outs, s, Connected(cs))
        /\ UNCHANGED <<plugged, file, stateLock, st, pids, matched, base, dropped, swaps, fails,
                       chosen, applyLock>>
    BY <1>3, <2>2 DEF SetPrefBegin
  <2>4. applyLock' \in SUBSET Appliers
    BY <2>3 DEF StateInv, Frame
  <2> QED
    BY <2>1, <2>3, <2>4, BeginKeeps
<1>4. fails \in 0..MaxFail /\ MaxFail \in Nat
  BY BoundAssumption DEF StateInv, Frame
<1>5. ASSUME NEW p \in Procs, NoMatch(p) PROVE StateInv'
  <2>1. Leave(p) /\ UNCHANGED <<plugged, file, swaps, runs, fails, chosen>>
    BY <1>5 DEF NoMatch, envVars
  <2> QED
    BY <1>4, <2>1, LeaveKeepsState
<1>6. Fault => fails' \in 0..MaxFail
  BY <1>4 DEF Fault
<1>7. ASSUME NEW p \in Procs, Save(p) PROVE StateInv'
  <2>1. /\ at[p] = "save" /\ Leave(p) /\ UNCHANGED <<plugged, swaps, runs>> /\ fails' \in 0..MaxFail
        /\ (file' = st[p] /\ chosen' = Chosen(p)) \/ UNCHANGED <<file, chosen>>
    BY <1>4, <1>6, <1>7 DEF Save
  <2> QED
    BY <2>1, LeaveKeepsState
<1>8. ASSUME NEW p \in Procs, Kill(p) PROVE StateInv'
  <2>1. Leave(p) /\ UNCHANGED <<plugged, file, swaps, runs, chosen>> /\ fails' \in 0..MaxFail
    BY <1>6, <1>8 DEF Kill
  <2> QED
    BY <2>1, LeaveKeepsState
<1>9. ASSUME UNCHANGED vars PROVE StateInv'
  <2>1. UNCHANGED <<plugged, file, applyLock, stateLock, at, outs, st, pids, arg, matched, base,
                    dropped, swaps, runs, fails, chosen>>
    BY <1>9 DEF vars, procVars, envVars
  <2>2. Frame'
    BY <2>1 DEF StateInv, Frame
  <2>3. ASSUME NEW q \in Procs PROVE ProcInv(q)'
    <3>1. ProcInv(q)
      BY DEF StateInv
    <3> QED
      BY <2>1, <3>1, OthersKeep
  <2> QED
    BY <2>1, <2>2, <2>3, FileKept DEF StateInv
<1> QED
  BY <1>1, <1>2, <1>3, <1>5, <1>7, <1>8, <1>9, LoadKeeps, EnsureKeeps, PlaceKeeps, DecideKeeps
  DEF Next, Step, Monitors

(* Spec keeps both invariants. *)
LEMMA Always == Spec => [](IInv /\ StateInv)
<1>1. Init => IInv /\ StateInv
  BY InitIInv, InitStateInv
<1>2. IInv /\ StateInv /\ [Next]_vars => (IInv /\ StateInv)'
  BY NextIInv, NextStateInv
<1> QED
  BY <1>1, <1>2, PTL DEF Spec

(* Every variable has its type: what is stored and what each process holds of it *)
(* stays a state, through every merge, failed load and failed write.             *)
THEOREM Typed == Spec => []TypeOK
<1>1. StateInv => TypeOK
  <2> SUFFICES ASSUME StateInv PROVE TypeOK
    OBVIOUS
  <2>1. Frame /\ FileInv /\ \A p \in Procs : ProcInv(p)
    BY DEF StateInv
  <2>2. \A p \in Procs : IsState(st[p]) /\ IsState(base[p]) /\ IsPartial(pids[p], Conns, Keys)
    BY <2>1 DEF ProcInv, Good
  <2> QED
    BY <2>1, <2>2 DEF TypeOK, Frame, FileInv, Good, Points, Monitors, Output
<1> QED
  BY <1>1, Always, PTL

(* No merge, failed load, crash or resurrected profile leaves an identity that   *)
(* leads nowhere or to a profile without its names (state.py:129), on disk or in *)
(* a process: ensure_profile never raises, for any monitors and any processes.   *)
THEOREM IdentitiesAlwaysLead == Spec => []IdentitiesLead
<1>1. StateInv => IdentitiesLead
  BY DEF StateInv, FileInv, ProcInv, Good, IdentitiesLead
<1> QED
  BY <1>1, Always, PTL

(* A side chosen with --set-pref stays through every later apply, set-pref,      *)
(* failed write and crash, until a merge or an unreadable file drops it.         *)
THEOREM PrefAlwaysKept == Spec => []PrefKept
<1>1. StateInv => PrefKept
  BY DEF StateInv, FileInv
<1> QED
  BY <1>1, Always, PTL

(* The attach stack lists an id once, however many identical monitors there are. *)
THEOREM StackAlwaysUnique == Spec => []StackUnique
<1>1. StateInv => StackUnique
  <2> SUFFICES ASSUME StateInv PROVE StackUnique
    OBVIOUS
  <2>1. Good(file) /\ Distinct(file.stack)
    BY DEF StateInv, FileInv
  <2>2. DOMAIN file.stack = 1..Len(file.stack)
    BY <2>1, StateParts, LenProperties DEF Good
  <2> QED
    BY <2>1, <2>2 DEF StackUnique, Distinct
<1> QED
  BY <1>1, Always, PTL

(* No save exchanges two ids it keeps on the stack: the one attached first stays *)
(* first, unless a merge or an unreadable file dropped one of them.              *)
THEOREM StackOrderAlwaysKept == Spec => StackOrderKept
<1> DEFINE A == \A x, y \in Keys \ UNION {dropped[p] : p \in stateLock} :
                  Before(x, y, file.stack) => ~ Before(y, x, file'.stack)
<1>1. IInv /\ StateInv /\ [Next]_vars => [A]_vars
  <2> SUFFICES ASSUME IInv, StateInv, Next,
                      NEW x \in Keys \ UNION {dropped[p] : p \in stateLock},
                      NEW y \in Keys \ UNION {dropped[p] : p \in stateLock},
                      Before(x, y, file.stack)
               PROVE  ~ Before(y, x, file'.stack)
    OBVIOUS
  <2>1. CASE file' = file
    <3>1. Good(file) /\ Distinct(file.stack)
      BY DEF StateInv, FileInv
    <3>2. DOMAIN file.stack = 1..Len(file.stack) /\ Len(file.stack) \in Nat
      BY <3>1, StateParts, LenProperties DEF Good
    <3> QED
      BY <2>1, <3>1, <3>2 DEF Before, Distinct
  <2>2. CASE file' # file
    <3>1. PICK p \in Procs : Save(p) /\ file' = st[p]
      BY <2>2 DEF Next, Step, Recable, ApplyBegin, SetPrefBegin, LockAndLoad, Ensure, Place, Decide,
                  NoMatch, Save, Kill, Procs
    <3>2. Working(p) /\ p \in stateLock
      BY <3>1 DEF Save, Working, IInv, HolderInv
    <3>3. OrderStands(p)
      BY <3>2 DEF StateInv, ProcInv
    <3>4. x \in Keys \ dropped[p] /\ y \in Keys \ dropped[p]
      BY <3>2
    <3> QED
      BY <3>1, <3>3, <3>4 DEF OrderStands
  <2> QED
    BY <2>1, <2>2
<1> QED
  BY <1>1, Always, PTL DEF Spec, StackOrderKept
=============================================================================
