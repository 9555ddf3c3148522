------------------------- MODULE DisplayWatchProofs -------------------------
(***************************************************************************)
(* Machine-checked proofs about DisplayWatch, for any number of heads and  *)
(* one-shot processes and any bounds.                                      *)
(***************************************************************************)
EXTENDS WatchReconciles, TLAPS

(* The steps of apply_once at which outs holds read #2. *)
Commanding == {"scrub", "place", "profile"}

(* The processes in their critical section are exactly the lock's holders. *)
LockInv ==
  /\ \A p \in Procs : at[p] \in Critical <=> p \in lock
  /\ \A p, q \in lock : p = q

(* Which steps of the daemon's own apply_once go with which control points. *)
ControlInv ==
  /\ at[Daemon] # "idle" => pc \in {"boot", "apply"}
  /\ pc \in {"boot", "apply"} => at[Daemon] # "idle"

(* Commands follow the second read: --off outside its connected set, --auto inside. *)
CommandInv ==
  \A p \in Procs :
    /\ at[p] \notin Commanding => offs[p] = {} /\ autos[p] = {}
    /\ at[p] \in Commanding => offs[p] \cap outs[p].connected = {}
    /\ at[p] = "scrub" => todo[p] \cap outs[p].connected = {} /\ autos[p] = {}
    /\ at[p] \in {"place", "profile"} =>
         todo[p] \subseteq outs[p].connected /\ autos[p] \subseteq outs[p].connected

(* Heads not touched since read #2 are still as read #2 saw them. *)
SyncInv ==
  \A p \in Procs : at[p] \in Commanding =>
    \A c \in Connectors \ touched[p] : c \in outs[p].connected <=> c \in connected

(* The daemon has applied and has not absorbed a hash since. *)
Applied == \/ at[Daemon] = "true"
           \/ pc \in {"seed", "start", "settle"} \cup SettleSteps

(* An apply that began after the daemon's saw everything since. *)
OrderInv ==
  Applied => \A s \in Siblings : at[s] \in Commanding => touched[s] \subseteq touched[Daemon]

(* What the daemon's apply has healed, up to heads touched since read #2. *)
HealInv ==
  \A c \in Connectors \ touched[Daemon] :
    /\ at[Daemon] = "scrub" /\ c \in lit \ connected => c \in todo[Daemon]
    /\ at[Daemon] \in {"place", "profile"} \/ Applied => c \notin lit \ connected
    /\ at[Daemon] \in {"place", "profile"} /\ c \in (connected \ Stubborn) \ lit
         => c \in todo[Daemon]
    /\ Applied => c \notin (connected \ Stubborn) \ lit

(* What the settled hash shows, between the settle read and the decision. *)
SettleInv ==
  pc \in SettleSteps =>
    /\ PhantomIn(settled) \subseteq touched[Daemon]
    /\ pc \in {"present", "unhealed"} =>
         DarkIn(settled) \ late \subseteq connected \ lit
    /\ pc \in {"hook", "decide"} => DarkIn(settled) \ late \subseteq dark

(***************************************************************************)
(* Type correctness.                                                       *)
(***************************************************************************)

(* The digest of a read is a digest. *)
LEMMA HashType ==
  ASSUME NEW o \in Outs
  PROVE  topology_hash(o) \in Hashes
<1>1. ASSUME NEW c \in Connectors PROVE Entry(o, c) \in Connectors \X BOOLEAN \X BOOLEAN
  <2>1. (c \in o.connected) \in BOOLEAN /\ (c \in o.lit) \in BOOLEAN
    OBVIOUS
  <2>2. \A a, b \in BOOLEAN : <<c, a, b>> \in Connectors \X BOOLEAN \X BOOLEAN
    OBVIOUS
  <2> QED BY <2>1, <2>2, Zenon DEF Entry
<1>2. o.connected \cup o.lit \subseteq Connectors
  BY DEF Outs
<1> QED BY <1>1, <1>2 DEF topology_hash, Hashes

(* The empty digest, and the faults excused in one. *)
LEMMA NoHashType == {} \in Hashes
BY DEF Hashes

LEMMA ExcuseType == \A h, a : Excuse(h, a) \in SUBSET Connectors
BY DEF Excuse, PhantomIn, DarkIn

(* What a RandR read returns, while the hardware variables have their types. *)
LEMMA RandRType == TypeOK => RandR \in Outs /\ topology_hash(RandR) \in Hashes
BY HashType DEF TypeOK, RandR, Outs

(* Every variable keeps its type under every step of the daemon, of a one-shot *)
(* apply and of the hardware.                                                  *)
THEOREM TypeCorrect == Spec => []TypeOK
<1>1. Init => TypeOK
  <2> SUFFICES ASSUME Init PROVE TypeOK
    OBVIOUS
  <2>1. /\ plugs \in 0..MaxHotplug /\ fails \in 0..MaxFail /\ crashes \in 0..MaxCrash
        /\ mappings \in 0..MaxMapping /\ attempts \in 0..UNHEALED_APPLY_LIMIT
    BY LimitAssumption, BoundAssumption DEF Init
  <2>2. xq \in BOOLEAN /\ recent \in BOOLEAN /\ stop \in BOOLEAN
    BY DEF Init
  <2>3. last \in Hashes /\ settled \in Hashes
    BY NoHashType DEF Init
  <2>4. at \in [Procs -> ApplySteps] /\ outs \in [Procs -> Outs] /\ pc \in Points
    BY DEF Init, NoOuts, Outs, ApplySteps, Points
  <2> QED BY <2>1, <2>2, <2>3, <2>4, HeadAssumption DEF Init, TypeOK
<1>2. TypeOK /\ [Next]_vars => TypeOK'
  <2> SUFFICES ASSUME TypeOK, [Next]_vars PROVE TypeOK'
    OBVIOUS
  <2> USE RandRType, LimitAssumption, BoundAssumption, HeadAssumption, FlagAssumption
          DEF TypeOK, ApplySteps, Points, LoopSteps, SettleSteps, Procs,
              hwVars, envVars, applyVars, loopVars, watchVars
  <2>1. CASE Boot
    BY <2>1 DEF Boot, BeginApply, Goto
  <2>2. CASE BootApplied
    BY <2>2 DEF BootApplied, Goto
  <2>3. CASE Seed
    BY <2>3 DEF Seed
  <2>4. CASE StartLoop
    <3>1. last' \in Hashes /\ excused' \in SUBSET Connectors
      BY <2>4, ExcuseType DEF StartLoop
    <3>2. attempts' \in 0..UNHEALED_APPLY_LIMIT
      BY <2>4 DEF StartLoop
    <3>3. recent' \in BOOLEAN
      BY <2>4 DEF StartLoop
    <3>4. present' \in SUBSET Connectors
      BY <2>4 DEF StartLoop
    <3>5. touched' \in [Procs -> SUBSET Connectors]
      BY <2>4 DEF StartLoop
    <3>6. pc' \in Points
      BY <2>4 DEF StartLoop
    <3> QED BY <2>4, <3>1, <3>2, <3>3, <3>4, <3>5, <3>6 DEF StartLoop
  <2>5. CASE Wake
    BY <2>5 DEF Wake
  <2>6. CASE Spin
    BY <2>6 DEF Spin, vars
  <2>7. CASE Verify
    BY <2>7 DEF Verify
  <2>8. CASE BounceGate
    BY <2>8 DEF BounceGate, CallApply, BeginApply, Goto, present_connectors, Fault
  <2>9. CASE HoldPoll
    BY <2>9 DEF HoldPoll
  <2>10. CASE HoldEnd
    BY <2>10 DEF HoldEnd, CallApply, BeginApply, Goto
  <2>11. CASE ApplyReturned
    BY <2>11 DEF ApplyReturned, Goto, AfterApply
  <2>12. CASE Settle
    BY <2>12 DEF Settle
  <2>13. CASE RecordPresent
    BY <2>13 DEF RecordPresent, present_connectors, Fault
  <2>14. CASE ReadUnhealed
    BY <2>14 DEF ReadUnhealed, unhealed_outputs, RandR, Fault
  <2>15. CASE Hook
    BY <2>15 DEF Hook
  <2>16. CASE Decide
    BY <2>16, NoHashType, ExcuseType DEF Decide, MayRetry
  <2>17. CASE LeaveLoop
    BY <2>17 DEF LeaveLoop, StopSeen
  <2>18. ASSUME NEW p \in Procs, ApplyOnce(p) PROVE TypeOK'
    <3>1. CASE ApplyLock(p)
      BY <2>18, <3>1 DEF ApplyOnce, ApplyLock, Bail, Return, Goto, Fault, NoOuts, Outs
    <3>2. CASE ApplyRead1(p)
      BY <2>18, <3>2 DEF ApplyOnce, ApplyRead1, Bail, Return, Goto, Fault, NoOuts, Outs, RandR
    <3>3. CASE ApplyRead2(p)
      BY <2>18, <3>3 DEF ApplyOnce, ApplyRead2, Bail, Return, Goto, Fault, NoOuts, Outs, RandR, StaleHeads, scrub_stale
    <3>4. CASE output_off(p)
      BY <2>18, <3>4 DEF ApplyOnce, output_off, Xrandr, Fault, Touch, Late
    <3>5. CASE AfterScrub(p)
      BY <2>18, <3>5 DEF ApplyOnce, AfterScrub, Return, Goto, NoOuts, Outs
    <3>6. CASE auto_pos(p)
      BY <2>18, <3>6 DEF ApplyOnce, auto_pos, Xrandr, Fault, Touch, Late, AutoLit
    <3>7. CASE run_profile(p)
      BY <2>18, <3>7 DEF ApplyOnce, run_profile, Xrandr, Fault, Touch, Late, AutoLit
    <3>8. CASE ApplyDone(p)
      BY <2>18, <3>8 DEF ApplyOnce, ApplyDone, Return, Goto, NoOuts, Outs
    <3> QED BY <2>18, <3>1, <3>2, <3>3, <3>4, <3>5, <3>6, <3>7, <3>8 DEF ApplyOnce
  <2>19. ASSUME NEW c \in Connectors, Hotplug(c) PROVE TypeOK'
    BY <2>19 DEF Hotplug, Touch, Late
  <2>20. CASE MappingNotify
    BY <2>20 DEF MappingNotify
  <2>21. CASE SuspectWindowEnds
    BY <2>21 DEF SuspectWindowEnds
  <2>22. CASE Sigterm
    BY <2>22 DEF Sigterm
  <2>23. CASE Crash
    <3>1. at' \in [Procs -> ApplySteps] /\ outs' \in [Procs -> Outs]
      BY <2>23 DEF Crash, Return, Goto, NoOuts, Outs
    <3>2. lock' \in SUBSET Procs /\ todo' \in [Procs -> SUBSET Connectors]
      BY <2>23 DEF Crash, Return
    <3>3. /\ offs' \in [Procs -> SUBSET Connectors] /\ autos' \in [Procs -> SUBSET Connectors]
          /\ touched' \in [Procs -> SUBSET Connectors]
      BY <2>23 DEF Crash, Return
    <3>4. last' \in Hashes /\ settled' \in Hashes
      BY <2>23, NoHashType DEF Crash
    <3>5. pc' \in Points /\ recent' \in BOOLEAN /\ stop' \in BOOLEAN
      BY <2>23 DEF Crash
    <3>6. attempts' \in 0..UNHEALED_APPLY_LIMIT /\ crashes' \in 0..MaxCrash
      BY <2>23 DEF Crash
    <3>7. /\ dark' \in SUBSET Connectors /\ present' \in SUBSET Connectors
          /\ late' \in SUBSET Connectors /\ excused' \in SUBSET Connectors
      BY <2>23 DEF Crash
    <3> QED BY <2>23, <3>1, <3>2, <3>3, <3>4, <3>5, <3>6, <3>7 DEF Crash
  <2>24. ASSUME NEW s \in Siblings, SiblingStart(s) PROVE TypeOK'
    BY <2>24 DEF SiblingStart, BeginApply, Goto
  <2>25. ASSUME NEW s \in Siblings, SiblingKilled(s) PROVE TypeOK'
    BY <2>25 DEF SiblingKilled, Return, Goto, NoOuts, Outs
  <2>26. CASE UNCHANGED vars
    BY <2>26 DEF vars
  <2> QED BY <2>1, <2>2, <2>3, <2>4, <2>5, <2>6, <2>7, <2>8, <2>9, <2>10, <2>11, <2>12, <2>13, <2>14, <2>15, <2>16, <2>17, <2>18, <2>19, <2>20, <2>21, <2>22, <2>23, <2>24, <2>25, <2>26 DEF Next, Loop, Environment
<1> QED BY <1>1, <1>2, PTL DEF Spec

(***************************************************************************)
(* The apply-lock.                                                         *)
(***************************************************************************)

(* The daemon is inside apply_once exactly at the two points that call it. *)
THEOREM ControlFollowsApply == Spec => []ControlInv
<1>1. Init => ControlInv
  BY DEF Init, ControlInv, Procs
<1>2. TypeOK /\ ControlInv /\ [Next]_vars => ControlInv'
  <2> SUFFICES ASSUME TypeOK /\ ControlInv, [Next]_vars PROVE ControlInv'
    OBVIOUS
  <2> USE ProcAssumption DEF ControlInv, TypeOK, Procs, hwVars, envVars, applyVars, loopVars, watchVars, SettleSteps
  <2>1. CASE Seed \/ StartLoop \/ Wake \/ Spin \/ Verify \/ HoldPoll \/ Settle \/ RecordPresent \/ ReadUnhealed \/ Hook \/ Decide \/ LeaveLoop \/ MappingNotify \/ SuspectWindowEnds \/ Sigterm
    BY <2>1 DEF Seed, StartLoop, Wake, Spin, Verify, HoldPoll, Settle, RecordPresent, ReadUnhealed, Hook, Decide, LeaveLoop, MappingNotify, SuspectWindowEnds, Sigterm, vars
  <2>2. CASE Boot
    BY <2>2 DEF Boot, BeginApply, Goto
  <2>3. CASE BootApplied
    BY <2>3 DEF BootApplied, Goto
  <2>4. CASE BounceGate
    BY <2>4 DEF BounceGate, CallApply, BeginApply, Goto
  <2>5. CASE HoldEnd
    BY <2>5 DEF HoldEnd, CallApply, BeginApply, Goto
  <2>6. CASE ApplyReturned
    BY <2>6 DEF ApplyReturned, Goto, AfterApply
  <2>7. CASE Crash
    BY <2>7 DEF Crash, Return, Goto
  <2>8. ASSUME NEW p \in Procs, ApplyOnce(p) PROVE ControlInv'
    <3>1. CASE ApplyLock(p)
      BY <2>8, <3>1 DEF ApplyOnce, ApplyLock, Bail, Return, Goto, LockFree
    <3>2. CASE ApplyRead1(p)
      BY <2>8, <3>2 DEF ApplyOnce, ApplyRead1, Bail, Return, Goto
    <3>3. CASE ApplyRead2(p)
      BY <2>8, <3>3 DEF ApplyOnce, ApplyRead2, Bail, Return, Goto
    <3>4. CASE output_off(p)
      BY <2>8, <3>4 DEF ApplyOnce, output_off
    <3>5. CASE AfterScrub(p)
      BY <2>8, <3>5 DEF ApplyOnce, AfterScrub, Return, Goto
    <3>6. CASE auto_pos(p)
      BY <2>8, <3>6 DEF ApplyOnce, auto_pos
    <3>7. CASE run_profile(p)
      BY <2>8, <3>7 DEF ApplyOnce, run_profile
    <3>8. CASE ApplyDone(p)
      BY <2>8, <3>8 DEF ApplyOnce, ApplyDone, Return, Goto
    <3> QED BY <2>8, <3>1, <3>2, <3>3, <3>4, <3>5, <3>6, <3>7, <3>8 DEF ApplyOnce
  <2>9. ASSUME NEW c \in Connectors, Hotplug(c) PROVE ControlInv'
    BY <2>9 DEF Hotplug
  <2>10. ASSUME NEW s \in Siblings, SiblingStart(s) PROVE ControlInv'
    BY <2>10 DEF SiblingStart, BeginApply, Goto
  <2>11. ASSUME NEW s \in Siblings, SiblingKilled(s) PROVE ControlInv'
    BY <2>11 DEF SiblingKilled, Return, Goto
  <2>12. CASE UNCHANGED vars
    BY <2>12 DEF vars
  <2> QED BY <2>1, <2>2, <2>3, <2>4, <2>5, <2>6, <2>7, <2>8, <2>9, <2>10, <2>11, <2>12 DEF Next, Loop, Environment
<1> QED BY <1>1, <1>2, TypeCorrect, PTL DEF Spec

(* The processes in the critical section hold the lock, and one does at most, *)
(* whatever fails or crashes.                                                 *)
THEOREM LockHeld == Spec => []LockInv
<1>1. Init => LockInv
  BY DEF Init, LockInv, Critical, Procs
<1>2. TypeOK /\ ControlInv /\ LockInv /\ [Next]_vars => LockInv'
  <2> SUFFICES ASSUME TypeOK /\ ControlInv /\ LockInv, [Next]_vars PROVE LockInv'
    OBVIOUS
  <2> USE ProcAssumption DEF LockInv, ControlInv, Critical, TypeOK, Procs, hwVars, envVars, applyVars, loopVars, watchVars
  <2>1. CASE Seed \/ StartLoop \/ Wake \/ Spin \/ Verify \/ HoldPoll \/ Settle \/ RecordPresent \/ ReadUnhealed \/ Hook \/ Decide \/ LeaveLoop \/ MappingNotify \/ SuspectWindowEnds \/ Sigterm
    BY <2>1 DEF Seed, StartLoop, Wake, Spin, Verify, HoldPoll, Settle, RecordPresent, ReadUnhealed, Hook, Decide, LeaveLoop, MappingNotify, SuspectWindowEnds, Sigterm, vars
  <2>2. CASE Boot
    BY <2>2 DEF Boot, BeginApply, Goto
  <2>3. CASE BootApplied
    BY <2>3 DEF BootApplied, Goto
  <2>4. CASE BounceGate
    BY <2>4 DEF BounceGate, CallApply, BeginApply, Goto
  <2>5. CASE HoldEnd
    BY <2>5 DEF HoldEnd, CallApply, BeginApply, Goto
  <2>6. CASE ApplyReturned
    BY <2>6 DEF ApplyReturned, Goto, AfterApply
  <2>7. CASE Crash
    BY <2>7 DEF Crash, Return, Goto
  <2>8. ASSUME NEW p \in Procs, ApplyOnce(p) PROVE LockInv'
    <3>1. CASE ApplyLock(p)
      BY <2>8, <3>1 DEF ApplyOnce, ApplyLock, Bail, Return, Goto, LockFree
    <3>2. CASE ApplyRead1(p)
      BY <2>8, <3>2 DEF ApplyOnce, ApplyRead1, Bail, Return, Goto
    <3>3. CASE ApplyRead2(p)
      BY <2>8, <3>3 DEF ApplyOnce, ApplyRead2, Bail, Return, Goto
    <3>4. CASE output_off(p)
      BY <2>8, <3>4 DEF ApplyOnce, output_off
    <3>5. CASE AfterScrub(p)
      BY <2>8, <3>5 DEF ApplyOnce, AfterScrub, Return, Goto
    <3>6. CASE auto_pos(p)
      BY <2>8, <3>6 DEF ApplyOnce, auto_pos
    <3>7. CASE run_profile(p)
      BY <2>8, <3>7 DEF ApplyOnce, run_profile
    <3>8. CASE ApplyDone(p)
      BY <2>8, <3>8 DEF ApplyOnce, ApplyDone, Return, Goto
    <3> QED BY <2>8, <3>1, <3>2, <3>3, <3>4, <3>5, <3>6, <3>7, <3>8 DEF ApplyOnce
  <2>9. ASSUME NEW c \in Connectors, Hotplug(c) PROVE LockInv'
    BY <2>9 DEF Hotplug
  <2>10. ASSUME NEW s \in Siblings, SiblingStart(s) PROVE LockInv'
    BY <2>10 DEF SiblingStart, BeginApply, Goto
  <2>11. ASSUME NEW s \in Siblings, SiblingKilled(s) PROVE LockInv'
    BY <2>11 DEF SiblingKilled, Return, Goto
  <2>12. CASE UNCHANGED vars
    BY <2>12 DEF vars
  <2> QED BY <2>1, <2>2, <2>3, <2>4, <2>5, <2>6, <2>7, <2>8, <2>9, <2>10, <2>11, <2>12 DEF Next, Loop, Environment
<1> QED BY <1>1, <1>2, TypeCorrect, ControlFollowsApply, PTL DEF Spec

(* No two processes ever read and command the heads at the same time. *)
THEOREM ApplyMutualExclusion == Spec => []MutualExclusion
<1>1. LockInv => MutualExclusion
  BY DEF LockInv, MutualExclusion
<1> QED BY <1>1, LockHeld, PTL

(***************************************************************************)
(* Commands follow the second read.                                        *)
(***************************************************************************)

(* --off goes to heads that read #2 saw disconnected, --auto to the others. *)
THEOREM CommandsFollowRead2 == Spec => []CommandInv
<1>1. Init => CommandInv
  BY DEF Init, CommandInv, Commanding
<1>2. TypeOK /\ ControlInv /\ CommandInv /\ [Next]_vars => CommandInv'
  <2> SUFFICES ASSUME TypeOK /\ ControlInv /\ CommandInv, [Next]_vars PROVE CommandInv'
    OBVIOUS
  <2> USE ProcAssumption DEF CommandInv, ControlInv, Commanding, TypeOK, Procs, hwVars, envVars, applyVars, loopVars, watchVars
  <2>1. CASE Seed \/ StartLoop \/ Wake \/ Spin \/ Verify \/ HoldPoll \/ Settle \/ RecordPresent \/ ReadUnhealed \/ Hook \/ Decide \/ LeaveLoop \/ MappingNotify \/ SuspectWindowEnds \/ Sigterm
    BY <2>1 DEF Seed, StartLoop, Wake, Spin, Verify, HoldPoll, Settle, RecordPresent, ReadUnhealed, Hook, Decide, LeaveLoop, MappingNotify, SuspectWindowEnds, Sigterm, vars
  <2>2. CASE Boot
    BY <2>2 DEF Boot, BeginApply, Goto
  <2>3. CASE BootApplied
    BY <2>3 DEF BootApplied, Goto
  <2>4. CASE BounceGate
    BY <2>4 DEF BounceGate, CallApply, BeginApply, Goto
  <2>5. CASE HoldEnd
    BY <2>5 DEF HoldEnd, CallApply, BeginApply, Goto
  <2>6. CASE ApplyReturned
    BY <2>6 DEF ApplyReturned, Goto, AfterApply
  <2>7. CASE Crash
    BY <2>7 DEF Crash, Return, Goto
  <2>8. ASSUME NEW p \in Procs, ApplyOnce(p) PROVE CommandInv'
    <3>1. CASE ApplyLock(p)
      BY <2>8, <3>1 DEF ApplyOnce, ApplyLock, Bail, Return, Goto, LockFree
    <3>2. CASE ApplyRead1(p)
      BY <2>8, <3>2 DEF ApplyOnce, ApplyRead1, Bail, Return, Goto
    <3>3. CASE ApplyRead2(p)
      BY <2>8, <3>3 DEF ApplyOnce, ApplyRead2, Bail, Return, Goto, StaleHeads, scrub_stale, RandR
    <3>4. CASE output_off(p)
      BY <2>8, <3>4 DEF ApplyOnce, output_off
    <3>5. CASE AfterScrub(p)
      BY <2>8, <3>5 DEF ApplyOnce, AfterScrub, Return, Goto
    <3>6. CASE auto_pos(p)
      BY <2>8, <3>6 DEF ApplyOnce, auto_pos
    <3>7. CASE run_profile(p)
      BY <2>8, <3>7 DEF ApplyOnce, run_profile
    <3>8. CASE ApplyDone(p)
      BY <2>8, <3>8 DEF ApplyOnce, ApplyDone, Return, Goto
    <3> QED BY <2>8, <3>1, <3>2, <3>3, <3>4, <3>5, <3>6, <3>7, <3>8 DEF ApplyOnce
  <2>9. ASSUME NEW c \in Connectors, Hotplug(c) PROVE CommandInv'
    BY <2>9 DEF Hotplug
  <2>10. ASSUME NEW s \in Siblings, SiblingStart(s) PROVE CommandInv'
    BY <2>10 DEF SiblingStart, BeginApply, Goto
  <2>11. ASSUME NEW s \in Siblings, SiblingKilled(s) PROVE CommandInv'
    BY <2>11 DEF SiblingKilled, Return, Goto
  <2>12. CASE UNCHANGED vars
    BY <2>12 DEF vars
  <2> QED BY <2>1, <2>2, <2>3, <2>4, <2>5, <2>6, <2>7, <2>8, <2>9, <2>10, <2>11, <2>12 DEF Next, Loop, Environment
<1> QED BY <1>1, <1>2, TypeCorrect, ControlFollowsApply, PTL DEF Spec

(* An apply that powers a connector off does not bring it back up. *)
THEOREM OneApplyNeverBounces == Spec => []NoOffThenOn
<1>1. TypeOK /\ CommandInv => NoOffThenOn
  BY DEF TypeOK, CommandInv, NoOffThenOn, Commanding
<1> QED BY <1>1, TypeCorrect, CommandsFollowRead2, PTL

(***************************************************************************)
(* What the second read still says when its commands are sent.             *)
(***************************************************************************)

(* A head that was not hot-plugged since read #2 is as read #2 saw it. *)
THEOREM Read2StaysTrue == Spec => []SyncInv
<1>1. Init => SyncInv
  BY DEF Init, SyncInv, Commanding
<1>2. TypeOK /\ ControlInv /\ SyncInv /\ [Next]_vars => SyncInv'
  <2> SUFFICES ASSUME TypeOK /\ ControlInv /\ SyncInv, [Next]_vars PROVE SyncInv'
    OBVIOUS
  <2> USE ProcAssumption DEF SyncInv, ControlInv, Commanding, TypeOK, Procs, hwVars, envVars, applyVars, loopVars, watchVars
  <2>1. CASE Seed \/ Wake \/ Spin \/ Verify \/ HoldPoll \/ Settle \/ RecordPresent \/ ReadUnhealed \/ Hook \/ LeaveLoop \/ MappingNotify \/ SuspectWindowEnds \/ Sigterm
    BY <2>1 DEF Seed, Wake, Spin, Verify, HoldPoll, Settle, RecordPresent, ReadUnhealed, Hook, LeaveLoop, MappingNotify, SuspectWindowEnds, Sigterm, vars
  <2>2. CASE Boot
    BY <2>2 DEF Boot, BeginApply, Goto
  <2>3. CASE BootApplied
    BY <2>3 DEF BootApplied, Goto
  <2>4. CASE StartLoop
    BY <2>4 DEF StartLoop
  <2>5. CASE BounceGate
    BY <2>5 DEF BounceGate, CallApply, BeginApply, Goto
  <2>6. CASE HoldEnd
    BY <2>6 DEF HoldEnd, CallApply, BeginApply, Goto
  <2>7. CASE ApplyReturned
    BY <2>7 DEF ApplyReturned, Goto, AfterApply
  <2>8. CASE Decide
    BY <2>8 DEF Decide
  <2>9. CASE Crash
    BY <2>9 DEF Crash, Return, Goto
  <2>10. ASSUME NEW p \in Procs, ApplyOnce(p) PROVE SyncInv'
    <3>1. CASE ApplyLock(p)
      BY <2>10, <3>1 DEF ApplyOnce, ApplyLock, Bail, Return, Goto, LockFree
    <3>2. CASE ApplyRead1(p)
      BY <2>10, <3>2 DEF ApplyOnce, ApplyRead1, Bail, Return, Goto
    <3>3. CASE ApplyRead2(p)
      BY <2>10, <3>3 DEF ApplyOnce, ApplyRead2, Bail, Return, Goto, RandR
    <3>4. CASE output_off(p)
      BY <2>10, <3>4 DEF ApplyOnce, output_off, Xrandr, Touch, Late, Observing
    <3>5. CASE AfterScrub(p)
      BY <2>10, <3>5 DEF ApplyOnce, AfterScrub, Return, Goto
    <3>6. CASE auto_pos(p)
      BY <2>10, <3>6 DEF ApplyOnce, auto_pos, Xrandr, Touch, Late, Observing
    <3>7. CASE run_profile(p)
      BY <2>10, <3>7 DEF ApplyOnce, run_profile, Xrandr, Touch, Late, Observing
    <3>8. CASE ApplyDone(p)
      BY <2>10, <3>8 DEF ApplyOnce, ApplyDone, Return, Goto
    <3> QED BY <2>10, <3>1, <3>2, <3>3, <3>4, <3>5, <3>6, <3>7, <3>8 DEF ApplyOnce
  <2>11. ASSUME NEW c \in Connectors, Hotplug(c) PROVE SyncInv'
    BY <2>11 DEF Hotplug, Touch, Observing
  <2>12. ASSUME NEW s \in Siblings, SiblingStart(s) PROVE SyncInv'
    BY <2>12 DEF SiblingStart, BeginApply, Goto
  <2>13. ASSUME NEW s \in Siblings, SiblingKilled(s) PROVE SyncInv'
    BY <2>13 DEF SiblingKilled, Return, Goto
  <2>14. CASE UNCHANGED vars
    BY <2>14 DEF vars
  <2> QED BY <2>1, <2>2, <2>3, <2>4, <2>5, <2>6, <2>7, <2>8, <2>9, <2>10, <2>11, <2>12, <2>13, <2>14 DEF Next, Loop, Environment
<1> QED BY <1>1, <1>2, TypeCorrect, ControlFollowsApply, PTL DEF Spec

(* No command blanks a head that stayed connected since read #2. *)
THEOREM SteadyHeadsStayLit == Spec => NeverBlanksSteadyHead
<1> DEFINE Steady == \A c \in lit \ lit' :
       c \in connected => \E p \in Procs : at[p] \in Critical /\ c \in touched[p]
<1>1. TypeOK /\ CommandInv /\ SyncInv /\ [Next]_vars => Steady
  <2> SUFFICES ASSUME TypeOK, CommandInv, SyncInv, [Next]_vars,
                      NEW c \in lit \ lit', c \in connected
               PROVE  \E p \in Procs : at[p] \in Critical /\ c \in touched[p]
    OBVIOUS
  <2> USE DEF hwVars, applyVars, loopVars
  <2>1. PICK p \in Procs : ApplyOnce(p)
    BY DEF Next, Loop, Environment, Boot, BootApplied, Seed, StartLoop, Wake, Spin, Verify,
       BounceGate, HoldPoll, HoldEnd, ApplyReturned, Settle, RecordPresent, ReadUnhealed,
       Hook, Decide, LeaveLoop, Hotplug, MappingNotify, SuspectWindowEnds, Sigterm, Crash,
       SiblingStart, SiblingKilled, vars
  <2>2. CASE output_off(p)
    <3>1. at[p] = "scrub" /\ c \in todo[p]
      BY <2>2 DEF output_off, Xrandr
    <3>2. c \notin outs[p].connected
      BY <3>1 DEF CommandInv
    <3> QED BY <3>1, <3>2 DEF SyncInv, Commanding, Critical, TypeOK
  <2>3. CASE auto_pos(p)
    BY <2>3 DEF auto_pos, Xrandr, AutoLit
  <2>4. CASE run_profile(p)
    BY <2>4 DEF run_profile, Xrandr, AutoLit
  <2> QED BY <2>1, <2>2, <2>3, <2>4 DEF ApplyOnce, ApplyLock, ApplyRead1, ApplyRead2,
             AfterScrub, ApplyDone
<1> QED BY <1>1, TypeCorrect, CommandsFollowRead2, Read2StaysTrue, PTL
        DEF Spec, NeverBlanksSteadyHead

(***************************************************************************)
(* What a completed apply has healed, and what the absorbed hash may show. *)
(***************************************************************************)

(* A one-shot apply that runs after the daemon's saw every hot-plug that the *)
(* daemon's second read still vouches for.                                   *)
THEOREM LaterApplySawMore == Spec => []OrderInv
<1>1. Init => OrderInv
  BY DEF Init, OrderInv, Commanding, Procs
<1>2. TypeOK /\ ControlInv /\ LockInv /\ OrderInv /\ [Next]_vars => OrderInv'
  <2> SUFFICES ASSUME TypeOK /\ ControlInv /\ LockInv /\ OrderInv, [Next]_vars PROVE OrderInv'
    OBVIOUS
  <2> USE ProcAssumption DEF OrderInv, ControlInv, LockInv, Critical, Commanding, Applied, SettleSteps, TypeOK, Procs, hwVars, envVars, applyVars, loopVars, watchVars
  <2>1. CASE Wake \/ Spin \/ Verify \/ HoldPoll \/ MappingNotify \/ SuspectWindowEnds \/ Sigterm
    BY <2>1 DEF Wake, Spin, Verify, HoldPoll, MappingNotify, SuspectWindowEnds, Sigterm, vars
  <2>2. CASE Boot
    BY <2>2 DEF Boot, BeginApply, Goto
  <2>3. CASE BootApplied
    BY <2>3 DEF BootApplied, Goto
  <2>4. CASE Seed
    BY <2>4 DEF Seed
  <2>5. CASE StartLoop
    BY <2>5 DEF StartLoop
  <2>6. CASE BounceGate
    BY <2>6 DEF BounceGate, CallApply, BeginApply, Goto
  <2>7. CASE HoldEnd
    BY <2>7 DEF HoldEnd, CallApply, BeginApply, Goto
  <2>8. CASE ApplyReturned
    BY <2>8 DEF ApplyReturned, Goto, AfterApply
  <2>9. CASE Settle
    BY <2>9 DEF Settle
  <2>10. CASE RecordPresent
    BY <2>10 DEF RecordPresent
  <2>11. CASE ReadUnhealed
    BY <2>11 DEF ReadUnhealed
  <2>12. CASE Hook
    BY <2>12 DEF Hook
  <2>13. CASE Decide
    BY <2>13 DEF Decide
  <2>14. CASE LeaveLoop
    BY <2>14 DEF LeaveLoop
  <2>15. CASE Crash
    BY <2>15 DEF Crash, Return, Goto
  <2>16. ASSUME NEW p \in Procs, ApplyOnce(p) PROVE OrderInv'
    <3>1. CASE ApplyLock(p)
      BY <2>16, <3>1 DEF ApplyOnce, ApplyLock, Bail, Return, Goto, LockFree
    <3>2. CASE ApplyRead1(p)
      BY <2>16, <3>2 DEF ApplyOnce, ApplyRead1, Bail, Return, Goto
    <3>3. CASE ApplyRead2(p)
      BY <2>16, <3>3 DEF ApplyOnce, ApplyRead2, Bail, Return, Goto
    <3>4. CASE output_off(p)
      BY <2>16, <3>4 DEF ApplyOnce, output_off, Xrandr, Touch, Late, Observing
    <3>5. CASE AfterScrub(p)
      BY <2>16, <3>5 DEF ApplyOnce, AfterScrub, Return, Goto
    <3>6. CASE auto_pos(p)
      BY <2>16, <3>6 DEF ApplyOnce, auto_pos, Xrandr, Touch, Late, Observing
    <3>7. CASE run_profile(p)
      BY <2>16, <3>7 DEF ApplyOnce, run_profile, Xrandr, Touch, Late, Observing
    <3>8. CASE ApplyDone(p)
      BY <2>16, <3>8 DEF ApplyOnce, ApplyDone, Return, Goto
    <3> QED BY <2>16, <3>1, <3>2, <3>3, <3>4, <3>5, <3>6, <3>7, <3>8 DEF ApplyOnce
  <2>17. ASSUME NEW c \in Connectors, Hotplug(c) PROVE OrderInv'
    BY <2>17 DEF Hotplug, Touch, Observing
  <2>18. ASSUME NEW s \in Siblings, SiblingStart(s) PROVE OrderInv'
    BY <2>18 DEF SiblingStart, BeginApply, Goto
  <2>19. ASSUME NEW s \in Siblings, SiblingKilled(s) PROVE OrderInv'
    BY <2>19 DEF SiblingKilled, Return, Goto
  <2>20. CASE UNCHANGED vars
    BY <2>20 DEF vars
  <2> QED BY <2>1, <2>2, <2>3, <2>4, <2>5, <2>6, <2>7, <2>8, <2>9, <2>10, <2>11, <2>12, <2>13, <2>14, <2>15, <2>16, <2>17, <2>18, <2>19, <2>20 DEF Next, Loop, Environment
<1> QED BY <1>1, <1>2, TypeCorrect, ControlFollowsApply, LockHeld, PTL DEF Spec

(* After its apply no head the daemon still knows about is a phantom or needlessly dark. *)
THEOREM AppliesHeal == Spec => []HealInv
<1> DEFINE Known == /\ TypeOK /\ ControlInv /\ LockInv /\ CommandInv
                    /\ SyncInv /\ OrderInv /\ HealInv
<1>1. Init => HealInv
  BY DEF Init, HealInv, Applied, SettleSteps, Procs
<1>2. Known /\ [Next]_vars => HealInv'
  <2> SUFFICES ASSUME Known, [Next]_vars PROVE HealInv'
    OBVIOUS
  <2> USE ProcAssumption DEF HealInv, OrderInv, SyncInv, CommandInv, ControlInv, LockInv, Critical, Commanding, Applied, SettleSteps, TypeOK, Procs, hwVars, envVars, applyVars, loopVars, watchVars
  <2>1. CASE Wake \/ Spin \/ Verify \/ HoldPoll \/ MappingNotify \/ SuspectWindowEnds \/ Sigterm
    BY <2>1 DEF Wake, Spin, Verify, HoldPoll, MappingNotify, SuspectWindowEnds, Sigterm, vars
  <2>2. CASE Boot
    BY <2>2 DEF Boot, BeginApply, Goto
  <2>3. CASE BootApplied
    BY <2>3 DEF BootApplied, Goto
  <2>4. CASE Seed
    BY <2>4 DEF Seed
  <2>5. CASE StartLoop
    BY <2>5 DEF StartLoop
  <2>6. CASE BounceGate
    BY <2>6 DEF BounceGate, CallApply, BeginApply, Goto
  <2>7. CASE HoldEnd
    BY <2>7 DEF HoldEnd, CallApply, BeginApply, Goto
  <2>8. CASE ApplyReturned
    BY <2>8 DEF ApplyReturned, Goto, AfterApply
  <2>9. CASE Settle
    BY <2>9 DEF Settle
  <2>10. CASE RecordPresent
    BY <2>10 DEF RecordPresent
  <2>11. CASE ReadUnhealed
    BY <2>11 DEF ReadUnhealed
  <2>12. CASE Hook
    BY <2>12 DEF Hook
  <2>13. CASE Decide
    BY <2>13 DEF Decide
  <2>14. CASE LeaveLoop
    BY <2>14 DEF LeaveLoop
  <2>15. CASE Crash
    BY <2>15 DEF Crash, Return, Goto
  <2>16. ASSUME NEW p \in Procs, ApplyOnce(p) PROVE HealInv'
    <3>1. CASE ApplyLock(p)
      BY <2>16, <3>1 DEF ApplyOnce, ApplyLock, Bail, Return, Goto, LockFree
    <3>2. CASE ApplyRead1(p)
      BY <2>16, <3>2 DEF ApplyOnce, ApplyRead1, Bail, Return, Goto
    <3>3. CASE ApplyRead2(p)
      BY <2>16, <3>3 DEF ApplyOnce, ApplyRead2, Bail, Return, Goto, RandR, StaleHeads, scrub_stale
    <3>4. CASE output_off(p)
      BY <2>16, <3>4 DEF ApplyOnce, output_off, Xrandr, Touch, Late, Observing
    <3>5. CASE AfterScrub(p)
      BY <2>16, <3>5 DEF ApplyOnce, AfterScrub, Return, Goto
    <3>6. CASE auto_pos(p)
      BY <2>16, <3>6 DEF ApplyOnce, auto_pos, Xrandr, Touch, Late, Observing, AutoLit
    <3>7. CASE run_profile(p)
      BY <2>16, <3>7 DEF ApplyOnce, run_profile, Xrandr, Touch, Late, Observing, AutoLit
    <3>8. CASE ApplyDone(p)
      BY <2>16, <3>8 DEF ApplyOnce, ApplyDone, Return, Goto
    <3> QED BY <2>16, <3>1, <3>2, <3>3, <3>4, <3>5, <3>6, <3>7, <3>8 DEF ApplyOnce
  <2>17. ASSUME NEW c \in Connectors, Hotplug(c) PROVE HealInv'
    BY <2>17 DEF Hotplug, Touch, Observing
  <2>18. ASSUME NEW s \in Siblings, SiblingStart(s) PROVE HealInv'
    BY <2>18 DEF SiblingStart, BeginApply, Goto
  <2>19. ASSUME NEW s \in Siblings, SiblingKilled(s) PROVE HealInv'
    BY <2>19 DEF SiblingKilled, Return, Goto
  <2>20. CASE UNCHANGED vars
    BY <2>20 DEF vars
  <2> QED BY <2>1, <2>2, <2>3, <2>4, <2>5, <2>6, <2>7, <2>8, <2>9, <2>10, <2>11, <2>12, <2>13, <2>14, <2>15, <2>16, <2>17, <2>18, <2>19, <2>20 DEF Next, Loop, Environment
<1> QED BY <1>1, <1>2, TypeCorrect, ControlFollowsApply, LockHeld, CommandsFollowRead2,
        Read2StaysTrue, LaterApplySawMore, PTL DEF Spec

(* Between the settle read and the decision, every fault the settled hash shows *)
(* is a raced phantom, a head that changed since, or a head reported dark.      *)
THEOREM SettledHashExplained == Spec => []SettleInv
<1>1. Init => SettleInv
  BY DEF Init, SettleInv, SettleSteps
<1>2. TypeOK /\ ControlInv /\ HealInv /\ SettleInv /\ [Next]_vars => SettleInv'
  <2> SUFFICES ASSUME TypeOK /\ ControlInv /\ HealInv /\ SettleInv, [Next]_vars PROVE SettleInv'
    OBVIOUS
  <2> USE ProcAssumption DEF SettleInv, HealInv, ControlInv, Applied, SettleSteps, TypeOK, Procs, hwVars, envVars, applyVars, loopVars, watchVars
  <2>1. CASE Seed \/ Wake \/ Spin \/ Verify \/ HoldPoll \/ LeaveLoop \/ MappingNotify \/ SuspectWindowEnds \/ Sigterm
    BY <2>1 DEF Seed, Wake, Spin, Verify, HoldPoll, LeaveLoop, MappingNotify, SuspectWindowEnds, Sigterm, vars
  <2>2. CASE Boot
    BY <2>2 DEF Boot, BeginApply, Goto
  <2>3. CASE BootApplied
    BY <2>3 DEF BootApplied, Goto
  <2>4. CASE StartLoop
    BY <2>4 DEF StartLoop
  <2>5. CASE BounceGate
    BY <2>5 DEF BounceGate, CallApply, BeginApply, Goto
  <2>6. CASE HoldEnd
    BY <2>6 DEF HoldEnd, CallApply, BeginApply, Goto
  <2>7. CASE ApplyReturned
    BY <2>7 DEF ApplyReturned, Goto, AfterApply
  <2>8. CASE Settle
    BY <2>8 DEF Settle, topology_hash, Entry, RandR, PhantomIn, DarkIn
  <2>9. CASE RecordPresent
    BY <2>9 DEF RecordPresent
  <2>10. CASE ReadUnhealed
    BY <2>10 DEF ReadUnhealed, unhealed_outputs, RandR, DarkIn
  <2>11. CASE Hook
    BY <2>11 DEF Hook
  <2>12. CASE Decide
    BY <2>12 DEF Decide
  <2>13. CASE Crash
    BY <2>13 DEF Crash, Return, Goto
  <2>14. ASSUME NEW p \in Procs, ApplyOnce(p) PROVE SettleInv'
    <3>1. CASE ApplyLock(p)
      BY <2>14, <3>1 DEF ApplyOnce, ApplyLock, Bail, Return, Goto, LockFree
    <3>2. CASE ApplyRead1(p)
      BY <2>14, <3>2 DEF ApplyOnce, ApplyRead1, Bail, Return, Goto
    <3>3. CASE ApplyRead2(p)
      BY <2>14, <3>3 DEF ApplyOnce, ApplyRead2, Bail, Return, Goto
    <3>4. CASE output_off(p)
      <4>1. /\ connected' = connected /\ pc' = pc /\ settled' = settled
            /\ dark' = dark /\ at' = at
        BY <2>14, <3>4 DEF ApplyOnce, output_off
      <4>2. (lit' \ lit \subseteq late' /\ late \subseteq late') \/ pc \notin SettleSteps
        BY <2>14, <3>4 DEF output_off, Xrandr, Late
      <4>3. touched[Daemon] \subseteq touched'[Daemon]
        BY <2>14, <3>4 DEF output_off, Xrandr, Touch
      <4> QED BY <4>1, <4>2, <4>3
    <3>5. CASE AfterScrub(p)
      BY <2>14, <3>5 DEF ApplyOnce, AfterScrub, Return, Goto
    <3>6. CASE auto_pos(p)
      <4>1. /\ connected' = connected /\ pc' = pc /\ settled' = settled
            /\ dark' = dark /\ at' = at
        BY <2>14, <3>6 DEF ApplyOnce, auto_pos
      <4>2. (lit' \ lit \subseteq late' /\ late \subseteq late') \/ pc \notin SettleSteps
        BY <2>14, <3>6 DEF auto_pos, Xrandr, Late
      <4>3. touched[Daemon] \subseteq touched'[Daemon]
        BY <2>14, <3>6 DEF auto_pos, Xrandr, Touch
      <4> QED BY <4>1, <4>2, <4>3
    <3>7. CASE run_profile(p)
      <4>1. /\ connected' = connected /\ pc' = pc /\ settled' = settled
            /\ dark' = dark /\ at' = at
        BY <2>14, <3>7 DEF ApplyOnce, run_profile
      <4>2. (lit' \ lit \subseteq late' /\ late \subseteq late') \/ pc \notin SettleSteps
        BY <2>14, <3>7 DEF run_profile, Xrandr, Late
      <4>3. touched[Daemon] \subseteq touched'[Daemon]
        BY <2>14, <3>7 DEF run_profile, Xrandr, Touch
      <4> QED BY <4>1, <4>2, <4>3
    <3>8. CASE ApplyDone(p)
      BY <2>14, <3>8 DEF ApplyOnce, ApplyDone, Return, Goto
    <3> QED BY <2>14, <3>1, <3>2, <3>3, <3>4, <3>5, <3>6, <3>7, <3>8 DEF ApplyOnce
  <2>15. ASSUME NEW c \in Connectors, Hotplug(c) PROVE SettleInv'
    BY <2>15 DEF Hotplug, Touch, Observing, Late
  <2>16. ASSUME NEW s \in Siblings, SiblingStart(s) PROVE SettleInv'
    BY <2>16 DEF SiblingStart, BeginApply, Goto
  <2>17. ASSUME NEW s \in Siblings, SiblingKilled(s) PROVE SettleInv'
    BY <2>17 DEF SiblingKilled, Return, Goto
  <2>18. CASE UNCHANGED vars
    BY <2>18 DEF vars
  <2> QED BY <2>1, <2>2, <2>3, <2>4, <2>5, <2>6, <2>7, <2>8, <2>9, <2>10, <2>11, <2>12, <2>13, <2>14, <2>15, <2>16, <2>17, <2>18 DEF Next, Loop, Environment
<1> QED BY <1>1, <1>2, TypeCorrect, ControlFollowsApply, AppliesHeal, PTL DEF Spec

(* The hash the loop compares against hides no fault the daemon could have known of. *)
THEOREM NothingKnownIsAbsorbed == Spec => []AbsorbedFaultsExcused
<1>1. Init => AbsorbedFaultsExcused
  BY DEF Init, AbsorbedFaultsExcused, LoopSteps, SettleSteps
<1>2. TypeOK /\ ControlInv /\ HealInv /\ SettleInv /\ AbsorbedFaultsExcused /\ [Next]_vars => AbsorbedFaultsExcused'
  <2> SUFFICES ASSUME TypeOK /\ ControlInv /\ HealInv /\ SettleInv /\ AbsorbedFaultsExcused, [Next]_vars PROVE AbsorbedFaultsExcused'
    OBVIOUS
  <2> USE ProcAssumption DEF AbsorbedFaultsExcused, LoopSteps, SettleSteps, TypeOK, Procs, hwVars, envVars, applyVars, loopVars, watchVars
  <2>1. CASE Seed \/ Spin \/ MappingNotify \/ SuspectWindowEnds \/ Sigterm
    BY <2>1 DEF Seed, Spin, MappingNotify, SuspectWindowEnds, Sigterm, vars
  <2>2. CASE Boot
    BY <2>2 DEF Boot, BeginApply, Goto
  <2>3. CASE BootApplied
    BY <2>3 DEF BootApplied, Goto
  <2>4. CASE StartLoop
    BY <2>4 DEF StartLoop, Excuse, PhantomIn, DarkIn, topology_hash, Entry, RandR, HealInv, Applied
  <2>5. CASE Wake
    BY <2>5 DEF Wake
  <2>6. CASE Verify
    BY <2>6 DEF Verify
  <2>7. CASE BounceGate
    BY <2>7 DEF BounceGate, CallApply, BeginApply, Goto
  <2>8. CASE HoldPoll
    BY <2>8 DEF HoldPoll
  <2>9. CASE HoldEnd
    BY <2>9 DEF HoldEnd, CallApply, BeginApply, Goto
  <2>10. CASE ApplyReturned
    BY <2>10 DEF ApplyReturned, Goto, AfterApply
  <2>11. CASE Settle
    BY <2>11 DEF Settle
  <2>12. CASE RecordPresent
    BY <2>12 DEF RecordPresent
  <2>13. CASE ReadUnhealed
    BY <2>13 DEF ReadUnhealed
  <2>14. CASE Hook
    BY <2>14 DEF Hook
  <2>15. CASE Decide
    BY <2>15 DEF Decide, Excuse, SettleInv, MayRetry
  <2>16. CASE LeaveLoop
    BY <2>16 DEF LeaveLoop
  <2>17. CASE Crash
    BY <2>17 DEF Crash, Return, Goto
  <2>18. ASSUME NEW p \in Procs, ApplyOnce(p) PROVE AbsorbedFaultsExcused'
    BY <2>18 DEF ApplyOnce, ApplyLock, ApplyRead1, ApplyRead2, output_off, AfterScrub, auto_pos, run_profile, ApplyDone
  <2>19. ASSUME NEW c \in Connectors, Hotplug(c) PROVE AbsorbedFaultsExcused'
    BY <2>19 DEF Hotplug
  <2>20. ASSUME NEW s \in Siblings, SiblingStart(s) PROVE AbsorbedFaultsExcused'
    BY <2>20 DEF SiblingStart, BeginApply, Goto
  <2>21. ASSUME NEW s \in Siblings, SiblingKilled(s) PROVE AbsorbedFaultsExcused'
    BY <2>21 DEF SiblingKilled, Return, Goto
  <2>22. CASE UNCHANGED vars
    BY <2>22 DEF vars
  <2> QED BY <2>1, <2>2, <2>3, <2>4, <2>5, <2>6, <2>7, <2>8, <2>9, <2>10, <2>11, <2>12, <2>13, <2>14, <2>15, <2>16, <2>17, <2>18, <2>19, <2>20, <2>21, <2>22 DEF Next, Loop, Environment
<1> QED BY <1>1, <1>2, TypeCorrect, ControlFollowsApply, AppliesHeal, SettledHashExplained,
        PTL DEF Spec

(***************************************************************************)
(* The refinement: every step of the daemon is a step of Reconciler.       *)
(***************************************************************************)
Promise == [Abstract!Next]_(Abstract!rVars)

(* What the invariants say of a state, as far as the refinement needs it. *)
Known == TypeOK /\ ControlInv /\ LockInv

(* The daemon's phase at each of its control points. *)
LEMMA PhaseAt ==
  /\ pc \in {"down", "boot", "seed", "start"} => Phase = "down"
  /\ pc = "select" => Phase = "resting"
  /\ pc \in {"debounce", "bounce", "hold"} => Phase = "looking"
  /\ pc = "apply" => Phase = IF at[Daemon] \in Critical THEN "healing"
                             ELSE IF at[Daemon] = "true" THEN "done" ELSE "looking"
  /\ pc = "settle" => Phase = "done"
  /\ pc \in SettleSteps => Phase = "sampled"
  /\ pc = "stopped" => Phase = "stopped"
BY DEF Phase, SettleSteps

LEMMA PhaseAfter ==
  /\ pc' \in {"down", "boot", "seed", "start"} => Phase' = "down"
  /\ pc' = "select" => Phase' = "resting"
  /\ pc' \in {"debounce", "bounce", "hold"} => Phase' = "looking"
  /\ pc' = "apply" => Phase' = IF at'[Daemon] \in Critical THEN "healing"
                              ELSE IF at'[Daemon] = "true" THEN "done" ELSE "looking"
  /\ pc' = "settle" => Phase' = "done"
  /\ pc' \in SettleSteps => Phase' = "sampled"
  /\ pc' = "stopped" => Phase' = "stopped"
BY DEF Phase, SettleSteps

LEMMA PhaseKept ==
  ASSUME pc' = pc, at'[Daemon] = at[Daemon]
  PROVE  Phase' = Phase
BY DEF Phase

(* A step that Reconciler cannot see. *)
LEMMA Unseen ==
  ASSUME UNCHANGED <<connected, lit, lock, last, settled>>, Phase' = Phase
  PROVE  Promise
BY DEF Promise, Abstract!rVars

(* Only the process that steps moves in apply_once. *)
LEMMA OthersStay ==
  ASSUME TypeOK, NEW p \in Procs, NEW step, Goto(p, step)
  PROVE  at'[p] = step /\ (p # Daemon => at'[Daemon] = at[Daemon])
BY DEF Goto, TypeOK, Procs

(* Taking the apply-lock. *)
LEMMA LockMaps ==
  ASSUME Known, NEW p \in Procs, at[p] = "lock", LockFree, lock' = lock \cup {p},
         Goto(p, "read1"), UNCHANGED <<connected, lit, pc, last, settled>>
  PROVE  Promise
<1>1. lock = {} /\ lock' = {p}
  BY DEF LockFree
<1>2. at'[p] = "read1" /\ (p # Daemon => at'[Daemon] = at[Daemon])
  BY OthersStay DEF Known
<1>3. CASE p # Daemon
  <2>1. Phase' = Phase
    BY <1>2, <1>3, PhaseKept
  <2>2. Abstract!Acquire(p)
    BY <1>1, <1>3, <2>1 DEF Abstract!Acquire
  <2> QED
    BY <2>2 DEF Promise, Abstract!Next
<1>4. CASE p = Daemon
  <2>1. pc \in {"boot", "apply"} /\ pc' = pc
    BY <1>4 DEF Known, ControlInv
  <2>2. CASE pc = "boot"
    <3>1. Phase = "down" /\ Phase' = "down"
      BY <2>1, <2>2, PhaseAt, PhaseAfter
    <3>2. Abstract!Acquire(p)
      BY <1>1, <3>1 DEF Abstract!Acquire
    <3> QED
      BY <3>2 DEF Promise, Abstract!Next
  <2>3. CASE pc = "apply"
    <3>1. Phase = "looking" /\ Phase' = "healing"
      BY <1>2, <1>4, <2>1, <2>3, PhaseAt, PhaseAfter DEF Critical
    <3>2. Abstract!Acquire(p)
      BY <1>1, <1>4, <3>1 DEF Abstract!Acquire
    <3> QED
      BY <3>2 DEF Promise, Abstract!Next
  <2> QED
    BY <2>1, <2>2, <2>3
<1> QED
  BY <1>3, <1>4

(* Leaving apply_once, with the lock or without having got it. *)
LEMMA ReturnMaps ==
  ASSUME Known, NEW p \in Procs, NEW applied \in {"true", "false"}, Return(p, applied),
         at[p] = "lock" => applied = "false", at[p] \in Critical \cup {"lock"},
         UNCHANGED <<connected, lit, pc, last, settled>>
  PROVE  Promise
<1>1. lock' = lock \ {p} /\ Goto(p, applied)
  BY DEF Return
<1>2. at'[p] = applied /\ (p # Daemon => at'[Daemon] = at[Daemon])
  BY <1>1, OthersStay DEF Known
<1>3. at[p] \in Critical <=> p \in lock
  BY DEF Known, LockInv
<1>4. CASE p # Daemon
  <2>1. Phase' = Phase
    BY <1>2, <1>4, PhaseKept
  <2>2. CASE p \in lock
    <3>1. Abstract!Release(p)
      BY <1>1, <1>4, <2>1, <2>2 DEF Abstract!Release
    <3> QED
      BY <3>1 DEF Promise, Abstract!Next
  <2>3. CASE p \notin lock
    <3>1. lock' = lock
      BY <1>1, <2>3
    <3> QED
      BY <2>1, <3>1, Unseen
  <2> QED
    BY <2>2, <2>3
<1>5. CASE p = Daemon
  <2>1. pc \in {"boot", "apply"} /\ pc' = pc
    BY <1>5 DEF Known, ControlInv, Critical
  <2>2. CASE p \in lock
    <3>1. at[Daemon] \in Critical
      BY <1>3, <1>5, <2>2
    <3>2. \/ Phase = "down" /\ Phase' = "down"
          \/ Phase = "healing" /\ Phase' \in {"done", "looking"}
      BY <1>2, <1>5, <2>1, <3>1, PhaseAt, PhaseAfter DEF Critical
    <3>3. Abstract!Release(p)
      BY <1>1, <1>5, <2>2, <3>2 DEF Abstract!Release
    <3> QED
      BY <3>3 DEF Promise, Abstract!Next
  <2>3. CASE p \notin lock
    <3>1. at[Daemon] = "lock" /\ at'[Daemon] = "false" /\ lock' = lock
      BY <1>1, <1>2, <1>3, <1>5, <2>3
    <3>2. Phase' = Phase
      BY <2>1, <3>1, PhaseAt, PhaseAfter DEF Critical
    <3> QED
      BY <3>1, <3>2, Unseen
  <2> QED
    BY <2>2, <2>3
<1> QED
  BY <1>4, <1>5

(* Going on inside the critical section. *)
LEMMA GoingOnMaps ==
  ASSUME Known, NEW p \in Procs, NEW step \in Critical, at[p] \in Critical, Goto(p, step),
         UNCHANGED <<connected, lit, lock, pc, last, settled>>
  PROVE  Promise
<1>1. at'[p] = step /\ (p # Daemon => at'[Daemon] = at[Daemon])
  BY OthersStay DEF Known
<1>2. Phase' = Phase
  <2>1. CASE p # Daemon
    BY <1>1, <2>1, PhaseKept
  <2>2. CASE p = Daemon
    <3>1. pc \in {"boot", "apply"} /\ pc' = pc /\ at[Daemon] \in Critical /\ at'[Daemon] \in Critical
      BY <1>1, <2>2 DEF Known, ControlInv, Critical
    <3> QED
      BY <3>1, PhaseAt, PhaseAfter
  <2> QED
    BY <2>1, <2>2
<1> QED
  BY <1>2, Unseen

(* An xrandr command, or one that fails. *)
LEMMA CommandMaps ==
  ASSUME Known, NEW p \in Procs, at[p] \in Critical,
         \E gone \in SUBSET lit, fresh \in SUBSET connected : lit' = (lit \ gone) \cup fresh,
         UNCHANGED <<connected, lock, at, pc, last, settled>>
  PROVE  Promise
<1>1. lock # {}
  BY DEF Known, LockInv
<1>2. Phase' = Phase
  BY PhaseKept
<1>3. Abstract!Power
  BY <1>1, <1>2 DEF Abstract!Power
<1> QED
  BY <1>3 DEF Promise, Abstract!Next

(* Every step of apply_once, in whatever process. *)
LEMMA ApplyOnceMaps == ASSUME Known, NEW p \in Procs, ApplyOnce(p) PROVE Promise
<1>1. UNCHANGED <<pc, last, settled>>
  BY DEF ApplyOnce, loopVars
<1>2. CASE ApplyLock(p)
  <2>1. UNCHANGED <<connected, lit>> /\ at[p] = "lock"
    BY <1>2 DEF ApplyLock, hwVars
  <2>2. CASE Bail(p)
    BY <1>1, <2>1, <2>2, ReturnMaps DEF Bail
  <2>3. CASE ~ Bail(p)
    BY <1>1, <1>2, <2>1, <2>3, LockMaps DEF ApplyLock
  <2> QED
    BY <2>2, <2>3
<1>3. CASE ApplyRead1(p) \/ ApplyRead2(p)
  <2>1. UNCHANGED <<connected, lit>> /\ at[p] \in Critical /\ at[p] # "lock"
    BY <1>3 DEF ApplyRead1, ApplyRead2, hwVars, Critical
  <2>2. CASE Bail(p)
    BY <1>1, <2>1, <2>2, ReturnMaps DEF Bail
  <2>3. CASE ~ Bail(p)
    <3>1. PICK step \in {"read2", "scrub"} : Goto(p, step)
      BY <1>3, <2>3 DEF ApplyRead1, ApplyRead2
    <3>2. lock' = lock /\ step \in Critical
      BY <1>3, <2>3 DEF ApplyRead1, ApplyRead2, Critical
    <3> QED
      BY <1>1, <2>1, <3>1, <3>2, GoingOnMaps
  <2> QED
    BY <2>2, <2>3
<1>4. CASE output_off(p)
  <2>1. UNCHANGED <<connected, lock, at>> /\ at[p] \in Critical
    BY <1>4 DEF output_off, Critical
  <2>2. PICK c \in todo[p] : lit' = lit \ {c} \/ lit' = lit
    BY <1>4 DEF output_off, Xrandr
  <2>3. lit' = (lit \ (lit \ lit')) \cup {}
    BY <2>2
  <2> QED
    BY <1>1, <2>1, <2>3, CommandMaps
<1>5. CASE AfterScrub(p)
  <2>1. UNCHANGED <<connected, lit>> /\ at[p] \in Critical /\ at[p] # "lock"
    BY <1>5 DEF AfterScrub, hwVars, Critical
  <2>2. CASE Return(p, "true")
    BY <1>1, <2>1, <2>2, ReturnMaps
  <2>3. CASE ~ Return(p, "true")
    <3>1. PICK step \in {"profile", "place"} : Goto(p, step)
      BY <1>5, <2>3 DEF AfterScrub
    <3>2. lock' = lock /\ step \in Critical
      BY <1>5, <2>3 DEF AfterScrub, Critical
    <3> QED
      BY <1>1, <2>1, <3>1, <3>2, GoingOnMaps
  <2> QED
    BY <2>2, <2>3
<1>6. CASE auto_pos(p) \/ run_profile(p)
  <2>1. UNCHANGED <<connected, lock, at>> /\ at[p] \in Critical
    BY <1>6 DEF auto_pos, run_profile, Critical
  <2>2. \E cs \in SUBSET todo[p] : lit' = AutoLit(cs) \/ lit' = lit
    BY <1>6 DEF auto_pos, run_profile, Xrandr
  <2>3. lit' = (lit \ (lit \ lit')) \cup (lit' \ lit) /\ lit' \ lit \in SUBSET connected
    BY <2>2 DEF AutoLit
  <2> QED
    BY <1>1, <2>1, <2>3, CommandMaps
<1>7. CASE ApplyDone(p)
  BY <1>1, <1>7, ReturnMaps DEF ApplyDone, hwVars, Critical
<1> QED
  BY <1>2, <1>3, <1>4, <1>5, <1>6, <1>7 DEF ApplyOnce

(* The two say the same of what is on the wire. *)
LEMMA SameWire == Abstract!Wire = topology_hash(RandR)
BY DEF RandR, topology_hash, Entry, Abstract!Wire, Abstract!topology_hash, Abstract!Entry

(* Every step of the watch loop. *)
LEMMA LoopMaps == ASSUME Known, Loop PROVE Promise
<1> USE DEF hwVars, applyVars
<1>1. CASE BootApplied \/ Seed
  <2>1. pc \in {"boot", "seed"} /\ pc' \in {"seed", "start"}
    BY <1>1 DEF BootApplied, Seed
  <2>2. UNCHANGED <<connected, lit, lock, last, settled>> /\ Phase' = Phase
    BY <1>1, <2>1, PhaseAt, PhaseAfter DEF BootApplied, Seed
  <2> QED
    BY <2>2, Unseen
<1>2. CASE StartLoop
  <2>1. Phase = "down" /\ Phase' = "resting"
    BY <1>2, PhaseAt, PhaseAfter DEF StartLoop
  <2>2. Abstract!Start
    BY <1>2, <2>1, SameWire DEF StartLoop, Abstract!Start
  <2> QED
    BY <2>2 DEF Promise, Abstract!Next
<1>3. CASE Wake
  <2>1. UNCHANGED <<connected, lit, lock, last, settled>> /\ pc = "select" /\ Phase = "resting"
    BY <1>3, PhaseAt DEF Wake
  <2>2. CASE topology_hash(RandR) = last
    BY <1>3, <2>1, <2>2, PhaseAfter, Unseen DEF Wake
  <2>3. CASE topology_hash(RandR) # last
    <3>1. Phase' = "looking"
      BY <1>3, <2>3, PhaseAfter DEF Wake
    <3>2. Abstract!Look
      BY <2>1, <2>3, <3>1, SameWire DEF Abstract!Look
    <3> QED
      BY <3>2 DEF Promise, Abstract!Next
  <2> QED
    BY <2>2, <2>3
<1>4. CASE Spin
  <2>1. UNCHANGED <<connected, lit, lock, last, settled, pc, at>>
    BY <1>4 DEF Spin, vars, loopVars
  <2> QED
    BY <2>1, PhaseKept, Unseen
<1>5. CASE Verify \/ HoldPoll
  <2>1. UNCHANGED <<connected, lit, lock, last, settled>>
    BY <1>5 DEF Verify, HoldPoll
  <2>2. Phase = "looking" /\ pc' \in {"bounce", "select"}
    BY <1>5, PhaseAt DEF Verify, HoldPoll
  <2>3. CASE pc' = "bounce"
    BY <2>1, <2>2, <2>3, PhaseAfter, Unseen
  <2>4. CASE pc' = "select"
    <3>1. Abstract!Rest
      BY <2>1, <2>2, <2>4, PhaseAfter DEF Abstract!Rest
    <3> QED
      BY <3>1 DEF Promise, Abstract!Next
  <2> QED
    BY <2>2, <2>3, <2>4
<1>6. CASE BounceGate \/ HoldEnd
  <2>1. UNCHANGED <<connected, lit, lock, last, settled>> /\ Phase = "looking"
    BY <1>6, PhaseAt DEF BounceGate, HoldEnd, CallApply, BeginApply, present_connectors
  <2>2. CASE CallApply
    <3>1. pc' = "apply" /\ at'[Daemon] = "lock"
      BY <2>2 DEF CallApply, BeginApply, Goto, Known, TypeOK, Procs
    <3> QED
      BY <2>1, <3>1, PhaseAfter, Unseen DEF Critical
  <2>3. CASE ~ CallApply
    <3>1. pc' = "hold"
      BY <1>6, <2>3 DEF BounceGate, HoldEnd
    <3> QED
      BY <2>1, <3>1, PhaseAfter, Unseen
  <2> QED
    BY <2>2, <2>3
<1>7. CASE ApplyReturned
  <2>1. UNCHANGED <<connected, lit, lock, last, settled>>
    BY <1>7 DEF ApplyReturned
  <2>2. CASE at[Daemon] = "true"
    <3>1. Phase = "done" /\ Phase' = "done"
      BY <1>7, <2>2, PhaseAt, PhaseAfter DEF ApplyReturned, AfterApply, Critical
    <3> QED
      BY <2>1, <3>1, Unseen
  <2>3. CASE at[Daemon] = "false"
    <3>1. Phase = "looking" /\ Phase' = "resting"
      BY <1>7, <2>3, PhaseAt, PhaseAfter DEF ApplyReturned, AfterApply, Critical
    <3>2. Abstract!Rest
      BY <2>1, <3>1 DEF Abstract!Rest
    <3> QED
      BY <3>2 DEF Promise, Abstract!Next
  <2> QED
    BY <1>7, <2>2, <2>3 DEF ApplyReturned
<1>8. CASE Settle
  <2>1. Phase = "done" /\ Phase' = "sampled"
    BY <1>8, PhaseAt, PhaseAfter DEF Settle, SettleSteps
  <2>2. Abstract!Sample
    BY <1>8, <2>1, SameWire DEF Settle, Abstract!Sample
  <2> QED
    BY <2>2 DEF Promise, Abstract!Next
<1>9. CASE RecordPresent \/ ReadUnhealed \/ Hook
  <2>1. pc \in SettleSteps /\ pc' \in SettleSteps
    BY <1>9 DEF RecordPresent, ReadUnhealed, Hook, SettleSteps
  <2>2. UNCHANGED <<connected, lit, lock, last, settled>>
    BY <1>9 DEF RecordPresent, ReadUnhealed, Hook
  <2> QED
    BY <2>1, <2>2, PhaseAt, PhaseAfter, Unseen
<1>10. CASE Decide
  <2>1. Phase = "sampled" /\ Phase' = "resting"
    BY <1>10, PhaseAt, PhaseAfter DEF Decide, SettleSteps
  <2>2. Abstract!Conclude
    BY <1>10, <2>1 DEF Decide, Abstract!Conclude
  <2> QED
    BY <2>2 DEF Promise, Abstract!Next
<1>11. CASE LeaveLoop
  <2>1. Phase = "resting" /\ Phase' = "stopped"
    BY <1>11, PhaseAt, PhaseAfter DEF LeaveLoop
  <2>2. Abstract!Stop
    BY <1>11, <2>1 DEF LeaveLoop, Abstract!Stop
  <2> QED
    BY <2>2 DEF Promise, Abstract!Next
<1> QED
  BY <1>1, <1>2, <1>3, <1>4, <1>5, <1>6, <1>7, <1>8, <1>9, <1>10, <1>11 DEF Loop

(* Hardware, signals, crashes and other processes. *)
LEMMA EnvironmentMaps == ASSUME Known, Environment PROVE Promise
<1> USE DEF hwVars, applyVars, loopVars
<1>1. ASSUME NEW c \in Connectors, Hotplug(c) PROVE Promise
  <2>1. UNCHANGED <<lit, lock, last, settled, pc, at>> /\ connected' \in SUBSET Connectors
    BY <1>1 DEF Hotplug, Known, TypeOK
  <2>2. Abstract!Plug
    BY <2>1, PhaseKept DEF Abstract!Plug
  <2> QED
    BY <2>2 DEF Promise, Abstract!Next
<1>2. CASE MappingNotify \/ SuspectWindowEnds \/ Sigterm
  <2>1. UNCHANGED <<connected, lit, lock, last, settled, pc, at>>
    BY <1>2 DEF MappingNotify, SuspectWindowEnds, Sigterm
  <2> QED
    BY <2>1, PhaseKept, Unseen
<1>3. ASSUME NEW s \in Siblings, SiblingStart(s) PROVE Promise
  <2>1. UNCHANGED <<connected, lit, lock, last, settled, pc>> /\ Goto(s, "lock")
    BY <1>3 DEF SiblingStart, BeginApply
  <2>2. at'[Daemon] = at[Daemon]
    BY <1>3, <2>1, OthersStay, ProcAssumption DEF Known, Procs
  <2> QED
    BY <2>1, <2>2, PhaseKept, Unseen
<1>4. CASE Crash
  <2>1. /\ lock' = lock \ {Daemon} /\ last' = {} /\ settled' = {} /\ pc' \in {"down", "stopped"}
        /\ UNCHANGED <<connected, lit>>
    BY <1>4 DEF Crash, Return
  <2>2. Phase' \in {"down", "stopped"}
    BY <2>1, PhaseAfter
  <2>3. Phase # "stopped"
    <3>1. pc \in Points /\ pc \notin {"down", "stopped"}
      BY <1>4 DEF Crash, Known, TypeOK
    <3> QED
      BY <3>1 DEF Phase, Points, LoopSteps, SettleSteps
  <2>4. Abstract!Crash
    BY <2>1, <2>2, <2>3 DEF Abstract!Crash
  <2> QED
    BY <2>4 DEF Promise, Abstract!Next
<1>5. ASSUME NEW s \in Siblings, SiblingKilled(s) PROVE Promise
  <2>1. UNCHANGED <<connected, lit, last, settled, pc>> /\ Goto(s, "false") /\ lock' = lock \ {s}
    BY <1>5 DEF SiblingKilled, Return
  <2>2. at'[Daemon] = at[Daemon]
    BY <1>5, <2>1, OthersStay, ProcAssumption DEF Known, Procs
  <2>3. Phase' = Phase
    BY <2>1, <2>2, PhaseKept
  <2>4. CASE s \in lock
    <3>1. Abstract!Release(s)
      BY <2>1, <2>3, <2>4, <1>5, ProcAssumption DEF Abstract!Release
    <3> QED
      BY <3>1, <1>5, ProcAssumption DEF Promise, Abstract!Next, Procs
  <2>5. CASE s \notin lock
    BY <2>1, <2>3, <2>5, Unseen
  <2> QED
    BY <2>4, <2>5
<1> QED
  BY <1>1, <1>2, <1>3, <1>4, <1>5 DEF Environment

(* The daemon keeps the promise of Reconciler, with whatever one-shot applies, *)
(* hot-plugs, failures and crashes around it (watch.py:226, apply.py:178).     *)
THEOREM DaemonReconciles == Spec => Reconciles
<1>1. Init => Abstract!Init
  <2> SUFFICES ASSUME Init PROVE Abstract!Init
    OBVIOUS
  <2>1. Phase = "down"
    BY PhaseAt DEF Init
  <2> QED
    BY <2>1, HeadAssumption DEF Init, Abstract!Init
<1>2. Known /\ [Next]_vars => [Abstract!Next]_(Abstract!rVars)
  <2> SUFFICES ASSUME Known, [Next]_vars PROVE Promise
    BY DEF Promise
  <2>1. CASE Boot
    <3>1. UNCHANGED <<connected, lit, lock, last, settled>> /\ Phase = "down" /\ Phase' = "down"
      BY <2>1, PhaseAt, PhaseAfter DEF Boot, BeginApply, hwVars
    <3> QED
      BY <3>1, Unseen
  <2>2. CASE UNCHANGED vars
    <3>1. UNCHANGED <<connected, lit, lock, last, settled, pc, at>>
      BY <2>2 DEF vars, hwVars, applyVars, loopVars
    <3> QED
      BY <3>1, PhaseKept, Unseen
  <2> QED
    BY <2>1, <2>2, ApplyOnceMaps, LoopMaps, EnvironmentMaps DEF Next
<1> QED
  BY <1>1, <1>2, TypeCorrect, ControlFollowsApply, LockHeld, PTL
  DEF Spec, Reconciles, Known, Abstract!Spec
=============================================================================
