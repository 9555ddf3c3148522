------------------------ MODULE WindowCaptureProofs ------------------------
(***************************************************************************)
(* Machine-checked proofs about WindowCapture, for any windows, processes  *)
(* and outputs, and however much happens beside the capture.               *)
(***************************************************************************)
EXTENDS WindowCapture, TLAPS

(* The steps at which a window is at work, and those at which its pid is known. *)
PidSteps == {"stat", "comm", "cmdline", "confirm", "client"}
WindowSteps == {"pid"} \cup PidSteps

WorldInv ==
  /\ alive \in [Pids -> BOOLEAN] /\ instance \in [Pids -> Nat]
  /\ owner \in [Windows -> Pids \cup {None}] /\ output \in [Windows -> Outputs]
  /\ number \in Numberings
  /\ step \in {"list", "outputs", "next", "done", "failed"} \cup WindowSteps

(* The window at work is one of the listing, and its pid was a process's. *)
WorkInv ==
  /\ step \in WindowSteps => win \in Windows
  /\ step \in PidSteps => pid \in Pids
  /\ remaining \subseteq Windows

(* The reads of /proc come one after the other, and a pid's instances only     *)
(* count up: what was read before is of no later instance.                     *)
ReadsInv ==
  /\ step \in {"comm", "cmdline", "confirm"} =>
       starttime \in Nat /\ starttime <= instance[pid]
  /\ step \in {"cmdline", "confirm"} =>
       comm \in Nat /\ starttime <= comm /\ comm <= instance[pid]
  /\ step = "confirm" =>
       \/ cmdline = None
       \/ cmdline \in Nat /\ starttime <= cmdline /\ cmdline <= instance[pid]
  /\ step = "client" => comm = starttime /\ cmdline \in {starttime, None}

(* Until dwm numbers its monitors anew, a number leads to its output, or none. *)
MappingInv ==
  step # "list" /\ step # "failed" /\ ~renumbered =>
    \A o \in Outputs : mapping[number[o]] \in {o, None}

(* A window nothing has happened to is recorded, at work, or still to come.    *)
SteadyInv ==
  /\ step \notin {"list", "failed"} => steady \subseteq DOMAIN records \cup remaining \cup {win}
  /\ step \in {"outputs", "next", "done"} => steady \subseteq DOMAIN records \cup remaining
  /\ step = "done" => remaining = {}

IInv == /\ WorldInv /\ WorkInv /\ ReadsInv /\ MappingInv /\ SteadyInv
        /\ CoherentIdentity /\ OutputWhereShown

(* Nothing has been listed, read or recorded at first. *)
LEMMA InitIInv == CaptureInit => IInv
<1> SUFFICES ASSUME CaptureInit PROVE IInv
  OBVIOUS
<1>1. WorldInv
  BY NumberAssumption DEF CaptureInit, WorldInv
<1>2. step = "list" /\ remaining = {} /\ DOMAIN records = {}
  BY DEF CaptureInit
<1>3. WorkInv /\ ReadsInv /\ MappingInv /\ SteadyInv
  BY <1>2 DEF WorkInv, ReadsInv, MappingInv, SteadyInv, PidSteps, WindowSteps
<1>4. CoherentIdentity /\ OutputWhereShown
  BY <1>2 DEF CoherentIdentity, OutputWhereShown
<1> QED
  BY <1>1, <1>3, <1>4 DEF IInv

(* What happens in the world beside the capture. *)
LEMMA WorldKeeps ==
  ASSUME IInv, Happens, alive' \in [Pids -> BOOLEAN], instance' \in [Pids -> Nat],
         \A p \in Pids : instance[p] <= instance'[p],
         owner' \in [Windows -> Pids \cup {None}], output' \in [Windows -> Outputs],
         number' \in Numberings, steady' \subseteq steady,
         (number' = number /\ renumbered' = renumbered) \/ renumbered' = TRUE
  PROVE  IInv'
<1>1. UNCHANGED <<step, listed, mapping, remaining, win, pid, starttime, comm, cmdline, records>>
  BY DEF Happens, listVars, procVars
<1>2. WorldInv' /\ WorkInv'
  BY <1>1 DEF IInv, WorldInv, WorkInv
<1>3. ReadsInv'
  <2>1. \A m \in Nat : \A p \in Pids : m <= instance[p] => m <= instance'[p]
    BY DEF IInv, WorldInv
  <2>2. step \in PidSteps => pid \in Pids
    BY DEF IInv, WorkInv
  <2> QED
    BY <1>1, <2>1, <2>2 DEF IInv, ReadsInv, PidSteps
<1>4. MappingInv'
  BY <1>1 DEF IInv, MappingInv
<1>5. SteadyInv'
  BY <1>1 DEF IInv, SteadyInv
<1>6. CoherentIdentity' /\ OutputWhereShown'
  BY <1>1 DEF IInv, CoherentIdentity, OutputWhereShown
<1> QED
  BY <1>2, <1>3, <1>4, <1>5, <1>6 DEF IInv

(* A number of the listing leads to the output that had it, or to none. *)
LEMMA ListedMapping ==
  ASSUME number \in Numberings, NEW known, NEW o \in Outputs,
         NEW m, m = [n \in Nums |-> LET x == CHOOSE y \in Outputs : number[y] = n
                                    IN IF x \in known THEN x ELSE None]
  PROVE  m[number[o]] \in {o, None}
<1>1. number[o] \in Nums /\ \A y \in Outputs : number[y] = number[o] => y = o
  BY DEF Numberings
<1>2. (CHOOSE y \in Outputs : number[y] = number[o]) = o
  BY <1>1
<1> QED
  BY <1>1, <1>2

(* A step of the capture itself leaves the world and, but for the last, the    *)
(* records alone.                                                              *)
LEMMA CaptureKeeps ==
  ASSUME IInv, List \/ ReadOutputs \/ NextWindow \/ Skip \/ ResolvePid
               \/ ReadStat \/ ReadComm \/ ReadCmdline \/ ConfirmStat \/ BuildRecord
  PROVE  IInv'
<1> USE DEF Goto, listVars, procVars, worldVars
<1>1. CASE List
  <2>1. /\ UNCHANGED <<alive, instance, owner, output, number, world, win, pid, starttime, comm,
                       cmdline>>
        /\ DOMAIN records' = {} /\ renumbered' = FALSE
        /\ \/ /\ step' = "outputs" /\ remaining' \subseteq Windows /\ steady' = remaining'
              /\ \E known \in SUBSET Outputs :
                   mapping' = [n \in Nums |-> LET o == CHOOSE x \in Outputs : number[x] = n
                                              IN IF o \in known THEN o ELSE None]
           \/ step' = "failed" /\ UNCHANGED remaining
    BY <1>1 DEF List
  <2>2. WorldInv' /\ WorkInv'
    BY <2>1 DEF IInv, WorldInv, WorkInv, WindowSteps, PidSteps
  <2>3. ReadsInv' /\ SteadyInv'
    BY <2>1 DEF ReadsInv, SteadyInv
  <2>4. MappingInv'
    <3>1. CASE step' = "failed"
      BY <3>1 DEF MappingInv
    <3>2. CASE step' # "failed"
      <4>1. PICK known \in SUBSET Outputs :
              mapping' = [n \in Nums |-> LET o == CHOOSE x \in Outputs : number[x] = n
                                         IN IF o \in known THEN o ELSE None]
        BY <2>1, <3>2
      <4>2. number \in Numberings /\ number' = number
        BY <2>1 DEF IInv, WorldInv
      <4>3. \A o \in Outputs : mapping'[number[o]] \in {o, None}
        BY <4>1, <4>2, ListedMapping
      <4> QED
        BY <4>2, <4>3 DEF MappingInv
    <3> QED
      BY <3>1, <3>2
  <2>5. CoherentIdentity' /\ OutputWhereShown'
    BY <2>1 DEF CoherentIdentity, OutputWhereShown
  <2> QED
    BY <2>2, <2>3, <2>4, <2>5 DEF IInv
<1>2. ASSUME UNCHANGED <<alive, instance, owner, output, number, mapping, records, renumbered>>,
             step # "list", step # "failed"
      PROVE  /\ MappingInv' /\ CoherentIdentity' /\ OutputWhereShown'
             /\ step' \in {"list", "outputs", "next", "done", "failed"} \cup WindowSteps => WorldInv'
  BY <1>2 DEF IInv, WorldInv, MappingInv, CoherentIdentity, OutputWhereShown
<1>3. CASE ReadOutputs
  <2>1. /\ UNCHANGED <<alive, instance, owner, output, number, mapping, records, renumbered,
                       remaining, win, pid, starttime, comm, cmdline, steady>>
        /\ step = "outputs" /\ step' \in {"next", "failed"}
    BY <1>3 DEF ReadOutputs
  <2>2. WorkInv' /\ ReadsInv' /\ SteadyInv'
    BY <2>1 DEF IInv, WorkInv, ReadsInv, SteadyInv, WindowSteps, PidSteps
  <2> QED
    BY <1>2, <2>1, <2>2 DEF IInv
<1>4. CASE NextWindow
  <2>1. /\ UNCHANGED <<alive, instance, owner, output, number, mapping, records, renumbered,
                       pid, starttime, comm, cmdline, steady>>
        /\ step = "next"
        /\ \/ remaining = {} /\ step' = "done" /\ UNCHANGED <<remaining, win>>
           \/ step' = "pid" /\ win' \in remaining /\ remaining' = remaining \ {win'}
    BY <1>4 DEF NextWindow
  <2>2. WorkInv' /\ ReadsInv' /\ SteadyInv'
    BY <2>1 DEF IInv, WorkInv, ReadsInv, SteadyInv, WindowSteps, PidSteps
  <2> QED
    BY <1>2, <2>1, <2>2 DEF IInv, WindowSteps
<1>5. CASE Skip
  <2>1. /\ UNCHANGED <<alive, instance, owner, output, number, mapping, records, renumbered, remaining>>
        /\ step \in {"pid", "stat", "comm", "confirm", "client"} /\ step' = "next"
        /\ steady' = steady \ {win}
    BY <1>5 DEF Skip, Over, SkipWindow
  <2>2. WorkInv' /\ ReadsInv'
    BY <2>1 DEF IInv, WorkInv, ReadsInv, WindowSteps, PidSteps
  <2>3. SteadyInv'
    BY <2>1 DEF IInv, SteadyInv
  <2> QED
    BY <1>2, <2>1, <2>2, <2>3 DEF IInv
<1>6. ASSUME NEW from \in WindowSteps \ {"client"}, NEW to \in PidSteps, Read(from, to)
      PROVE  /\ UNCHANGED <<alive, instance, owner, output, number, mapping, records, renumbered,
                            remaining, win, steady>>
             /\ step = from /\ step' = to /\ win \in Windows
             /\ SteadyInv' /\ (pid' \in Pids => WorkInv')
             /\ MappingInv' /\ CoherentIdentity' /\ OutputWhereShown' /\ WorldInv'
  <2>1. /\ UNCHANGED <<alive, instance, owner, output, number, mapping, records, renumbered,
                       remaining, win, steady>>
        /\ step = from /\ step' = to /\ win \in Windows
    BY <1>6 DEF Read, IInv, WorkInv
  <2>2. SteadyInv' /\ (pid' \in Pids => WorkInv')
    BY <2>1 DEF IInv, SteadyInv, WorkInv, WindowSteps, PidSteps
  <2> QED
    BY <1>2, <2>1, <2>2 DEF WindowSteps, PidSteps
<1>7. step \in PidSteps => pid \in Pids /\ instance[pid] \in Nat
  BY DEF IInv, WorkInv, WorldInv
<1>8. CASE ResolvePid
  <2>1. Read("pid", "stat") /\ pid' = owner[win] /\ owner[win] # None
    BY <1>8 DEF ResolvePid
  <2>2. win \in Windows /\ step' = "stat"
    BY <1>6, <2>1 DEF WindowSteps, PidSteps
  <2>3. pid' \in Pids
    BY <2>1, <2>2 DEF IInv, WorldInv
  <2>4. ReadsInv'
    BY <2>2 DEF ReadsInv
  <2> QED
    BY <1>6, <2>1, <2>3, <2>4 DEF WindowSteps, PidSteps, IInv
<1>9. CASE ReadStat
  <2>1. Read("stat", "comm") /\ starttime' = instance[pid] /\ pid' = pid
    BY <1>9 DEF ReadStat
  <2>2. step = "stat" /\ step' = "comm" /\ instance' = instance
    BY <1>6, <2>1 DEF WindowSteps, PidSteps
  <2>3. pid' \in Pids /\ ReadsInv'
    BY <1>7, <2>1, <2>2 DEF ReadsInv, PidSteps
  <2> QED
    BY <1>6, <2>1, <2>3 DEF WindowSteps, PidSteps, IInv
<1>10. CASE ReadComm
  <2>1. Read("comm", "cmdline") /\ comm' = instance[pid] /\ pid' = pid /\ starttime' = starttime
    BY <1>10 DEF ReadComm
  <2>2. step = "comm" /\ step' = "cmdline" /\ instance' = instance
    BY <1>6, <2>1 DEF WindowSteps, PidSteps
  <2>3. pid' \in Pids /\ ReadsInv'
    BY <1>7, <2>1, <2>2 DEF IInv, ReadsInv, PidSteps
  <2> QED
    BY <1>6, <2>1, <2>3 DEF WindowSteps, PidSteps, IInv
<1>11. CASE ReadCmdline
  <2>1. /\ Read("cmdline", "confirm") /\ cmdline' \in {None, instance[pid]}
        /\ pid' = pid /\ starttime' = starttime /\ comm' = comm
    BY <1>11 DEF ReadCmdline
  <2>2. step = "cmdline" /\ step' = "confirm" /\ instance' = instance
    BY <1>6, <2>1 DEF WindowSteps, PidSteps
  <2>3. pid' \in Pids /\ ReadsInv'
    BY <1>7, <2>1, <2>2 DEF IInv, ReadsInv, PidSteps
  <2> QED
    BY <1>6, <2>1, <2>3 DEF WindowSteps, PidSteps, IInv
<1>12. CASE ConfirmStat
  <2>1. /\ Read("confirm", "client") /\ instance[pid] = starttime
        /\ pid' = pid /\ starttime' = starttime /\ comm' = comm /\ cmdline' = cmdline
    BY <1>12 DEF ConfirmStat, Confirmed
  <2>2. step = "confirm" /\ step' = "client"
    BY <1>6, <2>1 DEF WindowSteps, PidSteps
  <2>3. comm = starttime
    BY <1>7, <2>1, <2>2 DEF IInv, ReadsInv
  <2>4. cmdline \in {starttime, None}
    BY <1>7, <2>1, <2>2 DEF IInv, ReadsInv
  <2>5. pid' \in Pids /\ ReadsInv'
    BY <1>7, <2>1, <2>2, <2>3, <2>4 DEF ReadsInv, PidSteps
  <2> QED
    BY <1>6, <2>1, <2>5 DEF WindowSteps, PidSteps, IInv
<1>13. CASE BuildRecord
  <2> DEFINE r == [starttime |-> starttime, comm |-> comm, cmdline |-> cmdline,
                   output |-> OutputOf(win), shown |-> output[win], trusted |-> ~renumbered]
  <2>1. /\ UNCHANGED <<alive, instance, owner, output, number, mapping, renumbered, remaining, steady>>
        /\ step = "client" /\ step' = "next"
        /\ records' = [w \in DOMAIN records \cup {win} |-> IF w # win THEN records[w] ELSE r]
    BY <1>13 DEF BuildRecord, Over
  <2>2. win \in Windows /\ output[win] \in Outputs
    BY <2>1 DEF IInv, WorkInv, WorldInv, WindowSteps, PidSteps
  <2>3. WorldInv' /\ WorkInv' /\ ReadsInv'
    BY <2>1 DEF IInv, WorldInv, WorkInv, ReadsInv, WindowSteps, PidSteps
  <2>4. MappingInv'
    BY <2>1 DEF IInv, MappingInv
  <2>5. SteadyInv'
    BY <2>1 DEF IInv, SteadyInv
  <2>6. r.comm = r.starttime /\ r.cmdline \in {r.starttime, None}
    BY <2>1 DEF IInv, ReadsInv
  <2>7. r.trusted => r.output \in {r.shown, None}
    BY <2>1, <2>2 DEF IInv, MappingInv, OutputOf
  <2>8. \A w \in DOMAIN records' : records'[w] = r \/ (w \in DOMAIN records /\ records'[w] = records[w])
    BY <2>1
  <2> HIDE DEF r
  <2>9. CoherentIdentity'
    BY <2>6, <2>8 DEF IInv, CoherentIdentity
  <2>10. OutputWhereShown'
    BY <2>7, <2>8 DEF IInv, OutputWhereShown
  <2> QED
    BY <2>3, <2>4, <2>5, <2>9, <2>10 DEF IInv
<1> QED
  BY <1>1, <1>3, <1>4, <1>5, <1>8, <1>9, <1>10, <1>11, <1>12, <1>13

(* Every step preserves the invariant. *)
LEMMA NextIInv == IInv /\ [CaptureNext]_captureVars => IInv'
<1> SUFFICES ASSUME IInv, [CaptureNext]_captureVars PROVE IInv'
  OBVIOUS
<1>0. WorldInv
  BY DEF IInv
<1>1. ASSUME NEW p \in Pids, NEW reused \in BOOLEAN, Exit(p, reused) PROVE IInv'
  <2>1. /\ Happens /\ UNCHANGED <<output, number, renumbered>>
        /\ alive' = [alive EXCEPT ![p] = reused]
        /\ instance' = [instance EXCEPT ![p] = IF reused THEN @ + 1 ELSE @]
        /\ owner' = [w \in Windows |-> IF owner[w] = p THEN None ELSE owner[w]]
        /\ steady' \subseteq steady
    BY <1>1 DEF Exit
  <2>2. /\ alive' \in [Pids -> BOOLEAN] /\ instance' \in [Pids -> Nat]
        /\ \A q \in Pids : instance[q] <= instance'[q]
    BY <1>0, <2>1 DEF WorldInv
  <2>3. owner' \in [Windows -> Pids \cup {None}]
    BY <1>0, <2>1 DEF WorldInv
  <2> QED
    BY <1>0, <2>1, <2>2, <2>3, WorldKeeps DEF WorldInv
<1>2. ASSUME NEW p \in Pids, Reuse(p) PROVE IInv'
  <2>1. /\ Happens /\ UNCHANGED <<owner, output, number, steady, renumbered>>
        /\ alive' = [alive EXCEPT ![p] = TRUE] /\ instance' = [instance EXCEPT ![p] = @ + 1]
    BY <1>2 DEF Reuse
  <2>2. /\ alive' \in [Pids -> BOOLEAN] /\ instance' \in [Pids -> Nat]
        /\ \A q \in Pids : instance[q] <= instance'[q]
    BY <1>0, <2>1 DEF WorldInv
  <2> QED
    BY <1>0, <2>1, <2>2, WorldKeeps DEF WorldInv
<1>3. ASSUME NEW w \in Windows, NEW o \in Outputs, MoveWindow(w, o) PROVE IInv'
  <2>1. /\ Happens /\ UNCHANGED <<alive, instance, owner, number, steady, renumbered>>
        /\ output' = [output EXCEPT ![w] = o]
    BY <1>3 DEF MoveWindow
  <2>2. output' \in [Windows -> Outputs] /\ \A q \in Pids : instance[q] <= instance'[q]
    BY <1>0, <2>1 DEF WorldInv
  <2> QED
    BY <1>0, <2>1, <2>2, WorldKeeps DEF WorldInv
<1>4. CASE Renumber
  <2>1. /\ Happens /\ UNCHANGED <<alive, instance, owner, output, steady>>
        /\ number' \in Numberings /\ renumbered' = TRUE
    BY <1>4 DEF Renumber
  <2>2. \A q \in Pids : instance[q] <= instance'[q]
    BY <1>0, <2>1 DEF WorldInv
  <2> QED
    BY <1>0, <2>1, <2>2, WorldKeeps DEF WorldInv
<1>5. CASE UNCHANGED captureVars
  <2>1. UNCHANGED <<alive, instance, owner, output, number, step, mapping, remaining, win, pid,
                    starttime, comm, cmdline, records, steady, renumbered>>
    BY <1>5 DEF captureVars, worldVars, listVars, procVars
  <2>2. WorldInv' /\ WorkInv' /\ ReadsInv'
    BY <2>1 DEF IInv, WorldInv, WorkInv, ReadsInv
  <2>3. MappingInv' /\ SteadyInv' /\ CoherentIdentity' /\ OutputWhereShown'
    BY <2>1 DEF IInv, MappingInv, SteadyInv, CoherentIdentity, OutputWhereShown
  <2> QED
    BY <2>2, <2>3 DEF IInv
<1> QED
  BY <1>1, <1>2, <1>3, <1>4, <1>5, CaptureKeeps DEF CaptureNext

(* The invariant of every capture. *)
LEMMA Always == CaptureSpec => []IInv
  BY InitIInv, NextIInv, PTL DEF CaptureSpec

(* Start time, name and command line of a record are of one process instance,  *)
(* however often its pid was used again between the reads (windows.py:208).    *)
THEOREM IdentityCoherent == CaptureSpec => []CoherentIdentity
<1>1. IInv => CoherentIdentity
  BY DEF IInv
<1> QED
  BY <1>1, Always, PTL

(* A record names the output its window was shown at when dwm described it, or *)
(* none, unless dwm numbered its monitors anew in mid-capture (windows.py:577). *)
THEOREM OutputAsShown == CaptureSpec => []OutputWhereShown
<1>1. IInv => OutputWhereShown
  BY DEF IInv
<1> QED
  BY <1>1, Always, PTL

(* Windows that vanish or cannot be read cost no other window its record       *)
(* (windows.py:606).                                                           *)
THEOREM SteadyRecorded == CaptureSpec => []SteadyWindowsRecorded
<1>1. IInv => SteadyWindowsRecorded
  BY DEF IInv, SteadyInv, SteadyWindowsRecorded
<1> QED
  BY <1>1, Always, PTL
=============================================================================
