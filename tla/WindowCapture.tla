--------------------------- MODULE WindowCapture ----------------------------
(***************************************************************************)
(* One capture of dwm's windows (windows.py, capture_windows), read by     *)
(* read and round trip by round trip, while processes end, pids are used   *)
(* again, windows are moved and dwm numbers its monitors anew.             *)
(*                                                                         *)
(* A pid names one process instance after another; the start time, name    *)
(* and command line of an instance are its number.  EDIDs go with outputs; *)
(* tags, geometry and the flags are read in the same reply as the number.  *)
(***************************************************************************)
EXTENDS Naturals, FiniteSets, Functions

CONSTANTS
  Windows, Pids, Outputs,
  InitialNumber,         \* how dwm numbers the outputs at first
  None,                  \* no process, no output, no command line
  MaxWorld               \* bound on what happens beside the capture

Nums == 0..Cardinality(Outputs) - 1
Numberings == {f \in [Outputs -> Nums] : \A a, b \in Outputs : f[a] = f[b] => a = b}

ASSUME NumberAssumption == InitialNumber \in Numberings
ASSUME WorldAssumption == None \notin Pids \cup Outputs \cup Nat /\ MaxWorld \in Nat

VARIABLES
  alive, instance,       \* per pid: whether it is in use, and by which instance
  owner,                 \* the pid whose process owns a window
  output,                \* where a window is shown
  number,                \* dwm's number of each output
  world,                 \* environment steps spent
  step,                  \* where the capture is
  listed, mapping,       \* get_monitors: number of each window; match: output of each number
  remaining, win, pid,   \* windows still to come, the one at work, and its pid
  starttime, comm, cmdline,   \* what was read of it so far
  records,               \* the records, by window
  steady,                \* observed: windows nothing has happened to since the listing
  renumbered             \* observed: dwm has numbered its monitors anew since

worldVars == <<alive, instance, owner, output, number, world>>
listVars == <<listed, mapping>>
procVars == <<starttime, comm, cmdline>>
captureVars == <<worldVars, step, listVars, remaining, win, pid, procVars, records, steady,
                 renumbered>>

(***************************************************************************)
(* The world.                                                              *)
(***************************************************************************)
(* What happens before the listing or after the end shows in nothing. *)
Happens ==
  /\ step \notin {"list", "done", "failed"}
  /\ world < MaxWorld /\ world' = world + 1
  /\ UNCHANGED <<step, listVars, remaining, win, pid, procVars, records>>

(* A process ends and its windows with it; its pid may be used again at once. *)
Exit(p, reused) ==
  /\ alive[p]
  /\ alive' = [alive EXCEPT ![p] = reused]
  /\ instance' = [instance EXCEPT ![p] = IF reused THEN @ + 1 ELSE @]
  /\ owner' = [w \in Windows |-> IF owner[w] = p THEN None ELSE owner[w]]
  /\ steady' = {w \in steady : owner[w] # p}
  /\ UNCHANGED <<output, number, renumbered>>
  /\ Happens

Reuse(p) ==
  /\ ~alive[p]
  /\ alive' = [alive EXCEPT ![p] = TRUE]
  /\ instance' = [instance EXCEPT ![p] = @ + 1]
  /\ UNCHANGED <<owner, output, number, steady, renumbered>>
  /\ Happens

MoveWindow(w, o) ==
  /\ output[w] # o
  /\ output' = [output EXCEPT ![w] = o]
  /\ UNCHANGED <<alive, instance, owner, number, steady, renumbered>>
  /\ Happens

Renumber ==
  /\ number' \in Numberings \ {number} /\ renumbered' = TRUE
  /\ UNCHANGED <<alive, instance, owner, output, steady>>
  /\ Happens

(***************************************************************************)
(* The capture.                                                            *)
(***************************************************************************)
Goto(s) == step' = s /\ UNCHANGED worldVars

(* get_monitors, then the RandR read the monitors are matched with by place; an *)
(* unconfident match is no output.  A failure of either ends the capture.       *)
List ==
  /\ step = "list"
  /\ records' = [w \in {} |-> None]
  /\ \/ /\ Goto("outputs")
        /\ listed' = [w \in {v \in Windows : owner[v] # None} |-> number[output[w]]]
        /\ \E known \in SUBSET Outputs :
             mapping' = [n \in Nums |-> LET o == CHOOSE x \in Outputs : number[x] = n
                                        IN IF o \in known THEN o ELSE None]
        /\ remaining' = DOMAIN listed' /\ steady' = remaining'
     \/ Goto("failed") /\ UNCHANGED <<listVars, remaining, steady>>
  /\ renumbered' = FALSE
  /\ UNCHANGED <<win, pid, procVars>>

ReadOutputs ==
  /\ step = "outputs"
  /\ \/ Goto("next") \/ Goto("failed")
  /\ UNCHANGED <<listVars, remaining, win, pid, procVars, records, steady, renumbered>>

(* The next window of the listing, in any order. *)
NextWindow ==
  /\ step = "next"
  /\ IF remaining = {} THEN Goto("done") /\ UNCHANGED <<remaining, win>>
     ELSE /\ Goto("pid")
          /\ win' \in remaining /\ remaining' = remaining \ {win'}
  /\ UNCHANGED <<listVars, pid, procVars, records, steady, renumbered>>

(* This window is done with; what was read of it is forgotten. *)
Over(s) ==
  /\ Goto(s)
  /\ win' = None /\ pid' = None
  /\ starttime' = 0 /\ comm' = 0 /\ cmdline' = None
  /\ UNCHANGED <<listVars, remaining, renumbered>>

(* A read of it failed, or showed nothing to record: on to the next.  An *)
(* unreadable command line alone is no reason.                           *)
AbortCapture == "done"
SkipWindow == "next"
Skip ==
  /\ step \in {"pid", "stat", "comm", "confirm", "client"}
  /\ Over(SkipWindow)
  /\ steady' = steady \ {win}
  /\ UNCHANGED records

(* Reading on: the step that reads the next piece. *)
Read(from, to) ==
  /\ step = from /\ Goto(to)
  /\ UNCHANGED <<listVars, remaining, win, records, steady, renumbered>>

(* WM_CLIENT_MACHINE, _NET_WM_PID or XRes. *)
ResolvePid ==
  /\ Read("pid", "stat")
  /\ owner[win] # None
  /\ pid' = owner[win]
  /\ UNCHANGED procVars

(* read_proc_identity: stat, comm, cmdline, and stat again.  The command line *)
(* may be empty or unreadable of a living process too.                        *)
ReadStat ==
  /\ Read("stat", "comm")
  /\ alive[pid]
  /\ starttime' = instance[pid]
  /\ UNCHANGED <<pid, comm, cmdline>>

ReadComm ==
  /\ Read("comm", "cmdline")
  /\ alive[pid]
  /\ comm' = instance[pid]
  /\ UNCHANGED <<pid, starttime, cmdline>>

ReadCmdline ==
  /\ Read("cmdline", "confirm")
  /\ cmdline' \in {None} \cup (IF alive[pid] THEN {instance[pid]} ELSE {})
  /\ UNCHANGED <<pid, starttime, comm>>

ConfirmedAlive == alive[pid]
Confirmed == alive[pid] /\ instance[pid] = starttime
ConfirmStat ==
  /\ Read("confirm", "client")
  /\ Confirmed
  /\ UNCHANGED <<pid, procVars>>

(* The output of a record: that of the number in the very reply it is built from. *)
OutputAsListed(w) == mapping[listed[w]]
OutputOf(w) == mapping[number[output[w]]]

(* get_dwm_client answers, for a window just closed too until dwm has noticed; *)
(* build_record.                                                               *)
BuildRecord ==
  /\ step = "client"
  /\ Over("next")
  /\ records' = [w \in DOMAIN records \cup {win} |->
       IF w # win THEN records[w]
       ELSE [starttime |-> starttime, comm |-> comm, cmdline |-> cmdline,
             output |-> OutputOf(win), shown |-> output[win], trusted |-> ~renumbered]]
  /\ UNCHANGED steady

CaptureInit ==
  /\ alive = [p \in Pids |-> TRUE] /\ instance = [p \in Pids |-> 0]
  /\ owner \in [Windows -> Pids] /\ output \in [Windows -> Outputs]
  /\ number = InitialNumber
  /\ world = 0
  /\ step = "list"
  /\ listed = [w \in {} |-> 0] /\ mapping = [n \in {} |-> None]
  /\ remaining = {} /\ win = None /\ pid = None
  /\ starttime = 0 /\ comm = 0 /\ cmdline = None
  /\ records = [w \in {} |-> None] /\ steady = {} /\ renumbered = FALSE

CaptureNext ==
  \/ \E p \in Pids : Exit(p, TRUE) \/ Exit(p, FALSE) \/ Reuse(p)
  \/ \E w \in Windows, o \in Outputs : MoveWindow(w, o)
  \/ Renumber
  \/ List \/ ReadOutputs \/ NextWindow \/ Skip \/ ResolvePid
  \/ ReadStat \/ ReadComm \/ ReadCmdline \/ ConfirmStat \/ BuildRecord

CaptureSpec == CaptureInit /\ [][CaptureNext]_captureVars

(***************************************************************************)
(* Properties.                                                             *)
(***************************************************************************)
(* Start time, name and command line of a record are of one process instance, *)
(* also when its pid was used again between the reads (windows.py:208).       *)
CoherentIdentity ==
  \A w \in DOMAIN records :
    /\ records[w].comm = records[w].starttime
    /\ records[w].cmdline \in {records[w].starttime, None}

(* A record names the output its window was shown at when dwm described it,   *)
(* or none; also for a window moved since the listing (windows.py:577).       *)
(* Only dwm numbering its monitors anew in mid-capture excuses another one.   *)
OutputWhereShown ==
  \A w \in DOMAIN records :
    records[w].trusted => records[w].output \in {records[w].shown, None}

(* A window that vanishes, or cannot be read, costs no other window its       *)
(* record (windows.py:606).                                                   *)
SteadyWindowsRecorded == step = "done" => steady \subseteq DOMAIN records
=============================================================================
