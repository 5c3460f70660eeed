---------------------------- MODULE Controllers ----------------------------
(***************************************************************************)
(* mom/Controllers: what the policy wants is compared with the last sample *)
(* of a guest, and the differences go to VDSM, which may fail; the next    *)
(* samples show what VDSM then says -- or has said, for the interface      *)
(* keeps its answers for some seconds (VmStatsCache).  The policy writes   *)
(* into the very dictionary the bulk interface has in its cache.           *)
(*                                                                         *)
(* A guest's settings start at 1.  0 is a control the policy does not set, *)
(* an answer the interface does not have, and KSM's before its first call. *)
(***************************************************************************)
EXTENDS Naturals

CONSTANTS Settings,    \* the settings a policy chooses from
          MaxChanges,  \* bound: changes of the policy's mind
          MaxFaults    \* bound: failed calls and restarts of the guest

VARIABLES goal,     \* what the policy sets: control -> setting or 0
          actual,   \* what is set on the host
          cpuCache, ioCache, \* the interface's answers, <<>> or 0 for none
          sample,   \* the last row of the guest's monitor
          shared,   \* its io_tune is the dictionary in ioCache
          snap,     \* the row the engine works with in this round
          cur,      \* KSM.cur
          turn,       \* "idle", or the controller whose turn it is
          ksmLost,  \* history: the last call for KSM has failed
          changes, faults

hostVars == <<actual, cpuCache, ioCache>>
rowVars == <<sample, shared, snap>>
vars == <<goal, hostVars, rowVars, cur, turn, ksmLost, changes, faults>>

GuestControls == {"quota", "period", "io", "balloon"}
Controls == GuestControls \cup {"ksm"}

Init ==
    /\ goal = [k \in Controls |-> 0] /\ actual = [k \in Controls |-> 1]
    /\ cpuCache = <<>> /\ ioCache = 0
    /\ sample = [quota |-> 1, period |-> 1, io |-> 1, io_current |-> 1]
    /\ shared = FALSE /\ snap = sample /\ cur = 0 /\ turn = "idle" /\ ksmLost = FALSE
    /\ changes = 0 /\ faults = 0

Fault == faults < MaxFaults /\ faults' = faults + 1

\* The administrator sets another policy.
NewPolicy ==
    /\ changes < MaxChanges /\ changes' = changes + 1
    /\ \E k \in Controls, v \in Settings : goal' = [goal EXCEPT ![k] = v]
    /\ UNCHANGED <<hostVars, rowVars, cur, turn, ksmLost, faults>>

\* The guest is started again, with the settings it has at the start.
GuestRestarts ==
    /\ Fault
    /\ actual' = [k \in Controls |-> IF k \in GuestControls THEN 1 ELSE actual[k]]
    /\ UNCHANGED <<goal, cpuCache, ioCache, rowVars, cur, turn, ksmLost, changes>>
-----------------------------------------------------------------------------
(* Samples of the guest. *)

ExpireCpu == cpuCache # <<>> /\ cpuCache' = <<>>
    /\ UNCHANGED <<goal, actual, ioCache, rowVars, cur, turn, ksmLost, changes, faults>>
ExpireIo == ioCache # 0 /\ ioCache' = 0 /\ shared' = FALSE
    /\ UNCHANGED <<goal, actual, cpuCache, sample, snap, cur, turn, ksmLost, changes, faults>>

\* Deviation: io_tune_current is the dictionary the policy writes into.
NotCopied(io) == IF goal["io"] = 0 THEN io ELSE goal["io"]
Copied(io) == io

\* GuestCpuTune.collect and GuestIoTune.collect: from the cache, or from VDSM.
CollectGuest ==
    /\ cpuCache' = IF cpuCache = <<>> THEN <<actual["quota"], actual["period"]>> ELSE cpuCache
    /\ ioCache' = IF ioCache = 0 THEN actual["io"] ELSE ioCache
    /\ sample' = [quota |-> cpuCache'[1], period |-> cpuCache'[2], io |-> ioCache',
                  io_current |-> Copied(ioCache')]
    /\ shared' = TRUE
    /\ UNCHANGED <<goal, actual, snap, cur, turn, ksmLost, changes, faults>>
-----------------------------------------------------------------------------
(* A round of the engine: PolicyEngine.do_controls. *)

\* interrogate() and evaluate(): the policy sets its controls, and changes
\* io_tune where it is.
Evaluate ==
    LET io == IF goal["io"] = 0 THEN sample.io ELSE goal["io"] IN
    /\ turn = "idle" /\ turn' = "Balloon"
    /\ snap' = [sample EXCEPT !.io = io] /\ sample' = snap'
    /\ ioCache' = IF shared THEN io ELSE ioCache
    /\ UNCHANGED <<goal, actual, cpuCache, shared, cur, ksmLost, changes, faults>>

\* The interface is called for the control k: it sets v, or logs an error.
Call(k, v) ==
    \/ actual' = [actual EXCEPT ![k] = v] /\ UNCHANGED faults
    \/ Fault /\ UNCHANGED actual

NoCall == UNCHANGED <<actual, faults>>

\* Balloon.process: a target is always passed on.
BalloonProcess ==
    /\ turn = "Balloon" /\ turn' = "KSM"
    /\ IF goal["balloon"] # 0 THEN Call("balloon", goal["balloon"]) ELSE NoCall
    /\ UNCHANGED <<goal, cpuCache, ioCache, rowVars, cur, ksmLost, changes>>

\* KSM.process: compared with what was passed on, whatever became of it.
KSMProcess ==
    /\ turn = "KSM" /\ turn' = "CpuTune"
    /\ IF goal["ksm"] \notin {0, cur}
       THEN /\ cur' = goal["ksm"] /\ Call("ksm", goal["ksm"])
            /\ ksmLost' = (actual'["ksm"] # cur')
       ELSE NoCall /\ UNCHANGED <<cur, ksmLost>>
    /\ UNCHANGED <<goal, cpuCache, ioCache, rowVars, changes>>

Changed(val, prev_val) == val \notin {0, prev_val}

\* CpuTune.process_guest with the interface's setVmCpuTune: when one of the two
\* has changed both are set, one after the other.
CpuTuneProcess ==
    /\ turn = "CpuTune"
    /\ IF Changed(goal["quota"], snap.quota) \/ Changed(goal["period"], snap.period)
       THEN turn' = "quota" ELSE turn' = "IoTune"
    /\ UNCHANGED <<goal, hostVars, rowVars, cur, ksmLost, changes, faults>>

SetQuota ==
    /\ turn = "quota" /\ turn' = "period"
    /\ Call("quota", IF goal["quota"] # 0 THEN goal["quota"] ELSE snap.quota)
    /\ UNCHANGED <<goal, cpuCache, ioCache, rowVars, cur, ksmLost, changes>>

SetPeriod ==
    /\ turn = "period" /\ turn' = "IoTune"
    /\ Call("period", IF goal["period"] # 0 THEN goal["period"] ELSE snap.period)
    /\ UNCHANGED <<goal, cpuCache, ioCache, rowVars, cur, ksmLost, changes>>

\* IoTune.process_guest: what the policy has left in io_tune, if it differs.
IoTuneProcess ==
    /\ turn = "IoTune" /\ turn' = "idle"
    /\ IF snap.io # snap.io_current THEN Call("io", snap.io) ELSE NoCall
    /\ UNCHANGED <<goal, cpuCache, ioCache, rowVars, cur, ksmLost, changes>>

Round == Evaluate \/ BalloonProcess \/ KSMProcess \/ CpuTuneProcess \/ SetQuota \/ SetPeriod
         \/ IoTuneProcess
Next == NewPolicy \/ GuestRestarts \/ ExpireCpu \/ ExpireIo \/ CollectGuest \/ Round
\* The threads of the engine and of the monitor go on, and answers expire.
Fairness ==
    /\ WF_vars(Round) /\ WF_vars(CollectGuest)
    /\ WF_vars(ExpireCpu) /\ WF_vars(ExpireIo)
Spec == Init /\ [][Next]_vars /\ Fairness
-----------------------------------------------------------------------------
Wanted(k) == goal[k] = 0 \/ actual[k] = goal[k]

\* However calls fail, answers are old and the guest starts again in between,
\* what the policy wants is set in the end.  KSM is the exception: a call for
\* it that fails is not repeated.
Settles == <>[](\A k \in Controls : Wanted(k) \/ (k = "ksm" /\ ksmLost))

\* And then VDSM is not called any more, but for the balloon.
CallsEnd == <>[](turn \notin {"quota", "period"} /\ snap.io = snap.io_current)
=============================================================================
