------------------------------ MODULE Counters ------------------------------
(***************************************************************************)
(* The collectors that report by how much a counter of the kernel has      *)
(* grown since they read it last: HostMemory (pages swapped), GuestQemuProc*)
(* (faults of a guest's qemu process) and HostKSM (cpu time of ksmd).  A   *)
(* pass may fail before the counter is read; the next one then reports     *)
(* what has been added since the last that succeeded.                      *)
(*                                                                         *)
(* A behaviour is about one of them, collector.  The first two each have   *)
(* two counters treated alike: one stands for both.                        *)
(***************************************************************************)
EXTENDS Integers

CONSTANTS Width,       \* ksmd's counters count modulo this (2^32)
          Interval,    \* host-monitor-interval, in ticks of the counter
          MaxCount,    \* bound: how far the counter grows
          MaxPasses    \* bound: how often it is read

VARIABLES collector,
          counter,     \* the kernel's counter, before it wraps around
          exited,      \* the qemu process has ended
          prev, cur,   \* HostMemory: swap_in_prev, swap_in_cur
          prev_faults, \* GuestQemuProc
          last_jiff,   \* HostKSM
          total,       \* history: the sum of what was reported
          first, read, \* history: the counter when it was read first and last
          passes       \* history: how often it was reported

None == -1

\* ksmd's user and system time, two halves of the counter; fields 13, 14 of stat.
Jiffies(n) == ((n \div 2) % Width) + ((n - n \div 2) % Width)

Init ==
    /\ collector \in {"HostMemory", "GuestQemuProc", "HostKSM"}
    /\ counter \in 0 .. Width /\ exited = FALSE
    /\ prev = None /\ cur = None /\ prev_faults = None
    /\ last_jiff = Jiffies(counter)                 \* in the constructor
    /\ total = 0 /\ read = counter /\ passes = 0
    /\ first = IF collector = "HostKSM" THEN counter ELSE None

\* The counter grows; ksmd's would need a year to wrap around between two passes.
Grow ==
    /\ counter < MaxCount /\ counter + 1 - read < Width /\ counter' = counter + 1
    /\ UNCHANGED <<collector, exited, prev, cur, prev_faults, last_jiff, total, first,
                   read, passes>>

\* The process's file stays open, and cannot be read any more: CollectionError.
Exit ==
    /\ collector = "GuestQemuProc" /\ ~exited /\ exited' = TRUE
    /\ UNCHANGED <<collector, counter, prev, cur, prev_faults, last_jiff, total, first,
                   read, passes>>

Reported(n) ==
    /\ passes < MaxPasses /\ passes' = passes + 1
    /\ total' = total + n /\ read' = counter
    /\ first' = IF first = None THEN counter ELSE first
    /\ UNCHANGED <<collector, counter, exited>>

CollectMemory ==
    /\ collector = "HostMemory"
    /\ cur' = counter /\ prev' = IF cur = None THEN counter ELSE cur
    /\ Reported(cur' - prev')
    /\ UNCHANGED <<prev_faults, last_jiff>>

CollectProcess ==
    /\ collector = "GuestQemuProc" /\ ~exited /\ prev_faults' = counter
    /\ Reported(counter - (IF prev_faults = None THEN counter ELSE prev_faults))
    /\ UNCHANGED <<prev, cur, last_jiff>>

\* Deviation: the counters' width is forgotten.
GrownUnwrapped == Jiffies(counter) - last_jiff
Grown == (Jiffies(counter) - last_jiff) % Width

\* As a share of the interval, rounded down.  get_shareable_mem, which comes
\* first, may raise: that pass leaves last_jiff alone.
CollectKSM ==
    /\ collector = "HostKSM" /\ last_jiff' = Jiffies(counter)
    /\ Reported(Grown \div Interval)
    /\ UNCHANGED <<prev, cur, prev_faults>>

Next == Grow \/ Exit \/ CollectMemory \/ CollectProcess \/ CollectKSM
-----------------------------------------------------------------------------
\* What was reported adds up to what the counter has grown by between the first
\* and the last time it was read, through wraps and passes that failed: exactly,
\* and for ksmd less what rounding takes off in a pass.
CountersAddUp ==
    LET lost == read - first - total * (IF collector = "HostKSM" THEN Interval ELSE 1)
    IN passes > 0 =>
           /\ lost >= 0
           /\ lost <= IF collector = "HostKSM" THEN (Interval - 1) * passes ELSE 0
=============================================================================
