---------------------------- MODULE VmStatsCache ---------------------------
(***************************************************************************)
(* memoize of mom/HypervisorInterfaces/vdsmCommon.py: the statistics of    *)
(* all VMs are fetched from VDSM once for all threads that ask within      *)
(* CACHE_EXPIRATION seconds.  The clock the program reads can be set back  *)
(* while it runs; what matters to a caller is the age of what it gets.     *)
(*                                                                         *)
(* The value is the moment VDSM was asked; what it said is left out.       *)
(***************************************************************************)
EXTENDS Integers

CONSTANTS Threads,    \* guest manager and monitors
          Expiration, \* CACHE_EXPIRATION
          SetBacks,   \* by how much somebody may set the clock back
          MaxTime     \* bound: seconds explored

VARIABLES real,       \* the true time
          clock,      \* time.time()
          setBack,    \* history: the clock has been set back
          inside,         \* thread -> "idle", "lock" or "fetch"
          now,        \* thread -> the clock when it called
          began,      \* history: thread -> the true time when it called
          lock,       \* the thread that has the lock, or NoThread
          cache,      \* the true time at which the value was fetched, or NoValue
          timestamp,  \* timestamps[key]
          age,        \* history: how old the last answer was for its caller
          called,     \* history: a call has begun and returned in this second
          gap         \* history: a second has passed without that

vars == <<real, clock, setBack, inside, now, began, lock, cache, timestamp, age,
          called, gap>>
NoThread == "none"
NoValue == -1

Init ==
    /\ real = 0 /\ clock = 0 /\ setBack = FALSE /\ called = FALSE /\ gap = FALSE
    /\ inside = [t \in Threads |-> "idle"] /\ lock = NoThread
    /\ now = [t \in Threads |-> 0] /\ began = [t \in Threads |-> 0]
    /\ cache = NoValue /\ timestamp = 0 /\ age = 0

\* A second passes.
Tick ==
    /\ real < MaxTime /\ ~(gap /\ setBack)  \* bound: AgeBounded says nothing then
    /\ gap' = (gap \/ ~called)
    /\ real' = real + 1 /\ clock' = clock + 1 /\ called' = FALSE
    /\ UNCHANGED <<setBack, inside, now, began, lock, cache, timestamp, age>>

SetClockBack ==
    /\ ~setBack /\ setBack' = TRUE /\ \E s \in SetBacks : clock' = clock - s
    /\ UNCHANGED <<real, inside, now, began, lock, cache, timestamp, age, called, gap>>

\* The time is read before the lock is waited for.
Call(t) ==
    /\ inside[t] = "idle" /\ inside' = [inside EXCEPT ![t] = "lock"]
    /\ now' = [now EXCEPT ![t] = clock] /\ began' = [began EXCEPT ![t] = real]
    /\ age' = 0
    /\ UNCHANGED <<real, clock, setBack, lock, cache, timestamp, called, gap>>

\* Deviation: the time only counts forwards.
ExpiredForwards(t) == cache = NoValue \/ now[t] - timestamp > Expiration

Distance(a, b) == IF a < b THEN b - a ELSE a - b
Expired(t) == cache = NoValue \/ Distance(now[t], timestamp) > Expiration

\* The age, at the time of t's call, of a value fetched at time v.
Return(t, v) ==
    /\ inside' = [inside EXCEPT ![t] = "idle"]
    /\ age' = began[t] - v
    /\ now' = [now EXCEPT ![t] = 0] /\ began' = [began EXCEPT ![t] = 0]
    /\ called' = (called \/ began[t] = real)

\* with lock: the value in the cache will do.
Hit(t) ==
    /\ inside[t] = "lock" /\ lock = NoThread /\ ~Expired(t)
    /\ Return(t, cache)
    /\ UNCHANGED <<real, clock, setBack, lock, cache, timestamp, gap>>

Miss(t) ==
    /\ inside[t] = "lock" /\ lock = NoThread /\ Expired(t)
    /\ lock' = t /\ inside' = [inside EXCEPT ![t] = "fetch"]
    /\ UNCHANGED <<real, clock, setBack, now, began, cache, timestamp, age, called, gap>>

\* VDSM has answered, or failed and the answer is an empty list: both are kept.
Fetched(t) ==
    /\ inside[t] = "fetch" /\ cache' = real /\ timestamp' = now[t]
    /\ lock' = NoThread /\ Return(t, real)
    /\ UNCHANGED <<real, clock, setBack, gap>>

\* The call raises (the bulk interface's handlers do): nothing is kept.
Raises(t) ==
    /\ inside[t] = "fetch" /\ inside' = [inside EXCEPT ![t] = "idle"] /\ lock' = NoThread
    /\ UNCHANGED <<real, clock, setBack, now, began, cache, timestamp, age, called, gap>>

Thread(t) == Call(t) \/ Hit(t) \/ Miss(t) \/ Fetched(t) \/ Raises(t)
Next == Tick \/ SetClockBack \/ \E t \in Threads : Thread(t)
Spec == Init /\ [][Next]_vars
-----------------------------------------------------------------------------
\* No caller gets a value that was older than CACHE_EXPIRATION when it called,
\* however long it has waited for the lock.  Setting the clock back can make
\* that three times as much and a second, not more, by whatever it is set back
\* -- as long as somebody calls, and is answered, in every second.
AgeBounded ==
    /\ ~setBack => age <= Expiration
    /\ ~gap => age <= 3 * Expiration + 1
=============================================================================
