------------------------------ MODULE Monitor ------------------------------
(***************************************************************************)
(* mom/Monitor.py and the parts of mom/Entity.py it fills: one Monitor,    *)
(* the thread that calls collect() in a loop (HostMonitor.run,             *)
(* GuestMonitorThread.run), and the threads that call interrogate().       *)
(*                                                                         *)
(* A statistics row is [n |-> pass, data |-> key -> source], where source  *)
(* c > 0 stands for the value collector number c reported and 0 for the    *)
(* Python None.  Optional and mandatory keys are constants of a collector. *)
(***************************************************************************)
EXTENDS Naturals, Sequences

CONSTANTS Readers,         \* threads that interrogate the monitor
          NumCollectors,   \* collectors are tried in this order: 1, 2, ...
          getFields,          \* collector -> the keys it must report
          getOptionalFields,  \* collector -> the keys it may report
          HistoryLength,   \* main/sample-history-length
          MaxPasses        \* bound: collection passes explored

CONSTANT NoEntity          \* interrogate() has returned None, or nothing yet

ASSUME HistoryAssumption == HistoryLength \in Nat \ {0}
ASSUME CollectorAssumption ==
    /\ NumCollectors \in Nat
    /\ MaxPasses \in Nat
    /\ DOMAIN getFields = 1..NumCollectors
    /\ DOMAIN getOptionalFields = 1..NumCollectors

Collectors == 1..NumCollectors
fields == UNION {getFields[c] : c \in Collectors}
optional_fields == (UNION {getOptionalFields[c] : c \in Collectors}) \ fields
valid_fields == fields \cup optional_fields

VARIABLES pc,         \* where the collecting thread is
          pass,       \* number of the current or last collection pass
          turn,       \* the collector whose turn it is in this pass
          data,       \* the row this pass has merged so far
          reported,   \* history: collector -> the keys it gave a value in this pass
          statistics, \* the deque of rows, oldest first
          ready,      \* "None", "True" or "False"
          data_sem,   \* the value of the semaphore
          stop,       \* _terminate is set, or the program's running flag is 0
          fatal,      \* history: a collector has raised FatalError
          rpc,        \* where each reader is inside interrogate()
          entity      \* the Entity.statistics each reader has got or is filling

NoData == [k \in {} |-> 0]   \* the empty dictionary

collectVars == <<pass, turn, data, reported>>
readerVars == <<rpc, entity>>
vars == <<pc, collectVars, statistics, ready, data_sem, stop, fatal, readerVars>>

Init ==
    /\ pc = "idle" /\ pass = 0 /\ turn = 1
    /\ data = NoData /\ reported = [c \in Collectors |-> {}]
    /\ statistics = <<>> /\ ready = "None" /\ data_sem = 1
    /\ stop = FALSE /\ fatal = FALSE
    /\ rpc = [r \in Readers |-> "idle"]
    /\ entity = [r \in Readers |-> NoEntity]

-----------------------------------------------------------------------------
(* The collecting thread. *)

\* run(): while should_run(): collect() -- a new pass begins.
BeginPass ==
    /\ pc = "idle" /\ ~stop /\ pass < MaxPasses
    /\ pc' = "collecting" /\ pass' = pass + 1 /\ turn' = 1
    /\ data' = NoData /\ reported' = [c \in Collectors |-> {}]
    /\ UNCHANGED <<statistics, ready, data_sem, stop, fatal, readerVars>>

\* run(): should_run() is false, the thread ends.
EndThread ==
    /\ pc = "idle" /\ stop
    /\ pc' = "ended"
    /\ UNCHANGED <<collectVars, statistics, ready, data_sem, stop, fatal, readerVars>>

\* Deviation: the last collector to report a key wins.
MergedLastWins(c, keys, vals) ==
    [k \in DOMAIN data \cup keys |->
        IF k \notin keys THEN data[k] ELSE IF k \in vals THEN c ELSE 0]

\* The row after a collector has returned the dictionary whose keys are
\* keys, those in vals with a value and the others with None.
Merged(c, keys, vals) ==
    [k \in DOMAIN data \cup keys |->
        IF k \in DOMAIN data /\ (data[k] # 0 \/ k \notin keys) THEN data[k]
        ELSE IF k \in vals THEN c ELSE 0]

\* collect() of the next collector returns a dictionary.
CollectorReturns ==
    /\ pc = "collecting" /\ turn \in Collectors
    /\ \E keys \in SUBSET (getFields[turn] \cup getOptionalFields[turn]) :
         \E vals \in SUBSET keys :
            /\ data' = Merged(turn, keys, vals)
            /\ reported' = [reported EXCEPT ![turn] = vals]
    /\ turn' = turn + 1
    /\ UNCHANGED <<pc, pass, statistics, ready, data_sem, stop, fatal, readerVars>>

\* It returns None, or raises CollectionError or an unexpected exception:
\* nothing is merged and the next collector is tried.
CollectorGivesNothing ==
    /\ pc = "collecting" /\ turn \in Collectors
    /\ turn' = turn + 1
    /\ UNCHANGED <<pc, pass, data, reported, statistics, ready, data_sem,
                   stop, fatal, readerVars>>

\* It raises FatalError: not ready, terminated, the pass is abandoned.
CollectorFatal ==
    /\ pc = "collecting" /\ turn \in Collectors
    /\ ready' = "False" /\ stop' = TRUE /\ fatal' = TRUE
    /\ pc' = "idle"
    /\ UNCHANGED <<collectVars, statistics, data_sem, readerVars>>

\* Deviation: an incomplete row is dropped, but readiness is kept.
IncompleteKeepsReady ==
    /\ pc = "collecting" /\ turn \notin Collectors
    /\ ~(fields \subseteq DOMAIN data)
    /\ pc' = "idle"
    /\ UNCHANGED <<collectVars, statistics, ready, data_sem, stop, fatal, readerVars>>

\* A mandatory key is missing: not ready, and the row is dropped.
Incomplete ==
    /\ pc = "collecting" /\ turn \notin Collectors
    /\ ~(fields \subseteq DOMAIN data)
    /\ ready' = "False"
    /\ pc' = "idle"
    /\ UNCHANGED <<collectVars, statistics, data_sem, stop, fatal, readerVars>>

\* All mandatory keys are there: the optional ones default to None.
Complete ==
    /\ pc = "collecting" /\ turn \notin Collectors
    /\ fields \subseteq DOMAIN data
    /\ data' = [k \in DOMAIN data \cup optional_fields |->
                   IF k \in DOMAIN data THEN data[k] ELSE 0]
    /\ pc' = "acquire"
    /\ UNCHANGED <<pass, turn, reported, statistics, ready, data_sem, stop,
                   fatal, readerVars>>

\* Deviation: the deque is changed without the semaphore.
AppendUnlocked ==
    /\ pc = "acquire"
    /\ data_sem' = 0 /\ pc' = "append"
    /\ UNCHANGED <<collectVars, statistics, ready, stop, fatal, readerVars>>

AcquireForRow ==
    /\ pc = "acquire" /\ data_sem = 1
    /\ data_sem' = 0 /\ pc' = "append"
    /\ UNCHANGED <<collectVars, statistics, ready, stop, fatal, readerVars>>

AppendRow ==
    /\ pc = "append"
    /\ statistics' = Append(statistics, [n |-> pass, data |-> data])
    /\ pc' = "trim"
    /\ UNCHANGED <<collectVars, ready, data_sem, stop, fatal, readerVars>>

\* The deque without the row that exceeds the history length, if any.
Trimmed(s) == IF Len(s) > HistoryLength THEN Tail(s) ELSE s

\* Deviation: the semaphore is released only when a row was dropped.
ReleaseWhenTrimmed ==
    /\ pc = "trim"
    /\ statistics' = Trimmed(statistics)
    /\ data_sem' = (IF Len(statistics) > HistoryLength THEN 1 ELSE 0)
    /\ pc' = "publish"
    /\ UNCHANGED <<collectVars, ready, stop, fatal, readerVars>>

TrimAndRelease ==
    /\ pc = "trim"
    /\ statistics' = Trimmed(statistics)
    /\ data_sem' = 1 /\ pc' = "publish"
    /\ UNCHANGED <<collectVars, ready, stop, fatal, readerVars>>

\* _set_ready(), after the semaphore has been released.
SetReady ==
    /\ pc = "publish"
    /\ ready' = "True" /\ pc' = "idle"
    /\ UNCHANGED <<collectVars, statistics, data_sem, stop, fatal, readerVars>>

CollectorThread ==
    \/ BeginPass \/ EndThread
    \/ CollectorReturns \/ CollectorGivesNothing \/ CollectorFatal
    \/ Incomplete \/ Complete
    \/ AcquireForRow \/ AppendRow \/ TrimAndRelease \/ SetReady

-----------------------------------------------------------------------------
(* interrogate(), called by any thread. *)

\* ready is not True: None is returned at once.
InterrogateNotReady(r) ==
    /\ rpc[r] = "idle" /\ ready # "True"
    /\ entity' = [entity EXCEPT ![r] = NoEntity]
    /\ UNCHANGED <<pc, collectVars, statistics, ready, data_sem, stop, fatal, rpc>>

\* ready is True, read without the semaphore: a new Entity is filled.
InterrogateReady(r) ==
    /\ rpc[r] = "idle" /\ ready = "True"
    /\ rpc' = [rpc EXCEPT ![r] = "acquire"]
    /\ entity' = [entity EXCEPT ![r] = <<>>]
    /\ UNCHANGED <<pc, collectVars, statistics, ready, data_sem, stop, fatal>>

AcquireForCopy(r) ==
    /\ rpc[r] = "acquire" /\ data_sem = 1
    /\ data_sem' = 0 /\ rpc' = [rpc EXCEPT ![r] = "copy"]
    /\ UNCHANGED <<pc, collectVars, statistics, ready, stop, fatal, entity>>

\* Entity._set_statistics() appends one row after the other.
CopyRow(r) ==
    /\ rpc[r] = "copy" /\ Len(entity[r]) < Len(statistics)
    /\ entity' = [entity EXCEPT ![r] = Append(@, statistics[Len(@) + 1])]
    /\ UNCHANGED <<pc, collectVars, statistics, ready, data_sem, stop, fatal, rpc>>

\* Deviation: the Entity is returned before the semaphore is released.
ReturnLocked(r) ==
    /\ rpc[r] = "copy" /\ Len(entity[r]) >= Len(statistics)
    /\ rpc' = [rpc EXCEPT ![r] = "idle"]
    /\ UNCHANGED <<pc, collectVars, statistics, ready, data_sem, stop, fatal, entity>>

\* The semaphore is released, the Entity finalized and returned.
ReleaseAndReturn(r) ==
    /\ rpc[r] = "copy" /\ Len(entity[r]) >= Len(statistics)
    /\ data_sem' = 1 /\ rpc' = [rpc EXCEPT ![r] = "idle"]
    /\ UNCHANGED <<pc, collectVars, statistics, ready, stop, fatal, entity>>

Reader(r) ==
    \/ InterrogateNotReady(r) \/ InterrogateReady(r)
    \/ AcquireForCopy(r) \/ CopyRow(r) \/ ReleaseAndReturn(r)

-----------------------------------------------------------------------------
\* terminate() by the guest manager, or the running flag cleared.
Terminate ==
    /\ ~stop /\ stop' = TRUE
    /\ UNCHANGED <<pc, collectVars, statistics, ready, data_sem, fatal, readerVars>>

Next == CollectorThread \/ Terminate \/ \E r \in Readers : Reader(r)

Spec == Init /\ [][Next]_vars

(* The threads keep running; a semaphore that is free again and again is   *)
(* granted to every waiter in the end (the collecting thread sleeps for    *)
(* its whole interval between two passes, so the reader is not overtaken   *)
(* for ever).  Nobody is obliged to call interrogate() or terminate().     *)
Fairness ==
    /\ WF_vars(CollectorThread) /\ SF_vars(AcquireForRow)
    /\ \A r \in Readers :
          /\ SF_vars(AcquireForCopy(r))
          /\ WF_vars(CopyRow(r) \/ ReleaseAndReturn(r))

FairSpec == Spec /\ Fairness
-----------------------------------------------------------------------------
\* The dictionaries a pass can hold, and the rows of the deque.
Data == UNION {[ks -> 0..NumCollectors] : ks \in SUBSET valid_fields}
Row == [n : 0..MaxPasses, data : [valid_fields -> 0..NumCollectors]]

\* Every variable has its type; the deque exceeds the configured length
\* only between the append and the popleft (Monitor.collect, lines 122-124).
TypeOK ==
    /\ pc \in {"idle", "collecting", "acquire", "append", "trim", "publish", "ended"}
    /\ pass \in 0..MaxPasses /\ turn \in 1..(NumCollectors + 1)
    /\ data \in Data
    /\ pc \in {"acquire", "append"} => DOMAIN data = valid_fields
    /\ reported \in [Collectors -> SUBSET valid_fields]
    /\ statistics \in Seq(Row)
    /\ Len(statistics) <= HistoryLength + (IF pc = "trim" THEN 1 ELSE 0)
    /\ ready \in {"None", "True", "False"}
    /\ data_sem \in {0, 1} /\ stop \in BOOLEAN /\ fatal \in BOOLEAN
    /\ rpc \in [Readers -> {"idle", "acquire", "copy"}]
    /\ entity \in [Readers -> Seq(Row) \cup {NoEntity}]
    /\ \A r \in Readers : rpc[r] # "idle" => entity[r] \in Seq(Row)

\* Whoever is between acquire() and release() of data_sem.
WriterInside == pc \in {"append", "trim"}
ReaderInside(r) == rpc[r] = "copy"

\* At most one thread is between acquire() and release() of data_sem, and
\* the semaphore is free exactly when none is.
OneInside ==
    /\ \A r, s \in Readers : ReaderInside(r) /\ ReaderInside(s) => r = s
    /\ \A r \in Readers : ~(ReaderInside(r) /\ WriterInside)
    /\ data_sem = 1 <=> ~WriterInside /\ \A r \in Readers : ~ReaderInside(r)

Increasing(rows) ==
    \A i, j \in 1..Len(rows) : i < j => rows[i].n < rows[j].n

\* An Entity that interrogate() has returned is usable by a policy: it has
\* at least one row (so Stat() and getStatistics find statistics[-1]), no
\* more than the history length, in the order they were collected.
EntityWellFormed ==
    \A r \in Readers :
        rpc[r] = "idle" /\ entity[r] # NoEntity =>
            /\ Len(entity[r]) \in 1..HistoryLength
            /\ Increasing(entity[r])

\* While a reader copies, what it has is a prefix of the deque: no row is
\* appended to or dropped from the deque under its hands.
CopyIsPrefix ==
    \A r \in Readers : rpc[r] = "copy" =>
        /\ Len(entity[r]) <= Len(statistics)
        /\ \A i \in 1..Len(entity[r]) : entity[r][i] = statistics[i]

\* A monitor that is ready has a sample of the last pass that was finished:
\* readiness is withdrawn by every pass that yields no row.
ReadyMeansCurrent ==
    ready = "True" =>
        /\ statistics # <<>>
        /\ pc \in {"idle", "ended"} => statistics[Len(statistics)].n = pass
        /\ pc = "collecting" => statistics[Len(statistics)].n = pass - 1

\* After a collector's FatalError the monitor is never ready again.
FatalNeverReady == fatal => ready = "False"

\* The docstring of collect(): priority is given to the collectors in
\* their order.  A key has the value of the first collector that had one
\* for it, and is None or missing only if no collector had one.
Providers(k) == {c \in Collectors : k \in reported[c]}
FirstCollectorWins ==
    \A k \in valid_fields :
        IF Providers(k) = {} THEN k \in DOMAIN data => data[k] = 0
        ELSE /\ k \in DOMAIN data
             /\ data[k] \in Providers(k)
             /\ \A c \in Providers(k) : data[k] <= c

\* interrogate() implements the atomic snapshot of a sliding window.
\* The row enters the window when it is appended, the snapshot is taken
\* when the semaphore is released.
Window == INSTANCE SampleWindow WITH
    Sample <- Row,
    window <- Trimmed(statistics),
    available <- (ready = "True"),
    asking <- {r \in Readers : rpc[r] # "idle"},
    answer <- [r \in Readers |-> IF rpc[r] = "idle" THEN entity[r] ELSE NoEntity]
WindowSpec == Window!Spec

\* A call of interrogate() returns, however the collecting thread and the
\* other readers behave.
InterrogationReturns ==
    \A r \in Readers : rpc[r] = "acquire" ~> rpc[r] = "idle"

\* A monitor that is told to stop, or has met a fatal error, ends its thread.
StopEndsThread == stop ~> pc = "ended"
=============================================================================
