---------------------------- MODULE GuestManager ----------------------------
(***************************************************************************)
(* mom/GuestManager.py with the threads it starts (GuestMonitorThread of   *)
(* mom/GuestMonitor.py) and the hypervisor interface it polls: domains     *)
(* come and go while the manager lists them, spawns monitors for the new   *)
(* ones and drops the monitors of those that ended; the policy engine and  *)
(* the RPC server read the dictionary of guests.                           *)
(*                                                                         *)
(* A Monitor is reduced to what the manager sees of it: its thread, its    *)
(* termination flag and its readiness (module Monitor has the rest).       *)
(***************************************************************************)
EXTENDS Naturals, FiniteSets

CONSTANTS Ids,         \* identifiers the hypervisor gives to domains
          Monitors,    \* bound: GuestMonitor objects alive at one time
          Readers,     \* threads that call interrogate, rpc_get_active_guests
          NoMonitor, NoId

CONSTANTS Threaded,    \* main/guest-manager-multi-thread
          Iface,       \* the hypervisor interface: "libvirt", "vdsm", "vdsmRpc"
          Weights,     \* is main/name-to-weights in the configuration?
          QemuProc,    \* is GuestQemuProc among the guest collectors?
          MaxChanges,  \* bound: domains started or ended
          MaxFaults    \* bound: failed calls and fatal collector errors

ASSUME ConfigAssumption ==
    /\ Threaded \in BOOLEAN /\ Weights \in BOOLEAN /\ QemuProc \in BOOLEAN
    /\ Iface \in {"libvirt", "vdsm", "vdsmRpc"}
    /\ MaxChanges \in Nat /\ MaxFaults \in Nat
    /\ NoMonitor \notin Monitors /\ NoId \notin Ids
    /\ "manager" \notin Readers /\ "free" \notin Readers

VARIABLES domains,     \* the domains that run on the host
          past,        \* the domains that have ended
          polled,      \* history: domains when the manager polled last
          running,     \* the program's running flag
          changes, faults,   \* how much of the bounds is used up
          pc,          \* where the manager thread is
          domain_list, spawn_list,   \* its locals in run, _spawn_guest_monitors
          id, cur,     \* the domain and the monitor it is working on
          todo,        \* guests the current loop over guests.items() has left
          guests,      \* id -> registered monitor
          guests_sem,  \* who holds the semaphore
          thread,      \* monitor -> state of its thread ("none": single-thread)
          dom,         \* monitor -> the domain it was made for
          term,        \* monitor -> terminate() has been called
          ready,       \* monitor -> ready is True
          broken,      \* monitor -> its collectors could not be made (None)
          rpc,         \* where each reader is
          rtodo, ret   \* reader -> guests left in its loop, guests reported

hostVars == <<domains, past, changes>>
localVars == <<domain_list, spawn_list, id, cur, todo>>
monitorVars == <<thread, dom, term, ready, broken>>
readerVars == <<rpc, rtodo, ret>>
vars == <<hostVars, polled, running, faults, pc, localVars, guests, guests_sem,
          monitorVars, readerVars>>

Registered == {i \in Ids : guests[i] # NoMonitor}

Init ==
    /\ domains \in SUBSET Ids /\ past = {} /\ polled = {}
    /\ running = TRUE /\ changes = 0 /\ faults = 0
    /\ pc = "loop" /\ domain_list = {} /\ spawn_list = {}
    /\ id = NoId /\ cur = NoMonitor /\ todo = {}
    /\ guests = [i \in Ids |-> NoMonitor] /\ guests_sem = "free"
    /\ thread = [m \in Monitors |-> "unused"] /\ dom = [m \in Monitors |-> NoId]
    /\ term = [m \in Monitors |-> FALSE] /\ ready = [m \in Monitors |-> FALSE]
    /\ broken = [m \in Monitors |-> FALSE]
    /\ rpc = [r \in Readers |-> "idle"]
    /\ rtodo = [r \in Readers |-> {}] /\ ret = [r \in Readers |-> {}]

Fault == faults < MaxFaults /\ faults' = faults + 1

-----------------------------------------------------------------------------
(* The host.  libvirt never gives a domain id a second time; the VDSM      *)
(* interfaces use the uuid, which comes back when the VM is restarted.     *)
StartDomain(i) ==
    /\ i \notin domains /\ changes < MaxChanges
    /\ Iface = "libvirt" => i \notin past
    /\ domains' = domains \cup {i} /\ changes' = changes + 1
    /\ UNCHANGED <<past, polled, running, faults, pc, localVars, guests,
                   guests_sem, monitorVars, readerVars>>

EndDomain(i) ==
    /\ i \in domains /\ changes < MaxChanges
    /\ domains' = domains \ {i} /\ past' = past \cup {i} /\ changes' = changes + 1
    /\ UNCHANGED <<polled, running, faults, pc, localVars, guests, guests_sem,
                   monitorVars, readerVars>>

\* MOM.shutdown(), or the main thread's own check, clears the running flag.
Shutdown ==
    /\ running /\ running' = FALSE
    /\ UNCHANGED <<hostVars, polled, faults, pc, localVars, guests, guests_sem,
                   monitorVars, readerVars>>

-----------------------------------------------------------------------------
(* GuestManager.run *)
EnterLoop ==
    /\ pc = "loop" /\ running /\ pc' = "poll"
    /\ UNCHANGED <<hostVars, polled, running, faults, localVars, guests,
                   guests_sem, monitorVars, readerVars>>

LeaveLoop ==
    /\ pc = "loop" /\ ~running
    /\ pc' = IF Threaded THEN "wait" ELSE "done"
    /\ UNCHANGED <<hostVars, polled, running, faults, localVars, guests,
                   guests_sem, monitorVars, readerVars>>

\* After the part that needs a domain list: in single-thread mode the
\* manager collects for all guests, then it sleeps.
AfterCheck == IF Threaded THEN "sleep" ELSE "collect"

\* Deviation: every interface answers an error with an empty list.
AlwaysEmpty == TRUE

\* getVmList() of libvirt and of the VDSM RPC interfaces answers an error
\* with an empty list, that of vdsmInterface with None.
ListOnErrorIsEmpty == Iface # "vdsm"

Poll ==
    /\ pc = "poll" /\ polled' = domains
    /\ domain_list' = domains /\ pc' = "spawnlist"
    /\ UNCHANGED <<hostVars, running, faults, spawn_list, id, cur, todo, guests,
                   guests_sem, monitorVars, readerVars>>

PollFails ==
    /\ pc = "poll" /\ Fault /\ polled' = domains
    /\ \/ ListOnErrorIsEmpty /\ domain_list' = {} /\ pc' = "spawnlist"
       \/ ~ListOnErrorIsEmpty /\ pc' = AfterCheck /\ UNCHANGED domain_list
    /\ UNCHANGED <<hostVars, running, spawn_list, id, cur, todo, guests,
                   guests_sem, monitorVars, readerVars>>

Sleep ==
    /\ pc = "sleep" /\ pc' = "loop"
    /\ UNCHANGED <<hostVars, polled, running, faults, localVars, guests,
                   guests_sem, monitorVars, readerVars>>

-----------------------------------------------------------------------------
(* _spawn_guest_monitors: the semaphore is held for the set difference and *)
(* for each registration, not while monitors are made.                     *)
\* Deviation: the guests that have a monitor are not left out.
SpawnAll ==
    /\ pc = "spawnlist" /\ guests_sem = "free"
    /\ spawn_list' = domain_list /\ pc' = "spawn"
    /\ UNCHANGED <<hostVars, polled, running, faults, domain_list, id, cur, todo,
                   guests, guests_sem, monitorVars, readerVars>>

SpawnList ==
    /\ pc = "spawnlist" /\ guests_sem = "free"
    /\ spawn_list' = domain_list \ Registered /\ pc' = "spawn"
    /\ UNCHANGED <<hostVars, polled, running, faults, domain_list, id, cur, todo,
                   guests, guests_sem, monitorVars, readerVars>>

SpawnNext(i) ==
    /\ pc = "spawn" /\ i \in spawn_list
    /\ spawn_list' = spawn_list \ {i} /\ id' = i /\ pc' = "info"
    /\ UNCHANGED <<hostVars, polled, running, faults, domain_list, cur, todo,
                   guests, guests_sem, monitorVars, readerVars>>

SpawnDone ==
    /\ pc = "spawn" /\ spawn_list = {} /\ pc' = "check"
    /\ UNCHANGED <<hostVars, polled, running, faults, localVars, guests,
                   guests_sem, monitorVars, readerVars>>

\* When the domain is gone, or the call fails, vdsmInterface.getVmInfo()
\* returns None; that of libvirt uses the missing domain and that of the RPC
\* interfaces raises: the exception leaves run().
InfoRaises == Iface # "vdsm"

InfoOk ==
    /\ pc = "info" /\ id \in domains /\ pc' = "create"
    /\ UNCHANGED <<hostVars, polled, running, faults, localVars, guests,
                   guests_sem, monitorVars, readerVars>>

InfoNone ==
    /\ pc = "info" /\ pc' = "spawn"
    /\ \/ id \notin domains /\ ~InfoRaises /\ UNCHANGED faults
       \/ Fault
    /\ UNCHANGED <<hostVars, polled, running, localVars, guests, guests_sem,
                   monitorVars, readerVars>>

InfoCrash ==
    /\ pc = "info" /\ InfoRaises /\ pc' = "crashed"
    /\ \/ id \notin domains /\ UNCHANGED faults
       \/ Fault
    /\ UNCHANGED <<hostVars, polled, running, localVars, guests, guests_sem,
                   monitorVars, readerVars>>

\* An object not in use: never made, or forgotten and at rest.
Free(m) ==
    /\ \A i \in Ids : guests[i] # m
    /\ thread[m] \in {"unused", "dead", "none"}

\* The constructor fails without the weights option, and GuestQemuProc's
\* leaves the thread (sys.exit) when the qemu process is gone.
ConstructorFails == ~Weights \/ (QemuProc /\ id \notin domains)

CreateMonitor(m) ==
    /\ pc = "create" /\ ~ConstructorFails /\ Free(m)
    /\ \/ broken' = [broken EXCEPT ![m] = FALSE] /\ UNCHANGED faults
       \/ broken' = [broken EXCEPT ![m] = TRUE] /\ Fault
    /\ thread' = [thread EXCEPT ![m] = IF Threaded THEN "idle" ELSE "none"]
    /\ dom' = [dom EXCEPT ![m] = id]
    /\ term' = [term EXCEPT ![m] = FALSE] /\ ready' = [ready EXCEPT ![m] = FALSE]
    /\ cur' = m /\ pc' = "isrunning"
    /\ UNCHANGED <<hostVars, polled, running, domain_list, spawn_list, id, todo,
                   guests, guests_sem, readerVars>>

CreateCrash ==
    /\ pc = "create" /\ ConstructorFails /\ pc' = "crashed"
    /\ UNCHANGED <<hostVars, polled, running, faults, localVars, guests,
                   guests_sem, monitorVars, readerVars>>

\* Deviation: only a monitor whose thread has died is registered.
RegisterOnlyDead ==
    /\ pc = "isrunning"
    /\ IF thread[cur] = "dead" THEN pc' = "register" /\ UNCHANGED cur
                               ELSE pc' = "spawn" /\ cur' = NoMonitor
    /\ UNCHANGED <<hostVars, polled, running, faults, domain_list, spawn_list, id,
                   todo, guests, guests_sem, monitorVars, readerVars>>

IsRunning ==
    /\ pc = "isrunning"
    /\ IF thread[cur] # "dead" THEN pc' = "register" /\ UNCHANGED cur
                               ELSE pc' = "spawn" /\ cur' = NoMonitor
    /\ UNCHANGED <<hostVars, polled, running, faults, domain_list, spawn_list, id,
                   todo, guests, guests_sem, monitorVars, readerVars>>

RegisterGuest ==
    /\ pc = "register" /\ guests_sem = "free"
    /\ guests' = IF guests[id] = NoMonitor THEN [guests EXCEPT ![id] = cur] ELSE guests
    /\ cur' = NoMonitor /\ pc' = "spawn"
    /\ UNCHANGED <<hostVars, polled, running, faults, domain_list, spawn_list, id,
                   todo, guests_sem, monitorVars, readerVars>>

-----------------------------------------------------------------------------
(* _check_guest_monitors, with the semaphore held all along. *)
\* Deviation: the check does not wait for the readers.
CheckUnlocked ==
    /\ pc = "check"
    /\ guests_sem' = "manager" /\ todo' = Registered /\ pc' = "checking"
    /\ UNCHANGED <<hostVars, polled, running, faults, domain_list, spawn_list, id,
                   cur, guests, monitorVars, readerVars>>

CheckBegin ==
    /\ pc = "check" /\ guests_sem = "free"
    /\ guests_sem' = "manager" /\ todo' = Registered /\ pc' = "checking"
    /\ UNCHANGED <<hostVars, polled, running, faults, domain_list, spawn_list, id,
                   cur, guests, monitorVars, readerVars>>

\* Deviations: the monitor of an ended domain is not told to stop; it is
\* kept; a monitor whose thread has died is kept.
CheckForgets(i) ==
    /\ pc = "checking" /\ i \in todo /\ todo' = todo \ {i}
    /\ guests' = IF thread[guests[i]] = "dead" \/ i \notin domain_list
                 THEN [guests EXCEPT ![i] = NoMonitor] ELSE guests
    /\ UNCHANGED <<hostVars, polled, running, faults, pc, domain_list, spawn_list,
                   id, cur, guests_sem, monitorVars, readerVars>>
CheckDeadOnly(i) ==
    /\ pc = "checking" /\ i \in todo /\ todo' = todo \ {i}
    /\ guests' = IF thread[guests[i]] = "dead"
                 THEN [guests EXCEPT ![i] = NoMonitor] ELSE guests
    /\ UNCHANGED <<hostVars, polled, running, faults, pc, domain_list, spawn_list,
                   id, cur, guests_sem, monitorVars, readerVars>>
CheckEndedOnly(i) ==
    /\ pc = "checking" /\ i \in todo /\ todo' = todo \ {i}
    /\ IF i \in domain_list THEN UNCHANGED <<guests, term>>
       ELSE /\ guests' = [guests EXCEPT ![i] = NoMonitor]
            /\ term' = [term EXCEPT ![guests[i]] = TRUE]
    /\ UNCHANGED <<hostVars, polled, running, faults, pc, domain_list, spawn_list,
                   id, cur, guests_sem, thread, dom, ready, broken, readerVars>>

\* One guest: forgotten if its thread has died, unregistered and terminated
\* if its domain is not in the list, else kept.
CheckGuest(i) ==
    /\ pc = "checking" /\ i \in todo /\ todo' = todo \ {i}
    /\ \/ /\ thread[guests[i]] = "dead"
          /\ guests' = [guests EXCEPT ![i] = NoMonitor]
          /\ UNCHANGED term
       \/ /\ thread[guests[i]] # "dead" /\ i \notin domain_list
          /\ guests' = [guests EXCEPT ![i] = NoMonitor]
          /\ term' = [term EXCEPT ![guests[i]] = TRUE]
       \/ /\ thread[guests[i]] # "dead" /\ i \in domain_list
          /\ UNCHANGED <<guests, term>>
    /\ UNCHANGED <<hostVars, polled, running, faults, pc, domain_list, spawn_list,
                   id, cur, guests_sem, thread, dom, ready, broken, readerVars>>

CheckEnd ==
    /\ pc = "checking" /\ todo = {}
    /\ guests_sem' = "free" /\ pc' = AfterCheck
    /\ UNCHANGED <<hostVars, polled, running, faults, localVars, guests,
                   monitorVars, readerVars>>

-----------------------------------------------------------------------------
(* Collection passes: a pass makes the monitor ready or not ready, or meets *)
(* a fatal error, after which should_run() is false.                        *)
PassOutcome(m) ==
    \/ /\ \E b \in BOOLEAN : ready' = [ready EXCEPT ![m] = b]
       /\ UNCHANGED <<term, faults>>
    \/ /\ Fault
       /\ ready' = [ready EXCEPT ![m] = FALSE]
       /\ term' = [term EXCEPT ![m] = TRUE]

\* Single-thread mode: _collect_from_guest_monitors, in the manager thread.
CollectBegin ==
    /\ pc = "collect" /\ guests_sem = "free"
    /\ guests_sem' = "manager" /\ todo' = Registered /\ pc' = "collecting"
    /\ UNCHANGED <<hostVars, polled, running, faults, domain_list, spawn_list, id,
                   cur, guests, monitorVars, readerVars>>

CollectGuest(i) ==
    /\ pc = "collecting" /\ i \in todo /\ todo' = todo \ {i}
    /\ \/ /\ term[guests[i]] \/ ~running
          /\ UNCHANGED <<ready, term, faults>>
       \/ /\ ~term[guests[i]] /\ running /\ ~broken[guests[i]]
          /\ PassOutcome(guests[i])
    /\ UNCHANGED <<hostVars, polled, running, pc, domain_list, spawn_list, id, cur,
                   guests, guests_sem, thread, dom, broken, readerVars>>

\* Deviation: acquire() and release() in place of the with statement.
CrashLocked(i) ==
    /\ pc = "collecting" /\ i \in todo
    /\ ~term[guests[i]] /\ running /\ broken[guests[i]]
    /\ pc' = "crashed"
    /\ UNCHANGED <<hostVars, polled, running, faults, localVars, guests, guests_sem,
                   monitorVars, readerVars>>

\* A monitor without collectors: the exception leaves the with block and run().
CollectCrash(i) ==
    /\ pc = "collecting" /\ i \in todo
    /\ ~term[guests[i]] /\ running /\ broken[guests[i]]
    /\ guests_sem' = "free" /\ pc' = "crashed"
    /\ UNCHANGED <<hostVars, polled, running, faults, localVars, guests,
                   monitorVars, readerVars>>

CollectEnd ==
    /\ pc = "collecting" /\ todo = {}
    /\ guests_sem' = "free" /\ pc' = "sleep"
    /\ UNCHANGED <<hostVars, polled, running, faults, localVars, guests,
                   monitorVars, readerVars>>

-----------------------------------------------------------------------------
(* _wait_for_guest_monitors: popitem() under the semaphore, join(0). *)
WaitPop(i) ==
    /\ pc = "wait" /\ guests_sem = "free" /\ i \in Registered
    /\ guests' = [guests EXCEPT ![i] = NoMonitor]
    /\ UNCHANGED <<hostVars, polled, running, faults, pc, localVars, guests_sem,
                   monitorVars, readerVars>>

WaitEnd ==
    /\ pc = "wait" /\ guests_sem = "free" /\ Registered = {}
    /\ pc' = "done"
    /\ UNCHANGED <<hostVars, polled, running, faults, localVars, guests,
                   guests_sem, monitorVars, readerVars>>

-----------------------------------------------------------------------------
(* GuestMonitorThread.run *)
BeginPass(m) ==
    /\ thread[m] = "idle" /\ ~term[m] /\ running
    /\ thread' = [thread EXCEPT ![m] = "collecting"]
    /\ UNCHANGED <<hostVars, polled, running, faults, pc, localVars, guests,
                   guests_sem, dom, term, ready, broken, readerVars>>

EndPass(m) ==
    /\ thread[m] = "collecting" /\ ~broken[m] /\ PassOutcome(m)
    /\ thread' = [thread EXCEPT ![m] = "idle"]
    /\ UNCHANGED <<hostVars, polled, running, pc, localVars, guests, guests_sem,
                   dom, broken, readerVars>>

\* Deviation: the thread looks at its own flag only.
EndsOnTermOnly(m) ==
    /\ \/ thread[m] = "idle" /\ term[m]
       \/ thread[m] = "collecting" /\ broken[m]
    /\ thread' = [thread EXCEPT ![m] = "dead"]
    /\ UNCHANGED <<hostVars, polled, running, faults, pc, localVars, guests,
                   guests_sem, dom, term, ready, broken, readerVars>>

\* The loop ends, or collect() fails on the missing collectors.
ThreadEnds(m) ==
    /\ \/ thread[m] = "idle" /\ (term[m] \/ ~running)
       \/ thread[m] = "collecting" /\ broken[m]
    /\ thread' = [thread EXCEPT ![m] = "dead"]
    /\ UNCHANGED <<hostVars, polled, running, faults, pc, localVars, guests,
                   guests_sem, dom, term, ready, broken, readerVars>>

MonitorThread(m) == BeginPass(m) \/ EndPass(m) \/ ThreadEnds(m)

-----------------------------------------------------------------------------
(* interrogate() and rpc_get_active_guests(): both report the guests whose *)
(* monitor is ready, one after the other, with the semaphore held.         *)
ReadBegin(r) ==
    /\ rpc[r] = "idle" /\ guests_sem = "free" /\ guests_sem' = r
    /\ rpc' = [rpc EXCEPT ![r] = "reading"]
    /\ rtodo' = [rtodo EXCEPT ![r] = Registered] /\ ret' = [ret EXCEPT ![r] = {}]
    /\ UNCHANGED <<hostVars, polled, running, faults, pc, localVars, guests,
                   monitorVars>>

ReadGuest(r, i) ==
    /\ rpc[r] = "reading" /\ i \in rtodo[r]
    /\ rtodo' = [rtodo EXCEPT ![r] = @ \ {i}]
    /\ ret' = IF ready[guests[i]] THEN [ret EXCEPT ![r] = @ \cup {i}] ELSE ret
    /\ UNCHANGED <<hostVars, polled, running, faults, pc, localVars, guests,
                   guests_sem, monitorVars, rpc>>

ReadEnd(r) ==
    /\ rpc[r] = "reading" /\ rtodo[r] = {} /\ guests_sem' = "free"
    /\ rpc' = [rpc EXCEPT ![r] = "idle"] /\ ret' = [ret EXCEPT ![r] = {}]
    /\ UNCHANGED <<hostVars, polled, running, faults, pc, localVars, guests,
                   monitorVars, rtodo>>

-----------------------------------------------------------------------------
Manager ==
    \/ EnterLoop \/ LeaveLoop \/ Poll \/ PollFails \/ Sleep
    \/ SpawnList \/ SpawnDone \/ InfoOk \/ InfoNone \/ InfoCrash
    \/ CreateCrash \/ IsRunning \/ RegisterGuest
    \/ CheckBegin \/ CheckEnd \/ CollectBegin \/ CollectEnd \/ WaitEnd
    \/ \E m \in Monitors : CreateMonitor(m)
    \/ \E i \in Ids : SpawnNext(i) \/ CheckGuest(i) \/ CollectGuest(i)
                      \/ CollectCrash(i) \/ WaitPop(i)

Reader(r) == ReadBegin(r) \/ ReadEnd(r) \/ \E i \in Ids : ReadGuest(r, i)

Host == Shutdown \/ \E i \in Ids : StartDomain(i) \/ EndDomain(i)

Next == Manager \/ Host \/ (\E m \in Monitors : MonitorThread(m))
        \/ (\E r \in Readers : Reader(r))

Spec == Init /\ [][Next]_vars

(* The manager and the monitor threads run their loops; a semaphore that   *)
(* is free again and again is granted in the end (Python's Semaphore does  *)
(* not queue its waiters, the readers come back only after an interval).   *)
(* A reader that has begun finishes.                                       *)
Fairness ==
    /\ WF_vars(Manager)
    /\ SF_vars(SpawnList) /\ SF_vars(RegisterGuest) /\ SF_vars(CheckBegin)
    /\ SF_vars(CollectBegin) /\ SF_vars(WaitEnd)
    /\ SF_vars(\E i \in Ids : WaitPop(i))
    /\ \A m \in Monitors : WF_vars(MonitorThread(m))
    /\ \A r \in Readers : WF_vars(ReadEnd(r) \/ \E i \in Ids : ReadGuest(r, i))

FairSpec == Spec /\ Fairness
-----------------------------------------------------------------------------
TypeOK ==
    /\ domains \subseteq Ids /\ past \subseteq Ids /\ polled \subseteq Ids
    /\ running \in BOOLEAN
    /\ changes \in 0..MaxChanges /\ faults \in 0..MaxFaults
    /\ pc \in {"loop", "poll", "spawnlist", "spawn", "info", "create", "isrunning",
               "register", "check", "checking", "collect", "collecting", "sleep",
               "wait", "done", "crashed"}
    /\ domain_list \subseteq Ids /\ spawn_list \subseteq Ids /\ todo \subseteq Ids
    /\ id \in Ids \cup {NoId} /\ cur \in Monitors \cup {NoMonitor}
    /\ pc \in {"info", "create", "isrunning", "register"} => id \in Ids
    /\ pc \in {"isrunning", "register"} <=> cur \in Monitors
    /\ guests \in [Ids -> Monitors \cup {NoMonitor}]
    /\ guests_sem \in {"free", "manager"} \cup Readers
    /\ thread \in [Monitors -> {"unused", "none", "idle", "collecting", "dead"}]
    /\ dom \in [Monitors -> Ids \cup {NoId}]
    /\ term \in [Monitors -> BOOLEAN] /\ ready \in [Monitors -> BOOLEAN]
    /\ broken \in [Monitors -> BOOLEAN]
    /\ rpc \in [Readers -> {"idle", "reading"}]
    /\ rtodo \in [Readers -> SUBSET Ids] /\ ret \in [Readers -> SUBSET Ids]

Alive(m) == thread[m] \in {"idle", "collecting"}

\* A thread that collects, or will: nobody has told it to stop.
Active(m) == Alive(m) /\ ~term[m]

\* No monitor is left behind: while the program runs, one that is active is
\* in the dictionary or about to be put there.  A monitor outside of it is
\* never terminated nor reported (_register_guest would drop the second
\* monitor of an id and leave its thread running).
NoOrphan ==
    running => \A m \in Monitors : Active(m) => guests[dom[m]] = m \/ cur = m

\* Two monitors never collect from the same domain, however often it ends
\* and comes back: the one that was unregistered has been told to stop.
OneMonitorPerDomain ==
    running => \A m, n \in Monitors :
                   Active(m) /\ Active(n) /\ dom[m] = dom[n] => m = n

\* The guest a reader looks at, and those it has reported, are registered:
\* the dictionary does not change under the reader's loop.
SnapshotOfGuests ==
    \A r \in Readers : rpc[r] = "reading" => ret[r] \cup rtodo[r] \subseteq Registered

\* Whatever ends the manager thread, the semaphore is not left locked: the
\* policy engine and the RPC server would wait for ever.
SemaphoreNotLeaked == pc \in {"crashed", "done"} => guests_sem # "manager"

\* A guest that is in the dictionary but whose monitor has met a fatal error
\* is not reported to the policy engine again.
StoppedNotReported ==
    \A i \in Registered : term[guests[i]] => ~ready[guests[i]]

\* The manager thread survives whatever the hypervisor answers.
ManagerSurvives == pc # "crashed"

\* A guest whose domain ran when the manager polled is not dropped while its
\* monitor works.
KeepsGuests ==
    \A i \in Ids : running /\ i \in polled /\ guests[i] # NoMonitor
                      /\ thread[guests[i]] # "dead" => guests'[i] = guests[i]

Ending == ~running \/ pc = "crashed"

\* A domain that runs gets a monitor.
DomainsGetMonitored ==
    \A i \in Ids : i \in domains ~> i \in Registered \/ i \notin domains \/ Ending

\* The monitor of a domain that has ended is dropped.
EndedDomainsDropped ==
    \A i \in Ids : i \in Registered /\ i \notin domains
                       ~> i \notin Registered \/ i \in domains \/ Ending

\* The class comment: when GuestMonitors stop running, they are removed.
Stopped(m) == term[m] \/ thread[m] = "dead"
StoppedMonitorsRemoved ==
    \A i \in Ids : \A m \in Monitors :
        guests[i] = m /\ Stopped(m) ~> guests[i] # m \/ Ending

\* When the program is told to stop, the manager and all monitor threads end.
ShutdownCompletes ==
    ~running ~> pc \in {"done", "crashed"} /\ \A m \in Monitors : ~Alive(m)
=============================================================================
