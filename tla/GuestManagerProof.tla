------------------------- MODULE GuestManagerProof -------------------------
(* Theorems about GuestManager, for every set of domains, monitors and     *)
(* readers, every hypervisor interface and both modes; the last one is     *)
(* about the configuration MCGuestManager has beside the given one.        *)
EXTENDS MCGuestManager, TLAPS

LEMMA TypeStep == TypeOK /\ [Next]_vars => TypeOK'
  <1> SUFFICES ASSUME TypeOK, [Next]_vars PROVE TypeOK'
    OBVIOUS
  <1> USE ConfigAssumption DEF TypeOK
  <1>1. CASE Host
    <2>1. CASE Shutdown
      BY <2>1 DEF Shutdown, hostVars, localVars, monitorVars, readerVars
    <2>2. ASSUME NEW i \in Ids, StartDomain(i) PROVE TypeOK'
      BY <2>2 DEF StartDomain, localVars, monitorVars, readerVars
    <2>3. ASSUME NEW i \in Ids, EndDomain(i) PROVE TypeOK'
      BY <2>3 DEF EndDomain, localVars, monitorVars, readerVars
    <2>4. QED BY <1>1, <2>1, <2>2, <2>3 DEF Host
  <1>2. CASE EnterLoop \/ LeaveLoop \/ Poll \/ PollFails \/ Sleep
    BY <1>2 DEF EnterLoop, LeaveLoop, Poll, PollFails, Sleep, Fault, AfterCheck,
       hostVars, localVars, monitorVars, readerVars
  <1>3. CASE SpawnList \/ SpawnDone \/ InfoOk \/ InfoNone \/ InfoCrash \/ CreateCrash
    BY <1>3 DEF SpawnList, SpawnDone, InfoOk, InfoNone, InfoCrash, CreateCrash,
       Fault, hostVars, localVars, monitorVars, readerVars
  <1>4. CASE IsRunning \/ RegisterGuest
    BY <1>4 DEF IsRunning, RegisterGuest, hostVars, localVars, monitorVars, readerVars
  <1>5. CASE CheckBegin \/ CheckEnd \/ CollectBegin \/ CollectEnd \/ WaitEnd
    BY <1>5 DEF CheckBegin, CheckEnd, CollectBegin, CollectEnd, WaitEnd, AfterCheck,
       Registered, hostVars, localVars, monitorVars, readerVars
  <1>6. ASSUME NEW m \in Monitors, CreateMonitor(m) PROVE TypeOK'
    <2>1. /\ thread' \in [Monitors -> {"unused", "none", "idle", "collecting", "dead"}]
          /\ dom' \in [Monitors -> Ids \cup {NoId}] /\ term' \in [Monitors -> BOOLEAN]
          /\ ready' \in [Monitors -> BOOLEAN] /\ broken' \in [Monitors -> BOOLEAN]
      BY <1>6 DEF CreateMonitor
    <2>2. faults' \in 0..MaxFaults
      BY <1>6 DEF CreateMonitor, Fault
    <2>3. QED
      BY <1>6, <2>1, <2>2 DEF CreateMonitor, hostVars, readerVars
  <1>7. ASSUME NEW i \in Ids, SpawnNext(i) \/ WaitPop(i) \/ CollectCrash(i) PROVE TypeOK'
    BY <1>7 DEF SpawnNext, WaitPop, CollectCrash, hostVars, localVars, monitorVars,
       readerVars
  <1>8. ASSUME NEW i \in Ids, CheckGuest(i) PROVE TypeOK'
    <2>1. guests' \in [Ids -> Monitors \cup {NoMonitor}] /\ term' \in [Monitors -> BOOLEAN]
      BY <1>8 DEF CheckGuest
    <2>2. QED BY <1>8, <2>1 DEF CheckGuest, hostVars, readerVars
  <1>9. ASSUME NEW i \in Ids, CollectGuest(i) PROVE TypeOK'
    <2>1. ready' \in [Monitors -> BOOLEAN] /\ term' \in [Monitors -> BOOLEAN]
      BY <1>9 DEF CollectGuest, PassOutcome
    <2>2. faults' \in 0..MaxFaults
      BY <1>9 DEF CollectGuest, PassOutcome, Fault
    <2>3. QED BY <1>9, <2>1, <2>2 DEF CollectGuest, hostVars, readerVars
  <1>10. ASSUME NEW m \in Monitors, MonitorThread(m) PROVE TypeOK'
    <2>1. CASE BeginPass(m)
      BY <2>1 DEF BeginPass, hostVars, localVars, readerVars
    <2>2. CASE EndPass(m)
      <3>1. ready' \in [Monitors -> BOOLEAN] /\ term' \in [Monitors -> BOOLEAN]
        BY <2>2 DEF EndPass, PassOutcome
      <3>2. faults' \in 0..MaxFaults
        BY <2>2 DEF EndPass, PassOutcome, Fault
      <3>3. QED
        BY <2>2, <3>1, <3>2 DEF EndPass, hostVars, localVars, readerVars
    <2>3. CASE ThreadEnds(m)
      BY <2>3 DEF ThreadEnds, hostVars, localVars, readerVars
    <2>4. QED BY <1>10, <2>1, <2>2, <2>3 DEF MonitorThread
  <1>11. ASSUME NEW r \in Readers, Reader(r) PROVE TypeOK'
    BY <1>11 DEF Reader, ReadBegin, ReadGuest, ReadEnd, Registered, hostVars,
       localVars, monitorVars, readerVars
  <1>12. CASE UNCHANGED vars
    BY <1>12 DEF vars, hostVars, localVars, monitorVars, readerVars
  <1>13. QED
    BY <1>1, <1>2, <1>3, <1>4, <1>5, <1>6, <1>7, <1>8, <1>9, <1>10, <1>11, <1>12
    DEF Next, Manager

THEOREM TypeCorrect == Spec => []TypeOK
  <1>1. Init => TypeOK
    BY ConfigAssumption DEF Init, TypeOK
  <1>2. QED BY <1>1, TypeStep, PTL DEF Spec

-----------------------------------------------------------------------------
(* Who holds the semaphore, and what that keeps from changing. *)
SemInv ==
    /\ guests_sem = "manager" <=> pc \in {"checking", "collecting"}
    /\ \A r \in Readers : guests_sem = r <=> rpc[r] = "reading"

LoopInv ==
    /\ pc \in {"checking", "collecting"} => todo \subseteq Registered
    /\ \A r \in Readers : rpc[r] = "reading" => ret[r] \cup rtodo[r] \subseteq Registered

\* The dictionary: an entry is a monitor of its domain that has been made.
DictInv ==
    \A i \in Ids : guests[i] # NoMonitor =>
        dom[guests[i]] = i /\ thread[guests[i]] # "unused"

\* The domains the manager is about to spawn a monitor for have none.  Only
\* the manager adds entries, and only one at a time: this is why it may
\* compute the list, and make the monitor, without keeping the semaphore.
SpawnInv ==
    /\ pc \in {"spawn", "info", "create", "isrunning", "register"} =>
          spawn_list \cap Registered = {}
    /\ pc \in {"info", "create", "isrunning", "register"} =>
          id \notin Registered /\ id \notin spawn_list
    /\ pc \in {"isrunning", "register"} =>
          dom[cur] = id /\ (\A i \in Ids : guests[i] # cur) /\ thread[cur] # "unused"

\* An active monitor is in the dictionary or in the manager's hands.
TrackedInv ==
    /\ NoOrphan
    /\ pc \in {"wait", "done"} => ~running
    /\ \A m \in Monitors : Alive(m) => dom[m] \in Ids /\ Threaded
    /\ pc \in {"collect", "collecting"} => ~Threaded

\* A monitor in the dictionary that has been told to stop was so by its own
\* fatal error: it is not ready, and it is not in the middle of a pass.
Silent(m) == term[m] => ~ready[m] /\ thread[m] # "collecting"
SilentInv ==
    /\ \A i \in Registered : Silent(guests[i])
    /\ cur \in Monitors => Silent(cur)

IInv == TypeOK /\ SemInv /\ LoopInv /\ DictInv /\ SpawnInv /\ TrackedInv /\ SilentInv

LEMMA SemStep == TypeOK /\ SemInv /\ [Next]_vars => SemInv'
  <1> SUFFICES ASSUME TypeOK, SemInv, [Next]_vars PROVE SemInv'
    OBVIOUS
  <1> USE ConfigAssumption DEF SemInv
  <1>1. CASE UNCHANGED <<guests_sem, rpc, pc>>
    BY <1>1
  <1>2. CASE Host \/ UNCHANGED vars
    BY <1>1, <1>2 DEF Host, Shutdown, StartDomain, EndDomain, vars, readerVars
  <1>3. CASE EnterLoop \/ LeaveLoop \/ Poll \/ PollFails \/ Sleep
             \/ SpawnList \/ SpawnDone \/ InfoOk \/ InfoNone \/ InfoCrash
             \/ CreateCrash \/ IsRunning \/ RegisterGuest \/ WaitEnd
    BY <1>3 DEF EnterLoop, LeaveLoop, Poll, PollFails, Sleep, AfterCheck,
       SpawnList, SpawnDone, InfoOk, InfoNone, InfoCrash,
       CreateCrash, IsRunning, RegisterGuest, WaitEnd, readerVars
  <1>4. CASE CheckBegin \/ CheckEnd \/ CollectBegin \/ CollectEnd
    BY <1>4 DEF CheckBegin, CheckEnd, CollectBegin, CollectEnd, AfterCheck, readerVars
  <1>5. CASE \E m \in Monitors : CreateMonitor(m)
    BY <1>5 DEF CreateMonitor, readerVars
  <1>6. CASE \E i \in Ids : SpawnNext(i) \/ CheckGuest(i) \/ CollectGuest(i)
                            \/ CollectCrash(i) \/ WaitPop(i)
    BY <1>6 DEF SpawnNext, CheckGuest, CollectGuest, CollectCrash, WaitPop, readerVars
  <1>7. CASE \E m \in Monitors : MonitorThread(m)
    BY <1>1, <1>7 DEF MonitorThread, BeginPass, EndPass, ThreadEnds, readerVars
  <1>8. ASSUME NEW r \in Readers, Reader(r) PROVE SemInv'
    <2>1. CASE ReadBegin(r)
      BY <2>1 DEF ReadBegin, TypeOK
    <2>2. CASE ReadEnd(r)
      BY <2>2 DEF ReadEnd, TypeOK
    <2>3. CASE \E i \in Ids : ReadGuest(r, i)
      BY <1>1, <2>3 DEF ReadGuest
    <2>4. QED BY <1>8, <2>1, <2>2, <2>3 DEF Reader
  <1>9. QED
    BY <1>2, <1>3, <1>4, <1>5, <1>6, <1>7, <1>8 DEF Next, Manager

-----------------------------------------------------------------------------
(* The rest of the invariant is preserved by every action, given the types *)
(* and the semaphore's invariant.                                          *)
DataInv == LoopInv /\ DictInv /\ SpawnInv /\ TrackedInv /\ SilentInv

\* The steps of the manager that only move its program counter.
LEMMA QuietStep ==
    ASSUME TypeOK, SemInv, DataInv,
           Host \/ EnterLoop \/ LeaveLoop \/ Poll \/ PollFails \/ Sleep
           \/ SpawnDone \/ InfoOk \/ InfoNone \/ InfoCrash \/ CreateCrash
           \/ CheckEnd \/ CollectEnd \/ WaitEnd \/ UNCHANGED vars
    PROVE  DataInv'
  <1> USE ConfigAssumption
      DEF DataInv, LoopInv, DictInv, SpawnInv, TrackedInv, SilentInv, Silent,
          NoOrphan, Active, Alive, Registered
  <1>1. /\ UNCHANGED <<guests, thread, dom, term, ready, cur, readerVars>>
        /\ running' => running
    BY DEF Host, Shutdown, StartDomain, EndDomain, EnterLoop, LeaveLoop, Poll,
       PollFails, Sleep, SpawnDone, InfoOk, InfoNone, InfoCrash, CreateCrash,
       CheckEnd, CollectEnd, WaitEnd, vars, localVars, monitorVars, TypeOK
  <1>2. /\ pc' \in {"spawn", "info", "create", "isrunning", "register"} =>
              /\ pc \in {"spawn", "info", "create", "isrunning", "register"}
              /\ pc' \in {"info", "create", "isrunning", "register"} =>
                    pc \in {"info", "create", "isrunning", "register"}
              /\ pc' \in {"isrunning", "register"} => pc' = pc
              /\ UNCHANGED <<spawn_list, id>>
        /\ pc' \in {"checking", "collecting"} => pc' = pc /\ UNCHANGED todo
        /\ pc' \in {"wait", "done"} => pc \in {"wait", "done"} \/ ~running
        /\ pc' \in {"collect", "collecting"} => pc \in {"collect", "collecting"} \/ ~Threaded
    BY DEF Host, Shutdown, StartDomain, EndDomain, EnterLoop, LeaveLoop, Poll,
       PollFails, Sleep, SpawnDone, InfoOk, InfoNone, InfoCrash, CreateCrash,
       CheckEnd, CollectEnd, WaitEnd, vars, localVars, AfterCheck
  <1>3. LoopInv' /\ DictInv' /\ SilentInv'
    BY <1>1, <1>2 DEF readerVars
  <1>4. SpawnInv'
    BY <1>1, <1>2
  <1>5. TrackedInv'
    BY <1>1, <1>2
  <1>6. QED BY <1>3, <1>4, <1>5

\* The two steps that put a monitor in the manager's hands and in the dictionary.
LEMMA SpawnStep ==
    ASSUME TypeOK, SemInv, DataInv,
           SpawnList \/ IsRunning \/ (\E i \in Ids : SpawnNext(i))
    PROVE  DataInv'
  <1> USE ConfigAssumption
      DEF DataInv, LoopInv, DictInv, SpawnInv, TrackedInv, SilentInv, Silent,
          NoOrphan, Active, Alive, Registered
  <1>1. CASE SpawnList
    BY <1>1 DEF SpawnList, monitorVars, readerVars, TypeOK
  <1>2. CASE IsRunning
    BY <1>2 DEF IsRunning, monitorVars, readerVars, TypeOK
  <1>3. ASSUME NEW i \in Ids, SpawnNext(i) PROVE DataInv'
    BY <1>3 DEF SpawnNext, monitorVars, readerVars, TypeOK
  <1>4. QED BY <1>1, <1>2, <1>3

LEMMA CreateStep ==
    ASSUME TypeOK, SemInv, DataInv, NEW m \in Monitors, CreateMonitor(m)
    PROVE  DataInv'
  <1> USE ConfigAssumption
      DEF DataInv, LoopInv, DictInv, SpawnInv, TrackedInv, SilentInv, Silent,
          NoOrphan, Active, Alive, Registered
  <1>1. /\ pc = "create" /\ pc' = "isrunning" /\ cur' = m /\ dom' = [dom EXCEPT ![m] = id]
        /\ thread' = [thread EXCEPT ![m] = IF Threaded THEN "idle" ELSE "none"]
        /\ term' = [term EXCEPT ![m] = FALSE] /\ ready' = [ready EXCEPT ![m] = FALSE]
        /\ UNCHANGED <<running, spawn_list, id, todo, guests, rpc, rtodo, ret>>
        /\ \A i \in Ids : guests[i] # m
        /\ id \in Ids /\ cur = NoMonitor
    BY DEF CreateMonitor, Free, readerVars, TypeOK
  <1>2. LoopInv'
    BY <1>1
  <1>3. DictInv'
    BY <1>1 DEF TypeOK
  <1>4. SpawnInv'
    BY <1>1 DEF TypeOK
  <1>5. TrackedInv'
    BY <1>1 DEF TypeOK
  <1>6. SilentInv'
    BY <1>1 DEF TypeOK
  <1>7. QED BY <1>2, <1>3, <1>4, <1>5, <1>6

LEMMA RegisterStep ==
    ASSUME TypeOK, SemInv, DataInv, RegisterGuest
    PROVE  DataInv'
  <1> USE ConfigAssumption
      DEF DataInv, LoopInv, DictInv, SpawnInv, TrackedInv, SilentInv, Silent,
          NoOrphan, Active, Alive, Registered
  <1>1. /\ pc = "register" /\ pc' = "spawn" /\ cur' = NoMonitor /\ cur \in Monitors
        /\ id \in Ids /\ guests[id] = NoMonitor /\ guests' = [guests EXCEPT ![id] = cur]
        /\ dom[cur] = id /\ guests_sem = "free"
        /\ UNCHANGED <<running, spawn_list, id, todo, thread, dom, term, ready, rpc, rtodo, ret>>
    BY DEF RegisterGuest, readerVars, monitorVars, TypeOK
  <1>2. LoopInv'
    BY <1>1 DEF TypeOK, SemInv
  <1>3. DictInv'
    BY <1>1 DEF TypeOK
  <1>4. SpawnInv'
    BY <1>1 DEF TypeOK
  <1>5. TrackedInv'
    BY <1>1 DEF TypeOK
  <1>6. SilentInv'
    BY <1>1 DEF TypeOK
  <1>7. QED BY <1>2, <1>3, <1>4, <1>5, <1>6

\* No reader is in its loop while the manager changes the dictionary.
LEMMA NoReader ==
    ASSUME TypeOK, SemInv, guests_sem \in {"free", "manager"}
    PROVE  \A r \in Readers : rpc[r] # "reading"
  BY ConfigAssumption DEF SemInv

LEMMA CheckStep ==
    ASSUME TypeOK, SemInv, DataInv, NEW i \in Ids, CheckGuest(i)
    PROVE  DataInv'
  <1> USE ConfigAssumption
      DEF DataInv, LoopInv, DictInv, SpawnInv, TrackedInv, SilentInv, Silent,
          NoOrphan, Active, Alive, Registered
  <1>1. /\ pc = "checking" /\ i \in todo /\ todo' = todo \ {i} /\ guests_sem = "manager"
        /\ UNCHANGED <<running, pc, spawn_list, id, cur, thread, dom, ready, rpc, rtodo, ret>>
        /\ guests[i] \in Monitors /\ dom[guests[i]] = i
    BY DEF CheckGuest, readerVars, TypeOK, SemInv
  <1>2. \A r \in Readers : rpc[r] # "reading"
    BY <1>1, NoReader
  <1>3. CASE UNCHANGED <<guests, term>>
    BY <1>1, <1>2, <1>3
  <1>4. CASE /\ thread[guests[i]] = "dead"
             /\ guests' = [guests EXCEPT ![i] = NoMonitor] /\ UNCHANGED term
    BY <1>1, <1>2, <1>4 DEF TypeOK
  <1>5. CASE /\ guests' = [guests EXCEPT ![i] = NoMonitor]
             /\ term' = [term EXCEPT ![guests[i]] = TRUE]
    <2>1. LoopInv' /\ DictInv' /\ SpawnInv' /\ TrackedInv'
      BY <1>1, <1>2, <1>5 DEF TypeOK
    <2>2. \A j \in Ids \ {i} : guests[j] # guests[i]
      BY <1>1
    <2>3. SilentInv'
      BY <1>1, <1>5, <2>2 DEF TypeOK
    <2>4. QED BY <2>1, <2>3
  <1>6. QED BY <1>3, <1>4, <1>5 DEF CheckGuest

LEMMA WaitStep ==
    ASSUME TypeOK, SemInv, DataInv, NEW i \in Ids, WaitPop(i)
    PROVE  DataInv'
  <1> USE ConfigAssumption
      DEF DataInv, LoopInv, DictInv, SpawnInv, TrackedInv, SilentInv, Silent,
          NoOrphan, Active, Alive, Registered
  <1>1. /\ pc = "wait" /\ ~running /\ guests' = [guests EXCEPT ![i] = NoMonitor]
        /\ UNCHANGED <<running, pc, spawn_list, id, cur, todo, thread, dom, term,
                       ready, rpc, rtodo, ret>>
        /\ guests_sem = "free"
    BY DEF WaitPop, localVars, monitorVars, readerVars
  <1>2. \A r \in Readers : rpc[r] # "reading"
    BY <1>1, NoReader
  <1>3. QED BY <1>1, <1>2 DEF TypeOK

\* The beginning and the end of the loops over guests.items().
LEMMA LoopStep ==
    ASSUME TypeOK, SemInv, DataInv,
           CheckBegin \/ CollectBegin \/ (\E i \in Ids : CollectCrash(i))
    PROVE  DataInv'
  <1> USE ConfigAssumption
      DEF DataInv, LoopInv, DictInv, SpawnInv, TrackedInv, SilentInv, Silent,
          NoOrphan, Active, Alive, Registered
  <1>1. /\ UNCHANGED <<running, spawn_list, id, cur, guests, thread, dom, term, ready,
                       rpc, rtodo, ret>>
        /\ pc' \in {"checking", "collecting", "crashed"}
        /\ pc' # "crashed" => todo' = Registered
        /\ pc' = "collecting" => pc = "collect"
        /\ pc \notin {"isrunning", "register"}
    BY DEF CheckBegin, CollectBegin, CollectCrash, localVars, monitorVars, readerVars
  <1>2. QED BY <1>1 DEF TypeOK

LEMMA PassStep ==
    ASSUME TypeOK, SemInv, DataInv, NEW i \in Ids, CollectGuest(i)
    PROVE  DataInv'
  <1> USE ConfigAssumption
      DEF DataInv, LoopInv, DictInv, SpawnInv, TrackedInv, SilentInv, Silent,
          NoOrphan, Active, Alive, Registered
  <1>1. /\ pc = "collecting" /\ i \in todo /\ todo' = todo \ {i}
        /\ UNCHANGED <<running, pc, spawn_list, id, cur, guests, thread, dom, rpc, rtodo, ret>>
        /\ guests[i] \in Monitors /\ cur = NoMonitor
    BY DEF CollectGuest, readerVars, TypeOK
  <1>2. CASE UNCHANGED <<ready, term>>
    BY <1>1, <1>2
  <1>3. CASE ~term[guests[i]] /\ PassOutcome(guests[i])
    <2>1. CASE \E b \in BOOLEAN : ready' = [ready EXCEPT ![guests[i]] = b] /\ UNCHANGED term
      BY <1>1, <1>3, <2>1 DEF TypeOK
    <2>2. CASE /\ ready' = [ready EXCEPT ![guests[i]] = FALSE]
               /\ term' = [term EXCEPT ![guests[i]] = TRUE]
      <3>1. thread[guests[i]] # "collecting"
        BY <1>1 DEF TypeOK
      <3>2. QED BY <1>1, <2>2, <3>1 DEF TypeOK
    <2>3. QED BY <1>3, <2>1, <2>2 DEF PassOutcome
  <1>4. QED BY <1>2, <1>3 DEF CollectGuest

LEMMA ThreadStep ==
    ASSUME TypeOK, SemInv, DataInv, NEW m \in Monitors, MonitorThread(m)
    PROVE  DataInv'
  <1> USE ConfigAssumption
      DEF DataInv, LoopInv, DictInv, SpawnInv, TrackedInv, SilentInv, Silent,
          NoOrphan, Active, Alive, Registered
  <1>1. UNCHANGED <<running, pc, spawn_list, id, cur, todo, guests, dom, rpc, rtodo, ret>>
    BY DEF MonitorThread, BeginPass, EndPass, ThreadEnds, localVars, readerVars
  <1>2. CASE BeginPass(m)
    BY <1>1, <1>2 DEF BeginPass, TypeOK
  <1>3. CASE EndPass(m)
    <2>1. CASE \E b \in BOOLEAN : ready' = [ready EXCEPT ![m] = b] /\ UNCHANGED term
      BY <1>1, <1>3, <2>1 DEF EndPass, TypeOK
    <2>2. CASE /\ ready' = [ready EXCEPT ![m] = FALSE]
               /\ term' = [term EXCEPT ![m] = TRUE]
      BY <1>1, <1>3, <2>2 DEF EndPass, TypeOK
    <2>3. QED BY <1>3, <2>1, <2>2 DEF EndPass, PassOutcome
  <1>4. CASE ThreadEnds(m)
    BY <1>1, <1>4 DEF ThreadEnds, TypeOK
  <1>5. QED BY <1>2, <1>3, <1>4 DEF MonitorThread

LEMMA ReadStep ==
    ASSUME TypeOK, SemInv, DataInv, NEW r \in Readers, Reader(r)
    PROVE  DataInv'
  <1> USE ConfigAssumption
      DEF DataInv, LoopInv, DictInv, SpawnInv, TrackedInv, SilentInv, Silent,
          NoOrphan, Active, Alive, Registered
  <1>1. UNCHANGED <<running, pc, spawn_list, id, cur, todo, guests, thread, dom, term, ready>>
    BY DEF Reader, ReadBegin, ReadGuest, ReadEnd, localVars, monitorVars
  <1>2. LoopInv'
    <2>1. CASE ReadBegin(r)
      BY <1>1, <2>1 DEF ReadBegin, TypeOK
    <2>2. CASE ReadEnd(r)
      BY <1>1, <2>2 DEF ReadEnd, TypeOK
    <2>3. ASSUME NEW i \in Ids, ReadGuest(r, i) PROVE LoopInv'
      BY <1>1, <2>3 DEF ReadGuest, TypeOK
    <2>4. QED BY <2>1, <2>2, <2>3 DEF Reader
  <1>3. QED BY <1>1, <1>2

LEMMA DataStep == TypeOK /\ SemInv /\ DataInv /\ [Next]_vars => DataInv'
  BY QuietStep, SpawnStep, CreateStep, RegisterStep, CheckStep, WaitStep, LoopStep,
     PassStep, ThreadStep, ReadStep DEF Next, Manager

LEMMA InductiveInvariant == Spec => []IInv
  <1>1. Init => SemInv /\ DataInv
    BY ConfigAssumption
    DEF Init, SemInv, DataInv, LoopInv, DictInv, SpawnInv, TrackedInv, SilentInv, Silent,
        NoOrphan, Active, Alive, Registered
  <1>2. TypeOK /\ SemInv /\ DataInv /\ [Next]_vars => SemInv' /\ DataInv'
    BY SemStep, DataStep
  <1>3. IInv <=> TypeOK /\ SemInv /\ DataInv
    BY DEF IInv, DataInv
  <1>4. QED BY <1>1, <1>2, <1>3, TypeCorrect, PTL DEF Spec

-----------------------------------------------------------------------------
(* The theorems. *)

\* No monitor thread is left collecting without the manager knowing it.
THEOREM MonitorsAreTracked == Spec => []NoOrphan
  <1>1. IInv => NoOrphan
    BY DEF IInv, TrackedInv
  <1>2. QED BY <1>1, InductiveInvariant, PTL

\* At no time do two monitors that have not been told to stop collect from
\* the same domain.
THEOREM MonitorsAreUnique == Spec => []OneMonitorPerDomain
  <1>1. IInv => OneMonitorPerDomain
    <2> SUFFICES ASSUME IInv, running, NEW m \in Monitors, NEW n \in Monitors,
                        Active(m), Active(n), dom[m] = dom[n]
                 PROVE  m = n
      BY DEF OneMonitorPerDomain
    <2>1. /\ guests[dom[m]] = m \/ cur = m
          /\ guests[dom[n]] = n \/ cur = n
          /\ dom[m] \in Ids /\ dom[n] \in Ids
      BY DEF IInv, TrackedInv, NoOrphan, Active
    <2>2. ASSUME NEW c \in Monitors, cur = c PROVE guests[dom[c]] = NoMonitor
      BY <2>2 DEF IInv, TypeOK, SpawnInv, Registered
    <2>3. QED BY <2>1, <2>2, ConfigAssumption
  <1>2. QED BY <1>1, InductiveInvariant, PTL

\* Readers of the dictionary see one state of it.
THEOREM ReadersSeeOneState == Spec => []SnapshotOfGuests
  <1>1. IInv => SnapshotOfGuests
    BY DEF IInv, LoopInv, SnapshotOfGuests
  <1>2. QED BY <1>1, InductiveInvariant, PTL

\* Neither the end of the manager thread nor its crash leaves the
\* dictionary locked.
THEOREM SemaphoreIsReleased == Spec => []SemaphoreNotLeaked
  <1>1. IInv => SemaphoreNotLeaked
    BY DEF IInv, SemInv, SemaphoreNotLeaked
  <1>2. QED BY <1>1, InductiveInvariant, PTL

\* A guest with a fatal collector error is not reported again.
THEOREM StoppedIsSilent == Spec => []StoppedNotReported
  <1>1. IInv => StoppedNotReported
    BY DEF IInv, SilentInv, Silent, StoppedNotReported
  <1>2. QED BY <1>1, InductiveInvariant, PTL

\* With vdsmInterface, and collectors that open no file of the qemu process,
\* no answer of the hypervisor ends the multi-thread manager.
THEOREM VdsmManagerSurvives ==
    ASSUME Iface = "vdsm", Weights, ~QemuProc, Threaded
    PROVE  Spec => []ManagerSurvives
  <1>1. Init => ManagerSurvives
    BY DEF Init, ManagerSurvives
  <1>2. IInv /\ ManagerSurvives /\ [Next]_vars => ManagerSurvives'
    <2> SUFFICES ASSUME IInv, ManagerSurvives, [Next]_vars PROVE ManagerSurvives'
      OBVIOUS
    <2> USE DEF ManagerSurvives
    <2>1. CASE Manager
      <3>1. ASSUME NEW i \in Ids, CollectCrash(i) PROVE FALSE
        BY <3>1 DEF CollectCrash, IInv, TrackedInv
      <3>2. ~InfoCrash /\ ~CreateCrash
        BY DEF InfoCrash, CreateCrash, InfoRaises, ConstructorFails
      <3>3. QED
        BY <2>1, <3>1, <3>2
        DEF Manager, EnterLoop, LeaveLoop, Poll, PollFails, Sleep, AfterCheck,
            SpawnList, SpawnDone, InfoOk, InfoNone, IsRunning, RegisterGuest,
            CheckBegin, CheckEnd, CollectBegin, CollectEnd, WaitEnd,
            CreateMonitor, SpawnNext, CheckGuest, CollectGuest, WaitPop
    <2>2. CASE Host \/ UNCHANGED vars
      BY <2>2 DEF Host, Shutdown, StartDomain, EndDomain, vars
    <2>3. CASE \E m \in Monitors : MonitorThread(m)
      BY <2>3 DEF MonitorThread, BeginPass, EndPass, ThreadEnds
    <2>4. CASE \E r \in Readers : Reader(r)
      BY <2>4 DEF Reader, ReadBegin, ReadGuest, ReadEnd
    <2>5. QED BY <2>1, <2>2, <2>3, <2>4 DEF Next
  <1>3. QED BY <1>1, <1>2, InductiveInvariant, PTL DEF Spec

-----------------------------------------------------------------------------
(* What vdsmInterface's manager drops.  From the poll to the end of the    *)
(* check it works on the list of that poll: a poll that fails gives None,  *)
(* which skips the check, where an empty list would drop everybody.        *)
UsesPoll == {"spawnlist", "spawn", "info", "create", "isrunning", "register",
             "check", "checking"}

PolledInv ==
    /\ vdsm \in BOOLEAN /\ running \in BOOLEAN
    /\ guests = [i \in Ids |-> guests[i]]
    /\ vdsm /\ pc \in UsesPoll => domain_list = polled
    /\ vdsm /\ pc \in {"wait", "done"} => ~running

\* A step that leaves the dictionary alone.
LEMMA UntouchedKeeps == UNCHANGED guests => KeepsGuests
  BY DEF KeepsGuests

\* With vdsmInterface a step goes on using the list of the poll, and keeps
\* the working monitors of the guests in it.
LEMMA VdsmStep ==
    ASSUME PolledInv, vdsm, Vdsm!Next, UNCHANGED vdsm
    PROVE  PolledInv' /\ KeepsGuests
  <1> USE DEF PolledInv, UsesPoll
  <1>1. CASE Vdsm!Poll \/ Vdsm!PollFails
    BY <1>1, UntouchedKeeps
    DEF Vdsm!Poll, Vdsm!PollFails, Vdsm!ListOnErrorIsEmpty, Vdsm!AfterCheck
  <1>2. CASE Vdsm!EnterLoop \/ Vdsm!LeaveLoop \/ Vdsm!Sleep \/ Vdsm!SpawnList
             \/ Vdsm!SpawnDone \/ Vdsm!InfoOk \/ Vdsm!InfoNone \/ Vdsm!InfoCrash
             \/ Vdsm!CreateCrash \/ Vdsm!IsRunning
    BY <1>2, UntouchedKeeps
    DEF Vdsm!EnterLoop, Vdsm!LeaveLoop, Vdsm!Sleep, Vdsm!SpawnList, Vdsm!SpawnDone,
        Vdsm!InfoOk, Vdsm!InfoNone, Vdsm!InfoCrash, Vdsm!CreateCrash, Vdsm!IsRunning,
        Vdsm!localVars
  <1>3. CASE Vdsm!CheckBegin \/ Vdsm!CheckEnd \/ Vdsm!CollectBegin
             \/ Vdsm!CollectEnd \/ Vdsm!WaitEnd
    BY <1>3, UntouchedKeeps
    DEF Vdsm!CheckBegin, Vdsm!CheckEnd, Vdsm!CollectBegin, Vdsm!CollectEnd,
        Vdsm!WaitEnd, Vdsm!AfterCheck, Vdsm!localVars
  <1>4. ASSUME NEW m \in Monitors, Vdsm!CreateMonitor(m) \/ Vdsm!MonitorThread(m)
        PROVE  PolledInv' /\ KeepsGuests
    BY <1>4, UntouchedKeeps
    DEF Vdsm!CreateMonitor, Vdsm!MonitorThread, Vdsm!BeginPass, Vdsm!EndPass,
        Vdsm!ThreadEnds, Vdsm!localVars
  <1>5. ASSUME NEW i \in Ids,
               Vdsm!SpawnNext(i) \/ Vdsm!CollectGuest(i) \/ Vdsm!CollectCrash(i)
        PROVE  PolledInv' /\ KeepsGuests
    BY <1>5, UntouchedKeeps
    DEF Vdsm!SpawnNext, Vdsm!CollectGuest, Vdsm!CollectCrash, Vdsm!localVars
  <1>6. CASE Vdsm!RegisterGuest
    <2>1. PolledInv'
      BY <1>6 DEF Vdsm!RegisterGuest
    <2>2. KeepsGuests
      BY <1>6 DEF Vdsm!RegisterGuest, KeepsGuests
    <2>3. QED BY <2>1, <2>2
  <1>7. ASSUME NEW i \in Ids, Vdsm!CheckGuest(i) PROVE PolledInv' /\ KeepsGuests
    <2>1. PolledInv'
      BY <1>7 DEF Vdsm!CheckGuest
    <2>2. KeepsGuests
      BY <1>7 DEF Vdsm!CheckGuest, KeepsGuests
    <2>3. QED BY <2>1, <2>2
  <1>8. ASSUME NEW i \in Ids, Vdsm!WaitPop(i) PROVE PolledInv' /\ KeepsGuests
    <2>1. ~running
      BY <1>8 DEF Vdsm!WaitPop
    <2>2. PolledInv'
      BY <1>8 DEF Vdsm!WaitPop, Vdsm!localVars
    <2>3. QED BY <2>1, <2>2 DEF KeepsGuests
  <1>9. CASE Vdsm!Host
    <2>1. CASE Vdsm!Shutdown
      BY <2>1, UntouchedKeeps DEF Vdsm!Shutdown, Vdsm!localVars
    <2>2. ASSUME NEW i \in Ids, Vdsm!StartDomain(i) \/ Vdsm!EndDomain(i)
          PROVE  PolledInv' /\ KeepsGuests
      BY <2>2, UntouchedKeeps DEF Vdsm!StartDomain, Vdsm!EndDomain, Vdsm!localVars
    <2>3. QED BY <1>9, <2>1, <2>2 DEF Vdsm!Host
  <1>10. CASE \E r \in Readers : Vdsm!Reader(r)
    BY <1>10, UntouchedKeeps
    DEF Vdsm!Reader, Vdsm!ReadBegin, Vdsm!ReadGuest, Vdsm!ReadEnd, Vdsm!localVars
  <1>11. QED
    BY <1>1, <1>2, <1>3, <1>4, <1>5, <1>6, <1>7, <1>8, <1>9, <1>10
    DEF Vdsm!Next, Vdsm!Manager

\* With vdsmInterface the monitor of a guest that ran at the last poll is not
\* dropped while it works and the program runs: no failed call of the
\* hypervisor, and no guest that ends or starts meanwhile, makes it so.
THEOREM VdsmGuestsAreKept == BothSpec => VdsmKeepsGuests
  <1>1. BothInit => (vdsm => PolledInv)
    BY DEF BothInit, Init, PolledInv, UsesPoll
  <1>2. (vdsm => PolledInv) /\ [BothNext]_<<vars, vdsm>> => (vdsm => PolledInv)'
    <2> SUFFICES ASSUME vdsm => PolledInv, [BothNext]_<<vars, vdsm>>, vdsm'
                 PROVE  PolledInv'
      OBVIOUS
    <2>1. CASE BothNext
      BY <2>1, VdsmStep DEF BothNext
    <2>2. CASE UNCHANGED <<vars, vdsm>>
      BY <2>2 DEF PolledInv, vars, localVars
    <2>3. QED BY <2>1, <2>2
  <1>3. (vdsm => PolledInv) /\ [BothNext]_<<vars, vdsm>> => [vdsm => KeepsGuests]_vars
    <2> SUFFICES ASSUME vdsm => PolledInv, [BothNext]_<<vars, vdsm>>, vdsm
                 PROVE  KeepsGuests \/ UNCHANGED vars
      OBVIOUS
    <2>1. QED BY VdsmStep DEF BothNext
  <1>4. QED BY <1>1, <1>2, <1>3, PTL DEF BothSpec, VdsmKeepsGuests
=============================================================================
