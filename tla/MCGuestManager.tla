--------------------------- MODULE MCGuestManager ---------------------------
(***************************************************************************)
(* Two configurations of the guest manager for TLC: the one the constants  *)
(* give, single-thread mode with libvirt and the default collectors, where *)
(* exceptions do end the manager thread; and multi-thread mode with        *)
(* vdsmInterface.                                                          *)
(***************************************************************************)
EXTENDS GuestManager, TLC

VARIABLE vdsm   \* does this behaviour belong to the second configuration?

Vdsm == INSTANCE GuestManager WITH Threaded <- TRUE, Iface <- "vdsm", QemuProc <- FALSE

BothInit == Init /\ vdsm \in BOOLEAN

BothNext == \/ ~vdsm /\ Next /\ UNCHANGED vdsm
            \/ vdsm /\ Vdsm!Next /\ UNCHANGED vdsm

BothSpec == BothInit /\ [][BothNext]_<<vars, vdsm>>

\* An action of the configuration that the behaviour belongs to.
Either(A, B) == ((~vdsm /\ A) \/ (vdsm /\ B)) /\ UNCHANGED vdsm

\* Fairness of GuestManager, in both configurations.
BothFairness ==
    /\ WF_vars(Either(Manager, Vdsm!Manager))
    /\ SF_vars(Either(SpawnList, Vdsm!SpawnList))
    /\ SF_vars(Either(RegisterGuest, Vdsm!RegisterGuest))
    /\ SF_vars(Either(CheckBegin, Vdsm!CheckBegin))
    /\ SF_vars(Either(CollectBegin, Vdsm!CollectBegin))
    /\ SF_vars(Either(WaitEnd, Vdsm!WaitEnd))
    /\ SF_vars(\E i \in Ids : Either(WaitPop(i), Vdsm!WaitPop(i)))
    /\ \A m \in Monitors : WF_vars(Either(MonitorThread(m), Vdsm!MonitorThread(m)))
    /\ \A r \in Readers :
          WF_vars(\/ Either(ReadEnd(r), Vdsm!ReadEnd(r))
                  \/ \E i \in Ids : Either(ReadGuest(r, i), Vdsm!ReadGuest(r, i)))

BothFair == BothSpec /\ BothFairness

\* Multi-thread mode with vdsmInterface survives every answer of the hypervisor.
VdsmSurvives == vdsm => ManagerSurvives

\* With vdsmInterface a guest whose domain ran when the manager polled is not
\* dropped while its monitor works.
VdsmKeepsGuests == [][vdsm => KeepsGuests]_vars

\* In multi-thread mode a monitor that has been told to stop leaves the dictionary.
VdsmStoppedRemoved == vdsm => StoppedMonitorsRemoved

Symmetric == Permutations(Monitors) \cup Permutations(Ids)
=============================================================================
