--------------------------- MODULE VdsmInterfaces ---------------------------
(***************************************************************************)
(* The ways to VDSM (mom/HypervisorInterfaces/vdsm*.py) under the guest    *)
(* collectors: "api" calls it in the same process and for every sample,    *)
(* the others keep what they got for CACHE_EXPIRATION, XML-RPC and         *)
(* JSON-RPC each with the guests' IO limits asked for one by one or all at *)
(* once ("bulk"), and "client", which always asks for all.  They differ in *)
(* what a reply looks like, which failures they know, and what they do     *)
(* with a missing part; a collector should not see the difference.         *)
(*                                                                         *)
(* One guest; its numbers are one value.  Threads and clocks: VmStatsCache.*)
(***************************************************************************)
EXTENDS Naturals, FiniteSets

CONSTANTS Wrappers,    \* the interfaces
          Expiration,  \* CACHE_EXPIRATION
          Values,      \* what the guest's numbers can be (strings)
          MaxUpdates,  \* bound: how often the guest changes
          MaxRefusals  \* bound: failing calls

VARIABLES wrapper,     \* the interface in use
          guest,       \* what VDSM says of the guest
          updates, refusals,   \* how much of the bounds is used up
          stats,       \* getAllVmStats: [age, vm]
          tune,        \* getAllVmIoTunePolicies: [age, vms], vms an Optional
          policy,      \* GuestIoTune has got a policy, and asks for the limits
          last,        \* history: what the last collector returned
          seen         \* history: second, backwards -> what VDSM has said in it

NoGuest == [none |-> TRUE]
Failed == [failed |-> TRUE]
Full == [memory |-> "ok", balloon |-> {"max", "min", "cur", "target"},
         cpu |-> "ok", io |-> "ok", value |-> "old"]
\* The guest may be complete or lack one thing: memUsage is "0" without the
\* guest's agent, memoryStats is empty with an old one; keys may be missing.
GuestsWith(v) ==
    LET V == [Full EXCEPT !.value = v] IN
    {V, [V EXCEPT !.cpu = "absent"]}
    \cup {[V EXCEPT !.memory = m] : m \in {"off", "empty", "absent"}}
    \cup {[V EXCEPT !.balloon = b] : b \in {{}, {"absent"}}}
    \cup {[V EXCEPT !.io = i] : i \in {"empty", "absent"}}
Guests == {NoGuest} \cup UNION {GuestsWith(v) : v \in Values}

BalloonKeys == {"max", "min", "cur"}

\* Optional: a value that may be missing.
Missing == [present |-> FALSE]
Optional(v) == [present |-> TRUE, value |-> v]
OrNone(o) == IF o.present THEN o.value ELSE "None"

-----------------------------------------------------------------------------
(* VdsmRpcBase, on what getAllVmStats has *)
\* Deviation: the guest agent that is not active is not noticed.
AnyMemoryStats(vm) == IF vm.memory \in {"ok", "off"} THEN vm.value ELSE "KeyError"

MemoryStats(vm) ==
    CASE vm.memory = "ok" -> vm.value
      [] vm.memory = "absent" -> "KeyError"
      [] vm.memory \in {"off", "empty"} -> "HypervisorInterfaceError"

\* The keys nobody asked for are deleted in the cached dictionary itself.
Stripped(vm) == [vm EXCEPT !.balloon = @ \cap BalloonKeys]
BalloonInfo(vm) ==
    IF Stripped(vm).balloon = BalloonKeys THEN vm.value ELSE "None"
CpuTuneInfo(vm) == IF vm.cpu = "absent" THEN "None" ELSE vm.value

(* vdsmInterface, on a reply of its own *)
Refused(r) == r \in {Failed, NoGuest}
ApiMemoryStats(r) == IF Refused(r) THEN "HypervisorInterfaceError" ELSE MemoryStats(r)
ApiBalloonInfo(r) == CASE Refused(r) -> "None"
                       [] ~Refused(r) /\ r.balloon = {"absent"} -> "KeyError"
                       [] OTHER -> BalloonInfo(r)
ApiCpuTuneInfo(r) == IF Refused(r) THEN "None" ELSE CpuTuneInfo(r)

-----------------------------------------------------------------------------
(* The failures each interface knows: a refused connection, an error code  *)
(* in the reply, no reply at all.  Another one leaves the call unchanged.  *)
Kinds == {"connection", "code", "silence"}
Handled == CASE wrapper \in {"xmlrpc", "xmlbulk"} -> {"connection", "code"}
             [] wrapper \in {"jsonrpc", "jsonbulk"} -> Kinds
             [] wrapper \in {"client", "api"} -> {"code"}

\* VDSM is asked: it answers, or the call fails, which the history remembers.
Answers == UNCHANGED <<refusals, seen>>
Fails == /\ refusals < MaxRefusals /\ refusals' = refusals + 1
         /\ seen' = [seen EXCEPT ![0] = @ \cup {Failed}]

Fresh(c) == c.age <= Expiration
Stale == Expiration + 1
Nothing == [age |-> Stale, vm |-> NoGuest]
NoPolicies == [age |-> Stale, vms |-> Missing]

NoReport == [group |-> "none", result |-> "nothing"]
\* What a collector hands to the monitor: nothing for None, and for an
\* exception, which GuestMemory or the monitor itself takes.
Report(g, r) == last' = [group |-> g, result |-> IF r \in Values THEN r ELSE "nothing"]

Init ==
    /\ wrapper \in Wrappers /\ guest \in {NoGuest} \cup GuestsWith("old")
    /\ updates = 0 /\ refusals = 0 /\ policy = FALSE
    /\ stats = Nothing /\ tune = NoPolicies
    /\ last = NoReport
    /\ seen = [s \in 0 .. Expiration |-> {guest}]

GuestChanges ==
    /\ updates < MaxUpdates /\ updates' = updates + 1
    /\ guest' \in Guests \ {guest} /\ seen' = [seen EXCEPT ![0] = @ \cup {guest'}]
    /\ last' = NoReport
    /\ UNCHANGED <<wrapper, refusals, stats, tune, policy>>

\* A second passes.  What has expired is not used again, and forgotten here.
Older(c, none) == IF c.age >= Expiration THEN none ELSE [c EXCEPT !.age = @ + 1]
Second ==
    /\ seen' = [s \in 0 .. Expiration |-> IF s = 0 THEN {guest} ELSE seen[s - 1]]
    /\ stats' = Older(stats, Nothing) /\ tune' = Older(tune, NoPolicies)
    /\ last' = NoReport
    /\ UNCHANGED <<wrapper, guest, updates, refusals, policy>>

\* getAllVmStats, memoized, gives c: an empty dictionary for a failure that is
\* handled; another is raised (StatsRaise), and nothing is kept.
GetAllVmStats(c) ==
    \/ Fresh(stats) /\ c = stats /\ Answers
    \/ ~Fresh(stats) /\ c = [age |-> 0, vm |-> guest] /\ Answers
    \/ ~Fresh(stats) /\ c = [age |-> 0, vm |-> NoGuest] /\ Fails
StatsRaise == ~Fresh(stats) /\ Handled # Kinds /\ Fails

\* GuestMemory, GuestBalloon and GuestCpuTune over the cache.
OfCached(g, vm) ==
    CASE vm = NoGuest -> "HypervisorInterfaceError"        \* _getVmStats
      [] vm # NoGuest /\ g = "memory" -> MemoryStats(vm)
      [] vm # NoGuest /\ g = "balloon" -> BalloonInfo(vm)
      [] vm # NoGuest /\ g = "cpu" -> CpuTuneInfo(vm)
Cached(g, c) ==
    IF g = "balloon" /\ c.vm # NoGuest THEN [c EXCEPT !.vm = Stripped(@)] ELSE c
CollectCached(g) ==
    /\ wrapper # "api" /\ ~policy
    /\ \/ \E c \in {stats} \cup {[age |-> 0, vm |-> v] : v \in {guest, NoGuest}} :
              GetAllVmStats(c) /\ Report(g, OfCached(g, c.vm)) /\ stats' = Cached(g, c)
       \/ StatsRaise /\ Report(g, "KeyError") /\ UNCHANGED stats
    /\ UNCHANGED <<wrapper, guest, updates, tune, policy>>

OfApi(g, r) == CASE g = "memory" -> ApiMemoryStats(r) [] g = "balloon" -> ApiBalloonInfo(r)
                 [] g = "cpu" -> ApiCpuTuneInfo(r)
CollectApi(g) ==
    /\ wrapper = "api" /\ ~policy
    /\ \/ Answers /\ Report(g, OfApi(g, guest))
       \/ Fails /\ Report(g, OfApi(g, Failed))
    /\ UNCHANGED <<wrapper, guest, updates, stats, tune, policy>>

-----------------------------------------------------------------------------
(* GuestIoTune asks for the policy, and if there is one for the limits.    *)
\* An empty or missing list ends the collection, a policy leads to the limits.
IoTune(r) ==
    IF ~policy /\ r \in Values
    THEN policy' = TRUE /\ last' = NoReport
    ELSE policy' = FALSE /\ Report("io", r)

\* One by one, without a cache: result.get(key, []).
Listed(vm) == IF vm # NoGuest /\ vm.io = "ok" THEN vm.value ELSE "None"
GetIoTune ==
    /\ wrapper \in {"xmlrpc", "jsonrpc"}
    /\ \/ Answers /\ IoTune(Listed(guest))
       \/ Fails /\ IoTune("None")
    /\ UNCHANGED <<wrapper, guest, updates, stats, tune>>

\* All at once, memoized: the guest may not be in the dictionary.
InPolicies(vm) == vm # NoGuest /\ vm.io # "absent"
\* optional[vmId]['policy']: a key that is missing makes a missing value.
Item(o) == IF o.present /\ InPolicies(o.value) THEN Optional(Listed(o.value)) ELSE Missing
OfPolicies(o) == OrNone(Item(o))

\* A failure: the JSON-RPC interfaces keep the missing answer, and that of
\* XML-RPC raises, for Optional has no empty().
Bulk == {"jsonbulk", "client", "xmlbulk"}
GetAllIoTune ==
    /\ wrapper \in Bulk
    /\ \/ /\ Fresh(tune) /\ Answers /\ IoTune(OfPolicies(tune.vms)) /\ UNCHANGED tune
       \/ /\ ~Fresh(tune) /\ Answers
          /\ tune' = [age |-> 0, vms |-> Optional(guest)]
          /\ IoTune(OfPolicies(Optional(guest)))
       \/ /\ ~Fresh(tune) /\ Fails /\ wrapper # "xmlbulk"
          /\ tune' = [age |-> 0, vms |-> Missing] /\ IoTune(OfPolicies(Missing))
       \/ /\ ~Fresh(tune) /\ Fails /\ (wrapper = "xmlbulk" \/ Handled # Kinds)
          /\ IoTune("KeyError") /\ UNCHANGED tune
    /\ UNCHANGED <<wrapper, guest, updates, stats>>

Next ==
    \/ GuestChanges \/ Second \/ GetIoTune \/ GetAllIoTune
    \/ \E g \in {"memory", "balloon", "cpu"} : CollectCached(g) \/ CollectApi(g)

Spec == Init /\ [][Next]_<<wrapper, guest, updates, refusals, stats, tune, policy, last, seen>>
-----------------------------------------------------------------------------
\* What VDSM's statement s says to a collector.
Says(s, g) ==
    IF s \in {NoGuest, Failed} THEN "nothing"
    ELSE CASE g = "memory" -> IF s.memory = "ok" THEN s.value ELSE "nothing"
           [] g = "balloon" -> IF BalloonKeys \subseteq s.balloon THEN s.value ELSE "nothing"
           [] g = "cpu" -> IF s.cpu = "ok" THEN s.value ELSE "nothing"
           [] g = "io" -> IF s.io = "ok" THEN s.value ELSE "nothing"

\* Whichever interface is used: what a collector reports is what VDSM says of
\* the guest, or said not longer ago than CACHE_EXPIRATION, and it reports
\* nothing only if VDSM said nothing then, or could not be asked.
SampleIsVdsms ==
    last.group # "none" =>
        last.result \in {Says(s, last.group) : s \in UNION {seen[k] : k \in 0 .. Expiration}}
=============================================================================
