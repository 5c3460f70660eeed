------------------------------- MODULE Edges -------------------------------
(***************************************************************************)
(* The program's edges side by side: a guest's agent, a guest's daemon,    *)
(* the cache before VDSM, the connection to libvirt, the controllers       *)
(* behind the policy.  They share no state -- a fault counter apart --, so *)
(* that one of them, part, moves in a behaviour and the others stay.       *)
(***************************************************************************)
EXTENDS Integers, Sequences

CONSTANTS Wrap, MaxHandles, Collectors, NoAddress, Threads, Expiration, SetBacks,
          MaxTime, Settings, MaxChanges, Callers, MaxFaults

\* The numbers and the names of no thread and no connection are apart from the
\* rest.  A sync number does not come again while its first use can be in the
\* channel: two collect() may go by with each fault, and one at the start.
ASSUME EdgesAssumption ==
    /\ MaxFaults \in Nat /\ MaxHandles \in Nat
    /\ Wrap \in Nat /\ Wrap > 2 * MaxFaults + 1
    /\ "none" \notin Collectors /\ "left" \notin Collectors
    /\ "none" \notin Threads /\ Expiration \in Nat /\ SetBacks \subseteq Nat

VARIABLES
    at, step, agent, sock, fh, texts, seconds, requests, answers, handles, mine,
    result, splits,
    state, doing, socket, msg, ended, asked, reply, closed, backlog, conn, up,
    real, clock, setBack, inside, now, began, lock, cache, timestamp, age, called, gap,
    goal, actual, cpuCache, ioCache, sample, shared, snap, cur, turn, ksmLost, changes,
    libvirtd, connection, where, domain,
    faults, part

Agent == INSTANCE QemuAgent
Daemon == INSTANCE GuestDaemon
Cache == INSTANCE VmStatsCache
Control == INSTANCE Controllers
Libvirt == INSTANCE LibvirtConnection

agentVars == <<at, step, agent, sock, fh, texts, seconds, requests, answers, handles,
               mine, result, splits>>
daemonVars == <<state, doing, socket, msg, ended, asked, reply, closed, backlog, conn, up>>
cacheVars == <<real, clock, setBack, inside, now, began, lock, cache, timestamp, age,
               called, gap>>
controlVars == <<goal, actual, cpuCache, ioCache, sample, shared, snap, cur, turn,
                 ksmLost, changes>>
libvirtVars == <<libvirtd, connection, where, domain>>
vars == <<agentVars, daemonVars, cacheVars, controlVars, libvirtVars, faults, part>>

Init ==
    /\ part \in {"agent", "daemon", "cache", "control", "libvirt"}
    /\ Agent!Init /\ Daemon!Init /\ Cache!Init /\ Control!Init /\ Libvirt!Init
    /\ part # "agent" => answers = <<>> /\ ~splits
    /\ part # "libvirt" => libvirtd

Others(p) ==
    /\ part = p
    /\ p # "agent" => UNCHANGED agentVars
    /\ p # "daemon" => UNCHANGED daemonVars
    /\ p # "cache" => UNCHANGED cacheVars
    /\ p # "control" => UNCHANGED controlVars
    /\ p # "libvirt" => UNCHANGED libvirtVars
    /\ UNCHANGED part

Next ==
    \/ Others("agent") /\ Agent!Next
    \/ Others("daemon") /\ Daemon!Next
    \/ Others("cache") /\ Cache!Next /\ UNCHANGED faults
    \/ Others("control") /\ Control!Next
    \/ Others("libvirt") /\ Libvirt!Next

\* The fairness of the modules: since only one part moves, a disjunction stands
\* for one step of each.
First ==
    \/ Others("agent") /\ Agent!Client
    \/ Others("daemon") /\ Daemon!Server
    \/ Others("control") /\ Control!Round
    \/ Others("libvirt") /\ (\E t \in Callers : Libvirt!Calling(t))
Second ==
    \/ Others("agent") /\ Agent!AgentAnswers
    \/ Others("daemon") /\ (\E c \in Collectors : Daemon!Collecting(c))
    \/ Others("control") /\ Control!CollectGuest
Expiry(A) == Others("control") /\ A

Fairness ==
    /\ WF_vars(First) /\ WF_vars(Second)
    /\ WF_vars(Expiry(Control!ExpireCpu)) /\ WF_vars(Expiry(Control!ExpireIo))
Spec == Init /\ [][Next]_vars /\ Fairness
-----------------------------------------------------------------------------
(* The properties of the parts, see the modules. *)

\* QemuGuestAgentClient: no answer is taken for the answer to another request.
AgentInStep == part = "agent" => Agent!InStep

\* GuestQemuAgent.getfile: a collect() that reports leaves no file open, unless a
\* line has been cut in two.
NoHandleLeft == part = "agent" => Agent!NoHandleLeft

\* GuestNetworkDaemon.collect: nothing of an earlier answer is before a question.
NothingLeftOver == part = "daemon" => Daemon!NothingLeftOver

\* memoize: how old an answer can be.
AgeBounded == part = "cache" => Cache!AgeBounded

\* A guest whose agent or daemon answers is collected from again, after any
\* failures and with any connections left behind; and the connection to libvirt
\* comes back when libvirtd does.
CollectsAgain ==
    /\ part = "agent" => Agent!CollectsAgain
    /\ part = "daemon" => Daemon!LastOneIsServed
    /\ part = "libvirt" => Libvirt!Reconnects

\* The controllers set what the policy wants, and then come to rest.
ControlSettles == part = "control" => Control!Settles /\ Control!CallsEnd
=============================================================================
