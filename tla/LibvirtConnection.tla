------------------------- MODULE LibvirtConnection -------------------------
(***************************************************************************)
(* The one connection of mom/HypervisorInterfaces/libvirtInterface.py,     *)
(* which the guest manager, the monitors' threads and the policy engine    *)
(* share without a lock.  A call looks a domain up on the connection, and  *)
(* then asks the domain; when either fails with one of reconnect_errors,   *)
(* the thread closes the interface's connection, whichever that is by now, *)
(* and opens a new one in its place.                                       *)
(*                                                                         *)
(* Errors that are not about the connection (a domain that is gone, a      *)
(* refused change) leave everything as it is, and have no action here.     *)
(***************************************************************************)
EXTENDS Naturals

CONSTANTS Callers,     \* the threads that use the interface
          MaxFaults    \* bound: how often libvirtd is stopped

VARIABLES libvirtd,    \* is it running?
          connection,  \* self.conn: "none" (None), "open", "broken" or "closed"
          where,       \* thread -> what it does in the interface
          domain,      \* thread -> the state of its domain object's connection
          faults

Init ==
    /\ libvirtd \in BOOLEAN
    /\ connection = IF libvirtd THEN "open" ELSE "none"
    /\ where = [t \in Callers |-> "idle"] /\ domain = [t \in Callers |-> "none"]
    /\ faults = 0

Broken(c) == IF c = "open" THEN "broken" ELSE c

LibvirtdStops ==
    /\ libvirtd /\ faults < MaxFaults /\ faults' = faults + 1
    /\ libvirtd' = FALSE /\ connection' = Broken(connection)
    /\ domain' = [t \in Callers |-> Broken(domain[t])]
    /\ UNCHANGED where

LibvirtdStarts ==
    /\ ~libvirtd /\ libvirtd' = TRUE
    /\ UNCHANGED <<connection, where, domain, faults>>

\* The domain is looked up, or the domains are listed.  Without a connection
\* object, which is what a failure at the start leaves, every call raises an
\* AttributeError and nothing changes.
Lookup(t) ==
    /\ where[t] = "idle"
    /\ \/ connection = "none" /\ UNCHANGED <<where, domain>>
       \/ /\ connection = "open" /\ where' = [where EXCEPT ![t] = "use"]
          /\ domain' = [domain EXCEPT ![t] = "open"]
       \/ /\ connection \in {"broken", "closed"}
          /\ where' = [where EXCEPT ![t] = "close"] /\ UNCHANGED domain
    /\ UNCHANGED <<libvirtd, connection, faults>>

\* _handleException: only an error of the connection leads to a reconnect.
AfterError(c) == IF c = "open" THEN "idle" ELSE "close"

\* Its domain is asked.  The domain object keeps the connection it came from,
\* so that it is not disturbed when another thread closes self.conn.
UseDomain(t) ==
    /\ where[t] = "use" /\ domain' = [domain EXCEPT ![t] = "none"]
    /\ where' = [where EXCEPT ![t] = AfterError(domain[t])]
    /\ UNCHANGED <<libvirtd, connection, faults>>

\* getVmCpuTuneInfo, setVmCpuTune and _getGuaranteedMemory do not hand their
\* errors to _handleException.
UseUnhandled(t) ==
    /\ where[t] = "use" /\ domain[t] # "open"
    /\ domain' = [domain EXCEPT ![t] = "none"] /\ where' = [where EXCEPT ![t] = "idle"]
    /\ UNCHANGED <<libvirtd, connection, faults>>

\* _reconnect: self.conn.close(), with its errors ignored ...
Close(t) ==
    /\ where[t] = "close" /\ where' = [where EXCEPT ![t] = "open"]
    /\ connection' = "closed"
    /\ UNCHANGED <<libvirtd, domain, faults>>

\* ... and _connect: a failed attempt leaves the closed connection, on which
\* the next call fails and tries again.
Open(t) ==
    /\ where[t] = "open" /\ where' = [where EXCEPT ![t] = "idle"]
    /\ connection' = IF libvirtd THEN "open" ELSE connection
    /\ UNCHANGED <<libvirtd, domain, faults>>

Calling(t) == Lookup(t) \/ UseDomain(t) \/ UseUnhandled(t) \/ Close(t) \/ Open(t)
Next == LibvirtdStops \/ LibvirtdStarts \/ \E t \in Callers : Calling(t)
-----------------------------------------------------------------------------
\* When libvirtd runs, the connection is open again and again, if there was
\* one at the start: no reconnect leaves it closed or broken for good, though
\* one thread's reconnect may close what another one's has just opened.
Reconnects == <>[]libvirtd => ([](connection = "none") \/ []<>(connection = "open"))
=============================================================================
