----------------------------- MODULE MomDaemon -----------------------------
(***************************************************************************)
(* The life of the program: MOM.run of mom/__init__.py makes the threads,  *)
(* watches them, and shuts down; every thread polls the running flag; the  *)
(* RPC server has a handshake of its own; anybody (the signal handler of   *)
(* momd, the program that embeds MOM) may call shutdown() at any time.     *)
(*                                                                         *)
(* What a thread does in a round is the subject of the other modules: here *)
(* a round ends, or its thread crashes.                                    *)
(* What the configuration decides (is the RPC server enabled, does the     *)
(* guest manager use threads) is left open.                                *)
(***************************************************************************)
EXTENDS Naturals

CONSTANT MaxFaults      \* bound on failures
ASSUME DaemonAssumption == MaxFaults \in Nat

Workers == {"host_monitor", "guest_manager", "policy_engine"}

VARIABLES running,    \* config ('__int__', 'running') = '1'
          main,       \* where the thread in MOM.run is
          thread,     \* where each worker is; "none" before start()
          rpc,        \* where the RPC server's thread is
          server,     \* RPCServer.server is not None
          request,    \* BaseServer: __shutdown_request
          is_down,    \* BaseServer: __is_shut_down
          asked,      \* history: shutdown() has been called
          lateActs,   \* history: controls since running was last cleared
          faults      \* failures so far

mainVars == <<running, main, asked>>
rpcVars == <<rpc, server, request, is_down>>
vars == <<mainVars, rpcVars, thread, lateActs, faults>>

Alive(t) == thread[t] \notin {"none", "dead"}
RpcAlive == rpc \notin {"none", "dead"}

Init ==
    /\ running = FALSE /\ main = "validate" /\ asked = FALSE
    /\ thread = [t \in Workers |-> "none"]
    /\ rpc = "none" /\ server = FALSE /\ request = FALSE /\ is_down = FALSE
    /\ lateActs = 0 /\ faults = 0

Fault == faults < MaxFaults /\ faults' = faults + 1

-----------------------------------------------------------------------------
(* MOM.run. *)

Main(from, to) == main = from /\ main' = to /\ UNCHANGED asked

\* The configuration is valid.
Start ==
    /\ Main("validate", "monitor") /\ running' = TRUE
    /\ UNCHANGED <<rpcVars, thread, lateActs, faults>>

\* The constructor starts the host monitor, unless a collector is missing.
MakeHostMonitor ==
    /\ Main("monitor", "interface")
    /\ \/ thread' = [thread EXCEPT !["host_monitor"] = "test"] /\ UNCHANGED faults
       \/ Fault /\ UNCHANGED thread
    /\ UNCHANGED <<running, rpcVars, lateActs>>

\* Without an interface shutdown() is called, and the start goes on.
GetInterface ==
    /\ Main("interface", "guests")
    /\ \/ UNCHANGED <<running, faults>>
       \/ Fault /\ running' = FALSE
    /\ UNCHANGED <<rpcVars, thread, lateActs>>

MakeGuestManager ==
    /\ Main("guests", "engine")
    /\ thread' = [thread EXCEPT !["guest_manager"] = "test"]
    /\ UNCHANGED <<running, rpcVars, lateActs, faults>>

MakePolicyEngine ==
    /\ Main("engine", "server")
    /\ thread' = [thread EXCEPT !["policy_engine"] = "test"]
    /\ UNCHANGED <<running, rpcVars, lateActs, faults>>

MakeRpcServer ==
    /\ Main("server", "test") /\ rpc' = "create"
    /\ UNCHANGED <<running, server, request, is_down, thread, lateActs, faults>>

\* A constructor raises: run() returns, the flag and the threads remain.
InitFails ==
    /\ \E p \in {"validate", "monitor", "interface", "guests", "engine"} : Main(p, "failed")
    /\ Fault
    /\ UNCHANGED <<running, rpcVars, thread, lateActs>>

\* The main loop; it sleeps between the test and the checks.
TestRunning ==
    /\ \/ running /\ Main("test", "threads")
       \/ ~running /\ Main("test", "stop")
    /\ UNCHANGED <<running, rpcVars, thread, lateActs, faults>>

\* Deviation: only the threads that collect are checked.
CheckCollectors ==
    /\ Main("threads", "rpc")
    /\ running' = (running /\ \A t \in Workers \ {"policy_engine"} : Alive(t))
    /\ UNCHANGED <<rpcVars, thread, lateActs, faults>>

\* _threads_ok.  Nothing revives a dead thread: to read one after the other is
\* to read all at once.
CheckThreads ==
    /\ Main("threads", "rpc")
    /\ running' = (running /\ \A t \in Workers : Alive(t))
    /\ UNCHANGED <<rpcVars, thread, lateActs, faults>>

\* thread_ok: a server that has not been made counts as disabled.
CheckRpc ==
    /\ Main("rpc", "test")
    /\ running' = (running /\ (~server \/ RpcAlive))
    /\ UNCHANGED <<rpcVars, thread, lateActs, faults>>

\* RPCServer.shutdown: BaseServer.shutdown sets its request and then waits.
StopServer ==
    /\ \/ server /\ Main("stop", "wait") /\ request' = TRUE
       \/ ~server /\ Main("stop", "join_rpc") /\ UNCHANGED request
    /\ UNCHANGED <<running, rpc, server, is_down, thread, lateActs, faults>>

WaitForServer ==
    /\ is_down /\ Main("wait", "join_rpc")
    /\ UNCHANGED <<running, rpcVars, thread, lateActs, faults>>

\* Each join ends because the thread does, or because of its time-out.
Join ==
    /\ \/ Main("join_rpc", "join_engine") \/ Main("join_engine", "join_guests")
       \/ Main("join_guests", "join_host") \/ Main("join_host", "returned")
    /\ UNCHANGED <<running, rpcVars, thread, lateActs, faults>>

\* shutdown(), by a signal's handler or by the owner of the object.
Shutdown ==
    /\ main \notin {"failed", "returned"}
    /\ running' = FALSE /\ asked' = TRUE
    /\ UNCHANGED <<main, rpcVars, thread, lateActs, faults>>

MainThread ==
    \/ Start \/ MakeHostMonitor \/ GetInterface \/ MakeGuestManager
    \/ MakePolicyEngine \/ MakeRpcServer \/ TestRunning \/ CheckThreads
    \/ CheckRpc \/ StopServer \/ WaitForServer \/ Join

-----------------------------------------------------------------------------
(* The worker threads. *)

Goes(t, from, to) == thread[t] = from /\ thread' = [thread EXCEPT ![t] = to]

\* Deviation: a thread does not look at the flag.
TestAlways(t) ==
    /\ Goes(t, "test", "round")
    /\ UNCHANGED <<mainVars, rpcVars, lateActs, faults>>

\* The head of the loop: while running = 1.
TestFlag(t) ==
    /\ \/ running /\ Goes(t, "test", "round")
       \/ ~running /\ Goes(t, "test", "dead")
       \/ ~running /\ t = "guest_manager" /\ Goes(t, "test", "wait")
    /\ UNCHANGED <<mainVars, rpcVars, lateActs, faults>>

\* Deviation: the next round begins without a look at the flag.
ActAgain ==
    /\ Goes("policy_engine", "act", "round")
    /\ lateActs' = IF running THEN 0 ELSE lateActs + 1
    /\ UNCHANGED <<mainVars, rpcVars, faults>>

\* do_controls calls the controllers, if there is a host sample and the policy
\* could be evaluated.
Act ==
    /\ Goes("policy_engine", "act", "test")
    /\ lateActs' = IF running THEN 0 ELSE lateActs + 1
    /\ UNCHANGED <<mainVars, rpcVars, faults>>

EndRound(t) ==
    /\ \/ Goes(t, "round", "test")
       \/ t = "policy_engine" /\ Goes(t, "round", "act")
    /\ UNCHANGED <<mainVars, rpcVars, lateActs, faults>>

\* _wait_for_guest_monitors.
EndWait ==
    /\ Goes("guest_manager", "wait", "dead")
    /\ UNCHANGED <<mainVars, rpcVars, lateActs, faults>>

\* An exception ends the thread, also before its first round; so does a fatal error of a host collector.
Crash(t) ==
    /\ Fault
    /\ \E p \in {"test", "round", "act", "wait"} : Goes(t, p, "dead")
    /\ UNCHANGED <<mainVars, rpcVars, lateActs>>

Worker(t) == TestFlag(t) \/ EndRound(t)

-----------------------------------------------------------------------------
(* The thread of the RPC server. *)

\* create_server: the server is bound, disabled, or cannot be bound.
CreateServer ==
    /\ rpc = "create"
    /\ \/ server' = TRUE /\ rpc' = "made"
       \/ rpc' = "dead" /\ UNCHANGED server
    /\ UNCHANGED <<mainVars, request, is_down, thread, lateActs, faults>>

\* Deviation: a request that came before the loop is forgotten.
ServeResets ==
    /\ rpc = "made" /\ rpc' = "serve" /\ is_down' = FALSE /\ request' = FALSE
    /\ UNCHANGED <<mainVars, server, thread, lateActs, faults>>

\* serve_forever of BaseServer.
Serve ==
    /\ rpc = "made" /\ rpc' = "serve" /\ is_down' = FALSE
    /\ UNCHANGED <<mainVars, server, request, thread, lateActs, faults>>

BeginCall ==
    /\ rpc = "serve" /\ ~request /\ rpc' = "call"
    /\ UNCHANGED <<mainVars, server, request, is_down, thread, lateActs, faults>>

EndCall ==
    /\ rpc = "call" /\ rpc' = "serve"
    /\ UNCHANGED <<mainVars, server, request, is_down, thread, lateActs, faults>>

\* The loop ends because of the request, or because waiting for calls failed.
EndServe ==
    /\ rpc = "serve" /\ rpc' = "dead"
    /\ \/ request /\ UNCHANGED faults
       \/ Fault
    /\ request' = FALSE /\ is_down' = TRUE
    /\ UNCHANGED <<mainVars, server, thread, lateActs>>

RpcThread == CreateServer \/ Serve \/ EndCall \/ (request /\ EndServe)

Next ==
    \/ MainThread \/ InitFails \/ Shutdown
    \/ \E t \in Workers : Worker(t) \/ Crash(t)
    \/ Act \/ EndWait
    \/ CreateServer \/ Serve \/ BeginCall \/ EndCall \/ EndServe

Spec == Init /\ [][Next]_vars

(* All threads run; a round, a wait and a call end (the semaphores they take *)
(* are released again: see Monitor, GuestManager and PolicyStore).           *)
Fairness ==
    /\ WF_vars(MainThread) /\ WF_vars(RpcThread)
    /\ \A t \in Workers : WF_vars(Worker(t))
    /\ WF_vars(Act) /\ WF_vars(EndWait)

FairSpec == Spec /\ Fairness
-----------------------------------------------------------------------------
Loop == {"test", "threads", "rpc"}
Joins == {"join_rpc", "join_engine", "join_guests", "join_host"}
Starting == {"validate", "monitor", "interface", "guests", "engine", "server"}
Places == Starting \cup Loop \cup Joins \cup {"stop", "wait", "returned", "failed"}

\* Types; a server is there once its thread has made it, and a thread once the
\* main thread has.
TypeOK ==
    /\ running \in BOOLEAN /\ asked \in BOOLEAN
    /\ server \in BOOLEAN /\ request \in BOOLEAN /\ is_down \in BOOLEAN
    /\ main \in Places
    /\ thread \in [Workers -> {"none", "test", "round", "act", "wait", "dead"}]
    /\ rpc \in {"none", "create", "made", "serve", "call", "dead"}
    /\ lateActs \in Nat /\ faults \in 0..MaxFaults
    /\ server => rpc \notin {"none", "create"}
    /\ main \in Starting => rpc = "none"
    /\ main \in {"validate", "monitor"} => thread = [t \in Workers |-> "none"]

\* Once the flag is cleared the guests are touched at most once more, by the
\* control step that was under way, however late its thread is.
AtMostOneMoreControl == lateActs <= 1

\* A worker that dies stops the program: run() returns.
DeadThreadEndsRun ==
    (main \in Loop /\ \E t \in Workers : ~Alive(t)) ~> main = "returned"

\* The RPC server's handshake does not hang: run() returns after a shutdown,
\* at whatever stage the server is.
ShutdownReturns == (main \in Loop /\ ~running) ~> main = "returned"

\* When run() has returned, every worker ends, although it has only been
\* waited for with a time-out.
WorkersEnd == main = "returned" ~> \A t \in Workers : ~Alive(t)

\* momd, signal_quit: "Caught signal -- shutting down".
SignalShutsDown == asked ~> main \in {"returned", "failed"}
=============================================================================
