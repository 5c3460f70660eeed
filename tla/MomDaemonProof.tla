--------------------------- MODULE MomDaemonProof ---------------------------
(* Theorems about MomDaemon, for any number of failures. *)
EXTENDS MomDaemon, TLAPS

LEMMA TypeInit == Init => TypeOK
  <1> SUFFICES ASSUME Init PROVE TypeOK
    OBVIOUS
  <1>1. /\ running \in BOOLEAN /\ asked \in BOOLEAN /\ ~server
        /\ server \in BOOLEAN /\ request \in BOOLEAN /\ is_down \in BOOLEAN
    BY DEF Init
  <1>2. /\ thread \in [Workers -> {"none", "test", "round", "act", "wait", "dead"}]
        /\ thread = [t \in Workers |-> "none"]
    BY DEF Init
  <1>3. /\ rpc \in {"none", "create", "made", "serve", "call", "dead"}
        /\ main \in Places /\ rpc = "none"
    BY DEF Init, Places, Starting
  <1>4. lateActs \in Nat /\ faults \in 0..MaxFaults
    BY DaemonAssumption DEF Init
  <1>5. QED BY <1>1, <1>2, <1>3, <1>4 DEF TypeOK

\* The steps of the thread in MOM.run.
LEMMA MainStep == ASSUME TypeOK, MainThread \/ InitFails \/ Shutdown PROVE TypeOK'
  <1> USE DaemonAssumption
  <1>1. running' \in BOOLEAN /\ asked' \in BOOLEAN
    BY DEF TypeOK, Main, MainThread, InitFails, Shutdown, Start, MakeHostMonitor,
       GetInterface, MakeGuestManager, MakePolicyEngine, MakeRpcServer, TestRunning,
       CheckThreads, CheckRpc, StopServer, WaitForServer, Join
  <1>2. /\ main' \in Places
        /\ main' \in {"validate", "monitor"} =>
              main \in {"validate", "monitor"} /\ thread' = thread
        /\ main' \in Starting => main \in Starting /\ rpc' = rpc
    BY DEF TypeOK, Main, rpcVars, Starting, MainThread, InitFails, Shutdown, Start, MakeHostMonitor,
       GetInterface, MakeGuestManager, MakePolicyEngine, MakeRpcServer, TestRunning,
       CheckThreads, CheckRpc, StopServer, WaitForServer, Join, Places, Loop, Joins
  <1>3. thread' \in [Workers -> {"none", "test", "round", "act", "wait", "dead"}]
    BY DEF TypeOK, MainThread, InitFails, Shutdown, Start, MakeHostMonitor,
       GetInterface, MakeGuestManager, MakePolicyEngine, MakeRpcServer, TestRunning,
       CheckThreads, CheckRpc, StopServer, WaitForServer, Join, Workers
  <1>4. /\ server' = server /\ is_down' = is_down
        /\ \/ request' = request
           \/ request' = TRUE
        /\ \/ rpc' = rpc
           \/ main = "server" /\ rpc' = "create"
    BY DEF MainThread, InitFails, Shutdown, Start, MakeHostMonitor, rpcVars,
       GetInterface, MakeGuestManager, MakePolicyEngine, MakeRpcServer, TestRunning,
       CheckThreads, CheckRpc, StopServer, WaitForServer, Join, Main
  <1>5. lateActs' \in Nat /\ faults' \in 0..MaxFaults
    BY DEF TypeOK, Fault, MainThread, InitFails, Shutdown, Start, MakeHostMonitor,
       GetInterface, MakeGuestManager, MakePolicyEngine, MakeRpcServer, TestRunning,
       CheckThreads, CheckRpc, StopServer, WaitForServer, Join
  <1>6. server' \in BOOLEAN /\ request' \in BOOLEAN /\ is_down' \in BOOLEAN
    BY <1>4 DEF TypeOK
  <1>7. rpc' \in {"none", "create", "made", "serve", "call", "dead"}
    BY <1>4 DEF TypeOK
  <1>8. server' => rpc' \notin {"none", "create"}
    BY <1>4 DEF TypeOK, Starting
  <1>9. QED
    BY <1>1, <1>2, <1>3, <1>5, <1>6, <1>7, <1>8 DEF TypeOK

\* The steps of the workers.
LEMMA WorkerStep ==
    ASSUME TypeOK, NEW t \in Workers, Worker(t) \/ Crash(t) \/ Act \/ EndWait
    PROVE  TypeOK'
  <1> USE DaemonAssumption DEF TypeOK, Goes, Fault, mainVars, rpcVars
  <1>1. main \notin {"validate", "monitor"}
    BY DEF Worker, TestFlag, EndRound, Crash, Act, EndWait, Workers
  <1>2. thread' \in [Workers -> {"none", "test", "round", "act", "wait", "dead"}]
    BY DEF Worker, TestFlag, EndRound, Crash, Act, EndWait
  <1>3. /\ UNCHANGED <<running, main, asked, rpc, server, request, is_down>>
        /\ lateActs' \in Nat /\ faults' \in 0..MaxFaults
    BY DEF Worker, TestFlag, EndRound, Crash, Act, EndWait
  <1>4. QED BY <1>1, <1>2, <1>3

\* The steps of the RPC server's thread.
LEMMA RpcStep ==
    ASSUME TypeOK, CreateServer \/ Serve \/ BeginCall \/ EndCall \/ EndServe
    PROVE  TypeOK'
  <1> USE DEF mainVars, CreateServer, Serve, BeginCall, EndCall, EndServe
  <1>1. UNCHANGED <<running, main, asked, thread, lateActs>> /\ rpc # "none"
    OBVIOUS
  <1>2. /\ \/ server' = server
           \/ server' = TRUE
        /\ \/ request' = request
           \/ request' = FALSE
        /\ \/ is_down' = is_down
           \/ is_down' = FALSE
           \/ is_down' = TRUE
    OBVIOUS
  <1>3. server' \in BOOLEAN /\ request' \in BOOLEAN /\ is_down' \in BOOLEAN
    BY ONLY <1>2, TypeOK DEF TypeOK
  <1>4. rpc' \in {"made", "serve", "call", "dead"}
    OBVIOUS
  <1>5. faults' \in 0..MaxFaults
    BY DaemonAssumption DEF TypeOK, Fault
  <1>6. QED
    BY ONLY <1>1, <1>3, <1>4, <1>5, TypeOK DEF TypeOK

LEMMA TypeStep == TypeOK /\ [Next]_vars => TypeOK'
  <1>1. ASSUME TypeOK, UNCHANGED vars PROVE TypeOK'
    BY <1>1 DEF TypeOK, vars, mainVars, rpcVars
  <1>2. "host_monitor" \in Workers
    BY DEF Workers
  <1>3. QED
    BY <1>1, <1>2, MainStep, WorkerStep, RpcStep DEF Next

\* Types of all variables, and what exists at which point of the start.
THEOREM TypeCorrect == Spec => []TypeOK
  BY TypeInit, TypeStep, PTL DEF Spec

-----------------------------------------------------------------------------
(* Controls after the running flag has been cleared. *)

\* After a late control the engine's thread is at the head of its loop or at
\* its end, and the flag, which only Start sets, stays cleared.
LateInv ==
    \/ lateActs = 0
    \/ /\ lateActs = 1 /\ ~running /\ main # "validate"
       /\ thread["policy_engine"] \in {"test", "dead"}

LEMMA LateStep == TypeOK /\ LateInv /\ [Next]_vars => LateInv'
  <1> SUFFICES ASSUME TypeOK, LateInv, [Next]_vars PROVE LateInv'
    OBVIOUS
  <1> DEFINE pe == "policy_engine"
  <1>0. pe \in Workers /\ thread \in [Workers -> {"none", "test", "round", "act", "wait", "dead"}]
    BY DEF TypeOK, Workers
  <1>1. CASE Act
    BY <1>0, <1>1 DEF Act, Goes, LateInv, TypeOK, mainVars
  <1>2. CASE UNCHANGED lateActs /\ lateActs = 0
    BY <1>2 DEF LateInv
  <1>3. CASE UNCHANGED lateActs /\ lateActs = 1
    <2>1. ~running /\ main # "validate" /\ thread[pe] \in {"test", "dead"}
      BY <1>3 DEF LateInv
    <2>2. ~running' /\ main' # "validate"
      <3> USE DEF mainVars, rpcVars
      <3>1. \/ main' = main
            \/ main' \in Places \ {"validate"}
        BY DEF Next, MainThread, Start, MakeHostMonitor, GetInterface,
           MakeGuestManager, MakePolicyEngine, MakeRpcServer, TestRunning, CheckThreads,
           CheckRpc, StopServer, WaitForServer, Join, InitFails, Shutdown, Main, Worker,
           TestFlag, EndRound, Crash, Act, EndWait, CreateServer, Serve, BeginCall,
         EndCall, EndServe, vars, Places, Starting, Loop, Joins
      <3>2. \/ Start
            \/ running' = running
            \/ running' = FALSE
            \/ running' = (running /\ \A t \in Workers : Alive(t))
            \/ running' = (running /\ (~server \/ RpcAlive))
        BY DEF Next, MainThread, Start, MakeHostMonitor, GetInterface,
           MakeGuestManager, MakePolicyEngine, MakeRpcServer, TestRunning, CheckThreads,
           CheckRpc, StopServer, WaitForServer, Join, InitFails, Shutdown, Main, Worker,
           TestFlag, EndRound, Crash, Act, EndWait, CreateServer, Serve, BeginCall,
         EndCall, EndServe, vars
      <3>3. ~Start
        BY <2>1 DEF Start, Main
      <3>4. ~running'
        BY ONLY <2>1, <3>2, <3>3
      <3>5. QED BY ONLY <2>1, <3>1, <3>4
    <2>3. CASE MakeHostMonitor \/ MakeGuestManager \/ MakePolicyEngine
      <3>1. thread'[pe] \in {"test", "dead"}
        BY <1>0, <2>1, <2>3 DEF MakeHostMonitor, MakeGuestManager, MakePolicyEngine
      <3>2. QED BY <1>3, <2>2, <3>1 DEF LateInv
    <2>4. ASSUME NEW t \in Workers, Worker(t) \/ Crash(t) \/ EndWait
          PROVE  thread'[pe] \in {"test", "dead"}
      <3>1. CASE thread[pe] = "test"
        BY <1>0, <2>1, <2>4, <3>1 DEF Worker, TestFlag, EndRound, Crash, EndWait, Goes
      <3>2. CASE thread[pe] = "dead"
        BY <1>0, <2>1, <2>4, <3>2 DEF Worker, TestFlag, EndRound, Crash, EndWait, Goes
      <3>3. QED BY <2>1, <3>1, <3>2
    <2>5. CASE UNCHANGED thread
      BY <1>3, <2>1, <2>2, <2>5 DEF LateInv
    <2>6. \/ MakeHostMonitor \/ MakeGuestManager \/ MakePolicyEngine
          \/ \E t \in Workers : Worker(t) \/ Crash(t) \/ EndWait
          \/ UNCHANGED thread \/ Act
      BY <1>0 DEF Next, MainThread, Start, GetInterface, MakeRpcServer, TestRunning,
         CheckThreads, CheckRpc, StopServer, WaitForServer, Join, InitFails, Shutdown,
         CreateServer, Serve, BeginCall, EndCall, EndServe, vars
    <2>7. QED
      BY <1>1, <1>3, <2>2, <2>3, <2>4, <2>5, <2>6 DEF LateInv
  <1>4. UNCHANGED lateActs \/ Act
    BY DEF Next, MainThread, Start, MakeHostMonitor, GetInterface, MakeGuestManager,
       MakePolicyEngine, MakeRpcServer, TestRunning, CheckThreads, CheckRpc, StopServer,
       WaitForServer, Join, InitFails, Shutdown, Worker, TestFlag, EndRound, Crash,
       EndWait, CreateServer, Serve, BeginCall, EndCall, EndServe, vars
  <1>5. QED
    BY <1>1, <1>2, <1>3, <1>4 DEF LateInv

\* However the threads interleave with the shutdown, and whatever crashes, the
\* guests are touched at most once after the flag has been cleared.
THEOREM OneMoreControl == Spec => []AtMostOneMoreControl
  <1>1. Init => LateInv
    BY DEF Init, LateInv
  <1>2. LateInv => AtMostOneMoreControl
    BY DEF LateInv, AtMostOneMoreControl
  <1>3. QED
    BY <1>1, <1>2, TypeInit, TypeStep, LateStep, PTL DEF Spec
=============================================================================
