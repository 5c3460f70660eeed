----------------------------- MODULE QemuAgent -----------------------------
(***************************************************************************)
(* mom/Collectors/GuestQemuAgent.py over QemuGuestAgentClient.py: a        *)
(* collector that reads two files of its guest through the guest's agent.  *)
(* One line of the channel is one request or one answer.  The channel      *)
(* outlives a connection: what a client did not read is what the next one  *)
(* reads first, which is why a connection starts with guest-sync.          *)
(*                                                                         *)
(* External: the agent in the guest and the channel to it.  What the files *)
(* say is left out: a text is the file it comes from.                      *)
(***************************************************************************)
EXTENDS Naturals, Sequences

CONSTANTS Wrap,        \* sync numbers are seconds modulo this, 2147483647 in the code
          MaxHandles,  \* bound: files the agent can have open
          MaxFaults    \* bound: time-outs, restarts, refused and shut connections

VARIABLES at,        \* where collect() is
          step,      \* 0 for the ping of connect(), or the index of a command
          agent,     \* the client connect() has kept: "none", "libvirt", "socket"
          sock,      \* the client's socket: "none", "open", or "shut" by the other side
          fh,        \* what the last file_open has returned
          texts,     \* what this collect() has read
          seconds,       \* time.time(): another second at every collect()
          requests, answers, \* the channel, oldest line first
          handles,   \* the agent's open files: handle -> file
          mine,      \* history: the handles opened for this collect()
          result,    \* history: how the last collect() has ended
          splits,    \* whether time runs out in the middle of a line, too
          faults     \* faults so far

callVars == <<step, agent, sock, fh, texts>>
agentVars == <<handles, mine>>
vars == <<at, callVars, seconds, requests, answers, agentVars, result, splits, faults>>

NoHandle == MaxHandles + 1
Commands == << <<"open", "meminfo">>, <<"read", "meminfo">>, <<"close", "meminfo">>,
               <<"open", "vmstat">>, <<"read", "vmstat">>, <<"close", "vmstat">> >>
Command == IF step = 0 THEN "ping" ELSE Commands[step][1]

\* A line of the channel: its kind, the handle or sync number in it, the file
\* it is about, and (history) whether it belongs to the present collect().
Line(kind, n, file) == [kind |-> kind, n |-> n, file |-> file, fresh |-> TRUE]
Stale(lines) == [i \in DOMAIN lines |-> [lines[i] EXCEPT !.fresh = FALSE]]

Init ==
    /\ at = "idle" /\ step = 0 /\ agent = "none" /\ sock = "none"
    /\ fh = NoHandle /\ texts = <<>> /\ seconds = 0 /\ requests = <<>>
    /\ answers \in {<<>>, <<Line("empty", 0, "none")>>, <<Line("rest", 0, "none")>>}
    /\ handles = [h \in {} |-> "none"] /\ mine = {} /\ result = "none"
    /\ splits \in BOOLEAN /\ faults = 0

Fault == faults < MaxFaults /\ faults' = faults + 1
-----------------------------------------------------------------------------
(* The agent, external: it serves one request after the other. *)

Unused == {h \in 1..MaxHandles : h \notin DOMAIN handles}
Refused(req) ==
    \/ req.kind = "open" /\ Unused = {}
    \/ req.kind \in {"read", "close"} /\ req.n \notin DOMAIN handles

\* What the agent answers: an error, the first free handle, the text of the file
\* behind a handle, or nothing; guest-sync gets its number back.
Answers(req) ==
    IF Refused(req) THEN {[req EXCEPT !.kind = "error"]}
    ELSE CASE req.kind = "open" ->
                {[req EXCEPT !.kind = "handle", !.n = h] :
                    h \in {x \in Unused : \A y \in Unused : x <= y}}
           [] req.kind = "read" ->
                {[req EXCEPT !.kind = "data", !.file = f] :
                    f \in {x \in {"meminfo", "vmstat"} : handles[req.n] = x}}
           [] req.kind = "sync" -> {req}
           [] OTHER -> {[req EXCEPT !.kind = "empty"]}

\* What becomes of its files with that.
Executes(req, line) ==
    CASE line.kind = "handle" ->
           /\ handles' = [x \in DOMAIN handles \cup {line.n} |->
                             IF x = line.n THEN req.file ELSE handles[x]]
           /\ mine' = IF req.fresh THEN mine \cup {line.n} ELSE mine
      [] req.kind = "close" /\ line.kind = "empty" ->
           /\ handles' = [x \in DOMAIN handles \ {req.n} |-> handles[x]]
           /\ mine' = mine \ {req.n}
      [] OTHER -> UNCHANGED agentVars

AgentAnswers ==
    /\ requests # <<>>
    /\ \E line \in Answers(Head(requests)) :
          Executes(Head(requests), line) /\ answers' = Append(answers, line)
    /\ requests' = Tail(requests)
    /\ UNCHANGED <<at, callVars, seconds, result, splits, faults>>

\* The agent is started again: its files are closed, a request may be lost.
AgentRestarts ==
    /\ Fault /\ handles' = [h \in {} |-> "none"] /\ mine' = {}
    /\ requests' \in {requests} \cup (IF requests = <<>> THEN {} ELSE {Tail(requests)})
    /\ UNCHANGED <<at, callVars, seconds, answers, result, splits>>

\* The other side of the socket shuts the connection: what was on its way may
\* be lost.
ConnectionShut ==
    /\ Fault /\ sock = "open" /\ sock' = "shut" /\ answers' \in {answers, <<>>}
    /\ UNCHANGED <<at, step, agent, fh, texts, seconds, requests, agentVars, result, splits>>
-----------------------------------------------------------------------------
(* The collector and its clients. *)

\* The monitor calls collect() and that connect(): a client that has been kept
\* is used as it is.
Collect ==
    /\ at = "idle"
    /\ seconds' = (seconds + 1) % Wrap /\ mine' = {} /\ texts' = <<>> /\ fh' = NoHandle
    /\ requests' = Stale(requests) /\ answers' = Stale(answers)
    /\ IF agent = "none" THEN at' = "libvirt" /\ step' = 0
                         ELSE at' = "send" /\ step' = 1
    /\ UNCHANGED <<agent, sock, handles, result, splits, faults>>

\* Deviation: the socket stays, whatever has happened.
RaiseOnly(left) ==
    /\ at' = "idle" /\ result' = "failed"
    /\ UNCHANGED <<step, agent, sock, fh, texts, seconds, splits>>

\* collect() raises; left is what becomes of the socket: a ProtocolError closes
\* it, another exception leaves it.  While connect() pings the client is dropped.
Raise(left) ==
    /\ at' = "idle" /\ result' = "failed"
    /\ sock' = IF step = 0 THEN "none" ELSE left
    /\ UNCHANGED <<step, agent, fh, texts, seconds, splits>>

\* Whether the API and getfile() get along with this answer: what is not an
\* error passes for a handle, but only a buffer can be decoded.
Usable(line) ==
    line.kind \notin {"rest", "error"} /\ (Command = "read" => line.kind = "data")

\* Deviation: a file that has been read is not closed.
NextStepNoClose == IF Command = "read" THEN step + 2 ELSE step + 1
NextStep == step + 1

\* The call has got line for an answer.  getfile() always stops after the first
\* block.  After the last command both texts are parsed: with another file in
\* its place parse_int finds nothing and the arithmetic raises.
Take(line, client) ==
    LET got == IF Command = "read" THEN Append(texts, line) ELSE texts
        all == NextStep > Len(Commands) IN
    IF ~Usable(line) \/ (all /\ ~(got[1].file = "meminfo" /\ got[2].file = "vmstat"))
    THEN Raise(sock)
    ELSE /\ at' = IF all THEN "idle" ELSE "send"
         /\ step' = IF all THEN step ELSE NextStep
         /\ result' = IF all THEN "data" ELSE result
         /\ agent' = client /\ texts' = got
         /\ fh' = IF Command = "open" THEN line.n ELSE fh
         /\ UNCHANGED <<sock, seconds, splits>>

\* _call: the request of this step.
Request == IF step = 0 THEN Line("ping", 0, "none") ELSE Line(Command, fh, Commands[step][2])

\* connect() tries the hypervisor first, and a client that answers the ping is
\* kept: its calls go to the agent and back in one step.
LibvirtCall ==
    /\ at = "libvirt" \/ (at = "send" /\ agent = "libvirt")
    /\ \E line \in Answers(Request) : Executes(Request, line) /\ Take(line, "libvirt")
    /\ UNCHANGED <<requests, answers, faults>>

\* It has no qemuAgentCommand, or the call fails: for the ping the socket is next.
LibvirtFails ==
    \/ /\ at = "libvirt" /\ at' = "send"
       /\ UNCHANGED <<callVars, seconds, requests, answers, agentVars, result, splits, faults>>
    \/ /\ at = "send" /\ agent = "libvirt" /\ Fault /\ Raise(sock)
       /\ UNCHANGED <<requests, answers, agentVars>>

\* _connect, and the request _reset_conn sends.
Connect ==
    /\ at = "send" /\ agent # "libvirt" /\ sock = "none"
    /\ sock' = "open" /\ at' = "sync"
    /\ requests' = Append(requests, Line("sync", seconds, "none"))
    /\ UNCHANGED <<step, agent, fh, texts, seconds, answers, agentVars, result, splits, faults>>

ConnectFails ==
    /\ at = "send" /\ agent # "libvirt" /\ sock = "none" /\ Fault /\ Raise("none")
    /\ UNCHANGED <<requests, answers, agentVars>>

\* Deviation: whatever comes back is taken for the answer to guest-sync.
AnyLine(line) == TRUE
Synchronised(line) == line.kind = "sync" /\ line.n = seconds

\* The loop of _reset_conn reads a line: only the answer with our number ends
\* it.  A line that is no JSON raises a ValueError, which _connect lets pass.
ReadSync ==
    /\ at = "sync" /\ answers # <<>>
    /\ answers' = Tail(answers)
    /\ \/ Head(answers).kind = "rest" /\ Raise(sock)
       \/ /\ Head(answers).kind # "rest"
          /\ at' = IF Synchronised(Head(answers)) THEN "send" ELSE "sync"
          /\ UNCHANGED <<callVars, seconds, result, splits>>
    /\ UNCHANGED <<requests, agentVars, faults>>

Send ==
    /\ at = "send" /\ sock = "open" /\ agent # "libvirt"
    /\ requests' = Append(requests, Request) /\ at' = "wait"
    /\ UNCHANGED <<callVars, seconds, answers, agentVars, result, splits, faults>>

\* send() on a connection the other side has shut.
SendFails ==
    /\ at = "send" /\ sock = "shut" /\ Raise("none")
    /\ UNCHANGED <<requests, answers, agentVars, faults>>

Receive ==
    /\ at = "wait" /\ answers # <<>>
    /\ answers' = Tail(answers) /\ Take(Head(answers), "socket")
    /\ UNCHANGED <<requests, agentVars, faults>>

\* Nothing comes for two seconds: nothing will, or the agent is slow.
TimeOut ==
    /\ at \in {"sync", "wait"} /\ sock = "open" /\ answers = <<>> /\ Raise("none")
    /\ IF requests = <<>> THEN UNCHANGED faults ELSE Fault
    /\ UNCHANGED <<requests, answers, agentVars>>

\* The same after a part of the line: the rest of it stays in the channel.
TimeOutMidLine ==
    /\ at \in {"sync", "wait"} /\ sock = "open" /\ answers # <<>> /\ splits /\ Fault /\ Raise("none")
    /\ answers' = <<[Head(answers) EXCEPT !.kind = "rest"]>> \o Tail(answers)
    /\ UNCHANGED <<requests, agentVars>>

\* The connection is shut: recv() is empty, which is no JSON either.
ReceiveNothing ==
    /\ at \in {"sync", "wait"} /\ sock = "shut" /\ Raise(sock)
    /\ UNCHANGED <<requests, answers, agentVars, faults>>

Client == Collect \/ LibvirtCall \/ LibvirtFails \/ Connect \/ ReadSync \/ Send
          \/ SendFails \/ Receive \/ TimeOut \/ ReceiveNothing
Faults == AgentRestarts \/ ConnectionShut \/ ConnectFails \/ TimeOutMidLine
Next == Client \/ AgentAnswers \/ Faults
\* The collector's thread goes on, and an agent that runs answers.
Fairness == WF_vars(Client) /\ WF_vars(AgentAnswers)
Spec == Init /\ [][Next]_vars /\ Fairness
-----------------------------------------------------------------------------
\* Once a connection is synchronised, nothing is in the channel while a call
\* waits but its own request or its own answer: no answer is taken for that of
\* another request, after whatever time-outs and restarts -- unless a line has
\* been cut in two.
InStep == ~splits /\ at = "wait" => Len(requests) + Len(answers) <= 1

\* What collect() reports was read for this collect().
ReportsFresh == at = "idle" /\ result = "data" => \A i \in DOMAIN texts : texts[i].fresh

\* A collect() that reports leaves no file open in the guest, where nothing
\* else would ever close it -- unless a line has been cut in two: what is
\* reported may then be an earlier collect()'s, see ReportsFresh.
NoHandleLeft == ~splits /\ at = "idle" /\ result = "data" => mine = {}

\* After any failures a guest whose agent answers is collected from again.
CollectsAgain == ~splits => []<>(result = "data" /\ at = "idle")
=============================================================================
