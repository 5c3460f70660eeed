---------------------------- MODULE GuestDaemon ----------------------------
(***************************************************************************)
(* mom/Collectors/GuestNetworkDaemon.py, both ends: the collectors that    *)
(* ask the daemon in their guest for statistics over TCP, and _Server,     *)
(* which serves one connection at a time.  Two collectors of one guest are *)
(* the monitor of a guest that has left the list of domains, which ends    *)
(* when it next looks, and the monitor it gets when it is back.            *)
(*                                                                         *)
(* A reply is cut in two where TCP or a crash may cut it: "head" and       *)
(* "tail", which ends in the newline.  A command is too short for that.    *)
(***************************************************************************)
EXTENDS Naturals, Sequences

CONSTANTS Collectors,  \* the collectors that talk to this guest
          NoAddress,   \* those whose name-to-ip-helper has given no address
          MaxFaults    \* bound: crashes of the daemon and late replies

VARIABLES state,    \* collector -> "ok", "dead" or, with its monitor, "gone"
          doing,       \* collector -> "idle", "send" or "receive" of collect()
          socket,   \* collector -> whether it has a connection
          msg,      \* collector -> what sock_receive has got so far
          ended,   \* history: collector -> how its last collect() has ended
          asked,    \* collector -> its command is on the way to the daemon
          reply,    \* collector -> what is on the way to it, in order
          closed,   \* collector -> the daemon has closed their connection
          backlog,  \* the connections accept() has not taken yet, in order
          conn,     \* the connection session() serves
          up, faults

clientVars == <<state, doing, msg, ended>>
vars == <<clientVars, socket, asked, reply, closed, backlog, conn, up, faults>>

NoConn == "none"     \* session() is not running
Left == "left"       \* a connection whose collector has closed it

Init ==
    /\ state = [c \in Collectors |-> "ok"] /\ doing = [c \in Collectors |-> "idle"]
    /\ socket = [c \in Collectors |-> FALSE] /\ msg = [c \in Collectors |-> <<>>]
    /\ ended = [c \in Collectors |-> "none"]
    /\ asked = [c \in Collectors |-> FALSE] /\ reply = [c \in Collectors |-> <<>>]
    /\ closed = [c \in Collectors |-> FALSE]
    /\ backlog = <<>> /\ conn = NoConn /\ up = TRUE /\ faults = 0

Fault == faults < MaxFaults /\ faults' = faults + 1
-----------------------------------------------------------------------------
(* A collector. *)

Ends(c, how) ==
    /\ doing' = [doing EXCEPT ![c] = "idle"] /\ msg' = [msg EXCEPT ![c] = <<>>]
    /\ ended' = [ended EXCEPT ![c] = how]

\* Deviation: the connection is kept.
KeepSocket(c) == UNCHANGED <<socket, asked, reply, backlog, conn>>

\* sock_close: the daemon finds the connection without a client.
CloseSocket(c) ==
    /\ socket' = [socket EXCEPT ![c] = FALSE]
    /\ asked' = [asked EXCEPT ![c] = FALSE] /\ reply' = [reply EXCEPT ![c] = <<>>]
    /\ backlog' = [i \in DOMAIN backlog |-> IF backlog[i] = c THEN Left ELSE backlog[i]]
    /\ conn' = IF conn = c THEN Left ELSE conn

\* A guest without an address: an error once, then no statistics without one.
CollectDead(c) ==
    /\ doing[c] = "idle" /\ c \in NoAddress /\ state[c] # "gone"
    /\ Ends(c, IF state[c] = "dead" THEN "empty" ELSE "failed")
    /\ state' = [state EXCEPT ![c] = "dead"]
    /\ UNCHANGED <<socket, asked, reply, closed, backlog, conn, up, faults>>

\* connect(), unless there is a connection; listen(1) lets two wait.
Connect(c) ==
    /\ doing[c] = "idle" /\ c \notin NoAddress /\ state[c] # "gone" /\ ~socket[c]
    /\ IF up /\ Len(backlog) < 2
       THEN /\ socket' = [socket EXCEPT ![c] = TRUE]
            /\ closed' = [closed EXCEPT ![c] = FALSE]
            /\ backlog' = Append(backlog, c) /\ doing' = [doing EXCEPT ![c] = "send"]
            /\ UNCHANGED <<msg, ended>>
       ELSE Ends(c, "failed") /\ UNCHANGED <<socket, closed, backlog>>
    /\ UNCHANGED <<state, asked, reply, conn, up, faults>>

\* sock_send; the first one on a connection the daemon has closed succeeds.
Send(c) ==
    /\ \/ doing[c] = "send"
       \/ doing[c] = "idle" /\ socket[c] /\ state[c] # "gone"
    /\ doing' = [doing EXCEPT ![c] = "receive"]
    /\ asked' = [asked EXCEPT ![c] = ~closed[c]]
    /\ UNCHANGED <<state, msg, ended, socket, reply, closed, backlog, conn, up, faults>>

\* sock_receive: recv() returns the first n parts of what has come; the newline
\* ends the message.
Receive(c) ==
    /\ doing[c] = "receive" /\ reply[c] # <<>>
    /\ \E n \in 1..Len(reply[c]) :
        LET got == msg[c] \o SubSeq(reply[c], 1, n) IN
        /\ reply' = [reply EXCEPT ![c] = SubSeq(@, n + 1, Len(@))]
        /\ IF got[Len(got)] = "tail" THEN Ends(c, "stats")
           ELSE msg' = [msg EXCEPT ![c] = got] /\ UNCHANGED <<doing, ended>>
    /\ UNCHANGED <<state, socket, asked, closed, backlog, conn, up, faults>>

\* recv() is empty: an error if nothing has come before.  Otherwise what has
\* come is parsed: it has other values, lacks some, or makes int() raise.
ReceiveEnd(c) ==
    /\ doing[c] = "receive" /\ reply[c] = <<>> /\ closed[c]
    /\ IF msg[c] = <<>> THEN Ends(c, "failed") /\ CloseSocket(c)
       ELSE /\ \E how \in {"cut", "failed"} : Ends(c, how)
            /\ UNCHANGED <<socket, asked, reply, backlog, conn>>
    /\ UNCHANGED <<state, closed, up, faults>>

\* Five seconds without anything: the daemon serves another collector, or it
\* is slow.
TimeOut(c) ==
    /\ doing[c] = "receive" /\ reply[c] = <<>> /\ ~closed[c]
    /\ IF conn \in Collectors \ {c} THEN UNCHANGED faults ELSE Fault
    /\ Ends(c, "failed") /\ CloseSocket(c)
    /\ UNCHANGED <<state, closed, up>>

\* The monitor's thread ends, and its collectors go with the last reference.
Leave(c) ==
    /\ doing[c] = "idle" /\ state[c] # "gone" /\ \E d \in Collectors \ {c} : state[d] # "gone"
    /\ state' = [state EXCEPT ![c] = "gone"]
    /\ CloseSocket(c)
    /\ UNCHANGED <<doing, msg, ended, closed, up, faults>>
-----------------------------------------------------------------------------
(* _Server. *)

Accept ==
    /\ up /\ conn = NoConn /\ backlog # <<>>
    /\ conn' = Head(backlog) /\ backlog' = Tail(backlog)
    /\ UNCHANGED <<clientVars, socket, asked, reply, closed, up, faults>>

\* session(): the command is "stats".
SendStats ==
    /\ up /\ conn \in Collectors /\ asked[conn]
    /\ asked' = [asked EXCEPT ![conn] = FALSE]
    /\ reply' = [reply EXCEPT ![conn] = @ \o <<"head", "tail">>]
    /\ UNCHANGED <<clientVars, socket, closed, backlog, conn, up, faults>>

\* session() ends: its collector has closed the connection, or has not asked
\* for ten seconds.
SessionEnds ==
    /\ up /\ conn # NoConn
    /\ conn # Left => doing[conn] = "idle"
    /\ closed' = [c \in Collectors |-> closed[c] \/ c = conn] /\ conn' = NoConn
    /\ UNCHANGED <<clientVars, socket, asked, reply, backlog, up, faults>>

\* The daemon ends -- anything but a socket.error ends it, even in the middle
\* of a reply -- and the guest closes its connections.
Crash ==
    /\ up /\ Fault /\ up' = FALSE /\ conn' = NoConn /\ backlog' = <<>>
    /\ closed' = [c \in Collectors |-> TRUE] /\ asked' = [c \in Collectors |-> FALSE]
    /\ \E n \in 0..2 : reply' = [c \in Collectors |->
          IF n < Len(reply[c]) THEN SubSeq(reply[c], 1, n) ELSE reply[c]]
    /\ UNCHANGED <<clientVars, socket>>

Restart == ~up /\ up' = TRUE
    /\ UNCHANGED <<clientVars, socket, asked, reply, closed, backlog, conn, faults>>

Collecting(c) == CollectDead(c) \/ Connect(c) \/ Send(c) \/ Receive(c) \/ ReceiveEnd(c)
Server == Accept \/ SendStats \/ (conn = Left /\ SessionEnds)
Next ==
    \/ \E c \in Collectors : Collecting(c) \/ TimeOut(c) \/ Leave(c)
    \/ Server \/ SessionEnds \/ Crash \/ Restart
\* The collectors' threads and a daemon that runs go on; nobody has to wait ten
\* seconds, leave, or start the daemon again.
Fairness == WF_vars(Server) /\ \A c \in Collectors : WF_vars(Collecting(c))
Spec == Init /\ [][Next]_vars /\ Fairness
-----------------------------------------------------------------------------
\* A collector that asks has nothing of an earlier answer before it, whatever
\* came too late or not at all: what it gets was measured for this question.
NothingLeftOver == \A c \in Collectors : socket[c] /\ doing[c] # "receive" => reply[c] = <<>> /\ ~asked[c]

\* sock_receive returns messages that end in a newline.
CompleteMessages == \A c \in Collectors : ended[c] # "cut"

\* When the other monitor of the guest has gone and the daemon stays up, the one
\* that is left gets statistics again and again: connections nobody reads any
\* more do not keep the daemon.
LastOneIsServed ==
    \A c \in Collectors \ NoAddress :
        <>[](up /\ \A d \in Collectors : state[d] = IF d = c THEN "ok" ELSE "gone")
            => []<>(ended[c] = "stats")
=============================================================================
