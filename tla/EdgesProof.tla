----------------------------- MODULE EdgesProof -----------------------------
(* Theorems about Edges, for any guest's agent and daemon, any threads and *)
(* expiry, and any number of faults.                                       *)
EXTENDS Edges, SequenceTheorems, TLAPS

-----------------------------------------------------------------------------
(* The cache: how old an answer can be. *)

SetBackBy == real - clock   \* by how much the clock has been set back

CacheTypes ==
    /\ real \in Nat /\ clock \in Int /\ setBack \in BOOLEAN
    /\ inside \in [Threads -> {"idle", "lock", "fetch"}]
    /\ now \in [Threads -> Int] /\ began \in [Threads -> Nat]
    /\ cache \in Nat \cup {-1} /\ timestamp \in Int /\ age \in Int
    /\ called \in BOOLEAN /\ gap \in BOOLEAN

\* A caller has read the clock before or after it was set back; the value was
\* fetched after its caller had read the clock.
ClockInv ==
    /\ SetBackBy >= 0 /\ (~setBack => SetBackBy = 0)
    /\ \A t \in Threads : inside[t] # "idle" =>
          /\ began[t] <= real
          /\ now[t] = began[t] \/ (setBack /\ now[t] = began[t] - SetBackBy)
    /\ cache <= real /\ (cache # -1 => timestamp <= cache)

\* A call that has begun and returned in this second has found the value, if
\* that is older, in time by the clock it has read.
FoundInv ==
    called /\ cache # -1 /\ cache < real =>
        \/ real - timestamp <= Expiration
        \/ setBack /\ timestamp + SetBackBy <= real + Expiration

\* Without a gap the value is not much older than its expiry, or some caller
\* has found it in time after the clock was set back.
GapInv ==
    ~gap /\ cache # -1 =>
        \/ real <= cache + Expiration + 1
        \/ setBack /\ timestamp + SetBackBy <= cache + 2 * Expiration + 1

CacheInv == CacheTypes /\ ClockInv /\ FoundInv /\ GapInv /\ Cache!AgeBounded

LEMMA CacheInit == Init => CacheInv
  <1> SUFFICES ASSUME Init PROVE CacheInv
    OBVIOUS
  <1>1. /\ real = 0 /\ clock = 0 /\ cache = -1 /\ timestamp = 0 /\ age = 0
        /\ inside = [t \in Threads |-> "idle"]
        /\ now = [t \in Threads |-> 0] /\ began = [t \in Threads |-> 0]
    BY DEF Init, Cache!Init, Cache!NoValue
  <1>2. ~setBack /\ ~called /\ ~gap /\ setBack \in BOOLEAN /\ called \in BOOLEAN /\ gap \in BOOLEAN
    BY DEF Init, Cache!Init
  <1>3. CacheTypes
    BY <1>1, <1>2 DEF CacheTypes
  <1>4. ClockInv /\ FoundInv /\ GapInv /\ Cache!AgeBounded
    BY <1>1, <1>2, EdgesAssumption DEF ClockInv, SetBackBy, FoundInv, GapInv, Cache!AgeBounded
  <1>5. QED BY <1>3, <1>4 DEF CacheInv

LEMMA CacheStep == CacheInv /\ Cache!Next => CacheInv'
  <1> SUFFICES ASSUME CacheInv, Cache!Next PROVE CacheInv'
    OBVIOUS
  <1> USE EdgesAssumption
      DEF CacheInv, CacheTypes, ClockInv, FoundInv, GapInv, SetBackBy, Cache!AgeBounded,
          Cache!NoValue
  <1>1. CASE Cache!Tick
    <2>1. /\ real' = real + 1 /\ clock' = clock + 1
          /\ UNCHANGED <<setBack, inside, now, began, lock, cache, timestamp, age>>
      BY <1>1 DEF Cache!Tick
    <2>2. ~called' /\ called' \in BOOLEAN /\ gap' \in BOOLEAN /\ (~gap' => ~gap /\ called)
      BY <1>1 DEF Cache!Tick
    <2>3. CacheTypes' /\ ClockInv' /\ FoundInv'
      BY <2>1, <2>2
    <2>4. GapInv' /\ Cache!AgeBounded'
      BY <2>1, <2>2
    <2>5. QED BY <2>3, <2>4
  <1>2. CASE Cache!SetClockBack
    BY <1>2 DEF Cache!SetClockBack
  <1>3. ASSUME NEW t \in Threads, Cache!Call(t) PROVE CacheInv'
    BY <1>3 DEF Cache!Call
  <1>4. ASSUME NEW t \in Threads, Cache!Hit(t) PROVE CacheInv'
    BY <1>4 DEF Cache!Hit, Cache!Return, Cache!Expired, Cache!Distance
  <1>5. ASSUME NEW t \in Threads, Cache!Miss(t) PROVE CacheInv'
    BY <1>5 DEF Cache!Miss
  <1>6. ASSUME NEW t \in Threads, Cache!Fetched(t) PROVE CacheInv'
    BY <1>6 DEF Cache!Fetched, Cache!Return
  <1>7. ASSUME NEW t \in Threads, Cache!Raises(t) PROVE CacheInv'
    BY <1>7 DEF Cache!Raises
  <1>8. QED
    BY <1>1, <1>2, <1>3, <1>4, <1>5, <1>6, <1>7 DEF Cache!Next, Cache!Thread

\* A step of another part leaves the cache alone.
LEMMA CacheStays == CacheInv /\ UNCHANGED cacheVars => CacheInv'
  BY DEF cacheVars, CacheInv, CacheTypes, ClockInv, FoundInv, GapInv, SetBackBy,
         Cache!AgeBounded, Cache!NoValue

\* memoize: however long a caller waits for the lock, its answer is not older
\* than CACHE_EXPIRATION when it called; if the clock is set back, by whatever,
\* not older than three times that and a second, while somebody calls every second.
THEOREM CacheAge == Spec => []AgeBounded
  <1>1. CacheInv /\ [Next]_vars => CacheInv'
    <2> SUFFICES ASSUME CacheInv, [Next]_vars PROVE CacheInv'
      OBVIOUS
    <2>1. (part = "cache" /\ Cache!Next) \/ UNCHANGED cacheVars
      BY DEF Next, Others, vars
    <2>2. QED BY <2>1, CacheStep, CacheStays
  <1>2. CacheInv => AgeBounded
    BY DEF CacheInv, AgeBounded
  <1>3. QED BY <1>1, <1>2, CacheInit, PTL DEF Spec
-----------------------------------------------------------------------------
(* The daemon: what is before a question. *)

Parts == {"head", "tail"}

DaemonTypes ==
    /\ doing \in [Collectors -> {"idle", "send", "receive"}]
    /\ asked \in [Collectors -> BOOLEAN] /\ closed \in [Collectors -> BOOLEAN]
    /\ reply \in [Collectors -> Seq(Parts)] /\ msg \in [Collectors -> Seq(Parts)]

\* Only a collector that waits has a question or an answer on its way, one of
\* the two; the answer ends where the message does; and a daemon that has
\* closed the connection gets no question.
QuietInv ==
    \A c \in Collectors :
        /\ doing[c] # "receive" => reply[c] = <<>> /\ ~asked[c]
        /\ asked[c] => reply[c] = <<>> /\ ~closed[c]
        /\ \A i \in 1..Len(reply[c]) : reply[c][i] = "tail" => i = Len(reply[c])

DaemonInv == DaemonTypes /\ QuietInv

LEMMA DaemonInit == Init => DaemonInv
  <1> SUFFICES ASSUME Init PROVE DaemonInv
    OBVIOUS
  <1>1. <<>> \in Seq(Parts) /\ Len(<<>>) = 0
    BY EmptySeq
  <1>2. /\ doing = [c \in Collectors |-> "idle"] /\ asked = [c \in Collectors |-> FALSE]
        /\ closed = [c \in Collectors |-> FALSE]
        /\ reply = [c \in Collectors |-> <<>>] /\ msg = [c \in Collectors |-> <<>>]
    BY DEF Init, Daemon!Init
  <1>3. DaemonTypes
    BY <1>1, <1>2 DEF DaemonTypes
  <1>4. QuietInv
    BY <1>1, <1>2 DEF QuietInv
  <1>5. QED BY <1>3, <1>4 DEF DaemonInv

LEMMA DaemonStep == DaemonInv /\ Daemon!Next => DaemonInv'
  <1> SUFFICES ASSUME DaemonInv, Daemon!Next PROVE DaemonInv'
    OBVIOUS
  <1> USE EdgesAssumption DEF DaemonInv, DaemonTypes, QuietInv, Parts
  <1>a. <<>> \in Seq(Parts) /\ Len(<<>>) = 0
    BY EmptySeq
  <1>1. ASSUME NEW c \in Collectors, Daemon!CollectDead(c) PROVE DaemonInv'
    BY <1>1, <1>a DEF Daemon!CollectDead, Daemon!Ends
  <1>2. ASSUME NEW c \in Collectors, Daemon!Connect(c) PROVE DaemonInv'
    BY <1>2, <1>a DEF Daemon!Connect, Daemon!Ends
  <1>3. ASSUME NEW c \in Collectors, Daemon!Send(c) PROVE DaemonInv'
    BY <1>3, <1>a DEF Daemon!Send
  <1>4. ASSUME NEW c \in Collectors, Daemon!Receive(c) PROVE DaemonInv'
    <2> DEFINE r == reply[c]
    <2>1. /\ r \in Seq(Parts) /\ Len(r) \in Nat /\ doing[c] = "receive" /\ r # <<>>
          /\ UNCHANGED <<asked, closed>>
      BY <1>4 DEF Daemon!Receive
    <2>2. PICK n \in 1..Len(r) :
            LET got == msg[c] \o SubSeq(r, 1, n) IN
            /\ reply' = [reply EXCEPT ![c] = SubSeq(r, n + 1, Len(r))]
            /\ IF got[Len(got)] = "tail" THEN Daemon!Ends(c, "stats")
               ELSE msg' = [msg EXCEPT ![c] = got] /\ UNCHANGED <<doing, ended>>
      BY <1>4 DEF Daemon!Receive
    <2> DEFINE got == msg[c] \o SubSeq(r, 1, n)
               rest == SubSeq(r, n + 1, Len(r))
    <2>3. /\ SubSeq(r, 1, n) \in Seq(Parts) /\ Len(SubSeq(r, 1, n)) = n
          /\ SubSeq(r, 1, n)[n] = r[n]
      <3>1. \A i \in 1..n : r[i] \in Parts
        BY <2>1
      <3>2. QED BY <2>1, <3>1, SubSeqProperties
    <2>4. /\ rest \in Seq(Parts) /\ Len(rest) = Len(r) - n
          /\ \A i \in 1..Len(rest) : rest[i] = r[n + i]
      <3>1. \A i \in n + 1..Len(r) : r[i] \in Parts
        BY <2>1
      <3>2. /\ rest \in Seq(Parts)
            /\ Len(rest) = IF n + 1 <= Len(r) THEN Len(r) - (n + 1) + 1 ELSE 0
            /\ \A i \in 1..Len(r) - (n + 1) + 1 : rest[i] = r[n + 1 + i - 1]
        BY <2>1, <3>1, SubSeqProperties
      <3>3. QED BY <2>1, <3>2
    <2>5. got \in Seq(Parts) /\ got[Len(got)] = r[n]
      <3>1. msg[c] \in Seq(Parts)
        OBVIOUS
      <3>2. /\ got \in Seq(Parts) /\ Len(got) = Len(msg[c]) + n
            /\ \A i \in 1..Len(msg[c]) + n : got[i] = IF i <= Len(msg[c]) THEN msg[c][i]
                                                   ELSE SubSeq(r, 1, n)[i - Len(msg[c])]
        BY <2>3, <3>1, ConcatProperties
      <3>3. QED BY <2>3, <3>1, <3>2
    <2>6. \A i \in 1..Len(rest) : rest[i] = "tail" => i = Len(rest)
      BY <2>1, <2>4
    <2>7. CASE got[Len(got)] = "tail"
      <3>1. n = Len(r) /\ rest = <<>>
        BY <2>1, <2>4, <2>5, <2>7, EmptySeq
      <3>2. /\ doing' = [doing EXCEPT ![c] = "idle"] /\ msg' = [msg EXCEPT ![c] = <<>>]
            /\ reply' = [reply EXCEPT ![c] = <<>>]
        BY <2>2, <2>7, <3>1 DEF Daemon!Ends
      <3>3. ~asked[c]
        BY <2>1
      <3>4. DaemonTypes'
        BY <1>a, <2>1, <3>2
      <3>5. QuietInv'
        BY <1>a, <2>1, <3>2, <3>3
      <3>6. QED BY <3>4, <3>5
    <2>8. CASE got[Len(got)] # "tail"
      BY <2>1, <2>2, <2>4, <2>5, <2>6, <2>8
    <2>9. QED BY <2>7, <2>8
  <1>5. ASSUME NEW c \in Collectors, Daemon!ReceiveEnd(c) PROVE DaemonInv'
    <2>1. /\ reply[c] = <<>> /\ closed[c] /\ UNCHANGED closed
          /\ doing' = [doing EXCEPT ![c] = "idle"] /\ msg' = [msg EXCEPT ![c] = <<>>]
      BY <1>5 DEF Daemon!ReceiveEnd, Daemon!Ends
    <2>2. \/ UNCHANGED <<asked, reply>>
          \/ /\ asked' = [asked EXCEPT ![c] = FALSE]
             /\ reply' = [reply EXCEPT ![c] = <<>>]
      BY <1>5 DEF Daemon!ReceiveEnd, Daemon!CloseSocket
    <2>3. DaemonTypes'
      BY <1>a, <2>1, <2>2
    <2>4. ~asked[c] /\ ~asked'[c] /\ reply'[c] = <<>>
      BY <2>1, <2>2
    <2>5. \A d \in Collectors \ {c} : UNCHANGED <<doing[d], asked[d], reply[d], closed[d]>>
      BY <2>1, <2>2
    <2>6. QuietInv'
      BY <1>a, <2>1, <2>4, <2>5
    <2>7. QED BY <2>3, <2>6
  <1>6. ASSUME NEW c \in Collectors, Daemon!TimeOut(c) PROVE DaemonInv'
    BY <1>6, <1>a DEF Daemon!TimeOut, Daemon!Ends, Daemon!CloseSocket
  <1>7. ASSUME NEW c \in Collectors, Daemon!Leave(c) PROVE DaemonInv'
    BY <1>7, <1>a DEF Daemon!Leave, Daemon!CloseSocket
  <1>8. CASE Daemon!Accept \/ Daemon!Restart
    BY <1>8 DEF Daemon!Accept, Daemon!Restart, Daemon!clientVars
  <1>9. CASE Daemon!SendStats
    <2>1. /\ conn \in Collectors /\ asked[conn] /\ UNCHANGED <<doing, msg, closed>>
          /\ asked' = [asked EXCEPT ![conn] = FALSE]
          /\ reply' = [reply EXCEPT ![conn] = reply[conn] \o <<"head", "tail">>]
      BY <1>9 DEF Daemon!SendStats, Daemon!clientVars
    <2>2. /\ <<"head", "tail">> \in Seq(Parts) /\ reply[conn] = <<>>
          /\ doing[conn] = "receive"
      BY <2>1
    <2>3. reply[conn] \o <<"head", "tail">> = <<"head", "tail">>
      BY <2>2, ConcatEmptySeq
    <2>4. QED BY <2>1, <2>2, <2>3
  <1>10. CASE Daemon!SessionEnds
    BY <1>10 DEF Daemon!SessionEnds, Daemon!clientVars, Daemon!Left, Daemon!NoConn
  <1>11. CASE Daemon!Crash
    <2>1. PICK n \in 0..2 : reply' = [c \in Collectors |->
                IF n < Len(reply[c]) THEN SubSeq(reply[c], 1, n) ELSE reply[c]]
      BY <1>11 DEF Daemon!Crash
    <2>2. /\ asked' = [c \in Collectors |-> FALSE] /\ closed' = [c \in Collectors |-> TRUE]
          /\ UNCHANGED <<doing, msg>>
      BY <1>11 DEF Daemon!Crash, Daemon!clientVars
    <2>3. ASSUME NEW c \in Collectors
          PROVE  /\ reply'[c] \in Seq(Parts)
                 /\ reply[c] = <<>> => reply'[c] = <<>>
                 /\ \A i \in 1..Len(reply'[c]) : reply'[c][i] = "tail" => i = Len(reply'[c])
      <3>1. reply[c] \in Seq(Parts) /\ Len(reply[c]) \in Nat
        OBVIOUS
      <3>2. CASE n < Len(reply[c])
        <4>1. \A i \in 1..n : reply[c][i] \in Parts
          BY <3>1, <3>2
        <4>2. /\ SubSeq(reply[c], 1, n) \in Seq(Parts)
              /\ Len(SubSeq(reply[c], 1, n)) = IF 1 <= n THEN n - 1 + 1 ELSE 0
              /\ \A i \in 1..n - 1 + 1 : SubSeq(reply[c], 1, n)[i] = reply[c][1 + i - 1]
          <5> HIDE DEF DaemonInv
          <5>1. 1 \in Nat /\ n \in Nat
            BY <2>1
          <5>2. QED BY <3>1, <4>1, <5>1, SubSeqProperties, SMTT(30)
        <4>3. reply'[c] = SubSeq(reply[c], 1, n) /\ reply[c] # <<>>
          BY <1>a, <2>1, <3>1, <3>2
        <4>4. \A i \in 1..n : reply[c][i] # "tail"
          BY <3>1, <3>2
        <4>5. QED BY <4>2, <4>3, <4>4
      <3>3. CASE ~(n < Len(reply[c]))
        BY <2>1, <3>1, <3>3
      <3>4. QED BY <3>2, <3>3
    <2>4. reply' \in [Collectors -> Seq(Parts)]
      BY <2>1, <2>3
    <2>5. QED BY <2>2, <2>3, <2>4
  <1>12. QED
    BY <1>1, <1>2, <1>3, <1>4, <1>5, <1>6, <1>7, <1>8, <1>9, <1>10, <1>11
    DEF Daemon!Next, Daemon!Collecting, Daemon!Server

LEMMA DaemonStays == DaemonInv /\ UNCHANGED daemonVars => DaemonInv'
  BY DEF daemonVars, DaemonInv, DaemonTypes, QuietInv

\* GuestNetworkDaemon.collect: whatever came too late, was cut or was lost,
\* nothing of an earlier answer is before a question, so that the answer was
\* measured for it.
THEOREM QuestionsAreAnswered == Spec => []NothingLeftOver
  <1>1. DaemonInv /\ [Next]_vars => DaemonInv'
    <2> SUFFICES ASSUME DaemonInv, [Next]_vars PROVE DaemonInv'
      OBVIOUS
    <2>1. (part = "daemon" /\ Daemon!Next) \/ UNCHANGED daemonVars
      BY DEF Next, Others, vars
    <2>2. QED BY <2>1, DaemonStep, DaemonStays
  <1>2. DaemonInv => NothingLeftOver
    BY DEF DaemonInv, QuietInv, NothingLeftOver, Daemon!NothingLeftOver
  <1>3. QED BY <1>1, <1>2, DaemonInit, PTL DEF Spec
-----------------------------------------------------------------------------
(* The agent: answers that belong to their requests, unless a line was cut. *)

Lines(kinds) ==
    [kind : kinds, n : Int, file : {"none", "meminfo", "vmstat"}, fresh : BOOLEAN]
Asking == {"ping", "sync", "open", "read", "close"}
Answering == {"handle", "data", "empty", "error", "sync", "rest"}

AgentTypes ==
    /\ at \in {"idle", "libvirt", "send", "sync", "wait"} /\ step \in 0..6
    /\ agent \in {"none", "libvirt", "socket"} /\ sock \in {"none", "open", "shut"}
    /\ fh \in Int /\ seconds \in 0..Wrap - 1 /\ faults \in 0..MaxFaults
    /\ requests \in Seq(Lines(Asking)) /\ answers \in Seq(Lines(Answering))

EmptyChannel == requests = <<>> /\ answers = <<>>

\* Which client is in use, and where; a socket that is open between two calls
\* has an empty channel.
SocketInv ==
    /\ at # "idle" => (agent = "none" <=> step = 0)
    /\ at = "libvirt" => agent = "none"
    /\ agent = "none" /\ at \in {"idle", "libvirt"} => sock = "none"
    /\ at \in {"sync", "wait"} => sock # "none" /\ agent # "libvirt"
    /\ at = "sync" \/ (at = "send" /\ agent # "libvirt" /\ sock = "none") => step <= 1
    /\ at = "send" /\ agent # "libvirt" /\ step > 1 => EmptyChannel
    /\ at \in {"idle", "send"} /\ sock = "open" => EmptyChannel

OurRequest == Agent!Request

\* A call that waits has only its request or an answer in the channel.
WaitInv ==
    at = "wait" =>
        /\ Len(requests) + Len(answers) <= 1
        /\ \A i \in 1..Len(requests) : requests[i] = OurRequest
        /\ \A i \in 1..Len(answers) : answers[i].kind \notin {"sync", "rest"}

\* What is left of a line at the start is read by the first connection.
RestInv ==
    \A i \in 1..Len(answers) : answers[i].kind = "rest" => i = 1 /\ agent # "socket"

\* The number of our guest-sync is in no line but the last.
OwnSync(line, number) == line.kind = "sync" /\ line.n = number
OwnInv ==
    at = "sync" =>
        /\ \A i \in 1..Len(requests) : OwnSync(requests[i], seconds) => i = Len(requests)
        /\ \A i \in 1..Len(answers) :
              OwnSync(answers[i], seconds) => i = Len(answers) /\ requests = <<>>

\* How many collect() ago the number n was used; after a fault there are at
\* most two until the next one or a synchronised connection.
Ago(n, number) == IF n <= number THEN number - n ELSE number - n + Wrap
SinceFault ==
    CASE sock = "none" -> IF at = "idle" THEN -1 ELSE 0
      [] sock = "shut" -> IF at = "send" THEN -1 ELSE -2
      [] OTHER -> 0
RestLeft == \E i \in 1..Len(answers) : answers[i].kind = "rest"
Budget == 2 * faults + SinceFault + (IF RestLeft THEN 0 ELSE 1)
Connecting == at \in {"libvirt", "send"}
Recent(line, number, budget, used) ==
    line.kind = "sync" =>
        /\ line.n \in 0..Wrap - 1 /\ Ago(line.n, number) <= budget
        /\ used => Ago(line.n, number) > 0
AgeInv ==
    agent # "libvirt" =>
        /\ \A i \in 1..Len(requests) : Recent(requests[i], seconds, Budget, Connecting)
        /\ \A i \in 1..Len(answers) : Recent(answers[i], seconds, Budget, Connecting)

\* A request of this collect() that is executed later is the one it waits for,
\* or it has failed.
FreshInv ==
    \/ at = "wait" \/ (at = "idle" /\ result # "data")
    \/ \A i \in 1..Len(requests) : requests[i].fresh => requests[i].kind \in {"sync", "ping"}

\* The files that are open are the one at hand.
MineInv ==
    /\ at \in {"libvirt", "sync"} \/ (at = "idle" /\ result = "data") => mine = {}
    /\ at \in {"send", "wait"} =>
          /\ step = 0 => mine = {}
          /\ step \in {1, 4} =>
                \/ mine = {}
                \/ /\ at = "wait" /\ requests = <<>>
                   /\ \A i \in 1..Len(answers) :
                         answers[i].kind # "error" /\ mine \subseteq {answers[i].n}
          /\ step \notin {1, 4} => mine \subseteq {fh}
    /\ at = "wait" /\ step \in {3, 6} =>
          \A i \in 1..Len(answers) : answers[i].kind = "error" \/ mine = {}

AgentInv ==
    /\ AgentTypes /\ SocketInv /\ WaitInv /\ RestInv /\ OwnInv /\ AgeInv
    /\ FreshInv /\ MineInv
AgentIInv == part = "agent" /\ ~splits => AgentInv

LEMMA StaleLines ==
    ASSUME NEW kinds, NEW s \in Seq(Lines(kinds))
    PROVE  /\ Agent!Stale(s) \in Seq(Lines(kinds)) /\ Len(Agent!Stale(s)) = Len(s)
           /\ \A i \in 1..Len(s) :
                 /\ Agent!Stale(s)[i].kind = s[i].kind /\ Agent!Stale(s)[i].n = s[i].n
                 /\ Agent!Stale(s)[i].fresh = FALSE
           /\ s = <<>> => Agent!Stale(s) = <<>>
  <1>1. Len(s) \in Nat /\ DOMAIN s = 1..Len(s) /\ s \in [1..Len(s) -> Lines(kinds)]
    BY LenProperties
  <1>2. \A i \in 1..Len(s) : [s[i] EXCEPT !.fresh = FALSE] \in Lines(kinds)
    BY <1>1 DEF Lines
  <1>3. Agent!Stale(s) \in [1..Len(s) -> Lines(kinds)]
    BY <1>1, <1>2 DEF Agent!Stale
  <1>4. Agent!Stale(s) \in Seq(Lines(kinds)) /\ Len(Agent!Stale(s)) = Len(s)
    BY <1>1, <1>3
  <1>5. s = <<>> => Agent!Stale(s) = <<>>
    BY <1>4, EmptySeq
  <1>6. ASSUME NEW i \in 1..Len(s)
        PROVE  /\ Agent!Stale(s)[i].kind = s[i].kind /\ Agent!Stale(s)[i].n = s[i].n
               /\ Agent!Stale(s)[i].fresh = FALSE
    <2>1. s[i] \in Lines(kinds) /\ Agent!Stale(s)[i] = [s[i] EXCEPT !.fresh = FALSE]
      BY <1>1 DEF Agent!Stale
    <2>2. QED BY <2>1 DEF Lines
  <1>7. QED BY <1>4, <1>5, <1>6

LEMMA TailLines ==
    ASSUME NEW kinds, NEW s \in Seq(Lines(kinds)), s # <<>>
    PROVE  /\ Tail(s) \in Seq(Lines(kinds)) /\ Head(s) \in Lines(kinds) /\ Head(s) = s[1]
           /\ Len(s) \in Nat \ {0} /\ Len(Tail(s)) = Len(s) - 1
           /\ \A i \in 1..Len(Tail(s)) : Tail(s)[i] = s[i + 1]
           /\ Len(s) = 1 => Tail(s) = <<>>
  <1>1. /\ Tail(s) \in Seq(Lines(kinds)) /\ Head(s) \in Lines(kinds)
        /\ Len(Tail(s)) = Len(s) - 1
        /\ \A i \in 1..Len(Tail(s)) : Tail(s)[i] = s[i + 1]
    BY HeadTailProperties
  <1>2. Len(s) \in Nat /\ Len(s) # 0
    BY EmptySeq, LenProperties
  <1>3. Head(s) = s[1]
    OBVIOUS
  <1>4. ASSUME Len(s) = 1 PROVE Tail(s) = <<>>
    <2>1. Len(Tail(s)) = 0
      BY <1>1, <1>2, <1>4
    <2>2. QED BY <1>1, <2>1, EmptySeq
  <1>5. QED BY <1>1, <1>2, <1>3, <1>4

LEMMA AppendLine ==
    ASSUME NEW kinds, NEW s \in Seq(Lines(kinds)), NEW line \in Lines(kinds)
    PROVE  /\ Append(s, line) \in Seq(Lines(kinds)) /\ Len(Append(s, line)) = Len(s) + 1
           /\ \A i \in 1..Len(s) : Append(s, line)[i] = s[i]
           /\ Append(s, line)[Len(s) + 1] = line
           /\ Append(s, line) # <<>> /\ Len(s) \in Nat
  BY AppendProperties, LenProperties

LEMMA EmptyLines ==
    ASSUME NEW kinds, NEW s \in Seq(Lines(kinds))
    PROVE  /\ Len(s) \in Nat /\ (s = <<>> <=> Len(s) = 0)
           /\ <<>> \in Seq(Lines(kinds)) /\ Len(<<>>) = 0
  BY EmptySeq, LenProperties

\* A number is used again after Wrap collect(), and not before.
LEMMA NextSecond ==
    ASSUME NEW s \in 0..Wrap - 1
    PROVE  (s + 1) % Wrap = IF s + 1 = Wrap THEN 0 ELSE s + 1
  <1>1. Wrap \in Nat /\ Wrap > 0
    BY EdgesAssumption
  <1>2. CASE s + 1 = Wrap
    BY <1>1, <1>2
  <1>3. CASE s + 1 # Wrap
    BY <1>1, <1>3
  <1>4. QED BY <1>2, <1>3

LEMMA OneCollectLater ==
    ASSUME NEW s \in 0..Wrap - 1, NEW line, NEW b \in Int, b + 1 < Wrap,
           Recent(line, s, b, FALSE)
    PROVE  Recent(line, (s + 1) % Wrap, b + 1, TRUE)
  BY NextSecond, EdgesAssumption DEF Recent, Ago

LEMMA CommandKinds ==
    ASSUME NEW i \in 1..6
    PROVE  /\ i \in {1, 4} => Agent!Commands[i][1] = "open"
           /\ i \in {2, 5} => Agent!Commands[i][1] = "read"
           /\ i \in {3, 6} => Agent!Commands[i][1] = "close"
           /\ Agent!Commands[i][2] \in {"meminfo", "vmstat"}
  BY DEF Agent!Commands

LEMMA RequestIs ==
    ASSUME AgentTypes
    PROVE  /\ OurRequest \in Lines(Asking) /\ OurRequest.fresh = TRUE
           /\ step = 0 => OurRequest.kind = "ping"
           /\ step \in {1, 4} => OurRequest.kind = "open"
           /\ step \in {2, 5} => OurRequest.kind = "read"
           /\ step \in {3, 6} => OurRequest.kind = "close" /\ OurRequest.n = fh
           /\ Agent!Command = OurRequest.kind
           /\ OurRequest.kind # "sync"
  <1>1. step \in 0..6 /\ fh \in Int
    BY DEF AgentTypes
  <1>2. CASE step = 0
    <2>1. /\ OurRequest = [kind |-> "ping", n |-> 0, file |-> "none", fresh |-> TRUE]
          /\ Agent!Command = "ping"
      BY <1>2 DEF OurRequest, Agent!Request, Agent!Command, Agent!Line
    <2>2. OurRequest \in Lines(Asking)
      BY <2>1 DEF Lines, Asking
    <2>3. OurRequest.kind = "ping" /\ OurRequest.fresh = TRUE
      BY <2>1
    <2>4. QED BY <1>2, <2>1, <2>2, <2>3
  <1>3. CASE step # 0
    <2>1. step \in 1..6
      BY <1>1, <1>3
    <2>2. /\ OurRequest = [kind |-> Agent!Command, n |-> fh, file |-> Agent!Commands[step][2],
                           fresh |-> TRUE]
          /\ Agent!Command = Agent!Commands[step][1]
      BY <1>3 DEF OurRequest, Agent!Request, Agent!Command, Agent!Line
    <2>3. /\ step \in {1, 4} => Agent!Command = "open"
          /\ step \in {2, 5} => Agent!Command = "read"
          /\ step \in {3, 6} => Agent!Command = "close"
          /\ Agent!Commands[step][2] \in {"meminfo", "vmstat"}
      BY <2>1, <2>2, CommandKinds
    <2>4. Agent!Command \in {"open", "read", "close"}
      BY <2>1, <2>3
    <2>5. OurRequest \in Lines(Asking)
      BY <1>1, <2>2, <2>3, <2>4 DEF Lines, Asking
    <2>6. QED BY <1>3, <2>2, <2>3, <2>4, <2>5
  <1>4. QED BY <1>2, <1>3

\* What the agent makes of a request, and of the files opened for this collect().
LEMMA ExecutesStep ==
    ASSUME NEW req \in Lines(Asking), NEW line \in Agent!Answers(req),
           Agent!Executes(req, line)
    PROVE  /\ line \in Lines(Answering) /\ line.kind # "rest"
           /\ line.kind = "sync" <=> req.kind = "sync"
           /\ req.kind = "sync" => line.n = req.n
           /\ req.kind = "ping" => line.kind = "empty"
           /\ req.kind \notin {"open", "close"} => mine' = mine
           /\ req.kind = "open" =>
                 \/ line.kind = "error" /\ mine' = mine
                 \/ /\ line.kind = "handle"
                    /\ mine' = IF req.fresh THEN mine \cup {line.n} ELSE mine
           /\ req.kind = "close" =>
                 \/ line.kind = "error" /\ mine' = mine
                 \/ line.kind = "empty" /\ mine' = mine \ {req.n}
  <1>1. CASE Agent!Refused(req)
    <2>1. line = [req EXCEPT !.kind = "error"]
      BY <1>1 DEF Agent!Answers
    <2>2. req.kind \in {"open", "read", "close"}
      BY <1>1 DEF Agent!Refused
    <2>3. line.kind = "error" /\ line \in Lines(Answering)
      BY <2>1 DEF Lines, Answering
    <2>4. mine' = mine
      BY <2>3 DEF Agent!Executes, Agent!agentVars
    <2>5. QED BY <2>2, <2>3, <2>4
  <1>2. CASE ~Agent!Refused(req)
    <2>1. CASE req.kind = "open"
      <3>1. PICK h \in Agent!Unused : line = [req EXCEPT !.kind = "handle", !.n = h]
        BY <1>2, <2>1 DEF Agent!Answers
      <3>2. h \in Int
        BY EdgesAssumption DEF Agent!Unused
      <3>3. line.kind = "handle" /\ line \in Lines(Answering)
        BY <3>1, <3>2 DEF Lines, Answering
      <3>4. mine' = IF req.fresh THEN mine \cup {line.n} ELSE mine
        BY <3>3 DEF Agent!Executes
      <3>5. QED BY <2>1, <3>3, <3>4
    <2>2. CASE req.kind = "read"
      <3>1. PICK f \in {"meminfo", "vmstat"} :
              line = [req EXCEPT !.kind = "data", !.file = f]
        BY <1>2, <2>2 DEF Agent!Answers
      <3>2. line.kind = "data" /\ line \in Lines(Answering)
        BY <3>1 DEF Lines, Answering
      <3>3. mine' = mine
        BY <2>2, <3>2 DEF Agent!Executes, Agent!agentVars
      <3>4. QED BY <2>2, <3>2, <3>3
    <2>3. CASE req.kind = "close"
      <3>1. line = [req EXCEPT !.kind = "empty"]
        BY <1>2, <2>3 DEF Agent!Answers
      <3>2. line.kind = "empty" /\ line \in Lines(Answering)
        BY <3>1 DEF Lines, Answering
      <3>3. mine' = mine \ {req.n}
        BY <2>3, <3>2 DEF Agent!Executes
      <3>4. QED BY <2>3, <3>2, <3>3
    <2>4. CASE req.kind = "sync"
      <3>1. line = req
        BY <1>2, <2>4 DEF Agent!Answers
      <3>2. line \in Lines(Answering)
        BY <2>4, <3>1 DEF Lines, Answering
      <3>3. mine' = mine
        BY <2>4, <3>1 DEF Agent!Executes, Agent!agentVars
      <3>4. QED BY <2>4, <3>1, <3>2, <3>3
    <2>5. CASE req.kind = "ping"
      <3>1. line = [req EXCEPT !.kind = "empty"]
        BY <1>2, <2>5 DEF Agent!Answers
      <3>2. line.kind = "empty" /\ line \in Lines(Answering)
        BY <3>1 DEF Lines, Answering
      <3>3. mine' = mine
        BY <2>5, <3>2 DEF Agent!Executes, Agent!agentVars
      <3>4. QED BY <2>5, <3>2, <3>3
    <2>6. QED BY <2>1, <2>2, <2>3, <2>4, <2>5 DEF Lines, Asking
  <1>3. QED BY <1>1, <1>2

\* An answer is taken, or collect() raises.
LEMMA TakeStep ==
    ASSUME AgentTypes, NEW line, NEW client, Agent!Take(line, client)
    PROVE  \/ /\ Agent!Raise(sock)
              /\ step = 0 => line.kind \in {"rest", "error"}
           \/ /\ line.kind \notin {"rest", "error"}
              /\ agent' = client /\ fh' = (IF Agent!Command = "open" THEN line.n ELSE fh)
              /\ UNCHANGED <<sock, seconds, splits>>
              /\ \/ step + 1 <= 6 /\ at' = "send" /\ step' = step + 1 /\ result' = result
                 \/ step + 1 > 6 /\ at' = "idle" /\ step' = step /\ result' = "data"
  <1>1. Len(Agent!Commands) = 6
    BY DEF Agent!Commands
  <1>2. step = 0 => Agent!Command = "ping"
    BY DEF Agent!Command
  <1> DEFINE got == IF Agent!Command = "read" THEN Append(texts, line) ELSE texts
             all == step + 1 > 6
  <1>3. CASE ~Agent!Usable(line)
                \/ (all /\ ~(got[1].file = "meminfo" /\ got[2].file = "vmstat"))
    <2>1. Agent!Raise(sock)
      BY <1>1, <1>3 DEF Agent!Take, Agent!NextStep
    <2>2. step = 0 => ~Agent!Usable(line)
      BY <1>3
    <2>3. step = 0 => line.kind \in {"rest", "error"}
      BY <1>2, <2>2 DEF Agent!Usable
    <2>4. QED BY <2>1, <2>3
  <1>4. CASE ~(~Agent!Usable(line)
                \/ (all /\ ~(got[1].file = "meminfo" /\ got[2].file = "vmstat")))
    <2>1. /\ at' = IF all THEN "idle" ELSE "send"
          /\ step' = IF all THEN step ELSE step + 1
          /\ result' = IF all THEN "data" ELSE result
          /\ agent' = client /\ fh' = (IF Agent!Command = "open" THEN line.n ELSE fh)
          /\ UNCHANGED <<sock, seconds, splits>>
      BY <1>1, <1>4 DEF Agent!Take, Agent!NextStep
    <2>2. line.kind \notin {"rest", "error"}
      BY <1>4 DEF Agent!Usable
    <2>3. (all /\ step + 1 > 6) \/ (~all /\ step + 1 <= 6)
      BY DEF AgentTypes
    <2>4. QED BY <2>1, <2>2, <2>3
  <1>5. QED BY <1>3, <1>4

LEMMA RecentKept ==
    ASSUME NEW line, NEW number, NEW b \in Int, NEW c \in Int, b <= c,
           NEW used \in BOOLEAN, NEW later \in BOOLEAN, later => used,
           number \in 0..Wrap - 1, Recent(line, number, b, used)
    PROVE  Recent(line, number, c, later)
  BY EdgesAssumption DEF Recent, Ago

LEMMA BudgetIs ==
    ASSUME AgentTypes
    PROVE  /\ SinceFault \in Int /\ Budget \in Int /\ SinceFault \in -2..0
           /\ RestLeft \in BOOLEAN /\ Connecting \in BOOLEAN
           /\ Budget = 2 * faults + SinceFault + (IF RestLeft THEN 0 ELSE 1)
           /\ sock = "open" => SinceFault = 0
           /\ sock = "none" => SinceFault = (IF at = "idle" THEN -1 ELSE 0)
           /\ sock = "shut" => SinceFault = (IF at = "send" THEN -1 ELSE -2)
  <1>1. /\ SinceFault \in -2..0
        /\ sock = "open" => SinceFault = 0
        /\ sock = "none" => SinceFault = (IF at = "idle" THEN -1 ELSE 0)
        /\ sock = "shut" => SinceFault = (IF at = "send" THEN -1 ELSE -2)
    BY DEF AgentTypes, SinceFault
  <1>2. RestLeft \in BOOLEAN /\ Connecting \in BOOLEAN
    BY DEF RestLeft, Connecting
  <1>3. faults \in Int
    BY EdgesAssumption DEF AgentTypes
  <1>4. QED BY <1>1, <1>2, <1>3 DEF Budget

LEMMA BudgetGrows ==
    ASSUME AgentTypes, AgentTypes', RestLeft' => RestLeft,
           SinceFault - 2 * (faults' - faults) <= SinceFault'
    PROVE  Budget <= Budget'
  <1> DEFINE rest == IF RestLeft THEN 0 ELSE 1
  <1>1. /\ faults \in Int /\ faults' \in Int
        /\ SinceFault \in Int /\ SinceFault' \in Int
    <2>1. faults \in Int /\ faults' \in Int
      BY EdgesAssumption DEF AgentTypes
    <2>2. (AgentTypes => SinceFault \in Int)'
      BY BudgetIs, PTL
    <2>3. QED BY <2>1, <2>2, BudgetIs
  <1>2. rest \in Int /\ rest' \in Int /\ rest <= rest'
    OBVIOUS
  <1>3. Budget = 2 * faults + SinceFault + rest /\ Budget' = 2 * faults' + SinceFault' + rest'
    BY DEF Budget
  <1> HIDE DEF rest
  <1>4. \A f, g, d, e, r, q \in Int :
           r <= q /\ d - 2 * (g - f) <= e => 2 * f + d + r <= 2 * g + e + q
    OBVIOUS
  <1>5. 2 * faults + SinceFault + rest <= 2 * faults' + SinceFault' + rest'
    BY <1>1, <1>2, <1>4
  <1>6. QED BY <1>3, <1>5

\* What does not change the lines, the second or the client keeps AgeInv as
\* long as the budget does not shrink.
LEMMA AgeKept ==
    ASSUME AgentTypes, AgentTypes', AgeInv, agent' # "libvirt" => agent # "libvirt",
           seconds' = seconds, Budget <= Budget', Connecting' => Connecting,
           \A i \in 1..Len(requests') : \E j \in 1..Len(requests) : requests'[i] = requests[j],
           \A i \in 1..Len(answers') : \E j \in 1..Len(answers) : answers'[i] = answers[j]
    PROVE  AgeInv'
  <1> SUFFICES ASSUME agent' # "libvirt"
               PROVE  /\ \A i \in 1..Len(requests') :
                            Recent(requests'[i], seconds', Budget', Connecting')
                      /\ \A i \in 1..Len(answers') :
                            Recent(answers'[i], seconds', Budget', Connecting')
    BY DEF AgeInv
  <1>1. Budget \in Int /\ Connecting \in BOOLEAN /\ seconds \in 0..Wrap - 1
    BY BudgetIs DEF AgentTypes
  <1>2. Budget' \in Int /\ Connecting' \in BOOLEAN
    <2>1. (AgentTypes => Budget \in Int /\ Connecting \in BOOLEAN)'
      BY BudgetIs, PTL
    <2>2. QED BY <2>1
  <1>3. ASSUME NEW line, Recent(line, seconds, Budget, Connecting)
        PROVE  Recent(line, seconds, Budget', Connecting')
    BY <1>1, <1>2, <1>3, RecentKept
  <1>4. QED BY <1>3 DEF AgeInv

LEMMA AgentInit == Init /\ part = "agent" => AgentInv
  <1> SUFFICES ASSUME Init, part = "agent" PROVE AgentInv
    OBVIOUS
  <1>1. /\ at = "idle" /\ step = 0 /\ agent = "none" /\ sock = "none" /\ mine = {}
        /\ fh = MaxHandles + 1 /\ seconds = 0 /\ faults = 0 /\ requests = <<>>
        /\ result = "none"
    BY DEF Init, Agent!Init, Agent!NoHandle
  <1>2. PICK kind \in {"empty", "rest"} : answers = <<>> \/ answers = <<Agent!Line(kind, 0, "none")>>
    BY DEF Init, Agent!Init
  <1>3. Agent!Line(kind, 0, "none") \in Lines(Answering) /\ Agent!Line(kind, 0, "none").kind = kind
    BY DEF Agent!Line, Lines, Answering
  <1> DEFINE first == Agent!Line(kind, 0, "none")
  <1> HIDE DEF first
  <1>4. answers = <<>> \/ answers = <<first>>
    BY <1>2 DEF first
  <1>5. first \in Lines(Answering) /\ first.kind \in {"empty", "rest"}
    BY <1>3 DEF first
  <1>6. /\ answers \in Seq(Lines(Answering)) /\ requests \in Seq(Lines(Asking))
        /\ Len(requests) = 0
        /\ \A i \in 1..Len(answers) : i = 1 /\ answers[i].kind \in {"empty", "rest"}
    <2>1. CASE answers = <<>>
      <3>1. answers \in Seq(Lines(Answering)) /\ requests \in Seq(Lines(Asking))
        BY <1>1, <2>1, EmptySeq
      <3>2. Len(requests) = 0 /\ Len(answers) = 0
        BY <1>1, <2>1, EmptySeq
      <3>3. QED BY <3>1, <3>2
    <2>2. CASE answers = <<first>>
      <3>1. answers \in Seq(Lines(Answering)) /\ Len(answers) = 1 /\ answers[1] = first
        BY <1>5, <2>2
      <3>2. requests \in Seq(Lines(Asking)) /\ Len(requests) = 0
        BY <1>1, EmptySeq
      <3>3. QED BY <1>5, <3>1, <3>2
    <2>3. QED BY <1>4, <2>1, <2>2
  <1>7. AgentTypes
    BY <1>1, <1>6, EdgesAssumption DEF AgentTypes
  <1>8. SocketInv /\ WaitInv /\ RestInv /\ OwnInv /\ FreshInv /\ MineInv
    BY <1>1, <1>6 DEF SocketInv, WaitInv, RestInv, OwnInv, FreshInv, MineInv
  <1>9. AgeInv
    BY <1>6 DEF AgeInv, Recent
  <1>10. QED BY <1>7, <1>8, <1>9 DEF AgentInv

LEMMA CollectKeeps == ASSUME AgentInv, Agent!Collect PROVE AgentInv'
  <1> USE DEF AgentInv
  <1>1. /\ at = "idle" /\ mine' = {} /\ fh' = MaxHandles + 1
        /\ seconds' = (seconds + 1) % Wrap
        /\ requests' = Agent!Stale(requests) /\ answers' = Agent!Stale(answers)
        /\ UNCHANGED <<agent, sock, result, faults>>
    BY DEF Agent!Collect, Agent!NoHandle
  <1>2. \/ agent = "none" /\ at' = "libvirt" /\ step' = 0
        \/ agent # "none" /\ at' = "send" /\ step' = 1
    <2>1. CASE agent = "none"
      BY <2>1 DEF Agent!Collect
    <2>2. CASE agent # "none"
      BY <2>2 DEF Agent!Collect
    <2>3. QED BY <2>1, <2>2
  <1>3. requests \in Seq(Lines(Asking)) /\ answers \in Seq(Lines(Answering))
    BY DEF AgentTypes
  <1>4. /\ requests' \in Seq(Lines(Asking)) /\ Len(requests') = Len(requests)
        /\ \A i \in 1..Len(requests) :
              /\ requests'[i].kind = requests[i].kind /\ requests'[i].n = requests[i].n
              /\ requests'[i].fresh = FALSE
        /\ requests = <<>> => requests' = <<>>
    BY <1>1, <1>3, StaleLines
  <1>5. /\ answers' \in Seq(Lines(Answering)) /\ Len(answers') = Len(answers)
        /\ \A i \in 1..Len(answers) :
              answers'[i].kind = answers[i].kind /\ answers'[i].n = answers[i].n
        /\ answers = <<>> => answers' = <<>>
    BY <1>1, <1>3, StaleLines
  <1>6. AgentTypes'
    <2>1. (seconds + 1) % Wrap \in 0..Wrap - 1
      BY NextSecond, EdgesAssumption DEF AgentTypes
    <2>2. QED BY <1>1, <1>2, <1>4, <1>5, <2>1, EdgesAssumption DEF AgentTypes
  <1>7. SocketInv' /\ WaitInv' /\ OwnInv'
    BY <1>1, <1>2, <1>4, <1>5 DEF SocketInv, WaitInv, OwnInv, EmptyChannel
  <1>8. RestInv' /\ RestLeft' = RestLeft
    BY <1>1, <1>5 DEF RestInv, RestLeft
  <1>9. FreshInv' /\ MineInv'
    BY <1>1, <1>2, <1>4 DEF FreshInv, MineInv
  <1>10. AgeInv'
    <2> SUFFICES ASSUME agent' # "libvirt"
                 PROVE  /\ \A i \in 1..Len(requests') :
                              Recent(requests'[i], seconds', Budget', Connecting')
                        /\ \A i \in 1..Len(answers') :
                              Recent(answers'[i], seconds', Budget', Connecting')
      BY DEF AgeInv
    <2>1. CASE sock = "open"
      BY <1>1, <1>4, <1>5, <2>1, EmptyLines DEF SocketInv, EmptyChannel
    <2>2. CASE sock # "open"
      <3>1. Budget' = Budget + 1 /\ Budget \in Int /\ Budget + 1 < Wrap
        <4>1. (AgentTypes => /\ SinceFault \in Int
                             /\ Budget = 2 * faults + SinceFault + (IF RestLeft THEN 0 ELSE 1)
                             /\ sock = "none" => SinceFault = (IF at = "idle" THEN -1 ELSE 0)
                             /\ sock = "shut" => SinceFault = (IF at = "send" THEN -1 ELSE -2))'
          BY BudgetIs, PTL
        <4>2. sock = "none" \/ (sock = "shut" /\ agent # "none")
          BY <1>1, <2>2 DEF AgentTypes, SocketInv
        <4>3. SinceFault' = SinceFault + 1 /\ SinceFault \in -2..-1
          BY <1>1, <1>2, <1>6, <4>1, <4>2, BudgetIs
        <4>4. faults \in 0..MaxFaults /\ RestLeft \in BOOLEAN
          BY BudgetIs DEF AgentTypes
        <4>5. QED BY <1>1, <1>6, <1>8, <4>1, <4>3, <4>4, BudgetIs, EdgesAssumption
      <3>2. Connecting' = TRUE
        BY <1>2 DEF Connecting
      <3>3. ASSUME NEW line, NEW older, older.kind = line.kind, older.n = line.n,
                   Recent(older, seconds, Budget, Connecting)
            PROVE  Recent(line, seconds', Budget', Connecting')
        <4>1. Recent(line, seconds, Budget, FALSE)
          BY <3>3 DEF Recent
        <4>2. seconds \in 0..Wrap - 1
          BY DEF AgentTypes
        <4>3. QED BY <1>1, <3>1, <3>2, <4>1, <4>2, OneCollectLater
      <3>4. QED BY <1>1, <1>4, <1>5, <3>3 DEF AgeInv
    <2>3. QED BY <2>1, <2>2
  <1>11. QED BY <1>6, <1>7, <1>8, <1>9, <1>10

LEMMA LibvirtFailsKeeps == ASSUME AgentInv, Agent!LibvirtFails PROVE AgentInv'
  <1> USE DEF AgentInv
  <1>1. CASE at = "libvirt"
    <2>1. /\ at' = "send"
          /\ UNCHANGED <<step, agent, sock, fh, seconds, requests, answers, mine, result, faults>>
      BY <1>1 DEF Agent!LibvirtFails, Agent!callVars, Agent!agentVars
    <2>2. AgentTypes'
      BY <2>1 DEF AgentTypes
    <2>3. SocketInv' /\ WaitInv' /\ RestInv' /\ OwnInv' /\ FreshInv' /\ MineInv'
      BY <1>1, <2>1 DEF SocketInv, WaitInv, RestInv, OwnInv, FreshInv, MineInv, EmptyChannel
    <2>4. Budget' = Budget /\ Connecting' = Connecting
      BY <1>1, <2>1 DEF SocketInv, Budget, SinceFault, RestLeft, Connecting
    <2>5. AgeInv'
      BY <2>1, <2>4 DEF AgeInv
    <2>6. QED BY <2>2, <2>3, <2>5
  <1>2. CASE at # "libvirt"
    <2>1. /\ at = "send" /\ agent = "libvirt" /\ at' = "idle" /\ result' = "failed"
          /\ faults < MaxFaults /\ faults' = faults + 1
          /\ sock' = IF step = 0 THEN "none" ELSE sock
          /\ UNCHANGED <<step, agent, fh, seconds, requests, answers, mine>>
      BY <1>2 DEF Agent!LibvirtFails, Agent!agentVars, Agent!Raise, Agent!Fault
    <2>2. step # 0
      BY <2>1 DEF SocketInv
    <2>3. AgentTypes'
      BY <2>1, EdgesAssumption DEF AgentTypes
    <2>4. SocketInv' /\ WaitInv' /\ RestInv' /\ OwnInv'
      BY <2>1, <2>2 DEF SocketInv, WaitInv, RestInv, OwnInv, EmptyChannel
    <2>5. FreshInv' /\ MineInv' /\ AgeInv'
      BY <2>1 DEF FreshInv, MineInv, AgeInv
    <2>6. QED BY <2>3, <2>4, <2>5
  <1>3. QED BY <1>1, <1>2

\* collect() raises and leaves the channel as it is.
LEMMA RaiseKeeps ==
    ASSUME AgentInv, at \in {"send", "sync", "wait"}, NEW left \in {"none", "shut"},
           Agent!Raise(left), UNCHANGED <<requests, answers, mine>>,
           faults' = faults \/ (faults < MaxFaults /\ faults' = faults + 1),
           left = "shut" => sock = "shut" /\ at # "send",
           left = "none" => sock = "shut" \/ EmptyChannel \/ faults' = faults + 1
    PROVE  AgentInv'
  <1> USE DEF AgentInv
  <1>1. /\ at' = "idle" /\ result' = "failed" /\ sock' = (IF step = 0 THEN "none" ELSE left)
        /\ UNCHANGED <<step, agent, fh, seconds, requests, answers, mine>>
    BY DEF Agent!Raise
  <1>2. AgentTypes'
    BY <1>1, EdgesAssumption DEF AgentTypes
  <1>3. SocketInv' /\ WaitInv' /\ OwnInv'
    BY <1>1 DEF SocketInv, WaitInv, OwnInv, AgentTypes
  <1>4. RestInv' /\ FreshInv' /\ MineInv' /\ RestLeft' = RestLeft
    BY <1>1 DEF RestInv, FreshInv, MineInv, RestLeft
  <1>5. AgeInv'
    <2>1. CASE EmptyChannel
      BY <1>1, <2>1, EmptyLines DEF AgeInv, EmptyChannel, AgentTypes
    <2>2. CASE ~EmptyChannel
      <3>1. (AgentTypes => /\ SinceFault \in Int
                           /\ sock = "none" => SinceFault = (IF at = "idle" THEN -1 ELSE 0)
                           /\ sock = "shut" => SinceFault = (IF at = "send" THEN -1 ELSE -2))'
        BY BudgetIs, PTL
      <3>2. CASE sock = "shut"
        <4>1. SinceFault <= SinceFault'
          BY <1>1, <1>2, <3>1, <3>2, BudgetIs
        <4>2. SinceFault - 2 * (faults' - faults) <= SinceFault'
          BY <1>2, <4>1, BudgetIs, <3>1, EdgesAssumption DEF AgentTypes
        <4>3. Budget <= Budget'
          BY <1>2, <1>4, <4>2, BudgetGrows
        <4>4. QED BY <1>1, <1>2, <4>3, AgeKept DEF Connecting
      <3>3. CASE sock # "shut"
        <4>1. faults' = faults + 1 /\ SinceFault' = -1 /\ SinceFault \in -2..0
          BY <1>1, <1>2, <2>2, <3>1, <3>3, BudgetIs
        <4>2. SinceFault - 2 * (faults' - faults) <= SinceFault'
          BY <4>1, EdgesAssumption DEF AgentTypes
        <4>3. Budget <= Budget'
          BY <1>2, <1>4, <4>2, BudgetGrows
        <4>4. QED BY <1>1, <1>2, <4>3, AgeKept DEF Connecting
      <3>4. QED BY <3>2, <3>3
    <2>3. QED BY <2>1, <2>2
  <1>6. QED BY <1>2, <1>3, <1>4, <1>5

LEMMA ConnectFailsKeeps == ASSUME AgentInv, Agent!ConnectFails PROVE AgentInv'
  BY RaiseKeeps DEF Agent!ConnectFails, Agent!agentVars, Agent!Fault

LEMMA SendFailsKeeps == ASSUME AgentInv, Agent!SendFails PROVE AgentInv'
  BY RaiseKeeps DEF Agent!SendFails, Agent!agentVars

LEMMA ReceiveNothingKeeps == ASSUME AgentInv, Agent!ReceiveNothing PROVE AgentInv'
  BY RaiseKeeps DEF Agent!ReceiveNothing, Agent!agentVars

LEMMA TimeOutKeeps == ASSUME AgentInv, Agent!TimeOut PROVE AgentInv'
  <1>1. /\ at \in {"sync", "wait"} /\ answers = <<>> /\ Agent!Raise("none")
        /\ UNCHANGED <<requests, answers, mine>>
        /\ requests = <<>> => faults' = faults
        /\ requests # <<>> => faults < MaxFaults /\ faults' = faults + 1
    BY DEF Agent!TimeOut, Agent!Fault, Agent!agentVars
  <1>2. requests = <<>> => EmptyChannel
    BY <1>1 DEF EmptyChannel
  <1>3. QED BY <1>1, <1>2, RaiseKeeps

LEMMA ConnectKeeps == ASSUME AgentInv, Agent!Connect PROVE AgentInv'
  <1> USE DEF AgentInv
  <1> DEFINE ours == Agent!Line("sync", seconds, "none")
  <1>1. /\ at = "send" /\ agent # "libvirt" /\ sock = "none" /\ sock' = "open" /\ at' = "sync"
        /\ requests' = Append(requests, ours)
        /\ UNCHANGED <<step, agent, fh, seconds, answers, mine, result, faults>>
    BY DEF Agent!Connect, Agent!agentVars
  <1>2. /\ ours \in Lines(Asking) /\ ours.kind = "sync" /\ ours.n = seconds
    BY DEF Agent!Line, Lines, Asking, AgentTypes
  <1> HIDE DEF ours
  <1>3. /\ requests' \in Seq(Lines(Asking)) /\ Len(requests') = Len(requests) + 1
        /\ \A i \in 1..Len(requests) : requests'[i] = requests[i]
        /\ requests'[Len(requests) + 1] = ours /\ Len(requests) \in Nat
    BY <1>1, <1>2, AppendLine DEF AgentTypes
  <1>4. AgentTypes' /\ SocketInv' /\ WaitInv'
    BY <1>1, <1>3 DEF AgentTypes, SocketInv, WaitInv
  <1>5. RestInv' /\ RestLeft' = RestLeft
    BY <1>1 DEF RestInv, RestLeft
  <1>6. FreshInv'
    BY <1>1, <1>2, <1>3 DEF FreshInv
  <1>7. MineInv'
    BY <1>1 DEF MineInv, SocketInv, AgentTypes
  <1>8. Budget' = Budget /\ Budget \in Nat /\ Connecting = TRUE /\ Connecting' = FALSE
    <2>1. (AgentTypes => /\ Budget = 2 * faults + SinceFault + (IF RestLeft THEN 0 ELSE 1)
                         /\ sock = "open" => SinceFault = 0)'
      BY BudgetIs, PTL
    <2>2. SinceFault = 0 /\ SinceFault' = 0
      BY <1>1, <1>4, <2>1, BudgetIs
    <2>3. QED BY <1>1, <1>4, <1>5, <2>1, <2>2, BudgetIs, EdgesAssumption
          DEF AgentTypes, Connecting
  <1>9. seconds \in 0..Wrap - 1 /\ Wrap \in Nat
    BY EdgesAssumption DEF AgentTypes
  <1>10. ASSUME NEW line, Recent(line, seconds, Budget, Connecting)
         PROVE  ~OwnSync(line, seconds) /\ Recent(line, seconds', Budget', Connecting')
    BY <1>1, <1>8, <1>9, <1>10 DEF Recent, OwnSync, Ago
  <1>11. Recent(ours, seconds', Budget', Connecting')
    BY <1>1, <1>2, <1>8, <1>9 DEF Recent, Ago
  <1>12. /\ \A i \in 1..Len(requests) : Recent(requests[i], seconds, Budget, Connecting)
         /\ \A i \in 1..Len(answers) : Recent(answers[i], seconds, Budget, Connecting)
    BY <1>1 DEF AgeInv
  <1>13. AgeInv'
    BY <1>1, <1>3, <1>10, <1>11, <1>12 DEF AgeInv
  <1>14. OwnInv'
    BY <1>1, <1>3, <1>10, <1>12 DEF OwnInv
  <1>15. QED BY <1>4, <1>5, <1>6, <1>7, <1>13, <1>14

LEMMA ReadSyncKeeps == ASSUME AgentInv, Agent!ReadSync PROVE AgentInv'
  <1> USE DEF AgentInv
  <1> DEFINE first == Head(answers)
  <1>1. /\ at = "sync" /\ answers # <<>> /\ answers' = Tail(answers)
        /\ UNCHANGED <<requests, mine, faults>>
        /\ \/ first.kind = "rest" /\ Agent!Raise(sock)
           \/ /\ at' = IF Agent!Synchronised(first) THEN "send" ELSE "sync"
              /\ UNCHANGED <<step, agent, sock, fh, seconds, result>>
    BY DEF Agent!ReadSync, Agent!callVars, Agent!agentVars
  <1>2. /\ answers' \in Seq(Lines(Answering)) /\ first = answers[1]
        /\ Len(answers) \in Nat \ {0} /\ Len(answers') = Len(answers) - 1
        /\ \A i \in 1..Len(answers') : answers'[i] = answers[i + 1]
        /\ Len(answers) = 1 => answers' = <<>>
    BY <1>1, TailLines DEF AgentTypes
  <1>3. Len(requests) \in Nat
    BY EmptyLines DEF AgentTypes
  <1>4. ~RestLeft' /\ RestInv'
    <2>1. \A i \in 1..Len(answers') : answers'[i].kind # "rest"
      BY <1>2 DEF RestInv
    <2>2. QED BY <2>1 DEF RestLeft, RestInv
  <1>5. \A i \in 1..Len(answers') : \E j \in 1..Len(answers) : answers'[i] = answers[j]
    <2>1. \A i \in 1..Len(answers') : i + 1 \in 1..Len(answers)
      BY <1>2
    <2>2. QED BY <1>2, <2>1
  <1>6. \A i \in 1..Len(requests') : \E j \in 1..Len(requests) : requests'[i] = requests[j]
    BY <1>1
  <1>7. CASE first.kind = "rest" /\ Agent!Raise(sock)
    <2>1. step = 0 /\ sock # "none" /\ agent # "libvirt"
      <3>1. agent # "socket" /\ agent # "libvirt"
        BY <1>1, <1>2, <1>7 DEF RestInv, SocketInv
      <3>2. QED BY <1>1, <3>1 DEF SocketInv, AgentTypes
    <2>2. /\ at' = "idle" /\ result' = "failed" /\ sock' = "none"
          /\ UNCHANGED <<step, agent, fh, seconds>>
      BY <1>7, <2>1 DEF Agent!Raise
    <2>3. AgentTypes' /\ SocketInv' /\ WaitInv' /\ OwnInv' /\ FreshInv' /\ MineInv'
      BY <1>1, <1>2, <2>1, <2>2
      DEF AgentTypes, SocketInv, WaitInv, OwnInv, FreshInv, MineInv
    <2>4. Budget <= Budget'
      <3>1. (AgentTypes =>
                /\ Budget = 2 * faults + SinceFault + (IF RestLeft THEN 0 ELSE 1)
                /\ sock = "none" => SinceFault = (IF at = "idle" THEN -1 ELSE 0))'
        BY BudgetIs, PTL
      <3>2. RestLeft
        BY <1>2, <1>7 DEF RestLeft
      <3>3. SinceFault' = -1 /\ SinceFault \in -2..0
        BY <2>2, <2>3, <3>1, BudgetIs
      <3>4. QED BY <1>1, <1>4, <2>3, <3>1, <3>2, <3>3, BudgetIs, EdgesAssumption DEF AgentTypes
    <2>5. AgeInv'
      BY <1>5, <1>6, <2>2, <2>3, <2>4, AgeKept DEF Connecting
    <2>6. QED BY <1>4, <2>3, <2>5
  <1>8. CASE /\ at' = IF Agent!Synchronised(first) THEN "send" ELSE "sync"
             /\ UNCHANGED <<step, agent, sock, fh, seconds, result>>
    <2>1. AgentTypes' /\ WaitInv' /\ FreshInv' /\ MineInv'
      BY <1>1, <1>2, <1>8 DEF AgentTypes, WaitInv, FreshInv, MineInv, SocketInv
    <2>2. CASE Agent!Synchronised(first)
      <3>1. requests' = <<>> /\ answers' = <<>>
        <4>1. OwnSync(answers[1], seconds)
          BY <1>2, <2>2 DEF Agent!Synchronised, OwnSync
        <4>2. at = "sync" /\ 1 \in 1..Len(answers)
          BY <1>1, <1>2
        <4>3. 1 = Len(answers) /\ requests = <<>>
          BY <4>1, <4>2 DEF OwnInv
        <4>4. QED BY <1>1, <1>2, <4>3
      <3>2. SocketInv' /\ OwnInv'
        BY <1>1, <1>8, <2>2, <3>1 DEF SocketInv, OwnInv, EmptyChannel
      <3>3. AgeInv'
        BY <3>1, EmptyLines DEF AgeInv
      <3>4. QED BY <1>4, <2>1, <3>2, <3>3
    <2>3. CASE ~Agent!Synchronised(first)
      <3>1. at' = "sync"
        BY <1>8, <2>3
      <3>2. SocketInv'
        BY <1>1, <1>8, <3>1 DEF SocketInv
      <3>3. OwnInv'
        <4>1. at = "sync"
          BY <1>1
        <4>2. ASSUME NEW i \in 1..Len(answers'), OwnSync(answers'[i], seconds)
              PROVE  i = Len(answers') /\ requests = <<>>
          <5>1. i + 1 \in 1..Len(answers) /\ OwnSync(answers[i + 1], seconds)
            BY <1>2, <4>2
          <5>2. i + 1 = Len(answers) /\ requests = <<>>
            BY <4>1, <5>1 DEF OwnInv
          <5>3. QED BY <1>2, <5>2
        <4>3. QED BY <1>1, <1>8, <4>1, <4>2 DEF OwnInv
      <3>4. Budget <= Budget'
        <4>1. SinceFault' = SinceFault /\ faults' = faults
          BY <1>1, <1>8, <3>1 DEF SinceFault
        <4>2. SinceFault - 2 * (faults' - faults) <= SinceFault'
          BY <4>1, BudgetIs, EdgesAssumption DEF AgentTypes
        <4>3. QED BY <1>4, <2>1, <4>2, BudgetGrows
      <3>5. AgeInv'
        BY <1>5, <1>6, <1>8, <2>1, <3>1, <3>4, AgeKept DEF Connecting
      <3>6. QED BY <1>4, <2>1, <3>2, <3>3, <3>5
    <2>4. QED BY <2>2, <2>3
  <1>9. QED BY <1>1, <1>7, <1>8

LEMMA SendKeeps == ASSUME AgentInv, Agent!Send PROVE AgentInv'
  <1> USE DEF AgentInv
  <1>1. /\ at = "send" /\ agent # "libvirt" /\ sock = "open" /\ at' = "wait"
        /\ requests' = Append(requests, OurRequest)
        /\ UNCHANGED <<step, agent, sock, fh, seconds, answers, mine, result, faults>>
    BY DEF Agent!Send, Agent!callVars, Agent!agentVars, OurRequest
  <1>2. requests = <<>> /\ answers = <<>>
    BY <1>1 DEF SocketInv, EmptyChannel
  <1>3. /\ OurRequest \in Lines(Asking) /\ OurRequest.kind # "sync"
        /\ OurRequest' = OurRequest
    <2>1. OurRequest' = OurRequest
      BY <1>1 DEF OurRequest, Agent!Request, Agent!Command
    <2>2. QED BY <2>1, RequestIs
  <1>4. /\ requests' \in Seq(Lines(Asking)) /\ Len(requests') = 1 /\ Len(answers') = 0
        /\ requests'[1] = OurRequest
    BY <1>1, <1>2, <1>3, AppendLine, EmptyLines DEF AgentTypes
  <1>5. AgentTypes' /\ SocketInv'
    BY <1>1, <1>4 DEF AgentTypes, SocketInv
  <1>6. WaitInv' /\ RestInv' /\ OwnInv' /\ FreshInv'
    BY <1>1, <1>2, <1>3, <1>4 DEF WaitInv, RestInv, OwnInv, FreshInv
  <1>7. AgeInv'
    BY <1>2, <1>3, <1>4 DEF AgeInv, Recent
  <1>8. MineInv'
    BY <1>1, <1>4 DEF MineInv, AgentTypes
  <1>9. QED BY <1>5, <1>6, <1>7, <1>8

LEMMA ConnectionShutKeeps == ASSUME AgentInv, Agent!ConnectionShut PROVE AgentInv'
  <1> USE DEF AgentInv
  <1>1. /\ faults < MaxFaults /\ faults' = faults + 1 /\ sock = "open" /\ sock' = "shut"
        /\ answers' = answers \/ answers' = <<>>
        /\ UNCHANGED <<at, step, agent, fh, seconds, requests, mine, result>>
    BY DEF Agent!ConnectionShut, Agent!Fault, Agent!agentVars
  <1>2. answers' \in Seq(Lines(Answering)) /\ (answers' = answers \/ Len(answers') = 0)
    BY <1>1, EmptyLines DEF AgentTypes
  <1>3. OurRequest' = OurRequest
    BY <1>1 DEF OurRequest, Agent!Request, Agent!Command
  <1>4. AgentTypes'
    BY <1>1, <1>2, EdgesAssumption DEF AgentTypes
  <1>5. SocketInv'
    BY <1>1 DEF SocketInv, EmptyChannel
  <1>6. WaitInv'
    BY <1>1, <1>2, <1>3, EmptyLines DEF WaitInv, AgentTypes
  <1>7. RestInv' /\ OwnInv' /\ FreshInv'
    BY <1>1, <1>2 DEF RestInv, OwnInv, FreshInv
  <1>8. MineInv'
    BY <1>1, <1>2 DEF MineInv
  <1>9. AgeInv'
    <2>1. (AgentTypes => SinceFault \in -2..0)'
      BY BudgetIs, PTL
    <2>2. RestLeft' => RestLeft
      BY <1>2 DEF RestLeft
    <2>3. Budget <= Budget'
      <3>1. SinceFault - 2 * (faults' - faults) <= SinceFault'
        BY <1>1, <1>4, <2>1, BudgetIs, EdgesAssumption DEF AgentTypes
      <3>2. QED BY <1>4, <2>2, <3>1, BudgetGrows
    <2>4. Connecting' = Connecting
      BY <1>1 DEF Connecting
    <2>5. QED BY <1>1, <1>2, <1>4, <2>3, <2>4, AgeKept
  <1>10. QED BY <1>4, <1>5, <1>6, <1>7, <1>8, <1>9

LEMMA AgentRestartsKeeps == ASSUME AgentInv, Agent!AgentRestarts PROVE AgentInv'
  <1> USE DEF AgentInv
  <1>1. /\ faults < MaxFaults /\ faults' = faults + 1 /\ mine' = {}
        /\ requests' = requests \/ (requests # <<>> /\ requests' = Tail(requests))
        /\ UNCHANGED <<at, step, agent, sock, fh, seconds, answers, result>>
    BY DEF Agent!AgentRestarts, Agent!Fault, Agent!callVars
  <1>2. Len(requests) \in Nat /\ Len(answers) \in Nat
    BY EmptyLines DEF AgentTypes
  <1>3. /\ requests' \in Seq(Lines(Asking)) /\ (requests = <<>> => requests' = <<>>)
        /\ \/ requests' = requests
           \/ /\ Len(requests') = Len(requests) - 1
              /\ \A i \in 1..Len(requests') :
                    i + 1 \in 1..Len(requests) /\ requests'[i] = requests[i + 1]
    <2>1. CASE requests' = requests
      BY <2>1 DEF AgentTypes
    <2>2. CASE requests # <<>> /\ requests' = Tail(requests)
      <3>1. /\ requests' \in Seq(Lines(Asking)) /\ Len(requests') = Len(requests) - 1
            /\ \A i \in 1..Len(requests') : requests'[i] = requests[i + 1]
        BY <2>2, TailLines DEF AgentTypes
      <3>2. \A i \in 1..Len(requests') : i + 1 \in 1..Len(requests)
        BY <1>2, <3>1
      <3>3. QED BY <2>2, <3>1, <3>2
    <2>3. QED BY <1>1, <2>1, <2>2
  <1>4. OurRequest' = OurRequest
    BY <1>1 DEF OurRequest, Agent!Request, Agent!Command
  <1>5. AgentTypes'
    BY <1>1, <1>3, EdgesAssumption DEF AgentTypes
  <1>6. SocketInv' /\ RestInv'
    BY <1>1, <1>3 DEF SocketInv, RestInv, EmptyChannel
  <1>7. WaitInv' /\ FreshInv'
    BY <1>1, <1>2, <1>3, <1>4 DEF WaitInv, FreshInv
  <1>8. OwnInv'
    BY <1>1, <1>2, <1>3 DEF OwnInv
  <1>9. MineInv'
    BY <1>1 DEF MineInv
  <1>10. AgeInv'
    <2>1. SinceFault' = SinceFault /\ RestLeft' = RestLeft /\ Connecting' = Connecting
      BY <1>1 DEF SinceFault, RestLeft, Connecting
    <2>2. SinceFault - 2 * (faults' - faults) <= SinceFault'
      BY <1>1, <2>1, BudgetIs, EdgesAssumption DEF AgentTypes
    <2>3. Budget <= Budget'
      BY <1>5, <2>1, <2>2, BudgetGrows
    <2>4. /\ \A i \in 1..Len(requests') : \E j \in 1..Len(requests) : requests'[i] = requests[j]
          /\ \A i \in 1..Len(answers') : \E j \in 1..Len(answers) : answers'[i] = answers[j]
      BY <1>1, <1>3
    <2>5. QED BY <1>1, <1>5, <2>1, <2>3, <2>4, AgeKept
  <1>11. QED BY <1>5, <1>6, <1>7, <1>8, <1>9, <1>10

LEMMA AgentAnswersKeeps == ASSUME AgentInv, Agent!AgentAnswers PROVE AgentInv'
  <1> USE DEF AgentInv
  <1> DEFINE req == Head(requests)
  <1>1. /\ requests # <<>> /\ requests' = Tail(requests)
        /\ UNCHANGED <<at, step, agent, sock, fh, seconds, result, faults>>
    BY DEF Agent!AgentAnswers, Agent!callVars
  <1>2. PICK line \in Agent!Answers(req) :
          Agent!Executes(req, line) /\ answers' = Append(answers, line)
    BY DEF Agent!AgentAnswers
  <1>3. /\ requests' \in Seq(Lines(Asking)) /\ req \in Lines(Asking) /\ req = requests[1]
        /\ Len(requests) \in Nat \ {0} /\ Len(requests') = Len(requests) - 1
        /\ \A i \in 1..Len(requests') : requests'[i] = requests[i + 1]
        /\ Len(requests) = 1 => requests' = <<>>
    BY <1>1, TailLines DEF AgentTypes
  <1>4. line \in Lines(Answering) /\ line.kind # "rest"
    BY <1>2, <1>3, ExecutesStep
  <1>5. /\ answers' \in Seq(Lines(Answering)) /\ Len(answers') = Len(answers) + 1
        /\ \A i \in 1..Len(answers) : answers'[i] = answers[i]
        /\ answers'[Len(answers) + 1] = line /\ Len(answers) \in Nat
    BY <1>2, <1>4, AppendLine DEF AgentTypes
  <1>6. /\ line.kind = "sync" <=> req.kind = "sync"
        /\ req.kind = "sync" => line.n = req.n
        /\ req.kind \notin {"open", "close"} => mine' = mine
        /\ req.kind = "open" =>
              \/ line.kind = "error" /\ mine' = mine
              \/ line.kind = "handle" /\ mine' = IF req.fresh THEN mine \cup {line.n} ELSE mine
        /\ req.kind = "close" =>
              \/ line.kind = "error" /\ mine' = mine
              \/ line.kind = "empty" /\ mine' = mine \ {req.n}
    BY <1>2, <1>3, ExecutesStep
  <1>7. OurRequest' = OurRequest
    BY <1>1 DEF OurRequest, Agent!Request, Agent!Command
  <1>8. 1 \in 1..Len(requests) /\ \A i \in 1..Len(requests') : i + 1 \in 1..Len(requests)
    BY <1>3
  <1>9. \A i \in 1..Len(answers') : i \in 1..Len(answers) \/ i = Len(answers) + 1
    BY <1>5
  <1> HIDE DEF req
  <1>10. AgentTypes'
    BY <1>1, <1>3, <1>5 DEF AgentTypes
  <1>11. SocketInv'
    BY <1>1 DEF SocketInv, EmptyChannel
  <1>12. WaitInv'
    <2> SUFFICES ASSUME at = "wait" PROVE WaitInv'
      BY <1>1 DEF WaitInv
    <2>1. Len(requests) = 1 /\ Len(answers) = 0 /\ req = OurRequest
      BY <1>3, <1>5, <1>8 DEF WaitInv
    <2>2. line.kind \notin {"sync", "rest"}
      BY <1>4, <1>6, <2>1, RequestIs
    <2>3. Len(requests') = 0 /\ Len(answers') = 1 /\ answers'[1] = line
      BY <1>3, <1>5, <2>1
    <2>4. QED BY <2>2, <2>3 DEF WaitInv
  <1>13. RestInv' /\ RestLeft' = RestLeft
    <2>1. \A i \in 1..Len(answers') :
             answers'[i].kind = "rest" => i \in 1..Len(answers) /\ answers[i].kind = "rest"
      BY <1>4, <1>5, <1>9
    <2>2. RestInv'
      BY <1>1, <2>1 DEF RestInv
    <2>3. \A i \in 1..Len(answers) : i \in 1..Len(answers') /\ answers'[i] = answers[i]
      BY <1>5
    <2>4. RestLeft' <=> RestLeft
      BY <1>5, <2>1, <2>3 DEF RestLeft
    <2>5. QED BY <2>2, <2>4 DEF RestLeft
  <1>14. OwnInv'
    <2> SUFFICES ASSUME at = "sync" PROVE OwnInv'
      BY <1>1 DEF OwnInv
    <2>1. \A i \in 1..Len(requests) : OwnSync(requests[i], seconds) => i = Len(requests)
      BY DEF OwnInv
    <2>2. \A i \in 1..Len(answers) : ~OwnSync(answers[i], seconds)
      BY <1>1 DEF OwnInv
    <2>3. \A i \in 1..Len(requests') : OwnSync(requests'[i], seconds) => i = Len(requests')
      BY <1>3, <1>8, <2>1
    <2>4. OwnSync(line, seconds) => OwnSync(req, seconds)
      BY <1>6 DEF OwnSync
    <2>5. OwnSync(line, seconds) => requests' = <<>>
      BY <1>3, <1>8, <2>1, <2>4
    <2>6. \A i \in 1..Len(answers') :
             OwnSync(answers'[i], seconds) => i = Len(answers') /\ requests' = <<>>
      BY <1>5, <1>9, <2>2, <2>5
    <2>7. QED BY <1>1, <2>3, <2>6 DEF OwnInv
  <1>15. AgeInv'
    <2> SUFFICES ASSUME agent # "libvirt" PROVE AgeInv'
      BY <1>1 DEF AgeInv
    <2>1. Budget' = Budget /\ Connecting' = Connecting
      BY <1>1, <1>13 DEF Budget, SinceFault, Connecting
    <2>2. /\ \A i \in 1..Len(requests) : Recent(requests[i], seconds, Budget, Connecting)
          /\ \A i \in 1..Len(answers) : Recent(answers[i], seconds, Budget, Connecting)
      BY DEF AgeInv
    <2>3. Recent(line, seconds, Budget, Connecting)
      <3>1. Recent(req, seconds, Budget, Connecting)
        BY <1>3, <1>8, <2>2
      <3>2. QED BY <1>6, <3>1 DEF Recent
    <2>4. \A i \in 1..Len(requests') : Recent(requests'[i], seconds, Budget, Connecting)
      BY <1>3, <1>8, <2>2
    <2>5. \A i \in 1..Len(answers') : Recent(answers'[i], seconds, Budget, Connecting)
      BY <1>5, <1>9, <2>2, <2>3
    <2>6. QED BY <1>1, <2>1, <2>4, <2>5 DEF AgeInv
  <1>16. FreshInv'
    BY <1>1, <1>3, <1>8 DEF FreshInv
  <1>17. MineInv'
    <2>1. CASE at = "wait"
      <3>1. Len(requests) = 1 /\ Len(answers) = 0 /\ req = OurRequest
        BY <1>3, <1>5, <1>8, <2>1 DEF WaitInv
      <3>2. requests' = <<>> /\ Len(answers') = 1 /\ answers'[1] = line
        BY <1>3, <1>5, <3>1
      <3>3. /\ req.fresh = TRUE
            /\ step = 0 => req.kind = "ping"
            /\ step \in {1, 4} => req.kind = "open"
            /\ step \in {2, 5} => req.kind = "read"
            /\ step \in {3, 6} => req.kind = "close" /\ req.n = fh
            /\ step \in 0..6
        BY <3>1, RequestIs DEF AgentTypes
      <3>4. CASE step = 0 \/ step \in {2, 5}
        BY <1>1, <1>6, <2>1, <3>3, <3>4 DEF MineInv
      <3>5. CASE step \in {1, 4}
        <4>1. mine = {}
          BY <1>1, <2>1, <3>5 DEF MineInv
        <4>2. mine' = {} \/ (line.kind # "error" /\ mine' \subseteq {line.n})
          BY <1>6, <3>3, <3>5, <4>1
        <4>3. QED BY <1>1, <2>1, <3>2, <3>5, <4>2 DEF MineInv
      <3>6. CASE step \in {3, 6}
        <4>1. mine \subseteq {fh}
          BY <2>1, <3>6 DEF MineInv
        <4>2. mine' \subseteq {fh} /\ (line.kind = "error" \/ mine' = {})
          BY <1>6, <3>3, <3>6, <4>1
        <4>3. QED BY <1>1, <2>1, <3>2, <3>6, <4>2 DEF MineInv
      <3>7. QED BY <3>3, <3>4, <3>5, <3>6
    <2>2. CASE at # "wait" /\ ~(at = "idle" /\ result # "data")
      <3>1. req.fresh => req.kind \in {"sync", "ping"}
        BY <1>3, <1>8, <2>2 DEF FreshInv
      <3>2. mine' \subseteq mine
        BY <1>6, <3>1
      <3>3. QED BY <1>1, <2>2, <3>2 DEF MineInv
    <2>3. CASE at = "idle" /\ result # "data"
      BY <1>1, <2>3 DEF MineInv
    <2>4. QED BY <2>1, <2>2, <2>3
  <1>18. QED BY <1>10, <1>11, <1>12, <1>13, <1>14, <1>15, <1>16, <1>17

LEMMA LibvirtCallKeeps == ASSUME AgentInv, Agent!LibvirtCall PROVE AgentInv'
  <1> USE DEF AgentInv
  <1>1. /\ at = "libvirt" \/ (at = "send" /\ agent = "libvirt")
        /\ UNCHANGED <<requests, answers, faults>>
    BY DEF Agent!LibvirtCall
  <1>2. PICK line \in Agent!Answers(Agent!Request) :
          Agent!Executes(Agent!Request, line) /\ Agent!Take(line, "libvirt")
    BY DEF Agent!LibvirtCall
  <1> DEFINE req == OurRequest
  <1>3. /\ req \in Lines(Asking) /\ req.fresh = TRUE
        /\ step = 0 => req.kind = "ping"
        /\ step \in {1, 4} => req.kind = "open"
        /\ step \in {2, 5} => req.kind = "read"
        /\ step \in {3, 6} => req.kind = "close" /\ req.n = fh
        /\ Agent!Command = req.kind /\ step \in 0..6
    BY RequestIs DEF AgentTypes
  <1>4. Agent!Executes(req, line) /\ line \in Agent!Answers(req)
    BY <1>2 DEF OurRequest
  <1>5. line.n \in Int
    BY <1>3, <1>4, ExecutesStep DEF Lines
  <1> HIDE DEF req
  <1>6. /\ req.kind = "ping" => line.kind = "empty"
        /\ req.kind \notin {"open", "close"} => mine' = mine
        /\ req.kind = "open" =>
              \/ line.kind = "error" /\ mine' = mine
              \/ line.kind = "handle" /\ mine' = IF req.fresh THEN mine \cup {line.n} ELSE mine
        /\ req.kind = "close" =>
              \/ line.kind = "error" /\ mine' = mine
              \/ line.kind = "empty" /\ mine' = mine \ {req.n}
    BY <1>3, <1>4, ExecutesStep
  <1>7. \/ /\ Agent!Raise(sock)
           /\ step = 0 => line.kind \in {"rest", "error"}
        \/ /\ line.kind \notin {"rest", "error"}
           /\ agent' = "libvirt" /\ fh' = (IF req.kind = "open" THEN line.n ELSE fh)
           /\ UNCHANGED <<sock, seconds>>
           /\ \/ step + 1 <= 6 /\ at' = "send" /\ step' = step + 1 /\ result' = result
              \/ step + 1 > 6 /\ at' = "idle" /\ step' = step /\ result' = "data"
    BY <1>2, <1>3, TakeStep
  <1>8. at = "libvirt" => agent = "none" /\ sock = "none" /\ step = 0
    BY DEF SocketInv
  <1>9. CASE Agent!Raise(sock) /\ (step = 0 => line.kind \in {"rest", "error"})
    <2>1. step # 0
      BY <1>3, <1>6, <1>9
    <2>2. /\ at' = "idle" /\ result' = "failed" /\ agent = "libvirt"
          /\ UNCHANGED <<step, agent, sock, fh, seconds>>
      BY <1>1, <1>8, <1>9, <2>1 DEF Agent!Raise
    <2>3. AgentTypes' /\ WaitInv' /\ RestInv' /\ OwnInv' /\ AgeInv' /\ FreshInv' /\ MineInv'
      BY <1>1, <2>2
      DEF AgentTypes, WaitInv, RestInv, OwnInv, AgeInv, FreshInv, MineInv
    <2>4. SocketInv'
      BY <1>1, <2>1, <2>2 DEF SocketInv, EmptyChannel
    <2>5. QED BY <2>3, <2>4
  <1>10. CASE /\ line.kind \notin {"rest", "error"}
              /\ agent' = "libvirt" /\ fh' = (IF req.kind = "open" THEN line.n ELSE fh)
              /\ UNCHANGED <<sock, seconds>>
              /\ \/ step + 1 <= 6 /\ at' = "send" /\ step' = step + 1 /\ result' = result
                 \/ step + 1 > 6 /\ at' = "idle" /\ step' = step /\ result' = "data"
    <2>1. AgentTypes'
      BY <1>1, <1>5, <1>3, <1>10 DEF AgentTypes
    <2>2. WaitInv' /\ RestInv' /\ OwnInv' /\ AgeInv' /\ FreshInv'
      BY <1>1, <1>10 DEF WaitInv, RestInv, OwnInv, AgeInv, FreshInv
    <2>3. SocketInv'
      BY <1>1, <1>3, <1>8, <1>10 DEF SocketInv, EmptyChannel
    <2>4. CASE step = 0
      BY <1>1, <1>3, <1>6, <1>8, <1>10, <2>1, <2>2, <2>3, <2>4 DEF MineInv, SocketInv
    <2>5. CASE step \in {1, 4}
      <3>1. mine = {} /\ at = "send"
        BY <1>1, <1>8, <2>5 DEF MineInv
      <3>2. mine' = {line.n} /\ fh' = line.n
        BY <1>3, <1>6, <1>10, <2>5, <3>1
      <3>3. at' = "send" /\ step' \in {2, 5}
        BY <1>10, <2>5
      <3>4. QED BY <2>1, <2>2, <2>3, <3>2, <3>3 DEF MineInv
    <2>6. CASE step \in {2, 5}
      <3>1. mine \subseteq {fh} /\ at = "send"
        BY <1>1, <1>8, <2>6 DEF MineInv
      <3>2. mine' = mine /\ fh' = fh /\ at' = "send" /\ step' \in {3, 6}
        BY <1>3, <1>6, <1>10, <2>6
      <3>3. QED BY <2>1, <2>2, <2>3, <3>1, <3>2 DEF MineInv
    <2>7. CASE step \in {3, 6}
      <3>1. mine \subseteq {fh}
        BY <1>1, <1>8, <2>7 DEF MineInv
      <3>2. mine' = {}
        BY <1>3, <1>6, <1>10, <2>7, <3>1
      <3>3. at' \in {"send", "idle"}
        BY <1>10
      <3>4. QED BY <2>1, <2>2, <2>3, <3>2, <3>3 DEF MineInv
    <2>8. QED BY <1>3, <2>4, <2>5, <2>6, <2>7
  <1>11. QED BY <1>7, <1>9, <1>10

LEMMA ReceiveKeeps == ASSUME AgentInv, Agent!Receive PROVE AgentInv'
  <1> USE DEF AgentInv
  <1> DEFINE line == Head(answers)
  <1>1. /\ at = "wait" /\ answers # <<>> /\ answers' = Tail(answers)
        /\ Agent!Take(line, "socket") /\ UNCHANGED <<requests, mine, faults>>
    BY DEF Agent!Receive, Agent!agentVars
  <1>2. /\ line \in Lines(Answering) /\ line = answers[1] /\ Len(answers) \in Nat \ {0}
        /\ answers' \in Seq(Lines(Answering)) /\ (Len(answers) = 1 => answers' = <<>>)
    BY <1>1, TailLines DEF AgentTypes
  <1>3. Len(answers) = 1 /\ requests = <<>> /\ line.kind # "rest"
    <2>1. Len(requests) \in Nat /\ (Len(requests) = 0 => requests = <<>>)
      BY EmptyLines DEF AgentTypes
    <2>2. /\ Len(requests) + Len(answers) <= 1
          /\ \A i \in 1..Len(answers) : answers[i].kind # "rest"
      BY <1>1 DEF WaitInv
    <2>3. Len(answers) = 1 /\ Len(requests) = 0
      <3>1. Len(answers) \in Nat /\ Len(answers) # 0
        BY <1>2
      <3>2. Len(requests) \in Nat /\ Len(requests) + Len(answers) <= 1
        BY <2>1, <2>2
      <3>3. \A a, b \in Nat : a # 0 /\ b + a <= 1 => a = 1 /\ b = 0
        OBVIOUS
      <3>4. QED BY <3>1, <3>2, <3>3, Zenon
    <2>4. 1 \in 1..Len(answers)
      BY <2>3
    <2>5. line.kind # "rest"
      BY <1>2, <2>2, <2>4
    <2>6. QED BY <2>1, <2>3, <2>5
  <1>4. /\ requests' = <<>> /\ answers' = <<>> /\ Len(requests') = 0 /\ Len(answers') = 0
        /\ 1 \in 1..Len(answers)
    BY <1>1, <1>2, <1>3, EmptySeq
  <1>5. line.n \in Int
    BY <1>2 DEF Lines
  <1>6. /\ step \in {1, 4} => Agent!Command = "open"
        /\ step \notin {1, 4} => Agent!Command # "open"
        /\ step \in 0..6 /\ sock # "none" /\ agent # "libvirt"
    <2>1. step \in 0..6 /\ sock # "none" /\ agent # "libvirt"
      BY <1>1 DEF AgentTypes, SocketInv
    <2>2. /\ step \in {1, 4} => Agent!Command = "open"
          /\ step = 0 => Agent!Command = "ping"
          /\ step \in {2, 5} => Agent!Command = "read"
          /\ step \in {3, 6} => Agent!Command = "close"
      BY RequestIs
    <2>3. QED BY <2>1, <2>2
  <1>7. \/ Agent!Raise(sock)
        \/ /\ line.kind # "error"
           /\ agent' = "socket" /\ fh' = (IF Agent!Command = "open" THEN line.n ELSE fh)
           /\ UNCHANGED <<sock, seconds>>
           /\ \/ step + 1 <= 6 /\ at' = "send" /\ step' = step + 1 /\ result' = result
              \/ step + 1 > 6 /\ at' = "idle" /\ step' = step /\ result' = "data"
    BY <1>1, TakeStep
  <1> HIDE DEF line
  <1>8. AgeInv' /\ RestInv' /\ FreshInv'
    BY <1>4 DEF AgeInv, RestInv, FreshInv
  <1>9. CASE Agent!Raise(sock)
    <2>1. /\ at' = "idle" /\ result' = "failed" /\ UNCHANGED <<step, agent, fh, seconds>>
          /\ sock' = (IF step = 0 THEN "none" ELSE sock)
      BY <1>9 DEF Agent!Raise
    <2>2. AgentTypes'
      BY <1>1, <1>2, <2>1 DEF AgentTypes
    <2>3. SocketInv' /\ WaitInv' /\ OwnInv' /\ MineInv'
      BY <1>1, <1>4, <2>1 DEF SocketInv, EmptyChannel, WaitInv, OwnInv, MineInv
    <2>4. QED BY <1>8, <2>2, <2>3
  <1>10. CASE /\ line.kind # "error"
              /\ agent' = "socket" /\ fh' = (IF Agent!Command = "open" THEN line.n ELSE fh)
              /\ UNCHANGED <<sock, seconds>>
              /\ \/ step + 1 <= 6 /\ at' = "send" /\ step' = step + 1 /\ result' = result
                 \/ step + 1 > 6 /\ at' = "idle" /\ step' = step /\ result' = "data"
    <2>1. AgentTypes'
      BY <1>1, <1>2, <1>5, <1>6, <1>10 DEF AgentTypes
    <2>2. SocketInv' /\ WaitInv' /\ OwnInv'
      BY <1>4, <1>6, <1>10 DEF SocketInv, EmptyChannel, WaitInv, OwnInv
    <2>3. MineInv'
      <3>1. CASE step = 0
        BY <1>1, <1>10, <3>1 DEF MineInv
      <3>2. CASE step \in {1, 4}
        <4>1. mine \subseteq {line.n}
          BY <1>1, <1>2, <1>4, <3>2 DEF MineInv
        <4>2. fh' = line.n /\ mine' = mine /\ at' = "send" /\ step' \in {2, 5}
          BY <1>1, <1>6, <1>10, <3>2
        <4>3. QED BY <4>1, <4>2 DEF MineInv
      <3>3. CASE step \in {2, 5}
        <4>1. mine \subseteq {fh}
          BY <1>1, <3>3 DEF MineInv
        <4>2. fh' = fh /\ mine' = mine /\ at' = "send" /\ step' \in {3, 6}
          BY <1>1, <1>6, <1>10, <3>3
        <4>3. QED BY <4>1, <4>2 DEF MineInv
      <3>4. CASE step \in {3, 6}
        <4>1. mine' = {}
          BY <1>1, <1>2, <1>4, <1>10, <3>4 DEF MineInv
        <4>2. at' \in {"send", "idle"}
          BY <1>10
        <4>3. QED BY <4>1, <4>2 DEF MineInv
      <3>5. QED BY <1>6, <3>1, <3>2, <3>3, <3>4
    <2>4. QED BY <1>8, <2>1, <2>2, <2>3
  <1>11. QED BY <1>7, <1>9, <1>10

LEMMA SplitsKept == Agent!Next => splits' = splits
  BY DEF Agent!Next, Agent!Client, Agent!Faults, Agent!Collect, Agent!LibvirtCall,
         Agent!Take, Agent!Raise, Agent!LibvirtFails, Agent!Connect, Agent!ReadSync,
         Agent!Send, Agent!SendFails, Agent!Receive, Agent!TimeOut, Agent!ReceiveNothing,
         Agent!AgentAnswers, Agent!AgentRestarts, Agent!ConnectionShut, Agent!ConnectFails,
         Agent!TimeOutMidLine

LEMMA AgentStep == AgentInv /\ ~splits /\ Agent!Next => AgentInv'
  <1>1. ~splits => ~Agent!TimeOutMidLine
    BY DEF Agent!TimeOutMidLine
  <1>2. QED
    BY <1>1, CollectKeeps, LibvirtCallKeeps, LibvirtFailsKeeps, ConnectKeeps, ReadSyncKeeps,
       SendKeeps, SendFailsKeeps, ReceiveKeeps, TimeOutKeeps, ReceiveNothingKeeps,
       AgentAnswersKeeps, AgentRestartsKeeps, ConnectionShutKeeps, ConnectFailsKeeps
    DEF Agent!Next, Agent!Client, Agent!Faults

\* While another part moves, this one is not looked at.
LEMMA AgentStays == AgentIInv /\ [Next]_vars => AgentIInv'
  <1> SUFFICES ASSUME AgentIInv, [Next]_vars, part' = "agent", ~splits' PROVE AgentInv'
    BY DEF AgentIInv
  <1>1. CASE UNCHANGED vars
    BY <1>1 DEF vars, agentVars, AgentIInv, AgentInv, AgentTypes, SocketInv, EmptyChannel,
         WaitInv, OurRequest, Agent!Request, Agent!Command, RestInv, OwnInv, AgeInv, Budget,
         SinceFault, RestLeft, Connecting, FreshInv, MineInv
  <1>2. CASE Next
    <2>1. part = "agent" /\ Agent!Next
      BY <1>2 DEF Next, Others
    <2>2. ~splits
      BY <2>1, SplitsKept
    <2>3. QED BY <2>1, <2>2, AgentStep DEF AgentIInv
  <1>3. QED BY <1>1, <1>2

LEMMA AgentAlways == Spec => []AgentIInv
  <1>1. Init => AgentIInv
    BY AgentInit DEF AgentIInv
  <1>2. QED BY <1>1, AgentStays, PTL DEF Spec

\* QemuGuestAgentClient: unless a line has been cut in two, a call that waits has
\* only its own request or its own answer in the channel, after any number of
\* time-outs, restarts and shut connections.
THEOREM AnswersAreOurs == Spec => []AgentInStep
  <1>1. AgentIInv => AgentInStep
    BY DEF AgentIInv, AgentInv, WaitInv, AgentInStep, Agent!InStep
  <1>2. QED BY <1>1, AgentAlways, PTL

\* GuestQemuAgent.getfile: a collect() that reports leaves no file of its own open.
THEOREM FilesAreClosed == Spec => []NoHandleLeft
  <1>1. AgentIInv => NoHandleLeft
    BY DEF AgentIInv, AgentInv, MineInv, NoHandleLeft, Agent!NoHandleLeft
  <1>2. QED BY <1>1, AgentAlways, PTL
=============================================================================
