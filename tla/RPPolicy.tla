------------------------------ MODULE RPPolicy ------------------------------
(***************************************************************************)
(* The resource and performance policy (RPPolicy.py, class RPPolicy and    *)
(* VM_Info): after a warm-up with equal shares each round either moves     *)
(* memory from the VM with the highest rate to the one with the lowest, or *)
(* evens out the free memory, and says when the fairness has settled.      *)
(* Units, speeds and weights are those of Gradient, whose VM_Info this     *)
(* file repeats; a speed is an input here, see Fitting.                    *)
(***************************************************************************)
EXTENDS Sums, FiniteSets

CONSTANTS N, TotalMem, Least, Configured, InvWeight, Max_free, Overhead, Speeds, Frees,
          MaxRounds,     \* as in Gradient
          Min_share,     \* largest transfer
          AVE_LEN,       \* rounds of the warm-up
          Settled        \* rounds of equal fairness before the message (20)

VARIABLES phase,                 \* where the engine's thread is in evaluate
          rounds, listed, todo, known, allocated, balloon, free, speed,
          givers, takers, target, asked,   \* as in Gradient
          start, warmups,        \* the warm-up is on; its rounds
          last_fair, num_fair,   \* the fairness in 1/1000, how often it was met again
          message                \* the file: completed or not

vars == <<phase, rounds, listed, todo, known, allocated, balloon, free, speed,
          givers, takers, target, asked, start, warmups, last_fair, num_fair, message>>
fairVars == <<last_fair, num_fair, message>>

VM == 1..N
Nothing == [v \in {} |-> 0]

Init ==
    /\ phase = "wait" /\ rounds = 0 /\ listed = {} /\ todo = {} /\ known = {}
    /\ allocated = [v \in VM |-> 0] /\ balloon = Configured
    /\ free = [v \in VM |-> 0] /\ speed = [v \in VM |-> 0]
    /\ givers = Nothing /\ takers = Nothing /\ target = Nothing /\ asked = Configured
    /\ start = TRUE /\ warmups = 0
    /\ last_fair = 0 /\ num_fair = 0 /\ message = FALSE

BeginRound ==
    /\ phase = "wait" /\ rounds < MaxRounds /\ rounds' = rounds + 1
    /\ listed' \in SUBSET VM /\ todo' = listed' /\ phase' = "update"
    /\ target' = Nothing /\ givers' = Nothing /\ takers' = Nothing
    /\ UNCHANGED <<known, allocated, balloon, free, speed, asked, start, warmups, fairVars>>

First(S) == CHOOSE v \in S : \A w \in S : v <= w

\* VM_Info of the next guest: a balloon is where it was or was asked to be, or,
\* after a restart, empty; a VM that is known may have a new speed.
UpdateInfo ==
    /\ phase = "update" /\ todo # {}
    /\ LET v == First(todo) IN
        /\ known' = known \cup {v} /\ todo' = todo \ {v}
        /\ \E b \in {balloon[v], asked[v], Configured[v]} : balloon' = [balloon EXCEPT ![v] = b]
        /\ \E f \in Frees : f <= balloon'[v] /\ free' = [free EXCEPT ![v] = f]
        /\ \/ UNCHANGED speed
           \/ v \in known /\ \E s \in Speeds : speed' = [speed EXCEPT ![v] = s]
    /\ phase' = IF todo' = {} THEN "evaluate" ELSE "update"
    /\ UNCHANGED <<rounds, listed, allocated, givers, takers, target, asked, start,
                   warmups, fairVars>>

\* The list is empty: no guest is ready.
NoGuests ==
    /\ phase = "update" /\ todo = {} /\ phase' = "evaluate"
    /\ UNCHANGED <<rounds, listed, todo, known, allocated, balloon, free, speed, givers,
                   takers, target, asked, start, warmups, fairVars>>

Valid(v, share) == Least <= share /\ share <= Configured[v]
Targets(S, shares) == [v \in {w \in S \cap listed : Valid(w, shares[w])} |-> shares[v]]

\* firstTime, AVE_LEN times; without a VM the division ends the engine's thread.
FirstTime ==
    /\ phase = "evaluate" /\ start /\ warmups' = warmups + 1
    /\ \/ known = {} /\ phase' = "no_vm" /\ UNCHANGED <<allocated, target, start>>
       \/ /\ known # {} /\ phase' = "control" /\ start' = (warmups' < AVE_LEN)
          /\ allocated' = [v \in VM |->
                IF v \in known THEN TotalMem \div Cardinality(known) ELSE 0]
          /\ target' = Targets(known, allocated')
    /\ UNCHANGED <<rounds, listed, todo, known, balloon, free, speed, givers, takers,
                   asked, fairVars>>

Rate(v) == speed[v] * InvWeight[v]
Idle == {v \in known : free[v] >= Max_free}

Decides == phase = "evaluate" /\ ~start
Decide(g, t) ==
    /\ givers' = g /\ takers' = t /\ phase' = "trigger"
    /\ UNCHANGED <<rounds, listed, todo, known, allocated, balloon, free, speed, target,
                   asked, start, warmups>>

\* Jain's index of the rates, rounded to thousandths.
Fairness ==
    LET s == Sum([v \in VM |-> IF v \in known THEN Rate(v) ELSE 0])
        q == Sum([v \in VM |-> IF v \in known THEN Rate(v) * Rate(v) ELSE 0])
        n == Cardinality(known)
    IN  (2000 * s * s + n * q) \div (2 * n * q)

UpdateMessage ==
    IF Fairness = last_fair
    THEN /\ num_fair' = num_fair + 1 /\ UNCHANGED last_fair
         /\ message' = (message \/ num_fair + 1 >= Settled)
    ELSE last_fair' = Fairness /\ num_fair' = 0 /\ UNCHANGED message

\* dynamic_allocate: a VM without a rate makes it return.
NoRate ==
    /\ Decides /\ Idle = {} /\ \E v \in known : Rate(v) <= 0
    /\ Decide(Nothing, Nothing) /\ UNCHANGED fairVars

Lowest == {v \in known : \A w \in known : Rate(v) <= Rate(w)}
Dist2low(v) == allocated[v] - Least
Dist2high(v) == Max_free - free[v]
MinOf(a, b) == IF a <= b THEN a ELSE b

\* Deviation: the VM at the top of the ranking gives, whatever it has.
TopGives(t) == {g \in known \ {t} : \A w \in known \ {t} : Rate(w) <= Rate(g)}

\* The search from the end of the ranking, down to and without its first VM.
Giver(t) ==
    {g \in known \ {t} : /\ Dist2low(g) > 0
                         /\ \A w \in known \ {t} : Dist2low(w) > 0 => Rate(w) <= Rate(g)}

\* Of VMs with equal rates any may be ranked first.
DynamicAllocate ==
    /\ Decides /\ Idle = {} /\ known # {} /\ \A v \in known : Rate(v) > 0
    /\ UpdateMessage
    /\ \E t \in Lowest :
          \/ Giver(t) = {} /\ Decide(Nothing, Nothing)
          \/ \E g \in Giver(t) :
                LET blk == MinOf(MinOf(Dist2low(g), Dist2high(t)), Min_share)
                IN  Decide([v \in {g} |-> -blk], [v \in {t} |-> blk])

Used(v) == balloon[v] - free[v] + Overhead
FreeOf(v) == IF Used(v) < Least THEN Dist2low(v) ELSE free[v]
TotalFree == Sum([v \in VM |-> IF v \in known THEN FreeOf(v) ELSE 0])

\* meanByFree: what a VM has more than its share, or less.
MeanByFree ==
    /\ Decides /\ Idle # {} /\ Idle # known
    /\ LET share == TotalFree \div Cardinality(known)
       IN  Decide([v \in {w \in known : share < FreeOf(w)} |-> share - FreeOf(v)],
                  [v \in {w \in known : share >= FreeOf(w)} |-> share - FreeOf(v)])
    /\ UNCHANGED fairVars

AllIdle ==
    /\ Decides /\ Idle # {} /\ Idle = known
    /\ Decide(Nothing, Nothing) /\ UNCHANGED fairVars

Change(v) == (IF v \in DOMAIN givers THEN givers[v] ELSE 0)
           + (IF v \in DOMAIN takers THEN takers[v] ELSE 0)

\* trigger_balloon of both maps; a share out of the limits is refused there.
TriggerBalloon ==
    /\ phase = "trigger" /\ phase' = "control"
    /\ allocated' = [v \in VM |-> allocated[v] + Change(v)]
    /\ target' = Targets(DOMAIN givers \cup DOMAIN takers, allocated')
    /\ UNCHANGED <<rounds, listed, todo, known, balloon, free, speed, givers, takers,
                   asked, start, warmups, fairVars>>

ProcessBalloon ==
    /\ phase = "control" /\ phase' = "wait"
    /\ asked' = [v \in VM |-> IF v \in DOMAIN target THEN target[v] ELSE asked[v]]
    /\ UNCHANGED <<rounds, listed, todo, known, allocated, balloon, free, speed, givers,
                   takers, target, start, warmups, fairVars>>

Next ==
    \/ BeginRound \/ UpdateInfo \/ NoGuests \/ FirstTime \/ NoRate \/ DynamicAllocate
    \/ MeanByFree \/ AllIdle \/ TriggerBalloon \/ ProcessBalloon

Spec == Init /\ [][Next]_vars
-----------------------------------------------------------------------------
\* A fairness transfer goes from a VM to one that does not do better, comes from
\* the best VM that has anything above Min, leaves it Min, and gives no more than
\* the taker lacks to be idle.
TransferIsFair ==
    phase = "trigger" /\ Idle = {} =>
        \A g \in DOMAIN givers, t \in DOMAIN takers :
            /\ g # t /\ givers[g] < 0 /\ givers[g] + takers[t] = 0 /\ Rate(t) <= Rate(g)
            /\ allocated[g] + givers[g] >= Least
            /\ free[t] + takers[t] <= Max_free
            /\ \A v \in known : Rate(v) > Rate(g) => allocated[v] <= Least
=============================================================================
