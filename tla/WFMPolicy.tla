----------------------------- MODULE WFMPolicy -----------------------------
(***************************************************************************)
(* The long-term fair policy (WFMPolicy.py): every listed VM gets MinLoc,  *)
(* and the rest of the memory goes to them in the order of what they have  *)
(* used so far for their weight.                                           *)
(***************************************************************************)
EXTENDS Sums, FiniteSets

CONSTANTS TotalMem,     \* host.mem_available * total_mem_ratio
          MinLoc,
          Configured,   \* balloon_max of each VM
          InvWeight,    \* 1 / Weight of each VM (its rounding is left out)
          Overhead,     \* what updateUsed adds
          Frees, Swaps, \* the free memory and the swap that are measured
          MaxRounds     \* bound on rounds

VARIABLES stage,        \* where the engine's thread is in evaluate
          rounds, listed, todo, balloon, free, asked,   \* as in Gradient
          swap,         \* the swap usage of each VM
          total_used,   \* what a VM has used, summed over the rounds
          left,         \* total_mem, which the loops count down
          unserved,     \* the VMs behind index in the ranking
          alloc,        \* attribute Allocated
          hungry        \* history: listed always, with no free memory, the most
                        \*   swap and the balloon that was asked for

vars == <<stage, rounds, listed, todo, balloon, free, asked, swap, total_used,
          left, unserved, alloc, hungry>>

VM == DOMAIN Configured

Init ==
    /\ stage = "wait" /\ rounds = 0 /\ listed = {} /\ todo = {}
    /\ balloon = Configured /\ free = [v \in VM |-> 0] /\ asked = Configured
    /\ swap = [v \in VM |-> 0] /\ total_used = [v \in VM |-> 0]
    /\ left = 0 /\ unserved = {} /\ alloc = [v \in VM |-> 0] /\ hungry = VM

BeginRound ==
    /\ stage = "wait" /\ rounds < MaxRounds /\ rounds' = rounds + 1
    /\ listed' \in SUBSET VM /\ todo' = listed' /\ stage' = "update"
    /\ left' = TotalMem /\ hungry' = hungry \cap listed'
    /\ UNCHANGED <<balloon, free, asked, swap, total_used, unserved, alloc>>

First(S) == CHOOSE v \in S : \A w \in S : v <= w

Used(v) == balloon[v] - free[v] + Overhead
Demand(v) == Used(v) + swap[v]

\* The loop over the guests: the VM's sample, its MinLoc, and its usage.
UpdateInfo ==
    /\ stage = "update" /\ todo # {}
    /\ LET v == First(todo) IN
        /\ todo' = todo \ {v}
        /\ \E b \in {balloon[v], asked[v], Configured[v]} : balloon' = [balloon EXCEPT ![v] = b]
        /\ \E f \in Frees : f <= balloon'[v] /\ free' = [free EXCEPT ![v] = f]
        /\ \E w \in Swaps : swap' = [swap EXCEPT ![v] = w]
        /\ alloc' = [alloc EXCEPT ![v] = MinLoc] /\ left' = left - MinLoc
        /\ total_used' = [total_used EXCEPT ![v] = @ + balloon'[v] - free'[v]]
        /\ hungry' = hungry \ {w \in {v} : \/ free'[v] # 0 \/ balloon'[v] # asked[v]
                                           \/ \E s \in Swaps : swap'[v] < s}
    /\ UNCHANGED <<stage, rounds, listed, asked, unserved>>

Rank ==
    /\ stage = "update" /\ todo = {} /\ stage' = "serve" /\ unserved' = listed
    /\ UNCHANGED <<rounds, listed, todo, balloon, free, asked, swap, total_used,
                   left, alloc, hungry>>

WeiAllo(v) == total_used[v] * InvWeight[v]

\* Deviation: the ranking is left out.
Unranked == unserved

\* The VMs that may come next in the ranking.
Lowest == {v \in unserved : \A w \in unserved : WeiAllo(v) <= WeiAllo(w)}

\* Deviation: MinLoc is served twice.
ServeTwice ==
    /\ stage = "serve" /\ left > 0
    /\ \E v \in Lowest :
        /\ unserved' = unserved \ {v}
        /\ LET more == IF Demand(v) <= MinLoc THEN 0
                       ELSE IF Demand(v) > left THEN left ELSE Demand(v)
           IN  alloc' = [alloc EXCEPT ![v] = @ + more] /\ left' = left - more
    /\ UNCHANGED <<stage, rounds, listed, todo, balloon, free, asked, swap,
                   total_used, hungry>>

\* The next VM gets what it wants above MinLoc, or what is left.
Serve ==
    /\ stage = "serve" /\ left > 0
    /\ \E v \in Lowest :
        /\ unserved' = unserved \ {v}
        /\ LET more == IF Demand(v) <= MinLoc THEN 0
                       ELSE IF Demand(v) - MinLoc > left THEN left
                       ELSE Demand(v) - MinLoc
           IN  alloc' = [alloc EXCEPT ![v] = @ + more] /\ left' = left - more
    /\ UNCHANGED <<stage, rounds, listed, todo, balloon, free, asked, swap,
                   total_used, hungry>>

\* setBalloon, of every VM that was ever listed; the entity of one that is not
\* listed now is an old one nobody looks at.  The balloon controller follows.
SetBalloons ==
    /\ stage = "serve" /\ (left <= 0 \/ unserved = {}) /\ stage' = "wait"
    /\ asked' = [v \in VM |-> IF v \in listed /\ MinLoc <= alloc[v] /\ alloc[v] <= Configured[v]
                              THEN alloc[v] ELSE asked[v]]
    /\ unserved' = {}
    /\ UNCHANGED <<rounds, listed, todo, balloon, free, swap, total_used, left,
                   alloc, hungry>>

Next == BeginRound \/ UpdateInfo \/ Rank \/ Serve \/ SetBalloons

Spec == Init /\ [][Next]_vars
-----------------------------------------------------------------------------
Wish(v) == IF Demand(v) > MinLoc THEN Demand(v) ELSE MinLoc
Done == stage = "serve" /\ (left <= 0 \/ unserved = {})

SumOf(f, S) == Sum([v \in VM |-> IF v \in S THEN f[v] ELSE 0])

\* The memory is filled in like water: nothing is left while a VM wants more,
\* nothing is given that is not there, apart from MinLoc, nobody gets more than
\* it wants, and a VM has more than MinLoc only if all the VMs that used less
\* for their weight have what they want.
WaterFilled ==
    Done =>
        /\ SumOf(alloc, listed) =
              LET wishes == SumOf([v \in VM |-> Wish(v)], listed)
                  least == Cardinality(listed) * MinLoc
              IN  IF wishes <= TotalMem THEN wishes
                  ELSE IF least <= TotalMem THEN TotalMem ELSE least
        /\ \A v \in listed : MinLoc <= alloc[v] /\ alloc[v] <= Wish(v)
        /\ \A v, w \in listed :
              WeiAllo(v) < WeiAllo(w) /\ alloc[w] > MinLoc => alloc[v] = Wish(v)

\* "Long-term Resource Fairness": two VMs of the same weight that always use all
\* they have, and want all there is, as with the most swap their demand is beyond
\* what is left, never part by more than what one round has beyond their MinLoc,
\* unless a balloon's maximum refuses an allocation.
WantAll == \E s \in Swaps : s + Overhead >= TotalMem - 2 * MinLoc
LongTermFair ==
    WantAll /\ 2 * MinLoc <= TotalMem =>
        \A v, w \in hungry :
            (/\ InvWeight[v] = InvWeight[w] /\ stage = "serve"
             /\ Configured[v] = Configured[w] /\ TotalMem <= Configured[v])
                => total_used[v] - total_used[w] <= TotalMem - 2 * MinLoc
=============================================================================
