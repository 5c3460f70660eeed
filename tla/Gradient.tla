------------------------------ MODULE Gradient ------------------------------
(***************************************************************************)
(* The gradient policy (GradientPolicy.py): a budget of memory is divided   *)
(* between the VMs.  After a warm-up with equal shares a round either moves *)
(* memory from the VM whose gradient of the fairness index is the lowest to *)
(* the one whose gradient is the highest, or, when some VMs are idle, evens *)
(* out the free memory.                                                     *)
(*                                                                          *)
(* Memory is counted in units, and a quotient is rounded down, as Python 2  *)
(* does with integers.  A speed is counted in fractions of One, the weight  *)
(* of a VM is given by its inverse: both are fractions in the code.         *)
(***************************************************************************)
EXTENDS Sums, FiniteSets

CONSTANTS N,              \* the number of VMs that may come
          TotalMem,       \* host.mem_available * total_mem_ratio
          Least,          \* attribute Min
          Configured,     \* attribute Configured (balloon_max) of each VM
          InvWeight,      \* 1 / Weight of each VM
          Limit2,         \* attribute Limit2: largest transfer
          Max_free,       \* from this much free memory on a VM is idle
          Overhead,       \* what updateUsed adds
          WARMUP_COUNT,
          One, Speeds,    \* the speed 1, and the speeds that are measured
          Frees,          \* the free memory that is measured
          MaxRounds       \* bound on rounds

VM == 1..N

ASSUME GradientAssumption ==
    /\ N \in Nat \ {0} /\ TotalMem \in Nat /\ Least \in Nat /\ Limit2 \in Nat
    /\ Max_free \in Nat /\ Overhead \in Nat
    /\ WARMUP_COUNT \in Nat \ {0} /\ MaxRounds \in Nat
    /\ Configured \in [VM -> Nat] /\ InvWeight \in [VM -> Nat \ {0}]
    /\ One \in Nat /\ Speeds \subseteq Int /\ Frees \subseteq Nat

VARIABLES pc,             \* where the engine's thread is in evaluate
          rounds,         \* rounds begun
          listed, todo,   \* guest_list, and what is left of the loop over it
          known,          \* the keys of VM_Infos
          count,          \* rounds of the warm-up
          allocated, balloon, free, speed,   \* attributes of the VM_Infos
          grad_direct,    \* VM_Info.grad_direct
          givers, takers, \* what the round transfers, by VM
          target,         \* balloon_target of the guests' entities
          asked           \* external: the size the hypervisor was last asked for

infoVars == <<known, balloon, free, speed>>
vars == <<pc, rounds, listed, todo, infoVars, count, allocated, grad_direct,
          givers, takers, target, asked>>

NoTransfer == [v \in {} |-> 0]

Init ==
    /\ pc = "wait" /\ rounds = 0 /\ listed = {} /\ todo = {} /\ known = {} /\ count = 0
    /\ allocated = [v \in VM |-> 0] /\ balloon = Configured
    /\ free = [v \in VM |-> 0] /\ speed = [v \in VM |-> 0]
    /\ grad_direct = [v \in VM |-> "N"]
    /\ givers = NoTransfer /\ takers = NoTransfer
    /\ target = NoTransfer /\ asked = Configured

-----------------------------------------------------------------------------
(* init_update_infos. *)

\* A round starts with the guests that are ready.
BeginRound ==
    /\ pc = "wait" /\ rounds < MaxRounds
    /\ rounds' = rounds + 1 /\ listed' \in SUBSET VM /\ todo' = listed'
    /\ pc' = "update" /\ target' = NoTransfer
    /\ UNCHANGED <<infoVars, count, allocated, grad_direct, givers, takers, asked>>

\* The guests are independent of each other: they are taken in the order of VM.
First(S) == CHOOSE v \in S : \A w \in S : v <= w

\* A balloon is where it was, where it was asked to be, or, after a restart of
\* the VM, empty.  A new VM has speed 0; that of a known one may be measured.
UpdateInfo ==
    /\ pc = "update" /\ todo # {}
    /\ LET v == First(todo) IN
        /\ known' = known \cup {v} /\ todo' = todo \ {v}
        /\ \E b \in {balloon[v], asked[v], Configured[v]} : balloon' = [balloon EXCEPT ![v] = b]
        /\ \E f \in Frees : f <= balloon'[v] /\ free' = [free EXCEPT ![v] = f]
        /\ \/ UNCHANGED speed
           \/ v \in known /\ \E s \in Speeds : speed' = [speed EXCEPT ![v] = s]
    /\ UNCHANGED <<pc, rounds, listed, count, allocated, grad_direct, givers, takers, target, asked>>

EndUpdate ==
    /\ pc = "update" /\ todo = {} /\ pc' = "evaluate"
    /\ UNCHANGED <<rounds, listed, todo, infoVars, count, allocated, grad_direct, givers, takers, target, asked>>

-----------------------------------------------------------------------------
(* The transfers. *)

Valid(v, share) == Least <= share /\ share <= Configured[v]

\* setBalloon, for a set of VMs with new allocations: the entity of a guest that
\* is not listed in this round is an old one nobody looks at.
Targets(S, shares) == [v \in {w \in S \cap listed : Valid(w, shares[w])} |-> shares[v]]

\* warm_up; without a VM the division ends the engine's thread.
WarmUp ==
    /\ pc = "evaluate" /\ count < WARMUP_COUNT /\ count' = count + 1
    /\ \/ /\ known = {} /\ pc' = "no_vm" /\ UNCHANGED <<allocated, target>>
       \/ /\ known # {} /\ pc' = "control"
          /\ allocated' = [v \in VM |-> IF v \in known THEN TotalMem \div Cardinality(known) ELSE 0]
          /\ target' = Targets(known, allocated')
    /\ UNCHANGED <<rounds, listed, todo, infoVars, grad_direct, givers, takers, asked>>

Idle == {v \in known : free[v] >= Max_free}

Rate(v) == speed[v] * InvWeight[v]
Rates == [v \in VM |-> IF v \in known THEN Rate(v) ELSE 0]
Squares == [v \in VM |-> Rates[v] * Rates[v]]

\* Deviation: the VM's own rate is only left out of the first sum.
GradientKeepsOwn(v) ==
    ((Sum(Squares) - Rate(v) * Rate(v)) - Rate(v) * Sum(Rates)) * InvWeight[v]

\* partial_derivative, with the sums over the other VMs.
GradientOf(v) ==
    ((Sum(Squares) - Rate(v) * Rate(v)) - Rate(v) * (Sum(Rates) - Rate(v))) * InvWeight[v]

\* update_gradient: it fails for a negative rate, and if nothing runs.
GradientsKnown == (\A v \in known : Rate(v) >= 0) /\ Sum(Squares) # 0

Reversed(v) ==
    \/ grad_direct[v] = "down" /\ GradientOf(v) > 0
    \/ grad_direct[v] = "up" /\ GradientOf(v) < 0

Direction(v) == IF GradientOf(v) < 0 THEN "down" ELSE IF GradientOf(v) > 0 THEN "up" ELSE grad_direct[v]

\* The choice of the loop in perf_fair; of equals, any may come first.
Best(S) == {v \in S : \A w \in S : GradientOf(w) <= GradientOf(v)}
Worst(S) == {v \in S : \A w \in S : GradientOf(v) <= GradientOf(w)}

\* Deviation: the search for the taker does not start at gradient 0.
AnyTaker == Best({v \in known : speed[v] < One})

TakerChoice == Best({v \in known : GradientOf(v) > 0 /\ speed[v] < One})
GiverChoice == Worst({v \in known : GradientOf(v) < 0})

\* final_blk.  Max-step is the configuration's string, which min() never picks
\* before a number; Limit1 is the giver's balloon above Min.
FinalBlk(g) == IF balloon[g] - Least < Limit2 THEN balloon[g] - Least ELSE Limit2

Evaluates == pc = "evaluate" /\ count = WARMUP_COUNT

Gives(g, t) == givers' = g /\ takers' = t

NoGradient ==
    /\ Evaluates /\ Idle = {} /\ ~GradientsKnown
    /\ Gives(NoTransfer, NoTransfer) /\ pc' = "trigger"
    /\ UNCHANGED <<rounds, listed, todo, infoVars, count, allocated, grad_direct, target, asked>>

\* perf_fair.
PerfFair ==
    /\ Evaluates /\ Idle = {} /\ GradientsKnown /\ \A v \in known : ~Reversed(v)
    /\ grad_direct' = [v \in VM |-> IF v \in known THEN Direction(v) ELSE grad_direct[v]]
    /\ \/ /\ TakerChoice = {} \/ GiverChoice = {}
          /\ Gives(NoTransfer, NoTransfer)
       \/ \E t \in TakerChoice, g \in GiverChoice :
             Gives([v \in {g} |-> -FinalBlk(g)], [v \in {t} |-> FinalBlk(g)])
    /\ pc' = "trigger"
    /\ UNCHANGED <<rounds, listed, todo, infoVars, count, allocated, target, asked>>

\* update_step halves a string: the exception ends the engine's thread.
HalveStep ==
    /\ Evaluates /\ Idle = {} /\ GradientsKnown /\ \E v \in known : Reversed(v)
    /\ Gives(NoTransfer, NoTransfer) /\ pc' = "step_error"
    /\ UNCHANGED <<rounds, listed, todo, infoVars, count, allocated, grad_direct, target, asked>>

Used(v) == balloon[v] - free[v] + Overhead
FreeOf(v) == IF Used(v) < Least THEN allocated[v] - Least ELSE free[v]
TotalFree == Sum([v \in VM |-> IF v \in known THEN FreeOf(v) ELSE 0])

\* Deviation: the share is rounded up.
MeanRoundedUp == -((-TotalFree) \div Cardinality(known))

MeanFree == TotalFree \div Cardinality(known)

\* utilization.
Utilization ==
    /\ Evaluates /\ Idle # {} /\ Idle # known
    /\ Gives([v \in {w \in known : MeanFree < FreeOf(w)} |-> MeanFree - FreeOf(v)],
             [v \in {w \in known : MeanFree >= FreeOf(w)} |-> MeanFree - FreeOf(v)])
    /\ pc' = "trigger"
    /\ UNCHANGED <<rounds, listed, todo, infoVars, count, allocated, grad_direct, target, asked>>

AllIdle ==
    /\ Evaluates /\ Idle # {} /\ Idle = known
    /\ Gives(NoTransfer, NoTransfer) /\ pc' = "trigger"
    /\ UNCHANGED <<rounds, listed, todo, infoVars, count, allocated, grad_direct, target, asked>>

Given(v) == IF v \in DOMAIN givers THEN givers[v] ELSE 0
Taken(v) == IF v \in DOMAIN takers THEN takers[v] ELSE 0

\* trigger_balloon of the givers and of the takers: the allocation changes even
\* when the balloon is refused.
TriggerBalloon ==
    /\ pc = "trigger" /\ pc' = "control"
    /\ allocated' = [v \in VM |-> allocated[v] + Given(v) + Taken(v)]
    /\ target' = Targets(DOMAIN givers \cup DOMAIN takers, allocated')
    /\ UNCHANGED <<rounds, listed, todo, infoVars, count, grad_direct, givers, takers, asked>>

\* The balloon controller asks the hypervisor for the targets.
ProcessBalloon ==
    /\ pc = "control" /\ pc' = "wait"
    /\ asked' = [v \in VM |-> IF v \in DOMAIN target THEN target[v] ELSE asked[v]]
    /\ UNCHANGED <<rounds, listed, todo, infoVars, count, allocated, grad_direct, givers, takers, target>>

Next ==
    \/ BeginRound \/ UpdateInfo \/ EndUpdate \/ WarmUp
    \/ NoGradient \/ PerfFair \/ HalveStep \/ Utilization \/ AllIdle
    \/ TriggerBalloon \/ ProcessBalloon

Spec == Init /\ [][Next]_vars
-----------------------------------------------------------------------------
\* Types; past the warm-up there is a VM to divide by.
TypeOK ==
    /\ pc \in {"wait", "update", "evaluate", "trigger", "control", "no_vm", "step_error"}
    /\ rounds \in 0..MaxRounds /\ count \in 0..WARMUP_COUNT
    /\ listed \in SUBSET VM /\ todo \in SUBSET listed /\ known \in SUBSET VM
    /\ allocated \in [VM -> Int] /\ balloon \in [VM -> Int] /\ asked \in [VM -> Int]
    /\ free \in [VM -> Nat] /\ speed \in [VM -> Speeds \cup {0}]
    /\ grad_direct \in [VM -> {"N", "up", "down"}]
    /\ \A f \in {givers, takers, target} :
          DOMAIN f \in SUBSET known /\ f \in [DOMAIN f -> Int]
    /\ (count = 0 \/ pc = "no_vm" \/ known # {})

\* What is allocated never exceeds the budget: not by rounding, not by transfers
\* that are refused, not by VMs that come late, are not ready, or have left.
BudgetKept == Sum(allocated) <= TotalMem

FairTransfer(g, t) ==
    pc = "trigger" /\ Idle = {} /\ g \in DOMAIN givers /\ t \in DOMAIN takers

\* Memory is moved to a VM that does worse for its weight than the giver.
TakerIsWorseOff == \A g, t \in known : FairTransfer(g, t) => Rate(t) < Rate(g)

\* If all VMs run, none at its full speed, and they do not all do equally well
\* for their weights, there is a transfer.
UnfairnessIsActedOn ==
    (/\ pc = "trigger" /\ Idle = {} /\ \A v \in known : speed[v] \in 1..One - 1
     /\ \E v, w \in known : Rate(v) # Rate(w))
    => \E g, t \in known : FairTransfer(g, t)

\* "Update max step for previous receiver and provider": a VM whose gradient
\* changes its sign gets a smaller step, and the round goes on.
StepIsUpdated == pc # "step_error"
=============================================================================
