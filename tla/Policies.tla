------------------------------ MODULE Policies ------------------------------
(***************************************************************************)
(* The policies the engine can be configured with, and the measurements    *)
(* they work on, side by side: a behaviour is about one of them, part.     *)
(* Two more parts, the steps the text of a policy goes through, parse and  *)
(* eval, are added in MCPolicies.  The gradient policy and the RP policy   *)
(* share their variables, as far as they have the same.                    *)
(***************************************************************************)
EXTENDS Gradient

CONSTANTS Min_share, AVE_LEN, Settled, RPRounds,                   \* RPPolicy
          WfmMem, MinLoc, Swaps, WfmFrees,                         \* WFMPolicy
          WfmSizes, WfmWeights, WfmRounds,                         \*   of one host
          Wfm3Sizes, Wfm3Weights, Wfm3Rounds,                      \*   of another
          FitLen, FitWindow, Progress, Ideals, MaxSamples,         \* Fitting
          Wrappers, Expiration, Values, MaxUpdates, MaxRefusals,   \* VdsmInterfaces
          Width, Interval, MaxCount, MaxPasses                     \* Counters

ASSUME PoliciesAssumption ==
    /\ Min_share \in Nat \ {0} /\ AVE_LEN \in Nat \ {0} /\ Settled \in Nat /\ RPRounds \in Nat
    /\ WfmMem \in Nat /\ MinLoc \in Nat /\ Swaps \subseteq Nat /\ WfmFrees \subseteq Nat
    /\ WfmSizes \in Seq(Nat) /\ WfmWeights \in [DOMAIN WfmSizes -> Nat \ {0}]
    /\ Wfm3Sizes \in Seq(Nat) /\ Wfm3Weights \in [DOMAIN Wfm3Sizes -> Nat \ {0}]
    /\ FitLen \in Nat \ {0} /\ FitWindow \in Nat \ {0}
    /\ Progress \subseteq Nat /\ Ideals \subseteq Int
    /\ "old" \in Values /\ "nothing" \notin Values
    /\ Values \cap {"None", "KeyError", "HypervisorInterfaceError"} = {}
    /\ Expiration \in Nat /\ Width \in Nat \ {0} /\ Interval \in Nat \ {0}

VARIABLES part,
          phase, start, warmups, last_fair, num_fair, message,
          stage, wRounds, wListed, wTodo, wBalloon, wFree, wAsked, swap,
          total_used, left, unserved, alloc, hungry,
          users, ave_users, standard_users, ins_speed, status, ideals,
          wrapper, guest, updates, refusals, stats, tune, policy, last, seen,
          collector, counter, exited, prev, cur, prev_faults, last_jiff, total, first,
          read, passes

RP == INSTANCE RPPolicy WITH MaxRounds <- RPRounds
WFM(sizes, weights, max) == INSTANCE WFMPolicy WITH
    TotalMem <- WfmMem, Configured <- sizes, InvWeight <- weights,
    Frees <- WfmFrees, MaxRounds <- max, rounds <- wRounds, listed <- wListed,
    todo <- wTodo, balloon <- wBalloon, free <- wFree, asked <- wAsked
Fit == INSTANCE Fitting WITH AVE_LEN <- FitLen, WINDOW <- FitWindow
Vdsm == INSTANCE VdsmInterfaces
Counting == INSTANCE Counters

sharedVars == <<rounds, listed, todo, infoVars, allocated, givers, takers, target, asked>>
gradientOnly == <<pc, count, grad_direct>>
rpOnly == <<phase, start, warmups, last_fair, num_fair, message>>
wfmVars == <<stage, wRounds, wListed, wTodo, wBalloon, wFree, wAsked, swap,
             total_used, left, unserved, alloc, hungry>>
fitVars == <<users, ave_users, standard_users, ins_speed, status, ideals>>
vdsmVars == <<wrapper, guest, updates, refusals, stats, tune, policy, last, seen>>
countVars == <<collector, counter, exited, prev, cur, prev_faults, last_jiff, total,
               first, read, passes>>
measured == <<fitVars, vdsmVars, countVars>>
partsVars == <<part, sharedVars, gradientOnly, rpOnly, wfmVars, measured>>

Parts == {"gradient", "rp", "wfm", "wfm3", "parse", "eval", "fitting", "vdsm", "counters"}

PartsInit ==
    /\ part \in Parts
    /\ Init /\ RP!Init /\ Fit!Init /\ Vdsm!Init /\ Counting!Init
    /\ IF part = "wfm3" THEN WFM(Wfm3Sizes, Wfm3Weights, Wfm3Rounds)!Init
                        ELSE WFM(WfmSizes, WfmWeights, WfmRounds)!Init
    /\ part # "vdsm" => wrapper = "api" /\ guest = Vdsm!NoGuest
    /\ part # "counters" => collector = "HostKSM" /\ counter = 0

GradientMoves == part = "gradient" /\ Next /\ UNCHANGED <<part, rpOnly, wfmVars, measured>>
RPMoves == part = "rp" /\ RP!Next /\ UNCHANGED <<part, gradientOnly, wfmVars, measured>>
WFMMoves ==
    /\ \/ part = "wfm" /\ WFM(WfmSizes, WfmWeights, WfmRounds)!Next
       \/ part = "wfm3" /\ WFM(Wfm3Sizes, Wfm3Weights, Wfm3Rounds)!Next
    /\ UNCHANGED <<part, sharedVars, gradientOnly, rpOnly, measured>>
FitMoves ==
    /\ part = "fitting" /\ Fit!Next
    /\ UNCHANGED <<part, sharedVars, gradientOnly, rpOnly, wfmVars, vdsmVars, countVars>>
VdsmMoves ==
    /\ part = "vdsm" /\ Vdsm!Next
    /\ UNCHANGED <<part, sharedVars, gradientOnly, rpOnly, wfmVars, fitVars, countVars>>
CountersMove ==
    /\ part = "counters" /\ Counting!Next
    /\ UNCHANGED <<part, sharedVars, gradientOnly, rpOnly, wfmVars, fitVars, vdsmVars>>

PartsNext ==
    GradientMoves \/ RPMoves \/ WFMMoves \/ FitMoves \/ VdsmMoves \/ CountersMove

PartsSpec == PartsInit /\ [][PartsNext]_partsVars
-----------------------------------------------------------------------------
(* The properties of the parts, see the modules. *)

\* RPPolicy.dynamic_allocate: who gives to whom, and how much.
TransferIsFair == part = "rp" => RP!TransferIsFair

\* WFMPolicy.evaluate: the budget is filled in by rank.
WaterFilled ==
    /\ part = "wfm" => WFM(WfmSizes, WfmWeights, WfmRounds)!WaterFilled
    /\ part = "wfm3" => WFM(Wfm3Sizes, Wfm3Weights, Wfm3Rounds)!WaterFilled

\* WFMPolicy: what equal VMs have used does not drift apart.
LongTermFair == part = "wfm" => WFM(WfmSizes, WfmWeights, WfmRounds)!LongTermFair

\* Fitting.getSpeed: what the mean of a VM's speed is taken over.
EverySampleIsRated == part = "fitting" => Fit!EverySampleIsRated

\* The guest collectors over any of the ways to VDSM.
SampleIsVdsms == part = "vdsm" => Vdsm!SampleIsVdsms

\* HostMemory, GuestQemuProc and HostKSM: the growth of counters.
CountersAddUp == part = "counters" => Counting!CountersAddUp
=============================================================================
